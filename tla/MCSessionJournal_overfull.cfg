SPECIFICATION Spec
CONSTANTS
    p1 = p1  p2 = p2  i1 = i1  i2 = i2  i3 = i3  i4 = i4
    ra = ra  rb = rb  rnul = rnul  rcut = rcut  ok = ok  bad = bad  none = none
    Procs = {p1}
    NoProc = NoProc
    Sessions = {1, 2, 3, 4}
    Idents = {i1, i2, i3, i4}
    Runnables = {ra, rb, rnul, rcut}
    BeforeNul <- MCBeforeNul
    EmptyText = EmptyText
    Starts = {0, 1}
    Results = {ok, bad}
    NoResult = none
    MaxOrder = 3
    MaxRecords = 2
    DefaultRecords = 2
    NoFile = NoFile
    Corrupt = Corrupt
    Future = Future
    Requests <- HistoryRequests
    Legacy = {}
    DamagedInit = {}
    Maxima = {2}
    InspectIds = {}
    LastRunKeys = {}
    Limits = {}
    NoCall = NoCall
    NoRecord = NoRecord
    NoReply = NoReply
    MaxFaults = 0
INVARIANTS ReadableAtRest
