\* Two processes write, inspect, look up and list, with one fault or crash.
SPECIFICATION Spec
SYMMETRY MCSymmetry
CONSTANTS
    p1 = p1  p2 = p2  i1 = i1  i2 = i2  i3 = i3  i4 = i4
    ra = ra  rb = rb  rnul = rnul  rcut = rcut  ok = ok  bad = bad  none = none
    Procs = {p1, p2}
    NoProc = NoProc
    Sessions = {1, 2, 3}
    Idents = {i1, i2, i3, i4}
    Runnables = {ra, rb, rnul, rcut}
    BeforeNul <- MCBeforeNul
    EmptyText = EmptyText
    Starts = {0, 1}
    Results = {ok, bad}
    NoResult = none
    MaxOrder = 3
    MaxRecords = 3
    DefaultRecords = 2
    NoFile = NoFile
    Corrupt = Corrupt
    Future = Future
    Requests <- RaceRequests
    Legacy = {}
    DamagedInit = {}
    Maxima = {1, 0}
    InspectIds = {1}
    LastRunKeys = {ra, EmptyText}
    Limits = {0, 1}
    NoCall = NoCall
    NoRecord = NoRecord
    NoReply = NoReply
    MaxFaults = 1
INVARIANTS TypeOK IdentityUnique OrdersDistinct WriteAnswersTrue WindowHonoured ReadersCurrent
PROPERTIES TerminalImmutable RankStable ImplementsStore
