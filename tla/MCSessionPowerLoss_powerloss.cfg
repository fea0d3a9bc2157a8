\* Power fails twice, anywhere in a write or between two.
SPECIFICATION PowerSpec
CONSTANTS
    p1 = p1  i1 = i1  i2 = i2  i3 = i3
    ra = ra  rnul = rnul  ok = ok  none = none
    Procs = {p1}
    NoProc = NoProc
    Sessions = {1, 2, 3}
    Idents = {i1, i2, i3}
    Runnables = {ra, rnul}
    BeforeNul <- MCBeforeNul
    EmptyText = EmptyText
    Starts = {0, 1}
    Results = {ok}
    NoResult = none
    MaxOrder = 5
    MaxRecords = 3
    DefaultRecords = 2
    NoFile = NoFile
    Corrupt = Corrupt
    Future = Future
    Requests <- LossRequests
    Legacy = {}
    DamagedInit = {}
    Maxima = {1, 0}
    InspectIds = {}
    LastRunKeys = {}
    Limits = {}
    NoCall = NoCall
    NoRecord = NoRecord
    NoReply = NoReply
    MaxFaults = 0
    MaxLosses = 2
INVARIANTS SurvivesPowerLoss DiskOrdersDistinct
