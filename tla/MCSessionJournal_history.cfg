\* One process on directories that the v1 library left, with damaged and future
\* files, through every kind of request and one fault or crash.
SPECIFICATION FairSpec
CONSTANTS
    p1 = p1  p2 = p2  i1 = i1  i2 = i2  i3 = i3  i4 = i4
    ra = ra  rb = rb  rnul = rnul  rcut = rcut  ok = ok  bad = bad  none = none
    Procs = {p1}
    NoProc = NoProc
    Sessions = {1, 2, 3, 4}
    Idents = {i1, i2, i3, i4}
    Runnables = {ra, rb, rnul, rcut}
    BeforeNul <- MCBeforeNul
    EmptyText = EmptyText
    Starts = {0, 1}
    Results = {ok, bad}
    NoResult = none
    MaxOrder = 3
    MaxRecords = 3
    DefaultRecords = 2
    NoFile = NoFile
    Corrupt = Corrupt
    Future = Future
    Requests <- HistoryRequests
    Legacy <- V1Records
    DamagedInit = {Corrupt, Future}
    Maxima = {1, 0, 4}
    InspectIds = {4}
    LastRunKeys = {ra, rnul, rcut}
    Limits = {0, 4}
    NoCall = NoCall
    NoRecord = NoRecord
    NoReply = NoReply
    MaxFaults = 1
PROPERTIES FailClosed AdmittedIsNewest HolderReleases
