\* Every question while up to three sessions start, end and are evicted.
SPECIFICATION Spec
CONSTANTS
    i1 = i1  i2 = i2  i3 = i3
    ra = ra  rb = rb  rnul = rnul  ok = ok  bad = bad  none = none
    Sessions = {1, 2, 3}
    Idents = {i1, i2, i3}
    Runnables = {ra, rb, rnul}
    BeforeNul <- MCBeforeNul
    EmptyText = EmptyText
    Starts = {0, 1}
    Results = {ok, bad}
    NoResult = none
    MaxOrder = 4
    MaxRecords = 3
    DefaultRecords = 2
    NoFile = NoFile
    Corrupt = Corrupt
    Future = Future
    Requests <- ReaderRequests
    Legacy = {}
    DamagedInit = {}
    RecordSize <- Sizes
    ListSize = 1
    Questions <- Asked
PROPERTY ClientAnswered
CHECK_DEADLOCK FALSE
