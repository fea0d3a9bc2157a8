SPECIFICATION ReadySpec
CONSTANTS
    p1 = p1  p2 = p2  n1 = n1  a1 = a1  v1 = v1  v2 = v2  f1 = f1
    Operations = {"install", "verify", "uninstall"}
    Products = {p1, p2}
    Versions = {n1}
    Places = {a1}
    Verifications = {v1, v2}
    Providers = {s1}
    Inputs = {i1}
    Faults = {"install"}
    FirstReferences <- MCFirst
    MaxPlans = 2
    MaxRevision = 3
    NoText = empty  NoRef = NoRef  NoPlan = NoPlan  NoState = NoState
    NoBinding = NoBinding  NoRefresh = NoRefresh
    Identifiers <- MCIdentifiers
    Empty = empty
    Bad = bad
    Absent = absent
    Self = self
    Profiles = {f1}
    MaxBindings = 2
    NoInstance = NoInstance  NoLaunch = NoLaunch
INVARIANTS FreshMeansUnchanged GraphFreshMeansUnchanged QuestionsAgree
PROPERTY NoRollback
