SPECIFICATION Spec
CONSTANTS
    p1 = p1  p2 = p2  n1 = n1  n2 = n2  a1 = a1  a2 = a2  v1 = v1  v2 = v2
    Operations = {"install", "verify", "repair", "move", "uninstall", "recovery"}
    Products = {p1, p2}
    Versions = {n1, n2}
    Places = {a1, a2}
    Verifications = {v1, v2}
    Providers = {s1, s2}
    Inputs = {i1, i2}
    Faults = {"version", "product", "install", "lifecycle", "verification", "audit", "leftover", "provider"}
    FirstReferences <- AnyFirst
    MaxPlans = 1
    MaxRevision = 2
    NoText = NoText  NoRef = NoRef  NoPlan = NoPlan  NoState = NoState
    NoBinding = NoBinding  NoRefresh = NoRefresh
INVARIANT SingleOrigin
PROPERTIES IdentityFixed AnswersAgree
