\* Commands one at a time or at once, killed once.
SPECIFICATION Spec
CONSTANTS
    b1 = b1  b2 = b2  r1 = r1  r2 = r2  dev = dev  main = main
    Runs = {r1, r2}
    Branches = {b1, b2}
    Targets = {dev, main}
    None = none  Torn = torn
    MaxTrees = 1
    MaxCrashes = 1
    Scenes <- MCScenes
INVARIANT NothingLost
PROPERTIES RetiresOnlyMerged ActiveRootsRetained
