SPECIFICATION Spec
CONSTANTS
    n1 = n1
    n2 = n2
    n3 = n3
    r1 = r1
    f1 = f1
    f2 = f2
    cli = cli
    other = other
    desktop = desktop
    None = None
    NodeWriters = {n3}
    PolicyWriters = {}
    FoldWriters = {f1, f2}
    Processes = {other, desktop}
    ProcessOf <- Placement
    AttemptLimit = 2
    MaxJobs = 1
    MaxCrashes = 1
    MaxFaults = 1
    MayElapse = TRUE
INVARIANTS NoLostUpdateUnlessRobbed OneSession WrittenOnce
