SPECIFICATION Spec
CONSTANTS
    Refreshers = {r1}
    Waiters = {w1}
    MaxJobs = 2
    MaxFaults = 1
    None = None
INVARIANTS TypeOK OneRoundUnlessRobbed
PROPERTIES ActsAsStore EveryoneIsAnswered
