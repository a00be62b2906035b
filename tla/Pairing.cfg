SPECIFICATION Spec
CONSTANTS
    Calls = {c1, c2}
    Codes = {k1, k2}
    TTL = 1
    MaxTime = 1
    None = None
INVARIANTS TypeOK OneDecisionUnlessLate DecidingIsCarried
PROPERTIES NoReturnUnlessLate DecidingEnds
