SPECIFICATION Spec
CONSTANTS
    Calls = {c1, c2, c3}
    Codes = {k1}
    TTL = 1
    MaxTime = 1
    None = None
INVARIANT OneDecision
