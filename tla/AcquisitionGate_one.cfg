SPECIFICATION Spec
CONSTANTS
    Clis = {c1}
    Desktops = {d1}
    Accounts = {a1}
    Home = a1
    None = None
    Unreadable = Unreadable
    MaxLogin = 1
    MaxTime = 3
    Lag = 0
    MaxFaults = 1
    MaxAccounts = 2
    Lease = 2
    Spacing = 1
    Provisional = 2
    Day = 2
    Backoffs = {3}
    Cadences = {1}
INVARIANT DocumentValid
INVARIANT TypeOK
INVARIANT HonoursLimitsUnlessTornOrMet
INVARIANT LeaseEndsSoon
PROPERTY OnlyHolderWrites
