SPECIFICATION Spec
CONSTANTS
    Clis = {}
    Desktops = {d1}
    Accounts = {a1}
    Home = a1
    None = None
    Unreadable = Unreadable
    MaxLogin = 0
    MaxTime = 3
    Lag = 0
    MaxFaults = 1
    MaxAccounts = 2
    Lease = 2
    Spacing = 1
    Provisional = 2
    Day = 4
    Backoffs = {2}
    Cadences = {1}
INVARIANT RefusedLoginWaits
