SPECIFICATION Spec
CONSTANTS
    c1 = c1  c2 = c2  login = login
    Calls = {c1, c2, login}
    CredsCalls = {login}
    Leavers = {}
    Kind <- MCKind
    MaxCrashes = 1
    NoCall = NoCall
INVARIANT NoCallLost
CHECK_DEADLOCK FALSE
