SPECIFICATION Spec
CONSTANTS
    c1 = c1  c2 = c2  login = login
    Calls = {c1, c2, login}
    CredsCalls = {login}
    Leavers = {c1}
    Kind <- MCKind
    MaxCrashes = 1
    NoCall = NoCall
INVARIANTS AnswerIsForTheCall MessageIsNotOverwritten OldestIsTimed CredentialsFirst
PROPERTIES EveryCallAnswered
CHECK_DEADLOCK FALSE
