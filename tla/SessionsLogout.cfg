\* A logout in one tab beside a refresh in another.
CONSTANTS
    Requests = {t1, t2}
    MaxLogins = 1
    MaxChain = 1
    Locks = TRUE
    Logouts = TRUE
    MaxLosses = 0
    Clients = {FALSE}
SPECIFICATION SessionsSpec
SYMMETRY Symmetry
CHECK_DEADLOCK FALSE
INVARIANTS
    LogoutIsFinal
