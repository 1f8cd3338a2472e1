\* A rotation beside a change of the password.
CONSTANTS
    Requests = {r1, r2}
    MaxLogins = 1
    MaxChain = 1
SPECIFICATION Spec
PROPERTIES
    PasswordChangeEndsSessions
