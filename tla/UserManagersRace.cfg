\* Two administrators at once.
CONSTANTS
    Users = {u1, u2}
    FirstUser = u1
    CustomRoles = {custom}
    UserAdmin = UserAdmin
    Admins = {q1, q2}
SPECIFICATION ManagersSpec
SYMMETRY Symmetry
CHECK_DEADLOCK FALSE
INVARIANTS
    SomebodyManagesUsers
