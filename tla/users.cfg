CONSTANTS
    u1 = u1
    u2 = u2
    u3 = u3
    h1 = h1
    h2 = h2
    Users = {u1, u2, u3}
    Handlers = {h1, h2}
    Faults = {"list", "count", "write"}
SPECIFICATION Spec
SYMMETRY Symmetry
PROPERTY LastAdminGuarded
CHECK_DEADLOCK FALSE
