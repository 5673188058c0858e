\* Six items: the root, its four children and a grandchild.
SPECIFICATION Spec
SYMMETRY Symmetry
CONSTANTS
    Handler = {p, a, b, c, d, e}
    Periodic = {p}
    None = None
    MaxLate = 1
    Delay = {1, 2}
    MaxItems = 6
    Events = {"cancel", "nested"}
INVARIANTS
    TypeOK
    OneItemEach
    MinIsFirst
    ArmedInTime
    NeverDead
