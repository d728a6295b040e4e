CONSTANTS
    None = None
    Names = {admin, ann, bob}
    Admin = admin
    Operators = {o1, o2}
    MaxId = 4
SPECIFICATION Spec
SYMMETRY OperatorSymmetry
INVARIANTS
    LastUserIsKept
    StaleIdIsHarmless
PROPERTIES
    ImplementsRegister
