CONSTANTS
    None = None
    Names = {admin, ann}
    Admin = admin
    Operators = {o1, o2}
    MaxId = 4
SPECIFICATION Spec
SYMMETRY OperatorSymmetry
INVARIANTS
    LastUserRemains
