CONSTANTS
    Block = {b1, b2, b3, b4, b5, b6}
    Null = Null
    FieldStep = 2
    AllocFails = {"data", "frame"}
    MaxFields = 3
SPECIFICATION Spec
SYMMETRY Symmetry
INVARIANTS TypeOK NoFault Ownership
PROPERTIES LossOnlyAt
CHECK_DEADLOCK FALSE
