CONSTANTS
    d1 = d1
    d2 = d2
    NodeId = {n1, n2, n3}
    NodeStat = {"NORMAL", "COMMERR"}
    DevStat = {"NORMAL", "ERROR"}
    Env = {0}
    Gid = {d1, d2}
    GidList <- EmptyOrOne
    Absent = Absent
    DevType = {"SNODE", "SENSOR"}
    Var = {v1, v2}
    Block = {b1, b2, b3}
    Null = Null
    Free = Free
    AllocFails = {"node"}
    Misuse = {}
    Uninit = Uninit
    Crash = Crash
SPECIFICATION Spec
SYMMETRY Symmetry
INVARIANTS DistinctIds NoFault Ownership NoLeak DevCount
PROPERTIES ImplementsRegistry
