CONSTANTS
    d1 = d1
    d2 = d2
    NodeId = {n1, n2}
    NodeStat = {"NORMAL", "COMMERR"}
    DevStat = {"NORMAL", "ERROR"}
    Env = {0}
    Gid = {d1, d2}
    GidList <- OneOrTwo
    Absent = Absent
    DevType = {"SNODE", "SENSOR"}
    Var = {v1}
    Block = {b1, b2, b3}
    Null = Null
    Free = Free
    AllocFails = {"node", "set"}
    Misuse = {"resubmit", "reinit", "invalid", "failed"}
    Uninit = Uninit
    Crash = Crash
SPECIFICATION Spec
SYMMETRY Symmetry
INVARIANTS TypeOK ReportRead
PROPERTIES LossOnlyWithSet
CHECK_DEADLOCK FALSE
