CONSTANTS
    d1 = d1
    d2 = d2
    NodeId = {n1, n2}
    NodeStat = {"NORMAL"}
    DevStat = {"NORMAL"}
    Env = {0}
    Gid = {d1, d2}
    GidList <- OneOrTwo
    Absent = Absent
    DevType = {"SNODE"}
    Var = {v1}
    Block = {b1, b2}
    Null = Null
    Free = Free
    AllocFails = {"set"}
    Misuse = {}
    Uninit = Uninit
    Crash = Crash
SPECIFICATION Spec
PROPERTIES CountsNodes
