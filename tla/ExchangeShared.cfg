SPECIFICATION Spec
CONSTANTS
    o = o
    g1 = g1
    i1 = i1
    i2 = i2
    s1 = s1
    s2 = s2
    z = z
    GosProc = {o}
    GcgProc = {o}
    GosId = {s1}
    GcgId = {i1, i2}
    GosType = {}
    GcgType = {"CONNAPPROVAL"}
    AppType = {}
    UserCb = {}
    UserType = {}
    ZeroId = z
    SeqMax = 2
    MaxGcg = 1
    MaxInit = 1
    MaxReq = 1
PROPERTIES
    ApprovalSound
CHECK_DEADLOCK FALSE
