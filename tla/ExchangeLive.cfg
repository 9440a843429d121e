SPECIFICATION FairSpec
CONSTANTS
    o = o
    g1 = g1
    i1 = i1
    i2 = i2
    s1 = s1
    s2 = s2
    z = z
    GosProc = {o}
    GcgProc = {g1}
    GosId = {s1}
    GcgId = {i1}
    GosType = {"ACTCTRL"}
    GcgType = {"CONNAPPROVAL"}
    AppType = {"PROFQUERY"}
    UserCb = {"answer"}
    UserType = {"ACTCTRL"}
    ZeroId = z
    SeqMax = 2
    MaxGcg = 1
    MaxInit = 1
    MaxReq = 1
INVARIANTS
    TypeOK
    EchoesRequest
PROPERTIES
    RequestAnswered
CHECK_DEADLOCK FALSE
