SPECIFICATION Spec
CONSTANTS
    Identity = {i1, i2, i3}
    WgKey = {w1, w2, w3}
    NodeId = {n1, n2, n3}
    Token = {t1, t2, t3, t4}
    Report <- OneReport
    here = here
    HostCount = 3
    TTL = 5
    Call <- Calls
    None = None
    Absent = Absent
    Torn = Torn
    ForeignKeys = TRUE
    DbErrors = FALSE
    GRACE = 3
    Commands <- SetUpAndRefresh
    Budget <- NoFaults
PROPERTIES
    NeverLosesAuth
CHECK_DEADLOCK FALSE
