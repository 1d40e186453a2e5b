SPECIFICATION Spec
CONSTANTS
    direct = direct
    Identity = {i1, i2}
    WgKey = {w1, w2}
    NodeId = {n1, n2}
    Token = {t1, t2, t3}
    Report <- OneReport
    HostCount = 2
    TTL = 1
    Call = {c1, c2, c3}
    None = None
    ForeignKeys = FALSE
    DbErrors = TRUE
SYMMETRY Renamings
INVARIANTS
    TypeOK
    ReservedAddresses
PROPERTIES
    LostOnlyByFailure
    KeepsPromise
CHECK_DEADLOCK FALSE
