SPECIFICATION MCSpec
CONSTANTS
    Thread = {w1, w2}
    Server = {w1, w2}
    Caller = {w1, w2}
    Call = {w1, w2}
    Source = {x1, x2, x3}
    Token = {t1, t2}
    Engine = {y1, y2}
    Analysis = {y1, y2}
    Id = {y1, y2}
    Bytes = {z1, z2}
    Machine = {z1, z2}
    File = {f1}
    Missing = Missing
    Unreadable = Unreadable
    None = None
    MaxChanges = 2
    MaxRequests = 3
    Name = {n1, n2}
    Nobody = Nobody
    MaxEndpoints = 1
    MaxMishaps = 1
    Case = {c1}
    LegacyCase = c1
    NoCase = NoCase
    Job = {j0, j1}
    LegacyJob = j0
    NoJob = NoJob
    MaxClears = 2
    NoEngine = NoEngine
    MaxTrouble = 1
SYMMETRY Symmetry
CHECK_DEADLOCK FALSE
INVARIANTS
    RecordTypes
    SourcesTrusted
    AnalysesAccounted
    EnrolledOnce
    LogHolds
    RecoveryAlone
    SoleEngine
PROPERTIES
    FullGrantsNothing
    ImplementsAuthority
