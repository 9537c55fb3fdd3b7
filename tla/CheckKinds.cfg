SPECIFICATION Spec
CONSTANTS
    Hosts = {h1}
    Values = {1, 2}
    Threshold = 2
    CheckTypes = {"<", "<=", ">", ">=", "=="}
    Frequency = 1
    AllowedFailures = 0
    ExpectedHosts = 1
    MaxGap = 4
    MaxDelay = 1
    MaxLag = 1
    None = None
    WebDebounces = {0, 2}
    RecentLimit = 2
    MaxResults = 4
    Null = Null
INVARIANTS
    TypeOK
    ReportIsExact
PROPERTIES
    SpikesAreSeen
    HttpConverges
