\* The check may be deleted and everything then stops: not a deadlock.
CHECK_DEADLOCK FALSE
SPECIFICATION AuditSpec
CONSTANTS
    Runners = {r1}
    Editors = {e1}
    Debounces = {0, 1}
    RecentLimit = 2
    MaxCrashes = 1
    Gone = Gone
INVARIANTS
    TypeOK
    SettledVerdict
PROPERTIES
    StatusConverges
    ServiceConverges
    AbandonedStaysDeleted
    RunsKeepTheRow
