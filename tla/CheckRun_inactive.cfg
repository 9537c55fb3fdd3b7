\* The check may be deleted and everything then stops: not a deadlock.
CHECK_DEADLOCK FALSE
SPECIFICATION Spec
CONSTANTS
    Runners = {r1}
    Editors = {e1}
    Debounces = {0}
    RecentLimit = 1
    MaxCrashes = 0
    Gone = Gone
PROPERTIES
    RunsNeverActivate
