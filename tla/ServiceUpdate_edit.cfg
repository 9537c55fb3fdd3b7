SPECIFICATION FairSpec
CONSTANTS
    Workers = {w1}
    Editors = {e1}
    Users = {}
    Importances = {"WARNING", "CRITICAL"}
    AlertInterval = 1
    NotificationInterval = 2
    AckExpiry = 0
    Horizon = 2
    MaxQueue = 1
    MaxCrashes = 1
    None = None
PROPERTIES
    StatusConverges
    FailureIsPaged
