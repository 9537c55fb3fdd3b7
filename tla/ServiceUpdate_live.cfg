SPECIFICATION FairSpec
CONSTANTS
    Workers = {w1, w2}
    Editors = {}
    Users = {u1}
    Importances = {"ERROR"}
    AlertInterval = 1
    NotificationInterval = 1
    AckExpiry = 1
    Horizon = 2
    MaxQueue = 1
    MaxCrashes = 1
    None = None
PROPERTIES
    StatusConverges
    FailureIsPaged
