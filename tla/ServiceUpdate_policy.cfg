SPECIFICATION SerialSpec
CONSTANTS
    Workers = {w1, w2}
    Editors = {e1}
    Users = {}
    Importances = {"WARNING", "CRITICAL"}
    AlertInterval = 1
    NotificationInterval = 2
    AckExpiry = 1
    Horizon = 2
    MaxQueue = 1
    MaxCrashes = 1
    None = None
SYMMETRY WorkersAreAlike
INVARIANTS
    AuditTypeOK
    SettledIsAccurate
PROPERTIES
    ImplementsPolicy
