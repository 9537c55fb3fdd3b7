SPECIFICATION MCSpec
CONSTANTS
    e1 = e1
    e2 = e2
    u1 = u1
    u2 = u2
    Events = {e1, e2}
    Recurring = {}
    MaxVersion = 1
    Users = {u1, u2}
    Officer <- Handover
    Updaters = {w1, w2}
    Sessions = {s1, s2}
    MaxCrashes = 1
INVARIANTS
    TypeOK
    AlertsHaveOfficers
    DuplicatesNeedOverlap
    RotaIsExact
PROPERTIES
    CurrentShiftIsKept
    RotaConverges
