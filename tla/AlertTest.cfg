SPECIFICATION TestSpec
CONSTANTS
    e1 = e1
    e2 = e2
    u1 = u1
    u2 = u2
    Events = {e1, e2}
    Recurring = {e2}
    MaxVersion = 1
    Users = {u1, u2}
    Officer <- Handover
    Updaters = {w1}
    Sessions = {}
    MaxCrashes = 0
    Tester = u1
    Subscribers = {u2}
INVARIANTS
    OnlyTesterIsAlerted
