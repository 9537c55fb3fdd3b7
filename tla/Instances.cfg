\* Two instances may end up without checks, and everything then stops: not a
\* deadlock.
CHECK_DEADLOCK FALSE
SPECIFICATION Spec
CONSTANTS
    Ids = {i1, i2}
    Checks = {c1, c2}
    Icmp = {c1, c2}
    MaxDisturbances = 1
INVARIANTS
    TypeOK
PROPERTIES
    QuietSnapshotIsExact
    InstanceConverges
