\* Intervals of 2 and 4 minutes keep the order of the defaults (10 and 120);
\* ages saturate at the longer one.
SPECIFICATION FairSpec
CONSTANTS
    AlertInterval = 2
    NotificationInterval = 4
    Horizon = 4
    None = None
INVARIANTS
    TypeOK
    LastAlertIsLastNotice
    UsersAreInformed
PROPERTIES
    RepeatsAreThrottled
    FailureIsRepeated
