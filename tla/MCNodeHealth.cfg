\* The dial may outlast two ticks of the ticker.
CONSTANTS
    Interval = 2
    Timeout = 5
SPECIFICATION FairSpec
INVARIANTS
    CheckIsRecent
    HealthyIsRecent
PROPERTIES
    LossIsNoticed
