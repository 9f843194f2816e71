\* Two overlapping ticks on one row.
SPECIFICATION FairSpec
CONSTANTS
    t1 = t1
    loop = loop
    button = button
    Deliveries = {1}
    Targets = {t1}
    Tickers = {loop, button}
    Loop = loop
    MaxAttemptsValues = {0, 2}
    DefaultMaxAttempts = 3
    BatchLimit = 1
    MaxFaults = 2
INVARIANTS
    DeliveredWasHandedOver
    AttemptsVersionTheRow
    GivenUpOnlyWhenExhausted
    HandOversAreAccounted
    AttemptsBounded
    QueueInv
PROPERTIES
    ReopenedOnlyByOutdatedTick
    EveryRowSettles
    ImplementsLifecycle
