\* Ticks that do not overlap, on more rows than fit into a batch.
SPECIFICATION FairSpec
CONSTANTS
    t1 = t1
    loop = loop
    button = button
    Deliveries = {1, 2, 3}
    Targets = {t1}
    Tickers = {loop}
    Loop = loop
    MaxAttemptsValues = {1, 2}
    DefaultMaxAttempts = 2
    BatchLimit = 2
    MaxFaults = 1
INVARIANTS
    AttemptsWithinLimit
    QueuedHasAttemptsLeft
    OneHandOverPerFault
PROPERTIES
    SettledIsTerminal
    ImplementsLifecycle
