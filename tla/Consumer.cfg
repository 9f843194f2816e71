\* One event handed over twice, a rule that names one target twice,
\* ticks that may overlap.
SPECIFICATION PipeFairSpec
CONSTANTS
    e1 = e1
    t1 = t1
    t2 = t2
    Events = {e1}
    Targets = {t1}
    Rules = {1}
    RuleConfigs <- OneTargetTwice
    MaxRuns = 2
    MaxFaults = 1
    MaxRows = 4
    Limits = {2}
    Overrun = 1
INVARIANTS
    TypeOK
    RowsFollowTheRules
    AckedEventsAreQueued
PROPERTIES
    EveryRunEnds
    ImplementsNotification
