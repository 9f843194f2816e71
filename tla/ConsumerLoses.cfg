\* One database error is enough.
SPECIFICATION Spec
CONSTANTS
    e1 = e1
    t1 = t1
    t2 = t2
    Events = {e1}
    Targets = {t1, t2}
    Rules = {1}
    RuleConfigs <- TwoTargets
    MaxRuns = 1
    MaxFaults = 1
INVARIANTS
    OneDeliveryPerEnabledTarget
