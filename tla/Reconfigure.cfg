CONSTANTS
    c1 = c1
    c2 = c2
    e1 = e1
    None = None
    Calls = {c1, c2}
    Events = {e1}
    AtATime = 2
SPECIFICATION FairSpec
PROPERTY PollingResumes
INVARIANTS TypeOK PublishedPoolIsOpen OneConfigurationAtRest OnlyReconfigurationLosesEvents
CHECK_DEADLOCK FALSE
