CONSTANTS
    Services <- AnyService
    Attachments = {"none", "good", "bad"}
    Recipients = 2
    Topics = {1, 125, 255, 256, 65535, 65536}
    Payloads = {0, 1, 16125, 2097152}
    MaxAttempts = 3
    MaxFaults = 3
SPECIFICATION FairSpec
INVARIANTS TypeOK AllOrNothing NilMeansAccepted DuplicatesNeedFaults PublicationsAreRead
PROPERTY SendsTimeOut
CHECK_DEADLOCK FALSE
