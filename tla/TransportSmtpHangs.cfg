CONSTANTS
    Services = {"smtp"}
    Attachments = {"none"}
    Recipients = 2
    Topics = {1}
    Payloads = {1}
    MaxAttempts = 3
    MaxFaults = 1
SPECIFICATION FairSpec
PROPERTY TimeoutEndsTheSend
CHECK_DEADLOCK FALSE
