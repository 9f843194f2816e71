CONSTANTS
    s1 = s1
    s2 = s2
    rules = rules
    contacts = contacts
    ann = ann
    bob = bob
    Lists = {rules, contacts}
    Contacts = contacts
    Users = {ann, bob}
    Slots = {s1, s2}
    MaxClicks = 3
    MaxElsewhere = 1
    MaxFaults = 1
SPECIFICATION Spec
SYMMETRY SlotSymmetry
INVARIANTS TypeOK PageCatchesUp RefreshIsShared
PROPERTY PageGoesBackOnlyOnOverlap
CHECK_DEADLOCK FALSE
