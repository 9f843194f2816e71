CONSTANTS
    s1 = s1
    s2 = s2
    rules = rules
    contacts = contacts
    ann = ann
    bob = bob
    Lists = {rules, contacts}
    Contacts = contacts
    Users = {ann, bob}
    Slots = {s1, s2}
    MaxClicks = 3
    MaxElsewhere = 0
    MaxFaults = 0
SPECIFICATION Spec
INVARIANT DeletedRowsDisappear
CHECK_DEADLOCK FALSE
