CONSTANTS
    t1 = t1
    t2 = t2
    q1 = q1
    q2 = q2
    a1 = a1
    a2 = a2
    ann = ann
    bob = bob
    k = k
    name = name
    None = None
    Requests = {q1}
    Shapes <- SendShapes
    Targets = {t1}
    TargetName <- NamedTargets
    Addresses = {a1, a2}
    Contacts <- AnnAndBob
    MaxTries = 2
SPECIFICATION Spec
INVARIANTS OneRowPerKey  KeysInv
PROPERTY RowsHaveTheAskedRecipients
CHECK_DEADLOCK FALSE
