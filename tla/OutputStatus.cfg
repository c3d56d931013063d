SPECIFICATION Spec
CONSTANTS
    None = None
    Empty = Empty
    Torn = Torn
    Command = {c1, c2}
    Artifacts <- MCArtifacts
    Disks <- MCDisks
CHECK_DEADLOCK FALSE
INVARIANT
    ReceiptStatus
