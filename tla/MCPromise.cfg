SPECIFICATION Spec
CONSTANTS
    Promises = {p1, p2, p3}
    Values = {v1}
    Thenable = Thenable
    TypeError = TypeError
    None = None
    MaxReactions = 4
    MaxPairs = 2
CHECK_DEADLOCK FALSE
INVARIANTS TypeOK OneResolver ReactionsInOrder ScanSafe PInv
PROPERTIES ImplementsFuture AdoptionCompletes
