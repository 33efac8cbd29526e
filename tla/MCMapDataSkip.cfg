SPECIFICATION Spec
CONSTANTS
    Keys = {k1, k2}
    Values = {v1, v2}
    Iterators = {i1}
    Empty = Empty
    MaxEntries = 4
    MaxDepth = 2
SYMMETRY MapSymmetry

PROPERTY IteratorMissesNothing
