SPECIFICATION Spec
CONSTANTS
    Young = {y1, y2}
    OldPage = {o1, o2, o3}
    Los = {b1}
    Slots = {s1, s2}
    Roots = {r1}
    Frames = {f1}
    CStack = {c1}
    Null = Null
    RemsetCapacity = 2
    MaxObjects = 2
    MaxRepins = 1
    StaleWords = {{}, {y1}, {y2}}
    FallbackRawStores = FALSE
SYMMETRY HeapSymmetry
INVARIANTS IInv RemsetDiscipline
