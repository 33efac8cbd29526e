SPECIFICATION Spec
CONSTANTS
    Young = {y1, y2}
    OldPage = {o1, o2, o3}
    Los = {b1}
    Slots = {s1}
    Roots = {r1}
    Frames = {f1}
    CStack = {c1}
    Null = Null
    RemsetCapacity = 1
    MaxObjects = 3
    MaxRepins = 0
    StaleWords = {{}}
    FallbackRawStores = FALSE
SYMMETRY HeapSymmetry
PROPERTY FrameHeldMoves
