SPECIFICATION RefSpec
CONSTANTS
    Young = {y1, y2}
    OldPage = {o1, o2}
    Los = {b1}
    Slots = {s1}
    Roots = {r1}
    Frames = {f1}
    CStack = {c1}
    Null = Null
    RemsetCapacity = 1
    MaxObjects = 2
    MaxRepins = 0
    StaleWords = {{}}
    FallbackRawStores = FALSE
    Ids = {i1, i2}
INVARIANTS OneHome
PROPERTIES ImplementsObjectGraph CollectionEnds
