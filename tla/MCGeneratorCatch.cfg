SPECIFICATION Spec
CONSTANTS
    Generators = {g1}
    Main = Main
    MaxFrames = 2
    MAX_GENERATORS = 2
INVARIANTS LinkedIsMapped
CHECK_DEADLOCK FALSE
