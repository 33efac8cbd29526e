SPECIFICATION Spec
CONSTANTS
    Generators = {g1, g2, g3}
    Main = Main
    MaxFrames = 2
    MAX_GENERATORS = 2
SYMMETRY Symmetry
INVARIANTS GenTypeOK FramesWalkedOnce ChainIsStack OrdersObeyed
CHECK_DEADLOCK FALSE
