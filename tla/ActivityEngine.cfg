SPECIFICATION Spec
CONSTANTS
    claude = claude
    codex = codex
    x = x
    Keys <- MCKeys
    Shapes <- MCShapes
    Day = 1
    Scale = 3
    MaxEntries = 2
    MaxSeen = 1
    MaxLive = 1
    MaxEvents = 2
    MaxTime = 3
    None = None
INVARIANTS TypeOK AnnouncedOnceUnlessCrowded CheckpointLoads NoReopeningUnlessEvicted
PROPERTIES SessionsMoveOn SequencesGrow
SYMMETRY AgentSymmetry
