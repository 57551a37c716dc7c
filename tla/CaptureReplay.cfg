SPECIFICATION Spec
CONSTANTS
    Event <- MCEvent
    Size <- MCSize
    LenCells = 2
    MaxFrames = 3
    MaxFailures = 1
    Garbage <- MCGarbage
    DecodeError <- MCDecodeError
    Layers <- MCLayers
CHECK_DEADLOCK FALSE
INVARIANTS
    NothingSkipped
    EndIsTold
PROPERTIES
    ImplementsLog
