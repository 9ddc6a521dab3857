\* A damaged and an intact copy of one frame.
SPECIFICATION Spec
CONSTANTS
    Axes = {roll}
    Positions = {1000}
    SeqRange = 4
    NumGnd = 1
    NumAir = 2
    DamagedSeqs = {1}
    MaxQueue = 2
    MaxRestarts = 0
    AllowOverwrite = FALSE
    None = None
PROPERTY IntactCopyWritten
