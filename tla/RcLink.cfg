\* The pilot and the app: two adapters on the UAV, lost and damaged frames,
\* overwrites of the app and a restart of the ground station at any time.
SPECIFICATION LiveSpec
CONSTANTS
    Axes = {roll}
    Positions = {1000, 2000}
    SeqRange = 4
    NumGnd = 1
    NumAir = 2
    DamagedSeqs = {1}
    MaxQueue = 1
    MaxRestarts = 1
    AllowOverwrite = TRUE
    None = None
INVARIANTS
    LowerHalfFiltered
PROPERTY
    FcFollowsPilot
