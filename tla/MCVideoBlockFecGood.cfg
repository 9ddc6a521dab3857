\* 4 DATA and 2 FEC packets: the transmission scheme drawn in video_main_air.c.
SPECIFICATION BlockSpec
CONSTANTS
    NumData = 4
    NumFec = 2
    UintRange = 16
INVARIANTS
    ChosenFecsAreGood
CHECK_DEADLOCK FALSE
