SPECIFICATION Spec
CONSTANTS
    Positions = {p, q}
    Horizon = 6
    Latency = 2
    Flush = 2
    MaxCalls = 2
    Duration = 3
    RampTime = 1
    Selections <- MCSelections
    DefaultK = soft
    MoveTime = 1
    Countdown = 1
    Steps = 1
    Settling = 1
    Period = 2
    Total = 3
    MaxLateness = 1
    StaleAfter = 1
    MaxSignals = 1
    None = None
SYMMETRY Symmetry
INVARIANTS
    TaskIsAsAsked
    ForceIsReleased
    Paced
    ResetLeavesIdle
    SysidKeepsPace
    RecordTellsHowItEnded
CHECK_DEADLOCK FALSE
