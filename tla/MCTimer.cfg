CONSTANTS
    NumDevices = 3
    TimeWrap = 3
SPECIFICATION FairSpec
INVARIANTS
    TimerInv
    EverySlotOnce
    NoUseAfterFree
PROPERTIES
    ImplementsBarrier
    NextSlotReturns
    ShutsDown
\* The program ends when main returns.
CHECK_DEADLOCK FALSE
