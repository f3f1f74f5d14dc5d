\* Two CPUs as booted by main(); DEFAULT_TIME_SLICE (100) is cut to 4 ticks,
\* which keeps both the "slice left" and the "slice spent" branches.
CONSTANTS
    idle0 = idle0
    idle1 = idle1
    init = init
    CPUs <- MCCPUs
    Idle <- MCIdle
    BootQueue <- MCBootQueue
    DEFAULT_TIME_SLICE = 4
    BSP = 0
SPECIFICATION Spec
INVARIANTS
    TypeOK
    RunQueueDiscipline
    ReadyBarrier
PROPERTIES
    SwitchRequeues
    
    BringUpCompletes
