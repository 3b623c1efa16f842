CONSTANTS
    m1 = m1  u1 = u1  idle = idle  zombie = zombie
    User = {m1, u1}
    Idle = idle
    Zombie = zombie
    Main = m1
    NoTask = NoTask
    OriginPrio <- MCOriginPrio
    PrioMax = 3
    Policy = "FIFO"
    TimeSlice = 1
    TickMod = 8
    MaxTick = 8
    Delays = {1, 2}
    Mortal = {}
    BareWoken = {}
    PrioSetStats = {}
    DeleteSleeping = FALSE
    DeleteReaping  = FALSE
    DeferredSwitch = FALSE
    IrqBeforePendSV = FALSE
SPECIFICATION FairSpec
PROPERTY DelayEnds
