CONSTANTS
    m1 = m1  u1 = u1  idle = idle  zombie = zombie
    User = {m1, u1}
    Idle = idle
    Zombie = zombie
    Main = m1
    NoTask = NoTask
    OriginPrio <- MCEqualPrio
    PrioMax = 3
    Policy = "RR_REMAINSLICE"
    TimeSlice = 2
    TickMod = 1
    MaxTick = 1
    Delays = {}
    Mortal = {}
    BareWoken = {}
    PrioSetStats = {}
    DeleteSleeping = FALSE
    DeleteReaping  = FALSE
    DeferredSwitch = FALSE
    IrqBeforePendSV = FALSE
SPECIFICATION FairSpec
INVARIANT OneRunning
PROPERTY NoStarvation
