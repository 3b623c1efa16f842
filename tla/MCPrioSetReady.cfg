CONSTANTS
    m1 = m1  u1 = u1  idle = idle  zombie = zombie
    User = {m1, u1}
    Idle = idle
    Zombie = zombie
    Main = m1
    NoTask = NoTask
    OriginPrio <- MCOriginPrio
    PrioMax = 3
    Policy = "RR_REMAINSLICE"
    TimeSlice = 1
    TickMod = 16
    MaxTick = 2
    Delays = {1, 2}
    Mortal = {u1}
    BareWoken = {m1}
    PrioSetStats = {"READY"}
    DeleteSleeping = FALSE
    DeleteReaping  = FALSE
    DeferredSwitch = FALSE
    IrqBeforePendSV = FALSE
SPECIFICATION Spec
INVARIANT ReadyVectorConsistent
