\* The bound on ticks stops the clock, so a behaviour may end in the idle task.
CONSTANTS
    m1 = m1  u1 = u1  idle = idle  zombie = zombie
    User = {m1, u1}
    Idle = idle
    Zombie = zombie
    Main = m1
    NoTask = NoTask
    OriginPrio <- MCOriginPrio
    PrioMax = 3
    Policy = "RR"
    TimeSlice = 1
    TickMod = 16
    MaxTick = 2
    Delays = {1, 2}
    Mortal = {u1}
    BareWoken = {m1}
    PrioSetStats = {"INIT", "SUSPEND", "RUNNING"}
    DeleteSleeping = FALSE
    DeleteReaping  = FALSE
    DeferredSwitch = TRUE
    IrqBeforePendSV = FALSE
SPECIFICATION Spec
INVARIANTS TypeOK ReadyVectorConsistent ReadyIffQueued OneRunning
    SwitchAlwaysPossible DelayOnlySuspended NoOverdueDelay ZombiesGetReaped
PROPERTIES Lifecycle ReschedulePicksHighest
CHECK_DEADLOCK FALSE
