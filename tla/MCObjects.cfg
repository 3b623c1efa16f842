CONSTANTS
    t1 = t1  t2 = t2  t3 = t3
    Task = {t1, t2, t3}
    CurPrio <- MCCurPrio
    TickPerSecond = 100
    WordMod = 65536
    Msecs = {0, 20}
    ValMod = 8
    Values = {0, 2}
    MaxBalance = 3
    DeleteInUse = FALSE
    MutexId = {m, n}
    NoTask = NoTask
    NoMutex = NoMutex
    CntMod = 4
    MaxHeld = 2
    MutexDeleteInUse = FALSE
    Flag = {f, g}
    EventOptions = {0, 1}
    Block = {1, 2}
    ExpireInDelete = FALSE
SYMMETRY Symmetry
SPECIFICATION ObjectsSpec
INVARIANTS
    ObjectsTypeOK
    PermitsConserved NoWaiterWithPermit
    MutualExclusion NoWaiterOnFreeMutex PriorityRestored
    NoMissedEvent FlagsConserved
    BlocksConserved NoSleeperBesideBlock
    DelayWhileWaiting
