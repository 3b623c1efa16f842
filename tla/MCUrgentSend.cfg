CONSTANTS
    t1 = t1  t2 = t2  t3 = t3
    Task = {t1, t2, t3}
    CurPrio <- MCCurPrio
    TickPerSecond = 100
    WordMod = 65536
    Msecs = {0}
    Msg = {"a", "b"}
    NoMsg = NoMsg
    Junk = Junk
    MaxMsgs = 2
    IndexMod = 64
    Clears = FALSE
SPECIFICATION UrgentSpec
PROPERTY UrgentFirst
