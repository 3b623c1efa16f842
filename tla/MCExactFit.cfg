CONSTANTS
    Work = {tm1, tm2, "j"}
    NoWork = NoWork
    MaxWorkQueue = 2
    Timer = {tm1, tm2}
    Timeslices = {1, 2}
    TickMod = 16
    MaxTick = 2
    Hdr = 1  LowShift = 2  LinkNrs = 3
    Total = 36
    Align = 2
    SmallSize <- MCSmallSize
    SmallNumber <- MCSmallNumber
    Sizes = {1, 4, 5, 9}
    User = {u1, u2, u3}
    Datum = {"a", "b"}
    MaxLen = 4
    Timeouts = {"zero", "forever"}
    ForeverEnds = FALSE
    Byte = {"a", "b"}
    AreaLen = 4
    IdxMod = 256
    Forces = {FALSE}
SPECIFICATION ServicesSpec
INVARIANT ExactFitFound
