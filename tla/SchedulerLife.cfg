CONSTANTS
    c1 = c1
    c2 = c2
    Cpu = {c1, c2}
    NoCpu = NoCpu
    BootCpu = c1
    MaxPid = 3
    Programs <- LifePrograms
    Signals = {"KILL", "TERM"}
    SpawnPrios = {1}
    DeviceIrqs = FALSE
SPECIFICATION FairSpec
INVARIANTS DeadStaysDead DeathIsComplete
PROPERTIES  FreedOnlyWhenGone
