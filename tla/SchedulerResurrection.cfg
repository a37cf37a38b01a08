CONSTANTS
    c1 = c1
    c2 = c2
    Cpu = {c1, c2}
    NoCpu = NoCpu
    BootCpu = c1
    MaxPid = 3
    Programs <- ResurrectionPrograms
    Signals = {"KILL"}
    SpawnPrios = {1}
    DeviceIrqs = FALSE
SPECIFICATION Spec
INVARIANTS DeadStaysDead
SYMMETRY Symmetry
