CONSTANTS
    c1 = c1
    c2 = c2
    Cpu = {c1, c2}
    NoCpu = NoCpu
    BootCpu = c1
    MaxPid = 3
    Programs <- BlockingPrograms
    Signals = {}
    SpawnPrios = {0, 2}
    DeviceIrqs = TRUE
SPECIFICATION Spec
INVARIANTS OnePlaceOneState NoLostReply
PROPERTY NoForbiddenSwitch
SYMMETRY Symmetry
