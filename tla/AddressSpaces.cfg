CONSTANTS
    Cpu = {c1, c2}
    Space = {s1, s2}
    Frame = {f1, f2, f3}
    Val = {0, 1}
    Zero = 0
    None = None
    NVa = 1
    Programs = {{"touch", "write", "mmap", "mmap_object", "munmap", "fork", "fork_fails", "exit"},
                {"touch", "write", "mmap", "munmap", "mprotect_ro", "mprotect_rw", "exit"},
                {"touch", "write", "mmap_any", "munmap", "exit"}}
SPECIFICATION Spec
SYMMETRY Symmetry
CHECK_DEADLOCK FALSE
INVARIANTS  TlbFollowsTable  WritableIsUnshared
PROPERTIES ImplementsPrivateMemory OnlyStoresChange
