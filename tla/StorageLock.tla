----------------------------- MODULE StorageLock -----------------------------
(***************************************************************************)
(* The storage lock (fs/storage/storage_lock.cpp): one file system         *)
(* operation at a time, run without the big kernel lock (BKL) when the     *)
(* system call allows it.  Threads run on CPUs; a contender that gave up   *)
(* the BKL sleeps between tries and may wake on another CPU.  The BKL is   *)
(* its owner and depth here (KernelLock has its steps).  Interrupts are    *)
(* off inside a Section and the file systems do not fault there.           *)
(***************************************************************************)
EXTENDS Integers, Sequences, FiniteSets

CONSTANTS
    LockThreads,        \* threads that make system calls
    LockCpus,           \* a set of numbers > 0
    OpsTables,          \* tables of file system operations
    kMaxWrappedTables,
    LockCalls           \* system calls of a thread

VARIABLE s

On == s.part = "lock"

Free == [owner |-> 0, depth |-> 0]

Init ==
    s = [part |-> "lock", bkl |-> Free, locked |-> FALSE, owner |-> 0, depth |-> 0,
         tables |-> <<>>, wrapped |-> {},
         thread |-> [t \in LockThreads |->
             [pc |-> "ready", cpu |-> 0, unlockDepth |-> 0, entries |-> 0, saved |-> 0, nest |-> 0, calls |-> 0]]]

T(t) == s.thread[t]
Idle(c) == \A t \in LockThreads : T(t).cpu # c
Holds(t) == s.bkl.owner = T(t).cpu

\* wrapOps: a table is wrapped once, whatever mounts share it; inner is what
\* the wrapper calls.
wrapOps(st, table) ==
    IF Len(st.tables) = kMaxWrappedTables \/ \E i \in DOMAIN st.tables : st.tables[i].table = table THEN st
    ELSE [st EXCEPT !.tables = Append(@, [table |-> table, inner |-> IF table \in st.wrapped THEN "wrapper" ELSE "original"]),
                    !.wrapped = @ \cup {table}]

\* suspend and resume of the BKL by the CPU of thread t.
suspend(st, t) == [st EXCEPT !.thread[t].saved = st.bkl.depth, !.bkl = Free]
resume(st, t) == [st EXCEPT !.bkl = [owner |-> st.thread[t].cpu, depth |-> st.thread[t].saved]]

mayDropBkl(t) == T(t).unlockDepth # 0 /\ s.bkl.depth = T(t).unlockDepth

-----------------------------------------------------------------------------
\* A system call; AllowUnlocked notes the depth at which it may drop the BKL.
syscall(t) ==
    /\ T(t).pc = "user" /\ s.bkl = Free /\ T(t).calls < LockCalls
    /\ \E allow \in BOOLEAN :
        s' = [s EXCEPT !.bkl = [owner |-> T(t).cpu, depth |-> 1],
                       !.thread[t] = [@ EXCEPT !.pc = "kernel", !.entries = 1, !.calls = @ + 1,
                                               !.unlockDepth = IF allow THEN 1 ELSE 0]]

\* A page fault inside the system call enters the kernel once more.
fault(t) ==
    /\ T(t).pc = "kernel" /\ T(t).entries = 1
    /\ s' = [s EXCEPT !.bkl.depth = @ + 1, !.thread[t].entries = 2]

leave(t) ==
    /\ T(t).pc = "kernel"
    /\ s' = IF s.bkl.depth > 1 THEN [s EXCEPT !.bkl.depth = @ - 1, !.thread[t].entries = @ - 1]
            ELSE [s EXCEPT !.bkl = Free,
                           !.thread[t] = [@ EXCEPT !.pc = "user", !.entries = 0, !.unlockDepth = 0]]

\* The scheduler gives an idle CPU a thread, or a thread in user mode is
\* preempted: it holds no lock.
dispatch(t, c) ==
    /\ Idle(c) /\ s.bkl = Free
    /\ \/ T(t).pc = "ready" /\ s' = [s EXCEPT !.thread[t] = [@ EXCEPT !.pc = "user", !.cpu = c]]
       \/ T(t).pc = "asleep" /\ s' = resume([s EXCEPT !.thread[t] = [@ EXCEPT !.pc = "woken", !.cpu = c]], t)

preempt(t) ==
    /\ T(t).pc = "user"
    /\ s' = [s EXCEPT !.thread[t] = [@ EXCEPT !.pc = "ready", !.cpu = 0]]

mount(t) ==
    /\ T(t).pc = "kernel" /\ T(t).entries = 1
    /\ \E table \in OpsTables : s' = wrapOps(s, table)

\* The constructor of Section, up to the lock itself.  An operation of a
\* wrapped table opens one, and another inside it where it calls itself back.
Section(t) ==
    /\ T(t).pc \in {"kernel", "in"} /\ T(t).nest < 2 /\ s.tables # <<>>
    /\ s' = IF s.owner = T(t).cpu
            THEN [s EXCEPT !.depth = @ + 1, !.thread[t].nest = @ + 1]
            ELSE IF mayDropBkl(t) THEN [suspend(s, t) EXCEPT !.thread[t].pc = "try"]
            ELSE [s EXCEPT !.thread[t].saved = 0, !.thread[t].pc = "spin"]

acquire(t) ==
    /\ T(t).pc \in {"try", "spin"} /\ ~ s.locked
    /\ s' = [s EXCEPT !.locked = TRUE, !.thread[t].pc = "took"]

\* The owner is written only now, on the CPU the thread is on by then.
own(t) ==
    /\ T(t).pc = "took"
    /\ s' = [s EXCEPT !.owner = T(t).cpu, !.depth = 1, !.thread[t].pc = "in", !.thread[t].nest = 1]

\* A contender that has spun long enough takes the BKL back, sleeps, and drops
\* it again when it wakes.
giveUp(t) ==
    /\ T(t).pc = "try" /\ s.locked /\ s.bkl = Free
    /\ s' = [resume(s, t) EXCEPT !.thread[t].pc = "sleeping"]

sleep(t) ==
    /\ T(t).pc = "sleeping"
    /\ s' = [s EXCEPT !.bkl = Free, !.thread[t] = [@ EXCEPT !.pc = "asleep", !.cpu = 0]]

wake(t) ==
    /\ T(t).pc = "woken"
    /\ s' = [suspend(s, t) EXCEPT !.thread[t].pc = "try"]

\* The destructor: the storage lock is released before the BKL is retaken.
release(t) ==
    /\ T(t).pc = "in"
    /\ LET st == [s EXCEPT !.depth = @ - 1, !.thread[t].nest = @ - 1]
       IN s' = IF st.depth # 0 THEN st
               ELSE [st EXCEPT !.owner = 0, !.locked = FALSE,
                               !.thread[t].pc = IF T(t).saved = 0 THEN "kernel" ELSE "retake"]

retake(t) ==
    /\ T(t).pc = "retake" /\ s.bkl = Free
    /\ s' = [resume(s, t) EXCEPT !.thread[t].pc = "kernel", !.thread[t].saved = 0]

Next ==
    /\ On
    /\ \E t \in LockThreads :
        \/ syscall(t) \/ fault(t) \/ leave(t) \/ preempt(t) \/ mount(t)
        \/ Section(t) \/ acquire(t) \/ own(t) \/ giveUp(t) \/ sleep(t) \/ wake(t)
        \/ release(t) \/ retake(t)
        \/ \E c \in LockCpus : dispatch(t, c)

-----------------------------------------------------------------------------
(* One thread is inside a file system, on the CPU the lock records, and    *)
(* the depth is the Sections it has open; a wrapper never calls a wrapper. *)
StorageExclusive ==
    On => /\ Cardinality({t \in LockThreads : T(t).pc \in {"took", "in"}}) = (IF s.locked THEN 1 ELSE 0)
          /\ \A t \in LockThreads : T(t).pc = "in" => s.owner = T(t).cpu /\ s.depth = T(t).nest
          /\ s.owner # 0 => \E t \in LockThreads : T(t).pc = "in" /\ T(t).cpu = s.owner
          /\ \A i \in DOMAIN s.tables : s.tables[i].inner = "original"

(* A call has the BKL, at the depth at which it entered the kernel,        *)
(* whenever it is outside the file systems, also after it slept or moved   *)
(* to another CPU; and a call that did not allow it, or a fault in it,     *)
(* never loses the BKL to the file system.                                 *)
BklKeptAround ==
    On => \A t \in LockThreads :
        /\ T(t).pc \in {"kernel", "sleeping", "woken"} => Holds(t) /\ s.bkl.depth = T(t).entries
        /\ T(t).pc \in {"spin", "took", "in"} /\ (T(t).unlockDepth # T(t).entries) => Holds(t)

(* Lock order: a thread that spins for the storage lock with the BKL held  *)
(* waits for one that needs no lock to finish.                             *)
NoStandoff ==
    On => \A t \in LockThreads :
        T(t).pc = "spin" /\ s.locked =>
            \E u \in LockThreads : u # t /\ T(u).cpu # 0 /\ T(u).pc \in {"took", "in"}
=============================================================================
