------------------------------- MODULE Scheduler -------------------------------
(***************************************************************************)
(* The process scheduler and the life of a process: cpu/process/           *)
(* scheduler.cpp with the syscalls that create, block, kill, reap and      *)
(* terminate processes and threads (cpu/syscall/proc.cpp), the signals     *)
(* that terminate them (cpu/process/process.cpp), the interrupts that      *)
(* preempt them and the exceptions that kill them (cpu/idt/isr.cpp).       *)
(*                                                                         *)
(* Kernel code runs under the big kernel lock, which passes to the context *)
(* a switch resumes (module KernelLock proves it).  So a stretch of kernel *)
(* code from an entry to its exit, or to the next context switch, is one   *)
(* action here, and `bkl' is the CPU whose switch has handed the lock to a *)
(* context with kernel code left to run.                                   *)
(*                                                                         *)
(* The scheduler's state is one record `k', so that the code's functions   *)
(* are functions from records to records, composed as the code calls them. *)
(*   state     ProcessState; "None" = no such process (not yet or no more) *)
(*   ready     the ready queues, by priority                               *)
(*   cur       PerCPUData.currentProcess; 0 = the CPU's idle process       *)
(*   deferred  PerCPUData.deferredProcess; 0 = none                        *)
(*   group     sharedState: the PID of the main thread it was made for     *)
(*   parent    parentPID (0 = none)            prio      priority          *)
(*   affinity  CPUs it may run on              pend      pending signals   *)
(*   handled   terminationHandled              asleep    sleep deadline set*)
(*   valid     validUserState                  done      IPC answer is in  *)
(*   at        where its kernel stack continues when it is switched to     *)
(*   files     groups whose descriptor table is still open                 *)
(*   nextPid   nextPID                                                     *)
(***************************************************************************)
EXTENDS Naturals, Sequences, FiniteSets, SequencesExt

CONSTANTS Cpu,          \* the processors
          BootCpu,      \* the one whose timer tick is never skipped for good
          NoCpu,        \* nobody holds the lock
          MaxPid,       \* bound on the number of processes ever created
          Programs,     \* what programs do: records of the calls (sets of
                        \* names) of main threads and of other threads
          Signals,      \* signals sys_kill sends, a subset of {"KILL", "TERM"}
          SpawnPrios,   \* priorities of new programs (0 Low, 1 Normal, 2 High)
          DeviceIrqs    \* whether input and network interrupts arrive

VARIABLES k, bkl,
          program       \* the one of Programs that all processes run

vars == <<k, bkl, program>>

Pid == 1..MaxPid
Prio == 0..2
Idle == 0

ASSUME SchedulerAssumption ==
    /\ MaxPid \in Nat \ {0}
    /\ NoCpu \notin Cpu
    /\ BootCpu \in Cpu
    /\ Signals \subseteq {"KILL", "TERM"}
    /\ SpawnPrios \subseteq Prio

Exists(s, p) == p # 0 /\ s.state[p] # "None"
IsThread(s, p) == s.group[p] # p
Members(s, p) == {q \in Pid : Exists(s, q) /\ s.group[q] = s.group[p]}
Queued(s, p) == \E i \in Prio : p \in ToSet(s.ready[i])

\* allProcessesHead: addProcess() pushes at the head and PIDs only grow, so the
\* list is every existing process, the newest first.
AllProcesses(s) ==
    SelectSeq([i \in Pid |-> MaxPid + 1 - i], LAMBDA p : Exists(s, p))

Busy(s, p) == \E c \in Cpu : s.cur[c] = p \/ s.deferred[c] = p
Parked(s, p) == \E c \in Cpu : s.deferred[c] = p

-------------------------------------------------------------------------------
(* The ready queues.  The reschedule IPI an insertion may send is left out:  *)
(* it makes a CPU schedule() early, and here any CPU may do so at any time.  *)

CanQueue(s, p) ==
    /\ s.state[p] = "Ready"
    /\ ~Parked(s, p)
    /\ p \notin ToSet(s.ready[s.prio[p]])

AddToReadyQueue(s, p) ==
    IF CanQueue(s, p)
    THEN [s EXCEPT !.ready[s.prio[p]] = Append(@, p)]
    ELSE s

AddToReadyQueueFront(s, p) ==
    IF CanQueue(s, p)
    THEN [s EXCEPT !.ready[s.prio[p]] = <<p>> \o @]
    ELSE s

RemoveFromReadyQueue(s, p) ==
    IF p = Idle THEN s ELSE [s EXCEPT !.ready[s.prio[p]] = RemoveFirst(@, p)]

\* Mutation: a process is taken whatever its affinity.
NextOfAnyAffinity(s, c) ==
    LET nonEmpty == {i \in Prio : s.ready[i] # <<>>}
    IN  IF nonEmpty = {} THEN Idle ELSE Head(s.ready[Max(nonEmpty)])

\* getNextProcess(): the first process of the highest priority that may run
\* here.  It is moved to the tail and then taken out by both callers.
GetNextProcess(s, c) ==
    LET mine(i) == SelectSeq(s.ready[i], LAMBDA p : c \in s.affinity[p])
        nonEmpty == {i \in Prio : mine(i) # <<>>}
    IN  IF nonEmpty = {} THEN Idle ELSE Head(mine(Max(nonEmpty)))

-------------------------------------------------------------------------------
(* Waking and signalling.                                                    *)

WakeProcess(s, p) ==
    CASE s.state[p] = "Ready" -> AddToReadyQueueFront(s, p)
      [] s.state[p] = "Blocked" ->
            AddToReadyQueueFront([s EXCEPT !.state[p] = "Ready",
                                           !.asleep[p] = FALSE], p)
      [] OTHER -> s

WakeParentOf(s, p) ==
    LET q == s.parent[p]
    IN  IF Exists(s, q) /\ s.state[q] = "Blocked" THEN WakeProcess(s, q) ELSE s

SendSignal(s, p, sig) ==
    LET t == [s EXCEPT !.pend[p] = @ \cup {sig}]
    IN  IF t.state[p] = "Blocked" THEN WakeProcess(t, p) ELSE t

\* killSiblingThreads(); its result is whether SiblingsOf is non-empty.
SiblingsOf(s, p) == Members(s, p) \ {p}

KillSiblingThreads(s, p) ==
    FoldLeft(LAMBDA t, q : IF q \in SiblingsOf(s, p) /\ t.state[q] # "Terminated"
                           THEN SendSignal(t, q, "KILL") ELSE t,
             s, AllProcesses(s))

\* exitThreadGroup(): requestExit() on the main thread is a SIGKILL.
ExitThreadGroup(s, p) ==
    LET main == s.group[p]
        t == IF IsThread(s, p) /\ Exists(s, main) /\ s.state[main] # "Terminated"
             THEN SendSignal(s, main, "KILL") ELSE s
    IN  KillSiblingThreads(t, p)

\* closeFilesOnExit(): only the last holder of the descriptor table closes it.
CloseFilesOnExit(s, p) ==
    IF Members(s, p) = {p} THEN [s EXCEPT !.files = @ \ {s.group[p]}] ELSE s

\* Mutation: a killed process keeps its descriptors until it is reaped.
TerminateOnly(s, p) == [s EXCEPT !.state[p] = "Terminated"]

Terminate(s, p) == [CloseFilesOnExit(s, p) EXCEPT !.state[p] = "Terminated"]

TerminateIfKilled(s, p) ==
    IF s.state[p] # "Terminated" /\ "KILL" \in s.pend[p]
    THEN Terminate([s EXCEPT !.pend[p] = @ \ {"KILL"}], p)
    ELSE s

\* hasDeliverableSignal(): SIGCHLD is not modelled, being ignored by default.
HasDeliverableSignal(s, p) == s.pend[p] # {}

\* handlePendingSignals() with the default dispositions.
HandlePendingSignals(s, p) ==
    LET t == TerminateIfKilled(s, p)
        u == [t EXCEPT !.pend[p] = @ \ {"TERM"}]
    IN  IF t.state[p] = "Terminated" \/ "TERM" \notin t.pend[p] THEN t
        ELSE Terminate(IF IsThread(u, p) THEN ExitThreadGroup(u, p) ELSE u, p)

-------------------------------------------------------------------------------
(* Death and reaping.                                                        *)


TerminatedKeepsChildren(s, p) ==
    IF IsThread(s, p) \/ s.handled[p] THEN s
    ELSE WakeParentOf(KillSiblingThreads([s EXCEPT !.handled[p] = TRUE], p), p)

TerminatedSparesThreads(s, p) ==
    IF IsThread(s, p) \/ s.handled[p] THEN s
    ELSE LET t == [s EXCEPT !.handled[p] = TRUE]
             orphan(q) == Exists(t, q) /\ q # p /\ ~IsThread(t, q) /\ t.parent[q] = p
         IN  WakeParentOf([t EXCEPT !.parent = [q \in Pid |-> IF orphan(q) THEN 0 ELSE @[q]]], p)

OnProcessTerminated(s, p) ==
    IF IsThread(s, p) \/ s.handled[p] THEN s
    ELSE LET t == KillSiblingThreads([s EXCEPT !.handled[p] = TRUE], p)
             orphan(q) == Exists(t, q) /\ q # p /\ ~IsThread(t, q) /\ t.parent[q] = p
             u == [t EXCEPT !.parent = [q \in Pid |-> IF orphan(q) THEN 0 ELSE @[q]]]
         IN  WakeParentOf(u, p)

\* ~Process() and the unlinking before it; the last holder's release of the
\* shared state closes the descriptor table.
Delete(s, p) ==
    LET t == RemoveFromReadyQueue(s, p)
    IN  [t EXCEPT !.state[p] = "None", !.group[p] = p, !.parent[p] = 0,
                  !.prio[p] = 1, !.affinity[p] = Cpu,
                  !.pend[p] = {}, !.handled[p] = FALSE, !.valid[p] = FALSE,
                  !.at[p] = "none", !.asleep[p] = FALSE, !.done[p] = FALSE,
                  !.files = IF Members(s, p) = {p} THEN @ \ {s.group[p]} ELSE @]

Reapable(s, p) ==
    /\ ~Busy(s, p)
    /\ s.state[p] = "Terminated"
    /\ IsThread(s, p) \/ s.parent[p] = 0

\* Mutation: the last thread's reaping does not wake the waiting parent.
ReapSilently(s, p) == IF Reapable(s, p) THEN Delete(s, p) ELSE s

ReapOne(s, p) ==
    LET t == Delete(s, p)
        main == s.group[p]
    IN  CASE ~Reapable(s, p) -> s
          [] Reapable(s, p) /\ IsThread(s, p) /\ t.state[main] = "Terminated"
                -> WakeParentOf(t, main)
          [] OTHER -> t

ReapTerminated(s) == FoldLeft(ReapOne, s, AllProcesses(s))

\* findChild(parent, -1, terminatedOnly = true)
Children(s, p) == {q \in Pid : Exists(s, q) /\ ~IsThread(s, q) /\ s.parent[q] = p}

\* Mutation: wait() reports a main thread that still has threads.
ReportableWithThreads(s, q) == s.state[q] = "Terminated" /\ ~Busy(s, q)

Reportable(s, q) ==
    s.state[q] = "Terminated" /\ ~Busy(s, q) /\ SiblingsOf(s, q) = {}

FindChild(s, p) ==
    LET found == {q \in Children(s, p) : Reportable(s, q)}
    IN  IF found = {} THEN 0 ELSE Max(found)

\* onKernelEntry(), on every CPU's outermost entry.
OnKernelEntry(s, c) ==
    LET p == s.deferred[c]
        t == [s EXCEPT !.deferred[c] = 0]
    IN  CASE p = 0 -> s
          [] p # 0 /\ s.state[p] = "Ready" -> AddToReadyQueue(t, p)
          [] p # 0 /\ s.state[p] = "Terminated" -> WakeParentOf(t, p)
          [] OTHER -> t

DeferUntilNextEntry(s, c, p) ==
    [RemoveFromReadyQueue(OnKernelEntry(s, c), p) EXCEPT !.deferred[c] = p]

-------------------------------------------------------------------------------
(* The two schedule() functions.                                             *)

\* A context with nothing left to do in the kernel is on its way to user mode:
\* one that starts at a trampoline, or returns from irqHandler.
ToUser(at) == IF at \in {"new", "irq"} THEN "user" ELSE at

\* Mutations: the next process stays queued; the old one stays valid.
SwitchToQueued(s, c, old, next) ==
    LET t == IF old = Idle THEN s ELSE [s EXCEPT !.valid[old] = FALSE]
        u == [t EXCEPT !.cur[c] = next]
    IN  IF next = Idle THEN u
        ELSE [u EXCEPT !.state[next] = "Running", !.at[next] = ToUser(@)]

SwitchToStaleFrame(s, c, old, next) ==
    LET u == [RemoveFromReadyQueue(s, next) EXCEPT !.cur[c] = next]
    IN  IF next = Idle THEN u
        ELSE [u EXCEPT !.state[next] = "Running", !.at[next] = ToUser(@)]

\* The switch itself: next runs here.  `old' has its kernel stack to return to.
SwitchTo(s, c, old, next) ==
    LET t == IF old = Idle THEN s ELSE [s EXCEPT !.valid[old] = FALSE]
        u == [RemoveFromReadyQueue(t, next) EXCEPT !.cur[c] = next]
    IN  IF next = Idle THEN u
        ELSE [u EXCEPT !.state[next] = "Running", !.at[next] = ToUser(@)]

\* Mutation: the interrupted process is requeued whatever its state.
RequeueAlways(s, p) == AddToReadyQueue([s EXCEPT !.state[p] = "Ready"], p)

\* Still runnable: back into its queue.
Requeue(s, p) ==
    IF s.state[p] = "Running"
    THEN AddToReadyQueue([s EXCEPT !.state[p] = "Ready"], p)
    ELSE s

\* schedule(), from a syscall.
Schedule(s, c) ==
    LET old == s.cur[c]
        r == ReapTerminated(s)
        t == TerminateIfKilled(r, old)
        u == IF t.state[old] = "Terminated" THEN OnProcessTerminated(t, old)
             ELSE Requeue(t, old)
    IN  SwitchTo(u, c, old, GetNextProcess(u, c))

\* Mutation: a SIGKILL pending in user mode waits for the next syscall.
ScheduleFrameIgnoresKill(s, c) ==
    LET old == s.cur[c]
        r == ReapTerminated(s)
        w == IF old = Idle THEN r
             ELSE Requeue([r EXCEPT !.valid[old] = TRUE, !.at[old] = "irq"], old)
        next == GetNextProcess(w, c)
        x == [RemoveFromReadyQueue(w, next)
                EXCEPT !.cur[c] = next, !.state[next] = "Running", !.at[next] = "user"]
    IN  CASE next = Idle /\ old = Idle -> r
          [] next # Idle /\ w.valid[next] -> x
          [] OTHER -> SwitchTo(w, c, old, next)

\* schedule(frame), from an interrupt of user mode or of the idle loop, or from
\* a user-mode exception.  A process with a valid user state is resumed by
\* rewriting the interrupt frame, and the old one is parked until this CPU has
\* left its stack.  (The two branches that refuse a brand-new process need an
\* interrupted process in state Running, which has just been made Ready.)
ScheduleFrame(s, c) ==
    LET old == s.cur[c]
        r == ReapTerminated(s)
        t == TerminateIfKilled(r, old)
        u == IF t.state[old] = "Terminated" THEN OnProcessTerminated(t, old) ELSE t
        w == IF old = Idle THEN r
             ELSE Requeue([u EXCEPT !.valid[old] = TRUE, !.at[old] = "irq"], old)
        next == GetNextProcess(w, c)
        x == [RemoveFromReadyQueue(w, next)
                EXCEPT !.cur[c] = next, !.state[next] = "Running", !.at[next] = "user"]
    IN  CASE next = Idle /\ old = Idle -> r
          [] next # Idle /\ w.valid[next] ->
                IF old \in {Idle, next} THEN x ELSE DeferUntilNextEntry(x, c, old)
          [] OTHER -> SwitchTo(w, c, old, next)

-------------------------------------------------------------------------------
(* Syscall exit: syscallHandler after the handler and restoreSyscallState.   *)
(* A process that dies here schedules away and does not come back; if it     *)
(* did, it would go on with this same exit.                                  *)
SyscallExit(s, c) ==
    LET p == s.cur[c]
        t == HandlePendingSignals([s EXCEPT !.valid[p] = TRUE], p)
    IN  IF t.state[p] = "Terminated"
        THEN Schedule([t EXCEPT !.at[p] = "exit"], c)
        ELSE [t EXCEPT !.at[p] = "user"]

\* A blocking call: it waits at `at' until it is woken.
Block(s, c, at) ==
    Schedule([s EXCEPT !.state[s.cur[c]] = "Blocked", !.at[s.cur[c]] = at], c)

\* The lock is free again unless the CPU is in a context with kernel code left.
Finish(s, c) ==
    /\ k' = s
    /\ bkl' = IF s.cur[c] # Idle /\ s.at[s.cur[c]] \notin {"user", "storage"}
              THEN c ELSE NoCpu
    /\ UNCHANGED program

-------------------------------------------------------------------------------
(* Syscalls, by the process that runs on CPU c in user mode.                 *)

\* saveSyscallState(): the entry.
InUser(c) == bkl = NoCpu /\ k.cur[c] # Idle /\ k.at[k.cur[c]] = "user"

Syscall(c, name) ==
    /\ InUser(c)
    /\ name \in (IF IsThread(k, k.cur[c]) THEN program.thread ELSE program.main)

Entered(c) == [OnKernelEntry(k, c) EXCEPT !.valid[k.cur[c]] = TRUE]

\* addProcess() of a process that has just been made Ready.
AddProcess(s, c, group, prio) ==
    LET p == s.cur[c]
        q == s.nextPid
    IN  AddToReadyQueue(
            [s EXCEPT !.state[q] = "Ready", !.at[q] = "new", !.parent[q] = p,
                      !.group[q] = group, !.prio[q] = prio,
                      !.affinity[q] = s.affinity[p], !.nextPid = q + 1,
                      !.files = @ \cup {group}], q)

Fork(c) ==
    /\ Syscall(c, "fork")
    /\ ~IsThread(k, k.cur[c])
    /\ k.nextPid \in Pid
    /\ Finish(SyscallExit(AddProcess(Entered(c), c, k.nextPid, 1), c), c)

Spawn(c) ==
    /\ Syscall(c, "spawn")
    /\ k.nextPid \in Pid
    /\ \E prio \in SpawnPrios :
          Finish(SyscallExit(AddProcess(Entered(c), c, k.nextPid, prio), c), c)

\* sys_thread_create and sys_thread_clone
ThreadCreate(c) ==
    LET p == k.cur[c] IN
    /\ Syscall(c, "thread_create")
    /\ k.nextPid \in Pid
    /\ Finish(SyscallExit(AddProcess(Entered(c), c, k.group[p], k.prio[p]), c), c)

ExitCall(s, c) ==
    LET p == s.cur[c]
        t == IF IsThread(s, p) THEN ExitThreadGroup(s, p) ELSE s
        u == OnProcessTerminated(Terminate(t, p), p)
    IN  Schedule([u EXCEPT !.at[p] = "exit"], c)

Exit(c) ==
    /\ Syscall(c, "exit")
    /\ Finish(ExitCall(Entered(c), c), c)

\* A thread's own exit does not close files; from the main thread it is exit().
ThreadExit(c) ==
    LET p == k.cur[c]
        s == [Entered(c) EXCEPT !.state[p] = "Terminated", !.at[p] = "exit"]
    IN  /\ Syscall(c, "thread_exit")
        /\ Finish(IF IsThread(k, p) THEN Schedule(s, c) ELSE ExitCall(Entered(c), c), c)

\* One round of sys_wait's loop: Blocked first, then the scan.
WaitRound(s, c, nohang) ==
    LET p == s.cur[c]
        child == FindChild(s, p)
    IN  IF child # 0 THEN SyscallExit(Delete(s, child), c)
        ELSE IF Children(s, p) = {} \/ nohang THEN SyscallExit(s, c)
        ELSE Block(s, c, "wait")

Wait(c) ==
    /\ Syscall(c, "wait")
    /\ \E nohang \in BOOLEAN : Finish(WaitRound(Entered(c), c, nohang), c)

Kill(c) ==
    /\ Syscall(c, "kill")
    /\ \E q \in Pid, sig \in Signals :
          /\ Exists(k, q)
          /\ sig \notin k.pend[q]
          /\ Finish(SyscallExit(SendSignal(Entered(c), q, sig), c), c)

Yield(c) ==
    /\ Syscall(c, "yield")
    /\ Finish(Schedule([Entered(c) EXCEPT !.at[k.cur[c]] = "exit"], c), c)

\* Mutation: an empty mask is accepted.
SetAnyAffinity(c) ==
    LET p == k.cur[c] IN
    /\ Syscall(c, "setaffinity")
    /\ \E q \in Pid, mask \in SUBSET Cpu :
          LET s == [Entered(c) EXCEPT !.affinity[q] = mask] IN
          /\ Exists(k, q)
          /\ k.state[q] # "Terminated"
          /\ Finish(IF q = p /\ c \notin mask
                    THEN Schedule([s EXCEPT !.at[p] = "exit"], c)
                    ELSE SyscallExit(s, c), c)

SetAffinity(c) ==
    LET p == k.cur[c] IN
    /\ Syscall(c, "setaffinity")
    /\ \E q \in Pid, mask \in SUBSET Cpu \ {{}} :
          LET s == [Entered(c) EXCEPT !.affinity[q] = mask] IN
          /\ Exists(k, q)
          /\ k.state[q] # "Terminated"
          /\ Finish(IF q = p /\ c \notin mask
                    THEN Schedule([s EXCEPT !.at[p] = "exit"], c)
                    ELSE SyscallExit(s, c), c)

SleepRound(s, c) == Block([s EXCEPT !.asleep[s.cur[c]] = TRUE], c, "sleep")

Sleep(c) ==
    /\ Syscall(c, "sleep")
    /\ Finish(SleepRound(Entered(c), c), c)

\* waitForRequest() on a request just begun, and completeRequest().
IpcCall(c) ==
    /\ Syscall(c, "ipc_call")
    /\ Finish(Block([Entered(c) EXCEPT !.done[k.cur[c]] = FALSE], c, "ipc"), c)

\* Mutation: the answer is stored and the caller not woken.
IpcReplySilently(c) ==
    /\ Syscall(c, "ipc_reply")
    /\ \E q \in Pid :
          /\ k.at[q] = "ipc"
          /\ Finish(SyscallExit([Entered(c) EXCEPT !.done[q] = TRUE], c), c)

IpcReply(c) ==
    /\ Syscall(c, "ipc_reply")
    /\ \E q \in Pid :
          LET s == [Entered(c) EXCEPT !.done[q] = TRUE] IN
          /\ k.at[q] = "ipc"
          /\ Finish(SyscallExit(IF s.state[q] = "Blocked"
                                THEN WakeProcess([s EXCEPT !.state[q] = "Ready"], q)
                                ELSE s, c), c)

\* Mutation: the exec sleeps with no deadline.
ExecRoundUntimed(s, c) ==
    LET p == s.cur[c]
        t == KillSiblingThreads(s, p)
    IN  IF SiblingsOf(s, p) # {}
        THEN Block(t, c, "exec")
        ELSE [t EXCEPT !.asleep[p] = FALSE, !.valid[p] = FALSE, !.at[p] = "user"]

\* sys_exec past its point of failure: the other threads die, then the new
\* image starts at processTrampoline.
ExecRound(s, c) ==
    LET p == s.cur[c]
        t == KillSiblingThreads(s, p)
    IN  IF SiblingsOf(s, p) # {}
        THEN Block([t EXCEPT !.asleep[p] = TRUE], c, "exec")
        ELSE [t EXCEPT !.asleep[p] = FALSE, !.valid[p] = FALSE, !.at[p] = "user"]

Exec(c) ==
    /\ Syscall(c, "exec")
    /\ ~IsThread(k, k.cur[c])
    /\ Finish(ExecRound(Entered(c), c), c)

\* A StorageLock::Section of a syscall that gave up the big lock for it, its
\* end, and a contended acquire() that sleeps between two tries.
StorageBegin(c) ==
    /\ Syscall(c, "storage")
    /\ Finish([Entered(c) EXCEPT !.at[k.cur[c]] = "storage"], c)

InStorage(c) == bkl = NoCpu /\ k.cur[c] # Idle /\ k.at[k.cur[c]] = "storage"

StorageEnd(c) ==
    /\ InStorage(c)
    /\ Finish(SyscallExit(OnKernelEntry(k, c), c), c)

StorageSleep(c) ==
    /\ InStorage(c)
    /\ Finish(Block([OnKernelEntry(k, c) EXCEPT !.asleep[k.cur[c]] = TRUE],
                    c, "contend"), c)

-------------------------------------------------------------------------------
(* Contexts that a switch has resumed, and interrupts.                       *)

\* What the code after a blocking schedule() does.
Continue(s, c) ==
    LET p == s.cur[c]
        awake == [s EXCEPT !.asleep[p] = FALSE]
    IN  CASE s.at[p] = "exit" -> {SyscallExit(s, c)}
          [] s.at[p] = "wait" -> {IF HasDeliverableSignal(s, p) THEN SyscallExit(s, c)
                                  ELSE WaitRound(s, c, FALSE)}
          [] s.at[p] = "sleep" -> IF HasDeliverableSignal(s, p) THEN {SyscallExit(awake, c)}
                                  ELSE {SyscallExit(awake, c), SleepRound(s, c)}
          [] s.at[p] = "ipc" -> {IF s.done[p]
                                 THEN SyscallExit([s EXCEPT !.done[p] = FALSE], c)
                                 ELSE Block(s, c, "ipc")}
          [] s.at[p] = "exec" -> {ExecRound(s, c)}
          [] s.at[p] = "contend" -> {[awake EXCEPT !.at[p] = "storage"]}

Resume(c) ==
    /\ bkl = c
    /\ \E s \in Continue(k, c) : Finish(s, c)

\* Interrupts are on in user mode and in the idle loop's hlt only.
Interruptible(c) == bkl = NoCpu /\ (k.cur[c] # Idle => k.at[k.cur[c]] = "user")

WakeExpiredSleepers(s, due) ==
    FoldLeft(LAMBDA t, p : IF p \in due THEN WakeProcess(t, p) ELSE t,
             s, AllProcesses(s))

\* A timer tick (the boot CPU's, or another's that stands in for it) or a
\* reschedule IPI; which deadlines have passed is up to the clock.
Sleepers == {p \in Pid : k.asleep[p] /\ k.state[p] = "Blocked"}
TickResult(c, due) == ScheduleFrame(WakeExpiredSleepers(OnKernelEntry(k, c), due), c)

Tick(c) ==
    /\ Interruptible(c)
    /\ \E due \in SUBSET Sleepers : Finish(TickResult(c, due), c)

TickWakes(c, p) ==
    /\ Interruptible(c)
    /\ \E due \in SUBSET Sleepers : p \in due /\ Finish(TickResult(c, due), c)

WakeAllBlockedProcesses(s) ==
    FoldLeft(LAMBDA t, p : IF t.state[p] = "Blocked" /\ ~t.asleep[p]
                           THEN AddToReadyQueue([t EXCEPT !.state[p] = "Ready"], p)
                           ELSE t,
             s, AllProcesses(s))

\* Input or a packet: every event waiter looks again.
DeviceIrq(c) ==
    /\ DeviceIrqs
    /\ Interruptible(c)
    /\ Finish(ScheduleFrame(WakeAllBlockedProcesses(OnKernelEntry(k, c)), c), c)

\* An exception in user mode that no handler resolves.
Crash(c) ==
    LET p == k.cur[c]
        s == OnKernelEntry(k, c)
        t == IF IsThread(s, p) THEN ExitThreadGroup(s, p) ELSE s
    IN  /\ Syscall(c, "crash")
        /\ Finish(ScheduleFrame([Terminate(t, p) EXCEPT !.valid[p] = FALSE], c), c)

-------------------------------------------------------------------------------
\* The first program, started at boot without a parent.
Init ==
    /\ bkl = NoCpu
    /\ program \in Programs
    /\ k = [state    |-> [p \in Pid |-> IF p = 1 THEN "Ready" ELSE "None"],
            ready    |-> [i \in Prio |-> IF i = 1 THEN <<1>> ELSE <<>>],
            cur      |-> [c \in Cpu |-> Idle],
            deferred |-> [c \in Cpu |-> 0],
            group    |-> [p \in Pid |-> p],
            parent   |-> [p \in Pid |-> 0],
            prio     |-> [p \in Pid |-> 1],
            affinity |-> [p \in Pid |-> Cpu],
            pend     |-> [p \in Pid |-> {}],
            handled  |-> [p \in Pid |-> FALSE],
            asleep   |-> [p \in Pid |-> FALSE],
            valid    |-> [p \in Pid |-> FALSE],
            done     |-> [p \in Pid |-> FALSE],
            at       |-> [p \in Pid |-> IF p = 1 THEN "new" ELSE "none"],
            files    |-> {1},
            nextPid  |-> 2]

Next ==
    \E c \in Cpu :
        \/ Fork(c) \/ Spawn(c) \/ ThreadCreate(c) \/ Exit(c) \/ ThreadExit(c)
        \/ Wait(c) \/ Kill(c) \/ Yield(c) \/ SetAffinity(c) \/ Sleep(c)
        \/ IpcCall(c) \/ IpcReply(c) \/ Exec(c)
        \/ StorageBegin(c) \/ StorageEnd(c) \/ StorageSleep(c)
        \/ Resume(c) \/ Tick(c) \/ DeviceIrq(c) \/ Crash(c)

Spec == Init /\ [][Next]_vars

\* tickIsNoop(): such a tick of an AP, or reschedule IPI, returns at once.
TickIsNoop(c) ==
    LET p == k.cur[c] IN
    /\ k.deferred[c] = 0
    /\ \A i \in Prio : k.ready[i] = <<>>
    /\ p # Idle => c \in k.affinity[p] /\ "KILL" \notin k.pend[p] /\ k.state[p] = "Running"

\* Kernel code runs on; every CPU's timer keeps ticking, and a CPU that keeps
\* asking for the big lock gets it in the end: weak fairness of Resume, strong
\* fairness of each CPU's Tick and StorageEnd, with their ENABLED spelt out.
\* Time passes: a sleeper's deadline is behind some tick of the boot CPU.
CanTick(c) ==
    /\ Interruptible(c)
    /\ c # BootCpu => ~TickIsNoop(c)
    /\ \E due \in SUBSET Sleepers : TickResult(c, due) # k

FairSpec ==
    /\ Spec
    /\ []<>(bkl = NoCpu) \/ []<><<\E c \in Cpu : Resume(c)>>_vars
    /\ \A c \in Cpu : []<>(CanTick(c) \/ InStorage(c))
                        => []<><<Tick(c) \/ StorageEnd(c)>>_vars
    /\ \A p \in Pid : []<>(p \in Sleepers /\ Interruptible(BootCpu))
                        => []<><<\E c \in Cpu : TickWakes(c, p)>>_vars

-------------------------------------------------------------------------------
\* Types of all fields; every process may run somewhere (sys_sched_setaffinity).
TypeOK ==
    /\ bkl \in Cpu \cup {NoCpu}
    /\ k.state \in [Pid -> {"None", "Ready", "Running", "Blocked", "Terminated"}]
    /\ k.ready \in [Prio -> Seq(Pid)]
    /\ k.cur \in [Cpu -> Pid \cup {Idle}]
    /\ k.deferred \in [Cpu -> Pid \cup {0}]
    /\ k.group \in [Pid -> Pid]
    /\ k.parent \in [Pid -> Pid \cup {0}]
    /\ k.prio \in [Pid -> Prio]
    /\ k.affinity \in [Pid -> SUBSET Cpu \ {{}}]
    /\ k.pend \in [Pid -> SUBSET {"KILL", "TERM"}]
    /\ k.handled \in [Pid -> BOOLEAN]
    /\ k.asleep \in [Pid -> BOOLEAN]
    /\ k.valid \in [Pid -> BOOLEAN]
    /\ k.done \in [Pid -> BOOLEAN]
    /\ k.at \in [Pid -> {"none", "new", "irq", "user", "exit", "wait", "sleep",
                         "ipc", "exec", "storage", "contend"}]
    /\ k.files \subseteq Pid
    /\ k.nextPid \in 2..(MaxPid + 1)

\* Every process is in exactly one place: it runs on one CPU, or it is in its
\* ready queue once, or it is blocked and in none.  So no CPU executes on a
\* kernel stack that another uses, no runnable process is forgotten, and no
\* freed process is still queued or current (schedule, wakeProcess,
\* removeProcess, reapTerminated).
InOnePlace ==
    /\ \A c, d \in Cpu : k.cur[c] = k.cur[d] /\ k.cur[c] # Idle => c = d
    /\ \A i \in Prio : IsInjective(k.ready[i])
    /\ \A p \in Pid :
        /\ k.state[p] = "Running" <=> \E c \in Cpu : k.cur[c] = p
        /\ k.state[p] = "Ready" => p \in ToSet(k.ready[k.prio[p]])
        /\ k.state[p] \in {"None", "Running", "Blocked"} => ~Queued(k, p)

\* sys_wait's wake-up is never lost ("Either way the wake-up cannot be lost."):
\* a process blocked in wait() has a child, and none it could collect now.
NoLostWait ==
    \A p \in Pid :
        k.state[p] = "Blocked" /\ k.at[p] = "wait" =>
            /\ \E q \in Children(k, p) : k.state[q] # "None"
            /\ FindChild(k, p) = 0

\* A completed IPC request never leaves its owner blocked (completeRequest).
NoLostReply ==
    \A p \in Pid : k.at[p] = "ipc" /\ k.done[p] => k.state[p] # "Blocked"

\* A process whose death has been announced (its threads killed, its children
\* given away, its parent woken) is dead: it never runs on
\* (syscall.cpp: schedule() "switches away for good (never returns)").
DeadStaysDead == \A p \in Pid : k.handled[p] => k.state[p] = "Terminated"

\* No wake-up, signal or switch brings a terminated process or thread back.
TerminatedIsFinal ==
    [][\A p \in Pid : k.state[p] = "Terminated" => k'.state[p] \in {"Terminated", "None"}]_vars

\* A process is freed only when it is dead and no CPU is on its kernel stack,
\* and the main thread that wait() reports to a living parent has no threads
\* left (findChild, removeProcess, reapTerminated).
FreedOnlyWhenGone ==
    [][\A p \in Pid : k.state[p] # "None" /\ k'.state[p] = "None" =>
          /\ k.state[p] = "Terminated"
          /\ ~Busy(k, p)
          /\ ~IsThread(k, p) /\ k.parent[p] # 0 /\ ~k'.handled[k.parent[p]] =>
                \A q \in SiblingsOf(k, p) : k'.state[q] = "None"]_vars

\* However the main thread died, its threads go with it: every thread that is
\* left has been killed (onProcessTerminated).
GroupDiesWithMain ==
    \A p, q \in Pid :
        k.handled[p] /\ q \in SiblingsOf(k, p) =>
            k.state[q] = "Terminated" \/ "KILL" \in k.pend[q]

\* No zombie is left that nobody will collect: its parent is alive, or it has
\* none and reapTerminated() takes it (onProcessTerminated: "lets
\* reapTerminated() collect orphaned zombies instead of leaking them").
NoLeakedZombie ==
    \A p \in Pid :
        k.state[p] = "Terminated" /\ ~IsThread(k, p) /\ k.parent[p] # 0 =>
            Exists(k, k.parent[p]) /\ ~k.handled[k.parent[p]]

\* A zombie of a program without threads holds no descriptors, so that it does
\* not keep a pipe open while its parent waits to read the end of it
\* (closeFilesOnExit: "so a lingering zombie no longer pins shared file
\* descriptions").
ZombieHoldsNoFiles ==
    "thread_create" \notin program.main => \A p \in Pid :
        Reportable(k, p) /\ ~IsThread(k, p) /\ k.parent[p] # 0 => p \notin k.files

\* Only a process on a CPU has a valid user state, so schedule(frame) rewrites
\* the frame only to return to the process it interrupted and never parks one.
ValidOnlyOnCpu ==
    /\ \A p \in Pid : k.valid[p] => \E c \in Cpu : k.cur[c] = p
    /\ \A c \in Cpu : k.deferred[c] = 0

\* A CPU switches only to a process whose affinity allows it (getNextProcess).
AffinityRespected ==
    [][\A c \in Cpu : k'.cur[c] \notin {Idle, k.cur[c]} => c \in k'.affinity[k'.cur[c]]]_vars

\* A killed process dies, wherever it was: in user mode on another CPU, in a
\* ready queue, or blocked (killSiblingThreads, sendSignal, terminateIfKilled).
KilledDies ==
    \A p \in Pid : "KILL" \in k.pend[p] ~> k.state[p] \in {"Terminated", "None"}

\* The death of a child brings its parent out of wait().
WaitSeesDeath ==
    \A p \in Pid :
        k.at[p] = "wait" /\ (\E q \in Children(k, p) : "KILL" \in k.pend[q])
            ~> k.at[p] # "wait"

\* exec() gets rid of the other threads and starts the new image, unless one
\* of them took the process with it: nobody waits on anybody (sys_exec: "wait
\* until they are reaped").
ExecFinishes ==
    \A p \in Pid : k.at[p] = "exec" ~> k.at[p] # "exec" \/ k.state[p] = "Terminated"

===============================================================================
