------------------------------ MODULE KernelLock ------------------------------
(***************************************************************************)
(* The big kernel lock, src/cpu/klock.cpp, with the ways the kernel uses   *)
(* it: entries from user mode and from an idle CPU, nested entries (a page *)
(* fault inside a syscall), the boot CPU's idle polling, the context       *)
(* switch that hands the lock to the context it resumes                    *)
(* (Scheduler::switchTo), the user-entry trampolines and the idle loop     *)
(* that drop it, and suspend/resume around storage I/O.                    *)
(*                                                                         *)
(* The lock is three words: s_locked (the spin flag), s_owner and s_depth. *)
(* `open' is the program's own nesting, kept by no word of the kernel: it  *)
(* counts the entries a context has made and not left, and says where the  *)
(* context really is.  The properties relate the two.                      *)
(***************************************************************************)
EXTENDS Naturals

CONSTANTS Cpu,       \* the processors
          Proc,      \* kernel contexts of processes; CPU c's idle context is c
          NoCpu,     \* s_owner = 0
          MaxDepth   \* bound on nested entries

ASSUME CpuAssumption == NoCpu \notin Cpu /\ Cpu \cap Proc = {}
ASSUME DepthAssumption == MaxDepth \in Nat \ {0}

VARIABLES locked,    \* s_locked
          owner,     \* s_owner
          depth,     \* s_depth
          pc,        \* pc[c]: what CPU c is doing, as far as the lock goes
          cur,       \* cur[c]: the context CPU c executes
          saved,     \* saved[x]: switchTo's lockDepth; 0 = x starts afresh
          susp,      \* susp[c]: the depth suspend() returned; 0 = not suspended
          open       \* open[x]: entries of x not yet left

vars == <<locked, owner, depth, pc, cur, saved, susp, open>>

Ctx == Proc \cup Cpu

(***************************************************************************)
(* "out"    user mode, hlt, or (susp[c] # 0) storage I/O without the lock  *)
(* "spin"   in enter()'s loop            "took"   won the test-and-set     *)
(* "kernel" kernel code                  "start"  a fresh context's first  *)
(*                                                instructions             *)
(* "drop1", "drop2", "drop3"  the three stores of unlock()                 *)
(***************************************************************************)
PC == {"out", "spin", "took", "kernel", "start", "drop1", "drop2", "drop3"}

Init ==
    /\ locked = FALSE
    /\ owner = NoCpu
    /\ depth = 0
    /\ pc = [c \in Cpu |-> "out"]
    /\ cur = [c \in Cpu |-> c]
    /\ saved = [x \in Ctx |-> 0]
    /\ susp = [c \in Cpu |-> 0]
    /\ open = [x \in Ctx |-> 0]

-------------------------------------------------------------------------------
\* enter() by a CPU that is not in the kernel: a syscall, an interrupt or an
\* exception from user mode, an interrupt out of hlt.
Enter(c) ==
    /\ pc[c] = "out"
    /\ susp[c] = 0
    /\ IF owner = c
       THEN /\ depth' = depth + 1
            /\ open' = [open EXCEPT ![cur[c]] = @ + 1]
            /\ pc' = [pc EXCEPT ![c] = "kernel"]
       ELSE /\ pc' = [pc EXCEPT ![c] = "spin"]
            /\ UNCHANGED <<depth, open>>
    /\ UNCHANGED <<locked, owner, cur, saved, susp>>

\* enter() by a CPU already in the kernel (a page fault inside a syscall).
EnterNested(c) ==
    /\ pc[c] = "kernel"
    /\ owner = c
    /\ depth < MaxDepth
    /\ depth' = depth + 1
    /\ open' = [open EXCEPT ![cur[c]] = @ + 1]
    /\ UNCHANGED <<locked, owner, pc, cur, saved, susp>>

\* Mutation: the flag is tested in one step and set in another.
TestThenSet(c) ==
    /\ pc[c] = "spin"
    /\ locked' = TRUE
    /\ pc' = [pc EXCEPT ![c] = "took"]
    /\ UNCHANGED <<owner, depth, cur, saved, susp, open>>

\* The test-and-set of enter() that finds the flag clear.
TestAndSet(c) ==
    /\ pc[c] = "spin"
    /\ ~locked
    /\ locked' = TRUE
    /\ pc' = [pc EXCEPT ![c] = "took"]
    /\ UNCHANGED <<owner, depth, cur, saved, susp, open>>

\* tryEnter() from the boot CPU's idle loop or its timer tick; it gives up at
\* once when the flag is set.
TryEnter(c) ==
    /\ pc[c] = "out"
    /\ susp[c] = 0
    /\ owner # c
    /\ ~locked
    /\ locked' = TRUE
    /\ pc' = [pc EXCEPT ![c] = "took"]
    /\ UNCHANGED <<owner, depth, cur, saved, susp, open>>

\* acquired(), and for a resume() the store of the saved depth after it.
Acquired(c) ==
    /\ pc[c] = "took"
    /\ owner' = c
    /\ depth' = IF susp[c] = 0 THEN 1 ELSE susp[c]
    /\ open' = IF susp[c] = 0 THEN [open EXCEPT ![cur[c]] = @ + 1] ELSE open
    /\ susp' = [susp EXCEPT ![c] = 0]
    /\ pc' = [pc EXCEPT ![c] = "kernel"]
    /\ UNCHANGED <<locked, cur, saved>>

\* leave(): the entry ends; depth 0 unlocks.  A CPU that does not own the lock
\* only reports it, and goes on to wherever its context returns to.
Leave(c) ==
    /\ pc[c] = "kernel"
    /\ open' = [open EXCEPT ![cur[c]] = @ - 1]
    /\ depth' = IF owner = c THEN depth - 1 ELSE depth
    /\ pc' = [pc EXCEPT ![c] = IF owner = c /\ depth = 1 THEN "drop1"
                               ELSE IF open[cur[c]] = 1 THEN "out" ELSE "kernel"]
    /\ UNCHANGED <<locked, owner, cur, saved, susp>>

\* releaseAll() by a context that has just been started: the trampolines of
\* switch.cpp (kernelLockExitToUser) and idleLoop.
ReleaseAll(c) ==
    /\ pc[c] = "start"
    /\ pc' = [pc EXCEPT ![c] = IF owner = c THEN "drop1" ELSE "out"]
    /\ UNCHANGED <<locked, owner, depth, cur, saved, susp, open>>

\* Mutations: unlock() forgets s_owner; it counts s_depth down once more.
UnlockKeepsOwner(c) ==
    /\ pc[c] = "drop1"
    /\ pc' = [pc EXCEPT ![c] = "drop2"]
    /\ UNCHANGED <<locked, owner, depth, cur, saved, susp, open>>

UnlockDecrements(c) ==
    /\ pc[c] = "drop2"
    /\ depth' = depth - 1
    /\ pc' = [pc EXCEPT ![c] = "drop3"]
    /\ UNCHANGED <<locked, owner, cur, saved, susp, open>>

\* unlock(): the stores to s_owner, s_depth and s_locked, in that order.
UnlockOwner(c) ==
    /\ pc[c] = "drop1"
    /\ owner' = NoCpu
    /\ pc' = [pc EXCEPT ![c] = "drop2"]
    /\ UNCHANGED <<locked, depth, cur, saved, susp, open>>

UnlockDepth(c) ==
    /\ pc[c] = "drop2"
    /\ depth' = 0
    /\ pc' = [pc EXCEPT ![c] = "drop3"]
    /\ UNCHANGED <<locked, owner, cur, saved, susp, open>>

\* The CPU goes on to where its context is: out, or in kernel code that
\* believes it still holds the lock.
UnlockFlag(c) ==
    /\ pc[c] = "drop3"
    /\ locked' = FALSE
    /\ pc' = [pc EXCEPT ![c] = IF susp[c] # 0 \/ open[cur[c]] = 0
                               THEN "out" ELSE "kernel"]
    /\ UNCHANGED <<owner, depth, cur, saved, susp, open>>

-------------------------------------------------------------------------------
\* Mutations: the resumed context does not get its depth back; a context is
\* resumed that another CPU still runs.
SwitchWithoutSetDepth(c, x, dies) ==
    /\ pc[c] = "kernel"
    /\ \A d \in Cpu : cur[d] # x
    /\ x \in Cpu => x = c
    /\ cur[c] \in Cpu => dies
    /\ saved' = [saved EXCEPT ![cur[c]] = IF dies THEN 0 ELSE depth, ![x] = 0]
    /\ open' = IF dies THEN [open EXCEPT ![cur[c]] = 0] ELSE open
    /\ cur' = [cur EXCEPT ![c] = x]
    /\ pc' = [pc EXCEPT ![c] = IF saved[x] = 0 THEN "start" ELSE "kernel"]
    /\ UNCHANGED <<locked, owner, depth, susp>>

SwitchToBusy(c, x, dies) ==
    /\ pc[c] = "kernel"
    /\ x \in Cpu => x = c
    /\ cur[c] \in Cpu => dies
    /\ saved' = [saved EXCEPT ![cur[c]] = IF dies THEN 0 ELSE depth, ![x] = 0]
    /\ open' = IF dies THEN [open EXCEPT ![cur[c]] = 0] ELSE open
    /\ cur' = [cur EXCEPT ![c] = x]
    /\ depth' = IF saved[x] # 0 THEN saved[x] ELSE depth
    /\ pc' = [pc EXCEPT ![c] = IF saved[x] = 0 THEN "start" ELSE "kernel"]
    /\ UNCHANGED <<locked, owner, susp>>

\* switchTo(): the outgoing context keeps its depth on its own stack and the
\* resumed one restores its own with setDepth(), which only reports when this
\* CPU is not the owner and unlocks on 0.  A fresh context starts at a
\* trampoline or at idleLoop.  Nothing comes back to an idle context, nor to
\* one that has terminated (`dies').
SwitchTo(c, x, dies) ==
    /\ pc[c] = "kernel"
    /\ \A d \in Cpu : cur[d] # x
    /\ x \in Cpu => x = c
    /\ cur[c] \in Cpu => dies
    /\ saved' = [saved EXCEPT ![cur[c]] = IF dies THEN 0
                                          ELSE IF owner = c THEN depth ELSE 0,
                              ![x] = 0]
    /\ open' = IF dies THEN [open EXCEPT ![cur[c]] = 0] ELSE open
    /\ cur' = [cur EXCEPT ![c] = x]
    /\ depth' = IF saved[x] # 0 /\ owner = c THEN saved[x] ELSE depth
    /\ pc' = [pc EXCEPT ![c] = IF saved[x] = 0 THEN "start" ELSE "kernel"]
    /\ UNCHANGED <<locked, owner, susp>>

-------------------------------------------------------------------------------
\* suspend() by StorageLock::Section, at a syscall's own nesting depth.
Suspend(c) ==
    /\ pc[c] = "kernel"
    /\ cur[c] \in Proc
    /\ owner = c
    /\ open[cur[c]] = 1
    /\ susp' = [susp EXCEPT ![c] = depth]
    /\ pc' = [pc EXCEPT ![c] = "drop1"]
    /\ UNCHANGED <<locked, owner, depth, cur, saved, open>>

\* resume(): enter() again, at the end of the Section.
Resume(c) ==
    /\ pc[c] = "out"
    /\ susp[c] # 0
    /\ pc' = [pc EXCEPT ![c] = "spin"]
    /\ UNCHANGED <<locked, owner, depth, cur, saved, susp, open>>

Next ==
    \E c \in Cpu :
        \/ Enter(c) \/ EnterNested(c) \/ TestAndSet(c) \/ TryEnter(c)
        \/ Acquired(c) \/ Leave(c) \/ ReleaseAll(c)
        \/ UnlockOwner(c) \/ UnlockDepth(c) \/ UnlockFlag(c)
        \/ Suspend(c) \/ Resume(c)
        \/ \E x \in Ctx, dies \in BOOLEAN : SwitchTo(c, x, dies)

Spec == Init /\ [][Next]_vars

-------------------------------------------------------------------------------
\* Types of all variables; no depth exceeds the entries made.
TypeOK ==
    /\ locked \in BOOLEAN
    /\ owner \in Cpu \cup {NoCpu}
    /\ depth \in 0..MaxDepth
    /\ pc \in [Cpu -> PC]
    /\ cur \in [Cpu -> Ctx]
    /\ saved \in [Ctx -> 0..MaxDepth]
    /\ susp \in [Cpu -> 0..MaxDepth]
    /\ open \in [Ctx -> 0..MaxDepth]

\* Kernel code runs on one CPU at a time (klock.hpp: "all kernel code ... runs
\* holding this one lock").
MutualExclusion ==
    \A c, d \in Cpu :
        pc[c] \in {"kernel", "start"} /\ pc[d] \in {"kernel", "start"} => c = d

\* The owner word and the depth counter tell the truth about the context that
\* is running: while a CPU is in the kernel it is the owner and s_depth is the
\* number of entries its current context has open, wherever that context
\* entered; so no leave() finds the lock not held and the leave() of the last
\* entry, and no other, unlocks.
DepthFollowsContext ==
    \A c \in Cpu : pc[c] = "kernel" => owner = c /\ depth = open[cur[c]]

\* A CPU that is out of the kernel (user mode, hlt, storage I/O) is not the
\* owner, so its next enter() takes the lock instead of nesting on it.
OutsideOwnsNothing ==
    \A c \in Cpu : pc[c] \in {"out", "spin", "took"} => owner # c

\* The CPU that executes kernel code, for the abstract specification.
Holder ==
    IF \E c \in Cpu : pc[c] \in {"kernel", "start"}
    THEN CHOOSE c \in Cpu : pc[c] \in {"kernel", "start"}
    ELSE NoCpu

Abs == INSTANCE AbstractLock WITH holder <- Holder

\* The three words and the hand-over in switchTo() implement the lock that
\* klock.hpp describes: one CPU in the kernel, and entries that belong to the
\* context and not to the CPU.
ImplementsAbstractLock == Abs!Spec

===============================================================================
