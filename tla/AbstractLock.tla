----------------------------- MODULE AbstractLock -----------------------------
(***************************************************************************)
(* What the big kernel lock promises to the rest of the kernel             *)
(* (include/cpu/klock.hpp): one CPU at a time executes kernel code, and    *)
(* the kernel entries a context has open (a syscall, and the page faults   *)
(* nested in it) belong to that context, so they move with it when it is   *)
(* switched out on one CPU and resumed on another.                         *)
(*                                                                         *)
(* There is no flag, no owner word and no depth counter here: a context    *)
(* with open entries is in the kernel, and `holder' is the CPU on which    *)
(* kernel code runs.                                                       *)
(***************************************************************************)
EXTENDS Naturals

CONSTANTS Cpu,     \* the processors
          Proc,    \* the kernel contexts of processes; CPU c's idle context is c
          NoCpu    \* "nobody"

Ctx == Proc \cup Cpu

VARIABLES holder,  \* the CPU that executes kernel code, or NoCpu
          cur,     \* cur[c]: the context CPU c is executing
          open     \* open[x]: how many kernel entries context x has open

vars == <<holder, cur, open>>

TypeOK ==
    /\ holder \in Cpu \cup {NoCpu}
    /\ cur \in [Cpu -> Ctx]
    /\ open \in [Ctx -> Nat]

Init ==
    /\ holder = NoCpu
    /\ cur = [c \in Cpu |-> c]
    /\ open = [x \in Ctx |-> 0]

\* An entry: from outside, or nested in one this CPU already has open.
Enter(c) ==
    /\ holder \in {NoCpu, c}
    /\ holder' = c
    /\ open' = [open EXCEPT ![cur[c]] = @ + 1]
    /\ UNCHANGED cur

\* The innermost entry ends; with the last one the CPU is out of the kernel.
Leave(c) ==
    /\ holder = c
    /\ open[cur[c]] > 0
    /\ open' = [open EXCEPT ![cur[c]] = @ - 1]
    /\ holder' = IF open[cur[c]] = 1 THEN NoCpu ELSE c
    /\ UNCHANGED cur

\* A context with no entry open (it has just been started) goes out.
Exit(c) ==
    /\ holder = c
    /\ open[cur[c]] = 0
    /\ holder' = NoCpu
    /\ UNCHANGED <<cur, open>>

\* The CPU goes on with another context and stays in the kernel; the old one
\* keeps its open entries, or loses them because it never runs again.
Switch(c, x) ==
    /\ holder = c
    /\ \A d \in Cpu \ {c} : cur[d] # x
    /\ cur' = [cur EXCEPT ![c] = x]
    /\ \/ UNCHANGED open
       \/ open' = [open EXCEPT ![cur[c]] = 0]
    /\ UNCHANGED holder

\* Kernel code that lets others in while its entries stay open, and its return.
Suspend(c) ==
    /\ holder = c
    /\ holder' = NoCpu
    /\ UNCHANGED <<cur, open>>

Resume(c) ==
    /\ holder = NoCpu
    /\ open[cur[c]] > 0
    /\ holder' = c
    /\ UNCHANGED <<cur, open>>

Next ==
    \E c \in Cpu :
        \/ Enter(c) \/ Leave(c) \/ Exit(c) \/ Suspend(c) \/ Resume(c)
        \/ \E x \in Ctx : Switch(c, x)

Spec == Init /\ [][Next]_vars

===============================================================================
