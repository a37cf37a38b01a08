---------------------------- MODULE AbstractMemory -----------------------------
(***************************************************************************)
(* What the virtual memory of InstantOS promises its programs: every       *)
(* address space has private pages of its own.  A write changes one page   *)
(* of one space, a new page is zero, and a fork gives the child the        *)
(* parent's pages as they are when it starts.  Pages of shared objects are *)
(* no part of it.                                                          *)
(***************************************************************************)
CONSTANTS Space, Va, Val, Zero, None

VARIABLES live, mem

vars == <<live, mem>>

Empty == [v \in Va |-> None]

Init ==
    /\ live \in SUBSET Space
    /\ mem = [s \in Space |-> Empty]

Write ==
    \E s \in live, v \in Va, x \in Val :
        /\ mem[s][v] # None
        /\ mem' = [mem EXCEPT ![s][v] = x]
        /\ UNCHANGED live

Populate ==
    \E s \in live, v \in Va :
        /\ mem[s][v] = None
        /\ mem' = [mem EXCEPT ![s][v] = Zero]
        /\ UNCHANGED live

Drop ==
    \E s \in live, v \in Va :
        /\ mem' = [mem EXCEPT ![s][v] = None]
        /\ UNCHANGED live

Fork ==
    \E s \in live, child \in Space \ live :
        /\ live' = live \cup {child}
        /\ mem' = [mem EXCEPT ![child] = mem[s]]

Exit ==
    \E s \in live :
        /\ live' = live \ {s}
        /\ mem' = [mem EXCEPT ![s] = Empty]

Next == Write \/ Populate \/ Drop \/ Fork \/ Exit

Spec == Init /\ [][Next]_vars

===============================================================================
