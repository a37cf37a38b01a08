--------------------------- MODULE KernelLockProofs ---------------------------
(***************************************************************************)
(* Proofs about KernelLock, for every set of CPUs and contexts and every   *)
(* bound on the nesting.                                                   *)
(***************************************************************************)
EXTENDS KernelLock, TLAPS

\* The CPU between its successful test-and-set and its clearing of the flag.
Holding(c) == pc[c] \in {"took", "kernel", "start", "drop1", "drop2", "drop3"}

\* The flag is set exactly while some CPU holds it, and one CPU at most does.
FlagInv ==
    /\ locked <=> \E c \in Cpu : Holding(c)
    /\ \A c, d \in Cpu : Holding(c) /\ Holding(d) => c = d

\* The owner word is set from acquired() to the first store of unlock().
OwnerInv ==
    \A c \in Cpu : owner = c <=> pc[c] \in {"kernel", "start", "drop1"}

\* No two CPUs execute the same context.
CurInv == \A c, d \in Cpu : cur[c] = cur[d] => c = d

\* Idle contexts run on their own CPU only.
IdleInv == \A c, d \in Cpu : cur[c] = d => c = d

\* Where the open entries of a running context are accounted for.
RunningInv ==
    \A c \in Cpu :
        /\ pc[c] = "kernel" => /\ susp[c] = 0
                               /\ depth = open[cur[c]]
                               /\ depth > 0
        /\ pc[c] = "start" => susp[c] = 0 /\ open[cur[c]] = 0
        /\ pc[c] \notin {"kernel", "start"} => susp[c] = open[cur[c]]

\* And those of a context that is not running: on its own stack.
ParkedInv ==
    \A x \in Ctx : (\A c \in Cpu : cur[c] # x) => saved[x] = open[x]

IInv ==
    /\ TypeOK
    /\ FlagInv
    /\ OwnerInv
    /\ CurInv
    /\ IdleInv
    /\ RunningInv
    /\ ParkedInv

\* The invariant holds initially: no CPU is in the kernel.
LEMMA InitIInv == Init => IInv
<1> SUFFICES ASSUME Init PROVE IInv
  OBVIOUS
<1> USE CpuAssumption, DepthAssumption DEF Init
<1>1. TypeOK
  <2>1. 0 \in 0..MaxDepth
    OBVIOUS
  <2>2. pc \in [Cpu -> PC]
    BY DEF PC
  <2>3. cur \in [Cpu -> Ctx]
    BY DEF Ctx
  <2>4. /\ saved \in [Ctx -> 0..MaxDepth]
        /\ susp \in [Cpu -> 0..MaxDepth]
        /\ open \in [Ctx -> 0..MaxDepth]
    BY <2>1
  <2>5. QED
    BY <2>1, <2>2, <2>3, <2>4 DEF TypeOK
<1>2. FlagInv /\ OwnerInv
  BY DEF FlagInv, Holding, OwnerInv
<1>3. CurInv /\ IdleInv
  BY DEF CurInv, IdleInv
<1>4. RunningInv /\ ParkedInv
  BY DEF RunningInv, ParkedInv, Ctx
<1>5. QED
  BY <1>1, <1>2, <1>3, <1>4 DEF IInv

\* Every step of every CPU preserves it.
LEMMA NextIInv == IInv /\ [Next]_vars => IInv'
<1> SUFFICES ASSUME IInv, [Next]_vars PROVE IInv'
  OBVIOUS
<1> USE CpuAssumption, DepthAssumption DEF IInv
<1>1. ASSUME NEW c \in Cpu, Enter(c) PROVE IInv'
  <2>1. TypeOK'
    BY <1>1 DEF Enter, TypeOK, PC, Ctx, RunningInv, OwnerInv
  <2>2. FlagInv'
    BY <1>1 DEF Enter, TypeOK, PC, FlagInv, Holding, OwnerInv
  <2>3. OwnerInv'
    BY <1>1 DEF Enter, TypeOK, PC, OwnerInv, FlagInv, Holding
  <2>4. CurInv'
    BY <1>1 DEF Enter, TypeOK, CurInv
  <2>5. IdleInv'
    BY <1>1 DEF Enter, TypeOK, IdleInv
  <2>6. RunningInv'
    BY <1>1 DEF Enter, TypeOK, PC, Ctx, RunningInv, OwnerInv, CurInv, FlagInv, Holding
  <2>7. ParkedInv'
    BY <1>1 DEF Enter, TypeOK, Ctx, ParkedInv, CurInv
  <2>8. QED
    BY <2>1, <2>2, <2>3, <2>4, <2>5, <2>6, <2>7
<1>2. ASSUME NEW c \in Cpu, EnterNested(c) PROVE IInv'
  <2>1. TypeOK'
    BY <1>2 DEF EnterNested, TypeOK, PC, Ctx, RunningInv, OwnerInv
  <2>2. FlagInv'
    BY <1>2 DEF EnterNested, TypeOK, PC, FlagInv, Holding
  <2>3. OwnerInv'
    BY <1>2 DEF EnterNested, TypeOK, PC, OwnerInv, FlagInv, Holding
  <2>4. CurInv'
    BY <1>2 DEF EnterNested, TypeOK, CurInv
  <2>5. IdleInv'
    BY <1>2 DEF EnterNested, TypeOK, IdleInv
  <2>6. RunningInv'
    BY <1>2 DEF EnterNested, TypeOK, PC, Ctx, RunningInv, OwnerInv, CurInv, FlagInv, Holding
  <2>7. ParkedInv'
    BY <1>2 DEF EnterNested, TypeOK, Ctx, ParkedInv, CurInv
  <2>8. QED
    BY <2>1, <2>2, <2>3, <2>4, <2>5, <2>6, <2>7
<1>3. ASSUME NEW c \in Cpu, TestAndSet(c) PROVE IInv'
  <2>1. TypeOK'
    BY <1>3 DEF TestAndSet, TypeOK, PC, Ctx, RunningInv, OwnerInv
  <2>2. FlagInv'
    BY <1>3 DEF TestAndSet, TypeOK, PC, FlagInv, Holding
  <2>3. OwnerInv'
    BY <1>3 DEF TestAndSet, TypeOK, PC, OwnerInv, FlagInv, Holding
  <2>4. CurInv'
    BY <1>3 DEF TestAndSet, TypeOK, CurInv
  <2>5. IdleInv'
    BY <1>3 DEF TestAndSet, TypeOK, IdleInv
  <2>6. RunningInv'
    BY <1>3 DEF TestAndSet, TypeOK, PC, Ctx, RunningInv, OwnerInv, CurInv, FlagInv, Holding
  <2>7. ParkedInv'
    BY <1>3 DEF TestAndSet, TypeOK, Ctx, ParkedInv, CurInv
  <2>8. QED
    BY <2>1, <2>2, <2>3, <2>4, <2>5, <2>6, <2>7
<1>4. ASSUME NEW c \in Cpu, TryEnter(c) PROVE IInv'
  <2>1. TypeOK'
    BY <1>4 DEF TryEnter, TypeOK, PC, Ctx, RunningInv, OwnerInv
  <2>2. FlagInv'
    BY <1>4 DEF TryEnter, TypeOK, PC, FlagInv, Holding
  <2>3. OwnerInv'
    BY <1>4 DEF TryEnter, TypeOK, PC, OwnerInv, FlagInv, Holding
  <2>4. CurInv'
    BY <1>4 DEF TryEnter, TypeOK, CurInv
  <2>5. IdleInv'
    BY <1>4 DEF TryEnter, TypeOK, IdleInv
  <2>6. RunningInv'
    BY <1>4 DEF TryEnter, TypeOK, PC, Ctx, RunningInv, OwnerInv, CurInv, FlagInv, Holding
  <2>7. ParkedInv'
    BY <1>4 DEF TryEnter, TypeOK, Ctx, ParkedInv, CurInv
  <2>8. QED
    BY <2>1, <2>2, <2>3, <2>4, <2>5, <2>6, <2>7
<1>5. ASSUME NEW c \in Cpu, Acquired(c) PROVE IInv'
  <2>1. TypeOK'
    BY <1>5 DEF Acquired, TypeOK, PC, Ctx, RunningInv, OwnerInv
  <2>2. FlagInv'
    BY <1>5 DEF Acquired, TypeOK, PC, FlagInv, Holding
  <2>3. OwnerInv'
    BY <1>5 DEF Acquired, TypeOK, PC, OwnerInv, FlagInv, Holding
  <2>4. CurInv'
    BY <1>5 DEF Acquired, TypeOK, CurInv
  <2>5. IdleInv'
    BY <1>5 DEF Acquired, TypeOK, IdleInv
  <2>6. RunningInv'
    BY <1>5 DEF Acquired, TypeOK, PC, Ctx, RunningInv, OwnerInv, CurInv, FlagInv, Holding
  <2>7. ParkedInv'
    BY <1>5 DEF Acquired, TypeOK, Ctx, ParkedInv, CurInv
  <2>8. QED
    BY <2>1, <2>2, <2>3, <2>4, <2>5, <2>6, <2>7
<1>6. ASSUME NEW c \in Cpu, Leave(c) PROVE IInv'
  <2>1. TypeOK'
    BY <1>6 DEF Leave, TypeOK, PC, Ctx, RunningInv, OwnerInv
  <2>2. FlagInv'
    BY <1>6 DEF Leave, TypeOK, PC, Ctx, FlagInv, Holding, OwnerInv, RunningInv
  <2>3. OwnerInv'
    BY <1>6 DEF Leave, TypeOK, PC, Ctx, OwnerInv, RunningInv
  <2>4. CurInv'
    BY <1>6 DEF Leave, TypeOK, CurInv
  <2>5. IdleInv'
    BY <1>6 DEF Leave, TypeOK, IdleInv
  <2>6. RunningInv'
    BY <1>6 DEF Leave, TypeOK, PC, Ctx, RunningInv, OwnerInv, CurInv, FlagInv, Holding
  <2>7. ParkedInv'
    BY <1>6 DEF Leave, TypeOK, Ctx, ParkedInv, CurInv
  <2>8. QED
    BY <2>1, <2>2, <2>3, <2>4, <2>5, <2>6, <2>7
<1>7. ASSUME NEW c \in Cpu, ReleaseAll(c) PROVE IInv'
  <2>1. TypeOK'
    BY <1>7 DEF ReleaseAll, TypeOK, PC, Ctx, RunningInv, OwnerInv
  <2>2. FlagInv'
    BY <1>7 DEF ReleaseAll, TypeOK, PC, FlagInv, Holding, OwnerInv
  <2>3. OwnerInv'
    BY <1>7 DEF ReleaseAll, TypeOK, PC, OwnerInv, FlagInv, Holding
  <2>4. CurInv'
    BY <1>7 DEF ReleaseAll, TypeOK, CurInv
  <2>5. IdleInv'
    BY <1>7 DEF ReleaseAll, TypeOK, IdleInv
  <2>6. RunningInv'
    BY <1>7 DEF ReleaseAll, TypeOK, PC, Ctx, RunningInv, OwnerInv, CurInv, FlagInv, Holding
  <2>7. ParkedInv'
    BY <1>7 DEF ReleaseAll, TypeOK, Ctx, ParkedInv, CurInv
  <2>8. QED
    BY <2>1, <2>2, <2>3, <2>4, <2>5, <2>6, <2>7
<1>8. ASSUME NEW c \in Cpu, UnlockOwner(c) PROVE IInv'
  <2>1. TypeOK'
    BY <1>8 DEF UnlockOwner, TypeOK, PC, Ctx, RunningInv, OwnerInv
  <2>2. FlagInv'
    BY <1>8 DEF UnlockOwner, TypeOK, PC, FlagInv, Holding
  <2>3. OwnerInv'
    BY <1>8 DEF UnlockOwner, TypeOK, PC, OwnerInv, FlagInv, Holding
  <2>4. CurInv'
    BY <1>8 DEF UnlockOwner, TypeOK, CurInv
  <2>5. IdleInv'
    BY <1>8 DEF UnlockOwner, TypeOK, IdleInv
  <2>6. RunningInv'
    BY <1>8 DEF UnlockOwner, TypeOK, PC, Ctx, RunningInv, OwnerInv, CurInv, FlagInv, Holding
  <2>7. ParkedInv'
    BY <1>8 DEF UnlockOwner, TypeOK, Ctx, ParkedInv, CurInv
  <2>8. QED
    BY <2>1, <2>2, <2>3, <2>4, <2>5, <2>6, <2>7
<1>9. ASSUME NEW c \in Cpu, UnlockDepth(c) PROVE IInv'
  <2>1. TypeOK'
    BY <1>9 DEF UnlockDepth, TypeOK, PC, Ctx, RunningInv, OwnerInv
  <2>2. FlagInv'
    BY <1>9 DEF UnlockDepth, TypeOK, PC, FlagInv, Holding
  <2>3. OwnerInv'
    BY <1>9 DEF UnlockDepth, TypeOK, PC, OwnerInv, FlagInv, Holding
  <2>4. CurInv'
    BY <1>9 DEF UnlockDepth, TypeOK, CurInv
  <2>5. IdleInv'
    BY <1>9 DEF UnlockDepth, TypeOK, IdleInv
  <2>6. RunningInv'
    BY <1>9 DEF UnlockDepth, TypeOK, PC, Ctx, RunningInv, OwnerInv, CurInv, FlagInv, Holding
  <2>7. ParkedInv'
    BY <1>9 DEF UnlockDepth, TypeOK, Ctx, ParkedInv, CurInv
  <2>8. QED
    BY <2>1, <2>2, <2>3, <2>4, <2>5, <2>6, <2>7
<1>10. ASSUME NEW c \in Cpu, UnlockFlag(c) PROVE IInv'
  <2>1. TypeOK'
    BY <1>10 DEF UnlockFlag, TypeOK, PC, Ctx, RunningInv, OwnerInv
  <2>2. FlagInv'
    BY <1>10 DEF UnlockFlag, TypeOK, PC, Ctx, FlagInv, Holding, RunningInv
  <2>3. OwnerInv'
    BY <1>10 DEF UnlockFlag, TypeOK, PC, Ctx, OwnerInv, FlagInv, Holding,
               RunningInv
  <2>4. CurInv'
    BY <1>10 DEF UnlockFlag, TypeOK, CurInv
  <2>5. IdleInv'
    BY <1>10 DEF UnlockFlag, TypeOK, IdleInv
  <2>6. RunningInv'
    BY <1>10 DEF UnlockFlag, TypeOK, PC, Ctx, RunningInv, OwnerInv, CurInv, FlagInv, Holding
  <2>7. ParkedInv'
    BY <1>10 DEF UnlockFlag, TypeOK, Ctx, ParkedInv, CurInv
  <2>8. QED
    BY <2>1, <2>2, <2>3, <2>4, <2>5, <2>6, <2>7
<1>11. ASSUME NEW c \in Cpu, Suspend(c) PROVE IInv'
  <2>1. TypeOK'
    BY <1>11 DEF Suspend, TypeOK, PC, Ctx, RunningInv, OwnerInv
  <2>2. FlagInv'
    BY <1>11 DEF Suspend, TypeOK, PC, FlagInv, Holding
  <2>3. OwnerInv'
    BY <1>11 DEF Suspend, TypeOK, PC, OwnerInv, FlagInv, Holding
  <2>4. CurInv'
    BY <1>11 DEF Suspend, TypeOK, CurInv
  <2>5. IdleInv'
    BY <1>11 DEF Suspend, TypeOK, IdleInv
  <2>6. RunningInv'
    BY <1>11 DEF Suspend, TypeOK, PC, Ctx, RunningInv, OwnerInv, CurInv, FlagInv, Holding
  <2>7. ParkedInv'
    BY <1>11 DEF Suspend, TypeOK, Ctx, ParkedInv, CurInv
  <2>8. QED
    BY <2>1, <2>2, <2>3, <2>4, <2>5, <2>6, <2>7
<1>12. ASSUME NEW c \in Cpu, Resume(c) PROVE IInv'
  <2>1. TypeOK'
    BY <1>12 DEF Resume, TypeOK, PC, Ctx, RunningInv, OwnerInv
  <2>2. FlagInv'
    BY <1>12 DEF Resume, TypeOK, PC, FlagInv, Holding
  <2>3. OwnerInv'
    BY <1>12 DEF Resume, TypeOK, PC, OwnerInv, FlagInv, Holding
  <2>4. CurInv'
    BY <1>12 DEF Resume, TypeOK, CurInv
  <2>5. IdleInv'
    BY <1>12 DEF Resume, TypeOK, IdleInv
  <2>6. RunningInv'
    BY <1>12 DEF Resume, TypeOK, PC, Ctx, RunningInv, OwnerInv, CurInv, FlagInv, Holding
  <2>7. ParkedInv'
    BY <1>12 DEF Resume, TypeOK, Ctx, ParkedInv, CurInv
  <2>8. QED
    BY <2>1, <2>2, <2>3, <2>4, <2>5, <2>6, <2>7
<1>13. ASSUME NEW c \in Cpu, NEW x \in Ctx, NEW dies \in BOOLEAN,
            SwitchTo(c, x, dies)
     PROVE  IInv'
  <2>1. TypeOK'
    BY <1>13 DEF SwitchTo, TypeOK, PC, Ctx, RunningInv, OwnerInv
  <2>2. FlagInv'
    BY <1>13 DEF SwitchTo, TypeOK, PC, FlagInv, Holding, OwnerInv
  <2>3. OwnerInv'
    BY <1>13 DEF SwitchTo, TypeOK, PC, OwnerInv, FlagInv, Holding
  <2>4. CurInv'
    BY <1>13 DEF SwitchTo, TypeOK, CurInv
  <2>5. IdleInv'
    BY <1>13 DEF SwitchTo, TypeOK, IdleInv
  <2>6. RunningInv'
    BY <1>13 DEF SwitchTo, TypeOK, PC, Ctx, RunningInv, OwnerInv, CurInv, FlagInv, Holding, ParkedInv
  <2>7. ParkedInv'
    BY <1>13 DEF SwitchTo, TypeOK, Ctx, ParkedInv, CurInv, RunningInv, OwnerInv, PC
  <2>8. QED
    BY <2>1, <2>2, <2>3, <2>4, <2>5, <2>6, <2>7
<1>14. CASE UNCHANGED vars
  BY <1>14 DEF vars, TypeOK, PC, Ctx, FlagInv, Holding, OwnerInv, CurInv,
     IdleInv, RunningInv, ParkedInv
<1>15. QED
  BY <1>1, <1>2, <1>3, <1>4, <1>5, <1>6, <1>7, <1>8, <1>9, <1>10, <1>11, <1>12, <1>13, <1>14 DEF Next

\* Every reachable state satisfies the inductive invariant.
THEOREM Invariance == Spec => []IInv
BY InitIInv, NextIInv, PTL DEF Spec

\* No word of the lock leaves its type, whatever the CPUs do (klock.cpp).
THEOREM TypeCorrect == Spec => []TypeOK
<1>1. IInv => TypeOK
  BY DEF IInv
<1>2. QED
  BY Invariance, <1>1, PTL

\* Kernel code runs on one CPU at a time (enter, leave, unlock, switchTo).
THEOREM MutexTheorem == Spec => []MutualExclusion
<1>1. IInv => MutualExclusion
  BY DEF IInv, FlagInv, Holding, MutualExclusion
<1>2. QED
  BY Invariance, <1>1, PTL

\* s_owner and s_depth describe the context that runs, across every switch.
THEOREM DepthTheorem == Spec => []DepthFollowsContext
<1>1. IInv => DepthFollowsContext
  BY DEF IInv, OwnerInv, RunningInv, DepthFollowsContext
<1>2. QED
  BY Invariance, <1>1, PTL

\* A CPU in user mode, in hlt or in storage I/O does not own the lock.
THEOREM OutsideTheorem == Spec => []OutsideOwnsNothing
<1>1. IInv => OutsideOwnsNothing
  BY DEF IInv, OwnerInv, OutsideOwnsNothing
<1>2. QED
  BY Invariance, <1>1, PTL

\* The refinement mapping: the CPU in kernel code, if there is one, is the
\* abstract holder.
LEMMA HolderIs ==
  ASSUME FlagInv, NEW c \in Cpu, pc[c] \in {"kernel", "start"}
  PROVE  Holder = c
BY DEF FlagInv, Holding, Holder

LEMMA HolderNobody ==
  ASSUME \A c \in Cpu : pc[c] \notin {"kernel", "start"}
  PROVE  Holder = NoCpu
BY DEF Holder

\* A step that leaves everything the abstract lock sees alone.
LEMMA Stutter ==
  ASSUME UNCHANGED <<cur, open>>, IInv, IInv', NEW c \in Cpu,
         pc[c] \notin {"kernel", "start"}, pc'[c] \notin {"kernel", "start"},
         \A d \in Cpu \ {c} : pc'[d] = pc[d]
  PROVE  UNCHANGED Abs!vars
<1>1. CASE \E d \in Cpu : pc[d] \in {"kernel", "start"}
  <2>1. PICK d \in Cpu : pc[d] \in {"kernel", "start"}
    BY <1>1
  <2>2. Holder = d
    BY <2>1, HolderIs DEF IInv
  <2>3. pc'[d] \in {"kernel", "start"}
    BY <2>1
  <2>4. Holder' = d
    BY <2>3 DEF IInv, FlagInv, Holding, Holder
  <2>5. QED
    BY <2>2, <2>4 DEF Abs!vars
<1>2. CASE \A d \in Cpu : pc[d] \notin {"kernel", "start"}
  BY <1>2 DEF Holder, Abs!vars
<1>3. QED
  BY <1>1, <1>2

\* The initial states of the lock are initial states of the abstract one.
LEMMA RefineInit == Init => Abs!Init
BY DEF Init, Abs!Init, Holder, Ctx, Abs!Ctx

\* Every step of the lock is a step of the abstract lock or invisible to it.
LEMMA RefineNext ==
  IInv /\ IInv' /\ [Next]_vars => [Abs!Next]_(Abs!vars)
<1> SUFFICES ASSUME IInv, IInv', [Next]_vars
             PROVE  Abs!Next \/ UNCHANGED Abs!vars
  OBVIOUS
<1>0. /\ TypeOK /\ FlagInv /\ OwnerInv /\ CurInv /\ RunningInv
      /\ TypeOK' /\ FlagInv' /\ OwnerInv' /\ RunningInv'
  BY DEF IInv
<1>a. ASSUME NEW c \in Cpu, pc'[c] \in {"kernel", "start"} PROVE Holder' = c
  BY <1>0, <1>a DEF FlagInv, Holding, Holder
<1>b. ASSUME \A c \in Cpu : pc'[c] \notin {"kernel", "start"}
      PROVE  Holder' = NoCpu
  BY <1>b DEF Holder
<1>1. ASSUME NEW c \in Cpu, Enter(c) PROVE UNCHANGED Abs!vars
  <2>1. /\ UNCHANGED <<cur, open>>
        /\ pc[c] \notin {"kernel", "start"} /\ pc'[c] \notin {"kernel", "start"}
        /\ \A d \in Cpu \ {c} : pc'[d] = pc[d]
    BY <1>0, <1>1 DEF Enter, TypeOK, PC, OwnerInv
  <2>2. QED
    BY <2>1, Stutter
<1>2. ASSUME NEW c \in Cpu, TestAndSet(c) PROVE UNCHANGED Abs!vars
  <2>1. /\ UNCHANGED <<cur, open>>
        /\ pc[c] \notin {"kernel", "start"} /\ pc'[c] \notin {"kernel", "start"}
        /\ \A d \in Cpu \ {c} : pc'[d] = pc[d]
    BY <1>0, <1>2 DEF TestAndSet, TypeOK, PC
  <2>2. QED
    BY <2>1, Stutter
<1>3. ASSUME NEW c \in Cpu, TryEnter(c) PROVE UNCHANGED Abs!vars
  <2>1. /\ UNCHANGED <<cur, open>>
        /\ pc[c] \notin {"kernel", "start"} /\ pc'[c] \notin {"kernel", "start"}
        /\ \A d \in Cpu \ {c} : pc'[d] = pc[d]
    BY <1>0, <1>3 DEF TryEnter, TypeOK, PC
  <2>2. QED
    BY <2>1, Stutter
<1>4. ASSUME NEW c \in Cpu, UnlockOwner(c) PROVE UNCHANGED Abs!vars
  <2>1. /\ UNCHANGED <<cur, open>>
        /\ pc[c] \notin {"kernel", "start"} /\ pc'[c] \notin {"kernel", "start"}
        /\ \A d \in Cpu \ {c} : pc'[d] = pc[d]
    BY <1>0, <1>4 DEF UnlockOwner, TypeOK, PC
  <2>2. QED
    BY <2>1, Stutter
<1>5. ASSUME NEW c \in Cpu, UnlockDepth(c) PROVE UNCHANGED Abs!vars
  <2>1. /\ UNCHANGED <<cur, open>>
        /\ pc[c] \notin {"kernel", "start"} /\ pc'[c] \notin {"kernel", "start"}
        /\ \A d \in Cpu \ {c} : pc'[d] = pc[d]
    BY <1>0, <1>5 DEF UnlockDepth, TypeOK, PC
  <2>2. QED
    BY <2>1, Stutter
<1>6. ASSUME NEW c \in Cpu, UnlockFlag(c) PROVE UNCHANGED Abs!vars
  <2>1. /\ UNCHANGED <<cur, open>>
        /\ pc[c] \notin {"kernel", "start"} /\ pc'[c] \notin {"kernel", "start"}
        /\ \A d \in Cpu \ {c} : pc'[d] = pc[d]
    BY <1>0, <1>6 DEF UnlockFlag, TypeOK, PC, RunningInv
  <2>2. QED
    BY <2>1, Stutter
<1>7. ASSUME NEW c \in Cpu, Resume(c) PROVE UNCHANGED Abs!vars
  <2>1. /\ UNCHANGED <<cur, open>>
        /\ pc[c] \notin {"kernel", "start"} /\ pc'[c] \notin {"kernel", "start"}
        /\ \A d \in Cpu \ {c} : pc'[d] = pc[d]
    BY <1>0, <1>7 DEF Resume, TypeOK, PC
  <2>2. QED
    BY <2>1, Stutter
<1>8. ASSUME NEW c \in Cpu, EnterNested(c) PROVE Abs!Enter(c)
  <2>1. Holder = c /\ Holder' = c
    BY <1>0, <1>8, <1>a, HolderIs DEF EnterNested
  <2>2. QED
    BY <2>1, <1>8 DEF EnterNested, Abs!Enter
<1>9. ASSUME NEW c \in Cpu, Acquired(c) PROVE Abs!Enter(c) \/ Abs!Resume(c)
  <2>1. Holder = NoCpu
    BY <1>0, <1>9, HolderNobody DEF Acquired, FlagInv, Holding
  <2>2. Holder' = c
    BY <1>0, <1>9, <1>a DEF Acquired, TypeOK
  <2>3. CASE susp[c] = 0
    BY <2>1, <2>2, <2>3, <1>9 DEF Acquired, Abs!Enter
  <2>4. CASE susp[c] # 0
    <3>1. open[cur[c]] > 0
      BY <1>0, <1>9, <2>4 DEF Acquired, RunningInv, TypeOK
    <3>2. QED
      BY <2>1, <2>2, <2>4, <3>1, <1>9 DEF Acquired, Abs!Resume
  <2>5. QED
    BY <2>3, <2>4
<1>10. ASSUME NEW c \in Cpu, Leave(c) PROVE Abs!Leave(c)
  <2>1. Holder = c
    BY <1>0, <1>10, HolderIs DEF Leave
  <2>2. owner = c /\ depth = open[cur[c]] /\ open[cur[c]] > 0
    BY <1>0, <1>10 DEF Leave, OwnerInv, RunningInv
  <2>3. CASE depth = 1
    <3>1. Holder' = NoCpu
      BY <1>0, <1>10, <1>b, <2>2, <2>3 DEF Leave, TypeOK, FlagInv, Holding
    <3>2. QED
      BY <2>1, <2>2, <2>3, <3>1, <1>10 DEF Leave, Abs!Leave
  <2>4. CASE depth # 1
    <3>1. Holder' = c
      BY <1>0, <1>10, <1>a, <2>2, <2>4 DEF Leave, TypeOK
    <3>2. QED
      BY <2>1, <2>2, <2>4, <3>1, <1>10 DEF Leave, Abs!Leave
  <2>5. QED
    BY <2>3, <2>4
<1>11. ASSUME NEW c \in Cpu, ReleaseAll(c) PROVE Abs!Exit(c)
  <2>1. Holder = c /\ owner = c /\ open[cur[c]] = 0
    BY <1>0, <1>11, HolderIs DEF ReleaseAll, OwnerInv, RunningInv
  <2>2. Holder' = NoCpu
    BY <1>0, <1>11, <1>b, <2>1 DEF ReleaseAll, TypeOK, FlagInv, Holding
  <2>3. QED
    BY <2>1, <2>2, <1>11 DEF ReleaseAll, Abs!Exit
<1>12. ASSUME NEW c \in Cpu, Suspend(c) PROVE Abs!Suspend(c)
  <2>1. Holder = c
    BY <1>0, <1>12, HolderIs DEF Suspend
  <2>2. Holder' = NoCpu
    BY <1>0, <1>12, <1>b DEF Suspend, TypeOK, FlagInv, Holding
  <2>3. QED
    BY <2>1, <2>2, <1>12 DEF Suspend, Abs!Suspend
<1>13. ASSUME NEW c \in Cpu, NEW x \in Ctx, NEW dies \in BOOLEAN,
              SwitchTo(c, x, dies)
       PROVE  Abs!Switch(c, x)
  <2>1. Holder = c
    BY <1>0, <1>13, HolderIs DEF SwitchTo
  <2>2. Holder' = c
    BY <1>0, <1>13, <1>a DEF SwitchTo, TypeOK
  <2>3. QED
    BY <2>1, <2>2, <1>13 DEF SwitchTo, Abs!Switch
<1>14. CASE UNCHANGED vars
  BY <1>14 DEF vars, Abs!vars, Holder
<1>15. QED
  BY <1>1, <1>2, <1>3, <1>4, <1>5, <1>6, <1>7, <1>8, <1>9, <1>10, <1>11, <1>12,
     <1>13, <1>14 DEF Next, Abs!Next, Ctx, Abs!Ctx

\* The flag, the owner word, the depth counter and the hand-over in switchTo()
\* implement the abstract lock, for any number of CPUs and contexts.
THEOREM RefinementTheorem == Spec => ImplementsAbstractLock
BY Invariance, RefineInit, RefineNext, PTL
DEF Spec, ImplementsAbstractLock, Abs!Spec

===============================================================================
