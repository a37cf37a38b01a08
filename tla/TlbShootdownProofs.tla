-------------------------- MODULE TlbShootdownProofs ---------------------------
(***************************************************************************)
(* The shootdown protocol is correct for any number of CPUs, spaces and    *)
(* pages: NoStaleAfterReturn and MailboxIsHolders, from an inductive       *)
(* invariant that follows a request from the change of the page table to   *)
(* the acknowledgement of its last target.                                 *)
(***************************************************************************)
EXTENDS TlbShootdown, TLAPS

\* Only the holder of s_lock posts and waits.
LockInv == \A c \in Cpu : pc[c] \in {"post", "wait"} <=> slock = c

\* Only the holder of the kernel lock is in the kernel on a user space's behalf.
KernelInv ==
    \A c \in Cpu : /\ bkl = c => pc[c] \in {"in"} \cup InShootdown
                   /\ pc[c] \in InShootdown /\ req[c].s # Every => bkl = c

\* A CPU serves a request only while its mailbox is full, and once it has
\* flushed it caches nothing of it.
ServeInv ==
    \A t \in Cpu : /\ serve[t] # "no" => pend[t]
                   /\ serve[t] = "flushed" => \A e \in stale[t] : e[1] # slock

\* Where a changed translation may still be cached, its sender is at work on
\* it: it has yet to look at the CPU, or the CPU's mailbox is full.
StaleInv ==
    \A t \in Cpu : \A e \in stale[t] :
        /\ e[1] # t
        /\ pc[e[1]] \in InShootdown
        /\ req[e[1]] = e[2]
        /\ MayCache(t, e[2])
        /\ pc[e[1]] = "post" => t \in todo[e[1]] \/ pend[t]
        /\ pc[e[1]] = "wait" => pend[t]

IInv == TypeOK /\ LockInv /\ KernelInv /\ MailboxIsHolders /\ ServeInv /\ StaleInv

\* One lemma per group of actions.

LEMMA InitInv == Init => IInv
  BY TlbAssumption DEF Init, IInv, TypeOK, LockInv, KernelInv, MailboxIsHolders, ServeInv,
     StaleInv, InShootdown, Request, NoRequest

LEMMA EntryInv ==
  ASSUME IInv, NEW c \in Cpu, Trap(c) \/ Acquire(c) \/ Return(c) \/ Suspend(c) \/ Resume(c)
  PROVE  IInv'
  <1> USE TlbAssumption DEF IInv, InShootdown, Free
  <1>1. CASE Trap(c)
    BY <1>1 DEF Trap, TypeOK, LockInv, KernelInv, MailboxIsHolders, ServeInv, StaleInv, MayCache
  <1>2. CASE Acquire(c)
    BY <1>2 DEF Acquire, TypeOK, LockInv, KernelInv, MailboxIsHolders, ServeInv, StaleInv, MayCache
  <1>3. CASE Return(c)
    BY <1>3 DEF Return, TypeOK, LockInv, KernelInv, MailboxIsHolders, ServeInv, StaleInv, MayCache
  <1>4. CASE Suspend(c)
    BY <1>4 DEF Suspend, TypeOK, LockInv, KernelInv, MailboxIsHolders, ServeInv, StaleInv, MayCache
  <1>5. CASE Resume(c)
    BY <1>5 DEF Resume, TypeOK, LockInv, KernelInv, MailboxIsHolders, ServeInv, StaleInv, MayCache
  <1>6. QED BY <1>1, <1>2, <1>3, <1>4, <1>5

\* No other CPU is at work on a user space while c, which holds the kernel
\* lock, switches.
LEMMA SwitchInv ==
  ASSUME IInv, NEW c \in Cpu, Switch(c)
  PROVE  IInv'
  <1> USE TlbAssumption DEF IInv, InShootdown, Free, Switch
  <1>1. PICK s \in Space : /\ cur' = [cur EXCEPT ![c] = s]
                           /\ stale' = [stale EXCEPT ![c] = {e \in @ : e[2].s = Every}]
    OBVIOUS
  <1>2. /\ pc[c] = "in"
        /\ bkl = c
        /\ UNCHANGED <<pc, bkl, slock, req, todo, sent, pend, box, serve>>
    OBVIOUS
  <1>3. TypeOK'
    BY <1>1, <1>2 DEF TypeOK
  <1>4. /\ LockInv'
        /\ KernelInv'
        /\ MailboxIsHolders'
    BY <1>2 DEF LockInv, KernelInv, MailboxIsHolders
  <1>5. ServeInv'
    BY <1>1, <1>2 DEF ServeInv, TypeOK
  <1>6. StaleInv'
    <2> SUFFICES ASSUME NEW t \in Cpu, NEW e \in stale'[t]
                 PROVE  e \in stale[t] /\ MayCache(t, e[2])'
      BY <1>2 DEF StaleInv
    <2>1. e \in stale[t]
      BY <1>1 DEF TypeOK
    <2>2. CASE t = c
      BY <1>1, <2>1, <2>2 DEF TypeOK, MayCache
    <2>3. CASE t # c
      BY <1>1, <2>1, <2>3 DEF TypeOK, StaleInv, MayCache
    <2>4. QED BY <2>1, <2>2, <2>3
  <1>7. QED BY <1>3, <1>4, <1>5, <1>6

\* A new request: its sender has none under way, so nothing else is stale on
\* its account.
LEMMA BeginInv ==
  ASSUME IInv, NEW c \in Cpu, Begin(c)
  PROVE  IInv'
  <1> USE TlbAssumption DEF IInv, InShootdown, Free
  <1>1. PICK r \in Request :
          /\ r.s # Every => bkl = c
          /\ req' = [req EXCEPT ![c] = r]
          /\ stale' = [t \in Cpu |-> IF t = c THEN Left(stale[t], r.v)
                                     ELSE IF MayCache(t, r) THEN stale[t] \cup {<<c, r>>}
                                     ELSE stale[t]]
    BY DEF Begin
  <1>2. /\ pc[c] = "in"
        /\ serve[c] = "no"
        /\ pc' = [pc EXCEPT ![c] = "lock"]
        /\ UNCHANGED <<bkl, cur, slock, todo, sent, pend, box, serve>>
    BY DEF Begin
  <1>3. TypeOK'
    BY <1>1, <1>2 DEF TypeOK, Left
  <1>4. slock # c
    BY <1>2 DEF LockInv
  <1>5. LockInv' /\ KernelInv'
    BY <1>1, <1>2, <1>4 DEF TypeOK, LockInv, KernelInv
  <1>6. MailboxIsHolders'
    BY <1>1, <1>2, <1>4 DEF TypeOK, MailboxIsHolders
  <1>7. \A t \in Cpu : \A e \in stale'[t] :
          \/ e \in stale[t]
          \/ t # c /\ e = <<c, r>> /\ MayCache(t, r)
    BY <1>1 DEF Left
  <1>8. ServeInv'
    BY <1>2, <1>4, <1>7 DEF ServeInv
  <1>9. StaleInv'
    <2> SUFFICES ASSUME NEW t \in Cpu, NEW e \in stale'[t]
                 PROVE  /\ e[1] # t
                        /\ pc'[e[1]] \in InShootdown
                        /\ req'[e[1]] = e[2]
                        /\ MayCache(t, e[2])'
                        /\ pc'[e[1]] = "post" => t \in todo'[e[1]] \/ pend'[t]
                        /\ pc'[e[1]] = "wait" => pend'[t]
      BY DEF StaleInv
    <2>1. CASE e \in stale[t]
      <3>1. e[1] \in Cpu /\ e[1] # c
        BY <1>2, <2>1 DEF TypeOK, StaleInv
      <3>2. QED BY <1>1, <1>2, <2>1, <3>1 DEF TypeOK, StaleInv, MayCache
    <2>2. CASE t # c /\ e = <<c, r>> /\ MayCache(t, r)
      BY <1>1, <1>2, <2>2 DEF TypeOK, MayCache
    <2>3. QED BY <1>7, <2>1, <2>2
  <1>10. QED BY <1>3, <1>5, <1>6, <1>8, <1>9

\* The sender's loops.
LEMMA SenderInv ==
  ASSUME IInv, NEW c \in Cpu, TryLock(c) \/ Posted(c) \/ Await(c) \/ Unlock(c)
  PROVE  IInv'
  <1> USE TlbAssumption DEF IInv, InShootdown, Free
  <1>1. CASE TryLock(c)
    BY <1>1 DEF TryLock, TypeOK, LockInv, KernelInv, MailboxIsHolders, ServeInv, StaleInv, MayCache
  <1>2. CASE Posted(c)
    BY <1>2 DEF Posted, TypeOK, LockInv, KernelInv, MailboxIsHolders, ServeInv, StaleInv, MayCache
  <1>3. CASE Await(c)
    BY <1>3 DEF Await, TypeOK, LockInv, KernelInv, MailboxIsHolders, ServeInv, StaleInv, MayCache
  <1>4. CASE Unlock(c)
    BY <1>4 DEF Unlock, Request, NoRequest, TypeOK, LockInv, KernelInv, MailboxIsHolders, ServeInv, StaleInv, MayCache
  <1>5. QED BY <1>1, <1>2, <1>3, <1>4

LEMMA PostInv ==
  ASSUME IInv, NEW c \in Cpu, Post(c)
  PROVE  IInv'
  <1> USE TlbAssumption DEF IInv, InShootdown, Free
  <1>1. PICK t \in todo[c] :
          /\ todo' = [todo EXCEPT ![c] = @ \ {t}]
          /\ IF MayCache(t, req[c])
             THEN /\ box' = [box EXCEPT ![t] = req[c].v]
                  /\ pend' = [pend EXCEPT ![t] = TRUE]
                  /\ sent' = [sent EXCEPT ![c] = @ \cup {t}]
             ELSE UNCHANGED <<box, pend, sent>>
    BY DEF Post
  <1>2. /\ pc[c] = "post"
        /\ UNCHANGED <<pc, bkl, cur, slock, req, serve, stale>>
    BY DEF Post
  <1>3. slock = c
    BY <1>2 DEF LockInv
  <1>4. TypeOK'
    <2>1. t \in Cpu /\ req[c] \in Request
      BY DEF TypeOK
    <2>2. req[c].v \in Page \cup {All}
      BY <2>1 DEF Request
    <2>3. /\ box' \in [Cpu -> Page \cup {All}]
          /\ pend' \in [Cpu -> BOOLEAN]
          /\ sent' \in [Cpu -> SUBSET Cpu]
      <3>1. CASE MayCache(t, req[c])
        <4>1. box' = [box EXCEPT ![t] = req[c].v]
          BY <1>1, <3>1
        <4>2. pend' = [pend EXCEPT ![t] = TRUE]
          BY <1>1, <3>1
        <4>3. sent' = [sent EXCEPT ![c] = @ \cup {t}]
          BY <1>1, <3>1
        <4>4. QED BY <2>1, <2>2, <4>1, <4>2, <4>3 DEF TypeOK
      <3>2. CASE ~MayCache(t, req[c])
        BY <1>1, <3>2 DEF TypeOK
      <3>3. QED BY <3>1, <3>2
    <2>4. QED BY <1>1, <1>2, <2>3 DEF TypeOK
  <1>5. LockInv' /\ KernelInv'
    BY <1>2 DEF LockInv, KernelInv
  <1>6. MailboxIsHolders' /\ ServeInv'
    BY <1>1, <1>2, <1>3 DEF TypeOK, MailboxIsHolders, ServeInv
  <1>7. StaleInv'
    BY <1>1, <1>2 DEF TypeOK, StaleInv, MayCache
  <1>8. QED BY <1>4, <1>5, <1>6, <1>7

\* The target.
LEMMA TargetInv ==
  ASSUME IInv, NEW c \in Cpu, Serve(c) \/ Flush(c) \/ Acknowledge(c)
  PROVE  IInv'
  <1> USE TlbAssumption DEF IInv, InShootdown, Free
  <1>1. CASE Serve(c)
    BY <1>1 DEF Serve, Polls, TypeOK, LockInv, KernelInv, MailboxIsHolders, ServeInv, StaleInv, MayCache
  <1>2. CASE Flush(c)
    <2>1. /\ pend[c]
          /\ slock \in Cpu
          /\ box[c] = req[slock].v
      BY <1>2 DEF Flush, TypeOK, ServeInv, MailboxIsHolders
    <2>2. /\ stale' = [stale EXCEPT ![c] = Left(@, box[c])]
          /\ serve' = [serve EXCEPT ![c] = "flushed"]
          /\ UNCHANGED <<pc, bkl, cur, slock, req, todo, sent, pend, box>>
      BY <1>2 DEF Flush
    <2>3. \A e \in stale'[c] : e \in stale[c] /\ e[1] # slock
      BY <2>1, <2>2 DEF Left, TypeOK, StaleInv
    <2>4. \A t \in Cpu : t # c => stale'[t] = stale[t]
      BY <2>2 DEF TypeOK
    <2>5. TypeOK'
      BY <2>2, <2>3 DEF TypeOK, Left
    <2>6. LockInv' /\ KernelInv' /\ MailboxIsHolders'
      BY <2>2 DEF LockInv, KernelInv, MailboxIsHolders
    <2>7. ServeInv'
      BY <2>1, <2>2, <2>3, <2>4 DEF TypeOK, ServeInv
    <2>8. StaleInv'
      BY <2>2, <2>3, <2>4 DEF StaleInv, MayCache
    <2>9. QED BY <2>5, <2>6, <2>7, <2>8
  <1>3. CASE Acknowledge(c)
    <2>1. /\ serve[c] = "flushed"
          /\ pend' = [pend EXCEPT ![c] = FALSE]
          /\ serve' = [serve EXCEPT ![c] = "no"]
          /\ UNCHANGED <<pc, bkl, cur, slock, req, todo, sent, box, stale>>
      BY <1>3 DEF Acknowledge
    <2>2. /\ TypeOK'
          /\ LockInv'
          /\ KernelInv'
          /\ MailboxIsHolders'
          /\ ServeInv'
      BY <2>1 DEF TypeOK, LockInv, KernelInv, MailboxIsHolders, ServeInv
    <2>3. \A e \in stale[c] : pc[e[1]] \notin {"post", "wait"}
      BY <2>1 DEF TypeOK, ServeInv, LockInv
    <2>4. StaleInv'
      BY <2>1, <2>3 DEF TypeOK, StaleInv, MayCache
    <2>5. QED BY <2>2, <2>4
  <1>4. QED BY <1>1, <1>2, <1>3

\* The invariant of the protocol holds in every state.
THEOREM ShootdownInvariance == Spec => []IInv
  <1>1. IInv /\ [Next]_vars => IInv'
    <2> SUFFICES ASSUME IInv, [Next]_vars PROVE IInv'
      OBVIOUS
    <2>1. CASE UNCHANGED vars
      BY <2>1 DEF vars, IInv, TypeOK, LockInv, KernelInv, MailboxIsHolders, ServeInv, StaleInv, MayCache
    <2>2. ASSUME NEW c \in Cpu, Step(c) PROVE IInv'
      BY <2>2, EntryInv, SwitchInv, BeginInv, SenderInv, PostInv, TargetInv DEF Step
    <2>3. QED BY <2>1, <2>2 DEF Next
  <1>2. QED BY InitInv, <1>1, PTL DEF Spec

\* Once shootdown() has returned no CPU caches what it was asked to drop, for
\* any number of CPUs, senders, spaces and pages.
THEOREM NoStaleTheorem == Spec => []NoStaleAfterReturn
  <1>1. IInv => NoStaleAfterReturn
    BY DEF IInv, StaleInv, NoStaleAfterReturn
  <1>2. QED BY <1>1, ShootdownInvariance, PTL

\* A full mailbox holds what the holder of s_lock asked for.
THEOREM MailboxTheorem == Spec => []MailboxIsHolders
  <1>1. IInv => MailboxIsHolders
    BY DEF IInv
  <1>2. QED BY <1>1, ShootdownInvariance, PTL

===============================================================================
