----------------------------- MODULE TlbShootdown ------------------------------
(***************************************************************************)
(* The TLB shootdown protocol (cpu/tlb.cpp): after a page table changed,   *)
(* the sender flushes itself, takes the protocol's spinlock, posts a       *)
(* request in the mailbox of every CPU that may cache the translation,     *)
(* sends the interrupt, and waits until every mailbox is empty again.  A   *)
(* CPU serves its mailbox from the interrupt, when it has interrupts on,   *)
(* and from every loop in which it waits with interrupts off: for the big  *)
(* kernel lock, for the protocol's lock, and for its own targets.          *)
(*                                                                         *)
(*   pc       out: user mode or idle, interrupts on;  spin: waiting for    *)
(*            the kernel lock;  in: kernel code;  lock, post, wait: inside *)
(*            TLB::shootdown()                                             *)
(*   bkl      holder of the big kernel lock     cur    space a CPU runs    *)
(*   slock    holder of the protocol's s_lock   req    what a sender wants *)
(*   todo     CPUs a sender has not looked at   sent   CPUs it posted to   *)
(*   pend     tlbPending                        box    tlbAddr, tlbPages   *)
(*   serve    how far pollPending() is                                     *)
(*   stale    <<sender, request>>: translations, changed by the sender,    *)
(*            that a CPU may still cache                                   *)
(***************************************************************************)
EXTENDS Naturals, FiniteSets

CONSTANTS Cpu, Space, Page,
          NoCpu,
          Every,     \* a request for the kernel half concerns every space
          All        \* pages = 0: everything is flushed

VARIABLES pc, bkl, cur, slock, req, todo, sent, pend, box, serve, stale

vars == <<pc, bkl, cur, slock, req, todo, sent, pend, box, serve, stale>>

ASSUME TlbAssumption ==
    /\ NoCpu \notin Cpu
    /\ Every \notin Space
    /\ All \notin Page

Request == [s : Space \cup {Every}, v : Page \cup {All}]
InShootdown == {"lock", "post", "wait"}
NoRequest == [s |-> Every, v |-> All]

\* What c does next is up to its own code: it is not inside pollPending().
Free(c) == serve[c] = "no"

\* mayCache(), coversEverySpace()
MayCache(t, r) == r.s = Every \/ cur[t] = r.s

\* flushLocal() for one page, or flushAll().
Left(entries, v) == {e \in entries : v # All /\ e[2].v # v}

-------------------------------------------------------------------------------
(* Kernel entry and exit, as far as the protocol sees them.                  *)

Trap(c) ==
    /\ Free(c)
    /\ pc[c] = "out"
    /\ pc' = [pc EXCEPT ![c] = "spin"]
    /\ UNCHANGED <<bkl, cur, slock, req, todo, sent, pend, box, serve, stale>>

Acquire(c) ==
    /\ Free(c)
    /\ pc[c] = "spin"
    /\ bkl = NoCpu
    /\ bkl' = c
    /\ pc' = [pc EXCEPT ![c] = "in"]
    /\ UNCHANGED <<cur, slock, req, todo, sent, pend, box, serve, stale>>

Return(c) ==
    /\ Free(c)
    /\ pc[c] = "in"
    /\ bkl = c
    /\ bkl' = NoCpu
    /\ pc' = [pc EXCEPT ![c] = "out"]
    /\ UNCHANGED <<cur, slock, req, todo, sent, pend, box, serve, stale>>

\* A storage operation runs without the kernel lock (KernelLock::suspend()).
Suspend(c) ==
    /\ Free(c)
    /\ pc[c] = "in"
    /\ bkl = c
    /\ bkl' = NoCpu
    /\ UNCHANGED <<pc, cur, slock, req, todo, sent, pend, box, serve, stale>>

Resume(c) ==
    /\ Free(c)
    /\ pc[c] = "in"
    /\ bkl # c
    /\ pc' = [pc EXCEPT ![c] = "spin"]
    /\ UNCHANGED <<bkl, cur, slock, req, todo, sent, pend, box, serve, stale>>

\* A context switch: loading CR3 keeps only translations of the kernel half.
Switch(c) ==
    \E s \in Space :
        /\ Free(c)
        /\ pc[c] = "in"
        /\ bkl = c
        /\ s # cur[c]
        /\ cur' = [cur EXCEPT ![c] = s]
        /\ stale' = [stale EXCEPT ![c] = {e \in @ : e[2].s = Every}]
        /\ UNCHANGED <<pc, bkl, slock, req, todo, sent, pend, box, serve>>

-------------------------------------------------------------------------------
(* The sender.                                                               *)

\* The page table has changed; shootdown() flushes this CPU.  A user space is
\* changed under the kernel lock, the kernel half (heap, MMIO) also without.
Begin(c) ==
    \E r \in Request :
        /\ Free(c)
        /\ pc[c] = "in"
        /\ r.s # Every => bkl = c
        /\ req' = [req EXCEPT ![c] = r]
        /\ stale' = [t \in Cpu |-> IF t = c THEN Left(stale[t], r.v)
                                   ELSE IF MayCache(t, r) THEN stale[t] \cup {<<c, r>>}
                                   ELSE stale[t]]
        /\ pc' = [pc EXCEPT ![c] = "lock"]
        /\ UNCHANGED <<bkl, cur, slock, todo, sent, pend, box, serve>>

TryLock(c) ==
    /\ Free(c)
    /\ pc[c] = "lock"
    /\ slock = NoCpu
    /\ slock' = c
    /\ todo' = [todo EXCEPT ![c] = Cpu \ {c}]
    /\ sent' = [sent EXCEPT ![c] = {}]
    /\ pc' = [pc EXCEPT ![c] = "post"]
    /\ UNCHANGED <<bkl, cur, req, pend, box, serve, stale>>

\* Mutant: the mailbox gets the address space in place of the page.
PostSwapsFields(c) ==
    \E t \in todo[c] :
        /\ Free(c)
        /\ pc[c] = "post"
        /\ todo' = [todo EXCEPT ![c] = @ \ {t}]
        /\ box' = [box EXCEPT ![t] = req[c].s]
        /\ pend' = [pend EXCEPT ![t] = TRUE]
        /\ sent' = [sent EXCEPT ![c] = @ \cup {t}]
        /\ UNCHANGED <<pc, bkl, cur, slock, req, serve, stale>>

\* One turn of the loop over the CPUs.
Post(c) ==
    \E t \in todo[c] :
        /\ Free(c)
        /\ pc[c] = "post"
        /\ todo' = [todo EXCEPT ![c] = @ \ {t}]
        /\ IF MayCache(t, req[c])
           THEN /\ box' = [box EXCEPT ![t] = req[c].v]
                /\ pend' = [pend EXCEPT ![t] = TRUE]
                /\ sent' = [sent EXCEPT ![c] = @ \cup {t}]
           ELSE UNCHANGED <<box, pend, sent>>
        /\ UNCHANGED <<pc, bkl, cur, slock, req, serve, stale>>

Posted(c) ==
    /\ Free(c)
    /\ pc[c] = "post"
    /\ todo[c] = {}
    /\ pc' = [pc EXCEPT ![c] = "wait"]
    /\ UNCHANGED <<bkl, cur, slock, req, todo, sent, pend, box, serve, stale>>

\* One target has served its request.
Await(c) ==
    \E t \in sent[c] :
        /\ Free(c)
        /\ pc[c] = "wait"
        /\ ~pend[t]
        /\ sent' = [sent EXCEPT ![c] = @ \ {t}]
        /\ UNCHANGED <<pc, bkl, cur, slock, req, todo, pend, box, serve, stale>>

\* Mutant: the lock is given back before the targets have answered.
UnlockEarly(c) ==
    /\ Free(c)
    /\ pc[c] = "wait"
    /\ slock' = NoCpu
    /\ pc' = [pc EXCEPT ![c] = "in"]
    /\ req' = [req EXCEPT ![c] = NoRequest]
    /\ UNCHANGED <<bkl, cur, todo, sent, pend, box, serve, stale>>

Unlock(c) ==
    /\ Free(c)
    /\ pc[c] = "wait"
    /\ sent[c] = {}
    /\ slock' = NoCpu
    /\ pc' = [pc EXCEPT ![c] = "in"]
    /\ req' = [req EXCEPT ![c] = NoRequest]
    /\ UNCHANGED <<bkl, cur, todo, sent, pend, box, serve, stale>>

-------------------------------------------------------------------------------
(* pollPending(), in three steps with interrupts off.                        *)

\* Mutant: a sender waits for the lock without polling (lock() for tryLock()).
PollsUnlessLocking(c) == pc[c] \in {"out", "spin", "wait"}

\* Where a CPU serves: from the interrupt with interrupts on, and from the
\* loops that wait with interrupts off.
Polls(c) == pc[c] \in {"out", "spin", "lock", "wait"}

Serve(c) ==
    /\ Free(c)
    /\ Polls(c)
    /\ pend[c]
    /\ serve' = [serve EXCEPT ![c] = "seen"]
    /\ UNCHANGED <<pc, bkl, cur, slock, req, todo, sent, pend, box, stale>>

Flush(c) ==
    /\ serve[c] = "seen"
    /\ stale' = [stale EXCEPT ![c] = Left(@, box[c])]
    /\ serve' = [serve EXCEPT ![c] = "flushed"]
    /\ UNCHANGED <<pc, bkl, cur, slock, req, todo, sent, pend, box>>

\* Mutant: the request is acknowledged before the flush.
AcknowledgeEarly(c) ==
    /\ serve[c] \in {"seen", "flushed"}
    /\ pend' = [pend EXCEPT ![c] = FALSE]
    /\ serve' = [serve EXCEPT ![c] = IF @ = "flushed" THEN "no" ELSE @]
    /\ UNCHANGED <<pc, bkl, cur, slock, req, todo, sent, box, stale>>

Acknowledge(c) ==
    /\ serve[c] = "flushed"
    /\ pend' = [pend EXCEPT ![c] = FALSE]
    /\ serve' = [serve EXCEPT ![c] = "no"]
    /\ UNCHANGED <<pc, bkl, cur, slock, req, todo, sent, box, stale>>

-------------------------------------------------------------------------------
Init ==
    /\ pc = [c \in Cpu |-> "out"]
    /\ bkl = NoCpu
    /\ cur \in [Cpu -> Space]
    /\ slock = NoCpu
    /\ req = [c \in Cpu |-> NoRequest]
    /\ todo = [c \in Cpu |-> {}]
    /\ sent = [c \in Cpu |-> {}]
    /\ pend = [c \in Cpu |-> FALSE]
    /\ box = [c \in Cpu |-> All]
    /\ serve = [c \in Cpu |-> "no"]
    /\ stale = [c \in Cpu |-> {}]

Step(c) ==
    \/ Trap(c) \/ Acquire(c) \/ Return(c) \/ Suspend(c) \/ Resume(c) \/ Switch(c)
    \/ Begin(c) \/ TryLock(c) \/ Post(c) \/ Posted(c) \/ Await(c) \/ Unlock(c)
    \/ Serve(c) \/ Flush(c) \/ Acknowledge(c)

Next == \E c \in Cpu : Step(c)

Spec == Init /\ [][Next]_vars

\* A kernel stay and a storage operation end; a loop goes on; an interrupt
\* that is pending when interrupts are on is taken.
Fairness ==
    \A c \in Cpu :
        /\ SF_vars(Return(c))
        /\ WF_vars(Resume(c))
        /\ SF_vars(Serve(c))
        /\ WF_vars(Flush(c) \/ Acknowledge(c))
        /\ WF_vars(Post(c) \/ Posted(c) \/ Await(c) \/ Unlock(c))

FairSpec == Spec /\ Fairness

-------------------------------------------------------------------------------
(* Properties.                                                               *)

\* Types of all variables.
TypeOK ==
    /\ pc \in [Cpu -> {"out", "spin", "in"} \cup InShootdown]
    /\ bkl \in Cpu \cup {NoCpu}
    /\ cur \in [Cpu -> Space]
    /\ slock \in Cpu \cup {NoCpu}
    /\ req \in [Cpu -> Request]
    /\ todo \in [Cpu -> SUBSET Cpu]
    /\ sent \in [Cpu -> SUBSET Cpu]
    /\ pend \in [Cpu -> BOOLEAN]
    /\ box \in [Cpu -> Page \cup {All}]
    /\ serve \in [Cpu -> {"no", "seen", "flushed"}]
    /\ stale \in [Cpu -> SUBSET (Cpu \X Request)]

\* When shootdown() returns, no CPU caches the old translation any more: the
\* caller may free the frame (UnmapBatch::finish(), HandleCowFault()).
NoStaleAfterReturn ==
    \A t \in Cpu : \A e \in stale[t] : pc[e[1]] \in InShootdown /\ req[e[1]] = e[2]

\* One request is in flight: a mailbox that is full holds what the holder of
\* s_lock asked for, until the holder has seen it empty ("each target's
\* mailbox holds one").
MailboxIsHolders ==
    \A t \in Cpu : pend[t] => /\ slock # NoCpu
                              /\ t \in sent[slock]
                              /\ box[t] = req[slock].v

\* A sender's wait ends, whatever the other CPUs wait for: two senders, or a
\* sender and a CPU spinning for the kernel lock it holds, do not wait for
\* each other.
WaitEnds == \A c \in Cpu : pc[c] = "wait" ~> pc[c] = "in"
===============================================================================
