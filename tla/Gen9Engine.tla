----------------------------- MODULE Gen9Engine -----------------------------
(***************************************************************************)
(* The engines of the Intel Gen9 GPU (graphics/intel_gen9_engine.cpp): how *)
(* a request gets onto the hardware and when it counts as done.  The       *)
(* driver runs under the big kernel lock but polls in places (waitMs)      *)
(* while the hardware goes on, so that its longer functions are several    *)
(* steps here: the field k says where the lock's holder is.                *)
(*                                                                         *)
(* The hardware runs the context last written to the ELSP, stores what its *)
(* commands store, then saves the context image and reports in the context *)
(* status buffer: unread is the part of that buffer the driver has not     *)
(* read, TRUE for a switch to idle; fresh says that nothing was reported   *)
(* since the last reset (the write pointer reads 7).  Dependencies between *)
(* requests, and what retiring one frees, are in Gen9Drm.                  *)
(***************************************************************************)
EXTENDS Integers, Sequences, FiniteSets

CONSTANTS
    EngineUses,     \* the programs: which requests (engine and context), what may fail
    RingSlots,      \* places of a context's ring
    RequestSlots,   \* places the commands of a request take
    SeqnoSpace,     \* values of the 32-bit sequence number
    CSB_ENTRIES,
    kMaxForeignInterrupts

VARIABLE s

On == s.part = "gen9engine"

EngineIds == {0, 1}
HwContexts == 1..2
RequestIds == 1..3

\* What the hardware can hold besides the contexts of requests.
NoRun == [ctx |-> 0, seqno |-> 0, stage |-> "none"]
Throwaway == [ctx |-> -1, seqno |-> 0, stage |-> "run"]
Scratch(seqno) == [ctx |-> -2, seqno |-> seqno, stage |-> "run"]

Free == [at |-> "free", e |-> 0, r |-> 0, progress |-> FALSE, then |-> "none"]
In(where) == On /\ s.k.at = where
May(what) == what \in s.use.may
queuedCount(t) == Len(t.queue[0]) + Len(t.queue[1])
                  + Cardinality({e \in EngineIds : t.drv[e].active # 0})

----------------------------------------------------------------------------
\* Forcewake: counted, and the wells sleep when nobody holds them.

forcewakeGet(t) == [t EXCEPT !.forcewake = @ + 1]
forcewakePut(t) == [t EXCEPT !.forcewake = IF @ = 0 THEN 0 ELSE @ - 1]

\* Waking the wells fails only when they are not held.
CannotWake(t) == t.forcewake = 0 /\ "asleep" \in t.bad

----------------------------------------------------------------------------
\* The engine: reset, set-up, submission.

resetEngine(t, e) ==
    [t EXCEPT !.drv[e].userReady = FALSE, !.hw[e].run = NoRun, !.hw[e].next = NoRun,
              !.hw[e].unread = <<>>, !.hw[e].fresh = TRUE]
setUpEngine(t, e) == [t EXCEPT !.drv[e].csbIdle = TRUE, !.drv[e].userReady = TRUE]

\* The element waits behind a context that is still on the engine.
writeElsp(t, e, run) ==
    IF t.hw[e].run = NoRun
    THEN [t EXCEPT !.hw[e].run = run, !.hw[e].unread = Append(@, FALSE), !.hw[e].fresh = FALSE]
    ELSE [t EXCEPT !.hw[e].next = run]

submit(t, e) == writeElsp([t EXCEPT !.hw[e].stored = FALSE], e, Throwaway)

drainCsb(t, e) ==
    LET unread == t.hw[e].unread
    IN  IF t.hw[e].fresh \/ unread = <<>> THEN t
        ELSE [t EXCEPT !.hw[e].unread = <<>>, !.drv[e].csbIdle = unread[Len(unread)],
                       !.drv[e].idleSeen = @ \/ \E i \in DOMAIN unread : unread[i]]

NextSeqno(n) == IF (n + 1) % SeqnoSpace = 0 THEN 1 ELSE n + 1

ringPlacement(tail, bytes, ringBytes) == IF tail + bytes <= ringBytes THEN tail ELSE 0

\* The request on the engine: its commands into the ring of its context, the
\* image of a first run from the default one, the breadcrumb cleared, and
\* the status events of what ran before taken out.  The field saved is where
\* the image the hardware saved last stands in the ring.
Loaded(t, e, r, c, seqno, tail) ==
    [t EXCEPT !.userSeqno = seqno, !.rq[r].seqno = seqno, !.rq[r].st = "active", !.drv[e].active = r,
              !.ctx[c].tail = tail, !.ctx[c].started = TRUE,
              !.hw[e].seqno = 0]
Started(t, e, c, seqno) ==
    writeElsp([drainCsb(t, e) EXCEPT !.drv[e].idleSeen = FALSE], e, [ctx |-> c, seqno |-> seqno, stage |-> "run"])
dispatch(t, e, r) ==
    LET c == t.rq[r].ctx
    IN  Started(Loaded(t, e, r, c, NextSeqno(t.userSeqno),
                       (ringPlacement(t.ctx[c].tail, RequestSlots, RingSlots) + RequestSlots) % RingSlots),
                e, c, NextSeqno(t.userSeqno))

\* After draining: the switch to idle was reported, and the breadcrumb landed.
activeDone(t, e) == t.drv[e].idleSeen /\ t.hw[e].seqno = t.rq[t.drv[e].active].seqno

finishActive(t, e, failed) ==
    [t EXCEPT !.rq[t.drv[e].active] = [@ EXCEPT !.st = "done", !.failed = failed], !.drv[e].active = 0]

----------------------------------------------------------------------------
\* prepareEngine, in steps: it may reset the engine and record its default
\* context, which waits for the hardware twice.  then says who called.

Prepared(t, e) == t.drv[e].userReady /\ t.drv[e].defaultImage /\ t.interruptsOn

\* queueRequest and processRequests after the engine is prepared, or not.
Fail(t, r) == [t EXCEPT !.rq[r] = [@ EXCEPT !.st = "done", !.failed = TRUE]]
Process(t, e, progress) == [t EXCEPT !.k = [Free EXCEPT !.at = "process", !.e = e, !.progress = progress]]
Enqueue(t, r) == Process([t EXCEPT !.queue[t.rq[r].engine] = Append(@, r), !.rq[r].st = "queued"], 0, FALSE)
PreparedFor(t, k, ok) ==
    CASE k.then = "queue" -> IF ok THEN Enqueue(t, k.r) ELSE [Fail(t, k.r) EXCEPT !.k = Free]
      [] k.then = "dispatch" -> Process(IF ok THEN dispatch(t, k.e, k.r) ELSE Fail(t, k.r), k.e + 1, TRUE)

\* The end of prepareEngine: the interrupts, and the wells let go.
EndPrepare(t, k, ok) ==
    LET on == ok /\ (t.interruptsOn \/ "no msi" \notin t.bad)
    IN  PreparedFor(forcewakePut([t EXCEPT !.interruptsOn = @ \/ on, !.master = @ \/ on,
                                           !.foreign = IF on /\ ~t.interruptsOn THEN 0 ELSE @]), k, on)

\* recordDefaultContext up to the scratch context on the engine.
SubmitScratch(t, e, seqno) ==
    writeElsp([t EXCEPT !.userSeqno = seqno, !.hw[e].seqno = 0], e, Scratch(seqno))
RecordFrom(t, k) ==
    [SubmitScratch(setUpEngine(resetEngine(t, k.e), k.e), k.e, NextSeqno(t.userSeqno)) EXCEPT
         !.k = [k EXCEPT !.at = "scratch"]]

prepareEngine(t, k) ==
    IF Prepared(t, k.e) \/ t.drv[k.e].active # 0 THEN PreparedFor(t, k, TRUE)
    ELSE IF CannotWake(t) THEN PreparedFor(t, k, FALSE)
    ELSE [forcewakeGet(t) EXCEPT !.k = [k EXCEPT !.at = "prepare"]]

PrepareSteps ==
    /\ In("prepare")
    /\ LET k == s.k
           ready == IF s.drv[k.e].userReady THEN s ELSE setUpEngine(resetEngine(s, k.e), k.e)
       IN  s' = IF "no reset" \in s.bad /\ ~s.drv[k.e].userReady THEN EndPrepare(s, k, FALSE)
                ELSE IF s.drv[k.e].defaultImage THEN EndPrepare(ready, k, TRUE) ELSE RecordFrom(ready, k)

\* The scratch context stored its breadcrumb, so the throwaway one follows;
\* that one stored, so the engine has to fall idle; the image is kept.
recordDefaultContext ==
    LET k == s.k
        t == drainCsb(s, k.e)
    IN  \/ /\ In("scratch") /\ s.hw[k.e].seqno = s.userSeqno
           /\ s' = [submit(s, k.e) EXCEPT !.k.at = "throwaway"]
        \/ /\ In("throwaway") /\ s.hw[k.e].stored
           /\ s' = [s EXCEPT !.k.at = "idle"]
        \/ /\ In("idle") /\ t.drv[k.e].csbIdle /\ ~t.hw[k.e].fresh
           /\ s' = EndPrepare([t EXCEPT !.drv[k.e].defaultImage = TRUE, !.early = @ \/ t.hw[k.e].run # NoRun], k, TRUE)
        \/ /\ (In("scratch") \/ In("throwaway") \/ In("idle")) /\ May("slow")
           /\ s' = EndPrepare(s, k, FALSE)

----------------------------------------------------------------------------
queueRequest(r) ==
    LET e == s.rq[r].engine
    IN  /\ In("free") /\ s.rq[r].st = "none" /\ r \in s.use.requests
        /\ \A q \in s.use.requests : q < r => s.rq[q].st # "none"
        /\ s' = IF s.claimed THEN Enqueue(s, r)
                ELSE prepareEngine(s, [Free EXCEPT !.e = e, !.r = r, !.then = "queue"])

\* The loop of processRequests: one pass over an engine.
Overdue(t, e, late) == IF t.drv[e].active # 0 /\ ~activeDone(t, e) THEN late ELSE FALSE
AfterReset(t, e) ==
    finishActive([setUpEngine(resetEngine(t, e), e) EXCEPT
                      !.ctx[t.rq[t.drv[e].active].ctx] = [started |-> FALSE, tail |-> 0, saved |-> 0]], e, TRUE)
Retire(t, e, late) ==
    IF t.drv[e].active = 0 THEN [t |-> t, progress |-> FALSE]
    ELSE IF activeDone(t, e) THEN [t |-> finishActive(t, e, FALSE), progress |-> TRUE]
    ELSE IF late THEN [t |-> AfterReset(t, e), progress |-> TRUE]
    ELSE [t |-> t, progress |-> FALSE]

StartNext(t, e, progress) ==
    LET r == Head(t.queue[e])
        u == [t EXCEPT !.queue[e] = Tail(@)]
    IN  IF t.drv[e].active # 0 \/ t.queue[e] = <<>> \/ t.claimed THEN Process(t, e + 1, progress)
        ELSE IF ~u.requestForcewake /\ CannotWake(u) THEN Process(Fail(u, r), e + 1, TRUE)
        ELSE prepareEngine(IF u.requestForcewake THEN u ELSE [forcewakeGet(u) EXCEPT !.requestForcewake = TRUE],
                           [Free EXCEPT !.e = e, !.r = r, !.progress = TRUE, !.then = "dispatch"])

Pass(x, e, progress) == StartNext(x.t, e, progress \/ x.progress)
EndOfPass(t) ==
    IF t.k.progress THEN Process(t, 0, FALSE)
    ELSE [IF t.requestForcewake /\ \A e \in EngineIds : t.drv[e].active = 0
          THEN [forcewakePut(t) EXCEPT !.requestForcewake = FALSE] ELSE t
          EXCEPT !.k = Free]
processRequests ==
    /\ In("process")
    /\ IF s.k.e = 2 THEN s' = EndOfPass(s)
       ELSE LET e == s.k.e
                t == IF s.drv[e].active # 0 THEN drainCsb(s, e) ELSE s
            IN  \E late \in {FALSE, May("hang") /\ t.drv[e].active # 0 /\ ~activeDone(t, e)} :
                    s' = Pass(Retire(t, e, late), e, s.k.progress)

\* An interrupt: the banks acknowledged, the master on again unless too many
\* came from elsewhere.
handleInterrupt(foreign) ==
    LET n == IF foreign THEN s.foreign + 1 ELSE s.foreign
    IN  /\ In("free") /\ s.master
        /\ IF foreign THEN May("foreign") ELSE s.irq
        /\ s' = Process([s EXCEPT !.irq = FALSE, !.foreign = n, !.master = n < kMaxForeignInterrupts], 0, FALSE)

\* A waiter's poll (each sleeps for ten milliseconds at most), or the timer.
timerTick ==
    /\ In("free") /\ queuedCount(s) > 0 /\ ~s.claimed
    /\ s' = Process(s, 0, FALSE)

\* gpu-test's experiments have the engines to themselves.
claimEngines ==
    /\ In("free") /\ May("test") /\ ~s.claimed /\ queuedCount(s) = 0
    /\ s' = [s EXCEPT !.claimed = TRUE]
releaseEngines ==
    /\ In("free") /\ s.claimed
    /\ s' = Process([s EXCEPT !.claimed = FALSE, !.drv = [e \in EngineIds |-> [@[e] EXCEPT !.userReady = FALSE]]],
                    0, FALSE)

\* The experiments: reset, set up, submit, wait for the store. The context may
\* still be on the engine afterwards. k.then says which experiment it is.
Claimed == In("free") /\ s.claimed /\ ~CannotWake(s)
Testing(what, e) == [Free EXCEPT !.at = "test", !.e = e, !.then = what]
runStores(t, e, what) ==
    [submit(setUpEngine(resetEngine(t, e), e), e) EXCEPT !.k = Testing(what, e)]
engineStoreTest(e) == Claimed /\ s' = runStores(forcewakeGet(s), e, "store")

\* A batch that waits for ever; then a reset must give the engine back.
engineHangTest ==
    /\ Claimed
    /\ s' = [runStores(forcewakeGet(s), 1, "hang") EXCEPT !.hw[1].run.stage = "stuck"]

\* A batch in a fresh address space, on both engines in turn.
runPpgttStores(t, e) == runStores(t, e, "ppgtt")
ppgttTest == Claimed /\ s' = runPpgttStores(forcewakeGet(s), 0)

\* Both engines are reset first and the interrupts are on meanwhile.
interruptTest ==
    /\ Claimed
    /\ s' = LET both == setUpEngine(resetEngine(setUpEngine(resetEngine(forcewakeGet(s), 0), 0), 1), 1)
            IN  [submit(both, 0) EXCEPT !.k = Testing("interrupt", 0), !.interruptsOn = TRUE, !.master = TRUE]
disableInterrupts(t) == [t EXCEPT !.interruptsOn = FALSE, !.master = FALSE]

EndTest ==
    LET k == s.k
        stored == s.hw[k.e].stored
        over == forcewakePut([s EXCEPT !.k = Free])
    IN  /\ In("test")
        /\ stored \/ k.then = "hang" \/ May("slow")
        /\ s' = CASE k.then = "hang" /\ ~stored -> runStores(s, k.e, "store")
                  [] k.then = "ppgtt" /\ k.e = 0 -> runPpgttStores(s, 1)
                  [] k.then = "interrupt" /\ stored /\ k.e = 0 -> [submit(s, 1) EXCEPT !.k.e = 1]
                  [] k.then = "interrupt" /\ ~(stored /\ k.e = 0) -> disableInterrupts(over)
                  [] OTHER -> over

----------------------------------------------------------------------------
\* The hardware (external).

\* The commands ran: their store is in memory.
HwStore(e) ==
    LET run == s.hw[e].run
    IN  /\ On /\ run.stage = "run"
        /\ s' = [s EXCEPT !.hw[e].run.stage = "stored", !.irq = @ \/ s.interruptsOn,
                          !.hw[e].seqno = IF run = Throwaway THEN @ ELSE run.seqno,
                          !.hw[e].stored = @ \/ run = Throwaway]

\* The context is saved; what waits in the ELSP follows.
HwSave(e) ==
    LET h == s.hw[e]
    IN  /\ On /\ h.run.stage = "stored"
        /\ s' = [s EXCEPT !.hw[e].run = h.next, !.hw[e].next = NoRun, !.hw[e].fresh = FALSE,
                          !.hw[e].unread = Append(@, h.next = NoRun), !.irq = @ \/ s.interruptsOn,
                          !.ctx = [c \in HwContexts |-> IF c = h.run.ctx THEN [@[c] EXCEPT !.saved = s.ctx[c].tail] ELSE @[c]]]

\* What does not work, or works again: the wells, the reset, the MSI.
HwTrouble(f) ==
    /\ In("free") /\ May(f)
    /\ s' = [s EXCEPT !.bad = IF f \in @ THEN @ \ {f} ELSE @ \cup {f}]

----------------------------------------------------------------------------
Init ==
    \E use \in EngineUses :
        s = [part |-> "gen9engine", use |-> use, k |-> Free, claimed |-> FALSE, forcewake |-> 0, bad |-> {},
             requestForcewake |-> FALSE, interruptsOn |-> FALSE, master |-> FALSE, foreign |-> 0, irq |-> FALSE,
             userSeqno |-> 0, early |-> FALSE, queue |-> [e \in EngineIds |-> <<>>],
             drv |-> [e \in EngineIds |-> [active |-> 0, userReady |-> FALSE, defaultImage |-> FALSE,
                                           csbIdle |-> TRUE, idleSeen |-> FALSE]],
             hw |-> [e \in EngineIds |-> [run |-> NoRun, next |-> NoRun, unread |-> <<>>, fresh |-> TRUE,
                                          seqno |-> 0, stored |-> FALSE]],
             ctx |-> [c \in HwContexts |-> [started |-> FALSE, tail |-> 0, saved |-> 0]],
             rq |-> [r \in RequestIds |-> [engine |-> use.engine[r], ctx |-> use.ctx[r], st |-> "none",
                                           seqno |-> 0, failed |-> FALSE]]]

Next ==
    \/ \E r \in RequestIds : queueRequest(r)
    \/ PrepareSteps \/ recordDefaultContext \/ processRequests
    \/ \E foreign \in BOOLEAN : handleInterrupt(foreign)
    \/ timerTick \/ claimEngines \/ releaseEngines \/ EndTest
    \/ \E e \in EngineIds : engineStoreTest(e)
    \/ engineHangTest \/ ppgttTest \/ interruptTest
    \/ \E e \in EngineIds : HwStore(e) \/ HwSave(e)
    \/ \E f \in {"asleep", "no reset", "no msi"} : HwTrouble(f)

----------------------------------------------------------------------------
Active(r) == s.rq[r].st = "active"

(* A request is done only after its breadcrumb landed and the engine saved *)
(* its context: an engine that is prepared, not claimed and has no active  *)
(* request is idle; the ring of a context goes on where its image stands.  *)
(* The default image is that of a saved context.                           *)
DoneIsSaved ==
    On => /\ ~s.early
          /\ \A e \in EngineIds :
                (s.drv[e].active = 0 /\ s.k.at \in {"free", "process"} /\ ~s.claimed /\ Prepared(s, e))
                => s.hw[e].run = NoRun
          /\ \A c \in HwContexts :
                (s.ctx[c].started /\ ~\E r \in RequestIds : Active(r) /\ s.rq[r].ctx = c)
                => s.ctx[c].saved = s.ctx[c].tail

(* The power wells are awake while the hardware runs a request, they are   *)
(* held once for the requests and once for whoever polls, and they go back *)
(* to sleep: no path leaves the count too high or too low.                 *)
WellsHeld ==
    On => /\ s.forcewake = (IF s.requestForcewake THEN 1 ELSE 0)
                           + (IF s.k.at \in {"prepare", "scratch", "throwaway", "idle", "test"} THEN 1 ELSE 0)
          /\ \A r \in RequestIds : Active(r) => s.requestForcewake
          /\ (s.k.at = "free" /\ s.requestForcewake) => \E e \in EngineIds : s.drv[e].active # 0

(* The status buffer never fills before the driver reads it, and an engine *)
(* with work queued is running some of it unless it is claimed.            *)
EngineFed ==
    On => \A e \in EngineIds :
              /\ Len(s.hw[e].unread) < CSB_ENTRIES
              /\ (s.k.at = "free" /\ ~s.claimed /\ s.queue[e] # <<>>) => s.drv[e].active # 0
=============================================================================
