------------------------------ MODULE Gen9Drm ------------------------------
(***************************************************************************)
(* The render node of the Intel Gen9 driver (graphics/intel_gen9_drm.cpp)  *)
(* and its request queues (graphics/intel_gen9_engine.cpp): buffer         *)
(* objects, address spaces, contexts, sync objects, the file descriptors   *)
(* that share them, execbuffer and what it waits for.  Everything runs     *)
(* under the big kernel lock, which a call gives up only where it sleeps   *)
(* (waitFor), so a call is one step up to its first sleep and one step per *)
(* wake-up.                                                                *)
(*                                                                         *)
(* A fence is the set of the requests it stands for: a join has several, a *)
(* fresh signaled fence none.  NoFence is the null pointer of a sync       *)
(* object that has nothing submitted.  The reference counts of fences are  *)
(* left out; those of objects, address spaces and sync objects are kept.   *)
(***************************************************************************)
EXTENDS Integers, Sequences, FiniteSets

CONSTANTS
    ObjectPages,        \* pages of each buffer object: its domain is the objects
    DrmContexts,        \* heap slots for contexts, address spaces, sync objects
    DrmVms,
    DrmSyncs,
    DrmFds,             \* descriptors of the process
    MaxRequests,        \* the most execbuffers a behaviour submits
    kMaxQueued,
    VaLimit,            \* pages of an address space
    MaxPoint,           \* timeline points
    DrmUses,            \* the programs: calls they make, batches they submit
    CloseDuringCalls    \* whether a file is closed while a call on it sleeps

VARIABLE s

On == s.part = "gen9drm"

Objects == DOMAIN ObjectPages
Engines == {0, 1}
Files == {1, 2}
Threads == {1, 2}
ContextIds == {0, 1}
Handles == {1, 2}
Requests == 1..MaxRequests
NoFence == {0}

(***************************************************************************)
(* Fences                                                                  *)
(***************************************************************************)
fenceBusy(t, F) == \E r \in F \ {0} : t.rq[r].st # "done"
Carried(t, F) == {r \in F \ {0} : t.rq[r].st # "done" \/ t.rq[r].failed}
objectIdle(t, o) == ~(fenceBusy(t, t.obj[o].reads[0]) \/ fenceBusy(t, t.obj[o].reads[1]) \/ fenceBusy(t, t.obj[o].write))
objectWritten(t, o) == ~fenceBusy(t, t.obj[o].write)

\* Completed parts without an error have nothing to carry.
joinFences(t, Fs) == Carried(t, UNION Fs)
objectFences(t, o, forWrite) ==
    joinFences(t, {t.obj[o].write} \cup (IF forWrite THEN {t.obj[o].reads[0], t.obj[o].reads[1]} ELSE {}))

(***************************************************************************)
(* Sync objects: a payload, or timeline points in ascending order.  The    *)
(* field sub is a history variable: the points submitted since the payload *)
(* was last replaced.                                                      *)
(***************************************************************************)
NewSync(F) == [refs |-> 1, fence |-> F, points |-> <<>>, last |-> 0, signaled |-> 0, sub |-> {}]
NoSync == [NewSync(NoFence) EXCEPT !.refs = 0]

PointsDone(t, y) ==
    CHOOSE n \in 0..Len(y.points) :
        /\ \A i \in 1..n : Carried(t, y.points[i].fence) = {}
        /\ n < Len(y.points) => Carried(t, y.points[n + 1].fence) # {}
PrunedTo(y, n) ==
    IF n = 0 THEN y
    ELSE [y EXCEPT !.signaled = y.points[n].point, !.points = SubSeq(@, n + 1, Len(@))]
prunePoints(t, y) == PrunedTo(y, PointsDone(t, y))

\* The fence to wait on for a point: of every point up to the first at or
\* past it.  NoFence when that point has not been submitted.
FenceOfPruned(t, y, point) ==
    LET upTo == {i \in 1..Len(y.points) : \A j \in 1..(i - 1) : y.points[j].point < point}
    IN  IF \A i \in 1..Len(y.points) : y.points[i].point < point
        THEN (IF point <= y.signaled \/ point <= y.last THEN {} ELSE NoFence)
        ELSE joinFences(t, {y.points[i].fence : i \in upTo})
syncFenceFor(t, y, point) ==
    IF point = 0 THEN y.fence ELSE FenceOfPruned(t, prunePoints(t, y), point)

WithPoint(y, point, F) ==
    [y EXCEPT !.points = SelectSeq(@, LAMBDA q : q.point < point) \o <<[point |-> point, fence |-> F]>>
                             \o SelectSeq(@, LAMBDA q : q.point > point),
              !.last = IF point > @ THEN point ELSE @,
              !.sub = {q \in @ : q.point # point} \cup {[point |-> point, fence |-> F]}]
WithHead(t, y) == [y EXCEPT !.fence = FenceOfPruned(t, prunePoints(t, y), y.last)]
syncAddPoint(t, y, point, F) == WithHead(t, WithPoint(prunePoints(t, y), point, F))
syncSetPayload(y, F) ==
    [y EXCEPT !.points = <<>>, !.last = 0, !.signaled = 0, !.fence = F, !.sub = {}]
syncSignal(t, y, point, F) ==
    IF point = 0 THEN syncSetPayload(y, F) ELSE syncAddPoint(t, y, point, F)
syncQuery(t, y) ==
    LET z == prunePoints(t, y)
        n == CHOOSE k \in 0..Len(z.points) :
                 /\ \A i \in 1..k : ~fenceBusy(t, z.points[i].fence)
                 /\ k < Len(z.points) => fenceBusy(t, z.points[k + 1].fence)
    IN  IF n = 0 THEN z.signaled ELSE z.points[n].point

releaseSync(y) == IF y.refs = 1 THEN NoSync ELSE [y EXCEPT !.refs = @ - 1]
Signal(t, h, point, F) == [t EXCEPT !.sync[h] = syncSignal(t, @, point, F)]

(***************************************************************************)
(* References: objects, address spaces, contexts, files                    *)
(***************************************************************************)
NoObject == [refs |-> 0, cached |-> TRUE, reads |-> [e \in Engines |-> {}], write |-> {}]
NewObject(cached) == [NoObject EXCEPT !.refs = 1, !.cached = cached]
NoVm == [refs |-> 0, owner |-> 0, id |-> 0, ppgtt |-> FALSE, binds |-> {}]
NoContext == [vm |-> 0, pending |-> 0, destroyed |-> FALSE, used |-> FALSE, banned |-> FALSE,
              recoverable |-> TRUE, bannable |-> TRUE, map |-> <<>>, single |-> FALSE, timeline |-> {}]
NoRequest == [st |-> "none", failed |-> FALSE, file |-> 0, context |-> 0, vm |-> 0, engine |-> 0,
              uses |-> {}, deps |-> {}]
NoFile == [open |-> FALSE, closed |-> FALSE, inflight |-> 0, contexts |-> [c \in ContextIds |-> 0],
           handles |-> [h \in Handles |-> 0], vmIds |-> [v \in Handles |-> 0], defaultVm |-> 0,
           syncs |-> [h \in Handles |-> 0]]
Idle == [at |-> "idle", file |-> 0, handle |-> 0, object |-> 0, vm |-> 0, exec |-> <<>>, flag |-> FALSE,
         syncs |-> <<>>]

\* n references of each object are given back (or, negative, taken).
Released(obj, n) ==
    [o \in Objects |-> IF n[o] = 0 THEN obj[o]
                       ELSE IF obj[o].refs = n[o] THEN NoObject
                       ELSE [obj[o] EXCEPT !.refs = @ - n[o]]]
BindCount(B, o) == Cardinality({b \in B : b.object = o})
release(t, o) == [t EXCEPT !.obj = Released(@, [p \in Objects |-> IF p = o THEN 1 ELSE 0])]
retain(t, o) == [t EXCEPT !.obj[o].refs = @ + 1]

unbindObject(t, f, o) ==
    LET gone == [v \in DrmVms |-> IF t.vm[v].owner = f THEN {b \in t.vm[v].binds : b.object = o} ELSE {}]
        n == Cardinality({<<v, b>> \in DrmVms \X (UNION {gone[v] : v \in DrmVms}) : b \in gone[v]})
    IN  [t EXCEPT !.vm = [v \in DrmVms |-> [t.vm[v] EXCEPT !.binds = @ \ gone[v]]],
                  !.obj = Released(@, [p \in Objects |-> IF p = o THEN n ELSE 0])]

\* n[v] references of each address space v are given back; the last one
\* unbinds what is left in it.
DroppedVms(t, dead, n) ==
    [t EXCEPT !.vm = [v \in DrmVms |-> IF v \in dead THEN NoVm ELSE [t.vm[v] EXCEPT !.refs = @ - n[v]]],
              !.obj = Released(@, [o \in Objects |->
                  Cardinality({<<v, b>> \in dead \X (UNION {t.vm[w].binds : w \in dead}) :
                                   b \in t.vm[v].binds /\ b.object = o})])]
releaseVms(t, n) == DroppedVms(t, {v \in DrmVms : n[v] # 0 /\ t.vm[v].refs = n[v]}, n)
releaseVm(t, w) == releaseVms(t, [v \in DrmVms |-> IF v = w THEN 1 ELSE 0])

freeContexts(t, C) ==
    releaseVms([t EXCEPT !.ctx = [c \in DrmContexts |-> IF c \in C THEN NoContext ELSE t.ctx[c]]],
               [v \in DrmVms |-> Cardinality({c \in C : t.ctx[c].vm = v})])

DropTables(t, F) ==
    [t EXCEPT !.obj = Released(@, [o \in Objects |-> Cardinality({h \in Handles : F.handles[h] = o})]),
              !.sync = [y \in DrmSyncs |-> IF \E h \in Handles : F.syncs[h] = y
                                           THEN [t.sync[y] EXCEPT !.refs = @ - Cardinality({h \in Handles : F.syncs[h] = y})]
                                           ELSE t.sync[y]]]
ReapSyncs(t) == [t EXCEPT !.sync = [y \in DrmSyncs |-> IF t.sync[y].refs = 0 THEN NoSync ELSE t.sync[y]]]
DropVmTable(t, F) ==
    releaseVms(t, [v \in DrmVms |-> Cardinality({i \in Handles : F.vmIds[i] = v}) + (IF F.defaultVm = v THEN 1 ELSE 0)])
destroyFile(t, f) ==
    [ReapSyncs(DropTables(DropVmTable(freeContexts(t, {t.file[f].contexts[c] : c \in ContextIds} \ {0}), t.file[f]),
                          t.file[f]))
     EXCEPT !.file[f] = NoFile]

(***************************************************************************)
(* Requests: one queue per engine, in order; a request runs when all that  *)
(* it depends on is done.                                                  *)
(***************************************************************************)
Emptied(t, r, status) ==
    [t EXCEPT !.obj = Released(@, [o \in Objects |-> Cardinality({u \in t.rq[r].uses : u.object = o})]),
              !.rq[r] = [NoRequest EXCEPT !.st = "done", !.failed = status]]
CloseFileIfLast(t, f) ==
    LET u == [t EXCEPT !.file[f].inflight = @ - 1]
    IN  IF u.file[f].inflight = 0 /\ u.file[f].closed THEN destroyFile(u, f) ELSE u
FreeContextIfLast(t, c) ==
    LET u == [t EXCEPT !.ctx[c].pending = @ - 1]
    IN  IF u.ctx[c].pending = 0 /\ u.ctx[c].destroyed THEN freeContexts(u, {c}) ELSE u
Blame(t, c, hung) ==
    IF hung /\ ~t.ctx[c].recoverable /\ t.ctx[c].bannable THEN [t EXCEPT !.ctx[c].banned = TRUE] ELSE t
retireGemRequest(t, r, failed, hung) ==
    CloseFileIfLast(FreeContextIfLast(Emptied(Blame(t, t.rq[r].context, hung), r, failed), t.rq[r].context),
                    t.rq[r].file)

finishActive(t, e, failed) == retireGemRequest([t EXCEPT !.active[e] = 0], t.active[e], failed, failed)

depsReady(t, r) == \A F \in t.rq[r].deps : ~fenceBusy(t, F)
depsFailed(t, r) == \E F \in t.rq[r].deps : Carried(t, F) # {}
Dequeue(t, e) == [t EXCEPT !.queue[e] = Tail(@)]
StartNext(t, e) ==
    IF t.active[e] # 0 \/ t.queue[e] = <<>> \/ t.claimed \/ ~depsReady(t, Head(t.queue[e])) THEN t
    ELSE IF depsFailed(t, Head(t.queue[e])) \/ t.ctx[t.rq[Head(t.queue[e])].context].banned
    THEN retireGemRequest(Dequeue(t, e), Head(t.queue[e]), TRUE, FALSE)
    ELSE [Dequeue(t, e) EXCEPT !.active[e] = Head(t.queue[e]), !.rq[Head(t.queue[e])].st = "active",
                            !.ready[e] = TRUE]
RunEngine(t, e, finished, hung) ==
    StartNext(IF t.active[e] = 0 THEN t
              ELSE IF e \in finished THEN finishActive(t, e, FALSE)
              ELSE IF e \in hung THEN finishActive(t, e, TRUE)
              ELSE t, e)

\* finished, hung: the engines whose request is through, or overdue, now.
RECURSIVE processRequests(_, _, _)
Again(t, u) == IF u = t THEN t ELSE processRequests(u, {}, {})
processRequests(t, finished, hung) ==
    Again(t, RunEngine(RunEngine(t, 0, finished, hung), 1, finished, hung))

queuedRequests(t) == Cardinality({r \in Requests : t.rq[r].st \in {"queued", "active"}})

(***************************************************************************)
(* EXECBUFFER2                                                             *)
(***************************************************************************)
InTheWay(b, u) ==
    /\ ~(b.object = u.object /\ b.va = u.va)
    /\ \/ b.object = u.object
       \/ u.va < b.va + ObjectPages[b.object] /\ b.va < u.va + ObjectPages[u.object]
pickEngine(c, ring) ==
    IF c.map # <<>> THEN (IF ring < Len(c.map) THEN c.map[ring + 1] ELSE 2)
    ELSE ring
Entry(t, f, x, i) ==
    [object |-> t.file[f].handles[x.list[i].handle], va |-> x.list[i].va, write |-> x.list[i].write,
     async |-> x.list[i].async]
Entries(t, f, x) == [i \in 1..Len(x.list) |-> Entry(t, f, x, i)]

ExecValid(t, f, x) ==
    /\ t.file[f].contexts[x.ctx] # 0
    /\ pickEngine(t.ctx[t.file[f].contexts[x.ctx]], x.ring) \in Engines
    /\ x.fenceIn # 0 => t.fd[x.fenceIn].kind = "fence"
    /\ \A i \in 1..Len(x.list) :
           /\ t.file[f].handles[x.list[i].handle] # 0
           /\ x.list[i].va + ObjectPages[t.file[f].handles[x.list[i].handle]] <= VaLimit
    /\ \A i, j \in 1..Len(x.list) :
           i # j => ~(\/ Entry(t, f, x, i).object = Entry(t, f, x, j).object
                      \/ InTheWay(Entry(t, f, x, i), Entry(t, f, x, j)))

\* The references the call holds while it may sleep.
HoldExec(t, f, x, us, v) ==
    [t EXCEPT !.obj = [o \in Objects |-> [t.obj[o] EXCEPT !.refs = @ + Cardinality({i \in DOMAIN us : us[i].object = o})]],
              !.vm[v] = [t.vm[v] EXCEPT !.refs = @ + 1, !.ppgtt = TRUE]]
DropUses(t, us) ==
    [t EXCEPT !.obj = Released(@, [o \in Objects |-> Cardinality({i \in DOMAIN us : us[i].object = o})])]

\* Bind the first n entries; what is in the way of the first m goes.
Rebound(t, v, B, us, n, m) ==
    {b \in B : \A i \in 1..m : ~InTheWay(b, us[i])} \cup {[object |-> us[i].object, va |-> us[i].va] : i \in 1..n}
SetBinds(t, v, new, old) ==
    [t EXCEPT !.vm[v].binds = new,
              !.obj = Released(@, [o \in Objects |-> BindCount(old, o) - BindCount(new, o)])]
Bind(t, v, us, n, m) == SetBinds(t, v, Rebound(t, v, t.vm[v].binds, us, n, m), t.vm[v].binds)

FencesKnown(t, f, x) ==
    \A q \in x.fences :
        /\ t.file[f].syncs[q.handle] # 0
        /\ q.wait => syncFenceFor(t, t.sync[t.file[f].syncs[q.handle]], q.point) # NoFence

\* Implicit: the last writer, and for a writer the last users; explicit: the
\* fence array and FENCE_IN; the context's previous request.
ObjectDeps(t, us) ==
    UNION {{t.obj[us[i].object].write}
             \cup (IF us[i].write THEN {t.obj[us[i].object].reads[e] : e \in Engines} ELSE {})
           : i \in {j \in DOMAIN us : ~us[j].async}}
Dependencies(t, f, x, us, inFence, c) ==
    {F \in ObjectDeps(t, us)
           \cup {syncFenceFor(t, t.sync[t.file[f].syncs[q.handle]], q.point) : q \in {p \in x.fences : p.wait}}
           \cup {inFence}
           \cup (IF t.ctx[c].single THEN {t.ctx[c].timeline} ELSE {}) : fenceBusy(t, F)}

UserOf(us, o) == {i \in DOMAIN us : us[i].object = o}
FenceObjects(t, us, e, r) ==
    [t EXCEPT !.obj = [o \in Objects |->
        IF UserOf(us, o) = {} THEN t.obj[o]
        ELSE [t.obj[o] EXCEPT !.reads[e] = {r},
                              !.write = IF \E i \in UserOf(us, o) : us[i].write THEN {r} ELSE @]]]
FenceSyncs(t, f, x, r) ==
    [t EXCEPT !.sync = [y \in DrmSyncs |->
        IF \E q \in x.fences : q.signal /\ t.file[f].syncs[q.handle] = y
        THEN syncSignal(t, t.sync[y], (CHOOSE q \in x.fences : q.signal /\ t.file[f].syncs[q.handle] = y).point, {r})
        ELSE t.sync[y]]]
FenceTimeline(t, c, r) == IF t.ctx[c].single THEN [t EXCEPT !.ctx[c].timeline = {r}] ELSE t

Enqueue(t, f, c, v, e, us, deps, r) ==
    [t EXCEPT !.rq[r] = [NoRequest EXCEPT !.st = "queued", !.file = f, !.context = c, !.vm = v, !.engine = e,
                                          !.uses = {us[i] : i \in DOMAIN us}, !.deps = deps],
              !.n = r,
              !.file[f].inflight = @ + 1,
              !.ctx[c].pending = @ + 1,
              !.ctx[c].used = TRUE]
\* An engine is set up for the first request, which fails when that does;
\* later ones find it ready (the claimed engines are set up when they start).
CannotPrepare(t, e, x) == x.fault = "engine" /\ ~t.ready[e] /\ ~t.claimed
queueRequest(t, e, r, x) ==
    IF CannotPrepare(t, e, x) THEN retireGemRequest(t, r, TRUE, FALSE)
    ELSE processRequests([t EXCEPT !.queue[e] = Append(@, r), !.ready[e] = @ \/ ~t.claimed], {}, {})
FreeFd(t) == {d \in DrmFds : t.fd[d].kind = "none" /\ \A g \in DrmFds : t.fd[g].kind = "none" => d <= g}
NoFd == [kind |-> "none", object |-> 0, fence |-> {}, sync |-> 0]
exportSyncFile(t, F) ==
    [t EXCEPT !.fd = [d \in DrmFds |-> IF d \in FreeFd(t) THEN [NoFd EXCEPT !.kind = "fence", !.fence = F] ELSE t.fd[d]]]
ExportIf(t, out, F) == IF out THEN exportSyncFile(t, F) ELSE t

FailExec(t, us, v) == DropUses(releaseVm(t, v), us)
Submit(t, f, x, us, v, c, e, inFence) ==
    ExportIf(
        queueRequest(
            Enqueue(FenceSyncs(FenceObjects(FenceTimeline(releaseVm(t, v), c, t.n + 1), us, e, t.n + 1), f, x, t.n + 1),
                    f, c, v, e, us, Dependencies(t, f, x, us, inFence, c), t.n + 1),
            e, t.n + 1, x),
        x.fenceOut /\ ~CannotPrepare(t, e, x), {t.n + 1})

\* After the waits nothing sleeps; the context is looked up again.
ExecBound(t, f, x, us, v, c, inFence) ==
    IF c = 0 THEN FailExec(t, us, v)
    ELSE IF t.ctx[c].vm # v \/ pickEngine(t.ctx[c], x.ring) \notin Engines \/ t.ctx[c].banned THEN FailExec(t, us, v)
    ELSE IF x.fault = "map" THEN FailExec(Bind(t, v, us, Len(us) - 1, Len(us)), us, v)
    ELSE IF ~FencesKnown(t, f, x) THEN FailExec(Bind(t, v, us, Len(us), Len(us)), us, v)
    ELSE Submit(Bind(t, v, us, Len(us), Len(us)), f, x, us, v, c, pickEngine(t.ctx[c], x.ring), inFence)

Evict(t, v, us) == \E b \in t.vm[v].binds, i \in DOMAIN us : InTheWay(b, us[i])
Asleep(t, i, k) == [t EXCEPT !.thread[i] = k]
ExecLoop(t, i, k) ==
    LET x == k.exec[1]
        us == k.exec[2]
    IN  IF Evict(t, k.vm, us) /\ t.file[k.file].inflight # 0
        THEN Asleep(t, i, [k EXCEPT !.at = "exec evict"])
        ELSE IF queuedRequests(t) >= kMaxQueued
        THEN Asleep(t, i, [k EXCEPT !.at = "exec queue"])
        ELSE ExecBound(Asleep(t, i, Idle), k.file, x, us, k.vm, t.file[k.file].contexts[x.ctx], k.exec[3])

(***************************************************************************)
(* Calls that sleep: what each waits for, and what it does then            *)
(***************************************************************************)
Ready(t, k) ==
    CASE k.at \in {"close", "caching", "idle wait"} -> objectIdle(t, k.object)
      [] k.at = "written wait" -> objectWritten(t, k.object)
      [] k.at = "exec evict" -> t.file[k.file].inflight = 0
      [] k.at = "exec queue" -> queuedRequests(t) < kMaxQueued
      [] k.at = "sync wait" ->
            LET ok(i) == LET F == syncFenceFor(t, t.sync[k.syncs[i].sync], k.syncs[i].point)
                         IN  F # NoFence /\ ~fenceBusy(t, F)
            IN  IF k.flag THEN \A i \in DOMAIN k.syncs : ok(i) ELSE \E i \in DOMAIN k.syncs : ok(i)
      [] k.at = "claim" -> ~t.claimed /\ queuedRequests(t) = 0

CloseHandle(t, f, h, o) == release([unbindObject(t, f, o) EXCEPT !.file[f].handles[h] = 0], o)
AfterClose(t, k) == IF t.file[k.file].handles[k.handle] = k.object
                    THEN CloseHandle(release(t, k.object), k.file, k.handle, k.object)
                    ELSE release(t, k.object)
AfterCaching(t, k) ==
    IF t.file[k.file].handles[k.handle] = k.object
    THEN release([unbindObject(t, k.file, k.object) EXCEPT !.obj[k.object].cached = k.flag], k.object)
    ELSE release(t, k.object)
ReleaseSyncs(t, k) ==
    ReapSyncs([t EXCEPT !.sync = [y \in DrmSyncs |->
        [t.sync[y] EXCEPT !.refs = @ - Cardinality({i \in DOMAIN k.syncs : k.syncs[i].sync = y})]]])
Resumed(t, i, k) ==
    CASE k.at = "close" -> AfterClose(Asleep(t, i, Idle), k)
      [] k.at = "caching" -> AfterCaching(Asleep(t, i, Idle), k)
      [] k.at \in {"idle wait", "written wait"} -> release(Asleep(t, i, Idle), k.object)
      [] k.at \in {"exec evict", "exec queue"} -> ExecLoop(t, i, k)
      [] k.at = "sync wait" -> ReleaseSyncs(Asleep(t, i, Idle), k)
      [] k.at = "claim" -> [Asleep(t, i, Idle) EXCEPT !.claimed = TRUE]

(***************************************************************************)
(* Steps.  The program's threads are alike: a call is made by the first    *)
(* one that is not inside a call.                                          *)
(***************************************************************************)
Does(name) == On /\ name \in s.use.calls
Caller == {i \in Threads : s.thread[i] = Idle /\ \A j \in Threads : s.thread[j] = Idle => i <= j}
Open == IF On THEN {f \in Files : s.file[f].open /\ ~s.file[f].closed} ELSE {}
LowestFree(table) == {h \in DOMAIN table : table[h] = 0 /\ \A g \in DOMAIN table : table[g] = 0 => h <= g}
Fresh(heap, none) == {h \in DOMAIN heap : heap[h] = none /\ \A g \in DOMAIN heap : heap[g] = none => h <= g}

doCreate ==
    /\ Does("create")
    /\ \E f \in Open, i \in Caller : \E h \in LowestFree(s.file[f].handles), o \in Fresh(s.obj, NoObject) :
           s' = [s EXCEPT !.obj[o] = NewObject(TRUE), !.file[f].handles[h] = o]

\* CLOSE waits until the GPU is done with the object, then looks again.
doClose ==
    /\ Does("close")
    /\ \E f \in Open, i \in Caller, h \in Handles : \E o \in {s.file[f].handles[h]} \ {0} :
           s' = IF objectIdle(s, o) THEN CloseHandle(s, f, h, o)
                ELSE Asleep(retain(s, o), i, [Idle EXCEPT !.at = "close", !.file = f, !.handle = h, !.object = o])

doSetCaching ==
    /\ Does("caching")
    /\ \E f \in Open, i \in Caller, h \in Handles : \E o \in {s.file[f].handles[h]} \ {0} :
           s' = Asleep(retain(s, o), i, [Idle EXCEPT !.at = "caching", !.file = f, !.handle = h, !.object = o,
                                                     !.flag = ~s.obj[o].cached])

\* GEM_WAIT, SET_DOMAIN, and SYNC and the scanout wait on a dma-buf.
WaitObject(name, at, objects) ==
    /\ Does(name)
    /\ \E i \in Caller, o \in objects : s' = Asleep(retain(s, o), i, [Idle EXCEPT !.at = at, !.object = o])
Named == IF On THEN {s.file[f].handles[h] : f \in Open, h \in Handles} \ {0} ELSE {}
Exported == IF On THEN {s.fd[d].object : d \in DrmFds} \ {0} ELSE {}
doGemWait == WaitObject("wait", "idle wait", Named)
doSetDomain(write) == WaitObject("domain", IF write THEN "idle wait" ELSE "written wait", Named)
dmaBufSync(write) == WaitObject("sync", IF write THEN "idle wait" ELSE "written wait", Exported)
waitDmaBufWritten == WaitObject("scanout", "written wait", Exported)

doExecbuffer ==
    /\ Does("exec")
    /\ s.n + Cardinality({j \in Threads : s.thread[j].exec # <<>>}) < s.use.max
    /\ \E f \in Open, i \in Caller, x \in s.use.execs :
           /\ x.file = f /\ ExecValid(s, f, x)
           /\ \A q \in x.fences : q.signal /\ q.point # 0 /\ s.file[f].syncs[q.handle] # 0
                  => q.point > s.sync[s.file[f].syncs[q.handle]].last
           /\ LET us == Entries(s, f, x)
                  v == s.ctx[s.file[f].contexts[x.ctx]].vm
                  inFence == IF x.fenceIn = 0 THEN {} ELSE s.fd[x.fenceIn].fence
              IN  s' = ExecLoop(HoldExec(s, f, x, us, v), i,
                                [Idle EXCEPT !.file = f, !.vm = v, !.exec = <<x, us, inFence>>])

\* A sleeping call looks again (an interrupt, or ten milliseconds).
waitFor ==
    \E i \in (IF On THEN Threads ELSE {}) :
        /\ s.thread[i] # Idle /\ Ready(s, s.thread[i])
        /\ s' = Resumed(s, i, s.thread[i])
\* GEM_WAIT, a sync object wait and a claim of the engines have a deadline.
Deadline ==
    \E i \in (IF On THEN Threads ELSE {}) :
        /\ s.thread[i] # Idle /\ ~Ready(s, s.thread[i])
        /\ \/ s.thread[i].at \in {"idle wait", "written wait"} /\ s' = release(Asleep(s, i, Idle), s.thread[i].object)
           \/ s.thread[i].at = "sync wait" /\ s' = ReleaseSyncs(Asleep(s, i, Idle), s.thread[i])
           \/ s.thread[i].at = "claim" /\ s' = Asleep(s, i, Idle)

\* Whoever moves the requests along: the GPU's interrupt, a waiter's pass,
\* GEM_BUSY or poll, the timer tick when a request is overdue.
handleInterrupt ==
    /\ On
    /\ \E e \in Engines, hung \in (IF "hang" \in s.use.calls THEN BOOLEAN ELSE {FALSE}) :
           /\ s.active[e] # 0
           /\ s' = processRequests(s, IF hung THEN {} ELSE {e}, IF hung THEN {e} ELSE {})

\* The engine experiments take the engines for themselves.
claimEngines ==
    /\ Does("claim")
    /\ \E i \in Caller : s' = Asleep(s, i, [Idle EXCEPT !.at = "claim"])
releaseEngines == Does("claim") /\ s.claimed /\ s' = processRequests([s EXCEPT !.claimed = FALSE, !.ready = [e \in Engines |-> FALSE]], {}, {})

\* Contexts and address spaces.
ContextFor(f, v, single) == [NoContext EXCEPT !.vm = v, !.single = single]
doContextCreate(single) ==
    /\ Does("context")
    /\ \E f \in Open, i \in Caller : \E id \in LowestFree(s.file[f].contexts), c \in Fresh(s.ctx, NoContext) :
           s' = [s EXCEPT !.ctx[c] = ContextFor(f, s.file[f].defaultVm, single), !.file[f].contexts[id] = c,
                          !.vm[s.file[f].defaultVm].refs = @ + 1]
doContextDestroy ==
    /\ Does("context")
    /\ \E f \in Open, i \in Caller : \E c \in {s.file[f].contexts[1]} \ {0} :
           s' = IF s.ctx[c].pending # 0
                THEN [s EXCEPT !.file[f].contexts[1] = 0, !.ctx[c].destroyed = TRUE]
                ELSE freeContexts([s EXCEPT !.file[f].contexts[1] = 0], {c})
setContextVm ==
    /\ Does("vm")
    /\ \E f \in Open, i \in Caller, id \in ContextIds, n \in Handles :
           \E c \in {s.file[f].contexts[id]} \ {0}, v \in {s.file[f].vmIds[n]} \ {0} :
               /\ ~s.ctx[c].used
               /\ s' = [releaseVm([s EXCEPT !.vm[v].refs = @ + 1], s.ctx[c].vm) EXCEPT !.ctx[c].vm = v]
getContextVm ==
    /\ Does("vm")
    /\ \E f \in Open, i \in Caller, id \in ContextIds : \E c \in {s.file[f].contexts[id]} \ {0} :
           /\ s.vm[s.ctx[c].vm].id = 0
           /\ \E n \in LowestFree(s.file[f].vmIds) :
                  s' = [s EXCEPT !.file[f].vmIds[n] = s.ctx[c].vm, !.vm[s.ctx[c].vm].id = n,
                                 !.vm[s.ctx[c].vm].refs = @ + 1]
setContextParam ==
    /\ Does("param")
    /\ \E f \in Open, i \in Caller, id \in ContextIds : \E c \in {s.file[f].contexts[id]} \ {0} :
           \/ s' = [s EXCEPT !.ctx[c].recoverable = FALSE]
           \/ ~s.ctx[c].used /\ s' = [s EXCEPT !.ctx[c].map = <<1, 0>>]
           \/ ~s.ctx[c].used /\ s' = [s EXCEPT !.ctx[c].map = <<>>]
doVmCreate ==
    /\ Does("vm")
    /\ \E f \in Open, i \in Caller : \E n \in LowestFree(s.file[f].vmIds), v \in Fresh(s.vm, NoVm) :
           s' = [s EXCEPT !.vm[v] = [NoVm EXCEPT !.refs = 1, !.owner = f, !.id = n], !.file[f].vmIds[n] = v]
doVmDestroy ==
    /\ Does("vm")
    /\ \E f \in Open, i \in Caller, n \in Handles : \E v \in {s.file[f].vmIds[n]} \ {0} :
           s' = releaseVm([s EXCEPT !.file[f].vmIds[n] = 0, !.vm[v].id = 0], v)

\* Sync objects.
SyncOf(f, h) == s.file[f].syncs[h]
Synced == IF On THEN {<<f, h>> \in Open \X Handles : SyncOf(f, h) # 0} ELSE {}
InOrder(y, point) == point = 0 \/ point > s.sync[y].last
doSyncobjCreate(F) ==
    /\ Does("syncobj")
    /\ \E f \in Open, i \in Caller : \E h \in LowestFree(s.file[f].syncs), y \in Fresh(s.sync, NoSync) :
           s' = [s EXCEPT !.sync[y] = NewSync(F), !.file[f].syncs[h] = y]
doSyncobjDestroy ==
    /\ Does("syncobj")
    /\ \E q \in Synced, i \in Caller :
           s' = [s EXCEPT !.file[q[1]].syncs[q[2]] = 0, !.sync[SyncOf(q[1], q[2])] = releaseSync(@)]
\* A point not yet submitted is an error unless WAIT_FOR_SUBMIT.
HoldSyncs(t, list) ==
    [t EXCEPT !.sync = [y \in DrmSyncs |->
        [prunePoints(t, t.sync[y]) EXCEPT !.refs = @ + Cardinality({j \in DOMAIN list : list[j].sync = y})]]]
doSyncobjWait(all) ==
    /\ Does("syncwait")
    /\ \E f \in Open, i \in Caller, p \in 0..MaxPoint, q \in 0..MaxPoint :
           /\ SyncOf(f, 1) # 0
           /\ LET both == <<[sync |-> SyncOf(f, 1), point |-> p], [sync |-> SyncOf(f, 2), point |-> q]>>
                  list == IF SyncOf(f, 2) = 0 THEN SubSeq(both, 1, 1) ELSE both
              IN  s' = Asleep(HoldSyncs(s, list), i, [Idle EXCEPT !.at = "sync wait", !.syncs = list, !.flag = all])
\* RESET, SIGNAL and TIMELINE_SIGNAL.
doSyncobjSignal ==
    /\ Does("signal")
    /\ \E q \in Synced, i \in Caller :
           \/ s' = [s EXCEPT !.sync[SyncOf(q[1], q[2])] = syncSetPayload(@, NoFence)]
           \/ \E point \in 0..MaxPoint : InOrder(SyncOf(q[1], q[2]), point) /\ s' = Signal(s, SyncOf(q[1], q[2]), point, {})
doSyncobjTransfer ==
    /\ Does("transfer")
    /\ \E q, w \in Synced, i \in Caller, from \in 0..MaxPoint, to \in 0..MaxPoint :
           /\ q[1] = w[1] /\ InOrder(SyncOf(w[1], w[2]), to)
           /\ syncFenceFor(s, s.sync[SyncOf(q[1], q[2])], from) # NoFence
           /\ s' = Signal(s, SyncOf(w[1], w[2]), to, syncFenceFor(s, s.sync[SyncOf(q[1], q[2])], from))

(***************************************************************************)
(* Descriptors: sync objects, sync_files, dma-bufs                         *)
(***************************************************************************)
doSyncobjToFd ==
    /\ Does("syncfd")
    /\ \E q \in Synced, i \in Caller, d \in FreeFd(s) :
           \/ s' = [s EXCEPT !.fd[d] = [NoFd EXCEPT !.kind = "sync", !.sync = SyncOf(q[1], q[2])],
                             !.sync[SyncOf(q[1], q[2])].refs = @ + 1]
           \/ \E point \in 0..MaxPoint :
                  /\ syncFenceFor(s, s.sync[SyncOf(q[1], q[2])], point) # NoFence
                  /\ s' = exportSyncFile(s, syncFenceFor(s, s.sync[SyncOf(q[1], q[2])], point))
doSyncobjFromFd ==
    /\ Does("syncfd")
    /\ \E d \in DrmFds, i \in Caller :
           \/ /\ s.fd[d].kind = "fence"
              /\ \E q \in Synced, point \in 0..MaxPoint :
                     InOrder(SyncOf(q[1], q[2]), point) /\ s' = Signal(s, SyncOf(q[1], q[2]), point, s.fd[d].fence)
           \/ /\ s.fd[d].kind = "sync"
              /\ \E f \in Open : \E h \in LowestFree(s.file[f].syncs) :
                     s' = [s EXCEPT !.file[f].syncs[h] = s.fd[d].sync, !.sync[s.fd[d].sync].refs = @ + 1]

doPrimeToFd ==
    /\ Does("prime")
    /\ \E o \in Named, i \in Caller, d \in FreeFd(s) :
           s' = [retain(s, o) EXCEPT !.fd[d] = [NoFd EXCEPT !.kind = "buf", !.object = o]]
\* An object the file already has keeps its handle.
doPrimeFromFd ==
    /\ Does("prime")
    /\ \E f \in Open, i \in Caller, o \in Exported :
           /\ \A h \in Handles : s.file[f].handles[h] # o
           /\ \E h \in LowestFree(s.file[f].handles) : s' = [retain(s, o) EXCEPT !.file[f].handles[h] = o]
exportPagesAsDmaBuf ==
    /\ Does("scanout")
    /\ \E d \in FreeFd(s), i \in Caller, o \in Fresh(s.obj, NoObject) :
           s' = [s EXCEPT !.obj[o] = NewObject(FALSE), !.fd[d] = [NoFd EXCEPT !.kind = "buf", !.object = o]]
dmaBufExportSyncFile(write) ==
    /\ Does("bufsync")
    /\ \E o \in Exported, i \in Caller : FreeFd(s) # {} /\ s' = exportSyncFile(s, objectFences(s, o, write))
\* A fence from elsewhere becomes one the object's later users respect.
dmaBufImportSyncFile ==
    /\ Does("bufsync")
    /\ \E o \in Exported, i \in Caller, d \in DrmFds :
           /\ s.fd[d].kind = "fence"
           /\ \/ s' = [s EXCEPT !.obj[o].write = joinFences(s, {@, s.fd[d].fence})]
              \/ s' = [s EXCEPT !.obj[o].reads[0] = joinFences(s, {@, s.fd[d].fence})]
syncFileMerge ==
    /\ Does("merge")
    /\ \E d, g \in DrmFds, i \in Caller :
           /\ s.fd[d].kind = "fence" /\ s.fd[g].kind = "fence" /\ FreeFd(s) # {}
           /\ s' = exportSyncFile(s, joinFences(s, {s.fd[d].fence, s.fd[g].fence}))
CloseFd(t, d) ==
    CASE t.fd[d].kind = "buf" -> release([t EXCEPT !.fd[d] = NoFd], t.fd[d].object)
      [] t.fd[d].kind = "sync" -> [t EXCEPT !.fd[d] = NoFd, !.sync[t.fd[d].sync] = releaseSync(@)]
      [] OTHER -> [t EXCEPT !.fd[d] = NoFd]
fdClose == Does("closefd") /\ \E d \in DrmFds, i \in Caller : s.fd[d].kind # "none" /\ s' = CloseFd(s, d)

\* A mapping holds a reference until it is unmapped.
resolveMmap ==
    /\ Does("mmap")
    /\ \E o \in Named \cup Exported, i \in Caller : ~s.mapped[o] /\ s' = [retain(s, o) EXCEPT !.mapped[o] = TRUE]
munmap ==
    /\ Does("mmap")
    /\ \E o \in Objects, i \in Caller : s.mapped[o] /\ s' = [release(s, o) EXCEPT !.mapped[o] = FALSE]

\* The last close: the file goes with its last request.
nodeClose ==
    /\ Does("closefile")
    /\ \E f \in Open, i \in Caller :
           /\ CloseDuringCalls \/ \A j \in Threads : s.thread[j].file # f
           /\ s' = IF s.file[f].inflight = 0 THEN destroyFile(s, f) ELSE [s EXCEPT !.file[f].closed = TRUE]

\* A file as createFileNode leaves it: a default address space and context.
\* File 1 starts with the objects and sync objects its program made first.
Opened(f, use) ==
    [NoFile EXCEPT !.open = TRUE, !.defaultVm = f, !.contexts[0] = f,
                   !.handles = [h \in Handles |-> IF f = 1 /\ h \in use.objects THEN h ELSE 0],
                   !.syncs = [h \in Handles |-> IF f = 1 /\ h \in use.syncs THEN h ELSE 0]]
Init ==
    \E use \in DrmUses :
        s = [part |-> "gen9drm", use |-> use,
             file |-> [f \in Files |-> IF f \in use.files THEN Opened(f, use) ELSE NoFile],
             ctx |-> [c \in DrmContexts |-> IF c \in use.files THEN [NoContext EXCEPT !.vm = c] ELSE NoContext],
             vm |-> [v \in DrmVms |-> IF v \in use.files THEN [NoVm EXCEPT !.refs = 2, !.owner = v] ELSE NoVm],
             obj |-> [o \in Objects |-> IF o \in use.objects THEN NewObject(TRUE) ELSE NoObject],
             sync |-> [y \in DrmSyncs |-> IF y \in use.syncs THEN NewSync(NoFence) ELSE NoSync],
             fd |-> [d \in DrmFds |-> NoFd], rq |-> [r \in Requests |-> NoRequest], n |-> 0,
             queue |-> [e \in Engines |-> <<>>], active |-> [e \in Engines |-> 0], claimed |-> FALSE,
             ready |-> [e \in Engines |-> FALSE],
             mapped |-> [o \in Objects |-> FALSE], thread |-> [i \in Threads |-> Idle]]

Next ==
    \/ doCreate \/ doClose \/ doSetCaching \/ doGemWait
    \/ doSetDomain(TRUE) \/ doSetDomain(FALSE) \/ dmaBufSync(TRUE) \/ dmaBufSync(FALSE) \/ waitDmaBufWritten
    \/ doExecbuffer \/ waitFor \/ Deadline \/ handleInterrupt \/ claimEngines \/ releaseEngines
    \/ doContextCreate(TRUE) \/ doContextCreate(FALSE) \/ doContextDestroy \/ setContextVm \/ getContextVm
    \/ setContextParam \/ doVmCreate \/ doVmDestroy
    \/ doSyncobjCreate(NoFence) \/ doSyncobjCreate({}) \/ doSyncobjDestroy \/ doSyncobjWait(TRUE)
    \/ doSyncobjWait(FALSE) \/ doSyncobjSignal \/ doSyncobjTransfer \/ doSyncobjToFd \/ doSyncobjFromFd
    \/ doPrimeToFd \/ doPrimeFromFd \/ exportPagesAsDmaBuf \/ dmaBufExportSyncFile(TRUE)
    \/ dmaBufExportSyncFile(FALSE) \/ dmaBufImportSyncFile \/ syncFileMerge \/ fdClose
    \/ resolveMmap \/ munmap \/ nodeClose

(***************************************************************************)
(* Properties                                                              *)
(***************************************************************************)
Pending == {r \in Requests : s.rq[r].st \in {"queued", "active"}}
Sleepers(o) == {i \in Threads : s.thread[i].object = o}
ExecHolds(o) == {<<i, j>> \in Threads \X (1..3) :
                    s.thread[i].exec # <<>> /\ j \in DOMAIN s.thread[i].exec[2] /\ s.thread[i].exec[2][j].object = o}
ObjectHolders(o) ==
    Cardinality({<<f, h>> \in Files \X Handles : s.file[f].handles[h] = o})
    + Cardinality({d \in DrmFds : s.fd[d].object = o})
    + Cardinality({<<v, b>> \in DrmVms \X (UNION {s.vm[w].binds : w \in DrmVms}) : b \in s.vm[v].binds /\ b.object = o})
    + Cardinality({<<r, u>> \in Pending \X (UNION {s.rq[q].uses : q \in Pending}) : u \in s.rq[r].uses /\ u.object = o})
    + Cardinality(Sleepers(o)) + Cardinality(ExecHolds(o)) + (IF s.mapped[o] THEN 1 ELSE 0)
VmHolders(v) ==
    Cardinality({c \in DrmContexts : s.ctx[c].vm = v})
    + Cardinality({<<f, n>> \in Files \X Handles : s.file[f].vmIds[n] = v})
    + Cardinality({f \in Files : s.file[f].defaultVm = v}) + Cardinality({i \in Threads : s.thread[i].vm = v})
SyncHolders(y) ==
    Cardinality({<<f, h>> \in Files \X Handles : s.file[f].syncs[h] = y})
    + Cardinality({d \in DrmFds : s.fd[d].sync = y})
    + Cardinality({<<i, j>> \in Threads \X (1..2) : j \in DOMAIN s.thread[i].syncs /\ s.thread[i].syncs[j].sync = y})

(* Every buffer object, address space and sync object has as many          *)
(* references as there are holders of it, so it is freed with the last     *)
(* one and not before: handles, descriptors, mappings, bindings, queued    *)
(* requests, contexts and the calls that sleep.                            *)
RefsMatch ==
    On => /\ \A o \in Objects : s.obj[o].refs = ObjectHolders(o)
          /\ \A v \in DrmVms : s.vm[v].refs = VmHolders(v)
          /\ \A y \in DrmSyncs : s.sync[y].refs = SyncHolders(y)

(* Until a request retires, its file, context and address space are there, *)
(* and every object it uses is bound where the batch expects it: no close, *)
(* eviction, change of caching or destroyed context takes it away first;   *)
(* nor does the file of a call that sleeps go.                             *)
QueuedStaysBound ==
    On => /\ \A r \in Pending :
                 /\ s.file[s.rq[r].file].open
                 /\ s.ctx[s.rq[r].context].pending > 0 /\ s.ctx[s.rq[r].context].vm = s.rq[r].vm
                 /\ \A u \in s.rq[r].uses : [object |-> u.object, va |-> u.va] \in s.vm[s.rq[r].vm].binds
          /\ \A i \in Threads : s.thread[i].file # 0 => s.file[s.thread[i].file].open

(* Two requests that run at the same time share an object only to read it. *)
WritersAlone ==
    On => \A r, q \in Pending :
              (r # q /\ s.rq[r].st = "active" /\ s.rq[q].st = "active")
              => \A u \in s.rq[r].uses, w \in s.rq[q].uses :
                     u.object = w.object => u.async \/ w.async \/ (~u.write /\ ~w.write)

(* While work is queued and nobody has claimed the engines, an engine      *)
(* runs: the dependencies of requests never wait for each other.           *)
GpuNeverStalls == On => (Pending # {} /\ ~s.claimed => \E e \in Engines : s.active[e] # 0)

(* A wait for a timeline point is over only when every point submitted up  *)
(* to it is, and the point a query reports is the last such one.           *)
TimelineHonest ==
    On => \A y \in DrmSyncs : s.sync[y].sub # {} =>
              /\ \A point \in 0..MaxPoint :
                     LET F == syncFenceFor(s, s.sync[y], point)
                     IN  F # NoFence /\ ~fenceBusy(s, F)
                         => \A q \in s.sync[y].sub : point = 0 \/ q.point <= point => ~fenceBusy(s, q.fence)
              /\ \A q \in s.sync[y].sub : fenceBusy(s, q.fence) => q.point > syncQuery(s, s.sync[y])
=============================================================================
