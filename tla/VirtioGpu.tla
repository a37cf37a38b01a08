------------------------------ MODULE VirtioGpu ------------------------------
(***************************************************************************)
(* The virtio GPU driver (src/graphics/virtio_gpu.cpp, drivers/virtio):    *)
(* commands travel through the control queue, one at a time under          *)
(* commandLock, and a sender that gives up leaves its descriptors and      *)
(* buffers to whoever drains the late answer.  On top of it the driver     *)
(* keeps records of the contexts and resources it created on the host.     *)
(*                                                                         *)
(* A call is a program: the commands it still has to send, each with what  *)
(* happens to the rest when it fails.                                      *)
(***************************************************************************)
EXTENDS Integers, Sequences, FiniteSets

CONSTANTS VgpuUses,             \* [calls, may]: what a behaviour exercises
          QueueDescs,           \* descriptors of the control queue
          MaxFenceWaiters, MaxTrackedContexts, MaxTrackedResources,
          MaxContextResources, MaxResourceContexts,
          LastContext, LastResource,    \* how many ids a behaviour hands out
          hostVisibleShmLength  \* pages of the window; a blob takes one
VARIABLE s

On == s.part = "virtiogpu"

Senders == {"kernel", "storage"}    \* "storage" flushes without the kernel lock
Contexts == 1 .. LastContext
Framebuffer == 1
Resources == 1 .. LastResource
NoWaiter == [used |-> FALSE]
NoRecord == [used |-> FALSE]
NewResource == [used |-> TRUE, backing |-> FALSE, mapped |-> FALSE, at |-> 0, bound |-> <<>>]
Gone == [exists |-> FALSE, guest |-> FALSE, mapped |-> FALSE]

Init ==
    \E u \in VgpuUses :
        s = [part |-> "virtiogpu", use |-> u, device |-> "reset", lock |-> "none",
             program |-> [i \in Senders |-> <<>>], waiting |-> [i \in Senders |-> 0],
             free |-> [i \in 1 .. QueueDescs |-> i], avail |-> <<>>, answers |-> <<>>,
             waiter |-> [i \in 1 .. MaxFenceWaiters |-> NoWaiter],
             dma |-> {}, ctx |-> 1, res |-> 2, window |-> 0,
             context |-> [c \in Contexts |-> NoRecord],
             resource |-> [r \in Resources |-> NoRecord],
             memory |-> [r \in Resources |-> "none"],
             hostCtx |-> [c \in Contexts |-> [exists |-> FALSE, attached |-> {}]],
             hostRes |-> [r \in Resources |-> Gone],
             timedOut |-> FALSE, unclean |-> FALSE, overLimit |-> FALSE]

May(what) == what \in s.use.may
Step(cmd, c, r, fail) == [cmd |-> cmd, c |-> c, r |-> r, fail |-> fail]

-----------------------------------------------------------------------------
(* The records of contexts and resources.                                  *)

Tracked(records) == {i \in DOMAIN records : records[i].used}
Without(list, x) == SelectSeq(list, LAMBDA y : y # x)
Holds(list, x) == \E i \in DOMAIN list : list[i] = x

ensureContextRecord(t, c) ==
    IF t.context[c].used \/ Cardinality(Tracked(t.context)) = MaxTrackedContexts
      THEN t
      ELSE [t EXCEPT !.context[c] = [used |-> TRUE, attached |-> <<>>]]

ensureResourceRecord(t, r) ==
    IF t.resource[r].used \/ Cardinality(Tracked(t.resource)) = MaxTrackedResources
      THEN t
      ELSE [t EXCEPT !.resource[r] = NewResource]

unbindResourceFromContextRecord(t, c, r) ==
    [t EXCEPT !.context[c] = IF @.used THEN [@ EXCEPT !.attached = Without(@, r)] ELSE @,
              !.resource[r] = IF @.used THEN [@ EXCEPT !.bound = Without(@, c)] ELSE @]

bindResourceToContextRecord(t, c, r) ==
    IF ~t.context[c].used \/ ~t.resource[r].used \/ Holds(t.context[c].attached, r)
      THEN t
      ELSE IF \/ Len(t.context[c].attached) >= MaxContextResources
              \/ Len(t.resource[r].bound) >= MaxResourceContexts
        THEN [t EXCEPT !.overLimit = TRUE]
        ELSE [t EXCEPT !.context[c].attached = Append(@, r),
                       !.resource[r].bound = Append(@, c)]

releaseContextRecord(t, c) ==
    [t EXCEPT !.context[c] = NoRecord,
              !.resource = [r \in Resources |->
                  IF t.resource[r].used
                    THEN [t.resource[r] EXCEPT !.bound = Without(@, c)]
                    ELSE t.resource[r]]]

releaseResourceRecord(t, r) ==
    [t EXCEPT !.resource[r] = NoRecord,
              !.context = [c \in Contexts |->
                  IF t.context[c].used
                    THEN [t.context[c] EXCEPT !.attached = Without(@, r)]
                    ELSE t.context[c]]]

-----------------------------------------------------------------------------
(* What a call notes down once the host has accepted its command.          *)

Recorded(t, p) ==
    CASE p.cmd = "ctx_create" -> ensureContextRecord(t, p.c)
      [] p.cmd = "ctx_destroy" -> releaseContextRecord(t, p.c)
      [] p.cmd = "ctx_attach" -> bindResourceToContextRecord(ensureResourceRecord(t, p.r), p.c, p.r)
      [] p.cmd = "ctx_detach" -> unbindResourceFromContextRecord(t, p.c, p.r)
      [] p.cmd \in {"create_2d", "create_3d", "create_blob", "assign_uuid"} ->
             ensureResourceRecord(t, p.r)
      [] p.cmd = "create_guest_blob" ->
             LET u == ensureResourceRecord(t, p.r)
             IN  IF u.resource[p.r].used THEN [u EXCEPT !.resource[p.r].backing = TRUE] ELSE u
      [] p.cmd = "attach_backing" ->
             LET u == ensureResourceRecord(t, p.r)
             IN  IF u.resource[p.r].used THEN [u EXCEPT !.resource[p.r].backing = TRUE] ELSE u
      [] p.cmd = "detach_backing" ->
             IF t.resource[p.r].used THEN [t EXCEPT !.resource[p.r].backing = FALSE] ELSE t
      [] p.cmd = "map_blob" ->
             [t EXCEPT !.resource[p.r].mapped = TRUE, !.resource[p.r].at = t.window - 1]
      [] p.cmd = "unmap_blob" ->
             [t EXCEPT !.resource[p.r].mapped = FALSE, !.resource[p.r].at = 0]
      [] p.cmd = "unref" -> releaseResourceRecord(t, p.r)
      [] OTHER -> t

(* A call whose object the host made but whose record finds no slot, or    *)
(* whose binding is over the limit, fails all the same.                    *)
Unrecorded(t, p) ==
    CASE p.cmd = "ctx_create" -> ~t.context[p.c].used
      [] p.cmd = "ctx_attach" -> ~Holds(t.context[p.c].attached, p.r)
      [] p.cmd \in {"create_2d", "create_3d", "create_blob", "create_guest_blob",
                    "attach_backing"} -> ~t.resource[p.r].used
      [] OTHER -> FALSE

(* What a creating call sends to take back an object it cannot record.     *)
TakeBack(p) ==
    CASE p.cmd = "ctx_create" -> <<Step("ctx_destroy", p.c, 0, "go")>>
      [] p.cmd \in {"create_2d", "create_3d", "create_blob", "create_guest_blob"} ->
             <<Step("unref", 0, p.r, "go")>>
      [] OTHER -> <<>>

destroyFramebufferResource ==
    <<Step("detach_backing", 0, Framebuffer, "go"), Step("unref", 0, Framebuffer, "go")>>

(* What is left to do when a command of a program fails.                   *)
Failed(p, rest) ==
    CASE p.fail = "go" -> rest
      [] p.fail = "again" -> <<p>> \o rest
      [] p.fail = "unref" -> <<Step("unref", 0, p.r, "stop")>>
      [] p.fail = "free" -> <<Step("free", 0, p.r, "stop")>>
      [] p.fail = "framebuffer" ->
             destroyFramebufferResource \o <<Step("free", 0, Framebuffer, "stop")>>
      [] p.fail = "probe" ->
             <<Step("submit", p.c, 0, "go"), Step("ctx_destroy", p.c, 0, "go")>>
      [] OTHER -> <<>>

(* Commands that a call refuses to send: no record of the context, no      *)
(* record of the blob, nothing mapped, or no room left in the window.      *)
Refused(t, p) ==
    \/ p.cmd \in {"ctx_attach", "ctx_detach", "submit"} /\ ~t.context[p.c].used
    \/ p.cmd \in {"create_3d", "create_blob"} /\ p.c # 0 /\ ~t.context[p.c].used
    \/ p.cmd = "unmap_blob" /\ (~t.resource[p.r].used \/ ~t.resource[p.r].mapped)
    \/ p.cmd = "map_blob" /\ (~t.resource[p.r].used \/ t.window >= hostVisibleShmLength)

(* Ids and window space are handed out before the command is sent.         *)
Allotted(t, p) ==
    CASE p.cmd = "ctx_create" -> [t EXCEPT !.ctx = @ + 1]
      [] p.cmd \in {"create_3d", "create_blob", "create_guest_blob"} -> [t EXCEPT !.res = @ + 1]
      [] p.cmd = "map_blob" -> [t EXCEPT !.window = @ + 1]
      [] OTHER -> t

(* releaseFramebufferMemory, or the frames of a blob that was not created. *)
Freed(t, r) == [t EXCEPT !.memory[r] = "freed"]

Cleanup == {"detach_backing", "unref", "ctx_destroy"}
FailStep(t, i) ==
    [t EXCEPT !.program[i] = Failed(Head(@), Tail(@)),
              !.unclean = @ \/ Head(t.program[i]).cmd \in Cleanup]

(* The end of sendCommand in its caller: a good response is recorded.      *)
Answered(t, i, ok) ==
    LET p == Head(t.program[i])
    IN  IF ~ok THEN FailStep(t, i)
        ELSE LET u == Recorded(t, p)
             IN  [u EXCEPT !.program[i] =
                     IF Unrecorded(u, p) THEN TakeBack(p) \o Failed(p, Tail(@)) ELSE Tail(@)]

-----------------------------------------------------------------------------
(* The host: it executes commands in order and answers each.               *)

HostAccepts(t, p) ==
    CASE p.cmd = "ctx_create" -> ~t.hostCtx[p.c].exists
      [] p.cmd \in {"ctx_destroy", "submit"} -> t.hostCtx[p.c].exists
      [] p.cmd \in {"ctx_attach", "ctx_detach"} -> t.hostCtx[p.c].exists /\ t.hostRes[p.r].exists
      [] p.cmd \in {"create_2d", "create_3d", "create_blob", "create_guest_blob"} ->
             ~t.hostRes[p.r].exists
      [] p.cmd = "map_blob" -> t.hostRes[p.r].exists /\ ~t.hostRes[p.r].mapped
      [] p.cmd = "unmap_blob" -> t.hostRes[p.r].exists /\ t.hostRes[p.r].mapped
      [] p.cmd \in {"attach_backing", "detach_backing", "unref", "scanout", "transfer", "flush",
                    "assign_uuid"} -> t.hostRes[p.r].exists
      [] OTHER -> TRUE

HostDoes(t, p) ==
    CASE p.cmd = "ctx_create" -> [t EXCEPT !.hostCtx[p.c].exists = TRUE]
      [] p.cmd = "ctx_destroy" -> [t EXCEPT !.hostCtx[p.c] = [exists |-> FALSE, attached |-> {}]]
      [] p.cmd = "ctx_attach" -> [t EXCEPT !.hostCtx[p.c].attached = @ \union {p.r}]
      [] p.cmd = "ctx_detach" -> [t EXCEPT !.hostCtx[p.c].attached = @ \ {p.r}]
      [] p.cmd \in {"create_2d", "create_3d", "create_blob"} ->
             [t EXCEPT !.hostRes[p.r].exists = TRUE]
      [] p.cmd = "create_guest_blob" ->
             [t EXCEPT !.hostRes[p.r] = [exists |-> TRUE, guest |-> TRUE, mapped |-> FALSE]]
      [] p.cmd = "attach_backing" -> [t EXCEPT !.hostRes[p.r].guest = TRUE]
      [] p.cmd = "detach_backing" -> [t EXCEPT !.hostRes[p.r].guest = FALSE]
      [] p.cmd = "map_blob" -> [t EXCEPT !.hostRes[p.r].mapped = TRUE]
      [] p.cmd = "unmap_blob" -> [t EXCEPT !.hostRes[p.r].mapped = FALSE]
      [] p.cmd = "unref" ->
             [t EXCEPT !.hostRes[p.r] = Gone,
                       !.hostCtx = [c \in Contexts |->
                                       [t.hostCtx[c] EXCEPT !.attached = @ \ {p.r}]]]
      [] OTHER -> t

HostExecutes ==
    /\ On /\ s.avail # <<>>
    /\ LET a == Head(s.avail)
           t == [s EXCEPT !.avail = Tail(@)]
       IN  \E ok \in IF May("host_error") THEN BOOLEAN ELSE {TRUE} :
              s' = IF ok /\ HostAccepts(t, a.step)
                     THEN [HostDoes(t, a.step) EXCEPT
                             !.answers = Append(@, [id |-> a.head, fence |-> a.fence, ok |-> TRUE])]
                     ELSE [t EXCEPT
                             !.answers = Append(@, [id |-> a.head, fence |-> a.fence, ok |-> FALSE])]

-----------------------------------------------------------------------------
(* The control queue.                                                      *)

allocDesc(t) == [t EXCEPT !.free = Tail(@)]
freeDesc(t, d) == [t EXCEPT !.free = <<d>> \o @]

allocateFenceWaiter(t) ==
    {i \in DOMAIN t.waiter : ~t.waiter[i].used /\ \A j \in DOMAIN t.waiter : j < i => t.waiter[j].used}

releaseFenceWaiter(t, i) == [t EXCEPT !.waiter[i] = NoWaiter]

(* An abandoned command is over: its descriptors and buffers come back.    *)
Reclaimed(t, i) ==
    [releaseFenceWaiter(freeDesc(freeDesc(t, t.waiter[i].tail), t.waiter[i].head), i)
       EXCEPT !.dma = @ \ {t.waiter[i].fence}]


Matched(t, a) == {i \in DOMAIN t.waiter : t.waiter[i].used /\ t.waiter[i].head = a.id}

Finish(t, a, i) ==
    IF t.waiter[i].abandoned
      THEN Reclaimed(t, i)
      ELSE [t EXCEPT !.waiter[i].completed = TRUE,
                     !.waiter[i].transportOk = a.fence = t.waiter[i].fence,
                     !.waiter[i].responseOk = a.ok]

RECURSIVE drainControlQueueLocked(_)
drainControlQueueLocked(t) ==
    IF t.answers = <<>> THEN t
    ELSE LET a == Head(t.answers)
             u == [t EXCEPT !.answers = Tail(@)]
         IN  IF Matched(u, a) = {} THEN drainControlQueueLocked(u)
             ELSE drainControlQueueLocked(Finish(u, a, CHOOSE i \in Matched(u, a) : TRUE))

Sends(p) == p.cmd \notin {"free", "frames"}

(* A fence id no outstanding command has; the driver counts 64 bits up.    *)
nextFenceId(t) ==
    CHOOSE f \in 1 .. MaxFenceWaiters + 1 : f \notin t.dma /\ \A g \in 1 .. f - 1 : g \in t.dma

(* sendCommand up to the notification of the device.  Without a waiter,    *)
(* descriptors or memory for the buffers it fails and gives all back.      *)
Post(t, i, w, fence) ==
    LET u == allocDesc(allocDesc(t))
    IN  [u EXCEPT !.lock = i, !.waiting[i] = w, !.dma = @ \union {fence},
                  !.waiter[w] = [used |-> TRUE, head |-> t.free[1], tail |-> t.free[2],
                                 fence |-> fence, abandoned |-> FALSE, completed |-> FALSE,
                                 transportOk |-> FALSE, responseOk |-> FALSE],
                  !.avail = Append(@, [head |-> t.free[1], tail |-> t.free[2], fence |-> fence,
                                       step |-> Head(t.program[i])])]

sendCommand ==
    \E i \in (IF On /\ s.lock = "none" THEN Senders ELSE {}) :
        /\ s.program[i] # <<>> /\ Sends(Head(s.program[i]))
        /\ ~Refused(s, Head(s.program[i]))
        /\ LET t == Allotted(s, Head(s.program[i]))
           IN  \/ /\ Len(t.free) >= 2
                  /\ \E w \in allocateFenceWaiter(t) : s' = Post(t, i, w, nextFenceId(t))
               \/ /\ Len(t.free) < 2 \/ allocateFenceWaiter(t) = {} \/ May("no_memory")
                  /\ s' = FailStep(t, i)

(* A step of a call that sends nothing: a refused command, or memory that  *)
(* goes back to the frame allocator.                                       *)
Local ==
    \E i \in (IF On THEN Senders ELSE {}) :
        /\ s.program[i] # <<>> /\ s.waiting[i] = 0
        /\ \/ /\ Head(s.program[i]).cmd = "free"
              /\ s' = [Freed(s, Head(s.program[i]).r) EXCEPT !.program[i] = Tail(@)]
           \/ /\ Sends(Head(s.program[i])) /\ Refused(s, Head(s.program[i]))
              /\ s' = FailStep(s, i)

(* awaitFence finds its waiter completed: the rest of sendCommand.         *)
Completed(t, i, w) ==
    Answered([releaseFenceWaiter(freeDesc(freeDesc(t, t.waiter[w].tail), t.waiter[w].head), w)
                EXCEPT !.lock = "none", !.waiting[i] = 0, !.dma = @ \ {t.waiter[w].fence}],
             i, t.waiter[w].transportOk /\ t.waiter[w].responseOk)

Abandon(t, i, w) ==
    FailStep([t EXCEPT !.waiter[w].abandoned = TRUE, !.lock = "none", !.waiting[i] = 0,
                       !.timedOut = TRUE], i)

awaitFence ==
    \E i \in (IF On THEN Senders ELSE {}) :
        /\ s.waiting[i] # 0
        /\ LET t == drainControlQueueLocked(s)
               w == s.waiting[i]
           IN  \/ t.waiter[w].completed /\ s' = Completed(t, i, w)
               \/ ~t.waiter[w].completed /\ May("timeout") /\ s' = Abandon(t, i, w)

(* An interrupt drains the queue when no sender is inside.                 *)
handleInterrupt ==
    /\ On /\ s.lock = "none" /\ s.answers # <<>>
    /\ s' = drainControlQueueLocked(s)

-----------------------------------------------------------------------------
(* The calls.                                                              *)

Quiet == s.program["kernel"] = <<>> /\ s.waiting["kernel"] = 0
Calls(call) == On /\ call \in s.use.calls /\ s.device = "ok" /\ Quiet
Run(p) == s' = [s EXCEPT !.program["kernel"] = p]
RunWith(p, r) == s' = [s EXCEPT !.program["kernel"] = p, !.memory[r] = "held"]

(* initDevice: no usable capabilities, features or queues end it.          *)
initDevice ==
    /\ On /\ s.device = "reset"
    /\ \/ /\ May("bad_device")
          /\ s' = [s EXCEPT !.device = "failed"]
       \/ s' = [s EXCEPT !.device = "ok",
                         !.program["kernel"] =
                             <<Step("display_info", 0, 0, "go"), Step("frames", 0, 1, "stop")>>]

(* createResource, attachBacking, setScanout and the first flush.          *)
createResource ==
    /\ On /\ s.program["kernel"] # <<>> /\ s.waiting["kernel"] = 0
    /\ Head(s.program["kernel"]).cmd = "frames"
    /\ RunWith(<<Step("create_2d", 0, Framebuffer, "free"),
                 Step("attach_backing", 0, Framebuffer, "framebuffer"),
                 Step("scanout", 0, Framebuffer, "framebuffer"),
                 Step("transfer", 0, Framebuffer, "stop"),
                 Step("flush", 0, Framebuffer, "stop")>>, Framebuffer)

flush ==
    /\ On /\ "flush" \in s.use.calls /\ s.device = "ok"
    /\ s.program["storage"] = <<>> /\ s.waiting["storage"] = 0
    /\ s.memory[Framebuffer] = "held"
    /\ s' = [s EXCEPT !.program["storage"] =
                 <<Step("transfer", 0, Framebuffer, "stop"), Step("flush", 0, Framebuffer, "stop")>>]

createContext ==
    /\ Calls("context") /\ s.ctx <= LastContext
    /\ Run(<<Step("ctx_create", s.ctx, 0, "stop")>>)

destroyContext ==
    /\ Calls("context")
    /\ \E c \in Tracked(s.context) : Run(<<Step("ctx_destroy", c, 0, "stop")>>)

attachResourceToContext ==
    /\ Calls("attach")
    /\ \E c \in Tracked(s.context), r \in Tracked(s.resource) \ {Framebuffer} :
          Run(<<Step("ctx_attach", c, r, "stop")>>)

detachResourceFromContext ==
    /\ Calls("attach")
    /\ \E c \in Tracked(s.context), r \in Tracked(s.resource) \ {Framebuffer} :
          Run(<<Step("ctx_detach", c, r, "stop")>>)

createResource3D ==
    /\ Calls("3d") /\ s.res <= LastResource
    /\ \E c \in {0} \union Tracked(s.context) : Run(<<Step("create_3d", c, s.res, "stop")>>)

attachBacking ==
    /\ Calls("backing")
    /\ \E r \in Tracked(s.resource) \ {Framebuffer} :
          /\ s.memory[r] # "freed"
          /\ RunWith(<<Step("attach_backing", 0, r, "stop")>>, r)

allocateHostVisibleBlob ==
    /\ Calls("guest_blob") /\ s.res <= LastResource
    /\ RunWith(<<Step("create_guest_blob", 0, s.res, "free")>>, s.res)

allocateContextBlobWithId ==
    /\ Calls("blob") /\ s.res <= LastResource
    /\ \E c \in Tracked(s.context) :
          Run(<<Step("create_blob", c, s.res, "stop"), Step("map_blob", 0, s.res, "unref")>>)

mapBlobResource ==
    /\ Calls("map")
    /\ \E r \in Tracked(s.resource) \ {Framebuffer} :
          ~s.resource[r].mapped /\ Run(<<Step("map_blob", 0, r, "stop")>>)

unmapBlobResource ==
    /\ Calls("map")
    /\ \E r \in Tracked(s.resource) : Run(<<Step("unmap_blob", 0, r, "stop")>>)

(* Detach, unmap, take the backing away and drop the resource, each        *)
(* whatever became of the one before; the contexts bound to it are         *)
(* detached one by one, each until the host agrees.                        *)
Destroys(t, c, r) ==
    (IF c # 0 THEN <<Step("ctx_detach", c, r, "go")>>
     ELSE [i \in DOMAIN t.resource[r].bound |-> Step("ctx_detach", t.resource[r].bound[i], r, "again")])
    \o (IF t.resource[r].mapped THEN <<Step("unmap_blob", 0, r, "go")>> ELSE <<>>)
    \o (IF t.resource[r].backing THEN <<Step("detach_backing", 0, r, "go")>> ELSE <<>>)
    \o <<Step("unref", 0, r, "go")>>

destroyResource3D ==
    /\ Calls("destroy")
    /\ \E c \in {0} \union Tracked(s.context), r \in Tracked(s.resource) \ {Framebuffer} :
          Run(Destroys(s, c, r))

destroyContextWithResource ==
    /\ Calls("destroy_both")
    /\ \E c \in Tracked(s.context), r \in Tracked(s.resource) \ {Framebuffer} :
          Run(Destroys(s, c, r) \o <<Step("ctx_destroy", c, 0, "go")>>)

assignResourceUUID ==
    /\ Calls("uuid")
    /\ \E r \in Tracked(s.resource) : Run(<<Step("assign_uuid", 0, r, "stop")>>)

submit3D ==
    /\ Calls("submit")
    /\ \E c \in Tracked(s.context) : Run(<<Step("submit", c, 0, "stop")>>)

runVirglProbe ==
    /\ Calls("probe") /\ s.ctx <= LastContext /\ s.res <= LastResource
    /\ Run(<<Step("capset_info", 0, 0, "stop"), Step("capset", 0, 0, "stop"),
             Step("ctx_create", s.ctx, 0, "stop"),
             Step("create_3d", s.ctx, s.res, "probe"),
             Step("ctx_attach", s.ctx, s.res, "go"), Step("submit", s.ctx, 0, "go"),
             Step("ctx_detach", s.ctx, s.res, "go"), Step("unref", 0, s.res, "go"),
             Step("ctx_destroy", s.ctx, 0, "go")>>)

Next ==
    \/ initDevice \/ createResource \/ flush
    \/ createContext \/ destroyContext \/ attachResourceToContext \/ detachResourceFromContext
    \/ createResource3D \/ attachBacking \/ allocateHostVisibleBlob \/ allocateContextBlobWithId
    \/ mapBlobResource \/ unmapBlobResource \/ destroyResource3D \/ destroyContextWithResource
    \/ assignResourceUUID \/ submit3D \/ runVirglProbe
    \/ sendCommand \/ Local \/ awaitFence \/ handleInterrupt \/ HostExecutes

-----------------------------------------------------------------------------
Outstanding == {[head |-> s.avail[i].head, fence |-> s.avail[i].fence] : i \in DOMAIN s.avail}
               \union {[head |-> s.answers[i].id, fence |-> s.answers[i].fence] : i \in DOMAIN s.answers}
Busy == {i \in DOMAIN s.waiter : s.waiter[i].used}
Range(f) == {f[i] : i \in DOMAIN f}

(* Every descriptor is on the free list once or belongs to one waiter, and *)
(* what the device still holds, a command its sender gave up included, is  *)
(* neither free nor without its buffers; once the device holds nothing,    *)
(* nothing is missing.  (sendCommand's abandoned waiters,                  *)
(* drainControlQueueLocked.)                                               *)
DescriptorsOwned ==
    On =>
      /\ Cardinality(Range(s.free)) = Len(s.free)
      /\ Len(s.free) + 2 * Cardinality(Busy) = QueueDescs
      /\ \A i \in Busy : {s.waiter[i].head, s.waiter[i].tail} \cap Range(s.free) = {}
      /\ \A i, j \in Busy : i # j => s.waiter[i].head # s.waiter[j].head
      /\ \A o \in Outstanding :
            /\ o.fence \in s.dma
            /\ \E i \in Busy : s.waiter[i].head = o.head /\ s.waiter[i].fence = o.fence
      /\ Cardinality(Busy) = Cardinality(Outstanding)
            + Cardinality({i \in Busy : s.waiter[i].completed})

(* A context's list of resources and a resource's list of contexts name    *)
(* each other, whatever failed.                                            *)
BindingsMutual ==
    On => \A c \in Contexts, r \in Resources :
             (s.context[c].used /\ Holds(s.context[c].attached, r))
             <=> (s.resource[r].used /\ Holds(s.resource[r].bound, c))

(* No command has timed out, and none that takes an object away failed.    *)
Clean == ~s.timedOut /\ ~s.unclean

(* While all is clean, the records between two calls are the               *)
(* host's objects: contexts, resources, attachments (unless one was over   *)
(* the limit), mappings and backing.                                       *)
RecordsAreHosts ==
    (On /\ Clean /\ \A i \in Senders : s.program[i] = <<>>) =>
      /\ \A c \in Contexts :
            /\ s.context[c].used <=> s.hostCtx[c].exists
            /\ s.context[c].used =>
                  /\ Range(s.context[c].attached) \subseteq s.hostCtx[c].attached
                  /\ ~s.overLimit => s.hostCtx[c].attached \subseteq Range(s.context[c].attached)
      /\ \A r \in Resources :
            /\ s.resource[r].used <=> s.hostRes[r].exists
            /\ s.resource[r].used =>
                  /\ s.resource[r].mapped <=> s.hostRes[r].mapped
                  /\ s.resource[r].backing <=> s.hostRes[r].guest

(* The host is never left with guest memory the kernel has taken back, as  *)
(* long as all is clean; two mapped blobs have different places in the     *)
(* window.                                                                 *)
HostMemoryHeld ==
    On =>
      /\ Clean => \A r \in Resources : s.hostRes[r].guest => s.memory[r] = "held"
      /\ \A q, r \in Resources :
            (q # r /\ s.resource[q].used /\ s.resource[r].used
               /\ s.resource[q].mapped /\ s.resource[r].mapped)
            => s.resource[q].at # s.resource[r].at
=============================================================================
