------------------------------ MODULE IpcObjects ------------------------------
(***************************************************************************)
(* The kernel objects of the IPC manager (src/ipc/ipc.cpp) and what its    *)
(* functions do to them: shared memory, surfaces, windows, message queues, *)
(* services and pending requests.                                          *)
(*                                                                         *)
(* A state s is a record; a function of the manager is an operator from    *)
(* states to states, composed as the code calls it.  An object is a pair   *)
(* <<kind, number>>; the number stands for the address of the object and   *)
(* is used again once the object is deleted.  Sizes, formats, positions,   *)
(* titles and payloads are left out.                                       *)
(***************************************************************************)
EXTENDS Naturals, Sequences, FiniteSets, SequencesExt, FiniteSetsExt

CONSTANTS
    Pid,          \* processes; a number is never given out again
    None,         \* nullptr, and the empty slot
    NObject,      \* how many objects of a kind can exist at once
    NSlot,        \* MaxHandles
    MaxAddr,      \* how many regions an address space has room for
    MaxMessages,  \* messages in a queue
    MaxMappings,  \* mappings of a shared memory object
    MaxRetired,   \* MaxSurfaces, as the length of the two lists of retired pixels
    MaxPending    \* MaxPendingRequests

ASSUME IpcAssumption ==
    /\ None \notin Pid
    /\ {NObject, NSlot, MaxAddr, MaxMessages, MaxMappings, MaxRetired, MaxPending}
         \subseteq Nat \ {0}

Kind == {"file", "shm", "surface", "window", "queue", "service"}
Objects(kind) == {kind} \X (1 .. NObject)
Obj == UNION {Objects(kind) : kind \in Kind}
KindOf(o) == o[1]
Slot == 1 .. NSlot
Addr == 1 .. MaxAddr

\* The objects of a kind that are not allocated.  Shared memory lives as long
\* as its frames, everything else as long as it is referenced.
Unused(s, kind) == {o \in Objects(kind) : s.ref[o] = 0 /\ o \notin s.mem}
Fresh(s, kind) == CHOOSE o \in Unused(s, kind) :
                      \A other \in Unused(s, kind) : o[2] <= other[2]

Retain(s, o) == [s EXCEPT !.ref[o] = @ + 1]

(***************************************************************************)
(* Waiting.                                                                *)
(***************************************************************************)

\* wakeQueueWaiters, wakeAllBlockedProcesses: every sleeper looks again.
WakeAll(s) == [s EXCEPT !.asleep = {}]

(***************************************************************************)
(* SharedMemoryObject.                                                     *)
(***************************************************************************)

Mapped(s, m) == {p \in Pid : s.rec[m][p] # 0}

\* canDestroy and destroy: the frames are freed.
DestroyUnused(s, m) ==
    IF s.ref[m] = 0 /\ Mapped(s, m) = {} THEN [s EXCEPT !.mem = @ \ {m}] ELSE s

\* For TLC: the frames go when the last reference does, mapped or not.
ReleaseShmMapped(s, m) ==
    IF s.ref[m] = 1 THEN [s EXCEPT !.ref[m] = 0, !.mem = @ \ {m}]
    ELSE [s EXCEPT !.ref[m] = @ - 1]

ReleaseShm(s, m) == DestroyUnused([s EXCEPT !.ref[m] = @ - 1], m)

\* The next address reserveMmapRegion gives, and whether the process has room.
HasRoom(s, p) == s.base[p] <= MaxAddr

\* One mapping per process; the address is in rec afterwards, 0 on failure.
MapShm(s, m, p) ==
    IF s.rec[m][p] # 0 \/ Cardinality(Mapped(s, m)) >= MaxMappings THEN s
    ELSE [s EXCEPT !.rec[m][p] = s.base[p], !.pt[p][s.base[p]] = m,
                   !.base[p] = @ + 1]

UnmapShm(s, m, p) ==
    IF s.rec[m][p] = 0 THEN s
    ELSE DestroyUnused([s EXCEPT !.pt[p][s.rec[m][p]] = None, !.rec[m][p] = 0], m)

\* createSharedMemory: the object has one reference, its creator's.
CreateShm(s, m) == [s EXCEPT !.ref[m] = 1, !.mem = @ \cup {m}]

(***************************************************************************)
(* MessageQueueObject and ServiceObject.                                   *)
(***************************************************************************)

CreateQueue(s, q) == [s EXCEPT !.ref[q] = 1, !.msgs[q] = <<>>]

Full(s, q) == Len(s.msgs[q]) >= MaxMessages
Enqueue(s, q, msg) == IF Full(s, q) THEN s ELSE [s EXCEPT !.msgs[q] = Append(@, msg)]
Dequeue(s, q) == [s EXCEPT !.msgs[q] = Tail(@)]

\* forgetQueue looks for services of the queue, and finds none: a service
\* holds a reference to its queue.
ReleaseQueue(s, q) ==
    IF s.ref[q] = 1 THEN [s EXCEPT !.ref[q] = 0, !.msgs[q] = <<>>]
    ELSE [s EXCEPT !.ref[q] = @ - 1]

ReleaseService(s, v) ==
    IF s.ref[v] = 1
    THEN ReleaseQueue([s EXCEPT !.ref[v] = 0, !.svc[v] = None], s.svc[v].queue)
    ELSE [s EXCEPT !.ref[v] = @ - 1]

\* The services with a name: the entries of the table, at most one of which has
\* the name.
Named(s, name) == {v \in s.services : s.svc[v].name = name}

RegisterService(s, owner, name, q) ==
    LET v == Fresh(s, "service")
    IN  IF Named(s, name) # {} \/ Unused(s, "service") = {} THEN s
        ELSE Retain([s EXCEPT !.ref[v] = 1, !.services = @ \cup {v},
                              !.svc[v] = [name |-> name, owner |-> owner, queue |-> q]], q)

\* An event for a service is dropped when the service is missing or its queue
\* is full; 0 stands for every message that is not a request.
PostServiceEvent(s, name) ==
    IF \A v \in Named(s, name) : Full(s, s.svc[v].queue) THEN s
    ELSE WakeAll(Enqueue(s, s.svc[CHOOSE v \in Named(s, name) : TRUE].queue, 0))

(***************************************************************************)
(* Pending requests.                                                       *)
(***************************************************************************)

Requests(s, id) == {r \in s.requests : r.id = id}

\* nextRequestID and beginRequest; without room the identifier is lost.
BeginRequest(s, owner) ==
    LET counted == [s EXCEPT !.nextRequest = @ + 1]
    IN  IF Cardinality(s.requests) >= MaxPending THEN counted
        ELSE [counted EXCEPT !.requests =
                @ \cup {[id |-> s.nextRequest, owner |-> owner, done |-> FALSE]}]

CompleteRequest(s, id) ==
    [s EXCEPT !.requests = (@ \ Requests(s, id)) \cup
                              {[r EXCEPT !.done = TRUE] : r \in Requests(s, id)},
              !.asleep = @ \ {r.owner : r \in Requests(s, id)}]

(***************************************************************************)
(* Surfaces.  A surface's pixels are shared memory, or a GPU buffer: a     *)
(* dma-buf, which is a file.  The count of a file stands for its           *)
(* descriptor's references and for those that regions which map the        *)
(* dma-buf have to the same buffer.                                        *)
(***************************************************************************)

HasBuffer(s, f) == KindOf(s.surf[f].pixels) = "file"
InUse(s, f) == s.surf[f].attached > 0 \/ s.surf[f].pending

NewSurface(pixels) ==
    [pixels |-> pixels, pid |-> None, at |-> 0, attached |-> 0, pending |-> FALSE,
     unshown |-> FALSE, committed |-> FALSE]

\* createSurface: the reference of createSharedMemory passes to the surface.
CreateSurface(s, f, m) ==
    [CreateShm(s, m) EXCEPT !.ref[f] = 1, !.surf[f] = NewSurface(m)]

CreateBufferSurface(s, f, file) ==
    Retain([s EXCEPT !.ref[f] = 1, !.surf[f] = NewSurface(file)], file)

CloseFile(s, file) == [s EXCEPT !.ref[file] = @ - 1]

RetireBacking(s, m) ==
    IF Cardinality(s.retired) = MaxRetired THEN ReleaseShm(s, m)
    ELSE [s EXCEPT !.retired = @ \cup {m}]

RetireBuffer(s, file, pid, at) ==
    IF Len(s.retiredBuffers) = MaxRetired THEN CloseFile(s, file)
    ELSE [s EXCEPT !.retiredBuffers = Append(@, [file |-> file, pid |-> pid, at |-> at])]

\* For TLC: the pixels of a dead surface leave the compositor at once.
ReleaseSurfaceNow(s, f) ==
    LET dead == [s EXCEPT !.ref[f] = 0, !.surf[f] = None, !.drawn = @ \ {f}]
    IN  IF s.ref[f] > 1 THEN [s EXCEPT !.ref[f] = @ - 1]
        ELSE IF HasBuffer(s, f) THEN CloseFile(dead, s.surf[f].pixels)
        ELSE ReleaseShm(FoldSet(LAMBDA p, t : UnmapShm(t, s.surf[f].pixels, p), dead, Pid),
                        s.surf[f].pixels)

\* release and ~SurfaceObject.
ReleaseSurface(s, f) ==
    LET dead == [s EXCEPT !.ref[f] = 0, !.surf[f] = None, !.drawn = @ \ {f}]
    IN  IF s.ref[f] > 1 THEN [s EXCEPT !.ref[f] = @ - 1]
        ELSE IF HasBuffer(s, f)
        THEN RetireBuffer(dead, s.surf[f].pixels, s.surf[f].pid, s.surf[f].at)
        ELSE RetireBacking(dead, s.surf[f].pixels)

\* mapInto for the calling process p: a buffer is mapped for one process only.
MapSurface(s, f, p) ==
    IF ~HasBuffer(s, f) THEN MapShm(s, s.surf[f].pixels, p)
    ELSE IF s.surf[f].at # 0 THEN s
    ELSE Retain([s EXCEPT !.surf[f].at = s.base[p], !.surf[f].pid = p,
                          !.pt[p][s.base[p]] = s.surf[f].pixels, !.base[p] = @ + 1],
                s.surf[f].pixels)

\* The address mapInto returns in the state after it, 0 on failure.
SurfaceAddress(s, f, p) ==
    IF ~HasBuffer(s, f) THEN s.rec[s.surf[f].pixels][p]
    ELSE IF s.surf[f].pid = p THEN s.surf[f].at ELSE 0

AttachedTo(s, f) ==
    [s EXCEPT !.surf[f].attached = @ + 1, !.surf[f].unshown = HasBuffer(s, f)]

\* For TLC: a surface is free as soon as its window shows another.
DetachedAtOnce(s, f) == [s EXCEPT !.surf[f].attached = @ - 1]

DetachedFrom(s, f) ==
    [s EXCEPT !.surf[f].attached = @ - 1, !.surf[f].pending = TRUE]

\* unmapRangeOfCurrent: the region goes, and its reference to the buffer.
UnmapBuffer(s, p, at) == CloseFile([s EXCEPT !.pt[p][at] = None], s.pt[p][at])

\* The buffer of a retired surface is unmapped from the compositor p if it was
\* this compositor that had it mapped.
ReleaseRetiredBuffer(s, r, p) ==
    CloseFile(IF r.at # 0 /\ r.pid = p THEN UnmapBuffer(s, p, r.at) ELSE s, r.file)

\* The surfaces the window list of this moment frees or shows.
Listed(s) == {f \in Objects("surface") : s.ref[f] > 0 /\ InUse(s, f) /\ HasBuffer(s, f)}

MarkListed(s) ==
    [s EXCEPT !.surf = [f \in Objects("surface") |->
        IF f \in Listed(s)
        THEN [s.surf[f] EXCEPT !.pending = FALSE,
                               !.unshown = @ /\ s.surf[f].attached = 0]
        ELSE s.surf[f]]]

\* releaseRetiredSurfaces; waiters look again when a surface became free or
\* was shown for the first time.
ReleaseRetired(s, p) ==
    LET unmapped == FoldSet(LAMBDA m, t : ReleaseShm(UnmapShm(t, m, p), m), s, s.retired)
        closed == FoldSeq(LAMBDA r, t : ReleaseRetiredBuffer(t, r, p),
                          unmapped, s.retiredBuffers)
        listed == MarkListed([closed EXCEPT !.retired = {}, !.retiredBuffers = <<>>])
        freed == \E f \in Listed(s) : \/ ~InUse(listed, f)
                                      \/ s.surf[f].attached > 0 /\ s.surf[f].unshown
    IN  IF freed THEN WakeAll(listed) ELSE listed

(***************************************************************************)
(* Windows.  s.order holds the living windows from the bottom to the top.  *)
(***************************************************************************)

Windows(s) == ToSet(s.order)
Event(s, w) == Enqueue(s, s.win[w].queue, 0)

Visible(s) == {w \in Windows(s) : ~s.win[w].closed /\ ~s.win[w].minimized}
TopVisible(s) == Last(SelectSeq(s.order, LAMBDA w : w \in Visible(s)))

\* For TLC: the window that loses the focus is not told.
FocusWindowOnly(s, w) ==
    IF w \notin Windows(s) \/ s.win[w].closed THEN s
    ELSE WakeAll(Event([s EXCEPT !.win[w].focused = TRUE, !.win[w].minimized = FALSE,
                                 !.focus = w, !.order = Append(Remove(@, w), w)],
                       w))

FocusWindow(s, w) ==
    LET old == s.focus
        lost == IF old \in {None, w} THEN s
                ELSE Event([s EXCEPT !.win[old].focused = FALSE], old)
    IN  IF w \notin Windows(s) \/ s.win[w].closed THEN s
        ELSE WakeAll(Event([lost EXCEPT !.win[w].focused = TRUE, !.win[w].minimized = FALSE,
                                        !.focus = w,
                                        !.order = Append(Remove(@, w), w)],
                           w))

\* The focus leaves a window that is gone or hidden for the topmost visible one.
PassFocus(s, w) ==
    LET without == [s EXCEPT !.focus = None]
    IN  IF s.focus # w THEN s
        ELSE IF Visible(s) = {} THEN without
        ELSE FocusWindow(without, TopVisible(s))

\* createWindow: the reference of createQueue passes to the window.
CreateWindow(s, w, q) ==
    [CreateQueue(s, q) EXCEPT
        !.ref[w] = 1, !.order = Append(@, w),
        !.win[w] = [queue |-> q, surface |-> None, closed |-> FALSE,
                    minimized |-> FALSE, focused |-> FALSE]]

\* release, forgetWindow and ~WindowObject.
ReleaseWindow(s, w) ==
    LET forgotten == PassFocus([s EXCEPT !.order = Remove(@, w)], w)
        gone == [forgotten EXCEPT !.ref[w] = 0, !.win[w] = None]
        f == s.win[w].surface
    IN  IF s.ref[w] > 1 THEN [s EXCEPT !.ref[w] = @ - 1]
        ELSE ReleaseQueue(IF f = None THEN gone ELSE ReleaseSurface(DetachedFrom(gone, f), f),
                          s.win[w].queue)

AttachSurface(s, w, f) ==
    LET old == s.win[w].surface
        held == AttachedTo(Retain(s, f), f)
        shown == [held EXCEPT !.win[w].surface = f]
    IN  IF old = f THEN s
        ELSE IF old = None THEN shown ELSE ReleaseSurface(DetachedFrom(shown, old), old)

\* An event about a window that is still open: moveWindow, resizeWindow and
\* postEventToWindow differ in the event, and in that the last wakes nobody
\* when the queue is full.
MoveWindow(s, w) ==
    IF w \notin Windows(s) \/ s.win[w].closed THEN s ELSE WakeAll(Event(s, w))
ResizeWindow(s, w) ==
    IF w \notin Windows(s) \/ s.win[w].closed THEN s ELSE WakeAll(Event(s, w))
PostEventToWindow(s, w) ==
    IF w \notin Windows(s) \/ s.win[w].closed \/ Full(s, s.win[w].queue) THEN s
    ELSE WakeAll(Event(s, w))

\* WindowObject::control.  Maximize shows the window like Restore does.
Control(s, w, action) ==
    IF action = "close"
    THEN [s EXCEPT !.win[w].closed = TRUE, !.win[w].focused = FALSE, !.win[w].minimized = FALSE]
    ELSE IF s.win[w].closed THEN s
    ELSE IF action = "minimize"
    THEN [s EXCEPT !.win[w].minimized = TRUE, !.win[w].focused = FALSE]
    ELSE [s EXCEPT !.win[w].minimized = FALSE]

\* Only a minimized window passes the focus on; a closed one keeps it until a
\* key is pressed or its handles are closed.
ControlWindow(s, w, action) ==
    LET told == Event(Control(s, w, action), w)
    IN  IF w \notin Windows(s) THEN s
        ELSE WakeAll(IF action = "minimize" THEN PassFocus(told, w) ELSE told)

\* postEventToFocusedWindow, for a key.
PostKey(s) ==
    LET takes(w) == w # None /\ ~s.win[w].closed /\ ~s.win[w].minimized
        target == IF takes(s.focus) THEN s.focus ELSE TopVisible(s)
        focused == IF s.focus = target THEN s ELSE FocusWindow(s, target)
    IN  IF ~takes(s.focus) /\ Visible(s) = {} THEN s
        ELSE IF Full(focused, s.win[target].queue) THEN focused
        ELSE WakeAll(Event(focused, target))

(***************************************************************************)
(* What the release function of a handle does, and the clean-up of a       *)
(* process.                                                                *)
(***************************************************************************)

ReleaseObject(s, o) ==
    CASE KindOf(o) = "file" -> CloseFile(s, o)
      [] KindOf(o) = "shm" -> ReleaseShm(s, o)
      [] KindOf(o) = "surface" -> ReleaseSurface(s, o)
      [] KindOf(o) = "window" -> ReleaseWindow(s, o)
      [] KindOf(o) = "queue" -> ReleaseQueue(s, o)
      [] KindOf(o) = "service" -> ReleaseService(s, o)

\* For TLC: the services of a dead process are deleted, referenced or not.
CleanupDeletesServices(s, p) ==
    LET unmapped == FoldSet(LAMBDA m, t : UnmapShm(t, m, p), s, Objects("shm"))
        own == {v \in s.services : s.svc[v].owner = p}
        deleted == FoldSet(LAMBDA v, t : ReleaseQueue([t EXCEPT !.ref[v] = 0], s.svc[v].queue),
                           unmapped, own)
    IN  [deleted EXCEPT !.services = @ \ own, !.requests = {r \in @ : r.owner # p}]

CleanupProcess(s, p) ==
    LET unmapped == FoldSet(LAMBDA m, t : UnmapShm(t, m, p), s, Objects("shm"))
        own == {v \in s.services : s.svc[v].owner = p}
        released == FoldSet(LAMBDA v, t : ReleaseService(t, v), unmapped, own)
    IN  [released EXCEPT !.services = @ \ own, !.requests = {r \in @ : r.owner # p}]

===============================================================================
