--------------------------------- MODULE Ipc ---------------------------------
(***************************************************************************)
(* Handle tables (src/cpu/process/handles.cpp), the system calls on IPC    *)
(* objects (src/cpu/syscall/ipc.cpp), and what fork, spawn, exec and exit  *)
(* do to handles and mappings.  A system call runs under the kernel lock   *)
(* from its entry to its return or to its next sleep, so that stretch is   *)
(* one action; `wait' says where a sleeping call goes on.  Processes have  *)
(* one thread.  Rights are left out: every handle here has those its calls *)
(* ask for.                                                                *)
(***************************************************************************)
EXTENDS IpcObjects

CONSTANTS
    Programs,          \* what the processes of a behaviour may do: records of
                       \*   start     the processes there are in the beginning
                       \*   children  those that fork and spawn may make
                       \*   calls     the system calls each process makes
                       \*   pool      how many objects of a kind they have at once
                       \*   slots     how many handles a process has at once
    ForkWhileMapped,   \* whether they fork or exec with shared memory mapped
    MaxRequest         \* how many requests are made

VARIABLES
    s,         \* the state of the kernel
    program    \* what the processes do

vars == <<s, program>>

Compositor == "graphics.compositor"

Init ==
    /\ program \in Programs
    /\ s = [proc |-> [p \in Pid |-> IF p \in program.start THEN "run" ELSE "none"],
            wait |-> [p \in Pid |-> None],
            asleep |-> {},
            tab |-> [p \in Pid |-> [i \in Slot |-> None]],
            pt |-> [p \in Pid |-> [a \in Addr |-> None]],
            base |-> [p \in Pid |-> 1],
            ref |-> [o \in Obj |-> 0],
            mem |-> {},
            rec |-> [m \in Objects("shm") |-> [p \in Pid |-> 0]],
            surf |-> [f \in Objects("surface") |-> None],
            win |-> [w \in Objects("window") |-> None],
            svc |-> [v \in Objects("service") |-> None],
            msgs |-> [q \in Objects("queue") |-> <<>>],
            order |-> <<>>, focus |-> None,
            retired |-> {}, retiredBuffers |-> <<>>,
            services |-> {}, requests |-> {}, nextRequest |-> 1,
            kept |-> [f \in Objects("surface") |-> 0],
            drawn |-> {}, known |-> {}]

(***************************************************************************)
(* HandleTable.                                                            *)
(***************************************************************************)

Open(p) == {i \in Slot : s.tab[p][i] # None}
Holds(p, i, kind) == i \in Open(p) /\ KindOf(s.tab[p][i].obj) = kind
Entry(o) == [obj |-> o, cx |-> FALSE]

\* allocate, with what its callers do when the table is full: the reference the
\* handle would have had is dropped.
Allocate(t, p, o) ==
    LET free == {i \in 1 .. program.slots : t.tab[p][i] = None}
    IN  IF free = {} THEN ReleaseObject(t, o) ELSE [t EXCEPT !.tab[p][Min(free)] = Entry(o)]

\* close.
CloseHandle(t, p, i) == ReleaseObject([t EXCEPT !.tab[p][i] = None], t.tab[p][i].obj)

\* closeAll, closeAllFiles and closeOnExecHandles, in the order of the slots.
CloseSlots(t, p, slots) ==
    FoldLeft(LAMBDA u, i : IF i \in slots THEN CloseHandle(u, p, i) ELSE u,
             t, [i \in Slot |-> i])

CloseAll(t, p) == CloseSlots(t, p, {i \in Slot : t.tab[p][i] # None})
CloseAllFiles(t, p) ==
    CloseSlots(t, p, {i \in Slot : t.tab[p][i] # None /\ KindOf(t.tab[p][i].obj) = "file"})
CloseOnExecHandles(t, p) ==
    CloseSlots(t, p, {i \in Slot : t.tab[p][i] # None /\ t.tab[p][i].cx})

\* For TLC: the copies are not counted.
CloneHandlesUncounted(t, from, to, filesOnly) ==
    [t EXCEPT !.tab[to] = t.tab[from]]

\* cloneFrom into an empty table: all handles for fork; for spawn the files that
\* are not closed on exec.
CloneHandles(t, from, to, filesOnly) ==
    LET kept == {i \in Slot : /\ t.tab[from][i] # None
                              /\ filesOnly => /\ KindOf(t.tab[from][i].obj) = "file"
                                              /\ ~t.tab[from][i].cx}
        counted == FoldSet(LAMBDA i, u : Retain(u, t.tab[from][i].obj), t, kept)
    IN  [counted EXCEPT !.tab[to] =
            [i \in Slot |-> IF i \in kept THEN t.tab[from][i] ELSE None]]

(***************************************************************************)
(* The frame of a system call.                                             *)
(***************************************************************************)

Calls(p, call) == s.proc[p] = "run" /\ s.wait[p] = None /\ call \in program.calls[p]

\* Whether another object of the kind may be made.
Room(kind) == \E o \in Unused(s, kind) : o[2] <= program.pool[kind]

Becomes(t) == s' = t /\ UNCHANGED program

\* The current process sleeps, to go on as w says.
Sleep(t, p, w) == [t EXCEPT !.wait[p] = w, !.asleep = @ \cup {p}]
Returns(t, p) == [t EXCEPT !.wait[p] = None]

Resumes(p, op) == /\ s.wait[p] # None
                  /\ s.wait[p].op = op
                  /\ p \notin s.asleep

(***************************************************************************)
(* Files and handles.                                                      *)
(***************************************************************************)

\* A file, or the dma-buf of a GPU buffer.
OpenFile(p) ==
    /\ Calls(p, "open")
    /\ Room("file")
    /\ Becomes(Allocate(Retain(s, Fresh(s, "file")), p, Fresh(s, "file")))

Close(p) ==
    /\ Calls(p, "close")
    /\ \E i \in Open(p) : Becomes(CloseHandle(s, p, i))

Dup(p) ==
    /\ Calls(p, "dup")
    /\ \E i \in Open(p) :
           Becomes(Allocate(Retain(s, s.tab[p][i].obj), p, s.tab[p][i].obj))

\* duplicateTo: the handle in the new slot is closed only if it is of the same
\* kind as the new handle, and overwritten in any case.
Dup2(p) ==
    /\ Calls(p, "dup2")
    /\ \E i \in Open(p) : \E j \in (1 .. program.slots) \ {i} :
           LET o == s.tab[p][i].obj
               held == Retain(s, o)
               closed == IF Holds(p, j, KindOf(o)) THEN CloseHandle(held, p, j) ELSE held
           IN  Becomes([closed EXCEPT !.tab[p][j] = Entry(o)])

SetCloseOnExec(p) ==
    /\ Calls(p, "cloexec")
    /\ \E i \in Open(p) : Becomes([s EXCEPT !.tab[p][i].cx = ~@])

(***************************************************************************)
(* Processes.                                                              *)
(***************************************************************************)

MappedBuffers(t, p) == {a \in Addr : t.pt[p][a] # None /\ KindOf(t.pt[p][a]) = "file"}
MayCopySpace(p) == ForkWhileMapped \/ \A a \in Addr : s.pt[p][a] = None

\* FreeAddressSpace and the release of the regions: what shared memory the
\* space maps is not touched, the buffers lose a reference.
FreeSpace(t, p) ==
    LET released == FoldSet(LAMBDA a, u : CloseFile(u, t.pt[p][a]), t, MappedBuffers(t, p))
    IN  [released EXCEPT !.pt[p] = [a \in Addr |-> None]]

\* The child's pages are the parent's; its mmap base starts anew, and the shared
\* memory objects know nothing of its mappings.
Fork(p) ==
    /\ Calls(p, "fork")
    /\ MayCopySpace(p)
    /\ \E c \in program.children :
           /\ s.proc[c] = "none"
           /\ LET copied == FoldSet(LAMBDA a, u : Retain(u, s.pt[p][a]),
                                    [s EXCEPT !.pt[c] = s.pt[p], !.proc[c] = "run"],
                                    MappedBuffers(s, p))
              IN  Becomes(CloneHandles(copied, p, c, FALSE))

Spawn(p) ==
    /\ Calls(p, "spawn")
    /\ \E c \in program.children :
           /\ s.proc[c] = "none"
           /\ Becomes(CloneHandles([s EXCEPT !.proc[c] = "run"], p, c, TRUE))

\* The new image's address space is swapped in, and the old one freed with the
\* process object that carried the new one; the mapping records stay.
Exec(p) ==
    /\ Calls(p, "exec")
    /\ MayCopySpace(p)
    /\ Becomes([FreeSpace(CloseOnExecHandles(s, p), p) EXCEPT
                    !.base[p] = 1, !.known = {k \in @ : k.pid # p}])

\* exit, or death by a signal, also in the middle of a sleeping call: files are
\* closed at once, the rest when the process is waited for.
Die(p) ==
    /\ s.proc[p] = "run"
    /\ "die" \in program.calls[p]
    /\ Becomes([CloseAllFiles(s, p) EXCEPT !.proc[p] = "zombie", !.wait[p] = None,
                                           !.asleep = @ \ {p},
                                           !.known = {k \in @ : k.pid # p}])

\* ~Process.
Reap(p) ==
    /\ s.proc[p] = "zombie"
    /\ Becomes([FreeSpace(CloseAll(CleanupProcess(s, p), p), p) EXCEPT !.proc[p] = "gone"])

(***************************************************************************)
(* Shared memory and surfaces.                                             *)
(***************************************************************************)

SharedAlloc(p) ==
    /\ Calls(p, "shared_alloc")
    /\ Room("shm")
    /\ Becomes(Allocate(CreateShm(s, Fresh(s, "shm")), p, Fresh(s, "shm")))

\* sys_shared_map, and sys_surface_map for a surface.
SharedMap(p) ==
    /\ Calls(p, "shared_map")
    /\ HasRoom(s, p)
    /\ \E i \in Open(p) :
           \/ Holds(p, i, "shm") /\ Becomes(MapShm(s, s.tab[p][i].obj, p))
           \/ Holds(p, i, "surface") /\ Becomes(MapSurface(s, s.tab[p][i].obj, p))

\* A surface's buffer stays mapped.
SharedFree(p) ==
    /\ Calls(p, "shared_free")
    /\ \E i \in Open(p) :
           LET o == s.tab[p][i].obj
               m == IF KindOf(o) = "surface" THEN s.surf[o].pixels ELSE o
           IN  /\ KindOf(o) \in {"shm", "surface"}
               /\ Becomes(CloseHandle(IF KindOf(m) = "shm" THEN UnmapShm(s, m, p) ELSE s, p, i))

SurfaceCreate(p) ==
    /\ Calls(p, "surface_create")
    /\ Room("surface") /\ Room("shm")
    /\ LET f == Fresh(s, "surface")
       IN  Becomes(Allocate(CreateSurface(s, f, Fresh(s, "shm")), p, f))

SurfaceFromBuffer(p) ==
    /\ Calls(p, "surface_from_buffer")
    /\ Room("surface")
    /\ \E i \in Open(p) :
           LET f == Fresh(s, "surface")
           IN  /\ Holds(p, i, "file")
               /\ Becomes(Allocate(CreateBufferSurface(s, f, s.tab[p][i].obj), p, f))

\* The loop of sys_surface_wait_idle, from its test to its return or sleep.
WaitIdle(t, p, f) ==
    IF InUse(t, f) THEN Sleep(t, p, [op |-> "idle", surface |-> f])
    ELSE ReleaseSurface([Returns(t, p) EXCEPT !.kept[f] = @ - 1], f)

\* The call keeps a reference while it sleeps.
SurfaceWaitIdle(p) ==
    /\ Calls(p, "wait_idle")
    /\ \E i \in Open(p) :
           LET f == s.tab[p][i].obj
           IN  /\ Holds(p, i, "surface")
               /\ Becomes(WaitIdle(Retain([s EXCEPT !.kept[f] = @ + 1], f), p, f))

ResumeWaitIdle(p) ==
    /\ Resumes(p, "idle")
    /\ Becomes(WaitIdle(s, p, s.wait[p].surface))

\* The deadline passes, or a signal comes.
WaitIdleEnds(p) ==
    /\ s.wait[p] # None
    /\ s.wait[p].op = "idle"
    /\ LET f == s.wait[p].surface
       IN  Becomes(ReleaseSurface([Returns(s, p) EXCEPT !.kept[f] = @ - 1,
                                                        !.asleep = @ \ {p}], f))

\* The wait for the GPU is left out.
SurfaceCommit(p) ==
    /\ Calls(p, "surface_commit")
    /\ \E i \in Open(p) :
           /\ Holds(p, i, "surface")
           /\ Becomes(WakeAll(PostServiceEvent(
                  [s EXCEPT !.surf[s.tab[p][i].obj].committed = TRUE], Compositor)))

\* One of the committed surfaces; the compositor knows its pixels by the address
\* from here on.
SurfacePoll(p) ==
    /\ Calls(p, "surface_poll")
    /\ HasRoom(s, p)
    /\ \E f \in Objects("surface") :
           LET mapped == MapSurface([s EXCEPT !.surf[f].committed = FALSE], f, p)
               at == SurfaceAddress(mapped, f, p)
               learns == {k \in {[pid |-> p, at |-> at, surface |-> f,
                                  pixels |-> s.surf[f].pixels]} : at # 0}
           IN  /\ s.ref[f] > 0 /\ s.surf[f].committed
               /\ Becomes([mapped EXCEPT !.known = @ \cup learns])

(***************************************************************************)
(* Windows.                                                                *)
(***************************************************************************)

CreateWindowCall(p) ==
    /\ Calls(p, "create_window")
    /\ \E i \in Open(p) : /\ Holds(p, i, "service")
                          /\ s.svc[s.tab[p][i].obj].name = Compositor
    /\ Room("window") /\ Room("queue")
    /\ LET w == Fresh(s, "window")
       IN  Becomes(FocusWindow(Allocate(CreateWindow(s, w, Fresh(s, "queue")), p, w), w))

WindowEventQueue(p) ==
    /\ Calls(p, "event_queue")
    /\ \E i \in Open(p) :
           LET q == s.win[s.tab[p][i].obj].queue
           IN  /\ Holds(p, i, "window")
               /\ Becomes(Allocate(Retain(s, q), p, q))

\* The loop of sys_window_attach_surface: a new GPU buffer waits until the one
\* the window shows has been listed.
AttachPaced(t, p, i, j) ==
    LET w == t.tab[p][i].obj
        f == t.tab[p][j].obj
        old == t.win[w].surface
        unseen == /\ old \notin {None, f}
                  /\ HasBuffer(t, f) /\ HasBuffer(t, old) /\ t.surf[old].unshown
    IN  IF unseen THEN Sleep(t, p, [op |-> "attach", window |-> i, surface |-> j])
        ELSE AttachSurface(Returns(t, p), w, f)

WindowAttachSurface(p) ==
    /\ Calls(p, "attach")
    /\ \E i, j \in Open(p) : /\ Holds(p, i, "window") /\ Holds(p, j, "surface")
                             /\ Becomes(AttachPaced(s, p, i, j))

ResumeAttach(p) ==
    /\ Resumes(p, "attach")
    /\ Becomes(AttachPaced(s, p, s.wait[p].window, s.wait[p].surface))

\* kAttachPaceMs have passed, or a signal came.
AttachUnpaced(p) ==
    /\ s.wait[p] # None
    /\ s.wait[p].op = "attach"
    /\ Becomes(AttachSurface([Returns(s, p) EXCEPT !.asleep = @ \ {p}],
                             s.tab[p][s.wait[p].window].obj, s.tab[p][s.wait[p].surface].obj))

\* From here on the compositor draws what the list names, and nothing it knew
\* of surfaces that are gone.
WindowList(p) ==
    /\ Calls(p, "window_list")
    /\ LET t == ReleaseRetired(s, p)
       IN  Becomes([t EXCEPT
               !.drawn = {t.win[w].surface : w \in Windows(t)} \ {None},
               !.known = {k \in @ : t.ref[k.surface] > 0 /\ SurfaceAddress(t, k.surface, p) = k.at}])

WindowFocus(p) ==
    /\ Calls(p, "window_focus")
    /\ \E w \in Windows(s) : Becomes(FocusWindow(s, w))

WindowMove(p) ==
    /\ Calls(p, "window_move")
    /\ \E w \in Windows(s) : Becomes(MoveWindow(s, w))

WindowResize(p) ==
    /\ Calls(p, "window_resize")
    /\ \E w \in Windows(s) : Becomes(ResizeWindow(s, w))

WindowPostEvent(p) ==
    /\ Calls(p, "post_event")
    /\ \E w \in Windows(s) : Becomes(PostEventToWindow(s, w))

WindowControl(p) ==
    /\ Calls(p, "window_control")
    /\ \E w \in Windows(s), action \in {"restore", "minimize", "maximize", "close"} :
           Becomes(ControlWindow(s, w, action))

\* The keyboard interrupt, in the programs with a keyboard. No process registers
\* an input manager, so the third post of emitKey finds no service.
KeyPress ==
    /\ \E p \in Pid : "keyboard" \in program.calls[p]
    /\ Becomes(WakeAll(PostServiceEvent(PostKey(s), Compositor)))

(***************************************************************************)
(* Queues, services and requests.                                          *)
(***************************************************************************)

QueueCreate(p) ==
    /\ Calls(p, "queue_create")
    /\ Room("queue")
    /\ Becomes(Allocate(CreateQueue(s, Fresh(s, "queue")), p, Fresh(s, "queue")))

\* resolveQueueHandle: the queue of a queue handle, or of a service handle.
QueueOf(p, i) ==
    LET o == s.tab[p][i].obj IN IF KindOf(o) = "queue" THEN o ELSE s.svc[o].queue
QueueHandles(p) == {i \in Open(p) : KindOf(s.tab[p][i].obj) \in {"queue", "service"}}

\* For TLC: a message taken out wakes nobody.
ReceiveSilently(t, p, q) ==
    IF t.msgs[q] = <<>> THEN Sleep(t, p, [op |-> "receive", queue |-> q])
    ELSE Dequeue(Returns(t, p), q)

Receive(t, p, q) ==
    IF t.msgs[q] = <<>> THEN Sleep(t, p, [op |-> "receive", queue |-> q])
    ELSE WakeAll(Dequeue(Returns(t, p), q))

Send(t, p, q) ==
    IF Full(t, q) THEN Sleep(t, p, [op |-> "send", queue |-> q])
    ELSE WakeAll(Enqueue(Returns(t, p), q, 0))

\* The rest of sys_queue_request, which first waits for room and then for the
\* answer.
AwaitAnswer(t, p, id) ==
    LET own == {r \in Requests(t, id) : r.owner = p}
    IN  IF \E r \in own : ~r.done THEN Sleep(t, p, [op |-> "answer", id |-> id])
        ELSE [Returns(t, p) EXCEPT !.requests = @ \ own]

Request(t, p, q, id) ==
    IF Full(t, q) THEN Sleep(t, p, [op |-> "request", queue |-> q, id |-> id])
    ELSE AwaitAnswer(WakeAll(Enqueue(t, q, id)), p, id)

QueueSend(p) ==
    /\ Calls(p, "send")
    /\ \E i \in QueueHandles(p) : Becomes(Send(s, p, QueueOf(p, i)))
ResumeSend(p) == Resumes(p, "send") /\ Becomes(Send(s, p, s.wait[p].queue))

QueueReceive(p) ==
    /\ Calls(p, "receive")
    /\ \E i \in QueueHandles(p) : Becomes(Receive(s, p, QueueOf(p, i)))
ResumeReceive(p) == Resumes(p, "receive") /\ Becomes(Receive(s, p, s.wait[p].queue))

QueueRequest(p) ==
    /\ Calls(p, "request")
    /\ s.nextRequest <= MaxRequest
    /\ \E i \in QueueHandles(p) :
           LET begun == BeginRequest(s, p)
           IN  Becomes(IF Requests(begun, s.nextRequest) = {} THEN begun
                       ELSE Request(begun, p, QueueOf(p, i), s.nextRequest))
ResumeRequest(p) ==
    Resumes(p, "request") /\ Becomes(Request(s, p, s.wait[p].queue, s.wait[p].id))
ResumeAnswer(p) == Resumes(p, "answer") /\ Becomes(AwaitAnswer(s, p, s.wait[p].id))

\* A reply names any request; the queue handle is only looked up.
QueueReply(p) ==
    /\ Calls(p, "reply")
    /\ QueueHandles(p) # {}
    /\ \E id \in 1 .. MaxRequest : Becomes(CompleteRequest(s, id))

ServiceRegister(p) ==
    /\ Calls(p, "register")
    /\ \E i \in Open(p) :
           /\ Holds(p, i, "queue")
           /\ Becomes(RegisterService(s, p, Compositor, s.tab[p][i].obj))

ServiceConnect(p) ==
    /\ Calls(p, "connect")
    /\ \E v \in Named(s, Compositor) : Becomes(Allocate(Retain(s, v), p, v))

Next ==
    \/ KeyPress
    \/ \E p \in Pid :
        \/ OpenFile(p) \/ Close(p) \/ Dup(p) \/ Dup2(p) \/ SetCloseOnExec(p)
        \/ Fork(p) \/ Spawn(p) \/ Exec(p) \/ Die(p) \/ Reap(p)
        \/ SharedAlloc(p) \/ SharedMap(p) \/ SharedFree(p)
        \/ SurfaceCreate(p) \/ SurfaceFromBuffer(p) \/ SurfaceCommit(p) \/ SurfacePoll(p)
        \/ SurfaceWaitIdle(p) \/ ResumeWaitIdle(p) \/ WaitIdleEnds(p)
        \/ CreateWindowCall(p) \/ WindowEventQueue(p)
        \/ WindowAttachSurface(p) \/ ResumeAttach(p) \/ AttachUnpaced(p)
        \/ WindowList(p) \/ WindowFocus(p) \/ WindowControl(p)
        \/ WindowMove(p) \/ WindowResize(p) \/ WindowPostEvent(p)
        \/ QueueCreate(p) \/ QueueSend(p) \/ ResumeSend(p)
        \/ QueueReceive(p) \/ ResumeReceive(p)
        \/ QueueRequest(p) \/ ResumeRequest(p) \/ ResumeAnswer(p) \/ QueueReply(p)
        \/ ServiceRegister(p) \/ ServiceConnect(p)

Spec == Init /\ [][Next]_vars

(***************************************************************************)
(* Properties.                                                             *)
(***************************************************************************)

\* How many handles name the object, and how many references the manager, other
\* objects, mappings and sleeping calls have to it.
Handles(o) == Cardinality({<<p, i>> \in Pid \X Slot :
                              s.tab[p][i] # None /\ s.tab[p][i].obj = o})
Surfaces == {f \in Objects("surface") : s.ref[f] > 0}
Internal(o) ==
    Cardinality({f \in Surfaces : s.surf[f].pixels = o})
    + Cardinality({w \in Windows(s) : s.win[w].surface = o})
    + Cardinality({w \in Windows(s) : s.win[w].queue = o})
    + Cardinality({v \in Objects("service") : s.ref[v] > 0 /\ s.svc[v].queue = o})
    + Cardinality({i \in DOMAIN s.retiredBuffers : s.retiredBuffers[i].file = o})
    + (IF o \in s.retired \cup s.services THEN 1 ELSE 0)
    + (IF KindOf(o) = "surface" THEN s.kept[o] ELSE 0)
    + (IF KindOf(o) = "file"
       THEN Cardinality({<<p, a>> \in Pid \X Addr : s.pt[p][a] = o}) ELSE 0)

\* The count of every object is the number of references there are: no sequence
\* of duplications, forks, spawns, execs, attachments and deaths loses or invents
\* one.  (A process killed in SurfaceWaitIdle leaves its reference behind;
\* `kept' counts it.)
HandleRefs == \A o \in Obj : s.ref[o] = Handles(o) + Internal(o)

\* Shared memory that is mapped anywhere has its frames
\* (SharedMemoryObject::canDestroy, "Unmaps shared memory from the caller").
NoDanglingMapping ==
    \A p \in Pid, a \in Addr :
        s.pt[p][a] # None /\ KindOf(s.pt[p][a]) = "shm" => s.pt[p][a] \in s.mem

\* Until it next lists the windows, the compositor finds the pixels of every
\* surface it has polled where they were, though the surface, its window and
\* its owner may all be gone (retireSurfaceBacking: "A dead surface's memory stays mapped
\* in the compositor, which may be drawing from it").
KnownMapped == \A k \in s.known : s.pt[k.pid][k.at] = k.pixels

\* A surface its owner may draw into again is not one the compositor draws
\* (SurfaceObject::inUse).
IdleMeansUndrawn == \A f \in Surfaces : ~InUse(s, f) => f \notin s.drawn

\* At most one window has the focus flag, it is the one keys go to, and it is
\* on the screen (focusWindow, control, forgetWindow).
FocusOne ==
    \A w \in Windows(s) : s.win[w].focused =>
        w = s.focus /\ ~s.win[w].closed /\ ~s.win[w].minimized

\* Nobody sleeps for what has already happened: a receiver for a message that is
\* there, a sender for room, a requester for an answer, the owner of a surface
\* for it to be free, or a paced program for a frame that was shown.
NoLostWake ==
    \A p \in s.asleep :
        LET w == s.wait[p]
        IN  CASE w.op = "receive" -> s.msgs[w.queue] = <<>>
              [] w.op \in {"send", "request"} -> Full(s, w.queue)
              [] w.op = "answer" -> \E r \in Requests(s, w.id) : r.owner = p /\ ~r.done
              [] w.op = "idle" -> InUse(s, w.surface)
              [] w.op = "attach" ->
                     s.surf[s.win[s.tab[p][w.window].obj].surface].unshown

\* A call that sleeps goes on with the pointer it had: the queue or surface is
\* still there, though its service's owner or its window may be gone.
BlockedOnLiving ==
    \A p \in Pid : s.wait[p] # None =>
        /\ s.wait[p].op \in {"receive", "send", "request"} => s.ref[s.wait[p].queue] > 0
        /\ s.wait[p].op = "idle" => s.ref[s.wait[p].surface] > 0

===============================================================================
