------------------------------- MODULE Pipes -------------------------------
(***************************************************************************)
(* Pipes and named FIFOs: the ring buffer, its ends and the handles that   *)
(* share them, reads and writes that sleep, the rendezvous of FIFO opens,  *)
(* poll, and the processes that inherit, duplicate and close handles.      *)
(*                                                                         *)
(* A call holds the kernel lock from its start until it sleeps or returns: *)
(* while running is a task, only that task takes steps.  A call that fails *)
(* without effect is no step.  The bytes of a pipe are numbered as they    *)
(* are written.                                                            *)
(***************************************************************************)
EXTENDS Integers, FiniteSets, FiniteSetsExt

CONSTANTS
    Tasks,         \* threads
    ProcessOf,     \* the process of each
    Slots,         \* the slots of a handle table
    PipeIds,       \* memory for pipes
    EndIds,        \* memory for the ends of pipes
    PipeSize,      \* kPipeBufferSize
    Chunk,         \* bytes sys_read and sys_write copy at a time
    Requests,      \* sizes of reads and writes
    PipeUses,      \* explored programs: the threads that make calls, the calls,
                   \* the bytes they write at most, the pipes and ends there
                   \* is memory for
    OneWayFifos    \* FALSE: a FIFO may be opened for reading and writing

VARIABLE s

On == s.part = "pipes"
Processes == {ProcessOf[t] : t \in Tasks}

NoPipe == [refs |-> 0, readOpen |-> 0, writeOpen |-> 0, buffer |-> [i \in 0..(PipeSize - 1) |-> 0],
           head |-> 0, tail |-> 0, size |-> 0, sent |-> 0, taken |-> 0, live |-> FALSE]
NoEnd == [pipe |-> 0, writeEnd |-> FALSE, nonBlock |-> FALSE, mode |-> {}, refs |-> 0]
Idle == [call |-> "none", end |-> 0, want |-> 0, done |-> 0, asleep |-> FALSE]

Calls(call) == On /\ call \in s.use.calls
FreePipes == {i \in PipeIds : i <= s.use.pipes /\ ~s.pipes[i].live}
FreeEnds == {e \in EndIds : e <= s.use.ends /\ s.ends[e] = NoEnd}
FreeSlots(p) == {h \in Slots : s.table[p][h] = 0}
PipeOf(e) == s.pipes[s.ends[e].pipe]
Handle(t, h) == s.table[ProcessOf[t]][h]

\* A task in user mode enters the kernel, or the one inside goes on.
Enters(t) == t \in s.use.tasks /\ s.running = "none" /\ s.tasks[t] = Idle /\ ProcessOf[t] \in s.born
Runs(t, call) == On /\ s.tasks[t].call = call /\ ~s.tasks[t].asleep /\ s.running \in {t, "none"}

wakePipeWaiters(tasks) == [t \in Tasks |-> [tasks[t] EXCEPT !.asleep = FALSE]]
blockCurrentForPipe(t) == s' = [s EXCEPT !.running = "none", !.tasks = [@ EXCEPT ![t].asleep = TRUE]]

----------------------------------------------------------------------------
\* Reference counts.

\* Mutant: the close of an end wakes nobody.
CloseSilently(st, e) ==
    LET i == st.ends[e].pipe
        p == st.pipes[i]
        left == [p EXCEPT !.writeOpen = IF st.ends[e].writeEnd THEN Max({0, @ - 1}) ELSE @,
                          !.readOpen = IF st.ends[e].writeEnd THEN @ ELSE Max({0, @ - 1}),
                          !.refs = @ - 1]
    IN [st EXCEPT !.pipes = [@ EXCEPT ![i] = IF left.refs = 0 THEN NoPipe ELSE left],
                  !.fifo = IF left.refs = 0 /\ @ = i THEN 0 ELSE @,
                  !.ends = [@ EXCEPT ![e] = NoEnd]]

\* The end's descriptor loses its last reference: the pipe is told, and freed
\* with its last end.
pipeClose(st, e) ==
    LET i == st.ends[e].pipe
        p == st.pipes[i]
        left == [p EXCEPT !.writeOpen = IF st.ends[e].writeEnd THEN Max({0, @ - 1}) ELSE @,
                          !.readOpen = IF st.ends[e].writeEnd THEN @ ELSE Max({0, @ - 1}),
                          !.refs = @ - 1]
    IN [st EXCEPT !.pipes = [@ EXCEPT ![i] = IF left.refs = 0 THEN NoPipe ELSE left],
                  !.fifo = IF left.refs = 0 /\ @ = i THEN 0 ELSE @,
                  !.ends = [@ EXCEPT ![e] = NoEnd],
                  !.tasks = wakePipeWaiters(@)]

Retain(st, e) == [st EXCEPT !.ends = [@ EXCEPT ![e].refs = @ + 1]]
Release(st, e) == IF st.ends[e].refs = 1 THEN pipeClose(st, e)
                  ELSE [st EXCEPT !.ends = [@ EXCEPT ![e].refs = @ - 1]]

ReleaseAll(st, es) == FoldSet(LAMBDA h, acc : IF es[h] = 0 THEN acc ELSE Release(acc, es[h]), st, Slots)

\* The call is over: the descriptor it pinned is released.
Returned(st, t) ==
    LET e == st.tasks[t].end
        out == [st EXCEPT !.running = "none", !.tasks = [@ EXCEPT ![t] = Idle]]
    IN IF e = 0 THEN out ELSE Release(out, e)

----------------------------------------------------------------------------
\* Creation.

NewEnd(pipe, mode, nonBlock, refs) ==
    [pipe |-> pipe, writeEnd |-> (mode = {"w"}), nonBlock |-> nonBlock, mode |-> mode, refs |-> refs]

\* Without two free slots the ends are closed again, and the pipe with them.
sys_pipe2(t, nonBlock) ==
    LET p == ProcessOf[t]
        i == Min(FreePipes)
        r == Min(FreeEnds)
        w == Min(FreeEnds \ {r})
        h == Min(FreeSlots(p))
        g == Min(FreeSlots(p) \ {h})
    IN /\ Calls("pipe") /\ Enters(t)
       /\ nonBlock => Calls("nonblock")
       /\ FreePipes # {} /\ Cardinality(FreeEnds) >= 2
       /\ IF Cardinality(FreeSlots(p)) < 2 THEN s' = [s EXCEPT !.tasks = wakePipeWaiters(@)]
          ELSE s' = [s EXCEPT !.pipes = [@ EXCEPT ![i] = [NoPipe EXCEPT !.refs = 2, !.readOpen = 1, !.writeOpen = 1,
                                                                       !.live = TRUE]],
                              !.ends = [@ EXCEPT ![r] = NewEnd(i, {"r"}, nonBlock, 1), ![w] = NewEnd(i, {"w"}, nonBlock, 1)],
                              !.table = [@ EXCEPT ![p] = [@ EXCEPT ![h] = r, ![g] = w]]]

\* The end counts before the open sleeps for its peer.
openFifo(t, mode, nonBlock) ==
    LET i == IF s.fifo # 0 THEN s.fifo ELSE Min(FreePipes)
        e == Min(FreeEnds)
        shared == IF s.fifo # 0 THEN s.pipes[i] ELSE [NoPipe EXCEPT !.live = TRUE]
    IN /\ Calls("fifo") /\ Enters(t)
       /\ OneWayFifos => mode # {"r", "w"}
       /\ nonBlock => Calls("nonblock")
       /\ s.fifo # 0 \/ FreePipes # {}
       /\ FreeEnds # {}
       /\ s' = [s EXCEPT !.fifo = i, !.running = t,
                         !.pipes = [@ EXCEPT ![i] = [shared EXCEPT !.refs = @ + 1,
                                        !.readOpen = IF "r" \in mode THEN @ + 1 ELSE @,
                                        !.writeOpen = IF "w" \in mode THEN @ + 1 ELSE @]],
                         !.ends = [@ EXCEPT ![e] = NewEnd(i, mode, nonBlock, 1)],
                         !.tasks = [wakePipeWaiters(@) EXCEPT ![t] = [Idle EXCEPT !.call = "open", !.end = e]]]

MustMeet(e) ==
    /\ ~s.ends[e].nonBlock
    /\ \/ s.ends[e].mode = {"r"} /\ PipeOf(e).writeOpen = 0
       \/ s.ends[e].mode = {"w"} /\ PipeOf(e).readOpen = 0

\* The handle takes over the open's reference; without a slot the end is closed.
FifoOpened(t) ==
    LET e == s.tasks[t].end
        p == ProcessOf[t]
    IN /\ Runs(t, "open")
       /\ IF MustMeet(e) THEN blockCurrentForPipe(t)
          ELSE IF FreeSlots(p) = {} THEN s' = Returned(s, t)
          ELSE s' = [s EXCEPT !.running = "none", !.tasks = [@ EXCEPT ![t] = Idle],
                              !.table = [@ EXCEPT ![p] = [@ EXCEPT ![Min(FreeSlots(p))] = e]]]

----------------------------------------------------------------------------
\* Reading and writing.

Begin(t, call, e, n) ==
    s' = [Retain(s, e) EXCEPT !.running = t, !.tasks = [@ EXCEPT ![t] = [Idle EXCEPT !.call = call, !.end = e, !.want = n]]]

sys_read(t, h, n) ==
    /\ Calls("read") /\ Enters(t)
    /\ Handle(t, h) # 0 /\ "r" \in s.ends[Handle(t, h)].mode
    /\ Begin(t, "read", Handle(t, h), n)

sys_write(t, h, n) ==
    /\ Calls("write") /\ Enters(t)
    /\ Handle(t, h) # 0 /\ s.ends[Handle(t, h)].writeEnd
    /\ PipeOf(Handle(t, h)).sent + n <= s.use.bytes
    /\ Begin(t, "write", Handle(t, h), n)

\* One chunk; the call goes on only after a full one.
pipeRead(t) ==
    LET k == s.tasks[t]
        p == PipeOf(k.end)
        toRead == Min({k.want - k.done, Chunk})
        copied == Min({toRead, p.size})
        st == [s EXCEPT !.pipes = [@ EXCEPT ![s.ends[k.end].pipe] =
                              [p EXCEPT !.tail = (@ + copied) % PipeSize, !.size = @ - copied, !.taken = @ + copied]],
                        !.tasks = [wakePipeWaiters(@) EXCEPT ![t].done = @ + copied], !.running = t]
    IN /\ Runs(t, "read")
       /\ IF p.size = 0
          THEN IF p.writeOpen = 0 \/ s.ends[k.end].nonBlock THEN s' = Returned(s, t)
               ELSE blockCurrentForPipe(t)
          ELSE IF copied # toRead \/ k.done + copied = k.want THEN s' = Returned(st, t) ELSE s' = st

\* As much as fits; a writer without readers is signalled, unless part of this
\* chunk was written.
pipeWrite(t) ==
    LET k == s.tasks[t]
        p == PipeOf(k.end)
        toCopy == Min({k.want - k.done, Chunk - (k.done % Chunk)})
        put == Min({toCopy, PipeSize - p.size})
        offset(i) == (i - p.head) % PipeSize
        st == [s EXCEPT !.pipes = [@ EXCEPT ![s.ends[k.end].pipe] =
                              [p EXCEPT !.buffer = [i \in DOMAIN @ |-> IF offset(i) < put THEN p.sent + 1 + offset(i) ELSE @[i]],
                                        !.head = (@ + put) % PipeSize, !.size = @ + put, !.sent = @ + put]],
                        !.tasks = [wakePipeWaiters(@) EXCEPT ![t].done = @ + put], !.running = t]
    IN /\ Runs(t, "write")
       /\ IF p.readOpen = 0
          THEN s' = [Returned(s, t) EXCEPT !.signal = IF k.done % Chunk = 0 THEN @ \union {t} ELSE @]
          ELSE IF p.size = PipeSize
          THEN IF s.ends[k.end].nonBlock THEN s' = Returned(s, t) ELSE blockCurrentForPipe(t)
          ELSE IF k.done + put = k.want THEN s' = Returned(st, t) ELSE s' = st

----------------------------------------------------------------------------
\* Poll of one handle.

pollPipe(e) ==
    LET p == PipeOf(e)
    IN IF s.ends[e].writeEnd THEN p.readOpen = 0 \/ p.size < PipeSize
       ELSE p.size > 0 \/ p.writeOpen = 0

sys_poll(t, h) ==
    /\ Calls("poll") /\ Enters(t)
    /\ s' = [s EXCEPT !.running = t, !.tasks = [@ EXCEPT ![t] = [Idle EXCEPT !.call = "poll", !.want = h]]]

\* The handle is looked up anew at each scan; a signal ends the sleep.
scanOnce(t) ==
    LET e == Handle(t, s.tasks[t].want)
    IN /\ Runs(t, "poll")
       /\ IF e = 0 \/ (e # 0 /\ pollPipe(e)) \/ (s.tasks[t].done = 1 /\ t \in s.signal)
          THEN s' = [s EXCEPT !.running = "none", !.tasks = [@ EXCEPT ![t] = Idle]]
          ELSE s' = [s EXCEPT !.running = "none",
                              !.tasks = [@ EXCEPT ![t].asleep = TRUE, ![t].done = 1]]

PollTimeout(t) ==
    /\ On /\ s.tasks[t].call = "poll" /\ s.tasks[t].asleep
    /\ s.running = "none"
    /\ s' = [s EXCEPT !.tasks = [@ EXCEPT ![t] = Idle]]

----------------------------------------------------------------------------
\* Handles and processes.

sys_close(t, h) ==
    /\ Calls("close") /\ Enters(t)
    /\ Handle(t, h) # 0
    /\ s' = Release([s EXCEPT !.table = [@ EXCEPT ![ProcessOf[t]] = [@ EXCEPT ![h] = 0]]], Handle(t, h))

sys_dup(t, h) ==
    LET p == ProcessOf[t]
    IN /\ Calls("dup") /\ Enters(t)
       /\ Handle(t, h) # 0 /\ FreeSlots(p) # {}
       /\ s' = [Retain(s, Handle(t, h)) EXCEPT !.table = [@ EXCEPT ![p] = [@ EXCEPT ![Min(FreeSlots(p))] = Handle(t, h)]]]

\* What the target slot held is closed.
sys_dup2(t, h, g) ==
    LET p == ProcessOf[t]
        old == Handle(t, g)
        st == [Retain(s, Handle(t, h)) EXCEPT !.table = [@ EXCEPT ![p] = [@ EXCEPT ![g] = Handle(t, h)]]]
    IN /\ Calls("dup") /\ Enters(t)
       /\ Handle(t, h) # 0 /\ h # g
       /\ s' = IF old = 0 THEN st ELSE Release(st, old)

\* F_SETFL reaches everyone who shares the end.
sys_fcntl(t, h, nonBlock) ==
    /\ Calls("fcntl") /\ Enters(t)
    /\ Handle(t, h) # 0
    /\ s' = [s EXCEPT !.ends = [@ EXCEPT ![Handle(t, h)].nonBlock = nonBlock]]

sys_fork(t, q) ==
    /\ Calls("fork") /\ Enters(t)
    /\ q \notin s.born
    /\ s' = [FoldSet(LAMBDA h, acc : IF Handle(t, h) = 0 THEN acc ELSE Retain(acc, Handle(t, h)), s, Slots)
                EXCEPT !.born = @ \union {q}, !.table = [@ EXCEPT ![q] = s.table[ProcessOf[t]]]]

\* A process whose threads are all in user mode ends.
exit(p) ==
    /\ Calls("exit")
    /\ s.running = "none" /\ p \in s.born /\ \A t \in Tasks : ProcessOf[t] = p => s.tasks[t] = Idle
    /\ s' = [ReleaseAll([s EXCEPT !.table = [@ EXCEPT ![p] = [h \in Slots |-> 0]]], s.table[p]) EXCEPT !.born = @ \ {p}]

sendSignal(t) ==
    /\ Calls("signal") /\ s.running = "none"
    /\ s.tasks[t].asleep /\ t \notin s.signal
    /\ s' = [s EXCEPT !.signal = @ \union {t}, !.tasks = [@ EXCEPT ![t].asleep = FALSE]]

SignalHandled(t) == On /\ Enters(t) /\ t \in s.signal /\ s' = [s EXCEPT !.signal = @ \ {t}]

----------------------------------------------------------------------------
Init ==
    \E use \in PipeUses :
        s = [part |-> "pipes", use |-> use, running |-> "none", fifo |-> 0, signal |-> {}, 
             pipes |-> [i \in PipeIds |-> NoPipe], ends |-> [e \in EndIds |-> NoEnd],
             table |-> [p \in Processes |-> [h \in Slots |-> 0]],
             tasks |-> [t \in Tasks |-> Idle],
             born |-> IF "fork" \in use.calls THEN {ProcessOf[CHOOSE t \in Tasks : TRUE]} ELSE Processes]

Next ==
    \/ \E t \in Tasks :
         \/ \E nonBlock \in BOOLEAN : sys_pipe2(t, nonBlock)
         \/ \E mode \in {{"r"}, {"w"}, {"r", "w"}}, nonBlock \in BOOLEAN : openFifo(t, mode, nonBlock)
         \/ FifoOpened(t) \/ pipeRead(t) \/ pipeWrite(t) \/ scanOnce(t) \/ PollTimeout(t) \/ sendSignal(t) \/ SignalHandled(t)
         \/ \E h \in Slots :
              \/ \E n \in Requests : sys_read(t, h, n) \/ sys_write(t, h, n)
              \/ sys_poll(t, h) \/ sys_close(t, h) \/ sys_dup(t, h)
              \/ \E g \in Slots : sys_dup2(t, h, g)
              \/ \E nonBlock \in BOOLEAN : sys_fcntl(t, h, nonBlock)
         \/ \E q \in Processes : sys_fork(t, q)
    \/ \E p \in Processes : exit(p)

----------------------------------------------------------------------------
LiveEnds(i) == {e \in EndIds : s.ends[e].pipe = i /\ s.ends[e] # NoEnd}
Holds(e) == Cardinality({<<p, h>> \in Processes \X Slots : s.table[p][h] = e})
            + Cardinality({t \in Tasks : s.tasks[t].end = e})

(* A pipe holds exactly the bytes written to it and not yet read, in order, *)
(* however reads and writes wrap around its ring.  It counts as open for    *)
(* reading and for writing exactly the ends some handle or some call in     *)
(* progress still has, so the end of the file and the broken pipe are       *)
(* reported when the last one is closed and not before, and it is freed     *)
(* with its last end.                                                       *)
PipesDeliver ==
    On => /\ \A i \in PipeIds :
                LET p == s.pipes[i]
                IN /\ p.sent = p.taken + p.size
                   /\ \A k \in 0..(p.size - 1) : p.buffer[(p.tail + k) % PipeSize] = p.taken + k + 1
                   /\ p.refs = Cardinality(LiveEnds(i)) /\ p.live = (p.refs > 0)
                   /\ p.readOpen = Cardinality({e \in LiveEnds(i) : "r" \in s.ends[e].mode})
                   /\ p.writeOpen = Cardinality({e \in LiveEnds(i) : "w" \in s.ends[e].mode})
          /\ \A e \in EndIds : s.ends[e].refs = Holds(e)

(* Nobody sleeps through what it waits for: a sleeping reader's pipe is     *)
(* empty and has a writer, a sleeping writer's is full and has a reader, an *)
(* open waits for a peer that is not there, and a poll for a pipe that is   *)
(* not ready.                                                               *)
PipesWake ==
    On => \A t \in Tasks :
        LET k == s.tasks[t]
            e == k.end
        IN k.asleep =>
            CASE k.call = "read"  -> PipeOf(e).size = 0 /\ PipeOf(e).writeOpen > 0
              [] k.call = "write" -> PipeOf(e).size = PipeSize /\ PipeOf(e).readOpen > 0
              [] k.call = "open"  -> MustMeet(e)
              [] k.call = "poll"  -> Handle(t, k.want) # 0 /\ ~Calls("dup") => ~pollPipe(Handle(t, k.want))
============================================================================
