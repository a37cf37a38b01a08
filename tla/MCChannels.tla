----------------------------- MODULE MCChannels -----------------------------
(***************************************************************************)
(* What carries bytes between the processes of one machine, each part      *)
(* explored on its own: pipes and FIFOs, Unix domain sockets and pseudo    *)
(* terminals.  The field part of s says which one a behaviour exercises,   *)
(* and every property says nothing about the others.                       *)
(***************************************************************************)
EXTENDS Integers

CONSTANTS
    OneWayFifos,   \* no FIFO is opened for reading and writing
    OneConnector   \* one thread connects a socket

VARIABLE s

\* Pipes: three tasks of two processes, a ring of two bytes.
Tasks == {"t1", "t2", "t3"}
ProcessOf == [t1 |-> "p", t2 |-> "p", t3 |-> "q"]
Slots == 1..3
PipeIds == 1..2
EndIds == 1..4
PipeSize == 2
Chunk == 2
Requests == {1, 3}
PipeUse(tasks, bytes, pipes, ends, calls) ==
    [tasks |-> tasks, bytes |-> bytes, pipes |-> pipes, ends |-> ends, calls |-> calls]
PipeUses ==
    {PipeUse({"t1", "t3"}, 4, 1, 3, {"pipe", "read", "write", "close", "fork"}),
     PipeUse(Tasks, 4, 1, 3, {"pipe", "read", "write", "poll", "signal"}),
     PipeUse({"t1", "t3"}, 3, 1, 3, {"fifo", "read", "write", "exit"}),
     PipeUse({"t1", "t2"}, 1, 1, 3, {"fifo", "nonblock", "close", "poll"}),
     PipeUse({"t1", "t2"}, 3, 1, 4, {"fifo", "nonblock", "write"}),
     PipeUse({"t1"}, 0, 2, 4, {"pipe", "close"}),
     PipeUse({"t1", "t2"}, 1, 1, 3, {"pipe", "dup", "fcntl", "read", "close", "poll"})}
I == INSTANCE Pipes

\* Unix sockets: two threads, a listener with one place, two queued bytes.
Threads == {"t1", "t2"}
OwnerOf == [t1 |-> "p", t2 |-> "p"]
UnixSlots == 1..3
SocketIds == 1..4
QueueCapacity == 2
UnixUse(threads, sockets, types, bytes, calls) ==
    [threads |-> threads, sockets |-> sockets, types |-> types, bytes |-> bytes, calls |-> calls]
UnixUses ==
    {UnixUse(Threads, 4, {"stream"}, 0, {"stream", "bind", "connect", "accept", "close"}),
     UnixUse(Threads, 2, {"stream"}, 3, {"pair", "send", "recv", "waitall", "close"}),
     UnixUse(Threads, 2, {"seqpacket"}, 3, {"pair", "send", "recv", "shutdown", "signal"}),
     UnixUse(Threads, 2, {"stream", "seqpacket"}, 2, {"pair", "send", "recv", "nonblock"}),
     UnixUse({"t1"}, 2, {"stream"}, 2, {"pair", "send", "recv", "rights", "close"}),
     UnixUse(Threads, 4, {"stream"}, 1,
             {"pair", "stream", "bind", "connect", "accept", "poll", "shutdown", "send"})}
U == INSTANCE UnixSockets

\* Pseudo terminals: rings of four characters, three of them in a line.
BufferSize == 4
LineSize == 3
IoChunk == 2
MaxKeys == 3
MaxOut == 5
PtyUse(calls, keys, chars, termios) == [calls |-> calls, keys |-> keys, chars |-> chars, termios |-> termios]
PtyUses ==
    {PtyUse({"read", "close", "write", "show"}, {"x", "nl"}, {"x"}, {"icanon"}),
     PtyUse({"read", "show"}, {"x", "nl", "erase", "kill", "intr"}, {}, {"icanon", "echo"}),
     PtyUse({"write", "show"}, {"intr"}, {"x", "nl"}, {"onlcr"}),
     PtyUse({"read", "short", "modes", "flood", "close"}, {"x", "nl", "eof"}, {}, {"icanon"})}
Y == INSTANCE Pty

Init == I!Init \/ U!Init \/ Y!Init
Next == \/ I!On /\ I!Next
        \/ U!On /\ U!Next
        \/ Y!On /\ Y!Next
Spec == Init /\ [][Next]_s


(* A connected Unix socket and its peer name each other.                   *)
PeersAgree == U!PeersAgree

(* Whoever sleeps for data, room or the other end is awake once it can go  *)
(* on.                                                                     *)
ChannelsWake == I!PipesWake /\ U!UnixWakes /\ Y!PtyWakes
=============================================================================
