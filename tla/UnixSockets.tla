---------------------------- MODULE UnixSockets ----------------------------
(***************************************************************************)
(* AF_UNIX sockets: names, listeners and their queues of connections,      *)
(* connected pairs, streams and records, and handles sent with the bytes   *)
(* (SCM_RIGHTS).                                                           *)
(*                                                                         *)
(* A call runs under the kernel lock until it sleeps or returns, so a call *)
(* and every look after a wake-up is one step.  A call that fails without  *)
(* effect is no step.  The bytes sent to a socket are numbered.            *)
(***************************************************************************)
EXTENDS Integers, FiniteSets, FiniteSetsExt, Sequences, SequencesExt

CONSTANTS
    Threads,        \* threads
    OwnerOf,        \* the process of each
    UnixSlots,      \* the slots of a handle table
    SocketIds,      \* memory for sockets
    QueueCapacity,  \* kQueueCapacity
    UnixUses,       \* explored programs: threads, sockets, types, bytes sent, calls
    OneConnector    \* FALSE: two threads may connect one socket at a time

VARIABLE s

On == s.part = "unix"
Owners == {OwnerOf[t] : t \in Threads}

NoSocket == [refs |-> 0, type |-> "none", bound |-> FALSE, listening |-> FALSE, connected |-> FALSE,
             readShut |-> FALSE, writeShut |-> FALSE, peerWriteShut |-> FALSE, nonBlocking |-> FALSE,
             peer |-> 0, rx |-> <<>>, rxBytes |-> 0, accepts |-> <<>>, sent |-> 0, got |-> 0]
Free == [call |-> "none", sock |-> 0, want |-> 0, copied |-> 0, rights |-> 0, asleep |-> FALSE, all |-> FALSE]

Calls(call) == On /\ call \in s.use.calls
FreeSockets(st) == {x \in 1..st.use.sockets : st.socks[x] = NoSocket}
FreeSlots(st, t) == {h \in UnixSlots : st.table[OwnerOf[t]][h] = 0}
Handle(t, h) == s.table[OwnerOf[t]][h]
Ready(t) == t \in s.use.threads /\ s.tasks[t] = Free

wakeAll(st) == [st EXCEPT !.tasks = [t \in Threads |-> [@[t] EXCEPT !.asleep = FALSE]]]
With(st, x, sock) == [st EXCEPT !.socks = [@ EXCEPT ![x] = sock]]
Returns(st, t) == [st EXCEPT !.tasks = [@ EXCEPT ![t] = Free]]

newSocket(type) == [NoSocket EXCEPT !.refs = 1, !.type = type]
isRecordType(sock) == sock.type = "seqpacket"
findBound == {x \in SocketIds : s.socks[x].bound}

----------------------------------------------------------------------------
\* References and the end of a socket.

retainSocket(st, x) == [st EXCEPT !.socks = [@ EXCEPT ![x].refs = @ + 1]]

\* Mutant: the peer goes on naming the socket that is gone.
DetachKeepsPeer(st, x) ==
    LET peer == st.socks[x].peer
    IN IF peer = 0 \/ st.socks[peer].peer # x THEN st
       ELSE With(st, peer, [st.socks[peer] EXCEPT !.peerWriteShut = TRUE])

\* The peer stops sending: what is queued can still be read, then EOF.
detachPeer(st, x) ==
    LET peer == st.socks[x].peer
    IN IF peer = 0 \/ st.socks[peer].peer # x THEN st
       ELSE With(st, peer, [st.socks[peer] EXCEPT !.peer = 0, !.peerWriteShut = TRUE])

RECURSIVE releaseSocket(_, _)

\* What the socket held goes with it: connections nobody accepted, handles
\* nobody received.
destroy(st, x) ==
    LET held == st.socks[x].accepts \o SelectSeq([i \in DOMAIN st.socks[x].rx |-> st.socks[x].rx[i].right], LAMBDA r : r # 0)
    IN wakeAll(FoldLeft(releaseSocket, With(detachPeer(st, x), x, NoSocket), held))

releaseSocket(st, x) ==
    IF st.socks[x].refs = 1 THEN destroy(st, x)
    ELSE With(st, x, [st.socks[x] EXCEPT !.refs = @ - 1])

\* A handle for the socket, the first free one.
installSocket(st, t, x) == [st EXCEPT !.table = [@ EXCEPT ![OwnerOf[t]] = [@ EXCEPT ![Min(FreeSlots(st, t))] = x]]]

\* A sleeping call keeps its socket.
Sleeps(st, t, k) == [retainSocket(st, k.sock) EXCEPT !.tasks = [@ EXCEPT ![t] = [k EXCEPT !.asleep = TRUE]]]

----------------------------------------------------------------------------
\* Sockets, pairs and names.

create(t, type) ==
    /\ Calls(type) /\ Ready(t)
    /\ FreeSockets(s) # {} /\ FreeSlots(s, t) # {}
    /\ LET x == Min(FreeSockets(s)) IN s' = installSocket(With(s, x, newSocket(type)), t, x)

\* Without two slots both are freed again.
socketPair(t, type) ==
    LET a == Min(FreeSockets(s))
        b == Min(FreeSockets(s) \ {a})
        end(peer) == [newSocket(type) EXCEPT !.peer = peer, !.connected = TRUE]
    IN /\ Calls("pair") /\ Ready(t) /\ type \in s.use.types
       /\ Cardinality(FreeSockets(s)) >= 2 /\ Cardinality(FreeSlots(s, t)) >= 2
       /\ s' = installSocket(installSocket(With(With(s, a, end(b)), b, end(a)), t, a), t, b)

bind(t, h) ==
    LET x == Handle(t, h)
    IN /\ Calls("bind") /\ Ready(t) /\ x # 0
       /\ ~s.socks[x].bound /\ findBound = {}
       /\ s' = With(s, x, [s.socks[x] EXCEPT !.bound = TRUE])

listen(t, h) ==
    LET x == Handle(t, h)
    IN /\ Calls("bind") /\ Ready(t) /\ x # 0
       /\ s.socks[x].bound /\ ~s.socks[x].connected /\ ~s.socks[x].listening
       /\ OneConnector => \A u \in Threads : ~(s.tasks[u].call = "connect" /\ s.tasks[u].sock = x)
       /\ s' = wakeAll(With(s, x, [s.socks[x] EXCEPT !.listening = TRUE]))

----------------------------------------------------------------------------
\* Calls that may sleep: one look at the state st with the call k.

\* The name is looked up at each look; the socket itself is not looked at again.
Connect(st, t, k) ==
    LET x == k.sock
        named == {y \in SocketIds : st.socks[y].bound}
        listener == Min(named)
        l == st.socks[listener]
        y == Min(FreeSockets(st))
        server == [newSocket(st.socks[x].type) EXCEPT !.peer = x, !.connected = TRUE]
    IN IF named = {} \/ (named # {} /\ ~(l.listening /\ l.type = st.socks[x].type)) THEN Returns(st, t)
       ELSE IF Len(l.accepts) < 1
       THEN IF FreeSockets(st) = {} THEN Returns(st, t)
            ELSE Returns(wakeAll([st EXCEPT !.socks = [@ EXCEPT ![y] = server, ![x].peer = y, ![x].connected = TRUE,
                                                               ![listener].accepts = Append(@, y)]]), t)
       ELSE IF st.socks[x].nonBlocking THEN Returns(st, t) ELSE Sleeps(st, t, k)

\* The queue's reference becomes the handle's, or is dropped without a slot.
Accept(st, t, k) ==
    LET l == st.socks[k.sock]
        server == Head(l.accepts)
        rest == Returns(With(st, k.sock, [l EXCEPT !.accepts = Tail(@)]), t)
    IN IF l.accepts # <<>>
       THEN IF FreeSlots(st, t) = {} THEN releaseSocket(rest, server) ELSE wakeAll(installSocket(rest, t, server))
       ELSE IF l.nonBlocking THEN Returns(st, t) ELSE Sleeps(st, t, k)

queueRoom(sock) == Max({0, QueueCapacity - sock.rxBytes})

\* A stream sends what fits, a record goes whole; the handle goes with the
\* first byte, and is dropped when the call fails.
sendCommon(st, t, k) ==
    LET x == st.socks[k.sock]
        peer == st.socks[x.peer]
        fail == IF k.rights = 0 THEN Returns(st, t) ELSE releaseSocket(Returns(st, t), k.rights)
        n == IF isRecordType(x) THEN k.want ELSE Min({k.want, queueRoom(peer)})
        chunk == [length |-> n, offset |-> 0, right |-> k.rights, first |-> peer.sent + 1]
    IN IF ~x.connected \/ (isRecordType(x) /\ k.want > QueueCapacity) THEN fail
       ELSE IF x.writeShut \/ x.peer = 0 \/ (x.peer # 0 /\ peer.readShut) THEN fail
       ELSE IF (IF isRecordType(x) THEN queueRoom(peer) >= k.want ELSE queueRoom(peer) > 0)
       THEN Returns(wakeAll(With(st, x.peer, [peer EXCEPT !.rx = Append(@, chunk), !.rxBytes = @ + n, !.sent = @ + n])), t)
       ELSE IF x.nonBlocking THEN fail ELSE Sleeps(st, t, k)

\* The handle of a chunk becomes the receiver's; dropped if it did not ask for
\* one or has no slot.
installRights(st, t, right, asked) ==
    IF right = 0 THEN st
    ELSE IF asked /\ FreeSlots(st, t) # {} THEN installSocket(st, t, right) ELSE releaseSocket(st, right)

\* The chunks a stream read may take: one with a handle on its own, otherwise
\* all before the next handle.
Readable(rx, copied) ==
    LET marked == {i \in DOMAIN rx : rx[i].right # 0}
    IN IF 1 \in marked THEN (IF copied # 0 THEN 0 ELSE 1) ELSE Min(marked \union {Len(rx) + 1}) - 1

\* The queue after n bytes of its chunks are read.
Consumed(rx, n) ==
    LET before(i) == FoldLeft(LAMBDA sum, c : sum + c.length - c.offset, 0, SubSeq(rx, 1, i))
        left == {i \in DOMAIN rx : before(i) > n}
        first == Min(left)
    IN IF left = {} THEN <<>>
       ELSE <<[rx[first] EXCEPT !.offset = @ + n - before(first - 1), !.right = IF n > 0 /\ first = 1 THEN 0 ELSE @]>>
            \o SubSeq(rx, first + 1, Len(rx))

Available(rx) == FoldLeft(LAMBDA sum, c : sum + c.length - c.offset, 0, rx)

recvCommon(st, t, k) ==
    LET x == st.socks[k.sock]
        head == Head(x.rx)
        n == Min({k.want - k.copied, Available(SubSeq(x.rx, 1, Readable(x.rx, k.copied)))})
        record == wakeAll(With(st, k.sock, [x EXCEPT !.rx = Tail(@), !.rxBytes = @ - head.length, !.got = @ + head.length]))
        stream == wakeAll(With(st, k.sock, [x EXCEPT !.rx = Consumed(@, n), !.rxBytes = @ - n, !.got = @ + n]))
        took == n > 0 /\ head.right # 0
        more == [k EXCEPT !.copied = @ + n]
        ended == x.readShut \/ x.peerWriteShut \/ x.peer = 0
    IN IF ~x.connected \/ x.listening THEN Returns(st, t)
       ELSE IF x.rx # <<>> /\ ~x.readShut
       THEN IF isRecordType(x) THEN installRights(Returns(record, t), t, head.right, k.rights = 1)
            ELSE IF ~k.all \/ more.copied = k.want \/ took
            THEN installRights(Returns(stream, t), t, head.right, k.rights = 1)
            ELSE IF ended \/ x.nonBlocking THEN Returns(stream, t) ELSE Sleeps(stream, t, more)
       ELSE IF ended \/ x.nonBlocking THEN Returns(st, t) ELSE Sleeps(st, t, k)

Look(st, t, k) ==
    CASE k.call = "connect" -> Connect(st, t, k)
      [] k.call = "accept"  -> Accept(st, t, k)
      [] k.call = "send"    -> sendCommon(st, t, k)
      [] k.call = "recv"    -> recvCommon(st, t, k)

connect(t, h) ==
    LET x == Handle(t, h)
    IN /\ Calls("connect") /\ Ready(t) /\ x # 0
       /\ ~s.socks[x].listening /\ ~s.socks[x].connected
       /\ OneConnector => \A u \in Threads : ~(s.tasks[u].call = "connect" /\ s.tasks[u].sock = x)
       /\ s' = Connect(s, t, [Free EXCEPT !.call = "connect", !.sock = x])

accept(t, h) ==
    LET x == Handle(t, h)
    IN /\ Calls("accept") /\ Ready(t) /\ x # 0
       /\ s.socks[x].listening
       /\ s' = Accept(s, t, [Free EXCEPT !.call = "accept", !.sock = x])

\* The handle to pass is retained before anything is checked.
sendMsg(t, h, n, right) ==
    LET x == Handle(t, h)
        r == IF right = 0 THEN 0 ELSE Handle(t, right)
        k == [Free EXCEPT !.call = "send", !.sock = x, !.want = n, !.rights = r]
    IN /\ Calls("send") /\ Ready(t) /\ x # 0
       /\ (right # 0) => (Calls("rights") /\ r # 0)
       /\ x # 0 /\ s.socks[x].peer # 0 => s.socks[s.socks[x].peer].sent + n <= s.use.bytes
       /\ s' = sendCommon(IF r = 0 THEN s ELSE retainSocket(s, r), t, k)

recvMsg(t, h, n, asked, all) ==
    LET x == Handle(t, h)
    IN /\ Calls("recv") /\ Ready(t) /\ x # 0
       /\ (asked = 1) => Calls("rights")
       /\ all => Calls("waitall")
       /\ s' = recvCommon(s, t, [Free EXCEPT !.call = "recv", !.sock = x, !.want = n, !.rights = asked, !.all = all])

\* A sleeper runs again: its reference may be the last, a signal or its
\* deadline may end the call, otherwise it looks again.
GivesUp(st, t, k) ==
    IF k.call = "send" /\ k.rights # 0 THEN releaseSocket(Returns(st, t), k.rights) ELSE Returns(st, t)

waitForEvent(t) ==
    LET k == s.tasks[t]
        closed == s.socks[k.sock].refs = 1
        st == releaseSocket(s, k.sock)
    IN /\ On /\ k.call \notin {"none", "poll"} /\ ~k.asleep
       /\ s' = IF closed THEN GivesUp(st, t, k) ELSE Look(st, t, k)

\* A signal or the deadline of a timed call.
Interrupted(t) ==
    LET k == s.tasks[t]
    IN /\ Calls("signal") /\ k.asleep /\ k.call # "poll"
       /\ s' = GivesUp(releaseSocket(s, k.sock), t, k)

----------------------------------------------------------------------------
shutdown(t, h, how) ==
    LET x == Handle(t, h)
        peer == s.socks[x].peer
        here == With(s, x, [s.socks[x] EXCEPT !.readShut = @ \/ how # "wr", !.writeShut = @ \/ how # "rd"])
    IN /\ Calls("shutdown") /\ Ready(t) /\ x # 0
       /\ s.socks[x].connected
       /\ s' = wakeAll(IF how = "rd" \/ peer = 0 THEN here
                       ELSE With(here, peer, [here.socks[peer] EXCEPT !.peerWriteShut = TRUE]))

setNonBlocking(t, h, on) ==
    LET x == Handle(t, h)
    IN /\ Calls("nonblock") /\ Ready(t) /\ x # 0
       /\ s' = With(s, x, [s.socks[x] EXCEPT !.nonBlocking = on])

close(t, h) ==
    LET x == Handle(t, h)
    IN /\ Calls("close") /\ Ready(t) /\ x # 0
       /\ s' = releaseSocket([s EXCEPT !.table = [@ EXCEPT ![OwnerOf[t]] = [@ EXCEPT ![h] = 0]]], x)

\* Readiness for reading.
pollIn(x) ==
    IF s.socks[x].listening THEN s.socks[x].accepts # <<>>
    ELSE \/ s.socks[x].rx # <<>> \/ s.socks[x].readShut
         \/ s.socks[x].connected /\ (s.socks[x].peer = 0 \/ s.socks[x].peerWriteShut)

\* One scan; the sleeper does not keep the socket and looks its handle up anew.
poll(t, h) ==
    /\ Calls("poll") /\ On
    /\ \/ Ready(t) /\ Handle(t, h) # 0
       \/ s.tasks[t].call = "poll" /\ s.tasks[t].want = h /\ ~s.tasks[t].asleep
    /\ s' = IF Handle(t, h) = 0 \/ (Handle(t, h) # 0 /\ pollIn(Handle(t, h))) THEN Returns(s, t)
            ELSE [s EXCEPT !.tasks = [@ EXCEPT ![t] = [Free EXCEPT !.call = "poll", !.want = h, !.asleep = TRUE]]]

----------------------------------------------------------------------------
Init ==
    \E use \in UnixUses :
        s = [part |-> "unix", use |-> use, socks |-> [x \in SocketIds |-> NoSocket],
             table |-> [p \in Owners |-> [h \in UnixSlots |-> 0]], tasks |-> [t \in Threads |-> Free]]

Next ==
    \E t \in Threads :
        \/ waitForEvent(t) \/ Interrupted(t)
        \/ \E type \in {"stream", "seqpacket"} : create(t, type) \/ socketPair(t, type)
        \/ \E h \in UnixSlots :
             \/ bind(t, h) \/ listen(t, h) \/ connect(t, h) \/ accept(t, h) \/ close(t, h) \/ poll(t, h)
             \/ \E n \in 1..2 : \/ \E right \in UnixSlots \union {0} : sendMsg(t, h, n, right)
                                \/ \E asked \in {0, 1}, all \in BOOLEAN : recvMsg(t, h, n, asked, all)
             \/ \E how \in {"rd", "wr", "both"} : shutdown(t, h, how)
             \/ \E on \in BOOLEAN : setNonBlocking(t, h, on)

----------------------------------------------------------------------------
LiveSockets == {x \in SocketIds : s.socks[x] # NoSocket}
Held(x) ==
    Cardinality({<<p, h>> \in Owners \X UnixSlots : s.table[p][h] = x})
    + Cardinality({t \in Threads : s.tasks[t].call \notin {"none", "poll"} /\ s.tasks[t].sock = x})
    + Cardinality({t \in Threads : s.tasks[t].call = "send" /\ s.tasks[t].rights = x})
    + Cardinality({y \in LiveSockets : \E i \in DOMAIN s.socks[y].accepts : s.socks[y].accepts[i] = x})
    + Cardinality({<<y, i>> \in LiveSockets \X (1..(QueueCapacity + 1)) : i \in DOMAIN s.socks[y].rx /\ s.socks[y].rx[i].right = x})

(* A socket lives exactly while something refers to it: a handle, a call    *)
(* that sleeps on it, the queue of a listener, a message on its way.  The   *)
(* two ends of a connection name each other, and an end whose other end is  *)
(* gone or silent knows it.                                                 *)
PeersAgree ==
    On => \A x \in SocketIds :
        LET k == s.socks[x]
        IN /\ k.refs = Held(x)
           /\ k.peer # 0 => /\ k.peer \in LiveSockets /\ s.socks[k.peer].peer = x
                            /\ k.peerWriteShut = s.socks[k.peer].writeShut
           /\ k.connected /\ k.peer = 0 => k.peerWriteShut

(* A receive queue holds the bytes sent and not read, in order and no more  *)
(* than its capacity, and counts them.                                      *)
UnixDelivers ==
    On => \A x \in LiveSockets :
        LET k == s.socks[x]
        IN /\ k.rxBytes = Available(k.rx) /\ k.rxBytes <= QueueCapacity
           /\ k.sent = k.got + k.rxBytes
           /\ \A i \in DOMAIN k.rx : k.rx[i].first + k.rx[i].offset = k.got + 1 + Available(SubSeq(k.rx, 1, i - 1))

(* Nobody sleeps through what it waits for: a receiver or poller while its  *)
(* socket has something to read or is at its end, a sender while there is   *)
(* room or nobody left to read, an accept or a connect while it could go on.*)
UnixWakes ==
    On => \A t \in Threads :
        LET k == s.tasks[t]
            x == s.socks[k.sock]
        IN k.asleep =>
            CASE k.call = "recv"   -> ~pollIn(k.sock)
              [] k.call = "poll"   -> Handle(t, k.want) # 0 => ~pollIn(Handle(t, k.want))
              [] k.call = "accept" -> x.accepts = <<>>
              [] k.call = "send"   -> x.peer # 0 /\ ~x.writeShut /\ ~s.socks[x.peer].readShut /\ queueRoom(s.socks[x.peer]) < k.want
              [] k.call = "connect" -> findBound # {} /\ Len(s.socks[Min(findBound)].accepts) >= 1
============================================================================
