------------------------------ MODULE Sockets ------------------------------
(***************************************************************************)
(* Internet sockets within one host, src/src/cpu/syscall/socket.cpp: ports,*)
(* local streams (connect makes the accepted end at once and queues it on  *)
(* the listener), datagrams between local sockets and from the network,    *)
(* blocking calls and poll. TCP to another host is module Tcp. A socket is *)
(* named by a number and numbers are not used again; a message is named by *)
(* its sender. Addresses are ports of this host, or Far for a remote one.  *)
(***************************************************************************)
EXTENDS Integers, SequencesExt

CONSTANTS MaxSockets,   \* sockets made in a behaviour
          Ports,        \* port numbers a program binds or sends to
          Ephemeral,    \* <<kEphemeralPortStart, kEphemeralPortEnd>>
          Backlog,      \* listenBacklog
          InboxCap,     \* messages queued on a socket in a behaviour
          SocketUses,   \* [calls, max]: what the programs of a behaviour call, and
                        \* how many sockets there are
          Reconnect     \* whether a connected stream calls connect() again

VARIABLE s
\* [part, calls, max, so: socket -> object, list: gSockets, newest first,
\*  eph: gNextEphemeralPort, up: the interface has an address]

On == s.part = "sockets"
Calls(call) == On /\ call \in s.calls
Far == 0
Stranger == -2   \* another remote host
Ids == 1 .. MaxSockets
Fresh == [live |-> FALSE, type |-> "none", port |-> 0, reuse |-> FALSE, listening |-> FALSE,
          connected |-> FALSE, to |-> -1, peer |-> 0, acceptq |-> <<>>, inbox |-> <<>>,
          readClosed |-> FALSE, writeClosed |-> FALSE, error |-> FALSE, refs |-> 0,
          call |-> "none", asleep |-> FALSE]

Init ==
    \E use \in SocketUses :
      s = [part |-> "sockets", calls |-> use.calls, max |-> use.max, so |-> [i \in Ids |-> Fresh], list |-> <<>>,
           eph |-> Ephemeral[1], up |-> "up" \in use.calls]

Made == {i \in Ids : s.so[i].type # "none"}
(* resolveSocket: the calls that follow need a handle to socket i, and a   *)
(* thread that is not asleep in it.                                        *)
resolveSocket(i) == s.so[i].live /\ s.so[i].refs > 0

(* wakeAllBlockedProcesses: every sleeper looks again.                     *)
Wake(so) == [i \in Ids |-> [so[i] EXCEPT !.asleep = FALSE]]

----------------------------------------------------------------------------
(* Ports *)

socketAddressConflicts(so, i, port) ==
    port # 0 /\ \E j \in Ids \ {i} :
      /\ so[j].live /\ so[j].port = port /\ so[j].type = so[i].type
      /\ ~(so[i].reuse /\ so[j].reuse)

(* The next port of the round robin that is free, or 0.                    *)
allocateEphemeralPort(so, i, eph) ==
    LET range == Ephemeral[1] .. Ephemeral[2]
        size == Ephemeral[2] - Ephemeral[1] + 1
        At(k) == Ephemeral[1] + ((eph - Ephemeral[1] + k) % size)
        free == {k \in 0 .. size - 1 : ~socketAddressConflicts(so, i, At(k))}
    IN IF free = {} THEN [port |-> 0, eph |-> eph]
       ELSE [port |-> At(Min(free)), eph |-> At(Min(free) + 1)]

(* A socket that sends or connects without a port gets one.                *)
ensureSocketBound(t, i) ==
    LET a == allocateEphemeralPort(t.so, i, t.eph)
    IN IF t.so[i].port # 0 THEN t ELSE [t EXCEPT !.so[i].port = a.port, !.eph = a.eph]

createSocketObject(t, type) ==
    LET i == 1 + Cardinality({j \in Ids : t.so[j].type # "none"})
    IN [t EXCEPT !.so[i] = [Fresh EXCEPT !.live = TRUE, !.type = type, !.refs = 1],
                 !.list = <<i>> \o @]

sys_socket(type) ==
    /\ Calls(type) /\ Cardinality(Made) < s.max
    /\ s' = createSocketObject(s, type)

sys_bind(i, port) ==
    /\ Calls("bind") /\ resolveSocket(i)
    /\ ~s.so[i].connected /\ ~s.so[i].listening
    /\ LET a == allocateEphemeralPort(s.so, i, s.eph)
           chosen == IF port = 0 THEN a.port ELSE port
       IN /\ chosen # 0 /\ ~socketAddressConflicts(s.so, i, chosen)
          /\ s' = [s EXCEPT !.so[i].port = chosen, !.eph = IF port = 0 THEN a.eph ELSE @]

sys_setsockopt(i) == Calls("setsockopt") /\ resolveSocket(i) /\ s' = [s EXCEPT !.so[i].reuse = ~@]

(* SO_ERROR reports the pending error and clears it.                       *)
sys_getsockopt(i) == Calls("getsockopt") /\ resolveSocket(i) /\ s' = [s EXCEPT !.so[i].error = FALSE]

----------------------------------------------------------------------------
(* Streams *)

findListeningStreamPeer(i, port) ==
    LET found == SelectSeq(s.list, LAMBDA j : /\ j # i /\ s.so[j].type = "stream"
                                              /\ s.so[j].listening /\ s.so[j].port = port)
    IN IF found = <<>> THEN 0 ELSE Head(found)

(* A local listener: the accepted end is made, paired and queued. Without  *)
(* one the connection goes to the network, which is module Tcp; a datagram *)
(* socket remembers its peer.                                              *)
sys_connect(i, port) ==
    /\ Calls("connect") /\ resolveSocket(i) /\ ~s.so[i].listening
    /\ s.so[i].call = "none"
    /\ Reconnect \/ s.so[i].to = -1
    /\ IF s.so[i].type = "stream"
       THEN LET l == findListeningStreamPeer(i, port)
                t == ensureSocketBound(s, i)
                u == createSocketObject(t, "stream")
                a == Head(u.list)
            IN /\ l # 0 /\ Cardinality(Made) < s.max
               /\ Len(s.so[l].acceptq) < Backlog
               /\ s' = [u EXCEPT !.so = Wake([u.so EXCEPT
                          ![a] = [@ EXCEPT !.port = u.so[l].port, !.connected = TRUE,
                                           !.to = u.so[i].port, !.peer = i],
                          ![i] = [@ EXCEPT !.connected = TRUE, !.to = port, !.peer = a],
                          ![l].acceptq = Append(@, a)])]
       ELSE /\ port # Far \/ s.up
            /\ s' = [s EXCEPT !.so[i] = [@ EXCEPT !.error = FALSE, !.connected = TRUE, !.to = port]]

sys_listen(i) ==
    /\ Calls("listen") /\ resolveSocket(i)
    /\ s.so[i].type = "stream" /\ ~s.so[i].connected
    /\ s' = [s EXCEPT !.so[i].listening = TRUE]

(* Mutant: the peer keeps its pointer.                                     *)
DestroyKeepsPeer(t, i) ==
    LET gone == {i} \cup ToSet(t.so[i].acceptq)
    IN [t EXCEPT !.list = SelectSeq(@, LAMBDA j : j \notin gone),
                 !.so = Wake([j \in Ids |-> IF j \in gone
                    THEN [Fresh EXCEPT !.type = t.so[j].type, !.to = t.so[j].to] ELSE t.so[j]])]

(* Local: the listener's queue is closed with it, and the peer sees EOF.   *)
Destroy(t, i) ==
    LET gone == {i} \cup ToSet(t.so[i].acceptq)
        Orphaned(j) == t.so[j].peer \in gone /\ t.so[t.so[j].peer].peer = j
    IN [t EXCEPT !.list = SelectSeq(@, LAMBDA j : j \notin gone),
                 !.so = Wake([j \in Ids |->
                    CASE j \in gone -> [Fresh EXCEPT !.type = t.so[j].type, !.to = t.so[j].to]
                      [] Orphaned(j) -> [t.so[j] EXCEPT !.peer = 0]
                      [] OTHER -> t.so[j]])]

releaseSocketHandle(t, i) ==
    IF t.so[i].refs > 1 THEN [t EXCEPT !.so[i].refs = @ - 1] ELSE Destroy(t, i)

Close(i) ==
    /\ Calls("close") /\ resolveSocket(i)
    /\ s.so[i].refs = IF s.so[i].call = "none" THEN 1 ELSE 2
    /\ i \notin UNION {ToSet(s.so[j].acceptq) : j \in Ids}
    /\ s' = releaseSocketHandle(s, i)

(* A thread that waits holds a reference; when it comes back alone with it *)
(* the socket was closed meanwhile. A signal or the deadline also ends the *)
(* wait.                                                                   *)
waitForSocketEvent(t, i, call) == [t EXCEPT !.so[i] = [@ EXCEPT !.refs = @ + 1, !.call = call, !.asleep = TRUE]]

Interrupt(i) ==
    /\ Calls("signal") /\ s.so[i].asleep
    /\ s' = releaseSocketHandle([s EXCEPT !.so[i].call = "none", !.so[i].asleep = FALSE], i)

(* A call starts, or goes on when it has been woken.                       *)
MayLook(i, call) == s.so[i].live /\ s.so[i].call \in {"none", call} /\ ~s.so[i].asleep
Resumed(i) == IF s.so[i].call = "none" THEN s
              ELSE releaseSocketHandle([s EXCEPT !.so[i].call = "none"], i)
Closed(i) == s.so[i].call # "none" /\ s.so[i].refs = 1

sys_accept(i) ==
    /\ Calls("accept") /\ MayLook(i, "accept") /\ s.so[i].listening
    /\ LET t == Resumed(i)
       IN IF Closed(i) THEN s' = t
          ELSE IF s.so[i].acceptq = <<>> THEN s' = waitForSocketEvent(t, i, "accept")
          ELSE \/ s' = [t EXCEPT !.so[i].acceptq = Tail(@)]
               \/ "full" \in s.calls  \* no handle left: the connection is closed
                  /\ s' = Destroy([t EXCEPT !.so[i].acceptq = Tail(@)], Head(s.so[i].acceptq))

(* i is handed to a program: made by socket(), or accepted.                *)
Held(i) == \A j \in Ids : i \notin ToSet(s.so[j].acceptq)

----------------------------------------------------------------------------
(* Messages *)

enqueueDatagram(so, target, from) == Wake([so EXCEPT ![target].inbox = Append(@, from)])

findDatagramPeer(port) ==
    LET found == SelectSeq(s.list, LAMBDA j : /\ s.so[j].type = "dgram" /\ s.so[j].port # 0
                                              /\ s.so[j].port = port /\ ~s.so[j].readClosed)
    IN IF found = <<>> THEN 0 ELSE Head(found)

Room(i) == Len(s.so[i].inbox) < InboxCap

(* A pending ICMP error is reported instead of sending. A datagram for a   *)
(* port of this host goes straight to its queue, another one to the wire.  *)
sendDatagram(i, port) ==
    LET t == ensureSocketBound(s, i)
        target == IF port = Far THEN 0 ELSE findDatagramPeer(port)
    IN IF s.so[i].error THEN s' = [s EXCEPT !.so[i].error = FALSE]
       ELSE IF target = 0 THEN s' = t
       ELSE Room(target) /\ s' = [t EXCEPT !.so = enqueueDatagram(@, target, i)]

sys_send(i) ==
    /\ Calls("send") /\ resolveSocket(i) /\ Held(i)
    /\ ~s.so[i].writeClosed /\ s.so[i].connected
    /\ IF s.so[i].type = "stream"
       THEN LET p == s.so[i].peer
            IN /\ p # 0 /\ ~s.so[p].readClosed /\ Room(p)
               /\ s' = [s EXCEPT !.so = enqueueDatagram(@, p, i)]
       ELSE sendDatagram(i, s.so[i].to)

sys_sendto(i, port) ==
    /\ Calls("sendto") /\ resolveSocket(i) /\ s.so[i].type = "dgram" /\ ~s.so[i].writeClosed
    /\ port # Far \/ s.up
    /\ sendDatagram(i, port)

(* A ping socket's request to this host is answered on the spot.           *)
sendIcmpEcho(i) ==
    /\ Calls("ping") /\ resolveSocket(i) /\ s.so[i].type = "ping"
    /\ LET t == ensureSocketBound(s, i)
       IN Room(i) /\ s' = [t EXCEPT !.so = enqueueDatagram(@, i, i)]

(* A datagram from the network: the newest socket on the port, a connected *)
(* one only from its peer.                                                 *)
socketDeliverUdpDatagram(port, from) ==
    /\ Calls("network")
    /\ LET found == SelectSeq(s.list, LAMBDA j :
                      /\ s.so[j].type = "dgram" /\ s.so[j].port = port /\ ~s.so[j].readClosed
                      /\ (s.so[j].connected /\ s.so[j].to = Far) => from = Far)
       IN /\ found # <<>> /\ Room(Head(found))
          /\ s' = [s EXCEPT !.so = enqueueDatagram(@, Head(found), from)]

(* An echo reply goes to the ping socket with its identifier.              *)
socketDeliverIcmpEcho(id) ==
    /\ Calls("ping")
    /\ \E i \in Ids : /\ s.so[i].type = "ping" /\ s.so[i].live /\ s.so[i].port = id
                      /\ ~s.so[i].readClosed /\ Room(i)
                      /\ s' = [s EXCEPT !.so = enqueueDatagram(@, i, Far)]

(* A hard ICMP error reaches the connected socket it is about.             *)
socketProcessIcmpError ==
    /\ Calls("network")
    /\ \E i \in Ids : /\ s.so[i].type = "dgram" /\ s.so[i].live /\ s.so[i].port # 0
                      /\ s.so[i].connected /\ s.so[i].to = Far
                      /\ s' = [s EXCEPT !.so = Wake([@ EXCEPT ![i].error = TRUE])]

----------------------------------------------------------------------------
(* What a read of socket i finds: an error, end of file, a message, or     *)
(* nothing yet.                                                            *)
recvFinds(so, i) ==
    LET c == so[i]
    IN CASE c.type # "stream" /\ c.error -> "error"
         [] c.readClosed -> "eof"
         [] c.inbox # <<>> -> "message"
         [] c.type = "stream" /\ (c.peer = 0 \/ so[c.peer].writeClosed) -> "eof"
         [] OTHER -> "nothing"

sys_recvfrom(i) ==
    /\ Calls("recv") /\ MayLook(i, "recv") /\ Held(i)
    /\ LET t == Resumed(i)
       IN IF Closed(i) THEN s' = t
          ELSE CASE recvFinds(s.so, i) = "error" -> s' = [t EXCEPT !.so[i].error = FALSE]
                 [] recvFinds(s.so, i) = "eof" -> s' = t
                 [] recvFinds(s.so, i) = "message" -> s' = [t EXCEPT !.so[i].inbox = Tail(@)]
                 [] OTHER -> s' = waitForSocketEvent(t, i, "recv")

sys_shutdown(i, how) ==
    /\ Calls(how) /\ resolveSocket(i) /\ Held(i)
    /\ s' = [s EXCEPT !.so = Wake([@ EXCEPT ![i].readClosed = @ \/ how # "shut_wr",
                                            ![i].writeClosed = @ \/ how # "shut_rd"])]


(* What poll reports for reading.                                          *)
pollSocketHandle(so, i) ==
    LET c == so[i]
        streamPeerGone == c.type = "stream" /\ c.connected /\ c.peer = 0
    IN (IF c.error THEN {"err"} ELSE {})
         \cup (IF \/ c.acceptq # <<>> \/ c.inbox # <<>> \/ c.readClosed \/ streamPeerGone
                  \/ (c.peer # 0 /\ so[c.peer].writeClosed) THEN {"in"} ELSE {})

Next ==
    \/ \E type \in {"stream", "dgram", "ping"} : sys_socket(type)
    \/ \E i \in Ids : \/ \E p \in Ports \cup {0} : sys_bind(i, p)
                      \/ \E p \in Ports \cup {Far} : sys_connect(i, p)
                      \/ \E p \in Ports \cup {Far} : sys_sendto(i, p)
                      \/ \E how \in {"shut_rd", "shut_wr", "shut_rdwr"} : sys_shutdown(i, how)
                      \/ sys_setsockopt(i) \/ sys_getsockopt(i) \/ sys_listen(i) \/ Close(i)
                      \/ Interrupt(i) \/ sys_accept(i) \/ sys_send(i) \/ sendIcmpEcho(i)
                      \/ sys_recvfrom(i)
    \/ \E p \in Ports, from \in {Far, Stranger} : socketDeliverUdpDatagram(p, from)
    \/ \E p \in Ephemeral[1] .. Ephemeral[2] : socketDeliverIcmpEcho(p)
    \/ socketProcessIcmpError

----------------------------------------------------------------------------
(* Poll and the blocking calls agree: a socket is reported readable exactly*)
(* when a read, or an accept on a listener, would not sleep, after any     *)
(* order of connects, shutdowns, closes and errors. (A stream that was     *)
(* never connected is left out: its read ends at once and poll is silent.) *)
PollAgrees ==
    On => \A i \in Ids : (s.so[i].live /\ Held(i)) =>
      IF s.so[i].listening
      THEN (pollSocketHandle(s.so, i) # {}) = (s.so[i].acceptq # <<>> \/ s.so[i].readClosed)
      ELSE \/ s.so[i].type = "stream" /\ ~s.so[i].connected
           \/ (pollSocketHandle(s.so, i) # {}) = (recvFinds(s.so, i) # "nothing")

(* No thread sleeps in recv or accept on a socket that has something for   *)
(* it: a message, a connection, an error or the end of the stream.         *)
NoSleepWithWork ==
    On => \A i \in Ids :
      s.so[i].asleep => IF s.so[i].call = "recv" THEN recvFinds(s.so, i) = "nothing"
                        ELSE s.so[i].acceptq = <<>>

(* The two ends of a local stream point at each other as long as both      *)
(* exist, and an end whose peer is gone points at nothing, so that its     *)
(* reader sees the end of the stream.                                      *)
LocalPeerSeesEof ==
    On => \A i \in Ids : (s.so[i].live /\ s.so[i].peer # 0) =>
      s.so[s.so[i].peer].live /\ s.so[s.so[i].peer].peer = i
=============================================================================
