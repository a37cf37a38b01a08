-------------------------------- MODULE Tcp --------------------------------
(***************************************************************************)
(* The TCP state machine of src/src/cpu/syscall/socket.cpp: two hosts that *)
(* run this code, "a" which connects and "b" which listens, and a network  *)
(* that loses, repeats and reorders segments. Everything a handler does to *)
(* the connection is done under the kernel lock, so a handler is one step. *)
(*                                                                         *)
(* Sequence numbers are those of the code modulo SeqSpace instead of 2^32;   *)
(* the window is in bytes, without scaling. The congestion window is some  *)
(* value of at least one segment, chosen again whenever it is read, and a  *)
(* fast retransmission may happen at any duplicate or partial ACK: the     *)
(* arithmetic of Reno is left out, every schedule it can give is kept.     *)
(***************************************************************************)
EXTENDS Integers, SequencesExt

CONSTANTS SeqSpace,    \* size of the sequence space
          Isn,         \* host -> initial sequence number
          Mss,         \* bytes of a full segment (kTcpMss)
          RecvBuffer,  \* kTcpReceiveBuffer
          SendCap,     \* kTcpSendBufferCap
          Programs,    \* explored pairs: per host the calls its program makes and the
                       \* segments that may be on their way to it; more are lost
          MaxData,     \* host -> how many bytes its program sends
          SynRetries,  \* kTcpSynRetries
          MaxRetries   \* kTcpMaxRetries

VARIABLE s   \* [part, calls, cap, c: host -> connection, net, listening, queued, opened, born]

Hosts == {"a", "b"}
Other(h) == CHOOSE o \in Hosts : o # h

On == s.part = "tcp"
Calls(h, call) == On /\ call \in s.calls[h] /\ s.c[h].open

SeqAdd(a, n) == (a + n) % SeqSpace
SeqSub(a, b) == (a - b) % SeqSpace
seqLt(a, b) == SeqSub(a, b) >= SeqSpace \div 2
seqLe(a, b) == a = b \/ seqLt(a, b)
seqGt(a, b) == seqLt(b, a)

(* A socket that tcpInitConnection has just prepared; "None": no socket.   *)
tcpInitConnection(isn, st) ==
    [st |-> st, una |-> isn, nxt |-> isn, max |-> isn, seq |-> isn, rcv |-> 0,
     pwnd |-> 0, q |-> <<>>, inq |-> <<>>, reasm |-> {},
     finSent |-> FALSE, finAcked |-> FALSE, peerFin |-> FALSE,
     readClosed |-> FALSE, writeClosed |-> FALSE, connected |-> FALSE,
     error |-> FALSE, orphan |-> FALSE, rtx |-> FALSE, backoff |-> 0,
     ackDue |-> FALSE, announced |-> FALSE, right |-> 0, lastWindow |-> 0,
     open |-> FALSE, op |-> "none", asleep |-> FALSE,
     sent |-> 0, got |-> <<>>, out |-> {}]

Init ==
    \E p \in Programs :
        s = [part |-> "tcp", calls |-> p.calls, cap |-> p.cap, net |-> {},
             c |-> [h \in Hosts |-> tcpInitConnection(0, "None")],
             listening |-> TRUE, queued |-> FALSE, opened |-> FALSE, born |-> FALSE]

----------------------------------------------------------------------------
(* Sending *)

Span(g) == IF g.data # <<>> THEN Len(g.data) ELSE 1
SegEnd(g) == SeqAdd(g.seq, Span(g))

tcpReceiveSpace(c) == IF Len(c.inq) >= RecvBuffer THEN 0 ELSE RecvBuffer - Len(c.inq)

(* The right edge never moves left, and right only by a segment or more.   *)
tcpAdvertisedWindow(c, syn) ==
    LET space == tcpReceiveSpace(c)
        current == IF seqGt(c.right, c.rcv) THEN SeqSub(c.right, c.rcv) ELSE 0
    IN IF ~syn /\ c.announced /\ space < current + Mss THEN current ELSE space

tcpTransmit(c, seq, flags, data, repeatWindow) ==
    LET syn == "S" \in flags
        window == IF repeatWindow /\ c.announced /\ ~syn
                  THEN c.lastWindow ELSE tcpAdvertisedWindow(c, syn)
        seg == [seq |-> seq, ack |-> c.rcv, flags |-> flags, window |-> window, data |-> data]
        sent == [c EXCEPT !.out = @ \cup {seg}, !.ackDue = @ /\ "A" \notin flags]
    IN IF syn THEN sent
       ELSE [sent EXCEPT !.lastWindow = window, !.announced = TRUE,
                         !.right = SeqAdd(c.rcv, window)]

tcpSendControl(c, flags) == tcpTransmit(c, c.nxt, flags, <<>>, FALSE)

tcpSendSegment(c, g) == tcpTransmit(c, g.seq, g.flags, g.data, FALSE)

Later(a, b) == IF seqGt(a, b) THEN a ELSE b

(* Transmit what the windows allow, starting at SND.NXT. cwnd is the value *)
(* of the congestion window at this moment.                                *)
tcpOutput(c, cwnd) ==
    LET first == {i \in 1..Len(c.q) : seqGt(SegEnd(c.q[i]), c.nxt)}
        window == IF cwnd < c.pwnd THEN cwnd ELSE c.pwnd
        Allowed(i) == \/ c.q[i].data = <<>> /\ "F" \in c.q[i].flags
                      \/ SeqSub(SegEnd(c.q[i]), c.una) <= window
                      \/ i = Min(first) /\ c.nxt = c.una /\ c.pwnd > 0
        burst == {i \in first : \A j \in first : j <= i => Allowed(j)}
        segs == [k \in 1..Cardinality(burst) |-> c.q[Min(burst) + k - 1]]
        sent == FoldLeft(tcpSendSegment, c, segs)
        end == IF burst = {} THEN c.nxt ELSE SegEnd(Last(segs))
    IN CASE c.st \in {"SynSent", "SynReceived"} ->
              IF c.q # <<>> /\ "S" \in Head(c.q).flags /\ c.nxt = c.una
              THEN LET e == SegEnd(Head(c.q)) IN
                   [tcpSendSegment(c, Head(c.q)) EXCEPT !.nxt = e, !.max = Later(e, @), !.rtx = TRUE]
              ELSE c
         [] c.st \in {"Closed", "TimeWait"} -> c
         [] OTHER -> [sent EXCEPT !.nxt = end, !.max = Later(end, @), !.rtx = @ \/ first # {}]

tcpQueueSegment(c, flags, data, cwnd) ==
    LET g == [seq |-> c.seq, flags |-> flags, data |-> data]
    IN tcpOutput([c EXCEPT !.q = Append(@, g), !.seq = SegEnd(g)], cwnd)

tcpStartClose(c, cwnd) ==
    IF c.finSent \/ c.st \notin {"Established", "CloseWait", "SynReceived"} THEN c
    ELSE tcpQueueSegment(
           [c EXCEPT !.finSent = TRUE,
                     !.st = IF @ = "CloseWait" THEN "LastAck" ELSE "FinWait1"],
           {"F", "A"}, <<>>, cwnd)

tcpAbort(c) ==
    [c EXCEPT !.error = TRUE, !.readClosed = TRUE, !.writeClosed = TRUE, !.connected = FALSE,
              !.st = "Closed", !.rtx = FALSE, !.ackDue = FALSE, !.q = <<>>, !.reasm = {}]

----------------------------------------------------------------------------
(* Receiving *)

tcpAckSendQueue(c, ack) ==
    LET done == {i \in 1..Len(c.q) : ~seqLt(ack, SegEnd(c.q[i]))}
        una == Later(ack, c.una)
    IN [c EXCEPT !.q = SubSeq(@, Cardinality(done) + 1, Len(@)),
                 !.finAcked = @ \/ \E i \in done : "F" \in c.q[i].flags,
                 !.una = una, !.nxt = IF seqLt(@, una) THEN una ELSE @]

(* resend: a duplicate or partial ACK makes the congestion control send    *)
(* the oldest unacknowledged segment again.                                *)
tcpProcessAck(c, m, resend) ==
    LET c1 == [c EXCEPT !.pwnd = m.window]
        c2 == [tcpAckSendQueue(c1, m.ack) EXCEPT !.backoff = 0]
        c3 == IF resend /\ c2.q # <<>> THEN tcpSendSegment(c2, Head(c2.q)) ELSE c2
        c4 == [c1 EXCEPT !.backoff = IF m.window = 0 THEN 0 ELSE @]
        duplicate == m.data = <<>> /\ "F" \notin m.flags /\ m.window = c.pwnd /\ c.una # c.max
    IN CASE seqGt(m.ack, c.max) -> tcpSendControl(c, {"A"})
         [] seqLt(m.ack, c.una) -> c
         [] seqGt(m.ack, c.una) -> [c3 EXCEPT !.rtx = c3.una # c3.max]
         [] OTHER -> IF duplicate /\ resend /\ c4.q # <<>>
                     THEN [tcpSendSegment(c4, Head(c4.q)) EXCEPT !.rtx = TRUE] ELSE c4

(* Held segments that continue the stream move to the receive queue,       *)
(* without the bytes that are there already.                               *)
RECURSIVE tcpDrainReassembly(_)
tcpDrainReassembly(c) ==
    LET ready == {r \in c.reasm : seqLe(r.seq, c.rcv)}
        r == CHOOSE r \in ready : TRUE
        skip == SeqSub(c.rcv, r.seq)
        rest == SubSeq(r.data, skip + 1, Len(r.data))
    IN IF ready = {} THEN c
       ELSE tcpDrainReassembly([c EXCEPT !.reasm = @ \ {r}, !.inq = @ \o rest,
                                         !.rcv = SeqAdd(@, Len(rest))])

(* delay: no PSH, no quick ACK left, not the second segment: the ACK waits *)
(* for its timer.                                                          *)
tcpReceiveData(c, m, delay) ==
    LET skip == IF seqLt(m.seq, c.rcv) THEN SeqSub(c.rcv, m.seq) ELSE 0
        seq == SeqAdd(m.seq, skip)
        offset == SeqSub(seq, c.rcv)
        space == tcpReceiveSpace(c)
        room == IF space > offset THEN space - offset ELSE 0
        data == SubSeq(m.data, skip + 1, Min({Len(m.data), skip + room}))
        held == [c EXCEPT !.reasm = @ \cup {[seq |-> seq, data |-> data]}]
        taken == [c EXCEPT !.inq = @ \o data, !.rcv = SeqAdd(@, Len(data))]
        drained == tcpDrainReassembly(taken)
    IN CASE skip >= Len(m.data) -> tcpTransmit(c, c.nxt, {"A"}, <<>>, TRUE)
         [] skip < Len(m.data) /\ offset >= space -> tcpSendControl(c, {"A"})
         [] skip < Len(m.data) /\ offset < space /\ offset # 0 ->
              tcpTransmit(IF \E r \in c.reasm : r.seq = seq /\ Len(r.data) >= Len(data)
                          THEN c ELSE held, c.nxt, {"A"}, <<>>, TRUE)
         [] OTHER -> IF ~delay \/ drained.rcv # taken.rcv \/ drained.reasm # {}
                     THEN tcpSendControl(drained, {"A"})
                     ELSE [drained EXCEPT !.ackDue = TRUE]

(* Our SYN or FIN acknowledged: the handshake or the close advances.       *)
Acknowledged(c) ==
    LET e == IF c.st = "SynReceived" /\ c.una = c.max
             THEN [c EXCEPT !.st = "Established", !.connected = TRUE] ELSE c
    IN CASE ~e.finAcked -> e
         [] e.finAcked /\ e.st = "FinWait1" -> [e EXCEPT !.st = "FinWait2"]
         [] e.finAcked /\ e.st = "Closing" -> [e EXCEPT !.st = "TimeWait"]
         [] e.finAcked /\ e.st = "LastAck" ->
              [e EXCEPT !.st = "Closed", !.connected = FALSE, !.rtx = FALSE]
         [] OTHER -> e

(* Mutant: a FIN is taken before the data in front of it.                  *)
FinAnywhere(c, m) ==
    IF "F" \notin m.flags \/ c.peerFin THEN c
    ELSE tcpSendControl([c EXCEPT !.rcv = SeqAdd(@, 1), !.peerFin = TRUE, !.readClosed = TRUE,
                                  !.st = "CloseWait"], {"A"})

(* The peer's FIN counts once everything before it is in.                  *)
PeerFin(c, m) ==
    LET finSeq == SeqAdd(m.seq, Len(m.data))
        seen == tcpSendControl([c EXCEPT !.rcv = SeqAdd(@, 1), !.peerFin = TRUE,
                                         !.readClosed = TRUE], {"A"})
    IN CASE "F" \notin m.flags -> c
         [] "F" \in m.flags /\ finSeq = c.rcv /\ ~c.peerFin ->
              [seen EXCEPT !.st =
                 CASE @ \in {"Established", "SynReceived"} -> "CloseWait"
                   [] @ = "FinWait1" -> IF c.finAcked THEN "TimeWait" ELSE "Closing"
                   [] @ = "FinWait2" -> "TimeWait"
                   [] OTHER -> @]
         [] OTHER -> IF c.peerFin /\ SeqAdd(finSeq, 1) = c.rcv THEN tcpSendControl(c, {"A"}) ELSE c

AcceptsData(c) == c.st \in {"Established", "FinWait1", "FinWait2"}

(* A segment in a synchronized state: ACK, then data, then FIN, then what  *)
(* the windows now allow.                                                  *)
Synchronized(c, m, cwnd, resend, delay) ==
    LET c1 == Acknowledged(tcpProcessAck(c, m, resend))
        c2 == IF m.data # <<>> /\ AcceptsData(c1) THEN tcpReceiveData(c1, m, delay) ELSE c1
    IN CASE c1.st = "Closed" -> c1
         [] c1.st # "Closed" /\ m.data # <<>> /\ AcceptsData(c1) /\ c1.orphan ->
              tcpAbort(tcpTransmit(c1, c1.max, {"R", "A"}, <<>>, FALSE))
         [] OTHER -> tcpOutput(PeerFin(c2, m), cwnd)

(* RST: only one that answers our SYN, or that falls in the window.        *)
Reset(c, m) ==
    LET window == IF tcpReceiveSpace(c) > 0 THEN tcpReceiveSpace(c) ELSE 1
    IN IF c.st = "SynSent"
       THEN IF "A" \in m.flags /\ m.ack = c.max THEN tcpAbort(c) ELSE c
       ELSE IF seqLt(m.seq, c.rcv) \/ ~seqLt(m.seq, SeqAdd(c.rcv, window)) THEN c ELSE tcpAbort(c)

(* A segment for no connection is answered with a RST.                     *)
Refusal(m) ==
    IF "R" \in m.flags THEN {}
    ELSE IF "A" \in m.flags
    THEN {[seq |-> m.ack, ack |-> 0, flags |-> {"R"}, window |-> 0, data |-> <<>>]}
    ELSE {[seq |-> 0, ack |-> SeqAdd(m.seq, Len(m.data) + Cardinality(m.flags \cap {"S", "F"})),
           flags |-> {"R", "A"}, window |-> 0, data |-> <<>>]}

(* What a connection in SYN-SENT makes of a segment.                       *)
Opening(c, m, cwnd) ==
    LET synced == [c EXCEPT !.rcv = SeqAdd(m.seq, 1), !.pwnd = m.window]
        open == [tcpAckSendQueue(synced, m.ack) EXCEPT !.backoff = 0, !.rtx = FALSE,
                                         !.st = "Established", !.connected = TRUE]
        crossed == [synced EXCEPT !.st = "SynReceived", !.nxt = @]
    IN CASE {"S", "A"} \subseteq m.flags ->
              IF m.ack # c.max THEN [c EXCEPT !.out = @ \cup Refusal(m)]
              ELSE tcpSendControl(open, {"A"})
         [] "S" \in m.flags /\ "A" \notin m.flags ->
              IF crossed.q = <<>> THEN crossed
              ELSE tcpOutput([crossed EXCEPT !.q[1].flags = {"S", "A"}, !.nxt = crossed.una], cwnd)
         [] OTHER -> c

processTcpSegment(c, m, cwnd, resend, delay) ==
    CASE "R" \in m.flags -> Reset(c, m)
      [] "R" \notin m.flags /\ c.st = "SynSent" -> Opening(c, m, cwnd)
      [] "R" \notin m.flags /\ c.st # "SynSent" /\ "S" \in m.flags ->
           IF c.st = "SynReceived" /\ c.q # <<>> THEN tcpSendSegment(c, Head(c.q))
           ELSE tcpSendControl(c, {"A"})
      [] OTHER -> IF "A" \notin m.flags THEN c ELSE Synchronized(c, m, cwnd, resend, delay)

----------------------------------------------------------------------------
(* The two machines *)

(* What the schedule may do at host h: shrink the congestion window to a   *)
(* segment, retransmit early, delay an ACK.                                *)
May(h, what) == IF what \in s.calls[h] THEN BOOLEAN ELSE {FALSE}
Cwnds(h) == IF "slow" \in s.calls[h] THEN {Mss, SeqSpace} ELSE {SeqSpace}

(* Segments go to the other host; those the network has no room for, and   *)
(* any others, are lost.                                                   *)
Transmit(net, h, out) ==
    LET new == {[to |-> Other(h)] @@ m : m \in out} \ net
        room == s.cap[Other(h)] - Cardinality({m \in net : m.to = Other(h)})
    IN IF Cardinality(new) <= room THEN net \cup new
       ELSE IF room = 0 THEN net
       ELSE net \cup {CHOOSE m \in new : \A n \in new : seqLe(m.seq, n.seq)}

(* Host h's connection becomes c; what it emitted enters the network.      *)
Step(h, c, net) ==
    s' = [s EXCEPT !.c[h] = [c EXCEPT !.out = {}], !.net = Transmit(net, h, c.out)]

(* Mutant: the change is made and nobody is told.                          *)
NotWoken(c) == c

(* wakeAllBlockedProcesses: whoever sleeps in a call looks again.          *)
Woken(c) == [c EXCEPT !.asleep = FALSE]

Gone(c) == [tcpInitConnection(0, "None") EXCEPT !.sent = c.sent, !.got = c.got]

(* The last reference is gone: finish the close alone as an orphan, or,    *)
(* with unread data or in another state, reset the peer and disappear.     *)
tcpBeginOrphan(c, cwnd) ==
    [tcpStartClose(c, cwnd) EXCEPT !.orphan = TRUE, !.readClosed = TRUE]

MayOrphan(c) ==
    /\ c.st \in {"Established", "CloseWait", "SynReceived", "FinWait1", "FinWait2", "Closing", "LastAck"}
    /\ c.inq = <<>>

destroySocketObject(c, cwnd) ==
    IF ~c.orphan /\ MayOrphan(c) THEN Woken(tcpBeginOrphan(c, cwnd))
    ELSE LET rst == [seq |-> c.max, ack |-> c.rcv, flags |-> {"R", "A"}, window |-> 0, data |-> <<>>]
         IN [Gone(c) EXCEPT !.out = IF c.st \in {"Closed", "TimeWait"} THEN c.out ELSE c.out \cup {rst}]

----------------------------------------------------------------------------
(* System calls *)

(* connect() to a remote host: the SYN is queued, the caller sleeps.       *)
Connect ==
    /\ On /\ s.c["a"].st = "None" /\ ~s.opened
    /\ \E cwnd \in Cwnds("a") :
         LET c == tcpInitConnection(Isn["a"], "SynSent")
             syn == tcpQueueSegment([c EXCEPT !.open = TRUE], {"S"}, <<>>, cwnd)
         IN s' = [s EXCEPT !.c["a"] = [syn EXCEPT !.out = {}, !.op = "connect", !.asleep = TRUE],
                           !.net = Transmit(@, "a", syn.out), !.opened = TRUE]

(* Where the loop of connect() ends; otherwise it sleeps again.            *)
ConnectReturns(c) == c.error \/ c.st \notin {"SynSent", "SynReceived"}

(* Where the loop of recv() ends: an error or EOF once the queue is        *)
(* drained, or data.                                                       *)
RecvReturns(c) == c.inq # <<>> \/ c.error \/ c.readClosed \/ c.peerFin

tcpSendWindowUpdate(c) ==
    LET now == tcpAdvertisedWindow(c, FALSE)
    IN IF /\ c.st \in {"Established", "FinWait1", "FinWait2"}
          /\ now > c.lastWindow /\ now - c.lastWindow >= 2 * Mss
       THEN tcpSendControl(c, {"A"}) ELSE c

RecvResult(c, n) ==
    LET k == Min({n, Len(c.inq)})
        read == [c EXCEPT !.got = @ \o SubSeq(c.inq, 1, k), !.inq = SubSeq(@, k + 1, Len(@))]
    IN IF c.inq = <<>> THEN [c EXCEPT !.error = FALSE, !.op = "none"]
       ELSE tcpSendWindowUpdate([read EXCEPT !.op = "none"])

sys_recvfrom(h, n) ==
    /\ Calls(h, "recv") /\ s.c[h].op = "none"
    /\ Step(h, IF RecvReturns(s.c[h]) THEN RecvResult(s.c[h], n)
               ELSE [s.c[h] EXCEPT !.op = "recv", !.asleep = TRUE], s.net)

(* A sleeper that was woken: it sees that the handle is gone (EBADF, and   *)
(* its own reference was the last), returns, or sleeps again.              *)
waitForSocketEvent(h) ==
    LET c == s.c[h]
        done == (c.op = "connect" /\ ConnectReturns(c)) \/ (c.op = "recv" /\ RecvReturns(c))
        back == [c EXCEPT !.op = "none"]
    IN /\ On /\ c.op # "none" /\ ~c.asleep
       /\ \E cwnd \in Cwnds(h) :
            Step(h, CASE ~c.open -> destroySocketObject(back, cwnd)
                      [] c.open /\ done /\ c.op = "connect" -> [back EXCEPT !.error = FALSE]
                      [] c.open /\ done /\ c.op = "recv" -> RecvResult(c, Mss)
                      [] OTHER -> [c EXCEPT !.asleep = TRUE], s.net)

(* send() of at most a segment while the send queue has room. The error    *)
(* of a connection that failed is reported once.                           *)
sys_send(h) ==
    LET c == s.c[h]
        n == Min({Mss, MaxData[h] - c.sent})
        data == [i \in 1..n |-> c.sent + i]
    IN /\ Calls(h, "send") /\ ~c.writeClosed /\ c.connected
       /\ c.st \in {"Established", "CloseWait"} /\ n > 0
       /\ SeqSub(c.seq, c.una) + n <= SendCap
       /\ \E cwnd \in Cwnds(h) :
            Step(h, tcpQueueSegment([c EXCEPT !.sent = @ + n], {"P", "A"}, data, cwnd), s.net)

sys_shutdown(h) ==
    /\ Calls(h, "shutdown") /\ ~s.c[h].writeClosed
    /\ \E cwnd \in Cwnds(h) :
         Step(h, Woken(tcpStartClose([s.c[h] EXCEPT !.writeClosed = TRUE], cwnd)), s.net)

(* close(): the handle goes; a call that still sleeps keeps the socket.    *)
releaseSocketHandle(h) ==
    LET c == [s.c[h] EXCEPT !.open = FALSE]
    IN /\ Calls(h, "close")
       /\ IF c.op # "none" THEN Step(h, c, s.net)
          ELSE \E cwnd \in Cwnds(h) : Step(h, destroySocketObject(c, cwnd), s.net)

(* accept() takes the head of the queue, whatever its state.               *)
sys_accept ==
    /\ On /\ s.listening /\ s.queued
    /\ s' = [s EXCEPT !.queued = FALSE, !.c["b"].open = TRUE]

CloseListener ==
    /\ On /\ s.listening /\ "unlisten" \in s.calls["b"]
    /\ \E cwnd \in Cwnds("b") :
         LET c == IF s.queued THEN destroySocketObject(s.c["b"], cwnd) ELSE s.c["b"]
         IN s' = [s EXCEPT !.listening = FALSE, !.queued = FALSE,
                           !.c["b"] = [c EXCEPT !.out = {}], !.net = Transmit(@, "b", c.out)]

----------------------------------------------------------------------------
(* The network and the timers *)

(* A SYN for the listener makes a connection in SYN-RECEIVED; "b" is made  *)
(* at most once.                                                           *)
PassiveOpen(m, cwnd) ==
    LET c == [tcpInitConnection(Isn["b"], "SynReceived") EXCEPT
                 !.rcv = SeqAdd(m.seq, 1), !.pwnd = m.window]
    IN tcpQueueSegment(c, {"S", "A"}, <<>>, cwnd)

Fresh(h) == h = "b" /\ s.listening /\ ~s.born

(* A segment arrives; repeat: the network delivers it again later.         *)
socketProcessTcpSegment(m, repeat) ==
    LET h == m.to
        c == s.c[h]
        net == IF repeat THEN s.net ELSE s.net \ {m}
    IN /\ On
       /\ \E cwnd \in Cwnds(h), resend \in May(h, "resend"), delay \in May(h, "delay") :
            CASE c.st # "None" -> Step(h, Woken(processTcpSegment(c, m, cwnd, resend, delay)), net)
              [] c.st = "None" /\ m.flags = {"S"} /\ Fresh(h) ->
                   LET new == PassiveOpen(m, cwnd)
                   IN s' = [s EXCEPT !.c[h] = [new EXCEPT !.out = {}], !.queued = TRUE, !.born = TRUE,
                                     !.net = Transmit(net, h, new.out)]
              [] OTHER -> Step(h, [c EXCEPT !.out = Refusal(m)], net)

Lose(m) == On /\ s' = [s EXCEPT !.net = @ \ {m}]

(* An ICMP error about a segment in flight kills a handshake.              *)
socketProcessIcmpError(h) ==
    /\ On /\ "icmp" \in s.calls[h] /\ s.c[h].st \in {"SynSent", "SynReceived"}
    /\ Step(h, Woken(tcpAbort(s.c[h])), s.net)

(* The retransmission timer: give up, probe a closed window, or go back to *)
(* the oldest unacknowledged byte.                                         *)
Timeout(c, cwnd) ==
    LET limit == IF c.st \in {"SynSent", "SynReceived"} THEN SynRetries ELSE MaxRetries
        off == [c EXCEPT !.rtx = FALSE]
        again == [off EXCEPT !.backoff = @ + 1]
        e == SegEnd(Head(c.q))
    IN CASE c.q = <<>> -> off
         [] c.q # <<>> /\ c.backoff >= limit -> Woken(tcpAbort(off))
         [] c.q # <<>> /\ c.backoff < limit /\ c.una = c.max ->
              [tcpSendSegment(again, Head(c.q)) EXCEPT !.nxt = e, !.max = e, !.rtx = TRUE]
         [] OTHER -> tcpOutput([again EXCEPT !.nxt = c.una], cwnd)

(* due: the deadlines that have passed.                                    *)
tcpTimers(c, due, cwnd) ==
    LET c1 == IF "ack" \in due THEN tcpSendControl(c, {"A"}) ELSE c
    IN IF c.st = "TimeWait"
       THEN IF "timewait" \in due
            THEN [c1 EXCEPT !.st = "Closed", !.connected = FALSE, !.q = <<>>, !.reasm = {}] ELSE c1
       ELSE IF "rtx" \in due THEN Timeout(c1, cwnd) ELSE c1

Armed(c) ==
    {d \in {"ack", "timewait", "rtx", "orphan"} :
       CASE d = "ack" -> c.ackDue [] d = "rtx" -> c.rtx
         [] d = "orphan" -> c.orphan [] d = "timewait" -> c.st = "TimeWait"}

socketTcpTick(h) ==
    LET c == s.c[h]
    IN /\ On /\ c.st # "None"
       /\ \E cwnd \in Cwnds(h), due \in SUBSET Armed(c) :
            LET t == tcpTimers(c, due, cwnd)
                dead == c.orphan /\ (t.st = "Closed" \/ "orphan" \in due)
            IN /\ due # {} \/ dead
               /\ Step(h, IF dead THEN destroySocketObject(t, cwnd) ELSE t, s.net)

InFlight == IF On THEN s.net ELSE {}

Next ==
    \/ Connect
    \/ \E h \in Hosts : sys_recvfrom(h, Mss)
    \/ \E h \in Hosts : waitForSocketEvent(h)
    \/ \E h \in Hosts : sys_send(h)
    \/ \E h \in Hosts : sys_shutdown(h)
    \/ \E h \in Hosts : releaseSocketHandle(h)
    \/ sys_accept
    \/ CloseListener
    \/ \E m \in InFlight, repeat \in BOOLEAN : socketProcessTcpSegment(m, repeat)
    \/ \E m \in InFlight : Lose(m)
    \/ \E h \in Hosts : socketProcessIcmpError(h)
    \/ \E h \in Hosts : socketTcpTick(h)

----------------------------------------------------------------------------
(* The bytes of h's program that the other host has taken in order.        *)
Stream(h) == s.c[Other(h)].got \o s.c[Other(h)].inq

(* What a program reads is what the other one sent: no byte is lost,       *)
(* repeated or out of order, whatever the network does to the segments     *)
(* (tcpReceiveData trims, tcpBufferOutOfOrder holds, tcpDrainReassembly    *)
(* joins).                                                                 *)
StreamIntact ==
    On => \A h \in Hosts : Stream(h) = [i \in 1..Len(Stream(h)) |-> i]

(* End of file means the end: when a host has taken the peer's FIN, it has *)
(* taken every byte the peer's program sent.                               *)
EofIsComplete ==
    On => \A h \in Hosts : s.c[Other(h)].peerFin => Len(Stream(h)) = s.c[h].sent

(* A sender forgets a byte only when the receiver has it: SND.UNA is never *)
(* ahead of the RCV.NXT of a peer in the middle of the conversation.       *)
AckedIsReceived ==
    On => \A h \in Hosts :
        (s.c[h].connected /\ s.c[Other(h)].connected) => seqLe(s.c[h].una, s.c[Other(h)].rcv)

(* TCP delivers: the stream is intact, its end is its end, and nothing is  *)
(* forgotten by the sender before the receiver has it.                     *)
TcpDelivers == StreamIntact /\ EofIsComplete /\ AckedIsReceived

(* Nobody sleeps in connect() or recv() through the event it waits for:    *)
(* every path that changes a connection wakes the sleepers.                *)
NoSleepThroughEvent ==
    On => \A h \in Hosts : s.c[h].asleep =>
        /\ s.c[h].op = "connect" => ~ConnectReturns(s.c[h])
        /\ s.c[h].op = "recv" => ~RecvReturns(s.c[h])
=============================================================================
