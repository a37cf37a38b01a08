-------------------------------- MODULE Nic --------------------------------
(***************************************************************************)
(* The network cards: the registry that picks one driver                   *)
(* (drivers/net/net_device.cpp), the rings of the Intel (e1000.cpp),       *)
(* Realtek (rtl8169.cpp, rtl8139.cpp) and virtio (virtio_net.cpp,          *)
(* virtio.cpp) drivers, and the pump that drains them (cpu/syscall/        *)
(* net.cpp).  A frame is a number.  The cards are external: they send and  *)
(* fill descriptors in order, whenever the ring shows them one.            *)
(*                                                                         *)
(* One record of state serves the four drivers: ring holds a frame per     *)
(* descriptor (Empty: the driver's), current is the driver's position and  *)
(* head the card's.  tail is the e1000's tail register; avail, used and    *)
(* free are the queues of virtio; the RTL8139's receive ring is a stretch  *)
(* of memory in which a frame of n words takes n + 1.                      *)
(***************************************************************************)
EXTENDS Integers, Sequences, FiniteSets

CONSTANTS
    NicUses,       \* what a behaviour exercises
    NicDescs,      \* descriptors of a ring
    NicWords,      \* words of the RTL8139's receive ring
    NicFrames,     \* frames that arrive, and frames that are sent
    kRxNotifyBatch \* buffers virtio hands back between two notifications

VARIABLE s

On == s.part = "nic"
May(what) == what \in s.use.may
Slots == 0 .. NicDescs - 1
Drivers == <<"virtio", "e1000", "rtl8169", "rtl8139">>
Empty == [frame |-> 0, good |-> FALSE, at |-> 0]
After(i) == (i + 1) % NicDescs

NoRing == [ring |-> [i \in Slots |-> Empty], current |-> 0, head |-> 0, tail |-> 0,
           avail |-> <<>>, used |-> <<>>, free |-> <<>>, told |-> 0, starved |-> FALSE,
           since |-> 0, words |-> <<>>]

-----------------------------------------------------------------------------
(* Setting the cards up.                                                   *)

(* Every receive descriptor is the card's, but the e1000's tail stops it   *)
(* one short; every transmit descriptor is the driver's.                   *)
setupRx == [NoRing EXCEPT !.tail = NicDescs - 1]
setupTx == NoRing
E1000Rings == [rx |-> setupRx, tx |-> setupTx]

setupRings == [rx |-> NoRing, tx |-> NoRing]
Rtl8169Rings == setupRings
Rtl8139Rings == setupRings

(* The receive queue is handed over whole before the card starts.          *)
setupQueues == [NoRing EXCEPT !.free = [i \in 1 .. NicDescs |-> i - 1]]
fillRxQueue(q) ==
    [q EXCEPT !.avail = [i \in 1 .. NicDescs |-> NicDescs - i], !.told = NicDescs, !.free = <<>>]
VirtioRings == [rx |-> fillRxQueue(setupQueues), tx |-> setupQueues]

RingsOf(d) == CASE d = "e1000" -> E1000Rings
                [] d = "rtl8169" -> Rtl8169Rings
                [] d = "rtl8139" -> Rtl8139Rings
                [] d = "virtio" -> VirtioRings

(* MSI or MSI-X if the card and the APIC have it, INTx, or none at all;    *)
(* the RTL8139 is polled.                                                  *)
setupInterrupts(d) == IF d = "rtl8139" THEN {"none"} ELSE s.use.irq

initialize(t, d, irq) ==
    [t EXCEPT !.active = d, !.irqMode = irq, !.rx = RingsOf(d).rx, !.tx = RingsOf(d).tx]

(* Drivers whose card is there and comes up, in the order of their         *)
(* probePriority; ok is the set of cards that work this time.              *)
Probed(ok) == SelectSeq(Drivers, LAMBDA d : d \in ok)

(* NetDeviceRegistry::active: the device it settled on, one that is        *)
(* initialized, or the first that can be; it looks again at the next call  *)
(* when there is none.                                                     *)
active ==
    /\ On /\ s.active = "none"
    /\ \E ok \in SUBSET s.use.present :
          /\ ok = s.use.present \/ May("bad card")
          /\ IF ok = {} THEN UNCHANGED s
             ELSE \E irq \in setupInterrupts(Head(Probed(ok))) :
                     s' = initialize(s, Head(Probed(ok)), irq)

(* The pump runs from the timer and the interrupt once main has set it up. *)
netEnableTimerPump ==
    /\ On /\ s.active # "none" /\ ~s.ticking
    /\ s' = [s EXCEPT !.ticking = TRUE]

-----------------------------------------------------------------------------
(* Sending.  A descriptor the card still has is waited for, and after a    *)
(* while the call fails.                                                   *)

SendE1000(t, f) ==
    LET d == t.tx.current
    IN  [t EXCEPT !.tx.ring[d] = [frame |-> f, good |-> TRUE, at |-> 0],
                  !.tx.current = After(d), !.tx.tail = After(d)]

(* The word that names the length also hands the descriptor over.          *)
SendRtl8169(t, f) ==
    LET d == t.tx.current
    IN  [t EXCEPT !.tx.ring[d] = [frame |-> f, good |-> TRUE, at |-> 0], !.tx.current = After(d)]

(* The RTL8139 takes its descriptors in turn as well.                      *)
SendRtl8139(t, f) == SendRtl8169(t, f)

allocDesc(q) == q.free[Len(q.free)]
freeDesc(q, d) == [q EXCEPT !.free = Append(@, d), !.ring[d] = Empty]
setDesc(q, d, f) == [q EXCEPT !.free = SubSeq(@, 1, Len(@) - 1), !.ring[d] = f]
addAvail(q, d) == [q EXCEPT !.avail = Append(@, d)]
hasUsed(q) == q.used # <<>>
getUsed(q) == [q EXCEPT !.used = Tail(@)]
notifyQueue(q) == [q EXCEPT !.told = Len(q.avail), !.starved = FALSE]

reclaimTxCompletions(q) ==
    [q EXCEPT !.free = @ \o q.used, !.used = <<>>,
              !.ring = [d \in Slots |-> IF \E i \in DOMAIN q.used : q.used[i] = d THEN Empty ELSE @[d]]]

SendVirtio(t, f) ==
    LET q == reclaimTxCompletions(t.tx)
        d == allocDesc(q)
    IN  [t EXCEPT !.tx = notifyQueue(addAvail(setDesc(q, d, [frame |-> f, good |-> TRUE, at |-> 0]), d))]

Full(t) ==
    IF t.active = "virtio" THEN reclaimTxCompletions(t.tx).free = <<>>
    ELSE t.tx.ring[t.tx.current] # Empty

Sent(t, f) == CASE t.active = "e1000" -> SendE1000(t, f)
                [] t.active = "virtio" -> SendVirtio(t, f)
                [] t.active = "rtl8169" -> SendRtl8169(t, f)
                [] t.active = "rtl8139" -> SendRtl8139(t, f)

(* The stack, a program with sys_net_send or the pump itself sends.        *)
sendPacket ==
    /\ On /\ s.active # "none" /\ Len(s.accepted) < NicFrames
    /\ ~Full(s)
    /\ s.active = "e1000" => (May("far behind") \/ After(s.tx.current) # s.tx.head)
    /\ s' = [Sent(s, Len(s.accepted) + 1) EXCEPT !.accepted = Append(@, Len(s.accepted) + 1)]

-----------------------------------------------------------------------------
(* Receiving.  Each returns the new state; what it found is in found: a    *)
(* frame, or 0 when there is none or the card marked it bad.               *)

Take(t, d) == IF t.rx.ring[d].good THEN t.rx.ring[d].frame ELSE 0

ReceiveE1000(t) ==
    LET d == t.rx.current
    IN  IF t.rx.ring[d] = Empty THEN [t EXCEPT !.found = 0]
        ELSE [t EXCEPT !.found = Take(t, d), !.rx.ring[d] = Empty, !.rx.tail = d, !.rx.current = After(d),
                       !.left = @ \/ ~t.rx.ring[d].good]

(* The RTL8169 driver goes on to the next frame when one is bad.           *)
RECURSIVE ReceiveRtl8169(_)
ReceiveRtl8169(t) ==
    LET d == t.rx.current
        u == [t EXCEPT !.rx.ring[d] = Empty, !.rx.current = After(d), !.found = Take(t, d)]
    IN  IF t.rx.ring[d] = Empty THEN [t EXCEPT !.found = 0]
        ELSE IF t.rx.ring[d].good THEN u
        ELSE ReceiveRtl8169(u)

(* The entry at the read offset; the next one starts behind it.            *)
ReceiveRtl8139(t) ==
    IF t.rx.current = t.rx.head THEN [t EXCEPT !.found = 0]
    ELSE LET e == CHOOSE i \in DOMAIN t.rx.words : t.rx.words[i].at = t.rx.current
             entry == t.rx.words[e]
         IN  [t EXCEPT !.found = IF entry.good THEN entry.frame ELSE 0,
                       !.rx.current = (@ + entry.len + 1) % NicWords,
                       !.rx.words = SelectSeq(@, LAMBDA x : x # entry),
                       !.left = @ \/ ~entry.good]

(* The buffer goes straight back; the card is told of a batch of them, or  *)
(* when there is nothing left to read.                                     *)
queueRxBuffer(q) ==
    LET d == allocDesc(q)
    IN  addAvail(setDesc(q, d, Empty), d)
ReceiveVirtio(t) ==
    IF ~hasUsed(t.rx) THEN [t EXCEPT !.found = 0]
    ELSE LET d == Head(t.rx.used)
             q == queueRxBuffer(freeDesc(getUsed(t.rx), d))
             told == q.since + 1 >= kRxNotifyBatch \/ ~hasUsed(q)
         IN  [t EXCEPT !.found = t.rx.ring[d].frame,
                       !.rx = IF told THEN [notifyQueue(q) EXCEPT !.since = 0]
                              ELSE [q EXCEPT !.since = @ + 1]]

receivePacket(t) ==
    CASE t.active = "e1000" -> ReceiveE1000(t)
      [] t.active = "rtl8169" -> ReceiveRtl8169(t)
      [] t.active = "rtl8139" -> ReceiveRtl8139(t)
      [] t.active = "virtio" -> ReceiveVirtio(t)

Given(t) == [t EXCEPT !.delivered = IF t.found = 0 THEN @ ELSE Append(@, t.found)]

(* pumpPackets: until receivePacket has nothing to give.                   *)
Pump(t) == [t EXCEPT !.pumping = TRUE, !.left = FALSE]
pumpPackets ==
    /\ On /\ s.pumping
    /\ LET t == receivePacket(s)
       IN  s' = [Given(t) EXCEPT !.pumping = t.found # 0]

(* The timer drains a polled card at every tick, another one with the      *)
(* protocol timers.                                                        *)
netTimerTick ==
    /\ On /\ s.ticking /\ ~s.pumping
    /\ s' = Pump(s)

(* The cause is acknowledged before the ring is drained.  Before the pump  *)
(* is set up nothing is drained.                                           *)
claimInterrupt(t) == [t EXCEPT !.cause = FALSE]
netDeviceInterrupt ==
    /\ On /\ ~s.pumping
    /\ s.irqMode # "none" /\ s.cause
    /\ s' = IF s.ticking THEN Pump(claimInterrupt(s)) ELSE [claimInterrupt(s) EXCEPT !.left = TRUE]

(* A program takes a frame itself.                                         *)
sys_net_recv ==
    /\ On /\ May("raw") /\ s.active # "none" /\ ~s.pumping
    /\ s' = Given(receivePacket(s))

-----------------------------------------------------------------------------
(* The cards.                                                              *)

(* What the card would send next.                                          *)
HasWork(t) ==
    CASE t.active = "e1000" -> t.tx.head # t.tx.tail
      [] t.active = "virtio" -> t.tx.avail # <<>>
      [] t.active = "none" -> FALSE
      [] OTHER -> t.tx.ring[t.tx.head] # Empty

HwSend ==
    /\ On /\ HasWork(s)
    /\ s' = IF s.active = "virtio"
            THEN LET d == Head(s.tx.avail)
                 IN  [s EXCEPT !.tx.avail = Tail(@), !.tx.used = Append(@, d),
                               !.wire = Append(@, s.tx.ring[d].frame)]
            ELSE [s EXCEPT !.wire = Append(@, s.tx.ring[s.tx.head].frame),
                           !.tx.ring[s.tx.head] = Empty, !.tx.head = After(@)]

Words(t) == (t.rx.current - t.rx.head - 1) % NicWords

(* A frame arrives: into the next descriptor the card sees, or nowhere.    *)
Filled(t, e, len) ==
    CASE t.active = "virtio" ->
           IF t.rx.told = 0 THEN [t EXCEPT !.rx.starved = TRUE]
           ELSE LET d == Head(t.rx.avail)
                IN  [t EXCEPT !.rx.avail = Tail(@), !.rx.told = @ - 1, !.rx.used = Append(@, d),
                              !.rx.ring[d] = e, !.arrived = Append(@, e)]
      [] t.active = "rtl8139" ->
           IF Words(t) < len + 1 THEN t
           ELSE [t EXCEPT !.rx.words = Append(@, [frame |-> e.frame, good |-> e.good, at |-> t.rx.head, len |-> len]),
                          !.rx.head = (@ + len + 1) % NicWords, !.arrived = Append(@, e)]
      [] OTHER ->
           IF t.rx.ring[t.rx.head] # Empty \/ (t.active = "e1000" /\ t.rx.head = t.rx.tail) THEN t
           ELSE [t EXCEPT !.rx.ring[t.rx.head] = e, !.rx.head = After(@), !.arrived = Append(@, e)]

HwReceive ==
    /\ On /\ s.active # "none" /\ Len(s.arrived) < NicFrames
    /\ \E good \in (IF May("bad frame") THEN BOOLEAN ELSE {TRUE}),
          len \in (IF s.active = "rtl8139" THEN 1 .. 2 ELSE {1}) :
          LET t == Filled(s, [frame |-> Len(s.arrived) + 1, good |-> good, at |-> 0], len)
          IN  s' = IF t.arrived = s.arrived THEN t ELSE [t EXCEPT !.cause = TRUE]

-----------------------------------------------------------------------------
Init ==
    \E u \in NicUses :
        s = [part |-> "nic", use |-> u, active |-> "none", irqMode |-> "none",
             ticking |-> FALSE, pumping |-> FALSE, cause |-> FALSE, found |-> 0,
             left |-> FALSE, rx |-> NoRing, tx |-> NoRing, accepted |-> <<>>, wire |-> <<>>,
             arrived |-> <<>>, delivered |-> <<>>]

Next == \/ active \/ netEnableTimerPump \/ sendPacket \/ pumpPackets \/ netTimerTick
        \/ netDeviceInterrupt \/ sys_net_recv \/ HwSend \/ HwReceive

-----------------------------------------------------------------------------
Good(frames) == SelectSeq(frames, LAMBDA e : e.good)
IsFirst(part, all) == Len(part) <= Len(all) /\ part = SubSeq(all, 1, Len(part))

(* The stack gets the good frames in the order the card stored them, each  *)
(* once, and the card sends the frames that sendPacket accepted in their   *)
(* order, each once, each with its own contents.                           *)
NicDelivers ==
    On => /\ IsFirst(s.delivered, [i \in DOMAIN Good(s.arrived) |-> Good(s.arrived)[i].frame])
          /\ IsFirst(s.wire, s.accepted)

(* A card is never left with accepted frames it does not see, and virtio's *)
(* receiver is never left without buffers that it was not told of.         *)
NicNotStalled ==
    On => /\ s.wire # s.accepted => HasWork(s)
          /\ (s.active = "virtio" /\ ~s.pumping /\ s.rx.used = <<>>) => s.rx.told = Len(s.rx.avail)

Waiting == \/ hasUsed(s.rx) \/ s.rx.words # <<>> \/ \E d \in Slots : s.rx.ring[d] # Empty

(* A frame in the ring of a card with an interrupt is about to be read:    *)
(* the card's interrupt is pending or the pump is running.  Only behind a  *)
(* bad frame, which ends the e1000's pump, or when the interrupt came      *)
(* before netEnableTimerPump, does it wait for the timer.                  *)
NoFrameForgotten ==
    (On /\ s.ticking /\ s.irqMode # "none" /\ Waiting) => s.cause \/ s.pumping \/ s.left
=============================================================================
