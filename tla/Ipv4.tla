------------------------------- MODULE Ipv4 -------------------------------
(***************************************************************************)
(* IPv4 input of src/src/cpu/syscall/net.cpp: fragments that arrive in any *)
(* order, more than once or not at all, a few reassembly slots, and the    *)
(* dispatch to UDP, TCP and ICMP with the errors sent in reply. A datagram *)
(* is named by what the slots compare: source and identification; the      *)
(* identification is not reused within the reassembly timeout. Data are    *)
(* counted in the 8-byte blocks of the fragment offset, and a buffer       *)
(* remembers which datagram wrote each block.                              *)
(***************************************************************************)
EXTENDS Integers, Sequences, FiniteSets

CONSTANTS Datagrams,    \* [src, id, len, to, proto, open]: the traffic of a run
          PerFragment,  \* kPerFragment, in blocks
          Slots,        \* kReassemblySlots
          MaxLen,       \* blocks a buffer holds
          SlotLife,     \* kReassemblyTimeoutMs, in ticks
          ErrorBurst,   \* kIcmpErrorBurst
          MaxClock      \* ticks in a behaviour

VARIABLE s
\* [part, slots, sent: fragments the senders have put on the wire, up: the
\*  interface has its address, got: datagrams handed up, with the writer of
\*  each block, errors: ICMP errors of this period, replies, now]

On == s.part = "ipv4"
Nobody == [src |-> "nobody", id |-> 0, len |-> 0, to |-> "us", proto |-> "udp", open |-> FALSE]
Blocks == 0 .. MaxLen - 1
FreeSlot == [used |-> FALSE, dg |-> Nobody, started |-> 0, length |-> 0, have |-> {},
             count |-> 0, buffer |-> [b \in Blocks |-> Nobody]]

Init ==
    \E up \in BOOLEAN :
      s = [part |-> "ipv4", slots |-> [i \in 1 .. Slots |-> FreeSlot], sent |-> {}, up |-> up,
           got |-> {}, errors |-> 0, replies |-> 0, now |-> 0]

(* The sender cuts a datagram into fragments. One that cannot be queued    *)
(* ends the transmission: to the receiver the rest is lost.                *)
Fragments(d) ==
    {[dg |-> d, offset |-> o, size |-> IF d.len - o < PerFragment THEN d.len - o ELSE PerFragment,
      more |-> o + PerFragment < d.len] : o \in {PerFragment * k : k \in 0 .. (d.len - 1) \div PerFragment}}

sendIpv4Payload(d) ==
    /\ On /\ \A f \in s.sent : f.dg # d
    /\ s' = [s EXCEPT !.sent = @ \cup Fragments(d)]

----------------------------------------------------------------------------
(* At most ErrorBurst errors in a period, none to a broadcast or           *)
(* unconfigured source.                                                    *)
sendIcmpError(t, d) ==
    IF ~t.up \/ d.src = "broadcast" THEN t
    ELSE [t EXCEPT !.errors = IF @ < ErrorBurst THEN @ + 1 ELSE @]

(* An echo request is answered; an echo reply and the errors about our own *)
(* traffic go to the sockets.                                              *)
handleIcmp(t, d) == IF d.open THEN [t EXCEPT !.replies = 1] ELSE t

(* A whole datagram, unfragmented or put together from buffer, goes to its *)
(* protocol: UDP also by broadcast, and to DHCP before there is an address.*)
handleIpv4(t, d, buffer) ==
    LET unicast == t.up /\ d.to = "us"
        broadcast == d.to = "all"
        u == [t EXCEPT !.got = @ \cup {[dg |-> d, writers |-> {buffer[b] : b \in 0 .. d.len - 1}]}]
    IN CASE ~unicast /\ ~broadcast /\ ~(~t.up /\ d.proto = "udp") -> t
         [] d.proto = "dhcp" -> u
         [] d.proto = "udp" ->
              IF ~unicast /\ ~broadcast THEN t
              ELSE IF d.open THEN u ELSE IF unicast THEN sendIcmpError(t, d) ELSE t
         [] d.proto = "tcp" /\ unicast -> u
         [] d.proto = "icmp" /\ unicast -> handleIcmp(u, d)
         [] OTHER -> t

(* The slots as the scan leaves them, timed-out ones freed, and the slot   *)
(* it falls back on: the last free one, or else the first of the oldest.   *)
Expire(slots, now) ==
    [i \in 1 .. Slots |-> IF slots[i].used /\ now - slots[i].started >= SlotLife
                          THEN [slots[i] EXCEPT !.used = FALSE] ELSE slots[i]]

Fallback(slots) ==
    LET free == {i \in 1 .. Slots : ~slots[i].used}
    IN IF free # {} THEN CHOOSE i \in free : \A j \in free : j <= i
       ELSE CHOOSE i \in 1 .. Slots : \A j \in 1 .. Slots :
              slots[i].started < slots[j].started \/ (slots[i].started = slots[j].started /\ i <= j)

(* Mutant: the block map of the datagram that was given up is kept.        *)
TakeSlotUncleared(slot, d, now) == [slot EXCEPT !.used = TRUE, !.dg = d, !.started = now, !.length = 0]

(* A slot taken over for datagram d; the buffer keeps its old bytes.       *)
TakeSlot(slot, d, now) ==
    [slot EXCEPT !.used = TRUE, !.dg = d, !.started = now, !.length = 0, !.have = {}, !.count = 0]

(* One fragment is copied into its slot: blocks not seen before are        *)
(* counted, and the last fragment tells the length.                        *)
StoreFragment(slot, f) ==
    LET blocks == f.offset .. f.offset + f.size - 1
    IN [slot EXCEPT !.buffer = [b \in Blocks |-> IF b \in blocks THEN f.dg ELSE @[b]],
                    !.have = @ \cup blocks,
                    !.count = @ + Cardinality(blocks \ slot.have),
                    !.length = IF f.more THEN @ ELSE f.offset + f.size]

reassembleFragment(t, f) ==
    LET slots == Expire(t.slots, t.now)
        mine == {i \in 1 .. Slots : slots[i].used /\ slots[i].dg = f.dg}
        k == IF mine # {} THEN CHOOSE i \in mine : TRUE ELSE Fallback(slots)
        slot == StoreFragment(IF mine # {} THEN slots[k] ELSE TakeSlot(slots[k], f.dg, t.now), f)
        whole == slot.length # 0 /\ slot.count = slot.length
        u == [t EXCEPT !.slots = [slots EXCEPT ![k] = [slot EXCEPT !.used = ~whole]]]
    IN IF whole THEN handleIpv4(u, f.dg, slot.buffer) ELSE u

(* A frame comes out of the NIC: a fragment for us or for everyone goes to *)
(* reassembly, a whole datagram to its protocol.                           *)
pumpPackets(f) ==
    /\ On
    /\ s' = IF f.more \/ f.offset # 0
            THEN IF (s.up /\ f.dg.to = "us") \/ f.dg.to = "all" THEN reassembleFragment(s, f) ELSE s
            ELSE handleIpv4(s, f.dg, [b \in Blocks |-> f.dg])

(* Time passes: a new error period, and older slots.                       *)
Clock == On /\ s.now < MaxClock /\ s' = [s EXCEPT !.now = @ + 1, !.errors = 0]

Next ==
    \/ \E d \in Datagrams : sendIpv4Payload(d)
    \/ \E f \in (IF On THEN s.sent ELSE {}) : pumpPackets(f)
    \/ Clock

----------------------------------------------------------------------------
(* A datagram that is handed up consists of its own bytes only, whatever   *)
(* the order, repetition or loss of fragments and whichever slot another   *)
(* datagram gave up: nothing of another datagram or of an earlier use of   *)
(* the buffer is left in it.                                               *)
DeliveredWhole == On => \A g \in s.got : g.writers = {g.dg}

(* A slot in use never claims more than it holds: its count is the number  *)
(* of blocks that its own datagram wrote, and no two slots assemble one    *)
(* datagram.                                                               *)
SlotsDisjoint ==
    On => \A i, j \in 1 .. Slots :
      s.slots[i].used /\ s.slots[j].used =>
        /\ i # j => s.slots[i].dg # s.slots[j].dg
        /\ s.slots[i].count = Cardinality({b \in s.slots[i].have : s.slots[i].buffer[b] = s.slots[i].dg})
=============================================================================
