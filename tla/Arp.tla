-------------------------------- MODULE Arp --------------------------------
(***************************************************************************)
(* Address resolution in src/src/cpu/syscall/net.cpp: frames that wait for *)
(* the next hop's MAC address, the cache of known addresses, and the       *)
(* resolutions that are repeated and given up by the network timer.        *)
(* Addresses are host names; a frame is the number of the send that made   *)
(* it. Time counts in units of the retry period (kArpRetryMs).             *)
(***************************************************************************)
EXTENDS Integers, SequencesExt

CONSTANTS OnLink,       \* hosts of the local subnet
          OffLink,      \* hosts behind the gateway
          Gateway,      \* a member of OnLink
          CacheSize,    \* kArpCacheSize
          PendingSlots, \* kArpPendingFrames
          Resolutions,  \* kArpResolutions
          GiveUp,       \* kArpGiveUpMs / kArpRetryMs
          MaxFrames,    \* frames sent in a behaviour
          MaxTime       \* length of a behaviour in timer periods

VARIABLE s  \* [part, cache, evict, pending, res, wire, asked, frames, now]

On == s.part = "arp"
Free == [used |-> FALSE]
Slots == 1..PendingSlots

Init ==
    s = [part |-> "arp", cache |-> <<>>, evict |-> 0, pending |-> [i \in Slots |-> Free],
         res |-> {}, wire |-> <<>>, asked |-> {}, frames |-> 0, now |-> 0]

(* Off the subnet, the next hop is the gateway.                            *)
nextHopIp(dest) == IF dest \in OffLink THEN Gateway ELSE dest

(* A mapping is replaced in place, appended, or takes a victim's entry.    *)
rememberArp(t, ip) ==
    CASE ip \in ToSet(t.cache) -> t
      [] ip \notin ToSet(t.cache) /\ Len(t.cache) < CacheSize -> [t EXCEPT !.cache = Append(@, ip)]
      [] OTHER -> [t EXCEPT !.cache[1 + (t.evict % CacheSize)] = ip, !.evict = (@ + 1) % CacheSize]

lookupArp(t, ip) == ip \in ToSet(t.cache)

(* A request is on the link until the host answers it.                     *)
sendArpRequest(t, ip) == [t EXCEPT !.asked = @ \cup {ip}]

(* The next hop of the frame is in the Ethernet header: hop is the host    *)
(* whose MAC address was filled in.                                        *)
sendPacket(t, frame, hop) == [t EXCEPT !.wire = Append(@, [frame |-> frame, hop |-> hop])]

Waiting(t, ip) == {i \in Slots : t.pending[i].used /\ t.pending[i].hop = ip}

(* The first slot among those queued earliest.                             *)
Oldest(t, ip) ==
    Min({i \in Waiting(t, ip) : \A j \in Waiting(t, ip) : t.pending[i].queued <= t.pending[j].queued})

(* Every frame that waited for ip leaves, oldest first.                    *)
RECURSIVE ReleaseFrames(_, _)
ReleaseFrames(t, ip) ==
    IF Waiting(t, ip) = {} THEN t
    ELSE LET i == Oldest(t, ip)
         IN ReleaseFrames([sendPacket(t, t.pending[i].frame, ip) EXCEPT !.pending[i] = Free], ip)


learnArp(t, ip) ==
    ReleaseFrames([rememberArp(t, ip) EXCEPT !.res = {r \in @ : r.ip # ip}], ip)

dropPendingFor(t, ip) ==
    [t EXCEPT !.pending = [i \in Slots |-> IF i \in Waiting(t, ip) THEN Free ELSE @[i]]]

(* A frame with a known next hop leaves; otherwise it is parked under a    *)
(* resolution, or dropped when there is no slot or no resolution left.     *)
sendToNextHop(t, hop, frame) ==
    LET free == {i \in Slots : ~t.pending[i].used}
        known == \E r \in t.res : r.ip = hop
        start == [t EXCEPT !.res = @ \cup {[ip |-> hop, started |-> t.now, last |-> t.now]}]
        asked == IF known THEN t ELSE sendArpRequest(start, hop)
        parked == [used |-> TRUE, hop |-> hop, queued |-> t.now, frame |-> frame]
    IN CASE lookupArp(t, hop) -> sendPacket(t, frame, hop)
         [] ~lookupArp(t, hop) /\ (free = {} \/ (~known /\ Cardinality(t.res) = Resolutions)) -> t
         [] OTHER -> [asked EXCEPT !.pending[Min(free)] = parked]

----------------------------------------------------------------------------
(* One frame to dest: an echo request, a UDP datagram that fits, a TCP     *)
(* segment. They differ in their headers and payload only.                 *)
Send(dest) ==
    /\ On /\ s.frames < MaxFrames
    /\ s' = [sendToNextHop(s, nextHopIp(dest), s.frames + 1) EXCEPT !.frames = @ + 1]

sendIcmpEcho(dest) == dest \in OnLink /\ Send(dest)

sendUdpFrame(dest) == dest \in OnLink /\ Send(dest)

sendTcpFrame(dest) == dest \in OffLink /\ Send(dest)

(* A host answers our request, or asks for our address (sendArpReply does  *)
(* not change our state): both teach its address.                          *)
handleArp(ip) ==
    /\ On /\ s' = [learnArp(s, ip) EXCEPT !.asked = @ \ {ip}]

arpTick ==
    LET expired == {r \in s.res : s.now + 1 - r.started >= GiveUp}
        late == s.res \ expired
        again == [s EXCEPT !.now = @ + 1, !.asked = @ \cup {r.ip : r \in late},
                           !.res = {[r EXCEPT !.last = s.now + 1] : r \in late}]
    IN /\ On /\ s.now < MaxTime
       /\ s' = FoldSet(LAMBDA r, t : dropPendingFor(t, r.ip), again, expired)

Next ==
    \/ \E dest \in OnLink : sendIcmpEcho(dest)
    \/ \E dest \in OnLink : sendUdpFrame(dest)
    \/ \E dest \in OffLink : sendTcpFrame(dest)
    \/ \E ip \in OnLink : handleArp(ip)
    \/ arpTick

----------------------------------------------------------------------------
(* A frame never waits for nobody: while it is parked, a resolution of its *)
(* next hop is active, so an answer will release it or the timer drop it.  *)
ParkedIsResolving ==
    On => \A i \in Slots : s.pending[i].used => \E r \in s.res : r.ip = s.pending[i].hop

(* A frame leaves at most once, and never while it is also parked.         *)
FrameLeavesOnce ==
    On => LET sent == {s.wire[k].frame : k \in 1..Len(s.wire)}
              parked == {s.pending[i].frame : i \in {j \in Slots : s.pending[j].used}}
          IN Cardinality(sent) = Len(s.wire) /\ sent \cap parked = {}

(* A parked frame is being resolved, and every frame leaves at most once.  *)
ArpDelivers == ParkedIsResolving /\ FrameLeavesOnce

(* "Oldest first, so a burst leaves in the order it was sent": frames for  *)
(* the same next hop leave in the order of their sends.                    *)
BurstInOrder ==
    On => \A j, k \in 1..Len(s.wire) :
        (j < k /\ s.wire[j].hop = s.wire[k].hop) => s.wire[j].frame < s.wire[k].frame
=============================================================================
