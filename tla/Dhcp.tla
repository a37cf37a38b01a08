------------------------------- MODULE Dhcp -------------------------------
(***************************************************************************)
(* The DHCP client, the interface address and the link state of            *)
(* src/src/cpu/syscall/net.cpp, with a server that may answer late, twice, *)
(* or not at all, and programs that wait for a new configuration. Time     *)
(* counts in units of a quarter of the lease; every unit ends with a       *)
(* network tick, as the timer runs far more often than a lease.            *)
(***************************************************************************)
EXTENDS Integers, FiniteSets

CONSTANTS Addresses,  \* what the server may offer
          Lease,      \* lease time, in ticks
          Attempts,   \* kDhcpRequestAttempts
          MaxXid,     \* transactions in a behaviour
          MaxTicks     \* ticks in a behaviour

VARIABLE s
\* [part, state, xid, offered, attempt, due: a message is due, start and
\*  infinite: the lease, address, dhcp: fromDhcp, link, moved: the generation
\*  differs from the waiter's, waiter, asked and net: the message
\*  and the answer in flight, now]

On == s.part = "dhcp"
None == "none"
T1 == Lease \div 2
T2 == (7 * Lease) \div 8
Leased == {"Bound", "Renewing", "Rebinding"}

dhcpNewTransaction(t) == [t EXCEPT !.xid = @ + 1, !.attempt = 0, !.due = TRUE]

dhcpStartSelecting(t) == dhcpNewTransaction([t EXCEPT !.state = "Selecting", !.offered = None])

(* netEnableTimerPump: the first DISCOVER leaves on the next tick.         *)
Init ==
    s = dhcpStartSelecting(
          [part |-> "dhcp", state |-> "Off", xid |-> 0, offered |-> None, attempt |-> 0,
           due |-> FALSE, start |-> 0, infinite |-> FALSE, address |-> None, dhcp |-> FALSE,
           link |-> FALSE, moved |-> FALSE, waiter |-> "none", asked |-> {}, net |-> {}, now |-> 0])

(* Every change of the interface moves the generation and wakes waiters.   *)
interfaceChanged(t) ==
    [t EXCEPT !.moved = TRUE, !.waiter = IF @ = "asleep" THEN "awake" ELSE @]

(* Mutant: the lease is gone and the address stays.                        *)
ClearNothing(t) == t

clearInterface(t) ==
    IF t.address = None THEN t
    ELSE interfaceChanged([t EXCEPT !.address = None, !.dhcp = FALSE])

(* A message to the server: a renewing client names the address it has, a  *)
(* requesting one the address it was offered.                              *)
dhcpSend(t, type) ==
    [t EXCEPT !.asked = {[type |-> type, xid |-> t.xid,
                          ip |-> IF t.state \in {"Renewing", "Rebinding"} THEN t.address
                                 ELSE t.offered]}]

dhcpBind(t, ip, infinite) ==
    interfaceChanged([t EXCEPT !.state = "Bound", !.start = t.now, !.infinite = infinite,
                               !.address = ip, !.dhcp = TRUE])

----------------------------------------------------------------------------
(* The server answers the last message it got: an offer, an ACK (of a      *)
(* limited or an infinite lease), or a NAK. An answer may never be sent,   *)
(* may arrive late, and stays in flight to arrive again until a later one  *)
(* takes its place.                                                        *)
Server ==
    /\ On
    /\ \E m \in s.asked :
         \/ /\ m.type = "discover"
            /\ \E ip \in Addresses : s' = [s EXCEPT !.net = {[m EXCEPT !.type = "offer", !.ip = ip]}]
         \/ /\ m.type = "request"
            /\ \E a \in {"ack", "forever", "nak"} : s' = [s EXCEPT !.net = {[m EXCEPT !.type = a]}]

(* An answer arrives; it may arrive again.                                 *)
handleDhcp(m) ==
    /\ On /\ s.state \notin {"Off", "Bound"} /\ m.xid = s.xid
    /\ IF s.state = "Selecting"
       THEN /\ m.type = "offer"
            /\ s' = [dhcpSend([s EXCEPT !.offered = m.ip, !.state = "Requesting"], "request")
                       EXCEPT !.attempt = 1, !.due = FALSE]
       ELSE \/ /\ m.type = "nak"
               /\ s' = dhcpStartSelecting(IF s.state = "Requesting" THEN s ELSE clearInterface(s))
            \/ /\ m.type \in {"ack", "forever"}
               /\ s' = dhcpBind(s, m.ip, m.type = "forever")

(* The back-off has run out: due becomes true again.                       *)
Backoff == On /\ ~s.due /\ s.state \notin {"Off", "Bound"} /\ s' = [s EXCEPT !.due = TRUE]

(* What the network tick at time now does for DHCP.                        *)
dhcpTick(t) ==
    LET elapsed == t.now - t.start
        rebind == IF t.state = "Renewing" /\ ~t.infinite /\ elapsed >= T2
                  THEN [t EXCEPT !.state = "Rebinding", !.due = TRUE] ELSE t
        Sent(u, type) == [dhcpSend(u, type) EXCEPT !.due = FALSE]
        Tried(u) == [u EXCEPT !.attempt = IF @ < Attempts THEN @ + 1 ELSE @]
    IN CASE t.state = "Off" -> t
         [] t.state = "Selecting" -> IF t.due THEN Tried(Sent(t, "discover")) ELSE t
         [] t.state = "Requesting" ->
              IF ~t.due THEN t
              ELSE IF t.attempt >= Attempts THEN dhcpStartSelecting(t) ELSE Tried(Sent(t, "request"))
         [] t.state = "Bound" ->
              IF ~t.infinite /\ elapsed >= T1
              THEN dhcpNewTransaction([t EXCEPT !.state = "Renewing"]) ELSE t
         [] OTHER ->
              IF ~t.infinite /\ elapsed >= Lease THEN dhcpStartSelecting(clearInterface(t))
              ELSE IF rebind.due THEN Sent(rebind, "request") ELSE rebind

(* The cable: a link that comes up restarts or confirms the lease.         *)
linkTick(t, up) ==
    LET u == [t EXCEPT !.link = up]
        v == CASE ~up \/ t.state = "Off" -> u
               [] up /\ t.state \in {"Selecting", "Requesting"} -> [u EXCEPT !.attempt = 0, !.due = TRUE]
               [] up /\ t.state \in {"Bound", "Renewing"} ->
                    dhcpNewTransaction([u EXCEPT !.state = "Rebinding"])
               [] OTHER -> [u EXCEPT !.due = TRUE]
    IN IF up = t.link THEN t ELSE interfaceChanged(v)

(* Time passes and the timer runs.                                         *)
netTimerTick ==
    /\ On /\ s.now < MaxTicks /\ s.xid < MaxXid
    /\ \E up \in BOOLEAN : s' = dhcpTick(linkTick([s EXCEPT !.now = @ + 1], up))

----------------------------------------------------------------------------
(* Wait for the configuration to move past the generation the caller has:  *)
(* the wait is woken by a change, a signal, the deadline, or any wake-up.  *)
sys_net_get_config ==
    /\ On
    /\ \/ s.waiter = "none" /\ s' = [s EXCEPT !.waiter = "asleep", !.moved = FALSE]
       \/ s.waiter = "asleep" /\ s' = [s EXCEPT !.waiter = "awake"]
       \/ s.waiter = "awake" /\ \E stop \in BOOLEAN :
            s' = [s EXCEPT !.waiter = IF s.moved \/ stop THEN "none" ELSE "asleep"]

sys_net_set_config ==
    /\ On /\ s.xid < MaxXid
    /\ \/ s' = interfaceChanged([s EXCEPT !.state = "Off", !.address = "static", !.dhcp = FALSE])
       \/ s' = dhcpStartSelecting(clearInterface(s))
       \/ s.state \in Leased /\ s' = dhcpNewTransaction([s EXCEPT !.state = "Renewing"])
       \/ s' = clearInterface([s EXCEPT !.state = "Off"])

Next ==
    \/ Server
    \/ \E m \in (IF On THEN s.net ELSE {}) : handleDhcp(m)
    \/ Backoff
    \/ netTimerTick
    \/ sys_net_get_config
    \/ sys_net_set_config

----------------------------------------------------------------------------
(* The interface has a DHCP address exactly while the client holds a       *)
(* lease: a NAK, an expiry, a late answer or a reconfiguration never       *)
(* leaves an address without a lease, or a lease without its address.      *)
AddressIffLease == On => (s.state \in Leased <=> s.address # None /\ s.dhcp)

(* The address is given up when the lease ends: after the tick at which it *)
(* runs out the old address is not in use.                                 *)
LeaseRespected ==
    (On /\ s.address # None /\ s.dhcp /\ ~s.infinite) => s.now - s.start < Lease

(* The address follows the lease.                                          *)
LeaseHeld == AddressIffLease /\ LeaseRespected

(* A program waiting for a new configuration never sleeps through a change *)
(* of the address or of the link.                                          *)
NoSleepThroughChange == (On /\ s.waiter = "asleep") => ~s.moved
=============================================================================
