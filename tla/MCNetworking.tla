--------------------------- MODULE MCNetworking ---------------------------
(***************************************************************************)
(* The networking parts of the kernel, each explored on its own: the field *)
(* part of s says which one a behaviour exercises, and every property says *)
(* nothing about the others.                                               *)
(***************************************************************************)
EXTENDS Integers

VARIABLE s

\* TCP: five pairs of programs, a sequence space that wraps, small windows.
SeqSpace == 32
Mss == 2
RecvBuffer == 3
SendCap == 4
SynRetries == 1
MaxRetries == 1
Isn == [a |-> 30, b |-> 7]
MaxData == [a |-> 4, b |-> 1]
Program(a, b, cap) == [calls |-> [a |-> a, b |-> b], cap |-> [a |-> 1, b |-> cap]]
Programs ==
    {Program({"send", "shutdown", "resend", "slow"}, {"recv", "delay"}, 1),
     Program({"send"}, {"recv"}, 2),
     Program({"close"}, {"close", "shutdown"}, 2),
     Program({"close", "icmp"}, {"unlisten", "icmp", "close"}, 1),
     Program({"recv", "close"}, {"send", "shutdown"}, 2)}
T == INSTANCE Tcp

\* Sockets of one host: a listener, a client and an accepted end; two
\* datagram sockets and the network; ping sockets.
MaxSockets == 3
Ports == {1}
Ephemeral == <<2, 3>>
Backlog == 1
InboxCap == 1
Reconnect == FALSE
SocketUses ==
    {[max |-> 3, calls |-> {"stream", "bind", "connect", "listen", "accept", "close", "recv", "signal"}],
     [max |-> 3, calls |-> {"stream", "bind", "connect", "listen", "accept", "send", "recv", "shut_wr"}],
     [max |-> 3, calls |-> {"stream", "bind", "connect", "listen", "accept", "recv", "shut_rd", "shut_rdwr"}],
     [max |-> 2, calls |-> {"dgram", "bind", "connect", "sendto", "recv", "shut_rd", "shut_wr"}],
     [max |-> 2, calls |-> {"dgram", "bind", "connect", "sendto", "recv", "network", "getsockopt", "up"}],
     [max |-> 3, calls |-> {"stream", "bind", "setsockopt", "listen", "connect", "close", "accept", "full"}],
     [max |-> 2, calls |-> {"ping", "bind", "recv", "close"}]}
K == INSTANCE Sockets

\* ARP: a cache of one entry, three parked frames, two resolutions.
OnLink == {"gw", "h1"}
OffLink == {"far"}
Gateway == "gw"
CacheSize == 1
PendingSlots == 3
Resolutions == 2
GiveUp == 2
MaxFrames == 4
MaxTime == 3
A == INSTANCE Arp

\* DHCP: a lease of four ticks, three transactions.
Addresses == {"x"}
Lease == 4
Attempts == 2
MaxXid == 3
MaxTicks == 6
D == INSTANCE Dhcp

\* IPv4: three fragmented datagrams for two slots, and whole ones.
Datagram(src, id, len, to, proto, open) ==
    [src |-> src, id |-> id, len |-> len, to |-> to, proto |-> proto, open |-> open]
Datagrams ==
    {Datagram("p", 1, 3, "us", "udp", TRUE), Datagram("q", 1, 3, "us", "udp", FALSE),
     Datagram("p", 2, 4, "all", "udp", TRUE), Datagram("p", 3, 1, "us", "icmp", TRUE)}
PerFragment == 2
Slots == 2
MaxLen == 4
SlotLife == 2
ErrorBurst == 1
MaxClock == 2
P == INSTANCE Ipv4

\* Network cards: rings of three descriptors, an RTL8139 of seven words.
NicDescs == 3
NicWords == 7
NicFrames == 4
kRxNotifyBatch == 2
NicUse(present, irq, may) == [present |-> present, irq |-> irq, may |-> may]
NicUses ==
    {NicUse({"e1000"}, {"msi", "legacy"}, {"bad frame"}),
     NicUse({"rtl8169"}, {"msi", "legacy"}, {"bad frame"}),
     NicUse({"rtl8139"}, {"none"}, {"bad frame"}),
     NicUse({"virtio"}, {"msi", "legacy"}, {"raw"}),
     NicUse({"virtio", "e1000", "rtl8139"}, {"none"}, {"bad card"})}
N == INSTANCE Nic

Init == N!Init \/ T!Init \/ K!Init \/ A!Init \/ D!Init \/ P!Init
Next == \/ T!On /\ T!Next
        \/ K!On /\ K!Next
        \/ A!On /\ A!Next
        \/ D!On /\ D!Next
        \/ P!On /\ P!Next
        \/ N!On /\ N!Next
Spec == Init /\ [][Next]_s

(* What a program reads from a TCP connection is what the other sent.      *)
TcpDelivers == T!TcpDelivers



(* Whoever sleeps for a connection, a message, the end of a stream or a    *)
(* new configuration is awake once it is there; a card that could go on    *)
(* was told, and a frame in its ring is about to be read.                  *)
NoLostWakeup == /\ T!NoSleepThroughEvent /\ K!NoSleepWithWork /\ D!NoSleepThroughChange
                /\ N!NicNotStalled /\ N!NoFrameForgotten
=============================================================================
