-------------------------------- MODULE Ahci --------------------------------
(***************************************************************************)
(* A SATA disk behind an AHCI port (fs/ahci/ahci.cpp): the commands the    *)
(* driver builds and polls for, the bounce buffer through which reads and  *)
(* writes of any byte range go a chunk at a time, the partition they are   *)
(* confined to, and the flush of the drive's write cache.  The storage     *)
(* lock (module StorageLock) admits one caller at a time, so there is one  *)
(* call in progress; the drive moves by itself.  Bytes of the disk are     *)
(* numbered; a byte never written holds its own address, and a byte        *)
(* written by the n-th call holds its address and n.                       *)
(***************************************************************************)
EXTENDS Integers, FiniteSets, FiniteSetsExt, TLC

CONSTANTS
    SectorBytes,   \* 512
    PrdSectors,    \* 16: the sectors one PRDT entry describes
    Prds,          \* 8: the entries of a command table
    DiskSectors,
    CommandSlots,  \* 32
    Partition,     \* [start, length] in bytes
    AhciCalls,     \* bound on calls
    AhciUses       \* [calls, ranges, may]: what callers and the drive do

VARIABLE s

On == s.part = "ahci"

DiskBytes == DiskSectors * SectorBytes
dmaCapacity == PrdSectors * Prds * SectorBytes
Bytes == 0 .. DiskBytes - 1
Ceil(a, b) == (a + b - 1) \div b

May(m) == m \in s.use.may
Idle == s.call.op = "none"

NoCall == [op |-> "none"]
NoCommand == [cmd |-> "none", lba |-> 0, fis |-> 0, buffer |-> "none"]

\* The port as the driver sees it: the engine runs (ST), commands issued
\* (CI), the task file's BSY, the error bit of PxIS.
IdlePort ==
    [engine |-> FALSE, ci |-> {}, table |-> [i \in 0 .. CommandSlots - 1 |-> NoCommand],
     busy |-> FALSE, tfes |-> FALSE, ready |-> FALSE]

Init ==
    \E use \in AhciUses :
        s = [part |-> "ahci", use |-> use, port |-> IdlePort, active |-> FALSE, sectorCount |-> 0,
             owned |-> {}, bounce |-> [b \in 0 .. dmaCapacity - 1 |-> <<-2, 0>>],
             disk |-> [b \in Bytes |-> <<b, 0>>], media |-> [b \in Bytes |-> <<b, 0>>],
             want |-> [b \in Bytes |-> <<b, 0>>], out |-> [b \in {} |-> <<0, 0>>],
             call |-> NoCall, calls |-> 0, answer |-> "none"]

-----------------------------------------------------------------------------
(* One command.                                                            *)

stopCmd(p) == [p EXCEPT !.engine = FALSE, !.ci = {}]

startCmd(p) == [p EXCEPT !.engine = TRUE]

recoverFromError(p) == startCmd([stopCmd(p) EXCEPT !.tfes = FALSE])

findCmdSlot(p) ==
    LET free == {i \in 0 .. CommandSlots - 1 : i \notin p.ci}
    IN IF free = {} THEN -1 ELSE Min(free)

prdtl(count) == IF count = 0 THEN 0 ELSE (count - 1) \div PrdSectors + 1

\* What goes into the FIS: the loop over the PRDT entries has counted the
\* sectors of all but the last one off.
FisCount(count) == IF count = 0 THEN 0 ELSE count - PrdSectors * (prdtl(count) - 1)

\* The part of executeCommand and flush up to the wait: the call waits, or
\* fails for want of a slot, of table entries or of a drive that is not busy.
executeCommand(st, c, cmd, lba, count, buffer) ==
    LET slot == findCmdSlot(st.port)
        fine == st.port.ready /\ slot # -1 /\ prdtl(count) <= Prds /\ ~ st.port.busy
        command == [cmd |-> cmd, lba |-> lba, fis |-> FisCount(count), buffer |-> buffer]
    IN IF fine
       THEN [st EXCEPT !.port = [@ EXCEPT !.tfes = FALSE, !.table[slot] = command, !.ci = @ \cup {slot}],
                       !.call = c @@ [stage |-> "wait", slot |-> slot]]
       ELSE [st EXCEPT !.port.tfes = FALSE, !.call = c @@ [stage |-> "failed", slot |-> 0]]

\* The wait ends: the slot is clear, an error is up, or time is out.
waitForCompletion ==
    /\ On /\ ~ Idle /\ s.call.stage = "wait"
    /\ \/ /\ s.call.slot \notin s.port.ci /\ ~ s.port.tfes
          /\ s' = [s EXCEPT !.call.stage = "done"]
       \/ /\ s.port.tfes
          /\ s' = [s EXCEPT !.port = recoverFromError(@), !.call.stage = "failed"]
       \/ /\ May("hang") /\ s.call.slot \in s.port.ci /\ ~ s.port.tfes
          /\ s' = [s EXCEPT !.port = recoverFromError(@), !.call.stage = "failed"]

-----------------------------------------------------------------------------
(* The drive: it carries a command out, fails it after some of its sectors, *)
(* or keeps it; a drive that is stuck may become ready again.  A write is in *)
(* its cache until it is flushed, or for good whenever it likes.            *)

\* The disk and the bounce buffer after n sectors of a command.
Transfer(c, n) ==
    LET from == c.lba * SectorBytes
        bytes == n * SectorBytes
    IN [s EXCEPT
          !.bounce = IF c.cmd = "read" /\ c.buffer = "bounce"
                     THEN [b \in DOMAIN @ |-> IF b < bytes THEN s.disk[from + b] ELSE @[b]] ELSE @,
          !.disk = IF c.cmd = "write"
                   THEN [b \in Bytes |-> IF b \in from .. from + bytes - 1 THEN s.bounce[b - from] ELSE @[b]]
                   ELSE @]

Fits(c) == c.lba + c.fis <= DiskSectors

driveCompletes ==
    /\ On /\ s.port.engine
    /\ \E slot \in s.port.ci :
        LET c == s.port.table[slot]
        IN /\ Fits(c)
           /\ s' = [Transfer(c, c.fis) EXCEPT !.port.ci = @ \ {slot}, !.port.busy = FALSE,
                                              !.media = IF c.cmd = "flush" THEN s.disk ELSE @]

driveFails ==
    /\ On /\ s.port.engine
    /\ \E slot \in s.port.ci :
        LET c == s.port.table[slot]
        IN /\ May("fail") \/ ~ Fits(c)
           /\ \E n \in 0 .. c.fis :
                /\ c.lba + n <= DiskSectors
                /\ s' = [Transfer(c, n) EXCEPT !.port.tfes = TRUE, !.port.engine = FALSE]

driveStuck ==
    /\ On /\ May("hang") /\ s.port.ci # {} /\ ~ s.port.busy
    /\ s' = [s EXCEPT !.port.busy = TRUE]

driveReady ==
    /\ On /\ s.port.busy /\ s' = [s EXCEPT !.port.busy = FALSE]

-----------------------------------------------------------------------------
(* initialize(): tables, the engine, IDENTIFY into a frame of its own that  *)
(* is freed whatever came of it.  A port whose tables do not fit in memory   *)
(* stays stopped; without a bounce buffer the disk cannot be used.           *)

initialize ==
    /\ On /\ Idle /\ ~ s.active /\ s.calls = 0
    /\ LET up == [s EXCEPT !.port = [startCmd(stopCmd(@)) EXCEPT !.ready = TRUE], !.calls = 1]
           identify == [up EXCEPT !.owned = {"tables", "identify"}]
       IN \/ s' = executeCommand(identify, [op |-> "identify"], "read", 0, 1, "identify")
          \/ May("no memory") /\ s' = [up EXCEPT !.owned = {"tables"}, !.active = TRUE]
          \/ May("no memory") /\ s' = [s EXCEPT !.port = stopCmd(@), !.calls = 1]

identified ==
    /\ On /\ ~ Idle /\ s.call.op = "identify" /\ s.call.stage \in {"done", "failed"}
    /\ s' = [s EXCEPT !.owned = {"tables", "bounce"}, !.active = TRUE, !.call = NoCall,
                      !.sectorCount = IF s.call.stage = "done" THEN DiskSectors ELSE 0]

-----------------------------------------------------------------------------
(* SATABlockDevice behind PartitionBlockDevice.                            *)

\* The next piece of a call: as much as the bounce buffer holds from the
\* sector its first byte lies in.
Piece(c) ==
    LET at == c.off + c.done
        shift == at % SectorBytes
        bytes == Min({c.size - c.done, dmaCapacity - shift})
    IN [at |-> at, sector |-> at \div SectorBytes, shift |-> shift, bytes |-> bytes,
        count |-> Ceil(bytes + shift, SectorBytes)]

Ragged(p) == p.shift # 0 \/ p.bytes % SectorBytes # 0

Frame(c) == [op |-> c.op, off |-> c.off, size |-> c.size, done |-> c.done]

\* Issues the read of a piece, or the write of one with its bytes in place.
ReadPiece(st, c, phase) ==
    LET p == Piece(c)
    IN executeCommand(st, Frame(c) @@ [phase |-> phase], "read", p.sector, p.count, "bounce")

WritePiece(st, c) ==
    LET p == Piece(c)
        filled == [st EXCEPT !.bounce = [b \in DOMAIN @ |->
                     IF b \in p.shift .. p.shift + p.bytes - 1 THEN <<p.at + b - p.shift, st.calls>> ELSE @[b]]]
    IN executeCommand(filled, Frame(c) @@ [phase |-> "write"], "write", p.sector, p.count, "bounce")

NextPiece(st, c) ==
    IF c.op = "read" THEN ReadPiece(st, c, "read")
    ELSE IF Ragged(Piece(c)) THEN ReadPiece(st, c, "merge")
    ELSE WritePiece(st, c)

Unknown == <<-1, 0>>

\* A call returns; what a write that failed left of its range is anyone's guess.
Return(st, c, ok) ==
    LET range == IF c.op = "write" THEN c.off .. c.off + c.size - 1 ELSE {}
    IN [st EXCEPT !.call = NoCall, !.answer = IF ok THEN c.op ELSE "failed",
                  !.want = [b \in Bytes |-> IF b \notin range THEN @[b] ELSE IF ok THEN <<b, s.calls>> ELSE Unknown]]

\* Offsets are the caller's, within the partition.
InPartition(r) == r.off <= Partition.length /\ r.size <= Partition.length - r.off

transfer ==
    /\ On /\ Idle /\ s.active /\ s.calls < AhciCalls
    /\ \E op \in s.use.calls \ {"flush"}, r \in s.use.ranges :
        LET c == [op |-> op, off |-> Partition.start + r.off, size |-> r.size, done |-> 0]
            st == [s EXCEPT !.calls = @ + 1, !.answer = "none", !.out = [b \in {} |-> <<0, 0>>]]
        IN s' = IF ~ InPartition(r) \/ "bounce" \notin s.owned
                THEN [st EXCEPT !.answer = "failed"]
                ELSE NextPiece(st, c)

advance ==
    /\ On /\ ~ Idle /\ s.call.op \in {"read", "write"}
    /\ LET c == s.call
           p == Piece(c)
           on == [c EXCEPT !.done = @ + p.bytes]
           copied == IF c.op = "read"
                     THEN [s EXCEPT !.out = [b \in p.at .. p.at + p.bytes - 1 |-> s.bounce[b - p.at + p.shift]] @@ @]
                     ELSE s
       IN \/ c.stage = "failed" /\ s' = Return(s, c, FALSE)
          \/ c.stage = "done" /\ c.phase = "merge" /\ s' = WritePiece(s, c)
          \/ /\ c.stage = "done" /\ c.phase # "merge"
             /\ s' = IF on.done = c.size THEN Return(copied, c, TRUE) ELSE NextPiece(copied, on)

flush ==
    /\ On
    /\ \/ /\ Idle /\ s.active /\ s.calls < AhciCalls /\ "flush" \in s.use.calls
          /\ s' = [executeCommand(s, [op |-> "flush"], "flush", 0, 0, "none")
                     EXCEPT !.calls = @ + 1, !.answer = "none", !.out = [b \in {} |-> <<0, 0>>]]
       \/ /\ ~ Idle /\ s.call.op = "flush" /\ s.call.stage \in {"done", "failed"}
          /\ s' = [s EXCEPT !.call = NoCall, !.answer = IF s.call.stage = "done" THEN "flush" ELSE "failed"]

Next == On /\ (\/ initialize \/ identified \/ transfer \/ advance \/ flush \/ waitForCompletion
               \/ driveCompletes \/ driveFails \/ driveStuck \/ driveReady)

-----------------------------------------------------------------------------
(* A read that succeeds returns the bytes of the disk, all of them.        *)
SectorsArrive ==
    On /\ s.answer = "read" => \A b \in DOMAIN s.out : s.out[b] = s.disk[b]

(* Between calls the disk holds what the last successful write of each     *)
(* byte left there, however the pieces of a call were cut and whatever     *)
(* went wrong; nothing outside the partition ever changes; and once a      *)
(* flush has succeeded all of it is on the medium.                         *)
DiskAsWritten ==
    On => /\ Idle => \A b \in Bytes : s.want[b] # Unknown => s.disk[b] = s.want[b]
          /\ \A b \in Bytes \ (Partition.start .. Partition.start + Partition.length - 1) : s.disk[b] = <<b, 0>>
          /\ s.answer = "flush" => s.media = s.disk

(* A command the drive may still carry out is the one being waited for,    *)
(* and the memory it names belongs to the driver.                          *)
CommandsOwned ==
    On /\ s.port.engine => \A slot \in s.port.ci :
        /\ ~ Idle /\ s.call.stage = "wait" /\ s.call.slot = slot
        /\ s.port.table[slot].buffer \in s.owned \cup {"none"}
=============================================================================
