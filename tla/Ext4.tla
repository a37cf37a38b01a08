------------------------------- MODULE Ext4 -------------------------------
(***************************************************************************)
(* The write path of the ext4 driver: allocation, the block map, linear    *)
(* directories, the operations on nodes, the write side of the journal and *)
(* its replay when the volume is mounted.  An operation runs under the     *)
(* storage lock, so what it computes is one step; its writes to the device *)
(* then happen one by one, and the machine may stop between any two.       *)
(* The device completes writes in the order they are issued.               *)
(*                                                                         *)
(* A volume is one group: addresses 1..5 hold the superblock, the group    *)
(* descriptor, the two bitmaps and the inode table, then come the Blocks   *)
(* and, from Journal on, the journal's superblock and its blocks.  A block *)
(* is PerBlock slots: directory entries, or pointers (field ino).          *)
(***************************************************************************)
EXTENDS Integers, FiniteSets, FiniteSetsExt, Sequences, SequencesExt, TLC

CONSTANTS
    Direct,        \* direct pointers of an inode (12 in the code)
    PerBlock,      \* pointers, or directory entries, of one block
    Blocks,        \* the data blocks of the group
    Inodes,        \* inode numbers; the smallest is the root
    Names,         \* names of directory entries
    LogicalBlocks, \* logical blocks that are written or truncated to
    Maxlen,        \* blocks of the journal after its superblock
    Volumes,       \* what an explored volume is asked: the calls, how many, and
                   \* how often the machine stops
    Careful        \* TRUE: no call that the driver's cached inodes cannot bear

VARIABLE s

SB == 1
GD == 2
BBM == 3
IBM == 4
IT == 5
Journal == 100
Root == Min(Inodes)

On == s.part = "ext4"

----------------------------------------------------------------------------
\* Blocks, inodes and the two views of the device.

Empty == [name |-> "", ino |-> 0]
Zeroed == [i \in 1..PerBlock |-> Empty]
NoInode == [mode |-> "none", links |-> 0, size |-> 0, blocks |-> 0,
            block |-> [i \in 1..(Direct + 2) |-> 0]]
NewDir(i, up) == [Zeroed EXCEPT ![1] = [name |-> ".", ino |-> i], ![2] = [name |-> "..", ino |-> up]]

\* c is an operation in progress: the device as it sees it, the buffered
\* transaction and the order of its blocks, the writes issued directly, the
\* superblock and the nodes in memory, a result.
readBytes(c, a) == IF a \in DOMAIN c.txn THEN c.txn[a] ELSE c.dev[a]

writeBytes(c, a, v) ==
    [c EXCEPT !.txn = (a :> v) @@ @, !.order = IF a \in DOMAIN c.txn THEN @ ELSE Append(@, a)]

devWriteBytes(c, a, v) ==
    [c EXCEPT !.dev = [@ EXCEPT ![a] = v], !.direct = Append(@, [at |-> a, v |-> v])]

flushSuperblock(c, sb) == writeBytes([c EXCEPT !.sb = sb], SB, sb)

Failed(c) == [c EXCEPT !.ok = FALSE]

----------------------------------------------------------------------------
\* Allocation.

allocBlock(c) ==
    LET gd == readBytes(c, GD)
        free == IF gd.blocks = 0 THEN {} ELSE Blocks \ readBytes(c, BBM)
    IN IF free = {} THEN [c EXCEPT !.r = 0]
       ELSE LET b == Min(free)
                c1 == writeBytes(c, BBM, readBytes(c, BBM) \union {b})
                c2 == writeBytes(c1, GD, [gd EXCEPT !.blocks = @ - 1])
                c3 == flushSuperblock(c2, [c.sb EXCEPT !.blocks = IF @ > 0 THEN @ - 1 ELSE @])
            IN [devWriteBytes(c3, b, Zeroed) EXCEPT !.r = b]

allocInode(c, isDir) ==
    LET gd == readBytes(c, GD)
        free == IF gd.inodes = 0 THEN {} ELSE Inodes \ readBytes(c, IBM)
    IN IF free = {} THEN [c EXCEPT !.r = 0]
       ELSE LET i == Min(free)
                c1 == writeBytes(c, IBM, readBytes(c, IBM) \union {i})
                c2 == writeBytes(c1, GD, [gd EXCEPT !.inodes = @ - 1, !.dirs = IF isDir THEN @ + 1 ELSE @])
                c3 == flushSuperblock(c2, [c.sb EXCEPT !.inodes = IF @ > 0 THEN @ - 1 ELSE @])
            IN [c3 EXCEPT !.r = i]

\* Every block of a set, each once; one that is not marked is left alone.
freeBlockNums(c, blocks) ==
    LET used == blocks \intersect readBytes(c, BBM)
        n == Cardinality(used)
        c1 == writeBytes(c, BBM, readBytes(c, BBM) \ used)
        c2 == writeBytes(c1, GD, [readBytes(c, GD) EXCEPT !.blocks = @ + n])
    IN IF used = {} THEN c ELSE flushSuperblock(c2, [c.sb EXCEPT !.blocks = @ + n])

freeInodeNum(c, i, isDir) ==
    LET c1 == writeBytes(c, IBM, readBytes(c, IBM) \ {i})
        c2 == writeBytes(c1, GD, [readBytes(c, GD) EXCEPT !.inodes = @ + 1,
                                                          !.dirs = IF isDir /\ @ > 0 THEN @ - 1 ELSE @])
    IN IF i \notin readBytes(c, IBM) THEN c
       ELSE flushSuperblock(c2, [c.sb EXCEPT !.inodes = @ + 1])

----------------------------------------------------------------------------
\* Inodes, nodes (a copy of an inode under a key) and the block map.

writeInodeRaw(c, i, inode) == writeBytes(c, IT, [readBytes(c, IT) EXCEPT ![i] = inode])
readInode(c, i) == readBytes(c, IT)[i]
makeVNode(c, k, i) == [c EXCEPT !.n = (k :> [ino |-> i, f |-> readInode(c, i)]) @@ @]
syncNodeInode(c, k) == writeInodeRaw(c, c.n[k].ino, c.n[k].f)

readPointer(c, b, i) == IF b = 0 THEN 0 ELSE readBytes(c, b)[i + 1].ino
writePointer(c, b, i, v) == writeBytes(c, b, [readBytes(c, b) EXCEPT ![i + 1] = [name |-> "", ino |-> v]])

\* The physical block of a logical one, 0 for a hole.
resolveViaBlockMap(c, f, lb) ==
    LET single == lb - Direct
        double == single - PerBlock
    IN IF lb < Direct THEN f.block[lb + 1]
       ELSE IF single < PerBlock THEN readPointer(c, f.block[Direct + 1], single)
       ELSE IF double < PerBlock * PerBlock
       THEN readPointer(c, readPointer(c, f.block[Direct + 2], double \div PerBlock), double % PerBlock)
       ELSE 0

\* A block was allocated for node k.
Charged(c, k) == [c EXCEPT !.n = [@ EXCEPT ![k].f.blocks = @ + 1]]

\* The block just allocated becomes an indirect one.
Attach(a, k, slot) ==
    IF a.r = 0 THEN Failed(a)
    ELSE [Charged(a, k) EXCEPT !.n = [@ EXCEPT ![k].f.block[slot] = a.r]]

ensureIndirect(c, k, slot) == IF c.n[k].f.block[slot] # 0 THEN c ELSE Attach(allocBlock(c), k, slot)

SetSingle(c, k, i, phys) == IF c.ok THEN writePointer(c, c.n[k].f.block[Direct + 1], i, phys) ELSE c

\* Below the double indirect block top, through a new block unless there is one.
AttachSecond(a, k, top, i, phys) ==
    IF a.r = 0 THEN Failed(a)
    ELSE writePointer(writePointer(Charged(a, k), top, i \div PerBlock, a.r), a.r, i % PerBlock, phys)

SetDouble(c, k, top, i, phys) ==
    IF ~c.ok THEN c
    ELSE IF readPointer(c, top, i \div PerBlock) # 0
    THEN writePointer(c, readPointer(c, top, i \div PerBlock), i % PerBlock, phys)
    ELSE AttachSecond(allocBlock(c), k, top, i, phys)

SetBelow(c, k, i, phys) == SetDouble(c, k, c.n[k].f.block[Direct + 2], i, phys)

bmapSet(c, k, lb, phys) ==
    IF lb < Direct THEN [c EXCEPT !.n = [@ EXCEPT ![k].f.block[lb + 1] = phys]]
    ELSE IF lb < Direct + PerBlock
    THEN SetSingle(ensureIndirect(c, k, Direct + 1), k, lb - Direct, phys)
    ELSE IF lb >= Direct + PerBlock + PerBlock * PerBlock THEN Failed(c)
    ELSE SetBelow(ensureIndirect(c, k, Direct + 2), k, lb - Direct - PerBlock, phys)

Pointers(c, b) == {readPointer(c, b, i) : i \in 0..(PerBlock - 1)} \ {0}

\* The blocks below an indirect block, and the block.
freeIndirect(c, b, levels) ==
    IF b = 0 THEN {}
    ELSE {b} \union Pointers(c, b)
         \union IF levels = 1 THEN {} ELSE UNION {Pointers(c, l1) : l1 \in Pointers(c, b)}

BlocksOf(c, f) ==
    ({f.block[i] : i \in 1..Direct} \ {0})
    \union freeIndirect(c, f.block[Direct + 1], 1) \union freeIndirect(c, f.block[Direct + 2], 2)

freeInodeData(c, f) ==
    IF f.mode = "link" /\ f.blocks = 0 THEN c ELSE freeBlockNums(c, BlocksOf(c, f))

\* Frees what node k maps from logical block keep on: the data blocks, an
\* indirect block no kept block needs; the pointers to them become zero.
bmapTruncate(c, k, keep) ==
    LET f == c.n[k].f
        kept == {resolveViaBlockMap(c, f, lb) : lb \in 0..(keep - 1)} \ {0}
        top == f.block[Direct + 2]
        l1s == {i \in 0..(PerBlock - 1) : readPointer(c, top, i) # 0}
        l2base(i) == Direct + PerBlock + i * PerBlock
        keptL1 == {i \in l1s : l2base(i) < keep \/ Pointers(c, readPointer(c, top, i)) \intersect kept # {}}
        tree == {top} \union {readPointer(c, top, i) : i \in keptL1}
        keepSingle == f.block[Direct + 1] # 0 /\ (Direct < keep \/ Pointers(c, f.block[Direct + 1]) \intersect kept # {})
        keepDouble == top # 0 /\ (keptL1 # {} \/ Direct + PerBlock < keep)
        alive == kept \union (IF keepSingle THEN {f.block[Direct + 1]} ELSE {})
                      \union (IF keepDouble THEN tree ELSE {})
        gone == BlocksOf(c, f) \ alive
        indirect == ({f.block[Direct + 1], top} \union {readPointer(c, top, i) : i \in l1s}) \ {0}
        dirty == {b \in indirect : Pointers(c, b) \intersect gone # {}}
        c1 == freeBlockNums(c, gone)
        c2 == FoldSet(LAMBDA b, x : writeBytes(x, b, [i \in 1..PerBlock |->
                          IF readBytes(c, b)[i].ino \in gone THEN Empty ELSE readBytes(c, b)[i]]), c1, dirty)
    IN [c2 EXCEPT !.n = [@ EXCEPT ![k].f =
           [@ EXCEPT !.block = [i \in DOMAIN @ |-> IF @[i] \in gone THEN 0 ELSE @[i]],
                     !.blocks = @ - Cardinality(gone)]]]

----------------------------------------------------------------------------
\* Linear directories.

\* The slots of a directory's blocks: <<logical block, physical block, slot>>.
Slots(c, f) ==
    {<<lb, resolveViaBlockMap(c, f, lb), i>> : lb \in {l \in 0..(f.size - 1) : resolveViaBlockMap(c, f, l) # 0},
                                               i \in 1..PerBlock}
SlotEntry(c, slot) == readBytes(c, slot[2])[slot[3]]
FirstSlot(slots) == CHOOSE x \in slots : \A y \in slots : <<x[1], x[3]>> = <<y[1], y[3]>> \/ x[1] < y[1]
                                                                \/ (x[1] = y[1] /\ x[3] < y[3])

lookupInDir(c, f, name) ==
    LET found == {x \in Slots(c, f) : SlotEntry(c, x).ino # 0 /\ SlotEntry(c, x).name = name}
    IN IF found = {} THEN 0 ELSE SlotEntry(c, FirstSlot(found)).ino

dirIsEmpty(c, f) == \A x \in Slots(c, f) : SlotEntry(c, x).ino = 0 \/ SlotEntry(c, x).name \in {".", ".."}

writeDirBlock(c, b, i, entry) == writeBytes(c, b, [readBytes(c, b) EXCEPT ![i] = entry])

\* The directory's new block, mapped, holds its first entry.
FirstEntry(c, k, b, entry) ==
    IF c.ok THEN syncNodeInode(writeDirBlock([c EXCEPT !.n = [@ EXCEPT ![k].f.size = @ + 1]], b, 1, entry), k) ELSE c

GrowDir(a, k, entry) ==
    IF a.r = 0 THEN Failed(a)
    ELSE FirstEntry(bmapSet(Charged(a, k), k, a.n[k].f.size, a.r), k, a.r, entry)

EntryAt(c, k, x, entry) == syncNodeInode(writeDirBlock(c, x[2], x[3], entry), k)

dirInsert(c, k, name, i) ==
    LET room == {x \in Slots(c, c.n[k].f) : SlotEntry(c, x).ino = 0}
        entry == [name |-> name, ino |-> i]
    IN IF room # {} THEN EntryAt(c, k, FirstSlot(room), entry) ELSE GrowDir(allocBlock(c), k, entry)

dirRemove(c, k, name) ==
    LET found == {x \in Slots(c, c.n[k].f) : SlotEntry(c, x).ino # 0 /\ SlotEntry(c, x).name = name}
    IN IF found = {} THEN c ELSE EntryAt(c, k, FirstSlot(found), Empty)

----------------------------------------------------------------------------
\* The operations on nodes.

\* The new inode, with b.r its block or 0.
NewInode(b, i, parent, mode) ==
    LET inode == [NoInode EXCEPT !.mode = IF mode = "longlink" THEN "link" ELSE mode,
                                 !.links = IF mode = "dir" THEN 2 ELSE 1,
                                 !.size = IF b.r = 0 THEN 0 ELSE 1,
                                 !.blocks = IF b.r = 0 THEN 0 ELSE 1,
                                 !.block = [@ EXCEPT ![1] = b.r]]
        data == IF mode = "dir" THEN NewDir(i, parent) ELSE [Zeroed EXCEPT ![1] = [name |-> "target", ino |-> 0]]
    IN writeInodeRaw(IF b.r = 0 THEN b ELSE writeBytes(b, b.r, data), i, inode)

\* Whether the entry was made or not.
Entered(c, k, i, mode) ==
    IF ~c.ok THEN freeInodeNum(c, i, mode = "dir")
    ELSE IF mode = "dir" THEN syncNodeInode([c EXCEPT !.n = [@ EXCEPT ![k].f.links = @ + 1]], k)
    ELSE c

EnterInode(b, k, name, i, mode) ==
    IF mode \in {"dir", "longlink"} /\ b.r = 0 THEN Failed(freeInodeNum(b, i, mode = "dir"))
    ELSE Entered(dirInsert(NewInode(b, i, b.n[k].ino, mode), k, name, i), k, i, mode)

WithInode(a, k, name, mode) ==
    IF a.r = 0 THEN Failed(a)
    ELSE EnterInode(IF mode \in {"dir", "longlink"} THEN allocBlock(a) ELSE [a EXCEPT !.r = 0], k, name, a.r, mode)

createEntry(c, k, name, mode) ==
    IF lookupInDir(c, c.n[k].f, name) # 0 THEN Failed(c)
    ELSE WithInode(allocInode(c, mode = "dir"), k, name, mode)

\* The entry that named inode i is gone: drop the link, and with the last one
\* the blocks and the inode.
DropLink(c, i) ==
    LET f == readInode(c, i)
        left == IF f.links > 0 THEN f.links - 1 ELSE 0
        freed == freeInodeData(c, f)
    IN IF left > 0 THEN writeInodeRaw(c, i, [f EXCEPT !.links = left])
       ELSE freeInodeNum(writeInodeRaw(freed, i, [f EXCEPT !.links = 0, !.blocks = 0]), i, FALSE)

UnlinkInode(c, k, name, i) ==
    IF i = 0 \/ readInode(c, i).mode = "dir" THEN Failed(c) ELSE DropLink(dirRemove(c, k, name), i)

nodeUnlink(c, k, name) == UnlinkInode(c, k, name, lookupInDir(c, c.n[k].f, name))


RemoveDir(c, k, i, f) ==
    LET c1 == writeInodeRaw(freeInodeData(c, f), i, [f EXCEPT !.links = 0, !.blocks = 0])
        c2 == freeInodeNum(c1, i, TRUE)
    IN syncNodeInode([c2 EXCEPT !.n = [@ EXCEPT ![k].f.links = IF @ > 0 THEN @ - 1 ELSE @]], k)

RmdirInode(c, k, name, i) ==
    IF i = 0 THEN Failed(c)
    ELSE IF readInode(c, i).mode # "dir" \/ ~dirIsEmpty(c, readInode(c, i)) THEN Failed(c)
    ELSE RemoveDir(dirRemove(c, k, name), k, i, readInode(c, i))

nodeRmdir(c, k, name) == RmdirInode(c, k, name, lookupInDir(c, c.n[k].f, name))

AddLink(c, i) == IF c.ok THEN writeInodeRaw(c, i, [readInode(c, i) EXCEPT !.links = @ + 1]) ELSE c

LinkInode(c, i, to, newName) ==
    IF i = 0 THEN Failed(c)
    ELSE IF readInode(c, i).mode = "dir" THEN Failed(c)
    ELSE AddLink(dirInsert(c, to, newName, i), i)

nodeLink(c, k, name, to, newName) == LinkInode(c, lookupInDir(c, c.n[k].f, name), to, newName)

\* A directory moved: its ".." and the link counts of both parents.
MoveDirectory(c, i, from, to) ==
    LET b == resolveViaBlockMap(c, readInode(c, i), 0)
        c1 == writeDirBlock(c, b, 2, [name |-> "..", ino |-> c.n[to].ino])
        c2 == syncNodeInode([c1 EXCEPT !.n = [@ EXCEPT ![from].f.links = IF @ > 0 THEN @ - 1 ELSE @]], from)
    IN syncNodeInode([c2 EXCEPT !.n = [@ EXCEPT ![to].f.links = @ + 1]], to)

RemoveOld(c, i, from, name, to) ==
    IF ~c.ok THEN c
    ELSE IF readInode(c, i).mode = "dir" /\ from # to THEN MoveDirectory(dirRemove(c, from, name), i, from, to)
    ELSE dirRemove(c, from, name)

\* Inode i gets the new name, in the place of inode dst if there is one.
RenameInode(c, i, dst, from, name, to, newName) ==
    IF i = 0 THEN Failed(c)
    ELSE IF dst # 0 /\ readInode(c, dst).mode = "dir" THEN Failed(c)
    ELSE RemoveOld(dirInsert(IF dst = 0 THEN c ELSE DropLink(dirRemove(c, to, newName), dst), to, newName, i),
                   i, from, name, to)

nodeRename(c, from, name, to, newName) ==
    RenameInode(c, lookupInDir(c, c.n[from].f, name), lookupInDir(c, c.n[to].f, newName), from, name, to, newName)

\* One block of data; v is what the program writes.
WriteAt(c, k, lb, phys, v) ==
    LET d == devWriteBytes(c, phys, [Zeroed EXCEPT ![1] = [name |-> v, ino |-> 0]])
    IN syncNodeInode([d EXCEPT !.n = [@ EXCEPT ![k].f.size = IF lb + 1 > @ THEN lb + 1 ELSE @]], k)

WriteMapped(c, k, lb, phys, v) ==
    IF c.ok THEN WriteAt(c, k, lb, phys, v) ELSE syncNodeInode([c EXCEPT !.ok = TRUE], k)

WriteNew(a, k, lb, v) ==
    IF a.r = 0 THEN syncNodeInode(a, k) ELSE WriteMapped(bmapSet(Charged(a, k), k, lb, a.r), k, lb, a.r, v)

nodeWrite(c, k, lb, v) ==
    IF resolveViaBlockMap(c, c.n[k].f, lb) # 0 THEN WriteAt(c, k, lb, resolveViaBlockMap(c, c.n[k].f, lb), v)
    ELSE WriteNew(allocBlock(c), k, lb, v)

nodeTruncate(c, k, size) ==
    LET t == IF size < c.n[k].f.size THEN bmapTruncate(c, k, size) ELSE c
    IN syncNodeInode([t EXCEPT !.n = [@ EXCEPT ![k].f.size = size]], k)

\* Changing the mode, the owner or the times writes the node's copy back.
nodeChmod(c, k) == syncNodeInode(c, k)

----------------------------------------------------------------------------
\* The journal.

NoBlock == [type |-> "none", seq |-> 0, tags |-> <<>>, v |-> <<>>]
At(a, v) == [at |-> a, v |-> v]

JournalWrites(c, seq) ==
    <<At(Journal + 1, [NoBlock EXCEPT !.type = "descriptor", !.seq = seq, !.tags = c.order])>>
    \o [i \in DOMAIN c.order |-> At(Journal + 1 + i, [NoBlock EXCEPT !.type = "data", !.v = <<c.txn[c.order[i]]>>])]
    \o <<At(Journal + 2 + Len(c.order), [NoBlock EXCEPT !.type = "commit", !.seq = seq])>>

\* The commit point: the journal is marked dirty, then the file system.
MarkDirty(c, seq) ==
    <<At(Journal, [start |-> 1, seq |-> seq]), At(SB, [c.dev[SB] EXCEPT !.recover = TRUE])>>

jCheckpoint(c, seq) ==
    [i \in DOMAIN c.order |-> At(c.order[i], c.txn[c.order[i]])]
    \o <<At(Journal, [start |-> 0, seq |-> seq]),
         At(SB, [(IF SB \in DOMAIN c.txn THEN c.txn[SB] ELSE c.dev[SB]) EXCEPT !.recover = FALSE])>>

\* One transaction of the journal holds it.
Journaled(c) == c.order # <<>> /\ Len(c.order) + 2 < Maxlen

\* Mutant: the blocks go to their homes before the journal has them.
CommitAfterCheckpoint(c, seq) ==
    IF c.order = <<>> THEN <<>>
    ELSE IF ~Journaled(c) THEN jCheckpoint(c, seq)
    ELSE jCheckpoint(c, seq) \o JournalWrites(c, seq) \o MarkDirty(c, seq) \o jCheckpoint(c, seq + 1)

jCommit(c, seq) ==
    IF c.order = <<>> THEN <<>>
    ELSE IF ~Journaled(c) THEN jCheckpoint(c, seq)
    ELSE JournalWrites(c, seq) \o MarkDirty(c, seq) \o jCheckpoint(c, seq + 1)

\* What replay finds: a descriptor of the expected sequence number at the
\* start, and its commit block after the data.
Committed(d) ==
    LET at == Journal + d[Journal].start
        desc == d[at]
    IN /\ desc.type = "descriptor" /\ desc.seq = d[Journal].seq
       /\ LET commit == d[at + 1 + Len(desc.tags)]
          IN commit.type = "commit" /\ commit.seq = desc.seq

journalReplay(d) ==
    LET at == Journal + d[Journal].start
        n == Len(d[at].tags)
        home == IF Committed(d) THEN [i \in 1..n |-> At(d[at].tags[i], d[at + i].v[1])] ELSE <<>>
        last == IF Committed(d) THEN d[Journal].seq ELSE d[Journal].seq - 1
        super == {i \in DOMAIN home : home[i].at = SB}
        sb == IF super = {} THEN d[SB] ELSE home[Max(super)].v
    IN IF d[Journal].start = 0 THEN <<>>
       ELSE home \o <<At(Journal, [start |-> 0, seq |-> last + 1]), At(SB, [sb EXCEPT !.recover = FALSE])>>

----------------------------------------------------------------------------
\* The mounted volume.

Begin(st) ==
    [dev |-> st.dev, txn |-> <<>>, order |-> <<>>, direct |-> <<>>, sb |-> st.sb, n |-> st.n, r |-> 0, ok |-> TRUE]

\* After every write of the list.
Written(d, writes) == FoldLeft(LAMBDA x, w : [x EXCEPT ![w.at] = w.v], d, writes)

\* The names in memory survive, the copies of one call do not.
Keep(n, keys) == [k \in DOMAIN n \intersect keys |-> n[k]]

\* The operation's writes are issued; an aborted transaction leaves only the
\* direct ones, and the superblock in memory is read again.
Perform(st, c) ==
    LET writes == c.direct \o (IF c.ok THEN jCommit(c, st.seq) ELSE <<>>)
        after == Written(st.dev, writes)
    IN [st EXCEPT !.todo = writes, !.sb = IF c.ok THEN c.sb ELSE after[SB],
                  !.n = Keep(c.n, DOMAIN st.n), !.before = st.dev, !.after = after, !.ops = @ + 1,
                  !.cut = FALSE, !.over = {}, !.seq = IF c.ok /\ Journaled(c) THEN @ + 1 ELSE @]

Load(st) ==
    [st EXCEPT !.mode = "up", !.sb = st.dev[SB], !.seq = st.dev[Journal].seq,
               !.n = "root" :> [ino |-> Root, f |-> st.dev[IT][Root]]]

mke2fs ==
    LET root == [NoInode EXCEPT !.mode = "dir", !.links = 2, !.size = 1, !.blocks = 1,
                                !.block = [@ EXCEPT ![1] = Min(Blocks)]]
        counts == [blocks |-> Cardinality(Blocks) - 1, inodes |-> Cardinality(Inodes) - 1]
    IN [a \in (1..5) \union Blocks \union (Journal..(Journal + Maxlen)) |->
          CASE a = SB -> [blocks |-> counts.blocks, inodes |-> counts.inodes, recover |-> FALSE]
            [] a = GD -> [blocks |-> counts.blocks, inodes |-> counts.inodes, dirs |-> 1]
            [] a = BBM -> {Min(Blocks)}
            [] a = IBM -> {Root}
            [] a = IT -> [i \in Inodes |-> IF i = Root THEN root ELSE NoInode]
            [] a = Journal -> [start |-> 0, seq |-> 1]
            [] a > Journal -> NoBlock
            [] a = Min(Blocks) -> NewDir(Root, Root)
            [] OTHER -> Zeroed]

Init ==
    \E v \in Volumes :
        s = Load([part |-> "ext4", use |-> v, dev |-> mke2fs, todo |-> <<>>, mode |-> "down", sb |-> mke2fs[SB],
                  n |-> <<>>, seq |-> 1, ops |-> 0, crashes |-> 0, before |-> mke2fs, after |-> mke2fs,
                  cut |-> FALSE, over |-> {}])

Ready(call) == On /\ s.mode = "up" /\ s.todo = <<>> /\ s.ops < s.use.ops /\ call \in s.use.calls

Dirs == {i \in s.dev[IBM] : s.dev[IT][i].mode = "dir"}
Handles == {"f", "g"}
Files(handles) == {s.n[h].ino : h \in handles \intersect DOMAIN s.n}

\* A directory named by a path: the root's node stays in memory, every other
\* directory is looked up again and has a node of its own in each call.
KeyOf(p, k) == IF p = Root THEN "root" ELSE k
Resolved(c, p, k) == IF p = Root THEN c ELSE makeVNode(c, k, p)
Parent(p) == Resolved(Begin(s), p, "p")
Parents(p, q) == Resolved(Parent(p), q, "q")
Named(p, name) == lookupInDir(Begin(s), s.dev[IT][p], name)

Create(p, name, mode) ==
    /\ Ready(mode)
    /\ s' = Perform(s, createEntry(Parent(p), KeyOf(p, "p"), name, mode))

Unlink(p, name) ==
    /\ Ready("unlink")
    /\ Careful => Named(p, name) \notin Files(Handles)
    /\ s' = Perform(s, nodeUnlink(Parent(p), KeyOf(p, "p"), name))

Rmdir(p, name) ==
    /\ Ready("rmdir")
    /\ s' = Perform(s, nodeRmdir(Parent(p), KeyOf(p, "p"), name))

\* sys_link refuses a new name that exists.
Link(p, name, q, newName) ==
    /\ Ready("link")
    /\ Named(q, newName) = 0
    /\ Careful => Named(p, name) \notin Files(Handles) /\ (p = q => p = Root)
    /\ s' = Perform(s, nodeLink(Parents(p, q), KeyOf(p, "p"), name, KeyOf(q, "q"), newName))

\* What the driver does not handle: two nodes of one directory in one call,
\* a target some node has open, a directory moved below itself.
Above(i, p) == i = p \/ (p # Root /\ \E q \in Dirs : q # Root /\ Named(p, "..") = q /\ i = q)
RenameBorne(p, name, q, newName) ==
    /\ p = q => p = Root
    /\ Named(q, newName) \notin Files(Handles)
    /\ ~Above(Named(p, name), q)

Rename(p, name, q, newName) ==
    /\ Ready("rename")
    /\ Careful => RenameBorne(p, name, q, newName)
    /\ s' = Perform(s, nodeRename(Parents(p, q), KeyOf(p, "p"), name, KeyOf(q, "q"), newName))

Open(h, p, name) ==
    /\ Ready("open")
    /\ h \notin DOMAIN s.n
    /\ Named(p, name) # 0 /\ s.dev[IT][Named(p, name)].mode = "reg"
    /\ Careful => Named(p, name) \notin Files(Handles)
    /\ s' = [s EXCEPT !.n = makeVNode(Begin(s), h, Named(p, name)).n]

Close(h) ==
    /\ Ready("open")
    /\ h \in DOMAIN s.n
    /\ s' = [s EXCEPT !.n = Keep(@, DOMAIN @ \ {h})]

\* A write past the double indirect block, or one that finds no block for an
\* indirect block after it took one for the data, is not undone.
WriteBorne(lb) ==
    /\ lb < Direct + PerBlock + PerBlock * PerBlock
    /\ s.dev[GD].blocks >= 3 \/ lb < Direct

Write(h, lb) ==
    /\ Ready("write")
    /\ h \in DOMAIN s.n
    /\ Careful => WriteBorne(lb)
    /\ s' = [Perform(s, nodeWrite(Begin(s), h, lb, IF s.ops % 2 = 0 THEN "x" ELSE "y"))
                 EXCEPT !.over = {resolveViaBlockMap(Begin(s), s.n[h].f, lb)} \ {0}]

Truncate(h, size) ==
    /\ Ready("truncate")
    /\ h \in DOMAIN s.n
    /\ s' = Perform(s, nodeTruncate(Begin(s), h, size))

Chmod(h) ==
    /\ Ready("chmod")
    /\ h \in DOMAIN s.n
    /\ s' = Perform(s, nodeChmod(Begin(s), h))

DeviceWrite ==
    /\ On /\ s.todo # <<>>
    /\ s' = [s EXCEPT !.dev = [@ EXCEPT ![Head(s.todo).at] = Head(s.todo).v], !.todo = Tail(@)]

\* The machine stops: the device keeps what was written, memory is lost.
Crash ==
    /\ On /\ s.mode # "down" /\ s.crashes < s.use.crashes
    /\ s' = [s EXCEPT !.mode = "down", !.todo = <<>>, !.n = <<>>, !.crashes = @ + 1,
                      !.cut = @ \/ (s.mode = "up" /\ s.todo # <<>>)]

mount ==
    /\ On /\ s.mode = "down"
    /\ s' = [s EXCEPT !.mode = "mounting", !.todo = journalReplay(s.dev)]

Mounted ==
    /\ On /\ s.mode = "mounting" /\ s.todo = <<>>
    /\ s' = Load(s)

Next ==
    \/ \E p \in (IF On THEN Dirs ELSE {}), name \in Names :
          \/ \E mode \in {"reg", "dir", "link", "longlink"} : Create(p, name, mode)
          \/ Unlink(p, name)
          \/ Rmdir(p, name)
          \/ \E q \in Dirs, newName \in Names : Link(p, name, q, newName) \/ Rename(p, name, q, newName)
          \/ \E h \in Handles : Open(h, p, name)
    \/ \E h \in Handles :
          \/ Close(h)
          \/ \E lb \in LogicalBlocks : Write(h, lb) \/ Truncate(h, lb)
          \/ Chmod(h)
    \/ DeviceWrite \/ Crash \/ mount \/ Mounted

----------------------------------------------------------------------------
\* What e2fsck checks.

View(d) == [dev |-> d, txn |-> <<>>]
Entries(d, i) == {SlotEntry(View(d), x) : x \in Slots(View(d), d[IT][i])} \ {Empty}
References(d, j) ==
    {<<i, x>> \in {<<i, x>> : i \in {k \in d[IBM] : d[IT][k].mode = "dir"}, x \in UNION {Slots(View(d), d[IT][k]) : k \in d[IBM]}} :
        x \in Slots(View(d), d[IT][i]) /\ SlotEntry(View(d), x).ino = j}
Reachable(d) ==
    LET reach[n \in 0..Cardinality(Inodes)] ==
            IF n = 0 THEN {Root}
            ELSE reach[n - 1] \union {e.ino : e \in UNION {Entries(d, i) : i \in {k \in reach[n - 1] : d[IT][k].mode = "dir"}}}
    IN reach[Cardinality(Inodes)]
Owned(d, i) == BlocksOf(View(d), d[IT][i])

Quiet == s.mode = "up" /\ s.todo = <<>>


\* The same volume, but for some data blocks and the recover flag: a crash
\* after the journal is clean may leave it set, which nothing depends on.
SameVolume(d, e, except) ==
    /\ \A a \in (2..5) \union (e[BBM] \ except) : d[a] = e[a]
    /\ [d[SB] EXCEPT !.recover = FALSE] = [e[SB] EXCEPT !.recover = FALSE]

(* An operation is all or nothing across a crash: on the volume that comes *)
(* up again, it happened completely, the data it wrote included, or not at *)
(* all; one that had returned has happened.                                *)
CrashAtomic ==
    On /\ Quiet => \/ SameVolume(s.dev, s.after, {})
                   \/ s.cut /\ SameVolume(s.dev, s.before, s.over)
============================================================================
