------------------------------- MODULE MCFiles -------------------------------
(***************************************************************************)
(* The files of the kernel, each part explored on its own: the system      *)
(* calls and the virtual file system on the RAM file system, the ext4 and  *)
(* the FAT32 driver, the storage lock around them, the disk chosen for     *)
(* them and the AHCI driver below.  The field part of s says which one a   *)
(* behaviour exercises, and every property says nothing about the others.  *)
(***************************************************************************)
EXTENDS Integers

CONSTANTS
    Careful,   \* no directory is moved below itself, no open file removed on disk
    KeepOpen,  \* no open file is removed on the RAM file system
    LargeTransfers   \* only the disk driver, with transfers longer than a PRDT entry

VARIABLE s

\* ext4: one direct pointer and two indirect ones, a disk of ten blocks.
Names == {"a", "b"}
Direct == 1
PerBlock == 3
Blocks == 6..15
Inodes == 1..4
LogicalBlocks == {0, 1, 4, 13}
Maxlen == 14
Volume(ops, crashes, calls) == [ops |-> ops, crashes |-> crashes, calls |-> calls]
Volumes ==
    {Volume(3, 1, {"reg", "dir", "rmdir", "unlink"}),
     Volume(2, 2, {"reg", "dir", "link", "longlink"}),
     Volume(3, 1, {"reg", "open", "write", "truncate", "chmod"}),
     Volume(3, 1, {"reg", "dir", "rename"}),
     Volume(3, 1, {"reg", "link", "unlink"})}
E == INSTANCE Ext4

\* FAT32: five clusters of three entries.
Clusters == 2..6
PerCluster == 3
FileNames == Names
MaxFileSize == 2
FatVolumes ==
    {Volume(5, 0, {"create", "mkdir", "unlink", "rmdir"}),
     Volume(4, 0, {"create", "mkdir", "rename"}),
     Volume(6, 0, {"create", "write", "truncate", "unlink"}),
     Volume(5, 1, {"create", "unlink", "write"}),
     Volume(4, 2, {"create", "mkdir", "unlink", "rmdir"})}
F == INSTANCE Fat32

\* The system calls: five nodes on two file systems, the second mounted at /b.
NodeIds == 1..5
MountPoint == <<"b">>
Targets == {[abs |-> TRUE, path |-> <<"a">>], [abs |-> FALSE, path |-> <<"b">>]}
Raw(abs, segs) == [abs |-> abs, segs |-> segs, slash |-> FALSE]
RawPaths ==
    {Raw(TRUE, p) : p \in {<<"a">>, <<"a", "a">>, <<"a", "b">>, <<"b", "a">>, <<"a", "a", "b">>}}
        \union {Raw(FALSE, <<"..", "b">>), [Raw(FALSE, <<"a">>) EXCEPT !.slash = TRUE]}
HandleIds == 1..2
MaxSize == 1
MaxSymlinkDepth == 2
FileUse(nodes, flags, calls) == [nodes |-> nodes, flags |-> flags, calls |-> calls]
FileUses ==
    {FileUse(5, {{"write", "creat", "excl"}}, {"mkdir", "rmdir", "rename", "open"}),
     FileUse(5, {}, {"mkdir", "symlink"}),
     FileUse(4, {{"creat", "nofollow"}}, {"mkdir", "symlink", "chdir", "unlink", "open", "close"}),
     FileUse(4, {{"write", "creat"}}, {"open", "close", "unlink", "rename", "mknod"}),
     FileUse(5, {{"write", "creat"}}, {"open", "mkdir", "link", "unlink", "rename"}),
     FileUse(3, {{}, {"write", "creat"}, {"write", "trunc"}, {"write", "append"}},
             {"open", "close", "dup", "read", "write", "seek", "truncate"}),
     FileUse(4, {{"write", "creat"}}, {"open", "chmod", "mkdir", "rename", "close"})}
V == INSTANCE Vfs

\* The storage lock: three threads on two CPUs, two calls each.
LockThreads == {"t1", "t2", "t3"}
LockCpus == {1, 2}
OpsTables == {"fat32", "ext4"}
kMaxWrappedTables == 2
LockCalls == 2
L == INSTANCE StorageLock

\* One or two disks: with a GPT (entries of every kind, a header that cannot
\* be read, a broken geometry) or without; three calls after boot.
BootMountsGpt == TRUE
StorageCalls == 3
GptEntry(guid, label) == [guid |-> guid, label |-> label, reversed |-> FALSE, readable |-> TRUE]
GptDisk(entries, fs) ==
    [shared |-> TRUE, header |-> TRUE, geometry |-> TRUE, gpt |-> entries, mbr |-> <<"other">>,
     fs |-> [v \in {<<"part", 1>>, <<"part", 2>>, <<"disk", 0>>} |-> IF v[2] = 0 THEN "none" ELSE fs]]
MbrDisk(entries, whole, fs) ==
    [shared |-> FALSE, header |-> FALSE, geometry |-> TRUE, gpt |-> <<>>, mbr |-> entries,
     fs |-> [v \in {<<"part", 1>>, <<"part", 2>>, <<"disk", 0>>} |-> IF v[2] = 0 THEN whole ELSE fs]]
Disks ==
    {GptDisk(<<GptEntry(g, l), GptEntry(h, m)>>, f) :
        g \in {"ours", "basic", "other"}, h \in {"ours", "basic"}, l \in BOOLEAN, m \in BOOLEAN,
        f \in {"fat32", "ext4"}}
    \union {MbrDisk(m, w, f) : m \in {<<>>, <<"other">>, <<"other", "fat">>, <<"linux">>},
                              w \in {"none", "ext4", "fat32"}, f \in {"fat32", "none"}}
    \union {[GptDisk(<<GptEntry("ours", FALSE)>>, "fat32") EXCEPT !.geometry = FALSE],
            [GptDisk(<<GptEntry("other", FALSE)>>, "fat32") EXCEPT !.header = FALSE],
            GptDisk(<<[GptEntry("ours", FALSE) EXCEPT !.reversed = TRUE]>>, "fat32"),
            GptDisk(<<[GptEntry("basic", FALSE) EXCEPT !.readable = FALSE], GptEntry("ours", FALSE)>>, "fat32")}
DiskSets == {<<d>> : d \in Disks} \union {<<d, e>> : d \in Disks, e \in Disks}
P == INSTANCE Storage

\* AHCI: six sectors of two bytes, a PRDT of two entries of two sectors, an
\* odd partition; without LargeTransfers every command fits one entry.
SectorBytes == 2
PrdSectors == 2
Prds == 2
DiskSectors == 6
CommandSlots == 2
Partition == [start |-> 2, length |-> 8]
AhciCalls == 3
AhciUse(calls, ranges, may) == [calls |-> calls, ranges |-> ranges, may |-> may]
Ranges ==
    {r \in {[off |-> o, size |-> n] : o \in 0 .. 4, n \in {1, 3, 4, 5}} :
        LargeTransfers \/ ((Partition.start + r.off) % SectorBytes) + r.size <= PrdSectors * SectorBytes}
AhciUses ==
    {AhciUse({"read", "write"}, Ranges, {"fail"}),
     AhciUse({"read", "write", "flush"}, {r \in Ranges : r.off \in {0, 3}}, {"fail", "hang", "no memory"})}
A == INSTANCE Ahci

Init == \/ A!Init
        \/ ~ LargeTransfers /\ (E!Init \/ F!Init \/ V!Init \/ L!Init \/ P!Init)
Next == \/ E!On /\ E!Next
        \/ F!On /\ F!Next
        \/ V!On /\ V!Next
        \/ L!On /\ L!Next
        \/ P!On /\ P!Next
        \/ A!On /\ A!Next
Spec == Init /\ [][Next]_s


(* A crash in an operation on ext4 leaves, after the journal is replayed,  *)
(* all of the operation or nothing of it; below, a read of the AHCI driver *)
(* that succeeds returns what the disk holds, a write that succeeds is     *)
(* there, and a command slot or buffer the drive may use is not reused.    *)
DiskAsWritten == E!CrashAtomic /\ A!SectorsArrive /\ A!DiskAsWritten /\ A!CommandsOwned

(* Directories stay trees, links are counted, and an open description has  *)
(* a file that exists.  One thread at a time is inside a file system on    *)
(* disk, the kernel lock it gave up is back when it leaves, and the two    *)
(* locks are never waited for in a circle.                                 *)
FilesTree ==
    /\ V!TreeIntegrity /\ V!OpenNodesLive
    /\ L!StorageExclusive /\ L!BklKeptAround /\ L!NoStandoff

(* A read that succeeds returns what the disk holds, however many sectors  *)
(* one command transfers (executeCommand).                                 *)
TransfersWhole == A!SectorsArrive
=============================================================================
