------------------------------- MODULE Storage -------------------------------
(***************************************************************************)
(* Choosing the disk to mount (main.cpp, fs/partition/partition.cpp) and   *)
(* the calls that format and mount it later (fs/storage/storage.cpp).  A   *)
(* disk is what is read of it: whether it has a GPT (shared), whether the  *)
(* header can be read, the entries, the MBR entries, and which volumes     *)
(* hold a file system the drivers recognise.  touched is what has been     *)
(* written since: partitions, or the whole disk.  A write may fail.        *)
(***************************************************************************)
EXTENDS Integers, Sequences, SequencesExt, FiniteSets, FiniteSetsExt

CONSTANTS
    DiskSets,         \* sequences of disks, one for each active port
    BootMountsGpt,    \* an InstantOS partition can be mounted at boot
    StorageCalls      \* calls after boot

VARIABLE s

On == s.part = "storage"

\* The first entry that is an InstantOS partition: by its GUID, or as a basic
\* data partition whose FAT32 label says so; one that ends before it starts is
\* no partition.  The scan stops at an entry that cannot be read.
Ours(e) == ~ e.reversed /\ (e.guid = "ours" \/ (e.guid = "basic" /\ e.label))

gptFindInstantOSPartition(d) ==
    LET Readable(i) == \A j \in 1 .. i : d.gpt[j].readable
        found == {i \in DOMAIN d.gpt : Readable(i) /\ Ours(d.gpt[i])}
    IN IF ~ d.header THEN 0                         \* NoGpt
       ELSE IF ~ d.geometry \/ found = {} THEN -1   \* NotInstantOS
       ELSE Min(found)

\* The first MBR partition of a type that FAT or Linux use.
mbrFindPartition(d) ==
    LET found == {i \in DOMAIN d.mbr : d.mbr[i] \in {"fat", "linux"}}
    IN IF found = {} THEN 0 ELSE Min(found)

Part(i) == <<"part", i>>
Whole == <<"disk", 0>>

\* One turn of the loop over the ports.  An InstantOS partition ends it; a
\* disk without GPT counts only until one is found.
Consider(choice, port, d) ==
    LET gpt == gptFindInstantOSPartition(d)
        mbr == mbrFindPartition(d)
    IN IF choice.final THEN choice
       ELSE IF gpt > 0 THEN [port |-> port, volume |-> Part(gpt), final |-> TRUE]
       ELSE IF gpt = -1 \/ choice.port # 0 THEN choice
       ELSE IF mbr > 0 THEN [port |-> port, volume |-> Part(mbr), final |-> FALSE]
       ELSE IF d.fs[Whole] = "ext4" THEN [port |-> port, volume |-> Whole, final |-> FALSE]
       ELSE choice

ChooseDisk(disks) ==
    FoldLeft(LAMBDA c, i : Consider(c, i, disks[i]), [port |-> 0, volume |-> Whole, final |-> FALSE],
             [i \in 1 .. Len(disks) |-> i])

-----------------------------------------------------------------------------
Init ==
    \E disks \in DiskSets :
        s = [part |-> "storage", disks |-> disks, booted |-> FALSE,
             touched |-> [i \in DOMAIN disks |-> {}],
             choice |-> [port |-> 0, volume |-> Whole, final |-> FALSE],
             info |-> [mounted |-> FALSE, formatted |-> FALSE, error |-> 0],
             root |-> "none", volume |-> Whole, steps |-> 0]

\* setMount: the flags follow the result.
setMount(info, result) ==
    [info EXCEPT !.mounted = (result = 0), !.formatted = (result = 0), !.error = result]

\* ext4 where its superblock is; FAT32 on anything else but a whole disk.  A
\* mounted file system writes to its volume.
boot ==
    /\ On /\ ~ s.booted
    /\ LET c == ChooseDisk(s.disks)
           kind == IF c.port = 0 THEN "none"
                   ELSE IF s.disks[c.port].fs[c.volume] = "ext4" THEN "ext4"
                   ELSE IF c.volume # Whole THEN "fat32" ELSE "none"
           st == [s EXCEPT !.booted = TRUE, !.choice = c]
       IN \/ /\ kind # "none" /\ s.disks[c.port].fs[c.volume] = kind
             /\ s' = [st EXCEPT !.info = setMount(@, 0), !.root = kind, !.volume = c.volume,
                                !.touched[c.port] = @ \cup {c.volume}]
          \/ /\ kind = "none" \/ ~ (BootMountsGpt /\ c.final)
             /\ s' = [st EXCEPT !.info = setMount(@, -1)]

\* formatFat32 writes to the device, from its first sector: boot sector and
\* copy, FSInfo, the FATs, the root directory; a write that fails ends it.
FormatWrites == 5

formatFat32 ==
    /\ On /\ s.booted /\ s.steps < StorageCalls
    /\ s.choice.port # 0 /\ ~ s.info.mounted
    /\ \E done \in 0 .. FormatWrites :
        LET p == s.choice.port
        IN s' = [s EXCEPT !.steps = @ + 1,
                          !.touched[p] = IF done = 0 THEN @ ELSE @ \cup {Whole},
                          !.disks[p] = IF done = 0 THEN @
                                       ELSE [@ EXCEPT !.header = FALSE, !.mbr = <<>>,
                                                      !.fs = [v \in DOMAIN @ |-> IF done = FormatWrites THEN "fat32" ELSE "none"]],
                          !.info = IF done = FormatWrites THEN [@ EXCEPT !.formatted = TRUE, !.error = 0] ELSE @]

\* mountFat32 mounts the device, not the partition.
mountFat32 ==
    /\ On /\ s.booted /\ s.steps < StorageCalls
    /\ IF s.info.mounted THEN s' = [s EXCEPT !.steps = @ + 1]
       ELSE \/ /\ s.choice.port # 0 /\ s.disks[s.choice.port].fs[Whole] = "fat32"
               /\ s' = [s EXCEPT !.steps = @ + 1, !.info = setMount(@, 0), !.root = "fat32", !.volume = Whole,
                                 !.touched[s.choice.port] = @ \cup {Whole}]
            \/ s' = [s EXCEPT !.steps = @ + 1, !.info = setMount(@, -1)]

Next == On /\ (boot \/ formatFat32 \/ mountFat32)

-----------------------------------------------------------------------------
(* A disk with a GPT is shared with other systems: whatever the calls, the *)
(* kernel writes to its InstantOS partition and to nothing else on it; and *)
(* such a partition is taken whenever some port has one.                   *)
ForeignDisksKept ==
    On /\ s.booted =>
        \A p \in DOMAIN s.disks :
            /\ s.disks[p].shared =>
                   s.touched[p] \subseteq {Part(i) : i \in {j \in DOMAIN s.disks[p].gpt : Ours(s.disks[p].gpt[j])}}
            /\ gptFindInstantOSPartition(s.disks[p]) > 0 => s.choice.final

(* The information the kernel gives says mounted exactly when there is a   *)
(* root file system, which no format has destroyed since.                  *)
StorageInfoHonest ==
    On => /\ s.info.mounted <=> s.root # "none"
          /\ s.info.mounted => s.choice.port # 0 /\ s.info.formatted
          /\ s.root # "none" => s.disks[s.choice.port].fs[s.volume] = s.root
=============================================================================
