------------------------------- MODULE Fat32 -------------------------------
(***************************************************************************)
(* The FAT32 driver: cluster chains in two copies of the allocation table, *)
(* directories as chains of entries, the operations on them as the writes  *)
(* they send to the disk, and a crash between any two of those writes.     *)
(*                                                                         *)
(* All of it runs under the storage lock, so an operation is one step.     *)
(* Names are 8.3 names.  A file's size counts clusters.                    *)
(***************************************************************************)
EXTENDS Integers, FiniteSets, FiniteSetsExt, Sequences, SequencesExt

CONSTANTS
    Clusters,     \* data clusters, 2..n
    PerCluster,   \* entries in a cluster of a directory
    FileNames,    \* names of entries
    MaxFileSize,  \* bound: clusters of a file
    FatVolumes,   \* explored volumes: operations, crashes, calls
    Careful       \* FALSE: programs may move a directory below itself, remove a
                  \* file they have open, remove a directory that once grew

VARIABLE s

On == s.part = "fat32"

FREE == 0
EOC == 1
Root == Min(Clusters)

End == [name |-> "end", dir |-> FALSE, cluster |-> 0, size |-> 0]
Deleted == [End EXCEPT !.name = "deleted"]
Entry(name, dir, cluster, size) == [name |-> name, dir |-> dir, cluster |-> cluster, size |-> size]
Blank == [i \in 1..PerCluster |-> End]
None == [c |-> 0, i |-> 0]
NoNode == [dir |-> 0, name |-> "", cluster |-> 0, size |-> 0]

----------------------------------------------------------------------------
\* The disk: d has the two tables and what directories read in each cluster;
\* an operation in progress is a disk, the allocation hint and the writes made.

Applied(d, w) ==
    CASE w.to = "fat" -> [d EXCEPT !.fat = [@ EXCEPT ![w.at] = w.next]]
      [] w.to = "mirror" -> [d EXCEPT !.mirror = [@ EXCEPT ![w.at] = w.next]]
      [] w.to = "cluster" -> [d EXCEPT !.slots = [@ EXCEPT ![w.at] = w.slots]]

Write(m, w) == [m EXCEPT !.d = Applied(@, w), !.log = Append(@, w)]

writeCluster(m, c, slots) == Write(m, [to |-> "cluster", at |-> c, next |-> 0, slots |-> slots])

\* The first table, then its copy.
writeFATEntry(m, c, next) ==
    Write(Write(m, [to |-> "fat", at |-> c, next |-> next, slots |-> Blank]),
          [to |-> "mirror", at |-> c, next |-> next, slots |-> Blank])

readFATEntry(m, c) == m.d.fat[c]
getNextCluster(m, c) == readFATEntry(m, c)
setNextCluster(m, c, next) == writeFATEntry(m, c, next)

\* The clusters of a chain, as far as they are in use and not repeated.
Chain(fat, first) ==
    LET at[k \in 1..Cardinality(Clusters)] == IF k = 1 THEN first
                                              ELSE IF at[k - 1] \in Clusters THEN fat[at[k - 1]] ELSE EOC
        stop == {k \in DOMAIN at : at[k] \notin Clusters}
    IN SubSeq(at, 1, IF stop = {} THEN Cardinality(Clusters) ELSE Min(stop) - 1)

\* The next free cluster from the hint on, once around.
allocateCluster(m) ==
    LET free == {c \in Clusters : readFATEntry(m, c) = FREE}
        after == {c \in free : c >= m.hint}
        Take(c) == [m |-> [writeFATEntry(m, c, EOC) EXCEPT !.hint = c + 1], c |-> c]
    IN IF free = {} THEN [m |-> m, c |-> 0] ELSE Take(Min(IF after # {} THEN after ELSE free))

freeClusterChain(m, first) == FoldLeft(LAMBDA acc, c : writeFATEntry(acc, c, FREE), m, Chain(m.d.fat, first))

----------------------------------------------------------------------------
\* Directories.

\* Where an entry is: the search ends at the first entry never used.
Find(d, chain, name) ==
    LET place(k) == [c |-> chain[((k - 1) \div PerCluster) + 1], i |-> ((k - 1) % PerCluster) + 1]
        slot(k) == d.slots[place(k).c][place(k).i]
        found == {k \in 1..(Len(chain) * PerCluster) :
                     slot(k).name = name /\ \A e \in 1..k : slot(e) # End}
    IN IF found = {} THEN None ELSE place(Min(found))

findEntry(d, dir, name) == Find(d, Chain(d.fat, dir), name)

At(d, place) == d.slots[place.c][place.i]

\* The first unused or deleted entry; a full directory grows by a cluster, which
\* is linked before it is written.
Put(m, c, i, entry) == writeCluster(m, c, [m.d.slots[c] EXCEPT ![i] = entry])

GrowDir(new, last, entry) ==
    IF new.c = 0 THEN [m |-> new.m, ok |-> FALSE]
    ELSE [m |-> writeCluster(setNextCluster(new.m, last, new.c), new.c, [Blank EXCEPT ![1] = entry]), ok |-> TRUE]

CreateIn(m, chain, entry) ==
    LET places == {<<k, i>> \in (1..Len(chain)) \X (1..PerCluster) : m.d.slots[chain[k]][i].name \in {"end", "deleted"}}
        p == CHOOSE x \in places : \A y \in places : x[1] < y[1] \/ (x[1] = y[1] /\ x[2] <= y[2])
    IN IF places # {} THEN [m |-> Put(m, chain[p[1]], p[2], entry), ok |-> TRUE]
       ELSE GrowDir(allocateCluster(m), Last(chain), entry)

createEntry(m, dir, entry) == CreateIn(m, Chain(m.d.fat, dir), entry)

DeleteAt(m, place) == IF place = None THEN m ELSE Put(m, place.c, place.i, Deleted)
deleteEntry(m, dir, name) == DeleteAt(m, findEntry(m.d, dir, name))

UpdateAt(m, place, size, first) ==
    IF place = None \/ (At(m.d, place).size = size /\ At(m.d, place).cluster = first) THEN m
    ELSE Put(m, place.c, place.i, [At(m.d, place) EXCEPT !.size = size, !.cluster = first])
updateDirEntry(m, dir, name, size, first) == UpdateAt(m, findEntry(m.d, dir, name), size, first)

\* Only the first cluster is looked at.
LooksEmpty(d, dir) ==
    LET ends == {i \in 3..PerCluster : d.slots[dir][i] = End}
    IN \A i \in 3..PerCluster : (\A e \in ends : i < e) => d.slots[dir][i] = Deleted

----------------------------------------------------------------------------
\* Operations.

\* The cluster is given back when there is no room for the entry.
Made(done, c) == IF done.ok THEN done.m ELSE freeClusterChain(done.m, c)

CreateWith(new, dir, name) ==
    IF new.c = 0 THEN new.m ELSE Made(createEntry(new.m, dir, Entry(name, FALSE, new.c, 0)), new.c)

nodeCreate(m, dir, name) == CreateWith(allocateCluster(m), dir, name)

MkdirWith(new, dir, name) ==
    LET dots == [Blank EXCEPT ![1] = Entry(".", TRUE, new.c, 0), ![2] = Entry("..", TRUE, dir, 0)]
    IN IF new.c = 0 THEN new.m
       ELSE Made(createEntry(writeCluster(new.m, new.c, dots), dir, Entry(name, TRUE, new.c, 0)), new.c)

nodeMkdir(m, dir, name) == MkdirWith(allocateCluster(m), dir, name)

Lookup(d, dir, name) == At(d, findEntry(d, dir, name))

RemoveEntry(m, dir, name, cluster) == freeClusterChain(deleteEntry(m, dir, name), cluster)

UnlinkEntry(m, dir, name, entry) == IF entry.dir THEN m ELSE RemoveEntry(m, dir, name, entry.cluster)
nodeUnlink(m, dir, name) == UnlinkEntry(m, dir, name, Lookup(m.d, dir, name))

RmdirEntry(m, dir, name, entry) ==
    IF ~entry.dir THEN m
    ELSE IF LooksEmpty(m.d, entry.cluster) THEN RemoveEntry(m, dir, name, entry.cluster) ELSE m
nodeRmdir(m, dir, name) == RmdirEntry(m, dir, name, Lookup(m.d, dir, name))

\* The new entry is there: it gets the file's size, or the directory its new
\* parent; then the old entry is removed.
FixEntry(m, dir, newDir, newName, entry) ==
    IF ~entry.dir THEN updateDirEntry(m, newDir, newName, entry.size, entry.cluster)
    ELSE IF dir = newDir THEN m ELSE Put(m, entry.cluster, 2, Entry("..", TRUE, newDir, 0))

MoveEntry(made, dir, name, newDir, newName, entry) ==
    IF made.ok THEN deleteEntry(FixEntry(made.m, dir, newDir, newName, entry), dir, name) ELSE made.m

\* What a rename may put its source in the place of.
MayReplace(d, entry, target) == target.dir = entry.dir /\ (target.dir => LooksEmpty(d, target.cluster))

RenameEntry(m, dir, name, newDir, newName, entry, place) ==
    LET gone == IF place = None THEN m ELSE RemoveEntry(m, newDir, newName, At(m.d, place).cluster)
    IN IF (dir = newDir /\ name = newName) \/ (place # None /\ ~MayReplace(m.d, entry, At(m.d, place))) THEN m
       ELSE MoveEntry(createEntry(gone, newDir, [entry EXCEPT !.name = newName, !.size = 0]),
                      dir, name, newDir, newName, entry)

nodeRename(m, dir, name, newDir, newName) ==
    RenameEntry(m, dir, name, newDir, newName, Lookup(m.d, dir, name), findEntry(m.d, newDir, newName))

\* The chain is made long enough, as far as there is room.
ExtendBy(new, chain) == IF new.c = 0 THEN new.m ELSE setNextCluster(new.m, Last(chain), new.c)
LengthenTo(m, k, chain) == IF Len(chain) = k - 1 THEN ExtendBy(allocateCluster(m), chain) ELSE m
Extend(m, first, len) ==
    LET grow[k \in 0..len] == IF k = 0 THEN m ELSE LengthenTo(grow[k - 1], k, Chain(grow[k - 1].d.fat, first))
    IN grow[len]

\* n clusters at an offset; the size is recorded under the name the node has.
\* When the volume is full before the offset, nothing is.
Recorded(m, node, offset, n, reached) ==
    LET size == Max({node.size, Min({offset + n, reached})})
    IN IF reached <= offset THEN [m |-> m, node |-> node]
       ELSE [m |-> updateDirEntry(m, node.dir, node.name, size, node.cluster), node |-> [node EXCEPT !.size = size]]

Measured(m, node, offset, n) == Recorded(m, node, offset, n, Len(Chain(m.d.fat, node.cluster)))
nodeWrite(m, node, offset, n) == Measured(Extend(m, node.cluster, offset + n), node, offset, n)

\* Only to nothing; the first cluster stays.
nodeTruncate(m, node) ==
    LET next == getNextCluster(m, node.cluster)
        freed == IF next \in Clusters THEN freeClusterChain(m, next) ELSE m
    IN [m |-> updateDirEntry(setNextCluster(freed, node.cluster, EOC), node.dir, node.name, 0, node.cluster),
        node |-> [node EXCEPT !.size = 0]]

----------------------------------------------------------------------------
\* Steps.

Start == [d |-> s.d, hint |-> s.hint, log |-> <<>>]

\* An operation takes effect, or a crash cuts its writes short and the volume is
\* mounted again.
Performed(m, open) ==
    \/ /\ m.log # <<>>
       /\ s' = [s EXCEPT !.d = m.d, !.hint = m.hint, !.open = open, !.ops = @ - 1]
    \/ /\ s.crashes > 0
       /\ \E k \in 1..(Len(m.log) - 1) :
            s' = [s EXCEPT !.d = FoldLeft(Applied, @, SubSeq(m.log, 1, k)), !.hint = 2, !.open = NoNode,
                           !.ops = @ - 1, !.crashes = @ - 1]

Calls(call) == On /\ s.ops > 0 /\ call \in s.calls

RECURSIVE Below(_, _)
Below(d, dir) ==
    LET chain == Chain(d.fat, dir)
        kids == {d.slots[c][i].cluster : <<c, i>> \in {<<c, i>> \in ToSet(chain) \X (1..PerCluster) :
                    d.slots[c][i].dir /\ d.slots[c][i].name \in FileNames}}
    IN {dir} \union UNION {Below(d, k) : k \in kids}

\* The directories lookups reach.
Dirs == Below(s.d, Root)
Exists(dir, name) == findEntry(s.d, dir, name) # None
IsOpen(dir, name) == s.open # NoNode /\ s.open.dir = dir /\ s.open.name = name
Grown(dir) == Len(Chain(s.d.fat, dir)) > 1

Create(dir, name) == Calls("create") /\ ~Exists(dir, name) /\ Performed(nodeCreate(Start, dir, name), s.open)
Mkdir(dir, name) == Calls("mkdir") /\ ~Exists(dir, name) /\ Performed(nodeMkdir(Start, dir, name), s.open)

Unlink(dir, name) ==
    /\ Calls("unlink") /\ Exists(dir, name)
    /\ Careful => ~IsOpen(dir, name)
    /\ Performed(nodeUnlink(Start, dir, name), s.open)

Rmdir(dir, name) ==
    /\ Calls("rmdir") /\ Exists(dir, name)
    /\ Careful => ~Grown(Lookup(s.d, dir, name).cluster)
    /\ Performed(nodeRmdir(Start, dir, name), s.open)

Rename(dir, name, newDir, newName) ==
    LET entry == Lookup(s.d, dir, name)
        target == Lookup(s.d, newDir, newName)
    IN /\ Calls("rename") /\ Exists(dir, name)
       /\ Careful => /\ ~IsOpen(dir, name) /\ ~IsOpen(newDir, newName)
                     /\ entry.dir => newDir \notin Below(s.d, entry.cluster)
                     /\ Exists(newDir, newName) => ~(target.dir /\ Grown(target.cluster))
       /\ Performed(nodeRename(Start, dir, name, newDir, newName), s.open)

Open(dir, name) ==
    LET entry == Lookup(s.d, dir, name)
    IN /\ Calls("write") /\ s.open = NoNode /\ Exists(dir, name) /\ ~entry.dir
       /\ s' = [s EXCEPT !.open = [dir |-> dir, name |-> name, cluster |-> entry.cluster, size |-> entry.size]]

Close == On /\ s.open # NoNode /\ s' = [s EXCEPT !.open = NoNode]

WriteFile(offset, n) ==
    LET done == nodeWrite(Start, s.open, offset, n)
    IN /\ Calls("write") /\ s.open # NoNode
       /\ offset + n <= MaxFileSize
       /\ Performed(done.m, done.node)

Truncate ==
    LET done == nodeTruncate(Start, s.open)
    IN Calls("truncate") /\ s.open # NoNode /\ Performed(done.m, done.node)

mkfs ==
    LET fat == [c \in Clusters |-> IF c = Root THEN EOC ELSE FREE]
    IN [fat |-> fat, mirror |-> fat, slots |-> [c \in Clusters |-> Blank]]

Init ==
    \E v \in FatVolumes :
        s = [part |-> "fat32", d |-> mkfs, hint |-> 2, open |-> NoNode, ops |-> v.ops, crashes |-> v.crashes,
             calls |-> v.calls, crash |-> v.crashes]

Next ==
    \/ \E dir \in (IF On THEN Dirs ELSE {}), name \in FileNames :
         \/ Create(dir, name) \/ Mkdir(dir, name) \/ Unlink(dir, name) \/ Rmdir(dir, name) \/ Open(dir, name)
         \/ \E newDir \in Dirs, newName \in FileNames : Rename(dir, name, newDir, newName)
    \/ \E offset \in 0..1, n \in 1..2 : WriteFile(offset, n)
    \/ Truncate \/ Close

----------------------------------------------------------------------------
\* Every entry a lookup can reach, its directory and its place.
Entries ==
    UNION {{[dir |-> dir, at |-> <<c, i>>, e |-> s.d.slots[c][i]] : <<c, i>> \in {<<c, i>> \in ToSet(Chain(s.d.fat, dir)) \X (1..PerCluster) :
               s.d.slots[c][i].name \in FileNames}} : dir \in Dirs}

(* Whatever is created, written, renamed and removed, the volume is sound:  *)
(* every chain is in use to its end and belongs to one entry, no name is    *)
(* twice in a directory, a file is no longer than its chain and a directory *)
(* knows its parent.  This holds after a crash in a call that creates,      *)
(* writes or removes, at any of its writes.  Without a crash the tables     *)
(* agree and no cluster is lost.                                            *)
FatSound ==
    On => LET entries == Entries
              chains == [c \in {Root} \union {x.e.cluster : x \in entries} |-> ToSet(Chain(s.d.fat, c))]
              reached == UNION {chains[c] : c \in DOMAIN chains}
          IN /\ \A c \in reached : s.d.fat[c] # FREE
             /\ \A x, y \in entries : x # y => /\ x.dir = y.dir => x.e.name # y.e.name
                                               /\ x.e.cluster # y.e.cluster
             /\ \A a, b \in DOMAIN chains : a # b => chains[a] \intersect chains[b] = {}
             /\ \A x \in entries : /\ x.e.size <= Cardinality(chains[x.e.cluster])
                                   /\ x.e.dir => s.d.slots[x.e.cluster][2].cluster = x.dir
             /\ s.crashes = s.crash => /\ s.d.fat = s.d.mirror
                                       /\ \A c \in Clusters : s.d.fat[c] # FREE => c \in reached
============================================================================
