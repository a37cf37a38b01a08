-------------------------------- MODULE Vfs --------------------------------
(***************************************************************************)
(* Files by name: the path system calls, the virtual file system that      *)
(* resolves their paths across mounts and symbolic links, the RAM file     *)
(* systems below it, and the descriptors a process has open.  A system     *)
(* call runs under the kernel lock from its path to its result, so each is *)
(* one step; a call that fails without effect is no step.                  *)
(*                                                                         *)
(* A node stands for the memory it occupies: once freed it may be any      *)
(* other node.  A path is a sequence of names, all of one length.          *)
(***************************************************************************)
EXTENDS Integers, FiniteSets, FiniteSetsExt, Sequences, SequencesExt

CONSTANTS
    Names,            \* names of directory entries
    NodeIds,          \* memory for the nodes of the file systems
    MountPoint,       \* the path where the second file system is mounted
    Targets,          \* targets of symbolic links: [abs, path]
    RawPaths,         \* paths as programs give them: [abs, segs, slash]
    HandleIds,        \* the handles of the process
    MaxSize,          \* bound: length of a file
    MaxSymlinkDepth,  \* links followed before a path is a loop
    FileUses,         \* explored processes: the calls they make, the flags they
                      \* open with, the memory there is for nodes
    KeepOpen          \* FALSE: a program may remove a file it has open

VARIABLE s

On == s.part = "vfs"

----------------------------------------------------------------------------
\* Nodes.

RootOf == [root |-> 1, second |-> 2]
NoNode == [type |-> "free", fs |-> 0, parent |-> 0, kids |-> <<>>, file |-> 0, target |-> <<>>, writable |-> TRUE]
NewNode(type, fs, parent) == [NoNode EXCEPT !.type = type, !.fs = fs, !.parent = parent]
NoFile == [links |-> 0, data |-> <<>>]

Type(n) == IF n = 0 THEN "none" ELSE s.nodes[n].type
FreeNode == {n \in 1..s.use.nodes : s.nodes[n].type = "free"}
FreeFile == {n \in NodeIds : s.files[n] = NoFile}

ramfsFindChild(n, name) == IF name \in DOMAIN s.nodes[n].kids THEN s.nodes[n].kids[name] ELSE 0
ramfsIsDescendantOf(n, ancestor) ==
    LET up[i \in 0..Cardinality(NodeIds)] == IF i = 0 THEN n
                                             ELSE IF up[i - 1] = 0 THEN 0 ELSE s.nodes[up[i - 1]].parent
    IN \E i \in 0..Cardinality(NodeIds) : up[i] = ancestor

WithKid(nodes, p, name, n) == [nodes EXCEPT ![p].kids = [x \in DOMAIN @ \union {name} |-> IF x = name THEN n ELSE @[x]]]
ramfsDetachChild(nodes, p, name) == [nodes EXCEPT ![p].kids = [x \in DOMAIN @ \ {name} |-> @[x]]]

\* The node's memory is freed, and with the last link its data.
destroyNode(nodes, files, n) ==
    LET f == nodes[n].file
        left == files[f].links - 1
    IN [nodes |-> [nodes EXCEPT ![n] = NoNode],
        files |-> IF nodes[n].type # "reg" THEN files
                  ELSE [files EXCEPT ![f] = IF left = 0 THEN NoFile ELSE [@ EXCEPT !.links = left]]]

----------------------------------------------------------------------------
\* Paths.

appendPathSegment(out, seg) ==
    IF seg = "." THEN out
    ELSE IF seg = ".." THEN (IF out = <<>> THEN out ELSE Front(out))
    ELSE Append(out, seg)

normalizeAbsolutePath(segs) == FoldLeft(appendPathSegment, <<>>, segs)

makeAbsolutePath(raw) == normalizeAbsolutePath(IF raw.abs THEN raw.segs ELSE s.cwd \o raw.segs)

findMount(path) ==
    IF IsPrefix(MountPoint, path)
    THEN [root |-> RootOf.second, rest |-> SubSeq(path, Len(MountPoint) + 1, Len(path))]
    ELSE [root |-> RootOf.root, rest |-> path]

\* The nodes along a path in one file system, 0 from the first that is missing.
Along(root, rest) ==
    LET at[i \in 0..Len(rest)] == IF i = 0 THEN root
                                  ELSE LET n == at[i - 1] IN IF Type(n) # "dir" THEN 0 ELSE ramfsFindChild(n, rest[i])
    IN at

\* The path with the link at component i replaced.  A relative target is put
\* after the path without its last component, wherever in the path the link is.
FollowLink(path, rest, i, target) ==
    (IF target.abs THEN target.path ELSE Front(path) \o target.path) \o SubSeq(rest, i + 1, Len(rest))

Loop == 0 - 1

\* The node at the end of a path after following its links one by one, 0 when
\* there is none, Loop when there are too many.
RECURSIVE Follow(_, _, _)
Follow(path, followFinal, depth) ==
    LET m == findMount(path)
        at == Along(m.root, m.rest)
        links == {i \in 1..Len(m.rest) : Type(at[i]) = "link" /\ (followFinal \/ i < Len(m.rest))}
        i == Min(links)
    IN IF depth > MaxSymlinkDepth THEN Loop
       ELSE IF links = {} THEN at[Len(m.rest)]
       ELSE Follow(FollowLink(path, m.rest, i, s.nodes[at[i]].target), followFinal, depth + 1)

resolvePath(path, followFinal) == Max({0, Follow(path, followFinal, 0)})
IsLoop(path, followFinal) == Follow(path, followFinal, 0) = Loop

stat(path) == resolvePath(path, TRUE)
lstat(path) == resolvePath(path, FALSE)

\* The directory that holds the last component.
splitPath(path) == stat(Front(path))
ParentDir(path) == path # <<>> /\ Type(splitPath(path)) = "dir"
pathParentDeniesWrite(path) == ParentDir(path) /\ ~s.nodes[splitPath(path)].writable

----------------------------------------------------------------------------
\* Directory operations of the RAM file system.

Calls(call) == On /\ call \in s.use.calls
NoHandle == [node |-> 0, flags |-> {}, off |-> 0, with |-> 0]
OpenNodes == {s.handles[h].node : h \in HandleIds} \ {0}

\* A new node under a name that is not taken.
AddNode(type, p, name, target) ==
    LET n == Min(FreeNode)
        f == Min(FreeFile)
        node == [NewNode(type, s.nodes[p].fs, p) EXCEPT !.target = target, !.file = IF type = "reg" THEN f ELSE 0]
    IN [node |-> n, nodes |-> WithKid([s.nodes EXCEPT ![n] = node], p, name, n),
        files |-> IF type = "reg" THEN [s.files EXCEPT ![f] = [links |-> 1, data |-> <<>>]] ELSE s.files]

MayAdd(type, path) ==
    /\ ParentDir(path) /\ ramfsFindChild(splitPath(path), Last(path)) = 0
    /\ FreeNode # {} /\ (type = "reg" => FreeFile # {})

nodeTruncate(files, n, size) ==
    [files EXCEPT ![s.nodes[n].file].data = [i \in 1..size |-> IF i <= Len(@) THEN @[i] ELSE 0]]

----------------------------------------------------------------------------
\* System calls on paths.

\* What the kernel refuses of an existing file.
OpenAllowed(raw, path, flags) ==
    LET n == stat(path)
    IN /\ ~(raw.slash /\ n # 0 /\ Type(n) # "dir")
       /\ ~({"creat", "excl"} \subseteq flags /\ lstat(path) # 0)
       /\ ~("nofollow" \in flags /\ Type(lstat(path)) = "link")
       /\ ~("trunc" \in flags /\ "write" \notin flags)
       /\ n # 0 => /\ Type(n) # "fifo"
                   /\ Type(n) = "dir" => {"write", "trunc"} \intersect flags = {}
                   /\ "write" \in flags => s.nodes[n].writable
       /\ n = 0 => /\ ~IsLoop(path, TRUE) /\ ParentDir(path)
                   /\ "creat" \in flags /\ ~pathParentDeniesWrite(path) /\ MayAdd("reg", path)

\* The file is created or emptied even when no handle is left for it.
sys_open(raw, flags) ==
    LET path == makeAbsolutePath(raw)
        found == resolvePath(path, "nofollow" \notin flags)
        new == AddNode("reg", splitPath(path), Last(path), <<>>)
        n == IF found = 0 THEN new.node ELSE found
        files == IF found = 0 THEN new.files
                 ELSE IF "trunc" \in flags /\ Type(n) = "reg" THEN nodeTruncate(s.files, n, 0) ELSE s.files
        free == {h \in HandleIds : s.handles[h] = NoHandle}
    IN /\ Calls("open")
       /\ OpenAllowed(raw, path, flags)
       /\ s' = [s EXCEPT !.files = files, !.nodes = IF found = 0 THEN new.nodes ELSE @,
                         !.handles = IF free = {} THEN @
                                     ELSE [@ EXCEPT ![Min(free)] = [node |-> n, flags |-> flags, off |-> 0, with |-> Min(free)]]]

sys_mkdir(raw) ==
    LET path == makeAbsolutePath(raw)
    IN /\ Calls("mkdir")
       /\ stat(path) = 0 /\ MayAdd("dir", path) /\ ~pathParentDeniesWrite(path)
       /\ s' = [s EXCEPT !.nodes = AddNode("dir", splitPath(path), Last(path), <<>>).nodes]

sys_mknod(raw) ==
    LET path == makeAbsolutePath(raw)
    IN /\ Calls("mknod")
       /\ MayAdd("fifo", path)
       /\ s' = [s EXCEPT !.nodes = AddNode("fifo", splitPath(path), Last(path), <<>>).nodes]

sys_symlink(target, raw) ==
    LET path == makeAbsolutePath(raw)
    IN /\ Calls("symlink")
       /\ lstat(path) = 0 /\ MayAdd("link", path) /\ ~pathParentDeniesWrite(path)
       /\ s' = [s EXCEPT !.nodes = AddNode("link", splitPath(path), Last(path), target).nodes]

\* The name's node is freed, whoever has it open.
RemoveName(p, name) ==
    LET n == ramfsFindChild(p, name)
        left == destroyNode(ramfsDetachChild(s.nodes, p, name), s.files, n)
    IN /\ KeepOpen => n \notin OpenNodes
       /\ s' = [s EXCEPT !.nodes = left.nodes, !.files = left.files]

sys_rmdir(raw) ==
    LET path == makeAbsolutePath(raw)
        n == ramfsFindChild(splitPath(path), Last(path))
    IN /\ Calls("rmdir")
       /\ Type(stat(path)) = "dir" /\ s.nodes[stat(path)].kids = <<>>
       /\ ParentDir(path) /\ ~pathParentDeniesWrite(path)
       /\ Type(n) = "dir" /\ s.nodes[n].kids = <<>>
       /\ RemoveName(splitPath(path), Last(path))

sys_unlink(raw) ==
    LET path == makeAbsolutePath(raw)
        n == ramfsFindChild(splitPath(path), Last(path))
    IN /\ Calls("unlink")
       /\ lstat(path) # 0 /\ Type(lstat(path)) # "dir" /\ ~raw.slash
       /\ ParentDir(path) /\ ~pathParentDeniesWrite(path)
       /\ n # 0 /\ Type(n) # "dir"
       /\ RemoveName(splitPath(path), Last(path))

\* A second node for the file of the first.
nodeLink(source, q, newName) ==
    LET n == Min(FreeNode)
        f == s.nodes[source].file
        node == [NewNode("reg", s.nodes[q].fs, q) EXCEPT !.file = f]
    IN /\ ramfsFindChild(q, newName) = 0 /\ FreeNode # {} /\ Type(source) = "reg"
       /\ s' = [s EXCEPT !.nodes = WithKid([@ EXCEPT ![n] = node], q, newName, n),
                         !.files = [@ EXCEPT ![f].links = @ + 1]]

sys_link(raw, newRaw) ==
    LET old == makeAbsolutePath(raw)
        new == makeAbsolutePath(newRaw)
    IN /\ Calls("link")
       /\ ParentDir(old) /\ ParentDir(new) /\ stat(old) # 0 /\ Type(stat(old)) # "dir" /\ stat(new) = 0
       /\ s.nodes[splitPath(old)].fs = s.nodes[splitPath(new)].fs
       /\ ~pathParentDeniesWrite(new)
       /\ nodeLink(ramfsFindChild(splitPath(old), Last(old)), splitPath(new), Last(new))

\* What the file system refuses to rename: an entry below itself, a target of
\* another kind, a directory that is not empty.
Replaceable(source, target) ==
    target # 0 => /\ target # source
                  /\ ~(Type(source) = "reg" /\ Type(target) = "reg" /\ s.nodes[source].file = s.nodes[target].file)
                  /\ (Type(source) = "dir") = (Type(target) = "dir")
                  /\ s.nodes[target].kids = <<>>

\* Mutant: a directory may be moved below itself.
RenameAnywhere(p, name, q, newName) ==
    LET source == ramfsFindChild(p, name)
        target == ramfsFindChild(q, newName)
        cleared == IF target = 0 THEN [nodes |-> s.nodes, files |-> s.files]
                   ELSE destroyNode(ramfsDetachChild(s.nodes, q, newName), s.files, target)
        moved == WithKid(ramfsDetachChild(cleared.nodes, p, name), q, newName, source)
    IN /\ source # 0
       /\ Replaceable(source, target)
       /\ KeepOpen => target \notin OpenNodes
       /\ s' = [s EXCEPT !.nodes = [moved EXCEPT ![source].parent = q], !.files = cleared.files]

nodeRename(p, name, q, newName) ==
    LET source == ramfsFindChild(p, name)
        target == ramfsFindChild(q, newName)
        cleared == IF target = 0 THEN [nodes |-> s.nodes, files |-> s.files]
                   ELSE destroyNode(ramfsDetachChild(s.nodes, q, newName), s.files, target)
        moved == WithKid(ramfsDetachChild(cleared.nodes, p, name), q, newName, source)
    IN /\ source # 0
       /\ Type(source) = "dir" => ~ramfsIsDescendantOf(q, source)
       /\ Replaceable(source, target)
       /\ KeepOpen => target \notin OpenNodes
       /\ s' = [s EXCEPT !.nodes = [moved EXCEPT ![source].parent = q], !.files = cleared.files]

sys_rename(raw, newRaw) ==
    LET old == makeAbsolutePath(raw)
        new == makeAbsolutePath(newRaw)
    IN /\ Calls("rename")
       /\ ParentDir(old) /\ ParentDir(new)
       /\ ~pathParentDeniesWrite(old) /\ ~pathParentDeniesWrite(new)
       /\ s.nodes[splitPath(old)].fs = s.nodes[splitPath(new)].fs
       /\ nodeRename(splitPath(old), Last(old), splitPath(new), Last(new))

sys_chdir(raw) ==
    LET path == makeAbsolutePath(raw)
    IN /\ Calls("chdir")
       /\ Type(stat(path)) = "dir"
       /\ s' = [s EXCEPT !.cwd = path]

sys_chmod(raw, writable) ==
    LET n == stat(makeAbsolutePath(raw))
    IN /\ Calls("chmod")
       /\ n # 0
       /\ s' = [s EXCEPT !.nodes = [@ EXCEPT ![n].writable = writable]]

sys_truncate(raw, size) ==
    LET n == stat(makeAbsolutePath(raw))
    IN /\ Calls("truncate")
       /\ Type(n) = "reg" /\ s.nodes[n].writable
       /\ s' = [s EXCEPT !.files = nodeTruncate(@, n, size)]

----------------------------------------------------------------------------
\* System calls on handles.  Handles that share a description (dup) share its
\* offset: with names the first of them.

Description(h) == {g \in HandleIds : s.handles[g].with = s.handles[h].with /\ s.handles[g] # NoHandle}
AtOffset(h, off) == [g \in HandleIds |-> IF g \in Description(h) THEN [s.handles[g] EXCEPT !.off = off] ELSE s.handles[g]]
DataOf(h) == s.files[s.nodes[s.handles[h].node].file].data
IsRegular(h) == Type(s.handles[h].node) = "reg"

sys_close(h) ==
    /\ Calls("close") /\ s.handles[h] # NoHandle
    /\ LET rest == Description(h) \ {h}
       IN s' = [s EXCEPT !.handles = [g \in HandleIds |->
                   IF g = h THEN NoHandle
                   ELSE IF g \in rest THEN [s.handles[g] EXCEPT !.with = Min(rest)] ELSE s.handles[g]]]

sys_dup(h, g) ==
    /\ Calls("dup") /\ s.handles[h] # NoHandle /\ s.handles[g] = NoHandle
    /\ s' = [s EXCEPT !.handles = [@ EXCEPT ![g] = s.handles[h]]]

\* One byte; with O_APPEND at the end of the file, past the end after zeros.
sys_write(h, v) ==
    LET off == IF "append" \in s.handles[h].flags THEN Len(DataOf(h)) ELSE s.handles[h].off
        f == s.nodes[s.handles[h].node].file
        data == [i \in 1..Max({off + 1, Len(DataOf(h))}) |->
                    IF i = off + 1 THEN v ELSE IF i <= Len(DataOf(h)) THEN DataOf(h)[i] ELSE 0]
    IN /\ Calls("write") /\ s.handles[h] # NoHandle
       /\ IsRegular(h) /\ "write" \in s.handles[h].flags
       /\ off < MaxSize
       /\ s' = [s EXCEPT !.files = [@ EXCEPT ![f].data = data], !.handles = AtOffset(h, off + 1)]

sys_read(h) ==
    /\ Calls("read") /\ s.handles[h] # NoHandle
    /\ IsRegular(h) /\ s.handles[h].off < Len(DataOf(h))
    /\ s' = [s EXCEPT !.handles = AtOffset(h, s.handles[h].off + 1)]

sys_seek(h, off) ==
    /\ Calls("seek") /\ s.handles[h] # NoHandle
    /\ Type(s.handles[h].node) # "fifo"
    /\ s' = [s EXCEPT !.handles = AtOffset(h, off)]

sys_ftruncate(h, size) ==
    /\ Calls("truncate") /\ s.handles[h] # NoHandle
    /\ IsRegular(h) /\ "write" \in s.handles[h].flags
    /\ s' = [s EXCEPT !.files = nodeTruncate(@, s.handles[h].node, size)]

----------------------------------------------------------------------------
Init ==
    \E use \in FileUses :
        s = [part |-> "vfs", use |-> use, cwd |-> <<>>,
             nodes |-> [n \in NodeIds |-> IF n = RootOf.root THEN NewNode("dir", 1, 0)
                                          ELSE IF n = RootOf.second THEN NewNode("dir", 2, 0) ELSE NoNode],
             files |-> [n \in NodeIds |-> NoFile],
             handles |-> [h \in HandleIds |-> NoHandle]]

Next ==
    \/ \E raw \in RawPaths :
         \/ \E flags \in (IF On THEN s.use.flags ELSE {}) : sys_open(raw, flags)
         \/ sys_mkdir(raw) \/ sys_mknod(raw) \/ sys_rmdir(raw) \/ sys_unlink(raw) \/ sys_chdir(raw)
         \/ \E target \in Targets : sys_symlink(target, raw)
         \/ \E newRaw \in RawPaths : sys_link(raw, newRaw) \/ sys_rename(raw, newRaw)
         \/ \E writable \in BOOLEAN : sys_chmod(raw, writable)
         \/ \E size \in 0..MaxSize : sys_truncate(raw, size)
    \/ \E h \in HandleIds :
         \/ sys_close(h) \/ sys_read(h)
         \/ \E g \in HandleIds : sys_dup(h, g)
         \/ \E v \in {1, 2} : sys_write(h, v)
         \/ \E n \in 0..MaxSize : sys_seek(h, n) \/ sys_ftruncate(h, n)

----------------------------------------------------------------------------
Live == {n \in NodeIds : s.nodes[n].type # "free"}
IsRoot(n) == n \in {RootOf.root, RootOf.second}

(* Whatever is created, linked, renamed and removed, each file system stays *)
(* a tree: every node but the root is the entry of exactly one directory,   *)
(* the one it has as parent, of its own file system, and hangs below the    *)
(* root; a file has as many links as nodes share it.                        *)
TreeIntegrity ==
    On => /\ \A n \in Live : IsRoot(n) \/
                /\ \E root \in {RootOf.root, RootOf.second} : ramfsIsDescendantOf(n, root)
                /\ Cardinality({<<p, name>> \in Live \X Names : name \in DOMAIN s.nodes[p].kids /\ s.nodes[p].kids[name] = n}) = 1
                /\ n \in {s.nodes[s.nodes[n].parent].kids[name] : name \in DOMAIN s.nodes[s.nodes[n].parent].kids}
                /\ s.nodes[n].fs = s.nodes[s.nodes[n].parent].fs
          /\ \A p \in Live : \A name \in DOMAIN s.nodes[p].kids : s.nodes[p].kids[name] \in Live
          /\ \A f \in NodeIds : s.files[f].links = Cardinality({n \in Live : s.nodes[n].type = "reg" /\ s.nodes[n].file = f})

(* A handle's node is not freed, and is of the kind the handle was opened   *)
(* for, while the program keeps to names it does not have open.             *)
OpenNodesLive ==
    On => \A h \in HandleIds : s.handles[h] # NoHandle =>
              /\ s.handles[h].node \in Live
              /\ "write" \in s.handles[h].flags => IsRegular(h)
============================================================================
