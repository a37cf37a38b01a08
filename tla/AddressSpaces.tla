----------------------------- MODULE AddressSpaces -----------------------------
(***************************************************************************)
(* Address spaces on several CPUs: leaf page-table entries and copy-on-    *)
(* write (cpu/memory/vmm.cpp), frame reference counts (cpu/memory/pmm.cpp),*)
(* mmap regions and fork's clone (cpu/process/process.cpp), mmap, munmap   *)
(* and mprotect (cpu/syscall/mem.cpp), page faults (cpu/idt/isr.cpp), and  *)
(* what each CPU's TLB caches of all that.                                 *)
(*                                                                         *)
(* A kernel operation runs under the big kernel lock, one at a time, while *)
(* the other CPUs go on in user mode: they read and write through whatever *)
(* their TLB holds and refill it at any time.  So an operation is the list *)
(* `todo' of its stores, flushes, copies and frees, in the code's order,   *)
(* and everybody else may run between two of them.  A shootdown reaches    *)
(* one CPU after the other (module TlbShootdown has its protocol).         *)
(*                                                                         *)
(*   pte      the leaf entry of each page of each space, None if not mapped*)
(*   region   the mmap region a page lies in (VmaRegion), None if none     *)
(*   base     mmapBase, the next page a mapping without address gets       *)
(*   ref      s_refcount; 0 = the frame is free                            *)
(*   data     contents of a frame       handle   objects with a handle open*)
(*   cr3      the space a CPU runs      tlb      what it caches of it      *)
(*   live     spaces some process has   todo     steps left of the         *)
(*   by       the CPU that runs them             operation under way       *)
(*   calls    the calls the programs of this behaviour make                *)
(***************************************************************************)
EXTENDS Naturals, Sequences, FiniteSets, SequencesExt

CONSTANTS Cpu, Space, Frame, Val,
          Zero,      \* the contents of a zeroed frame
          None,      \* no entry, no region, no space
          NVa,       \* number of user pages
          Programs   \* what programs do: each a set of call names

VARIABLES pte, region, base, ref, data, handle, cr3, tlb, live, todo, by, calls

vars == <<pte, region, base, ref, data, handle, cr3, tlb, live, todo, by, calls>>

Va == 1..NVa

ASSUME AddressSpacesAssumption ==
    /\ NVa \in Nat \ {0}
    /\ Zero \in Val
    /\ None \notin Frame \cup Space \cup Val

\* A leaf: its frame, ReadWrite, kCowPage and kSharedFrame.
Entry == [frame : Frame, w : BOOLEAN, cow : BOOLEAN, shr : BOOLEAN]
Region == [w : BOOLEAN, obj : Frame \cup {None}]

Idle == todo = <<>>
NoRegions == [v \in Va |-> None]

\* References of an object: its handle and the regions that map it.
Regions(o) == {sv \in Space \X Va : region[sv[1]][sv[2]] # None
                                    /\ region[sv[1]][sv[2]].obj = o}
ObjectAlive(o) == o \in handle \/ Regions(o) # {}

-------------------------------------------------------------------------------
(* The steps of kernel operations.                                           *)

Copy(from, to)        == [do |-> "copy", from |-> from, to |-> to]
Clear(f)              == [do |-> "clear", to |-> f]
Store(s, v, e)        == [do |-> "store", s |-> s, v |-> v, e |-> e]
Local(v)              == [do |-> "local", v |-> v]
Flush(s, vs, targets) == [do |-> "flush", s |-> s, vs |-> vs, targets |-> targets]
Free(f)               == [do |-> "free", f |-> f]
IncRef(f)             == [do |-> "incref", f |-> f]
SetRegion(s, v, r)    == [do |-> "region", s |-> s, v |-> v, r |-> r]
Birth(s, child)       == [do |-> "birth", s |-> s, child |-> child]
Death(s)              == [do |-> "death", s |-> s]

\* TLB::shootdown() of pages vs of space s.
Shootdown(s, vs) == Flush(s, vs, Cpu)

\* storeLeaf(), protectLeaf(), unmapLeaf(): the store and its flush.
StoreAndFlush(s, v, e) == <<Store(s, v, e), Shootdown(s, {v})>>

\* Mutant: the leaf is stored before the copy is made.
CowCopiesLate(s, v, f) ==
    LET e == pte[s][v] IN
    IF ref[e.frame] <= 1
    THEN <<Store(s, v, [e EXCEPT !.w = TRUE, !.cow = FALSE]), Local(v)>>
    ELSE StoreAndFlush(s, v, [e EXCEPT !.frame = f, !.w = TRUE, !.cow = FALSE])
         \o <<Copy(e.frame, f), Free(e.frame)>>

\* HandleCowFault() at a kCowPage leaf; `f' is the frame it may allocate.
CowBreak(s, v, f) ==
    LET e == pte[s][v] IN
    IF ref[e.frame] <= 1
    THEN <<Store(s, v, [e EXCEPT !.w = TRUE, !.cow = FALSE]), Local(v)>>
    ELSE <<Copy(e.frame, f)>>
         \o StoreAndFlush(s, v, [e EXCEPT !.frame = f, !.w = TRUE, !.cow = FALSE])
         \o <<Free(e.frame)>>

NeedsFrame(s, v) == pte[s][v] # None /\ pte[s][v].cow /\ ref[pte[s][v].frame] > 1

\* Mutants: the frame is freed before the shootdown, or though it is shared.
UnmapFreesFirst(s, v) ==
    LET e == pte[s][v] IN
    IF e = None THEN <<>>
    ELSE (IF e.shr THEN <<>> ELSE <<Free(e.frame)>>) \o StoreAndFlush(s, v, None)


\* unmapUserPages() of one page.
Unmap(s, v) ==
    LET e == pte[s][v] IN
    IF e = None THEN <<>>
    ELSE StoreAndFlush(s, v, None) \o (IF e.shr THEN <<>> ELSE <<Free(e.frame)>>)

\* mmapRemoveRange() of one page.
DropRegion(s, v) == IF region[s][v] = None THEN <<>> ELSE <<SetRegion(s, v, None)>>

\* FreeAddressSpace() and the regions after it, by the last thread's delete.
Teardown(s, entries) ==
    FlattenSeq([v \in Va |->
        IF entries[v] = None \/ entries[v].shr THEN <<>> ELSE <<Free(entries[v].frame)>>])
    \o <<Death(s)>>

-------------------------------------------------------------------------------
(* System calls and faults, by CPU c in the space it runs.                   *)

Call(c, name) == Idle /\ cr3[c] # None /\ name \in calls

\* The operation begins; `alloc' are the frames it has allocated.
BeginAt(c, steps, alloc) ==
    /\ steps # <<>>
    /\ todo' = steps
    /\ by' = c
    /\ ref' = [f \in Frame |-> IF f \in alloc THEN 1 ELSE ref[f]]
    /\ UNCHANGED <<pte, region, data, handle, cr3, tlb, live, calls>>

Begin(c, steps, alloc) == BeginAt(c, steps, alloc) /\ UNCHANGED base

FreeFrames == {f \in Frame : ref[f] = 0}

\* The frame an operation allocates if it needs one.
WithFrame(needed, Op(_)) ==
    IF needed THEN \E f \in FreeFrames : Op(f) ELSE Op(None)

\* Copy-on-write: a write to a present leaf that is marked.
CowFault(c) ==
    \E v \in Va :
        LET e == pte[cr3[c]][v]
            fault(f) == Begin(c, CowBreak(cr3[c], v, f), {f} \cap Frame)
        IN  /\ Call(c, "write")
            /\ e # None
            /\ e.cow
            /\ WithFrame(NeedsFrame(cr3[c], v), fault)

\* Mutant: the fresh frame is not cleared.
DemandFaultUnzeroed(c) ==
    \E v \in Va, f \in FreeFrames :
        LET r == region[cr3[c]][v]
            e == [frame |-> f, w |-> r.w, cow |-> FALSE, shr |-> FALSE]
        IN  /\ Call(c, "touch")
            /\ pte[cr3[c]][v] = None
            /\ r # None
            /\ r.obj = None
            /\ Begin(c, <<Store(cr3[c], v, e), Local(v)>>, {f})

\* handleDemandFault(): the first touch of a page of a region without object.
DemandFault(c) ==
    \E v \in Va, f \in FreeFrames :
        LET r == region[cr3[c]][v]
            e == [frame |-> f, w |-> r.w, cow |-> FALSE, shr |-> FALSE]
        IN  /\ Call(c, "touch")
            /\ pte[cr3[c]][v] = None
            /\ r # None
            /\ r.obj = None
            /\ Begin(c, <<Clear(f), Store(cr3[c], v, e), Local(v)>>, {f})

\* The TLB entry is narrower than the leaf: PermitsFaultedAccess(), flush, retry.
SpuriousFault(c) ==
    \E v \in Va :
        /\ Call(c, "write")
        /\ tlb[c][v] # None
        /\ ~tlb[c][v].w
        /\ pte[cr3[c]][v] # None
        /\ pte[cr3[c]][v].w
        /\ Begin(c, <<Local(v)>>, {})

\* mmap at an address the program names.
Mmap(c) ==
    \E v \in Va, w \in BOOLEAN :
        LET s == cr3[c] IN
        /\ Call(c, "mmap")
        /\ Begin(c, Unmap(s, v) \o DropRegion(s, v)
                    \o <<SetRegion(s, v, [w |-> w, obj |-> None])>>, {})

\* Mutant: the base does not move.
MmapAnyTwice(c) ==
    \E w \in BOOLEAN :
        LET s == cr3[c]
            v == base[s]
        IN  /\ Call(c, "mmap_any")
            /\ v \in Va
            /\ UNCHANGED base
            /\ BeginAt(c, DropRegion(s, v)
                          \o <<SetRegion(s, v, [w |-> w, obj |-> None])>>, {})

\* reserveMmapRegion(): base only grows, and nothing looks what lies there.
MmapAny(c) ==
    \E w \in BOOLEAN :
        LET s == cr3[c]
            v == base[s]
        IN  /\ Call(c, "mmap_any")
            /\ v \in Va
            /\ base' = [base EXCEPT ![s] = v + 1]
            /\ BeginAt(c, DropRegion(s, v)
                          \o <<SetRegion(s, v, [w |-> w, obj |-> None])>>, {})

\* mmap of an object that has a handle: its page is mapped at once, shared.
MmapObject(c) ==
    \E v \in Va, w \in BOOLEAN, o \in handle :
        LET s == cr3[c]
            e == [frame |-> o, w |-> w, cow |-> FALSE, shr |-> TRUE]
        IN  /\ Call(c, "mmap_object")
            /\ Begin(c, Unmap(s, v) \o DropRegion(s, v)
                        \o <<Store(s, v, e), Local(v),
                             SetRegion(s, v, [w |-> w, obj |-> o])>>, {})

Munmap(c) ==
    \E v \in Va :
        LET s == cr3[c] IN
        /\ Call(c, "munmap")
        /\ Begin(c, Unmap(s, v) \o DropRegion(s, v), {})

\* The leaf gets the flags of the new protection and no others.
Protect(s, v, e, w) ==
    StoreAndFlush(s, v, [e EXCEPT !.w = w, !.cow = FALSE, !.shr = FALSE])

\* HandleCowFault() first; when it finds no frame to copy to, mprotect goes on.
Mprotect(c, name, w) ==
    \E v \in Va :
        LET s == cr3[c]
            e == pte[s][v]
            r == region[s][v]
            oom == NeedsFrame(s, v) /\ FreeFrames = {}
            break(f) == IF e.cow /\ ~oom THEN CowBreak(s, v, f) ELSE <<>>
            broken(f) == [e EXCEPT !.frame = IF f = None THEN @ ELSE f]
            leaf(f) == IF e = None THEN <<>> ELSE break(f) \o Protect(s, v, broken(f), w)
            record == IF r = None THEN <<>> ELSE <<SetRegion(s, v, [r EXCEPT !.w = w])>>
            protect(f) == Begin(c, leaf(f) \o record, {f} \cap Frame)
        IN  /\ Call(c, name)
            /\ WithFrame(NeedsFrame(s, v) /\ ~oom, protect)

\* cloneAddressSpaceFrom() for one page outside the stack.  The parent's leaf
\* first, then the child's, then the count of the frame.
ReadOnlyCow(e) == [e EXCEPT !.w = FALSE, !.cow = TRUE]


ClonePageWritable(s, child, v) ==
    IF pte[s][v] = None THEN <<>>
    ELSE IF pte[s][v].shr THEN <<Store(child, v, pte[s][v])>>
    ELSE IF ~pte[s][v].w THEN <<Store(child, v, pte[s][v]), IncRef(pte[s][v].frame)>>
    ELSE <<Store(s, v, ReadOnlyCow(pte[s][v])), Store(child, v, pte[s][v]),
           IncRef(pte[s][v].frame)>>

ClonePage(s, child, v) ==
    LET e == pte[s][v] IN
    CASE e = None -> <<>>
      [] e # None /\ e.shr -> <<Store(child, v, e)>>
      [] e # None /\ ~e.shr /\ e.w -> <<Store(s, v, ReadOnlyCow(e)),
                                       Store(child, v, ReadOnlyCow(e)), IncRef(e.frame)>>
      [] OTHER -> <<Store(child, v, e), IncRef(e.frame)>>

\* The page at which the clone runs out of memory.
FailPage(s, v) ==
    IF v \in Va /\ pte[s][v] # None /\ ~pte[s][v].shr /\ pte[s][v].w
    THEN <<Store(s, v, ReadOnlyCow(pte[s][v]))>> ELSE <<>>

\* Mutant: the parent's leaves are turned read-only without a shootdown.
NoParentFlush(s, vs) == <<>>

\* ParentFlush, on every way out of the clone.
ParentFlush(s, vs) ==
    IF \E v \in vs \cap Va : pte[s][v] # None /\ pte[s][v].w /\ ~pte[s][v].shr
    THEN <<Shootdown(s, Va)>> ELSE <<>>

ClonePages(s, child, n) == FlattenSeq([v \in 1..n |-> ClonePage(s, child, v)])

Fork(c) ==
    \E child \in Space \ live :
        LET s == cr3[c] IN
        /\ Call(c, "fork")
        /\ Begin(c, ClonePages(s, child, NVa) \o ParentFlush(s, Va) \o <<Birth(s, child)>>, {})

\* The clone runs out of memory after n pages (or, after all of them, for the
\* regions), and the child is deleted.
ForkFails(c) ==
    \E child \in Space \ live, n \in 0..NVa :
        LET s == cr3[c]
            cloned == [v \in Va |-> IF v <= n THEN pte[s][v] ELSE None]
        IN  /\ Call(c, "fork_fails")
            /\ Begin(c, ClonePages(s, child, n) \o FailPage(s, n + 1)
                        \o ParentFlush(s, 1..(n + 1)) \o Teardown(child, cloned), {})

\* Mutant: the space is torn down while a CPU still runs it.
ExitWhileRunning(c) ==
    \E s \in live :
        /\ Call(c, "exit")
        /\ Begin(c, Teardown(s, pte[s]), {})

\* The last thread of a space that no CPU runs is deleted.
Exit(c) ==
    \E s \in live :
        /\ Call(c, "exit")
        /\ \A d \in Cpu : cr3[d] # s
        /\ Begin(c, Teardown(s, pte[s]), {})

-------------------------------------------------------------------------------
(* The steps themselves.                                                     *)

\* PMM::FreeFrame()
Freed(f) == IF ref[f] = 0 THEN ref ELSE [ref EXCEPT ![f] = @ - 1]

Todo(kind) == ~Idle /\ Head(todo).do = kind

Advance == todo' = Tail(todo) /\ UNCHANGED by

DoCopy ==
    /\ Todo("copy")
    /\ data' = [data EXCEPT ![Head(todo).to] = data[Head(todo).from]]
    /\ Advance
    /\ UNCHANGED <<pte, region, base, ref, handle, cr3, tlb, live, calls>>

DoClear ==
    /\ Todo("clear")
    /\ data' = [data EXCEPT ![Head(todo).to] = Zero]
    /\ Advance
    /\ UNCHANGED <<pte, region, base, ref, handle, cr3, tlb, live, calls>>

DoStore ==
    LET x == Head(todo) IN
    /\ Todo("store")
    /\ pte' = [pte EXCEPT ![x.s][x.v] = x.e]
    /\ Advance
    /\ UNCHANGED <<region, base, ref, data, handle, cr3, tlb, live, calls>>

DoLocal ==
    /\ Todo("local")
    /\ tlb' = [tlb EXCEPT ![by][Head(todo).v] = None]
    /\ Advance
    /\ UNCHANGED <<pte, region, base, ref, data, handle, cr3, live, calls>>

\* One CPU serves the shootdown: the sender first, then those that run the
\* space; the others are not asked.
DoFlush ==
    LET x == Head(todo)
        asked == {c \in x.targets : cr3[c] = x.s}
    IN  /\ Todo("flush")
        /\ IF asked = {} THEN Advance /\ UNCHANGED tlb
           ELSE \E c \in asked :
                    /\ by \in asked => c = by
                    /\ tlb' = [tlb EXCEPT ![c] = [v \in Va |-> IF v \in x.vs THEN None ELSE @[v]]]
                    /\ todo' = <<[x EXCEPT !.targets = @ \ {c}]>> \o Tail(todo)
                    /\ UNCHANGED by
        /\ UNCHANGED <<pte, region, base, ref, data, handle, cr3, live, calls>>

DoFree ==
    /\ Todo("free")
    /\ ref' = Freed(Head(todo).f)
    /\ Advance
    /\ UNCHANGED <<pte, region, base, data, handle, cr3, tlb, live, calls>>

DoIncRef ==
    /\ Todo("incref")
    /\ ref' = [ref EXCEPT ![Head(todo).f] = @ + 1]
    /\ Advance
    /\ UNCHANGED <<pte, region, base, data, handle, cr3, tlb, live, calls>>

\* mmapAddRegion(), mmapRemoveRange(), mmapProtectRange(): a region that goes
\* releases its object, and the last release frees the object's frame.
DoRegion ==
    LET x == Head(todo)
        old == region[x.s][x.v]
        gone == /\ old # None
                /\ old.obj # None
                /\ x.r = None
                /\ old.obj \notin handle
                /\ Regions(old.obj) = {<<x.s, x.v>>}
    IN  /\ Todo("region")
        /\ region' = [region EXCEPT ![x.s][x.v] = x.r]
        /\ ref' = IF gone THEN Freed(old.obj) ELSE ref
        /\ Advance
        /\ UNCHANGED <<pte, base, data, handle, cr3, tlb, live, calls>>

\* mmapCloneRegionsFrom(), which retains the objects, and addProcess().
DoBirth ==
    /\ Todo("birth")
    /\ region' = [region EXCEPT ![Head(todo).child] = region[Head(todo).s]]
    /\ base' = [base EXCEPT ![Head(todo).child] = 1]
    /\ live' = live \cup {Head(todo).child}
    /\ Advance
    /\ UNCHANGED <<pte, ref, data, handle, cr3, tlb, calls>>

\* The tables are freed, then every region releases its object.
DoDeath ==
    LET s == Head(todo).s
        mine == {region[s][v].obj : v \in {u \in Va : region[s][u] # None}} \ {None}
        last == {o \in mine : o \notin handle /\ \A sv \in Regions(o) : sv[1] = s}
    IN  /\ Todo("death")
        /\ pte' = [pte EXCEPT ![s] = [v \in Va |-> None]]
        /\ region' = [region EXCEPT ![s] = NoRegions]
        /\ ref' = [f \in Frame |-> IF f \in last THEN Freed(f)[f] ELSE ref[f]]
        /\ live' = live \ {s}
        /\ Advance
        /\ UNCHANGED <<base, data, handle, cr3, tlb, calls>>

-------------------------------------------------------------------------------
(* Everybody else.                                                           *)

\* A context switch, under the lock: loading CR3 drops what was cached.
Switch(c) ==
    \E s \in live \cup {None} :
        /\ Idle
        /\ cr3[c] # s
        /\ cr3' = [cr3 EXCEPT ![c] = s]
        /\ tlb' = [tlb EXCEPT ![c] = [v \in Va |-> None]]
        /\ UNCHANGED <<pte, region, base, ref, data, handle, live, todo, by, calls>>

\* The page walker may load any present leaf at any time.
Fill(c) ==
    \E v \in Va :
        /\ cr3[c] # None
        /\ pte[cr3[c]][v] # None
        /\ tlb[c][v] = None
        /\ tlb' = [tlb EXCEPT ![c][v] = pte[cr3[c]][v]]
        /\ UNCHANGED <<pte, region, base, ref, data, handle, cr3, live, todo, by, calls>>

\* A store of the program, in user mode, through the TLB.
Write(c) ==
    \E v \in Va, x \in Val :
        /\ Idle \/ c # by
        /\ tlb[c][v] # None
        /\ tlb[c][v].w
        /\ data' = [data EXCEPT ![tlb[c][v].frame] = x]
        /\ UNCHANGED <<pte, region, base, ref, handle, cr3, tlb, live, todo, by, calls>>

\* An object is made by, and its handle belongs to, its manager.
ObjectCreate ==
    \E f \in FreeFrames :
        /\ Idle
        /\ "mmap_object" \in calls
        /\ handle = {}
        /\ ref' = [ref EXCEPT ![f] = 1]
        /\ handle' = handle \cup {f}
        /\ UNCHANGED <<pte, region, base, data, cr3, tlb, live, todo, by, calls>>

ObjectClose ==
    \E o \in handle :
        /\ Idle
        /\ handle' = handle \ {o}
        /\ ref' = IF Regions(o) = {} THEN Freed(o) ELSE ref
        /\ UNCHANGED <<pte, region, base, data, cr3, tlb, live, todo, by, calls>>

Init ==
    /\ pte = [s \in Space |-> [v \in Va |-> None]]
    /\ region = [s \in Space |-> NoRegions]
    /\ base = [s \in Space |-> 1]
    /\ ref = [f \in Frame |-> 0]
    /\ data = [f \in Frame |-> Zero]
    /\ handle = {}
    /\ cr3 = [c \in Cpu |-> None]
    /\ tlb = [c \in Cpu |-> [v \in Va |-> None]]
    /\ live \in {{s} : s \in Space}
    /\ todo = <<>>
    /\ by \in Cpu
    /\ calls \in Programs

Next ==
    \/ \E c \in Cpu :
        \/ CowFault(c) \/ DemandFault(c) \/ SpuriousFault(c)
        \/ Mmap(c) \/ MmapAny(c) \/ MmapObject(c) \/ Munmap(c)
        \/ Mprotect(c, "mprotect_ro", FALSE) \/ Mprotect(c, "mprotect_rw", TRUE)
        \/ Fork(c) \/ ForkFails(c) \/ Exit(c)
        \/ Switch(c) \/ Fill(c) \/ Write(c)
    \/ DoCopy \/ DoClear \/ DoStore \/ DoLocal \/ DoFlush \/ DoFree
    \/ DoIncRef \/ DoRegion \/ DoBirth \/ DoDeath
    \/ ObjectCreate \/ ObjectClose

Spec == Init /\ [][Next]_vars

-------------------------------------------------------------------------------
(* Properties.                                                               *)

Mapped(s, v) == pte[s][v] # None
Private(s, v) == Mapped(s, v) /\ ~pte[s][v].shr

\* Types of all variables.
TypeOK ==
    /\ pte \in [Space -> [Va -> Entry \cup {None}]]
    /\ region \in [Space -> [Va -> Region \cup {None}]]
    /\ base \in [Space -> 1..(NVa + 1)]
    /\ ref \in [Frame -> 0..(Cardinality(Space) * NVa + 1)]
    /\ data \in [Frame -> Val]
    /\ handle \subseteq Frame
    /\ cr3 \in [Cpu -> live \cup {None}]
    /\ tlb \in [Cpu -> [Va -> Entry \cup {None}]]
    /\ live \subseteq Space
    /\ by \in Cpu

\* No CPU can reach a frame the allocator may hand out: the shootdown of an
\* unmapped or replaced page is over before FreeFrame() (unmapUserPages(),
\* HandleCowFault(), mmapRemoveRange()).
NoTlbEntryOfFreeFrame ==
    \A c \in Cpu, v \in Va : tlb[c][v] # None => ref[tlb[c][v].frame] > 0

\* Between kernel operations no TLB allows what the page table does not: the
\* same frame, and writes only where the leaf has ReadWrite (fork's
\* ParentFlush, mprotect, munmap).
TlbNoWiderThanTable ==
    Idle => \A c \in Cpu, v \in Va : tlb[c][v] # None =>
                /\ Mapped(cr3[c], v)
                /\ tlb[c][v].frame = pte[cr3[c]][v].frame
                /\ tlb[c][v].w => pte[cr3[c]][v].w

\* Between operations the count of a frame is the number of private leaves
\* that map it, and one more if it belongs to a living object: nothing leaks
\* and nothing is freed twice (fork and its failure, COW, munmap, exit).
RefsAccounted ==
    Idle => \A f \in Frame :
        ref[f] = Cardinality({sv \in Space \X Va :
                                 Private(sv[1], sv[2]) /\ pte[sv[1]][sv[2]].frame = f})
                 + (IF ObjectAlive(f) THEN 1 ELSE 0)


\* A private page that may be written in place is mapped nowhere else ("raising
\* write permission never makes a shared frame writable in place").
WritableIsUnshared ==
    Idle => \A s \in Space, v \in Va : Private(s, v) /\ pte[s][v].w =>
                \A t \in Space, u \in Va : Mapped(t, u) /\ pte[t][u].frame = pte[s][v].frame
                                         => t = s /\ u = v

\* A program that leaves the choice of addresses to the kernel gets one that
\* nothing is mapped at ("Allocates zeroed physical frames and maps them",
\* docs/syscalls.md on Mmap; reserveMmapRegion()).
NextAddressFree ==
    Idle /\ "mmap_any" \in calls =>
        \A s \in live : base[s] \in Va => ~Mapped(s, base[s])

\* Each space has private memory of its own: whatever the interleaving of
\* faults, forks, unmaps and stores through stale TLB entries, a program sees
\* only its own stores, its parent's at the fork, and zeroes.
Memory == INSTANCE AbstractMemory WITH
    mem <- [s \in Space |-> [v \in Va |->
               IF s \in live /\ Private(s, v) THEN data[pte[s][v].frame] ELSE None]]

ImplementsPrivateMemory == Memory!Spec

\* What a page contains changes only when a CPU that runs its space stores to
\* it: no copy, fault, fork or unmap of anybody shows in between.
OnlyStoresChange ==
    [][\A s \in live, v \in Va :
          Private(s, v) /\ Private(s, v)' /\ data[pte[s][v].frame] # data'[pte'[s][v].frame]
              => \E c \in Cpu : cr3[c] = s /\ Write(c)]_vars

===============================================================================
