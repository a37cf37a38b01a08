------------------------------ MODULE Gen9Gtt ------------------------------
(***************************************************************************)
(* The memory the Intel Gen9 GPU sees: the global table and its buffers    *)
(* (graphics/intel_gen9_gtt.cpp), the page allocator of the table          *)
(* (graphics/intel_gen9_logic.hpp) and the address spaces of processes     *)
(* (graphics/intel_gen9_ppgtt.cpp).  Three levels of tables stand for the  *)
(* four of the hardware.  Frames come from the PMM, the lowest free one    *)
(* first (external), and run out.                                          *)
(***************************************************************************)
EXTENDS Integers, FiniteSets, FiniteSetsExt, Sequences

CONSTANTS
    GpuFrames,      \* frames of memory
    gttEntries,     \* entries of the global table
    Firmware,       \* those the firmware's plane uses, and the top ones
    TableEntries,   \* entries of a table of an address space
    BufferIds,
    VmIds,
    MapAt,          \* where an address space maps buffers
    GttUses         \* the programs: the calls they make, the sizes and alignments of buffers

VARIABLE s

On == s.part = "gen9gtt"
Does(call) == On /\ call \in s.use.calls

NoBuffer == [start |-> 0, size |-> 0, pages |-> <<>>]
kNone == -1

\* Physical memory.
AllocFrame(t) == IF t.free = {} THEN 0 ELSE Min(t.free)
Taken(t, f) == [t EXCEPT !.free = @ \ {f}]
FreeFrames(t, fs) ==
    [t EXCEPT !.free = @ \cup fs, !.twice = @ \/ fs \intersect t.free # {},
              !.table = [f \in DOMAIN @ |-> IF f \in fs THEN <<>> ELSE @[f]]]

----------------------------------------------------------------------------
\* The page allocator: the first aligned run of free entries.

alloc(used, pages, align) ==
    LET fits == {i \in 0..(gttEntries - pages) : i % align = 0 /\ \A j \in i..(i + pages - 1) : j \notin used}
    IN  IF pages = 0 \/ pages > gttEntries - Cardinality(used) \/ fits = {} THEN kNone ELSE Min(fits)
FreeEntries(used, start, pages) ==
    IF \A j \in start..(start + pages - 1) : j < gttEntries /\ j \in used
    THEN used \ (start..(start + pages - 1)) ELSE used

\* The scratch page, and what the firmware still uses out of the allocator.
initializeGtt ==
    LET f == AllocFrame(s)
    IN  /\ On /\ ~s.gttInitialized
        /\ s' = IF f = 0 THEN s
                ELSE [Taken(s, f) EXCEPT !.gttInitialized = TRUE, !.scratchPage = f, !.used = Firmware]

\* Entries back to the scratch page before the frames go; the whole run is
\* given back, also when only some of its frames were found.
destroyBuffer(t, b) ==
    LET buffer == t.buffers[b]
        run == buffer.start..(buffer.start + buffer.size - 1)
    IN  FreeFrames([t EXCEPT !.gtt = [i \in DOMAIN @ |-> IF i \in run THEN t.scratchPage ELSE @[i]],
                             !.used = FreeEntries(@, buffer.start, buffer.size),
                             !.buffers[b] = NoBuffer],
                   {buffer.pages[i] : i \in DOMAIN buffer.pages})

RECURSIVE FillBuffer(_, _, _)
FillBuffer(t, b, i) ==
    LET f == AllocFrame(t)
    IN  IF i = t.buffers[b].size THEN t
        ELSE IF f = 0 THEN destroyBuffer(t, b)
        ELSE FillBuffer([Taken(t, f) EXCEPT !.buffers[b].pages = Append(@, f), !.gtt[t.buffers[b].start + i] = f],
                        b, i + 1)

createBuffer(b, pages, align) ==
    LET start == alloc(s.used, pages, align)
    IN  /\ Does("buffer") /\ b \in s.use.buffers /\ s.gttInitialized /\ s.buffers[b] = NoBuffer
        /\ \A c \in BufferIds : c < b => s.buffers[c] # NoBuffer
        /\ start # kNone
        /\ s' = FillBuffer([s EXCEPT !.used = @ \cup start..(start + pages - 1),
                                     !.buffers[b] = [start |-> start, size |-> pages, pages |-> <<>>]], b, 0)

\* A buffer goes once no address space maps it (its owner unbinds it first).
Destroy(b) ==
    /\ Does("destroy") /\ s.buffers[b] # NoBuffer
    /\ \A v \in VmIds : \A m \in s.maps[v] : m.buffer # b
    /\ s' = destroyBuffer(s, b)

----------------------------------------------------------------------------
\* The address spaces: tables of entries, the ones of every level that leads
\* nowhere shared.

ppgttAllocTable(t, f, fill) == [Taken(t, f) EXCEPT !.table[f] = [i \in 0..(TableEntries - 1) |-> fill]]

\* A try after a failed one starts over: the table it had got is not freed.
ensurePpgttScratch(t) ==
    LET f == AllocFrame(t)
        t1 == ppgttAllocTable(t, f, t.scratchPage)
        g == AllocFrame(t1)
    IN  IF t.scratchPd # 0 THEN t
        ELSE IF f = 0 THEN [t EXCEPT !.lost = IF t.scratchPt = 0 THEN @ ELSE @ \cup {t.scratchPt}, !.scratchPt = 0]
        ELSE [(IF g = 0 THEN t1 ELSE ppgttAllocTable(t1, g, f)) EXCEPT
                  !.scratchPt = f, !.scratchPd = g,
                  !.lost = IF t.scratchPt = 0 THEN @ ELSE @ \cup {t.scratchPt}]

WithRoot(t, v, f) == IF f = 0 THEN t ELSE [ppgttAllocTable(t, f, t.scratchPd) EXCEPT !.root[v] = f]
Rooted(t, v) == IF t.scratchPd = 0 THEN t ELSE WithRoot(t, v, AllocFrame(t))
createPpgtt(v) ==
    /\ Does("vm") /\ v \in s.use.vms /\ s.gttInitialized /\ s.root[v] = 0 /\ \A w \in VmIds : w < v => s.root[w] # 0
    /\ s' = Rooted(ensurePpgttScratch(s), v)

\* What the entries of a table lead to one level below, by its level.
scratchFor(t, level) == IF level = 2 THEN t.scratchPd ELSE IF level = 1 THEN t.scratchPt ELSE t.scratchPage
ppgttIndex(va, level) == (va \div TableEntries^level) % TableEntries

RECURSIVE Below(_, _, _)
Below(t, f, level) ==
    {f} \cup (IF level = 0 THEN {}
              ELSE UNION {Below(t, t.table[f][i], level - 1) :
                          i \in {j \in 0..(TableEntries - 1) : t.table[f][j] # scratchFor(t, level)}})
\* Mutant: the shared tables are freed with the rest.
RECURSIVE EverythingBelow(_, _, _)
EverythingBelow(t, f, level) ==
    {f} \cup (IF level = 0 THEN {}
              ELSE UNION {EverythingBelow(t, t.table[f][i], level - 1) : i \in 0..(TableEntries - 1)})

ppgttFreeLevel(t, f, level) == FreeFrames(t, Below(t, f, level))

destroyPpgtt(v) ==
    /\ Does("vm") /\ s.root[v] # 0
    /\ s' = ppgttFreeLevel([s EXCEPT !.root[v] = 0, !.maps[v] = {}], s.root[v], 2)

\* The walk down for one page, with tables of its own where it has none; the
\* pages before stay mapped when memory runs out.
RECURSIVE MapPage(_, _, _, _, _)
MapPage(t, f, level, va, page) ==
    LET i == ppgttIndex(va, level)
        g == AllocFrame(t)
    IN  IF level = 0 THEN [t EXCEPT !.table[f][i] = page]
        ELSE IF t.table[f][i] # scratchFor(t, level) THEN MapPage(t, t.table[f][i], level - 1, va, page)
        ELSE IF g = 0 THEN [t EXCEPT !.ok = FALSE]
        ELSE MapPage([ppgttAllocTable(t, g, scratchFor(t, level - 1)) EXCEPT !.table[f][i] = g], g, level - 1, va, page)

RECURSIVE MapPages(_, _, _, _, _)
MapPages(t, v, va, b, i) ==
    IF ~t.ok \/ i > Len(t.buffers[b].pages) THEN t
    ELSE MapPages(MapPage(t, t.root[v], 2, va + i - 1, t.buffers[b].pages[i]), v, va, b, i + 1)

\* Whether the walk meets the scratch chain.
RECURSIVE PageTable(_, _, _, _)
PageTable(t, f, level, va) ==
    LET child == t.table[f][ppgttIndex(va, level)]
    IN  IF level = 0 THEN f ELSE IF child = scratchFor(t, level) THEN 0 ELSE PageTable(t, child, level - 1, va)

ClearPage(t, f, va) == IF f = 0 THEN t ELSE [t EXCEPT !.table[f][ppgttIndex(va, 0)] = t.scratchPage]
RECURSIVE ppgttUnmap(_, _, _, _)
ppgttUnmap(t, v, va, pages) ==
    IF pages = 0 THEN t
    ELSE ppgttUnmap(ClearPage(t, PageTable(t, t.root[v], 2, va), va), v, va + 1, pages - 1)

\* A failed map is undone by its caller (bindObject in Gen9Drm).
MapResult(t, v, va, b) ==
    IF t.ok THEN [t EXCEPT !.maps[v] = @ \cup {[va |-> va, buffer |-> b]}]
    ELSE [ppgttUnmap(t, v, va, t.buffers[b].size) EXCEPT !.ok = TRUE]
ppgttMap(v, va, b) ==
    /\ Does("map") /\ s.root[v] # 0 /\ s.buffers[b] # NoBuffer
    /\ va + s.buffers[b].size <= TableEntries^3
    /\ \A m \in s.maps[v] : m.va + s.buffers[m.buffer].size <= va \/ va + s.buffers[b].size <= m.va
    /\ s' = MapResult(MapPages(s, v, va, b, 1), v, va, b)
Unmap(v, m) ==
    /\ Does("map") /\ m \in s.maps[v]
    /\ s' = [ppgttUnmap(s, v, m.va, s.buffers[m.buffer].size) EXCEPT !.maps[v] = @ \ {m}]

----------------------------------------------------------------------------
Init ==
    \E use \in GttUses :
        s = [part |-> "gen9gtt", use |-> use, free |-> 1..GpuFrames, twice |-> FALSE, lost |-> {}, ok |-> TRUE,
             gttInitialized |-> FALSE, scratchPage |-> 0, scratchPt |-> 0, scratchPd |-> 0,
             used |-> {}, gtt |-> [i \in 0..(gttEntries - 1) |-> 0],
             buffers |-> [b \in BufferIds |-> NoBuffer], table |-> [f \in 1..GpuFrames |-> <<>>],
             root |-> [v \in VmIds |-> 0], maps |-> [v \in VmIds |-> {}]]

Vas == 0..(TableEntries^3 - 1)
Next ==
    \/ initializeGtt
    \/ \E b \in BufferIds : \/ \E shape \in (IF On THEN s.use.shapes ELSE {}) : createBuffer(b, shape[1], shape[2])
                            \/ Destroy(b)
    \/ \E v \in VmIds : \/ createPpgtt(v) \/ destroyPpgtt(v)
                        \/ \E va \in MapAt, b \in BufferIds : ppgttMap(v, va, b)
                        \/ \E m \in (IF On THEN s.maps[v] ELSE {}) : Unmap(v, m)

----------------------------------------------------------------------------
BufferFrames == UNION {{s.buffers[b].pages[i] : i \in DOMAIN s.buffers[b].pages} : b \in BufferIds}
Tables(v) == IF s.root[v] = 0 THEN {} ELSE Below(s, s.root[v], 2)
Scratch == {s.scratchPage, s.scratchPt, s.scratchPd} \ {0}

(* Every frame has one owner: a buffer, the tables of one address space or *)
(* the shared scratch chain; freed once, and again to be had, except for a *)
(* scratch table that a failed first try leaves behind.                    *)
GpuFramesOwned ==
    On => /\ ~s.twice
          /\ (1..GpuFrames) \ s.free = BufferFrames \cup Scratch \cup UNION {Tables(v) : v \in VmIds} \cup s.lost
          /\ \A v \in VmIds : Tables(v) \intersect (BufferFrames \cup Scratch) = {}
          /\ \A v, w \in VmIds : v # w => Tables(v) \intersect Tables(w) = {}
          /\ BufferFrames \intersect Scratch = {}

(* What the GPU reaches is there: an entry of the global table leads to    *)
(* the page of the buffer that has it, or to the scratch page; a walk of   *)
(* an address space ends at the mapped page, or at the scratch page where  *)
(* nothing is mapped, also after a map that failed half way.               *)
GpuSeesItsPages ==
    On => /\ \A b \in BufferIds : \A i \in DOMAIN s.buffers[b].pages :
                 s.gtt[s.buffers[b].start + i - 1] = s.buffers[b].pages[i]
          /\ \A i \in DOMAIN s.gtt : s.gtt[i] \notin s.free
          /\ \A v \in VmIds : s.root[v] # 0 =>
                 \A va \in Vas :
                    LET pt == PageTable(s, s.root[v], 2, va)
                        mapped == {m \in s.maps[v] : m.va <= va /\ va < m.va + s.buffers[m.buffer].size}
                        reached == IF pt = 0 THEN s.scratchPage ELSE s.table[pt][ppgttIndex(va, 0)]
                    IN  IF mapped = {} THEN reached = s.scratchPage
                        ELSE \A m \in mapped : reached = s.buffers[m.buffer].pages[va - m.va + 1]
          /\ \A b \in BufferIds : s.buffers[b] # NoBuffer =>
                 (s.buffers[b].start..(s.buffers[b].start + s.buffers[b].size - 1)) \intersect Firmware = {}
=============================================================================
