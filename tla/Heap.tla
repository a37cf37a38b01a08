-------------------------------- MODULE Heap --------------------------------
(***************************************************************************)
(* The kernel heap (memory/heap.cpp): a buddy allocator over arenas, the   *)
(* first installed at boot and the others pulled from the physical memory  *)
(* manager when an allocation finds no block.  Addresses and sizes count   *)
(* words of eight bytes, so a header is 4 words, the pointer back to it 1, *)
(* a footer 2, and MIN_ORDER blocks have 8, as in the code; pages, arenas  *)
(* and MAX_ORDER are smaller.  Headers stay in memory when their block is  *)
(* merged away, as they do in the code, and kfree reads whatever header    *)
(* lies at the address of the buddy.  Each call holds heap_lock over all   *)
(* it changes, so each is one step.                                        *)
(***************************************************************************)
EXTENDS Integers, Sequences, FiniteSets, SequencesExt, FiniteSetsExt

CONSTANTS
    MIN_ORDER, MAX_ORDER,   \* in words
    MAX_ARENAS,
    PageWords, FirstPages, GrowPages,   \* PAGE_SIZE, the first arena, GROW_CHUNK
    HeapFrames,             \* the frames of the machine, frame 0 and the kernel's not counted
    HeapHigh,               \* KERNEL_HIGH_ALLOC_MIN
    HeapUses,               \* [sizes, aligns, calls, live]
    Pinned

VARIABLE s

F == INSTANCE Pmm WITH MemoryMaps <- {}, ReservedLate <- 0, HighFrame <- HeapHigh, LowFrame <- 0, Runs <- {}

On == s.part = "heap"

HeaderWords == 4
BackWords == 1
FooterWords == 2
Orders == MIN_ORDER .. MAX_ORDER
NoHeader == [order |-> 0, is_free |-> FALSE, user_size |-> 0]

find_arena(h, addr) ==
    LET mine == {i \in DOMAIN h.arenas : addr \in h.arenas[i].base .. h.arenas[i].base + h.arenas[i].size - 1}
    IN IF mine = {} THEN 0 ELSE Min(mine)

\* A free block: its header, and first place in the list of its order.
PushFree(h, addr, order) ==
    [h EXCEPT !.hdr = [a \in DOMAIN @ \cup {addr} |->
                         IF a = addr THEN [order |-> order, is_free |-> TRUE, user_size |-> 0] ELSE @[a]],
              !.lists[order] = <<addr>> \o @,
              !.free_block_count = @ + 1]

Unlink(h, addr, order) ==
    [h EXCEPT !.lists[order] = SelectSeq(@, LAMBDA a : a # addr), !.free_block_count = @ - 1]

\* The largest block that fits what remains and is aligned in its arena.
LargestFit(offset, remaining) ==
    LET fits == {o \in Orders : 2^o <= remaining /\ offset % 2^o = 0}
    IN IF fits = {} THEN 0 ELSE Max(fits)

carve_region(h, base, size) ==
    LET Carve[offset \in 0 .. size] ==
            LET order == LargestFit(offset, size - offset)
            IN IF order = 0 THEN <<>> ELSE <<[at |-> base + offset, order |-> order]>> \o Carve[offset + 2^order]
    IN FoldLeft(LAMBDA g, b : PushFree(g, b.at, b.order), h, Carve[0])

register_arena(h, base, size) ==
    carve_region([h EXCEPT !.arenas = Append(@, [base |-> base, size |-> size])], base, size)

\* An arena of the usual size or of what is needed; half as much as long as
\* that is still enough.
grow_locked(h, need) ==
    LET Pages[n \in 0 .. Max({GrowPages, 2^MAX_ORDER \div PageWords})] ==
            LET high == F!AllocFramesAbove(h.p, n, HeapHigh)
                any == F!AllocFrames(h.p, n)
            IN IF n = 0 \/ n * PageWords < need THEN [p |-> h.p, start |-> 0, n |-> 0]
               ELSE IF high.start # 0 THEN [p |-> high.p, start |-> high.start, n |-> n]
               ELSE IF any.start # 0 THEN [p |-> any.p, start |-> any.start, n |-> n]
               ELSE IF n * PageWords = need THEN [p |-> h.p, start |-> 0, n |-> 0]
               ELSE Pages[n \div 2]
        got == Pages[Max({GrowPages, need \div PageWords})]
    IN IF got.start = 0 THEN h
       ELSE IF Len(h.arenas) >= MAX_ARENAS THEN [h EXCEPT !.p = got.p]
       ELSE register_arena([h EXCEPT !.p = got.p], got.start * PageWords, got.n * PageWords)

\* The upper halves of a block cut down to the order asked for, largest first.
Halves(h, addr, from, to) ==
    FoldLeft(LAMBDA g, o : PushFree(g, addr + 2^o, o), h, Reverse([i \in 1 .. from - to |-> to + i - 1]))

AlignUp(a, align) == ((a + align - 1) \div align) * align

\* Takes the newest block of the smallest order that has one.
alloc_locked(h, order, size, align) ==
    LET found == Min({o \in order .. MAX_ORDER : h.lists[o] # <<>>})
        addr == Head(h.lists[found])
        cut == Halves(Unlink(h, addr, found), addr, found, order)
        total == h.total_allocated + size
    IN [h |-> [cut EXCEPT !.hdr[addr] = [order |-> order, is_free |-> FALSE, user_size |-> size],
                          !.total_allocated = total,
                          !.peak_usage = Max({@, total})],
        ptr |-> AlignUp(addr + HeaderWords + BackWords, align),
        block |-> addr]

Available(h, order) == \E o \in order .. MAX_ORDER : h.lists[o] # <<>>

\* The smallest order with room for header, back pointer, footer, the size
\* and the worst alignment (in bytes one less than in words: the same order).
OrderFor(size, align) ==
    LET o == {k \in Orders : 2^k >= HeaderWords + BackWords + size + FooterWords + align}
    IN IF o = {} THEN MAX_ORDER + 1 ELSE Min(o)

NoBlock(h) == [h |-> h, ptr |-> 0, block |-> 0]

kmalloc_aligned(h, size, align) ==
    LET order == OrderFor(size, align)
        grown == grow_locked(h, 2^order)
    IN IF order > MAX_ORDER THEN NoBlock(h)
       ELSE IF Available(h, order) THEN alloc_locked(h, order, size, align)
       ELSE IF Available(grown, order) THEN alloc_locked(grown, order, size, align)
       ELSE NoBlock(grown)

\* Buddies lie at offsets that differ in the bit of their order.
BuddyOffset(offset, order) ==
    IF (offset \div 2^order) % 2 = 0 THEN offset + 2^order ELSE offset - 2^order

\* Merges with the buddy while the header found there is that of a free
\* block of the same order.
Coalesce(h, arena, addr, from) ==
    LET Step(st, order) ==
            LET buddy == arena.base + BuddyOffset(st.at - arena.base, order)
                hdr == IF buddy \in DOMAIN st.h.hdr THEN st.h.hdr[buddy] ELSE NoHeader
            IN IF \/ st.done \/ buddy + 2^order > arena.base + arena.size
                  \/ ~ hdr.is_free \/ hdr.order # order
               THEN [st EXCEPT !.done = TRUE]
               ELSE [h |-> Unlink(st.h, buddy, order), at |-> Min({st.at, buddy}),
                     order |-> order + 1, done |-> FALSE]
        end == FoldLeft(Step, [h |-> h, at |-> addr, order |-> from, done |-> FALSE],
                        [i \in 1 .. MAX_ORDER - from |-> from + i - 1])
    IN PushFree(end.h, end.at, end.order)

kfree(h, block) ==
    LET hdr == h.hdr[block]
        arena == h.arenas[find_arena(h, block)]
    IN Coalesce([h EXCEPT !.total_allocated = @ - hdr.user_size, !.hdr[block].user_size = 0],
                arena, block, hdr.order)

\* In place when the size shrinks or the block has room before its footer;
\* otherwise a new block, a copy and kfree of the old one.
krealloc(h, ptr, block, size) ==
    LET hdr == h.hdr[block]
        total == h.total_allocated - hdr.user_size + size
        capacity == block + 2^hdr.order - FooterWords - ptr
        new == kmalloc_aligned(h, size, 2)
    IN IF size <= capacity
       THEN [h |-> [h EXCEPT !.hdr[block].user_size = size, !.total_allocated = total,
                             !.peak_usage = IF size > hdr.user_size THEN Max({@, total}) ELSE @],
             ptr |-> ptr, block |-> block]
       ELSE IF new.ptr = 0 THEN new
       ELSE [new EXCEPT !.h = kfree(new.h, block)]

-----------------------------------------------------------------------------
(* Boot, and the kernel's calls.  live holds what the kernel has: pointer,  *)
(* block and size of each object; frames holds the frames others have.      *)

Empty(p) ==
    [p |-> p, arenas |-> <<>>, hdr |-> [a \in {} |-> NoHeader], lists |-> [o \in Orders |-> <<>>],
     free_block_count |-> 0, total_allocated |-> 0, peak_usage |-> 0]

heap_init(p) ==
    LET high == F!AllocFramesAbove(p, FirstPages, HeapHigh)
        got == IF high.start = 0 THEN F!AllocFrames(p, FirstPages) ELSE high
    IN register_arena(Empty(got.p), got.start * PageWords, FirstPages * PageWords)

Machine ==
    [total |-> HeapFrames + 1, used |-> {0}, count |-> 1, cursor |-> 1, meta |-> {},
     ref |-> [f \in 0 .. HeapFrames |-> IF f = 0 THEN 1 ELSE 0]]

Init ==
    \E use \in HeapUses :
        s = [part |-> "heap", use |-> use, h |-> heap_init(Machine), live |-> {}, frames |-> {}, failed |-> 0]

Calls(c) == On /\ c \in s.use.calls

Keep(r, size, without) ==
    s' = [s EXCEPT !.h = r.h,
                   !.live = IF r.ptr = 0 THEN @
                            ELSE (@ \ without) \cup {[ptr |-> r.ptr, block |-> r.block, size |-> size]},
                   !.failed = IF r.ptr = 0 THEN size ELSE 0]

allocate ==
    /\ On /\ Cardinality(s.live) < s.use.live
    /\ \E size \in s.use.sizes, align \in s.use.aligns : Keep(kmalloc_aligned(s.h, size, align), size, {})

free ==
    /\ On
    /\ \E o \in s.live : s' = [s EXCEPT !.h = kfree(@, o.block), !.live = @ \ {o}, !.failed = 0]

resize ==
    /\ Calls("realloc")
    /\ \E o \in s.live, size \in s.use.sizes : Keep(krealloc(s.h, o.ptr, o.block, size), size, {o})

\* The rest of the kernel takes frames and gives them back.
others ==
    /\ Calls("frames")
    /\ \/ LET a == F!AllocFrame(s.h.p)
          IN /\ a.start # 0
             /\ s' = [s EXCEPT !.h.p = a.p, !.frames = @ \cup {a.start}, !.failed = 0]
       \/ \E f \in s.frames :
            s' = [s EXCEPT !.h.p = F!FreeFrame(s.h.p, f), !.frames = @ \ {f}, !.failed = 0]

Next == On /\ (allocate \/ free \/ resize \/ others)

-----------------------------------------------------------------------------
Words(from, n) == from .. from + n - 1

\* The blocks of the heap: in use, and free.
UsedBlocks == {[at |-> o.block, order |-> s.h.hdr[o.block].order] : o \in s.live}
FreeBlocks == UNION {{[at |-> s.h.lists[o][i], order |-> o] : i \in DOMAIN s.h.lists[o]} : o \in Orders}
WordsOf(b) == Words(b.at, 2^b.order)

(* The blocks in use and the free ones never overlap and together fill the *)
(* arenas, whose frames no one else has; the lists hold exactly the blocks *)
(* whose headers say free; and every object lies in its own block, between *)
(* the header with the pointer back to it and the footer.                  *)
HeapTiled ==
    On =>
        LET all == UsedBlocks \cup FreeBlocks
            arenas == {s.h.arenas[i] : i \in DOMAIN s.h.arenas}
        IN /\ \A a \in all, b \in all : a # b => WordsOf(a) \cap WordsOf(b) = {}
           /\ UNION {WordsOf(b) : b \in all} = UNION {Words(a.base, a.size) : a \in arenas}
           /\ Cardinality(UsedBlocks) = Cardinality(s.live)
           /\ \A b \in FreeBlocks : s.h.hdr[b.at].is_free /\ s.h.hdr[b.at].order = b.order
           /\ \A o \in s.live :
                LET hdr == s.h.hdr[o.block]
                IN /\ ~ hdr.is_free /\ hdr.user_size = o.size
                   /\ o.ptr >= o.block + HeaderWords + BackWords
                   /\ o.ptr + o.size <= o.block + 2^hdr.order - FooterWords
           /\ \A a \in arenas :
                LET pages == Words(a.base \div PageWords, a.size \div PageWords)
                IN pages \subseteq s.h.p.used /\ pages \cap s.frames = {}

(* The statistics count what there is, no two free buddies stay apart, and *)
(* once everything is freed the arenas are whole again.                    *)
HeapRecovers ==
    On =>
        /\ s.h.free_block_count = Cardinality(FreeBlocks)
        /\ s.h.total_allocated = MapThenSumSet(LAMBDA o : o.size, s.live)
        /\ s.h.peak_usage >= s.h.total_allocated
        /\ \A b \in FreeBlocks : b.order < MAX_ORDER =>
            LET a == s.h.arenas[find_arena(s.h, b.at)]
                buddy == a.base + BuddyOffset(b.at - a.base, b.order)
            IN buddy + 2^b.order <= a.base + a.size => [at |-> buddy, order |-> b.order] \notin FreeBlocks
        /\ s.live = {} =>
            FreeBlocks = UNION {LET h == carve_region(Empty(s.h.p), s.h.arenas[i].base, s.h.arenas[i].size)
                                IN {[at |-> a, order |-> h.hdr[a].order] : a \in DOMAIN h.hdr} :
                                i \in DOMAIN s.h.arenas}

(* An allocation fails only when no free block is large enough and the     *)
(* frames left do not hold an arena for one, or the arenas are all in use. *)
HeapGrows ==
    On /\ s.failed # 0 =>
        \/ Len(s.h.arenas) >= MAX_ARENAS
        \/ \E align \in s.use.aligns \cup {2} :
             LET order == OrderFor(s.failed, align)
                 pages == 2^order \div PageWords
             IN \/ order > MAX_ORDER
                \/ /\ ~ Available(s.h, order)
                   /\ pages > 0 => F!FindRun(s.h.p, pages, 1, s.h.p.total) = 0
=============================================================================
