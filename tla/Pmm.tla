--------------------------------- MODULE Pmm ---------------------------------
(***************************************************************************)
(* The physical memory manager (cpu/memory/pmm.cpp): a bitmap of used      *)
(* frames, a saturating count of references to each and a next-fit cursor, *)
(* built from the memory map of the boot loader.  Frames are numbered; the *)
(* number 0 is also the answer "none".  Every call holds s_pmmLock from    *)
(* its first test to its return, so each is one step.  Its callers take    *)
(* frames, share them and give each share back once: held[f] is the number *)
(* of shares of frame f they have.                                         *)
(***************************************************************************)
EXTENDS Integers, FiniteSets, FiniteSetsExt

CONSTANTS
    MemoryMaps,   \* [regions, kernel, mmap, meta]: what the boot loader may hand over
    ReservedLate, \* the frames of the frame buffer and the initial RAM disk
    HighFrame,    \* KERNEL_HIGH_ALLOC_MIN
    LowFrame,     \* the limit of AllocFramesBelow
    Runs,         \* lengths of the runs callers ask for
    Pinned        \* the count that saturates: 0xFFFF

VARIABLE s

On == s.part = "frames"

\* [from, to) as a set of frames.
Span(range) == range.from .. range.to - 1

End(r) == r.base + r.pages

ranges_overlap(a, b) == a.from < b.to /\ b.from < a.to

range_contains(outer, inner) == outer.from <= inner.from /\ outer.to >= inner.to

\* Where the bitmap and the reference counts go in a region, or 0: after the
\* kernel, and after the memory map, where they are in the way.
Placement(map, r) ==
    LET region == [from |-> r.base, to |-> End(r)]
        At(f) == [from |-> f, to |-> f + map.meta]
        Fits(f) == f <= region.to /\ region.to - f >= map.meta
        Past(f, obstacle) ==
            IF ~ ranges_overlap(At(f), obstacle) THEN f
            ELSE IF range_contains(region, obstacle) THEN obstacle.to ELSE region.to + 1
        first == Max({r.base, 1})
        second == Past(first, map.kernel)
        third == Past(second, map.mmap)
    IN IF r.type = "Free" /\ Fits(first) /\ Fits(second) /\ Fits(third) THEN third ELSE 0

\* The first region that has room.
MetaFrame(map) ==
    LET good == {i \in DOMAIN map.regions : Placement(map, map.regions[i]) # 0}
    IN IF good = {} THEN 0 ELSE Placement(map, map.regions[Min(good)])

\* Mark everything used, free what the map calls free, and take the kernel,
\* the map, the metadata and frame 0 back.
Initialize(map) ==
    LET total == Max({End(map.regions[i]) : i \in DOMAIN map.regions})
        frames == 0 .. total - 1
        free == UNION {map.regions[i].base .. End(map.regions[i]) - 1 :
                       i \in {j \in DOMAIN map.regions : map.regions[j].type = "Free"}}
        meta == [from |-> MetaFrame(map), to |-> MetaFrame(map) + map.meta]
        taken == Span(map.kernel) \cup Span(map.mmap) \cup Span(meta) \cup {0}
        used == frames \ (free \ taken)
    IN [total |-> total,
        used |-> used,
        count |-> Cardinality(used),
        ref |-> [f \in frames |-> IF f \in used THEN 1 ELSE 0],
        cursor |-> 1,
        meta |-> Span(meta)]

FindFirstFree(p, start) ==
    LET free == {f \in start .. p.total - 1 : f \notin p.used}
    IN IF free = {} THEN 0 ELSE Min(free)

\* The first frame of the lowest run of n free frames in from .. to - 1.
FindRun(p, n, from, to) ==
    LET starts == {f \in from .. to - n : f .. f + n - 1 \cap p.used = {}}
    IN IF starts = {} THEN 0 ELSE Min(starts)

FindContiguous(p, n) == IF n = 1 THEN FindFirstFree(p, 1) ELSE FindRun(p, n, 1, p.total)

\* Marks the run used and gives it one reference each.
Take(p, start, n) ==
    LET run == start .. start + n - 1
    IN [p EXCEPT !.used = @ \cup run,
                 !.count = @ + n,
                 !.ref = [f \in DOMAIN @ |-> IF f \in run THEN 1 ELSE @[f]]]

\* Each allocation gives the frame, or 0, and the state after it.
Answer(p, start, n) == [p |-> IF start = 0 THEN p ELSE Take(p, start, n), start |-> start]

AllocFrame(p) ==
    LET here == FindFirstFree(p, p.cursor)
        f == IF here = 0 /\ p.cursor > 1 THEN FindFirstFree(p, 1) ELSE here
        a == Answer(p, f, 1)
    IN IF f = 0 THEN a
       ELSE [a EXCEPT !.p.cursor = IF f + 1 >= p.total THEN 1 ELSE f + 1]

AllocFrames(p, n) == Answer(p, FindContiguous(p, n), n)

AllocFramesAbove(p, n, min) == Answer(p, FindRun(p, n, Max({min, 1}), p.total), n)

AllocFramesBelow(p, n, max) == Answer(p, FindRun(p, n, 1, Min({max, p.total})), n)

\* One reference less; the last one frees the frame.  A saturated count stays.
Release(p, f) ==
    IF f \notin p.used \/ p.ref[f] = Pinned THEN p
    ELSE IF p.ref[f] > 1 THEN [p EXCEPT !.ref[f] = @ - 1]
    ELSE [p EXCEPT !.ref[f] = 0, !.used = @ \ {f}, !.count = @ - 1]

FreeFrame(p, f) == IF f = 0 \/ f >= p.total THEN p ELSE Release(p, f)

FreeFrames(p, start, n) ==
    LET run == (start .. start + n - 1) \cap (0 .. p.total - 1)
        gone == {f \in run \cap p.used : p.ref[f] <= 1}
    IN [p EXCEPT !.ref = [f \in DOMAIN @ |-> IF f \in run THEN Release(p, f).ref[f] ELSE @[f]],
                 !.used = @ \ gone,
                 !.count = @ - Cardinality(gone)]

IncRef(p, f) ==
    IF f = 0 \/ f >= p.total \/ f \notin p.used \/ p.ref[f] = Pinned THEN p
    ELSE [p EXCEPT !.ref[f] = @ + 1]

\* Takes what is still free of the range out of the allocator's reach.
ReserveRange(p, range) ==
    LET new == (Span(range) \cap (0 .. p.total - 1)) \ p.used
    IN [p EXCEPT !.used = @ \cup new, !.count = @ + Cardinality(new)]

-----------------------------------------------------------------------------
(* The callers.  At boot the frame buffer and the RAM disk are reserved     *)
(* before the first allocation.                                             *)

Init ==
    \E map \in MemoryMaps :
        s = [part |-> "frames", map |-> map, booted |-> FALSE, p |-> [total |-> 0],
             held |-> [f \in {} |-> 0], failed |-> <<>>]

boot ==
    /\ ~ s.booted /\ MetaFrame(s.map) # 0
    /\ LET p == Initialize(s.map)
       IN s' = [s EXCEPT !.booted = TRUE,
                         !.p = ReserveRange(p, ReservedLate),
                         !.held = [f \in 0 .. p.total - 1 |-> 0]]

\* The caller keeps the run it got, or learns that there was none.
Got(a, n, from, to) ==
    s' = [s EXCEPT !.p = a.p,
                   !.held = [f \in DOMAIN @ |->
                       IF a.start # 0 /\ f \in a.start .. a.start + n - 1 THEN @[f] + 1 ELSE @[f]],
                   !.failed = IF a.start = 0 THEN <<n, from, to>> ELSE <<>>]

allocate ==
    /\ s.booted
    /\ \/ Got(AllocFrame(s.p), 1, 1, s.p.total)
       \/ \E n \in Runs : \/ Got(AllocFrames(s.p, n), n, 1, s.p.total)
                          \/ Got(AllocFramesAbove(s.p, n, HighFrame), n, HighFrame, s.p.total)
                          \/ Got(AllocFramesBelow(s.p, n, LowFrame), n, 1, Min({LowFrame, s.p.total}))

free ==
    /\ s.booted
    /\ \/ \E f \in DOMAIN s.held :
            /\ s.held[f] > 0
            /\ s' = [s EXCEPT !.p = FreeFrame(s.p, f), !.held[f] = @ - 1, !.failed = <<>>]
       \/ \E n \in Runs, f \in DOMAIN s.held :
            LET run == f .. f + n - 1
            IN /\ \A g \in run : g \in DOMAIN s.held /\ s.held[g] > 0
               /\ s' = [s EXCEPT !.p = FreeFrames(s.p, f, n),
                                 !.held = [g \in DOMAIN @ |-> IF g \in run THEN @[g] - 1 ELSE @[g]],
                                 !.failed = <<>>]

\* Fork and shared mappings add a share of a frame they have one of.
share ==
    /\ s.booted
    /\ \E f \in DOMAIN s.held :
        /\ s.held[f] \in 1 .. Pinned
        /\ s' = [s EXCEPT !.p = IncRef(s.p, f), !.held[f] = @ + 1, !.failed = <<>>]

Next == On /\ (boot \/ allocate \/ free \/ share)

-----------------------------------------------------------------------------
(* Frames that are never handed out.                                       *)
Kept == Span(s.map.kernel) \cup Span(s.map.mmap) \cup Span(ReservedLate) \cup s.p.meta \cup {0}

(* No frame anyone has is free or reserved, the bitmap, the counts and the *)
(* number of used frames agree, a count is what its holders have unless it *)
(* has saturated, and the allocator's own tables lie on frames of their    *)
(* own that the map called free.                                           *)
FramesKept ==
    On /\ s.booted =>
        /\ \A f \in DOMAIN s.held : s.held[f] > 0 => f \in s.p.used \ Kept
        /\ \A f \in DOMAIN s.held :
            s.p.ref[f] # Pinned /\ f \in s.p.used \ Kept /\ s.held[f] > 0 => s.p.ref[f] = s.held[f]
        /\ s.p.count = Cardinality(s.p.used)
        /\ Kept \cap (0 .. s.p.total - 1) \subseteq s.p.used
        /\ s.p.meta \cap (Span(s.map.kernel) \cup Span(s.map.mmap) \cup {0}) = {}
        /\ \A f \in s.p.meta : \E i \in DOMAIN s.map.regions :
            s.map.regions[i].type = "Free" /\ f \in s.map.regions[i].base .. End(s.map.regions[i]) - 1

(* A call for frames fails only when the memory it may use has no such run *)
(* left, wherever the next-fit cursor stands.                              *)
NoFalseExhaustion ==
    On /\ s.booted /\ s.failed # <<>> =>
        \A f \in s.failed[2] .. s.failed[3] - s.failed[1] : f .. f + s.failed[1] - 1 \cap s.p.used # {}
=============================================================================
