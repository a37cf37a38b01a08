----------------------------- MODULE MCDevices -----------------------------
(***************************************************************************)
(* Drivers and the devices they talk to, and the frames and the heap they  *)
(* take memory from, each explored on its own: the field part of s says    *)
(* which one a behaviour exercises, and every property says nothing about  *)
(* the others.                                                             *)
(***************************************************************************)
EXTENDS Integers

VARIABLE s

\* xHCI: rings that wrap within one enumeration, one fault, one report.
Trbs == 12
Retries == 2
UsbDevices == {<<"both">>, <<"mouse">>, <<"report keyboard">>, <<"hub">>}
UsbFaults == [d \in UsbDevices |-> IF d \in {<<"both">>, <<"mouse">>} THEN 0 ELSE 1]
UsbReports == 1
UsbPlugs == [d \in UsbDevices |-> IF d = <<"mouse">> THEN 2 ELSE 1]
X == INSTANCE Xhci

\* Venus: two layers, two calls, two sessions each.
Layers == 2
F == INSTANCE VenusFrames
Program == F!Program
FirstOfFrame == F!FirstOfFrame
Attempts == 2
RingCap == 40
MaxCalls == 2
V == INSTANCE Venus

\* i915: two objects and two files of a render node; a queue of two requests.
ObjectPages == <<1, 2>>
DrmContexts == 1 .. 3
DrmVms == 1 .. 3
DrmSyncs == 1 .. 2
DrmFds == 1 .. 2
MaxRequests == 3
kMaxQueued == 2
VaLimit == 3
MaxPoint == 2
CloseDuringCalls == FALSE
Entry(h, va, w, a) == [handle |-> h, va |-> va, write |-> w, async |-> a]
Exec(ctx, ring, list) ==
    [file |-> 1, ctx |-> ctx, ring |-> ring, list |-> list, fences |-> {}, fenceIn |-> 0,
     fenceOut |-> FALSE, fault |-> "none"]
Fence(h, point, wait) == [handle |-> h, point |-> point, wait |-> wait, signal |-> ~wait]
Writes1 == Exec(0, 0, <<Entry(1, 0, TRUE, FALSE)>>)
Other1 == [Writes1 EXCEPT !.ring = 1]
Reads2 == Exec(0, 1, <<Entry(2, 0, FALSE, FALSE)>>)
Both == Exec(0, 0, <<Entry(1, 0, FALSE, TRUE), Entry(2, 1, TRUE, FALSE)>>)
Signals(x, h, point) == [x EXCEPT !.fences = {Fence(h, point, FALSE)}]
DrmUse(files, objects, syncs, max, calls, execs) ==
    [files |-> files, objects |-> objects, syncs |-> syncs, max |-> max, calls |-> calls,
     execs |-> execs]
DrmUses ==
    {DrmUse({1}, {}, {}, 2, {"create", "close", "exec", "closefile"}, {Writes1, Both}),
     DrmUse({1}, {1, 2}, {}, 3, {"exec", "close"},
            {Writes1, Reads2, [Both EXCEPT !.fault = "map"], [Writes1 EXCEPT !.fault = "engine"]}),
     DrmUse({1}, {1}, {}, 1, {"exec", "context", "vm", "closefile"},
            {[Writes1 EXCEPT !.ctx = 1], Other1}),
     DrmUse({1}, {1}, {}, 2, {"exec", "context", "param", "hang"},
            {[Writes1 EXCEPT !.ctx = 1], Other1}),
     DrmUse({1}, {1}, {1}, 2, {"exec", "signal", "syncwait", "hang"},
            {Signals(Writes1, 1, 1), Signals(Other1, 1, 2)}),
     DrmUse({1}, {1}, {}, 2, {"exec", "syncobj", "transfer"},
            {Signals(Writes1, 1, 1), [Other1 EXCEPT !.fences = {Fence(2, 0, TRUE)}]}),
     DrmUse({1}, {1}, {1}, 1, {"exec", "syncfd", "closefd"},
            {Signals(Writes1, 1, 1), [Other1 EXCEPT !.fenceIn = 1]}),
     DrmUse({1, 2}, {1}, {}, 2, {"exec", "prime", "closefd", "close", "closefile"},
            {Writes1, [Other1 EXCEPT !.file = 2]}),
     DrmUse({1}, {1}, {}, 2, {"exec", "prime", "bufsync", "merge", "closefd"},
            {[Writes1 EXCEPT !.fenceOut = TRUE], Other1}),
     DrmUse({1}, {}, {}, 2, {"scanout", "prime", "exec", "caching", "domain", "sync", "mmap",
                             "wait", "claim"}, {Writes1})}
G == INSTANCE Gen9Drm

\* The engines: rings of five slots, a sequence number that wraps at four.
RingSlots == 5
RequestSlots == 2
SeqnoSpace == 4
CSB_ENTRIES == 6
kMaxForeignInterrupts == 2
EngineUse(requests, engine, ctx, may) ==
    [requests |-> requests, engine |-> engine, ctx |-> ctx, may |-> may]
EngineUses ==
    {EngineUse(1 .. 3, <<0, 0, 1>>, <<1, 1, 2>>, {}),
     EngineUse(1 .. 3, <<0, 0, 0>>, <<1, 1, 1>>, {"hang"}),
     EngineUse(1 .. 3, <<0, 0, 1>>, <<1, 2, 2>>, {"hang", "foreign"}),
     EngineUse(1 .. 2, <<0, 0, 0>>, <<1, 2, 1>>, {"test", "slow"}),
     EngineUse(1 .. 2, <<0, 1, 0>>, <<1, 2, 1>>, {"asleep", "no reset", "no msi", "slow"})}
E == INSTANCE Gen9Engine

\* Translation tables of the GPU: nine frames, tables of two entries.
GpuFrames == 9
gttEntries == 6
Firmware == {0, 5}
TableEntries == 2
BufferIds == 1 .. 3
VmIds == 1 .. 2
MapAt == {1, 6}
GttUse(buffers, shapes, vms, calls) ==
    [buffers |-> buffers, shapes |-> shapes, vms |-> vms, calls |-> calls]
GttUses ==
    {GttUse({1, 2, 3}, {<<1, 1>>, <<2, 2>>}, {}, {"buffer", "destroy"}),
     GttUse({1, 2}, {<<2, 1>>}, {1}, {"buffer", "destroy", "vm", "map"}),
     GttUse({1}, {<<1, 1>>}, {1, 2}, {"buffer", "vm", "map"})}
T == INSTANCE Gen9Gtt

\* virtio GPU: three commands in flight, two waiters, small tables.
QueueDescs == 6
MaxFenceWaiters == 2
MaxTrackedContexts == 2
MaxTrackedResources == 3
MaxContextResources == 1
MaxResourceContexts == 2
LastContext == 3
LastResource == 4
hostVisibleShmLength == 2
VgpuUse(calls, may) == [calls |-> calls, may |-> may]
VgpuUses ==
    {VgpuUse({"flush", "uuid"}, {"timeout"}),
     VgpuUse({"flush"}, {"timeout", "host_error", "bad_device", "no_memory"}),
     VgpuUse({"context", "3d", "attach", "destroy"}, {}),
     VgpuUse({"context", "3d", "attach", "destroy_both"}, {}),
     VgpuUse({"guest_blob", "backing", "3d", "uuid", "destroy"}, {"host_error"}),
     VgpuUse({"context", "blob", "map", "destroy"}, {}),
     VgpuUse({"probe"}, {"host_error"}),
     VgpuUse({"context", "submit"}, {"host_error"})}
U == INSTANCE VirtioGpu

\* Frames: seven of them in two regions, with the kernel, the memory map and
\* the allocator's own tables among them.
Region(base, pages, type) == [base |-> base, pages |-> pages, type |-> type]
FrameRange(from, n) == [from |-> from, to |-> from + n]
MemoryMaps ==
    {m \in {[regions |-> <<Region(0, a, t), Region(a, 7 - a, "Free")>>,
             kernel |-> FrameRange(k, 1), mmap |-> FrameRange(x, 1), meta |-> n] :
               a \in {1, 2, 4}, t \in {"Free", "Reserved"}, k \in 1 .. 5, x \in 1 .. 5, n \in 1 .. 2} :
        m.kernel.to <= m.mmap.from}
ReservedLate == FrameRange(6, 1)
HighFrame == 4
LowFrame == 4
Runs == {1, 2}
Pinned == 3
M == INSTANCE Pmm

\* The heap: pages of sixteen words, blocks of eight to sixty-four, three arenas.
MIN_ORDER == 3
MAX_ORDER == 6
MAX_ARENAS == 3
PageWords == 16
FirstPages == 3
GrowPages == 2
HeapFrames == 8
HeapHigh == 3
HeapUse(sizes, aligns, calls, live) == [sizes |-> sizes, aligns |-> aligns, calls |-> calls, live |-> live]
HeapUses ==
    {HeapUse({1, 9}, {2}, {}, 4),
     HeapUse({1, 12, 30}, {2}, {"realloc"}, 3),
     HeapUse({9, 40, 60}, {2, 8}, {"frames"}, 3)}
H == INSTANCE Heap

Init == M!Init \/ H!Init \/ X!Init \/ V!Init \/ G!Init \/ E!Init \/ T!Init \/ U!Init
Next == \/ X!On /\ X!Next
        \/ V!On /\ V!Next
        \/ G!On /\ G!Next
        \/ E!On /\ E!Next
        \/ T!On /\ T!Next
        \/ U!On /\ U!Next
        \/ M!On /\ M!Next
        \/ H!On /\ H!Next
Spec == Init /\ [][Next]_s

(* A command, a request or a call that returns was ended by its own        *)
(* completion, never by the late one of something that timed out before,   *)
(* and a GPU request that is over has left the engine.                     *)
OwnCompletion == X!CompletionIsOwn /\ V!ReplyIsOwn /\ E!DoneIsSaved


(* A device that is ready always has a transfer to report its input with,  *)
(* and a GPU with work queued is working or about to be looked after.      *)
DevicesServed == X!InputServed /\ E!EngineFed /\ G!GpuNeverStalls

(* Commands name objects the host has and work no longer uses, and nothing *)
(* is left of a finished frame; the records of contexts and resources are  *)
(* the host's, and it is left with no memory the kernel took back.         *)
HostObjects ==
    /\ V!HandlesLive /\ V!FrameClean
    /\ U!BindingsMutual /\ U!RecordsAreHosts /\ U!HostMemoryHeld

=============================================================================
