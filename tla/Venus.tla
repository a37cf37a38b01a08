------------------------------- MODULE Venus -------------------------------
(***************************************************************************)
(* The Vulkan client over virtio-gpu (graphics/venus.cpp).  A session is a *)
(* ring of commands shared with the host renderer, which consumes them in  *)
(* order and on its own time, and one reply region.  The guest names the   *)
(* objects.  The commands themselves are those of VenusFrames.             *)
(***************************************************************************)
EXTENDS Integers, Sequences

CONSTANTS
    Program,       \* the steps of every entry point, session first
    FirstOfFrame,  \* where the steps of the frame begin
    Attempts,      \* sessions tried by one call (3)
    RingCap,       \* commands the ring holds
    MaxCalls       \* calls made in a behaviour

VARIABLE s

On == s.part = "venus"

Jobs == DOMAIN Program \cup {"probe"}
SessionObjects == {"instance", "physDev", "device"}

-----------------------------------------------------------------------------
(* The guest.                                                              *)

\* The pixel buffers a call takes from the PMM.
Pixels ==
    [bringUpVulkan |-> {}, renderTriangleToScreen |-> {"pixels"}, renderTexturedQuadToScreen |-> {"pixels", "tex"},
     compositeToScreen |-> {"bg", "win"}]

NoReply == [cmd |-> "none", id |-> 0, ok |-> FALSE]

Init ==
    s = [part |-> "venus", mode |-> "idle", job |-> "none", at |-> 0, phase |-> "step", tries |-> 0, result |-> FALSE,
         alive |-> FALSE, held |-> {}, ready |-> FALSE, ring |-> <<>>, owed |-> <<>>, word |-> NoReply, host |-> {},
         blobs |-> {}, recorded |-> {}, running |-> {}, frames |-> {}, calls |-> 0, misused |-> FALSE, mistaken |-> FALSE]

Current == Program[s.job][s.at]
At(kind, phase) ==
    On /\ s.mode = "run" /\ s.phase = phase /\ s.at <= Len(Program[s.job]) /\ Current.kind = kind

\* An object of a frame is distinct from its namesake of another frame.
Named(objects, call) == {IF o \in SessionObjects THEN <<0, o>> ELSE <<call, o>> : o \in objects}

Advance(t) == [t EXCEPT !.at = @ + 1, !.phase = "step"]

\* shutdown queues the destruction of device and instance, whose results it
\* ignores; the handles are set even when their creation failed, so these
\* commands may name what the host never made.
DestroyCommands ==
    [i \in 1..2 |->
        [step |-> [kind |-> "ring", cmd |-> <<"vkDestroyDevice", "vkDestroyInstance">>[i], uses |-> {}, makes |-> {},
                   kills |-> {"instance"}, reply |-> FALSE, soft |-> TRUE],
         id |-> 0, call |-> 0]]
shutdown(t) ==
    [t EXCEPT !.mode = "down", !.at = 0, !.phase = "step", !.alive = FALSE,
              !.ring = IF t.ready /\ Len(t.ring) + 2 <= RingCap THEN t.ring \o DestroyCommands ELSE @]
Fail(t) == IF Current.soft THEN Advance(t) ELSE shutdown(t)

\* The call returns: what it allocated from the PMM is freed.
Return(t) == [t EXCEPT !.mode = "idle", !.job = "none", !.at = 0, !.frames = {}]

\* unmap, detach, unref, destroy the context: the host's objects go with it.
ReleaseSession(t) ==
    [t EXCEPT !.held = {}, !.ready = FALSE, !.ring = <<>>, !.owed = <<>>, !.word = NoReply, !.host = {},
              !.blobs = {}, !.recorded = {}, !.running = {}, !.phase = "step"]
NextTry(t) ==
    IF t.job # "probe" /\ t.tries < Attempts THEN [t EXCEPT !.mode = "init", !.tries = @ + 1] ELSE Return(t)

\* One of the entry points: no device or no memory, the live session of the
\* compositor, or a session of its own.
Call(job) ==
    /\ On /\ s.mode = "idle" /\ s.calls < MaxCalls
    /\ LET t == [s EXCEPT !.job = job, !.calls = @ + 1, !.tries = 1, !.result = FALSE, !.frames = IF job = "probe" THEN {} ELSE Pixels[job]]
       IN  s' = IF job = "compositeToScreen" /\ s.alive
                THEN [t EXCEPT !.mode = "run", !.at = FirstOfFrame[job]]
                ELSE [t EXCEPT !.mode = "init"]

\* A context, with some patience for the host's cold start, then the shared
\* blob, which is undone when it cannot be attached, then the ring (or the
\* one query of the probe).
createContext ==
    /\ On /\ s.mode = "init" /\ s.held = {}
    /\ \/ s' = [s EXCEPT !.held = {"context"}]
       \/ s' = NextTry(s)
allocateSharedBlob ==
    /\ On /\ s.mode = "init" /\ s.held = {"context"}
    /\ \/ s' = [s EXCEPT !.held = {"context", "blob", "attached"}]
       \/ s' = NextTry([s EXCEPT !.held = {}])
init ==
    /\ On /\ s.mode = "init" /\ s.job # "probe" /\ "attached" \in s.held
    /\ \/ s' = [s EXCEPT !.mode = "run", !.at = 1, !.phase = "step", !.ready = TRUE]
       \/ s' = NextTry(ReleaseSession(s))
probe ==
    /\ On /\ s.mode = "init" /\ s.job = "probe" /\ "attached" \in s.held
    /\ s' = Return(ReleaseSession(s))

\* The compositor takes its pixel buffer once it has a session.
TakePixels ==
    /\ On /\ s.mode = "run" /\ s.job = "compositeToScreen" /\ s.at = FirstOfFrame[s.job]
    /\ s.phase = "step" /\ "pixels" \notin s.frames
    /\ \/ s' = [s EXCEPT !.alive = TRUE, !.frames = @ \cup {"pixels"}]
       \/ s' = [Return(s) EXCEPT !.alive = TRUE]

HasPixels == s.job # "compositeToScreen" \/ s.at # FirstOfFrame[s.job] \/ "pixels" \in s.frames

\* ringSubmit: publish one command, rewinding and clearing the reply region
\* when a reply is expected.
ClearReply(word, step) == IF step.reply THEN NoReply ELSE word
KeepReply(word, step) == word
ringSubmit ==
    /\ At("ring", "step") /\ HasPixels
    /\ IF ~s.ready \/ Len(s.ring) >= RingCap
       THEN s' = Fail(s)
       ELSE LET t == [s EXCEPT !.word = ClearReply(@, Current),
                               !.ring = Append(@, [step |-> Current, id |-> s.at, call |-> s.calls])]
            IN  \/ s' = [t EXCEPT !.phase = "consume"]
                \/ s' = [Fail(t) EXCEPT !.ready = FALSE]

Consumed ==
    /\ At("ring", "consume") /\ s.ring = <<>>
    /\ s' = IF Current.reply THEN [s EXCEPT !.phase = "reply"] ELSE Advance(s)

\* The host did not consume in time: the command stays in the ring.
ConsumeTimeout == At("ring", "consume") /\ s.ring # <<>> /\ s' = Fail(s)

\* The reply, or the zeroes of a reply that did not come in time.
Decode ==
    /\ At("ring", "reply")
    /\ s' = IF s.word.cmd = Current.cmd /\ s.word.ok
            THEN [Advance(s) EXCEPT !.mistaken = @ \/ s.word.id # s.at]
            ELSE Fail(s)

\* Guest mappings of device memory, through the virtio control queue.
MapBlob ==
    /\ At("map", "step")
    /\ \/ s' = [Advance(s) EXCEPT !.blobs = @ \cup Named(Current.uses, s.calls),
                                !.misused = @ \/ ~(Named(Current.uses, s.calls) \subseteq s.host)]
       \/ s' = Fail(s)
UnmapBlob ==
    /\ At("unmap", "step")
    /\ s' = [Advance(s) EXCEPT !.blobs = @ \ Named(Current.uses, s.calls)]

\* The frame is on the screen.
FrameDone ==
    /\ On /\ s.mode = "run" /\ s.at = Len(Program[s.job]) + 1
    /\ s' = IF s.job = "compositeToScreen" THEN Return(s) ELSE [shutdown(s) EXCEPT !.result = TRUE]

\* The end of shutdown: ring, blob and context go.  The guest mappings
\* of a frame that failed are never undone; they leave the state here.  The entry points try again with a new session, the
\* compositor only while it has none.
SessionGone ==
    /\ On /\ s.mode = "down"
    /\ s' = IF s.result \/ (s.job = "compositeToScreen" /\ "pixels" \in s.frames)
            THEN Return(ReleaseSession(s)) ELSE NextTry(ReleaseSession(s))

-----------------------------------------------------------------------------
(* The host renderer.                                                      *)

Execute ==
    /\ On /\ s.ring # <<>>
    /\ LET c == Head(s.ring)
           uses == Named(c.step.uses, c.call)
           kills == IF c.step.cmd = "vkDestroyDevice"
                    THEN {o \in s.host : o # <<0, "instance">>} ELSE Named(c.step.kills, c.call)
       IN  /\ c.step.cmd = "vkWaitForFences" => s.running = {}
           /\ \E ok \in (IF c.step.reply THEN BOOLEAN ELSE {TRUE}) :
                s' = [s EXCEPT
                        !.ring = Tail(@),
                        !.host = (@ \ kills) \cup (IF ok THEN Named(c.step.makes, c.call) ELSE {}),
                        !.owed = IF c.step.reply THEN Append(@, [cmd |-> c.step.cmd, id |-> c.id, ok |-> ok]) ELSE @,
                        !.recorded = CASE c.step.cmd = "vkBeginCommandBuffer" -> {}
                                       [] c.step.cmd = "vkCmd" -> @ \cup uses
                                       [] OTHER -> @,
                        !.running = IF c.step.cmd = "vkQueueSubmit" /\ ok THEN s.recorded ELSE @,
                        !.misused = @ \/ ~(uses \subseteq s.host)
                                      \/ (c.step.cmd = "vkDestroy" /\ kills \cap s.running # {})]

WriteReply == On /\ s.owed # <<>> /\ s' = [s EXCEPT !.word = Head(s.owed), !.owed = Tail(@)]
GpuFinishes == On /\ s.running # {} /\ s' = [s EXCEPT !.running = {}]

Next ==
    \/ \E job \in Jobs : Call(job)
    \/ createContext \/ allocateSharedBlob \/ init \/ probe \/ TakePixels \/ ringSubmit \/ Consumed \/ ConsumeTimeout \/ Decode \/ MapBlob \/ UnmapBlob
    \/ FrameDone \/ SessionGone \/ Execute \/ WriteReply \/ GpuFinishes

-----------------------------------------------------------------------------
(* No command of a frame names an object the host does not have, and none  *)
(* destroys what submitted work still uses.                                *)
HandlesLive == On => ~s.misused

(* A reply that was accepted answers the very command that waits for it,   *)
(* although replies have no number and late ones land in the same place.   *)
ReplyIsOwn == On => ~s.mistaken

(* Between calls the compositor's session holds its device and its queues  *)
(* (which go with it) and nothing else, no guest mapping is left of a      *)
(* completed frame, the pixel buffers are back, and a context or a blob is *)
(* held for the compositor's session only.                                 *)
FrameClean ==
    (On /\ s.mode = "idle") =>
        /\ s.frames = {}
        /\ s.blobs = {}
        /\ ~s.alive => s.held = {}
        /\ (s.alive /\ s.ready /\ s.ring = <<>>) => {o \in s.host : o[2] # "queue"} = Named(SessionObjects, 0)
=============================================================================
