-------------------------------- MODULE Pty --------------------------------
(***************************************************************************)
(* A pseudo terminal: the terminal program at the master end, the reader   *)
(* and the writer of a program at the slave end, and the line discipline   *)
(* between them.                                                           *)
(*                                                                         *)
(* A call runs under the kernel lock until it sleeps or returns.  Reads    *)
(* and writes are of one chunk of sys_read and sys_write.                  *)
(***************************************************************************)
EXTENDS Integers, FiniteSets, FiniteSetsExt, Sequences, SequencesExt

CONSTANTS
    BufferSize,   \* kPtyBufferSize
    LineSize,     \* kPtyLineBufferSize
    IoChunk,      \* bytes of one read or write
    MaxKeys,      \* bound: characters typed
    MaxOut,       \* bound: characters written by the program
    PtyUses       \* explored programs: their calls and the terminal's mode

VARIABLE s

On == s.part = "pty"
Ends == {"terminal", "reader", "writer"}
Resting == [call |-> "none", want |-> 0, done |-> 0, canonical |-> FALSE, asleep |-> FALSE]
NoDevice == [live |-> FALSE, masterOpen |-> 0, slaveOpen |-> 0, termios |-> {}, line |-> <<>>, segments |-> 0,
             input |-> <<>>, output |-> <<>>, written |-> 0, shown |-> 0]

Calls(call) == On /\ call \in s.use.calls
Has(flag) == flag \in s.dev.termios
wakeTtyWaiters(tasks) == [t \in Ends |-> [tasks[t] EXCEPT !.asleep = FALSE]]
blockCurrent(t) == s' = [s EXCEPT !.tasks = [@ EXCEPT ![t].asleep = TRUE]]

----------------------------------------------------------------------------
\* Open and close.

openPtyMaster ==
    /\ On /\ ~s.dev.live /\ s.keys = 0
    /\ s' = [s EXCEPT !.open = {"terminal"},
                      !.dev = [NoDevice EXCEPT !.live = TRUE, !.masterOpen = 1, !.termios = s.use.termios]]

openPtySlave(t) ==
    /\ On /\ t # "terminal" /\ t \notin s.open
    /\ s.dev.live
    /\ s' = [s EXCEPT !.open = @ \union {t}, !.dev = [@ EXCEPT !.slaveOpen = @ + 1]]

\* The device goes with its last end.
ptyClose(t) ==
    LET left == IF t = "terminal" THEN [s.dev EXCEPT !.masterOpen = @ - 1] ELSE [s.dev EXCEPT !.slaveOpen = @ - 1]
    IN /\ Calls("close") /\ t \in s.open /\ s.tasks[t] = Resting
       /\ s' = [s EXCEPT !.open = @ \ {t}, !.tasks = wakeTtyWaiters(@),
                         !.dev = IF left.masterOpen = 0 /\ left.slaveOpen = 0 THEN NoDevice ELSE left]

----------------------------------------------------------------------------
\* The line discipline.

\* What does not fit is dropped.
ringPush(ring, cs) == SubSeq(ring \o cs, 1, Min({Len(ring) + Len(cs), BufferSize}))

outputProcessChar(dev, c) ==
    [dev EXCEPT !.output = ringPush(@, IF c = "nl" /\ "onlcr" \in dev.termios THEN <<"cr", "nl">> ELSE <<c>>)]

echoChar(dev, c) ==
    IF "echo" \notin dev.termios THEN dev
    ELSE IF c \in {"eof", "intr"} THEN outputProcessChar(outputProcessChar(dev, "hat"), c) ELSE outputProcessChar(dev, c)

\* The committed line counts even when the ring had no room for it.
commitCanonicalLine(dev) ==
    [dev EXCEPT !.input = ringPush(@, dev.line), !.line = <<>>, !.segments = @ + 1]

\* One character rubbed out on the screen.
RubOut(dev) == FoldLeft(outputProcessChar, dev, <<"bs", "sp", "bs">>)

\* Returned: the device, and whether a reader is woken.
inputChar(dev, c) ==
    LET canonical == "icanon" \in dev.termios
        room == Len(dev.line) < LineSize
        typed == IF room THEN [dev EXCEPT !.line = Append(@, c)] ELSE dev
    IN CASE c = "intr" -> echoChar(dev, c)
         [] c = "erase" /\ canonical -> IF dev.line = <<>> THEN dev ELSE RubOut([dev EXCEPT !.line = Front(@)])
         [] c = "kill" /\ canonical -> FoldLeft(LAMBDA d, x : RubOut(d), [dev EXCEPT !.line = <<>>], dev.line)
         [] c = "eof" /\ canonical -> commitCanonicalLine(echoChar(dev, c))
         [] c = "nl" /\ canonical -> commitCanonicalLine(echoChar(typed, c))
         [] canonical /\ c = "x" -> IF room THEN echoChar(typed, c) ELSE dev
         [] ~canonical /\ c # "intr" -> echoChar([dev EXCEPT !.input = ringPush(@, <<c>>)], c)

\* A key of the terminal; ^C signals the foreground process, which sleeps or not.
masterWrite(c) ==
    /\ On /\ c \in s.use.keys /\ "terminal" \in s.open /\ s.tasks["terminal"] = Resting
    /\ s.keys < MaxKeys
    /\ ~Calls("flood") => /\ Len(s.dev.input) + Len(s.dev.line) < BufferSize
                          /\ c = "x" => Len(s.dev.line) + 1 < LineSize
    /\ s' = [s EXCEPT !.dev = inputChar(@, c), !.keys = @ + 1, !.tasks = wakeTtyWaiters(@),
                      !.signal = @ \/ c = "intr"]

----------------------------------------------------------------------------
\* Calls that may sleep.

Starts(t, call, n) ==
    /\ On /\ call \in s.use.calls
    /\ t \in s.open /\ s.tasks[t] = Resting
    /\ s' = [s EXCEPT !.tasks = [@ EXCEPT ![t] = [Resting EXCEPT !.call = call, !.want = n, !.canonical = Has("icanon")]]]

Runs(t, call) == On /\ s.tasks[t].call = call /\ ~s.tasks[t].asleep
Ends_(dev, t) == s' = [s EXCEPT !.dev = dev, !.tasks = [wakeTtyWaiters(@) EXCEPT ![t] = Resting]]
Fails(t) == s' = [s EXCEPT !.tasks = [@ EXCEPT ![t] = Resting]]

masterRead ==
    LET n == Min({s.tasks["terminal"].want, Len(s.dev.output)})
    IN /\ Runs("terminal", "show")
       /\ IF s.dev.output = <<>>
          THEN IF s.dev.slaveOpen = 0 THEN Fails("terminal") ELSE blockCurrent("terminal")
          ELSE Ends_([s.dev EXCEPT !.output = SubSeq(@, n + 1, Len(@)), !.shown = @ + n], "terminal")

\* Up to a newline, or what is there; the mode is the one the call began in.
slaveRead ==
    LET k == s.tasks["reader"]
        newlines == {i \in DOMAIN s.dev.input : s.dev.input[i] = "nl"}
        line == Min(newlines \union {Len(s.dev.input)})
        n == Min({k.want, IF k.canonical THEN line ELSE Len(s.dev.input)})
        nothing == IF k.canonical THEN s.dev.segments = 0 ELSE s.dev.input = <<>>
    IN /\ Runs("reader", "read")
       /\ IF nothing
          THEN IF s.dev.masterOpen = 0 THEN Fails("reader") ELSE blockCurrent("reader")
          ELSE Ends_([s.dev EXCEPT !.input = SubSeq(@, n + 1, Len(@)),
                                  !.segments = IF k.canonical THEN @ - 1 ELSE @], "reader")

\* Character by character; the terminal is woken at the end.
slaveWrite(c) ==
    LET k == s.tasks["writer"]
        dev == [outputProcessChar(s.dev, c) EXCEPT !.written = @ + 1]
    IN /\ Runs("writer", "write") /\ c \in s.use.chars
       /\ IF Len(s.dev.output) >= BufferSize
          THEN IF s.dev.masterOpen = 0 THEN Fails("writer") ELSE blockCurrent("writer")
          ELSE IF k.done + 1 = k.want THEN Ends_(dev, "writer")
          ELSE s' = [s EXCEPT !.dev = dev, !.tasks = [@ EXCEPT !["writer"].done = @ + 1]]

\* A signal ends the sleep of the reader or the writer.
Interrupted(t) ==
    /\ On /\ s.signal /\ t # "terminal" /\ s.tasks[t].asleep
    /\ s' = [s EXCEPT !.signal = FALSE, !.tasks = [@ EXCEPT ![t] = Resting]]

setTermios(flags) ==
    /\ Calls("modes") /\ s.dev.live
    /\ flags # s.dev.termios
    /\ s' = [s EXCEPT !.dev = [@ EXCEPT !.termios = flags], !.tasks = wakeTtyWaiters(@)]

pollMaster == s.dev.output # <<>> \/ s.dev.slaveOpen = 0
pollSlave == s.dev.masterOpen = 0 \/ (IF Has("icanon") THEN s.dev.segments > 0 ELSE s.dev.input # <<>>)

----------------------------------------------------------------------------
Init ==
    \E use \in PtyUses :
        s = [part |-> "pty", use |-> use, dev |-> NoDevice, open |-> {}, keys |-> 0, signal |-> FALSE,
             tasks |-> [t \in Ends |-> Resting]]

\* While the writer is between two characters it holds the kernel lock.
Writing == s.tasks["writer"].call = "write" /\ ~s.tasks["writer"].asleep

Next ==
    \/ \E c \in {"x", "nl"} : slaveWrite(c)
    \/ /\ On /\ ~Writing
       /\ \/ openPtyMaster \/ masterRead \/ slaveRead
          \/ \E t \in Ends : openPtySlave(t) \/ ptyClose(t) \/ Interrupted(t)
          \/ \E c \in {"x", "nl", "erase", "kill", "eof", "intr"} : masterWrite(c)
          \/ \E n \in (IF Calls("short") THEN 1..BufferSize ELSE {BufferSize}) : Starts("reader", "read", n)
          \/ \E n \in 1..IoChunk : Starts("terminal", "show", n)
          \/ \E n \in 1..IoChunk : s.dev.written + n <= MaxOut /\ Starts("writer", "write", n)
          \/ \E flags \in {s.use.termios, s.use.termios \ {"icanon"}} : setTermios(flags)

----------------------------------------------------------------------------
(* With neither echo nor newline translation, every character the program   *)
(* wrote is on the screen or in the buffer.  In line mode, with reads that  *)
(* take a line, no ^D and no overflow, what waits for the reader is whole   *)
(* lines, as many as are announced to it.                                   *)
PtyDelivers ==
    On => /\ {"echo", "onlcr"} \intersect s.dev.termios = {} => s.dev.written = s.dev.shown + Len(s.dev.output)
          /\ Has("icanon") /\ {"short", "modes", "flood"} \intersect s.use.calls = {} /\ "eof" \notin s.use.keys
             => /\ s.dev.segments = Cardinality({i \in DOMAIN s.dev.input : s.dev.input[i] = "nl"})
                /\ s.dev.input # <<>> => Last(s.dev.input) = "nl"
          /\ s.dev.masterOpen = Cardinality(s.open \intersect {"terminal"})
          /\ s.dev.slaveOpen = Cardinality(s.open \ {"terminal"})

(* Nobody sleeps through what it waits for: the reader through a line, or   *)
(* a character if it began to read in raw mode, the writer through room in  *)
(* the buffer, the terminal through output, and nobody through the closing  *)
(* of the other end.                                                        *)
PtyWakes ==
    On => /\ s.tasks["reader"].asleep =>
               /\ s.dev.masterOpen > 0
               /\ s.tasks["reader"].canonical = Has("icanon") => ~pollSlave
          /\ s.tasks["writer"].asleep => s.dev.masterOpen > 0 /\ Len(s.dev.output) = BufferSize
          /\ ~Writing /\ s.tasks["terminal"].asleep => ~pollMaster
============================================================================
