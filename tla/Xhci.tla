-------------------------------- MODULE Xhci --------------------------------
(***************************************************************************)
(* The xHCI driver (drivers/usb/xhci.cpp): bring-up of the controller and  *)
(* its root ports, enumeration of keyboards, mice and hubs, the command,   *)
(* transfer and event rings.  The driver runs on one CPU with interrupts   *)
(* off and waits by draining the event ring, so that its calls nest; they  *)
(* are the frames of stk.  The controller works on the rings on its own    *)
(* time.                                                                   *)
(***************************************************************************)
EXTENDS Integers, Sequences, FiniteSets

CONSTANTS
    Trbs,         \* entries of a ring, the link included (256)
    Retries,      \* XHCI_ENUMERATION_RETRIES (3)
    UsbDevices,   \* what is plugged in at boot: sequences of devices, one per root port
    UsbFaults,    \* timeouts, failed commands and stalled requests, for each of them
    UsbReports,   \* input reports in a behaviour
    UsbPlugs      \* how often a device is unplugged or plugged in

VARIABLE s

On == s.part = "xhci"

Inputs == {"keyboard", "mouse"}
Endpoints == Inputs \cup {"ep0"}

-----------------------------------------------------------------------------
(* Rings.  The producer marks what it enqueues with its cycle bit and      *)
(* passes the link entry at the end by toggling the bit.                   *)

setup_ring ==
    [trb |-> [i \in 1..Trbs |-> [cycle |-> IF i = Trbs THEN 1 ELSE 0, what |-> "none"]],
     enqueue |-> 1, cycle |-> 1, at |-> 1, atCycle |-> 1]

advance_ring(r) ==
    IF r.enqueue + 1 >= Trbs
    THEN [r EXCEPT !.trb[Trbs].cycle = r.cycle, !.enqueue = 1, !.cycle = 1 - @]
    ELSE [r EXCEPT !.enqueue = @ + 1]

advance_command_ring(r) == advance_ring(r)
advance_keyboard_ring(r) == advance_ring(r)
advance_mouse_ring(r) == advance_ring(r)
advance_ep0_ring(r) == advance_ring(r)

Filled(r, what) == [r EXCEPT !.trb[r.enqueue] = [cycle |-> r.cycle, what |-> what]]
enqueue_ep0_trb(r, what) == advance_ep0_ring(Filled(r, what))
enqueue_keyboard_trb(r) == advance_keyboard_ring(Filled(r, "normal"))
enqueue_mouse_trb(r) == advance_mouse_ring(Filled(r, "normal"))

\* The controller's side: it follows the link when the link is its own, and
\* finds work where the cycle bit is the one it expects.
Position(r) ==
    IF r.at = Trbs /\ r.trb[Trbs].cycle = r.atCycle THEN [at |-> 1, cycle |-> 1 - r.atCycle]
                                                    ELSE [at |-> r.at, cycle |-> r.atCycle]
HasWork(r) == Position(r).at # Trbs /\ r.trb[Position(r).at].cycle = Position(r).cycle
Work(r) == r.trb[Position(r).at].what
Taken(r) == [r EXCEPT !.at = Position(r).at + 1, !.atCycle = Position(r).cycle]

-----------------------------------------------------------------------------
(* Events.  skip counts the entries by which the driver's dequeue index is *)
(* ahead of what the controller has written: those events it never sees.   *)

Post(t, event) ==
    IF t.skip > 0 THEN [t EXCEPT !.skip = @ - 1, !.lost = TRUE]
                  ELSE [t EXCEPT !.events = Append(@, [what |-> event, handled |-> FALSE])]

\* ++eventDequeue, with the wrap of the index and its cycle bit.
AdvanceDequeue(t) ==
    IF t.events = <<>> THEN [t EXCEPT !.skip = @ + 1]
    ELSE [t EXCEPT !.events = Tail(@), !.lost = @ \/ ~Head(t.events).handled]

Visible == s.events # <<>>

-----------------------------------------------------------------------------
(* The call stack.                                                         *)

Top == s.stk[Len(s.stk)]
Running(f) == On /\ s.stk # <<>> /\ Top.f = f
Push(t, frame) == [t EXCEPT !.stk = Append(@, frame)]
Pop(t, result) == [t EXCEPT !.stk = SubSeq(@, 1, Len(@) - 1), !.ret = result]
SetTop(t, frame) == [t EXCEPT !.stk[Len(t.stk)] = frame]

NoSlot ==
    [allocated |-> FALSE, port |-> 0, device |-> "none",
     ring |-> [e \in Endpoints |-> setup_ring], state |-> [e \in Endpoints |-> "running"],
     pending |-> [e \in Endpoints |-> 0], completed |-> FALSE, code |-> "none", request |-> "none",
     ready |-> [e \in Inputs |-> FALSE], ledsKnown |-> FALSE, leds |-> 0, ledFailures |-> 0]

MaxSlots == Retries + 2

Init ==
    \E devices \in UsbDevices :
        s = [part |-> "xhci", boot |-> "probe", programmed |-> {}, irq |-> FALSE,
             stk |-> <<>>, ret |-> "none", retSlot |-> 0,
             cmd |-> setup_ring,
             command |-> [pending |-> 0, completed |-> FALSE, ok |-> FALSE, slot |-> 0, name |-> "none"],
             events |-> <<>>, skip |-> 0, lost |-> FALSE, mistaken |-> FALSE,
             connected |-> [p \in 1..Len(devices) |-> TRUE], resetting |-> [p \in 1..Len(devices) |-> FALSE],
             portBusy |-> [p \in 1..Len(devices) |-> FALSE], device |-> devices,
             slots |-> [i \in 1..MaxSlots |-> NoSlot], enabled |-> 0,
             lockLeds |-> 0, faults |-> UsbFaults[devices], reports |-> UsbReports, plugs |-> UsbPlugs[devices],
             dead |-> {}, nested |-> FALSE]

Ports == DOMAIN s.connected

-----------------------------------------------------------------------------
(* Bring-up of the controller.  Every step may fail and leave it alone.    *)

Boot(at, then, programs) ==
    /\ On /\ s.boot = at
    /\ \/ s' = [s EXCEPT !.boot = then, !.programmed = @ \cup programs]
       \/ s' = [s EXCEPT !.boot = "failed"]

read_xhci_bar == Boot("probe", "caps", {})
probe_controller == Boot("caps", "bios", {})
claim_bios_ownership == Boot("bios", "reset", {"owned"})
ResetController == Boot("reset", "memory", {"halted", "reset"})
AllocateRings == Boot("memory", "interrupt", {"dcbaa", "command ring", "event ring"})

\* MSI, the interrupt ACPI names, the legacy line, or polling alone.
registerMSIInterrupt ==
    /\ On /\ s.boot = "interrupt"
    /\ \/ s' = [s EXCEPT !.boot = "run", !.irq = TRUE]
       \/ s' = [s EXCEPT !.boot = "prt"]
bind_prt_interrupt ==
    /\ On /\ s.boot = "prt"
    /\ \/ s' = [s EXCEPT !.boot = "run", !.irq = TRUE]
       \/ s' = [s EXCEPT !.boot = "legacy"]
registerLegacyInterrupt ==
    /\ On /\ s.boot = "legacy"
    /\ \E irq \in BOOLEAN : s' = [s EXCEPT !.boot = "run", !.irq = irq]

\* The controller runs and reports every connected port; the driver starts
\* with the first.
PortEvents == [p \in Ports |-> [what |-> [type |-> "port", port |-> p], handled |-> FALSE]]
RunController ==
    /\ On /\ s.boot = "run"
    /\ \/ s' = [s EXCEPT !.boot = "ports", !.events = PortEvents, !.stk = <<[f |-> "ports", port |-> 1]>>]
       \/ s' = [s EXCEPT !.boot = "failed"]

-----------------------------------------------------------------------------
(* Commands.                                                               *)

submit_command(t, name, slot) ==
    IF t.command.pending # 0 THEN [t EXCEPT !.ret = "fail"]
    ELSE Push([t EXCEPT !.cmd = advance_command_ring(
                                    Filled(@, [name |-> name, slot |-> slot,
                                               to |-> IF slot = 0 THEN 0 ELSE t.slots[slot].ring["ep0"].enqueue,
                                               toCycle |-> IF slot = 0 THEN 0 ELSE t.slots[slot].ring["ep0"].cycle])),
                        !.command = [pending |-> t.cmd.enqueue, completed |-> FALSE, ok |-> FALSE, slot |-> 0,
                                     name |-> "none"]],
              [f |-> "command", name |-> name, slot |-> slot])

CommandReturns ==
    /\ Running("command") /\ s.command.completed
    /\ s' = [Pop(s, IF s.command.ok THEN "ok" ELSE "fail") EXCEPT
                !.retSlot = s.command.slot,
                !.mistaken = @ \/ s.command.name # Top.name \/ (Top.slot # 0 /\ s.command.slot # Top.slot)]

\* A command that takes too long: its completion, if it comes, is ignored.
AbandonKeepsPending(t) == t
AbandonCommand(t) == [t EXCEPT !.command.pending = 0]
CommandTimeout ==
    /\ Running("command") /\ ~s.command.completed /\ s.faults > 0
    /\ s' = [Pop(AbandonCommand(s), "fail") EXCEPT !.faults = @ - 1]

-----------------------------------------------------------------------------
(* Control transfers.                                                      *)

\* The requests with a data stage.
WithData == {"descriptor 8", "descriptor", "config header", "config", "report descriptor", "hub descriptor",
             "superspeed hub descriptor", "port status", "lights"}

xhci_control_transfer(t, slot, request) ==
    LET trb(stage) == [stage |-> stage, request |-> request]
        r1 == enqueue_ep0_trb(t.slots[slot].ring["ep0"], trb("setup"))
        r2 == IF request \in WithData THEN enqueue_ep0_trb(r1, trb("data")) ELSE r1
    IN  Push([t EXCEPT !.slots[slot].ring["ep0"] = enqueue_ep0_trb(r2, trb("status")),
                       !.slots[slot].pending["ep0"] = r2.enqueue,
                       !.slots[slot].completed = FALSE, !.slots[slot].code = "none",
                       !.slots[slot].request = "none",
                       !.slots[slot].state["ep0"] = IF @ = "stopped" THEN "running" ELSE @],
             [f |-> "transfer", slot |-> slot, request |-> request])

recover_ep0(slot, halted) == [f |-> "recover", slot |-> slot, try |-> 1, halted |-> halted]

wait_transfer ==
    /\ Running("transfer") /\ s.slots[Top.slot].completed
    /\ LET sl == s.slots[Top.slot]
           t == [s EXCEPT !.mistaken = @ \/ sl.request # Top.request]
       IN  s' = IF sl.code = "success" THEN Pop(t, "ok") ELSE SetTop(t, recover_ep0(Top.slot, TRUE))
TransferTimeout ==
    /\ Running("transfer") /\ ~s.slots[Top.slot].completed /\ s.faults > 0
    /\ s' = [SetTop(s, recover_ep0(Top.slot, FALSE)) EXCEPT
                !.slots[Top.slot].pending["ep0"] = 0, !.faults = @ - 1]

\* Reset or stop the endpoint, or the other of the two, then move it past
\* what was queued.
RecoverCommand(frame) ==
    CASE frame.try = 3 -> "set dequeue"
      [] frame.halted <=> (frame.try = 1) -> "reset endpoint"
      [] OTHER -> "stop endpoint"
Recover ==
    /\ Running("recover")
    /\ s' = CASE s.ret = "none" -> submit_command(s, RecoverCommand(Top), Top.slot)
              [] s.ret # "none" /\ Top.try = 3 -> Pop(s, "fail")
              [] OTHER -> [SetTop(s, [Top EXCEPT !.try = IF s.ret = "ok" THEN 3 ELSE @ + 1]) EXCEPT !.ret = "none"]

-----------------------------------------------------------------------------
(* Input endpoints.                                                        *)

Submitted(sl, e, ring) ==
    [sl EXCEPT !.ring[e] = ring, !.pending[e] = sl.ring[e].enqueue]
submit_keyboard_transfer(sl) ==
    IF sl.ready["keyboard"] /\ sl.pending["keyboard"] = 0
    THEN Submitted(sl, "keyboard", enqueue_keyboard_trb(sl.ring["keyboard"])) ELSE sl
submit_mouse_transfer(sl) ==
    IF sl.ready["mouse"] /\ sl.pending["mouse"] = 0
    THEN Submitted(sl, "mouse", enqueue_mouse_trb(sl.ring["mouse"])) ELSE sl

\* An error, a report of another ID and a good one all lead to the next
\* transfer.
CompleteAndStop(sl) == [sl EXCEPT !.pending["keyboard"] = 0]
complete_keyboard_transfer(sl) == submit_keyboard_transfer([sl EXCEPT !.pending["keyboard"] = 0])
complete_mouse_transfer(sl) == submit_mouse_transfer([sl EXCEPT !.pending["mouse"] = 0])

-----------------------------------------------------------------------------
(* The event ring.                                                         *)

\* Mutant: any command completion is taken for the pending command's.
AnyCommandEvent(t, ev) ==
    IF t.command.pending # 0
    THEN [t EXCEPT !.command = [pending |-> 0, completed |-> TRUE, ok |-> ev.ok, slot |-> ev.slot,
                                name |-> ev.name]]
    ELSE t

CommandEvent(t, ev) ==
    IF t.command.pending # 0 /\ ev.ptr = t.command.pending
    THEN [t EXCEPT !.command = [pending |-> 0, completed |-> TRUE, ok |-> ev.ok, slot |-> ev.slot,
                                name |-> ev.name]]
    ELSE t

\* The status stage ends a control transfer, and so does any error on ep0.
EndsTransfer(sl, ev) ==
    ev.endpoint = "ep0" /\ sl.pending["ep0"] # 0 /\ (ev.ptr = sl.pending["ep0"] \/ ev.code # "success")
TransferEvent(t, ev) ==
    LET sl == t.slots[ev.slot]
        s1 == IF EndsTransfer(sl, ev)
              THEN [sl EXCEPT !.pending["ep0"] = 0, !.completed = TRUE, !.code = ev.code, !.request = ev.request]
              ELSE sl
        s2 == IF ev.endpoint = "keyboard" /\ s1.pending["keyboard"] = ev.ptr THEN complete_keyboard_transfer(s1) ELSE s1
        s3 == IF ev.endpoint = "mouse" /\ s2.pending["mouse"] = ev.ptr THEN complete_mouse_transfer(s2) ELSE s2
    IN  [t EXCEPT !.slots[ev.slot] = s3]

bring_up_connected_port(t, p) ==
    IF t.portBusy[p] \/ ~t.connected[p] THEN t
    ELSE Push([t EXCEPT !.portBusy[p] = TRUE], [f |-> "bring up", port |-> p, try |-> 1, at |-> "reset"])

\* One event.  The dequeue index moves after the event was dealt with, which
\* for a port may be a whole enumeration.
drain_events ==
    /\ Running("drain")
    /\ IF Top.at = "advance" THEN s' = [SetTop(AdvanceDequeue(s), [Top EXCEPT !.at = "look"]) EXCEPT !.ret = "none"]
       ELSE IF ~Visible THEN s' = Pop(s, "none")
       ELSE LET ev == Head(s.events).what
                t == [s EXCEPT !.events[1].handled = TRUE]
            IN  s' = CASE ev.type = "command" -> AdvanceDequeue(CommandEvent(t, ev))
                       [] ev.type = "transfer" -> AdvanceDequeue(TransferEvent(t, ev))
                       [] ev.type = "port" ->
                            IF bring_up_connected_port(t, ev.port) = t THEN AdvanceDequeue(t)
                            ELSE bring_up_connected_port([SetTop(t, [Top EXCEPT !.at = "advance"]) EXCEPT !.nested = TRUE], ev.port)

Drain == [f |-> "drain", at |-> "look"]

\* Whoever waits acknowledges the interrupt and drains the ring.
handle_controller_interrupt ==
    /\ On /\ s.stk # <<>> /\ Visible
    /\ \/ Top.f \in {"command", "transfer"}
       \/ Top.f = "bring up" /\ Top.at = "resetting"
    /\ s' = Push(s, Drain)

-----------------------------------------------------------------------------
(* Ports.                                                                  *)

initialize_root_ports ==
    /\ Running("ports")
    /\ s' = IF Top.port \notin Ports THEN [Pop(s, "none") EXCEPT !.boot = "up"]
            ELSE bring_up_connected_port([SetTop(s, [Top EXCEPT !.port = @ + 1]) EXCEPT !.ret = "none"], Top.port)

NextAttempt(t) ==
    IF Top.try < Retries THEN [SetTop(t, [Top EXCEPT !.try = @ + 1, !.at = "reset"]) EXCEPT !.ret = "none"]
    ELSE [Pop(t, "fail") EXCEPT !.portBusy[Top.port] = FALSE]

reset_connected_port ==
    /\ Running("bring up") /\ Top.at = "reset"
    /\ s' = IF ~s.connected[Top.port] THEN NextAttempt(s)
            ELSE [SetTop(s, [Top EXCEPT !.at = "resetting"]) EXCEPT !.resetting[Top.port] = TRUE]

EnumFrame(port, device) == [f |-> "enumerate", port |-> port, device |-> device, slot |-> 0, at |-> 1, ok |-> TRUE]
wait_for_port_reset_complete ==
    /\ Running("bring up") /\ Top.at = "resetting" /\ (~s.resetting[Top.port] \/ ~s.connected[Top.port])
    /\ s' = IF ~s.connected[Top.port] THEN NextAttempt(s)
            ELSE Push(SetTop(s, [Top EXCEPT !.at = "enumerating"]), EnumFrame(Top.port, s.device[Top.port]))

BringUpReturns ==
    /\ Running("bring up") /\ Top.at = "enumerating"
    /\ s' = IF s.ret = "ok" THEN [Pop(s, "ok") EXCEPT !.portBusy[Top.port] = FALSE] ELSE NextAttempt(s)

-----------------------------------------------------------------------------
(* Enumeration: the steps of enumerate_device and of what it calls, and    *)
(* what becomes of the rest when one fails: everything is given up, the    *)
(* rest of the section is, or nothing.                                     *)

Step(section, call, what, fails) == [section |-> section, call |-> call, what |-> what, fails |-> fails]

AddressSteps ==
    <<Step("device", "command", "enable slot", "all"), Step("device", "allocate", "slot", "all"),
      Step("device", "command", "address without request", "all"), Step("device", "transfer", "descriptor 8", "all"),
      Step("device", "command", "evaluate ep0", "all"), Step("device", "command", "address", "all")>>
DescriptorSteps ==
    <<Step("device", "transfer", "descriptor", "all"), Step("device", "transfer", "config header", "all"),
      Step("device", "transfer", "config", "all"), Step("device", "transfer", "set configuration", "all")>>
ReportKeyboardSteps == <<Step("report", "transfer", "report descriptor", "all")>>
configure_keyboard_endpoint ==
    <<Step("keyboard", "command", "configure keyboard", "section"), Step("keyboard", "transfer", "set protocol", "none"),
      Step("keyboard", "transfer", "set idle", "none"), Step("keyboard", "ready", "keyboard", "none")>>
configure_mouse_endpoint ==
    <<Step("mouse", "command", "configure mouse", "section"), Step("mouse", "transfer", "set protocol", "none"),
      Step("mouse", "transfer", "set idle", "none"), Step("mouse", "ready", "mouse", "none")>>
read_hub_descriptor ==
    <<Step("hub", "transfer", "hub descriptor", "next"), Step("hub", "transfer", "superspeed hub descriptor", "section")>>
update_hub_slot_context == <<Step("hub", "command", "evaluate hub", "none")>>
reset_hub_port ==
    <<Step("hub", "transfer", "reset port", "section"), Step("hub", "transfer", "port status", "section"),
      Step("hub", "transfer", "clear reset change", "none")>>
enumerate_hub ==
    read_hub_descriptor \o update_hub_slot_context \o
    <<Step("hub", "transfer", "port power", "none"), Step("hub", "transfer", "port status", "section")>> \o
    reset_hub_port \o <<Step("hub", "child", "keyboard", "none")>>

enumerate_device(device) ==
    AddressSteps \o DescriptorSteps \o
    (IF device = "report keyboard" THEN ReportKeyboardSteps ELSE <<>>) \o
    (IF device \in {"keyboard", "report keyboard", "both"} THEN configure_keyboard_endpoint ELSE <<>>) \o
    (IF device \in {"mouse", "both"} THEN configure_mouse_endpoint ELSE <<>>) \o
    (IF device = "hub" THEN enumerate_hub ELSE <<>>)

Steps == enumerate_device(Top.device)
Current == Steps[Top.at]

\* The first step after i that belongs to another section.
AfterSection(i) ==
    LET later == {j \in i..Len(Steps) : Steps[j].section # Steps[i].section}
    IN  IF later = {} THEN Len(Steps) + 1 ELSE CHOOSE j \in later : \A k \in later : j <= k

\* A hub descriptor read at once makes the other kind unnecessary.
NextStep(i) == IF Steps[i].fails = "next" THEN i + 2 ELSE i + 1

allocate_slot_resources(t) ==
    [t EXCEPT !.slots[Top.slot] = [NoSlot EXCEPT !.allocated = TRUE, !.port = Top.port, !.device = Top.device]]

EnumerateStep ==
    /\ Running("enumerate") /\ s.ret = "none" /\ Top.at <= Len(Steps)
    /\ s' = CASE Current.call = "command" -> submit_command(s, Current.what, Top.slot)
              [] Current.call = "transfer" -> xhci_control_transfer(s, Top.slot, Current.what)
              [] Current.call = "allocate" -> [allocate_slot_resources(s) EXCEPT !.ret = "ok"]
              [] Current.call = "child" -> Push(s, EnumFrame(Top.port, Current.what))
              [] Current.call = "ready" ->
                    LET sl == [s.slots[Top.slot] EXCEPT !.ready[Current.what] = TRUE]
                    IN  [s EXCEPT !.slots[Top.slot] = submit_mouse_transfer(submit_keyboard_transfer(sl)), !.ret = "ok"]

EnumerateReturn ==
    /\ Running("enumerate") /\ s.ret # "none"
    /\ LET ok == s.ret = "ok"
           slot == IF Current.what = "enable slot" THEN s.retSlot ELSE Top.slot
           next == IF ok THEN NextStep(Top.at)
                   ELSE IF Current.fails = "section" THEN AfterSection(Top.at) ELSE Top.at + 1
       IN  s' = IF ~ok /\ Current.fails = "all" THEN Pop(s, "fail")
                ELSE [SetTop(s, [Top EXCEPT !.at = next, !.slot = slot,
                                            !.ok = @ /\ (ok \/ Current.fails # "section" \/ Current.section = "hub")])
                        EXCEPT !.ret = "none"]
EnumerateEnds ==
    /\ Running("enumerate") /\ s.ret = "none" /\ Top.at > Len(Steps)
    /\ s' = Pop(s, IF Top.ok THEN "ok" ELSE "fail")

-----------------------------------------------------------------------------
(* After boot: interrupts, and the timer's poll with the lock lights.      *)

Idle == On /\ s.boot = "up" /\ s.stk = <<>>

XHCIInterrupt ==
    /\ Idle /\ s.irq /\ Visible
    /\ s' = Push(s, Drain)

NeedsLeds(i) ==
    /\ s.slots[i].ready["keyboard"] /\ s.slots[i].ledFailures < 3
    /\ ~(s.slots[i].ledsKnown /\ s.slots[i].leds = s.lockLeds)
poll ==
    /\ Idle /\ (Visible \/ \E i \in 1..s.enabled : NeedsLeds(i))
    /\ s' = Push(Push(s, [f |-> "leds", slot |-> 1, value |-> 0]), Drain)

sync_keyboard_leds ==
    /\ Running("leds")
    /\ s' = CASE s.ret # "none" ->
                    [SetTop(s, [Top EXCEPT !.slot = @ + 1]) EXCEPT
                        !.ret = "none",
                        !.slots[Top.slot] = IF s.ret = "ok"
                            THEN [@ EXCEPT !.ledsKnown = TRUE, !.leds = Top.value, !.ledFailures = 0]
                            ELSE [@ EXCEPT !.ledFailures = @ + 1]]
              [] s.ret = "none" /\ Top.slot > s.enabled -> Pop(s, "none")
              [] s.ret = "none" /\ Top.slot <= s.enabled /\ ~NeedsLeds(Top.slot) ->
                    SetTop(s, [Top EXCEPT !.slot = @ + 1])
              [] OTHER -> xhci_control_transfer(SetTop(s, [Top EXCEPT !.value = s.lockLeds]), Top.slot, "lights")

-----------------------------------------------------------------------------
(* The controller and the devices (external).                              *)

Gone(i) == i \in s.dead \/ ~s.connected[s.slots[i].port]

HcCommand ==
    /\ On /\ HasWork(s.cmd)
    /\ LET c == Work(s.cmd)
           ptr == Position(s.cmd).at
           t == [s EXCEPT !.cmd = Taken(@)]
           sl == IF c.slot = 0 THEN NoSlot ELSE s.slots[c.slot]
           can == CASE c.name = "reset endpoint" -> sl.state["ep0"] = "halted"
                    [] c.name = "stop endpoint" -> sl.state["ep0"] = "running"
                    [] c.name = "set dequeue" -> sl.state["ep0"] = "stopped"
                    [] c.name = "address" -> ~Gone(c.slot)
                    [] c.name = "enable slot" -> s.enabled < MaxSlots
                    [] OTHER -> TRUE
           slot == IF c.name = "enable slot" THEN s.enabled + 1 ELSE c.slot
           done == CASE c.name = "enable slot" -> [t EXCEPT !.enabled = slot]
                     [] c.name \in {"reset endpoint", "stop endpoint"} -> [t EXCEPT !.slots[slot].state["ep0"] = "stopped"]
                     [] c.name = "set dequeue" ->
                            [t EXCEPT !.slots[slot].ring["ep0"].at = c.to, !.slots[slot].ring["ep0"].atCycle = c.toCycle]
                     [] OTHER -> t
           event(ok) == [type |-> "command", ptr |-> ptr, ok |-> ok, slot |-> IF ok THEN slot ELSE c.slot, name |-> c.name]
           stopped == [type |-> "transfer", slot |-> slot, endpoint |-> "ep0", request |-> "none", code |-> "stopped",
                       ptr |-> Position(sl.ring["ep0"]).at]
       IN  \/ can /\ s' = Post(IF c.name = "stop endpoint" /\ HasWork(sl.ring["ep0"]) THEN Post(done, stopped) ELSE done,
                               event(TRUE))
           \/ (~can \/ s.faults > 0) /\ s' = [Post(t, event(FALSE)) EXCEPT !.faults = IF can THEN @ - 1 ELSE @]

HcControl(i) ==
    /\ s.slots[i].allocated /\ s.slots[i].state["ep0"] = "running" /\ HasWork(s.slots[i].ring["ep0"])
    /\ LET r == s.slots[i].ring["ep0"]
           what == Work(r)
           t == [s EXCEPT !.slots[i].ring["ep0"] = Taken(@)]
           event(code) == [type |-> "transfer", slot |-> i, endpoint |-> "ep0", ptr |-> Position(r).at, code |-> code,
                           request |-> what.request]
           stall == [Post([s EXCEPT !.slots[i].state["ep0"] = "halted"], event("stall")) EXCEPT
                        !.faults = IF Gone(i) THEN @ ELSE @ - 1]
       IN  \/ ~Gone(i) /\ s' = IF what.stage # "status" THEN t ELSE Post(t, event("success"))
           \/ (Gone(i) \/ (s.faults > 0 /\ what.stage # "setup")) /\ s' = stall

HcReport(i, e) ==
    /\ s.slots[i].ready[e] /\ s.slots[i].state[e] = "running" /\ HasWork(s.slots[i].ring[e])
    /\ LET r == s.slots[i].ring[e]
           event(code) == [type |-> "transfer", slot |-> i, endpoint |-> e, ptr |-> Position(r).at, code |-> code,
                           request |-> "none"]
       IN  \/ /\ ~Gone(i) /\ s.reports > 0
              /\ \E leds \in {s.lockLeds, IF e = "keyboard" THEN 1 ELSE s.lockLeds} :
                    s' = [Post([s EXCEPT !.slots[i].ring[e] = Taken(@)], event("success")) EXCEPT
                            !.reports = @ - 1, !.lockLeds = leds]
           \/ Gone(i) /\ s' = Post([s EXCEPT !.slots[i].state[e] = "halted"], event("error"))

HcPortReset(p) ==
    /\ s.resetting[p]
    /\ s' = Post([s EXCEPT !.resetting[p] = FALSE], [type |-> "port", port |-> p])

Unplug(p) ==
    /\ Idle /\ s.connected[p] /\ s.plugs > 0
    /\ s' = Post([s EXCEPT !.connected[p] = FALSE, !.plugs = @ - 1,
                           !.dead = {i \in 1..s.enabled : s.slots[i].port = p}], [type |-> "port", port |-> p])
Plug(p) ==
    /\ Idle /\ ~s.connected[p] /\ s.plugs > 0
    /\ s' = Post([s EXCEPT !.connected[p] = TRUE, !.plugs = @ - 1], [type |-> "port", port |-> p])

Controller ==
    \/ HcCommand
    \/ \E i \in (IF On THEN 1..s.enabled ELSE {}) : HcControl(i) \/ \E e \in Inputs : HcReport(i, e)
    \/ \E p \in (IF On THEN Ports ELSE {}) : HcPortReset(p) \/ Unplug(p) \/ Plug(p)

Next ==
    \/ read_xhci_bar \/ probe_controller \/ claim_bios_ownership \/ ResetController \/ AllocateRings
    \/ registerMSIInterrupt \/ bind_prt_interrupt \/ registerLegacyInterrupt
    \/ RunController \/ initialize_root_ports
    \/ CommandReturns \/ CommandTimeout \/ wait_transfer \/ TransferTimeout \/ Recover
    \/ drain_events \/ handle_controller_interrupt
    \/ reset_connected_port \/ wait_for_port_reset_complete \/ BringUpReturns
    \/ EnumerateStep \/ EnumerateReturn \/ EnumerateEnds
    \/ XHCIInterrupt \/ poll \/ sync_keyboard_leds \/ Controller

-----------------------------------------------------------------------------
(* A command or a request that returns was ended by its own completion,    *)
(* never by the late one of something that timed out before.               *)
CompletionIsOwn == On => ~s.mistaken

(* No event is passed over: the dequeue index moves only past events the   *)
(* driver has dealt with, so that "the timer's poll also catches an event  *)
(* whose interrupt went missing".  Not so once a port came up inside       *)
(* drain_events(): its last step then passes an event (nested).            *)
NoEventSkipped == On /\ ~s.nested => (s.skip = 0 /\ ~s.lost)

(* A keyboard or mouse that is ready and plugged in always has a transfer  *)
(* with the controller or its completion in the event ring: it is never    *)
(* left without being polled again, as long as no event was passed over.   *)
InputServed ==
    On /\ ~s.lost => \A i \in 1..s.enabled, e \in Inputs :
            s.slots[i].ready[e] /\ ~Gone(i) =>
                /\ s.slots[i].pending[e] # 0
                /\ \/ HasWork(s.slots[i].ring[e]) /\ Position(s.slots[i].ring[e]).at = s.slots[i].pending[e]
                   \/ \E k \in DOMAIN s.events :
                        LET ev == s.events[k].what
                        IN  ev.type = "transfer" /\ ev.slot = i /\ ev.endpoint = e /\ ev.ptr = s.slots[i].pending[e]

=============================================================================
