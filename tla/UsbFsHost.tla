------------------------------ MODULE UsbFsHost ------------------------------
(***************************************************************************)
(* The keyboard port (usbfs_host.c): attach, enumeration, back-off, the    *)
(* interrupt endpoint with its data toggle, and the keys it feeds to the   *)
(* console, called from the idle loop of msc_core.c between its flush of   *)
(* the write-behind buffer and the next command.                           *)
(*                                                                         *)
(* The device can go, come back or be exchanged between any two transfers, *)
(* keys move at any time, and a transfer can fail on either side: before   *)
(* the other one has it, or only its acknowledgement.                      *)
(***************************************************************************)
EXTENDS Integers, Sequences, FiniteSets

CONSTANTS
  Devices,    (* things plugged into the port                              *)
  Kind,       (* Kind[d]: "keyboard", "mouse", "hub" or "mute"             *)
  NoDevice,
  Keys,
  Slots,      (* keys a boot report holds                                  *)
  MaxNoise,   (* bound: transfers that fail                                *)
  MaxEvents,  (* bound: devices plugged and unplugged                      *)
  MaxTyped,   (* bound: keys pressed and released                          *)
  MaxQueue    (* bound: reports a keyboard holds back                      *)

ASSUME KAssumption ==
  /\ Kind \in [Devices -> {"keyboard", "mouse", "hub", "mute"}] /\ NoDevice \notin Devices
  /\ "rollover" \notin Keys /\ Slots \in Nat \ {0} /\ {MaxNoise, MaxEvents, MaxTyped, MaxQueue} \subseteq Nat

VARIABLES
  port,     (* the device, its address, toggle and reports; PORT_EN        *)
  last,     (* the device that was last in the port                        *)
  down,     (* keys held down                                              *)
  dev,      (* dev: state, address, class, toggle, previous report         *)
  fail,     (* had_fail, and whether fail_us is less than three seconds ago *)
  pc,       (* place in the idle loop, usbfs_host_poll and enumerate       *)
  wb,       (* the write-behind buffer holds a run (wb.open)               *)
  fed,      (* history: keys acted on in this session                      *)
  told,     (* history: keys newly down in the reports of this session     *)
  pressed,  (* history: keys pressed in this session                       *)
  late,     (* history: a device came since this pass asked                *)
  due,      (* history: three seconds since the last failure, or replugged *)
  noise, events, typed

keys   == <<fed, told, pressed>>
vars == <<port, last, down, dev, fail, pc, wb, keys, late, due, noise, events, typed>>

None  == [k \in Keys |-> 0]
Count(f, S) == [k \in Keys |-> IF k \in S THEN f[k] + 1 ELSE f[k]]
Empty == [id |-> NoDevice, en |-> FALSE, addr |-> 0, set |-> FALSE, tog |-> 0, sent |-> {}, queue |-> <<>>]
NoDev == [state |-> "NONE", cls |-> "none", addr |-> 0, tog |-> 0, prev |-> {}]

Init ==
  /\ port \in {Empty} \union {[Empty EXCEPT !.id = d] : d \in Devices}
  /\ last = port.id /\ down = {} /\ dev = NoDev
  /\ fail = [had |-> FALSE, recent |-> FALSE] /\ pc = "idle" /\ wb = FALSE
  /\ fed = None /\ told = None /\ pressed = None
  /\ late = FALSE /\ due = TRUE /\ noise = 0 /\ events = 0 /\ typed = 0

Attached == port.id # NoDevice
Answers == Attached /\ port.en /\ port.addr = dev.addr /\ Kind[port.id] # "mute"
Quiet == UNCHANGED noise
Noise == noise < MaxNoise /\ noise' = noise + 1
(* A control transfer succeeds, or fails.                                  *)
Succeeds == Answers /\ Quiet
Fails == IF Answers THEN Noise ELSE Quiet

-----------------------------------------------------------------------------
(* The idle loop. wait_rx_idle flushes before it calls usbfs_host_poll when *)
(* an attach or a detach waits, or when the buffer is old.                 *)
NeverPending == FALSE                                     \* mutant of Pending
Pending == Attached # (dev.state # "NONE")


Ask ==
  /\ pc = "idle"
  /\ wb' \in IF Pending THEN {FALSE} ELSE {wb, FALSE}
  /\ pc' = "poll" /\ late' = FALSE
  /\ UNCHANGED <<port, last, down, dev, fail, keys, due, noise, events, typed>>

(* A WRITE between two passes leaves a run open.                           *)
Write ==
  /\ pc = "idle" /\ ~wb /\ wb' = TRUE
  /\ UNCHANGED <<port, last, down, dev, fail, pc, keys, late, due, noise, events, typed>>

-----------------------------------------------------------------------------
(* usbfs_host_poll, by what it finds.                                      *)
Detach ==
  /\ dev' = NoDev /\ fail' = [fail EXCEPT !.had = FALSE]
  /\ port' = [port EXCEPT !.en = FALSE]
NotNoticed == FALSE                                       \* mutant of Dropped
Dropped == dev.state # "NONE" /\ dev.state # "FAILED" /\ ~port.en
BackOff == fail.had /\ fail.recent

PollGone ==
  /\ pc = "poll" /\ (~Attached \/ Dropped)
  /\ IF dev.state # "NONE" THEN Detach ELSE UNCHANGED <<dev, fail, port>>
  /\ pc' = "idle"
  /\ UNCHANGED <<last, down, wb, keys, late, due, noise, events, typed>>

PollNew ==
  /\ pc = "poll" /\ Attached /\ dev.state = "NONE"
  /\ pc' = IF BackOff THEN "idle" ELSE "settle"
  /\ UNCHANGED <<port, last, down, dev, fail, wb, keys, late, due, noise, events, typed>>

PollFailed ==
  /\ pc = "poll" /\ Attached /\ dev.state = "FAILED"
  /\ dev' = IF fail.recent THEN dev ELSE [dev EXCEPT !.state = "NONE"]
  /\ pc' = "idle"
  /\ UNCHANGED <<port, last, down, fail, wb, keys, late, due, noise, events, typed>>

Usable == Attached /\ ~Dropped
(* A hub or an unknown device is left alone; an endpoint that is not due   *)
(* is not polled.                                                          *)
PollIdle ==
  /\ pc = "poll" /\ Usable /\ dev.state \in {"KEYBOARD", "MOUSE", "OTHER"}
  /\ pc' = "idle"
  /\ UNCHANGED <<port, last, down, dev, fail, wb, keys, late, due, noise, events, typed>>

PollEndpoint ==
  /\ pc = "poll" /\ Usable /\ dev.state \in {"KEYBOARD", "MOUSE"}
  /\ pc' = "in"
  /\ UNCHANGED <<port, last, down, dev, fail, wb, keys, late, due, noise, events, typed>>

-----------------------------------------------------------------------------
(* enumerate, transfer by transfer. While it runs dev.state is NONE.       *)
FailedUntimed ==                                          \* mutant of Failed
  /\ dev' = [dev EXCEPT !.state = "FAILED"]
  /\ fail' = [fail EXCEPT !.had = TRUE] /\ due' = FALSE
  /\ pc' = "idle"
Failed ==
  /\ dev' = [dev EXCEPT !.state = "FAILED"]
  /\ fail' = [had |-> TRUE, recent |-> TRUE] /\ due' = FALSE
  /\ pc' = "idle"


(* After 100 ms for contact bounce the first reset, and the port is on.    *)
Settle ==
  /\ pc = "settle" /\ pc' = IF Attached THEN "reset" ELSE "idle"
  /\ dev' = IF Attached THEN NoDev ELSE dev
  /\ UNCHANGED <<port, last, down, fail, wb, keys, late, due, noise, events, typed>>

BusReset == [port EXCEPT !.en = Attached, !.addr = 0, !.set = FALSE]

FirstReset ==
  /\ pc = "reset"
  /\ IF Attached THEN port' = BusReset /\ pc' = "desc" /\ UNCHANGED <<dev, fail, due>>
                 ELSE port' = port /\ Failed
  /\ UNCHANGED <<last, down, wb, keys, late, noise, events, typed>>

(* The device descriptor: the class is remembered from here.               *)
DeviceDescriptor ==
  /\ pc = "desc"
  /\ \/ /\ Succeeds /\ dev' = [dev EXCEPT !.cls = Kind[port.id]]
        /\ pc' = "reset2" /\ UNCHANGED <<fail, due>>
     \/ Fails /\ Failed
  /\ UNCHANGED <<port, last, down, wb, keys, late, events, typed>>

SecondReset ==
  /\ pc = "reset2"
  /\ port' = BusReset /\ pc' = "addr"
  /\ UNCHANGED <<last, down, dev, fail, wb, keys, late, due, noise, events, typed>>

(* SET_ADDRESS: when its acknowledgement is lost the device has moved.     *)
SetAddress ==
  /\ pc = "addr"
  /\ \/ /\ Succeeds /\ port' = [port EXCEPT !.addr = 2]
        /\ dev' = [dev EXCEPT !.addr = 2] /\ pc' = "config" /\ UNCHANGED <<fail, due>>
     \/ /\ Fails /\ Failed
        /\ port' \in {port} \union (IF Answers THEN {[port EXCEPT !.addr = 2]} ELSE {})
  /\ UNCHANGED <<last, down, wb, keys, late, events, typed>>

(* parse_config: what the first HID interrupt endpoint belongs to.         *)
Class(k) == CASE k = "keyboard" -> "KEYBOARD" [] k = "mouse" -> "MOUSE" [] OTHER -> "OTHER"

Configuration ==
  /\ pc = "config"
  /\ \/ /\ Succeeds /\ dev' = [dev EXCEPT !.state = Class(Kind[port.id])]
        /\ pc' = "setcfg" /\ UNCHANGED <<fail, due>>
     \/ Fails /\ Failed
  /\ UNCHANGED <<port, last, down, wb, keys, late, events, typed>>

(* SET_CONFIGURATION starts a session: both toggles at DATA0, no reports.  *)
Configured == [port EXCEPT !.set = TRUE, !.tog = 0, !.sent = {}, !.queue = <<>>]

SetConfiguration ==
  /\ pc = "setcfg"
  /\ \/ /\ Succeeds /\ port' = Configured
        /\ dev' = IF dev.cls = "hub" THEN [dev EXCEPT !.state = "OTHER"] ELSE dev
        /\ fail' = [fail EXCEPT !.had = FALSE] /\ pc' = "idle"
        /\ fed' = None /\ told' = None /\ pressed' = Count(None, down)
        /\ due' = due
     \/ /\ Fails /\ Failed
        /\ port' \in {port} \union (IF Answers THEN {Configured} ELSE {})
        /\ UNCHANGED keys
  /\ UNCHANGED <<last, down, wb, late, events, typed>>

-----------------------------------------------------------------------------
(* The interrupt endpoint. A report is the set of its codes: the keys down, *)
(* or code 1 in every slot when there is not room for all of them.         *)
Rollover == {"rollover"}
Report(S) == IF Cardinality(S) > Slots THEN Rollover ELSE S
KeysIn(r) == r \ Rollover
Flip(t) == 1 - t

(* handle_keyboard_report: keys not in the previous report are acted on.   *)
NeverReleased(r) ==                                       \* mutant of Handled
  /\ fed' = Count(fed, KeysIn(r) \ dev.prev)
  /\ dev' = [dev EXCEPT !.tog = Flip(@), !.prev = @ \union KeysIn(r)]
Handled(r) ==
  /\ fed' = Count(fed, KeysIn(r) \ dev.prev)
  /\ dev' = [dev EXCEPT !.tog = Flip(@), !.prev = KeysIn(r)]


Acked == [port EXCEPT !.tog = Flip(@), !.queue = Tail(@)]
HasReport == Answers /\ port.set /\ port.queue # <<>>
InStep == port.tog = dev.tog

(* NAK, or no valid answer in time: the toggle stays.                      *)
NoReport ==
  /\ pc = "in" /\ (IF HasReport THEN Noise ELSE Quiet)
  /\ pc' = "idle"
  /\ UNCHANGED <<port, last, down, dev, fail, wb, keys, late, due, events, typed>>

(* A report; when its acknowledgement is lost the device will repeat it.   *)
Receive ==
  /\ pc = "in" /\ HasReport /\ InStep
  /\ Handled(Head(port.queue))
  /\ \/ Quiet /\ port' = Acked
     \/ Noise /\ port' = port
  /\ pc' = "idle"
  /\ UNCHANGED <<last, down, fail, wb, told, pressed, late, due, events, typed>>

(* A repetition is acknowledged and dropped, and the transfer tried again. *)
Discard ==
  /\ pc = "in" /\ HasReport /\ ~InStep
  /\ port' = Acked
  /\ UNCHANGED <<last, down, dev, fail, pc, wb, keys, late, due, noise, events, typed>>

(* A stalled endpoint, or a port that went off during the transfer.        *)
Drop ==
  /\ pc = "in" /\ (IF Answers THEN Noise ELSE Quiet)
  /\ Detach /\ pc' = "idle"
  /\ UNCHANGED <<last, down, wb, keys, late, due, events, typed>>

-----------------------------------------------------------------------------
(* The world: three seconds pass, devices come and go, keys move. Another  *)
(* device takes longer to come than the second reset takes (30 ms).        *)
Expire ==
  /\ (fail.recent \/ ~due)
  /\ fail' = [fail EXCEPT !.recent = FALSE] /\ due' = TRUE
  /\ UNCHANGED <<port, last, down, dev, pc, wb, keys, late, noise, events, typed>>

Plug ==
  /\ ~Attached /\ events < MaxEvents /\ events' = events + 1
  /\ \E d \in Devices : (pc = "reset2" => d = last) /\ port' = [Empty EXCEPT !.id = d] /\ last' = d
  /\ late' = TRUE /\ due' = TRUE
  /\ UNCHANGED <<down, dev, fail, pc, wb, keys, noise, typed>>

Unplug ==
  /\ Attached /\ events < MaxEvents /\ events' = events + 1
  /\ port' = Empty /\ down' = {} /\ due' = TRUE
  /\ UNCHANGED <<last, dev, fail, pc, wb, keys, late, noise, typed>>

IsKeyboard == Attached /\ Kind[port.id] = "keyboard"

Type ==
  /\ IsKeyboard /\ typed < MaxTyped /\ typed' = typed + 1
  /\ \E k \in Keys :
       /\ down' = IF k \in down THEN down \ {k} ELSE down \union {k}
       /\ pressed' = IF k \in down THEN pressed ELSE Count(pressed, {k})
  /\ IF port.set
       THEN /\ Len(port.queue) < MaxQueue
            /\ port' = [port EXCEPT !.queue = Append(@, Report(down')),
                                    !.sent = IF Report(down') = Rollover THEN @ ELSE down']
            /\ told' = Count(told, KeysIn(Report(down')) \ port.sent)
       ELSE UNCHANGED <<port, told>>
  /\ UNCHANGED <<last, dev, fail, pc, wb, fed, late, due, noise, events>>

Enumerate ==
  \/ Settle \/ FirstReset \/ DeviceDescriptor \/ SecondReset \/ SetAddress \/ Configuration \/ SetConfiguration
Endpoint == NoReport \/ Receive \/ Discard \/ Drop
Driver == Ask \/ PollGone \/ PollNew \/ PollFailed \/ PollIdle \/ PollEndpoint \/ Enumerate \/ Endpoint
Next == Driver \/ Write \/ Expire \/ Plug \/ Unplug \/ Type

Spec == Init /\ [][Next]_vars

(* The main loop runs on and the clock moves.                              *)
FairSpec == Spec /\ WF_vars(Driver) /\ WF_vars(Expire)

-----------------------------------------------------------------------------
(* A device that stays in the port ends up driven as what it is, however   *)
(* often it bounced, was exchanged unseen or failed to enumerate before;   *)
(* after the last one went nothing is left (usbfs_host_poll).               *)
Driven ==
  /\ \A d \in Devices : Kind[d] # "mute" /\ <>[](port.id = d) => <>[](dev.state = Class(Kind[d]) /\ port.set)
  /\ <>[]~Attached => <>[](dev.state = "NONE")

(* A device that does not enumerate is not tried again for three seconds,  *)
(* unless it was pulled or plugged ("must not cost 250 ms of the idle loop *)
(* over and over", usbfs_host.c:552).                                      *)
BacksOff == [][pc' = "settle" => due]_vars

(* No press a report tells of is lost: lost acknowledgements, repetitions  *)
(* and garbled transfers keep both toggles in step (transact, poll).        *)
NoPressLost ==
  (pc = "idle" /\ Attached /\ port.set /\ port.en /\ port.queue = <<>> /\ dev.state = "KEYBOARD" /\ dev.addr = port.addr) =>
    \A k \in Keys : fed[k] >= told[k]

(* The long slot of an enumeration starts with the write-behind buffer     *)
(* flushed, unless the device came after this pass asked                   *)
(* (usbfs_host_pending, wait_rx_idle).                                     *)
SlotFlushed == pc = "settle" /\ wb => late

(* A key is acted on once per press ("held, not a new press",              *)
(* usbfs_host.c:285).                                                      *)
HeldActsOnce == dev.state = "KEYBOARD" => \A k \in Keys : fed[k] <= pressed[k]
=============================================================================
