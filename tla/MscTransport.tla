---------------------------- MODULE MscTransport ----------------------------
(***************************************************************************)
(* Bulk-Only Transport between the host, the queues of the controller and  *)
(* the main loop: command, data and status of msc_task, the chunk pipeline *)
(* of READ and WRITE, stalls, and resets at any point.                     *)
(*                                                                         *)
(* Interrupt handlers run between any two steps of the main loop, also     *)
(* between the load and the store of a shared counter. Data counts chunks  *)
(* of MSC_CHUNK_BYTES; a packet on the IN queue is a reference to a buffer, *)
(* whose contents the host sees when it takes it.                          *)
(***************************************************************************)
EXTENDS Integers, Sequences

CONSTANTS
  NBuf,       (* MSC_NBUF                                                  *)
  Want,       (* bound: lengths of the data phases, in chunks              *)
  MaxCmds,    (* bound: commands the host issues                           *)
  MaxResets   (* bound: resets                                             *)

ASSUME XAssumption ==
  /\ NBuf \in Nat \ {0, 1} /\ Want \subseteq Nat \ {0} /\ MaxCmds \in Nat /\ MaxResets \in Nat

Depth == 2                      (* of the queues of either controller      *)
Tag   == 0..MaxCmds
Most  == CHOOSE n \in Want : \A m \in Want : m <= n

VARIABLES
  main,     (* the main loop: place, command, progress, registers          *)
  mem,      (* contents of csw_buf (0) and of the data buffers             *)
  rxq, txq, (* the queues of the controller                                *)
  rxd,      (* rx_done: receptions reported, and how many of them are taken *)
  txo,      (* tx_outstanding                                              *)
  conf,     (* usb_configured                                              *)
  moved,    (* reset_seq # seq                                             *)
  halted,   (* in_halted, out_halted                                       *)
  stalled,  (* endpoints halted in the controller                          *)
  host,     (* the host: what it does and whether all it got was right     *)
  resets,   (* resets so far                                               *)
  torn,     (* history: the last reset hit the main loop within a command  *)
  lost      (* history: a completion was lost between load and store       *)

core    == <<main, mem>>
queues  == <<rxq, txq>>
shared  == <<rxd, txo, halted>>
session == <<conf, moved, resets, torn>>
vars    == <<core, queues, shared, session, stalled, host, lost>>

Content == [tag : Tag, i : 0..Most]
Packet  == [buf : 0..NBuf, zlp : BOOLEAN]
NoPacket == [buf |-> 0, zlp |-> TRUE]
Cmd     == [tag : Tag, dir : {"none", "in", "out"}, want : 0..Most]
NoCmd   == [tag |-> 0, dir |-> "none", want |-> 0]
(* A reception: a CBW, or the i-th chunk of the data of a command.         *)
Got(kind, c, i) == [kind |-> kind, cmd |-> c, i |-> i]

Idle == [pc |-> "top", tested |-> FALSE, cmd |-> NoCmd, i |-> 0, idx |-> 1, armed |-> 0, fly |-> 0, stall |-> "none",
         pkt |-> NoPacket, back |-> "top", v |-> 0, e |-> Got("cbw", NoCmd, 0)]

Init ==
  /\ main = Idle /\ mem = [b \in 0..NBuf |-> [tag |-> 0, i |-> 0]]
  /\ rxq = <<>> /\ txq = <<>> /\ rxd = [e |-> <<>>, r |-> 0] /\ txo = 0
  /\ conf = FALSE /\ moved = TRUE
  /\ halted = [in |-> FALSE, out |-> FALSE] /\ stalled = [in |-> FALSE, out |-> FALSE]
  /\ host = [phase |-> "idle", cmd |-> NoCmd, i |-> 0, ok |-> TRUE, issued |-> 0]
  /\ resets = 0 /\ torn = FALSE /\ lost = FALSE

---------------------------------------------------------------------------
(* Steps of the main loop. *)

AbortedUnconfigured == ~conf                               \* mutant of Aborted
Aborted == moved \/ ~conf

At(pc)   == main.pc = pc
Goto(pc) == main' = [main EXCEPT !.pc = pc, !.tested = FALSE]
Unread   == Len(rxd.e) > rxd.r

(* usb_xport_rx_arm and usb_xport_tx: a full queue takes no more. (After a  *)
(* bus reset a USB 2.0 device queues nothing; SET_CONFIGURATION empties the *)
(* queues in any case.)                                                     *)
Queued(q, x) == IF Len(q) < Depth THEN Append(q, x) ELSE q

(* The command phase: seq is taken, then the buffer for the CBW armed. *)
Top ==
  /\ At("top") /\ conf
  /\ main' = [Idle EXCEPT !.pc = "arm", !.cmd.tag = 0]
  /\ moved' = FALSE
  /\ UNCHANGED <<mem, queues, shared, conf, resets, torn, stalled, host, lost>>

ArmCbw ==
  /\ At("arm")
  /\ rxq' = Queued(rxq, "cbw")
  /\ Goto("cbw")
  /\ UNCHANGED <<mem, txq, shared, session, stalled, host, lost>>

(* The waits: what is waited for is tested, and only when it is not there   *)
(* yet, a moment later, whether the session was reset.                      *)
MayQueue == txo <= 1
Waiting  == {"cbw", "w_wait", "r_wait", "r_full", "r_sent", "zlp_sent", "csw_sent", "cleared"}
Ready(pc) ==
  \/ pc \in {"cbw", "w_wait"} /\ Unread
  \/ pc \in {"r_wait", "r_full"} /\ MayQueue
  \/ pc \in {"r_sent", "zlp_sent", "csw_sent"} /\ txo = 0
  \/ pc = "cleared" /\ ~halted.out
Passes(pc) == At(pc) /\ ~main.tested /\ Ready(pc)

NotReady ==
  /\ main.pc \in Waiting /\ ~main.tested /\ ~Ready(main.pc)
  /\ main' = [main EXCEPT !.tested = TRUE]
  /\ UNCHANGED <<mem, queues, shared, session, stalled, host, lost>>

CheckReset ==
  /\ main.tested
  /\ main' = [main EXCEPT !.tested = FALSE, !.pc = IF Aborted THEN "top" ELSE @]
  /\ UNCHANGED <<mem, queues, shared, session, stalled, host, lost>>

(* wait_rx and wait_rx_idle: the read index is loaded and stored in two     *)
(* steps.                                                                   *)
RxLoad ==
  /\ Passes("cbw") \/ Passes("w_wait")
  /\ main' = [main EXCEPT !.pc = "take", !.back = main.pc, !.e = rxd.e[rxd.r + 1]]
  /\ UNCHANGED <<mem, queues, shared, session, stalled, host, lost>>

(* What the loop goes on with: a command, a chunk, or neither. *)
FromCbw(m) ==
  IF m.e.kind = "cbw"
    THEN [m EXCEPT !.pc = "exec", !.cmd = m.e.cmd]
    ELSE [m EXCEPT !.pc = "bad"]
FromData(m) ==
  IF m.e.kind = "cbw"                                      \* no multiple of 512 bytes
    THEN [m EXCEPT !.pc = "ended", !.fly = @ - 1, !.stall = "out"]
    ELSE [m EXCEPT !.pc = "w_push", !.fly = @ - 1]

TakesAll(q)   == [e |-> <<>>, r |-> 0]                     \* mutant of AfterTake
AfterTake(q)  == [e |-> Tail(q.e), r |-> 0]

RxStore ==
  /\ At("take")
  /\ rxd' = AfterTake(rxd)
  /\ main' = IF main.back = "cbw" THEN FromCbw(main) ELSE FromData(main)
  /\ UNCHANGED <<mem, queues, txo, halted, session, stalled, host, lost>>

(* execute: a command without data, one that is refused, READ or WRITE.     *)
Execute ==
  /\ At("exec")
  /\ \/ main.cmd.dir = "none" /\ Goto("ended")
     \/ main.cmd.dir # "none" /\ main' = [main EXCEPT !.pc = "ended", !.stall = main.cmd.dir]
     \/ main.cmd.dir = "in" /\ Goto("r_wait")
     \/ main.cmd.dir = "out" /\ Goto("w_arm")
  /\ UNCHANGED <<mem, queues, shared, session, stalled, host, lost>>

(* queue_tx: the counter is loaded, stored, then the transport called.      *)
Load(pkt, back) ==
  main' = [main EXCEPT !.pc = "store", !.pkt = pkt, !.back = back, !.v = txo]

TxStore ==
  /\ At("store")
  /\ txo' = main.v + 1
  /\ lost' = (lost \/ txo # main.v)
  /\ Goto("send")
  /\ UNCHANGED <<mem, queues, rxd, halted, session, stalled, host>>

TxSend ==
  /\ At("send")
  /\ txq' = Queued(txq, main.pkt)
  /\ Goto(main.back)
  /\ UNCHANGED <<mem, rxq, shared, session, stalled, host, lost>>

---------------------------------------------------------------------------
(* READ: fill a buffer from the card while the previous one is sent.        *)

ReadWait ==
  /\ Passes("r_wait")
  /\ Goto("r_fill")
  /\ UNCHANGED <<mem, queues, shared, session, stalled, host, lost>>

SameBuffer(idx) == idx                                     \* mutant of NextBuffer
NextBuffer(idx) == (idx % NBuf) + 1

Fill ==
  /\ At("r_fill")
  /\ \/ /\ mem' = [mem EXCEPT ![main.idx] = [tag |-> main.cmd.tag, i |-> main.i + 1]]
        /\ Goto("r_full")
     \/ /\ main' = [main EXCEPT !.pc = "r_sent", !.stall = "in"]
        /\ UNCHANGED mem
  /\ UNCHANGED <<queues, shared, session, stalled, host, lost>>

ReadQueue ==
  /\ Passes("r_full")
  /\ Load([buf |-> main.idx, zlp |-> FALSE], "r_next")
  /\ UNCHANGED <<mem, queues, shared, session, stalled, host, lost>>

ReadNext ==
  /\ At("r_next")
  /\ main' = [main EXCEPT !.i = @ + 1, !.idx = NextBuffer(@),
                          !.pc = IF main.i + 1 = main.cmd.want THEN "r_sent" ELSE "r_wait"]
  /\ UNCHANGED <<mem, queues, shared, session, stalled, host, lost>>

ReadSent ==
  /\ Passes("r_sent")
  /\ Goto("ended")
  /\ UNCHANGED <<mem, queues, shared, session, stalled, host, lost>>

---------------------------------------------------------------------------
(* WRITE: at most two receptions in flight. (Of the buffers, one is pushed  *)
(* and one held for the card, so that a third is always free: MscWrite.)    *)

MayArmThree == main.armed < main.cmd.want /\ main.fly <= Depth  \* mutant of MayArm
MayArm == main.armed < main.cmd.want /\ main.fly < Depth

Arm ==
  /\ At("w_arm") /\ MayArm
  /\ rxq' = Queued(rxq, "data")
  /\ main' = [main EXCEPT !.armed = @ + 1, !.fly = @ + 1]
  /\ UNCHANGED <<mem, txq, shared, session, stalled, host, lost>>

AllArmed ==
  /\ At("w_arm") /\ ~MayArm
  /\ Goto(IF main.i < main.cmd.want THEN "w_wait" ELSE "ended")
  /\ UNCHANGED <<mem, queues, shared, session, stalled, host, lost>>

(* The card takes the chunk or fails; what the host still has is stalled.   *)
PushChunk ==
  /\ At("w_push")
  /\ \/ main' = [main EXCEPT !.i = @ + 1, !.pc = "w_arm"]
     \/ main' = [main EXCEPT !.i = @ + 1, !.pc = "ended",
                             !.stall = IF main.i + 1 < main.cmd.want THEN "out" ELSE "none"]
  /\ UNCHANGED <<mem, queues, shared, session, stalled, host, lost>>

---------------------------------------------------------------------------
(* The end of a command: a short data phase, a stall, the status.           *)

Ended ==
  /\ At("ended")
  /\ \/ Aborted /\ Goto("top")
     \/ ~Aborted /\ main.stall = "in"   /\ Goto("zlp")
     \/ ~Aborted /\ main.stall = "out"  /\ Goto("drop")
     \/ ~Aborted /\ main.stall = "none" /\ Goto("status")
  /\ UNCHANGED <<mem, queues, shared, session, stalled, host, lost>>

ShortEnd ==
  /\ At("zlp")
  /\ Load(NoPacket, "zlp_sent")
  /\ UNCHANGED <<mem, queues, shared, session, stalled, host, lost>>

ShortSent ==
  /\ Passes("zlp_sent")
  /\ Goto("status")
  /\ UNCHANGED <<mem, queues, shared, session, stalled, host, lost>>

(* stall_out_and_wait: what was received is dropped, then the endpoint      *)
(* halted, then the host's CLEAR_FEATURE awaited.                           *)
Drop ==
  /\ At("drop")
  /\ halted' = [halted EXCEPT !.out = TRUE]
  /\ rxd' = [e |-> <<>>, r |-> 0]
  /\ Goto("stall")
  /\ UNCHANGED <<mem, queues, txo, session, stalled, host, lost>>

StallOut ==
  /\ At("stall")
  /\ rxq' = <<>> /\ stalled' = [stalled EXCEPT !.out = TRUE]
  /\ Goto("cleared")
  /\ UNCHANGED <<mem, txq, shared, session, host, lost>>

Cleared ==
  /\ Passes("cleared")
  /\ Goto("status")
  /\ UNCHANGED <<mem, queues, shared, session, stalled, host, lost>>

Status ==
  /\ At("status")
  /\ mem' = [mem EXCEPT ![0] = [tag |-> main.cmd.tag, i |-> 0]]
  /\ Load([buf |-> 0, zlp |-> FALSE], "csw_sent")
  /\ UNCHANGED <<queues, shared, session, stalled, host, lost>>

StatusSent ==
  /\ Passes("csw_sent")
  /\ Goto("top")
  /\ UNCHANGED <<mem, queues, shared, session, stalled, host, lost>>

(* Not a CBW: both endpoints halt until the host resets. *)
BadCbw ==
  /\ At("bad")
  /\ rxq' = <<>> /\ txq' = <<>>
  /\ stalled' = [in |-> TRUE, out |-> TRUE] /\ halted' = [in |-> TRUE, out |-> TRUE]
  /\ Goto("dead")
  /\ UNCHANGED <<mem, rxd, txo, session, host, lost>>

Dead ==
  /\ At("dead") /\ Aborted
  /\ Goto("top")
  /\ UNCHANGED <<mem, queues, shared, session, stalled, host, lost>>

Main ==
  \/ Top \/ ArmCbw \/ NotReady \/ CheckReset \/ RxLoad \/ RxStore \/ Execute \/ TxStore \/ TxSend
  \/ ReadWait \/ Fill \/ ReadQueue \/ ReadNext \/ ReadSent \/ Arm \/ AllArmed \/ PushChunk
  \/ Ended \/ ShortEnd \/ ShortSent \/ Drop \/ StallOut \/ Cleared \/ Status \/ StatusSent
  \/ BadCbw \/ Dead

---------------------------------------------------------------------------
(* The host, with the interrupt its transfers raise. *)

(* OUT: the oldest armed buffer is filled. *)
Reception(got) ==
  /\ conf /\ ~stalled.out /\ rxq # <<>>
  /\ rxq' = Tail(rxq)
  /\ rxd' = [rxd EXCEPT !.e = Append(@, got)]
  /\ UNCHANGED <<core, txq, txo, halted, session, stalled, lost>>

(* A host that resets clears both halts before the next command. *)
SendCbw ==
  /\ host.phase = "idle" /\ host.issued < MaxCmds /\ ~stalled.in
  /\ \E dir \in {"none", "in", "out"}, n \in Want :
       LET c == [tag |-> host.issued + 1, dir |-> dir, want |-> IF dir = "none" THEN 0 ELSE n]
       IN /\ Reception(Got("cbw", c, 0))
          /\ host' = [host EXCEPT !.phase = IF dir = "none" THEN "csw" ELSE dir,
                                  !.cmd = c, !.i = 0, !.issued = @ + 1]

(* The CBW's buffer is too small for a chunk. One that was left armed takes *)
(* a part of it; from there on the two sides cut the data differently.      *)
SendData ==
  /\ host.phase = "out"
  /\ Reception(Got(IF Head(rxq) = "data" THEN "data" ELSE "part", host.cmd, host.i + 1))
  /\ host' = IF Head(rxq) = "data"
               THEN [host EXCEPT !.i = @ + 1, !.phase = IF host.i + 1 = host.cmd.want THEN "csw" ELSE "out"]
               ELSE [host EXCEPT !.phase = "confused", !.ok = FALSE]

(* IN: the oldest packet is taken and its completion counted.               *)
Short(p)  == p.zlp \/ p.buf = 0
IsData(p) == ~Short(p) /\ mem[p.buf] = [tag |-> host.cmd.tag, i |-> host.i + 1]
IsCsw(p)  == ~p.zlp /\ p.buf = 0 /\ mem[0] = [tag |-> host.cmd.tag, i |-> 0]

LastNotCounted(n) == IF n > 1 THEN n - 1 ELSE n            \* mutant of Completed
Completed(n)      == IF n > 0 THEN n - 1 ELSE 0

Take ==
  LET p == Head(txq) IN
  /\ conf /\ ~stalled.in /\ txq # <<>> /\ host.phase \in {"in", "csw"}
  /\ txq' = Tail(txq)
  /\ txo' = Completed(txo)
  /\ host' = CASE host.phase = "in" /\ IsData(p) ->
                    [host EXCEPT !.i = @ + 1, !.phase = IF host.i + 1 = host.cmd.want THEN "csw" ELSE "in"]
               [] host.phase = "in" /\ p.zlp -> [host EXCEPT !.phase = "csw"]
               [] host.phase = "csw" /\ IsCsw(p) -> [host EXCEPT !.phase = "idle"]
               [] OTHER -> [host EXCEPT !.phase = "confused", !.ok = FALSE]
  /\ UNCHANGED <<core, rxq, rxd, halted, session, stalled, lost>>

(* A STALL ends the data phase; the host clears it (CLEAR_FEATURE). *)
ClearHalt ==
  /\ conf
  /\ \/ /\ host.phase \in {"idle", "out"} /\ stalled.out
        /\ stalled' = [stalled EXCEPT !.out = FALSE] /\ halted' = [halted EXCEPT !.out = FALSE]
     \/ /\ host.phase \in {"idle", "in", "csw"} /\ stalled.in
        /\ stalled' = [stalled EXCEPT !.in = FALSE] /\ halted' = [halted EXCEPT !.in = FALSE]
  /\ host' = IF host.phase = "idle" THEN host ELSE [host EXCEPT !.phase = "csw"]
  /\ UNCHANGED <<core, queues, rxd, txo, session, lost>>

(* msc_evt_reset, from a reset of the bus, a new configuration or a BOT     *)
(* reset; a read index being taken is overwritten, not undone.              *)
EvtReset ==
  /\ moved' = TRUE
  /\ halted' = [in |-> FALSE, out |-> FALSE]
  /\ txo' = 0
  /\ rxd' = IF At("take") THEN [rxd EXCEPT !.r = Len(rxd.e)] ELSE [e |-> <<>>, r |-> 0]
  /\ rxq' = <<>> /\ txq' = <<>>
  /\ torn' = ~(At("cbw") \/ At("top"))
  /\ lost' = FALSE
  /\ host' = [host EXCEPT !.phase = "idle", !.ok = TRUE]
  /\ UNCHANGED core

BotReset ==
  /\ conf /\ resets < MaxResets /\ resets' = resets + 1
  /\ EvtReset
  /\ stalled' \in {stalled, [in |-> FALSE, out |-> FALSE]}  \* SuperSpeed leaves them to CLEAR_FEATURE
  /\ UNCHANGED conf

BusReset ==
  /\ conf /\ resets < MaxResets /\ resets' = resets + 1
  /\ EvtReset
  /\ conf' = FALSE /\ stalled' = [in |-> FALSE, out |-> FALSE]

SetConfiguration ==
  /\ ~conf
  /\ EvtReset
  /\ conf' = TRUE /\ stalled' = [in |-> FALSE, out |-> FALSE]
  /\ UNCHANGED resets

Handler == SendCbw \/ SendData \/ Take \/ ClearHalt \/ SetConfiguration
Resets  == BotReset \/ BusReset

Next == Main \/ Handler \/ Resets
Spec == Init /\ [][Next]_vars

(* The main loop goes on, and so does a host that waits for the device.     *)
FairSpec == Spec /\ WF_vars(Main) /\ WF_vars(Handler)

---------------------------------------------------------------------------
(* Whatever a host takes is what it waits for: the data of its READ, each   *)
(* chunk once, in order and not yet overwritten, then the status of its     *)
(* command. Resets that find the core waiting for a command change nothing. *)
HostInStep == ~torn => host.ok

(* The chunk a WRITE hands to the card is the next one of this command,     *)
(* never one the host sent for another or after a reset.                    *)
TakesOwn == ~torn /\ At("w_push") => main.e = Got("data", main.cmd, main.i + 1)

(* usb_transport.h:23 "At most two buffers may be outstanding": a third one *)
(* would be dropped without a word, and the core wait for it for ever.      *)
NeverDropped ==
  ~torn => /\ At("send") => Len(txq) < Depth
           /\ At("arm") \/ (At("w_arm") /\ MayArm) => Len(rxq) < Depth

(* A host that waits gets its status, unless a completion was lost between  *)
(* load and store of the counter, a chunk arrived between Drop and StallOut *)
(* and was taken for a command, or a WRITE failed after the host had sent   *)
(* all of its data and will never meet the STALL.                           *)
Answered ==
  (host.phase # "idle") ~> \/ host.phase = "idle" \/ torn \/ lost
                           \/ At("dead") \/ (At("cleared") /\ host.phase = "csw")

(* A reset ends every wait: the core returns to the command phase.          *)
Recovers == moved ~> At("top")
=============================================================================
