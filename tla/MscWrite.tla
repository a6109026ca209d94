------------------------------ MODULE MscWrite ------------------------------
(***************************************************************************)
(* The WRITE command of the mass-storage core on top of the streamed SD     *)
(* write: data arrives over USB into three rotating buffers, each is handed *)
(* to the card as it comes, a buffer goes back to USB only when the card    *)
(* cannot ask for it again, and a finished command leaves its stream open   *)
(* so that the next sequential one continues it (write-behind).             *)
(*                                                                         *)
(* One LUN; Place gives the card sector of each of its sectors (the extent  *)
(* table of an image, the identity for the card itself). The stream is the  *)
(* one of SdWriteStream: its state is owned by the command while one runs,  *)
(* by wb between commands.                                                  *)
(***************************************************************************)
EXTENDS SdWriteStream, Sequences

CONSTANTS
  FSec,      (* sectors of the LUN: 0..n-1                                 *)
  Place,     (* the card sector of each                                    *)
  HostData,  (* bound: the contents a host writes, sector by sector        *)
  CmdLens,   (* bound: the lengths of the commands                         *)
  MaxCmds    (* bound: commands issued                                     *)

ASSUME PlaceAssumption ==
  /\ IsFiniteSet(FSec) /\ FSec = 0 .. Cardinality(FSec) - 1
  /\ Place \in [FSec -> Sector] /\ \A f, g \in FSec : Place[f] = Place[g] => f = g
  /\ HostData \subseteq [FSec -> Value] /\ CmdLens \subseteq 1..Cardinality(FSec) /\ MaxCmds \in Nat
ASSUME AnyContent == Pattern = [1..ChunkLen -> Value]

VARIABLES
  cmd,      (* locals of cmd_write                                         *)
  wb,       (* the write-behind record (its stream is st)                  *)
  armed,    (* buffers armed on the OUT endpoint, oldest first             *)
  rxdone,   (* completed receptions not yet taken by the main loop         *)
  data_out, (* what the host writes with the pending command               *)
  status,   (* status of the last command                                  *)
  ncmd      (* commands issued                                             *)

stream  == <<st, call, ret, owned, present, slow, hardware, want, handed>>
usb     == <<armed, rxdone>>
host    == <<data_out, status, ncmd>>
allVars == <<stream, mem, cmd, wb, usb, host>>

Idle == [pc |-> "idle", first |-> 0, n |-> 0, fsec |-> 0, armed |-> 0, received |-> 0,
         open |-> FALSE, seg |-> 0, segDone |-> 0, free |-> Buf, hold |-> NoBuf,
         buf |-> NoBuf, off |-> 0, len |-> 0]
NoWb == [open |-> FALSE, fsec |-> 0, seg |-> 0, segDone |-> 0]

WInit ==
  /\ Init /\ cmd = Idle /\ wb = NoWb /\ armed = <<>> /\ rxdone = <<>>
  /\ data_out = [f \in {} |-> Blank] /\ status = "none" /\ ncmd = 0

InFlightBufs == Len(armed) + Len(rxdone)
CallIdle     == call.pc = "idle"

(* lun_map: the contiguous run of card sectors from LUN sector f on. *)
RunFrom(f) == CHOOSE n \in 1..Cardinality(FSec) :
                /\ \A i \in 0..n - 1 : f + i \in FSec /\ Place[f + i] = Place[f] + i
                /\ ~(f + n \in FSec /\ Place[f + n] = Place[f] + n)

---------------------------------------------------------------------------
(* The host sends WRITE for n sectors from f on. A pending stream that ends *)
(* exactly there is continued, any other is closed first.                   *)
ContinuesAny(f) == wb.open                                 \* mutant of Continues
Continues(f) == wb.open /\ wb.fsec = f /\ wb.segDone < wb.seg

(* sd_stream_run is told what is pushed before the stream settles: the rest *)
(* of the command or of the run of card sectors, whichever ends first.      *)
AnnouncedRun(bytes, left) == left                          \* mutant of Announced
Announced(bytes, left)    == Smaller(bytes, left)

Fresh(f, n) == [Idle EXCEPT !.first = f, !.n = n, !.fsec = f]

Issue(f, n, data) ==
  /\ cmd.pc = "idle" /\ CallIdle /\ ncmd < MaxCmds
  /\ f + n - 1 \in FSec
  /\ data_out' = [s \in f..f + n - 1 |-> data[s]]
  /\ status' = "pending" /\ ncmd' = ncmd + 1
  /\ UNCHANGED <<mem, usb>>
  /\ \/ /\ ~present                                         \* medium_ready
        /\ cmd' = [Fresh(f, n) EXCEPT !.pc = "refuse"]
        /\ UNCHANGED <<stream, wb>>
     \/ /\ present /\ Continues(f)
        /\ cmd' = [Fresh(f, n) EXCEPT !.pc = "arm", !.open = TRUE, !.seg = wb.seg, !.segDone = wb.segDone]
        /\ wb' = NoWb
        /\ Run(Announced(n, wb.seg - wb.segDone))
     \/ /\ present /\ ~Continues(f)
        /\ cmd' = [Fresh(f, n) EXCEPT !.pc = IF wb.open THEN "flush" ELSE "arm"]
        /\ UNCHANGED <<stream, wb>>

(* wb_flush: ends the stream; before a write elsewhere, before any other    *)
(* command, and when the bus was idle for WB_IDLE_US. Its result is only    *)
(* logged: the command that wrote the data has long been answered.          *)
Flush ==
  /\ wb.open /\ CallIdle /\ cmd.pc \in {"flush", "idle", "refuse"}
  /\ End
  /\ wb' = NoWb
  /\ cmd' = IF cmd.pc = "flush" THEN [cmd EXCEPT !.pc = "arm"] ELSE cmd
  /\ UNCHANGED <<usb, host>>

(* The command ends; what is still armed is dropped by the stall or reset   *)
(* that follows a failure.                                                  *)
Finish(s) ==
  /\ cmd' = Idle /\ status' = s
  /\ armed' = <<>> /\ rxdone' = <<>>
  /\ data_out' = [f \in {} |-> Blank]
  /\ UNCHANGED ncmd

Refuse ==
  /\ cmd.pc = "refuse" /\ CallIdle /\ ~wb.open
  /\ Finish("failed")
  /\ UNCHANGED <<stream, mem, wb>>

(* ARM_MORE: at most two receptions at a time, into free buffers only. *)
MayArm == cmd.armed < cmd.n /\ InFlightBufs < 2 /\ cmd.free # {}

Arm ==
  /\ cmd.pc = "arm" /\ CallIdle /\ MayArm
  /\ \E b \in cmd.free : LET k == Smaller(ChunkLen, cmd.n - cmd.armed) IN
       /\ armed' = Append(armed, [buf |-> b, len |-> k, from |-> cmd.first + cmd.armed])
       /\ cmd' = [cmd EXCEPT !.free = @ \ {b}, !.armed = @ + k]
  /\ UNCHANGED <<stream, mem, wb, rxdone, host>>

AllArmed ==
  /\ cmd.pc = "arm" /\ CallIdle /\ ~MayArm
  /\ \/ /\ cmd.received < cmd.n
        /\ cmd' = [cmd EXCEPT !.pc = "wait"]
        /\ UNCHANGED <<stream, wb, usb, host>>
     \/ /\ cmd.received = cmd.n /\ cmd.open
        /\ Settle
        /\ cmd' = [cmd EXCEPT !.pc = "settling"]
        /\ UNCHANGED <<wb, usb, host>>
     \/ /\ cmd.received = cmd.n /\ ~cmd.open
        /\ Finish("passed")
        /\ UNCHANGED <<stream, wb>>
  /\ UNCHANGED mem

(* The host fills the oldest armed buffer; the controller reports it. *)
HostSends ==
  /\ armed # <<>>
  /\ LET r == Head(armed) IN
       /\ mem' = [mem EXCEPT ![r.buf] = [i \in 1..ChunkLen |-> IF i <= r.len THEN data_out[r.from + i - 1] ELSE @[i]]]
       /\ rxdone' = Append(rxdone, [buf |-> r.buf, len |-> r.len])
  /\ armed' = Tail(armed)
  /\ UNCHANGED <<stream, cmd, wb, host>>

(* A packet of a wrong length: a phase error, the stream is aborted. *)
HostSendsShort ==
  /\ armed # <<>>
  /\ rxdone' = Append(rxdone, [buf |-> Head(armed).buf, len |-> 0])
  /\ armed' = Tail(armed)
  /\ UNCHANGED <<stream, mem, cmd, wb, host>>

Receive ==
  /\ cmd.pc = "wait" /\ rxdone # <<>> /\ Head(rxdone).len > 0
  /\ cmd' = [cmd EXCEPT !.pc = "piece", !.buf = Head(rxdone).buf, !.len = Head(rxdone).len, !.off = 0]
  /\ rxdone' = Tail(rxdone)
  /\ UNCHANGED <<stream, mem, wb, armed, host>>

PhaseError ==
  /\ cmd.pc = "wait" /\ rxdone # <<>> /\ Head(rxdone).len = 0
  /\ IF cmd.open THEN Abort ELSE UNCHANGED <<stream, mem>>
  /\ Finish("failed")
  /\ UNCHANGED wb

(* Bus reset or cable pulled while data is awaited: no status is sent. *)
HostAborts ==
  /\ cmd.pc = "wait"
  /\ IF cmd.open THEN Abort ELSE UNCHANGED <<stream, mem>>
  /\ Finish("aborted")
  /\ UNCHANGED wb

---------------------------------------------------------------------------
(* The pieces of a received buffer, one per run of card sectors. *)

BeginRun ==
  /\ cmd.pc = "piece" /\ CallIdle /\ ~cmd.open
  /\ Begin(Place[cmd.fsec], RunFrom(cmd.fsec))
  /\ cmd' = [cmd EXCEPT !.pc = "begun"]
  /\ UNCHANGED <<wb, usb, host>>

Begun ==
  /\ cmd.pc = "begun"
  /\ IF ret = "OK"
       THEN LET run == RunFrom(cmd.fsec)
            IN /\ Run(Announced(cmd.n - (cmd.received + cmd.off), run))
               /\ cmd' = [cmd EXCEPT !.pc = "piece", !.open = TRUE, !.seg = run, !.segDone = 0]
               /\ UNCHANGED <<usb, host>>
       ELSE Finish("failed") /\ UNCHANGED stream
  /\ UNCHANGED <<mem, wb>>

Piece == Smaller(cmd.len - cmd.off, cmd.seg - cmd.segDone)

PushPiece ==
  /\ cmd.pc = "piece" /\ CallIdle /\ cmd.open
  /\ Push(cmd.buf, cmd.off, Piece)
  /\ cmd' = [cmd EXCEPT !.pc = "pushing"]
  /\ UNCHANGED <<wb, usb, host>>

(* After the last piece of a buffer: it stays on hold while the card may    *)
(* still ask for it again, the one held before it goes back to USB.         *)
TakenFree(c, bufFree) ==                                   \* mutant of Taken
  [c EXCEPT !.received = @ + c.len, !.pc = "arm", !.buf = NoBuf, !.free = @ \cup {c.buf}]
Taken(c, bufFree) ==
  LET done == [c EXCEPT !.received = @ + c.len, !.pc = "arm", !.buf = NoBuf]
  IN IF bufFree THEN [done EXCEPT !.free = @ \cup {c.buf}]
     ELSE [done EXCEPT !.free = @ \cup ({c.hold} \ {NoBuf}), !.hold = c.buf]
NextPiece(c) == IF c.off < c.len THEN [c EXCEPT !.pc = "piece"] ELSE Taken(c, FALSE)

Pushed ==
  /\ cmd.pc = "pushing" /\ CallIdle
  /\ LET c == [cmd EXCEPT !.off = @ + Piece, !.segDone = @ + Piece, !.fsec = @ + Piece] IN
     IF ret # "OK" THEN Finish("failed") /\ UNCHANGED <<stream, mem>>
     ELSE /\ IF c.segDone = c.seg
               THEN End /\ cmd' = [c EXCEPT !.pc = "ending"]
               ELSE UNCHANGED <<stream, mem>> /\ cmd' = NextPiece(c)
          /\ UNCHANGED <<usb, host>>
  /\ UNCHANGED wb

Ended ==
  /\ cmd.pc = "ending" /\ CallIdle
  /\ IF ret # "OK" THEN Finish("failed")
     ELSE LET c == [cmd EXCEPT !.open = FALSE, !.free = @ \cup ({cmd.hold} \ {NoBuf}), !.hold = NoBuf]
          IN /\ cmd' = IF c.off = c.len THEN Taken(c, TRUE) ELSE [c EXCEPT !.pc = "piece"]
             /\ UNCHANGED <<usb, host>>
  /\ UNCHANGED <<stream, mem, wb>>

Settled ==
  /\ cmd.pc = "settling" /\ CallIdle
  /\ IF ret = "OK"
       THEN /\ wb' = [open |-> TRUE, fsec |-> cmd.fsec, seg |-> cmd.seg, segDone |-> cmd.segDone]
            /\ Finish("passed") /\ UNCHANGED <<stream, mem>>
       ELSE Abort /\ Finish("failed") /\ UNCHANGED wb

---------------------------------------------------------------------------
SdSteps == (Step \/ DataPath \/ CardPulled) /\ UNCHANGED <<cmd, wb, usb, host>>

Core ==
  \/ Flush \/ Refuse \/ Arm \/ AllArmed \/ Receive \/ PhaseError
  \/ BeginRun \/ Begun \/ PushPiece \/ Pushed \/ Ended \/ Settled

Host ==
  \/ \E f \in FSec, n \in CmdLens, data \in HostData : Issue(f, n, data)
  \/ HostSends \/ HostSendsShort \/ HostAborts

(* The bound on commands is used up: nothing more is asked of the LUN. *)
Exhausted == ncmd = MaxCmds /\ cmd.pc = "idle" /\ UNCHANGED allVars

WNext == Core \/ Host \/ SdSteps \/ Exhausted
WSpec == WInit /\ [][WNext]_allVars

---------------------------------------------------------------------------
(* The LUN the host sees is a block device: GOOD status of a WRITE means    *)
(* every sector is on the card, a sector not being written never changes,   *)
(* across retries, buffer reuse, aborts and write-behind.                   *)
Device == INSTANCE BlockDevice WITH
            lun <- [f \in FSec |-> disk[Place[f]]], cmd <- data_out
IsBlockDevice == Device!Spec

(* USB never receives into a buffer the card may still have to be sent      *)
(* again, and no buffer is armed twice.                                     *)
InUse == {armed[i].buf : i \in 1..Len(armed)} \cup {rxdone[i].buf : i \in 1..Len(rxdone)}
BuffersDisjoint ==
  /\ InUse \cap ({cmd.hold, cmd.buf} \cup cmd.free) = {}
  /\ Cardinality(InUse) = InFlightBufs
  /\ owned /\ dpsm.acked < st.pushed => st.prev \notin InUse \cup cmd.free

(* A caller of the stream that announced its runs right is never refused:   *)
(* the stop-before-the-end that lost the tail of the data is unreachable.   *)
NeverRefused == call.op \in {"push", "settle", "end"} => ret \notin {"PARAM"}
=============================================================================
