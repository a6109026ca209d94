---------------------------- MODULE SdReadStream ----------------------------
(***************************************************************************)
(* The streamed multi-block read of the SD driver: one CMD18 (or CMD17)    *)
(* carries a whole transfer, whose blocks the DMA stores chunk by chunk as *)
(* the caller finds buffers for them. A chunk with a bad block is read     *)
(* again, from the first block of the chunk on, with a new command.        *)
(*                                                                         *)
(* Offsets and lengths count blocks of 512 bytes. The driver blocks its    *)
(* caller; the card and the bus fail as they like.                         *)
(***************************************************************************)
EXTENDS Integers, FiniteSets, Sequences

CONSTANTS
  NBlk,      (* sectors of the card                                        *)
  Buf,       (* the chunk buffers                                          *)
  ChunkLen,  (* blocks in a buffer                                         *)
  Retries,   (* sd_cfg.retries                                             *)
  MaxSlow    (* steps of the clock ladder left before its floor            *)

ASSUME ReadAssumption ==
  NBlk \in Nat \ {0} /\ ChunkLen \in Nat \ {0} /\ Retries \in Nat /\ MaxSlow \in Nat

VARIABLES
  rs,       (* sd_stream_t of the read                                     *)
  io,       (* the push in progress: place in it, arguments, error         *)
  rret,     (* what the last call returned                                 *)
  present,  (* sd_card.present                                             *)
  slow,     (* clock steps taken by sd_fallback_clock                      *)
  line,     (* what the card does, and the sector it sends next            *)
  faulty,   (* history: something failed since the command began           *)
  mem       (* contents of the buffers                                     *)

readVars == <<rs, io, rret, present, slow, line, faulty, mem>>

Block(sd) == [t |-> "sector", sd |-> sd]
Junk      == [t |-> "junk"]
ClosedRead == [open |-> FALSE, started |-> FALSE, multi |-> FALSE, lba |-> 0, total |-> 0,
               pushed |-> 0, verified |-> 0, attempts |-> 0]
NoPush == [pc |-> "idle", buf |-> 0, at |-> 0, cnt |-> 0, before |-> 0, e |-> "OK"]

Quiet == [mode |-> "tran", at |-> 0]     \* the card as sd_init leaves it

ReadInit ==
  /\ rs = ClosedRead /\ io = NoPush /\ rret = "OK" /\ present = TRUE /\ slow = 0
  /\ line = Quiet /\ faulty = FALSE
  /\ mem = [b \in Buf |-> [i \in 1..ChunkLen |-> Junk]]

PushDone(e) == io' = NoPush /\ rret' = e
Store(b, at, s) ==
  mem' = [mem EXCEPT ![b] = [i \in 1..ChunkLen |-> IF i \in at + 1..at + Len(s) THEN s[i - at] ELSE @[i]]]

(* sd_stream_open: nothing is sent to the card before the first chunk. *)
Reopened(s) ==
  [s EXCEPT !.pushed = s.verified, !.started = FALSE, !.open = TRUE, !.multi = s.total - s.verified > 1]

(* sd_stream_begin of a read. *)
BeginRefused(lba, count) ==
  IF ~present THEN "NOCARD" ELSE IF count = 0 \/ lba + count > NBlk THEN "PARAM" ELSE "OK"
BeginRead(lba, count) ==
  LET e == BeginRefused(lba, count)
      s == [ClosedRead EXCEPT !.lba = lba, !.total = count]
  IN /\ rs' = IF e = "OK" THEN Reopened(s) ELSE ClosedRead
     /\ rret' = e /\ faulty' = (faulty \/ e = "NOCARD")

(* sd_stream_push of a read. *)
PushRead(b, at, cnt) ==
  /\ io.pc = "idle"
  /\ IF ~rs.open \/ rs.pushed + cnt > rs.total
       THEN PushDone(IF rs.open THEN "PARAM" ELSE "DATA")
       ELSE /\ io' = [pc |-> "loop", buf |-> b, at |-> at, cnt |-> cnt, before |-> rs.pushed, e |-> "OK"]
            /\ UNCHANGED rret
  /\ UNCHANGED <<rs, present, slow, line, faulty, mem>>

(* sd_stream_push_read: the DMA may store from here on; CMD17/18 goes out   *)
(* with the first chunk. A card still sending knows no such command. (Of    *)
(* the errors, CRC stands for those a retry may cure, TIMEOUT for others.)  *)
Sending(s) == [mode |-> IF s.multi THEN "data" ELSE "one", at |-> s.lba + s.pushed]
StartChunk ==
  /\ io.pc = "loop"
  /\ Store(io.buf, io.at, [i \in 1..io.cnt |-> Junk])
  /\ \/ /\ rs.started
        /\ rs' = [rs EXCEPT !.pushed = @ + io.cnt] /\ io' = [io EXCEPT !.pc = "dma"]
        /\ UNCHANGED <<present, line, faulty>>
     \/ /\ ~rs.started /\ line.mode = "tran"
        /\ rs' = [rs EXCEPT !.pushed = @ + io.cnt, !.started = TRUE] /\ io' = [io EXCEPT !.pc = "dma"]
        /\ line' = Sending(rs)
        /\ UNCHANGED <<present, faulty>>
     \/ /\ ~rs.started
        /\ \E e \in {"CRC", "TIMEOUT"} :
             /\ line.mode # "tran" => e = "TIMEOUT"
             /\ io' = [io EXCEPT !.pc = "recover", !.e = e]
        /\ rs' = [rs EXCEPT !.started = TRUE] /\ faulty' = TRUE
        /\ present' = (line.mode # "gone")                 \* sd_fail
        /\ line' \in IF line.mode = "tran" THEN {line, Sending(rs)} ELSE {line}
  /\ UNCHANGED <<rret, slow>>

(* Every block of the chunk is in memory and its CRC was good. *)
ChunkRead ==
  /\ io.pc = "dma" /\ line.mode \in {"data", "one"}
  /\ Store(io.buf, io.at, [i \in 1..io.cnt |-> Block(line.at + i - 1)])
  /\ line' = IF line.mode = "one" THEN Quiet ELSE [line EXCEPT !.at = @ + io.cnt]
  /\ rs' = [rs EXCEPT !.verified = io.before + io.cnt]
  /\ PushDone("OK")
  /\ UNCHANGED <<present, slow, faulty>>

(* The first k blocks were good. *)
ChunkFails ==
  /\ io.pc = "dma"
  /\ \E e \in {"CRC", "TIMEOUT"}, k \in 0..io.cnt - 1 :
       /\ line.mode \notin {"data", "one"} => k = 0
       /\ Store(io.buf, io.at, [i \in 1..k |-> Block(line.at + i - 1)])
       /\ line' = CASE line.mode = "one" -> Quiet
                    [] line.mode = "data" -> [line EXCEPT !.at = @ + k]
                    [] OTHER -> line
       /\ io' = [io EXCEPT !.pc = "recover", !.e = e]
  /\ faulty' = TRUE
  /\ UNCHANGED <<rs, rret, present, slow>>

(* sd_stream_abort_hw: CMD12 once a command went out. *)
AbortedRead == [rs EXCEPT !.open = FALSE, !.started = FALSE, !.pushed = rs.verified]
StopReading(when) ==
  IF when /\ line.mode \in {"data", "stuck"}
    THEN line' \in {Quiet, [mode |-> "stuck", at |-> 0]}   \* CMD12 may be lost
    ELSE UNCHANGED line

AbortRead ==
  /\ io.pc = "idle" /\ rs.open
  /\ StopReading(rs.started) /\ rs' = AbortedRead
  /\ UNCHANGED <<io, rret, present, slow, faulty, mem>>

(* sd_stream_recover: abort, then once more from the last verified block,   *)
(* slower from the second retry on.                                         *)
RecoverRead ==
  /\ io.pc = "recover"
  /\ StopReading(rs.started)
  /\ present' = (present /\ ~(io.e = "TIMEOUT" /\ line.mode = "gone"))
  /\ LET fatal == io.e # "CRC" \/ ~present \/ rs.attempts >= Retries
         steps == ~fatal /\ rs.attempts + 1 >= 2
     IN /\ slow' = IF steps /\ slow < MaxSlow THEN slow + 1 ELSE slow
        /\ IF fatal THEN PushDone(io.e) /\ rs' = AbortedRead
           ELSE IF steps /\ slow = MaxSlow THEN PushDone(io.e) /\ rs' = [AbortedRead EXCEPT !.attempts = @ + 1]
           ELSE /\ rs' = [Reopened(AbortedRead) EXCEPT !.attempts = @ + 1]
                /\ io' = [io EXCEPT !.pc = "loop"] /\ UNCHANGED rret
  /\ UNCHANGED <<faulty, mem>>

(* sd_stream_end of a read: CMD12 ends an open CMD18. *)
EndRead ==
  /\ io.pc = "idle" /\ rs.open
  /\ rs' = AbortedRead
  /\ IF rs.pushed # rs.total
       THEN rret' = "PARAM" /\ StopReading(rs.started) /\ UNCHANGED faulty
       ELSE \/ /\ rs.multi => line.mode # "gone"
               /\ line' = IF rs.multi THEN Quiet ELSE line
               /\ rret' = "OK" /\ UNCHANGED faulty
            \/ /\ rs.multi
               /\ StopReading(TRUE)
               /\ rret' = "TIMEOUT" /\ faulty' = TRUE
  /\ UNCHANGED <<io, present, slow, mem>>

(* The card is pulled. *)
PullCard ==
  /\ line.mode # "gone"
  /\ line' = [mode |-> "gone", at |-> 0]
  /\ UNCHANGED <<rs, io, rret, present, slow, faulty, mem>>

StreamStep == StartChunk \/ ChunkRead \/ ChunkFails \/ RecoverRead

(* A stream that is closed has told the card to stop: sd_sdio.h:95 "After   *)
(* an error the stream is closed", and an early exit of the caller closes   *)
(* it too. (A card whose CMD12 was lost is stuck: it sends for nobody.)     *)
StreamClosed == ~rs.open => ~rs.started /\ line.mode # "data"
=============================================================================
