--------------------------- MODULE SdWriteStream ---------------------------
(***************************************************************************)
(* The streamed multi-block write of the SD driver: one CMD25 (or CMD24)   *)
(* carries a whole transfer, the caller hands it over chunk by chunk, and  *)
(* rejected blocks are sent again from the last block the card is known to *)
(* have acknowledged.                                                      *)
(*                                                                         *)
(* Offsets and lengths count 512-byte blocks, addresses count sectors.     *)
(* Three parties take steps: the driver (one call at a time: begin, run,   *)
(* push, settle, end, abort), the data path (DPSM and DMA) with the card   *)
(* behind it, and the owner of the memory the chunks lie in, who may       *)
(* refill any buffer except the one pushed last.                           *)
(***************************************************************************)
EXTENDS Integers, FiniteSets

CONSTANTS
  NBlk,       (* sectors of the card                                       *)
  Buf,        (* the chunk buffers                                         *)
  NoBuf,      (* prev_buf = NULL                                           *)
  ChunkLen,   (* blocks in a buffer                                        *)
  Value,      (* what one block can hold                                   *)
  Blank,      (* what it held before: no caller knows or writes it         *)
  Pattern,    (* the buffer contents considered                            *)
  Retries,    (* sd_cfg.retries                                            *)
  MaxSlow     (* steps of the clock ladder left before its floor           *)

ASSUME SizeAssumption ==
  /\ NBlk \in Nat \ {0} /\ ChunkLen \in Nat \ {0}
  /\ Retries \in Nat /\ MaxSlow \in Nat
ASSUME DataAssumption ==
  /\ NoBuf \notin Buf /\ Blank \in Value
  /\ Pattern \subseteq [1..ChunkLen -> Value]

Sector == 0 .. NBlk - 1
Err    == {"CRC", "TIMEOUT", "BUSY", "PARAM", "DATA", "NOCARD"}
Ret    == Err \cup {"OK"}

VARIABLES
  st,       (* sd_stream_t                                                 *)
  call,     (* the call in progress: operation, place in it, arguments     *)
  ret,      (* what the last call returned                                 *)
  owned,    (* the caller believes its stream is open                      *)
  present,  (* sd_card.present                                             *)
  slow,     (* clock steps taken by sd_fallback_clock                      *)
  dpsm,     (* blocks of the stream acknowledged, and the error flag       *)
  wire,     (* what the DMA last read for each offset                      *)
  card,     (* mode of the card and the sector its next block goes to      *)
  disk,     (* contents of the card                                        *)
  mem,      (* contents of the buffers                                     *)
  want,     (* history: what the caller pushed for each offset             *)
  handed    (* history: blocks whose push returned success                 *)

result   == <<ret, owned>>
hardware == <<dpsm, wire, card, disk>>
memory   == <<mem, want, handed>>
vars     == <<st, call, result, present, slow, hardware, memory>>

NoCall == [op |-> "none", pc |-> "idle", buf |-> NoBuf, at |-> 0, cnt |-> 0, before |-> 0, e |-> "OK"]

Stream ==
  [open : BOOLEAN, started : BOOLEAN, multi : BOOLEAN,
   lba : 0..NBlk, total : 0..NBlk, pushed : 0..NBlk, verified : 0..NBlk, base : 0..NBlk,
   runEnd : 0..NBlk, hint : 0..NBlk, attempts : 0..Retries,
   prev : Buf \cup {NoBuf}, prevAt : 0..ChunkLen, prevOff : 0..NBlk, prevEnd : 0..NBlk]

Closed == [open |-> FALSE, started |-> FALSE, multi |-> FALSE,
           lba |-> 0, total |-> 0, pushed |-> 0, verified |-> 0, base |-> 0,
           runEnd |-> 0, hint |-> 0, attempts |-> 0,
           prev |-> NoBuf, prevAt |-> 0, prevOff |-> 0, prevEnd |-> 0]

Init ==
  /\ st = Closed /\ call = NoCall /\ ret = "OK" /\ owned = FALSE
  /\ present = TRUE /\ slow = 0
  /\ dpsm = [acked |-> 0, err |-> "none"]
  /\ card = [mode |-> "tran", at |-> 0]
  /\ mem \in [Buf -> Pattern]
  /\ disk = [s \in Sector |-> Blank]
  /\ wire = [o \in Sector |-> Blank]
  /\ want = [o \in Sector |-> Blank]
  /\ handed = 0

Smaller(a, b) == IF a < b THEN a ELSE b
Larger(a, b)  == IF a > b THEN a ELSE b

(* Faults of the bus and the card are possible at any time, without bound.  *)
(* A call returns e to its caller, which believes the stream open after a  *)
(* success of anything but end.                                            *)
Return(e) ==
  /\ call' = [NoCall EXCEPT !.op = call.op]
  /\ ret' = e
  /\ owned' = (e = "OK" /\ call.op # "end")

---------------------------------------------------------------------------
(* Opening: wait for the transfer state, then CMD25/CMD24 at the first     *)
(* block not verified.                                                     *)

Opened(s) == [s EXCEPT !.base = s.verified, !.pushed = s.verified,
                       !.started = FALSE, !.open = TRUE,
                       !.multi = s.total - s.verified > 1]
Listening(s) == [mode |-> IF s.total - s.verified > 1 THEN "rcv" ELSE "one", at |-> s.lba + s.verified]
NotOpened(s) == [Opened(s) EXCEPT !.open = FALSE]

(* CMD25 is accepted: the card takes blocks from here on. *)
OpenOk(s) ==
  /\ card.mode = "tran"
  /\ card' = Listening(s)
  /\ dpsm' = [acked |-> s.verified, err |-> "none"]
  /\ UNCHANGED present

(* No transfer state in time, CMD13 unanswered or its answer garbled, or   *)
(* CMD25 itself unanswered; in the last disjunct only the answer was lost  *)
(* and the card did open its write.  sd_fail asks whether a card answers.  *)
OpenFails(s, e) ==
  /\ UNCHANGED dpsm
  /\ \/ e = "BUSY" /\ card.mode \in {"rcv", "one"} /\ UNCHANGED <<card, present>>
     \/ e = "TIMEOUT" /\ card.mode = "gone" /\ present' = FALSE /\ UNCHANGED card
     \/ e \in {"BUSY", "CRC", "TIMEOUT"} /\ card.mode = "tran" /\ UNCHANGED <<card, present>>
     \/ /\ e \in {"CRC", "TIMEOUT"} /\ card.mode = "tran"
        /\ card' = Listening(s)
        /\ UNCHANGED present

---------------------------------------------------------------------------
(* sd_stream_begin: clears the stream, whatever it was. *)
Begin(lba, count) ==
  LET s == [Closed EXCEPT !.lba = lba, !.total = count]
      answer(e) == /\ ret' = e
                   /\ owned' = (e = "OK")
                   /\ call' = [NoCall EXCEPT !.op = "begin"]
  IN /\ call.pc = "idle" /\ ~owned
     /\ \/ /\ ~present
           /\ st' = Closed /\ answer("NOCARD")
           /\ UNCHANGED <<present, dpsm, card>>
        \/ /\ present /\ (count = 0 \/ lba + count > NBlk)
           /\ st' = Closed /\ answer("PARAM")
           /\ UNCHANGED <<present, dpsm, card>>
        \/ /\ present /\ count > 0 /\ lba + count <= NBlk
           /\ \/ OpenOk(s) /\ st' = Opened(s) /\ answer("OK")
              \/ \E e \in Err : OpenFails(s, e) /\ st' = NotOpened(s) /\ answer(e)
     /\ handed' = 0
     /\ wire' = [o \in Sector |-> Blank]
     /\ want' = [o \in Sector |-> Blank]
     /\ UNCHANGED <<slow, disk, mem>>

(* sd_stream_run: announces what the caller pushes before it settles. *)
Run(n) ==
  /\ call.pc = "idle" /\ owned
  /\ st' = [st EXCEPT !.hint = n]
  /\ UNCHANGED <<call, result, present, slow, hardware, memory>>

(* sd_stream_push: refuses a closed stream, a chunk beyond the transfer or *)
(* one that straddles the end of the run.                                  *)
PushRefused(cnt) ==
  \/ ~st.open
  \/ st.pushed + cnt > st.total
  \/ st.started /\ st.pushed < st.runEnd /\ st.pushed + cnt > st.runEnd

Push(buf, at, cnt) ==
  /\ call.pc = "idle" /\ owned
  /\ call' = [op |-> "push", pc |-> IF PushRefused(cnt) THEN "idle" ELSE "loop",
              buf |-> buf, at |-> at, cnt |-> cnt, before |-> st.pushed, e |-> "OK"]
  /\ IF PushRefused(cnt)
       THEN /\ ret' = IF st.open THEN "PARAM" ELSE "DATA"
            /\ owned' = FALSE
            /\ UNCHANGED want
       ELSE /\ want' = [o \in Sector |-> IF o \in st.pushed .. st.pushed + cnt - 1
                                         THEN mem[buf][at + 1 + o - st.pushed] ELSE want[o]]
            /\ UNCHANGED result
  /\ UNCHANGED <<st, present, slow, hardware, mem, handed>>

(* sd_stream_settle and sd_stream_end. *)
Settle ==
  /\ call.pc = "idle" /\ owned
  /\ call' = [NoCall EXCEPT !.op = "settle", !.pc = "loop"]
  /\ UNCHANGED <<st, result, present, slow, hardware, memory>>

End ==
  /\ call.pc = "idle" /\ owned
  /\ call' = [NoCall EXCEPT !.op = "end", !.pc = "loop"]
  /\ UNCHANGED <<st, result, present, slow, hardware, memory>>

---------------------------------------------------------------------------
(* sd_stream_abort_hw: stop the data path, CMD12 unless nothing is open at *)
(* the card, forget what was pushed but not verified.                      *)

NeedsStop(s) == s.started \/ s.multi \/ s.pushed = s.base
Aborted(s)   == IF s.open THEN [s EXCEPT !.open = FALSE, !.started = FALSE, !.pushed = s.verified]
                          ELSE s

AbortHw(why) ==
  /\ IF st.open /\ NeedsStop(st) /\ card.mode \in {"rcv", "one"}
       THEN \/ card' = [card EXCEPT !.mode = "tran"]
            \/ UNCHANGED card                                \* CMD12 lost
       ELSE UNCHANGED card
  /\ present' = IF st.open /\ why = "TIMEOUT" THEN present /\ card.mode # "gone" ELSE present
  /\ dpsm' = [dpsm EXCEPT !.err = "none"]

(* sd_stream_abort, on an early exit of the caller or after a failed settle *)
Abort ==
  /\ call.pc = "idle" /\ (owned \/ (call.op = "settle" /\ ret # "OK"))
  /\ AbortHw("OK")
  /\ st' = Aborted(st)
  /\ owned' = FALSE
  /\ call' = [NoCall EXCEPT !.op = "abort"]
  /\ UNCHANGED <<ret, slow, wire, disk, memory>>

---------------------------------------------------------------------------
(* sd_stream_push_write: start the DMA for n blocks at (buf, at); the first *)
(* one of a run fixes the length of the run.                               *)

RunLength(s, n) ==
  LET left == IF s.runEnd > s.pushed THEN s.runEnd - s.pushed
              ELSE IF s.hint > 0 THEN Smaller(s.hint, s.total - s.pushed)
              ELSE s.total - s.pushed
  IN Larger(left, n)

Sending(s, n) ==
  IF s.started THEN [s EXCEPT !.pushed = s.pushed + n]
  ELSE [s EXCEPT !.pushed = s.pushed + n, !.started = TRUE,
                 !.runEnd = s.pushed + RunLength(s, n), !.hint = 0]

Fetch(buf, at, from, n) ==
  wire' = [o \in Sector |-> IF o \in from .. from + n - 1 THEN mem[buf][at + 1 + o - from] ELSE wire[o]]

(* Continuing an open CMD25 after a settled run asks CMD13 first. *)
AsksReady(s) == ~s.started /\ s.pushed > s.base

(* The loops inside push, settle and end: what the call does next. *)
RunComplete == st.started /\ st.pushed >= st.runEnd

LoopCollect ==
  /\ call.pc = "loop" /\ RunComplete
  /\ call' = [call EXCEPT !.pc = "finish"]
  /\ UNCHANGED <<st, result, present, slow, hardware, memory>>

LoopPush ==
  LET skip == st.pushed - call.before
      n    == call.cnt - skip
  IN /\ call.pc = "loop" /\ call.op = "push" /\ ~RunComplete
     /\ \/ /\ AsksReady(st) => card.mode # "gone"
           /\ Fetch(call.buf, call.at + skip, st.pushed, n)
           /\ st' = Sending(st, n)
           /\ call' = [call EXCEPT !.pc = "dma"]

        \/ /\ AsksReady(st)
           /\ \E e \in {"CRC", "TIMEOUT"} :
                /\ card.mode = "gone" => e = "TIMEOUT"
                /\ call' = [call EXCEPT !.pc = "recover", !.e = e]
           /\ UNCHANGED <<st, wire>>
     /\ UNCHANGED <<result, present, slow, dpsm, card, disk, memory>>

(* settle or end with less pushed than the run announced: DATAEND can never *)
(* come, so the stream is aborted and the call refused.                     *)
LoopShort ==
  /\ call.pc = "loop" /\ call.op \in {"settle", "end"}
  /\ st.started /\ st.pushed < st.runEnd
  /\ AbortHw("OK")
  /\ st' = Aborted(st)
  /\ Return("PARAM")
  /\ UNCHANGED <<slow, wire, disk, memory>>

LoopSettled ==
  /\ call.pc = "loop" /\ call.op = "settle" /\ ~st.started
  /\ Return("OK")
  /\ UNCHANGED <<st, present, slow, hardware, memory>>

(* sd_stop_after_write and the programming wait. A CMD12 the card never saw *)
(* leaves it receiving; one whose answer came late counts as done.          *)
Stopped == [st EXCEPT !.open = FALSE, !.verified = st.pushed]

StopsAnyRun == TRUE                                        \* mutant of MayStop
MayStop     == ~st.started

LoopStop ==
  /\ call.pc = "loop" /\ call.op = "end" /\ MayStop
  /\ \/ /\ card.mode # "gone"
        /\ card' = IF st.multi THEN [card EXCEPT !.mode = "tran"] ELSE card
        /\ st' = Stopped
        /\ \/ Return("OK")
           \/ \E e \in {"BUSY", "CRC", "TIMEOUT"} : Return(e)
        /\ UNCHANGED present
     \/ /\ card.mode # "gone" /\ st.multi
        /\ st' = [st EXCEPT !.open = FALSE]
        /\ Return("TIMEOUT")
        /\ UNCHANGED <<card, present>>
     \/ /\ card.mode = "gone"
        /\ st' = IF st.multi THEN [st EXCEPT !.open = FALSE] ELSE Stopped
        /\ present' = (present /\ st.multi)
        /\ Return("TIMEOUT")
        /\ UNCHANGED card
  /\ UNCHANGED <<slow, dpsm, wire, disk, memory>>

---------------------------------------------------------------------------
(* sd_stream_wait_dma. The FIFO is smaller than a block, so the DMA is done *)
(* only when every block but the last pushed has been acknowledged.         *)

DmaDone == dpsm.err = "none" /\ dpsm.acked >= st.pushed - 1

FirstChunkHeld(s) ==                                       \* mutant of ChunkHeld
  IF s.prev # NoBuf THEN [s EXCEPT !.verified = Larger(s.verified, call.before)]
  ELSE [s EXCEPT !.verified = Larger(s.verified, call.before),
                 !.prev = call.buf, !.prevAt = call.at,
                 !.prevOff = call.before, !.prevEnd = call.before + call.cnt]
ChunkHeld(s) ==
  [s EXCEPT !.verified = Larger(s.verified, call.before),
            !.prev = call.buf, !.prevAt = call.at,
            !.prevOff = call.before, !.prevEnd = call.before + call.cnt]

ChunkIn ==
  /\ call.pc = "dma" /\ DmaDone
  /\ st' = ChunkHeld(st)
  /\ handed' = call.before + call.cnt
  /\ Return("OK")
  /\ UNCHANGED <<present, slow, hardware, mem, want>>

TailIn ==
  /\ call.pc = "tail" /\ DmaDone
  /\ call' = [call EXCEPT !.pc = "loop"]
  /\ UNCHANGED <<st, result, present, slow, hardware, memory>>

(* sd_stream_note_write_failure: DCOUNT tells how far the data path got.    *)
(* Half counts the resolution kept of a byte count within a block: none of  *)
(* the block in flight sent, part of it, or all of it and then rejected.    *)
Half == 2
InFlight == {Half * dpsm.acked + k : k \in 0..Half}
AckUpTo(done) == done \div Half                            \* mutant of AckOf
AckOf(done) == IF done > 0 THEN (done - 1) \div Half ELSE 0
NoteFailure(s, done) ==
  IF s.started THEN [s EXCEPT !.verified = Larger(s.verified, Smaller(AckOf(done), s.pushed))] ELSE s

(* A data error while the DMA or the end of the run is awaited. The tail of *)
(* a recovery is sent outside the loop: its error goes to the caller.       *)
DataError ==
  /\ call.pc \in {"dma", "tail", "finish"} /\ dpsm.err # "none"
  /\ \E done \in InFlight : st' = NoteFailure(st, done)
  /\ IF call.pc = "tail"
       THEN Return(dpsm.err)
       ELSE call' = [call EXCEPT !.pc = "recover", !.e = dpsm.err] /\ UNCHANGED result
  /\ UNCHANGED <<present, slow, hardware, memory>>

(* sd_stream_run_finish: DATAEND after the last block of the run. *)
RunFinish ==
  /\ call.pc = "finish" /\ dpsm.err = "none" /\ dpsm.acked >= st.runEnd
  /\ st' = [st EXCEPT !.started = FALSE, !.verified = st.pushed, !.prev = NoBuf]
  /\ call' = [call EXCEPT !.pc = "loop"]
  /\ UNCHANGED <<result, present, slow, hardware, memory>>

---------------------------------------------------------------------------
(* sd_stream_recover: abort, decide whether to retry, reopen, send again    *)
(* what is not verified of the previous chunk.                              *)

Retryable(e) == e \in {"CRC", "DATA"}

SameAttempts(s) == s.attempts                              \* mutant of NextAttempt
NextAttempt(s)  == s.attempts + 1

Recover ==
  /\ call.pc = "recover"
  /\ AbortHw(call.e)
  /\ LET retry    == Retryable(call.e) /\ present' /\ st.attempts < Retries
         lower    == retry /\ NextAttempt(st) >= 2
         fallback == lower /\ slow < MaxSlow
     IN /\ slow' = IF fallback THEN slow + 1 ELSE slow
        /\ st' = [Aborted(st) EXCEPT !.attempts = IF retry THEN NextAttempt(st) ELSE st.attempts]
        /\ IF retry /\ (lower => fallback)
             THEN call' = [call EXCEPT !.pc = "reopen"] /\ UNCHANGED result
             ELSE Return(call.e)
  /\ UNCHANGED <<wire, disk, memory>>

TailFromStart(s) == s.prevAt                               \* mutant of TailFrom
NoTail(s)   == FALSE                                       \* mutant of HasTail
TailFrom(s) == s.prevAt + s.verified - s.prevOff
HasTail(s)  == s.prev # NoBuf /\ s.verified < s.prevEnd

Reopen ==
  /\ call.pc = "reopen"
  /\ \/ /\ OpenOk(st)
        /\ LET s == Opened(st)
           IN IF HasTail(s)
                THEN /\ Fetch(s.prev, TailFrom(s), s.pushed, s.prevEnd - s.verified)
                     /\ st' = Sending(s, s.prevEnd - s.verified)
                     /\ call' = [call EXCEPT !.pc = "tail"]
                ELSE st' = s /\ call' = [call EXCEPT !.pc = "loop"] /\ UNCHANGED wire
        /\ UNCHANGED result
     \/ /\ \E e \in Err : OpenFails(st, e) /\ Return(e)
        /\ st' = NotOpened(st)
        /\ UNCHANGED wire
  /\ UNCHANGED <<slow, disk, memory>>

---------------------------------------------------------------------------
(* The data path and the card. *)

Receiving == card.mode \in {"rcv", "one"}

CardTakes ==
  /\ st.started /\ dpsm.err = "none" /\ dpsm.acked < st.pushed /\ Receiving
  /\ disk' = [disk EXCEPT ![card.at] = wire[dpsm.acked]]
  /\ dpsm' = [dpsm EXCEPT !.acked = @ + 1]
  /\ card' = [mode |-> IF card.mode = "one" THEN "tran" ELSE "rcv", at |-> card.at + 1]
  /\ UNCHANGED <<st, call, result, present, slow, wire, memory>>

CardRejects ==
  /\ st.started /\ dpsm.err = "none" /\ dpsm.acked < st.pushed /\ Receiving
  /\ \E e \in {"CRC", "DATA", "TIMEOUT"} :
       /\ dpsm' = [dpsm EXCEPT !.err = e]
       /\ card' = IF card.mode = "one" /\ e = "CRC" THEN [card EXCEPT !.mode = "tran"] ELSE card
  /\ UNCHANGED <<st, call, result, present, slow, wire, disk, memory>>

(* No answer from a card that is gone, or from one that was never told to   *)
(* receive: the data timer expires.                                         *)
DataTimer ==
  /\ st.started /\ dpsm.err = "none" /\ dpsm.acked < st.pushed /\ ~Receiving
  /\ dpsm' = [dpsm EXCEPT !.err = "TIMEOUT"]
  /\ UNCHANGED <<st, call, result, present, slow, wire, card, disk, memory>>

CardPulled ==
  /\ card.mode # "gone"
  /\ card' = [card EXCEPT !.mode = "gone"]
  /\ UNCHANGED <<st, call, result, present, slow, dpsm, wire, disk, memory>>

(* The owner of the buffers may refill any but the one pushed last, and     *)
(* none while a call is in progress on it.                                  *)
Busy(b) == (call.op = "push" /\ call.buf = b /\ call.pc # "idle")
           \/ (owned /\ st.prev = b)

Refill ==
  /\ \E b \in Buf, p \in Pattern : ~Busy(b) /\ mem' = [mem EXCEPT ![b] = p] /\ mem' # mem
  /\ UNCHANGED <<st, call, result, present, slow, hardware, want, handed>>

---------------------------------------------------------------------------
Caller ==
  \/ \E lba \in Sector, count \in 0..NBlk : Begin(lba, count)
  \/ \E n \in 0..NBlk : Run(n)
  \/ \E b \in Buf, at \in 0..ChunkLen - 1 : \E cnt \in 1..ChunkLen - at : Push(b, at, cnt)
  \/ Settle \/ End \/ Abort

Step ==
  \/ LoopCollect \/ LoopPush \/ LoopShort \/ LoopSettled \/ LoopStop
  \/ ChunkIn \/ TailIn \/ DataError \/ RunFinish \/ Recover \/ Reopen

DataPath == CardTakes \/ CardRejects \/ DataTimer

Next == Caller \/ Step \/ DataPath \/ CardPulled \/ Refill

Spec == Init /\ [][Next]_vars

(* The main loop never stops polling, the data path has a hardware timer.   *)
Fairness == WF_vars(Step) /\ WF_vars(DataPath)
FairSpec == Spec /\ Fairness

---------------------------------------------------------------------------
TypeOK ==
  /\ st \in Stream /\ ret \in Ret /\ owned \in BOOLEAN /\ present \in BOOLEAN /\ slow \in 0..MaxSlow
  /\ call \in [op : {"none", "begin", "push", "settle", "end", "abort"},
               pc : {"idle", "loop", "dma", "tail", "finish", "recover", "reopen"},
               buf : Buf \cup {NoBuf}, at : 0..ChunkLen, cnt : 0..ChunkLen, before : 0..NBlk,
               e : Ret]
  /\ dpsm \in [acked : 0..NBlk, err : {"none", "CRC", "DATA", "TIMEOUT"}]
  /\ card \in [mode : {"tran", "rcv", "one", "gone"}, at : 0..NBlk]
  /\ disk \in [Sector -> Value] /\ wire \in [Sector -> Value] /\ want \in [Sector -> Value]
  /\ mem \in [Buf -> Pattern] /\ handed \in 0..NBlk

(* Whatever the stream counts as verified is on the card, in the right      *)
(* sector, with the data the caller meant: sd_stream_note_write_failure may *)
(* only count blocks the card acknowledged, recovery may not shift offsets. *)
VerifiedOnCard == \A o \in 0 .. st.verified - 1 : disk[st.lba + o] = want[o]

(* settle and end succeed only when every block of every successful push is *)
(* on the card: the write command then reports GOOD to the host.            *)
SettledOnCard ==
  call.pc = "idle" /\ call.op \in {"settle", "end"} /\ ret = "OK" =>
    /\ st.verified = handed
    /\ \A o \in 0 .. handed - 1 : disk[st.lba + o] = want[o]

(* Between calls the driver can always send again what the card has not     *)
(* acknowledged: it lies in the chunk pushed last, and the contents of that *)
(* buffer are still those pushed.                                           *)
ResendCovered ==
  call.pc = "idle" /\ owned /\ dpsm.acked < handed =>
    /\ st.prev # NoBuf /\ st.prevOff <= st.verified /\ st.prevEnd = handed
    /\ \A o \in st.prevOff .. handed - 1 : mem[st.prev][st.prevAt + 1 + o - st.prevOff] = want[o]

(* A block the card programs is one the caller pushed, at its place: no     *)
(* neighbouring sector, no stale offset, no content of a refilled buffer.   *)
CardGetsOnlyPushed ==
  [][\A s \in Sector : disk'[s] # disk[s] =>
       /\ s >= st.lba /\ s - st.lba < handed + (IF call.op = "push" THEN call.cnt ELSE 0)
       /\ disk'[s] = want[s - st.lba]]_disk

(* The stop command of end never cuts off data the card has not taken: the  *)
(* run in progress is complete, or the call is refused.                     *)
NoSilentStop ==
  [][call.pc = "loop" /\ call.pc' = "idle" /\ ret' = "OK" => dpsm.acked = st.pushed]_vars

(* Every call returns, whatever fails and however often: the retries are    *)
(* bounded per stream.                                                      *)
CallsReturn == (call.pc # "idle") ~> (call.pc = "idle")

(* sd_sdio.h:95 "After an error the stream is closed" (the refusal of a     *)
(* call with wrong arguments apart).                                        *)
ErrorCloses ==
  call.pc = "idle" /\ call.op \in {"push", "settle", "end"} /\ ret \notin {"OK", "PARAM"} => ~st.open
=============================================================================
