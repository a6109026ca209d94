------------------------ MODULE SdWriteStreamProofs ------------------------
(***************************************************************************)
(* The safety of the streamed write for every card size, chunk length,     *)
(* number of buffers, retry limit and block contents: what the driver      *)
(* counts as verified, and what settle and end report as done, is on the   *)
(* card, and whatever the card has not acknowledged can be sent again.     *)
(***************************************************************************)
EXTENDS SdWriteStream, TLAPS

---------------------------------------------------------------------------
(* The inductive invariant, one idea per conjunct.                         *)

(* The counters of the stream are ordered; without a run in progress        *)
(* nothing pushed is unverified.                                            *)
Ordered ==
  /\ st.verified <= st.pushed /\ st.pushed <= st.total /\ st.lba + st.total <= NBlk
  /\ st.runEnd <= st.total
  /\ st.started => st.open /\ st.pushed <= st.runEnd
  /\ ~st.started => st.pushed = st.verified

(* The data path runs between verified and pushed, and a card that listens  *)
(* expects the block the data path sends next.                              *)
InStep ==
  st.open =>
    /\ st.verified <= dpsm.acked /\ dpsm.acked <= st.pushed
    /\ ~st.started => dpsm.acked = st.pushed
    /\ dpsm.err # "none" => dpsm.acked < st.pushed
    /\ Receiving => card.at = st.lba + dpsm.acked

(* What was acknowledged is on the card as meant, and so is what the DMA    *)
(* has read and the card has not taken yet.                                 *)
AckedOnCard == st.open => \A o \in 0 .. dpsm.acked - 1 : disk[st.lba + o] = want[o]
FetchedRight == st.started => \A o \in dpsm.acked .. st.pushed - 1 : wire[o] = want[o]

(* The chunk held back for a recovery ends where the successful pushes end, *)
(* and its buffer still holds what was pushed.                              *)
Held ==
  /\ st.prev = NoBuf => handed <= st.verified
  /\ st.prev # NoBuf =>
       /\ st.prevOff <= st.verified /\ st.prevOff <= st.prevEnd /\ st.prevEnd = handed
       /\ st.prevAt + (st.prevEnd - st.prevOff) <= ChunkLen
       /\ st.prevEnd <= st.runEnd
       /\ owned => \A o \in st.prevOff .. st.prevEnd - 1 : mem[st.prev][st.prevAt + 1 + o - st.prevOff] = want[o]

(* A push in progress: its chunk is within the transfer, its buffer not     *)
(* refilled, and it does not straddle the end of a run.                     *)
PushGoing ==
  call.op = "push" /\ call.pc # "idle" =>
    /\ call.buf \in Buf /\ call.cnt >= 1 /\ call.at + call.cnt <= ChunkLen
    /\ call.before + call.cnt <= st.total /\ call.before = handed
    /\ st.runEnd >= call.before + call.cnt \/ st.runEnd <= call.before
    /\ \A o \in call.before .. call.before + call.cnt - 1 : want[o] = mem[call.buf][call.at + 1 + o - call.before]
    /\ st.verified < call.before + call.cnt

(* Where the call is tells what is open, started and pushed.                *)
Limit == IF call.op = "push" THEN call.before + call.cnt ELSE handed
Progress ==
  /\ call.pc # "idle" => owned /\ call.op \in {"push", "settle", "end"}
  /\ call.pc = "idle" /\ owned => st.open /\ st.pushed = handed /\ (~st.started => st.runEnd <= st.pushed)
  /\ call.pc = "loop" => /\ st.open /\ handed <= st.pushed
                         /\ st.started \/ call.op # "push" => st.pushed = handed
                         /\ call.op = "push" => st.pushed < call.before + call.cnt
                         /\ ~st.started /\ call.op # "push" => st.runEnd <= st.pushed
  /\ call.pc = "dma" => call.op = "push" /\ st.started /\ st.pushed = call.before + call.cnt
  /\ call.pc = "finish" => st.started /\ st.pushed = handed /\ st.pushed = st.runEnd
  /\ call.pc = "tail" => st.started /\ st.pushed = handed
  /\ call.pc = "recover" => st.open /\ st.pushed <= Limit /\ call.e # "OK"
  /\ call.pc = "reopen" => ~st.open /\ st.pushed <= Limit
  /\ call.pc \in {"recover", "reopen"} /\ call.op # "push" => st.prev # NoBuf /\ st.verified < handed

SettledAll == call.pc = "idle" /\ call.op \in {"settle", "end"} /\ ret = "OK" => st.verified = handed

IInv ==
  /\ TypeOK /\ Ordered /\ InStep /\ AckedOnCard /\ FetchedRight /\ VerifiedOnCard
  /\ Held /\ PushGoing /\ Progress /\ SettledAll

---------------------------------------------------------------------------
(* Types, once for all: the fields of a stream, and what the helpers return. *)

LEMMA Sizes == NBlk \in Nat /\ NBlk > 0 /\ ChunkLen \in Nat /\ ChunkLen > 0 /\ Retries \in Nat /\ MaxSlow \in Nat
BY SizeAssumption

LEMMA StreamFields ==
  ASSUME NEW s \in Stream
  PROVE  /\ s.open \in BOOLEAN /\ s.started \in BOOLEAN /\ s.multi \in BOOLEAN
         /\ s.lba \in 0..NBlk /\ s.total \in 0..NBlk /\ s.pushed \in 0..NBlk /\ s.verified \in 0..NBlk
         /\ s.base \in 0..NBlk /\ s.runEnd \in 0..NBlk /\ s.hint \in 0..NBlk /\ s.attempts \in 0..Retries
         /\ s.prev \in Buf \cup {NoBuf} /\ s.prevAt \in 0..ChunkLen
         /\ s.prevOff \in 0..NBlk /\ s.prevEnd \in 0..NBlk
BY DEF Stream

LEMMA OpenedStream ==
  ASSUME NEW s \in Stream
  PROVE  /\ Opened(s) \in Stream /\ NotOpened(s) \in Stream
         /\ Opened(s).open /\ ~NotOpened(s).open
         /\ \A r \in {Opened(s), NotOpened(s)} :
              /\ ~r.started /\ r.pushed = s.verified /\ r.verified = s.verified
              /\ r.lba = s.lba /\ r.total = s.total /\ r.runEnd = s.runEnd /\ r.hint = s.hint
              /\ r.prev = s.prev /\ r.prevAt = s.prevAt /\ r.prevOff = s.prevOff /\ r.prevEnd = s.prevEnd
<1> DEFINE m == s.total - s.verified > 1
<1>1. m \in BOOLEAN
  OBVIOUS
<1>2. Opened(s) = [s EXCEPT !.base = s.verified, !.pushed = s.verified, !.started = FALSE, !.open = TRUE,
                            !.multi = m]
  BY DEF Opened
<1>3. NotOpened(s) = [s EXCEPT !.base = s.verified, !.pushed = s.verified, !.started = FALSE, !.open = FALSE,
                               !.multi = m]
  BY DEF NotOpened, Opened, Stream
<1> HIDE DEF m
<1> DEFINE Reset(r) ==
              /\ r \in Stream
              /\ ~r.started /\ r.pushed = s.verified /\ r.verified = s.verified
              /\ r.lba = s.lba /\ r.total = s.total /\ r.runEnd = s.runEnd /\ r.hint = s.hint
              /\ r.prev = s.prev /\ r.prevAt = s.prevAt /\ r.prevOff = s.prevOff /\ r.prevEnd = s.prevEnd
<1>4. Reset(Opened(s)) /\ Opened(s).open
  BY <1>1, <1>2 DEF Stream
<1>5. Reset(NotOpened(s)) /\ ~NotOpened(s).open
  BY <1>1, <1>3 DEF Stream
<1> QED BY <1>4, <1>5

LEMMA AbortedStream ==
  ASSUME NEW s \in Stream, ~s.started => s.pushed = s.verified, s.started => s.open
  PROVE  /\ Aborted(s) \in Stream /\ ~Aborted(s).open /\ ~Aborted(s).started
         /\ Aborted(s).pushed = s.verified /\ Aborted(s).verified = s.verified
         /\ Aborted(s).lba = s.lba /\ Aborted(s).total = s.total
         /\ Aborted(s).runEnd = s.runEnd /\ Aborted(s).hint = s.hint /\ Aborted(s).attempts = s.attempts
         /\ Aborted(s).prev = s.prev /\ Aborted(s).prevAt = s.prevAt
         /\ Aborted(s).prevOff = s.prevOff /\ Aborted(s).prevEnd = s.prevEnd
BY DEF Aborted, Stream

(* A run never starts shorter than its first chunk nor longer than the     *)
(* transfer, and one that goes on keeps its end.                           *)
LEMMA RunLengthBounds ==
  ASSUME NEW s \in Stream, NEW n \in Nat, s.pushed + n <= s.total, s.runEnd <= s.total
  PROVE  /\ RunLength(s, n) \in Nat /\ RunLength(s, n) >= n /\ s.pushed + RunLength(s, n) <= s.total
         /\ s.pushed + RunLength(s, n) >= s.runEnd
         /\ s.runEnd >= s.pushed + n /\ s.runEnd > s.pushed => s.pushed + RunLength(s, n) = s.runEnd
<1>1. /\ s.total \in Nat /\ s.pushed \in Nat /\ s.hint \in Nat /\ s.runEnd \in Nat
  BY Sizes, StreamFields
<1> QED BY <1>1 DEF RunLength, Smaller, Larger

LEMMA SendingStream ==
  ASSUME NEW s \in Stream, NEW n \in Nat, s.pushed + n <= s.total, s.runEnd <= s.total
  PROVE  /\ Sending(s, n) \in Stream /\ Sending(s, n).started
         /\ Sending(s, n).pushed = s.pushed + n
         /\ Sending(s, n).runEnd = IF s.started THEN s.runEnd ELSE s.pushed + RunLength(s, n)
         /\ Sending(s, n).open = s.open /\ Sending(s, n).verified = s.verified
         /\ Sending(s, n).lba = s.lba /\ Sending(s, n).total = s.total
         /\ Sending(s, n).prev = s.prev /\ Sending(s, n).prevAt = s.prevAt
         /\ Sending(s, n).prevOff = s.prevOff /\ Sending(s, n).prevEnd = s.prevEnd
<1>1. /\ s.total \in 0..NBlk /\ s.pushed \in 0..NBlk /\ NBlk \in Nat
  BY Sizes, StreamFields
<1>2. s.pushed + RunLength(s, n) \in 0..NBlk /\ s.pushed + n \in 0..NBlk
  BY <1>1, RunLengthBounds
<1> DEFINE r == s.pushed + RunLength(s, n)
           m == s.pushed + n
<1>3. r \in 0..NBlk /\ m \in 0..NBlk
  BY <1>2
<1>4. Sending(s, n) = IF s.started THEN [s EXCEPT !.pushed = m]
                      ELSE [s EXCEPT !.pushed = m, !.started = TRUE, !.runEnd = r, !.hint = 0]
  BY DEF Sending
<1>5. 0 \in 0..NBlk
  BY Sizes
<1> HIDE DEF r, m
<1>6. CASE s.started
  <2>1. Sending(s, n) = [s EXCEPT !.pushed = m]
    BY <1>4, <1>6
  <2> QED BY <1>3, <1>6, <2>1 DEF Stream, m
<1>7. CASE ~s.started
  <2>1. Sending(s, n) = [s EXCEPT !.pushed = m, !.started = TRUE, !.runEnd = r, !.hint = 0]
    BY <1>4, <1>7
  <2> QED BY <1>3, <1>5, <1>7, <2>1 DEF Stream, m, r
<1> QED BY <1>6, <1>7

(* A failure counts what was acknowledged before and no more than the data  *)
(* path saw acknowledged.                                                   *)
LEMMA NoteFailureStream ==
  ASSUME NEW s \in Stream, NEW a \in Nat, s.started => s.verified <= a /\ a < s.pushed,
         NEW done \in {Half * a + k : k \in 0..Half}
  PROVE  /\ NoteFailure(s, done) \in Stream
         /\ NoteFailure(s, done) = [s EXCEPT !.verified = NoteFailure(s, done).verified]
         /\ s.verified <= NoteFailure(s, done).verified
         /\ s.started => NoteFailure(s, done).verified <= a
         /\ ~s.started => NoteFailure(s, done) = s
<1>1. AckOf(done) \in Nat /\ AckOf(done) <= a
  BY DEF AckOf, Half
<1>2. s.verified \in 0..NBlk /\ s.pushed \in 0..NBlk /\ NBlk \in Nat
  BY Sizes, StreamFields
<1> DEFINE v == Larger(s.verified, Smaller(AckOf(done), s.pushed))
<1>3. v \in 0..NBlk /\ s.verified <= v /\ (s.started => v <= a)
  BY <1>1, <1>2 DEF Larger, Smaller
<1>4. NoteFailure(s, done) = IF s.started THEN [s EXCEPT !.verified = v] ELSE s
  BY DEF NoteFailure
<1> HIDE DEF v
<1> QED BY <1>2, <1>3, <1>4 DEF Stream

---------------------------------------------------------------------------
(* What the steps have in common. *)

LEMMA Typed ==
  ASSUME TypeOK
  PROVE  /\ NBlk \in Nat /\ ChunkLen \in Nat /\ Retries \in Nat /\ MaxSlow \in Nat
         /\ st \in Stream /\ st.open \in BOOLEAN /\ st.started \in BOOLEAN
         /\ st.lba \in Nat /\ st.total \in Nat /\ st.pushed \in Nat /\ st.verified \in Nat
         /\ st.runEnd \in Nat /\ st.prevAt \in Nat /\ st.prevOff \in Nat /\ st.prevEnd \in Nat
         /\ st.prev \in Buf \cup {NoBuf} /\ st.attempts \in 0..Retries
         /\ call.op \in {"none", "begin", "push", "settle", "end", "abort"}
         /\ call.pc \in {"idle", "loop", "dma", "tail", "finish", "recover", "reopen"}
         /\ call.e \in Ret
         /\ call.buf \in Buf \cup {NoBuf} /\ call.at \in Nat /\ call.cnt \in Nat /\ call.before \in Nat
         /\ dpsm.acked \in Nat /\ dpsm.err \in {"none", "CRC", "DATA", "TIMEOUT"}
         /\ card.mode \in {"tran", "rcv", "one", "gone"} /\ card.at \in 0..NBlk
         /\ handed \in Nat /\ owned \in BOOLEAN /\ present \in BOOLEAN
BY Sizes, StreamFields DEF TypeOK

(* A step that moves neither the stream nor the data. *)
LEMMA StreamFrame ==
  ASSUME IInv, UNCHANGED <<st, dpsm, card, disk, wire, want>>
  PROVE  Ordered' /\ InStep' /\ AckedOnCard' /\ FetchedRight' /\ VerifiedOnCard'
BY DEF IInv, Ordered, InStep, AckedOnCard, FetchedRight, VerifiedOnCard, Receiving

(* A step that leaves the stream closed keeps what was verified.            *)
LEMMA ClosedFrame ==
  ASSUME IInv, UNCHANGED <<disk, want>>,
         ~st'.open, ~st'.started, st'.pushed = st.verified, st'.verified = st.verified,
         st'.lba = st.lba, st'.total = st.total, st'.runEnd = st.runEnd
  PROVE  Ordered' /\ InStep' /\ AckedOnCard' /\ FetchedRight' /\ VerifiedOnCard'
<1>1. st.verified \in Nat /\ st.pushed \in Nat /\ st.total \in Nat
  BY Typed DEF IInv
<1> QED BY <1>1 DEF IInv, Ordered, InStep, AckedOnCard, FetchedRight, VerifiedOnCard

(* A stream that holds the same chunk back, after a step that touches no    *)
(* buffer and loses nothing verified.                                       *)
LEMMA HeldFrame ==
  ASSUME IInv, UNCHANGED <<mem, handed>>, owned' => owned,
         st'.verified \in Nat, st.verified <= st'.verified,
         st'.prev = st.prev, st'.prevAt = st.prevAt, st'.prevOff = st.prevOff, st'.prevEnd = st.prevEnd,
         st'.runEnd \in Nat, st.runEnd <= st'.runEnd,
         \A o \in 0 .. handed - 1 : want'[o] = want[o]
  PROVE  Held'
<1>1. /\ st.verified \in Nat /\ st.runEnd \in Nat /\ st.prevAt \in Nat /\ st.prevOff \in Nat /\ st.prevEnd \in Nat
      /\ handed \in Nat
  BY Typed DEF IInv
<1>2. CASE st.prev = NoBuf
  BY <1>1, <1>2 DEF IInv, Held
<1>3. CASE st.prev # NoBuf
  <2>1. /\ st.prevOff <= st.verified /\ st.prevOff <= st.prevEnd /\ st.prevEnd = handed
        /\ st.prevAt + (st.prevEnd - st.prevOff) <= ChunkLen /\ st.prevEnd <= st.runEnd
        /\ owned => \A o \in st.prevOff .. st.prevEnd - 1 : mem[st.prev][st.prevAt + 1 + o - st.prevOff] = want[o]
    BY <1>3 DEF IInv, Held
  <2>2. ASSUME owned', NEW o \in st.prevOff .. st.prevEnd - 1
        PROVE  mem[st.prev][st.prevAt + 1 + o - st.prevOff] = want'[o]
    <3>1. o \in 0 .. handed - 1
      BY <1>1, <2>1
    <3> QED BY <2>1, <2>2, <3>1
  <2> QED BY <1>1, <1>3, <2>1, <2>2 DEF Held
<1> QED BY <1>2, <1>3

(* The outcomes of an attempt to open the write at the card. *)
LEMMA OpenOutcome ==
  ASSUME TypeOK, NEW s \in Stream, s.lba + s.verified <= NBlk,
         OpenOk(s) \/ \E e \in Err : OpenFails(s, e)
  PROVE  /\ dpsm' \in [acked : 0..NBlk, err : {"none", "CRC", "DATA", "TIMEOUT"}]
         /\ card' \in [mode : {"tran", "rcv", "one", "gone"}, at : 0..NBlk]
         /\ present' \in BOOLEAN
<1>1. Listening(s) \in [mode : {"tran", "rcv", "one", "gone"}, at : 0..NBlk]
  <2>1. s.lba + s.verified \in 0..NBlk
    BY Sizes, StreamFields
  <2> QED BY <2>1 DEF Listening
<1>2. CASE OpenOk(s)
  <2>1. s.verified \in 0..NBlk
    BY StreamFields
  <2> QED BY <1>1, <1>2, <2>1 DEF OpenOk, TypeOK
<1>3. CASE \E e \in Err : OpenFails(s, e)
  BY <1>1, <1>3 DEF OpenFails, TypeOK
<1> QED BY <1>2, <1>3

(* An abort touches the mode of the card, the error flag and card presence. *)
LEMMA AbortOutcome ==
  ASSUME TypeOK, NEW why, AbortHw(why)
  PROVE  /\ dpsm' \in [acked : 0..NBlk, err : {"none", "CRC", "DATA", "TIMEOUT"}]
         /\ card' \in [mode : {"tran", "rcv", "one", "gone"}, at : 0..NBlk]
         /\ present' \in BOOLEAN
<1>1. card' = card \/ card' = [card EXCEPT !.mode = "tran"]
  BY DEF AbortHw
<1>2. dpsm' = [dpsm EXCEPT !.err = "none"]
  BY DEF AbortHw
<1>3. present' \in BOOLEAN
  <2>1. (present /\ card.mode # "gone") \in BOOLEAN /\ present \in BOOLEAN
    BY DEF TypeOK
  <2> QED BY <2>1 DEF AbortHw
<1> QED BY <1>1, <1>2, <1>3 DEF TypeOK

CallType ==
  [op : {"none", "begin", "push", "settle", "end", "abort"},
   pc : {"idle", "loop", "dma", "tail", "finish", "recover", "reopen"},
   buf : Buf \cup {NoBuf}, at : 0..ChunkLen, cnt : 0..ChunkLen, before : 0..NBlk, e : Ret]

LEMMA NoCallFits == NoCall \in CallType /\ NoCall.pc = "idle"
<1>1. 0 \in 0..ChunkLen /\ 0 \in 0..NBlk /\ "OK" \in Ret
  BY Sizes DEF Ret
<1> QED BY <1>1 DEF NoCall, CallType

LEMMA NoCallType ==
  ASSUME NEW op \in {"none", "begin", "push", "settle", "end", "abort"}
  PROVE  /\ [NoCall EXCEPT !.op = op] \in CallType
         /\ [NoCall EXCEPT !.op = op].pc = "idle" /\ [NoCall EXCEPT !.op = op].op = op
BY NoCallFits DEF CallType

---------------------------------------------------------------------------
(* One lemma per step. *)

LEMMA RunInv ==
  ASSUME IInv, NEW n \in 0..NBlk, Run(n)
  PROVE  IInv'
<1>1. st' = [st EXCEPT !.hint = n] /\ UNCHANGED <<call, ret, owned, present, slow, dpsm, wire, card, disk, mem, want, handed>>
  BY DEF Run, result, hardware, memory
<1>2. /\ st' \in Stream
      /\ st'.open = st.open /\ st'.started = st.started /\ st'.lba = st.lba /\ st'.total = st.total
      /\ st'.pushed = st.pushed /\ st'.verified = st.verified /\ st'.runEnd = st.runEnd
      /\ st'.prev = st.prev /\ st'.prevAt = st.prevAt /\ st'.prevOff = st.prevOff /\ st'.prevEnd = st.prevEnd
  BY <1>1, Typed DEF IInv, Stream
<1>3. TypeOK'
  BY <1>1, <1>2 DEF IInv, TypeOK
<1>4. Ordered' /\ InStep' /\ AckedOnCard' /\ FetchedRight' /\ VerifiedOnCard'
  BY <1>1, <1>2 DEF IInv, Ordered, InStep, AckedOnCard, FetchedRight, VerifiedOnCard, Receiving
<1>5. Held' /\ PushGoing' /\ Progress' /\ SettledAll'
  BY <1>1, <1>2 DEF IInv, Held, PushGoing, Progress, SettledAll, Limit
<1> QED BY <1>3, <1>4, <1>5 DEF IInv

LEMMA SettleEndInv ==
  ASSUME IInv, Settle \/ End
  PROVE  IInv'
<1>1. /\ call.pc = "idle" /\ owned
      /\ \E op \in {"settle", "end"} : call' = [NoCall EXCEPT !.op = op, !.pc = "loop"]
      /\ UNCHANGED <<st, ret, owned, present, slow, dpsm, wire, card, disk, mem, want, handed>>
  BY DEF Settle, End, result, hardware, memory
<1>2. call' \in CallType /\ call'.pc = "loop" /\ call'.op \in {"settle", "end"}
  <2>1. PICK op \in {"settle", "end"} : call' = [NoCall EXCEPT !.op = op, !.pc = "loop"]
    BY <1>1
  <2> QED BY <2>1, NoCallFits DEF CallType
<1>3. TypeOK'
  BY <1>1, <1>2 DEF IInv, TypeOK, CallType
<1>4. Ordered' /\ InStep' /\ AckedOnCard' /\ FetchedRight' /\ VerifiedOnCard'
  BY <1>1, StreamFrame
<1>5. Held' /\ PushGoing' /\ SettledAll'
  BY <1>1, <1>2 DEF IInv, Held, PushGoing, SettledAll
<1>6. Progress'
  BY <1>1, <1>2, Typed DEF IInv, Progress, Limit
<1> QED BY <1>3, <1>4, <1>5, <1>6 DEF IInv

LEMMA LoopCollectInv ==
  ASSUME IInv, LoopCollect
  PROVE  IInv'
<1>1. /\ call.pc = "loop" /\ st.started /\ st.pushed >= st.runEnd
      /\ call' = [call EXCEPT !.pc = "finish"]
      /\ UNCHANGED <<st, ret, owned, present, slow, dpsm, wire, card, disk, mem, want, handed>>
  BY DEF LoopCollect, RunComplete, result, hardware, memory
<1>2. call' \in CallType /\ call'.pc = "finish" /\ call'.op = call.op /\ call'.buf = call.buf
      /\ call'.at = call.at /\ call'.cnt = call.cnt /\ call'.before = call.before
  BY <1>1 DEF IInv, TypeOK, CallType
<1>3. TypeOK'
  BY <1>1, <1>2 DEF IInv, TypeOK, CallType
<1>4. Ordered' /\ InStep' /\ AckedOnCard' /\ FetchedRight' /\ VerifiedOnCard'
  BY <1>1, StreamFrame
<1>5. Held' /\ SettledAll'
  BY <1>1, <1>2 DEF IInv, Held, SettledAll
<1>6. PushGoing'
  BY <1>1, <1>2 DEF IInv, PushGoing
<1>7. Progress'
  BY <1>1, <1>2, Typed DEF IInv, Progress, Ordered, Limit
<1> QED BY <1>3, <1>4, <1>5, <1>6, <1>7 DEF IInv

LEMMA LoopSettledInv ==
  ASSUME IInv, LoopSettled
  PROVE  IInv'
<1>1. /\ call.pc = "loop" /\ call.op = "settle" /\ ~st.started
      /\ call' = [NoCall EXCEPT !.op = "settle"] /\ ret' = "OK" /\ owned' = TRUE
      /\ UNCHANGED <<st, present, slow, dpsm, wire, card, disk, mem, want, handed>>
  BY DEF LoopSettled, Return, hardware, memory
<1>2. call' \in CallType /\ call'.pc = "idle" /\ call'.op = "settle"
  BY <1>1, NoCallType
<1>3. TypeOK'
  BY <1>1, <1>2 DEF IInv, TypeOK, CallType, Ret
<1>4. Ordered' /\ InStep' /\ AckedOnCard' /\ FetchedRight' /\ VerifiedOnCard'
  BY <1>1, StreamFrame
<1>5. owned
  BY <1>1 DEF IInv, Progress
<1>6. Held' /\ PushGoing'
  BY <1>1, <1>2, <1>5 DEF IInv, Held, PushGoing
<1>7. Progress' /\ SettledAll'
  BY <1>1, <1>2, Typed DEF IInv, Progress, Ordered, SettledAll, Limit
<1> QED BY <1>3, <1>4, <1>6, <1>7 DEF IInv

LEMMA TailInInv ==
  ASSUME IInv, TailIn
  PROVE  IInv'
<1>1. /\ call.pc = "tail"
      /\ call' = [call EXCEPT !.pc = "loop"]
      /\ UNCHANGED <<st, ret, owned, present, slow, dpsm, wire, card, disk, mem, want, handed>>
  BY DEF TailIn, result, hardware, memory
<1>2. call' \in CallType /\ call'.pc = "loop" /\ call'.op = call.op /\ call'.buf = call.buf
      /\ call'.at = call.at /\ call'.cnt = call.cnt /\ call'.before = call.before
  BY <1>1 DEF IInv, TypeOK, CallType
<1>3. TypeOK'
  BY <1>1, <1>2 DEF IInv, TypeOK, CallType
<1>4. Ordered' /\ InStep' /\ AckedOnCard' /\ FetchedRight' /\ VerifiedOnCard'
  BY <1>1, StreamFrame
<1>5. Held' /\ SettledAll'
  BY <1>1, <1>2 DEF IInv, Held, SettledAll
<1>6. PushGoing'
  BY <1>1, <1>2 DEF IInv, PushGoing
<1>7. Progress'
  BY <1>1, <1>2, Typed DEF IInv, Progress, Ordered, Limit, PushGoing
<1> QED BY <1>3, <1>4, <1>5, <1>6, <1>7 DEF IInv

(* The owner of the memory leaves the buffers alone that still matter.     *)
LEMMA RefillInv ==
  ASSUME IInv, Refill
  PROVE  IInv'
<1>1. PICK b \in Buf, p \in Pattern : ~Busy(b) /\ mem' = [mem EXCEPT ![b] = p]
  BY DEF Refill
<1>2. UNCHANGED <<st, call, ret, owned, present, slow, dpsm, wire, card, disk, want, handed>>
  BY DEF Refill, result, hardware
<1>3. TypeOK'
  <2>1. mem' \in [Buf -> Pattern]
    BY <1>1 DEF IInv, TypeOK
  <2> QED BY <1>2, <2>1 DEF IInv, TypeOK
<1>4. Ordered' /\ InStep' /\ AckedOnCard' /\ FetchedRight' /\ VerifiedOnCard'
  BY <1>2, StreamFrame
<1>5. \A c \in Buf : Busy(c) => mem'[c] = mem[c]
  BY <1>1 DEF IInv, TypeOK
<1>6. Held'
  <2>1. owned /\ st.prev # NoBuf => st.prev \in Buf /\ Busy(st.prev)
    BY Typed DEF IInv, Busy
  <2> QED BY <1>2, <1>5, <2>1 DEF IInv, Held
<1>7. PushGoing'
  <2>1. call.op = "push" /\ call.pc # "idle" => call.buf \in Buf /\ Busy(call.buf)
    BY DEF IInv, PushGoing, Busy
  <2> QED BY <1>2, <1>5, <2>1 DEF IInv, PushGoing
<1>8. Progress' /\ SettledAll'
  BY <1>2 DEF IInv, Progress, SettledAll, Limit
<1> QED BY <1>3, <1>4, <1>6, <1>7, <1>8 DEF IInv

(* Faults on the wire and the loss of the card. *)
LEMMA CardFaultInv ==
  ASSUME IInv, CardRejects \/ DataTimer \/ CardPulled
  PROVE  IInv'
<1>1. UNCHANGED <<st, call, ret, owned, present, slow, wire, disk, mem, want, handed>>
  BY DEF CardRejects, DataTimer, CardPulled, result, memory
<1>2. /\ card'.at = card.at /\ (card'.mode \in {"rcv", "one"} => Receiving)
      /\ card' \in [mode : {"tran", "rcv", "one", "gone"}, at : 0..NBlk]
  <2>1. \/ card' = card
        \/ card' = [card EXCEPT !.mode = "tran"]
        \/ card' = [card EXCEPT !.mode = "gone"]
    BY DEF CardRejects, DataTimer, CardPulled
  <2> QED BY <2>1 DEF IInv, TypeOK, Receiving
<1>3. /\ dpsm'.acked = dpsm.acked /\ (dpsm'.err # "none" => dpsm.err # "none" \/ dpsm.acked < st.pushed)
      /\ dpsm' \in [acked : 0..NBlk, err : {"none", "CRC", "DATA", "TIMEOUT"}]
  <2>1. \/ dpsm' = dpsm
        \/ dpsm.acked < st.pushed /\ \E e \in {"CRC", "DATA", "TIMEOUT"} : dpsm' = [dpsm EXCEPT !.err = e]
    BY DEF CardRejects, DataTimer, CardPulled
  <2> QED BY <2>1 DEF IInv, TypeOK
<1>4. TypeOK'
  BY <1>1, <1>2, <1>3 DEF IInv, TypeOK
<1>5. Ordered' /\ AckedOnCard' /\ FetchedRight' /\ VerifiedOnCard'
  BY <1>1, <1>3 DEF IInv, Ordered, AckedOnCard, FetchedRight, VerifiedOnCard
<1>6. InStep'
  BY <1>1, <1>2, <1>3 DEF IInv, InStep, Receiving
<1>7. Held' /\ PushGoing' /\ Progress' /\ SettledAll'
  BY <1>1 DEF IInv, Held, PushGoing, Progress, SettledAll, Limit
<1> QED BY <1>4, <1>5, <1>6, <1>7 DEF IInv

(* A block is acknowledged: it is the one the data path was to send next,   *)
(* it goes where that block belongs, and it holds what was pushed for it.   *)
LEMMA CardTakesInv ==
  ASSUME IInv, CardTakes
  PROVE  IInv' /\ card.at = st.lba + dpsm.acked /\ wire[dpsm.acked] = want[dpsm.acked]
         /\ dpsm.acked \in Sector /\ card.at \in Sector /\ dpsm.acked < st.pushed
<1>1. /\ st.started /\ st.open /\ dpsm.err = "none" /\ dpsm.acked < st.pushed /\ Receiving
      /\ disk' = [disk EXCEPT ![card.at] = wire[dpsm.acked]]
      /\ dpsm' = [dpsm EXCEPT !.acked = dpsm.acked + 1]
      /\ card' = [mode |-> IF card.mode = "one" THEN "tran" ELSE "rcv", at |-> card.at + 1]
      /\ UNCHANGED <<st, call, ret, owned, present, slow, wire, mem, want, handed>>
  BY DEF CardTakes, result, memory, IInv, Ordered
<1>2. /\ NBlk \in Nat /\ st.lba \in Nat /\ st.total \in Nat /\ st.pushed \in Nat /\ st.verified \in Nat
      /\ dpsm.acked \in Nat /\ disk \in [Sector -> Value] /\ wire \in [Sector -> Value]
      /\ dpsm.err \in {"none", "CRC", "DATA", "TIMEOUT"}
      /\ st.verified <= dpsm.acked /\ st.pushed <= st.total /\ st.lba + st.total <= NBlk
  BY <1>1, Typed DEF IInv, TypeOK, InStep, Ordered
<1>3. card.at = st.lba + dpsm.acked
  BY <1>1 DEF IInv, InStep
<1>4. dpsm.acked \in Sector /\ card.at \in Sector /\ card.at + 1 \in 0..NBlk /\ dpsm.acked + 1 \in 0..NBlk
  BY <1>1, <1>2, <1>3 DEF Sector
<1>5. wire[dpsm.acked] = want[dpsm.acked]
  <2>1. dpsm.acked \in dpsm.acked .. st.pushed - 1
    BY <1>1, <1>2
  <2> QED BY <1>1, <2>1 DEF IInv, FetchedRight
<1>6. TypeOK'
  <2>1. disk' \in [Sector -> Value]
    BY <1>1, <1>2, <1>4
  <2>2. dpsm' \in [acked : 0..NBlk, err : {"none", "CRC", "DATA", "TIMEOUT"}]
    BY <1>1, <1>4 DEF IInv, TypeOK
  <2>3. card' \in [mode : {"tran", "rcv", "one", "gone"}, at : 0..NBlk]
    BY <1>1, <1>4
  <2> QED BY <1>1, <2>1, <2>2, <2>3 DEF IInv, TypeOK
<1>7. dpsm'.acked = dpsm.acked + 1 /\ dpsm'.err = "none" /\ card'.at = card.at + 1
  BY <1>1 DEF IInv, TypeOK
<1>8. \A o \in 0 .. dpsm.acked : disk'[st.lba + o] = want[o]
  <2> SUFFICES ASSUME NEW o \in 0 .. dpsm.acked PROVE disk'[st.lba + o] = want[o]
    OBVIOUS
  <2>1. st.lba + o \in Sector
    BY <1>1, <1>2 DEF Sector
  <2>2. CASE o = dpsm.acked
    BY <1>1, <1>2, <1>3, <1>4, <1>5, <2>2
  <2>3. CASE o # dpsm.acked
    <3>1. o \in 0 .. dpsm.acked - 1 /\ st.lba + o # card.at
      BY <1>2, <1>3, <2>3
    <3>2. disk[st.lba + o] = want[o]
      BY <1>1, <3>1 DEF IInv, AckedOnCard
    <3> QED BY <1>1, <1>2, <2>1, <3>1, <3>2
  <2> QED BY <2>2, <2>3
<1>9. Ordered' /\ InStep'
  BY <1>1, <1>2, <1>3, <1>7 DEF IInv, Ordered, InStep
<1>10. AckedOnCard' /\ VerifiedOnCard'
  BY <1>1, <1>2, <1>7, <1>8 DEF AckedOnCard, VerifiedOnCard
<1>11. FetchedRight'
  BY <1>1, <1>2, <1>7 DEF IInv, FetchedRight
<1>12. Held' /\ PushGoing' /\ Progress' /\ SettledAll'
  BY <1>1 DEF IInv, Held, PushGoing, Progress, SettledAll, Limit
<1> QED BY <1>1, <1>3, <1>4, <1>5, <1>6, <1>9, <1>10, <1>11, <1>12 DEF IInv

LEMMA PushInv ==
  ASSUME IInv, NEW b \in Buf, NEW at \in 0..ChunkLen - 1, NEW cnt \in 1..ChunkLen - at, Push(b, at, cnt)
  PROVE  IInv'
<1>1. /\ call.pc = "idle" /\ owned
      /\ UNCHANGED <<st, present, slow, dpsm, wire, card, disk, mem, handed>>
  BY DEF Push, hardware
<1>2. /\ st.pushed \in 0..NBlk /\ st.pushed \in Nat /\ st.total \in Nat /\ st.verified \in Nat /\ st.runEnd \in Nat
      /\ dpsm.acked \in Nat /\ ChunkLen \in Nat /\ NBlk \in Nat /\ handed \in Nat
      /\ at \in 0..ChunkLen /\ cnt \in 0..ChunkLen /\ at \in Nat /\ cnt \in Nat /\ at + cnt <= ChunkLen
  BY Typed, StreamFields DEF IInv
<1>3. /\ st.open /\ st.pushed = handed /\ (~st.started => st.runEnd <= st.pushed)
  BY <1>1 DEF IInv, Progress
<1>4. call' = [op |-> "push", pc |-> IF PushRefused(cnt) THEN "idle" ELSE "loop",
               buf |-> b, at |-> at, cnt |-> cnt, before |-> st.pushed, e |-> "OK"]
  BY DEF Push
<1>5. call' \in CallType
  BY <1>2, <1>4 DEF CallType, Ret
<1>6. CASE PushRefused(cnt)
  <2>1. ret' \in Ret /\ owned' = FALSE /\ want' = want /\ call'.pc = "idle" /\ call'.op = "push"
    BY <1>4, <1>6 DEF Push, Ret, Err
  <2>2. TypeOK'
    BY <1>1, <1>5, <2>1 DEF IInv, TypeOK, CallType
  <2>3. Ordered' /\ InStep' /\ AckedOnCard' /\ FetchedRight' /\ VerifiedOnCard'
    BY <1>1, <2>1, StreamFrame
  <2>4. Held' /\ PushGoing' /\ Progress' /\ SettledAll'
    BY <1>1, <2>1 DEF IInv, Held, PushGoing, Progress, SettledAll
  <2> QED BY <2>2, <2>3, <2>4 DEF IInv
<1>7. CASE ~PushRefused(cnt)
  <2>1. /\ want' = [o \in Sector |-> IF o \in st.pushed .. st.pushed + cnt - 1
                                     THEN mem[b][at + 1 + o - st.pushed] ELSE want[o]]
        /\ ret' = ret /\ owned' = owned
        /\ call'.pc = "loop" /\ call'.op = "push" /\ call'.buf = b /\ call'.at = at /\ call'.cnt = cnt
        /\ call'.before = st.pushed
    BY <1>4, <1>7 DEF Push, result
  <2>2. /\ st.pushed + cnt <= st.total
        /\ st.started /\ st.pushed < st.runEnd => st.pushed + cnt <= st.runEnd
    BY <1>2, <1>3, <1>7 DEF PushRefused
  <2>3. st.total <= NBlk
    BY Typed DEF IInv, Ordered
  <2>4. \A o \in 0 .. st.pushed - 1 : want'[o] = want[o]
    <3>1. \A o \in 0 .. st.pushed - 1 : o \in Sector /\ o \notin st.pushed .. st.pushed + cnt - 1
      BY <1>2, <2>2, <2>3 DEF Sector
    <3> QED BY <2>1, <3>1
  <2>5. \A o \in st.pushed .. st.pushed + cnt - 1 : want'[o] = mem[b][at + 1 + o - st.pushed]
    <3>1. \A o \in st.pushed .. st.pushed + cnt - 1 : o \in Sector
      BY <1>2, <2>2, <2>3 DEF Sector
    <3> QED BY <2>1, <3>1
  <2>6. TypeOK'
    <3>1. \A o \in st.pushed .. st.pushed + cnt - 1 : mem[b][at + 1 + o - st.pushed] \in Value
      <4>1. mem[b] \in [1..ChunkLen -> Value]
        BY DataAssumption DEF IInv, TypeOK
      <4>2. \A o \in st.pushed .. st.pushed + cnt - 1 : at + 1 + o - st.pushed \in 1..ChunkLen
        BY <1>2
      <4> QED BY <4>1, <4>2
    <3>2. want' \in [Sector -> Value]
      BY <2>1, <3>1 DEF IInv, TypeOK
    <3> QED BY <1>1, <1>5, <2>1, <3>2 DEF IInv, TypeOK, CallType
  <2>7. st.verified <= st.pushed /\ (st.open => dpsm.acked <= st.pushed)
    BY DEF IInv, Ordered, InStep
  <2>8. Ordered' /\ InStep'
    BY <1>1 DEF IInv, Ordered, InStep, Receiving
  <2>9. AckedOnCard' /\ VerifiedOnCard' /\ FetchedRight'
    <3>1. AckedOnCard'
      BY <1>1, <1>2, <2>4, <2>7 DEF IInv, AckedOnCard
    <3>2. VerifiedOnCard'
      BY <1>1, <1>2, <2>4, <2>7 DEF IInv, VerifiedOnCard
    <3>3. FetchedRight'
      BY <1>1, <1>2, <2>4, <2>7 DEF IInv, FetchedRight
    <3> QED BY <3>1, <3>2, <3>3
  <2>10. Held'
    <3>1. \A o \in 0 .. handed - 1 : want'[o] = want[o]
      BY <1>3, <2>4
    <3> QED BY <1>1, <1>2, <2>1, <3>1, HeldFrame
  <2>11. PushGoing'
    <3>1. st.runEnd >= st.pushed + cnt \/ st.runEnd <= st.pushed
      BY <1>2, <1>3, <2>2 DEF IInv, Ordered
    <3> QED BY <1>1, <1>2, <1>3, <2>1, <2>2, <2>5, <2>7, <3>1 DEF PushGoing
  <2>12. Progress' /\ SettledAll'
    BY <1>1, <1>2, <1>3, <2>1 DEF Progress, SettledAll, Limit
  <2> QED BY <2>6, <2>8, <2>9, <2>10, <2>11, <2>12 DEF IInv
<1> QED BY <1>6, <1>7

LEMMA BeginInv ==
  ASSUME IInv, NEW lba \in Sector, NEW count \in 0..NBlk, Begin(lba, count)
  PROVE  IInv'
<1> DEFINE s == [Closed EXCEPT !.lba = lba, !.total = count]
<1>1. NBlk \in Nat /\ lba \in 0..NBlk /\ count \in 0..NBlk /\ 0 \in 0..NBlk
  BY Sizes DEF Sector
<1>2. Closed \in Stream /\ s \in Stream
  <2>1. 0 \in 0..Retries /\ 0 \in 0..ChunkLen
    BY Sizes
  <2>2. Closed \in Stream
    BY <1>1, <2>1 DEF Closed, Stream
  <2> QED BY <1>1, <2>2 DEF Stream
<1>3. /\ s.verified = 0 /\ s.pushed = 0 /\ s.runEnd = 0 /\ s.prev = NoBuf /\ s.lba = lba /\ s.total = count
      /\ Closed.verified = 0 /\ Closed.pushed = 0 /\ Closed.runEnd = 0 /\ Closed.prev = NoBuf
      /\ ~Closed.open /\ ~Closed.started /\ Closed.lba = 0 /\ Closed.total = 0
  BY DEF Closed
<1>4. /\ handed' = 0 /\ wire' = [o \in Sector |-> Blank] /\ want' = [o \in Sector |-> Blank]
      /\ UNCHANGED <<slow, disk, mem>>
  BY DEF Begin
<1>5. /\ call' = [NoCall EXCEPT !.op = "begin"] /\ ret' \in Ret /\ (owned' <=> ret' = "OK") /\ owned' \in BOOLEAN
      /\ \/ /\ st' = Closed /\ ret' # "OK" /\ UNCHANGED <<present, dpsm, card>>
         \/ /\ count > 0 /\ lba + count <= NBlk /\ OpenOk(s) /\ st' = Opened(s)
         \/ /\ count > 0 /\ lba + count <= NBlk /\ ret' # "OK" /\ st' = NotOpened(s)
            /\ \E e \in Err : OpenFails(s, e)
  BY DEF Begin, Ret, Err
<1> HIDE DEF s
<1>6. call' \in CallType /\ call'.pc = "idle" /\ call'.op = "begin"
  BY <1>5, NoCallType
<1>7. /\ st' \in Stream /\ ~st'.started /\ st'.pushed = 0 /\ st'.verified = 0 /\ st'.runEnd = 0 /\ st'.prev = NoBuf
      /\ st'.total \in Nat /\ st'.lba + st'.total <= NBlk
      /\ owned' => st'.open
      /\ st'.open => OpenOk(s) /\ st'.lba = s.lba
  <2>1. CASE st' = Closed /\ ret' # "OK"
    BY <1>1, <1>2, <1>3, <1>5, <2>1
  <2>2. CASE count > 0 /\ lba + count <= NBlk /\ OpenOk(s) /\ st' = Opened(s)
    BY <1>1, <1>2, <1>3, <2>2, OpenedStream
  <2>3. CASE count > 0 /\ lba + count <= NBlk /\ ret' # "OK" /\ st' = NotOpened(s)
    BY <1>1, <1>2, <1>3, <1>5, <2>3, OpenedStream
  <2> QED BY <1>5, <2>1, <2>2, <2>3
<1>8. /\ dpsm' \in [acked : 0..NBlk, err : {"none", "CRC", "DATA", "TIMEOUT"}]
      /\ card' \in [mode : {"tran", "rcv", "one", "gone"}, at : 0..NBlk]
      /\ present' \in BOOLEAN
  <2>1. CASE UNCHANGED <<present, dpsm, card>>
    BY <2>1 DEF IInv, TypeOK
  <2>2. CASE OpenOk(s) \/ \E e \in Err : OpenFails(s, e)
    <3>1. s.lba + s.verified <= NBlk
      BY <1>1, <1>3
    <3> QED BY <1>2, <2>2, <3>1, OpenOutcome DEF IInv
  <2> QED BY <1>5, <2>1, <2>2
<1>9. TypeOK'
  <2>1. wire' \in [Sector -> Value] /\ want' \in [Sector -> Value] /\ handed' \in 0..NBlk
    BY <1>1, <1>4, DataAssumption
  <2> QED BY <1>4, <1>5, <1>6, <1>7, <1>8, <2>1 DEF IInv, TypeOK, CallType
<1>10. Ordered' /\ FetchedRight' /\ VerifiedOnCard'
  BY <1>7 DEF Ordered, FetchedRight, VerifiedOnCard
<1>11. InStep' /\ AckedOnCard'
  <2> SUFFICES ASSUME st'.open PROVE InStep' /\ AckedOnCard'
    BY DEF InStep, AckedOnCard
  <2>1. dpsm' = [acked |-> s.verified, err |-> "none"] /\ card' = Listening(s)
    BY <1>7 DEF OpenOk
  <2>2. dpsm'.acked = 0 /\ dpsm'.err = "none" /\ card'.at = s.lba + 0
    BY <1>3, <2>1 DEF Listening
  <2> QED BY <1>7, <2>2 DEF InStep, AckedOnCard
<1>12. Held' /\ PushGoing' /\ Progress' /\ SettledAll'
  BY <1>4, <1>6, <1>7 DEF Held, PushGoing, Progress, SettledAll
<1> QED BY <1>9, <1>10, <1>11, <1>12 DEF IInv

(* The chunk goes out: what the DMA reads is what was pushed, whether the   *)
(* chunk is fresh or what a recovery left of it.                            *)
LEMMA LoopPushInv ==
  ASSUME IInv, LoopPush
  PROVE  IInv'
<1> DEFINE skip == st.pushed - call.before
           n    == call.cnt - skip
<1>1. /\ call.pc = "loop" /\ call.op = "push" /\ ~(st.started /\ st.pushed >= st.runEnd)
      /\ UNCHANGED <<ret, owned, present, slow, dpsm, card, disk, mem, want, handed>>
  BY DEF LoopPush, RunComplete, result, memory
<1>2. /\ st \in Stream /\ st.pushed \in Nat /\ st.verified \in Nat /\ st.runEnd \in Nat /\ st.total \in Nat
      /\ call.before \in Nat /\ call.cnt \in Nat /\ call.at \in Nat /\ handed \in Nat /\ dpsm.acked \in Nat
      /\ NBlk \in Nat /\ ChunkLen \in Nat /\ st.started \in BOOLEAN /\ st.lba \in Nat
  BY Typed DEF IInv
<1>3. /\ st.open /\ handed <= st.pushed /\ st.pushed < call.before + call.cnt
      /\ st.started => st.pushed = handed
  BY <1>1 DEF IInv, Progress
<1>4. /\ call.buf \in Buf /\ call.at + call.cnt <= ChunkLen /\ call.before + call.cnt <= st.total
      /\ call.before = handed
      /\ st.runEnd >= call.before + call.cnt \/ st.runEnd <= call.before
      /\ \A o \in call.before .. call.before + call.cnt - 1 : want[o] = mem[call.buf][call.at + 1 + o - call.before]
  BY <1>1 DEF IInv, PushGoing
<1>5. skip \in Nat /\ n \in Nat /\ n >= 1 /\ st.pushed + n = call.before + call.cnt
  BY <1>2, <1>3, <1>4
<1>6. st.runEnd <= st.total /\ st.lba + st.total <= NBlk /\ st.verified <= st.pushed
  BY DEF IInv, Ordered
<1>7. CASE /\ Fetch(call.buf, call.at + skip, st.pushed, n)
           /\ st' = Sending(st, n)
           /\ call' = [call EXCEPT !.pc = "dma"]
  <2>1. call' \in CallType /\ call'.pc = "dma" /\ call'.op = call.op /\ call'.buf = call.buf
        /\ call'.at = call.at /\ call'.cnt = call.cnt /\ call'.before = call.before
    BY <1>7 DEF IInv, TypeOK, CallType
  <2>2. /\ st' \in Stream /\ st'.started /\ st'.pushed = call.before + call.cnt
        /\ st'.runEnd = IF st.started THEN st.runEnd ELSE st.pushed + RunLength(st, n)
        /\ st'.open = st.open /\ st'.verified = st.verified /\ st'.lba = st.lba /\ st'.total = st.total
        /\ st'.prev = st.prev /\ st'.prevAt = st.prevAt /\ st'.prevOff = st.prevOff /\ st'.prevEnd = st.prevEnd
    <3>1. st.pushed + n <= st.total
      BY <1>4, <1>5
    <3> HIDE DEF n
    <3> QED BY <1>2, <1>5, <1>6, <1>7, <3>1, SendingStream
  <2>3. /\ st'.runEnd \in Nat /\ st'.runEnd >= call.before + call.cnt /\ st'.runEnd <= st.total
        /\ st'.runEnd >= st.runEnd
    <3>1. CASE st.started
      BY <1>1, <1>2, <1>3, <1>4, <1>6, <2>2, <3>1
    <3>2. CASE ~st.started
      <4>1. st.pushed + n <= st.total
        BY <1>4, <1>5
      <4> HIDE DEF n
      <4>2. /\ RunLength(st, n) \in Nat /\ RunLength(st, n) >= n /\ st.pushed + RunLength(st, n) <= st.total
            /\ st.pushed + RunLength(st, n) >= st.runEnd
        BY <1>2, <1>5, <1>6, <4>1, RunLengthBounds
      <4> QED BY <1>2, <1>5, <2>2, <3>2, <4>2
    <3> QED BY <3>1, <3>2
  <2>4. /\ \A o \in 0 .. st.pushed - 1 : wire'[o] = wire[o]
        /\ \A o \in st.pushed .. st.pushed + n - 1 : wire'[o] = want[o]
        /\ wire' \in [Sector -> Value]
    <3>1. wire' = [o \in Sector |-> IF o \in st.pushed .. st.pushed + n - 1
                                    THEN mem[call.buf][call.at + skip + 1 + o - st.pushed] ELSE wire[o]]
      BY <1>7 DEF Fetch
    <3>2. \A o \in 0 .. st.pushed + n - 1 : o \in Sector
      BY <1>2, <1>4, <1>5, <1>6 DEF Sector
    <3>3. \A o \in st.pushed .. st.pushed + n - 1 :
            /\ call.at + skip + 1 + o - st.pushed = call.at + 1 + o - call.before
            /\ o \in call.before .. call.before + call.cnt - 1
            /\ call.at + 1 + o - call.before \in 1..ChunkLen
      BY <1>2, <1>3, <1>4, <1>5
    <3>4. \A o \in st.pushed .. st.pushed + n - 1 : mem[call.buf][call.at + skip + 1 + o - st.pushed] = want[o]
      BY <1>4, <3>3
    <3>5. \A o \in st.pushed .. st.pushed + n - 1 : want[o] \in Value
      BY <1>2, <3>2 DEF IInv, TypeOK
    <3> HIDE DEF n, skip
    <3>6. \A o \in 0 .. st.pushed - 1 : o \in Sector /\ o \notin st.pushed .. st.pushed + n - 1
      BY <1>2, <1>5, <3>2
    <3>7. wire' \in [Sector -> Value]
      BY <3>1, <3>4, <3>5 DEF IInv, TypeOK
    <3>8. \A o \in st.pushed .. st.pushed + n - 1 : o \in Sector
      BY <1>2, <3>2
    <3> QED BY <3>1, <3>4, <3>6, <3>7, <3>8
  <2>5. TypeOK'
    BY <1>1, <2>1, <2>2, <2>4 DEF IInv, TypeOK, CallType
  <2>6. Ordered' /\ VerifiedOnCard' /\ AckedOnCard'
    BY <1>1, <1>2, <1>3, <1>4, <1>5, <1>6, <2>2, <2>3 DEF IInv, Ordered, VerifiedOnCard, AckedOnCard
  <2>7. InStep'
    BY <1>1, <1>2, <1>3, <1>5, <2>2 DEF IInv, InStep, Receiving
  <2>8. FetchedRight'
    <3>1. st.started => \A o \in dpsm.acked .. st.pushed - 1 : wire[o] = want[o]
      BY DEF IInv, FetchedRight
    <3>2. (~st.started => dpsm.acked = st.pushed) /\ dpsm.acked <= st.pushed
      BY <1>3 DEF IInv, InStep
    <3>3. ASSUME NEW o \in dpsm.acked .. st.pushed + n - 1 PROVE wire'[o] = want[o]
      BY <1>2, <1>5, <2>4, <3>1, <3>2
    <3>4. st'.pushed = st.pushed + n
      BY <1>5, <2>2
    <3> HIDE DEF n
    <3>5. st'.pushed - 1 = st.pushed + n - 1
      BY <1>2, <1>5, <3>4
    <3> QED BY <1>1, <1>2, <1>5, <3>3, <3>5 DEF FetchedRight
  <2>9. Held'
    BY <1>1, <1>2, <2>2, <2>3, HeldFrame
  <2>10. PushGoing'
    BY <1>1, <2>1, <2>2, <2>3 DEF IInv, PushGoing
  <2>11. Progress' /\ SettledAll'
    BY <1>1, <2>1, <2>2 DEF IInv, Progress, SettledAll, Limit
  <2> QED BY <2>5, <2>6, <2>7, <2>8, <2>9, <2>10, <2>11 DEF IInv
<1>8. CASE /\ \E e \in {"CRC", "TIMEOUT"} : call' = [call EXCEPT !.pc = "recover", !.e = e]
           /\ UNCHANGED <<st, wire>>
  <2>1. call' \in CallType /\ call'.pc = "recover" /\ call'.op = call.op /\ call'.buf = call.buf
        /\ call'.at = call.at /\ call'.cnt = call.cnt /\ call'.before = call.before /\ call'.e # "OK"
    BY <1>8 DEF IInv, TypeOK, CallType, Ret, Err
  <2>2. TypeOK'
    BY <1>1, <1>8, <2>1 DEF IInv, TypeOK, CallType
  <2>3. Ordered' /\ InStep' /\ AckedOnCard' /\ FetchedRight' /\ VerifiedOnCard'
    BY <1>1, <1>8, StreamFrame
  <2>4. Held' /\ PushGoing' /\ SettledAll'
    BY <1>1, <1>8, <2>1 DEF IInv, Held, PushGoing, SettledAll
  <2>5. Progress'
    BY <1>1, <1>2, <1>3, <1>8, <2>1 DEF IInv, Progress, Limit
  <2> QED BY <2>2, <2>3, <2>4, <2>5 DEF IInv
<1>9. QED BY <1>7, <1>8 DEF LoopPush

(* The DMA is done with a chunk: all but its last block is acknowledged.    *)
LEMMA ChunkInInv ==
  ASSUME IInv, ChunkIn
  PROVE  IInv'
<1>1. /\ call.pc = "dma" /\ dpsm.err = "none" /\ dpsm.acked >= st.pushed - 1
      /\ st' = [st EXCEPT !.verified = Larger(st.verified, call.before),
                          !.prev = call.buf, !.prevAt = call.at,
                          !.prevOff = call.before, !.prevEnd = call.before + call.cnt]
      /\ handed' = call.before + call.cnt
      /\ call' = [NoCall EXCEPT !.op = call.op] /\ ret' = "OK" /\ owned' = (call.op # "end")
      /\ UNCHANGED <<present, slow, dpsm, wire, card, disk, mem, want>>
  BY DEF ChunkIn, DmaDone, ChunkHeld, Return, hardware
<1>2. /\ call.op = "push" /\ st.started /\ st.open /\ st.pushed = call.before + call.cnt
      /\ call.buf \in Buf /\ call.cnt >= 1 /\ call.at + call.cnt <= ChunkLen
      /\ call.before + call.cnt <= st.total
      /\ \A o \in call.before .. call.before + call.cnt - 1 : want[o] = mem[call.buf][call.at + 1 + o - call.before]
  BY <1>1 DEF IInv, Progress, PushGoing, Ordered
<1>3. /\ st \in Stream /\ st.pushed \in Nat /\ st.verified \in Nat /\ st.total \in Nat /\ st.lba \in Nat
      /\ call.before \in 0..NBlk /\ call.cnt \in Nat /\ call.at \in 0..ChunkLen /\ dpsm.acked \in Nat /\ NBlk \in Nat
      /\ call.before \in Nat /\ call.at \in Nat /\ st.verified \in 0..NBlk /\ ChunkLen \in Nat
  BY Typed, StreamFields DEF IInv, TypeOK
<1>4. /\ st.verified <= dpsm.acked /\ dpsm.acked <= st.pushed /\ st.lba + st.total <= NBlk /\ st.pushed <= st.runEnd
  BY <1>2 DEF IInv, InStep, Ordered
<1> DEFINE v == Larger(st.verified, call.before)
           m == call.before + call.cnt
<1>5. v \in 0..NBlk /\ v <= dpsm.acked /\ st.verified <= v /\ call.before <= v /\ m \in 0..NBlk /\ m = st.pushed
  BY <1>1, <1>2, <1>3, <1>4 DEF Larger
<1>6. st' = [st EXCEPT !.verified = v, !.prev = call.buf, !.prevAt = call.at, !.prevOff = call.before, !.prevEnd = m]
  BY <1>1
<1> HIDE DEF v, m
<1>7. /\ st' \in Stream /\ st'.open /\ st'.started /\ st'.lba = st.lba /\ st'.total = st.total
      /\ st'.pushed = st.pushed /\ st'.verified = v /\ st'.runEnd = st.runEnd
      /\ st'.prev = call.buf /\ st'.prevAt = call.at /\ st'.prevOff = call.before /\ st'.prevEnd = m
  BY <1>2, <1>3, <1>5, <1>6 DEF Stream
<1>8. call' \in CallType /\ call'.pc = "idle" /\ call'.op = "push"
  BY <1>1, <1>2, NoCallType
<1>9. handed' = m /\ owned' = TRUE
  BY <1>1, <1>2 DEF m
<1>10. TypeOK'
  BY <1>1, <1>5, <1>7, <1>8, <1>9 DEF IInv, TypeOK, CallType, Ret
<1>11. Ordered' /\ InStep' /\ FetchedRight' /\ AckedOnCard'
  BY <1>1, <1>2, <1>3, <1>4, <1>5, <1>7 DEF IInv, Ordered, InStep, FetchedRight, AckedOnCard, Receiving
<1>12. VerifiedOnCard'
  BY <1>1, <1>2, <1>3, <1>5, <1>7 DEF IInv, VerifiedOnCard, AckedOnCard
<1>13. Held'
  <2>1. call.buf # NoBuf
    BY <1>2, DataAssumption
  <2>2. call.before <= m /\ call.at + (m - call.before) <= ChunkLen /\ m <= st.runEnd
    BY <1>2, <1>3, <1>4, <1>5 DEF m
  <2>3. \A o \in call.before .. m - 1 : mem[call.buf][call.at + 1 + o - call.before] = want[o]
    <3>1. m - 1 = call.before + call.cnt - 1
      BY <1>3 DEF m
    <3> QED BY <1>2, <1>3, <3>1
  <2> QED BY <1>1, <1>5, <1>7, <1>9, <2>1, <2>2, <2>3 DEF Held
<1>14. PushGoing' /\ Progress' /\ SettledAll'
  BY <1>5, <1>7, <1>8, <1>9 DEF PushGoing, Progress, SettledAll
<1> QED BY <1>10, <1>11, <1>12, <1>13, <1>14 DEF IInv

(* DATAEND: the run is on the card as a whole. *)
LEMMA RunFinishInv ==
  ASSUME IInv, RunFinish
  PROVE  IInv'
<1>1. /\ call.pc = "finish" /\ dpsm.err = "none" /\ dpsm.acked >= st.runEnd
      /\ st' = [st EXCEPT !.started = FALSE, !.verified = st.pushed, !.prev = NoBuf]
      /\ call' = [call EXCEPT !.pc = "loop"]
      /\ UNCHANGED <<ret, owned, present, slow, dpsm, wire, card, disk, mem, want, handed>>
  BY DEF RunFinish, result, hardware, memory
<1>2. /\ st.started /\ st.open /\ st.pushed = handed /\ st.pushed = st.runEnd
      /\ dpsm.acked <= st.pushed /\ st.pushed <= st.total /\ st.lba + st.total <= NBlk
  BY <1>1 DEF IInv, Progress, Ordered, InStep
<1>3. /\ st \in Stream /\ st.pushed \in 0..NBlk /\ st.pushed \in Nat /\ st.total \in Nat /\ st.lba \in Nat
      /\ dpsm.acked \in Nat /\ NBlk \in Nat /\ call.before \in Nat /\ call.cnt \in Nat
  BY Typed, StreamFields DEF IInv
<1>4. /\ st' \in Stream /\ st'.open /\ ~st'.started /\ st'.lba = st.lba /\ st'.total = st.total
      /\ st'.pushed = st.pushed /\ st'.verified = st.pushed /\ st'.runEnd = st.runEnd /\ st'.prev = NoBuf
  BY <1>1, <1>2, <1>3 DEF Stream
<1>5. call' \in CallType /\ call'.pc = "loop" /\ call'.op = call.op /\ call'.buf = call.buf
      /\ call'.at = call.at /\ call'.cnt = call.cnt /\ call'.before = call.before
  BY <1>1 DEF IInv, TypeOK, CallType
<1>6. TypeOK'
  BY <1>1, <1>4, <1>5 DEF IInv, TypeOK, CallType
<1>7. dpsm.acked = st.pushed
  BY <1>1, <1>2, <1>3
<1>8. Ordered' /\ InStep' /\ FetchedRight' /\ AckedOnCard'
  BY <1>1, <1>2, <1>3, <1>4, <1>7 DEF IInv, Ordered, InStep, FetchedRight, AckedOnCard, Receiving
<1>9. VerifiedOnCard'
  BY <1>1, <1>2, <1>4, <1>7 DEF IInv, VerifiedOnCard, AckedOnCard
<1>10. Held'
  BY <1>1, <1>2, <1>3, <1>4 DEF Held
<1>11. PushGoing'
  BY <1>1, <1>2, <1>3, <1>4, <1>5 DEF IInv, PushGoing
<1>12. Progress' /\ SettledAll'
  BY <1>1, <1>2, <1>3, <1>4, <1>5 DEF IInv, Progress, PushGoing, SettledAll, Limit
<1> QED BY <1>6, <1>8, <1>9, <1>10, <1>11, <1>12 DEF IInv

(* A data error: the count of verified blocks never passes the data path.   *)
LEMMA DataErrorInv ==
  ASSUME IInv, DataError
  PROVE  IInv'
<1>1. /\ call.pc \in {"dma", "tail", "finish"} /\ dpsm.err # "none"
      /\ UNCHANGED <<present, slow, dpsm, wire, card, disk, mem, want, handed>>
  BY DEF DataError, hardware, memory
<1>2. /\ st.started /\ st.open /\ dpsm.acked < st.pushed /\ st.verified <= dpsm.acked
      /\ st.pushed <= Limit /\ (call.op # "push" => st.pushed = handed)
  <2>1. /\ st.started /\ (call.pc = "dma" => call.op = "push" /\ st.pushed = call.before + call.cnt)
        /\ call.pc # "dma" => st.pushed = handed
    BY <1>1 DEF IInv, Progress
  <2>2. call.op = "push" => call.before = handed
    BY <1>1 DEF IInv, PushGoing
  <2>3. st.pushed \in Nat /\ call.before \in Nat /\ call.cnt \in Nat /\ handed \in Nat
    BY Typed DEF IInv
  <2>4. st.open /\ dpsm.acked < st.pushed /\ st.verified <= dpsm.acked
    BY <1>1, <2>1 DEF IInv, Ordered, InStep
  <2> QED BY <2>1, <2>2, <2>3, <2>4 DEF Limit
<1>3. /\ st \in Stream /\ st.pushed \in Nat /\ st.total \in Nat /\ st.lba \in Nat /\ st.verified \in Nat
      /\ dpsm.acked \in Nat /\ NBlk \in Nat /\ call.before \in Nat /\ call.cnt \in Nat /\ handed \in Nat
      /\ st.runEnd \in Nat
  BY Typed DEF IInv
<1>4. PICK done \in InFlight : st' = NoteFailure(st, done)
  BY DEF DataError
<1>5. /\ st' \in Stream /\ st' = [st EXCEPT !.verified = st'.verified]
      /\ st.verified <= st'.verified /\ st'.verified <= dpsm.acked /\ st'.verified \in Nat
  <2>1. /\ NoteFailure(st, done) \in Stream
        /\ NoteFailure(st, done) = [st EXCEPT !.verified = NoteFailure(st, done).verified]
        /\ st.verified <= NoteFailure(st, done).verified /\ NoteFailure(st, done).verified <= dpsm.acked
    <3>1. done \in {Half * dpsm.acked + k : k \in 0..Half}
      BY DEF InFlight
    <3> QED BY <1>2, <1>3, <3>1, NoteFailureStream
  <2>2. NoteFailure(st, done).verified \in 0..NBlk
    BY <2>1, StreamFields
  <2> QED BY <1>3, <1>4, <2>1, <2>2
<1>6. /\ st'.open /\ st'.started /\ st'.lba = st.lba /\ st'.total = st.total
      /\ st'.pushed = st.pushed /\ st'.runEnd = st.runEnd
      /\ st'.prev = st.prev /\ st'.prevAt = st.prevAt /\ st'.prevOff = st.prevOff /\ st'.prevEnd = st.prevEnd
  <2> DEFINE v == st'.verified
  <2>1. st' = [st EXCEPT !.verified = v]
    BY <1>5
  <2> HIDE DEF v
  <2> QED BY <1>2, <1>3, <2>1 DEF Stream
<1>7. \/ /\ call'.pc = "idle" /\ call'.op = call.op /\ ret' \in Ret /\ ret' # "OK" /\ owned' = FALSE
         /\ call' \in CallType
      \/ /\ call'.pc = "recover" /\ call'.e # "OK" /\ call'.op = call.op /\ call'.buf = call.buf
         /\ call'.at = call.at /\ call'.cnt = call.cnt /\ call'.before = call.before
         /\ call' \in CallType /\ ret' = ret /\ owned' = owned
  <2>1. dpsm.err \in {"CRC", "DATA", "TIMEOUT"} /\ dpsm.err \in Ret /\ dpsm.err # "OK"
    BY <1>1, Typed DEF IInv, Ret, Err
  <2>2. CASE call.pc = "tail"
    <3>1. call' = [NoCall EXCEPT !.op = call.op] /\ ret' = dpsm.err /\ owned' = FALSE
      BY <2>1, <2>2 DEF DataError, Return
    <3>2. call' \in CallType /\ call'.pc = "idle" /\ call'.op = call.op
      BY <3>1, NoCallType, Typed DEF IInv
    <3> QED BY <2>1, <3>1, <3>2
  <2>3. CASE call.pc # "tail"
    <3>1. call' = [call EXCEPT !.pc = "recover", !.e = dpsm.err] /\ ret' = ret /\ owned' = owned
      BY <2>3 DEF DataError, result
    <3>2. call \in CallType
      BY DEF IInv, TypeOK, CallType
    <3> QED BY <2>1, <3>1, <3>2 DEF CallType
  <2> QED BY <2>2, <2>3
<1>8. TypeOK'
  BY <1>1, <1>5, <1>7 DEF IInv, TypeOK, CallType
<1>9. Ordered' /\ InStep' /\ FetchedRight' /\ AckedOnCard'
  BY <1>1, <1>2, <1>3, <1>5, <1>6 DEF IInv, Ordered, InStep, FetchedRight, AckedOnCard, Receiving
<1>10. VerifiedOnCard'
  BY <1>1, <1>2, <1>3, <1>5, <1>6 DEF IInv, VerifiedOnCard, AckedOnCard
<1>11. Held'
  BY <1>1, <1>3, <1>5, <1>6, <1>7, HeldFrame
<1>12. PushGoing'
  <2> SUFFICES ASSUME call'.op = "push", call'.pc # "idle" PROVE PushGoing'
    BY DEF PushGoing
  <2>1. call.op = "push" /\ call.pc # "idle"
    BY <1>1, <1>7
  <2>2. st'.verified < call.before + call.cnt
    BY <1>2, <1>3, <1>5, <2>1 DEF Limit
  <2> QED BY <1>1, <1>6, <1>7, <2>1, <2>2 DEF IInv, PushGoing
<1>13. Progress'
  <2>1. call.op \in {"push", "settle", "end"} /\ owned
    BY <1>1 DEF IInv, Progress
  <2>2. call.op # "push" => st.prev # NoBuf /\ st'.verified < handed
    <3>1. st.prev = NoBuf => handed <= st.verified
      BY DEF IInv, Held
    <3> QED BY <1>2, <1>3, <1>5, <3>1
  <2>3. CASE call'.pc = "idle" /\ owned' = FALSE
    BY <2>3 DEF Progress
  <2>4. CASE call'.pc = "recover"
    <3>1. st'.pushed <= Limit'
      BY <1>1, <1>2, <1>6, <1>7, <2>4 DEF Limit
    <3> QED BY <1>1, <1>2, <1>6, <1>7, <2>1, <2>2, <2>4, <3>1 DEF Progress
  <2> QED BY <1>7, <2>3, <2>4
<1>14. SettledAll'
  BY <1>7 DEF SettledAll
<1> QED BY <1>8, <1>9, <1>10, <1>11, <1>12, <1>13, <1>14 DEF IInv

(* The stream is given up: an early exit of the caller, or a settle or end  *)
(* before the announced run is complete.                                    *)
LEMMA AbortInv ==
  ASSUME IInv, Abort \/ LoopShort
  PROVE  IInv'
<1>1. /\ AbortHw("OK") /\ st' = Aborted(st) /\ owned' = FALSE /\ UNCHANGED <<slow, wire, disk, mem, want, handed>>
      /\ \/ call' = [NoCall EXCEPT !.op = "abort"] /\ ret' = ret
         \/ call' = [NoCall EXCEPT !.op = call.op] /\ ret' = "PARAM"
  BY DEF Abort, LoopShort, Return, memory
<1>2. /\ st' \in Stream /\ ~st'.open /\ ~st'.started
      /\ st'.pushed = st.verified /\ st'.verified = st.verified
      /\ st'.lba = st.lba /\ st'.total = st.total /\ st'.runEnd = st.runEnd
      /\ st'.prev = st.prev /\ st'.prevAt = st.prevAt /\ st'.prevOff = st.prevOff /\ st'.prevEnd = st.prevEnd
  BY <1>1, Typed, AbortedStream DEF IInv, Ordered
<1>3. /\ dpsm' \in [acked : 0..NBlk, err : {"none", "CRC", "DATA", "TIMEOUT"}]
      /\ card' \in [mode : {"tran", "rcv", "one", "gone"}, at : 0..NBlk]
      /\ present' \in BOOLEAN
  BY <1>1, AbortOutcome DEF IInv
<1>4. call' \in CallType /\ call'.pc = "idle" /\ ret' \in Ret /\ (call'.op = "abort" \/ ret' # "OK")
  <2>1. call.op \in {"none", "begin", "push", "settle", "end", "abort"}
    BY Typed DEF IInv
  <2> QED BY <1>1, <2>1, NoCallType DEF IInv, TypeOK, Ret, Err
<1>5. TypeOK'
  BY <1>1, <1>2, <1>3, <1>4 DEF IInv, TypeOK, CallType
<1>6. Ordered' /\ InStep' /\ AckedOnCard' /\ FetchedRight' /\ VerifiedOnCard'
  BY <1>1, <1>2, ClosedFrame
<1>7. Held'
  <2>1. st.verified \in Nat /\ st.runEnd \in Nat
    BY Typed DEF IInv
  <2> QED BY <1>1, <1>2, <2>1, HeldFrame
<1>8. PushGoing' /\ Progress' /\ SettledAll'
  BY <1>1, <1>4 DEF PushGoing, Progress, SettledAll
<1> QED BY <1>5, <1>6, <1>7, <1>8 DEF IInv

(* The stop command of end, with the run in progress already collected.     *)
LEMMA LoopStopInv ==
  ASSUME IInv, LoopStop
  PROVE  IInv'
<1>1. /\ call.pc = "loop" /\ call.op = "end" /\ ~st.started
      /\ UNCHANGED <<slow, dpsm, wire, disk, mem, want, handed>>
      /\ card' = card \/ card' = [card EXCEPT !.mode = "tran"]
      /\ present' = present \/ present' = (present /\ st.multi)
      /\ st' = [st EXCEPT !.open = FALSE, !.verified = st.pushed] \/ st' = [st EXCEPT !.open = FALSE]
      /\ \E e \in {"OK", "BUSY", "CRC", "TIMEOUT"} : Return(e)
  BY DEF LoopStop, MayStop, Stopped, memory
<1>2. st.pushed = handed /\ st.pushed = st.verified
  BY <1>1 DEF IInv, Progress, Ordered
<1>3. /\ st \in Stream /\ st.pushed \in 0..NBlk /\ st.verified \in Nat /\ st.runEnd \in Nat
  BY Typed, StreamFields DEF IInv
<1>4. /\ st' \in Stream /\ ~st'.open /\ ~st'.started
      /\ st'.pushed = st.verified /\ st'.verified = st.verified
      /\ st'.lba = st.lba /\ st'.total = st.total /\ st'.runEnd = st.runEnd
      /\ st'.prev = st.prev /\ st'.prevAt = st.prevAt /\ st'.prevOff = st.prevOff /\ st'.prevEnd = st.prevEnd
  BY <1>1, <1>2, <1>3 DEF Stream
<1>5. /\ call' \in CallType /\ call'.pc = "idle" /\ call'.op = "end" /\ owned' = FALSE /\ ret' \in Ret
  <2>1. call' = [NoCall EXCEPT !.op = "end"] /\ owned' = FALSE /\ ret' \in Ret
    BY <1>1 DEF Return, Ret, Err
  <2> QED BY <2>1, NoCallType
<1>6. /\ card' \in [mode : {"tran", "rcv", "one", "gone"}, at : 0..NBlk]
      /\ present' \in BOOLEAN
  <2>1. (present /\ st.multi) \in BOOLEAN
    BY DEF IInv, TypeOK
  <2> QED BY <1>1, <2>1 DEF IInv, TypeOK
<1>7. TypeOK'
  BY <1>1, <1>4, <1>5, <1>6 DEF IInv, TypeOK, CallType
<1>8. Ordered' /\ InStep' /\ AckedOnCard' /\ FetchedRight' /\ VerifiedOnCard'
  BY <1>1, <1>4, ClosedFrame
<1>9. Held'
  BY <1>1, <1>3, <1>4, <1>5, HeldFrame
<1>10. PushGoing' /\ Progress' /\ SettledAll'
  BY <1>1, <1>2, <1>4, <1>5 DEF PushGoing, Progress, SettledAll
<1> QED BY <1>7, <1>8, <1>9, <1>10 DEF IInv

LEMMA RecoverInv ==
  ASSUME IInv, Recover
  PROVE  IInv'
<1>1. /\ call.pc = "recover" /\ AbortHw(call.e) /\ UNCHANGED <<wire, disk, mem, want, handed>>
  BY DEF Recover, memory
<1>2. /\ owned /\ call.op \in {"push", "settle", "end"} /\ st.open /\ st.pushed <= Limit /\ call.e # "OK"
      /\ call.op # "push" => st.prev # NoBuf /\ st.verified < handed
  BY <1>1 DEF IInv, Progress
<1>3. PICK a \in 0..Retries : st' = [Aborted(st) EXCEPT !.attempts = a]
  <2>1. st.attempts \in 0..Retries /\ Retries \in Nat
    BY Typed DEF IInv
  <2>2. st.attempts < Retries => NextAttempt(st) \in 0..Retries
    BY <2>1 DEF NextAttempt
  <2> QED BY <2>1, <2>2 DEF Recover
<1>4. /\ st' \in Stream /\ ~st'.open /\ ~st'.started
      /\ st'.pushed = st.verified /\ st'.verified = st.verified
      /\ st'.lba = st.lba /\ st'.total = st.total /\ st'.runEnd = st.runEnd
      /\ st'.prev = st.prev /\ st'.prevAt = st.prevAt /\ st'.prevOff = st.prevOff /\ st'.prevEnd = st.prevEnd
  <2> DEFINE b == Aborted(st)
  <2>1. /\ b \in Stream /\ ~b.open /\ ~b.started
        /\ b.pushed = st.verified /\ b.verified = st.verified
        /\ b.lba = st.lba /\ b.total = st.total /\ b.runEnd = st.runEnd
        /\ b.prev = st.prev /\ b.prevAt = st.prevAt /\ b.prevOff = st.prevOff /\ b.prevEnd = st.prevEnd
    BY Typed, AbortedStream DEF IInv, Ordered
  <2>2. st' = [b EXCEPT !.attempts = a]
    BY <1>3
  <2> HIDE DEF b
  <2> QED BY <2>1, <2>2 DEF Stream
<1>5. /\ dpsm' \in [acked : 0..NBlk, err : {"none", "CRC", "DATA", "TIMEOUT"}]
      /\ card' \in [mode : {"tran", "rcv", "one", "gone"}, at : 0..NBlk]
      /\ present' \in BOOLEAN
  BY <1>1, AbortOutcome DEF IInv
<1>6. slow' \in 0..MaxSlow
  <2>1. slow \in 0..MaxSlow /\ MaxSlow \in Nat
    BY Sizes DEF IInv, TypeOK
  <2>2. slow' = slow \/ (slow < MaxSlow /\ slow' = slow + 1)
    BY DEF Recover
  <2> QED BY <2>1, <2>2
<1>7. \/ /\ call'.pc = "idle" /\ call'.op = call.op /\ ret' \in Ret /\ ret' # "OK" /\ owned' = FALSE
         /\ call' \in CallType
      \/ /\ call'.pc = "reopen" /\ call'.op = call.op /\ call'.buf = call.buf
         /\ call'.at = call.at /\ call'.cnt = call.cnt /\ call'.before = call.before
         /\ call' \in CallType /\ ret' = ret /\ owned' = owned
  <2>1. call \in CallType /\ call.e \in Ret
    BY DEF IInv, TypeOK, CallType
  <2>2. CASE Return(call.e)
    <3>1. call' = [NoCall EXCEPT !.op = call.op] /\ ret' = call.e /\ owned' = FALSE
      BY <1>2, <2>2 DEF Return
    <3>2. call' \in CallType /\ call'.pc = "idle" /\ call'.op = call.op
      BY <3>1, NoCallType, Typed DEF IInv
    <3> QED BY <1>2, <2>1, <3>1, <3>2
  <2>3. CASE call' = [call EXCEPT !.pc = "reopen"] /\ UNCHANGED result
    BY <2>1, <2>3 DEF CallType, result
  <2> QED BY <2>2, <2>3 DEF Recover
<1>8. TypeOK'
  BY <1>1, <1>4, <1>5, <1>6, <1>7 DEF IInv, TypeOK, CallType
<1>9. Ordered' /\ InStep' /\ AckedOnCard' /\ FetchedRight' /\ VerifiedOnCard'
  BY <1>1, <1>4, ClosedFrame
<1>10. st.verified \in Nat /\ st.runEnd \in Nat /\ st.pushed \in Nat /\ handed \in Nat
       /\ call.before \in Nat /\ call.cnt \in Nat /\ st.verified <= st.pushed
  BY Typed DEF IInv, Ordered
<1>11. Held'
  BY <1>1, <1>4, <1>7, <1>10, HeldFrame
<1>12. PushGoing'
  BY <1>1, <1>4, <1>7 DEF IInv, PushGoing
<1>13. Progress'
  <2>1. CASE call'.pc = "idle" /\ owned' = FALSE
    BY <2>1 DEF Progress
  <2>2. CASE call'.pc = "reopen"
    <3>1. st'.pushed <= Limit'
      BY <1>1, <1>2, <1>4, <1>7, <1>10, <2>2 DEF Limit
    <3> QED BY <1>1, <1>2, <1>4, <1>7, <2>2, <3>1 DEF Progress
  <2> QED BY <1>7, <2>1, <2>2
<1>14. SettledAll'
  BY <1>7 DEF SettledAll
<1> QED BY <1>8, <1>9, <1>11, <1>12, <1>13, <1>14 DEF IInv

(* Reopening at the first block not verified, and the rest of the chunk     *)
(* pushed before.                                                           *)
LEMMA ReopenInv ==
  ASSUME IInv, Reopen
  PROVE  IInv'
<1>1. call.pc = "reopen" /\ UNCHANGED <<slow, disk, mem, want, handed>>
  BY DEF Reopen, memory
<1>2. /\ owned /\ call.op \in {"push", "settle", "end"} /\ ~st.open
      /\ call.op # "push" => st.prev # NoBuf /\ st.verified < handed
  BY <1>1 DEF IInv, Progress
<1>3. /\ st \in Stream /\ st.pushed \in Nat /\ st.total \in Nat /\ st.lba \in Nat /\ st.verified \in Nat
      /\ st.runEnd \in Nat /\ st.prevOff \in Nat /\ st.prevEnd \in Nat /\ st.prevAt \in Nat
      /\ NBlk \in Nat /\ ChunkLen \in Nat /\ handed \in Nat /\ call.before \in Nat /\ call.cnt \in Nat
  BY Typed DEF IInv
<1>4. /\ ~st.started /\ st.pushed = st.verified /\ st.pushed <= st.total /\ st.runEnd <= st.total
      /\ st.lba + st.total <= NBlk
  BY <1>2 DEF IInv, Ordered
<1>5. /\ dpsm' \in [acked : 0..NBlk, err : {"none", "CRC", "DATA", "TIMEOUT"}]
      /\ card' \in [mode : {"tran", "rcv", "one", "gone"}, at : 0..NBlk]
      /\ present' \in BOOLEAN
  <2>1. OpenOk(st) \/ \E e \in Err : OpenFails(st, e)
    BY DEF Reopen
  <2>2. st.lba + st.verified <= NBlk
    BY <1>3, <1>4
  <2> QED BY <1>3, <2>1, <2>2, OpenOutcome DEF IInv
<1> DEFINE s == Opened(st)
<1>6. /\ s \in Stream /\ s.open /\ ~s.started /\ s.pushed = st.verified /\ s.verified = st.verified
      /\ s.lba = st.lba /\ s.total = st.total /\ s.runEnd = st.runEnd
      /\ s.prev = st.prev /\ s.prevAt = st.prevAt /\ s.prevOff = st.prevOff /\ s.prevEnd = st.prevEnd
  BY <1>3, OpenedStream
<1>7. ASSUME OpenOk(st) PROVE /\ dpsm'.acked = st.verified /\ dpsm'.err = "none"
                              /\ card'.at = st.lba + st.verified
  BY <1>7 DEF OpenOk, Listening
<1> DEFINE n == s.prevEnd - s.verified
           SendTail == /\ OpenOk(st) /\ HasTail(s)
                       /\ Fetch(s.prev, TailFrom(s), s.pushed, n) /\ st' = Sending(s, n)
                       /\ call' = [call EXCEPT !.pc = "tail"] /\ ret' = ret /\ owned' = owned
           GoOn == /\ OpenOk(st) /\ ~HasTail(s) /\ st' = s
                   /\ call' = [call EXCEPT !.pc = "loop"] /\ wire' = wire /\ ret' = ret /\ owned' = owned
           GiveUp == st' = NotOpened(st) /\ UNCHANGED wire /\ \E e \in Err : Return(e)
<1>11. SendTail \/ GoOn \/ GiveUp
  BY DEF Reopen, result
<1>8. CASE SendTail
  <2>1. /\ Fetch(s.prev, TailFrom(s), s.pushed, n) /\ st' = Sending(s, n)
        /\ call' = [call EXCEPT !.pc = "tail"] /\ ret' = ret /\ owned' = owned
        /\ OpenOk(st) /\ HasTail(s)
    BY <1>8
  <2>2. /\ st.prev # NoBuf /\ st.verified < st.prevEnd
        /\ st.prevOff <= st.verified /\ st.prevEnd = handed /\ st.prevEnd <= st.runEnd
        /\ st.prevAt + (st.prevEnd - st.prevOff) <= ChunkLen
        /\ \A o \in st.prevOff .. st.prevEnd - 1 : mem[st.prev][st.prevAt + 1 + o - st.prevOff] = want[o]
    BY <1>2, <1>6, <2>1 DEF HasTail, IInv, Held
  <2>3. n \in Nat /\ n = st.prevEnd - st.verified /\ s.pushed + n = st.prevEnd /\ s.pushed + n <= s.total
    BY <1>3, <1>4, <1>6, <2>2
  <2>4. /\ st' \in Stream /\ st'.open /\ st'.started /\ st'.pushed = st.prevEnd /\ st'.verified = st.verified
        /\ st'.lba = st.lba /\ st'.total = st.total /\ st'.runEnd = st.runEnd
        /\ st'.prev = st.prev /\ st'.prevAt = st.prevAt /\ st'.prevOff = st.prevOff /\ st'.prevEnd = st.prevEnd
    <3>1. s.runEnd >= s.pushed + n /\ s.runEnd > s.pushed /\ s.runEnd <= s.total
      BY <1>3, <1>4, <1>6, <2>2, <2>3
    <3>a. s \in Stream /\ n \in Nat /\ s.pushed + n <= s.total
      BY <1>6, <2>3
    <3> HIDE DEF n, s
    <3>2. s.pushed + RunLength(s, n) = s.runEnd
      BY <1>6, <2>3, <3>1, RunLengthBounds
    <3>3. /\ Sending(s, n) \in Stream /\ Sending(s, n).started
          /\ Sending(s, n).pushed = s.pushed + n
          /\ Sending(s, n).runEnd = IF s.started THEN s.runEnd ELSE s.pushed + RunLength(s, n)
          /\ Sending(s, n).open = s.open /\ Sending(s, n).verified = s.verified
          /\ Sending(s, n).lba = s.lba /\ Sending(s, n).total = s.total
          /\ Sending(s, n).prev = s.prev /\ Sending(s, n).prevAt = s.prevAt
          /\ Sending(s, n).prevOff = s.prevOff /\ Sending(s, n).prevEnd = s.prevEnd
      BY <3>1, <3>a, SendingStream
    <3> QED BY <1>6, <2>1, <2>3, <3>2, <3>3
  <2>5. call' \in CallType /\ call'.pc = "tail" /\ call'.op = call.op /\ call'.buf = call.buf
        /\ call'.at = call.at /\ call'.cnt = call.cnt /\ call'.before = call.before
    BY <2>1 DEF IInv, TypeOK, CallType
  <2>6. /\ \A o \in st.verified .. st.prevEnd - 1 : wire'[o] = want[o]
        /\ wire' \in [Sector -> Value]
    <3>1. wire' = [o \in Sector |-> IF o \in s.pushed .. s.pushed + n - 1
                                    THEN mem[s.prev][TailFrom(s) + 1 + o - s.pushed] ELSE wire[o]]
      BY <2>1 DEF Fetch
    <3>2. \A o \in st.verified .. st.prevEnd - 1 :
            /\ o \in Sector /\ o \in s.pushed .. s.pushed + n - 1
            /\ o \in st.prevOff .. st.prevEnd - 1
            /\ TailFrom(s) + 1 + o - s.pushed = st.prevAt + 1 + o - st.prevOff
      BY <1>3, <1>4, <1>6, <2>2, <2>3 DEF Sector, TailFrom
    <3>3. \A o \in st.verified .. st.prevEnd - 1 : mem[s.prev][TailFrom(s) + 1 + o - s.pushed] = want[o]
      BY <1>6, <2>2, <3>2
    <3>4. \A o \in st.verified .. st.prevEnd - 1 : want[o] \in Value
      BY <3>2 DEF IInv, TypeOK
    <3>5. \A o \in s.pushed .. s.pushed + n - 1 : o \in st.verified .. st.prevEnd - 1
      BY <1>3, <1>6, <2>2, <2>3
    <3> HIDE DEF n, s
    <3>6. wire' \in [Sector -> Value]
      BY <3>1, <3>3, <3>4, <3>5 DEF IInv, TypeOK
    <3> QED BY <3>1, <3>2, <3>3, <3>6
  <2> HIDE DEF n, s
  <2>7. TypeOK'
    BY <1>1, <1>5, <2>1, <2>4, <2>5, <2>6 DEF IInv, TypeOK, CallType
  <2>8. Ordered' /\ VerifiedOnCard'
    BY <1>1, <1>3, <1>4, <2>2, <2>4 DEF IInv, Ordered, VerifiedOnCard
  <2>9. InStep' /\ AckedOnCard' /\ FetchedRight'
    BY <1>1, <1>3, <1>7, <2>1, <2>2, <2>4, <2>6 DEF IInv, VerifiedOnCard, InStep, AckedOnCard, FetchedRight
  <2>10. Held'
    BY <1>1, <1>3, <2>1, <2>4, HeldFrame
  <2>11. PushGoing' /\ SettledAll'
    BY <1>1, <2>4, <2>5 DEF IInv, PushGoing, SettledAll
  <2>12. Progress'
    BY <1>1, <1>2, <2>1, <2>2, <2>4, <2>5 DEF Progress
  <2> QED BY <2>7, <2>8, <2>9, <2>10, <2>11, <2>12 DEF IInv
<1>9. CASE GoOn
  <2>1. /\ st' = s /\ call' = [call EXCEPT !.pc = "loop"] /\ wire' = wire /\ ret' = ret /\ owned' = owned
        /\ OpenOk(st) /\ ~HasTail(s)
    BY <1>9
  <2>2. call' \in CallType /\ call'.pc = "loop" /\ call'.op = call.op /\ call'.buf = call.buf
        /\ call'.at = call.at /\ call'.cnt = call.cnt /\ call'.before = call.before
    BY <2>1 DEF IInv, TypeOK, CallType
  <2>3. handed <= st.verified /\ call.op = "push"
    BY <1>2, <1>3, <1>6, <2>1 DEF HasTail, IInv, Held
  <2> HIDE DEF s
  <2>4. TypeOK'
    BY <1>1, <1>5, <1>6, <2>1, <2>2 DEF IInv, TypeOK, CallType
  <2>5. Ordered' /\ VerifiedOnCard' /\ FetchedRight'
    BY <1>1, <1>3, <1>4, <1>6, <2>1 DEF IInv, Ordered, VerifiedOnCard, FetchedRight
  <2>6. InStep' /\ AckedOnCard'
    BY <1>1, <1>3, <1>6, <1>7, <2>1 DEF IInv, VerifiedOnCard, InStep, AckedOnCard
  <2>7. Held'
    BY <1>1, <1>3, <1>6, <2>1, HeldFrame
  <2>8. PushGoing' /\ SettledAll'
    BY <1>1, <1>6, <2>1, <2>2 DEF IInv, PushGoing, SettledAll
  <2>9. Progress'
    <3>1. st.verified < call.before + call.cnt
      BY <1>1, <2>3 DEF IInv, PushGoing
    <3> QED BY <1>1, <1>2, <1>6, <2>1, <2>2, <2>3, <3>1 DEF Progress
  <2> QED BY <2>4, <2>5, <2>6, <2>7, <2>8, <2>9 DEF IInv
<1>10. CASE GiveUp
  <2>1. /\ st' \in Stream /\ ~st'.open /\ ~st'.started /\ st'.pushed = st.verified /\ st'.verified = st.verified
        /\ st'.lba = st.lba /\ st'.total = st.total /\ st'.runEnd = st.runEnd
        /\ st'.prev = st.prev /\ st'.prevAt = st.prevAt /\ st'.prevOff = st.prevOff /\ st'.prevEnd = st.prevEnd
    BY <1>3, <1>10, OpenedStream
  <2>2. call' \in CallType /\ call'.pc = "idle" /\ ret' \in Ret /\ ret' # "OK" /\ owned' = FALSE
    <3>1. call' = [NoCall EXCEPT !.op = call.op] /\ ret' \in Ret /\ ret' # "OK" /\ owned' = FALSE
      BY <1>10 DEF Return, Ret, Err
    <3> QED BY <3>1, NoCallType, Typed DEF IInv
  <2>3. TypeOK'
    BY <1>1, <1>5, <1>10, <2>1, <2>2 DEF IInv, TypeOK, CallType
  <2>4. Ordered' /\ InStep' /\ AckedOnCard' /\ FetchedRight' /\ VerifiedOnCard'
    BY <1>1, <2>1, ClosedFrame
  <2>5. Held'
    BY <1>1, <1>3, <2>1, <2>2, HeldFrame
  <2>6. PushGoing' /\ Progress' /\ SettledAll'
    BY <2>2 DEF PushGoing, Progress, SettledAll
  <2> QED BY <2>3, <2>4, <2>5, <2>6 DEF IInv
<1> QED BY <1>8, <1>9, <1>10, <1>11
---------------------------------------------------------------------------
(* The invariant holds from the start and is kept by every step.            *)

LEMMA IInvInit == Init => IInv
<1> SUFFICES ASSUME Init PROVE IInv
  OBVIOUS
<1>1. /\ st = Closed /\ call = NoCall /\ ret = "OK" /\ owned = FALSE /\ present = TRUE /\ slow = 0
      /\ dpsm = [acked |-> 0, err |-> "none"] /\ card = [mode |-> "tran", at |-> 0]
      /\ mem \in [Buf -> Pattern] /\ handed = 0
      /\ disk = [s \in Sector |-> Blank] /\ wire = [o \in Sector |-> Blank] /\ want = [o \in Sector |-> Blank]
  BY DEF Init
<1>2. 0 \in 0..NBlk /\ 0 \in 0..ChunkLen /\ 0 \in 0..Retries /\ 0 \in 0..MaxSlow /\ "OK" \in Ret
  BY Sizes DEF Ret
<1>3. Closed \in Stream
  BY <1>2 DEF Closed, Stream
<1>4. NoCall \in CallType
  BY NoCallFits
<1>5. TypeOK
  BY <1>1, <1>2, <1>3, <1>4, DataAssumption DEF TypeOK, CallType
<1>6. Ordered /\ InStep /\ AckedOnCard /\ FetchedRight /\ VerifiedOnCard
  BY <1>1, Sizes DEF Closed, Ordered, InStep, AckedOnCard, FetchedRight, VerifiedOnCard
<1>7. Held /\ PushGoing /\ Progress /\ SettledAll
  BY <1>1 DEF Closed, NoCall, Held, PushGoing, Progress, SettledAll
<1> QED BY <1>5, <1>6, <1>7 DEF IInv

LEMMA IInvStep == IInv /\ [Next]_vars => IInv'
<1> SUFFICES ASSUME IInv, [Next]_vars PROVE IInv'
  OBVIOUS
<1>1. CASE Caller
  <2>1. ASSUME NEW lba \in Sector, NEW count \in 0..NBlk, Begin(lba, count) PROVE IInv'
    BY <2>1, BeginInv
  <2>2. ASSUME NEW n \in 0..NBlk, Run(n) PROVE IInv'
    BY <2>2, RunInv
  <2>3. ASSUME NEW b \in Buf, NEW at \in 0..ChunkLen - 1, NEW cnt \in 1..ChunkLen - at, Push(b, at, cnt)
        PROVE  IInv'
    BY <2>3, PushInv
  <2>4. Settle \/ End => IInv'
    BY SettleEndInv
  <2>5. Abort => IInv'
    BY AbortInv
  <2> QED BY <1>1, <2>1, <2>2, <2>3, <2>4, <2>5 DEF Caller
<1>2. CASE Step
  BY <1>2, LoopCollectInv, LoopPushInv, AbortInv, LoopSettledInv, LoopStopInv, ChunkInInv, TailInInv,
     DataErrorInv, RunFinishInv, RecoverInv, ReopenInv DEF Step
<1>3. CASE DataPath \/ CardPulled
  BY <1>3, CardTakesInv, CardFaultInv DEF DataPath
<1>4. CASE Refill
  BY <1>4, RefillInv
<1>5. CASE UNCHANGED vars
  <2>1. UNCHANGED <<st, call, ret, owned, present, slow, dpsm, wire, card, disk, mem, want, handed>>
    BY <1>5 DEF vars, result, hardware, memory
  <2>2. TypeOK'
    BY <2>1 DEF IInv, TypeOK
  <2>3. Ordered' /\ InStep' /\ AckedOnCard' /\ FetchedRight' /\ VerifiedOnCard'
    BY <2>1, StreamFrame
  <2>4. Held' /\ PushGoing' /\ Progress' /\ SettledAll'
    BY <2>1 DEF IInv, Held, PushGoing, Progress, SettledAll, Limit
  <2> QED BY <2>2, <2>3, <2>4 DEF IInv
<1> QED BY <1>1, <1>2, <1>3, <1>4, <1>5 DEF Next

(* The inductive invariant holds in every reachable state. *)
THEOREM IInvariance == Spec => []IInv
<1> QED BY IInvInit, IInvStep, PTL DEF Spec

(* The stream, its data path and its buffers stay well typed: no counter of *)
(* sd_stream_t leaves the transfer, no address leaves the card.             *)
THEOREM StreamTyped == Spec => []TypeOK
<1>1. IInv => TypeOK
  BY DEF IInv
<1> QED BY <1>1, IInvariance, PTL

(* Whatever sd_stream_t counts as verified is on the card as the caller     *)
(* meant it, for any sequence of failures and retries.                      *)
THEOREM VerifiedIsOnCard == Spec => []VerifiedOnCard
<1>1. IInv => VerifiedOnCard
  BY DEF IInv
<1> QED BY <1>1, IInvariance, PTL

(* sd_stream_settle and sd_stream_end report success only when every block  *)
(* of every successful push is on the card.                                 *)
THEOREM SettledIsOnCard == Spec => []SettledOnCard
<1>1. IInv => SettledOnCard
  BY DEF IInv, SettledAll, VerifiedOnCard, SettledOnCard
<1> QED BY <1>1, IInvariance, PTL

(* Between calls, what the card has not acknowledged lies in the one chunk  *)
(* sd_stream_t remembers, and that buffer is still as it was pushed.        *)
THEOREM ResendAlwaysCovered == Spec => []ResendCovered
<1>1. ASSUME IInv PROVE ResendCovered
  <2> SUFFICES ASSUME call.pc = "idle", owned, dpsm.acked < handed PROVE
        /\ st.prev # NoBuf /\ st.prevOff <= st.verified /\ st.prevEnd = handed
        /\ \A o \in st.prevOff .. handed - 1 : mem[st.prev][st.prevAt + 1 + o - st.prevOff] = want[o]
    BY DEF ResendCovered
  <2>1. st.open /\ st.verified <= dpsm.acked
    BY <1>1 DEF IInv, Progress, InStep
  <2>2. handed \in Nat /\ st.verified \in Nat /\ dpsm.acked \in Nat
    BY <1>1, Typed DEF IInv
  <2> QED BY <1>1, <2>1, <2>2 DEF IInv, Held
<1> QED BY <1>1, IInvariance, PTL

(* The stop command of sd_stream_end never cuts off data: a call that       *)
(* returns success leaves nothing pushed unacknowledged.                    *)
THEOREM NothingCutOff == Spec => NoSilentStop
<1>1. ASSUME IInv, [Next]_vars PROVE [call.pc = "loop" /\ call.pc' = "idle" /\ ret' = "OK" => dpsm.acked = st.pushed]_vars
  <2> SUFFICES ASSUME call.pc = "loop", call'.pc = "idle", ret' = "OK", Next PROVE dpsm.acked = st.pushed
    BY <1>1
  <2>1. ASSUME ~st.started PROVE dpsm.acked = st.pushed
    BY <1>1, <2>1 DEF IInv, Progress, InStep
  <2>2. CASE Caller
    BY <2>2 DEF Caller, Begin, Run, Push, Settle, End, Abort
  <2>3. CASE Step
    <3>1. ~LoopCollect /\ ~LoopPush
      BY <1>1 DEF LoopCollect, LoopPush, IInv, TypeOK
    <3>2. ~LoopShort
      BY DEF LoopShort, Return
    <3>3. LoopSettled \/ LoopStop => ~st.started
      BY DEF LoopSettled, LoopStop, MayStop
    <3>4. ~ChunkIn /\ ~TailIn /\ ~DataError /\ ~RunFinish /\ ~Recover /\ ~Reopen
      BY DEF ChunkIn, TailIn, DataError, RunFinish, Recover, Reopen
    <3> QED BY <2>1, <2>3, <3>1, <3>2, <3>3, <3>4 DEF Step
  <2>4. CASE DataPath \/ CardPulled \/ Refill
    BY <2>4 DEF DataPath, CardTakes, CardRejects, DataTimer, CardPulled, Refill
  <2> QED BY <2>2, <2>3, <2>4 DEF Next
<1> QED BY <1>1, IInvariance, PTL DEF Spec, NoSilentStop

---------------------------------------------------------------------------
(* What the card is given.  IInv bounds what is pushed while a call is in   *)
(* progress; between calls, a stream a failed call left running holds no    *)
(* more than the successful pushes.                                         *)
NoneExtra == call.pc = "idle" /\ st.started => st.pushed <= handed

LEMMA NoneExtraStep ==
  ASSUME IInv, NoneExtra, [Next]_vars
  PROVE  NoneExtra'
<1> SUFFICES ASSUME call'.pc = "idle", st'.started PROVE st'.pushed <= handed'
  BY DEF NoneExtra
<1>1. /\ handed \in Nat /\ st.pushed \in Nat /\ st \in Stream /\ call \in CallType /\ st \in Stream
  BY Typed DEF IInv, TypeOK, CallType
<1>2. CASE Caller
  <2>1. ASSUME NEW lba \in Sector, NEW count \in 0..NBlk, Begin(lba, count) PROVE ~st'.started
    <3> DEFINE s == [Closed EXCEPT !.lba = lba, !.total = count]
    <3>1. st' = Closed \/ st' = Opened(s) \/ st' = NotOpened(s)
      BY <2>1 DEF Begin
    <3>2. s \in Stream /\ ~Closed.started
      <4>1. NBlk \in Nat /\ lba \in 0..NBlk /\ 0 \in 0..NBlk /\ 0 \in 0..Retries /\ 0 \in 0..ChunkLen
        BY Sizes DEF Sector
      <4>2. Closed \in Stream /\ ~Closed.started
        BY <4>1 DEF Closed, Stream
      <4> QED BY <4>1, <4>2 DEF Stream
    <3> HIDE DEF s
    <3>3. ~Opened(s).started /\ ~NotOpened(s).started
      BY <3>2, OpenedStream
    <3> QED BY <3>1, <3>2, <3>3
  <2>2. ASSUME NEW n, Run(n) PROVE st'.pushed <= handed'
    <3>1. st'.pushed = st.pushed /\ st'.started = st.started /\ handed' = handed /\ call.pc = "idle"
      BY <1>1, <2>2 DEF Run, memory, Stream
    <3> QED BY <3>1 DEF NoneExtra
  <2>3. ASSUME NEW b, NEW at, NEW cnt, Push(b, at, cnt) PROVE st'.pushed <= handed'
    BY <2>3 DEF Push, NoneExtra
  <2>4. ~Settle /\ ~End
    BY DEF Settle, End, NoCall
  <2>5. ASSUME Abort PROVE ~st'.started
    BY <2>5, AbortedStream DEF Abort, IInv, TypeOK, Ordered
  <2> QED BY <1>2, <2>1, <2>2, <2>3, <2>4, <2>5 DEF Caller
<1>3. CASE Step
  <2>1. ~LoopCollect /\ ~LoopPush /\ ~TailIn /\ ~RunFinish
    <3>1. ASSUME NEW pc \in {"loop", "dma", "finish", "recover"}, NEW e \in Ret,
                 call' = [call EXCEPT !.pc = pc] \/ call' = [call EXCEPT !.pc = pc, !.e = e]
          PROVE  FALSE
      BY <1>1, <3>1 DEF CallType
    <3>2. "OK" \in Ret /\ "CRC" \in Ret /\ "TIMEOUT" \in Ret
      BY DEF Ret, Err
    <3> QED BY <3>1, <3>2 DEF LoopCollect, LoopPush, TailIn, RunFinish
  <2>2. LoopShort \/ Recover => ~st'.started
    <3>1. ~Aborted(st).started /\ Aborted(st) \in Stream
      BY AbortedStream DEF IInv, TypeOK, Ordered
    <3> QED BY <3>1 DEF LoopShort, Recover, Stream
  <2>3. LoopSettled => ~st'.started
    BY DEF LoopSettled
  <2>4. LoopStop => ~st'.started
    BY <1>1 DEF LoopStop, MayStop, Stopped, Stream
  <2>5. Reopen => ~st'.started
    <3>1. ~NotOpened(st).started
      BY <1>1, OpenedStream
    <3>2. call'.pc = "idle" /\ call \in CallType
      BY <1>1
    <3> QED BY <3>1, <3>2 DEF Reopen, CallType
  <2>6. ASSUME ChunkIn PROVE st'.pushed <= handed'
    <3>1. st'.pushed = st.pushed /\ handed' = call.before + call.cnt /\ call.pc = "dma"
      BY <1>1, <2>6 DEF ChunkIn, ChunkHeld, Stream
    <3>2. st.pushed = call.before + call.cnt
      BY <3>1 DEF IInv, Progress
    <3> QED BY <1>1, <3>1, <3>2
  <2>7. ASSUME DataError PROVE st'.pushed <= handed'
    <3>1. call.pc = "tail" /\ handed' = handed
      <4>1. ASSUME call' = [call EXCEPT !.pc = "recover", !.e = dpsm.err] PROVE FALSE
        BY <1>1, <4>1 DEF CallType
      <4> QED BY <2>7, <4>1 DEF DataError, memory
    <3>2. st'.pushed = st.pushed
      BY <1>1, <2>7 DEF DataError, NoteFailure, Stream
    <3>3. st.pushed = handed
      BY <3>1 DEF IInv, Progress
    <3> QED BY <1>1, <3>1, <3>2, <3>3
  <2> QED BY <1>3, <2>1, <2>2, <2>3, <2>4, <2>5, <2>6, <2>7 DEF Step
<1>4. CASE DataPath \/ CardPulled \/ Refill \/ UNCHANGED vars
  <2>1. UNCHANGED <<st, call, handed>>
    BY <1>4 DEF DataPath, CardTakes, CardRejects, DataTimer, CardPulled, Refill, vars, memory
  <2> QED BY <2>1 DEF NoneExtra
<1> QED BY <1>2, <1>3, <1>4 DEF Next

(* A block the card programs is one the caller pushed, at its place and     *)
(* with the content it had then.                                            *)
THEOREM OnlyPushedData == Spec => CardGetsOnlyPushed
<1> DEFINE Reach == handed + (IF call.op = "push" THEN call.cnt ELSE 0)
           Meant == \A s \in Sector : disk'[s] # disk[s] =>
                      /\ s >= st.lba /\ s - st.lba < Reach
                      /\ disk'[s] = want[s - st.lba]
<1>1. Init => NoneExtra
  BY DEF Init, Closed, NoneExtra
<1>2. IInv /\ NoneExtra /\ [Next]_vars => NoneExtra'
  BY NoneExtraStep
<1>3. ASSUME IInv, NoneExtra, [Next]_vars PROVE [Meant]_disk
  <2>1. CASE CardTakes
    <3>1. /\ card.at = st.lba + dpsm.acked /\ wire[dpsm.acked] = want[dpsm.acked]
          /\ dpsm.acked \in Sector /\ card.at \in Sector /\ dpsm.acked < st.pushed
      BY <1>3, <2>1, CardTakesInv
    <3>2. disk' = [disk EXCEPT ![card.at] = wire[dpsm.acked]] /\ st.started
      BY <2>1 DEF CardTakes
    <3>3. /\ st.lba \in Nat /\ dpsm.acked \in Nat /\ st.pushed \in Nat /\ handed \in Nat /\ call.cnt \in Nat
          /\ call.before \in Nat /\ disk \in [Sector -> Value]
          /\ call.pc \in {"idle", "loop", "dma", "tail", "finish", "recover", "reopen"}
      BY <1>3, Typed DEF IInv, TypeOK
    <3>4. st.pushed <= Reach
      <4>1. CASE call.pc = "idle"
        BY <1>3, <3>2, <3>3, <4>1 DEF NoneExtra
      <4>2. CASE call.pc \in {"loop", "finish", "tail"}
        BY <1>3, <3>2, <3>3, <4>2 DEF IInv, Progress
      <4>3. CASE call.pc \in {"dma", "recover", "reopen"}
        <5>1. call.op = "push" => call.before = handed
          BY <1>3, <4>3 DEF IInv, PushGoing
        <5>2. st.pushed <= Limit
          BY <1>3, <3>3, <4>3 DEF IInv, Progress, Limit
        <5> QED BY <3>3, <5>1, <5>2 DEF Limit
      <4> QED BY <3>3, <4>1, <4>2, <4>3
    <3>5. Reach \in Nat
      BY <3>3
    <3>6. \A s \in Sector : disk'[s] # disk[s] => s = card.at /\ disk'[s] = wire[dpsm.acked]
      BY <3>1, <3>2, <3>3
    <3>7. card.at - st.lba = dpsm.acked /\ card.at >= st.lba
      BY <3>1, <3>3
    <3> HIDE DEF Reach
    <3> QED BY <3>1, <3>3, <3>4, <3>5, <3>6, <3>7
  <2>2. CASE ~CardTakes
    <3>1. disk' = disk
      BY <1>3, <2>2 DEF Next, vars, Caller, Step, DataPath, Begin, Run, Push, Settle, End, Abort,
        LoopCollect, LoopPush, LoopShort, LoopSettled, LoopStop, ChunkIn, TailIn, DataError, RunFinish,
        Recover, Reopen, CardRejects, DataTimer, CardPulled, Refill, hardware
    <3> QED BY <3>1
  <2> QED BY <2>1, <2>2
<1> QED BY <1>1, <1>2, <1>3, IInvariance, PTL DEF Spec, CardGetsOnlyPushed
=============================================================================
