--------------------------- MODULE MscWriteProofs ---------------------------
(***************************************************************************)
(* The WRITE command is a lawful caller of the streamed write and a block  *)
(* device to its host, for every card, image layout, chunk length, number  *)
(* of buffers and host data.                                               *)
(***************************************************************************)
EXTENDS MscWrite, SdWriteStreamProofs, FiniteSetTheorems, WellFoundedInduction

---------------------------------------------------------------------------
(* The invariant of the command, one idea per conjunct.  Between the        *)
(* "flush" and the end of the command its data phase is going; "piece" to   *)
(* "ending" work on one received buffer.                                    *)
Going   == cmd.pc \in {"arm", "wait", "piece", "begun", "pushing", "ending", "settling"}
InPiece == cmd.pc \in {"piece", "begun", "pushing", "ending"}
Resting == cmd.pc \in {"idle", "refuse", "flush"}

CmdPc  == {"idle", "refuse", "flush", "arm", "wait", "piece", "begun", "pushing", "ending", "settling"}
CmdRec == [pc : CmdPc, first : Nat, n : Nat, fsec : Nat, armed : Nat, received : Nat,
           open : BOOLEAN, seg : Nat, segDone : Nat, free : SUBSET Buf, hold : Buf \cup {NoBuf},
           buf : Buf \cup {NoBuf}, off : Nat, len : Nat]
WbRec  == [open : BOOLEAN, fsec : Nat, seg : Nat, segDone : Nat]
Request    == [buf : Buf, len : 1..ChunkLen, from : Nat]
Completion == [buf : Buf, len : 0..ChunkLen]

WTypeOK ==
  /\ cmd \in CmdRec /\ wb \in WbRec
  /\ armed \in Seq(Request) /\ rxdone \in Seq(Completion) /\ InFlightBufs <= 2
  /\ status \in {"none", "pending", "passed", "failed", "aborted"} /\ ncmd \in Nat

(* Who owns the stream, and which call the command waits for.               *)
Ownership ==
  /\ wb.open => Resting /\ CallIdle
  /\ cmd.pc = "flush" => wb.open
  /\ cmd.open => cmd.pc \in {"arm", "wait", "piece", "pushing", "ending", "settling"}
  /\ cmd.pc \in {"pushing", "ending", "settling"} => cmd.open
  /\ CallIdle /\ (Resting \/ cmd.pc \in {"arm", "wait", "piece"}) => (owned <=> wb.open \/ cmd.open)
  /\ CallIdle /\ cmd.pc \in {"begun", "pushing", "settling"} => (owned <=> ret = "OK")
  /\ CallIdle /\ cmd.pc = "ending" => ~owned
  /\ cmd.pc = "begun" => CallIdle
  /\ cmd.pc = "pushing" => call.op = "push"
  /\ cmd.pc = "ending" => call.op = "end"
  /\ cmd.pc = "settling" => call.op = "settle"
  /\ ~CallIdle /\ cmd.pc \notin {"pushing", "ending", "settling"} =>
       cmd.pc \in {"idle", "refuse", "arm"} /\ ~cmd.open /\ call.op = "end" /\ call.pc = "loop" /\ ~st.started
  /\ ret # "PARAM"

(* Where the command is in the LUN.                                         *)
Position ==
  /\ cmd.pc = "idle" => cmd = Idle /\ data_out = [f \in {} |-> Blank]
  /\ cmd.pc # "idle" =>
       /\ status = "pending" /\ cmd.n >= 1 /\ cmd.first \in FSec /\ cmd.first + cmd.n - 1 \in FSec
       /\ data_out \in [cmd.first .. cmd.first + cmd.n - 1 -> Value]
       /\ cmd.received <= cmd.armed /\ cmd.armed <= cmd.n
  /\ Resting => cmd.received = 0 /\ cmd.armed = 0
  /\ ~InPiece => cmd.fsec = cmd.first + cmd.received
  /\ InPiece => /\ cmd.fsec = cmd.first + cmd.received + cmd.off
                /\ cmd.off <= cmd.len /\ (cmd.pc # "ending" => cmd.off < cmd.len)
                /\ cmd.len <= ChunkLen /\ cmd.received + cmd.len <= cmd.armed
  /\ cmd.pc = "settling" => cmd.received = cmd.n

(* The LUN sectors from f on lie where the stream writes.                   *)
Lies(f) == \A o \in 0 .. st.total - 1 : f + o \in FSec /\ Place[f + o] = st.lba + o

(* The segment the stream was opened for, and how much of it was pushed.    *)
Segment ==
  /\ wb.open => /\ wb.segDone <= wb.fsec /\ wb.seg = st.total /\ wb.segDone = handed
                /\ Lies(wb.fsec - wb.segDone)
  /\ cmd.open => /\ cmd.segDone <= cmd.fsec /\ cmd.seg = st.total
                 /\ Lies(cmd.fsec - cmd.segDone)
                 /\ IF cmd.pc = "ending" THEN cmd.segDone = cmd.seg ELSE cmd.segDone < cmd.seg
                 /\ handed = cmd.segDone + (IF cmd.pc = "pushing" /\ CallIdle /\ ret = "OK" THEN Piece ELSE 0)
  /\ cmd.pc = "begun" /\ ret = "OK" => st.total = RunFrom(cmd.fsec) /\ handed = 0 /\ Lies(cmd.fsec)
  /\ wb.open \/ (cmd.pc = "begun" /\ ret = "OK") \/ (cmd.pc = "settling" /\ CallIdle /\ ret = "OK") => ~st.started
  /\ cmd.pc = "pushing" /\ ~CallIdle =>
       call.buf = cmd.buf /\ call.at = cmd.off /\ call.cnt = Piece /\ call.before = cmd.segDone

(* How far the run the stream was told of reaches: sd_stream_push refuses   *)
(* to pass it, settle and end to stop before it.                            *)
Heading  == IF st.runEnd > handed THEN st.runEnd ELSE handed + Smaller(st.hint, st.total - handed)
Off      == IF InPiece THEN cmd.off ELSE 0
Left     == Smaller(cmd.n - cmd.received - Off, cmd.seg - cmd.segDone)
Announces ==
  /\ wb.open \/ (cmd.pc = "begun" /\ ret = "OK") => Heading = handed
  /\ cmd.open /\ cmd.pc # "ending" /\ ~(cmd.pc = "pushing" /\ CallIdle /\ ret # "OK") =>
       Heading = cmd.segDone + Left

(* What a caller that announces its runs right makes of the stream.         *)
Guided ==
  /\ st.started \/ st.runEnd > handed => st.hint = 0
  /\ st.runEnd <= handed => st.pushed <= handed
  /\ ~CallIdle /\ call.op = "push" => call.before + call.cnt <= Heading
  /\ ~CallIdle /\ call.op \in {"settle", "end"} => Heading = handed
  /\ ~st.started /\ owned /\ (CallIdle \/ (call.pc = "loop" /\ call.op # "push")) => st.prev = NoBuf
  /\ CallIdle /\ ~owned /\ st.started => dpsm.err # "none"
  /\ st.prev # NoBuf => st.hint = 0
  /\ call.e # "PARAM"

(* What was pushed of the command is in the stream or already on the card.  *)
SegStart == IF cmd.open THEN cmd.fsec - cmd.segDone ELSE cmd.fsec
PushedTo == cmd.fsec + (IF cmd.pc = "pushing" THEN Piece ELSE 0)
Landed ==
  cmd.pc # "idle" =>
    /\ \A s \in cmd.first .. PushedTo - 1 :
         IF s < SegStart THEN disk[Place[s]] = data_out[s] ELSE want[s - SegStart] = data_out[s]
    /\ cmd.open => cmd.first <= SegStart + st.verified

(* No buffer is in two hands, and the one the stream may send again is in   *)
(* the hands of the command.                                                *)
BufOf(q) == {q[i].buf : i \in 1..Len(q)}
Buffers ==
  /\ Resting => armed = <<>> /\ rxdone = <<>> /\ cmd.free = Buf /\ cmd.hold = NoBuf
  /\ cmd.buf # NoBuf <=> InPiece
  /\ InUse \cap cmd.free = {} /\ cmd.buf \notin InUse \cup cmd.free /\ cmd.hold \notin InUse \cup cmd.free
  /\ cmd.hold # NoBuf => cmd.hold # cmd.buf
  /\ \A i, j \in 1..Len(armed) : armed[i].buf = armed[j].buf => i = j
  /\ \A i, j \in 1..Len(rxdone) : rxdone[i].buf = rxdone[j].buf => i = j
  /\ BufOf(armed) \cap BufOf(rxdone) = {}
  /\ owned => IF cmd.open THEN st.prev \in {NoBuf, cmd.hold, cmd.buf} ELSE st.prev = NoBuf
  /\ cmd.pc = "pushing" /\ CallIdle /\ ret = "OK" => st.prev = cmd.buf

(* What is in a buffer that was filled, and what the armed ones are for.    *)
Holds(b, len, f) == \A i \in 1..len : mem[b][i] = data_out[f + i - 1]
RxFrom == cmd.first + cmd.received + (IF InPiece THEN cmd.len ELSE 0)
Whole  == \A i \in 1..Len(rxdone) : rxdone[i].len > 0
RxLen(i) == IF i <= Len(rxdone) THEN rxdone[i].len ELSE 0
ArmLen(i) == IF i <= Len(armed) THEN armed[i].len ELSE 0
Incoming ==
  /\ InPiece => Holds(cmd.buf, cmd.len, cmd.first + cmd.received)
  /\ \A i \in 1..Len(armed) : armed[i].from >= cmd.first /\ armed[i].from + armed[i].len <= cmd.first + cmd.armed
  /\ RxFrom + RxLen(1) <= cmd.first + cmd.armed
  /\ Len(rxdone) >= 1 => Holds(rxdone[1].buf, rxdone[1].len, RxFrom)
  /\ Len(rxdone) = 2 /\ Whole => Holds(rxdone[2].buf, rxdone[2].len, RxFrom + RxLen(1))
  /\ Whole => /\ Len(armed) >= 1 => armed[1].from = RxFrom + RxLen(1)
              /\ Len(armed) = 2 => armed[2].from = armed[1].from + armed[1].len
              /\ cmd.first + cmd.armed = RxFrom + RxLen(1) + RxLen(2) + ArmLen(1) + ArmLen(2)

WInv ==
  /\ WTypeOK /\ Ownership /\ Position /\ Segment /\ Announces /\ Guided
  /\ Landed /\ Buffers /\ Incoming
---------------------------------------------------------------------------
(* Constants and types. *)

LEMMA Layout ==
  /\ FSec \subseteq Nat /\ Place \in [FSec -> Sector]
  /\ \A f, g \in FSec : Place[f] = Place[g] => f = g
  /\ \A f, g \in FSec : f .. g \subseteq FSec
  /\ Cardinality(FSec) \in Nat /\ \A f \in Nat : f < Cardinality(FSec) <=> f \in FSec
<1>1. Cardinality(FSec) \in Nat
  BY PlaceAssumption, FS_CardinalityType
<1> QED BY <1>1, PlaceAssumption

LEMMA SmallerOf ==
  ASSUME NEW a \in Int, NEW b \in Int
  PROVE  /\ Smaller(a, b) \in Int /\ Smaller(a, b) <= a /\ Smaller(a, b) <= b
         /\ Smaller(a, b) = a \/ Smaller(a, b) = b
BY DEF Smaller

(* A nonempty set of naturals has a least element. *)
LEMMA LeastNatural ==
  ASSUME NEW T \in SUBSET Nat, T # {}
  PROVE  \E m \in T : \A k \in T : m <= k
<1> DEFINE R == OpToRel(<, Nat)
<1>1. \E m \in T : \A k \in T : ~ (<<k, m>> \in R)
  <2>1. IsWellFoundedOn(R, Nat)
    BY NatLessThanWellFounded
  <2> HIDE DEF R
  <2> QED BY <2>1, WFMin
<1>2. \A k, m \in Nat : k < m => <<k, m>> \in R
  BY DEF OpToRel
<1> HIDE DEF R
<1>3. PICK m \in T : \A k \in T : ~ (<<k, m>> \in R)
  BY <1>1
<1>4. ASSUME NEW k \in T PROVE m <= k
  <2>1. m \in Nat /\ k \in Nat /\ ~ (k < m)
    BY <1>2, <1>3
  <2> QED BY <2>1
<1> QED BY <1>4

(* lun_map finds the run a sector begins: at least that sector, all of it   *)
(* in the LUN and consecutive on the card.                                  *)
LEMMA RunFromRun ==
  ASSUME NEW f \in FSec
  PROVE  /\ RunFrom(f) \in Nat /\ RunFrom(f) >= 1
         /\ \A i \in 0 .. RunFrom(f) - 1 : f + i \in FSec /\ Place[f + i] = Place[f] + i
         /\ Place[f] \in Sector /\ RunFrom(f) \in 0..NBlk /\ Place[f] + RunFrom(f) <= NBlk
<1> DEFINE C == Cardinality(FSec)
           Goes(n) == f + n \in FSec /\ Place[f + n] = Place[f] + n
           T == {n \in 1..C : ~Goes(n)}
           Run1(n) == (\A i \in 0..n - 1 : Goes(i)) /\ ~Goes(n)
<1>1. C \in Nat /\ f \in Nat /\ f < C /\ f + C \notin FSec /\ Place[f] \in Nat
  BY Layout, Sizes DEF Sector
<1>2. T # {} /\ T \in SUBSET Nat
  BY <1>1
<1>3. PICK m \in T : \A k \in T : m <= k
  BY <1>2, LeastNatural
<1>4. Run1(m) /\ m \in 1..C
  <2>1. \A i \in 1..m - 1 : Goes(i)
    BY <1>1, <1>3
  <2>2. Goes(0)
    BY <1>1
  <2> QED BY <1>1, <1>3, <2>1, <2>2
<1>5. RunFrom(f) = CHOOSE n \in 1..C : Run1(n)
  BY DEF RunFrom
<1>6. RunFrom(f) \in 1..C /\ Run1(RunFrom(f))
  <2> HIDE DEF Run1, C
  <2> QED BY <1>4, <1>5
<1>7. Goes(RunFrom(f) - 1) /\ RunFrom(f) \in Nat /\ RunFrom(f) >= 1
  BY <1>1, <1>6
<1>8. Place[f + (RunFrom(f) - 1)] < NBlk
  BY <1>7, Layout, Sizes DEF Sector
<1>9. Place[f] + RunFrom(f) <= NBlk
  BY <1>1, <1>6, <1>7, <1>8, Sizes
<1>10. Place[f] \in Sector
  BY Layout
<1>11. RunFrom(f) \in 0..NBlk
  BY <1>1, <1>7, <1>9, Sizes
<1> QED BY <1>6, <1>7, <1>9, <1>10, <1>11
---------------------------------------------------------------------------
(* The steps of the stream under the command. *)

(* What a step of the driver, the data path or the card leaves as it is,    *)
(* and how a call returns.                                                  *)
PushDone == call.op = "push" /\ ret' = "OK"
Carries ==
  /\ UNCHANGED <<mem, want>>
  /\ st'.lba = st.lba /\ st'.total = st.total /\ st.verified <= st'.verified
  /\ Heading' = Heading
  /\ CallIdle => UNCHANGED <<st, call, ret, owned, handed>>
  /\ ~CallIdle =>
       /\ call'.op = call.op
       /\ call'.pc # "idle" =>
            /\ UNCHANGED <<ret, owned, handed>> /\ st'.prev \in {st.prev, NoBuf}
            /\ call'.buf = call.buf /\ call'.at = call.at /\ call'.cnt = call.cnt /\ call'.before = call.before
       /\ call'.pc = "idle" =>
            /\ (owned' <=> ret' = "OK" /\ call.op # "end") /\ ret' # "PARAM"
            /\ PushDone => handed' = call.before + call.cnt /\ st'.prev = call.buf
            /\ ~PushDone => handed' = handed /\ st'.prev \in {st.prev, NoBuf}
  /\ ~CallIdle /\ call'.pc = "idle" /\ call.op = "settle" /\ ret' = "OK" => ~st'.started
  /\ call.pc = "loop" /\ call.op = "end" /\ ~st.started =>
       ~st'.started /\ st'.prev = st.prev /\ (call' = call \/ call'.pc = "idle")

LEMMA StreamIn ==
  ASSUME IInv
  PROVE  /\ st \in Stream /\ call \in CallType
         /\ NBlk \in Nat /\ ChunkLen \in Nat /\ handed \in Nat /\ dpsm.acked \in Nat
         /\ st.open \in BOOLEAN /\ st.started \in BOOLEAN /\ owned \in BOOLEAN
         /\ st.lba \in Nat /\ st.total \in Nat /\ st.pushed \in Nat /\ st.verified \in Nat
         /\ st.runEnd \in Nat /\ st.hint \in Nat /\ st.prevAt \in Nat /\ st.prevOff \in Nat /\ st.prevEnd \in Nat
         /\ call.at \in Nat /\ call.cnt \in Nat /\ call.before \in Nat
         /\ Heading \in Int
         /\ call.pc \in {"idle", "loop", "dma", "tail", "finish", "recover", "reopen"}
         /\ call.op \in {"none", "begin", "push", "settle", "end", "abort"}
<1>1. st \in Stream /\ call \in CallType /\ st.hint \in Nat
  BY StreamFields DEF IInv, TypeOK, CallType
<1> QED BY <1>1, Typed, SmallerOf DEF IInv, Heading, Smaller

LEMMA Returned ==
  ASSUME NEW e, Return(e), call \in CallType
  PROVE  /\ call'.pc = "idle" /\ call'.op = call.op /\ call'.e = "OK"
         /\ ret' = e /\ owned' = (e = "OK" /\ call.op # "end")
BY DEF Return, NoCall, CallType

LEMMA Continued ==
  ASSUME call \in CallType, NEW p, call' = [call EXCEPT !.pc = p]
  PROVE  /\ call'.pc = p /\ call'.op = call.op /\ call'.e = call.e
         /\ call'.buf = call.buf /\ call'.at = call.at /\ call'.cnt = call.cnt /\ call'.before = call.before
BY DEF CallType

LEMMA ErredOn ==
  ASSUME call \in CallType, NEW p, NEW e, call' = [call EXCEPT !.pc = p, !.e = e]
  PROVE  /\ call'.pc = p /\ call'.op = call.op /\ call'.e = e
         /\ call'.buf = call.buf /\ call'.at = call.at /\ call'.cnt = call.cnt /\ call'.before = call.before
BY DEF CallType

LEMMA LoopSteps ==
  ASSUME IInv, Guided, LoopCollect \/ LoopSettled \/ TailIn \/ RunFinish
  PROVE  Carries /\ Guided'
<1>1. CASE LoopCollect \/ TailIn
  <2>1. PICK p \in {"finish", "loop"} : call' = [call EXCEPT !.pc = p]
    BY <1>1 DEF LoopCollect, TailIn
  <2>2. UNCHANGED <<st, ret, owned, dpsm, mem, want, handed>> /\ st.started /\ call.pc \in {"loop", "tail"}
    BY <1>1 DEF LoopCollect, TailIn, RunComplete, result, memory, hardware, IInv, Progress
  <2> QED BY <2>1, <2>2, StreamIn, Continued DEF CallIdle, Carries, Guided, Heading
<1>2. CASE LoopSettled
  <2>1. /\ Return("OK") /\ call.pc = "loop" /\ call.op = "settle" /\ ~st.started
        /\ UNCHANGED <<st, dpsm, mem, want, handed>>
    BY <1>2 DEF LoopSettled, memory, hardware
  <2>2. call'.pc = "idle" /\ call'.op = "settle" /\ call'.e = "OK" /\ ret' = "OK" /\ owned'
    BY <2>1, StreamIn, Returned
  <2>3. owned
    BY <2>1 DEF IInv, Progress
  <2>4. Heading' = Heading
    BY <2>1 DEF Heading
  <2>5. Carries
    BY <2>1, <2>2, <2>4, StreamIn DEF CallIdle, Carries, PushDone
  <2> QED BY <2>1, <2>2, <2>3, <2>4, <2>5, StreamIn DEF CallIdle, Guided
<1>3. CASE RunFinish
  <2>1. /\ st' = [st EXCEPT !.started = FALSE, !.verified = st.pushed, !.prev = NoBuf]
        /\ call' = [call EXCEPT !.pc = "loop"] /\ call.pc = "finish"
        /\ UNCHANGED <<ret, owned, dpsm, mem, want, handed>>
    BY <1>3 DEF RunFinish, result, memory, hardware
  <2>2. /\ st'.lba = st.lba /\ st'.total = st.total /\ st'.verified = st.pushed /\ st'.pushed = st.pushed
        /\ st'.runEnd = st.runEnd /\ st'.hint = st.hint /\ st'.prev = NoBuf /\ ~st'.started
    BY <2>1, StreamIn DEF Stream
  <2>3. st.verified <= st.pushed /\ st.started
    BY <2>1 DEF IInv, Ordered, Progress
  <2>4. call'.pc = "loop" /\ call'.op = call.op /\ call'.e = call.e /\ call'.buf = call.buf
        /\ call'.at = call.at /\ call'.cnt = call.cnt /\ call'.before = call.before
    BY <2>1, StreamIn, Continued
  <2>5. Heading' = Heading
    BY <2>1, <2>2 DEF Heading
  <2>6. Carries
    BY <2>1, <2>2, <2>3, <2>4, <2>5, StreamIn DEF CallIdle, Carries
  <2> QED BY <2>1, <2>2, <2>3, <2>4, <2>5, <2>6, StreamIn DEF CallIdle, Guided
<1> QED BY <1>1, <1>2, <1>3

LEMMA ReturnSteps ==
  ASSUME IInv, Guided, LoopShort \/ LoopStop \/ ChunkIn
  PROVE  Carries /\ Guided'
<1>1. ~LoopShort
  <2> SUFFICES ASSUME LoopShort PROVE FALSE
    OBVIOUS
  <2>1. st.pushed < st.runEnd /\ st.pushed = handed /\ Heading = handed
    BY StreamIn DEF LoopShort, IInv, Progress, Guided, CallIdle
  <2> QED BY <2>1, StreamIn DEF Heading
<1>2. CASE LoopStop
  <2>1. /\ call.pc = "loop" /\ call.op = "end" /\ ~st.started
        /\ UNCHANGED <<dpsm, mem, want, handed>>
        /\ st' = [st EXCEPT !.open = FALSE, !.verified = st.pushed] \/ st' = [st EXCEPT !.open = FALSE]
    BY <1>2 DEF LoopStop, MayStop, Stopped, memory
  <2>2. PICK e \in {"OK", "BUSY", "CRC", "TIMEOUT"} : Return(e)
    BY <1>2 DEF LoopStop
  <2>3. call'.pc = "idle" /\ call'.op = "end" /\ call'.e = "OK" /\ ret' = e /\ ~owned'
    BY <2>1, <2>2, StreamIn, Returned
  <2>4. /\ st'.lba = st.lba /\ st'.total = st.total /\ st'.pushed = st.pushed /\ st'.started = st.started
        /\ st'.runEnd = st.runEnd /\ st'.hint = st.hint /\ st'.prev = st.prev
        /\ st'.verified \in {st.verified, st.pushed}
    BY <2>1, StreamIn DEF Stream
  <2>5. st.verified <= st.pushed
    BY DEF IInv, Ordered
  <2>6. Heading' = Heading
    BY <2>1, <2>4 DEF Heading
  <2>7. Carries
    BY <2>1, <2>2, <2>3, <2>4, <2>5, <2>6, StreamIn DEF CallIdle, Carries, PushDone
  <2> QED BY <2>1, <2>2, <2>3, <2>4, <2>6, <2>7, StreamIn DEF CallIdle, Guided
<1>3. CASE ChunkIn
  <2>1. /\ call.pc = "dma" /\ handed' = call.before + call.cnt /\ Return("OK")
        /\ st' = [st EXCEPT !.verified = Larger(st.verified, call.before),
                            !.prev = call.buf, !.prevAt = call.at,
                            !.prevOff = call.before, !.prevEnd = call.before + call.cnt]
        /\ UNCHANGED <<dpsm, mem, want>>
    BY <1>3 DEF ChunkIn, ChunkHeld, hardware
  <2>2. /\ st'.lba = st.lba /\ st'.total = st.total /\ st'.pushed = st.pushed /\ st'.started = st.started
        /\ st'.runEnd = st.runEnd /\ st'.hint = st.hint /\ st'.prev = call.buf
        /\ st'.verified = Larger(st.verified, call.before)
    BY <2>1, StreamIn DEF Stream
  <2>3. call.op = "push" /\ st.started /\ st.pushed = call.before + call.cnt /\ st.pushed <= st.runEnd
    BY <2>1 DEF IInv, Progress, Ordered
  <2>4. call.before = handed /\ call.cnt >= 1
    BY <2>1, <2>3 DEF IInv, PushGoing
  <2>5. call'.pc = "idle" /\ call'.op = "push" /\ call'.e = "OK" /\ ret' = "OK" /\ owned'
    BY <2>1, <2>3, StreamIn, Returned
  <2>6. st.hint = 0 /\ st.runEnd > handed
    BY <2>3, <2>4, StreamIn DEF Guided
  <2>7. st.total - handed' \in Nat /\ Smaller(0, st.total - handed') = 0
    BY <2>1, <2>3, StreamIn DEF Smaller, IInv, Ordered
  <2>8. Heading' = Heading
    BY <2>1, <2>2, <2>3, <2>6, <2>7, StreamIn DEF Heading
  <2>9. st.verified <= Larger(st.verified, call.before)
    BY StreamIn DEF Larger
  <2>10. Carries
    BY <2>1, <2>2, <2>3, <2>5, <2>8, <2>9, StreamIn DEF CallIdle, Carries, PushDone
  <2> QED BY <2>1, <2>2, <2>3, <2>5, <2>6, <2>8, <2>10, StreamIn DEF CallIdle, Guided
<1> QED BY <1>1, <1>2, <1>3

LEMMA FaultSteps ==
  ASSUME IInv, Guided, DataError \/ DataPath \/ CardPulled
  PROVE  Carries /\ Guided'
<1>1. CASE DataPath \/ CardPulled
  <2>1. /\ UNCHANGED <<st, call, ret, owned, mem, want, handed>>
        /\ dpsm'.err = "none" => dpsm.err = "none"
    BY <1>1, Typed DEF IInv, TypeOK, DataPath, CardTakes, CardRejects, DataTimer, CardPulled, result, memory
  <2>2. Heading' = Heading
    BY <2>1 DEF Heading
  <2>3. Carries
    BY <2>1, <2>2, StreamIn DEF CallIdle, Carries, PushDone
  <2> QED BY <2>1, <2>2, <2>3, StreamIn DEF CallIdle, Guided
<1>2. CASE DataError
  <2>1. /\ call.pc \in {"dma", "tail", "finish"} /\ dpsm.err # "none" /\ UNCHANGED <<dpsm, mem, want, handed>>
        /\ dpsm.err \in {"none", "CRC", "DATA", "TIMEOUT"}
        /\ \/ call' = [call EXCEPT !.pc = "recover", !.e = dpsm.err] /\ UNCHANGED <<ret, owned>>
           \/ Return(dpsm.err)
    BY <1>2, Typed DEF DataError, result, memory, hardware, IInv
  <2>2. PICK done \in {Half * dpsm.acked + k : k \in 0..Half} : st' = NoteFailure(st, done)
    BY <1>2 DEF DataError, InFlight
  <2>3. st.started /\ st.verified <= dpsm.acked /\ dpsm.acked < st.pushed
    BY <2>1 DEF IInv, Progress, Ordered, InStep
  <2>4. st' = [st EXCEPT !.verified = st'.verified] /\ st.verified <= st'.verified
    BY <2>2, <2>3, StreamIn, NoteFailureStream
  <2>5. /\ st'.lba = st.lba /\ st'.total = st.total /\ st'.pushed = st.pushed /\ st'.started = st.started
        /\ st'.runEnd = st.runEnd /\ st'.hint = st.hint /\ st'.prev = st.prev
    BY <2>4, StreamIn DEF Stream
  <2>6. /\ call'.op = call.op /\ call'.e # "PARAM"
        /\ \/ /\ call'.pc = "idle" /\ ret' = dpsm.err /\ ~owned'
           \/ /\ call'.pc = "recover" /\ UNCHANGED <<ret, owned>>
              /\ call'.buf = call.buf /\ call'.at = call.at /\ call'.cnt = call.cnt /\ call'.before = call.before
    <3>1. CASE Return(dpsm.err)
      BY <2>1, <3>1, StreamIn, Returned
    <3>2. CASE call' = [call EXCEPT !.pc = "recover", !.e = dpsm.err] /\ UNCHANGED <<ret, owned>>
      BY <2>1, <3>2, StreamIn, ErredOn
    <3> QED BY <2>1, <3>1, <3>2
  <2>7. Heading' = Heading
    BY <2>1, <2>5 DEF Heading
  <2>8. Carries
    BY <2>1, <2>4, <2>5, <2>6, <2>7, StreamIn DEF CallIdle, Carries, PushDone
  <2> QED BY <2>1, <2>3, <2>5, <2>6, <2>7, <2>8, StreamIn DEF CallIdle, Guided
<1> QED BY <1>1, <1>2

LEMMA RecoverStep ==
  ASSUME IInv, Guided, Recover
  PROVE  Carries /\ Guided'
<1>1. /\ call.pc = "recover" /\ UNCHANGED <<mem, want, handed>>
      /\ \/ call' = [call EXCEPT !.pc = "reopen"] /\ UNCHANGED <<ret, owned>>
         \/ Return(call.e)
  BY DEF Recover, result, memory
<1>2. st.open /\ call.e # "OK" /\ owned /\ call.op \in {"push", "settle", "end"}
  BY <1>1 DEF IInv, Progress
<1>3. PICK a : st' = [Aborted(st) EXCEPT !.attempts = a]
  BY DEF Recover
<1>4. /\ Aborted(st) \in Stream /\ ~Aborted(st).open /\ ~Aborted(st).started
      /\ Aborted(st).pushed = st.verified /\ Aborted(st).verified = st.verified
      /\ Aborted(st).lba = st.lba /\ Aborted(st).total = st.total
      /\ Aborted(st).runEnd = st.runEnd /\ Aborted(st).hint = st.hint /\ Aborted(st).prev = st.prev
  BY StreamIn, AbortedStream DEF IInv, Ordered
<1>5. /\ st'.lba = st.lba /\ st'.total = st.total /\ st'.pushed = st.verified /\ st'.verified = st.verified
      /\ ~st'.started /\ st'.runEnd = st.runEnd /\ st'.hint = st.hint /\ st'.prev = st.prev
  BY <1>3, <1>4 DEF Stream
<1>0. call.pc = "recover" /\ UNCHANGED <<mem, want, handed>>
  BY <1>1
<1>6. /\ call'.op = call.op /\ call'.e # "PARAM"
      /\ \/ /\ call'.pc = "idle" /\ ret' = call.e /\ ~owned'
         \/ /\ call'.pc = "reopen" /\ UNCHANGED <<ret, owned>>
            /\ call'.buf = call.buf /\ call'.at = call.at /\ call'.cnt = call.cnt /\ call'.before = call.before
  BY <1>1, <1>2, StreamIn, Returned, Continued DEF Guided
<1>7. Heading' = Heading
  BY <1>1, <1>5 DEF Heading
<1>8. st.verified <= st.pushed /\ call.e # "PARAM"
  BY DEF IInv, Ordered, Guided
<1>9. Carries
  <2>1. CASE call'.pc = "idle"
    BY <2>1, <1>0, <1>2, <1>5, <1>6, <1>7, <1>8, StreamIn DEF CallIdle, Carries, PushDone
  <2>2. CASE call'.pc = "reopen"
    <3>1. st.verified <= st'.verified
      BY <1>5, StreamIn
    <3>2. UNCHANGED <<mem, want>> /\ st'.lba = st.lba /\ st'.total = st.total /\ Heading' = Heading
      BY <1>0, <1>5, <1>7
    <3>3. UNCHANGED <<ret, owned, handed>> /\ st'.prev \in {st.prev, NoBuf}
      BY <2>2, <1>0, <1>6, <1>5
    <3>4. ~CallIdle
      BY <1>0 DEF CallIdle
    <3> QED BY <3>1, <3>2, <3>3, <3>4, <2>2, <1>0, <1>6 DEF Carries
  <2> QED BY <1>6, <2>1, <2>2
<1>10. Guided'
  <2>1. /\ st.runEnd > handed => st.hint = 0
        /\ st.runEnd <= handed => st.pushed <= handed
        /\ call.op = "push" => call.before + call.cnt <= Heading
        /\ call.op \in {"settle", "end"} => Heading = handed
    BY <1>0 DEF CallIdle, Guided
  <2>2. CASE call'.pc = "idle" /\ ~owned'
    BY <2>1, <2>2, <1>0, <1>5, <1>6, <1>7, <1>8, StreamIn DEF CallIdle, Guided
  <2>3. CASE call'.pc = "reopen"
    BY <2>1, <2>3, <1>0, <1>5, <1>6, <1>7, <1>8, StreamIn DEF CallIdle, Guided
  <2> QED BY <1>6, <2>2, <2>3
<1> QED BY <1>9, <1>10

LEMMA SendingHint ==
  ASSUME NEW s \in Stream, NEW n \in Nat
  PROVE  Sending(s, n).hint = IF s.started THEN s.hint ELSE 0
<1>1. CASE s.started
  BY <1>1 DEF Sending, Stream
<1>2. CASE ~s.started
  <2> DEFINE e == s.pushed + RunLength(s, n)
             m == s.pushed + n
  <2>1. Sending(s, n) = [s EXCEPT !.pushed = m, !.started = TRUE, !.runEnd = e, !.hint = 0]
    BY <1>2 DEF Sending
  <2> HIDE DEF e, m
  <2> QED BY <1>2, <2>1 DEF Stream
<1> QED BY <1>1, <1>2

LEMMA LoopPushStep ==
  ASSUME IInv, Guided, LoopPush
  PROVE  Carries /\ Guided'
<1> DEFINE n == call.cnt - (st.pushed - call.before)
<1>1. /\ call.pc = "loop" /\ call.op = "push" /\ ~RunComplete
      /\ UNCHANGED <<ret, owned, dpsm, mem, want, handed>>
  BY DEF LoopPush, result, memory
<1>2. /\ call.before = handed /\ call.cnt >= 1 /\ call.before + call.cnt <= st.total
      /\ st.runEnd >= call.before + call.cnt \/ st.runEnd <= call.before
  BY <1>1 DEF IInv, PushGoing
<1>3. /\ handed <= st.pushed /\ st.pushed < call.before + call.cnt /\ st.runEnd <= st.total
      /\ st.started => st.pushed = handed /\ st.pushed < st.runEnd
  BY <1>1, StreamIn DEF IInv, Progress, RunComplete, Ordered
<1>4. /\ st.started \/ st.runEnd > handed => st.hint = 0
      /\ st.runEnd <= handed => st.pushed <= handed
      /\ call.before + call.cnt <= Heading
      /\ call.e # "PARAM"
  BY <1>1 DEF CallIdle, Guided
<1>5. CASE st' = Sending(st, n) /\ call' = [call EXCEPT !.pc = "dma"]
  <2>1. n \in Nat /\ st.pushed + n = call.before + call.cnt /\ n <= call.cnt
    BY <1>2, <1>3, StreamIn
  <2> HIDE DEF n
  <2>2. /\ st'.started /\ st'.pushed = call.before + call.cnt
        /\ st'.runEnd = IF st.started THEN st.runEnd ELSE st.pushed + RunLength(st, n)
        /\ st'.lba = st.lba /\ st'.total = st.total /\ st'.verified = st.verified /\ st'.prev = st.prev
        /\ st'.hint = 0
    BY <1>2, <1>3, <1>4, <1>5, <2>1, StreamIn, SendingStream, SendingHint
  <2>3. /\ call'.pc = "dma" /\ call'.op = call.op /\ call'.e = call.e
        /\ call'.buf = call.buf /\ call'.at = call.at /\ call'.cnt = call.cnt /\ call'.before = call.before
    BY <1>5, StreamIn, Continued
  <2>4. Heading' = Heading /\ st'.runEnd > handed /\ st'.runEnd \in Int
    <3>1. CASE st.started
      BY <3>1, <1>1, <1>3, <1>4, <2>2, StreamIn DEF Heading
    <3>2. CASE ~st.started /\ st.runEnd > st.pushed
      <4>1. st'.runEnd = st.runEnd
        BY <3>2, <1>2, <1>3, <2>1, <2>2, StreamIn, RunLengthBounds
      <4> QED BY <4>1, <3>2, <1>1, <1>3, <1>4, <2>2, StreamIn DEF Heading
    <3>3. CASE ~st.started /\ st.runEnd <= st.pushed
      <4>1. st.runEnd <= handed /\ st.pushed = handed /\ n = call.cnt
        BY <3>3, <1>2, <1>3, <1>4, <2>1, StreamIn
      <4>2. Heading = handed + Smaller(st.hint, st.total - handed)
        BY <4>1, StreamIn DEF Heading
      <4>3. st.hint > 0 /\ n <= Smaller(st.hint, st.total - handed)
        BY <4>1, <4>2, <1>2, <1>4, StreamIn DEF Smaller
      <4>4. RunLength(st, n) = Smaller(st.hint, st.total - handed)
        BY <4>1, <4>3, <2>1, StreamIn DEF RunLength, Larger, Smaller
      <4>5. Smaller(st.hint, st.total - handed) \in Int
        BY StreamIn DEF Smaller
      <4>6. st'.runEnd = Heading /\ st'.runEnd > handed /\ st'.runEnd \in Int
        BY <4>1, <4>2, <4>3, <4>4, <4>5, <3>3, <1>2, <2>2, StreamIn
      <4> QED BY <4>6, <1>1 DEF Heading
    <3> QED BY <3>1, <3>2, <3>3, StreamIn
  <2>5. Carries
    BY <1>1, <2>2, <2>3, <2>4, StreamIn DEF CallIdle, Carries
  <2> QED BY <1>1, <1>4, <2>2, <2>3, <2>4, <2>5, StreamIn DEF CallIdle, Guided
<1>6. CASE UNCHANGED st /\ \E e \in {"CRC", "TIMEOUT"} : call' = [call EXCEPT !.pc = "recover", !.e = e]
  <2>1. /\ call'.pc = "recover" /\ call'.op = call.op /\ call'.e # "PARAM"
        /\ call'.buf = call.buf /\ call'.at = call.at /\ call'.cnt = call.cnt /\ call'.before = call.before
    <3>1. PICK e \in {"CRC", "TIMEOUT"} : call' = [call EXCEPT !.pc = "recover", !.e = e]
      BY <1>6
    <3> QED BY <3>1, StreamIn, ErredOn
  <2>2. Heading' = Heading
    BY <1>1, <1>6 DEF Heading
  <2>3. Carries
    BY <1>1, <1>6, <2>1, <2>2, <1>3, StreamIn DEF CallIdle, Carries
  <2> QED BY <1>1, <1>6, <2>1, <2>2, <2>3, StreamIn DEF CallIdle, Guided
<1> QED BY <1>5, <1>6 DEF LoopPush

LEMMA ReopenStep ==
  ASSUME IInv, Guided, Reopen
  PROVE  Carries /\ Guided'
<1>1. call.pc = "reopen" /\ UNCHANGED <<mem, want, handed>> /\ owned
  BY DEF Reopen, memory, IInv, Progress
<1>2. /\ st.verified <= st.pushed /\ st.runEnd <= st.total /\ st.pushed <= st.total
      /\ call.op \in {"push", "settle", "end"}
      /\ call.op # "push" => st.prev # NoBuf /\ st.verified < handed
      /\ st.prev # NoBuf => st.prevEnd = handed /\ st.prevEnd <= st.runEnd
  BY <1>1 DEF IInv, Ordered, Progress, Held
<1>3. /\ st.runEnd > handed => st.hint = 0
      /\ st.runEnd <= handed => st.pushed <= handed
      /\ call.op = "push" => call.before + call.cnt <= Heading
      /\ call.op \in {"settle", "end"} => Heading = handed
      /\ st.prev # NoBuf => st.hint = 0
      /\ call.e # "PARAM"
  BY <1>1 DEF CallIdle, Guided
<1>4. \A r \in {Opened(st), NotOpened(st)} :
        /\ r \in Stream /\ ~r.started /\ r.pushed = st.verified /\ r.verified = st.verified
        /\ r.lba = st.lba /\ r.total = st.total /\ r.runEnd = st.runEnd /\ r.hint = st.hint
        /\ r.prev = st.prev /\ r.prevEnd = st.prevEnd
  BY StreamIn, OpenedStream
<1>5. ASSUME st' \in {Opened(st), NotOpened(st)}
      PROVE  /\ ~st'.started /\ st'.pushed = st.verified /\ st'.verified = st.verified
             /\ st'.lba = st.lba /\ st'.total = st.total /\ st'.runEnd = st.runEnd /\ st'.hint = st.hint
             /\ st'.prev = st.prev /\ Heading' = Heading
  BY <1>1, <1>4, <1>5 DEF Heading
<1>6. CASE st' = NotOpened(st) /\ \E e \in Err : OpenFails(st, e) /\ Return(e)
  <2>1. PICK e \in Err : OpenFails(st, e) /\ Return(e)
    BY <1>6
  <2>2. e \in {"BUSY", "TIMEOUT", "CRC"}
    BY <2>1 DEF OpenFails
  <2>3. call'.pc = "idle" /\ call'.op = call.op /\ call'.e = "OK" /\ ret' = e /\ ~owned'
    BY <2>1, <2>2, StreamIn, Returned
  <2>4. Carries
    BY <1>1, <1>5, <1>6, <2>2, <2>3, StreamIn DEF CallIdle, Carries, PushDone
  <2> QED BY <1>1, <1>2, <1>3, <1>5, <1>6, <2>3, <2>4, StreamIn DEF CallIdle, Guided
<1>7. CASE st' = Opened(st) /\ ~HasTail(Opened(st)) /\ call' = [call EXCEPT !.pc = "loop"] /\ UNCHANGED <<ret, owned>>
  <2>1. /\ call'.pc = "loop" /\ call'.op = call.op /\ call'.e = call.e
        /\ call'.buf = call.buf /\ call'.at = call.at /\ call'.cnt = call.cnt /\ call'.before = call.before
    BY <1>7, StreamIn, Continued
  <2>2. call.op = "push"
    BY <1>2, <1>4, <1>7 DEF HasTail
  <2>3. Carries
    BY <1>1, <1>5, <1>7, <2>1, StreamIn DEF CallIdle, Carries
  <2> QED BY <1>1, <1>2, <1>3, <1>5, <1>7, <2>1, <2>2, <2>3, StreamIn DEF CallIdle, Guided
<1>8. CASE /\ HasTail(Opened(st)) /\ call' = [call EXCEPT !.pc = "tail"] /\ UNCHANGED <<ret, owned>>
           /\ st' = Sending(Opened(st), Opened(st).prevEnd - Opened(st).verified)
  <2> DEFINE s == Opened(st)
             m == s.prevEnd - s.verified
  <2>1. s.prev # NoBuf /\ st.prev # NoBuf /\ st.verified < st.prevEnd /\ s \in Stream
    BY <1>4, <1>8 DEF HasTail
  <2>2. m \in Nat /\ s.pushed + m = handed /\ s.pushed + m <= s.total /\ s.runEnd <= s.total /\ m > 0
    BY <1>2, <1>4, <2>1, StreamIn
  <2>3. /\ st'.started /\ st'.pushed = handed /\ st'.verified = st.verified
        /\ st'.lba = st.lba /\ st'.total = st.total /\ st'.hint = 0 /\ st'.prev = st.prev
        /\ st'.runEnd = s.pushed + RunLength(s, m)
    <3> HIDE DEF m, s
    <3>1. st' = Sending(s, m) /\ ~s.started /\ s.verified = st.verified /\ s.lba = st.lba /\ s.total = st.total
          /\ s.prev = st.prev
      BY <1>4, <1>8 DEF m, s
    <3> QED BY <2>1, <2>2, <3>1, SendingStream, SendingHint
  <2>4. st'.runEnd = st.runEnd
    <3>1. s.runEnd >= s.pushed + m /\ s.runEnd > s.pushed /\ s.runEnd = st.runEnd
      BY <1>2, <1>4, <2>1, <2>2, StreamIn
    <3> HIDE DEF m, s
    <3> QED BY <2>1, <2>2, <2>3, <3>1, RunLengthBounds
  <2>5. /\ call'.pc = "tail" /\ call'.op = call.op /\ call'.e = call.e
        /\ call'.buf = call.buf /\ call'.at = call.at /\ call'.cnt = call.cnt /\ call'.before = call.before
    BY <1>8, StreamIn, Continued
  <2>6. Heading' = Heading
    BY <1>1, <1>3, <2>1, <2>3, <2>4 DEF Heading
  <2> HIDE DEF m, s
  <2>7. Carries
    BY <1>1, <1>8, <2>3, <2>5, <2>6, StreamIn DEF CallIdle, Carries
  <2> QED BY <1>1, <1>3, <1>8, <2>3, <2>4, <2>5, <2>6, <2>7, StreamIn DEF CallIdle, Guided
<1> QED BY <1>6, <1>7, <1>8 DEF Reopen, result

(* The steps of the driver, the data path and the card leave the command    *)
(* its accounts.                                                            *)
LEMMA StreamStep ==
  ASSUME IInv, Guided, Step \/ DataPath \/ CardPulled
  PROVE  Carries /\ Guided'
BY LoopSteps, ReturnSteps, FaultSteps, RecoverStep, LoopPushStep, ReopenStep DEF Step

---------------------------------------------------------------------------
(* The command as a caller of the stream. *)

LEMMA Locals ==
  ASSUME WInv
  PROVE  /\ cmd \in CmdRec /\ cmd.pc \in CmdPc /\ cmd.first \in Nat /\ cmd.n \in Nat /\ cmd.fsec \in Nat
         /\ cmd.armed \in Nat /\ cmd.received \in Nat /\ cmd.open \in BOOLEAN /\ cmd.seg \in Nat
         /\ cmd.segDone \in Nat /\ cmd.free \in SUBSET Buf /\ cmd.hold \in Buf \cup {NoBuf}
         /\ cmd.buf \in Buf \cup {NoBuf} /\ cmd.off \in Nat /\ cmd.len \in Nat
         /\ wb \in WbRec /\ wb.open \in BOOLEAN /\ wb.fsec \in Nat /\ wb.seg \in Nat /\ wb.segDone \in Nat
         /\ armed \in Seq(Request) /\ rxdone \in Seq(Completion)
         /\ Len(armed) \in Nat /\ Len(rxdone) \in Nat
BY DEF WInv, WTypeOK, CmdRec, WbRec

(* The counters of a command alone. *)
LEMMA Counters ==
  ASSUME WInv
  PROVE  /\ cmd.first \in Nat /\ cmd.n \in Nat /\ cmd.fsec \in Nat /\ cmd.armed \in Nat /\ cmd.received \in Nat
         /\ cmd.segDone \in Nat /\ cmd.off \in Nat /\ cmd.len \in Nat
BY Locals

(* A buffer being worked on: what is left of it, and where it lies.         *)
LEMMA PieceIn ==
  ASSUME WInv, InPiece
  PROVE  /\ cmd.buf \in Buf /\ cmd.received + cmd.len <= cmd.n /\ cmd.n >= 1
         /\ cmd.first + cmd.received + cmd.len <= cmd.first + cmd.n
         /\ cmd.pc # "ending" => cmd.fsec \in FSec /\ cmd.off < cmd.len /\ cmd.fsec < cmd.first + cmd.n
         /\ cmd.pc # "ending" /\ cmd.open =>
              /\ Piece \in Nat /\ Piece >= 1 /\ Piece <= cmd.len - cmd.off /\ Piece <= cmd.seg - cmd.segDone
              /\ cmd.off + Piece <= ChunkLen
<1>1. /\ cmd.fsec = cmd.first + cmd.received + cmd.off /\ cmd.received + cmd.len <= cmd.armed /\ cmd.armed <= cmd.n
      /\ cmd.len <= ChunkLen /\ cmd.first + cmd.n - 1 \in FSec /\ cmd.first \in FSec /\ cmd.n >= 1
      /\ cmd.pc # "ending" => cmd.off < cmd.len
  BY DEF WInv, Position, InPiece
<1>0. /\ cmd.first \in Nat /\ cmd.n \in Nat /\ cmd.fsec \in Nat /\ cmd.armed \in Nat /\ cmd.received \in Nat
      /\ cmd.off \in Nat /\ cmd.len \in Nat /\ cmd.seg \in Nat /\ cmd.segDone \in Nat
  BY Locals
<1>2. cmd.pc # "ending" /\ cmd.open => cmd.segDone < cmd.seg
  BY DEF WInv, Segment
<1>3. cmd.buf \in Buf
  BY Locals DEF WInv, Buffers
<1>4. cmd.pc # "ending" => cmd.fsec \in cmd.first .. cmd.first + cmd.n - 1
  BY <1>0, <1>1
<1>5. cmd.pc # "ending" => cmd.fsec \in FSec
  BY <1>1, <1>4, Layout
<1>6. cmd.pc # "ending" /\ cmd.open =>
              /\ Piece \in Nat /\ Piece >= 1 /\ Piece <= cmd.len - cmd.off /\ Piece <= cmd.seg - cmd.segDone
  BY <1>0, <1>1, <1>2 DEF Piece, Smaller
<1> QED BY <1>1, <1>3, <1>4, <1>5, <1>6, <1>0, Sizes

LEMMA IssueStep ==
  ASSUME IInv, WInv, NEW f \in FSec, NEW n \in CmdLens, NEW data \in HostData, Issue(f, n, data)
  PROVE  [Next]_vars
<1>1. CASE UNCHANGED <<stream, mem>>
  BY <1>1 DEF vars, stream, hardware, memory, result
<1>2. CASE Continues(f) /\ Run(Announced(n, wb.seg - wb.segDone))
  <2>1. /\ wb.segDone < wb.seg /\ wb.seg = st.total /\ wb.seg \in Nat /\ wb.segDone \in Nat
        /\ st.total \in 0..NBlk
    BY <1>2, Locals, StreamIn, StreamFields DEF Continues, WInv, Segment
  <2>2. n \in Nat /\ NBlk \in Nat
    BY PlaceAssumption, Layout, Sizes
  <2>3. Announced(n, wb.seg - wb.segDone) \in 0..NBlk
    BY <2>1, <2>2 DEF Announced, Smaller
  <2> QED BY <1>2, <2>3 DEF Next, Caller
<1> QED BY <1>1, <1>2 DEF Issue

LEMMA RunStep ==
  ASSUME IInv, WInv, BeginRun \/ Begun
  PROVE  [Next]_vars
<1>1. CASE BeginRun
  <2>1. cmd.fsec \in FSec
    BY <1>1, PieceIn DEF BeginRun, InPiece
  <2>2. Place[cmd.fsec] \in Sector /\ RunFrom(cmd.fsec) \in 0..NBlk
    BY <2>1, RunFromRun
  <2> QED BY <1>1, <2>2 DEF BeginRun, Next, Caller
<1>2. CASE Begun
  <2>1. CASE ret # "OK"
    BY <1>2, <2>1 DEF Begun, vars, stream, hardware, memory, result
  <2>2. CASE ret = "OK"
    <3> DEFINE left == cmd.n - (cmd.received + cmd.off)
    <3>1. cmd.fsec \in FSec /\ cmd.received + cmd.len <= cmd.n /\ cmd.off < cmd.len
      BY <1>2, PieceIn DEF Begun, InPiece
    <3>2. left \in Nat
      BY <3>1, Counters
    <3>3. RunFrom(cmd.fsec) \in 0..NBlk
      BY <3>1, RunFromRun
    <3>4. Announced(left, RunFrom(cmd.fsec)) \in 0..NBlk
      BY <3>2, <3>3, Sizes DEF Announced, Smaller
    <3> QED BY <1>2, <2>2, <3>4 DEF Begun, Next, Caller
  <2> QED BY <2>1, <2>2
<1> QED BY <1>1, <1>2

LEMMA PushStep ==
  ASSUME IInv, WInv, PushPiece
  PROVE  [Next]_vars
<1>1. cmd.buf \in Buf /\ Piece \in Nat /\ Piece >= 1 /\ cmd.off + Piece <= ChunkLen
  BY PieceIn DEF PushPiece, InPiece
<1>2. cmd.off \in 0..ChunkLen - 1 /\ Piece \in 1..ChunkLen - cmd.off
  <2>1. ChunkLen \in Nat /\ cmd.off \in Nat
    BY Counters, Sizes
  <2> QED BY <1>1, <2>1
<1> QED BY <1>1, <1>2 DEF PushPiece, Next, Caller

(* What the host sends goes into a buffer the stream may spare.             *)
LEMMA ReceptionStep ==
  ASSUME IInv, WInv, HostSends
  PROVE  [Next]_vars
<1> DEFINE r == Head(armed)
           p == [i \in 1..ChunkLen |-> IF i <= r.len THEN data_out[r.from + i - 1] ELSE mem[r.buf][i]]
<1>1. /\ armed # <<>> /\ mem' = [mem EXCEPT ![r.buf] = p]
      /\ UNCHANGED <<st, call, ret, owned, present, slow, hardware, want, handed>>
  BY DEF HostSends, stream
<1>2. armed \in Seq(Request) /\ r = armed[1] /\ 1 \in 1..Len(armed) /\ Len(armed) \in Nat
  BY <1>1, Locals
<1>3. r.buf \in Buf /\ r.len \in 1..ChunkLen /\ r.from \in Nat
  <2>1. armed[1] \in Request
    BY <1>2
  <2> QED BY <1>2, <2>1 DEF Request
<1>4. ~Resting /\ r.buf \in InUse
  BY <1>1, <1>2 DEF WInv, Buffers, InUse
<1>5. r.from >= cmd.first /\ r.from + r.len <= cmd.first + cmd.armed
  BY <1>2 DEF WInv, Incoming
<1>6. /\ data_out \in [cmd.first .. cmd.first + cmd.n - 1 -> Value] /\ cmd.armed <= cmd.n
  BY <1>4 DEF WInv, Position, Resting
<1>7. p \in Pattern
  <2>1. mem[r.buf] \in [1..ChunkLen -> Value]
    BY <1>3, AnyContent DEF IInv, TypeOK
  <2>2. ASSUME NEW i \in 1..ChunkLen, i <= r.len PROVE data_out[r.from + i - 1] \in Value
    <3>1. r.from + i - 1 \in cmd.first .. cmd.first + cmd.n - 1
      <4>1. /\ cmd.first \in Nat /\ cmd.n \in Nat /\ cmd.armed \in Nat /\ r.from \in Nat /\ r.len \in Nat
            /\ ChunkLen \in Nat
        BY <1>3, Locals, Sizes
      <4> HIDE DEF r
      <4> QED BY <4>1, <1>5, <1>6, <2>2
    <3> QED BY <1>6, <3>1
  <2> HIDE DEF r
  <2> QED BY <2>1, <2>2, AnyContent
<1>8. ~Busy(r.buf)
  <2>1. r.buf # cmd.buf /\ r.buf # cmd.hold /\ r.buf # NoBuf
    BY <1>3, <1>4, DataAssumption DEF WInv, Buffers
  <2>2. call.op = "push" /\ ~CallIdle => call.buf = cmd.buf
    BY DEF WInv, Ownership, Segment
  <2>3. owned => st.prev \in {NoBuf, cmd.hold, cmd.buf}
    BY DEF WInv, Buffers
  <2> QED BY <2>1, <2>2, <2>3 DEF Busy, CallIdle
<1>9. CASE mem' = mem
  BY <1>1, <1>9 DEF vars, result, memory
<1>10. CASE mem' # mem
  <2>1. Refill
    BY <1>1, <1>3, <1>7, <1>8, <1>10 DEF Refill, result
  <2> QED BY <2>1 DEF Next
<1> QED BY <1>9, <1>10

(* Every step of the WRITE command is one the stream allows its caller: it  *)
(* calls with arguments in range, one call at a time, and USB refills no    *)
(* buffer the stream may still send from.                                   *)
LEMMA CallerStep ==
  ASSUME IInv, WInv, [WNext]_allVars
  PROVE  [Next]_vars
<1>1. CASE \E f \in FSec, n \in CmdLens, data \in HostData : Issue(f, n, data)
  BY <1>1, IssueStep
<1>2. CASE Flush
  BY <1>2 DEF Flush, Next, Caller
<1>3. CASE Refuse \/ Arm \/ Receive \/ Ended \/ HostSendsShort \/ Exhausted \/ UNCHANGED allVars
  BY <1>3 DEF Refuse, Arm, Receive, Ended, HostSendsShort, Exhausted, allVars, stream, hardware, memory, result, vars
<1>4. CASE AllArmed
  <2>1. CASE Settle
    BY <2>1 DEF Next, Caller
  <2>2. CASE UNCHANGED <<stream, mem>>
    BY <2>2 DEF stream, hardware, memory, result, vars
  <2> QED BY <1>4, <2>1, <2>2 DEF AllArmed
<1>5. CASE PhaseError \/ HostAborts \/ Pushed \/ Settled
  <2>1. CASE Abort \/ End
    BY <2>1 DEF Next, Caller
  <2>2. CASE UNCHANGED <<stream, mem>>
    BY <2>2 DEF stream, hardware, memory, result, vars
  <2> QED BY <1>5, <2>1, <2>2 DEF PhaseError, HostAborts, Pushed, Settled
<1>6. CASE BeginRun \/ Begun
  BY <1>6, RunStep
<1>7. CASE PushPiece
  BY <1>7, PushStep
<1>8. CASE HostSends
  BY <1>8, ReceptionStep
<1>9. CASE SdSteps
  BY <1>9 DEF SdSteps, Next
<1> QED BY <1>1, <1>2, <1>3, <1>4, <1>5, <1>6, <1>7, <1>8, <1>9 DEF WNext, Core, Host

---------------------------------------------------------------------------
(* The invariant of the command, action by action. *)

(* What was pushed of a command is part of it, and the command of the LUN.  *)
LEMMA PushedWithin ==
  ASSUME WInv, cmd.pc # "idle"
  PROVE  /\ PushedTo \in Int /\ PushedTo <= cmd.first + cmd.n
         /\ cmd.first .. cmd.first + cmd.n - 1 \subseteq FSec
         /\ cmd.first .. PushedTo - 1 \subseteq FSec
<1>1. /\ cmd.received \in Nat /\ cmd.off \in Nat /\ cmd.len \in Nat /\ cmd.armed \in Nat
      /\ cmd.segDone \in Nat /\ cmd.fsec \in Nat /\ cmd.first \in Nat /\ cmd.n \in Nat
  BY Locals
<1>2. PushedTo \in Int /\ PushedTo <= cmd.first + cmd.n
  <2>1. CASE cmd.pc = "pushing"
    <3>1. cmd.open
      BY <2>1 DEF WInv, Ownership
    <3>2. /\ Piece \in Nat /\ Piece <= cmd.len - cmd.off /\ cmd.received + cmd.len <= cmd.n
      BY <2>1, <3>1, PieceIn DEF InPiece
    <3>3. cmd.fsec = cmd.first + cmd.received + cmd.off /\ PushedTo = cmd.fsec + Piece
      BY <2>1 DEF WInv, Position, InPiece, PushedTo
    <3> QED BY <3>2, <3>3, <1>1
  <2>2. CASE cmd.pc # "pushing"
    <3>1. PushedTo = cmd.fsec
      BY <2>2, <1>1 DEF PushedTo
    <3>2. /\ cmd.received <= cmd.armed /\ cmd.armed <= cmd.n
          /\ InPiece => cmd.fsec = cmd.first + cmd.received + cmd.off /\ cmd.off <= cmd.len
                        /\ cmd.received + cmd.len <= cmd.armed
          /\ ~InPiece => cmd.fsec = cmd.first + cmd.received
      BY DEF WInv, Position
    <3> QED BY <3>1, <3>2, <1>1
  <2> QED BY <2>1, <2>2
<1>3. cmd.first .. cmd.first + cmd.n - 1 \subseteq FSec
  BY Layout DEF WInv, Position
<1> QED BY <1>1, <1>2, <1>3

(* A block the card takes is one of the pending command, at the place of    *)
(* its sector.                                                              *)
LEMMA CardTakesPending ==
  ASSUME IInv, WInv, CardTakes
  PROVE  LET s == cmd.fsec - cmd.segDone + dpsm.acked
         IN  /\ cmd.open /\ cmd.pc # "idle" /\ s \in FSec /\ s \in cmd.first .. PushedTo - 1
             /\ s \in cmd.first .. cmd.first + cmd.n - 1
             /\ s >= cmd.fsec - cmd.segDone /\ Place[s] \in Sector
             /\ disk' = [disk EXCEPT ![Place[s]] = data_out[s]]
<1> DEFINE base == cmd.fsec - cmd.segDone
           s == base + dpsm.acked
<1>1. /\ card.at = st.lba + dpsm.acked /\ wire[dpsm.acked] = want[dpsm.acked]
      /\ dpsm.acked < st.pushed /\ dpsm.acked \in Nat
  BY CardTakesInv, StreamIn
<1>2. st.started /\ dpsm.err = "none" /\ disk' = [disk EXCEPT ![card.at] = wire[dpsm.acked]]
  BY DEF CardTakes
<1>3. st.open /\ st.verified <= dpsm.acked /\ st.pushed <= st.total
  BY <1>2 DEF IInv, Ordered, InStep
<1>4. owned /\ (CallIdle => st.pushed = handed)
  BY <1>2 DEF WInv, Guided, IInv, Progress, CallIdle
<1>5. cmd.open
  <2>1. CASE wb.open
    BY <2>1, <1>2 DEF WInv, Segment
  <2>2. CASE ~wb.open /\ CallIdle /\ ~cmd.open
    <3>1. cmd.pc = "begun" /\ ret = "OK"
      BY <2>2, <1>4, Locals DEF WInv, Ownership, Resting, CmdPc
    <3> QED BY <3>1, <1>2 DEF WInv, Segment
  <2>3. CASE ~CallIdle /\ ~cmd.open
    BY <2>3, <1>2 DEF WInv, Ownership
  <2> QED BY <2>1, <2>2, <2>3, Locals
<1>6. /\ cmd.pc \in {"arm", "wait", "piece", "pushing", "ending", "settling"}
      /\ Lies(base) /\ cmd.first <= base + st.verified /\ cmd.segDone <= cmd.fsec
      /\ cmd.pc = "pushing" /\ ~CallIdle =>
           call.op = "push" /\ call.cnt = Piece /\ call.before = cmd.segDone /\ handed = cmd.segDone
      /\ cmd.pc = "pushing" /\ CallIdle => handed = cmd.segDone + Piece
      /\ cmd.pc # "pushing" => handed = cmd.segDone /\ (CallIdle \/ call.op # "push")
  BY <1>4, <1>5, Locals DEF WInv, Ownership, Segment, Landed, SegStart, Resting
<1>7. st.pushed <= handed \/ (call.op = "push" /\ ~CallIdle /\ st.pushed <= call.before + call.cnt)
  <2>1. CASE call.pc \in {"loop", "dma", "tail", "finish", "recover", "reopen"}
    BY <2>1, <1>2, StreamIn DEF IInv, Progress, Limit, CallIdle
  <2> QED BY <2>1, <1>4, StreamIn DEF CallIdle
<1>8. cmd.segDone \in Nat /\ cmd.fsec \in Nat /\ cmd.first \in Nat /\ cmd.n \in Nat
  BY Locals
<1>9. cmd.pc = "pushing" => Piece \in Nat
  BY <1>5, PieceIn DEF InPiece
<1>10. base + st.pushed <= PushedTo
  <2>1. CASE cmd.pc = "pushing"
    BY <2>1, <1>6, <1>7, <1>8, <1>9, StreamIn DEF PushedTo
  <2>2. CASE cmd.pc # "pushing"
    BY <2>2, <1>6, <1>7, <1>8, StreamIn DEF PushedTo
  <2> QED BY <2>1, <2>2
<1>11. PushedTo \in Int /\ PushedTo <= cmd.first + cmd.n
  BY <1>6, PushedWithin
<1>12. /\ s \in Int /\ s >= cmd.first /\ s >= base /\ s < PushedTo
  BY <1>1, <1>3, <1>6, <1>8, <1>10, <1>11, StreamIn
<1>13. s \in cmd.first .. PushedTo - 1 /\ s \in cmd.first .. cmd.first + cmd.n - 1
  BY <1>8, <1>11, <1>12
<1>14. s \in FSec /\ Place[s] = card.at
  <2>1. dpsm.acked \in 0 .. st.total - 1
    BY <1>1, <1>3, StreamIn
  <2> QED BY <2>1, <1>1, <1>6 DEF Lies
<1>15. want[dpsm.acked] = data_out[s]
  <2>1. SegStart = base /\ s - SegStart = dpsm.acked /\ ~(s < SegStart)
    BY <1>5, <1>1, <1>8, <1>12 DEF SegStart
  <2>2. cmd.pc # "idle"
    BY <1>6
  <2> HIDE DEF s
  <2> QED BY <2>1, <2>2, <1>13 DEF WInv, Landed
<1>16. Place[s] \in Sector
  BY <1>14, Layout
<1> QED BY <1>1, <1>2, <1>5, <1>6, <1>12, <1>13, <1>14, <1>15, <1>16

(* Nothing but the data path writes to the card. *)
LEMMA DiskKept ==
  ASSUME [Next]_vars, ~CardTakes
  PROVE  disk' = disk
BY DEF Next, vars, Caller, Step, DataPath, Begin, Run, Push, Settle, End, Abort,
  LoopCollect, LoopPush, LoopShort, LoopSettled, LoopStop, ChunkIn, TailIn, DataError, RunFinish,
  Recover, Reopen, CardRejects, DataTimer, CardPulled, Refill, hardware

LEMMA SdStepsInv ==
  ASSUME IInv, WInv, SdSteps
  PROVE  WInv'
<1>1. /\ UNCHANGED <<cmd, wb, armed, rxdone, data_out, status, ncmd>>
      /\ Carries /\ Guided'
  BY StreamStep DEF SdSteps, usb, host, WInv
<1>2. UNCHANGED <<mem, want>> /\ st'.lba = st.lba /\ st'.total = st.total /\ st.verified <= st'.verified
      /\ Heading' = Heading
  BY <1>1 DEF Carries
<1>3. Piece' = Piece /\ PushedTo' = PushedTo /\ SegStart' = SegStart /\ Left' = Left /\ InPiece' = InPiece
      /\ Resting' = Resting
  BY <1>1 DEF Piece, PushedTo, SegStart, Left, Off, InPiece, Resting
<1>11. SegStart \in Int /\ (cmd.open => SegStart = cmd.fsec - cmd.segDone)
  <2>1. cmd.fsec \in Nat /\ cmd.segDone \in Nat
    BY Locals
  <2> QED BY <2>1 DEF SegStart
<1>4. WTypeOK'
  BY <1>1 DEF WInv, WTypeOK, InFlightBufs
<1>5. Position'
  BY <1>1 DEF WInv, Position, InPiece, Resting
<1>6. Incoming'
  BY <1>1, <1>2 DEF WInv, Incoming, Holds, RxFrom, Whole, RxLen, ArmLen, InPiece
<1>7. Landed'
  <2>1. disk' = disk \/ CardTakes
    <3>1. [Next]_vars
      BY DEF SdSteps, Next
    <3> QED BY <3>1, DiskKept
  <2>2. ASSUME cmd.pc # "idle", NEW z \in cmd.first .. PushedTo - 1, z < SegStart,
               CardTakes, z \in FSec
        PROVE  disk'[Place[z]] = data_out[z]
    <3> DEFINE x == cmd.fsec - cmd.segDone + dpsm.acked
    <3>1. cmd.open /\ x \in FSec /\ disk' = [disk EXCEPT ![Place[x]] = data_out[x]]
          /\ x >= cmd.fsec - cmd.segDone
      BY <2>2, CardTakesPending
    <3>2. z # x
      <4> HIDE DEF x
      <4>1. SegStart \in Int /\ z \in Int /\ x \in Int
        BY <2>2, <3>1, <1>11, Layout
      <4>2. x >= SegStart
        BY <3>1, <1>11
      <4> QED BY <2>2, <4>1, <4>2
    <3>3. Place[z] # Place[x] /\ Place[z] \in Sector
      BY <2>2, <3>1, <3>2, Layout
    <3>4. disk \in [Sector -> Value] /\ disk[Place[z]] = data_out[z]
      BY <2>2 DEF IInv, TypeOK, WInv, Landed
    <3> HIDE DEF x
    <3> QED BY <3>1, <3>3, <3>4
  <2>3. ASSUME cmd.pc # "idle", CardTakes, NEW z \in cmd.first .. PushedTo - 1
        PROVE  z \in FSec
    BY <2>3, PushedWithin
  <2>4. cmd.open => cmd.first <= SegStart + st'.verified
    <3>1. IInv'
      BY IInvStep DEF SdSteps, Next
    <3>2. st' \in Stream
      BY <3>1 DEF IInv, TypeOK
    <3>3. st'.verified \in Nat
      BY <3>2, Sizes, StreamFields
    <3>4. SegStart \in Int /\ st.verified \in Nat /\ cmd.first \in Nat
      BY <1>11, Locals, StreamIn
    <3>5. cmd.open => cmd.first <= SegStart + st.verified
      BY DEF WInv, Landed, Ownership
    <3> QED BY <1>2, <3>3, <3>4, <3>5
  <2> QED BY <1>1, <1>2, <1>3, <2>1, <2>2, <2>3, <2>4 DEF WInv, Landed
<1>10. InUse' = InUse /\ BufOf(armed)' = BufOf(armed) /\ BufOf(rxdone)' = BufOf(rxdone)
  BY <1>1 DEF InUse, BufOf
<1>8. CASE CallIdle
  <2>1. UNCHANGED <<st, call, ret, owned, handed>>
    BY <1>1, <1>8 DEF Carries
  <2>2. Ownership'
    BY <1>1, <1>8, <2>1 DEF WInv, Ownership, CallIdle, Resting
  <2>3. Segment'
    BY <1>1, <1>3, <2>1 DEF WInv, Segment, CallIdle, Lies
  <2>4. Announces'
    BY <1>1, <1>2, <1>3, <2>1 DEF WInv, Announces, CallIdle
  <2>5. Buffers'
    BY <1>1, <1>3, <1>10, <2>1 DEF WInv, Buffers, CallIdle
  <2> QED BY <1>1, <1>4, <1>5, <1>6, <1>7, <2>2, <2>3, <2>4, <2>5 DEF WInv
<1>9. CASE ~CallIdle
  <2>1. /\ call'.op = call.op /\ ~wb.open /\ owned
        /\ call'.pc # "idle" =>
            /\ UNCHANGED <<ret, owned, handed>> /\ st'.prev \in {st.prev, NoBuf}
            /\ call'.buf = call.buf /\ call'.at = call.at /\ call'.cnt = call.cnt /\ call'.before = call.before
        /\ call'.pc = "idle" =>
            /\ (owned' <=> ret' = "OK" /\ call.op # "end") /\ ret' # "PARAM"
            /\ PushDone => handed' = call.before + call.cnt /\ st'.prev = call.buf
            /\ ~PushDone => handed' = handed /\ st'.prev \in {st.prev, NoBuf}
            /\ call.op = "settle" /\ ret' = "OK" => ~st'.started
    BY <1>1, <1>9 DEF Carries, WInv, Ownership, IInv, Progress, CallIdle
  <2>2. \/ cmd.pc = "pushing" /\ call.op = "push" /\ cmd.open
        \/ cmd.pc = "ending" /\ call.op = "end" /\ cmd.open
        \/ cmd.pc = "settling" /\ call.op = "settle" /\ cmd.open
        \/ /\ cmd.pc \in {"idle", "refuse", "arm"} /\ ~cmd.open /\ call.op = "end" /\ call.pc = "loop"
           /\ ~st.started /\ ~st'.started /\ st'.prev = st.prev /\ (call' = call \/ call'.pc = "idle")
    BY <1>1, <1>9 DEF WInv, Ownership, Carries
  <2>3. Ownership'
    BY <1>1, <2>1, <2>2 DEF WInv, Ownership, CallIdle, Resting
  <2>4. Segment'
    BY <1>1, <1>2, <1>3, <1>9, <2>1, <2>2 DEF WInv, Segment, CallIdle, Lies, PushDone
  <2>5. Announces'
    BY <1>1, <1>2, <1>3, <1>9, <2>1, <2>2 DEF WInv, Announces, CallIdle
  <2>6. Buffers'
    BY <1>1, <1>3, <1>9, <1>10, <2>1, <2>2 DEF WInv, Buffers, Segment, CallIdle, PushDone
  <2> QED BY <1>1, <1>4, <1>5, <1>6, <1>7, <2>3, <2>4, <2>5, <2>6 DEF WInv
<1> QED BY <1>8, <1>9, Locals

LEMMA AbortGuided ==
  ASSUME IInv, WInv, Abort
  PROVE  Guided' /\ call'.pc = "idle" /\ ~owned' /\ ret' = ret
<1>1. /\ st' = Aborted(st) /\ call' = [NoCall EXCEPT !.op = "abort"] /\ dpsm' = [dpsm EXCEPT !.err = "none"]
      /\ ~owned' /\ ret' = ret /\ handed' = handed /\ CallIdle
  BY DEF Abort, AbortHw, memory, CallIdle
<1>2. /\ ~st'.started /\ st'.pushed = st.verified /\ st'.runEnd = st.runEnd /\ st'.hint = st.hint /\ st'.prev = st.prev
  BY <1>1, StreamIn, AbortedStream DEF IInv, Ordered
<1>3. call'.pc = "idle" /\ call'.e = "OK"
  BY <1>1 DEF NoCall
<1>4. st.verified <= st.pushed
  BY DEF IInv, Ordered
<1> QED BY <1>1, <1>2, <1>3, <1>4, StreamIn DEF WInv, Guided, CallIdle

(* A command that ends leaves everything idle but the stream it keeps open. *)
LEMMA FinishInv ==
  ASSUME WInv, NEW s \in {"passed", "failed", "aborted"}, Finish(s),
         wb' \in WbRec, call'.pc = "idle", ret' # "PARAM", Guided',
         owned' <=> wb'.open,
         wb'.open =>
           /\ wb'.segDone <= wb'.fsec /\ wb'.seg = st'.total /\ wb'.segDone = handed'
           /\ Lies(wb.fsec - wb.segDone)' /\ ~st'.started /\ Heading' = handed' /\ st'.prev = NoBuf
  PROVE  WInv'
<1>1. /\ cmd' = Idle /\ status' = s /\ armed' = <<>> /\ rxdone' = <<>> /\ data_out' = [f \in {} |-> Blank]
      /\ ncmd' = ncmd
  BY DEF Finish
<1>2. /\ cmd'.pc = "idle" /\ cmd'.first = 0 /\ cmd'.n = 0 /\ cmd'.fsec = 0 /\ cmd'.armed = 0 /\ cmd'.received = 0
      /\ ~cmd'.open /\ cmd'.segDone = 0 /\ cmd'.free = Buf /\ cmd'.hold = NoBuf /\ cmd'.buf = NoBuf
  BY <1>1 DEF Idle
<1>3. cmd' \in CmdRec
  BY <1>1 DEF Idle, CmdRec, CmdPc
<1>4. /\ armed' \in Seq(Request) /\ rxdone' \in Seq(Completion) /\ Len(armed') = 0 /\ Len(rxdone') = 0
  BY <1>1
<1>5. WTypeOK'
  BY <1>1, <1>3, <1>4 DEF WTypeOK, InFlightBufs, WInv
<1>6. Ownership'
  BY <1>2 DEF Ownership, CallIdle, Resting
<1>7. Position'
  BY <1>1, <1>2 DEF Position, InPiece, Resting
<1>8. Segment' /\ Announces'
  BY <1>2 DEF Segment, Announces, CallIdle
<1>9. Landed'
  BY <1>2 DEF Landed
<1>10. Buffers'
  <2>1. InUse' = {} /\ BufOf(armed)' = {} /\ BufOf(rxdone)' = {}
    BY <1>4 DEF InUse, BufOf
  <2> QED BY <1>1, <1>2, <1>4, <2>1, DataAssumption DEF Buffers, Resting, InPiece, CallIdle
<1>11. Incoming'
  <2>1. /\ RxFrom' = 0 /\ RxLen(1)' = 0 /\ RxLen(2)' = 0 /\ ArmLen(1)' = 0 /\ ArmLen(2)' = 0
        /\ ~InPiece'
    BY <1>2, <1>4 DEF RxFrom, RxLen, ArmLen, InPiece
  <2> QED BY <1>2, <1>4, <2>1 DEF Incoming
<1> QED BY <1>5, <1>6, <1>7, <1>8, <1>9, <1>10, <1>11 DEF WInv

(* The commands that end without a stream of their own, or with a stream    *)
(* that failed.                                                             *)
LEMMA EndsInv ==
  ASSUME IInv, WInv, NEW s \in {"passed", "failed", "aborted"}, Finish(s), wb' = wb, ~wb.open,
         \/ Abort
         \/ UNCHANGED <<st, call, ret, owned, dpsm, handed>> /\ CallIdle /\ ~owned
  PROVE  WInv'
<1>1. wb' \in WbRec /\ ~wb'.open /\ ret # "PARAM"
  BY Locals DEF WInv, Ownership
<1>2. CASE Abort
  BY <1>1, <1>2, AbortGuided, FinishInv
<1>3. CASE UNCHANGED <<st, call, ret, owned, dpsm, handed>> /\ CallIdle /\ ~owned
  <2>1. Guided'
    BY <1>3 DEF WInv, Guided, CallIdle, Heading
  <2> QED BY <1>1, <1>3, <2>1, FinishInv DEF CallIdle
<1> QED BY <1>2, <1>3

LEMMA RefuseInv ==
  ASSUME IInv, WInv, Refuse \/ (Begun /\ ret # "OK") \/ (Ended /\ ret # "OK") \/ (Pushed /\ ret # "OK")
  PROVE  WInv'
<1>1. UNCHANGED <<st, call, ret, owned, dpsm, handed>> /\ wb' = wb /\ Finish("failed")
  BY DEF Refuse, Begun, Ended, Pushed, stream, hardware
<1>2. CallIdle /\ ~wb.open /\ ~owned
  BY Locals DEF Refuse, Begun, Ended, Pushed, WInv, Ownership, Resting
<1> QED BY <1>1, <1>2, EndsInv

LEMMA GivenUpInv ==
  ASSUME IInv, WInv, PhaseError \/ HostAborts
  PROVE  WInv'
<1>1. PICK s \in {"failed", "aborted"} : Finish(s)
  BY DEF PhaseError, HostAborts
<1>2. /\ wb' = wb /\ cmd.pc = "wait"
      /\ IF cmd.open THEN Abort ELSE UNCHANGED <<st, call, ret, owned, dpsm, handed>>
  BY DEF PhaseError, HostAborts, stream, hardware
<1>3. CallIdle /\ ~wb.open /\ (~cmd.open => ~owned)
  BY <1>2 DEF WInv, Ownership, Resting
<1> QED BY <1>1, <1>2, <1>3, EndsInv, Locals

(* Write-behind: GOOD status with the stream left open.                     *)
LEMMA SettledInv ==
  ASSUME IInv, WInv, Settled
  PROVE  WInv'
<1>1. cmd.pc = "settling" /\ CallIdle /\ cmd.open /\ ~wb.open /\ ret # "PARAM" /\ (owned <=> ret = "OK")
  BY DEF Settled, WInv, Ownership, Resting
<1>2. CASE ret # "OK"
  BY <1>1, <1>2, EndsInv DEF Settled
<1>3. CASE ret = "OK"
  <2>1. /\ wb' = [open |-> TRUE, fsec |-> cmd.fsec, seg |-> cmd.seg, segDone |-> cmd.segDone]
        /\ Finish("passed") /\ UNCHANGED <<st, call, ret, owned, dpsm, handed>>
    BY <1>3 DEF Settled, stream, hardware
  <2>2. wb' \in WbRec /\ wb'.open /\ wb'.fsec = cmd.fsec /\ wb'.seg = cmd.seg /\ wb'.segDone = cmd.segDone
    BY <2>1, Locals DEF WbRec
  <2>3. /\ cmd.segDone <= cmd.fsec /\ cmd.seg = st.total /\ handed = cmd.segDone /\ ~st.started
        /\ Lies(cmd.fsec - cmd.segDone) /\ cmd.segDone < cmd.seg
    BY <1>1, <1>3, Locals DEF WInv, Segment
  <2>4. Heading = handed /\ Heading' = Heading
    <3>1. Heading = cmd.segDone + Left /\ cmd.received = cmd.n
      BY <1>1, <1>3 DEF WInv, Announces, Position
    <3>2. Left = 0
      BY <1>1, <2>3, <3>1, Locals DEF Left, Off, InPiece, Smaller
    <3> QED BY <2>1, <2>3, <3>1, <3>2, Locals DEF Heading
  <2>5. st.prev = NoBuf /\ Guided'
    BY <1>1, <1>3, <2>1, <2>3, <2>4 DEF WInv, Guided, CallIdle
  <2>6. Lies(wb.fsec - wb.segDone)'
    BY <2>1, <2>2, <2>3 DEF Lies
  <2> QED BY <1>1, <1>3, <2>1, <2>2, <2>3, <2>4, <2>5, <2>6, FinishInv DEF CallIdle
<1> QED BY <1>2, <1>3

(* A step that only moves the command on within its data phase, with the    *)
(* buffers and what is in them as they are.                                 *)
LEMMA PcMoves ==
  ASSUME WInv, NEW p \in {"arm", "wait", "begun", "pushing", "settling"}, cmd' = [cmd EXCEPT !.pc = p],
         cmd.pc \in {"flush", "arm", "piece"}, p \in {"begun", "pushing"} <=> cmd.pc = "piece",
         p = "settling" => cmd.received = cmd.n,
         UNCHANGED <<armed, rxdone, data_out, status, ncmd, mem>>, wb' \in WbRec
  PROVE  /\ WTypeOK' /\ Position' /\ Incoming' /\ cmd'.pc = p /\ InPiece' = InPiece
         /\ cmd'.first = cmd.first /\ cmd'.n = cmd.n /\ cmd'.fsec = cmd.fsec /\ cmd'.received = cmd.received
         /\ cmd'.open = cmd.open /\ cmd'.seg = cmd.seg /\ cmd'.segDone = cmd.segDone
         /\ cmd'.buf = cmd.buf /\ cmd'.off = cmd.off /\ cmd'.len = cmd.len
         /\ SegStart' = SegStart /\ Left' = Left /\ Piece' = Piece
         /\ ~Resting'
         /\ /\ owned' => IF cmd.open THEN st'.prev \in {NoBuf, cmd.hold, cmd.buf} ELSE st'.prev = NoBuf
            /\ ~(p = "pushing" /\ call'.pc = "idle")
            => Buffers'
<1>1. /\ cmd'.pc = p
      /\ cmd'.first = cmd.first /\ cmd'.n = cmd.n /\ cmd'.fsec = cmd.fsec /\ cmd'.received = cmd.received
      /\ cmd'.armed = cmd.armed /\ cmd'.free = cmd.free /\ cmd'.hold = cmd.hold
      /\ cmd'.open = cmd.open /\ cmd'.seg = cmd.seg /\ cmd'.segDone = cmd.segDone
      /\ cmd'.buf = cmd.buf /\ cmd'.off = cmd.off /\ cmd'.len = cmd.len
  BY Locals DEF CmdRec
<1>2. cmd' \in CmdRec
  BY Locals DEF CmdRec, CmdPc
<1>3. WTypeOK'
  BY <1>2 DEF WInv, WTypeOK, InFlightBufs
<1>4. InPiece' = InPiece /\ ~Resting'
  BY <1>1 DEF InPiece, Resting
<1>5. Position'
  BY <1>1, <1>4 DEF WInv, Position, InPiece
<1>6. Incoming'
  BY <1>1, <1>4 DEF WInv, Incoming, Holds, RxFrom, Whole, RxLen, ArmLen
<1>7. SegStart' = SegStart /\ Left' = Left /\ Piece' = Piece
  BY <1>1, <1>4 DEF SegStart, Left, Off, Piece
<1>8. InUse' = InUse /\ BufOf(armed)' = BufOf(armed) /\ BufOf(rxdone)' = BufOf(rxdone)
  BY DEF InUse, BufOf
<1>9. /\ owned' => IF cmd.open THEN st'.prev \in {NoBuf, cmd.hold, cmd.buf} ELSE st'.prev = NoBuf
      /\ ~(p = "pushing" /\ call'.pc = "idle")
      => Buffers'
  BY <1>1, <1>4, <1>8 DEF WInv, Buffers, CallIdle
<1> QED BY <1>1, <1>3, <1>4, <1>5, <1>6, <1>7, <1>9

(* The stream is as it was. *)
LEMMA StreamRests ==
  ASSUME WInv, UNCHANGED <<st, call, ret, owned, dpsm, handed>>
  PROVE  Guided' /\ CallIdle' = CallIdle /\ Heading' = Heading
BY DEF WInv, Guided, CallIdle, Heading

LEMMA FlushInv ==
  ASSUME IInv, WInv, Flush
  PROVE  WInv'
<1>1. /\ wb.open /\ CallIdle /\ cmd.pc \in {"flush", "idle", "refuse"} /\ owned
      /\ call' = [NoCall EXCEPT !.op = "end", !.pc = "loop"]
      /\ UNCHANGED <<st, ret, owned, dpsm, disk, mem, want, handed, armed, rxdone, data_out, status, ncmd>>
      /\ wb' = NoWb
      /\ cmd' = IF cmd.pc = "flush" THEN [cmd EXCEPT !.pc = "arm"] ELSE cmd
  BY DEF Flush, End, result, hardware, memory, usb, host
<1>2. call'.op = "end" /\ call'.pc = "loop" /\ call'.e = "OK" /\ ~CallIdle'
  BY <1>1 DEF NoCall, CallIdle
<1>3. wb' \in WbRec /\ ~wb'.open
  BY <1>1 DEF WbRec, NoWb
<1>4. ~cmd.open /\ ~InPiece /\ cmd.buf = NoBuf /\ ~st.started /\ Resting /\ Heading = handed
      /\ cmd.fsec = cmd.first + cmd.received /\ cmd.received = 0 /\ ret # "PARAM"
  BY <1>1 DEF WInv, Ownership, Buffers, Segment, Announces, Position, InPiece, Resting
<1>5. st.prev = NoBuf
  BY <1>1, <1>4 DEF WInv, Guided
<1>6. Heading' = Heading
  BY <1>1 DEF Heading
<1>7. Guided'
  BY <1>1, <1>2, <1>4, <1>5, <1>6 DEF WInv, Guided, CallIdle
<1>8. CASE cmd.pc = "flush"
  <2>1. cmd' = [cmd EXCEPT !.pc = "arm"]
    BY <1>1, <1>8
  <2>2. /\ WTypeOK' /\ Position' /\ Incoming' /\ cmd'.pc = "arm" /\ ~cmd'.open
        /\ cmd'.fsec = cmd.fsec /\ cmd'.first = cmd.first
        /\ Buffers'
    BY <1>1, <1>3, <1>4, <1>5, <1>8, <2>1, PcMoves
  <2>3. Ownership' /\ Segment' /\ Announces'
    BY <1>1, <1>2, <1>3, <1>4, <2>2 DEF Ownership, Segment, Announces, CallIdle, Resting
  <2>4. Landed'
    BY <2>2, <1>4, Locals DEF Landed, PushedTo
  <2> QED BY <1>7, <2>2, <2>3, <2>4 DEF WInv
<1>9. CASE cmd.pc # "flush"
  <2>1. cmd' = cmd /\ Resting' /\ ~InPiece'
    BY <1>1, <1>9 DEF Resting, InPiece
  <2>2. WTypeOK' /\ Position' /\ Incoming'
    BY <1>1, <1>3, <1>4, <2>1
    DEF WInv, WTypeOK, InFlightBufs, Position, Incoming, Holds, RxFrom, Whole, RxLen, ArmLen, InPiece, Resting
  <2>3. Ownership' /\ Segment' /\ Announces'
    BY <1>1, <1>2, <1>3, <1>4, <1>9, <2>1 DEF Ownership, Segment, Announces, CallIdle, Resting
  <2>4. Landed'
    BY <2>1, <1>4, <1>9, <1>1, Locals DEF Landed, PushedTo
  <2>5. InUse' = InUse /\ BufOf(armed)' = BufOf(armed) /\ BufOf(rxdone)' = BufOf(rxdone)
    BY <1>1 DEF InUse, BufOf
  <2>6. Buffers'
    BY <1>1, <1>2, <1>4, <1>5, <2>1, <2>5 DEF WInv, Buffers
  <2> QED BY <1>7, <2>2, <2>3, <2>4, <2>6 DEF WInv
<1> QED BY <1>8, <1>9

LEMMA AllArmedInv ==
  ASSUME IInv, WInv, AllArmed
  PROVE  WInv'
<1>1. cmd.pc = "arm" /\ CallIdle /\ mem' = mem /\ ~wb.open /\ ~InPiece /\ ~Resting /\ ret # "PARAM"
      /\ (owned <=> cmd.open) /\ cmd.received <= cmd.n
      /\ cmd.armed \in Nat
  <2>1. cmd.pc = "arm" /\ CallIdle /\ mem' = mem
    BY DEF AllArmed
  <2>2. ~InPiece /\ ~Resting
    BY <2>1 DEF InPiece, Resting
  <2>3. cmd.received <= cmd.n
    <3>1. cmd.received <= cmd.armed /\ cmd.armed <= cmd.n
      BY <2>1 DEF WInv, Position
    <3> QED BY <3>1, Counters
  <2>4. ~wb.open /\ ret # "PARAM"
    BY <2>2 DEF WInv, Ownership
  <2>5. owned <=> cmd.open
    BY <2>1, <2>4 DEF WInv, Ownership
  <2> QED BY <2>1, <2>2, <2>3, <2>4, <2>5, Counters
<1>2. owned => IF cmd.open THEN st.prev \in {NoBuf, cmd.hold, cmd.buf} ELSE st.prev = NoBuf
  BY DEF WInv, Buffers
<1>3. cmd.open => /\ cmd.segDone <= cmd.fsec /\ cmd.seg = st.total /\ Lies(cmd.fsec - cmd.segDone)
                  /\ cmd.segDone < cmd.seg /\ handed = cmd.segDone /\ Heading = cmd.segDone + Left
  BY <1>1, Locals DEF WInv, Segment, Announces
<1>4. CASE cmd' = [cmd EXCEPT !.pc = "wait"] /\ UNCHANGED <<stream, wb, usb, host>>
  <2>1. UNCHANGED <<st, call, ret, owned, dpsm, disk, want, handed, wb, armed, rxdone, data_out, status, ncmd>>
    BY <1>4 DEF stream, hardware, usb, host
  <2>2. /\ WTypeOK' /\ Position' /\ Incoming' /\ cmd'.pc = "wait" /\ InPiece' = InPiece
        /\ cmd'.first = cmd.first /\ cmd'.n = cmd.n /\ cmd'.fsec = cmd.fsec /\ cmd'.received = cmd.received
        /\ cmd'.open = cmd.open /\ cmd'.seg = cmd.seg /\ cmd'.segDone = cmd.segDone
        /\ SegStart' = SegStart /\ Left' = Left /\ Buffers'
    BY <1>1, <1>2, <1>4, <2>1, PcMoves, Locals
  <2>3. Guided' /\ CallIdle' /\ Heading' = Heading
    BY <1>1, <2>1, StreamRests
  <2>4. Ownership'
    BY <1>1, <2>1, <2>2, <2>3 DEF Ownership, CallIdle, Resting
  <2>5. Segment' /\ Announces'
    BY <1>1, <1>3, <2>1, <2>2, <2>3, Locals DEF Segment, Announces, Lies
  <2>6. Landed'
    BY <1>1, <2>1, <2>2 DEF WInv, Landed, PushedTo
  <2> QED BY <2>2, <2>3, <2>4, <2>5, <2>6 DEF WInv
<1>5. CASE cmd.received = cmd.n /\ cmd.open /\ Settle /\ cmd' = [cmd EXCEPT !.pc = "settling"] /\ UNCHANGED <<wb, usb, host>>
  <2>1. /\ UNCHANGED <<st, ret, owned, dpsm, disk, want, handed, wb, armed, rxdone, data_out, status, ncmd>>
        /\ call' = [NoCall EXCEPT !.op = "settle", !.pc = "loop"]
    BY <1>5 DEF Settle, result, hardware, memory, usb, host
  <2>2. call'.op = "settle" /\ call'.pc = "loop" /\ call'.e = "OK" /\ ~CallIdle'
    BY <2>1 DEF NoCall, CallIdle
  <2>3. /\ WTypeOK' /\ Position' /\ Incoming' /\ cmd'.pc = "settling" /\ InPiece' = InPiece
        /\ cmd'.first = cmd.first /\ cmd'.n = cmd.n /\ cmd'.fsec = cmd.fsec /\ cmd'.received = cmd.received
        /\ cmd'.open = cmd.open /\ cmd'.seg = cmd.seg /\ cmd'.segDone = cmd.segDone
        /\ SegStart' = SegStart /\ Left' = Left /\ Buffers'
    BY <1>1, <1>2, <1>5, <2>1, PcMoves, Locals
  <2>4. Heading' = Heading
    BY <2>1 DEF Heading
  <2>5. Left = 0
    BY <1>1, <1>3, <1>5, Locals DEF Left, Off, InPiece, Smaller
  <2>6. Guided'
    <3>1. Heading = handed
      BY <1>3, <1>5, <2>5, Locals
    <3> QED BY <1>1, <1>5, <2>1, <2>2, <2>4, <3>1 DEF WInv, Guided, CallIdle
  <2>7. Ownership'
    BY <1>1, <1>5, <2>1, <2>2, <2>3 DEF Ownership, CallIdle, Resting
  <2>8. Segment' /\ Announces'
    BY <1>1, <1>3, <1>5, <2>1, <2>2, <2>3, <2>4, Locals DEF Segment, Announces, Lies
  <2>9. Landed'
    BY <1>1, <2>1, <2>3 DEF WInv, Landed, PushedTo
  <2> QED BY <2>3, <2>6, <2>7, <2>8, <2>9 DEF WInv
<1>6. CASE ~cmd.open /\ Finish("passed") /\ UNCHANGED <<stream, wb>>
  BY <1>1, <1>6, EndsInv DEF stream, hardware
<1> QED BY <1>4, <1>5, <1>6 DEF AllArmed

(* A command starts: alone, or on the stream the last one left open.        *)
LEMMA IssueInv ==
  ASSUME IInv, WInv, NEW f \in FSec, NEW n \in CmdLens, NEW data \in HostData, Issue(f, n, data)
  PROVE  WInv'
<1>1. /\ cmd.pc = "idle" /\ CallIdle /\ f + n - 1 \in FSec
      /\ data_out' = [s \in f..f + n - 1 |-> data[s]] /\ status' = "pending" /\ ncmd' = ncmd + 1
      /\ UNCHANGED <<mem, armed, rxdone>> /\ armed = <<>> /\ rxdone = <<>> /\ cmd = Idle
  BY DEF Issue, usb, WInv, Buffers, Position, Resting
<1>2. /\ UNCHANGED <<call, ret, owned, dpsm, disk, want, handed>>
      /\ st' = st \/ \E k : st' = [st EXCEPT !.hint = k]
  BY DEF Issue, Run, stream, hardware, result, memory
<1>3. f \in Nat /\ n \in Nat /\ n >= 1 /\ f .. f + n - 1 \subseteq FSec
  BY <1>1, PlaceAssumption, Layout
<1> DEFINE F == Fresh(f, n)
<1>4. /\ F \in CmdRec /\ F.first = f /\ F.n = n /\ F.fsec = f /\ F.armed = 0 /\ F.received = 0 /\ ~F.open
      /\ F.free = Buf /\ F.hold = NoBuf /\ F.buf = NoBuf /\ F.off = 0 /\ F.len = 0
  BY <1>3 DEF Fresh, Idle, CmdRec, CmdPc
<1>5. /\ cmd'.first = f /\ cmd'.n = n /\ cmd'.fsec = f /\ cmd'.armed = 0 /\ cmd'.received = 0
      /\ cmd'.free = Buf /\ cmd'.hold = NoBuf
      /\ cmd'.buf = NoBuf /\ cmd'.off = 0 /\ cmd'.len = 0 /\ cmd' \in CmdRec
      /\ IF present /\ Continues(f)
           THEN cmd'.pc = "arm" /\ cmd'.open /\ cmd'.seg = wb.seg /\ cmd'.segDone = wb.segDone
           ELSE /\ cmd'.pc \in {"refuse", "flush", "arm"} /\ ~cmd'.open /\ wb' = wb /\ st' = st
                /\ (cmd'.pc = "flush" => wb.open) /\ (cmd'.pc = "arm" => ~wb.open)
  <2>1. CASE present /\ Continues(f)
    <3>1. cmd' = [F EXCEPT !.pc = "arm", !.open = TRUE, !.seg = wb.seg, !.segDone = wb.segDone]
      BY <2>1 DEF Issue
    <3> HIDE DEF F
    <3> QED BY <1>4, <2>1, <3>1, Locals DEF CmdRec, CmdPc
  <2>2. CASE ~(present /\ Continues(f))
    <3>1. PICK p \in {"refuse", "flush", "arm"} :
            cmd' = [F EXCEPT !.pc = p] /\ (p = "flush" => wb.open) /\ (p = "arm" => ~wb.open)
      BY <2>2, Locals DEF Issue
    <3>2. wb' = wb /\ st' = st
      BY <2>2 DEF Issue, stream
    <3> HIDE DEF F
    <3> QED BY <1>4, <2>2, <3>1, <3>2 DEF CmdRec, CmdPc
  <2> QED BY <2>1, <2>2
<1>6. NoWb \in WbRec
  BY DEF NoWb, WbRec
<1>7. wb' \in WbRec
  BY <1>6, Locals DEF Issue
<1>8. WTypeOK'
  BY <1>1, <1>5, <1>7 DEF WInv, WTypeOK, InFlightBufs
<1>9. data_out' \in [f .. f + n - 1 -> Value]
  BY <1>1, <1>3, PlaceAssumption
<1>10. Position' /\ ~InPiece'
  BY <1>1, <1>3, <1>5, <1>9 DEF Position, InPiece, Resting
<1>11. Incoming'
  <2>1. RxFrom' = f /\ RxLen(1)' = 0 /\ RxLen(2)' = 0 /\ ArmLen(1)' = 0 /\ ArmLen(2)' = 0
    BY <1>1, <1>3, <1>5, <1>10 DEF RxFrom, RxLen, ArmLen
  <2> QED BY <1>1, <1>3, <1>5, <1>10, <2>1 DEF Incoming
<1>12. st'.prev = st.prev /\ st'.started = st.started /\ st'.runEnd = st.runEnd /\ st'.pushed = st.pushed
       /\ st'.total = st.total /\ st'.lba = st.lba /\ st'.verified = st.verified
  BY <1>2, StreamIn DEF Stream
<1>13. (owned <=> wb.open) /\ (owned => st.prev = NoBuf) /\ ret # "PARAM" /\ ~cmd.open
  BY <1>1 DEF WInv, Ownership, Buffers, Resting, Idle
<1>14. Buffers'
  <2>1. InUse' = {} /\ BufOf(armed)' = {} /\ BufOf(rxdone)' = {}
    BY <1>1 DEF InUse, BufOf
  <2> QED BY <1>1, <1>2, <1>5, <1>10, <1>12, <1>13, <2>1, DataAssumption DEF Buffers
<1>15. CASE present /\ Continues(f)
  <2>1. /\ cmd'.pc = "arm" /\ cmd'.open /\ cmd'.seg = wb.seg /\ cmd'.segDone = wb.segDone
        /\ wb' = NoWb /\ st' = [st EXCEPT !.hint = Announced(n, wb.seg - wb.segDone)]
        /\ wb.open /\ wb.fsec = f /\ wb.segDone < wb.seg
    BY <1>5, <1>15 DEF Issue, Run, Continues
  <2>2. /\ wb.segDone <= f /\ wb.seg = st.total /\ wb.segDone = handed /\ Lies(f - wb.segDone)
        /\ ~st.started /\ Heading = handed /\ st.prev = NoBuf /\ owned
    BY <2>1, <1>13 DEF WInv, Segment, Announces
  <2>3. wb.seg \in Nat /\ wb.segDone \in Nat
    BY Locals
  <2>4. st.verified = handed
    BY <1>1, <2>2 DEF IInv, Ordered, Progress, CallIdle
  <2>5. st.runEnd <= handed
    BY <2>2, StreamIn DEF Heading
  <2>6. st'.hint = Smaller(n, wb.seg - wb.segDone)
    BY <2>1, StreamIn DEF Stream, Announced
  <2>7. Heading' = handed + Smaller(n, wb.seg - wb.segDone)
    BY <2>2, <2>3, <2>5, <2>6, <1>2, <1>3, <1>12, StreamIn DEF Heading, Smaller
  <2>8. Left' = Smaller(n, wb.seg - wb.segDone)
    BY <1>3, <1>5, <1>10, <2>1 DEF Left, Off
  <2>9. Guided'
    <3>1. handed' = handed /\ CallIdle'
      BY <1>1, <1>2 DEF CallIdle
    <3>2. ~st'.started /\ st'.runEnd <= handed /\ st'.prev = NoBuf
      BY <1>12, <2>2, <2>5
    <3>3. st'.pushed <= handed
      BY <1>12, <2>5 DEF WInv, Guided
    <3>4. ~(st'.runEnd > handed)
      BY <1>12, <2>5, StreamIn
    <3>5. call'.e # "PARAM"
      BY <1>2 DEF WInv, Guided
    <3> QED BY <3>1, <3>2, <3>3, <3>4, <3>5 DEF Guided
  <2>10. Ownership'
    BY <1>1, <1>2, <1>5, <1>13, <2>1, <2>2 DEF Ownership, CallIdle, Resting, NoWb
  <2>11. Segment'
    BY <1>1, <1>2, <1>5, <1>12, <2>1, <2>2, <2>3 DEF Segment, CallIdle, NoWb, Lies
  <2>12. Announces'
    BY <1>1, <1>2, <1>5, <2>1, <2>2, <2>7, <2>8 DEF Announces, CallIdle, NoWb
  <2>13. Landed'
    BY <1>3, <1>5, <1>12, <2>1, <2>2, <2>3, <2>4 DEF Landed, PushedTo, SegStart
  <2> QED BY <1>8, <1>10, <1>11, <1>14, <2>9, <2>10, <2>11, <2>12, <2>13 DEF WInv
<1>16. CASE ~(present /\ Continues(f))
  <2>1. /\ cmd'.pc \in {"refuse", "flush", "arm"} /\ ~cmd'.open /\ wb' = wb /\ st' = st
        /\ (cmd'.pc = "flush" => wb.open) /\ (cmd'.pc = "arm" => ~wb.open)
    BY <1>5, <1>16
  <2>2. Guided' /\ CallIdle' /\ Heading' = Heading
    BY <1>1, <1>2, <2>1, StreamRests
  <2>3. Ownership'
    BY <1>1, <1>2, <1>5, <1>13, <2>1, <2>2 DEF Ownership, Resting, CallIdle
  <2>4. Segment'
    BY <1>1, <1>2, <1>5, <2>1, <2>2 DEF WInv, Segment, Lies
  <2>5. Announces'
    BY <1>1, <1>2, <1>5, <2>1, <2>2 DEF WInv, Announces
  <2>6. Landed'
    BY <1>3, <1>5, <2>1 DEF Landed, PushedTo
  <2> QED BY <1>8, <1>10, <1>11, <1>14, <2>2, <2>3, <2>4, <2>5, <2>6 DEF WInv
<1> QED BY <1>15, <1>16

(* The run of card sectors the next piece goes to is opened.                *)
LEMMA BeginRunInv ==
  ASSUME IInv, WInv, BeginRun
  PROVE  WInv'
<1> DEFINE lba == Place[cmd.fsec]
           cnt == RunFrom(cmd.fsec)
           s == [Closed EXCEPT !.lba = lba, !.total = cnt]
<1>1. /\ cmd.pc = "piece" /\ CallIdle /\ ~cmd.open /\ Begin(lba, cnt) /\ cmd' = [cmd EXCEPT !.pc = "begun"]
      /\ UNCHANGED <<wb, armed, rxdone, data_out, status, ncmd>> /\ handed' = 0 /\ UNCHANGED <<disk, mem>>
  BY DEF BeginRun, Begin, usb, host
<1>2. cmd.fsec \in FSec
  BY <1>1, PieceIn DEF InPiece
<1>3. cnt \in Nat /\ cnt >= 1 /\ lba + cnt <= NBlk /\ lba \in Nat
      /\ \A i \in 0 .. cnt - 1 : cmd.fsec + i \in FSec /\ Place[cmd.fsec + i] = lba + i
  BY <1>2, RunFromRun, Sizes DEF Sector
<1>4. ~wb.open
  BY <1>1 DEF WInv, Ownership, Resting
<1>5. /\ ~s.started /\ s.lba = lba /\ s.total = cnt /\ s.pushed = 0 /\ s.verified = 0
      /\ s.runEnd = 0 /\ s.hint = 0 /\ s.prev = NoBuf
  BY <1>3 DEF Closed
<1>6. s \in Stream
  <2>1. Closed \in Stream
    BY Sizes DEF Closed, Stream
  <2>2. lba \in 0..NBlk /\ cnt \in 0..NBlk
    BY <1>2, <1>3, RunFromRun, Sizes
  <2> HIDE DEF lba, cnt
  <2> QED BY <2>1, <2>2 DEF Stream
<1>7. /\ \A r \in {Closed, Opened(s), NotOpened(s)} :
           ~r.started /\ r.pushed = 0 /\ r.runEnd = 0 /\ r.hint = 0 /\ r.prev = NoBuf
      /\ Opened(s).lba = lba /\ Opened(s).total = cnt
  <2>1. ~Closed.started /\ Closed.pushed = 0 /\ Closed.runEnd = 0 /\ Closed.hint = 0 /\ Closed.prev = NoBuf
    BY DEF Closed
  <2> HIDE DEF s, lba, cnt
  <2> QED BY <1>5, <1>6, <2>1, OpenedStream
<1>8. PICK e \in {"NOCARD", "OK", "BUSY", "CRC", "TIMEOUT"} :
        /\ ret' = e /\ owned' = (e = "OK") /\ call' = [NoCall EXCEPT !.op = "begin"]
        /\ st' \in {Closed, Opened(s), NotOpened(s)} /\ (e = "OK" => st' = Opened(s))
  <2> HIDE DEF s, lba, cnt
  <2>1. ~(cnt = 0 \/ lba + cnt > NBlk)
    BY <1>3, Sizes
  <2>2. [Closed EXCEPT !.lba = lba, !.total = cnt] = s
    BY DEF s
  <2> QED BY <1>1, <2>1, <2>2 DEF Begin, OpenFails
<1>9. call'.pc = "idle" /\ call'.op = "begin" /\ call'.e = "OK"
  BY <1>8 DEF NoCall
<1> HIDE DEF s
<1>10. /\ ~st'.started /\ st'.pushed = 0 /\ st'.runEnd = 0 /\ st'.hint = 0 /\ st'.prev = NoBuf
       /\ (ret' = "OK" => st'.lba = lba /\ st'.total = cnt)
  BY <1>7, <1>8
<1>11. /\ WTypeOK' /\ Position' /\ Incoming' /\ cmd'.pc = "begun" /\ InPiece' = InPiece
       /\ cmd'.first = cmd.first /\ cmd'.fsec = cmd.fsec
       /\ cmd'.open = cmd.open /\ cmd'.seg = cmd.seg /\ cmd'.segDone = cmd.segDone
       /\ SegStart' = SegStart /\ Buffers'
  BY <1>1, <1>10, PcMoves, Locals
<1>12. Guided'
  BY <1>1, <1>9, <1>10 DEF Guided, CallIdle
<1>13. Ownership'
  BY <1>1, <1>4, <1>8, <1>9, <1>11 DEF Ownership, CallIdle, Resting
<1>14. Segment'
  <2>1. ret' = "OK" => Lies(cmd.fsec)'
    BY <1>3, <1>10, <1>11 DEF Lies
  <2> QED BY <1>1, <1>4, <1>9, <1>10, <1>11, <2>1 DEF Segment, CallIdle, Lies
<1>15. Announces'
  <2>1. ret' = "OK" => Heading' = handed'
    BY <1>1, <1>3, <1>10 DEF Heading, Smaller
  <2> QED BY <1>1, <1>4, <1>11, <2>1 DEF Announces
<1>16. Landed'
  <2>1. \A z \in cmd.first .. cmd.fsec - 1 : disk[Place[z]] = data_out[z]
    <3>1. PushedTo = cmd.fsec /\ SegStart = cmd.fsec /\ cmd.pc # "idle"
      BY <1>1, <1>2, Counters DEF PushedTo, SegStart
    <3>2. \A z \in cmd.first .. cmd.fsec - 1 : z < cmd.fsec
      BY Counters
    <3> QED BY <3>1, <3>2 DEF WInv, Landed
  <2> QED BY <1>1, <1>11, <2>1, Layout, <1>2, Locals DEF Landed, PushedTo, SegStart
<1> QED BY <1>11, <1>12, <1>13, <1>14, <1>15, <1>16 DEF WInv

(* ... and the stream told how much of it is pushed.                        *)
LEMMA BegunInv ==
  ASSUME IInv, WInv, Begun, ret = "OK"
  PROVE  WInv'
<1> DEFINE run == RunFrom(cmd.fsec)
           left == cmd.n - (cmd.received + cmd.off)
<1>1. /\ cmd.pc = "begun" /\ CallIdle /\ owned /\ ~wb.open /\ ~cmd.open /\ wb' = wb
      /\ cmd' = [cmd EXCEPT !.pc = "piece", !.open = TRUE, !.seg = run, !.segDone = 0]
      /\ st' = [st EXCEPT !.hint = Announced(left, run)]
      /\ UNCHANGED <<call, ret, owned, dpsm, disk, mem, want, handed, armed, rxdone, data_out, status, ncmd>>
  BY DEF Begun, Run, usb, host, hardware, memory, result, WInv, Ownership, CallIdle, Resting
<1>2. cmd.fsec \in FSec /\ cmd.fsec \in Nat /\ run \in Nat /\ run >= 1 /\ InPiece
  BY <1>1, PieceIn, RunFromRun, Layout DEF InPiece
<1>3. left \in Nat
  <2>1. cmd.off < cmd.len /\ cmd.received + cmd.len <= cmd.n
    BY <1>1, <1>2, PieceIn
  <2>2. cmd.off \in Nat /\ cmd.len \in Nat /\ cmd.received \in Nat /\ cmd.n \in Nat
    BY Locals
  <2> QED BY <2>1, <2>2
<1>4. /\ st.total = run /\ handed = 0 /\ Lies(cmd.fsec) /\ ~st.started /\ Heading = handed
  BY <1>1 DEF WInv, Segment, Announces
<1>5. st.prev = NoBuf /\ ret # "PARAM"
  BY <1>1, <1>4 DEF WInv, Guided, Ownership
<1> HIDE DEF run, left
<1>6. /\ cmd'.pc = "piece" /\ cmd'.open /\ cmd'.seg = run /\ cmd'.segDone = 0
      /\ cmd'.first = cmd.first /\ cmd'.n = cmd.n /\ cmd'.fsec = cmd.fsec /\ cmd'.received = cmd.received
      /\ cmd'.armed = cmd.armed /\ cmd'.free = cmd.free /\ cmd'.hold = cmd.hold
      /\ cmd'.buf = cmd.buf /\ cmd'.off = cmd.off /\ cmd'.len = cmd.len
  BY <1>1, Locals DEF CmdRec
<1>7. cmd' \in CmdRec
  BY <1>1, <1>2, Locals DEF CmdRec, CmdPc
<1>8. WTypeOK'
  BY <1>1, <1>7 DEF WInv, WTypeOK, InFlightBufs
<1>9. InPiece' /\ ~Resting'
  BY <1>6 DEF InPiece, Resting
<1>10. Position'
  BY <1>1, <1>2, <1>6, <1>9 DEF WInv, Position
<1>11. Incoming'
  BY <1>1, <1>2, <1>6, <1>9 DEF WInv, Incoming, Holds, RxFrom, Whole, RxLen, ArmLen
<1>12. /\ st'.prev = st.prev /\ st'.started = st.started /\ st'.runEnd = st.runEnd /\ st'.pushed = st.pushed
       /\ st'.total = st.total /\ st'.lba = st.lba /\ st'.verified = st.verified
       /\ st'.hint = Announced(left, run)
  BY <1>1, StreamIn DEF Stream
<1>13. st.runEnd <= handed
  BY <1>4, StreamIn DEF Heading
<1>14. Heading' = 0 + Left'
  <2>1. Left' = Smaller(left, run)
    BY <1>2, <1>3, <1>6, <1>9, Counters DEF Left, Off, Smaller, left
  <2>2. Smaller(Smaller(left, run), run - 0) = Smaller(left, run)
    BY <1>2, <1>3 DEF Smaller
  <2> QED BY <1>1, <1>4, <1>12, <1>13, <2>1, <2>2 DEF Heading, Announced
<1>15. Guided'
  BY <1>1, <1>4, <1>5, <1>12, <1>13, StreamIn DEF WInv, Guided, CallIdle
<1>16. Ownership'
  BY <1>1, <1>5, <1>6 DEF Ownership, CallIdle, Resting
<1>17. Segment'
  <2>1. Lies(cmd.fsec - cmd.segDone)'
    BY <1>2, <1>4, <1>6, <1>12 DEF Lies
  <2> QED BY <1>1, <1>2, <1>4, <1>6, <1>12, <2>1 DEF Segment, CallIdle
<1>18. Announces'
  BY <1>1, <1>6, <1>14 DEF Announces, CallIdle
<1>19. Landed'
  <2>1. \A z \in cmd.first .. cmd.fsec - 1 : disk[Place[z]] = data_out[z]
    <3>1. PushedTo = cmd.fsec /\ SegStart = cmd.fsec /\ cmd.pc # "idle"
      BY <1>1, <1>2, Counters DEF PushedTo, SegStart
    <3>2. \A z \in cmd.first .. cmd.fsec - 1 : z < cmd.fsec
      BY Counters
    <3> QED BY <3>1, <3>2 DEF WInv, Landed
  <2>2. cmd.first <= cmd.fsec /\ st.verified \in Nat /\ cmd.first \in Nat
    <3>1. cmd.fsec = cmd.first + cmd.received + cmd.off
      BY <1>2 DEF WInv, Position
    <3>2. cmd.first \in Nat /\ cmd.received \in Nat /\ cmd.off \in Nat
      BY Locals
    <3> QED BY <3>1, <3>2, StreamIn
  <2> QED BY <1>1, <1>2, <1>6, <1>12, <2>1, <2>2 DEF Landed, PushedTo, SegStart
<1>20. Buffers'
  <2>1. InUse' = InUse /\ BufOf(armed)' = BufOf(armed) /\ BufOf(rxdone)' = BufOf(rxdone)
    BY <1>1 DEF InUse, BufOf
  <2> QED BY <1>1, <1>2, <1>5, <1>6, <1>9, <1>12, <2>1 DEF WInv, Buffers
<1> QED BY <1>8, <1>10, <1>11, <1>15, <1>16, <1>17, <1>18, <1>19, <1>20 DEF WInv

(* A piece is handed to the card: never more than the stream was told of,   *)
(* never past the end of its run.                                           *)
LEMMA PushPieceInv ==
  ASSUME IInv, WInv, PushPiece
  PROVE  WInv'
<1>1. /\ cmd.pc = "piece" /\ CallIdle /\ cmd.open /\ owned /\ ~wb.open /\ InPiece /\ ret # "PARAM"
      /\ cmd' = [cmd EXCEPT !.pc = "pushing"] /\ Push(cmd.buf, cmd.off, Piece)
      /\ UNCHANGED <<st, dpsm, disk, mem, handed, wb, armed, rxdone, data_out, status, ncmd>>
  BY DEF PushPiece, Push, usb, host, hardware, WInv, Ownership, InPiece, Resting, CallIdle
<1>2. /\ cmd.segDone <= cmd.fsec /\ cmd.seg = st.total /\ Lies(cmd.fsec - cmd.segDone)
      /\ cmd.segDone < cmd.seg /\ handed = cmd.segDone /\ Heading = cmd.segDone + Left
  BY <1>1, Locals DEF WInv, Segment, Announces
<1>3. /\ cmd.fsec \in Nat /\ cmd.segDone \in Nat /\ cmd.seg \in Nat /\ cmd.off \in Nat /\ cmd.len \in Nat
      /\ cmd.n \in Nat /\ cmd.received \in Nat /\ cmd.first \in Nat
  BY Locals
<1>4. /\ Piece \in Nat /\ Piece >= 1 /\ Piece <= cmd.len - cmd.off /\ Piece <= cmd.seg - cmd.segDone
      /\ cmd.received + cmd.len <= cmd.n /\ cmd.off + Piece <= ChunkLen
      /\ cmd.fsec = cmd.first + cmd.received + cmd.off /\ cmd.buf \in Buf
  BY <1>1, PieceIn DEF WInv, Position
<1>5. st.open /\ st.pushed = handed /\ st.total <= NBlk /\ (~st.started => st.runEnd <= handed)
  BY <1>1, StreamFields, Sizes DEF IInv, TypeOK, Progress, CallIdle
<1>6. Piece <= Left /\ Left \in Int /\ Left <= cmd.seg - cmd.segDone
  BY <1>1, <1>3, <1>4 DEF Left, Off, Piece, Smaller
<1>7. ~PushRefused(Piece)
  <2>1. st.pushed < st.runEnd => st.pushed + Piece <= st.runEnd
    BY <1>2, <1>3, <1>4, <1>5, <1>6 DEF Heading
  <2>2. st.pushed + Piece <= st.total
    BY <1>2, <1>3, <1>4, <1>5
  <2> QED BY <1>4, <1>5, <2>1, <2>2, StreamIn DEF PushRefused
<1>8. /\ call' = [op |-> "push", pc |-> "loop", buf |-> cmd.buf, at |-> cmd.off, cnt |-> Piece,
                  before |-> st.pushed, e |-> "OK"]
      /\ want' = [o \in Sector |-> IF o \in st.pushed .. st.pushed + Piece - 1
                                   THEN mem[cmd.buf][cmd.off + 1 + o - st.pushed] ELSE want[o]]
      /\ UNCHANGED <<ret, owned>>
  BY <1>1, <1>7 DEF Push, result
<1>9. owned => IF cmd.open THEN st.prev \in {NoBuf, cmd.hold, cmd.buf} ELSE st.prev = NoBuf
  BY DEF WInv, Buffers
<1>10. /\ call'.op = "push" /\ call'.pc = "loop" /\ call'.buf = cmd.buf /\ call'.at = cmd.off
       /\ call'.cnt = Piece /\ call'.before = cmd.segDone /\ call'.e = "OK" /\ ~CallIdle'
  BY <1>2, <1>5, <1>8 DEF CallIdle
<1>11. /\ WTypeOK' /\ Position' /\ Incoming' /\ cmd'.pc = "pushing" /\ InPiece' = InPiece
       /\ cmd'.first = cmd.first /\ cmd'.n = cmd.n /\ cmd'.fsec = cmd.fsec /\ cmd'.received = cmd.received
       /\ cmd'.open = cmd.open /\ cmd'.seg = cmd.seg /\ cmd'.segDone = cmd.segDone
       /\ cmd'.buf = cmd.buf /\ cmd'.off = cmd.off /\ cmd'.len = cmd.len
       /\ SegStart' = SegStart /\ Left' = Left /\ Piece' = Piece /\ Buffers'
  BY <1>1, <1>8, <1>9, <1>10, PcMoves, Locals
<1>12. Heading' = Heading
  BY <1>1 DEF Heading
<1>13. Guided'
  <2>1. call'.before + call'.cnt <= Heading
    BY <1>2, <1>3, <1>4, <1>6, <1>10
  <2> QED BY <1>1, <1>8, <1>10, <1>12, <2>1 DEF WInv, Guided, CallIdle
<1>14. Ownership'
  BY <1>1, <1>8, <1>10, <1>11 DEF Ownership, Resting
<1>15. Segment'
  BY <1>1, <1>2, <1>3, <1>10, <1>11 DEF Segment, Lies
<1>16. Announces'
  BY <1>1, <1>2, <1>10, <1>11, <1>12 DEF Announces
<1>17. Landed'
  <2> DEFINE base == cmd.fsec - cmd.segDone
  <2>1. SegStart = base /\ PushedTo = cmd.fsec /\ PushedTo' = cmd.fsec + Piece /\ cmd.first <= base + st.verified
    BY <1>1, <1>3, <1>11 DEF WInv, Landed, SegStart, PushedTo
  <2>2. \A z \in cmd.first .. cmd.fsec - 1 :
          IF z < base THEN disk[Place[z]] = data_out[z] ELSE want[z - base] = data_out[z]
    BY <1>1, <2>1 DEF WInv, Landed
  <2>3. ASSUME NEW z \in cmd.first .. cmd.fsec + Piece - 1, ~(z < base)
        PROVE  want'[z - base] = data_out[z]
    <3>1. /\ z \in Int /\ z >= base /\ z - base \in Sector
          /\ z < cmd.fsec => z - base \notin st.pushed .. st.pushed + Piece - 1
          /\ z >= cmd.fsec => z - base \in st.pushed .. st.pushed + Piece - 1
      BY <2>3, <1>2, <1>3, <1>4, <1>5, Sizes DEF Sector
    <3>2. CASE z < cmd.fsec
      BY <3>1, <3>2, <2>2, <2>3, <1>3, <1>8
    <3>3. CASE z >= cmd.fsec
      <4> DEFINE i == cmd.off + 1 + (z - base) - st.pushed
      <4>1. want'[z - base] = mem[cmd.buf][i]
        <5> HIDE DEF base
        <5> QED BY <3>1, <3>3, <1>8
      <4>2. i \in 1..cmd.len /\ cmd.first + cmd.received + i - 1 = z
        BY <3>1, <3>3, <2>3, <1>2, <1>3, <1>4, <1>5
      <4>3. Holds(cmd.buf, cmd.len, cmd.first + cmd.received)
        BY <1>1 DEF WInv, Incoming
      <4> HIDE DEF i
      <4> QED BY <4>1, <4>2, <4>3 DEF Holds
    <3> QED BY <3>1, <3>2, <3>3, <1>3
  <2>4. ASSUME NEW z \in cmd.first .. cmd.fsec + Piece - 1, z < base
        PROVE  disk[Place[z]] = data_out[z]
    <3>1. z \in cmd.first .. cmd.fsec - 1
      BY <2>4, <1>2, <1>3, <1>4
    <3> QED BY <2>2, <2>4, <3>1
  <2>5. SegStart' = base /\ cmd'.first = cmd.first /\ disk' = disk /\ data_out' = data_out /\ st' = st
    BY <1>1, <1>11, <2>1
  <2> HIDE DEF base
  <2>6. ASSUME NEW z \in cmd.first .. PushedTo' - 1
        PROVE  IF z < SegStart' THEN disk'[Place[z]] = data_out'[z] ELSE want'[z - SegStart'] = data_out'[z]
    <3>1. z \in cmd.first .. cmd.fsec + Piece - 1
      BY <1>3, <1>4, <2>1
    <3>2. z < base => disk[Place[z]] = data_out[z]
      BY <2>4, <3>1
    <3>3. ~(z < base) => want'[z - base] = data_out[z]
      BY <2>3, <3>1
    <3> QED BY <2>5, <3>2, <3>3
  <2>7. cmd.first <= SegStart' + st'.verified
    BY <2>1, <2>5
  <2> QED BY <2>5, <2>6, <2>7 DEF Landed
<1> QED BY <1>11, <1>13, <1>14, <1>15, <1>16, <1>17 DEF WInv

(* A buffer worked off is kept or goes back, and never both.                *)
LEMMA TakenFields ==
  ASSUME NEW c \in CmdRec, c.buf \in Buf
  PROVE  /\ \A t \in {Taken(c, TRUE), Taken(c, FALSE)} :
              /\ t \in CmdRec /\ t.pc = "arm" /\ t.buf = NoBuf /\ t.received = c.received + c.len
              /\ t.first = c.first /\ t.n = c.n /\ t.fsec = c.fsec /\ t.armed = c.armed /\ t.open = c.open
              /\ t.seg = c.seg /\ t.segDone = c.segDone /\ t.off = c.off /\ t.len = c.len
         /\ Taken(c, TRUE).free = c.free \cup {c.buf} /\ Taken(c, TRUE).hold = c.hold
         /\ Taken(c, FALSE).free = c.free \cup ({c.hold} \ {NoBuf}) /\ Taken(c, FALSE).hold = c.buf
<1> DEFINE r == c.received + c.len
           done == [c EXCEPT !.received = r, !.pc = "arm", !.buf = NoBuf]
           g == c.free \cup ({c.hold} \ {NoBuf})
           h == c.free \cup {c.buf}
<1>1. r \in Nat /\ g \in SUBSET Buf /\ h \in SUBSET Buf
  BY DEF CmdRec
<1>2. done = [c EXCEPT !.received = @ + c.len, !.pc = "arm", !.buf = NoBuf]
  BY DEF CmdRec
<1>3. /\ Taken(c, TRUE) = [done EXCEPT !.free = @ \cup {c.buf}]
      /\ Taken(c, FALSE) = [done EXCEPT !.free = @ \cup ({c.hold} \ {NoBuf}), !.hold = c.buf]
  <2> HIDE DEF done
  <2> QED BY <1>2 DEF Taken
<1> HIDE DEF r
<1>4. /\ done \in CmdRec /\ done.pc = "arm" /\ done.buf = NoBuf /\ done.received = r
      /\ done.first = c.first /\ done.n = c.n /\ done.fsec = c.fsec /\ done.armed = c.armed /\ done.open = c.open
      /\ done.seg = c.seg /\ done.segDone = c.segDone /\ done.off = c.off /\ done.len = c.len
      /\ done.free = c.free /\ done.hold = c.hold
  BY <1>1 DEF CmdRec, CmdPc
<1> HIDE DEF done
<1>5. Taken(c, TRUE) = [done EXCEPT !.free = h] /\ Taken(c, FALSE) = [done EXCEPT !.free = g, !.hold = c.buf]
  BY <1>3, <1>4 DEF CmdRec
<1>6. r = c.received + c.len /\ g = c.free \cup ({c.hold} \ {NoBuf}) /\ h = c.free \cup {c.buf}
  BY DEF r
<1> HIDE DEF g, h
<1>7. /\ Taken(c, TRUE).free = h /\ Taken(c, TRUE).hold = c.hold
      /\ Taken(c, FALSE).free = g /\ Taken(c, FALSE).hold = c.buf
  BY <1>4, <1>5 DEF CmdRec
<1>8. ASSUME NEW t \in {Taken(c, TRUE), Taken(c, FALSE)}
      PROVE  /\ t \in CmdRec /\ t.pc = "arm" /\ t.buf = NoBuf /\ t.received = r
             /\ t.first = c.first /\ t.n = c.n /\ t.fsec = c.fsec /\ t.armed = c.armed /\ t.open = c.open
             /\ t.seg = c.seg /\ t.segDone = c.segDone /\ t.off = c.off /\ t.len = c.len
  <2>1. CASE t = [done EXCEPT !.free = h]
    BY <1>1, <1>4, <2>1 DEF CmdRec
  <2>2. CASE t = [done EXCEPT !.free = g, !.hold = c.buf]
    BY <1>1, <1>4, <2>2 DEF CmdRec
  <2> QED BY <1>5, <2>1, <2>2
<1> QED BY <1>6, <1>7, <1>8

(* The buffers USB has are buffers. *)
LEMMA InUseIn ==
  ASSUME WInv
  PROVE  /\ InUse = BufOf(armed) \cup BufOf(rxdone) /\ InUse \subseteq Buf /\ cmd.free \subseteq Buf
         /\ \A i \in 1..Len(armed) : armed[i] \in Request
         /\ \A i \in 1..Len(rxdone) : rxdone[i] \in Completion
<1>1. /\ \A i \in 1..Len(armed) : armed[i] \in Request
      /\ \A i \in 1..Len(rxdone) : rxdone[i] \in Completion
  BY Locals
<1>2. InUse = BufOf(armed) \cup BufOf(rxdone)
  BY DEF InUse, BufOf
<1>3. BufOf(armed) \subseteq Buf /\ BufOf(rxdone) \subseteq Buf
  BY <1>1 DEF BufOf, Request, Completion
<1> QED BY <1>1, <1>2, <1>3, Locals

(* After a piece: the next one, the end of the stream or the next buffer.   *)
LEMMA PushedInv ==
  ASSUME IInv, WInv, Pushed, ret = "OK"
  PROVE  WInv'
<1> DEFINE c == [cmd EXCEPT !.off = @ + Piece, !.segDone = @ + Piece, !.fsec = @ + Piece]
<1>1. /\ cmd.pc = "pushing" /\ CallIdle /\ cmd.open /\ owned /\ ~wb.open /\ InPiece
      /\ UNCHANGED <<st, ret, owned, dpsm, disk, mem, want, handed, wb, armed, rxdone, data_out, status, ncmd>>
      /\ IF c.segDone = c.seg
           THEN End /\ cmd' = [c EXCEPT !.pc = "ending"]
           ELSE call' = call /\ cmd' = NextPiece(c)
  BY DEF Pushed, End, stream, usb, host, hardware, memory, result, WInv, Ownership, InPiece, Resting, CallIdle
<1>2. /\ cmd.segDone <= cmd.fsec /\ cmd.seg = st.total /\ Lies(cmd.fsec - cmd.segDone)
      /\ cmd.segDone < cmd.seg /\ handed = cmd.segDone + Piece /\ Heading = cmd.segDone + Left
      /\ st.prev = cmd.buf
  BY <1>1 DEF WInv, Segment, Announces, Buffers
<1>3. /\ cmd.fsec \in Nat /\ cmd.segDone \in Nat /\ cmd.seg \in Nat /\ cmd.off \in Nat /\ cmd.len \in Nat
      /\ cmd.n \in Nat /\ cmd.received \in Nat /\ cmd.first \in Nat /\ cmd.armed \in Nat
  BY Locals
<1>4. /\ Piece \in Nat /\ Piece >= 1 /\ Piece <= cmd.len - cmd.off /\ Piece <= cmd.seg - cmd.segDone
      /\ cmd.received + cmd.len <= cmd.n /\ cmd.received + cmd.len <= cmd.armed /\ cmd.len <= ChunkLen
      /\ cmd.fsec = cmd.first + cmd.received + cmd.off /\ cmd.buf \in Buf
      /\ Piece = Smaller(cmd.len - cmd.off, cmd.seg - cmd.segDone)
  BY <1>1, PieceIn DEF WInv, Position, Piece
<1>5. /\ c \in CmdRec /\ c.first = cmd.first /\ c.n = cmd.n /\ c.armed = cmd.armed /\ c.received = cmd.received
      /\ c.open /\ c.seg = cmd.seg /\ c.free = cmd.free /\ c.hold = cmd.hold /\ c.buf = cmd.buf /\ c.len = cmd.len
      /\ c.off = cmd.off + Piece /\ c.segDone = cmd.segDone + Piece /\ c.fsec = cmd.fsec + Piece
  <2> DEFINE o == cmd.off + Piece
             d == cmd.segDone + Piece
             f == cmd.fsec + Piece
  <2>1. o \in Nat /\ d \in Nat /\ f \in Nat
    BY <1>3, <1>4
  <2>2. c = [cmd EXCEPT !.off = o, !.segDone = d, !.fsec = f]
    BY Locals DEF CmdRec
  <2> HIDE DEF o, d, f, c
  <2>3. /\ c \in CmdRec /\ c.first = cmd.first /\ c.n = cmd.n /\ c.armed = cmd.armed /\ c.received = cmd.received
        /\ c.open = cmd.open /\ c.seg = cmd.seg /\ c.free = cmd.free /\ c.hold = cmd.hold /\ c.buf = cmd.buf
        /\ c.len = cmd.len /\ c.off = o /\ c.segDone = d /\ c.fsec = f
    BY <2>1, <2>2, Locals DEF CmdRec
  <2> QED BY <1>1, <2>3 DEF o, d, f
<1> HIDE DEF c
<1>6. /\ Left = Smaller(cmd.n - cmd.received - cmd.off, cmd.seg - cmd.segDone) /\ Left \in Int /\ Piece <= Left
      /\ Left - Piece = Smaller(cmd.n - cmd.received - (cmd.off + Piece), cmd.seg - (cmd.segDone + Piece))
  BY <1>1, <1>3, <1>4 DEF Left, Off, Smaller
<1>7. ASSUME cmd'.fsec = c.fsec, cmd'.segDone = c.segDone, cmd'.first = cmd.first, cmd'.open, cmd'.pc # "pushing",
             cmd' \in CmdRec
      PROVE  Landed' /\ WTypeOK' /\ SegStart' = cmd.fsec - cmd.segDone
  <2>1. SegStart' = SegStart /\ PushedTo' = PushedTo /\ SegStart = cmd.fsec - cmd.segDone
    BY <1>1, <1>3, <1>4, <1>5, <1>7 DEF SegStart, PushedTo
  <2>2. WTypeOK'
    BY <1>1, <1>7 DEF WInv, WTypeOK, InFlightBufs
  <2>3. Landed'
    BY <1>1, <1>7, <2>1 DEF WInv, Landed
  <2> QED BY <2>1, <2>2, <2>3
<1>8. InUse' = InUse /\ BufOf(armed)' = BufOf(armed) /\ BufOf(rxdone)' = BufOf(rxdone) /\ Heading' = Heading
  BY <1>1 DEF InUse, BufOf, Heading
<1>9. ret # "PARAM"
  BY <1>1 DEF WInv, Ownership
<1>10. /\ cmd.hold # cmd.buf /\ cmd.hold \notin InUse \cup cmd.free /\ cmd.buf \notin InUse \cup cmd.free
       /\ NoBuf \notin InUse \cup cmd.free
  <2>1. /\ cmd.hold # NoBuf => cmd.hold # cmd.buf
        /\ cmd.hold \notin InUse \cup cmd.free /\ cmd.buf \notin InUse \cup cmd.free
    BY DEF WInv, Buffers
  <2> QED BY <1>4, <2>1, InUseIn, DataAssumption
<1>11. CASE c.segDone = c.seg
  <2>1. End /\ cmd' = [c EXCEPT !.pc = "ending"]
    BY <1>1, <1>11
  <2>2. /\ cmd' \in CmdRec /\ cmd'.pc = "ending" /\ cmd'.first = cmd.first /\ cmd'.n = cmd.n
        /\ cmd'.armed = cmd.armed /\ cmd'.received = cmd.received /\ cmd'.open /\ cmd'.seg = cmd.seg
        /\ cmd'.free = cmd.free /\ cmd'.hold = cmd.hold /\ cmd'.buf = cmd.buf /\ cmd'.len = cmd.len
        /\ cmd'.off = c.off /\ cmd'.segDone = c.segDone /\ cmd'.fsec = c.fsec
    BY <1>5, <2>1 DEF CmdRec, CmdPc
  <2>3. call'.op = "end" /\ call'.pc = "loop" /\ call'.e = "OK" /\ ~CallIdle'
    BY <2>1 DEF End, NoCall, CallIdle
  <2>4. InPiece' /\ ~Resting'
    BY <2>2 DEF InPiece, Resting
  <2>5. Heading = handed
    <3>1. cmd.segDone + Piece = cmd.seg
      BY <1>5, <1>11
    <3>2. Left <= cmd.seg - cmd.segDone
      BY <1>3, <1>6 DEF Smaller
    <3> QED BY <1>2, <1>3, <1>4, <1>6, <3>1, <3>2
  <2>6. Guided'
    <3>1. st.prev # NoBuf
      BY <1>2, <1>4, DataAssumption
    <3>2. st.started
      BY <1>1, <3>1 DEF WInv, Guided
    <3> QED BY <1>1, <1>8, <2>3, <2>5, <3>1, <3>2 DEF WInv, Guided, CallIdle
  <2>7. Ownership'
    BY <1>1, <1>9, <2>2, <2>3, <2>4 DEF Ownership, Resting
  <2>8. Position'
    <3>1. c.off <= cmd.len /\ c.fsec = cmd.first + cmd.received + c.off
      BY <1>3, <1>4, <1>5
    <3> QED BY <1>1, <1>4, <2>2, <2>4, <3>1 DEF WInv, Position
  <2>9. Landed' /\ WTypeOK' /\ SegStart' = cmd.fsec - cmd.segDone
    BY <1>7, <2>2
  <2>10. Segment' /\ Announces'
    <3>1. cmd'.fsec - cmd'.segDone = cmd.fsec - cmd.segDone /\ cmd'.segDone <= cmd'.fsec /\ handed = cmd'.segDone + 0
      BY <1>2, <1>3, <1>4, <1>5, <2>2
    <3> QED BY <1>1, <1>2, <1>5, <1>11, <2>2, <2>3, <3>1 DEF Segment, Announces, Lies
  <2>11. Buffers'
    BY <1>1, <1>2, <1>8, <1>10, <2>2, <2>3, <2>4 DEF WInv, Buffers
  <2>12. Incoming'
    BY <1>1, <2>2, <2>4 DEF WInv, Incoming, Holds, RxFrom, Whole, RxLen, ArmLen
  <2> QED BY <2>6, <2>7, <2>8, <2>9, <2>10, <2>11, <2>12 DEF WInv
<1>12. CASE c.segDone # c.seg
  <2>1. call' = call /\ cmd' = NextPiece(c)
    BY <1>1, <1>12
  <2>2. Guided' /\ CallIdle'
    BY <1>1, <2>1, StreamRests
  <2>3. c.segDone < c.seg /\ handed = c.segDone /\ Lies(c.fsec - c.segDone) /\ c.segDone <= c.fsec
        /\ Heading = c.segDone + (Left - Piece)
    <3>1. c.fsec - c.segDone = cmd.fsec - cmd.segDone
      BY <1>3, <1>4, <1>5
    <3>2. Lies(c.fsec - c.segDone)
      BY <1>2, <3>1
    <3>3. c.segDone < c.seg /\ handed = c.segDone /\ c.segDone <= c.fsec /\ Heading = c.segDone + (Left - Piece)
      BY <1>2, <1>3, <1>4, <1>5, <1>6, <1>12
    <3> QED BY <3>2, <3>3
  <2>4. CASE c.off < c.len
    <3>1. /\ cmd' \in CmdRec /\ cmd'.pc = "piece" /\ cmd'.first = cmd.first /\ cmd'.n = cmd.n
          /\ cmd'.armed = cmd.armed /\ cmd'.received = cmd.received /\ cmd'.open /\ cmd'.seg = cmd.seg
          /\ cmd'.free = cmd.free /\ cmd'.hold = cmd.hold /\ cmd'.buf = cmd.buf /\ cmd'.len = cmd.len
          /\ cmd'.off = c.off /\ cmd'.segDone = c.segDone /\ cmd'.fsec = c.fsec
      <4>1. cmd' = [c EXCEPT !.pc = "piece"]
        BY <2>1, <2>4 DEF NextPiece
      <4> QED BY <1>5, <4>1 DEF CmdRec, CmdPc
    <3>2. InPiece' /\ ~Resting' /\ Left' = Left - Piece
      BY <1>5, <1>6, <3>1 DEF InPiece, Resting, Left, Off
    <3>3. Ownership'
      BY <1>1, <1>9, <2>2, <3>1 DEF Ownership, Resting
    <3>4. Position'
      <4>1. c.off <= cmd.len /\ c.fsec = cmd.first + cmd.received + c.off
        BY <1>3, <1>4, <1>5
      <4> QED BY <1>1, <1>4, <1>5, <2>4, <3>1, <3>2, <4>1 DEF WInv, Position
    <3>5. Landed' /\ WTypeOK'
      BY <1>7, <3>1
    <3>6. Segment'
      BY <1>1, <1>2, <1>3, <1>4, <1>5, <2>3, <3>1 DEF Segment, Lies
    <3>7. Announces'
      BY <1>1, <1>8, <2>3, <3>1, <3>2 DEF Announces
    <3>8. Buffers'
      BY <1>1, <1>2, <1>8, <1>10, <3>1, <3>2 DEF WInv, Buffers
    <3>9. Incoming'
      BY <1>1, <3>1, <3>2 DEF WInv, Incoming, Holds, RxFrom, Whole, RxLen, ArmLen
    <3> QED BY <2>2, <3>3, <3>4, <3>5, <3>6, <3>7, <3>8, <3>9 DEF WInv
  <2>5. CASE ~(c.off < c.len)
    <3>1. /\ cmd' \in CmdRec /\ cmd'.pc = "arm" /\ cmd'.first = cmd.first /\ cmd'.n = cmd.n
          /\ cmd'.armed = cmd.armed /\ cmd'.received = cmd.received + cmd.len /\ cmd'.open /\ cmd'.seg = cmd.seg
          /\ cmd'.free = cmd.free \cup ({cmd.hold} \ {NoBuf}) /\ cmd'.hold = cmd.buf /\ cmd'.buf = NoBuf
          /\ cmd'.segDone = c.segDone /\ cmd'.fsec = c.fsec
      <4>1. cmd' = Taken(c, FALSE) /\ c.buf \in Buf
        BY <1>4, <1>5, <2>1, <2>5 DEF NextPiece
      <4> QED BY <1>5, <4>1, TakenFields
    <3>2. ~InPiece' /\ ~Resting'
      BY <3>1 DEF InPiece, Resting
    <3>3. cmd.off + Piece = cmd.len /\ c.fsec = cmd.first + (cmd.received + cmd.len)
      BY <1>3, <1>4, <1>5, <2>5
    <3>4. Left' = Left - Piece
      <4>1. cmd.n - (cmd.received + cmd.len) - 0 = cmd.n - cmd.received - (cmd.off + Piece)
        BY <1>3, <1>4, <3>3
      <4> QED BY <1>5, <1>6, <3>1, <3>2, <4>1 DEF Left, Off
    <3>5. Ownership'
      BY <1>1, <1>9, <2>2, <3>1 DEF Ownership, Resting
    <3>6. Position'
      BY <1>1, <1>3, <1>4, <3>1, <3>2, <3>3 DEF WInv, Position
    <3>7. Landed' /\ WTypeOK'
      BY <1>7, <3>1
    <3>8. Segment'
      BY <1>1, <1>2, <1>3, <1>4, <1>5, <2>3, <3>1 DEF Segment, Lies
    <3>9. Announces'
      BY <1>1, <1>8, <2>3, <3>1, <3>4 DEF Announces
    <3>10. Buffers'
      BY <1>1, <1>2, <1>4, <1>8, <1>10, <3>1, <3>2, DataAssumption DEF WInv, Buffers
    <3>11. Incoming'
      <4>1. RxFrom' = RxFrom
        BY <1>1, <1>3, <3>1, <3>2 DEF RxFrom
      <4> QED BY <1>1, <3>1, <3>2, <4>1 DEF WInv, Incoming, Holds, Whole, RxLen, ArmLen
    <3> QED BY <2>2, <3>5, <3>6, <3>7, <3>8, <3>9, <3>10, <3>11 DEF WInv
  <2> QED BY <2>4, <2>5
<1> QED BY <1>11, <1>12

(* A stream ended well left all of its run on the card. *)
LEMMA EndedInv ==
  ASSUME IInv, WInv, Ended, ret = "OK"
  PROVE  WInv'
<1> DEFINE c == [cmd EXCEPT !.open = FALSE, !.free = @ \cup ({cmd.hold} \ {NoBuf}), !.hold = NoBuf]
           base == cmd.fsec - cmd.segDone
<1>1. /\ cmd.pc = "ending" /\ CallIdle /\ cmd.open /\ ~owned /\ ~wb.open /\ InPiece /\ ret # "PARAM"
      /\ call.op = "end"
      /\ UNCHANGED <<st, call, ret, owned, dpsm, disk, mem, want, handed, wb, armed, rxdone, data_out, status, ncmd>>
  BY DEF Ended, stream, hardware, usb, host, WInv, Ownership, InPiece, Resting, CallIdle
<1>0. cmd' = IF c.off = c.len THEN Taken(c, TRUE) ELSE [c EXCEPT !.pc = "piece"]
  BY DEF Ended
<1>2. /\ cmd.segDone <= cmd.fsec /\ cmd.seg = st.total /\ Lies(base) /\ cmd.segDone = cmd.seg
      /\ handed = cmd.segDone
  BY <1>1, Locals DEF WInv, Segment
<1>3. /\ cmd.fsec \in Nat /\ cmd.segDone \in Nat /\ cmd.seg \in Nat /\ cmd.off \in Nat /\ cmd.len \in Nat
      /\ cmd.n \in Nat /\ cmd.received \in Nat /\ cmd.first \in Nat /\ cmd.armed \in Nat
  BY Locals
<1>4. /\ cmd.received + cmd.len <= cmd.n /\ cmd.received + cmd.len <= cmd.armed /\ cmd.len <= ChunkLen
      /\ cmd.fsec = cmd.first + cmd.received + cmd.off /\ cmd.buf \in Buf /\ cmd.off <= cmd.len
  BY <1>1, PieceIn DEF WInv, Position
<1>5. /\ c \in CmdRec /\ c.first = cmd.first /\ c.n = cmd.n /\ c.armed = cmd.armed /\ c.received = cmd.received
      /\ ~c.open /\ c.fsec = cmd.fsec /\ c.buf = cmd.buf /\ c.len = cmd.len /\ c.off = cmd.off
      /\ c.free = cmd.free \cup ({cmd.hold} \ {NoBuf}) /\ c.hold = NoBuf
  <2> DEFINE g == cmd.free \cup ({cmd.hold} \ {NoBuf})
  <2>1. g \in SUBSET Buf /\ c = [cmd EXCEPT !.open = FALSE, !.free = g, !.hold = NoBuf]
    BY Locals DEF CmdRec
  <2> HIDE DEF g, c
  <2>2. /\ c \in CmdRec /\ c.first = cmd.first /\ c.n = cmd.n /\ c.armed = cmd.armed /\ c.received = cmd.received
        /\ ~c.open /\ c.fsec = cmd.fsec /\ c.buf = cmd.buf /\ c.len = cmd.len /\ c.off = cmd.off
        /\ c.free = g /\ c.hold = NoBuf
    BY <2>1, Locals DEF CmdRec
  <2> QED BY <2>2 DEF g
<1> HIDE DEF c
<1>6. \A z \in cmd.first .. cmd.fsec - 1 : disk[Place[z]] = data_out[z]
  <2> SUFFICES ASSUME NEW z \in cmd.first .. cmd.fsec - 1 PROVE disk[Place[z]] = data_out[z]
    OBVIOUS
  <2>1. SegStart = base /\ PushedTo = cmd.fsec
    BY <1>1, <1>3 DEF SegStart, PushedTo
  <2>2. IF z < base THEN disk[Place[z]] = data_out[z] ELSE want[z - base] = data_out[z]
    BY <1>1, <2>1 DEF WInv, Landed
  <2>3. CASE ~(z < base)
    <3>1. z - base \in 0 .. st.total - 1 /\ base + (z - base) = z
      BY <2>3, <1>2, <1>3
    <3>2. Place[z] = st.lba + (z - base)
      BY <1>2, <3>1 DEF Lies
    <3>3. st.verified = handed
      BY <1>1 DEF IInv, SettledAll, CallIdle
    <3>4. disk[st.lba + (z - base)] = want[z - base]
      BY <1>2, <3>1, <3>3 DEF IInv, VerifiedOnCard
    <3> QED BY <2>2, <2>3, <3>2, <3>4
  <2> QED BY <2>2, <2>3
<1>7. ASSUME cmd'.fsec = cmd.fsec, cmd'.first = cmd.first, ~cmd'.open, cmd'.pc # "pushing", cmd' \in CmdRec
      PROVE  Landed' /\ WTypeOK'
  <2>1. SegStart' = cmd.fsec /\ PushedTo' = cmd.fsec
    BY <1>3, <1>7 DEF SegStart, PushedTo
  <2>2. WTypeOK'
    BY <1>1, <1>7 DEF WInv, WTypeOK, InFlightBufs
  <2>3. ASSUME NEW z \in cmd.first .. PushedTo' - 1
        PROVE  z < SegStart' /\ disk[Place[z]] = data_out[z]
    BY <1>3, <1>6, <2>1
  <2> QED BY <1>1, <1>7, <2>2, <2>3 DEF Landed
<1>8. InUse' = InUse /\ BufOf(armed)' = BufOf(armed) /\ BufOf(rxdone)' = BufOf(rxdone)
  BY <1>1 DEF InUse, BufOf
<1>9. Guided' /\ CallIdle'
  BY <1>1, StreamRests
<1>10. /\ cmd.hold # cmd.buf /\ cmd.hold \notin InUse \cup cmd.free /\ cmd.buf \notin InUse \cup cmd.free
       /\ NoBuf \notin InUse \cup cmd.free
  <2>1. /\ cmd.hold # NoBuf => cmd.hold # cmd.buf
        /\ cmd.hold \notin InUse \cup cmd.free /\ cmd.buf \notin InUse \cup cmd.free
    BY DEF WInv, Buffers
  <2> QED BY <1>4, <2>1, InUseIn, DataAssumption
<1>11. CASE c.off = c.len
  <2>1. /\ cmd' \in CmdRec /\ cmd'.pc = "arm" /\ cmd'.first = cmd.first /\ cmd'.n = cmd.n
        /\ cmd'.armed = cmd.armed /\ cmd'.received = cmd.received + cmd.len /\ ~cmd'.open
        /\ cmd'.free = cmd.free \cup ({cmd.hold} \ {NoBuf}) \cup {cmd.buf} /\ cmd'.hold = NoBuf /\ cmd'.buf = NoBuf
        /\ cmd'.fsec = cmd.fsec
    <3>1. cmd' = Taken(c, TRUE) /\ c.buf \in Buf
      BY <1>0, <1>4, <1>5, <1>11
    <3> QED BY <1>5, <3>1, TakenFields
  <2>2. ~InPiece' /\ ~Resting'
    BY <2>1 DEF InPiece, Resting
  <2>3. Ownership' /\ Segment' /\ Announces'
    BY <1>1, <1>9, <2>1 DEF Ownership, Segment, Announces, Resting
  <2>4. cmd.fsec = cmd.first + (cmd.received + cmd.len)
    BY <1>3, <1>4, <1>5, <1>11
  <2>5. Position'
    BY <1>1, <1>3, <1>4, <2>1, <2>2, <2>4 DEF WInv, Position
  <2>6. Landed' /\ WTypeOK'
    BY <1>7, <2>1
  <2>7. Buffers'
    BY <1>1, <1>4, <1>8, <1>10, <2>1, <2>2, DataAssumption DEF WInv, Buffers
  <2>8. Incoming'
    <3>1. RxFrom' = RxFrom
      BY <1>1, <1>3, <2>1, <2>2 DEF RxFrom
    <3> QED BY <1>1, <2>1, <2>2, <3>1 DEF WInv, Incoming, Holds, Whole, RxLen, ArmLen
  <2> QED BY <1>9, <2>3, <2>5, <2>6, <2>7, <2>8 DEF WInv
<1>12. CASE c.off # c.len
  <2>1. /\ cmd' \in CmdRec /\ cmd'.pc = "piece" /\ cmd'.first = cmd.first /\ cmd'.n = cmd.n
        /\ cmd'.armed = cmd.armed /\ cmd'.received = cmd.received /\ ~cmd'.open
        /\ cmd'.free = cmd.free \cup ({cmd.hold} \ {NoBuf}) /\ cmd'.hold = NoBuf /\ cmd'.buf = cmd.buf
        /\ cmd'.fsec = cmd.fsec /\ cmd'.off = cmd.off /\ cmd'.len = cmd.len
    <3>1. cmd' = [c EXCEPT !.pc = "piece"]
      BY <1>0, <1>12
    <3> QED BY <1>5, <3>1 DEF CmdRec, CmdPc
  <2>2. InPiece' /\ ~Resting'
    BY <2>1 DEF InPiece, Resting
  <2>3. Ownership' /\ Segment' /\ Announces'
    BY <1>1, <1>9, <2>1 DEF Ownership, Segment, Announces, Resting
  <2>4. cmd.off < cmd.len
    BY <1>3, <1>4, <1>5, <1>12
  <2>5. Position'
    BY <1>1, <1>4, <2>1, <2>2, <2>4 DEF WInv, Position
  <2>6. Landed' /\ WTypeOK'
    BY <1>7, <2>1
  <2>7. Buffers'
    BY <1>1, <1>4, <1>8, <1>10, <2>1, <2>2, DataAssumption DEF WInv, Buffers
  <2>8. Incoming'
    BY <1>1, <2>1, <2>2 DEF WInv, Incoming, Holds, RxFrom, Whole, RxLen, ArmLen
  <2> QED BY <1>9, <2>3, <2>5, <2>6, <2>7, <2>8 DEF WInv
<1> QED BY <1>11, <1>12

---------------------------------------------------------------------------
(* The queues between the main loop and the controller. *)

LEMMA Appended ==
  ASSUME NEW S, NEW q \in Seq(S), NEW x \in S
  PROVE  /\ Append(q, x) \in Seq(S) /\ Len(Append(q, x)) = Len(q) + 1 /\ Len(q) \in Nat
         /\ \A i \in 1..Len(q) : Append(q, x)[i] = q[i]
         /\ Append(q, x)[Len(q) + 1] = x
         /\ BufOf(Append(q, x)) = BufOf(q) \cup {x.buf}
<1>1. /\ Append(q, x) \in Seq(S) /\ Len(Append(q, x)) = Len(q) + 1 /\ Len(q) \in Nat
      /\ \A i \in 1..Len(q) : Append(q, x)[i] = q[i]
      /\ Append(q, x)[Len(q) + 1] = x
  OBVIOUS
<1> DEFINE r == Append(q, x)
<1> HIDE DEF r
<1>2. Len(r) = Len(q) + 1 /\ (\A i \in 1..Len(q) : r[i] = q[i]) /\ r[Len(q) + 1] = x /\ Len(q) \in Nat
  BY <1>1 DEF r
<1>3. BufOf(r) = BufOf(q) \cup {x.buf}
  BY <1>2 DEF BufOf
<1> QED BY <1>1, <1>3 DEF r

LEMMA Popped ==
  ASSUME NEW S, NEW q \in Seq(S), q # <<>>
  PROVE  /\ Tail(q) \in Seq(S) /\ Len(Tail(q)) = Len(q) - 1 /\ Len(q) \in Nat /\ Len(q) >= 1
         /\ \A i \in 1..Len(Tail(q)) : Tail(q)[i] = q[i + 1]
         /\ Head(q) = q[1] /\ Head(q) \in S
         /\ BufOf(q) = BufOf(Tail(q)) \cup {q[1].buf}
<1>1. /\ Tail(q) \in Seq(S) /\ Len(Tail(q)) = Len(q) - 1 /\ Len(q) \in Nat /\ Len(q) >= 1
      /\ \A i \in 1..Len(Tail(q)) : Tail(q)[i] = q[i + 1]
      /\ Head(q) = q[1] /\ Head(q) \in S
  OBVIOUS
<1> DEFINE r == Tail(q)
<1> HIDE DEF r
<1>2. Len(r) = Len(q) - 1 /\ (\A i \in 1..Len(r) : r[i] = q[i + 1]) /\ Len(q) \in Nat /\ Len(q) >= 1
  BY <1>1 DEF r
<1>3. ASSUME NEW i \in 1..Len(q) PROVE q[i].buf \in BufOf(r) \cup {q[1].buf}
  <2>1. CASE i # 1
    <3>1. i - 1 \in 1..Len(r) /\ r[i - 1] = q[i]
      BY <1>2, <2>1
    <3> QED BY <3>1 DEF BufOf
  <2> QED BY <2>1
<1>4. ASSUME NEW i \in 1..Len(r) PROVE r[i].buf \in BufOf(q)
  <2>1. i + 1 \in 1..Len(q) /\ r[i] = q[i + 1]
    BY <1>2
  <2> QED BY <2>1 DEF BufOf
<1>5. BufOf(q) = BufOf(r) \cup {q[1].buf}
  <2>1. 1 \in 1..Len(q)
    BY <1>2
  <2> QED BY <1>3, <1>4, <2>1 DEF BufOf
<1> QED BY <1>1, <1>5 DEF r

(* A step of the reception that leaves the stream, the place in the LUN and *)
(* the buffer worked on alone keeps what is said of them.                   *)
LEMMA ReceptionFrame ==
  ASSUME IInv, WInv, ~Resting,
         UNCHANGED <<st, call, ret, owned, dpsm, disk, want, handed, wb, data_out, status, ncmd>>,
         cmd'.pc = cmd.pc, cmd'.first = cmd.first, cmd'.n = cmd.n, cmd'.fsec = cmd.fsec,
         cmd'.received = cmd.received, cmd'.open = cmd.open, cmd'.seg = cmd.seg, cmd'.segDone = cmd.segDone,
         cmd'.hold = cmd.hold, cmd'.buf = cmd.buf, cmd'.off = cmd.off, cmd'.len = cmd.len
  PROVE  /\ Ownership' /\ Segment' /\ Announces' /\ Guided' /\ Landed'
         /\ cmd.received <= cmd'.armed /\ cmd'.armed <= cmd.n
            /\ (InPiece => cmd.received + cmd.len <= cmd'.armed) => Position'
         /\ InPiece' = InPiece /\ ~Resting' /\ RxFrom' = RxFrom
<1>1. /\ InPiece' = InPiece /\ ~Resting' /\ RxFrom' = RxFrom /\ Piece' = Piece /\ PushedTo' = PushedTo
      /\ SegStart' = SegStart /\ Left' = Left /\ Resting' = Resting
  BY DEF InPiece, Resting, RxFrom, Piece, PushedTo, SegStart, Left, Off
<1>2. Guided' /\ CallIdle' = CallIdle /\ Heading' = Heading
  BY StreamRests
<1>3. Ownership'
  BY <1>1, <1>2 DEF WInv, Ownership, CallIdle
<1>4. Segment'
  BY <1>1, <1>2 DEF WInv, Segment, Lies
<1>5. Announces'
  BY <1>1, <1>2 DEF WInv, Announces
<1>6. Landed'
  BY <1>1 DEF WInv, Landed
<1>7. cmd.received <= cmd'.armed /\ cmd'.armed <= cmd.n
        /\ (InPiece => cmd.received + cmd.len <= cmd'.armed) => Position'
  <2> SUFFICES ASSUME cmd.received <= cmd'.armed, cmd'.armed <= cmd.n,
                      InPiece => cmd.received + cmd.len <= cmd'.armed
               PROVE  Position'
    OBVIOUS
  <2>1. cmd.pc # "idle"
    BY DEF Resting
  <2>2. /\ status = "pending" /\ cmd.n >= 1 /\ cmd.first \in FSec /\ cmd.first + cmd.n - 1 \in FSec
        /\ data_out \in [cmd.first .. cmd.first + cmd.n - 1 -> Value]
        /\ ~InPiece => cmd.fsec = cmd.first + cmd.received
        /\ InPiece => /\ cmd.fsec = cmd.first + cmd.received + cmd.off
                      /\ cmd.off <= cmd.len /\ (cmd.pc # "ending" => cmd.off < cmd.len)
                      /\ cmd.len <= ChunkLen
        /\ cmd.pc = "settling" => cmd.received = cmd.n
    BY <2>1 DEF WInv, Position
  <2> QED BY <1>1, <2>1, <2>2 DEF Position
<1> QED BY <1>1, <1>2, <1>3, <1>4, <1>5, <1>6, <1>7

LEMMA TwoQueues ==
  ASSUME NEW a \in Nat, NEW b \in Nat
  PROVE  /\ a + b < 2 => a = 0 \/ a = 1
         /\ a + b <= 2 /\ a >= 1 => b = 0 \/ (b = 1 /\ a = 1)
         /\ a + b <= 2 /\ b >= 1 => b = 1 \/ (b = 2 /\ a = 0)
OBVIOUS

LEMMA RxNat ==
  ASSUME WInv
  PROVE  RxFrom \in Nat /\ RxLen(1) \in Nat /\ RxLen(2) \in Nat /\ ArmLen(1) \in Nat /\ ArmLen(2) \in Nat
<1>1. RxFrom \in Nat
  BY Counters DEF RxFrom
<1>2. /\ \A i \in 1..Len(armed) : armed[i].len \in Nat
      /\ \A i \in 1..Len(rxdone) : rxdone[i].len \in Nat
  BY InUseIn, Sizes DEF Request, Completion
<1> QED BY <1>1, <1>2, Locals DEF RxLen, ArmLen

LEMMA ArmInv ==
  ASSUME IInv, WInv, Arm
  PROVE  WInv'
<1> DEFINE k == Smaller(ChunkLen, cmd.n - cmd.armed)
<1>1. PICK b \in cmd.free :
        /\ armed' = Append(armed, [buf |-> b, len |-> k, from |-> cmd.first + cmd.armed])
        /\ cmd' = [cmd EXCEPT !.free = @ \ {b}, !.armed = @ + k]
  BY DEF Arm
<1>2. /\ cmd.pc = "arm" /\ CallIdle /\ cmd.armed < cmd.n /\ InFlightBufs < 2 /\ ~Resting /\ ~InPiece
      /\ UNCHANGED <<st, call, ret, owned, dpsm, disk, mem, want, handed, wb, rxdone, data_out, status, ncmd>>
  BY DEF Arm, MayArm, stream, hardware, host, Resting, InPiece
<1>3. cmd.armed \in Nat /\ cmd.n \in Nat /\ cmd.first \in Nat /\ cmd.received \in Nat /\ b \in Buf
  BY Locals
<1>4. k \in Nat /\ k >= 1 /\ k <= ChunkLen /\ cmd.armed + k <= cmd.n /\ k \in 1..ChunkLen
  BY <1>2, <1>3, Sizes DEF Smaller
<1> HIDE DEF k
<1> DEFINE x == [buf |-> b, len |-> k, from |-> cmd.first + cmd.armed]
<1>5. x \in Request /\ x.buf = b /\ x.len = k /\ x.from = cmd.first + cmd.armed
  BY <1>3, <1>4 DEF Request
<1>6. armed' = Append(armed, x)
  BY <1>1
<1> HIDE DEF x
<1>7. /\ armed' \in Seq(Request) /\ Len(armed') = Len(armed) + 1 /\ Len(armed) \in Nat
      /\ \A i \in 1..Len(armed) : armed'[i] = armed[i]
      /\ armed'[Len(armed) + 1] = x
      /\ BufOf(armed)' = BufOf(armed) \cup {b}
  <2>1. armed \in Seq(Request)
    BY Locals
  <2>2. BufOf(armed') = BufOf(armed)'
    BY DEF BufOf
  <2> QED BY <1>5, <1>6, <2>1, <2>2, Appended
<1>8. /\ cmd' \in CmdRec /\ cmd'.pc = cmd.pc /\ cmd'.first = cmd.first /\ cmd'.n = cmd.n /\ cmd'.fsec = cmd.fsec
      /\ cmd'.received = cmd.received /\ cmd'.open = cmd.open /\ cmd'.seg = cmd.seg /\ cmd'.segDone = cmd.segDone
      /\ cmd'.hold = cmd.hold /\ cmd'.buf = cmd.buf /\ cmd'.off = cmd.off /\ cmd'.len = cmd.len
      /\ cmd'.free = cmd.free \ {b} /\ cmd'.armed = cmd.armed + k
  <2> DEFINE g == cmd.free \ {b}
             a == cmd.armed + k
  <2>0. cmd \in CmdRec /\ cmd.free \in SUBSET Buf
    BY Locals
  <2>1. g \in SUBSET Buf /\ a \in Nat /\ cmd' = [cmd EXCEPT !.free = g, !.armed = a]
    BY <1>1, <1>3, <1>4, <2>0
  <2>2. g = cmd.free \ {b} /\ a = cmd.armed + k
    OBVIOUS
  <2> HIDE DEF g, a
  <2> QED BY <2>0, <2>1, <2>2 DEF CmdRec
<1>9. WTypeOK'
  <2>1. Len(rxdone) \in Nat
    BY Locals
  <2> QED BY <1>2, <1>7, <1>8, <2>1 DEF WInv, WTypeOK, InFlightBufs
<1>10. cmd.received <= cmd.armed /\ cmd.received <= cmd'.armed /\ cmd'.armed <= cmd.n
  BY <1>2, <1>3, <1>4, <1>8 DEF WInv, Position, Resting
<1>11. /\ Ownership' /\ Segment' /\ Announces' /\ Guided' /\ Landed' /\ Position'
       /\ ~InPiece' /\ ~Resting' /\ RxFrom' = RxFrom
  BY <1>2, <1>8, <1>10, ReceptionFrame
<1>12. b \notin InUse /\ InUse' = InUse \cup {b} /\ InUse = BufOf(armed) \cup BufOf(rxdone)
       /\ BufOf(rxdone)' = BufOf(rxdone)
  <2>1. InUse' = BufOf(armed)' \cup BufOf(rxdone)'
    BY DEF InUse, BufOf
  <2>2. BufOf(rxdone)' = BufOf(rxdone)
    BY <1>2 DEF BufOf
  <2>3. b \notin InUse
    BY DEF WInv, Buffers
  <2> QED BY <1>7, <2>1, <2>2, <2>3, InUseIn
<1>13. Buffers'
  <2>1. \A i \in 1..Len(armed) : armed[i].buf # b
    BY <1>12 DEF BufOf
  <2>2. \A i, j \in 1..Len(armed') : armed'[i].buf = armed'[j].buf => i = j
    <3>1. \A i \in 1..Len(armed') : i \in 1..Len(armed) \/ i = Len(armed) + 1
      BY <1>7
    <3>2. \A i, j \in 1..Len(armed) : armed[i].buf = armed[j].buf => i = j
      BY DEF WInv, Buffers
    <3> QED BY <1>5, <1>7, <2>1, <3>1, <3>2
  <2>3. /\ cmd.buf \notin InUse \cup cmd.free /\ cmd.hold \notin InUse \cup cmd.free
        /\ BufOf(armed) \cap BufOf(rxdone) = {} /\ InUse \cap cmd.free = {}
    BY DEF WInv, Buffers
  <2>4. /\ InUse' \cap cmd'.free = {} /\ cmd'.buf \notin InUse' \cup cmd'.free /\ cmd'.hold \notin InUse' \cup cmd'.free
        /\ BufOf(armed)' \cap BufOf(rxdone)' = {}
    BY <1>7, <1>8, <1>12, <2>3
  <2> QED BY <1>2, <1>8, <1>11, <2>2, <2>4 DEF WInv, Buffers
<1>14. Incoming'
  <2>1. /\ RxLen(1)' = RxLen(1) /\ RxLen(2)' = RxLen(2) /\ Whole' = Whole
    BY <1>2 DEF RxLen, Whole
  <2>2. RxFrom \in Nat /\ RxLen(1) \in Nat /\ RxLen(2) \in Nat
    BY Locals, RxNat
  <2>3. \A i \in 1..Len(armed') : armed'[i].from >= cmd.first /\ armed'[i].from + armed'[i].len <= cmd.first + cmd'.armed
    <3>1. \A i \in 1..Len(armed') : i \in 1..Len(armed) \/ i = Len(armed) + 1
      BY <1>7
    <3>2. ASSUME NEW i \in 1..Len(armed)
          PROVE  armed'[i].from >= cmd.first /\ armed'[i].from + armed'[i].len <= cmd.first + cmd'.armed
      <4>1. armed[i].from \in Nat /\ armed[i].len \in Nat /\ armed'[i] = armed[i]
        BY <1>7, InUseIn DEF Request
      <4>2. armed[i].from >= cmd.first /\ armed[i].from + armed[i].len <= cmd.first + cmd.armed
        BY DEF WInv, Incoming
      <4> QED BY <1>3, <1>4, <1>8, <4>1, <4>2
    <3>3. x.from >= cmd.first /\ x.from + x.len <= cmd.first + cmd'.armed
      BY <1>3, <1>4, <1>5, <1>8
    <3> QED BY <1>7, <3>1, <3>2, <3>3
  <2>4. RxFrom + RxLen(1) <= cmd.first + cmd'.armed
    <3>1. RxFrom + RxLen(1) <= cmd.first + cmd.armed
      BY DEF WInv, Incoming
    <3> QED BY <1>3, <1>4, <1>8, <2>2, <3>1
  <2>5. ASSUME Whole
        PROVE  /\ Len(armed') >= 1 => armed'[1].from = RxFrom + RxLen(1)
               /\ Len(armed') = 2 => armed'[2].from = armed'[1].from + armed'[1].len
               /\ cmd.first + cmd'.armed = RxFrom + RxLen(1) + RxLen(2) + ArmLen(1)' + ArmLen(2)'
    <3>1. /\ Len(armed) >= 1 => armed[1].from = RxFrom + RxLen(1)
          /\ cmd.first + cmd.armed = RxFrom + RxLen(1) + RxLen(2) + ArmLen(1) + ArmLen(2)
      BY <2>5 DEF WInv, Incoming
    <3>2. CASE Len(armed) = 0
      <4>1. ArmLen(1) = 0 /\ ArmLen(2) = 0 /\ ArmLen(1)' = k /\ ArmLen(2)' = 0 /\ armed'[1] = x /\ Len(armed') = 1
        BY <1>5, <1>7, <3>2 DEF ArmLen
      <4>2. RxLen(2) = 0
        BY <1>2, <3>2, Locals DEF RxLen, InFlightBufs
      <4> QED BY <1>3, <1>4, <1>5, <1>8, <2>2, <3>1, <4>1, <4>2
    <3>3. CASE Len(armed) = 1
      <4>1. ArmLen(1) = armed[1].len /\ ArmLen(2) = 0 /\ ArmLen(1)' = armed[1].len /\ ArmLen(2)' = k /\ Len(armed') = 2
            /\ armed'[1] = armed[1] /\ armed'[2] = x /\ armed[1].len \in Nat
        BY <1>5, <1>7, <3>3, InUseIn DEF ArmLen, Request
      <4>2. RxLen(1) = 0 /\ RxLen(2) = 0
        BY <1>2, <3>3, Locals DEF RxLen, InFlightBufs
      <4> QED BY <1>3, <1>4, <1>5, <1>8, <2>2, <3>1, <3>3, <4>1, <4>2
    <3>4. Len(armed) = 0 \/ Len(armed) = 1
      <4>1. Len(armed) + Len(rxdone) < 2
        BY <1>2 DEF InFlightBufs
      <4>2. Len(armed) \in Nat /\ Len(rxdone) \in Nat
        BY Locals
      <4> QED BY <4>1, <4>2, TwoQueues
    <3> QED BY <3>2, <3>3, <3>4
  <2>6. \A g, len, f : Holds(g, len, f)' <=> Holds(g, len, f)
    BY <1>2 DEF Holds
  <2> QED BY <1>2, <1>8, <1>11, <2>1, <2>3, <2>4, <2>5, <2>6 DEF WInv, Incoming
<1> QED BY <1>9, <1>11, <1>13, <1>14 DEF WInv

(* A reception completes: the buffer changes queues, and what is filled is  *)
(* a buffer no one reads.                                                   *)
LEMMA CompletesInv ==
  ASSUME IInv, WInv, HostSends \/ HostSendsShort
  PROVE  WInv'
<1> DEFINE r == armed[1]
<1>1. armed \in Seq(Request) /\ armed # <<>> /\ rxdone \in Seq(Completion)
  BY Locals DEF HostSends, HostSendsShort
<1>2. /\ armed' = Tail(armed) /\ r = Head(armed)
      /\ UNCHANGED <<st, call, ret, owned, dpsm, disk, want, handed, wb, cmd, data_out, status, ncmd>>
  BY <1>1, Popped DEF HostSends, HostSendsShort, stream, hardware, host
<1>3. /\ armed' \in Seq(Request) /\ Len(armed') = Len(armed) - 1 /\ Len(armed) \in Nat /\ Len(armed) >= 1
      /\ \A i \in 1..Len(armed') : armed'[i] = armed[i + 1]
      /\ r \in Request /\ BufOf(armed) = BufOf(armed)' \cup {r.buf}
  <2>1. BufOf(Tail(armed)) = BufOf(armed)'
    BY <1>2 DEF BufOf
  <2> QED BY <1>1, <1>2, <2>1, Popped
<1>4. r.buf \in Buf /\ r.len \in 1..ChunkLen /\ r.from \in Nat /\ r.len \in Nat /\ r.len >= 1
  BY <1>3, Sizes DEF Request
<1>5. PICK x \in Completion :
        /\ rxdone' = Append(rxdone, x) /\ x.buf = r.buf
        /\ \/ x.len = 0 /\ mem' = mem
           \/ /\ x.len = r.len
              /\ mem' = [mem EXCEPT ![r.buf] = [i \in 1..ChunkLen |-> IF i <= r.len THEN data_out[r.from + i - 1]
                                                                      ELSE @[i]]]
  <2>1. CASE HostSends
    <3>1. [buf |-> r.buf, len |-> r.len] \in Completion
      BY <1>4, Sizes DEF Completion
    <3> QED BY <1>2, <2>1, <3>1 DEF HostSends
  <2>2. CASE HostSendsShort
    <3>1. [buf |-> r.buf, len |-> 0] \in Completion
      BY <1>4, Sizes DEF Completion
    <3> QED BY <1>2, <2>2, <3>1 DEF HostSendsShort
  <2> QED BY <2>1, <2>2
<1>6. /\ rxdone' \in Seq(Completion) /\ Len(rxdone') = Len(rxdone) + 1 /\ Len(rxdone) \in Nat
      /\ \A i \in 1..Len(rxdone) : rxdone'[i] = rxdone[i]
      /\ rxdone'[Len(rxdone) + 1] = x
      /\ BufOf(rxdone)' = BufOf(rxdone) \cup {r.buf}
  <2>1. BufOf(rxdone') = BufOf(rxdone)'
    BY DEF BufOf
  <2> QED BY <1>1, <1>5, <2>1, Appended
<1>7. ~Resting
  BY <1>1 DEF WInv, Buffers
<1>8. WTypeOK'
  BY <1>2, <1>3, <1>6 DEF WInv, WTypeOK, InFlightBufs
<1>9. /\ Ownership' /\ Segment' /\ Announces' /\ Guided' /\ Landed' /\ Position'
      /\ InPiece' = InPiece /\ ~Resting' /\ RxFrom' = RxFrom
  <2>1. cmd.received <= cmd.armed /\ cmd.armed <= cmd.n /\ (InPiece => cmd.received + cmd.len <= cmd.armed)
    BY <1>7 DEF WInv, Position, Resting
  <2> QED BY <1>2, <1>7, <2>1, ReceptionFrame
<1>10. /\ InUse' = InUse /\ BufOf(armed) \cap BufOf(rxdone) = {} /\ r.buf \in InUse
  <2>1. InUse' = BufOf(armed)' \cup BufOf(rxdone)' /\ BufOf(armed) \cap BufOf(rxdone) = {}
    BY DEF InUse, BufOf, WInv, Buffers
  <2> QED BY <1>3, <1>6, <2>1, InUseIn
<1>11. \A i, j \in 1..Len(armed) : armed[i].buf = armed[j].buf => i = j
  BY DEF WInv, Buffers
<1>12. \A i \in 1..Len(armed') : armed'[i].buf # r.buf
  <2>1. \A i \in 1..Len(armed') : i + 1 \in 1..Len(armed) /\ i + 1 # 1 /\ 1 \in 1..Len(armed)
    BY <1>3
  <2> QED BY <1>3, <1>11, <2>1
<1>13. \A i \in 1..Len(rxdone) : rxdone[i].buf # r.buf
  BY <1>3, <1>10 DEF BufOf
<1>14. Buffers'
  <2>1. r.buf \notin BufOf(armed)'
    BY <1>12 DEF BufOf
  <2>2. BufOf(armed)' \cap BufOf(rxdone)' = {}
    BY <1>3, <1>6, <1>10, <2>1
  <2>3. \A i, j \in 1..Len(armed') : armed'[i].buf = armed'[j].buf => i = j
    <3>1. \A i \in 1..Len(armed') : i + 1 \in 1..Len(armed) /\ i \in Nat
      BY <1>3
    <3>2. \A i, j \in 1..Len(armed') : armed[i + 1].buf = armed[j + 1].buf => i + 1 = j + 1
      BY <1>11, <3>1
    <3> QED BY <1>3, <3>1, <3>2
  <2>4. \A i, j \in 1..Len(rxdone') : rxdone'[i].buf = rxdone'[j].buf => i = j
    <3>1. \A i \in 1..Len(rxdone') : i \in 1..Len(rxdone) \/ i = Len(rxdone) + 1
      BY <1>6
    <3>2. \A i, j \in 1..Len(rxdone) : rxdone[i].buf = rxdone[j].buf => i = j
      BY DEF WInv, Buffers
    <3> QED BY <1>5, <1>6, <1>13, <3>1, <3>2
  <2> QED BY <1>2, <1>9, <1>10, <2>2, <2>3, <2>4 DEF WInv, Buffers, CallIdle
<1>15. /\ \A b \in Buf : b # r.buf => mem'[b] = mem[b]
       /\ x.len > 0 => x.len = r.len /\ \A i \in 1..r.len : mem'[r.buf][i] = data_out[r.from + i - 1]
  <2>1. mem \in [Buf -> Pattern] /\ Pattern = [1..ChunkLen -> Value]
    BY AnyContent DEF IInv, TypeOK
  <2>2. CASE x.len = 0 /\ mem' = mem
    BY <2>2
  <2>3. CASE /\ x.len = r.len
             /\ mem' = [mem EXCEPT ![r.buf] = [i \in 1..ChunkLen |-> IF i <= r.len THEN data_out[r.from + i - 1]
                                                                     ELSE @[i]]]
    <3>1. \A i \in 1..r.len : i \in 1..ChunkLen /\ i <= r.len
      BY <1>4, Sizes
    <3> DEFINE p == [i \in 1..ChunkLen |-> IF i <= r.len THEN data_out[r.from + i - 1] ELSE mem[r.buf][i]]
    <3>2. mem' = [mem EXCEPT ![r.buf] = p]
      BY <2>3
    <3>3. \A i \in 1..r.len : p[i] = data_out[r.from + i - 1]
      BY <3>1
    <3> HIDE DEF p, r
    <3>4. mem'[r.buf] = p /\ \A b \in Buf : b # r.buf => mem'[b] = mem[b]
      BY <1>4, <2>1, <3>2
    <3> QED BY <2>3, <3>3, <3>4
  <2> QED BY <1>5, <2>2, <2>3
<1> HIDE DEF r
<1>16. /\ InPiece => cmd.buf \in Buf /\ cmd.buf # r.buf
       /\ \A i \in 1..Len(rxdone) : rxdone[i].buf \in Buf /\ rxdone[i].buf # r.buf /\ rxdone[i].len \in Nat
       /\ \A i \in 1..Len(armed) : armed[i].len \in Nat /\ armed[i].from \in Nat
       /\ cmd.first + cmd.armed \in Nat /\ RxFrom \in Nat /\ x.len \in Nat
  <2>1. InPiece => cmd.buf \in Buf /\ cmd.buf # r.buf
    BY <1>10, PieceIn DEF WInv, Buffers
  <2>2. cmd.first + cmd.armed \in Nat /\ RxFrom \in Nat /\ x.len \in Nat
    <3>1. cmd.first \in Nat /\ cmd.armed \in Nat
      BY Locals
    <3>2. x.len \in Nat
      BY Sizes DEF Completion
    <3> QED BY <3>1, <3>2, RxNat
  <2>3. \A i \in 1..Len(rxdone) : rxdone[i].buf \in Buf /\ rxdone[i].buf # r.buf /\ rxdone[i].len \in Nat
    BY <1>13, InUseIn, Sizes DEF Completion
  <2>4. \A i \in 1..Len(armed) : armed[i].len \in Nat /\ armed[i].from \in Nat
    BY InUseIn, Sizes DEF Request
  <2> QED BY <2>1, <2>2, <2>3, <2>4
<1>17. \A b \in Buf : \A len, f : b # r.buf /\ Holds(b, len, f) => \A i \in 1..len : mem'[b][i] = data_out'[f + i - 1]
  BY <1>2, <1>15 DEF Holds
<1>18. \A i \in 1..Len(armed') : armed'[i].from >= cmd.first /\ armed'[i].from + armed'[i].len <= cmd.first + cmd.armed
  <2>1. \A i \in 1..Len(armed') : i + 1 \in 1..Len(armed)
    BY <1>3
  <2> QED BY <1>3, <2>1 DEF WInv, Incoming
<1>19. r = armed[1] /\ r.from >= cmd.first /\ r.from + r.len <= cmd.first + cmd.armed /\ ArmLen(1) = r.len
  <2>1. 1 \in 1..Len(armed) /\ r = armed[1]
    BY <1>3 DEF r
  <2> QED BY <2>1, <1>3 DEF WInv, Incoming, ArmLen
<1>23. (\A i \in 1..Len(armed) : armed[i].from >= cmd.first /\ armed[i].from + armed[i].len <= cmd.first + cmd.armed)'
  BY <1>2, <1>18
<1>20. InPiece' => \A i \in 1..cmd.len : mem'[cmd.buf][i] = data_out'[cmd.first + cmd.received + i - 1]
  BY <1>9, <1>16, <1>17 DEF WInv, Incoming
<1>21. CASE Len(rxdone) = 0
  <2>1. /\ RxLen(1) = 0 /\ RxLen(2) = 0 /\ RxLen(1)' = x.len /\ RxLen(2)' = 0 /\ Whole /\ Len(rxdone') = 1
        /\ rxdone'[1] = x /\ (Whole' <=> x.len > 0)
    BY <1>6, <1>21 DEF RxLen, Whole
  <2>2. /\ r.from = RxFrom /\ cmd.first + cmd.armed = RxFrom + r.len + ArmLen(2)
        /\ Len(armed) = 2 => armed[2].from = r.from + r.len
    <3>1. /\ armed[1].from = RxFrom + RxLen(1)
          /\ Len(armed) = 2 => armed[2].from = armed[1].from + armed[1].len
          /\ cmd.first + cmd.armed = RxFrom + RxLen(1) + RxLen(2) + ArmLen(1) + ArmLen(2)
      BY <1>3, <2>1 DEF WInv, Incoming
    <3>2. /\ cmd.first + cmd.armed = RxFrom + r.len + ArmLen(2) /\ r.from = RxFrom
      <4>1. r.from \in Nat /\ r.len \in Nat /\ RxFrom \in Nat /\ ArmLen(2) \in Nat
        BY <1>4, RxNat
      <4> QED BY <4>1, <3>1, <2>1, <1>19
    <3> QED BY <1>19, <3>1, <3>2
  <2>3. /\ ArmLen(1)' = ArmLen(2) /\ ArmLen(2)' = 0 /\ Len(armed') < 2
        /\ Len(armed') >= 1 => Len(armed) = 2 /\ armed'[1] = armed[2]
    <3>1. Len(armed) <= 2
      BY <1>3, <1>21 DEF WInv, WTypeOK, InFlightBufs
    <3> QED BY <1>3, <3>1 DEF ArmLen
  <2>4. RxFrom + x.len <= cmd.first + cmd.armed
    BY <1>4, <1>5, <1>16, <1>19, <2>2
  <2>5. \A i \in 1..x.len : mem'[x.buf][i] = data_out'[RxFrom + i - 1]
    <3>1. CASE x.len > 0
      BY <1>2, <1>5, <1>15, <2>2, <3>1
    <3>2. CASE ~(x.len > 0)
      BY <1>16, <3>2
    <3> QED BY <3>1, <3>2
  <2>6. x.len > 0 => /\ Len(armed') >= 1 => armed'[1].from = RxFrom + x.len
                     /\ cmd.first + cmd.armed = RxFrom + x.len + 0 + ArmLen(2) + 0
    <3>1. x.len > 0 => x.len = r.len
      BY <1>5, <1>16
    <3>2. r.len \in Nat /\ RxFrom \in Nat /\ ArmLen(2) \in Nat
      BY <1>4, RxNat
    <3>3. Len(armed') >= 1 => armed'[1].from = RxFrom + r.len
      BY <2>2, <2>3
    <3>4. cmd.first + cmd.armed = RxFrom + r.len + 0 + ArmLen(2) + 0
      BY <2>2, <3>2
    <3> QED BY <3>1, <3>3, <3>4
  <2>7. (InPiece => Holds(cmd.buf, cmd.len, cmd.first + cmd.received))'
    BY <1>2, <1>20 DEF Holds
  <2>8. (Len(rxdone) >= 1 => Holds(rxdone[1].buf, rxdone[1].len, RxFrom))'
    BY <1>9, <2>1, <2>5 DEF Holds
  <2>9. (Whole => (Len(armed) >= 1 => armed[1].from = RxFrom + RxLen(1)))'
    BY <1>9, <2>1, <2>3, <2>6
  <2>10. (Whole => cmd.first + cmd.armed = RxFrom + RxLen(1) + RxLen(2) + ArmLen(1) + ArmLen(2))'
    BY <1>2, <1>9, <2>1, <2>3, <2>6
  <2>11. (RxFrom + RxLen(1) <= cmd.first + cmd.armed)'
    BY <1>2, <1>9, <2>1, <2>4
  <2>12. Len(armed)' # 2 /\ Len(rxdone)' # 2
    <3>1. Len(armed') \in Nat
      BY <1>3
    <3> QED BY <3>1, <2>1, <2>3
  <2>13. (Len(rxdone) = 2 /\ Whole => Holds(rxdone[2].buf, rxdone[2].len, RxFrom + RxLen(1)))'
    BY <2>12
  <2>14. (Whole => /\ Len(armed) >= 1 => armed[1].from = RxFrom + RxLen(1)
                   /\ Len(armed) = 2 => armed[2].from = armed[1].from + armed[1].len
                   /\ cmd.first + cmd.armed = RxFrom + RxLen(1) + RxLen(2) + ArmLen(1) + ArmLen(2))'
    BY <2>9, <2>10, <2>12
  <2>15. Incoming'
    BY <1>23, <2>7, <2>8, <2>11, <2>13, <2>14 DEF Incoming
  <2> QED BY <1>8, <1>9, <1>14, <2>15 DEF WInv
<1>22. CASE Len(rxdone) # 0
  <2>1. Len(rxdone) = 1 /\ Len(armed) = 1
    <3>1. Len(armed) + Len(rxdone) <= 2
      BY DEF WInv, WTypeOK, InFlightBufs
    <3>2. Len(rxdone) >= 1
      BY <1>6, <1>22
    <3>3. Len(armed) \in Nat /\ Len(armed) >= 1 /\ Len(rxdone) \in Nat
      BY <1>3, <1>6
    <3> DEFINE a == Len(armed)
               b == Len(rxdone)
    <3>4. a \in Nat /\ b \in Nat /\ a >= 1 /\ b >= 1 /\ a + b <= 2
      BY <3>1, <3>2, <3>3
    <3> HIDE DEF a, b
    <3>5. a = 1 /\ b = 1
      BY <3>4
    <3> QED BY <3>5 DEF a, b
  <2>2. /\ RxLen(1) = rxdone[1].len /\ RxLen(2) = 0 /\ RxLen(1)' = rxdone[1].len /\ RxLen(2)' = x.len
        /\ Len(rxdone') = 2 /\ rxdone'[1] = rxdone[1] /\ rxdone'[2] = x /\ (Whole' => Whole /\ x.len > 0)
    BY <1>6, <2>1 DEF RxLen, Whole
  <2>3. Len(armed') = 0 /\ ArmLen(1)' = 0 /\ ArmLen(2)' = 0 /\ ArmLen(2) = 0
    BY <1>3, <2>1 DEF ArmLen
  <2>4. /\ RxFrom + RxLen(1) <= cmd.first + cmd.armed /\ Holds(rxdone[1].buf, rxdone[1].len, RxFrom)
        /\ Whole => r.from = RxFrom + RxLen(1) /\ cmd.first + cmd.armed = RxFrom + RxLen(1) + r.len
    BY <1>3, <1>4, <1>16, <1>19, <2>1, <2>2, <2>3, RxNat DEF WInv, Incoming
  <2>5. \A i \in 1..rxdone[1].len : mem'[rxdone[1].buf][i] = data_out'[RxFrom + i - 1]
    BY <1>16, <1>17, <2>1, <2>4
  <2>6. Whole' => \A i \in 1..x.len : mem'[x.buf][i] = data_out'[RxFrom + RxLen(1)' + i - 1]
    <3>1. Whole' => x.len = r.len /\ \A i \in 1..x.len : mem'[x.buf][i] = data_out'[r.from + i - 1]
      BY <1>2, <1>5, <1>15, <2>2
    <3>2. Whole' => r.from = RxFrom + RxLen(1)'
      BY <2>2, <2>4
    <3> QED BY <3>1, <3>2
  <2>7. Whole' => cmd.first + cmd.armed = RxFrom + RxLen(1)' + RxLen(2)' + 0 + 0
    BY <1>4, <1>15, <1>16, <2>2, <2>4, RxNat
  <2>8. (InPiece => Holds(cmd.buf, cmd.len, cmd.first + cmd.received))'
    BY <1>2, <1>20 DEF Holds
  <2>9. (Len(rxdone) >= 1 => Holds(rxdone[1].buf, rxdone[1].len, RxFrom))'
    BY <1>9, <2>2, <2>5 DEF Holds
  <2>10. (Len(rxdone) = 2 /\ Whole => Holds(rxdone[2].buf, rxdone[2].len, RxFrom + RxLen(1)))'
    BY <1>9, <2>2, <2>6 DEF Holds
  <2>11. (Whole => cmd.first + cmd.armed = RxFrom + RxLen(1) + RxLen(2) + ArmLen(1) + ArmLen(2))'
    BY <1>2, <1>9, <2>3, <2>7
  <2>12. (RxFrom + RxLen(1) <= cmd.first + cmd.armed)'
    BY <1>2, <1>9, <2>2, <2>4
  <2>13. (Whole => /\ Len(armed) >= 1 => armed[1].from = RxFrom + RxLen(1)
                   /\ Len(armed) = 2 => armed[2].from = armed[1].from + armed[1].len
                   /\ cmd.first + cmd.armed = RxFrom + RxLen(1) + RxLen(2) + ArmLen(1) + ArmLen(2))'
    <3>1. Len(armed)' = 0
      BY <2>3
    <3> QED BY <2>11, <3>1
  <2>14. Incoming'
    BY <1>23, <2>8, <2>9, <2>10, <2>12, <2>13 DEF Incoming
  <2> QED BY <1>8, <1>9, <1>14, <2>14 DEF WInv
<1> QED BY <1>21, <1>22

(* The oldest completion is taken up: it is the next part of the command.   *)
LEMMA ReceiveInv ==
  ASSUME IInv, WInv, Receive
  PROVE  WInv'
<1> DEFINE x == rxdone[1]
<1>1. /\ cmd.pc = "wait" /\ rxdone # <<>> /\ Head(rxdone).len > 0
      /\ cmd' = [cmd EXCEPT !.pc = "piece", !.buf = Head(rxdone).buf, !.len = Head(rxdone).len, !.off = 0]
      /\ rxdone' = Tail(rxdone)
      /\ UNCHANGED <<st, call, ret, owned, dpsm, disk, mem, want, handed, wb, armed, data_out, status, ncmd>>
      /\ ~InPiece /\ ~Resting
  BY DEF Receive, stream, hardware, host, InPiece, Resting
<1>2. /\ rxdone' \in Seq(Completion) /\ Len(rxdone') = Len(rxdone) - 1 /\ Len(rxdone) \in Nat /\ Len(rxdone) >= 1
      /\ \A i \in 1..Len(rxdone') : rxdone'[i] = rxdone[i + 1]
      /\ x \in Completion /\ x = Head(rxdone) /\ BufOf(rxdone) = BufOf(rxdone)' \cup {x.buf}
  <2>1. rxdone \in Seq(Completion)
    BY Locals
  <2>2. BufOf(Tail(rxdone)) = BufOf(rxdone)'
    BY <1>1 DEF BufOf
  <2> QED BY <1>1, <2>1, <2>2, Popped
<1>3. x.buf \in Buf /\ x.len \in Nat /\ x.len >= 1 /\ x.len <= ChunkLen
  <2>1. x.buf \in Buf /\ x.len \in 0..ChunkLen
    BY <1>2 DEF Completion
  <2>2. x.len > 0
    BY <1>1, <1>2
  <2> QED BY <2>1, <2>2, Sizes
<1>4. Len(rxdone) <= 2 /\ (Len(rxdone) = 2 => Len(armed) = 0) /\ Len(armed) \in Nat /\ Len(armed) + Len(rxdone) <= 2
  <2>1. Len(armed) + Len(rxdone) <= 2 /\ Len(armed) \in Nat
    BY Locals DEF WInv, WTypeOK, InFlightBufs
  <2> DEFINE a == Len(armed)
             b == Len(rxdone)
  <2>2. a \in Nat /\ b \in Nat /\ a + b <= 2
    BY <1>2, <2>1
  <2> HIDE DEF a, b
  <2>3. b <= 2 /\ (b = 2 => a = 0)
    BY <2>2
  <2> QED BY <2>1, <2>3 DEF a, b
<1>5. /\ cmd' \in CmdRec /\ cmd'.pc = "piece" /\ cmd'.first = cmd.first /\ cmd'.n = cmd.n /\ cmd'.fsec = cmd.fsec
      /\ cmd'.armed = cmd.armed /\ cmd'.received = cmd.received /\ cmd'.open = cmd.open /\ cmd'.seg = cmd.seg
      /\ cmd'.segDone = cmd.segDone /\ cmd'.free = cmd.free /\ cmd'.hold = cmd.hold
      /\ cmd'.buf = x.buf /\ cmd'.off = 0 /\ cmd'.len = x.len
  <2>1. cmd' = [cmd EXCEPT !.pc = "piece", !.buf = x.buf, !.len = x.len, !.off = 0]
    BY <1>1, <1>2
  <2> HIDE DEF x
  <2> QED BY <1>3, <2>1, Locals DEF CmdRec, CmdPc
<1> HIDE DEF x
<1>6. InPiece' /\ ~Resting' /\ SegStart' = SegStart /\ PushedTo' = PushedTo /\ Left' = Left
  <2>1. InPiece' /\ ~Resting'
    BY <1>5 DEF InPiece, Resting
  <2> QED BY <1>1, <1>5, <2>1 DEF SegStart, PushedTo, Left, Off
<1>7. Guided' /\ CallIdle' = CallIdle /\ Heading' = Heading
  BY <1>1, StreamRests
<1>8. CallIdle /\ ~wb.open /\ (owned <=> cmd.open) /\ ret # "PARAM"
  BY <1>1 DEF WInv, Ownership, Resting
<1>9. Ownership'
  BY <1>1, <1>5, <1>7, <1>8 DEF Ownership, Resting
<1>10. WTypeOK'
  <2>1. Len(armed) + Len(rxdone') <= 2
    BY <1>2, <1>4
  <2> QED BY <1>1, <1>2, <1>5, <2>1 DEF WInv, WTypeOK, InFlightBufs
<1>11. Segment' /\ Announces'
  <2>1. cmd.open => /\ cmd.segDone <= cmd.fsec /\ cmd.seg = st.total /\ Lies(cmd.fsec - cmd.segDone)
                    /\ cmd.segDone < cmd.seg /\ handed = cmd.segDone /\ Heading = cmd.segDone + Left
    BY <1>1, Counters DEF WInv, Segment, Announces
  <2>2. st' = st /\ handed' = handed /\ wb' = wb /\ ~wb.open
    BY <1>1, <1>8
  <2>3. cmd.open => Lies(cmd.fsec - cmd.segDone)'
    BY <1>5, <2>1, <2>2 DEF Lies
  <2>4. Segment'
    <3>1. cmd'.pc = "piece" /\ ~wb'.open
      BY <1>5, <2>2
    <3>2. cmd'.open => /\ cmd'.segDone <= cmd'.fsec /\ cmd'.seg = st'.total /\ cmd'.segDone < cmd'.seg
                       /\ handed' = cmd'.segDone
      BY <1>5, <2>1, <2>2
    <3>3. cmd.segDone \in Nat /\ cmd'.segDone \in Nat
      BY <1>5, Counters
    <3> QED BY <1>5, <2>3, <3>1, <3>2, <3>3 DEF Segment
  <2> QED BY <1>1, <1>5, <1>6, <1>7, <1>8, <2>1, <2>4 DEF Announces
<1>12. Landed'
  BY <1>1, <1>5, <1>6 DEF WInv, Landed
<1>13. /\ cmd.first \in Nat /\ cmd.received \in Nat /\ cmd.armed \in Nat /\ cmd.fsec = cmd.first + cmd.received
       /\ RxFrom = cmd.first + cmd.received /\ RxLen(1) = x.len /\ x = rxdone[1]
  <2>1. cmd.first \in Nat /\ cmd.received \in Nat /\ cmd.armed \in Nat
    BY Locals
  <2> QED BY <1>1, <1>2, <2>1 DEF WInv, Position, RxFrom, RxLen, x
<1>14. RxFrom' = RxFrom + x.len
  BY <1>1, <1>3, <1>5, <1>6, <1>13 DEF RxFrom
<1>15. Position'
  <2>1. cmd.received + x.len <= cmd.armed
    <3>1. RxFrom + RxLen(1) <= cmd.first + cmd.armed
      BY DEF WInv, Incoming
    <3> QED BY <1>3, <1>13, <3>1
  <2>2. /\ status = "pending" /\ cmd.n >= 1 /\ cmd.first \in FSec /\ cmd.first + cmd.n - 1 \in FSec
        /\ data_out \in [cmd.first .. cmd.first + cmd.n - 1 -> Value]
        /\ cmd.received <= cmd.armed /\ cmd.armed <= cmd.n
    BY <1>1 DEF WInv, Position
  <2>3. cmd.fsec = cmd.first + cmd.received + 0 /\ 0 < x.len
    BY <1>3, <1>13
  <2> QED BY <1>1, <1>3, <1>5, <1>6, <2>1, <2>2, <2>3 DEF Position
<1>16. /\ InUse = BufOf(armed) \cup BufOf(rxdone) /\ InUse' = BufOf(armed) \cup BufOf(rxdone)'
       /\ x.buf \notin BufOf(armed) /\ x.buf \notin BufOf(rxdone)' /\ BufOf(armed)' = BufOf(armed)
  <2>1. InUse' = BufOf(armed)' \cup BufOf(rxdone)' /\ BufOf(armed)' = BufOf(armed)
    BY <1>1 DEF InUse, BufOf
  <2>2. x.buf \notin BufOf(armed)
    BY <1>2 DEF WInv, Buffers
  <2>3. ASSUME NEW i \in 1..Len(rxdone') PROVE rxdone'[i].buf # x.buf
    <3>1. i + 1 \in 1..Len(rxdone) /\ 1 \in 1..Len(rxdone) /\ i + 1 # 1
      BY <1>2
    <3> QED BY <1>2, <1>13, <3>1 DEF WInv, Buffers
  <2>4. x.buf \notin BufOf(rxdone)'
    BY <2>3 DEF BufOf
  <2> QED BY <2>1, <2>2, <2>4, InUseIn
<1>17. Buffers'
  <2>1. \A i, j \in 1..Len(rxdone') : rxdone'[i].buf = rxdone'[j].buf => i = j
    <3>1. \A i \in 1..Len(rxdone') : i + 1 \in 1..Len(rxdone) /\ i \in Nat
      BY <1>2
    <3>2. \A i, j \in 1..Len(rxdone') : rxdone[i + 1].buf = rxdone[j + 1].buf => i + 1 = j + 1
      BY <3>1 DEF WInv, Buffers
    <3> QED BY <1>2, <3>1, <3>2
  <2>2. /\ InUse \cap cmd.free = {} /\ cmd.hold \notin InUse \cup cmd.free
        /\ BufOf(armed) \cap BufOf(rxdone) = {}
        /\ \A i, j \in 1..Len(armed) : armed[i].buf = armed[j].buf => i = j
        /\ owned => IF cmd.open THEN st.prev \in {NoBuf, cmd.hold, cmd.buf} ELSE st.prev = NoBuf
        /\ cmd.buf = NoBuf
    BY <1>1 DEF WInv, Buffers
  <2>3. x.buf \in InUse /\ InUse' \subseteq InUse /\ x.buf \notin InUse' /\ BufOf(rxdone)' \subseteq BufOf(rxdone)
    BY <1>2, <1>16
  <2>4. /\ InUse' \cap cmd'.free = {} /\ cmd'.buf \notin InUse' \cup cmd'.free /\ cmd'.hold \notin InUse' \cup cmd'.free
        /\ BufOf(armed)' \cap BufOf(rxdone)' = {} /\ cmd'.hold # cmd'.buf
    BY <1>5, <1>16, <2>2, <2>3
  <2>5. cmd'.buf # NoBuf
    BY <1>3, <1>5, DataAssumption
  <2> QED BY <1>1, <1>5, <1>6, <2>1, <2>2, <2>4, <2>5 DEF Buffers
<1>18. Incoming'
  <2>1. Holds(x.buf, x.len, RxFrom)
    BY <1>2, <1>13 DEF WInv, Incoming
  <2>2. (InPiece => Holds(cmd.buf, cmd.len, cmd.first + cmd.received))'
    BY <1>1, <1>5, <1>13, <2>1 DEF Holds
  <2>3. (\A i \in 1..Len(armed) : armed[i].from >= cmd.first /\ armed[i].from + armed[i].len <= cmd.first + cmd.armed)'
    BY <1>1, <1>5 DEF WInv, Incoming
  <2>4. ArmLen(1)' = ArmLen(1) /\ ArmLen(2)' = ArmLen(2) /\ RxLen(2)' = 0 /\ RxLen(1)' = RxLen(2) /\ RxLen(2) \in Nat
    <3>1. ArmLen(1)' = ArmLen(1) /\ ArmLen(2)' = ArmLen(2)
      BY <1>1 DEF ArmLen
    <3>2. RxLen(2)' = 0 /\ RxLen(1)' = RxLen(2)
      BY <1>2, <1>4 DEF RxLen
    <3> QED BY <3>1, <3>2, RxNat
  <2>5. CASE Len(rxdone) = 1
    <3>1. Len(rxdone') = 0 /\ RxLen(2) = 0 /\ Whole
      <4>1. \A i \in 1..Len(rxdone) : i = 1
        BY <2>5
      <4> QED BY <1>2, <1>3, <1>13, <2>5, <4>1 DEF RxLen, Whole
    <3>2. (RxFrom + RxLen(1) <= cmd.first + cmd.armed)'
      <4>1. RxFrom + x.len <= cmd.first + cmd.armed
        BY <1>13 DEF WInv, Incoming
      <4> QED BY <1>3, <1>5, <1>13, <1>14, <2>4, <3>1, <4>1
    <3>3. /\ Len(armed) >= 1 => armed[1].from = RxFrom'
          /\ Len(armed) = 2 => armed[2].from = armed[1].from + armed[1].len
          /\ cmd.first + cmd.armed = RxFrom + x.len + 0 + ArmLen(1) + ArmLen(2)
      BY <1>13, <1>14, <3>1 DEF WInv, Incoming
    <3>4. (Whole => /\ Len(armed) >= 1 => armed[1].from = RxFrom + RxLen(1)
                    /\ Len(armed) = 2 => armed[2].from = armed[1].from + armed[1].len
                    /\ cmd.first + cmd.armed = RxFrom + RxLen(1) + RxLen(2) + ArmLen(1) + ArmLen(2))'
      <4>1. RxFrom' \in Nat /\ RxFrom' + RxLen(1)' = RxFrom' /\ RxFrom' + RxLen(1)' + RxLen(2)' = RxFrom'
            /\ RxFrom + x.len + 0 = RxFrom'
        BY <1>3, <1>13, <1>14, <2>4, <3>1
      <4> QED BY <1>1, <1>5, <2>4, <3>3, <4>1
    <3> QED BY <2>2, <2>3, <3>1, <3>2, <3>4 DEF Incoming
  <2>6. CASE Len(rxdone) = 2
    <3>1. Len(rxdone') = 1 /\ RxLen(2) = rxdone[2].len /\ rxdone'[1] = rxdone[2] /\ Len(armed) = 0
          /\ ArmLen(1) = 0 /\ ArmLen(2) = 0
      BY <1>2, <1>4, <2>6 DEF RxLen, ArmLen
    <3>2. RxLen(2) > 0 => Whole
      <4>1. \A i \in 1..Len(rxdone) : i = 1 \/ i = 2
        BY <2>6
      <4> QED BY <1>3, <1>13, <3>1, <4>1 DEF Whole
    <3>3. RxLen(2) > 0 => cmd.first + cmd.armed = RxFrom + x.len + RxLen(2) + 0 + 0
      BY <1>13, <3>1, <3>2 DEF WInv, Incoming
    <3>4. (RxFrom + RxLen(1) <= cmd.first + cmd.armed)'
      <4>1. RxFrom + x.len <= cmd.first + cmd.armed
        BY <1>13 DEF WInv, Incoming
      <4> QED BY <1>3, <1>5, <1>13, <1>14, <2>4, <3>3, <4>1
    <3>5. (Len(rxdone) >= 1 => Holds(rxdone[1].buf, rxdone[1].len, RxFrom))'
      <4>1. CASE RxLen(2) > 0
        <5>1. Holds(rxdone[2].buf, rxdone[2].len, RxFrom + x.len)
          BY <1>13, <2>6, <3>2, <4>1 DEF WInv, Incoming
        <5> QED BY <1>1, <1>14, <3>1, <5>1 DEF Holds
      <4>2. CASE ~(RxLen(2) > 0)
        <5>1. rxdone'[1].len = 0
          BY <2>4, <3>1, <4>2
        <5> QED BY <5>1 DEF Holds
      <4> QED BY <4>1, <4>2
    <3>6. Whole' => RxLen(2) > 0
      BY <3>1 DEF Whole
    <3>7. (Whole => /\ Len(armed) >= 1 => armed[1].from = RxFrom + RxLen(1)
                    /\ Len(armed) = 2 => armed[2].from = armed[1].from + armed[1].len
                    /\ cmd.first + cmd.armed = RxFrom + RxLen(1) + RxLen(2) + ArmLen(1) + ArmLen(2))'
      <4>1. RxFrom' \in Nat /\ RxFrom + x.len + RxLen(2) + 0 + 0 = RxFrom' + RxLen(2) + 0 + 0 + 0
        BY <1>3, <1>13, <1>14, <2>4
      <4> QED BY <1>1, <1>5, <2>4, <3>1, <3>3, <3>6, <4>1
    <3> QED BY <2>2, <2>3, <3>1, <3>4, <3>5, <3>7 DEF Incoming
  <2> QED BY <1>2, <1>4, <2>5, <2>6
<1> QED BY <1>7, <1>9, <1>10, <1>11, <1>12, <1>15, <1>17, <1>18 DEF WInv

---------------------------------------------------------------------------
(* The invariant holds, and with it what the runs check.                    *)

LEMMA WInvInit == WInit => IInv /\ WInv
<1> SUFFICES ASSUME WInit PROVE IInv /\ WInv
  OBVIOUS
<1>1. IInv
  BY IInvInit DEF WInit
<1>2. /\ st = Closed /\ call = NoCall /\ ret = "OK" /\ owned = FALSE /\ handed = 0
      /\ cmd = Idle /\ wb = NoWb /\ armed = <<>> /\ rxdone = <<>>
      /\ data_out = [f \in {} |-> Blank] /\ status = "none" /\ ncmd = 0
  BY DEF WInit, Init
<1>3. /\ cmd.pc = "idle" /\ cmd.first = 0 /\ cmd.n = 0 /\ cmd.fsec = 0 /\ cmd.armed = 0 /\ cmd.received = 0
      /\ ~cmd.open /\ cmd.segDone = 0 /\ cmd.free = Buf /\ cmd.hold = NoBuf /\ cmd.buf = NoBuf
  BY <1>2 DEF Idle
<1>4. /\ ~wb.open /\ call.pc = "idle" /\ call.op = "none" /\ call.e = "OK" /\ ~st.started /\ st.prev = NoBuf
      /\ st.runEnd = 0 /\ st.pushed = 0 /\ st.hint = 0
  BY <1>2 DEF NoWb, NoCall, Closed
<1>5. /\ armed \in Seq(Request) /\ rxdone \in Seq(Completion) /\ Len(armed) = 0 /\ Len(rxdone) = 0
  BY <1>2
<1>6. WTypeOK
  BY <1>2, <1>5 DEF WTypeOK, InFlightBufs, Idle, NoWb, CmdRec, WbRec, CmdPc
<1>7. Ownership /\ Position
  BY <1>2, <1>3, <1>4 DEF Ownership, Position, CallIdle, Resting, InPiece
<1>8. Segment /\ Announces /\ Guided /\ Landed
  BY <1>2, <1>3, <1>4 DEF Segment, Announces, Guided, Landed, CallIdle
<1>9. Buffers
  <2>1. InUse = {} /\ BufOf(armed) = {} /\ BufOf(rxdone) = {}
    BY <1>5 DEF InUse, BufOf
  <2> QED BY <1>2, <1>3, <1>5, <2>1, DataAssumption DEF Buffers, Resting, InPiece, CallIdle
<1>10. Incoming
  <2>1. RxFrom = 0 /\ RxLen(1) = 0 /\ RxLen(2) = 0 /\ ArmLen(1) = 0 /\ ArmLen(2) = 0 /\ ~InPiece
    BY <1>3, <1>5 DEF RxFrom, RxLen, ArmLen, InPiece
  <2> QED BY <1>3, <1>5, <2>1 DEF Incoming
<1> QED BY <1>1, <1>6, <1>7, <1>8, <1>9, <1>10 DEF WInv

LEMMA WInvStep == IInv /\ WInv /\ [WNext]_allVars => IInv' /\ WInv'
<1> SUFFICES ASSUME IInv, WInv, [WNext]_allVars PROVE IInv' /\ WInv'
  OBVIOUS
<1>1. IInv'
  BY CallerStep, IInvStep
<1>2. WInv'
  <2>1. CASE \E f \in FSec, n \in CmdLens, data \in HostData : Issue(f, n, data)
    BY <2>1, IssueInv
  <2>2. CASE Flush \/ Refuse
    BY <2>2, FlushInv, RefuseInv
  <2>3. CASE Arm \/ AllArmed
    BY <2>3, ArmInv, AllArmedInv
  <2>4. CASE HostSends \/ HostSendsShort \/ Receive
    BY <2>4, CompletesInv, ReceiveInv
  <2>5. CASE PhaseError \/ HostAborts
    BY <2>5, GivenUpInv
  <2>6. CASE BeginRun \/ PushPiece \/ Settled
    BY <2>6, BeginRunInv, PushPieceInv, SettledInv
  <2>7. CASE Begun \/ Pushed \/ Ended
    BY <2>7, RefuseInv, BegunInv, PushedInv, EndedInv
  <2>8. CASE SdSteps
    BY <2>8, SdStepsInv
  <2>9. CASE UNCHANGED allVars
    <3>1. UNCHANGED <<st, call, ret, owned, dpsm, disk, mem, want, handed, cmd, wb, armed, rxdone, data_out, status, ncmd>>
      BY <2>9 DEF allVars, stream, hardware, usb, host
    <3>2. WTypeOK' /\ Ownership' /\ Position'
      BY <3>1 DEF WInv, WTypeOK, Ownership, Position, InFlightBufs, CallIdle, Resting, InPiece
    <3>3. Segment'
      BY <3>1 DEF WInv, Segment, CallIdle, Lies, Piece
    <3>4. Announces'
      BY <3>1 DEF WInv, Announces, Heading, Left, Off, InPiece, CallIdle
    <3>5. Guided'
      BY <3>1 DEF WInv, Guided, Heading, CallIdle
    <3>6. Landed'
      BY <3>1 DEF WInv, Landed, PushedTo, SegStart, Piece
    <3>7. Buffers'
      <4>1. InUse' = InUse /\ BufOf(armed)' = BufOf(armed) /\ BufOf(rxdone)' = BufOf(rxdone)
        BY <3>1 DEF InUse, BufOf
      <4> QED BY <3>1, <4>1 DEF WInv, Buffers, Resting, InPiece, CallIdle
    <3>8. Incoming'
      BY <3>1 DEF WInv, Incoming, Holds, RxFrom, Whole, RxLen, ArmLen, InPiece
    <3> QED BY <3>2, <3>3, <3>4, <3>5, <3>6, <3>7, <3>8 DEF WInv
  <2> QED BY <2>1, <2>2, <2>3, <2>4, <2>5, <2>6, <2>7, <2>8, <2>9 DEF WNext, Core, Host, Exhausted
<1> QED BY <1>1, <1>2

(* The invariant of the stream and that of the command, together.           *)
THEOREM WInvariance == WSpec => [](IInv /\ WInv)
<1> QED BY WInvInit, WInvStep, PTL DEF WSpec

(* cmd_write is a lawful caller of the streamed write: every behaviour of   *)
(* the WRITE command is one of the stream with some caller, so that what    *)
(* the stream promises of its calls holds of every command.                 *)
THEOREM LawfulCaller == WSpec => Spec
<1>1. WInit => Init
  BY DEF WInit
<1> QED BY <1>1, WInvariance, CallerStep, PTL DEF WSpec, Spec

(* No call of the WRITE command is refused for its arguments: it neither    *)
(* pushes past the run it announced nor settles or ends short of it, where  *)
(* sd_stream_end would drop the tail of the data.                           *)
THEOREM CommandNeverRefused == WSpec => []NeverRefused
<1>1. WInv => NeverRefused
  BY DEF WInv, Ownership, NeverRefused
<1> QED BY <1>1, WInvariance, PTL

(* The two queues hold different buffers, so as many as they are long.      *)
LEMMA InUseCount ==
  ASSUME WInv
  PROVE  Cardinality(InUse) = InFlightBufs
<1> DEFINE a == Len(armed)
           b == Len(rxdone)
           F == [i \in 1..a + b |-> IF i <= a THEN armed[i].buf ELSE rxdone[i - a].buf]
<1>1. a \in Nat /\ b \in Nat
  BY Locals
<1>2. /\ \A i, j \in 1..a : armed[i].buf = armed[j].buf => i = j
      /\ \A i, j \in 1..b : rxdone[i].buf = rxdone[j].buf => i = j
      /\ \A i \in 1..a, j \in 1..b : armed[i].buf # rxdone[j].buf
  BY DEF WInv, Buffers, BufOf
<1>3. InUse = {armed[i].buf : i \in 1..a} \cup {rxdone[i].buf : i \in 1..b}
  BY DEF InUse
<1> HIDE DEF a, b
<1>4. F \in [1..a + b -> InUse]
  BY <1>1, <1>3
<1>5. ASSUME NEW i \in 1..a + b, NEW j \in 1..a + b, F[i] = F[j] PROVE i = j
  <2>1. /\ F[i] = IF i <= a THEN armed[i].buf ELSE rxdone[i - a].buf
        /\ F[j] = IF j <= a THEN armed[j].buf ELSE rxdone[j - a].buf
    OBVIOUS
  <2>2. CASE i <= a /\ j <= a
    BY <1>1, <1>2, <1>5, <2>1, <2>2
  <2>3. CASE i > a /\ j > a
    <3>1. i - a \in 1..b /\ j - a \in 1..b /\ rxdone[i - a].buf = rxdone[j - a].buf
      BY <1>1, <1>5, <2>1, <2>3
    <3>2. i - a = j - a
      BY <1>2, <3>1
    <3> QED BY <1>1, <3>2
  <2>4. CASE i <= a /\ j > a
    BY <1>1, <1>2, <1>5, <2>1, <2>4
  <2>5. CASE i > a /\ j <= a
    BY <1>1, <1>2, <1>5, <2>1, <2>5
  <2> QED BY <1>1, <2>2, <2>3, <2>4, <2>5
<1>6. ASSUME NEW x \in InUse PROVE \E i \in 1..a + b : F[i] = x
  <2>1. CASE \E i \in 1..a : x = armed[i].buf
    <3>1. PICK i \in 1..a : x = armed[i].buf
      BY <2>1
    <3>2. i \in 1..a + b /\ i <= a
      BY <1>1
    <3> QED BY <3>1, <3>2
  <2>2. CASE \E i \in 1..b : x = rxdone[i].buf
    <3>1. PICK i \in 1..b : x = rxdone[i].buf
      BY <2>2
    <3>2. i + a \in 1..a + b /\ ~(i + a <= a) /\ (i + a) - a = i
      BY <1>1
    <3>3. F[i + a] = x
      BY <3>1, <3>2
    <3> QED BY <3>2, <3>3
  <2> QED BY <1>3, <2>1, <2>2
<1>7. F \in Bijection(1..a + b, InUse)
  <2> HIDE DEF F
  <2> QED BY <1>4, <1>5, <1>6 DEF Bijection, Injection, Surjection, IsInjective
<1>8. Cardinality(1..a + b) = a + b /\ IsFiniteSet(1..a + b)
  <2>1. a + b \in Int /\ (~(1 > a + b) \/ a + b = 0)
    BY <1>1
  <2>2. /\ IsFiniteSet(1..a + b) /\ Cardinality(1..a + b) = IF 1 > a + b THEN 0 ELSE a + b - 1 + 1
    BY <1>1, FS_Interval
  <2> QED BY <1>1, <2>2
<1>9. Cardinality(InUse) = a + b
  BY <1>7, <1>8, FS_Bijection DEF ExistsBijection
<1> QED BY <1>9 DEF a, b, InFlightBufs

(* The USB controller never receives into a buffer the command works on or  *)
(* the card may still have to be sent again, and no buffer is armed twice.  *)
THEOREM NoBufferShared == WSpec => []BuffersDisjoint
<1>1. ASSUME IInv, WInv PROVE BuffersDisjoint
  <2>1. InUse \cap ({cmd.hold, cmd.buf} \cup cmd.free) = {}
    BY <1>1 DEF WInv, Buffers
  <2>2. ASSUME owned PROVE st.prev \notin InUse \cup cmd.free
    <3>1. st.prev \in {NoBuf, cmd.hold, cmd.buf}
      BY <1>1, <2>2, Locals DEF WInv, Buffers
    <3>2. NoBuf \notin InUse \cup cmd.free
      BY <1>1, InUseIn, DataAssumption
    <3>3. cmd.buf \notin InUse \cup cmd.free /\ cmd.hold \notin InUse \cup cmd.free
      BY <1>1 DEF WInv, Buffers
    <3> QED BY <3>1, <3>2, <3>3
  <2> QED BY <1>1, <2>1, <2>2, InUseCount DEF BuffersDisjoint
<1> QED BY <1>1, WInvariance, PTL

---------------------------------------------------------------------------
(* The LUN is a block device to its host, step by step.                     *)

(* Only a step of the stream can write to the card. *)
LEMMA DiskOfCommand ==
  ASSUME WNext, ~SdSteps
  PROVE  disk' = disk
<1>1. ASSUME NEW f, NEW n, NEW data, Issue(f, n, data) PROVE disk' = disk
  BY <1>1 DEF Issue, Run, stream, hardware
<1>2. CASE Flush \/ PushPiece \/ AllArmed
  BY <1>2 DEF Flush, PushPiece, AllArmed, End, Push, Settle, stream, hardware
<1>3. CASE Refuse \/ Arm \/ Receive \/ Ended \/ HostSends \/ HostSendsShort
  BY <1>3 DEF Refuse, Arm, Receive, Ended, HostSends, HostSendsShort, stream, hardware
<1>4. CASE PhaseError \/ HostAborts \/ Settled
  BY <1>4 DEF PhaseError, HostAborts, Settled, Abort, stream, hardware
<1>5. CASE BeginRun \/ Begun \/ Pushed
  BY <1>5 DEF BeginRun, Begun, Pushed, Begin, Run, End, stream, hardware
<1>6. CASE Exhausted
  BY <1>6 DEF Exhausted, allVars, stream, hardware
<1> QED BY <1>1, <1>2, <1>3, <1>4, <1>5, <1>6 DEF WNext, Core, Host

(* When the whole command was pushed and its stream, if any is left, is     *)
(* settled, every sector of it is on the card.                              *)
LEMMA AllLanded ==
  ASSUME IInv, WInv, cmd.pc \in {"arm", "settling"}, cmd.received = cmd.n,
         cmd.open => cmd.pc = "settling" /\ CallIdle /\ ret = "OK"
  PROVE  \A s \in DOMAIN data_out : disk[Place[s]] = data_out[s]
<1>1. /\ cmd.first \in Nat /\ cmd.n \in Nat /\ cmd.fsec \in Nat /\ cmd.segDone \in Nat /\ cmd.seg \in Nat
  BY Locals
<1>2. /\ DOMAIN data_out = cmd.first .. cmd.first + cmd.n - 1 /\ cmd.fsec = cmd.first + cmd.n
      /\ PushedTo = cmd.fsec
  BY <1>1 DEF WInv, Position, InPiece, PushedTo
<1>3. SUFFICES ASSUME NEW s \in cmd.first .. cmd.fsec - 1 PROVE disk[Place[s]] = data_out[s]
  BY <1>1, <1>2
<1>4. IF s < SegStart THEN disk[Place[s]] = data_out[s] ELSE want[s - SegStart] = data_out[s]
  BY <1>2 DEF WInv, Landed
<1>5. CASE ~cmd.open
  <2>1. SegStart = cmd.fsec
    BY <1>5 DEF SegStart
  <2> QED BY <1>1, <1>4, <2>1
<1>6. CASE cmd.open /\ s >= SegStart
  <2>1. SegStart = cmd.fsec - cmd.segDone /\ SegStart \in Int /\ s \in Int
    BY <1>1, <1>6 DEF SegStart
  <2>2. Lies(SegStart) /\ cmd.segDone < cmd.seg /\ cmd.seg = st.total /\ handed = cmd.segDone
    <3>1. cmd.pc = "settling" /\ (cmd.pc # "pushing") /\ cmd.pc # "ending"
      BY <1>6
    <3>2. /\ Lies(cmd.fsec - cmd.segDone) /\ cmd.segDone < cmd.seg /\ cmd.seg = st.total
          /\ handed = cmd.segDone + 0
      BY <1>6, <3>1 DEF WInv, Segment
    <3> QED BY <1>1, <2>1, <3>2
  <2>3. call.op = "settle" /\ st.verified = handed
    BY <1>6 DEF WInv, Ownership, IInv, SettledAll, CallIdle
  <2>4. s - SegStart \in 0 .. st.verified - 1 /\ s - SegStart \in 0 .. st.total - 1
    BY <1>1, <1>6, <2>1, <2>2, <2>3
  <2>5. disk[st.lba + (s - SegStart)] = want[s - SegStart]
    BY <2>4 DEF IInv, VerifiedOnCard
  <2>6. Place[SegStart + (s - SegStart)] = st.lba + (s - SegStart) /\ SegStart + (s - SegStart) = s
    BY <2>1, <2>2, <2>4 DEF Lies
  <2>7. ~(s < SegStart)
    BY <1>6, <2>1
  <2> QED BY <1>4, <2>5, <2>6, <2>7
<1>7. CASE cmd.open /\ ~(s >= SegStart)
  <2>1. SegStart \in Int
    BY <1>1, <1>7 DEF SegStart
  <2> QED BY <1>4, <1>7, <2>1
<1> QED BY <1>5, <1>6, <1>7, Locals

LEMMA NothingPending == Device!None = [f \in {} |-> Blank]
BY DEF Device!None

LUN == [f \in FSec |-> disk[Place[f]]]

LEMMA DeviceInit == WInit => Device!Init
<1> SUFFICES ASSUME WInit PROVE Device!Init
  OBVIOUS
<1>1. disk = [s \in Sector |-> Blank] /\ data_out = [f \in {} |-> Blank] /\ status = "none"
  BY DEF WInit, Init
<1>2. LUN \in [FSec -> Value]
  BY <1>1, Layout, DataAssumption DEF LUN
<1> QED BY <1>1, <1>2, NothingPending DEF Device!Init, LUN

(* GOOD status comes when all of the command is on the card, any other      *)
(* status at any time.                                                      *)
LEMMA DeviceEnds ==
  ASSUME IInv, WInv, cmd.pc # "idle", disk' = disk, NEW s \in {"passed", "failed", "aborted"}, Finish(s),
         s = "passed" => \A z \in DOMAIN data_out : disk[Place[z]] = data_out[z]
  PROVE  Device!Next
<1>1. /\ status = "pending" /\ data_out' = Device!None /\ status' = s /\ LUN' = LUN
      /\ DOMAIN data_out \subseteq FSec
  <2>1. DOMAIN data_out = cmd.first .. cmd.first + cmd.n - 1
    BY DEF WInv, Position
  <2> QED BY <2>1, NothingPending, PushedWithin DEF WInv, Position, Finish, LUN
<1>2. CASE s = "passed"
  <2>1. \A z \in DOMAIN data_out : LUN[z] = data_out[z]
    BY <1>1, <1>2 DEF LUN
  <2> QED BY <1>1, <1>2, <2>1 DEF Device!Next, Device!Good, LUN
<1>3. CASE s # "passed"
  BY <1>1, <1>3 DEF Device!Next, Device!Ends, LUN
<1> QED BY <1>2, <1>3

LEMMA DeviceIssue ==
  ASSUME IInv, WInv, NEW f \in FSec, NEW n \in CmdLens, NEW data \in HostData, Issue(f, n, data)
  PROVE  Device!Next
<1>1. /\ cmd.pc = "idle" /\ f + n - 1 \in FSec /\ status' = "pending" /\ disk' = disk
      /\ data_out' = [s \in f..f + n - 1 |-> data[s]]
  BY DEF Issue, Run, stream, hardware
<1>2. data_out = Device!None /\ LUN' = LUN
  BY <1>1, NothingPending DEF WInv, Position, LUN
<1>3. f \in Nat /\ n \in Nat /\ n >= 1 /\ data \in [FSec -> Value] /\ f..f + n - 1 \subseteq FSec
  BY <1>1, Layout, PlaceAssumption
<1>4. f <= f + n - 1 /\ data_out' \in [f..f + n - 1 -> Value]
  BY <1>1, <1>3
<1> QED BY <1>1, <1>2, <1>4 DEF Device!Next, Device!Issue, LUN

LEMMA DeviceStore ==
  ASSUME IInv, WInv, CardTakes, SdSteps
  PROVE  Device!Next
<1> DEFINE x == cmd.fsec - cmd.segDone + dpsm.acked
<1>1. /\ x \in FSec /\ x \in DOMAIN data_out /\ disk' = [disk EXCEPT ![Place[x]] = data_out[x]]
      /\ Place[x] \in Sector
  BY CardTakesPending DEF WInv, Position
<1>2. UNCHANGED <<data_out, status>> /\ disk \in [Sector -> Value]
  BY DEF SdSteps, host, IInv, TypeOK
<1>3. LUN' = [LUN EXCEPT ![x] = data_out[x]]
  <2> HIDE DEF x
  <2> QED BY <1>1, <1>2, Layout DEF LUN
<1> HIDE DEF x
<1> QED BY <1>1, <1>2, <1>3 DEF Device!Next, Device!Store, LUN

LEMMA DeviceStep ==
  ASSUME IInv, WInv, [WNext]_allVars
  PROVE  [Device!Next]_<<LUN, data_out, status>>
<1>1. CASE \E f \in FSec, n \in CmdLens, data \in HostData : Issue(f, n, data)
  BY <1>1, DeviceIssue
<1>2. CASE SdSteps
  <2>1. UNCHANGED <<data_out, status>> /\ [Next]_vars
    BY <1>2 DEF SdSteps, host, Next
  <2>2. CASE CardTakes
    BY <1>2, <2>2, DeviceStore
  <2>3. CASE ~CardTakes
    BY <2>1, <2>3, DiskKept DEF LUN
  <2> QED BY <2>2, <2>3
<1>3. CASE WNext /\ ~SdSteps
  <2>1. disk' = disk
    BY <1>3, DiskOfCommand
  <2>2. CASE Flush \/ Arm \/ Receive \/ BeginRun \/ PushPiece \/ HostSends \/ HostSendsShort \/ Exhausted
    BY <2>1, <2>2 DEF Flush, Arm, Receive, BeginRun, PushPiece, HostSends, HostSendsShort, Exhausted,
         allVars, host, LUN
  <2>3. CASE Refuse \/ PhaseError \/ HostAborts
    <3>1. cmd.pc # "idle" /\ \E s \in {"failed", "aborted"} : Finish(s)
      BY <2>3 DEF Refuse, PhaseError, HostAborts
    <3> QED BY <2>1, <3>1, DeviceEnds
  <2>4. CASE Begun \/ Pushed \/ Ended
    <3>1. cmd.pc # "idle" /\ (Finish("failed") \/ UNCHANGED <<data_out, status>>)
      BY <2>4 DEF Begun, Pushed, Ended, host
    <3> QED BY <2>1, <3>1, DeviceEnds DEF LUN
  <2>5. CASE AllArmed
    <3>1. CASE cmd.received = cmd.n /\ ~cmd.open /\ Finish("passed")
      <4>1. \A z \in DOMAIN data_out : disk[Place[z]] = data_out[z]
        BY <2>5, <3>1, AllLanded DEF AllArmed
      <4> QED BY <2>1, <2>5, <3>1, <4>1, DeviceEnds DEF AllArmed
    <3>2. CASE UNCHANGED host
      BY <2>1, <3>2 DEF host, LUN
    <3> QED BY <2>5, <3>1, <3>2 DEF AllArmed
  <2>6. CASE Settled
    <3>1. CASE ret = "OK"
      <4>1. cmd.received = cmd.n /\ CallIdle /\ cmd.pc = "settling" /\ Finish("passed")
        BY <2>6, <3>1 DEF Settled, WInv, Position
      <4>2. \A z \in DOMAIN data_out : disk[Place[z]] = data_out[z]
        BY <3>1, <4>1, AllLanded
      <4> QED BY <2>1, <4>1, <4>2, DeviceEnds
    <3>2. CASE ret # "OK"
      BY <2>1, <2>6, <3>2, DeviceEnds DEF Settled
    <3> QED BY <3>1, <3>2
  <2> QED BY <1>1, <1>3, <2>2, <2>3, <2>4, <2>5, <2>6 DEF WNext, Core, Host
<1>4. CASE UNCHANGED allVars
  BY <1>4 DEF allVars, stream, hardware, host, LUN
<1> QED BY <1>2, <1>3, <1>4

(* GOOD status means every sector of the command is on the card; a sector   *)
(* outside the pending command never changes.                               *)
THEOREM LunIsBlockDevice == WSpec => IsBlockDevice
<1> QED BY WInvariance, DeviceInit, DeviceStep, PTL DEF WSpec, IsBlockDevice, Device!Spec, LUN
=============================================================================
