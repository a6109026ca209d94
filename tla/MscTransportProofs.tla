------------------------- MODULE MscTransportProofs -------------------------
(***************************************************************************)
(* Bulk-Only Transport, for any number of buffers, lengths, commands and    *)
(* resets: what the host takes, what a WRITE hands to the card and what the *)
(* controller is asked to queue, at every point of a command and whatever   *)
(* interrupt comes between a load and a store.                             *)
(***************************************************************************)
EXTENDS MscTransport, TLAPS

CmdRec   == [tag : Nat, dir : {"none", "in", "out"}, want : Nat]
EventRec == [kind : {"cbw", "data", "part"}, cmd : CmdRec, i : Nat]
PktRec   == [buf : 0..NBuf, zlp : BOOLEAN]
Places   == {"top", "arm", "cbw", "take", "bad", "dead", "exec", "r_wait", "r_fill", "r_full", "store", "send",
             "r_next", "r_sent", "w_arm", "w_wait", "w_push", "ended", "zlp", "zlp_sent", "drop", "stall", "cleared",
             "status", "csw_sent"}
MainRec  == [pc : Places, tested : BOOLEAN, cmd : CmdRec, i : Nat, idx : 1..NBuf, armed : Nat, fly : Int,
             stall : {"none", "in", "out"}, pkt : PktRec, back : Places, v : Nat, e : EventRec]
HostRec  == [phase : {"idle", "in", "out", "csw", "confused"}, cmd : CmdRec, i : Nat, ok : BOOLEAN, issued : Nat]
Ends     == [in : BOOLEAN, out : BOOLEAN]

XTypeOK ==
  /\ main \in MainRec /\ mem \in [0..NBuf -> [tag : Nat, i : Nat]] /\ host \in HostRec
  /\ rxq \in Seq({"cbw", "data"}) /\ txq \in Seq(PktRec)
  /\ rxd \in [e : Seq(EventRec), r : Nat] /\ txo \in Nat
  /\ conf \in BOOLEAN /\ moved \in BOOLEAN /\ torn \in BOOLEAN /\ halted \in Ends /\ stalled \in Ends

(* Where the loop goes on after a load, and what it loaded.                 *)
Loaded ==
  /\ At("take") => main.back \in {"cbw", "w_wait"} /\ rxd.e # <<>> /\ (rxd.r = 0 => main.e = rxd.e[1])
  /\ At("store") \/ At("send") => main.back \in {"r_next", "zlp_sent", "csw_sent"}
  /\ main.tested => main.pc \in Waiting
  /\ ~conf => moved

(* Where the loop is, a load or a store counted with the wait around it.    *)
Within(pcs)     == main.pc \in pcs \/ (main.pc \in {"take", "store", "send"} /\ main.back \in pcs)
AllData(q)      == \A j \in 1..Len(q) : q[j] = "data"
Chunks(s)       == \A j \in 1..Len(s) : s[j].kind = "data"
Unstalled       == ~stalled.in /\ ~stalled.out
First(c)        == IF c.dir = "none" THEN "csw" ELSE c.dir   \* phase of a host that sent c
Fresh           == main.i = 0 /\ main.idx = 1 /\ main.armed = 0 /\ main.fly = 0 /\ main.stall = "none"

(* A reset that found the core between commands left nothing behind.        *)
Resting ==
  moved => /\ main.pc \in {"top", "cbw"} /\ rxq = <<>> /\ txq = <<>> /\ rxd.e = <<>> /\ txo = 0
           /\ host.phase = "idle"

(* tx_outstanding counts at least what is on the IN queue: a completion lost *)
(* between load and store makes it count more, never less.                  *)
Accounted ==
  /\ CASE At("store") -> Len(txq) <= txo /\ txo <= main.v /\ main.v <= 1
       [] At("send")  -> Len(txq) <= 1 /\ Len(txq) + 1 <= txo
       [] OTHER       -> Len(txq) <= 2 /\ Len(txq) <= txo
  /\ ~Within({"r_wait", "r_fill", "r_full", "r_next", "r_sent", "zlp_sent", "csw_sent"}) => txo = 0
  /\ At("r_fill") \/ At("r_full") => Len(txq) <= 1
  /\ (At("store") \/ At("send")) /\ main.back # "r_next" => txq = <<>> /\ main.v = 0

(* The command phase. A chunk that came between Drop and StallOut is still  *)
(* there and is taken for a command.                                        *)
Listens ==
  /\ main.pc \in {"top", "arm"} => rxq = <<>> /\ host.phase = "idle" /\ Chunks(rxd.e)
  /\ At("arm") \/ Within({"cbw"}) => Fresh
  /\ Within({"cbw"}) =>
       \/ rxq = <<"cbw">> /\ host.phase = "idle" /\ Chunks(rxd.e)
       \/ /\ rxq = <<>> /\ Unstalled /\ host.i = 0 /\ host.phase = First(host.cmd)
          /\ \E n \in 1..Len(rxd.e) : /\ n = Len(rxd.e) /\ rxd.e[n] = Got("cbw", host.cmd, 0)
                                      /\ \A j \in 1..n - 1 : rxd.e[j].kind = "data"
  /\ At("bad") => rxq = <<>> \/ (rxq = <<"cbw">> /\ host.phase = "idle")
  /\ At("dead") => rxq = <<>>
  /\ At("exec") => /\ Fresh /\ rxq = <<>> /\ rxd.e = <<>> /\ Unstalled
                   /\ host.cmd = main.cmd /\ host.i = 0 /\ host.phase = First(host.cmd)

(* READ: the IN queue holds the chunks between what the host has and what   *)
(* was queued, each as it was filled, in the buffers before this one.       *)
OnItsWay(p, k) == /\ p.buf \in 1..NBuf /\ ~p.zlp
                  /\ mem[p.buf] = [tag |-> main.cmd.tag, i |-> k]
PutSoFar == main.i + (IF At("r_next") THEN 1 ELSE 0)
Reads ==
  Within({"r_wait", "r_fill", "r_full", "r_next", "r_sent"}) =>
    /\ rxq = <<>> /\ rxd.e = <<>> /\ Unstalled /\ host.cmd = main.cmd
    /\ main.cmd.dir = "in" /\ host.phase = (IF host.i = main.cmd.want THEN "csw" ELSE "in")
    /\ host.i + Len(txq) = PutSoFar
    /\ \A j \in 1..Len(txq) : OnItsWay(txq[j], host.i + j)
    /\ txq # <<>> => main.idx = IF At("r_next") THEN txq[Len(txq)].buf ELSE NextBuffer(txq[Len(txq)].buf)
    /\ IF At("r_sent") THEN \/ main.stall = "none" /\ main.i = main.cmd.want
                            \/ main.stall = "in" /\ main.i < main.cmd.want
       ELSE main.stall = "none" /\ main.i < main.cmd.want
    /\ At("r_full") \/ At("store") \/ At("send") => mem[main.idx] = [tag |-> main.cmd.tag, i |-> main.i + 1]
    /\ At("store") \/ At("send") => main.pkt = [buf |-> main.idx, zlp |-> FALSE]

(* WRITE: what was received is what follows what was taken, and the host    *)
(* still owes exactly the buffers that are armed.                           *)
TakenSoFar == main.i + (IF At("w_push") THEN 1 ELSE 0)
Writes ==
  Within({"w_arm", "w_wait", "w_push"}) =>
    /\ Unstalled /\ host.cmd = main.cmd /\ main.cmd.dir = "out" /\ main.stall = "none"
    /\ host.phase = IF host.i = main.cmd.want THEN "csw" ELSE "out"
    /\ AllData(rxq) /\ host.i = TakenSoFar + Len(rxd.e)
    /\ main.armed = host.i + Len(rxq) /\ main.fly = main.armed - TakenSoFar
    /\ main.armed <= main.cmd.want /\ main.fly <= Depth
    /\ At("w_arm") \/ main.i < main.cmd.want
    /\ \A j \in 1..Len(rxd.e) : rxd.e[j] = Got("data", main.cmd, TakenSoFar + j)
    /\ At("w_push") => main.e = Got("data", main.cmd, main.i + 1)

(* The end of a command.                                                    *)
Closes ==
  /\ At("ended") =>
       /\ host.cmd = main.cmd /\ Unstalled
       /\ \/ main.stall = "none" /\ host.phase = "csw" /\ rxq = <<>> /\ rxd.e = <<>>
          \/ main.stall = "in" /\ host.phase = "in" /\ rxq = <<>> /\ rxd.e = <<>>
          \/ main.stall = "out" /\ host.phase \in {"out", "csw"} /\ AllData(rxq) /\ Chunks(rxd.e)
  /\ At("zlp") \/ Within({"zlp_sent"}) =>
       /\ host.cmd = main.cmd /\ Unstalled /\ rxq = <<>> /\ rxd.e = <<>>
       /\ \/ host.phase = "in" /\ txq = <<>> /\ ~At("zlp_sent")
          \/ host.phase = "in" /\ txq = <<NoPacket>> /\ At("zlp_sent")
          \/ host.phase = "csw" /\ txq = <<>> /\ At("zlp_sent")
       /\ At("store") \/ At("send") => main.pkt = NoPacket
  /\ main.pc \in {"drop", "stall"} =>
       /\ host.cmd = main.cmd /\ Unstalled /\ host.phase \in {"out", "csw"} /\ AllData(rxq) /\ Chunks(rxd.e)
       /\ At("stall") => halted.out
  /\ At("cleared") =>
       /\ host.cmd = main.cmd /\ ~stalled.in /\ rxq = <<>> /\ Chunks(rxd.e)
       /\ halted.out = stalled.out
       /\ host.phase = "csw" \/ (host.phase = "out" /\ stalled.out)
  /\ At("status") \/ Within({"csw_sent"}) =>
       /\ host.cmd = main.cmd /\ Unstalled /\ rxq = <<>> /\ Chunks(rxd.e)
       /\ \/ host.phase = "csw" /\ txq = <<>> /\ ~At("csw_sent")
          \/ host.phase = "csw" /\ txq = <<[buf |-> 0, zlp |-> FALSE]>> /\ At("csw_sent")
          \/ host.phase = "idle" /\ txq = <<>> /\ At("csw_sent")
       /\ Within({"csw_sent"}) => mem[0] = [tag |-> main.cmd.tag, i |-> 0]
       /\ At("store") \/ At("send") => main.pkt = [buf |-> 0, zlp |-> FALSE]

Session == /\ host.ok /\ rxd.r = 0 /\ Resting
           /\ ~moved => Accounted /\ Listens /\ Reads /\ Writes /\ Closes

(* A command with a data phase has data. *)
Wanted == host.cmd.dir # "none" => host.cmd.want > 0

XInv == XTypeOK /\ Loaded /\ Wanted /\ (~torn => Session)

---------------------------------------------------------------------------
(* Types. *)

MainTypes == main \in MainRec
Rest == <<mem, host, rxq, txq, rxd, txo, conf, moved, torn, halted, stalled>>

LEMMA Fields ==
  ASSUME XTypeOK
  PROVE  /\ main.pc \in Places /\ main.tested \in BOOLEAN /\ main.cmd \in CmdRec /\ main.i \in Nat /\ main.idx \in 1..NBuf
         /\ main.armed \in Nat /\ main.fly \in Int /\ main.stall \in {"none", "in", "out"} /\ main.pkt \in PktRec
         /\ main.back \in Places /\ main.v \in Nat /\ main.e \in EventRec
         /\ main.cmd.tag \in Nat /\ main.cmd.want \in Nat /\ main.cmd.dir \in {"none", "in", "out"}
         /\ host.i \in Nat /\ host.cmd \in CmdRec /\ host.issued \in Nat
         /\ rxd.e \in Seq(EventRec) /\ rxd.r \in Nat
BY DEF XTypeOK, MainRec, CmdRec, HostRec

LEMMA EndsTypes ==
  /\ \A h \in Ends : [h EXCEPT !.out = TRUE] \in Ends /\ [h EXCEPT !.out = FALSE] \in Ends /\ [h EXCEPT !.in = FALSE] \in Ends
  /\ [in |-> TRUE, out |-> TRUE] \in Ends /\ [in |-> FALSE, out |-> FALSE] \in Ends
BY DEF Ends

LEMMA RxdTypes ==
  ASSUME NEW d \in [e : Seq(EventRec), r : Nat]
  PROVE  /\ [d EXCEPT !.r = Len(d.e)] \in [e : Seq(EventRec), r : Nat]
         /\ \A x \in EventRec : [d EXCEPT !.e = Append(d.e, x)] \in [e : Seq(EventRec), r : Nat]
         /\ [e |-> <<>>, r |-> 0] \in [e : Seq(EventRec), r : Nat]
OBVIOUS

LEMMA Named ==
  /\ "top" \in Places /\ "arm" \in Places /\ "cbw" \in Places /\ "take" \in Places /\ "bad" \in Places
  /\ "dead" \in Places /\ "exec" \in Places /\ "r_wait" \in Places /\ "r_fill" \in Places /\ "r_full" \in Places
  /\ "store" \in Places /\ "send" \in Places /\ "r_next" \in Places /\ "r_sent" \in Places /\ "w_arm" \in Places
  /\ "w_wait" \in Places /\ "w_push" \in Places /\ "ended" \in Places /\ "zlp" \in Places /\ "zlp_sent" \in Places
  /\ "drop" \in Places /\ "stall" \in Places /\ "cleared" \in Places /\ "status" \in Places /\ "csw_sent" \in Places
BY DEF Places

LEMMA Tails ==
  ASSUME NEW S, NEW s \in Seq(S), s # <<>>
  PROVE  /\ Tail(s) \in Seq(S) /\ Len(Tail(s)) = Len(s) - 1
         /\ \A i \in 1..Len(s) - 1 : Tail(s)[i] = s[i + 1]
OBVIOUS

(* A full queue takes no more. *)
LEMMA QueuedType ==
  ASSUME NEW S, NEW q \in Seq(S), NEW x \in S
  PROVE  /\ Queued(q, x) \in Seq(S)
         /\ Len(q) < 2 => Queued(q, x) = Append(q, x) /\ Len(Queued(q, x)) = Len(q) + 1
BY DEF Queued, Depth

LEMMA NextBufferType ==
  ASSUME NEW b \in 1..NBuf
  PROVE  NextBuffer(b) \in 1..NBuf /\ NextBuffer(b) # b
<1>1. NBuf \in Nat /\ NBuf >= 2
  BY XAssumption
<1>2. CASE b < NBuf
  <2>1. b % NBuf = b
    BY <1>1, <1>2
  <2> QED BY <1>1, <1>2, <2>1 DEF NextBuffer
<1>3. CASE b = NBuf
  <2>1. b % NBuf = 0
    BY <1>1, <1>3
  <2> QED BY <1>1, <1>3, <2>1 DEF NextBuffer
<1> QED BY <1>1, <1>2, <1>3

(* The main loop only moves, or moves and changes a register. *)
Keeps == /\ main'.cmd = main.cmd /\ main'.i = main.i /\ main'.idx = main.idx /\ main'.armed = main.armed
         /\ main'.fly = main.fly /\ main'.stall = main.stall
LEMMA Went ==
  ASSUME XTypeOK, NEW pc \in Places, Goto(pc)
  PROVE  /\ main' \in MainRec /\ main'.pc = pc /\ ~main'.tested /\ Keeps
         /\ main'.e = main.e /\ main'.v = main.v /\ main'.pkt = main.pkt /\ main'.back = main.back
BY DEF XTypeOK, Goto, MainRec, Keeps

LEMMA WentLoading ==
  ASSUME XTypeOK, NEW p \in PktRec, NEW back \in Places, Load(p, back)
  PROVE  /\ main' \in MainRec /\ main'.pc = "store" /\ main'.tested = main.tested /\ Keeps
         /\ main'.v = txo /\ main'.pkt = p /\ main'.back = back /\ main'.e = main.e
BY DEF XTypeOK, Load, MainRec, Keeps, Places

LEMMA MainTypesStep ==
  ASSUME XTypeOK, Loaded, Main
  PROVE  XTypeOK'
<1>1. CASE Top
  <2>1. Idle \in MainRec
    BY XAssumption DEF Idle, MainRec, NoCmd, NoPacket, Got, Places, CmdRec, PktRec, EventRec
  <2>2. main' = [Idle EXCEPT !.pc = "arm", !.cmd.tag = 0]
    BY <1>1 DEF Top
  <2>3. main' \in MainRec
    BY <2>1, <2>2 DEF MainRec, CmdRec, Places
  <2> QED BY <1>1, <2>3 DEF XTypeOK, Top, queues, shared
<1>2. CASE ArmCbw \/ Arm
  <2>1. rxq' \in Seq({"cbw", "data"})
    BY <1>2, QueuedType DEF XTypeOK, ArmCbw, Arm
  <2>2. CASE ArmCbw
    <3>1. main' \in MainRec
      BY <2>2, Went DEF ArmCbw, Places
    <3> QED BY <2>1, <2>2, <3>1 DEF XTypeOK, ArmCbw, shared, session
  <2>3. CASE Arm
    <3>1. main.armed + 1 \in Nat /\ main.fly + 1 \in Int
      BY Fields
    <3>2. main' = [main EXCEPT !.armed = main.armed + 1, !.fly = main.fly + 1]
      BY <2>3 DEF Arm
    <3>3. main' \in MainRec
      BY <3>1, <3>2 DEF XTypeOK, MainRec
    <3> QED BY <2>1, <2>3, <3>3 DEF XTypeOK, Arm, shared, session
  <2> QED BY <1>2, <2>2, <2>3
<1>3. CASE TxSend
  <2>1. txq' \in Seq(PktRec)
    BY <1>3, QueuedType, Fields DEF XTypeOK, TxSend
  <2>2. main' \in MainRec
    BY <1>3, Went, Fields DEF TxSend
  <2> QED BY <1>3, <2>1, <2>2 DEF XTypeOK, TxSend, shared, session
<1>4. CASE RxLoad
  <2>1. rxd.e[rxd.r + 1] \in EventRec
    BY <1>4, Fields DEF RxLoad, Passes, At, Ready, Unread
  <2>2. main' \in MainRec
    BY <1>4, <2>1 DEF XTypeOK, RxLoad, Passes, At, MainRec, Places
  <2> QED BY <1>4, <2>2 DEF XTypeOK, RxLoad, queues, shared, session
<1>5. CASE RxStore
  <2>1. rxd.e # <<>>
    BY <1>5 DEF RxStore, Loaded
  <2>2. rxd' \in [e : Seq(EventRec), r : Nat]
    BY <1>5, <2>1, Fields DEF RxStore, AfterTake
  <2>3. main.e.cmd \in CmdRec /\ main.fly - 1 \in Int
    BY Fields DEF EventRec
  <2>4. \/ main' = [main EXCEPT !.pc = "exec", !.cmd = main.e.cmd]
        \/ main' = [main EXCEPT !.pc = "bad"]
        \/ main' = [main EXCEPT !.pc = "ended", !.fly = main.fly - 1, !.stall = "out"]
        \/ main' = [main EXCEPT !.pc = "w_push", !.fly = main.fly - 1]
    BY <1>5 DEF RxStore, FromCbw, FromData
  <2>5. main' \in MainRec
    BY <2>3, <2>4, Named DEF XTypeOK, MainRec
  <2> QED BY <1>5, <2>2, <2>5 DEF XTypeOK, RxStore, queues, session
<1>6. CASE Fill \/ Status
  <2>1. [tag |-> main.cmd.tag, i |-> main.i + 1] \in [tag : Nat, i : Nat]
        /\ [tag |-> main.cmd.tag, i |-> 0] \in [tag : Nat, i : Nat]
    BY Fields
  <2>2. mem' \in [0..NBuf -> [tag : Nat, i : Nat]]
    BY <1>6, <2>1 DEF XTypeOK, Fill, Status
  <2>3. CASE Fill
    <3>1. Goto("r_full") \/ main' = [main EXCEPT !.pc = "r_sent", !.stall = "in"]
      BY <2>3 DEF Fill
    <3>2. main' \in MainRec
      <4>1. CASE Goto("r_full")
        BY <4>1, Went, Named
      <4>2. CASE main' = [main EXCEPT !.pc = "r_sent", !.stall = "in"]
        BY <4>2, Named DEF XTypeOK, MainRec
      <4> QED BY <3>1, <4>1, <4>2
    <3> QED BY <2>2, <2>3, <3>2 DEF XTypeOK, Fill, queues, shared, session
  <2>4. CASE Status
    <3>1. [buf |-> 0, zlp |-> FALSE] \in PktRec
      BY XAssumption DEF PktRec
    <3>2. main' \in MainRec
      BY <2>4, <3>1, WentLoading DEF Status, Places
    <3> QED BY <2>2, <2>4, <3>2 DEF XTypeOK, Status, queues, shared, session
  <2> QED BY <1>6, <2>3, <2>4
<1>7. CASE ReadNext
  <2>1. main' \in MainRec
    <3>1. NextBuffer(main.idx) \in 1..NBuf /\ main.i + 1 \in Nat
      <4>1. main.idx \in 1..NBuf /\ main.i \in Nat
        BY Fields
      <4> QED BY <4>1, NextBufferType
    <3>2. PICK pc \in {"r_sent", "r_wait"} : main' = [main EXCEPT !.i = main.i + 1, !.idx = NextBuffer(main.idx), !.pc = pc]
      BY <1>7 DEF ReadNext
    <3>3. pc \in Places
      BY Named
    <3> QED BY <3>1, <3>2, <3>3 DEF XTypeOK, MainRec
  <2> QED BY <1>7, <2>1 DEF XTypeOK, ReadNext, queues, shared, session
<1>8. CASE NotReady \/ CheckReset \/ Execute \/ ReadWait \/ ReadQueue \/ ReadSent \/ AllArmed \/ PushChunk \/ Ended
           \/ ShortEnd \/ ShortSent \/ Cleared \/ StatusSent \/ Dead
  <2>1. ASSUME NotReady \/ CheckReset PROVE main' \in MainRec
    <3>1. PICK pc \in {main.pc, "top"}, t \in BOOLEAN : main' = [main EXCEPT !.tested = t, !.pc = pc]
      <4>1. CASE NotReady
        <5>1. main' = [main EXCEPT !.tested = TRUE, !.pc = main.pc]
          BY <4>1 DEF NotReady, XTypeOK, MainRec
        <5> QED BY <5>1
      <4>2. CASE CheckReset
        BY <4>2 DEF CheckReset
      <4> QED BY <2>1, <4>1, <4>2
    <3>2. pc \in Places
      BY Fields, Named
    <3> QED BY <3>1, <3>2 DEF XTypeOK, MainRec
  <2>2. ASSUME Execute PROVE main' \in MainRec
    <3>1. \/ Goto("ended") \/ Goto("r_wait") \/ Goto("w_arm")
          \/ main' = [main EXCEPT !.pc = "ended", !.stall = main.cmd.dir]
      BY <2>2 DEF Execute
    <3>2. CASE main' = [main EXCEPT !.pc = "ended", !.stall = main.cmd.dir]
      <4>1. main.cmd.dir \in {"none", "in", "out"}
        BY Fields
      <4> QED BY <3>2, <4>1, Named DEF XTypeOK, MainRec
    <3> QED BY <3>1, <3>2, Named, Went
  <2>3. ASSUME PushChunk PROVE main' \in MainRec
    <3>1. PICK pc \in {"w_arm", "ended"}, x \in {"none", "in", "out"} :
            main' = [main EXCEPT !.i = main.i + 1, !.pc = pc, !.stall = x]
      <4>1. CASE main' = [main EXCEPT !.i = @ + 1, !.pc = "w_arm"]
        <5>1. main' = [main EXCEPT !.i = main.i + 1, !.pc = "w_arm", !.stall = main.stall]
          BY <4>1 DEF XTypeOK, MainRec
        <5> QED BY <5>1, Fields
      <4>2. CASE ~(main' = [main EXCEPT !.i = @ + 1, !.pc = "w_arm"])
        BY <2>3, <4>2 DEF PushChunk
      <4> QED BY <4>1, <4>2
    <3>2. main.i + 1 \in Nat /\ pc \in Places
      BY Fields, Named
    <3> QED BY <3>1, <3>2 DEF XTypeOK, MainRec
  <2>4. ASSUME ReadQueue \/ ShortEnd PROVE main' \in MainRec
    <3>1. [buf |-> main.idx, zlp |-> FALSE] \in PktRec /\ NoPacket \in PktRec
      BY Fields, XAssumption DEF PktRec, NoPacket
    <3>2. Load([buf |-> main.idx, zlp |-> FALSE], "r_next") \/ Load(NoPacket, "zlp_sent")
      BY <2>4 DEF ReadQueue, ShortEnd
    <3> QED BY <3>1, <3>2, WentLoading, Named
  <2>5. ASSUME ReadWait \/ ReadSent \/ AllArmed \/ Ended \/ ShortSent \/ Cleared \/ StatusSent \/ Dead
        PROVE  main' \in MainRec
    <3>1. PICK pc \in Places : Goto(pc)
      BY <2>5, Named DEF ReadWait, ReadSent, AllArmed, Ended, ShortSent, Cleared, StatusSent, Dead
    <3> QED BY <3>1, Went
  <2>6. main' \in MainRec
    BY <1>8, <2>1, <2>2, <2>3, <2>4, <2>5
  <2>7. UNCHANGED Rest
    BY <1>8 DEF NotReady, CheckReset, Execute, ReadWait, ReadQueue, ReadSent, AllArmed, PushChunk, Ended, ShortEnd,
      ShortSent, Cleared, StatusSent, Dead, queues, shared, session, Rest
  <2> QED BY <2>6, <2>7 DEF XTypeOK, Rest
<1>9. CASE TxStore \/ Drop \/ StallOut \/ BadCbw
  <2>1. \E pc \in Places : Goto(pc)
    BY <1>9 DEF TxStore, Drop, StallOut, BadCbw, Places
  <2>2. main' \in MainRec
    BY <2>1, Went
  <2>3. /\ UNCHANGED <<mem, host, conf, moved, torn>>
        /\ rxq' \in {rxq, <<>>} /\ txq' \in {txq, <<>>} /\ rxd' \in {rxd, [e |-> <<>>, r |-> 0]}
    BY <1>9 DEF TxStore, Drop, StallOut, BadCbw, queues, shared, session
  <2>6. halted' \in Ends /\ stalled' \in Ends
    <3>1. \/ halted' = halted \/ halted' = [halted EXCEPT !.out = TRUE] \/ halted' = [in |-> TRUE, out |-> TRUE]
      BY <1>9 DEF TxStore, Drop, StallOut, BadCbw, shared
    <3>2. \/ stalled' = stalled \/ stalled' = [stalled EXCEPT !.out = TRUE] \/ stalled' = [in |-> TRUE, out |-> TRUE]
      BY <1>9 DEF TxStore, Drop, StallOut, BadCbw
    <3> QED BY <3>1, <3>2, EndsTypes DEF XTypeOK
  <2>4. txo' \in Nat
    BY <1>9, Fields DEF XTypeOK, TxStore, Drop, StallOut, BadCbw, shared
  <2>5. <<>> \in Seq({"cbw", "data"}) /\ <<>> \in Seq(PktRec) /\ [e |-> <<>>, r |-> 0] \in [e : Seq(EventRec), r : Nat]
    OBVIOUS
  <2> QED BY <2>2, <2>3, <2>4, <2>5, <2>6 DEF XTypeOK
<1> QED BY <1>1, <1>2, <1>3, <1>4, <1>5, <1>6, <1>7, <1>8, <1>9 DEF Main

(* What a reset leaves. *)
Cleaned == /\ moved' /\ rxq' = <<>> /\ txq' = <<>> /\ txo' = 0 /\ halted' = [in |-> FALSE, out |-> FALSE]
           /\ rxd' = (IF At("take") THEN [rxd EXCEPT !.r = Len(rxd.e)] ELSE [e |-> <<>>, r |-> 0])
           /\ torn' = ~(At("cbw") \/ At("top")) /\ host' = [host EXCEPT !.phase = "idle", !.ok = TRUE]
           /\ main' = main /\ mem' = mem /\ conf' \in BOOLEAN
           /\ stalled' \in {stalled, [in |-> FALSE, out |-> FALSE]}

LEMMA ResetCleans ==
  ASSUME XTypeOK, Resets \/ SetConfiguration
  PROVE  Cleaned
BY DEF XTypeOK, Resets, BotReset, BusReset, SetConfiguration, EvtReset, Cleaned, core

LEMMA HandlerTypesStep ==
  ASSUME XTypeOK, Handler \/ Resets
  PROVE  XTypeOK'
<1>1. CASE Resets \/ SetConfiguration
  <2>1. Cleaned
    BY <1>1, ResetCleans
  <2>2. rxd' \in [e : Seq(EventRec), r : Nat]
    BY <2>1, RxdTypes DEF Cleaned, XTypeOK
  <2>3. host' \in HostRec
    BY <2>1 DEF Cleaned, XTypeOK, HostRec
  <2>4. <<>> \in Seq({"cbw", "data"}) /\ <<>> \in Seq(PktRec)
    OBVIOUS
  <2>5. halted' \in Ends /\ stalled' \in Ends
    BY <2>1, EndsTypes DEF Cleaned, XTypeOK
  <2> QED BY <2>1, <2>2, <2>3, <2>4, <2>5 DEF Cleaned, XTypeOK
<1>2. ASSUME NEW got \in EventRec, Reception(got)
      PROVE  /\ rxq' \in Seq({"cbw", "data"}) /\ rxd' \in [e : Seq(EventRec), r : Nat]
             /\ UNCHANGED <<main, mem, txq, txo, conf, moved, torn, halted, stalled>>
  <2>1. rxq' \in Seq({"cbw", "data"})
    BY <1>2 DEF XTypeOK, Reception
  <2>2. rxd' \in [e : Seq(EventRec), r : Nat]
    BY <1>2, RxdTypes DEF XTypeOK, Reception
  <2> QED BY <1>2, <2>1, <2>2 DEF Reception, core, session
<1>3. CASE SendCbw
  <2>1. PICK dir \in {"none", "in", "out"}, n \in Want :
          LET c == [tag |-> host.issued + 1, dir |-> dir, want |-> IF dir = "none" THEN 0 ELSE n]
          IN /\ Reception(Got("cbw", c, 0))
             /\ host' = [host EXCEPT !.phase = IF dir = "none" THEN "csw" ELSE dir,
                                     !.cmd = c, !.i = 0, !.issued = host.issued + 1]
    BY <1>3 DEF SendCbw
  <2> DEFINE c == [tag |-> host.issued + 1, dir |-> dir, want |-> IF dir = "none" THEN 0 ELSE n]
  <2>2. c \in CmdRec
    BY Fields, XAssumption DEF CmdRec
  <2>3. Got("cbw", c, 0) \in EventRec
    BY <2>2 DEF Got, EventRec
  <2>4. host' \in HostRec
    <3> HIDE DEF c
    <3>1. host.issued + 1 \in Nat /\ (IF dir = "none" THEN "csw" ELSE dir) \in {"in", "out", "csw"}
      BY Fields
    <3>2. host' = [host EXCEPT !.phase = IF dir = "none" THEN "csw" ELSE dir, !.cmd = c, !.i = 0, !.issued = host.issued + 1]
      BY <2>1 DEF c
    <3> QED BY <2>2, <3>1, <3>2 DEF XTypeOK, HostRec
  <2> HIDE DEF c
  <2>5. Reception(Got("cbw", c, 0))
    BY <2>1 DEF c
  <2> QED BY <1>2, <2>3, <2>4, <2>5 DEF XTypeOK
<1>4. CASE SendData
  <2> DEFINE got == Got(IF Head(rxq) = "data" THEN "data" ELSE "part", host.cmd, host.i + 1)
  <2>1. got \in EventRec
    BY Fields DEF Got, EventRec
  <2>2. host' \in HostRec
    <3>1. \/ \E ph \in {"csw", "out"} : host' = [host EXCEPT !.i = host.i + 1, !.phase = ph]
          \/ host' = [host EXCEPT !.phase = "confused", !.ok = FALSE]
      BY <1>4 DEF SendData
    <3>2. host.i + 1 \in Nat
      BY Fields
    <3> QED BY <3>1, <3>2 DEF XTypeOK, HostRec
  <2>3. Reception(got)
    BY <1>4 DEF SendData
  <2> HIDE DEF got
  <2> QED BY <1>2, <2>1, <2>2, <2>3 DEF XTypeOK
<1>5. CASE Take
  <2>1. host' \in HostRec
    <3>1. \/ \E ph \in {"csw", "in"} : host' = [host EXCEPT !.i = host.i + 1, !.phase = ph]
          \/ \E ph \in {"csw", "idle"} : host' = [host EXCEPT !.phase = ph]
          \/ host' = [host EXCEPT !.phase = "confused", !.ok = FALSE]
      <4>1. CASE host.phase = "in" /\ IsData(Head(txq))
        <5>1. host' = [host EXCEPT !.i = host.i + 1, !.phase = IF host.i + 1 = host.cmd.want THEN "csw" ELSE "in"]
          BY <1>5, <4>1 DEF Take, IsData, Short
        <5> QED BY <5>1
      <4>2. CASE ~(host.phase = "in" /\ IsData(Head(txq)))
        BY <1>5, <4>2 DEF Take
      <4> QED BY <4>1, <4>2
    <3>2. host.i + 1 \in Nat
      BY Fields
    <3> QED BY <3>1, <3>2 DEF XTypeOK, HostRec
  <2>2. txq' \in Seq(PktRec)
    BY <1>5 DEF XTypeOK, Take
  <2>3. txo' \in Nat
    BY <1>5 DEF XTypeOK, Take, Completed
  <2> QED BY <1>5, <2>1, <2>2, <2>3 DEF XTypeOK, Take, core, session
<1>6. CASE ClearHalt
  <2>1. host' \in HostRec
    BY <1>6 DEF XTypeOK, ClearHalt, HostRec
  <2>2. stalled' \in Ends /\ halted' \in Ends
    BY <1>6, EndsTypes DEF XTypeOK, ClearHalt
  <2> QED BY <1>6, <2>1, <2>2 DEF XTypeOK, ClearHalt, core, queues, session
<1> QED BY <1>1, <1>3, <1>4, <1>5, <1>6 DEF Handler

---------------------------------------------------------------------------
(* What is loaded and where the loop then goes on. *)

Hops == ReadWait \/ ReadSent \/ AllArmed \/ Ended \/ ShortSent \/ Drop \/ StallOut \/ Cleared \/ StatusSent \/ BadCbw \/ Dead
        \/ ArmCbw

LEMMA LoadedStep ==
  ASSUME XTypeOK, Loaded, Next
  PROVE  Loaded'
<1>1. CASE Main
  <2>1. UNCHANGED <<conf>> /\ (moved' = moved \/ conf)
    BY <1>1 DEF Main, Top, ArmCbw, NotReady, CheckReset, RxLoad, RxStore, Execute, TxStore, TxSend, ReadWait, Fill, ReadQueue,
      ReadNext, ReadSent, Arm, AllArmed, PushChunk, Ended, ShortEnd, ShortSent, Drop, StallOut, Cleared, Status,
      StatusSent, BadCbw, Dead, session
  <2>2. CASE main'.pc \notin {"take", "store", "send"} /\ ~main'.tested
    BY <2>1, <2>2 DEF Loaded, At
  <2>3. CASE NotReady \/ CheckReset
    <3>1. main.pc \in Waiting /\ main'.pc \in {main.pc, "top"} /\ (main'.tested => main'.pc = main.pc)
      BY <2>3 DEF NotReady, CheckReset, Loaded, XTypeOK, MainRec
    <3> QED BY <2>1, <3>1 DEF Loaded, At, Waiting
  <2>4. CASE RxLoad
    <3>1. /\ main' = [main EXCEPT !.pc = "take", !.back = main.pc, !.e = rxd.e[rxd.r + 1]] /\ rxd' = rxd /\ ~main.tested
          /\ main.pc \in {"cbw", "w_wait"} /\ Len(rxd.e) > rxd.r
      BY <2>4 DEF RxLoad, Passes, At, Ready, Unread, shared
    <3>2. main'.pc = "take" /\ main'.back = main.pc /\ main'.e = rxd.e[rxd.r + 1] /\ ~main'.tested
      BY <3>1 DEF XTypeOK, MainRec
    <3>3. rxd.e # <<>>
      BY <3>1, Fields
    <3> QED BY <2>1, <3>1, <3>2, <3>3, Fields DEF Loaded, At
  <2>5. CASE ReadQueue \/ ShortEnd \/ Status
    <3>1. /\ main'.pc = "store" /\ main'.back \in {"r_next", "zlp_sent", "csw_sent"} /\ main'.tested = main.tested
          /\ main.pc \in {"r_full", "zlp", "status"} /\ (main.pc = "r_full" => ~main.tested)
      BY <2>5 DEF ReadQueue, ShortEnd, Status, Load, Passes, At, XTypeOK, MainRec
    <3> QED BY <2>1, <3>1 DEF Loaded, At, Waiting
  <2>6. CASE TxStore
    <3>1. main'.pc = "send" /\ main'.back = main.back /\ ~main'.tested /\ main.pc = "store"
      BY <2>6, Went, Named DEF TxStore, At
    <3> QED BY <2>1, <3>1 DEF Loaded, At
  <2>7. CASE TxSend
    <3>1. main'.pc = main.back /\ ~main'.tested /\ main.pc = "send"
      BY <2>7, Went, Fields DEF TxSend, At
    <3> QED BY <2>1, <3>1 DEF Loaded, At
  <2>8. CASE Hops
    <3>1. \E pc \in Places \ {"take", "store", "send"} : Goto(pc)
      BY <2>8, Named DEF Hops, ReadWait, ReadSent, AllArmed, Ended, ShortSent, Drop, StallOut, Cleared, StatusSent, BadCbw, Dead, ArmCbw
    <3> QED BY <2>2, <3>1, Went
  <2>9. CASE Top
    <3>1. Idle \in MainRec /\ ~Idle.tested
      BY XAssumption DEF Idle, MainRec, NoCmd, NoPacket, Got, Places, CmdRec, PktRec, EventRec
    <3>2. main'.pc = "arm" /\ ~main'.tested
      BY <2>9, <3>1 DEF Top, MainRec
    <3> QED BY <2>2, <3>2
  <2>10. CASE Execute \/ RxStore \/ Fill \/ ReadNext \/ Arm \/ PushChunk
    <3>1. main.pc \in {"exec", "take", "r_fill", "r_next", "w_arm", "w_push"}
      BY <2>10 DEF Execute, RxStore, Fill, ReadNext, Arm, PushChunk, At
    <3>2. ~main.tested
      BY <3>1 DEF Loaded, Waiting
    <3>3. main'.tested = main.tested \/ ~main'.tested
      BY <2>10 DEF Execute, RxStore, FromCbw, FromData, Fill, ReadNext, Arm, PushChunk, Goto, XTypeOK, MainRec
    <3>4. main'.pc \in {"ended", "r_wait", "w_arm", "exec", "bad", "w_push", "r_full", "r_sent"}
      BY <2>10 DEF Execute, RxStore, FromCbw, FromData, Fill, ReadNext, Arm, PushChunk, Goto, XTypeOK, MainRec, At
    <3> QED BY <2>2, <3>2, <3>3, <3>4
  <2> QED BY <1>1, <2>3, <2>4, <2>5, <2>6, <2>7, <2>8, <2>9, <2>10 DEF Main, Hops
<1>2. CASE SendCbw \/ SendData
  <2>1. \E got \in EventRec : Reception(got)
    <3>1. CASE SendCbw
      <4>1. PICK dir \in {"none", "in", "out"}, n \in Want :
              Reception(Got("cbw", [tag |-> host.issued + 1, dir |-> dir, want |-> IF dir = "none" THEN 0 ELSE n], 0))
        BY <3>1 DEF SendCbw
      <4> DEFINE c == [tag |-> host.issued + 1, dir |-> dir, want |-> IF dir = "none" THEN 0 ELSE n]
      <4>2. c \in CmdRec
        BY Fields, XAssumption DEF CmdRec
      <4>3. Got("cbw", c, 0) \in EventRec
        BY <4>2 DEF Got, EventRec
      <4> QED BY <4>1, <4>3
    <3>2. CASE SendData
      <4> DEFINE k == IF Head(rxq) = "data" THEN "data" ELSE "part"
      <4>1. Got(k, host.cmd, host.i + 1) \in EventRec
        BY Fields DEF Got, EventRec
      <4> QED BY <3>2, <4>1 DEF SendData
    <3> QED BY <1>2, <3>1, <3>2
  <2>2. PICK got \in EventRec : Reception(got)
    BY <2>1
  <2>3. main' = main /\ conf' = conf /\ moved' = moved /\ rxd'.r = rxd.r /\ rxd'.e = Append(rxd.e, got)
    BY <2>2 DEF Reception, core, session, XTypeOK
  <2>4. rxd'.e # <<>> /\ (rxd.e # <<>> => rxd'.e[1] = rxd.e[1])
    <3>1. rxd.e \in Seq(EventRec) /\ got \in EventRec
      BY Fields
    <3>2. ASSUME NEW S, NEW q \in Seq(S), NEW x \in S
          PROVE  Append(q, x) # <<>> /\ (q # <<>> => Append(q, x)[1] = q[1])
      <4>1. Len(Append(q, x)) = Len(q) + 1 /\ Len(q) \in Nat /\ \A j \in 1..Len(q) : Append(q, x)[j] = q[j]
        OBVIOUS
      <4>2. Len(q) = 0 => q = <<>>
        OBVIOUS
      <4>3. q # <<>> => 1 \in 1..Len(q)
        BY <4>1, <4>2
      <4>4. Append(q, x) # <<>>
        BY <4>1
      <4> QED BY <4>1, <4>3, <4>4
    <3> QED BY <2>3, <3>1, <3>2
  <2> QED BY <2>3, <2>4 DEF Loaded, At
<1>3. CASE Take \/ ClearHalt
  BY <1>3 DEF Take, ClearHalt, core, session, Loaded, At
<1>4. CASE Resets \/ SetConfiguration
  <2>1. Cleaned
    BY <1>4, ResetCleans
  <2>2. At("take") => rxd'.e = rxd.e /\ rxd'.r = Len(rxd.e)
    BY <2>1 DEF Cleaned, XTypeOK
  <2> QED BY <2>1, <2>2, Fields DEF Cleaned, Loaded, At
<1> QED BY <1>1, <1>2, <1>3, <1>4 DEF Next, Handler

---------------------------------------------------------------------------
(* A session no reset has torn. *)

LEMMA CleanSession ==
  ASSUME XTypeOK, Cleaned, ~torn'
  PROVE  Session'
<1>1. main.pc \in {"cbw", "top"} /\ rxd' = [e |-> <<>>, r |-> 0]
  BY DEF Cleaned, At
<1>2. host'.phase = "idle" /\ host'.ok
  BY DEF Cleaned, XTypeOK, HostRec
<1> QED BY <1>1, <1>2 DEF Cleaned, Session, Resting

LEMMA TopSession ==
  ASSUME XTypeOK, Top, rxq = <<>>, txq = <<>>, txo = 0, rxd.r = 0, Chunks(rxd.e), host.phase = "idle", host.ok
  PROVE  Session'
<1>1. Idle \in MainRec /\ Idle.i = 0 /\ Idle.idx = 1 /\ Idle.armed = 0 /\ Idle.fly = 0 /\ Idle.stall = "none"
  BY XAssumption DEF Idle, MainRec, NoCmd, NoPacket, Got, Places, CmdRec, PktRec, EventRec
<1>2. main'.pc = "arm" /\ Fresh'
  BY <1>1 DEF Top, Fresh, MainRec
<1>3. UNCHANGED <<rxq, txq, txo, rxd, host>> /\ ~moved'
  BY DEF Top, queues, shared
<1>4. Accounted' /\ Listens' /\ Reads' /\ Writes' /\ Closes'
  BY <1>2, <1>3 DEF Accounted, Listens, Reads, Writes, Closes, Within, At, Chunks
<1> QED BY <1>3, <1>4 DEF Session, Resting

LEMMA RestingStep ==
  ASSUME XTypeOK, Loaded, Session, moved, Main \/ SendCbw \/ SendData \/ Take \/ ClearHalt
  PROVE  Session'
<1>1. main.pc \in {"top", "cbw"} /\ rxq = <<>> /\ txq = <<>> /\ rxd.e = <<>> /\ txo = 0 /\ host.phase = "idle"
      /\ host.ok /\ rxd.r = 0
  BY DEF Session, Resting
<1>2. CASE Top
  <2>1. Chunks(rxd.e)
    BY <1>1 DEF Chunks
  <2> QED BY <1>1, <1>2, <2>1, TopSession
<1>3. CASE NotReady \/ CheckReset
  <2>1. main'.pc \in {"top", "cbw"} /\ UNCHANGED <<rxq, txq, rxd, txo, host, moved>>
    BY <1>1, <1>3 DEF NotReady, CheckReset, XTypeOK, MainRec, queues, shared, session
  <2> QED BY <1>1, <2>1 DEF Session, Resting
<1>4. CASE ClearHalt
  BY <1>1, <1>4 DEF ClearHalt, core, queues, session, Session, Resting
<1>5. ~SendCbw /\ ~SendData /\ ~Take
  BY <1>1 DEF SendCbw, Reception, SendData, Take
<1>6. ~RxLoad
  BY <1>1 DEF RxLoad, Passes, At, Ready, Unread
<1>7. ~(Main /\ ~Top /\ ~NotReady /\ ~CheckReset /\ ~RxLoad)
  BY <1>1 DEF Main, ArmCbw, RxStore, Execute, TxStore, TxSend, ReadWait, Fill, ReadQueue, ReadNext, ReadSent, Arm, AllArmed,
    PushChunk, Ended, ShortEnd, ShortSent, Drop, StallOut, Cleared, Status, StatusSent, BadCbw, Dead, At, Passes
<1> QED BY <1>2, <1>3, <1>4, <1>5, <1>6, <1>7

(* The other steps of a command. *)
InCommand == (Main /\ ~Top) \/ SendCbw \/ SendData \/ Take \/ ClearHalt
Loads     == ReadQueue \/ ShortEnd \/ Status

(* Where a step of the main loop goes. *)
LEMMA Goes ==
  ASSUME XTypeOK, Loaded, ~moved, conf
  PROVE  /\ ArmCbw => At("arm") /\ main'.pc = "cbw" /\ Keeps
         /\ NotReady \/ CheckReset => main'.pc = main.pc /\ main'.back = main.back /\ main'.v = main.v /\ main'.e = main.e
                                      /\ main'.pkt = main.pkt /\ Keeps /\ main.pc \in Waiting
         /\ RxLoad => /\ main.pc \in {"cbw", "w_wait"} /\ main'.pc = "take" /\ main'.back = main.pc
                      /\ main'.e = rxd.e[rxd.r + 1] /\ Len(rxd.e) > rxd.r /\ Keeps
         /\ TxStore => At("store") /\ main'.pc = "send" /\ main'.back = main.back /\ main'.pkt = main.pkt
                       /\ main'.v = main.v /\ Keeps
         /\ TxSend => At("send") /\ main'.pc = main.back /\ Keeps
         /\ ReadWait => At("r_wait") /\ main'.pc = "r_fill" /\ Keeps /\ txo <= 1
         /\ ReadQueue => At("r_full") /\ main'.pc = "store" /\ main'.back = "r_next" /\ main'.v = txo /\ txo <= 1
                         /\ main'.pkt = [buf |-> main.idx, zlp |-> FALSE] /\ Keeps
         /\ ReadSent => At("r_sent") /\ main'.pc = "ended" /\ Keeps /\ txo = 0
         /\ AllArmed => At("w_arm") /\ ~MayArm /\ Keeps
                        /\ main'.pc = (IF main.i < main.cmd.want THEN "w_wait" ELSE "ended")
         /\ ShortEnd => At("zlp") /\ main'.pc = "store" /\ main'.back = "zlp_sent" /\ main'.v = txo
                        /\ main'.pkt = NoPacket /\ Keeps
         /\ ShortSent => At("zlp_sent") /\ main'.pc = "status" /\ Keeps /\ txo = 0
         /\ Drop => At("drop") /\ main'.pc = "stall" /\ Keeps
         /\ StallOut => At("stall") /\ main'.pc = "cleared" /\ Keeps
         /\ Cleared => At("cleared") /\ main'.pc = "status" /\ Keeps /\ ~halted.out
         /\ Status => At("status") /\ main'.pc = "store" /\ main'.back = "csw_sent" /\ main'.v = txo
                      /\ main'.pkt = [buf |-> 0, zlp |-> FALSE] /\ Keeps
         /\ StatusSent => At("csw_sent") /\ main'.pc = "top" /\ Keeps /\ txo = 0
         /\ BadCbw => At("bad") /\ main'.pc = "dead" /\ Keeps
         /\ ~Dead
<1> USE DEF At
<1>1. ASSUME ArmCbw PROVE At("arm") /\ main'.pc = "cbw" /\ Keeps
  BY <1>1, Went, Named DEF ArmCbw
<1>2. ASSUME NotReady \/ CheckReset
      PROVE  main'.pc = main.pc /\ main'.back = main.back /\ main'.v = main.v /\ main'.e = main.e
             /\ main'.pkt = main.pkt /\ Keeps /\ main.pc \in Waiting
  BY <1>2 DEF NotReady, CheckReset, Aborted, Loaded, Keeps, XTypeOK, MainRec
<1>3. ASSUME RxLoad
      PROVE  main.pc \in {"cbw", "w_wait"} /\ main'.pc = "take" /\ main'.back = main.pc
             /\ main'.e = rxd.e[rxd.r + 1] /\ Len(rxd.e) > rxd.r /\ Keeps
  BY <1>3 DEF RxLoad, Passes, Ready, Unread, Keeps, XTypeOK, MainRec
<1>4. ASSUME TxStore
      PROVE  At("store") /\ main'.pc = "send" /\ main'.back = main.back /\ main'.pkt = main.pkt
             /\ main'.v = main.v /\ Keeps
  BY <1>4, Went, Named DEF TxStore
<1>5. ASSUME TxSend PROVE At("send") /\ main'.pc = main.back /\ Keeps
  BY <1>5, Went, Fields DEF TxSend
<1>6. ASSUME ReadWait PROVE At("r_wait") /\ main'.pc = "r_fill" /\ Keeps /\ txo <= 1
  BY <1>6, Went, Named DEF ReadWait, Passes, Ready, MayQueue
<1>7. ASSUME ReadQueue
      PROVE  At("r_full") /\ main'.pc = "store" /\ main'.back = "r_next" /\ main'.v = txo /\ txo <= 1
             /\ main'.pkt = [buf |-> main.idx, zlp |-> FALSE] /\ Keeps
  <2>1. [buf |-> main.idx, zlp |-> FALSE] \in PktRec
    BY Fields DEF PktRec
  <2> QED BY <1>7, <2>1, WentLoading, Named DEF ReadQueue, Passes, Ready, MayQueue
<1>8. ASSUME ReadSent PROVE At("r_sent") /\ main'.pc = "ended" /\ Keeps /\ txo = 0
  BY <1>8, Went, Named DEF ReadSent, Passes, Ready
<1>9. ASSUME AllArmed
      PROVE  At("w_arm") /\ ~MayArm /\ Keeps /\ main'.pc = (IF main.i < main.cmd.want THEN "w_wait" ELSE "ended")
  BY <1>9, Went, Named DEF AllArmed
<1>10. ASSUME ShortEnd
       PROVE  At("zlp") /\ main'.pc = "store" /\ main'.back = "zlp_sent" /\ main'.v = txo
              /\ main'.pkt = NoPacket /\ Keeps
  <2>1. NoPacket \in PktRec
    BY XAssumption DEF NoPacket, PktRec
  <2> QED BY <1>10, <2>1, WentLoading, Named DEF ShortEnd
<1>11. ASSUME ShortSent PROVE At("zlp_sent") /\ main'.pc = "status" /\ Keeps /\ txo = 0
  BY <1>11, Went, Named DEF ShortSent, Passes, Ready
<1>12. ASSUME Drop PROVE At("drop") /\ main'.pc = "stall" /\ Keeps
  BY <1>12, Went, Named DEF Drop
<1>13. ASSUME StallOut PROVE At("stall") /\ main'.pc = "cleared" /\ Keeps
  BY <1>13, Went, Named DEF StallOut
<1>14. ASSUME Cleared PROVE At("cleared") /\ main'.pc = "status" /\ Keeps /\ ~halted.out
  BY <1>14, Went, Named DEF Cleared, Passes, Ready
<1>15. ASSUME Status
       PROVE  At("status") /\ main'.pc = "store" /\ main'.back = "csw_sent" /\ main'.v = txo
              /\ main'.pkt = [buf |-> 0, zlp |-> FALSE] /\ Keeps
  <2>1. [buf |-> 0, zlp |-> FALSE] \in PktRec
    BY XAssumption DEF PktRec
  <2> QED BY <1>15, <2>1, WentLoading, Named DEF Status
<1>16. ASSUME StatusSent PROVE At("csw_sent") /\ main'.pc = "top" /\ Keeps /\ txo = 0
  BY <1>16, Went, Named DEF StatusSent, Passes, Ready
<1>17. ASSUME BadCbw PROVE At("bad") /\ main'.pc = "dead" /\ Keeps
  BY <1>17, Went, Named DEF BadCbw
<1>18. ~Dead
  BY DEF Dead, Aborted
<1> QED BY <1>1, <1>2, <1>3, <1>4, <1>5, <1>6, <1>7, <1>8, <1>9, <1>10, <1>11, <1>12, <1>13, <1>14, <1>15, <1>16, <1>17, <1>18

LEMMA GoesOn ==
  ASSUME XTypeOK, Loaded, ~moved, conf
  PROVE  /\ RxStore => /\ At("take") /\ main.back \in {"cbw", "w_wait"}
                       /\ main.back = "cbw" /\ main.e.kind = "cbw" =>
                            main'.pc = "exec" /\ main'.cmd = main.e.cmd /\ (Fresh => Fresh')
                       /\ main.back = "cbw" /\ main.e.kind # "cbw" => main'.pc = "bad"
                       /\ main.back = "w_wait" /\ main.e.kind # "cbw" =>
                            /\ main'.pc = "w_push" /\ main'.fly = main.fly - 1 /\ main'.e = main.e /\ main'.cmd = main.cmd
                            /\ main'.i = main.i /\ main'.armed = main.armed /\ main'.stall = main.stall
                       /\ main'.pc \in {"exec", "bad", "ended", "w_push"}
         /\ Execute => /\ At("exec")
                       /\ \/ main.cmd.dir = "none" /\ main'.pc = "ended" /\ Keeps
                          \/ /\ main.cmd.dir # "none" /\ main'.pc = "ended" /\ main'.stall = main.cmd.dir
                             /\ main'.cmd = main.cmd
                          \/ main.cmd.dir = "in" /\ main'.pc = "r_wait" /\ Keeps
                          \/ main.cmd.dir = "out" /\ main'.pc = "w_arm" /\ Keeps
         /\ Fill => /\ At("r_fill")
                    /\ \/ /\ main'.pc = "r_full" /\ Keeps
                          /\ mem' = [mem EXCEPT ![main.idx] = [tag |-> main.cmd.tag, i |-> main.i + 1]]
                       \/ /\ main'.pc = "r_sent" /\ main'.stall = "in" /\ mem' = mem /\ main'.cmd = main.cmd
                          /\ main'.i = main.i /\ main'.idx = main.idx
         /\ ReadNext => /\ At("r_next") /\ main'.i = main.i + 1 /\ main'.idx = NextBuffer(main.idx)
                        /\ main'.pc = (IF main.i + 1 = main.cmd.want THEN "r_sent" ELSE "r_wait")
                        /\ main'.cmd = main.cmd /\ main'.stall = main.stall
         /\ Arm => /\ At("w_arm") /\ MayArm /\ main'.pc = "w_arm" /\ main'.armed = main.armed + 1
                   /\ main'.fly = main.fly + 1 /\ main'.cmd = main.cmd /\ main'.i = main.i /\ main'.stall = main.stall
         /\ PushChunk => /\ At("w_push") /\ main'.i = main.i + 1 /\ main'.cmd = main.cmd
                         /\ main'.armed = main.armed /\ main'.fly = main.fly
                         /\ \/ main'.pc = "w_arm" /\ main'.stall = main.stall
                            \/ /\ main'.pc = "ended"
                               /\ main'.stall = (IF main.i + 1 < main.cmd.want THEN "out" ELSE "none")
         /\ Ended => /\ At("ended") /\ Keeps
                     /\ \/ main.stall = "in" /\ main'.pc = "zlp"
                        \/ main.stall = "out" /\ main'.pc = "drop"
                        \/ main.stall = "none" /\ main'.pc = "status"
<1> USE DEF At
<1>1. ASSUME RxStore
      PROVE  /\ At("take") /\ main.back \in {"cbw", "w_wait"}
             /\ main.back = "cbw" /\ main.e.kind = "cbw" =>
                  main'.pc = "exec" /\ main'.cmd = main.e.cmd /\ (Fresh => Fresh')
             /\ main.back = "cbw" /\ main.e.kind # "cbw" => main'.pc = "bad"
             /\ main.back = "w_wait" /\ main.e.kind # "cbw" =>
                  /\ main'.pc = "w_push" /\ main'.fly = main.fly - 1 /\ main'.e = main.e /\ main'.cmd = main.cmd
                  /\ main'.i = main.i /\ main'.armed = main.armed /\ main'.stall = main.stall
             /\ main'.pc \in {"exec", "bad", "ended", "w_push"}
  BY <1>1 DEF RxStore, FromCbw, FromData, Loaded, XTypeOK, MainRec, Fresh
<1>2. ASSUME Execute
      PROVE  /\ At("exec")
             /\ \/ main.cmd.dir = "none" /\ main'.pc = "ended" /\ Keeps
                \/ /\ main.cmd.dir # "none" /\ main'.pc = "ended" /\ main'.stall = main.cmd.dir
                   /\ main'.cmd = main.cmd
                \/ main.cmd.dir = "in" /\ main'.pc = "r_wait" /\ Keeps
                \/ main.cmd.dir = "out" /\ main'.pc = "w_arm" /\ Keeps
  BY <1>2, Went, Named DEF Execute, XTypeOK, MainRec
<1>3. ASSUME Fill
      PROVE  /\ At("r_fill")
             /\ \/ /\ main'.pc = "r_full" /\ Keeps
                   /\ mem' = [mem EXCEPT ![main.idx] = [tag |-> main.cmd.tag, i |-> main.i + 1]]
                \/ /\ main'.pc = "r_sent" /\ main'.stall = "in" /\ mem' = mem /\ main'.cmd = main.cmd
                   /\ main'.i = main.i /\ main'.idx = main.idx
  BY <1>3, Went, Named DEF Fill, XTypeOK, MainRec
<1>4. ASSUME ReadNext
      PROVE  /\ At("r_next") /\ main'.i = main.i + 1 /\ main'.idx = NextBuffer(main.idx)
             /\ main'.pc = (IF main.i + 1 = main.cmd.want THEN "r_sent" ELSE "r_wait")
             /\ main'.cmd = main.cmd /\ main'.stall = main.stall
  BY <1>4 DEF ReadNext, XTypeOK, MainRec
<1>5. ASSUME Arm
      PROVE  /\ At("w_arm") /\ MayArm /\ main'.pc = "w_arm" /\ main'.armed = main.armed + 1
             /\ main'.fly = main.fly + 1 /\ main'.cmd = main.cmd /\ main'.i = main.i /\ main'.stall = main.stall
  BY <1>5 DEF Arm, XTypeOK, MainRec
<1>6. ASSUME PushChunk
      PROVE  /\ At("w_push") /\ main'.i = main.i + 1 /\ main'.cmd = main.cmd
             /\ main'.armed = main.armed /\ main'.fly = main.fly
             /\ \/ main'.pc = "w_arm" /\ main'.stall = main.stall
                \/ /\ main'.pc = "ended"
                   /\ main'.stall = (IF main.i + 1 < main.cmd.want THEN "out" ELSE "none")
  BY <1>6 DEF PushChunk, XTypeOK, MainRec
<1>7. ASSUME Ended
      PROVE  /\ At("ended") /\ Keeps
             /\ \/ main.stall = "in" /\ main'.pc = "zlp"
                \/ main.stall = "out" /\ main'.pc = "drop"
                \/ main.stall = "none" /\ main'.pc = "status"
  BY <1>7, Went, Named DEF Ended, Aborted
<1> QED BY <1>1, <1>2, <1>3, <1>4, <1>5, <1>6, <1>7

(* What a step of the main loop leaves alone. *)
LEMMA Leaves ==
  ASSUME Main, ~Top
  PROVE  /\ UNCHANGED <<moved, conf, torn, host>>
         /\ ~Fill /\ ~Status => mem' = mem
         /\ ~ArmCbw /\ ~Arm /\ ~StallOut /\ ~BadCbw => rxq' = rxq
         /\ ~TxSend /\ ~BadCbw => txq' = txq
         /\ ~RxStore /\ ~Drop => rxd' = rxd
         /\ ~TxStore => txo' = txo
         /\ ~Drop /\ ~BadCbw => halted' = halted
         /\ ~StallOut /\ ~BadCbw => stalled' = stalled
BY DEF Main, ArmCbw, NotReady, CheckReset, RxLoad, RxStore, Execute, TxStore, TxSend, ReadWait, Fill, ReadQueue,
  ReadNext, ReadSent, Arm, AllArmed, PushChunk, Ended, ShortEnd, ShortSent, Drop, StallOut, Cleared, Status,
  StatusSent, BadCbw, Dead, session, queues, shared

LEMMA AccountedStep ==
  ASSUME XTypeOK, Loaded, Accounted, ~moved, conf, InCommand
  PROVE  Accounted'
<1> DEFINE Busy == {"r_wait", "r_fill", "r_full", "r_next", "r_sent", "zlp_sent", "csw_sent"}
           Count(a, b, q, n, v) ==
             /\ CASE a = "store" -> q <= n /\ n <= v /\ v <= 1
                  [] a = "send"  -> q <= 1 /\ q + 1 <= n
                  [] OTHER       -> q <= 2 /\ q <= n
             /\ ~(a \in Busy \/ (a \in {"take", "store", "send"} /\ b \in Busy)) => n = 0
             /\ a \in {"r_fill", "r_full"} => q <= 1
             /\ a \in {"store", "send"} /\ b # "r_next" => q = 0 /\ v = 0
<1>1. Accounted <=> Count(main.pc, main.back, Len(txq), txo, main.v)
  BY DEF XTypeOK, Accounted, Within, At
<1>2. XTypeOK'
  BY MainTypesStep, HandlerTypesStep DEF InCommand, Handler
<1>3. Accounted' <=> Count(main'.pc, main'.back, Len(txq'), txo', main'.v)
  BY <1>2 DEF XTypeOK, Accounted, Within, At
<1>4. txo \in Nat /\ Len(txq) \in Nat /\ Len(txq') \in Nat /\ main.v \in Nat
  BY <1>2, Fields DEF XTypeOK
<1>5. CASE UNCHANGED <<txq, txo>>
  <2> DEFINE n == Len(txq)
  <2>1. Len(txq') = n /\ txo' = txo
    BY <1>5
  <2> HIDE DEF n
  <2>2. CASE SendCbw \/ SendData \/ ClearHalt \/ NotReady \/ CheckReset
    <3>1. main'.pc = main.pc /\ main'.back = main.back /\ main'.v = main.v
      BY <2>2, Goes DEF SendCbw, SendData, ClearHalt, Reception, core
    <3> QED BY <1>1, <1>3, <2>1, <3>1 DEF n
  <2>3. CASE ArmCbw \/ RxLoad \/ ReadWait \/ ReadQueue \/ ReadSent \/ AllArmed \/ ShortEnd \/ ShortSent
    BY <1>1, <1>3, <1>4, <2>1, <2>3, Goes DEF Loaded, At, n
  <2>4. CASE Drop \/ StallOut \/ Cleared \/ Status \/ StatusSent \/ BadCbw
    BY <1>1, <1>3, <1>4, <2>1, <2>4, Goes DEF Loaded, At, n
  <2>5. CASE RxStore \/ Execute \/ Fill \/ ReadNext \/ Arm \/ PushChunk \/ Ended
    BY <1>1, <1>3, <1>4, <2>1, <2>5, GoesOn DEF Loaded, At, n
  <2>6. ~Dead /\ ~Take
    BY <1>4, <1>5, Goes DEF Take, XTypeOK
  <2>7. CASE TxStore
    BY <1>1, <1>3, <1>4, <2>1, <2>7, Goes DEF Loaded, At, n, TxStore
  <2>8. CASE TxSend
    BY <1>1, <1>3, <1>4, <2>1, <2>8, Goes DEF Loaded, At, n
  <2> QED BY <2>2, <2>3, <2>4, <2>5, <2>6, <2>7, <2>8 DEF InCommand, Main
<1>6. CASE ~UNCHANGED <<txq, txo>>
  <2> DEFINE n == Len(txq)
  <2>1. CASE Take
    <3>1. /\ main' = main /\ Len(txq') = n - 1 /\ n >= 1 /\ txo' = (IF txo > 0 THEN txo - 1 ELSE 0)
      BY <2>1, <1>4 DEF Take, Completed, core, XTypeOK
    <3> HIDE DEF n
    <3> QED BY <1>1, <1>3, <1>4, <3>1 DEF n
  <2>2. CASE TxStore
    <3>1. Len(txq') = n /\ txo' = main.v + 1
      BY <2>2 DEF TxStore, queues
    <3> HIDE DEF n
    <3> QED BY <1>1, <1>3, <1>4, <2>2, <3>1, Goes DEF Loaded, At, n
  <2>3. CASE TxSend
    <3>1. n <= 1 /\ n + 1 <= txo
      BY <1>1, <2>3, Goes DEF At
    <3>2. Len(txq') = n + 1 /\ txo' = txo
      <4>1. txq' = Queued(txq, main.pkt) /\ txo' = txo
        BY <2>3 DEF TxSend, shared
      <4>2. txq \in Seq(PktRec) /\ main.pkt \in PktRec
        BY Fields DEF XTypeOK
      <4>3. Len(Queued(txq, main.pkt)) = n + 1
        <5>1. Len(txq) < 2
          BY <1>4, <3>1
        <5> HIDE DEF n
        <5>2. Len(Queued(txq, main.pkt)) = Len(txq) + 1
          BY <4>2, <5>1, QueuedType
        <5> QED BY <5>2 DEF n
      <4> QED BY <4>1, <4>3
    <3> HIDE DEF n
    <3> QED BY <1>1, <1>3, <1>4, <2>3, <3>1, <3>2, Goes DEF Loaded, At, n
  <2>4. CASE BadCbw
    <3>1. txq' = <<>> /\ txo' = txo
      BY <2>4 DEF BadCbw
    <3> HIDE DEF n
    <3>2. Len(txq') = 0
      BY <3>1
    <3> QED BY <1>1, <1>3, <1>4, <2>4, <3>1, <3>2, Goes DEF Loaded, At, n
  <2>5. Take \/ TxStore \/ TxSend \/ BadCbw
    BY <1>6, Leaves DEF InCommand, SendCbw, SendData, Reception, ClearHalt, queues
  <2> QED BY <2>1, <2>2, <2>3, <2>4, <2>5
<1> QED BY <1>5, <1>6

(* Nothing is on the IN queue where nothing is counted. *)
LEMMA EmptyIn ==
  ASSUME XTypeOK, Accounted
  PROVE  /\ txo = 0 /\ ~At("send") => txq = <<>>
         /\ ~Within({"r_wait", "r_fill", "r_full", "r_next", "r_sent", "zlp_sent", "csw_sent"}) => txq = <<>>
<1>1. \A q \in Seq(PktRec) : Len(q) <= 0 => q = <<>>
  OBVIOUS
<1>2. txq \in Seq(PktRec)
  BY DEF XTypeOK
<1>3. txo = 0 /\ ~At("send") => Len(txq) <= 0
  BY DEF Accounted, At
<1>4. ~Within({"r_wait", "r_fill", "r_full", "r_next", "r_sent", "zlp_sent", "csw_sent"}) => Len(txq) <= 0
  <2>1. Len(txq) \in Nat
    BY <1>2
  <2> QED BY <2>1 DEF Accounted, At
<1> QED BY <1>1, <1>2, <1>3, <1>4

Sound == XTypeOK /\ Loaded /\ Wanted /\ Session /\ ~moved /\ conf

LEMMA SoundParts ==
  ASSUME Sound
  PROVE  XTypeOK /\ Loaded /\ Wanted /\ Accounted /\ Listens /\ Reads /\ Writes /\ Closes /\ ~moved /\ conf /\ rxd.r = 0 /\ host.ok
BY DEF Sound, Session

(* What a reception does. *)
LEMMA Received ==
  ASSUME XTypeOK, NEW got, Reception(got)
  PROVE  /\ ~stalled.out /\ rxq # <<>> /\ rxq' = Tail(rxq) /\ rxd'.e = Append(rxd.e, got) /\ rxd'.r = rxd.r
         /\ UNCHANGED <<main, mem, txq, txo, halted, conf, moved, torn, stalled>>
BY DEF Reception, XTypeOK, core, session

LEMMA ListensStep ==
  ASSUME Sound, InCommand
  PROVE  Listens'
<1> USE SoundParts
<1> DEFINE Hushed == main'.pc \notin {"top", "arm", "cbw", "bad", "dead", "exec"}
                     /\ ~(main'.pc \in {"take", "store", "send"} /\ main'.back = "cbw")
<1>1. CASE Hushed
  BY <1>1 DEF Listens, Within, At
<1>2. CASE StatusSent
  <2>1. main.pc = "csw_sent" /\ main'.pc = "top" /\ txo = 0 /\ UNCHANGED <<rxq, rxd, host>>
    BY <1>2, Goes DEF StatusSent, At, queues, shared
  <2>2. txq = <<>>
    BY <2>1, EmptyIn DEF At
  <2>3. rxq = <<>> /\ Chunks(rxd.e) /\ host.phase = "idle"
    BY <2>1, <2>2 DEF Closes, Within, At
  <2> QED BY <2>1, <2>3 DEF Listens, Within, At, Chunks
<1>3. CASE ArmCbw
  <2>1. main.pc = "arm" /\ main'.pc = "cbw" /\ UNCHANGED <<rxd, host>> /\ rxq' = Queued(rxq, "cbw") /\ Keeps
    BY <1>3, Goes DEF ArmCbw, At, shared
  <2>2. rxq = <<>> /\ host.phase = "idle" /\ Chunks(rxd.e) /\ Fresh
    BY <2>1 DEF Listens, At
  <2>3. rxq' = <<"cbw">>
    BY <2>1, <2>2 DEF Queued, Depth
  <2>4. Fresh' /\ Chunks(rxd.e)' /\ host'.phase = "idle"
    BY <2>1, <2>2 DEF Fresh, Keeps, Chunks
  <2> QED BY <2>1, <2>3, <2>4 DEF Listens, Within, At
<1>4. CASE NotReady \/ CheckReset
  <2>1. /\ main'.pc = main.pc /\ main'.back = main.back /\ Keeps /\ main.pc \in Waiting
        /\ UNCHANGED <<rxq, rxd, host, stalled>>
    BY <1>4, Goes DEF NotReady, CheckReset, queues, shared
  <2> QED BY <2>1 DEF Listens, Within, At, Fresh, Keeps, Chunks, Unstalled, Waiting
<1>5. CASE RxLoad
  <2>1. /\ main.pc \in {"cbw", "w_wait"} /\ main'.pc = "take" /\ main'.back = main.pc /\ Keeps
        /\ UNCHANGED <<rxq, rxd, host, stalled>>
    BY <1>5, Goes DEF RxLoad, queues, shared
  <2> QED BY <2>1 DEF Listens, Within, At, Fresh, Keeps, Chunks, Unstalled
<1>6. CASE RxStore
  <2>1. main.pc = "take" /\ main.e = rxd.e[1] /\ rxd.e # <<>> /\ rxd.e \in Seq(EventRec)
    BY <1>6, GoesOn, Fields DEF Loaded, At
  <2>2. rxd'.e = Tail(rxd.e) /\ UNCHANGED <<rxq, host, stalled>>
    BY <1>6 DEF RxStore, AfterTake, queues
  <2>3. CASE main.back = "w_wait"
    <3>1. main.e.kind # "cbw"
      <4>1. rxd.e[1] = Got("data", main.cmd, TakenSoFar + 1)
        BY <2>1, <2>3 DEF Writes, Within, At
      <4> QED BY <2>1, <4>1 DEF Got
    <3> QED BY <1>1, <1>6, <2>3, <3>1, GoesOn
  <2>4. CASE main.back = "cbw" /\ main.e.kind # "cbw"
    <3>1. main'.pc = "bad"
      BY <1>6, <2>4, GoesOn
    <3>2. rxq' = <<>> \/ (rxq' = <<"cbw">> /\ host'.phase = "idle")
      BY <2>1, <2>2, <2>4 DEF Listens, Within, At
    <3> QED BY <3>1, <3>2 DEF Listens, Within, At
  <2>5. CASE main.back = "cbw" /\ main.e.kind = "cbw"
    <3>1. ~Chunks(rxd.e)
      BY <2>1, <2>5 DEF Chunks
    <3>2. Fresh /\ rxq = <<>> /\ Unstalled /\ host.i = 0 /\ host.phase = First(host.cmd)
      BY <2>1, <2>5, <3>1 DEF Listens, Within, At
    <3>3. PICK n \in 1..Len(rxd.e) : n = Len(rxd.e) /\ rxd.e[n] = Got("cbw", host.cmd, 0)
                                     /\ \A j \in 1..n - 1 : rxd.e[j].kind = "data"
      BY <2>1, <2>5, <3>1 DEF Listens, Within, At
    <3>4. n = 1
      <4>1. n # 1 => 1 \in 1..n - 1
        OBVIOUS
      <4> QED BY <2>1, <2>5, <3>3, <4>1
    <3>5. main.e.cmd = host.cmd /\ rxd'.e = <<>>
      <4>1. Tail(rxd.e) \in Seq(EventRec) /\ Len(Tail(rxd.e)) = 0
        <5>1. Len(rxd.e) = 1
          BY <3>3, <3>4
        <5> QED BY <2>1, <5>1, Tails
      <4>2. \A s \in Seq(EventRec) : Len(s) = 0 => s = <<>>
        OBVIOUS
      <4>3. Tail(rxd.e) = <<>>
        BY <4>1, <4>2, Zenon
      <4>4. rxd.e[1] = Got("cbw", host.cmd, 0)
        BY <3>3, <3>4
      <4> QED BY <2>1, <2>2, <4>3, <4>4 DEF Got
    <3>6. main'.pc = "exec" /\ main'.cmd = main.e.cmd /\ Fresh'
      BY <1>6, <2>5, <3>2, GoesOn
    <3> QED BY <2>2, <3>2, <3>5, <3>6 DEF Listens, Within, At, Unstalled
  <2> QED BY <1>6, <2>3, <2>4, <2>5, GoesOn
<1>7. CASE BadCbw
  BY <1>7, Goes DEF BadCbw, Listens, Within, At
<1>8. CASE SendCbw
  <2>1. PICK dir \in {"none", "in", "out"}, n \in Want :
          LET c == [tag |-> host.issued + 1, dir |-> dir, want |-> IF dir = "none" THEN 0 ELSE n]
          IN /\ Reception(Got("cbw", c, 0))
             /\ host' = [host EXCEPT !.phase = IF dir = "none" THEN "csw" ELSE dir,
                                     !.cmd = c, !.i = 0, !.issued = host.issued + 1]
    BY <1>8 DEF SendCbw
  <2> DEFINE c == [tag |-> host.issued + 1, dir |-> dir, want |-> IF dir = "none" THEN 0 ELSE n]
  <2>2. Got("cbw", c, 0).kind = "cbw" /\ c.dir = dir
    BY DEF Got
  <2>3. host'.phase = First(c) /\ host'.cmd = c /\ host'.i = 0
    BY <2>1, <2>2 DEF XTypeOK, HostRec, First
  <2>4. Reception(Got("cbw", c, 0))
    BY <2>1
  <2> HIDE DEF c
  <2>5. /\ ~stalled.out /\ ~stalled.in /\ host.phase = "idle" /\ rxq # <<>> /\ rxq' = Tail(rxq)
        /\ rxd'.e = Append(rxd.e, Got("cbw", c, 0)) /\ main' = main /\ stalled' = stalled
    BY <1>8, <2>4, Received DEF SendCbw
  <2>6. CASE Within({"cbw"})
    <3>1. rxq = <<"cbw">> /\ Chunks(rxd.e) /\ Fresh
      BY <2>5, <2>6 DEF Listens
    <3>2. rxq' = <<>>
      BY <2>5, <3>1
    <3> DEFINE m == Len(rxd.e) + 1
    <3>3. /\ m \in 1..Len(rxd'.e) /\ m = Len(rxd'.e) /\ rxd'.e[m] = Got("cbw", host'.cmd, 0)
          /\ \A j \in 1..m - 1 : rxd'.e[j].kind = "data"
      BY <2>3, <2>5, <3>1, Fields DEF Chunks
    <3>4. Unstalled' /\ Fresh'
      BY <2>5, <3>1 DEF Unstalled, Fresh
    <3> HIDE DEF m
    <3> QED BY <2>3, <2>5, <2>6, <3>2, <3>3, <3>4 DEF Listens, Within, At
  <2>7. CASE At("bad")
    <3>1. rxq' = <<>>
      <4>1. rxq = <<"cbw">>
        BY <2>5, <2>7 DEF Listens
      <4> QED BY <2>5, <4>1
    <3> QED BY <2>5, <2>7, <3>1 DEF Listens, Within, At
  <2>8. CASE ~Within({"cbw"}) /\ ~At("bad")
    <3>1. main.pc \notin {"top", "arm", "dead", "exec"}
      BY <2>5 DEF Listens, At
    <3> QED BY <1>1, <2>5, <2>8, <3>1 DEF Within, At
  <2> QED BY <2>6, <2>7, <2>8
<1>9. CASE SendData \/ Take
  <2>1. main' = main /\ (SendData => host.phase = "out" /\ rxq # <<>>) /\ (Take => txq # <<>>)
    BY <1>9, Received DEF SendData, Take, core
  <2>2. CASE ~Hushed
    <3>1. main.pc \in {"top", "arm", "cbw", "bad", "dead", "exec"} \/ (main.pc \in {"take", "store", "send"} /\ main.back = "cbw")
      BY <2>1, <2>2
    <3>2. main.pc \in {"top", "arm", "cbw", "bad", "dead", "exec"} \/ (main.pc = "take" /\ main.back = "cbw")
      BY <3>1 DEF Loaded, At
    <3>3. txq = <<>>
      BY <3>2, EmptyIn DEF Within
    <3>4. rxq # <<>> => host.phase = "idle"
      BY <3>2 DEF Listens, Within, At
    <3> QED BY <1>9, <2>1, <3>3, <3>4
  <2> QED BY <1>1, <2>2
<1>10. CASE ClearHalt
  <2>1. /\ UNCHANGED <<main, rxq, rxd>> /\ host'.cmd = host.cmd /\ host'.i = host.i
        /\ (host.phase = "idle" => host' = host) /\ (stalled.in \/ stalled.out)
    BY <1>10 DEF ClearHalt, core, queues, XTypeOK, HostRec
  <2>2. CASE Hushed
    BY <1>1, <2>2
  <2>3. CASE ~Hushed
    BY <2>1, <2>3 DEF Listens, Loaded, Within, At, Fresh, Chunks, Unstalled
  <2> QED BY <2>2, <2>3
<1>11. CASE TxSend
  <2>1. main'.pc \in {"r_next", "zlp_sent", "csw_sent"}
    BY <1>11, Goes DEF Loaded, At
  <2> QED BY <1>1, <2>1
<1>12. CASE Loads \/ TxStore
  BY <1>1, <1>12, Goes DEF Loads, Loaded, At
<1>13. CASE ReadWait \/ ReadSent \/ AllArmed \/ ShortSent \/ Drop \/ StallOut \/ Cleared
  BY <1>1, <1>13, Goes
<1>14. CASE Execute \/ Fill \/ ReadNext \/ Arm \/ PushChunk \/ Ended
  BY <1>1, <1>14, GoesOn
<1>15. ~Dead
  BY Goes
<1> QED BY <1>2, <1>3, <1>4, <1>5, <1>6, <1>7, <1>8, <1>9, <1>10, <1>11, <1>12, <1>13, <1>14, <1>15 DEF InCommand, Main, Loads

LEMMA WantedStep ==
  ASSUME XTypeOK, Wanted, Next
  PROVE  Wanted'
<1>1. CASE SendCbw
  <2>1. PICK dir \in {"none", "in", "out"}, n \in Want :
          host' = [host EXCEPT !.phase = IF dir = "none" THEN "csw" ELSE dir,
                               !.cmd = [tag |-> host.issued + 1, dir |-> dir, want |-> IF dir = "none" THEN 0 ELSE n],
                               !.i = 0, !.issued = host.issued + 1]
    BY <1>1 DEF SendCbw
  <2>2. host'.cmd = [tag |-> host.issued + 1, dir |-> dir, want |-> IF dir = "none" THEN 0 ELSE n]
    BY <2>1 DEF XTypeOK, HostRec
  <2> QED BY <2>2, XAssumption DEF Wanted
<1>2. CASE SendData \/ ClearHalt
  <2>1. host'.cmd = host.cmd
    <3>1. CASE SendData
      BY <3>1 DEF SendData, XTypeOK, HostRec
    <3>2. CASE ClearHalt
      BY <3>2 DEF ClearHalt, XTypeOK, HostRec
    <3> QED BY <1>2, <3>1, <3>2
  <2> QED BY <2>1 DEF Wanted
<1>3. CASE Take
  BY <1>3 DEF Take, XTypeOK, HostRec, Wanted
<1>4. CASE Main
  <2>1. host' = host
    BY <1>4, Leaves DEF Top
  <2> QED BY <2>1 DEF Wanted
<1>5. CASE Resets \/ SetConfiguration
  BY <1>5, ResetCleans DEF Cleaned, XTypeOK, HostRec, Wanted
<1> QED BY <1>1, <1>2, <1>3, <1>4, <1>5 DEF Next, Handler

Filling == {"r_wait", "r_fill", "r_full", "r_next", "r_sent"}

(* What is known of a READ, by the variables it reads.                      *)
LEMMA ReadsKept ==
  ASSUME XTypeOK, XTypeOK', Reads, Within(Filling), Keeps, UNCHANGED <<txq, rxq, rxd, mem, stalled, host>>,
         main.pc = "r_next" <=> main'.pc = "r_next", main.pc = "r_sent" <=> main'.pc = "r_sent",
         main'.pc \in {"r_full", "store", "send"} =>
           mem[main.idx] = [tag |-> main.cmd.tag, i |-> main.i + 1],
         main'.pc \in {"store", "send"} => main'.pkt = [buf |-> main.idx, zlp |-> FALSE]
  PROVE  Reads'
<1> SUFFICES ASSUME Within(Filling)' PROVE Reads'
  BY DEF Reads, Filling
<1>1. PutSoFar' = PutSoFar /\ Unstalled' = Unstalled
  BY DEF PutSoFar, At, Keeps, Unstalled
<1> QED BY <1>1 DEF Reads, Keeps, OnItsWay, At, Filling

LEMMA ReadsStep ==
  ASSUME Sound, InCommand
  PROVE  Reads'
<1> USE SoundParts
<1> USE DEF Filling
<1> DEFINE Out == main'.pc \notin Filling /\ ~(main'.pc \in {"take", "store", "send"} /\ main'.back \in Filling)
<1>0. XTypeOK'
  BY MainTypesStep, HandlerTypesStep DEF InCommand, Handler
<1>n. /\ main.i \in Nat /\ host.i \in Nat /\ main.cmd.want \in Nat /\ main.idx \in 1..NBuf /\ main.idx \in 0..NBuf
      /\ txq \in Seq(PktRec) /\ main.pkt \in PktRec /\ Len(txq) \in Nat /\ NBuf \in Nat
      /\ mem \in [0..NBuf -> [tag : Nat, i : Nat]]
  <2>1. XTypeOK
    OBVIOUS
  <2>2. main.i \in Nat /\ host.i \in Nat /\ main.cmd.want \in Nat /\ main.idx \in 1..NBuf /\ main.pkt \in PktRec
    BY <2>1, Fields
  <2>3. NBuf \in Nat
    BY XAssumption
  <2>4. txq \in Seq(PktRec) /\ mem \in [0..NBuf -> [tag : Nat, i : Nat]]
    BY <2>1 DEF XTypeOK
  <2> QED BY <2>2, <2>3, <2>4
<1>1. CASE Out
  BY <1>1 DEF Reads, Within
<1>2. CASE NotReady \/ CheckReset
  <2>1. /\ main'.pc = main.pc /\ main'.back = main.back /\ main'.pkt = main.pkt /\ Keeps /\ main.pc \in Waiting
        /\ UNCHANGED <<txq, rxq, rxd, mem, host, stalled>>
    BY <1>2, Goes DEF NotReady, CheckReset, queues, shared
  <2>2. CASE Within(Filling)
    <3>1. main.pc = "r_full" => mem[main.idx] = [tag |-> main.cmd.tag, i |-> main.i + 1]
      BY <2>2 DEF Reads, At
    <3> QED BY <1>0, <2>1, <2>2, <3>1, ReadsKept DEF Waiting
  <2> QED BY <1>1, <2>1, <2>2 DEF Within
<1>3. CASE ReadWait
  <2>1. main.pc = "r_wait" /\ main'.pc = "r_fill" /\ Keeps /\ UNCHANGED <<txq, rxq, rxd, mem, host, stalled>>
    BY <1>3, Goes DEF ReadWait, At, queues, shared
  <2> QED BY <1>0, <2>1, ReadsKept DEF Within
<1>4. CASE ReadQueue
  <2>1. /\ main.pc = "r_full" /\ main'.pc = "store" /\ main'.pkt = [buf |-> main.idx, zlp |-> FALSE]
        /\ Keeps /\ UNCHANGED <<txq, rxq, rxd, mem, host, stalled>>
    BY <1>4, Goes DEF ReadQueue, At, queues, shared
  <2>2. mem[main.idx] = [tag |-> main.cmd.tag, i |-> main.i + 1]
    BY <2>1 DEF Reads, Within, At
  <2> QED BY <1>0, <2>1, <2>2, ReadsKept DEF Within
<1>5. CASE TxStore
  <2>1. /\ main.pc = "store" /\ main'.pc = "send" /\ main'.back = main.back /\ main'.pkt = main.pkt
        /\ Keeps /\ UNCHANGED <<txq, rxq, rxd, mem, host, stalled>>
    BY <1>5, Goes DEF TxStore, At, queues
  <2>2. CASE Within(Filling)
    <3>1. mem[main.idx] = [tag |-> main.cmd.tag, i |-> main.i + 1] /\ main.pkt = [buf |-> main.idx, zlp |-> FALSE]
      BY <2>1, <2>2 DEF Reads, At
    <3> QED BY <1>0, <2>1, <2>2, <3>1, ReadsKept
  <2> QED BY <1>1, <2>1, <2>2 DEF Within
<1>6. CASE TxSend
  <2>1. /\ main.pc = "send" /\ main'.pc = main.back /\ Keeps /\ UNCHANGED <<rxq, rxd, mem, host, stalled>>
        /\ txq' = Queued(txq, main.pkt)
    BY <1>6, Goes DEF TxSend, At, shared
  <2>2. CASE main.back # "r_next"
    BY <1>1, <2>1, <2>2 DEF Loaded, At
  <2>3. CASE main.back = "r_next"
    <3>0. Reads /\ Within(Filling) /\ PutSoFar = main.i
      BY <1>n, <2>1, <2>3 DEF Within, At, PutSoFar
    <3>1. main.pkt = [buf |-> main.idx, zlp |-> FALSE]
          /\ mem[main.idx] = [tag |-> main.cmd.tag, i |-> main.i + 1]
          /\ host.i + Len(txq) = main.i /\ main.i < main.cmd.want /\ main.stall = "none"
          /\ \A j \in 1..Len(txq) : OnItsWay(txq[j], host.i + j)
      BY <2>1, <3>0 DEF Reads, At
    <3>2. Len(txq) < 2
      <4>1. Len(txq) \in Nat
        BY DEF XTypeOK
      <4> QED BY <2>1, <4>1 DEF Accounted, At
    <3> DEFINE n == Len(txq)
    <3>3. txq' = Append(txq, main.pkt) /\ Len(txq') = n + 1 /\ n \in Nat
      <4>1. Queued(txq, main.pkt) = Append(txq, main.pkt)
        <5>1. txq \in Seq(PktRec) /\ main.pkt \in PktRec
          BY <1>n
        <5> QED BY <3>2, <5>1, QueuedType
      <4> QED BY <1>n, <2>1, <4>1
    <3>4. txq'[n + 1] = main.pkt /\ \A j \in 1..n : txq'[j] = txq[j]
      BY <1>n, <3>3
    <3>a. \A j \in 1..n : OnItsWay(txq[j], host.i + j)
      BY <3>1
    <3>b. host.i + n = main.i
      BY <3>1
    <3> HIDE DEF n
    <3>c. host.i + (n + 1) = main.i + 1
      <4>1. \A a, b, c \in Nat : a + b = c => a + (b + 1) = c + 1
        OBVIOUS
      <4>2. host.i \in Nat /\ n \in Nat /\ main.i \in Nat
        BY <1>n, <3>3
      <4>3. host.i + n = main.i => host.i + (n + 1) = main.i + 1
        BY <4>1, <4>2
      <4> QED BY <3>b, <4>3
    <3>5. ASSUME NEW j \in 1..n + 1
          PROVE  /\ txq'[j].buf \in 1..NBuf /\ ~txq'[j].zlp
                 /\ mem'[txq'[j].buf] = [tag |-> main'.cmd.tag, i |-> host'.i + j]
      <4>1. CASE j = n + 1
        <5>1. host.i + j = main.i + 1
          BY <3>c, <4>1
        <5>2. main.pkt.buf = main.idx /\ ~main.pkt.zlp
          BY <3>1
        <5> QED BY <1>n, <2>1, <3>1, <3>4, <4>1, <5>1, <5>2 DEF Keeps
      <4>2. CASE j \in 1..n
        BY <2>1, <3>a, <3>4, <4>2 DEF OnItsWay, Keeps
      <4> QED BY <3>3, <4>1, <4>2
    <3>6. txq'[Len(txq')].buf = main.idx
      BY <3>1, <3>3, <3>4
    <3>7. host.i + Len(txq') = main.i + 1
      BY <3>c, <3>3
    <3>8. \A j \in 1..Len(txq') : /\ txq'[j].buf \in 1..NBuf /\ ~txq'[j].zlp
                                  /\ mem'[txq'[j].buf] = [tag |-> main'.cmd.tag, i |-> host'.i + j]
      BY <3>3, <3>5
    <3> QED BY <2>1, <2>3, <3>0, <3>1, <3>8, <3>6, <3>7 DEF Reads, Keeps, At, PutSoFar, Unstalled, Within, OnItsWay
  <2> QED BY <2>2, <2>3
<1>7. CASE Fill
  <2>1. /\ main.pc = "r_fill" /\ UNCHANGED <<txq, rxq, rxd, host, stalled>>
        /\ \/ /\ main'.pc = "r_full" /\ Keeps
              /\ mem' = [mem EXCEPT ![main.idx] = [tag |-> main.cmd.tag, i |-> main.i + 1]]
           \/ /\ main'.pc = "r_sent" /\ main'.stall = "in" /\ mem' = mem /\ main'.cmd = main.cmd
              /\ main'.i = main.i /\ main'.idx = main.idx
    BY <1>7, GoesOn DEF Fill, At, queues, shared
  <2>2. Reads /\ Within(Filling) /\ main.i < main.cmd.want
    BY <2>1 DEF Reads, Within, At
  <2>3. CASE main'.pc = "r_full"
    <3>1. mem'[main.idx] = [tag |-> main.cmd.tag, i |-> main.i + 1] /\ main.idx \in 0..NBuf
          /\ \A b \in 0..NBuf : b # main.idx => mem'[b] = mem[b]
      BY <1>n, <2>1, <2>3
    <3>2. Len(txq) <= 1 /\ Len(txq) \in Nat
      BY <2>1 DEF Accounted, At, XTypeOK
    <3>3. ASSUME NEW j \in 1..Len(txq) PROVE OnItsWay(txq[j], host.i + j)'
      <4>1. OnItsWay(txq[j], host.i + j) /\ j = Len(txq) /\ txq # <<>>
        BY <2>2, <3>2, <3>3 DEF Reads
      <4>2. main.idx = NextBuffer(txq[j].buf) /\ txq[j].buf \in 1..NBuf
        BY <2>1, <2>2, <4>1 DEF Reads, At, OnItsWay
      <4>3. txq[j].buf # main.idx /\ txq[j].buf \in 0..NBuf
        BY <4>2, NextBufferType
      <4> QED BY <2>1, <2>3, <3>1, <4>1, <4>3 DEF OnItsWay, Keeps
    <3>4. Unstalled' = Unstalled /\ PutSoFar' = PutSoFar
      BY <2>1, <2>3 DEF Unstalled, PutSoFar, At, Keeps
    <3> QED BY <2>1, <2>2, <2>3, <3>1, <3>3, <3>4 DEF Reads, At, Keeps
  <2>4. CASE main'.pc = "r_sent"
    <3>1. Unstalled' = Unstalled /\ PutSoFar' = PutSoFar
      BY <2>1, <2>4 DEF Unstalled, PutSoFar, At
    <3> QED BY <2>1, <2>2, <2>4, <3>1 DEF Reads, At, OnItsWay
  <2> QED BY <2>1, <2>3, <2>4
<1>8. CASE ReadNext
  <2>1. /\ main.pc = "r_next" /\ UNCHANGED <<txq, rxq, rxd, host, stalled, mem>>
        /\ main'.i = main.i + 1 /\ main'.idx = NextBuffer(main.idx)
        /\ main'.pc = (IF main.i + 1 = main.cmd.want THEN "r_sent" ELSE "r_wait")
        /\ main'.cmd = main.cmd /\ main'.stall = main.stall
    BY <1>8, GoesOn DEF ReadNext, At, queues, shared
  <2>2. Reads /\ Within(Filling) /\ main.i < main.cmd.want /\ main.stall = "none"
    BY <2>1 DEF Reads, Within, At
  <2>3. Unstalled' = Unstalled /\ PutSoFar' = PutSoFar
    BY <2>1, Fields DEF Unstalled, PutSoFar, At
  <2>4. main'.pc # "r_sent" => main'.i < main.cmd.want
    BY <2>1, <2>2, Fields
  <2> QED BY <2>1, <2>2, <2>3, <2>4 DEF Reads, At, OnItsWay
<1>9. CASE Execute
  <2>1. CASE main'.pc = "r_wait"
    <3>1. main.pc = "exec" /\ Keeps /\ main.cmd.dir = "in" /\ UNCHANGED <<txq, rxq, rxd, host, stalled, mem>>
      BY <1>9, <2>1, GoesOn DEF Execute, At, queues, shared
    <3>2. /\ Fresh /\ rxq = <<>> /\ rxd.e = <<>> /\ Unstalled
          /\ host.cmd = main.cmd /\ host.i = 0 /\ host.phase = First(host.cmd)
      BY <3>1 DEF Listens, At
    <3>3. txq = <<>>
      BY <3>1, EmptyIn DEF Within
    <3>4. main.cmd.want > 0
      BY <3>1, <3>2 DEF Wanted
    <3> QED BY <2>1, <3>1, <3>2, <3>3, <3>4, Fields DEF Reads, Fresh, Keeps, First, At, PutSoFar, Unstalled
  <2>2. CASE main'.pc # "r_wait"
    BY <1>1, <1>9, <2>2, GoesOn
  <2> QED BY <2>1, <2>2
<1>10. CASE SendCbw \/ SendData \/ ClearHalt
  <2>1. /\ main' = main /\ (SendCbw => host.phase = "idle") /\ (SendData => host.phase = "out")
        /\ (ClearHalt => stalled.in \/ stalled.out)
    BY <1>10, Received DEF SendCbw, SendData, ClearHalt, core
  <2>2. CASE Within(Filling)
    BY <1>10, <2>1, <2>2 DEF Reads, Unstalled
  <2> QED BY <1>1, <2>1, <2>2 DEF Within
<1>11. CASE Take
  <2>1. /\ UNCHANGED <<main, mem, rxq, rxd, stalled>> /\ txq # <<>> /\ txq' = Tail(txq) /\ txq \in Seq(PktRec)
    BY <1>11 DEF Take, core, XTypeOK
  <2>2. CASE Within(Filling)
    <3>1. Reads /\ host.cmd = main.cmd /\ host.i + Len(txq) = PutSoFar /\ OnItsWay(txq[1], host.i + 1) /\ PutSoFar <= main.cmd.want
          /\ \A j \in 1..Len(txq) : OnItsWay(txq[j], host.i + j)
      <4>1. PutSoFar <= main.cmd.want
        BY <1>n, <2>2 DEF Reads, PutSoFar, At
      <4>2. 1 \in 1..Len(txq)
        BY <1>n, <2>1
      <4> QED BY <2>1, <2>2, <4>1, <4>2 DEF Reads
    <3>2. Len(txq) \in Nat /\ Len(txq) >= 1 /\ host.i < main.cmd.want /\ PutSoFar \in Nat
      <4>1. Len(txq) >= 1 /\ PutSoFar \in Nat
        BY <1>n, <2>1 DEF PutSoFar
      <4> QED BY <1>n, <3>1, <4>1
    <3>3. host.phase = "in" /\ IsData(Head(txq))
      <4>1. host.phase = "in"
        <5>1. host.phase = (IF host.i = main.cmd.want THEN "csw" ELSE "in")
          BY <2>2 DEF Reads
        <5>2. host.i # main.cmd.want
          <6>1. \A a, b \in Nat : a < b => a # b
            OBVIOUS
          <6> QED BY <1>n, <3>2, <6>1, Zenon
        <5> QED BY <5>1, <5>2
      <4> QED BY <1>n, <2>1, <3>1, <4>1 DEF OnItsWay, IsData, Short
    <3>4. host' = [host EXCEPT !.i = host.i + 1, !.phase = IF host.i + 1 = host.cmd.want THEN "csw" ELSE "in"]
      BY <1>11, <3>3 DEF Take, IsData, Short
    <3>5. host'.i = host.i + 1 /\ host'.phase = (IF host.i + 1 = host.cmd.want THEN "csw" ELSE "in") /\ host'.cmd = host.cmd
      BY <3>4 DEF XTypeOK, HostRec
    <3> DEFINE n == Len(txq)
    <3>6. Len(txq') = n - 1 /\ \A j \in 1..n - 1 : txq'[j] = txq[j + 1]
      BY <2>1, Tails
    <3>a. n \in Nat /\ n >= 1 /\ host.i + n = PutSoFar /\ \A j \in 1..n : OnItsWay(txq[j], host.i + j)
      BY <3>1, <3>2
    <3> HIDE DEF n
    <3>7. ASSUME NEW j \in 1..n - 1
          PROVE  /\ txq'[j].buf \in 1..NBuf /\ ~txq'[j].zlp
                 /\ mem'[txq'[j].buf] = [tag |-> main'.cmd.tag, i |-> host'.i + j]
      <4>1. j + 1 \in 1..n /\ host'.i + j = host.i + (j + 1) /\ txq'[j] = txq[j + 1]
        <5>1. j + 1 \in 1..n /\ txq'[j] = txq[j + 1] /\ j \in Nat
          BY <3>a, <3>6
        <5>2. \A a, b \in Nat : (a + 1) + b = a + (b + 1)
          OBVIOUS
        <5>3. (host.i + 1) + j = host.i + (j + 1)
          BY <1>n, <5>1, <5>2, Zenon
        <5> QED BY <3>5, <5>1, <5>3
      <4>2. OnItsWay(txq[j + 1], host.i + (j + 1))
        BY <3>a, <4>1
      <4> QED BY <2>1, <4>1, <4>2 DEF OnItsWay
    <3>b. \A j \in 1..Len(txq') : /\ txq'[j].buf \in 1..NBuf /\ ~txq'[j].zlp
                                  /\ mem'[txq'[j].buf] = [tag |-> main'.cmd.tag, i |-> host'.i + j]
      BY <3>6, <3>7
    <3>8. txq' # <<>> => txq'[Len(txq')] = txq[Len(txq)]
      <4>1. txq' # <<>> => Len(txq') >= 1
        BY <1>0 DEF XTypeOK
      <4> QED BY <3>2, <3>6, <4>1 DEF n
    <3>9. host'.i + Len(txq') = PutSoFar'
      <4>1. PutSoFar' = PutSoFar
        BY <2>1 DEF PutSoFar, At
      <4> QED BY <1>n, <3>a, <3>5, <3>6, <4>1
    <3>c. txq' # <<>> => txq # <<>>
      BY <2>1
    <3> QED BY <2>1, <2>2, <3>1, <3>5, <3>8, <3>9, <3>b, <3>c DEF Reads, At, Unstalled, OnItsWay
  <2> QED BY <1>1, <2>1, <2>2 DEF Within
<1>12. CASE ArmCbw \/ RxLoad \/ ShortEnd \/ Status \/ ReadSent \/ AllArmed \/ ShortSent \/ Drop \/ StallOut \/ Cleared \/ StatusSent \/ BadCbw
  BY <1>1, <1>12, Goes
<1>13. CASE RxStore \/ Arm \/ PushChunk \/ Ended
  BY <1>1, <1>13, GoesOn
<1>14. ~Dead
  BY Goes
<1> QED BY <1>2, <1>3, <1>4, <1>5, <1>6, <1>7, <1>8, <1>9, <1>10, <1>11, <1>12, <1>13, <1>14 DEF InCommand, Main

Writing == {"w_arm", "w_wait", "w_push"}

(* What is known of a WRITE, by the variables it reads.                     *)
LEMMA WritesKept ==
  ASSUME Writes, Within(Writing), Keeps, UNCHANGED <<rxq, rxd, stalled, host>>,
         main.pc = "w_push" <=> main'.pc = "w_push", main'.pc = "w_push" => main'.e = main.e,
         main'.pc = "w_arm" \/ main.i < main.cmd.want
  PROVE  Writes'
<1>1. TakenSoFar' = TakenSoFar /\ Unstalled' = Unstalled /\ AllData(rxq)' = AllData(rxq)
  BY DEF TakenSoFar, At, Keeps, Unstalled, AllData
<1> QED BY <1>1 DEF Writes, Keeps, At, Writing

LEMMA WriteNumbers ==
  ASSUME XTypeOK, Writes, Within(Writing)
  PROVE  /\ host.i \in Nat /\ Len(rxd.e) \in Nat /\ Len(rxq) \in Nat /\ main.fly \in Int /\ main.armed \in Nat
         /\ main.i \in Nat /\ main.cmd.want \in Nat /\ TakenSoFar \in Nat
         /\ host.i = TakenSoFar + Len(rxd.e) /\ main.armed = host.i + Len(rxq) /\ main.fly = main.armed - TakenSoFar
         /\ main.armed <= main.cmd.want /\ main.fly <= 2 /\ host.i <= main.cmd.want
         /\ host.i <= main.armed /\ Len(rxq) <= main.fly
<1>1. /\ host.i \in Nat /\ main.fly \in Int /\ main.armed \in Nat /\ main.i \in Nat /\ main.cmd.want \in Nat
      /\ rxd.e \in Seq(EventRec) /\ rxq \in Seq({"cbw", "data"})
  BY Fields DEF XTypeOK
<1>2. TakenSoFar \in Nat /\ Len(rxd.e) \in Nat /\ Len(rxq) \in Nat
  BY <1>1 DEF TakenSoFar
<1>3. /\ host.i = TakenSoFar + Len(rxd.e) /\ main.armed = host.i + Len(rxq) /\ main.fly = main.armed - TakenSoFar
      /\ main.armed <= main.cmd.want /\ main.fly <= 2
  BY DEF Writes, Writing, Depth
<1>4. \A h, t, e, q, a, w \in Nat : h = t + e /\ a = h + q /\ a <= w => h <= w /\ h <= a /\ q <= a - t
  OBVIOUS
<1> QED BY <1>1, <1>2, <1>3, <1>4

LEMMA WritesStep ==
  ASSUME Sound, InCommand
  PROVE  Writes'
<1> USE SoundParts
<1> USE DEF Writing
<1> DEFINE Out == main'.pc \notin Writing /\ ~(main'.pc \in {"take", "store", "send"} /\ main'.back \in Writing)
<1>0. XTypeOK'
  BY MainTypesStep, HandlerTypesStep DEF InCommand, Handler
<1>1. CASE Out
  BY <1>1 DEF Writes, Within
<1>2. CASE NotReady \/ CheckReset
  <2>1. /\ main'.pc = main.pc /\ main'.back = main.back /\ main'.e = main.e /\ Keeps /\ main.pc \in Waiting
        /\ UNCHANGED <<rxq, rxd, host, stalled>>
    BY <1>2, Goes DEF NotReady, CheckReset, queues, shared
  <2>2. CASE Within(Writing)
    <3>1. main.pc = "w_arm" \/ main.i < main.cmd.want
      BY <2>2 DEF Writes, At
    <3> QED BY <2>1, <2>2, <3>1, WritesKept
  <2> QED BY <1>1, <2>1, <2>2 DEF Within
<1>3. CASE AllArmed
  <2>1. /\ main.pc = "w_arm" /\ Keeps /\ main'.pc = (IF main.i < main.cmd.want THEN "w_wait" ELSE "ended")
        /\ UNCHANGED <<rxq, rxd, host, stalled>>
    BY <1>3, Goes DEF AllArmed, At, queues, shared
  <2>2. CASE main.i < main.cmd.want
    <3>1. Within(Writing)
      BY <2>1 DEF Within
    <3> QED BY <2>1, <2>2, <3>1, WritesKept
  <2> QED BY <1>1, <2>1, <2>2
<1>4. CASE RxLoad
  <2>1. /\ main.pc \in {"cbw", "w_wait"} /\ main'.pc = "take" /\ main'.back = main.pc /\ Keeps
        /\ UNCHANGED <<rxq, rxd, host, stalled>>
    BY <1>4, Goes DEF RxLoad, queues, shared
  <2>2. CASE main.pc = "w_wait"
    <3>1. Within(Writing) /\ main.i < main.cmd.want
      BY <2>2 DEF Writes, Within, At
    <3> QED BY <2>1, <2>2, <3>1, WritesKept
  <2> QED BY <1>1, <2>1, <2>2
<1>5. CASE RxStore
  <2>1. /\ main.pc = "take" /\ main.e = rxd.e[1] /\ rxd.e # <<>> /\ rxd.e \in Seq(EventRec)
        /\ rxd'.e = Tail(rxd.e) /\ UNCHANGED <<rxq, host, stalled>>
    BY <1>5, GoesOn, Fields DEF RxStore, AfterTake, queues, Loaded, At
  <2>2. CASE main.back = "w_wait"
    <3>1. Within(Writing) /\ TakenSoFar = main.i /\ main.i < main.cmd.want
      <4>1. main.i \in Nat
        BY Fields
      <4> QED BY <2>1, <2>2, <4>1 DEF Writes, Within, TakenSoFar, At
    <3>2. main.e = Got("data", main.cmd, main.i + 1)
      BY <2>1, <3>1 DEF Writes
    <3>3. main.e.kind # "cbw"
      BY <3>2 DEF Got
    <3>4. /\ main'.pc = "w_push" /\ main'.fly = main.fly - 1 /\ main'.e = main.e /\ main'.cmd = main.cmd
          /\ main'.i = main.i /\ main'.armed = main.armed /\ main'.stall = main.stall
      BY <1>5, <2>2, <3>3, GoesOn
    <3>5. TakenSoFar' = main.i + 1
      BY <3>4 DEF TakenSoFar, At
    <3>6. Len(rxd'.e) = Len(rxd.e) - 1 /\ \A j \in 1..Len(rxd.e) - 1 : rxd'.e[j] = rxd.e[j + 1]
      BY <2>1, Tails
    <3> DEFINE t == main.i
               m == Len(rxd.e)
    <3>7. \A j \in 1..m : rxd.e[j] = Got("data", main.cmd, t + j)
      BY <3>1 DEF Writes
    <3>8. m \in Nat /\ t \in Nat /\ host.i = t + m /\ main.fly = main.armed - t /\ main.fly <= 2 /\ main.armed \in Nat /\ host.i \in Nat
      BY <3>1, WriteNumbers
    <3> HIDE DEF t, m
    <3>9. \A j \in 1..m - 1 : rxd'.e[j] = Got("data", main'.cmd, (t + 1) + j)
      <4> TAKE j \in 1..m - 1
      <4>1. j + 1 \in 1..m /\ rxd'.e[j] = rxd.e[j + 1] /\ t + (j + 1) = (t + 1) + j
        BY <3>6, <3>8 DEF m
      <4>2. rxd.e[j + 1] = Got("data", main.cmd, t + (j + 1))
        BY <3>7, <4>1
      <4> QED BY <3>4, <4>1, <4>2
    <3>a. host.i = (t + 1) + (m - 1) /\ main.fly - 1 = main.armed - (t + 1) /\ main.fly - 1 <= 2
      BY <3>8
    <3>b. /\ Unstalled' /\ host'.cmd = main'.cmd /\ main'.cmd.dir = "out" /\ main'.stall = "none"
          /\ host'.phase = (IF host'.i = main'.cmd.want THEN "csw" ELSE "out") /\ AllData(rxq')
          /\ main'.armed = host'.i + Len(rxq') /\ main'.armed <= main'.cmd.want
      BY <2>1, <3>1, <3>4 DEF Writes, Unstalled
    <3>c. host'.i = TakenSoFar' + Len(rxd'.e) /\ main'.fly = main'.armed - TakenSoFar' /\ main'.fly <= Depth
      BY <2>1, <3>4, <3>5, <3>6, <3>a DEF t, m, Depth
    <3>d. \A j \in 1..Len(rxd'.e) : rxd'.e[j] = Got("data", main'.cmd, TakenSoFar' + j)
      BY <3>5, <3>6, <3>9 DEF t, m
    <3>e. main'.i < main'.cmd.want /\ main'.e = Got("data", main'.cmd, main'.i + 1)
      BY <3>1, <3>2, <3>4
    <3> QED BY <3>b, <3>c, <3>d, <3>e DEF Writes
  <2>3. CASE main.back # "w_wait"
    <3>1. main'.pc \in {"exec", "bad"}
      BY <1>5, <2>3, GoesOn
    <3> QED BY <1>1, <3>1
  <2> QED BY <2>2, <2>3
<1>6. CASE Arm
  <2>1. /\ main.pc = "w_arm" /\ MayArm /\ main'.pc = "w_arm" /\ main'.armed = main.armed + 1
        /\ main'.fly = main.fly + 1 /\ main'.cmd = main.cmd /\ main'.i = main.i /\ main'.stall = main.stall
        /\ UNCHANGED <<rxd, host, stalled>> /\ rxq' = Queued(rxq, "data")
    BY <1>6, GoesOn DEF Arm, At, shared
  <2>2. Within(Writing) /\ TakenSoFar = TakenSoFar'
    BY <2>1 DEF Within, TakenSoFar, At
  <2>3. main.armed < main.cmd.want /\ main.fly < 2
    BY <2>1 DEF MayArm, Depth
  <2>4. rxq \in Seq({"cbw", "data"}) /\ "data" \in {"cbw", "data"}
    BY DEF XTypeOK
  <2> DEFINE q == Len(rxq)
             k == TakenSoFar
  <2>5. /\ q \in Nat /\ q < 2 /\ k \in Nat /\ main.armed \in Nat /\ main.fly \in Int /\ main.armed = host.i + q
        /\ main.fly = main.armed - k /\ main.cmd.want \in Nat /\ host.i \in Nat
    BY <2>2, <2>3, WriteNumbers
  <2>6. rxq' = Append(rxq, "data") /\ Len(rxq') = q + 1
    BY <2>1, <2>4, <2>5, QueuedType
  <2>7. AllData(rxq')
    <3>1. AllData(rxq)
      BY <2>2 DEF Writes
    <3> QED BY <2>4, <2>6, <3>1 DEF AllData
  <2> HIDE DEF q, k
  <2>8. main.armed + 1 = host.i + (q + 1) /\ main.fly + 1 = (main.armed + 1) - k /\ main.armed + 1 <= main.cmd.want /\ main.fly + 1 <= 2
    BY <2>3, <2>5
  <2>9. main'.armed = host'.i + Len(rxq') /\ main'.fly = main'.armed - TakenSoFar' /\ main'.armed <= main'.cmd.want /\ main'.fly <= Depth
    BY <2>1, <2>2, <2>6, <2>8 DEF k, Depth
  <2>10. /\ Unstalled' /\ host'.cmd = main'.cmd /\ main'.cmd.dir = "out" /\ main'.stall = "none"
         /\ host'.phase = (IF host'.i = main'.cmd.want THEN "csw" ELSE "out")
         /\ host'.i = TakenSoFar' + Len(rxd'.e)
         /\ \A j \in 1..Len(rxd'.e) : rxd'.e[j] = Got("data", main'.cmd, TakenSoFar' + j)
    BY <2>1, <2>2 DEF Writes, Unstalled
  <2> QED BY <2>1, <2>7, <2>9, <2>10 DEF Writes, At
<1>7. CASE PushChunk
  <2>1. /\ main.pc = "w_push" /\ main'.i = main.i + 1 /\ main'.cmd = main.cmd
        /\ main'.armed = main.armed /\ main'.fly = main.fly /\ UNCHANGED <<rxd, rxq, host, stalled>>
        /\ (main'.pc = "w_arm" /\ main'.stall = main.stall) \/ main'.pc = "ended"
    BY <1>7, GoesOn DEF PushChunk, At, queues, shared
  <2>2. CASE main'.pc = "w_arm"
    <3>1. Within(Writing) /\ TakenSoFar = main.i + 1
      BY <2>1 DEF Within, TakenSoFar, At
    <3>2. TakenSoFar' = main.i + 1
      <4>1. main.i + 1 \in Nat
        BY Fields
      <4> QED BY <2>1, <2>2, <4>1 DEF TakenSoFar, At
    <3> QED BY <2>1, <2>2, <3>1, <3>2 DEF Writes, Unstalled, At
  <2> QED BY <1>1, <2>1, <2>2
<1>8. CASE Execute
  <2>1. CASE main'.pc = "w_arm"
    <3>1. main.pc = "exec" /\ Keeps /\ main.cmd.dir = "out" /\ UNCHANGED <<rxq, rxd, host, stalled>>
      BY <1>8, <2>1, GoesOn DEF Execute, At, queues, shared
    <3>2. /\ Fresh /\ rxq = <<>> /\ rxd.e = <<>> /\ Unstalled
          /\ host.cmd = main.cmd /\ host.i = 0 /\ host.phase = First(host.cmd)
      BY <3>1 DEF Listens, At
    <3>3. main.cmd.want > 0 /\ main.cmd.want \in Nat
      BY <3>1, <3>2, Fields DEF Wanted
    <3>4. TakenSoFar' = 0
      BY <2>1, <3>1, <3>2 DEF TakenSoFar, At, Fresh, Keeps
    <3> QED BY <2>1, <3>1, <3>2, <3>3, <3>4 DEF Writes, Fresh, Keeps, First, At, Unstalled, AllData, Depth
  <2>2. CASE main'.pc # "w_arm"
    BY <1>1, <1>8, <2>2, GoesOn
  <2> QED BY <2>1, <2>2
<1>9. CASE SendCbw \/ ClearHalt
  <2>1. /\ main' = main /\ (SendCbw => host.phase = "idle") /\ (ClearHalt => stalled.in \/ stalled.out)
    BY <1>9, Received DEF SendCbw, ClearHalt, core
  <2>2. CASE Within(Writing)
    BY <1>9, <2>1, <2>2 DEF Writes, Unstalled
  <2> QED BY <1>1, <2>1, <2>2 DEF Within
<1>10. CASE Take
  <2>1. main' = main /\ txq # <<>>
    BY <1>10 DEF Take, core
  <2>2. ~Within(Writing)
    <3>1. Within(Writing) => main.pc \in {"w_arm", "w_wait", "w_push", "take"} /\ (main.pc = "take" => main.back = "w_wait")
      BY DEF Within, Loaded, At
    <3> QED BY <2>1, <3>1, EmptyIn DEF Within
  <2> QED BY <1>1, <2>1, <2>2 DEF Within
<1>11. CASE SendData
  <2> DEFINE got == Got(IF Head(rxq) = "data" THEN "data" ELSE "part", host.cmd, host.i + 1)
  <2>1. Reception(got) /\ host.phase = "out"
    BY <1>11 DEF SendData
  <2>2. CASE Within(Writing)
    <3>1. rxq # <<>> /\ AllData(rxq) /\ rxq \in Seq({"cbw", "data"}) /\ rxd.e \in Seq(EventRec)
      BY <2>1, <2>2, Received, Fields DEF Writes, XTypeOK
    <3>2. Head(rxq) = "data"
      <4>1. 1 \in 1..Len(rxq) /\ Head(rxq) = rxq[1]
        BY <3>1
      <4> QED BY <3>1, <4>1 DEF AllData
    <3>3. host' = [host EXCEPT !.i = host.i + 1, !.phase = IF host.i + 1 = host.cmd.want THEN "csw" ELSE "out"]
      BY <1>11, <3>2 DEF SendData
    <3>4. host'.i = host.i + 1 /\ host'.cmd = host.cmd /\ host'.phase = (IF host.i + 1 = host.cmd.want THEN "csw" ELSE "out")
      BY <3>3 DEF XTypeOK, HostRec
    <3>5. got = Got("data", host.cmd, host.i + 1)
      BY <3>2
    <3> HIDE DEF got
    <3>6. /\ rxq' = Tail(rxq) /\ rxd'.e = Append(rxd.e, got) /\ UNCHANGED <<main, stalled>>
      BY <2>1, Received
    <3> DEFINE m == Len(rxd.e)
               q == Len(rxq)
               k == TakenSoFar
    <3>7. /\ m \in Nat /\ q \in Nat /\ k \in Nat /\ host.i \in Nat /\ main.armed \in Nat
          /\ host.i = k + m /\ main.armed = host.i + q
      BY <2>2, WriteNumbers
    <3>8. Len(rxq') = q - 1 /\ (\A j \in 1..q - 1 : rxq'[j] = rxq[j + 1]) /\ q >= 1
      <4>1. Len(Tail(rxq)) = Len(rxq) - 1 /\ \A j \in 1..Len(rxq) - 1 : Tail(rxq)[j] = rxq[j + 1]
        BY <3>1, Tails
      <4>2. Len(rxq) >= 1
        BY <3>1
      <4> QED BY <3>6, <4>1, <4>2
    <3>9. Len(rxd'.e) = m + 1 /\ rxd'.e[m + 1] = got /\ \A j \in 1..m : rxd'.e[j] = rxd.e[j]
      BY <3>1, <3>6
    <3>a. (\A j \in 1..m : rxd.e[j] = Got("data", main.cmd, k + j)) /\ host.cmd = main.cmd
      BY <2>2 DEF Writes
    <3>b. \A j \in 1..q : rxq[j] = "data"
      BY <3>1 DEF AllData
    <3>c. TakenSoFar' = k
      BY <3>6 DEF TakenSoFar, At
    <3> HIDE DEF m, q, k
    <3>d. host.i + 1 = k + (m + 1) /\ main.armed = (host.i + 1) + (q - 1)
      BY <3>7, <3>8
    <3>e. \A j \in 1..m + 1 : rxd'.e[j] = Got("data", main'.cmd, k + j)
      <4> TAKE j \in 1..m + 1
      <4>1. CASE j = m + 1
        BY <3>5, <3>6, <3>9, <3>a, <3>d, <4>1
      <4>2. CASE j \in 1..m
        BY <3>6, <3>9, <3>a, <4>2
      <4> QED BY <3>7, <4>1, <4>2
    <3>f. AllData(rxq')
      <4>1. \A j \in 1..q - 1 : j + 1 \in 1..q
        BY <3>7
      <4> QED BY <3>8, <3>b, <4>1 DEF AllData
    <3>g. /\ Unstalled' /\ host'.cmd = main'.cmd /\ main'.cmd.dir = "out" /\ main'.stall = "none"
          /\ main'.fly = main'.armed - TakenSoFar' /\ main'.armed <= main'.cmd.want /\ main'.fly <= Depth
          /\ At("w_arm")' \/ main'.i < main'.cmd.want
          /\ At("w_push")' => main'.e = Got("data", main'.cmd, main'.i + 1)
      BY <2>2, <3>4, <3>6, <3>c DEF Writes, Unstalled, At, k
    <3>h. /\ host'.phase = (IF host'.i = main'.cmd.want THEN "csw" ELSE "out")
          /\ host'.i = TakenSoFar' + Len(rxd'.e) /\ main'.armed = host'.i + Len(rxq')
          /\ \A j \in 1..Len(rxd'.e) : rxd'.e[j] = Got("data", main'.cmd, TakenSoFar' + j)
      BY <3>4, <3>6, <3>8, <3>9, <3>a, <3>c, <3>d, <3>e
    <3> QED BY <3>f, <3>g, <3>h DEF Writes
  <2>3. main' = main
    BY <2>1, Received
  <2> QED BY <1>1, <2>2, <2>3 DEF Within
<1>12. CASE ArmCbw \/ ReadWait \/ ReadQueue \/ ShortEnd \/ Status \/ ReadSent \/ ShortSent \/ Drop \/ StallOut \/ Cleared
            \/ StatusSent \/ BadCbw \/ TxStore
  BY <1>1, <1>12, Goes DEF Loaded, At
<1>13. CASE TxSend
  <2>1. main'.pc \in {"r_next", "zlp_sent", "csw_sent"}
    BY <1>13, Goes DEF Loaded, At
  <2> QED BY <1>1, <2>1
<1>14. CASE Fill \/ ReadNext \/ Ended
  BY <1>1, <1>14, GoesOn
<1>15. ~Dead
  BY Goes
<1> QED BY <1>2, <1>3, <1>4, <1>5, <1>6, <1>7, <1>8, <1>9, <1>10, <1>11, <1>12, <1>13, <1>14, <1>15 DEF InCommand, Main

(* What the host sends in the data phase meets a buffer armed for data.     *)
LEMMA SendsData ==
  ASSUME Sound, host.phase = "out", rxq # <<>>
  PROVE  AllData(rxq) /\ Head(rxq) = "data" /\ AllData(Tail(rxq))
<1> USE SoundParts
<1>1. AllData(rxq)
  <2>1. main.pc \in Places /\ (main.pc = "take" => main.back \in {"cbw", "w_wait"})
        /\ (main.pc \in {"store", "send"} => main.back \in {"r_next", "zlp_sent", "csw_sent"})
    <3>1. XTypeOK /\ Loaded
      OBVIOUS
    <3> QED BY <3>1, Fields DEF Loaded, At
  <2>2. CASE main.pc \in {"top", "arm", "cbw", "bad", "dead", "exec"} \/ (main.pc = "take" /\ main.back = "cbw")
    BY <2>2 DEF Listens, Within, At
  <2>3. CASE Within({"r_wait", "r_fill", "r_full", "r_next", "r_sent"})
    BY <2>3 DEF Reads
  <2>4. CASE Within({"w_arm", "w_wait", "w_push"})
    BY <2>4 DEF Writes
  <2>5. CASE main.pc \in {"ended", "zlp", "zlp_sent", "drop", "stall", "cleared", "status", "csw_sent"}
             \/ (main.pc \in {"store", "send"} /\ main.back \in {"zlp_sent", "csw_sent"})
    BY <2>5 DEF Closes, Within, At
  <2> QED BY <2>1, <2>2, <2>3, <2>4, <2>5 DEF Places, Within
<1>2. rxq \in Seq({"cbw", "data"})
  BY DEF XTypeOK
<1>3. Head(rxq) = rxq[1] /\ 1 \in 1..Len(rxq)
  BY <1>2
<1>4. Len(Tail(rxq)) = Len(rxq) - 1 /\ \A j \in 1..Len(rxq) - 1 : Tail(rxq)[j] = rxq[j + 1]
  BY <1>2, Tails
<1>5. Len(rxq) \in Nat
  BY <1>2
<1>6. \A j \in 1..Len(rxq) - 1 : j + 1 \in 1..Len(rxq)
  BY <1>5
<1> QED BY <1>1, <1>3, <1>4, <1>6 DEF AllData

(* What the host takes is what it waits for.                                *)
LEMMA TakesRight ==
  ASSUME Sound, txq # <<>>, host.phase \in {"in", "csw"}
  PROVE  \/ Within({"r_wait", "r_fill", "r_full", "r_next", "r_sent"}) /\ host.phase = "in" /\ IsData(Head(txq))
         \/ At("zlp_sent") /\ host.phase = "in" /\ txq = <<NoPacket>>
         \/ At("csw_sent") /\ host.phase = "csw" /\ txq = <<[buf |-> 0, zlp |-> FALSE]>> /\ IsCsw(Head(txq))
<1> USE SoundParts
<1>1. Within({"r_wait", "r_fill", "r_full", "r_next", "r_sent", "zlp_sent", "csw_sent"})
  BY EmptyIn
<1>2. XTypeOK /\ Loaded
  OBVIOUS
<1>3. \/ Within({"r_wait", "r_fill", "r_full", "r_next", "r_sent"}) \/ Within({"zlp_sent"}) \/ Within({"csw_sent"})
  BY <1>1 DEF Within
<1>4. CASE Within({"r_wait", "r_fill", "r_full", "r_next", "r_sent"})
  <2>n. /\ main.i \in Nat /\ host.i \in Nat /\ main.cmd.want \in Nat /\ txq \in Seq(PktRec) /\ Len(txq) \in Nat
    BY <1>2, Fields DEF XTypeOK
  <2>1. 1 \in 1..Len(txq) /\ Len(txq) >= 1 /\ Head(txq) = txq[1]
    BY <2>n
  <2>2. /\ host.cmd = main.cmd /\ host.phase = (IF host.i = main.cmd.want THEN "csw" ELSE "in")
        /\ host.i + Len(txq) = PutSoFar /\ OnItsWay(txq[1], host.i + 1)
    BY <1>4, <2>1 DEF Reads
  <2>3. PutSoFar \in Nat /\ PutSoFar <= main.cmd.want
    BY <1>4, <2>n DEF Reads, PutSoFar, At
  <2>4. host.i # main.cmd.want
    <3>1. \A h, t, p, w \in Nat : h + t = p /\ p <= w /\ t >= 1 => h # w
      OBVIOUS
    <3>2. host.i + Len(txq) = PutSoFar /\ PutSoFar <= main.cmd.want /\ Len(txq) >= 1 => host.i # main.cmd.want
      BY <2>n, <2>3, <3>1
    <3> QED BY <2>1, <2>2, <2>3, <3>2
  <2>5. host.phase = "in"
    BY <2>2, <2>4
  <2>6. IsData(Head(txq))
    <3>1. NBuf \in Nat
      BY XAssumption
    <3> QED BY <2>1, <2>2, <3>1 DEF OnItsWay, IsData, Short
  <2> QED BY <1>4, <2>5, <2>6
<1>5. CASE Within({"zlp_sent"})
  BY <1>5 DEF Closes
<1>6. CASE Within({"csw_sent"})
  <2>1. At("csw_sent") /\ host.phase = "csw" /\ txq = <<[buf |-> 0, zlp |-> FALSE]>> /\ host.cmd = main.cmd
        /\ mem[0] = [tag |-> main.cmd.tag, i |-> 0]
    BY <1>6 DEF Closes
  <2>2. Head(txq) = [buf |-> 0, zlp |-> FALSE]
    BY <2>1
  <2> QED BY <2>1, <2>2 DEF IsCsw
<1> QED BY <1>3, <1>4, <1>5, <1>6

LEMMA OkStep ==
  ASSUME Sound, InCommand
  PROVE  host'.ok /\ rxd'.r = 0
<1> USE SoundParts
<1>1. CASE Main /\ ~Top
  <2>1. host' = host
    BY <1>1, Leaves
  <2>2. rxd' = rxd \/ rxd' = [e |-> Tail(rxd.e), r |-> 0] \/ rxd' = [e |-> <<>>, r |-> 0]
    BY <1>1, Leaves DEF RxStore, Drop, AfterTake
  <2> QED BY <2>1, <2>2
<1>2. CASE SendCbw
  <2>1. PICK dir \in {"none", "in", "out"}, n \in Want :
          LET c == [tag |-> host.issued + 1, dir |-> dir, want |-> IF dir = "none" THEN 0 ELSE n]
          IN /\ Reception(Got("cbw", c, 0))
             /\ host' = [host EXCEPT !.phase = IF dir = "none" THEN "csw" ELSE dir,
                                     !.cmd = c, !.i = 0, !.issued = host.issued + 1]
    BY <1>2 DEF SendCbw
  <2>2. host'.ok = host.ok
    BY <2>1 DEF XTypeOK, HostRec
  <2>3. \E got : Reception(got)
    BY <2>1
  <2> QED BY <2>2, <2>3, Received
<1>3. CASE SendData
  <2>1. host.phase = "out" /\ \E got : Reception(got)
    BY <1>3 DEF SendData
  <2>2. rxd'.r = 0 /\ rxq # <<>>
    BY <2>1, Received
  <2>3. Head(rxq) = "data"
    BY <2>1, <2>2, SendsData
  <2>4. host'.ok = host.ok
    BY <1>3, <2>3 DEF SendData, XTypeOK, HostRec
  <2> QED BY <2>2, <2>4
<1>4. CASE Take
  <2>1. txq # <<>> /\ host.phase \in {"in", "csw"} /\ rxd' = rxd
    BY <1>4 DEF Take
  <2>2. (host.phase = "in" /\ IsData(Head(txq))) \/ (host.phase = "in" /\ Head(txq).zlp) \/ (host.phase = "csw" /\ IsCsw(Head(txq)))
    BY <2>1, TakesRight DEF NoPacket
  <2>3. host'.ok = host.ok
    <3>1. CASE host.phase = "in" /\ IsData(Head(txq))
      BY <1>4, <3>1 DEF Take, IsData, Short, XTypeOK, HostRec
    <3>2. CASE host.phase = "in" /\ Head(txq).zlp
      BY <1>4, <3>2 DEF Take, IsData, Short, XTypeOK, HostRec
    <3>3. CASE host.phase = "csw" /\ IsCsw(Head(txq))
      BY <1>4, <3>3 DEF Take, IsCsw, XTypeOK, HostRec
    <3> QED BY <2>2, <3>1, <3>2, <3>3
  <2> QED BY <2>1, <2>3
<1>5. CASE ClearHalt
  BY <1>5 DEF ClearHalt, XTypeOK, HostRec
<1> QED BY <1>1, <1>2, <1>3, <1>4, <1>5 DEF InCommand

Closing == {"ended", "zlp", "zlp_sent", "drop", "stall", "cleared", "status", "csw_sent"}

(* What is known at the end of a command, by the variables it reads.        *)
LEMMA ClosesKept ==
  ASSUME Closes, UNCHANGED <<mem, rxq, txq, rxd, halted, stalled, host>>, main'.pc = main.pc, main'.back = main.back,
         main'.pkt = main.pkt, Keeps
  PROVE  Closes'
BY DEF Closes, Keeps, Within, At, Unstalled, AllData, Chunks

LEMMA ClosesStep ==
  ASSUME Sound, InCommand
  PROVE  Closes'
<1> USE SoundParts
<1> USE DEF Closing
<1> DEFINE Out == main'.pc \notin Closing /\ ~(main'.pc \in {"take", "store", "send"} /\ main'.back \in {"zlp_sent", "csw_sent"})
<1>n. XTypeOK /\ Loaded
  OBVIOUS
<1>0. XTypeOK'
  BY MainTypesStep, HandlerTypesStep DEF InCommand, Handler
<1>1. CASE Out
  BY <1>1 DEF Closes, Within, At
<1>2. CASE NotReady \/ CheckReset
  <2>1. /\ main'.pc = main.pc /\ main'.back = main.back /\ main'.pkt = main.pkt /\ Keeps
        /\ UNCHANGED <<mem, rxq, txq, rxd, halted, stalled, host>>
    BY <1>2, Goes DEF NotReady, CheckReset, queues, shared
  <2> QED BY <2>1, ClosesKept
<1>3. CASE RxStore
  <2>1. main'.pc # "ended"
    <3>1. At("take") /\ main.back \in {"cbw", "w_wait"} /\ main.e = rxd.e[1] /\ rxd.e # <<>> /\ rxd.e \in Seq(EventRec)
      BY <1>3, GoesOn, Fields DEF Loaded
    <3>2. CASE main.back = "w_wait"
      <4>1. rxd.e[1] = Got("data", main.cmd, TakenSoFar + 1)
        BY <3>1, <3>2 DEF Writes, Within, At
      <4>2. main.e.kind # "cbw"
        BY <3>1, <4>1 DEF Got
      <4> QED BY <1>3, <3>2, <4>2, GoesOn
    <3>3. CASE main.back = "cbw"
      BY <1>3, <3>3, GoesOn
    <3> QED BY <3>1, <3>2, <3>3
  <2> QED BY <1>1, <1>3, <2>1, GoesOn
<1>4. CASE Execute
  <2>1. CASE main'.pc = "ended"
    <3>1. main.pc = "exec" /\ main'.cmd = main.cmd /\ UNCHANGED <<rxq, rxd, host, stalled>>
          /\ \/ main.cmd.dir = "none" /\ main'.stall = main.stall
             \/ main.cmd.dir # "none" /\ main'.stall = main.cmd.dir
      BY <1>4, <2>1, GoesOn DEF Execute, At, queues, shared, Keeps
    <3>2. /\ Fresh /\ rxq = <<>> /\ rxd.e = <<>> /\ Unstalled
          /\ host.cmd = main.cmd /\ host.i = 0 /\ host.phase = First(host.cmd)
      BY <3>1 DEF Listens, At
    <3>3. main.cmd.dir \in {"none", "in", "out"}
      BY <1>n, Fields
    <3>4. AllData(rxq') /\ Chunks(rxd'.e)
      BY <3>1, <3>2 DEF AllData, Chunks
    <3> QED BY <2>1, <3>1, <3>2, <3>3, <3>4 DEF Closes, Within, At, Fresh, First, Unstalled
  <2>2. CASE main'.pc # "ended"
    BY <1>1, <1>4, <2>2, GoesOn
  <2> QED BY <2>1, <2>2
<1>5. CASE ReadSent
  <2>1. main.pc = "r_sent" /\ main'.pc = "ended" /\ Keeps /\ txo = 0 /\ UNCHANGED <<rxq, rxd, host, stalled>>
    BY <1>5, Goes DEF ReadSent, At, queues, shared
  <2>2. txq = <<>>
    BY <2>1, EmptyIn DEF At
  <2>3. /\ rxq = <<>> /\ rxd.e = <<>> /\ Unstalled /\ host.cmd = main.cmd
        /\ host.phase = (IF host.i = main.cmd.want THEN "csw" ELSE "in")
        /\ host.i + Len(txq) = PutSoFar
        /\ \/ main.stall = "none" /\ main.i = main.cmd.want
           \/ main.stall = "in" /\ main.i < main.cmd.want
    BY <2>1 DEF Reads, Within, At
  <2>4. main.i \in Nat /\ host.i \in Nat /\ main.cmd.want \in Nat
    BY <1>n, Fields
  <2>5. host.i = main.i
    BY <2>1, <2>2, <2>3, <2>4 DEF PutSoFar, At
  <2>6. (main.stall = "none" /\ host.phase = "csw") \/ (main.stall = "in" /\ host.phase = "in")
    <3>1. \A a, b \in Nat : a < b => a # b
      OBVIOUS
    <3>2. main.i < main.cmd.want => main.i # main.cmd.want
      BY <2>4, <3>1
    <3> QED BY <2>3, <2>5, <3>2
  <2> QED BY <2>1, <2>3, <2>6 DEF Closes, Within, At, Keeps, Unstalled
<1>6. CASE AllArmed
  <2>1. CASE main'.pc = "ended"
    <3>1. main.pc = "w_arm" /\ Keeps /\ ~(main.i < main.cmd.want) /\ UNCHANGED <<rxq, rxd, host, stalled>>
      BY <1>6, <2>1, Goes DEF AllArmed, At, queues, shared
    <3>2. Within(Writing) /\ TakenSoFar = main.i
      <4>1. main.i \in Nat
        BY <1>n, Fields
      <4> QED BY <3>1, <4>1 DEF Within, Writing, TakenSoFar, At
    <3>3. /\ host.i \in Nat /\ Len(rxd.e) \in Nat /\ Len(rxq) \in Nat /\ main.armed \in Nat /\ main.i \in Nat /\ main.cmd.want \in Nat
          /\ host.i = main.i + Len(rxd.e) /\ main.armed = host.i + Len(rxq) /\ main.armed <= main.cmd.want
      BY <3>2, WriteNumbers
    <3>4. \A h, i, e, a, q, w \in Nat : h = i + e /\ a = h + q /\ a <= w /\ ~(i < w) => e = 0 /\ q = 0 /\ h = w
      OBVIOUS
    <3>5. Len(rxd.e) = 0 /\ Len(rxq) = 0 /\ host.i = main.cmd.want
      BY <3>1, <3>3, <3>4
    <3>6. rxd.e = <<>> /\ rxq = <<>>
      <4>1. (\A s \in Seq(EventRec) : Len(s) = 0 => s = <<>>) /\ (\A s \in Seq({"cbw", "data"}) : Len(s) = 0 => s = <<>>)
        OBVIOUS
      <4>2. rxd.e \in Seq(EventRec) /\ rxq \in Seq({"cbw", "data"})
        BY <1>n, Fields DEF XTypeOK
      <4> QED BY <3>5, <4>1, <4>2
    <3>7. Unstalled /\ host.cmd = main.cmd /\ main.stall = "none" /\ host.phase = "csw"
      BY <3>2, <3>5 DEF Writes, Writing
    <3> QED BY <2>1, <3>1, <3>6, <3>7 DEF Closes, Within, At, Keeps, Unstalled
  <2>2. CASE main'.pc # "ended"
    BY <1>1, <1>6, <2>2, Goes
  <2> QED BY <2>1, <2>2
<1>7. CASE PushChunk
  <2>1. CASE main'.pc = "ended"
    <3>1. /\ main.pc = "w_push" /\ main'.cmd = main.cmd /\ UNCHANGED <<rxq, rxd, host, stalled>>
          /\ main'.stall = (IF main.i + 1 < main.cmd.want THEN "out" ELSE "none")
      BY <1>7, <2>1, GoesOn DEF PushChunk, At, queues, shared
    <3>2. Within(Writing) /\ TakenSoFar = main.i + 1
      BY <3>1 DEF Within, Writing, TakenSoFar, At
    <3>3. /\ host.i \in Nat /\ Len(rxd.e) \in Nat /\ Len(rxq) \in Nat /\ main.armed \in Nat /\ main.i \in Nat /\ main.cmd.want \in Nat
          /\ host.i = (main.i + 1) + Len(rxd.e) /\ main.armed = host.i + Len(rxq) /\ main.armed <= main.cmd.want
      BY <3>2, WriteNumbers
    <3>4. Unstalled /\ host.cmd = main.cmd /\ host.phase = (IF host.i = main.cmd.want THEN "csw" ELSE "out") /\ AllData(rxq)
          /\ \A j \in 1..Len(rxd.e) : rxd.e[j] = Got("data", main.cmd, TakenSoFar + j)
      BY <3>2 DEF Writes, Writing
    <3>5. AllData(rxq') /\ Chunks(rxd'.e)
      <4>1. \A j \in 1..Len(rxd.e) : rxd.e[j].kind = "data"
        <5>1. \A k, c, i : Got(k, c, i).kind = k
          BY DEF Got
        <5> QED BY <3>4, <5>1
      <4>2. Chunks(rxd.e)
        BY <4>1 DEF Chunks
      <4> QED BY <3>1, <3>4, <4>2 DEF AllData, Chunks
    <3>6. CASE main.i + 1 < main.cmd.want
      BY <2>1, <3>1, <3>4, <3>5, <3>6 DEF Closes, Within, At, Unstalled
    <3>7. CASE ~(main.i + 1 < main.cmd.want)
      <4>1. \A h, i, e, a, q, w \in Nat : h = (i + 1) + e /\ a = h + q /\ a <= w /\ ~(i + 1 < w) => e = 0 /\ q = 0 /\ h = w
        OBVIOUS
      <4>2. Len(rxd.e) = 0 /\ Len(rxq) = 0 /\ host.i = main.cmd.want
        <5>1. /\ host.i = (main.i + 1) + Len(rxd.e) /\ main.armed = host.i + Len(rxq) /\ main.armed <= main.cmd.want
                 /\ ~(main.i + 1 < main.cmd.want)
              => Len(rxd.e) = 0 /\ Len(rxq) = 0 /\ host.i = main.cmd.want
          BY <3>3, <4>1
        <5> QED BY <3>3, <3>7, <5>1
      <4>3. rxd.e = <<>> /\ rxq = <<>>
        <5>1. (\A s \in Seq(EventRec) : Len(s) = 0 => s = <<>>) /\ (\A s \in Seq({"cbw", "data"}) : Len(s) = 0 => s = <<>>)
          OBVIOUS
        <5>2. rxd.e \in Seq(EventRec) /\ rxq \in Seq({"cbw", "data"})
          BY <1>n, Fields DEF XTypeOK
        <5> QED BY <4>2, <5>1, <5>2
      <4> QED BY <2>1, <3>1, <3>4, <3>7, <4>2, <4>3 DEF Closes, Within, At, Unstalled
    <3> QED BY <3>6, <3>7
  <2>2. CASE main'.pc # "ended"
    BY <1>1, <1>7, <2>2, GoesOn
  <2> QED BY <2>1, <2>2
<1>8. CASE Ended
  <2>1. /\ main.pc = "ended" /\ Keeps /\ UNCHANGED <<mem, rxq, txq, rxd, halted, stalled, host>>
        /\ \/ main.stall = "in" /\ main'.pc = "zlp"
           \/ main.stall = "out" /\ main'.pc = "drop"
           \/ main.stall = "none" /\ main'.pc = "status"
    BY <1>8, GoesOn DEF Ended, At, queues, shared
  <2>2. txq = <<>>
    BY <2>1, EmptyIn DEF Within, At
  <2>3. /\ host.cmd = main.cmd /\ Unstalled
        /\ \/ main.stall = "none" /\ host.phase = "csw" /\ rxq = <<>> /\ rxd.e = <<>>
           \/ main.stall = "in" /\ host.phase = "in" /\ rxq = <<>> /\ rxd.e = <<>>
           \/ main.stall = "out" /\ host.phase \in {"out", "csw"} /\ AllData(rxq) /\ Chunks(rxd.e)
    BY <2>1 DEF Closes, At
  <2>4. rxd.e = <<>> => Chunks(rxd.e)
    BY DEF Chunks
  <2> QED BY <2>1, <2>2, <2>3, <2>4 DEF Closes, Within, At, Keeps, Unstalled, AllData, Chunks
<1>9. CASE ShortEnd \/ Status
  <2>1. /\ main'.pc = "store" /\ Keeps /\ UNCHANGED <<rxq, txq, rxd, halted, stalled, host>>
        /\ \/ main.pc = "zlp" /\ main'.back = "zlp_sent" /\ main'.pkt = NoPacket
           \/ /\ main.pc = "status" /\ main'.back = "csw_sent" /\ main'.pkt = [buf |-> 0, zlp |-> FALSE]
              /\ mem' = [mem EXCEPT ![0] = [tag |-> main.cmd.tag, i |-> 0]]
    BY <1>9, Goes DEF ShortEnd, Status, At, queues, shared
  <2>2. main.pc = "status" => mem'[0] = [tag |-> main.cmd.tag, i |-> 0]
    <3>1. 0 \in 0..NBuf /\ mem \in [0..NBuf -> [tag : Nat, i : Nat]]
      BY <1>n, XAssumption DEF XTypeOK
    <3> QED BY <2>1, <3>1
  <2> QED BY <2>1, <2>2 DEF Closes, Within, At, Keeps, Unstalled, Chunks
<1>10. CASE TxStore
  <2>1. /\ main.pc = "store" /\ main'.pc = "send" /\ main'.back = main.back /\ main'.pkt = main.pkt
        /\ Keeps /\ UNCHANGED <<mem, txq, rxq, rxd, host, stalled, halted>>
    BY <1>10, Goes DEF TxStore, At, queues
  <2> QED BY <2>1 DEF Closes, Within, At, Keeps, Unstalled, Chunks
<1>11. CASE TxSend
  <2>1. /\ main.pc = "send" /\ main'.pc = main.back /\ Keeps /\ UNCHANGED <<mem, rxq, rxd, host, stalled, halted>>
        /\ txq' = Queued(txq, main.pkt) /\ main.back \in {"r_next", "zlp_sent", "csw_sent"}
    BY <1>11, Goes DEF TxSend, At, shared, Loaded
  <2>2. CASE main.back = "r_next"
    BY <1>1, <2>1, <2>2
  <2>3. CASE main.back # "r_next"
    <3>1. txq = <<>>
      BY <2>1, <2>3 DEF Accounted, At
    <3>2. txq' = <<main.pkt>>
      BY <2>1, <3>1 DEF Queued, Depth
    <3> QED BY <2>1, <2>3, <3>2 DEF Closes, Within, At, Keeps, Unstalled, Chunks
  <2> QED BY <2>2, <2>3
<1>12. CASE ShortSent
  <2>1. main.pc = "zlp_sent" /\ main'.pc = "status" /\ Keeps /\ txo = 0 /\ UNCHANGED <<txq, rxq, rxd, host, stalled>>
    BY <1>12, Goes DEF ShortSent, At, queues, shared
  <2>2. txq = <<>>
    BY <2>1, EmptyIn DEF At
  <2>3. host.cmd = main.cmd /\ Unstalled /\ rxq = <<>> /\ rxd.e = <<>> /\ host.phase = "csw"
    BY <2>1, <2>2 DEF Closes, Within, At
  <2> QED BY <2>1, <2>2, <2>3 DEF Closes, Within, At, Keeps, Unstalled, Chunks
<1>13. CASE Drop
  <2>1. main.pc = "drop" /\ main'.pc = "stall" /\ Keeps /\ UNCHANGED <<rxq, host, stalled>>
    BY <1>13, Goes DEF Drop, At, queues
  <2>2. rxd'.e = <<>> /\ halted'.out
    BY <1>13 DEF Drop, XTypeOK, Ends
  <2> QED BY <2>1, <2>2 DEF Closes, Within, At, Keeps, Unstalled, Chunks, AllData
<1>14. CASE StallOut
  <2>1. main.pc = "stall" /\ main'.pc = "cleared" /\ Keeps /\ UNCHANGED <<rxd, host, halted>> /\ rxq' = <<>>
    BY <1>14, Goes DEF StallOut, At, shared
  <2>2. stalled'.out /\ stalled'.in = stalled.in
    BY <1>14 DEF StallOut, XTypeOK, Ends
  <2> QED BY <2>1, <2>2 DEF Closes, Within, At, Keeps, Unstalled, Chunks
<1>15. CASE Cleared
  <2>1. main.pc = "cleared" /\ main'.pc = "status" /\ Keeps /\ ~halted.out /\ UNCHANGED <<rxq, txq, rxd, host, stalled>>
    BY <1>15, Goes DEF Cleared, At, queues, shared
  <2>2. txq = <<>>
    BY <2>1, EmptyIn DEF Within, At
  <2> QED BY <2>1, <2>2 DEF Closes, Within, At, Keeps, Unstalled, Chunks
<1>16. CASE SendCbw \/ SendData
  <2>1. PICK got : Reception(got)
    BY <1>16 DEF SendCbw, SendData
  <2>2. /\ rxq # <<>> /\ rxq' = Tail(rxq) /\ rxd'.e = Append(rxd.e, got) /\ UNCHANGED <<main, mem, txq, halted, stalled>>
    BY <2>1, Received
  <2>3. CASE ~Out
    <3>1. main.pc \in Closing \/ (main.pc \in {"store", "send"} /\ main.back \in {"zlp_sent", "csw_sent"})
      BY <2>2, <2>3 DEF Loaded, At
    <3>2. main.pc \in {"ended", "drop", "stall"} /\ host.phase # "idle"
      BY <2>2, <3>1 DEF Closes, Within, At
    <3>3. SendData /\ host.phase = "out"
      BY <1>16, <3>2 DEF SendCbw, SendData
    <3>4. Head(rxq) = "data" /\ AllData(Tail(rxq))
      BY <2>2, <3>3, SendsData
    <3>5. host'.cmd = host.cmd /\ host'.phase \in {"out", "csw"}
      BY <3>3, <3>4 DEF SendData, XTypeOK, HostRec
    <3>6. rxd'.e = Append(rxd.e, Got("data", host.cmd, host.i + 1))
      <4>1. Reception(Got(IF Head(rxq) = "data" THEN "data" ELSE "part", host.cmd, host.i + 1))
        BY <3>3 DEF SendData
      <4> QED BY <3>4, <4>1, Received
    <3>7. Chunks(rxd.e) => Chunks(rxd'.e)
      <4>1. rxd.e \in Seq(EventRec)
        BY <1>n, Fields
      <4>2. Got("data", host.cmd, host.i + 1).kind = "data"
        BY DEF Got
      <4> DEFINE g == Got("data", host.cmd, host.i + 1)
                 m == Len(rxd.e)
      <4>3. rxd'.e[m + 1] = g /\ Len(rxd'.e) = m + 1 /\ m \in Nat /\ \A j \in 1..m : rxd'.e[j] = rxd.e[j]
        BY <3>6, <4>1
      <4> HIDE DEF g
      <4>4. \A j \in 1..m + 1 : j \in 1..m \/ j = m + 1
        BY <4>3
      <4> QED BY <4>2, <4>3, <4>4 DEF Chunks, g
    <3> QED BY <2>2, <3>2, <3>3, <3>4, <3>5, <3>7 DEF Closes, Within, At, Unstalled
  <2> QED BY <1>1, <2>3
<1>17. CASE Take
  <2>1. txq # <<>> /\ host.phase \in {"in", "csw"} /\ txq' = Tail(txq) /\ UNCHANGED <<main, mem, rxq, rxd, halted, stalled>>
    BY <1>17 DEF Take, core
  <2>2. CASE Within({"r_wait", "r_fill", "r_full", "r_next", "r_sent"})
    <3>1. Out
      BY <2>1, <2>2 DEF Within
    <3> QED BY <1>1, <3>1
  <2>3. CASE At("zlp_sent") /\ host.phase = "in" /\ txq = <<NoPacket>>
    <3>1. Head(txq).zlp /\ txq' = <<>>
      BY <2>1, <2>3 DEF NoPacket
    <3>2. host'.phase = "csw" /\ host'.cmd = host.cmd
      BY <1>17, <2>3, <3>1 DEF Take, IsData, Short, XTypeOK, HostRec
    <3> QED BY <2>1, <2>3, <3>1, <3>2 DEF Closes, Within, At, Unstalled
  <2>4. CASE At("csw_sent") /\ host.phase = "csw" /\ txq = <<[buf |-> 0, zlp |-> FALSE]>> /\ IsCsw(Head(txq))
    <3>1. txq' = <<>>
      BY <2>1, <2>4
    <3>2. host'.phase = "idle" /\ host'.cmd = host.cmd
      BY <1>17, <2>4 DEF Take, XTypeOK, HostRec
    <3> QED BY <2>1, <2>4, <3>1, <3>2 DEF Closes, Within, At, Unstalled, Chunks
  <2> QED BY <2>1, <2>2, <2>3, <2>4, TakesRight
<1>18. CASE ClearHalt
  <2>1. UNCHANGED <<main, mem, rxq, txq, rxd>> /\ (stalled.in \/ stalled.out)
    BY <1>18 DEF ClearHalt, core, queues
  <2>2. CASE At("cleared")
    <3>1. ~stalled.in /\ host.phase = "out"
      BY <1>18, <2>1, <2>2 DEF Closes, ClearHalt
    <3>2. stalled' = [stalled EXCEPT !.out = FALSE] /\ halted' = [halted EXCEPT !.out = FALSE] /\ host' = [host EXCEPT !.phase = "csw"]
      BY <1>18, <3>1 DEF ClearHalt
    <3>3. stalled'.out = FALSE /\ halted'.out = FALSE /\ stalled'.in = stalled.in /\ host'.phase = "csw" /\ host'.cmd = host.cmd
      BY <3>2 DEF XTypeOK, Ends, HostRec
    <3> QED BY <2>1, <2>2, <3>1, <3>3 DEF Closes, Within, At, Chunks
  <2>3. CASE ~At("cleared")
    <3>1. Out
      BY <2>1, <2>3 DEF Closes, Within, At, Unstalled, Loaded
    <3> QED BY <1>1, <3>1
  <2> QED BY <2>2, <2>3
<1>19. CASE ArmCbw \/ RxLoad \/ ReadWait \/ ReadQueue \/ StatusSent \/ BadCbw
  BY <1>1, <1>19, Goes
<1>20. CASE Fill \/ ReadNext \/ Arm
  BY <1>1, <1>20, GoesOn
<1>21. ~Dead
  BY Goes
<1> QED BY <1>2, <1>3, <1>4, <1>5, <1>6, <1>7, <1>8, <1>9, <1>10, <1>11, <1>12, <1>13, <1>14, <1>15, <1>16, <1>17, <1>18,
  <1>19, <1>20, <1>21 DEF InCommand, Main

---------------------------------------------------------------------------
(* Together. *)

LEMMA SessionStep ==
  ASSUME XTypeOK, Loaded, Wanted, ~torn => Session, Next, ~torn'
  PROVE  Session'
<1>1. CASE Resets \/ SetConfiguration
  BY <1>1, ResetCleans, CleanSession
<1>2. CASE Main \/ SendCbw \/ SendData \/ Take \/ ClearHalt
  <2>1. torn' = torn /\ (Top \/ moved' = moved)
    <3>1. CASE Main /\ ~Top
      BY <3>1, Leaves
    <3>2. CASE Top \/ SendCbw \/ SendData \/ Take \/ ClearHalt
      BY <3>2 DEF Top, SendCbw, SendData, Reception, Take, ClearHalt, session
    <3> QED BY <1>2, <3>1, <3>2
  <2>2. Session
    BY <2>1
  <2>3. CASE moved
    BY <1>2, <2>2, <2>3, RestingStep
  <2>4. CASE ~moved
    <3>1. Sound
      BY <2>2, <2>4 DEF Sound, Loaded
    <3>2. CASE Top
      <4>1. main.pc = "top"
        BY <3>2 DEF Top, At
      <4>2. Listens /\ Accounted /\ rxd.r = 0 /\ host.ok
        BY <3>1, SoundParts
      <4>3. rxq = <<>> /\ host.phase = "idle" /\ Chunks(rxd.e)
        BY <4>1, <4>2 DEF Listens
      <4>4. txo = 0
        BY <4>1, <4>2 DEF Accounted, Within
      <4>5. txq = <<>>
        BY <4>1, <4>2, <4>4, EmptyIn DEF At
      <4> QED BY <3>2, <4>2, <4>3, <4>4, <4>5, TopSession
    <3>3. CASE ~Top
      <4>1. InCommand
        BY <1>2, <3>3 DEF InCommand
      <4>2. Accounted' /\ Listens' /\ Reads' /\ Writes' /\ Closes' /\ host'.ok /\ rxd'.r = 0
        BY <3>1, <4>1, SoundParts, AccountedStep, ListensStep, ReadsStep, WritesStep, ClosesStep, OkStep
      <4>3. ~moved'
        BY <2>1, <2>4, <3>3
      <4> QED BY <4>2, <4>3 DEF Session, Resting
    <3> QED BY <3>2, <3>3
  <2> QED BY <2>3, <2>4
<1> QED BY <1>1, <1>2 DEF Next, Handler

LEMMA XInvStep ==
  ASSUME XInv, [Next]_vars
  PROVE  XInv'
<1>1. CASE Next
  <2>1. XTypeOK /\ Loaded /\ Wanted /\ (~torn => Session)
    BY DEF XInv
  <2>2. XTypeOK'
    BY <1>1, <2>1, MainTypesStep, HandlerTypesStep DEF Next
  <2>3. Loaded' /\ Wanted'
    BY <1>1, <2>1, LoadedStep, WantedStep
  <2>4. ~torn' => Session'
    BY <1>1, <2>1, SessionStep
  <2> QED BY <2>2, <2>3, <2>4 DEF XInv
<1>2. CASE UNCHANGED vars
  <2>1. UNCHANGED <<main, mem, rxq, txq, rxd, txo, conf, moved, halted, stalled, host, torn>>
    BY <1>2 DEF vars, core, queues, shared, session
  <2>2. XTypeOK' = XTypeOK /\ Loaded' = Loaded /\ Wanted' = Wanted
    BY <2>1 DEF XTypeOK, Loaded, Wanted, At
  <2>3. Resting' = Resting /\ Accounted' = Accounted /\ Listens' = Listens
    BY <2>1 DEF Resting, Accounted, Listens, Within, At, Fresh, Chunks, Unstalled
  <2>4. Reads' = Reads /\ Writes' = Writes
    BY <2>1 DEF Reads, Writes, PutSoFar, TakenSoFar, OnItsWay, Within, At, Unstalled, AllData
  <2>5. Closes' = Closes
    BY <2>1 DEF Closes, Within, At, Unstalled, AllData, Chunks
  <2> QED BY <2>1, <2>2, <2>3, <2>4, <2>5 DEF XInv, Session
<1> QED BY <1>1, <1>2

LEMMA XInvInit ==
  ASSUME Init
  PROVE  XInv
<1>1. Idle \in MainRec /\ Idle.pc = "top" /\ ~Idle.tested
  BY XAssumption DEF Idle, MainRec, NoCmd, NoPacket, Got, Places, CmdRec, PktRec, EventRec
<1>2. NoCmd \in CmdRec /\ NoCmd.dir = "none"
  BY DEF NoCmd, CmdRec
<1>3. host \in HostRec /\ host.ok /\ host.phase = "idle" /\ host.cmd = NoCmd
  BY <1>2 DEF Init, HostRec
<1>4. /\ mem \in [0..NBuf -> [tag : Nat, i : Nat]] /\ rxq \in Seq({"cbw", "data"}) /\ txq \in Seq(PktRec)
      /\ rxd \in [e : Seq(EventRec), r : Nat] /\ halted \in Ends /\ stalled \in Ends
  BY DEF Init, Ends
<1>5. XTypeOK
  BY <1>1, <1>3, <1>4 DEF Init, XTypeOK
<1>6. Loaded /\ Wanted
  BY <1>1, <1>2, <1>3 DEF Init, Loaded, Wanted, At
<1>7. Session
  BY <1>1, <1>3 DEF Init, Session, Resting
<1> QED BY <1>5, <1>6, <1>7 DEF XInv

(* The inductive invariant, for any number of buffers of at least two, any   *)
(* lengths and any number of commands and resets.                            *)
THEOREM XInvariance == Spec => []XInv
BY XInvInit, XInvStep, PTL DEF Spec

(* What the host takes is what it waits for: the chunks of its READ in order *)
(* and not overwritten, then the status of its command.                      *)
THEOREM StaysInStep == Spec => []HostInStep
<1>1. XInv => HostInStep
  BY DEF XInv, Session, HostInStep
<1> QED BY <1>1, XInvariance, PTL

(* A WRITE hands the card the next chunk of this command: none of another,   *)
(* none the host sent before a reset.                                        *)
THEOREM PushesOwnData == Spec => []TakesOwn
<1>1. XInv => TakesOwn
  <2> SUFFICES ASSUME XInv, ~torn, At("w_push") PROVE main.e = Got("data", main.cmd, main.i + 1)
    BY DEF TakesOwn
  <2>1. Writes
    BY DEF XInv, Session, Resting, At
  <2> QED BY <2>1 DEF Writes, Within, At
<1> QED BY <1>1, XInvariance, PTL

(* Neither queue is ever asked to take a third entry, which it would drop    *)
(* without a word (usb_transport.h).                                         *)
THEOREM QueuesNeverFull == Spec => []NeverDropped
<1>1. XInv => NeverDropped
  <2> SUFFICES ASSUME XInv, ~torn
               PROVE  /\ At("send") => Len(txq) < Depth
                      /\ At("arm") \/ (At("w_arm") /\ MayArm) => Len(rxq) < Depth
    BY DEF NeverDropped
  <2>1. At("send") \/ At("arm") \/ At("w_arm") => Accounted /\ Listens /\ Writes
    BY DEF XInv, Session, Resting, At
  <2>2. XTypeOK
    BY DEF XInv
  <2>3. ASSUME At("send") PROVE Len(txq) < Depth
    <3>1. Len(txq) <= 1 /\ Len(txq) \in Nat
      BY <2>1, <2>2, <2>3 DEF Accounted, At, XTypeOK
    <3> QED BY <3>1 DEF Depth
  <2>4. ASSUME At("arm") PROVE Len(rxq) < Depth
    <3>1. rxq = <<>>
      BY <2>1, <2>4 DEF Listens, At
    <3> QED BY <3>1 DEF Depth
  <2>5. ASSUME At("w_arm"), MayArm PROVE Len(rxq) < Depth
    <3>1. Len(rxq) <= main.fly /\ Len(rxq) \in Nat /\ main.fly \in Int
      BY <2>1, <2>2, <2>5, WriteNumbers DEF Within, Writing, At
    <3> QED BY <2>5, <3>1 DEF MayArm, Depth
  <2> QED BY <2>3, <2>4, <2>5
<1> QED BY <1>1, XInvariance, PTL
=============================================================================
