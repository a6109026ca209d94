--------------------------- MODULE UsbFsHostProofs ---------------------------
(***************************************************************************)
(* The keyboard port, for any devices, keys and report size: when a device  *)
(* is enumerated, and that no press a report tells of is lost.             *)
(***************************************************************************)
EXTENDS UsbFsHost, TLAPS

Codes   == (SUBSET Keys) \cup {Rollover}                    \* what a report can be
PortRec == [id : Devices \cup {NoDevice}, en : BOOLEAN, addr : {0, 2}, set : BOOLEAN, tog : {0, 1},
            sent : SUBSET Keys, queue : Seq(Codes)]
DevRec  == [state : {"NONE", "KEYBOARD", "MOUSE", "OTHER", "FAILED"},
            cls : {"none", "keyboard", "mouse", "hub", "mute"}, addr : {0, 2}, tog : {0, 1}, prev : SUBSET Keys]
Places  == {"idle", "poll", "settle", "reset", "desc", "reset2", "addr", "config", "setcfg", "in"}

UTypeOK ==
  /\ port \in PortRec /\ dev \in DevRec /\ pc \in Places /\ down \in SUBSET Keys
  /\ fail \in [had : BOOLEAN, recent : BOOLEAN] /\ wb \in BOOLEAN /\ late \in BOOLEAN /\ due \in BOOLEAN
  /\ fed \in [Keys -> Nat] /\ told \in [Keys -> Nat]

Enumerating == pc \in {"settle", "reset", "desc", "reset2", "addr", "config", "setcfg"}

(* A pass that meets a new device has flushed, unless it came meanwhile.    *)
Flushed == (pc = "settle" \/ (pc = "poll" /\ Attached /\ dev.state = "NONE")) /\ wb => late

(* While the three seconds run, the device that failed is still in the port *)
(* and dev says so; an enumeration begins when they are over and an         *)
(* endpoint is polled of a device that did not fail.                        *)
Timed ==
  /\ ~due /\ Attached => fail.had /\ fail.recent /\ dev.state = "FAILED"
  /\ Enumerating => due
  /\ pc = "in" => dev.state \in {"KEYBOARD", "MOUSE"}

(* The session both sides mean: SET_CONFIGURATION succeeded since the last  *)
(* reset of the port, the keyboard has not gone since.                      *)
Linked == /\ pc \in {"idle", "poll", "in"} /\ Attached /\ port.set /\ port.en
          /\ dev.state = "KEYBOARD" /\ dev.addr = port.addr
Fresh  == Enumerating /\ pc # "settle" => dev.prev = {} /\ dev.tog = 0

(* The reports the driver has not handled: the first of the queue is        *)
(* handled already when only its acknowledgement was lost.                  *)
Ahead == IF InStep THEN port.queue ELSE Tail(port.queue)

(* Of a queue q after the report p, presses of key k that count: from f now *)
(* to at least t when all of q is handled.                                  *)
Before(q, p, i) == IF i = 1 THEN p ELSE KeysIn(q[i - 1])
Reaches(q, p, f, t, k) ==
  \E c \in [0..Len(q) -> Nat] :
    /\ c[0] = f /\ c[Len(q)] >= t
    /\ \A i \in 1..Len(q) : c[i] = c[i - 1] + (IF k \in KeysIn(q[i]) \ Before(q, p, i) THEN 1 ELSE 0)
Latest(q, p) == IF q = <<>> THEN p ELSE KeysIn(q[Len(q)])
Counts ==
  Linked => /\ InStep \/ port.queue # <<>>
            /\ Latest(Ahead, dev.prev) \subseteq port.sent
            /\ \A k \in Keys : Reaches(Ahead, dev.prev, fed[k], told[k], k)

UInv == UTypeOK /\ Flushed /\ Timed /\ Fresh /\ Counts

---------------------------------------------------------------------------
(* Operators. *)

LEMMA Fields ==
  ASSUME UTypeOK
  PROVE  /\ port.id \in Devices \cup {NoDevice} /\ port.en \in BOOLEAN /\ port.addr \in {0, 2}
         /\ port.set \in BOOLEAN /\ port.tog \in {0, 1} /\ port.sent \in SUBSET Keys /\ port.queue \in Seq(Codes)
         /\ dev.state \in {"NONE", "KEYBOARD", "MOUSE", "OTHER", "FAILED"}
         /\ dev.tog \in {0, 1} /\ dev.prev \in SUBSET Keys /\ dev.addr \in {0, 2}
         /\ fail.had \in BOOLEAN /\ fail.recent \in BOOLEAN
BY DEF UTypeOK, PortRec, DevRec

LEMMA Plugged == Empty \in PortRec /\ NoDev \in DevRec /\ ~Empty.set /\ ~Empty.en /\ NoDev.state = "NONE"
                 /\ NoDev.prev = {} /\ NoDev.tog = 0
BY DEF Empty, NoDev, PortRec, DevRec

LEMMA Counted ==
  ASSUME NEW f \in [Keys -> Nat], NEW S
  PROVE  /\ Count(f, S) \in [Keys -> Nat]
         /\ \A k \in Keys : Count(f, S)[k] = f[k] + (IF k \in S THEN 1 ELSE 0)
BY DEF Count

LEMMA Codings ==
  /\ \A S \in SUBSET Keys : Report(S) \in Codes /\ KeysIn(Report(S)) \subseteq S
  /\ \A r \in Codes : KeysIn(r) \in SUBSET Keys
  /\ KeysIn(Rollover) = {}
<1>1. ASSUME NEW r \in Codes PROVE KeysIn(r) \in SUBSET Keys
  <2>1. r \subseteq Keys \/ r = Rollover
    BY DEF Codes
  <2> QED BY <2>1 DEF KeysIn
<1>2. KeysIn(Rollover) = {}
  BY DEF KeysIn
<1>3. ASSUME NEW S \in SUBSET Keys PROVE Report(S) \in Codes /\ KeysIn(Report(S)) \subseteq S
  <2>1. Report(S) = Rollover \/ Report(S) = S
    BY DEF Report
  <2>2. KeysIn(S) \subseteq S
    BY DEF KeysIn
  <2>3. S \in Codes /\ Rollover \in Codes
    BY DEF Codes
  <2>4. KeysIn(Report(S)) \subseteq S
    BY <1>2, <2>1, <2>2
  <2> QED BY <2>1, <2>3, <2>4
<1> QED BY <1>1, <1>2, <1>3

(* The first report of the queue is handled. *)
LEMMA ReachesPop ==
  ASSUME NEW q \in Seq(Codes), q # <<>>, NEW p, NEW f \in Nat, NEW t \in Nat, NEW k, Reaches(q, p, f, t, k)
  PROVE  Reaches(Tail(q), KeysIn(q[1]), f + (IF k \in KeysIn(q[1]) \ p THEN 1 ELSE 0), t, k)
<1> DEFINE n == Len(q)
           d(i) == IF k \in KeysIn(q[i]) \ Before(q, p, i) THEN 1 ELSE 0
<1>1. PICK c \in [0..n -> Nat] : c[0] = f /\ c[n] >= t /\ \A i \in 1..n : c[i] = c[i - 1] + d(i)
  BY DEF Reaches
<1> DEFINE e == [i \in 0..n - 1 |-> c[i + 1]]
<1>2. n \in Nat /\ n >= 1 /\ Len(Tail(q)) = n - 1 /\ \A i \in 1..n - 1 : Tail(q)[i] = q[i + 1]
  OBVIOUS
<1> HIDE DEF n
<1>3. e \in [0..n - 1 -> Nat] /\ e[n - 1] = c[n]
  BY <1>1, <1>2
<1>4. e[0] = f + (IF k \in KeysIn(q[1]) \ p THEN 1 ELSE 0)
  <2>1. e[0] = c[1] /\ c[1] = c[0] + d(1)
    BY <1>1, <1>2
  <2> QED BY <1>1, <2>1 DEF Before
<1>5. ASSUME NEW i \in 1..n - 1
      PROVE  e[i] = e[i - 1] + (IF k \in KeysIn(Tail(q)[i]) \ Before(Tail(q), KeysIn(q[1]), i) THEN 1 ELSE 0)
  <2>1. i + 1 \in 1..n /\ e[i] = c[i + 1] /\ e[i - 1] = c[i] /\ c[i + 1] = c[i] + d(i + 1)
    BY <1>1, <1>2
  <2>2. Before(q, p, i + 1) = KeysIn(q[i])
    BY <1>2 DEF Before
  <2>3. Before(Tail(q), KeysIn(q[1]), i) = KeysIn(q[i])
    <3>1. CASE i = 1
      BY <3>1 DEF Before
    <3>2. CASE i # 1
      BY <1>2, <3>2 DEF Before
    <3> QED BY <3>1, <3>2
  <2>4. Tail(q)[i] = q[i + 1]
    BY <1>2
  <2> QED BY <2>1, <2>2, <2>3, <2>4
<1> HIDE DEF e
<1> QED BY <1>1, <1>2, <1>3, <1>4, <1>5 DEF Reaches

(* A report is added to the queue: the presses it tells of, beyond those    *)
(* told before, are presses that will count.                                *)
LEMMA ReachesPush ==
  ASSUME NEW q \in Seq(Codes), NEW r \in Codes, NEW p, NEW f \in Nat, NEW t \in Nat, NEW k,
         NEW S, Latest(q, p) \subseteq S, Reaches(q, p, f, t, k)
  PROVE  Reaches(Append(q, r), p, f, t + (IF k \in KeysIn(r) \ S THEN 1 ELSE 0), k)
<1> DEFINE n == Len(q)
           w == Append(q, r)
           d(i) == IF k \in KeysIn(q[i]) \ Before(q, p, i) THEN 1 ELSE 0
           x == IF k \in KeysIn(r) \ Before(w, p, n + 1) THEN 1 ELSE 0
<1>1. PICK c \in [0..n -> Nat] : c[0] = f /\ c[n] >= t /\ \A i \in 1..n : c[i] = c[i - 1] + d(i)
  BY DEF Reaches
<1>2. n \in Nat /\ Len(w) = n + 1 /\ w[n + 1] = r /\ \A i \in 1..n : w[i] = q[i]
  OBVIOUS
<1>3. Before(w, p, n + 1) = Latest(q, p)
  BY <1>2 DEF Before, Latest
<1>4. x \in Nat /\ x >= (IF k \in KeysIn(r) \ S THEN 1 ELSE 0)
  BY <1>3
<1> DEFINE e == [i \in 0..n + 1 |-> IF i <= n THEN c[i] ELSE c[n] + x]
<1> HIDE DEF n, w, x
<1>5. e \in [0..n + 1 -> Nat] /\ e[0] = f /\ e[n + 1] = c[n] + x
  BY <1>1, <1>2, <1>4
<1>6. e[n + 1] >= t + (IF k \in KeysIn(r) \ S THEN 1 ELSE 0)
  <2>1. c[n] \in Nat /\ c[n] >= t
    BY <1>1, <1>2
  <2> QED BY <1>4, <1>5, <2>1
<1>7. ASSUME NEW i \in 1..n + 1
      PROVE  e[i] = e[i - 1] + (IF k \in KeysIn(w[i]) \ Before(w, p, i) THEN 1 ELSE 0)
  <2>1. CASE i = n + 1
    BY <1>2, <1>5, <2>1 DEF x
  <2>2. CASE i \in 1..n
    <3>1. e[i] = c[i] /\ e[i - 1] = c[i - 1] /\ c[i] = c[i - 1] + d(i)
      BY <1>1, <1>2, <2>2
    <3>2. w[i] = q[i] /\ Before(w, p, i) = Before(q, p, i)
      BY <1>2, <2>2 DEF Before
    <3> QED BY <3>1, <3>2
  <2> QED BY <1>2, <2>1, <2>2
<1> HIDE DEF e
<1> QED BY <1>2, <1>5, <1>6, <1>7 DEF Reaches, w

---------------------------------------------------------------------------
(* The steps, one concern at a time. *)

LEMMA FailedTypes ==
  ASSUME UTypeOK, Failed
  PROVE  dev' \in DevRec /\ pc' \in Places /\ fail' \in [had : BOOLEAN, recent : BOOLEAN] /\ due' \in BOOLEAN
BY DEF UTypeOK, Failed, DevRec, Places

LEMMA TypesStep ==
  ASSUME UTypeOK, Next
  PROVE  UTypeOK'
<1>1. CASE Ask \/ Write \/ PollNew \/ PollFailed \/ PollIdle \/ PollEndpoint \/ NoReport
  BY <1>1 DEF UTypeOK, Ask, Write, PollNew, PollFailed, PollIdle, PollEndpoint, NoReport, Places, DevRec, keys
<1>2. CASE PollGone \/ Drop
  BY <1>2, Plugged DEF UTypeOK, PollGone, Drop, Detach, Places, PortRec, keys
<1>3. CASE Settle
  BY <1>3, Plugged DEF UTypeOK, Settle, Places, keys
<1>4. CASE FirstReset \/ SecondReset
  <2>1. BusReset \in PortRec
    BY DEF UTypeOK, BusReset, Attached, PortRec
  <2>2. port' \in PortRec /\ UNCHANGED <<down, wb, fed, told, late>>
    BY <1>4, <2>1 DEF UTypeOK, FirstReset, SecondReset, keys
  <2>3. \/ Failed
        \/ UNCHANGED <<dev, fail, due>> /\ pc' \in Places
    BY <1>4 DEF FirstReset, SecondReset, Places
  <2> QED BY <2>2, <2>3, FailedTypes DEF UTypeOK
<1>5. CASE DeviceDescriptor
  <2>1. Answers => Kind[port.id] \in {"keyboard", "mouse", "hub", "mute"}
    BY Fields, KAssumption DEF Answers, Attached
  <2>2. UNCHANGED <<port, down, wb, fed, told, late>>
    BY <1>5 DEF DeviceDescriptor, keys
  <2>3. \/ Failed
        \/ UNCHANGED <<fail, due>> /\ pc' \in Places /\ dev' = [dev EXCEPT !.cls = Kind[port.id]] /\ Answers
    BY <1>5 DEF DeviceDescriptor, Succeeds, Places
  <2>4. CASE ~Failed
    <3>1. dev' \in DevRec
      BY <2>1, <2>3, <2>4 DEF UTypeOK, DevRec
    <3> QED BY <2>2, <2>3, <2>4, <3>1 DEF UTypeOK
  <2> QED BY <2>2, <2>4, FailedTypes DEF UTypeOK
<1>6. CASE SetAddress
  <2>1. port' \in PortRec /\ UNCHANGED <<down, wb, fed, told, late>>
    BY <1>6 DEF UTypeOK, SetAddress, PortRec, keys
  <2>2. \/ Failed
        \/ UNCHANGED <<fail, due>> /\ pc' \in Places /\ dev' = [dev EXCEPT !.addr = 2]
    BY <1>6 DEF SetAddress, Places
  <2>3. CASE ~Failed
    <3>1. dev' \in DevRec
      BY <2>2, <2>3 DEF UTypeOK, DevRec
    <3> QED BY <2>1, <2>2, <2>3, <3>1 DEF UTypeOK
  <2> QED BY <2>1, <2>3, FailedTypes DEF UTypeOK
<1>7. CASE Configuration
  <2>1. Class(Kind[port.id]) \in {"KEYBOARD", "MOUSE", "OTHER"}
    BY DEF Class
  <2>2. UNCHANGED <<port, down, wb, fed, told, late>>
    BY <1>7 DEF Configuration, keys
  <2>3. \/ Failed
        \/ UNCHANGED <<fail, due>> /\ pc' \in Places /\ dev' = [dev EXCEPT !.state = Class(Kind[port.id])]
    BY <1>7 DEF Configuration, Places
  <2>4. CASE ~Failed
    <3>1. dev' \in DevRec
      BY <2>1, <2>3, <2>4 DEF UTypeOK, DevRec
    <3> QED BY <2>2, <2>3, <2>4, <3>1 DEF UTypeOK
  <2> QED BY <2>2, <2>4, FailedTypes DEF UTypeOK
<1>8. CASE SetConfiguration
  <2>1. Configured \in PortRec
    <3>1. <<>> \in Seq(Codes)
      OBVIOUS
    <3> QED BY <3>1 DEF UTypeOK, Configured, PortRec
  <2>2. None \in [Keys -> Nat]
    BY DEF None
  <2>3. /\ port' \in PortRec /\ UNCHANGED <<down, wb, late>>
        /\ fed' \in [Keys -> Nat] /\ told' \in [Keys -> Nat]
    BY <1>8, <2>1, <2>2 DEF UTypeOK, SetConfiguration, keys
  <2>4. \/ Failed
        \/ /\ due' = due /\ pc' \in Places /\ fail' = [fail EXCEPT !.had = FALSE]
           /\ dev' \in {dev, [dev EXCEPT !.state = "OTHER"]}
    BY <1>8 DEF SetConfiguration, Places
  <2>5. CASE ~Failed
    <3>1. dev' \in DevRec
      BY <2>4, <2>5 DEF UTypeOK, DevRec
    <3> QED BY <2>3, <2>4, <2>5, <3>1 DEF UTypeOK
  <2> QED BY <2>3, <2>5, FailedTypes DEF UTypeOK
<1>9. CASE Receive \/ Discard
  <2>1. HasReport /\ UNCHANGED <<down, wb, fail, told, late, due>> /\ pc' \in {pc, "idle"}
    BY <1>9 DEF Receive, Discard, keys
  <2>2. Flip(port.tog) \in {0, 1} /\ Flip(dev.tog) \in {0, 1}
    BY Fields DEF Flip
  <2>3. Tail(port.queue) \in Seq(Codes) /\ Head(port.queue) \in Codes
    BY <2>1, Fields DEF HasReport
  <2>4. Acked \in PortRec
    BY <2>2, <2>3 DEF UTypeOK, Acked, PortRec
  <2>5. KeysIn(Head(port.queue)) \in SUBSET Keys
    BY <2>3, Codings
  <2>6. port' \in PortRec
    BY <1>9, <2>4 DEF UTypeOK, Receive, Discard
  <2>7. CASE Receive
    <3>1. fed' \in [Keys -> Nat]
      BY <2>7, Counted DEF UTypeOK, Receive, Handled
    <3>2. dev' = [dev EXCEPT !.tog = Flip(dev.tog), !.prev = KeysIn(Head(port.queue))]
      BY <2>7 DEF Receive, Handled
    <3>3. dev' \in DevRec
      BY <2>2, <2>5, <3>2 DEF UTypeOK, DevRec
    <3> QED BY <2>1, <2>6, <3>1, <3>3 DEF UTypeOK, Places
  <2>8. CASE Discard
    BY <2>1, <2>6, <2>8 DEF UTypeOK, Discard, keys, Places
  <2> QED BY <1>9, <2>7, <2>8
<1>10. CASE Expire \/ Plug \/ Unplug
  <2>1. \A d \in Devices : [Empty EXCEPT !.id = d] \in PortRec
    BY Plugged DEF PortRec
  <2> QED BY <1>10, <2>1, Plugged DEF UTypeOK, Expire, Plug, Unplug, keys
<1>11. CASE Type
  <2>1. down' \in SUBSET Keys
    BY <1>11 DEF UTypeOK, Type
  <2>2. Append(port.queue, Report(down')) \in Seq(Codes)
    BY <2>1, Fields, Codings
  <2>3. CASE port.set
    <3>1. port' \in PortRec
      BY <1>11, <2>1, <2>2, <2>3 DEF UTypeOK, Type, PortRec
    <3>2. told' \in [Keys -> Nat]
      BY <1>11, <2>3, Counted DEF UTypeOK, Type
    <3> QED BY <1>11, <2>1, <3>1, <3>2 DEF UTypeOK, Type
  <2>4. CASE ~port.set
    BY <1>11, <2>1, <2>4 DEF UTypeOK, Type
  <2> QED BY <2>3, <2>4
<1> QED BY <1>1, <1>2, <1>3, <1>4, <1>5, <1>6, <1>7, <1>8, <1>9, <1>10, <1>11
  DEF Next, Driver, Enumerate, Endpoint

LEMMA TimesStep ==
  ASSUME UTypeOK, Flushed, Timed, Fresh, Next
  PROVE  Flushed' /\ Timed' /\ Fresh'
<1>1. CASE Ask
  BY <1>1 DEF Flushed, Timed, Fresh, Enumerating, Ask, Pending, Attached
<1>2. CASE Write \/ PollIdle \/ PollEndpoint \/ NoReport
  BY <1>2, Fields DEF Flushed, Timed, Fresh, Enumerating, Write, PollIdle, PollEndpoint, NoReport, Attached
<1>11. CASE Discard
  BY <1>11 DEF UTypeOK, Flushed, Timed, Fresh, Enumerating, Discard, Attached, Acked, PortRec
<1>3. CASE PollNew
  BY <1>3 DEF Flushed, Timed, Fresh, Enumerating, PollNew, BackOff, Attached
<1>4. CASE PollFailed
  BY <1>4, Fields DEF UTypeOK, Flushed, Timed, Fresh, Enumerating, PollFailed, Attached, DevRec
<1>5. CASE PollGone \/ Drop
  BY <1>5, Fields DEF UTypeOK, Flushed, Timed, Fresh, Enumerating, PollGone, Dropped, Drop, Detach, Attached, PortRec
<1>6. CASE Settle
  BY <1>6, Plugged DEF Flushed, Timed, Fresh, Enumerating, Settle, Attached
<1>7. CASE Enumerate /\ ~Settle
  <2>1. pc \in {"reset", "desc", "reset2", "addr", "config", "setcfg"} /\ due
    BY <1>7 DEF Enumerate, FirstReset, DeviceDescriptor, SecondReset, SetAddress, Configuration, SetConfiguration,
      Timed, Enumerating
  <2>2. \/ Failed
        \/ /\ pc' \in {"desc", "reset2", "addr", "config", "setcfg", "idle"} /\ due' = due
           /\ dev'.prev = dev.prev /\ dev'.tog = dev.tog
    BY <1>7 DEF UTypeOK, Enumerate, FirstReset, DeviceDescriptor, SecondReset, SetAddress, Configuration, SetConfiguration,
      DevRec
  <2>3. CASE Failed
    BY <2>3 DEF UTypeOK, Failed, Flushed, Timed, Fresh, Enumerating, DevRec
  <2> QED BY <2>1, <2>2, <2>3 DEF Flushed, Timed, Fresh, Enumerating
<1>8. CASE Receive
  BY <1>8, Fields DEF UTypeOK, Flushed, Timed, Fresh, Enumerating, Receive, Handled, Attached, Acked, DevRec, PortRec
<1>9. CASE Expire \/ Plug \/ Unplug
  BY <1>9 DEF Flushed, Timed, Fresh, Enumerating, Expire, Plug, Unplug, Attached, Empty
<1>10. CASE Type
  BY <1>10 DEF UTypeOK, Flushed, Timed, Fresh, Enumerating, Type, Attached, PortRec
<1> QED BY <1>1, <1>2, <1>3, <1>4, <1>5, <1>6, <1>7, <1>8, <1>9, <1>10, <1>11 DEF Next, Driver, Endpoint

(* A step that leaves queue, toggles, the last report and both histories as *)
(* they are does not change the account of a session that goes on.          *)
LEMMA SessionRests ==
  ASSUME Counts, Linked' => Linked,
         Linked' => /\ port'.tog = port.tog /\ port'.queue = port.queue /\ port'.sent = port.sent
                    /\ dev'.tog = dev.tog /\ dev'.prev = dev.prev /\ fed' = fed /\ told' = told
  PROVE  Counts'
<1> SUFFICES ASSUME Linked' PROVE (/\ InStep \/ port.queue # <<>>
            /\ Latest(Ahead, dev.prev) \subseteq port.sent
            /\ \A k \in Keys : Reaches(Ahead, dev.prev, fed[k], told[k], k))'
  BY DEF Counts
<1>1. Linked /\ InStep' = InStep /\ Ahead' = Ahead
  BY DEF InStep, Ahead
<1> QED BY <1>1 DEF Counts, Latest, Reaches, Before

LEMMA CountsStep ==
  ASSUME UInv, Next
  PROVE  Counts'
<1>1. CASE Ask \/ Write \/ PollNew \/ PollIdle \/ PollEndpoint \/ NoReport \/ Expire
  <2>1. UNCHANGED <<port, dev, fed, told>> /\ (pc' \in {"idle", "poll", "in"} => pc \in {"idle", "poll", "in"} \/ pc = pc')
    BY <1>1 DEF Ask, Write, PollNew, PollIdle, PollEndpoint, NoReport, Expire, keys
  <2> QED BY <1>1, <2>1, SessionRests DEF UInv, Linked, Attached
<1>2. CASE PollFailed
  <2>1. UNCHANGED <<port, fed, told>> /\ dev'.state \in {"FAILED", "NONE"}
    BY <1>2 DEF UInv, UTypeOK, DevRec, PollFailed, keys
  <2> QED BY <2>1, SessionRests DEF UInv, Linked
<1>3. CASE PollGone \/ Drop
  <2>1. \/ UNCHANGED <<port, dev, fed, told>> /\ pc = "poll"
        \/ ~port'.en
    BY <1>3 DEF UInv, UTypeOK, PortRec, PollGone, Drop, Detach, keys
  <2> QED BY <2>1, SessionRests DEF UInv, Linked, Attached
<1>4. CASE Settle
  <2>1. ~Linked'
    BY <1>4 DEF Settle, Linked, Attached
  <2> QED BY <2>1 DEF Counts
<1>5. CASE FirstReset \/ SecondReset \/ DeviceDescriptor \/ SetAddress \/ Configuration
  <2>1. pc' \notin {"idle", "poll", "in"} \/ dev'.state = "FAILED"
    BY <1>5 DEF UInv, UTypeOK, DevRec, FirstReset, SecondReset, DeviceDescriptor, SetAddress, Configuration, Failed
  <2> QED BY <2>1 DEF Counts, Linked
<1>6. CASE SetConfiguration
  <2>1. CASE Failed
    BY <2>1 DEF UInv, UTypeOK, DevRec, Failed, Counts, Linked
  <2>2. CASE ~Failed
    <3>1. /\ port' = Configured /\ fed' = None /\ told' = None
          /\ dev' \in {dev, [dev EXCEPT !.state = "OTHER"]} /\ pc = "setcfg"
      BY <1>6, <2>2 DEF SetConfiguration
    <3>2. dev'.prev = {} /\ dev'.tog = 0
      BY <3>1 DEF UInv, UTypeOK, DevRec, Fresh, Enumerating
    <3>3. port'.tog = 0 /\ port'.queue = <<>> /\ port'.sent = {}
      BY <3>1 DEF UInv, UTypeOK, PortRec, Configured
    <3>4. InStep' /\ Ahead' = <<>>
      BY <3>2, <3>3 DEF InStep, Ahead
    <3>5. ASSUME NEW k \in Keys PROVE Reaches(Ahead', dev'.prev, fed'[k], told'[k], k)
      <4>1. fed'[k] = 0 /\ told'[k] = 0
        BY <3>1 DEF None
      <4> DEFINE c == [i \in 0..0 |-> 0]
      <4>2. c \in [0..0 -> Nat] /\ c[0] = 0 /\ Len(Ahead') = 0
        BY <3>4
      <4> HIDE DEF c
      <4> QED BY <4>1, <4>2 DEF Reaches
    <3>6. Latest(Ahead, dev.prev)' \subseteq port'.sent
      BY <3>2, <3>4 DEF Latest
    <3> QED BY <3>4, <3>5, <3>6 DEF Counts
  <2> QED BY <2>1, <2>2
<1>7. CASE Plug \/ Unplug
  <2>1. ~port'.set
    BY <1>7 DEF Plug, Unplug, Empty
  <2> QED BY <2>1 DEF Counts, Linked
<1>8. CASE Receive
  <2>1. /\ pc = "in" /\ HasReport /\ InStep /\ UNCHANGED <<told>> /\ pc' = "idle"
        /\ fed' = Count(fed, KeysIn(Head(port.queue)) \ dev.prev)
        /\ dev' = [dev EXCEPT !.tog = Flip(dev.tog), !.prev = KeysIn(Head(port.queue))]
        /\ port' = Acked \/ port' = port
    BY <1>8 DEF Receive, Handled
  <2>2. /\ dev'.tog = 1 - dev.tog /\ dev'.prev = KeysIn(port.queue[1]) /\ dev'.state = dev.state
        /\ dev'.addr = dev.addr /\ port.queue # <<>> /\ port.queue \in Seq(Codes) /\ port.tog \in {0, 1}
        /\ dev.tog = port.tog
    BY <2>1, Fields DEF UInv, UTypeOK, DevRec, Flip, HasReport, InStep
  <2>3. /\ port'.sent = port.sent /\ port'.set = port.set /\ port'.en = port.en /\ port'.addr = port.addr
        /\ port'.id = port.id
        /\ \/ port'.tog = 1 - port.tog /\ port'.queue = Tail(port.queue)
           \/ port'.tog = port.tog /\ port'.queue = port.queue
    BY <2>1 DEF UInv, UTypeOK, PortRec, Acked, Flip
  <2>4. Ahead = port.queue /\ Ahead' = Tail(port.queue) /\ (InStep' \/ port'.queue # <<>>)
    BY <2>1, <2>2, <2>3 DEF Ahead, InStep
  <2>5. SUFFICES ASSUME Linked' PROVE (/\ Latest(Ahead, dev.prev) \subseteq port.sent
                                       /\ \A k \in Keys : Reaches(Ahead, dev.prev, fed[k], told[k], k))'
    BY <2>4 DEF Counts
  <2>6. Linked
    BY <2>1, <2>2, <2>3, <2>5 DEF Linked, Attached
  <2>7. Latest(Ahead, dev.prev) \subseteq port.sent /\ \A k \in Keys : Reaches(Ahead, dev.prev, fed[k], told[k], k)
    BY <2>6 DEF UInv, Counts
  <2>8. Latest(Ahead, dev.prev)' \subseteq port'.sent
    <3> DEFINE n == Len(port.queue)
    <3>1. n \in Nat /\ n >= 1 /\ Len(Tail(port.queue)) = n - 1 /\ (n > 1 => Tail(port.queue)[n - 1] = port.queue[n])
      BY <2>2
    <3>2. Tail(port.queue) = <<>> <=> n = 1
      <4>1. Tail(port.queue) \in Seq(Codes)
        BY <2>2
      <4>2. \A s \in Seq(Codes) : s = <<>> <=> Len(s) = 0
        OBVIOUS
      <4>3. Tail(port.queue) = <<>> <=> Len(Tail(port.queue)) = 0
        BY <4>1, <4>2, Zenon
      <4> HIDE DEF n
      <4> QED BY <3>1, <4>3
    <3>3. Latest(port.queue, dev.prev) = KeysIn(port.queue[n])
      BY <2>2 DEF Latest
    <3>4. Latest(Tail(port.queue), KeysIn(port.queue[1])) = KeysIn(port.queue[n])
      <4> HIDE DEF n
      <4> QED BY <3>1, <3>2 DEF Latest
    <3>5. Latest(Ahead, dev.prev)' = Latest(Tail(port.queue), KeysIn(port.queue[1]))
      BY <2>2, <2>4 DEF Latest
    <3> QED BY <2>3, <2>4, <2>7, <3>3, <3>4, <3>5
  <2>9. ASSUME NEW k \in Keys PROVE Reaches(Ahead', dev'.prev, fed'[k], told'[k], k)
    <3>1. fed \in [Keys -> Nat] /\ told \in [Keys -> Nat]
      BY DEF UInv, UTypeOK
    <3>2. fed'[k] = fed[k] + (IF k \in KeysIn(port.queue[1]) \ dev.prev THEN 1 ELSE 0)
      BY <2>1, <2>2, <3>1, Counted
    <3>3. Reaches(Tail(port.queue), KeysIn(port.queue[1]),
                  fed[k] + (IF k \in KeysIn(port.queue[1]) \ dev.prev THEN 1 ELSE 0), told[k], k)
      BY <2>2, <2>4, <2>7, <3>1, ReachesPop
    <3> QED BY <2>1, <2>2, <2>4, <3>2, <3>3
  <2> QED BY <2>8, <2>9
<1>9. CASE Discard
  <2>1. /\ HasReport /\ ~InStep /\ port' = Acked /\ UNCHANGED <<dev, fed, told, pc>>
    BY <1>9 DEF Discard, keys
  <2>2. /\ port.queue # <<>> /\ port.queue \in Seq(Codes) /\ port.tog \in {0, 1} /\ dev.tog \in {0, 1}
        /\ port.tog # dev.tog
    BY <2>1, Fields DEF UInv, HasReport, InStep
  <2>3. /\ port'.sent = port.sent /\ port'.set = port.set /\ port'.en = port.en /\ port'.addr = port.addr
        /\ port'.id = port.id /\ port'.tog = 1 - port.tog /\ port'.queue = Tail(port.queue)
    BY <2>1 DEF UInv, UTypeOK, PortRec, Acked, Flip
  <2>4. InStep' /\ Ahead' = Ahead
    BY <2>1, <2>2, <2>3 DEF Ahead, InStep
  <2>5. Linked' => Linked
    BY <2>1, <2>3 DEF Linked, Attached
  <2> QED BY <2>1, <2>3, <2>4, <2>5 DEF UInv, Counts, Latest, Reaches, Before
<1>10. CASE Type
  <2>1. UNCHANGED <<dev, fed, pc>> /\ down' \in SUBSET Keys
    BY <1>10 DEF Type, UInv, UTypeOK
  <2>2. CASE ~port.set
    BY <1>10, <2>2 DEF Type, Counts, Linked
  <2>3. CASE port.set
    <3> DEFINE r == Report(down')
    <3>1. /\ port' = [port EXCEPT !.queue = Append(port.queue, r), !.sent = IF r = Rollover THEN port.sent ELSE down']
          /\ told' = Count(told, KeysIn(r) \ port.sent)
      BY <1>10, <2>3 DEF Type
    <3>2. r \in Codes /\ KeysIn(r) \subseteq down'
      BY <2>1, Codings
    <3> HIDE DEF r
    <3>3. /\ port'.queue = Append(port.queue, r) /\ port'.sent = (IF r = Rollover THEN port.sent ELSE down')
          /\ port'.tog = port.tog /\ port'.set = port.set /\ port'.en = port.en /\ port'.addr = port.addr
          /\ port'.id = port.id
      BY <3>1 DEF UInv, UTypeOK, PortRec
    <3>4. SUFFICES ASSUME Linked' PROVE (/\ InStep \/ port.queue # <<>>
            /\ Latest(Ahead, dev.prev) \subseteq port.sent
            /\ \A k \in Keys : Reaches(Ahead, dev.prev, fed[k], told[k], k))'
      BY DEF Counts
    <3>5. Linked
      BY <2>1, <3>3, <3>4 DEF Linked, Attached
    <3>6. /\ InStep \/ port.queue # <<>>
          /\ Latest(Ahead, dev.prev) \subseteq port.sent
          /\ \A k \in Keys : Reaches(Ahead, dev.prev, fed[k], told[k], k)
      BY <3>5 DEF UInv, Counts
    <3>7. port.queue \in Seq(Codes) /\ Append(port.queue, r) # <<>> /\ Ahead \in Seq(Codes)
      BY <3>2, <3>6, Fields DEF UInv, Ahead
    <3>8. InStep' = InStep /\ Ahead' = Append(Ahead, r)
      <4>1. InStep' = InStep
        BY <2>1, <3>3 DEF InStep
      <4>2. port.queue # <<>> => Tail(Append(port.queue, r)) = Append(Tail(port.queue), r)
        BY <3>2, <3>7
      <4> QED BY <3>3, <3>6, <4>1, <4>2 DEF Ahead
    <3>9. Latest(Ahead, dev.prev)' \subseteq port'.sent
      <4>1. Latest(Ahead', dev'.prev) = KeysIn(r)
        <5>1. Append(Ahead, r) # <<>> /\ Append(Ahead, r)[Len(Append(Ahead, r))] = r
          BY <3>2, <3>7
        <5> QED BY <3>8, <5>1 DEF Latest
      <4>2. KeysIn(Rollover) = {}
        BY Codings
      <4> QED BY <3>2, <3>3, <4>1, <4>2
    <3>10. ASSUME NEW k \in Keys PROVE Reaches(Ahead', dev'.prev, fed'[k], told'[k], k)
      <4>1. fed \in [Keys -> Nat] /\ told \in [Keys -> Nat]
        BY DEF UInv, UTypeOK
      <4>2. told'[k] = told[k] + (IF k \in KeysIn(r) \ port.sent THEN 1 ELSE 0)
        BY <3>1, <4>1, Counted
      <4>3. Reaches(Append(Ahead, r), dev.prev, fed[k], told[k] + (IF k \in KeysIn(r) \ port.sent THEN 1 ELSE 0), k)
        BY <3>2, <3>6, <3>7, <4>1, ReachesPush
      <4> QED BY <2>1, <3>8, <4>2, <4>3
    <3> QED BY <3>3, <3>7, <3>9, <3>10
  <2> QED BY <2>2, <2>3
<1> QED BY <1>1, <1>2, <1>3, <1>4, <1>5, <1>6, <1>7, <1>8, <1>9, <1>10
  DEF Next, Driver, Enumerate, Endpoint

LEMMA UInvInit ==
  ASSUME Init
  PROVE  UInv
<1>1. port \in PortRec /\ ~port.set /\ port.id \in Devices \cup {NoDevice}
  <2>1. \A d \in Devices : [Empty EXCEPT !.id = d] \in PortRec /\ ~[Empty EXCEPT !.id = d].set
    BY Plugged DEF PortRec
  <2> QED BY <2>1, Plugged DEF Init, PortRec
<1>2. None \in [Keys -> Nat]
  BY DEF None
<1>3. UTypeOK
  BY <1>1, <1>2, Plugged DEF Init, UTypeOK, Places
<1>4. Flushed /\ Timed /\ Fresh
  BY DEF Init, Flushed, Timed, Fresh, Enumerating
<1>5. Counts
  BY <1>1 DEF Counts, Linked
<1> QED BY <1>3, <1>4, <1>5 DEF UInv

LEMMA UInvStep ==
  ASSUME UInv, [Next]_vars
  PROVE  UInv'
<1>1. CASE Next
  BY <1>1, TypesStep, TimesStep, CountsStep DEF UInv
<1>2. CASE UNCHANGED vars
  <2>1. UNCHANGED <<port, down, dev, fail, pc, wb, fed, told, late, due>>
    BY <1>2 DEF vars, keys
  <2>2. UTypeOK' /\ Flushed' /\ Timed' /\ Fresh'
    BY <2>1 DEF UInv, UTypeOK, Flushed, Timed, Fresh, Enumerating, Attached
  <2>3. Counts'
    BY <2>1, SessionRests DEF UInv, Linked, Attached
  <2> QED BY <2>2, <2>3 DEF UInv
<1> QED BY <1>1, <1>2

---------------------------------------------------------------------------
(* The driver's timers, its flush and the account of a session are kept by  *)
(* every step (usbfs_host_poll, enumerate, poll_endpoint).                 *)
THEOREM UInvariance == Spec => []UInv
<1>1. Init => UInv
  BY UInvInit
<1>2. UInv /\ [Next]_vars => UInv'
  BY UInvStep
<1> QED BY <1>1, <1>2, PTL DEF Spec

(* The long slot of an enumeration starts with the write-behind buffer      *)
(* flushed, unless the device came after this pass asked                    *)
(* (usbfs_host_pending, wait_rx_idle).                                      *)
THEOREM SlotAlwaysFlushed == Spec => []SlotFlushed
<1>1. UInv => SlotFlushed
  BY DEF UInv, Flushed, SlotFlushed
<1> QED BY <1>1, UInvariance, PTL

(* A device that failed is not enumerated again within three seconds,       *)
(* unless it was pulled or plugged (FAILED and had_fail, usbfs_host_poll).  *)
THEOREM FailureBacksOff == Spec => BacksOff
<1>1. ASSUME UInv, [Next]_vars PROVE [pc' = "settle" => due]_vars
  <2>1. SUFFICES ASSUME Next, pc' = "settle" PROVE due
    BY <1>1
  <2>2. CASE pc = "settle"
    BY <1>1, <2>2 DEF UInv, Timed, Enumerating
  <2>3. CASE pc # "settle"
    <3>1. PollNew
      BY <2>1, <2>3 DEF Next, Driver, Enumerate, Endpoint, Ask, PollGone, PollNew, PollFailed, PollIdle, PollEndpoint,
        Settle, FirstReset, DeviceDescriptor, SecondReset, SetAddress, Configuration, SetConfiguration, Failed,
        NoReport, Receive, Discard, Drop, Write, Expire, Plug, Unplug, Type
    <3> QED BY <1>1, <2>1, <3>1 DEF UInv, Timed, PollNew
  <2> QED BY <2>2, <2>3
<1> QED BY <1>1, UInvariance, PTL DEF Spec, BacksOff

(* No press a report tells of is lost, whatever transfers fail on either    *)
(* side: when the keyboard's queue is empty every key it told of was acted  *)
(* on (transact, poll_endpoint, handle_keyboard_report).                    *)
THEOREM PressesArrive == Spec => []NoPressLost
<1>1. ASSUME UInv PROVE NoPressLost
  <2>1. SUFFICES ASSUME pc = "idle", Attached, port.set, port.en, port.queue = <<>>, dev.state = "KEYBOARD",
                        dev.addr = port.addr, NEW k \in Keys
                 PROVE  fed[k] >= told[k]
    BY DEF NoPressLost
  <2>2. InStep /\ Reaches(Ahead, dev.prev, fed[k], told[k], k)
    BY <1>1, <2>1 DEF UInv, Counts, Linked
  <2>3. Ahead = <<>>
    BY <2>1, <2>2 DEF Ahead
  <2>4. PICK c \in [0..Len(Ahead) -> Nat] : c[0] = fed[k] /\ c[Len(Ahead)] >= told[k]
    BY <2>2 DEF Reaches
  <2>5. Len(Ahead) = 0
    BY <2>3
  <2> QED BY <2>4, <2>5
<1> QED BY <1>1, UInvariance, PTL
=============================================================================
