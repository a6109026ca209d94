--------------------------- MODULE MscMediaProofs ---------------------------
(***************************************************************************)
(* What the host is told of its media, for any cards, images, times and     *)
(* any number of keys, ejects, resets, pulled cards and failures.           *)
(***************************************************************************)
EXTENDS MscMedia, TLAPS

Slots   == Cards \cup {NoCard}
ImgRec  == [name : Nat, card : Slots]
SwapRec == [idx : Nat, left : Nat]
DevRec  == [slot : Slots, drv : Slots, live : BOOLEAN, listed : Slots, cur : ImgRec, moved : BOOLEAN, last : Nat,
            cfg : [Cards -> Nat], swap : SwapRec, ejected : BOOLEAN, bounce : Nat, ejhost : BOOLEAN,
            premount : BOOLEAN, conf : BOOLEAN, event : {"none", "new", "removed"}, lun : [Lun -> LunState]]

(* The driver holds a card for present that is there and answers, or one    *)
(* that has gone.                                                           *)
Sane(d) == d.live => d.drv = d.slot /\ d.slot # NoCard

LEMMA Constants ==
  /\ NoCard \notin Cards /\ Gap \in Nat \ {0} /\ Ack \in Nat \ {0} /\ Bounce \in Nat \ {0}
  /\ NoCard \in Slots /\ NoImage \in ImgRec /\ NoSwap \in SwapRec /\ Quiet \in LunState
  /\ \A c \in Cards : Files[c] \in Seq(Nat \ {0}) /\ c \in Slots
BY StoreAssumption, MediaAssumption DEF Slots, NoImage, ImgRec, NoSwap, SwapRec, Quiet, LunState

LEMMA ListTyped ==
  ASSUME NEW s \in DevRec
  PROVE  /\ List(s) \in Seq(Nat \ {0}) /\ \A i \in DOMAIN List(s) : List(s)[i] \in Nat \ {0}
         /\ \A n \in ToSet(List(s)) : n # 0 /\ Index(s, n) \in DOMAIN List(s) /\ List(s)[Index(s, n)] = n
<1>1. List(s) \in Seq(Nat \ {0})
  <2>1. CASE s.listed = NoCard
    BY <2>1 DEF List
  <2>2. CASE s.listed # NoCard
    <3>1. s.listed \in Cards
      BY <2>2 DEF DevRec, Slots
    <3> QED BY <2>2, <3>1, Constants DEF List
  <2> QED BY <2>1, <2>2
<1>2. \A i \in DOMAIN List(s) : List(s)[i] \in Nat \ {0}
  BY <1>1
<1>3. ASSUME NEW n \in ToSet(List(s))
      PROVE  n # 0 /\ Index(s, n) \in DOMAIN List(s) /\ List(s)[Index(s, n)] = n
  <2>1. \E i \in DOMAIN List(s) : List(s)[i] = n
    BY <1>3 DEF ToSet
  <2>2. Index(s, n) \in DOMAIN List(s) /\ List(s)[Index(s, n)] = n
    BY <2>1 DEF Index
  <2> QED BY <1>2, <2>2
<1> QED BY <1>1, <1>2, <1>3

(* What a change of the store leaves alone; a mounted image changes only    *)
(* with the generation.                                                     *)
Steps(d, e) ==
  /\ e \in DevRec /\ e.lun = d.lun /\ e.conf = d.conf /\ e.slot = d.slot
  /\ ~e.moved => ~d.moved /\ e.cur = d.cur
  /\ Sane(d) => Sane(e)
  /\ d.drv \in {NoCard, d.slot} => e.drv \in {NoCard, d.slot}
Same(d, e) == e.ejected = d.ejected /\ e.bounce = d.bounce /\ e.event = d.event

LEMMA StepsOn ==
  ASSUME NEW d, NEW e, NEW f, Steps(d, e) /\ Same(d, e), Steps(e, f) /\ Same(e, f)
  PROVE  Steps(d, f) /\ Same(d, f)
BY DEF Steps, Same

LEMMA StepsNone ==
  ASSUME NEW d \in DevRec
  PROVE  Steps(d, d) /\ Same(d, d)
BY DEF Steps, Same

LEMMA AccessSteps ==
  ASSUME NEW d \in DevRec, NEW ok \in BOOLEAN
  PROVE  /\ Steps(d, Accessed(d)) /\ Same(d, Accessed(d)) /\ Steps(d, Scan(d, ok)) /\ Same(d, Scan(d, ok))
         /\ (Accessed(d).live = d.live /\ Accessed(d).drv = (IF d.live THEN d.drv ELSE NoCard))
         /\ \A x \in {"last", "cfg", "swap", "cur"} : Accessed(d)[x] = d[x] /\ Scan(d, ok)[x] = d[x]
         /\ Scan(d, ok).drv = Accessed(d).drv /\ Scan(d, ok).live = d.live
         /\ Scan(d, ok).listed = (IF ok /\ d.live THEN d.drv ELSE NoCard)
<1>1. Accessed(d) \in DevRec
  BY Constants DEF Accessed, DevRec
<1>2. Scan(d, ok) \in DevRec
  BY <1>1, Constants DEF Scan, DevRec
<1> QED BY <1>1, <1>2 DEF Accessed, Scan, Steps, Same, DevRec, Sane

LEMMA UnmountSteps ==
  ASSUME NEW d \in DevRec
  PROVE  /\ Steps(d, Unmount(d)) /\ Same(d, Unmount(d)) /\ ~Mounted(Unmount(d))
         /\ Unmount(d).drv = d.drv /\ Unmount(d).live = d.live /\ Unmount(d).listed = d.listed
         /\ Unmount(d).last = d.last /\ Unmount(d).cfg = d.cfg /\ Unmount(d).swap = d.swap
<1>1. Unmount(d) \in DevRec
  BY Constants DEF Unmount, DevRec
<1> QED BY <1>1, Constants DEF Unmount, Steps, Same, DevRec, Sane, Mounted

---------------------------------------------------------------------------
(* The invariant. *)

Media   == {Nothing} \cup {<<c>> : c \in Slots} \cup (Slots \X ImgRec)
HistRec == [known : [Lun -> Media], fresh : SUBSET Lun, cap : [Img -> Media], since : [Img -> Nat],
            waits : SUBSET Img, early : SUBSET Img, polled : Slots, shown : [Img -> Media], unseen : BOOLEAN,
            out : {"no", "yes", "clock", "reset"}, nothing : {"no", "saved", "unsaved", "reread"},
            looked : [Img -> {"yes", "no", "ua"}]]

(* The medium media_poll last saw on a LUN whose medium it saw.             *)
LastSeen(d, h, l) == IF l = "card" THEN <<h.polled>> ELSE <<h.polled, d.cur>>
Still(d, l)   == d.lun[l].was /\ (l = "card" \/ ~d.moved)

(* `was` is what media_poll saw last: `polled` and `shown` of the history.  *)
SawCard(d, h)  == \A l \in Lun : d.lun[l].was => h.polled # NoCard
SawImage(d, h) ==
  \A l \in Img : /\ ~d.lun[l].was => h.shown[l] = Nothing
                 /\ Still(d, l) => h.shown[l] = LastSeen(d, h, l)
(* What the host knows, and what it has taken on board.                     *)
Knows(d, h) ==
  ~h.unseen /\ d.conf => \A l \in Lun : Still(d, l) /\ ~d.lun[l].ua => l \in h.fresh \/ h.known[l] = LastSeen(d, h, l)
Took(d, h) ==
  ~h.unseen => \A l \in Img : Still(d, l) /\ ~d.lun[l].stale => h.cap[l] = LastSeen(d, h, l)
(* A LUN the host is owed is one media_poll holds for changed, for at least *)
(* as long; what the history counts more when a card was exchanged unseen   *)
(* is still there for media_poll.                                           *)
Owed(d, h, heard) ==
  d.conf => \A l \in h.waits \ heard : \/ d.lun[l].owed /\ h.since[l] <= d.lun[l].age
                                       \/ h.unseen /\ d.lun[l].was /\ h.since[l] = 0
NoWait(h) == \A l \in Img \ h.waits : h.since[l] = 0
StaysOut(d, h) == h.out = "yes" /\ d.conf => d.bounce = Unset /\ d.ejected

(* Nothing mounts by itself: nothing is remembered or waits, and nothing is *)
(* saved either, or the card need not be initialised again.                 *)
NoChoice(d) == d.cfg[d.slot] = 0
Bare(d) == d.last = 0 /\ ~Mounted(d) /\ d.swap.idx = 0 /\ (d.live \/ NoChoice(d))
Many(d) == d.slot # NoCard /\ Len(Files[d.slot]) # 1
NoneLeft(d, h) ==
  /\ h.nothing \in {"saved", "unsaved"} => d.slot # NoCard /\ d.drv \in {NoCard, d.slot} /\ (Many(d) => Bare(d))
  /\ h.nothing = "saved" /\ Many(d) => NoChoice(d)

(* Between two steps of one pass or command.                                *)
Matches(d, h, heard) ==
  /\ d \in DevRec /\ h \in HistRec /\ Sane(d)
  /\ SawCard(d, h) /\ SawImage(d, h) /\ Knows(d, h) /\ Took(d, h) /\ Owed(d, h, heard) /\ NoWait(h)
Kept(d, h, heard) == Matches(d, h, heard) /\ StaysOut(d, h)

Holds(d, h) ==
  /\ Kept(d, h, {}) /\ NoneLeft(d, h)
  /\ h.waits # {} => d.conf /\ ~h.unseen
  /\ \A l \in h.waits : h.since[l] < Ack
  /\ h.out = "yes" => d.conf

MInv == Holds(dev, hist) /\ coop \in BOOLEAN /\ events \in Nat

---------------------------------------------------------------------------
(* The functions of the store: what they leave alone, and that nothing      *)
(* mounts by itself on a card with several images, or none, and no choice.  *)

Stays(d, e) == Many(d) /\ Bare(d) => Bare(e) /\ (NoChoice(d) => NoChoice(e))
Goes(d, e)  == Steps(d, e) /\ Same(d, e)

LEMMA GoesOn ==
  ASSUME NEW d, NEW e, NEW f, Goes(d, e), Goes(e, f)
  PROVE  Goes(d, f)
BY StepsOn DEF Goes

LEMMA GoesNowhere ==
  ASSUME NEW d \in DevRec
  PROVE  Goes(d, d)
BY StepsNone DEF Goes

LEMMA StaysOn ==
  ASSUME NEW d, NEW e, NEW f, e.slot = d.slot, Stays(d, e), Stays(e, f)
  PROVE  Stays(d, f)
BY DEF Stays, Many

(* A card the driver has given up is not live, so a key's "nothing" on it   *)
(* is saved.                                                                *)
LEMMA GoneIsBare ==
  ASSUME NEW d, Sane(d), d.drv = NoCard
  PROVE  Bare(d) => NoChoice(d)
BY DEF Sane, Bare

LEMMA MountIndexGoes ==
  ASSUME NEW d \in DevRec, NEW i
  PROVE  Goes(d, MountIndex(d, i)) /\ (i = 0 => MountIndex(d, i) = d)
<1>1. CASE i \notin DOMAIN List(d)
  <2>1. MountIndex(d, i) = d
    BY <1>1 DEF MountIndex
  <2> QED BY <2>1, GoesNowhere
<1>2. CASE i \in DOMAIN List(d)
  <2> DEFINE u == Unmount(d)
             m == [u EXCEPT !.cur = [name |-> List(d)[i], card |-> d.drv], !.moved = TRUE, !.last = List(d)[i]]
  <2>1. Goes(d, u) /\ u \in DevRec /\ u.live = d.live
    BY UnmountSteps DEF Goes, Steps
  <2>2. List(d)[i] \in Nat /\ d.drv \in Slots /\ i # 0
    BY <1>2, ListTyped DEF DevRec
  <2>3. Goes(u, m)
    <3>1. m \in DevRec
      BY <2>1, <2>2 DEF DevRec, ImgRec
    <3> HIDE DEF u
    <3>2. m.moved
      BY <2>1 DEF DevRec
    <3> QED BY <2>1, <3>1, <3>2 DEF Goes, Steps, Same, DevRec, Sane
  <2>4. Goes(u, Accessed(u))
    BY <2>1, AccessSteps DEF Goes, Accessed, DevRec
  <2>5. MountIndex(d, i) \in {m, Accessed(u)}
    BY <1>2 DEF MountIndex
  <2> HIDE DEF m, u
  <2> QED BY <2>1, <2>2, <2>3, <2>4, <2>5, GoesOn
<1> QED BY <1>1, <1>2

LEMMA MountNameGoes ==
  ASSUME NEW d \in DevRec, NEW n
  PROVE  Goes(d, MountName(d, n)) /\ (n = 0 => MountName(d, n) = d)
<1>1. CASE n \in ToSet(List(d))
  <2>1. n # 0
    BY <1>1, ListTyped
  <2> QED BY <1>1, <2>1, MountIndexGoes DEF MountName
<1>2. CASE n \notin ToSet(List(d))
  BY <1>2, GoesNowhere DEF MountName
<1> QED BY <1>1, <1>2

LEMMA ScanStays ==
  ASSUME NEW d \in DevRec, NEW ok \in BOOLEAN
  PROVE  /\ Stays(d, Accessed(d)) /\ Stays(d, Scan(d, ok)) /\ Goes(d, Accessed(d)) /\ Goes(d, Scan(d, ok))
<1>1. Goes(d, Accessed(d)) /\ Goes(d, Scan(d, ok))
  BY AccessSteps DEF Goes
<1>2. /\ Accessed(d).last = d.last /\ Accessed(d).cfg = d.cfg /\ Accessed(d).swap = d.swap /\ Accessed(d).cur = d.cur
      /\ Scan(d, ok).last = d.last /\ Scan(d, ok).cfg = d.cfg /\ Scan(d, ok).swap = d.swap /\ Scan(d, ok).cur = d.cur
      /\ Accessed(d).slot = d.slot /\ Scan(d, ok).slot = d.slot
      /\ Accessed(d).live = d.live /\ Scan(d, ok).live = d.live
  BY DEF Accessed, Scan, DevRec
<1>3. Scan(d, ok).drv = Accessed(d).drv /\ Accessed(d).drv \in {d.drv, NoCard}
  BY AccessSteps
<1> QED BY <1>1, <1>2, <1>3 DEF Stays, Bare, NoChoice, Mounted

LEMMA UnmountStays ==
  ASSUME NEW d \in DevRec
  PROVE  Stays(d, Unmount(d)) /\ Goes(d, Unmount(d)) /\ Unmount(d) \in DevRec
BY UnmountSteps DEF Goes, Steps, Stays, Bare, NoChoice, Unmount

LEMMA RemountLastGoes ==
  ASSUME NEW d \in DevRec, NEW ok \in BOOLEAN
  PROVE  Goes(d, RemountLast(d, ok)) /\ Stays(d, RemountLast(d, ok))
<1>1. CASE Mounted(d) \/ d.last = 0 \/ d.drv = NoCard
  BY <1>1, GoesNowhere DEF RemountLast, Stays
<1>2. CASE ~(Mounted(d) \/ d.last = 0 \/ d.drv = NoCard)
  <2>1. RemountLast(d, ok) = MountName(Scan(d, ok), d.last)
    BY <1>2 DEF RemountLast
  <2>2. Goes(d, Scan(d, ok)) /\ Scan(d, ok) \in DevRec
    BY ScanStays DEF Goes, Steps
  <2> QED BY <1>2, <2>1, <2>2, MountNameGoes, GoesOn DEF Stays, Bare
<1> QED BY <1>1, <1>2

LEMMA AutoMountGoes ==
  ASSUME NEW d \in DevRec, NEW ok \in BOOLEAN
  PROVE  /\ Goes(d, AutoMount(d, ok))
         /\ d.drv = d.slot /\ Many(d) /\ Bare(d) /\ NoChoice(d) => Bare(AutoMount(d, ok)) /\ NoChoice(AutoMount(d, ok))
<1> DEFINE l == Scan(d, ok)
           on == ToSet(List(l))
<1>1. Goes(d, l) /\ l \in DevRec /\ Stays(d, l)
  BY ScanStays DEF Goes, Steps
<1>2. CASE ~Scanned(l)
  BY <1>1, <1>2 DEF AutoMount, Stays
<1>3. ASSUME Scanned(l), d.drv = d.slot, Many(d), Bare(d), NoChoice(d)
      PROVE  AutoMount(d, ok) = l
  <2>1. l.listed = d.drv /\ l.drv = d.drv /\ d.drv \in Cards
    BY <1>3, AccessSteps DEF Scanned, DevRec, Slots
  <2>2. l.cfg[l.drv] = 0 /\ l.last = 0 /\ Len(List(l)) # 1
    BY <1>1, <1>3, <2>1 DEF Stays, Bare, NoChoice, List, Many, Goes, Steps, Scanned
  <2>3. 0 \notin on
    BY <1>1, ListTyped
  <2> HIDE DEF l
  <2> QED BY <1>3, <2>2, <2>3 DEF AutoMount, l
<1>4. CASE Scanned(l)
  <2>1. AutoMount(d, ok) \in {MountName(l, l.cfg[l.drv]), MountName(l, l.last), MountIndex(l, 1), l}
    BY <1>4 DEF AutoMount
  <2>2. Goes(l, AutoMount(d, ok))
    BY <1>1, <2>1, MountNameGoes, MountIndexGoes, GoesNowhere
  <2> QED BY <1>1, <1>3, <1>4, <2>2, GoesOn DEF Stays
<1> QED BY <1>2, <1>4

LEMMA SwapGoes ==
  ASSUME NEW d \in DevRec, NEW s \in SwapRec
  PROVE  Goes(d, [d EXCEPT !.swap = s]) /\ [d EXCEPT !.swap = s] \in DevRec
<1>1. [d EXCEPT !.swap = s] \in DevRec
  BY DEF DevRec
<1> QED BY <1>1 DEF Goes, Steps, Same, Sane, DevRec

LEMMA SaveChoiceGoes ==
  ASSUME NEW d \in DevRec, NEW n \in Nat, NEW how \in Outcomes
  PROVE  Goes(d, SaveChoice(d, n, how))
<1>1. CASE ~(Scanned(d) /\ d.live /\ how # "kept")
  BY <1>1, GoesNowhere DEF SaveChoice
<1>2. CASE Scanned(d) /\ d.live /\ how # "kept"
  <2> DEFINE k == IF how = "written" THEN n ELSE 0
  <2>1. SaveChoice(d, n, how) = [d EXCEPT !.cfg[d.drv] = k]
    BY <1>2 DEF SaveChoice
  <2>2. k \in Nat
    OBVIOUS
  <2> HIDE DEF k
  <2>3. [d EXCEPT !.cfg[d.drv] = k] \in DevRec
    BY <2>2 DEF DevRec
  <2> QED BY <2>1, <2>3 DEF Goes, Steps, Same, Sane, DevRec
<1> QED BY <1>1, <1>2

LEMMA CycleNextGoes ==
  ASSUME NEW d \in DevRec, NEW ok \in BOOLEAN, NEW how \in Outcomes
  PROVE  Goes(d, CycleNext(d, ok, how))
<1> DEFINE l    == Scan(d, ok)
           next == (KeyPos(l) + 1) % (Len(List(l)) + 1)
           u    == [Unmount(l) EXCEPT !.swap = NoSwap]
<1>1. Goes(d, l) /\ l \in DevRec
  BY ScanStays DEF Goes, Steps
<1>2. Goes(l, Unmount(l)) /\ Unmount(l) \in DevRec
  BY <1>1, UnmountStays
<1>3. Goes(Unmount(l), u) /\ u \in DevRec
  BY <1>2, SwapGoes, Constants
<1>4. Goes(u, ForgetLast(u)) /\ ForgetLast(u) \in DevRec
  <2> HIDE DEF u
  <2>1. ForgetLast(u) \in DevRec
    BY <1>3 DEF ForgetLast, DevRec
  <2> QED BY <1>3, <2>1 DEF ForgetLast, Goes, Steps, Same, Sane, DevRec
<1>5. Goes(ForgetLast(u), SaveChoice(ForgetLast(u), 0, how))
  BY <1>4, SaveChoiceGoes
<1>6. next \in Nat
  <2>1. KeyPos(l) \in Nat /\ Len(List(l)) \in Nat
    BY <1>1, ListTyped DEF KeyPos
  <2> HIDE DEF l
  <2> QED BY <2>1
<1>7. Goes(u, [u EXCEPT !.swap = [idx |-> next, left |-> Gap]])
  <2>1. [idx |-> next, left |-> Gap] \in SwapRec
    BY <1>6, Constants DEF SwapRec
  <2> HIDE DEF u, next
  <2> QED BY <1>3, <2>1, SwapGoes
<1>8. CycleNext(d, ok, how) \in {d, l, SaveChoice(ForgetLast(u), 0, how), [u EXCEPT !.swap = [idx |-> next, left |-> Gap]]}
  BY DEF CycleNext
<1> HIDE DEF l, u, next
<1>9. Goes(d, Unmount(l)) /\ Goes(d, u) /\ Goes(d, ForgetLast(u)) /\ Goes(d, SaveChoice(ForgetLast(u), 0, how))
  BY <1>1, <1>2, <1>3, <1>4, <1>5, GoesOn
<1>10. Goes(d, [u EXCEPT !.swap = [idx |-> next, left |-> Gap]])
  BY <1>7, <1>9, GoesOn
<1> QED BY <1>1, <1>8, <1>9, <1>10, GoesNowhere

(* The key has chosen "nothing": nothing waits, the card is there, and the  *)
(* choice is saved unless the old record was kept.                          *)
LEMMA CycleNextBare ==
  ASSUME NEW d \in DevRec, NEW ok \in BOOLEAN, NEW how \in Outcomes, Sane(d), Mounted(d),
         ~Mounted(CycleNext(d, ok, how)), ~SwapWaits(CycleNext(d, ok, how))
  PROVE  LET c == CycleNext(d, ok, how) IN
         /\ d.slot # NoCard /\ Bare(c) /\ c.drv \in {NoCard, d.slot}
         /\ how # "kept" => NoChoice(c)
<1> DEFINE l    == Scan(d, ok)
           next == (KeyPos(l) + 1) % (Len(List(l)) + 1)
           u    == [Unmount(l) EXCEPT !.swap = NoSwap]
           c    == CycleNext(d, ok, how)
<1>1. l \in DevRec /\ l.live = d.live /\ l.slot = d.slot /\ Mounted(l)
  BY AccessSteps DEF Steps, Mounted
<1>2. c \in {d, l, SaveChoice(ForgetLast(u), 0, how), [u EXCEPT !.swap = [idx |-> next, left |-> Gap]]}
  BY DEF CycleNext
<1>3. c # d /\ c # l
  BY <1>1
<1>4. c = [u EXCEPT !.swap = [idx |-> next, left |-> Gap]] => next = 0
  <2>1. Unmount(l) \in DevRec
    BY <1>1, UnmountStays
  <2>2. c = [u EXCEPT !.swap = [idx |-> next, left |-> Gap]] => c.swap.idx = next
    <3> HIDE DEF l, next, c
    <3> QED BY <2>1, Constants DEF DevRec
  <2> HIDE DEF next
  <2> QED BY <2>2 DEF SwapWaits
<1>5. d.drv # NoCard /\ List(l) # <<>> /\ next = 0 /\ c = SaveChoice(ForgetLast(u), 0, how)
  BY <1>2, <1>3, <1>4 DEF CycleNext
<1>6. Scanned(l) /\ l.live /\ l.drv = l.slot /\ l.slot # NoCard
  <2>1. l.listed # NoCard
    BY <1>5 DEF List
  <2>2. d.live /\ l.drv = d.drv
    BY <2>1, AccessSteps
  <2> QED BY <1>1, <2>1, <2>2 DEF Scanned, Sane
<1>7. u \in DevRec /\ ~Mounted(u) /\ u.swap.idx = 0 /\ u.drv = l.drv /\ u.slot = l.slot /\ u.live = l.live /\ u.listed = l.listed
  <2>1. Unmount(l) \in DevRec /\ ~Mounted(Unmount(l)) /\ Unmount(l).drv = l.drv /\ Unmount(l).slot = l.slot
        /\ Unmount(l).live = l.live /\ Unmount(l).listed = l.listed
    BY <1>1, UnmountSteps DEF Steps
  <2>2. u \in DevRec
    BY <2>1, SwapGoes, Constants
  <2> HIDE DEF l
  <2> QED BY <2>1, <2>2 DEF Mounted, DevRec, NoSwap
<1> HIDE DEF u, next
<1>8. u.drv \in Cards /\ ForgetLast(u) = [u EXCEPT !.last = 0]
  BY <1>6, <1>7 DEF DevRec, Slots, ForgetLast
<1>9. /\ c.last = 0 /\ c.cur = u.cur /\ c.swap = u.swap /\ c.slot = u.slot /\ c.live = u.live
      /\ how # "kept" => c.cfg[u.drv] = 0
  <2> DEFINE f == [u EXCEPT !.last = 0]
  <2>1. /\ f.last = 0 /\ f.cur = u.cur /\ f.swap = u.swap /\ f.slot = u.slot /\ f.live = u.live /\ f.cfg = u.cfg
        /\ f.drv = u.drv /\ Scanned(f) /\ f.live /\ f \in DevRec
    BY <1>6, <1>7 DEF Scanned, DevRec
  <2> HIDE DEF f
  <2>2. c = IF how # "kept" THEN [f EXCEPT !.cfg[f.drv] = 0] ELSE f
    BY <1>5, <1>8, <2>1 DEF SaveChoice, f
  <2> HIDE DEF c
  <2> QED BY <1>8, <2>1, <2>2 DEF DevRec
<1>10. Bare(c) /\ (how # "kept" => NoChoice(c))
  <2> HIDE DEF l, c
  <2> QED BY <1>6, <1>7, <1>9 DEF Bare, NoChoice, Mounted
<1>11. d.drv = d.slot
  BY <1>1, <1>6, AccessSteps DEF Sane
<1>12. c.drv \in {NoCard, d.slot}
  BY <1>11, CycleNextGoes DEF Goes, Steps
<1> QED BY <1>1, <1>6, <1>10, <1>12

LEMMA DeferredMountGoes ==
  ASSUME NEW d \in DevRec, NEW how \in Outcomes
  PROVE  Goes(d, DeferredMount(d, how))
<1> DEFINE e == [d EXCEPT !.swap = NoSwap]
           m == MountIndex(e, d.swap.idx)
<1>1. Goes(d, e) /\ e \in DevRec
  BY SwapGoes, Constants
<1>2. Goes(e, m) /\ m \in DevRec
  BY <1>1, MountIndexGoes DEF Goes, Steps
<1>3. m.cur.name \in Nat
  BY <1>2 DEF DevRec, ImgRec
<1>4. Goes(m, SaveChoice(m, m.cur.name, how))
  BY <1>2, <1>3, SaveChoiceGoes
<1>5. DeferredMount(d, how) \in {m, SaveChoice(m, m.cur.name, how)}
  BY DEF DeferredMount
<1> HIDE DEF e, m
<1> QED BY <1>1, <1>2, <1>4, <1>5, GoesOn

LEMMA TryInitGoes ==
  ASSUME NEW d \in DevRec, NEW up \in BOOLEAN, NEW ok \in BOOLEAN
  PROVE  Goes(d, TryInit(d, up, ok)) /\ ((Bare(d) => NoChoice(d)) => Stays(d, TryInit(d, up, ok)))
<1> DEFINE e == [d EXCEPT !.drv = d.slot, !.live = TRUE]
<1>1. CASE ~(up /\ d.slot # NoCard)
  BY <1>1, GoesNowhere DEF TryInit, Stays
<1>2. CASE up /\ d.slot # NoCard
  <2>1. e \in DevRec
    BY DEF DevRec
  <2>2. /\ Goes(d, e) /\ e.drv = e.slot /\ Many(e) = Many(d)
        /\ Bare(d) /\ NoChoice(d) => Bare(e) /\ NoChoice(e)
    BY <1>2, <2>1 DEF Goes, Steps, Same, Sane, DevRec, Bare, NoChoice, Mounted, Many
  <2> DEFINE a == AutoMount(e, ok)
  <2>3. Goes(e, a) /\ (Many(e) /\ Bare(e) /\ NoChoice(e) => Bare(a) /\ NoChoice(a))
    BY <2>1, <2>2, AutoMountGoes
  <2>4. TryInit(d, up, ok) = a
    BY <1>2 DEF TryInit
  <2> HIDE DEF e, a
  <2> QED BY <2>2, <2>3, <2>4, GoesOn DEF Stays
<1> QED BY <1>1, <1>2

LEMMA ReinitGoes ==
  ASSUME NEW d \in DevRec, NEW up \in BOOLEAN, NEW ok \in BOOLEAN
  PROVE  Goes(d, Reinit(d, up, ok)) /\ (NoChoice(d) => Stays(d, Reinit(d, up, ok)))
<1> DEFINE e == [d EXCEPT !.drv = NoCard, !.live = FALSE]
<1>1. e \in DevRec
  BY Constants DEF DevRec
<1>2. Goes(d, e) /\ e.slot = d.slot /\ (Bare(e) => NoChoice(e)) /\ (NoChoice(d) => Stays(d, e))
  BY <1>1 DEF Goes, Steps, Same, Sane, DevRec, Stays, Bare, NoChoice, Mounted, Many
<1>3. Reinit(d, up, ok) = TryInit(e, up, ok)
  BY DEF Reinit
<1> HIDE DEF e
<1> QED BY <1>1, <1>2, <1>3, TryInitGoes, GoesOn, StaysOn

LEMMA StoreTickGoes ==
  ASSUME NEW d \in DevRec
  PROVE  Goes(d, StoreTick(d)) /\ Stays(d, StoreTick(d))
<1>1. CASE ~(SwapWaits(d) /\ d.swap.left > 0)
  BY <1>1, GoesNowhere DEF StoreTick, Stays
<1>2. CASE SwapWaits(d) /\ d.swap.left > 0
  <2> DEFINE s == [d.swap EXCEPT !.left = @ - 1]
  <2>1. s \in SwapRec /\ ~Bare(d)
    BY <1>2 DEF DevRec, SwapRec, SwapWaits, Bare
  <2>2. StoreTick(d) = [d EXCEPT !.swap = s]
    BY <1>2 DEF StoreTick, DevRec, SwapRec
  <2> QED BY <2>1, <2>2, SwapGoes DEF Stays
<1> QED BY <1>1, <1>2

---------------------------------------------------------------------------
(* Media, and what media_poll makes of them. *)

LEMMA MediumTyped ==
  ASSUME NEW d \in DevRec, NEW l \in Lun
  PROVE  /\ Medium(d, l) \in Media /\ Nothing \in Media
         /\ ~Present(d, l) => Medium(d, l) = Nothing
         /\ Present(d, l) => /\ Medium(d, l) # Nothing /\ d.drv # NoCard
                             /\ Medium(d, l) = IF l = "card" THEN <<d.drv>> ELSE <<d.drv, d.cur>>
<1>1. d.drv \in Slots /\ d.cur \in ImgRec
  BY DEF DevRec
<1>2. <<d.drv>> \in Media /\ <<d.drv, d.cur>> \in Media /\ Nothing \in Media
  BY <1>1 DEF Media
<1>3. Len(<<d.drv>>) = 1 /\ Len(<<d.drv, d.cur>>) = 2 /\ Len(Nothing) = 0
  BY DEF Nothing
<1>4. <<d.drv>> # Nothing /\ <<d.drv, d.cur>> # Nothing
  BY <1>3
<1> QED BY <1>2, <1>4 DEF Medium, Present

LEMMA LunPollIs ==
  ASSUME NEW d \in DevRec, NEW l \in Lun
  PROVE  LET u == d.lun[l]
             v == LunPoll(d, l)
         IN /\ v \in LunState /\ v.was = Present(d, l)
            /\ ~v.ua => ~u.ua /\ u.was = Present(d, l)
            /\ l \in Img /\ v.was /\ (~v.ua \/ ~v.stale) => ~d.moved
            /\ l \in Img /\ v.was /\ ~v.stale => u.was /\ ~u.stale
            /\ u.owed => v.owed /\ v.age = u.age
            /\ l \in Img /\ (v.was # u.was \/ (d.moved /\ u.was)) => v.owed
            /\ ~u.owed /\ v.owed => v.age = 0
<1>1. d.lun[l] \in LunState /\ 0 \in 0 .. Ack /\ Present(d, l) \in BOOLEAN /\ d.moved \in BOOLEAN
  BY Constants DEF DevRec, Present, Mounted
<1>2. PICK u \in LunState : u = d.lun[l]
  BY <1>1
<1>3. LunChanged(u) \in LunState /\ LunChanged(u).owed /\ (u.owed => LunChanged(u).age = u.age)
      /\ LunChanged(u).was = u.was /\ LunChanged(u).ua = u.ua /\ LunChanged(u).stale = u.stale
      /\ (~u.owed => LunChanged(u).age = 0)
  BY <1>1, <1>2 DEF LunChanged, LunState
<1>4. PICK w \in LunState : w = LunChanged(u)
  BY <1>3
<1>5. l \in Img <=> l # "card"
  BY DEF Lun, Img
<1>6. CASE l = "card"
  BY <1>1, <1>2, <1>5, <1>6 DEF LunPoll, SeenCome, SeenGone, LunState
<1>7. CASE l # "card"
  BY <1>1, <1>2, <1>3, <1>4, <1>5, <1>7 DEF LunPoll, SeenCome, SeenGone, Replaced, LunState
<1> QED BY <1>6, <1>7

(* What media_poll does before it looks at the LUNs.                        *)
Looked(d) == BounceEnds(CardGone(d))

LEMMA LookedGoes ==
  ASSUME NEW d \in DevRec
  PROVE  LET e == Looked(d) IN
         /\ Steps(d, e) /\ Stays(d, e) /\ e.drv = d.drv /\ e.live = d.live
         /\ d.drv # NoCard => e.cur = d.cur /\ e.moved = d.moved
         /\ e.drv # NoCard /\ d.bounce = Unset => e.bounce = Unset /\ e.ejected = d.ejected
<1> DEFINE g == CardGone(d)
<1>1. g \in DevRec /\ Steps(d, g) /\ Stays(d, g) /\ g.drv = d.drv /\ g.live = d.live /\ (d.drv # NoCard => g = d)
  <2>1. CASE d.drv # NoCard
    BY <2>1, StepsNone DEF CardGone, Stays
  <2>2. CASE d.drv = NoCard
    <3> DEFINE u == Unmount(d)
    <3>1. u \in DevRec /\ Steps(d, u) /\ Stays(d, u) /\ u.drv = d.drv /\ u.live = d.live
      BY UnmountSteps, UnmountStays
    <3>2. g = [u EXCEPT !.ejected = FALSE]
      BY <2>2 DEF CardGone
    <3> HIDE DEF u, g
    <3>3. g \in DevRec
      BY <3>1, <3>2 DEF DevRec
    <3> QED BY <2>2, <3>1, <3>2, <3>3 DEF DevRec, Steps, Sane, Stays, Bare, NoChoice, Mounted
  <2> QED BY <2>1, <2>2
<1>2. Looked(d) = BounceEnds(g)
  BY DEF Looked
<1>3. Unset \in Nat /\ Unset # 0
  BY Constants DEF Unset
<1> HIDE DEF g
<1>4. BounceEnds(g) \in DevRec
  BY <1>1, <1>3 DEF BounceEnds, DevRec
<1>5. \/ BounceEnds(g) = g
      \/ BounceEnds(g) = [g EXCEPT !.bounce = Unset, !.ejected = FALSE] /\ g.bounce = 0
  BY DEF BounceEnds
<1>6. CASE BounceEnds(g) = g
  BY <1>1, <1>2, <1>6
<1>7. CASE BounceEnds(g) = [g EXCEPT !.bounce = Unset, !.ejected = FALSE] /\ g.bounce = 0
  <2> DEFINE e == [g EXCEPT !.bounce = Unset, !.ejected = FALSE]
  <2>1. Looked(d) = e /\ e \in DevRec /\ g.bounce = 0
    BY <1>2, <1>4, <1>7
  <2>2. /\ e.lun = g.lun /\ e.conf = g.conf /\ e.slot = g.slot /\ e.moved = g.moved /\ e.cur = g.cur /\ e.live = g.live
        /\ e.drv = g.drv /\ e.last = g.last /\ e.swap = g.swap /\ e.cfg = g.cfg
    BY <1>1 DEF DevRec
  <2> HIDE DEF e
  <2>3. Steps(d, e) /\ Stays(d, e)
    BY <1>1, <2>1, <2>2 DEF Steps, Sane, Stays, Bare, NoChoice, Mounted
  <2> QED BY <1>1, <1>3, <2>1, <2>2, <2>3
<1> QED BY <1>5, <1>6, <1>7

LEMMA MediaPollIs ==
  ASSUME NEW d \in DevRec
  PROVE  LET e == Looked(d)
             p == MediaPoll(d)
         IN /\ p \in DevRec /\ p.slot = d.slot /\ p.conf = d.conf /\ p.drv = d.drv /\ p.live = d.live
            /\ p.cur = e.cur /\ p.moved = FALSE /\ p.ejected = e.ejected /\ p.bounce = e.bounce /\ Stays(e, p)
            /\ \A l \in Lun : /\ p.lun[l] = LunPoll(e, l) /\ p.lun[l] \in LunState
                              /\ Present(p, l) = Present(e, l) /\ Medium(p, l) = Medium(e, l)
<1> DEFINE e == Looked(d)
           p == MediaPoll(d)
<1>1. e \in DevRec /\ e.slot = d.slot /\ e.conf = d.conf /\ e.drv = d.drv /\ e.live = d.live
  BY LookedGoes DEF Steps
<1>2. p = [e EXCEPT !.moved = FALSE, !.event = Event(e), !.lun = [l \in Lun |-> LunPoll(e, l)],
                    !.ejhost = @ /\ \A l \in Img : Present(e, l) => e.lun[l].was]
  BY DEF MediaPoll, Looked
<1> HIDE DEF e, p
<1>3. [l \in Lun |-> LunPoll(e, l)] \in [Lun -> LunState]
  BY <1>1, LunPollIs
<1>4. Event(e) \in {"none", "new", "removed"}
  BY <1>1 DEF Event, DevRec
<1>5. p \in DevRec
  BY <1>1, <1>2, <1>3, <1>4 DEF DevRec
<1>6. p.slot = e.slot /\ p.conf = e.conf /\ p.drv = e.drv /\ p.live = e.live /\ p.cur = e.cur /\ p.moved = FALSE
      /\ p.ejected = e.ejected /\ p.bounce = e.bounce /\ p.last = e.last /\ p.swap = e.swap /\ p.cfg = e.cfg
      /\ p.lun = [l \in Lun |-> LunPoll(e, l)]
  BY <1>1, <1>2 DEF DevRec
<1>7. \A l \in Lun : Present(p, l) = Present(e, l) /\ Medium(p, l) = Medium(e, l)
  BY <1>6 DEF Present, Medium, Mounted
<1>8. Stays(e, p)
  BY <1>6 DEF Stays, Bare, NoChoice, Mounted
<1> QED BY <1>1, <1>3, <1>5, <1>6, <1>7, <1>8 DEF e, p

(* The history of a poll. *)
LEMMA PolledIs ==
  ASSUME NEW d \in DevRec, NEW h \in HistRec
  PROVE  LET q == Polled(h, d) IN
         /\ q \in HistRec /\ q.polled = d.drv
         /\ \A l \in Img : q.shown[l] = Medium(d, l)
         /\ q.waits = h.waits \cup {l \in Img : Medium(d, l) # h.shown[l]}
         /\ q.unseen = (d.drv # NoCard /\ (h.unseen \/ h.polled \notin {NoCard, d.drv}))
         /\ q.out = (IF d.drv = NoCard THEN "no" ELSE h.out)
         /\ q.known = h.known /\ q.fresh = h.fresh /\ q.cap = h.cap /\ q.since = h.since /\ q.early = h.early
         /\ q.nothing = h.nothing /\ q.looked = h.looked
<1>1. [l \in Img |-> Medium(d, l)] \in [Img -> Media]
  BY MediumTyped DEF Lun
<1>2. d.drv \in Slots
  BY DEF DevRec
<1> HIDE DEF Media
<1> DEFINE seen == [l \in Img |-> Medium(d, l)]
           due  == h.waits \cup {l \in Img : Medium(d, l) # h.shown[l]}
           more == d.drv # NoCard /\ (h.unseen \/ h.polled \notin {NoCard, d.drv})
           out  == IF d.drv = NoCard THEN "no" ELSE h.out
<1>3. Polled(h, d) = [h EXCEPT !.polled = d.drv, !.shown = seen, !.waits = due, !.unseen = more, !.out = out]
  BY DEF Polled, HistRec
<1>4. due \in SUBSET Img /\ more \in BOOLEAN /\ out \in {"no", "yes", "clock", "reset"}
  BY DEF HistRec
<1>5. \A l \in Img : seen[l] = Medium(d, l)
  OBVIOUS
<1> HIDE DEF seen, due, more, out
<1>6. /\ Polled(h, d) \in HistRec /\ Polled(h, d).polled = d.drv /\ Polled(h, d).shown = seen
      /\ Polled(h, d).waits = due /\ Polled(h, d).unseen = more /\ Polled(h, d).out = out
  BY <1>1, <1>2, <1>3, <1>4 DEF HistRec, seen
<1>7. LET q == Polled(h, d) IN
      /\ q.known = h.known /\ q.fresh = h.fresh /\ q.cap = h.cap /\ q.since = h.since /\ q.early = h.early
      /\ q.nothing = h.nothing /\ q.looked = h.looked
  BY <1>3 DEF HistRec
<1> QED BY <1>5, <1>6, <1>7 DEF due, more, out

---------------------------------------------------------------------------
(* What a change of the store, and a poll, keep. *)

LEMMA MatchesMoves ==
  ASSUME NEW d, NEW e \in DevRec, NEW h, NEW heard, Matches(d, h, heard), Sane(e),
         e.lun = d.lun, e.conf = d.conf, ~e.moved => ~d.moved /\ e.cur = d.cur
  PROVE  Matches(e, h, heard)
<1>1. \A l \in Lun : /\ e.lun[l] = d.lun[l]
                     /\ Still(e, l) => Still(d, l) /\ LastSeen(e, h, l) = LastSeen(d, h, l)
  BY DEF Still, LastSeen
<1>2. e \in DevRec /\ Sane(e) /\ e.conf = d.conf
  OBVIOUS
<1>3. Img \subseteq Lun
  BY DEF Lun
<1>4. SawCard(e, h) /\ SawImage(e, h)
  BY <1>1, <1>3 DEF Matches, SawCard, SawImage
<1>5. Knows(e, h)
  BY <1>1, <1>2 DEF Matches, Knows
<1>6. Took(e, h)
  BY <1>1, <1>3 DEF Matches, Took
<1>7. Owed(e, h, heard)
  <2>1. \A l \in h.waits : l \in Lun
    BY <1>3 DEF Matches, HistRec
  <2> QED BY <1>1, <2>1 DEF Matches, Owed
<1> QED BY <1>2, <1>4, <1>5, <1>6, <1>7 DEF Matches

LEMMA MatchesGoes ==
  ASSUME NEW d, NEW e, NEW h, NEW heard, Matches(d, h, heard), Steps(d, e)
  PROVE  Matches(e, h, heard)
BY MatchesMoves DEF Steps, Matches

LEMMA KeptGoes ==
  ASSUME NEW d, NEW e, NEW h, NEW heard, Kept(d, h, heard), Goes(d, e)
  PROVE  Kept(e, h, heard)
BY MatchesGoes DEF Kept, Goes, StaysOut, Same, Steps

LEMMA NoneGoes ==
  ASSUME NEW d, NEW e, NEW h, NoneLeft(d, h), Steps(d, e), Stays(d, e)
  PROVE  NoneLeft(e, h)
BY DEF NoneLeft, Stays, Many, Steps

(* After a poll, until something changes.                                   *)
Fresh(p, q) ==
  /\ p.moved = FALSE /\ q.polled = p.drv /\ (q.unseen => p.drv # NoCard)
  /\ \A l \in Lun : p.lun[l].was = Present(p, l)
  /\ \A l \in Img : q.shown[l] = Medium(p, l)

LEMMA PollKept ==
  ASSUME NEW d, NEW h, Matches(d, h, {})
  PROVE  LET p == MediaPoll(d)
             q == Polled(h, p)
         IN /\ Matches(p, q, {}) /\ Fresh(p, q) /\ q.since = h.since /\ p.drv = d.drv
            /\ StaysOut(d, h) => StaysOut(p, q)
            /\ NoneLeft(d, h) => NoneLeft(p, q)
<1> DEFINE e == Looked(d)
           p == MediaPoll(d)
           q == Polled(h, p)
<1>1. /\ Steps(d, e) /\ Stays(d, e) /\ e.drv = d.drv /\ e \in DevRec
      /\ (e.drv # NoCard /\ d.bounce = Unset => e.bounce = Unset /\ e.ejected = d.ejected)
  BY LookedGoes DEF Steps, Matches
<1>2. Matches(e, h, {})
  BY <1>1, MatchesGoes
<1>3. /\ p \in DevRec /\ p.slot = e.slot /\ p.conf = e.conf /\ p.drv = e.drv /\ p.live = e.live
      /\ p.cur = e.cur /\ p.moved = FALSE /\ p.ejected = e.ejected /\ p.bounce = e.bounce /\ Stays(e, p)
      /\ \A l \in Lun : /\ p.lun[l] = LunPoll(e, l) /\ p.lun[l] \in LunState
                        /\ Present(p, l) = Present(e, l) /\ Medium(p, l) = Medium(e, l)
  <2>1. e.slot = d.slot /\ e.conf = d.conf /\ e.live = d.live
    BY LookedGoes DEF Steps, Matches
  <2> QED BY <1>1, <2>1, MediaPollIs DEF Matches
<1>4. /\ q \in HistRec /\ q.polled = p.drv
      /\ \A l \in Img : q.shown[l] = Medium(p, l)
      /\ q.waits = h.waits \cup {l \in Img : Medium(p, l) # h.shown[l]}
      /\ q.unseen = (p.drv # NoCard /\ (h.unseen \/ h.polled \notin {NoCard, p.drv}))
      /\ q.out = (IF p.drv = NoCard THEN "no" ELSE h.out)
      /\ q.known = h.known /\ q.fresh = h.fresh /\ q.cap = h.cap /\ q.since = h.since
      /\ q.nothing = h.nothing
  BY <1>3, PolledIs DEF Matches
<1> HIDE DEF e, p, q
<1>5. \A l \in Lun : LET u == e.lun[l]
                         v == p.lun[l]
                     IN /\ v.was = Present(p, l)
                        /\ ~v.ua => ~u.ua /\ u.was = Present(p, l)
                        /\ l \in Img /\ v.was /\ (~v.ua \/ ~v.stale) => ~e.moved
                        /\ l \in Img /\ v.was /\ ~v.stale => u.was /\ ~u.stale
                        /\ u.owed => v.owed /\ v.age = u.age
                        /\ l \in Img /\ (v.was # u.was \/ (e.moved /\ u.was)) => v.owed
                        /\ v.age \in Nat
  <2>1. \A l \in Lun : p.lun[l].age \in Nat
    <3>1. \A u \in LunState : u.age \in Nat
      BY Constants DEF LunState
    <3> QED BY <1>3, <3>1
  <2> QED BY <1>1, <1>3, <2>1, LunPollIs
<1>6. \A l \in Lun : /\ ~Present(p, l) => Medium(p, l) = Nothing
                     /\ Present(p, l) => /\ p.drv # NoCard
                                         /\ Medium(p, l) = IF l = "card" THEN <<p.drv>> ELSE <<p.drv, p.cur>>
  BY <1>3, MediumTyped
<1>7. Img \subseteq Lun /\ \A l \in Img : l # "card"
  BY DEF Lun, Img
<1>8. Fresh(p, q)
  BY <1>3, <1>4, <1>5, <1>7 DEF Fresh
<1>9. \A l \in Lun : Present(p, l) => LastSeen(p, q, l) = Medium(p, l)
  BY <1>4, <1>6 DEF LastSeen
<1>10. SawCard(p, q) /\ SawImage(p, q)
  BY <1>4, <1>5, <1>6, <1>7, <1>9 DEF SawCard, SawImage, Still
<1>11. ASSUME NEW l \in Lun, ~q.unseen, p.lun[l].was, e.lun[l].was
       PROVE  ~h.unseen /\ LastSeen(p, q, l) = LastSeen(e, h, l)
  <2>1. p.drv # NoCard /\ h.polled # NoCard
    BY <1>2, <1>5, <1>6, <1>11 DEF Matches, SawCard
  <2> QED BY <1>3, <1>4, <1>11, <2>1 DEF LastSeen
<1>12. Knows(p, q)
  <2> SUFFICES ASSUME ~q.unseen, p.conf, NEW l \in Lun, Still(p, l), ~p.lun[l].ua
               PROVE  l \in q.fresh \/ q.known[l] = LastSeen(p, q, l)
    BY DEF Knows
  <2>1. p.lun[l].was /\ e.lun[l].was /\ ~e.lun[l].ua /\ (l \in Img => ~e.moved)
    BY <1>5 DEF Still
  <2>2. Still(e, l)
    BY <2>1 DEF Still, Lun
  <2> QED BY <1>2, <1>3, <1>4, <1>11, <2>1, <2>2 DEF Matches, Knows
<1>13. Took(p, q)
  <2> SUFFICES ASSUME ~q.unseen, NEW l \in Img, Still(p, l), ~p.lun[l].stale
               PROVE  q.cap[l] = LastSeen(p, q, l)
    BY DEF Took
  <2>1. p.lun[l].was /\ e.lun[l].was /\ ~e.lun[l].stale /\ ~e.moved
    BY <1>5, <1>7 DEF Still
  <2>2. Still(e, l)
    BY <2>1 DEF Still
  <2> QED BY <1>2, <1>4, <1>7, <1>11, <2>1, <2>2 DEF Matches, Took
<1>14. Owed(p, q, {})
  <2> SUFFICES ASSUME p.conf, NEW l \in q.waits
               PROVE  \/ p.lun[l].owed /\ q.since[l] <= p.lun[l].age
                      \/ q.unseen /\ p.lun[l].was /\ q.since[l] = 0
    BY DEF Owed
  <2>1. l \in Img /\ l \in Lun /\ p.lun[l].age \in Nat /\ q.since[l] = h.since[l]
    BY <1>4, <1>5, <1>7 DEF HistRec
  <2>2. \/ e.lun[l].owed /\ h.since[l] <= e.lun[l].age
        \/ h.unseen /\ e.lun[l].was /\ h.since[l] = 0
        \/ Medium(p, l) # h.shown[l] /\ h.since[l] = 0
    BY <1>2, <1>3, <1>4, <2>1 DEF Matches, Owed, NoWait
  <2>3. CASE e.lun[l].owed /\ h.since[l] <= e.lun[l].age
    BY <1>5, <2>1, <2>3
  <2>4. CASE h.since[l] = 0 /\ p.lun[l].owed
    BY <2>1, <2>4
  <2>5. CASE h.since[l] = 0 /\ ~p.lun[l].owed
    <3>1. p.lun[l].was = e.lun[l].was /\ (e.lun[l].was => ~e.moved)
      BY <1>5, <2>1, <2>5
    <3>2. p.lun[l].was /\ p.drv # NoCard /\ (h.unseen \/ Medium(p, l) # h.shown[l])
      <4>1. ~e.lun[l].was => h.shown[l] = Nothing
        BY <1>2, <2>1 DEF Matches, SawImage
      <4> QED BY <1>5, <1>6, <2>1, <2>2, <2>5, <3>1, <4>1
    <3>3. ~h.unseen => h.polled \notin {NoCard, p.drv}
      <4>1. h.shown[l] = LastSeen(e, h, l) /\ h.polled # NoCard
        BY <1>2, <2>1, <3>1, <3>2 DEF Matches, SawCard, SawImage, Still
      <4> QED BY <1>3, <1>4, <1>5, <1>7, <1>9, <2>1, <3>2, <4>1 DEF LastSeen
    <3> QED BY <1>4, <2>1, <2>5, <3>2, <3>3
  <2> QED BY <2>2, <2>3, <2>4, <2>5
<1>15. NoWait(q)
  BY <1>2, <1>4 DEF Matches, NoWait
<1>16. StaysOut(d, h) => StaysOut(p, q)
  BY <1>1, <1>3, <1>4 DEF StaysOut, Steps
<1>17. Sane(p)
  BY <1>2, <1>3 DEF Matches, Sane
<1>18. NoneLeft(d, h) => NoneLeft(p, q)
  <2>1. p.slot = d.slot /\ Stays(d, p)
    BY <1>1, <1>3, StaysOn DEF Steps
  <2> QED BY <1>1, <1>3, <1>4, <2>1 DEF NoneLeft, Stays, Many, Steps
<1> QED BY <1>1, <1>3, <1>4, <1>8, <1>10, <1>12, <1>13, <1>14, <1>15, <1>16, <1>17, <1>18 DEF Matches, p, q

---------------------------------------------------------------------------
(* What the host learns in a command, and what is kept of it. *)

Agrees(h, r) ==
  /\ r \in HistRec /\ r.waits = h.waits /\ r.since = h.since /\ r.polled = h.polled /\ r.shown = h.shown
  /\ r.unseen = h.unseen /\ r.out = h.out /\ r.nothing = h.nothing
Keeps(h, r, k) == r.known[k] = h.known[k] /\ (k \in h.fresh => k \in r.fresh)
Told(h, r, d, l) == r.known[l] = Medium(d, l) /\ \A k \in Lun \ {l} : Keeps(h, r, k)

LEMMA TellsIs ==
  ASSUME NEW d \in DevRec, NEW h \in HistRec, NEW l \in Lun
  PROVE  /\ Agrees(h, Tells(h, d, l)) /\ Told(h, Tells(h, d, l), d, l) /\ Tells(h, d, l).cap = h.cap
         /\ Agrees(h, Learns(h, d, l)) /\ Learns(h, d, l).cap = h.cap
         /\ Told(h, Learns(h, d, l), d, l) \/ Learns(h, d, l) = h
<1>1. Medium(d, l) \in Media
  BY MediumTyped
<1> HIDE DEF Media
<1>2. Tells(h, d, l) \in HistRec
  BY <1>1 DEF Tells, HistRec
<1> HIDE DEF Medium
<1>3. Agrees(h, Tells(h, d, l)) /\ Told(h, Tells(h, d, l), d, l) /\ Tells(h, d, l).cap = h.cap
  BY <1>2 DEF Tells, Agrees, Told, Keeps, HistRec
<1>4. Agrees(h, h)
  BY DEF Agrees
<1>5. Learns(h, d, l) \in {h, Tells(h, d, l)}
  BY DEF Learns
<1> QED BY <1>3, <1>4, <1>5

LEMMA LooksIs ==
  ASSUME NEW h \in HistRec, NEW l \in Lun, NEW how \in {"yes", "no", "ua"}
  PROVE  /\ Agrees(h, Looks(h, l, how)) /\ Looks(h, l, how).cap = h.cap
         /\ Looks(h, l, how).known = h.known /\ Looks(h, l, how).fresh = h.fresh
         /\ Agrees(h, Glances(h, l)) /\ Glances(h, l).cap = h.cap
         /\ Glances(h, l).known = h.known /\ Glances(h, l).fresh = h.fresh
<1> HIDE DEF Media
<1>1. ASSUME NEW w \in {"yes", "no", "ua"}
      PROVE  /\ Agrees(h, Looks(h, l, w)) /\ Looks(h, l, w).cap = h.cap
             /\ Looks(h, l, w).known = h.known /\ Looks(h, l, w).fresh = h.fresh
  <2>1. Looks(h, l, w) \in HistRec
    BY DEF Looks, HistRec
  <2> QED BY <2>1 DEF Looks, Agrees, HistRec
<1>2. Glances(h, l) \in {h, Looks(h, l, "yes")}
  BY DEF Glances
<1>3. Agrees(h, h)
  BY DEF Agrees
<1> QED BY <1>1, <1>2, <1>3

(* What a command may change of the device besides.                         *)
Relun(p, e, l) ==
  /\ e \in DevRec /\ e.slot = p.slot /\ e.drv = p.drv /\ e.live = p.live /\ e.cur = p.cur /\ e.moved = p.moved
  /\ e.last = p.last /\ e.cfg = p.cfg /\ e.swap = p.swap /\ e.ejected = p.ejected /\ e.bounce = p.bounce
  /\ e.conf = p.conf /\ e.lun[l].was = p.lun[l].was
  /\ \A k \in Lun \ {l} : e.lun[k] = p.lun[k]

LEMMA RelunIs ==
  ASSUME NEW d \in DevRec, NEW l \in Lun
  PROVE  /\ Relun(d, d, l) /\ Relun(d, Attended(d, l), l) /\ Relun(d, LookedAt(d, l), l)
         /\ Attended(d, l).lun[l] = [d.lun[l] EXCEPT !.ua = FALSE]
         /\ LookedAt(d, l).lun[l] = Acked(d.lun[l])
         /\ LET e == [d EXCEPT !.lun[l] = [Acked(@) EXCEPT !.stale = FALSE]]
            IN Relun(d, e, l) /\ e.lun[l] = [Acked(d.lun[l]) EXCEPT !.stale = FALSE]
         /\ LET e == [d EXCEPT !.event = "none"] IN Relun(d, e, l) /\ e.lun = d.lun
<1>1. d.lun \in [Lun -> LunState] /\ d.lun[l] \in LunState /\ 0 \in 0 .. Ack
  BY Constants DEF DevRec
<1>2. /\ [d.lun[l] EXCEPT !.ua = FALSE] \in LunState /\ Acked(d.lun[l]) \in LunState
      /\ [Acked(d.lun[l]) EXCEPT !.stale = FALSE] \in LunState
      /\ [d.lun[l] EXCEPT !.ua = FALSE].was = d.lun[l].was /\ Acked(d.lun[l]).was = d.lun[l].was
      /\ [Acked(d.lun[l]) EXCEPT !.stale = FALSE].was = d.lun[l].was
  BY <1>1 DEF Acked, LunState
<1>3. ASSUME NEW v \in LunState, v.was = d.lun[l].was
      PROVE  LET e == [d EXCEPT !.lun[l] = v] IN Relun(d, e, l) /\ e.lun[l] = v
  <2>1. [d EXCEPT !.lun[l] = v] \in DevRec
    BY <1>1 DEF DevRec
  <2> HIDE DEF LunState
  <2> QED BY <1>1, <1>3, <2>1 DEF Relun, DevRec
<1>4. Attended(d, l) = [d EXCEPT !.lun[l] = [d.lun[l] EXCEPT !.ua = FALSE]]
  BY <1>1 DEF Attended, DevRec
<1>5. LookedAt(d, l) = [d EXCEPT !.lun[l] = Acked(d.lun[l])]
  BY <1>1 DEF LookedAt, DevRec
<1>6. [d EXCEPT !.lun[l] = [Acked(@) EXCEPT !.stale = FALSE]] = [d EXCEPT !.lun[l] = [Acked(d.lun[l]) EXCEPT !.stale = FALSE]]
  BY <1>1 DEF DevRec
<1>7. Relun(d, d, l)
  BY DEF Relun
<1>8. LET e == [d EXCEPT !.event = "none"] IN Relun(d, e, l) /\ e.lun = d.lun
  <2>1. [d EXCEPT !.event = "none"] \in DevRec
    BY DEF DevRec
  <2> QED BY <2>1 DEF Relun, DevRec
<1> QED BY <1>2, <1>3, <1>4, <1>5, <1>6, <1>7, <1>8

LEMMA AttendedIs ==
  ASSUME NEW d \in DevRec, NEW l \in Lun
  PROVE  LET e == Attended(d, l)
         IN  /\ Relun(d, e, l) /\ e.event = d.event /\ e \in DevRec
             /\ e.lun[l] = [d.lun[l] EXCEPT !.ua = FALSE]
<1> DEFINE e == Attended(d, l)
<1>1. e.event = d.event
  BY DEF Attended, DevRec
<1>2. Relun(d, e, l) /\ e.lun[l] = [d.lun[l] EXCEPT !.ua = FALSE]
  BY RelunIs
<1> HIDE DEF e
<1>3. e \in DevRec
  BY <1>2 DEF Relun
<1> QED BY <1>1, <1>2, <1>3 DEF e

(* A command on one LUN: what it leaves without attention has been told,    *)
(* what it leaves not stale has been taken on board, and what it leaves not *)
(* owed has been looked at.                                                 *)
LEMMA RelunKept ==
  ASSUME NEW p, NEW q, NEW e, NEW r, NEW l \in Lun, NEW heard,
         Matches(p, q, {}), Fresh(p, q), Relun(p, e, l),
         r \in HistRec, r.waits = q.waits, r.since = q.since, r.polled = q.polled, r.shown = q.shown, r.unseen = q.unseen,
         \A k \in Lun \ {l} : Keeps(q, r, k),
         Present(p, l) /\ ~e.lun[l].ua => r.known[l] = Medium(p, l) \/ (~p.lun[l].ua /\ Keeps(q, r, l)),
         \A k \in Img \ {l} : r.cap[k] = q.cap[k],
         l \in Img /\ Present(p, l) /\ ~e.lun[l].stale => r.cap[l] = Medium(p, l) \/ (~p.lun[l].stale /\ r.cap[l] = q.cap[l]),
         l \in heard \/ (e.lun[l].owed = p.lun[l].owed /\ e.lun[l].age = p.lun[l].age)
  PROVE  /\ Matches(e, r, heard)
         /\ StaysOut(p, q) /\ (r.out = "yes" => q.out = "yes") => StaysOut(e, r)
         /\ NoneLeft(p, q) /\ r.nothing = q.nothing => NoneLeft(e, r)
<1>1. /\ p \in DevRec /\ q \in HistRec /\ e \in DevRec
      /\ \A k \in Lun : e.lun[k].was = p.lun[k].was /\ (k # l => e.lun[k] = p.lun[k])
      /\ e.cur = p.cur /\ e.moved = FALSE /\ q.polled = p.drv
  BY DEF Matches, Relun, Fresh
<1>2. \A k \in Lun : /\ LastSeen(e, r, k) = LastSeen(p, q, k)
                     /\ Still(e, k) => Present(p, k) /\ LastSeen(p, q, k) = Medium(p, k) /\ Still(p, k)
  BY <1>1, MediumTyped DEF LastSeen, Still, Fresh
<1>3. Sane(e)
  BY DEF Matches, Sane, Relun
<1>4. SawCard(e, r) /\ SawImage(e, r)
  BY <1>1, <1>2 DEF Matches, SawCard, SawImage, Lun
<1>5. Knows(e, r)
  <2> SUFFICES ASSUME ~r.unseen, e.conf, NEW k \in Lun, Still(e, k), ~e.lun[k].ua
               PROVE  k \in r.fresh \/ r.known[k] = LastSeen(e, r, k)
    BY DEF Knows
  <2>1. Keeps(q, r, k) /\ ~p.lun[k].ua => k \in r.fresh \/ r.known[k] = LastSeen(e, r, k)
    BY <1>2 DEF Matches, Knows, Relun, Keeps
  <2> QED BY <1>1, <1>2, <2>1
<1>6. Took(e, r)
  <2> SUFFICES ASSUME ~r.unseen, NEW k \in Img, Still(e, k), ~e.lun[k].stale
               PROVE  r.cap[k] = LastSeen(e, r, k)
    BY DEF Took
  <2>1. k \in Lun
    BY DEF Lun
  <2>2. r.cap[k] = q.cap[k] /\ ~p.lun[k].stale => r.cap[k] = LastSeen(e, r, k)
    BY <1>2, <2>1 DEF Matches, Took
  <2> QED BY <1>1, <1>2, <2>1, <2>2
<1>7. Owed(e, r, heard)
  <2>1. \A k \in r.waits \ heard : k \in Lun /\ e.lun[k].owed = p.lun[k].owed /\ e.lun[k].age = p.lun[k].age
    BY <1>1 DEF HistRec, Lun
  <2> QED BY <1>1, <2>1 DEF Matches, Owed, Relun
<1>8. NoWait(r)
  BY DEF Matches, NoWait
<1>9. StaysOut(p, q) /\ (r.out = "yes" => q.out = "yes") => StaysOut(e, r)
  BY DEF StaysOut, Relun
<1>10. NoneLeft(p, q) /\ r.nothing = q.nothing => NoneLeft(e, r)
  BY DEF NoneLeft, Many, Bare, NoChoice, Mounted, Relun
<1> QED BY <1>1, <1>3, <1>4, <1>5, <1>6, <1>7, <1>8, <1>9, <1>10 DEF Matches

(* The end of a pass or a command: what no longer matters is forgotten.     *)
LEMMA SeenHolds ==
  ASSUME NEW d, NEW h, NEW heard, Kept(d, h, heard), NoneLeft(d, h),
         d.conf /\ ~h.unseen => \A l \in h.waits \ heard : h.since[l] < Ack
  PROVE  Holds(d, Seen(h, d, heard))
<1> DEFINE w == Owing(h, d, heard)
           k == {l \in Lun : d.conf /\ d.lun[l].was /\ ~d.lun[l].ua}
           s == Seen(h, d, heard)
<1>1. /\ h \in HistRec /\ d \in DevRec
      /\ w \subseteq Img /\ (w # {} => d.conf /\ ~h.unseen) /\ \A l \in w : l \in h.waits \ heard
  BY DEF Kept, Matches, Owing, HistRec
<1>2. Nothing \in Media /\ h.since \in [Img -> Nat]
  BY <1>1 DEF Media, HistRec
<1> HIDE DEF Media, w, k, Nothing
<1>3. s = [h EXCEPT !.waits = w, !.since = [l \in Img |-> IF l \in w /\ l \in hist.waits THEN h.since[l] ELSE 0],
            !.early = {l \in h.early : d.conf /\ d.lun[l].owed},
            !.known = [l \in Lun |-> IF l \in k THEN h.known[l] ELSE Nothing],
            !.fresh = h.fresh \cap k,
            !.cap   = [l \in Img |-> IF d.lun[l].was /\ ~d.lun[l].stale THEN h.cap[l] ELSE Nothing],
            !.out   = IF d.conf THEN h.out ELSE "no",
            !.looked = IF coop /\ d.conf THEN h.looked ELSE [l \in Img |-> "yes"]]
  BY <1>1 DEF Seen, HistRec, w, k
<1>4. /\ [l \in Img |-> IF l \in w /\ l \in hist.waits THEN h.since[l] ELSE 0] \in [Img -> Nat]
      /\ [l \in Lun |-> IF l \in k THEN h.known[l] ELSE Nothing] \in [Lun -> Media]
      /\ [l \in Img |-> IF d.lun[l].was /\ ~d.lun[l].stale THEN h.cap[l] ELSE Nothing] \in [Img -> Media]
      /\ (IF coop /\ d.conf THEN h.looked ELSE [l \in Img |-> "yes"]) \in [Img -> {"yes", "no", "ua"}]
      /\ (IF d.conf THEN h.out ELSE "no") \in {"no", "yes", "clock", "reset"}
  BY <1>1, <1>2 DEF HistRec, DevRec
<1>5. s \in HistRec
  <2> DEFINE S  == [l \in Img |-> IF l \in w /\ l \in hist.waits THEN h.since[l] ELSE 0]
             K  == [l \in Lun |-> IF l \in k THEN h.known[l] ELSE Nothing]
             C  == [l \in Img |-> IF d.lun[l].was /\ ~d.lun[l].stale THEN h.cap[l] ELSE Nothing]
             L  == IF coop /\ d.conf THEN h.looked ELSE [l \in Img |-> "yes"]
             E  == {l \in h.early : d.conf /\ d.lun[l].owed}
             O  == IF d.conf THEN h.out ELSE "no"
             F  == h.fresh \cap k
             s1 == [h EXCEPT !.waits = w, !.since = S]
             s2 == [s1 EXCEPT !.early = E, !.known = K]
             s3 == [s2 EXCEPT !.fresh = F, !.cap = C]
  <2>1. /\ w \in SUBSET Img /\ E \in SUBSET Img /\ F \in SUBSET Lun /\ S \in [Img -> Nat] /\ K \in [Lun -> Media]
        /\ C \in [Img -> Media] /\ O \in {"no", "yes", "clock", "reset"} /\ L \in [Img -> {"yes", "no", "ua"}]
    BY <1>1, <1>4 DEF HistRec
  <2>2. s = [s3 EXCEPT !.out = O, !.looked = L]
    BY <1>3
  <2> HIDE DEF S, K, C, L, E, O, F
  <2>3. s1 \in HistRec
    BY <1>1, <2>1 DEF HistRec
  <2> HIDE DEF s1
  <2>4. s2 \in HistRec
    BY <2>1, <2>3 DEF HistRec
  <2> HIDE DEF s2
  <2>5. s3 \in HistRec
    BY <2>1, <2>4 DEF HistRec
  <2> HIDE DEF s3, s
  <2> QED BY <2>1, <2>2, <2>5 DEF HistRec
<1>6. /\ s.waits = w /\ s.polled = h.polled /\ s.shown = h.shown /\ s.unseen = h.unseen /\ s.nothing = h.nothing
      /\ s.out = (IF d.conf THEN h.out ELSE "no") /\ s.fresh = h.fresh \cap k
      /\ \A l \in Img : s.since[l] = IF l \in w /\ l \in hist.waits THEN h.since[l] ELSE 0
      /\ \A l \in k : s.known[l] = h.known[l]
      /\ \A l \in Img : d.lun[l].was /\ ~d.lun[l].stale => s.cap[l] = h.cap[l]
  <2>1. k \subseteq Lun
    BY DEF k
  <2> QED BY <1>1, <1>3, <2>1 DEF HistRec
<1> HIDE DEF s
<1>7. \A l \in Lun : LastSeen(d, s, l) = LastSeen(d, h, l)
  BY <1>6 DEF LastSeen
<1>8. SawCard(d, s) /\ SawImage(d, s)
  BY <1>6, <1>7 DEF Kept, Matches, SawCard, SawImage, Lun
<1>9. Knows(d, s)
  <2>1. \A l \in Lun : d.conf /\ Still(d, l) /\ ~d.lun[l].ua => l \in k
    BY DEF Still, k
  <2> QED BY <1>6, <1>7, <2>1 DEF Kept, Matches, Knows
<1>10. Took(d, s)
  BY <1>6, <1>7 DEF Kept, Matches, Took, Still, Lun
<1>11. \A l \in w : d.lun[l].owed /\ s.since[l] <= d.lun[l].age /\ s.since[l] < Ack
  <2> SUFFICES ASSUME NEW l \in w
               PROVE  d.lun[l].owed /\ s.since[l] <= d.lun[l].age /\ s.since[l] < Ack
    OBVIOUS
  <2>1. d.lun[l].owed /\ h.since[l] <= d.lun[l].age /\ h.since[l] < Ack /\ l \in Lun
    BY <1>1 DEF Kept, Matches, Owed, Lun
  <2>2. d.lun[l].age \in Nat
    <3>1. d.lun[l] \in LunState
      BY <1>1, <2>1 DEF DevRec
    <3> QED BY <3>1, Constants DEF LunState
  <2> QED BY <1>1, <1>2, <1>6, <2>1, <2>2, Constants
<1>12. Owed(d, s, {}) /\ NoWait(s)
  BY <1>6, <1>11 DEF Owed, NoWait
<1>13. StaysOut(d, s) /\ NoneLeft(d, s)
  BY <1>6 DEF Kept, StaysOut, NoneLeft
<1>14. Kept(d, s, {})
  BY <1>5, <1>8, <1>9, <1>10, <1>12, <1>13 DEF Kept, Matches
<1> QED BY <1>1, <1>6, <1>11, <1>13, <1>14 DEF Holds, s

---------------------------------------------------------------------------
(* Commands. *)

Asked(p, q) ==
  /\ Matches(p, q, {}) /\ StaysOut(p, q) /\ Fresh(p, q) /\ NoneLeft(p, q)
  /\ \A l \in Img : q.since[l] < Ack

LEMMA PollAsked ==
  ASSUME NEW d, NEW h, Matches(d, h, {}), StaysOut(d, h), NoneLeft(d, h), \A l \in Img : h.since[l] < Ack
  PROVE  Asked(MediaPoll(d), Polled(h, MediaPoll(d)))
BY PollKept DEF Asked

LEMMA CommandAsked ==
  ASSUME MInv
  PROVE  Asked(Polls, Heard)
<1>1. Matches(dev, hist, {}) /\ StaysOut(dev, hist) /\ NoneLeft(dev, hist)
  BY DEF MInv, Holds, Kept
<1>2. \A l \in Img : hist.since[l] < Ack
  BY <1>1, Constants DEF MInv, Holds, Matches, NoWait
<1> QED BY <1>1, <1>2, PollAsked DEF Polls, Heard

(* An answer that leaves all but one LUN alone.                             *)
LEMMA AnswerHolds ==
  ASSUME NEW p, NEW q, NEW e, NEW r, NEW l \in Lun, NEW heard,
         Asked(p, q), Relun(p, e, l), Agrees(q, r),
         \A k \in Lun \ {l} : Keeps(q, r, k),
         Present(p, l) /\ ~e.lun[l].ua => r.known[l] = Medium(p, l) \/ (~p.lun[l].ua /\ Keeps(q, r, l)),
         \A k \in Img \ {l} : r.cap[k] = q.cap[k],
         l \in Img /\ Present(p, l) /\ ~e.lun[l].stale => r.cap[l] = Medium(p, l) \/ (~p.lun[l].stale /\ r.cap[l] = q.cap[l]),
         l \in heard \/ (e.lun[l].owed = p.lun[l].owed /\ e.lun[l].age = p.lun[l].age)
  PROVE  Matches(e, r, heard) /\ Holds(e, Seen(r, e, heard))
<1>1. Matches(e, r, heard) /\ StaysOut(e, r) /\ NoneLeft(e, r)
  BY RelunKept DEF Asked, Agrees
<1>2. \A k \in r.waits \ heard : r.since[k] < Ack
  BY <1>1 DEF Asked, Agrees, Matches, HistRec
<1> QED BY <1>1, <1>2, SeenHolds DEF Kept

LEMMA AttentionHolds ==
  ASSUME NEW p, NEW q, NEW l \in Lun, Asked(p, q), UnitAttention(p, q, l)
  PROVE  Holds(dev', hist')
<1> DEFINE e == Attended(p, l)
           t == Tells(q, p, l)
           r == Looks(t, l, "ua")
<1>1. p \in DevRec /\ q \in HistRec /\ p.lun[l] \in LunState
  BY DEF Asked, Matches, DevRec
<1>2. Relun(p, e, l) /\ e.lun[l].stale = p.lun[l].stale /\ e.lun[l].owed = p.lun[l].owed /\ e.lun[l].age = p.lun[l].age
  BY <1>1, RelunIs DEF LunState
<1>3. Agrees(q, t) /\ Told(q, t, p, l) /\ t.cap = q.cap /\ t \in HistRec
  BY <1>1, TellsIs DEF Agrees
<1>4. Agrees(t, r) /\ r.cap = t.cap /\ r.known = t.known /\ r.fresh = t.fresh
  BY <1>3, LooksIs
<1>5. dev' = e /\ hist' = Seen(r, e, {})
  BY DEF UnitAttention, Answers
<1> HIDE DEF e, t, r
<1>6. Agrees(q, r) /\ r.known[l] = Medium(p, l) /\ r.cap = q.cap /\ \A k \in Lun \ {l} : Keeps(q, r, k)
  BY <1>3, <1>4 DEF Agrees, Told, Keeps
<1> QED BY <1>2, <1>5, <1>6, AnswerHolds

(* The host is told that nothing is there, and may look at that.            *)
LEMMA AbsentHolds ==
  ASSUME NEW p, NEW q, NEW e, NEW r, NEW l \in Lun, NEW heard,
         Asked(p, q), ~Present(p, l), Relun(p, e, l), Agrees(q, r), r.cap = q.cap, \A k \in Lun \ {l} : Keeps(q, r, k),
         l \in heard \/ e.lun[l] = p.lun[l]
  PROVE  Holds(e, Seen(r, e, heard))
BY AnswerHolds

LEMMA ToldAgrees ==
  ASSUME NEW p, NEW q, NEW l \in Lun, NEW how \in {"yes", "no", "ua"}, Asked(p, q)
  PROVE  /\ p \in DevRec /\ q \in HistRec /\ Tells(q, p, l) \in HistRec
         /\ \A r \in {q, Tells(q, p, l), Looks(q, l, how), Glances(q, l), Learns(q, p, l), Looks(Tells(q, p, l), l, how),
                      Looks(Learns(q, p, l), l, how)} :
              /\ Agrees(q, r) /\ r.cap = q.cap /\ \A k \in Lun \ {l} : Keeps(q, r, k)
              /\ r.known[l] = Medium(p, l) \/ Keeps(q, r, l)
<1>1. p \in DevRec /\ q \in HistRec
  BY DEF Asked, Matches
<1>2. /\ Agrees(q, Tells(q, p, l)) /\ Told(q, Tells(q, p, l), p, l) /\ Tells(q, p, l).cap = q.cap
      /\ Agrees(q, Learns(q, p, l)) /\ Learns(q, p, l).cap = q.cap
      /\ Told(q, Learns(q, p, l), p, l) \/ Learns(q, p, l) = q
  BY <1>1, TellsIs
<1>3. ASSUME NEW r \in HistRec, Agrees(q, r), r.cap = q.cap, Told(q, r, p, l) \/ r = q,
             NEW s, s \in {r, Looks(r, l, how), Glances(r, l)}
      PROVE  /\ Agrees(q, s) /\ s.cap = q.cap /\ \A k \in Lun \ {l} : Keeps(q, s, k)
             /\ s.known[l] = Medium(p, l) \/ Keeps(q, s, l)
  <2>1. Agrees(r, r)
    BY <1>3 DEF Agrees
  <2>2. Agrees(r, s) /\ s.cap = r.cap /\ s.known = r.known /\ s.fresh = r.fresh
    BY <1>3, <2>1, LooksIs
  <2>3. Agrees(q, s)
    BY <1>3, <2>2 DEF Agrees
  <2> QED BY <1>3, <2>2, <2>3 DEF Told, Keeps
<1>4. Agrees(q, q) /\ Tells(q, p, l) \in HistRec /\ Learns(q, p, l) \in HistRec
  BY <1>1, <1>2 DEF Agrees
<1>5. ASSUME NEW s \in {q, Looks(q, l, how), Glances(q, l)}
      PROVE  /\ Agrees(q, s) /\ s.cap = q.cap /\ \A k \in Lun \ {l} : Keeps(q, s, k)
             /\ s.known[l] = Medium(p, l) \/ Keeps(q, s, l)
  BY <1>1, <1>3, <1>4
<1>6. ASSUME NEW s \in {Tells(q, p, l), Looks(Tells(q, p, l), l, how)}
      PROVE  /\ Agrees(q, s) /\ s.cap = q.cap /\ \A k \in Lun \ {l} : Keeps(q, s, k)
             /\ s.known[l] = Medium(p, l) \/ Keeps(q, s, l)
  BY <1>2, <1>3, <1>4
<1>7. ASSUME NEW s \in {Learns(q, p, l), Looks(Learns(q, p, l), l, how)}
      PROVE  /\ Agrees(q, s) /\ s.cap = q.cap /\ \A k \in Lun \ {l} : Keeps(q, s, k)
             /\ s.known[l] = Medium(p, l) \/ Keeps(q, s, l)
  BY <1>2, <1>3, <1>4
<1> QED BY <1>1, <1>4, <1>5, <1>6, <1>7

LEMMA TestUnitReadyHolds ==
  ASSUME NEW d0, NEW h0, NEW l \in Lun, Asked(d0, h0), d0.drv = dev.drv, TestUnitReady(d0, h0, l)
  PROVE  Holds(dev', hist')
<1>1. PICK up \in BOOLEAN, ok \in BOOLEAN :
        LET d == IF dev.drv = NoCard THEN MediaPoll(TryInit(d0, up, ok)) ELSE d0
            h == IF dev.drv = NoCard THEN Polled(h0, d) ELSE h0
        IN \/ ~Present(d, l) /\ Answers(LookedAt(d, l), Looks(Tells(h, d, l), l, "yes"), {l})
           \/ UnitAttention(d, h, l)
           \/ Ready(d, l) /\ Answers(d, Glances(h, l), {})
  BY DEF TestUnitReady
<1> DEFINE t == TryInit(d0, up, ok)
           d == IF dev.drv = NoCard THEN MediaPoll(t) ELSE d0
           h == IF dev.drv = NoCard THEN Polled(h0, d) ELSE h0
<1>2. Asked(d, h)
  <2> SUFFICES ASSUME dev.drv = NoCard
               PROVE  Asked(MediaPoll(t), Polled(h0, MediaPoll(t)))
    OBVIOUS
  <2>1. d0 \in DevRec /\ (Bare(d0) => NoChoice(d0))
    BY GoneIsBare DEF Asked, Matches
  <2>2. Goes(d0, t) /\ Stays(d0, t)
    BY <2>1, TryInitGoes
  <2> HIDE DEF t
  <2>3. Matches(t, h0, {}) /\ StaysOut(t, h0)
    BY <2>2, KeptGoes DEF Asked, Kept
  <2>4. NoneLeft(t, h0)
    BY <2>2, NoneGoes DEF Asked, Goes
  <2> QED BY <2>3, <2>4, PollAsked DEF Asked
<1>3. \/ ~Present(d, l) /\ Answers(LookedAt(d, l), Looks(Tells(h, d, l), l, "yes"), {l})
      \/ UnitAttention(d, h, l)
      \/ Ready(d, l) /\ Answers(d, Glances(h, l), {})
  BY <1>1
<1> HIDE DEF d, h, t
<1>4. d \in DevRec
  BY <1>2 DEF Asked, Matches
<1>5. CASE ~Present(d, l) /\ Answers(LookedAt(d, l), Looks(Tells(h, d, l), l, "yes"), {l})
  <2> DEFINE r == Looks(Tells(h, d, l), l, "yes")
  <2>1. Agrees(h, r) /\ r.cap = h.cap /\ \A k \in Lun \ {l} : Keeps(h, r, k)
    BY <1>2, ToldAgrees
  <2>2. Relun(d, LookedAt(d, l), l)
    BY <1>4, RelunIs
  <2>3. dev' = LookedAt(d, l) /\ hist' = Seen(r, LookedAt(d, l), {l})
    BY <1>5 DEF Answers
  <2> HIDE DEF r
  <2> QED BY <1>2, <1>5, <2>1, <2>2, <2>3, AbsentHolds
<1>6. CASE UnitAttention(d, h, l)
  BY <1>2, <1>6, AttentionHolds
<1>7. CASE Ready(d, l) /\ Answers(d, Glances(h, l), {})
  <2> DEFINE r == Glances(h, l)
  <2>1. Agrees(h, r) /\ r.cap = h.cap /\ \A k \in Lun : Keeps(h, r, k)
    BY <1>2, <1>4, LooksIs DEF Keeps, Asked, Matches
  <2>2. Relun(d, d, l)
    BY <1>4, RelunIs
  <2>3. dev' = d /\ hist' = Seen(r, d, {})
    BY <1>7 DEF Answers
  <2> HIDE DEF r
  <2> QED BY <1>2, <1>7, <2>1, <2>2, <2>3, AnswerHolds
<1> QED BY <1>3, <1>5, <1>6, <1>7

LEMMA ReadCapacityHolds ==
  ASSUME NEW d, NEW h, NEW l \in Lun, Asked(d, h), ReadCapacity(d, h, l)
  PROVE  Holds(dev', hist')
<1>1. d \in DevRec /\ h \in HistRec /\ d.lun[l] \in LunState
  BY DEF Asked, Matches, DevRec
<1>2. CASE ~Present(d, l) /\ Answers(d, Tells(h, d, l), {})
  <2>1. Agrees(h, Tells(h, d, l)) /\ Tells(h, d, l).cap = h.cap /\ \A k \in Lun \ {l} : Keeps(h, Tells(h, d, l), k)
    BY ToldAgrees
  <2>2. Relun(d, d, l) /\ dev' = d /\ hist' = Seen(Tells(h, d, l), d, {})
    BY <1>1, <1>2, RelunIs DEF Answers
  <2> QED BY <1>2, <2>1, <2>2, AbsentHolds
<1>3. CASE UnitAttention(d, h, l)
  BY <1>3, AttentionHolds
<1>4. CASE /\ Ready(d, l)
           /\ LET k == Looks(Learns(h, d, l), l, "yes")
              IN Answers([d EXCEPT !.lun[l] = [Acked(@) EXCEPT !.stale = FALSE]],
                         IF l = "card" THEN k ELSE [k EXCEPT !.cap[l] = Medium(d, l)], {l})
  <2> DEFINE k == Looks(Learns(h, d, l), l, "yes")
             e == [d EXCEPT !.lun[l] = [Acked(@) EXCEPT !.stale = FALSE]]
             r == IF l = "card" THEN k ELSE [k EXCEPT !.cap[l] = Medium(d, l)]
  <2>1. /\ Agrees(h, k) /\ k.cap = h.cap /\ \A m \in Lun \ {l} : Keeps(h, k, m)
        /\ k.known[l] = Medium(d, l) \/ Keeps(h, k, l)
    BY ToldAgrees
  <2>2. Relun(d, e, l) /\ e.lun[l].ua = d.lun[l].ua /\ ~e.lun[l].stale /\ ~d.lun[l].ua
    <3>1. Relun(d, e, l) /\ e.lun[l] = [Acked(d.lun[l]) EXCEPT !.stale = FALSE]
      BY <1>1, RelunIs
    <3> HIDE DEF e
    <3> QED BY <1>1, <1>4, <3>1 DEF Acked, LunState, Ready
  <2>3. dev' = e /\ hist' = Seen(r, e, {l})
    BY <1>4 DEF Answers
  <2> HIDE DEF k
  <2>4. Medium(d, l) \in Media /\ k \in HistRec /\ (l # "card" => l \in Img)
    BY <1>1, <2>1, MediumTyped DEF Agrees, Lun
  <2>5. r \in HistRec
    <3> HIDE DEF Media, Medium
    <3> QED BY <2>4 DEF HistRec
  <2>6. /\ Agrees(h, r) /\ r.known = k.known /\ r.fresh = k.fresh
        /\ \A m \in Img \ {l} : r.cap[m] = h.cap[m]
        /\ l \in Img => r.cap[l] = Medium(d, l)
    <3>1. "card" \notin Img
      BY DEF Img
    <3> HIDE DEF Media, Medium
    <3> QED BY <2>1, <2>4, <2>5, <3>1 DEF HistRec, Agrees
  <2> HIDE DEF e, r
  <2>7. r.known[l] = Medium(d, l) \/ Keeps(h, r, l)
    BY <2>1, <2>6 DEF Keeps
  <2>8. \A m \in Lun \ {l} : Keeps(h, r, m)
    BY <2>1, <2>6 DEF Keeps
  <2> QED BY <2>2, <2>3, <2>6, <2>7, <2>8, AnswerHolds
<1> QED BY <1>2, <1>3, <1>4 DEF ReadCapacity

LEMMA ReadHolds ==
  ASSUME NEW d, NEW h, NEW l \in Lun, Asked(d, h), Read(d, h, l)
  PROVE  Holds(dev', hist')
<1>1. d \in DevRec /\ h \in HistRec
  BY DEF Asked, Matches
<1>2. CASE ~Present(d, l) /\ Answers(d, Tells(h, d, l), {})
  <2>1. Agrees(h, Tells(h, d, l)) /\ Tells(h, d, l).cap = h.cap /\ \A k \in Lun \ {l} : Keeps(h, Tells(h, d, l), k)
    BY ToldAgrees
  <2>2. Relun(d, d, l) /\ dev' = d /\ hist' = Seen(Tells(h, d, l), d, {})
    BY <1>1, <1>2, RelunIs DEF Answers
  <2> QED BY <1>2, <2>1, <2>2, AbsentHolds
<1>3. CASE UnitAttention(d, h, l)
  BY <1>3, AttentionHolds
<1>4. CASE Ready(d, l) /\ Answers(Accessed(d), IF d.live THEN Learns(h, d, l) ELSE h, {})
  <2> DEFINE r == IF d.live THEN Learns(h, d, l) ELSE h
             e == Accessed(d)
  <2>1. /\ Agrees(h, r) /\ r.cap = h.cap /\ \A m \in Lun \ {l} : Keeps(h, r, m)
        /\ r.known[l] = Medium(d, l) \/ Keeps(h, r, l)
    <3>1. r \in {h, Learns(h, d, l)}
      OBVIOUS
    <3> HIDE DEF r
    <3> QED BY <3>1, ToldAgrees
  <2>2. dev' = e /\ hist' = Seen(r, e, {})
    BY <1>4 DEF Answers
  <2> HIDE DEF r, e
  <2>3. Relun(d, d, l)
    BY <1>1, RelunIs
  <2>4. Matches(d, r, {}) /\ StaysOut(d, r) /\ NoneLeft(d, r)
    BY <1>4, <2>1, <2>3, RelunKept DEF Asked, Agrees, Ready
  <2>5. Goes(d, e) /\ Stays(d, e)
    BY <1>1, ScanStays DEF e
  <2>6. Kept(e, r, {}) /\ NoneLeft(e, r)
    BY <2>4, <2>5, KeptGoes, NoneGoes DEF Kept, Goes, Steps
  <2>7. \A k \in r.waits \ {} : r.since[k] < Ack
    BY <2>1, <2>6 DEF Asked, Agrees, Kept, Matches, HistRec
  <2> QED BY <2>2, <2>6, <2>7, SeenHolds
<1> QED BY <1>2, <1>3, <1>4 DEF Read

LEMMA GetEventHolds ==
  ASSUME NEW d, NEW h, Asked(d, h), GetEvent(d, h)
  PROVE  Holds(dev', hist')
<1> DEFINE l == "dvd"
           e == [d EXCEPT !.event = "none"]
<1>1. d \in DevRec /\ h \in HistRec /\ l \in Lun
  BY DEF Asked, Matches, Lun, Img
<1>2. Relun(d, e, l) /\ e.lun = d.lun /\ e \in DevRec
  BY <1>1, RelunIs DEF Relun
<1> HIDE DEF e, l
<1>3. CASE ~Present(d, l) /\ Answers(LookedAt(e, l), Looks(Tells(h, d, l), l, "yes"), {l})
  <2> DEFINE r == Looks(Tells(h, d, l), l, "yes")
             f == LookedAt(e, l)
  <2>1. Agrees(h, r) /\ r.cap = h.cap /\ \A k \in Lun \ {l} : Keeps(h, r, k)
    BY <1>1, ToldAgrees
  <2>2. Relun(e, f, l) /\ dev' = f /\ hist' = Seen(r, f, {l})
    BY <1>1, <1>2, <1>3, RelunIs DEF Answers
  <2> HIDE DEF r, f
  <2>3. Relun(d, f, l)
    BY <1>2, <2>2 DEF Relun
  <2> QED BY <1>1, <1>3, <2>1, <2>2, <2>3, AbsentHolds
<1>4. CASE Answers(e, IF d.event = "new" THEN Looks(h, l, "ua") ELSE Glances(h, l), {})
  <2> DEFINE r == IF d.event = "new" THEN Looks(h, l, "ua") ELSE Glances(h, l)
  <2>1. Agrees(h, r) /\ r.cap = h.cap /\ r.known = h.known /\ r.fresh = h.fresh
    BY <1>1, LooksIs
  <2>2. dev' = e /\ hist' = Seen(r, e, {})
    BY <1>4 DEF Answers
  <2> HIDE DEF r
  <2>3. \A k \in Lun : Keeps(h, r, k)
    BY <2>1 DEF Keeps
  <2> QED BY <1>1, <1>2, <2>1, <2>2, <2>3, AnswerHolds
<1> QED BY <1>3, <1>4 DEF GetEvent, e, l

LEMMA EjhostGoes ==
  ASSUME NEW d \in DevRec, NEW b \in BOOLEAN
  PROVE  LET e == [d EXCEPT !.ejhost = b] IN Goes(d, e) /\ Stays(d, e) /\ e \in DevRec
<1>1. [d EXCEPT !.ejhost = b] \in DevRec
  BY DEF DevRec
<1> QED BY <1>1 DEF Goes, Steps, Same, Sane, Stays, Bare, NoChoice, Mounted, DevRec

(* The history of a poll depends on the driver's card and the media only.   *)
LEMMA PolledSame ==
  ASSUME NEW d \in DevRec, NEW e, NEW h, NEW l \in Lun, Relun(d, e, l)
  PROVE  /\ Polled(h, e) = Polled(h, d)
         /\ \A k \in Lun : Medium(e, k) = Medium(d, k) /\ Present(e, k) = Present(d, k) /\ Tells(h, e, k) = Tells(h, d, k)
<1>1. e.drv = d.drv /\ e.cur = d.cur /\ e.ejected = d.ejected
  BY DEF Relun
<1>2. \A k \in Lun : Medium(e, k) = Medium(d, k) /\ Present(e, k) = Present(d, k)
  BY <1>1 DEF Medium, Present, Mounted
<1>3. Img \subseteq Lun
  BY DEF Lun
<1>4. [k \in Img |-> Medium(e, k)] = [k \in Img |-> Medium(d, k)]
  BY <1>2, <1>3
<1>5. {k \in Img : Medium(e, k) # h.shown[k]} = {k \in Img : Medium(d, k) # h.shown[k]}
  BY <1>2, <1>3
<1> HIDE DEF Medium
<1>6. Polled(h, e) = Polled(h, d)
  BY <1>1, <1>4, <1>5 DEF Polled
<1> QED BY <1>2, <1>6 DEF Tells

(* An image put away or brought back by the host, then a poll.              *)
LEMMA StoreAsked ==
  ASSUME NEW d, NEW h, NEW e, Asked(d, h), Goes(d, e), Stays(d, e)
  PROVE  Asked(MediaPoll(e), Polled(h, MediaPoll(e)))
<1>1. Kept(e, h, {}) /\ NoneLeft(e, h)
  BY KeptGoes, NoneGoes DEF Asked, Kept, Goes, Steps
<1> QED BY <1>1, PollAsked DEF Asked, Kept

LEMMA AskedHolds ==
  ASSUME NEW d, NEW h, Asked(d, h)
  PROVE  Holds(d, Seen(h, d, {}))
<1>1. \A l \in h.waits \ {} : h.since[l] < Ack
  BY DEF Asked, Matches, HistRec
<1> QED BY <1>1, SeenHolds DEF Asked, Kept

LEMMA EjectImageHolds ==
  ASSUME NEW d, NEW h, NEW l \in Img, Asked(d, h), EjectImage(d, h, l)
  PROVE  Holds(dev', hist')
<1> DEFINE u == Unmount(d)
           v == [u EXCEPT !.ejhost = TRUE]
           m == MediaPoll(v)
           q == Polled(h, m)
           e == Attended(m, l)
           r == Tells(q, m, l)
<1>1. d \in DevRec /\ l \in Lun
  BY DEF Asked, Matches, Lun
<1>2. CASE ~MayEject(d, l)
  BY <1>2, AskedHolds DEF EjectImage, Answers
<1>3. CASE MayEject(d, l)
  <2>1. u \in DevRec /\ Goes(d, u) /\ Stays(d, u)
    BY <1>1, UnmountStays
  <2>2. v \in DevRec /\ Goes(u, v) /\ Stays(u, v)
    <3> HIDE DEF u
    <3> QED BY <2>1, EjhostGoes
  <2> HIDE DEF v
  <2>3. Goes(d, v) /\ Stays(d, v)
    BY <2>1, <2>2, GoesOn, StaysOn DEF Goes, Steps
  <2>4. Asked(m, q)
    BY <2>3, StoreAsked
  <2>5. dev' = Attended(m, l) /\ hist' = Seen(Tells(Polled(h, e), e, l), e, {l})
    BY <1>3 DEF EjectImage, Answers, v, u
  <2> HIDE DEF m
  <2>6. m \in DevRec
    BY <2>4 DEF Asked, Matches
  <2>7. Relun(m, e, l) /\ e.lun[l].stale = m.lun[l].stale
    <3>1. m.lun[l] \in LunState
      BY <1>1, <2>6 DEF DevRec
    <3> QED BY <1>1, <2>6, <3>1, RelunIs DEF LunState
  <2> HIDE DEF e
  <2>8. Tells(Polled(h, e), e, l) = r
    <3>1. Polled(h, e) = q /\ Tells(q, e, l) = Tells(q, m, l)
      BY <1>1, <2>6, <2>7, PolledSame
    <3> QED BY <3>1
  <2>9. Agrees(q, r) /\ r.cap = q.cap /\ r.known[l] = Medium(m, l) /\ \A k \in Lun \ {l} : Keeps(q, r, k)
    <3> HIDE DEF q
    <3>1. q \in HistRec
      BY <2>4 DEF Asked, Matches
    <3> QED BY <1>1, <2>6, <3>1, TellsIs DEF Told
  <2> HIDE DEF q, r
  <2>10. dev' = e /\ hist' = Seen(r, e, {l})
    BY <2>5, <2>8 DEF e
  <2> QED BY <1>1, <2>4, <2>7, <2>9, <2>10, AnswerHolds
<1> QED BY <1>2, <1>3

LEMMA LoadImageHolds ==
  ASSUME NEW d, NEW h, Asked(d, h), LoadImage(d, h)
  PROVE  Holds(dev', hist')
<1>1. PICK ok \in BOOLEAN :
        LET r == RemountLast(d, ok)
            e == MediaPoll([r EXCEPT !.ejhost = @ /\ (Mounted(d) \/ ~Mounted(r))])
        IN Answers(e, Polled(h, e), {})
  BY DEF LoadImage
<1> DEFINE r == RemountLast(d, ok)
           b == r.ejhost /\ (Mounted(d) \/ ~Mounted(r))
           v == [r EXCEPT !.ejhost = b]
           m == MediaPoll(v)
<1>2. d \in DevRec
  BY DEF Asked, Matches
<1>3. Goes(d, r) /\ Stays(d, r) /\ r \in DevRec
  BY <1>2, RemountLastGoes DEF Goes, Steps
<1>4. v = [r EXCEPT !.ejhost = @ /\ (Mounted(d) \/ ~Mounted(r))] /\ b \in BOOLEAN
  BY <1>3 DEF DevRec
<1>5. dev' = m /\ hist' = Seen(Polled(h, m), m, {})
  BY <1>1, <1>4 DEF Answers
<1> HIDE DEF r, b
<1>6. Goes(d, v) /\ Stays(d, v)
  <2>1. Goes(r, v) /\ Stays(r, v) /\ r.slot = d.slot
    BY <1>3, <1>4, EjhostGoes DEF Goes, Steps
  <2> HIDE DEF v
  <2> QED BY <1>3, <2>1, GoesOn, StaysOn
<1> HIDE DEF v
<1>7. Asked(m, Polled(h, m))
  BY <1>6, StoreAsked
<1> HIDE DEF m
<1> QED BY <1>5, <1>7, AskedHolds

(* Only the card LUN changes, and the history of a second poll would be the *)
(* same.                                                                    *)
LEMMA SetEjectedHolds ==
  ASSUME NEW d, NEW h, NEW on \in BOOLEAN, Asked(d, h), SetEjected(d, h, on)
  PROVE  Holds(dev', hist')
<1> DEFINE v == [d EXCEPT !.ejected = on]
           m == MediaPoll(v)
           q == Polled(h, m)
           e == Attended(m, "card")
           t == Tells(h, m, "card")
           k == CASE ~on \/ d.drv = NoCard \/ d.bounce \in 1..Bounce -> "no"
                  [] OTHER -> IF d.bounce = Unset THEN "yes" ELSE "clock"
           r == [t EXCEPT !.out = k]
<1>0. k \in {"no", "yes", "clock"} /\ (k = "yes" => on /\ d.drv # NoCard /\ d.bounce = Unset)
  OBVIOUS
<1>1. d \in DevRec /\ h \in HistRec /\ "card" \in Lun /\ Matches(d, h, {}) /\ NoneLeft(d, h)
  BY DEF Asked, Matches, Lun
<1>2. /\ v \in DevRec /\ Matches(v, h, {}) /\ NoneLeft(v, h) /\ v.ejected = on /\ v.bounce = d.bounce /\ v.drv = d.drv
      /\ v.cur = d.cur /\ v.moved = d.moved
  <2>1. v \in DevRec
    BY <1>1 DEF DevRec
  <2>2. /\ v.lun = d.lun /\ v.conf = d.conf /\ v.moved = d.moved /\ v.cur = d.cur /\ v.drv = d.drv /\ v.live = d.live
        /\ v.slot = d.slot /\ v.bounce = d.bounce /\ v.ejected = on
        /\ v.last = d.last /\ v.cfg = d.cfg /\ v.swap = d.swap
    BY <1>1 DEF DevRec
  <2> HIDE DEF v
  <2>3. Sane(v)
    BY <1>1, <2>2 DEF Matches, Sane
  <2>4. NoneLeft(v, h)
    BY <1>1, <2>2 DEF NoneLeft, Many, Bare, NoChoice, Mounted
  <2> QED BY <1>1, <2>1, <2>2, <2>3, <2>4, MatchesMoves
<1>3. /\ Matches(m, q, {}) /\ Fresh(m, q) /\ q.since = h.since /\ NoneLeft(m, q)
  BY <1>2, PollKept
<1>4. /\ m \in DevRec /\ m.drv = v.drv
      /\ v.drv # NoCard => m.cur = v.cur
      /\ v.drv # NoCard /\ d.bounce = Unset => m.bounce = Unset /\ m.ejected = on
  BY <1>2, LookedGoes, MediaPollIs
<1> HIDE DEF v
<1>5. /\ q \in HistRec /\ q.polled = m.drv
      /\ \A l \in Img : q.shown[l] = Medium(m, l)
      /\ q.waits = h.waits \cup {l \in Img : Medium(m, l) # h.shown[l]}
      /\ q.unseen = (m.drv # NoCard /\ (h.unseen \/ h.polled \notin {NoCard, m.drv}))
      /\ q.known = h.known /\ q.fresh = h.fresh /\ q.cap = h.cap /\ q.nothing = h.nothing
  BY <1>1, <1>4, PolledIs
<1> HIDE DEF m, q
<1>6. \A l \in Img : Medium(m, l) = Medium(d, l)
  <2>1. \A l \in Img : l # "card"
    BY DEF Img
  <2> QED BY <1>2, <1>4, <2>1 DEF Medium, Present, Mounted
<1>7. q.waits = h.waits /\ q.unseen = h.unseen /\ q.polled = h.polled /\ q.shown = h.shown
  <2>1. h.polled = d.drv /\ (h.unseen => d.drv # NoCard) /\ \A l \in Img : h.shown[l] = Medium(d, l)
    BY DEF Asked, Fresh
  <2>2. q.shown = h.shown
    BY <1>1, <1>5, <1>6, <2>1 DEF HistRec
  <2> QED BY <1>1, <1>2, <1>4, <1>5, <1>6, <2>1, <2>2 DEF HistRec
<1>8. Relun(m, e, "card")
  BY <1>1, <1>4, RelunIs
<1> HIDE DEF e
<1>9. t = Tells(h, e, "card")
  BY <1>1, <1>4, <1>8, PolledSame
<1>10. Agrees(h, t) /\ Told(h, t, m, "card") /\ t.cap = h.cap
  BY <1>1, <1>4, TellsIs
<1>11. dev' = e /\ hist' = Seen(r, e, {})
  BY <1>9 DEF SetEjected, Answers, e, m, v
<1> HIDE DEF t, k
<1>12. /\ r \in HistRec /\ r.waits = h.waits /\ r.since = h.since /\ r.polled = h.polled /\ r.shown = h.shown
       /\ r.unseen = h.unseen /\ r.nothing = h.nothing /\ r.cap = h.cap /\ r.known = t.known /\ r.fresh = t.fresh
       /\ r.out = k
  <2> HIDE DEF Media
  <2> QED BY <1>0, <1>10 DEF HistRec, Agrees
<1> HIDE DEF r
<1>13. r.known["card"] = Medium(m, "card") /\ \A l \in Lun \ {"card"} : Keeps(q, r, l)
  BY <1>5, <1>10, <1>12 DEF Told, Keeps
<1>14. e.lun["card"].owed = m.lun["card"].owed /\ e.lun["card"].age = m.lun["card"].age
  <2>1. m.lun["card"] \in LunState
    BY <1>1, <1>4 DEF DevRec
  <2>2. e.lun["card"] = [m.lun["card"] EXCEPT !.ua = FALSE]
    BY <1>1, <1>4, RelunIs DEF e
  <2> QED BY <2>1, <2>2 DEF LunState
<1>15. Matches(e, r, {}) /\ NoneLeft(e, r)
  <2>1. "card" \notin Img
    BY DEF Img
  <2> QED BY <1>1, <1>3, <1>5, <1>7, <1>8, <1>12, <1>13, <1>14, <2>1, RelunKept
<1>16. StaysOut(e, r)
  BY <1>0, <1>2, <1>4, <1>8, <1>12 DEF StaysOut, Relun
<1>17. \A l \in r.waits \ {} : r.since[l] < Ack
  BY <1>12 DEF Asked, HistRec
<1> QED BY <1>11, <1>15, <1>16, <1>17, SeenHolds DEF Kept

LEMMA CommandKeepsCoop ==
  ASSUME NEW d, NEW h, NEW l,
         \/ TestUnitReady(d, h, l) \/ ReadCapacity(d, h, l) \/ Read(d, h, l) \/ GetEvent(d, h)
         \/ EjectImage(d, h, l) \/ LoadImage(d, h) \/ \E on \in BOOLEAN : SetEjected(d, h, on)
  PROVE  coop' = coop
<1>1. \A e, r, heard : Answers(e, r, heard) => coop' = coop
  BY DEF Answers
<1>2. UnitAttention(d, h, l) => coop' = coop
  BY <1>1 DEF UnitAttention
<1>3. CASE TestUnitReady(d, h, l)
  <2>1. \A e, r : UnitAttention(e, r, l) => coop' = coop
    BY <1>1 DEF UnitAttention
  <2> QED BY <1>1, <1>3, <2>1 DEF TestUnitReady
<1>4. CASE ReadCapacity(d, h, l)
  BY <1>1, <1>2, <1>4 DEF ReadCapacity
<1>5. CASE Read(d, h, l)
  BY <1>1, <1>2, <1>5 DEF Read
<1>6. CASE GetEvent(d, h)
  BY <1>1, <1>6 DEF GetEvent
<1>7. CASE EjectImage(d, h, l)
  BY <1>1, <1>7 DEF EjectImage
<1>8. CASE LoadImage(d, h)
  BY <1>1, <1>8 DEF LoadImage
<1>9. CASE \E on \in BOOLEAN : SetEjected(d, h, on)
  BY <1>1, <1>9 DEF SetEjected
<1> QED BY <1>3, <1>4, <1>5, <1>6, <1>7, <1>8, <1>9

LEMMA CommandHolds ==
  ASSUME MInv, Command
  PROVE  MInv'
<1> DEFINE d == Polls
           h == Heard
<1>1. Asked(d, h) /\ d.drv = dev.drv
  <2>1. dev \in DevRec
    BY DEF MInv, Holds, Kept, Matches
  <2> QED BY <2>1, CommandAsked, MediaPollIs, LookedGoes DEF Polls
<1>2. /\ \/ \E l \in Lun : TestUnitReady(d, h, l)
         \/ LoadImage(d, h)
         \/ /\ UNCHANGED events
            /\ \/ \E l \in Lun : ReadCapacity(d, h, l) \/ Read(d, h, l)
               \/ GetEvent(d, h)
               \/ \E l \in Img : EjectImage(d, h, l)
         \/ \E on \in BOOLEAN : Takes(1) /\ SetEjected(d, h, on)
  BY DEF Command
<1> HIDE DEF d, h
<1>3. Holds(dev', hist')
  BY <1>1, <1>2, TestUnitReadyHolds, LoadImageHolds, ReadCapacityHolds, ReadHolds, GetEventHolds, EjectImageHolds,
     SetEjectedHolds
<1>4. coop' = coop
  BY <1>2, CommandKeepsCoop
<1>5. events' \in Nat
  <2>1. \A up, ok \in BOOLEAN : Faults(up, ok) \in Nat
    BY DEF Faults
  <2>2. events \in Nat /\ (events' = events \/ \E n \in Nat : events' = events + n)
    <3>1. CASE \E l \in Lun : TestUnitReady(d, h, l)
      BY <2>1, <3>1 DEF TestUnitReady, Takes, MInv
    <3>2. CASE LoadImage(d, h)
      BY <2>1, <3>2 DEF LoadImage, Takes, MInv
    <3>3. CASE UNCHANGED events \/ \E on \in BOOLEAN : Takes(1) /\ SetEjected(d, h, on)
      BY <3>3 DEF Takes, MInv
    <3> QED BY <1>2, <3>1, <3>2, <3>3
  <2> QED BY <2>2
<1> QED BY <1>3, <1>4, <1>5 DEF MInv

---------------------------------------------------------------------------
(* A pass of the idle loop. *)

LEMMA TickKept ==
  ASSUME Holds(dev, hist)
  PROVE  /\ Matches(Ticked(dev), TickSeen(hist), {}) /\ StaysOut(Ticked(dev), TickSeen(hist))
         /\ NoneLeft(Ticked(dev), TickSeen(hist)) /\ Mounted(Ticked(dev)) = Mounted(dev)
         /\ TickSeen(hist).nothing = hist.nothing
<1> DEFINE s == StoreTick(dev)
           t == Ticked(dev)
           h == TickSeen(hist)
           L == [l \in Lun |-> Aged(s.lun[l])]
           B == IF s.bounce \in 1 .. Bounce THEN s.bounce - 1 ELSE s.bounce
<1>1. Kept(dev, hist, {}) /\ NoneLeft(dev, hist) /\ dev \in DevRec /\ hist \in HistRec
  BY DEF Holds, Kept, Matches
<1>2. Goes(dev, s) /\ Stays(dev, s) /\ s \in DevRec /\ s.cur = dev.cur
  BY <1>1, StoreTickGoes DEF Goes, Steps, StoreTick, DevRec
<1>3. Kept(s, hist, {}) /\ NoneLeft(s, hist)
  BY <1>1, <1>2, KeptGoes, NoneGoes DEF Goes, Steps
<1>4. s.lun = dev.lun /\ s.conf = dev.conf
  BY <1>2 DEF Goes, Steps
<1>5. t = [s EXCEPT !.bounce = B, !.lun = L]
  BY <1>2 DEF Ticked, DevRec
<1> HIDE DEF s, t
<1>6. \A l \in Lun : /\ L[l] \in LunState /\ L[l].was = s.lun[l].was /\ L[l].ua = s.lun[l].ua /\ L[l].stale = s.lun[l].stale
                     /\ L[l].owed = s.lun[l].owed
                     /\ s.lun[l].owed => (s.lun[l].age < Ack /\ L[l].age = s.lun[l].age + 1)
                                         \/ (s.lun[l].age = Ack /\ L[l].age = Ack)
                     /\ s.lun[l].age \in Nat
  <2> SUFFICES ASSUME NEW l \in Lun
               PROVE  /\ L[l] \in LunState /\ L[l].was = s.lun[l].was /\ L[l].ua = s.lun[l].ua
                      /\ L[l].stale = s.lun[l].stale /\ L[l].owed = s.lun[l].owed
                      /\ s.lun[l].owed => (s.lun[l].age < Ack /\ L[l].age = s.lun[l].age + 1)
                                         \/ (s.lun[l].age = Ack /\ L[l].age = Ack)
                      /\ s.lun[l].age \in Nat
    OBVIOUS
  <2>1. PICK u \in LunState : u = s.lun[l]
    BY <1>2 DEF DevRec
  <2>2. u.age \in 0 .. Ack /\ Ack \in Nat
    BY Constants DEF LunState
  <2>3. L[l] = IF u.owed /\ u.age < Ack THEN [u EXCEPT !.age = u.age + 1] ELSE u
    BY <2>1 DEF Aged
  <2>4. u.age < Ack => u.age + 1 \in 0 .. Ack
    BY <2>2
  <2> HIDE DEF L
  <2>5. u.age = Ack \/ u.age < Ack
    BY <2>2
  <2> QED BY <2>1, <2>2, <2>3, <2>4, <2>5 DEF LunState
<1>7. B \in Nat /\ (s.bounce = Unset => B = Unset)
  <2>1. s.bounce \in Nat /\ Bounce \in Nat /\ Unset = Bounce + 1
    BY <1>2, Constants DEF DevRec, Unset
  <2> QED BY <2>1
<1>8. L \in [Lun -> LunState]
  BY <1>6
<1> HIDE DEF L, B
<1>9. t \in DevRec
  BY <1>2, <1>5, <1>7, <1>8 DEF DevRec
<1>10. /\ t.slot = s.slot /\ t.drv = s.drv /\ t.live = s.live /\ t.cur = s.cur /\ t.moved = s.moved /\ t.last = s.last
       /\ t.cfg = s.cfg /\ t.swap = s.swap /\ t.ejected = s.ejected /\ t.bounce = B /\ t.conf = s.conf /\ t.lun = L
  BY <1>2, <1>5 DEF DevRec
<1>11. /\ h \in HistRec /\ h.known = hist.known /\ h.fresh = hist.fresh /\ h.cap = hist.cap /\ h.waits = hist.waits
       /\ h.polled = hist.polled /\ h.shown = hist.shown /\ h.unseen = hist.unseen /\ h.out = hist.out
       /\ h.nothing = hist.nothing
       /\ \A l \in Img : h.since[l] = IF l \in hist.waits /\ hist.since[l] <= Ack THEN hist.since[l] + 1 ELSE hist.since[l]
  <2> HIDE DEF Media
  <2> DEFINE S == [l \in Img |-> IF l \in hist.waits /\ hist.since[l] <= Ack THEN hist.since[l] + 1 ELSE hist.since[l]]
             K == [l \in Img |-> IF coop THEN "no" ELSE hist.looked[l]]
  <2>1. h = [hist EXCEPT !.since = S, !.looked = K]
    BY <1>1 DEF TickSeen, HistRec
  <2>2. S \in [Img -> Nat] /\ K \in [Img -> {"yes", "no", "ua"}]
    BY <1>1 DEF HistRec
  <2>3. \A l \in Img : S[l] = IF l \in hist.waits /\ hist.since[l] <= Ack THEN hist.since[l] + 1 ELSE hist.since[l]
    OBVIOUS
  <2> HIDE DEF S, K, h
  <2>4. h \in HistRec
    BY <1>1, <2>1, <2>2 DEF HistRec
  <2>5. h.since = S
    BY <1>1, <2>1 DEF HistRec
  <2>6. /\ h.known = hist.known /\ h.fresh = hist.fresh /\ h.cap = hist.cap /\ h.waits = hist.waits
        /\ h.polled = hist.polled /\ h.shown = hist.shown /\ h.unseen = hist.unseen /\ h.out = hist.out
        /\ h.nothing = hist.nothing
    BY <1>1, <2>1 DEF HistRec
  <2> QED BY <2>3, <2>4, <2>5, <2>6
<1> HIDE DEF h
<1>12. \A l \in Lun : /\ LastSeen(t, h, l) = LastSeen(s, hist, l)
                      /\ Still(t, l) = Still(s, l)
  BY <1>6, <1>10, <1>11 DEF LastSeen, Still
<1>13. Sane(t) /\ SawCard(t, h) /\ SawImage(t, h)
  BY <1>3, <1>6, <1>10, <1>11, <1>12 DEF Kept, Matches, Sane, SawCard, SawImage, Lun
<1>14. Knows(t, h)
  BY <1>3, <1>6, <1>10, <1>11, <1>12 DEF Kept, Matches, Knows
<1>15. Took(t, h)
  BY <1>3, <1>6, <1>10, <1>11, <1>12 DEF Kept, Matches, Took, Lun
<1>16. Owed(t, h, {})
  <2> SUFFICES ASSUME t.conf, NEW l \in h.waits
               PROVE  t.lun[l].owed /\ h.since[l] <= t.lun[l].age
    BY DEF Owed
  <2>1. /\ l \in Img /\ l \in Lun /\ hist.since[l] \in Nat /\ Ack \in Nat /\ s.lun[l].age \in Nat
    BY <1>1, <1>6, <1>11, Constants DEF HistRec, Lun
  <2>2. hist.since[l] < Ack /\ s.lun[l].owed /\ hist.since[l] <= s.lun[l].age
    BY <1>4, <1>10, <1>11, <2>1 DEF Holds, Kept, Matches, Owed
  <2>3. h.since[l] = hist.since[l] + 1
    BY <1>11, <2>1, <2>2
  <2>4. t.lun[l].owed
    BY <1>6, <1>10, <2>1, <2>2
  <2>5. t.lun[l].age = s.lun[l].age + 1 \/ t.lun[l].age = Ack
    BY <1>6, <1>10, <2>1, <2>2
  <2> QED BY <2>1, <2>2, <2>3, <2>4, <2>5
<1>17. NoWait(h)
  BY <1>3, <1>11 DEF Kept, Matches, NoWait
<1>18. StaysOut(t, h) /\ NoneLeft(t, h)
  BY <1>3, <1>7, <1>10, <1>11 DEF Kept, StaysOut, NoneLeft, Many, Bare, NoChoice, Mounted
<1>19. Mounted(t) = Mounted(dev)
  BY <1>2, <1>10 DEF Mounted
<1> QED BY <1>9, <1>11, <1>13, <1>14, <1>15, <1>16, <1>17, <1>18, <1>19 DEF Matches, t, h

LEMMA ConsoleGoes ==
  ASSUME NEW t \in DevRec, NEW key \in User \cup {None, Due}, NEW up \in BOOLEAN, NEW ok \in BOOLEAN, NEW how \in Outcomes
  PROVE  LET c == Console(t, key, up, ok, how) IN
         /\ Steps(t, c) /\ (key.do # "reinsert" => Goes(t, c))
         /\ key.do \notin {"next", "deferred", "mount"} /\ (key.do = "reinit" => NoChoice(t)) => Stays(t, c)
         /\ key.do = "next" => c = CycleNext(t, ok, how)
<1> DEFINE c == Console(t, key, up, ok, how)
           e == IF List(t) = <<>> THEN Scan(t, ok) ELSE t
<1>1. key.do \in {"next", "list", "unmount", "reinit", "reinsert", "mount", "deferred", "none"}
      /\ (key.do = "none" <=> key = None) /\ (key.do = "deferred" <=> key = Due)
  BY DEF User, None, Due
<1>2. CASE key.do = "none"
  <2>1. c = t
    BY <1>1, <1>2 DEF Console
  <2> QED BY <1>2, <2>1, GoesNowhere DEF Goes, Stays
<1>3. CASE key.do = "deferred"
  <2>1. c = DeferredMount(t, how)
    BY <1>1, <1>3 DEF Console, None, Due
  <2> QED BY <1>3, <2>1, DeferredMountGoes DEF Goes
<1>4. CASE key.do = "next"
  <2>1. c = CycleNext(t, ok, how)
    BY <1>1, <1>4 DEF Console
  <2> QED BY <1>4, <2>1, CycleNextGoes DEF Goes
<1>5. CASE key.do = "list"
  <2>1. c \in {t, Scan(t, ok)}
    BY <1>1, <1>5 DEF Console
  <2> QED BY <1>5, <2>1, ScanStays, GoesNowhere DEF Goes, Stays
<1>6. CASE key.do = "unmount"
  <2>1. c = Unmount(t)
    BY <1>1, <1>6 DEF Console
  <2> QED BY <1>6, <2>1, UnmountStays DEF Goes
<1>7. CASE key.do = "reinit"
  <2>1. c = Reinit(t, up, ok)
    BY <1>1, <1>7 DEF Console
  <2> QED BY <1>7, <2>1, ReinitGoes DEF Goes
<1>8. CASE key.do = "reinsert"
  <2>1. c = [t EXCEPT !.ejected = TRUE, !.bounce = Bounce]
    BY <1>1, <1>8 DEF Console
  <2> HIDE DEF c
  <2>2. c \in DevRec
    BY <2>1, Constants DEF DevRec
  <2>3. Steps(t, c) /\ Stays(t, c)
    BY <2>1, <2>2 DEF Steps, Sane, Stays, Bare, NoChoice, Mounted, DevRec
  <2> QED BY <1>8, <2>3 DEF c
<1>9. CASE key.do = "mount"
  <2>1. c = t \/ c = MountIndex(e, key.n)
    BY <1>1, <1>9 DEF Console
  <2>2. Goes(t, e) /\ e \in DevRec
    BY ScanStays, GoesNowhere DEF Goes, Steps
  <2> HIDE DEF e, c
  <2>3. Goes(t, MountIndex(e, key.n))
    BY <2>2, MountIndexGoes, GoesOn
  <2>4. Goes(t, c)
    BY <2>1, <2>3, GoesNowhere
  <2> QED BY <1>9, <2>4 DEF Goes, c
<1> QED BY <1>1, <1>2, <1>3, <1>4, <1>5, <1>6, <1>7, <1>8, <1>9

(* Under a host that is not connected only what media_poll saw matters.     *)
LEMMA OfflineKept ==
  ASSUME NEW d, NEW h, NEW heard, NEW e \in DevRec, Matches(d, h, heard), Sane(e), e.conf = FALSE,
         e.cur = d.cur, e.moved = d.moved,
         \A l \in Lun : e.lun[l].was = d.lun[l].was /\ e.lun[l].stale = d.lun[l].stale
  PROVE  Kept(e, h, {})
<1>1. \A l \in Lun : LastSeen(e, h, l) = LastSeen(d, h, l) /\ Still(e, l) = Still(d, l)
  BY DEF LastSeen, Still
<1>2. Img \subseteq Lun
  BY DEF Lun
<1>3. SawCard(e, h) /\ SawImage(e, h)
  BY <1>1, <1>2 DEF Matches, SawCard, SawImage
<1>4. Took(e, h)
  BY <1>1, <1>2 DEF Matches, Took
<1> QED BY <1>3, <1>4 DEF Kept, Matches, Knows, Owed, StaysOut

LEMMA EvtResetIs ==
  ASSUME NEW d \in DevRec
  PROVE  LET e == EvtReset(d) IN
         /\ e \in DevRec /\ e.slot = d.slot /\ e.drv = d.drv /\ e.live = d.live /\ e.cur = d.cur /\ e.moved = d.moved
         /\ e.last = d.last /\ e.cfg = d.cfg /\ e.swap = d.swap /\ e.conf = d.conf /\ e.lun = d.lun
         /\ e.event = d.event
<1>1. EvtReset(d) = [d EXCEPT !.ejected = FALSE, !.premount = d.premount \/ d.ejhost]
  BY DEF EvtReset, DevRec
<1> QED BY <1>1 DEF DevRec

LEMMA WatchdogKept ==
  ASSUME NEW p, NEW q, Matches(p, q, {}), StaysOut(p, q)
  PROVE  LET d == Watchdog(p) IN
         /\ Kept(d, q, {}) /\ d.slot = p.slot /\ d.drv = p.drv /\ Stays(p, d)
         /\ Polled(q, d) = Polled(q, p) /\ \A h : Polled(h, d) = Polled(h, p)
         /\ d.conf /\ ~q.unseen => \A l \in q.waits \ {} : q.since[l] < Ack
<1>1. p \in DevRec /\ q \in HistRec /\ Img \subseteq Lun
  BY DEF Matches, Lun
<1>2. CASE ~Overdue(p)
  <2>1. Watchdog(p) = p
    BY <1>2 DEF Watchdog
  <2>2. ASSUME p.conf, ~q.unseen, NEW l \in q.waits
        PROVE  q.since[l] < Ack
    <3>1. p.lun[l].owed /\ q.since[l] <= p.lun[l].age /\ l \in Img /\ q.since[l] \in Nat
      BY <1>1, <2>2 DEF Matches, Owed, HistRec
    <3>2. ~(p.lun[l].age >= Ack)
      BY <1>2, <2>2, <3>1 DEF Overdue, OnAck
    <3>3. p.lun[l].age \in Nat /\ Ack \in Nat
      <4>1. p.lun[l] \in LunState
        BY <1>1, <3>1 DEF DevRec
      <4> QED BY <4>1, Constants DEF LunState
    <3> QED BY <3>1, <3>2, <3>3
  <2> QED BY <2>1, <2>2 DEF Kept, Stays
<1>3. CASE Overdue(p)
  <2> DEFINE L == [l \in Lun |-> Acked(p.lun[l])]
             a == [p EXCEPT !.lun = L, !.conf = FALSE]
             d == Watchdog(p)
  <2>1. d = EvtReset(a)
    BY <1>3 DEF Watchdog, AckAll
  <2>2. \A l \in Lun : Acked(p.lun[l]) \in LunState /\ Acked(p.lun[l]).was = p.lun[l].was /\ Acked(p.lun[l]).stale = p.lun[l].stale
    <3>1. \A u \in LunState : Acked(u) \in LunState /\ Acked(u).was = u.was /\ Acked(u).stale = u.stale
      <4>1. 0 \in 0 .. Ack
        BY Constants
      <4> QED BY <4>1 DEF LunState, Acked
    <3> QED BY <1>1, <3>1 DEF DevRec
  <2>3. L \in [Lun -> LunState] /\ \A l \in Lun : L[l].was = p.lun[l].was /\ L[l].stale = p.lun[l].stale
    BY <2>2
  <2> HIDE DEF L
  <2>4. a \in DevRec
    BY <1>1, <2>3 DEF DevRec
  <2>5. /\ a.slot = p.slot /\ a.drv = p.drv /\ a.live = p.live /\ a.cur = p.cur /\ a.moved = p.moved
        /\ a.last = p.last /\ a.cfg = p.cfg /\ a.swap = p.swap /\ a.conf = FALSE /\ a.lun = L
    BY <1>1 DEF DevRec
  <2> HIDE DEF a, d
  <2>6. /\ d \in DevRec /\ d.slot = p.slot /\ d.drv = p.drv /\ d.live = p.live /\ d.cur = p.cur /\ d.moved = p.moved
        /\ d.last = p.last /\ d.cfg = p.cfg /\ d.swap = p.swap /\ d.conf = FALSE /\ d.lun = L
    BY <2>1, <2>4, <2>5, EvtResetIs
  <2>7. Sane(d)
    BY <2>6 DEF Matches, Sane
  <2>8. Kept(d, q, {})
    BY <2>3, <2>6, <2>7, OfflineKept
  <2>9. \A l \in Img : Medium(d, l) = Medium(p, l)
    <3>1. \A l \in Img : l # "card"
      BY DEF Img
    <3> QED BY <2>6, <3>1 DEF Medium, Present, Mounted
  <2>10. \A h : Polled(h, d) = Polled(h, p)
    <3>1. [l \in Img |-> Medium(d, l)] = [l \in Img |-> Medium(p, l)]
      BY <2>9
    <3> SUFFICES ASSUME NEW h
                 PROVE  Polled(h, d) = Polled(h, p)
      OBVIOUS
    <3>2. {l \in Img : Medium(d, l) # h.shown[l]} = {l \in Img : Medium(p, l) # h.shown[l]}
      BY <2>9
    <3> HIDE DEF Medium
    <3> QED BY <2>6, <3>1, <3>2 DEF Polled
  <2>11. Stays(p, d)
    BY <2>6 DEF Stays, Bare, NoChoice, Mounted
  <2> QED BY <2>6, <2>8, <2>10, <2>11 DEF d
<1> QED BY <1>2, <1>3

(* What comes before the poll. *)
LEMMA RemountGoes ==
  ASSUME NEW c \in DevRec, NEW due \in BOOLEAN, NEW up \in BOOLEAN, NEW ok \in BOOLEAN
  PROVE  LET e == Remount(IF due /\ c.drv = NoCard THEN TryInit(c, up, ok) ELSE c, ok)
         IN Goes(c, e) /\ (Sane(c) => Stays(c, e))
<1> DEFINE i == IF due /\ c.drv = NoCard THEN TryInit(c, up, ok) ELSE c
           r == RemountLast(i, ok)
           b == r.ejhost /\ (Mounted(i) \/ ~Mounted(r))
           e == [r EXCEPT !.premount = FALSE, !.ejhost = b]
<1>1. Goes(c, i) /\ (Sane(c) => Stays(c, i)) /\ i \in DevRec
  <2>1. CASE due /\ c.drv = NoCard
    <3>1. i = TryInit(c, up, ok) /\ (Sane(c) => (Bare(c) => NoChoice(c)))
      BY <2>1, GoneIsBare
    <3> QED BY <3>1, TryInitGoes DEF Goes, Steps
  <2>2. CASE ~(due /\ c.drv = NoCard)
    <3>1. i = c
      BY <2>2
    <3> QED BY <3>1, GoesNowhere DEF Stays
  <2> QED BY <2>1, <2>2
<1> HIDE DEF i
<1>2. Goes(i, r) /\ Stays(i, r) /\ r \in DevRec
  BY <1>1, RemountLastGoes DEF Goes, Steps
<1>3. Goes(c, r) /\ (Sane(c) => Stays(c, r))
  BY <1>1, <1>2, GoesOn, StaysOn DEF Goes, Steps
<1>4. Remount(i, ok) = i \/ Remount(i, ok) = e
  BY <1>2 DEF Remount, DevRec
<1>5. Goes(r, e) /\ Stays(r, e)
  <2> HIDE DEF r
  <2>1. b \in BOOLEAN
    BY <1>2 DEF DevRec
  <2> HIDE DEF b
  <2>2. e \in DevRec
    BY <1>2, <2>1 DEF DevRec
  <2> QED BY <1>2, <2>2 DEF Goes, Steps, Same, Sane, Stays, Bare, NoChoice, Mounted, DevRec
<1> HIDE DEF r, e
<1>6. Goes(c, e) /\ (Sane(c) => Stays(c, e))
  BY <1>3, <1>5, GoesOn, StaysOn DEF Goes, Steps
<1> QED BY <1>1, <1>4, <1>6 DEF i

(* What a pass does, whatever lets it.                                      *)
Pass(key, up, ok, how, late, due) ==
  LET t == IF late THEN Ticked(dev) ELSE dev
      c == Console(t, key, up, ok, how)
      d == Housekeeping(c, due, up, ok)
      h == IF late THEN TickSeen(hist) ELSE hist
  IN /\ dev' = d
     /\ hist' = Seen(Watched(h, c, d, key, how), d, {})
     /\ UNCHANGED coop

LEMMA IdlePassHolds ==
  ASSUME MInv, IdlePass
  PROVE  MInv'
<1>1. PICK key \in User \cup {None, Due}, up \in BOOLEAN, ok \in BOOLEAN, how \in Outcomes :
        /\ Takes((IF key \in User THEN 1 ELSE 0) + Faults(up, ok) + Fails(how))
        /\ \E late, due \in BOOLEAN : Pass(key, up, ok, how, late, due)
  BY DEF IdlePass, Pass
<1>2. PICK late \in BOOLEAN, due \in BOOLEAN : Pass(key, up, ok, how, late, due)
  BY <1>1
<1> DEFINE t == IF late THEN Ticked(dev) ELSE dev
           h == IF late THEN TickSeen(hist) ELSE hist
           c == Console(t, key, up, ok, how)
           e == Remount(IF due /\ c.drv = NoCard THEN TryInit(c, up, ok) ELSE c, ok)
           p == MediaPoll(e)
           d == Watchdog(p)
           q == Polled(h, p)
           n == IF ~ChoseNothing(c, key) THEN StillNothing(key) ELSE IF how = "kept" THEN "unsaved" ELSE "saved"
           o == IF key.do = "reinsert" THEN "no" ELSE q.out
           r == [q EXCEPT !.nothing = n, !.out = o]
<1>3. /\ dev' = d /\ coop' = coop
      /\ hist' = Seen([Polled(h, d) EXCEPT !.nothing = n, !.out = IF key.do = "reinsert" THEN "no" ELSE @], d, {})
  BY <1>2 DEF Housekeeping, Pass, Watched
<1>4. events' \in Nat
  <2>1. Faults(up, ok) \in Nat /\ Fails(how) \in Nat /\ events \in Nat
    BY DEF Faults, Fails, MInv
  <2> HIDE DEF t, c, n, h
  <2> QED BY <1>1, <2>1 DEF Takes
<1>5. /\ Matches(t, h, {}) /\ StaysOut(t, h) /\ NoneLeft(t, h) /\ Mounted(t) = Mounted(dev) /\ h.nothing = hist.nothing
  BY TickKept DEF MInv, Holds, Kept
<1> HIDE DEF t, h
<1>6. t \in DevRec /\ h \in HistRec
  BY <1>5 DEF Matches
<1>7. /\ Steps(t, c) /\ (key.do # "reinsert" => Goes(t, c))
      /\ key.do \notin {"next", "deferred", "mount"} /\ (key.do = "reinit" => NoChoice(t)) => Stays(t, c)
      /\ key.do = "next" => c = CycleNext(t, ok, how)
  BY <1>6, ConsoleGoes
<1>8. /\ n \in {"no", "saved", "unsaved", "reread"}
      /\ n \in {"saved", "unsaved"} => c.slot # NoCard /\ c.drv \in {NoCard, c.slot} /\ (Many(c) => Bare(c))
      /\ n = "saved" /\ Many(c) => NoChoice(c)
  <2>1. CASE ChoseNothing(c, key)
    <3>1. /\ c = CycleNext(t, ok, how) /\ Mounted(t) /\ ~Mounted(c) /\ ~SwapWaits(c) /\ Sane(t) /\ c.slot = t.slot
      BY <1>5, <1>7, <2>1 DEF ChoseNothing, Matches, Steps
    <3>2. n = IF how = "kept" THEN "unsaved" ELSE "saved"
      BY <2>1
    <3> HIDE DEF n, c
    <3> QED BY <1>6, <3>1, <3>2, CycleNextBare
  <2>2. CASE ~ChoseNothing(c, key)
    <3>1. n = StillNothing(key)
      BY <2>2
    <3> HIDE DEF n, c
    <3>2. n \in {"no", "saved", "unsaved", "reread"}
      BY <1>5, <1>6, <3>1 DEF StillNothing, HistRec
    <3>3. ASSUME n \in {"saved", "unsaved"}
          PROVE  /\ c.slot # NoCard /\ c.drv \in {NoCard, c.slot} /\ (Many(c) => Bare(c))
                 /\ n = "saved" /\ Many(c) => NoChoice(c)
      <4>1. /\ key.do \notin {"next", "deferred", "mount"} /\ h.nothing = n
            /\ key.do = "reinit" => n = "saved"
        BY <1>5, <3>1, <3>3 DEF StillNothing
      <4>2. CASE Many(t)
        <5>1. Stays(t, c)
          BY <1>5, <1>7, <4>1, <4>2 DEF NoneLeft
        <5> QED BY <1>5, <1>7, <3>3, <4>1, <5>1, NoneGoes DEF NoneLeft
      <4>3. CASE ~Many(t)
        <5>1. Stays(t, c)
          BY <4>3 DEF Stays
        <5> QED BY <1>5, <1>7, <3>3, <4>1, <5>1, NoneGoes DEF NoneLeft
      <4> QED BY <4>2, <4>3
    <3> QED BY <3>2, <3>3
  <2> QED BY <2>1, <2>2
<1> HIDE DEF n
<1>9. c \in DevRec /\ Matches(c, h, {}) /\ (key.do # "reinsert" => StaysOut(c, h))
  <2>1. key.do # "reinsert" => StaysOut(c, h)
    BY <1>5, <1>7, KeptGoes DEF Kept
  <2> HIDE DEF c
  <2> QED BY <1>5, <1>7, <2>1, MatchesGoes DEF Steps
<1> HIDE DEF c
<1>10. Goes(c, e) /\ Stays(c, e) /\ e.slot = c.slot
  BY <1>9, RemountGoes DEF Goes, Steps, Matches
<1> HIDE DEF e
<1>11. Matches(e, h, {}) /\ e \in DevRec /\ (key.do # "reinsert" => StaysOut(e, h))
  BY <1>9, <1>10, MatchesGoes DEF Goes, Steps, Same, StaysOut
<1>12. Matches(p, q, {}) /\ p \in DevRec /\ q \in HistRec /\ (key.do # "reinsert" => StaysOut(p, q))
  <2>1. Matches(p, q, {}) /\ (key.do # "reinsert" => StaysOut(p, q))
    BY <1>11, PollKept
  <2> QED BY <2>1 DEF Matches
<1>13. p.slot = c.slot /\ Stays(c, p) /\ (c.drv \in {NoCard, c.slot} => p.drv \in {NoCard, c.slot})
  <2>1. LET l == Looked(e) IN Stays(e, l) /\ l.slot = e.slot /\ Stays(l, p) /\ p.slot = e.slot
    BY <1>11, LookedGoes, MediaPollIs DEF Steps
  <2>2. p.drv = e.drv /\ (c.drv \in {NoCard, c.slot} => e.drv \in {NoCard, c.slot})
    BY <1>10, <1>11, PollKept DEF Goes, Steps
  <2> HIDE DEF p
  <2> QED BY <1>10, <2>1, <2>2, StaysOn
<1> HIDE DEF p, q
<1>14. r \in HistRec /\ r.out = o /\ r.nothing = n
       /\ r.known = q.known /\ r.fresh = q.fresh /\ r.cap = q.cap /\ r.since = q.since /\ r.waits = q.waits
       /\ r.polled = q.polled /\ r.shown = q.shown /\ r.unseen = q.unseen
  <2> HIDE DEF Media
  <2>1. o \in {"no", "yes", "clock", "reset"}
    BY <1>12 DEF HistRec
  <2> HIDE DEF o
  <2> QED BY <1>8, <1>12, <2>1 DEF HistRec
<1>15. Matches(p, r, {}) /\ StaysOut(p, r)
  <2> HIDE DEF r
  <2>1. \A l \in Lun : LastSeen(p, r, l) = LastSeen(p, q, l)
    BY <1>14 DEF LastSeen
  <2>2. Img \subseteq Lun
    BY DEF Lun
  <2>3. SawCard(p, r) /\ SawImage(p, r) /\ Knows(p, r) /\ Took(p, r)
    BY <1>12, <1>14, <2>1, <2>2 DEF Matches, SawCard, SawImage, Knows, Took
  <2>4. Owed(p, r, {}) /\ NoWait(r)
    BY <1>12, <1>14 DEF Matches, Owed, NoWait
  <2> QED BY <1>12, <1>14, <2>3, <2>4 DEF Matches, StaysOut
<1>16. [Polled(h, d) EXCEPT !.nothing = n, !.out = IF key.do = "reinsert" THEN "no" ELSE @] = r
  <2>1. Polled(h, d) = q
    BY <1>15, WatchdogKept DEF q
  <2> HIDE DEF d
  <2> QED BY <1>12, <2>1 DEF HistRec
<1> HIDE DEF r
<1>17. /\ Kept(d, r, {}) /\ d.slot = p.slot /\ d.drv = p.drv /\ Stays(p, d)
       /\ (d.conf /\ ~r.unseen => \A l \in r.waits \ {} : r.since[l] < Ack)
  BY <1>15, WatchdogKept
<1> HIDE DEF d
<1>18. NoneLeft(d, r)
  <2>1. Stays(c, d) /\ d.slot = c.slot
    BY <1>13, <1>17, StaysOn
  <2> QED BY <1>8, <1>13, <1>14, <1>17, <2>1 DEF NoneLeft, Stays, Many
<1>19. Holds(d, Seen(r, d, {}))
  BY <1>17, <1>18, SeenHolds
<1>20. Holds(dev', hist')
  BY <1>3, <1>16, <1>19
<1> QED BY <1>3, <1>4, <1>20 DEF MInv

---------------------------------------------------------------------------
(* The user, the cable and the host's configuration. *)

LEMMA SlotHolds ==
  ASSUME MInv, Pull \/ Insert
  PROVE  MInv'
<1>1. Matches(dev, hist, {}) /\ StaysOut(dev, hist) /\ NoneLeft(dev, hist) /\ dev \in DevRec /\ hist \in HistRec
  BY DEF MInv, Holds, Kept, Matches
<1>2. /\ dev' \in DevRec /\ Sane(dev') /\ dev'.lun = dev.lun /\ dev'.conf = dev.conf /\ dev'.moved = dev.moved
      /\ dev'.cur = dev.cur /\ dev'.bounce = dev.bounce /\ dev'.ejected = dev.ejected
  <2>1. CASE Pull
    BY <1>1, <2>1, Constants DEF Pull, Outside, DevRec, Sane
  <2>2. CASE Insert
    BY <1>1, <2>2, Constants DEF Insert, Outside, DevRec, Matches, Sane
  <2> QED BY <2>1, <2>2
<1>3. /\ hist' \in HistRec /\ hist'.nothing \notin {"saved", "unsaved"}
      /\ hist'.known = hist.known /\ hist'.fresh = hist.fresh /\ hist'.cap = hist.cap /\ hist'.since = hist.since
      /\ hist'.waits = hist.waits /\ hist'.polled = hist.polled /\ hist'.shown = hist.shown
      /\ hist'.unseen = hist.unseen /\ hist'.out = hist.out
  <2> HIDE DEF Media
  <2>1. CASE Pull
    BY <1>1, <2>1 DEF Pull, HistRec
  <2>2. CASE Insert
    BY <1>1, <2>2 DEF Insert, NoneLeft, HistRec
  <2> QED BY <2>1, <2>2
<1>4. Matches(dev', hist, {})
  BY <1>1, <1>2, MatchesMoves
<1>5. Matches(dev', hist', {})
  <2>1. \A l \in Lun : LastSeen(dev', hist', l) = LastSeen(dev', hist, l)
    BY <1>3 DEF LastSeen
  <2>2. Img \subseteq Lun
    BY DEF Lun
  <2>3. SawCard(dev', hist') /\ SawImage(dev', hist') /\ Knows(dev', hist') /\ Took(dev', hist')
    BY <1>3, <1>4, <2>1, <2>2 DEF Matches, SawCard, SawImage, Knows, Took
  <2>4. Owed(dev', hist', {}) /\ NoWait(hist')
    BY <1>3, <1>4 DEF Matches, Owed, NoWait
  <2> QED BY <1>2, <1>3, <2>3, <2>4 DEF Matches
<1>6. coop' = coop /\ events' \in Nat
  BY DEF Pull, Insert, Outside, Takes, MInv
<1>7. Holds(dev', hist')
  <2>1. StaysOut(dev', hist') /\ NoneLeft(dev', hist')
    BY <1>1, <1>2, <1>3 DEF StaysOut, NoneLeft
  <2> QED BY <1>2, <1>3, <1>5, <2>1 DEF MInv, Holds, Kept
<1> QED BY <1>6, <1>7 DEF MInv

LEMMA BusResetHolds ==
  ASSUME MInv, BusReset
  PROVE  MInv'
<1> DEFINE o == [dev EXCEPT !.conf = FALSE]
           d == EvtReset(o)
<1>1. Matches(dev, hist, {}) /\ NoneLeft(dev, hist) /\ dev \in DevRec
  BY DEF MInv, Holds, Kept, Matches
<1>2. o \in DevRec /\ o.conf = FALSE
  BY <1>1 DEF DevRec
<1>3. /\ d \in DevRec /\ d.slot = dev.slot /\ d.drv = dev.drv /\ d.live = dev.live /\ d.cur = dev.cur /\ d.moved = dev.moved
      /\ d.last = dev.last /\ d.cfg = dev.cfg /\ d.swap = dev.swap /\ d.conf = FALSE /\ d.lun = dev.lun
  BY <1>1, <1>2, EvtResetIs DEF DevRec
<1>4. dev' = d /\ hist' = Seen(hist, dev', {}) /\ coop' = coop /\ events' \in Nat
  BY DEF BusReset, Outside, Takes, MInv
<1> HIDE DEF d
<1>5. Sane(d)
  BY <1>1, <1>3 DEF Matches, Sane
<1>6. Kept(d, hist, {})
  BY <1>1, <1>3, <1>5, OfflineKept
<1>7. NoneLeft(d, hist)
  BY <1>1, <1>3 DEF NoneLeft, Many, Bare, NoChoice, Mounted
<1>8. Holds(d, Seen(hist, d, {}))
  BY <1>3, <1>6, <1>7, SeenHolds
<1> QED BY <1>4, <1>8 DEF MInv

LEMMA SessionResetHolds ==
  ASSUME MInv, SessionReset
  PROVE  MInv'
<1> DEFINE d == EvtReset(dev)
           o == IF hist.out = "no" THEN "no" ELSE "reset"
           h == [hist EXCEPT !.out = o]
<1>1. /\ Matches(dev, hist, {}) /\ NoneLeft(dev, hist) /\ dev \in DevRec /\ hist \in HistRec
      /\ \A l \in hist.waits : hist.since[l] < Ack
  BY DEF MInv, Holds, Kept, Matches
<1>2. /\ d \in DevRec /\ d.slot = dev.slot /\ d.drv = dev.drv /\ d.live = dev.live /\ d.cur = dev.cur /\ d.moved = dev.moved
      /\ d.last = dev.last /\ d.cfg = dev.cfg /\ d.swap = dev.swap /\ d.conf = dev.conf /\ d.lun = dev.lun
  BY <1>1, EvtResetIs
<1>3. dev' = d /\ hist' = Seen(h, dev', {}) /\ coop' = coop /\ events' = events
  BY DEF SessionReset
<1> HIDE DEF d
<1>4. /\ h \in HistRec /\ h.out # "yes" /\ h.known = hist.known /\ h.fresh = hist.fresh /\ h.cap = hist.cap
      /\ h.since = hist.since /\ h.waits = hist.waits /\ h.polled = hist.polled /\ h.shown = hist.shown
      /\ h.unseen = hist.unseen /\ h.nothing = hist.nothing
  <2>1. o \in {"no", "reset"}
    OBVIOUS
  <2> HIDE DEF Media, o
  <2> QED BY <1>1, <2>1 DEF HistRec
<1> HIDE DEF h
<1>5. Sane(d)
  BY <1>1, <1>2 DEF Matches, Sane
<1>6. Matches(d, hist, {})
  BY <1>1, <1>2, <1>5, MatchesMoves
<1>7. Matches(d, h, {})
  <2>1. \A l \in Lun : LastSeen(d, h, l) = LastSeen(d, hist, l)
    BY <1>4 DEF LastSeen
  <2>2. Img \subseteq Lun
    BY DEF Lun
  <2>3. SawCard(d, h) /\ SawImage(d, h) /\ Knows(d, h) /\ Took(d, h)
    BY <1>4, <1>6, <2>1, <2>2 DEF Matches, SawCard, SawImage, Knows, Took
  <2>4. Owed(d, h, {}) /\ NoWait(h)
    BY <1>4, <1>6 DEF Matches, Owed, NoWait
  <2> QED BY <1>2, <1>4, <1>5, <2>3, <2>4 DEF Matches
<1>8. StaysOut(d, h) /\ NoneLeft(d, h)
  BY <1>1, <1>2, <1>4 DEF StaysOut, NoneLeft, Many, Bare, NoChoice, Mounted
<1>9. Holds(d, Seen(h, d, {}))
  BY <1>1, <1>4, <1>7, <1>8, SeenHolds DEF Kept
<1> QED BY <1>3, <1>9 DEF MInv

LEMMA SetConfigurationHolds ==
  ASSUME MInv, SetConfiguration
  PROVE  MInv'
<1> DEFINE o == [dev EXCEPT !.conf = TRUE]
           d == EvtReset(o)
           h == [hist EXCEPT !.fresh = {l \in Lun : dev.lun[l].was /\ ~dev.lun[l].ua},
                             !.early = {l \in Img : coop /\ dev.lun[l].owed},
                             !.looked = [l \in Img |-> IF coop THEN "ua" ELSE "yes"]]
<1>1. Matches(dev, hist, {}) /\ NoneLeft(dev, hist) /\ dev \in DevRec /\ hist \in HistRec
  BY DEF MInv, Holds, Kept, Matches
<1>2. o \in DevRec /\ o.conf = TRUE
  BY <1>1 DEF DevRec
<1>3. /\ d \in DevRec /\ d.slot = dev.slot /\ d.drv = dev.drv /\ d.live = dev.live /\ d.cur = dev.cur /\ d.moved = dev.moved
      /\ d.last = dev.last /\ d.cfg = dev.cfg /\ d.swap = dev.swap /\ d.conf = TRUE /\ d.lun = dev.lun
  BY <1>1, <1>2, EvtResetIs DEF DevRec
<1>4. dev' = d /\ hist' = h /\ coop' = coop /\ events' = events /\ ~dev.conf
  BY DEF SetConfiguration
<1> HIDE DEF d
<1>5. /\ h \in HistRec /\ h.fresh = {l \in Lun : dev.lun[l].was /\ ~dev.lun[l].ua}
      /\ h.cap = hist.cap /\ h.since = hist.since
      /\ h.waits = hist.waits /\ h.polled = hist.polled /\ h.shown = hist.shown
      /\ h.unseen = hist.unseen /\ h.out = hist.out /\ h.nothing = hist.nothing
  <2>1. [l \in Img |-> IF coop THEN "ua" ELSE "yes"] \in [Img -> {"yes", "no", "ua"}]
    OBVIOUS
  <2> HIDE DEF Media
  <2> QED BY <1>1, <2>1 DEF HistRec
<1> HIDE DEF h
<1>6. h.waits = {} /\ h.out # "yes"
  BY <1>4, <1>5 DEF MInv, Holds
<1>7. \A l \in Lun : LastSeen(d, h, l) = LastSeen(dev, hist, l) /\ Still(d, l) = Still(dev, l)
  BY <1>3, <1>5 DEF LastSeen, Still
<1>8. Sane(d) /\ SawCard(d, h) /\ SawImage(d, h)
  BY <1>1, <1>3, <1>5, <1>7 DEF Matches, Sane, SawCard, SawImage, Lun
<1>9. Knows(d, h)
  BY <1>3, <1>5 DEF Knows, Still
<1>10. Took(d, h)
  BY <1>1, <1>3, <1>5, <1>7 DEF Matches, Took, Lun
<1>11. Owed(d, h, {}) /\ NoWait(h) /\ StaysOut(d, h)
  BY <1>1, <1>5, <1>6 DEF Matches, Owed, NoWait, StaysOut
<1>12. NoneLeft(d, h)
  BY <1>1, <1>3, <1>5 DEF NoneLeft, Many, Bare, NoChoice, Mounted
<1> QED BY <1>3, <1>4, <1>5, <1>6, <1>8, <1>9, <1>10, <1>11, <1>12 DEF MInv, Holds, Kept, Matches

---------------------------------------------------------------------------
(* The theorems. *)

LEMMA InitHolds ==
  ASSUME Init
  PROVE  MInv /\ ~dev.conf
<1>1. PICK w \in AtPower : dev = Booted(w[1], w[2])
  BY DEF Init
<1> DEFINE c == w[1]
           s == [slot |-> c, drv |-> c, live |-> c # NoCard, listed |-> NoCard, cur |-> NoImage, moved |-> FALSE,
                 last |-> 0, cfg |-> [k \in Cards |-> IF k = c THEN w[2] ELSE 0], swap |-> NoSwap,
                 ejected |-> FALSE, bounce |-> Unset, ejhost |-> FALSE, premount |-> FALSE, conf |-> FALSE,
                 event |-> "none", lun |-> [l \in Lun |-> Quiet]]
           d == IF c = NoCard THEN s ELSE AutoMount(s, TRUE)
           L == [l \in Lun |-> [Quiet EXCEPT !.was = Present(d, l)]]
<1>2. c \in Slots /\ w[2] \in Nat
  BY MediaAssumption DEF Slots
<1>3. dev = [d EXCEPT !.lun = L]
  BY <1>1 DEF Booted
<1>4. s \in DevRec
  <2>1. Unset \in Nat
    BY Constants DEF Unset
  <2>2. [k \in Cards |-> IF k = c THEN w[2] ELSE 0] \in [Cards -> Nat]
    BY <1>2
  <2>3. [l \in Lun |-> Quiet] \in [Lun -> LunState]
    BY Constants
  <2> QED BY <1>2, <2>1, <2>2, <2>3, Constants DEF DevRec
<1>5. Sane(s) /\ s.conf = FALSE
  BY DEF Sane
<1> HIDE DEF s
<1>6. Goes(s, d)
  BY <1>4, AutoMountGoes, GoesNowhere
<1>7. d \in DevRec /\ Sane(d) /\ d.conf = FALSE
  BY <1>5, <1>6 DEF Goes, Steps
<1> HIDE DEF d
<1>8. /\ L \in [Lun -> LunState]
      /\ \A l \in Lun : L[l].was = Present(d, l) /\ L[l].ua = FALSE /\ L[l].stale = FALSE
  <2>1. \A l \in Lun : Present(d, l) \in BOOLEAN
    BY <1>7 DEF Present, Mounted, DevRec
  <2> QED BY <2>1, Constants DEF Quiet, LunState
<1> HIDE DEF L
<1>9. /\ dev \in DevRec /\ dev.drv = d.drv /\ dev.cur = d.cur /\ dev.live = d.live /\ dev.slot = d.slot
      /\ dev.ejected = d.ejected /\ dev.conf = FALSE /\ dev.lun = L
  BY <1>3, <1>7, <1>8 DEF DevRec
<1>10. Sane(dev)
  BY <1>7, <1>9 DEF Sane
<1>11. \A l \in Lun : Present(dev, l) = Present(d, l) /\ Medium(dev, l) \in Media
  BY <1>9, MediumTyped DEF Present, Mounted
<1>12. /\ hist.polled = dev.drv /\ hist.unseen = FALSE /\ hist.waits = {} /\ hist.out = "no" /\ hist.nothing = "no"
       /\ \A l \in Img : hist.shown[l] = Medium(dev, l) /\ hist.cap[l] = Medium(dev, l) /\ hist.since[l] = 0
  BY DEF Init
<1>13. hist \in HistRec
  <2>1. [l \in Img |-> Medium(dev, l)] \in [Img -> Media] /\ Nothing \in Media
    BY <1>11 DEF Lun, Media
  <2>2. dev.drv \in Slots
    BY <1>9 DEF DevRec
  <2> HIDE DEF Media
  <2> QED BY <2>1, <2>2 DEF Init, HistRec
<1>14. \A l \in Lun : dev.lun[l].was = Present(dev, l) /\ (Present(dev, l) => LastSeen(dev, hist, l) = Medium(dev, l))
  BY <1>8, <1>9, <1>11, <1>12, MediumTyped DEF LastSeen
<1>15. SawCard(dev, hist) /\ SawImage(dev, hist) /\ Took(dev, hist)
  <2>1. Img \subseteq Lun
    BY DEF Lun
  <2> QED BY <1>9, <1>12, <1>14, <2>1, MediumTyped DEF SawCard, SawImage, Took, Still
<1>16. Knows(dev, hist) /\ Owed(dev, hist, {}) /\ NoWait(hist) /\ StaysOut(dev, hist) /\ NoneLeft(dev, hist)
  BY <1>9, <1>12 DEF Knows, Owed, NoWait, StaysOut, NoneLeft
<1>17. coop \in BOOLEAN /\ events = 0
  BY DEF Init
<1> QED BY <1>9, <1>10, <1>12, <1>13, <1>15, <1>16, <1>17 DEF MInv, Holds, Kept, Matches

(* In every reachable state what the core holds for each LUN fits what      *)
(* media_poll saw last, what the host was told since, and what it is owed   *)
(* (msc_core.c media_poll, medium_ready, swap_watchdog).                    *)
THEOREM MInvariance == Spec => []MInv
<1>1. Init => MInv
  BY InitHolds
<1>2. MInv /\ [Next]_vars => MInv'
  <2> SUFFICES ASSUME MInv, [Next]_vars
               PROVE  MInv'
    OBVIOUS
  <2>1. CASE Command
    BY <2>1, CommandHolds
  <2>2. CASE IdlePass
    BY <2>2, IdlePassHolds
  <2>3. CASE Pull \/ Insert
    BY <2>3, SlotHolds
  <2>4. CASE BusReset
    BY <2>4, BusResetHolds
  <2>5. CASE SessionReset
    BY <2>5, SessionResetHolds
  <2>6. CASE SetConfiguration
    BY <2>6, SetConfigurationHolds
  <2>7. CASE UNCHANGED vars
    BY <2>7 DEF vars, MInv
  <2> QED BY <2>1, <2>2, <2>3, <2>4, <2>5, <2>6, <2>7 DEF Next
<1> QED BY <1>1, <1>2, PTL DEF Spec

(* No READ is served from a medium other than the one the host was last     *)
(* told of, however images are swapped, ejected, loaded and remounted, as   *)
(* long as no card was exchanged without media_poll seeing the slot empty   *)
(* (msc_core.c:359).                                                        *)
THEOREM MediaAnnounced == Spec => []ImagesAnnounced
<1>1. MInv => ImagesAnnounced
  <2> SUFFICES ASSUME MInv, ~Heard.unseen, NEW l \in Lun, Serves(Polls, l)
               PROVE  l \in hist.fresh \/ hist.known[l] = Medium(Polls, l)
    BY DEF ImagesAnnounced, OnlyAnnounced
  <2>1. Asked(Polls, Heard) /\ Polls \in DevRec
    BY CommandAsked DEF Asked, Matches
  <2>2. Present(Polls, l) /\ Polls.conf /\ ~Polls.lun[l].ua
    BY DEF Serves, Attention
  <2>3. Still(Polls, l)
    BY <2>1, <2>2 DEF Asked, Fresh, Still
  <2>4. l \in Heard.fresh \/ Heard.known[l] = LastSeen(Polls, Heard, l)
    BY <2>1, <2>2, <2>3 DEF Asked, Matches, Knows
  <2>5. LastSeen(Polls, Heard, l) = Medium(Polls, l)
    BY <2>1, <2>2, MediumTyped DEF Asked, Fresh, LastSeen
  <2>6. Heard.fresh = hist.fresh /\ Heard.known = hist.known
    BY <2>1, PolledIs DEF Heard, MInv, Holds, Kept, Matches
  <2> QED BY <2>4, <2>5, <2>6
<1> QED BY <1>1, MInvariance, PTL

(* An eject takes away the medium the host has taken on board, never one    *)
(* put in its place whose capacity it has not read (msc_core.c START STOP   *)
(* UNIT).                                                                   *)
THEOREM KnownEjected == Spec => []EjectsKnown
<1>1. MInv => EjectsKnown
  <2> SUFFICES ASSUME MInv, ~Heard.unseen, NEW l \in Img, MayEject(Polls, l)
               PROVE  hist.cap[l] = Medium(Polls, l)
    BY DEF EjectsKnown
  <2>1. Asked(Polls, Heard) /\ Polls \in DevRec /\ l \in Lun
    BY CommandAsked DEF Asked, Matches, Lun
  <2>2. Present(Polls, l) /\ ~Polls.lun[l].stale
    BY DEF MayEject
  <2>3. Still(Polls, l)
    BY <2>1, <2>2 DEF Asked, Fresh, Still
  <2>4. Heard.cap[l] = LastSeen(Polls, Heard, l)
    BY <2>1, <2>2, <2>3 DEF Asked, Matches, Took
  <2>5. LastSeen(Polls, Heard, l) = Medium(Polls, l)
    BY <2>1, <2>2, MediumTyped DEF Asked, Fresh, LastSeen
  <2>6. Heard.cap = hist.cap
    BY <2>1, PolledIs DEF Heard, MInv, Holds, Kept, Matches
  <2> QED BY <2>4, <2>5, <2>6
<1> QED BY <1>1, MInvariance, PTL

(* A connected host that does not look at a changed LUN is re-plugged       *)
(* within IMG_SWAP_ACK_MS of the first change it missed (msc_core.c         *)
(* swap_watchdog, lun_changed).                                             *)
THEOREM HostToldInTime == Spec => []ToldInTime
<1>1. MInv => ToldInTime
  BY DEF MInv, Holds, ToldInTime
<1> QED BY <1>1, MInvariance, PTL

(* A card volume the host ejected, no console L having left its clock set,  *)
(* stays out until the card is re-inserted, USB re-plugged, console L or a  *)
(* reset of the session (msc_core.c:1345, :232).                            *)
THEOREM CardStaysOut == Spec => []EjectedForSession
<1>1. MInv => EjectedForSession
  BY DEF MInv, Holds, Kept, StaysOut, EjectedForSession, Present
<1> QED BY <1>1, MInvariance, PTL

(* Once the key has chosen "nothing", nothing is mounted on a card with     *)
(* several images, or none, until the user mounts something; where the      *)
(* choice could not be saved, until the card is initialised again as well   *)
(* (image_store.c:888, :890).                                               *)
THEOREM NothingRemains == Spec => []NothingStaysOfMany
<1>1. MInv => NothingStaysOfMany
  BY DEF MInv, Holds, NoneLeft, Many, Bare, NothingStaysOfMany, NotOne
<1> QED BY <1>1, MInvariance, PTL

---------------------------------------------------------------------------
(* A cooperative host that is connected. *)

(* A LUN it is owed changed since the last tick, or the tick before and it  *)
(* has not looked yet; then the attention, or the media event, will tell it. *)
Minds(u, e, looked, l) ==
  u.owed => /\ u.age = 0 \/ (u.age = 1 /\ looked # "yes")
            /\ u.was /\ looked # "ua" => u.ua /\ (l = "dvd" => e = "new")
Eager(d, h) == \A l \in Img \ h.early : Minds(d.lun[l], d.event, h.looked[l], l)
CInv == coop /\ dev.conf => Eager(dev, hist)

LEMMA LunPollMinds ==
  ASSUME NEW d \in DevRec, NEW l \in Img, NEW looked, Minds(d.lun[l], d.event, looked, l)
  PROVE  Minds(LunPoll(d, l), Event(d), looked, l)
<1> DEFINE v == LunPoll(d, l)
<1>1. PICK u \in LunState : u = d.lun[l]
  BY DEF DevRec, Lun
<1>2. Present(d, l) \in BOOLEAN /\ d.moved \in BOOLEAN /\ l # "card" /\ l \in Lun
  BY DEF Present, Mounted, DevRec, Lun, Img
<1>3. /\ v.was = Present(d, l) /\ (u.owed => v.owed /\ v.age = u.age) /\ (~u.owed /\ v.owed => v.age = 0)
      /\ v \in LunState
  BY <1>1, <1>2, LunPollIs
<1>4. Minds(u, d.event, looked, l)
  BY <1>1
<1>5. CASE Present(d, l) /\ (~u.was \/ d.moved)
  <2>1. v.ua
    BY <1>1, <1>2, <1>3, <1>5, LunPollIs
  <2>2. l = "dvd" => Event(d) = "new"
    BY <1>1, <1>2, <1>5 DEF Event, Happened
  <2> QED BY <1>1, <1>3, <1>4, <2>1, <2>2 DEF Minds
<1>6. CASE ~Present(d, l)
  BY <1>1, <1>3, <1>4, <1>6 DEF Minds
<1>7. CASE Present(d, l) /\ u.was /\ ~d.moved
  <2>1. v = u
    BY <1>1, <1>2, <1>7 DEF LunPoll
  <2>2. l = "dvd" => Event(d) = d.event
    BY <1>1, <1>2, <1>7 DEF Event, Happened
  <2> QED BY <1>4, <2>1, <2>2 DEF Minds
<1> QED BY <1>2, <1>5, <1>6, <1>7

(* Between the steps of a command, or of a pass.                            *)
Mindful(d, h) == d \in DevRec /\ h \in HistRec /\ d.conf /\ Eager(d, h)

LEMMA EagerGoes ==
  ASSUME NEW d, NEW e \in DevRec, NEW h, Mindful(d, h), e.lun = d.lun, e.conf = d.conf, e.event = d.event
  PROVE  Mindful(e, h)
BY DEF Mindful, Eager

LEMMA PollEager ==
  ASSUME NEW d, NEW h, Mindful(d, h)
  PROVE  LET p == MediaPoll(d)
             q == Polled(h, p)
         IN Mindful(p, q) /\ Mindful(p, h) /\ \A l \in Lun : p.lun[l].was = Present(p, l)
<1> DEFINE e == Looked(d)
           p == MediaPoll(d)
           q == Polled(h, p)
<1>1. d \in DevRec /\ h \in HistRec
  BY DEF Mindful
<1>2. e \in DevRec /\ e.lun = d.lun
  BY <1>1, LookedGoes DEF Steps
<1>3. e.event = d.event
  <2> DEFINE g == CardGone(d)
  <2>1. Unmount(d).event = d.event /\ Unmount(d) \in DevRec
    BY <1>1, UnmountSteps DEF Same, Steps
  <2>2. g \in DevRec /\ g.event = d.event
    <3>1. g = d \/ g = [Unmount(d) EXCEPT !.ejected = FALSE]
      BY DEF CardGone
    <3> HIDE DEF g
    <3> QED BY <1>1, <2>1, <3>1 DEF DevRec
  <2>3. e = BounceEnds(g)
    BY DEF Looked
  <2> HIDE DEF g, e
  <2> QED BY <2>2, <2>3 DEF BounceEnds, DevRec
<1>4. p \in DevRec /\ p.conf = d.conf /\ \A l \in Lun : p.lun[l] = LunPoll(e, l) /\ Present(p, l) = Present(e, l)
  BY <1>1, MediaPollIs
<1>5. p.event = Event(e)
  <2>1. p = [e EXCEPT !.moved = FALSE, !.event = Event(e), !.lun = [l \in Lun |-> LunPoll(e, l)],
                      !.ejhost = @ /\ \A l \in Img : Present(e, l) => e.lun[l].was]
    BY DEF MediaPoll, Looked
  <2> HIDE DEF e, p
  <2> QED BY <1>2, <2>1 DEF DevRec
<1>6. \A l \in Lun : p.lun[l].was = Present(p, l)
  BY <1>2, <1>4, LunPollIs
<1> HIDE DEF p, e
<1>7. q \in HistRec /\ q.early = h.early /\ q.looked = h.looked
  BY <1>1, <1>4, PolledIs
<1> HIDE DEF q
<1>8. \A l \in Img \ h.early : Minds(p.lun[l], p.event, h.looked[l], l)
  BY <1>2, <1>3, <1>4, <1>5, LunPollMinds DEF Mindful, Eager, Lun
<1> HIDE DEF Minds
<1> QED BY <1>1, <1>4, <1>6, <1>7, <1>8 DEF Mindful, Eager, p, q

(* What an answer leaves alone of what a cooperative host has looked at.    *)
LEMMA HowIs ==
  ASSUME coop, NEW h \in HistRec, NEW l \in Lun, NEW how \in {"yes", "no", "ua"}
  PROVE  /\ \A d \in DevRec : /\ Tells(h, d, l).looked = h.looked /\ Tells(h, d, l).early = h.early
                              /\ Learns(h, d, l).looked = h.looked /\ Learns(h, d, l).early = h.early
         /\ Looks(h, l, how).early = h.early /\ Glances(h, l).early = h.early
         /\ \A k \in Img : /\ Looks(h, l, how).looked[k] = IF k = l THEN how ELSE h.looked[k]
                           /\ Glances(h, l).looked[k] = IF k = l /\ h.looked[k] = "no" THEN "yes" ELSE h.looked[k]
<1> HIDE DEF Media, Medium
<1>1. \A d \in DevRec : Tells(h, d, l).looked = h.looked /\ Tells(h, d, l).early = h.early
  BY DEF Tells, HistRec
<1>2. ASSUME NEW w
      PROVE  /\ Looks(h, l, w).early = h.early
             /\ \A k \in Img : Looks(h, l, w).looked[k] = IF k = l THEN w ELSE h.looked[k]
  BY DEF Looks, HistRec
<1> QED BY <1>1, <1>2 DEF Learns, Glances

LEMMA AnswerEager ==
  ASSUME coop, NEW p, NEW q, NEW e, NEW r, NEW l \in Lun, NEW heard, Mindful(p, q), Answers(e, r, heard),
         Relun(p, e, l), r \in HistRec, r.early = q.early, l # "dvd" => e.event = p.event,
         \A k \in Img \ {l} : r.looked[k] = q.looked[k],
         l \in Img \ q.early => Minds(e.lun[l], e.event, r.looked[l], l)
  PROVE  dev'.conf /\ Eager(dev', hist')
<1>1. e.conf /\ Img \subseteq Lun /\ e.lun[l] = e.lun[l] /\ \A k \in Lun \ {l} : e.lun[k] = p.lun[k]
  BY DEF Mindful, Relun, Lun
<1>2. \A k \in Img \ r.early : Minds(e.lun[k], e.event, r.looked[k], k)
  <2> SUFFICES ASSUME NEW k \in Img \ r.early
               PROVE  Minds(e.lun[k], e.event, r.looked[k], k)
    OBVIOUS
  <2>1. CASE k = l
    BY <2>1
  <2>2. CASE k # l
    <3>1. e.lun[k] = p.lun[k] /\ r.looked[k] = q.looked[k] /\ Minds(p.lun[k], p.event, q.looked[k], k)
      BY <1>1, <2>2 DEF Mindful, Eager
    <3> QED BY <2>2, <3>1 DEF Minds
  <2> QED BY <2>1, <2>2
<1>3. Seen(r, e, heard).early = {k \in r.early : e.lun[k].owed} /\ Seen(r, e, heard).looked = r.looked
  BY <1>1 DEF Seen, HistRec
<1>4. \A k \in Img : ~e.lun[k].owed => Minds(e.lun[k], e.event, r.looked[k], k)
  BY DEF Minds
<1>5. dev' = e /\ hist' = Seen(r, e, heard)
  BY DEF Answers
<1> QED BY <1>1, <1>2, <1>3, <1>4, <1>5 DEF Eager

(* After a poll. *)
Tidy(d, h) == Mindful(d, h) /\ \A l \in Lun : d.lun[l].was = Present(d, l)

LEMMA AttentionEager ==
  ASSUME coop, NEW p, NEW q, NEW l \in Lun, Tidy(p, q), UnitAttention(p, q, l)
  PROVE  dev'.conf /\ Eager(dev', hist')
<1> DEFINE e == Attended(p, l)
           t == Tells(q, p, l)
           r == Looks(t, l, "ua")
<1>1. p \in DevRec /\ q \in HistRec /\ p.lun[l] \in LunState /\ Mindful(p, q)
  BY DEF Tidy, Mindful, DevRec
<1>2. Relun(p, e, l) /\ e.lun[l].owed = p.lun[l].owed /\ e.lun[l].age = p.lun[l].age /\ e.event = p.event
  <2>1. Relun(p, e, l) /\ e.lun[l] = [p.lun[l] EXCEPT !.ua = FALSE]
    BY <1>1, RelunIs
  <2>2. e.event = p.event
    BY <1>1 DEF Attended, DevRec
  <2> HIDE DEF e
  <2> QED BY <1>1, <2>1, <2>2 DEF LunState
<1>3. t \in HistRec /\ t.looked = q.looked /\ t.early = q.early
  BY <1>1, TellsIs, HowIs DEF Agrees
<1>4. r \in HistRec /\ r.early = q.early /\ \A k \in Img : r.looked[k] = IF k = l THEN "ua" ELSE q.looked[k]
  <2> HIDE DEF t
  <2>1. r \in HistRec
    BY <1>3, LooksIs DEF Agrees
  <2>2. Looks(t, l, "ua").early = t.early /\ \A k \in Img : Looks(t, l, "ua").looked[k] = IF k = l THEN "ua" ELSE t.looked[k]
    BY <1>3, HowIs
  <2> QED BY <1>3, <2>1, <2>2
<1>5. Answers(e, r, {})
  BY DEF UnitAttention
<1> HIDE DEF e, t, r
<1>6. l \in Img \ q.early => Minds(e.lun[l], e.event, r.looked[l], l)
  BY <1>1, <1>2, <1>4 DEF Mindful, Eager, Minds
<1> QED BY <1>1, <1>2, <1>4, <1>5, <1>6, AnswerEager

(* The LUN was looked at, or nothing of it changed but what the host knows. *)
LEMMA AckedEager ==
  ASSUME coop, NEW p, NEW q, NEW e, NEW r, NEW l \in Lun, NEW heard, Mindful(p, q), Answers(e, r, heard),
         Relun(p, e, l), r \in HistRec, r.early = q.early, l # "dvd" => e.event = p.event,
         \A k \in Img \ {l} : r.looked[k] = q.looked[k],
         \/ e.lun[l].owed = FALSE
         \/ e.lun[l] = p.lun[l] /\ e.event = p.event /\ (l \in Img => r.looked[l] = q.looked[l])
  PROVE  dev'.conf /\ Eager(dev', hist')
<1>1. l \in Img \ q.early => Minds(e.lun[l], e.event, r.looked[l], l)
  BY DEF Mindful, Eager, Minds
<1> QED BY <1>1, AnswerEager

(* What the host remembers after any of its looks.                          *)
Alike(h, r)       == r \in HistRec /\ r.looked = h.looked /\ r.early = h.early
LooksAs(h, r, l, how) ==
  r \in HistRec /\ r.early = h.early /\ \A k \in Img : r.looked[k] = IF k = l THEN how ELSE h.looked[k]

LEMMA LooksHow ==
  ASSUME coop, NEW d \in DevRec, NEW h \in HistRec, NEW l \in Lun
  PROVE  /\ Alike(h, Tells(h, d, l)) /\ Alike(h, Learns(h, d, l))
         /\ \A how \in {"yes", "no", "ua"} :
              /\ LooksAs(h, Looks(h, l, how), l, how)
              /\ LooksAs(h, Looks(Tells(h, d, l), l, how), l, how)
              /\ LooksAs(h, Looks(Learns(h, d, l), l, how), l, how)
         /\ Glances(h, l) \in HistRec /\ Glances(h, l).early = h.early
         /\ \A k \in Img : Glances(h, l).looked[k] = IF k = l /\ h.looked[k] = "no" THEN "yes" ELSE h.looked[k]
<1>1. Alike(h, Tells(h, d, l)) /\ Alike(h, Learns(h, d, l)) /\ Alike(h, h)
  BY TellsIs, HowIs DEF Agrees, Alike
<1>2. ASSUME NEW s, Alike(h, s), NEW how \in {"yes", "no", "ua"}
      PROVE  LooksAs(h, Looks(s, l, how), l, how)
  <2>1. Looks(s, l, how) \in HistRec
    BY <1>2, LooksIs DEF Agrees, Alike
  <2>2. Looks(s, l, how).early = s.early /\ \A k \in Img : Looks(s, l, how).looked[k] = IF k = l THEN how ELSE s.looked[k]
    BY <1>2, HowIs DEF Alike
  <2> QED BY <1>2, <2>1, <2>2 DEF Alike, LooksAs
<1>3. Glances(h, l) \in HistRec
  BY LooksIs DEF Agrees
<1>4. /\ Glances(h, l).early = h.early
      /\ \A k \in Img : Glances(h, l).looked[k] = IF k = l /\ h.looked[k] = "no" THEN "yes" ELSE h.looked[k]
  BY HowIs
<1> QED BY <1>1, <1>2, <1>3, <1>4

LEMMA TestUnitReadyEager ==
  ASSUME coop, NEW d0, NEW h0, NEW l \in Lun, Tidy(d0, h0), TestUnitReady(d0, h0, l)
  PROVE  dev'.conf /\ Eager(dev', hist')
<1>1. PICK up \in BOOLEAN, ok \in BOOLEAN :
        LET d == IF dev.drv = NoCard THEN MediaPoll(TryInit(d0, up, ok)) ELSE d0
            h == IF dev.drv = NoCard THEN Polled(h0, d) ELSE h0
        IN \/ ~Present(d, l) /\ Answers(LookedAt(d, l), Looks(Tells(h, d, l), l, "yes"), {l})
           \/ UnitAttention(d, h, l)
           \/ Ready(d, l) /\ Answers(d, Glances(h, l), {})
  BY DEF TestUnitReady
<1> DEFINE t == TryInit(d0, up, ok)
           d == IF dev.drv = NoCard THEN MediaPoll(t) ELSE d0
           h == IF dev.drv = NoCard THEN Polled(h0, d) ELSE h0
<1>2. Tidy(d, h)
  <2>1. d0 \in DevRec
    BY DEF Tidy, Mindful
  <2>2. Mindful(t, h0)
    BY <2>1, TryInitGoes, EagerGoes DEF Tidy, Goes, Steps, Same
  <2> HIDE DEF t
  <2>3. Tidy(MediaPoll(t), Polled(h0, MediaPoll(t)))
    BY <2>2, PollEager DEF Tidy
  <2> QED BY <2>3
<1>3. \/ ~Present(d, l) /\ Answers(LookedAt(d, l), Looks(Tells(h, d, l), l, "yes"), {l})
      \/ UnitAttention(d, h, l)
      \/ Ready(d, l) /\ Answers(d, Glances(h, l), {})
  BY <1>1
<1> HIDE DEF d, h, t
<1>4. d \in DevRec /\ h \in HistRec /\ Mindful(d, h) /\ d.lun[l] \in LunState
  BY <1>2 DEF Tidy, Mindful, DevRec
<1>5. CASE ~Present(d, l) /\ Answers(LookedAt(d, l), Looks(Tells(h, d, l), l, "yes"), {l})
  <2> DEFINE e == LookedAt(d, l)
             r == Looks(Tells(h, d, l), l, "yes")
  <2>1. Relun(d, e, l) /\ e.lun[l] = Acked(d.lun[l])
    BY <1>4, RelunIs
  <2>2. e.lun[l].owed = FALSE
    BY <1>4, <2>1 DEF Acked, LunState
  <2>3. e.event = d.event
    BY <1>4 DEF LookedAt, DevRec
  <2>4. r \in HistRec /\ r.early = h.early /\ \A k \in Img \ {l} : r.looked[k] = h.looked[k]
    BY <1>4, LooksHow DEF LooksAs, Alike
  <2> HIDE DEF e, r
  <2> QED BY <1>4, <1>5, <2>1, <2>2, <2>3, <2>4, AckedEager DEF e, r
<1>6. CASE UnitAttention(d, h, l)
  BY <1>2, <1>6, AttentionEager
<1>7. CASE Ready(d, l) /\ Answers(d, Glances(h, l), {})
  <2> DEFINE r == Glances(h, l)
  <2>1. r \in HistRec /\ r.early = h.early
        /\ \A k \in Img : r.looked[k] = IF k = l /\ h.looked[k] = "no" THEN "yes" ELSE h.looked[k]
    BY <1>4, LooksHow DEF LooksAs, Alike
  <2>2. d.lun[l].was /\ ~d.lun[l].ua
    BY <1>2, <1>7 DEF Ready, Tidy
  <2>3. Relun(d, d, l)
    BY <1>4, RelunIs
  <2> HIDE DEF r
  <2>4. l \in Img \ h.early => Minds(d.lun[l], d.event, r.looked[l], l)
    BY <1>4, <2>1, <2>2 DEF Mindful, Eager, Minds
  <2> QED BY <1>4, <1>7, <2>1, <2>3, <2>4, AnswerEager DEF r
<1> QED BY <1>3, <1>5, <1>6, <1>7

LEMMA ReadCapacityEager ==
  ASSUME coop, NEW d, NEW h, NEW l \in Lun, Tidy(d, h), ReadCapacity(d, h, l)
  PROVE  dev'.conf /\ Eager(dev', hist')
<1>1. d \in DevRec /\ h \in HistRec /\ Mindful(d, h) /\ d.lun[l] \in LunState
  BY DEF Tidy, Mindful, DevRec
<1>2. CASE Answers(d, Tells(h, d, l), {})
  <2>1. Relun(d, d, l)
    BY <1>1, RelunIs
  <2>2. Tells(h, d, l) \in HistRec /\ Tells(h, d, l).looked = h.looked /\ Tells(h, d, l).early = h.early
    BY <1>1, LooksHow DEF LooksAs, Alike
  <2> QED BY <1>1, <1>2, <2>1, <2>2, AckedEager
<1>3. CASE UnitAttention(d, h, l)
  BY <1>3, AttentionEager
<1>4. ASSUME NEW e, e = [d EXCEPT !.lun[l] = [Acked(@) EXCEPT !.stale = FALSE]],
             NEW k, k = Looks(Learns(h, d, l), l, "yes"),
             Answers(e, IF l = "card" THEN k ELSE [k EXCEPT !.cap[l] = Medium(d, l)], {l})
      PROVE  dev'.conf /\ Eager(dev', hist')
  <2> DEFINE r == IF l = "card" THEN k ELSE [k EXCEPT !.cap[l] = Medium(d, l)]
  <2>1. Relun(d, e, l) /\ e.lun[l] = [Acked(d.lun[l]) EXCEPT !.stale = FALSE]
    BY <1>1, <1>4, RelunIs
  <2>2. e.lun[l].owed = FALSE
    BY <1>1, <2>1 DEF Acked, LunState
  <2>3. e.event = d.event
    BY <1>1, <1>4 DEF DevRec
  <2>4. k \in HistRec /\ k.early = h.early /\ \A i \in Img \ {l} : k.looked[i] = h.looked[i]
    <3>1. k = Looks(Learns(h, d, l), l, "yes")
      BY <1>4
    <3>2. LooksAs(h, Looks(Learns(h, d, l), l, "yes"), l, "yes")
      BY <1>1, LooksHow
    <3> QED BY <3>1, <3>2 DEF LooksAs
  <2>5. Medium(d, l) \in Media
    BY <1>1, MediumTyped
  <2> HIDE DEF Media, Medium
  <2>6. r \in HistRec /\ r.early = k.early /\ r.looked = k.looked
    BY <2>4, <2>5 DEF HistRec
  <2>7. Answers(e, r, {l})
    BY <1>4
  <2> HIDE DEF r
  <2> QED BY <1>1, <2>1, <2>2, <2>3, <2>4, <2>6, <2>7, AckedEager
<1> QED BY <1>2, <1>3, <1>4 DEF ReadCapacity

LEMMA ReadEager ==
  ASSUME coop, NEW d, NEW h, NEW l \in Lun, Tidy(d, h), Read(d, h, l)
  PROVE  dev'.conf /\ Eager(dev', hist')
<1>1. d \in DevRec /\ h \in HistRec /\ Mindful(d, h)
  BY DEF Tidy, Mindful
<1>2. \A r \in {h, Tells(h, d, l), Learns(h, d, l)} : r \in HistRec /\ r.looked = h.looked /\ r.early = h.early
  BY <1>1, LooksHow DEF Alike
<1>3. ASSUME NEW e \in {d, Accessed(d)}, NEW r \in {h, Tells(h, d, l), Learns(h, d, l)}, Answers(e, r, {})
      PROVE  dev'.conf /\ Eager(dev', hist')
  <2>1. Mindful(e, h) /\ e \in DevRec
    <3>1. Goes(d, Accessed(d)) /\ Goes(d, d)
      BY <1>1, ScanStays, GoesNowhere
    <3> QED BY <1>1, <1>3, <3>1, EagerGoes DEF Goes, Steps, Same
  <2>2. Relun(e, e, l)
    BY <2>1, RelunIs
  <2> QED BY <1>2, <1>3, <2>1, <2>2, AckedEager
<1> QED BY <1>3, AttentionEager DEF Read

LEMMA GetEventEager ==
  ASSUME coop, NEW d, NEW h, Tidy(d, h), GetEvent(d, h)
  PROVE  dev'.conf /\ Eager(dev', hist')
<1> DEFINE l == "dvd"
           e == [d EXCEPT !.event = "none"]
<1>1. d \in DevRec /\ h \in HistRec /\ Mindful(d, h) /\ d.lun[l] \in LunState /\ l \in Lun /\ l \in Img
  BY DEF Tidy, Mindful, DevRec, Lun, Img
<1>2. e \in DevRec /\ Relun(d, e, l) /\ e.lun = d.lun /\ e.event = "none"
  BY <1>1, RelunIs DEF Relun, DevRec
<1>3. CASE ~Present(d, l) /\ Answers(LookedAt(e, l), Looks(Tells(h, d, l), l, "yes"), {l})
  <2> DEFINE a == LookedAt(e, l)
             r == Looks(Tells(h, d, l), l, "yes")
  <2>1. Relun(e, a, l) /\ a.lun[l] = Acked(d.lun[l])
    <3>1. e \in DevRec /\ l \in Lun /\ e.lun[l] = d.lun[l]
      BY <1>1, <1>2
    <3> HIDE DEF e, l
    <3> QED BY <3>1, RelunIs
  <2>2. a.lun[l].owed = FALSE
    BY <1>1, <2>1 DEF Acked, LunState
  <2>3. r \in HistRec /\ r.early = h.early /\ \A k \in Img \ {l} : r.looked[k] = h.looked[k]
    BY <1>1, LooksHow DEF LooksAs, Alike
  <2> HIDE DEF a, r, e
  <2>4. Relun(d, a, l)
    BY <1>2, <2>1 DEF Relun
  <2> QED BY <1>1, <1>3, <2>2, <2>3, <2>4, AckedEager DEF a, r
<1>4. CASE Present(d, l) /\ d.event = "new" /\ Answers(e, Looks(h, l, "ua"), {})
  <2> DEFINE r == Looks(h, l, "ua")
  <2>1. r \in HistRec /\ r.early = h.early /\ \A k \in Img : r.looked[k] = IF k = l THEN "ua" ELSE h.looked[k]
    BY <1>1, LooksHow DEF LooksAs, Alike
  <2> HIDE DEF r
  <2>2. l \notin h.early => Minds(e.lun[l], e.event, r.looked[l], l)
    BY <1>1, <1>2, <2>1 DEF Mindful, Eager, Minds
  <2>3. Answers(e, r, {})
    BY <1>4 DEF r
  <2> HIDE DEF e
  <2> QED BY <1>1, <1>2, <2>1, <2>2, <2>3, AnswerEager
<1>5. CASE Present(d, l) /\ d.event # "new" /\ Answers(e, Glances(h, l), {})
  <2> DEFINE r == Glances(h, l)
  <2>1. r \in HistRec /\ r.early = h.early
        /\ \A k \in Img : r.looked[k] = IF k = l /\ h.looked[k] = "no" THEN "yes" ELSE h.looked[k]
    BY <1>1, LooksHow DEF LooksAs, Alike
  <2>2. d.lun[l].was
    BY <1>1, <1>5 DEF Tidy
  <2> HIDE DEF r
  <2>3. l \notin h.early => Minds(e.lun[l], e.event, r.looked[l], l)
    BY <1>1, <1>2, <1>5, <2>1, <2>2 DEF Mindful, Eager, Minds
  <2> QED BY <1>1, <1>2, <1>5, <2>1, <2>3, AnswerEager DEF r
<1> QED BY <1>3, <1>4, <1>5 DEF GetEvent, e, l

LEMMA EjectImageEager ==
  ASSUME coop, NEW d, NEW h, NEW l \in Img, Tidy(d, h), EjectImage(d, h, l)
  PROVE  dev'.conf /\ Eager(dev', hist')
<1> DEFINE u == Unmount(d)
           v == [u EXCEPT !.ejhost = TRUE]
           m == MediaPoll(v)
           q == Polled(h, m)
           e == Attended(m, l)
           r == Tells(q, e, l)
<1>1. d \in DevRec /\ h \in HistRec /\ Mindful(d, h) /\ l \in Lun
  BY DEF Tidy, Mindful, Lun
<1>2. CASE ~MayEject(d, l) /\ Answers(d, h, {})
  <2>1. Relun(d, d, l)
    BY <1>1, RelunIs
  <2> QED BY <1>1, <1>2, <2>1, AckedEager
<1>3. CASE MayEject(d, l) /\ Answers(e, Tells(Polled(h, e), e, l), {l})
  <2>1. v \in DevRec /\ Mindful(v, h) /\ ~Mounted(v)
    <3>1. u \in DevRec /\ Goes(d, u) /\ ~Mounted(u)
      BY <1>1, UnmountStays, UnmountSteps
    <3> HIDE DEF u
    <3>2. Goes(u, v) /\ v \in DevRec /\ v.cur = u.cur
      BY <3>1, EjhostGoes DEF DevRec
    <3>3. Goes(d, v)
      BY <3>1, <3>2, GoesOn
    <3> HIDE DEF v
    <3> QED BY <1>1, <3>1, <3>2, <3>3, EagerGoes DEF Goes, Steps, Same, Mounted
  <2> HIDE DEF v
  <2>2. Tidy(m, q) /\ Mindful(m, q) /\ m \in DevRec /\ q \in HistRec /\ m.lun[l] \in LunState
    <3>1. Tidy(m, q)
      BY <2>1, PollEager DEF Tidy
    <3> QED BY <1>1, <3>1 DEF Tidy, Mindful, DevRec
  <2>3. ~Present(m, l)
    <3>1. Looked(v).cur \in {v.cur, NoImage}
      <4>1. CardGone(v).cur \in {v.cur, NoImage} /\ CardGone(v) \in DevRec
        <5>1. Unmount(v) \in DevRec /\ Unmount(v).cur \in {v.cur, NoImage}
          BY <2>1, UnmountStays DEF Unmount, DevRec
        <5>2. CardGone(v) = v \/ CardGone(v) = [Unmount(v) EXCEPT !.ejected = FALSE]
          BY DEF CardGone
        <5> QED BY <2>1, <5>1, <5>2 DEF DevRec
      <4> HIDE DEF v
      <4> QED BY <4>1 DEF Looked, BounceEnds, DevRec
    <3>2. m.cur = Looked(v).cur
      BY <2>1, MediaPollIs
    <3>3. l # "card"
      BY DEF Img
    <3> HIDE DEF m
    <3> QED BY <2>1, <3>1, <3>2, <3>3 DEF Present, Mounted
  <2>4. ~m.lun[l].was
    BY <1>1, <2>2, <2>3 DEF Tidy
  <2> HIDE DEF m
  <2>5. Relun(m, e, l) /\ e.lun[l] = [m.lun[l] EXCEPT !.ua = FALSE] /\ e.event = m.event /\ e \in DevRec
    <3> QED BY <1>1, <2>2, AttendedIs
  <2>6. Polled(h, e) = q
    BY <1>1, <2>2, <2>5, PolledSame
  <2> HIDE DEF e, q
  <2>7. r \in HistRec /\ r.looked = q.looked /\ r.early = q.early
    BY <1>1, <2>2, <2>5, LooksHow DEF Alike
  <2>8. Answers(e, r, {l})
    BY <1>3, <2>6
  <2> HIDE DEF r
  <2>9. l \notin q.early => Minds(e.lun[l], e.event, r.looked[l], l)
    BY <2>2, <2>4, <2>5, <2>7 DEF Mindful, Eager, Minds, LunState
  <2> QED BY <1>1, <2>2, <2>5, <2>7, <2>8, <2>9, AnswerEager
<1> QED BY <1>2, <1>3 DEF EjectImage

LEMMA LoadImageEager ==
  ASSUME coop, NEW d, NEW h, Tidy(d, h), LoadImage(d, h)
  PROVE  dev'.conf /\ Eager(dev', hist')
<1>1. PICK ok \in BOOLEAN :
        LET r == RemountLast(d, ok)
            e == MediaPoll([r EXCEPT !.ejhost = @ /\ (Mounted(d) \/ ~Mounted(r))])
        IN Answers(e, Polled(h, e), {})
  BY DEF LoadImage
<1> DEFINE r == RemountLast(d, ok)
           b == r.ejhost /\ (Mounted(d) \/ ~Mounted(r))
           v == [r EXCEPT !.ejhost = b]
           e == MediaPoll(v)
           q == Polled(h, e)
<1>2. d \in DevRec /\ h \in HistRec /\ Mindful(d, h)
  BY DEF Tidy, Mindful
<1>3. Goes(d, r) /\ r \in DevRec
  BY <1>2, RemountLastGoes DEF Goes, Steps
<1>4. Answers(e, q, {})
  <2>1. v = [r EXCEPT !.ejhost = @ /\ (Mounted(d) \/ ~Mounted(r))]
    BY <1>3 DEF DevRec
  <2> QED BY <1>1, <2>1
<1> HIDE DEF r
<1>5. Goes(r, v) /\ v \in DevRec
  <2>1. b \in BOOLEAN
    BY <1>3 DEF DevRec
  <2> HIDE DEF b
  <2> QED BY <1>3, <2>1, EjhostGoes
<1> HIDE DEF v
<1>6. Mindful(v, h)
  <2>1. Goes(d, v)
    BY <1>3, <1>5, GoesOn
  <2> QED BY <1>2, <1>5, <2>1, EagerGoes DEF Goes, Steps, Same
<1>7. Mindful(e, q) /\ "card" \in Lun /\ e \in DevRec /\ q \in HistRec
  <2>1. Mindful(e, q)
    BY <1>6, PollEager
  <2> QED BY <2>1 DEF Mindful, Lun
<1> HIDE DEF e, q
<1>8. Relun(e, e, "card")
  BY <1>7, RelunIs
<1> QED BY <1>4, <1>7, <1>8, AckedEager

LEMMA SetEjectedEager ==
  ASSUME coop, NEW d, NEW h, NEW on \in BOOLEAN, Tidy(d, h), SetEjected(d, h, on)
  PROVE  dev'.conf /\ Eager(dev', hist')
<1> DEFINE v == [d EXCEPT !.ejected = on]
           m == MediaPoll(v)
           e == Attended(m, "card")
           t == Tells(h, e, "card")
           k == CASE ~on \/ d.drv = NoCard \/ d.bounce \in 1..Bounce -> "no"
                  [] OTHER -> IF d.bounce = Unset THEN "yes" ELSE "clock"
           r == [t EXCEPT !.out = k]
<1>1. d \in DevRec /\ h \in HistRec /\ Mindful(d, h) /\ "card" \in Lun /\ "card" \notin Img
  BY DEF Tidy, Mindful, Lun, Img
<1>2. Mindful(v, h)
  <2>1. v \in DevRec /\ v.lun = d.lun /\ v.conf = d.conf /\ v.event = d.event
    BY <1>1 DEF DevRec
  <2> HIDE DEF v
  <2> QED BY <1>1, <2>1, EagerGoes
<1> HIDE DEF v
<1>3. Mindful(m, h) /\ m \in DevRec
  BY <1>2, PollEager DEF Mindful
<1> HIDE DEF m
<1>4. Relun(m, e, "card") /\ e.event = m.event /\ e \in DevRec
  <2> QED BY <1>1, <1>3, AttendedIs
<1>5. Answers(e, r, {})
  BY DEF SetEjected, e, m, v
<1> HIDE DEF e
<1>6. r \in HistRec /\ r.looked = h.looked /\ r.early = h.early
  <2>1. t \in HistRec /\ t.looked = h.looked /\ t.early = h.early
    BY <1>1, <1>4, LooksHow DEF Alike
  <2>2. k \in {"no", "yes", "clock"}
    OBVIOUS
  <2> HIDE DEF t, k, Media
  <2> QED BY <2>1, <2>2 DEF HistRec
<1> HIDE DEF r
<1> QED BY <1>1, <1>3, <1>4, <1>5, <1>6, AnswerEager

LEMMA CommandEager ==
  ASSUME MInv, CInv, coop, Command
  PROVE  dev'.conf /\ Eager(dev', hist')
<1> DEFINE d == Polls
           h == Heard
<1>1. Mindful(dev, hist)
  BY DEF Command, MInv, Holds, Kept, Matches, CInv, Mindful
<1>2. Tidy(d, h)
  BY <1>1, PollEager DEF Tidy, Polls, Heard
<1>3. \/ \E l \in Lun : TestUnitReady(d, h, l)
      \/ LoadImage(d, h)
      \/ \E l \in Lun : ReadCapacity(d, h, l) \/ Read(d, h, l)
      \/ GetEvent(d, h)
      \/ \E l \in Img : EjectImage(d, h, l)
      \/ \E on \in BOOLEAN : SetEjected(d, h, on)
  BY DEF Command
<1> HIDE DEF d, h
<1> QED BY <1>2, <1>3, TestUnitReadyEager, LoadImageEager, ReadCapacityEager, ReadEager, GetEventEager, EjectImageEager,
     SetEjectedEager

(* Everything a tick finds owed is younger than a tick: the host has looked *)
(* at every LUN since the one before.                                       *)
LEMMA TickEager ==
  ASSUME MInv, CInv, coop, dev.conf, Ack > 1, \A l \in Img : hist.looked[l] = "yes"
  PROVE  Mindful(Ticked(dev), TickSeen(hist)) /\ TickSeen(hist).early = hist.early
<1> DEFINE s == StoreTick(dev)
           t == Ticked(dev)
           h == TickSeen(hist)
           L == [l \in Lun |-> Aged(s.lun[l])]
           B == IF s.bounce \in 1 .. Bounce THEN s.bounce - 1 ELSE s.bounce
<1>1. dev \in DevRec /\ hist \in HistRec /\ Mindful(dev, hist)
  BY DEF MInv, Holds, Kept, Matches, CInv, Mindful
<1>2. s \in DevRec /\ s.lun = dev.lun /\ s.conf = dev.conf /\ s.event = dev.event
  BY <1>1, StoreTickGoes DEF Goes, Steps, Same
<1>3. t = [s EXCEPT !.bounce = B, !.lun = L]
  BY <1>2 DEF Ticked, DevRec
<1>4. t \in DevRec /\ h \in HistRec
  BY TickKept DEF MInv, Matches
<1> HIDE DEF s, t
<1>5. t.conf = dev.conf /\ t.event = dev.event /\ t.lun = L
  BY <1>2, <1>3 DEF DevRec
<1>6. h.early = hist.early /\ \A l \in Img : h.looked[l] = "no"
  <2> HIDE DEF Media
  <2> QED BY <1>1 DEF TickSeen, HistRec
<1> HIDE DEF h, B
<1>7. ASSUME NEW l \in Img \ hist.early
      PROVE  Minds(t.lun[l], t.event, "no", l)
  <2>1. PICK u \in LunState : u = dev.lun[l] /\ l \in Lun
    BY <1>1 DEF DevRec, Lun
  <2>2. t.lun[l] = Aged(u)
    BY <1>2, <1>5, <2>1
  <2>3. Minds(u, dev.event, "yes", l)
    BY <1>1, <2>1 DEF Mindful, Eager
  <2>4. CASE ~u.owed
    BY <2>2, <2>4 DEF Aged, Minds
  <2>5. CASE u.owed
    <3>1. u.age = 0 /\ Ack \in Nat
      BY <2>3, <2>5, Constants DEF Minds
    <3>2. Aged(u) = [u EXCEPT !.age = u.age + 1]
      BY <2>5, <3>1 DEF Aged
    <3>3. t.lun[l].age = 1 /\ t.lun[l].was = u.was /\ t.lun[l].ua = u.ua
      BY <2>2, <3>1, <3>2 DEF LunState
    <3> QED BY <1>5, <2>3, <2>5, <3>3 DEF Minds
  <2> QED BY <2>4, <2>5
<1> QED BY <1>1, <1>4, <1>5, <1>6, <1>7 DEF Mindful, Eager, t, h

LEMMA IdlePassEager ==
  ASSUME MInv, CInv, coop, dev.conf, Ack > 1, IdlePass
  PROVE  /\ dev'.conf => Eager(dev', hist')
         /\ ~dev'.conf => hist.early # {}
<1>1. PICK key \in User \cup {None, Due}, up \in BOOLEAN, ok \in BOOLEAN, how \in Outcomes, late \in BOOLEAN, due \in BOOLEAN :
        Pass(key, up, ok, how, late, due) /\ (late => \A l \in Img : hist.looked[l] = "yes")
  BY DEF IdlePass, Pass
<1> DEFINE t == IF late THEN Ticked(dev) ELSE dev
           h == IF late THEN TickSeen(hist) ELSE hist
           c == Console(t, key, up, ok, how)
           e == Remount(IF due /\ c.drv = NoCard THEN TryInit(c, up, ok) ELSE c, ok)
           p == MediaPoll(e)
           d == Watchdog(p)
           q == Polled(h, d)
           n == IF ~ChoseNothing(c, key) THEN StillNothing(key) ELSE IF how = "kept" THEN "unsaved" ELSE "saved"
           r == [q EXCEPT !.nothing = n, !.out = IF key.do = "reinsert" THEN "no" ELSE q.out]
<1>2. dev' = d /\ hist' = Seen([q EXCEPT !.nothing = n, !.out = IF key.do = "reinsert" THEN "no" ELSE @], d, {})
  BY <1>1 DEF Housekeeping, Pass, Watched
<1>3. Mindful(t, h) /\ h.early = hist.early /\ t \in DevRec /\ h \in HistRec
  <2>1. CASE late
    BY <1>1, <2>1, TickEager DEF Mindful
  <2>2. CASE ~late
    BY <2>2 DEF MInv, Holds, Kept, Matches, CInv, Mindful
  <2> QED BY <2>1, <2>2
<1> HIDE DEF t, h
<1>4. c \in DevRec /\ Mindful(c, h)
  <2>1. Steps(t, c) /\ (key.do # "reinsert" => Goes(t, c))
    BY <1>3, ConsoleGoes
  <2>2. key.do = "reinsert" => c.event = t.event
    <3>1. key.do = "reinsert" => c = [t EXCEPT !.ejected = TRUE, !.bounce = Bounce]
      BY DEF Console, None, Due
    <3> QED BY <1>3, <3>1 DEF DevRec
  <2> HIDE DEF c
  <2> QED BY <1>3, <2>1, <2>2, EagerGoes DEF Goes, Steps, Same
<1> HIDE DEF c
<1>5. e \in DevRec /\ Mindful(e, h)
  <2>1. Goes(c, e)
    BY <1>4, RemountGoes
  <2> HIDE DEF e
  <2> QED BY <1>4, <2>1, EagerGoes DEF Goes, Steps, Same
<1> HIDE DEF e
<1>6. Mindful(p, h) /\ p \in DevRec
  BY <1>5, PollEager DEF Mindful
<1> HIDE DEF p
<1>7. CASE ~Overdue(p)
  <2>1. d = p
    BY <1>7 DEF Watchdog
  <2>2. q \in HistRec /\ q.early = h.early /\ q.looked = h.looked
    BY <1>3, <1>6, <2>1, PolledIs
  <2>3. hist' = Seen(r, d, {}) /\ dev' = d
    <3> HIDE DEF d, n
    <3> QED BY <1>2, <2>2 DEF HistRec
  <2> HIDE DEF q, d, n
  <2>4. r.early = h.early /\ r.looked = h.looked
    <3> HIDE DEF Media
    <3> QED BY <2>2 DEF HistRec
  <2> HIDE DEF r
  <2>5. Seen(r, d, {}).early = {k \in r.early : d.lun[k].owed} /\ Seen(r, d, {}).looked = r.looked /\ d.conf
    BY <1>6, <2>1 DEF Seen, HistRec, Mindful
  <2>6. \A k \in Img : ~d.lun[k].owed => Minds(d.lun[k], d.event, h.looked[k], k)
    BY DEF Minds
  <2> QED BY <1>6, <2>1, <2>3, <2>4, <2>5, <2>6 DEF Mindful, Eager
<1>8. CASE Overdue(p)
  <2>1. ~d.conf
    <3> DEFINE a == [AckAll(p) EXCEPT !.conf = FALSE]
    <3>1. d = EvtReset(a)
      BY <1>8 DEF Watchdog
    <3>2. a.conf = FALSE
      BY <1>6 DEF AckAll, DevRec
    <3> HIDE DEF a, d
    <3> QED BY <3>1, <3>2 DEF EvtReset
  <2>2. PICK l \in Img : p.lun[l].owed /\ p.lun[l].age >= Ack
    BY <1>8 DEF Overdue, OnAck
  <2>3. l \notin h.early => p.lun[l].age \in {0, 1}
    BY <1>6, <2>2 DEF Mindful, Eager, Minds
  <2>4. l \in h.early
    BY <2>2, <2>3, Constants
  <2> QED BY <1>2, <1>3, <2>1, <2>4
<1> QED BY <1>7, <1>8

(* No pass of the loop connects a host.                                     *)
LEMMA IdlePassOffline ==
  ASSUME MInv, IdlePass
  PROVE  dev'.conf => dev.conf
<1>1. PICK key \in User \cup {None, Due}, up \in BOOLEAN, ok \in BOOLEAN, how \in Outcomes, late \in BOOLEAN, due \in BOOLEAN :
        Pass(key, up, ok, how, late, due)
  BY DEF IdlePass, Pass
<1> DEFINE s == StoreTick(dev)
           t == IF late THEN Ticked(dev) ELSE dev
           c == Console(t, key, up, ok, how)
           e == Remount(IF due /\ c.drv = NoCard THEN TryInit(c, up, ok) ELSE c, ok)
           p == MediaPoll(e)
           d == Watchdog(p)
<1>2. dev' = d
  BY <1>1 DEF Housekeeping, Pass
<1>3. t \in DevRec /\ t.conf = dev.conf
  <2>1. dev \in DevRec /\ Ticked(dev) \in DevRec
    BY TickKept DEF MInv, Holds, Kept, Matches
  <2>2. s \in DevRec /\ s.conf = dev.conf
    BY <2>1, StoreTickGoes DEF Goes, Steps
  <2>3. Ticked(dev).conf = s.conf
    <3> DEFINE B == IF s.bounce \in 1 .. Bounce THEN s.bounce - 1 ELSE s.bounce
               L == [l \in Lun |-> Aged(s.lun[l])]
    <3>1. Ticked(dev) = [s EXCEPT !.bounce = B, !.lun = L]
      BY <2>2 DEF Ticked, DevRec
    <3> HIDE DEF s, B, L
    <3> QED BY <2>2, <3>1 DEF DevRec
  <2> QED BY <2>1, <2>2, <2>3
<1> HIDE DEF t
<1>4. c \in DevRec /\ c.conf = t.conf
  <2>1. Steps(t, c)
    BY <1>1, <1>3, ConsoleGoes
  <2> HIDE DEF c
  <2> QED BY <1>3, <2>1 DEF Steps
<1> HIDE DEF c
<1>5. e \in DevRec /\ e.conf = c.conf
  BY <1>4, RemountGoes DEF Goes, Steps
<1> HIDE DEF e
<1>6. p \in DevRec /\ p.conf = e.conf
  BY <1>5, MediaPollIs
<1> HIDE DEF p
<1>7. d.conf => p.conf
  <2>1. CASE Overdue(p)
    <3> DEFINE a == [AckAll(p) EXCEPT !.conf = FALSE]
    <3>1. d = EvtReset(a)
      BY <2>1 DEF Watchdog
    <3>2. a.conf = FALSE
      BY <1>6 DEF AckAll, DevRec
    <3> HIDE DEF a, d
    <3> QED BY <3>1, <3>2 DEF EvtReset
  <2> QED BY <2>1 DEF Watchdog
<1> QED BY <1>2, <1>3, <1>4, <1>5, <1>6, <1>7

LEMMA OthersEager ==
  ASSUME MInv, CInv, coop, Pull \/ Insert \/ BusReset \/ SessionReset \/ SetConfiguration
  PROVE  /\ dev'.conf => Eager(dev', hist')
         /\ ~dev'.conf => ~dev.conf \/ BusReset
<1>1. dev \in DevRec /\ hist \in HistRec
  BY DEF MInv, Holds, Kept, Matches
<1>2. CASE Pull \/ Insert
  <2>1. dev'.lun = dev.lun /\ dev'.conf = dev.conf /\ dev'.event = dev.event
    BY <1>1, <1>2 DEF Pull, Insert, Outside, DevRec
  <2>2. hist'.early = hist.early /\ hist'.looked = hist.looked
    <3> HIDE DEF Media
    <3> QED BY <1>1, <1>2 DEF Pull, Insert, HistRec
  <2> QED BY <2>1, <2>2 DEF CInv, Eager
<1>3. CASE BusReset
  <2>1. ~dev'.conf
    <3> DEFINE a == [dev EXCEPT !.conf = FALSE]
    <3>1. a \in DevRec /\ a.conf = FALSE
      BY <1>1 DEF DevRec
    <3>2. dev' = EvtReset(a)
      BY <1>3 DEF BusReset, Outside
    <3> HIDE DEF a
    <3> QED BY <3>1, <3>2, EvtResetIs
  <2> QED BY <1>3, <2>1
<1>4. CASE SetConfiguration
  <2> DEFINE o == [dev EXCEPT !.conf = TRUE]
  <2>1. o \in DevRec /\ o.conf = TRUE /\ o.lun = dev.lun
    BY <1>1 DEF DevRec
  <2>2. dev' = EvtReset(o)
    BY <1>4 DEF SetConfiguration
  <2> HIDE DEF o
  <2>3. dev'.conf = TRUE /\ dev'.lun = dev.lun
    BY <2>1, <2>2, EvtResetIs
  <2>4. hist'.early = {l \in Img : dev.lun[l].owed}
    <3> HIDE DEF Media
    <3> QED BY <1>1, <1>4 DEF SetConfiguration, HistRec
  <2> QED BY <2>3, <2>4 DEF Eager, Minds
<1>5. CASE SessionReset
  <2> DEFINE h == [hist EXCEPT !.out = IF hist.out = "no" THEN "no" ELSE "reset"]
  <2>1. dev'.lun = dev.lun /\ dev'.conf /\ dev'.event = dev.event /\ dev.conf
    BY <1>1, <1>5, EvtResetIs DEF SessionReset
  <2>2. hist' = Seen(h, dev', {})
    BY <1>5 DEF SessionReset
  <2>3. h \in HistRec /\ h.early = hist.early /\ h.looked = hist.looked
    <3> HIDE DEF Media
    <3> QED BY <1>1 DEF HistRec
  <2> HIDE DEF h
  <2>4. hist'.early = {l \in hist.early : dev'.lun[l].owed} /\ hist'.looked = hist.looked
    BY <2>1, <2>2, <2>3 DEF Seen, HistRec
  <2>5. \A l \in Img : ~dev.lun[l].owed => Minds(dev.lun[l], dev.event, hist.looked[l], l)
    BY DEF Minds
  <2> QED BY <2>1, <2>4, <2>5 DEF CInv, Eager
<1> QED BY <1>2, <1>3, <1>4, <1>5

LEMMA CoopStays ==
  ASSUME Next
  PROVE  coop' = coop
<1>1. CASE Command
  <2> DEFINE d == Polls
             h == Heard
  <2>1. /\ \/ \E l \in Lun : TestUnitReady(d, h, l) \/ ReadCapacity(d, h, l) \/ Read(d, h, l)
           \/ LoadImage(d, h) \/ GetEvent(d, h)
           \/ \E l \in Img : EjectImage(d, h, l)
           \/ \E on \in BOOLEAN : SetEjected(d, h, on)
    BY <1>1 DEF Command
  <2> HIDE DEF d, h
  <2> QED BY <2>1, CommandKeepsCoop
<1>2. CASE IdlePass
  <2>1. \E key \in User \cup {None, Due}, up, ok, late, due \in BOOLEAN, how \in Outcomes : Pass(key, up, ok, how, late, due)
    BY <1>2 DEF IdlePass, Pass
  <2> QED BY <2>1 DEF Pass
<1>3. CASE Pull \/ Insert \/ BusReset \/ SessionReset \/ SetConfiguration
  BY <1>3 DEF Pull, Insert, Outside, BusReset, SessionReset, SetConfiguration
<1> QED BY <1>1, <1>2, <1>3 DEF Next

(* A host that is connected and looks at every LUN in time is never         *)
(* re-plugged for a change it was there to see (msc_core.c:338), when the    *)
(* time it is given (IMG_SWAP_ACK_MS, 2.5 s) is longer than two of its       *)
(* rounds.                                                                  *)
THEOREM CooperativeHostSpared == ASSUME Ack > 1 PROVE Spec => CooperativeSparedOnline
<1> DEFINE Spare == Replugged => ~(coop /\ hist.early = {})
<1>1. Init => CInv
  <2> SUFFICES ASSUME Init
               PROVE  ~dev.conf
    BY DEF CInv
  <2> QED BY InitHolds
<1>2. MInv /\ CInv /\ [Next]_vars => CInv' /\ [Spare]_vars
  <2> SUFFICES ASSUME MInv, CInv, [Next]_vars
               PROVE  CInv' /\ [Spare]_vars
    OBVIOUS
  <2>1. CASE UNCHANGED vars
    BY <2>1 DEF vars, CInv, Eager
  <2>2. CASE Next
    <3>1. coop' = coop
      BY <2>2, CoopStays
    <3>2. CASE coop /\ Command
      BY <3>1, <3>2, CommandEager DEF CInv, Replugged
    <3>3. CASE coop /\ IdlePass
      BY <3>1, <3>3, IdlePassEager, IdlePassOffline DEF CInv, Replugged
    <3>4. CASE coop /\ (Pull \/ Insert \/ BusReset \/ SessionReset \/ SetConfiguration)
      BY <3>1, <3>4, OthersEager DEF CInv, Replugged
    <3>5. CASE ~coop
      BY <3>1, <3>5 DEF CInv
    <3> QED BY <2>2, <3>2, <3>3, <3>4, <3>5 DEF Next
  <2> QED BY <2>1, <2>2
<1>3. Spec => [][Spare]_vars
  BY <1>1, <1>2, MInvariance, PTL DEF Spec
<1> QED BY <1>3 DEF CooperativeSparedOnline
=============================================================================
