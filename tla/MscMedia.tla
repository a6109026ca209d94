------------------------------ MODULE MscMedia ------------------------------
(***************************************************************************)
(* What the host is told about the media of the three LUNs: the card, and  *)
(* the mounted image as a DVD or as a disk. media_poll compares what is     *)
(* there with what it saw last; unit attentions and "not present" tell the *)
(* host; a watchdog re-plugs USB for a host that does not look.            *)
(*                                                                         *)
(* The main loop is one thread: a pass of the idle loop and the execution  *)
(* of a command are one step each. Interrupts come between them.           *)
(***************************************************************************)
EXTENDS ImageStore, FiniteSets

CONSTANTS
  Ack,        (* IMG_SWAP_ACK_MS, in ticks                                 *)
  Bounce,     (* SD_BOUNCE_MS, in ticks                                    *)
  AtPower,    (* bound: what may be in the slot at power-on, <<card, the    *)
              (* choice saved on it>>                                      *)
  MaxEvents   (* bound: what user and cable do and what goes wrong         *)

ASSUME MediaAssumption == Ack \in Nat \ {0} /\ Bounce \in Nat \ {0} /\ MaxEvents \in Nat
                          /\ AtPower \subseteq {<<NoCard, 0>>} \cup (Cards \X Nat)

VARIABLES
  dev,      (* the state of the core and of the image store, one record    *)
  hist,     (* what the host knows and what it was owed                    *)
  coop,     (* the host polls every LUN in every tick: by TEST UNIT READY  *)
            (* or GET EVENT STATUS, and reads the capacity of what is new  *)
  events    (* events so far                                               *)

vars == <<dev, hist, coop, events>>

Img  == {"dvd", "disk"}
Lun  == Img \cup {"card"}
Unset == Bounce + 1                    \* sd_bounce_us = 0

(* lun_state_t. `owed` is changed /\ ~acked, `age` the time since           *)
(* changed_us; stale, owed and age concern the image LUNs.                  *)
LunState == [ua : BOOLEAN, was : BOOLEAN, stale : BOOLEAN, owed : BOOLEAN, age : 0..Ack]
(* Besides the fields of Store, dev has lun; event, the one GET EVENT STATUS *)
(* will tell; ejected and bounce of the card LUN (sd_ejected, sd_bounce_us); *)
(* ejhost (ejected_by_host), premount (pending_remount); conf               *)
(* (usb_configured).                                                        *)

Present(d, l) ==
  /\ d.drv # NoCard
  /\ IF l = "card" THEN ~d.ejected ELSE Mounted(d) /\ Kind[d.cur.name] = l

(* What the host would read; an image is read where its extents were, on    *)
(* the card that is there now.                                              *)
Nothing == <<>>
Medium(d, l) ==
  IF ~Present(d, l) THEN Nothing ELSE IF l = "card" THEN <<d.drv>> ELSE <<d.drv, d.cur>>

Quiet == [ua |-> FALSE, was |-> FALSE, stale |-> FALSE, owed |-> FALSE, age |-> 0]

(* main: the card is initialised and its image mounted before msc_init.     *)
Booted(c, choice) ==
  LET s == [slot |-> c, drv |-> c, live |-> c # NoCard, listed |-> NoCard, cur |-> NoImage, moved |-> FALSE,
            last |-> 0, cfg |-> [k \in Cards |-> IF k = c THEN choice ELSE 0], swap |-> NoSwap,
            ejected |-> FALSE, bounce |-> Unset, ejhost |-> FALSE, premount |-> FALSE, conf |-> FALSE,
            event |-> "none", lun |-> [l \in Lun |-> Quiet]]
      d == IF c = NoCard THEN s ELSE AutoMount(s, TRUE)
  IN [d EXCEPT !.lun = [l \in Lun |-> [Quiet EXCEPT !.was = Present(d, l)]]]

Init ==
  /\ \E slot \in AtPower : dev = Booted(slot[1], slot[2])
  /\ hist = [known |-> [l \in Lun |-> Nothing], fresh |-> {}, cap |-> [l \in Img |-> Medium(dev, l)],
             since |-> [l \in Img |-> 0], waits |-> {}, early |-> {}, polled |-> dev.drv,
             shown |-> [l \in Img |-> Medium(dev, l)], unseen |-> FALSE, out |-> "no", nothing |-> "no", looked |-> [l \in Img |-> "yes"]]
  /\ coop \in BOOLEAN /\ events = 0

---------------------------------------------------------------------------
(* The functions of msc_core.c, from state to state. *)

RestartsClock(u) == [u EXCEPT !.age = 0, !.owed = TRUE]       \* mutant of LunChanged
LunChanged(u)    == IF u.owed THEN u ELSE [u EXCEPT !.age = 0, !.owed = TRUE]
Acked(u)         == [u EXCEPT !.owed = FALSE, !.age = 0]

(* media_poll: first the card and the bounce, then an image replaced by     *)
(* another since the last call, then what has come and gone.                *)
CardGone(d) == IF d.drv = NoCard THEN [Unmount(d) EXCEPT !.ejected = FALSE] ELSE d
BounceAlways(d) ==                                            \* mutant of BounceEnds
  IF d.ejected /\ d.bounce \in {0, Unset} THEN [d EXCEPT !.bounce = Unset, !.ejected = FALSE] ELSE d
BounceEnds(d) ==
  IF d.ejected /\ d.bounce = 0 THEN [d EXCEPT !.bounce = Unset, !.ejected = FALSE] ELSE d

NotStale(u)    == [LunChanged(u) EXCEPT !.ua = TRUE]          \* mutant of Replaced
Replaced(u)    == [LunChanged(u) EXCEPT !.ua = TRUE, !.stale = TRUE]
SeenGone(u, l) == [(IF l = "card" THEN u ELSE LunChanged(u)) EXCEPT !.was = FALSE, !.ua = TRUE]
SeenCome(u, l) == [(IF l = "card" THEN u ELSE LunChanged(u)) EXCEPT !.was = TRUE, !.ua = TRUE, !.stale = l # "card"]

PresencePoll(d, l) ==                                         \* mutant of LunPoll
  LET u == d.lun[l] IN
  CASE Present(d, l) /\ ~u.was -> SeenCome(u, l)
    [] ~Present(d, l) /\ u.was -> SeenGone(u, l)
    [] OTHER -> u
LunPoll(d, l) ==
  LET u == d.lun[l] IN
  CASE Present(d, l) /\ ~u.was -> SeenCome(u, l)
    [] ~Present(d, l) /\ u.was -> SeenGone(u, l)
    [] OTHER -> IF d.moved /\ l # "card" /\ u.was THEN Replaced(u) ELSE u

(* The media event of the DVD. *)
Happened(d) ==
  \/ Present(d, "dvd") # d.lun["dvd"].was
  \/ d.moved /\ Present(d, "dvd")
Event(d) ==
  IF ~Happened(d) THEN d.event ELSE IF Present(d, "dvd") THEN "new" ELSE "removed"

MediaPoll(d0) ==
  LET d == BounceEnds(CardGone(d0))
  IN [d EXCEPT !.moved = FALSE, !.event = Event(d),
               !.lun = [l \in Lun |-> LunPoll(d, l)],
               !.ejhost = @ /\ \A l \in Img : Present(d, l) => d.lun[l].was]

(* sd_try_init: `up` tells whether the card in the slot comes up.           *)
TryInit(d, up, ok) ==
  IF up /\ d.slot # NoCard THEN AutoMount([d EXCEPT !.drv = d.slot, !.live = TRUE], ok) ELSE d
(* console 'i': the card is given up first. *)
Reinit(d, up, ok) == TryInit([d EXCEPT !.drv = NoCard, !.live = FALSE], up, ok)

(* A bus reset, a configuration or a BOT reset. *)
EvtReset(d) == [d EXCEPT !.ejected = FALSE, !.premount = @ \/ d.ejhost]

(* swap_watchdog *)
OnAck(n)     == n >= Ack
Overdue(d)   == d.conf /\ \E l \in Img : d.lun[l].owed /\ OnAck(d.lun[l].age)
AckAll(d)    == [d EXCEPT !.lun = [l \in Lun |-> Acked(d.lun[l])]]
Watchdog(d)  == IF Overdue(d) THEN EvtReset([AckAll(d) EXCEPT !.conf = FALSE]) ELSE d

(* sd_housekeeping: `due` is the retry of a card that is not there.         *)
Remount(d, ok) ==
  LET r == RemountLast(d, ok) IN
  IF ~d.premount THEN d
  ELSE [r EXCEPT !.premount = FALSE, !.ejhost = @ /\ (Mounted(d) \/ ~Mounted(r))]
Housekeeping(d, due, up, ok) ==
  Watchdog(MediaPoll(Remount(IF due /\ d.drv = NoCard THEN TryInit(d, up, ok) ELSE d, ok)))

---------------------------------------------------------------------------
(* What the host knows. *)

(* The image LUNs that changed under a host that is connected and has not   *)
(* looked, `since` so many ticks; `heard` are the LUNs it looks at in this  *)
(* step. A card exchanged unseen changes nothing media_poll could notice.   *)
Owing(h, d, heard) == IF ~d.conf \/ h.unseen THEN {} ELSE h.waits \ heard

(* What the host knows is kept only while it matters: it is connected, the  *)
(* medium was seen, no attention is pending, it is not marked stale.        *)
Seen(h, d, heard) ==
  LET w == Owing(h, d, heard)
      k == {l \in Lun : d.conf /\ d.lun[l].was /\ ~d.lun[l].ua}
  IN
  [h EXCEPT !.waits = w,
            !.since = [l \in Img |-> IF l \in w /\ l \in hist.waits THEN @[l] ELSE 0],
            !.early = {l \in @ : d.conf /\ d.lun[l].owed},
            !.known = [l \in Lun |-> IF l \in k THEN @[l] ELSE Nothing],
            !.fresh = @ \cap k,
            !.cap   = [l \in Img |-> IF d.lun[l].was /\ ~d.lun[l].stale THEN @[l] ELSE Nothing],
            !.out   = IF d.conf THEN @ ELSE "no",
            !.looked = IF coop /\ d.conf THEN @ ELSE [l \in Img |-> "yes"]]

(* The card and the images media_poll saw last, and whether a card has been *)
(* exchanged for another since without media_poll seeing the slot empty.    *)
Polled(h, d) ==
  [h EXCEPT !.polled = d.drv,
            !.shown  = [l \in Img |-> Medium(d, l)],
            !.waits  = @ \cup {l \in Img : Medium(d, l) # h.shown[l]},
            !.unseen = d.drv # NoCard /\ (@ \/ h.polled \notin {NoCard, d.drv}),
            !.out = IF d.drv = NoCard THEN "no" ELSE @]

(* The host is told what is on a LUN. Told anything, a cooperative host     *)
(* goes on to read the capacity.                                            *)
Tells(h, d, l)   == [h EXCEPT !.known[l] = Medium(d, l), !.fresh = @ \ {l}]
Learns(h, d, l)  == IF l \in h.fresh THEN Tells(h, d, l) ELSE h
Looks(h, l, how) == IF coop /\ l \in Img THEN [h EXCEPT !.looked[l] = how] ELSE h
Glances(h, l)    == IF l \in Img /\ h.looked[l] = "no" THEN Looks(h, l, "yes") ELSE h

---------------------------------------------------------------------------
(* Commands. execute polls the media before it looks at the command: d and h *)
(* are the state and the history after that.                                *)

Polls == MediaPoll(dev)
Heard == Polled(hist, Polls)
Takes(n) == events + n <= MaxEvents /\ events' = events + n
Faults(up, ok) == (IF up THEN 0 ELSE 1) + (IF ok THEN 0 ELSE 1)
Fails(how)     == IF how = "written" THEN 0 ELSE 1
Answers(d, h, heard) ==
  /\ dev' = d /\ hist' = Seen(h, d, heard)
  /\ UNCHANGED coop

Attention(d, l) == d.lun[l].ua /\ Present(d, l)
Attended(d, l)  == [d EXCEPT !.lun[l].ua = FALSE]
NotLookedAt(d, l) == d                                        \* mutant of LookedAt
LookedAt(d, l)  == [d EXCEPT !.lun[l] = Acked(@)]

Ready(d, l)     == Present(d, l) /\ ~d.lun[l].ua

(* medium_ready, when the answer is a unit attention.                       *)
UnitAttention(d, h, l) ==
  /\ Attention(d, l)
  /\ Answers(Attended(d, l), Looks(Tells(h, d, l), l, "ua"), {})

(* An empty card reader tries its card again, and polls again.              *)
TestUnitReady(d0, h0, l) ==
  \E up, ok \in BOOLEAN :
    LET retried == dev.drv = NoCard
        d == IF retried THEN MediaPoll(TryInit(d0, up, ok)) ELSE d0
        h == IF retried THEN Polled(h0, d) ELSE h0
    IN /\ Takes(Faults(up, ok))
       /\ retried \/ (up /\ ok)
       /\ \/ ~Present(d, l) /\ Answers(LookedAt(d, l), Looks(Tells(h, d, l), l, "yes"), {l})
          \/ UnitAttention(d, h, l)
          \/ Ready(d, l) /\ Answers(d, Glances(h, l), {})

ReadCapacity(d, h, l) ==
  \/ ~Present(d, l) /\ Answers(d, Tells(h, d, l), {})
  \/ UnitAttention(d, h, l)
  \/ /\ Ready(d, l)
     /\ LET k == Looks(Learns(h, d, l), l, "yes")
        IN Answers([d EXCEPT !.lun[l] = [Acked(@) EXCEPT !.stale = FALSE]],
                   IF l = "card" THEN k ELSE [k EXCEPT !.cap[l] = Medium(d, l)], {l})

(* READ, and WRITE, VERIFY and the like as far as the medium is concerned.  *)
(* A card that has gone is noticed here, after media_poll has looked.       *)
Read(d, h, l) ==
  \/ ~Present(d, l) /\ Answers(d, Tells(h, d, l), {})
  \/ UnitAttention(d, h, l)
  \/ Ready(d, l) /\ Answers(Accessed(d), IF d.live THEN Learns(h, d, l) ELSE h, {})

(* GET EVENT STATUS, which the host may poll in place of TEST UNIT READY.   *)
GetEvent(d, h) ==
  LET e == [d EXCEPT !.event = "none"]
  IN \/ /\ ~Present(d, "dvd")
        /\ Answers(LookedAt(e, "dvd"), Looks(Tells(h, d, "dvd"), "dvd", "yes"), {"dvd"})
     \/ /\ Present(d, "dvd")
        /\ Answers(e, IF d.event = "new" THEN Looks(h, "dvd", "ua") ELSE Glances(h, "dvd"), {})

(* START STOP UNIT with LoEj. An image the host has not taken on board yet  *)
(* is not the one it means to eject.                                        *)
MayEject(d, l) == Present(d, l) /\ ~d.lun[l].stale
EjectImage(d, h, l) ==
  LET e == Attended(MediaPoll([Unmount(d) EXCEPT !.ejhost = TRUE]), l)
  IN IF MayEject(d, l) THEN Answers(e, Tells(Polled(h, e), e, l), {l}) ELSE Answers(d, h, {})

LoadImage(d, h) ==
  \E ok \in BOOLEAN :
    LET r == RemountLast(d, ok)
        e == MediaPoll([r EXCEPT !.ejhost = @ /\ (Mounted(d) \/ ~Mounted(r))])
    IN Takes(Faults(TRUE, ok)) /\ Answers(e, Polled(h, e), {})

(* The card behaves like a card reader's; the host asked: no attention. The  *)
(* history keeps whether the card was ejected, no console L being at work,  *)
(* and nothing has happened since that ends it ("yes"); and the same with   *)
(* the clock of an earlier console L left over ("clock") or with a reset of *)
(* the session since ("reset").                                             *)
SetEjected(d, h, on) ==
  LET e == Attended(MediaPoll([d EXCEPT !.ejected = on]), "card")
      k == CASE ~on \/ d.drv = NoCard \/ d.bounce \in 1..Bounce -> "no"
             [] OTHER -> IF d.bounce = Unset THEN "yes" ELSE "clock"
  IN Answers(e, [Tells(h, e, "card") EXCEPT !.out = k], {})

Command ==
  LET d == Polls
      h == Heard
  IN /\ dev.conf
     /\ \/ \E l \in Lun : TestUnitReady(d, h, l)
        \/ LoadImage(d, h)
        \/ /\ UNCHANGED events
           /\ \/ \E l \in Lun : ReadCapacity(d, h, l) \/ Read(d, h, l)
              \/ GetEvent(d, h)
              \/ \E l \in Img : EjectImage(d, h, l)
        \/ \E on \in BOOLEAN : Takes(1) /\ SetEjected(d, h, on)

---------------------------------------------------------------------------
(* The idle loop: an action of the console or the key, then housekeeping.   *)

Most == CHOOSE n \in {Len(Files[c]) : c \in Cards} : \A c \in Cards : Len(Files[c]) <= n
User == [do : {"next", "list", "unmount", "reinit", "reinsert"}, n : {0}] \cup [do : {"mount"}, n : 1..Most]
Due  == [do |-> "deferred", n |-> 0]
None == [do |-> "none", n |-> 0]

Console(d, key, up, ok, how) ==
  CASE key = None            -> d
    [] key = Due             -> DeferredMount(d, how)
    [] key.do = "next"       -> CycleNext(d, ok, how)
    [] key.do = "list"       -> IF d.drv = NoCard THEN d ELSE Scan(d, ok)
    [] key.do = "unmount"    -> Unmount(d)
    [] key.do = "reinit"     -> Reinit(d, up, ok)
    [] key.do = "reinsert"   -> [d EXCEPT !.ejected = TRUE, !.bounce = Bounce]
    [] key.do = "mount"      -> IF d.drv = NoCard THEN d
                                ELSE MountIndex(IF List(d) = <<>> THEN Scan(d, ok) ELSE d, key.n)

(* Whether the key has chosen nothing and the user nothing else since, and  *)
(* whether that choice is on the card ("saved"), is not ("unsaved"), or was *)
(* not when the card was initialised again ("reread").                      *)
ChoseNothing(c, key) == key.do = "next" /\ Mounted(dev) /\ ~Mounted(c) /\ ~SwapWaits(c)
StillNothing(key) ==
  CASE key.do \in {"next", "deferred", "mount"}             -> "no"
    [] key.do = "reinit" /\ hist.nothing = "unsaved"        -> "reread"
    [] OTHER                                                -> hist.nothing

Watched(h, c, d, key, how) ==
  [Polled(h, d) EXCEPT !.nothing = IF ~ChoseNothing(c, key) THEN StillNothing(key)
                                   ELSE IF how = "kept" THEN "unsaved" ELSE "saved",
                       !.out = IF key.do = "reinsert" THEN "no" ELSE @]

Aged(u)   == IF u.owed /\ u.age < Ack THEN [u EXCEPT !.age = @ + 1] ELSE u
Ticked(d) == [StoreTick(d) EXCEPT !.bounce = IF @ \in 1..Bounce THEN @ - 1 ELSE @,
                                  !.lun = [l \in Lun |-> Aged(@[l])]]
TickSeen(h) ==
  [h EXCEPT !.since = [l \in Img |-> IF l \in h.waits /\ @[l] <= Ack THEN @[l] + 1 ELSE @[l]],
            !.looked = [l \in Img |-> IF coop THEN "no" ELSE @[l]]]

(* `late`: a tick has passed before this pass of the loop. A tick is longer *)
(* than a pass and than a command, and a cooperative host has looked at     *)
(* every LUN since the one before.                                          *)
IdlePass ==
  \E key \in User \cup {None, Due}, up, ok \in BOOLEAN, how \in Outcomes :
    /\ Takes((IF key \in User THEN 1 ELSE 0) + Faults(up, ok) + Fails(how))
    /\ \E late, due \in BOOLEAN :
         LET t == IF late THEN Ticked(dev) ELSE dev
             c == Console(t, key, up, ok, how)
             d == Housekeeping(c, due, up, ok)
             h == IF late THEN TickSeen(hist) ELSE hist
         IN /\ late /\ coop /\ dev.conf => \A l \in Img : hist.looked[l] = "yes"
            /\ key = None => ~SwapDue(t)
            /\ key = Due => SwapDue(t)
            /\ due => c.drv = NoCard
            /\ up \/ due \/ key.do = "reinit"
            /\ how = "written" \/ key.do \in {"next", "deferred"}
            /\ dev' = d
            /\ hist' = Seen(Watched(h, c, d, key, how), d, {})
            /\ UNCHANGED coop

---------------------------------------------------------------------------
(* The user, the cable and the host's configuration. *)

Outside(d) == Takes(1) /\ dev' = d /\ UNCHANGED coop

Pull ==
  /\ dev.slot # NoCard
  /\ Outside([dev EXCEPT !.slot = NoCard, !.live = FALSE])
  /\ hist' = [hist EXCEPT !.nothing = "no"]

Insert ==
  /\ dev.slot = NoCard
  /\ \E c \in Cards : Outside([dev EXCEPT !.slot = c])
  /\ UNCHANGED hist

(* A bus reset, or configuration 0. *)
BusReset ==
  /\ dev.conf
  /\ Outside(EvtReset([dev EXCEPT !.conf = FALSE]))
  /\ hist' = Seen(hist, dev', {})

(* The host starts the session of a device over that it goes on using: a    *)
(* Bulk-Only reset, or the configuration it has already set.                *)
SessionReset ==
  /\ dev.conf
  /\ dev' = EvtReset(dev)
  /\ hist' = Seen([hist EXCEPT !.out = IF @ = "no" THEN "no" ELSE "reset"], dev', {})
  /\ UNCHANGED <<coop, events>>

(* A cooperative host reads the capacities of what it finds.                *)
SetConfiguration ==
  /\ ~dev.conf
  /\ dev' = EvtReset([dev EXCEPT !.conf = TRUE])
  /\ hist' = [hist EXCEPT !.fresh = {l \in Lun : dev.lun[l].was /\ ~dev.lun[l].ua}, !.early = {l \in Img : coop /\ dev.lun[l].owed},
                          !.looked = [l \in Img |-> IF coop THEN "ua" ELSE "yes"]]
  /\ UNCHANGED <<coop, events>>

Next == Command \/ IdlePass \/ Pull \/ Insert \/ BusReset \/ SessionReset \/ SetConfiguration
Spec == Init /\ [][Next]_vars

---------------------------------------------------------------------------
(* What a READ, arriving now, would be served from: media_poll first, then  *)
(* the medium must be there, no attention be pending and the card answer.   *)
Serves(p, l) == p.conf /\ p.live /\ Present(p, l) /\ ~Attention(p, l)

(* msc_core.c:359 "Turn image mount/unmount and card insertion/removal into *)
(* UNIT ATTENTION and media events": no READ is served from a medium other  *)
(* than the one the host was last told of.                                  *)
OnlyAnnounced ==
  LET p == Polls IN \A l \in Lun : Serves(p, l) => l \in hist.fresh \/ hist.known[l] = Medium(p, l)

(* The same, as long as no card was exchanged for another without media_poll *)
(* seeing the slot empty: images swapped, ejected, loaded, remounted after a *)
(* reset or a re-initialisation of the card, in any order.                  *)
ImagesAnnounced == ~Heard.unseen => OnlyAnnounced

(* An eject takes away the medium the host has taken on board, never one    *)
(* that was put in its place and whose capacity it has not read; the same   *)
(* card as for ImagesAnnounced.                                             *)
EjectsKnown ==
  ~Heard.unseen =>
    LET p == Polls IN \A l \in Img : p.conf /\ MayEject(p, l) => hist.cap[l] = Medium(p, l)

(* A connected host that does not look at a changed LUN is re-plugged       *)
(* IMG_SWAP_ACK_MS after media_poll saw the first change it missed, however *)
(* the image goes on changing ("after the key press, not after the mount",  *)
(* msc_core.c:323).                                                         *)
ToldInTime == \A l \in hist.waits : hist.since[l] < Ack

(* msc_core.c:338 "Cooperative hosts never see one" (a re-plug).            *)
CooperativeSpared == coop => ~Overdue(Polls)

(* That holds for every change noticed while the host was connected: it is   *)
(* re-plugged only for a change it was not there to look at.                *)
Replugged == dev.conf /\ ~dev'.conf /\ ~BusReset
CooperativeSparedOnline == [][Replugged => ~(coop /\ hist.early = {})]_vars

(* "it stays out until the card is re-inserted, USB re-plugged or console L" *)
(* (msc_core.c:1345): a card volume the host ejected is not shown to it     *)
(* before one of the three. A reset of the session brings it back.          *)
EjectedStaysOut == hist.out # "no" => ~Present(dev, "card")

(* The same of a session that is not reset. A console L whose bounce was cut *)
(* short by a reset or by the card being pulled has left its clock set, and  *)
(* that brings the card back.                                               *)
EjectedOutlastsClock == hist.out \in {"yes", "clock"} => ~Present(dev, "card")

(* That holds when no such clock was left: whatever is polled, mounted,     *)
(* swapped or re-initialised, the card stays out for the session.           *)
EjectedForSession == hist.out = "yes" => ~Present(dev, "card")

(* image_store.c:888 "a mode switch must not bring the old image back": once *)
(* the key has chosen "nothing", nothing is mounted on that card until the  *)
(* user mounts something. A card with a single image has it mounted in any  *)
(* case, which README.md:120 says.                                          *)
NotOne(d) == d.drv # NoCard /\ Len(Files[d.drv]) # 1
OldStaysAway == NotOne(dev) /\ hist.nothing # "no" => ~Mounted(dev)

(* That holds unless the choice could not be saved and the card has been    *)
(* initialised again since: not a load by the host nor a reset brings the   *)
(* image back, and a saved choice outlasts a re-initialisation too.         *)
NothingStaysOfMany == NotOne(dev) /\ hist.nothing \in {"saved", "unsaved"} => ~Mounted(dev)
=============================================================================
