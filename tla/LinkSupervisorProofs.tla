------------------------ MODULE LinkSupervisorProofs ------------------------
(***************************************************************************)
(* The safety of the link supervisor for every duration, the real ones     *)
(* included: types, one controller at a time, a session only on the        *)
(* controller that runs, SuperSpeed kept for a host that spoke it.         *)
(***************************************************************************)
EXTENDS LinkSupervisor, TLAPS

(* What the helpers on the controllers return. *)
LEMMA UsbHelpers ==
  ASSUME NEW u \in Usb
  PROVE  /\ SsStop(u) \in Usb /\ HsStop(u) \in Usb /\ EndpInit(u) \in Usb /\ EvtReset(u) \in Usb
         /\ ResetAll(u) \in Usb /\ SsStart(u) \in Usb /\ HsStart(u) \in Usb
<1>1. EvtReset(u) \in Usb /\ EndpInit(u) \in Usb
  BY DEF EvtReset, EndpInit, Usb
<1>2. ASSUME NEW x \in {"SS", "HS"}, NEW v \in Usb PROVE Closed(v, x) \in Usb
  BY DEF Closed, EndpInit, EvtReset, Usb
<1>3. ASSUME NEW v \in Usb PROVE SsStop(v) \in Usb /\ HsStop(v) \in Usb
  <2>1. Closed(v, "SS") \in Usb /\ Closed(v, "HS") \in Usb
    BY <1>2
  <2> QED BY <2>1 DEF SsStop, HsStop, Usb
<1>4. SsStart(u) \in Usb /\ HsStart(u) \in Usb
  BY <1>1 DEF SsStart, HsStart, Usb
<1>5. ResetAll(u) \in Usb
  <2>1. HsStop(SsStop(u)) \in Usb
    BY <1>3
  <2> QED BY <2>1 DEF ResetAll, EvtReset, Usb
<1> QED BY <1>1, <1>3, <1>4, <1>5

(* A full reset leaves both controllers off and no session behind. *)
LEMMA ResetAllOff ==
  ASSUME NEW u \in Usb
  PROVE  /\ ResetAll(u) \in Usb
         /\ ~ResetAll(u).ss_on /\ ~ResetAll(u).hs_on
         /\ ResetAll(u).xport = "NONE" /\ ~ResetAll(u).configured
<1>1. SsStop(u) \in Usb /\ ~SsStop(u).ss_on
  <2>1. Closed(u, "SS") \in Usb
    BY DEF Closed, EndpInit, EvtReset, Usb
  <2> QED BY <2>1 DEF SsStop, Usb
<1>2. ASSUME NEW v \in Usb, ~v.ss_on PROVE HsStop(v) \in Usb /\ ~HsStop(v).ss_on /\ ~HsStop(v).hs_on
  <2>1. Closed(v, "HS") \in Usb /\ ~Closed(v, "HS").ss_on
    BY <1>2 DEF Closed, EndpInit, EvtReset, Usb
  <2> QED BY <1>2, <2>1 DEF HsStop, Usb
<1>3. HsStop(SsStop(u)) \in Usb /\ ~HsStop(SsStop(u)).ss_on /\ ~HsStop(SsStop(u)).hs_on
  BY <1>1, <1>2
<1> QED BY <1>3 DEF ResetAll, EvtReset, Usb

(* The two ways the supervisor starts a controller. *)
LEMMA Restarted ==
  ASSUME NEW u \in Usb
  PROVE  /\ SsStart(ResetAll(u)) \in Usb
         /\ SsStart(ResetAll(u)).ss_on /\ ~SsStart(ResetAll(u)).hs_on
         /\ SsStart(ResetAll(u)).xport = "NONE" /\ ~SsStart(ResetAll(u)).configured
         /\ HsStart(ResetAll(u)) \in Usb
         /\ ~HsStart(ResetAll(u)).ss_on /\ HsStart(ResetAll(u)).hs_on
         /\ HsStart(ResetAll(u)).xport = "NONE" /\ ~HsStart(ResetAll(u)).configured
<1> DEFINE r == ResetAll(u)
<1>1. r \in Usb /\ ~r.ss_on /\ ~r.hs_on /\ r.xport = "NONE" /\ ~r.configured
  BY ResetAllOff
<1> HIDE DEF r
<1>2. /\ SsStart(r) \in Usb /\ SsStart(r).ss_on /\ ~SsStart(r).hs_on
      /\ SsStart(r).xport = "NONE" /\ ~SsStart(r).configured
  BY <1>1 DEF SsStart, EndpInit, EvtReset, Usb
<1>3. /\ HsStart(r) \in Usb /\ ~HsStart(r).ss_on /\ HsStart(r).hs_on
      /\ HsStart(r).xport = "NONE" /\ ~HsStart(r).configured
  BY <1>1 DEF HsStart, EndpInit, EvtReset, Usb
<1> QED BY <1>2, <1>3 DEF r

---------------------------------------------------------------------------
(* The inductive invariant. OneController and SessionLives carry each other *)
(* and the types; that a known host keeps SuperSpeed rests on what the      *)
(* supervisor still remembers of it: the flag, and no stale reading of the  *)
(* pins that would say it left.                                             *)
HostRemembered ==
  adopted =>
    /\ host = "ss" /\ sup.ss_host_known /\ sup.phase # "HS_ACTIVE"
    /\ sup.probe_done => sup.probe_val

LInv == LTypeOK /\ OneController /\ SessionLives /\ HostRemembered

LEMMA EnteredSup ==
  ASSUME sup \in Sup, NEW p \in {"WAIT", "SS_ACTIVE", "HS_ACTIVE"}
  PROVE  /\ Entered(p) \in Sup /\ Entered(p).phase = p
         /\ Entered(p).ss_host_known = sup.ss_host_known
         /\ ~Entered(p).host_present /\ ~Entered(p).probe_done
         /\ ~Entered(p).ss_dead_seen /\ ~Entered(p).ss_bounced /\ ~Entered(p).hs_idle_seen
BY DEF Entered, Sup

LEMMA ProbedTypes ==
  ASSUME LTypeOK
  PROVE  /\ ProbedSup \in Sup
         /\ ProbedSup = [sup EXCEPT !.probe_done = ProbedSup.probe_done, !.probe_val = ProbedSup.probe_val]
         /\ ProbedAge \in [sub : Nat, attach : Nat, bounce : Nat, probe : Nat]
         /\ ProbedSup.probe_val = Attached
<1>1. Attached \in BOOLEAN
  BY DEF Attached, LTypeOK, Sup
<1> QED BY <1>1 DEF LTypeOK, ProbedSup, ProbedAge, Cached, Attached, Sup

(* A restart of SuperSpeed, and the two ways a phase is left for good. *)
LEMMA WaitEntered ==
  ASSUME LInv, GoWait, loop' = loop, loop # "decide", UNCHANGED <<host, adopted, enumerated>>
  PROVE  LInv'
<1>1. usb \in Usb /\ sup \in Sup
  BY DEF LInv, LTypeOK
<1>2. /\ usb' \in Usb /\ usb'.ss_on /\ ~usb'.hs_on /\ usb'.xport = "NONE" /\ ~usb'.configured
      /\ link' = "rxdet" /\ idle' = FALSE
  BY <1>1, Restarted DEF GoWait, Controllers
<1>3. /\ sup' \in Sup /\ sup'.phase = "WAIT" /\ sup'.ss_host_known = sup.ss_host_known
      /\ ~sup'.host_present /\ ~sup'.probe_done
      /\ ~sup'.ss_dead_seen /\ ~sup'.ss_bounced /\ ~sup'.hs_idle_seen
  BY <1>1, EnteredSup DEF GoWait
<1>4. age' \in [sub : Nat, attach : Nat, bounce : Nat, probe : Nat]
  BY DEF LInv, LTypeOK, GoWait, Since
<1>5. LTypeOK'
  BY <1>2, <1>3, <1>4 DEF LInv, LTypeOK
<1>6. OneController' /\ SessionLives'
  BY <1>2, <1>3 DEF OneController, SessionLives
<1>7. HostRemembered'
  BY <1>3 DEF LInv, HostRemembered
<1> QED BY <1>5, <1>6, <1>7 DEF LInv

LEMMA FallBackInv ==
  ASSUME LInv, FallBack
  PROVE  LInv'
<1>1. usb \in Usb /\ sup \in Sup
  BY DEF LInv, LTypeOK
<1>2. /\ usb' \in Usb /\ ~usb'.ss_on /\ usb'.hs_on /\ usb'.xport = "NONE" /\ ~usb'.configured
      /\ link' = "rxdet" /\ idle' = FALSE
  BY <1>1, Restarted DEF FallBack, GoHs, Controllers
<1>3. /\ sup' \in Sup /\ sup'.phase = "HS_ACTIVE" /\ ~sup'.host_present
      /\ ~sup'.ss_dead_seen /\ ~sup'.ss_bounced /\ ~sup'.hs_idle_seen
  BY <1>1, EnteredSup DEF FallBack, GoHs
<1>4. age' \in [sub : Nat, attach : Nat, bounce : Nat, probe : Nat]
  BY DEF LInv, LTypeOK, FallBack, GoHs, Since
<1>5. LTypeOK'
  BY <1>2, <1>3, <1>4 DEF LInv, LTypeOK, FallBack, history
<1>6. OneController' /\ SessionLives'
  BY <1>2, <1>3 DEF OneController, SessionLives
<1>7. ~adopted /\ adopted' = adopted
  BY DEF FallBack, KnownHost, LInv, HostRemembered, history
<1>8. HostRemembered'
  BY <1>7 DEF HostRemembered
<1> QED BY <1>5, <1>6, <1>8 DEF LInv

(* The decisions that stay in WAIT. *)
LEMMA WaitStays ==
  ASSUME LInv, NobodyHome \/ HostAttached \/ KeepSuperSpeed
  PROVE  LInv'
<1>1. usb \in Usb /\ sup \in Sup /\ sup.phase = "WAIT" /\ loop' = "poll"
  BY DEF LInv, LTypeOK, NobodyHome, HostAttached, KeepSuperSpeed
<1>2. \/ UNCHANGED <<usb, link, idle>>
      \/ Controllers(SsStart(ResetAll(usb)))
  BY DEF NobodyHome, HostAttached, KeepSuperSpeed, NoRestart
<1>3. /\ usb' \in Usb /\ usb'.ss_on /\ ~usb'.hs_on
      /\ link' \in {"rxdet", "training", "up", "inactive"} /\ idle' \in BOOLEAN
      /\ SessionLives'
  <2>1. CASE UNCHANGED <<usb, link, idle>>
    BY <1>1, <2>1 DEF LInv, LTypeOK, OneController, SessionLives
  <2>2. CASE Controllers(SsStart(ResetAll(usb)))
    BY <1>1, <2>2, Restarted DEF Controllers, SessionLives
  <2> QED BY <1>2, <2>1, <2>2
<1>4. /\ sup' \in Sup /\ sup'.phase = "WAIT"
      /\ ~sup'.ss_dead_seen /\ ~sup'.ss_bounced /\ ~sup'.hs_idle_seen
      /\ age' \in [sub : Nat, attach : Nat, bounce : Nat, probe : Nat]
  <2>1. ~sup.ss_dead_seen /\ ~sup.ss_bounced /\ ~sup.hs_idle_seen
    BY <1>1 DEF LInv, LTypeOK
  <2>2. /\ ProbedSup \in Sup
        /\ ProbedSup = [sup EXCEPT !.probe_done = ProbedSup.probe_done, !.probe_val = ProbedSup.probe_val]
        /\ ProbedAge \in [sub : Nat, attach : Nat, bounce : Nat, probe : Nat]
    BY ProbedTypes DEF LInv
  <2>3. /\ ProbedSup.phase = "WAIT"
        /\ ~ProbedSup.ss_dead_seen /\ ~ProbedSup.ss_bounced /\ ~ProbedSup.hs_idle_seen
    BY <1>1, <2>1, <2>2 DEF Sup
  <2>4. CASE NobodyHome
    <3>1. sup' = [ProbedSup EXCEPT !.ss_host_known = FALSE]
      BY <2>4 DEF NobodyHome
    <3>2. age' = ProbedAge \/ age' = [ProbedAge EXCEPT !.sub = 0]
      BY <2>4 DEF NobodyHome
    <3>3. age' \in [sub : Nat, attach : Nat, bounce : Nat, probe : Nat]
      BY <2>2, <3>2
    <3> QED BY <2>2, <2>3, <3>1, <3>3 DEF Sup
  <2>5. CASE HostAttached
    BY <2>2, <2>3, <2>5 DEF HostAttached, Sup
  <2>6. CASE KeepSuperSpeed
    BY <1>1, <2>1, <2>6 DEF KeepSuperSpeed, LInv, LTypeOK
  <2> QED BY <2>4, <2>5, <2>6
<1>5. host' = host /\ adopted' = adopted /\ enumerated' = enumerated
  BY DEF NobodyHome, HostAttached, KeepSuperSpeed, history
<1>6. LTypeOK' /\ OneController'
  BY <1>1, <1>3, <1>4, <1>5 DEF LInv, LTypeOK, OneController
<1>7. HostRemembered'
  <2> SUFFICES ASSUME adopted PROVE HostRemembered'
    BY <1>5 DEF HostRemembered
  <2>1. host = "ss" /\ sup.ss_host_known /\ (sup.probe_done => sup.probe_val)
    BY DEF LInv, HostRemembered
  <2>2. Attached
    BY <2>1 DEF Attached, Cached
  <2>3. ProbedSup.probe_val = Attached /\ ProbedSup \in Sup
        /\ ProbedSup = [sup EXCEPT !.probe_done = ProbedSup.probe_done, !.probe_val = ProbedSup.probe_val]
    BY ProbedTypes DEF LInv
  <2>4. CASE NobodyHome
    BY <2>2, <2>4 DEF NobodyHome
  <2>5. CASE HostAttached
    <3>1. sup'.ss_host_known = sup.ss_host_known /\ sup'.probe_val = ProbedSup.probe_val
      BY <1>1, <2>3, <2>5 DEF HostAttached, Sup
    <3> QED BY <1>4, <1>5, <2>1, <2>2, <2>3, <3>1 DEF HostRemembered
  <2>6. CASE KeepSuperSpeed
    BY <1>1, <1>5, <2>1, <2>6 DEF KeepSuperSpeed, HostRemembered
  <2> QED BY <2>4, <2>5, <2>6
<1> QED BY <1>3, <1>6, <1>7 DEF LInv

LEMMA AdoptInv ==
  ASSUME LInv, Adopt
  PROVE  LInv'
<1>1. sup \in Sup /\ loop' = "poll" /\ sup.phase = "WAIT"
  BY DEF LInv, LTypeOK, Adopt
<1>2. /\ sup' \in Sup /\ sup'.phase = "SS_ACTIVE" /\ sup'.ss_host_known
      /\ ~sup'.host_present /\ ~sup'.probe_done /\ ~sup'.hs_idle_seen
  <2>1. sup' = [Entered("SS_ACTIVE") EXCEPT !.ss_host_known = TRUE]
    BY DEF Adopt
  <2>2. /\ Entered("SS_ACTIVE") \in Sup /\ Entered("SS_ACTIVE").phase = "SS_ACTIVE"
        /\ ~Entered("SS_ACTIVE").host_present /\ ~Entered("SS_ACTIVE").probe_done
        /\ ~Entered("SS_ACTIVE").hs_idle_seen
    BY <1>1, EnteredSup
  <2> HIDE DEF Adopt
  <2> QED BY <2>1, <2>2 DEF Sup
<1>3. age' \in [sub : Nat, attach : Nat, bounce : Nat, probe : Nat]
  BY DEF LInv, LTypeOK, Adopt, Since
<1>4. UNCHANGED <<usb, link, idle, host, enumerated>> /\ adopted' \in BOOLEAN
  BY DEF Adopt, NoRestart, LInv, LTypeOK
<1>5. LTypeOK'
  BY <1>1, <1>2, <1>3, <1>4 DEF LInv, LTypeOK
<1>6. OneController' /\ SessionLives'
  BY <1>1, <1>2, <1>4 DEF LInv, OneController, SessionLives
<1>7. HostRemembered'
  BY <1>2, <1>4 DEF HostRemembered, Adopt
<1> QED BY <1>5, <1>6, <1>7 DEF LInv

LEMMA ActivePolls ==
  ASSUME LInv, LinkGone \/ LinkAlive \/ BusIdle \/ BusActive
  PROVE  LInv'
<1>0. usb \in Usb /\ sup \in Sup /\ loop = "poll" /\ UNCHANGED <<loop, host, adopted, enumerated>>
  BY DEF LInv, LTypeOK, LinkGone, LinkAlive, BusIdle, BusActive, history
<1>1. CASE GoWait
  BY <1>0, <1>1, WaitEntered
<1>2. CASE LinkGone /\ ~GoWait
  <2>1. /\ sup' = [sup EXCEPT !.ss_dead_seen = TRUE, !.ss_bounced = TRUE]
        /\ age' = [age EXCEPT !.sub = 0, !.bounce = IF sup.ss_bounced THEN @ ELSE 0]
        /\ UNCHANGED <<usb, link, idle>> /\ sup.phase = "SS_ACTIVE"
    BY <1>2 DEF LinkGone, NoRestart
  <2>2. LTypeOK'
    BY <1>0, <2>1 DEF LInv, LTypeOK, Sup
  <2> QED BY <1>0, <2>1, <2>2 DEF LInv, OneController, SessionLives, HostRemembered, Sup
<1>3. CASE LinkAlive /\ ~GoWait
  <2>1. /\ sup' = [sup EXCEPT !.ss_dead_seen = FALSE, !.ss_bounced = sup.ss_bounced /\ ~usb.configured]
        /\ UNCHANGED <<usb, link, idle, age>> /\ sup.phase = "SS_ACTIVE"
    BY <1>3 DEF LinkAlive, NoRestart
  <2>2. sup' \in Sup
    BY <1>0, <2>1 DEF Sup, Usb
  <2>3. LTypeOK'
    BY <1>0, <2>1, <2>2 DEF LInv, LTypeOK, Sup
  <2> QED BY <1>0, <2>1, <2>3 DEF LInv, OneController, SessionLives, HostRemembered, Sup
<1>4. CASE BusIdle /\ sup.hs_idle_seen /\ ~GoWait
  <2>1. /\ Controllers(HsStart(HsStop(usb)))
        /\ sup' = [ProbedSup EXCEPT !.hs_idle_seen = FALSE]
        /\ age' = [ProbedAge EXCEPT !.sub = 0]
        /\ sup.phase = "HS_ACTIVE" /\ usb.hs_on
    BY <1>4 DEF BusIdle
  <2>2. /\ ProbedSup \in Sup
        /\ ProbedSup = [sup EXCEPT !.probe_done = ProbedSup.probe_done, !.probe_val = ProbedSup.probe_val]
        /\ ProbedAge \in [sub : Nat, attach : Nat, bounce : Nat, probe : Nat]
    BY ProbedTypes DEF LInv
  <2>3. /\ sup' \in Sup /\ sup'.phase = "HS_ACTIVE" /\ sup'.host_present = sup.host_present
        /\ sup'.ss_dead_seen = sup.ss_dead_seen /\ sup'.ss_bounced = sup.ss_bounced
        /\ ~sup'.hs_idle_seen
    BY <2>1, <2>2 DEF Sup
  <2>4. /\ HsStop(usb) \in Usb /\ ~HsStop(usb).hs_on /\ ~HsStop(usb).ss_on
        /\ HsStop(usb).xport = "NONE" /\ ~HsStop(usb).configured
    <3>1. usb.xport # "SS" /\ ~usb.ss_on
      BY <2>1 DEF LInv, OneController, SessionLives
    <3>2. /\ Closed(usb, "HS") \in Usb /\ ~Closed(usb, "HS").ss_on
          /\ Closed(usb, "HS").xport = "NONE" /\ ~Closed(usb, "HS").configured
      BY <1>0, <3>1 DEF Closed, EndpInit, EvtReset, Usb, LInv, SessionLives
    <3> QED BY <2>1, <3>2 DEF HsStop, Usb
  <2>5. /\ usb' \in Usb /\ usb'.hs_on /\ ~usb'.ss_on /\ usb'.xport = "NONE" /\ ~usb'.configured
        /\ link' = "rxdet" /\ idle' = FALSE
    <3> DEFINE u == HsStop(usb)
    <3>1. u \in Usb /\ ~u.hs_on /\ ~u.ss_on /\ u.xport = "NONE" /\ ~u.configured
      BY <2>4
    <3>2. usb' = HsStart(u) /\ link' = "rxdet" /\ idle' = FALSE
      BY <2>1 DEF Controllers
    <3> HIDE DEF u
    <3> QED BY <3>1, <3>2 DEF HsStart, EndpInit, EvtReset, Usb
  <2>6. age' \in [sub : Nat, attach : Nat, bounce : Nat, probe : Nat]
    BY <2>1, <2>2
  <2>7. LTypeOK'
    BY <1>0, <2>1, <2>3, <2>5, <2>6 DEF LInv, LTypeOK
  <2>8. ~adopted'
    BY <1>0, <2>1 DEF LInv, HostRemembered
  <2> QED BY <2>3, <2>5, <2>7, <2>8 DEF LInv, OneController, SessionLives, HostRemembered
<1>5. CASE ((BusIdle /\ ~sup.hs_idle_seen) \/ BusActive) /\ ~GoWait
  <2>1. /\ (sup' = [sup EXCEPT !.hs_idle_seen = TRUE] \/ sup' = [sup EXCEPT !.hs_idle_seen = FALSE])
        /\ (age' = age \/ age' = [age EXCEPT !.sub = 0])
        /\ UNCHANGED <<usb, link, idle>> /\ sup.phase = "HS_ACTIVE"
    BY <1>5 DEF BusIdle, BusActive, NoRestart, Since
  <2>2. age' \in [sub : Nat, attach : Nat, bounce : Nat, probe : Nat]
    BY <2>1 DEF LInv, LTypeOK
  <2>3. LTypeOK'
    BY <1>0, <2>1, <2>2 DEF LInv, LTypeOK, Sup
  <2> QED BY <1>0, <2>1, <2>3 DEF LInv, OneController, SessionLives, HostRemembered, Sup
<1> QED BY <1>1, <1>2, <1>3, <1>4, <1>5

(* The handlers change the session, never which controller runs.           *)
LEMMA HandlerInv ==
  ASSUME LInv, Handler
  PROVE  LInv'
<1>0. usb \in Usb /\ sup \in Sup /\ UNCHANGED <<sup, age, loop, host, adopted>>
  BY DEF LInv, LTypeOK, Handler, LinkTrains, LinkUp, LinkDrops, LinkReset, BusReset,
         SetConfigurationSs, SetConfigurationHs, Recorded, history
<1> DEFINE Goal == /\ usb' \in Usb /\ usb'.ss_on = usb.ss_on /\ usb'.hs_on = usb.hs_on
                   /\ link' \in {"rxdet", "training", "up", "inactive"} /\ idle' \in BOOLEAN
                   /\ enumerated' \in BOOLEAN
                   /\ SessionLives'
<1>1. SUFFICES Goal
  BY <1>0 DEF LInv, LTypeOK, OneController, HostRemembered
<1>2. CASE LinkTrains
  BY <1>0, <1>2 DEF LInv, LTypeOK, LinkTrains, SessionLives, Usb, history
<1>3. CASE LinkUp
  <2>1. ~usb.hs_on /\ HsStop(usb) = usb
    BY <1>3 DEF LinkUp, HsStop, LInv, OneController
  <2> QED BY <1>0, <1>3, <2>1 DEF LInv, LTypeOK, LinkUp, SessionLives, Usb, history
<1>4. CASE LinkDrops
  BY <1>0, <1>4 DEF LInv, LTypeOK, LinkDrops, SessionLives, Usb, history
<1>5. CASE LinkReset
  BY <1>0, <1>5 DEF LInv, LTypeOK, LinkReset, EndpInit, EvtReset, SessionLives, Usb, history
<1>6. CASE BusReset
  <2>1. usb.xport # "SS"
    BY <1>6 DEF BusReset, LInv, OneController, SessionLives
  <2>2. /\ usb' = [EndpInit(usb) EXCEPT !.xport = IF @ = "HS" THEN "NONE" ELSE @]
        /\ UNCHANGED <<link, enumerated>> /\ idle' = FALSE
    BY <1>6, <2>1 DEF BusReset, history
  <2> QED BY <1>0, <2>1, <2>2 DEF LInv, LTypeOK, EndpInit, EvtReset, SessionLives, Usb
<1>7. ASSUME NEW value \in BOOLEAN, SetConfigurationSs(value) PROVE Goal
  <2>1. usb' = [usb EXCEPT !.xport = "SS", !.configured = value,
                           !.cfg_evt = usb.cfg_evt \/ value, !.aborted = TRUE]
    BY <1>7 DEF SetConfigurationSs, EvtReset
  <2>2. usb.ss_on /\ UNCHANGED <<link, idle>> /\ enumerated' \in BOOLEAN
    BY <1>7 DEF SetConfigurationSs, LInv, LTypeOK
  <2>3. usb' \in Usb /\ usb'.ss_on /\ usb'.hs_on = usb.hs_on /\ usb'.xport = "SS"
    BY <1>0, <2>1, <2>2 DEF Usb
  <2> QED BY <1>0, <2>2, <2>3 DEF LInv, LTypeOK, OneController, SessionLives
<1>8. ASSUME NEW value \in BOOLEAN, SetConfigurationHs(value) PROVE Goal
  <2>1. usb' = [usb EXCEPT !.xport = "HS", !.configured = value, !.aborted = TRUE]
    BY <1>8 DEF SetConfigurationHs, EvtReset
  <2>2. usb.hs_on /\ UNCHANGED <<link, idle, enumerated>>
    BY <1>8 DEF SetConfigurationHs, history
  <2>3. usb' \in Usb /\ usb'.hs_on /\ usb'.ss_on = usb.ss_on /\ usb'.xport = "HS"
    BY <1>0, <2>1, <2>2 DEF Usb
  <2> QED BY <1>0, <2>2, <2>3 DEF LInv, LTypeOK, OneController, SessionLives
<1> HIDE DEF Goal
<1> QED BY <1>2, <1>3, <1>4, <1>5, <1>6, <1>7, <1>8 DEF Handler

LEMMA LInvInit == Init => LInv
<1> SUFFICES ASSUME Init PROVE LInv
  OBVIOUS
<1>1. usb \in Usb /\ usb.ss_on /\ ~usb.hs_on /\ usb.xport = "NONE" /\ ~usb.configured
  BY DEF Init, Usb
<1>2. /\ sup \in Sup /\ sup.phase = "WAIT"
      /\ ~sup.ss_dead_seen /\ ~sup.ss_bounced /\ ~sup.hs_idle_seen
  BY DEF Init, Sup
<1>3. age \in [sub : Nat, attach : Nat, bounce : Nat, probe : Nat]
  BY DEF Init
<1> QED BY <1>1, <1>2, <1>3 DEF Init, LInv, LTypeOK, OneController, SessionLives, HostRemembered

(* LInv is inductive. *)
LEMMA LInvStep == LInv /\ [Next]_vars => LInv'
<1> SUFFICES ASSUME LInv, [Next]_vars PROVE LInv'
  OBVIOUS
<1>1. CASE Poll
  <2>1. CASE CheckWait \/ KeepTraining
    BY <2>1 DEF CheckWait, KeepTraining, NoRestart, history, LInv, LTypeOK, OneController, SessionLives,
                HostRemembered
  <2> QED BY <1>1, <2>1, AdoptInv, WaitStays, FallBackInv, ActivePolls DEF Poll
<1>2. CASE Replug
  BY <1>2, WaitEntered DEF Replug, history
<1>3. CASE CommandStarts \/ CommandEnds \/ CommandAborted
  <2>1. /\ usb' = usb \/ usb' = [usb EXCEPT !.aborted = FALSE]
        /\ UNCHANGED <<sup, age, host, link, idle, adopted, enumerated>>
        /\ loop' \in {"poll", "command"}
    BY <1>3 DEF CommandStarts, CommandEnds, CommandAborted, wires, history
  <2>2. /\ usb' \in Usb /\ usb'.ss_on = usb.ss_on /\ usb'.hs_on = usb.hs_on
        /\ usb'.xport = usb.xport /\ usb'.configured = usb.configured
    BY <2>1 DEF LInv, LTypeOK, Usb
  <2> QED BY <2>1, <2>2 DEF LInv, LTypeOK, OneController, SessionLives, HostRemembered
<1>4. CASE Handler
  BY <1>4, HandlerInv
<1>5. CASE PlugIn \/ Unplug \/ BusIdles \/ BusWakes
  <2>1. UNCHANGED <<usb, sup, age, loop, link>>
    BY <1>5 DEF PlugIn, Unplug, BusIdles, BusWakes
  <2>2. host' \in {"none", "ss", "hs"} /\ idle' \in BOOLEAN /\ adopted' \in BOOLEAN /\ enumerated' \in BOOLEAN
    BY <1>5 DEF PlugIn, Unplug, BusIdles, BusWakes, history, LInv, LTypeOK
  <2>3. adopted' => adopted /\ host' = host
    BY <1>5 DEF PlugIn, Unplug, BusIdles, BusWakes, history, LInv, HostRemembered
  <2> QED BY <2>1, <2>2, <2>3 DEF LInv, LTypeOK, OneController, SessionLives, HostRemembered
<1>6. CASE Tick
  <2>1. ASSUME NEW a \in Nat, NEW limit PROVE Later(a, limit) \in Nat
    BY DEF Later
  <2>2. age' \in [sub : Nat, attach : Nat, bounce : Nat, probe : Nat]
    BY <1>6, <2>1 DEF Tick, LInv, LTypeOK
  <2> QED BY <1>6, <2>2 DEF Tick, wires, history, LInv, LTypeOK, OneController, SessionLives, HostRemembered
<1>7. CASE UNCHANGED vars
  BY <1>7 DEF vars, wires, history, LInv, LTypeOK, OneController, SessionLives, HostRemembered
<1> QED BY <1>1, <1>2, <1>3, <1>4, <1>5, <1>6, <1>7 DEF Next

THEOREM LInvariance == Spec => []LInv
<1> QED BY LInvInit, LInvStep, PTL DEF Spec

(* Every reachable state is well typed, and no flag outlives the phase that *)
(* maintains it (enter(), usb_link_poll()).                                 *)
THEOREM TypesHold == Spec => []LTypeOK
<1>1. LInv => LTypeOK
  BY DEF LInv
<1> QED BY <1>1, LInvariance, PTL

(* For all durations, the two USB controllers are never on together and the *)
(* phase tells which one is (usb_reset_all, go_wait, go_hs).                *)
THEOREM ControllersExclusive == Spec => []OneController
<1>1. LInv => OneController
  BY DEF LInv
<1> QED BY <1>1, LInvariance, PTL

(* The transport the mass-storage core is told about is always the one of   *)
(* the controller that runs (USBSS_Device_Init, USBHS_Device_Init).         *)
THEOREM SessionsLive == Spec => []SessionLives
<1>1. LInv => SessionLives
  BY DEF LInv
<1> QED BY <1>1, LInvariance, PTL

(* A host the supervisor adopted at SuperSpeed never meets USB 2.0 while    *)
(* its cable stays (ss_host_known).                                         *)
THEOREM SuperSpeedKept == Spec => []KeepsSuperSpeed
<1>1. LInv => KeepsSuperSpeed
  BY DEF LInv, HostRemembered, KeepsSuperSpeed
<1> QED BY <1>1, LInvariance, PTL
=============================================================================
