--------------------------- MODULE LinkSupervisor ---------------------------
(***************************************************************************)
(* The USB link supervisor of v5f/usbss_device.c: one of two device        *)
(* controllers (SuperSpeed, USB 2.0) runs on the one connector, and the    *)
(* main loop decides which from what the interrupt handlers recorded and   *)
(* from the pull-downs a host puts on D+/D-.                               *)
(*                                                                         *)
(* Time passes in ticks. An age is the time since the code last stored     *)
(* systime_us() in a variable and stops counting once every comparison     *)
(* with it has the same outcome. The main loop is either polling or inside *)
(* a SCSI command, where usb_link_poll() is not called; between the check  *)
(* for an enumeration and the decision that follows it, interrupts occur.  *)
(***************************************************************************)
EXTENDS Integers

CONSTANTS         (* durations, in ticks *)
  HsFallback,     (* USB_HS_FALLBACK_MS: link never left RxDetect          *)
  SsRetry,        (* USB_SS_RETRY_MS: restart with nobody attached         *)
  TrainMax,       (* USB_SS_TRAIN_MAX_MS: trained, never enumerated        *)
  Reenum,         (* USB_SS_REENUM_MS: bounced, never configured again     *)
  SsLost,         (* USB_SS_LOST_MS: link dead                             *)
  HsDisc,         (* USB_HS_DISC_MS: bus idle                              *)
  ProbeValid      (* how long a reading of the pins is reused              *)

ASSUME TimeAssumption ==
  /\ {HsFallback, SsRetry, TrainMax, Reenum, SsLost, HsDisc, ProbeValid} \subseteq Nat \ {0}

VARIABLES
  usb,      (* the controllers and the session the handlers maintain       *)
  sup,      (* the supervisor's static variables                           *)
  age,      (* time since sub_us, attach_us, bounce_us, probe_us           *)
  loop,     (* main loop: polling, between check and decision, in a command *)
  host,     (* what is at the other end of the cable                       *)
  link,     (* SuperSpeed link state                                       *)
  idle,     (* USB 2.0 bus suspended                                       *)
  adopted,  (* history: the supervisor saw this host enumerate SuperSpeed  *)
  enumerated (* history: this host configured the device at SuperSpeed     *)

wires   == <<host, link, idle>>
history == <<adopted, enumerated>>
vars    == <<usb, sup, age, loop, wires, history>>

(* aborted: reset_seq has moved since the command in progress started.     *)
Usb == [ss_on : BOOLEAN, hs_on : BOOLEAN, xport : {"NONE", "SS", "HS"}, configured : BOOLEAN,
        cfg_evt : BOOLEAN, progress : BOOLEAN, aborted : BOOLEAN]
Sup == [phase : {"WAIT", "SS_ACTIVE", "HS_ACTIVE"}, host_present : BOOLEAN, ss_host_known : BOOLEAN,
        ss_dead_seen : BOOLEAN, hs_idle_seen : BOOLEAN, ss_bounced : BOOLEAN,
        probe_done : BOOLEAN, probe_val : BOOLEAN]

---------------------------------------------------------------------------
(* The two controllers. *)

EvtReset(u)  == [u EXCEPT !.aborted = TRUE]
EndpInitKeeps(u)  == EvtReset(u)                           \* mutant of EndpInit
EndpInit(u)  == EvtReset([u EXCEPT !.configured = FALSE])
Closed(u, x) == IF u.xport = x THEN EndpInit([u EXCEPT !.xport = "NONE"]) ELSE u

SsStop(u)  == IF u.ss_on THEN [Closed(u, "SS") EXCEPT !.ss_on = FALSE] ELSE u
HsStop(u)  == IF u.hs_on THEN [Closed(u, "HS") EXCEPT !.hs_on = FALSE] ELSE u
SsStart(u) == [EndpInit(u) EXCEPT !.progress = FALSE, !.cfg_evt = FALSE, !.ss_on = TRUE]
HsStart(u) == IF u.hs_on THEN u ELSE [EndpInit(u) EXCEPT !.hs_on = TRUE]

ResetSsOnly(u) == EvtReset([SsStop(u) EXCEPT !.configured = FALSE, !.xport = "NONE"])  \* mutant of ResetAll
ResetAll(u)    == EvtReset([HsStop(SsStop(u)) EXCEPT !.configured = FALSE, !.xport = "NONE"])

(* A controller that starts begins in RxDetect, or with a bus not idle yet. *)
Controllers(u) ==
  /\ usb' = u
  /\ link' = "rxdet"
  /\ idle' = FALSE

NoRestart == UNCHANGED <<usb, link, idle>>

EnteredStale(p) ==                                         \* mutant of Entered
  [sup EXCEPT !.phase = p, !.ss_dead_seen = FALSE, !.hs_idle_seen = FALSE, !.ss_bounced = FALSE,
              !.probe_done = FALSE]
Entered(p) ==
  [sup EXCEPT !.phase = p, !.ss_dead_seen = FALSE, !.hs_idle_seen = FALSE, !.ss_bounced = FALSE,
              !.host_present = FALSE, !.probe_done = FALSE]
Since == [age EXCEPT !.sub = 0]

GoWait ==
  /\ Controllers(SsStart(ResetAll(usb)))
  /\ sup' = Entered("WAIT")
  /\ age' = Since

GoHs ==
  /\ Controllers(HsStart(ResetAll(usb)))
  /\ sup' = Entered("HS_ACTIVE")
  /\ age' = Since

Init ==
  /\ host \in {"none", "ss", "hs"} /\ link = "rxdet" /\ idle = FALSE
  /\ usb = [ss_on |-> TRUE, hs_on |-> FALSE, xport |-> "NONE", configured |-> FALSE,
            cfg_evt |-> FALSE, progress |-> FALSE, aborted |-> TRUE]
  /\ sup = [phase |-> "WAIT", host_present |-> FALSE, ss_host_known |-> FALSE, ss_dead_seen |-> FALSE,
            hs_idle_seen |-> FALSE, ss_bounced |-> FALSE, probe_done |-> FALSE, probe_val |-> FALSE]
  /\ age = [sub |-> 0, attach |-> 0, bounce |-> 0, probe |-> 0]
  /\ loop = "poll"
  /\ adopted = FALSE /\ enumerated = FALSE

---------------------------------------------------------------------------
(* usb2_host_attached: a host holds D+/D- low; a fresh reading is reused.  *)
Cached   == sup.probe_done /\ age.probe < ProbeValid
Attached == IF Cached THEN sup.probe_val ELSE host # "none"

ProbedSup == IF Cached THEN sup ELSE [sup EXCEPT !.probe_done = TRUE, !.probe_val = Attached]
ProbedAge == IF Cached THEN age ELSE [age EXCEPT !.probe = 0]

(* usb_link_poll in WAIT: an enumeration is adopted before anything else... *)
Enumerated == usb.xport = "SS" \/ usb.cfg_evt

Adopt ==
  /\ loop = "poll" /\ sup.phase = "WAIT" /\ Enumerated
  /\ sup' = [Entered("SS_ACTIVE") EXCEPT !.ss_host_known = TRUE]
  /\ age' = Since
  /\ adopted' = (host = "ss" /\ enumerated)
  /\ NoRestart /\ UNCHANGED <<loop, host, enumerated>>

CheckWait ==
  /\ loop = "poll" /\ sup.phase = "WAIT" /\ ~Enumerated
  /\ loop' = "decide"
  /\ NoRestart /\ UNCHANGED <<sup, age, host, history>>

(* ...and what is decided otherwise does not look at it again.              *)
NobodyHome ==
  /\ loop = "decide" /\ ~sup.host_present /\ ~Attached
  /\ sup' = [ProbedSup EXCEPT !.ss_host_known = FALSE]
  /\ IF age.sub >= SsRetry
       THEN Controllers(SsStart(ResetAll(usb))) /\ age' = [ProbedAge EXCEPT !.sub = 0]
       ELSE NoRestart /\ age' = ProbedAge
  /\ loop' = "poll" /\ UNCHANGED <<host, history>>

HostAttached ==
  /\ loop = "decide" /\ ~sup.host_present /\ Attached
  /\ sup' = [ProbedSup EXCEPT !.host_present = TRUE]
  /\ age' = [ProbedAge EXCEPT !.attach = 0]
  /\ Controllers(SsStart(ResetAll(usb)))
  /\ loop' = "poll" /\ UNCHANGED <<host, history>>

TrainedOnly == ~usb.progress /\ age.attach >= HsFallback   \* mutant of TrainingOver
TrainingOver == age.attach >= (IF usb.progress THEN TrainMax ELSE HsFallback)

KeepTraining ==
  /\ loop = "decide" /\ sup.host_present /\ ~TrainingOver
  /\ loop' = "poll" /\ NoRestart /\ UNCHANGED <<sup, age, host, history>>

NeverKnown == FALSE                                        \* mutant of KnownHost
KnownHost  == sup.ss_host_known

KeepSuperSpeed ==
  /\ loop = "decide" /\ sup.host_present /\ TrainingOver /\ KnownHost
  /\ Controllers(SsStart(ResetAll(usb)))
  /\ age' = [age EXCEPT !.attach = 0]
  /\ loop' = "poll" /\ UNCHANGED <<sup, host, history>>

FallBack ==
  /\ loop = "decide" /\ sup.host_present /\ TrainingOver /\ ~KnownHost
  /\ GoHs
  /\ loop' = "poll" /\ UNCHANGED <<host, history>>

(* SS_ACTIVE *)
LinkDead == ~usb.ss_on \/ link \in {"rxdet", "inactive"}

LinkGone ==
  /\ loop = "poll" /\ sup.phase = "SS_ACTIVE" /\ LinkDead
  /\ IF sup.ss_dead_seen
       THEN /\ age.sub >= SsLost
            /\ GoWait
       ELSE /\ sup' = [sup EXCEPT !.ss_dead_seen = TRUE, !.ss_bounced = TRUE]
            /\ age' = [age EXCEPT !.sub = 0, !.bounce = IF sup.ss_bounced THEN @ ELSE 0]
            /\ NoRestart
  /\ UNCHANGED <<loop, host, history>>

ForgetsBounce == FALSE                                     \* mutant of GivesUpBounce
GivesUpBounce == sup.ss_bounced /\ ~usb.configured /\ age.bounce >= Reenum

LinkAlive ==
  /\ loop = "poll" /\ sup.phase = "SS_ACTIVE" /\ ~LinkDead
  /\ IF GivesUpBounce THEN GoWait
     ELSE /\ sup' = [sup EXCEPT !.ss_dead_seen = FALSE, !.ss_bounced = sup.ss_bounced /\ ~usb.configured]
          /\ NoRestart /\ UNCHANGED age
  /\ UNCHANGED <<loop, host, history>>

(* HS_ACTIVE: an idle bus has the pins read with the controller off. With a *)
(* host there it goes on again, at once or after the re-plug delay that a   *)
(* host which never reset us gets.                                          *)
BusIdle ==
  /\ loop = "poll" /\ sup.phase = "HS_ACTIVE" /\ usb.hs_on /\ idle
  /\ \/ /\ ~sup.hs_idle_seen
        /\ sup' = [sup EXCEPT !.hs_idle_seen = TRUE]
        /\ age' = Since /\ NoRestart
     \/ /\ sup.hs_idle_seen /\ age.sub >= HsDisc /\ Attached
        /\ Controllers(HsStart(HsStop(usb)))
        /\ sup' = [ProbedSup EXCEPT !.hs_idle_seen = FALSE]
        /\ age' = [ProbedAge EXCEPT !.sub = 0]
     \/ /\ sup.hs_idle_seen /\ age.sub >= HsDisc /\ ~Attached
        /\ GoWait
  /\ UNCHANGED <<loop, host, history>>

BusActive ==
  /\ loop = "poll" /\ sup.phase = "HS_ACTIVE" /\ ~(usb.hs_on /\ idle)
  /\ sup' = [sup EXCEPT !.hs_idle_seen = FALSE]
  /\ NoRestart /\ UNCHANGED <<age, loop, host, history>>

Poll ==
  \/ Adopt \/ CheckWait \/ NobodyHome \/ HostAttached \/ KeepTraining \/ KeepSuperSpeed \/ FallBack
  \/ LinkGone \/ LinkAlive \/ BusIdle \/ BusActive

(* usb_device_replug, from the console or after an unnoticed image swap.    *)
Replug == loop = "poll" /\ GoWait /\ UNCHANGED <<loop, host, history>>

(* msc_task: a command starts when its CBW has come and ends when the host  *)
(* has taken the CSW, or when a reset of the session is noticed.            *)
HostTalks == host # "none" /\ (usb.xport = "SS" => link = "up") /\ (usb.xport = "HS" => ~idle)

CommandStarts ==
  /\ loop = "poll" /\ usb.configured /\ HostTalks
  /\ loop' = "command"
  /\ usb' = [usb EXCEPT !.aborted = FALSE]
  /\ UNCHANGED <<sup, age, wires, history>>

CommandEnds ==
  /\ loop = "command" /\ ~usb.aborted /\ HostTalks
  /\ loop' = "poll"
  /\ UNCHANGED <<usb, sup, age, wires, history>>

CommandAborted ==
  /\ loop = "command" /\ usb.aborted
  /\ loop' = "poll"
  /\ UNCHANGED <<usb, sup, age, wires, history>>

---------------------------------------------------------------------------
(* The interrupt handlers, with the events that raise them. *)

Recorded == UNCHANGED <<sup, age, loop, host>>

LinkTrains ==
  /\ usb.ss_on /\ host = "ss" /\ link = "rxdet"
  /\ link' = "training"
  /\ usb' = [usb EXCEPT !.progress = TRUE]
  /\ Recorded /\ UNCHANGED <<idle, history>>

(* LMP port configuration: SuperSpeed won, USBHS goes off if it is on.      *)
LinkUp ==
  /\ usb.ss_on /\ host = "ss" /\ link = "training"
  /\ link' = "up"
  /\ usb' = [HsStop(usb) EXCEPT !.progress = TRUE]
  /\ Recorded /\ UNCHANGED <<idle, history>>

LinkDrops ==
  /\ usb.ss_on /\ link \in {"training", "up", "inactive"}
  /\ link' \in {"rxdet", "inactive"} \ {link}
  /\ usb' = [usb EXCEPT !.progress = @ \/ link' = "inactive"]
  /\ Recorded /\ UNCHANGED <<idle, history>>

(* Hot reset leaves the link up, warm reset sends it back to RxDetect.      *)
LinkReset ==
  /\ usb.ss_on /\ host = "ss"
  /\ \/ link = "up" /\ UNCHANGED link
     \/ link # "rxdet" /\ link' = "rxdet"
  /\ usb' = EndpInit(usb)
  /\ Recorded /\ UNCHANGED <<idle, history>>

SetConfigurationSs(value) ==
  /\ usb.ss_on /\ host = "ss" /\ link = "up"
  /\ usb' = EvtReset([usb EXCEPT !.xport = "SS", !.configured = value,
                                 !.cfg_evt = @ \/ value])
  /\ enumerated' = (enumerated \/ value)
  /\ Recorded /\ UNCHANGED <<link, idle, adopted>>

BusReset ==
  /\ usb.hs_on /\ host # "none"
  /\ usb' = [(IF usb.xport = "SS" THEN usb ELSE EndpInit(usb)) EXCEPT
               !.xport = IF @ = "HS" THEN "NONE" ELSE @]
  /\ idle' = FALSE
  /\ Recorded /\ UNCHANGED <<link, history>>

SetConfigurationHs(value) ==
  /\ usb.hs_on /\ host # "none" /\ ~idle
  /\ usb' = EvtReset([usb EXCEPT !.xport = "HS", !.configured = value])
  /\ Recorded /\ UNCHANGED <<link, idle, history>>

Handler ==
  \/ LinkTrains \/ LinkUp \/ LinkDrops \/ LinkReset \/ BusReset
  \/ \E value \in BOOLEAN : SetConfigurationSs(value) \/ SetConfigurationHs(value)

---------------------------------------------------------------------------
(* The cable, the bus and the clock. *)

PlugIn ==
  /\ host = "none" /\ host' \in {"ss", "hs"}
  /\ UNCHANGED <<usb, sup, age, loop, link, idle, history>>

Unplug ==
  /\ host # "none" /\ host' = "none"
  /\ adopted' = FALSE /\ enumerated' = FALSE
  /\ UNCHANGED <<usb, sup, age, loop, link, idle>>

BusIdles ==
  /\ usb.hs_on /\ ~idle /\ idle' = TRUE
  /\ UNCHANGED <<usb, sup, age, loop, host, link, history>>

BusWakes ==
  /\ usb.hs_on /\ idle /\ host # "none" /\ idle' = FALSE
  /\ UNCHANGED <<usb, sup, age, loop, host, link, history>>

Later(a, limit) == IF a < limit THEN a + 1 ELSE a
Most(S) == CHOOSE m \in S : \A n \in S : n <= m

Tick ==
  /\ age' = [sub    |-> Later(age.sub, Most({SsRetry, SsLost, HsDisc})),
             attach |-> Later(age.attach, Most({HsFallback, TrainMax})),
             bounce |-> Later(age.bounce, Reenum),
             probe  |-> Later(age.probe, ProbeValid)]
  /\ UNCHANGED <<usb, sup, loop, wires, history>>

Next ==
  \/ Poll \/ Replug \/ CommandStarts \/ CommandEnds \/ CommandAborted
  \/ Handler \/ PlugIn \/ Unplug \/ BusIdles \/ BusWakes \/ Tick

Spec == Init /\ [][Next]_vars

(* The idle loop polls before it takes a command (strong: a host could only *)
(* prevent it by completing every CBW within the few instructions between   *)
(* the arming of its buffer and the first test), every wait notices a moved *)
(* reset_seq, time passes, and a line nobody drives is seen dead or idle in *)
(* the end. Nothing is assumed of a host: it may be silent, reboot, or stop *)
(* inside a command.                                                        *)
Fairness ==
  /\ SF_vars(Poll) /\ WF_vars(CommandAborted) /\ WF_vars(Tick)
  /\ WF_vars(LinkDrops /\ host # "ss" /\ link # "inactive") /\ WF_vars(BusIdles /\ host = "none")
FairSpec == Spec /\ Fairness

---------------------------------------------------------------------------
(* The types; and each flag is raised only in the phase that maintains it, *)
(* so that no phase starts with what another one had seen.                  *)
LTypeOK ==
  /\ usb \in Usb /\ sup \in Sup
  /\ age \in [sub : Nat, attach : Nat, bounce : Nat, probe : Nat]
  /\ loop \in {"poll", "decide", "command"} /\ host \in {"none", "ss", "hs"}
  /\ link \in {"rxdet", "training", "up", "inactive"} /\ idle \in BOOLEAN
  /\ adopted \in BOOLEAN /\ enumerated \in BOOLEAN
  /\ (sup.host_present \/ loop = "decide") => sup.phase = "WAIT"
  /\ (sup.ss_dead_seen \/ sup.ss_bounced) => sup.phase = "SS_ACTIVE"
  /\ sup.hs_idle_seen => sup.phase = "HS_ACTIVE"

(* The two controllers share one PHY: never both on, whatever order resets, *)
(* fallbacks and re-plugs come in, and the phase tells which one runs.      *)
OneController ==
  /\ ~(usb.ss_on /\ usb.hs_on)
  /\ usb.ss_on <=> sup.phase \in {"WAIT", "SS_ACTIVE"}
  /\ usb.hs_on <=> sup.phase = "HS_ACTIVE"

(* The session the mass-storage core sees belongs to the controller that    *)
(* runs: a transport of the other one, or a configuration without any,      *)
(* would send commands and data nowhere.                                    *)
SessionLives ==
  /\ usb.xport = "SS" => usb.ss_on
  /\ usb.xport = "HS" => usb.hs_on
  /\ usb.configured => usb.xport # "NONE"

(* A host the supervisor has seen at SuperSpeed, and whose cable never      *)
(* left, is never given USB 2.0: not when it reboots, resets its controller, *)
(* is silent longer than any training window, or the board re-plugs itself. *)
KeepsSuperSpeed == adopted => sup.phase # "HS_ACTIVE"

(* With the cable out and no command in progress the board is back in its   *)
(* boot state for good, from every phase and with every timer running.      *)
UnpluggedReturns ==
  <>[](host = "none" /\ loop # "command") => <>[](sup.phase = "WAIT" /\ ~usb.configured)

(* A host that stays, not known to speak SuperSpeed, is not left without a  *)
(* controller to talk to: either it enumerates or USB 2.0 is tried. (Unless *)
(* the board re-plugs itself for ever, or the host falls silent in the      *)
(* middle of a command.)                                                    *)
Connects ==
  \/ []<>(sup.phase # "WAIT")
  \/ []<>(host = "none" \/ sup.ss_host_known)
  \/ <>[](loop = "command")
  \/ []<><<Replug>>_vars

(* A link that bounced is configured again or taken down for a fresh        *)
(* attempt: no silent, half-dead device, however the link flaps.            *)
BounceResolved ==
  (sup.phase = "SS_ACTIVE" /\ sup.ss_bounced) ~> (~sup.ss_bounced \/ loop = "command")

(* README.md:272 "Every disconnect hard-resets both USB blocks and starts   *)
(* over from the SuperSpeed attempt".                                       *)
DisconnectResets == <>[](host = "none") => []<>(sup.phase = "WAIT")

(* README.md:279 "The USB 2.0 fallback is only for a host that never        *)
(* trained SuperSpeed since the cable was plugged in": such a host gets it. *)
Usb2HostServed ==
  <>[](host = "hs" /\ loop # "command") => []<>(sup.phase = "HS_ACTIVE") \/ []<><<Replug>>_vars
=============================================================================
