------------------------------- MODULE SdInit -------------------------------
(***************************************************************************)
(* Initialisation of the SD card (sd_sdio.c): identification at either     *)
(* signalling voltage, the UHS-I voltage switch, the speed mode, and the   *)
(* clock divider that retries, data errors and earlier sessions leave.     *)
(*                                                                         *)
(* The slot, the console and bad luck act between any two steps. A burst   *)
(* of noise is anything that makes a card that could answer not do so in   *)
(* time or not intelligibly; bursts are bounded so that liveness can ask   *)
(* for what happens after the last one.                                    *)
(***************************************************************************)
EXTENDS Integers

CONSTANTS
  Cards,      (* cards, by serial number                                   *)
  Kind,       (* Kind[c]: "uhs" (SDR50), "hs" (High Speed) or "old" (v1)   *)
  NoCard,
  MaxNoise,   (* bound: bursts of noise                                    *)
  MaxEvents   (* bound: cards inserted or pulled, modes toggled            *)

ASSUME IAssumption ==
  /\ Kind \in [Cards -> {"uhs", "hs", "old"}] /\ NoCard \notin Cards
  /\ MaxNoise \in Nat /\ MaxEvents \in Nat

(* Dividers: the bus runs at HCLK / (div + 2), HCLK being 200 MHz.          *)
Slow == 6                       (* clkdiv_ds: 25 MHz                       *)
Mid  == 2                       (* 50 MHz: SDR25, and SD_CLKDIV_3V3_SAFE   *)
Full == 0                       (* SD_CLKDIV_HIGHSPEED, also at 3.3 V      *)
Retries == 3                    (* sd_cfg.retries                          *)
NocardRetries == 2              (* SD_NOCARD_RETRIES                       *)

VARIABLES
  card,     (* the slot: card, signalling level, state, speed function     *)
  bus18,    (* level of the host's pins                                    *)
  clk,      (* cur_clkdiv                                                  *)
  sd,       (* sd_card: present, signal_1v8, high_speed, serial            *)
  cfg,      (* sd_cfg: try_uhs, clkdiv_hs                                  *)
  learned,  (* sd_learned_div, sd_learned_serial                           *)
  at,       (* place in sd_init or in a transfer, loop counters, result    *)
  pend,     (* a re-initialisation waits in the console                    *)
  need,     (* history: slowest divider the card fell back to since it came *)
  noise, events

host == <<bus18, clk, sd, cfg, learned, at>>
vars == <<card, host, pend, need, noise, events>>

Codes == {"OK", "NOCARD", "TIMEOUT", "NEED_POWER_CYCLE"}
Place == {"idle", "once", "probe18", "ident33", "switch", "reident", "select", "speed", "final", "returned", "settle", "xfer"}
Empty == [id |-> NoCard, lvl |-> "3v3", st |-> "idle", fn |-> 0]
Fresh(c) == [Empty EXCEPT !.id = c]

(* Functions of group 1 a card has: 1 High Speed or SDR25, 2 SDR50.        *)
Functions(id) == CASE Kind[id] = "uhs" -> {1, 2} [] Kind[id] = "hs" -> {1} [] OTHER -> {}
(* Smallest divider within the limit of a speed mode: 25, 50, 100 MHz.      *)
Limit == [f \in 0..2 |-> CASE f = 0 -> Slow [] f = 1 -> Mid [] OTHER -> Full]

Init ==
  /\ card \in {Empty} \union {Fresh(c) : c \in Cards}
  /\ bus18 = FALSE /\ clk = Slow
  /\ sd = [present |-> FALSE, signal18 |-> FALSE, hs |-> FALSE, serial |-> NoCard]
  /\ cfg = [tryUhs |-> FALSE, clkHs |-> Full]
  /\ learned = [div |-> 0, serial |-> NoCard]
  /\ at = [pc |-> "once", tries |-> 0, steps |-> 0, att |-> 0, err |-> "OK"]
  /\ pend = FALSE /\ need = 0 /\ noise = 0 /\ events = 0

Goto(pc) == at' = [at EXCEPT !.pc = pc]
Return(e) == at' = [at EXCEPT !.pc = "returned", !.err = e]

(* A card hears the host only at its own level; between the two levels of  *)
(* a voltage switch that went wrong it hears nothing.                      *)
Hears == card.id # NoCard /\ card.lvl = IF bus18 THEN "1v8" ELSE "3v3"
Ready == Hears /\ card.st = "ready"
Talks == Hears /\ card.st = "tran"
Quiet == UNCHANGED noise
Noise == noise < MaxNoise /\ noise' = noise + 1

(* sd_card.signal_1v8 and sd_card.present as the driver sets them.         *)
Unsignalled == sd                                           \* mutant of Signalled
Signalled == [sd EXCEPT !.signal18 = TRUE]
StillThere == sd                                            \* mutant of Removed
Removed == [sd EXCEPT !.present = FALSE]

-----------------------------------------------------------------------------
(* sd_init_once: the pins at 1.8 V when that mode is on.                    *)
Once ==
  /\ at.pc = "once"
  /\ sd' = [present |-> FALSE, signal18 |-> FALSE, hs |-> FALSE, serial |-> NoCard]
  /\ bus18' = cfg.tryUhs
  /\ Goto(IF cfg.tryUhs THEN "probe18" ELSE "ident33")
  /\ UNCHANGED <<card, clk, cfg, learned, pend, need, noise, events>>

(* sd_ident: CMD0 takes a card that hears it back to the idle state.       *)
Ident(r) ==
  /\ clk' = 255
  /\ card' = IF Hears THEN [card EXCEPT !.st = IF r = "OK" THEN "ready" ELSE "idle", !.fn = 0] ELSE card
  /\ \/ r = (IF Hears THEN "OK" ELSE "NOCARD") /\ Quiet
     \/ r # "OK" /\ Hears /\ Noise

(* S18A: offered by a UHS card that is still at 3.3 V, when asked.          *)
Offers == card.lvl = "3v3" /\ Kind[card.id] = "uhs"

Probe18 ==
  /\ at.pc = "probe18"
  /\ \E r \in {"OK", "NOCARD", "TIMEOUT"} :
       /\ Ident(r)
       /\ IF r = "OK" /\ ~Offers
            THEN sd' = Signalled /\ bus18' = bus18 /\ Goto("select")
            ELSE sd' = sd /\ bus18' = FALSE /\ Goto("ident33")
  /\ UNCHANGED <<cfg, learned, pend, need, events>>

Ident33 ==
  /\ at.pc = "ident33"
  /\ \E r \in {"OK", "NOCARD", "TIMEOUT"} :
       /\ Ident(r)
       /\ IF r # "OK" THEN Return(r) ELSE Goto(IF cfg.tryUhs /\ Offers THEN "switch" ELSE "select")
  /\ UNCHANGED <<bus18, sd, cfg, learned, pend, need, events>>

(* sd_voltage_switch. A card that did not start it, or whose acceptance    *)
(* was lost, leaves the host at 3.3 V; one that does not raise DAT0 in     *)
(* time has switched all the same or is stuck.                             *)
SwitchOk ==
  /\ at.pc = "switch" /\ Ready
  /\ card' = [card EXCEPT !.lvl = "1v8"] /\ bus18' = TRUE
  /\ sd' = Signalled
  /\ Goto("select") /\ Quiet
  /\ UNCHANGED <<clk, cfg, learned, pend, need, events>>

SwitchDeclined ==
  /\ at.pc = "switch"
  /\ \/ ~Ready /\ Quiet /\ card' = card
     \/ Ready /\ Noise /\ card' \in {card, [card EXCEPT !.lvl = "limbo"]}
  /\ Goto("select")
  /\ UNCHANGED <<bus18, clk, sd, cfg, learned, pend, need, events>>

SwitchStuck ==
  /\ at.pc = "switch" /\ Ready /\ Noise
  /\ \E l \in {"1v8", "limbo"} : card' = [card EXCEPT !.lvl = l]
  /\ bus18' = TRUE /\ Goto("reident")
  /\ UNCHANGED <<clk, sd, cfg, learned, pend, need, events>>

(* "it may have switched without signalling: re-identify at 1.8 V".        *)
Reident ==
  /\ at.pc = "reident"
  /\ \E r \in {"OK", "NOCARD", "TIMEOUT"} :
       /\ Ident(r)
       /\ IF r = "OK" THEN sd' = Signalled /\ Goto("select")
                      ELSE sd' = sd /\ Return("NEED_POWER_CYCLE")
  /\ UNCHANGED <<bus18, cfg, learned, pend, need, events>>

(* CMD2, CMD3, CMD9, CMD7, ACMD6, CMD16.                                    *)
Select ==
  /\ at.pc = "select"
  /\ \/ /\ Ready /\ Quiet
        /\ card' = [card EXCEPT !.st = "tran"]
        /\ sd' = [sd EXCEPT !.serial = card.id]
        /\ clk' = Slow /\ Goto("speed")
     \/ /\ IF Ready THEN Noise ELSE Quiet
        /\ Return("TIMEOUT") /\ UNCHANGED <<card, sd, clk>>
  /\ UNCHANGED <<bus18, cfg, learned, pend, need, events>>

(* sd_switch_function(f): a failure may come after the card has switched.  *)
CanSwitch(f) == Talks /\ f \in Functions(card.id)
Switched(f) == [card EXCEPT !.fn = f]
MaySwitch(f) == IF CanSwitch(f) THEN {card, Switched(f)} ELSE {card}

(* Signalling, and the divider each speed mode gets.                       *)
Sdr50 ==
  /\ at.pc = "speed" /\ sd.signal18 /\ CanSwitch(2)
  /\ card' = Switched(2) /\ clk' = cfg.clkHs
  /\ sd' = [sd EXCEPT !.hs = TRUE] /\ Quiet /\ Goto("final")
  /\ UNCHANGED <<bus18, cfg, learned, pend, need, events>>

Sdr25 ==
  /\ at.pc = "speed" /\ sd.signal18 /\ CanSwitch(1)
  /\ IF CanSwitch(2) THEN Noise ELSE Quiet
  /\ card' = Switched(1) /\ clk' = Mid
  /\ sd' = [sd EXCEPT !.hs = TRUE] /\ Goto("final")
  /\ UNCHANGED <<bus18, cfg, learned, pend, need, events>>

HighSpeed ==
  /\ at.pc = "speed" /\ ~sd.signal18 /\ CanSwitch(1)
  /\ card' = Switched(1) /\ clk' = Full
  /\ sd' = [sd EXCEPT !.hs = TRUE] /\ Quiet /\ Goto("final")
  /\ UNCHANGED <<bus18, cfg, learned, pend, need, events>>

DefaultSpeed ==
  /\ at.pc = "speed"
  /\ IF CanSwitch(1) THEN Noise ELSE Quiet
  /\ card' \in MaySwitch(1) \union (IF sd.signal18 THEN MaySwitch(2) ELSE {})
  /\ clk' = Slow /\ Goto("final")
  /\ UNCHANGED <<bus18, sd, cfg, learned, pend, need, events>>

(* sd_wait_transfer_state, the last step of sd_init_once.                  *)
Final ==
  /\ at.pc = "final"
  /\ \/ Talks /\ Quiet /\ sd' = [sd EXCEPT !.present = TRUE] /\ Return("OK")
     \/ (IF Talks THEN Noise ELSE Quiet) /\ sd' = sd /\ Return("TIMEOUT")
  /\ UNCHANGED <<card, bus18, clk, cfg, learned, pend, need, events>>

-----------------------------------------------------------------------------
(* sd_init: what it does with the result of sd_init_once.                  *)
Silent == at.err = "NOCARD" /\ at.steps = 0 /\ at.tries < NocardRetries
Double(n) == IF n = 0 THEN 1 ELSE n * 2
Lower == at.err = "TIMEOUT" /\ at.steps < 3 /\ Double(cfg.clkHs) <= 8

RetrySilent ==
  /\ at.pc = "returned" /\ Silent
  /\ at' = [at EXCEPT !.pc = "once", !.tries = @ + 1]
  /\ UNCHANGED <<card, bus18, clk, sd, cfg, learned, pend, need, noise, events>>

RetryLower ==
  /\ at.pc = "returned" /\ Lower
  /\ cfg' = [cfg EXCEPT !.clkHs = Double(@)]
  /\ at' = [at EXCEPT !.pc = "once", !.steps = @ + 1]
  /\ UNCHANGED <<card, bus18, clk, sd, learned, pend, need, noise, events>>

InitDone ==
  /\ at.pc = "returned" /\ ~Silent /\ ~Lower
  /\ Goto(IF at.err = "OK" THEN "settle" ELSE "idle")
  /\ UNCHANGED <<card, bus18, clk, sd, cfg, learned, pend, need, noise, events>>

(* The divider an initialised card ends with: slower at 3.3 V, and no      *)
(* faster than what the same card has needed before. Each of the two       *)
(* corrections follows a transfer, which finds a card that is gone.        *)
Remembered == IF sd.serial = learned.serial THEN learned.div ELSE 0
Unsafe == clk                                               \* mutant of Safe
Safe == IF ~sd.signal18 /\ sd.hs /\ clk < Mid THEN Mid ELSE clk
SafeOnly == Safe                                            \* mutant of Settled
Settled == IF Remembered > Safe THEN Remembered ELSE Safe

Settle ==
  /\ at.pc = "settle"
  /\ learned' = [learned EXCEPT !.div = Remembered]
  /\ clk' = Settled
  /\ \/ (Settled = clk \/ Talks) /\ Quiet /\ sd' = sd
     \/ Settled # clk /\ (IF Talks THEN Noise ELSE Quiet) /\ sd' = Removed
  /\ Goto("idle")
  /\ UNCHANGED <<card, bus18, cfg, pend, need, events>>

-----------------------------------------------------------------------------
(* sd_read_blocks and sd_write_blocks: attempts, and the slower bus.       *)
Start ==
  /\ at.pc = "idle" /\ sd.present
  /\ at' = [at EXCEPT !.pc = "xfer", !.att = 0]
  /\ UNCHANGED <<card, bus18, clk, sd, cfg, learned, pend, need, noise, events>>

Transferred ==
  /\ at.pc = "xfer" /\ Talks /\ Goto("idle")
  /\ UNCHANGED <<card, bus18, clk, sd, cfg, learned, pend, need, noise, events>>

(* A time-out: sd_fail asks whether the card still answers.                *)
TimedOut ==
  /\ at.pc = "xfer"
  /\ IF Talks THEN Noise /\ sd' \in {sd, Removed}
              ELSE Quiet /\ sd' = Removed
  /\ Goto("idle")
  /\ UNCHANGED <<card, bus18, clk, cfg, learned, pend, need, events>>

(* sd_fallback_clock.                                                      *)
Slower == IF clk < 2 THEN clk + 1 ELSE clk * 2
Fallback ==
  /\ clk' = Slower
  /\ learned' = IF Slower > learned.div THEN [div |-> Slower, serial |-> sd.serial] ELSE learned
  /\ need' = IF Slower > need THEN Slower ELSE need

Garbled ==
  /\ at.pc = "xfer" /\ Talks /\ Noise
  /\ \/ at.att = 0 /\ at' = [at EXCEPT !.att = 1] /\ UNCHANGED <<clk, learned, need>>
     \/ at.att \in 1..Retries-1 /\ Slower <= 16 /\ Fallback /\ at' = [at EXCEPT !.att = @ + 1]
     \/ (at.att = Retries \/ (at.att > 0 /\ Slower > 16)) /\ Goto("idle") /\ UNCHANGED <<clk, learned, need>>
  /\ UNCHANGED <<card, bus18, sd, cfg, pend, events>>

-----------------------------------------------------------------------------
(* sd_try_init, and the console's sd_reinit.                               *)
Begin == at' = [pc |-> "once", tries |-> 0, steps |-> 0, att |-> 0, err |-> "OK"]

Housekeeping ==
  /\ at.pc = "idle" /\ ~sd.present /\ Begin
  /\ UNCHANGED <<card, bus18, clk, sd, cfg, learned, pend, need, noise, events>>

Reinit ==
  /\ at.pc = "idle" /\ pend /\ Begin
  /\ pend' = FALSE
  /\ cfg' = [cfg EXCEPT !.clkHs = Full]
  /\ sd' = Removed
  /\ UNCHANGED <<card, bus18, clk, learned, need, noise, events>>

(* 'U' and the long key press.                                             *)
Toggle ==
  /\ at.pc = "idle" /\ events < MaxEvents /\ events' = events + 1
  /\ cfg' = [cfg EXCEPT !.tryUhs = ~@] /\ pend' = TRUE
  /\ UNCHANGED <<card, bus18, clk, sd, learned, at, need, noise>>

(* The slot: a card pulled or inserted at any step. A card loses its       *)
(* voltage, mode and state with its power.                                 *)
Slot ==
  /\ events < MaxEvents /\ events' = events + 1
  /\ card' \in {Empty} \union {Fresh(c) : c \in Cards} /\ need' = 0
  /\ UNCHANGED <<host, pend, noise>>

Initialise ==
  \/ Once \/ Probe18 \/ Ident33 \/ SwitchOk \/ SwitchDeclined \/ SwitchStuck \/ Reident \/ Select
  \/ Sdr50 \/ Sdr25 \/ HighSpeed \/ DefaultSpeed \/ Final \/ RetrySilent \/ RetryLower \/ InitDone \/ Settle
Transfer == Transferred \/ TimedOut \/ Garbled
Driver == Initialise \/ Transfer \/ Housekeeping \/ Reinit
Next == Driver \/ Start \/ Toggle \/ Slot

(* The main loop runs on: sd_housekeeping comes round again.               *)
FairSpec == Init /\ [][Next]_vars /\ WF_vars(Driver)

-----------------------------------------------------------------------------
InUse == at.pc = "idle" /\ sd.present /\ card.st = "tran"

(* The card the driver uses and the pins signal at one level, and the      *)
(* driver, which chooses the sampling edge by it, knows which: through     *)
(* failed, declined and stuck voltage switches (sd_init_once).             *)
SignalAgrees == InUse => bus18 = (card.lvl = "1v8") /\ sd.signal18 = bus18

(* The bus is never faster than the speed mode of the card in use, whether *)
(* the mode came from a switch that was taken for a failure or the divider *)
(* from the ladder, a fallback or an earlier session (sd_init).            *)
ClockWithinMode == InUse => clk >= Limit[card.fn]

(* A card never runs faster than the slowest divider it has needed since   *)
(* it was inserted, over any re-initialisation and change of mode          *)
(* ("The slowest divider this card has needed", sd_sdio.c:161).            *)
LearnedKept == InUse => clk >= need

(* When the noise and the events end, the card in the slot ends up in use, *)
(* unless only its power can bring it back: it is stuck in a voltage       *)
(* switch, or at 1.8 V while the mode is 3.3 V. A card exchanged while     *)
(* nobody reads stays unnoticed until the next transfer; transfers that go *)
(* on end up at a card that hears them (sd_init, sd_housekeeping, sd_fail). *)
NeedsPower == card.lvl = "limbo" \/ (card.lvl = "1v8" /\ ~cfg.tryUhs)
CardReady == /\ <>[](card.id = NoCard \/ NeedsPower \/ sd.present)
             /\ []<>(at.pc = "xfer") => <>[](sd.present /\ Hears)
=============================================================================
