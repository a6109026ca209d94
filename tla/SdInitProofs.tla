---------------------------- MODULE SdInitProofs ----------------------------
(***************************************************************************)
(* The safety of the card's initialisation for every set of cards and any  *)
(* amount of noise and events: types, one signalling level, a clock within *)
(* the speed mode, and a learned divider that is kept.                     *)
(***************************************************************************)
EXTENDS SdInit, TLAPS

Id == Cards \union {NoCard}

Level == {"3v3", "1v8", "limbo"}
State == {"idle", "ready", "tran"}
CardRec == [id : Id, lvl : Level, st : State, fn : 0..2]
SdRec   == [present : BOOLEAN, signal18 : BOOLEAN, hs : BOOLEAN, serial : Id]
AtRec   == [pc : Place, tries : 0..2, steps : 0..3, att : 0..3, err : Codes]

ITypeOK ==
  /\ card \in CardRec /\ sd \in SdRec /\ at \in AtRec
  /\ bus18 \in BOOLEAN /\ clk \in Nat
  /\ cfg \in [tryUhs : BOOLEAN, clkHs : Nat]
  /\ learned \in [div : Nat, serial : Id]
  /\ pend \in BOOLEAN /\ need \in Nat /\ noise \in Nat /\ events \in Nat

(* The driver has selected the card, or counts on it.                      *)
Live  == at.pc \in {"speed", "final"} \/ sd.present
InTran == Live /\ card.st = "tran"

(* sd.present is set by the last step of an initialisation, and nothing     *)
(* starts one while it is.                                                 *)
PresentOnlyAfter ==
  /\ sd.present => at.pc \in {"idle", "xfer", "settle"} \/ (at.pc = "returned" /\ at.err = "OK")
  /\ at.pc \in {"settle", "xfer"} \/ (at.pc = "returned" /\ at.err = "OK") => sd.present

(* What each place of the identification knows of the pins.                *)
PinsKnown ==
  /\ at.pc \in {"ident33", "switch"} => ~bus18 /\ ~sd.signal18
  /\ at.pc = "probe18" => bus18 /\ ~sd.signal18
  /\ at.pc = "reident" => bus18
  /\ at.pc = "select" \/ Live => sd.signal18 = bus18

(* A selected card signals at the level of the pins and is the one whose    *)
(* serial number was read.                                                 *)
CardMatches == InTran => card.lvl = (IF bus18 THEN "1v8" ELSE "3v3") /\ sd.serial = card.id

(* High Speed at 3.3 V runs too fast until the initialisation settles.     *)
WithinMode ==
  /\ at.pc = "speed" => clk = Slow
  /\ InTran => \/ clk >= Limit[card.fn]
               \/ at.pc \in {"final", "returned", "settle"} /\ ~sd.signal18 /\ sd.hs /\ card.fn = 1

(* What a card has needed is remembered under its serial number.           *)
NeedRemembered ==
  /\ need > 0 => learned.serial = card.id /\ learned.div >= need
  /\ Live /\ card.st # "tran" => need = 0
  /\ at.pc \in {"idle", "xfer"} /\ sd.present =>
       /\ learned.div = 0 \/ learned.serial = sd.serial
       /\ card.st = "tran" => clk >= need

IInv == ITypeOK /\ PresentOnlyAfter /\ PinsKnown /\ CardMatches /\ WithinMode /\ NeedRemembered

---------------------------------------------------------------------------
(* What the pieces the actions are built from do. *)
LEMMA GotoDoes ==
  ASSUME ITypeOK, NEW p \in Place, Goto(p)
  PROVE  at' \in AtRec /\ at'.pc = p /\ at'.err = at.err
<1>1. at \in AtRec
  BY DEF ITypeOK
<1> QED BY <1>1 DEF Goto, AtRec

LEMMA ReturnDoes ==
  ASSUME ITypeOK, NEW e \in Codes, Return(e)
  PROVE  at' \in AtRec /\ at'.pc = "returned" /\ at'.err = e
<1> DEFINE b == [at EXCEPT !.pc = "returned"]
<1>1. at \in AtRec
  BY DEF ITypeOK
<1>2. b \in AtRec /\ b.pc = "returned"
  BY <1>1 DEF AtRec, Place
<1>3. at' = [b EXCEPT !.err = e]
  BY DEF Return
<1> HIDE DEF b
<1> QED BY <1>2, <1>3 DEF AtRec

LEMMA StartDoes ==
  ASSUME ITypeOK, Start
  PROVE  at' \in AtRec /\ at'.pc = "xfer" /\ at'.err = at.err
<1> DEFINE b == [at EXCEPT !.pc = "xfer"]
<1>1. at \in AtRec
  BY DEF ITypeOK
<1>2. b \in AtRec /\ b.pc = "xfer" /\ b.err = at.err
  BY <1>1 DEF AtRec, Place
<1>3. at' = [b EXCEPT !.att = 0]
  BY DEF Start
<1> HIDE DEF b
<1> QED BY <1>2, <1>3 DEF AtRec

LEMMA RetryDoes ==
  ASSUME ITypeOK, RetrySilent \/ RetryLower
  PROVE  at' \in AtRec /\ at'.pc = "once" /\ at.pc = "returned" /\ at.err # "OK"
<1> DEFINE b == [at EXCEPT !.pc = "once"]
<1>1. at \in AtRec
  BY DEF ITypeOK
<1>2. b \in AtRec /\ b.pc = "once" /\ b.tries = at.tries /\ b.steps = at.steps
  BY <1>1 DEF AtRec, Place
<1>3. CASE RetrySilent
  <2>1. at.tries < 2 /\ at' = [b EXCEPT !.tries = at.tries + 1]
    BY <1>3 DEF RetrySilent, Silent, NocardRetries
  <2>2. at.tries + 1 \in 0..2
    BY <1>1, <2>1 DEF AtRec
  <2> HIDE DEF b
  <2>3. at' \in AtRec /\ at'.pc = "once"
    BY <1>2, <2>1, <2>2 DEF AtRec
  <2> QED BY <1>3, <2>3 DEF RetrySilent, Silent
<1>4. CASE RetryLower
  <2>1. at.steps < 3 /\ at' = [b EXCEPT !.steps = at.steps + 1]
    BY <1>4 DEF RetryLower, Lower
  <2>2. at.steps + 1 \in 0..3
    BY <1>1, <2>1 DEF AtRec
  <2> HIDE DEF b
  <2>3. at' \in AtRec /\ at'.pc = "once"
    BY <1>2, <2>1, <2>2 DEF AtRec
  <2> QED BY <1>4, <2>3 DEF RetryLower, Lower
<1> QED BY <1>3, <1>4

LEMMA BeginDoes ==
  ASSUME Begin
  PROVE  at' \in AtRec /\ at'.pc = "once"
BY DEF Begin, AtRec, Place, Codes

(* CMD0 leaves a card that hears it idle or ready, and its level alone.    *)
LEMMA IdentDoes ==
  ASSUME ITypeOK, NEW r \in {"OK", "NOCARD", "TIMEOUT"}, Ident(r)
  PROVE  /\ card' \in CardRec /\ card'.id = card.id /\ card'.lvl = card.lvl
         /\ card' = card \/ card'.st # "tran"
         /\ clk' \in Nat /\ noise' \in Nat
<1> DEFINE b(t) == [card EXCEPT !.st = t]
<1>1. card \in CardRec
  BY DEF ITypeOK
<1>2. b("ready") \in CardRec /\ b("ready").id = card.id /\ b("ready").lvl = card.lvl /\ b("ready").st = "ready"
  BY <1>1 DEF CardRec, State
<1>3. b("idle") \in CardRec /\ b("idle").id = card.id /\ b("idle").lvl = card.lvl /\ b("idle").st = "idle"
  BY <1>1 DEF CardRec, State
<1>4. card' = card \/ card' = [b("ready") EXCEPT !.fn = 0] \/ card' = [b("idle") EXCEPT !.fn = 0]
  BY DEF Ident
<1>5. clk' \in Nat /\ noise' \in Nat
  BY DEF Ident, ITypeOK, Quiet, Noise
<1> HIDE DEF b
<1>6. CASE card' = [b("ready") EXCEPT !.fn = 0]
  BY <1>2, <1>5, <1>6 DEF CardRec
<1>7. CASE card' = [b("idle") EXCEPT !.fn = 0]
  BY <1>3, <1>5, <1>7 DEF CardRec
<1> QED BY <1>1, <1>4, <1>5, <1>6, <1>7

LEMMA SwitchedDoes ==
  ASSUME ITypeOK, NEW f \in 0..2
  PROVE  /\ Switched(f) \in CardRec /\ Switched(f).id = card.id /\ Switched(f).lvl = card.lvl
         /\ Switched(f).st = card.st /\ Switched(f).fn = f
<1>1. card \in CardRec
  BY DEF ITypeOK
<1> QED BY <1>1 DEF Switched, CardRec

(* What is written to sd_card.                                             *)
LEMMA SdDoes ==
  ASSUME ITypeOK
  PROVE  /\ Signalled \in SdRec /\ Signalled.signal18 /\ Signalled.present = sd.present
         /\ Signalled.serial = sd.serial
         /\ Removed \in SdRec /\ ~Removed.present /\ Removed.signal18 = sd.signal18
<1>1. sd \in SdRec
  BY DEF ITypeOK
<1> QED BY <1>1 DEF Signalled, Removed, SdRec

---------------------------------------------------------------------------
(* Every step keeps the types.                                             *)
LEMMA TypesStep == ITypeOK /\ [Next]_vars => ITypeOK'
<1> SUFFICES ASSUME ITypeOK, [Next]_vars PROVE ITypeOK'
  OBVIOUS
<1>1. (Quiet \/ Noise) => noise' \in Nat
  BY DEF Quiet, Noise, ITypeOK
<1>2. [sd EXCEPT !.hs = TRUE] \in SdRec
  BY DEF SdRec, ITypeOK
<1>3. CASE Once
  BY <1>3, GotoDoes DEF ITypeOK, Once, Place, SdRec, Id
<1>4. CASE Probe18
  BY <1>4, GotoDoes, IdentDoes, SdDoes DEF ITypeOK, Probe18, Place
<1>5. CASE Ident33
  BY <1>5, GotoDoes, ReturnDoes, IdentDoes DEF ITypeOK, Ident33, Place, Codes
<1>6. CASE SwitchOk
  BY <1>6, GotoDoes, SdDoes DEF ITypeOK, SwitchOk, Place, CardRec, Level, Quiet
<1>7. CASE SwitchDeclined
  BY <1>7, GotoDoes, <1>1 DEF ITypeOK, SwitchDeclined, Place, CardRec, Level
<1>8. CASE SwitchStuck
  BY <1>8, GotoDoes, <1>1 DEF ITypeOK, SwitchStuck, Place, CardRec, Level
<1>9. CASE Reident
  BY <1>9, GotoDoes, ReturnDoes, IdentDoes, SdDoes DEF ITypeOK, Reident, Place, Codes
<1>10. CASE Select
  BY <1>10, GotoDoes, ReturnDoes, <1>1 DEF ITypeOK, Select, Place, Codes, CardRec, SdRec, State,
     Slow
<1>11. CASE Sdr50
  BY <1>11, GotoDoes, SwitchedDoes, <1>2 DEF ITypeOK, Sdr50, Place, Quiet
<1>12. CASE Sdr25
  BY <1>12, GotoDoes, SwitchedDoes, <1>1, <1>2 DEF ITypeOK, Sdr25, Place, Mid
<1>13. CASE HighSpeed
  BY <1>13, GotoDoes, SwitchedDoes, <1>2 DEF ITypeOK, HighSpeed, Place, Full, Quiet
<1>14. CASE DefaultSpeed
  BY <1>14, GotoDoes, SwitchedDoes, <1>1 DEF ITypeOK, DefaultSpeed, MaySwitch, Place, Slow
<1>15. CASE Final
  BY <1>15, GotoDoes, ReturnDoes, <1>1 DEF ITypeOK, Final, Codes, SdRec
<1>16. CASE RetrySilent
  BY <1>16, RetryDoes DEF ITypeOK, RetrySilent
<1>17. CASE RetryLower
  BY <1>17, RetryDoes DEF ITypeOK, RetryLower, Double
<1>18. CASE InitDone
  BY <1>18, GotoDoes DEF ITypeOK, InitDone, Place
<1>19. CASE Settle
  BY <1>19, GotoDoes, SdDoes, <1>1 DEF ITypeOK, Settle, Settled, Safe, Remembered, Mid, Place
<1>20. CASE Transferred
  BY <1>20, GotoDoes DEF ITypeOK, Transferred, Place
<1>21. CASE TimedOut
  BY <1>21, GotoDoes, SdDoes, <1>1 DEF ITypeOK, TimedOut, Place
<1>22. CASE Garbled
  BY <1>22, GotoDoes, <1>1 DEF ITypeOK, Garbled, Fallback, Slower, Retries, Place, AtRec, SdRec
<1>23. CASE Housekeeping
  BY <1>23, BeginDoes DEF ITypeOK, Housekeeping
<1>24. CASE Reinit
  BY <1>24, BeginDoes, SdDoes DEF ITypeOK, Reinit, Full
<1>25. CASE Start
  BY <1>25, StartDoes DEF ITypeOK, Start
<1>26. CASE Toggle
  <2>1. cfg' \in [tryUhs : BOOLEAN, clkHs : Nat]
    BY <1>26 DEF ITypeOK, Toggle
  <2>2. pend' \in BOOLEAN /\ events' \in Nat
    BY <1>26 DEF ITypeOK, Toggle
  <2> QED BY <1>26, <2>1, <2>2 DEF ITypeOK, Toggle
<1>27. CASE Slot
  BY <1>27 DEF ITypeOK, Slot, host, Empty, Fresh, CardRec, Level, State, Id
<1>28. CASE UNCHANGED vars
  BY <1>28 DEF vars, host, ITypeOK
<1> QED
  BY <1>3, <1>4, <1>5, <1>6, <1>7, <1>8, <1>9, <1>10, <1>11, <1>12, <1>13, <1>14, <1>15, <1>16,
     <1>17, <1>18, <1>19, <1>20, <1>21, <1>22, <1>23, <1>24, <1>25, <1>26, <1>27, <1>28 DEF Next,
     Driver, Initialise, Transfer

---------------------------------------------------------------------------
(* A card counts as present only when an initialisation has run to its end. *)
LEMMA PresentStep == ITypeOK /\ PresentOnlyAfter /\ [Next]_vars => PresentOnlyAfter'
<1> SUFFICES ASSUME ITypeOK, PresentOnlyAfter, [Next]_vars PROVE PresentOnlyAfter'
  OBVIOUS
<1>1. CASE Once
  BY <1>1, GotoDoes DEF PresentOnlyAfter, Once, Place
<1>2. CASE Probe18
  BY <1>2, GotoDoes, SdDoes DEF PresentOnlyAfter, Probe18, Place
<1>3. CASE Ident33
  BY <1>3, GotoDoes, ReturnDoes DEF PresentOnlyAfter, Ident33, Place, Codes
<1>4. CASE SwitchOk
  BY <1>4, GotoDoes, SdDoes DEF PresentOnlyAfter, SwitchOk, Place
<1>5. CASE SwitchDeclined
  BY <1>5, GotoDoes DEF PresentOnlyAfter, SwitchDeclined, Place
<1>6. CASE SwitchStuck
  BY <1>6, GotoDoes DEF PresentOnlyAfter, SwitchStuck, Place
<1>7. CASE Reident
  BY <1>7, GotoDoes, ReturnDoes, SdDoes DEF PresentOnlyAfter, Reident, Place, Codes
<1>8. CASE Select
  BY <1>8, GotoDoes, ReturnDoes DEF ITypeOK, PresentOnlyAfter, Select, Place, Codes, SdRec
<1>9. CASE Sdr50
  BY <1>9, GotoDoes DEF PresentOnlyAfter, Sdr50, Place
<1>10. CASE Sdr25
  BY <1>10, GotoDoes DEF PresentOnlyAfter, Sdr25, Place
<1>11. CASE HighSpeed
  BY <1>11, GotoDoes DEF PresentOnlyAfter, HighSpeed, Place
<1>12. CASE DefaultSpeed
  BY <1>12, GotoDoes DEF PresentOnlyAfter, DefaultSpeed, Place
<1>13. CASE Final
  BY <1>13, ReturnDoes DEF ITypeOK, PresentOnlyAfter, Final, Codes, SdRec
<1>14. CASE RetrySilent
  BY <1>14, RetryDoes DEF PresentOnlyAfter, RetrySilent
<1>15. CASE RetryLower
  BY <1>15, RetryDoes DEF PresentOnlyAfter, RetryLower
<1>16. CASE InitDone
  BY <1>16, GotoDoes DEF PresentOnlyAfter, InitDone, Place
<1>17. CASE Settle
  BY <1>17, GotoDoes DEF PresentOnlyAfter, Settle, Place
<1>18. CASE Transferred
  BY <1>18, GotoDoes DEF PresentOnlyAfter, Transferred, Place
<1>19. CASE TimedOut
  BY <1>19, GotoDoes DEF PresentOnlyAfter, TimedOut, Place
<1>20. CASE Garbled
  BY <1>20, GotoDoes DEF ITypeOK, PresentOnlyAfter, Garbled, Place, AtRec
<1>21. CASE Housekeeping
  BY <1>21, BeginDoes DEF PresentOnlyAfter, Housekeeping
<1>22. CASE Reinit
  BY <1>22, BeginDoes, SdDoes DEF PresentOnlyAfter, Reinit
<1>23. CASE Start
  BY <1>23 DEF PresentOnlyAfter, Start
<1>24. CASE Toggle
  BY <1>24 DEF ITypeOK, PresentOnlyAfter, Toggle
<1>25. CASE Slot
  BY <1>25 DEF PresentOnlyAfter, Slot, host
<1>26. CASE UNCHANGED vars
  BY <1>26 DEF vars, host, PresentOnlyAfter
<1> QED
  BY <1>1, <1>2, <1>3, <1>4, <1>5, <1>6, <1>7, <1>8, <1>9, <1>10, <1>11, <1>12, <1>13, <1>14,
     <1>15, <1>16, <1>17, <1>18, <1>19, <1>20, <1>21, <1>22, <1>23, <1>24, <1>25, <1>26 DEF Next,
     Driver, Initialise, Transfer

(* The pins are at the level the identification believes they are.          *)
LEMMA PinsStep == ITypeOK /\ PresentOnlyAfter /\ PinsKnown /\ [Next]_vars => PinsKnown'
<1> SUFFICES ASSUME ITypeOK, PresentOnlyAfter, PinsKnown, [Next]_vars PROVE PinsKnown'
  OBVIOUS
<1>1. CASE Once
  BY <1>1, GotoDoes DEF PinsKnown, Live, Once, Place
<1>2. CASE Probe18
  BY <1>2, GotoDoes, SdDoes DEF PinsKnown, Live, Probe18, Place
<1>3. CASE Ident33
  BY <1>3, GotoDoes, ReturnDoes DEF ITypeOK, PinsKnown, Ident33, Place, Codes, SdRec
<1>4. CASE SwitchOk
  BY <1>4, GotoDoes, SdDoes DEF PinsKnown, SwitchOk, Place
<1>5. CASE SwitchDeclined
  BY <1>5, GotoDoes DEF ITypeOK, PinsKnown, SwitchDeclined, Place, SdRec
<1>6. CASE SwitchStuck
  BY <1>6, GotoDoes DEF PresentOnlyAfter, PinsKnown, Live, SwitchStuck, Place
<1>7. CASE Reident
  BY <1>7, GotoDoes, ReturnDoes, SdDoes DEF PinsKnown, Live, Reident, Place, Codes
<1>8. CASE Select
  BY <1>8, GotoDoes, ReturnDoes DEF ITypeOK, PinsKnown, Select, Place, Codes, SdRec
<1>9. CASE Sdr50
  BY <1>9, GotoDoes DEF ITypeOK, PinsKnown, Live, Sdr50, Place, SdRec
<1>10. CASE Sdr25
  BY <1>10, GotoDoes DEF ITypeOK, PinsKnown, Live, Sdr25, Place, SdRec
<1>11. CASE HighSpeed
  BY <1>11, GotoDoes DEF PinsKnown, Live, HighSpeed, Place
<1>12. CASE DefaultSpeed
  BY <1>12, GotoDoes DEF PinsKnown, Live, DefaultSpeed, Place
<1>13. CASE Final
  BY <1>13, ReturnDoes DEF ITypeOK, PinsKnown, Live, Final, Codes, SdRec
<1>14. CASE RetrySilent
  BY <1>14 DEF PinsKnown, Live, RetrySilent
<1>15. CASE RetryLower
  BY <1>15 DEF PinsKnown, Live, RetryLower
<1>16. CASE InitDone
  BY <1>16, GotoDoes DEF PinsKnown, Live, InitDone, Place
<1>17. CASE Settle
  BY <1>17, GotoDoes, SdDoes DEF PinsKnown, Live, Settle, Place
<1>18. CASE Transferred
  BY <1>18, GotoDoes DEF PinsKnown, Live, Transferred, Place
<1>19. CASE TimedOut
  BY <1>19, GotoDoes, SdDoes DEF PinsKnown, Live, TimedOut, Place
<1>20. CASE Garbled
  BY <1>20, GotoDoes DEF ITypeOK, PinsKnown, Live, Garbled, Place, AtRec
<1>21. CASE Housekeeping
  BY <1>21, BeginDoes DEF PinsKnown, Live, Housekeeping
<1>22. CASE Reinit
  BY <1>22, BeginDoes, SdDoes DEF PinsKnown, Live, Reinit
<1>23. CASE Start
  BY <1>23 DEF PinsKnown, Live, Start
<1>24. CASE Toggle
  BY <1>24 DEF PinsKnown, Live, Toggle
<1>25. CASE Slot
  BY <1>25 DEF PinsKnown, Live, Slot, host
<1>26. CASE UNCHANGED vars
  BY <1>26 DEF vars, host, PinsKnown, Live
<1> QED
  BY <1>1, <1>2, <1>3, <1>4, <1>5, <1>6, <1>7, <1>8, <1>9, <1>10, <1>11, <1>12, <1>13, <1>14,
     <1>15, <1>16, <1>17, <1>18, <1>19, <1>20, <1>21, <1>22, <1>23, <1>24, <1>25, <1>26 DEF Next,
     Driver, Initialise, Transfer

(* A card gets to the transfer state only by hearing the host, and answers  *)
(* with its own serial number.                                             *)
LEMMA MatchStep ==
  ITypeOK /\ PresentOnlyAfter /\ PinsKnown /\ CardMatches /\ [Next]_vars
    => CardMatches'
<1> SUFFICES ASSUME ITypeOK, PresentOnlyAfter, PinsKnown, CardMatches, [Next]_vars PROVE CardMatches'
  OBVIOUS
<1>1. CASE Once
  BY <1>1, GotoDoes DEF CardMatches, Live, InTran, Once, Place
<1>2. CASE Probe18
  BY <1>2, GotoDoes, SdDoes DEF PinsKnown, CardMatches, Live, InTran, Probe18, Place
<1>3. CASE Ident33
  BY <1>3, GotoDoes, ReturnDoes, IdentDoes DEF CardMatches, Live, InTran, Ident33, Place, Codes
<1>4. CASE SwitchOk
  BY <1>4 DEF CardMatches, InTran, SwitchOk, Ready
<1>5. CASE SwitchDeclined
  BY <1>5, GotoDoes DEF PresentOnlyAfter, CardMatches, Live, InTran, SwitchDeclined, Place
<1>6. CASE SwitchStuck
  BY <1>6 DEF CardMatches, InTran, SwitchStuck, Ready
<1>7. CASE Reident
  BY <1>7, GotoDoes, ReturnDoes, IdentDoes, SdDoes DEF CardMatches, Live, InTran, Reident, Place,
     Codes
<1>8. CASE Select
  BY <1>8, ReturnDoes DEF ITypeOK, CardMatches, Live, InTran, Select, Codes, CardRec, SdRec,
     Ready, Hears
<1>9. CASE Sdr50
  BY <1>9, SwitchedDoes DEF CardMatches, Live, InTran, Sdr50
<1>10. CASE Sdr25
  BY <1>10, SwitchedDoes DEF CardMatches, Live, InTran, Sdr25
<1>11. CASE HighSpeed
  BY <1>11, SwitchedDoes DEF CardMatches, Live, InTran, HighSpeed
<1>12. CASE DefaultSpeed
  BY <1>12, SwitchedDoes DEF CardMatches, Live, InTran, DefaultSpeed, MaySwitch
<1>13. CASE Final
  BY <1>13 DEF ITypeOK, CardMatches, Live, InTran, Final, SdRec
<1>14. CASE RetrySilent
  BY <1>14 DEF CardMatches, Live, InTran, RetrySilent
<1>15. CASE RetryLower
  BY <1>15 DEF CardMatches, Live, InTran, RetryLower
<1>16. CASE InitDone
  BY <1>16, GotoDoes DEF CardMatches, Live, InTran, InitDone, Place
<1>17. CASE Settle
  BY <1>17, GotoDoes, SdDoes DEF CardMatches, Live, InTran, Settle, Place
<1>18. CASE Transferred
  BY <1>18, GotoDoes DEF CardMatches, Live, InTran, Transferred, Place
<1>19. CASE TimedOut
  BY <1>19, GotoDoes, SdDoes DEF CardMatches, Live, InTran, TimedOut, Place
<1>20. CASE Garbled
  BY <1>20 DEF PresentOnlyAfter, CardMatches, Live, InTran, Garbled
<1>21. CASE Housekeeping
  BY <1>21, BeginDoes DEF CardMatches, Live, InTran, Housekeeping
<1>22. CASE Reinit
  BY <1>22, BeginDoes, SdDoes DEF CardMatches, Live, InTran, Reinit
<1>23. CASE Start
  BY <1>23 DEF CardMatches, Live, InTran, Start
<1>24. CASE Toggle
  BY <1>24 DEF CardMatches, Live, InTran, Toggle
<1>25. CASE Slot
  BY <1>25 DEF CardMatches, InTran, Slot, Empty, Fresh
<1>26. CASE UNCHANGED vars
  BY <1>26 DEF vars, host, CardMatches, Live, InTran
<1> QED
  BY <1>1, <1>2, <1>3, <1>4, <1>5, <1>6, <1>7, <1>8, <1>9, <1>10, <1>11, <1>12, <1>13, <1>14,
     <1>15, <1>16, <1>17, <1>18, <1>19, <1>20, <1>21, <1>22, <1>23, <1>24, <1>25, <1>26 DEF Next,
     Driver, Initialise, Transfer

(* No step speeds the bus beyond the mode of a selected card, except for    *)
(* High Speed at 3.3 V, which the end of the initialisation corrects.      *)
LEMMA ModeStep ==
  ITypeOK /\ PresentOnlyAfter /\ PinsKnown /\ CardMatches /\ WithinMode /\ [Next]_vars
    => WithinMode'
<1> SUFFICES ASSUME ITypeOK, PresentOnlyAfter, PinsKnown, CardMatches, WithinMode, [Next]_vars
             PROVE  WithinMode'
  OBVIOUS
<1>1. CASE Once
  BY <1>1, GotoDoes DEF WithinMode, Live, InTran, Once, Place
<1>2. CASE Probe18
  BY <1>2, GotoDoes, SdDoes DEF PinsKnown, WithinMode, Live, InTran, Probe18, Place
<1>3. CASE Ident33
  BY <1>3, GotoDoes, ReturnDoes DEF PresentOnlyAfter, WithinMode, Live, InTran, Ident33, Place,
     Codes
<1>4. CASE SwitchOk
  BY <1>4, GotoDoes DEF WithinMode, InTran, SwitchOk, Place, Ready
<1>5. CASE SwitchDeclined
  BY <1>5, GotoDoes DEF PresentOnlyAfter, WithinMode, Live, InTran, SwitchDeclined, Place
<1>6. CASE SwitchStuck
  BY <1>6, GotoDoes DEF WithinMode, InTran, SwitchStuck, Place, Ready
<1>7. CASE Reident
  BY <1>7, GotoDoes, ReturnDoes, SdDoes DEF PresentOnlyAfter, WithinMode, Live, InTran, Reident,
     Place, Codes
<1>8. CASE Select
  BY <1>8, ReturnDoes DEF ITypeOK, WithinMode, Live, InTran, Limit, Slow, Mid, Full, Select,
     Codes, CardRec
<1>9. CASE Sdr50
  BY <1>9, GotoDoes, SwitchedDoes DEF ITypeOK, WithinMode, Limit, Full, Sdr50, Place
<1>10. CASE Sdr25
  BY <1>10, GotoDoes, SwitchedDoes DEF WithinMode, Limit, Mid, Sdr25, Place
<1>11. CASE HighSpeed
  BY <1>11, GotoDoes, SwitchedDoes DEF WithinMode, HighSpeed, Place
<1>12. CASE DefaultSpeed
  BY <1>12, SwitchedDoes DEF WithinMode, Live, InTran, Limit, Slow, Mid, Full, DefaultSpeed,
     MaySwitch
<1>13. CASE Final
  BY <1>13, ReturnDoes DEF ITypeOK, WithinMode, Live, InTran, Final, Codes, SdRec
<1>14. CASE RetrySilent
  BY <1>14, RetryDoes DEF PresentOnlyAfter, WithinMode, Live, InTran, RetrySilent
<1>15. CASE RetryLower
  BY <1>15, RetryDoes DEF PresentOnlyAfter, WithinMode, Live, InTran, RetryLower
<1>16. CASE InitDone
  BY <1>16, GotoDoes DEF PresentOnlyAfter, WithinMode, Live, InTran, InitDone, Place
<1>17. CASE Settle
  <2>1. sd.present /\ at'.pc = "idle" /\ card' = card /\ sd' \in {sd, Removed} /\ clk' = Settled
    BY <1>17, GotoDoes DEF Settle, Place, PresentOnlyAfter
  <2>2. InTran' => InTran
    BY <2>1 DEF InTran, Live
  <2>3. InTran => Settled >= Limit[card.fn]
    <3>1. Settled >= Safe /\ Safe >= clk
      BY DEF Settled, Remembered, Safe, Mid, ITypeOK
    <3>2. InTran => clk >= Limit[card.fn] \/ (~sd.signal18 /\ sd.hs /\ card.fn = 1)
      BY DEF WithinMode
    <3>3. card.fn \in 0..2 /\ clk \in Nat /\ learned.div \in Nat
      BY DEF ITypeOK, CardRec
    <3>4. ~sd.signal18 /\ sd.hs => Safe >= Mid
      BY <3>3 DEF Safe, Mid
    <3> QED BY <3>1, <3>2, <3>3, <3>4 DEF Limit, Slow, Mid, Full, Settled, Remembered, Safe
  <2> QED BY <2>1, <2>2, <2>3 DEF WithinMode
<1>18. CASE Transferred
  BY <1>18, GotoDoes DEF WithinMode, Live, InTran, Transferred, Place
<1>19. CASE TimedOut
  BY <1>19, GotoDoes, SdDoes DEF WithinMode, Live, InTran, TimedOut, Place
<1>20. CASE Garbled
  <2>1. card' = card /\ sd' = sd /\ sd.present /\ at.pc = "xfer" /\ clk' \in {clk, Slower}
    BY <1>20 DEF Garbled, Fallback, PresentOnlyAfter
  <2>2. at'.pc \in {"xfer", "idle"}
    BY <1>20, GotoDoes DEF Garbled, Place, ITypeOK, AtRec
  <2>3. clk \in Nat /\ card.fn \in 0..2
    BY DEF ITypeOK, CardRec
  <2>4. clk' >= clk /\ clk' \in Nat
    BY <2>1, <2>3 DEF Slower
  <2>5. InTran' => clk >= Limit[card.fn]
    BY <2>1 DEF InTran, Live, WithinMode
  <2> QED BY <2>1, <2>2, <2>3, <2>4, <2>5 DEF WithinMode, Limit, Slow, Mid, Full
<1>21. CASE Housekeeping
  BY <1>21, BeginDoes DEF WithinMode, Live, InTran, Housekeeping
<1>22. CASE Reinit
  BY <1>22, BeginDoes, SdDoes DEF WithinMode, Live, InTran, Reinit
<1>23. CASE Start
  BY <1>23 DEF WithinMode, Live, InTran, Start
<1>24. CASE Toggle
  BY <1>24 DEF WithinMode, Live, InTran, Toggle
<1>25. CASE Slot
  BY <1>25 DEF WithinMode, InTran, Slot, host, Empty, Fresh
<1>26. CASE UNCHANGED vars
  BY <1>26 DEF vars, host, WithinMode, Live, InTran
<1> QED
  BY <1>1, <1>2, <1>3, <1>4, <1>5, <1>6, <1>7, <1>8, <1>9, <1>10, <1>11, <1>12, <1>13, <1>14,
     <1>15, <1>16, <1>17, <1>18, <1>19, <1>20, <1>21, <1>22, <1>23, <1>24, <1>25, <1>26 DEF Next,
     Driver, Initialise, Transfer

(* What a fallback learns outlives every re-initialisation.                 *)
LEMMA NeedStep ==
  ITypeOK /\ PresentOnlyAfter /\ PinsKnown /\ CardMatches /\ WithinMode /\ NeedRemembered /\ [Next]_vars
    => NeedRemembered'
<1> SUFFICES ASSUME ITypeOK, PresentOnlyAfter, PinsKnown, CardMatches, WithinMode, NeedRemembered, [Next]_vars
             PROVE  NeedRemembered'
  OBVIOUS
<1>1. CASE Once
  BY <1>1, GotoDoes DEF NeedRemembered, Live, Once, Place
<1>2. CASE Probe18
  BY <1>2, GotoDoes, IdentDoes, SdDoes DEF PinsKnown, NeedRemembered, Live, Probe18, Place
<1>3. CASE Ident33
  BY <1>3, GotoDoes, ReturnDoes, IdentDoes DEF PresentOnlyAfter, NeedRemembered, Live, Ident33,
     Place, Codes
<1>4. CASE SwitchOk
  BY <1>4, GotoDoes, SdDoes DEF NeedRemembered, Live, SwitchOk, Place
<1>5. CASE SwitchDeclined
  BY <1>5, GotoDoes DEF ITypeOK, NeedRemembered, Live, SwitchDeclined, Place, CardRec
<1>6. CASE SwitchStuck
  BY <1>6, GotoDoes DEF NeedRemembered, Live, SwitchStuck, Place
<1>7. CASE Reident
  BY <1>7, GotoDoes, ReturnDoes, IdentDoes, SdDoes DEF PresentOnlyAfter, NeedRemembered, Live,
     Reident, Place, Codes
<1>8. CASE Select
  BY <1>8, GotoDoes, ReturnDoes DEF ITypeOK, NeedRemembered, Live, Select, Place, Codes, CardRec
<1>9. CASE Sdr50
  BY <1>9, GotoDoes, SwitchedDoes DEF NeedRemembered, Live, Sdr50, Place
<1>10. CASE Sdr25
  BY <1>10, GotoDoes, SwitchedDoes DEF NeedRemembered, Live, Sdr25, Place
<1>11. CASE HighSpeed
  BY <1>11, GotoDoes, SwitchedDoes DEF NeedRemembered, Live, HighSpeed, Place
<1>12. CASE DefaultSpeed
  BY <1>12, GotoDoes, SwitchedDoes DEF NeedRemembered, Live, DefaultSpeed, MaySwitch, Place
<1>13. CASE Final
  BY <1>13, ReturnDoes DEF NeedRemembered, Live, Final, Codes
<1>14. CASE RetrySilent
  BY <1>14 DEF NeedRemembered, Live, RetrySilent
<1>15. CASE RetryLower
  BY <1>15 DEF NeedRemembered, Live, RetryLower
<1>16. CASE InitDone
  BY <1>16, GotoDoes DEF PresentOnlyAfter, NeedRemembered, Live, InitDone, Place
<1>17. CASE Settle
  <2>1. /\ sd.present /\ at'.pc = "idle" /\ card' = card /\ need' = need
        /\ sd' \in {sd, Removed} /\ clk' = Settled
    BY <1>17, GotoDoes DEF Settle, Place, PresentOnlyAfter
  <2>2. learned'.serial = learned.serial /\ learned'.div = Remembered
    BY <1>17 DEF Settle, ITypeOK
  <2>3. need > 0 => card.st = "tran" /\ sd.serial = card.id /\ learned.serial = card.id /\ Remembered >= need
    BY <2>1 DEF NeedRemembered, Live, InTran, CardMatches, Remembered
  <2>4. Settled >= Remembered
    BY DEF Settled, Remembered, Safe, Mid, ITypeOK
  <2>5. need > 0 => clk' >= need
    BY <2>1, <2>3 DEF Settled, Remembered, Safe, Mid, ITypeOK
  <2>6. learned'.div = 0 \/ learned'.serial = sd.serial
    BY <2>2 DEF Remembered
  <2>7. sd'.present => sd' = sd
    BY <2>1, SdDoes
  <2>8. clk' \in Nat /\ need \in Nat
    BY <2>1 DEF Settled, Remembered, ITypeOK
  <2> QED BY <2>1, <2>2, <2>3, <2>5, <2>6, <2>7, <2>8 DEF NeedRemembered, Live
<1>18. CASE Transferred
  BY <1>18, GotoDoes DEF NeedRemembered, Live, Transferred, Place
<1>19. CASE TimedOut
  BY <1>19, GotoDoes, SdDoes DEF NeedRemembered, Live, TimedOut, Place
<1>20. CASE Garbled
  <2>1. /\ card' = card /\ sd' = sd /\ sd.present /\ at.pc = "xfer" /\ card.st = "tran"
        /\ UNCHANGED <<clk, learned, need>> \/ Fallback
    BY <1>20 DEF Garbled, Talks, PresentOnlyAfter
  <2>2. at'.pc \in {"xfer", "idle"}
    BY <1>20, GotoDoes DEF Garbled, Place, ITypeOK, AtRec
  <2>3. clk \in Nat /\ need \in Nat /\ learned.div \in Nat
    BY DEF ITypeOK
  <2>4. /\ sd.serial = card.id /\ clk >= need
        /\ learned.div = 0 \/ learned.serial = sd.serial
        /\ need > 0 => learned.serial = card.id /\ learned.div >= need
    BY <2>1 DEF CardMatches, InTran, Live, NeedRemembered
  <2>5. CASE UNCHANGED <<clk, learned, need>>
    BY <2>1, <2>5 DEF NeedRemembered
  <2>6. CASE Fallback
    <3>1. Slower \in Nat /\ Slower >= 1 /\ Slower >= clk /\ clk' = Slower
      BY <2>3, <2>6 DEF Slower, Fallback
    <3>2. need' = IF Slower > need THEN Slower ELSE need
      BY <2>6 DEF Fallback
    <3>3. \/ Slower > learned.div /\ learned'.div = Slower /\ learned'.serial = sd.serial
          \/ Slower <= learned.div /\ learned' = learned
      BY <2>3, <2>6, <3>1 DEF Fallback
    <3>4. learned'.serial = sd.serial /\ learned'.div >= need' /\ clk' >= need'
      BY <2>3, <2>4, <3>1, <3>2, <3>3
    <3> QED BY <2>1, <2>2, <2>4, <3>4 DEF NeedRemembered, Live
  <2> QED BY <2>1, <2>5, <2>6
<1>21. CASE Housekeeping
  BY <1>21, BeginDoes DEF NeedRemembered, Live, Housekeeping
<1>22. CASE Reinit
  BY <1>22, BeginDoes, SdDoes DEF NeedRemembered, Live, Reinit
<1>23. CASE Start
  BY <1>23 DEF NeedRemembered, Live, Start
<1>24. CASE Toggle
  BY <1>24 DEF NeedRemembered, Live, Toggle
<1>25. CASE Slot
  BY <1>25 DEF NeedRemembered, Slot, host, Empty, Fresh
<1>26. CASE UNCHANGED vars
  BY <1>26 DEF vars, host, NeedRemembered, Live
<1> QED
  BY <1>1, <1>2, <1>3, <1>4, <1>5, <1>6, <1>7, <1>8, <1>9, <1>10, <1>11, <1>12, <1>13, <1>14,
     <1>15, <1>16, <1>17, <1>18, <1>19, <1>20, <1>21, <1>22, <1>23, <1>24, <1>25, <1>26 DEF Next,
     Driver, Initialise, Transfer

---------------------------------------------------------------------------
LEMMA InitHolds == Init => IInv
<1> SUFFICES ASSUME Init PROVE IInv
  OBVIOUS
<1>1. card \in CardRec /\ card.st = "idle" /\ card.fn = 0
  BY DEF Init, Empty, Fresh, CardRec, Id, Level, State
<1>2. ITypeOK
  <2>1. sd \in SdRec
    BY DEF Init, SdRec, Id
  <2>2. at \in AtRec
    BY DEF Init, AtRec, Place, Codes
  <2>3. cfg \in [tryUhs : BOOLEAN, clkHs : Nat] /\ bus18 \in BOOLEAN /\ pend \in BOOLEAN
    BY DEF Init, Full
  <2>4. learned \in [div : Nat, serial : Id] /\ clk \in Nat /\ need \in Nat /\ noise \in Nat /\ events \in Nat
    BY DEF Init, Id, Slow
  <2> QED BY <1>1, <2>1, <2>2, <2>3, <2>4 DEF ITypeOK
<1>3. PresentOnlyAfter /\ PinsKnown /\ CardMatches
  BY <1>1 DEF Init, PresentOnlyAfter, PinsKnown, CardMatches, InTran
<1>4. WithinMode /\ NeedRemembered
  BY <1>1 DEF Init, WithinMode, NeedRemembered, InTran
<1> QED BY <1>2, <1>3, <1>4 DEF IInv

LEMMA StepHolds == IInv /\ [Next]_vars => IInv'
BY TypesStep, PresentStep, PinsStep, MatchStep, ModeStep, NeedStep DEF IInv

(* The invariant holds however the noise, the slot and the console fall    *)
(* between the steps of sd_init and of the transfers.                      *)
THEOREM CardInvariant == FairSpec => []IInv
BY InitHolds, StepHolds, PTL DEF FairSpec

(* The card in use, the pins and the driver agree on the signalling level, *)
(* through failed, declined and stuck voltage switches (sd_init_once).     *)
THEOREM OneLevel == FairSpec => []SignalAgrees
<1>1. IInv => SignalAgrees
  BY DEF IInv, ITypeOK, SignalAgrees, InUse, CardMatches, InTran, Live, PinsKnown
<1> QED BY <1>1, CardInvariant, PTL

(* The bus is never faster than the mode of the card in use, for any       *)
(* number of retries, fallbacks and re-initialisations (sd_init).          *)
THEOREM NeverTooFast == FairSpec => []ClockWithinMode
<1>1. IInv => ClockWithinMode
  BY DEF IInv, ClockWithinMode, InUse, WithinMode, InTran, Live
<1> QED BY <1>1, CardInvariant, PTL

(* A divider the card has needed since it was inserted is never undercut   *)
(* again, over changes of mode and re-initialisations (sd_fallback_clock). *)
THEOREM NeverForgotten == FairSpec => []LearnedKept
<1>1. IInv => LearnedKept
  BY DEF IInv, LearnedKept, InUse, NeedRemembered
<1> QED BY <1>1, CardInvariant, PTL
=============================================================================
