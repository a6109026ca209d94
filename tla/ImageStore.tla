----------------------------- MODULE ImageStore -----------------------------
(***************************************************************************)
(* Which image is mounted: the list read from the card, mounting by index  *)
(* and by name, the choice saved in ISOMOUNT.TXT, what a card that has just *)
(* been initialised brings up, the cycle of the key with its swap gap.     *)
(*                                                                         *)
(* The store's state is a record s. The operators are the functions of     *)
(* image_store.c: they take the state to the state after the call. `ok`    *)
(* tells whether the file system of the card can be read this time, `how`   *)
(* what became of the record of the choice.                                *)
(***************************************************************************)
EXTENDS Integers, Sequences, SequencesExt

CONSTANTS
  Cards,      (* the cards of the user                                     *)
  Files,      (* the images of a card, in list order                       *)
  Kind,       (* of an image: "dvd" or "disk"                              *)
  NoCard,
  Gap         (* KEY_SWAP_GAP_MS, in ticks                                 *)

ASSUME StoreAssumption ==
  /\ NoCard \notin Cards /\ Gap \in Nat \ {0}
  /\ \A c \in Cards : Files[c] \in Seq(Nat \ {0}) /\ \A i \in DOMAIN Files[c] : Kind[Files[c][i]] \in {"dvd", "disk"}

Name    == {0} \cup UNION {ToSet(Files[c]) : c \in Cards}     \* 0: none
NoImage == [name |-> 0, card |-> NoCard]
Image   == [name : Name, card : Cards \cup {NoCard}]
NoSwap  == [idx |-> 0, left |-> 0]

(* slot: the card in the slot; drv: the one the driver holds for present    *)
(* (sd_card); live: they are the same, and not pulled since.                *)
Store == [slot : Cards \cup {NoCard}, drv : Cards \cup {NoCard}, live : BOOLEAN,
          listed : Cards \cup {NoCard},       \* the card img_list was read from; NoCard: it is empty
          cur : Image,                        \* img_cur
          moved : BOOLEAN,                    \* img_cur.generation moved since media_poll looked
          last : Name,                        \* last_name; 0: ~have_last
          cfg : [Cards -> Name],              \* the choice saved on the card
          swap : [idx : Nat, left : 0..Gap]]  \* deferred_idx and time to deferred_due; 0: none pending

List(s)    == IF s.listed = NoCard THEN <<>> ELSE Files[s.listed]
Mounted(s) == s.cur # NoImage
Index(s, n) == CHOOSE i \in DOMAIN List(s) : List(s)[i] = n

(* Any access finds out that the card is not there any more. *)
Accessed(s) == IF s.live THEN s ELSE [s EXCEPT !.drv = NoCard]

(* img_scan: the list is gone in any case, and read again if it can be.     *)
Scan(s, ok) == [Accessed(s) EXCEPT !.listed = IF ok /\ s.live THEN s.drv ELSE NoCard]
Scanned(s)  == s.listed # NoCard

Unmount(s) == IF Mounted(s) THEN [s EXCEPT !.cur = NoImage, !.moved = TRUE] ELSE s

(* mount_entry: the image mounted before is gone in any case.               *)
MountIndex(s, i) ==
  IF i \notin DOMAIN List(s) THEN s
  ELSE LET u == Unmount(s) IN
       IF s.live /\ s.listed = s.drv
         THEN [u EXCEPT !.cur = [name |-> List(s)[i], card |-> s.drv], !.moved = TRUE, !.last = List(s)[i]]
         ELSE Accessed(u)
MountName(s, n) == IF n \in ToSet(List(s)) THEN MountIndex(s, Index(s, n)) ELSE s

RemountLast(s, ok) ==
  IF Mounted(s) \/ s.last = 0 \/ s.drv = NoCard THEN s ELSE MountName(Scan(s, ok), s.last)

(* img_auto_mount: the saved choice, else the last one, else the only one.  *)
(* An image still mounted stays when there is none of them.                 *)
AutoMount(s, ok) ==
  LET l == Scan(s, ok)
      on == ToSet(List(l))
  IN CASE ~Scanned(l) -> l
       [] Scanned(l) /\ l.cfg[l.drv] \in on -> MountName(l, l.cfg[l.drv])
       [] OTHER -> IF l.last \in on THEN MountName(l, l.last)
                   ELSE IF Len(List(l)) = 1 THEN MountIndex(l, 1) ELSE l

(* save_choice: the record is rewritten in place; or it stays as it is, for *)
(* the host has shortened it or the write fails; or the host has removed it, *)
(* and the next img_auto_mount makes one that says "none" before it reads.  *)
Outcomes == {"written", "kept", "removed"}
SaveChoice(s, n, how) ==
  IF Scanned(s) /\ s.live /\ how # "kept"
    THEN [s EXCEPT !.cfg[s.drv] = IF how = "written" THEN n ELSE 0]
    ELSE s

(* The position of the mounted image in the cycle; 0 when there is none.    *)
KeyPos(s) == IF s.cur.name \in ToSet(List(s)) THEN Index(s, s.cur.name) ELSE 0

KeepsLast(s)  == s                                           \* mutant of ForgetLast
ForgetLast(s) == [s EXCEPT !.last = 0]

(* img_cycle_next: unmounted at once; the next image comes after the gap.   *)
CycleNext(s, ok, how) ==
  LET l    == Scan(s, ok)
      next == (KeyPos(l) + 1) % (Len(List(l)) + 1)
      u    == [Unmount(l) EXCEPT !.swap = NoSwap]
  IN IF s.drv = NoCard THEN s
     ELSE IF List(l) = <<>> THEN l
     ELSE IF next = 0 THEN SaveChoice(ForgetLast(u), 0, how)
     ELSE [u EXCEPT !.swap = [idx |-> next, left |-> Gap]]

SwapWaits(s) == s.swap.idx # 0
SwapDue(s)   == SwapWaits(s) /\ s.swap.left = 0

DeferredMount(s, how) ==
  LET m == MountIndex([s EXCEPT !.swap = NoSwap], s.swap.idx)
  IN IF s.swap.idx \in DOMAIN List(s) /\ Mounted(m) THEN SaveChoice(m, m.cur.name, how) ELSE m

(* Time passes. *)
StoreTick(s) == IF SwapWaits(s) /\ s.swap.left > 0 THEN [s EXCEPT !.swap.left = @ - 1] ELSE s
=============================================================================
