---------------------------- MODULE BlockDevice ----------------------------
(***************************************************************************)
(* What a LUN promises the host about WRITE: while a command is pending its *)
(* sectors may take their new contents, in any order; GOOD status is given  *)
(* only when all of them have; whatever is not part of a pending command    *)
(* keeps its contents.                                                      *)
(***************************************************************************)
EXTENDS Integers

CONSTANTS FSec,    (* sectors of the LUN                                   *)
          Value    (* contents of a sector                                 *)

VARIABLES lun,     (* contents                                             *)
          cmd,     (* the pending command: sector -> new content           *)
          status   (* how the last command ended                           *)

None == [s \in {} |-> 0]

Init == /\ lun \in [FSec -> Value] /\ cmd = None /\ status = "none"

Issue ==
  /\ cmd = None
  /\ \E first, last \in FSec : first <= last /\ cmd' \in [first..last -> Value]
  /\ status' = "pending"
  /\ UNCHANGED lun

Store ==
  /\ \E s \in DOMAIN cmd : lun' = [lun EXCEPT ![s] = cmd[s]]
  /\ UNCHANGED <<cmd, status>>

Good ==
  /\ status = "pending" /\ \A s \in DOMAIN cmd : lun[s] = cmd[s]
  /\ cmd' = None /\ status' = "passed"
  /\ UNCHANGED lun

(* A failure is reported, or the host gave the command up (reset). *)
Ends ==
  /\ status = "pending"
  /\ cmd' = None /\ status' \in {"failed", "aborted"}
  /\ UNCHANGED lun

Next == Issue \/ Store \/ Good \/ Ends
Spec == Init /\ [][Next]_<<lun, cmd, status>>
=============================================================================
