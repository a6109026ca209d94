------------------------------ MODULE MCSdInit ------------------------------
(* SdInit with a card of each kind that the driver treats differently.     *)
EXTENDS SdInit

MCCards == {"u", "h", "o"}
MCKind == [c \in MCCards |-> CASE c = "u" -> "uhs" [] c = "h" -> "hs" [] OTHER -> "old"]
=============================================================================
