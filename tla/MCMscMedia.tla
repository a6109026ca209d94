----------------------------- MODULE MCMscMedia -----------------------------
(* Two cards for TLC: one with two DVDs and a disk, one with a DVD of the   *)
(* name of one of them and nothing else.                                    *)
EXTENDS MscMedia

MCCards   == {"a", "b"}
MCFiles   == [c \in MCCards |-> IF c = "a" THEN <<1, 3, 2>> ELSE <<2>>]
MCKind    == <<"dvd", "dvd", "disk">>
MCAtPower == {<<"none", 0>>, <<"a", 0>>, <<"a", 2>>}
=============================================================================
