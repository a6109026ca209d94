-------------------------- MODULE MCSdWriteStream --------------------------
(* The stream on a small card: chunks of two blocks, two buffers, and two   *)
(* contents per buffer that differ in every block.                          *)
EXTENDS SdWriteStream, TLC
CONSTANTS b1, b2, x, y
MCBuf     == {b1, b2}
MCValue   == {x, y, Blank}
MCPattern == {<<x, y>>, <<y, x>>}
MCOneBlock == {<<x>>}
(* Bound: a behaviour is followed up to the first begin after blocks reached *)
(* the card; what matters to a later stream is the mode the card was left in. *)
CleanStart == call.op = "begin" => disk = [s \in Sector |-> Blank]
Symmetry  == Permutations(MCBuf) \cup Permutations({x, y})
=============================================================================
