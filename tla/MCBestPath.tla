----------------------------- MODULE MCBestPath -----------------------------
(* Instances of BestPath for TLC. *)
EXTENDS BestPath

\* A value apart from the default, and two values to compare.
MCTwo == {1, 2}
MCOne == {2}
MCOwnAS == {"absent"}
=============================================================================
