---------------------------- MODULE MCProcessRib ----------------------------
(* Instances of ProcessRib for TLC. *)
EXTENDS ProcessRib

CONSTANTS n1, n2

MCConfigured == <<n1, n2>>
MCOneConfigured == <<n1>>
=============================================================================
