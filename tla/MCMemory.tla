------------------------------ MODULE MCMemory ------------------------------
(* Small instances of Memory for TLC.                                      *)
EXTENDS Memory

(* Behaviours are followed up to the first hit: the properties are about   *)
(* the others.                                                             *)
UntilHit == hit = {}
=============================================================================
