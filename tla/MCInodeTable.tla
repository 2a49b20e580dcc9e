---------------------------- MODULE MCInodeTable ----------------------------
(* Small instances of InodeTable for TLC.                                  *)
EXTENDS InodeTable

(* Behaviours are followed up to the first hit: the properties are about   *)
(* the others, and after it the table may hold anything.                   *)
UntilHit == hit = {}
=============================================================================
