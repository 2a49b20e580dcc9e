---------------------------- MODULE MCFileBlocks ----------------------------
(* Small instances of FileBlocks for TLC.                                  *)
EXTENDS FileBlocks, TLC

(* Two bytes over the border from the direct to the indirect zone, two     *)
(* over the border from the indirect to the double-indirect one, and four  *)
(* that reach from the one to the other.                                   *)
MCCalls == {<<"write", 1, 2>>, <<"write", 5, 2>>, <<"write", 3, 4>>, <<"read", 5, 2>>}

(* Behaviours are followed up to a truncate under another task's feet.     *)
UntilHit == "truncate" \notin hit

(* The tasks are interchangeable.                                          *)
Symmetric == Permutations(Tasks)
=============================================================================
