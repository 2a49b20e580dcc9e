------------------------------- MODULE MCTty -------------------------------
(* Small instances of Tty for TLC.                                         *)
EXTENDS Tty, TLC

MCTexts == {<<"a", "NL">>}

(* The tasks outside the terminal's group are alike.                       *)
Symmetric == Permutations(Tasks \ Group)

(* Behaviours are followed up to the first hit: the properties are about   *)
(* what comes before it.                                                   *)
UntilHit == hit = {}
=============================================================================
