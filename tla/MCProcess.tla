------------------------------ MODULE MCProcess ------------------------------
(* Small instances of Process for TLC.                                     *)
EXTENDS Process

AnyChild == {-1}
AllArgs  == {-2, -1, 0} \union 1..MAX_PID
=============================================================================
