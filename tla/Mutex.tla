-------------------------------- MODULE Mutex --------------------------------
(***************************************************************************)
(* What lock_inode and unlock_inode promise: an inode is held by one task  *)
(* at a time, and only its holder gives it back.                           *)
(***************************************************************************)
CONSTANT Tasks

VARIABLE holders

Init == holders = {}

Acquire(t) == holders = {} /\ holders' = {t}
Release(t) == holders = {t} /\ holders' = {}

Next == \E t \in Tasks : Acquire(t) \/ Release(t)

Spec == Init /\ [][Next]_holders
=============================================================================
