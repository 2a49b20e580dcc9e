---------------------------- MODULE MCBufferCache ----------------------------
(* Small instances of BufferCache for TLC.                                  *)
EXTENDS BufferCache, TLC

CONSTANTS k1, k3, k4, k5, dev1

OneDevice == [k \in Blocks |-> dev1]
OnePinned == <<k1>>

(* Tasks are interchangeable, and so are the blocks that are neither pinned *)
(* nor past the end of the device.                                          *)
Symmetric == Permutations(Tasks) \union Permutations(Blocks \ ({k1} \union Bad))

(* Bounds for three tasks: a bitmap is dirty only while at most one of them *)
(* is in a call, and behaviours are followed up to the first hit.  No guard *)
(* reads fresh, copy or disk, so that the lists and counts go through the   *)
(* same states after a hit.                                                 *)
FewDirty == (\E b \in 1..Len(Pinned) : bh[b].dirt) => Cardinality({t \in Tasks : me[t].pc = "out"}) > 1
UntilHit == hit = {}
=============================================================================
