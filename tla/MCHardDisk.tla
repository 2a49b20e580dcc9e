----------------------------- MODULE MCHardDisk -----------------------------
(* Small instances of HardDisk for TLC.                                    *)
EXTENDS HardDisk

(* Tasks 1, 4 and 5 share buffer 1; buffer 6 is past the end of the disk.  *)
MCUses == <<{1, 5}, {2, 6}, {3}, {1, 4}, {1}>>
=============================================================================
