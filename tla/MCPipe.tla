------------------------------- MODULE MCPipe -------------------------------
(* Small instances of Pipe for TLC.                                        *)
EXTENDS Pipe, TLC

(* All tasks but the one that made the pipe are alike.                     *)
Symmetric == Permutations(Tasks \ {Creator})
=============================================================================
