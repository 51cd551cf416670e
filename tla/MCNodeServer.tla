---------------------------- MODULE MCNodeServer ----------------------------
(* Instances of NodeServer for TLC. *)
EXTENDS NodeServer, TLC

CONSTANTS c1, c2, c3

\* Connections with the same role are interchangeable (safety runs only).
ConnSymmetry == Permutations(Killer) \cup Permutations(Conn \ Killer)
=============================================================================
