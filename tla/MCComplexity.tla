---------------------------- MODULE MCComplexity ----------------------------
(* Instances of Complexity for TLC. *)
EXTENDS Complexity

MCSizes == <<0, 1, 2>>
=============================================================================
