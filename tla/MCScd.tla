------------------------------- MODULE MCScd -------------------------------
(* Instances of Scd for TLC.                                               *)
EXTENDS Scd, TLC

Symmetry == Permutations(Session) \cup Permutations(App) \cup Permutations(Card)
=============================================================================
