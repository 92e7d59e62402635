------------------------------ MODULE MCCallLegs ------------------------------
(* Instances of CallLegs for TLC.                                            *)
EXTENDS CallLegs, TLC

LegSymmetry == Permutations(Legs)
===============================================================================
