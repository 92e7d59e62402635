----------------------------- MODULE MCAnswerGate -----------------------------
(* Instances of AnswerGate for TLC.                                          *)
EXTENDS AnswerGate, TLC

RemoteSymmetry == Permutations(Remotes)
===============================================================================
