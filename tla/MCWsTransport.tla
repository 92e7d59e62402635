---------------------------- MODULE MCWsTransport -----------------------------
(* Instances of WsTransport for TLC.                                         *)
EXTENDS WsTransport, TLC

LegSymmetry == Permutations(Legs)
===============================================================================
