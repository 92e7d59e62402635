---------------------------- MODULE MCServerThread ----------------------------
(* Instances of ServerThread for TLC.                                        *)
EXTENDS ServerThread, TLC

CallerSymmetry == Permutations(Callers)
===============================================================================
