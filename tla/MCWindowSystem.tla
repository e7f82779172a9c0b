---------------------------- MODULE MCWindowSystem ----------------------------
(* TLC instances of WindowSystem.                                            *)
EXTENDS WindowSystem

AnyOrder == Permutations(Windows)
===============================================================================
