---------------------------- MODULE MCGameSession ----------------------------
(* Two or three sessions of one character: one plays, the others take over.  *)
(* There is room for two Player objects, one in the game and one on its way  *)
(* out.                                                                      *)
EXTENDS GameSession, TLC
CONSTANTS s1, s2, s3, o1, o2, none

Symmetry == Permutations(Sessions) \cup Permutations(Objects)
=============================================================================
