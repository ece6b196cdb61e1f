----------------------------- MODULE MCPollCycle -----------------------------
(* Aircraft are told apart only by being equal or not.  The runs that check   *)
(* safety alone take one of each set that differs by a renaming.              *)
EXTENDS PollCycle, TLC

HexSymmetry == Permutations(Hexes)
=============================================================================
