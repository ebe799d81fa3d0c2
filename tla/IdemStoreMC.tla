---------------------------- MODULE IdemStoreMC ----------------------------
(***************************************************************************)
(* One key for TLC: a request and its repetitions, and somebody else, or   *)
(* the same client with another body, with the same key.                   *)
(***************************************************************************)
EXTENDS IdemStore, TLC

CONSTANT other

MCHash == [r \in Request |-> IF r = other THEN "other" ELSE "same"]

Repetitions == Permutations(Request \ {other})
=============================================================================
