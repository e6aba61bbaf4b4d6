----------------------------- MODULE MCUltragoal -----------------------------
(* Ultragoal for TLC: the signatures of blockers are interchangeable.      *)
EXTENDS Ultragoal, TLC

SignatureSymmetry == Permutations(Signatures)
==============================================================================
