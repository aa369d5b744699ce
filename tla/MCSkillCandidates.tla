------------------------- MODULE MCSkillCandidates -------------------------
(* Small instances of SkillCandidates. *)
EXTENDS SkillCandidates, TLC

CONSTANTS c1, k1, w1, w2

Symmetry == Permutations(Workers) \cup Permutations(Trees)
=============================================================================
