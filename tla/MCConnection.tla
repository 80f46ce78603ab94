---------------------------- MODULE MCConnection ----------------------------
(* Instances of Connection for TLC. *)
EXTENDS Connection, TLC

CONSTANTS d1, t1, t2

OneDocument == {d1}
OneToken == {t1}
TwoTokens == {t1, t2}

TokenSymmetry == Permutations(Tokens)
=============================================================================
