---------------------------- MODULE MCAbuseLadder ----------------------------
(* Small instances of AbuseLadder.                                          *)
EXTENDS AbuseLadder, TLC

CONSTANTS a1, r1, r2, op

OneAccount == {a1}
TwoReplicas == {r1, r2}
OneOperator == {op}
=============================================================================
