----------------------------- MODULE MCSessions -----------------------------
(* Small instances of Sessions.                                             *)
EXTENDS Sessions, TLC

CONSTANTS r1, r2, s1

Interchangeable == Permutations({r1, r2})
=============================================================================
