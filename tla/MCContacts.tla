----------------------------- MODULE MCContacts -----------------------------
(* Small instances of Contacts.                                             *)
EXTENDS Contacts, TLC

CONSTANTS i1, i2, r1, r2, a1, a2

Interchangeable == Permutations({i1, i2}) \cup Permutations({r1, r2})
                     \cup Permutations({a1, a2})
=============================================================================
