------------------------------ MODULE MCMailbox ------------------------------
(* Small instances of Mailbox.                                              *)
EXTENDS Mailbox, TLC

CONSTANTS alice, bob, m1, m2, m3, r1, r2

TwoRequests == Permutations({r1, r2})

(* A received message, somebody else's draft, and room for one. *)
MCStored == m1 :> [box |-> alice, dir |-> "received"]
         @@ m2 :> [box |-> bob, dir |-> "draft"]
         @@ m3 :> Absent
MCFilters == {[folder |-> "Drafts", unread |-> FALSE, starred |-> FALSE, label |-> Null],
              [folder |-> Null, unread |-> FALSE, starred |-> TRUE, label |-> Starred]}
MCSelections == {{m1, m2}, {m1, m3}}
=============================================================================
