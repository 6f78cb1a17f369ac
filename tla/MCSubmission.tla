---------------------------- MODULE MCSubmission ----------------------------
(* Small instances of Submission.                                           *)
EXTENDS Submission, TLC

CONSTANTS r1, r2, r3, bad, d1, d2

(* Two recipients at a local domain with two MX hosts, one elsewhere, and
   an address that does not split. *)
ThreeRecipients == {r1, r2, r3}
ThreeDomains    == r1 :> d1 @@ r2 :> d1 @@ r3 :> d2
FourRecipients  == {r1, r2, r3, bad}
FourDomains     == ThreeDomains @@ bad :> Malformed
MCMXHosts       == [d \in Domains |-> IF d = d1 THEN 2 ELSE 1]
MCLocalDomains  == {d1}
=============================================================================
