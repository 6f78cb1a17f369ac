--------------------------- MODULE MCOutboundQueue ---------------------------
(* Small instances of OutboundQueue: two replicas and two accounts.         *)
EXTENDS OutboundQueue, TLC

CONSTANTS m1, m2, w1, w2, s1, s2

MCMessages == {m1, m2}
MCSenders == {s1, s2}
MCWorkers == {w1, w2}
MCSenderOf == m1 :> s1 @@ m2 :> s2

(* Shorter than MaxAttempts - 1, so that the clamp of getRetryDelay is used. *)
MCRetryDelays == <<1>>
=============================================================================
