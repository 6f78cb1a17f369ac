------------------------------- MODULE MCSend -------------------------------
(* The two halves of Service.Send, the gate and the delivery.  They share no
   state, and no property is about both: a behaviour is one of the gate or one
   of the delivery, while the other half is at rest. *)
EXTENDS MCSendGate, MCSubmission

VARIABLE half

SendInit ==
  /\ GateInit /\ SubmissionInit /\ half \in {"gate", "delivery"}
  /\ half = "gate" => mode = "relay"

SendNext ==
  \/ half = "gate" /\ GateNext /\ UNCHANGED <<half, submission>>
  \/ half = "delivery" /\ SubmissionNext /\ UNCHANGED <<half, gateVars>>

SendSpec == SendInit /\ [][SendNext]_<<half, gateVars, submission>>
=============================================================================
