----------------------------- MODULE MCReceive ------------------------------
(* The inbound side: the server, which knows only that it may be told to
   refuse, and the limiter that tells it so.  They share no state, and no
   property is about both: a behaviour is one of the server or one of the
   limiter, while the other is at rest. *)
EXTENDS MCInbound, InboundLimiter

VARIABLE half

ReceiveInit ==
  /\ Init /\ LimiterInit /\ half \in {"server", "limiter"}
  /\ half = "limiter" => DOMAIN spool = {"arf"}

ReceiveNext ==
  \/ half = "server" /\ Next /\ UNCHANGED <<half, limiterVars>>
  \/ half = "limiter" /\ LimiterNext /\ UNCHANGED <<half, vars>>

ReceiveSpec == ReceiveInit /\ [][ReceiveNext]_<<half, vars, limiterVars>>
=============================================================================
