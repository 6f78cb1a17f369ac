--------------------------- MODULE DeliveryContract ---------------------------
(***************************************************************************)
(* What the outbound queue promises of each message, with no workers, no   *)
(* database statements and no faults in sight: a message is attempted at   *)
(* most MaxAttempts times, each attempt either settles it or puts it back, *)
(* only a message that waits can be parked, and a verdict is final.        *)
(***************************************************************************)
EXTENDS Integers

CONSTANTS Messages, MaxAttempts

VARIABLES
  phase,   \* where each message stands
  spent    \* the attempts it has used up

contract == <<phase, spent>>

Phases == {"absent", "queued", "parked", "trying", "sent", "failed", "gone"}

ContractInit ==
  /\ phase = [m \in Messages |-> "absent"]
  /\ spent = [m \in Messages |-> 0]

(* Some messages that all stand at from move to to. *)
Move(S, from, to) ==
  /\ \A m \in S : phase[m] \in from
  /\ phase' = [m \in Messages |-> IF m \in S THEN to ELSE phase[m]]
  /\ spent' = spent

(* An attempt ends: the message is sent, waits for another, or is given up
   when this was the last one. *)
Attempted(m, to) ==
  /\ phase[m] = "trying"
  /\ spent[m] < MaxAttempts
  /\ to = "queued" => spent[m] + 1 < MaxAttempts
  /\ to = "failed" => spent[m] + 1 = MaxAttempts
  /\ phase' = [phase EXCEPT ![m] = to]
  /\ spent' = [spent EXCEPT ![m] = @ + 1]

ContractNext ==
  \/ \E S \in SUBSET Messages :
       \/ Move(S, {"absent"}, "queued")
       \/ Move(S, {"queued"}, "parked")
       \/ Move(S, {"parked"}, "queued")
       \/ Move(S, {"queued"}, "trying")
       \/ Move(S, {"sent", "failed"}, "gone")
  \/ \E m \in Messages, to \in {"sent", "queued", "failed"} : Attempted(m, to)

ContractSpec == ContractInit /\ [][ContractNext]_contract
=============================================================================
