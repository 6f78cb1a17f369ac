---------------------------- MODULE OutboundQueue ----------------------------
(***************************************************************************)
(* The persistent outbound queue: the outbound_queue table of Postgres and *)
(* the workers that drain it (internal/transport/queue.go).  Every backend *)
(* replica runs one worker; they share nothing but the table.  A statement *)
(* against the table is one step; everything the code does in Go between   *)
(* two statements may interleave with the other workers, with the abuse    *)
(* ladder's HoldForSender and ReleaseForSender, and with a crash.          *)
(*                                                                         *)
(* The module models the queue as its methods define it.  At this commit   *)
(* main.go starts the worker and the ladder holds and releases rows, but   *)
(* nothing calls Enqueue or PurgeOld yet.                                  *)
(*                                                                         *)
(* next_attempt is kept as wait, the ticks left until it lies in the past; *)
(* bodies, recipients, errors and the order of rows that are all due are   *)
(* abstracted away.                                                        *)
(***************************************************************************)
EXTENDS Integers, Sequences, FiniteSets

CONSTANTS
  Messages,      \* queue ids; generateQueueID never returns one twice
  Senders,       \* accounts, the sender_pubkey of a row's metadata
  SenderOf,      \* the account each message was submitted by
  Workers,       \* one StartWorker loop per replica
  MaxAttempts,   \* OutboundQueueConfig.MaxAttempts
  RetryDelays,   \* OutboundQueueConfig.RetryDelays, in ticks
  BatchSize,     \* the batch StartWorker passes to Dequeue
  MaxFaults,     \* bound: crashes and database errors in one behaviour
  NoMessage      \* the worker has no message in hand

ASSUME ConstantsAssumption ==
  /\ SenderOf \in [Messages -> Senders]
  /\ MaxAttempts \in Nat \ {0}
  /\ RetryDelays \in Seq(Nat)
  /\ BatchSize \in Nat \ {0}
  /\ MaxFaults \in Nat
  /\ NoMessage \notin Messages

VARIABLES
  status,     \* column status; "absent" before Enqueue, "purged" after PurgeOld
  attempts,   \* column attempts
  wait,       \* column next_attempt, as the ticks left until it is due
  pc,         \* where each worker's loop stands
  batch,      \* the messages of the worker's batch it has not finished with
  cur,        \* the one it is delivering or marking
  seen,       \* the attempts value MarkFailed read, before it writes it back
  tries,      \* history: how often delivery of a message was attempted
  accepted,   \* history: how often the relay accepted a message
  unsure,     \* history: how often it did while the worker was told it failed
  bounces,    \* history: how often the permanent-failure callback ran
  faults      \* how many crashes and database errors there have been

rows  == <<status, attempts, wait>>
procs == <<pc, batch, cur, seen>>
relay == <<tries, accepted, unsure>>
vars  == <<rows, procs, relay, bounces, faults>>

Waiting    == {"pending", "retry"}
Unsettled  == Waiting \cup {"processing", "held"}
Terminal   == {"sent", "failed"}
Statuses   == {"absent", "purged"} \cup Unsettled \cup Terminal
WorkerPC   == {"poll", "deliver", "markSent", "markFailed", "update", "callback"}

Init ==
  /\ status   = [m \in Messages |-> "absent"]
  /\ attempts = [m \in Messages |-> 0]
  /\ wait     = [m \in Messages |-> 0]
  /\ pc       = [w \in Workers |-> "poll"]
  /\ batch    = [w \in Workers |-> {}]
  /\ cur      = [w \in Workers |-> NoMessage]
  /\ seen     = [w \in Workers |-> 0]
  /\ tries    = [m \in Messages |-> 0]
  /\ accepted = [m \in Messages |-> 0]
  /\ unsure   = [m \in Messages |-> 0]
  /\ bounces  = [m \in Messages |-> 0]
  /\ faults   = 0

-----------------------------------------------------------------------------
(* The table's other clients.                                              *)

Enqueue(m) ==
  /\ status[m] = "absent"
  /\ status' = [status EXCEPT ![m] = "pending"]
  /\ wait'   = [wait EXCEPT ![m] = 0]
  /\ UNCHANGED <<attempts, procs, relay, bounces, faults>>

(* Faulty variant: the status is not in the WHERE clause. *)
HoldableAny(s) == {m \in Messages : SenderOf[m] = s /\ status[m] \notin {"absent", "purged"}}

(* Rows of a sender that HoldForSender parks. *)
Holdable(s) == {m \in Messages : SenderOf[m] = s /\ status[m] \in Waiting}

HoldForSender(s) ==
  /\ status'  = [m \in Messages |-> IF m \in Holdable(s) THEN "held" ELSE status[m]]
  /\ UNCHANGED <<attempts, wait, procs, relay, bounces, faults>>

ReleaseForSender(s) ==
  LET held == {m \in Messages : SenderOf[m] = s /\ status[m] = "held"} IN
  /\ status'  = [m \in Messages |-> IF m \in held THEN "pending" ELSE status[m]]
  /\ wait'    = [m \in Messages |-> IF m \in held THEN 0 ELSE wait[m]]
  /\ UNCHANGED <<attempts, procs, relay, bounces, faults>>

(* created_at is not modelled: any set of settled rows may be old enough. *)
PurgeOld(S) ==
  /\ S # {}
  /\ \A m \in S : status[m] \in Terminal
  /\ status' = [m \in Messages |-> IF m \in S THEN "purged" ELSE status[m]]
  /\ UNCHANGED <<attempts, wait, procs, relay, bounces, faults>>

Tick ==
  /\ \E m \in Messages : wait[m] > 0
  /\ wait' = [m \in Messages |-> IF wait[m] > 0 THEN wait[m] - 1 ELSE 0]
  /\ UNCHANGED <<status, attempts, procs, relay, bounces, faults>>

-----------------------------------------------------------------------------
(* The worker loop, StartWorker.                                           *)

(* Faulty variants: a claimed row is due as well; a retry never is. *)
DueUnlocked == {m \in Messages : status[m] \in Waiting \cup {"processing"} /\ wait[m] = 0}

DueOnce     == {m \in Messages : status[m] = "pending" /\ wait[m] = 0}

(* The rows the subselect of Dequeue may return. *)
Due == {m \in Messages : status[m] \in Waiting /\ wait[m] = 0}

(* UPDATE ... WHERE id IN (SELECT ... FOR UPDATE SKIP LOCKED): one atomic
   claim of up to BatchSize due rows. *)
Claim(S) ==
  /\ S # {}
  /\ S \subseteq Due
  /\ Cardinality(S) <= BatchSize
  /\ status' = [m \in Messages |-> IF m \in S THEN "processing" ELSE status[m]]
  /\ UNCHANGED <<attempts, wait, relay, bounces>>

Dequeue(w, S) ==
  /\ pc[w] = "poll"
  /\ Claim(S)
  /\ batch' = [batch EXCEPT ![w] = S]
  /\ pc'    = [pc EXCEPT ![w] = "deliver"]
  /\ UNCHANGED <<cur, seen, faults>>

(* The claim commits but scanning its result fails: StartWorker logs the
   error and polls again, and nobody holds the claimed rows. *)
DequeueLost(w, S) ==
  /\ faults < MaxFaults
  /\ pc[w] = "poll"
  /\ Claim(S)
  /\ faults' = faults + 1
  /\ UNCHANGED procs

(* Faulty variant: the error of deliver is dropped. *)
DeliverOptimistic(w, m, took, ok) ==
  /\ pc[w] = "deliver"
  /\ m \in batch[w]
  /\ ok => took
  /\ tries'    = [tries EXCEPT ![m] = @ + 1]
  /\ accepted' = [accepted EXCEPT ![m] = IF took THEN @ + 1 ELSE @]
  /\ unsure'   = [unsure EXCEPT ![m] = IF took /\ ~ok THEN @ + 1 ELSE @]
  /\ cur' = [cur EXCEPT ![w] = m]
  /\ pc'  = [pc EXCEPT ![w] = "markSent"]
  /\ UNCHANGED <<rows, batch, seen, bounces, faults>>

(* deliver(ctx, m), SendRaw through the relay.  The relay can accept the
   message while the reply to the end of DATA is lost: an error to us. *)
Deliver(w, m, took, ok) ==
  /\ pc[w] = "deliver"
  /\ m \in batch[w]
  /\ ok => took
  /\ tries'    = [tries EXCEPT ![m] = @ + 1]
  /\ accepted' = [accepted EXCEPT ![m] = IF took THEN @ + 1 ELSE @]
  /\ unsure'   = [unsure EXCEPT ![m] = IF took /\ ~ok THEN @ + 1 ELSE @]
  /\ cur' = [cur EXCEPT ![w] = m]
  /\ pc'  = [pc EXCEPT ![w] = IF ok THEN "markSent" ELSE "markFailed"]
  /\ UNCHANGED <<rows, batch, seen, bounces, faults>>

(* On to the next message of the batch, or back to polling. *)
Finish(w) ==
  /\ batch' = [batch EXCEPT ![w] = @ \ {cur[w]}]
  /\ cur'   = [cur EXCEPT ![w] = NoMessage]
  /\ pc'    = [pc EXCEPT ![w] = IF batch[w] \subseteq {cur[w]} THEN "poll" ELSE "deliver"]

MarkSent(w) ==
  /\ pc[w] = "markSent"
  /\ status'   = [status EXCEPT ![cur[w]] = "sent"]
  /\ attempts' = [attempts EXCEPT ![cur[w]] = @ + 1]
  /\ Finish(w)
  /\ UNCHANGED <<wait, seen, relay, bounces, faults>>

(* MarkFailed reads attempts with one statement ... *)
MarkFailedSelect(w) ==
  /\ pc[w] = "markFailed"
  /\ seen' = [seen EXCEPT ![w] = attempts[cur[w]]]
  /\ pc'   = [pc EXCEPT ![w] = "update"]
  /\ UNCHANGED <<rows, batch, cur, relay, bounces, faults>>

(* Faulty variant: one attempt too many. *)
IsPermanentLate(n) == n > MaxAttempts
IsPermanent(n) == n >= MaxAttempts

getRetryDelay(n) ==
  IF n <= 0 \/ Len(RetryDelays) = 0
  THEN 1
  ELSE RetryDelays[IF n > Len(RetryDelays) THEN Len(RetryDelays) ELSE n]

(* ... and writes the new count, the verdict and the backoff with another. *)
WriteFailure(w) ==
  LET m == cur[w]
      n == seen[w] + 1 IN
  /\ pc[w] = "update"
  /\ status'   = [status EXCEPT ![m] = IF IsPermanent(n) THEN "failed" ELSE "retry"]
  /\ attempts' = [attempts EXCEPT ![m] = n]
  /\ wait'     = [wait EXCEPT ![m] = IF IsPermanent(n) THEN 0 ELSE getRetryDelay(n)]
  /\ UNCHANGED <<seen, relay, bounces>>

(* Faulty variant: the callback runs after every failure. *)
MarkFailedUpdateTells(w) ==
  /\ WriteFailure(w)
  /\ pc' = [pc EXCEPT ![w] = "callback"]
  /\ UNCHANGED <<batch, cur, faults>>

MarkFailedUpdate(w) ==
  /\ WriteFailure(w)
  /\ IF IsPermanent(seen[w] + 1)
     THEN pc' = [pc EXCEPT ![w] = "callback"] /\ UNCHANGED <<batch, cur>>
     ELSE Finish(w)
  /\ UNCHANGED faults

(* onPermanentFailure: RecordOutboundFailure stores one bounce. *)
Callback(w) ==
  /\ pc[w] = "callback"
  /\ bounces' = [bounces EXCEPT ![cur[w]] = @ + 1]
  /\ Finish(w)
  /\ UNCHANGED <<rows, seen, relay, faults>>

(* A mark that fails is only logged: the worker goes on to the next message
   and leaves the row as it is. *)
MarkError(w) ==
  /\ faults < MaxFaults
  /\ pc[w] \in {"markSent", "markFailed", "update", "callback"}
  /\ Finish(w)
  /\ faults' = faults + 1
  /\ UNCHANGED <<rows, seen, relay, bounces>>

(* The UPDATE of MarkFailed commits and its reply is lost: MarkFailed
   returns before it reaches the callback. *)
MarkFailedUpdateLost(w) ==
  /\ faults < MaxFaults
  /\ WriteFailure(w)
  /\ Finish(w)
  /\ faults' = faults + 1

(* The process dies, or shutdown cancels the worker's context; a new process
   starts polling and knows nothing of the old batch. *)
Crash(w) ==
  /\ faults < MaxFaults
  /\ pc[w] # "poll"
  /\ pc'    = [pc EXCEPT ![w] = "poll"]
  /\ batch' = [batch EXCEPT ![w] = {}]
  /\ cur'   = [cur EXCEPT ![w] = NoMessage]
  /\ faults' = faults + 1
  /\ UNCHANGED <<rows, seen, relay, bounces>>

Work(w) ==
  \/ \E S \in SUBSET Messages : Dequeue(w, S)
  \/ \E m \in Messages, took, ok \in BOOLEAN : Deliver(w, m, took, ok)
  \/ MarkSent(w)
  \/ MarkFailedSelect(w)
  \/ MarkFailedUpdate(w)
  \/ Callback(w)

Fault(w) ==
  \/ \E S \in SUBSET Messages : DequeueLost(w, S)
  \/ MarkError(w)
  \/ MarkFailedUpdateLost(w)
  \/ Crash(w)

Next ==
  \/ \E m \in Messages : Enqueue(m)
  \/ \E s \in Senders : HoldForSender(s) \/ ReleaseForSender(s)
  \/ \E S \in SUBSET Messages : PurgeOld(S)
  \/ Tick
  \/ \E w \in Workers : Work(w) \/ Fault(w)

Spec == Init /\ [][Next]_vars

(* A worker's loop always takes its next step, and time passes.  Callers of
   the queue and the ladder need not act. *)
Fairness == WF_vars(Tick) /\ \A w \in Workers : WF_vars(Work(w))

FairSpec == Spec /\ Fairness

-----------------------------------------------------------------------------
InHand(m) == \E w \in Workers : m \in batch[w]

(* A row left in "processing" by a fault, which no worker works on. *)
Orphan(m) == status[m] = "processing" /\ ~InHand(m)

TypeOK ==
  /\ status   \in [Messages -> Statuses]
  /\ attempts \in [Messages -> Nat]
  /\ wait     \in [Messages -> Nat]
  /\ pc       \in [Workers -> WorkerPC]
  /\ batch    \in [Workers -> SUBSET Messages]
  /\ cur      \in [Workers -> Messages \cup {NoMessage}]
  /\ seen     \in [Workers -> Nat]
  /\ tries    \in [Messages -> Nat]
  /\ accepted \in [Messages -> Nat]
  /\ unsure   \in [Messages -> Nat]
  /\ bounces  \in [Messages -> Nat]
  /\ faults   \in Nat

(* Dequeue's claim is exclusive: no message is in the batch of two workers,
   and a row stays "processing" from the claim until its own worker has
   settled it (the callback runs after the row was marked failed). *)
SoleOwner ==
  \A w \in Workers : \A m \in batch[w] :
    /\ \A v \in Workers \ {w} : m \notin batch[v]
    /\ IF pc[w] = "callback" /\ cur[w] = m THEN status[m] \in {"failed", "purged"}
                                           ELSE status[m] = "processing"

(* MarkFailed's SELECT and UPDATE are two statements, but the count it writes
   back is never computed from a stale one. *)
NoLostAttempt ==
  \A w \in Workers : pc[w] = "update" => seen[w] = attempts[cur[w]]

(* No message is ever tried more than MaxAttempts times, whatever crashes and
   failed marks come between the attempts; a message given up on has used them
   all. *)
AttemptBudget ==
  \A m \in Messages :
    /\ tries[m] <= MaxAttempts
    /\ status[m] = "failed" => tries[m] = MaxAttempts

(* The queue itself never delivers a message twice: every acceptance by the
   relay but one was reported to the worker as an error. *)
NoDuplicateDelivery == \A m \in Messages : accepted[m] <= unsure[m] + 1

(* A message marked sent was accepted by the relay, and one marked failed never
   was without the worker being told otherwise. *)
VerdictIsTrue ==
  \A m \in Messages :
    /\ status[m] = "sent" => accepted[m] = unsure[m] + 1
    /\ status[m] = "failed" => accepted[m] = unsure[m]

(* The sender hears of a permanent failure at most once, and only of one. *)
BounceOnlyOnce ==
  \A m \in Messages :
    /\ bounces[m] <= 1
    /\ bounces[m] = 1 => status[m] \in {"failed", "purged"} /\ tries[m] = MaxAttempts

(* Whatever the workers and the ladder do, a settled message stays settled the
   way it was until PurgeOld removes it, and an id never comes back. *)
SettledForGood ==
  [][\A m \in Messages :
       /\ status[m] \in Terminal => status'[m] \in {status[m], "purged"}
       /\ status[m] = "purged" => status'[m] = "purged"]_vars

(* Every message in the queue ends up sent or failed, unless the ladder parks
   it or a fault orphans it. *)
EverythingSettles ==
  \A m \in Messages :
    status[m] \in Waiting \cup {"processing"} ~>
      status[m] \in Terminal \cup {"purged", "held"} \/ Orphan(m)

(* Worker w's batch: what is in it is untried but for the current message, and
   that one has been tried once more than its row says. *)
Hand(w) ==
  /\ pc[w] = "poll" => batch[w] = {}
  /\ pc[w] \in {"poll", "deliver"} => cur[w] = NoMessage
  /\ pc[w] \notin {"poll", "deliver"} => cur[w] \in batch[w]
  /\ \A m \in batch[w] \ {cur[w]} : tries[m] = attempts[m] /\ accepted[m] = unsure[m]
  /\ pc[w] \in {"markSent", "markFailed", "update"} => tries[cur[w]] = attempts[cur[w]] + 1
  /\ pc[w] = "markSent" => accepted[cur[w]] = unsure[cur[w]] + 1
  /\ pc[w] \in {"markFailed", "update"} => accepted[cur[w]] = unsure[cur[w]]
  /\ pc[w] = "callback" => bounces[cur[w]] = 0 /\ tries[cur[w]] = MaxAttempts

(* What the columns of m's row say about its history. *)
Ledger(m) ==
  /\ status[m] \in {"absent", "held"} \cup Waiting =>
       tries[m] = attempts[m] /\ accepted[m] = unsure[m]
  /\ status[m] \in {"absent"} \cup Unsettled =>
       attempts[m] < MaxAttempts /\ bounces[m] = 0
  /\ status[m] = "processing" =>
       tries[m] <= attempts[m] + 1 /\ accepted[m] <= unsure[m] + 1
  /\ status[m] = "sent" =>
       tries[m] <= MaxAttempts /\ accepted[m] = unsure[m] + 1 /\ bounces[m] = 0
  /\ status[m] = "failed" => tries[m] = MaxAttempts /\ accepted[m] = unsure[m]
  /\ status[m] = "purged" => tries[m] <= MaxAttempts /\ accepted[m] <= unsure[m] + 1
  /\ bounces[m] <= 1
  /\ bounces[m] = 1 => status[m] \in {"failed", "purged"} /\ tries[m] = MaxAttempts

HandInv   == \A w \in Workers : Hand(w)
LedgerInv == \A m \in Messages : Ledger(m)

(* The inductive invariant behind the safety properties above. *)
QueueInv == TypeOK /\ SoleOwner /\ NoLostAttempt /\ HandInv /\ LedgerInv

(* The queue keeps the contract: pending and retry are both queued, and the
   attempts column is what has been spent. *)
Contract == INSTANCE DeliveryContract WITH
  phase <- [m \in Messages |-> CASE status[m] \in Waiting -> "queued"
                                 [] status[m] = "held" -> "parked"
                                 [] status[m] = "processing" -> "trying"
                                 [] status[m] = "purged" -> "gone"
                                 [] OTHER -> status[m]],
  spent <- attempts

(* Every step of the workers, the ladder and the faults is a step the contract
   allows, or changes nothing a client of the queue can see. *)
KeepsContract == Contract!ContractSpec
=============================================================================
