------------------------------ MODULE SendGate ------------------------------
(***************************************************************************)
(* Outbound abuse control on the submission path: SendGate.Check of        *)
(* internal/email and Limiter.Allow of internal/ratelimit, called by       *)
(* Service.Send once per request.  Requests of every replica share the     *)
(* send state in Postgres and the marks and counters in Redis, and nothing *)
(* makes Check's reads, Allow's peek and its increments one step.          *)
(*                                                                         *)
(* Time is a count of minutes.  A fixed-window counter is keyed by the     *)
(* window, whose it is and the bucket Truncate puts the request's own      *)
(* clock in; a key outlives its bucket (the TTL is the period, from the    *)
(* first write), so expiry is not modelled.                                *)
(***************************************************************************)
EXTENDS Integers, FiniteSets

CONSTANTS
  Accounts,
  Anonymous,      \* accounts of TierAnonymous
  Elevated,       \* accounts of TierPaid, or with send_elevated
  Young,          \* accounts that start younger than NewAccountDays
  Requests,       \* Service.Send calls in progress at a time, over all replicas
  Max,            \* limits.*.Max of each window, 0 disables it
  ThrottledMax,   \* the same for the account windows of Limits.Throttled
  NewRecipMax,    \* RecipPerDay of NewAccountAccountLimits
  Period,         \* limits.*.Period of each window
  RecipPerMsg,    \* AccountLimits.RecipPerMsg, 0 is unlimited
  ThrottledRecip, \* the same in Limits.Throttled
  Judged,         \* bound: the accounts whose gate and mark change
  Recips,         \* bound: the recipient counts of the requests
  MaxRecips,      \* bound: none of them is larger
  Horizon,        \* bound: the minutes in one behaviour
  MaxErrors,      \* bound: failed reads and writes in one behaviour
  NoAccount,
  Domain          \* the id of the counters that all accounts share

(* The windows in the order Allow builds its checks. *)
Windows == <<"msgmin", "msghour", "msgday", "recipday",
             "dommsgmin", "domreciphour", "newrecipday">>
Names          == {Windows[i] : i \in DOMAIN Windows}
AccountWindows == {"msgmin", "msghour", "msgday", "recipday"}
RecipWindows   == {"recipday", "domreciphour", "newrecipday"}

ASSUME GateAssumption ==
  /\ Anonymous \subseteq Accounts /\ Elevated \subseteq Accounts /\ Young \subseteq Accounts
  /\ Judged \subseteq Accounts
  /\ Max \in [Names -> Nat] /\ ThrottledMax \in [AccountWindows -> Nat \ {0}]
  /\ Period \in [Names -> Nat \ {0}]
  /\ {RecipPerMsg, ThrottledRecip, Horizon, MaxErrors} \subseteq Nat
  /\ NewRecipMax \in 1 .. ThrottledMax["recipday"]
  /\ MaxRecips \in Nat \ {0} /\ Recips \subseteq 0 .. MaxRecips
  /\ Requests # {} /\ IsFiniteSet(Requests)
  /\ NoAccount \notin Accounts /\ Domain \notin Accounts

VARIABLES
  time,      \* minutes
  count,     \* Redis: counter of <<window, id, bucket>>
  enabled,   \* Postgres: send_enabled of the account's mailbox
  clamped,   \* Redis: the account's mark is throttle or above
  young,     \* the account is younger than NewAccountDays
  step,      \* per request: the step of Check it takes next, or its outcome
  acct,      \* per request: the sender
  recips,    \* per request: its recipients
  limit,     \* per request: the effective limit of each window
  perMsg,    \* per request: the effective RecipPerMsg
  at,        \* per request: the now of its Allow
  owed,      \* per request: the windows it has still to increment
  paid,      \* history, per request: the windows it has incremented
  barred,    \* history, per request: its gate has been shut since it began
  slowed,    \* history, per request: its account has been clamped since it began
  unread,    \* history: how often an account's mark could not be read
  errors

shared   == <<count, enabled, clamped, young>>
local    == <<acct, recips, limit, perMsg, at, owed, paid>>
hist     == <<barred, slowed, unread>>
gateVars == <<time, shared, step, local, hist, errors>>

Outcomes == {"sent", "refused", "denied", "failed", "rejected"}
Unlimited == [w \in Names |-> 0]

GateInit ==
  /\ time    = 0
  /\ count   = [k \in Names \X (Accounts \cup {Domain}) \X (0 .. Horizon) |-> 0]
  /\ enabled = [a \in Accounts |-> TRUE]
  /\ clamped = [a \in Accounts |-> FALSE]
  /\ young   = [a \in Accounts |-> a \in Young]
  /\ step    = [q \in Requests |-> "idle"]
  /\ acct    = [q \in Requests |-> NoAccount]
  /\ recips  = [q \in Requests |-> 0]
  /\ limit   = [q \in Requests |-> Unlimited]
  /\ perMsg  = [q \in Requests |-> 0]
  /\ at      = [q \in Requests |-> 0]
  /\ owed    = [q \in Requests |-> {}]
  /\ paid    = [q \in Requests |-> {}]
  /\ barred  = [q \in Requests |-> FALSE]
  /\ slowed  = [q \in Requests |-> FALSE]
  /\ unread  = 0 /\ errors = 0

-----------------------------------------------------------------------------
(* The clock, and the ladder and the operators who judge an account.       *)

Minute ==
  /\ time < Horizon
  /\ time' = time + 1
  /\ UNCHANGED <<shared, step, local, hist, errors>>

Mature(a) ==
  /\ young[a]
  /\ young' = [young EXCEPT ![a] = FALSE]
  /\ UNCHANGED <<time, count, enabled, clamped, step, local, hist, errors>>

SetSendEnabled(a, on) ==
  /\ enabled[a] # on
  /\ enabled' = [enabled EXCEPT ![a] = on]
  /\ barred'  = [q \in Requests |-> barred[q] /\ ~(on /\ acct[q] = a)]
  /\ UNCHANGED <<time, count, clamped, young, step, local, slowed, unread, errors>>

SetMark(a, on) ==
  /\ clamped[a] # on
  /\ clamped' = [clamped EXCEPT ![a] = on]
  /\ slowed'  = [q \in Requests |-> slowed[q] /\ (on \/ acct[q] # a)]
  /\ UNCHANGED <<time, count, enabled, young, step, local, barred, unread, errors>>

-----------------------------------------------------------------------------
(* One request.                                                            *)

Goto(q, next) == step' = [step EXCEPT ![q] = next]

Submit(q, a, n) ==
  /\ step[q] = "idle"
  /\ Goto(q, "state")
  /\ acct'   = [acct EXCEPT ![q] = a]
  /\ recips' = [recips EXCEPT ![q] = n]
  /\ barred' = [barred EXCEPT ![q] = ~enabled[a]]
  /\ slowed' = [slowed EXCEPT ![q] = clamped[a]]
  /\ UNCHANGED <<time, shared, limit, perMsg, at, owed, paid, unread, errors>>

(* Faulty variant: the categorical refusals do not come first. *)
CheckStateLast(q) ==
  /\ step[q] = "state"
  /\ Goto(q, "account")
  /\ UNCHANGED <<time, shared, local, hist, errors>>

(* GetTier and GetMailboxSendState: the categorical refusals. *)
CheckState(q) ==
  /\ step[q] = "state"
  /\ Goto(q, IF acct[q] \in Anonymous \/ ~enabled[acct[q]] THEN "refused" ELSE "account")
  /\ UNCHANGED <<time, shared, local, hist, errors>>

(* Faulty variant: who pays is not throttled. *)
EffectivePaying(a, throttled) ==
  [w \in Names |->
     IF w \in AccountWindows /\ a \in Elevated THEN 0
     ELSE IF w = "recipday" /\ young[a] THEN NewRecipMax
     ELSE IF w \in AccountWindows /\ throttled THEN ThrottledMax[w]
     ELSE IF w = "newrecipday" /\ (a \in Elevated \/ ~young[a]) THEN 0
     ELSE Max[w]]

(* The limits the request is held to: a throttle overrides elevation, and an
   account that is not elevated is subject to the new-account caps. *)
Effective(a, throttled) ==
  LET elevated   == a \in Elevated /\ ~throttled
      newAccount == young[a] /\ ~elevated IN
  [w \in Names |->
     IF w \in AccountWindows /\ elevated THEN 0
     ELSE IF w = "recipday" /\ newAccount THEN NewRecipMax
     ELSE IF w \in AccountWindows /\ throttled THEN ThrottledMax[w]
     ELSE IF w = "newrecipday" /\ ~newAccount THEN 0
     ELSE Max[w]]

EffectivePerMsg(a, throttled) ==
  IF throttled THEN ThrottledRecip ELSE IF a \in Elevated THEN 0 ELSE RecipPerMsg

(* Throttled and GetAccountCreatedAt, up to the clock reading of Allow.  A
   mark that cannot be read counts as none. *)
ReadLimits(q, throttled) ==
  /\ step[q] = "account"
  /\ Goto(q, "peek")
  /\ limit'  = [limit EXCEPT ![q] = Effective(acct[q], throttled)]
  /\ perMsg' = [perMsg EXCEPT ![q] = EffectivePerMsg(acct[q], throttled)]
  /\ at'     = [at EXCEPT ![q] = time]
  /\ UNCHANGED <<time, shared, acct, recips, owed, paid, barred>>

ReadAccount(q) ==
  /\ ReadLimits(q, clamped[acct[q]])
  /\ UNCHANGED <<slowed, unread, errors>>

ThrottleUnread(q) ==
  /\ errors < MaxErrors
  /\ ReadLimits(q, FALSE)
  /\ slowed' = [slowed EXCEPT ![q] = FALSE]
  /\ unread' = unread + 1
  /\ errors' = errors + 1

Key(q, w) ==
  <<w, IF w \in AccountWindows THEN acct[q] ELSE Domain, at[q] \div Period[w]>>

(* recips is at least 1 to the recipient windows. *)
Add(q, w) == IF w \in RecipWindows /\ recips[q] > 1 THEN recips[q] ELSE 1

Active(q) == {w \in Names : limit[q][w] > 0}

Earlier(v, w) == \E i, j \in DOMAIN Windows : i < j /\ Windows[i] = v /\ Windows[j] = w

(* Faulty variant: what the send would add is not counted. *)
FitsStrictly(q, w) == count[Key(q, w)] < limit[q][w]
Fits(q, w) == count[Key(q, w)] + Add(q, w) <= limit[q][w]

(* The recipients-per-message and message-size checks, then PeekAll over the
   active windows; the size matters nowhere else. *)
Allow(q, tooLarge) ==
  LET fits == /\ ~tooLarge
              /\ perMsg[q] = 0 \/ recips[q] <= perMsg[q]
              /\ \A w \in Active(q) : Fits(q, w) IN
  /\ step[q] = "peek"
  /\ owed' = [owed EXCEPT ![q] = IF fits THEN Active(q) ELSE {}]
  /\ Goto(q, IF ~fits THEN "denied" ELSE IF Active(q) = {} THEN "allowed" ELSE "consume")
  /\ UNCHANGED <<time, shared, acct, recips, limit, perMsg, at, paid, hist, errors>>

(* IncrBy of the next window. *)
Consume(q, w) ==
  /\ step[q] = "consume"
  /\ w \in owed[q] /\ \A v \in owed[q] : ~Earlier(v, w)
  /\ count' = [count EXCEPT ![Key(q, w)] = @ + Add(q, w)]
  /\ paid'  = [paid EXCEPT ![q] = @ \cup {w}]
  /\ owed'  = [owed EXCEPT ![q] = @ \ {w}]
  /\ Goto(q, IF owed[q] = {w} THEN "allowed" ELSE "consume")
  /\ UNCHANGED <<time, enabled, clamped, young, acct, recips, limit, perMsg, at, hist, errors>>

(* A failing read or IncrBy ends Check with an error; what was incremented
   stays. *)
CheckError(q) ==
  /\ errors < MaxErrors
  /\ step[q] \in {"state", "account", "peek", "consume"}
  /\ Goto(q, "failed")
  /\ errors' = errors + 1
  /\ UNCHANGED <<time, shared, local, hist>>

(* The rest of Service.Send: the message is handed on, or turned down by the
   checks of its encryption mode and recipients. *)
Proceed(q, end) ==
  /\ step[q] = "allowed"
  /\ end \in {"sent", "rejected"}
  /\ Goto(q, end)
  /\ UNCHANGED <<time, shared, local, hist, errors>>

Return(q) ==
  /\ step[q] \in Outcomes
  /\ Goto(q, "idle")
  /\ acct'   = [acct EXCEPT ![q] = NoAccount]
  /\ recips' = [recips EXCEPT ![q] = 0]
  /\ limit'  = [limit EXCEPT ![q] = Unlimited]
  /\ perMsg' = [perMsg EXCEPT ![q] = 0]
  /\ at'     = [at EXCEPT ![q] = 0]
  /\ owed'   = [owed EXCEPT ![q] = {}]
  /\ paid'   = [paid EXCEPT ![q] = {}]
  /\ barred' = [barred EXCEPT ![q] = FALSE]
  /\ slowed' = [slowed EXCEPT ![q] = FALSE]
  /\ UNCHANGED <<time, shared, unread, errors>>

Handle(q) ==
  \/ \E a \in Accounts, n \in Recips : Submit(q, a, n)
  \/ CheckState(q) \/ ReadAccount(q) \/ ThrottleUnread(q)
  \/ \E tooLarge \in BOOLEAN : Allow(q, tooLarge)
  \/ \E w \in Names : Consume(q, w)
  \/ CheckError(q)
  \/ \E end \in {"sent", "rejected"} : Proceed(q, end)
  \/ Return(q)

GateNext ==
  \/ Minute
  \/ \E a \in Accounts : Mature(a)
  \/ \E a \in Judged, on \in BOOLEAN : SetSendEnabled(a, on) \/ SetMark(a, on)
  \/ \E q \in Requests : Handle(q)

GateSpec == GateInit /\ [][GateNext]_gateVars

-----------------------------------------------------------------------------
(* The types of the gate: its counters, the marks it reads and the requests in it. *)
GateTypeOK ==
  /\ time    \in 0 .. Horizon
  /\ count   \in [Names \X (Accounts \cup {Domain}) \X (0 .. Horizon) -> Nat]
  /\ enabled \in [Accounts -> BOOLEAN]
  /\ clamped \in [Accounts -> BOOLEAN]
  /\ young   \in [Accounts -> BOOLEAN]
  /\ step    \in [Requests -> {"idle", "state", "account", "peek", "consume", "allowed"}
                                 \cup Outcomes]
  /\ acct    \in [Requests -> Accounts \cup {NoAccount}]
  /\ recips  \in [Requests -> 0 .. MaxRecips]
  /\ limit   \in [Requests -> [Names -> Nat]]
  /\ perMsg  \in [Requests -> Nat]
  /\ at      \in [Requests -> 0 .. Horizon]
  /\ owed    \in [Requests -> SUBSET Names]
  /\ paid    \in [Requests -> SUBSET Names]
  /\ barred  \in [Requests -> BOOLEAN]
  /\ slowed  \in [Requests -> BOOLEAN]
  /\ errors  \in 0 .. MaxErrors /\ unread \in 0 .. errors

MostAdded(w) == IF w \in RecipWindows THEN MaxRecips ELSE 1

(* What the other requests in progress can add behind a request's peek. *)
Slack(w) == MostAdded(w) * (Cardinality(Requests) - 1)

(* A domain window is overrun by no more than the other requests in progress
   can add, whatever the accounts' tiers, marks and ages are and however they
   change meanwhile; requests that come one at a time never overrun it. *)
BackstopHolds ==
  \A k \in DOMAIN count :
    k[2] = Domain /\ Max[k[1]] > 0 => count[k] <= Max[k[1]] + Slack(k[1])

(* A request of an account that was clamped all along gets through only inside
   the throttled windows, elevated or not, up to what ran beside it and what a
   mark that could not be read let in. *)
ThrottleBites ==
  \A q \in Requests, w \in AccountWindows :
    step[q] \in {"allowed", "sent"} /\ slowed[q] =>
      /\ w \in paid[q]
      /\ count[Key(q, w)] <= ThrottledMax[w] + Slack(w) + MostAdded(w) * unread

(* A denial consumes nothing, a categorical refusal never reaches the counters,
   and what gets through has paid into every window it was held to. *)
QuotaIsPaidOnce ==
  \A q \in Requests :
    /\ step[q] \in {"refused", "denied"} => paid[q] = {}
    /\ barred[q] \/ acct[q] \in Anonymous => paid[q] = {} /\ step[q] # "sent"
    /\ step[q] \in {"allowed", "sent", "rejected"} => paid[q] = Active(q)
=============================================================================
