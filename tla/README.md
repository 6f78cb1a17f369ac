# TLA+ verification of cloistr-email

This directory holds TLA+ models of the email backend of this repository
(`cmd/email`, `internal/*`), the TLC configurations that check them on small
instances, and TLAPS proofs of their safety properties. `PROJECT.json` maps
every definition to the lines it models and lists runs, mutants, findings,
hazards and theorems.

## The system

The backend runs as several identical replicas (`k8s/backend-deployment.yaml`
has two) that share Postgres, a Redis-compatible store and an SMTP relay, and
nothing else. Each replica serves the HTTP API, accepts SMTP from outside, and
runs background loops: a queue worker, the abuse detector, the usage reconciler.

| Component | State | Operations | Talks to | What makes it correct |
|---|---|---|---|---|
| Outbound queue (`transport/queue.go`) | table `outbound_queue` | Enqueue, Dequeue, MarkSent, MarkFailed, HoldForSender, ReleaseForSender, PurgeOld; worker loop | relay, ladder, bounce log | one owner per claimed row, bounded attempts, true and final verdicts, one bounce, everything settles |
| Abuse ladder and detector (`abuse/`) | marks in Redis, `send_enabled` in Postgres, held rows | Scan, Apply (escalate, renew, deescalate), ReleaseManual | queue, send gate | stores agree, a hold is enforced and lifts in time, suspend is final |
| Send gate and limiter (`email/sendgate.go`, `ratelimit/`) | fixed-window counters in Redis | Check, Allow | ladder's marks, mailboxes | windows hold, a throttle binds, denials are free |
| Submission and delivery (`email/service.go` Send, `transport/smtp.go`, `mx.go`) | sent folder, in-flight delivery | Send, sendDirect, sendHybrid, sendViaSMTP | MX hosts, relay, client | success is true for every recipient, no needless duplicates, sent folder is true |
| Mailbox and drafts (`email/service.go`, `email/drafts.go`, `api/email_handler.go`, `storage/postgres.go`) | rows of `emails` | open, list, move, label, star, delete, bulk actions, drafts | sessions | nobody else's mail, no lost save, a deletion is final, an error leaves no trace |
| Contacts (`api/handler.go`, `storage/postgres.go`) | rows of `contacts`, soft-deleted | add, update, delete, search, list | sessions | books stay apart, a deletion is undone by adding only, no lost field |
| Inbound SMTP server (`transport/inbound.go`, `transport/ratelimit.go`) | sessions, per-host counters | MAIL, RCPT, DATA, RSET; limiter and sweeper | SPF, DKIM, inbound processing, bounces | 250 means stored, nothing leaks between transactions, limits hold |
| Inbound processing (`email/inbound.go`, `inbound_attachments.go`) | rows of `emails`, attachments | HandleMessage, storeForRecipient, ValidateRecipient | addresses, blob servers | one copy per mailbox, whatever is retried |
| Bounces, feedback loops (`transport/bounce.go`, `fbl.go`) | bounce and complaint tables | recognise, parse, attribute, store; callback of the queue | ladder's signals | a report is charged to the account that sent the message |
| Authentication (`auth/nip46.go`, `api/auth_clientside.go`, `storage/redis.go`) | challenges and sessions in Redis, connections in memory | challenge, verify, refresh, logout, nostrconnect, requests to the signer | Redis, relays, the signer | a challenge is redeemed once, a refreshed or logged-out token is dead, an answer is used for its own request |
| Domain registry (`domains/`, `api/internal_domains.go`) | domain rows, a snapshot per replica, DKIM keys | reload, create, verify, activate, rotate, delete; choice of a signer (`transport/smtp.go`) | DNS, Redis messages, the configuration's signer | snapshots follow the table, a key is used only once it was seen |
| Usage reconciler (`usage/`) | recorded usage of each mailbox | measure, report the difference | platform API | corrections are applied once |
| Migrator (`storage/migrate.go`) | schema version | Run | Postgres | all or nothing, once, under concurrent starts |

Hard behaviours: replicas interleave on shared rows without locks; store
operations fail half way through a sequence; the process dies between two
statements; the relay accepts a message and its answer is lost; checks are made
on values that change before they are used; things must eventually happen (a
message settles, a hold lifts). `hazards` in `PROJECT.json` lists them one by
one, each at its line.

## What is modelled

**`OutboundQueue`** is the queue table and the workers of all replicas. A
variable per column (`status`, `attempts`, `wait` for `next_attempt`), and per
worker its place in the loop, the rest of its batch, its current message and the
`attempts` value MarkFailed has read. One action per SQL statement:
`Dequeue` is the claiming `UPDATE ... FOR UPDATE SKIP LOCKED`, `Deliver` is
`SendRaw`, MarkFailed is `MarkFailedSelect`, `MarkFailedUpdate`, `Callback`.
Faults: a crash, a statement that fails, a statement that commits while its
reply is lost, a relay acceptance whose reply is lost. `HoldForSender`,
`ReleaseForSender` and `PurgeOld` interleave anywhere. History variables count
attempts, acceptances and bounces.

**`DeliveryContract`** is what a client of the queue may rely on, without
workers, statements or faults. `OutboundQueue!Contract` instantiates it with the
mapping pending/retry -> queued, held -> parked, processing -> trying, purged ->
gone; `KeepsContract` is the refinement.

**`AbuseLadder`** is `Ladder.Apply` as run by the detectors of all replicas: read
the mark, decide (`Branch`), then one action per store operation in the code's
order (`CloseGate`, `HoldForSender`, `WriteMark`; `OpenGate`,
`ReleaseForSender`, `WriteMark`; `Renew`). The rung that Evaluate would return
is the environment's choice; the age of a mark is whether MinHoldDuration has
passed. `Enqueues` says whether sends leave rows in `outbound_queue`, which is
where the detector looks: it is FALSE in the program as it stands.

**`SendGate`** is `SendGate.Check` and `Limiter.Allow` as a Service.Send request
goes through them: refusals, the limits in force, the peek, then one increment
per window, in the order of `checks`. Time is in minutes, counters are keyed by
window, owner and bucket. The mark, age and gate of an account change while
requests are in flight. `paid`, `barred`, `slowed` and `unread` are history: the
windows a request has paid into, whether its account was shut or clamped all
along, and how often a mark could not be read (Check then goes on without it).

**`Submission`** is the delivery behind the gate: routing by mode, MX hosts in
order of preference, the relay leg, the single `lastErr`, the sent folder, the
answer and the client that sends again.

**`Mailbox`** is the `emails` table and the requests of several devices on it.
Operators on a row are the SQL statements (`UpdateEmail`, `AddEmailLabel`,
`BulkArchive`, ...); the actions named after Service methods execute them; the
actions ending in `V2` are the handlers. `CheckOwner` is the GetEmail by id that
precedes every write, a step of its own, so that anything may come between check
and write. `GetEmail` writes the whole row it read back. Labels keep SQL's NULL:
adding a label to a row whose labels are NULL changes nothing.

**`Contacts`** is the address book. Adding is one upsert that revives a
soft-deleted row; updating is a read (`UpdateContactRead`) and a later write of
the whole row (`UpdateContact`). `carried` remembers, field by field, what the
accepted requests said, and `raced` the contacts on which two updates overlapped.

**`Reports`** says how a bounce or complaint is recognised, what is read out of
it, and which account it is charged to (`resolveSender`: by Message-ID, else by
the newest message to that recipient within the window). It is extended by
**`InboundServer`**, the SMTP sessions and the handler behind them: a session is
a record with the phase of its transaction, every statement of
`storeForRecipient` is a step, and the sending servers are modelled by their
spool: they keep a recipient until it is answered for and retry after a 451, a
crash or a connection they gave up on, although its handler may still be at
work. **`InboundLimiter`** is the per-host limiter with its sweeper. Its
clock counts ticks, of which `Minute` make a minute: a window begins with the
first call after the last one has ended, at any tick, and ends a minute later,
as `time.Since` has it. `passes` remembers when each call was let through and in
which window. `InboundServer` only knows that the limiter may refuse.

**`Sessions`** is login, refresh and use of a session over Redis, one Redis command
per step: a session is two keys, and the steps of two requests, expiry, failing
commands and a restart come between any two of them. The three ways to log in
(`VerifyChallenge`, `VerifyAuthSignature`, `ConnectToBunker`) differ in when the
challenge is consumed. A token of the signer service yields a session with the
id `Blank`. `Logout` is POST /auth/logout as `cmd/email/main.go` registers it:
outside `AuthMiddleware`, so that `Handler.Logout` finds no session, answers 401
and deletes nothing. `NIP46Handler.Logout`, which would delete the session, is
not reached by any request and not modelled.

**`BunkerRPC`** is the other half, the requests to a user's signer
over a relay that delays, repeats and drops events: login, nostrconnect
bootstrap, sign/encrypt/decrypt (which share a loop), timers, cancellation,
restart. Requests are numbered in the order of their publication; a message
carries the id of a request and, out of the code's sight, the number of the
request it was made for (`no`), and `takers` remembers for which requests it was
used. The bunker is the one the client named, and the user it names in answer to
get_public_key may be anybody: the code enters the connection for that user
without a check, and so does the model. What is assumed of it: it answers a
request at most once, under the id it was sent; and it gives no good answer
under a key it has not admitted. The connections are in memory and those of one
replica; another replica has its own.

**`ServedDomains`** is the domains table, the admin requests that read a row,
decide and write it back, and on each replica the snapshot that `Reload` reads
and later swaps in. Redis messages reach the replicas that are subscribed. A row
may have no key. `dkimSignerFor` is the transport's choice for a sender: the
snapshot's signer, else the one of the configuration (`LegacyKey`) for its own
domain (`LegacyDomain`). A write may fail, or be committed and its reply lost
(`WriteUnanswered`).

`SendGate`, `Submission` and `InboundLimiter` prefix the names every module has
(`GateInit`, `SubmissionNext`, `LimiterSpec`, ...) so that one module can prove
theorems about several models.

The modules meet where the components do: `InboundServer` extends `Reports`;
`Reports!RecordOutboundFailure` is the callback that `OutboundQueue!Callback`
makes; the tables `Reports` fills are the signals of `AbuseLadder`; the gate and
the mark that `AbuseLadder` writes are what `SendGate` reads; `SendGate` and
`Submission` are the two halves of `Service.Send`; a login that ends in
`BunkerRPC!getUserPubkeyFromBunker` saves its session by `Sessions`' steps. Each is checked with the other side free to do anything its
code allows.

At this commit nothing calls `OutboundQueue.Enqueue`, `OutboundQueue.PurgeOld`
or `Ladder.ReleaseManual`; the modules model those methods because the worker,
the holds and the detector that are deployed are defined by them.

Definitions marked "Faulty variant" are the mutants `PROJECT.json` refers to:
each is a plausible bug in the definition below it, and TLC finds the property
violated once it replaces that definition. They are not part of the model.

## Runs

| Run | Instance | Shows |
|---|---|---|
| `queue` | 2 messages of 2 senders, 2 workers, batch 2, 3 attempts, 1 fault, 1 retry delay, fair workers | exclusive claims, attempt budget, true and final verdicts, single bounce, refinement of the contract, every message settles, is parked or is orphaned |
| `ladder` | 1 account, 2 replicas, 1 operator, 1 fault, auto-suspend on, fair detectors | while no two processes overlap on an account and no store fails: the stores agree, suspend stays, no early release, holds lift; after anything: the mark keeps returning to what the signals warrant |
| `send`, gate | 2 requests of a paying new account and an anonymous one, 1 fault, tight windows, 2 minutes | overrun is bounded by what runs alongside, a throttle binds a paying account but for marks that could not be read, quota is paid exactly when admitted |
| `send`, delivery | relay, direct and hybrid mode, 4 recipients (one malformed), a local domain with 2 hosts, 3 sends, 2 lost replies | success for all, one copy per call, true sent folder |
| `submission_fallback` (violation) | direct mode, 3 recipients, 1 send, no lost reply | `transport.go:98` says "Error if the entire send failed"; a failed first MX host makes a delivered message an error |
| `mailbox` | 2 requests at a time of one user, 3 in all, over a received message, another user's draft and a free id, 1 failing statement | own mail only, no lost save, deletions final, errors without trace |
| `contacts` | 2 users, 2 ids, 2 addresses, 2 overlapping updates, 4 requests | books stay apart, only adding revives, fields follow the requests that carried them |
| `receive`, server | 2 sessions, 12 kinds of message in batches of one or two, 3 addresses of 2 users, 1 retirable, SPF and DKIM rejecting, 2 faults | accepted mail is kept, once per mailbox; complaints are not bounces; a message's SPF verdict is its own; charges rest on evidence |
| `receive`, limiter | 2 hosts (one whitelisted), limits 2 and 1, two ticks to a minute, block of a minute, 6 ticks, a sweep at any tick | a blocked host is not let in early, twice the limit takes at least a minute |
| `sessions` | 2 requests at a time, 1 user, 1 challenge, 2 logins, 3 tokens, 2 requests with a token, 1 fault | a challenge is redeemed once by the web flow, a refreshed token is dead |
| `logout` (violation) | as `sessions` | `docs/API.md:113` says "Logout and invalidate session."; the route refuses everybody and the token goes on working |
| `bunker` | 2 users, 1 login key, 1 bootstrap key, 2 calls at a time, 3 requests, fair timers | each answer is used for its own request and once, connections are under granted keys for the user the signer named, every call returns |
| `domains` | 1 domain, 2 replicas, 2 admin requests at a time, 2 in all, 2 keys, 1 fault, fair reloads | signatures only with keys seen in the DNS or, for its own domain, the configuration's; replicas converge to the table |
| `rotation` (violation) | 1 domain that is the configuration's, 2 replicas, 1 admin request, no fault | `internal_domains.go:319` says a rotated domain "sends UNSIGNED" until it is verified again; it is signed for with the configuration's key |

Two runs hold two instances each: `send` has the gate and the delivery
(`MCSend`), `receive` the server and its limiter (`MCReceive`). The halves share
no state and no property is about both, so a behaviour is one of either half
while the other rests; nothing is lost by that, and their product would be out of
reach.

Several properties are stated with an exemption, kept as a history variable, for
what the code does not protect against. They say that nothing else does harm:

- `AbuseLadder!troubled`: two processes were between the read and the last write
  of the same account, or a store failed under one of them. `Apply` has no lock;
  overlapping Applies can leave a hold mark with an open gate, renewed for ever,
  and a mark write that fails after the gate was closed leaves the account closed
  with no mark to release it by. `MarkFollowsSignals` has no exemption.
- `EverythingSettles` exempts rows that stay in processing after a crash or a
  lost reply: no statement selects them again.
- `BackstopHolds` allows an overrun by what ran alongside, since Allow peeks and
  then increments. `ThrottleBites` allows that too, and a request's worth for
  every mark that could not be read (`unread`): Check takes the error for no mark
  and goes on with the unthrottled limits.
- `SuccessIsForAll` and `SentFolderIsTrue` except malformed addresses in direct
  mode, which `sendDirect` skips without an error.
- `FieldsFollowRequests` exempts contacts on which two updates overlapped
  (`raced`): the later one writes back the fields it read.
- `AcceptedIsKept` exempts messages a statement failed for (`lossy`):
  HandleMessage logs the error and the answer is 250.
- `OldTokenIsDead` is about refreshes nothing else interferes with
  (`contended`): a refresh deletes the session it read and saves it again.
- `SignsWithSeenKeys` excepts the configuration's key in the name of the
  configuration's domain, which nothing verifies. `ConnectionIsGranted` is about
  the user a bunker has named, not the one it signs for.
- `OneSessionPerChallenge` counts the web flow, which uses GETDEL. The older
  endpoint gets, checks and deletes; the bunker login deletes under another id,
  so its challenge lives until it expires.
- `Converges` exempts behaviours in which a message, a reload or a replica was
  lost, in which a write was committed and its reply lost, or in which a verify
  or rotate wrote `active = false` over a concurrent activation and announced
  nothing (`lossy`).
- `QuotaIsPaidOnce` says nothing of a request whose increment failed half way:
  the windows before the failed one stay paid.
- `ErrorLeavesNoTrace` takes a failing statement for one that has not been
  committed (`Mailbox!StatementFails`). A statement that is committed while its
  reply is lost leaves its trace with an error, as it must.

Other things a reader of the models should know, where a comment or a name
promises more than the code does: `HoldForSender` parks waiting rows only, so a
message in hand is retried during the hold; an account that stopped sending is
not scanned, so its hold is not lifted; opening a message does not store
`read_at`, because `UpdateEmail` does not write that column; the filter for
starred mail looks for a label with one backslash too many; a label cannot be
added to a row whose labels are NULL; a host may get one short of twice its
limit through the inbound limiter within a minute, at the end of one window and
the start of the next.

And where a definition is coarser than its code: `AbuseLadder` has a flag for
parked rows, where `HoldForSender` updates the rows that wait at that moment
(rows themselves are in `OutboundQueue`). `InboundServer!DataRefused` refuses an
oversize message in the handler, which go-smtp's own `MaxMessageBytes` does
before it; the answer is a refusal either way. `InboundServer!Same` tells
messages apart by their Message-ID where they have one, as the unique index
does: a different message under a Message-ID that is in the mailbox already is
answered with 250 and not stored, and counts as kept.

### Bounds and why they are enough

Two workers, replicas, requests, sessions or calls are what a race needs; every
action concerns one or two of them. Two messages make a batch in which one waits
while the other is marked. Three attempts with a single retry delay use first,
middle and last attempt and the clamp of `getRetryDelay`. One fault strikes at
any point; the proofs cover any number of them. In `receive` two
faults let a client give up and the process die or a statement fail during the
retry. The windows of the gate and the limits of the limiter are so tight that
two requests exceed them; with two ticks to a minute a window begins on either
and a burst at the end of one is followed by a burst at the start of the next
within a minute (one short of twice the limit, as the bound allows), and six
ticks hold a window, a block and its end, and the sweep that removes an entry
older than two blocks. Three mailbox requests are two that
overlap on a row and one before or after them; four contact requests are an add,
a delete and two updates. Two tokens of one session and a second login are what
a refresh can confuse. Two users in `bunker` let a bunker name somebody other
than the user of the bootstrap. `MaxFaults`, `MaxErrors`, `Horizon`, `Judged`, `Recips`,
`MaxRecips`, `Verdicts`,
`MaxSends`, `MaxLost`, `MaxRequests`, `MaxSessions`, `MaxTokens`, `MaxKeys`,
`MaxTime`, `Selections`, `Filters` and `Batches` are bounds of the model, not of
the code. Where requests, sessions or ids are interchangeable, a run that checks
invariants and properties of single steps only uses symmetry; a run with
liveness does not.

### Fairness

`queue` assumes that a worker's loop takes its next step and that time
passes. StartWorker's ticker guarantees the first as long as the relay answers
or the connection breaks: `sendViaSMTP` sets no deadline after dialling, so a
silent relay would stop a worker (listed as a hazard). No fairness is assumed of
clients or the ladder. `ladder` assumes that the detectors keep
scanning and finish what they began, and that marks age and expire; an account
is never assumed to send. `bunker` assumes that timers fire and that a goroutine
whose timer has fired sees it, nothing of the signer or the relay. `domains`
assumes that a reload under way goes on and a subscriber takes its messages;
nothing makes an operator act.

Deadlock is checked in `queue` and `ladder`. In the other runs clients
may simply stop, or a bound on their requests is reached.

## Proofs

Eight modules, each extending the modules of one or several components, prove
every safety property that the passing runs check on small instances, invariants
and action properties alike, for every value of the constants: any sets of messages, users, workers, replicas, requests, sessions,
keys or calls, any configuration the assumptions allow and any number of faults.
The bounds of the model (`MaxFaults`, `MaxRequests`, ...) only have to be
numbers. Every theorem `Spec => []P` follows the same argument: an inductive
invariant that implies `P`, which TLC checked on the run's instance first, a
lemma that `Init` establishes it, and one lemma per action, or per group of
actions that touch the same state, that it is kept.

| Module | Proved of the runs' properties | Inductive invariant |
|---|---|---|
| `OutboundProofs`: `SendGate` | `BackstopHolds`, `ThrottleBites`, `QuotaIsPaidOnce` | `GateInv` |
| `OutboundProofs`: `Submission` | `SuccessIsForAll`, `OneCopyPerCall`, `SentFolderIsTrue` | `SubmissionInv` |
| `OutboundProofs`: `OutboundQueue` | `SoleOwner`, `AttemptBudget`, `NoDuplicateDelivery`, `VerdictIsTrue`, `BounceOnlyOnce`, `SettledForGood`, refinement of `DeliveryContract` | `QueueInv` |
| `AbuseLadderProofs` | `StoresAgree`, `SuspendStays`, `NoEarlyRelease` | `LadderInv` |
| `MailboxProofs` | `OwnMailOnly`, `NoSaveIsLost`, `ErrorLeavesNoTrace`, `DeletedStaysDeleted` | `MailInv` |
| `ContactsProofs` | `OwnBookOnly`, `FieldsFollowRequests`, `OnlyAddRevives` | `ContactsInv` |
| `InboundServerProofs`: `InboundServer`, `Reports` | `AcceptedIsKept`, `OneCopyEach`, `ComplaintsAreNotBounces`, `VerdictIsItsOwn`, `ChargedOnEvidence` | `InboundInv` |
| `InboundServerProofs`: `InboundLimiter` | `LimitsHold` | `LimiterInv` |
| `SessionsProofs` | `OneSessionPerChallenge`, `OldTokenIsDead` | `SessionsInv` |
| `BunkerRPCProofs` | `OwnAnswer`, `ConnectionIsGranted` | `BunkerInv` |
| `ServedDomainsProofs` | `SignsWithSeenKeys` | `DomainsInv` |

The type invariant of each of these models is proved as well (`TypeCorrect`,
`GateTypeCorrect`, `SubmissionTypeCorrect`; for `BunkerRPC` and `InboundLimiter`
it is a conjunct of the inductive invariant).

**Gate.** The counters are bounded by how many requests are between their peek
and their increments, and a request that has peeked may find the counter moved
by the time it pays. `Room(k, n, x)` is the statement that survives: what counter
`k` holds, with the least that some request still owes it (`Owing`), stays within
`n`, one largest request for each request that is held to `n` and owes nothing
(`Held`), and one for each of `x` exceptions. A request that passes its peek
leaves `Held` and lowers the bound by exactly what it may add; one that pays or
fails comes back. `BackstopInv` is `Room` of the domain counters below their
limit, `ThrottleInv` of a clamped account's counters below the throttled limit,
with an exception for each mark that could not be read. `Looser` is why the
exceptions are needed: requests under way with a wider limit. `HeldChange`
counts how a step of one request changes `Held`; `RequestInv` says what each step
of Check has established (`Checked`, `Limited`), and `QuotaIsPaidOnce` follows
from it alone. The proof assumes of the limits only that a window has a period,
that the throttled limits are positive, and that the new-account cap that
`limits.go` hard-codes is no wider than the throttled one.

**Submission.** `CopiesOf` says what a recipient has of this call at each stage:
nothing while its domain or the relay leg is still to come, a copy per lost reply
while its hosts are tried, at least one afterwards unless `lastErr` is set.
`RouteInv` says that domains are visited once and that every recipient goes one
way. `FiledFor` ties the sent folder to the copies of earlier calls until this
one has delivered. That `lastErr` is never cleared is what makes
`SuccessIsForAll` true, and `ErrorMeansFailure` false.

**Limiter.** `KeptOut`: a host told to come back later has a blocked entry that
lasts until then, which the sweeper leaves because it is blocked. `Windowed` says
of the history that windows lie at least a minute apart, hold at most the limit,
and that a full one has its first call at its start; `Accounts` ties the entry to
it (`CountedLast`: the last calls, as many as it counts, are those of its
window), and `AllOver` says what the absence of an entry means after a sweep: no
window is open. `TwiceTheLimit` is then arithmetic: twice the limit of
consecutive calls lie in two windows or more; with three, the middle one takes
up a minute; with two, both are full, and the first call of each is at its start.
That a block is no shorter than a minute is assumed (`LimiterAssumption`): the
window after a block could otherwise begin within the minute of the one before
it. The server never sets anything but the default of 15 minutes.

**Queue.** None of the properties is inductive alone: that a message is tried at
most MaxAttempts times needs that its row's `attempts` column tells how often it
was tried, which holds only while nobody has it in hand; when somebody has, the
count is off by one and only the owner's program counter says in which
direction. So `QueueInv` has a part for every worker (`Hand`: what its batch and
current message have been through), a part for every row (`Ledger`: what its
columns say of its history), and `SoleOwner`, which makes the two compatible by
giving each claimed row a single hand. `NoLostAttempt` then follows because
nobody else may touch the row between SELECT and UPDATE. The three actions that
finish with a message share the lemma `SettleStep`. The refinement maps each
action to one `Move` or `Attempted` of the contract or shows it invisible.

**Ladder.** That gate and queue agree with the mark once everybody has finished
says nothing about the middle of an `Apply`. `LadderInv` says, for an account
that is not `troubled`, that at most one process works on it and what that
process has done so far (`CloseOK`, `ParkOK`, `MarkOK`, `OpenOK`, ...): after
CloseGate the gate is closed and the other two stores are as before, and so on.
`LiftOK` is what `SuspendStays` and `NoEarlyRelease` need: only an operator is
ever between the gate and the mark of an account that is suspended or whose hold
is young.

**Mailbox and contacts.** The danger is between a check or a read and the write
that rests on it. `MailInv` says that what a request has checked is its user's
and stays so, because no statement changes the owner of a row (`Evolves`), and
that a received row which GetEmail will write back still has the text it was
read with. `ContactsInv` says that an update under way holds a live row of its
user's book with its own fields applied; what it does to fields it did not carry
is exactly what `raced` records.

**Inbound.** `AcceptedIsKept` speaks of a moment after the answer; `InboundInv`
carries the promise from RCPT to it. `RecipientsOK`: somebody was found for
every recipient taken, or the address has been given up since. `PromiseOK`: in
the phases of DATA that lead to a 250, each recipient no longer in `left` has its
copy, unless a statement failed. `EnvelopeOK`: the transaction's message was
looked at by SPF if it is looked at at all, which gives `VerdictIsItsOwn` although
`Reset` keeps the old result. `RowsApart` is the unique index. `Grows` collects
what no step takes back, and `KeptStays`, `SessionStays` and `AcksKeep` rest on
that alone, so that a step of one session, a crash or a retired address need not
be looked at for every other session. `ChargesHaveEvidence` needs that
Message-IDs of our own are different from each other; that is assumed of
`Batches` in `InboundAssumption`, because `generateMessageID` makes each from
the clock, in nanoseconds and read again for every letter of its suffix.

**Sessions.** A session is two Redis keys that no request changes together.
`SessionsInv` says for each request and step which of the two exist
(`RefreshOK`, `FreshOK`), that a token in the making is known to nobody
(`TokenOK`), that the token a request carries belongs to its session or to none
any more (`FitOK`), and that two requests exclude each other except where `contended`
records that they did not (`ApartOK`). `Undisturbed` is what a step must leave
alone for the invariant of any other request to survive.

**Bunker.** The code compares ids; `OwnAnswer` is about which request a message was
made for and how often it was used, so the invariant has to say that the ids tell
these apart. `FreshIds`: no two requests share an id, and no two calls wait for
the same request. `OneAnswer`: an answer carries the id and the key of the
request it was made for, and a request has one, however often the relay repeats
it. `Unused`: nobody has used the answer to a request that is still waited for;
a call that has used one waits no more. `Consent`: good messages exist only under
keys a signer has agreed to, and a user is in a message only if the signer named
them for its key.

**Domains.** `Sound` of the table is not enough: a verified row may be on its way
in a request that read it before a rotation or in a snapshot not yet swapped in,
so `OnTheWay` says the same of those, and `Learned` of what a replica has swapped
in. `dkimSignerFor` adds the configuration's key for one domain.

The assumptions on constants are in the modules that declare them, and TLC
evaluates them in the runs. Beyond types they say that values standing for "no
row", "idle" or "no session" are not rows, requests or sessions, that the
signer service's tokens are not our own, that login keys and bootstrap keys
differ (each is generated for its flow), that the configuration's key is none of
the keys made for the table, that a block lasts a minute, that replicas and operators are
different processes, and the uniqueness of Message-IDs above.

Only model-checked is liveness, which the prover cannot do: `EverythingSettles`,
`HoldLifts`, `MarkFollowsSignals`, `CallsReturn` and `Converges`. Every other
property of the passing runs has a theorem.

The proofs have corrected the models. A first bound of `ThrottleBites` left out
the marks that could not be read: it held on the run's instance, where the
account is elevated, and failed in the proof; TLC then found the counterexample
for an ordinary account. The limits in force and the ladder's branches were CASE
expressions with overlapping guards, of which TLC takes the first and TLA+ any;
they are IF chains in the order of the code now.

## Not modelled

- MIME, headers, encryption, message signatures, SPF evaluation and DKIM: text
  and cryptography without state; building or checking a message succeeds or
  fails, and the verdict is an input of the models. The key agreement of a bunker
  connection is abstracted to the client key an event is under, and decryption
  taken to work: `nip46.go` passes the two arguments of `GenerateConversationKey`
  in opposite orders (lines 385 and 1156), which the model does not look into.
- `NIP46Handler.Logout`, which no route leads to.
- The thresholds of Evaluate, abstracted to the rung they lead to; the MX cache;
  the cache of signer answers, which repeats an answer the signer gave.
- A relay subscription that is closed under a waiting call (the loop then reads
  nil events), and a relay that stays silent in the middle of SMTP.
- Address and identity look-ups: tables and a remote service whose answers are
  inputs of `InboundServer`.
- Downloads of attachments and the blob client: content-addressed reads and
  uploads.
- The migrator: one transaction under an advisory lock, whose properties are
  Postgres's.
- The usage reconciler: its race (two replicas applying the same difference) is
  among the hazards.
- HTTP routing and decoding, configuration, metrics and the web client.

## Plan

Every module of the plan for the system's core is written, and every safety
property the runs check is proved. What is left:

1. `Evaluate` as an algorithm module with its thresholds.
2. The usage reconciler, with its race between replicas.
3. A deadline for `sendViaSMTP` would turn the silent relay from a hazard into a
   fault that `OutboundQueue` can take.
