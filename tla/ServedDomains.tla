--------------------------- MODULE ServedDomains ----------------------------
(***************************************************************************)
(* The served domains: a table the admin API edits, and on every replica a  *)
(* snapshot of it that signs outbound mail and tells local addresses from   *)
(* others.  An admin request reads a row, decides, and writes the whole row *)
(* back; it then reloads the snapshot of its own replica and tells the      *)
(* others by a Redis message to reload theirs.  A reload is a read of the   *)
(* table and a later assignment, and several run at once on a replica.      *)
(*                                                                         *)
(* A domain for which a snapshot has no key is signed for with the key of   *)
(* the configuration file, if it is the configuration's domain.             *)
(*                                                                         *)
(* The DNS is external: an operator publishes the keys, and leaves the old   *)
(* ones in place.                                                           *)
(***************************************************************************)
EXTENDS Integers, FiniteSets

CONSTANTS
  Names,         \* domains
  Default,       \* the built-in domain, served when the table has none active
  Replicas,
  Requests,      \* admin requests in progress at the same time
  None,
  LegacyDomain,  \* DKIM_DOMAIN of the configuration, or None
  LegacyKey,     \* the key that comes with it
  MaxKeys,       \* bound: DKIM keys made or imported
  MaxRequests,   \* bound: admin requests that get to write
  MaxFaults      \* bound: statements, messages and replicas that fail

ASSUME DomainsAssumption ==
  /\ IsFiniteSet(Replicas) /\ Replicas \intersect Requests = {}
  /\ LegacyKey \notin 1..MaxKeys /\ LegacyKey # None /\ None \notin 1..MaxKeys
  /\ MaxKeys \in Nat /\ MaxRequests \in Nat /\ MaxFaults \in Nat

Keys    == 1..MaxKeys
Row     == [key : Keys \union {None}, verified : BOOLEAN, active : BOOLEAN]
Snapshots == [Names -> Row \union {None}]     \* the table, or a copy of it
Workers == Requests \union Replicas     \* a replica's own worker is its subscriber

VARIABLES
  table,       \* the domains table
  dns,         \* external: the keys each domain's DNS publishes
  signers,     \* per replica: the key each domain is signed with
  served,      \* per replica: the domains taken for local
  work,        \* what each request and each subscriber is doing
  inbox,       \* reload messages a replica has yet to take
  subscribed,  \* replicas that listen
  made, begun, faults,
  seen,        \* history: keys a verification has found in the DNS
  lossy        \* history: a replica has missed a change

vars == <<table, dns, signers, served, work, inbox, subscribed, made, begun, faults, seen, lossy>>
memory == <<signers, served>>

Idle == [pc |-> "idle", at |-> None, op |-> None, name |-> None, row |-> None, snap |-> None]

(* Reload, as main runs it before the subscriber is started. *)
Booting(r) == [Idle EXCEPT !.pc = "read", !.at = r, !.op = "boot"]

(* The service starts on a table in any state earlier requests left it in:
   active without being verified is a domain in rotation.  A row put there by
   hand may have no key. *)
Init ==
  /\ made \in 0..1
  /\ table \in [Names -> {row \in Row : row.key \in (1..made) \union {None}} \union {None}]
  /\ seen = [d \in Names |-> IF table[d] # None /\ table[d].verified
                             THEN {table[d].key} \ {None} ELSE {}]
  /\ dns = seen
  /\ signers = [r \in Replicas |-> [d \in Names |-> None]]
  /\ served = [r \in Replicas |-> {Default}]
  /\ work = [w \in Workers |-> IF w \in Replicas THEN Booting(w) ELSE Idle]
  /\ inbox = [r \in Replicas |-> 0] /\ subscribed = {}
  /\ begun = 0 /\ faults = 0 /\ lossy = FALSE

-----------------------------------------------------------------------------
(* ListActiveDomains, and what Reload makes of the rows: an active domain is
   signed for once its key is verified, if it has one. *)
Listed(t) == {d \in Names : t[d] # None /\ t[d].active}

Signer(t, d) == IF d \in Listed(t) /\ t[d].verified THEN t[d].key ELSE None
Served(t)    == IF Listed(t) = {} THEN {Default} ELSE Listed(t)

(* Faulty variant: the configuration's key signs for every domain without one. *)
AnyLegacy(r, d) ==
  IF d \in Names /\ signers[r][d] # None THEN signers[r][d] ELSE LegacyKey

(* The transport's choice for mail from d: the registry's signer, else the
   configuration's for its own domain. *)
dkimSignerFor(r, d) ==
  IF d \in Names /\ signers[r][d] # None THEN signers[r][d]
  ELSE IF d = LegacyDomain THEN LegacyKey ELSE None

Done(w)      == work' = [work EXCEPT ![w] = Idle]

Begin(q, r, op, d, row) ==
  /\ begun < MaxRequests /\ begun' = begun + 1
  /\ work' = [work EXCEPT ![q] = [pc |-> "write", at |-> r, op |-> op, name |-> d,
                                  row |-> row, snap |-> None]]
Free(q) == work[q].pc = "idle"

(* load: the row as it is when the request begins. *)
Loads(q, d) == Free(q) /\ table[d] # None

(* A key of the request's or a generated one, pending. *)
CreateDomain(q, r, d) ==
  /\ Free(q) /\ table[d] = None
  /\ made < MaxKeys /\ made' = made + 1
  /\ Begin(q, r, "create", d, [key |-> made + 1, verified |-> FALSE, active |-> FALSE])
  /\ UNCHANGED <<table, dns, memory, inbox, subscribed, faults, seen, lossy>>

(* CheckDomain compares the published key with the row's. *)
CheckDomain(d, key) == key \in dns[d]

VerifyDomain(q, r, d) ==
  /\ Loads(q, d) /\ table[d].key # None
  /\ CheckDomain(d, table[d].key) /\ ~table[d].verified
  /\ seen' = [seen EXCEPT ![d] = @ \union {table[d].key}]
  /\ Begin(q, r, "verify", d, [table[d] EXCEPT !.verified = TRUE])
  /\ UNCHANGED <<table, dns, memory, inbox, subscribed, made, faults, lossy>>

setActive(q, r, d, active) ==
  /\ Loads(q, d)
  /\ active => table[d].verified
  /\ Begin(q, r, "set", d, [table[d] EXCEPT !.active = active])
  /\ UNCHANGED <<table, dns, memory, inbox, subscribed, made, faults, seen, lossy>>

DeleteDomain(q, r, d) ==
  /\ Loads(q, d)
  /\ Begin(q, r, "delete", d, None)
  /\ UNCHANGED <<table, dns, memory, inbox, subscribed, made, faults, seen, lossy>>

RotateDKIM(q, r, d) ==
  /\ Loads(q, d)
  /\ made < MaxKeys /\ made' = made + 1
  /\ Begin(q, r, "rotate", d, [table[d] EXCEPT !.key = made + 1, !.verified = FALSE])
  /\ UNCHANGED <<table, dns, memory, inbox, subscribed, faults, seen, lossy>>

(* Faulty variant: an existing row keeps its key and only its flags are written. *)
UpsertFlags(d, op, row) ==
  table' = [table EXCEPT ![d] = IF row = None \/ @ = None \/ op = "rotate" THEN row
                                ELSE [row EXCEPT !.key = table[d].key]]

(* UpsertDomain writes every column and inserts the row if it is gone;
   DeleteDomain (row None) deletes it. *)
UpsertDomain(d, op, row) == table' = [table EXCEPT ![d] = row]

(* A change that no replica can see yet is not announced. *)
Announces(op, row) ==
  IF op \in {"verify", "rotate"} THEN row.active ELSE op # "create"

(* The statement, and the reload that follows it.  Whether there is one is
   decided by the row the request read: an activation that came in between is
   undone without a word to the replicas. *)
Write(q) ==
  LET d == work[q].name  announced == Announces(work[q].op, work[q].row) IN
  /\ work[q].pc = "write"
  /\ UpsertDomain(d, work[q].op, work[q].row)
  /\ IF announced
     THEN work' = [work EXCEPT ![q] = [Idle EXCEPT !.pc = "read", !.at = work[q].at]]
     ELSE Done(q)
  /\ lossy' = (lossy \/ (~announced /\ d \in Listed(table)))
  /\ UNCHANGED <<dns, memory, inbox, subscribed, made, begun, faults, seen>>

-----------------------------------------------------------------------------
(* Reload: the table is read, then the signers and the served names are swapped
   in, each under its own lock; the two swaps are one step here. *)
ReadDomains(w) ==
  /\ work[w].pc = "read"
  /\ work' = [work EXCEPT ![w].pc = "swap", ![w].snap = table]
  /\ UNCHANGED <<table, dns, memory, inbox, subscribed, made, begun, faults, seen, lossy>>

SwapSigners(w) ==
  /\ work[w].pc = "swap"
  /\ signers' = [signers EXCEPT ![work[w].at] = [d \in Names |-> Signer(work[w].snap, d)]]
  /\ served' = [served EXCEPT ![work[w].at] = Served(work[w].snap)]
  /\ IF w \in Requests THEN work' = [work EXCEPT ![w].pc = "publish", ![w].snap = None]
     ELSE Done(w)
  /\ subscribed' = IF w \in Replicas THEN subscribed \union {w} ELSE subscribed
  /\ UNCHANGED <<table, dns, inbox, made, begun, faults, seen, lossy>>

(* Faulty variant: the sender, which has reloaded, is left out. *)
PublishToOthers(w) ==
  /\ work[w].pc = "publish"
  /\ inbox' = [r \in Replicas |-> IF r \in subscribed \ {work[w].at} THEN inbox[r] + 1
                                  ELSE inbox[r]]
  /\ lossy' = (lossy \/ subscribed # Replicas)
  /\ Done(w)
  /\ UNCHANGED <<table, dns, memory, subscribed, made, begun, faults, seen>>

(* PublishReload, its own replica being done: whoever listens gets the message,
   the sender too. *)
PublishReload(w) ==
  /\ work[w].pc = "publish"
  /\ inbox' = [r \in Replicas |-> IF r \in subscribed THEN inbox[r] + 1 ELSE inbox[r]]
  /\ lossy' = (lossy \/ subscribed # Replicas)
  /\ Done(w)
  /\ UNCHANGED <<table, dns, memory, subscribed, made, begun, faults, seen>>

(* StartSubscriber's loop, one message at a time. *)
TakeMessage(r) ==
  /\ r \in subscribed /\ work[r].pc = "idle" /\ inbox[r] > 0
  /\ inbox' = [inbox EXCEPT ![r] = @ - 1]
  /\ work' = [work EXCEPT ![r] = [Idle EXCEPT !.pc = "read", !.at = r, !.op = "message"]]
  /\ UNCHANGED <<table, dns, memory, subscribed, made, begun, faults, seen, lossy>>

-----------------------------------------------------------------------------
Fault == faults < MaxFaults /\ faults' = faults + 1

(* The statement is carried out and its reply is lost: the request answers 500
   and nobody reloads. *)
WriteUnanswered(q) ==
  /\ Fault /\ work[q].pc = "write"
  /\ UpsertDomain(work[q].name, work[q].op, work[q].row)
  /\ Done(q) /\ lossy' = TRUE
  /\ UNCHANGED <<dns, memory, inbox, subscribed, made, begun, seen>>

(* A failed write answers 500; a failed read or publish is logged and passed
   over, and a failed first reload leaves the built-in default. *)
Fails(w) ==
  /\ Fault /\ work[w].pc \in {"write", "read", "publish"}
  /\ Done(w)
  /\ subscribed' = IF w \in Replicas THEN subscribed \union {w} ELSE subscribed
  /\ lossy' = (lossy \/ work[w].pc # "write")
  /\ UNCHANGED <<table, dns, memory, inbox, made, begun, seen>>

(* A replica restarts: its requests die, its memory is gone, and it listens
   again only after its first reload. *)
Restart(r) ==
  /\ Fault
  /\ work' = [w \in Workers |-> IF w = r THEN Booting(r)
                                ELSE IF work[w].at = r THEN Idle ELSE work[w]]
  /\ signers' = [signers EXCEPT ![r] = [d \in Names |-> None]]
  /\ served' = [served EXCEPT ![r] = {Default}]
  /\ inbox' = [inbox EXCEPT ![r] = 0] /\ subscribed' = subscribed \ {r}
  /\ lossy' = (lossy \/ \E q \in Requests : work[q].at = r
                           /\ work[q].pc \in {"read", "swap", "publish"})
  /\ UNCHANGED <<table, dns, made, begun, seen>>

(* External. *)
OperatorPublishes(d, key) ==
  /\ key \in (1..made) \ dns[d]
  /\ dns' = [dns EXCEPT ![d] = @ \union {key}]
  /\ UNCHANGED <<table, memory, work, inbox, subscribed, made, begun, faults, seen, lossy>>

Step(w) == ReadDomains(w) \/ SwapSigners(w) \/ PublishReload(w)

Next ==
  \/ \E q \in Requests, r \in subscribed, d \in Names :
       \/ CreateDomain(q, r, d) \/ VerifyDomain(q, r, d) \/ DeleteDomain(q, r, d)
       \/ RotateDKIM(q, r, d)
       \/ \E active \in BOOLEAN : setActive(q, r, d, active)
  \/ \E q \in Requests : Write(q) \/ WriteUnanswered(q)
  \/ \E w \in Workers : Step(w) \/ Fails(w)
  \/ \E r \in Replicas : TakeMessage(r) \/ Restart(r)
  \/ \E d \in Names, key \in Keys : OperatorPublishes(d, key)

(* A reload under way goes on, and a listener takes its messages; nothing makes
   an operator act. *)
Fairness ==
  /\ \A w \in Workers : WF_vars(Step(w))
  /\ \A r \in Replicas : WF_vars(TakeMessage(r))

Spec == Init /\ [][Next]_vars /\ Fairness

-----------------------------------------------------------------------------
Work ==
  [pc : {"idle", "write", "read", "swap", "publish"}, at : Replicas \union {None},
   op : {"create", "verify", "set", "delete", "rotate", "boot", "message", None},
   name : Names \union {None}, row : Row \union {None}, snap : Snapshots \union {None}]

TypeOK ==
  /\ table \in Snapshots
  /\ dns \in [Names -> SUBSET Keys] /\ seen \in [Names -> SUBSET Keys]
  /\ signers \in [Replicas -> [Names -> Keys \union {None}]]
  /\ served \in [Replicas -> SUBSET (Names \union {Default})]
  /\ work \in [Workers -> Work]
  /\ \A w \in Workers :
       /\ work[w].pc # "idle" => work[w].at \in Replicas
       /\ work[w].pc = "write" => work[w].name \in Names
       /\ work[w].pc = "swap" => work[w].snap \in Snapshots
  /\ inbox \in [Replicas -> Nat] /\ subscribed \subseteq Replicas
  /\ made \in Nat /\ begun \in Nat /\ faults \in Nat /\ lossy \in BOOLEAN

(* Mail leaves a replica signed only with a key that a verification found in the
   sender's DNS, however verifications, rotations and reloads overlap, since
   nothing else would resolve at the recipients; or with the configuration's key,
   in the name of the configuration's domain alone (Reload, VerifyDomain,
   RotateDKIM, dkimSignerFor). *)
SignsWithSeenKeys ==
  \A r \in Replicas, d \in Names \union {Default} :
    LET key == dkimSignerFor(r, d) IN
    \/ key = None
    \/ d \in Names /\ key \in seen[d]
    \/ d = LegacyDomain /\ key = LegacyKey

(* What RotateDKIM says of an active domain that had a verified key and was given
   another: on reload it "drops out of the signer map (verified-gate) and sends
   UNSIGNED until the operator publishes the new record and re-verifies".  The
   code signs with the configuration's key if the domain is the configuration's
   (dkimSignerFor). *)
UnsignedInRotation ==
  \A r \in Replicas, d \in Names :
    /\ table[d] # None /\ table[d].active /\ ~table[d].verified
    /\ seen[d] # {} /\ table[d].key \notin seen[d]
    /\ d \in served[r] /\ signers[r][d] = None
    => dkimSignerFor(r, d) = None

(* Once changes end, every replica comes to hold what the table says and stays
   there, unless a message, a reload or a replica was lost on the way or a write
   went unannounced: a slow reload may put an older snapshot back, but not for
   good (PublishReload). *)
Converges ==
  <>[](lossy \/ \A r \in Replicas :
                  /\ served[r] = Served(table)
                  /\ \A d \in Names : signers[r][d] = Signer(table, d))
=============================================================================
