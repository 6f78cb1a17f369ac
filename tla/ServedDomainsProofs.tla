------------------------- MODULE ServedDomainsProofs -------------------------
(* Proofs about ServedDomains, for any domains, replicas, requests, keys and   *)
(* faults.                                                                     *)
EXTENDS ServedDomains, TLAPS

(* A row that is signed with if it is active. *)
Vouched(row) == row # None /\ row.verified /\ row.key # None

(* A table, or a copy of it, in which every verified key was seen. *)
Sound(t) == \A d \in Names : Vouched(t[d]) => t[d].key \in seen[d]

(* The rows that are on their way: one a request is about to write, and the
   copies that reloads are about to swap in. *)
OnTheWay ==
  \A w \in Workers :
    /\ work[w].pc = "write" /\ Vouched(work[w].row) => work[w].row.key \in seen[work[w].name]
    /\ work[w].pc = "swap" => Sound(work[w].snap)

(* What a replica has in memory. *)
Learned == \A r \in Replicas, d \in Names : signers[r][d] # None => signers[r][d] \in seen[d]

DomainsInv == TypeOK /\ Sound(table) /\ OnTheWay /\ Learned
-----------------------------------------------------------------------------
(* What TypeOK says of a single worker. *)
Sane(v) ==
  /\ v \in Work
  /\ v.pc # "idle" => v.at \in Replicas
  /\ v.pc = "write" => v.name \in Names
  /\ v.pc = "swap" => v.snap \in Snapshots

SeenGrows == \A d \in Names : seen[d] \subseteq seen'[d]

(* A copy that was sound stays so, because a key once seen stays seen. *)
LEMMA SoundStays ==
  ASSUME SeenGrows, NEW t \in Snapshots, Sound(t)
  PROVE  \A d \in Names : Vouched(t[d]) => t[d].key \in seen'[d]
BY DEF SeenGrows, Sound

(* A step that changes the work of one worker only need look at that one. *)
LEMMA OneWorks ==
  ASSUME TypeOK, OnTheWay, SeenGrows, NEW w \in Workers, NEW v,
         work' = [work EXCEPT ![w] = v], Sane(v),
         v.pc = "write" /\ Vouched(v.row) => v.row.key \in seen'[v.name],
         v.pc = "swap" => \A d \in Names : Vouched(v.snap[d]) => v.snap[d].key \in seen'[d]
  PROVE  /\ work' \in [Workers -> Work]
         /\ \A x \in Workers : Sane(work'[x])
         /\ OnTheWay'
<1>1. /\ work' \in [Workers -> Work]
      /\ work'[w] = v /\ \A x \in Workers \ {w} : work'[x] = work[x]
  BY DEF TypeOK, Sane
<1>2. \A x \in Workers : Sane(work'[x])
  BY <1>1 DEF TypeOK, Sane
<1>3. ASSUME NEW x \in Workers \ {w}, work[x].pc = "swap"
      PROVE  \A d \in Names : Vouched(work[x].snap[d]) => work[x].snap[d].key \in seen'[d]
  BY <1>3, SoundStays DEF TypeOK, OnTheWay
<1>4. ASSUME NEW x \in Workers \ {w}, work[x].pc = "write", Vouched(work[x].row)
      PROVE  work[x].row.key \in seen'[work[x].name]
  BY <1>4 DEF TypeOK, OnTheWay, SeenGrows
<1> QED
  BY <1>1, <1>2, <1>3, <1>4 DEF OnTheWay, Sound

(* The worker that has nothing to do carries nothing. *)
LEMMA IdleIsSane == Sane(Idle) /\ Idle.pc = "idle" /\ Idle.row = None /\ Idle.snap = None
BY DEF Sane, Idle, Work

(* A worker that is about to read the table on replica r. *)
LEMMA ReaderIsSane ==
  ASSUME NEW r \in Replicas, NEW op \in {None, "boot", "message"},
         NEW v, v = [Idle EXCEPT !.pc = "read", !.at = r, !.op = op]
  PROVE  Sane(v) /\ v.pc = "read"
BY DEF Sane, Idle, Work

(* A request that has decided what to write: its row is a copy of the one it
   read with a flag or the key changed. *)
LEMMA BeginKeeps ==
  ASSUME TypeOK, OnTheWay, SeenGrows,
         NEW q \in Requests, NEW r \in Replicas, NEW d \in Names, NEW row \in Row \union {None},
         NEW op \in {"create", "verify", "set", "delete", "rotate"},
         Begin(q, r, op, d, row),
         Vouched(row) => row.key \in seen'[d]
  PROVE  /\ begun' \in Nat
         /\ work' \in [Workers -> Work]
         /\ \A x \in Workers : Sane(work'[x])
         /\ OnTheWay'
<1> DEFINE v == [pc |-> "write", at |-> r, op |-> op, name |-> d, row |-> row, snap |-> None]
<1>1. Sane(v) /\ v.pc = "write" /\ v.row = row /\ v.name = d
  BY DEF Sane, Work
<1>2. work' = [work EXCEPT ![q] = v] /\ begun' = begun + 1 /\ q \in Workers
  BY DEF Begin, Workers
<1>3. begun' \in Nat
  BY <1>2 DEF TypeOK
<1> HIDE DEF v
<1> QED
  BY <1>1, <1>2, <1>3, OneWorks

(* What a reload makes of a sound copy: it signs with keys that were seen, and
   takes for local what the table has active. *)
LEMMA SignerIsSeen ==
  ASSUME NEW t \in Snapshots, Sound(t), NEW d \in Names, Signer(t, d) # None
  PROVE  Signer(t, d) \in Keys /\ Signer(t, d) \in seen[d]
<1>1. Vouched(t[d]) /\ t[d] # None /\ Signer(t, d) = t[d].key
  BY DEF Signer, Listed, Vouched
<1>2. t[d] \in Row
  BY <1>1 DEF Snapshots
<1> QED
  BY <1>1, <1>2 DEF Sound, Row, Vouched

LEMMA ServedIsNames == ASSUME NEW t PROVE Served(t) \subseteq Names \union {Default}
BY DEF Served, Listed

(* A row with its flags or its key changed is a row. *)
LEMMA RowChanges ==
  ASSUME NEW row \in Row, NEW b \in BOOLEAN, NEW k \in Keys
  PROVE  /\ [row EXCEPT !.active = b] \in Row /\ [row EXCEPT !.verified = TRUE] \in Row
         /\ [row EXCEPT !.active = b].verified = row.verified
         /\ [row EXCEPT !.active = b].key = row.key
         /\ [row EXCEPT !.verified = TRUE].key = row.key
         /\ [row EXCEPT !.key = k, !.verified = FALSE] \in Row
         /\ [row EXCEPT !.key = k, !.verified = FALSE].verified = FALSE
         /\ [key |-> k, verified |-> FALSE, active |-> FALSE] \in Row
         /\ [key |-> k, verified |-> FALSE, active |-> FALSE].verified = FALSE
BY DEF Row

(* The service starts on whatever earlier requests left: verified rows have keys
   that were seen. *)
LEMMA InitInv == Init => DomainsInv
<1> SUFFICES ASSUME Init PROVE DomainsInv
  OBVIOUS
<1>1. table \in Snapshots /\ made \in Nat
  BY DEF Init, Snapshots
<1>2. \A d \in Names : table[d] # None => table[d] \in Row /\ table[d].key \in Keys \union {None}
  BY <1>1 DEF Snapshots, Row
<1>3. seen \in [Names -> SUBSET Keys] /\ Sound(table)
  BY <1>2 DEF Init, Sound, Vouched
<1>4. \A w \in Workers : Sane(work[w]) /\ work[w].pc \in {"idle", "read"}
  <2>1. \A r \in Replicas : Sane(Booting(r)) /\ Booting(r).pc = "read"
    BY ReaderIsSane DEF Booting
  <2> QED
    BY <2>1, IdleIsSane DEF Init, Workers
<1>5. work \in [Workers -> Work]
  BY <1>4 DEF Init, Sane
<1>6. TypeOK
  BY <1>1, <1>3, <1>4, <1>5 DEF Init, TypeOK, Sane
<1>7. OnTheWay /\ Learned
  BY <1>4 DEF Init, OnTheWay, Learned
<1> QED
  BY <1>3, <1>6, <1>7 DEF DomainsInv

(* Admin requests, reloads, messages, failures and restarts keep the invariant. *)
LEMMA NextInv == DomainsInv /\ [Next]_vars => DomainsInv'
<1> SUFFICES ASSUME DomainsInv, [Next]_vars PROVE DomainsInv'
  OBVIOUS
<1> USE DEF DomainsInv, memory
<1>t. ASSUME UNCHANGED seen PROVE SeenGrows
  BY <1>t DEF SeenGrows
<1>w. subscribed \subseteq Replicas /\ Replicas \subseteq Workers /\ Requests \subseteq Workers
  BY DEF TypeOK, Workers
<1>r. \A d \in Names : table[d] # None => table[d] \in Row
  BY DEF TypeOK, Snapshots
<1>k. made < MaxKeys => made + 1 \in Keys
  BY DomainsAssumption DEF TypeOK, Keys
<1>1. ASSUME NEW q \in Requests, NEW r \in subscribed, NEW d \in Names, CreateDomain(q, r, d)
      PROVE DomainsInv'
  <2> DEFINE row == [key |-> made + 1, verified |-> FALSE, active |-> FALSE]
  <2>1. row \in Row /\ row.verified = FALSE /\ Begin(q, r, "create", d, row)
    BY <1>1, <1>k, RowChanges DEF CreateDomain, Row
  <2>2. UNCHANGED <<table, dns, signers, served, inbox, subscribed, faults, seen, lossy>> /\ made' = made + 1
    BY <1>1 DEF CreateDomain
  <2> HIDE DEF row
  <2>3. begun' \in Nat /\ work' \in [Workers -> Work] /\ OnTheWay'
        /\ \A x \in Workers : Sane(work'[x])
    BY <1>t, <1>w, <2>1, <2>2, BeginKeeps DEF Vouched
  <2> QED
    BY <2>2, <2>3 DEF TypeOK, Sane, Sound, Learned
<1>2. ASSUME NEW q \in Requests, NEW r \in subscribed, NEW d \in Names, VerifyDomain(q, r, d)
      PROVE DomainsInv'
  <2> DEFINE row == [table[d] EXCEPT !.verified = TRUE]
  <2>1. row \in Row /\ row.key = table[d].key /\ table[d].key \in Keys
        /\ Begin(q, r, "verify", d, row)
    BY <1>2, <1>r DEF VerifyDomain, Loads, Row
  <2>2. /\ UNCHANGED <<table, dns, signers, served, inbox, subscribed, made, faults, lossy>>
        /\ seen' = [seen EXCEPT ![d] = @ \union {table[d].key}]
    BY <1>2 DEF VerifyDomain
  <2>3. seen' \in [Names -> SUBSET Keys] /\ SeenGrows /\ table[d].key \in seen'[d]
    BY <2>1, <2>2 DEF TypeOK, SeenGrows
  <2> HIDE DEF row
  <2>4. begun' \in Nat /\ work' \in [Workers -> Work] /\ OnTheWay'
        /\ \A x \in Workers : Sane(work'[x])
    BY <1>w, <2>1, <2>3, BeginKeeps
  <2>5. TypeOK'
    BY <2>2, <2>3, <2>4 DEF TypeOK, Sane
  <2>6. Sound(table)' /\ Learned'
    BY <2>2, <2>3, SoundStays DEF Sound, Learned, SeenGrows, TypeOK
  <2> QED
    BY <2>4, <2>5, <2>6
<1>3. ASSUME NEW q \in Requests, NEW r \in subscribed, NEW d \in Names, NEW active \in BOOLEAN,
             setActive(q, r, d, active)
      PROVE DomainsInv'
  <2> DEFINE row == [table[d] EXCEPT !.active = active]
  <2>1. row \in Row /\ row.key = table[d].key /\ row.verified = table[d].verified /\ table[d] # None
        /\ Begin(q, r, "set", d, row)
    BY <1>3, <1>r DEF setActive, Loads, Row
  <2>2. UNCHANGED <<table, dns, signers, served, inbox, subscribed, made, faults, seen, lossy>>
    BY <1>3 DEF setActive
  <2> HIDE DEF row
  <2>3. Vouched(row) => row.key \in seen'[d]
    BY <2>1, <2>2 DEF Sound, Vouched
  <2>4. begun' \in Nat /\ work' \in [Workers -> Work] /\ OnTheWay'
        /\ \A x \in Workers : Sane(work'[x])
    BY <1>t, <1>w, <2>1, <2>2, <2>3, BeginKeeps
  <2> QED
    BY <2>2, <2>4 DEF TypeOK, Sane, Sound, Learned
<1>4. ASSUME NEW q \in Requests, NEW r \in subscribed, NEW d \in Names, DeleteDomain(q, r, d)
      PROVE DomainsInv'
  <2>1. Begin(q, r, "delete", d, None)
        /\ UNCHANGED <<table, dns, signers, served, inbox, subscribed, made, faults, seen, lossy>>
    BY <1>4 DEF DeleteDomain
  <2>2. begun' \in Nat /\ work' \in [Workers -> Work] /\ OnTheWay'
        /\ \A x \in Workers : Sane(work'[x])
    BY <1>t, <1>w, <2>1, BeginKeeps DEF Vouched
  <2> QED
    BY <2>1, <2>2 DEF TypeOK, Sane, Sound, Learned
<1>5. ASSUME NEW q \in Requests, NEW r \in subscribed, NEW d \in Names, RotateDKIM(q, r, d)
      PROVE DomainsInv'
  <2> DEFINE row == [table[d] EXCEPT !.key = made + 1, !.verified = FALSE]
  <2>1. row \in Row /\ row.verified = FALSE /\ Begin(q, r, "rotate", d, row)
    BY <1>5, <1>k, <1>r DEF RotateDKIM, Loads, Row
  <2>2. UNCHANGED <<table, dns, signers, served, inbox, subscribed, faults, seen, lossy>> /\ made' = made + 1
    BY <1>5 DEF RotateDKIM
  <2> HIDE DEF row
  <2>3. begun' \in Nat /\ work' \in [Workers -> Work] /\ OnTheWay'
        /\ \A x \in Workers : Sane(work'[x])
    BY <1>t, <1>w, <2>1, <2>2, BeginKeeps DEF Vouched
  <2> QED
    BY <2>2, <2>3 DEF TypeOK, Sane, Sound, Learned
<1>6. ASSUME NEW q \in Requests, Write(q) PROVE DomainsInv'
  <2> DEFINE d   == work[q].name
             row == work[q].row
             v   == IF Announces(work[q].op, row) THEN [Idle EXCEPT !.pc = "read", !.at = work[q].at]
                    ELSE Idle
  <2>1. /\ q \in Workers /\ d \in Names /\ row \in Row \union {None} /\ work[q].at \in Replicas
        /\ Vouched(row) => row.key \in seen[d]
    BY <1>6, <1>w DEF Write, TypeOK, Work, OnTheWay
  <2>2. /\ table' = [table EXCEPT ![d] = row] /\ work' = [work EXCEPT ![q] = v]
        /\ UNCHANGED <<dns, signers, served, inbox, subscribed, made, begun, faults, seen>>
        /\ lossy' \in BOOLEAN
    BY <1>6 DEF Write, UpsertDomain, Done
  <2>3. Sane(v) /\ v.pc \in {"idle", "read"}
    BY <2>1, IdleIsSane, ReaderIsSane DEF Sane, Idle, Work
  <2> HIDE DEF d, row, v
  <2>4. work' \in [Workers -> Work] /\ OnTheWay' /\ \A x \in Workers : Sane(work'[x])
    BY <1>t, <2>1, <2>2, <2>3, OneWorks
  <2>5. table' \in Snapshots /\ Sound(table)'
    BY <2>1, <2>2 DEF TypeOK, Snapshots, Sound
  <2> QED
    BY <2>2, <2>4, <2>5 DEF TypeOK, Sane, Learned
<1>7. ASSUME NEW w \in Workers, ReadDomains(w) PROVE DomainsInv'
  <2> DEFINE v == [work[w] EXCEPT !.pc = "swap", !.snap = table]
  <2>1. Sane(v) /\ v.pc = "swap" /\ v.snap = table
    BY <1>7 DEF ReadDomains, TypeOK, Sane, Work
  <2>2. work' = [work EXCEPT ![w] = v]
        /\ UNCHANGED <<table, dns, signers, served, inbox, subscribed, made, begun, faults, seen, lossy>>
    BY <1>7 DEF ReadDomains, TypeOK, Work
  <2> HIDE DEF v
  <2>3. work' \in [Workers -> Work] /\ OnTheWay' /\ \A x \in Workers : Sane(work'[x])
    BY <1>t, <2>1, <2>2, OneWorks DEF Sound
  <2> QED
    BY <2>2, <2>3 DEF TypeOK, Sane, Sound, Learned
<1>8. ASSUME NEW w \in Workers, SwapSigners(w) PROVE DomainsInv'
  <2> DEFINE r == work[w].at
             t == work[w].snap
             v == IF w \in Requests THEN [work[w] EXCEPT !.pc = "publish", !.snap = None] ELSE Idle
  <2>1. r \in Replicas /\ t \in Snapshots /\ Sound(t)
    BY <1>8 DEF SwapSigners, TypeOK, OnTheWay
  <2>2. Sane(v) /\ v.pc \in {"idle", "publish"}
    BY <2>1, IdleIsSane DEF TypeOK, Sane, Work
  <2>3. /\ work' = [work EXCEPT ![w] = v]
        /\ signers' = [signers EXCEPT ![r] = [d \in Names |-> Signer(t, d)]]
        /\ served' = [served EXCEPT ![r] = Served(t)]
        /\ subscribed' \subseteq Replicas
        /\ UNCHANGED <<table, dns, inbox, made, begun, faults, seen, lossy>>
    BY <1>8 DEF SwapSigners, Done, TypeOK, Work
  <2> HIDE DEF r, t, v
  <2>4. work' \in [Workers -> Work] /\ OnTheWay' /\ \A x \in Workers : Sane(work'[x])
    BY <1>t, <2>2, <2>3, OneWorks
  <2>5. \A d \in Names : Signer(t, d) \in Keys \union {None}
                         /\ (Signer(t, d) # None => Signer(t, d) \in seen[d])
    BY <2>1, SignerIsSeen
  <2>6. signers' \in [Replicas -> [Names -> Keys \union {None}]] /\ Learned'
    BY <2>1, <2>3, <2>5 DEF TypeOK, Learned
  <2>7. served' \in [Replicas -> SUBSET (Names \union {Default})]
    BY <2>1, <2>3, ServedIsNames DEF TypeOK
  <2> QED
    BY <2>3, <2>4, <2>6, <2>7 DEF TypeOK, Sane, Sound
<1>9. ASSUME NEW w \in Workers, PublishReload(w) PROVE DomainsInv'
  <2>1. /\ work' = [work EXCEPT ![w] = Idle] /\ lossy' \in BOOLEAN
        /\ inbox' \in [Replicas -> Nat]
        /\ UNCHANGED <<table, dns, signers, served, subscribed, made, begun, faults, seen>>
    BY <1>9 DEF PublishReload, Done, TypeOK
  <2>2. work' \in [Workers -> Work] /\ OnTheWay' /\ \A x \in Workers : Sane(work'[x])
    BY <1>t, <2>1, IdleIsSane, OneWorks
  <2> QED
    BY <2>1, <2>2 DEF TypeOK, Sane, Sound, Learned
<1>10. ASSUME NEW r \in Replicas, TakeMessage(r) PROVE DomainsInv'
  <2> DEFINE v == [Idle EXCEPT !.pc = "read", !.at = r, !.op = "message"]
  <2>1. Sane(v) /\ v.pc = "read"
    BY ReaderIsSane
  <2>2. /\ work' = [work EXCEPT ![r] = v]
        /\ inbox' \in [Replicas -> Nat]
        /\ UNCHANGED <<table, dns, signers, served, subscribed, made, begun, faults, seen, lossy>>
    BY <1>10 DEF TakeMessage, TypeOK
  <2> HIDE DEF v
  <2>3. work' \in [Workers -> Work] /\ OnTheWay' /\ \A x \in Workers : Sane(work'[x])
    BY <1>t, <1>w, <2>1, <2>2, OneWorks
  <2> QED
    BY <2>2, <2>3 DEF TypeOK, Sane, Sound, Learned
<1>11. ASSUME NEW w \in Workers, Fails(w) PROVE DomainsInv'
  <2>1. /\ work' = [work EXCEPT ![w] = Idle] /\ lossy' \in BOOLEAN /\ faults' \in Nat
        /\ subscribed' \subseteq Replicas
        /\ UNCHANGED <<table, dns, signers, served, inbox, made, begun, seen>>
    BY <1>11 DEF Fails, Fault, Done, TypeOK
  <2>2. work' \in [Workers -> Work] /\ OnTheWay' /\ \A x \in Workers : Sane(work'[x])
    BY <1>t, <2>1, IdleIsSane, OneWorks
  <2> QED
    BY <2>1, <2>2 DEF TypeOK, Sane, Sound, Learned
<1>11a. ASSUME NEW q \in Requests, WriteUnanswered(q) PROVE DomainsInv'
  <2> DEFINE d   == work[q].name
             row == work[q].row
  <2>1. /\ q \in Workers /\ d \in Names /\ row \in Row \union {None}
        /\ Vouched(row) => row.key \in seen[d]
    BY <1>11a, <1>w DEF WriteUnanswered, TypeOK, Work, OnTheWay
  <2>2. /\ table' = [table EXCEPT ![d] = row] /\ work' = [work EXCEPT ![q] = Idle]
        /\ UNCHANGED <<dns, signers, served, inbox, subscribed, made, begun, seen>>
        /\ lossy' \in BOOLEAN /\ faults' \in Nat
    BY <1>11a DEF WriteUnanswered, UpsertDomain, Done, Fault, TypeOK
  <2> HIDE DEF d, row
  <2>3. work' \in [Workers -> Work] /\ OnTheWay' /\ \A x \in Workers : Sane(work'[x])
    BY <1>t, <2>1, <2>2, IdleIsSane, OneWorks
  <2>4. table' \in Snapshots /\ Sound(table)'
    BY <2>1, <2>2 DEF TypeOK, Snapshots, Sound
  <2> QED
    BY <2>2, <2>3, <2>4 DEF TypeOK, Sane, Learned
<1>12. ASSUME NEW r \in Replicas, Restart(r) PROVE DomainsInv'
  <2>1. Sane(Booting(r)) /\ Booting(r).pc = "read"
    BY ReaderIsSane DEF Booting
  <2>2. \A x \in Workers : work'[x] \in {work[x], Idle, Booting(r)}
    BY <1>12 DEF Restart
  <2>3. \A x \in Workers : Sane(work'[x])
    BY <2>1, <2>2, IdleIsSane DEF TypeOK, Sane
  <2>4. work' \in [Workers -> Work]
    BY <1>12, <2>3 DEF Restart, Sane
  <2>5. /\ signers' \in [Replicas -> [Names -> Keys \union {None}]]
        /\ \A x \in Replicas, d \in Names : signers'[x][d] # None => signers'[x][d] = signers[x][d]
        /\ served' \in [Replicas -> SUBSET (Names \union {Default})]
        /\ inbox' \in [Replicas -> Nat] /\ subscribed' \subseteq Replicas
        /\ lossy' \in BOOLEAN /\ faults' \in Nat
        /\ UNCHANGED <<table, dns, made, begun, seen>>
    BY <1>12 DEF Restart, Fault, TypeOK
  <2>6. OnTheWay'
    BY <2>1, <2>2, <2>5, IdleIsSane DEF OnTheWay, Sound
  <2> QED
    BY <2>3, <2>4, <2>5, <2>6 DEF TypeOK, Sane, Sound, Learned
<1>13. ASSUME NEW d \in Names, NEW key \in Keys, OperatorPublishes(d, key) PROVE DomainsInv'
  BY <1>13 DEF OperatorPublishes, TypeOK, OnTheWay, Sound, Learned
<1>14. CASE UNCHANGED vars
  BY <1>14 DEF vars, TypeOK, OnTheWay, Sound, Learned
<1> QED
  BY <1>1, <1>2, <1>3, <1>4, <1>5, <1>6, <1>7, <1>8, <1>9, <1>10, <1>11, <1>11a, <1>12, <1>13,
     <1>14
     DEF Next, Step

(* The inductive invariant of the served domains. *)
THEOREM DomainsInvariant == Spec => []DomainsInv
BY InitInv, NextInv, PTL DEF Spec

(* Every variable keeps its type. *)
THEOREM TypeCorrect == Spec => []TypeOK
BY DomainsInvariant, PTL DEF DomainsInv

(* However verifications, rotations, reloads and restarts overlap, mail is signed
   with a key that was found in the sender's DNS, or with the configuration's key
   for the configuration's own domain (Reload, VerifyDomain, RotateDKIM,
   dkimSignerFor), for any number of replicas, requests, keys and faults. *)
THEOREM OnlySeenKeysSign == Spec => []SignsWithSeenKeys
<1>1. DomainsInv => SignsWithSeenKeys
  BY DEF DomainsInv, Learned, SignsWithSeenKeys, dkimSignerFor
<1> QED
  BY <1>1, DomainsInvariant, PTL
=============================================================================
