--------------------------- MODULE OutboundProofs ---------------------------
(* Proofs about the outbound path: SendGate (may this account send),       *)
(* Submission (one call of Send) and OutboundQueue (claims, retries and    *)
(* verdicts), for any number of requests, recipients, hosts, messages,     *)
(* accounts, workers, attempts and faults.                                 *)
EXTENDS SendGate, Submission, OutboundQueue, FiniteSetTheorems, TLAPS

-----------------------------------------------------------------------------
(* SendGate                                                                *)

(* The counters in Redis: a window, what it counts for, and a bucket. *)
Keys == Names \X (Accounts \cup {Domain}) \X (0 .. Horizon)

(* The requests that have passed their peek and still owe counter k. *)
Owing(k) == {q \in Requests : /\ step[q] = "consume"
                              /\ k[1] \in owed[q]
                              /\ Key(q, k[1]) = k}

(* The requests about to peek at counter k under a limit above n. *)
Looser(k, n) == {q \in Requests : /\ step[q] = "peek"
                                  /\ Key(q, k[1]) = k
                                  /\ limit[q][k[1]] > n}

(* The requests that cannot add to counter k without peeking at it under a limit
   of n. *)
Held(k, n) == Requests \ (Owing(k) \cup Looser(k, n))

(* Counter k has room below n: what it holds and the smallest part of what is
   still owed to it stay within n and one request's worth for everyone that is
   held, and for each of x exceptions. *)
Room(k, n, x) ==
  LET most == MostAdded(k[1]) * (Cardinality(Held(k, n)) + x) IN
  \/ count[k] + MostAdded(k[1]) <= n + most
  \/ \E q \in Owing(k) : count[k] + Add(q, k[1]) <= n + most

(* The steps of a request that has read its account. *)
Past == {"peek", "consume", "allowed", "sent", "rejected"}

(* What the steps of Check have established about a request. *)
Checked(q) ==
  /\ step[q] = "idle" <=> acct[q] = NoAccount
  /\ step[q] \in {"idle", "state", "account", "peek", "refused", "denied"} => paid[q] = {}
  /\ step[q] = "consume" => owed[q] \cup paid[q] = Active(q)
  /\ step[q] \in {"allowed", "sent", "rejected"} => paid[q] = Active(q)
  /\ barred[q] => step[q] # "idle" /\ ~enabled[acct[q]]
  /\ barred[q] \/ acct[q] \in Anonymous =>
       step[q] \in {"idle", "state", "refused", "failed"} /\ paid[q] = {}

(* The limits a request is held to once it has read its account. *)
Limited(q) ==
  /\ step[q] \in Past => \A w \in Names \ AccountWindows : limit[q][w] \in {0, Max[w]}
  /\ slowed[q] => step[q] # "idle" /\ clamped[acct[q]]
  /\ slowed[q] /\ step[q] \in Past =>
       \A w \in AccountWindows : limit[q][w] \in 1 .. ThrottledMax[w]

(* What holds of every request, at whatever step of Check it is. *)
RequestInv == \A q \in Requests : Checked(q) /\ Limited(q)

(* The domain counters have room below their limit, whatever is under way. *)
BackstopInv ==
  \A k \in DOMAIN count : k[2] = Domain /\ Max[k[1]] > 0 => Room(k, Max[k[1]], 0)

(* Beside a request of a clamped account, its account's counters have room
   below the throttled limit, but for the marks that could not be read. *)
ThrottleInv ==
  \A q \in Requests, w \in AccountWindows, k \in Keys :
    step[q] \in {"consume", "allowed", "sent"} /\ slowed[q] /\ k = Key(q, w) =>
      \E x \in 0 .. unread : Room(k, ThrottledMax[w], x)

(* The inductive invariant of the gate. *)
GateInv == GateTypeOK /\ RequestInv /\ BackstopInv /\ ThrottleInv

(* Room for one more request is room for the most one adds. *)
LEMMA OneMore ==
  ASSUME NEW b \in Nat, NEW g \in Nat
  PROVE  b * g \in Nat /\ b * (g + 1) = b * g + b
OBVIOUS

(* More exceptions leave at least as much room. *)
LEMMA MoreExceptions ==
  ASSUME NEW b \in Nat, NEW x \in Nat, NEW y \in Nat, x <= y
  PROVE  b * x \in Nat /\ b * y \in Nat /\ b * x <= b * y
OBVIOUS

(* A window's bucket is no later than the request's clock. *)
LEMMA BucketBound ==
  ASSUME NEW a \in Nat, NEW p \in Nat \ {0}
  PROVE  a \div p \in 0 .. a
OBVIOUS

(* The seven windows of Limits, by name. *)
LEMMA NamesAre ==
  Names = {"msgmin", "msghour", "msgday", "recipday", "dommsgmin", "domreciphour", "newrecipday"}
<1>1. DOMAIN Windows = 1 .. 7
  BY DEF Windows
<1>2. \A i \in 1 .. 7 : i = 1 \/ i = 2 \/ i = 3 \/ i = 4 \/ i = 5 \/ i = 6 \/ i = 7
  OBVIOUS
<1> QED
  BY <1>1, <1>2 DEF Names, Windows

(* One request adds at least one and at most MostAdded to a counter. *)
LEMMA AddBound ==
  ASSUME GateTypeOK, NEW q \in Requests, NEW w
  PROVE  Add(q, w) \in 1 .. MostAdded(w) /\ MostAdded(w) \in Nat \ {0}
BY GateAssumption DEF GateTypeOK, Add, MostAdded

(* A set of requests is finite, and one more request makes it one larger. *)
LEMMA CountRequests ==
  ASSUME NEW S \in SUBSET Requests
  PROVE  /\ Cardinality(S) \in Nat
         /\ Cardinality(S) <= Cardinality(Requests)
         /\ \A p \in Requests \ S : Cardinality(S \cup {p}) = Cardinality(S) + 1
<1>1. IsFiniteSet(Requests)
  BY GateAssumption
<1>2. IsFiniteSet(S) /\ Cardinality(S) <= Cardinality(Requests)
  BY <1>1, FS_Subset
<1>3. Cardinality(S) \in Nat
  BY <1>2, FS_CardinalityType
<1>4. \A p \in Requests \ S : Cardinality(S \cup {p}) = Cardinality(S) + 1
  BY <1>2, FS_AddElement
<1> QED
  BY <1>2, <1>3, <1>4

(* A step of request p that leaves the others alone. *)
Still(p) ==
  \A r \in Requests \ {p} :
    /\ step'[r] = step[r] /\ owed'[r] = owed[r] /\ acct'[r] = acct[r]
    /\ at'[r] = at[r] /\ limit'[r] = limit[r] /\ recips'[r] = recips[r]

(* A request that stands still owes what it owed and is held to what it was
   held to. *)
LEMMA OthersStill ==
  ASSUME NEW p \in Requests, Still(p), NEW r \in Requests \ {p}, NEW k, NEW n
  PROVE  /\ r \in Owing(k)' <=> r \in Owing(k)
         /\ r \in Held(k, n)' <=> r \in Held(k, n)
         /\ \A w : Add(r, w)' = Add(r, w) /\ Key(r, w)' = Key(r, w)
BY DEF Still, Owing, Looser, Held, Add, Key

(* The other requests being still, the held ones change by p at most. *)
LEMMA HeldChange ==
  ASSUME NEW p \in Requests, Still(p), NEW k, NEW n
  PROVE  /\ Cardinality(Held(k, n)) \in Nat /\ Cardinality(Held(k, n))' \in Nat
         /\ (p \in Held(k, n) <=> p \in Held(k, n)') =>
              Cardinality(Held(k, n))' = Cardinality(Held(k, n))
         /\ p \notin Held(k, n) /\ p \in Held(k, n)' =>
              Cardinality(Held(k, n))' = Cardinality(Held(k, n)) + 1
         /\ p \in Held(k, n) /\ p \notin Held(k, n)' =>
              Cardinality(Held(k, n)) = Cardinality(Held(k, n))' + 1
<1>1. PICK H : H = Held(k, n)
  OBVIOUS
<1>2. PICK G : G = Held(k, n)'
  OBVIOUS
<1>3. H \in SUBSET Requests /\ G \in SUBSET Requests
  BY <1>1, <1>2 DEF Held
<1>4. \A r \in Requests \ {p} : r \in G <=> r \in H
  BY <1>1, <1>2, OthersStill
<1>5. Cardinality(H) \in Nat /\ Cardinality(G) \in Nat
  BY <1>3, CountRequests
<1>6. (p \in H <=> p \in G) => G = H
  BY <1>3, <1>4
<1>7. p \notin H /\ p \in G => G = H \cup {p}
  BY <1>3, <1>4
<1>8. p \in H /\ p \notin G => H = G \cup {p}
  BY <1>3, <1>4
<1>9. /\ p \notin H => Cardinality(H \cup {p}) = Cardinality(H) + 1
      /\ p \notin G => Cardinality(G \cup {p}) = Cardinality(G) + 1
  BY <1>3, CountRequests
<1>10. Cardinality(Held(k, n)) = Cardinality(H) /\ Cardinality(Held(k, n))' = Cardinality(G)
  BY <1>1, <1>2
<1> QED
  BY <1>1, <1>2, <1>5, <1>6, <1>7, <1>8, <1>9, <1>10

(* The four things a step of request p can do to counter k.  It adds nothing,
   and can add no more than it could before. *)
LEMMA RoomKept ==
  ASSUME GateTypeOK, NEW p \in Requests, Still(p), NEW k \in Keys, NEW n \in Nat, NEW x \in Nat,
         Room(k, n, x), count'[k] = count[k], p \in Owing(k) => recips'[p] = recips[p],
         p \in Held(k, n) => p \in Held(k, n)',
         p \in Owing(k) => p \in Owing(k)' \/ p \in Held(k, n)'
  PROVE  Room(k, n, x)'
<1> DEFINE w == k[1]
           b == MostAdded(w)
           h == Cardinality(Held(k, n))
           g == Cardinality(Held(k, n))'
<1>1. count[k] \in Nat /\ b \in Nat
  BY AddBound DEF GateTypeOK, Keys
<1>2. h \in Nat /\ g \in Nat
  BY HeldChange
<1>3. g = h \/ (g = h + 1 /\ p \notin Held(k, n))
  BY HeldChange
<1>4. b * (h + x) \in Nat /\ b * (h + x + 1) = b * (h + x) + b
  BY <1>1, <1>2, OneMore
<1>5. g + x = h + x \/ g + x = h + x + 1
  BY <1>2, <1>3
<1>6. b * (g + x) = b * (h + x) \/ b * (g + x) = b * (h + x) + b
  BY <1>4, <1>5
<1>7. CASE count[k] + b <= n + b * (h + x)
  <2>1. count[k] + b <= n + b * (g + x)
    <3> HIDE DEF b, h, g
    <3> QED
      BY <1>1, <1>4, <1>6, <1>7
  <2> QED
    BY <2>1 DEF Room
<1>8. ASSUME NEW q \in Owing(k), count[k] + Add(q, w) <= n + b * (h + x)
      PROVE  Room(k, n, x)'
  <2>0. q \in Requests
    BY <1>8 DEF Owing
  <2>1. Add(q, w) \in 1 .. b /\ Add(q, w)' = Add(q, w)
    BY <1>8, <2>0, AddBound, OthersStill DEF Add
  <2>2. CASE q \in Owing(k)'
    <3>1. count[k] + Add(q, w) <= n + b * (g + x)
      <4> HIDE DEF b, h, g
      <4> QED
        BY <1>1, <1>4, <1>6, <1>8, <2>1
    <3> QED
      BY <2>1, <2>2, <3>1 DEF Room
  <2>3. CASE q \notin Owing(k)'
    <3>1. q = p
      BY <1>8, <2>0, <2>3, OthersStill
    <3>2. p \notin Held(k, n) /\ p \in Held(k, n)'
      BY <1>8, <2>3, <3>1 DEF Held
    <3>3. g = h + 1
      BY <3>2, HeldChange
    <3>4. b * (g + x) = b * (h + x) + b
      <4>1. g + x = h + x + 1
        BY <1>2, <3>3
      <4> QED
        BY <1>4, <4>1
    <3>5. count[k] + b <= n + b * (g + x)
      <4> HIDE DEF b, h, g
      <4> QED
        BY <1>1, <1>4, <1>8, <2>1, <3>4
    <3> QED
      BY <3>5 DEF Room
  <2> QED
    BY <2>2, <2>3
<1> QED
  BY <1>7, <1>8 DEF Room

(* It adds what it owes, and is held again. *)
LEMMA RoomPaid ==
  ASSUME GateTypeOK, NEW p \in Requests, Still(p), NEW k \in Keys, NEW n \in Nat, NEW x \in Nat,
         Room(k, n, x), p \in Owing(k), count'[k] = count[k] + Add(p, k[1]),
         p \notin Owing(k)', p \in Held(k, n)'
  PROVE  Room(k, n, x)'
<1> DEFINE w == k[1]
           b == MostAdded(w)
           h == Cardinality(Held(k, n))
           g == Cardinality(Held(k, n))'
<1>1. count[k] \in Nat /\ b \in Nat /\ Add(p, w) \in 1 .. b
  BY AddBound DEF GateTypeOK, Keys
<1>2. h \in Nat /\ g \in Nat
  BY HeldChange
<1>3. g = h + 1
  BY HeldChange DEF Held
<1>4. b * (h + x) \in Nat /\ b * (h + x + 1) = b * (h + x) + b
  BY <1>1, <1>2, OneMore
<1>5. b * (g + x) = b * (h + x) + b
  <2>1. g + x = h + x + 1
    BY <1>2, <1>3
  <2> QED
    BY <1>4, <2>1
<1>6. CASE count[k] + b <= n + b * (h + x)
  <2>1. count[k] + Add(p, w) + b <= n + b * (g + x)
    <3> HIDE DEF b, h, g
    <3> QED
      BY <1>1, <1>4, <1>5, <1>6
  <2> QED
    BY <2>1 DEF Room
<1>7. ASSUME NEW q \in Owing(k), count[k] + Add(q, w) <= n + b * (h + x)
      PROVE  Room(k, n, x)'
  <2>0. q \in Requests
    BY <1>7 DEF Owing
  <2>1. CASE q = p
    <3>1. count[k] + Add(p, w) + b <= n + b * (g + x)
      <4> HIDE DEF b, h, g
      <4> QED
        BY <1>1, <1>4, <1>5, <1>7, <2>1
    <3> QED
      BY <3>1 DEF Room
  <2>2. CASE q # p
    <3>1. q \in Owing(k)' /\ Add(q, w)' = Add(q, w)
      BY <1>7, <2>0, <2>2, OthersStill
    <3>2. Add(q, w) \in 1 .. b
      BY <2>0, AddBound
    <3>3. count[k] + Add(p, w) + Add(q, w) <= n + b * (g + x)
      <4> HIDE DEF b, h, g
      <4> QED
        BY <1>1, <1>4, <1>5, <1>7, <3>2
    <3> QED
      BY <3>1, <3>3 DEF Room
  <2> QED
    BY <2>1, <2>2
<1> QED
  BY <1>6, <1>7 DEF Room

(* It peeks, and finds what it would add to fit under n: whatever the others
   are about, there is room. *)
LEMMA RoomPeeked ==
  ASSUME GateTypeOK, NEW p \in Requests, Still(p), NEW k \in Keys, NEW n \in Nat, NEW x \in Nat,
         p \in Owing(k)', count'[k] = count[k], recips'[p] = recips[p],
         count[k] + Add(p, k[1]) <= n
  PROVE  Room(k, n, x)'
<1> DEFINE w == k[1]
           b == MostAdded(w)
           g == Cardinality(Held(k, n))'
<1>1. count[k] \in Nat /\ b \in Nat /\ Add(p, w) \in 1 .. b
  BY AddBound DEF GateTypeOK, Keys
<1>2. g \in Nat
  BY HeldChange
<1>3. b * (g + x) \in Nat
  BY <1>1, <1>2, OneMore
<1>4. Add(p, w)' = Add(p, w)
  BY DEF Add
<1>5. count[k] + Add(p, w) <= n + b * (g + x)
  <2> HIDE DEF b, g
  <2> QED
    BY <1>1, <1>3
<1> QED
  BY <1>4, <1>5 DEF Room

(* It may be about to peek under a looser limit, which is one more exception. *)
LEMMA RoomExcepted ==
  ASSUME GateTypeOK, NEW p \in Requests, Still(p), NEW k \in Keys, NEW n \in Nat, NEW x \in Nat,
         Room(k, n, x), count'[k] = count[k], p \notin Owing(k)
  PROVE  Room(k, n, x + 1)'
<1> DEFINE w == k[1]
           b == MostAdded(w)
           h == Cardinality(Held(k, n))
           g == Cardinality(Held(k, n))'
<1>1. count[k] \in Nat /\ b \in Nat
  BY AddBound DEF GateTypeOK, Keys
<1>2. h \in Nat /\ g \in Nat
  BY HeldChange
<1>3. g + (x + 1) = h + x \/ g + (x + 1) = h + x + 1 \/ g + (x + 1) = h + x + 1 + 1
  BY <1>2, HeldChange
<1>4. /\ b * (h + x) \in Nat /\ b * (h + x + 1) = b * (h + x) + b
      /\ b * (h + x + 1 + 1) = b * (h + x + 1) + b
  BY <1>1, <1>2, OneMore
<1>5. b * (h + x) <= b * (g + (x + 1)) /\ b * (g + (x + 1)) \in Nat
  BY <1>1, <1>3, <1>4
<1>6. CASE count[k] + b <= n + b * (h + x)
  <2>1. count[k] + b <= n + b * (g + (x + 1))
    <3> HIDE DEF b, h, g
    <3> QED
      BY <1>1, <1>4, <1>5, <1>6
  <2> QED
    BY <2>1 DEF Room
<1>7. ASSUME NEW q \in Owing(k), count[k] + Add(q, w) <= n + b * (h + x)
      PROVE  Room(k, n, x + 1)'
  <2>0. q \in Requests /\ q # p
    BY <1>7 DEF Owing
  <2>1. q \in Owing(k)' /\ Add(q, w)' = Add(q, w)
    BY <1>7, <2>0, OthersStill
  <2>2. Add(q, w) \in 1 .. b
    BY <2>0, AddBound
  <2>3. count[k] + Add(q, w) <= n + b * (g + (x + 1))
    <3> HIDE DEF b, h, g
    <3> QED
      BY <1>1, <1>4, <1>5, <1>7, <2>2
  <2> QED
    BY <2>1, <2>3 DEF Room
<1> QED
  BY <1>6, <1>7 DEF Room

(* Room bounds the counter itself: the last to peek found it below n, and each
   of the others adds once. *)
LEMMA RoomBounds ==
  ASSUME GateTypeOK, NEW k \in Keys, NEW n \in Nat, NEW x \in Nat, Room(k, n, x)
  PROVE  count[k] <= n + Slack(k[1]) + MostAdded(k[1]) * x
<1> DEFINE w == k[1]
           b == MostAdded(w)
           h == Cardinality(Held(k, n))
           m == Cardinality(Requests) - 1
<1>1. count[k] \in Nat /\ b \in Nat
  <2>1. PICK q : q \in Requests
    BY GateAssumption
  <2> QED
    BY <2>1, AddBound DEF GateTypeOK, Keys
<1>2. Held(k, n) \in SUBSET Requests
  BY DEF Held
<1>3. h \in Nat /\ h <= m + 1 /\ m \in Int
  BY <1>2, CountRequests
<1>4. m \in Nat
  <2>1. PICK q : q \in Requests
    BY GateAssumption
  <2>2. {} \in SUBSET Requests
    OBVIOUS
  <2>3. Cardinality({} \cup {q}) = Cardinality({}) + 1 /\ Cardinality({}) \in Nat
    BY <2>1, <2>2, CountRequests
  <2>4. {} \cup {q} \in SUBSET Requests
    BY <2>1
  <2>5. Cardinality({} \cup {q}) <= Cardinality(Requests)
    BY <2>4, CountRequests
  <2>6. Cardinality(Requests) \in Nat
    BY CountRequests
  <2> QED
    BY <2>3, <2>5, <2>6
<1>5. /\ b * (h + x) \in Nat
      /\ \A i \in Nat, j \in Nat : i <= j => b * i <= b * j
      /\ b * (m + 1 + x) = b * m + b * x + b
  <2> HIDE DEF b, h, m
  <2> QED
    BY <1>1, <1>3, <1>4
<1>6. CASE count[k] + b <= n + b * (h + x)
  <2>1. b * (h + x) <= b * (m + 1 + x)
    <3> HIDE DEF b, h, m
    <3> QED
      BY <1>3, <1>4, <1>5
  <2>2. count[k] <= n + b * m + b * x
    <3>1. b * m \in Nat /\ b * x \in Nat
      BY <1>1, <1>4, OneMore
    <3> HIDE DEF b, h, m
    <3> QED
      BY <1>1, <1>5, <1>6, <2>1, <3>1
  <2> QED
    BY <2>2 DEF Slack
<1>7. ASSUME NEW q \in Owing(k), count[k] + Add(q, w) <= n + b * (h + x)
      PROVE  count[k] <= n + Slack(k[1]) + MostAdded(k[1]) * x
  <2>0. q \in Requests \ Held(k, n)
    BY <1>7 DEF Owing, Held
  <2>1. h <= m
    <3>1. Cardinality(Held(k, n) \cup {q}) = h + 1
      BY <1>2, <2>0, CountRequests
    <3>2. Held(k, n) \cup {q} \in SUBSET Requests
      BY <1>2, <2>0
    <3>3. Cardinality(Held(k, n) \cup {q}) <= Cardinality(Requests)
      BY <3>2, CountRequests
    <3>4. Cardinality(Requests) \in Nat
      BY CountRequests
    <3> QED
      BY <1>3, <3>1, <3>3, <3>4
  <2>2. b * (h + x) <= b * (m + x) /\ b * (m + x) = b * m + b * x
    <3> HIDE DEF b, h, m
    <3> QED
      BY <1>1, <1>3, <1>4, <1>5, <2>1
  <2>3. Add(q, w) \in 1 .. b
    BY <2>0, AddBound
  <2>4. count[k] <= n + b * m + b * x
    <3>1. b * m \in Nat /\ b * x \in Nat
      BY <1>1, <1>4, OneMore
    <3> HIDE DEF b, h, m
    <3> QED
      BY <1>1, <1>5, <1>7, <2>2, <2>3, <3>1
  <2> QED
    BY <2>4 DEF Slack
<1> QED
  BY <1>6, <1>7 DEF Room

(* The limits Effective makes of an account, throttled or not. *)
LEMMA EffectiveLimits ==
  ASSUME GateTypeOK, NEW a \in Accounts, NEW throttled \in BOOLEAN
  PROVE  /\ Effective(a, throttled) \in [Names -> Nat]
         /\ \A w \in Names \ AccountWindows : Effective(a, throttled)[w] \in {0, Max[w]}
         /\ throttled => \A w \in AccountWindows : Effective(a, throttled)[w] \in 1 .. ThrottledMax[w]
<1>1. Max \in [Names -> Nat] /\ ThrottledMax \in [AccountWindows -> Nat \ {0}]
      /\ NewRecipMax \in Nat /\ NewRecipMax \in 1 .. ThrottledMax["recipday"]
  BY GateAssumption DEF AccountWindows
<1>2. "recipday" \in AccountWindows
  BY DEF AccountWindows
<1>3. AccountWindows \subseteq Names
  BY NamesAre DEF AccountWindows
<1>4. ASSUME NEW w \in Names PROVE Effective(a, throttled)[w] \in Nat
  BY <1>1, <1>4 DEF Effective
<1>5. ASSUME NEW w \in Names \ AccountWindows PROVE Effective(a, throttled)[w] \in {0, Max[w]}
  BY <1>2, <1>5 DEF Effective
<1>6. ASSUME throttled, NEW w \in AccountWindows
      PROVE  Effective(a, throttled)[w] \in 1 .. ThrottledMax[w]
  <2>1. w \in Names
    BY <1>3, <1>6
  <2>2. young[a] \in BOOLEAN /\ throttled = TRUE
    BY <1>6 DEF GateTypeOK
  <2>4. CASE w = "recipday" /\ young[a]
    <3>1. Effective(a, throttled)[w] = NewRecipMax
      BY <1>2, <2>1, <2>2, <2>4 DEF Effective
    <3> QED
      BY <1>1, <2>4, <3>1
  <2>5. CASE ~(w = "recipday" /\ young[a])
    <3>1. Effective(a, throttled)[w] = ThrottledMax[w]
      BY <1>6, <2>1, <2>2, <2>5 DEF Effective
    <3>2. ThrottledMax[w] \in Nat \ {0}
      BY <1>1, <1>6
    <3> QED
      BY <3>1, <3>2
  <2> QED
    BY <2>4, <2>5
<1>7. Effective(a, throttled) \in [Names -> Nat]
  BY <1>4 DEF Effective
<1> QED
  BY <1>5, <1>6, <1>7

(* A request's counters are counters. *)
LEMMA KeyIsKey ==
  ASSUME GateTypeOK, NEW q \in Requests, acct[q] \in Accounts, NEW w \in Names
  PROVE  /\ Key(q, w) \in Keys /\ Key(q, w)[1] = w
         /\ w \in AccountWindows => Key(q, w)[2] = acct[q]
         /\ w \notin AccountWindows => Key(q, w)[2] = Domain
<1>1. at[q] \in Nat /\ at[q] \in 0 .. Horizon /\ Period[w] \in Nat \ {0} /\ Horizon \in Nat
  BY GateAssumption DEF GateTypeOK
<1>2. at[q] \div Period[w] \in 0 .. at[q]
  BY <1>1, BucketBound
<1>3. at[q] \div Period[w] \in 0 .. Horizon
  BY <1>1, <1>2
<1> QED
  BY <1>3 DEF Key, Keys

(* The gate starts with empty counters and no request under way. *)
LEMMA GateTypeInit == GateInit => GateTypeOK
<1> SUFFICES ASSUME GateInit PROVE GateTypeOK
  OBVIOUS
<1>1. limit \in [Requests -> [Names -> Nat]]
  BY DEF GateInit, Unlimited
<1>2. time \in 0 .. Horizon /\ errors \in 0 .. MaxErrors /\ unread \in 0 .. errors
  BY GateAssumption DEF GateInit
<1>3. recips \in [Requests -> 0 .. MaxRecips] /\ at \in [Requests -> 0 .. Horizon]
  BY GateAssumption DEF GateInit
<1>4. young \in [Accounts -> BOOLEAN]
  BY DEF GateInit
<1> QED
  BY <1>1, <1>2, <1>3, <1>4 DEF GateInit, GateTypeOK

(* Where a request can be. *)
Steps == {"idle", "state", "account", "peek", "consume", "allowed"} \cup Outcomes

(* Going on to a step keeps the type of step. *)
LEMMA GotoType ==
  ASSUME GateTypeOK, NEW q \in Requests, NEW next \in Steps, Goto(q, next)
  PROVE  /\ step' \in [Requests -> Steps]
         /\ step'[q] = next
         /\ \A r \in Requests \ {q} : step'[r] = step[r]
BY DEF GateTypeOK, Goto, Steps

(* Every step of Check, of the clock and of the ladder keeps the types; a request
   that reaches its counters has an account, which is what RequestInv adds. *)
LEMMA GateTypeNext ==
  ASSUME GateTypeOK, RequestInv, [GateNext]_gateVars
  PROVE  GateTypeOK'
<1> USE DEF shared, local, hist
<1>a. GateTypeOK' <=>
        /\ time' \in 0 .. Horizon
        /\ count' \in [Keys -> Nat]
        /\ enabled' \in [Accounts -> BOOLEAN] /\ clamped' \in [Accounts -> BOOLEAN]
        /\ young' \in [Accounts -> BOOLEAN] /\ step' \in [Requests -> Steps]
        /\ acct' \in [Requests -> Accounts \cup {NoAccount}]
        /\ recips' \in [Requests -> 0 .. MaxRecips]
        /\ limit' \in [Requests -> [Names -> Nat]] /\ perMsg' \in [Requests -> Nat]
        /\ at' \in [Requests -> 0 .. Horizon]
        /\ owed' \in [Requests -> SUBSET Names] /\ paid' \in [Requests -> SUBSET Names]
        /\ barred' \in [Requests -> BOOLEAN] /\ slowed' \in [Requests -> BOOLEAN]
        /\ errors' \in 0 .. MaxErrors /\ unread' \in 0 .. errors'
  BY DEF GateTypeOK, Keys, Steps
<1>b. /\ time \in 0 .. Horizon /\ count \in [Keys -> Nat]
      /\ enabled \in [Accounts -> BOOLEAN] /\ clamped \in [Accounts -> BOOLEAN]
      /\ young \in [Accounts -> BOOLEAN] /\ step \in [Requests -> Steps]
      /\ acct \in [Requests -> Accounts \cup {NoAccount}]
      /\ recips \in [Requests -> 0 .. MaxRecips]
      /\ limit \in [Requests -> [Names -> Nat]] /\ perMsg \in [Requests -> Nat]
      /\ at \in [Requests -> 0 .. Horizon]
      /\ owed \in [Requests -> SUBSET Names] /\ paid \in [Requests -> SUBSET Names]
      /\ barred \in [Requests -> BOOLEAN] /\ slowed \in [Requests -> BOOLEAN]
      /\ errors \in 0 .. MaxErrors /\ unread \in 0 .. errors
  BY DEF GateTypeOK, Keys, Steps
<1>1. CASE Minute
  BY <1>a, <1>b, <1>1, GateAssumption DEF Minute
<1>2. ASSUME NEW a \in Accounts, Mature(a) PROVE GateTypeOK'
  BY <1>a, <1>b, <1>2 DEF Mature
<1>3. ASSUME NEW a \in Judged, NEW on \in BOOLEAN, SetSendEnabled(a, on) PROVE GateTypeOK'
  <2>1. barred' \in [Requests -> BOOLEAN]
    BY <1>3 DEF SetSendEnabled
  <2>2. enabled' \in [Accounts -> BOOLEAN]
    BY <1>b, <1>3 DEF SetSendEnabled
  <2> QED
    BY <1>a, <1>b, <1>3, <2>1, <2>2 DEF SetSendEnabled
<1>4. ASSUME NEW a \in Judged, NEW on \in BOOLEAN, SetMark(a, on) PROVE GateTypeOK'
  <2>1. slowed' \in [Requests -> BOOLEAN]
    BY <1>4 DEF SetMark
  <2>2. clamped' \in [Accounts -> BOOLEAN]
    BY <1>b, <1>4 DEF SetMark
  <2> QED
    BY <1>a, <1>b, <1>4, <2>1, <2>2 DEF SetMark
<1>5. ASSUME NEW q \in Requests, Handle(q) PROVE GateTypeOK'
  <2>s. \A next \in Steps : Goto(q, next) => step' \in [Requests -> Steps]
    BY GotoType
  <2>t. {"idle", "state", "account", "peek", "consume", "allowed", "sent", "refused", "denied",
         "failed", "rejected"} \subseteq Steps
    BY DEF Steps, Outcomes
  <2>1. ASSUME NEW a \in Accounts, NEW n \in Recips, Submit(q, a, n) PROVE GateTypeOK'
    <3>1. step' \in [Requests -> Steps]
      BY <2>1, <2>s, <2>t DEF Submit
    <3>2. n \in 0 .. MaxRecips
      BY <2>1, GateAssumption
    <3>3. enabled[a] \in BOOLEAN /\ clamped[a] \in BOOLEAN
      BY <1>b
    <3>4. barred' \in [Requests -> BOOLEAN] /\ slowed' \in [Requests -> BOOLEAN]
      BY <1>b, <2>1, <3>3 DEF Submit
    <3>5. acct' \in [Requests -> Accounts \cup {NoAccount}] /\ recips' \in [Requests -> 0 .. MaxRecips]
      BY <1>b, <2>1, <3>2 DEF Submit
    <3> QED
      BY <1>a, <1>b, <2>1, <3>1, <3>4, <3>5 DEF Submit
  <2>2. CASE CheckState(q)
    <3>1. step' \in [Requests -> Steps]
      BY <2>2, <2>s, <2>t DEF CheckState
    <3> QED
      BY <1>a, <1>b, <2>2, <3>1 DEF CheckState
  <2>3. ASSUME NEW throttled \in BOOLEAN, ReadLimits(q, throttled), slowed' \in [Requests -> BOOLEAN],
               errors' \in 0 .. MaxErrors, unread' \in 0 .. errors'
        PROVE  GateTypeOK'
    <3>1. step' \in [Requests -> Steps]
      BY <2>3, <2>s, <2>t DEF ReadLimits
    <3>2. acct[q] \in Accounts
      BY <1>b, <2>3 DEF ReadLimits, RequestInv, Checked
    <3>3. Effective(acct[q], throttled) \in [Names -> Nat]
      BY <3>2, EffectiveLimits
    <3>4. EffectivePerMsg(acct[q], throttled) \in Nat
      BY GateAssumption DEF EffectivePerMsg
    <3>5. limit' \in [Requests -> [Names -> Nat]] /\ perMsg' \in [Requests -> Nat]
          /\ at' \in [Requests -> 0 .. Horizon]
      BY <1>b, <2>3, <3>3, <3>4 DEF ReadLimits
    <3> QED
      BY <1>a, <1>b, <2>3, <3>1, <3>5 DEF ReadLimits
  <2>4. CASE ReadAccount(q)
    <3>1. acct[q] \in Accounts
      BY <1>b, <2>4 DEF ReadAccount, ReadLimits, RequestInv, Checked
    <3>2. clamped[acct[q]] \in BOOLEAN
      BY <1>b, <3>1
    <3> QED
      BY <1>b, <2>3, <2>4, <3>2 DEF ReadAccount
  <2>5. CASE ThrottleUnread(q)
    <3>1. slowed' \in [Requests -> BOOLEAN]
      BY <1>b, <2>5 DEF ThrottleUnread
    <3>2. errors' \in 0 .. MaxErrors /\ unread' \in 0 .. errors'
      BY <1>b, <2>5, GateAssumption DEF ThrottleUnread
    <3> QED
      BY <2>3, <2>5, <3>1, <3>2 DEF ThrottleUnread
  <2>6. ASSUME NEW tooLarge \in BOOLEAN, Allow(q, tooLarge) PROVE GateTypeOK'
    <3>1. step' \in [Requests -> Steps]
      BY <2>6, <2>s, <2>t DEF Allow
    <3>2. Active(q) \subseteq Names
      BY DEF Active
    <3>3. owed' \in [Requests -> SUBSET Names]
      BY <1>b, <2>6, <3>2 DEF Allow
    <3> QED
      BY <1>a, <1>b, <2>6, <3>1, <3>3 DEF Allow
  <2>7. ASSUME NEW w \in Names, Consume(q, w) PROVE GateTypeOK'
    <3>1. step' \in [Requests -> Steps]
      BY <2>7, <2>s, <2>t DEF Consume
    <3>2. Add(q, w) \in Nat
      BY AddBound
    <3>3. PICK k, n : k = Key(q, w) /\ n = Add(q, w)
      OBVIOUS
    <3>4. count' = [count EXCEPT ![k] = @ + n]
      BY <2>7, <3>3 DEF Consume
    <3>6. n \in Nat
      BY <3>2, <3>3
    <3>8. acct[q] \in Accounts
      BY <1>b, <2>7 DEF Consume, RequestInv, Checked
    <3>9. k \in Keys
      BY <3>3, <3>8, KeyIsKey
    <3>7. count' \in [Keys -> Nat]
      BY <1>b, <3>4, <3>6, <3>9
    <3>5. owed' \in [Requests -> SUBSET Names] /\ paid' \in [Requests -> SUBSET Names]
      BY <1>b, <2>7 DEF Consume
    <3> QED
      BY <1>a, <1>b, <2>7, <3>1, <3>5, <3>7 DEF Consume
  <2>8. CASE CheckError(q)
    <3>1. step' \in [Requests -> Steps]
      BY <2>8, <2>s, <2>t DEF CheckError
    <3>2. errors' \in 0 .. MaxErrors /\ unread' \in 0 .. errors'
      BY <1>b, <2>8, GateAssumption DEF CheckError
    <3> QED
      BY <1>a, <1>b, <2>8, <3>1, <3>2 DEF CheckError
  <2>9. ASSUME NEW end, Proceed(q, end) PROVE GateTypeOK'
    <3>1. step' \in [Requests -> Steps]
      BY <2>9, <2>s, <2>t DEF Proceed
    <3> QED
      BY <1>a, <1>b, <2>9, <3>1 DEF Proceed
  <2>10. CASE Return(q)
    <3>1. step' \in [Requests -> Steps]
      BY <2>10, <2>s, <2>t DEF Return
    <3>2. 0 \in 0 .. MaxRecips /\ 0 \in 0 .. Horizon
      BY GateAssumption
    <3>3. Unlimited \in [Names -> Nat]
      BY DEF Unlimited
    <3>4. /\ acct' \in [Requests -> Accounts \cup {NoAccount}]
          /\ recips' \in [Requests -> 0 .. MaxRecips] /\ at' \in [Requests -> 0 .. Horizon]
      BY <1>b, <2>10, <3>2 DEF Return
    <3>6. limit' \in [Requests -> [Names -> Nat]] /\ perMsg' \in [Requests -> Nat]
      BY <1>b, <2>10, <3>3 DEF Return
    <3>5. /\ owed' \in [Requests -> SUBSET Names] /\ paid' \in [Requests -> SUBSET Names]
          /\ barred' \in [Requests -> BOOLEAN] /\ slowed' \in [Requests -> BOOLEAN]
      BY <1>b, <2>10 DEF Return
    <3> QED
      BY <1>a, <1>b, <2>10, <3>1, <3>4, <3>5, <3>6 DEF Return
  <2> QED
    BY <1>5, <2>1, <2>2, <2>4, <2>5, <2>6, <2>7, <2>8, <2>9, <2>10 DEF Handle
<1>6. CASE UNCHANGED gateVars
  BY <1>a, <1>b, <1>6 DEF gateVars
<1> QED
  BY <1>1, <1>2, <1>3, <1>4, <1>5, <1>6 DEF GateNext

(* A request's handler touches no other request, and neither the gate nor the
   mark of an account. *)
Unmoved(r) ==
  /\ step'[r] = step[r] /\ acct'[r] = acct[r] /\ recips'[r] = recips[r] /\ limit'[r] = limit[r]
  /\ at'[r] = at[r] /\ owed'[r] = owed[r] /\ paid'[r] = paid[r]
  /\ barred'[r] = barred[r] /\ slowed'[r] = slowed[r]

(* A request's own steps touch no other request and no mark; the counters are
   all that requests share. *)
LEMMA HandlesItself ==
  ASSUME GateTypeOK, NEW q \in Requests, Handle(q)
  PROVE  /\ \A r \in Requests \ {q} : Unmoved(r)
         /\ Still(q)
         /\ enabled' = enabled /\ clamped' = clamped
<1> USE DEF shared, local, hist, Goto
<1>1. /\ step \in [Requests -> Steps] /\ acct \in [Requests -> Accounts \cup {NoAccount}]
      /\ recips \in [Requests -> 0 .. MaxRecips] /\ limit \in [Requests -> [Names -> Nat]]
      /\ at \in [Requests -> 0 .. Horizon]
      /\ owed \in [Requests -> SUBSET Names] /\ paid \in [Requests -> SUBSET Names]
      /\ barred \in [Requests -> BOOLEAN] /\ slowed \in [Requests -> BOOLEAN]
  BY DEF GateTypeOK, Steps
<1>2. enabled' = enabled /\ clamped' = clamped
  BY DEF Handle, Submit, CheckState, ReadAccount, ThrottleUnread, ReadLimits, Allow, Consume,
         CheckError, Proceed, Return
<1>3. ASSUME NEW r \in Requests \ {q} PROVE Unmoved(r)
  <2>1. ASSUME NEW a \in Accounts, NEW n \in Recips, Submit(q, a, n) PROVE Unmoved(r)
    BY <1>1, <1>3, <2>1 DEF Submit, Unmoved
  <2>2. CASE CheckState(q)
    BY <1>1, <1>3, <2>2 DEF CheckState, Unmoved
  <2>3. CASE ReadAccount(q)
    BY <1>1, <1>3, <2>3 DEF ReadAccount, ReadLimits, Unmoved
  <2>4. CASE ThrottleUnread(q)
    BY <1>1, <1>3, <2>4 DEF ThrottleUnread, ReadLimits, Unmoved
  <2>5. ASSUME NEW tooLarge \in BOOLEAN, Allow(q, tooLarge) PROVE Unmoved(r)
    BY <1>1, <1>3, <2>5 DEF Allow, Unmoved
  <2>6. ASSUME NEW w \in Names, Consume(q, w) PROVE Unmoved(r)
    BY <1>1, <1>3, <2>6 DEF Consume, Unmoved
  <2>7. CASE CheckError(q)
    BY <1>1, <1>3, <2>7 DEF CheckError, Unmoved
  <2>8. ASSUME NEW end, Proceed(q, end) PROVE Unmoved(r)
    BY <1>1, <1>3, <2>8 DEF Proceed, Unmoved
  <2>9. CASE Return(q)
    BY <1>1, <1>3, <2>9 DEF Return, Unmoved
  <2> QED
    BY <2>1, <2>2, <2>3, <2>4, <2>5, <2>6, <2>7, <2>8, <2>9 DEF Handle
<1>4. Still(q)
  BY <1>3 DEF Still, Unmoved
<1> QED
  BY <1>2, <1>3, <1>4

(* Nothing changes for a request that is not touched. *)
LEMMA UnmovedKeeps ==
  ASSUME NEW r \in Requests, Checked(r), Limited(r), Unmoved(r),
         enabled' = enabled, clamped' = clamped
  PROVE  Checked(r)' /\ Limited(r)'
<1>1. Active(r)' = Active(r)
  BY DEF Active, Unmoved
<1>2. Checked(r)'
  BY <1>1 DEF Checked, Unmoved
<1>3. Limited(r)'
  BY DEF Limited, Unmoved
<1> QED
  BY <1>2, <1>3

(* What a request's own step makes of it. *)
LEMMA HandleKeeps ==
  ASSUME GateTypeOK, NEW q \in Requests, Checked(q), Limited(q), Handle(q)
  PROVE  Checked(q)' /\ Limited(q)'
<1> USE DEF shared, local, hist
<1>0. enabled' = enabled /\ clamped' = clamped
  BY HandlesItself
<1>1. /\ step \in [Requests -> Steps] /\ acct \in [Requests -> Accounts \cup {NoAccount}]
      /\ limit \in [Requests -> [Names -> Nat]]
      /\ owed \in [Requests -> SUBSET Names] /\ paid \in [Requests -> SUBSET Names]
      /\ barred \in [Requests -> BOOLEAN] /\ slowed \in [Requests -> BOOLEAN]
      /\ enabled \in [Accounts -> BOOLEAN] /\ clamped \in [Accounts -> BOOLEAN]
  BY DEF GateTypeOK, Steps
<1>2. Anonymous \subseteq Accounts /\ NoAccount \notin Accounts
  BY GateAssumption
<1>3. ASSUME NEW a \in Accounts, NEW n \in Recips, Submit(q, a, n)
      PROVE  Checked(q)' /\ Limited(q)'
  <2>1. /\ step[q] = "idle" /\ step'[q] = "state" /\ acct'[q] = a /\ paid'[q] = paid[q]
        /\ barred'[q] = ~enabled[a] /\ slowed'[q] = clamped[a]
    BY <1>1, <1>3 DEF Submit, Goto
  <2>2. Checked(q)'
    BY <1>0, <1>1, <1>2, <2>1 DEF Checked
  <2>3. Limited(q)'
    BY <1>0, <1>1, <2>1 DEF Limited, Past
  <2> QED
    BY <2>2, <2>3
<1>4. CASE CheckState(q)
  <2>1. /\ step[q] = "state" /\ UNCHANGED <<acct, paid, barred, slowed, limit>>
        /\ acct[q] \in Anonymous \/ ~enabled[acct[q]] => step'[q] = "refused"
        /\ ~(acct[q] \in Anonymous \/ ~enabled[acct[q]]) => step'[q] = "account"
    BY <1>1, <1>4 DEF CheckState, Goto
  <2>2. Checked(q)'
    BY <1>0, <1>2, <2>1 DEF Checked
  <2>3. Limited(q)'
    BY <1>0, <2>1 DEF Limited, Past
  <2> QED
    BY <2>2, <2>3
<1>5. ASSUME NEW throttled \in BOOLEAN, ReadLimits(q, throttled), slowed'[q] => slowed[q] /\ throttled
      PROVE  Checked(q)' /\ Limited(q)'
  <2>1. /\ step[q] = "account" /\ step'[q] = "peek" /\ UNCHANGED <<acct, paid, barred>>
        /\ limit'[q] = Effective(acct[q], throttled)
    BY <1>1, <1>5 DEF ReadLimits, Goto
  <2>2. acct[q] \in Accounts
    BY <1>1, <2>1 DEF Checked
  <2>3. Checked(q)'
    BY <1>0, <2>1 DEF Checked
  <2>4. /\ \A w \in Names \ AccountWindows : limit'[q][w] \in {0, Max[w]}
        /\ throttled => \A w \in AccountWindows : limit'[q][w] \in 1 .. ThrottledMax[w]
    BY <2>1, <2>2, EffectiveLimits
  <2>5. Limited(q)'
    BY <1>0, <1>5, <2>1, <2>4 DEF Limited, Past
  <2> QED
    BY <2>3, <2>5
<1>6. CASE ReadAccount(q)
  <2>1. acct[q] \in Accounts
    BY <1>1, <1>6 DEF ReadAccount, ReadLimits, Checked
  <2>2. clamped[acct[q]] \in BOOLEAN
    BY <1>1, <2>1
  <2>3. slowed'[q] => slowed[q] /\ clamped[acct[q]]
    BY <1>6 DEF ReadAccount, Limited
  <2> QED
    BY <1>5, <1>6, <2>2, <2>3 DEF ReadAccount
<1>7. CASE ThrottleUnread(q)
  <2>1. ~slowed'[q]
    BY <1>1, <1>7 DEF ThrottleUnread
  <2> QED
    BY <1>5, <1>7, <2>1 DEF ThrottleUnread
<1>8. ASSUME NEW tooLarge \in BOOLEAN, Allow(q, tooLarge) PROVE Checked(q)' /\ Limited(q)'
  <2>1. /\ step[q] = "peek" /\ step'[q] \in {"denied", "allowed", "consume"}
        /\ UNCHANGED <<acct, paid, barred, slowed, limit>>
        /\ step'[q] = "consume" => owed'[q] = Active(q)
        /\ step'[q] = "allowed" => Active(q) = {}
    BY <1>1, <1>8 DEF Allow, Goto
  <2>2. Active(q)' = Active(q)
    BY <2>1 DEF Active
  <2>3. Checked(q)'
    BY <1>0, <2>1, <2>2 DEF Checked
  <2>4. Limited(q)'
    BY <1>0, <2>1 DEF Limited, Past
  <2> QED
    BY <2>3, <2>4
<1>9. ASSUME NEW w \in Names, Consume(q, w) PROVE Checked(q)' /\ Limited(q)'
  <2>1. /\ step[q] = "consume" /\ w \in owed[q]
        /\ UNCHANGED <<acct, barred, slowed, limit>>
        /\ owed'[q] = owed[q] \ {w} /\ paid'[q] = paid[q] \cup {w}
        /\ owed[q] = {w} => step'[q] = "allowed"
        /\ owed[q] # {w} => step'[q] = "consume"
    BY <1>1, <1>9 DEF Consume, Goto
  <2>2. Active(q)' = Active(q)
    BY <2>1 DEF Active
  <2>3. Checked(q)'
    <3>1. owed'[q] \cup paid'[q] = Active(q)
      BY <2>1 DEF Checked
    <3>2. step'[q] = "allowed" => owed'[q] = {}
      BY <2>1
    <3> QED
      BY <1>0, <2>1, <2>2, <3>1, <3>2 DEF Checked
  <2>4. Limited(q)'
    BY <1>0, <2>1 DEF Limited, Past
  <2> QED
    BY <2>3, <2>4
<1>10. CASE CheckError(q)
  <2>1. /\ step[q] \in {"state", "account", "peek", "consume"} /\ step'[q] = "failed"
        /\ UNCHANGED <<acct, paid, barred, slowed, limit>>
    BY <1>1, <1>10 DEF CheckError, Goto
  <2>2. Checked(q)' /\ Limited(q)'
    BY <1>0, <2>1 DEF Checked, Limited, Past
  <2> QED
    BY <2>2
<1>11. ASSUME NEW end, Proceed(q, end) PROVE Checked(q)' /\ Limited(q)'
  <2>1. /\ step[q] = "allowed" /\ step'[q] \in {"sent", "rejected"}
        /\ UNCHANGED <<acct, paid, barred, slowed, limit>>
    BY <1>1, <1>11 DEF Proceed, Goto
  <2>2. Active(q)' = Active(q)
    BY <2>1 DEF Active
  <2>3. Checked(q)' /\ Limited(q)'
    BY <1>0, <2>1, <2>2 DEF Checked, Limited, Past
  <2> QED
    BY <2>3
<1>12. CASE Return(q)
  <2>1. /\ step'[q] = "idle" /\ acct'[q] = NoAccount /\ paid'[q] = {}
        /\ ~barred'[q] /\ ~slowed'[q]
    BY <1>1, <1>12 DEF Return, Goto
  <2>2. Checked(q)' /\ Limited(q)'
    BY <1>2, <2>1 DEF Checked, Limited, Past
  <2> QED
    BY <2>2
<1> QED
  BY <1>3, <1>4, <1>6, <1>7, <1>8, <1>9, <1>10, <1>11, <1>12 DEF Handle

(* Every request, after every step. *)
LEMMA RequestNext ==
  ASSUME GateTypeOK, RequestInv, [GateNext]_gateVars
  PROVE  RequestInv'
<1> USE DEF shared, local, hist
<1> SUFFICES ASSUME NEW r \in Requests PROVE Checked(r)' /\ Limited(r)'
  BY DEF RequestInv
<1>0. Checked(r) /\ Limited(r)
  BY DEF RequestInv
<1>t. /\ acct[r] \in Accounts \cup {NoAccount} /\ barred[r] \in BOOLEAN /\ slowed[r] \in BOOLEAN
      /\ enabled \in [Accounts -> BOOLEAN] /\ clamped \in [Accounts -> BOOLEAN]
  BY DEF GateTypeOK
<1>1. CASE Minute
  <2>1. Unmoved(r) /\ enabled' = enabled /\ clamped' = clamped
    BY <1>1 DEF Minute, Unmoved
  <2> QED
    BY <1>0, <2>1, UnmovedKeeps
<1>2. ASSUME NEW a \in Accounts, Mature(a) PROVE Checked(r)' /\ Limited(r)'
  <2>1. Unmoved(r) /\ enabled' = enabled /\ clamped' = clamped
    BY <1>2 DEF Mature, Unmoved
  <2> QED
    BY <1>0, <2>1, UnmovedKeeps
<1>3. ASSUME NEW a \in Judged, NEW on \in BOOLEAN, SetSendEnabled(a, on)
      PROVE  Checked(r)' /\ Limited(r)'
  <2>1. UNCHANGED <<step, acct, paid, owed, limit, slowed, clamped>>
    BY <1>3 DEF SetSendEnabled
  <2>2. barred'[r] => barred[r] /\ ~(on /\ acct[r] = a)
    BY <1>3 DEF SetSendEnabled
  <2>3. barred'[r] => ~enabled'[acct[r]]
    <3>1. barred'[r] => acct[r] \in Accounts /\ ~enabled[acct[r]]
      BY <1>0, <1>t, <2>2 DEF Checked
    <3> QED
      BY <1>3, <1>t, <2>2, <3>1 DEF SetSendEnabled
  <2>4. Active(r)' = Active(r)
    BY <2>1 DEF Active
  <2>5. Checked(r)'
    BY <1>0, <2>1, <2>2, <2>3, <2>4 DEF Checked
  <2>6. Limited(r)'
    BY <1>0, <2>1 DEF Limited
  <2> QED
    BY <2>5, <2>6
<1>4. ASSUME NEW a \in Judged, NEW on \in BOOLEAN, SetMark(a, on)
      PROVE  Checked(r)' /\ Limited(r)'
  <2>1. UNCHANGED <<step, acct, paid, owed, limit, barred, enabled>>
    BY <1>4 DEF SetMark
  <2>2. slowed'[r] => slowed[r] /\ (on \/ acct[r] # a)
    BY <1>4 DEF SetMark
  <2>3. slowed'[r] => clamped'[acct[r]]
    <3>1. slowed'[r] => acct[r] \in Accounts /\ clamped[acct[r]]
      BY <1>0, <1>t, <2>2 DEF Checked, Limited
    <3> QED
      BY <1>4, <1>t, <2>2, <3>1 DEF SetMark
  <2>4. Active(r)' = Active(r)
    BY <2>1 DEF Active
  <2>5. Checked(r)'
    BY <1>0, <2>1, <2>4 DEF Checked
  <2>6. Limited(r)'
    BY <1>0, <2>1, <2>2, <2>3 DEF Limited
  <2> QED
    BY <2>5, <2>6
<1>5. ASSUME NEW q \in Requests, Handle(q) PROVE Checked(r)' /\ Limited(r)'
  <2>1. CASE r = q
    BY <1>0, <1>5, <2>1, HandleKeeps
  <2>2. CASE r # q
    BY <1>0, <1>5, <2>2, HandlesItself, UnmovedKeeps
  <2> QED
    BY <2>1, <2>2
<1>6. CASE UNCHANGED gateVars
  <2>1. Unmoved(r) /\ enabled' = enabled /\ clamped' = clamped
    BY <1>6 DEF gateVars, Unmoved
  <2> QED
    BY <1>0, <2>1, UnmovedKeeps
<1> QED
  BY <1>1, <1>2, <1>3, <1>4, <1>5, <1>6 DEF GateNext

(* A request's step leaves room in a counter as long as the request does not go
   on to peek at it under a looser limit. *)
LEMMA RoomHandle ==
  ASSUME GateTypeOK, RequestInv, NEW q \in Requests, Handle(q),
         NEW k \in Keys, NEW n \in Nat, NEW x \in Nat,
         Room(k, n, x), q \notin Looser(k, n)'
  PROVE  Room(k, n, x)'
<1> USE DEF shared, local, hist
<1>0. Still(q)
  BY HandlesItself
<1>1. /\ step \in [Requests -> Steps] /\ acct \in [Requests -> Accounts \cup {NoAccount}]
      /\ recips \in [Requests -> 0 .. MaxRecips] /\ limit \in [Requests -> [Names -> Nat]]
      /\ owed \in [Requests -> SUBSET Names] /\ count \in [Keys -> Nat]
  BY DEF GateTypeOK, Steps, Keys
<1>2. step'[q] # "consume" => q \notin Owing(k)' /\ q \in Held(k, n)'
  BY DEF Owing, Held
<1>3. step[q] # "consume" => q \notin Owing(k)
  BY DEF Owing
<1>4. k[1] \in Names
  BY DEF Keys
<1>5. ASSUME step[q] # "consume", step'[q] # "consume", count' = count PROVE Room(k, n, x)'
  BY <1>0, <1>2, <1>3, <1>5, RoomKept
<1>6. ASSUME NEW a \in Accounts, NEW m \in Recips, Submit(q, a, m) PROVE Room(k, n, x)'
  BY <1>1, <1>5, <1>6 DEF Submit, Goto
<1>7. CASE CheckState(q)
  <2>1. step'[q] # "consume" /\ step[q] # "consume" /\ count' = count
    BY <1>1, <1>7 DEF CheckState, Goto
  <2> QED
    BY <1>5, <2>1
<1>8. CASE ReadAccount(q)
  BY <1>1, <1>5, <1>8 DEF ReadAccount, ReadLimits, Goto
<1>9. CASE ThrottleUnread(q)
  BY <1>1, <1>5, <1>9 DEF ThrottleUnread, ReadLimits, Goto
<1>10. CASE Return(q)
  BY <1>1, <1>5, <1>10 DEF Return, Goto, Outcomes
<1>11. ASSUME NEW end, Proceed(q, end) PROVE Room(k, n, x)'
  BY <1>1, <1>5, <1>11 DEF Proceed, Goto
<1>12. CASE CheckError(q)
  <2>1. step'[q] = "failed" /\ count' = count /\ recips' = recips
    BY <1>1, <1>12 DEF CheckError, Goto
  <2> QED
    BY <1>0, <1>2, <2>1, RoomKept
<1>13. ASSUME NEW tooLarge \in BOOLEAN, Allow(q, tooLarge) PROVE Room(k, n, x)'
  <2>1. /\ step[q] = "peek" /\ UNCHANGED <<count, acct, recips, limit, at>>
        /\ step'[q] = "consume" => owed'[q] = Active(q) /\ \A w \in Active(q) : Fits(q, w)
    BY <1>1, <1>13 DEF Allow, Goto
  <2>2. Key(q, k[1])' = Key(q, k[1])
    BY <2>1 DEF Key
  <2>3. CASE step'[q] # "consume"
    BY <1>5, <2>1, <2>3
  <2>4. CASE step'[q] = "consume" /\ q \in Owing(k)'
    <3>1. k[1] \in Active(q) /\ Key(q, k[1]) = k
      BY <2>1, <2>2, <2>4 DEF Owing
    <3>2. count[k] + Add(q, k[1]) <= limit[q][k[1]]
      BY <2>1, <2>4, <3>1 DEF Fits
    <3>3. CASE limit[q][k[1]] <= n
      <4>1. count[k] \in Nat /\ Add(q, k[1]) \in Nat /\ limit[q][k[1]] \in Nat
        BY <1>1, <1>4, AddBound
      <4>2. count[k] + Add(q, k[1]) <= n
        BY <3>2, <3>3, <4>1
      <4> QED
        BY <1>0, <2>1, <2>4, <4>2, RoomPeeked
    <3>4. CASE ~(limit[q][k[1]] <= n)
      <4>1. limit[q][k[1]] > n
        BY <1>1, <1>4, <3>4
      <4>2. q \notin Held(k, n)
        BY <2>1, <3>1, <4>1 DEF Held, Looser
      <4> QED
        BY <1>0, <1>3, <2>1, <4>2, RoomKept
    <3> QED
      BY <3>3, <3>4
  <2>5. CASE step'[q] = "consume" /\ q \notin Owing(k)'
    <3>1. q \in Held(k, n)'
      BY <2>5 DEF Held
    <3> QED
      BY <1>0, <1>3, <2>1, <3>1, RoomKept
  <2> QED
    BY <2>3, <2>4, <2>5
<1>14. ASSUME NEW v \in Names, Consume(q, v) PROVE Room(k, n, x)'
  <2>1. /\ step[q] = "consume" /\ v \in owed[q] /\ UNCHANGED <<acct, recips, limit, at>>
        /\ owed'[q] = owed[q] \ {v}
        /\ owed[q] # {v} => step'[q] = "consume"
    BY <1>1, <1>14 DEF Consume, Goto
  <2>2. PICK j, m : j = Key(q, v) /\ m = Add(q, v)
    OBVIOUS
  <2>3. count' = [count EXCEPT ![j] = @ + m]
    BY <1>14, <2>2 DEF Consume
  <2>4. acct[q] \in Accounts
    BY <1>1, <2>1 DEF RequestInv, Checked
  <2>5. j \in Keys /\ j[1] = v
    BY <2>2, <2>4, KeyIsKey
  <2>6. Key(q, k[1])' = Key(q, k[1])
    BY <2>1 DEF Key
  <2>7. CASE j = k
    <3>1. q \in Owing(k) /\ q \notin Owing(k)'
      BY <2>1, <2>2, <2>5, <2>7 DEF Owing
    <3>2. q \in Held(k, n)'
      BY <3>1 DEF Held
    <3>3. count'[k] = count[k] + Add(q, k[1])
      BY <1>1, <2>2, <2>3, <2>5, <2>7
    <3> QED
      BY <1>0, <3>1, <3>2, <3>3, RoomPaid
  <2>8. CASE j # k
    <3>1. count'[k] = count[k] /\ recips' = recips
      BY <1>1, <2>1, <2>3, <2>8
    <3>2. q \in Owing(k)' => q \in Owing(k)
      BY <2>1, <2>6 DEF Owing
    <3>3. q \in Owing(k) => q \in Owing(k)'
      <4>1. q \in Owing(k) => k[1] # v
        BY <2>2, <2>8 DEF Owing
      <4> QED
        BY <2>1, <2>6, <4>1 DEF Owing
    <3>4. q \in Held(k, n) => q \in Held(k, n)'
      BY <3>2 DEF Held
    <3> QED
      BY <1>0, <3>1, <3>3, <3>4, RoomKept
  <2> QED
    BY <2>7, <2>8
<1> QED
  BY <1>6, <1>7, <1>8, <1>9, <1>10, <1>11, <1>12, <1>13, <1>14 DEF Handle

(* What Room speaks of. *)
LEMMA RoomStill ==
  ASSUME UNCHANGED <<count, step, owed, acct, at, limit, recips>>, NEW k, NEW n, NEW x, Room(k, n, x)
  PROVE  Room(k, n, x)'
<1>1. Owing(k)' = Owing(k) /\ Looser(k, n)' = Looser(k, n)
  BY DEF Owing, Looser, Key
<1>2. Held(k, n)' = Held(k, n)
  BY <1>1 DEF Held
<1>3. \A q : Add(q, k[1])' = Add(q, k[1])
  BY DEF Add
<1> QED
  BY <1>1, <1>2, <1>3 DEF Room

(* A step that is not a request's changes nothing Room speaks of, and lets no
   request begin to be slowed. *)
LEMMA OutsideSteps ==
  ASSUME [GateNext]_gateVars
  PROVE  \/ \E q \in Requests : Handle(q)
         \/ /\ UNCHANGED <<count, step, owed, acct, at, limit, recips, unread>>
            /\ \A q \in Requests : slowed'[q] => slowed[q]
<1> USE DEF shared, local, hist
<1>1. CASE Minute
  BY <1>1 DEF Minute
<1>2. ASSUME NEW a \in Accounts, Mature(a)
      PROVE  /\ UNCHANGED <<count, step, owed, acct, at, limit, recips, unread>>
             /\ \A q \in Requests : slowed'[q] => slowed[q]
  BY <1>2 DEF Mature
<1>3. ASSUME NEW a \in Judged, NEW on \in BOOLEAN, SetSendEnabled(a, on)
      PROVE  /\ UNCHANGED <<count, step, owed, acct, at, limit, recips, unread>>
             /\ \A q \in Requests : slowed'[q] => slowed[q]
  BY <1>3 DEF SetSendEnabled
<1>4. ASSUME NEW a \in Judged, NEW on \in BOOLEAN, SetMark(a, on)
      PROVE  /\ UNCHANGED <<count, step, owed, acct, at, limit, recips, unread>>
             /\ \A q \in Requests : slowed'[q] => slowed[q]
  BY <1>4 DEF SetMark
<1>5. CASE UNCHANGED gateVars
  BY <1>5 DEF gateVars
<1> QED
  BY <1>1, <1>2, <1>3, <1>4, <1>5 DEF GateNext

(* No request ever peeks at a domain counter under a limit above the domain's. *)
LEMMA NoneLooser ==
  ASSUME GateTypeOK', RequestInv', NEW q \in Requests, NEW k \in Keys, k[2] = Domain
  PROVE  q \notin Looser(k, Max[k[1]])'
<1> SUFFICES ASSUME step'[q] = "peek", Key(q, k[1])' = k, limit'[q][k[1]] > Max[k[1]] PROVE FALSE
  BY DEF Looser
<1>1. k[1] \in Names
  BY DEF Keys
<1>2. acct'[q] \in Accounts
  BY DEF GateTypeOK, RequestInv, Checked
<1>3. k[1] \notin AccountWindows
  BY <1>2, GateAssumption DEF Key
<1>4. limit'[q][k[1]] \in {0, Max[k[1]]}
  BY <1>1, <1>3 DEF RequestInv, Limited, Past
<1>5. Max[k[1]] \in Nat
  BY <1>1, GateAssumption
<1> QED
  BY <1>4, <1>5

(* The domain counters keep their room. *)
LEMMA BackstopNext ==
  ASSUME GateTypeOK, RequestInv, BackstopInv, GateTypeOK', RequestInv', [GateNext]_gateVars
  PROVE  BackstopInv'
<1>1. DOMAIN count = Keys /\ DOMAIN count' = Keys
  BY DEF GateTypeOK, Keys
<1> SUFFICES ASSUME NEW k \in Keys, k[2] = Domain, Max[k[1]] > 0
             PROVE  Room(k, Max[k[1]], 0)'
  BY <1>1 DEF BackstopInv
<1>2. Room(k, Max[k[1]], 0)
  BY <1>1 DEF BackstopInv
<1>3. PICK n : n = Max[k[1]]
  OBVIOUS
<1>4. n \in Nat
  BY <1>3, GateAssumption DEF Keys
<1>5. \A q \in Requests : q \notin Looser(k, n)'
  <2>1. \A q \in Requests : q \notin Looser(k, Max[k[1]])'
    BY NoneLooser
  <2> QED
    BY <1>3, <2>1
<1>6. CASE \E q \in Requests : Handle(q)
  BY <1>2, <1>3, <1>4, <1>5, <1>6, RoomHandle
<1>7. CASE UNCHANGED <<count, step, owed, acct, at, limit, recips, unread>>
  BY <1>2, <1>7, RoomStill
<1> QED
  BY <1>6, <1>7, OutsideSteps

(* Only a mark that could not be read, or none, sends a request of a clamped
   account to peek under a looser limit. *)
LEMMA ClampedNotLooser ==
  ASSUME GateTypeOK, RequestInv, NEW q \in Requests, Handle(q), ~ThrottleUnread(q),
         NEW w \in AccountWindows, NEW k \in Keys, k[1] = w,
         \A a \in Accounts : k[2] = a => clamped[a]
  PROVE  q \notin Looser(k, ThrottledMax[w])'
<1> USE DEF shared, local, hist
<1> SUFFICES ASSUME step'[q] = "peek", Key(q, w)' = k, limit'[q][w] > ThrottledMax[w] PROVE FALSE
  BY DEF Looser
<1>1. step \in [Requests -> Steps] /\ acct \in [Requests -> Accounts \cup {NoAccount}]
      /\ limit \in [Requests -> [Names -> Nat]]
  BY DEF GateTypeOK, Steps
<1>2. ReadAccount(q)
  <2>1. \A a \in Accounts, m \in Recips : ~Submit(q, a, m)
    BY <1>1 DEF Submit, Goto
  <2>2. ~CheckState(q)
    BY <1>1 DEF CheckState, Goto
  <2>3. \A tooLarge \in BOOLEAN : ~Allow(q, tooLarge)
    BY <1>1 DEF Allow, Goto
  <2>4. \A v \in Names : ~Consume(q, v)
    BY <1>1 DEF Consume, Goto
  <2>5. ~CheckError(q) /\ ~Return(q)
    BY <1>1 DEF CheckError, Return, Goto
  <2>6. \A end : ~Proceed(q, end)
    BY <1>1 DEF Proceed, Goto
  <2> QED
    BY <2>1, <2>2, <2>3, <2>4, <2>5, <2>6 DEF Handle
<1>3. acct[q] \in Accounts /\ acct' = acct
  BY <1>1, <1>2 DEF ReadAccount, ReadLimits, RequestInv, Checked
<1>4. k[2] = acct[q]
  BY <1>3 DEF Key
<1>5. clamped[acct[q]]
  BY <1>3, <1>4
<1>6. clamped[acct[q]] \in BOOLEAN
  BY <1>3 DEF GateTypeOK
<1>7. limit'[q] = Effective(acct[q], TRUE)
  BY <1>1, <1>2, <1>5, <1>6 DEF ReadAccount, ReadLimits
<1>8. limit'[q][w] \in 1 .. ThrottledMax[w]
  BY <1>3, <1>7, EffectiveLimits
<1>9. ThrottledMax[w] \in Nat
  BY GateAssumption
<1> QED
  BY <1>8, <1>9

(* The counters of a clamped account keep their room beside its request. *)
LEMMA ThrottleNext ==
  ASSUME GateTypeOK, RequestInv, ThrottleInv, GateTypeOK', RequestInv', [GateNext]_gateVars
  PROVE  ThrottleInv'
<1> USE DEF shared, local, hist
<1> SUFFICES ASSUME NEW r \in Requests, NEW w \in AccountWindows, NEW k \in Keys,
                    step'[r] \in {"consume", "allowed", "sent"}, slowed'[r], k = Key(r, w)'
             PROVE  \E x \in 0 .. unread' : Room(k, ThrottledMax[w], x)'
  BY DEF ThrottleInv
<1>1. PICK n : n = ThrottledMax[w]
  OBVIOUS
<1>2. n \in Nat /\ w \in Names /\ unread \in Nat /\ unread' \in Nat
  BY <1>1, GateAssumption, NamesAre DEF AccountWindows, GateTypeOK
<1>3. ASSUME step[r] \in {"consume", "allowed", "sent"}, slowed[r], k = Key(r, w)
      PROVE  \E x \in 0 .. unread : Room(k, n, x)
  BY <1>1, <1>3 DEF ThrottleInv
<1>t. /\ step \in [Requests -> Steps] /\ acct \in [Requests -> Accounts \cup {NoAccount}]
      /\ slowed \in [Requests -> BOOLEAN] /\ owed \in [Requests -> SUBSET Names]
      /\ count \in [Keys -> Nat] /\ limit \in [Requests -> [Names -> Nat]]
  BY DEF GateTypeOK, Steps, Keys
<1>4. ASSUME NEW q \in Requests, Handle(q)
      PROVE  \E x \in 0 .. unread' : Room(k, n, x)'
  <2>1. CASE q = r /\ \E tooLarge \in BOOLEAN : Allow(q, tooLarge)
    <3>1. /\ step[r] = "peek" /\ UNCHANGED <<count, acct, recips, limit, at, slowed, unread>>
          /\ step'[r] = "consume" => owed'[r] = Active(r) /\ \A v \in Active(r) : Fits(r, v)
          /\ step'[r] = "allowed" => Active(r) = {}
          /\ step'[r] \in {"denied", "allowed", "consume"}
      BY <1>t, <2>1 DEF Allow, Goto
    <3>2. limit[r][w] \in 1 .. n
      BY <1>1, <3>1 DEF RequestInv, Limited, Past
    <3>3. w \in Active(r)
      BY <1>2, <3>2 DEF Active
    <3>4. Key(r, w) = k
      BY <3>1 DEF Key
    <3>5. acct[r] \in Accounts
      BY <1>t, <3>1 DEF RequestInv, Checked
    <3>6. k[1] = w
      BY <1>2, <3>4, <3>5, KeyIsKey
    <3>7. step'[r] = "consume" /\ r \in Owing(k)'
      BY <3>1, <3>3, <3>6 DEF Owing
    <3>8. count[k] + Add(r, w) <= limit[r][w]
      BY <3>1, <3>3, <3>4, <3>7 DEF Fits
    <3>9. count[k] \in Nat /\ Add(r, w) \in Nat
      BY <1>t, AddBound
    <3>10. count[k] + Add(r, k[1]) <= n
      BY <1>2, <3>2, <3>6, <3>8, <3>9
    <3>11. Room(k, n, 0)'
      <4>1. Still(r)
        BY <1>4, <2>1, HandlesItself
      <4> QED
        BY <1>2, <3>1, <3>7, <3>10, <4>1, RoomPeeked
    <3> QED
      BY <1>2, <3>11
  <2>2. CASE q = r /\ ~\E tooLarge \in BOOLEAN : Allow(q, tooLarge)
    <3>1. /\ step[r] \in {"consume", "allowed"}
          /\ UNCHANGED <<acct, at, slowed, unread>>
      <4>1. \A a \in Accounts, m \in Recips : ~Submit(r, a, m)
        BY <1>t DEF Submit, Goto
      <4>2. ~CheckState(r)
        BY <1>t DEF CheckState, Goto
      <4>3. ~ReadAccount(r) /\ ~ThrottleUnread(r)
        BY <1>t DEF ReadAccount, ThrottleUnread, ReadLimits, Goto
      <4>4. ~CheckError(r) /\ ~Return(r)
        BY <1>t DEF CheckError, Return, Goto
      <4>5. ASSUME NEW v \in Names, Consume(r, v)
            PROVE  step[r] \in {"consume", "allowed"} /\ UNCHANGED <<acct, at, slowed, unread>>
        BY <4>5 DEF Consume
      <4>6. ASSUME NEW end, Proceed(r, end)
            PROVE  step[r] \in {"consume", "allowed"} /\ UNCHANGED <<acct, at, slowed, unread>>
        BY <4>6 DEF Proceed
      <4> QED
        BY <1>4, <2>2, <4>1, <4>2, <4>3, <4>4, <4>5, <4>6 DEF Handle
    <3>2. k = Key(r, w)
      BY <3>1 DEF Key
    <3>3. PICK x \in 0 .. unread : Room(k, n, x)
      BY <1>3, <3>1, <3>2
    <3>4. q \notin Looser(k, n)'
      BY <2>2 DEF Looser
    <3>5. Room(k, n, x)'
      BY <1>2, <1>4, <3>3, <3>4, RoomHandle
    <3> QED
      BY <3>1, <3>3, <3>5
  <2>3. CASE q # r
    <3>1. Unmoved(r) /\ Still(q)
      BY <1>4, <2>3, HandlesItself
    <3>2. k = Key(r, w) /\ slowed[r] /\ step[r] \in {"consume", "allowed", "sent"}
      BY <3>1 DEF Unmoved, Key
    <3>3. PICK x \in 0 .. unread : Room(k, n, x)
      BY <1>3, <3>2
    <3>4. acct[r] \in Accounts /\ clamped[acct[r]]
      BY <1>t, <3>2 DEF RequestInv, Checked, Limited
    <3>5. k[1] = w /\ k[2] = acct[r]
      BY <1>2, <3>2, <3>4, KeyIsKey
    <3>6. CASE ThrottleUnread(q)
      <4>1. unread' = unread + 1 /\ count' = count /\ step[q] = "account"
        BY <3>6 DEF ThrottleUnread, ReadLimits
      <4>2. q \notin Owing(k)
        BY <4>1 DEF Owing
      <4>3. Room(k, n, x + 1)'
        BY <1>2, <3>1, <3>3, <4>1, <4>2, RoomExcepted
      <4>4. x + 1 \in 0 .. unread'
        BY <1>2, <4>1
      <4> QED
        BY <4>3, <4>4
    <3>7. CASE ~ThrottleUnread(q)
      <4>1. q \notin Looser(k, n)'
        BY <1>1, <1>4, <3>4, <3>5, <3>7, ClampedNotLooser
      <4>2. Room(k, n, x)'
        BY <1>2, <1>4, <3>3, <4>1, RoomHandle
      <4>3. unread' = unread
        BY <1>4, <3>7 DEF Handle, Submit, CheckState, ReadAccount, Allow, Consume, CheckError,
                          Proceed, Return
      <4> QED
        BY <3>3, <4>2, <4>3
    <3> QED
      BY <3>6, <3>7
  <2> QED
    BY <2>1, <2>2, <2>3
<1>5. CASE /\ UNCHANGED <<count, step, owed, acct, at, limit, recips, unread>>
           /\ \A q \in Requests : slowed'[q] => slowed[q]
  <2>1. k = Key(r, w)
    BY <1>5 DEF Key
  <2>2. PICK x \in 0 .. unread : Room(k, n, x)
    BY <1>3, <1>5, <2>1
  <2>3. Room(k, n, x)'
    BY <1>5, <2>2, RoomStill
  <2> QED
    BY <1>1, <1>5, <2>2, <2>3
<1> QED
  BY <1>1, <1>4, <1>5, OutsideSteps

(* Before the first request there is room everywhere. *)
LEMMA GateInvInit == GateInit => GateInv
<1> SUFFICES ASSUME GateInit PROVE GateInv
  OBVIOUS
<1>1. GateTypeOK
  BY GateTypeInit
<1>2. RequestInv
  BY GateAssumption DEF GateInit, RequestInv, Checked, Limited, Past
<1>3. ThrottleInv
  BY DEF GateInit, ThrottleInv
<1>4. ASSUME NEW k \in Keys PROVE Room(k, Max[k[1]], 0)
  <2> DEFINE b == MostAdded(k[1])
             h == Cardinality(Held(k, Max[k[1]]))
  <2>1. Held(k, Max[k[1]]) = Requests
    BY DEF Held, Owing, Looser, GateInit
  <2>2. PICK q : q \in Requests
    BY GateAssumption
  <2>3. b \in Nat /\ Max[k[1]] \in Nat /\ count[k] = 0
    BY <1>1, <2>2, AddBound, GateAssumption DEF GateInit, Keys
  <2>5. PICK g \in Nat : h = g + 1
    <3>1. PICK R : R = Requests \ {q}
      OBVIOUS
    <3>2. R \in SUBSET Requests /\ Requests = R \cup {q} /\ q \in Requests \ R
      BY <2>2, <3>1
    <3>3. Cardinality(R) \in Nat /\ Cardinality(R \cup {q}) = Cardinality(R) + 1
      BY <3>2, CountRequests
    <3> QED
      BY <2>1, <3>2, <3>3
  <2>6. b * g \in Nat /\ b * (g + 1) = b * g + b
    BY <2>3, OneMore
  <2>7. h + 0 = g + 1
    BY <2>5
  <2>8. count[k] + b <= Max[k[1]] + b * (h + 0)
    <3> HIDE DEF b, h
    <3> QED
      BY <2>3, <2>6, <2>7
  <2> QED
    BY <2>8 DEF Room
<1>5. DOMAIN count = Keys
  BY DEF GateInit, Keys
<1> QED
  BY <1>1, <1>2, <1>3, <1>4, <1>5 DEF GateInv, BackstopInv

(* Every step keeps the inductive invariant. *)
LEMMA GateInvNext == GateInv /\ [GateNext]_gateVars => GateInv'
<1> SUFFICES ASSUME GateInv, [GateNext]_gateVars PROVE GateInv'
  OBVIOUS
<1>1. GateTypeOK /\ RequestInv /\ BackstopInv /\ ThrottleInv
  BY DEF GateInv
<1>2. GateTypeOK' /\ RequestInv'
  BY <1>1, GateTypeNext, RequestNext
<1>3. BackstopInv' /\ ThrottleInv'
  BY <1>1, <1>2, BackstopNext, ThrottleNext
<1> QED
  BY <1>2, <1>3 DEF GateInv

(* What Check knows of its requests, and how much room the counters have,
   is invariant under any interleaving of requests, errors, ladder and clock. *)
THEOREM GateInvariant == GateSpec => []GateInv
BY GateInvInit, GateInvNext, PTL DEF GateSpec

(* The counters, the marks and the requests under way keep their types, for any
   accounts, requests and limits. *)
THEOREM GateTypeCorrect == GateSpec => []GateTypeOK
<1>1. GateInv => GateTypeOK
  BY DEF GateInv
<1> QED
  BY <1>1, GateInvariant, PTL

(* A denial consumes nothing, a categorical refusal never reaches the counters,
   and a request that gets through has paid into each window it was held to, no
   matter which increment failed (gate.Check, Limiter.Allow). *)
THEOREM QuotaAlwaysPaidOnce == GateSpec => []QuotaIsPaidOnce
<1>1. GateInv => QuotaIsPaidOnce
  BY DEF GateInv, RequestInv, Checked, QuotaIsPaidOnce
<1> QED
  BY <1>1, GateInvariant, PTL

(* No domain counter passes its limit by more than the other requests in
   progress can add between another's peek and its increments, for any number of
   requests (Limiter.Allow peeks first and consumes afterwards). *)
THEOREM BackstopAlwaysHolds == GateSpec => []BackstopHolds
<1>1. GateInv => BackstopHolds
  <2> SUFFICES ASSUME GateInv, NEW k \in DOMAIN count, k[2] = Domain, Max[k[1]] > 0
               PROVE  count[k] <= Max[k[1]] + Slack(k[1])
    BY DEF BackstopHolds
  <2>1. GateTypeOK /\ k \in Keys
    BY DEF GateInv, GateTypeOK, Keys
  <2>2. Room(k, Max[k[1]], 0)
    BY DEF GateInv, BackstopInv
  <2>3. Max[k[1]] \in Nat
    BY <2>1, GateAssumption DEF Keys
  <2>4. count[k] <= Max[k[1]] + Slack(k[1]) + MostAdded(k[1]) * 0
    BY <2>1, <2>2, <2>3, RoomBounds
  <2>5. MostAdded(k[1]) \in Nat /\ Slack(k[1]) \in Int
    <3>1. Cardinality(Requests) \in Nat
      BY CountRequests
    <3>2. MostAdded(k[1]) \in Nat
      BY GateAssumption DEF MostAdded
    <3> QED
      BY <3>1, <3>2 DEF Slack
  <2> QED
    BY <2>3, <2>4, <2>5
<1> QED
  BY <1>1, GateInvariant, PTL

(* A request whose account was clamped throughout gets through only inside the
   throttled windows, up to what ran beside it and what a mark that could not be
   read let in (gate.Check, Throttled). *)
THEOREM ThrottleAlwaysBites == GateSpec => []ThrottleBites
<1>1. GateInv => ThrottleBites
  <2> SUFFICES ASSUME GateInv, NEW q \in Requests, NEW w \in AccountWindows,
                      step[q] \in {"allowed", "sent"}, slowed[q]
               PROVE  /\ w \in paid[q]
                      /\ count[Key(q, w)] <= ThrottledMax[w] + Slack(w) + MostAdded(w) * unread
    BY DEF ThrottleBites
  <2>1. GateTypeOK
    BY DEF GateInv
  <2>2. w \in Names /\ ThrottledMax[w] \in Nat
    BY GateAssumption, NamesAre DEF AccountWindows
  <2>3. w \in paid[q]
    <3>1. paid[q] = Active(q) /\ limit[q][w] \in 1 .. ThrottledMax[w]
      BY DEF GateInv, RequestInv, Checked, Limited, Past
    <3> QED
      BY <2>2, <3>1 DEF Active
  <2>4. acct[q] \in Accounts
    BY <2>1 DEF GateInv, RequestInv, Checked, GateTypeOK
  <2>5. PICK k : k = Key(q, w)
    OBVIOUS
  <2>6. k \in Keys /\ k[1] = w
    BY <2>1, <2>2, <2>4, <2>5, KeyIsKey
  <2>7. PICK x \in 0 .. unread : Room(k, ThrottledMax[w], x)
    BY <2>5, <2>6 DEF GateInv, ThrottleInv
  <2>8. unread \in Nat
    BY <2>1, GateAssumption DEF GateTypeOK
  <2>9. count[k] <= ThrottledMax[w] + Slack(w) + MostAdded(w) * x
    BY <2>1, <2>2, <2>6, <2>7, <2>8, RoomBounds
  <2>10. MostAdded(w) \in Nat /\ Slack(w) \in Int /\ count[k] \in Nat
    <3>1. Cardinality(Requests) \in Nat
      BY CountRequests
    <3>2. MostAdded(w) \in Nat
      BY GateAssumption DEF MostAdded
    <3> QED
      BY <2>1, <2>6, <3>1, <3>2 DEF Slack, GateTypeOK, Keys
  <2>11. x \in Nat /\ x <= unread
    BY <2>7, <2>8
  <2>12. /\ MostAdded(w) * x \in Nat /\ MostAdded(w) * unread \in Nat
         /\ MostAdded(w) * x <= MostAdded(w) * unread
    <3>1. MostAdded(w) \in Nat
      BY <2>10
    <3> QED
      BY <2>8, <2>11, <3>1, MoreExceptions
  <2>13. count[k] <= ThrottledMax[w] + Slack(w) + MostAdded(w) * unread
    BY <2>2, <2>8, <2>9, <2>10, <2>12
  <2> QED
    BY <2>3, <2>5, <2>13
<1> QED
  BY <1>1, GateInvariant, PTL

-----------------------------------------------------------------------------
(* Submission                                                              *)

(* The domains sendDirect visits. *)
DirectDomains == {DomainOf[r] : r \in {x \in Recipients : Direct(x)}}

(* Where the call in progress stands: it works on a domain exactly while it
   tries that domain's hosts, on none twice, and has nothing left to do once it
   answers. *)
RouteInv ==
  /\ stage = "hosts" <=> dom # NoDomain
  /\ stage = "hosts" => dom \in DirectDomains /\ dom \notin todo
  /\ todo \subseteq DirectDomains
  /\ remote \subseteq Relayed
  /\ stage \in {"idle", "respond"} => todo = {} /\ remote = {}
  /\ stage = "respond" => ~lastErr
  /\ stage # "idle" => outcome = "none"

(* The hosts of a recipient's domain are being tried, or its turn is still to
   come. *)
Trying(r)  == stage = "hosts" /\ DomainOf[r] = dom
Pending(r) == DomainOf[r] \in todo \/ r \in remote

(* A recipient's copies of this call: none before its turn, one for every lost
   reply while its hosts are tried, and at least one afterwards if nothing has
   gone wrong. *)
CopiesOf(r) ==
  /\ before[r] <= copies[r]
  /\ New(r) <= 1 + lost
  /\ Pending(r) => New(r) = 0
  /\ Trying(r) => New(r) <= lost
  /\ \/ lastErr \/ Pending(r) \/ Trying(r) \/ PassedOver(r)
     \/ New(r) >= 1
     \/ stage = "idle"

(* The sent folder's rows stand for earlier calls until this one is through. *)
FiledFor(r) ==
  \/ PassedOver(r)
  \/ /\ filed <= copies[r]
     /\ stage \in {"domains", "hosts"} => filed <= before[r]

(* What holds of every recipient. *)
RecipientInv == \A r \in Recipients : CopiesOf(r) /\ FiledFor(r)

(* The inductive invariant of a submission. *)
SubmissionInv == SubmissionTypeOK /\ RouteInv /\ RecipientInv /\ SuccessIsForAll

(* Whether a recipient is delivered to directly depends on its domain only. *)
LEMMA DirectByDomain ==
  ASSUME NEW r \in Recipients, DomainOf[r] \in DirectDomains
  PROVE  Direct(r) /\ r \notin Relayed
BY DEF DirectDomains, Direct, Relayed

(* Every recipient goes one way: directly, by the relay, or not at all. *)
LEMMA EveryoneIsRouted ==
  ASSUME NEW r \in Recipients
  PROVE  DomainOf[r] \in DirectDomains \/ r \in Relayed \/ PassedOver(r)
BY DEF DirectDomains, Direct, Relayed, PassedOver

(* The routing decisions are made of constants and the process's mode. *)
LEMMA RoutesStay ==
  ASSUME mode' = mode
  PROVE  /\ DirectDomains' = DirectDomains
         /\ Relayed' = Relayed
         /\ \A r \in Recipients : PassedOver(r)' <=> PassedOver(r)
BY DEF DirectDomains, Direct, Relayed, PassedOver

(* The domains to visit are domains of recipients. *)
LEMMA DirectDomainsAreDomains == DirectDomains \subseteq Domains
BY DEF DirectDomains, Domains, Direct

(* The types of a submission's state. *)
LEMMA SubmissionTypeInit == SubmissionInit => SubmissionTypeOK
<1> SUFFICES ASSUME SubmissionInit PROVE SubmissionTypeOK
  OBVIOUS
<1>1. copies \in [Recipients -> Nat] /\ before \in [Recipients -> Nat]
  BY DEF SubmissionInit
<1>2. IF dom = NoDomain THEN host = 0 ELSE host \in 1 .. MXHosts[dom]
  BY DEF SubmissionInit
<1>3. lostTotal \in 0 .. MaxLost /\ sends \in 0 .. MaxSends
  BY SubmissionAssumption DEF SubmissionInit
<1> QED
  BY <1>1, <1>2, <1>3 DEF SubmissionInit, SubmissionTypeOK

(* An SMTP transaction, lost reply or not, keeps the types of what it counts. *)
LEMMA TransactionType ==
  ASSUME SubmissionTypeOK, NEW S, NEW took \in BOOLEAN, NEW ok \in BOOLEAN,
         Transaction(S, took, ok)
  PROVE  /\ copies' \in [Recipients -> Nat]
         /\ lost' \in Nat /\ lostTotal' \in 0 .. MaxLost
BY SubmissionAssumption DEF SubmissionTypeOK, Transaction

(* Every step of a submission keeps the types; while hosts are tried there is a
   domain, which is what RouteInv adds. *)
LEMMA SubmissionTypeNext ==
  ASSUME SubmissionTypeOK, RouteInv, [SubmissionNext]_submission
  PROVE  SubmissionTypeOK'
<1> USE SubmissionAssumption DEF progress, wire, client
<1>1. CASE Send
  <2>1. todo' \subseteq Domains
    BY <1>1, DirectDomainsAreDomains DEF Send, DirectDomains
  <2>2. remote' \subseteq Recipients
    BY <1>1 DEF Send, Relayed
  <2>3. sends' \in 0 .. MaxSends
    BY <1>1 DEF Send, SubmissionTypeOK
  <2>4. /\ outcome' = "none" /\ before' = copies /\ lost' = 0 /\ lastErr' = FALSE
        /\ stage' = "domains" /\ UNCHANGED <<mode, dom, host, copies, lostTotal, filed>>
    BY <1>1 DEF Send
  <2> QED
    BY <2>1, <2>2, <2>3, <2>4 DEF SubmissionTypeOK
<1>2. CASE BuildFails
  BY <1>2 DEF BuildFails, SubmissionTypeOK
<1>3. ASSUME NEW d \in Domains, ResolveMX(d) PROVE SubmissionTypeOK'
  BY <1>3 DEF ResolveMX, SubmissionTypeOK
<1>4. ASSUME NEW d \in Domains, MXLookupFails(d) PROVE SubmissionTypeOK'
  BY <1>4 DEF MXLookupFails, SubmissionTypeOK
<1>5. ASSUME NEW took \in BOOLEAN, NEW ok \in BOOLEAN, sendToHost(took, ok)
      PROVE  SubmissionTypeOK'
  <2>1. /\ copies' \in [Recipients -> Nat]
        /\ lost' \in Nat /\ lostTotal' \in 0 .. MaxLost
    BY <1>5, TransactionType DEF sendToHost
  <2>2. dom # NoDomain
    BY <1>5 DEF sendToHost, RouteInv
  <2>3. IF dom' = NoDomain THEN host' = 0 ELSE host' \in 1 .. MXHosts[dom']
    BY <1>5, <2>2 DEF sendToHost, SubmissionTypeOK
  <2> QED
    BY <1>5, <2>1, <2>3 DEF sendToHost, SubmissionTypeOK
<1>6. ASSUME NEW took \in BOOLEAN, NEW ok \in BOOLEAN, sendViaSMTP(took, ok)
      PROVE  SubmissionTypeOK'
  <2>1. /\ copies' \in [Recipients -> Nat]
        /\ lost' \in Nat /\ lostTotal' \in 0 .. MaxLost
    BY <1>6, TransactionType DEF sendViaSMTP
  <2> QED
    BY <1>6, <2>1 DEF sendViaSMTP, SubmissionTypeOK
<1>7. CASE ReportError
  BY <1>7 DEF ReportError, SubmissionTypeOK
<1>8. ASSUME NEW stored \in BOOLEAN, CreateEmail(stored) PROVE SubmissionTypeOK'
  BY <1>8 DEF CreateEmail, SubmissionTypeOK
<1>9. CASE Respond
  BY <1>9 DEF Respond, SubmissionTypeOK
<1>10. CASE ProcessDies
  BY <1>10 DEF ProcessDies, SubmissionTypeOK
<1>11. CASE UNCHANGED submission
  BY <1>11 DEF submission, SubmissionTypeOK
<1> QED
  BY <1>1, <1>2, <1>3, <1>4, <1>5, <1>6, <1>7, <1>8, <1>9, <1>10, <1>11 DEF SubmissionNext

(* Where the call stands, after every step. *)
LEMMA RouteNext ==
  ASSUME SubmissionTypeOK, RouteInv, [SubmissionNext]_submission
  PROVE  RouteInv'
<1> USE DEF progress, wire, client
<1>0. mode' = mode => DirectDomains' = DirectDomains /\ Relayed' = Relayed
  BY RoutesStay
<1>1. CASE Send
  BY <1>0, <1>1 DEF Send, SubmissionTypeOK, RouteInv, DirectDomains
<1>2. CASE BuildFails
  BY <1>0, <1>2 DEF BuildFails, RouteInv
<1>3. ASSUME NEW d \in Domains, ResolveMX(d) PROVE RouteInv'
  BY <1>0, <1>3, SubmissionAssumption DEF ResolveMX, RouteInv
<1>4. ASSUME NEW d \in Domains, MXLookupFails(d) PROVE RouteInv'
  BY <1>0, <1>4 DEF MXLookupFails, RouteInv
<1>5. ASSUME NEW took \in BOOLEAN, NEW ok \in BOOLEAN, sendToHost(took, ok)
      PROVE  RouteInv'
  BY <1>0, <1>5 DEF sendToHost, RouteInv
<1>6. ASSUME NEW took \in BOOLEAN, NEW ok \in BOOLEAN, sendViaSMTP(took, ok)
      PROVE  RouteInv'
  BY <1>0, <1>6 DEF sendViaSMTP, RouteInv
<1>7. CASE ReportError
  BY <1>0, <1>7 DEF ReportError, RouteInv
<1>8. ASSUME NEW stored \in BOOLEAN, CreateEmail(stored) PROVE RouteInv'
  BY <1>0, <1>8 DEF CreateEmail, RouteInv
<1>9. CASE Respond
  BY <1>0, <1>9 DEF Respond, RouteInv
<1>10. CASE ProcessDies
  BY <1>0, <1>10 DEF ProcessDies, RouteInv
<1>11. CASE UNCHANGED submission
  BY <1>0, <1>11 DEF submission, RouteInv
<1> QED
  BY <1>1, <1>2, <1>3, <1>4, <1>5, <1>6, <1>7, <1>8, <1>9, <1>10, <1>11 DEF SubmissionNext

(* A recipient of a transaction gets a copy if the host takes the message, and
   nobody else does. *)
LEMMA TransactionEffect ==
  ASSUME SubmissionTypeOK, NEW S, NEW took \in BOOLEAN, NEW ok \in BOOLEAN,
         Transaction(S, took, ok), NEW r \in Recipients
  PROVE  /\ copies[r] \in Nat /\ before[r] \in Nat /\ lost \in Nat
         /\ r \in S /\ took => copies'[r] = copies[r] + 1
         /\ r \notin S \/ ~took => copies'[r] = copies[r]
         /\ took /\ ~ok => lost' = lost + 1
         /\ ~took \/ ok => lost' = lost
         /\ ok => took
BY DEF SubmissionTypeOK, Transaction

(* What a step makes of one recipient. *)
LEMMA RecipientNext ==
  ASSUME SubmissionTypeOK, RouteInv, RecipientInv, RouteInv', [SubmissionNext]_submission,
         NEW r \in Recipients
  PROVE  CopiesOf(r)' /\ FiledFor(r)'
<1> USE DEF progress, wire, client
<1>a. copies[r] \in Nat /\ before[r] \in Nat /\ lost \in Nat /\ filed \in Nat
  BY DEF SubmissionTypeOK
<1>b. CopiesOf(r) /\ FiledFor(r)
  BY DEF RecipientInv
<1>0. mode' = mode => (PassedOver(r)' <=> PassedOver(r))
  BY RoutesStay
<1> USE DEF CopiesOf, FiledFor, New, Trying, Pending
<1>1. CASE Send
  <2>1. DomainOf[r] \in todo' \/ r \in remote' \/ PassedOver(r)
    BY <1>1, EveryoneIsRouted DEF Send, DirectDomains
  <2>2. before'[r] = copies'[r] /\ copies'[r] = copies[r] /\ lost' = 0 /\ stage' = "domains"
        /\ filed' = filed
    BY <1>1 DEF Send
  <2>3. PassedOver(r)' <=> PassedOver(r)
    BY <1>0, <1>1 DEF Send
  <2> QED
    BY <1>a, <1>b, <2>1, <2>2, <2>3
<1>2. CASE BuildFails
  <2>1. stage = "idle" /\ todo = {} /\ remote = {}
    BY <1>2 DEF BuildFails, RouteInv
  <2> QED
    BY <1>a, <1>b, <1>0, <1>2, <2>1 DEF BuildFails
<1>3. ASSUME NEW d \in Domains, ResolveMX(d) PROVE CopiesOf(r)' /\ FiledFor(r)'
  <2>1. CASE DomainOf[r] = d
    BY <1>a, <1>b, <1>0, <1>3, <2>1 DEF ResolveMX
  <2>2. CASE DomainOf[r] # d
    BY <1>a, <1>b, <1>0, <1>3, <2>2 DEF ResolveMX
  <2> QED
    BY <2>1, <2>2
<1>4. ASSUME NEW d \in Domains, MXLookupFails(d) PROVE CopiesOf(r)' /\ FiledFor(r)'
  BY <1>a, <1>b, <1>0, <1>4 DEF MXLookupFails
<1>5. ASSUME NEW took \in BOOLEAN, NEW ok \in BOOLEAN, sendToHost(took, ok)
      PROVE  CopiesOf(r)' /\ FiledFor(r)'
  <2> DEFINE S == AddressedTo(dom)
  <2>1. Transaction(S, took, ok)
    BY <1>5 DEF sendToHost
  <2>2. /\ r \in S /\ took => copies'[r] = copies[r] + 1
        /\ r \notin S \/ ~took => copies'[r] = copies[r]
        /\ took /\ ~ok => lost' = lost + 1
        /\ ~took \/ ok => lost' = lost
        /\ ok => took
    <3> HIDE DEF S
    <3> QED
      BY <2>1, TransactionEffect
  <2>3. r \in S <=> Trying(r)
    BY <1>5 DEF sendToHost, AddressedTo
  <2>4. Trying(r) => ~Pending(r)
    BY <1>5, DirectByDomain DEF sendToHost, RouteInv
  <2>5. /\ stage' = "domains" \/ (stage' = "hosts" /\ dom' = dom /\ ~ok)
        /\ (lastErr \/ ~ok) => lastErr'
        /\ before' = before /\ filed' = filed /\ todo' = todo /\ remote' = remote /\ mode' = mode
    BY <1>5 DEF sendToHost
  <2> HIDE DEF S
  <2>6. CASE Trying(r)
    BY <1>a, <1>b, <1>0, <2>2, <2>3, <2>4, <2>5, <2>6
  <2>7. CASE ~Trying(r)
    <3>1. copies'[r] = copies[r] /\ lost' >= lost /\ lost' \in Nat
      BY <1>a, <2>2, <2>3, <2>7
    <3>2. stage = "hosts" /\ ~Trying(r)'
      BY <1>5, <2>5, <2>7 DEF sendToHost
    <3> QED
      BY <1>a, <1>b, <1>0, <2>5, <3>1, <3>2, <2>7
  <2> QED
    BY <2>6, <2>7
<1>6. ASSUME NEW took \in BOOLEAN, NEW ok \in BOOLEAN, sendViaSMTP(took, ok)
      PROVE  CopiesOf(r)' /\ FiledFor(r)'
  <2> DEFINE S == remote
  <2>1. Transaction(S, took, ok)
    BY <1>6 DEF sendViaSMTP
  <2>2. /\ r \in S /\ took => copies'[r] = copies[r] + 1
        /\ r \notin S \/ ~took => copies'[r] = copies[r]
        /\ took /\ ~ok => lost' = lost + 1
        /\ ~took \/ ok => lost' = lost
        /\ ok => took
    <3> HIDE DEF S
    <3> QED
      BY <2>1, TransactionEffect
  <2>5. /\ stage = "domains" /\ stage' = "domains" /\ todo = {} /\ todo' = {} /\ remote' = {}
        /\ (lastErr \/ ~ok) => lastErr'
        /\ before' = before /\ filed' = filed /\ mode' = mode
    BY <1>6 DEF sendViaSMTP
  <2>6. CASE r \in remote
    BY <1>a, <1>b, <1>0, <2>2, <2>5, <2>6
  <2>7. CASE r \notin remote
    <3>1. copies'[r] = copies[r] /\ lost' >= lost /\ lost' \in Nat
      BY <1>a, <2>2, <2>7
    <3> QED
      BY <1>a, <1>b, <1>0, <2>5, <3>1, <2>7
  <2> QED
    BY <2>6, <2>7
<1>7. CASE ReportError
  BY <1>a, <1>b, <1>0, <1>7 DEF ReportError
<1>8. ASSUME NEW stored \in BOOLEAN, CreateEmail(stored) PROVE CopiesOf(r)' /\ FiledFor(r)'
  <2>1. filed' = filed \/ filed' = filed + 1
    BY <1>8 DEF CreateEmail
  <2>2. PassedOver(r) \/ New(r) >= 1
    BY <1>b, <1>8 DEF CreateEmail
  <2> QED
    BY <1>a, <1>b, <1>0, <1>8, <2>1, <2>2 DEF CreateEmail
<1>9. CASE Respond
  BY <1>a, <1>b, <1>0, <1>9 DEF Respond
<1>10. CASE ProcessDies
  BY <1>a, <1>b, <1>0, <1>10 DEF ProcessDies
<1>11. CASE UNCHANGED submission
  BY <1>a, <1>b, <1>0, <1>11 DEF submission
<1> QED
  BY <1>1, <1>2, <1>3, <1>4, <1>5, <1>6, <1>7, <1>8, <1>9, <1>10, <1>11 DEF SubmissionNext

(* Success stays told: a call that begins takes it back first, and nothing is
   taken from a recipient. *)
LEMMA SuccessNext ==
  ASSUME SubmissionInv, RouteInv', [SubmissionNext]_submission
  PROVE  SuccessIsForAll'
<1> USE DEF progress, wire, client
<1> SUFFICES ASSUME outcome' = "ok", NEW r \in Recipients
             PROVE  PassedOver(r)' \/ New(r)' >= 1
  BY DEF SuccessIsForAll
<1>0. mode' = mode => (PassedOver(r)' <=> PassedOver(r))
  BY RoutesStay
<1>1. outcome = "ok" => PassedOver(r) \/ New(r) >= 1
  BY DEF SubmissionInv, SuccessIsForAll
<1>2. stage # "idle" => outcome = "none"
  BY DEF SubmissionInv, RouteInv
<1>3. CASE Respond
  <2>1. PassedOver(r) \/ New(r) >= 1
    BY <1>3 DEF Respond, SubmissionInv, RecipientInv, CopiesOf, RouteInv, Pending, Trying
  <2> QED
    BY <1>0, <1>3, <2>1 DEF Respond, New
<1>4. CASE UNCHANGED submission
  BY <1>0, <1>1, <1>4 DEF submission, New
<1>5. ~Respond => UNCHANGED submission
  BY <1>2 DEF SubmissionNext, Send, BuildFails, ResolveMX, MXLookupFails, sendToHost,
              sendViaSMTP, ReportError, CreateEmail, ProcessDies
<1> QED
  BY <1>3, <1>4, <1>5

(* Before the first call nothing was sent and nothing filed. *)
LEMMA SubmissionInvInit == SubmissionInit => SubmissionInv
<1> SUFFICES ASSUME SubmissionInit PROVE SubmissionInv
  OBVIOUS
<1>1. RouteInv
  BY DEF SubmissionInit, RouteInv
<1>2. ASSUME NEW r \in Recipients PROVE CopiesOf(r) /\ FiledFor(r)
  BY <1>2 DEF SubmissionInit, CopiesOf, FiledFor, New, Pending, Trying
<1> QED
  BY <1>1, <1>2, SubmissionTypeInit DEF SubmissionInv, RecipientInv, SuccessIsForAll, SubmissionInit

(* Every step keeps the inductive invariant. *)
LEMMA SubmissionInvNext == SubmissionInv /\ [SubmissionNext]_submission => SubmissionInv'
<1> SUFFICES ASSUME SubmissionInv, [SubmissionNext]_submission PROVE SubmissionInv'
  OBVIOUS
<1>1. SubmissionTypeOK /\ RouteInv /\ RecipientInv
  BY DEF SubmissionInv
<1>2. SubmissionTypeOK' /\ RouteInv'
  BY <1>1, SubmissionTypeNext, RouteNext
<1>3. RecipientInv'
  BY <1>1, <1>2, RecipientNext DEF RecipientInv
<1>4. SuccessIsForAll'
  BY <1>2, SuccessNext
<1> QED
  BY <1>2, <1>3, <1>4 DEF SubmissionInv

(* Where a call of Send stands, what each recipient has by then, and what the
   sent folder says, through errors, lost replies and crashes (Send, sendDirect,
   sendToHost, sendViaSMTP). *)
THEOREM SubmissionInvariant == SubmissionSpec => []SubmissionInv
BY SubmissionInvInit, SubmissionInvNext, PTL DEF SubmissionSpec

(* The call in progress, the copies made and the sent folder keep their types,
   for any recipients, domains and mail hosts. *)
THEOREM SubmissionTypeCorrect == SubmissionSpec => []SubmissionTypeOK
<1>1. SubmissionInv => SubmissionTypeOK
  BY DEF SubmissionInv
<1> QED
  BY <1>1, SubmissionInvariant, PTL

(* Send answers with success only if every recipient was accepted by some host in
   that call, in every transport mode, but for addresses direct mode cannot
   split (Send, sendDirect, sendHybrid). *)
THEOREM SuccessAlwaysForAll == SubmissionSpec => []SuccessIsForAll
<1>1. SubmissionInv => SuccessIsForAll
  BY DEF SubmissionInv
<1> QED
  BY <1>1, SubmissionInvariant, PTL

(* One call makes at most one copy per recipient, and one for every acceptance
   whose reply was lost, over any list of hosts (sendToHost after ResolveMX). *)
THEOREM OneCopyPerCallAlways == SubmissionSpec => []OneCopyPerCall
<1>1. SubmissionInv => OneCopyPerCall
  BY DEF SubmissionInv, RecipientInv, CopiesOf, OneCopyPerCall
<1> QED
  BY <1>1, SubmissionInvariant, PTL

(* Every row of the sent folder stands for a copy each recipient was sent,
   however often a client sends again (Service.Send, CreateEmail). *)
THEOREM SentFolderAlwaysTrue == SubmissionSpec => []SentFolderIsTrue
<1>1. SubmissionInv => SentFolderIsTrue
  BY DEF SubmissionInv, RecipientInv, FiledFor, SentFolderIsTrue
<1> QED
  BY <1>1, SubmissionInvariant, PTL

-----------------------------------------------------------------------------
(* OutboundQueue                                                           *)

(* The backoff is a number of ticks for every attempt count, the clamp of
   getRetryDelay included. *)
LEMMA RetryDelayIsNat == \A n \in Nat : getRetryDelay(n) \in Nat
BY ConstantsAssumption DEF getRetryDelay

USE DEF Waiting, Unsettled, Terminal, Statuses, WorkerPC

(* A worker that delivers or marks a message has it in its batch, and the row is
   still processing, or failed when the callback runs. *)
LEMMA CurIsMine ==
  ASSUME QueueInv, NEW w \in Workers, pc[w] \notin {"poll", "deliver"}
  PROVE  /\ cur[w] \in batch[w]
         /\ cur[w] \in Messages
         /\ \A v \in Workers \ {w} : cur[w] \notin batch[v]
         /\ pc[w] # "callback" => status[cur[w]] = "processing"
         /\ pc[w] = "callback" => status[cur[w]] \in {"failed", "purged"}
BY DEF QueueInv, TypeOK, HandInv, Hand, SoleOwner

(* Going on to the next message takes the current one out of this worker's
   batch and leaves the other workers alone. *)
LEMMA FinishEffect ==
  ASSUME TypeOK, NEW w \in Workers, Finish(w)
  PROVE  /\ batch'[w] = batch[w] \ {cur[w]}
         /\ cur'[w] = NoMessage
         /\ pc'[w] \in {"poll", "deliver"}
         /\ pc'[w] = "poll" => batch'[w] = {}
         /\ \A v \in Workers \ {w} :
              batch'[v] = batch[v] /\ cur'[v] = cur[v] /\ pc'[v] = pc[v]
BY DEF TypeOK, Finish

(* A worker that is done with its current message disturbs nothing that the
   invariant says of the others and of the rest of its batch, as long as it
   has touched no row but that message's. *)
LEMMA SettleStep ==
  ASSUME QueueInv, TypeOK', NEW w \in Workers, pc[w] \notin {"poll", "deliver"},
         NEW c \in Messages, c = cur[w], Finish(w),
         UNCHANGED <<seen, tries, accepted, unsure>>,
         \A m \in Messages \ {c} :
           status'[m] = status[m] /\ attempts'[m] = attempts[m] /\ bounces'[m] = bounces[m]
  PROVE  /\ SoleOwner'
         /\ NoLostAttempt'
         /\ HandInv'
         /\ Ledger(c)' => LedgerInv'
<1>1. /\ c \in batch[w]
      /\ \A v \in Workers \ {w} : c \notin batch[v]
  BY CurIsMine
<1>2. /\ batch'[w] = batch[w] \ {c}
      /\ cur'[w] = NoMessage
      /\ pc'[w] \in {"poll", "deliver"}
      /\ pc'[w] = "poll" => batch'[w] = {}
      /\ \A v \in Workers \ {w} :
           batch'[v] = batch[v] /\ cur'[v] = cur[v] /\ pc'[v] = pc[v]
  BY FinishEffect DEF QueueInv
<1>3. \A m \in Messages \ {c} :
        /\ status'[m] = status[m] /\ attempts'[m] = attempts[m] /\ bounces'[m] = bounces[m]
        /\ tries'[m] = tries[m] /\ accepted'[m] = accepted[m] /\ unsure'[m] = unsure[m]
  OBVIOUS
<1>4. \A v \in Workers : batch[v] \subseteq Messages /\ batch'[v] \subseteq batch[v] \ {c}
  BY <1>1, <1>2 DEF QueueInv, TypeOK
<1>5. \A v \in Workers \ {w} : pc[v] \notin {"poll", "deliver"} => cur[v] \in Messages \ {c}
  BY <1>1, <1>4 DEF QueueInv, HandInv, Hand
<1>6. SoleOwner'
  <2> SUFFICES ASSUME NEW v \in Workers, NEW m \in batch'[v]
               PROVE  /\ \A u \in Workers \ {v} : m \notin batch'[u]
                      /\ IF pc'[v] = "callback" /\ cur'[v] = m
                         THEN status'[m] \in {"failed", "purged"}
                         ELSE status'[m] = "processing"
    BY DEF SoleOwner
  <2>1. m \in batch[v] /\ m \in Messages \ {c}
    BY <1>4
  <2>2. \A u \in Workers \ {v} : m \notin batch'[u]
    BY <1>4, <2>1 DEF QueueInv, SoleOwner
  <2>3. CASE v = w
    BY <1>2, <1>3, <2>1, <2>2, <2>3 DEF QueueInv, SoleOwner
  <2>4. CASE v # w
    BY <1>2, <1>3, <2>1, <2>2, <2>4 DEF QueueInv, SoleOwner
  <2> QED
    BY <2>3, <2>4
<1>7. NoLostAttempt'
  <2> SUFFICES ASSUME NEW v \in Workers, pc'[v] = "update" PROVE seen'[v] = attempts'[cur'[v]]
    BY DEF NoLostAttempt
  <2>1. v # w /\ pc[v] = "update" /\ cur'[v] = cur[v]
    BY <1>2
  <2> QED
    BY <2>1, <1>3, <1>5 DEF QueueInv, NoLostAttempt
<1>8. HandInv'
  <2> SUFFICES ASSUME NEW v \in Workers PROVE Hand(v)'
    BY DEF HandInv
  <2>0. Hand(v)
    BY DEF QueueInv, HandInv
  <2>1. CASE v = w
    <3>1. \A m \in batch'[w] : m \in Messages \ {c} /\ m \in batch[w] \ {cur[w]}
      BY <1>2, <1>4
    <3> QED
      BY <1>2, <1>3, <2>0, <2>1, <3>1 DEF Hand
  <2>2. CASE v # w
    <3>1. \A m \in batch[v] : m \in Messages \ {c}
      BY <1>1, <1>4, <2>2
    <3> QED
      BY <1>2, <1>3, <1>5, <2>0, <2>2, <3>1 DEF Hand
  <2> QED
    BY <2>1, <2>2
<1>9. ASSUME Ledger(c)' PROVE LedgerInv'
  <2> SUFFICES ASSUME NEW m \in Messages PROVE Ledger(m)'
    BY DEF LedgerInv
  <2>1. CASE m = c
    BY <2>1, <1>9
  <2>2. CASE m # c
    BY <2>2, <1>3 DEF QueueInv, LedgerInv, Ledger
  <2> QED
    BY <2>1, <2>2
<1> QED
  BY <1>6, <1>7, <1>8, <1>9

(* The empty queue satisfies the invariant. *)
LEMMA InitInv == Init => QueueInv
BY ConstantsAssumption
   DEF Init, QueueInv, TypeOK, SoleOwner, NoLostAttempt, HandInv, Hand, LedgerInv, Ledger

(* Every statement, callback and fault keeps the types. *)
LEMMA NextTypeOK == QueueInv /\ [Next]_vars => TypeOK'
<1> SUFFICES ASSUME QueueInv, [Next]_vars PROVE TypeOK'
  OBVIOUS
<1> USE DEF QueueInv, TypeOK, rows, procs, relay
<1>a. ASSUME NEW w \in Workers, pc[w] \notin {"poll", "deliver"} PROVE cur[w] \in Messages
  BY <1>a, CurIsMine
<1>b. ASSUME NEW w \in Workers, Finish(w)
      PROVE /\ pc' \in [Workers -> WorkerPC]
            /\ batch' \in [Workers -> SUBSET Messages]
            /\ cur' \in [Workers -> Messages \cup {NoMessage}]
  BY <1>b DEF Finish
<1>1. ASSUME NEW m \in Messages, Enqueue(m) PROVE TypeOK'
  BY <1>1 DEF Enqueue
<1>2. ASSUME NEW s \in Senders, HoldForSender(s) PROVE TypeOK'
  BY <1>2 DEF HoldForSender, Holdable
<1>3. ASSUME NEW s \in Senders, ReleaseForSender(s) PROVE TypeOK'
  BY <1>3 DEF ReleaseForSender
<1>4. ASSUME NEW S \in SUBSET Messages, PurgeOld(S) PROVE TypeOK'
  BY <1>4 DEF PurgeOld
<1>5. CASE Tick
  BY <1>5 DEF Tick
<1>6. ASSUME NEW w \in Workers, NEW S \in SUBSET Messages, Dequeue(w, S) PROVE TypeOK'
  BY <1>6 DEF Dequeue, Claim
<1>7. ASSUME NEW w \in Workers, NEW m \in Messages, NEW took \in BOOLEAN, NEW ok \in BOOLEAN,
             Deliver(w, m, took, ok)
      PROVE TypeOK'
  BY <1>7 DEF Deliver
<1>8. ASSUME NEW w \in Workers, MarkSent(w) PROVE TypeOK'
  BY <1>8, <1>a, <1>b DEF MarkSent
<1>9. ASSUME NEW w \in Workers, MarkFailedSelect(w) PROVE TypeOK'
  BY <1>9, <1>a DEF MarkFailedSelect
<1>10. ASSUME NEW w \in Workers, WriteFailure(w) 
       PROVE /\ status' \in [Messages -> Statuses]
             /\ attempts' \in [Messages -> Nat]
             /\ wait' \in [Messages -> Nat]
             /\ UNCHANGED <<seen, tries, accepted, unsure, bounces>>
  <2> DEFINE n == seen[w] + 1
  <2>1. n \in Nat
    OBVIOUS
  <2>2. getRetryDelay(n) \in Nat
    BY <2>1, RetryDelayIsNat
  <2> HIDE DEF n
  <2>3. wait' = [wait EXCEPT ![cur[w]] = IF IsPermanent(n) THEN 0 ELSE getRetryDelay(n)]
    BY <1>10 DEF WriteFailure, n
  <2>4. wait' \in [Messages -> Nat]
    BY <2>2, <2>3
  <2> QED
    BY <1>10, <2>1, <2>4 DEF WriteFailure, n
<1>11. ASSUME NEW w \in Workers, MarkFailedUpdate(w) PROVE TypeOK'
  BY <1>10, <1>11, <1>b DEF MarkFailedUpdate
<1>12. ASSUME NEW w \in Workers, Callback(w) PROVE TypeOK'
  BY <1>12, <1>a, <1>b DEF Callback
<1>13. ASSUME NEW w \in Workers, NEW S \in SUBSET Messages, DequeueLost(w, S) PROVE TypeOK'
  BY <1>13 DEF DequeueLost, Claim
<1>14. ASSUME NEW w \in Workers, MarkError(w) PROVE TypeOK'
  BY <1>14, <1>b DEF MarkError
<1>15. ASSUME NEW w \in Workers, MarkFailedUpdateLost(w) PROVE TypeOK'
  BY <1>10, <1>15, <1>b DEF MarkFailedUpdateLost
<1>16. ASSUME NEW w \in Workers, Crash(w) PROVE TypeOK'
  BY <1>16 DEF Crash
<1>17. CASE UNCHANGED vars
  BY <1>17 DEF vars
<1> QED
  BY <1>1, <1>2, <1>3, <1>4, <1>5, <1>6, <1>7, <1>8, <1>9, <1>11, <1>12, <1>13, <1>14,
     <1>15, <1>16, <1>17 DEF Next, Work, Fault

(* Every statement, callback and fault keeps the inductive invariant. *)
LEMMA NextInv == QueueInv /\ [Next]_vars => QueueInv'
<1> SUFFICES ASSUME QueueInv, [Next]_vars PROVE QueueInv'
  OBVIOUS
<1>t. TypeOK /\ TypeOK'
  BY NextTypeOK DEF QueueInv
<1>1. ASSUME NEW m \in Messages, Enqueue(m) PROVE QueueInv'
  <2> USE <1>1 DEF QueueInv, TypeOK, rows, procs, relay, Enqueue
  <2>1. SoleOwner'
    BY DEF SoleOwner, Hand, HandInv
  <2>2. NoLostAttempt'
    BY DEF NoLostAttempt, SoleOwner, HandInv, Hand
  <2>3. HandInv'
    BY DEF HandInv, Hand, SoleOwner
  <2>4. LedgerInv'
    BY ConstantsAssumption DEF LedgerInv, Ledger
  <2> HIDE DEF TypeOK
  <2> QED
    BY <1>t, <2>1, <2>2, <2>3, <2>4
<1>2. ASSUME NEW s \in Senders, HoldForSender(s) PROVE QueueInv'
  <2> USE <1>2 DEF QueueInv, TypeOK, rows, procs, relay, HoldForSender, Holdable
  <2>1. SoleOwner'
    BY DEF SoleOwner, Hand, HandInv
  <2>2. NoLostAttempt'
    BY DEF NoLostAttempt, SoleOwner, HandInv, Hand
  <2>3. HandInv'
    BY DEF HandInv, Hand, SoleOwner
  <2>4. LedgerInv'
    BY ConstantsAssumption DEF LedgerInv, Ledger
  <2> HIDE DEF TypeOK
  <2> QED
    BY <1>t, <2>1, <2>2, <2>3, <2>4
<1>3. ASSUME NEW s \in Senders, ReleaseForSender(s) PROVE QueueInv'
  <2> USE <1>3 DEF QueueInv, TypeOK, rows, procs, relay, ReleaseForSender
  <2>1. SoleOwner'
    BY DEF SoleOwner, Hand, HandInv
  <2>2. NoLostAttempt'
    BY DEF NoLostAttempt, SoleOwner, HandInv, Hand
  <2>3. HandInv'
    BY DEF HandInv, Hand, SoleOwner
  <2>4. LedgerInv'
    BY ConstantsAssumption DEF LedgerInv, Ledger
  <2> HIDE DEF TypeOK
  <2> QED
    BY <1>t, <2>1, <2>2, <2>3, <2>4
<1>4. ASSUME NEW S \in SUBSET Messages, PurgeOld(S) PROVE QueueInv'
  <2> USE <1>4 DEF QueueInv, TypeOK, rows, procs, relay, PurgeOld
  <2>1. SoleOwner'
    BY DEF SoleOwner, Hand, HandInv
  <2>2. NoLostAttempt'
    BY DEF NoLostAttempt, SoleOwner, HandInv, Hand
  <2>3. HandInv'
    BY DEF HandInv, Hand, SoleOwner
  <2>4. LedgerInv'
    BY ConstantsAssumption DEF LedgerInv, Ledger
  <2> HIDE DEF TypeOK
  <2> QED
    BY <1>t, <2>1, <2>2, <2>3, <2>4
<1>5. ASSUME Tick PROVE QueueInv'
  <2> USE <1>5 DEF QueueInv, TypeOK, rows, procs, relay, Tick
  <2>1. SoleOwner'
    BY DEF SoleOwner, Hand, HandInv
  <2>2. NoLostAttempt'
    BY DEF NoLostAttempt, SoleOwner, HandInv, Hand
  <2>3. HandInv'
    BY DEF HandInv, Hand, SoleOwner
  <2>4. LedgerInv'
    BY ConstantsAssumption DEF LedgerInv, Ledger
  <2> HIDE DEF TypeOK
  <2> QED
    BY <1>t, <2>1, <2>2, <2>3, <2>4
<1>6. ASSUME NEW w \in Workers, NEW S \in SUBSET Messages, Dequeue(w, S) PROVE QueueInv'
  <2> USE <1>6 DEF QueueInv, TypeOK, rows, procs, relay, Dequeue, Claim, Due
  <2>1. SoleOwner'
    BY DEF SoleOwner, Hand, HandInv
  <2>2. NoLostAttempt'
    BY DEF NoLostAttempt, SoleOwner, HandInv, Hand
  <2>3. HandInv'
    <3>1. \A m \in S : tries[m] = attempts[m] /\ accepted[m] = unsure[m]
      BY DEF LedgerInv, Ledger
    <3>2. Hand(w)'
      BY <3>1 DEF HandInv, Hand
    <3>3. \A v \in Workers \ {w} : Hand(v)'
      BY DEF HandInv, Hand
    <3> QED
      BY <3>2, <3>3 DEF HandInv
  <2>4. LedgerInv'
    BY ConstantsAssumption DEF LedgerInv, Ledger
  <2> HIDE DEF TypeOK
  <2> QED
    BY <1>t, <2>1, <2>2, <2>3, <2>4
<1>7. ASSUME NEW w \in Workers, NEW m \in Messages, NEW took \in BOOLEAN, NEW ok \in BOOLEAN,
             Deliver(w, m, took, ok)
      PROVE QueueInv'
  <2>1. /\ m \in batch[w] /\ cur[w] = NoMessage /\ pc[w] = "deliver" /\ status[m] = "processing"
        /\ tries[m] = attempts[m] /\ accepted[m] = unsure[m]
        /\ \A v \in Workers \ {w} : m \notin batch[v]
    BY <1>7, ConstantsAssumption DEF QueueInv, SoleOwner, HandInv, Hand, Deliver
  <2>2. /\ UNCHANGED <<status, attempts, batch, seen, bounces>>
        /\ cur' = [cur EXCEPT ![w] = m]
        /\ pc' = [pc EXCEPT ![w] = IF ok THEN "markSent" ELSE "markFailed"]
        /\ tries'[m] = attempts[m] + 1
        /\ ok => accepted'[m] = unsure'[m] + 1
        /\ ~ok => accepted'[m] = unsure'[m]
        /\ \A k \in Messages \ {m} :
             tries'[k] = tries[k] /\ accepted'[k] = accepted[k] /\ unsure'[k] = unsure[k]
    BY <1>7, <1>t, <2>1 DEF TypeOK, Deliver, rows
  <2>3. SoleOwner'
    BY <1>t, <2>1, <2>2 DEF QueueInv, TypeOK, SoleOwner
  <2>4. NoLostAttempt'
    BY <1>t, <2>1, <2>2 DEF QueueInv, TypeOK, NoLostAttempt
  <2>5. Hand(w)'
    <3>1. /\ pc'[w] = IF ok THEN "markSent" ELSE "markFailed"
          /\ cur'[w] = m
          /\ batch'[w] = batch[w]
          /\ batch[w] \subseteq Messages
      BY <1>t, <2>2 DEF TypeOK
    <3>2. \A k \in batch[w] \ {m} : tries'[k] = attempts'[k] /\ accepted'[k] = unsure'[k]
      BY <2>1, <2>2, <3>1, ConstantsAssumption DEF QueueInv, HandInv, Hand
    <3> QED
      BY <2>1, <2>2, <3>1, <3>2 DEF Hand
  <2>6. ASSUME NEW v \in Workers \ {w} PROVE Hand(v)'
    <3>1. Hand(v) /\ pc'[v] = pc[v] /\ cur'[v] = cur[v] /\ batch'[v] = batch[v]
      BY <1>t, <2>2 DEF QueueInv, TypeOK, HandInv
    <3>2. batch[v] \subseteq Messages \ {m}
      BY <1>t, <2>1 DEF TypeOK
    <3> QED
      BY <2>2, <3>1, <3>2 DEF Hand
  <2>7. ASSUME NEW k \in Messages PROVE Ledger(k)'
    <3>1. Ledger(k)
      BY DEF QueueInv, LedgerInv
    <3>2. CASE k = m
      BY <1>t, <2>1, <2>2, <3>1, <3>2 DEF TypeOK, Ledger
    <3>3. CASE k # m
      BY <2>2, <3>1, <3>3 DEF Ledger
    <3> QED
      BY <3>2, <3>3
  <2>8. HandInv' /\ LedgerInv'
    BY <2>5, <2>6, <2>7 DEF HandInv, LedgerInv
  <2> QED
    BY <1>t, <2>3, <2>4, <2>8 DEF QueueInv
<1>9. ASSUME NEW w \in Workers, MarkFailedSelect(w) PROVE QueueInv'
  <2> USE <1>9 DEF QueueInv, TypeOK, rows, procs, relay, MarkFailedSelect
  <2>1. SoleOwner'
    BY DEF SoleOwner, Hand, HandInv
  <2>2. NoLostAttempt'
    BY DEF NoLostAttempt, SoleOwner, HandInv, Hand
  <2>3. HandInv'
    BY DEF HandInv, Hand, SoleOwner
  <2>4. LedgerInv'
    BY ConstantsAssumption DEF LedgerInv, Ledger
  <2> HIDE DEF TypeOK
  <2> QED
    BY <1>t, <2>1, <2>2, <2>3, <2>4
<1>13. ASSUME NEW w \in Workers, NEW S \in SUBSET Messages, DequeueLost(w, S) PROVE QueueInv'
  <2> USE <1>13 DEF QueueInv, TypeOK, rows, procs, relay, DequeueLost, Claim, Due
  <2>1. SoleOwner'
    BY DEF SoleOwner, Hand, HandInv
  <2>2. NoLostAttempt'
    BY DEF NoLostAttempt, SoleOwner, HandInv, Hand
  <2>3. HandInv'
    BY DEF HandInv, Hand, SoleOwner
  <2>4. LedgerInv'
    BY ConstantsAssumption DEF LedgerInv, Ledger
  <2> HIDE DEF TypeOK
  <2> QED
    BY <1>t, <2>1, <2>2, <2>3, <2>4
<1>16. ASSUME NEW w \in Workers, Crash(w) PROVE QueueInv'
  <2> USE <1>16 DEF QueueInv, TypeOK, rows, procs, relay, Crash
  <2>1. SoleOwner'
    BY DEF SoleOwner, Hand, HandInv
  <2>2. NoLostAttempt'
    BY DEF NoLostAttempt, SoleOwner, HandInv, Hand
  <2>3. HandInv'
    BY DEF HandInv, Hand, SoleOwner
  <2>4. LedgerInv'
    BY ConstantsAssumption DEF LedgerInv, Ledger
  <2> HIDE DEF TypeOK
  <2> QED
    BY <1>t, <2>1, <2>2, <2>3, <2>4
<1>17. ASSUME UNCHANGED vars PROVE QueueInv'
  <2> USE <1>17 DEF QueueInv, TypeOK, rows, procs, relay, vars
  <2>1. SoleOwner'
    BY DEF SoleOwner, Hand, HandInv
  <2>2. NoLostAttempt'
    BY DEF NoLostAttempt, SoleOwner, HandInv, Hand
  <2>3. HandInv'
    BY DEF HandInv, Hand, SoleOwner
  <2>4. LedgerInv'
    BY ConstantsAssumption DEF LedgerInv, Ledger
  <2> HIDE DEF TypeOK
  <2> QED
    BY <1>t, <2>1, <2>2, <2>3, <2>4
<1>8. ASSUME NEW w \in Workers, MarkSent(w) PROVE QueueInv'
  <2>1. PICK c \in Messages : c = cur[w]
    BY <1>8, CurIsMine DEF MarkSent
  <2>2. pc[w] \notin {"poll", "deliver"} /\ Hand(w) /\ Ledger(c)
    BY <1>8 DEF QueueInv, HandInv, LedgerInv, MarkSent
  <2>3. pc[w] # "callback" => status[c] = "processing"
    BY <2>1, <2>2, CurIsMine
  <2>4. /\ UNCHANGED <<seen, tries, accepted, unsure>>
        /\ \A m \in Messages \ {c} :
             status'[m] = status[m] /\ attempts'[m] = attempts[m] /\ bounces'[m] = bounces[m]
    BY <1>8, <1>t, <2>1 DEF TypeOK, rows, relay, MarkSent
  <2>5. Finish(w)
    BY <1>8 DEF MarkSent
  <2>6. Ledger(c)'
    BY <1>8, <1>t, <2>1, <2>2, <2>3, ConstantsAssumption
       DEF TypeOK, Hand, Ledger, rows, relay, MarkSent
  <2> QED
    BY <1>t, <2>1, <2>2, <2>4, <2>5, <2>6, SettleStep DEF QueueInv
<1>10. ASSUME NEW w \in Workers, MarkFailedUpdate(w), ~IsPermanent(seen[w] + 1) PROVE QueueInv'
  <2>1. PICK c \in Messages : c = cur[w]
    BY <1>10, CurIsMine DEF MarkFailedUpdate, WriteFailure
  <2>2. pc[w] \notin {"poll", "deliver"} /\ Hand(w) /\ Ledger(c)
    BY <1>10 DEF QueueInv, HandInv, LedgerInv, MarkFailedUpdate, WriteFailure
  <2>3. pc[w] # "callback" => status[c] = "processing"
    BY <2>1, <2>2, CurIsMine
  <2>4. /\ UNCHANGED <<seen, tries, accepted, unsure>>
        /\ \A m \in Messages \ {c} :
             status'[m] = status[m] /\ attempts'[m] = attempts[m] /\ bounces'[m] = bounces[m]
    BY <1>10, <1>t, <2>1 DEF TypeOK, rows, relay, MarkFailedUpdate, WriteFailure
  <2>5. Finish(w)
    BY <1>10 DEF MarkFailedUpdate, WriteFailure
  <2>6. Ledger(c)'
    BY <1>10, <1>t, <2>1, <2>2, <2>3, ConstantsAssumption
       DEF TypeOK, Hand, Ledger, rows, relay, MarkFailedUpdate, WriteFailure, IsPermanent, QueueInv, NoLostAttempt
  <2> QED
    BY <1>t, <2>1, <2>2, <2>4, <2>5, <2>6, SettleStep DEF QueueInv
<1>12. ASSUME NEW w \in Workers, Callback(w) PROVE QueueInv'
  <2>1. PICK c \in Messages : c = cur[w]
    BY <1>12, CurIsMine DEF Callback
  <2>2. pc[w] \notin {"poll", "deliver"} /\ Hand(w) /\ Ledger(c)
    BY <1>12 DEF QueueInv, HandInv, LedgerInv, Callback
  <2>3. status[c] \in {"failed", "purged"}
    BY <1>12, <2>1, <2>2, CurIsMine DEF Callback
  <2>4. /\ UNCHANGED <<seen, tries, accepted, unsure>>
        /\ \A m \in Messages \ {c} :
             status'[m] = status[m] /\ attempts'[m] = attempts[m] /\ bounces'[m] = bounces[m]
    BY <1>12, <1>t, <2>1 DEF TypeOK, rows, relay, Callback
  <2>5. Finish(w)
    BY <1>12 DEF Callback
  <2>6. Ledger(c)'
    BY <1>12, <1>t, <2>1, <2>2, <2>3, ConstantsAssumption
       DEF TypeOK, Hand, Ledger, rows, relay, Callback
  <2> QED
    BY <1>t, <2>1, <2>2, <2>4, <2>5, <2>6, SettleStep DEF QueueInv
<1>14. ASSUME NEW w \in Workers, MarkError(w) PROVE QueueInv'
  <2>1. PICK c \in Messages : c = cur[w]
    BY <1>14, CurIsMine DEF MarkError
  <2>2. pc[w] \notin {"poll", "deliver"} /\ Hand(w) /\ Ledger(c)
    BY <1>14 DEF QueueInv, HandInv, LedgerInv, MarkError
  <2>3. pc[w] # "callback" => status[c] = "processing"
    BY <2>1, <2>2, CurIsMine
  <2>4. /\ UNCHANGED <<seen, tries, accepted, unsure>>
        /\ \A m \in Messages \ {c} :
             status'[m] = status[m] /\ attempts'[m] = attempts[m] /\ bounces'[m] = bounces[m]
    BY <1>14, <1>t, <2>1 DEF TypeOK, rows, relay, MarkError
  <2>5. Finish(w)
    BY <1>14 DEF MarkError
  <2>6. Ledger(c)'
    BY <1>14, <1>t, <2>1, <2>2, <2>3, ConstantsAssumption
       DEF TypeOK, Hand, Ledger, rows, relay, MarkError
  <2> QED
    BY <1>t, <2>1, <2>2, <2>4, <2>5, <2>6, SettleStep DEF QueueInv
<1>15. ASSUME NEW w \in Workers, MarkFailedUpdateLost(w) PROVE QueueInv'
  <2>1. PICK c \in Messages : c = cur[w]
    BY <1>15, CurIsMine DEF MarkFailedUpdateLost, WriteFailure
  <2>2. pc[w] \notin {"poll", "deliver"} /\ Hand(w) /\ Ledger(c)
    BY <1>15 DEF QueueInv, HandInv, LedgerInv, MarkFailedUpdateLost, WriteFailure
  <2>3. pc[w] # "callback" => status[c] = "processing"
    BY <2>1, <2>2, CurIsMine
  <2>4. /\ UNCHANGED <<seen, tries, accepted, unsure>>
        /\ \A m \in Messages \ {c} :
             status'[m] = status[m] /\ attempts'[m] = attempts[m] /\ bounces'[m] = bounces[m]
    BY <1>15, <1>t, <2>1 DEF TypeOK, rows, relay, MarkFailedUpdateLost, WriteFailure
  <2>5. Finish(w)
    BY <1>15 DEF MarkFailedUpdateLost, WriteFailure
  <2>6. Ledger(c)'
    BY <1>15, <1>t, <2>1, <2>2, <2>3, ConstantsAssumption
       DEF TypeOK, Hand, Ledger, rows, relay, MarkFailedUpdateLost, WriteFailure, IsPermanent, QueueInv, NoLostAttempt
  <2> QED
    BY <1>t, <2>1, <2>2, <2>4, <2>5, <2>6, SettleStep DEF QueueInv
<1>11. ASSUME NEW w \in Workers, MarkFailedUpdate(w), IsPermanent(seen[w] + 1) PROVE QueueInv'
  <2>1. PICK c \in Messages : c = cur[w]
    BY <1>11, CurIsMine DEF MarkFailedUpdate, WriteFailure
  <2>2. /\ c \in batch[w] /\ pc[w] = "update" /\ status[c] = "processing"
        /\ \A v \in Workers \ {w} : c \notin batch[v]
    BY <1>11, <2>1, CurIsMine DEF MarkFailedUpdate, WriteFailure
  <2>3. Hand(w) /\ Ledger(c) /\ seen[w] = attempts[c]
    BY <2>1, <2>2 DEF QueueInv, HandInv, LedgerInv, NoLostAttempt
  <2>4. /\ UNCHANGED <<batch, cur, seen, tries, accepted, unsure, bounces>>
        /\ pc' = [pc EXCEPT ![w] = "callback"]
        /\ status' = [status EXCEPT ![c] = "failed"]
        /\ attempts' = [attempts EXCEPT ![c] = seen[w] + 1]
    BY <1>11, <2>1 DEF MarkFailedUpdate, WriteFailure, relay
  <2>5. tries[c] = MaxAttempts /\ accepted[c] = unsure[c] /\ bounces[c] = 0
    <3>1. tries[c] = attempts[c] + 1 /\ accepted[c] = unsure[c] /\ bounces[c] = 0
      BY <2>1, <2>2, <2>3 DEF Hand, Ledger
    <3>2. attempts[c] < MaxAttempts /\ attempts[c] + 1 >= MaxAttempts
      BY <1>11, <2>2, <2>3 DEF Ledger, IsPermanent
    <3> QED
      BY <1>t, <3>1, <3>2, ConstantsAssumption DEF TypeOK
  <2>6. SoleOwner'
    BY <1>t, <2>1, <2>2, <2>4 DEF QueueInv, TypeOK, SoleOwner
  <2>7. \A v \in Workers \ {w} : pc[v] \notin {"poll", "deliver"} => cur[v] \in Messages \ {c}
    BY <1>t, <2>2 DEF QueueInv, TypeOK, HandInv, Hand
  <2>8. NoLostAttempt'
    BY <1>t, <2>1, <2>4, <2>7 DEF QueueInv, TypeOK, NoLostAttempt
  <2>9. Hand(w)'
    BY <1>t, <2>1, <2>2, <2>3, <2>4, <2>5 DEF TypeOK, Hand
  <2>10. ASSUME NEW v \in Workers \ {w} PROVE Hand(v)'
    <3>1. Hand(v) /\ pc'[v] = pc[v] /\ cur'[v] = cur[v] /\ batch'[v] = batch[v]
      BY <1>t, <2>4 DEF QueueInv, TypeOK, HandInv
    <3>2. batch[v] \subseteq Messages \ {c}
      BY <1>t, <2>2 DEF TypeOK
    <3> QED
      BY <1>t, <2>4, <2>7, <3>1, <3>2 DEF TypeOK, Hand
  <2>11. ASSUME NEW k \in Messages PROVE Ledger(k)'
    <3>1. CASE k = c
      BY <1>t, <2>4, <2>5, <3>1, ConstantsAssumption DEF TypeOK, Ledger
    <3>2. CASE k # c
      <4>1. Ledger(k) /\ status'[k] = status[k] /\ attempts'[k] = attempts[k]
        BY <1>t, <2>4, <3>2 DEF QueueInv, LedgerInv, TypeOK
      <4> QED
        BY <2>4, <4>1 DEF Ledger
    <3> QED
      BY <3>1, <3>2
  <2>12. HandInv' /\ LedgerInv'
    BY <2>9, <2>10, <2>11 DEF HandInv, LedgerInv
  <2> QED
    BY <1>t, <2>6, <2>8, <2>12 DEF QueueInv
<1> QED
  BY <1>1, <1>2, <1>3, <1>4, <1>5, <1>6, <1>7, <1>8, <1>9, <1>10, <1>11, <1>12, <1>13, <1>14,
     <1>15, <1>16, <1>17 DEF Next, Work, Fault

(* The workers, the ladder and the faults keep the inductive invariant. *)
THEOREM QueueInvariant == Spec => []QueueInv
<1>1. QueueInv /\ [Next]_vars => QueueInv'
  BY NextInv
<1> QED
  BY InitInv, <1>1, PTL DEF Spec

(* The type invariant holds for every size of the queue and of the fleet. *)
THEOREM TypeCorrect == Spec => []TypeOK
<1>1. QueueInv => TypeOK
  BY DEF QueueInv
<1> QED
  BY QueueInvariant, <1>1, PTL

(* Dequeue's claim is exclusive and MarkFailed's read-then-write loses no
   attempt, however many replicas drain the queue. *)
THEOREM ExclusiveClaim == Spec => [](SoleOwner /\ NoLostAttempt)
<1>1. QueueInv => SoleOwner /\ NoLostAttempt
  BY DEF QueueInv
<1> QED
  BY QueueInvariant, <1>1, PTL

(* MaxAttempts bounds the real deliveries of a message, crashes included. *)
THEOREM BoundedAttempts == Spec => []AttemptBudget
<1>1. QueueInv => AttemptBudget
  <2> SUFFICES ASSUME QueueInv, NEW m \in Messages
               PROVE  tries[m] <= MaxAttempts /\ (status[m] = "failed" => tries[m] = MaxAttempts)
    BY DEF AttemptBudget
  <2>1. Ledger(m) /\ tries[m] \in Nat /\ attempts[m] \in Nat /\ status[m] \in Statuses
    BY DEF QueueInv, LedgerInv, TypeOK
  <2> QED
    BY <2>1, ConstantsAssumption DEF Ledger
<1> QED
  BY QueueInvariant, <1>1, PTL

(* Only a lost reply of the relay can make the queue deliver a message twice. *)
THEOREM NoDuplicates == Spec => []NoDuplicateDelivery
<1>1. QueueInv => NoDuplicateDelivery
  BY DEF QueueInv, TypeOK, LedgerInv, Ledger, NoDuplicateDelivery
<1> QED
  BY QueueInvariant, <1>1, PTL

(* The status a message settles with is what happened to it. *)
THEOREM TrueVerdicts == Spec => []VerdictIsTrue
<1>1. QueueInv => VerdictIsTrue
  BY DEF QueueInv, LedgerInv, Ledger, VerdictIsTrue
<1> QED
  BY QueueInvariant, <1>1, PTL

(* The permanent-failure callback runs at most once for a message, and only for
   one that was given up. *)
THEOREM SingleBounce == Spec => []BounceOnlyOnce
<1>1. QueueInv => BounceOnlyOnce
  BY DEF QueueInv, LedgerInv, Ledger, BounceOnlyOnce
<1> QED
  BY QueueInvariant, <1>1, PTL

-----------------------------------------------------------------------------
(* Refinement of DeliveryContract.  Phase(m) is what the mapping makes of a
   row's status. *)

Phase == [m \in Messages |-> CASE status[m] \in Waiting -> "queued"
                               [] status[m] = "held" -> "parked"
                               [] status[m] = "processing" -> "trying"
                               [] status[m] = "purged" -> "gone"
                               [] OTHER -> status[m]]

(* The phase each status of a row is mapped to. *)
LEMMA PhaseOf ==
  \A m \in Messages :
    /\ status[m] \in Waiting => Phase[m] = "queued"
    /\ status[m] = "held" => Phase[m] = "parked"
    /\ status[m] = "processing" => Phase[m] = "trying"
    /\ status[m] = "purged" => Phase[m] = "gone"
    /\ status[m] \in {"absent", "sent", "failed"} => Phase[m] = status[m]
BY DEF Phase

(* A row whose status stays keeps its phase. *)
LEMMA SamePhase == \A m \in Messages : status'[m] = status[m] => Phase'[m] = Phase[m]
BY DEF Phase

(* A set of rows changing status together, with no attempt spent. *)
LEMMA MovesTogether ==
  ASSUME NEW S \in SUBSET Messages, NEW from, NEW to, UNCHANGED attempts,
         \A m \in S : Phase[m] \in from /\ Phase'[m] = to,
         \A m \in Messages \ S : status'[m] = status[m]
  PROVE  Contract!Move(S, from, to)
<1>1. \A m \in Messages \ S : Phase'[m] = Phase[m]
  BY SamePhase
<1>2. Phase' = [m \in Messages |-> IF m \in S THEN to ELSE Phase[m]]
  BY <1>1 DEF Phase
<1> QED
  BY <1>2 DEF Contract!Move, Phase

(* One row's attempt ending. *)
LEMMA AttemptEnds ==
  ASSUME TypeOK, NEW c \in Messages, NEW to \in {"sent", "queued", "failed"},
         status[c] = "processing", Phase'[c] = to,
         \A m \in Messages \ {c} : status'[m] = status[m],
         attempts' = [attempts EXCEPT ![c] = attempts[c] + 1],
         attempts[c] < MaxAttempts,
         to = "queued" => attempts[c] + 1 < MaxAttempts,
         to = "failed" => attempts[c] + 1 = MaxAttempts
  PROVE  Contract!Attempted(c, to)
<1>1. \A m \in Messages \ {c} : Phase'[m] = Phase[m]
  BY SamePhase
<1>2. Phase' = [Phase EXCEPT ![c] = to]
  BY <1>1 DEF Phase
<1>3. Phase[c] = "trying"
  BY PhaseOf
<1> QED
  BY <1>2, <1>3 DEF Contract!Attempted, Phase

(* A step of the queue that leaves the rows' status and attempts alone. *)
LEMMA Invisible == UNCHANGED <<status, attempts>> => UNCHANGED Contract!contract
BY DEF Contract!contract

(* Every step of the queue is a step of the contract, or invisible to it. *)
LEMMA StepKeepsContract == QueueInv /\ [Next]_vars => [Contract!ContractNext]_(Contract!contract)
<1> SUFFICES ASSUME QueueInv, [Next]_vars
             PROVE  Contract!ContractNext \/ UNCHANGED Contract!contract
  OBVIOUS
<1> USE DEF QueueInv
<1>m. ASSUME NEW S \in SUBSET Messages,
             \/ Contract!Move(S, {"absent"}, "queued")
             \/ Contract!Move(S, {"queued"}, "parked")
             \/ Contract!Move(S, {"parked"}, "queued")
             \/ Contract!Move(S, {"queued"}, "trying")
             \/ Contract!Move(S, {"sent", "failed"}, "gone")
      PROVE  Contract!ContractNext
  BY <1>m DEF Contract!ContractNext
<1>p. /\ \A m \in Messages : status'[m] \in Waiting => Phase'[m] = "queued"
      /\ \A m \in Messages : status'[m] = "held" => Phase'[m] = "parked"
      /\ \A m \in Messages : status'[m] = "processing" => Phase'[m] = "trying"
      /\ \A m \in Messages : status'[m] = "purged" => Phase'[m] = "gone"
      /\ \A m \in Messages : status'[m] \in {"absent", "sent", "failed"} => Phase'[m] = status'[m]
  BY DEF Phase
<1>1. ASSUME NEW m \in Messages, Enqueue(m) PROVE Contract!ContractNext
  <2>1. Contract!Move({m}, {"absent"}, "queued")
    <3>1. status' = [status EXCEPT ![m] = "pending"] /\ status[m] = "absent" /\ UNCHANGED attempts
      BY <1>1 DEF Enqueue
    <3>2. Phase[m] \in {"absent"} /\ Phase'[m] = "queued"
      BY <3>1, <1>p, PhaseOf DEF TypeOK
    <3>3. \A k \in Messages \ {m} : status'[k] = status[k]
      BY <3>1 DEF TypeOK
    <3> QED
      BY <3>1, <3>2, <3>3, MovesTogether
  <2> QED
    BY <2>1, <1>m
<1>2. ASSUME NEW s \in Senders, HoldForSender(s) PROVE Contract!ContractNext
  <2> DEFINE S == Holdable(s)
  <2>1. Contract!Move(S, {"queued"}, "parked")
    <3>0. S \in SUBSET Messages
      BY DEF Holdable
    <3>1. /\ UNCHANGED attempts
          /\ \A m \in S : status[m] \in Waiting /\ status'[m] = "held"
          /\ \A m \in Messages \ S : status'[m] = status[m]
      BY <1>2 DEF HoldForSender, Holdable
    <3>2. \A m \in S : Phase[m] \in {"queued"} /\ Phase'[m] = "parked"
      BY <3>0, <3>1, <1>p, PhaseOf
    <3> QED
      BY <3>0, <3>1, <3>2, MovesTogether
  <2> QED
    BY <2>1, <1>m DEF Holdable
<1>3. ASSUME NEW s \in Senders, ReleaseForSender(s) PROVE Contract!ContractNext
  <2> DEFINE S == {m \in Messages : SenderOf[m] = s /\ status[m] = "held"}
  <2>1. Contract!Move(S, {"parked"}, "queued")
    <3>1. /\ UNCHANGED attempts
          /\ \A m \in S : status[m] = "held" /\ status'[m] = "pending"
          /\ \A m \in Messages \ S : status'[m] = status[m]
      BY <1>3 DEF ReleaseForSender
    <3>2. \A m \in S : Phase[m] \in {"parked"} /\ Phase'[m] = "queued"
      BY <3>1, <1>p, PhaseOf
    <3>3. S \in SUBSET Messages
      OBVIOUS
    <3> HIDE DEF S
    <3> QED
      BY <3>1, <3>2, <3>3, MovesTogether
  <2> QED
    BY <2>1, <1>m
<1>4. ASSUME NEW S \in SUBSET Messages, PurgeOld(S) PROVE Contract!ContractNext
  <2>1. Contract!Move(S, {"sent", "failed"}, "gone")
    <3>1. /\ UNCHANGED attempts
          /\ \A m \in S : status[m] \in Terminal /\ status'[m] = "purged"
          /\ \A m \in Messages \ S : status'[m] = status[m]
      BY <1>4 DEF PurgeOld
    <3>2. \A m \in S : Phase[m] \in {"sent", "failed"} /\ Phase'[m] = "gone"
      BY <3>1, <1>p, PhaseOf
    <3> QED
      BY <3>1, <3>2, MovesTogether
  <2> QED
    BY <2>1, <1>m
<1>5. ASSUME NEW S \in SUBSET Messages, Claim(S) PROVE Contract!ContractNext
  <2>1. Contract!Move(S, {"queued"}, "trying")
    <3>1. /\ UNCHANGED attempts
          /\ \A m \in S : status[m] \in Waiting /\ status'[m] = "processing"
          /\ \A m \in Messages \ S : status'[m] = status[m]
      BY <1>5 DEF Claim, Due
    <3>2. \A m \in S : Phase[m] \in {"queued"} /\ Phase'[m] = "trying"
      BY <3>1, <1>p, PhaseOf
    <3> QED
      BY <3>1, <3>2, MovesTogether
  <2> QED
    BY <2>1, <1>m
<1>6. ASSUME NEW w \in Workers, MarkSent(w) PROVE Contract!ContractNext
  <2>1. PICK c \in Messages : c = cur[w] /\ status[c] = "processing"
    BY <1>6, CurIsMine DEF MarkSent
  <2>2. /\ status' = [status EXCEPT ![c] = "sent"]
        /\ attempts' = [attempts EXCEPT ![c] = attempts[c] + 1]
    BY <1>6, <2>1 DEF MarkSent
  <2>3. Phase'[c] = "sent" /\ \A m \in Messages \ {c} : status'[m] = status[m]
    BY <2>2, <1>p DEF TypeOK
  <2>4. attempts[c] < MaxAttempts
    BY <2>1 DEF LedgerInv, Ledger
  <2>5. Contract!Attempted(c, "sent")
    BY <2>1, <2>2, <2>3, <2>4, AttemptEnds
  <2> QED
    BY <2>5 DEF Contract!ContractNext
<1>7. ASSUME NEW w \in Workers, WriteFailure(w) PROVE Contract!ContractNext
  <2>1. PICK c \in Messages : c = cur[w] /\ status[c] = "processing"
    BY <1>7, CurIsMine DEF WriteFailure
  <2>2. seen[w] = attempts[c] /\ attempts[c] < MaxAttempts
    BY <1>7, <2>1 DEF WriteFailure, NoLostAttempt, LedgerInv, Ledger
  <2> DEFINE last == IsPermanent(attempts[c] + 1)
  <2>3. /\ status' = [status EXCEPT ![c] = IF last THEN "failed" ELSE "retry"]
        /\ attempts' = [attempts EXCEPT ![c] = attempts[c] + 1]
    BY <1>7, <2>1, <2>2 DEF WriteFailure
  <2>4. \A m \in Messages \ {c} : status'[m] = status[m]
    BY <2>3 DEF TypeOK
  <2>5. CASE last
    <3>a. attempts[c] + 1 = MaxAttempts
      BY <2>2, <2>5, ConstantsAssumption DEF TypeOK, IsPermanent
    <3>b. status'[c] = "failed"
      BY <2>3, <2>5 DEF TypeOK
    <3>1. Phase'[c] = "failed" /\ attempts[c] + 1 = MaxAttempts
      BY <3>a, <3>b, <1>p
    <3>2. Contract!Attempted(c, "failed")
      BY <2>1, <2>2, <2>3, <2>4, <3>1, AttemptEnds
    <3> QED
      BY <3>2 DEF Contract!ContractNext
  <2>6. CASE ~last
    <3>a. attempts[c] + 1 < MaxAttempts
      BY <2>2, <2>6, ConstantsAssumption DEF TypeOK, IsPermanent
    <3>b. status'[c] = "retry"
      BY <2>3, <2>6 DEF TypeOK
    <3>1. Phase'[c] = "queued" /\ attempts[c] + 1 < MaxAttempts
      BY <3>a, <3>b, <1>p
    <3>2. Contract!Attempted(c, "queued")
      BY <2>1, <2>2, <2>3, <2>4, <3>1, AttemptEnds
    <3> QED
      BY <3>2 DEF Contract!ContractNext
  <2> QED
    BY <2>5, <2>6
<1>8. CASE \/ Tick
           \/ \E w \in Workers :
                \/ \E m \in Messages, took, ok \in BOOLEAN : Deliver(w, m, took, ok)
                \/ MarkFailedSelect(w) \/ Callback(w) \/ MarkError(w) \/ Crash(w)
           \/ UNCHANGED vars
  <2>1. UNCHANGED <<status, attempts>>
    BY <1>8 DEF Tick, Deliver, MarkFailedSelect, Callback, MarkError, Crash, vars, rows
  <2> QED
    BY <2>1, Invisible
<1> QED
  BY <1>1, <1>2, <1>3, <1>4, <1>5, <1>6, <1>7, <1>8
     DEF Next, Work, Fault, Dequeue, DequeueLost, MarkFailedUpdate, MarkFailedUpdateLost

(* The detailed queue implements DeliveryContract. *)
THEOREM Refinement == Spec => KeepsContract
<1>1. Init => Contract!ContractInit
  BY DEF Init, Contract!ContractInit
<1>2. QueueInv /\ [Next]_vars => [Contract!ContractNext]_(Contract!contract)
  BY StepKeepsContract
<1> QED
  BY <1>1, <1>2, QueueInvariant, PTL DEF Spec, KeepsContract, Contract!ContractSpec

(* A verdict is final: what the workers of other replicas, the ladder or a late
   mark do never changes a settled message but to purge it. *)
THEOREM VerdictsAreFinal == Spec => SettledForGood
<1> DEFINE A == \A m \in Messages :
                  /\ status[m] \in Terminal => status'[m] \in {status[m], "purged"}
                  /\ status[m] = "purged" => status'[m] = "purged"
<1>1. QueueInv /\ [Next]_vars => [A]_vars
  <2> SUFFICES ASSUME QueueInv, [Next]_vars PROVE A
    OBVIOUS
  <2> USE DEF QueueInv, TypeOK
  <2>1. ASSUME NEW w \in Workers, MarkSent(w) PROVE A
    BY <2>1, CurIsMine DEF MarkSent
  <2>2. ASSUME NEW w \in Workers, WriteFailure(w) PROVE A
    BY <2>2, CurIsMine DEF WriteFailure
  <2>3. CASE \/ \E m \in Messages : Enqueue(m)
             \/ \E s \in Senders : HoldForSender(s) \/ ReleaseForSender(s)
             \/ \E S \in SUBSET Messages : PurgeOld(S) \/ Claim(S)
    BY <2>3 DEF Enqueue, HoldForSender, Holdable, ReleaseForSender, PurgeOld, Claim, Due
  <2>4. CASE UNCHANGED status
    BY <2>4
  <2> HIDE DEF A, QueueInv, TypeOK
  <2> QED
    BY <2>1, <2>2, <2>3, <2>4
       DEF Next, Work, Fault, Dequeue, DequeueLost, MarkFailedUpdate, MarkFailedUpdateLost,
           Tick, Deliver, MarkFailedSelect, Callback, MarkError, Crash, vars, rows
<1> QED
  BY <1>1, QueueInvariant, PTL DEF Spec, SettledForGood
=============================================================================
