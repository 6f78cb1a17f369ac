--------------------------- MODULE SessionsProofs ---------------------------
(* Proofs about Sessions, for any requests, users and challenges and any       *)
(* number of sessions, tokens and failures.                                   *)
EXTENDS Sessions, TLAPS

Logins == {"web", "nip07", "bunker"}

(* A login that has not entered its token yet, and a refresh under way. *)
Fresh(q)   == q.op \in Logins /\ q.pc # "delChal"
Holding(q) == q.op = "refresh" /\ q.pc # "load"

(* The steps of each operation, and what a request holds at them. *)
OrderOK(q) ==
  /\ q.op \in Logins => q.pc \in {"setId", "setIndex", "undo", "delChal"} /\ q.id \in 1..opened
                       /\ q.tok = Absent
  /\ q.op \notin Logins => q.tok \in known \union SignerTokens
  /\ q.op = "get" => q.pc \in {"index", "signer", "load"}
  /\ q.op = "refresh" => q.pc # "delChal"
  /\ q.op = "expired" => q.pc \in {"find", "delId", "delIndex"}
  /\ q.pc = "index" => q.tok \in Tokens
  /\ q.pc = "signer" => q.tok \notin Tokens
  /\ IF q.pc \in {"index", "signer"} THEN q.id = Absent ELSE q.id \in 1..opened \union {Blank}
  /\ q.new = Absent <=> q.op \in {"get", "expired"} \/ q.pc \in {"index", "signer", "load"}
  /\ q.new # Absent => q.user \in Users
  /\ q.pc = "delChal" => q.op = "nip07"
  /\ q.op = "nip07" => q.chal \in Challenges

(* A token in the making is known to nobody, and in no index before its request
   enters it. *)
TokenOK(q) ==
  q.new # Absent => /\ q.new \in 1..issued /\ q.new \notin known
                    /\ q.pc # "delChal" => index[q.new] = Absent

(* Until a login has entered its token, its session cannot be found. *)
FreshOK(q) ==
  Fresh(q) => /\ \A t \in Tokens : index[t] # q.id
              /\ q.pc = "setIndex" => sess[q.id] = Absent \/ sess[q.id].token = q.new

(* The token a request was given belongs to the session it works on, or to none
   any more. *)
FitOK(q) == q.tok \in Tokens /\ q.id # Absent => index[q.tok] \in {q.id, Absent}

(* What a refresh nobody interferes with has left of the session at each of its
   steps. *)
RefreshOK(q) ==
  Holding(q) /\ q.id \in Ids \ contended =>
    /\ q.pc \in {"find", "delId"} => sess[q.id] # Absent
    /\ q.pc = "delId" => q.found = sess[q.id].token
    /\ q.pc = "delIndex" => sess[q.id] = Absent /\ \A t \in Tokens : index[t] = q.id => t = q.found
    /\ q.pc \in {"setId", "setIndex", "undo"} => \A t \in Tokens : index[t] # q.id
    /\ q.pc = "setIndex" => sess[q.id] = Absent \/ sess[q.id].token = q.new

RequestOK(q) == OrderOK(q) /\ TokenOK(q) /\ FreshOK(q) /\ FitOK(q) /\ RefreshOK(q)

(* Two requests: different new tokens, a new session to itself, and two refreshes
   of one session only where that is recorded. *)
ApartOK(p, q) ==
  /\ p.new # Absent => p.new # q.new
  /\ Fresh(p) \/ Fresh(q) => p.id # q.id
  /\ Holding(p) /\ Holding(q) /\ p.id = q.id /\ p.id \in Ids => p.id \in contended

RequestsOK ==
  /\ \A r \in Requests : req[r] # Idle => RequestOK(req[r])
  /\ \A r, s \in Requests : r # s /\ req[r] # Idle /\ req[s] # Idle => ApartOK(req[r], req[s])

(* A challenge that can still be redeemed has not been. *)
Unredeemed == \A c \in Challenges : chal[c] # Absent => redeemed[c] = 0

(* A session nobody interferes with is found under its own token only. *)
OneToken ==
  \A i \in Ids \ contended, t \in Tokens : sess[i] # Absent /\ index[t] = i => sess[i].token = t

StoreOK == Unredeemed /\ OneToken /\ OldTokenIsDead

SessionsInv == TypeOK /\ RequestsOK /\ StoreOK
-----------------------------------------------------------------------------
(* A request that has its session to itself: a new one, or a refresh nobody
   interferes with. *)
Guarded(q) == Fresh(q) \/ (Holding(q) /\ q.id \in Ids \ contended)

(* A step leaves session i with the token it had. *)
SameToken(i) ==
  /\ sess'[i] = Absent <=> sess[i] = Absent
  /\ sess[i] # Absent => sess'[i].token = sess[i].token

(* What a step of another request, of Redis or of the clock leaves alone, for
   request q. *)
Undisturbed(q) ==
  /\ 1..opened \subseteq 1..opened' /\ 1..issued \subseteq 1..issued'
  /\ known \subseteq known' /\ contended \subseteq contended'
  /\ q.new # Absent => q.new \notin known'
  /\ \A t \in Tokens : \/ index'[t] \in {index[t], Absent}
                       \/ t \notin known /\ t # q.new /\ (Guarded(q)' => index'[t] # q.id)
  /\ Guarded(q)' => SameToken(q.id) \/ (Fresh(q) /\ sess'[q.id] = Absent)

(* The other requests in progress than r. *)
Other(r, q) == \E s \in Requests \ {r} : req[s] # Idle /\ req[s] = q

(* A request left alone is as it was. *)
LEMMA OthersKeep ==
  ASSUME NEW q \in Request, RequestOK(q), Undisturbed(q), 1..opened \subseteq Ids
  PROVE  RequestOK(q)'
<1> USE DEF RequestOK
<1>1. OrderOK(q)'
  <2>1. OrderOK(q) /\ 1..opened \subseteq 1..opened' /\ known \subseteq known'
    BY DEF Undisturbed
  <2> QED
    BY <2>1 DEF OrderOK
<1>2. q.tok \in Tokens => q.tok \in known
  BY SessionsAssumption DEF OrderOK
<1>3. q.new # Absent => q.new \in Tokens
  BY DEF Request
<1>4. TokenOK(q)'
  <2> SUFFICES ASSUME q.new # Absent PROVE TokenOK(q)'
    BY DEF TokenOK
  <2>1. q.new \in 1..issued' /\ q.new \notin known'
    BY DEF TokenOK, Undisturbed
  <2>2. q.pc # "delChal" => index'[q.new] = Absent
    BY <1>3 DEF TokenOK, Undisturbed
  <2> QED
    BY <2>1, <2>2 DEF TokenOK
<1>5. Fresh(q) => q.new # Absent /\ q.pc # "delChal" /\ q.id # Absent
  <2>1. Fresh(q) => q.id \in Ids /\ q.pc \notin {"index", "signer", "load", "delChal"}
    BY DEF Fresh, OrderOK
  <2> QED
    BY <2>1, SessionsAssumption DEF Fresh, OrderOK, Logins
<1>6. FreshOK(q)'
  <2> SUFFICES ASSUME Fresh(q) PROVE FreshOK(q)'
    BY DEF FreshOK, Fresh
  <2>1. Guarded(q)'
    BY DEF Guarded, Fresh
  <2>3. \A t \in Tokens : index'[t] # q.id
    BY <1>5, <2>1 DEF FreshOK, Undisturbed
  <2>4. q.pc = "setIndex" => sess'[q.id] = Absent \/ sess'[q.id].token = q.new
    BY <2>1 DEF FreshOK, Undisturbed, SameToken
  <2> QED
    BY <2>3, <2>4 DEF FreshOK, Fresh
<1>7. FitOK(q)'
  BY <1>2 DEF FitOK, Undisturbed
<1>8. RefreshOK(q)'
  <2> SUFFICES ASSUME Holding(q), q.id \in Ids \ contended' PROVE RefreshOK(q)'
    BY DEF RefreshOK, Holding
  <2>1. Guarded(q)' /\ ~Fresh(q) /\ q.id \in Ids \ contended
    BY DEF Guarded, Holding, Fresh, Logins, Undisturbed
  <2>2. SameToken(q.id) /\ \A t \in Tokens : index'[t] = q.id => index[t] = q.id
    BY <2>1, SessionsAssumption DEF Undisturbed
  <2> QED
    BY <2>1, <2>2 DEF RefreshOK, SameToken, Holding
<1> QED
  BY <1>1, <1>4, <1>6, <1>7, <1>8

(* A step of request r that leaves the others alone. *)
LEMMA StepKeeps ==
  ASSUME SessionsInv, TypeOK', StoreOK', NEW r \in Requests, NEW p \in Request \union {Idle},
         req' = [req EXCEPT ![r] = p],
         \A q \in Request : Other(r, q) => Undisturbed(q),
         p # Idle => /\ p \in Request /\ RequestOK(p)'
                     /\ \A q \in Request : Other(r, q) => ApartOK(p, q)'
  PROVE  SessionsInv'
<1>0. /\ req \in [Requests -> Request \union {Idle}] /\ req'[r] = p
      /\ \A s \in Requests \ {r} : req'[s] = req[s]
  BY DEF SessionsInv, TypeOK
<1>opened. 1..opened \subseteq Ids
  BY SessionsAssumption DEF SessionsInv, TypeOK, Ids
<1>1. ASSUME NEW s \in Requests \ {r}, req[s] # Idle
      PROVE  req[s] \in Request /\ Other(r, req[s])
  BY <1>0, <1>1 DEF Other
<1>2. ASSUME NEW s \in Requests, req'[s] # Idle PROVE RequestOK(req[s])'
  <2>1. PICK q \in Request : q = req'[s] /\ RequestOK(q)'
    <3>1. CASE s = r
      BY <1>0, <1>2, <3>1
    <3>2. CASE s # r
      <4>1. PICK q \in Request : q = req[s] /\ q = req'[s] /\ RequestOK(q) /\ Other(r, q)
        BY <1>0, <1>1, <1>2, <3>2 DEF SessionsInv, RequestsOK
      <4>2. RequestOK(q)'
        BY <1>opened, <4>1, OthersKeep
      <4> QED
        BY <4>1, <4>2
    <3> QED
      BY <3>1, <3>2
  <2> QED
    BY <2>1 DEF RequestOK, OrderOK, TokenOK, FreshOK, Fresh, FitOK, RefreshOK, Holding
<1>3. ASSUME NEW s \in Requests, NEW u \in Requests, s # u, req'[s] # Idle, req'[u] # Idle
      PROVE  ApartOK(req[s], req[u])'
  <2>1. PICK x \in Request, y \in Request : x = req'[s] /\ y = req'[u]
    BY <1>0, <1>1, <1>3
  <2>2. ApartOK(x, y)'
    <3>1. CASE s = r
      BY <1>0, <1>1, <1>3, <2>1, <3>1
    <3>2. CASE u = r
      <4>1. ApartOK(y, x)'
        BY <1>0, <1>1, <1>3, <2>1, <3>2
      <4> QED
        BY <4>1 DEF ApartOK
    <3>3. CASE s # r /\ u # r
      <4>1. ApartOK(x, y) /\ Undisturbed(x)
        BY <1>0, <1>1, <1>3, <2>1, <3>3 DEF SessionsInv, RequestsOK
      <4>2. contended \subseteq contended'
        BY <4>1 DEF Undisturbed
      <4> QED
        BY <4>1, <4>2 DEF ApartOK, Fresh, Holding
    <3> QED
      BY <3>1, <3>2, <3>3
  <2> QED
    BY <2>1, <2>2 DEF ApartOK, Fresh, Holding
<1> QED
  BY <1>2, <1>3 DEF SessionsInv, RequestsOK

-----------------------------------------------------------------------------
(* A step that enters nothing into the store. *)
Wanes ==
  /\ UNCHANGED <<sess, retired>> /\ contended \subseteq contended'
  /\ 1..opened \subseteq 1..opened' /\ 1..issued \subseteq 1..issued'
  /\ \A t \in Tokens : index'[t] \in {index[t], Absent}

(* What is said of the store survives such a step. *)
LEMMA WaningStore ==
  ASSUME SessionsInv, Wanes
  PROVE  OneToken' /\ OldTokenIsDead'
<1>1. OneToken'
  BY SessionsAssumption DEF SessionsInv, StoreOK, OneToken, Wanes
<1>3. OldTokenIsDead'
  <2>1. known \subseteq Tokens
    BY SessionsAssumption DEF SessionsInv, TypeOK, Tokens
  <2>2. \A x \in retired : x[1] \in known
    BY DEF SessionsInv, TypeOK
  <2> QED
    BY <2>1, <2>2 DEF SessionsInv, StoreOK, OldTokenIsDead, Wanes
<1> QED
  BY <1>1, <1>3

(* What is known of the other requests. *)
LEMMA OthersOK ==
  ASSUME SessionsInv, NEW r \in Requests, NEW q \in Request, Other(r, q)
  PROVE  /\ RequestOK(q)
         /\ req[r] # Idle => ApartOK(req[r], q)
BY DEF SessionsInv, RequestsOK, Other

(* The others do not notice it, nor a token made known that was r's. *)
LEMMA WaningLeaves ==
  ASSUME SessionsInv, Wanes, NEW r \in Requests, NEW q \in Request, Other(r, q),
         \/ known' = known
         \/ known' = known \union {req[r].new} /\ req[r] # Idle /\ req[r].new # Absent
  PROVE  Undisturbed(q)
<1>1. RequestOK(q) /\ (req[r] # Idle => ApartOK(req[r], q))
  BY OthersOK
<1>2. q.new # Absent => q.new \notin known'
  BY <1>1 DEF RequestOK, TokenOK, ApartOK
<1> QED
  BY <1>2 DEF Undisturbed, Wanes, SameToken

(* A request is answered. *)
LEMMA EndKeeps ==
  ASSUME SessionsInv, TypeOK', Unredeemed', Wanes, NEW r \in Requests,
         req' = [req EXCEPT ![r] = Idle],
         \/ known' = known
         \/ known' = known \union {req[r].new} /\ req[r] # Idle /\ req[r].new # Absent
  PROVE  SessionsInv'
<1>1. StoreOK'
  BY WaningStore DEF StoreOK
<1>2. PICK p \in Request \union {Idle} : p = Idle
  OBVIOUS
<1>3. \A q \in Request : Other(r, q) => Undisturbed(q)
  BY WaningLeaves
<1>4. req' = [req EXCEPT ![r] = p]
  BY <1>2
<1> QED
  BY <1>1, <1>2, <1>3, <1>4, StepKeeps

(* A request goes on to its next step with the session and the token it has. *)
LEMMA MoveKeeps ==
  ASSUME SessionsInv, TypeOK', Unredeemed', Wanes, known' = known,
         NEW r \in Requests, NEW p \in Request, req[r] # Idle, req' = [req EXCEPT ![r] = p],
         p.id = req[r].id, p.new = req[r].new, p.new = Absent \/ p.op = req[r].op,
         p.new # Absent => (p.pc = "delChal" <=> req[r].pc = "delChal") /\ req[r].pc # "load",
         RequestOK(p)'
  PROVE  SessionsInv'
<1>1. StoreOK'
  BY WaningStore DEF StoreOK
<1>2. \A q \in Request : Other(r, q) => Undisturbed(q)
  BY WaningLeaves
<1>3. ASSUME NEW q \in Request, Other(r, q) PROVE ApartOK(p, q)'
  <2>1. ApartOK(req[r], q) /\ RequestOK(q) /\ contended \subseteq contended'
    BY <1>3, OthersOK DEF Wanes
  <2>2. (Fresh(p) => Fresh(req[r])) /\ (Holding(p) /\ p.id \in Ids => Holding(req[r]))
    BY SessionsAssumption DEF Fresh, Holding, RequestOK, OrderOK, Logins
  <2> QED
    BY <2>1, <2>2 DEF ApartOK, Fresh, Holding
<1> QED
  BY <1>1, <1>2, <1>3, StepKeeps

-----------------------------------------------------------------------------
(* The empty store. *)
LEMMA InitInv == Init => SessionsInv
<1> SUFFICES ASSUME Init PROVE SessionsInv
  OBVIOUS
<1>1. TypeOK
  BY SessionsAssumption DEF Init, TypeOK
<1>2. RequestsOK
  BY DEF Init, RequestsOK
<1>3. StoreOK
  BY SessionsAssumption DEF Init, StoreOK, Unredeemed, OneToken, OldTokenIsDead
<1> QED
  BY <1>1, <1>2, <1>3 DEF SessionsInv

(* The challenges: a step that only touches them and spends none twice. *)
LEMMA ChallengeKeeps ==
  ASSUME SessionsInv, UNCHANGED <<sess, index, req, opened, issued, begun, faults, ghosts>>,
         chal' \in [Challenges -> Kinds \union {Absent, Idle}], Unredeemed'
  PROVE  SessionsInv'
<1>0. UNCHANGED <<sess, index, req, opened, issued, begun, faults,
                  known, redeemed, loggedOut, contended, retired>>
  BY DEF ghosts
<1>1. TypeOK'
  BY <1>0 DEF SessionsInv, TypeOK
<1>2. RequestsOK'
  BY <1>0 DEF SessionsInv, RequestsOK, RequestOK, OrderOK, TokenOK, FreshOK, Fresh, FitOK,
              RefreshOK, Holding, ApartOK
<1>3. OneToken' /\ OldTokenIsDead'
  BY <1>0 DEF SessionsInv, StoreOK, OneToken, OldTokenIsDead
<1> QED
  BY <1>1, <1>2, <1>3 DEF SessionsInv, StoreOK

(* A login gets a session and a token nobody has had. *)
LEMMA OpenKeeps ==
  ASSUME SessionsInv, Unredeemed', NEW r \in Requests, NEW c \in Challenges,
         NEW how \in Logins, NEW u \in Users, req[r] = Idle, Open(r, c, how, u, "setId"),
         chal' \in [Challenges -> Kinds \union {Absent, Idle}],
         redeemed' \in [Challenges -> 0..1],
         UNCHANGED <<sess, index, begun, faults, known, loggedOut, contended, retired>>
  PROVE  SessionsInv'
<1> DEFINE i == opened + 1
           n == issued + 1
           new == [op |-> how, pc |-> "setId", chal |-> c, tok |-> Absent, id |-> i,
                   user |-> u, new |-> n, found |-> Absent]
<1>1. /\ i \in Ids /\ n \in Tokens /\ i \notin 1..opened /\ n \notin 1..issued
      /\ i \in 1..opened' /\ n \in 1..issued'
      /\ opened' \in 0..MaxSessions /\ issued' \in 0..MaxTokens
      /\ 1..opened \subseteq 1..opened' /\ 1..issued \subseteq 1..issued'
  BY SessionsAssumption DEF Open, SessionsInv, TypeOK, Ids, Tokens
<1>2. req' = [req EXCEPT ![r] = new]
  BY DEF Open
<1> HIDE DEF i, n
<1>3. new \in Request
  BY <1>1 DEF Request, Logins
<1>4. PICK p \in Request :
        /\ req' = [req EXCEPT ![r] = p] /\ p.op = how /\ p.pc = "setId" /\ p.chal = c
        /\ p.tok = Absent /\ p.id = i /\ p.user = u /\ p.new = n
  BY <1>2, <1>3
<1>types. TypeOK'
  <2>1. req' \in [Requests -> Request \union {Idle}]
    BY <1>4 DEF SessionsInv, TypeOK
  <2>2. known' \subseteq 1..issued' /\ loggedOut' \subseteq known' /\ retired' \subseteq known' \X (1..opened')
        /\ index' \in [Tokens -> 1..opened' \union {Blank, Absent}]
        /\ \A t \in Tokens : index'[t] # Absent => t \in 1..issued'
    BY <1>1 DEF SessionsInv, TypeOK
  <2> QED
    BY <1>1, <2>1, <2>2 DEF SessionsInv, TypeOK
<1>5. Wanes
  BY <1>1 DEF Wanes
<1>6. StoreOK'
  BY <1>5, WaningStore DEF StoreOK
<1>7. \A q \in Request : Other(r, q) => Undisturbed(q)
  BY <1>5, WaningLeaves
<1>8. RequestOK(p)'
  <2>1. n \notin known /\ i # Absent /\ n # Absent /\ i # Blank
    BY <1>1, SessionsAssumption DEF SessionsInv, TypeOK
  <2>2. \A t \in Tokens : index[t] # i
    BY <1>1, <2>1 DEF SessionsInv, TypeOK
  <2>3. index[n] = Absent
    BY <1>1 DEF SessionsInv, TypeOK
  <2>4. OrderOK(p)'
    BY <1>1, <1>4, <2>1 DEF OrderOK, Logins
  <2>5. TokenOK(p)'
    BY <1>1, <1>4, <2>1, <2>3 DEF TokenOK
  <2>6. FreshOK(p)' /\ FitOK(p)' /\ RefreshOK(p)'
    BY <1>4, <2>1, <2>2, SessionsAssumption DEF FreshOK, Fresh, FitOK, RefreshOK, Holding, Logins
  <2> QED
    BY <2>4, <2>5, <2>6 DEF RequestOK
<1>9. ASSUME NEW q \in Request, Other(r, q) PROVE ApartOK(p, q)'
  <2>1. RequestOK(q)
    BY <1>9, OthersOK
  <2>2. q.id # i /\ q.new # n
    BY <1>1, <2>1, SessionsAssumption DEF RequestOK, OrderOK, TokenOK
  <2> QED
    BY <1>4, <2>2 DEF ApartOK, Holding, Logins
<1> QED
  BY <1>types, <1>4, <1>6, <1>7, <1>8, <1>9, StepKeeps

(* The three ways to log in, and the consumed challenge of an event that does
   not fit. *)
LEMMA LogInKeeps ==
  ASSUME SessionsInv, NEW r \in Requests, LogIn(r)
  PROVE  SessionsInv'
<1>1. PICK c \in Challenges, u \in Users :
        VerifyChallenge(r, c, u) \/ VerifyAuthSignature(r, c, u) \/ ConnectToBunker(r, c, u)
  BY DEF LogIn
<1>0. /\ Unredeemed /\ chal \in [Challenges -> Kinds \union {Absent, Idle}]
      /\ redeemed \in [Challenges -> 0..1]
  BY DEF SessionsInv, StoreOK, TypeOK
<1>2. CASE VerifyChallenge(r, c, u)
  <2>1. /\ req[r] = Idle /\ chal' = [chal EXCEPT ![c] = Absent] /\ chal[c] # Absent
        /\ UNCHANGED <<sess, index, begun, faults, known, loggedOut, contended, retired>>
    BY <1>2, SessionsAssumption DEF VerifyChallenge, ConsumeNIP46Challenge
  <2>2. chal' \in [Challenges -> Kinds \union {Absent, Idle}]
    BY <1>0, <2>1
  <2>3. CASE Open(r, c, "web", u, "setId") /\ redeemed' = [redeemed EXCEPT ![c] = @ + 1]
    <3>1. redeemed[c] = 0
      BY <1>0, <2>1 DEF Unredeemed
    <3>2. redeemed' = [redeemed EXCEPT ![c] = 1]
      BY <2>3, <3>1
    <3>3. redeemed' \in [Challenges -> 0..1]
      BY <1>0, <3>2
    <3>4. Unredeemed'
      BY <1>0, <2>1, <3>2 DEF Unredeemed
    <3>5. "web" \in Logins
      BY DEF Logins
    <3> QED
      BY <1>0, <2>1, <2>2, <2>3, <3>3, <3>4, <3>5, OpenKeeps
  <2>4. CASE UNCHANGED <<req, opened, issued, redeemed>>
    <3>1. Unredeemed'
      BY <1>0, <2>1, <2>4 DEF Unredeemed
    <3>2. UNCHANGED <<sess, index, req, opened, issued, begun, faults, ghosts>>
      BY <2>1, <2>4 DEF ghosts
    <3> QED
      BY <2>2, <3>1, <3>2, ChallengeKeeps
  <2> QED
    BY <1>2, <2>3, <2>4 DEF VerifyChallenge
<1>3. CASE VerifyAuthSignature(r, c, u)
  <2>1. /\ req[r] = Idle /\ Open(r, c, "nip07", u, "setId") /\ "nip07" \in Logins
        /\ UNCHANGED <<chal, redeemed>>
        /\ UNCHANGED <<sess, index, begun, faults, known, loggedOut, contended, retired>>
    BY <1>3 DEF VerifyAuthSignature, store, ghosts, Logins
  <2>2. Unredeemed'
    BY <1>0, <2>1 DEF Unredeemed
  <2> QED
    BY <1>0, <2>1, <2>2, OpenKeeps
<1>4. CASE ConnectToBunker(r, c, u)
  <2>1. /\ req[r] = Idle /\ Open(r, c, "bunker", u, "setId") /\ "bunker" \in Logins
        /\ UNCHANGED <<chal, redeemed>>
        /\ UNCHANGED <<sess, index, begun, faults, known, loggedOut, contended, retired>>
    BY <1>0, <1>4 DEF ConnectToBunker, store, ghosts, Logins
  <2>2. Unredeemed'
    BY <1>0, <2>1 DEF Unredeemed
  <2> QED
    BY <1>0, <2>1, <2>2, OpenKeeps
<1> QED
  BY <1>1, <1>2, <1>3, <1>4

(* Challenges asked for and expired. *)
LEMMA ChallengesKeep ==
  ASSUME SessionsInv, NEW c \in Challenges,
         EvictChallenge(c) \/ \E k \in Kinds : SetNIP46Challenge(c, k)
  PROVE  SessionsInv'
<1>0. Unredeemed /\ chal \in [Challenges -> Kinds \union {Absent, Idle}]
  BY DEF SessionsInv, StoreOK, TypeOK
<1>1. /\ UNCHANGED <<sess, index, req, opened, issued, begun, faults, ghosts>>
      /\ UNCHANGED redeemed
      /\ \E k \in Kinds \union {Absent} : chal' = [chal EXCEPT ![c] = k]
      /\ chal[c] # Absent
  BY SessionsAssumption DEF EvictChallenge, SetNIP46Challenge, ghosts
<1>2. chal' \in [Challenges -> Kinds \union {Absent, Idle}] /\ Unredeemed'
  BY <1>0, <1>1 DEF Unredeemed
<1> QED
  BY <1>1, <1>2, ChallengeKeeps

-----------------------------------------------------------------------------
(* What a request about to save, or saving, can rely on. *)
LEMMA SaverAlone ==
  ASSUME SessionsInv, NEW r \in Requests, req[r] # Idle,
         req[r].pc \in {"setId", "setIndex", "undo"}
  PROVE  LET q == req[r] IN
         /\ q \in Request /\ RequestOK(q) /\ q.op \in Logins \union {"refresh"}
         /\ q.new \in Tokens /\ q.new \in 1..issued /\ q.new \notin known /\ q.new # Absent
         /\ q.id \in 1..opened \union {Blank} /\ q.id \in Ids \union {Blank}
         /\ q.user \in Users
         /\ Fresh(q) \/ Holding(q)
         /\ q.id \in Ids \ contended => \A t \in Tokens : index[t] # q.id
         /\ \A p \in Request : Other(r, p) => p.new # q.new /\ (Guarded(p) => p.id # q.id)
<1> DEFINE q == req[r]
<1>1. q \in Request /\ RequestOK(q) /\ 1..opened \subseteq Ids /\ 1..issued \subseteq Tokens
  BY SessionsAssumption DEF SessionsInv, RequestsOK, TypeOK, Ids, Tokens
<1>2. q.op \in Logins \union {"refresh"} /\ q.new # Absent
      /\ q.id \in 1..opened \union {Blank} /\ q.user \in Users
  BY <1>1 DEF RequestOK, OrderOK, Logins, Request
<1>3. q.new \in 1..issued /\ q.new \notin known
  BY <1>1, <1>2 DEF RequestOK, TokenOK
<1>4. Fresh(q) \/ Holding(q)
  BY <1>2 DEF Fresh, Holding
<1>5. q.id \in Ids \ contended => \A t \in Tokens : index[t] # q.id
  BY <1>1, <1>4 DEF RequestOK, FreshOK, RefreshOK
<1>6. ASSUME NEW p \in Request, Other(r, p) PROVE p.new # q.new /\ (Guarded(p) => p.id # q.id)
  <2>1. ApartOK(q, p)
    BY <1>6, OthersOK
  <2> QED
    BY <1>2, <1>4, <2>1 DEF ApartOK, Guarded
<1> QED
  BY <1>1, <1>2, <1>3, <1>4, <1>5, <1>6

(* SET session:<id>. *)
LEMMA SaveSessionKeeps ==
  ASSUME SessionsInv, NEW r \in Requests, SaveSessionById(r)
  PROVE  SessionsInv'
<1> DEFINE q == req[r]
           new == [user |-> q.user, token |-> q.new, lapsed |-> FALSE]
<1>0. /\ q # Idle /\ q.pc = "setId" /\ sess' = [sess EXCEPT ![q.id] = new]
      /\ req' = [req EXCEPT ![r].pc = "setIndex"]
      /\ UNCHANGED <<chal, index, opened, issued, begun, faults,
                     known, redeemed, loggedOut, contended, retired>>
  BY DEF SaveSessionById, At, Goto, ghosts
<1>1. /\ q \in Request /\ RequestOK(q) /\ q.op \in Logins \union {"refresh"}
      /\ q.new \in Tokens /\ q.new \in 1..issued /\ q.new \notin known /\ q.new # Absent
      /\ q.id \in 1..opened \union {Blank} /\ q.id \in Ids \union {Blank}
      /\ q.user \in Users /\ (Fresh(q) \/ Holding(q))
      /\ q.id \in Ids \ contended => \A t \in Tokens : index[t] # q.id
      /\ \A x \in Request : Other(r, x) => x.new # q.new /\ (Guarded(x) => x.id # q.id)
  BY <1>0, SaverAlone
<1>2. new \in Session /\ new.token = q.new
  BY <1>1 DEF Session
<1>3. [q EXCEPT !.pc = "setIndex"] \in Request
  BY <1>1 DEF Request
<1>4. PICK p \in Request :
        /\ req' = [req EXCEPT ![r] = p] /\ p.pc = "setIndex" /\ p.op = q.op /\ p.id = q.id
        /\ p.new = q.new /\ p.tok = q.tok /\ p.user = q.user /\ p.chal = q.chal
  <2>1. PICK p \in Request : p = [q EXCEPT !.pc = "setIndex"]
    BY <1>3
  <2>2. req' = [req EXCEPT ![r] = p]
    BY <1>0, <2>1 DEF SessionsInv, TypeOK
  <2>3. /\ p.pc = "setIndex" /\ p.op = q.op /\ p.id = q.id
        /\ p.new = q.new /\ p.tok = q.tok /\ p.user = q.user /\ p.chal = q.chal
    BY <1>1, <2>1 DEF Request
  <2> QED
    BY <2>2, <2>3
<1> HIDE DEF new, q
<1>5. /\ sess' \in [Ids \union {Blank} -> Session \union {Absent}] /\ sess'[q.id] = new
      /\ \A i \in (Ids \union {Blank}) \ {q.id} : sess'[i] = sess[i]
  BY <1>0, <1>1, <1>2 DEF SessionsInv, TypeOK
<1>6. TypeOK'
  <2>1. req' \in [Requests -> Request \union {Idle}]
    BY <1>4 DEF SessionsInv, TypeOK
  <2> QED
    BY <1>0, <1>5, <2>1 DEF SessionsInv, TypeOK
<1>7. StoreOK'
  <2>1. OneToken'
    BY <1>0, <1>1, <1>5 DEF SessionsInv, StoreOK, OneToken
  <2> QED
    BY <1>0, <2>1 DEF SessionsInv, StoreOK, Unredeemed, OldTokenIsDead
<1>8. ASSUME NEW x \in Request, Other(r, x) PROVE Undisturbed(x)
  <2>1. RequestOK(x) /\ (Guarded(x)' <=> Guarded(x))
    BY <1>0, <1>8, OthersOK DEF Guarded, Fresh, Holding
  <2>2. Guarded(x) => x.id \in Ids
    BY <2>1, SessionsAssumption DEF Guarded, Fresh, RequestOK, OrderOK, SessionsInv, TypeOK, Ids
  <2>3. Guarded(x)' => SameToken(x.id)
    BY <1>1, <1>5, <1>8, <2>1, <2>2 DEF SameToken
  <2> QED
    BY <1>0, <2>1, <2>3 DEF Undisturbed, RequestOK, TokenOK
<1>9. RequestOK(p)'
  <2>1. OrderOK(p)'
    BY <1>0, <1>1, <1>4 DEF RequestOK, OrderOK, Logins
  <2>2. TokenOK(p)' /\ FitOK(p)'
    BY <1>0, <1>1, <1>4 DEF RequestOK, TokenOK, FitOK
  <2>3. FreshOK(p)'
    BY <1>0, <1>1, <1>2, <1>4, <1>5 DEF RequestOK, FreshOK, Fresh
  <2>4. RefreshOK(p)'
    BY <1>0, <1>1, <1>2, <1>4, <1>5 DEF RefreshOK, Holding
  <2> QED
    BY <2>1, <2>2, <2>3, <2>4 DEF RequestOK
<1>10. ASSUME NEW x \in Request, Other(r, x) PROVE ApartOK(p, x)'
  <2>1. ApartOK(q, x)
    BY <1>0, <1>10, OthersOK DEF q
  <2> QED
    BY <1>0, <1>1, <1>4, <2>1 DEF ApartOK, Fresh, Holding
<1> QED
  BY <1>4, <1>6, <1>7, <1>8, <1>9, <1>10, StepKeeps

(* SET session:token:<token>: a login by NIP-07 goes on to its challenge, the
   others answer; a refresh has retired the token it was given. *)
LEMMA SaveIndexKeeps ==
  ASSUME SessionsInv, NEW r \in Requests, SaveTokenIndex(r)
  PROVE  SessionsInv'
<1> DEFINE q == req[r]
<1>0. /\ q # Idle /\ q.pc = "setIndex" /\ index' = [index EXCEPT ![q.new] = q.id] /\ Saved(r)
      /\ UNCHANGED <<chal, sess, opened, issued, begun, faults, redeemed, loggedOut, contended>>
  BY DEF SaveTokenIndex, At
<1>1. /\ q \in Request /\ RequestOK(q) /\ q.op \in Logins \union {"refresh"}
      /\ q.new \in Tokens /\ q.new \in 1..issued /\ q.new \notin known /\ q.new # Absent
      /\ q.id \in 1..opened \union {Blank} /\ q.id \in Ids \union {Blank}
      /\ q.user \in Users /\ (Fresh(q) \/ Holding(q))
      /\ q.id \in Ids \ contended => \A t \in Tokens : index[t] # q.id
      /\ \A x \in Request : Other(r, x) => x.new # q.new /\ (Guarded(x) => x.id # q.id)
  BY <1>0, SaverAlone
<1>2. /\ index' \in [Tokens -> 1..opened \union {Blank, Absent}] /\ index'[q.new] = q.id
      /\ \A t \in Tokens \ {q.new} : index'[t] = index[t]
  BY <1>0, <1>1 DEF SessionsInv, TypeOK
<1>3. /\ known \subseteq Tokens /\ \A x \in retired : x[1] \in known
      /\ (q.tok \in Tokens => q.op = "refresh" /\ q.tok \in known)
  <2>1. known \subseteq Tokens
    BY SessionsAssumption DEF SessionsInv, TypeOK, Tokens
  <2>2. \A x \in retired : x[1] \in known
    BY DEF SessionsInv, TypeOK
  <2>3. q.tok \in Tokens => q.op = "refresh" /\ q.tok \in known
    BY <1>1, SessionsAssumption DEF RequestOK, OrderOK
  <2> QED
    BY <2>1, <2>2, <2>3
<1>4. OneToken'
  <2> SUFFICES ASSUME NEW i \in Ids \ contended', NEW t \in Tokens, sess'[i] # Absent, index'[t] = i
               PROVE  sess'[i].token = t
    BY DEF OneToken
  <2>1. CASE t # q.new
    BY <1>0, <1>2, <2>1 DEF SessionsInv, StoreOK, OneToken
  <2>2. CASE t = q.new
    <3>1. q.id = i /\ i \notin contended /\ sess[i] # Absent
      BY <1>0, <1>2, <2>2
    <3>2. sess[i].token = q.new
      BY <1>0, <1>1, <3>1 DEF RequestOK, FreshOK, RefreshOK
    <3> QED
      BY <1>0, <2>2, <3>2
  <2> QED
    BY <2>1, <2>2
<1>5. ASSUME NEW x \in Request, Other(r, x), known' = known \/ known' = known \union {q.new}
      PROVE  Undisturbed(x)
  <2>1. RequestOK(x) /\ (Guarded(x)' <=> Guarded(x))
    BY <1>0, <1>5, OthersOK DEF Guarded, Fresh, Holding
  <2>2. x.new # Absent => x.new \notin known'
    BY <1>1, <1>5, <2>1 DEF RequestOK, TokenOK
  <2>3. \A t \in Tokens : \/ index'[t] = index[t]
                          \/ t \notin known /\ t # x.new /\ (Guarded(x)' => index'[t] # x.id)
    BY <1>1, <1>2, <1>5, <2>1
  <2> QED
    BY <1>0, <1>5, <2>2, <2>3 DEF Undisturbed, SameToken
<1>6. Unredeemed'
  BY <1>0 DEF SessionsInv, StoreOK, Unredeemed
<1>7. \A x \in retired : x[2] \in contended' \/ index'[x[1]] = Absent
  BY <1>0, <1>1, <1>2, <1>3 DEF SessionsInv, StoreOK, OldTokenIsDead
<1>8. CASE q.op = "nip07"
  <2>1. req' = [req EXCEPT ![r].pc = "delChal"] /\ UNCHANGED <<known, retired>>
    BY <1>0, <1>8 DEF Saved, Goto
  <2>2. [q EXCEPT !.pc = "delChal"] \in Request
    BY <1>1 DEF Request
  <2>3. PICK p \in Request :
        /\ req' = [req EXCEPT ![r] = p] /\ p.pc = "delChal" /\ p.op = q.op /\ p.id = q.id
        /\ p.new = q.new /\ p.tok = q.tok /\ p.user = q.user /\ p.chal = q.chal
    <3>1. PICK p \in Request : p = [q EXCEPT !.pc = "delChal"]
      BY <2>2
    <3>2. req' = [req EXCEPT ![r] = p]
      BY <2>1, <3>1 DEF SessionsInv, TypeOK
    <3>3. /\ p.pc = "delChal" /\ p.op = q.op /\ p.id = q.id
          /\ p.new = q.new /\ p.tok = q.tok /\ p.user = q.user /\ p.chal = q.chal
      BY <1>1, <3>1 DEF Request
    <3> QED
      BY <3>2, <3>3
  <2> HIDE DEF q
  <2>4. TypeOK'
    <3>1. req' \in [Requests -> Request \union {Idle}]
      BY <2>3 DEF SessionsInv, TypeOK
    <3>2. \A t \in Tokens : index'[t] # Absent => t \in 1..issued
      BY <1>1, <1>2 DEF SessionsInv, TypeOK
    <3> QED
      BY <1>0, <1>2, <2>1, <3>1, <3>2 DEF SessionsInv, TypeOK
  <2>5. StoreOK'
    BY <1>4, <1>6, <1>7, <2>1 DEF StoreOK, OldTokenIsDead
  <2>6. RequestOK(p)'
    <3>1. OrderOK(p)'
      BY <1>0, <1>1, <1>8, <2>1, <2>3 DEF RequestOK, OrderOK, Logins
    <3>2. TokenOK(p)' /\ FreshOK(p)' /\ RefreshOK(p)'
      BY <1>0, <1>1, <1>8, <2>1, <2>3 DEF TokenOK, FreshOK, Fresh, RefreshOK, Holding
    <3>3. FitOK(p)'
      BY <1>3, <1>8, <2>3 DEF FitOK
    <3> QED
      BY <3>1, <3>2, <3>3 DEF RequestOK
  <2>7. ASSUME NEW x \in Request, Other(r, x) PROVE ApartOK(p, x)'
    <3>1. ApartOK(q, x)
      BY <1>0, <2>7, OthersOK DEF q
    <3> QED
      BY <1>0, <1>8, <2>3, <3>1 DEF ApartOK, Fresh, Holding, Logins
  <2>8. \A x \in Request : Other(r, x) => Undisturbed(x)
    BY <1>5, <2>1
  <2> QED
    BY <2>3, <2>4, <2>5, <2>6, <2>7, <2>8, StepKeeps
<1>9. CASE q.op # "nip07"
  <2>1. /\ req' = [req EXCEPT ![r] = Idle] /\ known' = known \union {q.new}
        /\ IF q.op = "refresh"
           THEN retired' = retired \union (IF q.tok \in Tokens /\ q.id # Blank THEN {<<q.tok, q.id>>} ELSE {})
           ELSE retired' = retired
    BY <1>0, <1>9 DEF Saved, Issue, Reply
  <2> HIDE DEF q
  <2>2. q.tok \in Tokens /\ q.op = "refresh" /\ q.id # Blank => q.tok \in known /\ q.id \in 1..opened
    BY <1>1, <1>3
  <2>3. TypeOK'
    <3>1. req' \in [Requests -> Request \union {Idle}]
      BY <2>1 DEF SessionsInv, TypeOK
    <3>2. \A t \in Tokens : index'[t] # Absent => t \in 1..issued
      BY <1>1, <1>2 DEF SessionsInv, TypeOK
    <3>3. known' \subseteq 1..issued
      BY <1>1, <2>1 DEF SessionsInv, TypeOK
    <3>4. retired' \subseteq known' \X (1..opened)
      <4>1. retired \subseteq known' \X (1..opened)
        BY <2>1 DEF SessionsInv, TypeOK
      <4>2. q.tok \in Tokens /\ q.op = "refresh" /\ q.id # Blank => <<q.tok, q.id>> \in known' \X (1..opened)
        BY <2>1, <2>2
      <4> QED
        BY <2>1, <4>1, <4>2
    <3>5. loggedOut \subseteq known'
      BY <2>1 DEF SessionsInv, TypeOK
    <3> QED
      BY <1>0, <1>2, <3>1, <3>2, <3>3, <3>4, <3>5 DEF SessionsInv, TypeOK
  <2>4. OldTokenIsDead'
    <3>1. q.tok \in Tokens /\ q.op = "refresh" /\ q.id # Blank =>
            q.id \in contended \/ index'[q.tok] = Absent
      <4> SUFFICES ASSUME q.tok \in Tokens, q.op = "refresh", q.id # Blank, q.id \notin contended
                   PROVE  index'[q.tok] = Absent
        OBVIOUS
      <4>1. index[q.tok] # q.id /\ q.tok # q.new /\ q.id # Absent
        BY <1>1, <1>3, SessionsAssumption
      <4> QED
        BY <1>1, <1>2, <4>1 DEF RequestOK, FitOK
    <3>2. \A x \in retired' : \/ x \in retired
                              \/ /\ x[1] = q.tok /\ x[2] = q.id
                                 /\ q.tok \in Tokens /\ q.op = "refresh" /\ q.id # Blank
      BY <2>1
    <3> QED
      BY <1>0, <1>7, <3>1, <3>2 DEF OldTokenIsDead
  <2>5. StoreOK'
    BY <1>4, <1>6, <2>4 DEF StoreOK
  <2>6. \A x \in Request : Other(r, x) => Undisturbed(x)
    BY <1>5, <2>1
  <2>7. PICK p \in Request \union {Idle} : p = Idle /\ req' = [req EXCEPT ![r] = p]
    BY <2>1
  <2> QED
    BY <2>3, <2>5, <2>6, <2>7, StepKeeps
<1> QED
  BY <1>8, <1>9

(* DEL of a session whose token could not be entered. *)
LEMMA UndoKeeps ==
  ASSUME SessionsInv, NEW r \in Requests, UndoSave(r)
  PROVE  SessionsInv'
<1> DEFINE q == req[r]
<1>0. /\ q # Idle /\ q.pc = "undo" /\ sess' = [sess EXCEPT ![q.id] = Absent]
      /\ req' = [req EXCEPT ![r] = Idle]
      /\ UNCHANGED <<chal, index, opened, issued, begun, faults,
                     known, redeemed, loggedOut, contended, retired>>
  BY DEF UndoSave, At, Reply, ghosts
<1>1. /\ q.id \in Ids \union {Blank}
      /\ \A x \in Request : Other(r, x) => x.new # q.new /\ (Guarded(x) => x.id # q.id)
  BY <1>0, SaverAlone
<1> HIDE DEF q
<1>2. /\ sess' \in [Ids \union {Blank} -> Session \union {Absent}] /\ sess'[q.id] = Absent
      /\ \A i \in (Ids \union {Blank}) \ {q.id} : sess'[i] = sess[i]
  BY <1>0, <1>1 DEF SessionsInv, TypeOK
<1>3. TypeOK'
  <2>1. req' \in [Requests -> Request \union {Idle}]
    BY <1>0 DEF SessionsInv, TypeOK
  <2> QED
    BY <1>0, <1>2, <2>1 DEF SessionsInv, TypeOK
<1>4. StoreOK'
  <2>1. OneToken'
    BY <1>0, <1>2 DEF SessionsInv, StoreOK, OneToken
  <2> QED
    BY <1>0, <2>1 DEF SessionsInv, StoreOK, Unredeemed, OldTokenIsDead
<1>5. ASSUME NEW x \in Request, Other(r, x) PROVE Undisturbed(x)
  <2>1. RequestOK(x) /\ (Guarded(x)' <=> Guarded(x))
    BY <1>0, <1>5, OthersOK DEF Guarded, Fresh, Holding
  <2>2. Guarded(x) => x.id \in Ids
    BY <2>1, SessionsAssumption DEF Guarded, Fresh, RequestOK, OrderOK, SessionsInv, TypeOK, Ids
  <2>3. Guarded(x)' => SameToken(x.id)
    BY <1>1, <1>2, <1>5, <2>1, <2>2 DEF SameToken
  <2> QED
    BY <1>0, <2>1, <2>3 DEF Undisturbed, RequestOK, TokenOK
<1>6. PICK p \in Request \union {Idle} : p = Idle /\ req' = [req EXCEPT ![r] = p]
  BY <1>0
<1> QED
  BY <1>3, <1>4, <1>5, <1>6, StepKeeps

(* DEL of the challenge, and the answer. *)
LEMMA DeleteChallengeKeeps ==
  ASSUME SessionsInv, NEW r \in Requests, DeleteNIP46Challenge(r)
  PROVE  SessionsInv'
<1> DEFINE q == req[r]
<1>0. /\ q # Idle /\ q.pc = "delChal" /\ chal' = [chal EXCEPT ![q.chal] = Absent]
      /\ req' = [req EXCEPT ![r] = Idle] /\ known' = known \union {q.new}
      /\ UNCHANGED <<sess, index, opened, issued, begun, faults,
                     redeemed, loggedOut, contended, retired>>
  BY DEF DeleteNIP46Challenge, At, Issue, Reply
<1>1. q \in Request /\ RequestOK(q)
  BY <1>0 DEF SessionsInv, TypeOK, RequestsOK
<1>2. q.new # Absent /\ q.chal \in Challenges
  BY <1>0, <1>1 DEF RequestOK, OrderOK
<1>3. q.new \in 1..issued
  BY <1>1, <1>2 DEF RequestOK, TokenOK
<1>4. TypeOK' /\ Unredeemed'
  <2>1. chal' \in [Challenges -> Kinds \union {Absent, Idle}] /\ req' \in [Requests -> Request \union {Idle}]
    BY <1>0 DEF SessionsInv, TypeOK
  <2>2. known' \subseteq 1..issued /\ retired' \subseteq known' \X (1..opened)
    BY <1>0, <1>3 DEF SessionsInv, TypeOK
  <2>3. Unredeemed'
    BY <1>0, <1>2 DEF SessionsInv, StoreOK, TypeOK, Unredeemed
  <2> QED
    BY <1>0, <2>1, <2>2, <2>3 DEF SessionsInv, TypeOK
<1>5. Wanes
  BY <1>0 DEF Wanes
<1> QED
  BY <1>0, <1>2, <1>4, <1>5, EndKeeps

-----------------------------------------------------------------------------
(* A request arrives with a token. *)
LEMMA PresentKeeps ==
  ASSUME SessionsInv, NEW r \in Requests, NEW op \in {"get", "refresh"},
         NEW t \in Tokens \union SignerTokens, Present(r, op, t)
  PROVE  SessionsInv'
<1> DEFINE new == [op |-> op, pc |-> IF t \in Tokens THEN "index" ELSE "signer",
                   chal |-> Absent, tok |-> t, id |-> Absent, user |-> Absent,
                   new |-> Absent, found |-> Absent]
<1>0. /\ req' = [req EXCEPT ![r] = new] /\ begun' \in 0..MaxRequests /\ t \in known \union SignerTokens
      /\ UNCHANGED <<chal, sess, index, opened, issued, faults,
                     known, redeemed, loggedOut, contended, retired>>
  BY SessionsAssumption DEF Present, store, ghosts, SessionsInv, TypeOK
<1>1. new \in Request
  BY DEF Request
<1>2. PICK p \in Request :
        /\ req' = [req EXCEPT ![r] = p] /\ p.op = op /\ p.tok = t /\ p.id = Absent /\ p.new = Absent
        /\ p.pc = IF t \in Tokens THEN "index" ELSE "signer"
  BY <1>0, <1>1
<1>3. TypeOK' /\ Unredeemed'
  <2>1. req' \in [Requests -> Request \union {Idle}]
    BY <1>2 DEF SessionsInv, TypeOK
  <2> QED
    BY <1>0, <2>1 DEF SessionsInv, TypeOK, StoreOK, Unredeemed
<1>4. Wanes
  BY <1>0 DEF Wanes
<1>5. StoreOK'
  BY <1>3, <1>4, WaningStore DEF StoreOK
<1>6. \A q \in Request : Other(r, q) => Undisturbed(q)
  BY <1>0, <1>4, WaningLeaves
<1>7. RequestOK(p)'
  <2>1. OrderOK(p)'
    BY <1>0, <1>2 DEF OrderOK, Logins
  <2>2. Absent \notin Ids
    BY SessionsAssumption
  <2> QED
    BY <1>0, <1>2, <2>1, <2>2
       DEF RequestOK, TokenOK, FreshOK, Fresh, FitOK, RefreshOK, Logins
<1>8. ASSUME NEW q \in Request, Other(r, q) PROVE ApartOK(p, q)'
  <2>1. Fresh(q) => q.id \in 1..opened
    BY <1>8, OthersOK DEF RequestOK, OrderOK, Fresh
  <2>2. 1..opened \subseteq Ids
    BY SessionsAssumption DEF SessionsInv, TypeOK, Ids
  <2>3. Fresh(q) => q.id # Absent
    BY <2>1, <2>2, SessionsAssumption
  <2> QED
    BY <1>2, <2>3, SessionsAssumption DEF ApartOK, Fresh, Logins
<1> QED
  BY <1>2, <1>3, <1>5, <1>6, <1>7, <1>8, StepKeeps

(* GET session:token:<token>. *)
LEMMA LookUpKeeps ==
  ASSUME SessionsInv, NEW r \in Requests, LookUpToken(r)
  PROVE  SessionsInv'
<1> DEFINE q == req[r]
           i == index[q.tok]
<1>0. /\ q # Idle /\ q.pc = "index"
      /\ UNCHANGED <<chal, sess, index, opened, issued, begun, faults,
                     known, redeemed, loggedOut, contended, retired>>
  BY DEF LookUpToken, At, store, ghosts
<1>1. q \in Request /\ RequestOK(q) /\ Wanes
  BY <1>0 DEF SessionsInv, TypeOK, RequestsOK, Wanes
<1>2. q.tok \in Tokens /\ q.op \in {"get", "refresh"} /\ q.new = Absent
  BY <1>0, <1>1 DEF RequestOK, OrderOK, Logins, Request
<1>3. ASSUME req' \in [Requests -> Request \union {Idle}] PROVE TypeOK' /\ Unredeemed'
  BY <1>0, <1>3 DEF SessionsInv, TypeOK, StoreOK, Unredeemed
<1>4. CASE i = Absent
  <2>1. req' = [req EXCEPT ![r] = Idle]
    BY <1>4 DEF LookUpToken, Reply
  <2>2. TypeOK' /\ Unredeemed'
    BY <1>3, <2>1 DEF SessionsInv, TypeOK
  <2> QED
    BY <1>0, <1>1, <2>1, <2>2, EndKeeps
<1>5. CASE i # Absent
  <2>0. i \in 1..opened \union {Blank} /\ i \in Ids \union {Blank}
    BY <1>2, <1>5, SessionsAssumption DEF SessionsInv, TypeOK, Ids
  <2>1. req' = [req EXCEPT ![r].pc = "load", ![r].id = i]
    BY <1>5 DEF LookUpToken
  <2> HIDE DEF i
  <2>2. [q EXCEPT !.pc = "load", !.id = i] \in Request
    BY <1>1, <2>0 DEF Request
  <2>3. PICK p \in Request :
          /\ req' = [req EXCEPT ![r] = p] /\ p.op = q.op /\ p.tok = q.tok /\ p.id = i
          /\ p.new = q.new /\ p.pc = "load"
    <3>1. PICK p \in Request : p = [q EXCEPT !.pc = "load", !.id = i]
      BY <2>2
    <3>2. req' = [req EXCEPT ![r] = p]
      BY <2>1, <3>1 DEF SessionsInv, TypeOK
    <3>3. p.op = q.op /\ p.tok = q.tok /\ p.id = i /\ p.new = q.new /\ p.pc = "load"
      BY <1>1, <3>1 DEF Request
    <3> QED
      BY <3>2, <3>3
  <2> HIDE DEF q
  <2>4. TypeOK' /\ Unredeemed'
    BY <1>3, <2>3 DEF SessionsInv, TypeOK
  <2>5. StoreOK'
    BY <1>1, <2>4, WaningStore DEF StoreOK
  <2>6. \A x \in Request : Other(r, x) => Undisturbed(x)
    BY <1>0, <1>1, WaningLeaves
  <2>7. RequestOK(p)'
    <3>1. OrderOK(p)'
      BY <1>0, <1>1, <1>2, <2>0, <2>3 DEF RequestOK, OrderOK, Logins
    <3>2. FitOK(p)'
      BY <1>0, <2>3 DEF FitOK, i
    <3> QED
      BY <1>2, <2>3, <3>1, <3>2
         DEF RequestOK, TokenOK, FreshOK, Fresh, RefreshOK, Holding, Logins
  <2>8. ASSUME NEW x \in Request, Other(r, x) PROVE ApartOK(p, x)'
    <3>1. Fresh(x) => x.id # i
      BY <1>2, <2>8, OthersOK DEF RequestOK, FreshOK, i
    <3> QED
      BY <1>2, <2>3, <3>1 DEF ApartOK, Fresh, Holding, Logins
  <2> QED
    BY <2>3, <2>4, <2>5, <2>6, <2>7, <2>8, StepKeeps
<1> QED
  BY <1>4, <1>5

(* Goto changes the place and nothing else of a request. *)
LEMMA GotoMoves ==
  ASSUME SessionsInv, NEW r \in Requests, req[r] # Idle,
         NEW pc \in {"setId", "setIndex", "undo", "delIndex", "find"}, Goto(r, pc)
  PROVE  \E p \in Request :
           /\ req' = [req EXCEPT ![r] = p] /\ p.pc = pc /\ p.op = req[r].op /\ p.id = req[r].id
           /\ p.new = req[r].new /\ p.tok = req[r].tok /\ p.user = req[r].user
           /\ p.chal = req[r].chal /\ p.found = req[r].found
<1>1. req \in [Requests -> Request \union {Idle}] /\ req[r] \in Request
  BY DEF SessionsInv, TypeOK
<1>2. [req[r] EXCEPT !.pc = pc] \in Request
  BY <1>1 DEF Request
<1>3. PICK p \in Request : p = [req[r] EXCEPT !.pc = pc]
  BY <1>2
<1>4. req' = [req EXCEPT ![r] = p]
  BY <1>1, <1>3 DEF Goto
<1>5. /\ p.pc = pc /\ p.op = req[r].op /\ p.id = req[r].id
      /\ p.new = req[r].new /\ p.tok = req[r].tok /\ p.user = req[r].user
      /\ p.chal = req[r].chal /\ p.found = req[r].found
  BY <1>1, <1>3 DEF Request
<1> QED
  BY <1>4, <1>5

(* A request is still one when it has got its session, and its new token. *)
LEMMA AdmittedIsRequest ==
  ASSUME NEW q \in Request, NEW i \in Ids \union {Blank}, NEW u \in Users
  PROVE  \A n \in Tokens : [q EXCEPT !.pc = "find", !.id = i, !.user = u, !.new = n] \in Request
<1>1. i \in Ids \union {Blank, Absent} /\ u \in Users \union {Absent}
  OBVIOUS
<1>2. ASSUME NEW n \in Tokens
      PROVE  [q EXCEPT !.pc = "find", !.id = i, !.user = u, !.new = n] \in Request
  BY <1>1 DEF Request
<1> QED
  BY <1>2

(* A session found good, or a token the signer vouches for. *)
LEMMA AcceptedKeeps ==
  ASSUME SessionsInv, NEW r \in Requests, req[r] # Idle, req[r].pc \in {"load", "signer"},
         req[r].op \in {"get", "refresh"}, req[r].new = Absent,
         req[r].tok \in known \union SignerTokens,
         NEW i \in Ids \union {Blank}, i \in 1..opened \union {Blank},
         i \in Ids => sess[i] # Absent,
         req[r].tok \in Tokens => index[req[r].tok] \in {i, Absent},
         \A x \in Request : Other(r, x) /\ Fresh(x) => x.id # i,
         NEW u \in Users, Accepted(r, i, u),
         UNCHANGED <<chal, sess, index, opened, begun, faults, known, redeemed, loggedOut, retired>>
  PROVE  SessionsInv'
<1> DEFINE q == req[r]
<1>0. q \in Request /\ req \in [Requests -> Request \union {Idle}] /\ i # Absent
  BY SessionsAssumption DEF SessionsInv, TypeOK
<1>1. Unredeemed'
  BY DEF SessionsInv, StoreOK, Unredeemed
<1>2. CASE q.op = "get"
  <2>1. req' = [req EXCEPT ![r] = Idle] /\ UNCHANGED <<issued, contended>>
    BY <1>2 DEF Accepted, Reply
  <2>2. TypeOK' /\ Wanes
    BY <2>1 DEF SessionsInv, TypeOK, Wanes
  <2> QED
    BY <1>1, <2>1, <2>2, EndKeeps
<1>3. CASE q.op = "refresh"
  <2> DEFINE n == issued + 1
  <2>1. /\ req' = [req EXCEPT ![r].pc = "find", ![r].id = i, ![r].user = u, ![r].new = n]
        /\ Contend(i, r)
    BY <1>3 DEF Accepted
  <2>2. /\ n \in Tokens /\ n \notin 1..issued /\ n \in 1..issued' /\ issued' \in 0..MaxTokens
        /\ 1..issued \subseteq 1..issued'
    BY <1>3, SessionsAssumption DEF Accepted, SessionsInv, TypeOK, Tokens
  <2> HIDE DEF n
  <2>3. [q EXCEPT !.pc = "find", !.id = i, !.user = u, !.new = n] \in Request
    BY <1>0, <2>2, AdmittedIsRequest
  <2>4. PICK p \in Request :
          /\ req' = [req EXCEPT ![r] = p] /\ p.op = "refresh" /\ p.tok = q.tok /\ p.id = i
          /\ p.new = n /\ p.pc = "find" /\ p.user = u
    <3>1. PICK p \in Request : p = [q EXCEPT !.pc = "find", !.id = i, !.user = u, !.new = n]
      BY <2>3
    <3>2. req' = [req EXCEPT ![r] = p]
      BY <1>0, <2>1, <3>1
    <3>3. p.op = q.op /\ p.tok = q.tok /\ p.id = i /\ p.new = n /\ p.pc = "find" /\ p.user = u
      BY <1>0, <3>1 DEF Request
    <3> QED
      BY <1>3, <3>2, <3>3
  <2>5. contended \subseteq contended' /\ contended' \subseteq Ids \union {Blank}
    BY <2>1 DEF Contend, SessionsInv, TypeOK
  <2> HIDE DEF q
  <2>6. TypeOK' /\ Wanes
    <3>1. req' \in [Requests -> Request \union {Idle}]
      BY <1>0, <2>4
    <3>2. known' \subseteq 1..issued' /\ \A t \in Tokens : index'[t] # Absent => t \in 1..issued'
      BY <2>2 DEF SessionsInv, TypeOK
    <3> QED
      BY <2>2, <2>5, <3>1, <3>2 DEF SessionsInv, TypeOK, Wanes
  <2>7. StoreOK'
    BY <1>1, <2>6, WaningStore DEF StoreOK
  <2>8. \A x \in Request : Other(r, x) => Undisturbed(x)
    BY <2>6, WaningLeaves
  <2>9. RequestOK(p)'
    <3>0. n # Absent /\ n \notin known /\ index[n] = Absent
      BY <2>2, SessionsAssumption DEF SessionsInv, TypeOK
    <3>1. OrderOK(p)'
      BY <2>4, <3>0 DEF OrderOK, Logins, q
    <3>2. FitOK(p)' /\ TokenOK(p)'
      BY <2>2, <2>4, <3>0 DEF FitOK, TokenOK, q
    <3>3. RefreshOK(p)'
      BY <1>0, <2>4 DEF RefreshOK
    <3> QED
      BY <2>4, <3>1, <3>2, <3>3 DEF RequestOK, FreshOK, Fresh, Logins
  <2>10. ASSUME NEW x \in Request, Other(r, x) PROVE ApartOK(p, x)'
    <3>0. PICK s \in Requests \ {r} : req[s] # Idle /\ req[s] = x
      BY <2>10 DEF Other
    <3>1. RequestOK(x)
      BY <2>10, OthersOK
    <3>2. x.new # n
      BY <2>2, <3>1, SessionsAssumption DEF RequestOK, TokenOK
    <3>3. Holding(x) /\ x.id = i => i \in contended'
      <4> SUFFICES ASSUME Holding(x), x.id = i PROVE i \in contended'
        OBVIOUS
      <4>1. s \in InHand(i)
        BY <3>0 DEF InHand, Holding
      <4> QED
        BY <2>1, <3>0, <4>1 DEF Contend
    <3> QED
      BY <2>4, <2>10, <3>2, <3>3 DEF ApartOK, Fresh, Holding, Logins
  <2> QED
    BY <2>4, <2>6, <2>7, <2>8, <2>9, <2>10, StepKeeps
<1> QED
  BY <1>2, <1>3

(* GET session:<id>, and the checks on it. *)
LEMMA ValidateKeeps ==
  ASSUME SessionsInv, NEW r \in Requests, ValidateSession(r)
  PROVE  SessionsInv'
<1> DEFINE q == req[r]
           i == q.id
<1>0. /\ q # Idle /\ q.pc = "load"
      /\ UNCHANGED <<chal, sess, index, opened, begun, faults, known, redeemed, loggedOut, retired>>
  BY DEF ValidateSession, At, store
<1>1. q \in Request /\ RequestOK(q) /\ req \in [Requests -> Request \union {Idle}]
  BY <1>0 DEF SessionsInv, TypeOK, RequestsOK
<1>2. /\ q.op \in {"get", "refresh"} /\ q.new = Absent /\ i \in 1..opened \union {Blank}
      /\ q.tok \in known \union SignerTokens
  BY <1>0, <1>1 DEF RequestOK, OrderOK, Logins, Request
<1>3. i \in Ids \union {Blank} /\ i # Absent
  <2>1. 1..opened \subseteq Ids
    BY SessionsAssumption DEF SessionsInv, TypeOK, Ids
  <2> QED
    BY <1>2, <2>1, SessionsAssumption
<1>4. Unredeemed'
  BY <1>0 DEF SessionsInv, StoreOK, Unredeemed
<1>5. CASE sess[i] = Absent
  <2>1. req' = [req EXCEPT ![r] = Idle] /\ UNCHANGED <<issued, contended>>
    BY <1>5 DEF ValidateSession, Reply
  <2>2. TypeOK' /\ Wanes
    BY <1>0, <2>1 DEF SessionsInv, TypeOK, Wanes
  <2> QED
    BY <1>0, <1>4, <2>1, <2>2, EndKeeps
<1>6. CASE sess[i] # Absent /\ sess[i].lapsed
  <2>1. /\ req' = [req EXCEPT ![r].op = "expired", ![r].pc = "find"]
        /\ UNCHANGED <<issued, contended>>
    BY <1>6 DEF ValidateSession
  <2>2. [q EXCEPT !.op = "expired", !.pc = "find"] \in Request
    BY <1>1 DEF Request
  <2>3. PICK p \in Request :
          /\ req' = [req EXCEPT ![r] = p] /\ p.op = "expired" /\ p.tok = q.tok /\ p.id = q.id
          /\ p.new = q.new /\ p.pc = "find"
    <3>1. PICK p \in Request : p = [q EXCEPT !.op = "expired", !.pc = "find"]
      BY <2>2
    <3>2. req' = [req EXCEPT ![r] = p]
      BY <1>1, <2>1, <3>1
    <3>3. p.op = "expired" /\ p.tok = q.tok /\ p.id = q.id /\ p.new = q.new /\ p.pc = "find"
      BY <1>1, <3>1 DEF Request
    <3> QED
      BY <3>2, <3>3
  <2>4. TypeOK' /\ Wanes
    <3>1. req' \in [Requests -> Request \union {Idle}]
      BY <1>1, <2>3
    <3> QED
      BY <1>0, <2>1, <3>1 DEF SessionsInv, TypeOK, Wanes
  <2>5. RequestOK(p)'
    <3>1. OrderOK(p)'
      BY <1>0, <1>2, <2>3 DEF OrderOK, Logins
    <3>2. FitOK(p)'
      BY <1>0, <1>1, <2>3 DEF RequestOK, FitOK
    <3> QED
      BY <1>2, <2>3, <3>1, <3>2
         DEF RequestOK, TokenOK, FreshOK, Fresh, RefreshOK, Holding, Logins
  <2> QED
    BY <1>0, <1>2, <1>4, <2>3, <2>4, <2>5, MoveKeeps
<1>7. CASE sess[i] # Absent /\ ~sess[i].lapsed
  <2>1. PICK u \in Users : u = sess[i].user /\ Accepted(r, i, u)
    <3>1. Accepted(r, i, sess[i].user)
      BY <1>7 DEF ValidateSession
    <3>2. sess[i] \in Session
      BY <1>3, <1>7 DEF SessionsInv, TypeOK
    <3> QED
      BY <3>1, <3>2 DEF Session
  <2>2. q.tok \in Tokens => index[q.tok] \in {i, Absent}
    BY <1>1, <1>3 DEF RequestOK, FitOK
  <2>3. ASSUME NEW x \in Request, Other(r, x), Fresh(x) PROVE x.id # i
    BY <1>0, <2>3, OthersOK DEF ApartOK
  <2>4. PICK j \in Ids \union {Blank} : j = i
    BY <1>3
  <2> QED
    BY <1>0, <1>2, <1>7, <2>1, <2>2, <2>3, <2>4, AcceptedKeeps
<1> QED
  BY <1>5, <1>6, <1>7

(* The signer's answer. *)
LEMMA SignerKeeps ==
  ASSUME SessionsInv, NEW r \in Requests, validateSignerSession(r)
  PROVE  SessionsInv'
<1> DEFINE q == req[r]
<1>0. /\ q # Idle /\ q.pc = "signer"
      /\ UNCHANGED <<chal, sess, index, opened, begun, faults, known, redeemed, loggedOut, retired>>
  BY DEF validateSignerSession, At, store
<1>1. q \in Request /\ RequestOK(q) /\ req \in [Requests -> Request \union {Idle}]
  BY <1>0 DEF SessionsInv, TypeOK, RequestsOK
<1>2. /\ q.op \in {"get", "refresh"} /\ q.new = Absent /\ q.tok \notin Tokens
      /\ q.tok \in known \union SignerTokens
  BY <1>0, <1>1 DEF RequestOK, OrderOK, Logins, Request
<1>3. CASE Reply(r) /\ UNCHANGED <<issued, contended>>
  <2>1. req' = [req EXCEPT ![r] = Idle]
    BY <1>3 DEF Reply
  <2>2. TypeOK' /\ Wanes /\ Unredeemed'
    BY <1>0, <1>3, <2>1 DEF SessionsInv, TypeOK, Wanes, StoreOK, Unredeemed
  <2> QED
    BY <1>0, <2>1, <2>2, EndKeeps
<1>4. CASE Accepted(r, Blank, SignerUser)
  <2>1. PICK j \in Ids \union {Blank}, u \in Users : j = Blank /\ u = SignerUser
    BY SessionsAssumption
  <2>2. ASSUME NEW x \in Request, Other(r, x), Fresh(x) PROVE x.id # j
    <3>1. x.id \in 1..opened
      BY <2>2, OthersOK DEF RequestOK, OrderOK, Fresh
    <3>2. 1..opened \subseteq Ids
      BY SessionsAssumption DEF SessionsInv, TypeOK, Ids
    <3> QED
      BY <2>1, <3>1, <3>2, SessionsAssumption
  <2>3. j \notin Ids /\ Accepted(r, j, u) /\ j \in 1..opened \union {Blank}
    BY <1>4, <2>1, SessionsAssumption
  <2> QED
    BY <1>0, <1>2, <2>2, <2>3, AcceptedKeeps
<1> QED
  BY <1>3, <1>4 DEF validateSignerSession

-----------------------------------------------------------------------------
(* The steps of DeleteSession: who takes them, and what for. *)
LEMMA Deleter ==
  ASSUME SessionsInv, NEW r \in Requests, req[r] # Idle, req[r].pc \in {"find", "delId", "delIndex"}
  PROVE  /\ req[r] \in Request /\ RequestOK(req[r])
         /\ req[r].op \in {"refresh", "expired"}
         /\ req[r].op # "refresh" => req[r].new = Absent
         /\ req[r].id \in 1..opened \union {Blank} /\ req[r].id \in Ids \union {Blank}
<1>1. req[r] \in Request /\ RequestOK(req[r]) /\ 1..opened \subseteq Ids
  BY SessionsAssumption DEF SessionsInv, TypeOK, RequestsOK, Ids
<1> QED
  BY <1>1 DEF RequestOK, OrderOK, Logins, Request

(* GET session:<id> for the token. *)
LEMMA FindKeeps ==
  ASSUME SessionsInv, NEW r \in Requests, FindSession(r)
  PROVE  SessionsInv'
<1> DEFINE q == req[r]
           f == IF sess[q.id] = Absent THEN Absent ELSE sess[q.id].token
<1>0. /\ q # Idle /\ q.pc = "find" /\ req' = [req EXCEPT ![r].pc = "delId", ![r].found = f]
      /\ UNCHANGED <<chal, sess, index, opened, issued, begun, faults,
                     known, redeemed, loggedOut, contended, retired>>
  BY DEF FindSession, At, store, ghosts
<1>1. /\ q \in Request /\ RequestOK(q) /\ req \in [Requests -> Request \union {Idle}]
      /\ q.op \in {"refresh", "expired"} /\ (q.op # "refresh" => q.new = Absent)
      /\ q.id \in 1..opened \union {Blank} /\ q.id \in Ids \union {Blank}
  BY <1>0, Deleter DEF SessionsInv, TypeOK
<1>2. f \in Tokens \union {Absent}
  BY <1>1 DEF SessionsInv, TypeOK, Session
<1>3. sess[q.id] # Absent => f = sess[q.id].token
  OBVIOUS
<1> HIDE DEF f
<1>4. [q EXCEPT !.pc = "delId", !.found = f] \in Request
  BY <1>1, <1>2 DEF Request
<1>5. PICK p \in Request :
        /\ req' = [req EXCEPT ![r] = p] /\ p.pc = "delId" /\ p.op = q.op /\ p.id = q.id
        /\ p.new = q.new /\ p.tok = q.tok /\ p.user = q.user /\ p.chal = q.chal /\ p.found = f
  <2>1. PICK p \in Request : p = [q EXCEPT !.pc = "delId", !.found = f]
    BY <1>4
  <2>2. req' = [req EXCEPT ![r] = p]
    BY <1>0, <1>1, <2>1
  <2>3. /\ p.pc = "delId" /\ p.op = q.op /\ p.id = q.id
        /\ p.new = q.new /\ p.tok = q.tok /\ p.user = q.user /\ p.chal = q.chal /\ p.found = f
    BY <1>1, <2>1 DEF Request
  <2> QED
    BY <2>2, <2>3
<1> HIDE DEF q
<1>6. TypeOK' /\ Wanes /\ Unredeemed'
  <2>1. req' \in [Requests -> Request \union {Idle}]
    BY <1>1, <1>5
  <2> QED
    BY <1>0, <2>1 DEF SessionsInv, TypeOK, Wanes, StoreOK, Unredeemed
<1>7. RequestOK(p)'
  <2>1. OrderOK(p)'
    BY <1>0, <1>1, <1>5 DEF RequestOK, OrderOK, Logins
  <2>2. FitOK(p)' /\ TokenOK(p)'
    BY <1>0, <1>1, <1>5 DEF RequestOK, FitOK, TokenOK
  <2>3. RefreshOK(p)'
    BY <1>0, <1>1, <1>3, <1>5 DEF RequestOK, RefreshOK, Holding
  <2> QED
    BY <1>1, <1>5, <2>1, <2>2, <2>3 DEF RequestOK, FreshOK, Fresh, Logins
<1> QED
  BY <1>0, <1>5, <1>6, <1>7, MoveKeeps DEF q

(* DEL session:<id>: only a refresh that is recorded as interfered with can have
   the same session in hand. *)
LEMMA DeleteSessionKeeps ==
  ASSUME SessionsInv, NEW r \in Requests, DeleteSessionById(r)
  PROVE  SessionsInv'
<1> DEFINE q == req[r]
           i == q.id
<1>0. /\ q # Idle /\ q.pc = "delId" /\ sess' = [sess EXCEPT ![i] = Absent] /\ Goto(r, "delIndex")
      /\ Contend(i, r)
      /\ UNCHANGED <<chal, index, opened, issued, begun, faults,
                     known, redeemed, loggedOut, retired>>
  BY DEF DeleteSessionById, At
<1>1. /\ q \in Request /\ RequestOK(q) /\ req \in [Requests -> Request \union {Idle}]
      /\ q.op \in {"refresh", "expired"} /\ (q.op # "refresh" => q.new = Absent)
      /\ i \in 1..opened \union {Blank} /\ i \in Ids \union {Blank}
  BY <1>0, Deleter DEF SessionsInv, TypeOK
<1>2. PICK p \in Request :
        /\ req' = [req EXCEPT ![r] = p] /\ p.pc = "delIndex" /\ p.op = q.op /\ p.id = i
        /\ p.new = q.new /\ p.tok = q.tok /\ p.user = q.user /\ p.chal = q.chal /\ p.found = q.found
  BY <1>0, GotoMoves
<1>3. /\ contended \subseteq contended' /\ contended' \subseteq Ids \union {Blank}
      /\ InHand(i) \subseteq {r} \/ i \in contended'
  BY <1>0, <1>1 DEF Contend, SessionsInv, TypeOK
<1>4. ASSUME NEW x \in Request, Other(r, x)
      PROVE  /\ RequestOK(x) /\ (Fresh(x) => x.id # i)
             /\ Holding(x) /\ x.id = i => InHand(i) # {} /\ i \in contended'
  <2>1. RequestOK(x) /\ ApartOK(q, x)
    BY <1>0, <1>4, OthersOK
  <2>2. PICK s \in Requests \ {r} : req[s] # Idle /\ req[s] = x
    BY <1>4 DEF Other
  <2>3. Holding(x) /\ x.id = i => s \in InHand(i)
    BY <2>2 DEF InHand, Holding
  <2> QED
    BY <1>3, <2>1, <2>2, <2>3 DEF ApartOK
<1> HIDE DEF q, i
<1>5. /\ sess' \in [Ids \union {Blank} -> Session \union {Absent}] /\ sess'[i] = Absent
      /\ \A j \in (Ids \union {Blank}) \ {i} : sess'[j] = sess[j]
  BY <1>0, <1>1 DEF SessionsInv, TypeOK
<1>6. TypeOK'
  <2>1. req' \in [Requests -> Request \union {Idle}]
    BY <1>1, <1>2
  <2> QED
    BY <1>0, <1>3, <1>5, <2>1 DEF SessionsInv, TypeOK
<1>7. StoreOK'
  <2>1. OneToken'
    BY <1>0, <1>3, <1>5 DEF SessionsInv, StoreOK, OneToken
  <2>2. OldTokenIsDead'
    BY <1>0, <1>3 DEF SessionsInv, StoreOK, OldTokenIsDead
  <2> QED
    BY <1>0, <2>1, <2>2 DEF SessionsInv, StoreOK, Unredeemed
<1>8. ASSUME NEW x \in Request, Other(r, x) PROVE Undisturbed(x)
  <2>1. RequestOK(x) /\ (Fresh(x) => x.id # i) /\ (Holding(x) /\ x.id = i => InHand(i) # {} /\ i \in contended')
    BY <1>4, <1>8
  <2>2. x.new # Absent => x.new \notin known'
    BY <1>0, <2>1 DEF RequestOK, TokenOK
  <2>4. Guarded(x)' => x.id # i /\ x.id \in Ids
    BY <2>1, SessionsAssumption DEF Guarded, Fresh, Holding, RequestOK, OrderOK, SessionsInv, TypeOK, Ids
  <2>5. Guarded(x)' => SameToken(x.id)
    BY <1>5, <2>4 DEF SameToken
  <2> QED
    BY <1>0, <1>3, <2>2, <2>5 DEF Undisturbed
<1>9. RequestOK(p)'
  <2>1. OrderOK(p)'
    BY <1>0, <1>1, <1>2 DEF RequestOK, OrderOK, Logins, i
  <2>2. FitOK(p)' /\ TokenOK(p)'
    BY <1>0, <1>1, <1>2 DEF RequestOK, FitOK, TokenOK, i
  <2>4. RefreshOK(p)'
    <3> SUFFICES ASSUME Holding(p), i \in Ids \ contended'
                 PROVE  sess'[i] = Absent /\ \A t \in Tokens : index'[t] = i => t = q.found
      BY <1>2 DEF RefreshOK, Holding
    <3>1. Holding(q) /\ i \in Ids \ contended
      BY <1>0, <1>2, <1>3 DEF Holding
    <3>2. sess[i] # Absent /\ q.found = sess[i].token
      BY <1>0, <1>1, <3>1 DEF RequestOK, RefreshOK, i
    <3> QED
      BY <1>0, <1>5, <3>1, <3>2 DEF SessionsInv, StoreOK, OneToken
  <2> QED
    BY <1>1, <1>2, <2>1, <2>2, <2>4 DEF RequestOK, FreshOK, Fresh, Logins
<1>10. ASSUME NEW x \in Request, Other(r, x) PROVE ApartOK(p, x)'
  <2>1. ApartOK(q, x)
    BY <1>0, <1>10, OthersOK DEF q
  <2> QED
    BY <1>0, <1>1, <1>2, <1>3, <2>1 DEF ApartOK, Fresh, Holding, Logins, i
<1> QED
  BY <1>2, <1>6, <1>7, <1>8, <1>9, <1>10, StepKeeps

(* The end of DeleteSession: a refresh goes on to save, the others answer. *)
LEMMA DeletedKeeps ==
  ASSUME SessionsInv, NEW r \in Requests, req[r] # Idle, req[r].pc = "delIndex", Deleted(r),
         index' \in [Tokens -> 1..opened \union {Blank, Absent}],
         \A t \in Tokens : index'[t] \in {index[t], Absent},
         contended \subseteq contended', contended' \subseteq Ids \union {Blank},
         req[r].op = "refresh" /\ req[r].id \in Ids \ contended' => \A t \in Tokens : index'[t] # req[r].id,
         faults' \in 0..MaxFaults,
         UNCHANGED <<chal, sess, opened, issued, begun, known, redeemed, loggedOut, retired>>
  PROVE  SessionsInv'
<1> DEFINE q == req[r]
<1>0. Wanes /\ Unredeemed'
  BY DEF Wanes, SessionsInv, StoreOK, Unredeemed
<1>1. /\ q \in Request /\ RequestOK(q) /\ req \in [Requests -> Request \union {Idle}]
      /\ q.op \in {"refresh", "expired"}
  BY Deleter DEF SessionsInv, TypeOK
<1>2. ASSUME req' \in [Requests -> Request \union {Idle}] PROVE TypeOK'
  <2>1. \A t \in Tokens : index'[t] # Absent => t \in 1..issued
    BY DEF SessionsInv, TypeOK
  <2> QED
    BY <1>2, <2>1 DEF SessionsInv, TypeOK
<1>3. CASE q.op # "refresh"
  <2>1. req' = [req EXCEPT ![r] = Idle]
    BY <1>3 DEF Deleted, Reply
  <2>2. TypeOK'
    BY <1>1, <1>2, <2>1
  <2> QED
    BY <1>0, <2>1, <2>2, EndKeeps
<1>4. CASE q.op = "refresh"
  <2>1. Goto(r, "setId")
    BY <1>4 DEF Deleted
  <2>2. PICK p \in Request :
          /\ req' = [req EXCEPT ![r] = p] /\ p.pc = "setId" /\ p.op = q.op /\ p.id = q.id
          /\ p.new = q.new /\ p.tok = q.tok /\ p.user = q.user /\ p.chal = q.chal
    BY <2>1, GotoMoves
  <2>3. TypeOK'
    BY <1>1, <1>2, <2>2
  <2>4. RequestOK(p)'
    <3>1. OrderOK(p)'
      BY <1>1, <1>4, <2>2 DEF RequestOK, OrderOK, Logins
    <3>3. TokenOK(p)'
      <4>1. q.new # Absent => q.new \in Tokens
        BY <1>1 DEF Request
      <4> QED
        BY <1>1, <2>2, <4>1 DEF RequestOK, TokenOK
    <3>4. FitOK(p)'
      BY <1>1, <2>2 DEF RequestOK, FitOK
    <3>5. RefreshOK(p)'
      BY <1>4, <2>2 DEF RefreshOK
    <3> QED
      BY <1>4, <2>2, <3>1, <3>3, <3>4, <3>5 DEF RequestOK, FreshOK, Fresh, Logins
  <2> QED
    BY <1>0, <2>2, <2>3, <2>4, MoveKeeps
<1> QED
  BY <1>3, <1>4

(* DEL session:token:<token>. *)
LEMMA DeleteIndexKeeps ==
  ASSUME SessionsInv, NEW r \in Requests, DeleteTokenIndex(r)
  PROVE  SessionsInv'
<1> DEFINE q == req[r]
<1>0. /\ q # Idle /\ q.pc = "delIndex" /\ DelIndex(q.found) /\ Deleted(r)
      /\ UNCHANGED <<chal, sess, opened, issued, begun, faults,
                     known, redeemed, loggedOut, contended, retired>>
  BY DEF DeleteTokenIndex, At, ghosts
<1>1. /\ index' \in [Tokens -> 1..opened \union {Blank, Absent}]
      /\ \A t \in Tokens : index'[t] = IF t = q.found THEN Absent ELSE index[t]
  BY <1>0 DEF DelIndex, SessionsInv, TypeOK
<1>2. q.op = "refresh" /\ q.id \in Ids \ contended' => \A t \in Tokens : index'[t] # q.id
  <2>1. RequestOK(q)
    BY <1>0, Deleter
  <2> QED
    BY <1>0, <1>1, <2>1, SessionsAssumption DEF RequestOK, RefreshOK, Holding
<1>3. faults' \in 0..MaxFaults /\ contended \subseteq contended' /\ contended' \subseteq Ids \union {Blank}
  BY <1>0 DEF SessionsInv, TypeOK
<1>4. \A t \in Tokens : index'[t] \in {index[t], Absent}
  BY <1>1
<1> QED
  BY <1>0, <1>1, <1>2, <1>3, <1>4, DeletedKeeps

-----------------------------------------------------------------------------
(* A Redis command fails. *)
LEMMA RedisErrorKeeps ==
  ASSUME SessionsInv, NEW r \in Requests, RedisError(r)
  PROVE  SessionsInv'
<1> DEFINE q == req[r]
<1>0. /\ q # Idle /\ q.pc # "signer" /\ faults' \in 0..MaxFaults
      /\ UNCHANGED <<chal, sess, index, opened, issued, begun, redeemed, loggedOut, retired>>
  BY SessionsAssumption DEF RedisError, Fault, store, SessionsInv, TypeOK
<1>1. /\ q \in Request /\ RequestOK(q) /\ req \in [Requests -> Request \union {Idle}]
  BY <1>0 DEF SessionsInv, TypeOK, RequestsOK
<1>2. Unredeemed'
  BY <1>0 DEF SessionsInv, StoreOK, Unredeemed
<1>3. CASE q.pc = "delIndex"
  <2>1. Deleted(r) /\ known' = known /\ contended' = contended \union {q.id}
    BY <1>3 DEF RedisError
  <2>2. q.id \in Ids \union {Blank}
    BY <1>0, <1>3, Deleter
  <2>3. /\ contended \subseteq contended' /\ contended' \subseteq Ids \union {Blank}
        /\ index' \in [Tokens -> 1..opened \union {Blank, Absent}]
    BY <1>0, <2>1, <2>2 DEF SessionsInv, TypeOK
  <2>4. q.id \notin Ids \ contended' /\ \A t \in Tokens : index'[t] \in {index[t], Absent}
    BY <1>0, <2>1
  <2> QED
    BY <1>0, <1>3, <2>1, <2>3, <2>4, DeletedKeeps
<1>4. CASE q.pc = "setIndex"
  <2>1. Goto(r, "undo") /\ UNCHANGED <<known, contended>>
    BY <1>4 DEF RedisError
  <2>2. PICK p \in Request :
          /\ req' = [req EXCEPT ![r] = p] /\ p.pc = "undo" /\ p.op = q.op /\ p.id = q.id
          /\ p.new = q.new /\ p.tok = q.tok /\ p.user = q.user /\ p.chal = q.chal
    BY <1>0, <2>1, GotoMoves
  <2>3. TypeOK' /\ Wanes
    <3>1. req' \in [Requests -> Request \union {Idle}]
      BY <1>1, <2>2
    <3> QED
      BY <1>0, <2>1, <3>1 DEF SessionsInv, TypeOK, Wanes
  <2>4. RequestOK(p)'
    <3>1. OrderOK(p)'
      BY <1>0, <1>1, <1>4, <2>1, <2>2 DEF RequestOK, OrderOK, Logins
    <3>2. TokenOK(p)' /\ FitOK(p)'
      BY <1>0, <1>1, <1>4, <2>1, <2>2 DEF RequestOK, TokenOK, FitOK
    <3>3. FreshOK(p)' /\ RefreshOK(p)'
      BY <1>0, <1>1, <1>4, <2>1, <2>2 DEF RequestOK, FreshOK, Fresh, RefreshOK, Holding
    <3> QED
      BY <3>1, <3>2, <3>3 DEF RequestOK
  <2> QED
    BY <1>0, <1>2, <1>4, <2>1, <2>2, <2>3, <2>4, MoveKeeps
<1>5. CASE q.pc = "delChal"
  <2>1. req' = [req EXCEPT ![r] = Idle] /\ known' = known \union {q.new} /\ UNCHANGED contended
    BY <1>5 DEF RedisError, Issue, Reply
  <2>2. q.new # Absent
    BY <1>1, <1>5 DEF RequestOK, OrderOK
  <2>3. q.new \in 1..issued
    BY <1>1, <2>2 DEF RequestOK, TokenOK
  <2>4. TypeOK' /\ Wanes
    <3>1. req' \in [Requests -> Request \union {Idle}]
      BY <1>1, <2>1
    <3>2. known' \subseteq 1..issued /\ retired' \subseteq known' \X (1..opened)
      BY <1>0, <2>1, <2>3 DEF SessionsInv, TypeOK
    <3> QED
      BY <1>0, <2>1, <3>1, <3>2 DEF SessionsInv, TypeOK, Wanes
  <2> QED
    BY <1>0, <1>2, <2>1, <2>2, <2>4, EndKeeps
<1>6. CASE q.pc \notin {"delIndex", "setIndex", "delChal"}
  <2>1. req' = [req EXCEPT ![r] = Idle] /\ UNCHANGED <<known, contended>>
    BY <1>6 DEF RedisError, Reply
  <2>2. TypeOK' /\ Wanes
    <3>1. req' \in [Requests -> Request \union {Idle}]
      BY <1>1, <2>1
    <3> QED
      BY <1>0, <2>1, <3>1 DEF SessionsInv, TypeOK, Wanes
  <2> QED
    BY <1>2, <2>1, <2>2, EndKeeps
<1> QED
  BY <1>3, <1>4, <1>5, <1>6

(* The restart: no request is left. *)
LEMMA RestartKeeps ==
  ASSUME SessionsInv, Restart
  PROVE  SessionsInv'
<1>0. /\ req' = [r \in Requests |-> Idle] /\ faults' \in 0..MaxFaults
      /\ UNCHANGED <<chal, sess, index, opened, issued, begun, known, redeemed, loggedOut, contended, retired>>
  BY SessionsAssumption DEF Restart, Fault, store, ghosts, SessionsInv, TypeOK
<1>1. TypeOK'
  BY <1>0 DEF SessionsInv, TypeOK
<1>2. RequestsOK'
  BY <1>0 DEF RequestsOK
<1>3. StoreOK'
  BY <1>0 DEF SessionsInv, StoreOK, Unredeemed, OneToken, OldTokenIsDead
<1> QED
  BY <1>1, <1>2, <1>3 DEF SessionsInv

(* The clock: the requests stay where they are. *)
LEMMA TimeKeeps ==
  ASSUME SessionsInv, TypeOK', StoreOK', UNCHANGED req, contended \subseteq contended',
         \A q \in Request : (\E s \in Requests : req[s] # Idle /\ req[s] = q) => Undisturbed(q)
  PROVE  SessionsInv'
<1>0. req \in [Requests -> Request \union {Idle}] /\ 1..opened \subseteq Ids
  BY SessionsAssumption DEF SessionsInv, TypeOK, Ids
<1>1. ASSUME NEW s \in Requests, req'[s] # Idle PROVE RequestOK(req[s])'
  <2>1. PICK q \in Request : q = req[s] /\ q = req'[s] /\ RequestOK(q) /\ Undisturbed(q)
    BY <1>0, <1>1 DEF SessionsInv, RequestsOK
  <2>2. RequestOK(q)'
    BY <1>0, <2>1, OthersKeep
  <2> QED
    BY <2>1, <2>2 DEF RequestOK, OrderOK, TokenOK, FreshOK, Fresh, FitOK, RefreshOK, Holding
<1>2. ASSUME NEW s \in Requests, NEW u \in Requests, s # u, req'[s] # Idle, req'[u] # Idle
      PROVE  ApartOK(req[s], req[u])'
  <2>1. ApartOK(req[s], req[u])
    BY <1>2 DEF SessionsInv, RequestsOK
  <2> QED
    BY <2>1 DEF ApartOK, Fresh, Holding
<1> QED
  BY <1>1, <1>2 DEF SessionsInv, RequestsOK

(* A request that has its session to itself works on one a login opened. *)
LEMMA GuardedIsKnown ==
  ASSUME SessionsInv, NEW q \in Request, RequestOK(q), Guarded(q)'
  PROVE  q.id \in Ids /\ (q.new # Absent => q.new \notin known)
<1>1. 1..opened \subseteq Ids
  BY SessionsAssumption DEF SessionsInv, TypeOK, Ids
<1>2. q.new # Absent => q.new \notin known
  BY DEF RequestOK, TokenOK
<1>3. CASE Fresh(q)
  BY <1>1, <1>2, <1>3 DEF RequestOK, OrderOK, Fresh
<1>4. CASE ~Fresh(q)
  BY <1>2, <1>4 DEF Guarded, Fresh
<1> QED
  BY <1>3, <1>4

(* A session passes its expiry: it keeps its token. *)
LEMMA LapseKeeps ==
  ASSUME SessionsInv, NEW i \in Ids \union {Blank}, Lapse(i)
  PROVE  SessionsInv'
<1>0. /\ sess[i] # Absent /\ sess' = [sess EXCEPT ![i].lapsed = TRUE]
      /\ UNCHANGED <<chal, index, req, opened, issued, begun, faults,
                     known, redeemed, loggedOut, contended, retired>>
  BY DEF Lapse, ghosts
<1>1. sess \in [Ids \union {Blank} -> Session \union {Absent}] /\ sess[i] \in Session
  BY <1>0 DEF SessionsInv, TypeOK
<1>2. PICK x \in Session : /\ x.token = sess[i].token /\ sess' = [sess EXCEPT ![i] = x]
  <2>1. [sess[i] EXCEPT !.lapsed = TRUE] \in Session
        /\ [sess[i] EXCEPT !.lapsed = TRUE].token = sess[i].token
    BY <1>1 DEF Session
  <2>2. sess' = [sess EXCEPT ![i] = [sess[i] EXCEPT !.lapsed = TRUE]]
    BY <1>0, <1>1
  <2> QED
    BY <2>1, <2>2
<1>3. sess' \in [Ids \union {Blank} -> Session \union {Absent}] /\ x # Absent
  BY <1>1, <1>2, SessionsAssumption
<1>4. \A j \in Ids \union {Blank} : SameToken(j)
  BY <1>0, <1>1, <1>2, <1>3 DEF SameToken
<1>5. TypeOK'
  BY <1>0, <1>3 DEF SessionsInv, TypeOK
<1>6. StoreOK'
  <2>2. OneToken'
    BY <1>0, <1>4 DEF SessionsInv, StoreOK, OneToken, SameToken
  <2>4. Unredeemed' /\ OldTokenIsDead'
    BY <1>0 DEF SessionsInv, StoreOK, Unredeemed, OldTokenIsDead
  <2> QED
    BY <2>2, <2>4 DEF StoreOK
<1>7. ASSUME NEW q \in Request, \E s \in Requests : req[s] # Idle /\ req[s] = q
      PROVE  Undisturbed(q)
  <2>1. RequestOK(q)
    BY <1>7 DEF SessionsInv, RequestsOK
  <2>2. Guarded(q)' => SameToken(q.id)
    BY <1>4, <2>1, GuardedIsKnown
  <2>3. q.new # Absent => q.new \notin known
    BY <2>1 DEF RequestOK, TokenOK
  <2> QED
    BY <1>0, <2>2, <2>3 DEF Undisturbed
<1> QED
  BY <1>0, <1>5, <1>6, <1>7, TimeKeeps

(* Its key goes: a refresh that holds the session is no longer alone with it. *)
LEMMA EvictKeeps ==
  ASSUME SessionsInv, NEW i \in Ids \union {Blank}, Evict(i)
  PROVE  SessionsInv'
<1>0. /\ sess' = [sess EXCEPT ![i] = Absent] /\ Contend(i, Absent)
      /\ UNCHANGED <<chal, index, req, opened, issued, begun, faults,
                     known, redeemed, loggedOut, retired>>
  BY DEF Evict
<1>1. sess \in [Ids \union {Blank} -> Session \union {Absent}] /\ contended \subseteq Ids \union {Blank}
  BY DEF SessionsInv, TypeOK
<1>2. /\ sess' \in [Ids \union {Blank} -> Session \union {Absent}]
      /\ contended \subseteq contended' /\ contended' \subseteq Ids \union {Blank}
      /\ sess'[i] = Absent /\ \A j \in (Ids \union {Blank}) \ {i} : sess'[j] = sess[j]
  BY <1>0, <1>1 DEF Contend
<1>3. TypeOK'
  BY <1>0, <1>2 DEF SessionsInv, TypeOK
<1>4. StoreOK'
  <2>2. OneToken'
    BY <1>0, <1>2 DEF SessionsInv, StoreOK, OneToken
  <2>4. Unredeemed' /\ OldTokenIsDead'
    BY <1>0, <1>2 DEF SessionsInv, StoreOK, Unredeemed, OldTokenIsDead
  <2> QED
    BY <2>2, <2>4 DEF StoreOK
<1>5. ASSUME NEW q \in Request, \E s \in Requests : req[s] # Idle /\ req[s] = q
      PROVE  Undisturbed(q)
  <2>1. RequestOK(q)
    BY <1>5 DEF SessionsInv, RequestsOK
  <2>2. Holding(q) /\ q.id = i => i \in contended'
    <3> SUFFICES ASSUME Holding(q), q.id = i PROVE i \in contended'
      OBVIOUS
    <3>1. PICK s \in Requests : req[s] # Idle /\ req[s] = q
      BY <1>5
    <3>2. s \in InHand(i) /\ s # Absent
      BY <3>1, SessionsAssumption DEF InHand, Holding
    <3> QED
      BY <1>0, <3>2 DEF Contend
  <2>3. Guarded(q)' => SameToken(q.id) \/ (Fresh(q) /\ sess'[q.id] = Absent)
    <3> SUFFICES ASSUME Guarded(q)' PROVE SameToken(q.id) \/ (Fresh(q) /\ sess'[q.id] = Absent)
      OBVIOUS
    <3>1. q.id \in Ids
      BY <2>1, GuardedIsKnown
    <3>2. CASE q.id = i
      BY <1>2, <2>2, <3>2 DEF Guarded, Fresh, Holding
    <3>3. CASE q.id # i
      BY <1>2, <3>1, <3>3 DEF SameToken
    <3> QED
      BY <3>2, <3>3
  <2>4. q.new # Absent => q.new \notin known
    BY <2>1 DEF RequestOK, TokenOK
  <2> QED
    BY <1>0, <1>2, <2>3, <2>4 DEF Undisturbed
<1> QED
  BY <1>0, <1>2, <1>3, <1>4, <1>5, TimeKeeps

(* The index key of a token goes. *)
LEMMA EvictIndexKeeps ==
  ASSUME SessionsInv, NEW t \in Tokens, EvictIndex(t)
  PROVE  SessionsInv'
<1>0. /\ index' = [index EXCEPT ![t] = Absent]
      /\ UNCHANGED <<chal, sess, req, opened, issued, begun, faults,
                     known, redeemed, loggedOut, contended, retired>>
  BY DEF EvictIndex, ghosts
<1>1. index \in [Tokens -> 1..opened \union {Blank, Absent}]
  BY DEF SessionsInv, TypeOK
<1>2. /\ index' \in [Tokens -> 1..opened \union {Blank, Absent}]
      /\ \A u \in Tokens : index'[u] \in {index[u], Absent}
  BY <1>0, <1>1
<1>3. TypeOK' /\ Wanes
  BY <1>0, <1>2 DEF SessionsInv, TypeOK, Wanes
<1>4. StoreOK'
  <2>1. Unredeemed'
    BY <1>0 DEF SessionsInv, StoreOK, Unredeemed
  <2> QED
    BY <1>3, <2>1, WaningStore DEF StoreOK
<1>5. ASSUME NEW q \in Request, \E s \in Requests : req[s] # Idle /\ req[s] = q
      PROVE  Undisturbed(q)
  <2>1. q.new # Absent => q.new \notin known
    BY <1>5 DEF SessionsInv, RequestsOK, RequestOK, TokenOK
  <2> QED
    BY <1>0, <1>3, <2>1 DEF Undisturbed, Wanes, SameToken
<1> QED
  BY <1>0, <1>3, <1>4, <1>5, TimeKeeps
-----------------------------------------------------------------------------
(* The steps of a request. *)
LEMMA RequestStepsKeep ==
  ASSUME SessionsInv, NEW r \in Requests, Step(r)
  PROVE  SessionsInv'
<1> QED
  BY SaveSessionKeeps, SaveIndexKeeps, UndoKeeps, DeleteChallengeKeeps, LookUpKeeps,
     ValidateKeeps, SignerKeeps, FindKeeps, DeleteSessionKeeps, DeleteIndexKeeps DEF Step

(* A request to log out: nothing changes but the count of requests. *)
LEMMA LogoutKeeps ==
  ASSUME SessionsInv, NEW t \in Tokens, Logout(t)
  PROVE  SessionsInv'
<1>0. /\ UNCHANGED <<chal, sess, index, req, opened, issued, faults, known, redeemed, contended, retired>>
      /\ begun' \in 0..MaxRequests /\ t \in known /\ loggedOut' = loggedOut \union {t}
  BY SessionsAssumption DEF Logout, store, SessionsInv, TypeOK
<1>1. TypeOK'
  BY <1>0 DEF SessionsInv, TypeOK
<1>2. RequestsOK'
  BY <1>0 DEF SessionsInv, RequestsOK, RequestOK, OrderOK, TokenOK, FreshOK, Fresh, FitOK,
              RefreshOK, Holding, ApartOK
<1>3. StoreOK'
  BY <1>0 DEF SessionsInv, StoreOK, Unredeemed, OneToken, OldTokenIsDead
<1> QED
  BY <1>1, <1>2, <1>3 DEF SessionsInv

(* Every step keeps the invariant. *)
LEMMA NextInv == SessionsInv /\ [Next]_vars => SessionsInv'
<1> SUFFICES ASSUME SessionsInv, [Next]_vars PROVE SessionsInv'
  OBVIOUS
<1>1. ASSUME NEW r \in Requests, LogIn(r) PROVE SessionsInv'
  BY <1>1, LogInKeeps
<1>2. ASSUME NEW r \in Requests, Step(r) PROVE SessionsInv'
  BY <1>2, RequestStepsKeep
<1>3. ASSUME NEW r \in Requests, RedisError(r) PROVE SessionsInv'
  BY <1>3, RedisErrorKeeps
<1>4. ASSUME NEW r \in Requests, NEW op \in {"get", "refresh"},
             NEW t \in Tokens \union SignerTokens, Present(r, op, t)
      PROVE  SessionsInv'
  BY <1>4, PresentKeeps
<1>5. ASSUME NEW c \in Challenges, EvictChallenge(c) \/ \E k \in Kinds : SetNIP46Challenge(c, k)
      PROVE  SessionsInv'
  BY <1>5, ChallengesKeep
<1>6. ASSUME NEW i \in Ids \union {Blank}, Lapse(i) \/ Evict(i) PROVE SessionsInv'
  BY <1>6, LapseKeeps, EvictKeeps
<1>7. ASSUME NEW t \in Tokens, EvictIndex(t) \/ Logout(t) PROVE SessionsInv'
  BY <1>7, EvictIndexKeeps, LogoutKeeps
<1>8. CASE Restart
  BY <1>8, RestartKeeps
<1>9. CASE UNCHANGED vars
  <2>1. UNCHANGED <<sess, index, req, opened, issued, begun, faults, ghosts>>
        /\ UNCHANGED <<chal, redeemed>>
    BY <1>9 DEF vars, ghosts
  <2>2. chal' \in [Challenges -> Kinds \union {Absent, Idle}] /\ Unredeemed'
    BY <2>1 DEF SessionsInv, TypeOK, StoreOK, Unredeemed
  <2> QED
    BY <2>1, <2>2, ChallengeKeeps
<1> QED
  BY <1>1, <1>2, <1>3, <1>4, <1>5, <1>6, <1>7, <1>8, <1>9 DEF Next

(* The inductive invariant holds throughout: what each request between two Redis
   commands of SaveSession, RefreshToken and DeleteSession may rely on. *)
THEOREM SessionsInvariant == Spec => []SessionsInv
<1> QED
  BY InitInv, NextInv, PTL DEF Spec

(* The store, the requests and the history keep their types: every token and
   session id in Redis was minted by a login or a refresh. *)
THEOREM TypeCorrect == Spec => []TypeOK
<1>1. SessionsInv => TypeOK
  BY DEF SessionsInv
<1> QED
  BY <1>1, SessionsInvariant, PTL

(* However many requests carry the same signed event, VerifyChallenge makes one
   session of it: ConsumeNIP46Challenge hands the challenge to one of them. *)
THEOREM ChallengesSpendOnce == Spec => []OneSessionPerChallenge
<1>1. SessionsInv => OneSessionPerChallenge
  BY DEF SessionsInv, TypeOK, OneSessionPerChallenge
<1> QED
  BY <1>1, SessionsInvariant, PTL

(* The token RefreshToken replaced finds no session, unless another request, the
   clock or a failure of Redis came between its steps. *)
THEOREM OldTokensAreDead == Spec => []OldTokenIsDead
<1>1. SessionsInv => OldTokenIsDead
  BY DEF SessionsInv, StoreOK
<1> QED
  BY <1>1, SessionsInvariant, PTL
=============================================================================
