--------------------------- MODULE BunkerRPCProofs ---------------------------
(* Proofs about BunkerRPC, for any users, client keys and calls and any number *)
(* of requests.                                                                *)
EXTENDS BunkerRPC, TLAPS

(* A request keeps its id to itself, and at most one call waits for it. *)
FreshIds ==
  /\ \A n \in Numbers : req[n] # None => n <= sent /\ req[n].id <= sent
  /\ \A m, n \in Numbers : req[m] # None /\ req[n] # None /\ req[m].id = req[n].id => m = n
  /\ \A c \in Calls : call[c] # None => req[call[c].no] # None
  /\ \A c, d \in Calls : call[c] # None /\ call[d] # None /\ call[c].no = call[d].no => c = d

(* However often the relay repeats an event, a request has one answer, under its
   own id and key; what is no answer carries no request's id. *)
Answers(e, n) ==
  /\ req[n] # None /\ req[n].answered
  /\ e.id = req[n].id /\ e.key = req[n].key
  /\ e.ok /\ req[n].method = "get_public_key" => e.user \in Users

OneAnswer ==
  /\ \A e \in net : IF e.no = 0 THEN e.id = 0 ELSE Answers(e, e.no)
  /\ \A e, f \in net : e.no = f.no /\ e.no # 0 => e = f

(* The answer to a request that is not published yet, or still waited for, has
   not been used. *)
Unused ==
  /\ \A n \in Numbers : n > sent => takers[n] = <<>>
  /\ \A c \in Calls : call[c] # None => takers[call[c].no] = <<>>

(* The signer's consent: every good event is under a key it has agreed to, and
   a user it names is named for that key; the key of a bootstrap is agreed to by
   the user it was begun for. *)
Consent ==
  /\ \A e \in net : e.ok => e.key \in granted
  /\ \A e \in net : e.user # None => <<e.key, e.user>> \in named
  /\ \A b \in BootKeys : b \in granted => <<b, whose[b]>> \in named
  /\ \A b \in BootKeys : boot[b] = "none" <=> whose[b] = None

(* Nobody asks to connect with the key of a bootstrap. *)
LoginsConnect ==
  \A n \in Numbers : req[n] # None /\ req[n].method = "connect" => req[n].key \in LoginKeys

Requested == FreshIds /\ OneAnswer /\ Unused /\ LoginsConnect
BunkerInv == TypeOK /\ Requested /\ Consent /\ OwnAnswer /\ ConnectionIsGranted

-----------------------------------------------------------------------------
(* The answers already used are used no more: what an action may do to takers
   when it is call c's. *)
Apart(c) ==
  /\ takers' \in [Numbers -> Seq(Numbers)]
  /\ \A n \in Numbers : n > sent => takers'[n] = takers[n]
  /\ \A d \in Calls \ {c} : call[d] # None => takers'[call[d].no] = takers[call[d].no]

(* The message a waiting call goes by, by its id, is the answer to its request
   and has not been used. *)
LEMMA IdMeansAnswer ==
  ASSUME TypeOK, Requested, BunkerAssumption,
         NEW c \in Calls, NEW e \in net, call[c] # None, e.id = Mine(c).id
  PROVE  /\ e.no = call[c].no /\ e.no \in Numbers /\ takers[e.no] = <<>>
         /\ Answers(e, e.no)
<1>1. /\ call[c] \in Call /\ call[c].no \in Numbers /\ req[call[c].no] # None
      /\ takers[call[c].no] = <<>>
  BY DEF TypeOK, Call, Requested, FreshIds, Unused
<1>2. req[call[c].no] \in Request /\ req[call[c].no].id \in Numbers
  BY <1>1 DEF TypeOK, Request
<1>3. e.no \in 0..MaxRequests /\ e.id # 0
  BY <1>2 DEF TypeOK, Event, Mine, Numbers
<1>4. e.no # 0 /\ Answers(e, e.no)
  BY <1>3 DEF Requested, OneAnswer
<1>5. e.no \in Numbers
  BY <1>3, <1>4, BunkerAssumption DEF Numbers
<1>6. e.no = call[c].no
  BY <1>1, <1>4, <1>5 DEF Requested, FreshIds, Answers, Mine
<1> QED
  BY <1>1, <1>4, <1>5, <1>6

(* Using it is its only use. *)
LEMMA UseKeeps ==
  ASSUME TypeOK, Requested, OwnAnswer, BunkerAssumption,
         NEW c \in Calls, NEW e \in net, call[c] # None, e.id = Mine(c).id, Use(c, e)
  PROVE  Apart(c) /\ OwnAnswer'
<1> DEFINE n == call[c].no
<1>1. n \in Numbers /\ e.no = n /\ takers[n] = <<>>
  BY IdMeansAnswer
<1>2. n <= sent /\ sent \in Nat /\ n \in Nat
  BY <1>1, BunkerAssumption DEF Requested, FreshIds, TypeOK, Numbers
<1>3. Append(<<>>, n) = <<n>> /\ <<n>> \in Seq(Numbers)
  BY <1>1
<1>4. takers' = [takers EXCEPT ![n] = <<n>>]
  BY <1>1, <1>3 DEF Use
<1>5. /\ takers' \in [Numbers -> Seq(Numbers)] /\ takers'[n] = <<n>>
      /\ \A m \in Numbers \ {n} : takers'[m] = takers[m]
  BY <1>1, <1>3, <1>4 DEF TypeOK
<1>6. \A d \in Calls \ {c} : call[d] # None => call[d].no \in Numbers /\ call[d].no # n
  BY DEF Requested, FreshIds, TypeOK, Call
<1> HIDE DEF n
<1>7. \A m \in Numbers : m > sent => m # n
  BY <1>2 DEF Numbers
<1> QED
  BY <1>5, <1>6, <1>7 DEF Apart, OwnAnswer

(* Publishing takes a number and an id nobody has used, so that no event of the
   past can be taken for its answer. *)
LEMMA PublishKeeps ==
  ASSUME TypeOK, Requested, BunkerAssumption,
         NEW c \in Calls, NEW k \in Keys, NEW m \in Methods, Publish(c, k, m),
         m = "connect" => k \in LoginKeys, net' = net, Apart(c)
  PROVE  /\ sent' \in 0..MaxRequests
         /\ call' \in [Calls -> Call \union {None}]
         /\ req' \in [Numbers -> Request \union {None}]
         /\ Requested'
<1> DEFINE n == sent + 1
           q == [key |-> k, method |-> m, id |-> n, answered |-> FALSE]
           r == [no |-> n, due |-> FALSE]
<1>1. sent \in Nat /\ n \in 1..MaxRequests /\ sent' = n /\ n \in Nat
  BY DEF Publish, TypeOK, BunkerAssumption
<1>2. q \in Request /\ r \in Call /\ q # None /\ r # None
  <2>1. q \in Request /\ r \in Call
    BY <1>1 DEF Request, Call, Numbers
  <2> HIDE DEF q, r
  <2> QED
    BY <2>1 DEF BunkerAssumption
<1>3. req' = [req EXCEPT ![n] = q] /\ call' = [call EXCEPT ![c] = r] /\ n > sent
  BY <1>1 DEF Publish, generateRandomHex
<1>4. q.id = n /\ q.key = k /\ q.method = m /\ r.no = n
  OBVIOUS
<1>5. /\ call' \in [Calls -> Call \union {None}]
      /\ call'[c] = r /\ \A d \in Calls \ {c} : call'[d] = call[d]
  BY <1>2, <1>3 DEF TypeOK
<1>6. /\ req' \in [Numbers -> Request \union {None}]
      /\ req'[n] = q /\ \A i \in Numbers \ {n} : req'[i] = req[i]
  BY <1>1, <1>2, <1>3 DEF TypeOK, Numbers
<1>7. \A i \in Numbers : req[i] # None => i \in Nat /\ i < n /\ i # n /\ req[i].id \in Nat /\ req[i].id < n
  BY <1>1 DEF Requested, FreshIds, TypeOK, Request, Numbers
<1>8. \A d \in Calls : call[d] # None => call[d].no \in Numbers /\ call[d].no # n /\ req[call[d].no] # None
  BY <1>7 DEF Requested, FreshIds, TypeOK, Call
<1>9. n \in Numbers /\ takers'[n] = <<>>
  BY <1>1, <1>3 DEF Apart, Requested, Unused, Numbers
<1>10. \A e \in net : e.no \in 0..MaxRequests
  BY DEF TypeOK, Event
<1> HIDE DEF n, q, r
<1>11. FreshIds'
  <2>1. \A i \in Numbers : req'[i] # None => i <= sent' /\ req'[i].id <= sent'
    BY <1>1, <1>4, <1>6, <1>7
  <2>2. \A i, j \in Numbers : req'[i] # None /\ req'[j] # None /\ req'[i].id = req'[j].id => i = j
    BY <1>4, <1>6, <1>7 DEF Requested, FreshIds
  <2>3. \A d \in Calls : call'[d] # None => req'[call'[d].no] # None
    BY <1>2, <1>4, <1>5, <1>6, <1>8
  <2>4. \A d, f \in Calls : call'[d] # None /\ call'[f] # None /\ call'[d].no = call'[f].no => d = f
    BY <1>4, <1>5, <1>8 DEF Requested, FreshIds
  <2> QED
    BY <2>1, <2>2, <2>3, <2>4 DEF FreshIds
<1>12. OneAnswer'
  <2>1. ASSUME NEW e \in net, e.no # 0 PROVE Answers(e, e.no)'
    <3>1. e.no \in Numbers /\ Answers(e, e.no)
      BY <1>10, <2>1, BunkerAssumption DEF Requested, OneAnswer, Numbers
    <3> QED
      BY <1>6, <1>7, <3>1 DEF Answers
  <2>2. \A e \in net' : IF e.no = 0 THEN e.id = 0 ELSE Answers(e, e.no)'
    BY <2>1 DEF Requested, OneAnswer
  <2> QED
    BY <2>2 DEF Requested, OneAnswer
<1>13. Unused'
  <2>1. \A i \in Numbers : i > sent' => takers'[i] = <<>>
    <3>1. \A i \in Numbers : i > sent' => i > sent
      BY <1>1, <1>3 DEF Numbers
    <3> QED
      BY <3>1 DEF Apart, Requested, Unused
  <2>2. \A d \in Calls : call'[d] # None => takers'[call'[d].no] = <<>>
    BY <1>4, <1>5, <1>9 DEF Apart, Requested, Unused
  <2> QED
    BY <2>1, <2>2 DEF Unused
<1>14. LoginsConnect'
  BY <1>4, <1>6 DEF Requested, LoginsConnect
<1> QED
  BY <1>1, <1>5, <1>6, <1>11, <1>12, <1>13, <1>14 DEF Requested

(* A call that returns takes nothing with it but itself. *)
LEMMA ReturnKeeps ==
  ASSUME TypeOK, Requested, NEW c \in Calls, Return(c), Apart(c), UNCHANGED <<req, net, sent>>
  PROVE  call' \in [Calls -> Call \union {None}] /\ Requested'
<1>1. /\ call' \in [Calls -> Call \union {None}]
      /\ \A d \in Calls : call'[d] # None => call'[d] = call[d] /\ call[d] # None /\ d # c
  BY DEF Return, TypeOK
<1>2. FreshIds'
  BY <1>1 DEF Requested, FreshIds
<1>3. OneAnswer' /\ LoginsConnect'
  BY DEF Requested, OneAnswer, LoginsConnect, Answers
<1>4. Unused'
  BY <1>1 DEF Requested, Unused, Apart
<1> QED
  BY <1>1, <1>2, <1>3, <1>4 DEF Requested

(* A timer that fires changes no number. *)
LEMMA TimerKeeps ==
  ASSUME TypeOK, Requested, BunkerAssumption, NEW c \in Calls, call[c] # None,
         call' = [call EXCEPT ![c].due = TRUE], UNCHANGED <<req, net, sent, takers>>
  PROVE  call' \in [Calls -> Call \union {None}] /\ Requested'
<1>1. call[c] \in Call
  BY DEF TypeOK
<1>2. /\ call' \in [Calls -> Call \union {None}]
      /\ call'[c].no = call[c].no /\ \A d \in Calls \ {c} : call'[d] = call[d]
  BY <1>1 DEF TypeOK, Call
<1>3. \A d \in Calls : call'[d] # None => call[d] # None /\ call'[d].no = call[d].no
  BY <1>2
<1>4. FreshIds' /\ Unused'
  BY <1>3 DEF Requested, FreshIds, Unused
<1> QED
  BY <1>2, <1>4 DEF Requested, OneAnswer, LoginsConnect, Answers

(* The service starts without keys, calls or events. *)
LEMMA InitInv == Init => BunkerInv
BY BunkerAssumption
   DEF Init, BunkerInv, TypeOK, Requested, FreshIds, OneAnswer, Unused, LoginsConnect, Consent,
       OwnAnswer, ConnectionIsGranted, Numbers

(* The calls, the signer and the relay keep the invariant. *)
LEMMA NextInv == BunkerInv /\ [Next]_vars => BunkerInv'
<1> SUFFICES ASSUME BunkerInv, [Next]_vars PROVE BunkerInv'
  OBVIOUS
<1> USE BunkerAssumption DEF BunkerInv
<1>0. ASSUME NEW c \in Calls, takers' = takers PROVE Apart(c)
  BY <1>0 DEF Apart, TypeOK
<1>1. ASSUME NEW k \in LoginKeys, CreateAuthChallenge(k) \/ ChallengeExpires(k) PROVE BunkerInv'
  <2>1. /\ chal' \in [LoginKeys -> {"none", "live", "gone"}]
        /\ UNCHANGED <<boot, whose, conns, call, req, sent, net, granted, named, takers>>
    BY <1>1 DEF CreateAuthChallenge, ChallengeExpires, TypeOK, signer
  <2> QED
    BY <2>1 DEF TypeOK, Requested, FreshIds, OneAnswer, Answers, Unused, LoginsConnect, Consent,
                OwnAnswer, ConnectionIsGranted
<1>2. ASSUME NEW c \in Calls, NEW k \in LoginKeys, ConnectToBunker(c, k) PROVE BunkerInv'
  <2>1. /\ Publish(c, k, "connect") /\ k \in Keys /\ "connect" \in Methods
        /\ UNCHANGED <<chal, boot, whose, conns, net, granted, named, takers>>
    BY <1>2 DEF ConnectToBunker, Keys, Methods, login, signer
  <2>2. Requested' /\ TypeOK'
    BY <1>0, <2>1, PublishKeeps DEF TypeOK
  <2> QED
    BY <2>1, <2>2 DEF Consent, OwnAnswer, ConnectionIsGranted
<1>3. ASSUME NEW c \in Calls, NEW u \in Users, SignEvent(c, u) PROVE BunkerInv'
  <2>1. /\ Publish(c, conns[u], "rpc") /\ conns[u] \in Keys /\ "rpc" \in Methods
        /\ UNCHANGED <<chal, boot, whose, conns, net, granted, named, takers>>
    BY <1>3 DEF SignEvent, TypeOK, Methods, login, signer
  <2>2. Requested' /\ TypeOK'
    BY <1>0, <2>1, PublishKeeps DEF TypeOK
  <2> QED
    BY <2>1, <2>2 DEF Consent, OwnAnswer, ConnectionIsGranted
<1>4. ASSUME NEW c \in Calls, NEW e \in net, handleConnectResponse(c, e) PROVE BunkerInv'
  <2>1. /\ e.key \in Keys /\ "get_public_key" \in Methods /\ call[c] # None
        /\ UNCHANGED <<chal, boot, whose, conns, net, granted, named>>
    BY <1>4 DEF handleConnectResponse, Waiting, TypeOK, Event, Methods, login, signer
  <2>2. CASE Acknowledges(c, e)
    <3>1. Publish(c, e.key, "get_public_key") /\ Use(c, e) /\ e.id = Mine(c).id
      BY <1>4, <2>2 DEF handleConnectResponse, Acknowledges
    <3>2. Apart(c) /\ OwnAnswer'
      BY <2>1, <3>1, UseKeeps
    <3>3. Requested' /\ TypeOK'
      BY <2>1, <3>1, <3>2, PublishKeeps DEF TypeOK, Apart
    <3> QED
      BY <2>1, <3>2, <3>3 DEF Consent, ConnectionIsGranted
  <2>3. CASE ~Acknowledges(c, e)
    <3>1. Return(c) /\ UNCHANGED <<req, sent, takers>>
      BY <1>4, <2>3 DEF handleConnectResponse
    <3>2. Requested' /\ TypeOK'
      BY <1>0, <2>1, <3>1, ReturnKeeps DEF TypeOK
    <3> QED
      BY <2>1, <3>1, <3>2 DEF Consent, OwnAnswer, ConnectionIsGranted
  <2> QED
    BY <2>2, <2>3
<1>5. ASSUME NEW c \in Calls, NEW e \in net, getUserPubkeyFromBunker(c, e) PROVE BunkerInv'
  <2>1. /\ call[c] # None /\ Mine(c).method = "get_public_key" /\ e.id = Mine(c).id /\ e.ok
        /\ conns' = [conns EXCEPT ![e.user] = e.key] /\ Use(c, e) /\ Return(c)
        /\ UNCHANGED <<chal, boot, whose, req, sent, net, granted, named>>
    BY <1>5 DEF getUserPubkeyFromBunker, Waiting, login, signer
  <2>2. e.no = call[c].no /\ Answers(e, e.no)
    BY <2>1, IdMeansAnswer
  <2>3. e.user \in Users /\ e.key \in Keys /\ e.user # None
    BY <2>1, <2>2 DEF Answers, Mine, TypeOK, Event, BunkerAssumption
  <2>4. e.key \in granted /\ <<e.key, e.user>> \in named
    BY <2>1, <2>3 DEF Consent
  <2>5. /\ conns' \in [Users -> Keys \union {None}]
        /\ \A u \in Users : conns'[u] # conns[u] => conns'[u] = e.key /\ u = e.user
    BY <2>1, <2>3 DEF TypeOK
  <2>6. Apart(c) /\ OwnAnswer'
    BY <2>1, UseKeeps
  <2>7. Requested' /\ TypeOK'
    BY <2>1, <2>5, <2>6, ReturnKeeps DEF TypeOK, Apart
  <2>8. ConnectionIsGranted'
    BY <2>1, <2>4, <2>5 DEF ConnectionIsGranted
  <2> QED
    BY <2>1, <2>6, <2>7, <2>8 DEF Consent
<1>6. ASSUME NEW c \in Calls, NEW e \in net, SignResponse(c, e) PROVE BunkerInv'
  <2>1. /\ call[c] # None /\ e.id = Mine(c).id /\ Use(c, e) /\ Return(c)
        /\ UNCHANGED <<chal, boot, whose, conns, req, sent, net, granted, named>>
    BY <1>6 DEF SignResponse, Waiting, login, signer
  <2>2. Apart(c) /\ OwnAnswer'
    BY <2>1, UseKeeps
  <2>3. Requested' /\ TypeOK'
    BY <2>1, <2>2, ReturnKeeps DEF TypeOK, Apart
  <2> QED
    BY <2>1, <2>2, <2>3 DEF Consent, ConnectionIsGranted
<1>7. ASSUME NEW c \in Calls, TimerFires(c) PROVE BunkerInv'
  <2>1. /\ call[c] # None /\ call' = [call EXCEPT ![c].due = TRUE]
        /\ UNCHANGED <<chal, boot, whose, conns, req, sent, net, granted, named, takers>>
    BY <1>7 DEF TimerFires, login, signer
  <2>2. Requested' /\ TypeOK'
    BY <2>1, TimerKeeps DEF TypeOK
  <2> QED
    BY <2>1, <2>2 DEF Consent, OwnAnswer, ConnectionIsGranted
<1>8. ASSUME NEW c \in Calls, Timeout(c) \/ Cancel(c) PROVE BunkerInv'
  <2>1. /\ Return(c)
        /\ UNCHANGED <<chal, boot, whose, conns, req, sent, net, granted, named, takers>>
    BY <1>8 DEF Timeout, Cancel, login, signer
  <2>2. Requested' /\ TypeOK'
    BY <1>0, <2>1, ReturnKeeps DEF TypeOK
  <2> QED
    BY <2>1, <2>2 DEF Consent, OwnAnswer, ConnectionIsGranted
<1>9. ASSUME NEW b \in BootKeys, NEW u \in Users, InitiateNostrConnect(b, u) PROVE BunkerInv'
  <2>1. /\ boot[b] = "none" /\ boot' = [boot EXCEPT ![b] = "waiting"]
        /\ whose' = [whose EXCEPT ![b] = u] /\ u # None
        /\ UNCHANGED <<chal, conns, call, req, sent, net, granted, named, takers>>
    BY <1>9 DEF InitiateNostrConnect, signer, BunkerAssumption
  <2>2. b \notin granted
    <3>1. whose[b] = None
      BY <2>1 DEF Consent
    <3>2. <<b, None>> \in named => None \in Users
      BY DEF TypeOK
    <3>3. None \notin Users
      BY DEF BunkerAssumption
    <3> QED
      BY <3>1, <3>2, <3>3 DEF Consent
  <2>3. TypeOK' /\ Requested'
    BY <2>1 DEF TypeOK, Requested, FreshIds, OneAnswer, Answers, Unused, LoginsConnect
  <2>4. Consent'
    BY <2>1, <2>2 DEF Consent, TypeOK
  <2> QED
    BY <2>1, <2>3, <2>4 DEF OwnAnswer, ConnectionIsGranted
<1>10. ASSUME NEW b \in BootKeys, BootstrapEnds(b) PROVE BunkerInv'
  <2>1. /\ boot[b] = "waiting" /\ boot' = [boot EXCEPT ![b] = "over"]
        /\ UNCHANGED <<chal, whose, conns, call, req, sent, net, granted, named, takers>>
    BY <1>10 DEF BootstrapEnds, signer
  <2>2. TypeOK' /\ Requested'
    BY <2>1 DEF TypeOK, Requested, FreshIds, OneAnswer, Answers, Unused, LoginsConnect
  <2>3. Consent'
    BY <2>1 DEF TypeOK, Consent
  <2> QED
    BY <2>1, <2>2, <2>3 DEF OwnAnswer, ConnectionIsGranted
<1>11. ASSUME NEW b \in BootKeys, NEW e \in net, awaitNostrConnectACK(b, e) PROVE BunkerInv'
  <2>1. /\ boot[b] = "waiting" /\ e.key = b /\ e.ok
        /\ conns' = [conns EXCEPT ![whose[b]] = b] /\ boot' = [boot EXCEPT ![b] = "over"]
        /\ UNCHANGED <<chal, whose, call, req, sent, net, granted, named, takers>>
    BY <1>11 DEF awaitNostrConnectACK, signer
  <2>2. b \in Keys /\ b \in granted /\ <<b, whose[b]>> \in named /\ whose[b] \in Users
    BY <2>1 DEF Consent, Keys, TypeOK
  <2>3. /\ conns' \in [Users -> Keys \union {None}]
        /\ \A u \in Users : conns'[u] # conns[u] => conns'[u] = b /\ u = whose[b]
    BY <2>1, <2>2 DEF TypeOK
  <2>4. TypeOK' /\ Requested'
    BY <2>1, <2>3 DEF TypeOK, Requested, FreshIds, OneAnswer, Answers, Unused, LoginsConnect
  <2>5. ConnectionIsGranted'
    BY <2>1, <2>2, <2>3 DEF ConnectionIsGranted
  <2> QED
    BY <2>1, <2>4, <2>5 DEF TypeOK, Consent, OwnAnswer
<1>12. ASSUME NEW b \in BootKeys, NEW ok \in BOOLEAN, SignerSpeaks(b, ok) PROVE BunkerInv'
  <2> DEFINE e == [key |-> b, id |-> 0, ok |-> ok, user |-> None, no |-> 0]
  <2>1. /\ e \in Event /\ b \in Keys
        /\ e.id = 0 /\ e.no = 0 /\ e.key = b /\ e.ok = ok /\ e.user = None
    BY DEF Event, Keys
  <2>2. /\ boot[b] # "none" /\ net' = net \union {e}
        /\ granted' = IF ok THEN granted \union {b} ELSE granted
        /\ named' = IF ok THEN named \union {<<b, whose[b]>>} ELSE named
        /\ UNCHANGED <<chal, boot, whose, conns, call, req, sent, takers>>
    BY <1>12 DEF SignerSpeaks, login
  <2> HIDE DEF e
  <2>3. whose[b] \in Users
    BY <2>2 DEF Consent, TypeOK
  <2>4. TypeOK'
    BY <2>1, <2>2, <2>3 DEF TypeOK
  <2>5. Requested'
    BY <2>1, <2>2 DEF Requested, FreshIds, OneAnswer, Answers, Unused, LoginsConnect
  <2>6. Consent'
    BY <2>1, <2>2 DEF Consent
  <2> QED
    BY <2>2, <2>4, <2>5, <2>6 DEF OwnAnswer, ConnectionIsGranted
<1>13. CASE Restart
  <2>1. /\ conns' = [u \in Users |-> None] /\ call' = [c \in Calls |-> None]
        /\ boot' = [b \in BootKeys |-> IF boot[b] = "waiting" THEN "over" ELSE boot[b]]
        /\ UNCHANGED <<chal, whose, req, sent, net, granted, named, takers>>
    BY <1>13 DEF Restart, signer
  <2>2. TypeOK' /\ Requested'
    BY <2>1 DEF TypeOK, Requested, FreshIds, OneAnswer, Answers, Unused, LoginsConnect
  <2> QED
    BY <2>1, <2>2 DEF Consent, OwnAnswer, ConnectionIsGranted
<1>14. ASSUME NEW n \in Numbers, NEW ok \in BOOLEAN, NEW u \in Users \union {None},
              BunkerAnswers(n, ok, u)
       PROVE  BunkerInv'
  <2> DEFINE e == [key |-> req[n].key, id |-> req[n].id, ok |-> ok, user |-> u, no |-> n]
  <2>1. /\ req[n] # None /\ ~req[n].answered
        /\ ok => req[n].method = "connect" \/ req[n].key \in granted
        /\ u \in IF ok /\ req[n].method = "get_public_key" THEN Users ELSE {None}
        /\ req' = [req EXCEPT ![n].answered = TRUE] /\ net' = net \union {e}
        /\ granted' = IF ok THEN granted \union {req[n].key} ELSE granted
        /\ named' = IF u = None THEN named ELSE named \union {<<req[n].key, u>>}
        /\ UNCHANGED <<chal, boot, whose, conns, call, sent, takers>>
    BY <1>14 DEF BunkerAnswers, login
  <2>2. req[n] \in Request /\ req[n].key \in Keys /\ req[n].id \in Numbers
    BY <2>1 DEF TypeOK, Request
  <2>3. /\ e \in Event
        /\ e.id = req[n].id /\ e.key = req[n].key /\ e.ok = ok /\ e.user = u /\ e.no = n
    BY <2>2 DEF Event, Numbers
  <2>4. /\ req' \in [Numbers -> Request \union {None}] /\ req'[n] # None
        /\ req'[n].answered /\ req'[n].id = req[n].id /\ req'[n].key = req[n].key
        /\ req'[n].method = req[n].method /\ \A m \in Numbers \ {n} : req'[m] = req[m]
    <3>1. [req[n] EXCEPT !.answered = TRUE] \in Request
      BY <2>2 DEF Request
    <3>2. [req[n] EXCEPT !.answered = TRUE] # None
      BY <3>1 DEF BunkerAssumption
    <3> QED
      BY <2>1, <2>2, <3>1, <3>2 DEF TypeOK, Request
  <2>5. /\ n # 0
        /\ \A f \in net : f.no # 0 => f.no \in Numbers /\ Answers(f, f.no) /\ f.no # n
    <3>1. \A f \in net : f.no \in 0..MaxRequests
      BY DEF TypeOK, Event
    <3> QED
      BY <2>1, <3>1 DEF Numbers, Requested, OneAnswer, Answers
  <2> HIDE DEF e
  <2>6. TypeOK'
    BY <2>1, <2>2, <2>3, <2>4 DEF TypeOK
  <2>7. FreshIds'
    <3>1. /\ \A m \in Numbers : req'[m] # None => req[m] # None
          /\ \A m \in Numbers : req[m] # None => req'[m] # None
          /\ \A m \in Numbers : req'[m].id = req[m].id
          /\ sent' = sent /\ call' = call
      BY <2>1, <2>4
    <3>2. \A c \in Calls : call[c] # None => call[c].no \in Numbers
      BY DEF TypeOK, Call
    <3>3. \A m \in Numbers : req'[m] # None => m <= sent' /\ req'[m].id <= sent'
      BY <3>1 DEF Requested, FreshIds
    <3>4. \A m, i \in Numbers : req'[m] # None /\ req'[i] # None /\ req'[m].id = req'[i].id => m = i
      BY <3>1 DEF Requested, FreshIds
    <3>5. \A c \in Calls : call'[c] # None => req'[call'[c].no] # None
      BY <3>1, <3>2 DEF Requested, FreshIds
    <3>6. \A c, d \in Calls :
            call'[c] # None /\ call'[d] # None /\ call'[c].no = call'[d].no => c = d
      BY <3>1 DEF Requested, FreshIds
    <3> QED
      BY <3>3, <3>4, <3>5, <3>6 DEF FreshIds
  <2>8. OneAnswer'
    <3>1. ASSUME NEW f \in net', f.no # 0 PROVE Answers(f, f.no)'
      <4>1. CASE f = e
        BY <2>1, <2>3, <2>4, <4>1 DEF Answers
      <4>2. CASE f \in net
        BY <2>4, <2>5, <3>1, <4>2 DEF Answers
      <4> QED
        BY <2>1, <4>1, <4>2
    <3>2. \A f \in net' : f.no = 0 => f.id = 0
      BY <2>1, <2>3, <2>5 DEF Requested, OneAnswer
    <3>3. \A f, g \in net' : f.no = g.no /\ f.no # 0 => f = g
      BY <2>1, <2>3, <2>5 DEF Requested, OneAnswer
    <3> QED
      BY <3>1, <3>2, <3>3 DEF OneAnswer
  <2>9. Unused' /\ LoginsConnect'
    BY <2>1, <2>4 DEF Requested, Unused, LoginsConnect
  <2>10. Consent'
    <3>1. req[n].key \in BootKeys /\ ok => req[n].key \in granted
      BY <2>1 DEF Requested, LoginsConnect, BunkerAssumption
    <3> QED
      BY <2>1, <2>3, <3>1 DEF Consent
  <2> QED
    BY <2>1, <2>6, <2>7, <2>8, <2>9, <2>10 DEF Requested, OwnAnswer, ConnectionIsGranted
<1>15. ASSUME NEW c \in Calls, NEW e \in net, Skip(c, e) PROVE BunkerInv'
  <2>1. UNCHANGED vars
    BY <1>15 DEF Skip, Continue, vars, login, signer
  <2> QED
    BY <2>1 DEF vars, TypeOK, Requested, FreshIds, OneAnswer, Answers, Unused, LoginsConnect,
                Consent, OwnAnswer, ConnectionIsGranted
<1>16. CASE UNCHANGED vars
  BY <1>16 DEF vars, TypeOK, Requested, FreshIds, OneAnswer, Answers, Unused, LoginsConnect,
               Consent, OwnAnswer, ConnectionIsGranted
<1> QED
  BY <1>1, <1>2, <1>3, <1>4, <1>5, <1>6, <1>7, <1>8, <1>9, <1>10, <1>11, <1>12, <1>13, <1>14,
     <1>15, <1>16 DEF Next, Receive

(* The inductive invariant of the requests to a signer. *)
THEOREM BunkerInvariant == Spec => []BunkerInv
BY InitInv, NextInv, PTL DEF Spec

(* The answer to a request is used for that request, and once
   (handleConnectResponse, getUserPubkeyFromBunker, SignEvent), for any number of
   calls that share a key and any order and repetition of events. *)
THEOREM AnswersAreOwn == Spec => []OwnAnswer
BY BunkerInvariant, PTL DEF BunkerInv

(* An id tells requests apart: a request has at most one answer, under its own
   id and key, and only one waiting call can take it. *)
THEOREM IdsTellApart == Spec => [](FreshIds /\ OneAnswer)
<1>1. BunkerInv => FreshIds /\ OneAnswer
  BY DEF BunkerInv, Requested
<1> QED
  BY <1>1, BunkerInvariant, PTL

(* A connection is held for a user only under a key that a signer has agreed to
   and for which it has named this user or spoken as them
   (handleConnectResponse, awaitNostrConnectACK). *)
THEOREM ConnectionsAreGranted == Spec => []ConnectionIsGranted
BY BunkerInvariant, PTL DEF BunkerInv
=============================================================================
