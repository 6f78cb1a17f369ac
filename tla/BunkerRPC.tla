----------------------------- MODULE BunkerRPC ------------------------------
(***************************************************************************)
(* Talking to a user's signer (a NIP-46 bunker) over a relay.  Every request *)
(* is an event under a client key, and every answer one addressed to that   *)
(* key: all calls that use the key see all of them, late, repeated and in   *)
(* any order, and pick out their own by the id of the request.              *)
(*                                                                         *)
(* A key is made for a bunker login, and kept with its challenge, or for a  *)
(* nostrconnect bootstrap, where the signer speaks first.  Which user a     *)
(* login is for, the bunker says, and it may name anybody.  The bunker and  *)
(* the relay are external: an event once sent may be delivered at any time, *)
(* any number of times, or never.                                           *)
(*                                                                         *)
(* The connections are those of one replica, which are in its memory.       *)
(***************************************************************************)
EXTENDS Integers, Sequences, FiniteSets

CONSTANTS
  Users,
  LoginKeys,     \* client keys of bunker logins
  BootKeys,      \* client keys of nostrconnect bootstraps
  Calls,         \* calls in progress at the same time
  None,
  MaxRequests    \* bound: requests published

Keys    == LoginKeys \union BootKeys
Numbers == 1..MaxRequests

Methods == {"connect", "get_public_key", "rpc"}   \* rpc: sign_event, nip44_encrypt, nip44_decrypt
Request == [key : Keys, method : Methods, id : Numbers, answered : BOOLEAN]
Call    == [no : Numbers, due : BOOLEAN]

(* A message of the signer under a key: the id it carries and the user it names;
   no, the request the signer made it for, is not in the message. *)
Event   == [key : Keys, id : 0..MaxRequests, ok : BOOLEAN, user : Users \union {None},
            no : 0..MaxRequests]

ASSUME BunkerAssumption ==
  /\ LoginKeys \intersect BootKeys = {} /\ IsFiniteSet(Calls) /\ MaxRequests \in Nat
  /\ None \notin Users \union Keys \union Request \union Call

VARIABLES
  chal,      \* challenges of the login keys: not made, in Redis, expired
  boot,      \* bootstraps: not begun, waiting for the signer, over
  whose,     \* the user a bootstrap was begun for
  conns,     \* connections: the client key in use for a user
  call,      \* the calls, each waiting for the answer to its request
  req,       \* the requests published so far, by number
  sent,      \* how many they are
  net,       \* events the bunker and the signer have sent
  granted,   \* history: keys a signer has agreed to
  named,     \* history: for which key a signer has named, or spoken for, which user
  takers     \* history: the requests for which the answer to each request was used

vars == <<chal, boot, whose, conns, call, req, sent, net, granted, named, takers>>
login == <<chal, boot, whose>>
signer == <<net, granted, named>>

Init ==
  /\ chal = [k \in LoginKeys |-> "none"]
  /\ boot = [b \in BootKeys |-> "none"] /\ whose = [b \in BootKeys |-> None]
  /\ conns = [u \in Users |-> None]
  /\ call = [c \in Calls |-> None]
  /\ req = [n \in Numbers |-> None] /\ sent = 0
  /\ net = {} /\ granted = {} /\ named = {}
  /\ takers = [n \in Numbers |-> <<>>]

-----------------------------------------------------------------------------
Mine(c)       == req[call[c].no]
Waiting(c, M) == call[c] # None /\ Mine(c).method \in M
Return(c)     == call' = [call EXCEPT ![c] = None]

(* Sixteen random bytes, never the same twice. *)
generateRandomHex == sent + 1

(* Subscribe to the key's events, publish under a fresh id and start the
   timer, which runs from here on and not from the last event. *)
Publish(c, k, m) ==
  /\ sent < MaxRequests
  /\ sent' = sent + 1
  /\ req' = [req EXCEPT ![sent + 1] = [key |-> k, method |-> m, id |-> generateRandomHex,
                                       answered |-> FALSE]]
  /\ call' = [call EXCEPT ![c] = [no |-> sent + 1, due |-> FALSE]]

(* The client key is made here. *)
CreateAuthChallenge(k) ==
  /\ chal[k] = "none"
  /\ chal' = [chal EXCEPT ![k] = "live"]
  /\ UNCHANGED <<boot, whose, conns, call, req, sent, signer, takers>>

ChallengeExpires(k) ==
  /\ chal[k] = "live"
  /\ chal' = [chal EXCEPT ![k] = "gone"]
  /\ UNCHANGED <<boot, whose, conns, call, req, sent, signer, takers>>

(* The key comes with the challenge: a second attempt uses the first's. *)
ConnectToBunker(c, k) ==
  /\ call[c] = None /\ chal[k] = "live"
  /\ Publish(c, k, "connect")
  /\ UNCHANGED <<login, conns, signer, takers>>

(* Faulty variant: the id of the answer is not compared. *)
AnyAnswer(c, e) == e.ok

(* handleConnectResponse: no error, and the id of this request. *)
Acknowledges(c, e) == e.ok /\ e.id = Mine(c).id

(* The call goes by this answer, which the signer made for request e.no. *)
Use(c, e) == takers' = [takers EXCEPT ![e.no] = Append(@, call[c].no)]

(* The first event on the key decides: anything else than this request's good
   answer fails the login.  A good one is followed by get_public_key. *)
handleConnectResponse(c, e) ==
  /\ Waiting(c, {"connect"}) /\ e.key = Mine(c).key
  /\ IF Acknowledges(c, e)
     THEN Publish(c, e.key, "get_public_key") /\ Use(c, e)
     ELSE Return(c) /\ UNCHANGED <<req, sent, takers>>
  /\ UNCHANGED <<login, conns, signer>>

(* getUserPubkeyFromBunker: the loop ends with this request's result, the
   connection is entered for the user it names, whoever that is, and the session
   saved (Sessions).  The challenge is deleted under the request's id, that is,
   it stays. *)
getUserPubkeyFromBunker(c, e) ==
  /\ Waiting(c, {"get_public_key"})
  /\ e.key = Mine(c).key /\ e.id = Mine(c).id /\ e.ok
  /\ conns' = [conns EXCEPT ![e.user] = e.key]
  /\ Use(c, e) /\ Return(c)
  /\ UNCHANGED <<login, req, sent, signer>>

(* SignEvent, EncryptContent and DecryptContent, which differ in what they ask
   for, take the connection as it is now: a new login does not reach a call
   under way. *)
SignEvent(c, u) ==
  /\ call[c] = None /\ conns[u] # None
  /\ Publish(c, conns[u], "rpc")
  /\ UNCHANGED <<login, conns, signer, takers>>

(* The result, or the bunker's error, is returned. *)
SignResponse(c, e) ==
  /\ Waiting(c, {"rpc"})
  /\ e.key = Mine(c).key /\ e.id = Mine(c).id
  /\ Use(c, e) /\ Return(c)
  /\ UNCHANGED <<login, conns, req, sent, signer>>

(* Faulty variant: the timer is made anew for every event, as time.After in the loop
   would. *)
WaitAfresh(c) == call' = [call EXCEPT ![c].due = FALSE]

(* The loop goes on: the timer does too. *)
Continue(c) == call' = call

(* An event that is not the answer: another request's, or an error in answer
   to get_public_key. *)
Skip(c, e) ==
  /\ Waiting(c, Methods \ {"connect"}) /\ e.key = Mine(c).key
  /\ e.id # Mine(c).id \/ (~e.ok /\ Mine(c).method = "get_public_key")
  /\ Continue(c)
  /\ UNCHANGED <<login, conns, req, sent, signer, takers>>

TimerFires(c) ==
  /\ call[c] # None /\ ~call[c].due
  /\ call' = [call EXCEPT ![c].due = TRUE]
  /\ UNCHANGED <<login, conns, req, sent, signer, takers>>

Timeout(c) ==
  /\ call[c] # None /\ call[c].due
  /\ Return(c)
  /\ UNCHANGED <<login, conns, req, sent, signer, takers>>

(* The client hangs up: ctx.Done. *)
Cancel(c) ==
  /\ call[c] # None
  /\ Return(c)
  /\ UNCHANGED <<login, conns, req, sent, signer, takers>>

-----------------------------------------------------------------------------
(* By a user who is logged in, for themselves. *)
InitiateNostrConnect(b, u) ==
  /\ boot[b] = "none"
  /\ boot' = [boot EXCEPT ![b] = "waiting"] /\ whose' = [whose EXCEPT ![b] = u]
  /\ UNCHANGED <<chal, conns, call, req, sent, signer, takers>>

(* Faulty variant: any event of the signer is taken for its consent. *)
awaitAnything(b, e) ==
  /\ boot[b] = "waiting" /\ e.key = b
  /\ conns' = [conns EXCEPT ![whose[b]] = b]
  /\ boot' = [boot EXCEPT ![b] = "over"]
  /\ UNCHANGED <<chal, whose, call, req, sent, signer, takers>>

(* awaitNostrConnectACK: the secret, "ack" or "pong" enter the connection,
   whatever it is by now; any other event is passed over. *)
awaitNostrConnectACK(b, e) ==
  /\ boot[b] = "waiting" /\ e.key = b /\ e.ok
  /\ conns' = [conns EXCEPT ![whose[b]] = b]
  /\ boot' = [boot EXCEPT ![b] = "over"]
  /\ UNCHANGED <<chal, whose, call, req, sent, signer, takers>>

(* The relay is out of reach, the subscription closed, or 90 seconds gone:
   cleanupBootstrapState. *)
BootstrapEnds(b) ==
  /\ boot[b] = "waiting"
  /\ boot' = [boot EXCEPT ![b] = "over"]
  /\ UNCHANGED <<chal, whose, conns, call, req, sent, signer, takers>>

(* A restart leaves only what is in Redis. *)
Restart ==
  /\ conns' = [u \in Users |-> None] /\ call' = [c \in Calls |-> None]
  /\ boot' = [b \in BootKeys |-> IF boot[b] = "waiting" THEN "over" ELSE boot[b]]
  /\ UNCHANGED <<chal, whose, req, sent, signer, takers>>

(* External: the bunker answers a request once and under its id, as often as not
   after it was given up; a good answer to connect admits the key, and only an
   admitted key gets any other good answer.  Asked for the user's public key it
   names whom it likes. *)
BunkerAnswers(n, ok, u) ==
  /\ req[n] # None /\ ~req[n].answered
  /\ ok => req[n].method = "connect" \/ req[n].key \in granted
  /\ u \in IF ok /\ req[n].method = "get_public_key" THEN Users ELSE {None}
  /\ req' = [req EXCEPT ![n].answered = TRUE]
  /\ net' = net \union {[key |-> req[n].key, id |-> req[n].id, ok |-> ok, user |-> u, no |-> n]}
  /\ granted' = IF ok THEN granted \union {req[n].key} ELSE granted
  /\ named' = IF u = None THEN named ELSE named \union {<<req[n].key, u>>}
  /\ UNCHANGED <<login, conns, call, sent, takers>>

(* External: the signer of the bootstrap's user, once shown the URI.  A message
   of anybody else cannot be decrypted. *)
SignerSpeaks(b, ok) ==
  /\ boot[b] # "none"
  /\ net' = net \union {[key |-> b, id |-> 0, ok |-> ok, user |-> None, no |-> 0]}
  /\ granted' = IF ok THEN granted \union {b} ELSE granted
  /\ named' = IF ok THEN named \union {<<b, whose[b]>>} ELSE named
  /\ UNCHANGED <<login, conns, call, req, sent, takers>>

Receive(c, e) ==
  \/ handleConnectResponse(c, e) \/ getUserPubkeyFromBunker(c, e)
  \/ SignResponse(c, e) \/ Skip(c, e)

Next ==
  \/ \E k \in LoginKeys : CreateAuthChallenge(k) \/ ChallengeExpires(k)
  \/ \E c \in Calls :
       \/ \E k \in LoginKeys : ConnectToBunker(c, k)
       \/ \E u \in Users : SignEvent(c, u)
       \/ \E e \in net : Receive(c, e)
       \/ TimerFires(c) \/ Timeout(c) \/ Cancel(c)
  \/ \E b \in BootKeys :
       \/ \E u \in Users : InitiateNostrConnect(b, u)
       \/ BootstrapEnds(b)
       \/ \E e \in net : awaitNostrConnectACK(b, e)
       \/ \E ok \in BOOLEAN : SignerSpeaks(b, ok)
  \/ Restart
  \/ \E n \in Numbers, ok \in BOOLEAN, u \in Users \union {None} : BunkerAnswers(n, ok, u)

(* Timers fire and a goroutine whose timer has fired gets to see it; nothing is
   assumed of the bunker or of the relay. *)
Fairness ==
  /\ \A c \in Calls : WF_vars(TimerFires(c)) /\ WF_vars(Timeout(c))
  /\ \A b \in BootKeys : WF_vars(BootstrapEnds(b))

Spec == Init /\ [][Next]_vars /\ Fairness

-----------------------------------------------------------------------------
TypeOK ==
  /\ chal \in [LoginKeys -> {"none", "live", "gone"}]
  /\ boot \in [BootKeys -> {"none", "waiting", "over"}]
  /\ whose \in [BootKeys -> Users \union {None}]
  /\ conns \in [Users -> Keys \union {None}]
  /\ call \in [Calls -> Call \union {None}]
  /\ req \in [Numbers -> Request \union {None}] /\ sent \in 0..MaxRequests
  /\ net \subseteq Event /\ granted \subseteq Keys /\ named \subseteq Keys \X Users
  /\ takers \in [Numbers -> Seq(Numbers)]

(* What the signer made for one request is used for that request and for it
   alone, and once: neither a late answer to an earlier attempt under the same
   key, nor another call's, nor one the relay repeats is taken for an answer
   (handleConnectResponse, getUserPubkeyFromBunker and SignEvent, which go by the
   id in the message). *)
OwnAnswer == \A n \in Numbers : takers[n] \in {<<>>, <<n>>}

(* A connection held for a user is under a client key that a signer has agreed
   to, so that every later request can be answered, and for which that signer has
   named this very user or spoken as them (handleConnectResponse,
   awaitNostrConnectACK).  That a bunker names the user it signs for is taken
   from it unchecked. *)
ConnectionIsGranted ==
  \A u \in Users : conns[u] # None => conns[u] \in granted /\ <<conns[u], u>> \in named

(* A call that waits for the bunker returns, though the bunker never answers
   and the relay keeps repeating other calls' events (the 10 and 30 second
   timers of getUserPubkeyFromBunker, SignEvent and their like). *)
CallsReturn == \A c \in Calls : call[c] # None ~> call[c] = None
=============================================================================
