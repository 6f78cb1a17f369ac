------------------------------ MODULE Sessions ------------------------------
(***************************************************************************)
(* Logging in, refreshing a token and using it, over the Redis store that     *)
(* several requests use at once.  A session is two keys, the session by id  *)
(* and its id by token, and every step below is one Redis command: what     *)
(* holds between two commands of one request is open to the others.         *)
(*                                                                         *)
(* A token no key is found for is put to the signer service, whose answer   *)
(* makes a session without an id: such a session has the id Blank here.     *)
(* Tokens and ids are random in the code, hence never the same twice.       *)
(***************************************************************************)
EXTENDS Integers, FiniteSets

CONSTANTS
  Requests,      \* requests in progress at the same time
  Users,
  Challenges,
  SignerTokens,  \* tokens of the signer service
  SignerUser,    \* whose they all are
  Blank,         \* the empty session id
  Absent,
  Idle,
  MaxSessions,   \* bound: sessions opened by a login
  MaxTokens,     \* bound: tokens minted
  MaxRequests,   \* bound: requests that carry a token
  MaxFaults      \* bound: Redis commands that fail, and restarts

Ids    == 1..MaxSessions
Tokens == 1..MaxTokens
Kinds  == {"web", "nip46"}                 \* who asked for a challenge

Session == [user : Users, token : Tokens, lapsed : BOOLEAN]

(* A request between two of its steps: a login by one of three ways, or one that
   carries a token. *)
Request == [op : {"web", "nip07", "bunker", "get", "refresh", "expired"},
            pc : {"setId", "setIndex", "undo", "delChal", "index", "signer", "load",
                  "find", "delId", "delIndex"},
            chal : Challenges \union {Absent}, tok : Tokens \union SignerTokens \union {Absent},
            id : Ids \union {Blank, Absent}, user : Users \union {Absent},
            new : Tokens \union {Absent}, found : Tokens \union {Absent}]

ASSUME SessionsAssumption ==
  /\ IsFiniteSet(Requests) /\ SignerUser \in Users
  /\ MaxSessions \in Nat /\ MaxTokens \in Nat
  /\ MaxRequests \in Nat /\ MaxFaults \in Nat
  /\ SignerTokens \intersect Tokens = {}
  /\ Blank \notin Ids
  /\ Absent \notin Requests /\ Absent \notin Ids /\ Absent \notin Tokens 
  /\ Absent \notin Session /\ Absent \notin Kinds /\ Idle \notin Kinds /\ Absent \notin {Blank, Idle}

VARIABLES
  chal,       \* nip46:challenge:<id>
  sess,       \* session:<id>
  index,      \* session:token:<token>
  req,        \* the requests, between two of their steps
  opened, issued, begun, faults,
  known,      \* history: tokens a client has received
  redeemed,   \* history: sessions each challenge was signed into by the web flow
  loggedOut,  \* history: tokens a request to log out has been answered for
  contended,  \* history: sessions that another request or the clock touched while
              \* a refresh held them, or with a token Redis failed to delete
  retired     \* history: tokens of logins a refresh has answered for, with their session

vars == <<chal, sess, index, req, opened, issued, begun, faults,
          known, redeemed, loggedOut, contended, retired>>
store == <<chal, sess, index>>
ghosts == <<known, redeemed, loggedOut, contended, retired>>

Init ==
  /\ chal = [c \in Challenges |-> Idle]      \* not asked for yet
  /\ sess = [i \in Ids \union {Blank} |-> Absent]
  /\ index = [t \in Tokens |-> Absent]
  /\ req = [r \in Requests |-> Idle]
  /\ opened = 0 /\ issued = 0 /\ begun = 0 /\ faults = 0
  /\ known = {} /\ loggedOut = {} /\ contended = {} /\ retired = {}
  /\ redeemed = [c \in Challenges |-> 0]

-----------------------------------------------------------------------------
At(r, pc)   == req[r] # Idle /\ req[r].pc = pc
Goto(r, pc) == req' = [req EXCEPT ![r].pc = pc]
Reply(r)    == req' = [req EXCEPT ![r] = Idle]

(* The answer carries the request's new token. *)
Issue(r) == Reply(r) /\ known' = known \union {req[r].new}

(* StartChallenge and StartNIP46Auth. *)
SetNIP46Challenge(c, k) ==
  /\ chal[c] = Idle
  /\ chal' = [chal EXCEPT ![c] = k]
  /\ UNCHANGED <<sess, index, req, opened, issued, begun, faults, ghosts>>

(* A login gets a session of its own, its id and its token. *)
Open(r, c, how, u, pc) ==
  /\ opened < MaxSessions /\ issued < MaxTokens
  /\ req' = [req EXCEPT ![r] = [op |-> how, pc |-> pc, chal |-> c, tok |-> Absent,
                                id |-> opened + 1, user |-> u, new |-> issued + 1,
                                found |-> Absent]]
  /\ opened' = opened + 1 /\ issued' = issued + 1

(* Faulty variant: the challenge is read and left for the TTL. *)
PeekNIP46Challenge(c) == chal[c] \in Kinds /\ chal' = chal

(* GETDEL: one request gets the challenge. *)
ConsumeNIP46Challenge(c) == chal[c] \in Kinds /\ chal' = [chal EXCEPT ![c] = Absent]

(* The event's signature, kind and form are checked before the challenge is
   consumed, its content, tag and age after: one that does not fit has
   consumed the challenge all the same. *)
VerifyChallenge(r, c, u) ==
  /\ req[r] = Idle
  /\ ConsumeNIP46Challenge(c)
  /\ \/ /\ Open(r, c, "web", u, "setId")
        /\ redeemed' = [redeemed EXCEPT ![c] = @ + 1]
     \/ UNCHANGED <<req, opened, issued, redeemed>>
  /\ UNCHANGED <<sess, index, begun, faults, known, loggedOut, contended, retired>>

(* GET, the checks, and the session made from them; the challenge stays until
   the request has saved its session. *)
VerifyAuthSignature(r, c, u) ==
  /\ req[r] = Idle /\ chal[c] \in Kinds
  /\ Open(r, c, "nip07", u, "setId")
  /\ UNCHANGED <<store, begun, faults, ghosts>>

(* ConnectToBunker once the bunker has answered (BunkerRPC), before the session
   is saved. *)
ConnectToBunker(r, c, u) ==
  /\ req[r] = Idle /\ chal[c] = "nip46"
  /\ Open(r, c, "bunker", u, "setId")
  /\ UNCHANGED <<store, begun, faults, ghosts>>

(* handleConnectResponse deletes the challenge under the id of its request,
   where there is none. *)
Saved(r) ==
  LET q == req[r] IN
  CASE q.op = "nip07"   -> Goto(r, "delChal") /\ UNCHANGED <<known, retired>>
    [] q.op = "refresh" -> Issue(r) /\ retired' = retired \union
                             (IF q.tok \in Tokens /\ q.id # Blank THEN {<<q.tok, q.id>>} ELSE {})
    [] OTHER            -> Issue(r) /\ UNCHANGED retired

SaveSessionById(r) ==
  /\ At(r, "setId")
  /\ sess' = [sess EXCEPT ![req[r].id] = [user |-> req[r].user, token |-> req[r].new,
                                          lapsed |-> FALSE]]
  /\ Goto(r, "setIndex")
  /\ UNCHANGED <<chal, index, opened, issued, begun, faults, ghosts>>

SaveTokenIndex(r) ==
  /\ At(r, "setIndex")
  /\ index' = [index EXCEPT ![req[r].new] = req[r].id]
  /\ Saved(r)
  /\ UNCHANGED <<chal, sess, opened, issued, begun, faults,
                 redeemed, loggedOut, contended>>

(* SaveSession takes the session back when its index could not be set. *)
UndoSave(r) ==
  /\ At(r, "undo")
  /\ sess' = [sess EXCEPT ![req[r].id] = Absent]
  /\ Reply(r)
  /\ UNCHANGED <<chal, index, opened, issued, begun, faults, ghosts>>

DeleteNIP46Challenge(r) ==
  /\ At(r, "delChal")
  /\ chal' = [chal EXCEPT ![req[r].chal] = Absent]
  /\ Issue(r)
  /\ UNCHANGED <<sess, index, opened, issued, begun, faults,
                 redeemed, loggedOut, contended, retired>>

-----------------------------------------------------------------------------
(* A request with a token: AuthMiddleware before the handlers of the routes that
   have it, the same steps in RefreshToken and TokenInfo. *)
Present(r, op, t) ==
  /\ req[r] = Idle
  /\ begun < MaxRequests /\ begun' = begun + 1
  /\ t \in known \union SignerTokens
  /\ req' = [req EXCEPT ![r] = [op |-> op, pc |-> IF t \in Tokens THEN "index" ELSE "signer",
                                chal |-> Absent, tok |-> t, id |-> Absent, user |-> Absent,
                                new |-> Absent, found |-> Absent]]
  /\ UNCHANGED <<store, opened, issued, faults, ghosts>>

(* GetSessionByToken's first command. *)
LookUpToken(r) ==
  /\ At(r, "index")
  /\ LET i == index[req[r].tok] IN
     IF i = Absent THEN Reply(r)      \* the signer does not know the token either
     ELSE req' = [req EXCEPT ![r].pc = "load", ![r].id = i]
  /\ UNCHANGED <<store, opened, issued, begun, faults, ghosts>>

InHand(i) == {r \in Requests : req[r] # Idle /\ req[r].op = "refresh" /\ req[r].id = i
                                /\ req[r].pc # "load"}

Contend(i, r) == contended' = IF InHand(i) \subseteq {r} THEN contended
                                ELSE contended \union {i}

(* What each operation does with a session found good.  A refresh mints its
   token before it touches the store. *)
Accepted(r, i, u) ==
  LET q == req[r] IN
  /\ CASE q.op = "refresh" -> /\ issued < MaxTokens /\ issued' = issued + 1
                              /\ req' = [req EXCEPT ![r].pc = "find", ![r].id = i, ![r].user = u,
                                                    ![r].new = issued + 1]
                              /\ Contend(i, r)
       [] OTHER            -> Reply(r) /\ UNCHANGED <<issued, contended>>

(* Its second, and ValidateSession on the outcome.  The session found is taken
   as it is, whatever token it carries by now. *)
ValidateSession(r) ==
  /\ At(r, "load")
  /\ LET i == req[r].id  s == sess[i] IN
     IF s = Absent THEN Reply(r) /\ UNCHANGED <<issued, contended>>
     ELSE IF s.lapsed
     THEN /\ req' = [req EXCEPT ![r].op = "expired", ![r].pc = "find"]
          /\ UNCHANGED <<issued, contended>>
     ELSE Accepted(r, i, s.user)
  /\ UNCHANGED <<store, opened, begun, faults, known, redeemed, loggedOut, retired>>

(* A token of the signer's is in no index.  The signer accepts it, rejects it
   or does not answer; the cache repeats for two minutes an answer it gave. *)
validateSignerSession(r) ==
  /\ At(r, "signer")
  /\ \/ Accepted(r, Blank, SignerUser)
     \/ Reply(r) /\ UNCHANGED <<issued, contended>>
  /\ UNCHANGED <<store, opened, begun, faults, known, redeemed, loggedOut, retired>>

-----------------------------------------------------------------------------
(* POST /auth/logout: main.go registers it outside AuthMiddleware, so that no
   request comes with a session.  The handler answers 401 and returns before it
   gets to NIP46Handler.Logout, which nothing else calls. *)
Logout(t) ==
  /\ begun < MaxRequests /\ begun' = begun + 1
  /\ t \in known
  /\ loggedOut' = loggedOut \union {t}
  /\ UNCHANGED <<store, req, opened, issued, faults, known, redeemed, contended, retired>>

(* DeleteSession: GET for the token, DEL of the session, DEL of that token. *)
FindSession(r) ==
  /\ At(r, "find")
  /\ LET s == sess[req[r].id] IN
     req' = [req EXCEPT ![r].pc = "delId", ![r].found = IF s = Absent THEN Absent ELSE s.token]
  /\ UNCHANGED <<store, opened, issued, begun, faults, ghosts>>

DeleteSessionById(r) ==
  /\ At(r, "delId")
  /\ sess' = [sess EXCEPT ![req[r].id] = Absent]
  /\ Goto(r, "delIndex")
  /\ Contend(req[r].id, r)
  /\ UNCHANGED <<chal, index, opened, issued, begun, faults,
                 known, redeemed, loggedOut, retired>>

(* A refresh goes on to save the session it read under its new token. *)
Deleted(r) == IF req[r].op = "refresh" THEN Goto(r, "setId") ELSE Reply(r)

(* Faulty variant: the index is left for the TTL. *)
IndexKept(t) == index' = index

DelIndex(t) == index' = IF t \in Tokens THEN [index EXCEPT ![t] = Absent] ELSE index

DeleteTokenIndex(r) ==
  /\ At(r, "delIndex")
  /\ DelIndex(req[r].found)
  /\ Deleted(r)
  /\ UNCHANGED <<chal, sess, opened, issued, begun, faults, ghosts>>

-----------------------------------------------------------------------------
Fault == faults < MaxFaults /\ faults' = faults + 1

(* A Redis command fails: a few failures are passed over, the others end the
   request. *)
RedisError(r) ==
  /\ Fault /\ req[r] # Idle /\ req[r].pc # "signer"
  /\ LET pc == req[r].pc IN
     CASE pc = "delIndex" -> Deleted(r) /\ UNCHANGED known
                             /\ contended' = contended \union {req[r].id}
       [] pc = "setIndex" -> Goto(r, "undo") /\ UNCHANGED <<known, contended>>
       [] pc = "delChal"  -> Issue(r) /\ UNCHANGED contended
       [] OTHER           -> Reply(r) /\ UNCHANGED <<known, contended>>
  /\ UNCHANGED <<store, opened, issued, begun, redeemed, loggedOut, retired>>

(* A restart of the service ends the requests and forgets what is in memory. *)
Restart ==
  /\ Fault
  /\ req' = [r \in Requests |-> Idle]
  /\ UNCHANGED <<store, opened, issued, begun, ghosts>>

(* Time: a session passes its ExpiresAt; the keys go a little later, a token's
   never before the session it was saved with. *)
Lapse(i) ==
  /\ sess[i] # Absent /\ ~sess[i].lapsed
  /\ sess' = [sess EXCEPT ![i].lapsed = TRUE]
  /\ UNCHANGED <<chal, index, req, opened, issued, begun, faults, ghosts>>

Evict(i) ==
  /\ sess[i] # Absent /\ sess[i].lapsed
  /\ sess' = [sess EXCEPT ![i] = Absent]
  /\ Contend(i, Absent)
  /\ UNCHANGED <<chal, index, req, opened, issued, begun, faults,
                 known, redeemed, loggedOut, retired>>

EvictIndex(t) ==
  /\ index[t] # Absent
  /\ LET s == sess[index[t]] IN IF s = Absent THEN TRUE ELSE s.token # t
  /\ index' = [index EXCEPT ![t] = Absent]
  /\ UNCHANGED <<chal, sess, req, opened, issued, begun, faults, ghosts>>

EvictChallenge(c) ==
  /\ chal[c] \in Kinds
  /\ chal' = [chal EXCEPT ![c] = Absent]
  /\ UNCHANGED <<sess, index, req, opened, issued, begun, faults, ghosts>>

LogIn(r) == \E c \in Challenges, u \in Users :
  VerifyChallenge(r, c, u) \/ VerifyAuthSignature(r, c, u) \/ ConnectToBunker(r, c, u)

Step(r) ==
  \/ SaveSessionById(r) \/ SaveTokenIndex(r) \/ UndoSave(r) \/ DeleteNIP46Challenge(r)
  \/ LookUpToken(r) \/ ValidateSession(r) \/ validateSignerSession(r)
  \/ FindSession(r) \/ DeleteSessionById(r) \/ DeleteTokenIndex(r)

Next ==
  \/ \E r \in Requests :
       \/ LogIn(r) \/ Step(r) \/ RedisError(r)
       \/ \E op \in {"get", "refresh"}, t \in Tokens \union SignerTokens : Present(r, op, t)
  \/ \E c \in Challenges : EvictChallenge(c) \/ \E k \in Kinds : SetNIP46Challenge(c, k)
  \/ \E i \in Ids \union {Blank} : Lapse(i) \/ Evict(i)
  \/ \E t \in Tokens : EvictIndex(t) \/ Logout(t)
  \/ Restart

Spec == Init /\ [][Next]_vars

-----------------------------------------------------------------------------
(* Every token and session in the store was minted. *)
TypeOK ==
  /\ chal \in [Challenges -> Kinds \union {Absent, Idle}]
  /\ sess \in [Ids \union {Blank} -> Session \union {Absent}]
  /\ index \in [Tokens -> 1..opened \union {Blank, Absent}]
  /\ \A t \in Tokens : index[t] # Absent => t \in 1..issued
  /\ req \in [Requests -> Request \union {Idle}]
  /\ opened \in 0..MaxSessions /\ issued \in 0..MaxTokens
  /\ begun \in 0..MaxRequests /\ faults \in 0..MaxFaults
  /\ known \subseteq 1..issued /\ redeemed \in [Challenges -> 0..1]
  /\ loggedOut \subseteq known /\ contended \subseteq Ids \union {Blank}
  /\ retired \subseteq known \X (1..opened)

(* A challenge signs a user in once by the web flow, however many requests
   carry its event at the same time (VerifyChallenge, ConsumeNIP46Challenge). *)
OneSessionPerChallenge == \A c \in Challenges : redeemed[c] <= 1

(* Once a refresh has answered, the token it was given opens nothing, as long as
   nothing else refreshed, deleted or expired the session meanwhile and Redis
   deleted what it was told to (RefreshToken). *)
OldTokenIsDead ==
  \A p \in retired : p[2] \in contended \/ index[p[1]] = Absent

(* What docs/API.md promises of POST /auth/logout, "Logout and invalidate
   session.": once the request has been answered, its token finds no session
   (Handler.Logout). *)
LogoutInvalidates ==
  \A t \in loggedOut : index[t] = Absent \/ sess[index[t]] = Absent
=============================================================================
