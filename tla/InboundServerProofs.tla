------------------------ MODULE InboundServerProofs ------------------------
(* Proofs about InboundServer and Reports, for any senders, messages,         *)
(* recipients, addresses, sessions, configuration and number of failures, and *)
(* about InboundLimiter, for any hosts, limits and traffic.                   *)
EXTENDS InboundServer, InboundLimiter, FiniteSetTheorems, WellFoundedInduction, TLAPS

(* The owner has given the address up since the start, or the one it stands for. *)
Moved(a) == {a, Base[a]} \cap Registered # {a, Base[a]} \cap active

(* What an answer of 250 for message m promises about recipient a. *)
Kept(m, a) ==
  \/ \E b \in bounces \cup complaints : b.report = m
  \/ Moved(a)
  \/ Copies(resolveRecipientPubkey(a), m) # {}

(* The message of a transaction: its SPF verdict is its own. *)
EnvelopeOK(q) ==
  q.phase # "ready" => /\ q.mail \in DOMAIN spool /\ Mail[q.mail].from # "invalid"
                       /\ Checked(q.mail) => q.spfOf = q.mail
                       /\ q.to \subseteq ToSet(Mail[q.mail].to)

(* Its recipients: somebody was found for each of them, and those dealt with
   have their copy by the time the answer is given. *)
RecipientsOK(q) ==
  /\ q.phase = "ready" => q.to = {}
  /\ q.phase \notin {"store", "attach"} => q.left = {}
  /\ \A a \in q.to : Moved(a) \/ resolveRecipientPubkey(a) # None

Promising(q) == q.phase \in {"store", "attach"} \/ (q.phase = "answer" /\ q.code = 250)

PromiseOK(q) == Promising(q) /\ q.mail \notin lossy => \A a \in q.to \ q.left : Kept(q.mail, a)

SessionOK(q) == EnvelopeOK(q) /\ RecipientsOK(q) /\ PromiseOK(q)

(* No mailbox has two rows of one Message-ID. *)
RowsApart ==
  \A e, f \in emails :
    e.box = f.box /\ Mail[e.mail].mid # None /\ Mail[e.mail].mid = Mail[f.mail].mid => e = f

InboundInv ==
  /\ TypeOK
  /\ \A s \in Sessions : session[s] # Closed => SessionOK(session[s])
  /\ RowsApart /\ AcceptedIsKept /\ ComplaintsAreNotBounces /\ VerdictIsItsOwn
-----------------------------------------------------------------------------
(* A set of numbers that is not empty has a least one, *)
LEMMA LeastNat ==
  ASSUME NEW S \in SUBSET Nat, S # {}
  PROVE  Min(S) \in S /\ \A y \in S : Min(S) <= y
<1>1. IsWellFoundedOn(OpToRel(<, Nat), Nat)
  BY NatLessThanWellFounded
<1>2. PICK x \in S : \A y \in S : ~(<<y, x>> \in OpToRel(<, Nat))
  BY <1>1, WFMin
<1>3. \A y \in S : x =< y
  <2> SUFFICES ASSUME NEW y \in S, y < x PROVE FALSE
    OBVIOUS
  <2>1. <<y, x>> \in Nat \X Nat /\ <<y, x>>[1] < <<y, x>>[2]
    OBVIOUS
  <2>2. <<y, x>> \in {ss \in Nat \X Nat : ss[1] < ss[2]}
    BY <2>1, Zenon
  <2>3. <<y, x>> \in OpToRel(<, Nat)
    BY <2>2 DEF OpToRel
  <2> QED
    BY <1>2, <2>3
<1> QED
  BY <1>3 DEF Min

(* and a bounded one a largest. *)
LEMMA LastNat ==
  ASSUME NEW n \in Nat, NEW S \in SUBSET (1..n), S # {}
  PROVE  Max(S) \in S /\ \A y \in S : Max(S) >= y
<1> DEFINE T == {n - x : x \in S}
<1>0. \A x \in S : n - x \in Nat /\ x \in Nat
  OBVIOUS
<1>1. T \in SUBSET Nat /\ T # {}
  <2>1. PICK x \in S : TRUE
    OBVIOUS
  <2>2. n - x \in T
    OBVIOUS
  <2> QED
    BY <1>0, <2>2
<1>2. Min(T) \in T /\ \A y \in T : Min(T) <= y
  BY <1>1, LeastNat
<1>3. PICK x \in S : Min(T) = n - x
  BY <1>2
<1>4. ASSUME NEW y \in S PROVE x >= y
  <2>1. n - y \in T
    OBVIOUS
  <2>2. n - x <= n - y
    BY <1>2, <1>3, <2>1
  <2> QED
    BY <1>0, <2>2
<1> QED
  BY <1>4 DEF Max

(* A set without two elements. *)
LEMMA AtMostOne ==
  ASSUME NEW S, \A x, y \in S : x = y
  PROVE  Cardinality(S) <= 1
<1>1. CASE S = {}
  BY <1>1, FS_EmptySet
<1>2. CASE S # {}
  <2>1. PICK x : S = {x}
    BY <1>2
  <2> QED
    BY <2>1, FS_Singleton
<1> QED
  BY <1>1, <1>2

(* The recipient dealt with first is one of those left. *)
LEMMA FirstIsNamed ==
  ASSUME NEW m \in Mails, NEW as, as \cap ToSet(Mail[m].to) # {}
  PROVE  First(m, as) \in as \cap ToSet(Mail[m].to)
<1> DEFINE I == {i \in DOMAIN Mail[m].to : Mail[m].to[i] \in as}
<1>1. Mail[m].to \in Seq(Addresses \cup Unserved)
  BY InboundAssumption
<1>2. I \in SUBSET Nat /\ I # {}
  <2>1. DOMAIN Mail[m].to \subseteq Nat
    BY <1>1
  <2>2. PICK a \in as : a \in ToSet(Mail[m].to)
    OBVIOUS
  <2>3. PICK i \in DOMAIN Mail[m].to : a = Mail[m].to[i]
    BY <2>2 DEF ToSet
  <2> QED
    BY <2>1, <2>3
<1>3. Min(I) \in I
  BY <1>2, LeastNat
<1> QED
  BY <1>3 DEF First, ToSet

(* Whose mailbox an address leads to. *)
LEMMA ResolvesToUser ==
  ASSUME TypeOK, NEW a
  PROVE  resolveRecipientPubkey(a) \in Users \cup {None}
<1>1. active \subseteq Addresses
  BY InboundAssumption DEF TypeOK
<1> QED
  BY <1>1, InboundAssumption DEF resolveRecipientPubkey

(* Whom a report is charged to. *)
LEMMA ResolvesToSender ==
  ASSUME ReportsTypeOK, NEW id, NEW r
  PROVE  \/ resolveSender(id, r) = None
         \/ \E i \in 1..queued : /\ resolveSender(id, r) = outbox[i].sender
                                 /\ \/ id # None /\ outbox[i].id = id
                                    \/ /\ id = None \/ ByMessageID(id) = {}
                                       /\ i > aged /\ r \in outbox[i].rcpts
<1>0. queued \in Nat /\ aged \in Nat
  BY DEF ReportsTypeOK
<1>1. CASE id # None /\ ByMessageID(id) # {}
  <2>1. ByMessageID(id) \in SUBSET (1..queued)
    BY DEF ByMessageID
  <2>2. Max(ByMessageID(id)) \in ByMessageID(id)
    BY <1>0, <1>1, <2>1, LastNat
  <2> QED
    BY <1>1, <2>2 DEF resolveSender, ByMessageID
<1>2. CASE ~(id # None /\ ByMessageID(id) # {}) /\ r # None /\ ByRecipient(r) # {}
  <2>1. ByRecipient(r) \in SUBSET (1..queued)
    BY <1>0 DEF ByRecipient
  <2>2. Max(ByRecipient(r)) \in ByRecipient(r)
    BY <1>0, <1>2, <2>1, LastNat
  <2>3. /\ Max(ByRecipient(r)) \in 1..queued /\ Max(ByRecipient(r)) > aged
        /\ r \in outbox[Max(ByRecipient(r))].rcpts
    BY <1>0, <2>2 DEF ByRecipient
  <2> QED
    BY <1>2, <2>3 DEF resolveSender
<1>3. CASE ~(id # None /\ ByMessageID(id) # {}) /\ ~(r # None /\ ByRecipient(r) # {})
  BY <1>3 DEF resolveSender
<1> QED
  BY <1>1, <1>2, <1>3

(* An element of a sequence. *)
LEMMA ElementType ==
  ASSUME NEW S, NEW q \in Seq(S), NEW i \in 1..Len(q)
  PROVE  q[i] \in S
OBVIOUS

(* A sender is an account or nobody. *)
LEMMA SenderType ==
  ASSUME ReportsTypeOK, NEW i \in 1..queued
  PROVE  /\ outbox[i].sender \in Users \cup {None} /\ outbox[i].id \in MessageIDs
         /\ outbox[i].rcpts \subseteq Correspondents /\ i \in DOMAIN outbox
<1>1. /\ outbox \in Seq([sender : Users \cup {None}, id : MessageIDs, rcpts : SUBSET Correspondents,
                        fate : Diagnostics])
      /\ queued \in 0..Len(outbox)
  BY DEF ReportsTypeOK, Outbound
<1>2. i \in 1..Len(outbox)
  BY <1>1
<1>3. outbox[i] \in [sender : Users \cup {None}, id : MessageIDs, rcpts : SUBSET Correspondents,
                    fate : Diagnostics]
  BY <1>1, <1>2, ElementType
<1> QED
  BY <1>1, <1>2, <1>3
-----------------------------------------------------------------------------
(* No step takes back a copy, a report or a failure. *)
Grows ==
  /\ active' \subseteq active /\ active \subseteq Registered
  /\ bounces \subseteq bounces' /\ complaints \subseteq complaints' /\ lossy \subseteq lossy'
  /\ DOMAIN spool' = DOMAIN spool
  /\ \A e \in emails : \E f \in emails' : f.box = e.box /\ f.mail = e.mail

(* An address that still leads to its mailbox leads to the one it led to. *)
LEMMA AddressStays ==
  ASSUME Grows, NEW a
  PROVE  /\ Moved(a) => Moved(a)'
         /\ ~Moved(a)' => resolveRecipientPubkey(a)' = resolveRecipientPubkey(a)
<1>1. Moved(a) => Moved(a)'
  BY DEF Grows, Moved
<1>2. ASSUME ~Moved(a)' PROVE resolveRecipientPubkey(a)' = resolveRecipientPubkey(a)
  <2>1. (a \in active' <=> a \in active) /\ (Base[a] \in active' <=> Base[a] \in active)
    BY <1>2 DEF Grows, Moved
  <2> QED
    BY <2>1 DEF resolveRecipientPubkey
<1> QED
  BY <1>1, <1>2

(* What was promised stays true. *)
LEMMA KeptStays ==
  ASSUME Grows, NEW m, NEW a, Kept(m, a)
  PROVE  Kept(m, a)'
<1>1. CASE \E b \in bounces \cup complaints : b.report = m
  BY <1>1 DEF Grows, Kept
<1>2. CASE Moved(a)'
  BY <1>2 DEF Kept
<1>3. CASE ~Moved(a)' /\ Copies(resolveRecipientPubkey(a), m) # {}
  <2>1. PICK u : u = resolveRecipientPubkey(a) /\ u = resolveRecipientPubkey(a)'
    BY <1>3, AddressStays
  <2>2. PICK e \in emails : e.box = u /\ Same(m, e.mail)
    BY <1>3, <2>1 DEF Copies
  <2>3. PICK f \in emails' : f.box = u /\ Same(m, f.mail)
    BY <2>2 DEF Grows, Same
  <2>4. \E g \in emails' : g.box = resolveRecipientPubkey(a)' /\ Same(m, g.mail)
    BY <2>1, <2>3
  <2> QED
    BY <2>4 DEF Kept, Copies, Same
<1> QED
  BY <1>1, <1>2, <1>3, AddressStays DEF Kept

(* A session left alone is as it was. *)
LEMMA SessionStays ==
  ASSUME Grows, NEW q \in SessionState, SessionOK(q)
  PROVE  SessionOK(q)'
<1>1. EnvelopeOK(q)'
  BY DEF SessionOK, EnvelopeOK, Grows, Checked
<1>2. RecipientsOK(q)'
  BY AddressStays DEF SessionOK, RecipientsOK
<1>3. PromiseOK(q)'
  <2> SUFFICES ASSUME Promising(q), q.mail \notin lossy', NEW a \in q.to \ q.left
               PROVE  Kept(q.mail, a)'
    BY DEF PromiseOK, Promising
  <2>1. PICK m : m = q.mail
    OBVIOUS
  <2>2. Kept(m, a)
    BY <2>1 DEF SessionOK, PromiseOK, Grows
  <2>3. Kept(m, a)'
    BY <2>2, KeptStays
  <2> QED
    BY <2>1, <2>3
<1> QED
  BY <1>1, <1>2, <1>3 DEF SessionOK

(* What a sender is told goes on holding, and what it is told anew is kept. *)
LEMMA AcksKeep ==
  ASSUME AcceptedIsKept, Grows, DOMAIN acked' = DOMAIN acked,
         \A m \in DOMAIN acked : \A a \in acked'[m] : a \in acked[m] \/ m \in lossy' \/ Kept(m, a)'
  PROVE  AcceptedIsKept'
<1> SUFFICES ASSUME NEW m \in DOMAIN acked', m \notin lossy', NEW a \in acked'[m]
             PROVE  Kept(m, a)'
  BY DEF AcceptedIsKept, Kept, Moved
<1>1. CASE a \in acked[m]
  <2>1. Kept(m, a)
    BY <1>1 DEF AcceptedIsKept, Kept, Moved, Grows
  <2> QED
    BY <2>1, KeptStays
<1>2. CASE a \notin acked[m]
  BY <1>2
<1> QED
  BY <1>1, <1>2

(* A step of session s. *)
LEMMA StepKeeps ==
  ASSUME InboundInv, TypeOK', Grows, NEW s \in Sessions, NEW x \in SessionState \cup {Closed},
         session' = [session EXCEPT ![s] = x],
         x # Closed => x \in SessionState /\ SessionOK(x)',
         RowsApart', AcceptedIsKept', ComplaintsAreNotBounces', VerdictIsItsOwn'
  PROVE  InboundInv'
<1>0. session \in [Sessions -> SessionState \cup {Closed}]
  BY DEF InboundInv, TypeOK
<1>1. ASSUME NEW t \in Sessions, session'[t] # Closed PROVE SessionOK(session[t])'
  <2>1. PICK q \in SessionState : q = session'[t] /\ SessionOK(q)'
    <3>1. CASE t = s
      BY <1>0, <1>1, <3>1
    <3>2. CASE t # s
      <4>1. session[t] = session'[t] /\ session[t] \in SessionState /\ SessionOK(session[t])
        BY <1>0, <1>1, <3>2 DEF InboundInv
      <4>2. PICK q \in SessionState : q = session'[t] /\ SessionOK(q)
        BY <4>1
      <4>3. SessionOK(q)'
        BY <4>2, SessionStays
      <4> QED
        BY <4>2, <4>3
    <3> QED
      BY <3>1, <3>2
  <2> QED
    BY <2>1 DEF SessionOK, EnvelopeOK, RecipientsOK, PromiseOK, Promising
<1> QED
  BY <1>1 DEF InboundInv

(* A step of nobody's session. *)
LEMMA OutsideKeeps ==
  ASSUME InboundInv, TypeOK', Grows,
         session' = session \/ session' = [s \in Sessions |-> Closed],
         RowsApart', AcceptedIsKept', ComplaintsAreNotBounces', VerdictIsItsOwn'
  PROVE  InboundInv'
<1>0. session \in [Sessions -> SessionState \cup {Closed}]
  BY DEF InboundInv, TypeOK
<1>1. ASSUME NEW t \in Sessions, session'[t] # Closed PROVE SessionOK(session[t])'
  <2>1. session'[t] = session[t] /\ session[t] \in SessionState /\ SessionOK(session[t])
    BY <1>0, <1>1 DEF InboundInv
  <2>2. PICK q \in SessionState : q = session'[t] /\ SessionOK(q)
    BY <2>1
  <2>3. SessionOK(q)'
    BY <2>2, SessionStays
  <2> QED
    BY <2>2, <2>3 DEF SessionOK, EnvelopeOK, RecipientsOK, PromiseOK, Promising
<1> QED
  BY <1>1 DEF InboundInv
-----------------------------------------------------------------------------
(* The messages of the behaviour, and their recipients. *)
LEMMA SpoolType ==
  ASSUME TypeOK
  PROVE  /\ DOMAIN spool \subseteq Mails /\ DOMAIN acked = DOMAIN spool
         /\ spool \in [DOMAIN spool -> SUBSET (Addresses \cup Unserved)]
         /\ acked \in [DOMAIN spool -> SUBSET Addresses]
BY DEF TypeOK

(* Nothing has been sent yet. *)
LEMMA InitInv == Init => InboundInv
<1> SUFFICES ASSUME Init PROVE InboundInv
  OBVIOUS
<1>1. PICK batch \in Batches : /\ InitReports(batch.outbox)
                               /\ spool = [m \in batch.mails |-> ToSet(Mail[m].to)]
                               /\ acked = [m \in batch.mails |-> {}]
  BY DEF Init
<1>2. batch.mails \subseteq Mails /\ batch.outbox \in Outbound
  BY InboundAssumption
<1>3. TypeOK
  <2>1. \A m \in batch.mails : ToSet(Mail[m].to) \subseteq Addresses \cup Unserved
    <3> SUFFICES ASSUME NEW m \in batch.mails, NEW i \in DOMAIN Mail[m].to
                 PROVE  Mail[m].to[i] \in Addresses \cup Unserved
      BY DEF ToSet
    <3>1. Mail[m].to \in Seq(Addresses \cup Unserved)
      BY <1>2, InboundAssumption
    <3> QED
      BY <3>1
  <2>2. /\ spool \in [batch.mails -> SUBSET (Addresses \cup Unserved)]
        /\ acked \in [batch.mails -> SUBSET Addresses]
    BY <1>1, <2>1
  <2>3. \A m \in DOMAIN spool : spool[m] \subseteq ToSet(Mail[m].to) \ acked[m]
    BY <1>1
  <2>4. ReportsTypeOK
    <3>1. Len(outbox) \in Nat /\ outbox = batch.outbox /\ outbox \in Outbound
      BY <1>1, <1>2 DEF InitReports, Outbound
    <3>2. \A i, j \in DOMAIN outbox : outbox[i].id = outbox[j].id => i = j
      BY <3>1, InboundAssumption
    <3> QED
      BY <1>1, <3>1, <3>2 DEF InitReports, ReportsTypeOK
  <2>5. faults \in 0..MaxFaults
    BY InboundAssumption DEF Init
  <2>6. emails \subseteq Row /\ IsFiniteSet(emails)
    BY FS_EmptySet DEF Init
  <2> QED
    BY <1>2, <2>2, <2>3, <2>4, <2>5, <2>6 DEF Init, TypeOK
<1>4. AcceptedIsKept
  BY <1>1 DEF AcceptedIsKept
<1>5. ComplaintsAreNotBounces
  BY <1>1 DEF InitReports, ComplaintsAreNotBounces
<1> QED
  BY <1>3, <1>4, <1>5 DEF Init, InboundInv, RowsApart, VerdictIsItsOwn

(* A step that is only talk: the envelope and the sender's spool. *)
LEMMA TalkKeeps ==
  ASSUME InboundInv, UNCHANGED <<active, emails, acked, lossy, judged>>, UNCHANGED reportVars,
         NEW s \in Sessions, NEW x \in SessionState \cup {Closed},
         session' = [session EXCEPT ![s] = x],
         x # Closed => /\ x \in SessionState /\ SessionOK(x)
                       /\ x.left \subseteq x.to /\ x.to \subseteq x.tried,
         faults' \in 0..MaxFaults,
         NEW m, NEW as, spool' = spool \/ spool' = [spool EXCEPT ![m] = @ \ as]
  PROVE  InboundInv'
<1>0. UNCHANGED <<outbox, queued, aged, bounces, complaints, failed>>
  BY DEF reportVars
<1>1. /\ DOMAIN spool \subseteq Mails /\ DOMAIN acked = DOMAIN spool
      /\ spool \in [DOMAIN spool -> SUBSET (Addresses \cup Unserved)]
      /\ acked \in [DOMAIN spool -> SUBSET Addresses]
  BY SpoolType DEF InboundInv
<1>2. /\ spool' \in [DOMAIN spool -> SUBSET (Addresses \cup Unserved)]
      /\ DOMAIN spool' = DOMAIN spool
      /\ \A n \in DOMAIN spool : spool'[n] \subseteq spool[n]
  BY <1>1
<1>3. TypeOK'
  <2>1. session \in [Sessions -> SessionState \cup {Closed}]
    BY DEF InboundInv, TypeOK
  <2>2. /\ session' \in [Sessions -> SessionState \cup {Closed}] /\ session'[s] = x
        /\ \A t \in Sessions \ {s} : session'[t] = session[t]
    BY <2>1
  <2>3. ASSUME NEW t \in Sessions, session'[t] # Closed
        PROVE  session'[t].left \subseteq session'[t].to /\ session'[t].to \subseteq session'[t].tried
    BY <2>2, <2>3 DEF InboundInv, TypeOK
  <2>4. \A n \in DOMAIN spool' : spool'[n] \subseteq ToSet(Mail[n].to) \ acked'[n]
    <3>1. \A n \in DOMAIN spool : spool[n] \subseteq ToSet(Mail[n].to) \ acked[n]
      BY DEF InboundInv, TypeOK
    <3> QED
      BY <1>2, <3>1
  <2>5. \E batch \in SUBSET Mails : /\ spool' \in [batch -> SUBSET (Addresses \cup Unserved)]
                                    /\ acked' \in [batch -> SUBSET Addresses]
    BY <1>1, <1>2
  <2>6. ReportsTypeOK'
    BY <1>0 DEF InboundInv, TypeOK, ReportsTypeOK
  <2> QED
    BY <2>2, <2>3, <2>4, <2>5, <2>6 DEF InboundInv, TypeOK
<1>4. Grows
  BY <1>0, <1>2 DEF InboundInv, TypeOK, Grows
<1>5. x # Closed => x \in SessionState /\ SessionOK(x)'
  BY <1>4, SessionStays
<1>6. RowsApart' /\ ComplaintsAreNotBounces' /\ VerdictIsItsOwn'
  BY <1>0 DEF InboundInv, RowsApart, ComplaintsAreNotBounces, VerdictIsItsOwn
<1>7. AcceptedIsKept'
  BY <1>0 DEF InboundInv, AcceptedIsKept, Copies, Same, resolveRecipientPubkey
<1> QED
  BY <1>3, <1>4, <1>5, <1>6, <1>7, StepKeeps

(* The values the fields of a session take. *)
LEMMA FieldTypes ==
  /\ "ready" \in Phases /\ "mail" \in Phases /\ "store" \in Phases
  /\ "attach" \in Phases /\ "answer" \in Phases
  /\ 250 \in Optional(Codes) /\ 451 \in Optional(Codes)
  /\ 550 \in Optional(Codes) /\ 552 \in Optional(Codes)
  /\ None \in Optional(Codes) /\ None \in Optional(Mails) /\ None \in Optional(Nat)
  /\ \A m \in Mails : m \in Optional(Mails)
  /\ \A n \in Nat : n \in Optional(Nat)
BY DEF Phases, Codes, Optional

(* A session without an envelope. *)
LEMMA ResetType ==
  ASSUME NEW q \in SessionState
  PROVE  /\ Reset(q) \in SessionState /\ Reset(q).phase = "ready"
         /\ Reset(q).to = {} /\ Reset(q).left = {}
<1>1. Reset(q) \in SessionState
  <2>1. "ready" \in Phases /\ None \in Optional(Codes) /\ None \in Optional(Mails) /\ None \in Optional(Nat)
    BY FieldTypes
  <2> QED
    BY <2>1 DEF Reset, SessionState
<1> QED
  BY <1>1 DEF Reset, SessionState

(* A session in use. *)
LEMMA Current ==
  ASSUME InboundInv, NEW s \in Sessions, session[s] # Closed
  PROVE  /\ session[s] \in SessionState /\ SessionOK(session[s])
         /\ session[s].left \subseteq session[s].to /\ session[s].to \subseteq session[s].tried
         /\ session[s].phase # "ready" => session[s].mail \in DOMAIN spool /\ session[s].mail \in Mails
<1>1. session[s] \in SessionState /\ SessionOK(session[s])
  BY DEF InboundInv, TypeOK
<1>2. session[s].left \subseteq session[s].to /\ session[s].to \subseteq session[s].tried
  BY DEF InboundInv, TypeOK
<1>3. DOMAIN spool \subseteq Mails
  BY SpoolType DEF InboundInv
<1> QED
  BY <1>1, <1>2, <1>3 DEF SessionOK, EnvelopeOK

(* A statement that fails. *)
LEMMA FaultType ==
  ASSUME TypeOK
  PROVE  faults \in 0..MaxFaults /\ (Fault => faults' \in 0..MaxFaults)
BY InboundAssumption DEF TypeOK, Fault

(* MAIL FROM begins a transaction, with the verdict of its own message. *)
LEMMA MailFromKeeps ==
  ASSUME InboundInv, NEW s \in Sessions, NEW m \in DOMAIN spool, MailFrom(s, m), UNCHANGED reportVars
  PROVE  InboundInv'
<1>1. m \in Mails /\ Mail[m].spf \in Verdicts
  BY SpoolType, InboundAssumption DEF InboundInv
<1>2. PICK open \in SessionState :
        /\ open = IF session[s] = Closed THEN NewSession ELSE session[s]
        /\ open.phase = "ready" /\ open.to = {} /\ open.left = {}
  <2>1. CASE session[s] = Closed
    <3>1. NewSession \in SessionState
      <4>1. "ready" \in Phases /\ None \in Optional(Codes) /\ None \in Optional(Mails) /\ None \in Optional(Nat)
        BY FieldTypes
      <4> QED
        BY <4>1 DEF NewSession, SessionState, Verdicts
    <3> QED
      BY <2>1, <3>1 DEF NewSession
  <2>2. CASE session[s] # Closed
    <3>1. session[s] \in SessionState /\ SessionOK(session[s]) /\ session[s].phase = "ready"
      BY <2>2, Current DEF MailFrom
    <3> QED
      BY <2>2, <3>1 DEF SessionOK, RecipientsOK
  <2> QED
    BY <2>1, <2>2
<1>3. PICK sess \in SessionState :
        /\ sess = IF Checked(m) THEN [open EXCEPT !.spf = Mail[m].spf, !.spfOf = m] ELSE open
        /\ sess.phase = "ready" /\ sess.to = {} /\ sess.left = {} /\ (Checked(m) => sess.spfOf = m)
  <2>1. m \in Optional(Mails)
    BY <1>1, FieldTypes
  <2>2. [open EXCEPT !.spf = Mail[m].spf, !.spfOf = m] \in SessionState
    BY <1>1, <2>1 DEF SessionState
  <2>3. CASE Checked(m)
    BY <1>2, <2>2, <2>3 DEF SessionState
  <2>4. CASE ~Checked(m)
    BY <1>2, <2>4
  <2> QED
    BY <2>3, <2>4
<1>4. UNCHANGED <<active, emails, acked, lossy, judged, faults>>
  BY DEF MailFrom
<1>5. \/ /\ session' = [session EXCEPT ![s] = sess] /\ spool' = [spool EXCEPT ![m] = @ \ spool[m]]
      \/ /\ session' = [session EXCEPT ![s] = [sess EXCEPT !.phase = "mail", !.mail = m]]
         /\ Mail[m].from # "invalid" /\ spool' = spool
  BY <1>2, <1>3 DEF MailFrom, Set, Refused
<1>6. SessionOK(sess)
  BY <1>3 DEF SessionOK, EnvelopeOK, RecipientsOK, PromiseOK, Promising
<1>7. faults' \in 0..MaxFaults
  BY <1>4, FaultType DEF InboundInv
<1>8. CASE session' = [session EXCEPT ![s] = sess] /\ spool' = [spool EXCEPT ![m] = @ \ spool[m]]
  BY <1>3, <1>4, <1>6, <1>7, <1>8, TalkKeeps
<1>9. CASE /\ session' = [session EXCEPT ![s] = [sess EXCEPT !.phase = "mail", !.mail = m]]
           /\ Mail[m].from # "invalid" /\ spool' = spool
  <2>1. PICK x \in SessionState : /\ x = [sess EXCEPT !.phase = "mail", !.mail = m]
                                  /\ x.phase = "mail" /\ x.mail = m /\ x.to = {} /\ x.left = {}
                                  /\ x.spfOf = sess.spfOf
    <3>1. m \in Optional(Mails)
      BY <1>1, FieldTypes
    <3>2. [sess EXCEPT !.phase = "mail", !.mail = m] \in SessionState
      <4>1. "mail" \in Phases
        BY FieldTypes
      <4> QED
        BY <3>1, <4>1 DEF SessionState
    <3> QED
      BY <1>3, <3>2 DEF SessionState
  <2>2. SessionOK(x)
    BY <1>3, <1>9, <2>1 DEF SessionOK, EnvelopeOK, RecipientsOK, PromiseOK, Promising
  <2> QED
    BY <1>4, <1>7, <1>9, <2>1, <2>2, TalkKeeps
<1> QED
  BY <1>5, <1>8, <1>9

(* RCPT TO: a recipient taken was found, and one refused is settled. *)
LEMMA RcptKeeps ==
  ASSUME InboundInv, NEW s \in Sessions, Rcpt(s), UNCHANGED reportVars
  PROVE  InboundInv'
<1> DEFINE m == session[s].mail
           a == First(m, spool[m] \ session[s].tried)
<1>1. PICK q \in SessionState : /\ q = session[s] /\ SessionOK(q) /\ q.left \subseteq q.to /\ q.to \subseteq q.tried
                                /\ q.phase = "mail" /\ m = q.mail /\ m \in DOMAIN spool /\ m \in Mails
  BY Current DEF Rcpt
<1>2. a \in Addresses \cup Unserved /\ a \in ToSet(Mail[m].to)
  <2>1. spool[m] \subseteq Addresses \cup Unserved /\ spool[m] \subseteq ToSet(Mail[m].to)
    BY <1>1, SpoolType DEF InboundInv, TypeOK
  <2>2. (spool[m] \ session[s].tried) \cap ToSet(Mail[m].to) # {}
    BY <2>1 DEF Rcpt
  <2> QED
    BY <1>1, <2>1, <2>2, FirstIsNamed
<1>3. UNCHANGED <<active, emails, acked, lossy, judged>> /\ faults' \in 0..MaxFaults
  BY FaultType DEF Rcpt, InboundInv
<1>4. q.left = {} /\ q.to \subseteq Addresses /\ q.tried \subseteq Addresses \cup Unserved
  BY <1>1 DEF SessionOK, RecipientsOK, SessionState
<1>5. CASE /\ ValidateRecipient(a) /\ UNCHANGED spool
           /\ Set(s, [session[s] EXCEPT !.tried = @ \cup {a}, !.to = @ \cup {a}])
  <2>1. a \in Addresses /\ resolveRecipientPubkey(a) # None
    BY <1>5 DEF ValidateRecipient
  <2>2. PICK x \in SessionState :
          /\ x = [q EXCEPT !.tried = @ \cup {a}, !.to = @ \cup {a}]
          /\ x.phase = "mail" /\ x.mail = q.mail /\ x.left = {} /\ x.spfOf = q.spfOf
          /\ x.to = q.to \cup {a} /\ x.tried = q.tried \cup {a}
    <3>1. [q EXCEPT !.tried = @ \cup {a}, !.to = @ \cup {a}] \in SessionState
      BY <2>1 DEF SessionState
    <3> HIDE DEF a
    <3> QED
      BY <1>1, <1>4, <3>1 DEF SessionState
  <2>3. SessionOK(x)
    BY <1>1, <1>2, <2>1, <2>2 DEF SessionOK, EnvelopeOK, RecipientsOK, PromiseOK, Promising
  <2> HIDE DEF m, a
  <2> QED
    BY <1>1, <1>3, <1>5, <2>2, <2>3, TalkKeeps DEF Set
<1>6. CASE Set(s, [session[s] EXCEPT !.tried = @ \cup {a}]) /\ Refused(m, {a})
  <2>2. PICK x \in SessionState :
          /\ x = [q EXCEPT !.tried = @ \cup {a}]
          /\ x.phase = "mail" /\ x.mail = q.mail /\ x.left = {} /\ x.spfOf = q.spfOf
          /\ x.to = q.to /\ x.tried = q.tried \cup {a}
    <3>1. [q EXCEPT !.tried = @ \cup {a}] \in SessionState
      BY <1>2 DEF SessionState
    <3> HIDE DEF a
    <3> QED
      BY <1>1, <1>4, <3>1 DEF SessionState
  <2>3. SessionOK(x)
    BY <1>1, <2>2 DEF SessionOK, EnvelopeOK, RecipientsOK, PromiseOK, Promising
  <2> HIDE DEF m, a
  <2>4. PICK as : as = {a}
    OBVIOUS
  <2> QED
    BY <1>1, <1>3, <1>6, <2>2, <2>3, <2>4, TalkKeeps DEF Set, Refused
<1> QED
  BY <1>5, <1>6 DEF Rcpt

(* The steps that change no more than the session. *)
LEMMA SessionOnlyKeeps ==
  ASSUME InboundInv, NEW s \in Sessions, UNCHANGED reportVars,
         Abandon(s) \/ Stored(s) \/ Logout(s) \/ ClientGivesUp(s)
  PROVE  InboundInv'
<1>1. PICK q \in SessionState : /\ q = session[s] /\ SessionOK(q) /\ q.left \subseteq q.to /\ q.to \subseteq q.tried
  BY Current DEF Abandon, Stored, Logout, ClientGivesUp
<1>2. UNCHANGED <<active, emails, acked, lossy, judged, spool>> /\ faults' \in 0..MaxFaults
  BY FaultType DEF Abandon, Stored, Logout, ClientGivesUp, InboundInv
<1>3. CASE Abandon(s)
  <2>1. PICK x \in SessionState : /\ x = Reset(q) /\ x.phase = "ready" /\ x.to = {} /\ x.left = {}
    BY <1>1, ResetType
  <2>2. SessionOK(x)
    BY <2>1 DEF SessionOK, EnvelopeOK, RecipientsOK, PromiseOK, Promising
  <2>3. session' = [session EXCEPT ![s] = x]
    BY <1>1, <1>3, <2>1 DEF Abandon, Set
  <2> QED
    BY <1>2, <2>1, <2>2, <2>3, TalkKeeps
<1>4. CASE Stored(s)
  <2>1. PICK x \in SessionState : /\ x = [q EXCEPT !.phase = "answer", !.code = 250]
                                  /\ x.phase = "answer" /\ x.mail = q.mail /\ x.spfOf = q.spfOf
                                  /\ x.to = q.to /\ x.left = q.left /\ x.tried = q.tried
    <3>1. [q EXCEPT !.phase = "answer", !.code = 250] \in SessionState
      <4>1. "answer" \in Phases /\ 250 \in Optional(Codes)
        BY FieldTypes
      <4> QED
        BY <4>1 DEF SessionState
    <3> QED
      BY <3>1 DEF SessionState
  <2>2. SessionOK(x)
    BY <1>1, <1>4, <2>1 DEF SessionOK, EnvelopeOK, RecipientsOK, PromiseOK, Promising, Stored
  <2>3. session' = [session EXCEPT ![s] = x]
    BY <1>1, <1>4, <2>1 DEF Stored, Answer, Set
  <2> QED
    BY <1>1, <1>2, <2>1, <2>2, <2>3, TalkKeeps
<1>5. CASE Logout(s)
  <2>1. session' = [session EXCEPT ![s] = Closed]
    BY <1>5 DEF Logout, Set
  <2> QED
    BY <1>2, <2>1, TalkKeeps
<1>6. CASE ClientGivesUp(s)
  <2>1. PICK x \in SessionState : /\ x = [q EXCEPT !.heard = FALSE]
                                  /\ x.phase = q.phase /\ x.mail = q.mail /\ x.spfOf = q.spfOf
                                  /\ x.to = q.to /\ x.left = q.left /\ x.tried = q.tried /\ x.code = q.code
    <3>1. [q EXCEPT !.heard = FALSE] \in SessionState
      BY DEF SessionState
    <3> QED
      BY <3>1 DEF SessionState
  <2>2. SessionOK(x)
    BY <1>1, <2>1 DEF SessionOK, EnvelopeOK, RecipientsOK, PromiseOK, Promising
  <2>3. session' = [session EXCEPT ![s] = x]
    BY <1>1, <1>6, <2>1 DEF ClientGivesUp, Set
  <2> QED
    BY <1>1, <1>2, <2>1, <2>2, <2>3, TalkKeeps
<1> QED
  BY <1>3, <1>4, <1>5, <1>6

(* The answer: what a sender is told with 250 has been dealt with. *)
LEMMA ReplyKeeps ==
  ASSUME InboundInv, NEW s \in Sessions, Reply(s), UNCHANGED reportVars
  PROVE  InboundInv'
<1>1. PICK q \in SessionState : /\ q = session[s] /\ SessionOK(q) /\ q.phase = "answer"
                                /\ q.mail \in DOMAIN spool
  BY Current DEF Reply
<1>2. PICK m \in DOMAIN spool : m = q.mail
  BY <1>1
<1> DEFINE settled == IF q.heard /\ q.code # 451 THEN q.to ELSE {}
<1>3. settled \in SUBSET Addresses /\ settled \subseteq q.to
  <2>1. q.to \in SUBSET Addresses
    BY DEF SessionState
  <2>2. settled = q.to \/ settled = {}
    OBVIOUS
  <2> HIDE DEF settled
  <2> QED
    BY <2>1, <2>2
<1>4. /\ spool' = [spool EXCEPT ![m] = @ \ settled]
      /\ acked' = [acked EXCEPT ![m] = IF q.code = 250 THEN @ \cup settled ELSE @]
      /\ UNCHANGED <<active, emails, faults, lossy, judged>>
      /\ UNCHANGED <<outbox, queued, aged, bounces, complaints, failed>>
  BY <1>1, <1>2 DEF Reply, reportVars
<1> HIDE DEF settled
<1>5. PICK x \in SessionState \cup {Closed} :
        /\ session' = [session EXCEPT ![s] = x]
        /\ x # Closed => x \in SessionState /\ x.phase = "ready" /\ x.to = {} /\ x.left = {}
  BY <1>1, ResetType DEF Reply, Set
<1>6. /\ DOMAIN spool \subseteq Mails /\ DOMAIN acked = DOMAIN spool
      /\ spool \in [DOMAIN spool -> SUBSET (Addresses \cup Unserved)]
      /\ acked \in [DOMAIN spool -> SUBSET Addresses]
      /\ \A n \in DOMAIN spool : spool[n] \subseteq ToSet(Mail[n].to) \ acked[n]
  BY SpoolType DEF InboundInv, TypeOK
<1>7. /\ spool' \in [DOMAIN spool -> SUBSET (Addresses \cup Unserved)]
      /\ acked' \in [DOMAIN spool -> SUBSET Addresses]
      /\ DOMAIN spool' = DOMAIN spool
  BY <1>3, <1>4, <1>6
<1>8. \A n \in DOMAIN spool' : spool'[n] \subseteq ToSet(Mail[n].to) \ acked'[n]
  BY <1>4, <1>6, <1>7
<1>9. TypeOK'
  <2>1. session \in [Sessions -> SessionState \cup {Closed}]
    BY DEF InboundInv, TypeOK
  <2>2. /\ session' \in [Sessions -> SessionState \cup {Closed}] /\ session'[s] = x
        /\ \A t \in Sessions \ {s} : session'[t] = session[t]
    BY <1>5, <2>1
  <2>3. ASSUME NEW t \in Sessions, session'[t] # Closed
        PROVE  session'[t].left \subseteq session'[t].to /\ session'[t].to \subseteq session'[t].tried
    BY <1>5, <2>2, <2>3 DEF InboundInv, TypeOK
  <2>4. ReportsTypeOK'
    BY <1>4 DEF InboundInv, TypeOK, ReportsTypeOK
  <2>5. \E batch \in SUBSET Mails : /\ spool' \in [batch -> SUBSET (Addresses \cup Unserved)]
                                    /\ acked' \in [batch -> SUBSET Addresses]
    BY <1>6, <1>7
  <2> QED
    BY <1>4, <1>8, <2>2, <2>3, <2>4, <2>5 DEF InboundInv, TypeOK
<1>10. Grows
  BY <1>4, <1>7 DEF InboundInv, TypeOK, Grows
<1>11. x # Closed => x \in SessionState /\ SessionOK(x)'
  BY <1>5 DEF SessionOK, EnvelopeOK, RecipientsOK, PromiseOK, Promising
<1>12. RowsApart' /\ ComplaintsAreNotBounces' /\ VerdictIsItsOwn'
  BY <1>4 DEF InboundInv, RowsApart, ComplaintsAreNotBounces, VerdictIsItsOwn
<1>13. AcceptedIsKept'
  <2>1. ASSUME NEW n \in DOMAIN acked, NEW a \in acked'[n], a \notin acked[n], n \notin lossy'
        PROVE  Kept(n, a)'
    <3>1. n = m /\ q.code = 250 /\ a \in q.to
      BY <1>3, <1>4, <1>6, <2>1
    <3>2. Kept(n, a)
      BY <1>1, <1>2, <1>4, <2>1, <3>1 DEF SessionOK, PromiseOK, Promising, RecipientsOK
    <3> QED
      BY <1>10, <3>2, KeptStays
  <2>2. DOMAIN acked' = DOMAIN acked
    BY <1>6, <1>7
  <2> QED
    BY <1>10, <2>1, <2>2, AcksKeep DEF InboundInv
<1> QED
  BY <1>5, <1>9, <1>10, <1>11, <1>12, <1>13, StepKeeps
-----------------------------------------------------------------------------
(* A step of DATA: rows and reports are added, and no sender is answered. *)
LEMMA WorkKeeps ==
  ASSUME InboundInv, UNCHANGED <<outbox, queued, aged, failed, active, spool, acked>>,
         NEW s \in Sessions, NEW x \in SessionState, session' = [session EXCEPT ![s] = x],
         SessionOK(x)', x.left \subseteq x.to, x.to \subseteq x.tried,
         emails' \subseteq Row, IsFiniteSet(emails)', RowsApart',
         \A e \in emails : \E f \in emails' : f.box = e.box /\ f.mail = e.mail,
         bounces \subseteq bounces', complaints \subseteq complaints',
         \A b \in (bounces' \cup complaints') \ (bounces \cup complaints) :
           b.report \in Mails /\ b.sender \in Users \cup {None},
         faults' \in 0..MaxFaults, lossy \subseteq lossy', lossy' \subseteq Mails,
         judged' \subseteq [mail : Mails, of : Mails \cup {None}],
         ComplaintsAreNotBounces', VerdictIsItsOwn'
  PROVE  InboundInv'
<1>1. session \in [Sessions -> SessionState \cup {Closed}]
  BY DEF InboundInv, TypeOK
<1>2. /\ session' \in [Sessions -> SessionState \cup {Closed}] /\ session'[s] = x
      /\ \A t \in Sessions \ {s} : session'[t] = session[t]
  BY <1>1
<1>3. ASSUME NEW t \in Sessions, session'[t] # Closed
      PROVE  session'[t].left \subseteq session'[t].to /\ session'[t].to \subseteq session'[t].tried
  BY <1>2, <1>3 DEF InboundInv, TypeOK
<1>4. ReportsTypeOK'
  BY DEF InboundInv, TypeOK, ReportsTypeOK
<1>5. TypeOK'
  BY <1>2, <1>3, <1>4 DEF InboundInv, TypeOK
<1>6. Grows
  BY DEF InboundInv, TypeOK, Grows
<1>7. AcceptedIsKept'
  <2>1. \A n \in DOMAIN acked : \A a \in acked'[n] : a \in acked[n]
    OBVIOUS
  <2> QED
    BY <1>6, <2>1, AcksKeep DEF InboundInv
<1> QED
  BY <1>5, <1>6, <1>7, StepKeeps

(* The next recipient is dealt with. *)
LEMMA DealtWith ==
  ASSUME Grows, NEW q \in SessionState, SessionOK(q), q.phase \in {"store", "attach"},
         NEW x \in SessionState, x.phase \in {"store", "attach"},
         x.mail = q.mail, x.to = q.to, x.spfOf = q.spfOf,
         \A a \in q.left \ x.left : q.mail \in lossy' \/ Kept(q.mail, a)'
  PROVE  SessionOK(x)'
<1>1. SessionOK(q)'
  BY SessionStays
<1>2. EnvelopeOK(x)'
  BY <1>1 DEF SessionOK, EnvelopeOK, Checked
<1>3. RecipientsOK(x)'
  BY <1>1 DEF SessionOK, RecipientsOK
<1>4. PromiseOK(x)'
  <2> SUFFICES ASSUME x.mail \notin lossy', NEW a \in x.to \ x.left PROVE Kept(x.mail, a)'
    BY DEF PromiseOK
  <2>1. CASE a \in q.left
    BY <2>1
  <2>2. CASE a \notin q.left
    BY <1>1, <2>2 DEF SessionOK, PromiseOK, Promising
  <2> QED
    BY <2>1, <2>2
<1> QED
  BY <1>2, <1>3, <1>4 DEF SessionOK

(* A session that has an answer to give. *)
Answered(q, c) == [q EXCEPT !.phase = "answer", !.code = c]

(* It is the session it was but for that. *)
LEMMA AnsweredType ==
  ASSUME NEW q \in SessionState, NEW c \in Optional(Codes)
  PROVE  /\ Answered(q, c) \in SessionState
         /\ Answered(q, c).phase = "answer" /\ Answered(q, c).code = c
         /\ Answered(q, c).mail = q.mail /\ Answered(q, c).spfOf = q.spfOf
         /\ Answered(q, c).to = q.to /\ Answered(q, c).left = q.left /\ Answered(q, c).tried = q.tried
<1>1. Answered(q, c) \in SessionState
  <2>1. "answer" \in Phases
    BY FieldTypes
  <2> QED
    BY <2>1 DEF Answered, SessionState
<1> QED
  BY <1>1 DEF Answered, SessionState

(* One other than 250 promises nothing. *)
LEMMA RefusalOK ==
  ASSUME NEW q \in SessionState, SessionOK(q), q.phase = "mail", NEW c \in Optional(Codes), c # 250
  PROVE  SessionOK(Answered(q, c))
<1>1. PICK x : x = Answered(q, c)
  OBVIOUS
<1>2. SessionOK(x)
  BY <1>1, AnsweredType DEF SessionOK, EnvelopeOK, RecipientsOK, PromiseOK, Promising
<1> QED
  BY <1>1, <1>2

(* DATA refused before the message is looked into. *)
LEMMA DataRefusedKeeps ==
  ASSUME InboundInv, NEW s \in Sessions, Data(s), DataRefused(s, session[s].mail)
  PROVE  InboundInv'
<1>1. PICK q \in SessionState : /\ q = session[s] /\ SessionOK(q) /\ q.left \subseteq q.to /\ q.to \subseteq q.tried
                                /\ q.phase = "mail"
  BY Current DEF Data
<1>2. /\ UNCHANGED <<active, emails, acked, lossy, judged>> /\ UNCHANGED spool
      /\ UNCHANGED reportVars /\ faults' \in 0..MaxFaults
  BY FaultType DEF Data, DataRefused, reportVars, InboundInv
<1>3. session' = [session EXCEPT ![s] = Answered(q, 451)] \/ session' = [session EXCEPT ![s] = Answered(q, 552)]
  BY <1>1 DEF DataRefused, Answer, Set, Answered
<1>4. PICK c \in Optional(Codes) : c # 250 /\ session' = [session EXCEPT ![s] = Answered(q, c)]
  BY <1>3, FieldTypes
<1>5. PICK x \in SessionState : x = Answered(q, c) /\ SessionOK(x)
  BY <1>1, <1>4, AnsweredType, RefusalOK
<1>6. x.to = q.to /\ x.left = q.left /\ x.tried = q.tried
  BY <1>5, AnsweredType
<1> QED
  BY <1>1, <1>2, <1>4, <1>5, <1>6, TalkKeeps

(* DATA of a message: it is handed over with the verdict of its own, and the
   recipients wait for their copies. *)
LEMMA DataMessageKeeps ==
  ASSUME InboundInv, NEW s \in Sessions, Data(s), DataMessage(s, session[s].mail)
  PROVE  InboundInv'
<1>1. PICK q \in SessionState : /\ q = session[s] /\ SessionOK(q) /\ q.left \subseteq q.to /\ q.to \subseteq q.tried
                                /\ q.phase = "mail" /\ q.mail \in DOMAIN spool /\ q.mail \in Mails
  BY Current DEF Data
<1>2. PICK m \in Mails : m = q.mail /\ m = session[s].mail
  BY <1>1
<1>3. /\ UNCHANGED <<outbox, queued, aged, failed, active, spool, acked>>
      /\ UNCHANGED <<emails, bounces, complaints, faults, lossy>>
  BY DEF Data, DataMessage
<1>4. PICK x \in SessionState :
        /\ session' = [session EXCEPT ![s] = x] /\ SessionOK(x)
        /\ x.left \subseteq x.to /\ x.to \subseteq x.tried
  <2>1. CASE Answer(s, 550)
    <3>1. PICK c \in Optional(Codes) : c = 550 /\ c # 250
      BY FieldTypes
    <3>2. session' = [session EXCEPT ![s] = Answered(q, c)] /\ c # 250
      BY <1>1, <2>1, <3>1 DEF Answer, Set, Answered
    <3>3. PICK x \in SessionState : x = Answered(q, c) /\ SessionOK(x)
      BY <1>1, <3>2, AnsweredType, RefusalOK
    <3>4. x.to = q.to /\ x.left = q.left /\ x.tried = q.tried
      BY <3>3, AnsweredType
    <3> QED
      BY <1>1, <3>2, <3>3, <3>4
  <2>2. CASE Set(s, [session[s] EXCEPT !.phase = "store", !.left = session[s].to])
    <3>1. [q EXCEPT !.phase = "store", !.left = q.to] \in SessionState
      <4>1. "store" \in Phases
        BY FieldTypes
      <4> QED
        BY <4>1 DEF SessionState
    <3>2. PICK x \in SessionState :
            /\ x = [q EXCEPT !.phase = "store", !.left = q.to]
            /\ x.phase = "store" /\ x.mail = q.mail /\ x.spfOf = q.spfOf
            /\ x.to = q.to /\ x.left = q.to /\ x.tried = q.tried
      BY <3>1 DEF SessionState
    <3>3. SessionOK(x)
      BY <1>1, <3>2 DEF SessionOK, EnvelopeOK, RecipientsOK, PromiseOK, Promising
    <3>4. session' = [session EXCEPT ![s] = x]
      BY <1>1, <2>2, <3>2 DEF Set
    <3> QED
      BY <1>1, <3>2, <3>3, <3>4
  <2> QED
    BY <2>1, <2>2 DEF DataMessage
<1>5. SessionOK(x)'
  BY <1>3, <1>4 DEF SessionOK, EnvelopeOK, RecipientsOK, PromiseOK, Promising, Kept, Moved, Checked,
                    Copies, Same, resolveRecipientPubkey
<1>6. judged' = judged \/ judged' = judged \cup {[mail |-> m, of |-> q.spfOf]}
  BY <1>1, <1>2 DEF DataMessage
<1>7. q.spfOf \in Mails \cup {None} /\ judged \subseteq [mail : Mails, of : Mails \cup {None}]
  BY DEF SessionState, Optional, InboundInv, TypeOK
<1>8. judged' \subseteq [mail : Mails, of : Mails \cup {None}]
  BY <1>6, <1>7
<1>9. VerdictIsItsOwn'
  <2> SUFFICES ASSUME SPF # "off", NEW j \in judged' PROVE j.of = j.mail
    BY DEF VerdictIsItsOwn
  <2>1. CASE j \in judged
    BY <2>1 DEF InboundInv, VerdictIsItsOwn
  <2>2. CASE j = [mail |-> m, of |-> q.spfOf]
    <3>1. Mail[m].from \in {"null", "address", "invalid"} /\ Mail[m].from # "null" /\ Mail[m].from # "invalid"
      BY <1>1, <1>2, InboundAssumption DEF DataMessage, IsBounce, SessionOK, EnvelopeOK
    <3>2. q.spfOf = m
      BY <1>1, <1>2, <3>1 DEF Checked, SessionOK, EnvelopeOK
    <3> QED
      BY <2>2, <3>2
  <2> QED
    BY <1>6, <2>1, <2>2
<1>10. /\ emails' \subseteq Row /\ IsFiniteSet(emails)' /\ RowsApart' /\ ComplaintsAreNotBounces'
       /\ faults' \in 0..MaxFaults /\ lossy' \subseteq Mails
  BY <1>3 DEF InboundInv, TypeOK, RowsApart, ComplaintsAreNotBounces
<1> QED
  BY <1>3, <1>4, <1>5, <1>8, <1>9, <1>10, WorkKeeps

(* Whoever a report is charged to is an account or nobody. *)
LEMMA AttributedType ==
  ASSUME ReportsTypeOK, NEW info, NEW down
  PROVE  attributeSender(info, down) \in Users \cup {None}
<1>1. resolveSender(info.id, info.rcpt) \in Users \cup {None}
  BY ResolvesToSender, SenderType
<1> QED
  BY <1>1 DEF attributeSender

(* What DATA of a report adds to the two tables. *)
LEMMA ReportStep ==
  ASSUME TypeOK, NEW s \in Sessions, NEW m \in Mails, DataReport(s, m)
  PROVE  /\ bounces \subseteq bounces' /\ complaints \subseteq complaints'
         /\ \A b \in (bounces' \cup complaints') \ (bounces \cup complaints) :
              /\ b.report = m
              /\ \E info \in {parseBounce(m), parseComplaint(m)}, down \in BOOLEAN :
                   b.sender = attributeSender(info, down)
         /\ \A b \in bounces' \ bounces : b.report = m /\ (IsComplaint(m) => m \in lossy')
         /\ m \in lossy' \/ \E b \in bounces' \cup complaints' : b.report = m
         /\ lossy \subseteq lossy' /\ lossy' \subseteq lossy \cup {m}
         /\ faults' \in 0..MaxFaults /\ judged' = judged
<1>1. ASSUME NEW down \in BOOLEAN, NEW lost \in BOOLEAN, ProcessBounce(m, down, lost)
      PROVE  /\ bounces \subseteq bounces' /\ complaints' = complaints
             /\ \A b \in bounces' \ bounces :
                  b.report = m /\ b.sender = attributeSender(parseBounce(m), down)
             /\ lost \/ \E b \in bounces' : b.report = m
  <2>1. PICK x : x = attributeSender(parseBounce(m), down)
    OBVIOUS
  <2>2. PICK y : y = parseBounce(m)
    OBVIOUS
  <2>3. CASE lost
    BY <1>1, <2>3 DEF ProcessBounce
  <2>4. CASE ~lost
    <3> DEFINE b == [n |-> Cardinality(bounces) + 1, report |-> m, id |-> y.id,
                     rcpt |-> y.rcpt, type |-> y.type, sender |-> x]
    <3>1. bounces' = bounces \cup {b}
      BY <1>1, <2>1, <2>2, <2>4 DEF ProcessBounce, storeBounce
    <3>2. b.report = m /\ b.sender = x
      OBVIOUS
    <3>3. complaints' = complaints
      BY <1>1 DEF ProcessBounce
    <3> HIDE DEF b
    <3> QED
      BY <2>1, <3>1, <3>2, <3>3
  <2> QED
    BY <2>3, <2>4
<1>2. ASSUME NEW down \in BOOLEAN, ProcessComplaint(m, down)
      PROVE  /\ complaints \subseteq complaints' /\ bounces' = bounces
             /\ \A b \in complaints' \ complaints :
                  b.report = m /\ b.sender = attributeSender(parseComplaint(m), down)
             /\ \E b \in complaints' : b.report = m
  <2>1. PICK x : x = attributeSender(parseComplaint(m), down)
    OBVIOUS
  <2>2. PICK y : y = parseComplaint(m)
    OBVIOUS
  <2> DEFINE b == [n |-> Cardinality(complaints) + 1, report |-> m, id |-> y.id,
                   rcpt |-> y.rcpt, sender |-> x]
  <2>3. complaints' = complaints \cup {b}
    BY <1>2, <2>1, <2>2 DEF ProcessComplaint, storeComplaint
  <2>4. b.report = m /\ b.sender = x
    OBVIOUS
  <2>5. bounces' = bounces
    BY <1>2 DEF ProcessComplaint
  <2> HIDE DEF b
  <2> QED
    BY <2>1, <2>3, <2>4, <2>5
<1>3. judged' = judged
  BY DEF DataReport
<1>4. CASE \E down \in BOOLEAN : /\ IF down THEN Fault ELSE UNCHANGED faults
                                 /\ ProcessComplaint(m, down) /\ UNCHANGED lossy
  <2>1. PICK down \in BOOLEAN : /\ IF down THEN Fault ELSE UNCHANGED faults
                                /\ ProcessComplaint(m, down) /\ UNCHANGED lossy
    BY <1>4
  <2>2. faults' \in 0..MaxFaults
    BY <2>1, FaultType
  <2> QED
    BY <1>2, <1>3, <2>1, <2>2
<1>5. CASE Fault /\ ProcessBounce(m, FALSE, FALSE) /\ lossy' = lossy \cup {m}
  <2>1. PICK no \in BOOLEAN : no = FALSE
    OBVIOUS
  <2>2. ProcessBounce(m, no, no)
    BY <1>5, <2>1
  <2>3. faults' \in 0..MaxFaults
    BY <1>5, FaultType
  <2> QED
    BY <1>1, <1>3, <1>5, <2>2, <2>3
<1>6. CASE /\ ~IsComplaint(m)
           /\ \E down, lost \in BOOLEAN :
                /\ IF down \/ lost THEN Fault ELSE UNCHANGED faults
                /\ ProcessBounce(m, down, lost)
                /\ lossy' = IF lost THEN lossy \cup {m} ELSE lossy
  <2>1. PICK down \in BOOLEAN, lost \in BOOLEAN :
          /\ IF down \/ lost THEN Fault ELSE UNCHANGED faults
          /\ ProcessBounce(m, down, lost)
          /\ lossy' = IF lost THEN lossy \cup {m} ELSE lossy
    BY <1>6
  <2>2. faults' \in 0..MaxFaults
    BY <2>1, FaultType
  <2> QED
    BY <1>1, <1>3, <1>6, <2>1, <2>2
<1> QED
  BY <1>4, <1>5, <1>6 DEF DataReport

(* DATA of a report: it is recorded before the answer, as what it is. *)
LEMMA DataReportKeeps ==
  ASSUME InboundInv, NEW s \in Sessions, Data(s), DataReport(s, session[s].mail)
  PROVE  InboundInv'
<1>1. PICK q \in SessionState : /\ q = session[s] /\ SessionOK(q) /\ q.left \subseteq q.to /\ q.to \subseteq q.tried
                                /\ q.phase = "mail" /\ q.mail \in DOMAIN spool /\ q.mail \in Mails
  BY Current DEF Data
<1>2. PICK m \in Mails : m = q.mail /\ m = session[s].mail
  BY <1>1
<1>3. TypeOK /\ ReportsTypeOK /\ DataReport(s, m)
  BY <1>2 DEF InboundInv, TypeOK
<1>4. /\ bounces \subseteq bounces' /\ complaints \subseteq complaints'
      /\ \A b \in (bounces' \cup complaints') \ (bounces \cup complaints) :
           /\ b.report = m
           /\ \E info \in {parseBounce(m), parseComplaint(m)}, down \in BOOLEAN :
                b.sender = attributeSender(info, down)
      /\ \A b \in bounces' \ bounces : b.report = m /\ (IsComplaint(m) => m \in lossy')
      /\ m \in lossy' \/ \E b \in bounces' \cup complaints' : b.report = m
      /\ lossy \subseteq lossy' /\ lossy' \subseteq lossy \cup {m}
      /\ faults' \in 0..MaxFaults /\ judged' = judged
  BY <1>3, ReportStep
<1>5. UNCHANGED <<outbox, queued, aged, failed, active, spool, acked>> /\ UNCHANGED emails
  BY DEF Data
<1>6. PICK x \in SessionState :
        /\ session' = [session EXCEPT ![s] = x] /\ x.phase = "answer" /\ x.code = 250
        /\ x.mail = m /\ x.spfOf = q.spfOf /\ x.to = q.to /\ x.left = q.left /\ x.tried = q.tried
  <2>1. PICK c \in Optional(Codes) : c = 250
    BY FieldTypes
  <2>2. session' = [session EXCEPT ![s] = Answered(q, c)]
    BY <1>1, <1>3, <2>1 DEF DataReport, Answer, Set, Answered
  <2>3. PICK x \in SessionState : x = Answered(q, c)
    BY AnsweredType
  <2>4. /\ x.phase = "answer" /\ x.code = c /\ x.mail = q.mail /\ x.spfOf = q.spfOf
        /\ x.to = q.to /\ x.left = q.left /\ x.tried = q.tried
    BY <2>3, AnsweredType
  <2>5. session' = [session EXCEPT ![s] = x]
    BY <2>2, <2>3
  <2>6. x.code = 250 /\ x.mail = m
    BY <1>2, <2>1, <2>4
  <2> QED
    BY <2>4, <2>5, <2>6
<1>7. SessionOK(x)'
  <2>1. Grows
    BY <1>4, <1>5 DEF InboundInv, TypeOK, Grows
  <2>2. SessionOK(q)'
    BY <1>1, <2>1, SessionStays
  <2>3. EnvelopeOK(x)' /\ RecipientsOK(x)'
    BY <1>1, <1>2, <1>6, <2>2 DEF SessionOK, EnvelopeOK, RecipientsOK, Checked
  <2>4. PromiseOK(x)'
    <3> SUFFICES ASSUME x.mail \notin lossy', NEW a \in x.to \ x.left PROVE Kept(x.mail, a)'
      BY DEF PromiseOK
    <3>1. \E b \in bounces' \cup complaints' : b.report = x.mail
      BY <1>4, <1>6
    <3> QED
      BY <3>1 DEF Kept
  <2> QED
    BY <2>3, <2>4 DEF SessionOK
<1>8. \A b \in (bounces' \cup complaints') \ (bounces \cup complaints) :
        b.report \in Mails /\ b.sender \in Users \cup {None}
  BY <1>3, <1>4, AttributedType
<1>9. ComplaintsAreNotBounces'
  <2> SUFFICES ASSUME NEW b \in bounces', b.report # None, Mail[b.report].kind = "arf"
               PROVE  b.report \in lossy'
    BY DEF ComplaintsAreNotBounces
  <2>1. CASE b \in bounces
    BY <1>4, <2>1 DEF InboundInv, ComplaintsAreNotBounces
  <2>2. CASE b \notin bounces
    BY <1>4, <2>2 DEF IsComplaint
  <2> QED
    BY <2>1, <2>2
<1>10. /\ emails' \subseteq Row /\ IsFiniteSet(emails)' /\ RowsApart' /\ VerdictIsItsOwn'
       /\ judged' \subseteq [mail : Mails, of : Mails \cup {None}]
  BY <1>4, <1>5 DEF InboundInv, TypeOK, RowsApart, VerdictIsItsOwn
<1>11. lossy' \subseteq Mails
  BY <1>4 DEF InboundInv, TypeOK
<1>12. x.left \subseteq x.to /\ x.to \subseteq x.tried
  BY <1>1, <1>6
<1> QED
  BY <1>4, <1>5, <1>6, <1>7, <1>8, <1>9, <1>10, <1>11, <1>12, WorkKeeps
-----------------------------------------------------------------------------
(* A row more in a mailbox without one of that Message-ID. *)
LEMMA RowAdded ==
  ASSUME TypeOK, RowsApart, NEW u \in Users, NEW m \in Mails, ~Conflicts(u, m)
  PROVE  LET row == [n |-> Cardinality(emails) + 1, box |-> u, mail |-> m, listed |-> FALSE] IN
         /\ row \in Row /\ row.n \in Nat
         /\ emails' = emails \cup {row} =>
              emails' \subseteq Row /\ IsFiniteSet(emails)' /\ RowsApart'
<1> DEFINE row == [n |-> Cardinality(emails) + 1, box |-> u, mail |-> m, listed |-> FALSE]
<1>1. emails \subseteq Row /\ IsFiniteSet(emails)
  BY DEF TypeOK
<1>2. Cardinality(emails) + 1 \in Nat
  BY <1>1, FS_CardinalityType
<1>3. row \in Row /\ row.box = u /\ row.mail = m /\ row.n \in Nat
  BY <1>2 DEF Row
<1> HIDE DEF row
<1>4. ASSUME emails' = emails \cup {row}
      PROVE  emails' \subseteq Row /\ IsFiniteSet(emails)' /\ RowsApart'
  <2>1. emails' \subseteq Row
    BY <1>1, <1>3, <1>4
  <2>2. IsFiniteSet(emails \cup {row})
    BY <1>1, FS_AddElement
  <2>3. ASSUME NEW e \in emails', NEW f \in emails', e.box = f.box, Mail[e.mail].mid # None,
               Mail[e.mail].mid = Mail[f.mail].mid
        PROVE  e = f
    <3>1. CASE e \in emails /\ f \in emails
      BY <2>3, <3>1 DEF RowsApart
    <3>2. CASE e = row /\ f \in emails
      BY <1>3, <2>3, <3>2 DEF Conflicts, Same
    <3>3. CASE f = row /\ e \in emails
      BY <1>3, <2>3, <3>3 DEF Conflicts, Same
    <3> QED
      BY <1>4, <3>1, <3>2, <3>3
  <2> QED
    BY <1>4, <2>1, <2>2, <2>3 DEF RowsApart
<1> QED
  BY <1>3, <1>4 DEF row

(* storeForRecipient: the recipient has a copy, or has one already, or its
   owner has given the address up, or a statement failed. *)
LEMMA CreateEmailKeeps ==
  ASSUME InboundInv, NEW s \in Sessions, CreateEmail(s), UNCHANGED reportVars
  PROVE  InboundInv'
<1>1. PICK q \in SessionState : /\ q = session[s] /\ SessionOK(q) /\ q.left \subseteq q.to /\ q.to \subseteq q.tried
                                /\ q.phase = "store" /\ q.left # {} /\ q.mail \in Mails
  BY Current DEF CreateEmail
<1>2. PICK m \in Mails : m = q.mail
  BY <1>1
<1>3. PICK a : a = First(m, q.left)
  OBVIOUS
<1>4. a \in q.left /\ a \in q.to
  <2>1. q.left \cap ToSet(Mail[m].to) # {}
    BY <1>1, <1>2 DEF SessionOK, EnvelopeOK
  <2> QED
    BY <1>1, <1>3, <2>1, FirstIsNamed
<1>5. PICK u \in Users \cup {None} : u = resolveRecipientPubkey(a)
  BY ResolvesToUser DEF InboundInv
<1>6. PICK done \in SessionState :
        /\ done = [q EXCEPT !.left = @ \ {a}] /\ done.phase = "store" /\ done.mail = m
        /\ done.to = q.to /\ done.spfOf = q.spfOf /\ done.tried = q.tried /\ done.left = q.left \ {a}
  <2>1. [q EXCEPT !.left = @ \ {a}] \in SessionState
    BY DEF SessionState
  <2> QED
    BY <1>1, <1>2, <2>1 DEF SessionState
<1>7. PICK row : row = [n |-> Cardinality(emails) + 1, box |-> u, mail |-> m, listed |-> FALSE]
  OBVIOUS
<1>8. /\ UNCHANGED <<active, spool, acked, judged>>
      /\ UNCHANGED <<outbox, queued, aged, bounces, complaints, failed>>
  BY DEF CreateEmail, reportVars
<1>9. \/ /\ ~(u # None /\ ~Conflicts(u, m)) /\ session' = [session EXCEPT ![s] = done]
         /\ UNCHANGED <<emails, faults, lossy>>
      \/ /\ u # None /\ ~Conflicts(u, m) /\ emails' = emails \cup {row}
         /\ session' = [session EXCEPT ![s] = IF Mail[m].attached
                          THEN [done EXCEPT !.phase = "attach", !.row = row.n] ELSE done]
         /\ UNCHANGED <<faults, lossy>>
      \/ /\ Fault /\ session' = [session EXCEPT ![s] = done] /\ lossy' = lossy \cup {m} /\ UNCHANGED emails
  BY <1>1, <1>2, <1>3, <1>5, <1>6, <1>7 DEF CreateEmail, Set
<1>10. /\ emails' \subseteq Row /\ IsFiniteSet(emails)' /\ RowsApart'
       /\ u # None => row.n \in Nat /\ row.box = u /\ row.mail = m
       /\ emails \subseteq emails'
  <2>1. TypeOK /\ RowsApart /\ emails \subseteq Row /\ IsFiniteSet(emails)
    BY DEF InboundInv, TypeOK
  <2>2. row.n \in Nat /\ row.box = u /\ row.mail = m
    BY <1>7, <2>1, FS_CardinalityType
  <2>3. CASE u # None /\ ~Conflicts(u, m) /\ emails' = emails \cup {row}
    <3>1. u \in Users
      BY <2>3
    <3>2. emails' \subseteq Row /\ IsFiniteSet(emails)' /\ RowsApart'
      BY <1>7, <2>1, <2>3, <3>1, RowAdded
    <3> QED
      BY <2>2, <2>3, <3>2
  <2>4. CASE emails' = emails
    BY <2>1, <2>2, <2>4 DEF RowsApart
  <2> QED
    BY <1>9, <2>3, <2>4
<1>11. faults' \in 0..MaxFaults /\ lossy \subseteq lossy' /\ lossy' \subseteq Mails
  BY <1>9, FaultType DEF InboundInv, TypeOK
<1>12. Grows
  BY <1>8, <1>10, <1>11 DEF InboundInv, TypeOK, Grows
<1>13. m \in lossy' \/ Kept(m, a)'
  <2>1. CASE lossy' = lossy \cup {m}
    BY <2>1
  <2>2. CASE u = None
    <3>1. Moved(a)
      BY <1>1, <1>4, <1>5, <2>2 DEF SessionOK, RecipientsOK
    <3> QED
      BY <1>12, <3>1, KeptStays DEF Kept
  <2>3. CASE Conflicts(u, m)
    <3>1. Kept(m, a)
      BY <1>5, <2>3 DEF Conflicts, Kept, Copies
    <3> QED
      BY <1>12, <3>1, KeptStays
  <2>4. CASE u # None /\ emails' = emails \cup {row}
    <3>1. row \in emails' /\ row.box = u /\ Same(m, row.mail)
      BY <1>10, <2>4 DEF Same
    <3>2. \E e \in emails' : e.box = u /\ Same(m, e.mail)
      BY <3>1
    <3>3. u = resolveRecipientPubkey(a)'
      BY <1>5, <1>8 DEF resolveRecipientPubkey
    <3> QED
      BY <3>2, <3>3 DEF Kept, Copies, Same
  <2> QED
    BY <1>9, <2>1, <2>2, <2>3, <2>4
<1>14. PICK x \in SessionState :
         /\ session' = [session EXCEPT ![s] = x] /\ x.phase \in {"store", "attach"} /\ x.mail = m
         /\ x.to = q.to /\ x.spfOf = q.spfOf /\ x.tried = q.tried /\ x.left = q.left \ {a}
  <2>1. CASE session' = [session EXCEPT ![s] = done]
    BY <1>6, <2>1
  <2>2. CASE u # None /\ session' = [session EXCEPT ![s] = [done EXCEPT !.phase = "attach", !.row = row.n]]
    <3>1. row.n \in Optional(Nat)
      BY <1>10, <2>2, FieldTypes
    <3>2. [done EXCEPT !.phase = "attach", !.row = row.n] \in SessionState
      <4>1. "attach" \in Phases
        BY FieldTypes
      <4>2. PICK n : n = row.n
        OBVIOUS
      <4>3. n \in Optional(Nat) /\ done \in SessionState
        BY <3>1, <4>2
      <4>4. [done EXCEPT !.phase = "attach", !.row = n] \in SessionState
        BY <4>1, <4>3 DEF SessionState
      <4> QED
        BY <4>2, <4>4
    <3>3. PICK x \in SessionState :
            /\ x = [done EXCEPT !.phase = "attach", !.row = row.n] /\ x.phase = "attach" /\ x.mail = done.mail
            /\ x.to = done.to /\ x.spfOf = done.spfOf /\ x.tried = done.tried /\ x.left = done.left
      BY <3>2 DEF SessionState
    <3> QED
      BY <1>6, <2>2, <3>3
  <2> QED
    BY <1>9, <2>1, <2>2
<1>15. SessionOK(x)'
  <2>1. \A c \in q.left \ x.left : q.mail \in lossy' \/ Kept(q.mail, c)'
    BY <1>2, <1>13, <1>14
  <2> QED
    BY <1>1, <1>2, <1>12, <1>14, <2>1, DealtWith
<1>16. x.left \subseteq x.to /\ x.to \subseteq x.tried
  BY <1>1, <1>14
<1>17. /\ ComplaintsAreNotBounces' /\ VerdictIsItsOwn'
       /\ judged' \subseteq [mail : Mails, of : Mails \cup {None}]
  BY <1>8, <1>11 DEF InboundInv, TypeOK, ComplaintsAreNotBounces, VerdictIsItsOwn
<1> QED
  BY <1>8, <1>10, <1>11, <1>14, <1>15, <1>16, <1>17, WorkKeeps

(* The row of a message once its attachments are stored. *)
Listed(e, n) == IF e.n = n THEN [e EXCEPT !.listed = TRUE] ELSE e

(* A row keeps its mailbox and its message. *)
LEMMA ListedType ==
  ASSUME NEW e \in Row, NEW n
  PROVE  Listed(e, n) \in Row /\ Listed(e, n).box = e.box /\ Listed(e, n).mail = e.mail
<1>1. [e EXCEPT !.listed = TRUE] \in Row
  BY DEF Row
<1>2. [e EXCEPT !.listed = TRUE].box = e.box /\ [e EXCEPT !.listed = TRUE].mail = e.mail
  BY DEF Row
<1> QED
  BY <1>1, <1>2 DEF Listed

(* So do all of them. *)
LEMMA RowsListed ==
  ASSUME TypeOK, RowsApart, NEW n, emails' = {Listed(e, n) : e \in emails}
  PROVE  /\ emails' \subseteq Row /\ IsFiniteSet(emails)' /\ RowsApart'
         /\ \A e \in emails : \E f \in emails' : f.box = e.box /\ f.mail = e.mail
<1>1. emails \subseteq Row /\ IsFiniteSet(emails)
  BY DEF TypeOK
<1>2. \A e \in emails : Listed(e, n) \in Row /\ Listed(e, n).box = e.box /\ Listed(e, n).mail = e.mail
  BY <1>1, ListedType
<1>3. IsFiniteSet(emails')
  <2>1. PICK S, T : S = emails /\ T = emails'
    OBVIOUS
  <2> DEFINE g == [e \in S |-> Listed(e, n)]
  <2>2. g \in [S -> T] /\ \A t \in T : \E e \in S : g[e] = t
    BY <2>1
  <2>3. g \in Surjection(S, T)
    BY <2>2 DEF Surjection
  <2>4. IsFiniteSet(T)
    BY <1>1, <2>1, <2>3, FS_Surjection
  <2> QED
    BY <2>1, <2>4
<1>4. ASSUME NEW e \in emails', NEW f \in emails', e.box = f.box, Mail[e.mail].mid # None,
             Mail[e.mail].mid = Mail[f.mail].mid
      PROVE  e = f
  <2>1. PICK c \in emails : e = Listed(c, n)
    OBVIOUS
  <2>2. PICK d \in emails : f = Listed(d, n)
    OBVIOUS
  <2>3. c = d
    BY <1>2, <1>4, <2>1, <2>2 DEF RowsApart
  <2> QED
    BY <2>1, <2>2, <2>3
<1>5. \A e \in emails : \E f \in emails' : f.box = e.box /\ f.mail = e.mail
  BY <1>2
<1>6. emails' \subseteq Row
  BY <1>2
<1> QED
  BY <1>3, <1>4, <1>5, <1>6 DEF RowsApart

(* storeAttachments. *)
LEMMA storeAttachmentsKeeps ==
  ASSUME InboundInv, NEW s \in Sessions, storeAttachments(s), UNCHANGED reportVars
  PROVE  InboundInv'
<1>1. PICK q \in SessionState : /\ q = session[s] /\ SessionOK(q) /\ q.left \subseteq q.to /\ q.to \subseteq q.tried
                                /\ q.phase = "attach" /\ q.mail \in Mails
  BY Current DEF storeAttachments
<1>2. PICK m \in Mails : m = q.mail
  BY <1>1
<1> DEFINE n == q.row
<1>3. PICK x \in SessionState :
        /\ session' = [session EXCEPT ![s] = x] /\ x.phase = "store" /\ x.mail = q.mail
        /\ x.to = q.to /\ x.spfOf = q.spfOf /\ x.tried = q.tried /\ x.left = q.left
  <2>0. "store" \in Phases /\ None \in Optional(Nat)
    BY FieldTypes
  <2>1. [q EXCEPT !.phase = "store", !.row = None] \in SessionState
    BY <2>0 DEF SessionState
  <2>2. PICK x \in SessionState :
          /\ x = [q EXCEPT !.phase = "store", !.row = None] /\ x.phase = "store" /\ x.mail = q.mail
          /\ x.to = q.to /\ x.spfOf = q.spfOf /\ x.tried = q.tried /\ x.left = q.left
    BY <2>1 DEF SessionState
  <2>3. session' = [session EXCEPT ![s] = x]
    BY <1>1, <2>2 DEF storeAttachments, Set
  <2> QED
    BY <2>2, <2>3
<1>4. /\ UNCHANGED <<active, spool, acked, judged>>
      /\ UNCHANGED <<outbox, queued, aged, bounces, complaints, failed>>
  BY DEF storeAttachments, reportVars
<1>5. \/ emails' = {Listed(e, n) : e \in emails} /\ UNCHANGED <<faults, lossy>>
      \/ Fault /\ lossy' = lossy \cup {m} /\ UNCHANGED emails
  BY <1>1, <1>2 DEF storeAttachments, Listed
<1>6. /\ emails' \subseteq Row /\ IsFiniteSet(emails)' /\ RowsApart'
      /\ \A e \in emails : \E f \in emails' : f.box = e.box /\ f.mail = e.mail
  <2>1. TypeOK /\ RowsApart /\ emails \subseteq Row /\ IsFiniteSet(emails)
    BY DEF InboundInv, TypeOK
  <2>2. CASE emails' = {Listed(e, n) : e \in emails}
    BY <2>1, <2>2, RowsListed
  <2>3. CASE emails' = emails
    BY <2>1, <2>3 DEF RowsApart
  <2> QED
    BY <1>5, <2>2, <2>3
<1>7. faults' \in 0..MaxFaults /\ lossy \subseteq lossy' /\ lossy' \subseteq Mails
  BY <1>5, FaultType DEF InboundInv, TypeOK
<1>8. Grows
  BY <1>4, <1>6, <1>7 DEF InboundInv, TypeOK, Grows
<1>9. SessionOK(x)'
  BY <1>1, <1>3, <1>8, DealtWith
<1>10. x.left \subseteq x.to /\ x.to \subseteq x.tried
  BY <1>1, <1>3
<1>11. /\ ComplaintsAreNotBounces' /\ VerdictIsItsOwn'
       /\ judged' \subseteq [mail : Mails, of : Mails \cup {None}]
  BY <1>4, <1>7 DEF InboundInv, TypeOK, ComplaintsAreNotBounces, VerdictIsItsOwn
<1> QED
  BY <1>3, <1>4, <1>6, <1>7, <1>9, <1>10, <1>11, WorkKeeps
-----------------------------------------------------------------------------
(* A step outside the sessions: the process dies, an address is given up, a
   message is queued, grows old or fails for good. *)
LEMMA QuietKeeps ==
  ASSUME InboundInv, UNCHANGED <<emails, spool, acked, lossy, judged, complaints>>,
         active' \subseteq active, ReportsTypeOK', faults' \in 0..MaxFaults,
         session' = session \/ session' = [s \in Sessions |-> Closed],
         bounces \subseteq bounces', \A b \in bounces' \ bounces : b.report = None
  PROVE  InboundInv'
<1>1. TypeOK'
  <2>1. /\ session' \in [Sessions -> SessionState \cup {Closed}]
        /\ \A t \in Sessions : session'[t] # Closed => session'[t] = session[t]
    BY DEF InboundInv, TypeOK
  <2>2. ASSUME NEW t \in Sessions, session'[t] # Closed
        PROVE  session'[t].left \subseteq session'[t].to /\ session'[t].to \subseteq session'[t].tried
    BY <2>1, <2>2 DEF InboundInv, TypeOK
  <2> QED
    BY <2>1, <2>2 DEF InboundInv, TypeOK
<1>2. Grows
  BY DEF InboundInv, TypeOK, Grows
<1>3. AcceptedIsKept'
  <2>1. \A n \in DOMAIN acked : \A a \in acked'[n] : a \in acked[n]
    OBVIOUS
  <2> QED
    BY <1>2, <2>1, AcksKeep DEF InboundInv
<1>4. RowsApart' /\ ComplaintsAreNotBounces' /\ VerdictIsItsOwn'
  BY DEF InboundInv, RowsApart, ComplaintsAreNotBounces, VerdictIsItsOwn
<1> QED
  BY <1>1, <1>2, <1>3, <1>4, OutsideKeeps

(* The callback of the queue names no report. *)
LEMMA FailureStep ==
  ASSUME ReportsTypeOK, NEW i \in 1..queued, RecordOutboundFailure(i)
  PROVE  /\ ReportsTypeOK' /\ bounces \subseteq bounces' /\ complaints' = complaints
         /\ \A b \in bounces' \ bounces : b.report = None
<1> DEFINE rows == {[n |-> 0, report |-> None, id |-> outbox[i].id, rcpt |-> r,
                     type |-> classifyFromError(outbox[i].fate), sender |-> outbox[i].sender] :
                       r \in outbox[i].rcpts}
<1>1. bounces' = bounces \cup rows /\ complaints' = complaints
  BY DEF RecordOutboundFailure
<1>2. \A b \in rows : b.report = None /\ b.sender = outbox[i].sender
  OBVIOUS
<1> HIDE DEF rows
<1>3. outbox[i].sender \in Users \cup {None}
  BY SenderType
<1>4. /\ UNCHANGED <<outbox, queued, aged>> /\ failed' \subseteq 1..queued
  BY DEF RecordOutboundFailure, ReportsTypeOK
<1>5. ReportsTypeOK'
  BY <1>1, <1>2, <1>3, <1>4 DEF ReportsTypeOK
<1> QED
  BY <1>1, <1>2, <1>5

(* Those steps. *)
LEMMA OutsideStepKeeps ==
  ASSUME InboundInv,
         \/ (Crash \/ \E a \in Addresses : Retire(a)) /\ UNCHANGED reportVars
         \/ Sending /\ UNCHANGED inboundVars
         \/ UNCHANGED vars
  PROVE  InboundInv'
<1>0. ReportsTypeOK /\ queued \in Nat /\ aged \in Nat /\ Len(outbox) \in Nat
  BY DEF InboundInv, TypeOK, ReportsTypeOK, Outbound
<1>1. CASE Crash /\ UNCHANGED reportVars
  <2>1. ReportsTypeOK' /\ bounces' = bounces /\ complaints' = complaints
    BY <1>0, <1>1 DEF reportVars, ReportsTypeOK
  <2>2. faults' \in 0..MaxFaults
    BY <1>1, FaultType DEF Crash, InboundInv
  <2>3. /\ session' = [s \in Sessions |-> Closed]
        /\ UNCHANGED <<active, emails, spool, acked, lossy, judged>>
    BY <1>1 DEF Crash
  <2> QED
    BY <2>1, <2>2, <2>3, QuietKeeps
<1>2. CASE (\E a \in Addresses : Retire(a)) /\ UNCHANGED reportVars
  <2>1. ReportsTypeOK' /\ bounces' = bounces /\ complaints' = complaints
    BY <1>0, <1>2 DEF reportVars, ReportsTypeOK
  <2>2. active' \subseteq active /\ UNCHANGED <<emails, session, spool, acked, faults, lossy, judged>>
    BY <1>2 DEF Retire
  <2>3. faults' \in 0..MaxFaults
    BY <2>2, FaultType DEF InboundInv
  <2> QED
    BY <2>1, <2>2, <2>3, QuietKeeps
<1>3. CASE UNCHANGED inboundVars /\ (Sending \/ UNCHANGED reportVars)
  <2>1. UNCHANGED <<active, emails, session, spool, acked, faults, lossy, judged>>
    BY <1>3 DEF inboundVars
  <2>2. faults' \in 0..MaxFaults
    BY <2>1, FaultType DEF InboundInv
  <2>3. /\ ReportsTypeOK' /\ bounces \subseteq bounces' /\ complaints' = complaints
        /\ \A b \in bounces' \ bounces : b.report = None
    <3>1. CASE Queue
      <4>1. UNCHANGED <<outbox, aged, bounces, complaints, failed>> /\ queued' = queued + 1 /\ queued < Len(outbox)
        BY <3>1 DEF Queue
      <4>2. queued' \in 0..Len(outbox') /\ aged' \in 0..queued'
        BY <1>0, <4>1 DEF ReportsTypeOK
      <4>3. failed' \subseteq 1..queued'
        BY <1>0, <4>1 DEF ReportsTypeOK
      <4> QED
        BY <1>0, <4>1, <4>2, <4>3 DEF ReportsTypeOK
    <3>2. CASE Age
      <4>1. UNCHANGED <<outbox, queued, bounces, complaints, failed>> /\ aged' = aged + 1 /\ aged < queued
        BY <3>2 DEF Age
      <4>2. aged' \in 0..queued'
        BY <1>0, <4>1
      <4> QED
        BY <1>0, <4>1, <4>2 DEF ReportsTypeOK
    <3>3. CASE \E i \in 1..queued : RecordOutboundFailure(i)
      BY <1>0, <3>3, FailureStep
    <3>4. CASE UNCHANGED reportVars
      BY <1>0, <3>4 DEF reportVars, ReportsTypeOK
    <3> QED
      BY <1>3, <3>1, <3>2, <3>3, <3>4 DEF Sending
  <2> QED
    BY <2>1, <2>2, <2>3, QuietKeeps
<1> QED
  BY <1>1, <1>2, <1>3 DEF vars

(* Every step. *)
LEMMA NextInv ==
  ASSUME InboundInv, [Next]_vars
  PROVE  InboundInv'
<1>1. CASE Inbound /\ UNCHANGED reportVars
  BY <1>1, RcptKeeps, SessionOnlyKeeps, CreateEmailKeeps, storeAttachmentsKeeps, ReplyKeeps,
     MailFromKeeps, OutsideStepKeeps DEF Inbound
<1>2. CASE \E s \in Sessions : Data(s)
  <2>1. PICK s \in Sessions : Data(s)
    BY <1>2
  <2>2. \/ DataRefused(s, session[s].mail) \/ DataReport(s, session[s].mail)
        \/ DataMessage(s, session[s].mail)
    BY <2>1 DEF Data
  <2> QED
    BY <2>1, <2>2, DataRefusedKeeps, DataReportKeeps, DataMessageKeeps
<1>3. CASE (Sending /\ UNCHANGED inboundVars) \/ UNCHANGED vars
  BY <1>3, OutsideStepKeeps
<1> QED
  BY <1>1, <1>2, <1>3 DEF Next
-----------------------------------------------------------------------------
(* What a report names: a Message-ID of its headers or of the returned copy,
   which is that of the message if the report can be traced, and the recipient. *)
LEMMA WhatIsNamed ==
  ASSUME NEW m \in Mails, NEW info \in {parseBounce(m), parseComplaint(m)}
  PROVE  \/ info.id = None /\ info.rcpt = None
         \/ /\ info.rcpt = Mail[m].failed
            /\ info.id \in {Mail[m].inReplyTo, Mail[m].root, Mail[m].returned}
            /\ ReportsTypeOK /\ Traceable(m) => info.id = outbox[Mail[m].about].id
<1>1. CASE info = parseBounce(m) /\ Mail[m].kind = "unreadable"
  BY <1>1 DEF parseBounce
<1>2. CASE info = parseBounce(m) /\ Mail[m].kind # "unreadable"
  <2>1. info.id = extractOriginalMessageID(Mail[m]) /\ info.rcpt = Mail[m].failed
    BY <1>2 DEF parseBounce, extractOriginalRecipient
  <2>2. /\ info.id \in {Mail[m].inReplyTo, Mail[m].root, Mail[m].returned}
        /\ info.id = None => Mail[m].returned = None
    BY <2>1 DEF extractOriginalMessageID
  <2>3. Traceable(m) => info.id = outbox[Mail[m].about].id
    BY <2>1, <2>2 DEF Traceable, extractOriginalMessageID
  <2> QED
    BY <2>1, <2>2, <2>3
<1>3. CASE info = parseComplaint(m)
  BY <1>3 DEF parseComplaint, Traceable
<1> QED
  BY <1>1, <1>2, <1>3

(* Who is charged, then, is who wrote it. *)
LEMMA Evidence ==
  ASSUME ReportsTypeOK, NEW m \in Mails, NEW info \in {parseBounce(m), parseComplaint(m)},
         NEW down \in BOOLEAN, NEW who, who = attributeSender(info, down), who # None
  PROVE  /\ Traceable(m) => who = outbox[Mail[m].about].sender
         /\ \E i \in 1..queued :
              /\ who = outbox[i].sender
              /\ \/ i > aged /\ Mail[m].failed \in outbox[i].rcpts
                 \/ outbox[i].id \in {Mail[m].inReplyTo, Mail[m].root, Mail[m].returned}
<1>1. who = resolveSender(info.id, info.rcpt)
  BY DEF attributeSender
<1>2. PICK i \in 1..queued :
        /\ who = outbox[i].sender
        /\ \/ info.id # None /\ outbox[i].id = info.id
           \/ /\ info.id = None \/ ByMessageID(info.id) = {}
              /\ i > aged /\ info.rcpt \in outbox[i].rcpts
  BY <1>1, ResolvesToSender
<1>3. /\ info.rcpt = Mail[m].failed
      /\ info.id \in {Mail[m].inReplyTo, Mail[m].root, Mail[m].returned}
      /\ Traceable(m) => info.id = outbox[Mail[m].about].id
  <2>1. ~(info.id = None /\ info.rcpt = None)
    BY <1>1 DEF resolveSender
  <2> QED
    BY <2>1, WhatIsNamed
<1>4. ASSUME Traceable(m) PROVE who = outbox[Mail[m].about].sender
  <2>1. PICK j \in 1..queued : j = Mail[m].about /\ outbox[j].sender # None /\ outbox[j].id = info.id
    BY <1>3, <1>4 DEF Traceable
  <2>2. info.id # None
    BY <2>1, SenderType, ReportsAssumption
  <2>3. j \in ByMessageID(info.id)
    BY <2>1 DEF ByMessageID
  <2>4. outbox[i].id = outbox[j].id
    BY <1>2, <2>1, <2>2, <2>3
  <2>5. i = j
    <3>1. i \in DOMAIN outbox /\ j \in DOMAIN outbox
      BY SenderType
    <3> QED
      BY <2>4, <3>1 DEF ReportsTypeOK
  <2> QED
    BY <1>2, <2>1, <2>5
<1> QED
  BY <1>2, <1>3, <1>4
-----------------------------------------------------------------------------
(* The invariant the results below follow from, for the inbound server, the
   handler behind it and the two report tables together. *)
THEOREM InboundInvariant == Spec => []InboundInv
<1>1. InboundInv /\ [Next]_vars => InboundInv'
  BY NextInv
<1> QED
  BY <1>1, InitInv, PTL DEF Spec

(* The sessions, the senders' spools, the mailboxes and the report tables have
   their types; a recipient a sender has been told 250 for is no longer in its
   spool, and DATA stores only for recipients RCPT TO took. *)
THEOREM TypeCorrect == Spec => []TypeOK
<1>1. InboundInv => TypeOK
  BY DEF InboundInv
<1> QED
  BY <1>1, InboundInvariant, PTL

(* What Data answered with 250 is in the mailbox of every recipient who still
   has the address, or recorded as a bounce or a complaint, unless a statement
   of storeForRecipient failed for it, whatever crashes, timeouts and retries. *)
THEOREM AcceptedMailIsKept == Spec => []AcceptedIsKept
<1>1. InboundInv => AcceptedIsKept
  BY DEF InboundInv
<1> QED
  BY <1>1, InboundInvariant, PTL

(* The unique index of CreateEmail leaves at most one row of a Message-ID in a
   mailbox, however many connections deliver it and to however many aliases. *)
THEOREM MailboxesHoldOneCopy == Spec => []OneCopyEach
<1>1. InboundInv => OneCopyEach
  <2> SUFFICES ASSUME InboundInv, NEW u \in Users, NEW m \in DOMAIN spool, Mail[m].mid # None
               PROVE  Cardinality(Copies(u, m)) <= 1
    BY DEF OneCopyEach
  <2>1. ASSUME NEW e \in Copies(u, m), NEW f \in Copies(u, m) PROVE e = f
    BY DEF InboundInv, RowsApart, Copies, Same
  <2> QED
    BY <2>1, AtMostOne
<1> QED
  BY <1>1, InboundInvariant, PTL

(* Data looks for a feedback-loop report before it looks for a bounce: an ARF
   report becomes a bounce only if ProcessComplaint failed. *)
THEOREM ComplaintsStayComplaints == Spec => []ComplaintsAreNotBounces
<1>1. InboundInv => ComplaintsAreNotBounces
  BY DEF InboundInv
<1> QED
  BY <1>1, InboundInvariant, PTL

(* Reset leaves the SPF result of the last transaction in the session, and
   still no message is handed over with the verdict of another one. *)
THEOREM VerdictsAreOwn == Spec => []VerdictIsItsOwn
<1>1. InboundInv => VerdictIsItsOwn
  BY DEF InboundInv
<1> QED
  BY <1>1, InboundInvariant, PTL

(* attributeSender charges the sender of the message a report returns, and for
   want of one only somebody who wrote a message the report names or who wrote
   to the failed recipient within the window. *)
THEOREM ChargesHaveEvidence == Spec => ChargedOnEvidence
<1> DEFINE Charged ==
      \A b \in (bounces' \cup complaints') \ (bounces \cup complaints) :
        b.report # None /\ b.sender # None =>
          LET r == Mail[b.report] IN
          IF Traceable(b.report) THEN b.sender = outbox[r.about].sender
          ELSE \E i \in 1..queued :
                 /\ b.sender = outbox[i].sender
                 /\ \/ i > aged /\ r.failed \in outbox[i].rcpts
                    \/ outbox[i].id \in {r.inReplyTo, r.root, r.returned}
<1>1. ASSUME InboundInv, [Next]_vars PROVE [Charged]_reportVars
  <2>0. TypeOK /\ ReportsTypeOK
    BY <1>1 DEF InboundInv, TypeOK
  <2>1. CASE \A b \in (bounces' \cup complaints') \ (bounces \cup complaints) : b.report = None
    BY <2>1
  <2>2. CASE \E s \in Sessions : Data(s)
    <3>1. PICK s \in Sessions : Data(s)
      BY <2>2
    <3>2. CASE DataRefused(s, session[s].mail) \/ DataMessage(s, session[s].mail)
      BY <3>2 DEF DataRefused, DataMessage
    <3>3. CASE DataReport(s, session[s].mail)
      <4>1. PICK m \in Mails : DataReport(s, m)
        BY <1>1, <3>1, <3>3, Current DEF Data
      <4>2. ASSUME NEW b \in (bounces' \cup complaints') \ (bounces \cup complaints), b.sender # None
            PROVE  /\ b.report = m
                   /\ Traceable(m) => b.sender = outbox[Mail[m].about].sender
                   /\ \E i \in 1..queued :
                        /\ b.sender = outbox[i].sender
                        /\ \/ i > aged /\ Mail[m].failed \in outbox[i].rcpts
                           \/ outbox[i].id \in {Mail[m].inReplyTo, Mail[m].root, Mail[m].returned}
        <5>1. PICK info \in {parseBounce(m), parseComplaint(m)}, down \in BOOLEAN :
                b.report = m /\ b.sender = attributeSender(info, down)
          BY <2>0, <4>1, ReportStep
        <5> QED
          BY <2>0, <4>2, <5>1, Evidence
      <4> QED
        BY <4>2
    <3> QED
      BY <3>1, <3>2, <3>3 DEF Data
  <2>3. CASE \E i \in 1..queued : RecordOutboundFailure(i)
    BY <2>0, <2>1, <2>3, FailureStep
  <2>4. CASE UNCHANGED <<bounces, complaints>>
    BY <2>4
  <2> QED
    BY <1>1, <2>2, <2>3, <2>4 DEF Next, Sending, Queue, Age, vars, reportVars
<1>2. Spec => [][Charged]_reportVars
  BY <1>1, InboundInvariant, PTL DEF Spec
<1> QED
  BY <1>2 DEF ChargedOnEvidence

-----------------------------------------------------------------------------
(* InboundLimiter                                                          *)

(* A call that was let through: its time and the start of its window. *)
PassRecords == [at : Nat, window : Nat]

(* The types of the limiter. *)
LimiterTypeOK ==
  /\ now \in Nat /\ swept \in Nat
  /\ entry \in [Tables -> [Hosts -> Entries \cup {Absent}]]
  /\ passes \in [Tables -> [Hosts -> Seq(PassRecords)]]
  /\ retryAt \in [Tables -> [Hosts -> Nat]]

(* A host that has been told to come back later has an entry that keeps it out
   until then. *)
KeptOut(t, h) ==
  LET e == entry[t][h] IN
  retryAt[t][h] > now => /\ e # Absent /\ e.blocked
                         /\ e.blockedAt + BlockDuration = retryAt[t][h]

(* Calls fall into windows in their order.  Windows lie a minute apart and do
   not overlap, none holds more than lim calls, and the first call of a full one
   began it. *)
Windowed(p, lim) ==
  \A i, j \in 1..Len(p) :
    /\ p[i].window <= p[i].at
    /\ i <= j => p[i].window <= p[j].window
    /\ p[i].window < p[j].window => p[i].window + Minute <= p[j].window /\ p[i].at <= p[j].window
    /\ j - i >= lim => p[i].window < p[j].window
    /\ j - i = lim - 1 /\ p[i].window = p[j].window => p[i].at = p[i].window

(* No call was counted in a window that is still open. *)
AllOver(p, time) == \A i \in 1..Len(p) : p[i].at <= time /\ p[i].window + Minute <= time

(* No window of a call is younger than the entry's, and an older one is over. *)
NoneYounger(p, e, time) ==
  \A i \in 1..Len(p) :
    /\ p[i].at <= time /\ p[i].window <= e.window
    /\ p[i].window < e.window => p[i].window + Minute <= e.window /\ p[i].at <= e.window

(* The last calls, as many as the entry counts, are those of its window, which
   the first of them began. *)
CountedLast(p, e, lim) ==
  /\ 1 <= e.count /\ e.count <= lim /\ e.count <= Len(p)
  /\ \A i \in 1..Len(p) : p[i].window = e.window <=> i > Len(p) - e.count
  /\ p[Len(p) - e.count + 1].at = e.window

(* What a stored entry says of the calls let through. *)
Accounts(p, e, lim, time) ==
  /\ e.window <= time
  /\ NoneYounger(p, e, time)
  /\ e.blocked => e.window <= e.blockedAt /\ e.blockedAt <= time
  /\ ~e.blocked => CountedLast(p, e, lim)

(* What a host's entry, or its absence, says of the calls let through. *)
Tracked(t, h) ==
  /\ Windowed(passes[t][h], Limit(t))
  /\ IF entry[t][h] = Absent THEN AllOver(passes[t][h], now)
     ELSE Accounts(passes[t][h], entry[t][h], Limit(t), now)

(* What holds of every host in either table. *)
HostInv == \A t \in Tables, h \in Hosts : KeptOut(t, h) /\ Tracked(t, h)

(* The inductive invariant of the limiter. *)
LimiterInv == LimiterTypeOK /\ HostInv

(* The limits are positive. *)
LEMMA LimitType ==
  ASSUME NEW t
  PROVE  /\ Limit(t) \in Nat \ {0} /\ BlockDuration \in Nat \ {0} /\ Minute \in Nat \ {0}
         /\ BlockDuration >= Minute
BY LimiterAssumption DEF Limit

(* A distance is at least that of two points between. *)
LEMMA AtLeastApart ==
  ASSUME NEW a \in Nat, NEW b \in Nat, NEW c \in Nat, NEW d \in Nat, NEW g \in Nat,
         a <= b, b + g <= c, c <= d
  PROVE  d - a >= g
OBVIOUS

(* Two numbers grow by one and stay as far apart. *)
LEMMA OneMoreEach ==
  ASSUME NEW a \in Nat, NEW b \in Nat, NEW c, NEW d, c = a + 1, d = b + 1
  PROVE  c - d = a - b
OBVIOUS

(* Twice the limit of calls take at least a minute: the window of the second half
   of them is over by the last one, or began a minute after an earlier one. *)
LEMMA TwiceTheLimit ==
  ASSUME NEW p \in Seq(PassRecords), NEW lim \in Nat \ {0}, Windowed(p, lim),
         NEW i \in 1..Len(p), i = Len(p) - 2 * lim + 1
  PROVE  p[Len(p)].at - p[i].at >= Minute
<1> DEFINE n == Len(p)
           m == i + lim - 1
           k == i + lim
<1>1. n \in Nat /\ m \in 1..n /\ k \in 1..n /\ n \in 1..n /\ i \in 1..n
  OBVIOUS
<1>2. k - i >= lim /\ n - m >= lim /\ n - k = lim - 1 /\ m - i = lim - 1 /\ m <= k /\ k <= n /\ i <= m
  OBVIOUS
<1>3. Minute \in Nat
  BY LimitType
<1>4. \A j \in 1..n : p[j] \in PassRecords
  OBVIOUS
<1>5. \A j \in 1..n : p[j].at \in Nat /\ p[j].window \in Nat
  BY <1>4 DEF PassRecords
<1> HIDE DEF n, m, k
<1>6. ASSUME NEW a \in 1..n, NEW b \in 1..n
      PROVE  /\ p[a].window <= p[a].at
             /\ a <= b => p[a].window <= p[b].window
             /\ p[a].window < p[b].window => p[a].window + Minute <= p[b].window /\ p[a].at <= p[b].window
             /\ b - a >= lim => p[a].window < p[b].window
             /\ b - a = lim - 1 /\ p[a].window = p[b].window => p[a].at = p[a].window
  BY <1>6 DEF Windowed, n
<1>7. p[i].window < p[k].window /\ p[i].at <= p[k].window
  BY <1>1, <1>2, <1>6
<1>8. p[m].window < p[n].window /\ p[m].window + Minute <= p[n].window
  BY <1>1, <1>2, <1>6
<1>9. p[n].window <= p[n].at
  BY <1>1, <1>6
<1>10. /\ p[i].at \in Nat /\ p[n].at \in Nat
       /\ p[m].window \in Nat /\ p[k].window \in Nat /\ p[n].window \in Nat
  BY <1>1, <1>5
<1>11. CASE p[k].window < p[n].window
  <2>1. p[k].window + Minute <= p[n].window
    BY <1>1, <1>6, <1>11
  <2>2. p[n].at - p[i].at >= Minute
    BY <1>3, <1>10, <1>7, <1>9, <2>1, AtLeastApart
  <2> QED
    BY <2>2 DEF n
<1>12. CASE ~(p[k].window < p[n].window)
  <2>1. p[i].at <= p[m].window
    <3>1. p[i].window <= p[m].window
      BY <1>1, <1>2, <1>6
    <3>2. CASE p[i].window = p[m].window
      BY <1>1, <1>2, <1>5, <1>6, <3>2
    <3>3. CASE p[i].window < p[m].window
      BY <1>1, <1>6, <3>3
    <3> QED
      BY <1>1, <1>5, <3>1, <3>2, <3>3
  <2>2. p[n].at - p[i].at >= Minute
    BY <1>3, <1>10, <1>8, <1>9, <2>1, AtLeastApart
  <2> QED
    BY <2>2 DEF n
<1> QED
  BY <1>11, <1>12

(* What appending a call does to the sequence of calls. *)
LEMMA AppendPass ==
  ASSUME NEW p \in Seq(PassRecords), NEW r \in PassRecords, NEW q, q = Append(p, r)
  PROVE  /\ q \in Seq(PassRecords) /\ Len(q) = Len(p) + 1 /\ Len(p) \in Nat
         /\ q[Len(p) + 1] = r
         /\ \A i \in 1..Len(p) : q[i] = p[i] /\ p[i].at \in Nat /\ p[i].window \in Nat
         /\ r.at \in Nat /\ r.window \in Nat
<1>1. \A i \in 1..Len(p) : p[i] \in PassRecords
  OBVIOUS
<1>2. \A i \in 1..Len(p) : p[i].at \in Nat /\ p[i].window \in Nat
  BY <1>1 DEF PassRecords
<1>3. r.at \in Nat /\ r.window \in Nat
  BY DEF PassRecords
<1> QED
  BY <1>2, <1>3

(* A call that begins a window, once every earlier window is over. *)
LEMMA BeginsWindow ==
  ASSUME NEW time \in Nat, NEW p \in Seq(PassRecords), NEW lim \in Nat \ {0}, Windowed(p, lim), AllOver(p, time),
         NEW c \in Entries, c.window = time, c.count = 1, ~c.blocked,
         NEW q, q = Append(p, [at |-> time, window |-> time])
  PROVE  Windowed(q, lim) /\ Accounts(q, c, lim, time)
<1>1. PICK r \in PassRecords : r = [at |-> time, window |-> time]
  BY DEF PassRecords
<1>2. r.at = time /\ r.window = time
  BY <1>1
<1>3. /\ Len(q) = Len(p) + 1 /\ Len(p) \in Nat /\ q[Len(p) + 1] = r
      /\ \A i \in 1..Len(p) : q[i] = p[i] /\ p[i].at \in Nat /\ p[i].window \in Nat
  BY <1>1, AppendPass
<1>4. Minute \in Nat \ {0}
  BY LimitType
<1>5. \A i \in 1..Len(p) : p[i].at <= time /\ p[i].window + Minute <= time
  BY DEF AllOver
<1>6. \A i, j \in 1..Len(p) :
        /\ p[i].window <= p[i].at
        /\ i <= j => p[i].window <= p[j].window
        /\ p[i].window < p[j].window => p[i].window + Minute <= p[j].window /\ p[i].at <= p[j].window
        /\ j - i >= lim => p[i].window < p[j].window
        /\ j - i = lim - 1 /\ p[i].window = p[j].window => p[i].at = p[i].window
  BY DEF Windowed
<1>7. Windowed(q, lim)
  <2> SUFFICES ASSUME NEW i \in 1..Len(q), NEW j \in 1..Len(q)
               PROVE  /\ q[i].window <= q[i].at
                      /\ i <= j => q[i].window <= q[j].window
                      /\ q[i].window < q[j].window => q[i].window + Minute <= q[j].window /\ q[i].at <= q[j].window
                      /\ j - i >= lim => q[i].window < q[j].window
                      /\ j - i = lim - 1 /\ q[i].window = q[j].window => q[i].at = q[i].window
    BY DEF Windowed
  <2>1. (i \in 1..Len(p) \/ i = Len(p) + 1) /\ (j \in 1..Len(p) \/ j = Len(p) + 1)
    BY <1>3
  <2>2. CASE i \in 1..Len(p) /\ j \in 1..Len(p)
    BY <1>3, <1>6, <2>2
  <2>3. CASE i \in 1..Len(p) /\ j = Len(p) + 1
    BY <1>2, <1>3, <1>4, <1>5, <1>6, <2>3
  <2>4. CASE i = Len(p) + 1 /\ j \in 1..Len(p)
    BY <1>2, <1>3, <1>4, <1>5, <2>4
  <2>5. CASE i = Len(p) + 1 /\ j = Len(p) + 1
    BY <1>2, <1>3, <2>5
  <2> QED
    BY <2>1, <2>2, <2>3, <2>4, <2>5
<1>8. NoneYounger(q, c, time)
  BY <1>2, <1>3, <1>4, <1>5 DEF NoneYounger
<1>9. CountedLast(q, c, lim)
  BY <1>2, <1>3, <1>4, <1>5 DEF CountedLast
<1> QED
  BY <1>7, <1>8, <1>9 DEF Accounts

(* A call counted in the window its entry has open. *)
LEMMA JoinsWindow ==
  ASSUME NEW time \in Nat, NEW p \in Seq(PassRecords), NEW lim \in Nat \ {0}, Windowed(p, lim),
         NEW e \in Entries, Accounts(p, e, lim, time), ~e.blocked,
         NEW c \in Entries, c.window = e.window, c.count = e.count + 1, ~c.blocked, c.count <= lim,
         NEW q, q = Append(p, [at |-> time, window |-> c.window])
  PROVE  Windowed(q, lim) /\ Accounts(q, c, lim, time)
<1>0. e.window \in Nat /\ e.count \in Nat /\ c.window \in Nat
  BY DEF Entries
<1>1. PICK r \in PassRecords : r = [at |-> time, window |-> e.window]
  BY <1>0 DEF PassRecords
<1>2. r.at = time /\ r.window = e.window
  BY <1>1
<1>3. /\ Len(q) = Len(p) + 1 /\ Len(p) \in Nat /\ q[Len(p) + 1] = r
      /\ \A i \in 1..Len(p) : q[i] = p[i] /\ p[i].at \in Nat /\ p[i].window \in Nat
  BY <1>1, AppendPass
<1>4. Minute \in Nat \ {0}
  BY LimitType
<1>5. /\ e.window <= time
      /\ \A i \in 1..Len(p) :
           /\ p[i].at <= time /\ p[i].window <= e.window
           /\ p[i].window < e.window => p[i].window + Minute <= e.window /\ p[i].at <= e.window
  BY DEF Accounts, NoneYounger
<1>6. \A i, j \in 1..Len(p) :
        /\ p[i].window <= p[i].at
        /\ i <= j => p[i].window <= p[j].window
        /\ p[i].window < p[j].window => p[i].window + Minute <= p[j].window /\ p[i].at <= p[j].window
        /\ j - i >= lim => p[i].window < p[j].window
        /\ j - i = lim - 1 /\ p[i].window = p[j].window => p[i].at = p[i].window
  BY DEF Windowed
<1>7. /\ 1 <= e.count /\ e.count <= Len(p)
      /\ \A i \in 1..Len(p) : p[i].window = e.window <=> i > Len(p) - e.count
      /\ p[Len(p) - e.count + 1].at = e.window
  BY DEF Accounts, CountedLast
<1>8. Windowed(q, lim)
  <2> SUFFICES ASSUME NEW i \in 1..Len(q), NEW j \in 1..Len(q)
               PROVE  /\ q[i].window <= q[i].at
                      /\ i <= j => q[i].window <= q[j].window
                      /\ q[i].window < q[j].window => q[i].window + Minute <= q[j].window /\ q[i].at <= q[j].window
                      /\ j - i >= lim => q[i].window < q[j].window
                      /\ j - i = lim - 1 /\ q[i].window = q[j].window => q[i].at = q[i].window
    BY DEF Windowed
  <2>1. (i \in 1..Len(p) \/ i = Len(p) + 1) /\ (j \in 1..Len(p) \/ j = Len(p) + 1)
    BY <1>3
  <2>2. CASE i \in 1..Len(p) /\ j \in 1..Len(p)
    BY <1>3, <1>6, <2>2
  <2>3. CASE i \in 1..Len(p) /\ j = Len(p) + 1
    <3>1. q[i] = p[i] /\ q[j] = r /\ p[i].at \in Nat /\ p[i].window \in Nat
      BY <1>3, <2>3
    <3>2. p[i].window <= p[i].at
      BY <1>6, <2>3
    <3>3. /\ p[i].window <= e.window
          /\ p[i].window < e.window => p[i].window + Minute <= e.window /\ p[i].at <= e.window
      BY <1>5, <2>3
    <3>4. p[i].window = e.window <=> i > Len(p) - e.count
      BY <1>7, <2>3
    <3>5. j - i >= lim => p[i].window < e.window
      BY <1>0, <1>3, <2>3, <3>1, <3>3, <3>4
    <3>6. j - i = lim - 1 /\ p[i].window = e.window => p[i].at = p[i].window
      <4> SUFFICES ASSUME j - i = lim - 1, p[i].window = e.window PROVE p[i].at = p[i].window
        OBVIOUS
      <4>1. i = Len(p) - e.count + 1
        BY <1>0, <1>3, <2>3, <3>4
      <4> QED
        BY <1>7, <4>1
    <3> QED
      BY <1>0, <1>2, <3>1, <3>2, <3>3, <3>5, <3>6
  <2>4. CASE i = Len(p) + 1 /\ j \in 1..Len(p)
    BY <1>0, <1>2, <1>3, <1>5, <2>4
  <2>5. CASE i = Len(p) + 1 /\ j = Len(p) + 1
    BY <1>0, <1>2, <1>3, <1>5, <1>7, <2>5
  <2> QED
    BY <2>1, <2>2, <2>3, <2>4, <2>5
<1>9. NoneYounger(q, c, time)
  BY <1>0, <1>2, <1>3, <1>4, <1>5 DEF NoneYounger
<1>10. CountedLast(q, c, lim)
  <2>1. Len(q) = Len(p) + 1 /\ Len(p) \in Nat /\ 1 <= e.count /\ e.count <= Len(p)
    BY <1>3, <1>7
  <2>2. Len(q) - c.count = Len(p) - e.count
    BY <1>0, <2>1, OneMoreEach
  <2>3. Len(p) - e.count + 1 \in 1..Len(p)
    BY <1>0, <2>1
  <2>4. /\ Len(q) - c.count = Len(p) - e.count
        /\ Len(p) - e.count + 1 \in 1..Len(p)
    BY <2>2, <2>3
  <2>5. q[Len(q) - c.count + 1].at = c.window
    BY <1>3, <1>7, <2>4
  <2>6. \A i \in 1..Len(q) : q[i].window = c.window <=> i > Len(q) - c.count
    <3> SUFFICES ASSUME NEW i \in 1..Len(q)
                 PROVE  q[i].window = c.window <=> i > Len(q) - c.count
      OBVIOUS
    <3>1. CASE i \in 1..Len(p)
      BY <1>3, <1>7, <2>4, <3>1
    <3>2. CASE i = Len(p) + 1
      BY <1>0, <1>2, <1>3, <1>7, <2>4, <3>2
    <3> QED
      BY <1>3, <3>1, <3>2
  <2>7. 1 <= c.count /\ c.count <= Len(q)
    BY <1>0, <1>3, <1>7
  <2> QED
    BY <2>5, <2>6, <2>7 DEF CountedLast
<1> QED
  BY <1>5, <1>8, <1>9, <1>10 DEF Accounts

(* What is known of a host stays so while nothing of it changes. *)
LEMMA SameHost ==
  ASSUME NEW u, NEW g, now' = now, entry'[u][g] = entry[u][g], retryAt'[u][g] = retryAt[u][g],
         passes'[u][g] = passes[u][g], KeptOut(u, g), Tracked(u, g)
  PROVE  (KeptOut(u, g) /\ Tracked(u, g))'
BY DEF KeptOut, Tracked

(* An entry e that a check works on, and what counting makes of it. *)
Counts(t, h, e, c) ==
  /\ e \in Entries /\ c \in Entries
  /\ entry[t][h] # Absent => e = entry[t][h]
  /\ entry[t][h] = Absent => ~e.blocked /\ e.window = now /\ e.count = 0
  /\ ~c.blocked
  /\ e.blocked \/ now - e.window > Minute => c.window = now /\ c.count = 1
  /\ ~(e.blocked \/ now - e.window > Minute) => c.window = e.window /\ c.count = e.count + 1

(* What a check works on is an entry, and counting makes it one that counts the
   call, in a new window or in the one that is still open. *)
LEMMA EntryCounts ==
  ASSUME LimiterTypeOK, NEW t \in Tables, NEW h \in Hosts, NEW e, e = getOrCreateEntry(t, h),
         NEW c, c = [Rolled(e) EXCEPT !.count = @ + 1]
  PROVE  Counts(t, h, e, c)
<1>1. now \in Nat /\ entry[t][h] \in Entries \cup {Absent}
  BY DEF LimiterTypeOK
<1>2. e \in Entries /\ (entry[t][h] = Absent => ~e.blocked /\ e.window = now /\ e.count = 0)
  BY <1>1 DEF getOrCreateEntry, Entries
<1>3. PICK d : d = Rolled(e)
  OBVIOUS
<1>4. /\ d \in Entries /\ ~d.blocked
      /\ e.blocked \/ now - e.window > Minute => d.window = now /\ d.count = 0
      /\ ~(e.blocked \/ now - e.window > Minute) => d = e
  <2>1. CASE e.blocked \/ now - e.window > Minute
    <3>1. d = [e EXCEPT !.count = 0, !.window = now, !.blocked = FALSE]
      BY <1>3, <2>1 DEF Rolled, Fresh
    <3>2. d \in Entries
      BY <1>1, <1>2, <3>1 DEF Entries
    <3>3. d.window = now /\ d.blocked = FALSE /\ d.count = 0
      BY <1>2, <3>1 DEF Entries
    <3> QED
      BY <2>1, <3>2, <3>3
  <2>2. CASE ~(e.blocked \/ now - e.window > Minute)
    BY <1>2, <1>3, <2>2 DEF Rolled
  <2> QED
    BY <2>1, <2>2
<1>5. c = [d EXCEPT !.count = @ + 1]
  BY <1>3
<1>6. c \in Entries /\ c.count = d.count + 1 /\ c.window = d.window /\ c.blocked = d.blocked
  <2>1. d \in Entries
    BY <1>4
  <2>2. c \in Entries
    <3>1. d.count + 1 \in Nat
      BY <2>1 DEF Entries
    <3>2. PICK n \in Nat : n = d.count + 1
      BY <3>1
    <3>3. c = [d EXCEPT !.count = n]
      BY <1>5, <3>2
    <3> QED
      BY <2>1, <3>3 DEF Entries
  <2>3. c.count = d.count + 1
    BY <1>5, <2>1 DEF Entries
  <2>4. c.window = d.window /\ c.blocked = d.blocked
    BY <1>5, <2>1 DEF Entries
  <2> QED
    BY <2>2, <2>3, <2>4
<1>7. entry[t][h] # Absent => e = entry[t][h]
  BY DEF getOrCreateEntry
<1>8. e.blocked \/ now - e.window > Minute => c.window = now /\ c.count = 1
  BY <1>4, <1>6
<1>9. ~(e.blocked \/ now - e.window > Minute) => c.window = e.window /\ c.count = e.count + 1
  BY <1>4, <1>6
<1>10. ~c.blocked
  BY <1>4, <1>6
<1> QED
  BY <1>2, <1>6, <1>7, <1>8, <1>9, <1>10 DEF Counts

(* A refusal: the host's entry becomes f, and the host is told when f's block
   ends. *)
LEMMA RefuseKeeps ==
  ASSUME LimiterInv, NEW t \in Tables, NEW h \in Hosts, NEW f \in Entries, Refuse(t, h, f),
         UNCHANGED <<now, swept>>, f.blocked, entry[t][h] # Absent,
         f = entry[t][h] \/ (f.window = entry[t][h].window /\ f.blockedAt = now)
  PROVE  LimiterInv'
<1>1. LimiterTypeOK /\ HostInv
  BY DEF LimiterInv
<1>2. f.blockedAt \in Nat /\ f # Absent
  BY LimiterAssumption DEF Entries
<1>3. f.blockedAt + BlockDuration \in Nat
  BY <1>2, LimitType
<1>4. LimiterTypeOK'
  BY <1>1, <1>3 DEF LimiterTypeOK, Refuse
<1>5. ASSUME NEW u \in Tables, NEW g \in Hosts
      PROVE  (KeptOut(u, g) /\ Tracked(u, g))'
  <2>1. KeptOut(u, g) /\ Tracked(u, g)
    BY <1>1 DEF HostInv
  <2>2. CASE u = t /\ g = h
    <3>1. entry'[t][h] = f /\ retryAt'[t][h] = f.blockedAt + BlockDuration /\ passes' = passes
      BY <1>1 DEF LimiterTypeOK, Refuse
    <3>2. KeptOut(t, h)'
      BY <1>2, <3>1 DEF KeptOut
    <3>3. Windowed(passes[t][h], Limit(t)) /\ Accounts(passes[t][h], entry[t][h], Limit(t), now)
      BY <2>1, <2>2 DEF Tracked
    <3>4. f.window = entry[t][h].window
      OBVIOUS
    <3>5. f.window <= now /\ NoneYounger(passes[t][h], f, now)
      BY <3>3, <3>4 DEF Accounts, NoneYounger
    <3>6. f.window <= f.blockedAt /\ f.blockedAt <= now
      <4>1. CASE f = entry[t][h]
        BY <3>3, <4>1 DEF Accounts
      <4>2. CASE f.blockedAt = now
        BY <1>1, <3>5, <4>2 DEF LimiterTypeOK
      <4> QED
        BY <4>1, <4>2
    <3>7. Accounts(passes[t][h], f, Limit(t), now)
      BY <3>5, <3>6 DEF Accounts
    <3>8. Tracked(t, h)'
      BY <1>2, <3>1, <3>3, <3>7 DEF Tracked
    <3> QED
      BY <2>2, <3>2, <3>8
  <2>3. CASE ~(u = t /\ g = h)
    <3>1. entry'[u][g] = entry[u][g] /\ retryAt'[u][g] = retryAt[u][g] /\ passes' = passes
      BY <1>1, <2>3 DEF LimiterTypeOK, Refuse
    <3> QED
      BY <2>1, <3>1, SameHost
  <2> QED
    BY <2>2, <2>3
<1> QED
  BY <1>4, <1>5 DEF LimiterInv, HostInv

(* When a call begins a window, every window before it is over. *)
LEMMA WindowsOver ==
  ASSUME NEW p \in Seq(PassRecords), NEW lim, NEW e \in Entries, Accounts(p, e, lim, now), now \in Nat,
         ~Blocking(e), e.blocked \/ now - e.window > Minute
  PROVE  AllOver(p, now)
<1>1. Minute \in Nat /\ BlockDuration \in Nat /\ BlockDuration >= Minute
  BY LimitType
<1>2. e.window \in Nat /\ e.blockedAt \in Nat
  BY DEF Entries
<1>3. e.window + Minute <= now
  <2>1. CASE e.blocked
    <3>1. e.window <= e.blockedAt
      BY <2>1 DEF Accounts
    <3>2. ~(now - e.blockedAt < BlockDuration)
      BY <2>1 DEF Blocking
    <3> QED
      BY <1>1, <1>2, <3>1, <3>2
  <2>2. CASE now - e.window > Minute
    BY <1>1, <1>2, <2>2
  <2> QED
    BY <2>1, <2>2
<1>4. ASSUME NEW i \in 1..Len(p) PROVE p[i].at <= now /\ p[i].window + Minute <= now
  <2>1. p[i].at <= now /\ p[i].window <= e.window
    BY DEF Accounts, NoneYounger
  <2>2. p[i] \in PassRecords
    OBVIOUS
  <2>3. p[i].window \in Nat
    BY <2>2 DEF PassRecords
  <2> QED
    BY <1>1, <1>2, <1>3, <2>1, <2>3
<1> QED
  BY <1>4 DEF AllOver

(* A call let through begins a window or joins the open one, and comes no sooner
   than the host was told to. *)
LEMMA PassKeeps ==
  ASSUME LimiterInv, NEW t \in Tables, NEW h \in Hosts, NEW e, NEW c, Counts(t, h, e, c),
         ~Blocking(e), ~(c.count > Limit(t)), Pass(t, h, c), UNCHANGED <<now, swept>>
  PROVE  /\ LimiterInv'
         /\ now >= retryAt[t][h]
         /\ passes'[t][h] = Append(passes[t][h], [at |-> now, window |-> c.window])
<1>1. LimiterTypeOK /\ HostInv
  BY DEF LimiterInv
<1>2. /\ e \in Entries /\ c \in Entries
      /\ entry[t][h] # Absent => e = entry[t][h]
      /\ entry[t][h] = Absent => ~e.blocked /\ e.window = now /\ e.count = 0
      /\ ~c.blocked
      /\ e.blocked \/ now - e.window > Minute => c.window = now /\ c.count = 1
      /\ ~(e.blocked \/ now - e.window > Minute) => c.window = e.window /\ c.count = e.count + 1
  BY DEF Counts
<1>3. now \in Nat /\ retryAt[t][h] \in Nat /\ passes[t][h] \in Seq(PassRecords)
  BY <1>1 DEF LimiterTypeOK
<1>4. e.blockedAt \in Nat /\ e.count \in Nat /\ c.count \in Nat /\ c.window \in Nat
  BY <1>2 DEF Entries
<1>5. c # Absent
  BY <1>2, LimiterAssumption
<1>6. Limit(t) \in Nat \ {0} /\ BlockDuration \in Nat \ {0}
  BY LimitType
<1>7. KeptOut(t, h) /\ Tracked(t, h)
  BY <1>1 DEF HostInv
<1>8. now >= retryAt[t][h]
  BY <1>2, <1>3, <1>4, <1>6, <1>7 DEF KeptOut, Blocking
<1>9. PICK q : q = Append(passes[t][h], [at |-> now, window |-> c.window])
  OBVIOUS
<1>10. q \in Seq(PassRecords)
  <2>1. [at |-> now, window |-> c.window] \in PassRecords
    BY <1>3, <1>4 DEF PassRecords
  <2> QED
    BY <1>3, <1>9, <2>1
<1>11. passes' = [passes EXCEPT ![t][h] = q] /\ entry' = [entry EXCEPT ![t][h] = c] /\ retryAt' = retryAt
  BY <1>9 DEF Pass
<1>12. entry'[t][h] = c /\ passes'[t][h] = q
  BY <1>1, <1>11 DEF LimiterTypeOK
<1>13. LimiterTypeOK'
  BY <1>1, <1>2, <1>10, <1>11 DEF LimiterTypeOK
<1>14. Windowed(q, Limit(t)) /\ Accounts(q, c, Limit(t), now)
  <2>1. Windowed(passes[t][h], Limit(t))
    BY <1>7 DEF Tracked
  <2>2. CASE entry[t][h] = Absent
    <3>1. AllOver(passes[t][h], now)
      BY <1>7, <2>2 DEF Tracked
    <3>2. c.window = now /\ c.count = 1
      BY <1>2, <2>2
    <3> QED
      BY <1>2, <1>3, <1>6, <1>9, <2>1, <3>1, <3>2, BeginsWindow
  <2>3. CASE entry[t][h] # Absent
    <3>1. e = entry[t][h] /\ Accounts(passes[t][h], e, Limit(t), now)
      BY <1>2, <1>7, <2>3 DEF Tracked
    <3>2. CASE e.blocked \/ now - e.window > Minute
      <4>1. AllOver(passes[t][h], now)
        BY <1>2, <1>3, <3>1, <3>2, WindowsOver
      <4>2. c.window = now /\ c.count = 1
        BY <1>2, <3>2
      <4> QED
        BY <1>2, <1>3, <1>6, <1>9, <2>1, <4>1, <4>2, BeginsWindow
    <3>3. CASE ~(e.blocked \/ now - e.window > Minute)
      <4>1. c.window = e.window /\ c.count = e.count + 1 /\ ~e.blocked
        BY <1>2, <3>3
      <4>2. c.count <= Limit(t)
        BY <1>4, <1>6
      <4> QED
        BY <1>2, <1>3, <1>6, <1>9, <2>1, <3>1, <4>1, <4>2, JoinsWindow
    <3> QED
      BY <3>2, <3>3
  <2> QED
    BY <2>2, <2>3
<1>15. ASSUME NEW u \in Tables, NEW g \in Hosts
       PROVE  (KeptOut(u, g) /\ Tracked(u, g))'
  <2>1. KeptOut(u, g) /\ Tracked(u, g)
    BY <1>1 DEF HostInv
  <2>2. CASE u = t /\ g = h
    <3>1. KeptOut(t, h)'
      BY <1>3, <1>8, <1>11 DEF KeptOut
    <3>2. Tracked(t, h)'
      BY <1>5, <1>12, <1>14 DEF Tracked
    <3> QED
      BY <2>2, <3>1, <3>2
  <2>3. CASE ~(u = t /\ g = h)
    <3>1. entry'[u][g] = entry[u][g] /\ retryAt'[u][g] = retryAt[u][g] /\ passes'[u][g] = passes[u][g]
      BY <1>1, <1>11, <2>3 DEF LimiterTypeOK
    <3> QED
      BY <2>1, <3>1, SameHost
  <2> QED
    BY <2>2, <2>3
<1> QED
  BY <1>8, <1>9, <1>12, <1>13, <1>15 DEF LimiterInv, HostInv

(* A call that lets a host through does so when the host may come back, and is
   the last of its calls. *)
Due(t, h) ==
  passes'[t][h] # passes[t][h] =>
    /\ now >= retryAt[t][h]
    /\ \E w : passes'[t][h] = Append(passes[t][h], [at |-> now, window |-> w])

(* What a check of a host does is one of three. *)
LEMMA AllowKeeps ==
  ASSUME LimiterInv, NEW t \in Tables, NEW h \in Hosts, Allow(t, h)
  PROVE  LimiterInv' /\ \A u \in Tables, g \in Hosts : Due(u, g)
<1> DEFINE e == getOrCreateEntry(t, h)
           c == [Rolled(e) EXCEPT !.count = @ + 1]
           b == [c EXCEPT !.blocked = TRUE, !.blockedAt = now]
<1>1. LimiterTypeOK
  BY DEF LimiterInv
<1>2. Counts(t, h, e, c)
  BY <1>1, EntryCounts
<1>3. UNCHANGED <<now, swept>>
  BY DEF Allow
<1>4. \/ Blocking(e) /\ Refuse(t, h, e)
      \/ ~Blocking(e) /\ c.count > Limit(t) /\ Refuse(t, h, b)
      \/ ~Blocking(e) /\ ~(c.count > Limit(t)) /\ Pass(t, h, c)
  BY DEF Allow
<1> HIDE DEF c, e
<1>5. /\ e \in Entries /\ c \in Entries
      /\ entry[t][h] # Absent => e = entry[t][h]
      /\ entry[t][h] = Absent => ~e.blocked /\ e.window = now /\ e.count = 0
      /\ e.blocked \/ now - e.window > Minute => c.window = now /\ c.count = 1
      /\ ~(e.blocked \/ now - e.window > Minute) => c.window = e.window /\ c.count = e.count + 1
  BY <1>2 DEF Counts
<1>6. b \in Entries /\ b.blocked /\ b.blockedAt = now /\ b.window = c.window
  BY <1>1, <1>5 DEF Entries, LimiterTypeOK
<1> HIDE DEF b
<1>7. CASE Blocking(e) /\ Refuse(t, h, e)
  <2>1. e.blocked /\ entry[t][h] # Absent /\ e = entry[t][h]
    BY <1>5, <1>7 DEF Blocking
  <2>2. e \in Entries /\ Refuse(t, h, e)
    BY <1>5, <1>7
  <2>3. PICK f \in Entries : f = e
    BY <2>2
  <2>4. f.blocked /\ Refuse(t, h, f) /\ entry[t][h] # Absent
    BY <2>1, <2>2, <2>3
  <2>5. f = entry[t][h] \/ (f.window = entry[t][h].window /\ f.blockedAt = now)
    BY <2>1, <2>3
  <2>6. LimiterInv'
    BY <1>3, <2>4, <2>5, RefuseKeeps
  <2> QED
    BY <1>7, <2>6 DEF Refuse, Due
<1>8. CASE ~Blocking(e) /\ c.count > Limit(t) /\ Refuse(t, h, b)
  <2>1. Limit(t) \in Nat \ {0}
    BY LimitType
  <2>2. c.count # 1
    BY <1>8, <2>1
  <2>3. entry[t][h] # Absent /\ b.window = entry[t][h].window
    BY <1>5, <1>6, <2>2
  <2>4. LimiterInv'
    BY <1>3, <1>6, <1>8, <2>3, RefuseKeeps
  <2> QED
    BY <1>8, <2>4 DEF Refuse, Due
<1>9. CASE ~Blocking(e) /\ ~(c.count > Limit(t)) /\ Pass(t, h, c)
  <2>1. /\ LimiterInv' /\ now >= retryAt[t][h]
        /\ passes'[t][h] = Append(passes[t][h], [at |-> now, window |-> c.window])
    BY <1>2, <1>3, <1>9, PassKeeps
  <2>2. \A u \in Tables, g \in Hosts : ~(u = t /\ g = h) => passes'[u][g] = passes[u][g]
    BY <1>1, <1>9 DEF Pass, LimiterTypeOK
  <2>3. Due(t, h)
    BY <2>1 DEF Due
  <2>4. ASSUME NEW u \in Tables, NEW g \in Hosts PROVE Due(u, g)
    <3>1. CASE u = t /\ g = h
      BY <2>3, <3>1
    <3>2. CASE ~(u = t /\ g = h)
      BY <2>2, <3>2 DEF Due
    <3> QED
      BY <3>1, <3>2
  <2> QED
    BY <2>1, <2>4
<1> QED
  BY <1>4, <1>7, <1>8, <1>9

(* A swept entry had left its window long before, and was not blocked. *)
LEMMA CleanupKeeps ==
  ASSUME LimiterInv, cleanup
  PROVE  LimiterInv'
<1>1. LimiterTypeOK /\ HostInv
  BY DEF LimiterInv
<1>2. LimiterTypeOK'
  <2>1. entry' \in [Tables -> [Hosts -> Entries \cup {Absent}]]
    BY <1>1 DEF LimiterTypeOK, cleanup
  <2> QED
    BY <1>1, <2>1 DEF LimiterTypeOK, cleanup
<1>3. ASSUME NEW t \in Tables, NEW h \in Hosts
      PROVE  (KeptOut(t, h) /\ Tracked(t, h))'
  <2>1. KeptOut(t, h) /\ Tracked(t, h)
    BY <1>1 DEF HostInv
  <2>2. UNCHANGED <<now, passes, retryAt>>
    BY DEF cleanup
  <2>3. CASE entry'[t][h] = entry[t][h]
    BY <2>1, <2>2, <2>3, SameHost
  <2>4. CASE entry'[t][h] # entry[t][h]
    <3>1. /\ entry[t][h] # Absent /\ ~entry[t][h].blocked /\ entry'[t][h] = Absent
          /\ entry[t][h].window < now - 2 * BlockDuration
      BY <2>4 DEF cleanup, Expired
    <3>2. now \in Nat /\ passes[t][h] \in Seq(PassRecords) /\ entry[t][h] \in Entries
      BY <1>1, <3>1 DEF LimiterTypeOK
    <3>3. now - entry[t][h].window > Minute
      <4>1. entry[t][h].window \in Nat
        BY <3>2 DEF Entries
      <4>2. BlockDuration \in Nat \ {0} /\ Minute \in Nat /\ BlockDuration >= Minute
        BY LimitType
      <4> QED
        BY <3>1, <3>2, <4>1, <4>2
    <3>4. ~(retryAt[t][h] > now)
      BY <2>1, <3>1 DEF KeptOut
    <3>5. Windowed(passes[t][h], Limit(t)) /\ Accounts(passes[t][h], entry[t][h], Limit(t), now)
      BY <2>1, <3>1 DEF Tracked
    <3>6. ~Blocking(entry[t][h])
      BY <3>1 DEF Blocking
    <3>7. AllOver(passes[t][h], now)
      BY <3>2, <3>3, <3>5, <3>6, WindowsOver
    <3> QED
      BY <2>2, <3>1, <3>4, <3>5, <3>7 DEF KeptOut, Tracked
  <2> QED
    BY <2>3, <2>4
<1> QED
  BY <1>2, <1>3 DEF LimiterInv, HostInv

(* What the tables say of the past stays so as time passes. *)
LEMMA TickKeeps ==
  ASSUME LimiterInv, Tick
  PROVE  LimiterInv'
<1>1. LimiterTypeOK /\ HostInv
  BY DEF LimiterInv
<1>2. LimiterTypeOK'
  BY <1>1 DEF LimiterTypeOK, Tick
<1>3. ASSUME NEW t \in Tables, NEW h \in Hosts
      PROVE  (KeptOut(t, h) /\ Tracked(t, h))'
  <2>1. KeptOut(t, h) /\ Tracked(t, h)
    BY <1>1 DEF HostInv
  <2>2. now' = now + 1 /\ UNCHANGED <<entry, retryAt, passes>>
    BY DEF Tick
  <2>3. now \in Nat /\ retryAt[t][h] \in Nat /\ passes[t][h] \in Seq(PassRecords)
    BY <1>1 DEF LimiterTypeOK
  <2>4. KeptOut(t, h)'
    BY <2>1, <2>2, <2>3 DEF KeptOut
  <2>5. Minute \in Nat
    BY LimitType
  <2>6. \A i \in 1..Len(passes[t][h]) : passes[t][h][i] \in PassRecords
    BY <2>3
  <2>7. \A i \in 1..Len(passes[t][h]) : passes[t][h][i].at \in Nat /\ passes[t][h][i].window \in Nat
    BY <2>6 DEF PassRecords
  <2>8. CASE entry[t][h] = Absent
    <3>1. AllOver(passes[t][h], now)
      BY <2>1, <2>8 DEF Tracked
    <3>2. AllOver(passes[t][h], now + 1)
      BY <2>3, <2>5, <2>7, <3>1 DEF AllOver
    <3> QED
      BY <2>1, <2>2, <2>4, <2>8, <3>2 DEF Tracked
  <2>9. CASE entry[t][h] # Absent
    <3>1. Accounts(passes[t][h], entry[t][h], Limit(t), now)
      BY <2>1, <2>9 DEF Tracked
    <3>2. entry[t][h] \in Entries
      BY <1>1, <2>9 DEF LimiterTypeOK
    <3>3. entry[t][h].window \in Nat /\ entry[t][h].blockedAt \in Nat
      BY <3>2 DEF Entries
    <3>4. NoneYounger(passes[t][h], entry[t][h], now + 1)
      BY <2>3, <2>7, <3>1 DEF Accounts, NoneYounger
    <3>5. Accounts(passes[t][h], entry[t][h], Limit(t), now + 1)
      BY <2>3, <3>1, <3>3, <3>4 DEF Accounts
    <3> QED
      BY <2>1, <2>2, <2>4, <2>9, <3>5 DEF Tracked
  <2> QED
    BY <2>8, <2>9
<1> QED
  BY <1>2, <1>3 DEF LimiterInv, HostInv

(* At first no host has been heard of. *)
LEMMA LimiterInvInit == LimiterInit => LimiterInv
<1> SUFFICES ASSUME LimiterInit PROVE LimiterInv
  OBVIOUS
<1>1. LimiterTypeOK
  BY DEF LimiterInit, LimiterTypeOK
<1>2. HostInv
  <2> SUFFICES ASSUME NEW t \in Tables, NEW h \in Hosts PROVE KeptOut(t, h) /\ Tracked(t, h)
    BY DEF HostInv
  <2>1. passes[t][h] = <<>> /\ retryAt[t][h] = 0 /\ now = 0 /\ entry[t][h] = Absent
    BY DEF LimiterInit
  <2>2. Windowed(passes[t][h], Limit(t)) /\ AllOver(passes[t][h], now)
    BY <2>1 DEF Windowed, AllOver
  <2> QED
    BY <2>1, <2>2 DEF KeptOut, Tracked
<1> QED
  BY <1>1, <1>2 DEF LimiterInv

(* Every step keeps the invariant, and lets a host through only once it may come
   back. *)
LEMMA LimiterInvNext ==
  ASSUME LimiterInv, [LimiterNext]_limiterVars
  PROVE  LimiterInv' /\ \A t \in Tables, h \in Hosts : Due(t, h)
<1>1. passes' = passes => \A t \in Tables, h \in Hosts : Due(t, h)
  BY DEF Due
<1>2. ASSUME NEW h \in Hosts, AllowConnection(h) \/ AllowMessage(h)
      PROVE  LimiterInv' /\ \A t \in Tables, g \in Hosts : Due(t, g)
  <2>1. CASE AllowConnection(h)
    BY <2>1, AllowKeeps DEF AllowConnection, Tables
  <2>2. CASE AllowMessage(h)
    BY <2>2, AllowKeeps DEF AllowMessage, Tables
  <2> QED
    BY <1>2, <2>1, <2>2
<1>3. CASE cleanup
  BY <1>1, <1>3, CleanupKeeps DEF cleanup
<1>4. CASE Tick
  BY <1>1, <1>4, TickKeeps DEF Tick
<1>5. CASE UNCHANGED limiterVars
  <2>1. LimiterInv'
    BY <1>5 DEF LimiterInv, LimiterTypeOK, HostInv, KeptOut, Tracked, limiterVars
  <2> QED
    BY <1>1, <1>5, <2>1 DEF limiterVars
<1> QED
  BY <1>2, <1>3, <1>4, <1>5 DEF LimiterNext

(* The limiter's tables always account for the calls let through: their windows
   lie a minute apart and hold no more than the limit each; and for what a
   refused host was told (AllowConnection, AllowMessage, cleanup). *)
THEOREM LimiterInvariant == LimiterSpec => []LimiterInv
<1>1. LimiterInit => LimiterInv
  BY LimiterInvInit
<1>2. LimiterInv /\ [LimiterNext]_limiterVars => LimiterInv'
  BY LimiterInvNext
<1> QED
  BY <1>1, <1>2, PTL DEF LimiterSpec

(* However traffic, time and the sweeper interleave, no host is let through
   before the time it was told to come back at, nor twice its limit in less than
   a minute (AllowConnection, AllowMessage, cleanup). *)
THEOREM LimitsAlwaysHold == LimiterSpec => LimitsHold
<1> DEFINE Fair == \A t \in Tables, h \in Hosts : passes'[t][h] # passes[t][h] =>
                     LET p == passes'[t][h]
                         first == Len(p) - 2 * Limit(t) + 1
                     IN /\ now >= retryAt[t][h]
                        /\ first >= 1 => now - p[first].at >= Minute
<1>1. ASSUME LimiterInv, LimiterInv', [LimiterNext]_limiterVars PROVE Fair
  <2> SUFFICES ASSUME NEW t \in Tables, NEW h \in Hosts, passes'[t][h] # passes[t][h],
                      NEW p, p = passes'[t][h], NEW i, i = Len(p) - 2 * Limit(t) + 1
               PROVE  /\ now >= retryAt[t][h]
                      /\ i >= 1 => now - p[i].at >= Minute
    OBVIOUS
  <2>1. now >= retryAt[t][h] /\ \E w : p = Append(passes[t][h], [at |-> now, window |-> w])
    BY <1>1, LimiterInvNext DEF Due
  <2>2. p \in Seq(PassRecords) /\ passes[t][h] \in Seq(PassRecords)
    BY <1>1 DEF LimiterInv, LimiterTypeOK
  <2>3. Windowed(p, Limit(t))
    BY <1>1 DEF LimiterInv, HostInv, Tracked
  <2>4. p[Len(p)].at = now
    <3>1. PICK r : p = Append(passes[t][h], r) /\ r.at = now
      BY <2>1
    <3>2. p[Len(p)] = r
      BY <2>2, <3>1
    <3> QED
      BY <3>1, <3>2
  <2>5. Limit(t) \in Nat \ {0}
    BY LimitType
  <2>6. ASSUME i >= 1 PROVE now - p[i].at >= Minute
    <3>1. i \in 1..Len(p)
      <4>1. Len(p) \in Nat
        BY <2>2
      <4> QED
        BY <2>5, <2>6, <4>1
    <3> QED
      BY <2>2, <2>3, <2>4, <2>5, <3>1, TwiceTheLimit
  <2> QED
    BY <2>1, <2>6
<1>2. LimiterInv /\ LimiterInv' /\ [LimiterNext]_limiterVars => [Fair]_limiterVars
  BY <1>1
<1> QED
  BY <1>2, LimiterInvariant, PTL DEF LimiterSpec, LimitsHold
=============================================================================
