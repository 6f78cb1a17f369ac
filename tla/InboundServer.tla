--------------------------- MODULE InboundServer ---------------------------
(***************************************************************************)
(* The inbound SMTP server with the handler behind it.  Other servers keep *)
(* a message in their spool until each recipient is settled: they retry    *)
(* after a 4xx answer, a crash and a connection that goes quiet, although  *)
(* the handler of the lost connection may still be at work.                *)
(*                                                                         *)
(* A session is handled by one goroutine; the statements of two sessions   *)
(* interleave, and so do those of the service that owns the addresses.     *)
(***************************************************************************)
EXTENDS Reports, SequencesExt

CONSTANTS
  Sessions,    \* connections served at the same time
  Addresses,   \* recipient addresses in our domains
  Owner,       \* whose address it is
  Base,        \* StripPlusTag
  Registered,  \* Init: the active rows of the addresses table
  Batches,     \* Init: the messages sent to us and by us in one behaviour
  Retirable,   \* the addresses their owner may give up
  Unserved,    \* recipients in domains we do not accept
  SPF, DKIM,   \* "off", "tag" or "reject": what is configured
  Limited,     \* whether the server was given a rate limiter
  Closed,
  MaxFaults    \* bound: statements that fail, timeouts and crashes

Verdicts == {"none", "pass", "fail"}
Phases   == {"ready", "mail", "store", "attach", "answer"}
Codes    == {250, 451, 550, 552}
Optional(S) == S \cup {None}

(* A session between two commands: its envelope, what DATA has still to store
   and the answer to it, and the SPF result with the message it is of. *)
SessionState ==
  [phase : Phases, mail : Optional(Mails), tried : SUBSET (Addresses \cup Unserved),
   to : SUBSET Addresses, left : SUBSET Addresses, code : Optional(Codes), row : Optional(Nat),
   spf : Verdicts, spfOf : Optional(Mails), heard : BOOLEAN]

Row == [n : Nat, box : Users, mail : Mails, listed : BOOLEAN]

(* generateMessageID makes every Message-ID of ours a new one. *)
ASSUME InboundAssumption ==
  /\ Owner \in [Addresses -> Users] /\ Base \in [Addresses -> Addresses]
  /\ Registered \cup Retirable \subseteq Addresses /\ Unserved \cap Addresses = {}
  /\ \A b \in Batches : b.mails \subseteq Mails /\ b.outbox \in Outbound
                          /\ \A i, j \in DOMAIN b.outbox : b.outbox[i].id = b.outbox[j].id => i = j
  /\ {SPF, DKIM} \subseteq {"off", "tag", "reject"} /\ Limited \in BOOLEAN
  /\ \A m \in Mails :
       /\ Mail[m].from \in {"null", "address", "invalid"}
       /\ Mail[m].to \in Seq(Addresses \cup Unserved) /\ Mail[m].mid \in MessageIDs \cup {None}
       /\ {Mail[m].large, Mail[m].attached} \subseteq BOOLEAN
       /\ {Mail[m].spf, Mail[m].dkim} \subseteq Verdicts
  /\ MaxFaults \in Nat

VARIABLES
  active,    \* the active rows of the addresses table
  emails,    \* the received rows, each with its attachment rows or not
  session,
  spool,     \* for each message, the recipients its sender has not settled
  acked,     \* for each message, the recipients its sender was told 250 for
  faults,
  lossy,     \* history: the messages a statement failed for
  judged     \* history: the messages handled, with the SPF verdict handed over

inboundVars == <<active, emails, session, spool, acked, faults, lossy, judged>>
vars == <<reportVars, inboundVars>>

Init ==
  /\ active = Registered
  /\ emails = {}
  /\ session = [s \in Sessions |-> Closed]
  /\ \E batch \in Batches : /\ InitReports(batch.outbox)
                            /\ spool = [m \in batch.mails |-> ToSet(Mail[m].to)]
                            /\ acked = [m \in batch.mails |-> {}]
  /\ faults = 0 /\ lossy = {} /\ judged = {}

-----------------------------------------------------------------------------
(* resolveRecipientPubkey: the exact address, then the one without its tag. *)
resolveRecipientPubkey(a) ==
  IF a \in active THEN Owner[a]
  ELSE IF Base[a] \in active THEN Owner[Base[a]] ELSE None

(* Recipients are dealt with in the order they are named. *)
First(m, as) == Mail[m].to[Min({i \in DOMAIN Mail[m].to : Mail[m].to[i] \in as})]

Fault == faults < MaxFaults /\ faults' = faults + 1

Set(s, fields) == session' = [session EXCEPT ![s] = fields]

(* The library resets the session after each transaction; Reset clears the
   envelope and leaves the SPF result. *)
Reset(sess) == [sess EXCEPT !.phase = "ready", !.mail = None, !.tried = {}, !.to = {},
                            !.left = {}, !.row = None, !.code = None]

NewSession ==
  [phase |-> "ready", mail |-> None, tried |-> {}, to |-> {}, left |-> {}, code |-> None,
   row |-> None, spf |-> "none", spfOf |-> None, heard |-> TRUE]

(* The sender gives up on everything a permanent answer concerns. *)
Refused(m, as) == spool' = [spool EXCEPT ![m] = @ \ as]

Checked(m) == SPF # "off" /\ Mail[m].from = "address"

(* MAIL FROM, on a new connection or on one that has served before.  A sender
   sends a message again once it has given up on the connection. *)
MailFrom(s, m) ==
  /\ session[s] # Closed => session[s].phase = "ready"
  /\ spool[m] # {}
  /\ \A t \in Sessions : session[t] # Closed => session[t].mail # m \/ ~session[t].heard
  /\ LET open == IF session[s] = Closed THEN NewSession ELSE session[s]
         sess == IF Checked(m) THEN [open EXCEPT !.spf = Mail[m].spf, !.spfOf = m] ELSE open
     IN IF Mail[m].from = "invalid" \/ (Checked(m) /\ SPF = "reject" /\ Mail[m].spf = "fail")
        THEN Set(s, sess) /\ Refused(m, spool[m])
        ELSE Set(s, [sess EXCEPT !.phase = "mail", !.mail = m]) /\ UNCHANGED spool
  /\ UNCHANGED <<active, emails, acked, faults, lossy, judged>>

ValidateRecipient(a) == a \in Addresses /\ resolveRecipientPubkey(a) # None

(* Whatever the error of the validation is, a failed lookup included, the
   answer is 550. *)
Rcpt(s) ==
  /\ session[s] # Closed /\ session[s].phase = "mail"
  /\ spool[session[s].mail] \ session[s].tried # {}
  /\ LET m == session[s].mail
         a == First(m, spool[m] \ session[s].tried) IN
     /\ \/ /\ ValidateRecipient(a)
           /\ Set(s, [session[s] EXCEPT !.tried = @ \cup {a}, !.to = @ \cup {a}])
           /\ UNCHANGED <<spool, faults>>
        \/ /\ ~ValidateRecipient(a)
           /\ Set(s, [session[s] EXCEPT !.tried = @ \cup {a}])
           /\ Refused(m, {a}) /\ UNCHANGED faults
        \/ /\ a \in Addresses /\ Fault
           /\ Set(s, [session[s] EXCEPT !.tried = @ \cup {a}])
           /\ Refused(m, {a})
  /\ UNCHANGED <<active, emails, acked, lossy, judged>>

(* Every recipient refused: the client resets. *)
Abandon(s) ==
  /\ session[s] # Closed /\ session[s].phase = "mail"
  /\ session[s].to = {} /\ spool[session[s].mail] \subseteq session[s].tried
  /\ Set(s, Reset(session[s]))
  /\ UNCHANGED <<active, emails, spool, acked, faults, lossy, judged>>

-----------------------------------------------------------------------------
Answer(s, code) == Set(s, [session[s] EXCEPT !.phase = "answer", !.code = code])

(* The checks of Data before a message is looked into. *)
DataRefused(s, m) ==
  /\ \/ Limited /\ Answer(s, 451) /\ UNCHANGED faults
     \/ Fault /\ Answer(s, 451)
     \/ Mail[m].large /\ Answer(s, 552) /\ UNCHANGED faults
  /\ UNCHANGED <<bounces, complaints, lossy, judged>>

(* Faulty variant: the bounce check first. *)
DataReportBounceFirst(s, m) ==
  /\ IsBounce(Mail[m].from = "null", m) \/ IsComplaint(m)
  /\ IF IsBounce(Mail[m].from = "null", m) THEN ProcessBounce(m, FALSE, FALSE) ELSE ProcessComplaint(m, FALSE)
  /\ Answer(s, 250)
  /\ UNCHANGED <<faults, lossy, judged>>

(* A report: a complaint is looked for first, and one that cannot be recorded
   falls through to the bounce check. *)
DataReport(s, m) ==
  /\ IsBounce(Mail[m].from = "null", m) \/ IsComplaint(m)
  /\ IF IsComplaint(m)
     THEN \/ \E down \in BOOLEAN :
               /\ IF down THEN Fault ELSE UNCHANGED faults
               /\ ProcessComplaint(m, down) /\ UNCHANGED lossy
          \/ Fault /\ ProcessBounce(m, FALSE, FALSE) /\ lossy' = lossy \cup {m}
     ELSE \E down, lost \in BOOLEAN :
            /\ IF down \/ lost THEN Fault ELSE UNCHANGED faults
            /\ ProcessBounce(m, down, lost)
            /\ lossy' = IF lost THEN lossy \cup {m} ELSE lossy
  /\ Answer(s, 250)
  /\ UNCHANGED judged

(* Anything else goes to HandleMessage, unless DKIM refuses it. *)
DataMessage(s, m) ==
  /\ ~IsBounce(Mail[m].from = "null", m) /\ ~IsComplaint(m)
  /\ IF DKIM = "reject" /\ Mail[m].dkim = "fail" THEN Answer(s, 550) /\ UNCHANGED judged
     ELSE /\ judged' = judged \cup {[mail |-> m, of |-> session[s].spfOf]}
          /\ IF Mail[m].kind = "unreadable" THEN Answer(s, 550)
             ELSE Set(s, [session[s] EXCEPT !.phase = "store", !.left = session[s].to])
  /\ UNCHANGED <<bounces, complaints, faults, lossy>>

Data(s) ==
  /\ session[s] # Closed /\ session[s].phase = "mail"
  /\ session[s].to # {} /\ spool[session[s].mail] \subseteq session[s].tried
  /\ LET m == session[s].mail IN
       DataRefused(s, m) \/ (~Mail[m].large /\ (DataReport(s, m) \/ DataMessage(s, m)))
  /\ UNCHANGED <<outbox, queued, aged, failed, active, emails, spool, acked>>

-----------------------------------------------------------------------------
Same(m, n) == m = n \/ (Mail[m].mid # None /\ Mail[m].mid = Mail[n].mid)

(* The unique index on mailbox, direction and Message-ID; a NULL id is not
   constrained.  Faulty variants: the index of the first schema, on the
   Message-ID alone, and no index. *)
ConflictsGlobally(u, m) == Mail[m].mid # None /\ \E e \in emails : Same(m, e.mail)

NeverConflicts(u, m) == FALSE

Conflicts(u, m) == Mail[m].mid # None /\ \E e \in emails : e.box = u /\ Same(m, e.mail)

(* storeForRecipient up to CreateEmail.  Whatever goes wrong is logged. *)
CreateEmail(s) ==
  /\ session[s] # Closed /\ session[s].phase = "store" /\ session[s].left # {}
  /\ LET m == session[s].mail
         a == First(m, session[s].left)
         u == resolveRecipientPubkey(a)
         row  == [n |-> Cardinality(emails) + 1, box |-> u, mail |-> m, listed |-> FALSE]
         new  == u # None /\ ~Conflicts(u, m)
         done == [session[s] EXCEPT !.left = @ \ {a}]
     IN \/ ~new /\ Set(s, done) /\ UNCHANGED <<emails, faults, lossy>>
        \/ /\ new
           /\ emails' = emails \cup {row}
           /\ Set(s, IF Mail[m].attached THEN [done EXCEPT !.phase = "attach", !.row = row.n] ELSE done)
           /\ UNCHANGED <<faults, lossy>>
        \/ Fault /\ Set(s, done) /\ lossy' = lossy \cup {m} /\ UNCHANGED emails
  /\ UNCHANGED <<active, spool, acked, judged>>

(* storeAttachments: a row for each, with or without its blob. *)
storeAttachments(s) ==
  /\ session[s] # Closed /\ session[s].phase = "attach"
  /\ Set(s, [session[s] EXCEPT !.phase = "store", !.row = None])
  /\ \/ /\ emails' = {IF e.n = session[s].row THEN [e EXCEPT !.listed = TRUE] ELSE e : e \in emails}
        /\ UNCHANGED <<faults, lossy>>
     \/ Fault /\ lossy' = lossy \cup {session[s].mail} /\ UNCHANGED emails
  /\ UNCHANGED <<active, spool, acked, judged>>

(* HandleMessage returns nil. *)
Stored(s) ==
  /\ session[s] # Closed /\ session[s].phase = "store" /\ session[s].left = {}
  /\ Answer(s, 250)
  /\ UNCHANGED <<active, emails, spool, acked, faults, lossy, judged>>

-----------------------------------------------------------------------------
(* The answer reaches the sender, unless it has given up on the connection. *)
Reply(s) ==
  /\ session[s] # Closed /\ session[s].phase = "answer"
  /\ LET m == session[s].mail
         settled == IF session[s].heard /\ session[s].code # 451 THEN session[s].to ELSE {}
     IN /\ spool' = [spool EXCEPT ![m] = @ \ settled]
        /\ acked' = [acked EXCEPT ![m] = IF session[s].code = 250 THEN @ \cup settled ELSE @]
  /\ IF session[s].heard THEN Set(s, Reset(session[s])) ELSE Set(s, Closed)
  /\ UNCHANGED <<active, emails, faults, lossy, judged>>

Logout(s) ==
  /\ session[s] # Closed /\ session[s].phase = "ready"
  /\ Set(s, Closed)
  /\ UNCHANGED <<active, emails, spool, acked, faults, lossy, judged>>

ClientGivesUp(s) ==
  /\ session[s] # Closed /\ session[s].phase \in {"store", "attach", "answer"} /\ session[s].heard
  /\ Fault
  /\ Set(s, [session[s] EXCEPT !.heard = FALSE])
  /\ UNCHANGED <<active, emails, spool, acked, lossy, judged>>

(* The process dies and comes back: every session is gone. *)
Crash ==
  /\ \E s \in Sessions : session[s] # Closed
  /\ Fault
  /\ session' = [s \in Sessions |-> Closed]
  /\ UNCHANGED <<active, emails, spool, acked, lossy, judged>>

(* The owner of the addresses table retires an address. *)
Retire(a) ==
  /\ a \in active \cap Retirable
  /\ active' = active \ {a}
  /\ UNCHANGED <<emails, session, spool, acked, faults, lossy, judged>>

Inbound ==
  \/ \E s \in Sessions :
       \/ Rcpt(s) \/ Abandon(s) \/ CreateEmail(s) \/ storeAttachments(s) \/ Stored(s)
       \/ Reply(s) \/ Logout(s) \/ ClientGivesUp(s)
       \/ \E m \in DOMAIN spool : MailFrom(s, m)
  \/ Crash
  \/ \E a \in Addresses : Retire(a)

Sending == Queue \/ Age \/ \E i \in 1..queued : RecordOutboundFailure(i)

Next ==
  \/ Inbound /\ UNCHANGED reportVars
  \/ Sending /\ UNCHANGED inboundVars
  \/ \E s \in Sessions : Data(s)

Spec == Init /\ [][Next]_vars

-----------------------------------------------------------------------------
(* The sender keeps a recipient in its spool until it is settled. *)
TypeOK ==
  /\ active \subseteq Registered
  /\ emails \subseteq Row /\ IsFiniteSet(emails)
  /\ session \in [Sessions -> SessionState \cup {Closed}]
  /\ \A s \in Sessions : session[s] # Closed =>
       session[s].left \subseteq session[s].to /\ session[s].to \subseteq session[s].tried
  /\ \E batch \in SUBSET Mails :
       /\ spool \in [batch -> SUBSET (Addresses \cup Unserved)]
       /\ acked \in [batch -> SUBSET Addresses]
  /\ \A m \in DOMAIN spool : spool[m] \subseteq ToSet(Mail[m].to) \ acked[m]
  /\ faults \in 0..MaxFaults /\ lossy \subseteq Mails
  /\ judged \subseteq [mail : Mails, of : Mails \cup {None}]
  /\ ReportsTypeOK

Copies(u, m) == {e \in emails : e.box = u /\ Same(m, e.mail)}

(* What was answered with 250 is in the mailbox of every recipient who still
   has the address, or among the bounces and complaints, unless a statement
   failed for it: no retry, crash, alias or second recipient loses a copy. *)
AcceptedIsKept ==
  \A m \in DOMAIN acked \ lossy : \A a \in acked[m] :
    \/ \E b \in bounces \cup complaints : b.report = m
    \/ {a, Base[a]} \cap Registered # {a, Base[a]} \cap active
    \/ Copies(resolveRecipientPubkey(a), m) # {}

(* A message that carries a Message-ID is in a mailbox once, however often it
   is sent again and however many addresses of the owner it is sent to. *)
OneCopyEach ==
  \A u \in Users, m \in DOMAIN spool : Mail[m].mid # None => Cardinality(Copies(u, m)) <= 1

(* A complaint is counted as a bounce only if it could not be recorded. *)
ComplaintsAreNotBounces ==
  \A b \in bounces : b.report # None /\ Mail[b.report].kind = "arf" => b.report \in lossy

(* The SPF verdict handed over with a message was reached for that message:
   the one a session still holds from its last transaction is only ever left
   over for a message without a sender, and that one is taken for a bounce. *)
VerdictIsItsOwn == SPF # "off" => \A j \in judged : j.of = j.mail
=============================================================================
