------------------------------ MODULE Reports ------------------------------
(***************************************************************************)
(* Bounces and feedback-loop complaints: how a report is recognised, what  *)
(* is read out of it, and which account it is charged to.  The abuse       *)
(* ladder works from the two tables filled here.                           *)
(*                                                                         *)
(* A report is what an extractor can find in it: the Message-ID a header   *)
(* names, the thread its References start with, the Message-ID of the      *)
(* returned copy, the recipient and the class of the diagnostic.           *)
(***************************************************************************)
EXTENDS Integers, Sequences, FiniteSets, FiniteSetsExt

CONSTANTS
  Users,       \* public keys
  Mails,       \* the messages other servers send to this one
  Mail,        \* what each of them contains
  MessageIDs,
  Correspondents,  \* addresses elsewhere
  None         \* an absent field, SQL NULL

Kinds       == {"mail", "odd subject", "dsn", "arf", "unreadable"}
Diagnostics == {"550 unknown user", "550 policy", "550 5.2.2 full", "5.2.2 full", "4xx", "none"}

ASSUME ReportsAssumption ==
  /\ \A m \in Mails :
       /\ Mail[m].kind \in Kinds /\ Mail[m].diag \in Diagnostics
       /\ {Mail[m].inReplyTo, Mail[m].root, Mail[m].returned} \subseteq MessageIDs \cup {None}
       /\ Mail[m].failed \in Correspondents \cup {None}
       /\ Mail[m].about \in Nat  \* the message it really is about, if any
  /\ None \notin MessageIDs

Outbound == Seq([sender : Users \cup {None}, id : MessageIDs, rcpts : SUBSET Correspondents,
                 fate : Diagnostics])

VARIABLES
  outbox,      \* the messages this service queues, in the order it queues them
  queued,      \* how many of them are in the queue table so far
  aged,        \* how many of them are older than senderAttributionWindow
  bounces,     \* email_bounces
  complaints,  \* email_complaints
  failed       \* the messages whose permanent failure has been recorded

reportVars == <<outbox, queued, aged, bounces, complaints, failed>>

InitReports(out) ==
  /\ outbox = out /\ queued = 0 /\ aged = 0
  /\ bounces = {} /\ complaints = {} /\ failed = {}

-----------------------------------------------------------------------------
(* Recognition. *)
(* Faulty variant: a message without a sender is looked into. *)
IsBounceByContent(null, m) == Mail[m].kind \in {"dsn", "arf", "odd subject"}

IsBounce(null, m) == null \/ Mail[m].kind \in {"dsn", "arf", "odd subject"}

IsComplaint(m) == Mail[m].kind = "arf"

-----------------------------------------------------------------------------
(* What a report is about.  Headers win over the returned copy, and of the
   References the first is taken. *)
extractOriginalMessageID(r) ==
  CASE r.inReplyTo # None -> r.inReplyTo
    [] r.inReplyTo = None /\ r.root # None -> r.root
    [] OTHER -> r.returned

extractOriginalRecipient(r) == r.failed

classifyBounce(d) ==
  CASE d \in {"550 unknown user", "550 policy", "550 5.2.2 full"} -> "hard"
    [] d \in {"5.2.2 full", "4xx"} -> "soft"
    [] OTHER -> "unknown"

parseBounce(m) ==
  IF Mail[m].kind = "unreadable"
  THEN [id |-> None, rcpt |-> None, type |-> "unknown"]
  ELSE [id |-> extractOriginalMessageID(Mail[m]), rcpt |-> extractOriginalRecipient(Mail[m]),
        type |-> classifyBounce(Mail[m].diag)]

(* A complaint names the last Message-ID of its body, which is the returned
   copy's. *)
parseComplaint(m) == [id |-> Mail[m].returned, rcpt |-> Mail[m].failed]

-----------------------------------------------------------------------------
(* QueueSenderResolver: the exact path, then the newest message to that
   recipient inside the window. *)
ByMessageID(id) == {i \in 1..queued : outbox[i].id = id /\ outbox[i].sender # None}

(* Faulty variant: however old the message is. *)
ByRecipientEver(r) == {i \in 1..queued : r \in outbox[i].rcpts /\ outbox[i].sender # None}

ByRecipient(r) == {i \in aged + 1..queued : r \in outbox[i].rcpts /\ outbox[i].sender # None}

resolveSender(id, r) ==
  IF id # None /\ ByMessageID(id) # {} THEN outbox[Max(ByMessageID(id))].sender
  ELSE IF r # None /\ ByRecipient(r) # {} THEN outbox[Max(ByRecipient(r))].sender
  ELSE None

(* attributeSender: a query that fails leaves the report unattributed. *)
attributeSender(info, down) == IF down THEN None ELSE resolveSender(info.id, info.rcpt)

-----------------------------------------------------------------------------
(* storeBounce, with the serial id of the row. *)
storeBounce(report, info, sender) ==
  bounces' = bounces \cup {[n |-> Cardinality(bounces) + 1, report |-> report, id |-> info.id,
                            rcpt |-> info.rcpt, type |-> info.type, sender |-> sender]}

(* An error of the statement is logged and the report is answered for. *)
ProcessBounce(m, down, lost) ==
  /\ IF lost THEN UNCHANGED bounces
     ELSE storeBounce(m, parseBounce(m), attributeSender(parseBounce(m), down))
  /\ UNCHANGED complaints

storeComplaint(m, info, sender) ==
  complaints' = complaints \cup {[n |-> Cardinality(complaints) + 1, report |-> m, id |-> info.id,
                                  rcpt |-> info.rcpt, sender |-> sender]}

ProcessComplaint(m, down) ==
  /\ storeComplaint(m, parseComplaint(m), attributeSender(parseComplaint(m), down))
  /\ UNCHANGED bounces

(* The callback of the outbound queue: one row per recipient, and the sender
   is the one the queue row names. *)
classifyFromError(d) ==
  CASE d = "550 unknown user" -> "hard"
    [] d \in {"550 5.2.2 full", "5.2.2 full", "4xx"} -> "soft"
    [] OTHER -> "unknown"

RecordOutboundFailure(i) ==
  /\ i \in 1..queued \ failed /\ outbox[i].fate # "none"
  /\ failed' = failed \cup {i}
  /\ bounces' = bounces \cup
       {[n |-> 0, report |-> None, id |-> outbox[i].id, rcpt |-> r,
         type |-> classifyFromError(outbox[i].fate), sender |-> outbox[i].sender] : r \in outbox[i].rcpts}
  /\ UNCHANGED <<outbox, queued, aged, complaints>>

(* The queue accepts the next message; the clock carries the oldest one out of
   the window. *)
Queue ==
  /\ queued < Len(outbox) /\ queued' = queued + 1
  /\ UNCHANGED <<outbox, aged, bounces, complaints, failed>>

Age ==
  /\ aged < queued /\ aged' = aged + 1
  /\ UNCHANGED <<outbox, queued, bounces, complaints, failed>>

-----------------------------------------------------------------------------
ReportsTypeOK ==
  /\ outbox \in Outbound /\ queued \in 0..Len(outbox) /\ aged \in 0..queued
  /\ \A i, j \in DOMAIN outbox : outbox[i].id = outbox[j].id => i = j
  /\ failed \subseteq 1..queued
  /\ \A b \in bounces \cup complaints :
       b.report \in Mails \cup {None} /\ b.sender \in Users \cup {None}

(* The report returns the message it is about, and nothing in its headers
   points elsewhere. *)
Traceable(m) ==
  /\ Mail[m].about \in 1..queued /\ outbox[Mail[m].about].sender # None
  /\ LET id == outbox[Mail[m].about].id IN
       /\ Mail[m].returned = id
       /\ {Mail[m].inReplyTo, Mail[m].root} \subseteq {None, id}

(* An account is charged on evidence only.  A report that returns a message
   this service queued is charged to its sender; another report is charged, if
   at all, to the sender of a message it mentions or to somebody who wrote to
   the failed recipient within the window. *)
ChargedOnEvidence ==
  [][\A b \in (bounces' \cup complaints') \ (bounces \cup complaints) :
       b.report # None /\ b.sender # None =>
         LET r == Mail[b.report] IN
         IF Traceable(b.report) THEN b.sender = outbox[r.about].sender
         ELSE \E i \in 1..queued :
                /\ b.sender = outbox[i].sender
                /\ \/ i > aged /\ r.failed \in outbox[i].rcpts
                   \/ outbox[i].id \in {r.inReplyTo, r.root, r.returned}]_reportVars
=============================================================================
