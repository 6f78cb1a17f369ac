----------------------------- MODULE Submission -----------------------------
(***************************************************************************)
(* A message on its way out of Service.Send: SMTPTransport.Send delivers   *)
(* it through the relay, straight to the recipients' MX hosts, or local    *)
(* domains directly and the rest through the relay, and Service.Send files *)
(* what was delivered in the sender's sent folder.  A client told of an    *)
(* error sends again.                                                      *)
(*                                                                         *)
(* The gate in front is module SendGate.  Content, encryption and DKIM are *)
(* abstracted to whether building the message succeeds.                    *)
(***************************************************************************)
EXTENDS Integers, FiniteSets

CONSTANTS
  Recipients,    \* To, CC and BCC
  DomainOf,      \* the part after the @, or Malformed
  MXHosts,       \* how many hosts Resolve returns for a domain
  LocalDomains,  \* SMTPConfig.LocalDomains
  Modes,         \* the values of SMTPConfig.DeliveryMode to consider
  MaxSends,      \* bound: how often the client sends the message
  MaxLost,       \* bound: replies to the end of DATA that get lost
  Malformed,     \* the address does not split into two at its @
  NoDomain

Domains == {DomainOf[r] : r \in Recipients} \ {Malformed}

ASSUME SubmissionAssumption ==
  /\ Recipients # {} /\ IsFiniteSet(Recipients)
  /\ MXHosts \in [Domains -> Nat \ {0}]
  /\ LocalDomains \subseteq Domains
  /\ Modes \subseteq {"relay", "direct", "hybrid"}
  /\ MaxSends \in Nat /\ MaxLost \in Nat
  /\ NoDomain \notin Domains \cup {Malformed}

VARIABLES
  mode,      \* SMTPConfig.DeliveryMode, fixed when the process starts
  stage,     \* what Send is at
  todo,      \* sendDirect: the domains of byDomain not yet visited
  dom,       \* the domain being delivered to
  host,      \* and the MX host being tried, in order of preference
  remote,    \* the recipients that go through the relay
  lastErr,   \* lastErr is not nil
  copies,    \* history: how often a host accepted the message for a recipient
  before,    \* history: copies when this call of Send began
  lost,      \* history: acceptances whose reply was lost, in this call of Send
  lostTotal,
  outcome,   \* what this call of Send returned to the client
  filed,     \* Postgres: rows of the message in the sent folder
  sends      \* how often the client sent it

progress   == <<stage, todo, dom, host, remote, lastErr>>
wire       == <<copies, lost, lostTotal>>
client     == <<mode, before, outcome, filed, sends>>
submission == <<progress, wire, client>>

SubmissionInit ==
  /\ mode \in Modes
  /\ stage = "idle" /\ todo = {} /\ dom = NoDomain /\ host = 0
  /\ remote = {} /\ lastErr = FALSE
  /\ copies = [r \in Recipients |-> 0] /\ before = copies
  /\ lost = 0 /\ lostTotal = 0
  /\ outcome = "none" /\ filed = 0 /\ sends = 0

-----------------------------------------------------------------------------
Direct(r) ==
  /\ DomainOf[r] # Malformed
  /\ mode = "direct" \/ (mode = "hybrid" /\ DomainOf[r] \in LocalDomains)

(* Everyone in relay mode, and in hybrid mode whoever is not local; direct
   mode passes over an address it cannot split. *)
Relayed == {r \in Recipients : mode # "direct" /\ ~Direct(r)}

(* Service.Send up to the delivery: the message is built and routed.  The
   client may give up after an error, or send again. *)
Send ==
  /\ stage = "idle"
  /\ outcome # "ok"
  /\ sends < MaxSends
  /\ sends'   = sends + 1
  /\ outcome' = "none"
  /\ before'  = copies
  /\ lost'    = 0
  /\ todo'    = {DomainOf[r] : r \in {x \in Recipients : Direct(x)}}
  /\ remote'  = Relayed
  /\ lastErr' = FALSE
  /\ stage'   = "domains"
  /\ UNCHANGED <<mode, dom, host, copies, lostTotal, filed>>

(* buildRawEmailReport or a check before it fails: nothing is delivered. *)
BuildFails ==
  /\ stage = "idle"
  /\ outcome # "ok"
  /\ sends < MaxSends
  /\ sends'   = sends + 1
  /\ outcome' = "error"
  /\ before'  = copies
  /\ lost'    = 0
  /\ UNCHANGED <<mode, progress, copies, lostTotal, filed>>

(* sendDirect: Resolve the next domain; Go visits the map in any order. *)
ResolveMX(d) ==
  /\ stage = "domains"
  /\ d \in todo
  /\ todo' = todo \ {d}
  /\ dom'  = d
  /\ host' = 1
  /\ stage'   = "hosts"
  /\ UNCHANGED <<remote, lastErr, wire, client>>

(* Faulty variant: a domain that does not resolve is only logged. *)
MXLookupForgets(d) ==
  /\ stage = "domains"
  /\ d \in todo
  /\ todo' = todo \ {d}
  /\ UNCHANGED <<stage, dom, host, remote, lastErr, wire, client>>

MXLookupFails(d) ==
  /\ stage = "domains"
  /\ d \in todo
  /\ todo'    = todo \ {d}
  /\ lastErr' = TRUE
  /\ UNCHANGED <<stage, dom, host, remote, wire, client>>

(* What the other side made of a transaction with recipients S: took it or
   not, and whether we were told. *)
Transaction(S, took, ok) ==
  /\ ok => took
  /\ took /\ ~ok => lostTotal < MaxLost
  /\ copies'    = [r \in Recipients |-> IF took /\ r \in S THEN copies[r] + 1 ELSE copies[r]]
  /\ lost'      = IF took /\ ~ok THEN lost + 1 ELSE lost
  /\ lostTotal' = IF took /\ ~ok THEN lostTotal + 1 ELSE lostTotal

AddressedTo(d) == {r \in Recipients : DomainOf[r] = d}

(* Faulty variant: no break after a delivery. *)
sendToHostGoesOn(took, ok) ==
  /\ stage = "hosts"
  /\ Transaction(AddressedTo(dom), took, ok)
  /\ lastErr' = (lastErr \/ ~ok)
  /\ IF host = MXHosts[dom]
     THEN stage' = "domains" /\ dom' = NoDomain /\ host' = 0
     ELSE host' = host + 1 /\ UNCHANGED <<stage, dom>>
  /\ UNCHANGED <<todo, remote, client>>

(* Try the MX host; on an error try the next one.  lastErr is set and never
   cleared. *)
sendToHost(took, ok) ==
  /\ stage = "hosts"
  /\ Transaction(AddressedTo(dom), took, ok)
  /\ lastErr' = (lastErr \/ ~ok)
  /\ IF ok \/ host = MXHosts[dom]
     THEN stage' = "domains" /\ dom' = NoDomain /\ host' = 0
     ELSE host' = host + 1 /\ UNCHANGED <<stage, dom>>
  /\ UNCHANGED <<todo, remote, client>>

(* The relay leg of relay and hybrid mode, after the direct one. *)
sendViaSMTP(took, ok) ==
  /\ stage = "domains" /\ todo = {}
  /\ remote # {}
  /\ Transaction(remote, took, ok)
  /\ lastErr' = (lastErr \/ ~ok)
  /\ remote'  = {}
  /\ UNCHANGED <<stage, todo, dom, host, client>>

(* Service.Send returns the transport's error; the sent folder stays as it is. *)
ReportError ==
  /\ stage = "domains" /\ todo = {} /\ remote = {}
  /\ lastErr
  /\ outcome' = "error"
  /\ stage' = "idle"
  /\ UNCHANGED <<mode, todo, dom, host, remote, lastErr, wire, before, filed, sends>>

(* Faulty variant: the sent copy is filed whether or not delivery failed. *)
CreateEmailAnyway(stored) ==
  /\ stage = "domains" /\ todo = {} /\ remote = {}
  /\ filed' = IF stored THEN filed + 1 ELSE filed
  /\ stage' = "respond"
  /\ UNCHANGED <<mode, todo, dom, host, remote, lastErr, wire, before, outcome, sends>>

(* CreateEmail files the sent copy.  Its failure is logged and the client is
   told of the success all the same. *)
CreateEmail(stored) ==
  /\ stage = "domains" /\ todo = {} /\ remote = {}
  /\ ~lastErr
  /\ filed' = IF stored THEN filed + 1 ELSE filed
  /\ stage' = "respond"
  /\ UNCHANGED <<mode, todo, dom, host, remote, lastErr, wire, before, outcome, sends>>

Respond ==
  /\ stage = "respond"
  /\ outcome' = "ok"
  /\ stage' = "idle"
  /\ UNCHANGED <<mode, todo, dom, host, remote, lastErr, wire, before, filed, sends>>

(* The process dies under the request; the client sees the connection drop. *)
ProcessDies ==
  /\ stage # "idle"
  /\ stage' = "idle" /\ todo' = {} /\ dom' = NoDomain /\ host' = 0
  /\ remote' = {} /\ lastErr' = FALSE
  /\ outcome' = "dropped"
  /\ UNCHANGED <<mode, wire, before, filed, sends>>

SubmissionNext ==
  \/ Send \/ BuildFails
  \/ \E d \in Domains : ResolveMX(d) \/ MXLookupFails(d)
  \/ \E took, ok \in BOOLEAN : sendToHost(took, ok) \/ sendViaSMTP(took, ok)
  \/ ReportError
  \/ \E stored \in BOOLEAN : CreateEmail(stored)
  \/ Respond
  \/ ProcessDies

SubmissionSpec == SubmissionInit /\ [][SubmissionNext]_submission

-----------------------------------------------------------------------------
(* The types of a submission: the call in progress, what was sent and filed. *)
SubmissionTypeOK ==
  /\ mode \in Modes
  /\ stage \in {"idle", "domains", "hosts", "respond"}
  /\ todo \subseteq Domains
  /\ dom \in Domains \cup {NoDomain}
  /\ IF dom = NoDomain THEN host = 0 ELSE host \in 1 .. MXHosts[dom]
  /\ remote \subseteq Recipients
  /\ lastErr \in BOOLEAN
  /\ copies \in [Recipients -> Nat] /\ before \in [Recipients -> Nat]
  /\ lost \in Nat /\ lostTotal \in 0 .. MaxLost
  /\ outcome \in {"none", "ok", "error", "dropped"}
  /\ filed \in Nat /\ sends \in 0 .. MaxSends

New(r) == copies[r] - before[r]

PassedOver(r) == mode = "direct" /\ DomainOf[r] = Malformed

(* Success is told only when a host has accepted the message for every
   recipient in this very call, by whichever route each of them went.  The one
   exception is an address that direct mode cannot split. *)
SuccessIsForAll ==
  outcome = "ok" =>
    \A r \in Recipients : PassedOver(r) \/ New(r) >= 1

(* One call of Send puts one copy in a recipient's hands: only an acceptance
   whose reply was lost makes it try a further host. *)
OneCopyPerCall == \A r \in Recipients : New(r) <= 1 + lost

(* Every row of the sent folder stands for a copy each recipient was sent,
   however often errors and crashes made the client send again; again but for
   the addresses direct mode passes over. *)
SentFolderIsTrue == \A r \in Recipients : PassedOver(r) \/ filed <= copies[r]

(* transport.go says the Error of a DeliveryResult is for when the entire send
   failed. *)
ErrorMeansFailure ==
  outcome = "error" /\ lost = 0 => \E r \in Recipients : New(r) = 0
=============================================================================
