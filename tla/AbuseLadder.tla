----------------------------- MODULE AbuseLadder -----------------------------
(***************************************************************************)
(* The detection-and-suspend ladder of internal/abuse.  Every replica runs *)
(* Detector.Run: a scan collects the signals of the accounts that sent in  *)
(* the window and applies to each the rung they warrant.  Apply reads the  *)
(* account's mark in Redis, flips the send gate in Postgres, parks or      *)
(* releases queued mail and writes the mark back: four stores, no lock and *)
(* no transaction, so replicas, an operator's ReleaseManual and errors of  *)
(* each store come between the steps.                                      *)
(*                                                                         *)
(* The sends of an account are counted from outbound_queue.  Enqueues says *)
(* whether sending leaves a row there; at this commit nothing calls        *)
(* OutboundQueue.Enqueue and Service.Send delivers on its own, so it is    *)
(* FALSE as deployed and TRUE as the ladder's comments take it to be.      *)
(*                                                                         *)
(* Rates and thresholds are abstracted to the rung Evaluate makes of them, *)
(* and time to whether a mark is as old as MinHoldDuration.                *)
(***************************************************************************)
EXTENDS Integers, FiniteSets

CONSTANTS
  Accounts,
  Replicas,          \* backend processes, each with a Detector
  Operators,         \* callers of ReleaseManual
  Enqueues,          \* a send leaves a row in outbound_queue
  AllowAutoSuspend,  \* Thresholds.AllowAutoSuspend
  AutoReleaseHold,   \* Config.AutoReleaseHold
  Verdicts,          \* bound: the rungs the accounts' signals may warrant
  MaxFaults,         \* bound: failed reads and writes in one behaviour
  NoAccount          \* the process works on no account

ASSUME LadderAssumption ==
  /\ Replicas \cap Operators = {}
  /\ Enqueues \in BOOLEAN /\ AllowAutoSuspend \in BOOLEAN /\ AutoReleaseHold \in BOOLEAN
  /\ Verdicts \subseteq 0 .. 4
  /\ MaxFaults \in Nat
  /\ NoAccount \notin Accounts

None     == 0
Warn     == 1
Throttle == 2
Hold     == 3
Suspend  == 4
Rungs    == None .. Suspend

Procs == Replicas \cup Operators

(* A mark: its rung, and whether MinHoldDuration has passed since its At, which
   is only read of a hold.  Rung None stands for no mark at all. *)
Mark   == [rung : Rungs, aged : BOOLEAN]
NoMark == [rung |-> None, aged |-> FALSE]

VARIABLES
  mark,       \* Redis: abuse:mark:<account>
  gate,       \* Postgres: send_enabled of the account's mailbox
  parked,     \* outbound queue: the account's waiting mail is held
  signals,    \* the rung Evaluate makes of the account's signals now
  active,     \* the account has sent mail inside the window
  todo,       \* per process: the collected <<account, warranted>> not yet applied
  pc,         \* per process: the store operation it performs next
  acct,       \* per process: the account Apply works on
  goal,       \* per process: the rung it moves the account to
  seen,       \* per process: the mark it read and is about to renew
  troubled,   \* history: two processes changed the account at once, or a store failed
  faults

shared == <<mark, gate, parked>>
world  == <<signals, active>>
locals == <<todo, pc, acct, goal, seen>>
trouble == <<troubled, faults>>
vars   == <<shared, world, locals, trouble>>

Init ==
  /\ mark    = [a \in Accounts |-> NoMark]
  /\ gate    = [a \in Accounts |-> TRUE]
  /\ parked  = [a \in Accounts |-> FALSE]
  /\ signals = [a \in Accounts |-> None]
  /\ active  = [a \in Accounts |-> FALSE]
  /\ todo    = [p \in Procs |-> {}]
  /\ pc      = [p \in Procs |-> "idle"]
  /\ acct    = [p \in Procs |-> NoAccount]
  /\ goal    = [p \in Procs |-> None]
  /\ seen    = [p \in Procs |-> NoMark]
  /\ troubled = [a \in Accounts |-> FALSE]
  /\ faults  = 0

-----------------------------------------------------------------------------
(* The accounts and the clock.                                             *)

(* A send the gate lets through. *)
Submit(a) ==
  /\ gate[a]
  /\ ~active[a]
  /\ active' = [active EXCEPT ![a] = TRUE]
  /\ UNCHANGED <<shared, signals, locals, trouble>>

(* Bounces, complaints and volume move the signals of an account that sent in
   the window; Evaluate makes one of the five rungs of them. *)
SignalsMove(a, r) ==
  /\ active[a]
  /\ signals[a] # r
  /\ signals' = [signals EXCEPT ![a] = r]
  /\ UNCHANGED <<shared, active, locals, trouble>>

(* The last send leaves the window: Collect no longer returns the account, and
   with no sends there is no rate to judge. *)
AgeOut(a) ==
  /\ active[a]
  /\ active'  = [active EXCEPT ![a] = FALSE]
  /\ signals' = [signals EXCEPT ![a] = None]
  /\ UNCHANGED <<shared, locals, trouble>>

(* The copy a process has read grows old with the mark. *)
MinHoldPasses(a) ==
  /\ mark[a].rung = Hold /\ ~mark[a].aged
  /\ mark' = [mark EXCEPT ![a].aged = TRUE]
  /\ seen' = [p \in Procs |-> IF acct[p] = a /\ seen[p].rung = Hold
                              THEN [seen[p] EXCEPT !.aged = TRUE] ELSE seen[p]]
  /\ UNCHANGED <<gate, parked, world, todo, pc, acct, goal, trouble>>

(* rungTTL: only marks below hold expire. *)
Expires(r) == r \in {Warn, Throttle}

MarkExpires(a) ==
  /\ Expires(mark[a].rung)
  /\ mark' = [mark EXCEPT ![a] = NoMark]
  /\ UNCHANGED <<gate, parked, world, locals, trouble>>

-----------------------------------------------------------------------------
(* Scan and Apply.                                                         *)

(* collectSends counts the rows of outbound_queue, the only sends it knows of. *)
Collect(p) ==
  /\ p \in Replicas
  /\ pc[p] = "idle" /\ todo[p] = {}
  /\ todo' = [todo EXCEPT ![p] = {<<a, signals[a]>> : a \in {b \in Accounts : active[b] /\ Enqueues}}]
  /\ UNCHANGED <<shared, world, pc, acct, goal, seen, trouble>>

(* No process is between its read of an account's mark and its last write. *)
Quiet(a) == \A p \in Procs : acct[p] # a

Note(a, bad) == troubled' = [troubled EXCEPT ![a] = @ \/ bad]

Clamp(r) == IF r = Suspend /\ ~AllowAutoSuspend THEN Hold ELSE r

(* Faulty variants: a hold is lifted whatever its age; a marked account climbs
   no further; a hold is never lifted; suspend is lifted like a hold. *)
BranchAtOnce(current, applied) ==
  IF applied < current.rung
  THEN IF current.rung >= Suspend \/ (current.rung = Hold /\ ~AutoReleaseHold)
       THEN "idle" ELSE IF current.rung = Hold THEN "open" ELSE "settle"
  ELSE IF applied = None THEN "idle"
  ELSE IF applied = current.rung THEN "renew"
  ELSE IF applied >= Hold THEN "close" ELSE "mark"

BranchStays(current, applied) ==
  IF applied < current.rung
  THEN IF \/ current.rung >= Suspend
          \/ current.rung = Hold /\ ~(AutoReleaseHold /\ current.aged)
       THEN "idle"
       ELSE IF current.rung = Hold THEN "open" ELSE "settle"
  ELSE IF applied = None THEN "idle"
  ELSE IF current.rung # None THEN "renew"
  ELSE IF applied >= Hold THEN "close" ELSE "mark"

BranchNeverOpens(current, applied) ==
  IF applied < current.rung
  THEN IF current.rung >= Hold THEN "idle" ELSE "settle"
  ELSE IF applied = None THEN "idle"
  ELSE IF applied = current.rung THEN "renew"
  ELSE IF applied >= Hold THEN "close" ELSE "mark"

BranchSuspendToo(current, applied) ==
  IF applied < current.rung
  THEN IF current.rung >= Hold THEN "open" ELSE "settle"
  ELSE IF applied = None THEN "idle"
  ELSE IF applied = current.rung THEN "renew"
  ELSE IF applied >= Hold THEN "close" ELSE "mark"

(* Where Apply goes once it has read current: deescalate, nothing, renew or
   escalate.  A hold is lifted only when it is old enough. *)
Branch(current, applied) ==
  IF applied < current.rung
  THEN IF \/ current.rung >= Suspend
          \/ current.rung = Hold /\ ~(AutoReleaseHold /\ current.aged)
       THEN "idle"
       ELSE IF current.rung = Hold THEN "open" ELSE "settle"
  ELSE IF applied = None THEN "idle"
  ELSE IF applied = current.rung THEN "renew"
  ELSE IF applied >= Hold THEN "close" ELSE "mark"

Decide(p, a, warranted, current) ==
  LET applied == Clamp(warranted)
      step    == Branch(current, applied) IN
  /\ pc'   = [pc EXCEPT ![p] = step]
  /\ acct' = [acct EXCEPT ![p] = IF step = "idle" THEN NoAccount ELSE a]
  /\ goal' = [goal EXCEPT ![p] = IF step = "idle" THEN None ELSE applied]
  /\ seen' = [seen EXCEPT ![p] = IF step = "renew" THEN current ELSE NoMark]
  /\ todo' = [todo EXCEPT ![p] = @ \ {<<a, warranted>>}]

(* marks.Get, and the decision it leads to. *)
Apply(p, a, warranted) ==
  /\ pc[p] = "idle"
  /\ <<a, warranted>> \in todo[p]
  /\ Decide(p, a, warranted, mark[a])
  /\ Note(a, pc'[p] # "idle" /\ ~Quiet(a))
  /\ UNCHANGED <<shared, world, faults>>

(* An unreadable mark counts as none. *)
ApplyUnread(p, a, warranted) ==
  /\ faults < MaxFaults
  /\ pc[p] = "idle"
  /\ <<a, warranted>> \in todo[p]
  /\ Decide(p, a, warranted, NoMark)
  /\ Note(a, TRUE)
  /\ faults' = faults + 1
  /\ UNCHANGED <<shared, world>>

(* ReleaseManual: release, then clear the mark, whatever it is. *)
ReleaseManual(p, a) ==
  /\ p \in Operators
  /\ pc[p] = "idle"
  /\ mark[a].rung # None \/ ~gate[a]
  /\ pc'   = [pc EXCEPT ![p] = "open"]
  /\ acct' = [acct EXCEPT ![p] = a]
  /\ goal' = [goal EXCEPT ![p] = None]
  /\ seen' = [seen EXCEPT ![p] = NoMark]
  /\ Note(a, ~Quiet(a))
  /\ UNCHANGED <<shared, world, todo, faults>>

Goto(p, step) == pc' = [pc EXCEPT ![p] = step] /\ UNCHANGED <<todo, acct, goal, seen>>

Done(p) ==
  /\ pc'   = [pc EXCEPT ![p] = "idle"]
  /\ acct' = [acct EXCEPT ![p] = NoAccount]
  /\ goal' = [goal EXCEPT ![p] = None]
  /\ seen' = [seen EXCEPT ![p] = NoMark]
  /\ UNCHANGED todo

(* SetMailboxSendEnabled; whoever has sent has a mailbox row. *)
SetMailboxSendEnabled(a, enabled) == gate' = [gate EXCEPT ![a] = enabled]

(* escalate to hold or suspend: close the gate, park the queue, then mark. *)
CloseGate(p) ==
  /\ pc[p] = "close"
  /\ SetMailboxSendEnabled(acct[p], FALSE)
  /\ Goto(p, "park")
  /\ UNCHANGED <<mark, parked, world, trouble>>

(* Faulty variant: the queue is forgotten. *)
HoldForSenderNot(p) ==
  /\ pc[p] = "park"
  /\ Goto(p, "mark")
  /\ UNCHANGED <<shared, world, trouble>>

HoldForSender(p) ==
  /\ pc[p] = "park"
  /\ parked' = [parked EXCEPT ![acct[p]] = TRUE]
  /\ Goto(p, "mark")
  /\ UNCHANGED <<mark, gate, world, trouble>>

(* release: open the gate, then unpark the queue. *)
OpenGate(p) ==
  /\ pc[p] = "open"
  /\ SetMailboxSendEnabled(acct[p], TRUE)
  /\ Goto(p, "unpark")
  /\ UNCHANGED <<mark, parked, world, trouble>>

ReleaseForSender(p) ==
  /\ pc[p] = "unpark"
  /\ parked' = [parked EXCEPT ![acct[p]] = FALSE]
  /\ Goto(p, "settle")
  /\ UNCHANGED <<mark, gate, world, trouble>>

(* The last write of escalate ("mark") and of deescalate and ReleaseManual
   ("settle"): a fresh mark at the goal, or none. *)
WriteMark(p) ==
  /\ pc[p] \in {"mark", "settle"}
  /\ mark' = [mark EXCEPT ![acct[p]] = [rung |-> goal[p], aged |-> FALSE]]
  /\ Done(p)
  /\ UNCHANGED <<gate, parked, world, trouble>>

(* renew writes back the mark it read, with its At. *)
Renew(p) ==
  /\ pc[p] = "renew"
  /\ mark' = [mark EXCEPT ![acct[p]] = seen[p]]
  /\ Done(p)
  /\ UNCHANGED <<gate, parked, world, trouble>>

(* An error of the gate or of the mark store ends Apply; one of the queue is
   only logged. *)
StoreError(p) ==
  /\ faults < MaxFaults
  /\ \/ pc[p] \in {"close", "open", "mark", "settle", "renew"} /\ Done(p)
     \/ pc[p] = "park" /\ Goto(p, "mark")
     \/ pc[p] = "unpark" /\ Goto(p, "settle")
  /\ Note(acct[p], TRUE)
  /\ faults' = faults + 1
  /\ UNCHANGED <<shared, world>>

(* The process dies between two stores; its replacement scans afresh. *)
Crash(p) ==
  /\ faults < MaxFaults
  /\ pc[p] # "idle"
  /\ pc'   = [pc EXCEPT ![p] = "idle"]
  /\ acct' = [acct EXCEPT ![p] = NoAccount]
  /\ goal' = [goal EXCEPT ![p] = None]
  /\ seen' = [seen EXCEPT ![p] = NoMark]
  /\ todo' = [todo EXCEPT ![p] = {}]
  /\ Note(acct[p], TRUE)
  /\ faults' = faults + 1
  /\ UNCHANGED <<shared, world>>

Step(p) ==
  \/ Collect(p)
  \/ \E a \in Accounts, r \in Rungs : Apply(p, a, r)
  \/ CloseGate(p) \/ HoldForSender(p) \/ OpenGate(p) \/ ReleaseForSender(p)
  \/ WriteMark(p) \/ Renew(p)

Next ==
  \/ \E a \in Accounts :
       \/ Submit(a) \/ AgeOut(a) \/ MinHoldPasses(a) \/ MarkExpires(a)
       \/ \E r \in Verdicts : SignalsMove(a, r)
       \/ \E p \in Procs : ReleaseManual(p, a)
       \/ \E p \in Procs, r \in Rungs : ApplyUnread(p, a, r)
  \/ \E p \in Procs : Step(p) \/ StoreError(p) \/ Crash(p)

Spec == Init /\ [][Next]_vars

(* The ticker keeps scanning, a process finishes what it began, time passes. *)
Fairness ==
  /\ \A p \in Procs : WF_vars(Step(p))
  /\ \A a \in Accounts : WF_vars(MinHoldPasses(a)) /\ WF_vars(MarkExpires(a))

FairSpec == Spec /\ Fairness

-----------------------------------------------------------------------------
TypeOK ==
  /\ mark    \in [Accounts -> Mark]
  /\ gate    \in [Accounts -> BOOLEAN]
  /\ parked  \in [Accounts -> BOOLEAN]
  /\ signals \in [Accounts -> Rungs]
  /\ active  \in [Accounts -> BOOLEAN]
  /\ todo    \in [Procs -> SUBSET (Accounts \X Rungs)]
  /\ pc      \in [Procs -> {"idle", "close", "park", "mark", "open", "unpark", "settle", "renew"}]
  /\ acct    \in [Procs -> Accounts \cup {NoAccount}]
  /\ goal    \in [Procs -> Rungs]
  /\ seen    \in [Procs -> Mark]
  /\ troubled \in [Accounts -> BOOLEAN]
  /\ faults  \in Nat

(* Whatever replicas and operators did to an account one after another: once
   none of them works on it, its gate is closed and its queue parked exactly when
   its mark says hold or suspend. *)
StoresAgree ==
  \A a \in Accounts : Quiet(a) /\ ~troubled[a] =>
    /\ mark[a].rung >= Hold <=> ~gate[a]
    /\ mark[a].rung >= Hold <=> parked[a]

(* Suspend is left only through an operator, unless replicas overlap. *)
SuspendStays ==
  [][\A a \in Accounts :
       mark[a].rung = Suspend /\ mark'[a].rung # Suspend /\ ~troubled[a] =>
         \E p \in Operators : acct[p] = a]_vars

(* No automatic release comes before MinHoldDuration: the gate of a held account
   opens only while its hold mark is old enough, or by an operator. *)
NoEarlyRelease ==
  [][\A a \in Accounts :
       ~gate[a] /\ gate'[a] /\ mark[a].rung >= Hold /\ ~troubled[a] =>
         mark[a].aged \/ \E p \in Operators : acct[p] = a]_vars

(* Replicas that overlap, an operator and errors may leave a wrong mark behind
   for a while, but an account that keeps sending and whose signals settle keeps
   coming back to the rung they warrant, unless it is suspended. *)
MarkFollowsSignals ==
  \A a \in Accounts, r \in Rungs :
    <>[](active[a] /\ signals[a] = r) => []<>(mark[a].rung \in {Clamp(r), Suspend})

(* A held account whose signals come back clean while it still has sends in the
   window may send again, unless an overlap or an error spoilt its stores. *)
HoldLifts ==
  \A a \in Accounts :
    <>[](active[a] /\ signals[a] = None /\ mark[a].rung # Suspend /\ ~troubled[a])
      => <>[]gate[a]
=============================================================================
