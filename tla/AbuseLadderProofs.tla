------------------------- MODULE AbuseLadderProofs -------------------------
(* Proofs about AbuseLadder, for any accounts, replicas and operators, any     *)
(* switches of its configuration and any number of failures.                  *)
EXTENDS AbuseLadder, TLAPS

(* The two stores a hold closes say what the mark says. *)
Agree(a) ==
  /\ mark[a].rung >= Hold <=> ~gate[a]
  /\ mark[a].rung >= Hold <=> parked[a]

(* A process works on an account exactly while it is under way; an operator
   only ever releases. *)
WorkOK(p) ==
  /\ pc[p] = "idle" <=> acct[p] = NoAccount
  /\ p \in Operators => /\ todo[p] = {} /\ goal[p] = None
                        /\ pc[p] \in {"idle", "open", "unpark", "settle"}

(* What a process alone with account a has done to its stores at each step. *)
CloseOK(p, a)  == Agree(a) /\ goal[p] >= Hold /\ mark[a].rung < goal[p]
ParkOK(p, a)   == /\ ~gate[a] /\ (mark[a].rung >= Hold <=> parked[a])
                  /\ goal[p] >= Hold /\ mark[a].rung < goal[p]
MarkOK(p, a)   == /\ goal[p] >= Hold <=> ~gate[a]
                  /\ goal[p] >= Hold <=> parked[a]
                  /\ mark[a].rung < goal[p]
OpenOK(p, a)   == Agree(a) /\ goal[p] < Hold
UnparkOK(p, a) == gate[a] /\ goal[p] < Hold
SettleOK(p, a) == gate[a] /\ ~parked[a] /\ goal[p] < Hold
RenewOK(p, a)  == /\ Agree(a)
                  /\ seen[p].rung >= Hold <=> mark[a].rung >= Hold
                  /\ mark[a].rung = Suspend => seen[p].rung = Suspend

(* Only an operator lifts a suspension or a hold that is not old enough. *)
LiftOK(p, a) ==
  p \notin Operators =>
    /\ pc[p] = "open" => mark[a].rung = Hold /\ mark[a].aged
    /\ pc[p] \in {"unpark", "settle"} => mark[a].rung # Suspend

StepOK(p, a) ==
  /\ pc[p] = "close"  => CloseOK(p, a)
  /\ pc[p] = "park"   => ParkOK(p, a)
  /\ pc[p] = "mark"   => MarkOK(p, a)
  /\ pc[p] = "open"   => OpenOK(p, a)
  /\ pc[p] = "unpark" => UnparkOK(p, a)
  /\ pc[p] = "settle" => SettleOK(p, a)
  /\ pc[p] = "renew"  => RenewOK(p, a)
  /\ LiftOK(p, a)

(* An account no failure or overlap has spoilt: one process at most works on it,
   and its stores are as that process left them, or agree. *)
AccountOK(a) ==
  ~troubled[a] =>
    /\ \A p, q \in Procs : acct[p] = a /\ acct[q] = a => p = q
    /\ \A p \in Procs : acct[p] = a => StepOK(p, a)
    /\ Quiet(a) => Agree(a)

LadderInv ==
  /\ TypeOK
  /\ \A p \in Procs : WorkOK(p)
  /\ \A a \in Accounts : AccountOK(a)
-----------------------------------------------------------------------------
(* An account a step does not touch, and nobody takes up or leaves. *)
LEMMA UntouchedAccount ==
  ASSUME NEW b \in Accounts, AccountOK(b), UNCHANGED <<mark[b], gate[b], parked[b]>>,
         troubled[b] => troubled'[b],
         \A q \in Procs : acct'[q] = b <=> acct[q] = b,
         \A q \in Procs : acct[q] = b => UNCHANGED <<pc[q], goal[q], seen[q]>>
  PROVE  AccountOK(b)'
<1> SUFFICES ASSUME ~troubled'[b] PROVE AccountOK(b)'
  BY DEF AccountOK
<1>0. ~troubled[b]
  OBVIOUS
<1>1. \A p, q \in Procs : acct'[p] = b /\ acct'[q] = b => p = q
  BY <1>0 DEF AccountOK
<1>2. ASSUME NEW p \in Procs, acct'[p] = b PROVE StepOK(p, b)'
  <2>1. StepOK(p, b)
    BY <1>0, <1>2 DEF AccountOK
  <2>2. UNCHANGED <<pc[p], goal[p], seen[p]>>
    BY <1>2
  <2> QED
    BY <2>1, <2>2 DEF StepOK, CloseOK, ParkOK, MarkOK, OpenOK, UnparkOK, SettleOK, RenewOK, LiftOK,
                      Agree
<1>3. Quiet(b)' => Agree(b)'
  BY <1>0 DEF AccountOK, Quiet, Agree
<1> QED
  BY <1>1, <1>2, <1>3 DEF AccountOK

(* A step of process p on account a: what is to be shown of it. *)
LEMMA ProcessStep ==
  ASSUME LadderInv, TypeOK', NEW p \in Procs, NEW a \in Accounts,
         acct[p] \in {a, NoAccount}, acct'[p] \in {a, NoAccount},
         \A q \in Procs \ {p} : UNCHANGED <<acct[q], pc[q], goal[q], seen[q], todo[q]>>,
         \A b \in Accounts \ {a} : UNCHANGED <<mark[b], gate[b], parked[b], troubled[b]>>,
         WorkOK(p)',
         \/ troubled'[a]
         \/ /\ ~troubled[a] /\ (acct[p] = a \/ Quiet(a))
            /\ acct'[p] = a => StepOK(p, a)'
            /\ acct'[p] = NoAccount => Agree(a)'
  PROVE  LadderInv'
<1>1. ASSUME NEW q \in Procs PROVE WorkOK(q)'
  <2>1. CASE q = p
    BY <2>1
  <2>2. CASE q # p
    BY <2>2 DEF LadderInv, WorkOK
  <2> QED
    BY <2>1, <2>2
<1>2. ASSUME NEW b \in Accounts, b # a PROVE AccountOK(b)'
  <2>1. AccountOK(b) /\ b # NoAccount
    BY LadderAssumption DEF LadderInv
  <2>2. UNCHANGED <<mark[b], gate[b], parked[b]>> /\ (troubled[b] => troubled'[b])
    BY <1>2
  <2>3. \A q \in Procs : acct'[q] = b <=> acct[q] = b
    BY <1>2, <2>1
  <2>4. \A q \in Procs : acct[q] = b => UNCHANGED <<pc[q], goal[q], seen[q]>>
    BY <1>2, <2>1
  <2> QED
    BY <2>1, <2>2, <2>3, <2>4, UntouchedAccount
<1>3. AccountOK(a)'
  <2> SUFFICES ASSUME ~troubled'[a] PROVE AccountOK(a)'
    BY DEF AccountOK
  <2>1. /\ ~troubled[a] /\ (acct[p] = a \/ Quiet(a))
        /\ acct'[p] = a => StepOK(p, a)'
        /\ acct'[p] = NoAccount => Agree(a)'
    OBVIOUS
  <2>2. \A q \in Procs \ {p} : acct[q] # a
    BY <2>1 DEF LadderInv, AccountOK, Quiet
  <2>3. \A q \in Procs : acct'[q] = a => q = p
    BY <2>2
  <2> QED
    BY <2>1, <2>3 DEF AccountOK, Quiet
<1> QED
  BY <1>1, <1>2, <1>3 DEF LadderInv
-----------------------------------------------------------------------------
(* No account has sent yet. *)
LEMMA InitInv == Init => LadderInv
<1> SUFFICES ASSUME Init PROVE LadderInv
  OBVIOUS
<1>1. TypeOK
  BY DEF Init, TypeOK, Mark, NoMark, Rungs, None, Suspend
<1>2. \A p \in Procs : WorkOK(p)
  BY LadderAssumption DEF Init, WorkOK
<1>3. ASSUME NEW a \in Accounts PROVE AccountOK(a)
  <2>1. \A p \in Procs : acct[p] # a
    BY LadderAssumption DEF Init
  <2>2. mark[a].rung = 0 /\ gate[a] /\ ~parked[a]
    BY DEF Init, NoMark, None
  <2> QED
    BY <2>1, <2>2 DEF AccountOK, Agree, Hold
<1> QED
  BY <1>1, <1>2, <1>3 DEF LadderInv

(* An account whose mark ages or expires. *)
LEMMA AgingAccount ==
  ASSUME TypeOK, NEW a \in Accounts, AccountOK(a), TypeOK',
         UNCHANGED <<gate, parked, troubled, acct, pc, goal>>,
         \A p \in Procs : seen'[p].rung = seen[p].rung,
         \/ mark'[a].rung = mark[a].rung /\ (mark[a].aged => mark'[a].aged)
         \/ mark[a].rung < Hold /\ mark'[a].rung = None
  PROVE  AccountOK(a)'
<1> SUFFICES ASSUME ~troubled'[a] PROVE AccountOK(a)'
  BY DEF AccountOK
<1>0. ~troubled[a] /\ mark[a].rung \in 0..4 /\ mark'[a].rung \in 0..4
  BY DEF TypeOK, Mark, Rungs, None, Suspend
<1>1. /\ mark'[a].rung >= Hold <=> mark[a].rung >= Hold
      /\ mark'[a].rung <= mark[a].rung
      /\ mark'[a].rung = Suspend <=> mark[a].rung = Suspend
      /\ mark[a].rung = Hold /\ mark[a].aged => mark'[a].rung = Hold /\ mark'[a].aged
  BY <1>0 DEF Hold, Suspend, None
<1>2. Agree(a)' <=> Agree(a)
  BY <1>1 DEF Agree
<1>3. ASSUME NEW p \in Procs, acct'[p] = a PROVE StepOK(p, a)'
  <2>0. goal[p] \in 0..4 /\ seen[p].rung \in 0..4
    BY DEF TypeOK, Mark, Rungs, None, Suspend
  <2>1. StepOK(p, a)
    BY <1>0, <1>3 DEF AccountOK
  <2>2. (CloseOK(p, a) => CloseOK(p, a)') /\ (OpenOK(p, a) => OpenOK(p, a)')
    BY <1>0, <1>1, <1>2, <2>0 DEF CloseOK, OpenOK
  <2>3. (ParkOK(p, a) => ParkOK(p, a)') /\ (MarkOK(p, a) => MarkOK(p, a)')
    BY <1>0, <1>1, <2>0 DEF ParkOK, MarkOK
  <2>4. (UnparkOK(p, a) => UnparkOK(p, a)') /\ (SettleOK(p, a) => SettleOK(p, a)')
    BY DEF UnparkOK, SettleOK
  <2>5. RenewOK(p, a) => RenewOK(p, a)'
    BY <1>1, <1>2 DEF RenewOK
  <2>6. LiftOK(p, a)'
    BY <1>1, <2>1 DEF StepOK, LiftOK
  <2> QED
    BY <2>1, <2>2, <2>3, <2>4, <2>5, <2>6 DEF StepOK
<1>4. \A p, q \in Procs : acct'[p] = a /\ acct'[q] = a => p = q
  BY <1>0 DEF AccountOK
<1>5. Quiet(a)' => Agree(a)'
  BY <1>0, <1>2 DEF AccountOK, Quiet
<1> QED
  BY <1>3, <1>4, <1>5 DEF AccountOK

(* What the accounts, their correspondents and the clock do. *)
LEMMA WorldKeeps ==
  ASSUME LadderInv, NEW a \in Accounts,
         \/ Submit(a) \/ AgeOut(a) \/ MinHoldPasses(a) \/ MarkExpires(a)
         \/ \E r \in Verdicts : SignalsMove(a, r)
  PROVE  LadderInv'
<1> USE DEF shared, world, locals, trouble
<1>1. CASE Submit(a) \/ AgeOut(a) \/ \E r \in Verdicts : SignalsMove(a, r)
  <2>1. UNCHANGED <<mark, gate, parked, todo, pc, acct, goal, seen, troubled, faults>>
    BY <1>1 DEF Submit, AgeOut, SignalsMove
  <2>2. TypeOK'
    <3>0. /\ signals \in [Accounts -> Rungs] /\ active \in [Accounts -> BOOLEAN]
          /\ Verdicts \subseteq Rungs /\ None \in Rungs
      BY LadderAssumption DEF LadderInv, TypeOK, Rungs, None, Suspend
    <3>1. active' \in [Accounts -> BOOLEAN]
      BY <1>1, <3>0 DEF Submit, AgeOut, SignalsMove
    <3>2. signals' \in [Accounts -> Rungs]
      BY <1>1, <3>0 DEF Submit, AgeOut, SignalsMove
    <3> QED
      BY <2>1, <3>1, <3>2 DEF LadderInv, TypeOK
  <2>3. \A p \in Procs : WorkOK(p)'
    BY <2>1 DEF LadderInv, WorkOK
  <2>4. \A b \in Accounts : AccountOK(b)'
    BY <2>1, UntouchedAccount DEF LadderInv
  <2> QED
    BY <2>2, <2>3, <2>4 DEF LadderInv
<1>2. CASE MinHoldPasses(a) \/ MarkExpires(a)
  <2>1. UNCHANGED <<gate, parked, signals, active, todo, pc, acct, goal, troubled, faults>>
    BY <1>2 DEF MinHoldPasses, MarkExpires
  <2>2. /\ mark' \in [Accounts -> Mark] /\ seen' \in [Procs -> Mark]
        /\ \A p \in Procs : seen'[p].rung = seen[p].rung
        /\ \A p \in Procs : acct[p] # a => seen'[p] = seen[p]
        /\ \A b \in Accounts \ {a} : mark'[b] = mark[b]
        /\ \/ mark'[a].rung = mark[a].rung /\ mark'[a].aged
           \/ mark[a].rung < Hold /\ mark'[a].rung = None
    <3>1. mark \in [Accounts -> Mark] /\ seen \in [Procs -> Mark]
      BY DEF LadderInv, TypeOK
    <3>2. CASE MinHoldPasses(a)
      <4>1. mark' = [mark EXCEPT ![a] = [mark[a] EXCEPT !.aged = TRUE]]
        BY <3>1, <3>2 DEF MinHoldPasses
      <4>2. \A p \in Procs : seen'[p] \in {seen[p], [seen[p] EXCEPT !.aged = TRUE]}
        BY <3>1, <3>2 DEF MinHoldPasses
      <4>3. \A x \in Mark : /\ [x EXCEPT !.aged = TRUE] \in Mark
                            /\ [x EXCEPT !.aged = TRUE].rung = x.rung
                            /\ [x EXCEPT !.aged = TRUE].aged
        BY DEF Mark
      <4>4. \A p \in Procs : seen'[p] \in Mark /\ seen'[p].rung = seen[p].rung
        BY <3>1, <4>2, <4>3
      <4>5. seen' \in [Procs -> Mark] /\ \A p \in Procs : acct[p] # a => seen'[p] = seen[p]
        BY <3>2, <4>4 DEF MinHoldPasses
      <4>6. /\ mark' \in [Accounts -> Mark] /\ \A b \in Accounts \ {a} : mark'[b] = mark[b]
            /\ mark'[a].rung = mark[a].rung /\ mark'[a].aged
        BY <3>1, <4>1, <4>3
      <4> QED
        BY <4>4, <4>5, <4>6
    <3>3. CASE MarkExpires(a)
      BY <3>1, <3>3 DEF MarkExpires, Expires, NoMark, Mark, Warn, Throttle, Hold, Rungs, None, Suspend
    <3> QED
      BY <1>2, <3>2, <3>3
  <2>3. TypeOK'
    BY <2>1, <2>2 DEF LadderInv, TypeOK
  <2>4. \A p \in Procs : WorkOK(p)'
    BY <2>1 DEF LadderInv, WorkOK
  <2>5. AccountOK(a)'
    BY <2>1, <2>2, <2>3, AgingAccount DEF LadderInv
  <2>6. ASSUME NEW b \in Accounts, b # a PROVE AccountOK(b)'
    <3>1. AccountOK(b)
      BY DEF LadderInv
    <3>2. \A q \in Procs : acct[q] = b => UNCHANGED <<pc[q], goal[q], seen[q]>>
      BY <2>1, <2>2, <2>6
    <3> QED
      BY <2>1, <2>2, <2>6, <3>1, <3>2, UntouchedAccount
  <2> QED
    BY <2>3, <2>4, <2>5, <2>6 DEF LadderInv
<1> QED
  BY <1>1, <1>2
-----------------------------------------------------------------------------
(* A scan collects its work: nothing else changes. *)
LEMMA CollectKeeps ==
  ASSUME LadderInv, NEW p \in Procs, Collect(p)
  PROVE  LadderInv'
<1>1. /\ p \in Replicas /\ UNCHANGED <<mark, gate, parked, signals, active, pc, acct, goal, seen,
                                        troubled, faults>>
      /\ todo' = [todo EXCEPT ![p] = {<<a, signals[a]>> : a \in {b \in Accounts : active[b] /\ Enqueues}}]
  BY DEF Collect, shared, world, trouble
<1>2. TypeOK'
  <2>1. todo' \in [Procs -> SUBSET (Accounts \X Rungs)]
    BY <1>1 DEF LadderInv, TypeOK
  <2> QED
    BY <1>1, <2>1 DEF LadderInv, TypeOK
<1>3. ASSUME NEW q \in Procs PROVE WorkOK(q)'
  <2>1. q \in Operators => q # p
    BY <1>1, LadderAssumption
  <2>2. q \in Operators => todo'[q] = todo[q]
    BY <1>1, <2>1 DEF LadderInv, TypeOK
  <2> QED
    BY <1>1, <2>2 DEF LadderInv, WorkOK
<1>4. \A b \in Accounts : AccountOK(b)'
  BY <1>1, UntouchedAccount DEF LadderInv
<1> QED
  BY <1>2, <1>3, <1>4 DEF LadderInv

(* Where Branch leads from a mark. *)
LEMMA BranchLeads ==
  ASSUME NEW m \in Mark, NEW r \in Rungs
  PROVE  LET b == Branch(m, r) IN
         /\ b \in {"idle", "close", "mark", "open", "settle", "renew"}
         /\ b = "close" => r >= Hold /\ m.rung < r
         /\ b = "mark" => r < Hold /\ m.rung < r
         /\ b = "open" => r < Hold /\ m.rung = Hold /\ m.aged
         /\ b = "settle" => r < Hold /\ m.rung < Hold
         /\ b = "renew" => m.rung = r
<1>1. m.rung \in 0..4 /\ r \in 0..4
  BY DEF Mark, Rungs, None, Suspend
<1> QED
  BY <1>1 DEF Branch, Hold, Suspend, None

(* The decision of Apply, on the mark it has read or on none. *)
LEMMA DecideKeeps ==
  ASSUME LadderInv, NEW p \in Procs, NEW a \in Accounts, NEW r \in Rungs, NEW m \in Mark,
         pc[p] = "idle", <<a, r>> \in todo[p], Decide(p, a, r, m),
         UNCHANGED <<mark, gate, parked, signals, active>>, faults' \in Nat,
         troubled' \in [Accounts -> BOOLEAN],
         \A b \in Accounts \ {a} : UNCHANGED troubled[b],
         troubled'[a] \/ (~troubled[a] /\ m = mark[a] /\ (pc'[p] # "idle" => Quiet(a)))
  PROVE  LadderInv'
<1> DEFINE t == Clamp(r)
           b == Branch(m, t)
<1>0. /\ acct[p] = NoAccount /\ p \notin Operators /\ a # NoAccount
      /\ pc \in [Procs -> {"idle", "close", "park", "mark", "open", "unpark", "settle", "renew"}]
      /\ acct \in [Procs -> Accounts \cup {NoAccount}] /\ goal \in [Procs -> Rungs]
      /\ seen \in [Procs -> Mark] /\ todo \in [Procs -> SUBSET (Accounts \X Rungs)]
  BY LadderAssumption DEF LadderInv, TypeOK, WorkOK
<1>1. t \in Rungs /\ None \in Rungs /\ NoMark \in Mark
  BY DEF Clamp, Rungs, None, Suspend, Hold, NoMark, Mark
<1>2. /\ b \in {"idle", "close", "mark", "open", "settle", "renew"}
      /\ b = "close" => t >= Hold /\ m.rung < t
      /\ b = "mark" => t < Hold /\ m.rung < t
      /\ b = "open" => t < Hold /\ m.rung = Hold /\ m.aged
      /\ b = "settle" => t < Hold /\ m.rung < Hold
      /\ b = "renew" => m.rung = t
  BY <1>1, BranchLeads
<1>3. /\ pc' = [pc EXCEPT ![p] = b]
      /\ acct' = [acct EXCEPT ![p] = IF b = "idle" THEN NoAccount ELSE a]
      /\ goal' = [goal EXCEPT ![p] = IF b = "idle" THEN None ELSE t]
      /\ seen' = [seen EXCEPT ![p] = IF b = "renew" THEN m ELSE NoMark]
      /\ todo' = [todo EXCEPT ![p] = @ \ {<<a, r>>}]
  BY DEF Decide
<1> HIDE DEF t, b
<1>4. TypeOK'
  <2>1. pc' \in [Procs -> {"idle", "close", "park", "mark", "open", "unpark", "settle", "renew"}]
        /\ acct' \in [Procs -> Accounts \cup {NoAccount}]
    BY <1>0, <1>2, <1>3
  <2>2. goal' \in [Procs -> Rungs] /\ seen' \in [Procs -> Mark]
    BY <1>0, <1>1, <1>3
  <2>3. todo' \in [Procs -> SUBSET (Accounts \X Rungs)]
    BY <1>0, <1>3
  <2> QED
    BY <2>1, <2>2, <2>3 DEF LadderInv, TypeOK
<1>5. /\ \A q \in Procs \ {p} : UNCHANGED <<acct[q], pc[q], goal[q], seen[q], todo[q]>>
      /\ pc'[p] = b /\ acct'[p] = (IF b = "idle" THEN NoAccount ELSE a)
      /\ b # "idle" => goal'[p] = t
      /\ b = "renew" => seen'[p] = m
  BY <1>0, <1>3
<1>6. WorkOK(p)'
  BY <1>0, <1>5 DEF WorkOK
<1>7. CASE b = "idle"
  <2>1. \A q \in Procs : UNCHANGED <<acct[q]>>
    BY <1>0, <1>5, <1>7
  <2>2. ASSUME NEW q \in Procs PROVE WorkOK(q)'
    BY <1>5, <1>6 DEF LadderInv, WorkOK
  <2>3. ASSUME NEW x \in Accounts PROVE AccountOK(x)'
    <3>1. AccountOK(x) /\ x # NoAccount /\ (troubled[x] => troubled'[x])
      BY LadderAssumption DEF LadderInv
    <3>2. \A q \in Procs : acct[q] = x => UNCHANGED <<pc[q], goal[q], seen[q]>>
      BY <1>0, <1>5, <3>1
    <3> QED
      BY <2>1, <3>1, <3>2, UntouchedAccount
  <2> QED
    BY <1>4, <2>2, <2>3 DEF LadderInv
<1>8. CASE b # "idle" /\ troubled'[a]
  <2>1. acct'[p] = a
    BY <1>5, <1>8
  <2>2. acct[p] \in {a, NoAccount} /\ acct'[p] \in {a, NoAccount}
    BY <1>0, <2>1
  <2>3. \A x \in Accounts \ {a} : UNCHANGED <<mark[x], gate[x], parked[x], troubled[x]>>
    OBVIOUS
  <2> QED
    BY <1>4, <1>5, <1>6, <1>8, <2>2, <2>3, ProcessStep
<1>9. CASE b # "idle" /\ ~troubled'[a]
  <2>1. acct'[p] = a /\ ~troubled[a] /\ m = mark[a] /\ Quiet(a)
    BY <1>5, <1>9
  <2>2. acct[p] \in {a, NoAccount} /\ acct'[p] \in {a, NoAccount}
    BY <1>0, <2>1
  <2>3. \A x \in Accounts \ {a} : UNCHANGED <<mark[x], gate[x], parked[x], troubled[x]>>
    OBVIOUS
  <2>4. Agree(a) /\ Agree(a)'
    BY <2>1 DEF LadderInv, AccountOK, Agree
  <2>5. m.rung \in 0..4 /\ t \in 0..4
    BY <1>1 DEF Mark, Rungs, None, Suspend
  <2>6. StepOK(p, a)'
    <3>1. pc'[p] \in {"close", "mark", "open", "settle", "renew"} /\ goal'[p] = t
      BY <1>2, <1>5, <1>9
    <3>2. /\ (b = "close" => CloseOK(p, a)') /\ (b = "open" => OpenOK(p, a)')
      BY <1>2, <2>1, <2>4, <3>1 DEF CloseOK, OpenOK
    <3>3. (b = "mark" => MarkOK(p, a)') /\ (b = "settle" => SettleOK(p, a)')
      BY <1>2, <2>1, <2>4, <2>5, <3>1 DEF MarkOK, SettleOK, Agree, Hold
    <3>4. b = "renew" => RenewOK(p, a)'
      BY <1>5, <2>1, <2>4 DEF RenewOK
    <3>5. LiftOK(p, a)'
      BY <1>2, <1>5, <2>1, <2>5 DEF LiftOK, Hold, Suspend
    <3> QED
      BY <1>5, <3>1, <3>2, <3>3, <3>4, <3>5 DEF StepOK
  <2>7. acct'[p] # NoAccount
    BY <1>0, <2>1
  <2> QED
    BY <1>4, <1>5, <1>6, <2>1, <2>2, <2>3, <2>6, <2>7, ProcessStep
<1> QED
  BY <1>7, <1>8, <1>9

(* Apply with the mark read, and with one it could not read. *)
LEMMA ApplyKeeps ==
  ASSUME LadderInv, NEW p \in Procs, NEW a \in Accounts, NEW r \in Rungs,
         Apply(p, a, r) \/ ApplyUnread(p, a, r)
  PROVE  LadderInv'
<1>0. /\ pc[p] = "idle" /\ <<a, r>> \in todo[p] /\ mark[a] \in Mark /\ NoMark \in Mark
      /\ UNCHANGED <<mark, gate, parked, signals, active>>
      /\ troubled \in [Accounts -> BOOLEAN] /\ faults' \in Nat
  <2>1. mark[a] \in Mark /\ troubled \in [Accounts -> BOOLEAN] /\ faults \in Nat
    BY DEF LadderInv, TypeOK
  <2>2. NoMark \in Mark
    BY DEF NoMark, Mark, Rungs, None, Suspend
  <2>3. CASE Apply(p, a, r)
    BY <2>1, <2>2, <2>3 DEF Apply, shared, world
  <2>4. CASE ApplyUnread(p, a, r)
    BY <2>1, <2>2, <2>4 DEF ApplyUnread, shared, world
  <2> QED
    BY <2>3, <2>4
<1>1. ASSUME NEW bad \in BOOLEAN, Note(a, bad)
      PROVE  /\ troubled' \in [Accounts -> BOOLEAN] /\ \A b \in Accounts \ {a} : UNCHANGED troubled[b]
             /\ troubled'[a] <=> troubled[a] \/ bad
  BY <1>0, <1>1 DEF Note
<1>2. CASE Apply(p, a, r)
  <2>1. Decide(p, a, r, mark[a]) /\ Note(a, pc'[p] # "idle" /\ ~Quiet(a))
    BY <1>2 DEF Apply
  <2>2. PICK bad \in BOOLEAN : bad <=> pc'[p] # "idle" /\ ~Quiet(a)
    OBVIOUS
  <2>3. Note(a, bad)
    BY <2>1, <2>2 DEF Note
  <2>4. PICK m \in Mark : m = mark[a] /\ Decide(p, a, r, m)
    BY <1>0, <2>1
  <2>5. troubled'[a] \/ (~troubled[a] /\ m = mark[a] /\ (pc'[p] # "idle" => Quiet(a)))
    BY <1>1, <2>2, <2>3, <2>4
  <2> QED
    BY <1>0, <1>1, <2>3, <2>4, <2>5, DecideKeeps
<1>3. CASE ApplyUnread(p, a, r)
  <2>1. Decide(p, a, r, NoMark) /\ Note(a, TRUE)
    BY <1>3 DEF ApplyUnread
  <2>2. PICK m \in Mark : m = NoMark /\ Decide(p, a, r, m)
    BY <1>0, <2>1
  <2>3. troubled'[a]
    BY <1>0, <2>1 DEF Note
  <2> QED
    BY <1>0, <1>1, <2>1, <2>2, <2>3, DecideKeeps
<1> QED
  BY <1>2, <1>3

(* An operator begins a release. *)
LEMMA ReleaseKeeps ==
  ASSUME LadderInv, NEW p \in Procs, NEW a \in Accounts, ReleaseManual(p, a)
  PROVE  LadderInv'
<1>0. /\ acct[p] = NoAccount /\ todo[p] = {} /\ p \in Operators /\ a # NoAccount
      /\ pc \in [Procs -> {"idle", "close", "park", "mark", "open", "unpark", "settle", "renew"}]
      /\ acct \in [Procs -> Accounts \cup {NoAccount}] /\ goal \in [Procs -> Rungs]
      /\ seen \in [Procs -> Mark] /\ troubled \in [Accounts -> BOOLEAN]
  BY LadderAssumption DEF ReleaseManual, LadderInv, TypeOK, WorkOK
<1>1. /\ UNCHANGED <<mark, gate, parked, signals, active, todo, faults>>
      /\ pc' = [pc EXCEPT ![p] = "open"] /\ acct' = [acct EXCEPT ![p] = a]
      /\ goal' = [goal EXCEPT ![p] = None] /\ seen' = [seen EXCEPT ![p] = NoMark]
      /\ troubled' = [troubled EXCEPT ![a] = @ \/ ~Quiet(a)]
  BY DEF ReleaseManual, Note, shared, world
<1>2. None \in Rungs /\ NoMark \in Mark /\ None < Hold
  BY DEF Rungs, None, Suspend, NoMark, Mark, Hold
<1>3. TypeOK'
  <2>1. /\ pc' \in [Procs -> {"idle", "close", "park", "mark", "open", "unpark", "settle", "renew"}]
        /\ acct' \in [Procs -> Accounts \cup {NoAccount}] /\ goal' \in [Procs -> Rungs]
        /\ seen' \in [Procs -> Mark]
    BY <1>0, <1>1, <1>2
  <2>2. troubled' \in [Accounts -> BOOLEAN]
    BY <1>0, <1>1
  <2> QED
    BY <1>1, <2>1, <2>2 DEF LadderInv, TypeOK
<1>4. /\ \A q \in Procs \ {p} : UNCHANGED <<acct[q], pc[q], goal[q], seen[q], todo[q]>>
      /\ \A b \in Accounts \ {a} : UNCHANGED <<mark[b], gate[b], parked[b], troubled[b]>>
      /\ pc'[p] = "open" /\ acct'[p] = a /\ goal'[p] = None /\ todo'[p] = {}
  BY <1>0, <1>1
<1>5. WorkOK(p)'
  BY <1>0, <1>4 DEF WorkOK
<1>6. troubled'[a] \/ (~troubled[a] /\ Quiet(a))
  BY <1>0, <1>1
<1>7. CASE troubled'[a]
  BY <1>0, <1>3, <1>4, <1>5, <1>7, ProcessStep
<1>8. CASE ~troubled[a] /\ Quiet(a)
  <2>1. Agree(a)'
    BY <1>1, <1>8 DEF LadderInv, AccountOK, Agree
  <2>2. StepOK(p, a)'
    BY <1>0, <1>2, <1>4, <2>1 DEF StepOK, OpenOK, LiftOK
  <2> QED
    BY <1>0, <1>3, <1>4, <1>5, <1>8, <2>2, ProcessStep
<1> QED
  BY <1>6, <1>7, <1>8

(* Process p is at work on account a. *)
LEMMA AtWork ==
  ASSUME LadderInv, NEW p \in Procs, pc[p] # "idle"
  PROVE  /\ acct[p] \in Accounts /\ acct[p] # NoAccount /\ WorkOK(p)
         /\ ~troubled[acct[p]] => StepOK(p, acct[p])
BY LadderAssumption DEF LadderInv, TypeOK, WorkOK, AccountOK

(* It goes on to its next step, after one write to the gate or the queue. *)
LEMMA GoOnKeeps ==
  ASSUME LadderInv, NEW p \in Procs, NEW a \in Accounts, acct[p] = a, pc[p] # "idle",
         NEW step \in {"park", "mark", "unpark", "settle"}, Goto(p, step),
         p \in Operators => step \in {"unpark", "settle"},
         gate' \in [Accounts -> BOOLEAN], parked' \in [Accounts -> BOOLEAN],
         troubled' \in [Accounts -> BOOLEAN], faults' \in Nat,
         \A b \in Accounts \ {a} : UNCHANGED <<gate[b], parked[b], troubled[b]>>,
         UNCHANGED <<mark, signals, active>>,
         troubled'[a] \/ (~troubled[a] /\ StepOK(p, a)')
  PROVE  LadderInv'
<1>1. /\ pc' = [pc EXCEPT ![p] = step] /\ UNCHANGED <<todo, acct, goal, seen>>
      /\ pc \in [Procs -> {"idle", "close", "park", "mark", "open", "unpark", "settle", "renew"}]
  BY DEF Goto, LadderInv, TypeOK
<1>2. TypeOK'
  <2>1. pc' \in [Procs -> {"idle", "close", "park", "mark", "open", "unpark", "settle", "renew"}]
    BY <1>1
  <2> QED
    BY <1>1, <2>1 DEF LadderInv, TypeOK
<1>3. /\ \A q \in Procs \ {p} : UNCHANGED <<acct[q], pc[q], goal[q], seen[q], todo[q]>>
      /\ \A b \in Accounts \ {a} : UNCHANGED <<mark[b], gate[b], parked[b], troubled[b]>>
      /\ pc'[p] = step /\ acct'[p] = a /\ a # NoAccount
  BY <1>1, LadderAssumption
<1>4. WorkOK(p)'
  BY <1>1, <1>3 DEF LadderInv, WorkOK
<1> QED
  BY <1>2, <1>3, <1>4, ProcessStep

(* It is done with the account, after its last write to the mark. *)
LEMMA DoneKeeps ==
  ASSUME LadderInv, NEW p \in Procs, NEW a \in Accounts, acct[p] = a, pc[p] # "idle",
         pc' = [pc EXCEPT ![p] = "idle"], acct' = [acct EXCEPT ![p] = NoAccount],
         goal' = [goal EXCEPT ![p] = None], seen' = [seen EXCEPT ![p] = NoMark],
         todo' = todo \/ todo' = [todo EXCEPT ![p] = {}],
         mark' \in [Accounts -> Mark], troubled' \in [Accounts -> BOOLEAN], faults' \in Nat,
         \A b \in Accounts \ {a} : UNCHANGED <<mark[b], troubled[b]>>,
         UNCHANGED <<gate, parked, signals, active>>,
         troubled'[a] \/ (~troubled[a] /\ Agree(a)')
  PROVE  LadderInv'
<1>0. /\ pc \in [Procs -> {"idle", "close", "park", "mark", "open", "unpark", "settle", "renew"}]
      /\ acct \in [Procs -> Accounts \cup {NoAccount}] /\ goal \in [Procs -> Rungs]
      /\ seen \in [Procs -> Mark] /\ todo \in [Procs -> SUBSET (Accounts \X Rungs)]
      /\ a # NoAccount
  BY LadderAssumption DEF LadderInv, TypeOK
<1>1. None \in Rungs /\ NoMark \in Mark
  BY DEF Rungs, None, Suspend, NoMark, Mark
<1>2. TypeOK'
  <2>1. /\ pc' \in [Procs -> {"idle", "close", "park", "mark", "open", "unpark", "settle", "renew"}]
        /\ acct' \in [Procs -> Accounts \cup {NoAccount}]
    BY <1>0
  <2>2. goal' \in [Procs -> Rungs] /\ seen' \in [Procs -> Mark]
    BY <1>0, <1>1
  <2>3. todo' \in [Procs -> SUBSET (Accounts \X Rungs)]
    BY <1>0
  <2> QED
    BY <2>1, <2>2, <2>3 DEF LadderInv, TypeOK
<1>3. /\ \A q \in Procs \ {p} : UNCHANGED <<acct[q], pc[q], goal[q], seen[q], todo[q]>>
      /\ \A b \in Accounts \ {a} : UNCHANGED <<mark[b], gate[b], parked[b], troubled[b]>>
      /\ pc'[p] = "idle" /\ acct'[p] = NoAccount /\ goal'[p] = None
      /\ todo'[p] = todo[p] \/ todo'[p] = {}
  BY <1>0
<1>4. WorkOK(p)'
  BY <1>3 DEF LadderInv, WorkOK
<1> QED
  BY <1>0, <1>2, <1>3, <1>4, ProcessStep

(* The writes of escalate and release to the gate and the queue. *)
LEMMA WritesKeep ==
  ASSUME LadderInv, NEW p \in Procs,
         CloseGate(p) \/ HoldForSender(p) \/ OpenGate(p) \/ ReleaseForSender(p)
  PROVE  LadderInv'
<1>0. /\ pc[p] \in {"close", "park", "open", "unpark"}
      /\ UNCHANGED <<mark, signals, active, troubled, faults, todo, acct, goal, seen>>
  BY DEF CloseGate, HoldForSender, OpenGate, ReleaseForSender, Goto, world, trouble
<1>1. PICK a \in Accounts : a = acct[p] /\ WorkOK(p) /\ (~troubled[a] => StepOK(p, a))
  BY <1>0, AtWork
<1>2. /\ gate \in [Accounts -> BOOLEAN] /\ parked \in [Accounts -> BOOLEAN]
      /\ troubled' \in [Accounts -> BOOLEAN] /\ faults' \in Nat
      /\ pc \in [Procs -> {"idle", "close", "park", "mark", "open", "unpark", "settle", "renew"}]
      /\ mark[a].rung \in 0..4 /\ goal[p] \in 0..4
  BY <1>0 DEF LadderInv, TypeOK, Mark, Rungs, None, Suspend
<1>3. CASE CloseGate(p)
  <2>1. pc[p] = "close" /\ gate' = [gate EXCEPT ![a] = FALSE] /\ parked' = parked /\ Goto(p, "park")
    BY <1>1, <1>3 DEF CloseGate, SetMailboxSendEnabled
  <2>2. gate' \in [Accounts -> BOOLEAN] /\ parked' \in [Accounts -> BOOLEAN] /\ ~gate'[a]
        /\ \A b \in Accounts \ {a} : UNCHANGED <<gate[b], parked[b], troubled[b]>>
    BY <1>0, <1>2, <2>1
  <2>3. ASSUME ~troubled[a] PROVE StepOK(p, a)'
    <3>1. CloseOK(p, a) /\ pc'[p] = "park"
      BY <1>1, <1>2, <2>1, <2>3 DEF StepOK, Goto
    <3>2. ParkOK(p, a)'
      BY <1>0, <2>1, <2>2, <3>1 DEF CloseOK, ParkOK, Agree
    <3> QED
      BY <3>1, <3>2 DEF StepOK, LiftOK
  <2>4. p \notin Operators
    BY <1>1, <2>1 DEF WorkOK
  <2> QED
    BY <1>0, <1>1, <1>2, <2>1, <2>2, <2>3, <2>4, GoOnKeeps
<1>4. CASE HoldForSender(p)
  <2>1. pc[p] = "park" /\ parked' = [parked EXCEPT ![a] = TRUE] /\ gate' = gate /\ Goto(p, "mark")
    BY <1>1, <1>4 DEF HoldForSender
  <2>2. gate' \in [Accounts -> BOOLEAN] /\ parked' \in [Accounts -> BOOLEAN] /\ parked'[a]
        /\ \A b \in Accounts \ {a} : UNCHANGED <<gate[b], parked[b], troubled[b]>>
    BY <1>0, <1>2, <2>1
  <2>3. ASSUME ~troubled[a] PROVE StepOK(p, a)'
    <3>1. ParkOK(p, a) /\ pc'[p] = "mark"
      BY <1>1, <1>2, <2>1, <2>3 DEF StepOK, Goto
    <3>2. MarkOK(p, a)'
      BY <1>0, <2>1, <2>2, <3>1 DEF ParkOK, MarkOK
    <3> QED
      BY <3>1, <3>2 DEF StepOK, LiftOK
  <2>4. p \notin Operators
    BY <1>1, <2>1 DEF WorkOK
  <2> QED
    BY <1>0, <1>1, <1>2, <2>1, <2>2, <2>3, <2>4, GoOnKeeps
<1>5. CASE OpenGate(p)
  <2>1. pc[p] = "open" /\ gate' = [gate EXCEPT ![a] = TRUE] /\ parked' = parked /\ Goto(p, "unpark")
    BY <1>1, <1>5 DEF OpenGate, SetMailboxSendEnabled
  <2>2. gate' \in [Accounts -> BOOLEAN] /\ parked' \in [Accounts -> BOOLEAN] /\ gate'[a]
        /\ \A b \in Accounts \ {a} : UNCHANGED <<gate[b], parked[b], troubled[b]>>
    BY <1>0, <1>2, <2>1
  <2>3. ASSUME ~troubled[a] PROVE StepOK(p, a)'
    <3>1. OpenOK(p, a) /\ LiftOK(p, a) /\ pc'[p] = "unpark"
      BY <1>1, <1>2, <2>1, <2>3 DEF StepOK, Goto
    <3>2. UnparkOK(p, a)'
      BY <1>0, <2>2, <3>1 DEF OpenOK, UnparkOK
    <3>3. LiftOK(p, a)'
      BY <1>0, <2>1, <3>1 DEF LiftOK, Hold, Suspend
    <3> QED
      BY <3>1, <3>2, <3>3 DEF StepOK
  <2> QED
    BY <1>0, <1>1, <1>2, <2>1, <2>2, <2>3, GoOnKeeps
<1>6. CASE ReleaseForSender(p)
  <2>1. pc[p] = "unpark" /\ parked' = [parked EXCEPT ![a] = FALSE] /\ gate' = gate /\ Goto(p, "settle")
    BY <1>1, <1>6 DEF ReleaseForSender
  <2>2. gate' \in [Accounts -> BOOLEAN] /\ parked' \in [Accounts -> BOOLEAN] /\ ~parked'[a]
        /\ \A b \in Accounts \ {a} : UNCHANGED <<gate[b], parked[b], troubled[b]>>
    BY <1>0, <1>2, <2>1
  <2>3. ASSUME ~troubled[a] PROVE StepOK(p, a)'
    <3>1. UnparkOK(p, a) /\ LiftOK(p, a) /\ pc'[p] = "settle"
      BY <1>1, <1>2, <2>1, <2>3 DEF StepOK, Goto
    <3>2. SettleOK(p, a)'
      BY <1>0, <2>1, <2>2, <3>1 DEF UnparkOK, SettleOK
    <3>3. LiftOK(p, a)'
      BY <1>0, <2>1, <3>1 DEF LiftOK
    <3> QED
      BY <3>1, <3>2, <3>3 DEF StepOK
  <2> QED
    BY <1>0, <1>1, <1>2, <2>1, <2>2, <2>3, GoOnKeeps
<1> QED
  BY <1>3, <1>4, <1>5, <1>6

(* The last write of Apply and of ReleaseManual, to the mark. *)
LEMMA MarksKeep ==
  ASSUME LadderInv, NEW p \in Procs, WriteMark(p) \/ Renew(p)
  PROVE  LadderInv'
<1>0. /\ pc[p] \in {"mark", "settle", "renew"} /\ Done(p)
      /\ UNCHANGED <<gate, parked, signals, active, troubled, faults>>
  BY DEF WriteMark, Renew, world, trouble
<1>1. PICK a \in Accounts : a = acct[p] /\ WorkOK(p) /\ (~troubled[a] => StepOK(p, a))
  BY <1>0, AtWork
<1>2. /\ mark \in [Accounts -> Mark] /\ seen[p] \in Mark /\ goal[p] \in Rungs
      /\ troubled' \in [Accounts -> BOOLEAN] /\ faults' \in Nat
  BY <1>0 DEF LadderInv, TypeOK
<1>3. PICK m \in Mark :
        /\ mark' = [mark EXCEPT ![a] = m]
        /\ pc[p] \in {"mark", "settle"} => m.rung = goal[p]
        /\ pc[p] = "renew" => m = seen[p]
  <2>1. CASE WriteMark(p)
    <3>1. [rung |-> goal[p], aged |-> FALSE] \in Mark
      BY <1>2 DEF Mark
    <3> QED
      BY <1>1, <2>1, <3>1 DEF WriteMark
  <2>2. CASE Renew(p)
    BY <1>1, <1>2, <2>2 DEF Renew
  <2> QED
    BY <2>1, <2>2
<1>4. /\ mark' \in [Accounts -> Mark] /\ mark'[a] = m
      /\ \A b \in Accounts \ {a} : UNCHANGED <<mark[b], troubled[b]>>
  BY <1>0, <1>2, <1>3
<1>5. ASSUME ~troubled[a] PROVE Agree(a)'
  <2>0. StepOK(p, a) /\ goal[p] \in 0..4 /\ m.rung \in 0..4
    BY <1>1, <1>2, <1>5 DEF Mark, Rungs, None, Suspend
  <2>1. CASE pc[p] = "mark"
    BY <1>0, <1>3, <1>4, <2>0, <2>1 DEF StepOK, MarkOK, Agree
  <2>2. CASE pc[p] = "settle"
    <3>1. SettleOK(p, a) /\ m.rung < Hold /\ ~(m.rung >= Hold)
      BY <1>3, <2>0, <2>2 DEF StepOK, SettleOK, Hold
    <3> QED
      BY <1>0, <1>4, <3>1 DEF SettleOK, Agree
  <2>3. CASE pc[p] = "renew"
    BY <1>0, <1>3, <1>4, <2>0, <2>3 DEF StepOK, RenewOK, Agree
  <2> QED
    BY <1>0, <2>1, <2>2, <2>3
<1> QED
  BY <1>0, <1>1, <1>2, <1>4, <1>5, DoneKeeps DEF Done

(* A store fails or the process dies: the account counts as troubled. *)
LEMMA FailuresKeep ==
  ASSUME LadderInv, NEW p \in Procs, StoreError(p) \/ Crash(p)
  PROVE  LadderInv'
<1>0. /\ pc[p] # "idle" /\ Note(acct[p], TRUE) /\ faults' = faults + 1
      /\ UNCHANGED <<mark, gate, parked, signals, active>>
  BY DEF StoreError, Crash, shared, world
<1>1. PICK a \in Accounts : a = acct[p] /\ WorkOK(p)
  BY <1>0, AtWork
<1>2. /\ troubled' \in [Accounts -> BOOLEAN] /\ troubled'[a] /\ faults' \in Nat
      /\ \A b \in Accounts \ {a} : UNCHANGED troubled[b]
      /\ mark' \in [Accounts -> Mark]
      /\ gate' \in [Accounts -> BOOLEAN] /\ parked' \in [Accounts -> BOOLEAN]
  <2>1. /\ troubled \in [Accounts -> BOOLEAN] /\ faults \in Nat /\ mark \in [Accounts -> Mark]
        /\ gate \in [Accounts -> BOOLEAN] /\ parked \in [Accounts -> BOOLEAN]
    BY DEF LadderInv, TypeOK
  <2>2. troubled' = [troubled EXCEPT ![a] = TRUE]
    BY <1>0, <1>1, <2>1 DEF Note
  <2> QED
    BY <1>0, <2>1, <2>2
<1>3. \/ \E step \in {"mark", "settle"} : Goto(p, step) /\ (step = "mark" => pc[p] = "park")
      \/ /\ pc' = [pc EXCEPT ![p] = "idle"] /\ acct' = [acct EXCEPT ![p] = NoAccount]
         /\ goal' = [goal EXCEPT ![p] = None] /\ seen' = [seen EXCEPT ![p] = NoMark]
         /\ todo' = todo \/ todo' = [todo EXCEPT ![p] = {}]
  BY DEF StoreError, Crash, Done
<1>4. ASSUME NEW step \in {"mark", "settle"}, Goto(p, step), step = "mark" => pc[p] = "park"
      PROVE  LadderInv'
  <2>1. p \in Operators => step \in {"unpark", "settle"}
    BY <1>1, <1>4 DEF WorkOK
  <2>2. step \in {"park", "mark", "unpark", "settle"}
    OBVIOUS
  <2>3. \A b \in Accounts \ {a} : UNCHANGED <<gate[b], parked[b], troubled[b]>>
    BY <1>0, <1>2
  <2> QED
    BY <1>0, <1>1, <1>2, <1>4, <2>1, <2>2, <2>3, GoOnKeeps
<1>5. CASE /\ pc' = [pc EXCEPT ![p] = "idle"] /\ acct' = [acct EXCEPT ![p] = NoAccount]
           /\ goal' = [goal EXCEPT ![p] = None] /\ seen' = [seen EXCEPT ![p] = NoMark]
           /\ todo' = todo \/ todo' = [todo EXCEPT ![p] = {}]
  <2>1. \A b \in Accounts \ {a} : UNCHANGED <<mark[b], troubled[b]>>
    BY <1>0, <1>2
  <2> QED
    BY <1>0, <1>1, <1>2, <1>5, <2>1, DoneKeeps
<1> QED
  BY <1>3, <1>4, <1>5

(* Every step keeps the invariant. *)
LEMMA NextInv == LadderInv /\ [Next]_vars => LadderInv'
<1> SUFFICES ASSUME LadderInv, [Next]_vars PROVE LadderInv'
  OBVIOUS
<1>1. ASSUME NEW a \in Accounts,
             \/ Submit(a) \/ AgeOut(a) \/ MinHoldPasses(a) \/ MarkExpires(a)
             \/ \E r \in Verdicts : SignalsMove(a, r)
      PROVE  LadderInv'
  BY <1>1, WorldKeeps
<1>2. ASSUME NEW a \in Accounts, NEW p \in Procs, ReleaseManual(p, a) PROVE LadderInv'
  BY <1>2, ReleaseKeeps
<1>3. ASSUME NEW a \in Accounts, NEW p \in Procs, NEW r \in Rungs,
             Apply(p, a, r) \/ ApplyUnread(p, a, r)
      PROVE  LadderInv'
  BY <1>3, ApplyKeeps
<1>4. ASSUME NEW p \in Procs, Step(p) PROVE LadderInv'
  BY <1>3, <1>4, CollectKeeps, WritesKeep, MarksKeep DEF Step
<1>5. ASSUME NEW p \in Procs, StoreError(p) \/ Crash(p) PROVE LadderInv'
  BY <1>5, FailuresKeep
<1>6. CASE UNCHANGED vars
  <2>1. UNCHANGED <<mark, gate, parked, signals, active, todo, pc, acct, goal, seen, troubled, faults>>
    BY <1>6 DEF vars, shared, world, locals, trouble
  <2>2. TypeOK'
    BY <2>1 DEF LadderInv, TypeOK
  <2>3. \A p \in Procs : WorkOK(p)'
    BY <2>1 DEF LadderInv, WorkOK
  <2>4. \A b \in Accounts : AccountOK(b)'
    BY <2>1, UntouchedAccount DEF LadderInv
  <2> QED
    BY <2>2, <2>3, <2>4 DEF LadderInv
<1> QED
  BY <1>1, <1>2, <1>3, <1>4, <1>5, <1>6 DEF Next

(* The steps that change a mark, and those that open a gate. *)
LEMMA WhoWritesMarks ==
  ASSUME Next, mark' # mark
  PROVE  \/ \E a \in Accounts : MinHoldPasses(a) \/ MarkExpires(a)
         \/ \E p \in Procs : WriteMark(p) \/ Renew(p)
BY DEF Next, Step, Submit, AgeOut, SignalsMove, ReleaseManual, ApplyUnread, Collect, Apply, CloseGate,
       HoldForSender, OpenGate, ReleaseForSender, StoreError, Crash, shared

LEMMA WhoWritesGates ==
  ASSUME Next, gate' # gate
  PROVE  \E p \in Procs : CloseGate(p) \/ OpenGate(p)
BY DEF Next, Step, Submit, AgeOut, SignalsMove, ReleaseManual, ApplyUnread, Collect, Apply,
       HoldForSender, ReleaseForSender, StoreError, Crash, shared, MinHoldPasses, MarkExpires,
       WriteMark, Renew

(* A step that takes an account out of suspend is an operator's. *)
LEMMA SuspendStep ==
  ASSUME LadderInv, Next, NEW a \in Accounts, mark[a].rung = Suspend, mark'[a].rung # Suspend,
         ~troubled[a]
  PROVE  \E p \in Operators : acct[p] = a
<1>0. mark \in [Accounts -> Mark] /\ mark' # mark
  BY DEF LadderInv, TypeOK
<1>1. ASSUME NEW b \in Accounts, MinHoldPasses(b) PROVE FALSE
  BY <1>0, <1>1 DEF MinHoldPasses, Mark, Hold, Suspend
<1>2. ASSUME NEW b \in Accounts, MarkExpires(b) PROVE FALSE
  BY <1>0, <1>2 DEF MarkExpires, Expires, Warn, Throttle, Suspend
<1>3. ASSUME NEW p \in Procs, WriteMark(p) \/ Renew(p) PROVE p \in Operators /\ acct[p] = a
  <2>1. pc[p] \in {"mark", "settle", "renew"} /\ \E m : mark' = [mark EXCEPT ![acct[p]] = m]
    BY <1>3 DEF WriteMark, Renew
  <2>2. acct[p] = a
    BY <1>0, <2>1
  <2>3. StepOK(p, a) /\ goal[p] \in 0..4
    BY <2>1, <2>2, AtWork DEF LadderInv, TypeOK, Rungs, None, Suspend
  <2>4. pc[p] = "renew" => mark'[a] = seen[p]
    BY <1>0, <1>3, <2>2 DEF WriteMark, Renew
  <2>5. pc[p] \notin {"mark", "renew"}
    BY <2>3, <2>4 DEF StepOK, MarkOK, RenewOK, Suspend
  <2> QED
    BY <2>1, <2>2, <2>3, <2>5 DEF StepOK, LiftOK
<1> QED
  BY <1>0, <1>1, <1>2, <1>3, WhoWritesMarks

(* A step that opens the gate of a held account comes after the minimum hold, or
   is an operator's. *)
LEMMA ReleaseStep ==
  ASSUME LadderInv, Next, NEW a \in Accounts, ~gate[a], gate'[a], mark[a].rung >= Hold, ~troubled[a]
  PROVE  mark[a].aged \/ \E p \in Operators : acct[p] = a
<1>0. gate \in [Accounts -> BOOLEAN] /\ gate' # gate
  BY DEF LadderInv, TypeOK
<1>1. PICK p \in Procs : CloseGate(p) \/ OpenGate(p)
  BY <1>0, WhoWritesGates
<1>2. acct[p] = a
  BY <1>0, <1>1 DEF CloseGate, OpenGate, SetMailboxSendEnabled
<1>3. ~CloseGate(p)
  BY <1>0, <1>2 DEF CloseGate, SetMailboxSendEnabled
<1>4. pc[p] = "open"
  BY <1>1, <1>3 DEF OpenGate
<1>5. StepOK(p, a)
  BY <1>2, <1>4, AtWork
<1> QED
  BY <1>2, <1>4, <1>5 DEF StepOK, LiftOK
-----------------------------------------------------------------------------
(* The inductive invariant holds throughout: what Apply and ReleaseManual have
   done to an account between two of their four stores. *)
THEOREM LadderInvariant == Spec => []LadderInv
<1> QED
  BY InitInv, NextInv, PTL DEF Spec

(* The marks, gates, queues and processes keep their types. *)
THEOREM TypeCorrect == Spec => []TypeOK
<1>1. LadderInv => TypeOK
  BY DEF LadderInv
<1> QED
  BY <1>1, LadderInvariant, PTL

(* Whatever sequence of escalations, releases and renewals went over an account,
   its gate and its queue say what its mark says once nobody works on it, unless
   processes overlapped on it or a store failed (escalate, deescalate, release). *)
THEOREM LadderStoresAgree == Spec => []StoresAgree
<1>1. LadderInv => StoresAgree
  BY DEF LadderInv, AccountOK, Agree, StoresAgree
<1> QED
  BY <1>1, LadderInvariant, PTL

(* deescalate never leaves suspend: without an overlap only ReleaseManual does. *)
THEOREM SuspendIsLeftByHand == Spec => SuspendStays
<1>1. LadderInv /\ [Next]_vars =>
        [\A a \in Accounts :
           mark[a].rung = Suspend /\ mark'[a].rung # Suspend /\ ~troubled[a] =>
             \E p \in Operators : acct[p] = a]_vars
  BY SuspendStep
<1> QED
  BY <1>1, LadderInvariant, PTL DEF Spec, SuspendStays

(* deescalate opens no gate before MinHoldDuration has passed since the hold. *)
THEOREM HoldsLast == Spec => NoEarlyRelease
<1>1. LadderInv /\ [Next]_vars =>
        [\A a \in Accounts :
           ~gate[a] /\ gate'[a] /\ mark[a].rung >= Hold /\ ~troubled[a] =>
             mark[a].aged \/ \E p \in Operators : acct[p] = a]_vars
  BY ReleaseStep
<1> QED
  BY <1>1, LadderInvariant, PTL DEF Spec, NoEarlyRelease
=============================================================================
