---------------------------- MODULE MailboxProofs ----------------------------
(* Proofs about Mailbox, for any users, messages, selections, filters and     *)
(* overlapping requests.                                                      *)
EXTENDS Mailbox, TLAPS

(* The messages a request has checked are its user's, and stay so. *)
CheckedAreOwn(q) ==
  q.op \in SingleOps \cup BulkOps =>
    \A m \in q.ids \ q.todo : emails[m] # Absent /\ emails[m].box = q.user

(* The row an opened message was read as has its direction, and its text where
   the row will be written back. *)
RowIsCurrent(q) ==
  q.op = "get" =>
    /\ \E m \in Messages : q.ids = {m}
    /\ \A m \in q.ids \ q.todo :
         /\ q.row # Absent /\ q.row.dir = emails[m].dir
         /\ q.row.dir = "received" => q.row.body = emails[m].body

(* Only star and unstar write more than once, and only after every check. *)
WritesLast(q) ==
  /\ q.wrote \subseteq q.ids /\ q.todo \subseteq q.ids
  /\ q.wrote # {} => q.op \in {"bulkstar", "bulkunstar"} /\ q.todo = {}

(* The argument is the one the operation takes. *)
ArgumentFits(q) ==
  /\ q.op \in {"label", "unlabel"} => q.arg \in Labels
  /\ q.op \in {"move", "bulkmove"} => q.arg \in AllFolders
  /\ q.op \in {"save", "create"} => q.arg \in Drafts

RequestOK(q) == CheckedAreOwn(q) /\ RowIsCurrent(q) /\ WritesLast(q) /\ ArgumentFits(q)

MailInv ==
  /\ TypeOK
  /\ \A r \in Requests : req[r] # Idle => RequestOK(req[r])
  /\ OwnMailOnly /\ NoSaveIsLost /\ ErrorLeavesNoTrace
-----------------------------------------------------------------------------
(* What every statement leaves of a row. *)
Keeps(e, f) == f \in Row /\ f.box = e.box /\ f.dir = e.dir /\ f.body = e.body

(* What every step leaves of the table: a message stays, with its owner and its
   direction, and a received one with its text. *)
Evolves ==
  /\ emails' \in [Messages -> Row \cup {Absent}]
  /\ \A m \in Messages : emails[m] # Absent =>
       /\ emails'[m] # Absent
       /\ emails'[m].box = emails[m].box /\ emails'[m].dir = emails[m].dir
       /\ emails[m].dir = "received" => emails'[m].body = emails[m].body

(* The statements that change no text and no owner. *)
LEMMA StatementsKeep ==
  ASSUME NEW e \in Row
  PROVE  /\ Keeps(e, MarkEmailAsRead(e)) /\ Keeps(e, MarkEmailAsUnread(e))
         /\ Keeps(e, SoftDelete(e)) /\ Keeps(e, BulkArchive(e))
         /\ \A f \in AllFolders : Keeps(e, MoveEmailToFolder(e, f))
<1>1. Keeps(e, MarkEmailAsRead(e)) /\ Keeps(e, MarkEmailAsUnread(e))
  BY DEF Keeps, Row, MarkEmailAsRead, MarkEmailAsUnread
<1>2. Keeps(e, SoftDelete(e))
  BY DEF Keeps, Row, SoftDelete
<1>3. Keeps(e, BulkArchive(e))
  BY DEF Keeps, Row, BulkArchive, AllFolders
<1>4. \A f \in AllFolders : Keeps(e, MoveEmailToFolder(e, f))
  BY DEF Keeps, Row, MoveEmailToFolder
<1> QED
  BY <1>1, <1>2, <1>3, <1>4

(* Labels are a set or NULL, and stay one or the other. *)
LEMMA LabelsKeep ==
  ASSUME NEW e \in Row, NEW l \in Labels
  PROVE  Keeps(e, AddEmailLabel(e, l)) /\ Keeps(e, RemoveEmailLabel(e, l))
<1>1. CASE e.labels = Null
  BY <1>1 DEF Keeps, AddEmailLabel, RemoveEmailLabel
<1>2. CASE e.labels # Null
  <2>1. e.labels \in SUBSET Labels
    BY <1>2 DEF Row
  <2>2. e.labels \cup {l} \in SUBSET Labels /\ e.labels \ {l} \in SUBSET Labels
    BY <2>1
  <2>3. ASSUME NEW L \in SUBSET Labels PROVE Keeps(e, [e EXCEPT !.labels = L])
    BY DEF Keeps, Row
  <2>4. Keeps(e, e)
    BY DEF Keeps
  <2>5. Keeps(e, [e EXCEPT !.labels = e.labels \cup {l}])
        /\ Keeps(e, [e EXCEPT !.labels = e.labels \ {l}])
    BY <2>2, <2>3
  <2> QED
    BY <1>2, <2>4, <2>5 DEF AddEmailLabel, RemoveEmailLabel
<1> QED
  BY <1>1, <1>2

(* The write-back of a row that has the text of the one it overwrites. *)
LEMMA WriteBackKeeps ==
  ASSUME NEW e \in Row, NEW old \in Row, old.body = e.body
  PROVE  Keeps(e, UpdateEmail(e, old))
BY DEF Keeps, Row, UpdateEmail

(* Whatever a step does to the table within these bounds, a request that does
   not take the step is as well off as before. *)
LEMMA OthersKeep ==
  ASSUME Evolves, NEW q \in Request, RequestOK(q)
  PROVE  RequestOK(q)'
<1>1. q.ids \subseteq Messages
  BY DEF Request
<1>2. CheckedAreOwn(q)'
  BY <1>1 DEF RequestOK, CheckedAreOwn, Evolves
<1>3. RowIsCurrent(q)'
  <2>1. q.op = "get" => CheckedAreOwn(q) /\ RowIsCurrent(q) /\ q.op \in SingleOps
    BY DEF RequestOK, SingleOps
  <2> QED
    BY <1>1, <2>1 DEF CheckedAreOwn, RowIsCurrent, Evolves
<1> QED
  BY <1>2, <1>3 DEF RequestOK, WritesLast, ArgumentFits

(* A step that answers request r. *)
LEMMA AnswerKeeps ==
  ASSUME MailInv, Evolves, NEW r \in Requests, req[r] # Idle,
         NEW ok \in BOOLEAN, NEW shown \in SUBSET Messages, NEW wrote \in SUBSET Messages,
         Answer(r, ok, shown, wrote),
         begun' \in 0..MaxRequests, faults' \in 0..MaxFaults,
         saved' \in [Messages -> 0..MaxRequests], NoSaveIsLost',
         ~ok => wrote = {},
         \A m \in shown \cup wrote : emails'[m] # Absent /\ emails'[m].box = req[r].user
  PROVE  MailInv'
<1> DEFINE q == req[r]
<1>0. q \in Request /\ RequestOK(q) /\ req \in [Requests -> Request \cup {Idle}]
  BY DEF MailInv, TypeOK
<1>1. /\ last'.shown = shown /\ last'.wrote = q.wrote \cup wrote /\ last'.ok = ok
      /\ last'.user = q.user /\ last'.op = q.op
      /\ last' \in [user : Users \cup {Null}, op : AllOps \cup {"none", "list"},
                    shown : SUBSET Messages, wrote : SUBSET Messages, ok : BOOLEAN]
  BY <1>0 DEF Answer, Request
<1>2. /\ req' \in [Requests -> Request \cup {Idle}]
      /\ \A s \in Requests : req'[s] # Idle => req'[s] = req[s] /\ req[s] # Idle
  BY <1>0 DEF Answer
<1>3. TypeOK'
  BY <1>1, <1>2 DEF TypeOK, Evolves
<1>4. ASSUME NEW s \in Requests, req'[s] # Idle PROVE RequestOK(req[s])'
  <2>1. req'[s] \in Request /\ RequestOK(req[s]) /\ req'[s] = req[s]
    BY <1>0, <1>2, <1>4 DEF MailInv
  <2>2. PICK x \in Request : x = req[s] /\ x = req'[s]
    BY <2>1
  <2>3. RequestOK(x)'
    BY <2>1, <2>2, OthersKeep
  <2> QED
    BY <2>2, <2>3 DEF RequestOK, CheckedAreOwn, RowIsCurrent, WritesLast, ArgumentFits
<1>5. \A m \in q.wrote : emails'[m] # Absent /\ emails'[m].box = q.user
  <2>1. q.wrote \subseteq Messages
    BY <1>0 DEF Request
  <2>2. q.wrote # {} => CheckedAreOwn(q) /\ q.wrote \subseteq q.ids \ q.todo /\ q.op \in BulkOps
    BY <1>0 DEF RequestOK, WritesLast, BulkOps
  <2> QED
    BY <2>1, <2>2 DEF CheckedAreOwn, Evolves
<1>6. OwnMailOnly'
  BY <1>1, <1>5 DEF OwnMailOnly
<1>7. ErrorLeavesNoTrace'
  BY <1>0, <1>1 DEF ErrorLeavesNoTrace, RequestOK, WritesLast
<1> QED
  BY <1>3, <1>4, <1>6, <1>7 DEF MailInv

-----------------------------------------------------------------------------
(* The table after one UPDATE over some live messages. *)
Rewritten(ids) ==
  /\ emails' = [m \in Messages |-> emails'[m]]
  /\ \A m \in Messages : IF m \in ids THEN Keeps(emails[m], emails'[m]) ELSE emails'[m] = emails[m]

(* The messages a statement matches are rows of the table. *)
LEMMA MatchedAreRows ==
  ASSUME TypeOK, NEW S \in SUBSET Messages
  PROVE  Matched(S) \subseteq S /\ \A m \in Matched(S) : emails[m] \in Row
BY DEF TypeOK, Matched, Live

(* Such an UPDATE changes no owner, no direction and no text. *)
LEMMA RewrittenKeeps ==
  ASSUME MailInv, NEW ids \in SUBSET Messages, Rewritten(ids), \A m \in ids : emails[m] \in Row
  PROVE  Evolves /\ (UNCHANGED saved => NoSaveIsLost')
<1>0. Absent \notin Row /\ emails \in [Messages -> Row \cup {Absent}]
  BY MailboxAssumption DEF MailInv, TypeOK
<1>1. ASSUME NEW m \in Messages
      PROVE  /\ emails'[m] \in Row \cup {Absent} /\ (emails[m] = Absent <=> emails'[m] = Absent)
             /\ emails[m] # Absent => /\ emails'[m].box = emails[m].box
                                      /\ emails'[m].dir = emails[m].dir
                                      /\ emails'[m].body = emails[m].body
  <2>1. CASE m \in ids
    BY <1>0, <2>1 DEF Rewritten, Keeps
  <2>2. CASE m \notin ids
    BY <1>0, <2>2 DEF Rewritten
  <2> QED
    BY <2>1, <2>2
<1>2. Evolves
  BY <1>1 DEF Evolves, Rewritten
<1>3. UNCHANGED saved => NoSaveIsLost'
  BY <1>1 DEF MailInv, NoSaveIsLost
<1> QED
  BY <1>2, <1>3

(* The checks are over and the messages are the user's: one UPDATE over those
   that still match, then the answer. *)
LEMMA UpdateKeeps ==
  ASSUME MailInv, NEW r \in Requests, req[r] # Idle, req[r].op \in SingleOps \cup BulkOps,
         req[r].todo = {},
         NEW ids \in SUBSET Matched(req[r].ids), Rewritten(ids),
         NEW ok \in BOOLEAN, ~ok => ids = {}, NEW shown \in SUBSET req[r].ids,
         Answer(r, ok, shown, ids), UNCHANGED <<begun, faults, saved>>
  PROVE  MailInv'
<1>0. req[r] \in Request /\ req[r].ids \in SUBSET Messages /\ CheckedAreOwn(req[r])
  BY DEF MailInv, TypeOK, Request, RequestOK
<1>1. ids \subseteq req[r].ids /\ \A m \in ids : emails[m] \in Row
  BY <1>0, MatchedAreRows DEF MailInv
<1>2. ids \in SUBSET Messages /\ shown \in SUBSET Messages
  BY <1>0, <1>1
<1>3. Evolves /\ NoSaveIsLost'
  BY <1>1, <1>2, RewrittenKeeps
<1>4. \A m \in shown \cup ids : emails'[m] # Absent /\ emails'[m].box = req[r].user
  BY <1>0, <1>1, <1>3 DEF CheckedAreOwn, Evolves
<1>5. begun' \in 0..MaxRequests /\ faults' \in 0..MaxFaults /\ saved' \in [Messages -> 0..MaxRequests]
  BY DEF MailInv, TypeOK
<1> QED
  BY <1>2, <1>3, <1>4, <1>5, AnswerKeeps

(* Nothing but the answer. *)
LEMMA RefuseKeeps ==
  ASSUME MailInv, NEW r \in Requests, req[r] # Idle, Refuse(r)
  PROVE  MailInv'
<1>1. Evolves
  BY DEF Refuse, Evolves, MailInv, TypeOK
<1>2. NoSaveIsLost'
  BY DEF Refuse, MailInv, NoSaveIsLost
<1>3. begun' \in 0..MaxRequests /\ faults' \in 0..MaxFaults /\ saved' \in [Messages -> 0..MaxRequests]
  BY DEF Refuse, MailInv, TypeOK
<1>4. PICK ok \in BOOLEAN, none \in SUBSET Messages : ok = FALSE /\ none = {}
  OBVIOUS
<1>5. Answer(r, ok, none, none) /\ \A m \in none \cup none : FALSE
  BY <1>4 DEF Refuse
<1>6. ~ok => none = {}
  BY <1>4
<1> QED
  BY <1>1, <1>2, <1>3, <1>5, <1>6, AnswerKeeps

(* A step that only changes request r and nothing of the others. *)
LEMMA RequestKeeps ==
  ASSUME MailInv, UNCHANGED <<emails, faults, last, saved>>, begun' \in 0..MaxRequests,
         NEW r \in Requests, NEW q \in Request, req' = [req EXCEPT ![r] = q], RequestOK(q)
  PROVE  MailInv'
<1>1. /\ req' \in [Requests -> Request \cup {Idle}] /\ req'[r] = q
      /\ \A s \in Requests \ {r} : req'[s] = req[s]
  BY DEF MailInv, TypeOK
<1>2. TypeOK'
  BY <1>1 DEF MailInv, TypeOK
<1>3. ASSUME NEW s \in Requests, req'[s] # Idle PROVE RequestOK(req[s])'
  <2>1. RequestOK(req[s])' <=> RequestOK(req'[s])
    BY DEF RequestOK, CheckedAreOwn, RowIsCurrent, WritesLast, ArgumentFits
  <2> QED
    BY <1>1, <1>3, <2>1 DEF MailInv
<1> QED
  BY <1>2, <1>3 DEF MailInv, OwnMailOnly, NoSaveIsLost, ErrorLeavesNoTrace

(* A message as CreateEmail stores it. *)
LEMMA CreatedIsRow ==
  ASSUME NEW u \in Users, NEW dir \in Directions, NEW n \in 0..MaxRequests,
         NEW mode \in {"none", "client"}
  PROVE  /\ CreateEmail(u, dir, n, mode) \in Row /\ CreateEmail(u, dir, n, mode).box = u
         /\ CreateEmail(u, dir, n, mode).dir = dir /\ CreateEmail(u, dir, n, mode).body = n
<1>1. (CASE dir = "sent" -> "Sent" [] dir = "draft" -> "Drafts" [] OTHER -> "INBOX") \in AllFolders
  BY DEF AllFolders
<1> QED
  BY <1>1 DEF CreateEmail, Row

(* A saved draft keeps its owner and is still a draft. *)
LEMMA DraftIsRow ==
  ASSUME NEW e \in Row, NEW n \in 0..MaxRequests, NEW d, ModeOf(d) \in {"none", "client"}
  PROVE  /\ UpdateDraft(e, n, d) \in Row /\ UpdateDraft(e, n, d).box = e.box
         /\ UpdateDraft(e, n, d).dir = e.dir /\ UpdateDraft(e, n, d).body = n
BY DEF UpdateDraft, Row

(* What is stored at the start. *)
LEMMA InitInv == Init => MailInv
<1> SUFFICES ASSUME Init PROVE MailInv
  OBVIOUS
<1>1. ASSUME NEW m \in Messages
      PROVE  emails[m] \in Row \cup {Absent} /\ (emails[m] # Absent => emails[m].body = 0)
  <2>1. Stored[m] # Absent => Stored[m].box \in Users /\ Stored[m].dir \in Directions
    BY MailboxAssumption
  <2>2. 0 \in 0..MaxRequests
    BY MailboxAssumption
  <2> QED
    BY <2>1, <2>2, CreatedIsRow DEF Init
<1>2. emails \in [Messages -> Row \cup {Absent}] /\ saved \in [Messages -> 0..MaxRequests]
  BY <1>1, MailboxAssumption DEF Init
<1>3. TypeOK
  BY <1>2, MailboxAssumption DEF Init, TypeOK
<1>4. OwnMailOnly /\ NoSaveIsLost /\ ErrorLeavesNoTrace
  BY <1>1 DEF Init, OwnMailOnly, NoSaveIsLost, ErrorLeavesNoTrace
<1> QED
  BY <1>3, <1>4 DEF Init, MailInv

-----------------------------------------------------------------------------
(* The handlers: a request begins with nothing checked and nothing written. *)
LEMMA BeginKeeps ==
  ASSUME MailInv, NEW r \in Requests, NEW op \in AllOps, NEW u \in Users,
         NEW ids \in SUBSET Messages, NEW arg \in {Null, "label"} \cup Folders \cup Drafts,
         Begin(r, op, u, ids, arg),
         op = "get" => \E m \in Messages : ids = {m},
         op \in {"label", "unlabel"} => arg \in Labels,
         op \in {"move", "bulkmove"} => arg \in AllFolders,
         op \in {"save", "create"} => arg \in Drafts
  PROVE  MailInv'
<1> DEFINE n == begun + 1
           q == [op |-> op, user |-> u, ids |-> ids, todo |-> ids, arg |-> arg, n |-> n,
                 row |-> Absent, wrote |-> {}]
<1>1. n \in 1..MaxRequests /\ begun' \in 0..MaxRequests
  BY MailboxAssumption DEF Begin, MailInv, TypeOK
<1>2. req' = [req EXCEPT ![r] = q] /\ UNCHANGED <<emails, faults, last, saved>>
  BY DEF Begin
<1> HIDE DEF n
<1>3. /\ q \in Request /\ q.op = op /\ q.ids = ids /\ q.todo = ids /\ q.wrote = {} /\ q.arg = arg
  BY <1>1 DEF Request
<1> HIDE DEF q
<1>4. RequestOK(q)
  BY <1>3 DEF RequestOK, CheckedAreOwn, RowIsCurrent, WritesLast, ArgumentFits
<1> QED
  BY <1>1, <1>2, <1>3, <1>4, RequestKeeps

(* Every handler hands on the argument its operation takes. *)
LEMMA HandleKeeps ==
  ASSUME MailInv, NEW r \in Requests, Handle(r)
  PROVE  MailInv'
<1>1. PICK u \in Clients :
        \/ \E m \in Messages :
             \/ GetEmailV2(r, u, m) \/ DeleteEmailV2(r, u, m) \/ ArchiveEmailV2(r, u, m)
             \/ MarkReadV2(r, u, m) \/ MarkUnreadV2(r, u, m) \/ ToggleStarV2(r, u, m)
             \/ AddLabelV2(r, u, m) \/ RemoveLabelV2(r, u, m) \/ MoveEmailV2(r, u, m)
             \/ UpdateDraftV2(r, u, m)
        \/ \E ids \in Selections : BulkActionV2(r, u, ids)
        \/ CreateDraftV2(r, u)
  BY DEF Handle
<1>2. u \in Users /\ "label" \in Labels /\ Folders \subseteq AllFolders
  BY MailboxAssumption DEF Labels, AllFolders
<1>3. ASSUME NEW m \in Messages,
             \/ GetEmailV2(r, u, m) \/ DeleteEmailV2(r, u, m) \/ ArchiveEmailV2(r, u, m)
             \/ MarkReadV2(r, u, m) \/ MarkUnreadV2(r, u, m) \/ ToggleStarV2(r, u, m)
      PROVE  MailInv'
  <2>1. PICK op \in AllOps, ids \in SUBSET Messages, arg \in {Null, "label"} \cup Folders \cup Drafts :
          /\ op \in {"get", "delete", "archive", "read", "unread", "star", "unstar"}
          /\ ids = {m} /\ Begin(r, op, u, ids, arg)
    BY <1>3 DEF GetEmailV2, DeleteEmailV2, ArchiveEmailV2, MarkReadV2, MarkUnreadV2,
                ToggleStarV2, AllOps, SingleOps
  <2> QED
    BY <1>2, <2>1, BeginKeeps
<1>4. ASSUME NEW m \in Messages, AddLabelV2(r, u, m) \/ RemoveLabelV2(r, u, m)
      PROVE  MailInv'
  <2>1. PICK op \in AllOps, ids \in SUBSET Messages, arg \in {Null, "label"} \cup Folders \cup Drafts :
          op \in {"label", "unlabel"} /\ arg = "label" /\ Begin(r, op, u, ids, arg)
    BY <1>4 DEF AddLabelV2, RemoveLabelV2, AllOps, SingleOps
  <2> QED
    BY <1>2, <2>1, BeginKeeps
<1>5. ASSUME NEW m \in Messages, MoveEmailV2(r, u, m)
      PROVE  MailInv'
  <2>1. PICK op \in AllOps, ids \in SUBSET Messages, arg \in {Null, "label"} \cup Folders \cup Drafts :
          op = "move" /\ arg \in Folders /\ Begin(r, op, u, ids, arg)
    BY <1>5 DEF MoveEmailV2, AllOps, SingleOps
  <2> QED
    BY <1>2, <2>1, BeginKeeps
<1>6. ASSUME (\E m \in Messages : UpdateDraftV2(r, u, m)) \/ CreateDraftV2(r, u)
      PROVE  MailInv'
  <2>1. PICK op \in AllOps, ids \in SUBSET Messages, arg \in {Null, "label"} \cup Folders \cup Drafts :
          op \in {"save", "create"} /\ arg \in Drafts /\ Begin(r, op, u, ids, arg)
    BY <1>6 DEF UpdateDraftV2, CreateDraftV2, AllOps
  <2> QED
    BY <1>2, <2>1, BeginKeeps
<1>7. ASSUME NEW S \in Selections, BulkActionV2(r, u, S)
      PROVE  MailInv'
  <2>0. S \in SUBSET Messages
    BY MailboxAssumption
  <2>1. PICK op \in AllOps, ids \in SUBSET Messages, arg \in {Null, "label"} \cup Folders \cup Drafts :
          op \in BulkOps /\ (op = "bulkmove" => arg \in Folders) /\ Begin(r, op, u, ids, arg)
    BY <1>7, <2>0 DEF BulkActionV2, AllOps
  <2> QED
    BY <1>2, <2>1, BeginKeeps DEF BulkOps
<1> QED
  BY <1>1, <1>3, <1>4, <1>5, <1>6, <1>7

(* GetEmail by id and the comparison of the owner. *)
LEMMA CheckKeeps ==
  ASSUME MailInv, NEW r \in Requests, CheckOwner(r)
  PROVE  MailInv'
<1> DEFINE q == req[r]
<1>0. q \in Request /\ RequestOK(q) /\ q # Idle /\ q.ids \subseteq Messages
  BY DEF CheckOwner, MailInv, TypeOK, Request
<1>1. PICK m \in q.todo :
        IF Own(r, m)
        THEN /\ req' = [req EXCEPT ![r].todo = @ \ {m}, ![r].row = emails[m]]
             /\ UNCHANGED <<emails, begun, faults, last, saved>>
        ELSE Refuse(r)
  BY DEF CheckOwner
<1>2. CASE ~Own(r, m)
  BY <1>0, <1>1, <1>2, RefuseKeeps
<1>3. CASE Own(r, m)
  <2> DEFINE p == [q EXCEPT !.todo = @ \ {m}, !.row = emails[m]]
  <2>1. /\ m \in Messages /\ emails[m] \in Row /\ emails[m].box = q.user /\ q.wrote = {}
        /\ emails[m] # Absent
    BY <1>0, <1>3 DEF Own, Live, MailInv, TypeOK, Request, RequestOK, WritesLast
  <2>2. req' = [req EXCEPT ![r] = p] /\ UNCHANGED <<emails, begun, faults, last, saved>>
    BY <1>1, <1>3 DEF MailInv, TypeOK
  <2>3. /\ p \in Request /\ p.op = q.op /\ p.ids = q.ids /\ p.todo = q.todo \ {m}
        /\ p.wrote = q.wrote /\ p.arg = q.arg /\ p.row = emails[m] /\ p.user = q.user
    BY <1>0, <2>1 DEF Request
  <2> HIDE DEF p, q
  <2>4. CheckedAreOwn(p)
    BY <1>0, <2>1, <2>3 DEF RequestOK, CheckedAreOwn
  <2>5. RowIsCurrent(p)
    BY <1>0, <1>1, <2>1, <2>3 DEF RequestOK, RowIsCurrent, WritesLast
  <2>6. RequestOK(p)
    BY <1>0, <2>1, <2>3, <2>4, <2>5 DEF RequestOK, WritesLast, ArgumentFits
  <2>7. begun' \in 0..MaxRequests
    BY <2>2 DEF MailInv, TypeOK
  <2> QED
    BY <2>2, <2>3, <2>6, <2>7, RequestKeeps
<1> QED
  BY <1>2, <1>3

(* The actions with one statement, by what the statement leaves of a row. *)
LEMMA ExecuteKeeps ==
  ASSUME MailInv, NEW r \in Requests, NEW op \in SingleOps \cup BulkOps, Checked(r, op),
         NEW must \in BOOLEAN, Rewritten(Matched(req[r].ids)),
         Answer(r, Matched(req[r].ids) # {} \/ ~must, {}, Matched(req[r].ids)),
         UNCHANGED <<begun, faults, saved>>
  PROVE  MailInv'
<1>1. PICK ok \in BOOLEAN, ids \in SUBSET Matched(req[r].ids), none \in SUBSET req[r].ids :
        /\ ok = (Matched(req[r].ids) # {} \/ ~must) /\ ids = Matched(req[r].ids) /\ none = {}
  OBVIOUS
<1>2. Answer(r, ok, none, ids) /\ (~ok => ids = {}) /\ Rewritten(ids)
  BY <1>1
<1>3. req[r] # Idle /\ req[r].op \in SingleOps \cup BulkOps /\ req[r].todo = {}
  BY DEF Checked, At
<1> QED
  BY <1>2, <1>3, UpdateKeeps

(* Every statement over checked messages. *)
LEMMA StatementKeeps ==
  ASSUME MailInv, NEW r \in Requests,
         \/ DeleteEmail(r) \/ ArchiveEmail(r) \/ MarkEmailRead(r) \/ MarkEmailUnread(r)
         \/ ToggleStar(r) \/ AddLabel(r) \/ RemoveLabel(r) \/ MoveEmail(r)
         \/ BulkAction(r) /\ ~BulkStar(r)
  PROVE  MailInv'
<1> DEFINE ids == Matched(req[r].ids)
           Done(op, must) == /\ Checked(r, op) /\ Rewritten(ids)
                             /\ Answer(r, ids # {} \/ ~must, {}, ids)
                             /\ UNCHANGED <<begun, faults, saved>>
<1>0. ASSUME NEW op \in AllOps, Checked(r, op)
      PROVE  /\ req[r].ids \subseteq Messages /\ \A m \in ids : emails[m] \in Row
             /\ op \in {"label", "unlabel"} => req[r].arg \in Labels
             /\ op \in {"move", "bulkmove"} => req[r].arg \in AllFolders
  <2>1. req[r] \in Request /\ RequestOK(req[r]) /\ req[r].op = op
    BY <1>0 DEF MailInv, TypeOK, Checked, At
  <2>2. req[r].ids \in SUBSET Messages
    BY <2>1 DEF Request
  <2> QED
    BY <2>1, <2>2, MatchedAreRows DEF RequestOK, ArgumentFits, MailInv
<1>1. DeleteEmail(r) => Done("delete", TRUE)
  <2> SUFFICES ASSUME DeleteEmail(r) PROVE Done("delete", TRUE)
    OBVIOUS
  <2>1. \A m \in ids : emails[m] \in Row
    BY <1>0 DEF DeleteEmail, AllOps, SingleOps
  <2> QED
    BY <2>1, StatementsKeep DEF DeleteEmail, Execute, Rewritten
<1>2. ArchiveEmail(r) => Done("archive", TRUE)
  <2> SUFFICES ASSUME ArchiveEmail(r) PROVE Done("archive", TRUE)
    OBVIOUS
  <2>1. \A m \in ids : emails[m] \in Row
    BY <1>0 DEF ArchiveEmail, AllOps, SingleOps
  <2>2. "archive" \in AllFolders
    BY DEF AllFolders
  <2> QED
    BY <2>1, <2>2, StatementsKeep DEF ArchiveEmail, Execute, Rewritten
<1>3. MarkEmailRead(r) => Done("read", FALSE)
  <2> SUFFICES ASSUME MarkEmailRead(r) PROVE Done("read", FALSE)
    OBVIOUS
  <2>1. \A m \in ids : emails[m] \in Row
    BY <1>0 DEF MarkEmailRead, AllOps, SingleOps
  <2> QED
    BY <2>1, StatementsKeep DEF MarkEmailRead, Execute, Rewritten
<1>4. MarkEmailUnread(r) => Done("unread", FALSE)
  <2> SUFFICES ASSUME MarkEmailUnread(r) PROVE Done("unread", FALSE)
    OBVIOUS
  <2>1. \A m \in ids : emails[m] \in Row
    BY <1>0 DEF MarkEmailUnread, AllOps, SingleOps
  <2> QED
    BY <2>1, StatementsKeep DEF MarkEmailUnread, Execute, Rewritten
<1>5. ToggleStar(r) => Done("star", FALSE) \/ Done("unstar", FALSE)
  <2> SUFFICES ASSUME ToggleStar(r) PROVE Done("star", FALSE) \/ Done("unstar", FALSE)
    OBVIOUS
  <2>1. \A m \in ids : emails[m] \in Row
    BY <1>0 DEF ToggleStar, AllOps, SingleOps
  <2>2. Starred \in Labels
    BY DEF Labels
  <2> QED
    BY <2>1, <2>2, LabelsKeep DEF ToggleStar, Execute, Rewritten
<1>6. AddLabel(r) => Done("label", FALSE)
  <2> SUFFICES ASSUME AddLabel(r) PROVE Done("label", FALSE)
    OBVIOUS
  <2>1. req[r].arg \in Labels /\ \A m \in ids : emails[m] \in Row
    BY <1>0 DEF AddLabel, AllOps, SingleOps
  <2> QED
    BY <2>1, LabelsKeep DEF AddLabel, Execute, Rewritten
<1>7. RemoveLabel(r) => Done("unlabel", FALSE)
  <2> SUFFICES ASSUME RemoveLabel(r) PROVE Done("unlabel", FALSE)
    OBVIOUS
  <2>1. req[r].arg \in Labels /\ \A m \in ids : emails[m] \in Row
    BY <1>0 DEF RemoveLabel, AllOps, SingleOps
  <2> QED
    BY <2>1, LabelsKeep DEF RemoveLabel, Execute, Rewritten
<1>8. MoveEmail(r) => Done("move", TRUE)
  <2> SUFFICES ASSUME MoveEmail(r) PROVE Done("move", TRUE)
    OBVIOUS
  <2>1. req[r].arg \in AllFolders /\ \A m \in ids : emails[m] \in Row
    BY <1>0 DEF MoveEmail, AllOps, SingleOps
  <2> QED
    BY <2>1, StatementsKeep DEF MoveEmail, Execute, Rewritten
<1>9. BulkAction(r) /\ ~BulkStar(r) => \E op \in BulkOps : Done(op, FALSE)
  <2>1. Checked(r, "bulkread") /\ Execute(r, BulkMarkRead, FALSE) => Done("bulkread", FALSE)
    BY <1>0, StatementsKeep DEF AllOps, BulkOps, Execute, Rewritten, BulkMarkRead
  <2>2. Checked(r, "bulkunread") /\ Execute(r, BulkMarkUnread, FALSE) => Done("bulkunread", FALSE)
    BY <1>0, StatementsKeep DEF AllOps, BulkOps, Execute, Rewritten, BulkMarkUnread
  <2>3. Checked(r, "bulkarchive") /\ Execute(r, BulkArchive, FALSE) => Done("bulkarchive", FALSE)
    BY <1>0, StatementsKeep DEF AllOps, BulkOps, Execute, Rewritten
  <2>4. Checked(r, "bulkdelete") /\ Execute(r, BulkDelete, FALSE) => Done("bulkdelete", FALSE)
    BY <1>0, StatementsKeep DEF AllOps, BulkOps, Execute, Rewritten, BulkDelete
  <2>5. Checked(r, "bulkmove") /\ Execute(r, LAMBDA e : BulkMoveToFolder(e, req[r].arg), FALSE)
        => Done("bulkmove", FALSE)
    BY <1>0, StatementsKeep DEF AllOps, BulkOps, Execute, Rewritten, BulkMoveToFolder, MoveEmailToFolder
  <2> QED
    BY <2>1, <2>2, <2>3, <2>4, <2>5 DEF BulkAction, BulkOps
<1>10. ASSUME NEW op \in SingleOps \cup BulkOps, NEW must \in BOOLEAN, Done(op, must) PROVE MailInv'
  BY <1>10, ExecuteKeeps
<1> HIDE DEF Done
<1> QED
  BY <1>1, <1>2, <1>3, <1>4, <1>5, <1>6, <1>7, <1>8, <1>9, <1>10 DEF SingleOps

(* Star and unstar, one message at a time. *)
LEMMA BulkStarKeeps ==
  ASSUME MailInv, NEW r \in Requests, BulkStar(r)
  PROVE  MailInv'
<1> DEFINE q == req[r]
           Statement(e) == IF q.op = "bulkstar" THEN AddEmailLabel(e, Starred)
                                                ELSE RemoveEmailLabel(e, Starred)
<1>0. /\ q \in Request /\ RequestOK(q) /\ q # Idle /\ q.ids \in SUBSET Messages
      /\ q.op \in {"bulkstar", "bulkunstar"} /\ q.todo = {} /\ UNCHANGED <<begun, faults, saved>>
  BY DEF BulkStar, Checked, At, MailInv, TypeOK, Request
<1>1. PICK m \in q.ids \ q.wrote :
        /\ emails' = [emails EXCEPT ![m] = IF Live(m) THEN Statement(emails[m]) ELSE emails[m]]
        /\ IF q.ids \ q.wrote = {m}
           THEN Answer(r, TRUE, {}, {m})
           ELSE req' = [req EXCEPT ![r].wrote = @ \cup {m}] /\ UNCHANGED last
  BY DEF BulkStar
<1>2. q.op \in BulkOps /\ CheckedAreOwn(q) /\ m \in Messages
  BY <1>0 DEF BulkOps, RequestOK
<1>3. emails[m] \in Row /\ emails[m] # Absent /\ emails[m].box = q.user
  BY <1>0, <1>2 DEF CheckedAreOwn, MailInv, TypeOK
<1>4. Rewritten({m}) /\ {m} \in SUBSET Messages
  <2>1. Keeps(emails[m], Statement(emails[m])) /\ Keeps(emails[m], emails[m])
    BY <1>3, LabelsKeep DEF Labels, Keeps
  <2>2. Keeps(emails[m], IF Live(m) THEN Statement(emails[m]) ELSE emails[m])
    BY <2>1
  <2> HIDE DEF Statement
  <2> QED
    BY <1>1, <1>2, <2>2 DEF Rewritten, MailInv, TypeOK
<1>5. Evolves /\ NoSaveIsLost'
  BY <1>0, <1>3, <1>4, RewrittenKeeps
<1>6. emails'[m] # Absent /\ emails'[m].box = q.user
  BY <1>2, <1>3, <1>5 DEF Evolves
<1>7. begun' \in 0..MaxRequests /\ faults' \in 0..MaxFaults /\ saved' \in [Messages -> 0..MaxRequests]
  BY <1>0 DEF MailInv, TypeOK
<1>8. CASE Answer(r, TRUE, {}, {m})
  <2>1. PICK ok \in BOOLEAN, none \in SUBSET Messages, one \in SUBSET Messages :
          ok = TRUE /\ none = {} /\ one = {m}
    BY <1>2
  <2>2. /\ Answer(r, ok, none, one) /\ (~ok => one = {})
        /\ \A x \in none \cup one : emails'[x] # Absent /\ emails'[x].box = req[r].user
    BY <1>6, <1>8, <2>1
  <2> QED
    BY <1>0, <1>5, <1>7, <2>2, AnswerKeeps
<1>9. CASE req' = [req EXCEPT ![r].wrote = @ \cup {m}] /\ UNCHANGED last
  <2> HIDE DEF Statement
  <2>1. [q EXCEPT !.wrote = @ \cup {m}] \in Request
    BY <1>0, <1>2 DEF Request
  <2>2. PICK p \in Request :
          /\ req' = [req EXCEPT ![r] = p] /\ p.op = q.op /\ p.ids = q.ids /\ p.todo = q.todo
          /\ p.wrote = q.wrote \cup {m} /\ p.arg = q.arg /\ p.user = q.user
    <3>1. PICK p \in Request : p = [q EXCEPT !.wrote = @ \cup {m}]
      BY <2>1
    <3>2. req' = [req EXCEPT ![r] = p]
      BY <1>9, <3>1 DEF MailInv, TypeOK
    <3>3. /\ p.op = q.op /\ p.ids = q.ids /\ p.todo = q.todo
          /\ p.wrote = q.wrote \cup {m} /\ p.arg = q.arg /\ p.user = q.user
      BY <1>0, <3>1 DEF Request
    <3> QED
      BY <3>2, <3>3
  <2> HIDE DEF q
  <2>3. RequestOK(p)
    <3>1. CheckedAreOwn(p)
      BY <1>2, <2>2 DEF CheckedAreOwn
    <3>2. RowIsCurrent(p)
      BY <1>0, <2>2 DEF RowIsCurrent
    <3> QED
      BY <1>0, <1>1, <2>2, <3>1, <3>2 DEF RequestOK, WritesLast, ArgumentFits
  <2>4. RequestOK(p)'
    BY <1>5, <2>3, OthersKeep
  <2>5. /\ req' \in [Requests -> Request \cup {Idle}] /\ req'[r] = p
        /\ \A s \in Requests \ {r} : req'[s] = req[s]
    BY <2>2 DEF MailInv, TypeOK
  <2>6. TypeOK'
    BY <1>5, <1>7, <1>9, <2>5 DEF MailInv, TypeOK, Evolves
  <2>7. ASSUME NEW s \in Requests, req'[s] # Idle PROVE RequestOK(req[s])'
    <3>1. CASE s = r
      BY <2>4, <2>5, <3>1 DEF RequestOK, CheckedAreOwn, RowIsCurrent, WritesLast, ArgumentFits
    <3>2. CASE s # r
      <4>1. PICK x \in Request : x = req[s] /\ x = req'[s] /\ RequestOK(x)
        BY <2>5, <2>7, <3>2 DEF MailInv, TypeOK
      <4>2. RequestOK(x)'
        BY <1>5, <4>1, OthersKeep
      <4> QED
        BY <4>1, <4>2 DEF RequestOK, CheckedAreOwn, RowIsCurrent, WritesLast, ArgumentFits
    <3> QED
      BY <3>1, <3>2
  <2>8. OwnMailOnly'
    <3>1. last.shown \subseteq Messages /\ last.wrote \subseteq Messages
      BY DEF MailInv, TypeOK
    <3> QED
      BY <1>5, <1>9, <3>1 DEF MailInv, OwnMailOnly, Evolves
  <2> QED
    BY <1>5, <1>9, <2>6, <2>7, <2>8 DEF MailInv, ErrorLeavesNoTrace
<1> QED
  BY <1>1, <1>8, <1>9

(* Opening a message: the row that was read is written back only over a received
   message, whose text nothing changes. *)
LEMMA OpenKeeps ==
  ASSUME MailInv, NEW r \in Requests, GetEmail(r)
  PROVE  MailInv'
<1> DEFINE q == req[r]
           ids == IF MarksRead(q.row) THEN Matched(q.ids) ELSE {}
<1>0. /\ q \in Request /\ RequestOK(q) /\ q # Idle /\ q.op = "get" /\ q.todo = {}
      /\ q.ids \in SUBSET Messages /\ UNCHANGED <<begun, faults, saved>>
  BY DEF GetEmail, Checked, At, MailInv, TypeOK, Request
<1>1. /\ emails' = [m \in Messages |-> IF m \in ids THEN UpdateEmail(emails[m], q.row) ELSE emails[m]]
      /\ Answer(r, TRUE, q.ids, ids)
  BY DEF GetEmail
<1>2. ids \subseteq Matched(q.ids) /\ Matched(q.ids) \subseteq q.ids
      /\ \A m \in ids : emails[m] \in Row
  BY <1>0, MatchedAreRows DEF MailInv
<1>3. q.row \in Row
  <2>1. q.row \in Row \cup {Absent}
    BY <1>0 DEF Request
  <2> QED
    BY <1>0, <2>1 DEF RequestOK, RowIsCurrent
<1>4. \A m \in ids : q.row.body = emails[m].body
  BY <1>0, <1>2 DEF RequestOK, RowIsCurrent, MarksRead
<1>5. \A m \in ids : Keeps(emails[m], UpdateEmail(emails[m], q.row))
  BY <1>2, <1>3, <1>4, WriteBackKeeps
<1> HIDE DEF ids
<1>6. Rewritten(ids)
  BY <1>1, <1>5 DEF Rewritten
<1>7. PICK ok \in BOOLEAN, some \in SUBSET Matched(q.ids), shown \in SUBSET q.ids :
        ok = TRUE /\ some = ids /\ shown = q.ids
  BY <1>2
<1>8. Answer(r, ok, shown, some) /\ (~ok => some = {}) /\ Rewritten(some)
  BY <1>1, <1>6, <1>7
<1>9. q.op \in SingleOps \cup BulkOps
  BY <1>0 DEF SingleOps
<1> QED
  BY <1>0, <1>8, <1>9, UpdateKeeps

(* Saving a draft: the text and the record of the last save change together. *)
LEMMA SaveKeeps ==
  ASSUME MailInv, NEW r \in Requests, req[r] # Idle, NEW m \in Messages, NEW e \in Row,
         Save(r, m, e), e.box = req[r].user, e.dir = "draft", e.body = req[r].n,
         emails[m] # Absent => emails[m].box = e.box /\ emails[m].dir = "draft"
  PROVE  MailInv'
<1>0. req[r].n \in 0..MaxRequests
  BY MailboxAssumption DEF MailInv, TypeOK, Request
<1>1. /\ emails' \in [Messages -> Row \cup {Absent}] /\ emails'[m] = e /\ e # Absent
      /\ saved' \in [Messages -> 0..MaxRequests] /\ saved'[m] = e.body
      /\ \A x \in Messages \ {m} : emails'[x] = emails[x] /\ saved'[x] = saved[x]
  BY <1>0, MailboxAssumption DEF Save, MailInv, TypeOK
<1>2. Evolves
  BY <1>1 DEF Evolves
<1>3. NoSaveIsLost'
  BY <1>1 DEF MailInv, NoSaveIsLost
<1>4. begun' \in 0..MaxRequests /\ faults' \in 0..MaxFaults
  BY DEF Save, MailInv, TypeOK
<1>5. PICK ok \in BOOLEAN, none \in SUBSET Messages, one \in SUBSET Messages :
        ok = TRUE /\ none = {} /\ one = {m}
  OBVIOUS
<1>6. /\ Answer(r, ok, none, one) /\ (~ok => one = {})
      /\ \A x \in none \cup one : emails'[x] # Absent /\ emails'[x].box = req[r].user
  BY <1>1, <1>5 DEF Save
<1> QED
  BY <1>1, <1>2, <1>3, <1>4, <1>6, AnswerKeeps

(* SaveDraft overwrites a draft of the user, creates one, or refuses. *)
LEMMA SaveDraftKeeps ==
  ASSUME MailInv, NEW r \in Requests, SaveDraft(r)
  PROVE  MailInv'
<1> DEFINE q == req[r]
<1>0. /\ q # Idle /\ q \in Request /\ q.n \in 0..MaxRequests /\ q.user \in Users
      /\ q.ids \subseteq Messages /\ ModeOf(q.arg) \in {"none", "client"}
  BY MailboxAssumption DEF SaveDraft, At, MailInv, TypeOK, Request, ModeOf
<1>1. CASE Refuse(r)
  BY <1>0, <1>1, RefuseKeeps
<1>2. ASSUME NEW m \in q.ids, DraftOf(r, m), Save(r, m, UpdateDraft(emails[m], q.n, q.arg))
      PROVE  MailInv'
  <2>1. /\ m \in Messages /\ emails[m] \in Row /\ emails[m].box = q.user /\ emails[m].dir = "draft"
    BY <1>0, <1>2 DEF DraftOf, Own, Live, MailInv, TypeOK
  <2>2. PICK e \in Row : /\ e = UpdateDraft(emails[m], q.n, q.arg)
                         /\ e.box = q.user /\ e.dir = "draft" /\ e.body = q.n
    BY <1>0, <2>1, DraftIsRow
  <2> QED
    BY <1>0, <1>2, <2>1, <2>2, SaveKeeps
<1>3. ASSUME NEW m \in Messages, emails[m] = Absent,
             Save(r, m, CreateEmail(q.user, "draft", q.n, ModeOf(q.arg)))
      PROVE  MailInv'
  <2>1. PICK e \in Row : /\ e = CreateEmail(q.user, "draft", q.n, ModeOf(q.arg))
                         /\ e.box = q.user /\ e.dir = "draft" /\ e.body = q.n
    BY <1>0, CreatedIsRow DEF Directions
  <2> QED
    BY <1>0, <1>3, <2>1, SaveKeeps
<1> QED
  BY <1>1, <1>2, <1>3 DEF SaveDraft

(* A failed statement writes nothing more. *)
LEMMA FailureKeeps ==
  ASSUME MailInv, NEW r \in Requests, StatementFails(r)
  PROVE  MailInv'
<1> DEFINE q == req[r]
<1>0. /\ q # Idle /\ q \in Request /\ RequestOK(q) /\ q.ids \in SUBSET Messages
      /\ UNCHANGED <<emails, begun, saved>>
  BY DEF StatementFails, MailInv, TypeOK, Request
<1>1. Evolves /\ NoSaveIsLost'
  BY <1>0 DEF Evolves, MailInv, TypeOK, NoSaveIsLost
<1>2. begun' \in 0..MaxRequests /\ faults' \in 0..MaxFaults /\ saved' \in [Messages -> 0..MaxRequests]
  BY <1>0, MailboxAssumption DEF StatementFails, MailInv, TypeOK
<1>3. PICK ok \in BOOLEAN, shown \in SUBSET Messages, none \in SUBSET Messages :
        /\ ok = Checked(r, "get") /\ shown = (IF Checked(r, "get") THEN q.ids ELSE {}) /\ none = {}
  BY <1>0 DEF Checked
<1>4. Answer(r, ok, shown, none) /\ (~ok => none = {})
  BY <1>3 DEF StatementFails
<1>5. \A m \in shown \cup none : emails'[m] # Absent /\ emails'[m].box = q.user
  <2>1. shown # {} => q.op \in SingleOps /\ q.todo = {} /\ shown = q.ids
    BY <1>3 DEF Checked, At, SingleOps
  <2> QED
    BY <1>0, <1>3, <2>1 DEF RequestOK, CheckedAreOwn
<1> QED
  BY <1>0, <1>1, <1>2, <1>4, <1>5, AnswerKeeps

(* Lists show the user's own messages. *)
LEMMA ListKeeps ==
  ASSUME MailInv, NEW u \in Users, NEW f, ListEmails(u, f)
  PROVE  MailInv'
<1>0. UNCHANGED <<emails, req, begun, faults, saved>>
  BY DEF ListEmails
<1>1. PICK S \in SUBSET Messages : S = {m \in Messages : Matches(m, u, f)}
  OBVIOUS
<1>2. \A m \in S : emails[m] # Absent /\ emails[m].box = u
  BY <1>1 DEF Matches, Live
<1>3. last' = [user |-> u, op |-> "list", wrote |-> {}, ok |-> TRUE, shown |-> S]
  BY <1>1 DEF ListEmails
<1>4. /\ last' \in [user : Users \cup {Null}, op : AllOps \cup {"none", "list"},
                    shown : SUBSET Messages, wrote : SUBSET Messages, ok : BOOLEAN]
      /\ last'.shown = S /\ last'.wrote = {} /\ last'.ok /\ last'.user = u
  BY <1>3
<1>5. TypeOK'
  BY <1>0, <1>4 DEF MailInv, TypeOK
<1>6. ASSUME NEW s \in Requests, req'[s] # Idle PROVE RequestOK(req[s])'
  <2>1. RequestOK(req[s])
    BY <1>0, <1>6 DEF MailInv
  <2> QED
    BY <1>0, <2>1 DEF RequestOK, CheckedAreOwn, RowIsCurrent, WritesLast, ArgumentFits
<1>7. OwnMailOnly' /\ ErrorLeavesNoTrace'
  BY <1>0, <1>2, <1>4 DEF OwnMailOnly, ErrorLeavesNoTrace
<1>8. NoSaveIsLost'
  BY <1>0 DEF MailInv, NoSaveIsLost
<1> QED
  BY <1>5, <1>6, <1>7, <1>8 DEF MailInv

(* Every step keeps the invariant. *)
LEMMA NextInv == MailInv /\ [Next]_vars => MailInv'
<1> SUFFICES ASSUME MailInv, [Next]_vars PROVE MailInv'
  OBVIOUS
<1>1. ASSUME NEW r \in Requests, Handle(r) PROVE MailInv'
  BY <1>1, HandleKeeps
<1>2. ASSUME NEW r \in Requests, Serve(r) PROVE MailInv'
  <2>1. CASE CheckOwner(r)
    BY <2>1, CheckKeeps
  <2>2. CASE GetEmail(r)
    BY <2>2, OpenKeeps
  <2>3. CASE BulkStar(r)
    BY <2>3, BulkStarKeeps
  <2>4. CASE SaveDraft(r)
    BY <2>4, SaveDraftKeeps
  <2>5. CASE \/ DeleteEmail(r) \/ ArchiveEmail(r) \/ MarkEmailRead(r) \/ MarkEmailUnread(r)
             \/ ToggleStar(r) \/ AddLabel(r) \/ RemoveLabel(r) \/ MoveEmail(r)
             \/ BulkAction(r) /\ ~BulkStar(r)
    BY <2>5, StatementKeeps
  <2> QED
    BY <1>2, <2>1, <2>2, <2>3, <2>4, <2>5 DEF Serve
<1>3. ASSUME NEW r \in Requests, StatementFails(r) PROVE MailInv'
  BY <1>3, FailureKeeps
<1>4. ASSUME NEW u \in Clients, ListEmailsV2(u) \/ EmailStatsV2(u) PROVE MailInv'
  <2>1. PICK f : ListEmails(u, f)
    BY <1>4 DEF ListEmailsV2, EmailStatsV2, UnreadInboxCount
  <2>2. u \in Users
    BY MailboxAssumption
  <2> QED
    BY <2>1, <2>2, ListKeeps
<1>5. CASE UNCHANGED vars
  <2>0. UNCHANGED <<emails, req, begun, faults, last, saved>>
    BY <1>5 DEF vars
  <2>1. TypeOK'
    BY <2>0 DEF MailInv, TypeOK
  <2>2. ASSUME NEW s \in Requests, req'[s] # Idle PROVE RequestOK(req[s])'
    <3>1. RequestOK(req[s])
      BY <2>0, <2>2 DEF MailInv
    <3> QED
      BY <2>0, <3>1 DEF RequestOK, CheckedAreOwn, RowIsCurrent, WritesLast, ArgumentFits
  <2> QED
    BY <2>0, <2>1, <2>2 DEF MailInv, OwnMailOnly, NoSaveIsLost, ErrorLeavesNoTrace
<1> QED
  BY <1>1, <1>2, <1>3, <1>4, <1>5 DEF Next

-----------------------------------------------------------------------------
(* The inductive invariant of the mailbox. *)
THEOREM MailInvariant == Spec => []MailInv
BY InitInv, NextInv, PTL DEF Spec

(* Every variable keeps its type. *)
THEOREM TypeCorrect == Spec => []TypeOK
BY MailInvariant, PTL DEF MailInv

(* Whatever a request shows or writes is in its user's mailbox, although the
   owner is checked by one statement and the write is another (GetEmailV2 and the
   handlers like it, BulkActionV2, UpdateDraft). *)
THEOREM MailStaysPrivate == Spec => []OwnMailOnly
BY MailInvariant, PTL DEF MailInv

(* A draft holds the text of its last accepted save: the row GetEmail writes back
   is never a draft's (GetEmail in service.go, UpdateDraft in postgres.go). *)
THEOREM SavesAreKept == Spec => []NoSaveIsLost
BY MailInvariant, PTL DEF MailInv

(* An error means that nothing was written, star and unstar of many excepted. *)
THEOREM ErrorsAreClean == Spec => []ErrorLeavesNoTrace
BY MailInvariant, PTL DEF MailInv

(* No step changes a deleted message: every statement asks for deleted_at IS NULL,
   the write-back of a row read before the deletion included. *)
THEOREM DeletedMailRests == Spec => DeletedStaysDeleted
<1> DEFINE Rests == \A m \in Messages : emails[m] # Absent /\ emails[m].deleted => emails'[m] = emails[m]
<1>1. MailInv /\ [Next]_vars => [Rests]_vars
  <2> SUFFICES ASSUME MailInv, Next, NEW m \in Messages, emails[m] # Absent, emails[m].deleted
               PROVE  emails'[m] = emails[m]
    BY DEF vars
  <2>0. emails \in [Messages -> Row \cup {Absent}] /\ ~Live(m) /\ \A S : m \notin Matched(S)
    BY DEF MailInv, TypeOK, Live, Matched
  <2>1. ASSUME NEW r \in Requests, Handle(r) PROVE emails'[m] = emails[m]
    BY <2>1 DEF Handle, Begin, GetEmailV2, DeleteEmailV2, ArchiveEmailV2, MarkReadV2, MarkUnreadV2,
                ToggleStarV2, AddLabelV2, RemoveLabelV2, MoveEmailV2, BulkActionV2, CreateDraftV2,
                UpdateDraftV2
  <2>2. ASSUME NEW r \in Requests,
               \/ DeleteEmail(r) \/ ArchiveEmail(r) \/ MarkEmailRead(r) \/ MarkEmailUnread(r)
               \/ ToggleStar(r) \/ AddLabel(r) \/ RemoveLabel(r) \/ MoveEmail(r)
               \/ BulkAction(r) /\ ~BulkStar(r)
        PROVE emails'[m] = emails[m]
    <3>1. CASE DeleteEmail(r) \/ ArchiveEmail(r) \/ MarkEmailRead(r) \/ MarkEmailUnread(r)
      BY <2>0, <3>1 DEF DeleteEmail, ArchiveEmail, MarkEmailRead, MarkEmailUnread, Execute
    <3>2. CASE ToggleStar(r) \/ AddLabel(r) \/ RemoveLabel(r) \/ MoveEmail(r)
      BY <2>0, <3>2 DEF ToggleStar, AddLabel, RemoveLabel, MoveEmail, Execute
    <3>3. CASE BulkAction(r) /\ ~BulkStar(r)
      BY <2>0, <3>3 DEF BulkAction, Execute
    <3> QED
      BY <2>2, <3>1, <3>2, <3>3
  <2>3. ASSUME NEW r \in Requests, BulkStar(r) PROVE emails'[m] = emails[m]
    BY <2>0, <2>3 DEF BulkStar
  <2>4. ASSUME NEW r \in Requests, GetEmail(r) PROVE emails'[m] = emails[m]
    BY <2>0, <2>4 DEF GetEmail
  <2>5. ASSUME NEW r \in Requests, CheckOwner(r) PROVE emails'[m] = emails[m]
    BY <2>5 DEF CheckOwner, Refuse
  <2>6. ASSUME NEW r \in Requests, SaveDraft(r) PROVE emails'[m] = emails[m]
    BY <2>0, <2>6 DEF SaveDraft, Save, Refuse, DraftOf, Own
  <2>7. ASSUME NEW r \in Requests, Serve(r) PROVE emails'[m] = emails[m]
    BY <2>2, <2>3, <2>4, <2>5, <2>6, <2>7 DEF Serve
  <2> QED
    BY <2>1, <2>7 DEF Next, StatementFails, ListEmailsV2, EmailStatsV2, UnreadInboxCount, ListEmails
<1>2. Spec => [][Rests]_vars
  BY <1>1, MailInvariant, PTL DEF Spec
<1> QED
  BY <1>2 DEF DeletedStaysDeleted
=============================================================================
