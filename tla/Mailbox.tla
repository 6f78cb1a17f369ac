------------------------------ MODULE Mailbox ------------------------------
(***************************************************************************)
(* The emails table and the requests that read and write it: opening,      *)
(* listing, moving, labelling and deleting mail, one message or many at a  *)
(* time, and saving drafts.  A request checks that the messages it names   *)
(* are its user's with one statement each and acts with another, and the   *)
(* requests of all devices and users interleave between the statements.    *)
(*                                                                         *)
(* Three layers, as in the code: operators on a row are the statements of  *)
(* PostgreSQL, the actions named after Service methods execute them, the   *)
(* actions ending in V2 are the HTTP handlers.  A body is the number of    *)
(* the request that wrote it; headers and addresses are left out.          *)
(***************************************************************************)
EXTENDS Integers, FiniteSets

CONSTANTS
  Users,        \* public keys: a mailbox is the key of its user
  Clients,      \* the users whose devices send requests
  Messages,     \* ids
  Selections,   \* the sets of messages a client selects for a bulk action
  Requests,     \* requests in progress at the same time
  Stored,       \* Init: the messages there are, with owner and direction
  Folders,      \* the folders a client moves mail to
  Filters,      \* the filters a client lists with
  Absent,
  Null,         \* SQL NULL
  Idle,
  MaxRequests,  \* bound: requests begun
  MaxFaults     \* bound: statements that fail

Starred    == "\\Starred"
Labels     == {Starred, "label"}
Directions == {"received", "sent", "draft"}
AllFolders == Folders \cup {"INBOX", "Sent", "Drafts", "archive", "Archive"}
Row == [box : Users, dir : Directions, folder : AllFolders,
        status : {"active", "archived", "deleted"},
        labels : {Null} \cup SUBSET Labels, read : BOOLEAN,
        body : 0..MaxRequests, mode : {"none", "client"}, deleted : BOOLEAN]

SingleOps == {"get", "delete", "archive", "read", "unread", "star", "unstar",
              "label", "unlabel", "move"}
BulkOps   == {"bulkread", "bulkunread", "bulkarchive", "bulkdelete",
              "bulkmove", "bulkstar", "bulkunstar"}

(* What a client submits as a draft: text as written, a client envelope its
   owner holds a key to, or anything else (a server-mode draft, an envelope
   without the owner's key, a body too large), which is refused. *)
Drafts == {"plain", "envelope", "invalid"}

ASSUME MailboxAssumption ==
  /\ IsFiniteSet(Messages)
  /\ Clients \subseteq Users /\ Selections \subseteq (SUBSET Messages) \ {{}}
  /\ Filters \subseteq [folder : AllFolders \cup {Null}, unread : BOOLEAN,
                         starred : BOOLEAN, label : Labels \cup {Null}]
  /\ Stored \in [Messages -> [box : Users, dir : Directions] \cup {Absent}]
  /\ MaxRequests \in Nat /\ MaxFaults \in Nat /\ Absent \notin Row

(* A request: what it was asked for, the messages it has still to check and the
   row it last read, and the messages it has written so far. *)
AllOps  == SingleOps \cup BulkOps \cup {"save", "create"}
Request == [op : AllOps, user : Users, ids : SUBSET Messages, todo : SUBSET Messages,
            arg : {Null, "label"} \cup Folders \cup Drafts, n : 1..MaxRequests,
            row : Row \cup {Absent}, wrote : SUBSET Messages]

VARIABLES
  emails,   \* the table
  req,      \* the requests in progress
  begun,
  faults,
  last,     \* history: what the request answered last showed, wrote and returned
  saved     \* history: the body of the last accepted save of each draft

vars == <<emails, req, begun, faults, last, saved>>

(* CreateEmail: the folder follows the direction, and a nil slice of labels
   is stored as NULL. *)
CreateEmail(u, dir, body, mode) ==
  [box |-> u, dir |-> dir, status |-> "active", labels |-> Null, read |-> FALSE,
   folder |-> CASE dir = "sent" -> "Sent" [] dir = "draft" -> "Drafts" [] OTHER -> "INBOX",
   body |-> body, mode |-> mode, deleted |-> FALSE]

Init ==
  /\ emails = [m \in Messages |-> IF Stored[m] = Absent THEN Absent
                                  ELSE CreateEmail(Stored[m].box, Stored[m].dir, 0, "none")]
  /\ req = [r \in Requests |-> Idle]
  /\ begun = 0 /\ faults = 0
  /\ last = [user |-> Null, op |-> "none", shown |-> {}, wrote |-> {}, ok |-> TRUE]
  /\ saved = [m \in Messages |-> 0]

-----------------------------------------------------------------------------
(* The statements, on one row.  All of them require deleted_at IS NULL. *)
Live(m) == emails[m] # Absent /\ ~emails[m].deleted

MarkEmailAsRead(e)   == [e EXCEPT !.read = TRUE]
MarkEmailAsUnread(e) == [e EXCEPT !.read = FALSE]

(* NOT (labels @> ...) is NULL, not true, when labels is. *)
AddEmailLabel(e, l) ==
  IF e.labels = Null \/ l \in e.labels THEN e ELSE [e EXCEPT !.labels = @ \cup {l}]

RemoveEmailLabel(e, l) == IF e.labels = Null THEN e ELSE [e EXCEPT !.labels = @ \ {l}]

MoveEmailToFolder(e, f) == [e EXCEPT !.folder = f]
SoftDelete(e)           == [e EXCEPT !.deleted = TRUE, !.status = "deleted"]

(* The whole row as the caller last read it, read_at left out. *)
UpdateEmail(e, old) ==
  [e EXCEPT !.body = old.body, !.status = old.status, !.folder = old.folder,
            !.labels = old.labels]

BulkMarkRead(e)        == MarkEmailAsRead(e)
BulkMarkUnread(e)      == MarkEmailAsUnread(e)
BulkMoveToFolder(e, f) == [e EXCEPT !.folder = f]
BulkDelete(e)          == SoftDelete(e)
BulkArchive(e)         == [e EXCEPT !.folder = "Archive", !.status = "archived"]

(* Faulty variant: the write-back of an opened message finds deleted rows. *)
MatchedAny(ids) == {m \in ids : emails[m] # Absent}

Matched(ids) == {m \in ids : Live(m)}

-----------------------------------------------------------------------------
Begin(r, op, u, ids, arg) ==
  /\ req[r] = Idle
  /\ begun < MaxRequests
  /\ begun' = begun + 1
  /\ req' = [req EXCEPT ![r] = [op |-> op, user |-> u, ids |-> ids, todo |-> ids,
                                arg |-> arg, n |-> begun + 1, row |-> Absent, wrote |-> {}]]
  /\ UNCHANGED <<emails, faults, last, saved>>

(* The handlers: the user comes from the session, the id from the path. *)
GetEmailV2(r, u, m)     == Begin(r, "get", u, {m}, Null)
DeleteEmailV2(r, u, m)  == Begin(r, "delete", u, {m}, Null)
ArchiveEmailV2(r, u, m) == Begin(r, "archive", u, {m}, Null)
MarkReadV2(r, u, m)     == Begin(r, "read", u, {m}, Null)
MarkUnreadV2(r, u, m)   == Begin(r, "unread", u, {m}, Null)
ToggleStarV2(r, u, m)   == \E op \in {"star", "unstar"} : Begin(r, op, u, {m}, Null)
AddLabelV2(r, u, m)     == Begin(r, "label", u, {m}, "label")
RemoveLabelV2(r, u, m)  == Begin(r, "unlabel", u, {m}, "label")
MoveEmailV2(r, u, m)    == \E f \in Folders : Begin(r, "move", u, {m}, f)
BulkActionV2(r, u, ids) ==
  \E op \in BulkOps : \E f \in Folders :
    Begin(r, op, u, ids, IF op = "bulkmove" THEN f ELSE Null)
CreateDraftV2(r, u)     == \E d \in Drafts : Begin(r, "create", u, {}, d)
UpdateDraftV2(r, u, m)  == \E d \in Drafts : Begin(r, "save", u, {m}, d)

-----------------------------------------------------------------------------
At(r, op) == req[r] # Idle /\ req[r].op = op

Answer(r, ok, shown, wrote) ==
  /\ req'  = [req EXCEPT ![r] = Idle]
  /\ last' = [user |-> req[r].user, op |-> req[r].op, shown |-> shown,
              wrote |-> req[r].wrote \cup wrote, ok |-> ok]

Refuse(r) == Answer(r, FALSE, {}, {}) /\ UNCHANGED <<emails, begun, faults, saved>>

Own(r, m) == Live(m) /\ emails[m].box = req[r].user

(* GetEmail by id and the comparison of its owner, before anything is written:
   the whole list first, when there are many. *)
CheckOwner(r) ==
  /\ req[r] # Idle /\ req[r].op \in SingleOps \cup BulkOps
  /\ \E m \in req[r].todo :
       IF Own(r, m)
       THEN /\ req' = [req EXCEPT ![r].todo = @ \ {m}, ![r].row = emails[m]]
            /\ UNCHANGED <<emails, begun, faults, last, saved>>
       ELSE Refuse(r)

Checked(r, op) == At(r, op) /\ req[r].todo = {}

(* One UPDATE over the ids.  DeleteEmail and MoveEmailToFolder report that no
   row matched; the others do not look. *)
Execute(r, Statement(_), mustMatch) ==
  LET ids == Matched(req[r].ids) IN
  /\ emails' = [m \in Messages |-> IF m \in ids THEN Statement(emails[m]) ELSE emails[m]]
  /\ Answer(r, ids # {} \/ ~mustMatch, {}, ids)
  /\ UNCHANGED <<begun, faults, saved>>

DeleteEmail(r)     == Checked(r, "delete") /\ Execute(r, SoftDelete, TRUE)
ArchiveEmail(r)    == Checked(r, "archive") /\ Execute(r, LAMBDA e : MoveEmailToFolder(e, "archive"), TRUE)
MarkEmailRead(r)   == Checked(r, "read") /\ Execute(r, MarkEmailAsRead, FALSE)
MarkEmailUnread(r) == Checked(r, "unread") /\ Execute(r, MarkEmailAsUnread, FALSE)
ToggleStar(r) ==
  \/ Checked(r, "star") /\ Execute(r, LAMBDA e : AddEmailLabel(e, Starred), FALSE)
  \/ Checked(r, "unstar") /\ Execute(r, LAMBDA e : RemoveEmailLabel(e, Starred), FALSE)
AddLabel(r)    == Checked(r, "label") /\ Execute(r, LAMBDA e : AddEmailLabel(e, req[r].arg), FALSE)
RemoveLabel(r) == Checked(r, "unlabel") /\ Execute(r, LAMBDA e : RemoveEmailLabel(e, req[r].arg), FALSE)
MoveEmail(r)   == Checked(r, "move") /\ Execute(r, LAMBDA e : MoveEmailToFolder(e, req[r].arg), TRUE)

(* Star and unstar: one UPDATE per message, any of which may fail. *)
BulkStar(r) ==
  /\ Checked(r, "bulkstar") \/ Checked(r, "bulkunstar")
  /\ LET left == req[r].ids \ req[r].wrote
         Statement(e) == IF req[r].op = "bulkstar" THEN AddEmailLabel(e, Starred)
                                                   ELSE RemoveEmailLabel(e, Starred)
     IN \E m \in left :
          /\ emails' = [emails EXCEPT ![m] = IF Live(m) THEN Statement(@) ELSE @]
          /\ IF left = {m}
             THEN Answer(r, TRUE, {}, {m})
             ELSE req' = [req EXCEPT ![r].wrote = @ \cup {m}] /\ UNCHANGED last
  /\ UNCHANGED <<begun, faults, saved>>

(* Faulty variant: each message is written as soon as it was checked. *)
BulkActionEager(r) ==
  \/ /\ At(r, "bulkdelete")
     /\ \E m \in req[r].todo :
          IF Own(r, m)
          THEN /\ emails' = [emails EXCEPT ![m] = BulkDelete(@)]
               /\ IF req[r].todo = {m}
                  THEN Answer(r, TRUE, {}, {m})
                  ELSE /\ req' = [req EXCEPT ![r].todo = @ \ {m}, ![r].wrote = @ \cup {m}]
                       /\ UNCHANGED last
               /\ UNCHANGED <<begun, faults, saved>>
          ELSE Refuse(r)

BulkAction(r) ==
  \/ Checked(r, "bulkread") /\ Execute(r, BulkMarkRead, FALSE)
  \/ Checked(r, "bulkunread") /\ Execute(r, BulkMarkUnread, FALSE)
  \/ Checked(r, "bulkarchive") /\ Execute(r, BulkArchive, FALSE)
  \/ Checked(r, "bulkdelete") /\ Execute(r, BulkDelete, FALSE)
  \/ Checked(r, "bulkmove") /\ Execute(r, LAMBDA e : BulkMoveToFolder(e, req[r].arg), FALSE)
  \/ BulkStar(r)

(* Faulty variant: any unread message is marked, a draft too. *)
MarksReadAny(e) == ~e.read

(* GetEmail marks a received message read the first time it is opened. *)
MarksRead(e) == e.dir = "received" /\ ~e.read

(* Service.GetEmail once the row is read and is the user's: mark it read by
   writing the row back.  An error of UpdateEmail, a row deleted meanwhile
   included, is only logged. *)
GetEmail(r) ==
  /\ Checked(r, "get")
  /\ LET ids == IF MarksRead(req[r].row) THEN Matched(req[r].ids) ELSE {} IN
       /\ emails' = [m \in Messages |-> IF m \in ids THEN UpdateEmail(emails[m], req[r].row)
                                        ELSE emails[m]]
       /\ Answer(r, TRUE, req[r].ids, ids)
  /\ UNCHANGED <<begun, faults, saved>>

-----------------------------------------------------------------------------
(* The base query of ListEmails.  The literal for starred mail is escaped once
   too often and has two backslashes. *)
Matches(m, u, f) ==
  /\ Live(m) /\ emails[m].box = u
  /\ f.folder # Null => emails[m].folder = f.folder
  /\ f.unread => ~emails[m].read
  /\ f.starred => emails[m].labels # Null /\ "\\\\Starred" \in emails[m].labels
  /\ f.label # Null => emails[m].labels # Null /\ f.label \in emails[m].labels

ListEmails(u, f) ==
  /\ last' = [user |-> u, op |-> "list", wrote |-> {}, ok |-> TRUE,
              shown |-> {m \in Messages : Matches(m, u, f)}]
  /\ UNCHANGED <<emails, req, begun, faults, saved>>

ListEmailsV2(u) == \E f \in Filters : ListEmails(u, f)

(* The badge is a list of the unread Inbox. *)
UnreadInboxCount(u) ==
  ListEmails(u, [folder |-> "INBOX", unread |-> TRUE, starred |-> FALSE, label |-> Null])
EmailStatsV2(u) == UnreadInboxCount(u)

Saveable(d) == d # "invalid"
ModeOf(d)   == IF d = "envelope" THEN "client" ELSE "none"

(* Faulty variant: any draft, whoever its owner. *)
DraftOfAnyone(r, m) == Live(m) /\ emails[m].dir = "draft"

(* The WHERE of UpdateDraft. *)
DraftOf(r, m) == Own(r, m) /\ emails[m].dir = "draft"

UpdateDraft(e, n, d) == [e EXCEPT !.body = n, !.mode = ModeOf(d)]

Save(r, m, e) ==
  /\ emails' = [emails EXCEPT ![m] = e]
  /\ saved'  = [saved EXCEPT ![m] = req[r].n]
  /\ Answer(r, TRUE, {}, {m})
  /\ UNCHANGED <<begun, faults>>

(* SaveDraft with an id overwrites, without one it creates. *)
SaveDraft(r) ==
  \/ /\ At(r, "save") /\ Saveable(req[r].arg)
     /\ \E m \in req[r].ids :
          IF DraftOf(r, m) THEN Save(r, m, UpdateDraft(emails[m], req[r].n, req[r].arg)) ELSE Refuse(r)
  \/ /\ At(r, "create") /\ Saveable(req[r].arg)
     /\ \E m \in Messages :
          /\ emails[m] = Absent
          /\ Save(r, m, CreateEmail(req[r].user, "draft", req[r].n, ModeOf(req[r].arg)))
  \/ At(r, "save") /\ ~Saveable(req[r].arg) /\ Refuse(r)
  \/ At(r, "create") /\ ~Saveable(req[r].arg) /\ Refuse(r)

(* Any statement may fail: GetEmail carries on without its mark, the others
   answer with an error. *)
StatementFails(r) ==
  /\ req[r] # Idle
  /\ faults < MaxFaults
  /\ faults' = faults + 1
  /\ LET opened == Checked(r, "get") IN Answer(r, opened, IF opened THEN req[r].ids ELSE {}, {})
  /\ UNCHANGED <<emails, begun, saved>>

Handle(r) ==
  \E u \in Clients :
    \/ \E m \in Messages :
         \/ GetEmailV2(r, u, m) \/ DeleteEmailV2(r, u, m) \/ ArchiveEmailV2(r, u, m)
         \/ MarkReadV2(r, u, m) \/ MarkUnreadV2(r, u, m) \/ ToggleStarV2(r, u, m)
         \/ AddLabelV2(r, u, m) \/ RemoveLabelV2(r, u, m) \/ MoveEmailV2(r, u, m)
         \/ UpdateDraftV2(r, u, m)
    \/ \E ids \in Selections : BulkActionV2(r, u, ids)
    \/ CreateDraftV2(r, u)

Serve(r) ==
  \/ CheckOwner(r) \/ GetEmail(r) \/ DeleteEmail(r) \/ ArchiveEmail(r)
  \/ MarkEmailRead(r) \/ MarkEmailUnread(r) \/ ToggleStar(r) \/ AddLabel(r)
  \/ RemoveLabel(r) \/ MoveEmail(r) \/ BulkAction(r) \/ SaveDraft(r)

Next ==
  \/ \E r \in Requests : Handle(r) \/ Serve(r) \/ StatementFails(r)
  \/ \E u \in Clients : ListEmailsV2(u) \/ EmailStatsV2(u)

Spec == Init /\ [][Next]_vars

-----------------------------------------------------------------------------
TypeOK ==
  /\ emails \in [Messages -> Row \cup {Absent}]
  /\ req \in [Requests -> Request \cup {Idle}]
  /\ begun \in 0..MaxRequests /\ faults \in 0..MaxFaults
  /\ saved \in [Messages -> 0..MaxRequests]
  /\ last \in [user : Users \cup {Null}, op : AllOps \cup {"none", "list"},
               shown : SUBSET Messages, wrote : SUBSET Messages, ok : BOOLEAN]

(* The ownership check and the write are statements of their own, and lists,
   drafts and bulk actions check in other ways: whatever a request shows or
   changes is in its user's mailbox, at the moment of the answer too. *)
OwnMailOnly ==
  \A m \in last.shown \cup last.wrote : emails[m] # Absent /\ emails[m].box = last.user

(* No request, and above all not the row GetEmail read before and writes back
   after, changes or revives a message that was deleted. *)
DeletedStaysDeleted ==
  [][\A m \in Messages : emails[m] # Absent /\ emails[m].deleted => emails'[m] = emails[m]]_vars

(* A draft holds what its last accepted save put there: no other request that
   is under way at the same time (opening it, filing it) writes back an older
   text. *)
NoSaveIsLost ==
  \A m \in Messages : emails[m] # Absent => emails[m].body = saved[m]

(* A request answered with an error left everything as it was, a bulk action
   over somebody else's message included; only star and unstar, which write
   message by message, may stop half way. *)
ErrorLeavesNoTrace ==
  ~last.ok /\ last.op \notin {"bulkstar", "bulkunstar"} => last.wrote = {}
=============================================================================
