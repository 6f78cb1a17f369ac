------------------------------ MODULE Contacts ------------------------------
(***************************************************************************)
(* The address book.  Adding and deleting a contact are one statement each; *)
(* an update reads the row, applies the fields the request carries and      *)
(* writes all of them back, so that whatever another device does in between *)
(* meets a row that is out of date.  A deleted contact keeps its row, and   *)
(* the unique key on mailbox and address covers it.                         *)
(*                                                                         *)
(* Two of the optional fields stand for the seven there are; a value is the *)
(* number of the request that set it.                                       *)
(***************************************************************************)
EXTENDS Integers, FiniteSets

CONSTANTS
  Users,
  Ids,          \* contact ids
  Addresses,    \* normalised: trimmed and in lower case
  Requests,     \* updates in progress at the same time
  Absent,
  Idle,
  MaxRequests   \* bound: requests that change something

Fields == {"name", "organization"}
Row == [box : Users, email : Addresses, deleted : BOOLEAN, val : [Fields -> 0..MaxRequests]]

Update == [user : Users, id : Ids, fields : SUBSET Fields, n : 1..MaxRequests, old : Row, row : Row]

ASSUME ContactsAssumption ==
  /\ IsFiniteSet(Ids) /\ MaxRequests \in Nat
  /\ Absent \notin Row

VARIABLES
  contacts,  \* the table
  upd,       \* the updates between their SELECT and their UPDATE
  begun,
  answer,    \* history: what the last request got, for which contacts and address
  carried,   \* history: for each row and field, the last accepted request to carry it
  raced      \* history: rows written back although they had changed since they were read

vars == <<contacts, upd, begun, answer, carried, raced>>

Init ==
  /\ contacts = [i \in Ids |-> Absent]
  /\ upd = [r \in Requests |-> Idle]
  /\ begun = 0
  /\ answer = [code |-> "none", user |-> Idle, ids |-> {}, email |-> Idle]
  /\ carried = [i \in Ids |-> [f \in Fields |-> 0]]
  /\ raced = {}

-----------------------------------------------------------------------------
Live(i)    == contacts[i] # Absent /\ ~contacts[i].deleted
Own(u, i)  == Live(i) /\ contacts[i].box = u
Holders(u, a) == {i \in Ids : contacts[i] # Absent /\ contacts[i].box = u /\ contacts[i].email = a}

NewRequest == begun < MaxRequests /\ begun' = begun + 1

Reply(code, u, ids, a) == answer' = [code |-> code, user |-> u, ids |-> ids, email |-> a]
NotFound(u) == Reply("notFound", u, {}, Idle)

(* INSERT ... ON CONFLICT: a new row, or the deleted row of that address
   brought back with the new details, or a conflict with a live one. *)
CreateContact(u, a, F, n) ==
  LET new == [box |-> u, email |-> a, deleted |-> FALSE,
              val |-> [f \in Fields |-> IF f \in F THEN n ELSE 0]] IN
  \/ \E i \in Ids :
       /\ IF Holders(u, a) = {} THEN contacts[i] = Absent
          ELSE i \in Holders(u, a) /\ contacts[i].deleted
       /\ contacts' = [contacts EXCEPT ![i] = new]
       /\ carried' = [carried EXCEPT ![i] = new.val]
       /\ raced' = raced \ {i}
       /\ Reply("created", u, {i}, a)
  \/ /\ \E i \in Holders(u, a) : ~contacts[i].deleted
     /\ Reply("exists", u, {}, a)
     /\ UNCHANGED <<contacts, carried, raced>>

AddContact(u) ==
  /\ NewRequest
  /\ \E a \in Addresses, F \in SUBSET Fields : CreateContact(u, a, F, begun + 1)
  /\ UNCHANGED upd

(* GetContact finds only the user's own live contacts. *)
GetContact(u, i) == IF Own(u, i) THEN contacts[i] ELSE Absent

(* Faulty variant: an absent field is emptied. *)
applyAll(c, a, F, n) ==
  [c EXCEPT !.email = a, !.val = [f \in Fields |-> IF f \in F THEN n ELSE 0]]

(* contactFields.apply: an absent field is left as it was. *)
apply(c, a, F, n) ==
  [c EXCEPT !.email = a, !.val = [f \in Fields |-> IF f \in F THEN n ELSE @[f]]]

(* The first half of the handler: GetContact, then the fields applied to the
   row it returned. *)
UpdateContactRead(r, u, i) ==
  /\ upd[r] = Idle
  /\ NewRequest
  /\ IF GetContact(u, i) = Absent
     THEN NotFound(u) /\ UNCHANGED upd
     ELSE /\ \E F \in SUBSET Fields, a \in Addresses :
               upd' = [upd EXCEPT ![r] = [user |-> u, id |-> i, fields |-> F, n |-> begun + 1,
                                          old |-> GetContact(u, i),
                                          row |-> apply(GetContact(u, i), a, F, begun + 1)]]
          /\ UNCHANGED answer
  /\ UNCHANGED <<contacts, carried, raced>>

(* Faulty variant: the UPDATE finds a deleted row too. *)
TargetAny(u, i) == contacts[i] # Absent /\ contacts[i].box = u

(* The WHERE of UpdateContact. *)
Target(u, i) == Own(u, i)

(* The second half: one UPDATE of the whole row, which the unique key may
   refuse. *)
UpdateContact(r) ==
  /\ upd[r] # Idle
  /\ upd' = [upd EXCEPT ![r] = Idle]
  /\ LET q == upd[r] IN
     IF ~Target(q.user, q.id)
     THEN NotFound(q.user) /\ UNCHANGED <<contacts, carried, raced>>
     ELSE IF Holders(q.user, q.row.email) \ {q.id} # {}
     THEN Reply("exists", q.user, {}, q.row.email) /\ UNCHANGED <<contacts, carried, raced>>
     ELSE /\ contacts' = [contacts EXCEPT ![q.id] = q.row]
          /\ carried' = [carried EXCEPT ![q.id] =
                           [f \in Fields |-> IF f \in q.fields THEN q.n ELSE @[f]]]
          /\ raced' = IF contacts[q.id] = q.old THEN raced ELSE raced \cup {q.id}
          /\ Reply("updated", q.user, {q.id}, q.row.email)
  /\ UNCHANGED begun

DeleteContact(u, i) ==
  /\ NewRequest
  /\ IF Own(u, i)
     THEN contacts' = [contacts EXCEPT ![i].deleted = TRUE] /\ Reply("deleted", u, {i}, Idle)
     ELSE NotFound(u) /\ UNCHANGED contacts
  /\ UNCHANGED <<upd, carried, raced>>

(* The handlers that only read: one contact, the book, or the contacts whose
   name or address a search finds. *)
ShowContact(u, i) ==
  /\ IF GetContact(u, i) = Absent THEN NotFound(u) ELSE Reply("shown", u, {i}, Idle)
  /\ UNCHANGED <<contacts, upd, begun, carried, raced>>

(* Faulty variant: the pattern is matched before the mailbox is. *)
SearchAnywhere(u, a) == {i \in Ids : Live(i) /\ contacts[i].email = a}

SearchContacts(u, a) == {i \in Ids : Own(u, i) /\ contacts[i].email = a}

ListContacts(u) ==
  /\ \/ Reply("listed", u, {i \in Ids : Own(u, i)}, Idle)
     \/ \E a \in Addresses : Reply("listed", u, SearchContacts(u, a), Idle)
  /\ UNCHANGED <<contacts, upd, begun, carried, raced>>

Next ==
  \/ \E u \in Users : AddContact(u) \/ ListContacts(u)
  \/ \E u \in Users, i \in Ids : DeleteContact(u, i) \/ ShowContact(u, i)
  \/ \E r \in Requests : UpdateContact(r) \/ \E u \in Users, i \in Ids : UpdateContactRead(r, u, i)

Spec == Init /\ [][Next]_vars

-----------------------------------------------------------------------------
TypeOK ==
  /\ contacts \in [Ids -> Row \cup {Absent}]
  /\ upd \in [Requests -> Update \cup {Idle}]
  /\ begun \in 0..MaxRequests
  /\ answer \in [code : {"none", "created", "exists", "notFound", "updated", "deleted",
                          "shown", "listed"},
                 user : Users \cup {Idle}, ids : SUBSET Ids, email : Addresses \cup {Idle}]
  /\ carried \in [Ids -> [Fields -> 0..MaxRequests]] /\ raced \subseteq Ids

(* Whatever a request shows, changes or removes is in its user's book. *)
OwnBookOnly == \A i \in answer.ids : contacts[i] # Absent /\ contacts[i].box = answer.user

(* Only its owner adding the address again brings a deleted contact back: an
   update that read the row before it was deleted does not. *)
OnlyAddRevives ==
  [][\A i \in Ids : contacts[i] # Absent /\ contacts[i].deleted /\ contacts'[i] # contacts[i] =>
       /\ answer'.code = "created"
       /\ contacts'[i].box = contacts[i].box /\ contacts'[i].email = contacts[i].email]_vars

(* Each field of a live contact is what the last accepted request that carried
   it put there, through deletes, revivals and refused updates, except where two
   updates of one contact overlapped: the later one then takes the earlier one's
   fields back (UpdateContact in handler.go). *)
FieldsFollowRequests ==
  \A i \in Ids \ raced : Live(i) => contacts[i].val = carried[i]
=============================================================================
