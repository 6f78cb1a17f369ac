--------------------------- MODULE ContactsProofs ---------------------------
(* Proofs about Contacts, for any users, contacts, addresses and overlapping  *)
(* requests.                                                                  *)
EXTENDS Contacts, TLAPS

(* An update under way is its user's own: it read a live contact of the user's
   book, and what it is about to write is that row with its fields applied. *)
UpdatesAreOwn ==
  \A r \in Requests : upd[r] # Idle =>
    /\ upd[r].old.box = upd[r].user /\ upd[r].row.box = upd[r].user
    /\ ~upd[r].old.deleted /\ ~upd[r].row.deleted
    /\ upd[r].row.val = [f \in Fields |-> IF f \in upd[r].fields THEN upd[r].n
                                          ELSE upd[r].old.val[f]]

ContactsInv == TypeOK /\ UpdatesAreOwn /\ OwnBookOnly /\ FieldsFollowRequests
-----------------------------------------------------------------------------
(* contactFields.apply keeps the owner and the row alive, and every field the
   request does not carry. *)
LEMMA ApplyKeeps ==
  ASSUME NEW c \in Row, NEW a \in Addresses, NEW F \in SUBSET Fields, NEW n \in 0..MaxRequests
  PROVE  /\ apply(c, a, F, n) \in Row
         /\ apply(c, a, F, n).box = c.box /\ apply(c, a, F, n).deleted = c.deleted
         /\ apply(c, a, F, n).val = [f \in Fields |-> IF f \in F THEN n ELSE c.val[f]]
<1> DEFINE v == [f \in Fields |-> IF f \in F THEN n ELSE c.val[f]]
<1>1. v \in [Fields -> 0..MaxRequests]
  BY DEF Row
<1>2. apply(c, a, F, n) = [c EXCEPT !.email = a, !.val = v]
  BY DEF apply, Row
<1> HIDE DEF v
<1>3. /\ [c EXCEPT !.email = a, !.val = v] \in Row
      /\ [c EXCEPT !.email = a, !.val = v].box = c.box
      /\ [c EXCEPT !.email = a, !.val = v].deleted = c.deleted
      /\ [c EXCEPT !.email = a, !.val = v].val = v
  BY <1>1 DEF Row
<1> QED
  BY <1>2, <1>3 DEF v

(* The answer of every handler has its type. *)
LEMMA ReplyType ==
  ASSUME NEW code \in {"created", "exists", "notFound", "updated", "deleted", "shown", "listed"},
         NEW u \in Users, NEW ids \in SUBSET Ids, NEW a \in Addresses \cup {Idle},
         Reply(code, u, ids, a)
  PROVE  /\ answer' \in [code : {"none", "created", "exists", "notFound", "updated", "deleted",
                                 "shown", "listed"},
                         user : Users \cup {Idle}, ids : SUBSET Ids, email : Addresses \cup {Idle}]
         /\ answer'.code = code /\ answer'.user = u /\ answer'.ids = ids /\ answer'.email = a
BY DEF Reply

(* The empty book. *)
LEMMA InitInv == Init => ContactsInv
BY ContactsAssumption
   DEF Init, ContactsInv, TypeOK, UpdatesAreOwn, OwnBookOnly, FieldsFollowRequests, Live

(* A request that changes no row keeps what is said of rows and updates; what it
   shows must be its user's. *)
LEMMA ReadersKeep ==
  ASSUME ContactsInv, UNCHANGED <<contacts, upd, carried, raced>>,
         begun' \in 0..MaxRequests,
         NEW code \in {"exists", "notFound", "shown", "listed"},
         NEW u \in Users, NEW ids \in SUBSET Ids, NEW a \in Addresses \cup {Idle},
         Reply(code, u, ids, a), \A i \in ids : Own(u, i)
  PROVE  ContactsInv'
<1>1. TypeOK'
  BY ReplyType DEF ContactsInv, TypeOK
<1>2. OwnBookOnly'
  BY ReplyType DEF OwnBookOnly, Own, Live
<1> QED
  BY <1>1, <1>2 DEF ContactsInv, UpdatesAreOwn, FieldsFollowRequests, Live

(* Adding a contact: the new row is the user's and holds what was sent. *)
LEMMA CreateKeeps ==
  ASSUME ContactsInv, NEW u \in Users, NEW a \in Addresses, NEW F \in SUBSET Fields,
         NEW n \in 0..MaxRequests, CreateContact(u, a, F, n), UNCHANGED upd,
         begun' \in 0..MaxRequests
  PROVE  ContactsInv'
<1> DEFINE val == [f \in Fields |-> IF f \in F THEN n ELSE 0]
           new == [box |-> u, email |-> a, deleted |-> FALSE, val |-> val]
<1>0. /\ val \in [Fields -> 0..MaxRequests] /\ new \in Row /\ new # Absent
      /\ new.box = u /\ new.val = val
  <2>1. val \in [Fields -> 0..MaxRequests]
    BY ContactsAssumption
  <2> HIDE DEF val
  <2>2. new \in Row /\ new.box = u /\ new.val = val
    BY <2>1 DEF Row
  <2> QED
    BY <2>1, <2>2, ContactsAssumption
<1>1. ASSUME NEW i \in Ids, contacts' = [contacts EXCEPT ![i] = new],
             carried' = [carried EXCEPT ![i] = val], raced' = raced \ {i},
             Reply("created", u, {i}, a)
      PROVE  ContactsInv'
  <2> HIDE DEF new, val
  <2>1. TypeOK'
    BY <1>0, <1>1, ReplyType DEF ContactsInv, TypeOK
  <2>2. contacts'[i] = new /\ carried'[i] = val
        /\ \A j \in Ids \ {i} : contacts'[j] = contacts[j] /\ carried'[j] = carried[j]
    BY <1>1 DEF ContactsInv, TypeOK
  <2>3. OwnBookOnly'
    BY <1>0, <1>1, <2>2, ReplyType DEF OwnBookOnly
  <2>4. FieldsFollowRequests'
    BY <1>0, <1>1, <2>2 DEF ContactsInv, FieldsFollowRequests, Live
  <2> QED
    BY <2>1, <2>3, <2>4 DEF ContactsInv, UpdatesAreOwn
<1>2. CASE /\ Reply("exists", u, {}, a)
           /\ UNCHANGED <<contacts, carried, raced>>
  BY <1>2, ReadersKeep
<1> QED
  BY <1>0, <1>1, <1>2 DEF CreateContact

(* The UPDATE of the whole row: the row stays its owner's, and unless it has
   changed since it was read, every field it does not carry is as it was. *)
LEMMA UpdateKeeps ==
  ASSUME ContactsInv, NEW r \in Requests, UpdateContact(r)
  PROVE  ContactsInv'
<1> DEFINE q == upd[r]
<1>0. q \in Update /\ upd' = [upd EXCEPT ![r] = Idle] /\ begun' = begun
  BY DEF UpdateContact, ContactsInv, TypeOK
<1>1. /\ q.user \in Users /\ q.id \in Ids /\ q.row \in Row /\ q.old \in Row
      /\ q.row.email \in Addresses /\ q.n \in 0..MaxRequests
      /\ q.row.val \in [Fields -> 0..MaxRequests]
  BY <1>0, ContactsAssumption DEF Update, Row
<1>2. /\ q.row.box = q.user /\ q.old.box = q.user
      /\ q.row.val = [f \in Fields |-> IF f \in q.fields THEN q.n ELSE q.old.val[f]]
  BY <1>0 DEF UpdateContact, ContactsInv, UpdatesAreOwn
<1>3. /\ upd' \in [Requests -> Update \cup {Idle}]
      /\ \A s \in Requests : upd'[s] # Idle => upd'[s] = upd[s] /\ upd[s] # Idle
  BY <1>0 DEF ContactsInv, TypeOK
<1>4. UpdatesAreOwn'
  BY <1>3 DEF ContactsInv, UpdatesAreOwn
<1>5. ASSUME NEW code \in {"exists", "notFound"}, NEW a \in Addresses \cup {Idle},
             Reply(code, q.user, {}, a), UNCHANGED <<contacts, carried, raced>>
      PROVE  ContactsInv'
  <2> HIDE DEF q
  <2>1. TypeOK' /\ OwnBookOnly'
    BY <1>0, <1>1, <1>3, <1>5, ReplyType DEF ContactsInv, TypeOK, OwnBookOnly
  <2> QED
    BY <1>4, <1>5, <2>1 DEF ContactsInv, FieldsFollowRequests, Live
<1>6. ASSUME Target(q.user, q.id), contacts' = [contacts EXCEPT ![q.id] = q.row],
             carried' = [carried EXCEPT ![q.id] =
                           [f \in Fields |-> IF f \in q.fields THEN q.n ELSE @[f]]],
             raced' = IF contacts[q.id] = q.old THEN raced ELSE raced \cup {q.id},
             Reply("updated", q.user, {q.id}, q.row.email)
      PROVE  ContactsInv'
  <2> HIDE DEF q
  <2>1. /\ contacts'[q.id] = q.row
        /\ carried'[q.id] = [f \in Fields |-> IF f \in q.fields THEN q.n ELSE carried[q.id][f]]
        /\ \A j \in Ids \ {q.id} : contacts'[j] = contacts[j] /\ carried'[j] = carried[j]
    BY <1>1, <1>6 DEF ContactsInv, TypeOK
  <2>2. carried'[q.id] \in [Fields -> 0..MaxRequests]
    BY <1>1, <2>1 DEF ContactsInv, TypeOK
  <2>3. TypeOK'
    <3>1. contacts' \in [Ids -> Row \cup {Absent}]
      BY <1>1, <1>6 DEF ContactsInv, TypeOK
    <3>2. carried' \in [Ids -> [Fields -> 0..MaxRequests]]
      BY <1>1, <1>6, <2>1, <2>2 DEF ContactsInv, TypeOK
    <3>3. raced' \subseteq Ids
      BY <1>1, <1>6 DEF ContactsInv, TypeOK
    <3> QED
      BY <1>0, <1>1, <1>3, <1>6, <3>1, <3>2, <3>3, ReplyType DEF ContactsInv, TypeOK
  <2>4. OwnBookOnly'
    <3>1. answer'.ids = {q.id} /\ answer'.user = q.user
      BY <1>1, <1>6, ReplyType
    <3> QED
      BY <1>1, <1>2, <2>1, <3>1, ContactsAssumption DEF OwnBookOnly
  <2>5. FieldsFollowRequests'
    <3> SUFFICES ASSUME NEW j \in Ids \ raced', Live(j)'
                 PROVE  contacts'[j].val = carried'[j]
      BY DEF FieldsFollowRequests
    <3>1. CASE j # q.id
      BY <1>6, <2>1, <3>1 DEF ContactsInv, FieldsFollowRequests, Live
    <3>2. CASE j = q.id
      <4>1. contacts[q.id] = q.old /\ q.id \notin raced
        BY <1>6, <3>2
      <4>2. contacts[q.id].val = carried[q.id]
        BY <1>1, <1>6, <4>1 DEF ContactsInv, FieldsFollowRequests, Target, Own
      <4> QED
        BY <1>2, <2>1, <3>2, <4>1, <4>2
    <3> QED
      BY <3>1, <3>2
  <2> QED
    BY <1>4, <2>3, <2>4, <2>5 DEF ContactsInv
<1>7. CASE ~Target(q.user, q.id)
  <2>1. Reply("notFound", q.user, {}, Idle) /\ UNCHANGED <<contacts, carried, raced>>
    BY <1>7 DEF UpdateContact, NotFound
  <2> QED
    BY <1>5, <2>1
<1>8. CASE Target(q.user, q.id) /\ Holders(q.user, q.row.email) \ {q.id} # {}
  <2>1. Reply("exists", q.user, {}, q.row.email) /\ UNCHANGED <<contacts, carried, raced>>
    BY <1>8 DEF UpdateContact
  <2> QED
    BY <1>1, <1>5, <2>1
<1>9. CASE Target(q.user, q.id) /\ ~(Holders(q.user, q.row.email) \ {q.id} # {})
  BY <1>6, <1>9 DEF UpdateContact
<1> QED
  BY <1>7, <1>8, <1>9

(* Every handler keeps the invariant. *)
LEMMA NextInv == ContactsInv /\ [Next]_vars => ContactsInv'
<1> SUFFICES ASSUME ContactsInv, [Next]_vars PROVE ContactsInv'
  OBVIOUS
<1>0. begun \in 0..MaxRequests /\ (NewRequest => begun' \in 0..MaxRequests /\ begun + 1 \in 1..MaxRequests)
  BY ContactsAssumption DEF ContactsInv, TypeOK, NewRequest
<1>1. ASSUME NEW u \in Users, AddContact(u) PROVE ContactsInv'
  <2>1. PICK a \in Addresses, F \in SUBSET Fields : CreateContact(u, a, F, begun + 1)
    BY <1>1 DEF AddContact
  <2>2. begun + 1 \in 0..MaxRequests /\ UNCHANGED upd /\ begun' \in 0..MaxRequests
    BY <1>0, <1>1, ContactsAssumption DEF AddContact
  <2> QED
    BY <2>1, <2>2, CreateKeeps
<1>2. ASSUME NEW u \in Users, ListContacts(u) PROVE ContactsInv'
  <2> DEFINE mine == {i \in Ids : Own(u, i)}
  <2>1. CASE Reply("listed", u, mine, Idle)
    BY <1>0, <1>2, <2>1, ReadersKeep DEF ListContacts
  <2>2. ASSUME NEW a \in Addresses, Reply("listed", u, SearchContacts(u, a), Idle)
        PROVE  ContactsInv'
    BY <1>0, <1>2, <2>2, ReadersKeep DEF ListContacts, SearchContacts
  <2> QED
    BY <1>2, <2>1, <2>2 DEF ListContacts
<1>3. ASSUME NEW u \in Users, NEW i \in Ids, DeleteContact(u, i) PROVE ContactsInv'
  <2>1. CASE Own(u, i)
    <3>0. /\ contacts' = [contacts EXCEPT ![i].deleted = TRUE] /\ Reply("deleted", u, {i}, Idle)
          /\ UNCHANGED <<upd, carried, raced>> /\ begun' \in 0..MaxRequests
      BY <1>0, <1>3, <2>1 DEF DeleteContact
    <3>1. contacts[i] \in Row /\ contacts[i].box = u
      BY <2>1 DEF Own, Live, ContactsInv, TypeOK
    <3>2. /\ contacts' \in [Ids -> Row \cup {Absent}]
          /\ contacts'[i] \in Row /\ contacts'[i].box = u /\ contacts'[i].deleted
          /\ \A j \in Ids \ {i} : contacts'[j] = contacts[j]
      BY <3>0, <3>1 DEF ContactsInv, TypeOK, Row
    <3>3. TypeOK'
      BY <3>0, <3>2, ReplyType DEF ContactsInv, TypeOK
    <3>4. OwnBookOnly'
      <4>1. answer'.ids = {i} /\ answer'.user = u
        BY <3>0, ReplyType
      <4> QED
        BY <3>2, <4>1, ContactsAssumption DEF OwnBookOnly
    <3>5. FieldsFollowRequests'
      BY <3>0, <3>2 DEF ContactsInv, FieldsFollowRequests, Live
    <3> QED
      BY <3>0, <3>3, <3>4, <3>5 DEF ContactsInv, UpdatesAreOwn
  <2>2. CASE ~Own(u, i)
    BY <1>0, <1>3, <2>2, ReadersKeep DEF DeleteContact, NotFound
  <2> QED
    BY <2>1, <2>2
<1>4. ASSUME NEW u \in Users, NEW i \in Ids, ShowContact(u, i) PROVE ContactsInv'
  <2>1. CASE GetContact(u, i) = Absent
    BY <1>0, <1>4, <2>1, ReadersKeep DEF ShowContact, NotFound
  <2>2. CASE GetContact(u, i) # Absent
    BY <1>0, <1>4, <2>2, ReadersKeep DEF ShowContact, GetContact
  <2> QED
    BY <2>1, <2>2
<1>5. ASSUME NEW r \in Requests, NEW u \in Users, NEW i \in Ids, UpdateContactRead(r, u, i)
      PROVE ContactsInv'
  <2>1. CASE GetContact(u, i) = Absent
    BY <1>0, <1>5, <2>1, ReadersKeep DEF UpdateContactRead, NotFound
  <2>2. CASE GetContact(u, i) # Absent
    <3> DEFINE c == contacts[i]
    <3>1. GetContact(u, i) = c /\ Own(u, i) /\ c \in Row /\ c.box = u /\ ~c.deleted
      BY <2>2 DEF GetContact, Own, Live, ContactsInv, TypeOK
    <3>2. PICK F \in SUBSET Fields, a \in Addresses :
            upd' = [upd EXCEPT ![r] = [user |-> u, id |-> i, fields |-> F, n |-> begun + 1,
                                       old |-> c, row |-> apply(c, a, F, begun + 1)]]
      BY <1>5, <2>2, <3>1 DEF UpdateContactRead
    <3> DEFINE n == begun + 1
               row == apply(c, a, F, n)
               q == [user |-> u, id |-> i, fields |-> F, n |-> n, old |-> c, row |-> row]
    <3>3. n \in 1..MaxRequests /\ n \in 0..MaxRequests /\ begun' \in 0..MaxRequests
      BY <1>0, <1>5, ContactsAssumption DEF UpdateContactRead
    <3> HIDE DEF n
    <3>4. /\ row \in Row /\ row.box = u /\ ~row.deleted
          /\ row.val = [f \in Fields |-> IF f \in F THEN n ELSE c.val[f]]
      BY <3>1, <3>3, ApplyKeeps
    <3> HIDE DEF row, c
    <3>5. q \in Update /\ q.old = c /\ q.row = row /\ q.user = u /\ q.fields = F /\ q.n = n
      BY <3>1, <3>3, <3>4 DEF Update
    <3>6. upd' = [upd EXCEPT ![r] = q] /\ UNCHANGED <<contacts, carried, raced, answer>>
      BY <1>5, <2>2, <3>2 DEF UpdateContactRead, n, row, c
    <3> HIDE DEF q
    <3>7. TypeOK'
      BY <3>3, <3>5, <3>6 DEF ContactsInv, TypeOK
    <3>8. upd'[r] = q /\ \A s \in Requests \ {r} : upd'[s] = upd[s]
      BY <3>6 DEF ContactsInv, TypeOK
    <3>9. UpdatesAreOwn'
      BY <3>1, <3>4, <3>5, <3>8 DEF ContactsInv, UpdatesAreOwn
    <3> QED
      BY <3>6, <3>7, <3>9 DEF ContactsInv, OwnBookOnly, FieldsFollowRequests, Live
  <2> QED
    BY <2>1, <2>2
<1>6. ASSUME NEW r \in Requests, UpdateContact(r) PROVE ContactsInv'
  BY <1>6, UpdateKeeps
<1>7. CASE UNCHANGED vars
  BY <1>7 DEF vars, ContactsInv, TypeOK, UpdatesAreOwn, OwnBookOnly, FieldsFollowRequests, Live
<1> QED
  BY <1>1, <1>2, <1>3, <1>4, <1>5, <1>6, <1>7 DEF Next

(* The inductive invariant of the address book. *)
THEOREM ContactsInvariant == Spec => []ContactsInv
BY InitInv, NextInv, PTL DEF Spec

(* Every variable keeps its type. *)
THEOREM TypeCorrect == Spec => []TypeOK
BY ContactsInvariant, PTL DEF ContactsInv

(* What a request shows, changes or removes is in its user's book (the WHERE
   clauses of the contact statements in postgres.go). *)
THEOREM BooksStayApart == Spec => []OwnBookOnly
BY ContactsInvariant, PTL DEF ContactsInv

(* Fields hold what the last accepted request that carried them said, unless an
   update wrote back a row that had changed since it was read (UpdateContact in
   handler.go). *)
THEOREM FieldsAreFollowed == Spec => []FieldsFollowRequests
BY ContactsInvariant, PTL DEF ContactsInv

(* A deleted contact changes only when its owner adds the address again: neither
   an update that read it alive nor another delete touches it (CreateContact,
   UpdateContact, DeleteContact in postgres.go). *)
THEOREM DeletedContactsRest == Spec => OnlyAddRevives
<1> DEFINE Revived(i) == /\ answer'.code = "created"
                         /\ contacts'[i].box = contacts[i].box /\ contacts'[i].email = contacts[i].email
           Rests == \A i \in Ids : contacts[i] # Absent /\ contacts[i].deleted
                                   /\ contacts'[i] # contacts[i] => Revived(i)
<1>1. ContactsInv /\ [Next]_vars => [Rests]_vars
  <2> SUFFICES ASSUME ContactsInv, Next, NEW i \in Ids, contacts[i] # Absent, contacts[i].deleted,
                      contacts'[i] # contacts[i]
               PROVE  Revived(i)
    BY DEF vars
  <2>0. contacts \in [Ids -> Row \cup {Absent}] /\ ~Live(i)
    BY DEF ContactsInv, TypeOK, Live
  <2>1. ASSUME NEW u \in Users, NEW a \in Addresses, NEW F \in SUBSET Fields, NEW n,
               CreateContact(u, a, F, n)
        PROVE  Revived(i)
    <3> DEFINE new == [box |-> u, email |-> a, deleted |-> FALSE,
                       val |-> [f \in Fields |-> IF f \in F THEN n ELSE 0]]
    <3>1. PICK j \in Ids : /\ IF Holders(u, a) = {} THEN contacts[j] = Absent
                              ELSE j \in Holders(u, a) /\ contacts[j].deleted
                           /\ contacts' = [contacts EXCEPT ![j] = new]
                           /\ Reply("created", u, {j}, a)
      BY <2>1 DEF CreateContact
    <3>2. j = i /\ contacts'[i] = new
      BY <2>0, <3>1
    <3>3. i \in Holders(u, a)
      BY <3>1, <3>2
    <3> QED
      BY <3>1, <3>2, <3>3 DEF Holders, Reply
  <2>2. ASSUME NEW r \in Requests, UpdateContact(r) PROVE FALSE
    <3>1. contacts' = [contacts EXCEPT ![upd[r].id] = upd[r].row] /\ Own(upd[r].user, upd[r].id)
      BY <2>2 DEF UpdateContact, Target
    <3> QED
      BY <2>0, <3>1 DEF Own
  <2>3. ASSUME NEW u \in Users, NEW j \in Ids, DeleteContact(u, j) PROVE FALSE
    BY <2>0, <2>3 DEF DeleteContact, Own
  <2>4. ASSUME NEW u \in Users, AddContact(u) PROVE Revived(i)
    BY <2>1, <2>4 DEF AddContact
  <2> QED
    BY <2>2, <2>3, <2>4 DEF Next, ListContacts, ShowContact, UpdateContactRead
<1>2. Spec => [][Rests]_vars
  BY <1>1, ContactsInvariant, PTL DEF Spec
<1> QED
  BY <1>2 DEF OnlyAddRevives
=============================================================================
