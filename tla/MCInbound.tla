----------------------------- MODULE MCInbound -----------------------------
(* A small instance of InboundServer: alice also receives with a tag, and a *)
(* batch pairs an ordinary message with one of the other kinds.            *)
EXTENDS InboundServer, TLC

CONSTANTS s1, s2

Interchangeable == Permutations({s1, s2})

MCOwner == [a \in Addresses |-> IF a = "bob" THEN "bob" ELSE "alice"]
MCBase  == [a \in Addresses |-> IF a = "alice+tag" THEN "alice" ELSE a]

(* Both accounts write to carol. *)
Sent == <<[sender |-> "alice", id |-> "x1", rcpts |-> {"carol"}, fate |-> "none"],
          [sender |-> "bob",   id |-> "x2", rcpts |-> {"carol"}, fate |-> "550 unknown user"]>>

Plain == [kind |-> "mail", from |-> "address", to |-> <<"alice", "bob">>, mid |-> None,
          inReplyTo |-> None, root |-> None, returned |-> None, failed |-> None, about |-> 0,
          diag |-> "none", large |-> FALSE, attached |-> FALSE, spf |-> "pass", dkim |-> "none"]

Report == [Plain EXCEPT !.from = "null", !.to = <<"alice">>, !.kind = "dsn", !.failed = "carol",
                        !.diag = "550 unknown user", !.about = 1]

MCMail ==
  [news  |-> [Plain EXCEPT !.mid = "n1", !.to = <<"alice", "alice+tag", "bob">>, !.attached = TRUE],
   note  |-> Plain,
   twin  |-> [Plain EXCEPT !.mid = "n1", !.to = <<"alice">>],
   dsn   |-> [Report EXCEPT !.returned = "x1"],
   bare  |-> Report,
   arf   |-> [Report EXCEPT !.kind = "arf", !.from = "address", !.returned = "x1"],
   reply |-> [Plain EXCEPT !.kind = "odd subject", !.inReplyTo = "x2", !.to = <<"bob">>],
   away  |-> [Report EXCEPT !.kind = "mail", !.root = "x2", !.failed = None],
   big   |-> [Plain EXCEPT !.large = TRUE, !.spf = "fail"],
   junk  |-> [Plain EXCEPT !.kind = "unreadable", !.to = <<"alice", "elsewhere">>],
   lie   |-> [Plain EXCEPT !.dkim = "fail", !.to = <<"alice">>],
   bad   |-> [Plain EXCEPT !.from = "invalid"]]

MCBatches ==
  [mails : {{"news", "twin"}, {"note", "lie"}, {"note", "away"}, {"big", "junk"}, {"bad", "dsn"}},
   outbox : {<<>>}]
    \cup [mails : {{"dsn"}, {"bare"}, {"arf"}, {"reply"}}, outbox : {Sent}]
=============================================================================
