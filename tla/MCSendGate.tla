----------------------------- MODULE MCSendGate -----------------------------
(* Small instances of SendGate: an account that pays and is new, and one that
   is anonymous. *)
EXTENDS SendGate, TLC

CONSTANTS paid1, anon1, q1, q2

MCAccounts  == {paid1, anon1}
MCAnonymous == {anon1}
MCElevated  == {paid1}
MCRequests  == {q1, q2}

(* msghour and msgday differ from msgmin in their period only and are off. *)
MCMax == [w \in Names |->
            CASE w = "msgmin" -> 2 [] w = "recipday" -> 4 [] w = "domreciphour" -> 2
              [] w = "newrecipday" -> 2 [] OTHER -> 0]
MCThrottledMax == [w \in AccountWindows |-> IF w = "recipday" THEN 2 ELSE 1]
MCPeriod == [w \in Names |-> CASE w \in {"msgmin", "dommsgmin"} -> 1 [] OTHER -> 2]

RequestSymmetry == Permutations(Requests)
=============================================================================
