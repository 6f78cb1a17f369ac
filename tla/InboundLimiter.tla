--------------------------- MODULE InboundLimiter ---------------------------
(***************************************************************************)
(* The per-address limiter of the inbound SMTP server: two tables of       *)
(* entries that count connections and messages in windows of a minute,     *)
(* block an address that exceeds its limit, and a sweeper that removes old *)
(* entries.  Time is counted in ticks, of which a minute has as many as     *)
(* Minute says: a window starts at any tick.                               *)
(***************************************************************************)
EXTENDS Integers, FiniteSets, Sequences

CONSTANTS
  Hosts,
  WhitelistedIPs,
  ConnectionsPerMinute,
  MessagesPerMinute,
  Minute,          \* the length of a window, in ticks
  BlockDuration,
  CleanupInterval,
  Absent,
  MaxTime          \* bound: ticks modelled

Entries == [count : Nat, window : Nat, blocked : BOOLEAN, blockedAt : Nat]

ASSUME LimiterAssumption ==
  /\ WhitelistedIPs \subseteq Hosts
  /\ {ConnectionsPerMinute, MessagesPerMinute, Minute, BlockDuration, CleanupInterval} \subseteq Nat \ {0}
  /\ BlockDuration >= Minute
  /\ MaxTime \in Nat
  /\ Absent \notin Entries

Tables == {"connections", "messages"}
Limit(t) == IF t = "connections" THEN ConnectionsPerMinute ELSE MessagesPerMinute

VARIABLES
  now,
  entry,     \* the two maps
  swept,     \* when the sweeper ran last
  passes,    \* history: when each host was let through, and when the window it was counted in began
  retryAt    \* history: the time each host was last told to come back at

limiterVars == <<now, entry, swept, passes, retryAt>>

LimiterInit ==
  /\ now = 0 /\ swept = 0
  /\ entry = [t \in Tables |-> [h \in Hosts |-> Absent]]
  /\ passes = [t \in Tables |-> [h \in Hosts |-> <<>>]]
  /\ retryAt = [t \in Tables |-> [h \in Hosts |-> 0]]

-----------------------------------------------------------------------------
getOrCreateEntry(t, h) ==
  IF entry[t][h] # Absent THEN entry[t][h]
  ELSE [count |-> 0, window |-> now, blocked |-> FALSE, blockedAt |-> 0]

Fresh(e) == [e EXCEPT !.count = 0, !.window = now, !.blocked = FALSE]

(* The end of a block and the end of a window both start a new count. *)
Rolled(e) == IF e.blocked \/ now - e.window > Minute THEN Fresh(e) ELSE e

Blocking(e) == e.blocked /\ now - e.blockedAt < BlockDuration

Refuse(t, h, e) ==
  /\ entry' = [entry EXCEPT ![t][h] = e]
  /\ retryAt' = [retryAt EXCEPT ![t][h] = e.blockedAt + BlockDuration]
  /\ UNCHANGED passes

Pass(t, h, e) ==
  /\ entry' = [entry EXCEPT ![t][h] = e]
  /\ passes' = [passes EXCEPT ![t][h] = Append(@, [at |-> now, window |-> e.window])]
  /\ UNCHANGED retryAt

(* What AllowConnection and AllowMessage have in common. *)
Allow(t, h) ==
  /\ h \notin WhitelistedIPs
  /\ LET e == getOrCreateEntry(t, h)
         c == [Rolled(e) EXCEPT !.count = @ + 1]
     IN CASE Blocking(e)                       -> Refuse(t, h, e)
          [] ~Blocking(e) /\ c.count > Limit(t) -> Refuse(t, h, [c EXCEPT !.blocked = TRUE, !.blockedAt = now])
          [] OTHER                             -> Pass(t, h, c)
  /\ UNCHANGED <<now, swept>>

AllowConnection(h) == Allow("connections", h)

(* A message with too many recipients is refused before it is counted, which
   changes nothing. *)
AllowMessage(h) == Allow("messages", h)

(* Faulty variant: an entry is old once the sweeper has come round. *)
ExpiredSoon(e) == e.window < now - CleanupInterval

Expired(e) == e.window < now - 2 * BlockDuration /\ ~e.blocked

cleanup ==
  /\ now - swept >= CleanupInterval
  /\ swept' = now
  /\ entry' = [t \in Tables |-> [h \in Hosts |->
                 IF entry[t][h] # Absent /\ Expired(entry[t][h]) THEN Absent ELSE entry[t][h]]]
  /\ UNCHANGED <<now, passes, retryAt>>

Tick ==
  /\ now < MaxTime
  /\ now' = now + 1
  /\ UNCHANGED <<entry, swept, passes, retryAt>>

LimiterNext ==
  \/ \E h \in Hosts : AllowConnection(h) \/ AllowMessage(h)
  \/ cleanup \/ Tick

LimiterSpec == LimiterInit /\ [][LimiterNext]_limiterVars

-----------------------------------------------------------------------------
(* A host is let through neither before the time it was told to come back at,
   the sweeper notwithstanding, nor twice its limit in less than a minute.  A
   window begins with the host's own traffic, so that the end of one window and
   the start of the next may fall into the same minute, where one short of twice
   the limit pass; three windows never do (AllowConnection, AllowMessage,
   cleanup). *)
LimitsHold ==
  [][\A t \in Tables, h \in Hosts : passes'[t][h] # passes[t][h] =>
       LET p == passes'[t][h]
           first == Len(p) - 2 * Limit(t) + 1
       IN /\ now >= retryAt[t][h]
          /\ first >= 1 => now - p[first].at >= Minute]_limiterVars
=============================================================================
