------------------------------ MODULE RateLimits ------------------------------
(***************************************************************************)
(* The limits of a network node (NetworkRateLimiter): messages of each     *)
(* Qube in a sliding window, Qubes that are blocked for a time, and how    *)
(* many connections are open.  A limiter is made when its Qube first sends *)
(* and removed by a cleanup; asking whether a connection is allowed and    *)
(* registering it are two calls.                                           *)
(***************************************************************************)
EXTENDS Integers, Sequences, FiniteSetsExt

CONSTANTS
  Qube, Connection,
  NoBlock,
  MaxRequests, Window,  \* of the messages; handshakes and announcements likewise
  MaxConnections, BlockTime,
  MaxTime               \* bounds the clock

RateLimitsAssumption ==
  /\ MaxRequests \in Nat \ {0} /\ Window \in Nat /\ MaxConnections \in Nat \ {0}
  /\ BlockTime \in Nat \ {0} /\ MaxTime \in Nat /\ NoBlock \notin Nat

VARIABLES
  now,
  limiters,   \* Qubes with a limiter
  requests,   \* requests[q]: the times in it
  blocklist,  \* blocklist[q]: the end of the block
  active,     \* active[q]: the open connections of q
  connection, \* connection[c]: "new", "allowed", "open" or "closed"
  \* History:
  allowed,    \* allowed[q]: the times of all messages let through
  crowded     \* two connections were allowed and not registered at a time

vars == <<now, limiters, requests, blocklist, active, connection, allowed, crowded>>

Time == 0..MaxTime

TypeOK ==
  /\ now \in Time /\ limiters \subseteq Qube
  /\ requests \in [Qube -> Seq(Time)] /\ allowed \in [Qube -> Seq(Time)]
  /\ blocklist \in [Qube -> Nat \cup {NoBlock}]
  /\ active \in [Qube -> Nat]
  /\ connection \in [Connection -> [qube : Qube, state : {"new", "allowed", "open", "closed"}]]
  /\ crowded \in BOOLEAN

Init ==
  /\ now = 0 /\ limiters = {} /\ requests = [q \in Qube |-> <<>>]
  /\ blocklist = [q \in Qube |-> NoBlock] /\ active = [q \in Qube |-> 0]
  /\ connection \in [Connection -> [qube : Qube, state : {"new"}]]
  /\ allowed = [q \in Qube |-> <<>>] /\ crowded = FALSE

In(state) == {c \in Connection : connection[c].state = state}
Moved(c, state) == connection' = [connection EXCEPT ![c].state = state]

\* The sum of all active_connections, as the number of pairs they stand for.
Open == Cardinality(UNION {{q} \X (1..active[q]) : q \in Qube})

Blocked(q) == blocklist[q] # NoBlock /\ now < blocklist[q]

\* _is_blocked forgets a block that is over.
Looked(q) == blocklist' = [blocklist EXCEPT ![q] = IF Blocked(q) THEN @ ELSE NoBlock]

\* What is in the window: the loop drops from the front what is older.
Recent(s) ==
  SubSeq(s, Min({i \in 1..Len(s) : s[i] >= now - Window} \cup {Len(s) + 1}), Len(s))

-----------------------------------------------------------------------------
Tick ==
  /\ now < MaxTime /\ now' = now + 1
  /\ UNCHANGED <<limiters, requests, blocklist, active, connection, allowed, crowded>>

\* allow_message: of a blocked Qube ...
MessageBlocked(q) ==
  /\ Blocked(q)
  /\ UNCHANGED vars

\* ... and of another one, with a new limiter if it has none.
Message(q) ==
  LET recent == IF q \in limiters THEN Recent(requests[q]) ELSE <<>>
      under == Len(recent) < MaxRequests
  IN  /\ ~Blocked(q) /\ Looked(q)
      /\ limiters' = limiters \cup {q}
      /\ requests' = [requests EXCEPT ![q] = IF under THEN Append(recent, now) ELSE recent]
      /\ allowed' = [allowed EXCEPT ![q] = IF under THEN Append(@, now) ELSE @]
      /\ UNCHANGED <<now, active, connection, crowded>>

\* Mutant of Expired: a limiter that is full is removed as well.
ExpiredFull(q) == q \in limiters /\ Len(Recent(requests[q])) \in {0, MaxRequests}

Expired(q) == q \in limiters /\ Recent(requests[q]) = <<>>

\* cleanup_expired_limiters, which drops old requests of all.
Cleanup ==
  /\ limiters # {}
  /\ limiters' = {q \in limiters : ~Expired(q)}
  /\ requests' = [q \in Qube |-> IF q \in limiters' THEN Recent(requests[q]) ELSE <<>>]
  /\ UNCHANGED <<now, blocklist, active, connection, allowed, crowded>>

Block(q) ==
  /\ blocklist' = [blocklist EXCEPT ![q] = now + BlockTime]
  /\ UNCHANGED <<now, limiters, requests, active, connection, allowed, crowded>>

Unblock(q) ==
  /\ blocklist[q] # NoBlock
  /\ blocklist' = [blocklist EXCEPT ![q] = NoBlock]
  /\ UNCHANGED <<now, limiters, requests, active, connection, allowed, crowded>>

AllowConnection(c) ==
  LET q == connection[c].qube IN
  /\ c \in In("new") /\ ~Blocked(q) /\ Looked(q)
  /\ Open < MaxConnections
  /\ Moved(c, "allowed") /\ crowded' = (crowded \/ In("allowed") # {})
  /\ UNCHANGED <<now, limiters, requests, active, allowed>>

Register(c) ==
  /\ c \in In("allowed") /\ Moved(c, "open")
  /\ active' = [active EXCEPT ![connection[c].qube] = @ + 1]
  /\ UNCHANGED <<now, limiters, requests, blocklist, allowed, crowded>>

\* Mutant of Unregister: also of a connection that was not registered.
UnregisterAny(c) ==
  /\ c \in In("open") \cup In("allowed") /\ Moved(c, "closed")
  /\ active' = [active EXCEPT ![connection[c].qube] = @ - 1]
  /\ UNCHANGED <<now, limiters, requests, blocklist, allowed, crowded>>

Unregister(c) ==
  /\ c \in In("open") /\ Moved(c, "closed")
  /\ active' = [active EXCEPT ![connection[c].qube] = @ - 1]
  /\ UNCHANGED <<now, limiters, requests, blocklist, allowed, crowded>>

Next ==
  \/ Tick \/ Cleanup
  \/ \E q \in Qube : MessageBlocked(q) \/ Message(q) \/ Block(q) \/ Unblock(q)
  \/ \E c \in Connection : AllowConnection(c) \/ Register(c) \/ Unregister(c)

Spec == Init /\ [][Next]_vars

-----------------------------------------------------------------------------
(* Properties *)

\* No window of time has more messages of a Qube than the limit, although its
\* limiter may be removed and made anew, and the Qube blocked and unblocked.
WithinRate ==
  \A q \in Qube : \A i \in 1..Len(allowed[q]) :
    Cardinality({j \in i..Len(allowed[q]) : allowed[q][j] <= allowed[q][i] + Window}) <= MaxRequests

\* The counts are those of the open connections, whichever are opened and closed in
\* between, and within the limit if connections are registered before the next is asked for.
ConnectionsCounted ==
  /\ \A q \in Qube : active[q] = Cardinality({c \in In("open") : connection[c].qube = q})
  /\ ~crowded => Open <= MaxConnections

=============================================================================
