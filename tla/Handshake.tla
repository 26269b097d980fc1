------------------------------ MODULE Handshake ------------------------------
(***************************************************************************)
(* Incoming handshakes.  A request is dated and has a nonce of its own; it *)
(* may arrive late, again, and before or after others.  The receiver first *)
(* counts it against the quota of its sender, a sliding window; then looks *)
(* at its age and at the nonces it remembers.                              *)
(* Time is an integer: what the code compares in fractions of a second,    *)
(* the model compares in ticks.                                            *)
(***************************************************************************)
EXTENDS Integers, Sequences, FiniteSetsExt

CONSTANTS
  Request,
  Sender,
  From,           \* From[r]: the sender of r
  MaxMessageAge, ClockSkew, NonceAge, MaxNonces,
  MaxRequests, Window,
  MaxTime         \* bounds the clock

HandshakeAssumption ==
  /\ From \in [Request -> Sender]
  /\ MaxMessageAge \in Nat /\ ClockSkew \in Nat /\ NonceAge \in Nat /\ MaxNonces \in Nat
  /\ MaxRequests \in Nat \ {0} /\ Window \in Nat /\ MaxTime \in Nat
  /\ NonceAge > MaxMessageAge + ClockSkew

VARIABLES
  now,
  stamp,     \* stamp[r]: the date of the request, by its sender's clock
  sent,
  nonces,    \* nonces[r]: when the nonce of r was entered; for those in "table"
  table,     \* the nonces that are remembered
  queue,     \* the order of their entry, for the cleanup
  history,   \* history[s]: the times of the requests of s in the window
  sessions,  \* senders with a session
  \* History:
  accepted,  \* accepted[r]: how often
  admitted   \* admitted[s]: all times when a request passed the quota

vars == <<now, stamp, sent, nonces, table, queue, history, sessions, accepted, admitted>>

Time == 0..MaxTime
Stamp == -ClockSkew..MaxTime + ClockSkew

TypeOK ==
  /\ now \in Time /\ stamp \in [Request -> Stamp] /\ sent \subseteq Request
  /\ nonces \in [Request -> Time] /\ table \subseteq Request
  /\ queue \in Seq([nonce : Request, time : Time])
  /\ table \subseteq {queue[i].nonce : i \in 1..Len(queue)}
  /\ history \in [Sender -> Seq(Time)] /\ admitted \in [Sender -> Seq(Time)]
  /\ sessions \subseteq Sender /\ accepted \in [Request -> Nat]

Init ==
  /\ now = 0 /\ sent = {} /\ stamp = [r \in Request |-> 0]
  /\ nonces = [r \in Request |-> 0] /\ table = {} /\ queue = <<>>
  /\ history = [s \in Sender |-> <<>>] /\ admitted = [s \in Sender |-> <<>>]
  /\ sessions = {} /\ accepted = [r \in Request |-> 0]

-----------------------------------------------------------------------------
(* The parts *)

\* What the window keeps: the loop drops from the front what is older than the cutoff.
Recent(s, cutoff) ==
  SubSeq(s, Min({i \in 1..Len(s) : s[i] >= cutoff} \cup {Len(s) + 1}), Len(s))

Quota(s) == Len(Recent(history[s], now - Window)) < MaxRequests

\* RateLimiter.check, if it passes
Counted(s) ==
  /\ history' = [history EXCEPT ![s] = Append(Recent(@, now - Window), now)]
  /\ admitted' = [admitted EXCEPT ![s] = Append(@, now)]

InTime(r) == now - stamp[r] <= MaxMessageAge /\ stamp[r] <= now + ClockSkew

\* is_nonce_used
Used(r) == r \in table /\ now - nonces[r] < NonceAge

\* Mutant of CleanedUp: the oldest entry goes, whatever its age.
CleanedUpByCount(tab, q) == [table |-> tab \ {q[1].nonce}, queue |-> Tail(q)]

\* _cleanup_old_nonces drops entries from the front, and forgets their nonces, whatever
\* was entered since.
CleanedUp(tab, q) ==
  LET n == Min({i \in 1..Len(q) : q[i].time >= now - NonceAge} \cup {Len(q) + 1})
  IN  [table |-> tab \ {q[i].nonce : i \in 1..n-1}, queue |-> SubSeq(q, n, Len(q))]

\* use_nonce, for a nonce that is not used
Entered(r) ==
  LET tab == table \cup {r}
      q == Append(queue, [nonce |-> r, time |-> now])
      kept == IF Cardinality(tab) > MaxNonces THEN CleanedUp(tab, q)
                                              ELSE [table |-> tab, queue |-> q]
  IN  /\ nonces' = [nonces EXCEPT ![r] = now]
      /\ table' = kept.table /\ queue' = kept.queue

-----------------------------------------------------------------------------
(* The steps *)

Tick ==
  /\ now < MaxTime /\ now' = now + 1
  /\ UNCHANGED <<stamp, sent, nonces, table, queue, history, sessions, accepted, admitted>>

\* The clock of the sender may differ, by more than is allowed for.
Send(r) ==
  /\ r \notin sent /\ sent' = sent \cup {r}
  /\ \E t \in now - ClockSkew - 1 .. now + ClockSkew + 1 :
       t \in Stamp /\ stamp' = [stamp EXCEPT ![r] = t]
  /\ UNCHANGED <<now, nonces, table, queue, history, sessions, accepted, admitted>>

\* handle_incoming_handshake up to the await, by which the request is decided.
Refuse(r) ==
  /\ r \in sent /\ ~Quota(From[r])
  /\ history' = [history EXCEPT ![From[r]] = Recent(@, now - Window)]
  /\ UNCHANGED <<now, stamp, sent, nonces, table, queue, sessions, accepted, admitted>>

RefuseOld(r) ==
  /\ r \in sent /\ Quota(From[r]) /\ Counted(From[r])
  /\ ~InTime(r)
  /\ UNCHANGED <<now, stamp, sent, nonces, table, queue, sessions, accepted>>

RefuseAgain(r) ==
  /\ r \in sent /\ Quota(From[r]) /\ Counted(From[r])
  /\ InTime(r) /\ Used(r)
  /\ UNCHANGED <<now, stamp, sent, nonces, table, queue, sessions, accepted>>

Accept(r) ==
  /\ r \in sent /\ Quota(From[r]) /\ Counted(From[r])
  /\ InTime(r) /\ ~Used(r)
  /\ Entered(r)
  /\ sessions' = sessions \cup {From[r]}
  /\ accepted' = [accepted EXCEPT ![r] = @ + 1]
  /\ UNCHANGED <<now, stamp, sent>>

\* close_session
Close(s) ==
  /\ s \in sessions /\ sessions' = sessions \ {s}
  /\ UNCHANGED <<now, stamp, sent, nonces, table, queue, history, accepted, admitted>>

\* RateLimiter.cleanup_old_entries drops histories whose last entry is older than
\* an hour, which is no shorter than a window.
Forget(s) ==
  /\ history[s] # <<>> /\ history[s][Len(history[s])] < now - Window
  /\ history' = [history EXCEPT ![s] = <<>>]
  /\ UNCHANGED <<now, stamp, sent, nonces, table, queue, sessions, accepted, admitted>>

Next ==
  \/ Tick
  \/ \E r \in Request : Send(r) \/ Refuse(r) \/ RefuseOld(r) \/ RefuseAgain(r) \/ Accept(r)
  \/ \E s \in Sender : Close(s) \/ Forget(s)

Spec == Init /\ [][Next]_vars

-----------------------------------------------------------------------------
(* Properties *)

\* However often and late a request arrives, it makes at most one session: a nonce
\* that was forgotten, or cleaned up, belongs to a request that is too old by then.
AcceptedOnce == \A r \in Request : accepted[r] <= 1

\* In no window of time have more requests of a sender been let through than its quota.
WithinQuota ==
  \A s \in Sender : \A i \in 1..Len(admitted[s]) :
    Cardinality({j \in i..Len(admitted[s]) : admitted[s][j] <= admitted[s][i] + Window}) <= MaxRequests

=============================================================================
