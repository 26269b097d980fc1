---------------------------- MODULE Conversation ----------------------------
(***************************************************************************)
(* A conversation of several Qubes with the user, in the sidecar: commands *)
(* of the GUI are tasks of one event loop on one conversation object.  A   *)
(* task gives way to the others while it awaits the language model, while  *)
(* a block is signed for all participants, and between its end and the     *)
(* task that prepares the next turn.                                       *)
(*                                                                         *)
(* A message is the turn number of its block; 0 is the opening prompt.     *)
(* The clock ticks between any two messages: no two of them have the same  *)
(* timestamp, and blocks are ordered by their turn numbers.  Sessions stay *)
(* below the threshold of automatic anchoring.                             *)
(***************************************************************************)
EXTENDS Naturals, FiniteSets, Sequences

CONSTANTS
  Qube,          \* participants
  Order,         \* the participants in the order of the list qubes
  User,          \* the sender of prompts and interjections
  Nobody,        \* no speaker
  MaxMessages,   \* bound: messages after the opening prompt
  MaxPrior       \* bound: blocks a participant has in its session before

ConversationAssumption ==
  /\ IsFiniteSet(Qube) /\ Qube # {} /\ {User, Nobody} \cap Qube = {} /\ User # Nobody
  /\ Order \in [1 .. Cardinality(Qube) -> Qube] /\ \A q \in Qube : \E i \in DOMAIN Order : Order[i] = q
  /\ MaxMessages \in Nat /\ MaxPrior \in Nat

VARIABLES
  mode,        \* conversation_mode
  phase,       \* whether it is before its start, open or ended
  turnNumber,  \* turn_number
  author,      \* author[m]: who sent message m
  prior,       \* prior[q]: blocks in the session of q that are not of this conversation
  heard,       \* heard[q]: messages in the session of q
  history,     \* conversation_history
  last,        \* last_speaker_id
  index,       \* current_speaker_index
  prepared,    \* _next_speaker_prepared
  due,         \* the task that prepares the next turn waits to run
  busy,        \* _processing_turn
  turns,       \* turns in progress
  injections,  \* interjections that await their signatures
  turnCount,   \* turn_counts
  \* History:
  crossed,     \* responses removed while they awaited their signatures
  skipped      \* a speaker was chosen and did not get to speak

talk == <<turnNumber, author, heard, history>>
choice == <<last, index, prepared, due, turnCount>>
vars == <<mode, phase, turnNumber, author, prior, heard, history, last, index, prepared,
          due, busy, turns, injections, turnCount, crossed, skipped>>

Message == 0 .. MaxMessages
NotSent == MaxMessages + 1
\* A turn: its speaker, and its response.
Turn == [q : Qube, m : Message \cup {NotSent}]

TypeOK ==
  /\ mode \in {"open_discussion", "round_robin"} /\ phase \in {"new", "open", "ended"}
  /\ turnNumber \in Message /\ author \in [Message -> Qube \cup {User, Nobody}]
  /\ prior \in [Qube -> 0 .. MaxPrior] /\ heard \in [Qube -> SUBSET Message]
  /\ history \in Seq(Message) /\ last \in Qube \cup {Nobody}
  /\ index \in DOMAIN Order /\ prepared \in Qube \cup {Nobody}
  /\ due \in BOOLEAN /\ busy \in BOOLEAN /\ turns \subseteq Turn
  /\ injections \subseteq Message /\ turnCount \in [Qube -> 0 .. MaxMessages]
  /\ crossed \subseteq Message /\ skipped \in BOOLEAN

Sent == {history[i] : i \in DOMAIN history}

\* The GUI knows the conversation: it gets the identifier with the first response.
Known == phase = "open" /\ last # Nobody

-----------------------------------------------------------------------------
(* Choosing a speaker *)

Init ==
  /\ mode \in {"open_discussion", "round_robin"} /\ phase = "new"
  /\ turnNumber = 0 /\ author = [m \in Message |-> IF m = 0 THEN User ELSE Nobody]
  /\ prior \in [Qube -> 0 .. MaxPrior] /\ heard = [q \in Qube |-> {}]
  /\ history = <<>> /\ last = Nobody /\ index = 1
  /\ prepared = Nobody /\ due = FALSE /\ busy = FALSE /\ turns = {} /\ injections = {}
  /\ turnCount = [q \in Qube |-> 0]
  /\ crossed = {} /\ skipped = FALSE

\* Mutant of Determined: the index does not wrap around.
DeterminedUnwrapped(q) ==
  IF mode = "round_robin"
  THEN q = Order[index] /\ index' = index + 1
  ELSE q \in (IF Qube = {last} THEN Qube ELSE Qube \ {last}) /\ index' = index

\* _determine_next_speaker.  In an open discussion a mention can select anybody
\* but the last speaker; otherwise it is one who has spoken least.
Determined(q) ==
  IF mode = "round_robin"
  THEN q = Order[index] /\ index' = (index % Len(Order)) + 1
  ELSE q \in (IF Qube = {last} THEN Qube ELSE Qube \ {last}) /\ index' = index

\* The beginning of a turn of q, up to the call of the model: a prepared speaker
\* is taken unless it was the last one, and is forgotten in any case.
BeginTurn(q) ==
  /\ busy' = TRUE /\ prepared' = Nobody
  /\ turns' = turns \cup {[q |-> q, m |-> NotSent]}
  /\ \/ prepared \notin {Nobody, last} /\ q = prepared /\ UNCHANGED <<index, skipped>>
     \/ /\ prepared \in {Nobody, last} /\ Determined(q)
        /\ skipped' = (skipped \/ prepared # Nobody)

\* _prepare_next_turn, the task in the background.
Prepare(q) ==
  /\ due /\ due' = FALSE
  /\ Determined(q) /\ prepared' = q
  /\ skipped' = (skipped \/ prepared # Nobody)
  /\ UNCHANGED <<mode, phase, talk, prior, last, busy, turns, injections, turnCount, crossed>>

-----------------------------------------------------------------------------
(* Turns *)

\* The opening prompt is in the sessions and in the history; the first turn begins.
StartConversation(q) ==
  /\ phase = "new" /\ phase' = "open"
  /\ heard' = [p \in Qube |-> {0}] /\ history' = <<0>>
  /\ BeginTurn(q)
  /\ UNCHANGED <<mode, turnNumber, author, prior, last, due, injections, turnCount, crossed>>

\* Mutant of ContinueConversation: a turn in progress is not looked at.
ContinueAnyway(q) ==
  /\ Known
  /\ BeginTurn(q)
  /\ UNCHANGED <<mode, phase, talk, prior, last, due, injections, turnCount, crossed>>

\* continue_conversation, unless a turn is in progress.
ContinueConversation(q) ==
  /\ Known /\ ~busy
  /\ BeginTurn(q)
  /\ UNCHANGED <<mode, phase, talk, prior, last, due, injections, turnCount, crossed>>

EndTurn(t) == busy' = FALSE /\ turns' = turns \ {t}

\* The n-th block in the session of p is a message of the user.
UserAt(p, n) ==
  \E m \in heard[p] : author[m] = User /\ n = prior[p] + Cardinality({k \in heard[p] : k <= m})

\* Mutant of Taken: the user's last message is taken for an interjection.
TakenByAny(q) == \E p \in Qube : UserAt(p, prior[p] + Cardinality(heard[p]))

\* In some participant's session the number that the next block of q would get
\* is that of a message of the user.
Taken(q) == \E p \in Qube : UserAt(p, prior[q] + Cardinality(heard[q]) + 1)

\* The response arrives; unless its number is taken, it is put in the speaker's
\* session and then signed for all.
Respond(t) ==
  /\ t \in turns /\ t.m = NotSent /\ ~Taken(t.q) /\ turnNumber < MaxMessages
  /\ turnNumber' = turnNumber + 1
  /\ author' = [author EXCEPT ![turnNumber'] = t.q]
  /\ heard' = [heard EXCEPT ![t.q] = @ \cup {turnNumber'}]
  /\ turns' = (turns \ {t}) \cup {[t EXCEPT !.m = turnNumber']}
  /\ UNCHANGED <<mode, phase, prior, history, choice, busy, injections, crossed, skipped>>

\* The number is taken: the response is given up.
Abort(t) ==
  /\ t \in turns /\ t.m = NotSent /\ Taken(t.q)
  /\ EndTurn(t) /\ skipped' = TRUE
  /\ UNCHANGED <<mode, phase, talk, prior, choice, injections, crossed>>

\* The model fails or times out, for the last time, or responds with nothing.
Fail(t) ==
  /\ t \in turns /\ t.m = NotSent
  /\ EndTurn(t) /\ skipped' = TRUE
  /\ UNCHANGED <<mode, phase, talk, prior, choice, injections, crossed>>

\* All have signed: the block is put in the other sessions, the history and the
\* counts are extended, and a task for the next turn replaces one that waits.
Distribute(t) ==
  /\ t \in turns /\ t.m # NotSent
  /\ heard' = [q \in Qube |-> IF q = t.q THEN heard[q] ELSE heard[q] \cup {t.m}]
  /\ history' = Append(history, t.m)
  /\ last' = t.q /\ turnCount' = [turnCount EXCEPT ![t.q] = @ + 1]
  /\ due' = TRUE
  /\ EndTurn(t)
  /\ UNCHANGED <<mode, phase, turnNumber, author, prior, index, prepared, injections, crossed, skipped>>

-----------------------------------------------------------------------------
(* The user *)

\* The responses that are marked as prefetched, in any session: all of them, since
\* the handler by which the GUI locks one in looks for the conversation in an
\* attribute that the orchestrator has not.
Prefetched == {m \in UNION {heard[q] : q \in Qube} : author[m] # User}

\* The history without the entries of the removed responses.
WithoutPrefetch(ms) ==
  LET kept[i \in 0 .. Len(history)] ==
        IF i = 0 THEN <<>>
        ELSE IF history[i] \in ms THEN kept[i - 1] ELSE Append(kept[i - 1], history[i])
  IN  kept[Len(history)]

\* inject_user_message: a task that waits to prepare is cancelled, prefetched
\* responses are removed everywhere and the prepared speaker is forgotten.  The
\* block takes the place of those removed, or is put in the first session.
InjectUserMessage ==
  /\ Known /\ turnNumber < MaxMessages
  /\ turnNumber' = turnNumber + 1
  /\ author' = [author EXCEPT ![turnNumber'] = User]
  /\ heard' = [q \in Qube |-> (heard[q] \ Prefetched)
                 \cup IF Prefetched = {} /\ q = Order[1] THEN {turnNumber'} ELSE {}]
  /\ history' = WithoutPrefetch(Prefetched)
  /\ crossed' = crossed \cup {t.m : t \in {u \in turns : u.m # NotSent}}
  /\ prepared' = Nobody /\ due' = FALSE /\ skipped' = (skipped \/ prepared # Nobody)
  /\ injections' = injections \cup {turnNumber'}
  /\ UNCHANGED <<mode, phase, prior, last, index, busy, turns, turnCount>>

\* All have signed: the block is put in the sessions that have it not, and in the
\* history; then the next turn begins, unless one is in progress.
Injected(m) ==
  /\ injections' = injections \ {m}
  /\ heard' = [q \in Qube |-> heard[q] \cup {m}]
  /\ history' = Append(history, m)
  /\ \/ busy /\ UNCHANGED <<busy, turns, prepared, index, skipped>>
     \/ ~busy /\ \E q \in Qube : BeginTurn(q)
  /\ UNCHANGED <<mode, phase, turnNumber, author, prior, last, due, turnCount, crossed>>

\* recover_from_stuck_state: the waiting task and the prepared speaker go.
Recover ==
  /\ Known /\ (due \/ prepared # Nobody)
  /\ due' = FALSE /\ prepared' = Nobody /\ skipped' = (skipped \/ prepared # Nobody)
  /\ UNCHANGED <<mode, phase, talk, prior, last, index, busy, turns, injections, turnCount, crossed>>

\* end_conversation: the sessions are anchored or discarded.  What is in progress
\* goes on.
EndConversation ==
  /\ Known /\ phase' = "ended"
  /\ heard' = [q \in Qube |-> {}]
  /\ UNCHANGED <<mode, turnNumber, author, prior, history, choice, busy, turns, injections, crossed, skipped>>

Next ==
  \/ InjectUserMessage \/ Recover \/ EndConversation
  \/ \E q \in Qube : StartConversation(q) \/ ContinueConversation(q) \/ Prepare(q)
  \/ \E t \in turns : Respond(t) \/ Abort(t) \/ Fail(t) \/ Distribute(t)
  \/ \E m \in injections : Injected(m)

Spec == Init /\ [][Next]_vars

-----------------------------------------------------------------------------
(* Properties *)

\* No Qube speaks twice in a row in an open discussion of two or more, however
\* turns, their preparation and interjections are interleaved.
NoBackToBack ==
  mode = "open_discussion" /\ Cardinality(Qube) > 1 =>
    \A i \in 2 .. Len(history) :
      author[history[i]] \in Qube => author[history[i]] # author[history[i - 1]]

\* A message is in the history exactly if every participant has it in its session,
\* once it is distributed: no order of turns and interjections leaves one of them
\* without a message that the others have, or with one that was taken back.  The
\* exception is a response that was removed while it was signed.
HeardByAll ==
  LET open == injections \cup {t.m : t \in turns} IN
  phase = "open" =>
    \A m \in (1 .. turnNumber) \ (open \cup crossed) :
      \/ m \in Sent /\ \A q \in Qube : m \in heard[q]
      \/ m \notin Sent /\ \A q \in Qube : m \notin heard[q]

\* In round-robin mode nobody speaks twice more than another, as long as every
\* speaker that was chosen, ahead or for the turn, gets to speak.
RoundRobinEven ==
  mode = "round_robin" /\ ~skipped =>
    \A p, q \in Qube : turnCount[p] <= turnCount[q] + 1

\* A response is given up only while an interjection awaits its signatures or after
\* the end, or if another participant had more blocks in its session from the start, or a
\* response was removed while it was signed: interjections that are in all sessions, and
\* turns that failed, never cost another response.
AbortedForInterjectionStep ==
  \A t \in turns : Abort(t) =>
    \/ injections # {} \/ crossed # {} \/ phase = "ended"
    \/ \E p \in Qube : prior[p] > prior[t.q]
AbortedForInterjection == [][AbortedForInterjectionStep]_vars

=============================================================================
