--------------------------- MODULE P2PConversation ---------------------------
(***************************************************************************)
(* A conversation of local Qubes, the user, and Qubes of another user who  *)
(* are reached through a hub: P2PMultiQubeConversation and the handlers of *)
(* the sidecar that keep it in memory, and rebuild it from the session of  *)
(* the first local Qube when it is not there.  It extends Conversation:    *)
(* for a time the list qubes is narrowed to the local ones, blocks go to   *)
(* the hub as well, and nothing is prepared ahead.                         *)
(*                                                                         *)
(* Messages are numbered as they are made, which is the order of their     *)
(* timestamps.  All who are not local are one author.  The object is       *)
(* rebuilt by one command at a time.                                       *)
(***************************************************************************)
EXTENDS Naturals, SequencesExt

CONSTANTS
  Local,         \* local Qubes
  First,         \* the first of them
  User, Remote, Nobody,
  MaxMessages,   \* bounds the messages
  MaxCrashes     \* bounds the restarts of the sidecar

P2PAssumption ==
  /\ IsFiniteSet(Local) /\ First \in Local /\ {User, Remote, Nobody} \cap Local = {}
  /\ Cardinality({User, Remote, Nobody}) = 3 /\ MaxMessages \in Nat /\ MaxCrashes \in Nat

VARIABLES
  conv,        \* the conversation in memory
  memory,      \* it is in memory
  known,       \* the GUI knows the conversation: its first response has come
  author,      \* author[m]: who made message m
  number,      \* number[m]: the turn number in its block
  heard,       \* heard[q]: messages in the session of q
  marked,      \* messages whose blocks are marked as prefetched
  speaking,    \* the turn in progress, or NoTurn
  injections,  \* messages of the user that are being distributed
  hub,         \* messages that the hub has accepted
  crashes,
  \* History:
  crossed,     \* responses removed while they were distributed
  cut          \* messages whose distribution a crash has ended

blocks == <<author, number, heard, marked>>
past == <<crashes, crossed, cut>>
vars == <<conv, memory, known, blocks, speaking, injections, hub, past>>

Message == 1 .. MaxMessages
NoTurn == [q |-> Nobody, m |-> 0, stage |-> "none", saved |-> "all", inner |-> "all"]

\* A response or a message of the user is signed by all, then sent to the hub.
\* saved and inner are the list qubes that a turn and a distribution restore.
Scope == {"all", "local"}
Turn == [q : Local, m : Message \cup {0}, stage : {"asking", "signing", "posting"}, saved : Scope, inner : Scope]
Interjection == [m : Message, stage : {"signing", "posting"}, inner : Scope]
Conv == [turn : 0 .. MaxMessages, history : Seq(Message), last : Local \cup {User, Remote, Nobody}, scope : Scope]

TypeOK ==
  /\ conv \in Conv /\ memory \in BOOLEAN /\ known \in BOOLEAN
  /\ author \in [Message -> Local \cup {User, Remote, Nobody}]
  /\ number \in [Message -> 0 .. MaxMessages]
  /\ heard \in [Local -> SUBSET Message] /\ marked \subseteq Message
  /\ speaking \in Turn \cup {NoTurn} /\ injections \subseteq Interjection
  /\ hub \subseteq Message /\ crossed \subseteq Message /\ cut \subseteq Message
  /\ crashes \in 0 .. MaxCrashes

Blank == [turn |-> 0, history |-> <<>>, last |-> Nobody, scope |-> "all"]

Init ==
  /\ conv = Blank /\ memory = TRUE /\ known = FALSE
  /\ author = [m \in Message |-> Nobody] /\ number = [m \in Message |-> 0]
  /\ heard = [q \in Local |-> {}] /\ marked = {}
  /\ speaking = NoTurn /\ injections = {} /\ hub = {}
  /\ crashes = 0 /\ crossed = {} /\ cut = {}

-----------------------------------------------------------------------------
(* The conversation object *)

Made == {m \in Message : author[m] # Nobody}

\* A sequence of messages without those in ms.
Without(s, ms) ==
  LET kept[i \in 0 .. Len(s)] ==
        IF i = 0 THEN <<>>
        ELSE IF s[i] \in ms THEN kept[i - 1] ELSE Append(kept[i - 1], s[i])
  IN  kept[Len(s)]

InOrder(ms) == Without([m \in Message |-> m], Message \ ms)

\* Mutant of Rebuilt: only what Qubes have said.
RebuiltOfQubes ==
  LET mine == {m \in heard[First] : author[m] \in Local} IN
  [turn |-> Max({number[m] : m \in mine} \cup {0}), history |-> InOrder(mine),
   last |-> IF mine = {} THEN Nobody ELSE author[Max(mine)], scope |-> "all"]

\* The conversation from the blocks in the first session.  Blocks of others carry
\* the identifier of their own conversation, and are left out.
Rebuilt ==
  LET mine == {m \in heard[First] : author[m] # Remote} IN
  [turn |-> Max({number[m] : m \in mine} \cup {0}), history |-> InOrder(mine),
   last |-> IF mine = {} THEN Nobody ELSE author[Max(mine)], scope |-> "all"]

\* The one a command works on.
Opened == IF memory THEN conv ELSE Rebuilt

\* The next message, by a.
Makes(m, a, n) ==
  /\ Made # Message /\ m = Cardinality(Made) + 1
  /\ author' = [author EXCEPT ![m] = a] /\ number' = [number EXCEPT ![m] = n]

\* _determine_next_speaker, of the local Qubes
Determined(c) == IF Local = {c.last} THEN Local ELSE Local \ {c.last}

\* A turn begins: the list qubes is narrowed until it ends.
BeginTurn(c) ==
  \E q \in Determined(c) :
    /\ speaking' = [q |-> q, m |-> 0, stage |-> "asking", saved |-> c.scope, inner |-> "all"]
    /\ conv' = [c EXCEPT !.scope = "local"]

-----------------------------------------------------------------------------
(* Turns *)

\* continue_p2p_conversation, unless a turn is in progress
Continue ==
  /\ known /\ speaking = NoTurn
  /\ BeginTurn(Opened) /\ memory' = TRUE
  /\ UNCHANGED <<known, blocks, injections, hub, past>>

UserAt(p, n) ==
  \E m \in heard[p] : author[m] = User /\ n = Cardinality({k \in heard[p] : k <= m})

\* In some session the place of the speaker's next block has a message of the user.
Taken(q) == \E p \in Local : UserAt(p, Cardinality(heard[q]) + 1)

\* The response: a block in the speaker's session, marked as prefetched, for all to sign.
Respond ==
  /\ speaking.stage = "asking" /\ conv.scope = "local" /\ ~Taken(speaking.q)
  /\ \E m \in Message :
       /\ Makes(m, speaking.q, conv.turn + 1)
       /\ heard' = [heard EXCEPT ![speaking.q] = @ \cup {m}] /\ marked' = marked \cup {m}
       /\ speaking' = [speaking EXCEPT !.m = m, !.stage = "signing", !.inner = conv.scope]
  /\ conv' = [conv EXCEPT !.turn = @ + 1]
  /\ UNCHANGED <<memory, known, injections, hub, past>>

\* The turn ends without a response: the model fails, the user has interjected, or the
\* list qubes has those without a directory again.
NoResponse ==
  /\ speaking.stage = "asking"
  /\ speaking' = NoTurn /\ conv' = [conv EXCEPT !.scope = speaking.saved]
  /\ UNCHANGED <<memory, known, blocks, injections, hub, past>>

\* All have signed: the block is put in the other sessions.  If the list has been
\* widened meanwhile the distribution ends in an error at the first who is not local.
Share ==
  /\ speaking.stage = "signing"
  /\ heard' = [q \in Local |-> IF q = speaking.q THEN heard[q] ELSE heard[q] \cup {speaking.m}]
  /\ IF conv.scope = "local"
     THEN /\ speaking' = [speaking EXCEPT !.stage = "posting"]
          /\ conv' = [conv EXCEPT !.scope = speaking.inner]
          /\ UNCHANGED <<marked, known>>
     ELSE /\ speaking' = NoTurn /\ known' = TRUE /\ marked' = marked \ {speaking.m}
          /\ conv' = [conv EXCEPT !.scope = speaking.saved, !.last = speaking.q,
                                  !.history = Append(@, speaking.m)]
  /\ UNCHANGED <<memory, author, number, injections, hub, past>>

\* _lock_in_p2p_response, in all local sessions
LockedIn(m) == marked \ {m}

\* The hub has accepted the block or not; the turn ends.
Posted ==
  /\ speaking.stage = "posting"
  /\ \/ hub' = hub \cup {speaking.m}
     \/ UNCHANGED hub
  /\ marked' = LockedIn(speaking.m)
  /\ conv' = [conv EXCEPT !.scope = speaking.saved, !.last = speaking.q,
                          !.history = Append(@, speaking.m)]
  /\ speaking' = NoTurn /\ known' = TRUE
  /\ UNCHANGED <<memory, author, number, heard, injections, past>>

-----------------------------------------------------------------------------
(* Messages of the user and of others *)

\* inject_user_message: marked responses are removed from the sessions and the history,
\* and the message takes their place, or is put in the first session; for all to sign.
Inject(m, c, n) ==
  /\ Makes(m, User, n)
  /\ heard' = [q \in Local |-> (heard[q] \ marked)
                 \cup IF marked = {} /\ q = First THEN {m} ELSE {}]
  /\ marked' = {}
  /\ crossed' = crossed \cup (marked \cap {speaking.m})
  /\ conv' = [c EXCEPT !.turn = n, !.history = Without(@, marked), !.scope = "local"]
  /\ injections' = injections \cup {[m |-> m, stage |-> "signing", inner |-> c.scope]}
  /\ memory' = TRUE
  /\ UNCHANGED <<known, speaking, hub, crashes, cut>>

\* start_conversation: the prompt, with turn number 0
Start == Made = {} /\ Inject(1, conv, 0)

InjectUserMessage == known /\ \E m \in Message : Inject(m, Opened, Opened.turn + 1)

\* An error here leaves the message in the sessions, and not in the history.
ShareInjected(i) ==
  /\ i.stage = "signing"
  /\ heard' = [q \in Local |-> heard[q] \cup {i.m}]
  /\ injections' = (injections \ {i}) \cup
       IF conv.scope = "local" THEN {[i EXCEPT !.stage = "posting"]} ELSE {}
  /\ cut' = IF conv.scope = "local" THEN cut ELSE cut \cup {i.m}
  /\ conv' = [conv EXCEPT !.scope = i.inner]
  /\ UNCHANGED <<memory, known, author, number, marked, speaking, hub, crashes, crossed>>

\* The hub has accepted it or not; it is in the history, and the next turn begins,
\* unless one is in progress.
PostedInjected(i) ==
  LET c == [conv EXCEPT !.history = Append(@, i.m)] IN
  /\ i.stage = "posting" /\ injections' = injections \ {i}
  /\ \/ hub' = hub \cup {i.m}
     \/ UNCHANGED hub
  /\ IF speaking = NoTurn THEN BeginTurn(c) ELSE conv' = c /\ UNCHANGED speaking
  /\ UNCHANGED <<memory, known, blocks, past>>

\* inject_p2p_block: a block from the hub, with the turn number its author gave it:
\* one that is new here or one the author counted without knowing of those here.
RemoteBlock ==
  \E m \in Message, n \in 1 .. Opened.turn + 1 :
    /\ known /\ Makes(m, Remote, n)
    /\ heard' = [q \in Local |-> heard[q] \cup {m}]
    /\ conv' = [Opened EXCEPT !.history = Append(@, m), !.turn = Max({@, n}), !.last = Remote]
    /\ memory' = TRUE
    /\ UNCHANGED <<known, marked, speaking, injections, hub, past>>

\* The sidecar ends, and with it what is in progress; the sessions are in files.
Crash ==
  /\ memory /\ known /\ crashes < MaxCrashes /\ crashes' = crashes + 1
  /\ memory' = FALSE /\ conv' = Blank /\ speaking' = NoTurn /\ injections' = {}
  /\ cut' = cut \cup ({speaking.m} \ {0}) \cup {i.m : i \in injections}
  /\ UNCHANGED <<known, blocks, hub, crossed>>

Next ==
  \/ Start \/ Continue \/ Respond \/ NoResponse \/ Share \/ Posted
  \/ InjectUserMessage \/ RemoteBlock \/ Crash
  \/ \E i \in injections : ShareInjected(i) \/ PostedInjected(i)

Spec == Init /\ [][Next]_vars

-----------------------------------------------------------------------------
(* Properties *)

Pending == ({speaking.m} \cup {i.m : i \in injections} \cup crossed \cup cut) \ {0}
InAll(m) == \A q \in Local : m \in heard[q]

\* Once a message is distributed, every local Qube has it in its session or none has,
\* and what is in the history is in the sessions, whatever interjections, remote blocks
\* and restarts come between.
LocalAgree ==
  /\ \A m \in Made \ Pending : InAll(m) \/ \A q \in Local : m \notin heard[q]
  /\ \A i \in DOMAIN conv.history : conv.history[i] \in Pending \/ InAll(conv.history[i])

\* No local Qube speaks twice in a row, if there is another, also after a restart: if
\* its messages follow each other, one between them was removed or could not be rebuilt.
NoBackToBack ==
  LET Speaker(i) == author[conv.history[i]]
      Between(i) == {m \in Made : conv.history[i - 1] < m /\ m < conv.history[i]}
  IN  Cardinality(Local) > 1 =>
        \A i \in 2 .. Len(conv.history) :
          Speaker(i) \in Local /\ Between(i) = {} => Speaker(i) # Speaker(i - 1)

\* What the hub has accepted stays in the sessions of the local Qubes, unless it was
\* removed, or the sidecar ended, while it was on its way.
KeptUnlessCrossed == \A m \in hub \ Pending : InAll(m)

\* The session of the first Qube has the messages of the conversation that are not of
\* others, so that these can be rebuilt when the sidecar has ended.
LocalRebuildable ==
  memory => {m \in heard[First] : author[m] # Remote} \ Pending
              = {m \in ToSet(conv.history) : author[m] # Remote} \ Pending

=============================================================================
