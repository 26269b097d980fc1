---------------------------- MODULE MCActivities ----------------------------
(***************************************************************************)
(* Small instances of what a Qube does beside its memory chain: it talks   *)
(* with other Qubes, thinks, uses tools, plays, is minted, and speaks.     *)
(* Each is checked alone: the component that runs is chosen at the         *)
(* beginning, and the others stay in an initial state.                     *)
(***************************************************************************)
EXTENDS Naturals, FiniteSets, Sequences, TLC

CONSTANTS
  Actor,   \* players, calls of the reasoner, calls of tools
  Match, Attempt, Human, User, Remote, NoGame, NoKey, NoCall, NoModel, Nobody,
  \* Conversation:
  Qube, MaxMessages, MaxPrior,
  \* Reasoner and Tools:
  Model, Local, Genesis, Work, MaxIterations, MaxChanges, MaxRestarts,
  \* Game:
  MaxMoves, MaxDrops, MaxCrashes,
  \* P2PConversation:
  Resident, First, MaxNumber,
  \* Speech:
  MaxSpoken, MaxChunks, MaxTroubles

\* The participants of a conversation in some order.
Order == CHOOSE order \in [1 .. Cardinality(Qube) -> Qube] :
           \A q \in Qube : \E i \in DOMAIN order : order[i] = q

VARIABLES
  component,  \* the component that runs
  \* Conversation:
  mode, phase, turnNumber, author, prior, heard, history, last, index, nextSpeaker,
  turnDue, busy, turns, injections, turnCount, crossed, skipped,
  \* Reasoner:
  modelMode, lock, lockedTo, override, changes, current, chain, model, seen, pendingSwitch,
  lastModel, call,
  \* Tools:
  session, toolsBlocks, queue, running, toolsHeld, blockless, toolsFile, permanent,
  anchorPhase, snapshot, restarts, discarded, late,
  \* Game:
  game, loaded, file, playersAsked, before, stale, old, counted, matches, drops,
  gameCrashes, onesided, overwritten, torn,
  \* Mint:
  prepared, pendingMint, stateKey, storedKey, metadata, step, overlapped,
  \* P2PConversation:
  conv, memory, known, writer, number, delivered, marked, speaking, posted, hub,
  sidecarCrashes, removed, cut,
  \* Speech:
  reply, task, partial, cancelled, tracked, cancelling, events, audio, player, pid, ends,
  sending, turn, full, timer, shown, played, interrupted, mixed, overtaken, bare, troubles,
  astray

C == INSTANCE Conversation WITH
       prepared <- nextSpeaker, due <- turnDue
R == INSTANCE Reasoner WITH
       pending <- pendingSwitch, last <- lastModel, Call <- Actor
T == INSTANCE Tools WITH
       blocks <- toolsBlocks, held <- toolsHeld, file <- toolsFile, phase <- anchorPhase,
       Action <- Actor
G == INSTANCE Game WITH
       asked <- playersAsked, crashes <- gameCrashes, Qube <- Actor
M == INSTANCE Mint
P == INSTANCE P2PConversation WITH
       author <- writer, heard <- delivered, injections <- posted, crashes <- sidecarCrashes,
       crossed <- removed, Local <- Resident, MaxMessages <- MaxNumber
S == INSTANCE Speech WITH MaxMessages <- MaxSpoken

ASSUME ActivitiesAssumption ==
  /\ C!ConversationAssumption
  /\ R!ReasonerAssumption
  /\ T!ToolsAssumption
  /\ G!GameAssumption
  /\ M!MintAssumption
  /\ P!P2PAssumption
  /\ S!SpeechAssumption

conversationVars == <<mode, phase, turnNumber, author, prior, heard, history, last, index,
                      nextSpeaker, turnDue, busy, turns, injections, turnCount, crossed,
                      skipped>>
reasonerVars == <<modelMode, lock, lockedTo, override, changes, current, chain, model,
                  seen, pendingSwitch, lastModel, call>>
toolsVars == <<session, toolsBlocks, queue, running, toolsHeld, blockless, toolsFile,
               permanent, anchorPhase, snapshot, restarts, discarded, late>>
gameVars == <<game, loaded, file, playersAsked, before, stale, old, counted, matches,
              drops, gameCrashes, onesided, overwritten, torn>>
mintVars == <<prepared, pendingMint, stateKey, storedKey, metadata, step, overlapped>>
p2pVars == <<conv, memory, known, writer, number, delivered, marked, speaking, posted, hub,
             sidecarCrashes, removed, cut>>
speechVars == <<reply, task, partial, cancelled, tracked, cancelling, events, audio, player, pid,
                ends, sending, turn, full, timer, shown, played, interrupted, mixed, overtaken,
                bare, troubles, astray>>
vars == <<component, conversationVars, reasonerVars, toolsVars, gameVars, mintVars, p2pVars,
          speechVars>>

Init ==
  /\ component \in {"Conversation", "Reasoner", "Tools", "Game", "Mint", "P2P", "Speech"}
  /\ C!Init /\ R!Init /\ T!Init /\ G!Init /\ M!Init /\ P!Init /\ S!Init
  /\ component # "Conversation" => mode = "round_robin" /\ prior = [q \in Qube |-> 0]

Next ==
  /\ UNCHANGED component
  /\ \/ component = "Conversation" /\ C!Next
        /\ UNCHANGED <<reasonerVars, toolsVars, gameVars, mintVars, p2pVars, speechVars>>
     \/ component = "Reasoner" /\ R!Next
        /\ UNCHANGED <<conversationVars, toolsVars, gameVars, mintVars, p2pVars, speechVars>>
     \/ component = "Tools" /\ T!Next
        /\ UNCHANGED <<conversationVars, reasonerVars, gameVars, mintVars, p2pVars, speechVars>>
     \/ component = "Game" /\ G!Next
        /\ UNCHANGED <<conversationVars, reasonerVars, toolsVars, mintVars, p2pVars, speechVars>>
     \/ component = "Mint" /\ M!Next
        /\ UNCHANGED <<conversationVars, reasonerVars, toolsVars, gameVars, p2pVars, speechVars>>
     \/ component = "P2P" /\ P!Next
        /\ UNCHANGED <<conversationVars, reasonerVars, toolsVars, gameVars, mintVars, speechVars>>
     \/ component = "Speech" /\ S!Next
        /\ UNCHANGED <<conversationVars, reasonerVars, toolsVars, gameVars, mintVars, p2pVars>>

Spec == Init /\ [][Next]_vars

-----------------------------------------------------------------------------
(* The instances are explored only ... *)

\* ... with one offer of a draw at a time, not while a Qube is asked for a move, and
\* one game with the user;
GameBound ==
  LET offered == {q \in Actor : G!Active(q) # NoGame /\ G!Active(q).offer # "none"}
      alone == {q \in Actor : G!Active(q) # NoGame /\ G!Opponent(G!Active(q), q) = Human}
  IN  /\ drops + gameCrashes <= 1 /\ Cardinality(alone) <= 1
      /\ offered # {} => playersAsked = {} /\ Cardinality(offered) = 1 /\ drops + gameCrashes = 0

\* ... with two calls at a time only under settings that stay, one tool to go each.
ReasonerBound ==
  LET crossing == {c \in Actor : call[c].crossed} IN
  crossing # {} => changes = 0 /\ \A c \in crossing : Len(call[c].todo) <= 1

Bound ==
  /\ component = "Game" => GameBound
  /\ component = "Reasoner" => ReasonerBound

Symmetry == Permutations(Actor)

-----------------------------------------------------------------------------
(* The properties of the components *)

\* All variables have values of their types.
TypeOK ==
  /\ component = "Conversation" => C!TypeOK
  /\ component = "Reasoner" => R!TypeOK
  /\ component = "Tools" => T!TypeOK
  /\ component = "Game" => G!TypeOK
  /\ component = "Mint" => M!TypeOK
  /\ component = "P2P" => P!TypeOK
  /\ component = "Speech" => S!TypeOK

\* Nobody speaks twice in a row, however turns, their preparation, interjections,
\* messages of remote Qubes and restarts are interleaved, if another local Qube can;
\* and in round-robin mode nobody speaks twice more than another, as long as every
\* speaker that was chosen, ahead or for the turn, gets to speak.
TurnsAlternate ==
  /\ component = "Conversation" => C!NoBackToBack /\ C!RoundRobinEven
  /\ component = "P2P" => P!NoBackToBack

\* A message is in the history exactly if every local participant has it in its session,
\* once it is distributed: no order of turns, interjections, remote blocks and
\* restarts leaves one of them without a message that the others have, or with one that
\* was taken back.  What the hub of a conversation with remote Qubes has stays, and
\* the messages of local Qubes and the user can be rebuilt.  The exceptions are a
\* response that was removed, and a message that a restart cut off, on its way.
HeardByAll ==
  /\ component = "Conversation" => C!HeardByAll
  /\ component = "P2P" => P!LocalAgree /\ P!KeptUnlessCrossed /\ P!LocalRebuildable

\* A response is given up only while an interjection awaits its signatures or after
\* the end, or if another participant had more blocks in its session from the start, or a
\* response was removed while it was signed: interjections that are in all sessions, and
\* turns that failed, never cost another response.
AbortedForInterjection == [][component = "Conversation" => C!AbortedForInterjectionStep]_vars

\* The block of a response names the model that wrote it, and the revolver_switch
\* block the one that wrote the first, whatever switches, failed providers and
\* loops the call went through; not if another call was in progress,
\* if it went over to a model without a key, or if the settings changed in a call
\* with a fallback; and the revolver_switch block only if the revolver mode was
\* not left before the first response.  A chat that is begun with a locked model asks that model in all
\* its iterations, whatever an earlier autonomous mode has left behind, if no other
\* call is in progress.
RecordedModel == component = "Reasoner" => R!RecordedModel /\ R!LockedModelAnswers

\* Both managers of a match between two Qubes have all its moves, when no move is
\* being answered, unless the process crashed or an object was dropped meanwhile, or
\* a Qube got the moves of a match that its opponent there still plays; and a command
\* that ends or abandons a game ends that game only: the opponent's manager has the
\* same match, unless one side has left the match alone.
CopiesAgree == [][component = "Game" => G!CopiesAgree' /\ G!EndsOwnMatchStep]_vars

\* The block of a tool call is anchored at most once, and never after it was
\* discarded, however its handler, the anchoring and restarts interleave, except
\* for a block whose handler ends after the anchoring or the discard is over, or
\* whose anchoring is cut short.  A match is counted once in the statistics of a Qube,
\* in spite of restarts and of objects that are dropped while they are asked for a move;
\* twice only after a crash in the end of a game or a move by an object that was dropped.
OnceOnly ==
  /\ component = "Tools" => T!AnchoredOnce
  /\ component = "Game" => G!CountedOnce

\* The sentences of responses are played one at a time, each once, in the order in which
\* they were written, though they become ready in any order and the next message may
\* interrupt them; and the text that is shown is that of the message it stands for.  Only
\* players that are not stopped or forgotten, and a message that is begun or interrupted
\* while the backend is at an earlier one, are excepted.
PlayedInOrder == component = "Speech" => S!PlayedInOrder

\* From the moment the wallet has the transaction, the private key of the Qube is
\* in a file, however many attempts are killed or overlap; and when the pending file
\* is gone, the chain state can be read with the key that is stored, unless
\* attempts overlapped.
MintKept == component = "Mint" => M!MintKept

=============================================================================
