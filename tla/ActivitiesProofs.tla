--------------------------- MODULE ActivitiesProofs ---------------------------
(***************************************************************************)
(* Proofs about Mint, Tools, Game, Reasoner and Speech in the              *)
(* specification of MCActivities, and about the types of all its           *)
(* components, for every value of its constants: while a component runs it *)
(* takes its steps, and while another one runs its variables do not        *)
(* change.  So an invariant of a component is proved from its own Init and *)
(* Next, and carried over by its case of the Next of MCActivities.         *)
(***************************************************************************)
EXTENDS ConversationProofs

-----------------------------------------------------------------------------
(* Mint: the inductive invariant *)

\* An attempt that has saved the Qube has left its private key in the file.
MetadataInv ==
  /\ \A f \in Attempt : step[f] \in {"key", "delete", "finish"} => metadata
  /\ M!KeyInFile

\* Without overlap one attempt runs at a time, the chain state has the key of the
\* attempt that has made it, and the pending file goes only when that key is stored.
AloneInv ==
  overlapped = {} =>
    /\ \A f, g \in Attempt : M!Running(f) /\ M!Running(g) => f = g
    /\ \A f \in Attempt :
         /\ step[f] \in {"save", "key", "delete", "finish"} => stateKey = f
         /\ step[f] \in {"delete", "finish"} => storedKey = f
         /\ prepared /\ ~pendingMint => step[f] \in {"new", "finish", "over"}
    /\ prepared /\ ~pendingMint => stateKey = storedKey /\ storedKey # NoKey

MintInv ==
  /\ M!TypeOK
  /\ MetadataInv
  /\ AloneInv
  /\ pendingMint => prepared
  /\ \A f \in Attempt : step[f] # "new" => prepared

LEMMA MintInit == M!Init => MintInv
BY DEF M!Init, MintInv, M!TypeOK, M!Step, MetadataInv, M!KeyInFile, AloneInv, M!Running

\* The transaction is handed to the wallet, or an attempt begins.
LEMMA MintBegins ==
  ASSUME MintInv, NEW f \in Attempt, M!Prepare \/ M!Begin(f)
  PROVE  MintInv'
<1>1. CASE M!Prepare
  BY <1>1 DEF M!Prepare, MintInv, M!TypeOK, M!Step, MetadataInv, M!KeyInFile, AloneInv, M!Running
<1>2. CASE M!Begin(f)
  <2> USE <1>2 DEF M!Begin, M!Goes, M!files, MintInv, M!TypeOK, M!Step
  <2>1. M!TypeOK'
    OBVIOUS
  <2>2. MetadataInv'
    BY DEF MetadataInv, M!KeyInFile
  <2>3. AloneInv'
    BY DEF AloneInv, M!Running
  <2> QED BY <2>1, <2>2, <2>3
<1> QED BY <1>1, <1>2

\* An attempt goes on as far as the Qube object.
LEMMA MintCreates ==
  ASSUME MintInv, NEW f \in Attempt, M!Derived(f) \/ M!Clean(f) \/ M!Create(f) \/ M!Die(f)
  PROVE  MintInv'
<1> USE DEF MintInv, M!TypeOK, M!Step, M!Goes, M!files
<1>1. CASE M!Derived(f)
  BY <1>1 DEF M!Derived, MetadataInv, M!KeyInFile, AloneInv, M!Running
<1>2. CASE M!Clean(f)
  BY <1>2 DEF M!Clean, MetadataInv, M!KeyInFile, AloneInv, M!Running
<1>3. CASE M!Create(f)
  BY <1>3 DEF M!Create, MetadataInv, M!KeyInFile, AloneInv, M!Running
<1>4. CASE M!Die(f)
  BY <1>4 DEF M!Die, MetadataInv, M!KeyInFile, AloneInv, M!Running
<1> QED BY <1>1, <1>2, <1>3, <1>4

\* An attempt saves what it has made, and removes the pending file.
LEMMA MintSaves ==
  ASSUME MintInv, NEW f \in Attempt,
         M!SaveMetadata(f) \/ M!SaveKey(f) \/ M!Delete(f) \/ M!Background(f)
  PROVE  MintInv'
<1> USE ActivitiesAssumption DEF M!MintAssumption, MintInv, M!TypeOK, M!Step, M!Goes
<1>1. CASE M!SaveMetadata(f)
  BY <1>1 DEF M!SaveMetadata, MetadataInv, M!KeyInFile, AloneInv, M!Running
<1>2. CASE M!SaveKey(f)
  BY <1>2 DEF M!SaveKey, MetadataInv, M!KeyInFile, AloneInv, M!Running
<1>3. CASE M!Delete(f)
  BY <1>3 DEF M!Delete, MetadataInv, M!KeyInFile, AloneInv, M!Running
<1>4. CASE M!Background(f)
  BY <1>4 DEF M!Background, MetadataInv, M!KeyInFile, AloneInv, M!Running
<1> QED BY <1>1, <1>2, <1>3, <1>4

LEMMA MintNext == MintInv /\ M!Next => MintInv'
<1> SUFFICES ASSUME MintInv, M!Next PROVE MintInv'
  OBVIOUS
<1>1. CASE M!Prepare
  <2>1. CASE Attempt = {}
    BY <1>1, <2>1 DEF M!Prepare, MintInv, M!TypeOK, M!Step, MetadataInv, M!KeyInFile, AloneInv
  <2> QED BY <1>1, <2>1, MintBegins
<1>2. CASE \E f \in Attempt :
             \/ M!Begin(f) \/ M!Derived(f) \/ M!Clean(f) \/ M!Create(f) \/ M!SaveMetadata(f)
             \/ M!SaveKey(f) \/ M!Delete(f) \/ M!Background(f) \/ M!Die(f)
  BY <1>2, MintBegins, MintCreates, MintSaves
<1> QED BY <1>1, <1>2 DEF M!Next

-----------------------------------------------------------------------------
(* Mint: the theorem *)

LEMMA MintRuns == Spec => [](component = "Mint" => MintInv)
<1> DEFINE I == component = "Mint" => MintInv
<1>1. Init => I
  BY MintInit DEF Init
<1>2. I /\ [Next]_vars => I'
  <2> SUFFICES ASSUME I, [Next]_vars, component' = "Mint" PROVE MintInv'
    OBVIOUS
  <2>1. component = "Mint" /\ MintInv
    BY DEF Next, vars
  <2>2. CASE M!Next
    BY <2>1, <2>2, MintNext
  <2>3. CASE UNCHANGED mintVars
    BY <2>1, <2>3 DEF mintVars, MintInv, M!TypeOK, MetadataInv, M!KeyInFile, AloneInv, M!Running
  <2> QED BY <2>1, <2>2, <2>3 DEF Next, vars
<1> QED BY <1>1, <1>2, PTL DEF Spec

\* Whatever becomes of any number of attempts to finalize, the Qube that was paid for
\* is not lost: its private key is in a file, and if no attempts overlapped its
\* chain state can be read with the stored key (finalize_qube_mint).
THEOREM MintIsKept == Spec => []MintKept
<1>1. (component = "Mint" => MintInv) => MintKept
  BY DEF MintKept, M!MintKept, M!StateReadable, MintInv, MetadataInv, AloneInv
<1> QED BY <1>1, MintRuns, PTL

-----------------------------------------------------------------------------
(* Tools: the inductive invariant *)

Queued(a) == a \in queue
InSession(a) == toolsBlocks[a] # "none"
OnFile(a) == toolsFile[a] # "none"

\* Blocks are queued only while the anchor scans, and what it took is still in the
\* session then; an object without a session is idle and has no blocks.
PhaseInv ==
  /\ queue # {} => anchorPhase = "scan"
  /\ anchorPhase = "scan" => snapshot = {a \in Actor : InSession(a)}
  /\ anchorPhase \in {"idle", "discard"} => snapshot = {}
  /\ ~session => anchorPhase = "idle" /\ toolsBlocks = T!Nothing

\* Where the block of a call can be, unless it is late: what can still be anchored was
\* neither anchored nor discarded, but for files that the final cleanup deletes and
\* for blocks whose session is about to be dropped.
PlaceInv(a) ==
  /\ a \in blockless =>
       ~Queued(a) /\ ~InSession(a) /\ ~OnFile(a) /\ permanent[a] = 0 /\ a \notin discarded
  /\ Queued(a) => ~InSession(a)
  /\ Queued(a) \/ InSession(a) \/ OnFile(a) =>
       \/ permanent[a] = 0 /\ a \notin discarded
       \/ anchorPhase = "summary" /\ a \in snapshot
       \/ anchorPhase = "discard" /\ ~OnFile(a) /\ permanent[a] = 0
  /\ anchorPhase = "summary" /\ a \in snapshot =>
       ~Queued(a) /\ ~InSession(a) /\ permanent[a] = 1 /\ a \notin discarded
  /\ permanent[a] = 0 \/ (permanent[a] = 1 /\ a \notin discarded)

ToolsInv ==
  /\ T!TypeOK
  /\ PhaseInv
  /\ \A a \in Actor \ late : PlaceInv(a)

LEMMA RestartsBounded == MaxRestarts \in Nat
BY ActivitiesAssumption DEF T!ToolsAssumption

LEMMA ToolsInit == T!Init => ToolsInv
<1> SUFFICES ASSUME T!Init PROVE ToolsInv
  OBVIOUS
<1> USE DEF T!Init, T!Nothing
<1>1. T!TypeOK
  <2>1. restarts \in 0 .. MaxRestarts
    BY RestartsBounded
  <2>2. toolsBlocks \in [Actor -> T!Status] /\ toolsFile \in [Actor -> T!Status]
    BY DEF T!Status
  <2>3. permanent \in [Actor -> 0 .. 2]
    OBVIOUS
  <2> QED BY <2>1, <2>2, <2>3 DEF T!TypeOK
<1>2. PhaseInv
  BY DEF PhaseInv, InSession
<1>3. \A a \in Actor \ late : PlaceInv(a)
  BY DEF PlaceInv, Queued, InSession, OnFile
<1> QED BY <1>1, <1>2, <1>3 DEF ToolsInv

\* A tool is called.
LEMMA ToolStarts ==
  ASSUME ToolsInv, NEW b \in Actor, T!StartTool(b)
  PROVE  ToolsInv'
<1> USE DEF T!StartTool, T!New, T!CreateBlock, ToolsInv, T!TypeOK, T!Status
<1>1. T!TypeOK'
  OBVIOUS
<1>2. PhaseInv'
  BY DEF PhaseInv, InSession, T!Nothing
<1>3. \A a \in Actor \ late' : PlaceInv(a)'
  BY DEF PhaseInv, PlaceInv, Queued, InSession, OnFile
<1> QED BY <1>1, <1>2, <1>3

\* A handler ends, and its block is saved again.
LEMMA ToolEnds ==
  ASSUME ToolsInv, NEW b \in Actor, T!EndTool(b)
  PROVE  ToolsInv'
<1> USE DEF T!EndTool, T!CreateBlock, ToolsInv, T!TypeOK, T!Status
<1>1. T!TypeOK'
  OBVIOUS
<1>2. PhaseInv'
  BY DEF PhaseInv, InSession, T!Nothing
<1>3. \A a \in Actor \ late' : PlaceInv(a)'
  BY DEF PhaseInv, PlaceInv, Queued, InSession, OnFile, T!Nothing
<1> QED BY <1>1, <1>2, <1>3

\* The session is begun, or its anchor.
LEMMA AnchorBegins ==
  ASSUME ToolsInv, T!StartSession \/ T!BeginAnchor
  PROVE  ToolsInv'
<1> USE DEF T!StartSession, T!BeginAnchor, ToolsInv, T!TypeOK, T!Status
<1>1. T!TypeOK'
  OBVIOUS
<1>2. PhaseInv'
  BY DEF PhaseInv, InSession, T!Nothing
<1>3. \A a \in Actor \ late' : PlaceInv(a)'
  BY DEF PhaseInv, PlaceInv, Queued, InSession, OnFile, T!Nothing
<1> QED BY <1>1, <1>2, <1>3

\* The blocks that the anchor took become permanent, and what was queued takes their place.
LEMMA AnchorConverts ==
  ASSUME ToolsInv, T!Convert
  PROVE  ToolsInv'
<1> USE DEF T!Convert, T!Flushed, T!Without, ToolsInv, T!TypeOK, T!Status
<1>1. T!TypeOK'
  OBVIOUS
<1>2. PhaseInv'
  BY DEF PhaseInv, InSession, T!Nothing
<1>3. \A a \in Actor \ late' : PlaceInv(a)'
  BY DEF PhaseInv, PlaceInv, Queued, InSession, OnFile, T!Nothing
<1> QED BY <1>1, <1>2, <1>3

\* The anchor ends, with its final cleanup or without.
LEMMA AnchorEnds ==
  ASSUME ToolsInv, T!EndAnchor \/ T!FailAnchor
  PROVE  ToolsInv'
<1> USE DEF T!EndAnchor, T!FailAnchor, T!Left, T!Without, ToolsInv, T!TypeOK, T!Status
<1>1. T!TypeOK'
  OBVIOUS
<1>2. PhaseInv'
  BY DEF PhaseInv, InSession, T!Nothing
<1>3. \A a \in Actor \ late' : PlaceInv(a)'
  BY DEF PhaseInv, PlaceInv, Queued, InSession, OnFile, T!Nothing
<1> QED BY <1>1, <1>2, <1>3

\* The session is discarded, in two steps.
LEMMA SessionDiscarded ==
  ASSUME ToolsInv, T!Discard \/ T!Discarded
  PROVE  ToolsInv'
<1> USE DEF T!Discard, T!Discarded, T!Nothing, ToolsInv, T!TypeOK, T!Status
<1>1. T!TypeOK'
  OBVIOUS
<1>2. PhaseInv'
  BY DEF PhaseInv, InSession
<1>3. \A a \in Actor \ late' : PlaceInv(a)'
  BY DEF PhaseInv, PlaceInv, Queued, InSession, OnFile
<1> QED BY <1>1, <1>2, <1>3

\* The session is loaded again from its files, also in a new process.
LEMMA SessionRecovered ==
  ASSUME ToolsInv, T!Reload \/ T!Restart
  PROVE  ToolsInv'
<1> USE DEF T!Reload, T!Restart, T!Recovered, T!Left, ToolsInv, T!TypeOK, T!Status
<1>1. T!TypeOK'
  <2>1. restarts' \in 0 .. MaxRestarts
    BY RestartsBounded
  <2> QED BY <2>1
<1>2. PhaseInv'
  BY DEF PhaseInv, InSession, T!Nothing
<1>3. \A a \in Actor \ late' : PlaceInv(a)'
  BY DEF PhaseInv, PlaceInv, Queued, InSession, OnFile, T!Nothing
<1> QED BY <1>1, <1>2, <1>3

LEMMA ToolsNext == ToolsInv /\ T!Next => ToolsInv'
BY ToolStarts, ToolEnds, AnchorBegins, AnchorConverts, AnchorEnds, SessionDiscarded,
   SessionRecovered DEF T!Next

-----------------------------------------------------------------------------
(* Game: the inductive invariant *)

Games == G!GameState \cup {NoGame}

GameTypeInv ==
  /\ game \in [Actor -> Games] /\ file \in [Actor -> Games] /\ old \in [Actor -> Games]
  /\ loaded \subseteq Actor /\ playersAsked \subseteq Actor /\ stale \subseteq playersAsked
  /\ counted \in [Actor -> [Match -> Nat]] /\ matches \subseteq Match

\* A game that is in the manager of q, or in its file, has not been counted for q.
NotCounted(q, g) == g # NoGame => g.match \in matches /\ counted[q][g.match] = 0

CountInv(q) ==
  /\ NotCounted(q, game[q]) /\ NotCounted(q, file[q])
  /\ \A m \in Match : counted[q][m] <= 1 /\ (counted[q][m] > 0 => m \in matches)

GameInv ==
  /\ GameTypeInv
  /\ \A q \in Actor \ torn : CountInv(q)

LEMMA GameConstants ==
  NoGame \in Games /\ NoGame \notin G!GameState /\ MaxMoves \in Nat /\ Human \notin Actor
BY ActivitiesAssumption DEF G!GameAssumption, Games

LEMMA GameInit == G!Init => GameInv
BY GameConstants DEF G!Init, GameInv, GameTypeInv, CountInv, NotCounted

\* What a command finds as the active game of a Qube.
LEMMA ActiveGame ==
  ASSUME GameInv, NEW q \in Actor
  PROVE  /\ G!Active(q) \in Games
         /\ q \notin torn => NotCounted(q, G!Active(q))
BY DEF GameInv, GameTypeInv, CountInv, G!Active

\* A move and a change of the offer leave the match.
LEMMA SameMatch ==
  ASSUME NEW g \in G!GameState
  PROVE  /\ g.moves < MaxMoves => G!Moved(g) \in G!GameState
         /\ G!Moved(g).match = g.match
         /\ \A c \in {"white", "black", "none"} :
              [g EXCEPT !.offer = c] \in G!GameState /\ [g EXCEPT !.offer = c].match = g.match
<1>1. g.moves \in Nat /\ g.moves >= 0
  BY GameConstants DEF G!GameState
<1>2. ASSUME g.moves < MaxMoves PROVE G!Moved(g) \in G!GameState
  <2>1. g.moves + 1 \in 0 .. MaxMoves
    BY <1>1, <1>2, GameConstants
  <2> QED BY <2>1 DEF G!GameState, G!Moved
<1>3. G!Moved(g).match = g.match
  BY DEF G!GameState, G!Moved
<1>4. ASSUME NEW c \in {"white", "black", "none"}
      PROVE  [g EXCEPT !.offer = c] \in G!GameState /\ [g EXCEPT !.offer = c].match = g.match
  BY DEF G!GameState, G!Color
<1> QED BY <1>2, <1>3, <1>4

\* Managers get games that have not been counted.
LEMMA GamesPut ==
  ASSUME GameInv, NEW D \in SUBSET Actor, NEW new \in [D -> Games], G!Put(new),
         \A p \in D \ torn :
           new[p] # NoGame => new[p].match \in matches' /\ counted[p][new[p].match] = 0,
         loaded' \subseteq Actor, UNCHANGED <<G!request, counted, torn>>,
         matches \subseteq matches', matches' \subseteq Match
  PROVE  GameInv'
<1>1. GameTypeInv'
  BY DEF GameInv, GameTypeInv, G!Put, G!request
<1>2. \A q \in Actor \ torn' : CountInv(q)'
  BY DEF GameInv, GameTypeInv, CountInv, NotCounted, G!Put, G!request
<1> QED BY <1>1, <1>2 DEF GameInv

\* The games of the managers of Q are over and counted.
LEMMA GamesEnded ==
  ASSUME GameInv, NEW Q \in SUBSET Actor, G!EndGames(Q),
         \A q \in Q : G!Active(q) # NoGame,
         loaded' \subseteq Actor, UNCHANGED <<G!request, matches, torn>>
  PROVE  GameInv'
<1>1. \A q \in Q : /\ G!Active(q) \in G!GameState
                   /\ G!Active(q).match \in Match
                   /\ q \notin torn => NotCounted(q, G!Active(q))
  BY ActiveGame DEF Games, G!GameState
<1>2. GameTypeInv'
  <2>1. counted' \in [Actor -> [Match -> Nat]]
    BY <1>1 DEF GameInv, GameTypeInv, G!EndGames
  <2> QED BY <2>1, GameConstants DEF GameInv, GameTypeInv, G!EndGames, G!Put, G!request
<1>3. ASSUME NEW q \in Actor \ torn' PROVE CountInv(q)'
  <2>1. CASE q \in Q
    <3>1. game'[q] = NoGame /\ file'[q] = NoGame
      BY <2>1 DEF G!EndGames, G!Put
    <3>2. counted'[q] = [counted[q] EXCEPT ![G!Active(q).match] = @ + 1]
      BY <2>1 DEF G!EndGames
    <3> QED BY <1>1, <2>1, <3>1, <3>2 DEF GameInv, GameTypeInv, CountInv, NotCounted
  <2>2. CASE q \notin Q
    <3>1. game'[q] = game[q] /\ file'[q] = file[q] /\ counted'[q] = counted[q]
      BY <2>2 DEF G!EndGames, G!Put
    <3> QED BY <3>1 DEF GameInv, GameTypeInv, CountInv, NotCounted
  <2> QED BY <2>1, <2>2
<1> QED BY <1>2, <1>3 DEF GameInv

\* A game is started, or a move of the user is made.
LEMMA GameStarts ==
  ASSUME GameInv, NEW q \in Actor,
         \/ \E o \in Actor \cup {Human}, c \in G!Color, m \in Match : G!StartGame(q, o, c, m)
         \/ G!MakeMove(q)
  PROVE  GameInv'
<1>1. ASSUME NEW o \in Actor \cup {Human}, NEW c \in G!Color, NEW m \in Match,
             G!StartGame(q, o, c, m)
      PROVE  GameInv'
  <2> DEFINE g == [match |-> m, white |-> IF c = "white" THEN q ELSE o,
                   black |-> IF c = "white" THEN o ELSE q, moves |-> 0, offer |-> "none"]
             both == [p \in {q, o} \cap Actor |-> g]
  <2>1. g \in Games /\ g.match = m
    BY GameConstants DEF Games, G!GameState
  <2>2. m \notin matches /\ \A p \in Actor \ torn : counted[p][m] = 0
    BY <1>1 DEF G!StartGame, GameInv, GameTypeInv, CountInv
  <2>3. /\ loaded' \subseteq Actor /\ UNCHANGED <<G!request, counted, torn>>
        /\ matches \subseteq matches' /\ matches' \subseteq Match
    BY <1>1 DEF G!StartGame, GameInv, GameTypeInv
  <2>4. CASE G!Put(both) /\ matches' = matches \cup {m}
    <3>1. both \in [{q, o} \cap Actor -> Games] /\ \A p \in {q, o} \cap Actor : both[p] = g
      BY <2>1
    <3> HIDE DEF both, g
    <3> QED BY <2>1, <2>2, <2>3, <2>4, <3>1, GamesPut
  <2>5. CASE /\ o \in Actor /\ game' = [game EXCEPT ![q] = NoGame, ![o] = G!Active(o)]
             /\ file' = [file EXCEPT ![q] = NoGame]
    <3>1. G!Active(o) \in Games /\ (o \notin torn => NotCounted(o, G!Active(o)))
      BY <2>5, ActiveGame
    <3> DEFINE h == G!Active(o)
    <3> HIDE DEF h
    <3>2. game' = [game EXCEPT ![q] = NoGame, ![o] = h] /\ h \in Games /\ (o \notin torn => NotCounted(o, h))
      BY <2>5, <3>1 DEF h
    <3>3. GameTypeInv'
      BY <2>3, <2>5, <3>2, GameConstants DEF GameInv, GameTypeInv, G!request
    <3>4. \A p \in Actor \ torn' : CountInv(p)'
      BY <2>3, <2>5, <3>2 DEF GameInv, GameTypeInv, CountInv, NotCounted
    <3> QED BY <3>3, <3>4 DEF GameInv
  <2> QED BY <1>1, <2>4, <2>5 DEF G!StartGame
<1>2. CASE G!MakeMove(q)
  <2> DEFINE new == [p \in {q} |-> G!Moved(G!Active(q))]
  <2>1. G!Active(q) \in G!GameState /\ G!Active(q).moves < MaxMoves
    BY <1>2, ActiveGame DEF G!MakeMove, G!MayMove, Games
  <2>2. new \in [{q} -> Games] /\ new[q].match = G!Active(q).match
    BY <2>1, SameMatch DEF Games
  <2>3. q \notin torn => G!Active(q).match \in matches /\ counted[q][G!Active(q).match] = 0
    BY <1>2, ActiveGame DEF NotCounted, G!MakeMove, G!MayMove
  <2>4. /\ G!Put(new) /\ loaded' \subseteq Actor /\ UNCHANGED <<G!request, counted, matches, torn>>
        /\ matches \subseteq Match
    BY <1>2 DEF G!MakeMove, GameInv, GameTypeInv
  <2> HIDE DEF new
  <2> QED BY <2>2, <2>3, <2>4, GamesPut
<1> QED BY <1>1, <1>2

\* A Qube is asked for a move, and makes it.
LEMMA QubeMoves ==
  ASSUME GameInv, NEW q \in Actor, G!RequestMove(q) \/ G!ChessMove(q)
  PROVE  GameInv'
<1>1. CASE G!RequestMove(q)
  BY <1>1, ActiveGame DEF G!RequestMove, GameInv, GameTypeInv, CountInv, NotCounted
<1>2. CASE G!ChessMove(q)
  <2> DEFINE g == IF q \in stale THEN old[q] ELSE game[q]
  <2>1. g \in G!GameState /\ g.moves < MaxMoves
    BY <1>2 DEF G!ChessMove, G!MayMove, GameInv, GameTypeInv, Games
  <2>2. G!Moved(g) \in Games /\ G!Moved(g).match = g.match
    BY <2>1, SameMatch DEF Games
  <2>3. GameTypeInv'
    BY <1>2, <2>2 DEF G!ChessMove, GameInv, GameTypeInv
  <2>4. \A p \in Actor \ torn' : CountInv(p)'
    BY <1>2, <2>1, <2>2 DEF G!ChessMove, G!MayMove, GameInv, GameTypeInv, CountInv, NotCounted
  <2> QED BY <2>3, <2>4 DEF GameInv
<1> QED BY <1>1, <1>2

\* The move of a Qube is copied to its opponent.
LEMMA MoveCopied ==
  ASSUME GameInv, NEW q \in Actor, G!MoveAnswered(q)
  PROVE  GameInv'
<1> DEFINE g == IF q \in stale THEN old[q] ELSE game[q]
           o == IF g = NoGame THEN Human ELSE G!Opponent(g, q)
           new == [p \in {o} |-> G!Synced(o, g)]
<1>1. /\ playersAsked' = playersAsked \ {q} /\ stale' = stale \ {q}
      /\ old' = [old EXCEPT ![q] = NoGame]
      /\ UNCHANGED <<counted, matches, torn>>
  BY DEF G!MoveAnswered
<1>2. CASE /\ g # NoGame /\ o \in Actor /\ G!Active(o) # NoGame
           /\ loaded' = loaded \cup {o} /\ G!Put(new)
  <2>1. g \in G!GameState /\ g.moves \in 0 .. MaxMoves
    BY <1>2 DEF GameInv, GameTypeInv, Games, G!GameState
  <2>2. G!Active(o) \in G!GameState
    BY <1>2, ActiveGame DEF Games
  <2>3. new[o] \in Games /\ new[o].match = G!Active(o).match
    <3>1. new[o] = [G!Active(o) EXCEPT !.moves = g.moves]
      BY DEF G!Synced
    <3> DEFINE h == G!Active(o)
               n == g.moves
    <3> HIDE DEF new, o, g
    <3>2. h \in G!GameState /\ n \in 0 .. MaxMoves /\ new[o] = [h EXCEPT !.moves = n]
      BY <2>1, <2>2, <3>1
    <3> HIDE DEF h, n
    <3>3. new[o] \in Games /\ new[o].match = h.match
      BY <3>2 DEF Games, G!GameState
    <3> QED BY <3>3 DEF h
  <2>4. o \notin torn => G!Active(o).match \in matches /\ counted[o][G!Active(o).match] = 0
    BY <1>2, ActiveGame DEF NotCounted
  <2>5. /\ game' = [p \in Actor |-> IF p = o THEN new[o] ELSE game[p]]
        /\ file' = [p \in Actor |-> IF p = o THEN new[o] ELSE file[p]]
    BY <1>2 DEF G!Put
  <2> HIDE DEF g, o, new
  <2>6. GameTypeInv'
    BY <1>1, <1>2, <2>3, <2>5, GameConstants DEF GameInv, GameTypeInv
  <2>7. \A p \in Actor \ torn' : CountInv(p)'
    BY <1>1, <2>3, <2>4, <2>5 DEF GameInv, GameTypeInv, CountInv, NotCounted
  <2> QED BY <2>6, <2>7 DEF GameInv
<1>3. CASE UNCHANGED G!books
  BY <1>1, <1>3, GameConstants DEF G!books, GameInv, GameTypeInv, CountInv, NotCounted
<1> QED BY <1>2, <1>3 DEF G!MoveAnswered

\* A game ends, for the Qube or for both.
LEMMA GameEnds ==
  ASSUME GameInv, NEW q \in Actor,
         \/ G!EndGame(q) \/ G!AbandonGame(q) \/ G!ResignGame(q)
         \/ \E c \in G!Color : G!AcceptDraw(q, c)
  PROVE  GameInv'
<1>1. {q} \in SUBSET Actor /\ {q} \cup G!Other(q) \in SUBSET Actor /\ loaded \subseteq Actor
      /\ matches \subseteq Match
  BY DEF G!Other, GameInv, GameTypeInv
<1>2. CASE G!EndGame(q)
  <2>1. /\ loaded' \subseteq Actor /\ UNCHANGED <<G!request, matches, torn>>
        /\ G!EndGames({q} \cup G!Other(q))
    BY <1>1, <1>2 DEF G!EndGame
  <2>2. \A p \in {q} \cup G!Other(q) : G!Active(p) # NoGame
    BY <1>2 DEF G!EndGame, G!Other
  <2> QED BY <1>1, <2>1, <2>2, GamesEnded
<1>3. CASE G!AbandonGame(q)
  <2> DEFINE new == [p \in {q} \cup G!Other(q) |-> NoGame]
  <2>1. new \in [{q} \cup G!Other(q) -> Games] /\ \A p \in {q} \cup G!Other(q) : new[p] = NoGame
    BY GameConstants
  <2>2. /\ loaded' \subseteq Actor /\ UNCHANGED <<G!request, counted, matches, torn>>
        /\ G!Put(new)
    BY <1>1, <1>3 DEF G!AbandonGame
  <2> HIDE DEF new
  <2> QED BY <1>1, <2>1, <2>2, GamesPut
<1>4. CASE G!ResignGame(q) \/ \E c \in G!Color : G!AcceptDraw(q, c)
  <2>1. /\ loaded' \subseteq Actor /\ UNCHANGED <<G!request, matches, torn>>
        /\ G!EndGames({q}) /\ G!Active(q) # NoGame
    BY <1>1, <1>4 DEF G!ResignGame, G!AcceptDraw, G!EndAlone
  <2> QED BY <1>1, <2>1, GamesEnded
<1> QED BY <1>2, <1>3, <1>4

\* A draw is offered or declined.
LEMMA DrawOffered ==
  ASSUME GameInv, NEW q \in Actor, NEW c \in G!Color, G!OfferDraw(q, c) \/ G!DeclineDraw(q, c)
  PROVE  GameInv'
<1>1. G!Active(q) # NoGame /\ G!Active(q) \in G!GameState
  BY ActiveGame DEF G!OfferDraw, G!DeclineDraw, Games
<1>2. q \notin torn => G!Active(q).match \in matches /\ counted[q][G!Active(q).match] = 0
  BY <1>1, ActiveGame DEF NotCounted
<1>3. PICK d \in {"white", "black", "none"} :
        /\ G!Put([p \in {q} |-> [G!Active(q) EXCEPT !.offer = d]])
        /\ loaded' = loaded \cup {q} /\ UNCHANGED <<G!request, counted, matches, torn>>
  BY DEF G!OfferDraw, G!DeclineDraw, G!Color
<1> DEFINE new == [p \in {q} |-> [G!Active(q) EXCEPT !.offer = d]]
<1>4. new \in [{q} -> Games] /\ new[q].match = G!Active(q).match
  BY <1>1, SameMatch DEF Games
<1>5. loaded' \subseteq Actor /\ matches \subseteq Match
  BY <1>3 DEF GameInv, GameTypeInv
<1> HIDE DEF new
<1> QED BY <1>2, <1>3, <1>4, <1>5, GamesPut DEF new

\* An object is dropped, or the process ends, also while a game is ended.
LEMMA ObjectsLost ==
  ASSUME GameInv, NEW q \in Actor, G!Invalidate(q) \/ G!Crash \/ G!CrashInEnd(q)
  PROVE  GameInv'
<1>1. CASE G!Invalidate(q)
  BY <1>1, GameConstants DEF G!Invalidate, GameInv, GameTypeInv, CountInv, NotCounted
<1>2. CASE G!Crash
  BY <1>2, GameConstants DEF G!Crash, G!Restarted, GameInv, GameTypeInv, CountInv, NotCounted
<1>3. CASE G!CrashInEnd(q)
  <2> DEFINE m == G!Active(q).match
  <2>1. m \in Match /\ (q \notin torn => m \in matches /\ counted[q][m] = 0)
    BY <1>3, ActiveGame DEF G!CrashInEnd, NotCounted, Games, G!GameState
  <2>2. counted' = [counted EXCEPT ![q][m] = @ + 1] /\ counted' \in [Actor -> [Match -> Nat]]
    BY <1>3, <2>1 DEF G!CrashInEnd, GameInv, GameTypeInv
  <2>3. /\ loaded' = Actor /\ game' = file' /\ playersAsked' = {} /\ stale' = {}
        /\ old' = [p \in Actor |-> NoGame] /\ matches' = matches
    BY <1>3 DEF G!CrashInEnd, G!Restarted
  <2>4. \/ torn' = torn \cup {q} /\ file' = file
        \/ torn' = torn /\ file' = [file EXCEPT ![q] = NoGame]
    BY <1>3 DEF G!CrashInEnd
  <2> HIDE DEF m
  <2>5. GameTypeInv'
    BY <2>2, <2>3, <2>4, GameConstants DEF GameInv, GameTypeInv
  <2>6. \A p \in Actor \ torn' : CountInv(p)'
    BY <2>1, <2>2, <2>3, <2>4 DEF GameInv, GameTypeInv, CountInv, NotCounted
  <2> QED BY <2>5, <2>6 DEF GameInv
<1> QED BY <1>1, <1>2, <1>3

LEMMA GameNext == GameInv /\ G!Next => GameInv'
<1> SUFFICES ASSUME GameInv, G!Next PROVE GameInv'
  OBVIOUS
<1>1. CASE G!Crash
  BY <1>1, GameConstants DEF G!Crash, G!Restarted, GameInv, GameTypeInv, CountInv, NotCounted
<1>2. ASSUME NEW q \in Actor,
             \/ \E o \in Actor \cup {Human}, c \in G!Color, m \in Match : G!StartGame(q, o, c, m)
             \/ G!MakeMove(q) \/ G!RequestMove(q) \/ G!ChessMove(q) \/ G!MoveAnswered(q)
             \/ G!EndGame(q) \/ G!AbandonGame(q) \/ G!ResignGame(q)
             \/ \E c \in G!Color : G!OfferDraw(q, c) \/ G!AcceptDraw(q, c) \/ G!DeclineDraw(q, c)
             \/ G!Invalidate(q) \/ G!CrashInEnd(q)
      PROVE  GameInv'
  BY <1>2, GameStarts, QubeMoves, MoveCopied, GameEnds, DrawOffered, ObjectsLost
<1> QED BY <1>1, <1>2 DEF G!Next

-----------------------------------------------------------------------------
(* Game: who plays which match *)

Same(g, h) ==
  /\ g = NoGame <=> h = NoGame
  /\ g # NoGame => h.match = g.match /\ h.white = g.white /\ h.black = g.black

\* Qube q has game g, of a match that white and black play.
Fits(q, g, ms, white, black) ==
  g # NoGame =>
    /\ g.match \in ms /\ g.white = white[g.match] /\ g.black = black[g.match]
    /\ q \in {g.white, g.black} /\ g.white # g.black

\* All games of one match have the same two players.
PlayersInv ==
  /\ before \in [Actor -> Games]
  /\ \E white, black \in [Match -> Actor \cup {Human}] :
       \A q \in Actor : /\ Fits(q, game[q], matches, white, black)
                        /\ Fits(q, file[q], matches, white, black)
                        /\ Fits(q, old[q], matches, white, black)
                        /\ Fits(q, before[q], matches, white, black)

\* Game g is of a match that one side has left.
Loose(g, left) == g = NoGame \/ g.match \in left

\* The manager in the cache has the game of the file, or both are of such matches.
BooksInv ==
  /\ \A q \in loaded :
       \/ game[q] = file[q]
       \/ Loose(game[q], onesided) /\ file[q] # NoGame /\ Loose(file[q], onesided)
  /\ \A q \in playersAsked : before[q] # NoGame /\ (q \in stale \/ q \in loaded)

\* Otherwise both players have the match.
OwnInv ==
  \A q, o \in Actor :
    ~Loose(G!Active(q), onesided) /\ o = G!Opponent(G!Active(q), q)
      => G!Active(o) # NoGame /\ G!Active(o).match = G!Active(q).match

MatchInv == GameInv /\ PlayersInv /\ BooksInv /\ OwnInv

\* The active game of q after a step.
After(q) == IF q \in loaded' THEN game'[q] ELSE file'[q]

LEMMA MatchInit == G!Init => MatchInv
<1> SUFFICES ASSUME G!Init PROVE MatchInv
  OBVIOUS
<1>1. \A q \in Actor : game[q] = NoGame /\ file[q] = NoGame /\ old[q] = NoGame /\ before[q] = NoGame
  BY DEF G!Init
<1>2. PlayersInv
  <2> DEFINE w == [m \in Match |-> Human]
  <2>1. w \in [Match -> Actor \cup {Human}]
    OBVIOUS
  <2> HIDE DEF w
  <2>2. before \in [Actor -> Games]
    BY GameConstants DEF G!Init
  <2>3. \A q \in Actor : /\ Fits(q, game[q], matches, w, w) /\ Fits(q, file[q], matches, w, w)
                         /\ Fits(q, old[q], matches, w, w) /\ Fits(q, before[q], matches, w, w)
    BY <1>1 DEF Fits
  <2> QED BY <2>1, <2>2, <2>3 DEF PlayersInv
<1>3. BooksInv
  BY DEF G!Init, BooksInv
<1>4. OwnInv
  BY <1>1 DEF OwnInv, Loose, G!Active
<1> QED BY <1>2, <1>3, <1>4, GameInit DEF MatchInv

\* What the active games of two Qubes are.
LEMMA ActivePlayers ==
  ASSUME GameInv, PlayersInv
  PROVE  /\ \A q \in Actor : G!Active(q) # NoGame =>
              /\ G!Active(q) \in G!GameState /\ G!Active(q).match \in matches
              /\ q \in {G!Active(q).white, G!Active(q).black} /\ G!Active(q).white # G!Active(q).black
         /\ \A p, q \in Actor :
              G!Active(p) # NoGame /\ G!Active(q) # NoGame /\ G!Active(p).match = G!Active(q).match
                => G!Active(p).white = G!Active(q).white /\ G!Active(p).black = G!Active(q).black
<1>1. PICK white, black \in [Match -> Actor \cup {Human}] :
        \A q \in Actor : /\ Fits(q, game[q], matches, white, black)
                         /\ Fits(q, file[q], matches, white, black)
  BY DEF PlayersInv
<1>2. \A q \in Actor : Fits(q, G!Active(q), matches, white, black)
  BY <1>1 DEF G!Active
<1>3. \A q \in Actor : G!Active(q) \in Games
  BY ActiveGame
<1> QED BY <1>2, <1>3 DEF Fits, Games

\* Games come from games of the same match.
From(q, g) ==
  \/ g = NoGame
  \/ \E h \in {game[q], file[q], old[q], before[q]} : h # NoGame /\ Same(h, g)

LEMMA FromOne ==
  ASSUME NEW q \in Actor
  PROVE  /\ From(q, NoGame) /\ From(q, game[q]) /\ From(q, file[q]) /\ From(q, old[q])
         /\ From(q, before[q]) /\ From(q, G!Active(q))
         /\ \A g : Same(G!Active(q), g) => From(q, g)
         /\ \A g : Same(game[q], g) => From(q, g)
         /\ \A g : Same(old[q], g) => From(q, g)
<1>1. \A h \in {game[q], file[q], old[q], before[q]} : \A g : Same(h, g) => From(q, g)
  BY DEF From, Same
<1>2. \A h : Same(h, h)
  BY DEF Same
<1>3. G!Active(q) \in {game[q], file[q], old[q], before[q]}
  BY DEF G!Active
<1>4. From(q, NoGame)
  BY DEF From
<1> QED BY <1>1, <1>2, <1>3, <1>4

LEMMA PlayersKept ==
  ASSUME GameInv, PlayersInv, before' \in [Actor -> Games], matches \subseteq matches',
         \A q \in Actor : From(q, game'[q]) /\ From(q, file'[q]) /\ From(q, old'[q]) /\ From(q, before'[q])
  PROVE  PlayersInv'
<1>1. PICK white, black \in [Match -> Actor \cup {Human}] :
        \A q \in Actor : /\ Fits(q, game[q], matches, white, black)
                         /\ Fits(q, file[q], matches, white, black)
                         /\ Fits(q, old[q], matches, white, black)
                         /\ Fits(q, before[q], matches, white, black)
  BY DEF PlayersInv
<1>2. \A q \in Actor : \A g : From(q, g) => Fits(q, g, matches', white, black)
  BY <1>1 DEF From, Fits, Same
<1>3. \A q \in Actor : /\ Fits(q, game'[q], matches', white, black)
                       /\ Fits(q, file'[q], matches', white, black)
                       /\ Fits(q, old'[q], matches', white, black)
                       /\ Fits(q, before'[q], matches', white, black)
  BY <1>2
<1> QED BY <1>3 DEF PlayersInv

\* A Qube keeps its match, or leaves one that no other Qube has, or that is known to be left.
LEMMA OwnKept ==
  ASSUME OwnInv, onesided \subseteq onesided',
         \A q \in Actor :
           \/ Same(G!Active(q), After(q))
           \/ /\ Loose(After(q), onesided')
              /\ \/ Loose(G!Active(q), onesided')
                 \/ \A r \in Actor : G!Active(r) # NoGame /\ G!Active(r).match = G!Active(q).match
                                       => Loose(After(r), onesided')
  PROVE  OwnInv'
<1>1. ASSUME NEW q \in Actor, NEW o \in Actor, ~Loose(After(q), onesided'),
             o = G!Opponent(After(q), q)
      PROVE  After(o) # NoGame /\ After(o).match = After(q).match
  <2>1. Same(G!Active(q), After(q)) /\ After(q) # NoGame /\ After(q).match \notin onesided'
    BY <1>1 DEF Loose
  <2>2. ~Loose(G!Active(q), onesided) /\ o = G!Opponent(G!Active(q), q)
    BY <1>1, <2>1 DEF Loose, Same, G!Opponent
  <2>3. G!Active(o) # NoGame /\ G!Active(o).match = G!Active(q).match
    BY <2>2 DEF OwnInv
  <2>4. ~Loose(G!Active(o), onesided')
    BY <2>1, <2>3 DEF Loose, Same
  <2>5. Same(G!Active(o), After(o))
    BY <1>1, <2>1, <2>3, <2>4 DEF Loose, Same
  <2> QED BY <2>1, <2>3, <2>5 DEF Same
<1> QED BY <1>1 DEF OwnInv, After, Loose, G!Active, G!Opponent

\* A game of the same match is saved for q.
LEMMA GameSaved ==
  ASSUME MatchInv, GameInv', NEW q \in Actor, NEW new \in [{q} -> Games],
         G!Put(new), Same(G!Active(q), new[q]), loaded' = loaded \cup {q},
         UNCHANGED <<matches, onesided>>, before' \in [Actor -> Games],
         \A p \in Actor : old'[p] \in {old[p], NoGame} /\ before'[p] \in {before[p], NoGame},
         playersAsked' \subseteq playersAsked, playersAsked' \ stale' \subseteq playersAsked \ stale,
         \A p \in playersAsked' : before'[p] = before[p]
  PROVE  MatchInv'
<1>1. \A p \in Actor : /\ game'[p] = IF p = q THEN new[q] ELSE game[p]
                       /\ file'[p] = IF p = q THEN new[q] ELSE file[p]
  BY DEF G!Put
<1>2. PlayersInv'
  <2>1. \A p \in Actor : From(p, game'[p]) /\ From(p, file'[p])
    BY <1>1, FromOne
  <2>2. \A p \in Actor : From(p, old'[p]) /\ From(p, before'[p])
    BY FromOne
  <2> QED BY <2>1, <2>2, PlayersKept DEF MatchInv
<1>3. BooksInv'
  BY <1>1 DEF MatchInv, BooksInv, GameInv, GameTypeInv
<1>4. \A p \in Actor : Same(G!Active(p), After(p))
  BY <1>1 DEF Same, After, G!Active
<1>5. OwnInv'
  BY <1>4, OwnKept DEF MatchInv
<1> QED BY <1>2, <1>3, <1>5 DEF MatchInv

\* The games of the Qubes of Q go, and with them all games of their matches, or these are left.
LEMMA GamesGo ==
  ASSUME MatchInv, GameInv', NEW Q \in SUBSET Actor, NEW new \in [Q -> {NoGame}],
         G!Put(new), loaded' = loaded \cup Q, UNCHANGED <<matches, G!request>>,
         onesided \subseteq onesided',
         \A q \in Q, r \in Actor \ Q :
           G!Active(q) # NoGame /\ G!Active(r) # NoGame /\ G!Active(q).match = G!Active(r).match
             => G!Active(q).match \in onesided'
  PROVE  MatchInv'
<1>1. \A p \in Actor : /\ game'[p] = IF p \in Q THEN NoGame ELSE game[p]
                       /\ file'[p] = IF p \in Q THEN NoGame ELSE file[p]
  BY DEF G!Put
<1>2. PlayersInv'
  <2>1. \A p \in Actor : From(p, game'[p]) /\ From(p, file'[p]) /\ From(p, old'[p]) /\ From(p, before'[p])
    BY <1>1, FromOne DEF G!request
  <2>2. before' \in [Actor -> Games]
    BY DEF MatchInv, PlayersInv, G!request
  <2> QED BY <2>1, <2>2, PlayersKept DEF MatchInv
<1>3. BooksInv'
  BY <1>1 DEF MatchInv, BooksInv, GameInv, GameTypeInv, Loose, G!request
<1>4. \A p \in Actor : After(p) = IF p \in Q THEN NoGame ELSE G!Active(p)
  BY <1>1 DEF After, G!Active
<1>5. \A p \in Actor \ Q : Same(G!Active(p), After(p))
  BY <1>4 DEF Same
<1>6. \A p \in Q : /\ Loose(After(p), onesided')
                   /\ \/ Loose(G!Active(p), onesided')
                      \/ \A r \in Actor : G!Active(r) # NoGame /\ G!Active(r).match = G!Active(p).match
                                            => Loose(After(r), onesided')
  BY <1>4 DEF Loose
<1>7. OwnInv'
  BY <1>5, <1>6, OwnKept DEF MatchInv
<1> QED BY <1>2, <1>3, <1>7 DEF MatchInv

\* A game is started: it is in both managers, or in none.
LEMMA MatchStarts ==
  ASSUME MatchInv, GameInv', NEW q \in Actor, NEW o \in Actor \cup {Human}, NEW c \in G!Color,
         NEW m \in Match, G!StartGame(q, o, c, m)
  PROVE  MatchInv'
<1> DEFINE g == [match |-> m, white |-> IF c = "white" THEN q ELSE o,
                 black |-> IF c = "white" THEN o ELSE q, moves |-> 0, offer |-> "none"]
<1>1. /\ o # q /\ m \notin matches /\ G!Active(q) = NoGame
      /\ loaded' = loaded \cup ({q, o} \cap Actor)
      /\ UNCHANGED <<G!request, counted, drops, gameCrashes, onesided, overwritten, torn>>
  BY DEF G!StartGame
<1>2. /\ g \in G!GameState /\ g # NoGame /\ g.match = m /\ {g.white, g.black} = {q, o} /\ g.white # g.black
  <2>1. g \in G!GameState /\ g.match = m /\ {g.white, g.black} = {q, o} /\ g.white # g.black
    BY <1>1, GameConstants DEF G!GameState
  <2>2. NoGame \notin G!GameState
    BY GameConstants
  <2> QED BY <2>1, <2>2
<1>3. before' \in [Actor -> Games] /\ old' = old /\ before' = before /\ playersAsked' = playersAsked /\ stale' = stale
  BY <1>1 DEF MatchInv, PlayersInv, G!request
<1>4. CASE /\ o \in Actor => G!Active(o) = NoGame
           /\ matches' = matches \cup {m} /\ G!Put([p \in {q, o} \cap Actor |-> g])
  <2> HIDE DEF g
  <2>1. \A p \in Actor : /\ game'[p] = IF p \in {q, o} THEN g ELSE game[p]
                         /\ file'[p] = IF p \in {q, o} THEN g ELSE file[p]
    BY <1>4 DEF G!Put
  <2>2. PlayersInv'
    <3>1. PICK white, black \in [Match -> Actor \cup {Human}] :
            \A p \in Actor : /\ Fits(p, game[p], matches, white, black)
                             /\ Fits(p, file[p], matches, white, black)
                             /\ Fits(p, old[p], matches, white, black)
                             /\ Fits(p, before[p], matches, white, black)
      BY DEF MatchInv, PlayersInv
    <3> DEFINE w == [white EXCEPT ![m] = g.white]
               b == [black EXCEPT ![m] = g.black]
    <3>2. w \in [Match -> Actor \cup {Human}] /\ b \in [Match -> Actor \cup {Human}]
      BY <1>2 DEF G!GameState
    <3>3. w[m] = g.white /\ b[m] = g.black /\ \A k \in matches : w[k] = white[k] /\ b[k] = black[k]
      BY <1>1 DEF MatchInv, GameInv, GameTypeInv
    <3> HIDE DEF w, b
    <3>4. \A p \in Actor : \A h : Fits(p, h, matches, white, black) => Fits(p, h, matches', w, b)
      BY <1>4, <3>3 DEF Fits
    <3>5. \A p \in {q, o} : Fits(p, g, matches', w, b)
      BY <1>2, <1>4, <3>3 DEF Fits
    <3>6. \A p \in Actor : /\ Fits(p, game'[p], matches', w, b) /\ Fits(p, file'[p], matches', w, b)
                           /\ Fits(p, old'[p], matches', w, b) /\ Fits(p, before'[p], matches', w, b)
      BY <1>3, <2>1, <3>1, <3>4, <3>5
    <3> QED BY <1>3, <3>2, <3>6 DEF PlayersInv
  <2>3. BooksInv'
    BY <1>1, <1>3, <2>1 DEF MatchInv, BooksInv, GameInv, GameTypeInv
  <2>4. \A p \in Actor : After(p) = IF p \in {q, o} THEN g ELSE G!Active(p)
    BY <1>1, <2>1 DEF After, G!Active
  <2>5. OwnInv'
    <3>1. ASSUME NEW r \in Actor, NEW s \in Actor, ~Loose(After(r), onesided), s = G!Opponent(After(r), r)
          PROVE  After(s) # NoGame /\ After(s).match = After(r).match
      <4>1. CASE r \in {q, o}
        BY <1>2, <2>4, <3>1, <4>1 DEF G!Opponent
      <4>2. CASE r \notin {q, o}
        <5>1. G!Active(s) # NoGame /\ G!Active(s).match = G!Active(r).match
          BY <2>4, <3>1, <4>2 DEF MatchInv, OwnInv
        <5>2. s \notin {q, o}
          BY <1>1, <1>4, <5>1
        <5> QED BY <2>4, <4>2, <5>1, <5>2
      <4> QED BY <4>1, <4>2
    <3> QED BY <1>1, <3>1 DEF OwnInv, After, Loose, G!Active, G!Opponent
  <2> QED BY <2>2, <2>3, <2>5 DEF MatchInv
<1>5. CASE /\ o \in Actor /\ game' = [game EXCEPT ![q] = NoGame, ![o] = G!Active(o)]
           /\ file' = [file EXCEPT ![q] = NoGame] /\ UNCHANGED matches
  <2> HIDE DEF g
  <2>1. \A p \in Actor : /\ game'[p] = IF p = o THEN G!Active(o) ELSE IF p = q THEN NoGame ELSE game[p]
                         /\ file'[p] = IF p = q THEN NoGame ELSE file[p]
    BY <1>1, <1>5 DEF MatchInv, GameInv, GameTypeInv
  <2>2. PlayersInv'
    <3>1. \A p \in Actor : From(p, game'[p]) /\ From(p, file'[p]) /\ From(p, old'[p]) /\ From(p, before'[p])
      BY <1>3, <2>1, FromOne
    <3> QED BY <1>3, <1>5, <3>1, PlayersKept DEF MatchInv
  <2>3. BooksInv'
    BY <1>1, <1>3, <1>5, <2>1 DEF MatchInv, BooksInv, GameInv, GameTypeInv, G!Active
  <2>4. \A p \in Actor : After(p) = G!Active(p)
    BY <1>1, <1>5, <2>1 DEF After, G!Active
  <2>5. OwnInv'
    BY <1>1, <2>4, OwnKept DEF MatchInv, Same
  <2> QED BY <2>2, <2>3, <2>5 DEF MatchInv
<1> QED BY <1>4, <1>5 DEF G!StartGame

\* The user moves, or a draw is offered or declined.
LEMMA MatchGoesOn ==
  ASSUME MatchInv, GameInv', NEW q \in Actor,
         \/ G!MakeMove(q)
         \/ \E c \in G!Color : G!OfferDraw(q, c) \/ G!DeclineDraw(q, c)
  PROVE  MatchInv'
<1>1. G!Active(q) # NoGame /\ G!Active(q) \in G!GameState
  BY ActiveGame DEF MatchInv, G!MakeMove, G!MayMove, G!OfferDraw, G!DeclineDraw, Games
<1>2. PICK h \in Games : /\ Same(G!Active(q), h) /\ G!Put([p \in {q} |-> h])
                         /\ loaded' = loaded \cup {q} /\ UNCHANGED <<G!request, matches, onesided>>
  <2>1. CASE G!MakeMove(q)
    <3>1. G!Active(q).moves < MaxMoves
      BY <2>1 DEF G!MakeMove, G!MayMove
    <3>2. G!Moved(G!Active(q)) \in Games /\ Same(G!Active(q), G!Moved(G!Active(q)))
      <4>1. G!Moved(G!Active(q)) \in G!GameState
        BY <1>1, <3>1, SameMatch
      <4>2. G!Moved(G!Active(q)) # NoGame
        BY <4>1, GameConstants
      <4> QED BY <1>1, <4>1, <4>2 DEF Same, Games, G!Moved, G!GameState
    <3> QED BY <2>1, <3>2 DEF G!MakeMove
  <2>2. ASSUME NEW c \in G!Color, G!OfferDraw(q, c) \/ G!DeclineDraw(q, c)
        PROVE  \E h \in Games : /\ Same(G!Active(q), h) /\ G!Put([p \in {q} |-> h])
                                /\ loaded' = loaded \cup {q} /\ UNCHANGED <<G!request, matches, onesided>>
    <3>1. PICK d \in {"white", "black", "none"} :
            /\ G!Put([p \in {q} |-> [G!Active(q) EXCEPT !.offer = d]])
            /\ loaded' = loaded \cup {q} /\ UNCHANGED <<G!request, matches, onesided>>
      BY <2>2 DEF G!OfferDraw, G!DeclineDraw, G!Color
    <3> DEFINE h == [G!Active(q) EXCEPT !.offer = d]
    <3>2. h \in G!GameState
      BY <1>1, SameMatch
    <3>3. h # NoGame
      BY <3>2, GameConstants
    <3>4. Same(G!Active(q), h)
      BY <1>1, <3>3 DEF Same, G!GameState
    <3> HIDE DEF h
    <3> QED BY <3>1, <3>2, <3>4 DEF Games, h
  <2> QED BY <2>1, <2>2
<1> DEFINE new == [p \in {q} |-> h]
<1>3. new \in [{q} -> Games] /\ new[q] = h
  OBVIOUS
<1>4. before' \in [Actor -> Games] /\ old' = old /\ before' = before /\ playersAsked' = playersAsked /\ stale' = stale
  BY <1>2 DEF MatchInv, PlayersInv, G!request
<1> HIDE DEF new
<1> QED BY <1>2, <1>3, <1>4, GameSaved DEF new

\* A Qube is asked for a move.
LEMMA MatchAsked ==
  ASSUME MatchInv, GameInv', NEW q \in Actor, G!RequestMove(q)
  PROVE  MatchInv'
<1>1. /\ G!Active(q) # NoGame /\ loaded' = loaded \cup {q} /\ playersAsked' = playersAsked \cup {q}
      /\ game' = [game EXCEPT ![q] = G!Active(q)] /\ before' = [before EXCEPT ![q] = G!Active(q)]
      /\ UNCHANGED <<file, stale, old, matches, onesided>>
  BY DEF G!RequestMove
<1>2. G!Active(q) \in Games
  BY ActiveGame DEF MatchInv
<1>3. \A p \in Actor : /\ game'[p] = IF p = q THEN G!Active(q) ELSE game[p]
                       /\ before'[p] = IF p = q THEN G!Active(q) ELSE before[p]
  BY <1>1 DEF MatchInv, PlayersInv, GameInv, GameTypeInv
<1>4. PlayersInv'
  <2>1. before' \in [Actor -> Games]
    BY <1>1, <1>2 DEF MatchInv, PlayersInv
  <2>2. \A p \in Actor : From(p, game'[p]) /\ From(p, file'[p]) /\ From(p, old'[p]) /\ From(p, before'[p])
    BY <1>1, <1>3, FromOne
  <2> QED BY <1>1, <2>1, <2>2, PlayersKept DEF MatchInv
<1>5. BooksInv'
  BY <1>1, <1>3 DEF MatchInv, BooksInv, GameInv, GameTypeInv, G!Active
<1>6. \A p \in Actor : After(p) = G!Active(p)
  BY <1>1, <1>3 DEF After, G!Active
<1>7. OwnInv'
  BY <1>1, <1>6, OwnKept DEF MatchInv, Same
<1> QED BY <1>4, <1>5, <1>7 DEF MatchInv

\* It makes the move, on its object in the cache or on one that was dropped.
LEMMA MatchMoved ==
  ASSUME MatchInv, GameInv', NEW q \in Actor, G!ChessMove(q)
  PROVE  MatchInv'
<1> DEFINE g == IF q \in stale THEN old[q] ELSE game[q]
           h == G!Moved(g)
<1>1. /\ q \in playersAsked /\ g # NoGame /\ g.moves < MaxMoves /\ file' = [file EXCEPT ![q] = h]
      /\ UNCHANGED <<loaded, playersAsked, before, stale, matches>>
  BY DEF G!ChessMove, G!MayMove
<1>2. g \in G!GameState
  BY <1>1 DEF MatchInv, GameInv, GameTypeInv, Games
<1>3. h \in Games /\ h # NoGame /\ Same(g, h)
  <2>1. h \in G!GameState
    BY <1>1, <1>2, SameMatch
  <2>2. h # NoGame
    BY <2>1, GameConstants
  <2> QED BY <1>1, <1>2, <2>1, <2>2 DEF Same, Games, G!Moved, G!GameState
<1>4. before' \in [Actor -> Games]
  BY <1>1 DEF MatchInv, PlayersInv
<1>5. CASE q \in stale
  <2>1. /\ old' = [old EXCEPT ![q] = h] /\ game' = game /\ g = old[q]
        /\ onesided' = onesided \cup {g.match} \cup G!Filed(q)
    BY <1>5 DEF G!ChessMove
  <2> HIDE DEF g, h
  <2>2. \A p \in Actor : /\ file'[p] = IF p = q THEN h ELSE file[p]
                         /\ old'[p] = IF p = q THEN h ELSE old[p]
    BY <1>1, <2>1 DEF MatchInv, GameInv, GameTypeInv
  <2>3. PlayersInv'
    <3>1. \A p \in Actor : From(p, game'[p]) /\ From(p, file'[p]) /\ From(p, old'[p]) /\ From(p, before'[p])
      BY <1>1, <1>3, <2>1, <2>2, FromOne
    <3> QED BY <1>1, <1>4, <3>1, PlayersKept DEF MatchInv
  <2>4. h.match \in onesided' /\ onesided \subseteq onesided' /\ Loose(file[q], onesided')
    BY <1>1, <1>3, <2>1 DEF Same, Loose, G!Filed
  <2>5. q \in loaded => Loose(game[q], onesided')
    BY <2>4 DEF MatchInv, BooksInv, Loose
  <2>6. BooksInv'
    BY <1>1, <1>3, <2>1, <2>2, <2>4, <2>5 DEF MatchInv, BooksInv, Loose, GameInv, GameTypeInv
  <2>7. \A p \in Actor \ {q} : Same(G!Active(p), After(p))
    BY <1>1, <2>1, <2>2 DEF Same, After, G!Active
  <2>8. Loose(G!Active(q), onesided') /\ Loose(After(q), onesided')
    BY <1>1, <2>1, <2>2, <2>4, <2>5 DEF After, G!Active, Loose
  <2>9. OwnInv'
    BY <2>4, <2>7, <2>8, OwnKept DEF MatchInv
  <2> QED BY <2>3, <2>6, <2>9 DEF MatchInv
<1>6. CASE q \notin stale
  <2>1. game' = [game EXCEPT ![q] = h] /\ g = game[q] /\ UNCHANGED <<old, onesided>>
    BY <1>6 DEF G!ChessMove
  <2> HIDE DEF g, h
  <2>2. \A p \in Actor : /\ file'[p] = IF p = q THEN h ELSE file[p]
                         /\ game'[p] = IF p = q THEN h ELSE game[p]
    BY <1>1, <2>1 DEF MatchInv, GameInv, GameTypeInv
  <2>3. PlayersInv'
    <3>1. \A p \in Actor : From(p, game'[p]) /\ From(p, file'[p]) /\ From(p, old'[p]) /\ From(p, before'[p])
      BY <1>1, <1>3, <2>1, <2>2, FromOne
    <3> QED BY <1>1, <1>4, <3>1, PlayersKept DEF MatchInv
  <2>4. BooksInv'
    BY <1>1, <2>1, <2>2 DEF MatchInv, BooksInv, GameInv, GameTypeInv
  <2>5. q \in loaded
    BY <1>1, <1>6 DEF MatchInv, BooksInv
  <2>6. \A p \in Actor : Same(G!Active(p), After(p))
    BY <1>1, <1>3, <2>1, <2>2, <2>5 DEF Same, After, G!Active
  <2>7. OwnInv'
    BY <2>1, <2>6, OwnKept DEF MatchInv
  <2> QED BY <2>3, <2>4, <2>7 DEF MatchInv
<1> QED BY <1>5, <1>6

\* The move is copied to the opponent.
LEMMA MatchAnswered ==
  ASSUME MatchInv, GameInv', NEW q \in Actor, G!MoveAnswered(q)
  PROVE  MatchInv'
<1> DEFINE g == IF q \in stale THEN old[q] ELSE game[q]
           o == IF g = NoGame THEN Human ELSE G!Opponent(g, q)
           new == [p \in {o} |-> G!Synced(o, g)]
<1>1. /\ q \in playersAsked /\ playersAsked' = playersAsked \ {q} /\ stale' = stale \ {q}
      /\ before' = [before EXCEPT ![q] = NoGame] /\ old' = [old EXCEPT ![q] = NoGame]
      /\ UNCHANGED <<matches, onesided>>
  BY DEF G!MoveAnswered
<1>2. before' \in [Actor -> Games]
  BY <1>1, GameConstants DEF MatchInv, PlayersInv
<1>3. /\ \A p \in Actor : old'[p] \in {old[p], NoGame} /\ before'[p] \in {before[p], NoGame}
      /\ \A p \in playersAsked' : before'[p] = before[p]
      /\ playersAsked' \subseteq playersAsked /\ playersAsked' \ stale' \subseteq playersAsked \ stale
  BY <1>1 DEF MatchInv, PlayersInv, GameInv, GameTypeInv
<1>4. CASE /\ g # NoGame /\ o \in Actor /\ G!Active(o) # NoGame
           /\ loaded' = loaded \cup {o} /\ G!Put(new)
  <2>1. g.moves \in 0 .. MaxMoves /\ G!Active(o) \in G!GameState
    BY <1>4, ActiveGame DEF MatchInv, GameInv, GameTypeInv, Games, G!GameState
  <2>2. new[o] = [G!Active(o) EXCEPT !.moves = g.moves]
    BY DEF G!Synced
  <2>3. new[o] \in Games /\ Same(G!Active(o), new[o])
    <3> DEFINE h == G!Active(o)
               n == g.moves
    <3> HIDE DEF new, o, g
    <3>1. h \in G!GameState /\ h # NoGame /\ n \in 0 .. MaxMoves /\ new[o] = [h EXCEPT !.moves = n]
      BY <1>4, <2>1, <2>2
    <3> HIDE DEF h, n
    <3>2. new[o] \in G!GameState
      BY <3>1 DEF G!GameState
    <3>3. new[o] # NoGame
      BY <3>2, GameConstants
    <3>4. Same(h, new[o])
      BY <3>1, <3>3 DEF Same, G!GameState
    <3> QED BY <3>2, <3>4 DEF Games, h
  <2>4. new \in [{o} -> Games]
    BY <2>3
  <2> HIDE DEF new, g, o
  <2> QED BY <1>1, <1>2, <1>3, <1>4, <2>3, <2>4, GameSaved
<1>5. CASE UNCHANGED G!books
  <2>1. game' = game /\ file' = file /\ loaded' = loaded
    BY <1>5 DEF G!books
  <2>2. PlayersInv'
    <3>1. \A p \in Actor : From(p, game'[p]) /\ From(p, file'[p]) /\ From(p, old'[p]) /\ From(p, before'[p])
      BY <1>3, <2>1, FromOne
    <3> QED BY <1>1, <1>2, <3>1, PlayersKept DEF MatchInv
  <2>3. BooksInv'
    BY <1>1, <1>3, <2>1 DEF MatchInv, BooksInv
  <2>4. OwnInv'
    BY <1>1, <2>1 DEF MatchInv, OwnInv, G!Active
  <2> QED BY <2>2, <2>3, <2>4 DEF MatchInv
<1> QED BY <1>4, <1>5 DEF G!MoveAnswered

\* A game ends or is abandoned, in the manager of the Qube or in both.
LEMMA MatchEnds ==
  ASSUME MatchInv, GameInv', NEW q \in Actor,
         \/ G!EndGame(q) \/ G!AbandonGame(q) \/ G!ResignGame(q)
         \/ \E c \in G!Color : G!AcceptDraw(q, c)
  PROVE  MatchInv'
<1>1. \A p \in Actor : G!Active(p) # NoGame =>
        p \in {G!Active(p).white, G!Active(p).black} /\ G!Active(p).white # G!Active(p).black
  BY ActivePlayers DEF MatchInv
<1>2. \A p, r \in Actor :
        G!Active(p) # NoGame /\ G!Active(r) # NoGame /\ G!Active(p).match = G!Active(r).match
          => G!Active(p).white = G!Active(r).white /\ G!Active(p).black = G!Active(r).black
  BY ActivePlayers DEF MatchInv
<1>3. \A p, r \in Actor :
        G!Active(p) # NoGame /\ G!Active(r) # NoGame /\ G!Active(p).match = G!Active(r).match /\ p # r
          => r = G!Opponent(G!Active(p), p)
  BY <1>1, <1>2 DEF G!Opponent
<1>4. CASE G!EndGame(q) \/ G!AbandonGame(q)
  <2> DEFINE Q == {q} \cup G!Other(q)
             new == [p \in Q |-> NoGame]
  <2>1. /\ G!Active(q) # NoGame /\ G!Put(new) /\ loaded' = loaded \cup Q
        /\ onesided' = onesided \cup G!OtherMatch(q) /\ UNCHANGED <<matches, G!request>>
    BY <1>4 DEF G!EndGame, G!AbandonGame, G!EndGames
  <2>2. Q \in SUBSET Actor /\ new \in [Q -> {NoGame}]
    BY DEF G!Other
  <2>3. ASSUME NEW p \in Q, NEW r \in Actor \ Q, G!Active(p) # NoGame, G!Active(r) # NoGame,
               G!Active(p).match = G!Active(r).match
        PROVE  G!Active(p).match \in onesided'
    <3>1. r \notin G!Other(q) /\ r # q /\ r # p
      OBVIOUS
    <3>2. r # G!Opponent(G!Active(q), q)
      BY <2>3, <3>1 DEF G!Other
    <3>3. p # q
      BY <1>3, <2>1, <2>3, <3>2
    <3>4. p \in G!Other(q)
      BY <3>3
    <3>5. CASE G!Active(p).match = G!Active(q).match
      BY <1>3, <2>1, <2>3, <3>1, <3>2, <3>5
    <3>6. CASE G!Active(p).match # G!Active(q).match
      BY <2>1, <3>4, <3>6 DEF G!OtherMatch
    <3> QED BY <3>5, <3>6
  <2> HIDE DEF new, Q
  <2> QED BY <2>1, <2>2, <2>3, GamesGo
<1>5. CASE G!ResignGame(q) \/ \E c \in G!Color : G!AcceptDraw(q, c)
  <2> DEFINE new == [p \in {q} |-> NoGame]
  <2>1. /\ G!Active(q) # NoGame /\ G!Put(new) /\ loaded' = loaded \cup {q}
        /\ onesided' = (IF G!Opponent(G!Active(q), q) \in Actor THEN onesided \cup {G!Active(q).match}
                                                               ELSE onesided)
        /\ UNCHANGED <<matches, G!request>>
    BY <1>5 DEF G!ResignGame, G!AcceptDraw, G!EndAlone, G!EndGames
  <2>2. {q} \in SUBSET Actor /\ new \in [{q} -> {NoGame}] /\ onesided \subseteq onesided'
    BY <2>1
  <2>3. \A p \in {q}, r \in Actor \ {q} :
          G!Active(p) # NoGame /\ G!Active(r) # NoGame /\ G!Active(p).match = G!Active(r).match
            => G!Active(p).match \in onesided'
    BY <1>3, <2>1
  <2> HIDE DEF new
  <2> QED BY <2>1, <2>2, <2>3, GamesGo
<1> QED BY <1>4, <1>5

\* The managers read the files.
LEMMA MatchReread ==
  ASSUME MatchInv, GameInv', loaded' = Actor, game' = file', playersAsked' = {},
         matches' = matches, old' = [p \in Actor |-> NoGame], before' = [p \in Actor |-> NoGame],
         \/ file' = file /\ onesided' = onesided
         \/ \E q \in Actor : /\ G!Active(q) # NoGame /\ file' = [file EXCEPT ![q] = NoGame]
                            /\ onesided' = onesided \cup {G!Active(q).match}
  PROVE  MatchInv'
<1>1. \A p \in Actor : file'[p] = file[p] \/ (file'[p] = NoGame /\ Loose(G!Active(p), onesided'))
  BY DEF MatchInv, GameInv, GameTypeInv, Loose
<1>2. \A p \in Actor : old'[p] = NoGame /\ before'[p] = NoGame
  OBVIOUS
<1>3. before' \in [Actor -> Games]
  BY GameConstants
<1>4. \A p \in Actor : From(p, game'[p]) /\ From(p, file'[p]) /\ From(p, old'[p]) /\ From(p, before'[p])
  BY <1>1, <1>2, FromOne
<1>5. PlayersInv'
  BY <1>3, <1>4, PlayersKept DEF MatchInv
<1>6. BooksInv'
  BY DEF BooksInv
<1>7. ASSUME NEW p \in Actor
      PROVE  \/ Same(G!Active(p), After(p))
             \/ Loose(After(p), onesided') /\ Loose(G!Active(p), onesided')
  <2>1. After(p) = file'[p]
    BY DEF After
  <2>2. G!Active(p) = file[p] \/ (Loose(G!Active(p), onesided) /\ Loose(file[p], onesided))
    BY DEF G!Active, MatchInv, BooksInv
  <2>3. onesided \subseteq onesided'
    OBVIOUS
  <2> QED BY <1>1, <2>1, <2>2, <2>3 DEF Same, Loose
<1>8. OwnInv'
  <2>1. onesided \subseteq onesided'
    OBVIOUS
  <2> QED BY <1>7, <2>1, OwnKept DEF MatchInv
<1> QED BY <1>5, <1>6, <1>8 DEF MatchInv

\* An object is dropped, or the process ends.
LEMMA MatchLost ==
  ASSUME MatchInv, GameInv', NEW q \in Actor, G!Invalidate(q) \/ G!Crash \/ G!CrashInEnd(q)
  PROVE  MatchInv'
<1>1. CASE G!Invalidate(q)
  <2>1. /\ q \in loaded /\ loaded' = loaded \ {q} /\ game' = [game EXCEPT ![q] = NoGame]
        /\ UNCHANGED <<file, playersAsked, before, matches, onesided>>
        /\ \/ q \in playersAsked /\ stale' = stale \cup {q} /\ old' = [old EXCEPT ![q] = game[q]]
           \/ (q \notin playersAsked \/ q \in stale) /\ stale' = stale /\ old' = old
    BY <1>1 DEF G!Invalidate
  <2>2. \A p \in Actor : /\ game'[p] = IF p = q THEN NoGame ELSE game[p]
                         /\ old'[p] = old[p] \/ (p = q /\ old'[p] = game[p])
    BY <2>1 DEF MatchInv, GameInv, GameTypeInv
  <2>3. before' \in [Actor -> Games]
    BY <2>1 DEF MatchInv, PlayersInv
  <2>4. \A p \in Actor : From(p, game'[p]) /\ From(p, file'[p]) /\ From(p, old'[p]) /\ From(p, before'[p])
    BY <2>1, <2>2, FromOne
  <2>5. PlayersInv'
    BY <2>1, <2>3, <2>4, PlayersKept DEF MatchInv
  <2>6. BooksInv'
    BY <2>1, <2>2 DEF MatchInv, BooksInv, GameInv, GameTypeInv
  <2>7. ASSUME NEW p \in Actor
        PROVE  \/ Same(G!Active(p), After(p))
               \/ Loose(After(p), onesided') /\ Loose(G!Active(p), onesided')
    <3>1. After(p) = IF p = q THEN file[p] ELSE G!Active(p)
      BY <2>1, <2>2 DEF After, G!Active
    <3>2. G!Active(q) = game[q]
      BY <2>1 DEF G!Active
    <3> QED BY <2>1, <3>1, <3>2 DEF Same, Loose, MatchInv, BooksInv
  <2>8. OwnInv'
    BY <2>1, <2>7, OwnKept DEF MatchInv
  <2> QED BY <2>5, <2>6, <2>8 DEF MatchInv
<1>2. CASE G!Crash
  BY <1>2, MatchReread DEF G!Crash, G!Restarted
<1>3. CASE G!CrashInEnd(q)
  BY <1>3, MatchReread DEF G!CrashInEnd, G!Restarted
<1> QED BY <1>1, <1>2, <1>3

LEMMA MatchNext == MatchInv /\ G!Next => MatchInv'
<1> SUFFICES ASSUME MatchInv, G!Next PROVE MatchInv'
  OBVIOUS
<1>1. GameInv'
  BY GameNext DEF MatchInv
<1>2. CASE G!Crash
  BY <1>1, <1>2, MatchReread DEF G!Crash, G!Restarted
<1>3. ASSUME NEW q \in Actor,
             \/ \E o \in Actor \cup {Human}, c \in G!Color, m \in Match : G!StartGame(q, o, c, m)
             \/ G!MakeMove(q) \/ G!RequestMove(q) \/ G!ChessMove(q) \/ G!MoveAnswered(q)
             \/ G!EndGame(q) \/ G!AbandonGame(q) \/ G!ResignGame(q)
             \/ \E c \in G!Color : G!OfferDraw(q, c) \/ G!AcceptDraw(q, c) \/ G!DeclineDraw(q, c)
             \/ G!Invalidate(q) \/ G!CrashInEnd(q)
      PROVE  MatchInv'
  BY <1>1, <1>3, MatchStarts, MatchGoesOn, MatchAsked, MatchMoved, MatchAnswered, MatchEnds, MatchLost
<1> QED BY <1>2, <1>3 DEF G!Next

-----------------------------------------------------------------------------
(* Game: the moves of a match *)

\* Without crashes and dropped objects the cache is the files.
Undisturbed == gameCrashes = 0 /\ drops = 0

\* A request of q after which the moves of its game are copied.
Changed(q) == q \in playersAsked /\ G!Position(before[q]) # G!Position(game[q])

\* Qube q is one move ahead of its opponent p, and will have it copied.
Ahead(q, p) ==
  /\ Changed(q) /\ game[q].moves = game[p].moves + 1
  /\ q = IF G!Turn(game[p].moves) = "white" THEN game[q].white ELSE game[q].black

Rivals(p, q) ==
  /\ p # q /\ game[p] # NoGame /\ game[q] # NoGame
  /\ game[p].match = game[q].match /\ game[p].match \notin overwritten

\* A game has the moves it had when its Qube was asked, and maybe more.
AskedInv ==
  \A q \in playersAsked :
    game[q] # NoGame /\ game[q].match = before[q].match /\ game[q].match \notin overwritten
      => before[q].moves <= game[q].moves

PairInv ==
  \A p, q \in Actor : Rivals(p, q) => game[p].moves = game[q].moves \/ Ahead(p, q) \/ Ahead(q, p)

MovesInv ==
  Undisturbed => /\ loaded = Actor /\ stale = {} /\ \A q \in Actor : game[q] = file[q]
                 /\ AskedInv /\ PairInv

\* What the players of a match and the moves of a game are.
LEMMA GamePlayers ==
  ASSUME MatchInv
  PROVE  /\ \A q \in Actor : game[q] # NoGame =>
              /\ game[q] \in G!GameState /\ game[q].match \in matches /\ game[q].moves \in 0 .. MaxMoves
              /\ q \in {game[q].white, game[q].black} /\ game[q].white # game[q].black
         /\ \A q \in playersAsked :
              /\ q \in Actor /\ before[q] \in G!GameState /\ before[q].match \in matches
              /\ before[q].moves \in 0 .. MaxMoves
         /\ \A p, q \in Actor :
              game[p] # NoGame /\ game[q] # NoGame /\ game[p].match = game[q].match
                => game[p].white = game[q].white /\ game[p].black = game[q].black
<1>1. PICK white, black \in [Match -> Actor \cup {Human}] :
        \A q \in Actor : Fits(q, game[q], matches, white, black) /\ Fits(q, before[q], matches, white, black)
  BY DEF MatchInv, PlayersInv
<1>2. \A q \in Actor : game[q] \in Games /\ before[q] \in Games
  BY DEF MatchInv, PlayersInv, GameInv, GameTypeInv
<1>3. \A g \in G!GameState : g.moves \in 0 .. MaxMoves
  BY DEF G!GameState
<1>4. \A q \in playersAsked : q \in Actor /\ before[q] # NoGame
  BY DEF MatchInv, BooksInv, GameInv, GameTypeInv
<1> QED BY <1>1, <1>2, <1>3, <1>4 DEF Fits, Games

\* Moves and players of two rivals.
LEMMA RivalPlayers ==
  ASSUME MatchInv, NEW p \in Actor, NEW q \in Actor, Rivals(p, q)
  PROVE  /\ game[p].moves \in 0 .. MaxMoves /\ game[q].moves \in 0 .. MaxMoves
         /\ game[p].white = game[q].white /\ game[p].black = game[q].black
         /\ {game[p].white, game[p].black} = {p, q} /\ game[p].white # game[p].black
BY GamePlayers DEF Rivals

LEMMA MovesInit == G!Init => MovesInv
BY DEF G!Init, MovesInv, AskedInv, PairInv, Rivals

\* The games that stay have the moves they had.
LEMMA MovesStay ==
  ASSUME MatchInv, MovesInv, Undisturbed, overwritten \subseteq overwritten',
         playersAsked' \subseteq playersAsked,
         \A p \in playersAsked' : before'[p] = before[p],
         \A p \in Actor :
           game'[p] # NoGame => /\ game[p] # NoGame /\ game'[p].match = game[p].match
                                /\ game'[p].moves = game[p].moves /\ game'[p].white = game[p].white
                                /\ game'[p].black = game[p].black,
         \A p \in playersAsked \ playersAsked' : ~Changed(p)
  PROVE  AskedInv' /\ PairInv'
<1>1. AskedInv'
  BY DEF MovesInv, AskedInv, MatchInv, GameInv, GameTypeInv
<1>2. ASSUME NEW p \in Actor, NEW q \in Actor, Rivals(p, q)'
      PROVE  (game[p].moves = game[q].moves \/ Ahead(p, q) \/ Ahead(q, p))'
  <2>1. Rivals(p, q)
    BY <1>2 DEF Rivals
  <2>2. game[p].moves = game[q].moves \/ Ahead(p, q) \/ Ahead(q, p)
    BY <2>1 DEF MovesInv, PairInv
  <2>3. game'[p] # NoGame /\ game'[q] # NoGame
    BY <1>2 DEF Rivals
  <2> QED BY <2>2, <2>3 DEF Ahead, Changed, G!Position
<1> QED BY <1>1, <1>2 DEF PairInv

\* What is counted and remembered beside the games.
RestInv ==
  /\ drops \in 0 .. MaxDrops /\ gameCrashes \in 0 .. MaxCrashes
  /\ onesided \subseteq Match /\ overwritten \subseteq Match /\ torn \subseteq Actor

LEMMA RestInit == G!Init => RestInv
BY ActivitiesAssumption DEF G!Init, RestInv, G!GameAssumption

LEMMA RestNext == MatchInv /\ RestInv /\ G!Next => RestInv'
<1> SUFFICES ASSUME MatchInv, RestInv, G!Next PROVE RestInv'
  OBVIOUS
<1>1. MaxDrops \in Nat /\ MaxCrashes \in Nat
  BY ActivitiesAssumption DEF G!GameAssumption
<1>2. \A p \in Actor : G!Active(p) # NoGame => G!Active(p).match \in Match
  BY ActivePlayers DEF MatchInv, G!GameState
<1>3. ASSUME G!Restarted PROVE gameCrashes' \in 0 .. MaxCrashes
  BY <1>1, <1>3 DEF RestInv, G!Restarted
<1>4. CASE G!Crash
  BY <1>3, <1>4 DEF RestInv, G!Crash
<1>5. ASSUME NEW q \in Actor, NEW o \in Actor \cup {Human}, NEW c \in G!Color, NEW m \in Match,
             G!StartGame(q, o, c, m)
      PROVE  RestInv'
  BY <1>5 DEF RestInv, G!StartGame
<1>6. ASSUME NEW q \in Actor,
             \/ G!MakeMove(q) \/ G!RequestMove(q)
             \/ \E c \in G!Color : G!OfferDraw(q, c) \/ G!DeclineDraw(q, c)
      PROVE  RestInv'
  BY <1>6 DEF RestInv, G!MakeMove, G!RequestMove, G!OfferDraw, G!DeclineDraw
<1>7. ASSUME NEW q \in Actor, G!ChessMove(q) PROVE RestInv'
  <2>1. G!Filed(q) \subseteq Match
    BY DEF G!Filed, MatchInv, GameInv, GameTypeInv, Games, G!GameState
  <2>2. q \in stale => old[q] # NoGame
    BY <1>7 DEF G!ChessMove, G!MayMove
  <2>3. q \in stale => old[q].match \in Match
    BY <2>2 DEF MatchInv, GameInv, GameTypeInv, Games, G!GameState
  <2> QED BY <1>7, <2>1, <2>3 DEF RestInv, G!ChessMove
<1>8. ASSUME NEW q \in Actor, G!MoveAnswered(q) PROVE RestInv'
  BY <1>2, <1>8 DEF RestInv, G!MoveAnswered
<1>9. ASSUME NEW q \in Actor, G!EndGame(q) \/ G!AbandonGame(q) PROVE RestInv'
  <2>1. G!OtherMatch(q) \subseteq Match
    BY <1>2 DEF G!OtherMatch, G!Other
  <2> QED BY <1>9, <2>1 DEF RestInv, G!EndGame, G!AbandonGame
<1>10. ASSUME NEW q \in Actor, G!ResignGame(q) \/ \E c \in G!Color : G!AcceptDraw(q, c) PROVE RestInv'
  BY <1>2, <1>10 DEF RestInv, G!ResignGame, G!AcceptDraw, G!EndAlone
<1>11. ASSUME NEW q \in Actor, G!Invalidate(q) PROVE RestInv'
  BY <1>1, <1>11 DEF RestInv, G!Invalidate
<1>12. ASSUME NEW q \in Actor, G!CrashInEnd(q) PROVE RestInv'
  BY <1>2, <1>3, <1>12 DEF RestInv, G!CrashInEnd
<1> QED BY <1>4, <1>5, <1>6, <1>7, <1>8, <1>9, <1>10, <1>11, <1>12 DEF G!Next

\* A started game has no moves in either manager.
LEMMA MovesStart ==
  ASSUME MatchInv, MovesInv, Undisturbed, NEW q \in Actor, NEW o \in Actor \cup {Human},
         NEW c \in G!Color, NEW m \in Match, G!StartGame(q, o, c, m)
  PROVE  MovesInv'
<1> DEFINE g == [match |-> m, white |-> IF c = "white" THEN q ELSE o,
                 black |-> IF c = "white" THEN o ELSE q, moves |-> 0, offer |-> "none"]
<1>1. /\ o # q /\ m \notin matches /\ loaded' = loaded \cup ({q, o} \cap Actor)
      /\ playersAsked' = playersAsked /\ before' = before /\ stale' = stale /\ overwritten' = overwritten
      /\ loaded = Actor /\ stale = {} /\ \A p \in Actor : game[p] = file[p]
  BY DEF G!StartGame, G!request, MovesInv
<1>2. CASE G!Put([p \in {q, o} \cap Actor |-> g])
  <2>1. \A p \in Actor : /\ game'[p] = IF p \in {q, o} THEN g ELSE game[p]
                         /\ file'[p] = IF p \in {q, o} THEN g ELSE file[p]
    BY <1>2 DEF G!Put
  <2>2. g.match = m /\ g.moves = 0
    OBVIOUS
  <2> HIDE DEF g
  <2>3. AskedInv'
    <3> SUFFICES ASSUME NEW p \in playersAsked, game'[p] # NoGame, game'[p].match = before[p].match,
                        game'[p].match \notin overwritten
                 PROVE  before[p].moves <= game'[p].moves
      BY <1>1 DEF AskedInv
    <3>1. p \in Actor /\ before[p].match \in matches
      BY GamePlayers
    <3>2. p \notin {q, o}
      BY <1>1, <2>1, <2>2, <3>1
    <3> QED BY <2>1, <3>1, <3>2 DEF MovesInv, AskedInv
  <2>4. PairInv'
    <3> SUFFICES ASSUME NEW p \in Actor, NEW r \in Actor, Rivals(p, r)'
                 PROVE  (game[p].moves = game[r].moves \/ Ahead(p, r) \/ Ahead(r, p))'
      BY DEF PairInv
    <3>1. /\ p # r /\ game'[p] # NoGame /\ game'[r] # NoGame /\ game'[p].match = game'[r].match
          /\ game'[p].match \notin overwritten
      BY <1>1 DEF Rivals
    <3>2. \A s \in Actor : game[s] # NoGame => game[s].match # m
      BY <1>1, GamePlayers
    <3>3. CASE p \in {q, o} /\ r \in {q, o}
      BY <2>1, <3>3
    <3>4. CASE p \notin {q, o} /\ r \notin {q, o}
      <4>1. Rivals(p, r) /\ game'[p] = game[p] /\ game'[r] = game[r]
        BY <2>1, <3>1, <3>4 DEF Rivals
      <4>2. game[p].moves = game[r].moves \/ Ahead(p, r) \/ Ahead(r, p)
        BY <4>1 DEF MovesInv, PairInv
      <4> QED BY <1>1, <4>1, <4>2 DEF Ahead, Changed, G!Position
    <3>5. ~(p \in {q, o} /\ r \notin {q, o}) /\ ~(p \notin {q, o} /\ r \in {q, o})
      BY <2>1, <2>2, <3>1, <3>2
    <3> QED BY <3>3, <3>4, <3>5
  <2> QED BY <1>1, <2>1, <2>3, <2>4 DEF MovesInv
<1>3. CASE /\ o \in Actor /\ game' = [game EXCEPT ![q] = NoGame, ![o] = G!Active(o)]
           /\ file' = [file EXCEPT ![q] = NoGame]
  <2>1. \A p \in Actor : /\ game'[p] = IF p = q THEN NoGame ELSE game[p]
                         /\ file'[p] = IF p = q THEN NoGame ELSE file[p]
    BY <1>1, <1>3 DEF MatchInv, GameInv, GameTypeInv, G!Active
  <2>2. AskedInv' /\ PairInv'
    BY <1>1, <2>1, MovesStay
  <2> QED BY <1>1, <2>1, <2>2 DEF MovesInv
<1> QED BY <1>2, <1>3 DEF G!StartGame

\* The user moves in a game that no other Qube has.
LEMMA MovesOfUser ==
  ASSUME MatchInv, MovesInv, Undisturbed, NEW q \in Actor, G!MakeMove(q)
  PROVE  MovesInv'
<1>1. /\ loaded = Actor /\ stale = {} /\ \A p \in Actor : game[p] = file[p]
      /\ G!Active(q) = game[q] /\ loaded' = loaded
      /\ playersAsked' = playersAsked /\ before' = before /\ stale' = stale /\ overwritten' = overwritten
  BY DEF G!MakeMove, G!request, MovesInv, G!Active
<1>2. /\ game[q] # NoGame /\ game[q] \in G!GameState /\ game[q].moves \in Nat
      /\ Human \in {game[q].white, game[q].black}
  <2>1. game[q] # NoGame /\ Human \in {game[q].white, game[q].black}
    BY <1>1 DEF G!MakeMove, G!MayMove
  <2> QED BY <2>1, GamePlayers
<1> DEFINE h == G!Moved(game[q])
<1>3. h.match = game[q].match /\ h.moves = game[q].moves + 1
  BY <1>2 DEF G!Moved, G!GameState
<1>4. \A p \in Actor : /\ game'[p] = IF p = q THEN h ELSE game[p]
                       /\ file'[p] = IF p = q THEN h ELSE file[p]
  BY <1>1 DEF G!MakeMove, G!Put
<1> HIDE DEF h
<1>5. AskedInv'
  <2> SUFFICES ASSUME NEW p \in playersAsked, game'[p] # NoGame, game'[p].match = before[p].match,
                      game'[p].match \notin overwritten
               PROVE  before[p].moves <= game'[p].moves
    BY <1>1 DEF AskedInv
  <2>1. p \in Actor /\ before[p].moves \in Nat
    BY GamePlayers
  <2>2. before[p].moves <= game[p].moves
    BY <1>2, <1>3, <1>4, <2>1 DEF MovesInv, AskedInv
  <2> QED BY <1>2, <1>3, <1>4, <2>1, <2>2
<1>6. PairInv'
  <2> SUFFICES ASSUME NEW p \in Actor, NEW r \in Actor, Rivals(p, r)'
               PROVE  (game[p].moves = game[r].moves \/ Ahead(p, r) \/ Ahead(r, p))'
    BY DEF PairInv
  <2>1. Rivals(p, r)
    BY <1>1, <1>2, <1>3, <1>4 DEF Rivals
  <2>2. p # q /\ r # q
    BY <1>2, <2>1, RivalPlayers, GameConstants
  <2>3. game[p].moves = game[r].moves \/ Ahead(p, r) \/ Ahead(r, p)
    BY <2>1 DEF MovesInv, PairInv
  <2> QED BY <1>1, <1>4, <2>2, <2>3 DEF Ahead, Changed, G!Position
<1> QED BY <1>1, <1>4, <1>5, <1>6 DEF MovesInv

\* From the call on nothing is changed.
LEMMA MovesAsked ==
  ASSUME MatchInv, MovesInv, Undisturbed, NEW q \in Actor, G!RequestMove(q)
  PROVE  MovesInv'
<1>1. /\ loaded = Actor /\ stale = {} /\ \A p \in Actor : game[p] = file[p]
      /\ G!Active(q) = game[q] /\ loaded' = loaded /\ game' = game /\ file' = file
      /\ q \notin playersAsked /\ playersAsked' = playersAsked \cup {q}
      /\ before' = [before EXCEPT ![q] = game[q]] /\ stale' = stale /\ overwritten' = overwritten
  BY DEF G!RequestMove, MovesInv, G!Active, MatchInv, GameInv, GameTypeInv
<1>2. \A p \in Actor : before'[p] = IF p = q THEN game[q] ELSE before[p]
  BY <1>1 DEF MatchInv, PlayersInv
<1>3. AskedInv'
  <2> SUFFICES ASSUME NEW p \in playersAsked', game[p] # NoGame, game[p].match = before'[p].match,
                      game[p].match \notin overwritten
               PROVE  before'[p].moves <= game[p].moves
    BY <1>1 DEF AskedInv
  <2>1. p \in Actor
    BY <1>1 DEF MatchInv, GameInv, GameTypeInv
  <2>2. CASE p = q
    BY <1>2, <2>2, GamePlayers
  <2>3. CASE p # q
    BY <1>1, <1>2, <2>1, <2>3 DEF MovesInv, AskedInv
  <2> QED BY <2>2, <2>3
<1>4. PairInv'
  <2> SUFFICES ASSUME NEW p \in Actor, NEW r \in Actor, Rivals(p, r)'
               PROVE  (game[p].moves = game[r].moves \/ Ahead(p, r) \/ Ahead(r, p))'
    BY DEF PairInv
  <2>1. Rivals(p, r)
    BY <1>1 DEF Rivals
  <2>2. game[p].moves = game[r].moves \/ Ahead(p, r) \/ Ahead(r, p)
    BY <2>1 DEF MovesInv, PairInv
  <2>3. \A s \in Actor : Changed(s) => Changed(s)'
    BY <1>1, <1>2 DEF Changed, G!Position
  <2> QED BY <1>1, <2>2, <2>3 DEF Ahead
<1> QED BY <1>1, <1>3, <1>4 DEF MovesInv

\* The Qube whose turn it is gets one move ahead.
LEMMA MovesMade ==
  ASSUME MatchInv, MovesInv, Undisturbed, NEW q \in Actor, G!ChessMove(q)
  PROVE  MovesInv'
<1> DEFINE h == G!Moved(game[q])
<1>1. /\ loaded = Actor /\ stale = {} /\ \A p \in Actor : game[p] = file[p]
      /\ q \in playersAsked /\ G!MayMove(game[q], q)
      /\ game' = [game EXCEPT ![q] = h] /\ file' = [file EXCEPT ![q] = h] /\ overwritten' = overwritten
      /\ UNCHANGED <<loaded, playersAsked, before, stale>>
  BY DEF G!ChessMove, MovesInv
<1>2. /\ game[q] # NoGame /\ game[q] \in G!GameState /\ game[q].moves \in Nat
      /\ q = IF G!Turn(game[q].moves) = "white" THEN game[q].white ELSE game[q].black
  <2>1. game[q] # NoGame /\ q = IF G!Turn(game[q].moves) = "white" THEN game[q].white ELSE game[q].black
    BY <1>1 DEF G!MayMove
  <2> QED BY <2>1, GamePlayers
<1>3. /\ h.match = game[q].match /\ h.moves = game[q].moves + 1
      /\ h.white = game[q].white /\ h.black = game[q].black
  BY <1>2 DEF G!Moved, G!GameState
<1>4. \A p \in Actor : /\ game'[p] = IF p = q THEN h ELSE game[p]
                       /\ file'[p] = IF p = q THEN h ELSE file[p]
  BY <1>1 DEF MatchInv, GameInv, GameTypeInv
<1> HIDE DEF h
<1>5. AskedInv'
  <2> SUFFICES ASSUME NEW p \in playersAsked, game'[p] # NoGame, game'[p].match = before[p].match,
                      game'[p].match \notin overwritten
               PROVE  before[p].moves <= game'[p].moves
    BY <1>1 DEF AskedInv
  <2>1. p \in Actor /\ before[p].moves \in Nat
    BY GamePlayers
  <2>2. before[p].moves <= game[p].moves
    BY <1>2, <1>3, <1>4, <2>1 DEF MovesInv, AskedInv
  <2> QED BY <1>2, <1>3, <1>4, <2>1, <2>2
<1>6. ASSUME NEW p \in Actor, Rivals(p, q)
      PROVE  game[p].moves = game[q].moves /\ Ahead(q, p)'
  <2>1. /\ game[p].moves \in Nat /\ game[p].white = game[q].white /\ game[p].black = game[q].black
        /\ game[p].white # game[p].black /\ p # q /\ game[p] # NoGame /\ game[p].match = game[q].match
        /\ game[q].match \notin overwritten
    BY <1>6, RivalPlayers DEF Rivals
  <2>2. game[p].moves = game[q].moves \/ Ahead(p, q) \/ Ahead(q, p)
    BY <1>6 DEF MovesInv, PairInv
  <2>3. \A n \in Nat : G!Turn(n + 1) # G!Turn(n) /\ G!Turn(n) \in {"white", "black"}
    BY DEF G!Turn
  <2>4. ~Ahead(q, p)
    BY <1>2, <2>1, <2>3 DEF Ahead
  <2>5. ~Ahead(p, q)
    BY <1>2, <2>1, <2>3 DEF Ahead
  <2>6. game[p].moves = game[q].moves
    BY <2>2, <2>4, <2>5
  <2>7. before[q].match = game[q].match => before[q].moves <= game[q].moves /\ before[q].moves \in Nat
    BY <1>1, <1>2, <2>1, GamePlayers DEF MovesInv, AskedInv
  <2>8. Changed(q)'
    <3>1. G!Position(before[q]) # <<h.match, h.moves>>
      BY <1>2, <1>3, <2>7 DEF G!Position
    <3> QED BY <1>1, <1>4, <3>1 DEF Changed, G!Position
  <2> QED BY <1>2, <1>3, <1>4, <2>1, <2>6, <2>8 DEF Ahead
<1>7. PairInv'
  <2> SUFFICES ASSUME NEW p \in Actor, NEW r \in Actor, Rivals(p, r)'
               PROVE  (game[p].moves = game[r].moves \/ Ahead(p, r) \/ Ahead(r, p))'
    BY DEF PairInv
  <2>1. Rivals(p, r)
    BY <1>1, <1>2, <1>3, <1>4 DEF Rivals
  <2>2. CASE r = q
    BY <1>6, <2>1, <2>2
  <2>3. CASE p = q
    BY <1>6, <2>1, <2>3 DEF Rivals
  <2>4. CASE p # q /\ r # q
    <3>1. game[p].moves = game[r].moves \/ Ahead(p, r) \/ Ahead(r, p)
      BY <2>1 DEF MovesInv, PairInv
    <3> QED BY <1>1, <1>4, <2>4, <3>1 DEF Ahead, Changed, G!Position
  <2> QED BY <2>2, <2>3, <2>4
<1> QED BY <1>1, <1>4, <1>5, <1>7 DEF MovesInv

\* The moves are copied to the opponent if they have changed, which makes the games equal.
LEMMA MovesCopied ==
  ASSUME MatchInv, MovesInv, Undisturbed, NEW q \in Actor, G!MoveAnswered(q)
  PROVE  MovesInv'
<1> DEFINE g == game[q]
           o == IF g = NoGame THEN Human ELSE G!Opponent(g, q)
           new == [p \in {o} |-> G!Synced(o, g)]
<1>1. /\ loaded = Actor /\ stale = {} /\ \A p \in Actor : game[p] = file[p]
      /\ q \in playersAsked /\ playersAsked' = playersAsked \ {q} /\ stale' = {}
      /\ before' = [before EXCEPT ![q] = NoGame]
  BY DEF G!MoveAnswered, MovesInv
<1>2. \A p \in Actor : G!Active(p) = game[p]
  BY <1>1 DEF G!Active
<1>3. \A p \in Actor \ {q} : before'[p] = before[p]
  BY <1>1 DEF MatchInv, PlayersInv
<1>4. CASE /\ g # NoGame /\ o \in Actor /\ G!Position(g) # G!Position(before[q]) /\ G!Active(o) # NoGame
           /\ loaded' = loaded \cup {o} /\ G!Put(new)
           /\ overwritten' = overwritten \cup ({G!Active(o).match} \ {g.match})
  <2> DEFINE h == new[o]
  <2>1. h = [game[o] EXCEPT !.moves = g.moves] /\ game[o] # NoGame
    BY <1>2, <1>4 DEF G!Synced
  <2>2. g \in G!GameState /\ game[o] \in G!GameState /\ g.moves \in Nat /\ o # q
    <3>1. g \in G!GameState /\ g.moves \in 0 .. MaxMoves /\ g.white # g.black /\ q \in {g.white, g.black}
      BY <1>4, GamePlayers
    <3>2. game[o] \in G!GameState
      BY <1>4, <2>1, GamePlayers
    <3>3. o # q
      BY <1>4, <3>1 DEF G!Opponent
    <3>4. g.moves \in Nat
      BY <3>1, GameConstants
    <3> HIDE DEF g, o, new
    <3> QED BY <3>1, <3>2, <3>3, <3>4
  <2>3. /\ h.match = game[o].match /\ h.moves = g.moves
        /\ h.white = game[o].white /\ h.black = game[o].black
    <3> DEFINE k == game[o]
               n == g.moves
    <3> HIDE DEF new, o, g
    <3>1. k \in G!GameState /\ h = [k EXCEPT !.moves = n]
      BY <2>1, <2>2
    <3> HIDE DEF k, n, h
    <3>2. h.match = k.match /\ h.moves = n /\ h.white = k.white /\ h.black = k.black
      BY <3>1 DEF G!GameState
    <3> QED BY <3>2 DEF k, n
  <2>4. \A p \in Actor : /\ game'[p] = IF p = o THEN h ELSE game[p]
                         /\ file'[p] = IF p = o THEN h ELSE file[p]
    BY <1>4 DEF G!Put
  <2>5. Changed(q)
    BY <1>1, <1>4 DEF Changed
  <2> HIDE DEF new, h, g, o
  <2>6. \A p, r \in Actor : Rivals(p, r)' => Rivals(p, r)
    BY <1>4, <2>1, <2>3, <2>4 DEF Rivals
  <2>7. \A p, r \in Actor : (p = o \/ r = o) /\ game[o].match # g.match => ~Rivals(p, r)'
    <3> SUFFICES ASSUME NEW p \in Actor, NEW r \in Actor, p = o \/ r = o, game[o].match # g.match
                 PROVE  ~(/\ game'[p] # NoGame /\ game'[r] # NoGame
                          /\ game'[p].match = game'[r].match /\ game'[p].match \notin overwritten')
      BY DEF Rivals
    <3>1. game[o].match \in overwritten'
      BY <1>2, <1>4
    <3>2. game'[o].match = game[o].match
      BY <1>4, <2>3, <2>4
    <3> QED BY <3>1, <3>2
  <2>8. game[o].match = g.match /\ g.match \notin overwritten =>
          game[o].moves = g.moves \/ Ahead(o, q) \/ Ahead(q, o)
    BY <1>4, <2>1, <2>2 DEF Rivals, MovesInv, PairInv, g
  <2>9. AskedInv'
    <3> SUFFICES ASSUME NEW p \in playersAsked', game'[p] # NoGame, game'[p].match = before'[p].match,
                        game'[p].match \notin overwritten'
                 PROVE  before'[p].moves <= game'[p].moves
      BY DEF AskedInv
    <3>1. p \in Actor /\ p \in playersAsked /\ p # q /\ before'[p] = before[p] /\ before[p].moves \in Nat
      BY <1>1, <1>3, GamePlayers
    <3>2. CASE p # o
      BY <1>4, <2>4, <3>1, <3>2 DEF MovesInv, AskedInv
    <3>3. CASE p = o
      <4>1. game[o].match = g.match /\ g.match \notin overwritten /\ game[o].match = before[o].match
        BY <1>2, <1>4, <2>3, <2>4, <3>1, <3>3
      <4>2. before[o].moves <= game[o].moves /\ before[o].moves \in Nat /\ game[o].moves \in Nat
        BY <2>1, <3>1, <3>3, <4>1, GamePlayers DEF MovesInv, AskedInv
      <4>3. CASE game[o].moves = g.moves
        BY <2>3, <2>4, <3>1, <3>3, <4>2, <4>3
      <4>4. CASE Ahead(o, q)
        <5>1. game[o].moves = g.moves + 1 /\ before[o].moves # game[o].moves
          BY <4>1, <4>4 DEF Ahead, Changed, G!Position, g
        <5>2. before[o].moves <= g.moves
          BY <2>2, <4>2, <5>1
        <5> QED BY <2>3, <2>4, <3>1, <3>3, <5>2
      <4>5. CASE Ahead(q, o)
        <5>1. game[o].moves <= g.moves
          BY <2>2, <4>2, <4>5 DEF Ahead, g
        <5>2. before[o].moves <= g.moves
          BY <2>2, <4>2, <5>1
        <5> QED BY <2>3, <2>4, <3>1, <3>3, <5>2
      <4> QED BY <2>8, <4>1, <4>3, <4>4, <4>5
    <3> QED BY <3>2, <3>3
  <2>10. PairInv'
    <3> SUFFICES ASSUME NEW p \in Actor, NEW r \in Actor, Rivals(p, r)'
                 PROVE  (game[p].moves = game[r].moves \/ Ahead(p, r) \/ Ahead(r, p))'
      BY DEF PairInv
    <3>1. Rivals(p, r)
      BY <2>6
    <3>2. CASE p # o /\ r # o
      <4>1. p # q /\ r # q
        <5>1. {game[p].white, game[p].black} = {p, r} /\ game[p].white = game[r].white /\ game[p].black = game[r].black
          BY <3>1, RivalPlayers
        <5>2. game[p].white # game[p].black
          BY <3>1, RivalPlayers
        <5> QED BY <1>4, <3>2, <5>1, <5>2 DEF G!Opponent, g, o
      <4>2. game[p].moves = game[r].moves \/ Ahead(p, r) \/ Ahead(r, p)
        BY <3>1 DEF MovesInv, PairInv
      <4> QED BY <1>1, <1>3, <2>4, <3>2, <4>1, <4>2 DEF Ahead, Changed, G!Position
    <3>3. ASSUME NEW s \in Actor, Rivals(s, o), game[o].match = g.match
          PROVE  s = q
      <4>1. {game[s].white, game[s].black} = {s, o} /\ game[s].match = g.match /\ game[s] # NoGame /\ s # o
        BY <3>3, <1>4, RivalPlayers DEF Rivals
      <4>2. game[s].white = g.white /\ game[s].black = g.black /\ q \in {g.white, g.black}
        BY <1>4, <4>1, GamePlayers DEF g
      <4> QED BY <2>2, <4>1, <4>2
    <3>4. \A s \in Actor : Rivals(s, o) <=> Rivals(o, s)
      BY <1>4 DEF Rivals
    <3>5. CASE p = o \/ r = o
      <4>1. game[o].match = g.match
        BY <2>7, <3>5
      <4>2. p = q \/ r = q
        BY <1>4, <3>1, <3>3, <3>4, <3>5, <4>1
      <4>3. game'[p].moves = game'[r].moves
        BY <1>4, <2>2, <2>3, <2>4, <3>1, <3>5, <4>2 DEF g, Rivals
      <4> QED BY <4>3
    <3> QED BY <3>2, <3>5
  <2> QED BY <1>1, <1>4, <2>4, <2>9, <2>10 DEF MovesInv
<1>5. CASE /\ UNCHANGED <<G!books, overwritten>>
           /\ ~(g # NoGame /\ o \in Actor /\ G!Position(g) # G!Position(before[q]) /\ G!Active(o) # NoGame)
  <2>1. game' = game /\ file' = file /\ loaded' = loaded /\ overwritten' = overwritten
    BY <1>5 DEF G!books
  <2>2. AskedInv'
    BY <1>1, <1>3, <2>1 DEF MovesInv, AskedInv, MatchInv, GameInv, GameTypeInv
  <2>3. PairInv'
    <3> SUFFICES ASSUME NEW p \in Actor, NEW r \in Actor, Rivals(p, r)
                 PROVE  (game[p].moves = game[r].moves \/ Ahead(p, r) \/ Ahead(r, p))'
      BY <2>1 DEF PairInv, Rivals
    <3>1. game[p].moves = game[r].moves \/ Ahead(p, r) \/ Ahead(r, p)
      BY DEF MovesInv, PairInv
    <3>2. ASSUME NEW s \in Actor, Rivals(q, s) PROVE ~Changed(q)
      <4>1. {game[q].white, game[q].black} = {q, s} /\ game[q].white # game[q].black /\ game[s] # NoGame
        BY <3>2, RivalPlayers DEF Rivals
      <4>2. g # NoGame /\ o = s
        BY <3>2, <4>1 DEF Rivals, G!Opponent
      <4> QED BY <1>2, <1>5, <4>1, <4>2 DEF Changed
    <3>3. Ahead(p, r) => Changed(p) /\ p # q
      BY <3>2 DEF Ahead, Rivals
    <3>4. Ahead(r, p) => Changed(r) /\ r # q
      BY <3>2 DEF Ahead, Rivals
    <3> QED BY <1>1, <1>3, <2>1, <3>1, <3>3, <3>4 DEF Ahead, Changed, G!Position
  <2> QED BY <1>1, <2>1, <2>2, <2>3 DEF MovesInv
<1> QED BY <1>1, <1>4, <1>5 DEF G!MoveAnswered

\* A game that ends, or has an offer of a draw, has no other moves.
LEMMA MovesEnd ==
  ASSUME MatchInv, MovesInv, Undisturbed, NEW q \in Actor,
         \/ G!EndGame(q) \/ G!AbandonGame(q) \/ G!ResignGame(q)
         \/ \E c \in G!Color : G!OfferDraw(q, c) \/ G!AcceptDraw(q, c) \/ G!DeclineDraw(q, c)
  PROVE  MovesInv'
<1>1. /\ loaded = Actor /\ stale = {} /\ \A p \in Actor : game[p] = file[p]
      /\ G!Active(q) = game[q]
  BY DEF MovesInv, G!Active
<1>2. /\ game[q] # NoGame /\ game[q] \in G!GameState
      /\ loaded' = Actor /\ playersAsked' = playersAsked /\ before' = before /\ stale' = stale
      /\ overwritten' = overwritten
  <2>1. game[q] # NoGame /\ loaded' = Actor /\ UNCHANGED <<G!request, overwritten>>
    BY <1>1 DEF G!EndGame, G!AbandonGame, G!ResignGame, G!EndAlone, G!OfferDraw, G!AcceptDraw,
                G!DeclineDraw, G!Other
  <2> QED BY <2>1, GamePlayers DEF G!request
<1>3. \A p \in Actor :
        /\ game'[p] = file'[p]
        /\ \/ game'[p] = NoGame \/ game'[p] = game[p]
           \/ p = q /\ \E c \in {"white", "black", "none"} : game'[p] = [game[q] EXCEPT !.offer = c]
  <2>1. CASE \/ G!EndGame(q) \/ G!AbandonGame(q) \/ G!ResignGame(q)
             \/ \E c \in G!Color : G!AcceptDraw(q, c)
    <3>1. PICK Q \in SUBSET Actor : G!Put([p \in Q |-> NoGame])
      <4>1. {q} \in SUBSET Actor /\ {q} \cup G!Other(q) \in SUBSET Actor
        BY DEF G!Other
      <4> QED BY <2>1, <4>1 DEF G!EndGame, G!AbandonGame, G!ResignGame, G!AcceptDraw, G!EndAlone, G!EndGames
    <3> QED BY <1>1, <3>1 DEF G!Put
  <2>2. ASSUME NEW c \in G!Color, G!OfferDraw(q, c) \/ G!DeclineDraw(q, c)
        PROVE  \A p \in Actor :
                 /\ game'[p] = file'[p]
                 /\ \/ game'[p] = game[p]
                    \/ p = q /\ \E d \in {"white", "black", "none"} : game'[p] = [game[q] EXCEPT !.offer = d]
    <3>1. PICK d \in {"white", "black", "none"} : G!Put([p \in {q} |-> [game[q] EXCEPT !.offer = d]])
      BY <1>1, <2>2 DEF G!OfferDraw, G!DeclineDraw, G!Color
    <3> QED BY <1>1, <3>1 DEF G!Put
  <2> QED BY <2>1, <2>2
<1>4. \A p \in Actor :
        game'[p] # NoGame => /\ game[p] # NoGame /\ game'[p].match = game[p].match
                             /\ game'[p].moves = game[p].moves /\ game'[p].white = game[p].white
                             /\ game'[p].black = game[p].black
  <2>1. \A c : /\ [game[q] EXCEPT !.offer = c].match = game[q].match
               /\ [game[q] EXCEPT !.offer = c].moves = game[q].moves
               /\ [game[q] EXCEPT !.offer = c].white = game[q].white
               /\ [game[q] EXCEPT !.offer = c].black = game[q].black
    BY <1>2 DEF G!GameState
  <2> SUFFICES ASSUME NEW p \in Actor, game'[p] # NoGame
               PROVE  /\ game[p] # NoGame /\ game'[p].match = game[p].match
                      /\ game'[p].moves = game[p].moves /\ game'[p].white = game[p].white
                      /\ game'[p].black = game[p].black
    OBVIOUS
  <2>2. CASE game'[p] = game[p]
    BY <2>2
  <2>3. CASE p = q /\ \E c \in {"white", "black", "none"} : game'[p] = [game[q] EXCEPT !.offer = c]
    <3>1. PICK c \in {"white", "black", "none"} : game'[p] = [game[q] EXCEPT !.offer = c]
      BY <2>3
    <3> QED BY <1>2, <2>1, <2>3, <3>1
  <2> QED BY <1>3, <2>2, <2>3
<1>5. AskedInv' /\ PairInv'
  BY <1>2, <1>4, MovesStay
<1> QED BY <1>1, <1>2, <1>3, <1>5 DEF MovesInv

\* An object with the game of its file is dropped only while it is asked, which is counted.
LEMMA MovesNext == MatchInv /\ RestInv /\ MovesInv /\ G!Next => MovesInv'
<1> SUFFICES ASSUME MatchInv, RestInv, MovesInv, G!Next, Undisturbed' PROVE MovesInv'
  BY DEF MovesInv
<1>1. drops \in Nat /\ gameCrashes \in Nat
  BY ActivitiesAssumption DEF RestInv, G!GameAssumption
<1>2. ~G!Restarted
  BY <1>1 DEF G!Restarted, Undisturbed
<1>3. ASSUME NEW q \in Actor, G!Invalidate(q) PROVE FALSE
  <2>1. q \notin playersAsked \ stale
    BY <1>1, <1>3 DEF G!Invalidate, Undisturbed
  <2>2. drops = 0 /\ gameCrashes = 0 /\ game[q] # file[q]
    BY <1>3, <2>1 DEF G!Invalidate, Undisturbed
  <2> QED BY <2>2 DEF MovesInv, Undisturbed
<1>4. ASSUME NEW q \in Actor,
             \/ \E o \in Actor \cup {Human}, c \in G!Color, m \in Match : G!StartGame(q, o, c, m)
             \/ G!MakeMove(q) \/ G!RequestMove(q) \/ G!ChessMove(q) \/ G!MoveAnswered(q)
             \/ G!EndGame(q) \/ G!AbandonGame(q) \/ G!ResignGame(q)
             \/ \E c \in G!Color : G!OfferDraw(q, c) \/ G!AcceptDraw(q, c) \/ G!DeclineDraw(q, c)
      PROVE  MovesInv'
  <2>1. drops' = drops /\ gameCrashes' = gameCrashes
    BY <1>4 DEF G!StartGame, G!MakeMove, G!RequestMove, G!ChessMove, G!MoveAnswered, G!EndGame,
                G!AbandonGame, G!ResignGame, G!OfferDraw, G!AcceptDraw, G!DeclineDraw
  <2>2. Undisturbed
    BY <2>1 DEF Undisturbed
  <2> QED BY <1>4, <2>2, MovesStart, MovesOfUser, MovesAsked, MovesMade, MovesCopied, MovesEnd
<1> QED BY <1>2, <1>3, <1>4 DEF G!Next, G!Crash, G!CrashInEnd

\* When nothing is asked no game is ahead.
LEMMA MovesAgree == MatchInv /\ MovesInv => G!CopiesAgree
<1> SUFFICES ASSUME MatchInv, MovesInv, NEW p \in Actor, NEW q \in Actor,
                    G!Active(p) # NoGame, G!Active(q) # NoGame,
                    playersAsked = {}, gameCrashes = 0, drops = 0,
                    G!Active(p).match = G!Active(q).match, G!Active(p).match \notin overwritten
             PROVE  G!Active(p).moves = G!Active(q).moves
  BY DEF G!CopiesAgree
<1>1. PairInv /\ G!Active(p) = game[p] /\ G!Active(q) = game[q]
  BY DEF MovesInv, Undisturbed, G!Active
<1>2. CASE p # q
  <2>1. Rivals(p, q)
    BY <1>1, <1>2 DEF Rivals
  <2> QED BY <1>1, <2>1 DEF PairInv, Ahead, Changed
<1> QED BY <1>2

\* Both players of a match that no side has left have it active.
LEMMA OwnMatchEnds == MatchInv => G!EndsOwnMatchStep
<1> SUFFICES ASSUME MatchInv, NEW q \in Actor, NEW o \in G!Other(q),
                    G!EndGame(q) \/ G!AbandonGame(q),
                    {G!Active(o).match, G!Active(q).match} \cap onesided = {}
             PROVE  G!Active(o).match = G!Active(q).match
  BY DEF G!EndsOwnMatchStep
<1>1. G!Active(q) # NoGame
  BY DEF G!EndGame, G!AbandonGame
<1>2. o \in Actor /\ o = G!Opponent(G!Active(q), q)
  BY DEF G!Other
<1> QED BY <1>1, <1>2 DEF MatchInv, OwnInv, Loose

LEMMA GameRuns == Spec => [](component = "Game" => MatchInv /\ RestInv /\ MovesInv)
<1> DEFINE I == component = "Game" => MatchInv /\ RestInv /\ MovesInv
<1>1. Init => I
  BY MatchInit, RestInit, MovesInit DEF Init
<1>2. I /\ [Next]_vars => I'
  <2> SUFFICES ASSUME I, [Next]_vars PROVE I'
    OBVIOUS
  <2>1. component' = component
    BY DEF Next, vars
  <2>2. CASE component = "Game" /\ G!Next
    BY <2>2, MatchNext, RestNext, MovesNext
  <2>3. CASE component = "Game" /\ UNCHANGED vars
    <3>1. UNCHANGED gameVars
      BY <2>3 DEF vars
    <3>2. MatchInv'
      BY <2>3, <3>1 DEF gameVars, MatchInv, GameInv, GameTypeInv, CountInv, NotCounted, PlayersInv,
                        BooksInv, OwnInv, G!Active, G!Opponent
    <3>3. RestInv' /\ MovesInv'
      BY <2>3, <3>1 DEF gameVars, RestInv, MovesInv, Undisturbed, AskedInv, PairInv, Rivals, Ahead, Changed
    <3> QED BY <3>2, <3>3
  <2>4. CASE component # "Game"
    BY <2>1, <2>4
  <2>5. component = "Game" => G!Next \/ UNCHANGED vars
    BY DEF Next
  <2> QED BY <2>2, <2>3, <2>4, <2>5
<1> QED BY <1>1, <1>2, PTL DEF Spec

\* Both managers of a match between two Qubes have all its moves when no move is being
\* answered, unless the process crashed or an object was dropped meanwhile, or the moves
\* of another match were copied (request_qube_move); and a game that is ended or
\* abandoned is that of both managers, unless one side had left the match alone
\* (end_game, abandon_game): for any number of Qubes, matches, moves, drops and crashes.
THEOREM GamesAgree == Spec => CopiesAgree
<1>1. (component = "Game" => MatchInv /\ RestInv /\ MovesInv) => (component = "Game" => G!CopiesAgree)
  BY MovesAgree
<1>2. /\ component = "Game" => MatchInv /\ RestInv /\ MovesInv
      /\ (component = "Game" => G!CopiesAgree)'
      /\ [Next]_vars
      => [component = "Game" => G!CopiesAgree' /\ G!EndsOwnMatchStep]_vars
  BY OwnMatchEnds DEF Next, vars
<1> QED BY <1>1, <1>2, GameRuns, PTL DEF Spec, CopiesAgree

-----------------------------------------------------------------------------
(* Tools and Game: the theorem *)

LEMMA ToolsRun == Spec => []((component = "Tools" => ToolsInv) /\ (component = "Game" => GameInv))
<1> DEFINE I == /\ component = "Tools" => ToolsInv
                /\ component = "Game" => GameInv
<1>1. Init => I
  BY ToolsInit, GameInit DEF Init
<1>2. I /\ [Next]_vars => I'
  <2> SUFFICES ASSUME I, [Next]_vars PROVE I'
    OBVIOUS
  <2>1. component' = component
    BY DEF Next, vars
  <2>2. component = "Tools" => ToolsInv'
    <3>1. CASE component = "Tools" /\ T!Next
      BY <3>1, ToolsNext
    <3>2. CASE component = "Tools" /\ UNCHANGED toolsVars
      BY <3>2 DEF toolsVars, ToolsInv, T!TypeOK, PhaseInv, T!Nothing, PlaceInv, Queued,
                  InSession, OnFile
    <3> QED BY <3>1, <3>2 DEF Next, vars
  <2>3. component = "Game" => GameInv'
    <3>1. CASE component = "Game" /\ G!Next
      BY <3>1, GameNext
    <3>2. CASE component = "Game" /\ UNCHANGED gameVars
      BY <3>2 DEF gameVars, GameInv, GameTypeInv, CountInv, NotCounted
    <3> QED BY <3>1, <3>2 DEF Next, vars
  <2> QED BY <2>1, <2>2, <2>3
<1> QED BY <1>1, <1>2, PTL DEF Spec

\* The block of a tool call is anchored at most once and never after it was discarded,
\* unless its handler ends too late, for any number of calls and restarts
\* (execute_tool, anchor_to_chain); and a match is counted once for a Qube, unless the
\* process crashed in its end or a dropped object moved (end_game), for any number
\* of Qubes, matches, drops and crashes.
THEOREM OnceOnlyHolds == Spec => []OnceOnly
<1>1. (component = "Tools" => ToolsInv) /\ (component = "Game" => GameInv) => OnceOnly
  BY DEF OnceOnly, T!AnchoredOnce, G!CountedOnce, ToolsInv, PlaceInv, GameInv, CountInv
<1> QED BY <1>1, ToolsRun, PTL

-----------------------------------------------------------------------------
(* Reasoner: the inductive invariant *)

AnyModel == Model \cup {NoModel}

\* Calls, with any sequence of tools to run.
CallRecord ==
  [pc : R!Pc, chat : BOOLEAN, use : AnyModel, by : AnyModel,
   revolver : BOOLEAN, fallback : BOOLEAN, tried : SUBSET AnyModel, todo : Seq(R!Tool),
   left : Nat, block : AnyModel, first : AnyModel,
   locked : BOOLEAN, crossed : BOOLEAN, changed : BOOLEAN, fell : BOOLEAN,
   keyless : BOOLEAN, deferred : BOOLEAN]

ReasonerTypeInv ==
  /\ call \in [Actor -> CallRecord]
  /\ {lockedTo, override, current, chain, model, lastModel} \subseteq AnyModel
  /\ lock \in BOOLEAN
  /\ modelMode \in {"manual", "autonomous", "revolver"}

\* A lock is on a model, and nothing overrides it.
LockInv ==
  lock => modelMode = "manual" /\ override = NoModel /\ lockedTo # NoModel

\* A call that is not crossed is the only one in progress.
SoloInv ==
  \A c \in Actor : R!Active(c) /\ ~call[c].crossed => \A d \in Actor \ {c} : ~R!Active(d)

\* What the settings were when the request was made, if they have not changed.
SettingsInv(r) ==
  /\ r.changed \/ ((r.revolver /\ r.pc = "asked") \/ r.fell => modelMode = "revolver")
  /\ r.pc = "asked" /\ r.fallback => r.revolver /\ r.by # NoModel
  /\ r.locked /\ ~r.changed =>
       /\ lock /\ ~r.fell /\ ~r.keyless /\ r.use = lockedTo
       /\ r.pc = "asked" => ~r.revolver

\* The object follows a call that runs alone: what would be asked next is the model of
\* the call, and what is asked or has answered is.
FollowInv(r) ==
  /\ r.pc \in {"ready", "asked", "tools", "forced"} =>
       /\ model = r.use
       /\ chain \in {NoModel, r.use} \/ r.fell
  /\ r.pc = "asked" /\ ~r.fallback => r.by = r.use
  /\ r.pc = "asked" => r.by # NoModel
  /\ r.pc = "forced" => r.by = r.use /\ r.first # NoModel
  /\ r.pc = "returned" /\ r.by # NoModel => lastModel = r.by /\ r.first # NoModel

\* Until its first response the revolver switch of a call is pending; then its block
\* is settled.
SwitchInv(c) ==
  LET r == call[c] IN
  /\ r.pc = "switching" => r.first = NoModel
  /\ r.pc # "switching" /\ r.first = NoModel /\ r.block # NoModel => pendingSwitch = c
  /\ r.first # NoModel => r.block \in {NoModel, r.first} \/ r.deferred
  /\ r.first # NoModel /\ pendingSwitch = c => r.deferred

\* A call of which the properties speak.
Plain(r) == ~r.crossed /\ ~r.keyless /\ ~(r.fell /\ r.changed)

CallInv(c) ==
  /\ call[c].pc = "tools" => call[c].todo # <<>>
  /\ pendingSwitch = c => call[c].pc \notin {"new", "switching"}
  /\ R!Active(c) /\ ~call[c].crossed =>
       /\ call[c].use # NoModel
       /\ SettingsInv(call[c])
       /\ Plain(call[c]) => FollowInv(call[c]) /\ SwitchInv(c)

ReasonerInv ==
  /\ ReasonerTypeInv
  /\ LockInv
  /\ SoloInv
  /\ \A c \in Actor : CallInv(c)

LEMMA ReasonerConstants ==
  /\ NoModel \notin Model /\ Genesis \in Model /\ Local \subseteq Model /\ NoCall \notin Actor
  /\ MaxIterations \in Nat /\ MaxIterations # 0
BY ActivitiesAssumption DEF R!ReasonerAssumption

LEMMA NewCallType ==
  /\ R!NewCall \in CallRecord /\ R!Over \in CallRecord
  /\ R!NewCall.pc = "new" /\ R!Over.pc = "done" /\ R!NewCall.todo = <<>> /\ R!Over.todo = <<>>
<1>1. R!NewCall \in CallRecord
  BY ReasonerConstants DEF R!NewCall, CallRecord, R!Pc, AnyModel
<1>2. R!NewCall.pc = "new" /\ R!NewCall.todo = <<>>
  BY DEF R!NewCall
<1>3. R!Over \in CallRecord /\ R!Over.pc = "done" /\ R!Over.todo = R!NewCall.todo
  BY <1>1 DEF R!Over, CallRecord, R!Pc
<1> QED BY <1>1, <1>2, <1>3

LEMMA ReasonerInit == R!Init => ReasonerInv
<1> SUFFICES ASSUME R!Init PROVE ReasonerInv
  OBVIOUS
<1>1. ReasonerTypeInv
  BY ReasonerConstants, NewCallType DEF R!Init, ReasonerTypeInv, AnyModel
<1>2. LockInv
  BY ReasonerConstants DEF R!Init, LockInv
<1>3. \A c \in Actor : call[c].pc = "new"
  BY NewCallType DEF R!Init
<1>4. SoloInv /\ \A c \in Actor : CallInv(c)
  BY <1>3, ReasonerConstants DEF R!Init, R!Active, SoloInv, CallInv
<1> QED BY <1>1, <1>2, <1>4 DEF ReasonerInv

-----------------------------------------------------------------------------
(* Reasoner: the steps of the settings *)

\* A change of the settings marks the calls that are in progress.
LEMMA SettingsChange ==
  ASSUME ReasonerInv, R!Changed, LockInv',
         {lockedTo', override'} \subseteq AnyModel, lock' \in BOOLEAN,
         modelMode' \in {"manual", "autonomous", "revolver"}
  PROVE  ReasonerInv'
<1>1. \A c \in Actor :
        call'[c] = IF R!Active(c) THEN [call[c] EXCEPT !.changed = TRUE] ELSE call[c]
  BY DEF R!Changed
<1>2. \A c \in Actor : call[c] \in CallRecord
  BY DEF ReasonerInv, ReasonerTypeInv
<1>3. ReasonerTypeInv'
  <2>1. ASSUME NEW c \in Actor PROVE [call[c] EXCEPT !.changed = TRUE] \in CallRecord
    BY <1>2 DEF CallRecord
  <2>2. call' \in [Actor -> CallRecord]
    BY <1>2, <2>1 DEF R!Changed
  <2> QED BY <2>2 DEF R!Changed, R!object, ReasonerInv, ReasonerTypeInv
<1>4. SoloInv'
  BY <1>1, <1>2 DEF ReasonerInv, SoloInv, R!Active, CallRecord
<1>5. ASSUME NEW c \in Actor PROVE CallInv(c)'
  <2>1. CASE R!Active(c)
    <3>1. call'[c] = [call[c] EXCEPT !.changed = TRUE]
      BY <1>1, <2>1
    <3>2. /\ call'[c].changed /\ call'[c].pc = call[c].pc /\ call'[c].crossed = call[c].crossed
          /\ call'[c].keyless = call[c].keyless /\ call'[c].fell = call[c].fell
          /\ call'[c].use = call[c].use /\ call'[c].by = call[c].by
          /\ call'[c].block = call[c].block /\ call'[c].first = call[c].first
          /\ call'[c].deferred = call[c].deferred /\ call'[c].fallback = call[c].fallback
          /\ call'[c].revolver = call[c].revolver /\ call'[c].todo = call[c].todo
      BY <1>2, <3>1 DEF CallRecord
    <3>3. UNCHANGED <<chain, model, lastModel, pendingSwitch>>
      BY DEF R!Changed, R!object
    <3> QED BY <2>1, <3>2, <3>3
        DEF ReasonerInv, CallInv, R!Active, Plain, SettingsInv, FollowInv, SwitchInv
  <2>2. CASE ~R!Active(c)
    BY <1>1, <2>2 DEF ReasonerInv, CallInv, R!Active, R!Changed, R!object
  <2> QED BY <2>1, <2>2
<1> QED BY <1>3, <1>4, <1>5 DEF ReasonerInv

LEMMA SettingsStep ==
  ASSUME ReasonerInv,
         \/ R!Unlock
         \/ \E on \in BOOLEAN : R!SetRevolverMode(on) \/ R!SetAutonomousMode(on)
         \/ \E m \in Model : R!SetModelLock(m) \/ R!ChooseModel(m)
  PROVE  ReasonerInv'
<1>1. R!Changed
  BY DEF R!Unlock, R!SetRevolverMode, R!SetAutonomousMode, R!SetModelLock, R!ChooseModel
<1>2. LockInv'
  BY ReasonerConstants DEF ReasonerInv, LockInv, R!Unlock, R!SetRevolverMode,
     R!SetAutonomousMode, R!SetModelLock, R!ChooseModel
<1>3. /\ {lockedTo', override'} \subseteq AnyModel /\ lock' \in BOOLEAN
      /\ modelMode' \in {"manual", "autonomous", "revolver"}
  BY DEF AnyModel, ReasonerInv, ReasonerTypeInv, R!Unlock, R!SetRevolverMode, R!SetAutonomousMode,
     R!SetModelLock, R!ChooseModel
<1> QED BY <1>1, <1>2, <1>3, SettingsChange

-----------------------------------------------------------------------------
(* Reasoner: the beginning of a call *)

\* A call that begins crosses those in progress, and is crossed by them.
LEMMA CallBegins ==
  ASSUME ReasonerInv, NEW c \in Actor, NEW r \in CallRecord, R!Begin(c, r),
         UNCHANGED <<R!settings, pendingSwitch, lastModel>>,
         {current', chain', model'} \subseteq AnyModel,
         r.pc \in {"ready", "switching"}, r.use # NoModel, r.first = NoModel,
         r.pc = "ready" => r.block = NoModel /\ model' = r.use /\ chain' = r.use,
         SettingsInv(r)
  PROVE  ReasonerInv'
<1> DEFINE others == {d \in Actor \ {c} : R!Active(d)}
<1>1. /\ call[c].pc = "new"
      /\ \A d \in Actor :
           call'[d] = IF d = c THEN [r EXCEPT !.crossed = others # {}]
                      ELSE IF d \in others THEN [call[d] EXCEPT !.crossed = TRUE] ELSE call[d]
  BY DEF R!Begin
<1>2. \A d \in Actor : call[d] \in CallRecord
  BY DEF ReasonerInv, ReasonerTypeInv
<1>3. UNCHANGED <<modelMode, lock, lockedTo, override, pendingSwitch, lastModel>>
  BY DEF R!settings
<1>4. call' \in [Actor -> CallRecord]
  <2>1. [r EXCEPT !.crossed = others # {}] \in CallRecord
    BY DEF CallRecord
  <2>2. ASSUME NEW d \in Actor PROVE [call[d] EXCEPT !.crossed = TRUE] \in CallRecord
    BY <1>2 DEF CallRecord
  <2> QED BY <1>2, <2>1, <2>2 DEF R!Begin
<1>5. ReasonerTypeInv' /\ LockInv'
  BY <1>3, <1>4 DEF ReasonerInv, ReasonerTypeInv, LockInv
<1>6. call'[c] = [r EXCEPT !.crossed = others # {}]
  BY <1>1
<1>7. /\ call'[c].crossed = (others # {}) /\ call'[c].pc = r.pc /\ call'[c].use = r.use
      /\ call'[c].first = r.first /\ call'[c].block = r.block /\ call'[c].fell = r.fell
      /\ call'[c].locked = r.locked /\ call'[c].changed = r.changed
      /\ call'[c].keyless = r.keyless /\ call'[c].revolver = r.revolver
      /\ call'[c].fallback = r.fallback
  BY <1>6 DEF CallRecord
<1>8. \A d \in others : call'[d].crossed /\ call'[d].pc = call[d].pc /\ call'[d].todo = call[d].todo
  BY <1>1, <1>2 DEF CallRecord
<1>9. \A d \in Actor \ {c} : d \notin others => call'[d] = call[d] /\ call[d].pc \in {"new", "done"}
  BY <1>1 DEF R!Active
<1> HIDE DEF others
<1>10. SoloInv'
  <2>1. others = {} => \A d \in Actor \ {c} : call'[d].pc \in {"new", "done"}
    BY <1>9
  <2> QED BY <1>7, <1>8, <1>9, <2>1 DEF SoloInv, R!Active
<1>11. CallInv(c)'
  <2>1. pendingSwitch # c
    BY <1>1 DEF ReasonerInv, CallInv
  <2> QED BY <1>3, <1>7, <2>1 DEF CallInv, SettingsInv, FollowInv, SwitchInv
<1>12. \A d \in Actor \ {c} : CallInv(d)'
  BY <1>3, <1>8, <1>9 DEF ReasonerInv, CallInv, R!Active
<1> QED BY <1>5, <1>10, <1>11, <1>12 DEF ReasonerInv

\* A chat begins, or an internal call.
LEMMA CallStarts ==
  ASSUME ReasonerInv, NEW c \in Actor,
         \/ R!BeginChat(c)
         \/ \E m \in Model : R!BeginRevolver(c, m) \/ R!BeginEvaluation(c, m)
  PROVE  ReasonerInv'
<1> USE ReasonerConstants
<1>0. \A m \in Model : m \in AnyModel
  BY DEF AnyModel
<1>1. ReasonerTypeInv /\ LockInv
  BY DEF ReasonerInv
<1>2. CASE R!BeginChat(c)
  <2> DEFINE r == [R!NewCall EXCEPT !.pc = "ready", !.use = R!Configured,
                                    !.locked = modelMode = "manual" /\ lock]
  <2>1. R!Configured \in Model /\ R!Configured # NoModel
    BY <1>1 DEF R!Configured, ReasonerTypeInv, AnyModel
  <2>2. r \in CallRecord
    BY <1>0, <2>1, NewCallType DEF CallRecord, R!Pc
  <2>3. /\ r.pc = "ready" /\ r.use = R!Configured /\ r.first = NoModel /\ r.block = NoModel
        /\ r.locked = (modelMode = "manual" /\ lock) /\ ~r.changed /\ ~r.fell /\ ~r.keyless
    BY DEF R!NewCall
  <2>4. r.locked => R!Configured = lockedTo
    BY <1>1, <2>3 DEF R!Configured, LockInv
  <2>5. R!Begin(c, r) /\ model' = r.use /\ chain' = r.use /\ current' = r.use
        /\ UNCHANGED <<R!settings, pendingSwitch, lastModel>>
    BY <1>2, <2>3 DEF R!BeginChat, R!Prepared
  <2>6. SettingsInv(r)
    BY <2>3, <2>4 DEF SettingsInv
  <2> HIDE DEF r
  <2> QED BY <1>0, <2>1, <2>2, <2>3, <2>5, <2>6, CallBegins
<1>3. ASSUME NEW m \in Model, R!BeginRevolver(c, m) PROVE ReasonerInv'
  <2> DEFINE r == [R!NewCall EXCEPT !.pc = "switching", !.use = m, !.block = m]
  <2>1. r \in CallRecord
    BY <1>0, NewCallType DEF CallRecord, R!Pc
  <2>2. /\ r.pc = "switching" /\ r.use = m /\ r.first = NoModel
        /\ ~r.locked /\ ~r.changed /\ ~r.fell
    BY DEF R!NewCall
  <2>3. R!Begin(c, r) /\ UNCHANGED <<R!settings, pendingSwitch, lastModel>>
    BY <1>3 DEF R!BeginRevolver
  <2>4. {current', chain', model'} \subseteq AnyModel
    BY <1>0, <1>1, <1>3 DEF R!BeginRevolver, ReasonerTypeInv
  <2>5. SettingsInv(r)
    BY <2>2 DEF SettingsInv
  <2> HIDE DEF r
  <2> QED BY <2>1, <2>2, <2>3, <2>4, <2>5, CallBegins
<1>4. ASSUME NEW m \in Model, R!BeginEvaluation(c, m) PROVE ReasonerInv'
  <2> DEFINE r == [R!NewCall EXCEPT !.pc = "ready", !.chat = FALSE, !.use = m, !.left = 1]
  <2>1. r \in CallRecord
    BY <1>0, NewCallType DEF CallRecord, R!Pc
  <2>2. /\ r.pc = "ready" /\ r.use = m /\ r.first = NoModel /\ r.block = NoModel
        /\ ~r.locked /\ ~r.changed /\ ~r.fell
    BY DEF R!NewCall
  <2>3. R!Begin(c, r) /\ UNCHANGED <<R!settings, pendingSwitch, lastModel>>
        /\ model' = m /\ chain' = m
    BY <1>4 DEF R!BeginEvaluation, R!Prepared
  <2>4. {current', chain', model'} \subseteq AnyModel
    BY <1>0, <1>1, <1>4, <2>3 DEF R!BeginEvaluation, ReasonerTypeInv
  <2>5. SettingsInv(r)
    BY <2>2 DEF SettingsInv
  <2> HIDE DEF r
  <2> QED BY <2>1, <2>2, <2>3, <2>4, <2>5, CallBegins
<1> QED BY <1>2, <1>3, <1>4

-----------------------------------------------------------------------------
(* Reasoner: the steps of a call *)

\* A step of one call leaves the others as they are, but perhaps for a block.
LEMMA OneCallSteps ==
  ASSUME ReasonerInv, NEW c \in Actor, R!Active(c), ReasonerTypeInv', LockInv', CallInv(c)',
         call'[c].crossed = call[c].crossed \/ call'[c].pc = "done",
         pendingSwitch' \in {pendingSwitch, c, NoCall},
         \A d \in Actor \ {c} : /\ call'[d].pc = call[d].pc /\ call'[d].todo = call[d].todo
                               /\ call'[d].crossed = call[d].crossed
  PROVE  ReasonerInv'
<1>1. \A d \in Actor \ {c} : R!Active(d) => call[d].crossed
  BY DEF ReasonerInv, SoloInv
<1>2. SoloInv'
  BY <1>1 DEF ReasonerInv, SoloInv, R!Active
<1>3. \A d \in Actor \ {c} : CallInv(d)'
  BY <1>1, ReasonerConstants DEF ReasonerInv, CallInv, R!Active
<1> QED BY <1>2, <1>3 DEF ReasonerInv

\* A call that goes on, when the chain is ch and the model mo.
Fit(c, r, ch, mo) ==
  ~r.crossed =>
    /\ r.use # NoModel
    /\ r.fell => r.changed \/ modelMode = "revolver"
    /\ r.locked /\ ~r.changed => lock /\ ~r.fell /\ ~r.keyless /\ r.use = lockedTo
    /\ Plain(r) =>
         /\ mo = r.use
         /\ ch \in {NoModel, r.use} \/ r.fell
         /\ r.first = NoModel /\ r.block # NoModel => pendingSwitch = c
         /\ r.first # NoModel => r.block \in {NoModel, r.first} \/ r.deferred
         /\ r.first # NoModel /\ pendingSwitch = c => r.deferred

LEMMA CallIsFit ==
  ASSUME ReasonerInv, NEW c \in Actor, call[c].pc \in {"ready", "tools"}
  PROVE  Fit(c, call[c], chain, model)
BY DEF ReasonerInv, CallInv, R!Active, Fit, SettingsInv, FollowInv, SwitchInv

\* Such a call makes its next request, or returns when it has none left.
LEMMA Requested ==
  ASSUME NEW c \in Actor, NEW r \in CallRecord, LockInv,
         UNCHANGED <<modelMode, lock, lockedTo, pendingSwitch>>,
         {chain', model'} \subseteq AnyModel, Fit(c, r, chain', model'),
         call'[c] = R!Asked(r, chain', model')
  PROVE  CallInv(c)' /\ call'[c] \in CallRecord /\ call'[c].crossed = r.crossed
<1>0. NoModel \in AnyModel
  BY DEF AnyModel
<1>1. CASE r.left = 0
  <2>1. call'[c] = [r EXCEPT !.pc = "returned", !.by = NoModel]
    BY <1>1 DEF R!Asked
  <2>2. /\ call'[c].pc = "returned" /\ call'[c].by = NoModel /\ call'[c].use = r.use
        /\ call'[c].fell = r.fell /\ call'[c].changed = r.changed /\ call'[c].keyless = r.keyless
        /\ call'[c].locked = r.locked /\ call'[c].crossed = r.crossed
        /\ call'[c].first = r.first /\ call'[c].block = r.block
        /\ call'[c].deferred = r.deferred
    BY <2>1 DEF CallRecord
  <2>3. call'[c] \in CallRecord
    BY <1>0, <2>1 DEF CallRecord, R!Pc
  <2>4. CallInv(c)'
    BY <2>2 DEF Fit, CallInv, R!Active, Plain, SettingsInv, FollowInv, SwitchInv
  <2> QED BY <2>2, <2>3, <2>4
<1>2. CASE r.left # 0
  <2> DEFINE by == IF modelMode = "revolver" \/ chain' = NoModel THEN model' ELSE chain'
  <2>1. call'[c] = [r EXCEPT !.pc = "asked", !.left = @ - 1, !.fallback = FALSE,
                             !.tried = {r.use}, !.revolver = modelMode = "revolver", !.by = by]
    BY <1>2 DEF R!Asked
  <2> HIDE DEF by
  <2>2. /\ call'[c].pc = "asked" /\ call'[c].by = by /\ call'[c].use = r.use
        /\ call'[c].fell = r.fell /\ call'[c].changed = r.changed /\ call'[c].keyless = r.keyless
        /\ call'[c].locked = r.locked /\ call'[c].crossed = r.crossed
        /\ call'[c].first = r.first /\ call'[c].block = r.block
        /\ call'[c].deferred = r.deferred /\ call'[c].fallback = FALSE
        /\ call'[c].revolver = (modelMode = "revolver")
    BY <2>1 DEF CallRecord
  <2>3. call'[c] \in CallRecord
    <3>1. by \in AnyModel /\ {r.use} \in SUBSET AnyModel
      BY DEF by, CallRecord
    <3>2. r.left - 1 \in Nat
      BY <1>2 DEF CallRecord
    <3> QED BY <2>1, <3>1, <3>2 DEF CallRecord, R!Pc
  <2>4. Plain(r) => by = r.use
    BY DEF by, Fit, Plain
  <2>5. CallInv(c)'
    BY <2>2, <2>4 DEF Fit, CallInv, R!Active, Plain, SettingsInv, FollowInv, SwitchInv, LockInv
  <2> QED BY <2>2, <2>3, <2>5
<1> QED BY <1>1, <1>2

\* A step that changes the record of one call only.
LEMMA OneCallChanges ==
  ASSUME ReasonerInv, NEW c \in Actor, R!Active(c), NEW r \in CallRecord,
         call' = [call EXCEPT ![c] = r],
         UNCHANGED <<modelMode, lock, lockedTo>>, LockInv',
         {override', current', chain', model', lastModel'} \subseteq AnyModel,
         pendingSwitch' \in {pendingSwitch, c},
         r.crossed = call[c].crossed \/ r.pc = "done",
         CallInv(c)'
  PROVE  ReasonerInv'
<1>1. call \in [Actor -> CallRecord]
  BY DEF ReasonerInv, ReasonerTypeInv
<1>2. call'[c] = r /\ \A d \in Actor \ {c} : call'[d] = call[d]
  BY <1>1
<1>3. ReasonerTypeInv'
  BY <1>1 DEF ReasonerInv, ReasonerTypeInv
<1> QED BY <1>2, <1>3, OneCallSteps

\* The context is built, and the model asked.
LEMMA AskStep ==
  ASSUME ReasonerInv, NEW c \in Actor, R!Ask(c)
  PROVE  ReasonerInv'
<1> DEFINE r == R!Asked(call[c], chain, model)
<1>1. /\ call[c].pc = "ready" /\ call' = [call EXCEPT ![c] = r]
      /\ UNCHANGED <<R!settings, current, chain, model, pendingSwitch, lastModel>>
  BY DEF R!Ask
<1>2. UNCHANGED <<modelMode, lock, lockedTo, override>>
  BY <1>1 DEF R!settings
<1>3. /\ call \in [Actor -> CallRecord] /\ LockInv
      /\ {override, current, chain, model, lastModel} \subseteq AnyModel
  BY DEF ReasonerInv, ReasonerTypeInv
<1>4. call'[c] = r /\ r = R!Asked(call[c], chain', model')
  BY <1>1, <1>3
<1>5. Fit(c, call[c], chain', model')
  BY <1>1, CallIsFit
<1> HIDE DEF r
<1>6. CallInv(c)' /\ r \in CallRecord /\ r.crossed = call[c].crossed
  BY <1>1, <1>2, <1>3, <1>4, <1>5, Requested
<1>7. LockInv'
  BY <1>2, <1>3 DEF LockInv
<1>8. R!Active(c)
  BY <1>1 DEF R!Active
<1> QED BY <1>1, <1>2, <1>3, <1>6, <1>7, <1>8, OneCallChanges

\* The switch of the revolver is pending.
LEMMA SwitchedStep ==
  ASSUME ReasonerInv, NEW c \in Actor, R!Switched(c)
  PROVE  ReasonerInv'
<1> DEFINE r == [call[c] EXCEPT !.pc = "ready"]
<1>1. /\ call[c].pc = "switching" /\ call' = [call EXCEPT ![c] = r] /\ pendingSwitch' = c
      /\ chain' = call[c].use /\ model' = call[c].use /\ current' = current
      /\ lastModel' = lastModel /\ UNCHANGED R!settings
  BY DEF R!Switched, R!Prepared
<1>2. UNCHANGED <<modelMode, lock, lockedTo, override>>
  BY <1>1 DEF R!settings
<1>3. /\ call \in [Actor -> CallRecord] /\ call[c] \in CallRecord /\ LockInv
      /\ {override, current, lastModel} \subseteq AnyModel
  BY DEF ReasonerInv, ReasonerTypeInv
<1>4. r \in CallRecord
  BY <1>3 DEF CallRecord, R!Pc
<1>5. /\ r.pc = "ready" /\ r.use = call[c].use /\ r.by = call[c].by /\ r.block = call[c].block
      /\ r.first = call[c].first /\ r.locked = call[c].locked /\ r.crossed = call[c].crossed
      /\ r.changed = call[c].changed /\ r.fell = call[c].fell /\ r.keyless = call[c].keyless
      /\ r.deferred = call[c].deferred
  BY <1>3 DEF CallRecord
<1>6. call'[c] = r
  BY <1>1, <1>3
<1> HIDE DEF r
<1>7. R!Active(c) /\ LockInv' /\ call[c].use \in AnyModel
  BY <1>1, <1>2, <1>3 DEF R!Active, LockInv, CallRecord
<1>8. CallInv(c)'
  BY <1>1, <1>2, <1>5, <1>6, <1>7
     DEF ReasonerInv, CallInv, R!Active, Plain, SettingsInv, FollowInv, SwitchInv
<1> QED BY <1>1, <1>2, <1>3, <1>4, <1>5, <1>7, <1>8, OneCallChanges

\* Another provider is tried.
LEMMA FallbackStep ==
  ASSUME ReasonerInv, NEW c \in Actor, NEW m \in Model, R!Fallback(c, m)
  PROVE  ReasonerInv'
<1> DEFINE r == [call[c] EXCEPT !.fallback = TRUE, !.by = m, !.tried = @ \cup {m}]
<1>1. /\ call \in [Actor -> CallRecord] /\ call[c] \in CallRecord /\ LockInv
      /\ {override, current, chain, model, lastModel} \subseteq AnyModel
  BY DEF ReasonerInv, ReasonerTypeInv
<1>2. /\ call[c].pc = "asked" /\ call[c].revolver
      /\ UNCHANGED <<R!settings, R!object>>
  BY DEF R!Fallback
<1>3. call' = [call EXCEPT ![c] = r]
  BY <1>1 DEF R!Fallback
<1>4. /\ UNCHANGED <<modelMode, lock, lockedTo, override>>
      /\ UNCHANGED <<current, chain, model, pendingSwitch, lastModel>>
  BY <1>2 DEF R!settings, R!object
<1>5. m \in AnyModel /\ m # NoModel
  BY ReasonerConstants DEF AnyModel
<1>6. call[c].tried \cup {m} \in SUBSET AnyModel
  BY <1>1, <1>5 DEF CallRecord
<1>7. r \in CallRecord
  BY <1>1, <1>5, <1>6 DEF CallRecord
<1>8. /\ r.pc = "asked" /\ r.use = call[c].use /\ r.by = m /\ r.block = call[c].block
      /\ r.first = call[c].first /\ r.locked = call[c].locked /\ r.crossed = call[c].crossed
      /\ r.changed = call[c].changed /\ r.fell = call[c].fell /\ r.keyless = call[c].keyless
      /\ r.deferred = call[c].deferred /\ r.revolver /\ r.fallback
  BY <1>1, <1>2 DEF CallRecord
<1>9. call'[c] = r
  BY <1>1, <1>3
<1> HIDE DEF r
<1>10. R!Active(c) /\ LockInv'
  BY <1>1, <1>2, <1>4 DEF R!Active, LockInv
<1>11. CallInv(c)'
  BY <1>2, <1>4, <1>5, <1>8, <1>9, <1>10
     DEF ReasonerInv, CallInv, R!Active, Plain, SettingsInv, FollowInv, SwitchInv
<1> QED BY <1>1, <1>3, <1>4, <1>7, <1>8, <1>10, <1>11, OneCallChanges

\* A call is over.
LEMMA OverStep ==
  ASSUME ReasonerInv, NEW c \in Actor, R!Fail(c) \/ R!Recorded(c)
  PROVE  ReasonerInv'
<1>1. /\ R!Active(c) /\ call' = [call EXCEPT ![c] = R!Over]
      /\ UNCHANGED <<R!settings, R!object>>
  BY DEF R!Fail, R!Recorded, R!Active
<1>2. /\ UNCHANGED <<modelMode, lock, lockedTo, override>>
      /\ UNCHANGED <<current, chain, model, pendingSwitch, lastModel>>
  BY <1>1 DEF R!settings, R!object
<1>3. call'[c] = R!Over
  BY <1>1 DEF ReasonerInv, ReasonerTypeInv
<1>4. CallInv(c)' /\ LockInv'
  BY <1>2, <1>3, NewCallType DEF ReasonerInv, CallInv, R!Active, LockInv
<1>5. {override', current', chain', model', lastModel'} \subseteq AnyModel
  BY <1>2 DEF ReasonerInv, ReasonerTypeInv
<1> QED BY <1>1, <1>2, <1>4, <1>5, NewCallType, OneCallChanges

\* The response that was forced.
LEMMA ForcedStep ==
  ASSUME ReasonerInv, NEW c \in Actor, R!Forced(c)
  PROVE  ReasonerInv'
<1> DEFINE r == [call[c] EXCEPT !.pc = "returned"]
<1>1. /\ call[c].pc = "forced" /\ call' = [call EXCEPT ![c] = r] /\ lastModel' = call[c].use
      /\ UNCHANGED <<R!settings, current, chain, model, pendingSwitch>>
  BY DEF R!Forced
<1>2. UNCHANGED <<modelMode, lock, lockedTo, override>>
  BY <1>1 DEF R!settings
<1>3. /\ call \in [Actor -> CallRecord] /\ call[c] \in CallRecord /\ LockInv
      /\ {override, current, chain, model} \subseteq AnyModel
  BY DEF ReasonerInv, ReasonerTypeInv
<1>4. r \in CallRecord
  BY <1>3 DEF CallRecord, R!Pc
<1>5. /\ r.pc = "returned" /\ r.use = call[c].use /\ r.by = call[c].by /\ r.block = call[c].block
      /\ r.first = call[c].first /\ r.locked = call[c].locked /\ r.crossed = call[c].crossed
      /\ r.changed = call[c].changed /\ r.fell = call[c].fell /\ r.keyless = call[c].keyless
      /\ r.deferred = call[c].deferred
  BY <1>3 DEF CallRecord
<1>6. call'[c] = r
  BY <1>1, <1>3
<1> HIDE DEF r
<1>7. R!Active(c) /\ LockInv' /\ call[c].use \in AnyModel
  BY <1>1, <1>2, <1>3 DEF R!Active, LockInv, CallRecord
<1>8. CallInv(c)'
  BY <1>1, <1>2, <1>5, <1>6, <1>7
     DEF ReasonerInv, CallInv, R!Active, Plain, SettingsInv, FollowInv, SwitchInv
<1> QED BY <1>1, <1>2, <1>3, <1>4, <1>5, <1>7, <1>8, OneCallChanges

-----------------------------------------------------------------------------
(* Reasoner: tools *)

\* A call that is fit to go on goes on to its next tool, or to its next request.
LEMMA Proceeds ==
  ASSUME ReasonerInv, NEW c \in Actor, call[c].pc = "tools",
         NEW r \in CallRecord, R!Proceed(c, r), r.pc = "tools", r.todo # <<>>,
         r.crossed = call[c].crossed, Fit(c, r, chain', model'),
         UNCHANGED <<modelMode, lock, lockedTo, pendingSwitch, lastModel>>, LockInv',
         {override', current', chain', model'} \subseteq AnyModel
  PROVE  ReasonerInv'
<1> DEFINE s == [r EXCEPT !.todo = Tail(@)]
           t == IF s.todo = <<>> THEN R!Asked(s, chain', model') ELSE s
<1>1. /\ call \in [Actor -> CallRecord] /\ LockInv /\ lastModel \in AnyModel
  BY DEF ReasonerInv, ReasonerTypeInv
<1>2. call' = [call EXCEPT ![c] = t]
  BY DEF R!Proceed
<1>3. call'[c] = t
  BY <1>1, <1>2
<1>4. Tail(r.todo) \in Seq(R!Tool)
  BY DEF CallRecord
<1>5. s \in CallRecord
  BY <1>4 DEF CallRecord
<1>6. /\ s.pc = r.pc /\ s.use = r.use /\ s.by = r.by /\ s.block = r.block
      /\ s.first = r.first /\ s.locked = r.locked /\ s.crossed = r.crossed
      /\ s.changed = r.changed /\ s.fell = r.fell /\ s.keyless = r.keyless
      /\ s.deferred = r.deferred
  BY DEF CallRecord
<1> HIDE DEF s
<1>7. Fit(c, s, chain', model')
  BY <1>6 DEF Fit, Plain
<1>8. CallInv(c)' /\ t \in CallRecord /\ t.crossed = r.crossed
  <2>1. CASE s.todo = <<>>
    <3>1. t = R!Asked(s, chain', model')
      BY <2>1
    <3> HIDE DEF t
    <3> QED BY <1>1, <1>3, <1>5, <1>6, <1>7, <3>1, Requested
  <2>2. CASE s.todo # <<>>
    <3>1. t = s
      BY <2>2
    <3> HIDE DEF t
    <3> QED BY <1>1, <1>3, <1>5, <1>6, <1>7, <2>2, <3>1
        DEF CallInv, R!Active, Fit, Plain, SettingsInv, FollowInv, SwitchInv
  <2> QED BY <2>1, <2>2
<1>9. R!Active(c)
  BY DEF R!Active
<1> HIDE DEF t
<1> QED BY <1>1, <1>2, <1>8, <1>9, OneCallChanges

\* A tool other than switch_model.
LEMMA RunToolStep ==
  ASSUME ReasonerInv, NEW c \in Actor, R!RunTool(c)
  PROVE  ReasonerInv'
<1>1. /\ call[c].pc = "tools" /\ R!Proceed(c, call[c])
      /\ UNCHANGED <<R!settings, R!object>>
  BY DEF R!RunTool
<1>2. /\ UNCHANGED <<modelMode, lock, lockedTo, override>>
      /\ UNCHANGED <<current, chain, model, pendingSwitch, lastModel>>
  BY <1>1 DEF R!settings, R!object
<1>3. call[c] \in CallRecord /\ call[c].todo # <<>> /\ LockInv
      /\ {override, current, chain, model} \subseteq AnyModel
  BY <1>1 DEF ReasonerInv, ReasonerTypeInv, CallInv
<1>4. Fit(c, call[c], chain', model')
  BY <1>1, <1>2, CallIsFit
<1>5. LockInv'
  BY <1>2, <1>3 DEF LockInv
<1> QED BY <1>1, <1>2, <1>3, <1>4, <1>5, Proceeds

\* switch_model: the call goes over to the override.
LEMMA SwitchModelStep ==
  ASSUME ReasonerInv, NEW c \in Actor, NEW m \in Model, NEW ok \in BOOLEAN,
         R!SwitchModel(c, m, ok)
  PROVE  ReasonerInv'
<1> USE ReasonerConstants
<1>1. /\ call[c].pc = "tools" /\ (ok => ~lock)
      /\ override' = (IF ok THEN m ELSE override) /\ current' = (IF ok THEN m ELSE current)
      /\ UNCHANGED <<modelMode, lock, lockedTo, pendingSwitch, lastModel>>
  BY DEF R!SwitchModel, R!Switches, ReasonerInv, LockInv
<1>2. /\ call[c] \in CallRecord /\ call[c].todo # <<>> /\ LockInv
      /\ {override, current, chain, model} \subseteq AnyModel
  BY <1>1 DEF ReasonerInv, ReasonerTypeInv, CallInv
<1>3. m \in AnyModel /\ m # NoModel
  BY DEF AnyModel
<1>4. LockInv' /\ {override', current'} \subseteq AnyModel /\ (lock => override' = NoModel)
  BY <1>1, <1>2, <1>3 DEF LockInv
<1>5. Fit(c, call[c], chain, model)
  BY <1>1, CallIsFit
<1>6. CASE override' \notin {NoModel, call[c].use}
  <2> DEFINE r == [call[c] EXCEPT !.use = override', !.keyless = @ \/ override' \in Local]
  <2>1. /\ R!Proceed(c, r)
        /\ model' = IF override' \notin Local THEN override' ELSE IF ok THEN m ELSE model
        /\ chain' = IF override' \notin Local THEN NoModel ELSE chain
    BY <1>6 DEF R!SwitchModel
  <2>2. r \in CallRecord
    <3>1. (call[c].keyless \/ override' \in Local) \in BOOLEAN
      OBVIOUS
    <3> QED BY <1>2, <1>4, <3>1 DEF CallRecord
  <2>3. /\ r.pc = "tools" /\ r.todo = call[c].todo /\ r.crossed = call[c].crossed
        /\ r.use = override' /\ r.block = call[c].block
        /\ r.first = call[c].first /\ r.locked = call[c].locked
        /\ r.changed = call[c].changed /\ r.fell = call[c].fell
        /\ r.keyless = (call[c].keyless \/ override' \in Local)
        /\ r.deferred = call[c].deferred
    BY <1>1, <1>2 DEF CallRecord
  <2> HIDE DEF r
  <2>4. {chain', model'} \subseteq AnyModel
    BY <1>2, <1>3, <1>4, <2>1 DEF AnyModel
  <2>5. Fit(c, r, chain', model')
    BY <1>1, <1>4, <1>5, <1>6, <2>1, <2>3 DEF Fit, Plain
  <2> QED BY <1>1, <1>2, <1>4, <2>1, <2>2, <2>3, <2>4, <2>5, Proceeds
<1>7. CASE override' \in {NoModel, call[c].use}
  <2>1. /\ R!Proceed(c, call[c]) /\ model' = (IF ok THEN m ELSE model) /\ chain' = chain
    BY <1>7 DEF R!SwitchModel
  <2>2. {chain', model'} \subseteq AnyModel
    BY <1>2, <1>3, <2>1
  <2>3. Fit(c, call[c], chain', model')
    BY <1>1, <1>3, <1>5, <1>7, <2>1 DEF Fit
  <2> QED BY <1>1, <1>2, <1>4, <2>1, <2>2, <2>3, Proceeds
<1> QED BY <1>6, <1>7

-----------------------------------------------------------------------------
(* Reasoner: responses *)

\* What Followed gives.
LEMMA FollowedCall ==
  ASSUME ReasonerInv, NEW c \in Actor
  PROVE  /\ R!Followed(c) \in CallRecord
         /\ R!Followed(c).use = IF call[c].fallback THEN call[c].by ELSE call[c].use
         /\ R!Followed(c).fell = (call[c].fell \/ call[c].fallback)
         /\ R!Followed(c).by = call[c].by /\ R!Followed(c).first = call[c].first
         /\ R!Followed(c).block = call[c].block /\ R!Followed(c).locked = call[c].locked
         /\ R!Followed(c).crossed = call[c].crossed /\ R!Followed(c).changed = call[c].changed
         /\ R!Followed(c).keyless = call[c].keyless /\ R!Followed(c).deferred = call[c].deferred
<1>1. call[c] \in CallRecord
  BY DEF ReasonerInv, ReasonerTypeInv
<1>2. CASE call[c].fallback
  <2> DEFINE r == [call[c] EXCEPT !.use = call[c].by, !.fell = TRUE]
  <2>1. R!Followed(c) = r
    BY <1>2 DEF R!Followed
  <2>2. r \in CallRecord
    BY <1>1 DEF CallRecord
  <2>3. /\ r.use = call[c].by /\ r.fell /\ r.by = call[c].by /\ r.first = call[c].first
        /\ r.block = call[c].block /\ r.locked = call[c].locked /\ r.crossed = call[c].crossed
        /\ r.changed = call[c].changed /\ r.keyless = call[c].keyless
        /\ r.deferred = call[c].deferred
    BY <1>1 DEF CallRecord
  <2> HIDE DEF r
  <2> QED BY <1>2, <2>1, <2>2, <2>3 DEF CallRecord
<1>3. CASE ~call[c].fallback
  <2>1. R!Followed(c) = call[c]
    BY <1>3 DEF R!Followed
  <2>2. call[c].fell \in BOOLEAN
    BY <1>1 DEF CallRecord
  <2> QED BY <1>1, <1>3, <2>1, <2>2
<1> QED BY <1>2, <1>3

\* A response settles the switch that is pending, and makes the fallback that wrote it
\* the model of the call.
LEMMA Responds ==
  ASSUME ReasonerInv, NEW c \in Actor, NEW r \in CallRecord, R!Responded(c, r),
         r.use = R!Followed(c).use, r.fell = R!Followed(c).fell,
         r.first = call[c].first, r.block = call[c].block, r.locked = call[c].locked,
         r.crossed = call[c].crossed, r.changed = call[c].changed,
         r.keyless = call[c].keyless, r.deferred = call[c].deferred,
         r.pc \in {"returned", "tools", "forced"},
         r.pc = "tools" => r.todo # <<>>,
         r.pc = "returned" => r.by = call[c].by /\ lastModel' = r.use,
         r.pc = "forced" => r.by = IF call[c].fallback THEN call[c].by ELSE model,
         lastModel' \in AnyModel
  PROVE  ReasonerInv'
<1> DEFINE s == IF r.first # NoModel THEN r
                ELSE [r EXCEPT !.first = call[c].by,
                               !.deferred = pendingSwitch = c /\ ~call[c].revolver]
           t == IF call[c].revolver /\ c = pendingSwitch THEN [s EXCEPT !.block = r.use] ELSE s
<1>1. /\ call \in [Actor -> CallRecord] /\ LockInv /\ \A d \in Actor : call[d] \in CallRecord
      /\ {override, current, chain, model} \subseteq AnyModel
  BY DEF ReasonerInv, ReasonerTypeInv
<1>2. /\ call[c].pc = "asked" /\ UNCHANGED <<modelMode, lock, lockedTo, override, chain>>
      /\ pendingSwitch' = IF call[c].revolver THEN NoCall ELSE pendingSwitch
      /\ IF call[c].fallback THEN model' = r.use /\ current' = r.use
                             ELSE UNCHANGED <<model, current>>
  BY DEF R!Responded, R!settings
<1>3. R!Active(c)
  BY <1>2 DEF R!Active
<1>4. call'[c] = t
  BY <1>3 DEF R!Responded
<1>5. /\ s \in CallRecord
      /\ s.first = IF r.first # NoModel THEN r.first ELSE call[c].by
      /\ s.deferred = IF r.first # NoModel THEN r.deferred
                      ELSE pendingSwitch = c /\ ~call[c].revolver
      /\ s.pc = r.pc /\ s.use = r.use /\ s.by = r.by /\ s.block = r.block
      /\ s.locked = r.locked /\ s.crossed = r.crossed /\ s.changed = r.changed
      /\ s.fell = r.fell /\ s.keyless = r.keyless /\ s.todo = r.todo
  <2>1. CASE r.first # NoModel
    <3>1. s = r
      BY <2>1
    <3> HIDE DEF s
    <3> QED BY <2>1, <3>1
  <2>2. CASE r.first = NoModel
    <3>1. s = [r EXCEPT !.first = call[c].by,
                        !.deferred = pendingSwitch = c /\ ~call[c].revolver]
      BY <2>2
    <3>2. call[c].by \in AnyModel
      BY <1>1 DEF CallRecord
    <3> HIDE DEF s
    <3> QED BY <2>2, <3>1, <3>2 DEF CallRecord
  <2> QED BY <2>1, <2>2
<1>6. \A d \in Actor \ {c} :
        call'[d] = IF call[c].revolver /\ d = pendingSwitch /\ R!Active(d)
                   THEN [call[d] EXCEPT !.block = r.use] ELSE call[d]
  BY DEF R!Responded
<1>7. r.use \in AnyModel
  BY DEF CallRecord
<1>8. call' \in [Actor -> CallRecord]
  <2>1. ASSUME NEW d \in Actor PROVE [call[d] EXCEPT !.block = r.use] \in CallRecord
    BY <1>1, <1>7 DEF CallRecord
  <2>2. t \in CallRecord
    BY <1>5, <1>7 DEF CallRecord
  <2> HIDE DEF s, t
  <2>3. \A d \in Actor : call'[d] \in CallRecord
    BY <1>1, <1>4, <1>6, <2>1, <2>2
  <2> QED BY <2>3 DEF R!Responded
<1>9. /\ t.block = IF call[c].revolver /\ c = pendingSwitch THEN r.use ELSE r.block
      /\ t.pc = r.pc /\ t.use = r.use /\ t.by = r.by /\ t.first = s.first
      /\ t.deferred = s.deferred /\ t.locked = r.locked /\ t.crossed = r.crossed
      /\ t.changed = r.changed /\ t.fell = r.fell /\ t.keyless = r.keyless /\ t.todo = r.todo
  <2> HIDE DEF s
  <2> QED BY <1>5 DEF CallRecord
<1> HIDE DEF s, t
<1>10. {current', model', lastModel'} \subseteq AnyModel
  BY <1>1, <1>2, <1>7
<1>11. ReasonerTypeInv' /\ LockInv'
  BY <1>1, <1>2, <1>8, <1>10 DEF ReasonerInv, ReasonerTypeInv, LockInv
<1>12. \A d \in Actor \ {c} : /\ call'[d].pc = call[d].pc /\ call'[d].todo = call[d].todo
                              /\ call'[d].crossed = call[d].crossed
  BY <1>1, <1>6 DEF CallRecord
<1>13. CallInv(c)'
  <2>1. pendingSwitch' \in {pendingSwitch, NoCall} /\ NoCall # c
    BY <1>2, ReasonerConstants
  <2>2. CallInv(c)
    BY DEF ReasonerInv
  <2>3. r.use = (IF call[c].fallback THEN call[c].by ELSE call[c].use)
        /\ r.fell = (call[c].fell \/ call[c].fallback)
    BY FollowedCall
  <2>4. ASSUME ~call[c].crossed PROVE r.use # NoModel /\ SettingsInv(call[c])'
    BY <1>2, <1>3, <1>4, <1>5, <1>9, <2>2, <2>3, <2>4 DEF CallInv, SettingsInv
  <2>5. ASSUME ~call[c].crossed, Plain(call[c])' PROVE FollowInv(call[c])' /\ SwitchInv(c)'
    <3>1. SettingsInv(call[c]) /\ FollowInv(call[c]) /\ SwitchInv(c)
      BY <1>3, <1>4, <1>9, <2>2, <2>3, <2>5 DEF CallInv, Plain
    <3>2. r.use = call[c].by /\ call[c].by # NoModel
      BY <1>2, <2>3, <3>1 DEF FollowInv
    <3>3. FollowInv(call[c])'
      <4>1. call'[c].first # NoModel
        BY <1>4, <1>5, <1>9, <3>2
      <4>2. model' = r.use /\ (chain' \in {NoModel, r.use} \/ r.fell)
        BY <1>2, <2>3, <3>1 DEF FollowInv
      <4>3. r.pc = "forced" => r.by = r.use
        BY <1>2, <2>3, <3>1 DEF FollowInv
      <4> QED BY <1>4, <1>9, <3>2, <4>1, <4>2, <4>3 DEF FollowInv
    <3>4. SwitchInv(c)'
      BY <1>2, <1>4, <1>5, <1>9, <2>1, <3>1, <3>2 DEF SwitchInv
    <3> QED BY <3>3, <3>4
  <2> QED BY <1>4, <1>9, <2>1, <2>4, <2>5 DEF CallInv, R!Active
<1> QED BY <1>2, <1>3, <1>4, <1>9, <1>11, <1>12, <1>13, OneCallSteps

\* A response, with or without tool calls, or a loop.
LEMMA ResponseStep ==
  ASSUME ReasonerInv, NEW c \in Actor,
         \/ R!Text(c)
         \/ \E ts \in R!Responses : R!ToolCalls(c, ts) \/ R!ToolLoop(c, ts)
  PROVE  ReasonerInv'
<1> DEFINE f == R!Followed(c)
<1>1. /\ f \in CallRecord /\ call[c] \in CallRecord
      /\ {model, lastModel} \subseteq AnyModel
      /\ f.by = call[c].by /\ f.first = call[c].first /\ f.block = call[c].block
      /\ f.locked = call[c].locked /\ f.crossed = call[c].crossed
      /\ f.changed = call[c].changed /\ f.keyless = call[c].keyless
      /\ f.deferred = call[c].deferred /\ f.use \in AnyModel /\ f.by \in AnyModel
  BY FollowedCall DEF ReasonerInv, ReasonerTypeInv, CallRecord
<1> HIDE DEF f
<1>2. CASE R!Text(c)
  <2> DEFINE r == [f EXCEPT !.pc = "returned"]
  <2>1. R!Responded(c, r) /\ lastModel' = f.use
    BY <1>2 DEF R!Text, f
  <2>2. r \in CallRecord
    BY <1>1 DEF CallRecord, R!Pc
  <2>3. /\ r.pc = "returned" /\ r.use = f.use /\ r.fell = f.fell /\ r.by = f.by
        /\ r.first = f.first /\ r.block = f.block /\ r.locked = f.locked
        /\ r.crossed = f.crossed /\ r.changed = f.changed /\ r.keyless = f.keyless
        /\ r.deferred = f.deferred
    BY <1>1 DEF CallRecord
  <2> HIDE DEF r
  <2>4. r.use = R!Followed(c).use /\ r.fell = R!Followed(c).fell
    BY <2>3 DEF f
  <2> QED BY <1>1, <2>1, <2>2, <2>3, <2>4, Responds
<1>3. ASSUME NEW ts \in R!Responses, R!ToolCalls(c, ts) PROVE ReasonerInv'
  <2> DEFINE r == [f EXCEPT !.pc = "tools", !.todo = ts]
  <2>1. R!Responded(c, r) /\ lastModel' = lastModel
    BY <1>3 DEF R!ToolCalls, f
  <2>2. ts \in Seq(R!Tool) /\ ts # <<>>
    <3>1. CASE \E t \in R!Tool : ts = <<t>>
      BY <3>1
    <3>2. CASE \E t, u \in R!Tool : ts = <<t, u>>
      BY <3>2
    <3> QED BY <3>1, <3>2 DEF R!Responses
  <2>3. r \in CallRecord
    BY <1>1, <2>2 DEF CallRecord, R!Pc
  <2>4. /\ r.pc = "tools" /\ r.todo = ts /\ r.use = f.use /\ r.fell = f.fell
        /\ r.first = f.first /\ r.block = f.block /\ r.locked = f.locked
        /\ r.crossed = f.crossed /\ r.changed = f.changed /\ r.keyless = f.keyless
        /\ r.deferred = f.deferred
    BY <1>1 DEF CallRecord
  <2> HIDE DEF r
  <2>5. r.use = R!Followed(c).use /\ r.fell = R!Followed(c).fell
    BY <2>4 DEF f
  <2> QED BY <1>1, <2>1, <2>2, <2>3, <2>4, <2>5, Responds
<1>4. ASSUME NEW ts \in R!Responses, R!ToolLoop(c, ts) PROVE ReasonerInv'
  <2> DEFINE by == IF call[c].fallback THEN f.by ELSE model
             r == [f EXCEPT !.pc = "forced", !.by = by]
  <2>1. R!Responded(c, r) /\ lastModel' = lastModel
    BY <1>4 DEF R!ToolLoop, f
  <2>2. by \in AnyModel
    BY <1>1
  <2>3. by = IF call[c].fallback THEN call[c].by ELSE model
    BY <1>1
  <2> HIDE DEF by
  <2>4. r \in CallRecord
    BY <1>1, <2>2 DEF CallRecord, R!Pc
  <2>5. /\ r.pc = "forced" /\ r.by = by /\ r.use = f.use /\ r.fell = f.fell
        /\ r.first = f.first /\ r.block = f.block /\ r.locked = f.locked
        /\ r.crossed = f.crossed /\ r.changed = f.changed /\ r.keyless = f.keyless
        /\ r.deferred = f.deferred
    BY <1>1 DEF CallRecord
  <2> HIDE DEF r
  <2>6. r.use = R!Followed(c).use /\ r.fell = R!Followed(c).fell
    BY <2>5 DEF f
  <2> QED BY <1>1, <2>1, <2>3, <2>4, <2>5, <2>6, Responds
<1> QED BY <1>2, <1>3, <1>4

-----------------------------------------------------------------------------
(* Reasoner: the theorem *)

LEMMA ReasonerNext == ReasonerInv /\ R!Next => ReasonerInv'
<1> SUFFICES ASSUME ReasonerInv, R!Next PROVE ReasonerInv'
  OBVIOUS
<1>1. CASE \/ R!Unlock
           \/ \E on \in BOOLEAN : R!SetRevolverMode(on) \/ R!SetAutonomousMode(on)
           \/ \E m \in Model : R!SetModelLock(m) \/ R!ChooseModel(m)
  BY <1>1, SettingsStep
<1>2. ASSUME NEW c \in Actor,
             \/ R!BeginChat(c)
             \/ \E m \in Model : R!BeginRevolver(c, m) \/ R!BeginEvaluation(c, m)
      PROVE  ReasonerInv'
  BY <1>2, CallStarts
<1>3. ASSUME NEW c \in Actor,
             \/ R!Text(c)
             \/ \E ts \in R!Responses : R!ToolCalls(c, ts) \/ R!ToolLoop(c, ts)
      PROVE  ReasonerInv'
  BY <1>3, ResponseStep
<1>4. ASSUME NEW c \in Actor,
             \/ R!Switched(c) \/ R!Ask(c) \/ R!Fail(c) \/ R!Forced(c) \/ R!Recorded(c)
             \/ R!RunTool(c)
      PROVE  ReasonerInv'
  BY <1>4, SwitchedStep, AskStep, OverStep, ForcedStep, RunToolStep
<1>5. ASSUME NEW c \in Actor, NEW m \in Model,
             R!Fallback(c, m) \/ \E ok \in BOOLEAN : R!SwitchModel(c, m, ok)
      PROVE  ReasonerInv'
  BY <1>5, FallbackStep, SwitchModelStep
<1> QED BY <1>1, <1>2, <1>3, <1>4, <1>5 DEF R!Next

LEMMA ReasonerStutters == ReasonerInv /\ UNCHANGED reasonerVars => ReasonerInv'
BY DEF ReasonerInv, ReasonerTypeInv, LockInv, SoloInv, CallInv, SettingsInv, FollowInv,
   SwitchInv, Plain, R!Active, reasonerVars

\* The block of a response names the model that wrote it, and the revolver_switch block
\* the model that wrote the first, whatever tools, failures of providers, loops and
\* changes of the settings a call of process_input goes through and for any number of
\* iterations; and a chat begun with a locked model asks that model only.  The calls
\* excepted are named by the property: they were crossed by another call, went over to a
\* model without a key, or fell back while the settings changed.
THEOREM ModelIsRecorded == Spec => []RecordedModel
<1> DEFINE I == component = "Reasoner" => ReasonerInv
<1>1. Init => I
  BY ReasonerInit DEF Init
<1>2. I /\ [Next]_vars => I'
  <2> SUFFICES ASSUME I, [Next]_vars PROVE I'
    OBVIOUS
  <2>1. component' = component
    BY DEF Next, vars
  <2>2. component = "Reasoner" => R!Next \/ UNCHANGED reasonerVars
    BY DEF Next, vars
  <2> QED BY <2>1, <2>2, ReasonerNext, ReasonerStutters
<1>3. I => RecordedModel
  <2> SUFFICES ASSUME ReasonerInv PROVE R!RecordedModel /\ R!LockedModelAnswers
    BY DEF RecordedModel
  <2>1. R!RecordedModel
    <3> SUFFICES ASSUME NEW c \in Actor, call[c].pc = "returned", call[c].by # NoModel,
                        Plain(call[c])
                 PROVE  /\ lastModel = call[c].by
                        /\ call[c].block \in {NoModel, call[c].first} \/ call[c].deferred
      BY DEF R!RecordedModel, Plain
    <3>1. FollowInv(call[c]) /\ SwitchInv(c)
      BY DEF ReasonerInv, CallInv, R!Active, Plain
    <3> QED BY <3>1 DEF FollowInv, SwitchInv
  <2>2. R!LockedModelAnswers
    BY DEF ReasonerInv, CallInv, R!Active, Plain, FollowInv, SettingsInv, R!LockedModelAnswers
  <2> QED BY <2>1, <2>2
<1> QED BY <1>1, <1>2, <1>3, PTL DEF Spec

-----------------------------------------------------------------------------
(* Reasoner: types *)

\* A call in progress has a model, a fallback is a model, and tools are run only if there
\* are some.
KnownCall ==
  {r \in R!Calls : /\ r.pc \notin {"new", "done"} => r.use \in Model
                   /\ r.pc = "asked" /\ r.fallback => r.by \in Model
                   /\ r.pc = "tools" => r.todo \in R!Responses}

\* The types of Reasoner, with what keeps the providers that were tried and the tools that
\* are left within theirs.
KnownInv == R!TypeOK /\ call \in [Actor -> KnownCall]

LEMMA KnownBeginning ==
  /\ R!NewCall \in KnownCall /\ R!Over \in KnownCall
  /\ R!NewCall.pc = "new" /\ R!NewCall.todo = <<>>
<1>1. R!NewCall \in R!Calls
  BY ReasonerConstants DEF R!NewCall, R!Calls, R!Pc
<1>2. R!NewCall.pc = "new" /\ R!NewCall.todo = <<>>
  BY DEF R!NewCall
<1>3. R!Over \in R!Calls /\ R!Over.pc = "done"
  BY <1>1 DEF R!Over, R!Calls, R!Pc
<1> QED BY <1>1, <1>2, <1>3 DEF KnownCall

LEMMA KnownInit == R!Init => KnownInv
<1> SUFFICES ASSUME R!Init PROVE KnownInv
  OBVIOUS
<1>1. call \in [Actor -> KnownCall]
  BY KnownBeginning DEF R!Init
<1>2. call \in [Actor -> R!Calls]
  BY <1>1 DEF KnownCall
<1>3. MaxChanges \in Nat
  BY ActivitiesAssumption DEF R!ReasonerAssumption
<1> QED BY <1>1, <1>2, <1>3, ReasonerConstants DEF R!Init, R!TypeOK, KnownInv

\* A step that keeps the calls as they should be.
LEMMA KnownKept ==
  ASSUME KnownInv, call' \in [Actor -> KnownCall],
         {lockedTo', override', current', chain', model', lastModel'} \subseteq Model \cup {NoModel},
         modelMode' \in {"manual", "autonomous", "revolver"}, lock' \in BOOLEAN,
         changes' \in 0 .. MaxChanges, seen' \subseteq R!Tool, pendingSwitch' \in Actor \cup {NoCall}
  PROVE  KnownInv'
<1>1. call' \in [Actor -> R!Calls]
  BY DEF KnownCall
<1> QED BY <1>1 DEF KnownInv, R!TypeOK

\* A command changes the settings.
LEMMA KnownSettings ==
  ASSUME KnownInv,
         \/ R!Unlock
         \/ \E on \in BOOLEAN : R!SetRevolverMode(on) \/ R!SetAutonomousMode(on)
         \/ \E m \in Model : R!SetModelLock(m) \/ R!ChooseModel(m)
  PROVE  KnownInv'
<1>1. R!Changed
  BY DEF R!Unlock, R!SetRevolverMode, R!SetAutonomousMode, R!SetModelLock, R!ChooseModel
<1>2. \A r \in KnownCall : [r EXCEPT !.changed = TRUE] \in KnownCall
  BY DEF KnownCall, R!Calls
<1>3. call' \in [Actor -> KnownCall]
  BY <1>1, <1>2 DEF KnownInv, R!Changed
<1>4. changes' \in 0 .. MaxChanges
  BY <1>1, ActivitiesAssumption DEF KnownInv, R!TypeOK, R!Changed, R!ReasonerAssumption
<1>5. UNCHANGED <<current, chain, model, seen, pendingSwitch, lastModel>>
  BY <1>1 DEF R!Changed, R!object
<1>6. /\ {lockedTo', override'} \subseteq Model \cup {NoModel} /\ lock' \in BOOLEAN
      /\ modelMode' \in {"manual", "autonomous", "revolver"}
  BY DEF KnownInv, R!TypeOK, R!Unlock, R!SetRevolverMode, R!SetAutonomousMode, R!SetModelLock,
         R!ChooseModel
<1> QED BY <1>3, <1>4, <1>5, <1>6, KnownKept DEF KnownInv, R!TypeOK

\* A call begins.
LEMMA KnownBegin ==
  ASSUME KnownInv, NEW c \in Actor, NEW r \in KnownCall, R!Begin(c, r)
  PROVE  call' \in [Actor -> KnownCall]
<1>1. \A s \in KnownCall, crosses \in BOOLEAN : [s EXCEPT !.crossed = crosses] \in KnownCall
  BY DEF KnownCall, R!Calls
<1>2. \A s \in KnownCall : [s EXCEPT !.crossed = TRUE] \in KnownCall
  BY <1>1
<1> QED BY <1>1, <1>2 DEF R!Begin, KnownInv

LEMMA KnownStarts ==
  ASSUME KnownInv, NEW c \in Actor,
         \/ R!BeginChat(c)
         \/ \E m \in Model : R!BeginRevolver(c, m) \/ R!BeginEvaluation(c, m)
  PROVE  KnownInv'
<1>0. R!NewCall \in R!Calls /\ R!NewCall.pc = "new" /\ R!NewCall.todo = <<>>
  BY KnownBeginning DEF KnownCall
<1>1. CASE R!BeginChat(c)
  <2>1. R!Configured \in Model
    BY ReasonerConstants DEF R!Configured, KnownInv, R!TypeOK
  <2>2. [R!NewCall EXCEPT !.pc = "ready", !.use = R!Configured, !.locked = modelMode = "manual" /\ lock]
          \in KnownCall
    <3>1. \A locked \in BOOLEAN :
            [R!NewCall EXCEPT !.pc = "ready", !.use = R!Configured, !.locked = locked] \in KnownCall
      BY <1>0, <2>1 DEF KnownCall, R!Calls, R!Pc
    <3> QED BY <3>1
  <2>3. call' \in [Actor -> KnownCall]
    BY <1>1, <2>2, KnownBegin DEF R!BeginChat
  <2>4. /\ {current', chain', model'} \subseteq Model
        /\ UNCHANGED <<modelMode, lock, lockedTo, override, changes, seen, pendingSwitch, lastModel>>
    BY <1>1, <2>1 DEF R!BeginChat, R!Prepared, R!settings
  <2> QED BY <2>3, <2>4, KnownKept DEF KnownInv, R!TypeOK
<1>2. ASSUME NEW m \in Model, R!BeginRevolver(c, m) PROVE KnownInv'
  <2>1. [R!NewCall EXCEPT !.pc = "switching", !.use = m, !.block = m] \in KnownCall
    BY <1>0 DEF KnownCall, R!Calls, R!Pc
  <2>2. call' \in [Actor -> KnownCall]
    BY <1>2, <2>1, KnownBegin DEF R!BeginRevolver
  <2>3. /\ current' \in Model
        /\ UNCHANGED <<modelMode, lock, lockedTo, override, changes, chain, model, seen, pendingSwitch, lastModel>>
    BY <1>2 DEF R!BeginRevolver, R!settings
  <2> QED BY <2>2, <2>3, KnownKept DEF KnownInv, R!TypeOK
<1>3. ASSUME NEW m \in Model, R!BeginEvaluation(c, m) PROVE KnownInv'
  <2>1. [R!NewCall EXCEPT !.pc = "ready", !.chat = FALSE, !.use = m, !.left = 1] \in KnownCall
    <3>1. \A left \in 0 .. MaxIterations :
            [R!NewCall EXCEPT !.pc = "ready", !.chat = FALSE, !.use = m, !.left = left] \in KnownCall
      BY <1>0 DEF KnownCall, R!Calls, R!Pc
    <3>2. 1 \in 0 .. MaxIterations
      BY ReasonerConstants
    <3> QED BY <3>1, <3>2
  <2>2. call' \in [Actor -> KnownCall]
    BY <1>3, <2>1, KnownBegin DEF R!BeginEvaluation
  <2>3. /\ {chain', model'} \subseteq Model
        /\ UNCHANGED <<modelMode, lock, lockedTo, override, changes, current, seen, pendingSwitch, lastModel>>
    BY <1>3 DEF R!BeginEvaluation, R!Prepared, R!settings
  <2> QED BY <2>2, <2>3, KnownKept DEF KnownInv, R!TypeOK
<1> QED BY <1>1, <1>2, <1>3

\* A request is made for a call that has a model.
LEMMA KnownAsked ==
  ASSUME NEW r \in R!Calls, r.use \in Model, NEW ch \in Model \cup {NoModel}, NEW mo \in Model \cup {NoModel}
  PROVE  R!Asked(r, ch, mo) \in KnownCall
<1>1. CASE r.left = 0
  <2>1. [r EXCEPT !.pc = "returned", !.by = NoModel] \in KnownCall
    BY DEF KnownCall, R!Calls, R!Pc
  <2> QED BY <1>1, <2>1 DEF R!Asked
<1>2. CASE r.left # 0
  <2>1. \A by \in Model \cup {NoModel}, rev \in BOOLEAN :
          [r EXCEPT !.pc = "asked", !.left = @ - 1, !.fallback = FALSE, !.tried = {r.use},
                    !.revolver = rev, !.by = by] \in KnownCall
    <3>1. r.left - 1 \in 0 .. MaxIterations /\ {r.use} \in SUBSET Model
      BY <1>2, ReasonerConstants DEF R!Calls
    <3> QED BY <3>1 DEF KnownCall, R!Calls, R!Pc
  <2> QED BY <1>2, <2>1 DEF R!Asked
<1> QED BY <1>1, <1>2

\* Steps of one call without tools or responses.
LEMMA KnownSteps ==
  ASSUME KnownInv, NEW c \in Actor,
         \/ R!Switched(c) \/ R!Ask(c) \/ R!Fail(c) \/ R!Forced(c) \/ R!Recorded(c)
         \/ \E m \in Model : R!Fallback(c, m)
  PROVE  KnownInv'
<1>0. /\ call \in [Actor -> KnownCall] /\ call[c] \in KnownCall /\ call[c] \in R!Calls
      /\ {lockedTo, override, current, chain, model, lastModel} \subseteq Model \cup {NoModel}
  BY DEF KnownInv, R!TypeOK, KnownCall
<1>1. CASE R!Switched(c)
  <2>1. call[c].use \in Model
    BY <1>0, <1>1 DEF R!Switched, KnownCall
  <2>2. [call[c] EXCEPT !.pc = "ready"] \in KnownCall
    BY <1>0, <2>1 DEF KnownCall, R!Calls, R!Pc
  <2>3. call' \in [Actor -> KnownCall]
    BY <1>0, <1>1, <2>2 DEF R!Switched
  <2>4. /\ chain' = call[c].use /\ model' = call[c].use /\ pendingSwitch' = c
        /\ UNCHANGED <<modelMode, lock, lockedTo, override, changes, current, seen, lastModel>>
    BY <1>1 DEF R!Switched, R!Prepared, R!settings
  <2> QED BY <2>1, <2>3, <2>4, KnownKept DEF KnownInv, R!TypeOK
<1>2. CASE R!Ask(c)
  <2>1. call[c].use \in Model
    BY <1>0, <1>2 DEF R!Ask, KnownCall
  <2>2. R!Asked(call[c], chain, model) \in KnownCall
    BY <1>0, <2>1, KnownAsked
  <2>3. call' \in [Actor -> KnownCall]
    BY <1>0, <1>2, <2>2 DEF R!Ask
  <2>4. /\ seen' = {}
        /\ UNCHANGED <<modelMode, lock, lockedTo, override, changes, current, chain, model, pendingSwitch, lastModel>>
    BY <1>2 DEF R!Ask, R!settings
  <2> QED BY <2>3, <2>4, KnownKept DEF KnownInv, R!TypeOK
<1>3. CASE R!Fail(c) \/ R!Recorded(c)
  <2>1. call' \in [Actor -> KnownCall]
    BY <1>0, <1>3, KnownBeginning DEF R!Fail, R!Recorded
  <2>2. UNCHANGED <<modelMode, lock, lockedTo, override, changes, current, chain, model, seen, pendingSwitch,
                    lastModel>>
    BY <1>3 DEF R!Fail, R!Recorded, R!settings, R!object
  <2> QED BY <2>1, <2>2, KnownKept DEF KnownInv, R!TypeOK
<1>4. CASE R!Forced(c)
  <2>1. call[c].use \in Model
    BY <1>0, <1>4 DEF R!Forced, KnownCall
  <2>2. [call[c] EXCEPT !.pc = "returned"] \in KnownCall
    BY <1>0, <2>1 DEF KnownCall, R!Calls, R!Pc
  <2>3. call' \in [Actor -> KnownCall]
    BY <1>0, <1>4, <2>2 DEF R!Forced
  <2>4. /\ lastModel' = call[c].use
        /\ UNCHANGED <<modelMode, lock, lockedTo, override, changes, current, chain, model, seen, pendingSwitch>>
    BY <1>4 DEF R!Forced, R!settings
  <2> QED BY <2>1, <2>3, <2>4, KnownKept DEF KnownInv, R!TypeOK
<1>5. ASSUME NEW m \in Model, R!Fallback(c, m) PROVE KnownInv'
  <2>1. call[c].pc = "asked" /\ call[c].use \in Model /\ call[c].tried \cup {m} \in SUBSET Model
    BY <1>0, <1>5 DEF R!Fallback, KnownCall, R!Calls
  <2>2. [call[c] EXCEPT !.fallback = TRUE, !.by = m, !.tried = @ \cup {m}] \in KnownCall
    BY <1>0, <2>1 DEF KnownCall, R!Calls
  <2>3. call' = [call EXCEPT ![c] = [call[c] EXCEPT !.fallback = TRUE, !.by = m, !.tried = @ \cup {m}]]
    BY <1>0, <1>5 DEF R!Fallback
  <2>4. call' \in [Actor -> KnownCall]
    BY <1>0, <2>2, <2>3
  <2>5. UNCHANGED <<modelMode, lock, lockedTo, override, changes, current, chain, model, seen, pendingSwitch,
                    lastModel>>
    BY <1>5 DEF R!Fallback, R!settings, R!object
  <2> QED BY <2>4, <2>5, KnownKept DEF KnownInv, R!TypeOK
<1> QED BY <1>1, <1>2, <1>3, <1>4, <1>5

\* A call with tools goes on to the next one, or makes a request.
LEMMA KnownProceeds ==
  ASSUME KnownInv, NEW c \in Actor, NEW r \in KnownCall, r.pc = "tools", R!Proceed(c, r),
         {chain', model'} \subseteq Model \cup {NoModel}
  PROVE  call' \in [Actor -> KnownCall]
<1>1. r \in R!Calls /\ r.use \in Model /\ r.todo \in R!Responses
  BY DEF KnownCall
<1>2. Tail(r.todo) = <<>> \/ Tail(r.todo) \in R!Responses
  <2>1. ASSUME NEW t \in R!Tool, r.todo = <<t>> PROVE Tail(r.todo) = <<>>
    BY <2>1
  <2>2. ASSUME NEW t \in R!Tool, NEW u \in R!Tool, r.todo = <<t, u>> PROVE Tail(r.todo) = <<u>>
    BY <2>2
  <2> QED BY <1>1, <2>1, <2>2 DEF R!Responses
<1> DEFINE s == [r EXCEPT !.todo = Tail(@)]
<1>3. /\ s \in R!Calls /\ s.use \in Model /\ s.pc = "tools" /\ s.todo = Tail(r.todo)
  BY <1>1, <1>2 DEF R!Calls
<1>4. call' = [call EXCEPT ![c] = IF s.todo = <<>> THEN R!Asked(s, chain', model') ELSE s]
  BY DEF R!Proceed
<1> HIDE DEF s
<1>5. s.todo # <<>> => s \in KnownCall
  BY <1>2, <1>3 DEF KnownCall
<1>6. s.todo = <<>> => R!Asked(s, chain', model') \in KnownCall
  BY <1>3, KnownAsked
<1> QED BY <1>4, <1>5, <1>6 DEF KnownInv

LEMMA KnownTools ==
  ASSUME KnownInv, NEW c \in Actor,
         R!RunTool(c) \/ \E m \in Model, ok \in BOOLEAN : R!SwitchModel(c, m, ok)
  PROVE  KnownInv'
<1>0. /\ call \in [Actor -> KnownCall] /\ call[c] \in KnownCall /\ call[c] \in R!Calls
      /\ {lockedTo, override, current, chain, model, lastModel} \subseteq Model \cup {NoModel}
  BY DEF KnownInv, R!TypeOK, KnownCall
<1>1. CASE R!RunTool(c)
  <2>1. UNCHANGED <<modelMode, lock, lockedTo, override, changes, current, chain, model, seen, pendingSwitch,
                    lastModel>>
    BY <1>1 DEF R!RunTool, R!settings, R!object
  <2>2. call' \in [Actor -> KnownCall]
    BY <1>0, <1>1, <2>1, KnownProceeds DEF R!RunTool
  <2> QED BY <2>1, <2>2, KnownKept DEF KnownInv, R!TypeOK
<1>2. ASSUME NEW m \in Model, NEW ok \in BOOLEAN, R!SwitchModel(c, m, ok) PROVE KnownInv'
  <2>1. /\ call[c].pc = "tools" /\ {override', current', chain', model'} \subseteq Model \cup {NoModel}
        /\ UNCHANGED <<modelMode, lock, lockedTo, changes, seen, pendingSwitch, lastModel>>
    BY <1>0, <1>2 DEF R!SwitchModel
  <2>2. CASE override' \notin {NoModel, call[c].use}
    <3> DEFINE r == [call[c] EXCEPT !.use = override', !.keyless = @ \/ override' \in Local]
    <3>1. R!Proceed(c, r)
      BY <1>2, <2>2 DEF R!SwitchModel
    <3>2. r \in KnownCall /\ r.pc = "tools"
      BY <1>0, <2>1, <2>2 DEF KnownCall, R!Calls
    <3> HIDE DEF r
    <3>3. call' \in [Actor -> KnownCall]
      BY <2>1, <3>1, <3>2, KnownProceeds
    <3> QED BY <1>0, <2>1, <3>3, KnownKept DEF KnownInv, R!TypeOK
  <2>3. CASE override' \in {NoModel, call[c].use}
    <3>1. R!Proceed(c, call[c])
      BY <1>2, <2>3 DEF R!SwitchModel
    <3>2. call' \in [Actor -> KnownCall]
      BY <1>0, <2>1, <3>1, KnownProceeds
    <3> QED BY <1>0, <2>1, <3>2, KnownKept DEF KnownInv, R!TypeOK
  <2> QED BY <2>2, <2>3
<1> QED BY <1>1, <1>2

\* A response, which may settle the switch of another call.
LEMMA KnownResponds ==
  ASSUME KnownInv, NEW c \in Actor, NEW r \in KnownCall, r.use \in Model, R!Responded(c, r),
         lastModel' \in Model \cup {NoModel}, seen' \subseteq R!Tool
  PROVE  KnownInv'
<1>0. /\ call \in [Actor -> KnownCall] /\ call[c] \in R!Calls
      /\ {lockedTo, override, current, chain, model} \subseteq Model \cup {NoModel}
  BY DEF KnownInv, R!TypeOK, KnownCall
<1>1. \A d \in KnownCall : [d EXCEPT !.block = r.use] \in KnownCall
  BY DEF KnownCall, R!Calls
<1>2. \A deferred \in BOOLEAN : [r EXCEPT !.first = call[c].by, !.deferred = deferred] \in KnownCall
  BY <1>0 DEF KnownCall, R!Calls
<1>3. [r EXCEPT !.first = call[c].by, !.deferred = pendingSwitch = c /\ ~call[c].revolver] \in KnownCall
  BY <1>0, <1>2 DEF R!Calls
<1>4. call' \in [Actor -> KnownCall]
  BY <1>0, <1>1, <1>3 DEF R!Responded
<1>5. /\ {current', model'} \subseteq Model \cup {NoModel} /\ pendingSwitch' \in Actor \cup {NoCall}
      /\ UNCHANGED <<modelMode, lock, lockedTo, override, changes, chain>>
  BY <1>0 DEF R!Responded, R!settings, KnownInv, R!TypeOK
<1> QED BY <1>4, <1>5, KnownKept DEF KnownInv, R!TypeOK

\* Every tool of a response is a tool.
LEMMA ToolsOf ==
  ASSUME NEW ts \in R!Responses
  PROVE  \A i \in DOMAIN ts : ts[i] \in R!Tool
<1>1. ASSUME NEW t \in R!Tool, ts = <<t>> PROVE \A i \in DOMAIN ts : ts[i] \in R!Tool
  BY <1>1
<1>2. ASSUME NEW t \in R!Tool, NEW u \in R!Tool, ts = <<t, u>> PROVE \A i \in DOMAIN ts : ts[i] \in R!Tool
  BY <1>2
<1> QED BY <1>1, <1>2 DEF R!Responses

LEMMA KnownResponse ==
  ASSUME KnownInv, NEW c \in Actor,
         \/ R!Text(c)
         \/ \E ts \in R!Responses : R!ToolCalls(c, ts) \/ R!ToolLoop(c, ts)
  PROVE  KnownInv'
<1>0. /\ call[c] \in KnownCall /\ call[c] \in R!Calls /\ call[c].pc = "asked" /\ seen \subseteq R!Tool
      /\ {model, lastModel} \subseteq Model \cup {NoModel}
  BY DEF KnownInv, R!TypeOK, KnownCall, R!Text, R!ToolCalls, R!ToolLoop, R!Responded
<1> DEFINE f == R!Followed(c)
<1>1. f \in R!Calls /\ f.use \in Model
  <2>1. call[c].use \in Model /\ (call[c].fallback => call[c].by \in Model)
    BY <1>0 DEF KnownCall
  <2>2. CASE call[c].fallback
    <3>1. f = [call[c] EXCEPT !.use = call[c].by, !.fell = TRUE]
      BY <2>2 DEF R!Followed
    <3> HIDE DEF f
    <3> QED BY <1>0, <2>1, <2>2, <3>1 DEF R!Calls
  <2>3. CASE ~call[c].fallback
    BY <1>0, <2>1, <2>3 DEF R!Followed
  <2> QED BY <2>2, <2>3
<1> HIDE DEF f
<1>2. CASE R!Text(c)
  <2> DEFINE r == [f EXCEPT !.pc = "returned"]
  <2>1. r \in KnownCall /\ r.use \in Model
    BY <1>1 DEF KnownCall, R!Calls, R!Pc
  <2>2. R!Responded(c, r) /\ lastModel' = f.use /\ seen' = seen
    BY <1>2 DEF R!Text, f
  <2> HIDE DEF r
  <2> QED BY <1>0, <1>1, <2>1, <2>2, KnownResponds
<1>3. ASSUME NEW ts \in R!Responses, R!ToolCalls(c, ts) PROVE KnownInv'
  <2> DEFINE r == [f EXCEPT !.pc = "tools", !.todo = ts]
  <2>1. r \in KnownCall /\ r.use \in Model
    BY <1>1 DEF KnownCall, R!Calls, R!Pc
  <2>2. R!Responded(c, r) /\ lastModel' = lastModel /\ seen' = seen \cup {ts[i] : i \in DOMAIN ts}
    BY <1>3 DEF R!ToolCalls, f
  <2>3. \A i \in DOMAIN ts : ts[i] \in R!Tool
    BY ToolsOf
  <2> HIDE DEF r
  <2> QED BY <1>0, <2>1, <2>2, <2>3, KnownResponds
<1>4. ASSUME NEW ts \in R!Responses, R!ToolLoop(c, ts) PROVE KnownInv'
  <2> DEFINE by == IF call[c].fallback THEN f.by ELSE model
             r == [f EXCEPT !.pc = "forced", !.by = by]
  <2>1. by \in Model \cup {NoModel}
    BY <1>0, <1>1 DEF R!Calls
  <2>2. R!Responded(c, r) /\ lastModel' = lastModel
    BY <1>4 DEF R!ToolLoop, f
  <2> HIDE DEF by
  <2>3. r \in KnownCall /\ r.use \in Model
    BY <1>1, <2>1 DEF KnownCall, R!Calls, R!Pc
  <2>4. \E I \in SUBSET DOMAIN ts : seen' = seen \cup {ts[i] : i \in I}
    BY <1>4 DEF R!ToolLoop
  <2>5. \A i \in DOMAIN ts : ts[i] \in R!Tool
    BY ToolsOf
  <2> HIDE DEF r
  <2> QED BY <1>0, <2>2, <2>3, <2>4, <2>5, KnownResponds
<1> QED BY <1>2, <1>3, <1>4

LEMMA KnownNext == KnownInv /\ R!Next => KnownInv'
<1> SUFFICES ASSUME KnownInv, R!Next PROVE KnownInv'
  OBVIOUS
<1>1. CASE \/ R!Unlock
           \/ \E on \in BOOLEAN : R!SetRevolverMode(on) \/ R!SetAutonomousMode(on)
           \/ \E m \in Model : R!SetModelLock(m) \/ R!ChooseModel(m)
  BY <1>1, KnownSettings
<1>2. ASSUME NEW c \in Actor,
             \/ R!BeginChat(c)
             \/ \E m \in Model : R!BeginRevolver(c, m) \/ R!BeginEvaluation(c, m)
      PROVE  KnownInv'
  BY <1>2, KnownStarts
<1>3. ASSUME NEW c \in Actor,
             \/ R!Text(c)
             \/ \E ts \in R!Responses : R!ToolCalls(c, ts) \/ R!ToolLoop(c, ts)
      PROVE  KnownInv'
  BY <1>3, KnownResponse
<1>4. ASSUME NEW c \in Actor,
             \/ R!Switched(c) \/ R!Ask(c) \/ R!Fail(c) \/ R!Forced(c) \/ R!Recorded(c)
             \/ \E m \in Model : R!Fallback(c, m)
      PROVE  KnownInv'
  BY <1>4, KnownSteps
<1>5. ASSUME NEW c \in Actor,
             R!RunTool(c) \/ \E m \in Model, ok \in BOOLEAN : R!SwitchModel(c, m, ok)
      PROVE  KnownInv'
  BY <1>5, KnownTools
<1> QED BY <1>1, <1>2, <1>3, <1>4, <1>5 DEF R!Next

LEMMA KnownStutters == KnownInv /\ UNCHANGED reasonerVars => KnownInv'
BY DEF KnownInv, R!TypeOK, reasonerVars

-----------------------------------------------------------------------------
(* Speech: the proofs about the component, here *)

SP == INSTANCE SpeechProofs WITH MaxMessages <- MaxSpoken

\* The component as it is composed here, and as it is proved about, are the same.
LEMMA SameSpeaking == S!Speaking = SP!Speaking
<1>1. S!Open = SP!Open /\ \A s, t : S!Older(s, t) <=> SP!Older(s, t)
  BY DEF S!Open, SP!Open, S!Older, SP!Older, S!Sentence, SP!Sentence, S!Message, SP!Message, S!Chunk,
         SP!Chunk
<1>2. \A U : S!Cardinality(U) = SP!Cardinality(U)
  BY Zenon DEF S!Cardinality, SP!Cardinality
<1>3. \A s : {t \in S!Open : S!Older(t, s)} = {t \in SP!Open : SP!Older(t, s)}
  BY <1>1
<1> QED BY <1>1, <1>2, <1>3 DEF S!Speaking, SP!Speaking

LEMMA SameSteps == S!Next => SP!Next
<1>1. \A m : S!Works(m) \/ S!Token(m) \/ S!Raises(m) => SP!Works(m) \/ SP!Token(m) \/ SP!Raises(m)
  BY DEF S!Works, SP!Works, S!Token, SP!Token, S!Raises, SP!Raises, S!Begin, SP!Begin, S!Speak,
         SP!Speak, S!Returns, SP!Returns, S!End, SP!End, S!Answer, SP!Answer, S!players,
         SP!players, S!chat, SP!chat, S!history, SP!history, S!At, SP!At, S!Says, SP!Says,
         S!Trouble, SP!Trouble, S!Moves, SP!Moves, S!StreamEnd, SP!StreamEnd, S!Message,
         SP!Message, S!NextChunk, SP!NextChunk, S!Open, SP!Open, S!Unsaid, SP!Unsaid,
         S!Sentence, SP!Sentence, S!Chunk, SP!Chunk
<1>2. \A s, ok : S!Spoken(s, ok) => SP!Spoken(s, ok)
  BY SameSpeaking DEF S!Spoken, SP!Spoken, S!players, SP!players, S!chat, SP!chat, S!history, SP!history,
         S!Trouble, SP!Trouble
<1>3. \A s : S!TimesOut(s) => SP!TimesOut(s)
  BY DEF S!TimesOut, SP!TimesOut, S!players, SP!players, S!chat, SP!chat, S!history, SP!history,
         S!Trouble, SP!Trouble, S!Open, SP!Open, S!Sentence, SP!Sentence, S!Message,
         SP!Message, S!Chunk, SP!Chunk
<1>4. \A m : S!Send(m) \/ S!Start(m) => SP!Send(m) \/ SP!Start(m)
  BY DEF S!Send, SP!Send, S!Start, SP!Start, S!At, SP!At, S!Moves, SP!Moves, S!Silence, SP!Silence,
         S!players, SP!players, S!Effects, SP!Effects, S!Reset, SP!Reset, S!Sounding,
         SP!Sounding, S!Unfinished, SP!Unfinished, S!NoPlayer, SP!NoPlayer, S!Chunk,
         SP!Chunk, S!Absent, SP!Absent, S!Sentence, SP!Sentence, S!Message, SP!Message,
         S!Open, SP!Open
<1>5. \A p : S!Plays(p) \/ S!PlayerFails(p) => SP!Plays(p) \/ SP!PlayerFails(p)
  BY DEF S!Plays, SP!Plays, S!PlayerFails, SP!PlayerFails, S!PlayerStarts, SP!PlayerStarts,
         S!PlayerEnds, SP!PlayerEnds, S!backend, SP!backend, S!chat, SP!chat, S!Trouble,
         SP!Trouble, S!Effects, SP!Effects, S!PlayNext, SP!PlayNext, S!Sounding,
         SP!Sounding, S!history, SP!history, S!NoPlayer, SP!NoPlayer, S!Found, SP!Found,
         S!Ready, SP!Ready, S!Pauses, SP!Pauses, S!GoesOn, SP!GoesOn, S!Sentence,
         SP!Sentence, S!Chunk, SP!Chunk, S!Broken, SP!Broken, S!Absent, SP!Absent, S!Reset,
         SP!Reset, S!Coming, SP!Coming, S!Message, SP!Message, S!Open, SP!Open
<1>6. S!CancelStream \/ S!AudioReady \/ S!StreamEnded \/ S!PlaybackEnded
       => SP!CancelStream \/ SP!AudioReady \/ SP!StreamEnded \/ SP!PlaybackEnded
  BY DEF S!CancelStream, SP!CancelStream, S!AudioReady, SP!AudioReady, S!StreamEnded, SP!StreamEnded,
         S!PlaybackEnded, SP!PlaybackEnded, S!Message, SP!Message, S!Chunk, SP!Chunk,
         S!players, SP!players, S!chat, SP!chat, S!history, SP!history, S!Broken, SP!Broken,
         S!backend, SP!backend, S!Effects, SP!Effects, S!PlayNext, SP!PlayNext, S!Absent,
         SP!Absent, S!Reset, SP!Reset, S!Coming, SP!Coming, S!Sounding, SP!Sounding,
         S!Found, SP!Found, S!Ready, SP!Ready, S!Pauses, SP!Pauses, S!GoesOn, SP!GoesOn,
         S!Open, SP!Open, S!Sentence, SP!Sentence
<1>7. S!Interrupt \/ S!Escape \/ S!Finalize \/ S!Rerender
       => SP!Interrupt \/ SP!Escape \/ SP!Finalize \/ SP!Rerender
  BY DEF S!Interrupt, SP!Interrupt, S!Escape, SP!Escape, S!Finalize, SP!Finalize, S!Rerender,
         SP!Rerender, S!backend, SP!backend, S!Trouble, SP!Trouble, S!Silence, SP!Silence,
         S!players, SP!players, S!history, SP!history, S!chat, SP!chat, S!NoPlayer,
         SP!NoPlayer, S!Effects, SP!Effects, S!Reset, SP!Reset, S!Sounding, SP!Sounding,
         S!Unfinished, SP!Unfinished, S!Chunk, SP!Chunk, S!Absent, SP!Absent, S!Sentence,
         SP!Sentence, S!Message, SP!Message, S!At, SP!At, S!Open, SP!Open
<1> QED BY <1>1, <1>2, <1>3, <1>4, <1>5, <1>6, <1>7 DEF S!Next, SP!Next, S!Synthesis, SP!Synthesis, S!Sentence, SP!Sentence, S!Message, SP!Message,
         S!Chunk, SP!Chunk

LEMMA SameBeginning == S!Init => SP!Init
BY DEF S!Init, SP!Init, S!Message, SP!Message, S!Chunk, SP!Chunk, S!Sentence, SP!Sentence,
         S!Absent, SP!Absent, S!NoPlayer, SP!NoPlayer

LEMMA SameAssumption == SP!SpeechAssumption
BY ActivitiesAssumption DEF S!SpeechAssumption, SP!SpeechAssumption

\* Sentences are typed and played in order, and shown for their messages.
LEMMA SameMeaning == SP!TypeOK /\ SP!PlayedInOrder => S!TypeOK /\ S!PlayedInOrder
<1>1. SP!TypeOK => S!TypeOK
  BY DEF S!TypeOK, SP!TypeOK, S!Message, SP!Message, S!Chunk, SP!Chunk, S!Sentence, SP!Sentence,
         S!Absent, SP!Absent, S!Broken, SP!Broken, S!NoPlayer, SP!NoPlayer, S!Reply,
         SP!Reply, S!ToSet, SP!ToSet
<1>2. SP!PlayedInOrder => S!PlayedInOrder
  <2>1. S!Cardinality(S!Sounding) = SP!Cardinality(SP!Sounding)
    BY Zenon DEF S!Cardinality, SP!Cardinality, S!Sounding, SP!Sounding, S!Sentence, SP!Sentence, S!Message, SP!Message, S!Chunk, SP!Chunk
  <2> QED BY <2>1 DEF S!PlayedInOrder, SP!PlayedInOrder, S!Older, SP!Older
<1> QED BY <1>1, <1>2

LEMMA SpeechRuns == Spec => [](component = "Speech" => SP!SpeechInv)
<1> DEFINE I == component = "Speech" => SP!SpeechInv
<1>1. Init => I
  BY SameBeginning, SameAssumption, SP!SpeechInit DEF Init
<1>2. I /\ [Next]_vars => I'
  <2> SUFFICES ASSUME I, [Next]_vars, component' = "Speech"
               PROVE  SP!SpeechInv'
    OBVIOUS
  <2>1. component = "Speech"
    BY DEF Next, vars
  <2>2. CASE S!Next
    BY <2>1, <2>2, SameSteps, SameAssumption, SP!SpeechStep
  <2>3. CASE UNCHANGED speechVars
    <3>1. UNCHANGED SP!vars
      BY <2>3 DEF speechVars, SP!vars, SP!backend, SP!players, SP!chat, SP!history
    <3> QED BY <2>1, <3>1, SP!SpeechStutters
  <2> QED BY <2>1, <2>2, <2>3 DEF Next, vars
<1> QED BY <1>1, <1>2, PTL DEF Spec

\* The sentences of responses are played one at a time, each once and in their order, and a
\* text is shown for its own message, in whichever order the sentences become ready and
\* however the user interrupts them, but for players that are forgotten and messages that
\* are mixed (playNextStreamingChunk, ChatInterface): for any number of messages and sentences.
THEOREM SentencesInOrder == Spec => []PlayedInOrder
<1>1. (component = "Speech" => SP!SpeechInv) => PlayedInOrder
  BY SameMeaning, SameAssumption, SP!SpeechIsTyped, SP!SpeechInOrder DEF PlayedInOrder
<1> QED BY <1>1, SpeechRuns, PTL

-----------------------------------------------------------------------------
(* The types of all components *)

LEMMA ReasonerRuns == Spec => [](component = "Reasoner" => KnownInv)
<1> DEFINE I == component = "Reasoner" => KnownInv
<1>1. Init => I
  BY KnownInit DEF Init
<1>2. I /\ [Next]_vars => I'
  <2> SUFFICES ASSUME I, [Next]_vars PROVE I'
    OBVIOUS
  <2>1. component' = component
    BY DEF Next, vars
  <2>2. component = "Reasoner" => R!Next \/ UNCHANGED reasonerVars
    BY DEF Next, vars
  <2> QED BY <2>1, <2>2, KnownNext, KnownStutters
<1> QED BY <1>1, <1>2, PTL DEF Spec

LEMMA GameIsTyped == MatchInv /\ RestInv => G!TypeOK
BY DEF MatchInv, GameInv, GameTypeInv, PlayersInv, RestInv, Games, G!TypeOK

\* Conversations, with remote Qubes too, reasoner, tools, games, mints and speech keep to
\* their types for every value of the constants: no position, number or record leaves the
\* range that the modules give it, whatever else the code counts on.
THEOREM ActivitiesTypes == Spec => []TypeOK
<1>1. ConversationRuns => (component = "Conversation" => C!TypeOK)
  BY DEF ConversationRuns, ConversationInv
<1>2. P2PRuns => (component = "P2P" => P!TypeOK)
  BY DEF P2PRuns, P2PInv
<1>3. KnownInv => R!TypeOK
  BY DEF KnownInv
<1>4. ToolsInv => T!TypeOK
  BY DEF ToolsInv
<1>5. MintInv => M!TypeOK
  BY DEF MintInv
<1>6. SP!SpeechInv => S!TypeOK
  BY SameMeaning, SameAssumption, SP!SpeechIsTyped, SP!SpeechInOrder
<1>7. /\ ConversationRuns /\ P2PRuns
      /\ component = "Reasoner" => KnownInv
      /\ (component = "Tools" => ToolsInv) /\ (component = "Game" => GameInv)
      /\ component = "Game" => MatchInv /\ RestInv /\ MovesInv
      /\ component = "Mint" => MintInv
      /\ component = "Speech" => SP!SpeechInv
      => TypeOK
  BY <1>1, <1>2, <1>3, <1>4, <1>5, <1>6, GameIsTyped DEF TypeOK
<1> QED BY <1>7, ConversationRunsInit, ConversationRunsNext, P2PRunsInit, P2PRunsNext, ReasonerRuns,
           ToolsRun, GameRuns, MintRuns, SpeechRuns, PTL DEF Spec

=============================================================================
