-------------------------------- MODULE Game --------------------------------
(***************************************************************************)
(* Chess games of the Qubes of one user.  Every Qube object has a manager  *)
(* with the one active game of the Qube, saved to active_game.json after   *)
(* each change; a game between two Qubes is in both managers, which the    *)
(* bridge keeps alike.  While the language model is asked for a move the   *)
(* other commands run, and some of them drop the object of a Qube from the *)
(* cache: the next command makes a new object, whose manager reads the     *)
(* file, and the request goes on with the old one.                         *)
(*                                                                         *)
(* A position is the number of moves that led to it; white is to move if   *)
(* it is even.                                                             *)
(***************************************************************************)
EXTENDS Naturals, FiniteSets

CONSTANTS
  Qube,        \* the Qubes of the user
  Human,       \* the user
  NoGame,      \* no active game
  Match,       \* games that are started
  MaxMoves,    \* bound: moves of a game
  MaxDrops,    \* bound: objects dropped from the cache while asked for a move
  MaxCrashes   \* bound: crashes of the process

Color == {"white", "black"}
Opposite(c) == IF c = "white" THEN "black" ELSE "white"
Turn(n) == IF n % 2 = 0 THEN "white" ELSE "black"

GameState == [match : Match, white : Qube \cup {Human}, black : Qube \cup {Human},
              moves : 0 .. MaxMoves, offer : Color \cup {"none"}]

GameAssumption ==
  /\ Human \notin Qube /\ NoGame \notin GameState
  /\ MaxMoves \in Nat /\ MaxDrops \in Nat /\ MaxCrashes \in Nat

VARIABLES
  game,      \* game[q]: active_game of the manager in the cache
  loaded,    \* Qubes with an object in the cache
  file,      \* file[q]: active_game.json
  asked,     \* Qubes that are asked for a move
  before,    \* before[q]: the game when q was asked
  stale,     \* stale[q]: whether the request of q has an object that was dropped
  old,       \* old[q]: active_game of that object
  counted,   \* counted[q][m]: how often match m is in the statistics of q
  matches,   \* matches that were started
  drops, crashes,
  \* History:
  onesided,  \* matches that one manager ended, or took up again, without the opponent's
  overwritten, \* matches with Qubes that got the moves of another match
  torn       \* Qubes with a crash between their statistics and the removal of the file,
             \* or with a move by an object that was dropped

books == <<game, loaded, file>>
request == <<asked, before, stale, old>>
vars == <<game, loaded, file, asked, before, stale, old, counted, matches, drops,
          crashes, onesided, overwritten, torn>>

TypeOK ==
  LET G == GameState \cup {NoGame} IN
  /\ game \in [Qube -> G] /\ loaded \subseteq Qube /\ file \in [Qube -> G]
  /\ asked \subseteq Qube /\ before \in [Qube -> G] /\ stale \subseteq asked /\ old \in [Qube -> G]
  /\ counted \in [Qube -> [Match -> Nat]] /\ matches \subseteq Match
  /\ drops \in 0 .. MaxDrops /\ crashes \in 0 .. MaxCrashes
  /\ onesided \subseteq Match /\ overwritten \subseteq Match /\ torn \subseteq Qube

\* load_qube, and the manager of the object: that in the cache, or a new one.
Active(q) == IF q \in loaded THEN game[q] ELSE file[q]

Opponent(g, q) == IF g.white = q THEN g.black ELSE g.white

\* The managers of the Qubes of new get other games and save them; a NoGame
\* removes the file.
Put(new) ==
  /\ game' = [q \in Qube |-> IF q \in DOMAIN new THEN new[q] ELSE game[q]]
  /\ file' = [q \in Qube |-> IF q \in DOMAIN new THEN new[q] ELSE file[q]]

\* Mutant of EndGames: the files stay.
EndGamesInMemory(Q) ==
  /\ game' = [q \in Qube |-> IF q \in Q THEN NoGame ELSE game[q]]
  /\ file' = [q \in Qube |-> IF q \in Q THEN Active(q) ELSE file[q]]
  /\ counted' = [q \in Qube |-> IF q \in Q THEN [counted[q] EXCEPT ![Active(q).match] = @ + 1] ELSE counted[q]]

\* end_game of the managers of Q: the statistics are saved, the games and the
\* files go.
EndGames(Q) ==
  /\ Put([q \in Q |-> NoGame])
  /\ counted' = [q \in Qube |-> IF q \in Q THEN [counted[q] EXCEPT ![Active(q).match] = @ + 1] ELSE counted[q]]

Init ==
  /\ game = [q \in Qube |-> NoGame] /\ loaded = Qube /\ file = game
  /\ asked = {} /\ before = game /\ stale = {} /\ old = game
  /\ counted = [q \in Qube |-> [m \in Match |-> 0]] /\ matches = {}
  /\ drops = 0 /\ crashes = 0 /\ onesided = {} /\ overwritten = {} /\ torn = {}

-----------------------------------------------------------------------------
(* Starting and moving *)

\* start_game, of q with colour c against the user or another Qube.  If that has
\* a game already, the game of q is taken back.
StartGame(q, o, c, m) ==
  LET g == [match |-> m, white |-> IF c = "white" THEN q ELSE o,
            black |-> IF c = "white" THEN o ELSE q, moves |-> 0, offer |-> "none"] IN
  /\ o # q /\ m \notin matches /\ Active(q) = NoGame
  /\ loaded' = loaded \cup ({q, o} \cap Qube)
  /\ \/ /\ o \in Qube => Active(o) = NoGame
        /\ matches' = matches \cup {m} /\ Put([p \in {q, o} \cap Qube |-> g])
     \/ /\ o \in Qube /\ Active(o) # NoGame
        /\ game' = [game EXCEPT ![q] = NoGame, ![o] = Active(o)]
        /\ file' = [file EXCEPT ![q] = NoGame] /\ UNCHANGED matches
  /\ UNCHANGED <<request, counted, drops, crashes, onesided, overwritten, torn>>

\* record_move: the move is made and an offer of a draw lapses.
Moved(g) == [g EXCEPT !.moves = @ + 1, !.offer = "none"]

MayMove(g, p) ==
  /\ g # NoGame /\ g.moves < MaxMoves
  /\ p = IF Turn(g.moves) = "white" THEN g.white ELSE g.black

\* make_move: the user moves.
MakeMove(q) ==
  /\ MayMove(Active(q), Human)
  /\ loaded' = loaded \cup {q}
  /\ Put([p \in {q} |-> Moved(Active(q))])
  /\ UNCHANGED <<request, counted, matches, drops, crashes, onesided, overwritten, torn>>

\* request_qube_move, up to the call of the model.
RequestMove(q) ==
  /\ q \notin asked /\ Active(q) # NoGame
  /\ loaded' = loaded \cup {q} /\ game' = [game EXCEPT ![q] = Active(q)]
  /\ asked' = asked \cup {q} /\ before' = [before EXCEPT ![q] = Active(q)]
  /\ UNCHANGED <<file, stale, old, counted, matches, drops, crashes, onesided, overwritten, torn>>

\* The match in the file of q.
Filed(q) == IF file[q] = NoGame THEN {} ELSE {file[q].match}

\* The chess_move tool, called by the model on the object of the request.
ChessMove(q) ==
  LET g == IF q \in stale THEN old[q] ELSE game[q] IN
  /\ q \in asked /\ MayMove(g, q)
  /\ file' = [file EXCEPT ![q] = Moved(g)]
  /\ IF q \in stale
     THEN /\ old' = [old EXCEPT ![q] = Moved(g)] /\ UNCHANGED game
          /\ torn' = torn \cup {q} /\ onesided' = onesided \cup {g.match} \cup Filed(q)
     ELSE game' = [game EXCEPT ![q] = Moved(g)] /\ UNCHANGED <<old, torn, onesided>>
  /\ UNCHANGED <<loaded, asked, before, stale, counted, matches, drops, crashes, overwritten>>

\* The board; boards of two matches are taken to differ.
Position(g) == <<g.match, g.moves>>

\* The game of a move that is copied to the opponent: its own offer stays.
Synced(o, g) == [Active(o) EXCEPT !.moves = g.moves]

\* Mutant of MoveAnswered: the opponent's manager is left as it is.
MoveUnsynced(q) ==
  /\ q \in asked
  /\ asked' = asked \ {q} /\ stale' = stale \ {q}
  /\ before' = [before EXCEPT ![q] = NoGame] /\ old' = [old EXCEPT ![q] = NoGame]
  /\ UNCHANGED <<books, counted, matches, drops, crashes, onesided, overwritten, torn>>

\* The rest of request_qube_move: if the position has changed, the moves of the
\* game that is active by now are copied to an opponent that is a Qube.
MoveAnswered(q) ==
  LET g == IF q \in stale THEN old[q] ELSE game[q]
      o == IF g = NoGame THEN Human ELSE Opponent(g, q) IN
  /\ q \in asked
  /\ asked' = asked \ {q} /\ stale' = stale \ {q}
  /\ before' = [before EXCEPT ![q] = NoGame] /\ old' = [old EXCEPT ![q] = NoGame]
  /\ IF g # NoGame /\ o \in Qube /\ Position(g) # Position(before[q]) /\ Active(o) # NoGame
     THEN /\ loaded' = loaded \cup {o} /\ Put([p \in {o} |-> Synced(o, g)])
          /\ overwritten' = overwritten \cup ({Active(o).match} \ {g.match})
     ELSE UNCHANGED <<books, overwritten>>
  /\ UNCHANGED <<counted, matches, drops, crashes, onesided, torn>>

-----------------------------------------------------------------------------
(* Ending *)

\* The opponent of q, if it is a Qube with an active game: any game.
Other(q) == {o \in Qube : o = Opponent(Active(q), q) /\ Active(o) # NoGame}

\* Its match, if that is another one.
OtherMatch(q) == {Active(o).match : o \in Other(q)} \ {Active(q).match}

\* end_game of the bridge.
EndGame(q) ==
  /\ Active(q) # NoGame
  /\ loaded' = loaded \cup {q} \cup Other(q)
  /\ EndGames({q} \cup Other(q)) /\ onesided' = onesided \cup OtherMatch(q)
  /\ UNCHANGED <<request, matches, drops, crashes, overwritten, torn>>

\* abandon_game: without statistics.
AbandonGame(q) ==
  /\ Active(q) # NoGame
  /\ loaded' = loaded \cup {q} \cup Other(q)
  /\ Put([p \in {q} \cup Other(q) |-> NoGame]) /\ onesided' = onesided \cup OtherMatch(q)
  /\ UNCHANGED <<request, counted, matches, drops, crashes, overwritten, torn>>

\* The game of q ends in the manager of q only.
EndAlone(q) ==
  /\ loaded' = loaded \cup {q}
  /\ EndGames({q})
  /\ onesided' = IF Opponent(Active(q), q) \in Qube THEN onesided \cup {Active(q).match} ELSE onesided

\* resign_game, for either player.
ResignGame(q) ==
  /\ Active(q) # NoGame /\ EndAlone(q)
  /\ UNCHANGED <<request, matches, drops, crashes, overwritten, torn>>

\* offer_draw, if there is no offer.
OfferDraw(q, c) ==
  /\ Active(q) # NoGame /\ Active(q).offer = "none"
  /\ loaded' = loaded \cup {q}
  /\ Put([p \in {q} |-> [Active(q) EXCEPT !.offer = c]])
  /\ UNCHANGED <<request, counted, matches, drops, crashes, onesided, overwritten, torn>>

\* respond_to_draw, by the other player.
AcceptDraw(q, c) ==
  /\ Active(q) # NoGame /\ Active(q).offer = Opposite(c)
  /\ EndAlone(q)
  /\ UNCHANGED <<request, matches, drops, crashes, overwritten, torn>>

DeclineDraw(q, c) ==
  /\ Active(q) # NoGame /\ Active(q).offer = Opposite(c)
  /\ loaded' = loaded \cup {q}
  /\ Put([p \in {q} |-> [Active(q) EXCEPT !.offer = "none"]])
  /\ UNCHANGED <<request, counted, matches, drops, crashes, onesided, overwritten, torn>>

-----------------------------------------------------------------------------
(* Objects and processes *)

\* A command drops the object of q from the cache.  That makes a difference if the
\* object is asked for a move, or has another game than the file.
Invalidate(q) ==
  /\ q \in loaded /\ loaded' = loaded \ {q}
  /\ q \in asked \ stale \/ game[q] # file[q]
  /\ IF q \in asked \ stale
     THEN /\ drops < MaxDrops /\ drops' = drops + 1
          /\ stale' = stale \cup {q} /\ old' = [old EXCEPT ![q] = game[q]]
     ELSE UNCHANGED <<drops, stale, old>>
  /\ game' = [game EXCEPT ![q] = NoGame]
  /\ UNCHANGED <<file, asked, before, counted, matches, crashes, onesided, overwritten, torn>>

\* The process ends: requests and objects are gone.
Restarted ==
  /\ crashes < MaxCrashes /\ crashes' = crashes + 1
  /\ loaded' = Qube /\ game' = file'
  /\ asked' = {} /\ stale' = {} /\ before' = [q \in Qube |-> NoGame] /\ old' = before'

Crash ==
  /\ file' = file /\ Restarted
  /\ UNCHANGED <<counted, matches, drops, onesided, overwritten, torn>>

\* It ends in end_game of q: the statistics saved and the file still there, or
\* that gone and the game of the opponent still active.
CrashInEnd(q) ==
  /\ Active(q) # NoGame
  /\ counted' = [counted EXCEPT ![q][Active(q).match] = @ + 1]
  /\ \/ torn' = torn \cup {q} /\ UNCHANGED <<file, onesided>>
     \/ /\ file' = [file EXCEPT ![q] = NoGame]
        /\ onesided' = onesided \cup {Active(q).match} /\ UNCHANGED torn
  /\ Restarted
  /\ UNCHANGED <<matches, drops, overwritten>>

Next ==
  \/ Crash
  \/ \E q \in Qube :
       \/ \E o \in Qube \cup {Human}, c \in Color, m \in Match : StartGame(q, o, c, m)
       \/ MakeMove(q) \/ RequestMove(q) \/ ChessMove(q) \/ MoveAnswered(q)
       \/ EndGame(q) \/ AbandonGame(q) \/ ResignGame(q)
       \/ \E c \in Color : OfferDraw(q, c) \/ AcceptDraw(q, c) \/ DeclineDraw(q, c)
       \/ Invalidate(q) \/ CrashInEnd(q)

Spec == Init /\ [][Next]_vars

-----------------------------------------------------------------------------
(* Properties *)

\* Both managers of a match between two Qubes have all its moves, when no move is
\* being answered, unless the process crashed or an object was dropped meanwhile, or
\* a Qube got the moves of a match that its opponent there still plays.
CopiesAgree ==
  \A p, q \in Qube :
    LET g == Active(p)
        h == Active(q) IN
    g # NoGame /\ h # NoGame /\ asked = {} /\ crashes = 0 /\ drops = 0 =>
      (g.match = h.match => g.moves = h.moves \/ g.match \in overwritten)

\* A command that ends or abandons a game ends that game only: the opponent's
\* manager has the same match, unless one side has left the match alone.
EndsOwnMatchStep ==
  \A q \in Qube : (EndGame(q) \/ AbandonGame(q)) =>
    \A o \in Other(q) : Active(o).match = Active(q).match \/ {Active(o).match, Active(q).match} \cap onesided # {}

\* A match is counted once in the statistics of a Qube, in spite of restarts and of
\* objects that are dropped while they are asked for a move; twice only after a crash
\* in the end of a game or a move by an object that was dropped.
CountedOnce ==
  \A q \in Qube \ torn : \A m \in Match : counted[q][m] <= 1

=============================================================================
