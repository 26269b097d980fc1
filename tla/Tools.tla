------------------------------- MODULE Tools -------------------------------
(***************************************************************************)
(* The tools of a Qube (execute_tool) and the session their ACTION blocks  *)
(* are put in.  The block of a tool call is made before its handler runs   *)
(* and is saved again when the handler is done; meanwhile its session may  *)
(* have been anchored, discarded, or loaded again from its files.          *)
(*                                                                         *)
(* Blocks are named for their tool calls, their timestamps being distinct. *)
(* The anchoring itself is the subject of Session: here it is the scan     *)
(* that is awaited first, the conversion that is not interrupted by        *)
(* handlers, and the summary that is awaited last.                         *)
(***************************************************************************)
EXTENDS Naturals

CONSTANTS
  Action,       \* calls of tools
  MaxRestarts   \* bound: ends of the process

ToolsAssumption == MaxRestarts \in Nat

VARIABLES
  session,     \* there is a Session object (current_session)
  blocks,      \* session_blocks: the status that each ACTION block in it has
  queue,       \* _pending_during_anchor
  running,     \* calls whose handler is in progress
  held,        \* those of them whose block is the one in the session, not a copy
  blockless,   \* those of them that began without a session, and have no block
  file,        \* the block files in blocks/session: their status
  permanent,   \* copies in the permanent chain
  phase,       \* of anchor_to_chain
  snapshot,    \* blocks_to_anchor
  restarts,
  discarded,   \* history: discarded blocks
  late         \* history: blocks saved after they had been taken out of the session for good

vars == <<session, blocks, queue, running, held, blockless, file, permanent, phase, snapshot,
          restarts, discarded, late>>

\* The status of a block, "none" if there is no block.
Status == {"none", "in_progress", "done"}

TypeOK ==
  /\ session \in BOOLEAN /\ blocks \in [Action -> Status] /\ file \in [Action -> Status]
  /\ held \cup blockless \subseteq running /\ queue \subseteq Action /\ running \subseteq Action
  /\ permanent \in [Action -> 0 .. 2]
  /\ phase \in {"idle", "scan", "summary", "discard"} /\ snapshot \subseteq Action
  /\ restarts \in 0 .. MaxRestarts /\ {discarded, late} \subseteq SUBSET Action

Nothing == [a \in Action |-> "none"]

Init ==
  /\ session = FALSE /\ blocks = Nothing /\ file = Nothing /\ queue = {}
  /\ running = {} /\ held = {} /\ blockless = {}
  /\ permanent = [a \in Action |-> 0] /\ phase = "idle" /\ snapshot = {}
  /\ restarts = 0 /\ discarded = {} /\ late = {}

-----------------------------------------------------------------------------
(* Tools *)

\* create_block: the block is saved, or queued without a file while blocks are
\* being anchored.
CreateBlock(a, status) ==
  IF phase = "scan"
  THEN queue' = queue \cup {a} /\ UNCHANGED <<blocks, file>>
  ELSE /\ blocks' = [blocks EXCEPT ![a] = status]
       /\ file' = [file EXCEPT ![a] = status]
       /\ UNCHANGED queue

New(a) ==
  /\ a \notin queue \cup running \cup discarded /\ permanent[a] = 0
  /\ blocks[a] = "none" /\ file[a] = "none"

\* Without a session no block is made.
StartTool(a) ==
  /\ New(a)
  /\ running' = running \cup {a}
  /\ IF session
     THEN CreateBlock(a, "in_progress") /\ held' = held \cup {a} /\ UNCHANGED blockless
     ELSE blockless' = blockless \cup {a} /\ UNCHANGED <<blocks, queue, file, held>>
  /\ UNCHANGED <<session, permanent, phase, snapshot, restarts, discarded, late>>

\* The handler returns or raises.  The block is saved again, wherever it is by now;
\* the session holds the same block unless it was loaded again.  If there is no
\* session any more, a block is put directly in the permanent chain.
EndTool(a) ==
  LET out == a \notin blockless /\ a \notin queue
             /\ (blocks[a] = "none" \/ phase = "discard") /\ ~(phase = "summary" /\ a \in snapshot)
  IN
  /\ a \in running
  /\ running' = running \ {a} /\ held' = held \ {a} /\ blockless' = blockless \ {a}
  /\ IF ~session
     THEN /\ permanent[a] < 2 /\ permanent' = [permanent EXCEPT ![a] = @ + 1]
          /\ UNCHANGED <<blocks, queue, file>>
     ELSE /\ UNCHANGED permanent
          /\ IF a \in blockless THEN CreateBlock(a, "done")
             ELSE /\ blocks' = IF a \in held /\ blocks[a] # "none" THEN [blocks EXCEPT ![a] = "done"] ELSE blocks
                  /\ file' = [file EXCEPT ![a] = "done"]
                  /\ UNCHANGED queue
  /\ late' = IF out THEN late \cup {a} ELSE late
  /\ UNCHANGED <<session, phase, snapshot, restarts, discarded>>

-----------------------------------------------------------------------------
(* The session *)

\* The next message begins a session.
StartSession ==
  /\ ~session /\ session' = TRUE
  /\ UNCHANGED <<blocks, queue, running, held, blockless, file, permanent, phase, snapshot,
                 restarts, discarded, late>>

BeginAnchor ==
  /\ phase = "idle" /\ blocks # Nothing
  /\ phase' = "scan" /\ snapshot' = {a \in Action : blocks[a] # "none"}
  /\ UNCHANGED <<session, blocks, queue, running, held, blockless, file, permanent,
                 restarts, discarded, late>>

Without(f, S) == [a \in Action |-> IF a \in S THEN "none" ELSE f[a]]

\* What was queued enters the session, with the status that its tool has reached.
Flushed == [a \in Action |-> IF a \in queue THEN IF a \in running THEN "in_progress" ELSE "done" ELSE "none"]

\* The blocks are copied to the permanent chain, and the session and their files
\* are cleared.
Convert ==
  /\ phase = "scan" /\ phase' = "summary"
  /\ \A a \in snapshot : permanent[a] < 2
  /\ permanent' = [a \in Action |-> IF a \in snapshot THEN permanent[a] + 1 ELSE permanent[a]]
  /\ blocks' = Flushed /\ queue' = {}
  /\ file' = [a \in Action |-> IF a \in queue THEN Flushed[a] ELSE Without(file, snapshot)[a]]
  /\ UNCHANGED <<session, running, held, blockless, snapshot, restarts, discarded, late>>

\* Mutant of EndAnchor: without the final cleanup.
EndAnchorAtOnce ==
  /\ phase = "summary" /\ phase' = "idle" /\ snapshot' = {}
  /\ UNCHANGED <<session, blocks, queue, running, held, blockless, file, permanent,
                 restarts, discarded, late>>

\* The files of anchored blocks that have been written meanwhile are deleted again.
EndAnchor ==
  /\ phase = "summary" /\ phase' = "idle" /\ snapshot' = {}
  /\ file' = Without(file, snapshot)
  /\ UNCHANGED <<session, blocks, queue, running, held, blockless, permanent,
                 restarts, discarded, late>>

\* Blocks of an anchor that is cut short, saved again without being cleaned up.
Left == IF phase = "summary" THEN {a \in snapshot : file[a] # "none"} ELSE {}

\* The summary fails: the final cleanup is not reached.
FailAnchor ==
  /\ phase = "summary" /\ phase' = "idle" /\ snapshot' = {}
  /\ late' = late \cup Left
  /\ UNCHANGED <<session, blocks, queue, running, held, blockless, file, permanent, restarts, discarded>>

\* discard-session in the sidecar, of a session that is not being anchored: the
\* files are deleted, and the chain state is saved in a thread.
Discard ==
  /\ phase = "idle" /\ session
  /\ phase' = "discard" /\ file' = Nothing
  /\ discarded' = discarded \cup {a \in Action : blocks[a] # "none"}
  /\ UNCHANGED <<session, blocks, queue, running, held, blockless, permanent, snapshot, restarts, late>>

\* Then the Session is dropped.
Discarded ==
  /\ phase = "discard" /\ phase' = "idle"
  /\ session' = FALSE /\ blocks' = Nothing /\ queue' = {} /\ held' = {}
  /\ UNCHANGED <<running, blockless, file, permanent, snapshot, restarts, discarded, late>>

\* recover_session, if there are files.
Recovered == blocks' = file /\ queue' = {} /\ held' = {} /\ session' = (file # Nothing)

\* The Qube was dropped from the cache and is loaded again.
Reload ==
  /\ phase = "idle" /\ Recovered
  /\ UNCHANGED <<running, blockless, file, permanent, phase, snapshot, restarts, discarded, late>>

\* The process ends, and another one recovers the session.
Restart ==
  /\ restarts < MaxRestarts /\ restarts' = restarts + 1
  /\ Recovered /\ running' = {} /\ blockless' = {}
  /\ phase' = "idle" /\ snapshot' = {}
  /\ late' = late \cup Left
  /\ UNCHANGED <<file, permanent, discarded>>

Next ==
  \/ \E a \in Action : StartTool(a) \/ EndTool(a)
  \/ StartSession \/ BeginAnchor \/ Convert \/ EndAnchor \/ FailAnchor
  \/ Discard \/ Discarded \/ Reload \/ Restart

Spec == Init /\ [][Next]_vars

-----------------------------------------------------------------------------
(* Properties *)

\* The block of a tool call is anchored at most once, and never after it was
\* discarded, however its handler, the anchoring and restarts interleave, except
\* for a block whose handler ends after the anchoring or the discard is over, or
\* whose anchoring is cut short.
AnchoredOnce ==
  \A a \in Action \ late : permanent[a] + (IF a \in discarded THEN 1 ELSE 0) <= 1

=============================================================================
