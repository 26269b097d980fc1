----------------------------- MODULE ChainState -----------------------------
(***************************************************************************)
(* chain_state.json of one Qube: a document on disk, a copy of it in the   *)
(* memory of every process that has the Qube loaded, and the staged        *)
(* session by which the changes of a conversation can be taken back.       *)
(*                                                                         *)
(* Every operation changes the copy in memory and saves the whole copy:    *)
(* under a lock of its own a save reads the file and takes from it only    *)
(* the part that belongs to the other kind of writer.  The document is     *)
(* abstracted to one representative of each part that is treated alike:    *)
(*   gui     a setting of GUI_MANAGED_FIELDS                               *)
(*   work    the sections that a discard rolls back (ROLLBACK_SECTIONS)    *)
(*   sent    the message counts that a discard rolls back (ROLLBACK_STATS) *)
(*   snap    _snapshot, the saved state of before the session              *)
(***************************************************************************)
EXTENDS Naturals, FiniteSets

CONSTANTS
  Proc,         \* processes that load the Qube
  Change,       \* changes of relationships, skills, mood, profile
  Message,      \* messages of the conversation, each with a block of its own
  MaxSent,      \* bound: messages counted
  NoSnapshot,   \* the document has no _snapshot
  MaxOpens,     \* bound: times a process loads the Qube
  MaxFailures   \* bound: saves that fail after all their retries

ChainStateAssumption ==
  /\ IsFiniteSet(Message) /\ MaxSent \in Nat
  /\ MaxOpens \in Nat /\ MaxFailures \in Nat
  /\ NoSnapshot \notin [work : SUBSET Change, sent : 0 .. MaxSent]

VARIABLES
  disk,      \* the document in chain_state.json
  up,        \* processes that have it loaded
  mem,       \* mem[p]: state, the copy of process p
  flag,      \* flag[p]: _staged_session_active
  held,      \* held[p]: _session_snapshot
  pc,        \* pc[p]: the operation p is in the middle of
  batch,     \* batch[p]: the messages of _pending_stats_for_commit
  live,      \* processes with a Session object (current_session)
  blocks,    \* blocks[p]: messages among the session_blocks of that object
  files,     \* messages whose blocks are in blocks/session
  opens, failures,
  \* History:
  clean,     \* no save or commit was made from a copy or a flag unlike the file
  settled,   \* the work that a discard must leave: of before the session, or anchored
  anchored,  \* messages whose blocks are permanent
  loose,     \* messages sent while the sender had no staged session
  missed,    \* messages left to a commit that did not come, or came too early
  committed, \* messages that a commit has counted
  recovered  \* messages of sessions that a process has loaded from the files

state == <<disk, mem, flag, held>>
session == <<pc, batch, live, blocks, files>>
history == <<settled, anchored, loose, missed, committed, recovered>>
vars == <<disk, up, mem, flag, held, pc, batch, live, blocks, files, opens,
          failures, clean, settled, anchored, loose, missed, committed, recovered>>

Rollback == [work : SUBSET Change, sent : 0 .. MaxSent]
Snapshot == Rollback \cup {NoSnapshot}
Document == [gui : BOOLEAN, work : SUBSET Change, sent : 0 .. MaxSent,
             snap : Snapshot]

Pc == {"idle",     \* between two operations
       "begin",    \* in start_session, before begin_staged_session
       "commit",   \* in anchor_to_chain, the blocks permanent, the changes not committed
       "drop",     \* in the discard of the sidecar, the files deleted, the Session still there
       "end"}      \* before SESSION_ENDED is emitted

TypeOK ==
  /\ disk \in Document /\ up \subseteq Proc /\ mem \in [Proc -> Document]
  /\ flag \in [Proc -> BOOLEAN] /\ held \in [Proc -> Snapshot]
  /\ pc \in [Proc -> Pc] /\ batch \in [Proc -> SUBSET Message]
  /\ live \subseteq Proc /\ blocks \in [Proc -> SUBSET Message] /\ files \subseteq Message
  /\ opens \in 0 .. MaxOpens /\ failures \in 0 .. MaxFailures
  /\ clean \in BOOLEAN /\ settled \subseteq Change
  /\ anchored \subseteq Message /\ loose \subseteq Message /\ missed \subseteq Message
  /\ committed \subseteq Message /\ recovered \subseteq Message

-----------------------------------------------------------------------------
(* Saving and loading *)

\* Mutant of Merged: the GUI writes it all.
MergedForBackend(file, copy, fromGui) == [copy EXCEPT !.gui = IF fromGui THEN @ ELSE file.gui]

\* What a save writes.  The backend leaves the settings to the GUI, the GUI all
\* sections to the backend; _snapshot comes from the writer's memory in any case.
Merged(file, copy, fromGui) ==
  IF fromGui
  THEN [file EXCEPT !.gui = copy.gui, !.snap = copy.snap]
  ELSE [copy EXCEPT !.gui = file.gui]

\* p, whose copy has become copy, saves it.  Or the lock cannot be had, or the
\* file not be written: the copy in memory stays changed.
Save(p, copy, fromGui) ==
  /\ disk' = Merged(disk, copy, fromGui)
  /\ mem' = [mem EXCEPT ![p] = disk']
  /\ clean' = (clean /\ mem[p] = disk /\ flag[p] = (disk.snap # NoSnapshot) /\ held[p] = disk.snap)
  /\ UNCHANGED failures

SaveFails(p, copy) ==
  /\ failures < MaxFailures
  /\ failures' = failures + 1
  /\ mem' = [mem EXCEPT ![p] = copy]
  /\ UNCHANGED <<disk, clean>>

\* The flag and the snapshot of the object of p.
Stage(p, snap) ==
  /\ flag' = [flag EXCEPT ![p] = snap # NoSnapshot]
  /\ held' = [held EXCEPT ![p] = snap]

Unsent == Message \ (files \cup anchored \cup loose \cup missed \cup UNION {blocks[q] : q \in Proc})

Idle(p) == p \in up /\ pc[p] = "idle"
\* anchor_to_chain awaits its summary, or the sidecar a save: other tasks run.
Free(p) == p \in up /\ pc[p] \in {"idle", "commit", "drop"}

-----------------------------------------------------------------------------
(* Processes *)

Init ==
  /\ disk = [gui |-> FALSE, work |-> {}, sent |-> 0, snap |-> NoSnapshot]
  /\ up = {} /\ mem = [p \in Proc |-> disk]
  /\ flag = [p \in Proc |-> FALSE] /\ held = [p \in Proc |-> NoSnapshot]
  /\ pc = [p \in Proc |-> "idle"] /\ batch = [p \in Proc |-> {}]
  /\ live = {} /\ blocks = [p \in Proc |-> {}] /\ files = {} /\ opens = 0 /\ failures = 0
  /\ clean = TRUE /\ settled = {}
  /\ anchored = {} /\ loose = {} /\ missed = {} /\ committed = {} /\ recovered = {}

\* A process loads the Qube, with a staged session that is on disk.  If there
\* are session blocks, a Session is made for them and announced.
Open(p) ==
  /\ p \notin up /\ opens < MaxOpens
  /\ opens' = opens + 1 /\ up' = up \cup {p}
  /\ mem' = [mem EXCEPT ![p] = disk]
  /\ Stage(p, disk.snap)
  /\ live' = IF files # {} THEN live \cup {p} ELSE live
  /\ blocks' = [blocks EXCEPT ![p] = files]
  /\ recovered' = recovered \cup files
  /\ pc' = [pc EXCEPT ![p] = IF files # {} THEN "begin" ELSE "idle"]
  /\ UNCHANGED <<disk, batch, files, failures, clean, settled, anchored, loose, missed, committed>>

\* The process ends, or dies: what was only in memory is gone.
Close(p) ==
  /\ p \in up
  /\ up' = up \ {p} /\ live' = live \ {p}
  /\ mem' = [mem EXCEPT ![p] = disk] /\ Stage(p, NoSnapshot)
  /\ pc' = [pc EXCEPT ![p] = "idle"] /\ batch' = [batch EXCEPT ![p] = {}]
  /\ blocks' = [blocks EXCEPT ![p] = {}]
  /\ missed' = missed \cup batch[p]
  /\ UNCHANGED <<disk, files, opens, failures, clean, settled, anchored, loose, committed, recovered>>

\* reload, or a getter that finds the file newer than its copy: the copy is
\* replaced, the flag and the snapshot of the object are not.
Reload(p) ==
  /\ Free(p) /\ mem[p] # disk
  /\ mem' = [mem EXCEPT ![p] = disk]
  /\ UNCHANGED <<disk, up, flag, held, session, opens, failures, clean, history>>

-----------------------------------------------------------------------------
(* Changes *)

\* A change of the copy of p, saved or not, that leaves the session as it is.
Update(p, copy, fromGui) ==
  /\ Free(p)
  /\ Save(p, copy, fromGui) \/ SaveFails(p, copy)
  /\ UNCHANGED <<up, flag, held, session, opens>>

\* A setting is changed by the GUI.
SetAutoAnchor(p) ==
  /\ Update(p, [mem[p] EXCEPT !.gui = ~@], TRUE)
  /\ UNCHANGED history

\* A relationship, a skill, the mood or the profile changes.
UpdateRelationship(p, c) ==
  /\ p \in live /\ c \notin mem[p].work
  /\ Update(p, [mem[p] EXCEPT !.work = @ \cup {c}], FALSE)
  /\ UNCHANGED history

-----------------------------------------------------------------------------
(* The session *)

\* start_session, by a Session that is made for the first message: the session
\* section is written first.
StartSession(p) ==
  /\ Idle(p) /\ p \notin live
  /\ live' = live \cup {p} /\ pc' = [pc EXCEPT ![p] = "begin"]
  /\ Save(p, mem[p], FALSE)
  /\ UNCHANGED <<up, flag, held, batch, blocks, files, opens, history>>

\* Mutant of BeginStagedSession: the snapshot is taken whether there is one or not.
BeginAnyway(p) ==
  LET snap == [work |-> mem[p].work, sent |-> mem[p].sent] IN
  /\ p \in up /\ pc[p] = "begin"
  /\ pc' = [pc EXCEPT ![p] = "idle"]
  /\ Stage(p, snap)
  /\ Save(p, [mem[p] EXCEPT !.snap = snap], FALSE)
  /\ settled' = IF disk.snap = NoSnapshot THEN disk.work ELSE settled
  /\ UNCHANGED <<up, batch, live, blocks, files, opens, anchored, loose, missed, committed, recovered>>

\* Unless a staged session is active, the state of before the session is put
\* aside, in memory and in the document.
BeginStagedSession(p) ==
  LET snap == [work |-> mem[p].work, sent |-> mem[p].sent]
      copy == [mem[p] EXCEPT !.snap = snap] IN
  /\ p \in up /\ pc[p] = "begin"
  /\ pc' = [pc EXCEPT ![p] = "idle"]
  /\ \/ flag[p] /\ UNCHANGED <<state, failures, clean>>
     \/ ~flag[p] /\ Stage(p, snap) /\ (Save(p, copy, FALSE) \/ SaveFails(p, copy))
  /\ settled' = IF disk.snap = NoSnapshot THEN disk.work ELSE settled
  /\ UNCHANGED <<up, batch, live, blocks, files, opens, anchored, loose, missed, committed, recovered>>

\* Mutant of SendMessage: the message is counted in any case.
SendMessageCounted(p, m) ==
  /\ Free(p) /\ p \in live /\ m \in Unsent
  /\ mem[p].sent < MaxSent
  /\ files' = files \cup {m} /\ blocks' = [blocks EXCEPT ![p] = @ \cup {m}]
  /\ Save(p, [mem[p] EXCEPT !.sent = @ + 1], FALSE)
  /\ loose' = IF flag[p] THEN loose ELSE loose \cup {m}
  /\ missed' = IF flag[p] /\ pc[p] = "commit" THEN missed \cup {m} ELSE missed
  /\ UNCHANGED <<up, flag, held, pc, batch, live, opens, settled, anchored, committed, recovered>>

\* create_block for a MESSAGE.  While a session is staged its messages are
\* counted by the commit, otherwise at once.
SendMessage(p, m) ==
  /\ Free(p) /\ p \in live /\ m \in Unsent
  /\ mem[p].sent < MaxSent
  /\ files' = files \cup {m} /\ blocks' = [blocks EXCEPT ![p] = @ \cup {m}]
  /\ Save(p, IF flag[p] THEN mem[p] ELSE [mem[p] EXCEPT !.sent = @ + 1], FALSE)
  /\ loose' = IF flag[p] THEN loose ELSE loose \cup {m}
  /\ missed' = IF flag[p] /\ pc[p] = "commit" THEN missed \cup {m} ELSE missed
  /\ UNCHANGED <<up, flag, held, pc, batch, live, opens, settled, anchored, committed, recovered>>

\* The blocks of the session become permanent and their files go; the messages
\* among them are counted, for the commit that comes after the summary.  An
\* object whose blocks another one has anchored fails: their numbers are taken.
AnchorBlocks(p) ==
  /\ Idle(p) /\ blocks[p] # {} /\ blocks[p] \cap anchored = {}
  /\ pc' = [pc EXCEPT ![p] = "commit"]
  /\ batch' = [batch EXCEPT ![p] = blocks[p]]
  /\ blocks' = [blocks EXCEPT ![p] = {}]
  /\ files' = files \ blocks[p] /\ anchored' = anchored \cup blocks[p]
  /\ settled' = disk.work
  /\ UNCHANGED <<state, up, live, opens, failures, clean, loose, missed, committed, recovered>>

\* The changes of the session become permanent: its messages are added to the
\* counts and the snapshot goes.  Without an active session nothing happens.
CommitStagedSession(p) ==
  LET copy == [mem[p] EXCEPT !.sent = @ + Cardinality(batch[p]), !.snap = NoSnapshot] IN
  /\ p \in up /\ pc[p] = "commit"
  /\ batch' = [batch EXCEPT ![p] = {}]
  /\ \/ /\ ~flag[p] /\ pc' = [pc EXCEPT ![p] = "end"]
        /\ clean' = (clean /\ disk.snap = NoSnapshot)
        /\ UNCHANGED <<state, failures, missed, committed>>
     \/ /\ flag[p] /\ copy.sent <= MaxSent
        /\ Stage(p, NoSnapshot)
        /\ \/ /\ Save(p, copy, FALSE) /\ pc' = [pc EXCEPT ![p] = "end"]
              /\ committed' = committed \cup batch[p] /\ UNCHANGED missed
           \/ /\ SaveFails(p, copy) /\ pc' = [pc EXCEPT ![p] = "idle"]
              /\ missed' = missed \cup batch[p] /\ UNCHANGED committed
  /\ settled' = IF flag[p] THEN disk'.work ELSE settled
  /\ UNCHANGED <<up, live, blocks, files, opens, anchored, loose, recovered>>

\* Mutant of DiscardSession: the messages of the session are subtracted from the count.
DiscardSubtracts(p) ==
  LET copy == [mem[p] EXCEPT !.work = held[p].work, !.sent = @ - Cardinality(blocks[p]),
                             !.snap = NoSnapshot] IN
  /\ Idle(p)
  /\ files' = {} /\ live' = live \ {p} /\ blocks' = [blocks EXCEPT ![p] = {}]
  /\ pc' = [pc EXCEPT ![p] = "end"]
  /\ \/ ~flag[p] /\ UNCHANGED <<state, failures, clean>>
     \/ flag[p] /\ Stage(p, NoSnapshot) /\ (Save(p, copy, FALSE) \/ SaveFails(p, copy))
  /\ UNCHANGED <<up, batch, opens, history>>

\* The user discards the session, through a process loaded for it (discard-session
\* of gui_bridge) or in the one that has it (discard_session): the files go and the
\* document returns to the snapshot that p holds.
DiscardSession(p) ==
  LET copy == [mem[p] EXCEPT !.work = held[p].work, !.sent = held[p].sent, !.snap = NoSnapshot] IN
  /\ Idle(p)
  /\ files' = {} /\ live' = live \ {p} /\ blocks' = [blocks EXCEPT ![p] = {}]
  /\ pc' = [pc EXCEPT ![p] = "end"]
  /\ \/ ~flag[p] /\ UNCHANGED <<state, failures, clean>>
     \/ flag[p] /\ Stage(p, NoSnapshot) /\ (Save(p, copy, FALSE) \/ SaveFails(p, copy))
  /\ UNCHANGED <<up, batch, opens, history>>

\* The user discards the session in the sidecar: its files go ...
DiscardInSidecar(p) ==
  /\ Idle(p) /\ (files # {} \/ p \in live)
  /\ files' = {} /\ pc' = [pc EXCEPT ![p] = "drop"]
  /\ UNCHANGED <<state, up, batch, live, blocks, opens, failures, clean, history>>

\* ... the session section is written, and the Session is dropped.  The snapshot and
\* the document stay as they are.
DropSession(p) ==
  /\ p \in up /\ pc[p] = "drop"
  /\ pc' = [pc EXCEPT ![p] = "idle"] /\ live' = live \ {p} /\ blocks' = [blocks EXCEPT ![p] = {}]
  /\ Save(p, mem[p], FALSE)
  /\ UNCHANGED <<up, flag, held, batch, files, opens, history>>

\* SESSION_ENDED: the session section is written.
EndSession(p) ==
  /\ p \in up /\ pc[p] = "end"
  /\ pc' = [pc EXCEPT ![p] = "idle"]
  /\ Save(p, mem[p], FALSE)
  /\ UNCHANGED <<up, flag, held, batch, live, blocks, files, opens, history>>

Next ==
  \E p \in Proc :
    \/ Open(p) \/ Close(p) \/ Reload(p)
    \/ SetAutoAnchor(p)
    \/ \E c \in Change : UpdateRelationship(p, c)
    \/ StartSession(p) \/ BeginStagedSession(p)
    \/ \E m \in Message : SendMessage(p, m)
    \/ AnchorBlocks(p) \/ CommitStagedSession(p)
    \/ DiscardSession(p) \/ DiscardInSidecar(p) \/ DropSession(p) \/ EndSession(p)

Spec == Init /\ [][Next]_vars

-----------------------------------------------------------------------------
(* Properties *)

\* The GUI and the backend do not overwrite each other, whatever the age of
\* their copies: only a change of the setting by the GUI changes the setting in
\* the file, and that changes nothing that the backend counts or learns.
NoCrossOverwriteStep ==
  /\ disk'.gui # disk.gui => \E p \in Proc : SetAutoAnchor(p)
  /\ \A p \in Proc : SetAutoAnchor(p) => disk'.work = disk.work /\ disk'.sent = disk.sent
NoCrossOverwrite == [][NoCrossOverwriteStep]_vars

\* The count in the document is that of the messages counted when they were
\* sent or by a commit.  A message that is anchored is not left out, unless its
\* commit was prevented or it was sent while a commit was awaited; and it is
\* counted twice only if it was sent outside of a staged session, after the first
\* anchor of the conversation, and then loaded from the files by a process.
MessagesCounted ==
  LET waiting == UNION {batch[p] : p \in Proc} IN
  clean =>
    /\ disk.sent = Cardinality(loose) + Cardinality(committed)
    /\ anchored \subseteq loose \cup committed \cup missed \cup waiting
    /\ loose \cap committed \subseteq recovered

\* The file and the copies agreed until a process discards the session and saves, and no
\* permanent block waits for its commit or was deprived of it.
CleanDiscard ==
  clean' /\ failures' = failures /\ missed = {} /\ \A q \in Proc : pc[q] # "commit"

\* A discard by a process with the staged session leaves the work exactly as it
\* was before the session, also after a crash in the session and its recovery,
\* unless blocks became permanent whose commit did not come.
DiscardRestoresStep ==
  \A p \in Proc : DiscardSession(p) /\ flag[p] /\ CleanDiscard => disk'.work = settled
DiscardRestores == [][DiscardRestoresStep]_vars

=============================================================================
