------------------------------ MODULE Session -------------------------------
(***************************************************************************)
(* The session of one Qube: the blocks of the running conversation, held   *)
(* in memory by the Session of every loaded Qube object and, for recovery, *)
(* as one file per block in blocks/session; and how they become permanent. *)
(*                                                                         *)
(* A front object (sidecar, CLI) creates, deletes and discards blocks and  *)
(* anchors them itself, or hands them over to the worker: the detached     *)
(* subprocess of check_and_auto_anchor, which loads the Qube from the      *)
(* files.  The permanent chain is abstracted to what MemoryChain shows of  *)
(* it: an object appends to it exactly when its index is complete, and     *)
(* otherwise fails (block number collision).                               *)
(*                                                                         *)
(* Within one object the steps interleave at the awaits of anchor_to_chain *)
(* only.  One pc per object is enough: see SecondAnchor.                   *)
(***************************************************************************)
EXTENDS Naturals, Sequences, FiniteSets, Functions

CONSTANTS
  Front,      \* interactive Qube objects
  Worker,     \* the Qube object of the auto-anchor subprocess
  NoOne,      \* the holder of a free .session.lock
  Features,   \* what the environment does, see below
  Threshold,  \* get_active_threshold: blocks in a session that call for an anchor
  TimeOf,     \* TimeOf[b]: the second in which block b is created
  TypeOf,     \* TypeOf[b]: the block_type of block b
  Rank,       \* Rank[b]: place of b in the order of the sort key of the reindexing
  MaxBlocks,  \* bound: blocks created
  MaxChain    \* bound: no anchor starts once this many blocks are permanent

AllFeatures ==
  {"spawn",     \* a master password is at hand and the subprocess starts
   "nospawn",   \* there is none, or the subprocess cannot be started
   "second",    \* an object is told to anchor while it is anchoring
   "late",      \* blocks are deleted or discarded while they are being anchored
   "io",        \* a file cannot be written, a model call raises
   "crash"}     \* processes end at any point and start again

Block == 1 .. MaxBlocks
Object == Front \cup {Worker}

ASSUME ObjectAssumption == Worker \notin Front /\ NoOne \notin Object
ASSUME FeatureAssumption == Features \subseteq AllFeatures
ASSUME BoundAssumption == MaxBlocks \in Nat /\ MaxChain \in Nat /\ Threshold \in Nat \ {0}
\* Blocks are numbered in the order of their creation; the sort key of a block
\* begins with its timestamp, then its type, then a hash of its content.
ASSUME OrderAssumption ==
  /\ TimeOf \in [Block -> Nat] /\ DOMAIN TypeOf = Block /\ Rank \in [Block -> Nat]
  /\ \A b, c \in Block :
       /\ b < c => TimeOf[b] <= TimeOf[c]
       /\ TimeOf[b] < TimeOf[c] => Rank[b] < Rank[c]
       /\ Rank[b] = Rank[c] => b = c

VARIABLES
  obj,       \* obj[p]: the memory of Qube object p
  files,     \* blocks/session: for each file the block in it and its number, unsigned
  chain,     \* the session blocks that are permanent, in the order of their numbers
  flock,     \* the object that holds .session.lock, or NoOne
  workLock,  \* .anchor_in_progress.lock exists
  marker,    \* blocks/session/.discarded exists
  created,   \* number of blocks created so far
  gone       \* history: blocks deleted or discarded by the user

vars == <<obj, files, chain, flock, workLock, marker, created, gone>>

Ids(E) == {e.id : e \in E}

-----------------------------------------------------------------------------
(* Blocks of a session and their files *)

\* A block with its number; block numbers of a session are -1, -2, ...
Entry == [id : Block, num : Nat \ {0}]

\* The name of a file: {block_number}_{block_type}_{timestamp}.json.
NameOf(e) == <<e.num, TypeOf[e.id], TimeOf[e.id]>>

\* Entries E are saved, over the files that have their names.
Saved(F, E) == {f \in F : NameOf(f) \notin {NameOf(e) : e \in E}} \cup E

Before(d, e) == Rank[d.id] < Rank[e.id] \/ (d.id = e.id /\ d.num < e.num)

\* The place of s[i]: after all that come before it, and its equals to the left of it.
Place(s, i) ==
  Cardinality({j \in DOMAIN s : Before(s[j], s[i]) \/ (s[j] = s[i] /\ j <= i)})

InOrder(s) == [k \in DOMAIN s |-> s[CHOOSE i \in DOMAIN s : Place(s, i) = k]]

\* Mutant of Renumbered: numbers start from zero.
RenumberedFromZero(s) == [i \in DOMAIN s |-> [id |-> s[i].id, num |-> i - 1]]

Renumbered(s) == [i \in DOMAIN s |-> [id |-> s[i].id, num |-> i]]

\* The number s[i] had, looked up by the sort key: of two entries of a block the
\* later one is found.
OldNum(s, i) ==
  LET same == {j \in DOMAIN s : s[j].id = s[i].id}
  IN  s[CHOOSE j \in same : \A k \in same : k <= j].num

\* Mutant of ReindexedFiles: the old file goes, the new one is left to others.
ReindexedFilesUnsaved(F, s) ==
  F \ {f \in F : \E i \in DOMAIN s : OldNum(s, i) = f.num /\ f.num # i /\ f.id = s[i].id}

\* The files after _reindex_session_blocks has renumbered s, which is in order.
\* From the first entry to the last, one whose number changes has the file of
\* its old name deleted and is saved under its new name, over whatever is
\* there; one whose number stays is saved if its file is missing.
ReindexedFiles(F, s) ==
  LET t == Renumbered(s)
      Moves(i) == OldNum(s, i) # i
      Deletes(j, name) == Moves(j) /\ NameOf([t[j] EXCEPT !.num = OldNum(s, j)]) = name
      Survives(i) == \A j \in DOMAIN s : j > i => ~Deletes(j, NameOf(t[i]))
      Missing(i) ==
        \/ NameOf(t[i]) \notin {NameOf(f) : f \in F}
        \/ \E j \in DOMAIN s : j < i /\ Deletes(j, NameOf(t[i]))
      kept == {f \in F : \A j \in DOMAIN s : ~Deletes(j, NameOf(f))}
  IN  Saved(kept, {t[i] : i \in {k \in DOMAIN s : (Moves(k) \/ Missing(k)) /\ Survives(k)}})

\* Blocks B, which carry the number -1 as every new block does, join the session
\* and everything is reindexed; then the new ones are saved again.
Joined(s, B) ==
  InOrder(s \o [i \in DOMAIN B |-> [id |-> B[i], num |-> 1]])

JoinedFiles(F, s, B) ==
  LET t == Joined(s, B)
  IN  IF B = <<>> THEN F
      ELSE Saved(ReindexedFiles(F, t), {e \in Range(Renumbered(t)) : e.id \in Range(B)})

JoinedBlocks(s, B) == IF B = <<>> THEN s ELSE Renumbered(Joined(s, B))

\* Mutant of CleanedUp: cleanup, which removes every file.
CleanedUpAll(F, B) == {}

\* cleanup_anchored_files: the files with the timestamps of the anchored blocks go.
CleanedUp(F, B) == {f \in F : TimeOf[f.id] \notin {TimeOf[b] : b \in B}}

-----------------------------------------------------------------------------
(* Qube objects and their sessions *)

SessionType ==
  [blocks : Seq(Entry),    \* session_blocks
   queue : Seq(Block),     \* _pending_during_anchor
   flag : BOOLEAN,         \* _anchor_in_progress
   pend : BOOLEAN]         \* _auto_anchor_pending

NewSession == [blocks |-> <<>>, queue |-> <<>>, flag |-> FALSE, pend |-> FALSE]

\* Where an object is: not loaded; idle; its anchor task created; in anchor_to_chain.
\* "start" and "check" are the worker before and after it loads the Qube.
Awaiting == {"idle", "task", "scan", "post"}
PC == {"down", "start", "check", "wait", "convert"} \cup Awaiting

ObjType ==
  [pc : PC,
   cur : SessionType,       \* current_session
   old : SessionType,       \* the session being anchored, after a discard replaced it
   replaced : BOOLEAN,      \* a discard replaced the session being anchored
   auto : BOOLEAN,          \* the anchor runs in _run_auto_anchor_background
   snap : Seq(Block),       \* blocks_to_anchor
   done : Nat,              \* how many of them are converted
   known : Nat]             \* how much of the chain the index in memory covers

NotLoaded ==
  [pc |-> "down", cur |-> NewSession, old |-> NewSession, replaced |-> FALSE,
   auto |-> FALSE, snap |-> <<>>, done |-> 0, known |-> 0]

\* The Session on which the anchor of p was called.
Anchored(p) == IF obj[p].replaced THEN "old" ELSE "cur"

\* recover_session: the files are read, sorted and reindexed.
Load(p, to) ==
  LET s == InOrder(CHOOSE q \in [1 .. Cardinality(files) -> files] : Range(q) = files)
  IN  /\ files' = ReindexedFiles(files, s)
      /\ obj' = [obj EXCEPT ![p] =
           [NotLoaded EXCEPT !.pc = to, !.cur.blocks = Renumbered(s), !.known = Len(chain)]]

LoadFront(p) ==
  /\ p \in Front /\ obj[p].pc = "down"
  /\ Load(p, "idle")
  /\ UNCHANGED <<chain, flock, workLock, marker, created, gone>>

Reload(p) ==
  /\ p \in Front /\ obj[p].pc = "idle" /\ obj[p].known # Len(chain)
  /\ obj' = [obj EXCEPT ![p].known = Len(chain)]
  /\ UNCHANGED <<files, chain, flock, workLock, marker, created, gone>>

Unlocked(p) == IF flock = p THEN NoOne ELSE flock

Crash(p) ==
  /\ "crash" \in Features /\ obj[p].pc # "down"
  /\ obj' = [obj EXCEPT ![p] = NotLoaded]
  /\ flock' = Unlocked(p)
  /\ UNCHANGED <<files, chain, workLock, marker, created, gone>>

-----------------------------------------------------------------------------
(* What the user does *)

\* create_block: queued while an anchor is in progress, else added and saved.
Create(p) ==
  /\ p \in Front /\ obj[p].pc \in Awaiting /\ created < MaxBlocks
  /\ created' = created + 1
  /\ IF obj[p].cur.flag
     THEN /\ obj' = [obj EXCEPT ![p].cur.queue = Append(@, created')]
          /\ UNCHANGED files
     ELSE LET blocks == JoinedBlocks(obj[p].cur.blocks, <<created'>>)
          IN  /\ obj' = [obj EXCEPT ![p].cur.blocks = blocks,
                                    ![p].cur.pend = @ \/ Len(blocks) >= Threshold]
              /\ files' = JoinedFiles(files, obj[p].cur.blocks, <<created'>>)
  /\ UNCHANGED <<chain, flock, workLock, marker, gone>>

MayRemove(p) == p \in Front /\ obj[p].pc \in {"idle", "post"} \cup
                  (IF "late" \in Features THEN {"scan"} ELSE {})

\* delete_block: the block leaves the session, and one file with its type and
\* timestamp, whichever the directory lists first, is deleted.
Delete(p, i) ==
  /\ MayRemove(p) \/ (p \in Front /\ obj[p].pc = "task")
  /\ i \in DOMAIN obj[p].cur.blocks
  /\ LET b == obj[p].cur.blocks[i].id
         found == {f \in files : TypeOf[f.id] = TypeOf[b] /\ TimeOf[f.id] = TimeOf[b]}
     IN  /\ gone' = gone \cup {b}
         /\ IF found = {} THEN files' = files ELSE \E f \in found : files' = files \ {f}
  /\ obj' = [obj EXCEPT ![p].cur.blocks =
               [j \in 1 .. Len(@) - 1 |-> IF j < i THEN @[j] ELSE @[j + 1]]]
  /\ UNCHANGED <<chain, flock, workLock, marker, created>>

\* discard_session of the Qube, or of the sidecar, which leaves no marker.  The
\* Session is dropped; an anchor that is in progress goes on with it.
Discard(p, mark) ==
  /\ MayRemove(p)
  /\ files' = {}
  /\ marker' = (marker \/ mark)
  /\ gone' = gone \cup Ids(files) \cup Ids(Range(obj[p].cur.blocks)) \cup Range(obj[p].cur.queue)
  /\ obj' = [obj EXCEPT
       ![p].cur = NewSession,
       ![p].old = IF obj[p].pc = "idle" \/ obj[p].replaced THEN @
                  ELSE [obj[p].cur EXCEPT !.blocks = <<>>],
       ![p].replaced = obj[p].pc # "idle"]
  /\ UNCHANGED <<chain, flock, workLock, created>>

-----------------------------------------------------------------------------
(* check_and_auto_anchor *)

PendingAnchor(p) == p \in Front /\ obj[p].pc \in Awaiting /\ obj[p].cur.pend

\* Another subprocess is said to be at work: nothing happens.
SkipAutoAnchor(p) ==
  /\ PendingAnchor(p) /\ workLock
  /\ obj' = [obj EXCEPT ![p].cur.pend = FALSE]
  /\ UNCHANGED <<files, chain, flock, workLock, marker, created, gone>>

\* Mutant of WorkLockFree: the lock file is not looked for.
WorkLockIgnored == TRUE

\* A lock file older than 30 minutes is removed; no subprocess lives that long.
WorkLockFree == ~workLock \/ obj[Worker].pc = "down"

\* The subprocess is started and the blocks are left to it.
Spawn(p) ==
  /\ "spawn" \in Features
  /\ PendingAnchor(p) /\ WorkLockFree /\ Len(chain) < MaxChain
  /\ workLock' = TRUE
  /\ obj' = [obj EXCEPT ![p].cur.pend = FALSE, ![p].cur.blocks = <<>>,
                        ![Worker] = [NotLoaded EXCEPT !.pc = "start"]]
  /\ UNCHANGED <<files, chain, flock, marker, created, gone>>

\* No password, or the subprocess cannot be started (its lock file remains): the
\* anchor runs as a task of this process, and blocks are queued from now on.  If
\* the object is anchoring already, the task is a second anchor.
Fallback(p, nopassword) ==
  /\ "nospawn" \in Features
  /\ PendingAnchor(p) /\ Len(chain) < MaxChain
  /\ nopassword \/ WorkLockFree
  /\ workLock' = (workLock \/ ~nopassword)
  /\ LET cur == obj[p].cur
     IN  \/ /\ obj[p].pc = "idle"
            /\ obj' = [obj EXCEPT ![p].pc = "task", ![p].auto = TRUE,
                                  ![p].cur = [@ EXCEPT !.flag = TRUE, !.pend = FALSE]]
            /\ UNCHANGED files
         \/ /\ obj[p].pc \in {"scan", "post"} /\ "second" \in Features
            /\ obj' = [obj EXCEPT ![p].cur.blocks = JoinedBlocks(@, cur.queue),
                                  ![p].cur.queue = <<>>,
                                  ![p].cur.flag = FALSE, ![p].cur.pend = FALSE]
            /\ files' = JoinedFiles(files, cur.blocks, cur.queue)
  /\ UNCHANGED <<chain, flock, marker, created, gone>>

\* The subprocess has loaded the Qube.
LoadWorker ==
  /\ obj[Worker].pc = "start"
  /\ Load(Worker, "check")
  /\ UNCHANGED <<chain, flock, workLock, marker, created, gone>>

\* It finds the discard marker, or neither blocks nor files, and exits at once.
WorkerGivesUp ==
  /\ obj[Worker].pc = "check"
  /\ marker \/ (files = {} /\ obj[Worker].cur.blocks = <<>>)
  /\ marker' = FALSE
  /\ obj' = [obj EXCEPT ![Worker] = NotLoaded]
  /\ UNCHANGED <<files, chain, flock, workLock, created, gone>>

WorkerStarts ==
  /\ obj[Worker].pc = "check" /\ ~marker
  /\ obj[Worker].cur.blocks # <<>>
  /\ obj' = [obj EXCEPT ![Worker].pc = "wait", ![Worker].cur.flag = TRUE]
  /\ UNCHANGED <<files, chain, flock, workLock, marker, created, gone>>

-----------------------------------------------------------------------------
(* anchor_to_chain *)

\* Mutant of FlushedOnExit: blocks queued during an anchor that fails stay queued.
FlushedNever(p) == <<>>

\* The queue is flushed at the exit only by _run_auto_anchor_background.
FlushedOnExit(p) == IF obj[p].auto THEN obj[p][Anchored(p)].queue ELSE <<>>

\* Mutant of ResetFlag: the flag is not reset on the way out.
KeepFlag(s) == s

\* The finally clauses reset _anchor_in_progress.
ResetFlag(s) == [s EXCEPT !.flag = FALSE]

\* anchor_to_chain is over, whichever way; F are the files it leaves.
Leave(p, F) ==
  LET s == obj[p][Anchored(p)]
      flushed == FlushedOnExit(p)
      left == ResetFlag([s EXCEPT !.blocks = JoinedBlocks(@, flushed),
                                  !.queue = IF flushed = <<>> THEN @ ELSE <<>>])
  IN  /\ files' = JoinedFiles(F, s.blocks, flushed)
      /\ flock' = Unlocked(p)
      /\ workLock' = (workLock /\ p # Worker)
      /\ obj' = [obj EXCEPT ![p] =
           IF p = Worker THEN NotLoaded
           ELSE [NotLoaded EXCEPT !.pc = "idle", !.known = obj[p].known,
                                  !.cur = IF obj[p].replaced THEN obj[p].cur ELSE left]]
      /\ UNCHANGED <<marker, created, gone>>

\* The worker finds files but has loaded no session: nothing to anchor.
NothingLoaded ==
  /\ obj[Worker].pc = "check" /\ ~marker
  /\ obj[Worker].cur.blocks = <<>> /\ files # {}
  /\ Leave(Worker, files)
  /\ UNCHANGED chain

\* Mutant of Begin: the flag is left to whoever starts an anchor in the background.
BeginUnflagged(p) ==
  /\ p \in Front /\ obj[p].pc = "idle" /\ obj[p].cur.blocks # <<>>
  /\ Len(chain) < MaxChain
  /\ obj' = [obj EXCEPT ![p].pc = "wait"]
  /\ UNCHANGED <<files, chain, flock, workLock, marker, created, gone>>

\* A command anchors the session.
Begin(p) ==
  /\ p \in Front /\ obj[p].pc = "idle" /\ obj[p].cur.blocks # <<>>
  /\ Len(chain) < MaxChain
  /\ obj' = [obj EXCEPT ![p].pc = "wait", ![p].cur.flag = TRUE]
  /\ UNCHANGED <<files, chain, flock, workLock, marker, created, gone>>

\* The anchor task runs.
StartTask(p) ==
  /\ obj[p].pc = "task"
  /\ \/ /\ obj[p].cur.blocks # <<>>
        /\ obj' = [obj EXCEPT ![p].pc = "wait"]
        /\ UNCHANGED <<files, flock, workLock, marker, created, gone>>
     \/ obj[p].cur.blocks = <<>> /\ Leave(p, files)
  /\ UNCHANGED chain

\* Another anchor of an object that is anchoring: it polls the lock, which its own
\* object holds, with the event loop blocked, fails, and resets the flag.
SecondAnchor(p) ==
  /\ "second" \in Features
  /\ p \in Front /\ obj[p].pc \in {"scan", "post"} /\ obj[p].cur.flag
  /\ obj' = [obj EXCEPT ![p].cur.flag = FALSE]
  /\ UNCHANGED <<files, chain, flock, workLock, marker, created, gone>>

GetLock(p) ==
  /\ obj[p].pc = "wait" /\ flock = NoOne
  /\ flock' = p
  /\ LET blocks == obj[p].cur.blocks
     IN  obj' = [obj EXCEPT ![p].pc = "scan",
                            ![p].snap = [i \in DOMAIN blocks |-> blocks[i].id]]
  /\ UNCHANGED <<files, chain, workLock, marker, created, gone>>

LockTimeout(p) ==
  /\ obj[p].pc = "wait" /\ flock # NoOne
  /\ Leave(p, files)
  /\ UNCHANGED chain

\* The skill scan returns; an error in it is only logged.
Scanned(p) ==
  /\ obj[p].pc = "scan"
  /\ obj' = [obj EXCEPT ![p].pc = "convert"]
  /\ UNCHANGED <<files, chain, flock, workLock, marker, created, gone>>

\* The time limit of the auto-anchor task expires at an await, or one of the calls
\* after the conversion raises.
Interrupted(p) ==
  /\ \/ obj[p].pc \in {"scan", "post"} /\ obj[p].auto
     \/ obj[p].pc = "post" /\ "io" \in Features
  /\ Leave(p, files)
  /\ UNCHANGED chain

\* One iteration of the conversion loop: the block is appended if the number after
\* the last one known is free; if it is taken, or on an error, the anchor is over.
Convert(p) ==
  /\ obj[p].pc = "convert" /\ obj[p].done < Len(obj[p].snap)
  /\ \/ /\ obj[p].known = Len(chain)
        /\ chain' = Append(chain, obj[p].snap[obj[p].done + 1])
        /\ obj' = [obj EXCEPT ![p].done = @ + 1, ![p].known = @ + 1]
        /\ UNCHANGED <<files, flock, workLock, marker, created, gone>>
     \/ /\ obj[p].known # Len(chain) \/ "io" \in Features
        /\ Leave(p, files)
        /\ UNCHANGED chain

\* Mutant of Clear: the session keeps the blocks that have been anchored.
ClearKeepsBlocks(p) ==
  /\ obj[p].pc = "convert" /\ obj[p].done = Len(obj[p].snap)
  /\ LET s == obj[p][Anchored(p)]
     IN  /\ files' = JoinedFiles(CleanedUp(files, Range(obj[p].snap)), s.blocks, s.queue)
         /\ obj' = [obj EXCEPT ![p].pc = "post",
              ![p][Anchored(p)] = [s EXCEPT !.blocks = JoinedBlocks(@, s.queue),
                                            !.queue = <<>>, !.flag = FALSE]]
  /\ UNCHANGED <<chain, flock, workLock, marker, created, gone>>

\* The session is cleared, its files are deleted, and what was queued meanwhile
\* starts a new session.
Clear(p) ==
  /\ obj[p].pc = "convert" /\ obj[p].done = Len(obj[p].snap)
  /\ LET s == obj[p][Anchored(p)]
     IN  /\ files' = JoinedFiles(CleanedUp(files, Range(obj[p].snap)), <<>>, s.queue)
         /\ obj' = [obj EXCEPT ![p].pc = "post",
              ![p][Anchored(p)] = [s EXCEPT !.blocks = JoinedBlocks(<<>>, s.queue),
                                            !.queue = <<>>, !.flag = FALSE]]
  /\ UNCHANGED <<chain, flock, workLock, marker, created, gone>>

\* Skill XP, summary and bookkeeping are done; the files are cleaned up again.
Finish(p) ==
  /\ obj[p].pc = "post"
  /\ Leave(p, CleanedUp(files, Range(obj[p].snap)))
  /\ UNCHANGED chain

-----------------------------------------------------------------------------
Init ==
  /\ obj = [p \in Object |-> NotLoaded]
  /\ files = {}
  /\ chain = <<>>
  /\ flock = NoOne
  /\ workLock = FALSE
  /\ marker = FALSE
  /\ created = 0
  /\ gone = {}

\* Steps an anchor takes by itself.
Proceed(p) ==
  \/ StartTask(p) \/ GetLock(p) \/ LockTimeout(p) \/ Scanned(p)
  \/ Interrupted(p) \/ Convert(p) \/ Clear(p) \/ Finish(p)

WorkerStep == LoadWorker \/ WorkerGivesUp \/ WorkerStarts \/ NothingLoaded

Next ==
  \/ \E p \in Object :
       \/ LoadFront(p) \/ Reload(p) \/ Crash(p)
       \/ Create(p) \/ (\E i \in Block : Delete(p, i)) \/ (\E mark \in BOOLEAN : Discard(p, mark))
       \/ SkipAutoAnchor(p) \/ Spawn(p) \/ (\E np \in BOOLEAN : Fallback(p, np))
       \/ Begin(p) \/ SecondAnchor(p) \/ Proceed(p)
  \/ WorkerStep

Spec == Init /\ [][Next]_vars

\* The awaited calls return or raise and the lock is polled for a bounded time, so
\* that an anchor that has begun keeps moving, unless its process ends.
FairSpec == Spec /\ \A p \in Object : WF_vars(Proceed(p))

-----------------------------------------------------------------------------
(* Properties *)

TypeOK ==
  /\ obj \in [Object -> ObjType]
  /\ files \subseteq Entry
  /\ chain \in Seq(Block)
  /\ flock \in Object \cup {NoOne}
  /\ workLock \in BOOLEAN /\ marker \in BOOLEAN
  /\ created \in 0 .. MaxBlocks
  /\ gone \subseteq Block

\* The blocks of a conversation are anchored once each and in the order of time,
\* those created during an anchor included, and a block that the user has deleted
\* or discarded is not anchored: the session implements the life of its blocks.
Lifecycle == INSTANCE BlockLifecycle WITH
  unborn <- (created + 1) .. MaxBlocks,
  open <- 1 .. created \ (gone \cup Range(chain)),
  anchored <- chain

ImplementsLifecycle == Lifecycle!Spec

\* "Any blocks that arrived during anchor (success or failure) must be added to the
\* session" (_run_auto_anchor_background): blocks wait in the queue only while an
\* anchor of their session is in progress.
QueuedOnlyWhileAnchoring ==
  \A p \in Object : obj[p].cur.queue # <<>> => obj[p].pc \in {"task", "wait", "scan", "convert"}

\* No block drops out of the memory of the object that the conversation runs in:
\* until it is anchored or removed it is in the session or in the queue, at every
\* point of an anchor, the failing ones included.
RememberedUntilAnchored ==
  \A p \in Front : obj[p].pc # "down" =>
    1 .. created \ (gone \cup Range(chain))
      \subseteq Ids(Range(obj[p].cur.blocks)) \cup Range(obj[p].cur.queue)

\* _anchor_in_progress does not outlive the anchor: it is eventually reset, so that
\* new blocks are not queued for ever.
FlagReset == \A p \in Object : obj[p].cur.flag ~> ~obj[p].cur.flag

\* A step takes the last file of a block away only if the block is permanent or the
\* user has removed it: neither the cleanup of another process, nor renumbering,
\* nor a crash between any two steps loses a block that was saved.
OnceSavedKept ==
  [][\A b \in Ids(files) : b \in Ids(files') \cup Range(chain') \cup gone']_vars

\* Every block of a session is saved: if the process ends, recovery finds it.
SavedForRecovery ==
  \A p \in Front : Ids(Range(obj[p].cur.blocks)) \subseteq Ids(files) \cup Range(chain) \cup gone

\* One subprocess per Qube: none is started while the last one still runs.
NoSecondWorker == [][(\E p \in Front : Spawn(p)) => obj[Worker].pc = "down"]_vars

\* "New blocks created after spawn get new timestamps and won't be deleted by
\* subprocess" (check_and_auto_anchor): the subprocess anchors, and then deletes,
\* only blocks that were left to it, none that the object it was started from has
\* in its session.
OnlyLeftBlocksAnchored ==
  obj[Worker].pc \in {"scan", "convert"} =>
    \A p \in Front : Range(obj[Worker].snap) \cap Ids(Range(obj[p].cur.blocks)) = {}

\* New blocks are queued only as long as their session is being anchored, whatever
\* fails, is refused, cancelled or repeated meanwhile.
FlagMeansAnchoring ==
  \A p \in Object : obj[p].cur.flag => obj[p].pc \in {"task", "wait", "scan", "convert"}

=============================================================================
