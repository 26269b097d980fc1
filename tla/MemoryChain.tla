---------------------------- MODULE MemoryChain -----------------------------
(***************************************************************************)
(* The permanent memory chain of one Qube: the block files under           *)
(* blocks/permanent, the in-memory block index every loaded Qube object    *)
(* keeps of them, and the anchoring procedure (Session.anchor_to_chain)    *)
(* that appends session blocks, then a summary, under .session.lock.       *)
(*                                                                         *)
(* An instance is one loaded Qube object: in the sidecar, in a CLI         *)
(* process, or in the detached auto-anchor subprocess.  Instances share    *)
(* the files and the lock; each has an index that is read from the         *)
(* directory when the object is loaded (or reloaded) and is otherwise      *)
(* extended only by that object's own appends, so it may be stale.         *)
(*                                                                         *)
(* One pc per object is enough: a second anchor_to_chain of the same       *)
(* object polls the lock with the event loop blocked, so it gets the lock  *)
(* only when the first one is over, and otherwise times out.               *)
(***************************************************************************)
EXTENDS Naturals, Sequences, FiniteSets

CONSTANTS
  Inst,              \* Qube objects that may be loaded, in any process
  NoInst,            \* "nobody": the holder of a free lock
  Payload,           \* contents of session blocks
  NoPayload,         \* the content of genesis and summary blocks
  Direct,            \* instances whose commands also write permanent blocks themselves
  Batch,             \* sessions an anchor may find: nonempty sequences of payloads
  SummaryThreshold,  \* SUMMARY_THRESHOLD: unsummarized blocks that call for a summary
  MaxChain           \* bound: no anchor or direct write starts once this many files exist

ASSUME NoInstAssumption == NoInst \notin Inst
ASSUME DirectAssumption == Direct \subseteq Inst
ASSUME BatchAssumption == Batch \subseteq Seq(Payload) \ {<<>>}
ASSUME BoundAssumption ==
  /\ SummaryThreshold \in Nat \ {0}
  /\ MaxChain \in Nat

VARIABLES
  disk,  \* the files of blocks/permanent
  idx,   \* idx[p]: the block index of instance p, as the set of files it knows
  lock,  \* the instance that holds the flock on .session.lock, or NoInst
  pc,    \* pc[p]: where instance p is in anchor_to_chain
  todo,  \* todo[p]: payloads of the snapshot still to be converted
  next,  \* next[p]: number the next block written by p will carry
  prev   \* prev[p]: previous_hash the next block written by p will carry

vars == <<disk, idx, lock, pc, todo, next, prev>>

-----------------------------------------------------------------------------
(* Blocks *)

Kind == {"GENESIS", "CONTENT", "SUMMARY"}
Hash == Nat \X Kind \X (Payload \cup {NoPayload})
BlockFile == [num : Nat, kind : Kind, src : Payload \cup {NoPayload}, prev : Hash]

\* Mutant of HashOf: the content is left out of the hash.
HashOfHeader(f) == <<f.num, f.kind>>

\* A block hash covers the number and the content of its block.
HashOf(f) == <<f.num, f.kind, f.src>>

\* previous_hash of the genesis block: 64 zeroes.
ZeroHash == <<0, "GENESIS", NoPayload>>

GenesisBlock == [num |-> 0, kind |-> "GENESIS", src |-> NoPayload, prev |-> ZeroHash]

Numbers(S) == {f.num : f \in S}

UniqueNumbers(S) == \A f, g \in S : f.num = g.num => f = g

\* The block with the largest number.
Latest(S) == CHOOSE f \in S : \A g \in S : g.num <= f.num

\* What _load_block_index can build from the files of D: one file per number.
IndexesOf(D) == {S \in SUBSET D : UniqueNumbers(S) /\ Numbers(S) = Numbers(D)}

\* Content blocks newer than the last summary (or the genesis block).
Unsummarized(S) ==
  {f \in S : f.kind = "CONTENT" /\ \A g \in S : g.kind # "CONTENT" => g.num < f.num}

\* add_block accepts f after the blocks of S: next number, linked to the latest.
Extends(f, S) == f.num = Cardinality(S) /\ f.prev = HashOf(Latest(S))

\* Mutant of Collision: the safeguard of _save_permanent_block is dropped.
CollisionUnchecked(n) == FALSE

\* _save_permanent_block finds a file that already carries number n.
Collision(n) == n \in Numbers(disk)

-----------------------------------------------------------------------------
(* Loading, reloading and losing an instance *)

\* Places of anchor_to_chain where the coroutine is suspended or not running,
\* so that other coroutines of the same process may run.
Awaiting == {"idle", "scan", "post", "summary", "numbered"}

\* Places reached with the lock held.
Holding == {"scan", "convert", "post", "summary", "numbered", "done"}

PC == {"down", "idle", "wait"} \cup Holding

Load(p) ==
  /\ pc[p] = "down"
  /\ pc' = [pc EXCEPT ![p] = "idle"]
  /\ \E S \in IndexesOf(disk) : idx' = [idx EXCEPT ![p] = S]
  /\ UNCHANGED <<disk, lock, todo, next, prev>>

Reload(p) ==
  /\ pc[p] \in Awaiting
  /\ \E S \in IndexesOf(disk) : idx' = [idx EXCEPT ![p] = S]
  /\ UNCHANGED <<disk, lock, pc, todo, next, prev>>

\* Mutants of Unlock: an exception that skips the release, and a release that
\* removes the lock of whoever holds it.
UnlockSkipped(p) == UNCHANGED lock
UnlockAnyHolder(p) == lock' = NoInst

\* The lock of p, if p holds it, is released: by __exit__, or by the kernel.
Unlock(p) == lock' = IF lock = p THEN NoInst ELSE lock

\* The process ends, at any point: killed, crashed, or simply done.
Exit(p) ==
  /\ pc[p] # "down"
  /\ pc' = [pc EXCEPT ![p] = "down"]
  /\ idx' = [idx EXCEPT ![p] = {}]
  /\ todo' = [todo EXCEPT ![p] = <<>>]
  /\ Unlock(p)
  /\ UNCHANGED <<disk, next, prev>>

-----------------------------------------------------------------------------
(* Writers that do not go through anchor_to_chain *)

\* Mutant of DirectAppend: the number is the count of the files, not of the index.
DirectAppendByCount(p, x) ==
  /\ p \in Direct
  /\ pc[p] \in Awaiting
  /\ Cardinality(disk) < MaxChain
  /\ LET f == [num |-> Cardinality(disk), kind |-> "CONTENT", src |-> x,
               prev |-> HashOf(Latest(idx[p]))]
     IN  /\ disk' = disk \cup {f}
         /\ idx' = [idx EXCEPT ![p] = @ \cup {f}]
  /\ UNCHANGED <<lock, pc, todo, next, prev>>

\* A message or an action outside a session, a game block, a shared memory block
\* that is accepted: the block is numbered and linked from the index in memory,
\* written under a name of its own whatever the directory holds, and indexed,
\* with no await in between and without .session.lock.
DirectAppend(p, x) ==
  /\ p \in Direct
  /\ pc[p] \in Awaiting
  /\ Cardinality(disk) < MaxChain
  /\ LET f == [num |-> Cardinality(idx[p]), kind |-> "CONTENT", src |-> x,
               prev |-> HashOf(Latest(idx[p]))]
     IN  /\ disk' = disk \cup {f}
         /\ idx' = [idx EXCEPT ![p] = @ \cup {f}]
  /\ UNCHANGED <<lock, pc, todo, next, prev>>

-----------------------------------------------------------------------------
(* Anchoring *)

\* anchor_to_chain is called; the lock is polled for at most five seconds.
Begin(p) ==
  /\ pc[p] = "idle"
  /\ Cardinality(disk) < MaxChain
  /\ pc' = [pc EXCEPT ![p] = "wait"]
  /\ UNCHANGED <<disk, idx, lock, todo, next, prev>>

Timeout(p) ==
  /\ pc[p] = "wait"
  /\ lock # NoInst
  /\ pc' = [pc EXCEPT ![p] = "idle"]
  /\ UNCHANGED <<disk, idx, lock, todo, next, prev>>

\* Mutant of Acquire: the length is checked again in the directory, but the index
\* that add_block and the previous hash rely on is not read again.
AcquireFromDirectory(p, batch) ==
  /\ pc[p] = "wait"
  /\ lock = NoInst
  /\ lock' = p
  /\ pc' = [pc EXCEPT ![p] = "scan"]
  /\ todo' = [todo EXCEPT ![p] = batch]
  /\ next' = [next EXCEPT ![p] = Cardinality(disk)]
  /\ prev' = [prev EXCEPT ![p] = HashOf(Latest(idx[p]))]
  /\ UNCHANGED <<disk, idx>>

\* The lock is obtained: the session is snapshot, and the number and the hash
\* to continue from are taken from the index in memory.
Acquire(p, batch) ==
  /\ pc[p] = "wait"
  /\ lock = NoInst
  /\ lock' = p
  /\ pc' = [pc EXCEPT ![p] = "scan"]
  /\ todo' = [todo EXCEPT ![p] = batch]
  /\ next' = [next EXCEPT ![p] = Cardinality(idx[p])]
  /\ prev' = [prev EXCEPT ![p] = HashOf(Latest(idx[p]))]
  /\ UNCHANGED <<disk, idx>>

\* The awaited skill scan returns, or fails and is logged.
Scanned(p) ==
  /\ pc[p] = "scan"
  /\ pc' = [pc EXCEPT ![p] = "convert"]
  /\ UNCHANGED <<disk, idx, lock, todo, next, prev>>

\* An exception leaves anchor_to_chain: the lock is released on the way out.
Abort(p) ==
  /\ pc' = [pc EXCEPT ![p] = "idle"]
  /\ todo' = [todo EXCEPT ![p] = <<>>]
  /\ Unlock(p)

\* Mutant of Save: no safeguard, and a file name that is the number alone.
SaveOverwrites(p, f, cont) ==
  /\ disk' = {g \in disk : g.num # f.num} \cup {f}
  /\ \/ /\ Extends(f, idx[p])
        /\ idx' = [idx EXCEPT ![p] = @ \cup {f}]
        /\ cont
     \/ /\ ~Extends(f, idx[p])
        /\ Abort(p)
        /\ UNCHANGED <<idx, next, prev>>

\* Block f is written to its file and then offered to add_block, which either
\* enters it in the index or raises, leaving the file behind.
Save(p, f, cont) ==
  /\ ~Collision(f.num)
  /\ disk' = disk \cup {f}
  /\ \/ /\ Extends(f, idx[p])
        /\ idx' = [idx EXCEPT ![p] = @ \cup {f}]
        /\ cont
     \/ /\ ~Extends(f, idx[p])
        /\ Abort(p)
        /\ UNCHANGED <<idx, next, prev>>

\* One iteration of the conversion loop.
Convert(p) ==
  /\ pc[p] = "convert"
  /\ todo[p] # <<>>
  /\ LET f == [num |-> next[p], kind |-> "CONTENT", src |-> Head(todo[p]), prev |-> prev[p]]
     IN  Save(p, f, /\ todo' = [todo EXCEPT ![p] = Tail(@)]
                    /\ next' = [next EXCEPT ![p] = @ + 1]
                    /\ prev' = [prev EXCEPT ![p] = HashOf(f)]
                    /\ UNCHANGED <<lock, pc>>)

\* The number is taken: "duplicate anchor attempt", nothing is written.
Collide(p) ==
  /\ \/ pc[p] = "convert" /\ todo[p] # <<>>
     \/ pc[p] = "numbered"
  /\ Collision(next[p])
  /\ Abort(p)
  /\ UNCHANGED <<disk, idx, next, prev>>

\* The file cannot be created.
SaveFails(p) ==
  /\ \/ pc[p] = "convert" /\ todo[p] # <<>>
     \/ pc[p] = "numbered"
  /\ ~Collision(next[p])
  /\ Abort(p)
  /\ UNCHANGED <<disk, idx, next, prev>>

\* The loop is over; what follows may be suspended (skill XP, summary).
Converted(p) ==
  /\ pc[p] = "convert"
  /\ todo[p] = <<>>
  /\ pc' = [pc EXCEPT ![p] = "post"]
  /\ UNCHANGED <<disk, idx, lock, todo, next, prev>>

SummaryDue(p) == Cardinality(Unsummarized(idx[p])) >= SummaryThreshold

\* The blocks to summarize are collected and the model calls are awaited.
SummaryStart(p) ==
  /\ pc[p] = "post"
  /\ SummaryDue(p)
  /\ prev' = [prev EXCEPT ![p] = HashOf(Latest(Unsummarized(idx[p])))]
  /\ pc' = [pc EXCEPT ![p] = "summary"]
  /\ UNCHANGED <<disk, idx, lock, todo, next>>

\* generate_summary_block builds the block; the evaluations are still awaited.
SummaryNumber(p) ==
  /\ pc[p] = "summary"
  /\ next' = [next EXCEPT ![p] = Cardinality(idx[p])]
  /\ pc' = [pc EXCEPT ![p] = "numbered"]
  /\ UNCHANGED <<disk, idx, lock, todo, prev>>

SummarySave(p) ==
  /\ pc[p] = "numbered"
  /\ LET f == [num |-> next[p], kind |-> "SUMMARY", src |-> NoPayload, prev |-> prev[p]]
     IN  Save(p, f, /\ pc' = [pc EXCEPT ![p] = "done"]
                    /\ UNCHANGED <<lock, todo, next, prev>>)

\* A model call of the summary raises, or the time limit of the auto-anchor task
\* cancels the coroutine at an await: CancelledError passes every handler.
Interrupted(p) ==
  /\ pc[p] \in {"scan", "post", "summary", "numbered"}
  /\ Abort(p)
  /\ UNCHANGED <<disk, idx, next, prev>>

\* anchor_to_chain returns: the summary is written, not due, or not asked for.
Finish(p) ==
  /\ pc[p] \in {"post", "done"}
  /\ pc' = [pc EXCEPT ![p] = "idle"]
  /\ Unlock(p)
  /\ UNCHANGED <<disk, idx, todo, next, prev>>

-----------------------------------------------------------------------------
Init ==
  /\ disk = {GenesisBlock}
  /\ idx = [p \in Inst |-> {}]
  /\ lock = NoInst
  /\ pc = [p \in Inst |-> "down"]
  /\ todo = [p \in Inst |-> <<>>]
  /\ next = [p \in Inst |-> 0]
  /\ prev = [p \in Inst |-> ZeroHash]

\* Steps an anchor that holds the lock takes by itself.
Proceed(p) ==
  \/ Scanned(p)      \/ Convert(p)       \/ Collide(p)     \/ SaveFails(p)
  \/ Converted(p)    \/ SummaryStart(p)  \/ SummaryNumber(p)
  \/ SummarySave(p)  \/ Interrupted(p)  \/ Finish(p)

Next ==
  \E p \in Inst :
    \/ Load(p) \/ Reload(p) \/ Exit(p)
    \/ \E x \in Payload : DirectAppend(p, x)
    \/ Begin(p) \/ Timeout(p)
    \/ \E batch \in Batch : Acquire(p, batch)
    \/ Proceed(p)

Spec == Init /\ [][Next]_vars

\* The awaited calls return or raise, and the lock is polled for a bounded time:
\* an anchor that has begun keeps moving, unless its process ends.
Fairness ==
  \A p \in Inst :
    /\ WF_vars(Proceed(p))
    /\ WF_vars(Timeout(p) \/ \E batch \in Batch : Acquire(p, batch))

FairSpec == Spec /\ Fairness

-----------------------------------------------------------------------------
(* Properties *)

TypeOK ==
  /\ disk \subseteq BlockFile
  /\ idx \in [Inst -> SUBSET BlockFile]
  /\ lock \in Inst \cup {NoInst}
  /\ pc \in [Inst -> PC]
  /\ todo \in [Inst -> Seq(Payload)]
  /\ next \in [Inst -> Nat]
  /\ prev \in [Inst -> Hash]

\* Every block but genesis follows another one and carries its hash.
Linked(S) ==
  \A f \in S : f.num # 0 => \E g \in S : g.num + 1 = f.num /\ f.prev = HashOf(g)

\* The chain is one linked list: no two files carry the same number, and every
\* block but genesis is linked to the block numbered before it, what
\* verify_chain_integrity looks for, although each anchor takes number and hash
\* from an index that another process may have made stale.
ChainIntegrity == UniqueNumbers(disk) /\ Linked(disk)

\* The numbers of the files and of every index have no gap, so that the size of
\* an index (get_chain_length) is the number after its latest block, whoever
\* wrote blocks directly, with whichever number, in whichever process.
LengthIsNextNumber ==
  /\ \A f \in disk : f.num # 0 => \E g \in disk : g.num + 1 = f.num
  /\ \A p \in Inst : Numbers(idx[p]) = 0 .. (Cardinality(idx[p]) - 1)

\* No two instances are inside the critical section of anchor_to_chain, and the
\* one inside holds the flock, through aborts, timeouts and process deaths.
MutualExclusion == \A p \in Inst : pc[p] \in Holding <=> lock = p

\* A block file is written only by an instance whose index was complete, and its
\* index is complete again in the same step: add_block never refuses a block
\* whose file _save_permanent_block has just left in the directory.
OnlyUpToDateWrites ==
  [][disk' # disk => \E p \in Inst : idx[p] = disk /\ idx'[p] = disk']_vars

\* The chain implements the append-only ledger.
BlockAt(S, n) == CHOOSE f \in S : f.num = n
LogOf(S) ==
  [i \in 1 .. Cardinality(S) |-> <<BlockAt(S, i - 1).kind, BlockAt(S, i - 1).src>>]

Entries == Kind \X (Payload \cup {NoPayload})

ChainLedger == INSTANCE MemoryLedger WITH
  memories <- LogOf(disk), Memory <- Entries, Genesis <- <<"GENESIS", NoPayload>>

ImplementsLedger == ChainLedger!Spec

\* Whoever obtains the lock gives it back: no exception, cancellation or death
\* leaves the Qube unable to anchor.
LockReleased == \A p \in Inst : lock = p ~> lock # p

=============================================================================
