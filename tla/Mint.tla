-------------------------------- MODULE Mint --------------------------------
(***************************************************************************)
(* Minting a Qube with an external wallet.  The keys of the new Qube are   *)
(* put aside in a file, the wallet signs and broadcasts the transaction,   *)
(* and then the Qube is finalized.  The GUI gives up a finalization after  *)
(* its timeout and repeats it, in another process: the first one may be    *)
(* killed anywhere, or may still go on beside the second.                  *)
(*                                                                         *)
(* Every attempt makes an encryption key of its own and is named for it.   *)
(* A file is written as a whole.                                           *)
(***************************************************************************)
CONSTANTS
  Attempt,   \* attempts to finalize
  NoKey      \* the file is not there

MintAssumption == NoKey \notin Attempt

VARIABLES
  prepared,     \* the transaction has been handed to the wallet
  pendingMint,  \* the file with the keys of the Qube is there
  stateKey,     \* the key that chain_state.json is encrypted with
  storedKey,    \* the key in encryption_key.enc
  metadata,     \* qube_metadata.json, with the private key, is there
  step,         \* step[f]: how far attempt f has come
  \* History:
  overlapped    \* attempts that ran beside another one

vars == <<prepared, pendingMint, stateKey, storedKey, metadata, step, overlapped>>

Step == {"new",
         "derive",    \* awaits the address of the wallet
         "clean",     \* removes the chain state of an attempt before
         "create",    \* makes the Qube object, and that the chain state
         "save",      \* saves qube_metadata.json
         "key",       \* saves encryption_key.enc
         "delete",    \* removes the pending file
         "finish",    \* done; the rest of the registration runs in the background
         "over"}

TypeOK ==
  /\ prepared \in BOOLEAN /\ pendingMint \in BOOLEAN /\ metadata \in BOOLEAN
  /\ {stateKey, storedKey} \subseteq Attempt \cup {NoKey}
  /\ step \in [Attempt -> Step] /\ overlapped \subseteq Attempt

Running(f) == step[f] \notin {"new", "over"}

files == <<pendingMint, stateKey, storedKey, metadata>>

Init ==
  /\ prepared = FALSE /\ pendingMint = FALSE /\ metadata = FALSE
  /\ stateKey = NoKey /\ storedKey = NoKey
  /\ step = [f \in Attempt |-> "new"] /\ overlapped = {}

Goes(f, from, to) == step[f] = from /\ step' = [step EXCEPT ![f] = to]

-----------------------------------------------------------------------------
\* prepare_qube_mint: the keys are saved before the wallet gets the transaction.
Prepare ==
  /\ ~prepared
  /\ prepared' = TRUE /\ pendingMint' = TRUE
  /\ UNCHANGED <<stateKey, storedKey, metadata, step, overlapped>>

\* finalize_qube_mint loads the pending mint and derives the address.
Begin(f) ==
  LET others == {g \in Attempt \ {f} : Running(g)} IN
  /\ pendingMint /\ Goes(f, "new", "derive")
  /\ overlapped' = IF others = {} THEN overlapped ELSE overlapped \cup others \cup {f}
  /\ UNCHANGED <<prepared, files>>

\* Mutant of Derived: the pending file is removed as soon as it has been used.
DerivedAndDeleted(f) ==
  /\ Goes(f, "derive", "clean")
  /\ pendingMint' = FALSE
  /\ UNCHANGED <<prepared, stateKey, storedKey, metadata, overlapped>>

Derived(f) ==
  /\ Goes(f, "derive", "clean")
  /\ UNCHANGED <<prepared, files, overlapped>>

\* A chain state that is there is encrypted with a lost key.
Clean(f) ==
  /\ Goes(f, "clean", "create")
  /\ stateKey' = NoKey
  /\ UNCHANGED <<prepared, pendingMint, storedKey, metadata, overlapped>>

\* The Qube is made with a new encryption key: a chain state that another attempt
\* has written meanwhile cannot be read, and the attempt fails.
Create(f) ==
  /\ \/ stateKey = NoKey /\ Goes(f, "create", "save") /\ stateKey' = f
     \/ stateKey # NoKey /\ Goes(f, "create", "over") /\ UNCHANGED stateKey
  /\ UNCHANGED <<prepared, pendingMint, storedKey, metadata, overlapped>>

\* _save_qube: the private key, and then the encryption key.
SaveMetadata(f) ==
  /\ Goes(f, "save", "key")
  /\ metadata' = TRUE
  /\ UNCHANGED <<prepared, pendingMint, stateKey, storedKey, overlapped>>

SaveKey(f) ==
  /\ Goes(f, "key", "delete")
  /\ storedKey' = f
  /\ UNCHANGED <<prepared, pendingMint, stateKey, metadata, overlapped>>

\* The pending file goes when the Qube is saved.
Delete(f) ==
  /\ Goes(f, "delete", "finish")
  /\ pendingMint' = FALSE
  /\ UNCHANGED <<prepared, stateKey, storedKey, metadata, overlapped>>

\* In the background the metadata of the token are published, and the Qube is saved
\* again, with the key that this attempt has made.
Background(f) ==
  /\ Goes(f, "finish", "over")
  /\ metadata' = TRUE /\ storedKey' = f
  /\ UNCHANGED <<prepared, pendingMint, stateKey, overlapped>>

\* The address cannot be derived in time, the process is killed, or the background
\* task fails.
Die(f) ==
  /\ Running(f)
  /\ step' = [step EXCEPT ![f] = "over"]
  /\ UNCHANGED <<prepared, files, overlapped>>

Next ==
  \/ Prepare
  \/ \E f \in Attempt :
       \/ Begin(f) \/ Derived(f) \/ Clean(f) \/ Create(f) \/ SaveMetadata(f)
       \/ SaveKey(f) \/ Delete(f) \/ Background(f) \/ Die(f)

Spec == Init /\ [][Next]_vars

-----------------------------------------------------------------------------
(* Properties *)

\* From the moment the wallet has the transaction, the private key of the Qube is
\* in a file, however many attempts are killed or overlap.
KeyInFile == prepared => pendingMint \/ metadata

\* When the pending file is gone, the chain state can be read with the key that is
\* stored, after any number of attempts that were killed, unless attempts overlapped.
StateReadable ==
  prepared /\ ~pendingMint /\ overlapped = {} => stateKey = storedKey /\ storedKey # NoKey

\* A Qube that was paid for is not lost: its private key is in a file, and what the
\* finalization has stored can be read.
MintKept == KeyInFile /\ StateReadable

=============================================================================
