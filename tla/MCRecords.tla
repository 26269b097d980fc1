---------------------------- MODULE MCRecords ----------------------------
(***************************************************************************)
(* Small instances of the two records that several processes keep for a    *)
(* Qube: the chain state and the books of its wallet.  Each is checked     *)
(* alone: the component that runs is chosen at the beginning, and the      *)
(* other stays in its initial state.                                       *)
(***************************************************************************)
EXTENDS Naturals, FiniteSets, Sequences, TLC

CONSTANTS
  Actor,   \* processes that load the Qube, managers of its wallet
  Thing,   \* messages, payments
  Coin, Change, NoSnapshot, NoCoin, NoTx,
  MaxSent, MaxOpens, MaxFailures, MaxCrashes

VARIABLES
  component,  \* the component that runs
  \* ChainState:
  disk, up, mem, flag, held, pc, batch, live, blocks, files, opens, failures, clean,
  settled, anchored, loose, missed, committed, recovered,
  \* WalletTx:
  input, unspent, sent, paid, due, pending, recorded, copy, table, calls, crashes, asked,
  unheard, rejected, contested, stray, booksClean

S == INSTANCE ChainState WITH Proc <- Actor, Message <- Thing
W == INSTANCE WalletTx WITH
       clean <- booksClean, Manager <- Actor, Tx <- Thing

ASSUME RecordsAssumption ==
  /\ S!ChainStateAssumption
  /\ W!WalletTxAssumption

chainStateVars == <<disk, up, mem, flag, held, pc, batch, live, blocks, files, opens,
                    failures, clean, settled, anchored, loose, missed, committed, recovered>>
walletTxVars == <<input, unspent, sent, paid, due, pending, recorded, copy, table, calls,
                  crashes, asked, unheard, rejected, contested, stray, booksClean>>
vars == <<component, chainStateVars, walletTxVars>>

Init ==
  /\ component \in {"ChainState", "WalletTx"}
  /\ S!Init /\ W!Init

Next ==
  /\ UNCHANGED component
  /\ \/ component = "ChainState" /\ S!Next
        /\ UNCHANGED <<walletTxVars>>
     \/ component = "WalletTx" /\ W!Next
        /\ UNCHANGED <<chainStateVars>>

Spec == Init /\ [][Next]_vars

-----------------------------------------------------------------------------
(* The instances are explored only ... *)

\* ... from states of the chain state in which nothing was saved from a stale copy,
\* and with a save that fails only if one process has loaded it;
ChainStateBound == clean /\ (failures = 0 \/ opens <= 1)

\* ... with a second payment only while one manager knows nothing of any, or while no process
\* has crashed, no proposal has run out, no call has failed and nothing is rejected.
WalletTxBound ==
  LET empty == [t \in Thing |-> "none"]
      untouched(m) == /\ table[m] = empty /\ copy[m] = [pending |-> empty, recorded |-> {}]
                      /\ \A k \in calls : k.m # m
  IN  /\ booksClean
      /\ \/ Cardinality({t \in Thing : input[t] # NoCoin}) <= 1
         \/ \E m \in Actor : untouched(m)
         \/ crashes = 0 /\ due = {} /\ unheard = {} /\ rejected = {}

Bound ==
  /\ component = "ChainState" => ChainStateBound
  /\ component = "WalletTx" => WalletTxBound

Symmetry == Permutations(Actor) \cup Permutations(Thing) \cup Permutations(Coin)

-----------------------------------------------------------------------------
(* The properties of the components *)

\* All variables have values of their types.
TypeOK ==
  /\ component = "ChainState" => S!TypeOK
  /\ component = "WalletTx" => W!TypeOK

\* The GUI and the backend do not overwrite each other, whatever the age of
\* their copies: only a change of the setting by the GUI changes the setting in
\* the file, and that changes nothing that the backend counts or learns.
NoCrossOverwrite == [][component = "ChainState" => S!NoCrossOverwriteStep]_vars

\* The count in the document is that of the messages counted when they were
\* sent or by a commit.  A message that is anchored is not left out, unless its
\* commit was prevented or it was sent while a commit was awaited; and it is
\* counted twice only if it was sent outside of a staged session, after the first
\* anchor of the conversation, and then loaded from the files by a process.
MessagesCounted == component = "ChainState" => S!MessagesCounted

\* A discard by a process with the staged session leaves the work exactly as it
\* was before the session, also after a crash in the session and its recovery,
\* unless blocks became permanent whose commit did not come.
DiscardRestores == [][component = "ChainState" => S!DiscardRestoresStep]_vars

\* Whatever the state of the books, money moves as Payment allows it.
ImplementsPayment == W!P!Init /\ [][component = "WalletTx" => [W!P!Next]_(W!P!vars)]_vars

\* A rejection is final, if the payment was not on its way to the network and
\* no other process had it in its table or in its copy of the chain state: it
\* is never paid and no save of any process brings it back.
RejectionFinal == component = "WalletTx" => W!RejectionFinal

\* A payment whose answer arrived is in the history, as long as no process has
\* saved a chain state older than the file; and it is not offered for approval
\* again by any later save of any process, unless a table or a copy still had it as
\* pending at that moment: because the table was replaced while the call waited,
\* or because another process had it.
PaidRecorded == component = "WalletTx" => W!PaidRecorded /\ W!NotOfferedAgain

=============================================================================
