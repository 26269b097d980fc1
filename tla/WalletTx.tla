------------------------------ MODULE WalletTx ------------------------------
(***************************************************************************)
(* The payments of a Qube.  The Qube proposes a payment and signs it, the  *)
(* owner adds the second signature or rejects it; payments to whitelisted  *)
(* addresses and withdrawals need no proposal.  Every process has a        *)
(* manager with a table of pending payments and a copy of the chain state, *)
(* in which the pending list and the history of payments are kept.         *)
(*                                                                         *)
(* A manager runs as tasks of one event loop: what happens between two     *)
(* awaits is one step.  The awaits that matter are those on the network.   *)
(* A payment spends one coin; amounts, fees and balances are left out, and *)
(* so is the cap of 50 on the history.                                     *)
(***************************************************************************)
EXTENDS Naturals, FiniteSets

CONSTANTS
  Manager,     \* processes with a WalletTransactionManager
  Tx,          \* payments
  Coin,        \* unspent outputs of the wallet at the start
  NoCoin,      \* the input of a payment that does not exist yet
  NoTx,        \* no payment
  MaxCrashes   \* bound: crashes of processes

WalletTxAssumption == NoCoin \notin Coin /\ NoTx \notin Tx /\ MaxCrashes \in Nat

VARIABLES
  \* The wallet and the network:
  input,      \* input[t]: the coin that payment t spends
  unspent,    \* coins that are unspent
  sent,       \* payments on their way to the network
  paid,       \* payments the network has accepted
  due,        \* payments past their expires_at
  \* The document:
  pending,    \* pending[t]: the status of t in financial.pending
  recorded,   \* payments in financial.transactions.history
  \* The processes:
  copy,       \* copy[m]: pending and recorded in the chain state in memory
  table,      \* table[m]: _pending_txs, the status of each payment
  calls,      \* calls that await the network
  crashes,
  \* History:
  asked,      \* payments that have ever been handed to the network
  unheard,    \* payments whose call ended without the answer of the network
  rejected,   \* payments the owner has rejected
  contested,  \* of these, those that were on their way or known to another process
  stray,      \* payments that a table still had as pending when they were settled
  clean       \* no chain state was saved from a copy that differed from the file

network == <<unspent, sent, paid>>
books == <<pending, recorded, copy, table>>
vars == <<input, unspent, sent, paid, due, pending, recorded, copy, table, calls,
          crashes, asked, unheard, rejected, contested, stray, clean>>

\* The statuses "approved" and "rejected" of PendingTx are never set.
Status == {"pending", "expired", "broadcast"}
Table == [Tx -> Status \cup {"none"}]
\* A call and the kind of it; held: the object it works on is the one in the table.
Call == [m : Manager, t : Tx, auto : BOOLEAN, held : BOOLEAN]

TypeOK ==
  /\ input \in [Tx -> Coin \cup {NoCoin}] /\ unspent \subseteq Coin
  /\ sent \subseteq Tx /\ paid \subseteq Tx /\ due \subseteq Tx
  /\ pending \in Table /\ recorded \subseteq Tx
  /\ copy \in [Manager -> [pending : Table, recorded : SUBSET Tx]]
  /\ table \in [Manager -> Table] /\ calls \subseteq Call
  /\ crashes \in 0 .. MaxCrashes
  /\ asked \subseteq Tx /\ unheard \subseteq Tx /\ stray \subseteq Tx
  /\ rejected \subseteq Tx /\ contested \subseteq rejected /\ clean \in BOOLEAN

-----------------------------------------------------------------------------
(* The books *)

\* The pending list of the file, with what the manager has in memory over it.
MergedPending(tbl) == [t \in Tx |-> IF tbl[t] # "none" THEN tbl[t] ELSE pending[t]]

\* The chain state of m is saved with list and hist in it.
SaveState(m, list, hist) ==
  /\ pending' = list /\ recorded' = hist
  /\ copy' = [copy EXCEPT ![m] = [pending |-> list, recorded |-> hist]]

\* Fresh objects replace those in the table of m: a call keeps the old one.
LetGo(C, m) == {[k EXCEPT !.held = @ /\ k.m # m] : k \in C}

\* _save_pending_transactions, when the table of m has become tbl.
SavePending(m, tbl) ==
  /\ SaveState(m, MergedPending(tbl), recorded)
  /\ table' = [table EXCEPT ![m] = MergedPending(tbl)]

-----------------------------------------------------------------------------
(* Proposals *)

Init ==
  /\ input = [t \in Tx |-> NoCoin] /\ unspent = Coin
  /\ sent = {} /\ paid = {} /\ due = {}
  /\ pending = [t \in Tx |-> "none"] /\ recorded = {}
  /\ copy = [m \in Manager |-> [pending |-> pending, recorded |-> {}]]
  /\ table = [m \in Manager |-> pending] /\ calls = {} /\ crashes = 0
  /\ asked = {} /\ unheard = {} /\ stray = {}
  /\ rejected = {} /\ contested = {} /\ clean = TRUE

\* A new payment t of m that spends a coin the network reports as unspent.
Proposed(m, t, c) ==
  /\ input[t] = NoCoin /\ c \in unspent
  /\ input' = [input EXCEPT ![t] = c]
  /\ SavePending(m, [table[m] EXCEPT ![t] = "pending"])

\* propose_send, when the unspent outputs are known.
Propose(m, t, c) ==
  /\ Proposed(m, t, c)
  /\ calls' = LetGo(calls, m)
  /\ UNCHANGED <<network, due, crashes, asked, unheard, rejected, contested, stray, clean>>

\* The time of a proposal runs out.
Expire(t) ==
  /\ input[t] # NoCoin /\ t \notin due
  /\ due' = due \cup {t}
  /\ UNCHANGED <<input, network, books, calls, crashes, asked, unheard, rejected, contested, stray, clean>>

\* get_pending_transactions marks the expired ones and saves if there are any.
ExpireOld(m) ==
  LET old == {t \in due : table[m][t] = "pending"} IN
  /\ old # {}
  /\ SavePending(m, [t \in Tx |-> IF t \in old THEN "expired" ELSE table[m][t]])
  /\ calls' = LetGo(calls, m)
  /\ UNCHANGED <<input, network, due, crashes, asked, unheard, rejected, contested, stray, clean>>

\* Mutant of Rejected: the table is saved as by any other operation.
RejectedInTable(m, t) == MergedPending([table[m] EXCEPT ![t] = "none"])

\* _remove_pending_transaction: what is left of the list in the file.
Rejected(m, t) == [pending EXCEPT ![t] = "none"]

\* owner_reject: whatever its status, the payment is removed from the table and
\* from the list of the file as it is now.  A call that works on it keeps its object.
Reject(m, t) ==
  /\ table[m][t] # "none"
  /\ calls' = {[k EXCEPT !.held = @ /\ ~(k.m = m /\ k.t = t)] : k \in calls}
  /\ table' = [table EXCEPT ![m][t] = "none"]
  /\ SaveState(m, Rejected(m, t), recorded)
  /\ rejected' = rejected \cup {t}
  /\ contested' = IF \/ t \in asked
                     \/ \E n \in Manager \ {m} : table[n][t] # "none" \/ copy[n].pending[t] # "none"
                  THEN contested \cup {t} ELSE contested
  /\ UNCHANGED <<input, network, due, crashes, asked, unheard, stray, clean>>

-----------------------------------------------------------------------------
(* Payments *)

\* A call of m that hands t to the network.
Ask(m, t, auto) ==
  /\ calls' = LetGo(calls, m) \cup {[m |-> m, t |-> t, auto |-> auto, held |-> ~auto]}
  /\ sent' = sent \cup {t} /\ asked' = asked \cup {t}

\* Mutant of Approve: the time of the proposal is not looked at.
ApproveLate(m, t) ==
  /\ pending[t] = "pending"
  /\ Ask(m, t, FALSE)
  /\ table' = [table EXCEPT ![m] = pending]
  /\ copy' = [copy EXCEPT ![m] = [pending |-> pending, recorded |-> recorded]]
  /\ UNCHANGED <<input, unspent, paid, due, pending, recorded, crashes, unheard, rejected, contested, stray, clean>>

\* approve_wallet_transaction: the table is read anew from the file.  A proposal
\* that is still pending and not expired is signed and handed to the network.
Approve(m, t) ==
  /\ pending[t] = "pending"
  /\ \/ /\ t \notin due
        /\ Ask(m, t, FALSE)
        /\ table' = [table EXCEPT ![m] = pending]
        /\ copy' = [copy EXCEPT ![m] = [pending |-> pending, recorded |-> recorded]]
        /\ UNCHANGED <<pending, recorded>>
     \/ /\ t \in due
        /\ SaveState(m, [pending EXCEPT ![t] = "expired"], recorded)
        /\ table' = [table EXCEPT ![m] = pending']
        /\ calls' = LetGo(calls, m)
        /\ UNCHANGED <<sent, asked>>
  /\ UNCHANGED <<input, unspent, paid, due, crashes, unheard, rejected, contested, stray, clean>>

\* auto_send to a whitelisted address, or a withdrawal by the owner.
AutoSend(m, t, c) ==
  /\ input[t] = NoCoin /\ c \in unspent
  /\ input' = [input EXCEPT ![t] = c]
  /\ calls' = calls \cup {[m |-> m, t |-> t, auto |-> TRUE, held |-> FALSE]}
  /\ sent' = sent \cup {t} /\ asked' = asked \cup {t}
  /\ UNCHANGED <<unspent, paid, due, books, crashes, unheard, rejected, contested, stray, clean>>

\* The network gets a payment and accepts it if its coin is unspent.
Accept(t) ==
  /\ t \in sent /\ sent' = sent \ {t}
  /\ IF input[t] \in unspent
     THEN unspent' = unspent \ {input[t]} /\ paid' = paid \cup {t}
     ELSE UNCHANGED <<unspent, paid>>
  /\ UNCHANGED <<input, due, books, calls, crashes, asked, unheard, rejected, contested, stray, clean>>

\* Mutant of Reloaded: the history in memory is extended.
ReloadedNot(m) == copy[m].recorded

\* The history that an approval extends: _save_pending_transactions has loaded the file.
Reloaded(m) == recorded

\* The rest of owner_approve and of its caller: the status is set on the object
\* of the call, the table is saved, the payment added to the history and taken
\* off the pending list of the document, though not out of the table.
Approved(k) ==
  LET tbl == IF k.held THEN [table[k.m] EXCEPT ![k.t] = "broadcast"] ELSE table[k.m] IN
  /\ k \in calls /\ ~k.auto /\ k.t \in paid
  /\ SaveState(k.m, [MergedPending(tbl) EXCEPT ![k.t] = "none"], Reloaded(k.m) \cup {k.t})
  /\ table' = [table EXCEPT ![k.m] = MergedPending(tbl)]
  /\ calls' = LetGo(calls \ {k}, k.m)
  /\ stray' = IF \/ table'[k.m][k.t] = "pending"
                 \/ \E n \in Manager \ {k.m} : "pending" \in {table[n][k.t], copy[n].pending[k.t]}
              THEN stray \cup {k.t} ELSE stray
  /\ UNCHANGED <<input, network, due, crashes, asked, unheard, rejected, contested, clean>>

\* The rest of auto_send: the history is extended in the copy in memory.
AutoSent(k) ==
  LET old == copy[k.m] IN
  /\ k \in calls /\ k.auto /\ k.t \in paid
  /\ SaveState(k.m, old.pending, old.recorded \cup {k.t})
  /\ calls' = calls \ {k}
  /\ clean' = (clean /\ old = [pending |-> pending, recorded |-> recorded])
  /\ UNCHANGED <<input, network, due, table, crashes, asked, unheard, rejected, contested, stray>>

\* The network refuses, cannot be reached, or its answer is lost.
Unheard(k) ==
  /\ k \in calls
  /\ unheard' = unheard \cup {k.t}

\* A failed approval leaves the proposal as it is.
ApproveFailed(k) ==
  /\ Unheard(k) /\ ~k.auto
  /\ calls' = calls \ {k}
  /\ UNCHANGED <<input, network, due, books, crashes, asked, rejected, contested, stray, clean>>

\* After a failed automatic payment the tool proposes the same payment anew.
AutoFailed(k, u, c) ==
  /\ Unheard(k) /\ k.auto
  /\ Proposed(k.m, u, c)
  /\ calls' = LetGo(calls \ {k}, k.m)
  /\ UNCHANGED <<network, due, crashes, asked, rejected, contested, stray, clean>>

-----------------------------------------------------------------------------
(* Processes *)

\* Another part of the backend changes the chain state of m and saves it all.
OtherSave(m) ==
  /\ copy[m] # [pending |-> pending, recorded |-> recorded]
  /\ SaveState(m, copy[m].pending, copy[m].recorded)
  /\ clean' = FALSE
  /\ UNCHANGED <<input, network, due, table, calls, crashes, asked, unheard, rejected, contested, stray>>

\* A getter finds the file newer and loads it into the chain state of m.
Refresh(m) ==
  /\ copy[m] # [pending |-> pending, recorded |-> recorded]
  /\ copy' = [copy EXCEPT ![m] = [pending |-> pending, recorded |-> recorded]]
  /\ UNCHANGED <<input, network, due, pending, recorded, table, calls, crashes, asked, unheard, rejected, contested, stray, clean>>

\* The process dies and starts again: its calls are gone, its table is loaded.
Restart(m) ==
  /\ crashes < MaxCrashes /\ crashes' = crashes + 1
  /\ calls' = {k \in calls : k.m # m}
  /\ unheard' = unheard \cup {k.t : k \in {j \in calls : j.m = m}}
  /\ copy' = [copy EXCEPT ![m] = [pending |-> pending, recorded |-> recorded]]
  /\ table' = [table EXCEPT ![m] = pending]
  /\ UNCHANGED <<input, network, due, pending, recorded, asked, rejected, contested, stray, clean>>

Next ==
  \/ \E t \in Tx : Expire(t) \/ Accept(t)
  \/ \E m \in Manager :
       \/ ExpireOld(m) \/ OtherSave(m) \/ Refresh(m) \/ Restart(m)
       \/ \E t \in Tx : Reject(m, t) \/ Approve(m, t)
       \/ \E t \in Tx, c \in Coin : Propose(m, t, c) \/ AutoSend(m, t, c)
  \/ \E k \in calls :
       \/ Approved(k) \/ AutoSent(k) \/ ApproveFailed(k)
       \/ \E u \in Tx, c \in Coin : AutoFailed(k, u, c)

Spec == Init /\ [][Next]_vars

-----------------------------------------------------------------------------
(* Properties *)

\* How far payment t has come, as Payment has it, and what coin c went to.
StatusOf(t) ==
  CASE t \in paid -> "paid"
    [] t \in asked \ paid -> "authorised"
    [] t \notin asked /\ input[t] # NoCoin -> "proposed"
    [] OTHER -> "none"

SpentOn(c) ==
  IF \E t \in paid : input[t] = c THEN CHOOSE t \in paid : input[t] = c ELSE NoTx

\* Whatever the state of the books, money moves as Payment allows it.
P == INSTANCE Payment WITH
       status <- [t \in Tx |-> StatusOf(t)], spentBy <- [c \in Coin |-> SpentOn(c)]
ImplementsPayment == P!Spec

\* A rejection is final, if the payment was not on its way to the network and
\* no other process had it in its table or in its copy of the chain state: it
\* is never paid and no save of any process brings it back.
RejectionFinal ==
  \A t \in rejected \ contested : t \notin paid /\ pending[t] = "none"

\* A payment whose answer arrived is in the history, as long as no process has
\* saved a chain state older than the file.
PaidRecorded ==
  clean => \A t \in paid : t \in recorded \/ t \in unheard \/ \E k \in calls : k.t = t

\* A payment that was made and answered is not offered for approval again, by
\* any later save of any process, unless a table or a copy still had it as
\* pending at that moment: because the table was replaced while the call waited,
\* or because another process had it.
NotOfferedAgain ==
  \A t \in paid :
    pending[t] = "pending" => t \in unheard \cup stray \/ \E k \in calls : k.t = t

=============================================================================
