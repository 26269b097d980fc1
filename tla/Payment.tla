------------------------------ MODULE Payment -------------------------------
(***************************************************************************)
(* What a payment from the wallet of a Qube promises, whatever becomes of  *)
(* the books that the program keeps about it: the owner's signature comes  *)
(* before the money moves and not after the proposal has run out, a coin   *)
(* goes to one payment only, and what is paid stays paid.                  *)
(***************************************************************************)
CONSTANTS
  Tx,     \* payments
  Coin,   \* unspent outputs of the wallet
  NoTx    \* the payment of an unspent coin

VARIABLES
  status,   \* status[t]: how far payment t has come
  due,      \* payments whose time for approval is over
  spentBy   \* spentBy[c]: the payment that coin c went to

vars == <<status, due, spentBy>>

Init ==
  /\ status = [t \in Tx |-> "none"] /\ due = {}
  /\ spentBy = [c \in Coin |-> NoTx]

\* The Qube signs a payment and asks its owner for the second signature.
Propose(t) ==
  /\ status[t] = "none" /\ status' = [status EXCEPT ![t] = "proposed"]
  /\ UNCHANGED <<due, spentBy>>

Lapse(t) ==
  /\ due' = due \cup {t}
  /\ UNCHANGED <<status, spentBy>>

\* The owner signs: a proposal that is not due, or a payment of his own.
Authorise(t) ==
  /\ status[t] \in {"none", "proposed"} /\ t \notin due
  /\ status' = [status EXCEPT ![t] = "authorised"]
  /\ UNCHANGED <<due, spentBy>>

Settle(t, c) ==
  /\ status[t] = "authorised" /\ spentBy[c] = NoTx
  /\ status' = [status EXCEPT ![t] = "paid"]
  /\ spentBy' = [spentBy EXCEPT ![c] = t]
  /\ UNCHANGED due

Next == \E t \in Tx : Propose(t) \/ Lapse(t) \/ Authorise(t) \/ \E c \in Coin : Settle(t, c)

Spec == Init /\ [][Next]_vars

=============================================================================
