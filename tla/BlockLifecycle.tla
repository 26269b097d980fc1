--------------------------- MODULE BlockLifecycle ---------------------------
(***************************************************************************)
(* What becomes of the blocks of a conversation.  A recorded block stays   *)
(* open until it either enters the permanent memory, once and in the order *)
(* of time, or is dropped by the user (deleted, or discarded with its      *)
(* session) and is never seen again.                                       *)
(***************************************************************************)
EXTENDS Naturals, Sequences

CONSTANTS
  Block,   \* blocks that may be recorded
  TimeOf   \* TimeOf[b]: the second in which block b was created

VARIABLES
  unborn,   \* blocks not recorded yet
  open,     \* blocks recorded and neither anchored nor dropped
  anchored  \* blocks of the permanent memory, in its order

vars == <<unborn, open, anchored>>

Init ==
  /\ unborn = Block
  /\ open = {}
  /\ anchored = <<>>

Record(b) ==
  /\ b \in unborn
  /\ unborn' = unborn \ {b}
  /\ open' = open \cup {b}
  /\ UNCHANGED anchored

Anchor(b) ==
  /\ b \in open
  /\ \A i \in DOMAIN anchored : TimeOf[anchored[i]] <= TimeOf[b]
  /\ open' = open \ {b}
  /\ anchored' = Append(anchored, b)
  /\ UNCHANGED unborn

Drop(B) ==
  /\ open' = open \ B
  /\ UNCHANGED <<unborn, anchored>>

Next ==
  \/ \E b \in Block : Record(b) \/ Anchor(b)
  \/ \E B \in SUBSET Block : Drop(B)

Spec == Init /\ [][Next]_vars

=============================================================================
