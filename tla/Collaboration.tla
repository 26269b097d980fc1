--------------------------- MODULE Collaboration ---------------------------
(***************************************************************************)
(* A collaborative memory: a block that is complete when all participants  *)
(* have signed it.  Each manager (CollaborativeSession) has its own copy,  *)
(* read from the file when the manager is made, and writes its copy in     *)
(* place; a process that dies while it writes leaves a file that the next  *)
(* managers skip.                                                          *)
(***************************************************************************)
EXTENDS FiniteSets, Naturals

CONSTANTS
  Participant,
  Manager,
  NoBlock, Torn   \* no block; a file that cannot be read

Status == {"draft", "partially_signed", "complete", "rejected"}
Block == [signatures : SUBSET Participant, rejections : SUBSET Participant, status : Status]

CollaborationAssumption ==
  /\ IsFiniteSet(Participant) /\ Participant # {}
  /\ NoBlock # Torn /\ NoBlock \notin Block /\ Torn \notin Block

VARIABLES
  file,      \* {block_id}.json
  copy,      \* copy[m]: the block in active_sessions of m
  old,       \* the block is older than the limit of the cleanup
  \* History:
  accepted,  \* participants whose signature was accepted and saved
  spoiled    \* a save was made from a copy unlike the file, or was torn

vars == <<file, copy, old, accepted, spoiled>>

IsBlock(b) == b \notin {NoBlock, Torn}

TypeOK ==
  /\ file \in Block \cup {NoBlock, Torn}
  /\ copy \in [Manager -> Block \cup {NoBlock}]
  /\ old \in BOOLEAN /\ accepted \subseteq Participant /\ spoiled \in BOOLEAN

Init ==
  /\ file = NoBlock /\ copy = [m \in Manager |-> NoBlock]
  /\ old = FALSE /\ accepted = {} /\ spoiled = FALSE

-----------------------------------------------------------------------------
\* _update_status: by the number of signatures, whatever the status was.
SignedStatus(signatures) ==
  CASE signatures = {} -> "draft"
    [] Cardinality(signatures) < Cardinality(Participant) -> "partially_signed"
    [] OTHER -> "complete"

Signed(b, p) ==
  LET signatures == b.signatures \cup {p}
  IN  [b EXCEPT !.signatures = signatures, !.status = SignedStatus(signatures)]

Rejected(b, p) == [b EXCEPT !.rejections = @ \cup {p}, !.status = "rejected"]

Saved(m, b) ==
  /\ file' = b /\ copy' = [copy EXCEPT ![m] = b]
  /\ spoiled' = (spoiled \/ copy[m] # file)

\* The process of m dies while it writes.
Tear(m) ==
  /\ file' = Torn /\ copy' = [copy EXCEPT ![m] = NoBlock] /\ spoiled' = TRUE

-----------------------------------------------------------------------------
New == [signatures |-> {}, rejections |-> {}, status |-> "draft"]

\* create_collaborative_memory: the new block is saved and then signed by the initiator.
Create(m, p) ==
  /\ file = NoBlock /\ accepted = {} /\ \A n \in Manager : copy[n] = NoBlock
  /\ Saved(m, Signed(New, p)) /\ accepted' = {p} /\ old' = FALSE

\* The process dies between the two saves.
CreateUnsigned ==
  /\ file = NoBlock /\ accepted = {} /\ \A n \in Manager : copy[n] = NoBlock
  /\ file' = New /\ old' = FALSE
  /\ UNCHANGED <<copy, accepted, spoiled>>

\* add_signature, by a participant; it may sign again.
Sign(m, p) ==
  /\ copy[m] # NoBlock
  /\ Saved(m, Signed(copy[m], p))
  /\ accepted' = accepted \cup {p}
  /\ UNCHANGED old

\* reject_session
Reject(m, p) ==
  /\ copy[m] # NoBlock
  /\ Saved(m, Rejected(copy[m], p))
  /\ UNCHANGED <<old, accepted>>

Die(m) ==
  /\ copy[m] # NoBlock
  /\ \/ Tear(m)
     \/ copy' = [copy EXCEPT ![m] = NoBlock] /\ UNCHANGED <<file, spoiled>>
  /\ UNCHANGED <<old, accepted>>

Load(m) ==
  /\ copy[m] = NoBlock /\ IsBlock(file)
  /\ copy' = [copy EXCEPT ![m] = file]
  /\ UNCHANGED <<file, old, accepted, spoiled>>

Age ==
  /\ file # NoBlock /\ ~old /\ old' = TRUE
  /\ UNCHANGED <<file, copy, accepted, spoiled>>

\* Mutant of Removable: completed sessions are cleaned up as well.
AllRemovable(b) == old

Removable(b) == old /\ b.status \in {"rejected", "draft"}

\* cleanup_old_sessions
Cleanup(m) ==
  /\ copy[m] # NoBlock /\ Removable(copy[m])
  /\ copy' = [copy EXCEPT ![m] = NoBlock] /\ file' = NoBlock
  /\ spoiled' = (spoiled \/ copy[m] # file)
  /\ UNCHANGED <<old, accepted>>

Next ==
  \/ CreateUnsigned \/ Age
  \/ \E m \in Manager :
       \/ \E p \in Participant : Create(m, p) \/ Sign(m, p) \/ Reject(m, p)
       \/ Load(m) \/ Die(m) \/ Cleanup(m)

Spec == Init /\ [][Next]_vars

-----------------------------------------------------------------------------
(* Properties *)

\* Wherever a block is kept, complete means that all participants have signed it;
\* and a block all have signed is complete, unless someone has rejected it.
CompleteWhenAllSigned ==
  \A b \in {file} \cup {copy[m] : m \in Manager} : IsBlock(b) =>
    /\ b.status = "complete" => b.signatures = Participant
    /\ b.signatures = Participant /\ b.rejections = {} => b.status = "complete"

\* No signature is lost on the way, however the managers that collect them
\* come and go, as long as each saves from a copy like the file: the file has
\* exactly the signatures that were accepted.
SignaturesKept == IsBlock(file) /\ ~spoiled => file.signatures = accepted

\* A block that all have signed does not disappear: it ends only by a
\* rejection, or by a manager whose copy is older than the last signature.
CompletedStaysStep ==
  IsBlock(file) /\ file.status = "complete" /\ ~spoiled' =>
    IsBlock(file') /\ file'.signatures = Participant

=============================================================================
