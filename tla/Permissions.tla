---------------------------- MODULE Permissions ----------------------------
(***************************************************************************)
(* Permissions to read blocks of a Qube.  They are all in one file, which  *)
(* each manager reads when it is made and writes as a whole and in place.  *)
(* A file that cannot be read counts as empty.                             *)
(***************************************************************************)
CONSTANTS
  Permission,
  Manager,
  Torn

Table == [granted : SUBSET Permission, revoked : SUBSET Permission]

PermissionsAssumption == Torn \notin Table

VARIABLES
  file,      \* shared_permissions.json
  table,     \* table[m]: the permissions of m, if it is in "up"
  up,
  expired,   \* permissions past their date
  \* History:
  given,     \* permissions that were created
  revoked,   \* permissions whose revocation was answered
  spoiled    \* a save was made from a table unlike the file, or was torn

vars == <<file, table, up, expired, given, revoked, spoiled>>

Empty == [granted |-> {}, revoked |-> {}]

TypeOK ==
  /\ file \in Table \cup {Torn} /\ (file # Torn => file.revoked \subseteq file.granted)
  /\ table \in [Manager -> Table] /\ up \subseteq Manager
  /\ expired \subseteq given /\ given \subseteq Permission /\ revoked \subseteq given
  /\ spoiled \in BOOLEAN

Init ==
  /\ file = Empty /\ table = [m \in Manager |-> Empty] /\ up = {}
  /\ expired = {} /\ given = {} /\ revoked = {} /\ spoiled = FALSE

\* is_valid, for a table
Valid(t) == (t.granted \ t.revoked) \ expired

\* save_permissions
Saved(m, t) ==
  /\ file' = t /\ table' = [table EXCEPT ![m] = t]
  /\ spoiled' = (spoiled \/ table[m] # file)

-----------------------------------------------------------------------------
\* create_permission
Grant(m, p) ==
  /\ m \in up /\ p \notin given
  /\ Saved(m, [table[m] EXCEPT !.granted = @ \cup {p}])
  /\ given' = given \cup {p}
  /\ UNCHANGED <<up, expired, revoked>>

\* revoke_permission; of a permission it does not know, nothing happens.
Revoke(m, p) ==
  /\ m \in up /\ p \in table[m].granted
  /\ Saved(m, [table[m] EXCEPT !.revoked = @ \cup {p}])
  /\ revoked' = revoked \cup {p}
  /\ UNCHANGED <<up, expired, given>>

Expire(p) ==
  /\ p \in given
  /\ expired' = expired \cup {p}
  /\ UNCHANGED <<file, table, up, given, revoked, spoiled>>

\* What cleanup_expired_permissions leaves.
Kept(t) == {p \in t.granted : p \notin expired \/ p \notin t.revoked}

Cleaned(t) == [granted |-> Kept(t), revoked |-> t.revoked \cap Kept(t)]

Cleanup(m) ==
  /\ m \in up /\ Kept(table[m]) # table[m].granted
  /\ Saved(m, Cleaned(table[m]))
  /\ UNCHANGED <<up, expired, given, revoked>>

Load(m) ==
  /\ m \notin up /\ up' = up \cup {m}
  /\ table' = [table EXCEPT ![m] = IF file = Torn THEN Empty ELSE file]
  /\ UNCHANGED <<file, expired, given, revoked, spoiled>>

\* The process ends, perhaps while it writes the file.
Die(m) ==
  /\ m \in up /\ up' = up \ {m}
  /\ table' = [table EXCEPT ![m] = Empty]
  /\ \/ UNCHANGED <<file, spoiled>>
     \/ file' = Torn /\ spoiled' = TRUE
  /\ UNCHANGED <<expired, given, revoked>>

Next ==
  \/ \E p \in Permission : Expire(p)
  \/ \E m \in Manager :
       \/ \E p \in Permission : Grant(m, p) \/ Revoke(m, p)
       \/ Cleanup(m) \/ Load(m) \/ Die(m)

Spec == Init /\ [][Next]_vars

-----------------------------------------------------------------------------
(* Properties *)

\* What the file allows is what was granted and neither revoked nor expired, however
\* many managers have come, gone and cleaned up, as long as every table that was
\* saved was like the file: no permission is lost, and no revocation.
FileIsTrue == ~spoiled => Valid(file) = (given \ revoked) \ expired

\* A revocation is undone only by a manager that has not read it: a revoked permission
\* becomes valid in the file, whatever was lost before, only if some table had it as valid.
RevocationFinalStep ==
  \A p \in revoked : file # Torn /\ file' # Torn /\ p \in Valid(file)' =>
    p \in Valid(file) \/ \E m \in up : p \in Valid(table[m])

=============================================================================
