------------------------------- MODULE Market -------------------------------
(***************************************************************************)
(* A listing of the memory market.  Its file is written when the listing   *)
(* is created, and not again: sales, the end of the sales and cancellation *)
(* are known to the process they happen in.  A purchase checks that the    *)
(* listing is available, awaits the verification of the payment and then   *)
(* records the buyer.                                                      *)
(***************************************************************************)
EXTENDS Naturals, FiniteSets

CONSTANTS
  Call,      \* purchases
  Manager,
  MaxSales   \* of the listing; 0 is no limit

MarketAssumption == MaxSales \in Nat

VARIABLES
  file,    \* the file of the listing is there
  up,
  obj,     \* obj[m]: the listing in process m
  listed,  \* listed[m]: it is in the table of m
  late,    \* the expiry date has passed
  call,    \* call[c]: how far the purchase has come
  at,      \* at[c]: in which process
  \* History:
  crowded  \* two purchases of one process have been verified at a time

vars == <<file, up, obj, listed, late, call, at, crowded>>

Status == {"active", "sold_out", "expired", "cancelled"}
Listing == [buyers : SUBSET Call, status : Status]
New == [buyers |-> {}, status |-> "active"]

Verifying(m) == {c \in Call : call[c] = "verifying" /\ at[c] = m}

TypeOK ==
  /\ file \in BOOLEAN /\ up \subseteq Manager /\ late \in BOOLEAN /\ crowded \in BOOLEAN
  /\ obj \in [Manager -> Listing] /\ listed \in [Manager -> BOOLEAN]
  /\ call \in [Call -> {"new", "verifying", "sold", "failed"}] /\ at \in [Call -> Manager]
  /\ \A m \in Manager \ up : Verifying(m) = {}

\* create_listing has been called, and its process is gone.
Init ==
  /\ file = TRUE /\ up = {} /\ late = FALSE /\ crowded = FALSE
  /\ obj = [m \in Manager |-> New] /\ listed = [m \in Manager |-> FALSE]
  /\ call = [c \in Call |-> "new"] /\ at \in [Call -> Manager]

SoldOut(o) == MaxSales # 0 /\ Cardinality(o.buyers) >= MaxSales

\* is_available changes the status of a listing that is not available any more.
Checked(o) ==
  CASE o.status # "active" -> o
    [] o.status = "active" /\ late -> [o EXCEPT !.status = "expired"]
    [] o.status = "active" /\ ~late /\ SoldOut(o) -> [o EXCEPT !.status = "sold_out"]
    [] OTHER -> o

-----------------------------------------------------------------------------
\* load_listings, which logs how many listings are available.
Load(m) ==
  /\ m \notin up /\ up' = up \cup {m}
  /\ listed' = [listed EXCEPT ![m] = file]
  /\ obj' = [obj EXCEPT ![m] = IF file THEN Checked(New) ELSE New]
  /\ UNCHANGED <<file, late, call, at, crowded>>

\* get_active_listings, for a search or the statistics.
Search(m) ==
  /\ m \in up /\ listed[m]
  /\ obj' = [obj EXCEPT ![m] = Checked(@)]
  /\ UNCHANGED <<file, up, listed, late, call, at, crowded>>

\* purchase, up to the verification of the payment ...
Begin(c) ==
  LET m == at[c]
      o == Checked(obj[m])
  IN  /\ call[c] = "new" /\ m \in up /\ listed[m]
      /\ obj' = [obj EXCEPT ![m] = o]
      /\ call' = [call EXCEPT ![c] = IF o.status = "active" THEN "verifying" ELSE "failed"]
      /\ crowded' = (crowded \/ (o.status = "active" /\ Verifying(m) # {}))
      /\ UNCHANGED <<file, up, listed, late, at>>

NotPaid(c) ==
  /\ call[c] = "verifying" /\ call' = [call EXCEPT ![c] = "failed"]
  /\ UNCHANGED <<file, up, obj, listed, late, at, crowded>>

\* ... and after it, on the same object, listed or not.
Paid(c) ==
  LET o == [obj[at[c]] EXCEPT !.buyers = @ \cup {c}]
  IN  /\ call[c] = "verifying" /\ call' = [call EXCEPT ![c] = "sold"]
      /\ obj' = [obj EXCEPT ![at[c]] = IF SoldOut(o) THEN [o EXCEPT !.status = "sold_out"] ELSE o]
      /\ UNCHANGED <<file, up, listed, late, at, crowded>>

Cancel(m) ==
  /\ m \in up /\ listed[m]
  /\ obj' = [obj EXCEPT ![m].status = "cancelled"]
  /\ UNCHANGED <<file, up, listed, late, call, at, crowded>>

\* cleanup_expired_listings
Cleanup(m) ==
  /\ m \in up /\ listed[m] /\ obj[m].status \in {"expired", "cancelled"}
  /\ listed' = [listed EXCEPT ![m] = FALSE] /\ file' = FALSE
  /\ UNCHANGED <<up, obj, late, call, at, crowded>>

Expire == ~late /\ late' = TRUE /\ UNCHANGED <<file, up, obj, listed, call, at, crowded>>

Ended(m) == [c \in Call |-> IF c \in Verifying(m) THEN "failed" ELSE call[c]]

Die(m) ==
  /\ m \in up /\ up' = up \ {m} /\ call' = Ended(m)
  /\ UNCHANGED <<file, obj, listed, late, at, crowded>>

Next ==
  \/ Expire
  \/ \E m \in Manager : Load(m) \/ Search(m) \/ Cancel(m) \/ Cleanup(m) \/ Die(m)
  \/ \E c \in Call : Begin(c) \/ NotPaid(c) \/ Paid(c)

Spec == Init /\ [][Next]_vars

-----------------------------------------------------------------------------
(* Properties *)

\* A process sells no more than the limit, whatever is searched, cancelled and
\* cleaned up in between, if it verifies one payment at a time.
ProcessWithinLimit ==
  MaxSales # 0 /\ ~crowded => \A m \in up : Cardinality(obj[m].buyers) <= MaxSales

=============================================================================
