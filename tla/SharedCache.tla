---------------------------- MODULE SharedCache ----------------------------
(***************************************************************************)
(* The cache of memories shared by other Qubes: an entry per memory, each  *)
(* with a file that is written again at every access.  When the files of   *)
(* the entries exceed the limit, the least recently used ones go.          *)
(***************************************************************************)
EXTENDS Naturals, FiniteSets

CONSTANTS
  Key,
  MaxSize,   \* max_size_bytes
  Size       \* Size[k]: of the file of k

SharedCacheAssumption ==
  IsFiniteSet(Key) /\ MaxSize \in Nat /\ Size \in [Key -> Nat \ {0}]

\* Which entries there are, and in which order they were accessed, is one relation:
\* <<j, k>> is in it if there are j and k, and j was not accessed after k.
VARIABLES
  table,   \* the entries: cached_memories, access_times
  files,   \* their files, by accessed_at
  torn,    \* files that cannot be read
  up,
  \* History:
  recent   \* all keys that were ever used, by their last use

vars == <<table, files, torn, up, recent>>

Keys(order) == {k \in Key : <<k, k>> \in order}
Since(order, k) == {j \in Key : <<k, j>> \in order}

Order(order) ==
  /\ order \subseteq Keys(order) \X Keys(order)
  /\ \A j, k \in Keys(order) : /\ <<j, k>> \in order \/ <<k, j>> \in order
                               /\ <<j, k>> \in order /\ <<k, j>> \in order => j = k
                               /\ <<j, k>> \in order => Since(order, k) \subseteq Since(order, j)

TypeOK ==
  /\ Order(table) /\ Order(files) /\ Order(recent)
  /\ torn \subseteq Key /\ Keys(files) \cap torn = {}
  /\ up \in BOOLEAN

Init == table = {} /\ files = {} /\ torn = {} /\ up = TRUE /\ recent = {}

Only(order, kept) == order \cap (kept \X kept)
Touched(order, k) == Only(order, Key \ {k}) \cup (Keys(order) \cup {k}) \X {k}

Bytes(keys) == UNION {{k} \X (1..Size[k]) : k \in keys}
TotalSize(keys) == Cardinality(Bytes(keys))

\* _enforce_size_limit removes the least recently used until the rest fits: what was
\* accessed since an entry that stays, and this entry, fit.
Fitting(order) == Only(order, {k \in Keys(order) : TotalSize(Since(order, k)) <= MaxSize})

-----------------------------------------------------------------------------
Add(k) ==
  /\ up
  /\ table' = Fitting(Touched(table, k))
  /\ files' = Only(Touched(files, k), Keys(table'))
  /\ torn' = torn \ {k} /\ recent' = Touched(recent, k)
  /\ UNCHANGED up

Get(k) ==
  /\ up /\ k \in Keys(table)
  /\ table' = Touched(table, k) /\ files' = Touched(files, k)
  /\ recent' = Touched(recent, k)
  /\ UNCHANGED <<torn, up>>

\* remove_memory, remove_memories_from_qube, cleanup_old_entries: any entries.
Drop(gone) ==
  /\ up /\ gone # {} /\ gone \subseteq Keys(table)
  /\ table' = Only(table, Key \ gone) /\ files' = Only(files, Key \ gone)
  /\ UNCHANGED <<torn, up, recent>>

Clear ==
  /\ up /\ table' = {} /\ files' = {} /\ torn' = {}
  /\ UNCHANGED <<up, recent>>

\* The process ends, perhaps while it writes the file of an entry.
Die ==
  /\ up /\ up' = FALSE /\ table' = {}
  /\ \/ UNCHANGED <<files, torn>>
     \/ \E k \in Key : files' = Only(files, Key \ {k}) /\ torn' = torn \cup {k}
  /\ UNCHANGED recent

\* load_cache: files that cannot be read are skipped, and stay.
Load ==
  /\ ~up /\ up' = TRUE /\ table' = files
  /\ UNCHANGED <<files, torn, recent>>

Next ==
  \/ \E k \in Key : Add(k) \/ Get(k)
  \/ \E gone \in SUBSET Key : Drop(gone)
  \/ Clear \/ Die \/ Load

Spec == Init /\ [][Next]_vars

-----------------------------------------------------------------------------
(* Properties *)

\* The files of the entries never exceed the limit, and entries and files are the same.
WithinLimit ==
  /\ TotalSize(Keys(files)) <= MaxSize
  /\ up => Keys(table) = Keys(files)

\* What goes to make room was used before all that stays, also if the last
\* use was in an earlier process.
EvictsLeastRecentStep ==
  \A k \in Key : Add(k) =>
    \A x \in Keys(files) \ Keys(files'), y \in Keys(files') : <<x, y>> \in recent'

=============================================================================
