--------------------------- MODULE SessionProofs ----------------------------
(***************************************************************************)
(* Proofs about Session, in three parts.                                   *)
(*  - What the operators on the blocks of a session and their files do:    *)
(*    sorting is a permutation, renumbering keeps the blocks, reindexing   *)
(*    keeps a file of every block if no two blocks share a second.         *)
(*  - For any number of interactive Qube objects and any blocks: what      *)
(*    holds whatever the environment does.                                 *)
(*  - When one object alone anchors in its own process and nothing fails,  *)
(*    Session implements BlockLifecycle, for any number of blocks, in      *)
(*    whatever seconds and order of the sort key they are created.         *)
(***************************************************************************)
EXTENDS Session, FiniteSetTheorems, TLAPS

\* No two blocks are created in one second.  Without it files can have one name, and
\* renumbering loses blocks.
DistinctSeconds == \A b, c \in Block : TimeOf[b] = TimeOf[c] => b = c

LEMMA EntryFields ==
  /\ \A e \in Entry : e.id \in Block /\ e.num \in Nat \ {0}
  /\ \A d, e \in Entry : d.id = e.id /\ d.num = e.num => d = e
  /\ \A b \in Block, n \in Nat \ {0} : [id |-> b, num |-> n] \in Entry
BY DEF Entry

-----------------------------------------------------------------------------
(* Sorting *)

\* The order of entries is a strict total order.
LEMMA BeforeIsOrder ==
  /\ \A d \in Entry : ~Before(d, d)
  /\ \A d, e \in Entry : Before(d, e) \/ Before(e, d) \/ d = e
  /\ \A d, e, f \in Entry : Before(d, e) /\ Before(e, f) => Before(d, f)
<1>1. \A b \in Block : Rank[b] \in Nat
  BY OrderAssumption
<1>2. \A b, c \in Block : Rank[b] = Rank[c] => b = c
  BY OrderAssumption
<1> QED BY <1>1, <1>2, EntryFields DEF Before

\* Of a finite set of numbers that is not empty one is the greatest.
LEMMA GreatestExists ==
  ASSUME NEW n \in Nat, NEW S \in SUBSET (1 .. n), S # {}
  PROVE  \E m \in S : \A k \in S : k <= m
<1> DEFINE T == {n - k : k \in S}
<1>1. T \subseteq Nat /\ T # {}
  <2>1. \A k \in S : n - k \in Nat
    OBVIOUS
  <2> QED BY <2>1
<1>2. IsWellFoundedOn(OpToRel(<, Nat), Nat)
  BY NatLessThanWellFounded
<1>3. \E x \in T : \A y \in T : ~(<<y, x>> \in OpToRel(<, Nat))
  <2> HIDE DEF T
  <2> QED BY <1>1, <1>2, WFMin
<1>4. PICK x \in T : \A y \in T : ~(y < x)
  BY <1>1, <1>3 DEF OpToRel
<1>5. PICK m \in S : x = n - m
  OBVIOUS
<1>6. ASSUME NEW k \in S PROVE k <= m
  <2>1. ~(n - k < n - m)
    BY <1>4, <1>5
  <2> QED BY <2>1
<1> QED BY <1>6

\* Every place is taken by one entry.
LEMMA PlaceIsBijection ==
  ASSUME NEW s \in Seq(Entry)
  PROVE  /\ \A i \in DOMAIN s : Place(s, i) \in DOMAIN s
         /\ \A k \in DOMAIN s : \E i \in DOMAIN s : Place(s, i) = k
         /\ \A i, j \in DOMAIN s :
              Place(s, i) < Place(s, j) => Before(s[i], s[j]) \/ s[i] = s[j]
         /\ \A i, j \in DOMAIN s : Place(s, i) = Place(s, j) => i = j
<1> DEFINE D == 1 .. Len(s)
           le(i, j) == Before(s[i], s[j]) \/ (s[i] = s[j] /\ i <= j)
           upto(i) == {j \in D : le(j, i)}
           f == [i \in D |-> Place(s, i)]
<1>1. DOMAIN s = D /\ Len(s) \in Nat /\ \A i \in D : s[i] \in Entry
  OBVIOUS
<1>2. /\ \A i \in D : le(i, i)
      /\ \A i, j \in D : le(i, j) \/ le(j, i)
      /\ \A i, j \in D : le(i, j) /\ le(j, i) => i = j
      /\ \A i, j, k \in D : le(i, j) /\ le(j, k) => le(i, k)
  BY <1>1, BeforeIsOrder
<1>3. IsFiniteSet(D) /\ Cardinality(D) = Len(s)
  <2>1. Len(s) \in Int /\ 1 \in Int /\ (IF 1 > Len(s) THEN 0 ELSE Len(s) - 1 + 1) = Len(s)
    BY <1>1
  <2> QED BY <2>1, FS_Interval
<1>4. \A i \in D : Place(s, i) = Cardinality(upto(i))
  BY <1>1 DEF Place
<1> HIDE DEF le
<1>5. ASSUME NEW i \in D
      PROVE  IsFiniteSet(upto(i)) /\ upto(i) # {} /\ Place(s, i) \in D
  <2>1. upto(i) \in SUBSET D /\ i \in upto(i)
    BY <1>2
  <2>2. IsFiniteSet(upto(i)) /\ Cardinality(upto(i)) <= Len(s)
    BY <1>3, <2>1, FS_Subset
  <2>3. Cardinality(upto(i)) \in Nat /\ Cardinality(upto(i)) # 0
    BY <2>1, <2>2, FS_CardinalityType, FS_EmptySet
  <2> QED BY <1>1, <1>4, <2>1, <2>2, <2>3
<1>51. \A k \in D : k \in Nat
  OBVIOUS
<1>52. \A i \in D : Place(s, i) \in Nat
  BY <1>5, <1>51
<1>6. ASSUME NEW i \in D, NEW j \in D, le(i, j), i # j
      PROVE  Place(s, i) < Place(s, j)
  <2>1. upto(i) \in SUBSET upto(j) /\ j \in upto(j) /\ j \notin upto(i)
    BY <1>2, <1>6
  <2>2. Cardinality(upto(i)) <= Cardinality(upto(j)) /\ Cardinality(upto(i)) # Cardinality(upto(j))
    BY <1>5, <2>1, FS_Subset
  <2>3. Place(s, i) <= Place(s, j) /\ Place(s, i) # Place(s, j)
    BY <1>4, <2>2
  <2> QED BY <1>52, <2>3
<1>7. ASSUME NEW i \in D, NEW j \in D, Place(s, i) = Place(s, j) PROVE i = j
  <2>1. Place(s, i) \in Nat
    BY <1>52
  <2> QED BY <1>2, <1>6, <1>7, <2>1
<1>8. f \in Injection(D, D)
  BY <1>5, <1>7 DEF Injection, IsInjective
<1>9. f \in Surjection(D, D)
  BY <1>3, <1>8, FS_Injection
<1>10. \A k \in D : \E i \in D : Place(s, i) = k
  BY <1>9 DEF Surjection
<1>11. ASSUME NEW i \in D, NEW j \in D, Place(s, i) < Place(s, j)
       PROVE  Before(s[i], s[j]) \/ s[i] = s[j]
  <2>1. Place(s, i) \in Nat /\ Place(s, j) \in Nat
    BY <1>52
  <2>2. le(i, j)
    BY <1>2, <1>6, <1>11, <2>1
  <2> QED BY <2>2 DEF le
<1> QED BY <1>1, <1>5, <1>7, <1>10, <1>11

\* Sorting permutes, and leaves nothing before what comes before it.
LEMMA InOrderPermutes ==
  ASSUME NEW s \in Seq(Entry)
  PROVE  /\ InOrder(s) \in Seq(Entry) /\ Len(InOrder(s)) = Len(s)
         /\ Range(InOrder(s)) = Range(s)
         /\ \A i, j \in DOMAIN s :
              i < j => \/ Before(InOrder(s)[i], InOrder(s)[j])
                       \/ InOrder(s)[i] = InOrder(s)[j]
<1> DEFINE at(k) == CHOOSE i \in DOMAIN s : Place(s, i) = k
<1>1. \A k \in DOMAIN s : at(k) \in DOMAIN s /\ Place(s, at(k)) = k
  BY PlaceIsBijection
<1>2. DOMAIN s = 1 .. Len(s) /\ Len(s) \in Nat /\ \A i \in DOMAIN s : s[i] \in Entry
  OBVIOUS
<1>3. InOrder(s) = [k \in DOMAIN s |-> s[at(k)]]
  BY DEF InOrder
<1>4. \A i \in DOMAIN s : at(Place(s, i)) = i
  BY <1>1, PlaceIsBijection
<1> HIDE DEF at
<1>5. InOrder(s) \in Seq(Entry) /\ Len(InOrder(s)) = Len(s)
  BY <1>1, <1>2, <1>3
<1>6. Range(InOrder(s)) = Range(s)
  <2>1. Range(InOrder(s)) \subseteq Range(s)
    BY <1>1, <1>3 DEF Range
  <2>2. \A i \in DOMAIN s : Place(s, i) \in DOMAIN s /\ InOrder(s)[Place(s, i)] = s[i]
    BY <1>3, <1>4, PlaceIsBijection
  <2>3. DOMAIN InOrder(s) = DOMAIN s
    BY <1>3
  <2> QED BY <2>1, <2>2, <2>3 DEF Range
<1>7. ASSUME NEW i \in DOMAIN s, NEW j \in DOMAIN s, i < j
      PROVE  Before(InOrder(s)[i], InOrder(s)[j]) \/ InOrder(s)[i] = InOrder(s)[j]
  BY <1>1, <1>3, <1>7, PlaceIsBijection
<1> QED BY <1>5, <1>6, <1>7

\* Some enumeration of a finite set of files is what Load takes.
LEMMA EnumerationExists ==
  ASSUME NEW F \in SUBSET Entry, IsFiniteSet(F)
  PROVE  LET q == CHOOSE q \in [1 .. Cardinality(F) -> F] : Range(q) = F
         IN  q \in Seq(Entry) /\ Range(q) = F
<1>1. Cardinality(F) \in Nat /\ ExistsBijection(1 .. Cardinality(F), F)
  BY FS_CardinalityType
<1>2. PICK g : g \in Bijection(1 .. Cardinality(F), F)
  BY <1>1 DEF ExistsBijection
<1>3. g \in [1 .. Cardinality(F) -> F] /\ Range(g) = F
  BY <1>2 DEF Bijection, Injection, Surjection, Range
<1>4. \A q \in [1 .. Cardinality(F) -> F] : q \in Seq(Entry)
  BY <1>1
<1> QED BY <1>3, <1>4

-----------------------------------------------------------------------------
(* Renumbering *)

LEMMA RenumberedKeeps ==
  ASSUME NEW s \in Seq(Entry)
  PROVE  /\ Renumbered(s) \in Seq(Entry) /\ Len(Renumbered(s)) = Len(s)
         /\ DOMAIN Renumbered(s) = DOMAIN s
         /\ \A i \in DOMAIN s : Renumbered(s)[i] = [id |-> s[i].id, num |-> i]
         /\ Ids(Range(Renumbered(s))) = Ids(Range(s))
<1>1. DOMAIN s = 1 .. Len(s) /\ Len(s) \in Nat /\ \A i \in DOMAIN s : s[i] \in Entry
  OBVIOUS
<1>2. Renumbered(s) = [i \in DOMAIN s |-> [id |-> s[i].id, num |-> i]]
  BY DEF Renumbered
<1>3. \A i \in DOMAIN s : [id |-> s[i].id, num |-> i] \in Entry
  BY <1>1, EntryFields
<1>4. \A i \in DOMAIN s : Renumbered(s)[i].id = s[i].id
  BY <1>2
<1>5. Ids(Range(Renumbered(s))) = Ids(Range(s))
  BY <1>2, <1>4 DEF Ids, Range
<1> QED BY <1>1, <1>2, <1>3, <1>5

\* The number that an entry had is that of the last entry of its block.
LEMMA OldNumIsLast ==
  ASSUME NEW s \in Seq(Entry), NEW i \in DOMAIN s
  PROVE  \E j \in DOMAIN s :
           /\ s[j].id = s[i].id /\ \A k \in DOMAIN s : s[k].id = s[i].id => k <= j
           /\ OldNum(s, i) = s[j].num
<1> DEFINE same == {j \in DOMAIN s : s[j].id = s[i].id}
<1>1. DOMAIN s = 1 .. Len(s) /\ Len(s) \in Nat
  OBVIOUS
<1>2. same \in SUBSET (1 .. Len(s)) /\ i \in same
  BY <1>1
<1>3. \E j \in same : \A k \in same : k <= j
  BY <1>1, <1>2, GreatestExists
<1>4. OldNum(s, i) = s[CHOOSE j \in same : \A k \in same : k <= j].num
  BY DEF OldNum
<1> QED BY <1>3, <1>4

-----------------------------------------------------------------------------
(* Files *)

\* Saving adds files; those it overwrites are of its own blocks, in distinct seconds.
LEMMA SavedKeeps ==
  ASSUME NEW F \in SUBSET Entry, NEW E \in SUBSET Entry, IsFiniteSet(F), IsFiniteSet(E)
  PROVE  /\ Saved(F, E) \in SUBSET Entry /\ IsFiniteSet(Saved(F, E))
         /\ E \subseteq Saved(F, E) /\ Saved(F, E) \subseteq F \cup E
         /\ DistinctSeconds => Ids(F) \subseteq Ids(Saved(F, E))
<1> DEFINE G == {f \in F : NameOf(f) \notin {NameOf(e) : e \in E}}
<1>1. Saved(F, E) = G \cup E
  BY DEF Saved
<1>2. G \in SUBSET F
  OBVIOUS
<1>3. IsFiniteSet(G)
  <2> HIDE DEF G
  <2> QED BY <1>2, FS_Subset
<1>4. IsFiniteSet(Saved(F, E))
  <2> HIDE DEF G
  <2> QED BY <1>1, <1>3, FS_Union
<1>5. ASSUME DistinctSeconds, NEW f \in F PROVE f.id \in Ids(Saved(F, E))
  <2>1. CASE f \in G
    BY <1>1, <2>1 DEF Ids
  <2>2. CASE f \notin G
    <3>1. PICK e \in E : NameOf(f) = NameOf(e)
      BY <2>2
    <3>2. f.id = e.id
      BY <1>5, <3>1, EntryFields DEF NameOf, DistinctSeconds
    <3> QED BY <1>1, <3>2 DEF Ids
  <2> QED BY <2>1, <2>2
<1> HIDE DEF G
<1> QED BY <1>1, <1>2, <1>4, <1>5 DEF Ids

\* Reindexing leaves only files of entries it has found or renumbered, and in distinct
\* seconds a file of every block that had one: if the file of an entry is deleted, the
\* last entry of its block is saved under its new number, and not deleted any more.
LEMMA ReindexedFilesKeep ==
  ASSUME NEW F \in SUBSET Entry, IsFiniteSet(F), NEW s \in Seq(Entry)
  PROVE  /\ ReindexedFiles(F, s) \in SUBSET Entry /\ IsFiniteSet(ReindexedFiles(F, s))
         /\ DistinctSeconds => Ids(F) \subseteq Ids(ReindexedFiles(F, s))
         /\ Ids(ReindexedFiles(F, s)) \subseteq Ids(F) \cup Ids(Range(s))
<1> DEFINE t == Renumbered(s)
           Moves(i) == OldNum(s, i) # i
           Deletes(j, name) == Moves(j) /\ NameOf([t[j] EXCEPT !.num = OldNum(s, j)]) = name
           Survives(i) == \A j \in DOMAIN s : j > i => ~Deletes(j, NameOf(t[i]))
           Missing(i) == \/ NameOf(t[i]) \notin {NameOf(f) : f \in F}
                         \/ \E j \in DOMAIN s : j < i /\ Deletes(j, NameOf(t[i]))
           kept == {f \in F : \A j \in DOMAIN s : ~Deletes(j, NameOf(f))}
           again == {k \in DOMAIN s : (Moves(k) \/ Missing(k)) /\ Survives(k)}
           E == {t[i] : i \in again}
<1>1. ReindexedFiles(F, s) = Saved(kept, E)
  BY DEF ReindexedFiles
<1>2. /\ DOMAIN s = 1 .. Len(s) /\ Len(s) \in Nat /\ DOMAIN s \subseteq Nat
      /\ \A i \in DOMAIN s : t[i] \in Entry /\ t[i].id = s[i].id /\ t[i].num = i /\ s[i] \in Entry
  <2>1. /\ DOMAIN s = 1 .. Len(s) /\ Len(s) \in Nat /\ DOMAIN s \subseteq Nat
        /\ \A i \in DOMAIN s : s[i] \in Entry
    OBVIOUS
  <2>2. /\ t \in Seq(Entry) /\ DOMAIN t = DOMAIN s
        /\ \A i \in DOMAIN s : t[i] = [id |-> s[i].id, num |-> i]
    BY RenumberedKeeps
  <2> HIDE DEF t
  <2> QED BY <2>1, <2>2
<1>3. IsFiniteSet(DOMAIN s)
  BY <1>2, FS_Interval
<1>4. kept \in SUBSET F /\ again \in SUBSET DOMAIN s
  OBVIOUS
<1>5. IsFiniteSet(kept) /\ IsFiniteSet(again)
  <2> HIDE DEF kept, again
  <2> QED BY <1>3, <1>4, FS_Subset
<1>6. E \in SUBSET Entry
  BY <1>2
<1>7. IsFiniteSet(E)
  <2> DEFINE g == [i \in again |-> t[i]]
  <2>1. g \in Surjection(again, E)
    BY DEF Surjection
  <2> HIDE DEF g, E, again
  <2> QED BY <1>5, <2>1, FS_Surjection
<1>8. /\ Saved(kept, E) \in SUBSET Entry /\ IsFiniteSet(Saved(kept, E))
      /\ E \subseteq Saved(kept, E) /\ Saved(kept, E) \subseteq kept \cup E
      /\ DistinctSeconds => Ids(kept) \subseteq Ids(Saved(kept, E))
  <2> HIDE DEF kept, E
  <2> QED BY <1>4, <1>5, <1>6, <1>7, SavedKeeps
<1>9. \A e \in E : e.id \in Ids(Range(s))
  BY <1>2 DEF Ids, Range
<1>10. Ids(Saved(kept, E)) \subseteq Ids(F) \cup Ids(Range(s))
  <2> HIDE DEF kept, E
  <2> QED BY <1>4, <1>8, <1>9 DEF Ids
<1>11. \A i, j \in DOMAIN s, f \in Entry :
         DistinctSeconds /\ NameOf([t[j] EXCEPT !.num = OldNum(s, j)]) = NameOf(f)
           => s[j].id = f.id /\ f.num = OldNum(s, j)
  <2> SUFFICES ASSUME NEW j \in DOMAIN s, NEW f \in Entry, DistinctSeconds,
                      NameOf([t[j] EXCEPT !.num = OldNum(s, j)]) = NameOf(f)
               PROVE  s[j].id = f.id /\ f.num = OldNum(s, j)
    OBVIOUS
  <2>1. t[j] = [id |-> s[j].id, num |-> j]
    BY RenumberedKeeps
  <2>2. /\ [t[j] EXCEPT !.num = OldNum(s, j)].id = s[j].id
        /\ [t[j] EXCEPT !.num = OldNum(s, j)].num = OldNum(s, j)
    BY <2>1
  <2>3. s[j].id \in Block /\ f.id \in Block
    BY <1>2, EntryFields
  <2> HIDE DEF t
  <2> QED BY <2>2, <2>3 DEF NameOf, DistinctSeconds
<1>12. ASSUME DistinctSeconds, NEW f \in F PROVE f.id \in Ids(Saved(kept, E))
  <2>1. CASE f \in kept
    <3> HIDE DEF kept, E
    <3> QED BY <1>8, <1>12, <2>1 DEF Ids
  <2>2. CASE f \notin kept
    <3>1. PICK j \in DOMAIN s : Deletes(j, NameOf(f))
      BY <2>2
    <3>2. s[j].id = f.id /\ f.num = OldNum(s, j)
      BY <1>11, <1>12, <3>1
    <3>3. PICK m \in DOMAIN s :
            /\ s[m].id = s[j].id /\ \A k \in DOMAIN s : s[k].id = s[j].id => k <= m
            /\ OldNum(s, j) = s[m].num
      BY OldNumIsLast
    <3>4. OldNum(s, m) = OldNum(s, j)
      BY <3>3 DEF OldNum
    <3>5. Survives(m)
      <4>1. ASSUME NEW k \in DOMAIN s, k > m, Deletes(k, NameOf(t[m])) PROVE FALSE
        <5>1. s[k].id = s[m].id
          BY <1>2, <1>11, <1>12, <4>1
        <5> QED BY <1>2, <3>3, <4>1, <5>1
      <4> QED BY <4>1
    <3>6. Moves(m) \/ Missing(m)
      <4>1. ASSUME ~Moves(m) PROVE Missing(m)
        <5>1. OldNum(s, j) = m /\ j # m
          BY <3>1, <3>4, <4>1
        <5>2. j < m
          BY <1>2, <3>3, <5>1
        <5>3. NameOf([t[j] EXCEPT !.num = OldNum(s, j)]) = NameOf(t[m])
          <6>1. t[j] = [id |-> s[j].id, num |-> j] /\ t[m] = [id |-> s[m].id, num |-> m]
            BY RenumberedKeeps
          <6>2. [t[j] EXCEPT !.num = OldNum(s, j)] = t[m]
            BY <3>3, <5>1, <6>1
          <6> QED BY <6>2
        <5>4. Moves(j)
          BY <3>1
        <5> QED BY <5>2, <5>3, <5>4
      <4> QED BY <4>1
    <3>7. t[m] \in E /\ t[m].id = f.id
      BY <1>2, <3>2, <3>3, <3>5, <3>6
    <3> HIDE DEF E, kept
    <3> QED BY <1>8, <3>7 DEF Ids
  <2> QED BY <2>1, <2>2
<1> HIDE DEF kept, E
<1> QED BY <1>1, <1>8, <1>10, <1>12 DEF Ids

\* New blocks join the session.
LEMMA JoinedIsPermutation ==
  ASSUME NEW s \in Seq(Entry), NEW B \in Seq(Block)
  PROVE  /\ Joined(s, B) \in Seq(Entry)
         /\ Ids(Range(Joined(s, B))) = Ids(Range(s)) \cup Range(B)
<1> DEFINE new == [i \in DOMAIN B |-> [id |-> B[i], num |-> 1]]
<1>1. new \in Seq(Entry) /\ Len(new) = Len(B) /\ DOMAIN new = DOMAIN B
  <2>1. \A i \in DOMAIN B : [id |-> B[i], num |-> 1] \in Entry
    BY EntryFields
  <2> QED BY <2>1
<1>2. \A i \in DOMAIN B : new[i].id = B[i]
  OBVIOUS
<1> HIDE DEF new
<1>3. s \o new \in Seq(Entry) /\ Range(s \o new) = Range(s) \cup Range(new)
  <2>1. /\ s \o new \in Seq(Entry) /\ Len(s \o new) = Len(s) + Len(new)
        /\ \A i \in 1 .. Len(s) : (s \o new)[i] = s[i]
        /\ \A i \in 1 .. Len(new) : (s \o new)[Len(s) + i] = new[i]
    BY <1>1
  <2>2. \A i \in 1 .. Len(s) + Len(new) :
          i \in 1 .. Len(s) \/ \E j \in 1 .. Len(new) : i = Len(s) + j
    <3> SUFFICES ASSUME NEW i \in 1 .. Len(s) + Len(new), i > Len(s)
                 PROVE  i - Len(s) \in 1 .. Len(new) /\ i = Len(s) + (i - Len(s))
      BY <1>1
    <3> QED BY <1>1
  <2>3. /\ DOMAIN s = 1 .. Len(s) /\ DOMAIN new = 1 .. Len(new)
        /\ DOMAIN (s \o new) = 1 .. Len(s) + Len(new)
        /\ Len(s) \in Nat /\ Len(new) \in Nat
    BY <1>1, <2>1
  <2>4. \A j \in 1 .. Len(new) : Len(s) + j \in 1 .. Len(s) + Len(new)
    BY <2>3
  <2>5. \A i \in 1 .. Len(s) : i \in 1 .. Len(s) + Len(new)
    BY <2>3
  <2> DEFINE t == s \o new
  <2> HIDE DEF t
  <2>6. Range(t) \subseteq Range(s) \cup Range(new)
    <3> SUFFICES ASSUME NEW i \in DOMAIN t PROVE t[i] \in Range(s) \cup Range(new)
      BY DEF Range
    <3>1. i \in 1 .. Len(s) + Len(new)
      BY <2>3 DEF t
    <3>2. CASE i \in 1 .. Len(s)
      <4>1. t[i] = s[i] /\ i \in DOMAIN s
        BY <2>1, <2>3, <3>2 DEF t
      <4> QED BY <4>1 DEF Range
    <3>3. ASSUME NEW j \in 1 .. Len(new), i = Len(s) + j PROVE t[i] \in Range(new)
      <4>1. t[i] = new[j] /\ j \in DOMAIN new
        BY <2>1, <2>3, <3>3 DEF t
      <4> QED BY <4>1 DEF Range
    <3> QED BY <2>2, <3>1, <3>2, <3>3
  <2>7. Range(s) \cup Range(new) \subseteq Range(t)
    <3>1. DOMAIN t = 1 .. Len(s) + Len(new)
      BY <2>3 DEF t
    <3>2. \A i \in 1 .. Len(s) : t[i] = s[i] /\ i \in DOMAIN t
      BY <2>1, <2>5, <3>1 DEF t
    <3>3. \A i \in 1 .. Len(new) : t[Len(s) + i] = new[i] /\ Len(s) + i \in DOMAIN t
      BY <2>1, <2>4, <3>1 DEF t
    <3> QED BY <2>3, <3>2, <3>3 DEF Range
  <2> QED BY <2>1, <2>6, <2>7 DEF t
<1>4. Joined(s, B) = InOrder(s \o new)
  BY DEF Joined, new
<1>5. Ids(Range(new)) = Range(B)
  BY <1>1, <1>2 DEF Ids, Range
<1>6. Ids(Range(s) \cup Range(new)) = Ids(Range(s)) \cup Ids(Range(new))
  BY DEF Ids
<1> QED BY <1>3, <1>4, <1>5, <1>6, InOrderPermutes

LEMMA JoinedBlocksKeep ==
  ASSUME NEW s \in Seq(Entry), NEW B \in Seq(Block)
  PROVE  /\ JoinedBlocks(s, B) \in Seq(Entry)
         /\ Ids(Range(JoinedBlocks(s, B))) = Ids(Range(s)) \cup Range(B)
<1>1. CASE B = <<>>
  <2>1. Range(B) = {}
    BY <1>1 DEF Range
  <2> QED BY <1>1, <2>1 DEF JoinedBlocks
<1>2. CASE B # <<>>
  BY <1>2, JoinedIsPermutation, RenumberedKeeps DEF JoinedBlocks
<1> QED BY <1>1, <1>2

LEMMA JoinedFilesKeep ==
  ASSUME NEW F \in SUBSET Entry, IsFiniteSet(F), NEW s \in Seq(Entry), NEW B \in Seq(Block)
  PROVE  /\ JoinedFiles(F, s, B) \in SUBSET Entry /\ IsFiniteSet(JoinedFiles(F, s, B))
         /\ Range(B) \subseteq Ids(JoinedFiles(F, s, B))
         /\ DistinctSeconds => Ids(F) \subseteq Ids(JoinedFiles(F, s, B))
         /\ Ids(JoinedFiles(F, s, B)) \subseteq Ids(F) \cup Ids(Range(s)) \cup Range(B)
<1>1. CASE B = <<>>
  <2>1. Range(B) = {}
    BY <1>1 DEF Range
  <2> QED BY <1>1, <2>1 DEF JoinedFiles
<1>2. CASE B # <<>>
  <2> DEFINE t == Joined(s, B)
             new == {e \in Range(Renumbered(t)) : e.id \in Range(B)}
             G == ReindexedFiles(F, t)
  <2>1. JoinedFiles(F, s, B) = Saved(G, new)
    BY <1>2 DEF JoinedFiles
  <2>2. t \in Seq(Entry) /\ Ids(Range(t)) = Ids(Range(s)) \cup Range(B)
    BY JoinedIsPermutation
  <2>3. /\ G \in SUBSET Entry /\ IsFiniteSet(G)
        /\ DistinctSeconds => Ids(F) \subseteq Ids(G)
        /\ Ids(G) \subseteq Ids(F) \cup Ids(Range(t))
    BY <2>2, ReindexedFilesKeep
  <2>4. Renumbered(t) \in Seq(Entry) /\ Ids(Range(Renumbered(t))) = Ids(Range(t))
    BY <2>2, RenumberedKeeps
  <2> HIDE DEF t
  <2>5. new \in SUBSET Range(Renumbered(t)) /\ Range(Renumbered(t)) \in SUBSET Entry
    BY <2>4 DEF Range
  <2>6. IsFiniteSet(Range(Renumbered(t)))
    <3>1. IsFiniteSet(DOMAIN Renumbered(t))
      BY <2>4, FS_Interval
    <3>2. Renumbered(t) \in Surjection(DOMAIN Renumbered(t), Range(Renumbered(t)))
      BY <2>4 DEF Surjection, Range
    <3> QED BY <3>1, <3>2, FS_Surjection
  <2>7. IsFiniteSet(new)
    <3> HIDE DEF new
    <3> QED BY <2>5, <2>6, FS_Subset
  <2>8. Range(B) \subseteq Ids(new) /\ Ids(new) \subseteq Range(B)
    BY <2>2, <2>4 DEF Ids
  <2> HIDE DEF new, G
  <2>9. /\ Saved(G, new) \in SUBSET Entry /\ IsFiniteSet(Saved(G, new))
        /\ new \subseteq Saved(G, new) /\ Saved(G, new) \subseteq G \cup new
        /\ DistinctSeconds => Ids(G) \subseteq Ids(Saved(G, new))
    BY <2>3, <2>5, <2>7, SavedKeeps
  <2>10. Ids(new) \subseteq Ids(Saved(G, new)) /\ Ids(Saved(G, new)) \subseteq Ids(G) \cup Ids(new)
    BY <2>9 DEF Ids
  <2> QED BY <2>1, <2>2, <2>3, <2>8, <2>9, <2>10
<1> QED BY <1>1, <1>2

\* The cleanup takes only files of its own blocks, in distinct seconds.
LEMMA CleanedUpKeeps ==
  ASSUME NEW F \in SUBSET Entry, IsFiniteSet(F), NEW B \in SUBSET Block
  PROVE  /\ CleanedUp(F, B) \in SUBSET F /\ IsFiniteSet(CleanedUp(F, B))
         /\ DistinctSeconds => Ids(F) \subseteq Ids(CleanedUp(F, B)) \cup B
<1>1. CleanedUp(F, B) \in SUBSET F
  BY DEF CleanedUp
<1>2. DistinctSeconds => \A f \in F : f \in CleanedUp(F, B) \/ f.id \in B
  BY EntryFields DEF CleanedUp, DistinctSeconds
<1> QED BY <1>1, <1>2, FS_Subset DEF Ids

-----------------------------------------------------------------------------
(* The inductive invariant *)

\* What holds of the memory o of Qube object p when the chain is ch and the work lock
\* wl: the flag is up only in an anchor of the current session, which a discard can
\* replace only while an anchor runs; the blocks converted so far are permanent; and
\* the subprocess runs only under its lock file.
ObjInv(p, o, ch, wl) ==
  /\ o.cur.flag => o.pc \in {"task", "wait", "scan", "convert"} /\ ~o.replaced
  /\ o.replaced => o.pc \in {"scan", "convert", "post"}
  /\ o.done <= Len(o.snap)
  /\ o.pc \notin {"convert", "post"} => o.done = 0
  /\ \A i \in 1 .. o.done : o.snap[i] \in Range(ch)
  /\ o.pc = "post" => Range(o.snap) \subseteq Range(ch)
  /\ p = Worker /\ o.pc # "down" => wl

SessionInv ==
  /\ TypeOK
  /\ IsFiniteSet(files)
  /\ \A p \in Object : ObjInv(p, obj[p], chain, workLock)

\* No block that had a file is without one, unless it is permanent or removed.
Kept == \A b \in Ids(files) : b \in Ids(files') \cup Range(chain') \cup gone'

\* What every step is shown to do.
Preserves ==
  /\ SessionInv'
  /\ DistinctSeconds => Kept
  /\ DistinctSeconds /\ SavedForRecovery => SavedForRecovery'

LEMMA SessionConstants ==
  /\ Worker \notin Front /\ NoOne \notin Object /\ MaxBlocks \in Nat
  /\ Worker \in Object /\ Front \subseteq Object
BY ObjectAssumption, BoundAssumption DEF Object

LEMMA NotLoadedType ==
  /\ NewSession \in SessionType /\ NewSession.blocks = <<>> /\ NewSession.queue = <<>>
  /\ ~NewSession.flag /\ ~NewSession.pend
  /\ NotLoaded \in ObjType /\ NotLoaded.pc = "down" /\ NotLoaded.cur = NewSession
  /\ NotLoaded.done = 0 /\ NotLoaded.snap = <<>> /\ ~NotLoaded.replaced
<1>1. NewSession \in SessionType
  BY DEF NewSession, SessionType
<1>2. /\ NewSession.blocks = <<>> /\ NewSession.queue = <<>>
      /\ ~NewSession.flag /\ ~NewSession.pend
  BY DEF NewSession
<1>3. NotLoaded \in ObjType
  BY <1>1 DEF NotLoaded, ObjType, PC, Awaiting
<1>4. /\ NotLoaded.pc = "down" /\ NotLoaded.cur = NewSession
      /\ NotLoaded.done = 0 /\ NotLoaded.snap = <<>> /\ ~NotLoaded.replaced
  BY DEF NotLoaded
<1> QED BY <1>1, <1>2, <1>3, <1>4

\* An object of which nothing runs.
LEMMA IdleInv ==
  ASSUME NEW p, NEW o, NEW ch, NEW wl, o.done = 0, o.snap = <<>>, ~o.cur.flag,
         ~o.replaced, o.pc # "post", p = Worker /\ o.pc # "down" => wl
  PROVE  ObjInv(p, o, ch, wl)
BY DEF ObjInv

LEMMA SessionInit == Init => SessionInv /\ SavedForRecovery
<1> SUFFICES ASSUME Init PROVE SessionInv /\ SavedForRecovery
  OBVIOUS
<1>1. TypeOK
  <2>1. obj \in [Object -> ObjType]
    BY NotLoadedType DEF Init
  <2>2. created \in 0 .. MaxBlocks
    BY SessionConstants DEF Init
  <2>3. files \subseteq Entry /\ gone \subseteq Block
    BY DEF Init
  <2>4. chain \in Seq(Block) /\ flock \in Object \cup {NoOne}
    BY DEF Init
  <2>5. workLock \in BOOLEAN /\ marker \in BOOLEAN
    BY DEF Init
  <2> QED BY <2>1, <2>2, <2>3, <2>4, <2>5 DEF TypeOK
<1>2. IsFiniteSet(files)
  BY FS_EmptySet DEF Init
<1>3. \A p \in Object : obj[p] = NotLoaded
  BY DEF Init
<1>4. \A p \in Object : ObjInv(p, obj[p], chain, workLock)
  BY <1>3, NotLoadedType, IdleInv
<1>5. SavedForRecovery
  BY <1>3, SessionConstants, NotLoadedType DEF SavedForRecovery, Ids, Range
<1> QED BY <1>1, <1>2, <1>4, <1>5 DEF SessionInv

-----------------------------------------------------------------------------
(* Steps of one object *)

\* What a step of object p to the memory o must satisfy.
LEMMA ObjectSteps ==
  ASSUME SessionInv, NEW p \in Object, NEW o \in ObjType,
         obj' = [obj EXCEPT ![p] = o],
         files' \in SUBSET Entry, IsFiniteSet(files'),
         chain' \in Seq(Block), Range(chain) \subseteq Range(chain'),
         flock' \in Object \cup {NoOne}, workLock' \in BOOLEAN, marker' \in BOOLEAN,
         created' \in 0 .. MaxBlocks, gone' \in SUBSET Block, gone \subseteq gone',
         workLock => workLock' \/ obj'[Worker].pc = "down",
         ObjInv(p, o, chain', workLock'),
         DistinctSeconds => Kept,
         DistinctSeconds /\ p \in Front =>
           Ids(Range(o.cur.blocks)) \subseteq Ids(Range(obj[p].cur.blocks)) \cup Ids(files')
  PROVE  Preserves
<1>1. obj \in [Object -> ObjType]
  BY DEF SessionInv, TypeOK
<1>2. TypeOK'
  BY <1>1 DEF TypeOK
<1>3. obj'[p] = o /\ \A q \in Object \ {p} : obj'[q] = obj[q]
  BY <1>1
<1>4. \A q \in Object \ {p} : ObjInv(q, obj'[q], chain', workLock')
  <2> SUFFICES ASSUME NEW q \in Object \ {p} PROVE ObjInv(q, obj'[q], chain', workLock')
    OBVIOUS
  <2>1. ObjInv(q, obj[q], chain, workLock)
    BY DEF SessionInv
  <2> QED BY <1>3, <2>1 DEF ObjInv
<1>5. SessionInv'
  BY <1>2, <1>3, <1>4 DEF SessionInv
<1>6. ASSUME DistinctSeconds, SavedForRecovery, NEW q \in Front
      PROVE  Ids(Range(obj'[q].cur.blocks)) \subseteq Ids(files') \cup Range(chain') \cup gone'
  <2>1. Ids(Range(obj[q].cur.blocks)) \subseteq Ids(files) \cup Range(chain) \cup gone
    BY <1>6 DEF SavedForRecovery
  <2>2. Ids(Range(obj[q].cur.blocks)) \subseteq Ids(files') \cup Range(chain') \cup gone'
    BY <1>6, <2>1 DEF Kept
  <2>3. q = p => Ids(Range(o.cur.blocks)) \subseteq Ids(files') \cup Range(chain') \cup gone'
    BY <1>6, <2>2
  <2>4. obj'[q] = IF q = p THEN o ELSE obj[q]
    BY <1>3, SessionConstants
  <2> QED BY <2>2, <2>3, <2>4
<1> QED BY <1>5, <1>6 DEF SavedForRecovery, Preserves

\* One that leaves the files, the chain and the locks alone.
LEMMA QuietSteps ==
  ASSUME SessionInv, NEW p \in Object, NEW o \in ObjType,
         obj' = [obj EXCEPT ![p] = o],
         UNCHANGED <<files, chain, marker, created, gone>>,
         flock' \in Object \cup {NoOne}, workLock' \in BOOLEAN, workLock => workLock',
         ObjInv(p, o, chain, workLock'),
         p \in Front =>
           Ids(Range(o.cur.blocks)) \subseteq Ids(Range(obj[p].cur.blocks)) \cup Ids(files)
  PROVE  Preserves
<1>1. Kept
  BY DEF Kept
<1> QED BY <1>1, ObjectSteps DEF SessionInv, TypeOK

LEMMA ObjectFields ==
  ASSUME SessionInv, NEW p \in Object
  PROVE  /\ obj[p] \in ObjType
         /\ obj[p].cur \in SessionType /\ obj[p].old \in SessionType
         /\ obj[p].cur.blocks \in Seq(Entry) /\ obj[p].cur.queue \in Seq(Block)
         /\ obj[p].old.blocks \in Seq(Entry) /\ obj[p].old.queue \in Seq(Block)
         /\ obj[p].snap \in Seq(Block) /\ obj[p].done \in Nat /\ obj[p].known \in Nat
         /\ ObjInv(p, obj[p], chain, workLock)
         /\ Len(chain) \in Nat /\ Range(obj[p].snap) \in SUBSET Block
<1>1. obj[p] \in ObjType
  BY DEF SessionInv, TypeOK
<1>2. /\ obj[p].cur \in SessionType /\ obj[p].old \in SessionType
      /\ obj[p].snap \in Seq(Block) /\ obj[p].done \in Nat /\ obj[p].known \in Nat
  BY <1>1 DEF ObjType
<1>3. Range(obj[p].snap) \in SUBSET Block /\ Len(chain) \in Nat
  BY <1>2 DEF Range, SessionInv, TypeOK
<1> QED BY <1>1, <1>2, <1>3 DEF SessionType, SessionInv

-----------------------------------------------------------------------------
(* The objects and their user *)

\* recover_session has all the files, and keeps one of each block.
LEMMA LoadStep ==
  ASSUME SessionInv, NEW p \in Object, NEW to \in {"idle", "check"}, Load(p, to),
         UNCHANGED <<chain, flock, workLock, marker, created, gone>>,
         p = Worker => workLock
  PROVE  Preserves
<1> DEFINE q == CHOOSE q \in [1 .. Cardinality(files) -> files] : Range(q) = files
           s == InOrder(q)
           n == Len(chain)
           c == [NewSession EXCEPT !.blocks = Renumbered(s)]
           o == [NotLoaded EXCEPT !.pc = to, !.cur.blocks = Renumbered(s), !.known = n]
<1>1. files \in SUBSET Entry /\ IsFiniteSet(files) /\ n \in Nat
  BY DEF SessionInv, TypeOK
<1>2. q \in Seq(Entry) /\ Range(q) = files
  BY <1>1, EnumerationExists
<1>3. files' = ReindexedFiles(files, s) /\ obj' = [obj EXCEPT ![p] = o]
  BY DEF Load
<1> HIDE DEF q, n
<1>4. s \in Seq(Entry) /\ Range(s) = files
  BY <1>2, InOrderPermutes
<1> HIDE DEF s
<1>5. /\ files' \in SUBSET Entry /\ IsFiniteSet(files')
      /\ DistinctSeconds => Ids(files) \subseteq Ids(files')
  BY <1>1, <1>3, <1>4, ReindexedFilesKeep
<1>6. Renumbered(s) \in Seq(Entry) /\ Ids(Range(Renumbered(s))) = Ids(files)
  BY <1>4, RenumberedKeeps
<1>7. o \in ObjType /\ o.pc = to /\ o.cur = c /\ o.done = 0 /\ o.snap = <<>> /\ ~o.replaced
  <2>1. c \in SessionType /\ o = [NotLoaded EXCEPT !.pc = to, !.cur = c, !.known = n]
    BY <1>6, NotLoadedType DEF SessionType
  <2> HIDE DEF c, o
  <2> QED BY <1>1, <2>1, NotLoadedType DEF ObjType, PC, Awaiting
<1>8. c.blocks = Renumbered(s) /\ ~c.flag
  BY NotLoadedType DEF SessionType
<1> HIDE DEF c, o
<1>9. ObjInv(p, o, chain, workLock)
  BY <1>7, <1>8, IdleInv
<1>10. DistinctSeconds => Kept
  BY <1>5 DEF Kept
<1>11. DistinctSeconds => Ids(Range(o.cur.blocks)) \subseteq Ids(files')
  BY <1>5, <1>6, <1>7, <1>8
<1> QED BY <1>3, <1>5, <1>7, <1>9, <1>10, <1>11, ObjectSteps DEF SessionInv, TypeOK

LEMMA LoadSteps ==
  ASSUME SessionInv, (\E p \in Object : LoadFront(p)) \/ LoadWorker
  PROVE  Preserves
<1>1. ASSUME NEW p \in Object, LoadFront(p) PROVE Preserves
  BY <1>1, LoadStep, SessionConstants DEF LoadFront
<1>2. CASE LoadWorker
  <2>1. workLock
    BY <1>2, ObjectFields, SessionConstants DEF LoadWorker, ObjInv
  <2> QED BY <1>2, <2>1, LoadStep, SessionConstants DEF LoadWorker
<1> QED BY <1>1, <1>2

\* The index is reloaded; the process ends.
LEMMA ReloadCrashSteps ==
  ASSUME SessionInv, NEW p \in Object, Reload(p) \/ Crash(p)
  PROVE  Preserves
<1> USE ObjectFields
<1>1. flock \in Object \cup {NoOne} /\ workLock \in BOOLEAN
  BY DEF SessionInv, TypeOK
<1>2. CASE Reload(p)
  <2> DEFINE n == Len(chain)
             o == [obj[p] EXCEPT !.known = n]
  <2>1. n \in Nat /\ obj' = [obj EXCEPT ![p] = o]
    BY <1>2 DEF Reload
  <2> HIDE DEF n
  <2>2. o \in ObjType /\ o.cur = obj[p].cur /\ o.pc = obj[p].pc /\ o.done = obj[p].done
        /\ o.snap = obj[p].snap /\ o.replaced = obj[p].replaced
    BY <2>1 DEF ObjType
  <2> HIDE DEF o
  <2>3. ObjInv(p, o, chain, workLock)
    BY <2>2 DEF ObjInv
  <2> QED BY <1>1, <1>2, <2>1, <2>2, <2>3, QuietSteps DEF Reload
<1>3. CASE Crash(p)
  <2>1. ObjInv(p, NotLoaded, chain, workLock)
    BY NotLoadedType, IdleInv
  <2>2. NotLoaded.cur.blocks = <<>> /\ Ids(Range(<<>>)) = {}
    BY NotLoadedType DEF Ids, Range
  <2>3. flock' \in Object \cup {NoOne}
    BY <1>1, <1>3 DEF Crash, Unlocked
  <2> QED BY <1>1, <1>3, <2>1, <2>2, <2>3, NotLoadedType, QuietSteps DEF Crash
<1> QED BY <1>2, <1>3

\* The current session is replaced.
LEMMA CurrentReplaced ==
  ASSUME NEW r \in ObjType, NEW c \in SessionType
  PROVE  LET o == [r EXCEPT !.cur = c]
         IN  /\ o \in ObjType /\ o.cur = c /\ o.pc = r.pc /\ o.done = r.done
             /\ o.snap = r.snap /\ o.replaced = r.replaced
BY DEF ObjType

-----------------------------------------------------------------------------
(* What the user does *)

\* create_block: a new block is queued, or joins the session and is saved.
LEMMA CreateStep ==
  ASSUME SessionInv, NEW p \in Object, Create(p)
  PROVE  Preserves
<1> DEFINE s == obj[p].cur
           b == created + 1
<1>1. /\ p \in Front /\ created < MaxBlocks /\ created' = b
      /\ UNCHANGED <<chain, flock, workLock, marker, gone>>
  BY DEF Create
<1>2. b \in Block /\ created' \in 0 .. MaxBlocks /\ created' \in Block
  BY <1>1, SessionConstants DEF SessionInv, TypeOK, Block
<1>3. /\ s \in SessionType /\ obj[p] \in ObjType /\ ObjInv(p, obj[p], chain, workLock)
      /\ s.blocks \in Seq(Entry) /\ s.queue \in Seq(Block)
  BY ObjectFields
<1>4. CASE s.flag
  <2> DEFINE q == Append(s.queue, created')
             c == [s EXCEPT !.queue = q]
             o == [obj[p] EXCEPT !.cur = c]
  <2>1. obj' = [obj EXCEPT ![p] = o] /\ files' = files
    BY <1>4 DEF Create
  <2>2. q \in Seq(Block)
    BY <1>2, <1>3
  <2> HIDE DEF q
  <2>3. c \in SessionType /\ c.flag = s.flag /\ c.blocks = s.blocks
    BY <1>3, <2>2 DEF SessionType
  <2> HIDE DEF c
  <2>4. /\ o \in ObjType /\ o.cur = c /\ o.pc = obj[p].pc /\ o.done = obj[p].done
        /\ o.snap = obj[p].snap /\ o.replaced = obj[p].replaced
    BY <1>3, <2>3, CurrentReplaced
  <2> HIDE DEF o
  <2>5. ObjInv(p, o, chain', workLock')
    BY <1>1, <1>3, <2>3, <2>4 DEF ObjInv
  <2>6. Kept
    BY <2>1 DEF Kept
  <2> QED BY <1>1, <1>2, <2>1, <2>3, <2>4, <2>5, <2>6, ObjectSteps DEF SessionInv, TypeOK
<1>5. CASE ~s.flag
  <2> DEFINE B == <<created'>>
             t == JoinedBlocks(s.blocks, B)
             pend == s.pend \/ Len(t) >= Threshold
             c == [s EXCEPT !.blocks = t, !.pend = pend]
             o == [obj[p] EXCEPT !.cur = c]
  <2>1. files' = JoinedFiles(files, s.blocks, B)
    BY <1>5 DEF Create
  <2>2. obj' = [obj EXCEPT ![p] = o]
    <3>1. obj \in [Object -> ObjType]
      BY DEF SessionInv, TypeOK
    <3>2. obj' = [obj EXCEPT ![p].cur.blocks = t, ![p].cur.pend = pend]
      BY <1>5, <3>1 DEF Create
    <3> HIDE DEF t, pend
    <3> QED BY <3>1, <3>2 DEF ObjType, SessionType
  <2>3. B \in Seq(Block) /\ Range(B) = {created'}
    BY <1>2 DEF Range
  <2> HIDE DEF B
  <2>4. t \in Seq(Entry) /\ Ids(Range(t)) = Ids(Range(s.blocks)) \cup Range(B)
    BY <1>3, <2>3, JoinedBlocksKeep
  <2>5. /\ files' \in SUBSET Entry /\ IsFiniteSet(files') /\ Range(B) \subseteq Ids(files')
        /\ DistinctSeconds => Ids(files) \subseteq Ids(files')
    BY <1>3, <2>1, <2>3, JoinedFilesKeep DEF SessionInv, TypeOK
  <2> HIDE DEF t
  <2>6. pend \in BOOLEAN
    BY <1>3
  <2> HIDE DEF pend
  <2>7. c \in SessionType /\ c.flag = s.flag /\ c.blocks = t
    BY <1>3, <2>4, <2>6 DEF SessionType
  <2> HIDE DEF c
  <2>8. /\ o \in ObjType /\ o.cur = c /\ o.pc = obj[p].pc /\ o.done = obj[p].done
        /\ o.snap = obj[p].snap /\ o.replaced = obj[p].replaced
    BY <1>3, <2>7, CurrentReplaced
  <2> HIDE DEF o
  <2>9. ObjInv(p, o, chain', workLock')
    BY <1>1, <1>3, <2>7, <2>8 DEF ObjInv
  <2>10. DistinctSeconds => Kept
    BY <2>5 DEF Kept
  <2>11. Ids(Range(o.cur.blocks)) \subseteq Ids(Range(obj[p].cur.blocks)) \cup Ids(files')
    BY <2>4, <2>5, <2>7, <2>8
  <2> QED BY <1>1, <1>2, <2>2, <2>5, <2>8, <2>9, <2>10, <2>11, ObjectSteps
      DEF SessionInv, TypeOK
<1> QED BY <1>4, <1>5

\* delete_block: the file that goes is one of this second.
LEMMA DeleteStep ==
  ASSUME SessionInv, NEW p \in Object, NEW i \in Block, Delete(p, i)
  PROVE  Preserves
<1> DEFINE s == obj[p].cur
           b == s.blocks[i].id
           t == [j \in 1 .. Len(s.blocks) - 1 |-> IF j < i THEN s.blocks[j] ELSE s.blocks[j + 1]]
           c == [s EXCEPT !.blocks = t]
           o == [obj[p] EXCEPT !.cur = c]
<1>1. /\ p \in Front /\ i \in DOMAIN s.blocks /\ gone' = gone \cup {b}
      /\ UNCHANGED <<chain, flock, workLock, marker, created>>
  BY DEF Delete, MayRemove
<1>2. obj' = [obj EXCEPT ![p] = o]
  BY DEF Delete
<1>3. /\ s \in SessionType /\ obj[p] \in ObjType /\ ObjInv(p, obj[p], chain, workLock)
      /\ s.blocks \in Seq(Entry) /\ s.queue \in Seq(Block)
  BY ObjectFields
<1>4. files' = files \/ \E f \in files : TimeOf[f.id] = TimeOf[b] /\ files' = files \ {f}
  BY DEF Delete
<1>5. b \in Block
  BY <1>1, <1>3, EntryFields
<1>6. /\ DOMAIN s.blocks = 1 .. Len(s.blocks) /\ Len(s.blocks) \in Nat
      /\ \A j \in DOMAIN s.blocks : s.blocks[j] \in Entry
  BY <1>3
<1>7. \A j \in 1 .. Len(s.blocks) - 1 :
        j \in DOMAIN s.blocks /\ j + 1 \in DOMAIN s.blocks /\ t[j] \in Entry
        /\ t[j] \in {s.blocks[j], s.blocks[j + 1]}
  BY <1>6
<1>8. t \in Seq(Entry)
  <2> DEFINE n == Len(s.blocks) - 1
  <2>1. n \in Nat
    BY <1>1, <1>6
  <2>2. t \in [1 .. n -> Entry]
    BY <1>7
  <2> HIDE DEF n, t
  <2> QED BY <2>1, <2>2
<1>9. DOMAIN t = 1 .. Len(s.blocks) - 1
  OBVIOUS
<1> HIDE DEF t
<1>10. Ids(Range(t)) \subseteq Ids(Range(s.blocks))
  <2>1. Range(t) \subseteq Range(s.blocks)
    BY <1>7, <1>9 DEF Range
  <2> QED BY <2>1 DEF Ids
<1> HIDE DEF b
<1>11. c \in SessionType /\ c.flag = s.flag /\ c.blocks = t
  BY <1>3, <1>8 DEF SessionType
<1> HIDE DEF c
<1>12. /\ o \in ObjType /\ o.cur = c /\ o.pc = obj[p].pc /\ o.done = obj[p].done
       /\ o.snap = obj[p].snap /\ o.replaced = obj[p].replaced
  BY <1>3, <1>11, CurrentReplaced
<1> HIDE DEF o
<1>13. ObjInv(p, o, chain', workLock')
  BY <1>1, <1>3, <1>11, <1>12 DEF ObjInv
<1>14. files' \in SUBSET files /\ files \in SUBSET Entry /\ IsFiniteSet(files)
  BY <1>4 DEF SessionInv, TypeOK
<1>15. IsFiniteSet(files')
  BY <1>14, FS_Subset
<1>16. DistinctSeconds => Kept
  BY <1>1, <1>4, <1>5, <1>14, EntryFields DEF Kept, DistinctSeconds, Ids
<1>17. gone' \in SUBSET Block
  BY <1>1, <1>5 DEF SessionInv, TypeOK
<1> QED BY <1>1, <1>2, <1>10, <1>11, <1>12, <1>13, <1>14, <1>15, <1>16, <1>17, ObjectSteps
    DEF SessionInv, TypeOK

\* discard_session: everything there is is gone.
LEMMA DiscardStep ==
  ASSUME SessionInv, NEW p \in Object, NEW mark \in BOOLEAN, Discard(p, mark)
  PROVE  Preserves
<1> DEFINE s == obj[p].cur
           old == IF obj[p].pc = "idle" \/ obj[p].replaced THEN obj[p].old
                  ELSE [s EXCEPT !.blocks = <<>>]
           rep == obj[p].pc # "idle"
           o == [obj[p] EXCEPT !.cur = NewSession, !.old = old, !.replaced = rep]
<1>1. /\ p \in Front /\ files' = {} /\ marker' = (marker \/ mark)
      /\ gone' = gone \cup Ids(files) \cup Ids(Range(s.blocks)) \cup Range(s.queue)
      /\ UNCHANGED <<chain, flock, workLock, created>>
  BY DEF Discard, MayRemove
<1>2. obj' = [obj EXCEPT ![p] = o]
  BY DEF Discard
<1>3. /\ s \in SessionType /\ obj[p] \in ObjType /\ ObjInv(p, obj[p], chain, workLock)
      /\ s.blocks \in Seq(Entry) /\ s.queue \in Seq(Block) /\ obj[p].old \in SessionType
  BY ObjectFields
<1>4. old \in SessionType
  <2>1. [s EXCEPT !.blocks = <<>>] \in SessionType
    BY <1>3, <<>> \in Seq(Entry) DEF SessionType
  <2> QED BY <1>3, <2>1
<1> HIDE DEF old
<1>5. o \in ObjType /\ o.cur = NewSession /\ o.pc = obj[p].pc /\ o.done = obj[p].done
      /\ o.snap = obj[p].snap /\ (o.replaced => obj[p].pc \in {"scan", "post"})
  <2>1. rep \in BOOLEAN
    OBVIOUS
  <2>2. rep => obj[p].pc \in {"scan", "post"}
    BY DEF Discard, MayRemove
  <2> HIDE DEF rep
  <2> QED BY <1>3, <1>4, <2>1, <2>2, NotLoadedType DEF ObjType
<1> HIDE DEF o, rep
<1>6. ObjInv(p, o, chain', workLock')
  BY <1>1, <1>3, <1>5, NotLoadedType DEF ObjInv
<1>7. gone' \in SUBSET Block /\ gone \subseteq gone' /\ Ids(files) \subseteq gone'
  <2>1. Ids(files) \subseteq Block
    BY EntryFields DEF SessionInv, TypeOK, Ids
  <2>2. Ids(Range(s.blocks)) \subseteq Block
    BY <1>3, EntryFields DEF Ids, Range
  <2>3. Range(s.queue) \subseteq Block
    BY <1>3 DEF Range
  <2> QED BY <1>1, <2>1, <2>2, <2>3 DEF SessionInv, TypeOK
<1>8. Kept
  BY <1>7 DEF Kept
<1>9. o.cur.blocks = <<>> /\ Ids(Range(<<>>)) = {}
  BY <1>5, NotLoadedType DEF Ids, Range
<1>10. IsFiniteSet(files')
  BY <1>1, FS_EmptySet
<1>11. marker' \in BOOLEAN
  BY <1>1 DEF SessionInv, TypeOK
<1> QED BY <1>1, <1>2, <1>5, <1>6, <1>7, <1>8, <1>9, <1>10, <1>11, ObjectSteps
    DEF SessionInv, TypeOK

-----------------------------------------------------------------------------
(* check_and_auto_anchor *)

LEMMA ObjUpdated ==
  ASSUME SessionInv, NEW p \in Object, NEW o \in ObjType, obj' = [obj EXCEPT ![p] = o]
  PROVE  /\ obj' \in [Object -> ObjType] /\ obj'[p] = o
         /\ \A q \in Object \ {p} : obj'[q] = obj[q]
BY DEF SessionInv, TypeOK

LEMMA SkipStep ==
  ASSUME SessionInv, NEW p \in Object, SkipAutoAnchor(p)
  PROVE  Preserves
<1> DEFINE c == [obj[p].cur EXCEPT !.pend = FALSE]
           o == [obj[p] EXCEPT !.cur = c]
<1>1. obj' = [obj EXCEPT ![p] = o] /\ UNCHANGED <<files, chain, flock, workLock, marker, created, gone>>
  BY DEF SkipAutoAnchor
<1>2. c \in SessionType /\ c.flag = obj[p].cur.flag /\ c.blocks = obj[p].cur.blocks
  BY ObjectFields DEF SessionType
<1> HIDE DEF c
<1>3. /\ o \in ObjType /\ o.cur = c /\ o.pc = obj[p].pc /\ o.done = obj[p].done
      /\ o.snap = obj[p].snap /\ o.replaced = obj[p].replaced
  BY <1>2, ObjectFields, CurrentReplaced
<1> HIDE DEF o
<1>4. ObjInv(p, o, chain, workLock)
  BY <1>2, <1>3, ObjectFields DEF ObjInv
<1> QED BY <1>1, <1>2, <1>3, <1>4, QuietSteps DEF SessionInv, TypeOK

\* The session is left to the subprocess.
LEMMA SpawnStep ==
  ASSUME SessionInv, NEW p \in Object, Spawn(p)
  PROVE  Preserves
<1> DEFINE c == [obj[p].cur EXCEPT !.pend = FALSE, !.blocks = <<>>]
           o == [obj[p] EXCEPT !.cur = c]
           w == [NotLoaded EXCEPT !.pc = "start"]
<1>1. /\ p \in Front /\ p # Worker /\ workLock'
      /\ UNCHANGED <<files, chain, flock, marker, created, gone>>
  BY SessionConstants DEF Spawn, PendingAnchor
<1>2. obj \in [Object -> ObjType]
  BY DEF SessionInv, TypeOK
<1>3. obj' = [obj EXCEPT ![p] = o, ![Worker] = w]
  <2>1. obj' = [obj EXCEPT ![p].cur.pend = FALSE, ![p].cur.blocks = <<>>, ![Worker] = w]
    BY DEF Spawn
  <2> HIDE DEF w
  <2> QED BY <1>1, <1>2, <2>1 DEF ObjType, SessionType
<1>4. c \in SessionType /\ c.flag = obj[p].cur.flag /\ c.blocks = <<>>
  BY ObjectFields, <<>> \in Seq(Entry) DEF SessionType
<1> HIDE DEF c
<1>5. /\ o \in ObjType /\ o.cur = c /\ o.pc = obj[p].pc /\ o.done = obj[p].done
      /\ o.snap = obj[p].snap /\ o.replaced = obj[p].replaced
  BY <1>4, ObjectFields, CurrentReplaced
<1>6. w \in ObjType /\ w.pc = "start" /\ w.cur = NewSession /\ w.done = 0 /\ w.snap = <<>>
      /\ ~w.replaced
  BY NotLoadedType DEF ObjType, PC
<1> HIDE DEF o, w
<1>7. ObjInv(p, o, chain', workLock') /\ ObjInv(Worker, w, chain', workLock')
  BY <1>1, <1>4, <1>5, <1>6, ObjectFields, NotLoadedType, IdleInv DEF ObjInv
<1>8. /\ obj' \in [Object -> ObjType] /\ obj'[p] = o /\ obj'[Worker] = w
      /\ \A q \in Object \ {p, Worker} : obj'[q] = obj[q]
  BY <1>1, <1>2, <1>3, <1>5, <1>6, SessionConstants
<1>9. \A q \in Object \ {p, Worker} : ObjInv(q, obj'[q], chain', workLock')
  BY <1>1, <1>8 DEF SessionInv, ObjInv
<1>10. \A q \in Object : ObjInv(q, obj'[q], chain', workLock')
  BY <1>7, <1>8, <1>9
<1>11. SessionInv'
  BY <1>1, <1>8, <1>10 DEF SessionInv, TypeOK
<1>12. Kept
  BY <1>1 DEF Kept
<1>13. SavedForRecovery => SavedForRecovery'
  <2>1. Ids(Range(obj'[p].cur.blocks)) = {}
    BY <1>4, <1>5, <1>8 DEF Ids, Range
  <2>2. \A q \in Front \ {p} : obj'[q] = obj[q]
    BY <1>8, SessionConstants
  <2> QED BY <1>1, <2>1, <2>2 DEF SavedForRecovery
<1> QED BY <1>11, <1>12, <1>13 DEF Preserves

\* The anchor becomes a task of this process, or a second anchor that fails.
LEMMA FallbackStep ==
  ASSUME SessionInv, NEW p \in Object, NEW np \in BOOLEAN, Fallback(p, np)
  PROVE  Preserves
<1> DEFINE s == obj[p].cur
<1>1. /\ p \in Front /\ p # Worker /\ workLock' = (workLock \/ ~np)
      /\ UNCHANGED <<chain, flock, marker, created, gone>>
  BY SessionConstants DEF Fallback, PendingAnchor
<1>2. obj \in [Object -> ObjType] /\ workLock' \in BOOLEAN /\ (workLock => workLock')
  BY <1>1 DEF SessionInv, TypeOK
<1>3. /\ s \in SessionType /\ obj[p] \in ObjType /\ ObjInv(p, obj[p], chain, workLock)
      /\ s.blocks \in Seq(Entry) /\ s.queue \in Seq(Block)
  BY ObjectFields
<1>4. CASE /\ obj[p].pc = "idle"
           /\ obj' = [obj EXCEPT ![p].pc = "task", ![p].auto = TRUE,
                                 ![p].cur = [@ EXCEPT !.flag = TRUE, !.pend = FALSE]]
           /\ UNCHANGED files
  <2> DEFINE c == [s EXCEPT !.flag = TRUE, !.pend = FALSE]
             o == [obj[p] EXCEPT !.pc = "task", !.auto = TRUE, !.cur = c]
  <2>1. obj' = [obj EXCEPT ![p] = o]
    BY <1>2, <1>4 DEF ObjType, SessionType
  <2>2. c \in SessionType /\ c.blocks = s.blocks
    BY <1>3 DEF SessionType
  <2> HIDE DEF c
  <2>3. /\ o \in ObjType /\ o.cur = c /\ o.pc = "task" /\ o.done = obj[p].done
        /\ o.snap = obj[p].snap /\ o.replaced = obj[p].replaced
    BY <1>3, <2>2 DEF ObjType, PC, Awaiting
  <2> HIDE DEF o
  <2>4. ~obj[p].replaced
    BY <1>3, <1>4 DEF ObjInv
  <2>5. ObjInv(p, o, chain, workLock')
    BY <1>1, <1>3, <1>4, <2>2, <2>3, <2>4 DEF ObjInv
  <2> QED BY <1>1, <1>2, <1>4, <2>1, <2>2, <2>3, <2>5, QuietSteps DEF SessionInv, TypeOK
<1>5. CASE /\ obj[p].pc \in {"scan", "post"}
           /\ obj' = [obj EXCEPT ![p].cur.blocks = JoinedBlocks(@, s.queue),
                                 ![p].cur.queue = <<>>,
                                 ![p].cur.flag = FALSE, ![p].cur.pend = FALSE]
           /\ files' = JoinedFiles(files, s.blocks, s.queue)
  <2> DEFINE t == JoinedBlocks(s.blocks, s.queue)
             c == [s EXCEPT !.blocks = t, !.queue = <<>>, !.flag = FALSE, !.pend = FALSE]
             o == [obj[p] EXCEPT !.cur = c]
  <2>1. t \in Seq(Entry) /\ Ids(Range(t)) = Ids(Range(s.blocks)) \cup Range(s.queue)
    BY <1>3, JoinedBlocksKeep
  <2>2. /\ files' \in SUBSET Entry /\ IsFiniteSet(files') /\ Range(s.queue) \subseteq Ids(files')
        /\ DistinctSeconds => Ids(files) \subseteq Ids(files')
    BY <1>3, <1>5, JoinedFilesKeep DEF SessionInv, TypeOK
  <2>3. obj' = [obj EXCEPT ![p] = o]
    <3>1. obj' = [obj EXCEPT ![p].cur.blocks = t, ![p].cur.queue = <<>>,
                             ![p].cur.flag = FALSE, ![p].cur.pend = FALSE]
      BY <1>2, <1>5
    <3> HIDE DEF t
    <3> QED BY <1>2, <3>1 DEF ObjType, SessionType
  <2> HIDE DEF t
  <2>4. c \in SessionType /\ ~c.flag /\ c.blocks = t
    BY <1>3, <2>1, <<>> \in Seq(Block) DEF SessionType
  <2> HIDE DEF c
  <2>5. /\ o \in ObjType /\ o.cur = c /\ o.pc = obj[p].pc /\ o.done = obj[p].done
        /\ o.snap = obj[p].snap /\ o.replaced = obj[p].replaced
    BY <1>3, <2>4, CurrentReplaced
  <2> HIDE DEF o
  <2>6. ObjInv(p, o, chain', workLock')
    BY <1>1, <1>3, <2>4, <2>5 DEF ObjInv
  <2>7. DistinctSeconds => Kept
    BY <2>2 DEF Kept
  <2>8. Ids(Range(o.cur.blocks)) \subseteq Ids(Range(obj[p].cur.blocks)) \cup Ids(files')
    BY <2>1, <2>2, <2>4, <2>5
  <2> QED BY <1>1, <1>2, <2>2, <2>3, <2>5, <2>6, <2>7, <2>8, ObjectSteps
      DEF SessionInv, TypeOK
<1> QED BY <1>4, <1>5 DEF Fallback

\* The subprocess gives up, or starts to anchor.
LEMMA WorkerSteps ==
  ASSUME SessionInv, WorkerGivesUp \/ WorkerStarts
  PROVE  Preserves
<1>1. Worker \in Object /\ Worker \notin Front
  BY SessionConstants
<1>2. CASE WorkerGivesUp
  <2>1. ObjInv(Worker, NotLoaded, chain', workLock')
    BY NotLoadedType, IdleInv
  <2>2. Kept
    BY <1>2 DEF WorkerGivesUp, Kept
  <2> QED BY <1>1, <1>2, <2>1, <2>2, NotLoadedType, ObjectSteps
      DEF WorkerGivesUp, SessionInv, TypeOK
<1>3. CASE WorkerStarts
  <2> DEFINE c == [obj[Worker].cur EXCEPT !.flag = TRUE]
             o == [obj[Worker] EXCEPT !.pc = "wait", !.cur = c]
  <2>1. /\ obj[Worker].pc = "check"
        /\ UNCHANGED <<files, chain, flock, workLock, marker, created, gone>>
    BY <1>3 DEF WorkerStarts
  <2>2. obj \in [Object -> ObjType] /\ obj[Worker] \in ObjType /\ obj[Worker].cur \in SessionType
    BY <1>1, ObjectFields DEF SessionInv, TypeOK
  <2>3. obj' = [obj EXCEPT ![Worker] = o]
    BY <1>1, <1>3, <2>2 DEF WorkerStarts, ObjType, SessionType
  <2>4. c \in SessionType
    BY <2>2 DEF SessionType
  <2> HIDE DEF c
  <2>5. /\ o \in ObjType /\ o.pc = "wait" /\ o.done = obj[Worker].done
        /\ o.snap = obj[Worker].snap /\ o.replaced = obj[Worker].replaced
    BY <2>2, <2>4 DEF ObjType, PC
  <2> HIDE DEF o
  <2>6. ObjInv(Worker, o, chain, workLock)
    BY <1>1, <2>1, <2>5, ObjectFields DEF ObjInv
  <2> QED BY <1>1, <2>1, <2>3, <2>5, <2>6, QuietSteps DEF SessionInv, TypeOK
<1> QED BY <1>2, <1>3

-----------------------------------------------------------------------------
(* anchor_to_chain *)

\* The session on which the anchor was called.
LEMMA AnchoredSession ==
  ASSUME SessionInv, NEW p \in Object
  PROVE  /\ obj[p][Anchored(p)] = IF obj[p].replaced THEN obj[p].old ELSE obj[p].cur
         /\ obj[p][Anchored(p)] \in SessionType
         /\ obj[p][Anchored(p)].blocks \in Seq(Entry)
         /\ obj[p][Anchored(p)].queue \in Seq(Block)
<1>1. CASE obj[p].replaced
  <2>1. Anchored(p) = "old"
    BY <1>1 DEF Anchored
  <2>2. obj[p]["old"] = obj[p].old
    OBVIOUS
  <2> QED BY <1>1, <2>1, <2>2, ObjectFields
<1>2. CASE ~obj[p].replaced
  <2>1. Anchored(p) = "cur"
    BY <1>2 DEF Anchored
  <2>2. obj[p]["cur"] = obj[p].cur
    OBVIOUS
  <2> QED BY <1>2, <2>1, <2>2, ObjectFields
<1> QED BY <1>1, <1>2

\* An anchor is over, whichever way.
LEMMA LeaveStep ==
  ASSUME SessionInv, NEW p \in Object, NEW F \in SUBSET Entry, IsFiniteSet(F),
         Leave(p, F), UNCHANGED chain,
         DistinctSeconds => Ids(files) \subseteq Ids(F) \cup Range(chain)
  PROVE  Preserves
<1> DEFINE s == obj[p][Anchored(p)]
           flushed == FlushedOnExit(p)
           t == JoinedBlocks(s.blocks, flushed)
           rest == IF flushed = <<>> THEN s.queue ELSE <<>>
           left == [s EXCEPT !.blocks = t, !.queue = rest, !.flag = FALSE]
           c == IF obj[p].replaced THEN obj[p].cur ELSE left
           k == obj[p].known
           o == IF p = Worker THEN NotLoaded
                ELSE [NotLoaded EXCEPT !.pc = "idle", !.known = k, !.cur = c]
<1>1. /\ s = IF obj[p].replaced THEN obj[p].old ELSE obj[p].cur
      /\ s \in SessionType /\ s.blocks \in Seq(Entry) /\ s.queue \in Seq(Block)
  BY AnchoredSession
<1>2. /\ obj[p].cur \in SessionType /\ k \in Nat /\ ObjInv(p, obj[p], chain, workLock)
  BY ObjectFields
<1>3. flushed \in Seq(Block)
  BY <1>1 DEF FlushedOnExit
<1>4. /\ files' = JoinedFiles(F, s.blocks, flushed) /\ flock' = Unlocked(p)
      /\ workLock' = (workLock /\ p # Worker) /\ UNCHANGED <<marker, created, gone>>
  BY DEF Leave
<1>5. obj' = [obj EXCEPT ![p] = o]
  <2>1. ResetFlag([s EXCEPT !.blocks = t, !.queue = rest])
          = [s EXCEPT !.blocks = t, !.queue = rest, !.flag = FALSE]
    BY DEF ResetFlag
  <2>2. obj' = [obj EXCEPT ![p] =
                 IF p = Worker THEN NotLoaded
                 ELSE [NotLoaded EXCEPT !.pc = "idle", !.known = k,
                         !.cur = IF obj[p].replaced THEN obj[p].cur
                                 ELSE ResetFlag([s EXCEPT !.blocks = t, !.queue = rest])]]
    BY DEF Leave
  <2> HIDE DEF s, t, rest, flushed, k
  <2> QED BY <2>1, <2>2
<1> HIDE DEF s, flushed
<1>6. t \in Seq(Entry) /\ Ids(Range(t)) = Ids(Range(s.blocks)) \cup Range(flushed)
  BY <1>1, <1>3, JoinedBlocksKeep
<1>7. /\ files' \in SUBSET Entry /\ IsFiniteSet(files') /\ Range(flushed) \subseteq Ids(files')
      /\ DistinctSeconds => Ids(F) \subseteq Ids(files')
  BY <1>1, <1>3, <1>4, JoinedFilesKeep
<1>8. rest \in Seq(Block)
  BY <1>1
<1> HIDE DEF t, rest, k
<1>9. left \in SessionType /\ left.blocks = t /\ ~left.flag
  BY <1>1, <1>6, <1>8 DEF SessionType
<1> HIDE DEF left
<1>10. c \in SessionType /\ ~c.flag
       /\ Ids(Range(c.blocks)) \subseteq Ids(Range(obj[p].cur.blocks)) \cup Ids(files')
  <2>1. CASE obj[p].replaced
    BY <1>2, <2>1 DEF ObjInv
  <2>2. CASE ~obj[p].replaced
    BY <1>1, <1>6, <1>7, <1>9, <2>2
  <2> QED BY <2>1, <2>2
<1> HIDE DEF c
<1>11. /\ o \in ObjType /\ o.done = 0 /\ o.snap = <<>> /\ ~o.replaced
       /\ IF p = Worker THEN o.pc = "down" ELSE o.pc = "idle" /\ o.cur = c
       /\ ~o.cur.flag
  <2>1. CASE p = Worker
    BY <2>1, NotLoadedType
  <2>2. CASE p # Worker
    <3>1. o = [NotLoaded EXCEPT !.pc = "idle", !.known = k, !.cur = c]
      BY <2>2
    <3> HIDE DEF o
    <3> QED BY <1>2, <1>10, <2>2, <3>1, NotLoadedType DEF ObjType, PC, Awaiting
  <2> QED BY <2>1, <2>2
<1> HIDE DEF o
<1>12. ObjInv(p, o, chain', workLock')
  BY <1>4, <1>11, IdleInv
<1>13. DistinctSeconds => Kept
  BY <1>7 DEF Kept
<1>14. flock' \in Object \cup {NoOne}
  BY <1>4 DEF Unlocked, SessionInv, TypeOK
<1>15. workLock' \in BOOLEAN
  BY <1>4
<1>16. workLock => workLock' \/ obj'[Worker].pc = "down"
  BY <1>4, <1>5, <1>11, ObjUpdated
<1>17. p \in Front =>
         Ids(Range(o.cur.blocks)) \subseteq Ids(Range(obj[p].cur.blocks)) \cup Ids(files')
  BY <1>10, <1>11, SessionConstants
<1> QED BY <1>4, <1>5, <1>7, <1>11, <1>12, <1>13, <1>14, <1>15, <1>16, <1>17, ObjectSteps
    DEF SessionInv, TypeOK

\* The exits that leave the files as they are.
LEMMA ExitStep ==
  ASSUME SessionInv, NEW p \in Object, Leave(p, files), UNCHANGED chain
  PROVE  Preserves
BY LeaveStep DEF SessionInv, TypeOK

\* The files are cleaned up again before the exit.
LEMMA FinishStep ==
  ASSUME SessionInv, NEW p \in Object, Finish(p)
  PROVE  Preserves
<1> DEFINE B == Range(obj[p].snap)
<1>1. B \in SUBSET Block /\ B \subseteq Range(chain)
  BY ObjectFields DEF Finish, ObjInv
<1>2. Leave(p, CleanedUp(files, B)) /\ UNCHANGED chain
  BY DEF Finish
<1> HIDE DEF B
<1>3. files \in SUBSET Entry /\ IsFiniteSet(files)
  BY DEF SessionInv, TypeOK
<1>4. /\ CleanedUp(files, B) \in SUBSET files /\ IsFiniteSet(CleanedUp(files, B))
      /\ DistinctSeconds => Ids(files) \subseteq Ids(CleanedUp(files, B)) \cup B
  BY <1>1, <1>3, CleanedUpKeeps
<1> QED BY <1>1, <1>2, <1>3, <1>4, LeaveStep

\* An anchor begins, by command or as a task, or another is refused.
LEMMA BeginSteps ==
  ASSUME SessionInv, NEW p \in Object, Begin(p) \/ StartTask(p) \/ SecondAnchor(p)
  PROVE  Preserves
<1>1. /\ obj \in [Object -> ObjType] /\ obj[p] \in ObjType /\ obj[p].cur \in SessionType
      /\ ObjInv(p, obj[p], chain, workLock)
  BY ObjectFields DEF SessionInv, TypeOK
<1>2. CASE Begin(p)
  <2> DEFINE c == [obj[p].cur EXCEPT !.flag = TRUE]
             o == [obj[p] EXCEPT !.pc = "wait", !.cur = c]
  <2>1. /\ obj[p].pc = "idle" /\ p # Worker
        /\ UNCHANGED <<files, chain, flock, workLock, marker, created, gone>>
    BY <1>2, SessionConstants DEF Begin
  <2>2. obj' = [obj EXCEPT ![p] = o]
    BY <1>1, <1>2 DEF Begin, ObjType, SessionType
  <2>3. c \in SessionType /\ c.blocks = obj[p].cur.blocks
    BY <1>1 DEF SessionType
  <2> HIDE DEF c
  <2>4. /\ o \in ObjType /\ o.pc = "wait" /\ o.cur = c /\ o.done = obj[p].done
        /\ o.snap = obj[p].snap /\ o.replaced = obj[p].replaced
    BY <1>1, <2>3 DEF ObjType, PC
  <2> HIDE DEF o
  <2>5. ObjInv(p, o, chain, workLock)
    BY <1>1, <2>1, <2>4 DEF ObjInv
  <2> QED BY <2>1, <2>2, <2>3, <2>4, <2>5, QuietSteps DEF SessionInv, TypeOK
<1>3. CASE StartTask(p) /\ obj[p].cur.blocks # <<>>
  <2> DEFINE o == [obj[p] EXCEPT !.pc = "wait"]
  <2>1. /\ obj[p].pc = "task" /\ obj' = [obj EXCEPT ![p] = o]
        /\ UNCHANGED <<files, chain, flock, workLock, marker, created, gone>>
    BY <1>3 DEF StartTask
  <2>2. /\ o \in ObjType /\ o.pc = "wait" /\ o.cur = obj[p].cur /\ o.done = obj[p].done
        /\ o.snap = obj[p].snap /\ o.replaced = obj[p].replaced
    BY <1>1 DEF ObjType, PC
  <2> HIDE DEF o
  <2>3. ObjInv(p, o, chain, workLock)
    BY <1>1, <2>1, <2>2 DEF ObjInv
  <2> QED BY <2>1, <2>2, <2>3, QuietSteps DEF SessionInv, TypeOK
<1>4. CASE StartTask(p) /\ obj[p].cur.blocks = <<>>
  BY <1>4, ExitStep DEF StartTask
<1>5. CASE SecondAnchor(p)
  <2> DEFINE c == [obj[p].cur EXCEPT !.flag = FALSE]
             o == [obj[p] EXCEPT !.cur = c]
  <2>1. obj' = [obj EXCEPT ![p] = o]
        /\ UNCHANGED <<files, chain, flock, workLock, marker, created, gone>>
    BY <1>5 DEF SecondAnchor
  <2>2. c \in SessionType /\ c.blocks = obj[p].cur.blocks /\ ~c.flag
    BY <1>1 DEF SessionType
  <2> HIDE DEF c
  <2>3. /\ o \in ObjType /\ o.pc = obj[p].pc /\ o.cur = c /\ o.done = obj[p].done
        /\ o.snap = obj[p].snap /\ o.replaced = obj[p].replaced
    BY <1>1, <2>2, CurrentReplaced
  <2> HIDE DEF o
  <2>4. ObjInv(p, o, chain, workLock)
    BY <1>1, <2>2, <2>3 DEF ObjInv
  <2> QED BY <2>1, <2>2, <2>3, <2>4, QuietSteps DEF SessionInv, TypeOK
<1> QED BY <1>2, <1>3, <1>4, <1>5

\* The lock is taken, and the blocks of the session are those to anchor.
LEMMA GetLockStep ==
  ASSUME SessionInv, NEW p \in Object, GetLock(p) \/ LockTimeout(p)
  PROVE  Preserves
<1>1. /\ obj[p] \in ObjType /\ ObjInv(p, obj[p], chain, workLock)
      /\ obj[p].cur.blocks \in Seq(Entry)
  BY ObjectFields
<1>2. CASE GetLock(p)
  <2> DEFINE B == obj[p].cur.blocks
             t == [i \in DOMAIN B |-> B[i].id]
             o == [obj[p] EXCEPT !.pc = "scan", !.snap = t]
  <2>1. /\ obj[p].pc = "wait" /\ flock' = p /\ obj' = [obj EXCEPT ![p] = o]
        /\ UNCHANGED <<files, chain, workLock, marker, created, gone>>
    BY <1>2 DEF GetLock
  <2>2. t \in Seq(Block)
    <3>1. DOMAIN B = 1 .. Len(B) /\ Len(B) \in Nat /\ \A i \in DOMAIN B : B[i].id \in Block
      BY <1>1, EntryFields
    <3> QED BY <3>1
  <2> HIDE DEF t
  <2>3. /\ o \in ObjType /\ o.pc = "scan" /\ o.cur = obj[p].cur /\ o.done = obj[p].done
        /\ o.snap = t /\ o.replaced = obj[p].replaced
    BY <1>1, <2>2 DEF ObjType, PC, Awaiting
  <2> HIDE DEF o
  <2>4. ObjInv(p, o, chain, workLock)
    BY <1>1, <2>1, <2>2, <2>3 DEF ObjInv
  <2> QED BY <2>1, <2>3, <2>4, QuietSteps DEF SessionInv, TypeOK
<1>3. CASE LockTimeout(p)
  BY <1>3, ExitStep DEF LockTimeout
<1> QED BY <1>2, <1>3

\* The scan returns; the anchor is interrupted.
LEMMA ScanSteps ==
  ASSUME SessionInv, NEW p \in Object, Scanned(p) \/ Interrupted(p)
  PROVE  Preserves
<1>1. obj[p] \in ObjType /\ ObjInv(p, obj[p], chain, workLock)
  BY ObjectFields
<1>2. CASE Scanned(p)
  <2> DEFINE o == [obj[p] EXCEPT !.pc = "convert"]
  <2>1. /\ obj[p].pc = "scan" /\ obj' = [obj EXCEPT ![p] = o]
        /\ UNCHANGED <<files, chain, flock, workLock, marker, created, gone>>
    BY <1>2 DEF Scanned
  <2>2. /\ o \in ObjType /\ o.pc = "convert" /\ o.cur = obj[p].cur /\ o.done = obj[p].done
        /\ o.snap = obj[p].snap /\ o.replaced = obj[p].replaced
    BY <1>1 DEF ObjType, PC
  <2> HIDE DEF o
  <2>3. ObjInv(p, o, chain, workLock)
    BY <1>1, <2>1, <2>2 DEF ObjInv
  <2> QED BY <2>1, <2>2, <2>3, QuietSteps DEF SessionInv, TypeOK
<1>3. CASE Interrupted(p)
  BY <1>3, ExitStep DEF Interrupted
<1> QED BY <1>2, <1>3

\* A block becomes permanent.
LEMMA ConvertStep ==
  ASSUME SessionInv, NEW p \in Object, Convert(p)
  PROVE  Preserves
<1>1. /\ obj[p] \in ObjType /\ ObjInv(p, obj[p], chain, workLock) /\ obj[p].cur \in SessionType
      /\ obj[p].snap \in Seq(Block) /\ obj[p].done \in Nat /\ obj[p].known \in Nat
  BY ObjectFields
<1>2. obj[p].pc = "convert" /\ obj[p].done < Len(obj[p].snap)
  BY DEF Convert
<1>3. CASE Leave(p, files) /\ UNCHANGED chain
  BY <1>3, ExitStep
<1>4. CASE /\ chain' = Append(chain, obj[p].snap[obj[p].done + 1])
           /\ obj' = [obj EXCEPT ![p].done = @ + 1, ![p].known = @ + 1]
           /\ UNCHANGED <<files, flock, workLock, marker, created, gone>>
  <2> DEFINE d == obj[p].done + 1
             k == obj[p].known + 1
             o == [obj[p] EXCEPT !.done = d, !.known = k]
  <2>1. obj' = [obj EXCEPT ![p] = o]
    BY <1>4 DEF SessionInv, TypeOK, ObjType
  <2>2. d \in Nat /\ k \in Nat /\ d \in 1 .. Len(obj[p].snap) /\ obj[p].snap[d] \in Block
    BY <1>1, <1>2
  <2>3. /\ chain \in Seq(Block) /\ chain' \in Seq(Block)
        /\ Range(chain) \subseteq Range(chain') /\ obj[p].snap[d] \in Range(chain')
    <3>1. chain \in Seq(Block) /\ chain' = Append(chain, obj[p].snap[d])
      BY <1>4 DEF SessionInv, TypeOK
    <3> HIDE DEF d
    <3>2. /\ chain' \in Seq(Block) /\ Len(chain') = Len(chain) + 1 /\ Len(chain) \in Nat
          /\ \A i \in 1 .. Len(chain) : chain'[i] = chain[i]
          /\ chain'[Len(chain) + 1] = obj[p].snap[d]
      BY <2>2, <3>1
    <3>3. /\ DOMAIN chain = 1 .. Len(chain) /\ DOMAIN chain' = 1 .. Len(chain) + 1
      BY <3>1, <3>2
    <3> QED BY <3>1, <3>2, <3>3 DEF Range
  <2>4. \A i \in 1 .. d : i = d \/ i \in 1 .. obj[p].done
    BY <1>1
  <2>5. d <= Len(obj[p].snap)
    BY <1>1, <2>2
  <2> HIDE DEF d, k
  <2>6. /\ o \in ObjType /\ o.pc = obj[p].pc /\ o.cur = obj[p].cur /\ o.done = d
        /\ o.snap = obj[p].snap /\ o.replaced = obj[p].replaced
    BY <1>1, <2>2 DEF ObjType
  <2> HIDE DEF o
  <2>7. ObjInv(p, o, chain', workLock')
    BY <1>1, <1>2, <1>4, <2>3, <2>4, <2>5, <2>6 DEF ObjInv
  <2>8. Kept
    BY <1>4 DEF Kept
  <2> QED BY <1>4, <2>1, <2>3, <2>6, <2>7, <2>8, ObjectSteps DEF SessionInv, TypeOK
<1> QED BY <1>3, <1>4 DEF Convert

\* The session is cleared when all its blocks are permanent.
LEMMA ClearStep ==
  ASSUME SessionInv, NEW p \in Object, Clear(p)
  PROVE  Preserves
<1> DEFINE s == obj[p][Anchored(p)]
           B == Range(obj[p].snap)
           G == CleanedUp(files, B)
           t == JoinedBlocks(<<>>, s.queue)
           u == [s EXCEPT !.blocks = t, !.queue = <<>>, !.flag = FALSE]
           rep == obj[p].replaced
           o == IF rep THEN [obj[p] EXCEPT !.pc = "post", !.old = u]
                ELSE [obj[p] EXCEPT !.pc = "post", !.cur = u]
<1>1. /\ s = IF rep THEN obj[p].old ELSE obj[p].cur
      /\ s \in SessionType /\ s.blocks \in Seq(Entry) /\ s.queue \in Seq(Block)
  BY AnchoredSession
<1>2. /\ obj[p] \in ObjType /\ ObjInv(p, obj[p], chain, workLock) /\ B \in SUBSET Block
      /\ obj[p].snap \in Seq(Block) /\ obj[p].cur \in SessionType
  BY ObjectFields
<1>3. /\ obj[p].pc = "convert" /\ obj[p].done = Len(obj[p].snap)
      /\ files' = JoinedFiles(G, <<>>, s.queue)
      /\ UNCHANGED <<chain, flock, workLock, marker, created, gone>>
  BY DEF Clear
<1>4. obj' = [obj EXCEPT ![p] = o]
  <2>1. obj' = [obj EXCEPT ![p].pc = "post", ![p][Anchored(p)] = u]
    BY DEF Clear
  <2>2. obj \in [Object -> ObjType]
    BY DEF SessionInv, TypeOK
  <2> HIDE DEF u
  <2>3. CASE rep
    <3>1. Anchored(p) = "old"
      BY <2>3 DEF Anchored
    <3> QED BY <2>1, <2>2, <2>3, <3>1 DEF ObjType
  <2>4. CASE ~rep
    <3>1. Anchored(p) = "cur"
      BY <2>4 DEF Anchored
    <3> QED BY <2>1, <2>2, <2>4, <3>1 DEF ObjType
  <2> QED BY <2>3, <2>4
<1> HIDE DEF s
<1>5. B \subseteq Range(chain)
  BY <1>2, <1>3 DEF ObjInv, Range
<1>6. files \in SUBSET Entry /\ IsFiniteSet(files)
  BY DEF SessionInv, TypeOK
<1> HIDE DEF B
<1>7. /\ G \in SUBSET Entry /\ IsFiniteSet(G)
      /\ DistinctSeconds => Ids(files) \subseteq Ids(G) \cup Range(chain)
  BY <1>2, <1>5, <1>6, CleanedUpKeeps
<1> HIDE DEF G
<1>8. <<>> \in Seq(Entry) /\ <<>> \in Seq(Block) /\ Ids(Range(<<>>)) = {}
  BY DEF Ids, Range
<1>9. t \in Seq(Entry) /\ Ids(Range(t)) = Range(s.queue)
  <2> DEFINE E == <<>>
  <2>1. E \in Seq(Entry) /\ Ids(Range(E)) = {} /\ t = JoinedBlocks(E, s.queue)
    BY <1>8
  <2> HIDE DEF E, t
  <2>2. /\ JoinedBlocks(E, s.queue) \in Seq(Entry)
        /\ Ids(Range(JoinedBlocks(E, s.queue))) = Ids(Range(E)) \cup Range(s.queue)
    BY <1>1, <2>1, JoinedBlocksKeep
  <2> QED BY <2>1, <2>2
<1>10. /\ files' \in SUBSET Entry /\ IsFiniteSet(files') /\ Range(s.queue) \subseteq Ids(files')
       /\ DistinctSeconds => Ids(G) \subseteq Ids(files')
  BY <1>1, <1>3, <1>7, <1>8, JoinedFilesKeep
<1> HIDE DEF t
<1>11. u \in SessionType /\ u.blocks = t /\ ~u.flag
  BY <1>1, <1>8, <1>9 DEF SessionType
<1> HIDE DEF u
<1>12. /\ o \in ObjType /\ o.pc = "post" /\ o.done = obj[p].done
       /\ o.snap = obj[p].snap /\ o.replaced = obj[p].replaced
       /\ o.cur = IF rep THEN obj[p].cur ELSE u
  <2>1. CASE rep
    <3>1. o = [obj[p] EXCEPT !.pc = "post", !.old = u]
      BY <2>1
    <3> HIDE DEF o
    <3> QED BY <1>2, <1>11, <2>1, <3>1 DEF ObjType, PC, Awaiting
  <2>2. CASE ~rep
    <3>1. o = [obj[p] EXCEPT !.pc = "post", !.cur = u]
      BY <2>2
    <3> HIDE DEF o
    <3> QED BY <1>2, <1>11, <2>2, <3>1 DEF ObjType, PC, Awaiting
  <2> QED BY <2>1, <2>2
<1> HIDE DEF o
<1>13. ~o.cur.flag
  BY <1>2, <1>11, <1>12 DEF ObjInv
<1>14. ObjInv(p, o, chain', workLock')
  BY <1>2, <1>3, <1>5, <1>12, <1>13 DEF ObjInv, B
<1>15. DistinctSeconds => Kept
  BY <1>3, <1>7, <1>10 DEF Kept
<1>16. Ids(Range(o.cur.blocks)) \subseteq Ids(Range(obj[p].cur.blocks)) \cup Ids(files')
  BY <1>9, <1>10, <1>11, <1>12
<1> QED BY <1>3, <1>4, <1>10, <1>12, <1>14, <1>15, <1>16, ObjectSteps DEF SessionInv, TypeOK

-----------------------------------------------------------------------------
(* The theorems, whatever the environment does *)

LEMMA SessionNext == SessionInv /\ [Next]_vars => Preserves
<1> SUFFICES ASSUME SessionInv, [Next]_vars PROVE Preserves
  OBVIOUS
<1>1. ASSUME NEW p \in Object,
             \/ LoadFront(p) \/ Reload(p) \/ Crash(p)
             \/ Create(p) \/ (\E i \in Block : Delete(p, i))
             \/ (\E mark \in BOOLEAN : Discard(p, mark))
             \/ SkipAutoAnchor(p) \/ Spawn(p) \/ (\E np \in BOOLEAN : Fallback(p, np))
      PROVE  Preserves
  BY <1>1, LoadSteps, ReloadCrashSteps, CreateStep, DeleteStep, DiscardStep, SkipStep,
     SpawnStep, FallbackStep
<1>2. ASSUME NEW p \in Object, Begin(p) \/ SecondAnchor(p) \/ Proceed(p)
      PROVE  Preserves
  BY <1>2, BeginSteps, GetLockStep, ScanSteps, ConvertStep, ClearStep, FinishStep DEF Proceed
<1>3. CASE WorkerStep
  <2>1. CASE NothingLoaded
    BY <2>1, ExitStep, SessionConstants DEF NothingLoaded
  <2> QED BY <1>3, <2>1, LoadSteps, WorkerSteps DEF WorkerStep
<1>4. CASE UNCHANGED vars
  <2>1. SessionInv' /\ Kept /\ (SavedForRecovery => SavedForRecovery')
    BY <1>4 DEF vars, SessionInv, TypeOK, ObjInv, Kept, SavedForRecovery
  <2> QED BY <2>1 DEF Preserves
<1> QED BY <1>1, <1>2, <1>3, <1>4 DEF Next

LEMMA SessionInvHolds == Spec => []SessionInv
<1>1. Init => SessionInv
  BY SessionInit
<1>2. SessionInv /\ [Next]_vars => SessionInv'
  BY SessionNext DEF Preserves
<1> QED BY <1>1, <1>2, PTL DEF Spec

\* All variables have values of their types, whatever the environment does: sorting,
\* renumbering and the files of a session included.
THEOREM SessionTypes == Spec => []TypeOK
<1>1. SessionInv => TypeOK
  BY DEF SessionInv
<1> QED BY <1>1, SessionInvHolds, PTL

\* _anchor_in_progress is set only while the session is being anchored, whatever fails,
\* is refused, cancelled or repeated meanwhile, for any number of objects and blocks.
THEOREM FlagFollowsAnchor == Spec => []FlagMeansAnchoring
<1>1. SessionInv => FlagMeansAnchoring
  BY DEF SessionInv, ObjInv, FlagMeansAnchoring
<1> QED BY <1>1, SessionInvHolds, PTL

\* check_and_auto_anchor never starts a subprocess while the last one still runs: its
\* lock file is there as long as it is loaded.
THEOREM OneWorker == Spec => NoSecondWorker
<1>1. SessionInv /\ [Next]_vars
        => [(\E p \in Front : Spawn(p)) => obj[Worker].pc = "down"]_vars
  BY SessionConstants DEF SessionInv, ObjInv, Spawn, WorkLockFree
<1> QED BY <1>1, SessionInvHolds, PTL DEF Spec, NoSecondWorker

\* If no two blocks are created in one second, no step takes the last file of a block
\* that is neither permanent nor removed by the user: neither a cleanup, nor the
\* renumbering of any object, nor an anchor that fails, nor a crash.
THEOREM SavedStaysSaved == DistinctSeconds => (Spec => OnceSavedKept)
<1> SUFFICES ASSUME DistinctSeconds PROVE Spec => OnceSavedKept
  OBVIOUS
<1>1. SessionInv /\ [Next]_vars
        => [\A b \in Ids(files) : b \in Ids(files') \cup Range(chain') \cup gone']_vars
  BY SessionNext DEF Preserves, Kept
<1> QED BY <1>1, SessionInvHolds, PTL DEF Spec, OnceSavedKept

\* If no two blocks are created in one second, every block in the session of an object
\* has a file to recover it from, or is permanent or removed.
THEOREM RecoveryFindsAll == DistinctSeconds => (Spec => []SavedForRecovery)
<1> SUFFICES ASSUME DistinctSeconds PROVE Spec => []SavedForRecovery
  OBVIOUS
<1>1. Init => SessionInv /\ SavedForRecovery
  BY SessionInit
<1>2. SessionInv /\ SavedForRecovery /\ [Next]_vars => SessionInv' /\ SavedForRecovery'
  BY SessionNext DEF Preserves
<1> QED BY <1>1, <1>2, PTL DEF Spec

-----------------------------------------------------------------------------
(* The life of the blocks: what is assumed, and its words *)

\* One interactive object, no subprocess, no crash, no error, no second anchor and
\* no block removed while it is being anchored.
Alone == Features \subseteq {"nospawn"} /\ \E f : Front = {f}

One == CHOOSE f \in Front : Front = {f}

Open == 1 .. created \ (gone \cup Range(chain))

-----------------------------------------------------------------------------
(* The life of the blocks: the inductive invariant *)

IdsOf(s) == [i \in DOMAIN s |-> s[i].id]

\* Blocks u are different ones, in the order of time.
Ordered(u) == \A i, j \in DOMAIN u : i < j => u[i] # u[j] /\ TimeOf[u[i]] <= TimeOf[u[j]]

\* The blocks of snapshot u that are still to be converted when k of them are.
Rest(u, k) == {u[i] : i \in {j \in DOMAIN u : j > k}}

Anchoring == {"task", "wait", "scan", "convert"}

\* What the memory o of the object holds when the blocks of the set open are open, n are
\* permanent, and free says whether .session.lock is: the open blocks, those
\* created last in the queue; and while they are converted, the snapshot is still
\* what the session holds.
MemoryInv(o, open, n, free) ==
  /\ o.pc \notin {"start", "check"}
  /\ o.replaced => o.pc = "post"
  /\ o.old.queue = <<>>
  /\ o.pc = "task" => o.auto
  /\ o.pc \in Anchoring => o.cur.flag
  /\ o.cur.queue # <<>> => o.pc \in Anchoring
  /\ Ordered(IdsOf(o.cur.blocks))
  /\ \A i, j \in DOMAIN o.cur.queue : i < j => o.cur.queue[i] < o.cur.queue[j]
  /\ \A c \in Ids(Range(o.cur.blocks)), b \in Range(o.cur.queue) : c < b
  /\ o.pc \in {"scan", "convert"} => o.snap = IdsOf(o.cur.blocks)
  /\ open = Range(o.cur.queue) \cup
       (IF o.pc = "convert" THEN Rest(o.snap, o.done) ELSE Ids(Range(o.cur.blocks)))
  /\ o.pc \notin {"scan", "convert", "post"} => free
  /\ o.pc # "down" => o.known = n

\* What is permanent is not younger than what is open.
ChainInv(ch, open) == \A c \in Range(ch), b \in open : TimeOf[c] <= TimeOf[b]

LifeInv ==
  /\ SessionInv
  /\ obj[Worker].pc = "down" /\ obj[Worker].cur.queue = <<>>
  /\ flock \in {One, NoOne}
  /\ obj[One].pc = "down" => files = {} /\ Open = {}
  /\ Range(chain) \cup gone \cup Ids(files) \subseteq 1 .. created
  /\ ChainInv(chain, Open)
  /\ MemoryInv(obj[One], Open, Len(chain), flock = NoOne)

-----------------------------------------------------------------------------
(* The life of the blocks: the constants and the order of blocks *)

LEMMA AloneConstants ==
  ASSUME Alone
  PROVE  /\ Front = {One} /\ Object = {One, Worker} /\ One # Worker
         /\ One # NoOne /\ Worker # NoOne
         /\ Features \cap {"spawn", "second", "late", "io", "crash"} = {}
<1>1. Front = {One}
  BY DEF Alone, One
<1>2. Features \cap {"spawn", "second", "late", "io", "crash"} = {}
  BY DEF Alone
<1> QED BY <1>1, <1>2, ObjectAssumption DEF Object

LEMMA TimesGrow ==
  /\ \A b \in Block : TimeOf[b] \in Nat /\ Rank[b] \in Nat
  /\ \A b, c \in Block : b < c => TimeOf[b] <= TimeOf[c]
  /\ \A b, c \in Block : Rank[b] < Rank[c] => TimeOf[b] <= TimeOf[c]
<1>1. \A b \in Block : TimeOf[b] \in Nat /\ Rank[b] \in Nat
  BY OrderAssumption
<1>2. \A b, c \in Block : b < c => TimeOf[b] <= TimeOf[c]
  BY OrderAssumption
<1>3. ASSUME NEW b \in Block, NEW c \in Block, Rank[b] < Rank[c]
      PROVE  TimeOf[b] <= TimeOf[c]
  <2>1. TimeOf[c] < TimeOf[b] => Rank[c] < Rank[b]
    BY OrderAssumption
  <2> QED BY <1>1, <1>3, <2>1
<1> QED BY <1>1, <1>2, <1>3

LEMMA IdsAreBlocks ==
  ASSUME NEW s \in Seq(Entry)
  PROVE  /\ IdsOf(s) \in Seq(Block) /\ DOMAIN IdsOf(s) = DOMAIN s
         /\ Range(IdsOf(s)) = Ids(Range(s))
         /\ \A i \in DOMAIN s : IdsOf(s)[i] = s[i].id
<1>1. DOMAIN s = 1 .. Len(s) /\ Len(s) \in Nat /\ \A i \in DOMAIN s : s[i].id \in Block
  BY EntryFields
<1>2. \A i \in DOMAIN s : IdsOf(s)[i] = s[i].id
  BY DEF IdsOf
<1>3. IdsOf(s) \in Seq(Block) /\ DOMAIN IdsOf(s) = DOMAIN s
  BY <1>1 DEF IdsOf
<1>4. Range(IdsOf(s)) = Ids(Range(s))
  BY <1>2, <1>3 DEF Range, Ids
<1> QED BY <1>2, <1>3, <1>4

\* Sorting puts different blocks in the order of time.
LEMMA InOrderIsOrdered ==
  ASSUME NEW s \in Seq(Entry), \A i, j \in DOMAIN s : i # j => s[i].id # s[j].id
  PROVE  Ordered(IdsOf(InOrder(s)))
<1> DEFINE t == InOrder(s)
           at(k) == CHOOSE i \in DOMAIN s : Place(s, i) = k
<1>1. DOMAIN t = DOMAIN s /\ t \in Seq(Entry)
  BY InOrderPermutes DEF InOrder
<1>2. \A k \in DOMAIN s : at(k) \in DOMAIN s /\ Place(s, at(k)) = k
  BY PlaceIsBijection
<1>3. \A k \in DOMAIN s : t[k] = s[at(k)]
  BY DEF InOrder
<1>4. DOMAIN s \subseteq Nat
  OBVIOUS
<1>5. \A i, j \in DOMAIN s : i < j => Before(t[i], t[j]) \/ t[i] = t[j]
  BY InOrderPermutes
<1> HIDE DEF t, at
<1>6. ASSUME NEW i \in DOMAIN s, NEW j \in DOMAIN s, i < j
      PROVE  t[i].id # t[j].id /\ TimeOf[t[i].id] <= TimeOf[t[j].id]
  <2>1. at(i) # at(j)
    BY <1>2, <1>4, <1>6
  <2>2. t[i].id # t[j].id
    BY <1>2, <1>3, <2>1
  <2>3. Rank[t[i].id] < Rank[t[j].id]
    BY <1>5, <1>6, <2>2 DEF Before
  <2>4. t[i].id \in Block /\ t[j].id \in Block
    BY <1>1, EntryFields
  <2> QED BY <2>2, <2>3, <2>4, TimesGrow
<1>7. DOMAIN IdsOf(t) = DOMAIN s /\ \A i \in DOMAIN s : IdsOf(t)[i] = t[i].id
  BY <1>1, IdsAreBlocks
<1>8. Ordered(IdsOf(t))
  BY <1>6, <1>7 DEF Ordered
<1> QED BY <1>8 DEF t

\* What joins a session in order leaves it in order.
LEMMA JoinedIsOrdered ==
  ASSUME NEW s \in Seq(Entry), NEW B \in Seq(Block), Ordered(IdsOf(s)),
         \A i, j \in DOMAIN B : i < j => B[i] < B[j],
         \A c \in Ids(Range(s)), b \in Range(B) : c < b
  PROVE  Ordered(IdsOf(JoinedBlocks(s, B)))
<1> DEFINE new == [i \in DOMAIN B |-> [id |-> B[i], num |-> 1]]
           u == s \o new
           t == Joined(s, B)
<1>1. CASE B = <<>>
  BY <1>1 DEF JoinedBlocks
<1>2. CASE B # <<>>
  <2>1. /\ new \in Seq(Entry) /\ Len(new) = Len(B)
        /\ \A i \in DOMAIN B : new[i].id = B[i]
    BY EntryFields
  <2>2. /\ Len(s) \in Nat /\ Len(B) \in Nat /\ DOMAIN s = 1 .. Len(s) /\ DOMAIN B = 1 .. Len(B)
        /\ \A i \in DOMAIN B : B[i] \in Nat
    <3>1. \A i \in DOMAIN B : B[i] \in Block
      OBVIOUS
    <3>2. \A i \in DOMAIN B : B[i] \in Nat
      BY <3>1 DEF Block
    <3> QED BY <3>2
  <2> HIDE DEF new
  <2>3. /\ u \in Seq(Entry) /\ DOMAIN u = 1 .. Len(s) + Len(B)
        /\ \A i \in 1 .. Len(s) + Len(B) : u[i] = IF i <= Len(s) THEN s[i] ELSE new[i - Len(s)]
    <3>1. /\ u \in Seq(Entry) /\ Len(u) = Len(s) + Len(B)
          /\ \A i \in 1 .. Len(s) : u[i] = s[i]
          /\ \A i \in 1 .. Len(B) : u[Len(s) + i] = new[i]
      <4>1. /\ s \o new \in Seq(Entry) /\ Len(s \o new) = Len(s) + Len(new)
            /\ \A i \in 1 .. Len(s) : (s \o new)[i] = s[i]
            /\ \A i \in 1 .. Len(new) : (s \o new)[Len(s) + i] = new[i]
        BY <2>1
      <4> QED BY <2>1, <4>1
    <3>2. DOMAIN u = 1 .. Len(s) + Len(B)
      BY <2>2, <3>1
    <3>3. ASSUME NEW i \in 1 .. Len(s) + Len(B), i > Len(s)
          PROVE  u[i] = new[i - Len(s)]
      <4> DEFINE j == i - Len(s)
      <4>1. j \in 1 .. Len(B) /\ i = Len(s) + j
        BY <2>2, <3>3
      <4> QED BY <3>1, <4>1
    <3> QED BY <2>2, <3>1, <3>2, <3>3
  <2>4. \A i \in DOMAIN s : s[i].id \in Ids(Range(s)) /\ s[i].id \in Nat
    <3>1. \A i \in DOMAIN s : s[i].id \in Ids(Range(s)) /\ s[i].id \in Block
      BY EntryFields DEF Ids, Range
    <3> QED BY <3>1 DEF Block
  <2>5. \A i \in DOMAIN B : B[i] \in Range(B)
    BY DEF Range
  <2>6. \A i, j \in DOMAIN s : i < j => s[i].id # s[j].id
    BY IdsAreBlocks DEF Ordered
  <2>7. ASSUME NEW i \in DOMAIN u, NEW j \in DOMAIN u, i < j
        PROVE  u[i].id # u[j].id
    <3>1. CASE j <= Len(s)
      <4>1. i \in DOMAIN s /\ j \in DOMAIN s /\ u[i] = s[i] /\ u[j] = s[j]
        BY <2>2, <2>3, <2>7, <3>1
      <4> QED BY <2>6, <2>7, <4>1
    <3>2. CASE i <= Len(s) /\ j > Len(s)
      <4>1. i \in DOMAIN s /\ j - Len(s) \in DOMAIN B /\ u[i] = s[i] /\ u[j] = new[j - Len(s)]
        BY <2>2, <2>3, <2>7, <3>2
      <4>2. s[i].id < B[j - Len(s)]
        BY <2>4, <2>5, <4>1
      <4> QED BY <2>1, <2>2, <2>4, <4>1, <4>2
    <3>3. CASE i > Len(s)
      <4>1. /\ i - Len(s) \in DOMAIN B /\ j - Len(s) \in DOMAIN B /\ i - Len(s) < j - Len(s)
            /\ u[i] = new[i - Len(s)] /\ u[j] = new[j - Len(s)]
        BY <2>2, <2>3, <2>7, <3>3
      <4> QED BY <2>1, <2>2, <4>1
    <3> QED BY <2>2, <2>3, <3>1, <3>2, <3>3
  <2>8. \A i, j \in DOMAIN u : i # j => u[i].id # u[j].id
    <3> SUFFICES ASSUME NEW i \in DOMAIN u, NEW j \in DOMAIN u, i # j PROVE u[i].id # u[j].id
      OBVIOUS
    <3>1. i < j \/ j < i
      BY <2>3, <2>2
    <3> QED BY <2>7, <3>1
  <2> HIDE DEF u
  <2>9. Ordered(IdsOf(InOrder(u)))
    BY <2>3, <2>8, InOrderIsOrdered
  <2>10. t = InOrder(u)
    BY DEF u, new, Joined
  <2> HIDE DEF t
  <2>11. t \in Seq(Entry)
    BY <2>3, <2>10, InOrderPermutes
  <2>12. Ordered(IdsOf(Renumbered(t)))
    <3>1. Renumbered(t) \in Seq(Entry) /\ DOMAIN Renumbered(t) = DOMAIN t
          /\ \A i \in DOMAIN t : Renumbered(t)[i].id = t[i].id
      <4>1. /\ Renumbered(t) \in Seq(Entry) /\ DOMAIN Renumbered(t) = DOMAIN t
            /\ \A i \in DOMAIN t : Renumbered(t)[i] = [id |-> t[i].id, num |-> i]
        BY <2>11, RenumberedKeeps
      <4> QED BY <4>1
    <3>2. IdsOf(Renumbered(t)) = IdsOf(t)
      BY <3>1 DEF IdsOf
    <3> QED BY <2>9, <2>10, <3>2
  <2> QED BY <1>2, <2>12 DEF t, JoinedBlocks
<1> QED BY <1>1, <1>2

\* A block taken out of a session in order.
LEMMA RemovedIsOrdered ==
  ASSUME NEW s \in Seq(Entry), Ordered(IdsOf(s)), NEW k \in DOMAIN s
  PROVE  LET r == [j \in 1 .. Len(s) - 1 |-> IF j < k THEN s[j] ELSE s[j + 1]]
         IN  Ordered(IdsOf(r)) /\ Ids(Range(r)) = Ids(Range(s)) \ {s[k].id}
<1> DEFINE r == [j \in 1 .. Len(s) - 1 |-> IF j < k THEN s[j] ELSE s[j + 1]]
           at(j) == IF j < k THEN j ELSE j + 1
<1>1. Len(s) \in Nat \ {0} /\ DOMAIN s = 1 .. Len(s) /\ k \in 1 .. Len(s)
  OBVIOUS
<1>2. /\ r \in Seq(Entry) /\ DOMAIN r = 1 .. Len(s) - 1
      /\ \A j \in DOMAIN r : r[j] = s[at(j)] /\ at(j) \in DOMAIN s /\ at(j) # k
      /\ \A i, j \in DOMAIN r : i < j => at(i) < at(j)
  <2>1. \A j \in 1 .. Len(s) - 1 : at(j) \in 1 .. Len(s) /\ at(j) # k
    BY <1>1
  <2>2. \A j \in 1 .. Len(s) - 1 : r[j] = s[at(j)] /\ s[at(j)] \in Entry
    BY <1>1, <2>1
  <2>3. r \in Seq(Entry) /\ DOMAIN r = 1 .. Len(s) - 1
    BY <1>1, <2>2
  <2>4. \A i, j \in 1 .. Len(s) - 1 : i < j => at(i) < at(j)
    BY <1>1
  <2> QED BY <1>1, <2>1, <2>2, <2>3, <2>4
<1>3. \A i \in DOMAIN s \ {k} : \E j \in DOMAIN r : at(j) = i
  <2> SUFFICES ASSUME NEW i \in DOMAIN s \ {k} PROVE \E j \in DOMAIN r : at(j) = i
    OBVIOUS
  <2>1. CASE i < k
    <3>1. i \in DOMAIN r /\ at(i) = i
      BY <1>1, <1>2, <2>1
    <3> QED BY <3>1
  <2>2. CASE i > k
    <3>1. i - 1 \in DOMAIN r /\ at(i - 1) = i
      BY <1>1, <1>2, <2>2
    <3> QED BY <3>1
  <2> QED BY <1>1, <2>1, <2>2
<1> HIDE DEF r, at
<1>4. \A i, j \in DOMAIN s : i < j => s[i].id # s[j].id /\ TimeOf[s[i].id] <= TimeOf[s[j].id]
  BY IdsAreBlocks DEF Ordered
<1>5. Ordered(IdsOf(r))
  <2>1. DOMAIN IdsOf(r) = DOMAIN r /\ \A i \in DOMAIN r : IdsOf(r)[i] = s[at(i)].id
    BY <1>2, IdsAreBlocks
  <2>2. \A i, j \in DOMAIN r : i < j => at(i) \in DOMAIN s /\ at(j) \in DOMAIN s /\ at(i) < at(j)
    BY <1>2
  <2> QED BY <1>4, <2>1, <2>2 DEF Ordered
<1>6. \A i \in DOMAIN s \ {k} : s[i].id # s[k].id
  <2> SUFFICES ASSUME NEW i \in DOMAIN s \ {k} PROVE s[i].id # s[k].id
    OBVIOUS
  <2>1. i < k \/ k < i
    BY <1>1
  <2> QED BY <1>4, <2>1
<1>7. Ids(Range(r)) = {s[i].id : i \in DOMAIN s \ {k}}
  <2>1. Ids(Range(r)) = {r[j].id : j \in DOMAIN r}
    BY DEF Ids, Range
  <2> QED BY <1>2, <1>3, <2>1
<1>8. Ids(Range(s)) = {s[i].id : i \in DOMAIN s}
  BY DEF Ids, Range
<1>9. Ids(Range(r)) = Ids(Range(s)) \ {s[k].id}
  BY <1>6, <1>7, <1>8
<1> QED BY <1>5, <1>9 DEF r

-----------------------------------------------------------------------------
(* The life of the blocks: steps of the object *)

\* What every step is shown to do.
LifePreserves == LifeInv' /\ (Lifecycle!Next \/ UNCHANGED Lifecycle!vars)

LEMMA LifeFields ==
  ASSUME Alone, LifeInv
  PROVE  /\ obj \in [Object -> ObjType] /\ obj[One] \in ObjType
         /\ obj[One].cur \in SessionType /\ obj[One].old \in SessionType
         /\ obj[One].cur.blocks \in Seq(Entry) /\ obj[One].cur.queue \in Seq(Block)
         /\ obj[One].snap \in Seq(Block) /\ obj[One].done \in Nat
         /\ ObjInv(One, obj[One], chain, workLock)
         /\ MemoryInv(obj[One], Open, Len(chain), flock = NoOne)
         /\ files \in SUBSET Entry /\ IsFiniteSet(files)
         /\ created \in 0 .. MaxBlocks /\ MaxBlocks \in Nat
         /\ chain \in Seq(Block) /\ Range(chain) \subseteq Block
<1>1. /\ SessionInv /\ One \in Object
      /\ MemoryInv(obj[One], Open, Len(chain), flock = NoOne)
  BY AloneConstants DEF LifeInv
<1>2. Range(chain) \subseteq Block
  BY <1>1 DEF SessionInv, TypeOK, Range
<1> QED BY <1>1, <1>2, ObjectFields, SessionConstants DEF SessionInv, TypeOK

LEMMA LifeStep ==
  ASSUME Alone, LifeInv, SessionInv', NEW o, obj' = [obj EXCEPT ![One] = o],
         flock' \in {One, NoOne}, o.pc # "down",
         Range(chain') \cup gone' \cup Ids(files') \subseteq 1 .. created',
         ChainInv(chain', Open'),
         MemoryInv(o, Open', Len(chain'), flock' = NoOne)
  PROVE  LifeInv'
<1>1. obj'[One] = o /\ obj'[Worker] = obj[Worker]
  BY LifeFields, AloneConstants
<1>2. obj[Worker].pc = "down" /\ obj[Worker].cur.queue = <<>>
  BY DEF LifeInv
<1>3. /\ obj'[Worker].pc = "down" /\ obj'[Worker].cur.queue = <<>>
      /\ obj'[One].pc # "down"
  BY <1>1, <1>2
<1>4. MemoryInv(obj'[One], Open', Len(chain'), flock' = NoOne)
  BY <1>1
<1> QED BY <1>3, <1>4 DEF LifeInv

\* A step that neither creates a block, nor drops one, nor makes one permanent.
LEMMA QuietLife ==
  ASSUME Alone, LifeInv, SessionInv', NEW o, obj' = [obj EXCEPT ![One] = o],
         flock' \in {One, NoOne}, o.pc # "down",
         UNCHANGED <<chain, created, gone>>, Ids(files') \subseteq 1 .. created,
         MemoryInv(o, Open, Len(chain), flock' = NoOne)
  PROVE  LifePreserves
<1>1. Open' = Open /\ Len(chain') = Len(chain)
  BY DEF Open
<1>2. /\ Range(chain') \cup gone' \cup Ids(files') \subseteq 1 .. created'
      /\ ChainInv(chain', Open')
  BY <1>1 DEF LifeInv, ChainInv
<1>3. LifeInv'
  BY <1>1, <1>2, LifeStep
<1>4. UNCHANGED Lifecycle!vars
  BY DEF Lifecycle!vars
<1> QED BY <1>3, <1>4 DEF LifePreserves

\* The Qube is loaded, while there is no file yet.
LEMMA LoadLife ==
  ASSUME Alone, LifeInv, SessionInv', LoadFront(One)
  PROVE  LifePreserves
<1> DEFINE q == CHOOSE q \in [1 .. Cardinality(files) -> files] : Range(q) = files
           s == InOrder(q)
           n == Len(chain)
           t == Renumbered(s)
           c == [NewSession EXCEPT !.blocks = t]
           o == [NotLoaded EXCEPT !.pc = "idle", !.cur.blocks = t, !.known = n]
<1>1. /\ obj[One].pc = "down" /\ obj' = [obj EXCEPT ![One] = o]
      /\ files' = ReindexedFiles(files, s)
      /\ UNCHANGED <<chain, flock, created, gone>>
  BY DEF LoadFront, Load
<1>2. files = {} /\ files \in SUBSET Entry /\ IsFiniteSet(files)
  BY <1>1, LifeFields DEF LifeInv
<1>3. q \in Seq(Entry) /\ Range(q) = files
  BY <1>2, EnumerationExists
<1> HIDE DEF q, n
<1>4. s \in Seq(Entry) /\ Range(s) = {}
  BY <1>2, <1>3, InOrderPermutes
<1> HIDE DEF s
<1>5. /\ t \in Seq(Entry) /\ Ids(Range(t)) = {} /\ Ids(files') = {}
  <2>1. Ids({}) = {}
    BY DEF Ids
  <2> QED BY <1>1, <1>2, <1>4, <2>1, RenumberedKeeps, ReindexedFilesKeep
<1> HIDE DEF t
<1>6. Ordered(IdsOf(t))
  <2>1. Range(IdsOf(t)) = {}
    BY <1>5, IdsAreBlocks
  <2>2. DOMAIN IdsOf(t) = {}
    BY <2>1 DEF Range
  <2> QED BY <2>2 DEF Ordered
<1>7. /\ c.blocks = t /\ c.queue = <<>> /\ ~c.flag
  BY DEF NewSession
<1>8. /\ o.pc = "idle" /\ o.cur = c /\ o.known = n /\ ~o.replaced /\ o.old.queue = <<>>
  BY DEF NotLoaded, NewSession
<1> HIDE DEF c, o
<1>9. /\ MemoryInv(obj[One], Open, n, flock = NoOne) /\ Open = {}
      /\ flock \in {One, NoOne}
  BY <1>1, LifeFields DEF LifeInv, n
<1>10. Range(<<>>) = {} /\ DOMAIN <<>> = {}
  BY DEF Range
<1>11. MemoryInv(o, Open, n, flock' = NoOne)
  BY <1>1, <1>5, <1>6, <1>7, <1>8, <1>9, <1>10 DEF MemoryInv, Anchoring
<1> QED BY <1>1, <1>5, <1>8, <1>9, <1>11, QuietLife DEF n

\* create_block, while blocks are queued and while they are not.
LEMMA CreateLife ==
  ASSUME Alone, LifeInv, SessionInv', Create(One)
  PROVE  LifePreserves
<1> DEFINE x == obj[One]
           b == created + 1
           n == Len(chain)
           free == flock = NoOne
<1>1. /\ x.pc \in Awaiting /\ created < MaxBlocks /\ created' = b
      /\ UNCHANGED <<chain, flock, gone>>
  BY DEF Create
<1>2. /\ MemoryInv(x, Open, n, free) /\ ObjInv(One, x, chain, workLock)
      /\ x \in ObjType /\ x.cur \in SessionType
      /\ x.cur.blocks \in Seq(Entry) /\ x.cur.queue \in Seq(Block)
      /\ files \in SUBSET Entry /\ IsFiniteSet(files)
  BY LifeFields
<1>3. /\ b \in Block /\ created \in Nat /\ 1 .. b = (1 .. created) \cup {b}
      /\ \A c \in 1 .. created : c < b /\ c \in Block
  BY <1>1, LifeFields DEF Block
<1>4. Open' = Open \cup {b} /\ b \notin Open /\ Open \subseteq 1 .. created
  BY <1>1, <1>3 DEF LifeInv, Open
<1>5. /\ Range(chain') \cup gone' \subseteq 1 .. created' /\ ChainInv(chain', Open')
      /\ Ids(files) \subseteq 1 .. created'
  <2>1. \A c \in 1 .. created : TimeOf[c] <= TimeOf[b]
    BY <1>3, TimesGrow
  <2>2. Range(chain) \cup gone \cup Ids(files) \subseteq 1 .. created /\ ChainInv(chain, Open)
    BY DEF LifeInv
  <2> QED BY <1>1, <1>3, <1>4, <2>1, <2>2 DEF ChainInv
<1>6. Ids(Range(x.cur.blocks)) \cup Range(x.cur.queue) \subseteq Open
  BY <1>1, <1>2 DEF MemoryInv, Awaiting
<1>7. Lifecycle!Next
  <2>1. Lifecycle!Record(b)
    <3>1. b \in (created + 1) .. MaxBlocks
      BY <1>1, LifeFields
    <3>2. (created' + 1) .. MaxBlocks = ((created + 1) .. MaxBlocks) \ {b}
      BY <1>1, LifeFields
    <3> QED BY <1>1, <1>4, <3>1, <3>2 DEF Lifecycle!Record, Open
  <2> QED BY <1>3, <2>1 DEF Lifecycle!Next
<1>8. flock' \in {One, NoOne}
  BY <1>1 DEF LifeInv
<1> HIDE DEF n, free
<1>9. CASE x.cur.flag
  <2> DEFINE q == Append(x.cur.queue, created')
             c == [x.cur EXCEPT !.queue = q]
             o == [x EXCEPT !.cur = c]
  <2>1. obj' = [obj EXCEPT ![One] = o] /\ files' = files
    BY <1>9 DEF Create
  <2>2. /\ q \in Seq(Block) /\ Range(q) = Range(x.cur.queue) \cup {b}
        /\ \A i, j \in DOMAIN q : i < j => q[i] < q[j]
    <3>1. /\ q \in Seq(Block) /\ Len(q) = Len(x.cur.queue) + 1 /\ q[Len(x.cur.queue) + 1] = b
          /\ \A i \in 1 .. Len(x.cur.queue) : q[i] = x.cur.queue[i]
      BY <1>1, <1>2, <1>3
    <3>2. /\ DOMAIN q = 1 .. Len(x.cur.queue) + 1 /\ Len(x.cur.queue) \in Nat
          /\ DOMAIN x.cur.queue = 1 .. Len(x.cur.queue)
      BY <1>2, <3>1
    <3> HIDE DEF q
    <3>3. Range(q) = Range(x.cur.queue) \cup {b}
      <4>1. DOMAIN q = DOMAIN x.cur.queue \cup {Len(x.cur.queue) + 1}
        BY <3>2
      <4>2. \A i \in DOMAIN x.cur.queue : q[i] = x.cur.queue[i]
        BY <3>1, <3>2
      <4> QED BY <3>1, <4>1, <4>2 DEF Range
    <3>4. \A i \in DOMAIN x.cur.queue : x.cur.queue[i] < b
      BY <1>3, <1>4, <1>6 DEF Range
    <3>5. ASSUME NEW i \in DOMAIN q, NEW j \in DOMAIN q, i < j PROVE q[i] < q[j]
      <4>1. i \in DOMAIN x.cur.queue
        BY <3>2, <3>5
      <4>2. CASE j = Len(x.cur.queue) + 1
        BY <3>1, <3>2, <3>4, <4>1, <4>2
      <4>3. CASE j # Len(x.cur.queue) + 1
        <5>1. j \in DOMAIN x.cur.queue
          BY <3>2, <4>3
        <5> QED BY <1>2, <3>1, <3>2, <3>5, <4>1, <5>1 DEF MemoryInv
      <4> QED BY <4>2, <4>3
    <3> QED BY <3>1, <3>3, <3>5
  <2> HIDE DEF q
  <2>3. /\ c \in SessionType /\ c.blocks = x.cur.blocks /\ c.queue = q /\ c.flag
    BY <1>2, <1>9, <2>2 DEF SessionType
  <2> HIDE DEF c
  <2>4. /\ o.cur = c /\ o.pc = x.pc /\ o.replaced = x.replaced /\ o.old = x.old
        /\ o.auto = x.auto /\ o.snap = x.snap /\ o.known = x.known
    BY <1>2 DEF ObjType
  <2> HIDE DEF o
  <2>5. MemoryInv(o, Open', n, free)
    <3>1. \A d \in Ids(Range(c.blocks)), e \in Range(c.queue) : d < e
      BY <1>2, <1>3, <1>4, <1>6, <2>2, <2>3 DEF MemoryInv
    <3>2. x.pc \in Anchoring /\ x.pc # "convert" /\ x.pc # "down"
      BY <1>1, <1>2, <1>9 DEF ObjInv, Awaiting, Anchoring
    <3>3. Open' = Range(q) \cup Ids(Range(c.blocks))
      BY <1>2, <1>4, <2>2, <2>3, <3>2 DEF MemoryInv
    <3> QED BY <1>2, <2>2, <2>3, <2>4, <3>1, <3>2, <3>3 DEF MemoryInv
  <2>6. LifeInv'
    <3>1. o.pc # "down"
      BY <1>1, <2>4 DEF Awaiting
    <3> QED BY <1>1, <1>5, <1>8, <2>1, <2>5, <3>1, LifeStep DEF n, free
  <2> QED BY <1>7, <2>6 DEF LifePreserves
<1>10. CASE ~x.cur.flag
  <2> DEFINE B == <<created'>>
             t == JoinedBlocks(x.cur.blocks, B)
             pend == x.cur.pend \/ Len(t) >= Threshold
             c == [x.cur EXCEPT !.blocks = t, !.pend = pend]
             o == [x EXCEPT !.cur = c]
  <2>1. files' = JoinedFiles(files, x.cur.blocks, B)
    BY <1>10 DEF Create
  <2>2. obj' = [obj EXCEPT ![One] = o]
    <3>1. obj \in [Object -> ObjType]
      BY LifeFields
    <3>2. obj' = [obj EXCEPT ![One].cur.blocks = t, ![One].cur.pend = pend]
      BY <1>10, <3>1 DEF Create
    <3> HIDE DEF t, pend
    <3> QED BY <1>2, <3>1, <3>2 DEF ObjType, SessionType
  <2>3. /\ B \in Seq(Block) /\ Range(B) = {b} /\ DOMAIN B = {1}
    BY <1>1, <1>3 DEF Range
  <2> HIDE DEF B
  <2>4. t \in Seq(Entry) /\ Ids(Range(t)) = Ids(Range(x.cur.blocks)) \cup {b}
    BY <1>2, <2>3, JoinedBlocksKeep
  <2>5. Ids(files') \subseteq 1 .. created'
    <3>1. Ids(files') \subseteq Ids(files) \cup Ids(Range(x.cur.blocks)) \cup {b}
      BY <1>2, <2>1, <2>3, JoinedFilesKeep
    <3> QED BY <1>1, <1>3, <1>4, <1>5, <1>6, <3>1
  <2>6. Ordered(IdsOf(t))
    <3>1. Ordered(IdsOf(x.cur.blocks))
      BY <1>2 DEF MemoryInv
    <3>2. \A d \in Ids(Range(x.cur.blocks)), e \in Range(B) : d < e
      BY <1>3, <1>4, <1>6, <2>3
    <3>3. \A i, j \in DOMAIN B : i < j => B[i] < B[j]
      BY <2>3
    <3> QED BY <1>2, <2>3, <3>1, <3>2, <3>3, JoinedIsOrdered
  <2> HIDE DEF t, pend
  <2>7. /\ c.blocks = t /\ c.queue = x.cur.queue /\ ~c.flag
    BY <1>2, <1>10 DEF SessionType
  <2> HIDE DEF c
  <2>8. /\ o.cur = c /\ o.pc = x.pc /\ o.replaced = x.replaced /\ o.old = x.old
        /\ o.auto = x.auto /\ o.snap = x.snap /\ o.known = x.known
    BY <1>2 DEF ObjType
  <2> HIDE DEF o
  <2>9. MemoryInv(o, Open', n, free)
    <3>1. x.pc \notin Anchoring /\ x.pc # "down"
      BY <1>1, <1>2, <1>10 DEF MemoryInv, Awaiting
    <3>2. x.cur.queue = <<>> /\ Range(x.cur.queue) = {} /\ DOMAIN x.cur.queue = {}
      BY <1>2, <3>1 DEF MemoryInv, Range
    <3>3. Open' = Range(c.queue) \cup Ids(Range(c.blocks))
      BY <1>2, <1>4, <2>4, <2>7, <3>1, <3>2 DEF MemoryInv, Anchoring
    <3> QED BY <1>2, <2>6, <2>7, <2>8, <3>1, <3>2, <3>3 DEF MemoryInv, Anchoring
  <2>10. LifeInv'
    <3>1. o.pc # "down"
      BY <1>1, <2>8 DEF Awaiting
    <3> QED BY <1>1, <1>5, <1>8, <2>2, <2>5, <2>9, <3>1, LifeStep DEF n, free
  <2> QED BY <1>7, <2>10 DEF LifePreserves
<1> QED BY <1>9, <1>10

\* delete_block takes one block out of the session.
LEMMA DeleteLife ==
  ASSUME Alone, LifeInv, SessionInv', NEW i \in Block, Delete(One, i)
  PROVE  LifePreserves
<1> DEFINE x == obj[One]
           B == x.cur.blocks
           b == B[i].id
           n == Len(chain)
           free == flock = NoOne
           t == [j \in 1 .. Len(B) - 1 |-> IF j < i THEN B[j] ELSE B[j + 1]]
           c == [x.cur EXCEPT !.blocks = t]
           o == [x EXCEPT !.cur = c]
<1>1. /\ x.pc \in {"idle", "post", "task"} /\ i \in DOMAIN B
      /\ gone' = gone \cup {b} /\ files' \subseteq files
      /\ UNCHANGED <<chain, flock, created>>
  BY AloneConstants DEF Delete, MayRemove
<1>2. /\ MemoryInv(x, Open, n, free)
      /\ x \in ObjType /\ x.cur \in SessionType
      /\ B \in Seq(Entry) /\ x.cur.queue \in Seq(Block)
  BY LifeFields
<1>3. obj' = [obj EXCEPT ![One] = o]
  <2>1. obj \in [Object -> ObjType]
    BY LifeFields
  <2>2. obj' = [obj EXCEPT ![One].cur.blocks = t]
    BY <2>1 DEF Delete
  <2> HIDE DEF t
  <2> QED BY <1>2, <2>1, <2>2 DEF ObjType, SessionType
<1>4. Ordered(IdsOf(t)) /\ Ids(Range(t)) = Ids(Range(B)) \ {b}
  BY <1>1, <1>2, RemovedIsOrdered DEF MemoryInv
<1>5. b \in Ids(Range(B))
  BY <1>1 DEF Ids, Range
<1>6. /\ Open = Ids(Range(B)) \cup Range(x.cur.queue)
      /\ \A d \in Ids(Range(B)), e \in Range(x.cur.queue) : d < e
  BY <1>1, <1>2 DEF MemoryInv
<1>7. b \notin Range(x.cur.queue) /\ b \in Open /\ Open \subseteq 1 .. created
  <2>1. Open \subseteq Nat
    BY LifeFields DEF Open
  <2> QED BY <1>5, <1>6, <2>1 DEF Open
<1>8. Open' = Open \ {b} /\ Open' = Ids(Range(t)) \cup Range(x.cur.queue)
  <2>1. Open' = Open \ {b}
    BY <1>1 DEF Open
  <2> QED BY <1>4, <1>6, <1>7, <2>1
<1>9. /\ Range(chain') \cup gone' \cup Ids(files') \subseteq 1 .. created'
      /\ ChainInv(chain', Open')
  <2>1. Range(chain) \cup gone \cup Ids(files) \subseteq 1 .. created /\ ChainInv(chain, Open)
    BY DEF LifeInv
  <2> QED BY <1>1, <1>7, <1>8, <2>1 DEF ChainInv, Ids
<1>10. Lifecycle!Next
  <2>1. Lifecycle!Drop({b})
    BY <1>1, <1>8 DEF Lifecycle!Drop, Open
  <2>2. b \in Block
    BY <1>1, <1>2, EntryFields
  <2> QED BY <2>1, <2>2 DEF Lifecycle!Next
<1>11. flock' \in {One, NoOne}
  BY <1>1 DEF LifeInv
<1> HIDE DEF t, n, free
<1>12. c.blocks = t /\ c.queue = x.cur.queue /\ c.flag = x.cur.flag
  BY <1>2 DEF SessionType
<1> HIDE DEF c
<1>13. /\ o.cur = c /\ o.pc = x.pc /\ o.replaced = x.replaced /\ o.old = x.old
       /\ o.auto = x.auto /\ o.snap = x.snap /\ o.known = x.known
  BY <1>2 DEF ObjType
<1> HIDE DEF o
<1>14. MemoryInv(o, Open', n, free)
  <2>1. \A d \in Ids(Range(t)), e \in Range(x.cur.queue) : d < e
    BY <1>4, <1>6
  <2> QED BY <1>1, <1>2, <1>4, <1>8, <1>12, <1>13, <2>1 DEF MemoryInv, Anchoring
<1>15. o.pc # "down"
  BY <1>1, <1>13
<1>16. LifeInv'
  BY <1>1, <1>3, <1>9, <1>11, <1>14, <1>15, LifeStep DEF n, free
<1> QED BY <1>10, <1>16 DEF LifePreserves

\* discard_session drops the session and with it every open block.
LEMMA DiscardLife ==
  ASSUME Alone, LifeInv, SessionInv', NEW mark \in BOOLEAN, Discard(One, mark)
  PROVE  LifePreserves
<1> DEFINE x == obj[One]
           D == Ids(files) \cup Ids(Range(x.cur.blocks)) \cup Range(x.cur.queue)
           n == Len(chain)
           free == flock = NoOne
           old == IF x.pc = "idle" \/ x.replaced THEN x.old ELSE [x.cur EXCEPT !.blocks = <<>>]
           rep == x.pc # "idle"
           o == [x EXCEPT !.cur = NewSession, !.old = old, !.replaced = rep]
<1>1. /\ x.pc \in {"idle", "post"} /\ files' = {} /\ gone' = gone \cup D
      /\ UNCHANGED <<chain, flock, created>>
  BY AloneConstants DEF Discard, MayRemove
<1>2. /\ MemoryInv(x, Open, n, free)
      /\ x \in ObjType /\ x.cur \in SessionType
      /\ x.cur.blocks \in Seq(Entry) /\ x.cur.queue \in Seq(Block)
  BY LifeFields
<1>3. obj' = [obj EXCEPT ![One] = o]
  <2>1. obj \in [Object -> ObjType]
    BY LifeFields
  <2>2. obj' = [obj EXCEPT ![One].cur = NewSession, ![One].old = old, ![One].replaced = rep]
    BY DEF Discard
  <2> HIDE DEF old, rep
  <2> QED BY <1>2, <2>1, <2>2 DEF ObjType
<1>4. Open = Ids(Range(x.cur.blocks)) \cup Range(x.cur.queue) /\ Open \subseteq 1 .. created
  BY <1>1, <1>2 DEF MemoryInv, Open
<1>5. Open' = Open \ D /\ Open' = {}
  <2>1. Open' = Open \ D
    BY <1>1 DEF Open
  <2> QED BY <1>4, <2>1
<1>6. D \subseteq 1 .. created
  BY <1>4 DEF LifeInv
<1>7. /\ Range(chain') \cup gone' \cup Ids(files') \subseteq 1 .. created'
      /\ ChainInv(chain', Open')
  <2>1. Range(chain) \cup gone \cup Ids(files) \subseteq 1 .. created /\ Ids({}) = {}
    BY DEF LifeInv, Ids
  <2> QED BY <1>1, <1>5, <1>6, <2>1 DEF ChainInv
<1>8. Lifecycle!Next
  <2>1. Lifecycle!Drop(D)
    BY <1>1, <1>5 DEF Lifecycle!Drop, Open
  <2>2. D \in SUBSET Block
    BY <1>6, LifeFields DEF Block
  <2> QED BY <2>1, <2>2 DEF Lifecycle!Next
<1>9. flock' \in {One, NoOne}
  BY <1>1 DEF LifeInv
<1>10. old.queue = <<>>
  BY <1>1, <1>2 DEF MemoryInv, Anchoring
<1> HIDE DEF n, free, old, D
<1>11. /\ o.cur = NewSession /\ o.pc = x.pc /\ o.replaced = rep /\ o.old = old
       /\ o.auto = x.auto /\ o.snap = x.snap /\ o.known = x.known
  BY <1>2 DEF ObjType
<1> HIDE DEF o
<1>12. /\ NewSession.blocks = <<>> /\ NewSession.queue = <<>> /\ ~NewSession.flag
       /\ Range(<<>>) = {} /\ Ids({}) = {} /\ DOMAIN <<>> = {}
  BY NotLoadedType DEF Range, Ids
<1>13. Ordered(IdsOf(<<>>))
  BY <1>12 DEF Ordered, IdsOf
<1>14. MemoryInv(o, Open', n, free)
  BY <1>1, <1>2, <1>5, <1>10, <1>11, <1>12, <1>13 DEF MemoryInv, Anchoring
<1>15. o.pc # "down"
  BY <1>1, <1>11
<1>16. LifeInv'
  BY <1>1, <1>3, <1>7, <1>9, <1>14, <1>15, LifeStep DEF n, free
<1> QED BY <1>8, <1>16 DEF LifePreserves

\* check_and_auto_anchor leaves the blocks to another subprocess, or anchors itself.
LEMMA AutoAnchorLife ==
  ASSUME Alone, LifeInv, SessionInv',
         SkipAutoAnchor(One) \/ \E np \in BOOLEAN : Fallback(One, np)
  PROVE  LifePreserves
<1> DEFINE x == obj[One]
           n == Len(chain)
           free == flock = NoOne
<1>1. /\ MemoryInv(x, Open, n, free) /\ ObjInv(One, x, chain, workLock)
      /\ x \in ObjType /\ x.cur \in SessionType /\ obj \in [Object -> ObjType]
      /\ flock \in {One, NoOne} /\ Ids(files) \subseteq 1 .. created
  BY LifeFields DEF LifeInv
<1> HIDE DEF n, free
<1>2. CASE SkipAutoAnchor(One)
  <2> DEFINE c == [x.cur EXCEPT !.pend = FALSE]
             o == [x EXCEPT !.cur = c]
  <2>1. /\ x.pc \in Awaiting /\ obj' = [obj EXCEPT ![One] = o]
        /\ UNCHANGED <<files, chain, flock, created, gone>>
    <3>1. obj' = [obj EXCEPT ![One].cur.pend = FALSE]
      BY <1>2 DEF SkipAutoAnchor
    <3>2. obj' = [obj EXCEPT ![One] = o]
      BY <1>1, <3>1 DEF ObjType, SessionType
    <3> QED BY <1>2, <3>2 DEF SkipAutoAnchor, PendingAnchor
  <2>2. c.blocks = x.cur.blocks /\ c.queue = x.cur.queue /\ c.flag = x.cur.flag
    BY <1>1 DEF SessionType
  <2> HIDE DEF c
  <2>3. /\ o.cur = c /\ o.pc = x.pc /\ o.replaced = x.replaced /\ o.old = x.old
        /\ o.auto = x.auto /\ o.snap = x.snap /\ o.known = x.known /\ o.done = x.done
    BY <1>1 DEF ObjType
  <2> HIDE DEF o
  <2>4. MemoryInv(o, Open, n, free)
    BY <1>1, <2>2, <2>3 DEF MemoryInv
  <2>5. o.pc # "down"
    BY <2>1, <2>3 DEF Awaiting
  <2> QED BY <1>1, <2>1, <2>4, <2>5, QuietLife DEF n, free
<1>3. ASSUME NEW np \in BOOLEAN, Fallback(One, np) PROVE LifePreserves
  <2> DEFINE c == [x.cur EXCEPT !.flag = TRUE, !.pend = FALSE]
             o == [x EXCEPT !.pc = "task", !.auto = TRUE, !.cur = c]
  <2>1. /\ x.pc = "idle" /\ obj' = [obj EXCEPT ![One] = o]
        /\ UNCHANGED <<files, chain, flock, created, gone>>
    <3>1. /\ x.pc = "idle"
          /\ obj' = [obj EXCEPT ![One].pc = "task", ![One].auto = TRUE,
                       ![One].cur = [@ EXCEPT !.flag = TRUE, !.pend = FALSE]]
          /\ UNCHANGED <<files, chain, flock, created, gone>>
      BY <1>3, AloneConstants DEF Fallback
    <3>2. obj' = [obj EXCEPT ![One] = o]
      BY <1>1, <3>1 DEF ObjType
    <3> QED BY <3>1, <3>2
  <2>2. c.blocks = x.cur.blocks /\ c.queue = x.cur.queue /\ c.flag
    BY <1>1 DEF SessionType
  <2> HIDE DEF c
  <2>3. /\ o.cur = c /\ o.pc = "task" /\ o.replaced = x.replaced /\ o.old = x.old
        /\ o.auto /\ o.known = x.known
    BY <1>1 DEF ObjType
  <2> HIDE DEF o
  <2>4. MemoryInv(o, Open, n, free)
    BY <1>1, <2>1, <2>2, <2>3 DEF MemoryInv, Anchoring
  <2> QED BY <1>1, <2>1, <2>3, <2>4, QuietLife DEF n, free
<1> QED BY <1>2, <1>3

\* An anchor begins: a command starts it, its task runs, the lock is free, and the
\* snapshot is scanned for skills.
LEMMA BeginLife ==
  ASSUME Alone, LifeInv, SessionInv', Begin(One) \/ GetLock(One) \/ Scanned(One)
  PROVE  LifePreserves
<1> DEFINE x == obj[One]
           B == x.cur.blocks
           n == Len(chain)
           free == flock = NoOne
<1>1. /\ MemoryInv(x, Open, n, free) /\ ObjInv(One, x, chain, workLock)
      /\ x \in ObjType /\ x.cur \in SessionType /\ obj \in [Object -> ObjType]
      /\ flock \in {One, NoOne} /\ Ids(files) \subseteq 1 .. created
      /\ B \in Seq(Entry) /\ x.snap \in Seq(Block)
  BY LifeFields DEF LifeInv
<1> HIDE DEF n, free
<1>2. CASE Begin(One)
  <2> DEFINE c == [x.cur EXCEPT !.flag = TRUE]
             o == [x EXCEPT !.pc = "wait", !.cur = c]
  <2>1. /\ x.pc = "idle" /\ obj' = [obj EXCEPT ![One] = o]
        /\ UNCHANGED <<files, chain, flock, created, gone>>
    <3>1. obj' = [obj EXCEPT ![One].pc = "wait", ![One].cur.flag = TRUE]
      BY <1>2 DEF Begin
    <3>2. obj' = [obj EXCEPT ![One] = o]
      BY <1>1, <3>1 DEF ObjType, SessionType
    <3> QED BY <1>2, <3>2 DEF Begin
  <2>2. c.blocks = B /\ c.queue = x.cur.queue /\ c.flag
    BY <1>1 DEF SessionType
  <2> HIDE DEF c
  <2>3. /\ o.cur = c /\ o.pc = "wait" /\ o.replaced = x.replaced /\ o.old = x.old
        /\ o.known = x.known
    BY <1>1 DEF ObjType
  <2> HIDE DEF o
  <2>4. MemoryInv(o, Open, n, free)
    BY <1>1, <2>1, <2>2, <2>3 DEF MemoryInv, Anchoring
  <2> QED BY <1>1, <2>1, <2>3, <2>4, QuietLife DEF n, free
<1>3. CASE GetLock(One)
  <2> DEFINE t == IdsOf(B)
             o == [x EXCEPT !.pc = "scan", !.snap = t]
  <2>1. /\ x.pc = "wait" /\ flock' = One /\ obj' = [obj EXCEPT ![One] = o]
        /\ UNCHANGED <<files, chain, created, gone>>
    BY <1>3 DEF GetLock, IdsOf
  <2> HIDE DEF t
  <2>2. /\ o.cur = x.cur /\ o.pc = "scan" /\ o.replaced = x.replaced /\ o.old = x.old
        /\ o.known = x.known /\ o.snap = t
    BY <1>1 DEF ObjType
  <2> HIDE DEF o
  <2>3. MemoryInv(o, Open, n, FALSE)
    BY <1>1, <2>1, <2>2 DEF MemoryInv, Anchoring, t
  <2>4. (flock' = NoOne) = FALSE
    BY <2>1, AloneConstants
  <2>5. MemoryInv(o, Open, n, flock' = NoOne)
    BY <2>3, <2>4
  <2> QED BY <1>1, <2>1, <2>2, <2>5, QuietLife DEF n
<1>4. CASE Scanned(One)
  <2> DEFINE o == [x EXCEPT !.pc = "convert"]
  <2>1. /\ x.pc = "scan" /\ obj' = [obj EXCEPT ![One] = o]
        /\ UNCHANGED <<files, chain, flock, created, gone>>
    BY <1>4 DEF Scanned
  <2>2. /\ o.cur = x.cur /\ o.pc = "convert" /\ o.replaced = x.replaced /\ o.old = x.old
        /\ o.known = x.known /\ o.snap = x.snap /\ o.done = x.done
    BY <1>1 DEF ObjType
  <2> HIDE DEF o
  <2>3. x.done = 0 /\ x.snap = IdsOf(B)
    BY <1>1, <2>1 DEF ObjInv, MemoryInv
  <2>4. Rest(x.snap, x.done) = Ids(Range(B))
    <3>1. Range(x.snap) = Ids(Range(B))
      BY <1>1, <2>3, IdsAreBlocks
    <3>2. DOMAIN x.snap = {j \in DOMAIN x.snap : j > 0}
      BY <1>1
    <3> QED BY <2>3, <3>1, <3>2 DEF Rest, Range
  <2>5. MemoryInv(o, Open, n, free)
    BY <1>1, <2>1, <2>2, <2>4 DEF MemoryInv, Anchoring
  <2> QED BY <1>1, <2>1, <2>2, <2>5, QuietLife DEF n, free
<1> QED BY <1>2, <1>3, <1>4

\* The anchor is over before it converts a block, or after all are permanent: what
\* was queued joins the session.
LEMMA LeaveLife ==
  ASSUME Alone, LifeInv, SessionInv', NEW F \in SUBSET files, Leave(One, F),
         UNCHANGED chain,
         obj[One].pc \in {"task", "scan", "post"},
         obj[One].auto \/ obj[One].pc = "post"
  PROVE  LifePreserves
<1> DEFINE x == obj[One]
           n == Len(chain)
           s == x[Anchored(One)]
           Q == FlushedOnExit(One)
           t == JoinedBlocks(s.blocks, Q)
           q == IF Q = <<>> THEN s.queue ELSE <<>>
           u == [s EXCEPT !.blocks = t, !.queue = q]
           left == [u EXCEPT !.flag = FALSE]
           c == IF x.replaced THEN x.cur ELSE left
           k == x.known
           o == [NotLoaded EXCEPT !.pc = "idle", !.known = k, !.cur = c]
<1>1. /\ MemoryInv(x, Open, n, flock = NoOne) /\ ObjInv(One, x, chain, workLock)
      /\ x \in ObjType /\ x.cur \in SessionType /\ obj \in [Object -> ObjType]
      /\ flock \in {One, NoOne} /\ Ids(files) \subseteq 1 .. created
      /\ x.cur.blocks \in Seq(Entry) /\ x.cur.queue \in Seq(Block)
      /\ x.old.blocks \in Seq(Entry) /\ x.old.queue \in Seq(Block)
      /\ F \in SUBSET Entry /\ IsFiniteSet(F)
  <2>1. F \in SUBSET Entry /\ IsFiniteSet(F)
    BY LifeFields, FS_Subset
  <2>2. x.old.blocks \in Seq(Entry) /\ x.old.queue \in Seq(Block)
    BY LifeFields DEF SessionType
  <2>3. flock \in {One, NoOne} /\ Ids(files) \subseteq 1 .. created
    BY DEF LifeInv
  <2> QED BY LifeFields, <2>1, <2>2, <2>3
<1>2. /\ files' = JoinedFiles(F, s.blocks, Q) /\ obj' = [obj EXCEPT ![One] = o]
      /\ flock' = NoOne /\ UNCHANGED <<chain, created, gone>>
  BY <1>1, AloneConstants DEF Leave, ResetFlag, Unlocked
<1>3. s = IF x.replaced THEN x.old ELSE x.cur
  BY DEF Anchored
<1>4. Q = IF x.auto THEN s.queue ELSE <<>>
  BY DEF FlushedOnExit
<1> HIDE DEF s, Q, n, k
<1>5. Q = s.queue
  BY <1>1, <1>3, <1>4 DEF MemoryInv, Anchoring
<1>6. /\ s.blocks \in Seq(Entry) /\ Q \in Seq(Block) /\ s \in SessionType
  BY <1>1, <1>3, <1>5 DEF ObjType
<1>7. t \in Seq(Entry) /\ Ids(Range(t)) = Ids(Range(s.blocks)) \cup Range(Q)
  BY <1>6, JoinedBlocksKeep
<1>8. q = <<>>
  BY <1>5
<1> HIDE DEF q
<1>9. Open = Ids(Range(x.cur.blocks)) \cup Range(x.cur.queue) /\ Open \subseteq 1 .. created
  BY <1>1 DEF MemoryInv, Open
<1>10. /\ Range(<<>>) = {} /\ DOMAIN <<>> = {} /\ Ids({}) = {}
  BY DEF Range, Ids
<1>11. CASE ~x.replaced
  <2>1. s = x.cur /\ c = left
    BY <1>3, <1>11
  <2>2. Ordered(IdsOf(t))
    BY <1>1, <1>5, <1>6, <2>1, JoinedIsOrdered DEF MemoryInv
  <2> HIDE DEF t
  <2>3. u.blocks = t /\ u.queue = <<>> /\ u \in SessionType
    <3>1. q \in Seq(Block)
      BY <1>8
    <3> QED BY <1>6, <1>7, <1>8, <3>1 DEF SessionType
  <2> HIDE DEF u
  <2>4. left.blocks = t /\ left.queue = <<>> /\ ~left.flag
    BY <2>3 DEF SessionType
  <2> HIDE DEF left, c
  <2>5. /\ o.cur = left /\ o.pc = "idle" /\ ~o.replaced /\ o.old.queue = <<>> /\ o.known = k
    BY <2>1, NotLoadedType DEF NotLoaded
  <2> HIDE DEF o
  <2>6. Ids(files') \subseteq 1 .. created
    <3>1. Ids(files') \subseteq Ids(F) \cup Ids(Range(s.blocks)) \cup Range(Q)
      BY <1>1, <1>2, <1>6, JoinedFilesKeep
    <3>2. Ids(F) \subseteq Ids(files)
      BY DEF Ids
    <3> QED BY <1>1, <1>5, <1>9, <2>1, <3>1, <3>2
  <2>7. k = n
    BY <1>1 DEF MemoryInv, k
  <2>8. MemoryInv(o, Open, n, TRUE)
    <3>1. Open = Ids(Range(t)) \cup Range(<<>>)
      BY <1>5, <1>7, <1>9, <1>10, <2>1
    <3> QED BY <1>10, <2>2, <2>4, <2>5, <2>7, <3>1 DEF MemoryInv, Anchoring
  <2> QED BY <1>2, <2>5, <2>6, <2>8, QuietLife DEF n
<1>12. CASE x.replaced
  <2>1. /\ s.queue = <<>> /\ Q = <<>> /\ x.pc = "post" /\ files' = F /\ c = x.cur
        /\ x.cur.queue = <<>>
    <3>1. s.queue = <<>> /\ Q = <<>> /\ x.pc = "post" /\ c = x.cur
      BY <1>1, <1>3, <1>5, <1>12 DEF MemoryInv
    <3> QED BY <1>1, <1>2, <3>1 DEF MemoryInv, Anchoring, JoinedFiles
  <2> HIDE DEF t, u, left, c
  <2>2. /\ o.cur = x.cur /\ o.pc = "idle" /\ ~o.replaced /\ o.old.queue = <<>> /\ o.known = k
    BY <2>1, NotLoadedType DEF NotLoaded
  <2> HIDE DEF o
  <2>3. k = n
    BY <1>1, <2>1 DEF MemoryInv, k
  <2>4. MemoryInv(o, Open, n, TRUE)
    BY <1>1, <1>9, <2>1, <2>2, <2>3 DEF MemoryInv, Anchoring
  <2>5. Ids(files') \subseteq 1 .. created
    BY <1>1, <2>1 DEF Ids
  <2> QED BY <1>2, <2>2, <2>4, <2>5, QuietLife DEF n
<1> QED BY <1>11, <1>12

\* The next block of the snapshot becomes permanent: it is one of the oldest open ones.
LEMMA ConvertLife ==
  ASSUME Alone, LifeInv, SessionInv', Convert(One)
  PROVE  LifePreserves
<1> DEFINE x == obj[One]
           u == x.snap
           k == x.done + 1
           n == Len(chain)
           m == x.known + 1
           free == flock = NoOne
           o == [x EXCEPT !.done = k, !.known = m]
<1>1. /\ MemoryInv(x, Open, n, free) /\ ObjInv(One, x, chain, workLock)
      /\ x \in ObjType /\ x.cur \in SessionType /\ obj \in [Object -> ObjType]
      /\ flock \in {One, NoOne} /\ chain \in Seq(Block) /\ n \in Nat /\ x.known \in Nat
      /\ x.cur.blocks \in Seq(Entry) /\ u \in Seq(Block) /\ x.done \in Nat
  BY LifeFields DEF LifeInv, ObjType
<1>2. x.pc = "convert" /\ x.done < Len(u) /\ x.known = n
  BY <1>1 DEF Convert, MemoryInv
<1>3. /\ chain' = Append(chain, u[k]) /\ obj' = [obj EXCEPT ![One] = o]
      /\ UNCHANGED <<files, flock, created, gone>>
  <2>1. /\ chain' = Append(chain, u[k])
        /\ obj' = [obj EXCEPT ![One].done = @ + 1, ![One].known = @ + 1]
        /\ UNCHANGED <<files, flock, created, gone>>
    BY <1>2, AloneConstants DEF Convert, n
  <2> QED BY <1>1, <2>1 DEF ObjType
<1>4. /\ k \in DOMAIN u /\ k \in Nat /\ m \in Nat /\ u[k] \in Block
      /\ \A j \in DOMAIN u : j \in Nat /\ (j > x.done <=> j = k \/ j > k)
  BY <1>1, <1>2
<1>5. Open = Range(x.cur.queue) \cup Rest(u, x.done) /\ u = IdsOf(x.cur.blocks)
  BY <1>1, <1>2 DEF MemoryInv
<1>6. Ordered(u) /\ Range(u) = Ids(Range(x.cur.blocks))
  BY <1>1, <1>5, IdsAreBlocks DEF MemoryInv
<1>7. \A j \in DOMAIN u : j > k => u[k] # u[j] /\ TimeOf[u[k]] <= TimeOf[u[j]]
  BY <1>4, <1>6 DEF Ordered
<1>8. Rest(u, x.done) = {u[k]} \cup Rest(u, k) /\ u[k] \notin Rest(u, k)
  BY <1>4, <1>7 DEF Rest
<1>9. \A b \in Range(x.cur.queue) : u[k] < b
  BY <1>1, <1>4, <1>6 DEF MemoryInv, Range
<1>10. Open \subseteq Block /\ Open \subseteq 1 .. created
  BY LifeFields DEF Open, Block
<1>11. u[k] \notin Range(x.cur.queue) /\ u[k] \in Open
  <2>1. Range(x.cur.queue) \subseteq Nat
    BY <1>5, <1>10
  <2> QED BY <1>4, <1>5, <1>8, <1>9, <2>1 DEF Block
<1>12. Range(chain') = Range(chain) \cup {u[k]} /\ Len(chain') = n + 1
  <2>1. /\ Len(chain') = n + 1 /\ DOMAIN chain' = (DOMAIN chain) \cup {n + 1}
        /\ chain'[n + 1] = u[k] /\ \A i \in DOMAIN chain : chain'[i] = chain[i]
    BY <1>1, <1>3, <1>4
  <2> QED BY <2>1 DEF Range
<1>13. Open' = Open \ {u[k]} /\ Open' = Range(x.cur.queue) \cup Rest(u, k)
  <2>1. Open' = Open \ {u[k]}
    BY <1>3, <1>12 DEF Open
  <2> QED BY <1>5, <1>8, <1>11, <2>1
<1>14. \A b \in Open' : TimeOf[u[k]] <= TimeOf[b]
  <2>1. \A b \in Range(x.cur.queue) : TimeOf[u[k]] <= TimeOf[b]
    BY <1>4, <1>5, <1>9, <1>10, TimesGrow
  <2>2. \A b \in Rest(u, k) : TimeOf[u[k]] <= TimeOf[b]
    BY <1>7 DEF Rest
  <2> QED BY <1>13, <2>1, <2>2
<1>15. ChainInv(chain, Open) /\ Range(chain) \cup gone \cup Ids(files) \subseteq 1 .. created
  BY DEF LifeInv
<1>16. /\ Range(chain') \cup gone' \cup Ids(files') \subseteq 1 .. created'
       /\ ChainInv(chain', Open')
  BY <1>3, <1>10, <1>11, <1>12, <1>13, <1>14, <1>15 DEF ChainInv
<1>17. Lifecycle!Next
  <2>1. \A i \in DOMAIN chain : TimeOf[chain[i]] <= TimeOf[u[k]]
    BY <1>11, <1>15 DEF ChainInv, Range
  <2>2. Lifecycle!Anchor(u[k])
    BY <1>3, <1>11, <1>13, <2>1 DEF Lifecycle!Anchor, Open
  <2> QED BY <1>4, <2>2 DEF Lifecycle!Next
<1> HIDE DEF n, free, k, m, u
<1>18. /\ o.cur = x.cur /\ o.pc = x.pc /\ o.replaced = x.replaced /\ o.old = x.old
       /\ o.auto = x.auto /\ o.snap = u /\ o.known = m /\ o.done = k
  BY <1>1 DEF ObjType, u
<1> HIDE DEF o
<1>19. MemoryInv(o, Open', Len(chain'), free)
  <2>1. m = Len(chain')
    BY <1>2, <1>12 DEF m
  <2>2. x.snap = u
    BY DEF u
  <2> QED BY <1>1, <1>2, <1>5, <1>13, <1>18, <2>1, <2>2 DEF MemoryInv, Anchoring
<1>20. LifeInv'
  BY <1>1, <1>2, <1>3, <1>16, <1>18, <1>19, LifeStep DEF free
<1> QED BY <1>17, <1>20 DEF LifePreserves

\* The session is cleared of what is permanent; what was queued is its new content.
LEMMA ClearLife ==
  ASSUME Alone, LifeInv, SessionInv', Clear(One)
  PROVE  LifePreserves
<1> DEFINE x == obj[One]
           s == x.cur
           n == Len(chain)
           G == CleanedUp(files, Range(x.snap))
           E == <<>>
           t == JoinedBlocks(E, s.queue)
           u == [s EXCEPT !.blocks = t, !.queue = E, !.flag = FALSE]
           o == [x EXCEPT !.pc = "post", !.cur = u]
<1>1. /\ MemoryInv(x, Open, n, flock = NoOne) /\ ObjInv(One, x, chain, workLock)
      /\ x \in ObjType /\ s \in SessionType /\ obj \in [Object -> ObjType]
      /\ s.queue \in Seq(Block) /\ x.snap \in Seq(Block)
      /\ files \in SUBSET Entry /\ IsFiniteSet(files)
  BY LifeFields
<1>2. /\ x.pc = "convert" /\ x.done = Len(x.snap) /\ ~x.replaced
      /\ UNCHANGED <<chain, flock, created, gone>>
  BY <1>1 DEF Clear, MemoryInv
<1>3. Anchored(One) = "cur" /\ obj[One][Anchored(One)] = s
  BY <1>2 DEF Anchored
<1>4. files' = JoinedFiles(G, E, s.queue)
  BY <1>3 DEF Clear
<1>5. obj' = [obj EXCEPT ![One] = o]
  <2>1. obj' = [obj EXCEPT ![One].pc = "post", ![One][Anchored(One)] = u]
    BY <1>3 DEF Clear
  <2> HIDE DEF u
  <2> QED BY <1>1, <1>3, <2>1 DEF ObjType
<1>6. G \in SUBSET files /\ G \in SUBSET Entry /\ IsFiniteSet(G)
  <2>1. Range(x.snap) \in SUBSET Block
    BY <1>1 DEF Range
  <2> QED BY <1>1, <2>1, CleanedUpKeeps
<1>7. /\ E \in Seq(Entry) /\ E \in Seq(Block) /\ Ids(Range(E)) = {} /\ Range(E) = {}
      /\ DOMAIN E = {}
  BY DEF Ids, Range
<1> HIDE DEF E, G
<1>8. t \in Seq(Entry) /\ Ids(Range(t)) = Range(s.queue)
  <2>1. E \in Seq(Entry) /\ s.queue \in Seq(Block)
    BY <1>1, <1>7
  <2>2. t \in Seq(Entry) /\ Ids(Range(t)) = Ids(Range(E)) \cup Range(s.queue)
    BY <2>1, JoinedBlocksKeep, Zenon
  <2> QED BY <1>7, <2>2
<1>9. Ordered(IdsOf(t))
  <2>1. Ordered(IdsOf(E))
    BY <1>7, IdsAreBlocks DEF Ordered
  <2>2. \A i, j \in DOMAIN s.queue : i < j => s.queue[i] < s.queue[j]
    BY <1>1 DEF MemoryInv
  <2> QED BY <1>1, <1>7, <2>1, <2>2, JoinedIsOrdered
<1>10. Rest(x.snap, x.done) = {}
  <2>1. \A j \in DOMAIN x.snap : ~(j > x.done)
    BY <1>1, <1>2
  <2> QED BY <2>1 DEF Rest
<1>11. Open = Range(s.queue) /\ Open \subseteq 1 .. created
  BY <1>1, <1>2, <1>10 DEF MemoryInv, Open
<1>12. Ids(files') \subseteq 1 .. created
  <2>1. Ids(files') \subseteq Ids(G) \cup Ids(Range(E)) \cup Range(s.queue)
    BY <1>1, <1>4, <1>6, <1>7, JoinedFilesKeep
  <2>2. Ids(G) \subseteq Ids(files) /\ Ids(files) \subseteq 1 .. created
    BY <1>6 DEF Ids, LifeInv
  <2> QED BY <1>7, <1>11, <2>1, <2>2
<1> HIDE DEF t, n
<1>13. u.blocks = t /\ u.queue = E /\ ~u.flag /\ u \in SessionType
  BY <1>1, <1>7, <1>8 DEF SessionType
<1> HIDE DEF u
<1>14. /\ o.cur = u /\ o.pc = "post" /\ o.replaced = x.replaced /\ o.old = x.old
       /\ o.known = x.known
  BY <1>1 DEF ObjType
<1> HIDE DEF o
<1>15. MemoryInv(o, Open, n, flock' = NoOne)
  <2>1. Open = Range(E) \cup Ids(Range(t))
    BY <1>7, <1>8, <1>11
  <2> QED BY <1>1, <1>2, <1>7, <1>9, <1>13, <1>14, <2>1 DEF MemoryInv, Anchoring, E
<1>16. flock' \in {One, NoOne}
  BY <1>2 DEF LifeInv
<1> QED BY <1>2, <1>5, <1>12, <1>14, <1>15, <1>16, QuietLife DEF n

\* The anchor task runs, or an anchor ends: interrupted in the scan or after the
\* conversion, or finished; the lock is never taken by another.
LEMMA TaskLife ==
  ASSUME Alone, LifeInv, SessionInv',
         StartTask(One) \/ LockTimeout(One) \/ Interrupted(One) \/ Finish(One)
  PROVE  LifePreserves
<1> DEFINE x == obj[One]
           n == Len(chain)
           free == flock = NoOne
<1>1. /\ MemoryInv(x, Open, n, free) /\ x \in ObjType
      /\ flock \in {One, NoOne} /\ Ids(files) \subseteq 1 .. created
      /\ files \in SUBSET Entry /\ IsFiniteSet(files) /\ x.snap \in Seq(Block)
  BY LifeFields DEF LifeInv
<1>2. CASE StartTask(One) /\ x.cur.blocks # <<>>
  <2> DEFINE o == [x EXCEPT !.pc = "wait"]
  <2>1. /\ x.pc = "task" /\ obj' = [obj EXCEPT ![One] = o]
        /\ UNCHANGED <<files, chain, flock, created, gone>>
    BY <1>2 DEF StartTask
  <2>2. /\ o.cur = x.cur /\ o.pc = "wait" /\ o.replaced = x.replaced /\ o.old = x.old
        /\ o.known = x.known
    BY <1>1 DEF ObjType
  <2> HIDE DEF o, n, free
  <2>3. MemoryInv(o, Open, n, free)
    BY <1>1, <2>1, <2>2 DEF MemoryInv, Anchoring
  <2> QED BY <1>1, <2>1, <2>2, <2>3, QuietLife DEF n, free
<1>3. CASE StartTask(One) /\ x.cur.blocks = <<>>
  <2>1. Leave(One, files) /\ UNCHANGED chain /\ x.pc = "task" /\ x.auto
    BY <1>1, <1>3 DEF StartTask, MemoryInv
  <2> QED BY <2>1, LeaveLife
<1>4. CASE LockTimeout(One)
  BY <1>1, <1>4 DEF LockTimeout, MemoryInv
<1>5. CASE Interrupted(One)
  <2>1. /\ Leave(One, files) /\ UNCHANGED chain
        /\ x.pc = "post" \/ (x.pc = "scan" /\ x.auto)
    BY <1>5, AloneConstants DEF Interrupted
  <2> QED BY <2>1, LeaveLife
<1>6. CASE Finish(One)
  <2>1. /\ Leave(One, CleanedUp(files, Range(x.snap))) /\ UNCHANGED chain /\ x.pc = "post"
    BY <1>6 DEF Finish
  <2>2. CleanedUp(files, Range(x.snap)) \in SUBSET files
    <3>1. Range(x.snap) \in SUBSET Block
      BY <1>1 DEF Range
    <3> QED BY <1>1, <3>1, CleanedUpKeeps
  <2> QED BY <2>1, <2>2, LeaveLife
<1> QED BY <1>2, <1>3, <1>4, <1>5, <1>6

\* The worker is never loaded, and the object only once.
LEMMA NeverAlone ==
  ASSUME Alone, LifeInv
  PROVE  /\ ~WorkerStep /\ ~Proceed(Worker) /\ ~Reload(One)
         /\ \A p \in Object : ~Crash(p) /\ ~Spawn(p) /\ ~SecondAnchor(p)
<1>1. obj[Worker].pc = "down"
  BY DEF LifeInv
<1>2. ~WorkerStep /\ ~Proceed(Worker)
  BY <1>1 DEF WorkerStep, LoadWorker, WorkerGivesUp, WorkerStarts, NothingLoaded, Proceed,
     StartTask, GetLock, LockTimeout, Scanned, Interrupted, Convert, Clear, Finish
<1>3. ~Reload(One)
  BY LifeFields DEF Reload, MemoryInv
<1>4. \A p \in Object : ~Crash(p) /\ ~Spawn(p) /\ ~SecondAnchor(p)
  BY AloneConstants DEF Crash, Spawn, SecondAnchor
<1> QED BY <1>2, <1>3, <1>4

LEMMA LifeNext ==
  ASSUME Alone, LifeInv, [Next]_vars
  PROVE  LifePreserves
<1>1. SessionInv'
  BY SessionNext DEF LifeInv, Preserves
<1>2. ASSUME NEW p \in Object,
             \/ LoadFront(p) \/ Reload(p) \/ Crash(p)
             \/ Create(p) \/ (\E i \in Block : Delete(p, i))
             \/ (\E mark \in BOOLEAN : Discard(p, mark))
             \/ SkipAutoAnchor(p) \/ Spawn(p) \/ (\E np \in BOOLEAN : Fallback(p, np))
             \/ Begin(p) \/ SecondAnchor(p) \/ Proceed(p)
      PROVE  LifePreserves
  <2>1. p = One
    <3>1. p = Worker => p \notin Front
      BY AloneConstants
    <3>2. p # Worker
      BY <1>2, <3>1, NeverAlone DEF LoadFront, Reload, Create, Delete, MayRemove, Discard,
         SkipAutoAnchor, PendingAnchor, Fallback, Begin
    <3> QED BY <3>2, AloneConstants
  <2>2. \/ LoadFront(One) \/ Create(One) \/ (\E i \in Block : Delete(One, i))
        \/ (\E mark \in BOOLEAN : Discard(One, mark))
        \/ SkipAutoAnchor(One) \/ (\E np \in BOOLEAN : Fallback(One, np))
        \/ Begin(One) \/ Proceed(One)
    BY <1>2, <2>1, NeverAlone
  <2> QED BY <1>1, <2>2, LoadLife, CreateLife, DeleteLife, DiscardLife, AutoAnchorLife,
          BeginLife, TaskLife, ConvertLife, ClearLife DEF Proceed
<1>3. CASE UNCHANGED vars
  <2>1. Open' = Open /\ UNCHANGED Lifecycle!vars
    BY <1>3 DEF vars, Open, Lifecycle!vars
  <2>2. LifeInv'
    BY <1>1, <1>3, <2>1 DEF vars, LifeInv, ChainInv, MemoryInv
  <2> QED BY <2>1, <2>2 DEF LifePreserves
<1> QED BY <1>2, <1>3, NeverAlone DEF Next

LEMMA LifeInit == ASSUME Alone, Init PROVE LifeInv /\ Lifecycle!Init
<1>1. obj[One] = NotLoaded /\ obj[Worker] = NotLoaded
  BY AloneConstants DEF Init
<1>2. Open = {} /\ Range(chain) = {} /\ Ids({}) = {}
  BY DEF Init, Open, Range, Ids
<1>3. /\ Range(<<>>) = {} /\ DOMAIN <<>> = {} /\ NotLoaded.old.queue = <<>>
      /\ Ordered(IdsOf(<<>>))
  BY DEF Range, NotLoaded, NewSession, Ordered, IdsOf
<1>4. MemoryInv(NotLoaded, {}, Len(chain), TRUE)
  BY <1>2, <1>3, NotLoadedType DEF MemoryInv, Anchoring
<1>5. LifeInv
  BY <1>1, <1>2, <1>4, SessionInit, NotLoadedType DEF LifeInv, ChainInv, Init
<1>6. Lifecycle!Init
  BY <1>2, SessionConstants DEF Init, Lifecycle!Init, Open, Block
<1> QED BY <1>5, <1>6

-----------------------------------------------------------------------------
(* The life of the blocks: the theorems *)

LEMMA LifeInvHolds == Alone => (Spec => []LifeInv)
<1> SUFFICES ASSUME Alone PROVE Spec => []LifeInv
  OBVIOUS
<1>1. Init => LifeInv
  BY LifeInit
<1>2. LifeInv /\ [Next]_vars => LifeInv'
  BY LifeNext DEF LifePreserves
<1> QED BY <1>1, <1>2, PTL DEF Spec

\* An object that alone anchors, in its own process, implements the life of its
\* blocks: whenever the user creates, deletes, discards or anchors, before, during and
\* after an anchor that may be cut short, every block becomes permanent at most once,
\* in the order of time, and never after it has been removed.
THEOREM AloneImplementsLifecycle == Alone => (Spec => ImplementsLifecycle)
<1> SUFFICES ASSUME Alone PROVE Spec => ImplementsLifecycle
  OBVIOUS
<1>1. Init => Lifecycle!Init
  BY LifeInit
<1>2. LifeInv /\ [Next]_vars => [Lifecycle!Next]_(Lifecycle!vars)
  BY LifeNext DEF LifePreserves
<1> QED BY <1>1, <1>2, LifeInvHolds, PTL DEF Spec, ImplementsLifecycle, Lifecycle!Spec

\* Then no block waits in the queue once no anchor of its session is in progress:
\* what _run_auto_anchor_background promises holds of every way out of an anchor.
THEOREM QueueIsFlushed == Alone => (Spec => []QueuedOnlyWhileAnchoring)
<1> SUFFICES ASSUME Alone PROVE Spec => []QueuedOnlyWhileAnchoring
  OBVIOUS
<1>1. LifeInv => QueuedOnlyWhileAnchoring
  BY AloneConstants DEF LifeInv, MemoryInv, QueuedOnlyWhileAnchoring, Anchoring
<1> QED BY <1>1, LifeInvHolds, PTL

\* And the object remembers every block that is neither permanent nor removed, at
\* every point of an anchor.
THEOREM NothingForgotten == Alone => (Spec => []RememberedUntilAnchored)
<1> SUFFICES ASSUME Alone PROVE Spec => []RememberedUntilAnchored
  OBVIOUS
<1>1. LifeInv => RememberedUntilAnchored
  <2> SUFFICES ASSUME LifeInv
               PROVE  Open \subseteq Ids(Range(obj[One].cur.blocks)) \cup Range(obj[One].cur.queue)
    BY AloneConstants DEF RememberedUntilAnchored, Open
  <2>1. CASE obj[One].pc # "convert"
    BY <2>1, LifeFields DEF MemoryInv
  <2>2. CASE obj[One].pc = "convert"
    <3>1. Rest(obj[One].snap, obj[One].done) \subseteq Range(IdsOf(obj[One].cur.blocks))
      BY <2>2, LifeFields DEF MemoryInv, Rest, Range
    <3> QED BY <2>2, <3>1, LifeFields, IdsAreBlocks DEF MemoryInv
  <2> QED BY <2>1, <2>2
<1> QED BY <1>1, LifeInvHolds, PTL

============================================================================
