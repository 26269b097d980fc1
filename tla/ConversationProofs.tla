-------------------------- MODULE ConversationProofs --------------------------
(***************************************************************************)
(* Proofs about Conversation and P2PConversation in the specification of   *)
(* MCActivities, for every value of its constants: any number of Qubes,    *)
(* messages and restarts.                                                  *)
(***************************************************************************)
EXTENDS MCActivities, FiniteSetTheorems, NaturalsInduction, TLAPS

-----------------------------------------------------------------------------
(* Sequences without some of their elements *)

\* Of a set of numbers that is not empty one is the least.
LEMMA LeastExists ==
  ASSUME NEW N \in SUBSET Nat, N # {}
  PROVE  \E n \in N : \A k \in N : n <= k
<1>1. IsWellFoundedOn(OpToRel(<, Nat), Nat)
  BY NatLessThanWellFounded
<1>2. PICK n \in N : \A y \in N : ~(<<y, n>> \in OpToRel(<, Nat))
  BY <1>1, WFMin
<1>3. \A y \in N : ~(y < n)
  BY <1>2 DEF OpToRel
<1> QED BY <1>3

\* What is left of the first i elements, for each i.
KeptOf(s, ms, n, F) ==
  F = [i \in 0 .. n |->
         IF i = 0 THEN <<>>
         ELSE IF s[i] \in ms THEN F[i - 1] ELSE Append(F[i - 1], s[i])]

LEMMA KeptExists ==
  ASSUME NEW s, NEW ms
  PROVE  \A n \in Nat : \E F : KeptOf(s, ms, n, F)
<1> DEFINE Bad == {n \in Nat : ~\E F : KeptOf(s, ms, n, F)}
<1> SUFFICES ASSUME Bad # {} PROVE FALSE
  OBVIOUS
<1>1. PICK n \in Bad : \A k \in Bad : n <= k
  <2>1. Bad \subseteq Nat
    OBVIOUS
  <2> HIDE DEF Bad
  <2> QED BY <2>1, LeastExists
<1>2. n \in Nat /\ ~\E F : KeptOf(s, ms, n, F)
  OBVIOUS
<1>3. CASE n = 0
  <2>1. KeptOf(s, ms, 0, [i \in 0 .. 0 |-> <<>>])
    BY DEF KeptOf
  <2> QED BY <1>2, <1>3, <2>1
<1>4. CASE n # 0
  <2>1. n - 1 \in Nat /\ ~(n <= n - 1)
    BY <1>2, <1>4
  <2>2. n - 1 \notin Bad
    BY <1>1, <2>1
  <2>3. PICK F : KeptOf(s, ms, n - 1, F)
    BY <2>1, <2>2
  <2> DEFINE H == [i \in 0 .. n |->
                     IF i # n THEN F[i]
                     ELSE IF s[n] \in ms THEN F[n - 1] ELSE Append(F[n - 1], s[n])]
  <2>4. \A i \in 0 .. n - 1 :
          F[i] = IF i = 0 THEN <<>>
                 ELSE IF s[i] \in ms THEN F[i - 1] ELSE Append(F[i - 1], s[i])
    BY <2>3 DEF KeptOf
  <2>5. \A i \in 0 .. n : i # n => i \in 0 .. n - 1 /\ (i # 0 => i - 1 \in 0 .. n /\ i - 1 # n)
    BY <1>2
  <2>6. n - 1 \in 0 .. n /\ n - 1 # n
    BY <2>1
  <2>7. KeptOf(s, ms, n, H)
    BY <1>4, <2>4, <2>5, <2>6 DEF KeptOf
  <2> QED BY <1>2, <2>7
<1> QED BY <1>3, <1>4

\* The sequence s without the elements of ms, as it is defined in the components.
Filtered(s, ms) ==
  LET kept[i \in 0 .. Len(s)] ==
        IF i = 0 THEN <<>>
        ELSE IF s[i] \in ms THEN kept[i - 1] ELSE Append(kept[i - 1], s[i])
  IN  kept[Len(s)]

\* f has the elements of the first n of s that are not in ms, at the places e.
Embeds(s, ms, n, f, e) ==
  /\ e \in [1 .. Len(f) -> 1 .. n]
  /\ \A k \in 1 .. Len(f) : f[k] = s[e[k]] /\ s[e[k]] \notin ms
  /\ \A j, k \in 1 .. Len(f) : j < k => e[j] < e[k]
  /\ \A i \in 1 .. n : s[i] \notin ms => \E k \in 1 .. Len(f) : e[k] = i

\* They keep their order, each at one place.
LEMMA FilterEmbeds ==
  ASSUME NEW X, NEW s \in Seq(X), NEW ms
  PROVE  Filtered(s, ms) \in Seq(X) /\ \E e : Embeds(s, ms, Len(s), Filtered(s, ms), e)
<1>1. Len(s) \in Nat /\ \A i \in 1 .. Len(s) : s[i] \in X
  OBVIOUS
<1>2. PICK F : KeptOf(s, ms, Len(s), F) /\ Filtered(s, ms) = F[Len(s)]
  <2>1. \E F : KeptOf(s, ms, Len(s), F)
    BY <1>1, KeptExists
  <2> QED BY <2>1, Zenon DEF KeptOf, Filtered
<1> DEFINE Good(n) == F[n] \in Seq(X) /\ \E e : Embeds(s, ms, n, F[n], e)
           Bad == {n \in 0 .. Len(s) : ~Good(n)}
<1> SUFFICES ASSUME Bad # {} PROVE FALSE
  BY <1>1, <1>2
<1>3. PICK n \in Bad : \A k \in Bad : n <= k
  <2>1. Bad \subseteq Nat
    BY <1>1
  <2> HIDE DEF Bad
  <2> QED BY <2>1, LeastExists
<1>4. n \in 0 .. Len(s) /\ ~Good(n)
  OBVIOUS
<1>5. F[n] = IF n = 0 THEN <<>>
             ELSE IF s[n] \in ms THEN F[n - 1] ELSE Append(F[n - 1], s[n])
  BY <1>2, <1>4 DEF KeptOf
<1>6. CASE n = 0
  <2>1. Embeds(s, ms, 0, <<>>, <<>>)
    BY DEF Embeds
  <2> QED BY <1>4, <1>5, <1>6, <2>1
<1>7. CASE n # 0
  <2>1. n \in Nat /\ n - 1 \in 0 .. Len(s) /\ ~(n <= n - 1) /\ n \in 1 .. Len(s)
    BY <1>1, <1>4, <1>7
  <2>2. Good(n - 1)
    BY <1>3, <2>1
  <2>3. PICK e : Embeds(s, ms, n - 1, F[n - 1], e)
    BY <2>2
  <2> DEFINE f == F[n - 1]
  <2>4. f \in Seq(X) /\ Len(f) \in Nat
    BY <2>2
  <2>5. CASE s[n] \in ms
    <3>1. F[n] = f
      BY <1>5, <1>7, <2>5
    <3>2. Embeds(s, ms, n, f, e)
      BY <2>1, <2>3, <2>5 DEF Embeds
    <3> QED BY <1>4, <2>4, <3>1, <3>2
  <2>6. CASE s[n] \notin ms
    <3> DEFINE g == Append(f, s[n])
               d == [k \in 1 .. Len(f) + 1 |-> IF k = Len(f) + 1 THEN n ELSE e[k]]
    <3>1. F[n] = g
      BY <1>5, <1>7, <2>6
    <3>2. /\ g \in Seq(X) /\ Len(g) = Len(f) + 1 /\ g[Len(f) + 1] = s[n]
          /\ \A k \in 1 .. Len(f) : g[k] = f[k]
      BY <1>1, <2>1, <2>4
    <3>3. \A k \in 1 .. Len(g) : k # Len(f) + 1 => k \in 1 .. Len(f)
      BY <2>4, <3>2
    <3> HIDE DEF f, g
    <3>4. /\ e \in [1 .. Len(f) -> 1 .. n - 1]
          /\ \A k \in 1 .. Len(f) : f[k] = s[e[k]] /\ s[e[k]] \notin ms
          /\ \A j, k \in 1 .. Len(f) : j < k => e[j] < e[k]
          /\ \A i \in 1 .. n - 1 : s[i] \notin ms => \E k \in 1 .. Len(f) : e[k] = i
      BY <2>3 DEF Embeds, f
    <3>5. /\ DOMAIN d = 1 .. Len(g) /\ Len(f) + 1 \in 1 .. Len(g) /\ d[Len(f) + 1] = n
          /\ \A k \in 1 .. Len(f) : d[k] = e[k] /\ k \in 1 .. Len(g)
      BY <2>4, <3>2
    <3>6. d \in [1 .. Len(g) -> 1 .. n]
      BY <2>1, <3>3, <3>4, <3>5
    <3>7. \A j, k \in 1 .. Len(g) : j < k => d[j] < d[k]
      <4> TAKE j, k \in 1 .. Len(g)
      <4> HAVE j < k
      <4>1. j \in 1 .. Len(f)
        BY <2>4, <3>2
      <4> QED BY <2>1, <2>4, <3>3, <3>4, <3>5, <4>1
    <3> HIDE DEF d
    <3>8. \A k \in 1 .. Len(g) : g[k] = s[d[k]] /\ s[d[k]] \notin ms
      BY <2>6, <3>2, <3>3, <3>4, <3>5
    <3>9. \A i \in 1 .. n : s[i] \notin ms => \E k \in 1 .. Len(g) : d[k] = i
      <4> TAKE i \in 1 .. n
      <4> HAVE s[i] \notin ms
      <4>1. CASE i = n
        BY <3>5, <4>1
      <4>2. CASE i # n
        <5>1. i \in 1 .. n - 1
          BY <2>1, <4>2
        <5> QED BY <3>4, <3>5, <5>1
      <4> QED BY <4>1, <4>2
    <3>10. Embeds(s, ms, n, g, d)
      BY <3>6, <3>7, <3>8, <3>9 DEF Embeds
    <3> QED BY <1>4, <3>1, <3>2, <3>10
  <2> QED BY <2>5, <2>6
<1> QED BY <1>6, <1>7

\* So what is left are the elements that are not in ms.
LEMMA FilterKeeps ==
  ASSUME NEW X, NEW s \in Seq(X), NEW ms
  PROVE  /\ Filtered(s, ms) \in Seq(X)
         /\ {Filtered(s, ms)[k] : k \in DOMAIN Filtered(s, ms)} = {s[i] : i \in DOMAIN s} \ ms
<1>1. Filtered(s, ms) \in Seq(X)
  BY FilterEmbeds
<1>2. PICK e : Embeds(s, ms, Len(s), Filtered(s, ms), e)
  BY FilterEmbeds
<1> DEFINE f == Filtered(s, ms)
<1>3. DOMAIN f = 1 .. Len(f) /\ DOMAIN s = 1 .. Len(s)
  BY <1>1
<1> HIDE DEF f
<1>4. \A k \in 1 .. Len(f) : f[k] = s[e[k]] /\ s[e[k]] \notin ms /\ e[k] \in 1 .. Len(s)
  BY <1>2 DEF Embeds, f
<1>5. \A i \in 1 .. Len(s) : s[i] \notin ms => \E k \in 1 .. Len(f) : f[k] = s[i]
  BY <1>2 DEF Embeds, f
<1>6. {f[k] : k \in DOMAIN f} = {s[i] : i \in DOMAIN s} \ ms
  <2>1. ASSUME NEW k \in DOMAIN f PROVE f[k] \in {s[i] : i \in DOMAIN s} \ ms
    BY <1>3, <1>4
  <2>2. ASSUME NEW i \in DOMAIN s, s[i] \notin ms PROVE s[i] \in {f[k] : k \in DOMAIN f}
    BY <1>3, <1>5, <2>2
  <2> QED BY <2>1, <2>2
<1> QED BY <1>1, <1>6 DEF f

\* Where what is taken out lies in its place, two that come to follow each other had one
\* between them, and so had the one that comes to be the last and the end.
LEMMA FilterNeighbours ==
  ASSUME NEW X \in SUBSET Nat, NEW s \in Seq(X), NEW ms,
         \A j, k \in DOMAIN s : j < k /\ {s[j], s[k]} \cap ms # {} => s[j] < s[k]
  PROVE  LET f == Filtered(s, ms) IN
         /\ \A i \in 2 .. Len(f) :
              \/ \E b \in 2 .. Len(s) : f[i - 1] = s[b - 1] /\ f[i] = s[b]
              \/ \E r \in {s[j] : j \in DOMAIN s} \cap ms : f[i - 1] < r /\ r < f[i]
         /\ f # <<>> =>
              \/ s # <<>> /\ f[Len(f)] = s[Len(s)]
              \/ \E r \in {s[j] : j \in DOMAIN s} \cap ms : f[Len(f)] < r
<1> DEFINE f == Filtered(s, ms)
<1>1. f \in Seq(X) /\ DOMAIN s = 1 .. Len(s) /\ Len(s) \in Nat
  BY FilterEmbeds
<1>2. PICK e : Embeds(s, ms, Len(s), f, e)
  BY FilterEmbeds
<1> HIDE DEF f
<1>3. /\ Len(f) \in Nat /\ DOMAIN f = 1 .. Len(f) /\ e \in [1 .. Len(f) -> 1 .. Len(s)]
      /\ \A k \in 1 .. Len(f) : f[k] = s[e[k]] /\ e[k] \in 1 .. Len(s) /\ e[k] \in Nat
      /\ \A j, k \in 1 .. Len(f) : j < k => e[j] < e[k]
      /\ \A i \in 1 .. Len(s) : s[i] \notin ms => \E k \in 1 .. Len(f) : e[k] = i
  <2>1. \A n \in 1 .. Len(s) : n \in Nat
    BY <1>1
  <2>2. Len(f) \in Nat /\ DOMAIN f = 1 .. Len(f)
    BY <1>1
  <2> QED BY <1>2, <2>1, <2>2 DEF Embeds
<1>4. ASSUME NEW i \in 2 .. Len(f), NEW a, NEW b, a = e[i - 1], b = e[i]
      PROVE  \/ \E b1 \in 2 .. Len(s) : f[i - 1] = s[b1 - 1] /\ f[i] = s[b1]
             \/ \E r \in {s[j] : j \in DOMAIN s} \cap ms : f[i - 1] < r /\ r < f[i]
  <2>1. i \in 1 .. Len(f) /\ i - 1 \in 1 .. Len(f) /\ i - 1 < i /\ i \in Nat
    BY <1>3
  <2>2. a \in 1 .. Len(s) /\ b \in 1 .. Len(s) /\ a < b /\ f[i - 1] = s[a] /\ f[i] = s[b]
    BY <1>3, <1>4, <2>1
  <2>3. CASE b = a + 1
    <3>1. b \in 2 .. Len(s) /\ b - 1 = a
      BY <1>1, <2>2, <2>3
    <3> QED BY <2>2, <3>1
  <2>4. CASE b # a + 1
    <3>1. a + 1 \in 1 .. Len(s) /\ a < a + 1 /\ a + 1 < b /\ a \in Nat /\ b \in Nat
      BY <1>1, <2>2, <2>4
    <3>2. s[a + 1] \in ms
      <4> SUFFICES ASSUME NEW k \in 1 .. Len(f), e[k] = a + 1 PROVE FALSE
        BY <1>3, <3>1
      <4>1. k = i - 1 \/ k < i - 1 \/ k = i \/ i < k
        BY <2>1
      <4>2. e[k] = a \/ e[k] < a \/ e[k] = b \/ b < e[k]
        BY <1>3, <1>4, <2>1, <4>1
      <4> QED BY <3>1, <4>2
    <3>3. s[a] < s[a + 1] /\ s[a + 1] < s[b]
      BY <1>1, <2>2, <3>1, <3>2
    <3> QED BY <1>1, <2>2, <3>1, <3>2, <3>3
  <2> QED BY <2>3, <2>4
<1>5. ASSUME f # <<>>, NEW a, a = e[Len(f)]
      PROVE  \/ s # <<>> /\ f[Len(f)] = s[Len(s)]
             \/ \E r \in {s[j] : j \in DOMAIN s} \cap ms : f[Len(f)] < r
  <2>1. Len(f) \in 1 .. Len(f)
    BY <1>1, <1>5
  <2>2. a \in 1 .. Len(s) /\ f[Len(f)] = s[a]
    BY <1>3, <1>5, <2>1
  <2>3. CASE a = Len(s)
    BY <1>1, <2>2, <2>3
  <2>4. CASE a # Len(s)
    <3>0. \A n \in Nat : \A j \in 1 .. n : j # n => n \in 1 .. n /\ j < n /\ j \in Nat
      OBVIOUS
    <3>1. Len(s) \in 1 .. Len(s) /\ a < Len(s) /\ a \in Nat
      BY <1>1, <2>2, <2>4, <3>0
    <3>2. s[Len(s)] \in ms
      <4> SUFFICES ASSUME NEW k \in 1 .. Len(f), e[k] = Len(s) PROVE FALSE
        BY <1>3, <3>1
      <4>1. \A n \in Nat : \A j \in 1 .. n : j = n \/ j < n
        OBVIOUS
      <4>2. k = Len(f) \/ k < Len(f)
        BY <1>3, <4>1
      <4>3. e[k] = a \/ e[k] < a
        BY <1>3, <1>5, <2>1, <4>2
      <4>4. \A n, j \in Nat : j < n => n # j /\ ~(n < j)
        OBVIOUS
      <4> QED BY <1>1, <1>5, <3>1, <4>3, <4>4
    <3>3. s[a] < s[Len(s)]
      BY <1>1, <2>2, <3>1, <3>2
    <3> QED BY <1>1, <2>2, <3>1, <3>2, <3>3
  <2> QED BY <2>3, <2>4
<1>6. \A i \in 2 .. Len(f) :
        \/ \E b \in 2 .. Len(s) : f[i - 1] = s[b - 1] /\ f[i] = s[b]
        \/ \E r \in {s[j] : j \in DOMAIN s} \cap ms : f[i - 1] < r /\ r < f[i]
  BY <1>4
<1> QED BY <1>5, <1>6 DEF f

-----------------------------------------------------------------------------
(* Conversation: the inductive invariant *)

Signing(q) == \E t \in turns : t.q = q /\ t.m # C!NotSent

\* One turn at a time, and what the messages that are on their way are.
ProgressInv ==
  /\ busy <=> turns # {}
  /\ \A t, u \in turns : t = u
  /\ \A t \in turns : t.m # C!NotSent => t.m \in 1 .. turnNumber /\ author[t.m] = t.q
  /\ injections \subseteq 1 .. turnNumber /\ \A m \in injections : author[m] = User
  /\ author[0] = User /\ \A m \in 1 .. turnNumber : author[m] \in Qube \cup {User}
  /\ C!Sent \subseteq 0 .. turnNumber /\ \A q \in Qube : heard[q] \subseteq 0 .. turnNumber
  /\ phase = "new" => turns = {} /\ injections = {} /\ turnNumber = 0 /\ history = <<>> /\ last = Nobody
  /\ \A q \in Qube : turnCount[q] <= turnNumber /\ (Signing(q) => turnCount[q] < turnNumber)

\* The response that is signed is in the session of its speaker, unless it was removed.
HeardInv ==
  /\ C!HeardByAll
  /\ phase = "open" =>
       /\ \A q \in Qube : 0 \in heard[q]
       /\ \A t \in turns : t.m \notin crossed \cup {C!NotSent} => t.m \in heard[t.q]

\* The speaker of a turn is not the last one, who spoke the last response of the history;
\* and a response that an interjection has to remove can be found in some session.
AlternateInv ==
  mode = "open_discussion" /\ Cardinality(Qube) > 1 =>
    /\ C!NoBackToBack
    /\ \A t \in turns : t.q # last
    /\ history # <<>> => author[history[Len(history)]] \in {User, last}
    /\ phase = "open" =>
         \A m \in C!Sent : author[m] \in Qube => \E q \in Qube : m \in heard[q]

Previous(i) == IF i = 1 THEN Len(Order) ELSE i - 1

\* The turns of a Qube, with that it is chosen for.
Chosen(q) ==
  turnCount[q] + (IF nextSpeaker = q THEN 1 ELSE 0) + (IF \E t \in turns : t.q = q THEN 1 ELSE 0)

\* If no speaker was skipped all are chosen equally often, those before the index once
\* more, and who has been chosen and has not spoken yet is right before the index.
EvenInv ==
  mode = "round_robin" /\ ~skipped =>
    /\ nextSpeaker # Nobody => nextSpeaker = Order[Previous(index)]
    /\ \A t \in turns :
         t.q = Order[Previous(IF nextSpeaker = Nobody THEN index ELSE Previous(index))]
    /\ \E k \in Nat : \A i \in DOMAIN Order :
         Chosen(Order[i]) = k + (IF i < index THEN 1 ELSE 0)

ConversationInv ==
  /\ C!TypeOK
  /\ ProgressInv
  /\ HeardInv
  /\ AlternateInv
  /\ EvenInv

\* The components count as this module does.
LEMMA SameCounting ==
  ASSUME NEW U
  PROVE  /\ C!IsFiniteSet(U) = IsFiniteSet(U) /\ C!Cardinality(U) = Cardinality(U)
         /\ P!IsFiniteSet(U) = IsFiniteSet(U) /\ P!Cardinality(U) = Cardinality(U)
<1>1. C!IsFiniteSet(U) = IsFiniteSet(U) /\ P!IsFiniteSet(U) = IsFiniteSet(U)
  BY Zenon DEF C!IsFiniteSet, P!IsFiniteSet, IsFiniteSet
<1>2. C!Cardinality(U) = Cardinality(U)
  BY Zenon DEF C!Cardinality, Cardinality
<1>3. P!Cardinality(U) = Cardinality(U)
  BY Zenon DEF P!Cardinality, Cardinality
<1> QED BY <1>1, <1>2, <1>3

LEMMA ConversationConstants ==
  /\ User \notin Qube /\ Nobody \notin Qube /\ User # Nobody
  /\ MaxMessages \in Nat /\ MaxPrior \in Nat
  /\ Order \in Seq(Qube) /\ Len(Order) \in Nat \ {0} /\ DOMAIN Order = 1 .. Len(Order)
  /\ Len(Order) = Cardinality(Qube) /\ IsFiniteSet(Qube)
  /\ \A q \in Qube : \E i \in DOMAIN Order : Order[i] = q
  /\ \A i, j \in DOMAIN Order : Order[i] = Order[j] => i = j
<1>1. /\ IsFiniteSet(Qube) /\ Qube # {} /\ User \notin Qube /\ Nobody \notin Qube /\ User # Nobody
      /\ MaxMessages \in Nat /\ MaxPrior \in Nat
      /\ Order \in [1 .. Cardinality(Qube) -> Qube]
      /\ \A q \in Qube : \E i \in DOMAIN Order : Order[i] = q
  <2>1. C!ConversationAssumption
    BY ActivitiesAssumption
  <2> QED BY <2>1, SameCounting DEF C!ConversationAssumption
<1> DEFINE N == Cardinality(Qube)
<1>2. N \in Nat \ {0}
  BY <1>1, FS_CardinalityType, FS_EmptySet
<1>3. Order \in Seq(Qube) /\ Len(Order) = N /\ DOMAIN Order = 1 .. N
  BY <1>1, <1>2
<1>4. IsFiniteSet(1 .. N) /\ Cardinality(1 .. N) = N
  BY <1>2, FS_Interval
<1>5. Order \in Surjection(1 .. N, Qube)
  BY <1>1, <1>3 DEF Surjection
<1>6. Order \in Injection(1 .. N, Qube)
  BY <1>1, <1>4, <1>5, FS_SurjSameCardinalityImpliesInj
<1>7. \A i, j \in DOMAIN Order : Order[i] = Order[j] => i = j
  BY <1>3, <1>6 DEF Injection, IsInjective
<1> QED BY <1>1, <1>2, <1>3, <1>7

LEMMA Positioned ==
  /\ \A i \in DOMAIN Order : Order[i] \in Qube /\ Order[i] # Nobody
  /\ \A i, j \in DOMAIN Order : Order[i] = Order[j] => i = j
<1>1. /\ Order \in Seq(Qube) /\ DOMAIN Order = 1 .. Len(Order) /\ Nobody \notin Qube
      /\ \A i, j \in DOMAIN Order : Order[i] = Order[j] => i = j
  BY ConversationConstants
<1> QED BY <1>1

\* The position after i.
Following(i) == IF i = Len(Order) THEN 1 ELSE i + 1

LEMMA Positions ==
  ASSUME NEW i \in DOMAIN Order
  PROVE  /\ (i % Len(Order)) + 1 = Following(i)
         /\ Following(i) \in DOMAIN Order /\ Previous(i) \in DOMAIN Order
         /\ Previous(Following(i)) = i
<1> DEFINE n == Len(Order)
<1>1. n \in Nat \ {0} /\ i \in 1 .. n /\ DOMAIN Order = 1 .. n
  BY ConversationConstants
<1> HIDE DEF n
<1>2. i = n => i % n = 0
  BY <1>1
<1>3. i # n => i % n = i
  BY <1>1
<1>4. /\ (i % n) + 1 = IF i = n THEN 1 ELSE i + 1
      /\ (IF i = n THEN 1 ELSE i + 1) \in 1 .. n /\ (IF i = 1 THEN n ELSE i - 1) \in 1 .. n
      /\ i # n => i + 1 # 1 /\ i + 1 - 1 = i
  BY <1>1, <1>2, <1>3
<1> QED BY <1>1, <1>4 DEF Following, Previous, n

\* What the choice of a speaker changes.
LEMMA DeterminedStep ==
  ASSUME C!TypeOK, NEW q \in Qube, C!Determined(q)
  PROVE  /\ index' \in DOMAIN Order
         /\ mode = "open_discussion" /\ Cardinality(Qube) > 1 => q # last
         /\ mode = "round_robin" => q = Order[index] /\ index' = Following(index)
<1>1. index \in DOMAIN Order /\ mode \in {"open_discussion", "round_robin"}
  BY DEF C!TypeOK
<1>2. mode = "round_robin" => q = Order[index] /\ index' = Following(index)
  BY <1>1, Positions DEF C!Determined
<1>3. mode = "open_discussion" => index' = index
  BY DEF C!Determined
<1>4. ASSUME mode = "open_discussion", Cardinality(Qube) > 1 PROVE q # last
  <2>1. Qube # {last}
    BY <1>4, FS_Singleton
  <2> QED BY <1>4, <2>1 DEF C!Determined
<1> QED BY <1>1, <1>2, <1>3, <1>4, Positions

\* The beginning of a turn, when none is in progress.
LEMMA BeginTurnStep ==
  ASSUME C!TypeOK, turns = {}, NEW q \in Qube, C!BeginTurn(q)
  PROVE  /\ busy' = TRUE /\ nextSpeaker' = Nobody /\ turns' = {[q |-> q, m |-> C!NotSent]}
         /\ index' \in DOMAIN Order /\ skipped' \in BOOLEAN /\ (skipped => skipped')
         /\ mode = "open_discussion" /\ Cardinality(Qube) > 1 => q # last
         /\ mode = "round_robin" /\ ~skipped' =>
              \/ nextSpeaker # Nobody /\ q = nextSpeaker /\ index' = index
              \/ nextSpeaker = Nobody /\ q = Order[index] /\ index' = Following(index)
<1>1. busy' = TRUE /\ nextSpeaker' = Nobody /\ turns' = {[q |-> q, m |-> C!NotSent]}
  BY DEF C!BeginTurn
<1>2. CASE nextSpeaker \notin {Nobody, last} /\ q = nextSpeaker /\ UNCHANGED <<index, skipped>>
  BY <1>1, <1>2 DEF C!TypeOK
<1>3. CASE /\ nextSpeaker \in {Nobody, last} /\ C!Determined(q)
           /\ skipped' = (skipped \/ nextSpeaker # Nobody)
  BY <1>1, <1>3, DeterminedStep DEF C!TypeOK
<1> QED BY <1>2, <1>3 DEF C!BeginTurn

-----------------------------------------------------------------------------
(* Conversation: types, and what is in progress *)

LEMMA TurnRecords ==
  ASSUME NEW q \in Qube, NEW m \in C!Message \cup {C!NotSent}
  PROVE  /\ [q |-> q, m |-> m] \in C!Turn
         /\ \A t \in C!Turn : /\ t.q \in Qube /\ t.m \in C!Message \cup {C!NotSent}
                              /\ [t EXCEPT !.m = m] \in C!Turn
                              /\ [t EXCEPT !.m = m].q = t.q /\ [t EXCEPT !.m = m].m = m
BY DEF C!Turn

LEMMA ProgressInit == C!Init => C!TypeOK /\ ProgressInv
<1> SUFFICES ASSUME C!Init PROVE C!TypeOK /\ ProgressInv
  OBVIOUS
<1>1. C!TypeOK
  <2>1. 0 \in C!Message /\ 0 \in 0 .. MaxMessages /\ 1 \in DOMAIN Order
    BY ConversationConstants DEF C!Message
  <2>2. author \in [C!Message -> Qube \cup {User, Nobody}]
    BY DEF C!Init
  <2>3. turnCount \in [Qube -> 0 .. MaxMessages] /\ heard \in [Qube -> SUBSET C!Message]
    BY <2>1 DEF C!Init
  <2>4. history \in Seq(C!Message)
    BY DEF C!Init
  <2> QED BY <2>1, <2>2, <2>3, <2>4 DEF C!Init, C!TypeOK
<1>2. ProgressInv
  BY ConversationConstants DEF C!Init, ProgressInv, C!Message, C!Sent, Signing
<1> QED BY <1>1, <1>2

\* A step that sends no message and neither begins nor ends a turn.
LEMMA ProgressKept ==
  ASSUME C!TypeOK, ProgressInv,
         UNCHANGED <<mode, turnNumber, author, prior, history, last, busy, turns, injections,
                     turnCount, crossed>>,
         UNCHANGED phase \/ phase' = "ended",
         heard' \in [Qube -> SUBSET C!Message],
         \A q \in Qube : heard'[q] \subseteq heard[q],
         index' \in DOMAIN Order, nextSpeaker' \in Qube \cup {Nobody},
         turnDue' \in BOOLEAN, skipped' \in BOOLEAN
  PROVE  C!TypeOK' /\ ProgressInv'
<1>1. C!TypeOK'
  BY DEF C!TypeOK
<1>2. C!Sent' = C!Sent /\ \A q \in Qube : Signing(q)' <=> Signing(q)
  BY DEF C!Sent, Signing
<1>3. ProgressInv'
  BY <1>2 DEF ProgressInv
<1> QED BY <1>1, <1>3

LEMMA StartProgress ==
  ASSUME C!TypeOK, ProgressInv, NEW q \in Qube, C!StartConversation(q)
  PROVE  C!TypeOK' /\ ProgressInv'
<1>1. /\ phase = "new" /\ phase' = "open" /\ turns = {} /\ injections = {} /\ turnNumber = 0
      /\ heard' = [p \in Qube |-> {0}] /\ history' = <<0>>
      /\ UNCHANGED <<mode, turnNumber, author, prior, last, turnDue, injections, turnCount, crossed>>
  BY DEF C!StartConversation, ProgressInv
<1>2. /\ busy' = TRUE /\ nextSpeaker' = Nobody /\ turns' = {[q |-> q, m |-> C!NotSent]}
      /\ index' \in DOMAIN Order /\ skipped' \in BOOLEAN
  BY <1>1, BeginTurnStep DEF C!StartConversation
<1>3. 0 \in C!Message /\ <<0>> \in Seq(C!Message)
  BY ConversationConstants DEF C!Message
<1>4. C!TypeOK'
  BY <1>1, <1>2, <1>3, TurnRecords DEF C!TypeOK
<1>5. C!Sent' = {0}
  BY <1>1 DEF C!Sent
<1>6. ProgressInv'
  BY <1>1, <1>2, <1>5, TurnRecords DEF ProgressInv, Signing
<1> QED BY <1>4, <1>6

LEMMA ContinueProgress ==
  ASSUME C!TypeOK, ProgressInv, NEW q \in Qube, C!ContinueConversation(q)
  PROVE  C!TypeOK' /\ ProgressInv'
<1>1. /\ phase = "open" /\ turns = {}
      /\ UNCHANGED <<mode, phase, turnNumber, author, heard, history, prior, last, turnDue,
                     injections, turnCount, crossed>>
  BY DEF C!ContinueConversation, C!Known, ProgressInv, C!talk
<1>2. /\ busy' = TRUE /\ nextSpeaker' = Nobody /\ turns' = {[q |-> q, m |-> C!NotSent]}
      /\ index' \in DOMAIN Order /\ skipped' \in BOOLEAN
  BY <1>1, BeginTurnStep DEF C!ContinueConversation
<1>3. C!TypeOK'
  BY <1>1, <1>2, TurnRecords DEF C!TypeOK
<1>4. C!Sent' = C!Sent
  BY <1>1 DEF C!Sent
<1>5. ProgressInv'
  BY <1>1, <1>2, <1>4, TurnRecords DEF ProgressInv, Signing
<1> QED BY <1>3, <1>5

\* A turn that ends without a response.
LEMMA EndProgress ==
  ASSUME C!TypeOK, ProgressInv, NEW t \in turns, C!Abort(t) \/ C!Fail(t)
  PROVE  C!TypeOK' /\ ProgressInv'
<1>1. /\ busy' = FALSE /\ turns' = turns \ {t} /\ skipped' = TRUE
      /\ UNCHANGED <<mode, phase, turnNumber, author, heard, history, prior, last, index,
                     nextSpeaker, turnDue, injections, turnCount, crossed>>
  BY DEF C!Abort, C!Fail, C!EndTurn, C!talk, C!choice
<1>2. turns' = {}
  BY <1>1 DEF ProgressInv
<1>3. C!TypeOK'
  BY <1>1, <1>2 DEF C!TypeOK
<1>4. C!Sent' = C!Sent
  BY <1>1 DEF C!Sent
<1>5. ProgressInv'
  BY <1>1, <1>2, <1>4 DEF ProgressInv, Signing
<1> QED BY <1>3, <1>5

LEMMA RespondProgress ==
  ASSUME C!TypeOK, ProgressInv, NEW t \in turns, C!Respond(t)
  PROVE  C!TypeOK' /\ ProgressInv' /\ turns' = {[t EXCEPT !.m = turnNumber + 1]}
<1> DEFINE n == turnNumber + 1
<1>1. /\ turnNumber' = n /\ turnNumber < MaxMessages
      /\ author' = [author EXCEPT ![n] = t.q]
      /\ heard' = [heard EXCEPT ![t.q] = @ \cup {n}]
      /\ turns' = (turns \ {t}) \cup {[t EXCEPT !.m = n]}
      /\ UNCHANGED <<mode, phase, prior, history, last, index, nextSpeaker, turnDue, turnCount,
                     busy, injections, crossed, skipped>>
  BY DEF C!Respond, C!choice
<1>2. turns' = {[t EXCEPT !.m = n]} /\ t \in C!Turn
  BY <1>1 DEF ProgressInv, C!TypeOK
<1>3. n \in C!Message /\ turnNumber \in Nat /\ n \in 1 .. n /\ n \in Nat
  <2>1. turnNumber \in 0 .. MaxMessages /\ MaxMessages \in Nat
    BY ConversationConstants DEF C!TypeOK, C!Message
  <2> QED BY <1>1, <2>1 DEF C!Message
<1>4. /\ t.q \in Qube /\ [t EXCEPT !.m = n] \in C!Turn
      /\ [t EXCEPT !.m = n].q = t.q /\ [t EXCEPT !.m = n].m = n
  BY <1>2, <1>3 DEF C!Turn
<1>5. /\ DOMAIN author = C!Message /\ author'[n] = t.q
      /\ \A m \in C!Message : m # n => author'[m] = author[m]
      /\ \A q \in Qube : heard'[q] = heard[q] \cup (IF q = t.q THEN {n} ELSE {})
  BY <1>1, <1>3, <1>4 DEF C!TypeOK
<1>6. C!TypeOK'
  <2>1. author' \in [C!Message -> Qube \cup {User, Nobody}]
    BY <1>1, <1>3, <1>4 DEF C!TypeOK
  <2>2. heard' \in [Qube -> SUBSET C!Message]
    BY <1>1, <1>3, <1>4 DEF C!TypeOK
  <2> QED BY <1>1, <1>2, <1>3, <1>4, <2>1, <2>2 DEF C!TypeOK
<1>7. C!Sent' = C!Sent
  BY <1>1 DEF C!Sent
<1>8. 1 .. n = 1 .. turnNumber \cup {n} /\ 0 .. turnNumber \subseteq 0 .. n /\ n \in 0 .. n
      /\ 1 .. turnNumber \subseteq C!Message /\ 0 \in C!Message /\ 0 # n /\ n \notin 1 .. turnNumber
  <2>1. turnNumber \in 0 .. MaxMessages /\ MaxMessages \in Nat
    BY ConversationConstants DEF C!TypeOK, C!Message
  <2> QED BY <1>3, <2>1 DEF C!Message
<1>9. ProgressInv'
  <2>1. /\ author'[0] = User
        /\ \A m \in 1 .. turnNumber' : author'[m] \in Qube \cup {User}
        /\ \A m \in injections' : author'[m] = User
        /\ \A u \in turns' : u.m \in 1 .. turnNumber' /\ author'[u.m] = u.q
    BY <1>1, <1>2, <1>4, <1>5, <1>8 DEF ProgressInv
  <2>2. \A q \in Qube : heard'[q] \subseteq 0 .. turnNumber'
    BY <1>1, <1>5, <1>8 DEF ProgressInv
  <2>3. C!Sent' \subseteq 0 .. turnNumber' /\ injections' \subseteq 1 .. turnNumber'
    BY <1>1, <1>7, <1>8 DEF ProgressInv
  <2>4. (busy' <=> turns' # {}) /\ \A u, v \in turns' : u = v
    BY <1>1, <1>2 DEF ProgressInv
  <2>5. phase' # "new"
    BY <1>1 DEF ProgressInv
  <2>6. \A q \in Qube : turnCount'[q] <= turnNumber' /\ turnCount'[q] < turnNumber'
    BY <1>1, <1>3 DEF ProgressInv, C!TypeOK
  <2> QED BY <2>1, <2>2, <2>3, <2>4, <2>5, <2>6 DEF ProgressInv
<1> QED BY <1>2, <1>6, <1>9

LEMMA DistributeProgress ==
  ASSUME C!TypeOK, ProgressInv, NEW t \in turns, C!Distribute(t)
  PROVE  C!TypeOK' /\ ProgressInv' /\ turns' = {} /\ C!Sent' = C!Sent \cup {t.m}
<1>1. /\ t.m # C!NotSent
      /\ heard' = [q \in Qube |-> IF q = t.q THEN heard[q] ELSE heard[q] \cup {t.m}]
      /\ history' = Append(history, t.m) /\ last' = t.q
      /\ turnCount' = [turnCount EXCEPT ![t.q] = @ + 1] /\ turnDue' = TRUE
      /\ busy' = FALSE /\ turns' = turns \ {t}
      /\ UNCHANGED <<mode, phase, turnNumber, author, prior, index, nextSpeaker, injections,
                     crossed, skipped>>
  BY DEF C!Distribute, C!EndTurn
<1>2. turns' = {} /\ t \in C!Turn
  BY <1>1 DEF ProgressInv, C!TypeOK
<1>3. /\ t.m \in 1 .. turnNumber /\ t.m \in C!Message /\ t.q \in Qube /\ t.m \in 0 .. turnNumber
      /\ turnNumber \in C!Message
  <2>1. turnNumber \in 0 .. MaxMessages /\ MaxMessages \in Nat
    BY ConversationConstants DEF C!TypeOK, C!Message
  <2>2. t.m \in 1 .. turnNumber
    BY <1>1 DEF ProgressInv
  <2> QED BY <1>2, <2>1, <2>2 DEF C!Turn, C!Message
<1>4. /\ turnCount[t.q] \in Nat /\ turnCount[t.q] + 1 <= turnNumber /\ turnNumber <= MaxMessages
      /\ turnCount[t.q] + 1 \in 0 .. MaxMessages
  <2>1. turnNumber \in 0 .. MaxMessages /\ MaxMessages \in Nat
    BY ConversationConstants DEF C!TypeOK, C!Message
  <2>2. turnCount[t.q] \in 0 .. MaxMessages
    BY <1>3 DEF C!TypeOK
  <2>3. turnCount[t.q] < turnNumber
    BY <1>1, <1>3 DEF ProgressInv, Signing
  <2> QED BY <2>1, <2>2, <2>3
<1>5. C!TypeOK'
  <2>1. turnCount' \in [Qube -> 0 .. MaxMessages]
    BY <1>1, <1>3, <1>4 DEF C!TypeOK
  <2>2. heard' \in [Qube -> SUBSET C!Message]
    BY <1>1, <1>3 DEF C!TypeOK
  <2>3. history' \in Seq(C!Message)
    BY <1>1, <1>3 DEF C!TypeOK
  <2> QED BY <1>1, <1>2, <1>3, <2>1, <2>2, <2>3 DEF C!TypeOK
<1>6. C!Sent' = C!Sent \cup {t.m}
  <2>1. history \in Seq(C!Message)
    BY DEF C!TypeOK
  <2> QED BY <1>1, <1>3, <2>1 DEF C!Sent
<1>7. ProgressInv'
  <2>1. \A q \in Qube : heard'[q] \subseteq 0 .. turnNumber
    BY <1>1, <1>3 DEF ProgressInv
  <2>2. C!Sent' \subseteq 0 .. turnNumber
    BY <1>3, <1>6 DEF ProgressInv
  <2>3. \A q \in Qube : turnCount'[q] <= turnNumber
    BY <1>1, <1>3, <1>4 DEF ProgressInv, C!TypeOK
  <2>4. phase # "new"
    BY <1>1 DEF ProgressInv
  <2> QED BY <1>1, <1>2, <2>1, <2>2, <2>3, <2>4 DEF ProgressInv, Signing
<1> QED BY <1>2, <1>5, <1>6, <1>7

\* What an interjection does to the history.
LEMMA InterjectionHistory ==
  ASSUME C!TypeOK, C!InjectUserMessage
  PROVE  /\ history' = Filtered(history, C!Prefetched) /\ history' \in Seq(C!Message)
         /\ C!Sent' = C!Sent \ C!Prefetched
<1>1. history' = C!WithoutPrefetch(C!Prefetched)
  BY DEF C!InjectUserMessage
<1>2. C!WithoutPrefetch(C!Prefetched) = Filtered(history, C!Prefetched)
  BY Zenon DEF C!WithoutPrefetch, Filtered
<1>3. history \in Seq(C!Message)
  BY DEF C!TypeOK
<1>4. /\ Filtered(history, C!Prefetched) \in Seq(C!Message)
      /\ {Filtered(history, C!Prefetched)[k] : k \in DOMAIN Filtered(history, C!Prefetched)}
           = {history[i] : i \in DOMAIN history} \ C!Prefetched
  BY <1>3, FilterKeeps
<1>5. C!Sent' = {history'[k] : k \in DOMAIN history'}
  BY DEF C!Sent
<1> QED BY <1>1, <1>2, <1>4, <1>5 DEF C!Sent

LEMMA InjectProgress ==
  ASSUME C!TypeOK, ProgressInv, C!InjectUserMessage
  PROVE  C!TypeOK' /\ ProgressInv'
<1> DEFINE n == turnNumber + 1
<1>1. /\ phase = "open" /\ turnNumber < MaxMessages /\ turnNumber' = n
      /\ author' = [author EXCEPT ![n] = User]
      /\ heard' = [q \in Qube |-> (heard[q] \ C!Prefetched)
                     \cup IF C!Prefetched = {} /\ q = Order[1] THEN {n} ELSE {}]
      /\ crossed' = crossed \cup {t.m : t \in {u \in turns : u.m # C!NotSent}}
      /\ nextSpeaker' = Nobody /\ turnDue' = FALSE
      /\ skipped' = (skipped \/ nextSpeaker # Nobody)
      /\ injections' = injections \cup {n}
      /\ UNCHANGED <<mode, phase, prior, last, index, busy, turns, turnCount>>
  BY DEF C!InjectUserMessage, C!Known
<1>2. /\ n \in C!Message /\ turnNumber \in Nat /\ n \in Nat /\ 0 \in C!Message
      /\ 1 .. n = 1 .. turnNumber \cup {n} /\ 0 .. turnNumber \subseteq 0 .. n /\ n \in 0 .. n
      /\ n \notin 0 .. turnNumber /\ 1 .. turnNumber \subseteq C!Message \cap 0 .. turnNumber
      /\ 0 \in 0 .. turnNumber
  <2>1. turnNumber \in 0 .. MaxMessages /\ MaxMessages \in Nat
    BY ConversationConstants DEF C!TypeOK, C!Message
  <2> QED BY <1>1, <2>1 DEF C!Message
<1>3. /\ author' \in [C!Message -> Qube \cup {User, Nobody}] /\ author'[n] = User
      /\ \A m \in C!Message : m # n => author'[m] = author[m]
  BY <1>1, <1>2 DEF C!TypeOK
<1>4. \A q \in Qube : heard'[q] \subseteq heard[q] \cup {n}
  BY <1>1
<1>5. crossed' \subseteq C!Message
  <2>1. \A t \in turns : t.m # C!NotSent => t.m \in C!Message
    BY <1>2 DEF ProgressInv
  <2> QED BY <1>1, <2>1 DEF C!TypeOK
<1>6. C!TypeOK'
  <2>1. heard' \in [Qube -> SUBSET C!Message]
    BY <1>1, <1>2, <1>4 DEF C!TypeOK
  <2> QED BY <1>1, <1>2, <1>3, <1>5, <2>1, InterjectionHistory DEF C!TypeOK
<1>7. ProgressInv'
  <2>1. /\ author'[0] = User
        /\ \A m \in 1 .. turnNumber' : author'[m] \in Qube \cup {User}
        /\ \A m \in injections' : author'[m] = User
    BY <1>1, <1>2, <1>3 DEF ProgressInv
  <2>2. \A t \in turns' : t.m # C!NotSent => t.m \in 1 .. turnNumber' /\ author'[t.m] = t.q
    BY <1>1, <1>2, <1>3 DEF ProgressInv
  <2>3. \A q \in Qube : heard'[q] \subseteq 0 .. turnNumber'
    BY <1>1, <1>2, <1>4 DEF ProgressInv
  <2>4. C!Sent' \subseteq 0 .. turnNumber' /\ injections' \subseteq 1 .. turnNumber'
    BY <1>1, <1>2, InterjectionHistory DEF ProgressInv
  <2>5. \A q \in Qube : /\ turnCount'[q] <= turnNumber'
                        /\ Signing(q)' => turnCount'[q] < turnNumber'
    <3>1. ASSUME NEW q \in Qube PROVE turnCount[q] <= turnNumber /\ turnCount[q] \in Nat
      BY DEF ProgressInv, C!TypeOK
    <3> QED BY <1>1, <1>2, <3>1
  <2>6. phase' # "new" /\ (busy' <=> turns' # {}) /\ \A t, u \in turns' : t = u
    BY <1>1 DEF ProgressInv
  <2> QED BY <2>1, <2>2, <2>3, <2>4, <2>5, <2>6 DEF ProgressInv
<1> QED BY <1>6, <1>7

LEMMA InjectedProgress ==
  ASSUME C!TypeOK, ProgressInv, NEW m \in injections, C!Injected(m)
  PROVE  C!TypeOK' /\ ProgressInv' /\ C!Sent' = C!Sent \cup {m}
<1>1. /\ injections' = injections \ {m}
      /\ heard' = [q \in Qube |-> heard[q] \cup {m}] /\ history' = Append(history, m)
      /\ UNCHANGED <<mode, phase, turnNumber, author, prior, last, turnDue, turnCount, crossed>>
  BY DEF C!Injected
<1>2. phase # "new" /\ m \in 1 .. turnNumber /\ m \in 0 .. turnNumber /\ m \in C!Message
  BY DEF ProgressInv, C!TypeOK
<1>3. /\ busy' \in BOOLEAN /\ nextSpeaker' \in Qube \cup {Nobody} /\ index' \in DOMAIN Order
      /\ skipped' \in BOOLEAN /\ turns' \subseteq C!Turn
      /\ (busy' <=> turns' # {}) /\ (\A t, u \in turns' : t = u)
      /\ \A t \in turns' : t \in turns \/ (t.q \in Qube /\ t.m = C!NotSent)
  <2>1. CASE busy /\ UNCHANGED <<busy, turns, nextSpeaker, index, skipped>>
    BY <2>1 DEF C!TypeOK, ProgressInv
  <2>2. CASE ~busy /\ \E q \in Qube : C!BeginTurn(q)
    <3>1. PICK q \in Qube : C!BeginTurn(q)
      BY <2>2
    <3>2. turns = {}
      BY <2>2 DEF ProgressInv
    <3>3. /\ busy' = TRUE /\ nextSpeaker' = Nobody /\ turns' = {[q |-> q, m |-> C!NotSent]}
          /\ index' \in DOMAIN Order /\ skipped' \in BOOLEAN
      BY <3>1, <3>2, BeginTurnStep
    <3> QED BY <3>3, TurnRecords
  <2> QED BY <2>1, <2>2 DEF C!Injected
<1>4. C!TypeOK'
  <2>1. heard' \in [Qube -> SUBSET C!Message] /\ history' \in Seq(C!Message)
    BY <1>1, <1>2 DEF C!TypeOK
  <2> QED BY <1>1, <1>3, <2>1 DEF C!TypeOK
<1>5. C!Sent' = C!Sent \cup {m}
  <2>1. history \in Seq(C!Message)
    BY DEF C!TypeOK
  <2> QED BY <1>1, <1>2, <2>1 DEF C!Sent
<1>6. ProgressInv'
  <2>1. \A q \in Qube : heard'[q] \subseteq 0 .. turnNumber'
    BY <1>1, <1>2 DEF ProgressInv
  <2>2. \A t \in turns' : t.m # C!NotSent => t.m \in 1 .. turnNumber' /\ author'[t.m] = t.q
    BY <1>1, <1>3 DEF ProgressInv
  <2>3. \A q \in Qube : /\ turnCount'[q] <= turnNumber'
                        /\ Signing(q)' => turnCount'[q] < turnNumber'
    BY <1>1, <1>3 DEF ProgressInv, Signing
  <2> QED BY <1>1, <1>2, <1>3, <1>5, <2>1, <2>2, <2>3 DEF ProgressInv
<1> QED BY <1>4, <1>5, <1>6

LEMMA PrepareProgress ==
  ASSUME C!TypeOK, ProgressInv, NEW q \in Qube, C!Prepare(q)
  PROVE  C!TypeOK' /\ ProgressInv'
<1>1. /\ turnDue' = FALSE /\ nextSpeaker' = q /\ skipped' = (skipped \/ nextSpeaker # Nobody)
      /\ index' \in DOMAIN Order
      /\ UNCHANGED <<mode, phase, turnNumber, author, heard, history, prior, last, busy, turns,
                     injections, turnCount, crossed>>
  BY DeterminedStep DEF C!Prepare, C!talk
<1> QED BY <1>1, ProgressKept DEF C!TypeOK

LEMMA EndConversationProgress ==
  ASSUME C!TypeOK, ProgressInv, C!Recover \/ C!EndConversation
  PROVE  C!TypeOK' /\ ProgressInv'
<1>1. CASE C!Recover
  BY <1>1, ProgressKept DEF C!Recover, C!talk, C!TypeOK
<1>2. CASE C!EndConversation
  BY <1>2, ProgressKept DEF C!EndConversation, C!choice, C!TypeOK
<1> QED BY <1>1, <1>2

LEMMA ProgressNext == C!TypeOK /\ ProgressInv /\ C!Next => C!TypeOK' /\ ProgressInv'
<1> SUFFICES ASSUME C!TypeOK, ProgressInv, C!Next PROVE C!TypeOK' /\ ProgressInv'
  OBVIOUS
<1>1. CASE C!InjectUserMessage \/ C!Recover \/ C!EndConversation
  BY <1>1, InjectProgress, EndConversationProgress
<1>2. ASSUME NEW q \in Qube, C!StartConversation(q) \/ C!ContinueConversation(q) \/ C!Prepare(q)
      PROVE  C!TypeOK' /\ ProgressInv'
  BY <1>2, StartProgress, ContinueProgress, PrepareProgress
<1>3. ASSUME NEW t \in turns, C!Respond(t) \/ C!Abort(t) \/ C!Fail(t) \/ C!Distribute(t)
      PROVE  C!TypeOK' /\ ProgressInv'
  BY <1>3, RespondProgress, EndProgress, DistributeProgress
<1>4. ASSUME NEW m \in injections, C!Injected(m)
      PROVE  C!TypeOK' /\ ProgressInv'
  BY <1>4, InjectedProgress
<1> QED BY <1>1, <1>2, <1>3, <1>4 DEF C!Next

-----------------------------------------------------------------------------
(* Conversation: who has heard what *)

OnTheWay == injections \cup {t.m : t \in turns}

\* A message that is neither on its way nor crossed is with all, or with nobody.
Settled(m) ==
  \/ m \in C!Sent /\ \A q \in Qube : m \in heard[q]
  \/ m \notin C!Sent /\ \A q \in Qube : m \notin heard[q]

LEMMA HeardBySettled ==
  C!HeardByAll <=> (phase = "open" => \A m \in (1 .. turnNumber) \ (OnTheWay \cup crossed) : Settled(m))
BY DEF C!HeardByAll, OnTheWay, Settled

LEMMA SmallNumbers ==
  ASSUME C!TypeOK
  PROVE  /\ turnNumber \in Nat /\ turnNumber <= MaxMessages /\ C!NotSent \notin 0 .. turnNumber
         /\ turnNumber + 1 \notin 0 .. turnNumber
         /\ 1 .. turnNumber + 1 = 1 .. turnNumber \cup {turnNumber + 1}
         /\ 0 \in C!Message /\ 0 .. turnNumber \subseteq C!Message
         /\ 1 .. turnNumber \subseteq 0 .. turnNumber
<1>1. turnNumber \in 0 .. MaxMessages /\ MaxMessages \in Nat
  BY ConversationConstants DEF C!TypeOK, C!Message
<1> QED BY <1>1 DEF C!NotSent, C!Message

LEMMA HeardNext ==
  ASSUME C!TypeOK, ProgressInv, HeardInv, C!Next
  PROVE  HeardInv'
<1> DEFINE HeardLater ==
             /\ \A m \in (1 .. turnNumber') \ (OnTheWay' \cup crossed') : Settled(m)'
             /\ \A q \in Qube : 0 \in heard'[q]
             /\ \A t \in turns' : t.m \notin crossed' \cup {C!NotSent} => t.m \in heard'[t.q]
<1> SUFFICES ASSUME phase' = "open" PROVE HeardLater
  <2>1. C!HeardByAll' <=> (phase' = "open" =>
          \A m \in (1 .. turnNumber') \ (OnTheWay' \cup crossed') : Settled(m)')
    BY DEF C!HeardByAll, OnTheWay, Settled
  <2> QED BY <2>1 DEF HeardInv, C!NotSent
<1>1. /\ phase = "open" =>
           /\ \A m \in (1 .. turnNumber) \ (OnTheWay \cup crossed) : Settled(m)
           /\ \A q \in Qube : 0 \in heard[q]
           /\ \A t \in turns : t.m \notin crossed \cup {C!NotSent} => t.m \in heard[t.q]
      /\ heard \in [Qube -> SUBSET C!Message]
  BY HeardBySettled DEF HeardInv, C!TypeOK
\* Steps that change neither sessions nor the history, and the turns at most by
\* one that has no response.
<1>2. ASSUME UNCHANGED <<turnNumber, heard, history, injections, crossed>>, phase = "open",
             turns' \subseteq turns,
             \A t \in turns \ turns' : t.m = C!NotSent
      PROVE  HeardLater
  <2>1. OnTheWay \subseteq OnTheWay' \cup {C!NotSent}
    BY <1>2 DEF OnTheWay
  <2>2. (1 .. turnNumber') \ (OnTheWay' \cup crossed') \subseteq (1 .. turnNumber) \ (OnTheWay \cup crossed)
    BY <1>2, <2>1, SmallNumbers
  <2>3. \A m : Settled(m)' = Settled(m)
    BY <1>2 DEF Settled, C!Sent
  <2> QED BY <1>1, <1>2, <2>2, <2>3
<1>3. ASSUME NEW q \in Qube, C!StartConversation(q)
      PROVE  HeardLater
  <2>1. turns = {} /\ turnNumber' = 0 /\ heard' = [p \in Qube |-> {0}]
    BY <1>3 DEF C!StartConversation, ProgressInv
  <2>2. turns' = {[q |-> q, m |-> C!NotSent]}
    BY <1>3, <2>1, BeginTurnStep DEF C!StartConversation
  <2> QED BY <2>1, <2>2
<1>4. ASSUME NEW q \in Qube, C!ContinueConversation(q)
      PROVE  HeardLater
  <2>1. /\ turns = {} /\ phase = "open"
        /\ UNCHANGED <<turnNumber, heard, history, injections, crossed>>
    BY <1>4 DEF C!ContinueConversation, ProgressInv, C!talk, C!Known
  <2>2. turns' = {[q |-> q, m |-> C!NotSent]}
    BY <1>4, <2>1, BeginTurnStep DEF C!ContinueConversation
  <2>3. OnTheWay \subseteq OnTheWay' /\ \A m : Settled(m)' = Settled(m)
    BY <2>1 DEF OnTheWay, Settled, C!Sent
  <2> QED BY <1>1, <2>1, <2>2, <2>3
<1>5. ASSUME NEW q \in Qube, C!Prepare(q)
      PROVE  HeardLater
  BY <1>2, <1>5 DEF C!Prepare, C!talk
<1>6. ASSUME NEW t \in turns, C!Abort(t) \/ C!Fail(t)
      PROVE  HeardLater
  BY <1>2, <1>6 DEF C!Abort, C!Fail, C!EndTurn, C!talk
<1>7. ASSUME NEW t \in turns, C!Respond(t)
      PROVE  HeardLater
  <2> DEFINE n == turnNumber + 1
  <2>1. /\ turnNumber' = n /\ heard' = [heard EXCEPT ![t.q] = @ \cup {n}] /\ t.m = C!NotSent
        /\ turns' = {[t EXCEPT !.m = n]}
        /\ UNCHANGED <<phase, history, injections, crossed>>
    BY <1>7, RespondProgress DEF C!Respond
  <2>2. t.q \in Qube /\ [t EXCEPT !.m = n].m = n /\ [t EXCEPT !.m = n].q = t.q
    BY DEF C!TypeOK, C!Turn
  <2>3. /\ \A p \in Qube : heard'[p] = heard[p] \cup (IF p = t.q THEN {n} ELSE {})
        /\ n \in heard'[t.q]
    BY <1>1, <2>1, <2>2
  <2>4. n \in OnTheWay' /\ OnTheWay \subseteq OnTheWay' \cup {C!NotSent}
    BY <2>1, <2>2 DEF OnTheWay, ProgressInv
  <2>5. ASSUME NEW m \in (1 .. turnNumber') \ (OnTheWay' \cup crossed') PROVE Settled(m)'
    <3>1. m \in (1 .. turnNumber) \ (OnTheWay \cup crossed) /\ m # n
      BY <2>1, <2>4, SmallNumbers
    <3>2. Settled(m)
      BY <1>1, <2>1, <3>1
    <3> QED BY <2>1, <2>3, <3>1, <3>2 DEF Settled, C!Sent
  <2> QED BY <1>1, <2>1, <2>2, <2>3, <2>5
<1>8. ASSUME NEW t \in turns, C!Distribute(t)
      PROVE  HeardLater
  <2>1. /\ heard' = [q \in Qube |-> IF q = t.q THEN heard[q] ELSE heard[q] \cup {t.m}]
        /\ t.m # C!NotSent /\ turns' = {} /\ C!Sent' = C!Sent \cup {t.m}
        /\ UNCHANGED <<phase, turnNumber, injections, crossed>>
    BY <1>8, DistributeProgress DEF C!Distribute
  <2>2. OnTheWay \subseteq OnTheWay' \cup {t.m}
    BY <2>1 DEF OnTheWay, ProgressInv
  <2>3. ASSUME NEW m \in (1 .. turnNumber') \ (OnTheWay' \cup crossed') PROVE Settled(m)'
    <3>1. CASE m = t.m
      BY <1>1, <2>1, <3>1 DEF Settled
    <3>2. CASE m # t.m
      <4>1. Settled(m)
        BY <1>1, <2>1, <2>2, <3>2
      <4> QED BY <2>1, <3>2, <4>1 DEF Settled
    <3> QED BY <3>1, <3>2
  <2> QED BY <1>1, <2>1, <2>3
<1>9. ASSUME C!InjectUserMessage
      PROVE  HeardLater
  <2> DEFINE n == turnNumber + 1
  <2>1. /\ turnNumber' = n /\ injections' = injections \cup {n}
        /\ heard' = [q \in Qube |-> (heard[q] \ C!Prefetched)
                       \cup IF C!Prefetched = {} /\ q = Order[1] THEN {n} ELSE {}]
        /\ crossed' = crossed \cup {t.m : t \in {u \in turns : u.m # C!NotSent}}
        /\ UNCHANGED <<phase, turns>>
    BY <1>9 DEF C!InjectUserMessage
  <2>2. C!Sent' = C!Sent \ C!Prefetched /\ 0 \notin C!Prefetched
    BY <1>9, InterjectionHistory DEF C!Prefetched, ProgressInv
  <2>3. ASSUME NEW m \in (1 .. turnNumber') \ (OnTheWay' \cup crossed') PROVE Settled(m)'
    <3>1. m \in (1 .. turnNumber) \ (OnTheWay \cup crossed) /\ m # n
      BY <2>1, SmallNumbers DEF OnTheWay
    <3>2. Settled(m)
      BY <1>1, <2>1, <3>1
    <3>3. \A q \in Qube : m \in heard'[q] <=> m \in heard[q] /\ m \notin C!Prefetched
      BY <2>1, <3>1
    <3> QED BY <2>2, <3>2, <3>3 DEF Settled
  <2>4. \A t \in turns' : t.m \in crossed' \cup {C!NotSent}
    BY <2>1
  <2> QED BY <1>1, <2>1, <2>2, <2>3, <2>4
<1>10. ASSUME NEW m \in injections, C!Injected(m)
       PROVE  HeardLater
  <2>1. /\ heard' = [q \in Qube |-> heard[q] \cup {m}] /\ injections' = injections \ {m}
        /\ C!Sent' = C!Sent \cup {m}
        /\ UNCHANGED <<phase, turnNumber, crossed>>
    BY <1>10, InjectedProgress DEF C!Injected
  <2>2. \/ turns' = turns
        \/ turns = {} /\ \A t \in turns' : t.m = C!NotSent
    <3>1. CASE turns' = turns
      BY <3>1
    <3>2. CASE ~busy /\ \E q \in Qube : C!BeginTurn(q)
      <4>1. PICK q \in Qube : C!BeginTurn(q)
        BY <3>2
      <4>2. turns = {}
        BY <3>2 DEF ProgressInv
      <4>3. turns' = {[q |-> q, m |-> C!NotSent]}
        BY <4>1, <4>2, BeginTurnStep
      <4> QED BY <4>2, <4>3
    <3> QED BY <1>10, <3>1, <3>2 DEF C!Injected
  <2>3. OnTheWay \subseteq OnTheWay' \cup {m}
    BY <2>1, <2>2 DEF OnTheWay
  <2>4. ASSUME NEW k \in (1 .. turnNumber') \ (OnTheWay' \cup crossed') PROVE Settled(k)'
    <3>1. CASE k = m
      BY <2>1, <3>1 DEF Settled
    <3>2. CASE k # m
      <4>1. Settled(k)
        BY <1>1, <2>1, <2>3, <3>2
      <4> QED BY <2>1, <3>2, <4>1 DEF Settled
    <3> QED BY <3>1, <3>2
  <2>5. \A t \in turns' : t.m \notin crossed' \cup {C!NotSent} => t.m \in heard'[t.q]
    <3>1. \A t \in turns : t.q \in Qube
      BY DEF C!TypeOK, C!Turn
    <3> QED BY <1>1, <2>1, <2>2, <3>1
  <2> QED BY <1>1, <2>1, <2>4, <2>5
<1>11. CASE C!Recover
  BY <1>2, <1>11 DEF C!Recover, C!talk
<1>12. CASE C!EndConversation
  BY <1>12 DEF C!EndConversation
<1> QED BY <1>3, <1>4, <1>5, <1>6, <1>7, <1>8, <1>9, <1>10, <1>11, <1>12 DEF C!Next

-----------------------------------------------------------------------------
(* Conversation: who speaks after whom *)

\* No Qube after itself in a sequence of messages.
NobodyTwice(s, a) ==
  \A i \in 2 .. Len(s) : a[s[i]] \in Qube => a[s[i]] # a[s[i - 1]]

AlternateParts ==
  /\ NobodyTwice(history, author)
  /\ \A t \in turns : t.q # last
  /\ history # <<>> => author[history[Len(history)]] \in {User, last}
  /\ phase = "open" => \A m \in C!Sent : author[m] \in Qube => \E q \in Qube : m \in heard[q]

LEMMA AlternateSplit ==
  AlternateInv <=> (mode = "open_discussion" /\ Cardinality(Qube) > 1 => AlternateParts)
BY SameCounting DEF AlternateInv, AlternateParts, NobodyTwice, C!NoBackToBack

LEMMA NobodyTwiceSame ==
  ASSUME NEW X, NEW s \in Seq(X), NEW a, NEW b, \A i \in 1 .. Len(s) : b[s[i]] = a[s[i]],
         NobodyTwice(s, a)
  PROVE  NobodyTwice(s, b)
<1>1. \A i \in 2 .. Len(s) : i \in 1 .. Len(s) /\ i - 1 \in 1 .. Len(s)
  OBVIOUS
<1> QED BY <1>1 DEF NobodyTwice

LEMMA NobodyTwiceAppend ==
  ASSUME NEW X, NEW s \in Seq(X), NEW m \in X, NEW a, NobodyTwice(s, a),
         s # <<>> /\ a[m] \in Qube => a[m] # a[s[Len(s)]]
  PROVE  /\ NobodyTwice(Append(s, m), a) /\ Append(s, m) # <<>>
         /\ Append(s, m)[Len(Append(s, m))] = m
<1> DEFINE t == Append(s, m)
<1>1. /\ Len(s) \in Nat /\ Len(t) = Len(s) + 1 /\ t[Len(s) + 1] = m
      /\ \A i \in 1 .. Len(s) : t[i] = s[i]
  OBVIOUS
<1> HIDE DEF t
<1>2. ASSUME NEW i \in 2 .. Len(t), a[t[i]] \in Qube PROVE a[t[i]] # a[t[i - 1]]
  <2>1. CASE i \in 2 .. Len(s)
    <3>1. i \in 1 .. Len(s) /\ i - 1 \in 1 .. Len(s)
      BY <1>1, <2>1
    <3>2. t[i] = s[i] /\ t[i - 1] = s[i - 1]
      BY <1>1, <3>1
    <3> QED BY <1>2, <2>1, <3>2 DEF NobodyTwice
  <2>2. CASE i \notin 2 .. Len(s)
    <3>1. i = Len(s) + 1 /\ i - 1 = Len(s) /\ Len(s) \in 1 .. Len(s)
      BY <1>1, <1>2, <2>2
    <3>2. t[i] = m /\ t[i - 1] = s[Len(s)] /\ s # <<>>
      BY <1>1, <3>1
    <3> QED BY <1>2, <3>2
  <2> QED BY <2>1, <2>2
<1>3. NobodyTwice(t, a)
  BY <1>2 DEF NobodyTwice
<1>4. Append(s, m) # <<>> /\ Append(s, m)[Len(Append(s, m))] = m
  BY <1>1 DEF t
<1> QED BY <1>3, <1>4 DEF t

\* Steps that leave the history and the authors of its messages alone.
LEMMA AlternateKept ==
  ASSUME C!TypeOK, AlternateParts,
         UNCHANGED <<history, last>>,
         \A m \in C!Sent : author'[m] = author[m],
         \A t \in turns' : t.q # last,
         phase' = "open" => phase = "open" /\ \A q \in Qube : heard[q] \subseteq heard'[q]
  PROVE  AlternateParts'
<1>1. history \in Seq(C!Message) /\ C!Sent' = C!Sent
  BY DEF C!TypeOK, C!Sent
<1>2. \A i \in 1 .. Len(history) : history[i] \in C!Sent
  BY <1>1 DEF C!Sent
<1>3. NobodyTwice(history, author')
  BY <1>1, <1>2, NobodyTwiceSame DEF AlternateParts
<1>4. history # <<>> => author'[history[Len(history)]] \in {User, last}
  BY <1>1, <1>2 DEF AlternateParts
<1>5. phase' = "open" => \A m \in C!Sent : author'[m] \in Qube => \E q \in Qube : m \in heard'[q]
  BY DEF AlternateParts
<1>6. NobodyTwice(history, author)'
  BY <1>3 DEF NobodyTwice
<1> QED BY <1>1, <1>4, <1>5, <1>6 DEF AlternateParts

LEMMA AlternateNext ==
  ASSUME C!TypeOK, ProgressInv, HeardInv, AlternateInv, C!Next
  PROVE  AlternateInv'
<1>1. mode' = mode
  BY DEF C!Next, C!InjectUserMessage, C!Recover, C!EndConversation, C!StartConversation,
         C!ContinueConversation, C!Prepare, C!Respond, C!Abort, C!Fail, C!Distribute, C!Injected
<1> SUFFICES ASSUME mode = "open_discussion", Cardinality(Qube) > 1, AlternateParts
             PROVE  AlternateParts'
  <2>1. AlternateInv' <=> (mode' = "open_discussion" /\ Cardinality(Qube) > 1 => AlternateParts')
    BY SameCounting DEF AlternateInv, AlternateParts, NobodyTwice, C!NoBackToBack
  <2> QED BY <1>1, <2>1, AlternateSplit
<1>2. /\ history \in Seq(C!Message) /\ \A i \in 1 .. Len(history) : history[i] \in C!Sent
      /\ C!Sent \subseteq 0 .. turnNumber /\ turnNumber + 1 \notin 0 .. turnNumber
      /\ DOMAIN author = C!Message /\ 0 .. turnNumber \subseteq C!Message
  <2>1. history \in Seq(C!Message)
    BY DEF C!TypeOK
  <2> QED BY <2>1, SmallNumbers DEF C!TypeOK, C!Sent, ProgressInv
<1>3. ASSUME NEW q \in Qube, C!StartConversation(q) PROVE AlternateParts'
  <2>1. /\ turns = {} /\ history' = <<0>> /\ last' = last /\ author' = author
    BY <1>3 DEF C!StartConversation, ProgressInv
  <2>2. turns' = {[q |-> q, m |-> C!NotSent]} /\ q # last
    BY <1>3, <2>1, BeginTurnStep DEF C!StartConversation
  <2>3. author[0] = User /\ User \notin Qube /\ C!Sent' = {0}
    BY <2>1, ConversationConstants DEF ProgressInv, C!Sent
  <2>4. NobodyTwice(history, author)'
    BY <2>1 DEF NobodyTwice
  <2> QED BY <2>1, <2>2, <2>3, <2>4 DEF AlternateParts
<1>4. ASSUME NEW q \in Qube, C!ContinueConversation(q) PROVE AlternateParts'
  <2>1. turns = {} /\ UNCHANGED <<phase, history, heard, author, last>>
    BY <1>4 DEF C!ContinueConversation, ProgressInv, C!talk
  <2>2. turns' = {[q |-> q, m |-> C!NotSent]} /\ q # last
    BY <1>4, <2>1, BeginTurnStep DEF C!ContinueConversation
  <2> QED BY <2>1, <2>2, AlternateKept
<1>5. CASE C!Recover \/ C!EndConversation \/ \E q \in Qube : C!Prepare(q)
  BY <1>5, AlternateKept DEF C!Recover, C!EndConversation, C!Prepare, C!talk, C!choice, AlternateParts
<1>6. ASSUME NEW t \in turns, C!Abort(t) \/ C!Fail(t) PROVE AlternateParts'
  BY <1>6, AlternateKept DEF C!Abort, C!Fail, C!EndTurn, C!talk, C!choice, AlternateParts
<1>7. ASSUME NEW t \in turns, C!Respond(t) PROVE AlternateParts'
  <2>1. /\ author' = [author EXCEPT ![turnNumber + 1] = t.q]
        /\ heard' = [heard EXCEPT ![t.q] = @ \cup {turnNumber'}]
        /\ turns' = {[t EXCEPT !.m = turnNumber + 1]}
        /\ UNCHANGED <<phase, history, last>>
    BY <1>7, RespondProgress DEF C!Respond, C!choice
  <2>2. \A q \in Qube : heard[q] \subseteq heard'[q]
    BY <2>1 DEF C!TypeOK
  <2>3. [t EXCEPT !.m = turnNumber + 1].q = t.q
    BY DEF C!TypeOK, C!Turn
  <2>4. t.q # last
    BY DEF AlternateParts
  <2>5. \A m \in C!Sent : author'[m] = author[m]
    BY <1>2, <2>1
  <2> QED BY <2>1, <2>2, <2>3, <2>4, <2>5, AlternateKept
<1>8. ASSUME NEW t \in turns, C!Distribute(t) PROVE AlternateParts'
  <2>1. /\ t.m # C!NotSent
        /\ heard' = [q \in Qube |-> IF q = t.q THEN heard[q] ELSE heard[q] \cup {t.m}]
        /\ history' = Append(history, t.m) /\ last' = t.q /\ turns' = {}
        /\ C!Sent' = C!Sent \cup {t.m} /\ UNCHANGED <<phase, author>>
    BY <1>8, DistributeProgress DEF C!Distribute
  <2>2. t.m \in C!Message /\ author[t.m] = t.q /\ t.q \in Qube /\ t.q # last
    BY <1>2, <2>1, SmallNumbers DEF ProgressInv, C!TypeOK, C!Turn, AlternateParts
  <2>3. history # <<>> => author[history[Len(history)]] # t.q
    BY <2>2, ConversationConstants DEF AlternateParts
  <2>4. NobodyTwice(history', author') /\ history'[Len(history')] = t.m
    BY <1>2, <2>1, <2>2, <2>3, NobodyTwiceAppend DEF AlternateParts
  <2>5. \E q \in Qube : q # t.q
    <3>1. Cardinality({t.q}) = 1
      BY FS_Singleton
    <3>2. Qube # {t.q}
      BY <3>1
    <3> QED BY <2>2, <3>2
  <2>6. phase' = "open" => \A m \in C!Sent' : author'[m] \in Qube => \E q \in Qube : m \in heard'[q]
    BY <2>1, <2>5 DEF AlternateParts
  <2>7. NobodyTwice(history, author)'
    BY <2>4 DEF NobodyTwice
  <2> QED BY <2>1, <2>2, <2>4, <2>6, <2>7 DEF AlternateParts
<1>9. ASSUME C!InjectUserMessage PROVE AlternateParts'
  <2>1. /\ phase = "open" /\ author' = [author EXCEPT ![turnNumber + 1] = User]
        /\ UNCHANGED <<last, turns>>
    BY <1>9 DEF C!InjectUserMessage, C!Known
  <2>2. /\ history' \in Seq(C!Message) /\ C!Sent' = C!Sent \ C!Prefetched
    BY <1>9, InterjectionHistory
  <2>3. ASSUME NEW m \in C!Sent' PROVE author'[m] = User
    <3>1. m \in C!Sent /\ m \notin C!Prefetched /\ m \in 0 .. turnNumber
      BY <1>2, <2>2
    <3>2. author'[m] = author[m]
      BY <1>2, <2>1, <3>1
    <3>3. author[m] \in Qube \cup {User}
      <4>1. m = 0 \/ m \in 1 .. turnNumber
        BY <3>1, SmallNumbers
      <4> QED BY <4>1 DEF ProgressInv
    <3>4. author[m] \notin Qube
      BY <2>1, <3>1, ConversationConstants DEF AlternateParts, C!Prefetched
    <3> QED BY <3>2, <3>3, <3>4
  <2>4. \A i \in 1 .. Len(history') : history'[i] \in C!Sent'
    BY <2>2 DEF C!Sent
  <2>5. \A i \in 1 .. Len(history') : author'[history'[i]] = User
    BY <2>3, <2>4
  <2>6. NobodyTwice(history, author)'
    <3>1. \A i \in 2 .. Len(history') : i \in 1 .. Len(history')
      BY <2>2
    <3> QED BY <2>5, <3>1, ConversationConstants DEF NobodyTwice
  <2>7. history' # <<>> => Len(history') \in 1 .. Len(history')
    BY <2>2
  <2> QED BY <2>1, <2>3, <2>5, <2>6, <2>7, ConversationConstants DEF AlternateParts
<1>10. ASSUME NEW m \in injections, C!Injected(m) PROVE AlternateParts'
  <2>1. /\ heard' = [q \in Qube |-> heard[q] \cup {m}] /\ history' = Append(history, m)
        /\ C!Sent' = C!Sent \cup {m} /\ UNCHANGED <<phase, author, last>>
    BY <1>10, InjectedProgress DEF C!Injected
  <2>2. m \in C!Message /\ author[m] = User /\ User \notin Qube
    BY ConversationConstants DEF ProgressInv, C!TypeOK
  <2>3. NobodyTwice(history', author') /\ history'[Len(history')] = m
    BY <1>2, <2>1, <2>2, NobodyTwiceAppend DEF AlternateParts
  <2>4. \A t \in turns' : t.q # last
    <3>1. CASE turns' = turns
      BY <3>1 DEF AlternateParts
    <3>2. CASE ~busy /\ \E q \in Qube : C!BeginTurn(q)
      <4>1. PICK q \in Qube : C!BeginTurn(q)
        BY <3>2
      <4>2. turns = {}
        BY <3>2 DEF ProgressInv
      <4>3. turns' = {[q |-> q, m |-> C!NotSent]} /\ q # last
        BY <4>1, <4>2, BeginTurnStep
      <4> QED BY <4>3
    <3> QED BY <1>10, <3>1, <3>2 DEF C!Injected
  <2>5. phase' = "open" => \A k \in C!Sent' : author'[k] \in Qube => \E q \in Qube : k \in heard'[q]
    BY <2>1, <2>2 DEF AlternateParts
  <2>6. NobodyTwice(history, author)'
    BY <2>3 DEF NobodyTwice
  <2> QED BY <2>1, <2>2, <2>3, <2>4, <2>5, <2>6 DEF AlternateParts
<1> QED BY <1>3, <1>4, <1>5, <1>6, <1>7, <1>8, <1>9, <1>10 DEF C!Next

-----------------------------------------------------------------------------
(* Conversation: who has been chosen how often *)

\* All are chosen k times, those before position j once more.
Evenly(c, j, k) == \A i \in DOMAIN Order : c[i] = k + (IF i < j THEN 1 ELSE 0)

\* If who is at position j is chosen, the position after it is next.
LEMMA EvenlyAdvances ==
  ASSUME NEW c, NEW d, NEW j \in DOMAIN Order, NEW k \in Nat, Evenly(c, j, k),
         \A i \in DOMAIN Order : d[i] = c[i] + (IF i = j THEN 1 ELSE 0)
  PROVE  \E l \in Nat : Evenly(d, Following(j), l)
<1>1. Len(Order) \in Nat \ {0} /\ DOMAIN Order = 1 .. Len(Order)
  BY ConversationConstants
<1>2. \A i \in DOMAIN Order : c[i] = k + (IF i < j THEN 1 ELSE 0)
  BY DEF Evenly
<1>3. CASE j = Len(Order)
  <2>1. Following(j) = 1
    BY <1>3 DEF Following
  <2>2. Evenly(d, 1, k + 1)
    BY <1>1, <1>2, <1>3 DEF Evenly
  <2> QED BY <2>1, <2>2
<1>4. CASE j # Len(Order)
  <2>1. Following(j) = j + 1
    BY <1>4 DEF Following
  <2>2. Evenly(d, j + 1, k)
    BY <1>1, <1>2 DEF Evenly
  <2> QED BY <2>1, <2>2
<1> QED BY <1>3, <1>4

\* How often who is at position i was chosen.
Choices == [i \in DOMAIN Order |-> Chosen(Order[i])]

EvenParts ==
  /\ nextSpeaker # Nobody => nextSpeaker = Order[Previous(index)]
  /\ \A t \in turns :
       t.q = Order[Previous(IF nextSpeaker = Nobody THEN index ELSE Previous(index))]
  /\ \E k \in Nat : Evenly(Choices, index, k)

LEMMA EvenSplit == EvenInv <=> (mode = "round_robin" /\ ~skipped => EvenParts)
BY DEF EvenInv, EvenParts, Evenly, Choices

\* Steps after which everybody was chosen as often as before.
LEMMA EvenKept ==
  ASSUME EvenParts, index' = index, nextSpeaker' = nextSpeaker,
         \A t \in turns' : \E u \in turns : t.q = u.q,
         \A q \in Qube : Chosen(q)' = Chosen(q)
  PROVE  EvenParts'
<1>1. \A i \in DOMAIN Order : Order[i] \in Qube
  BY ConversationConstants
<1>2. Choices' = Choices
  BY <1>1 DEF Choices
<1> QED BY <1>2 DEF EvenParts, Evenly

\* The beginning of a turn, when the speaker was not skipped.
LEMMA EvenBegins ==
  ASSUME C!TypeOK, EvenParts, turns = {}, mode = "round_robin", ~skipped',
         UNCHANGED turnCount, NEW q \in Qube, C!BeginTurn(q)
  PROVE  EvenParts'
<1>1. /\ nextSpeaker' = Nobody /\ turns' = {[q |-> q, m |-> C!NotSent]}
      /\ \/ nextSpeaker # Nobody /\ q = nextSpeaker /\ index' = index
         \/ nextSpeaker = Nobody /\ q = Order[index] /\ index' = Following(index)
  BY BeginTurnStep
<1>2. index \in DOMAIN Order /\ Previous(Following(index)) = index
  BY Positions DEF C!TypeOK
<1>3. /\ \A i, j \in DOMAIN Order : Order[i] = Order[j] => i = j
      /\ \A i \in DOMAIN Order : Order[i] \in Qube /\ Order[i] # Nobody
      /\ \A p \in Qube : turnCount[p] \in Nat
  BY Positioned DEF C!TypeOK
<1>4. q = Order[Previous(index')]
  BY <1>1, <1>2 DEF EvenParts
<1>5. \A p \in Qube : Chosen(p)' = turnCount[p] + (IF p = q THEN 1 ELSE 0)
  <2>1. \A p \in Qube : (\E t \in turns' : t.q = p) <=> p = q
    BY <1>1
  <2>2. \A p \in Qube : nextSpeaker' # p
    BY <1>1, ConversationConstants
  <2> QED BY <1>3, <2>1, <2>2 DEF Chosen
<1>6. \A p \in Qube : Chosen(p) = turnCount[p] + (IF nextSpeaker = p THEN 1 ELSE 0)
  BY <1>3 DEF Chosen
<1>7. PICK k \in Nat : Evenly(Choices, index, k)
  BY DEF EvenParts
<1>8. \E l \in Nat : Evenly(Choices, index, l)'
  <2>1. CASE nextSpeaker # Nobody /\ q = nextSpeaker /\ index' = index
    <3>1. \A p \in Qube : Chosen(p)' = Chosen(p)
      BY <1>5, <1>6, <2>1
    <3>2. Choices' = Choices
      BY <1>3, <3>1 DEF Choices
    <3> QED BY <1>7, <2>1, <3>2 DEF Evenly
  <2>2. CASE nextSpeaker = Nobody /\ q = Order[index] /\ index' = Following(index)
    <3>1. \A i \in DOMAIN Order : Choices'[i] = Choices[i] + (IF i = index THEN 1 ELSE 0)
      BY <1>2, <1>3, <1>5, <1>6, <2>2 DEF Choices
    <3>2. \E l \in Nat : Evenly(Choices', Following(index), l)
      BY <1>2, <1>7, <3>1, EvenlyAdvances
    <3> QED BY <2>2, <3>2 DEF Evenly
  <2> QED BY <1>1, <2>1, <2>2
<1> QED BY <1>1, <1>4, <1>8 DEF EvenParts

LEMMA EvenNext ==
  ASSUME C!TypeOK, ProgressInv, EvenInv, C!Next
  PROVE  EvenInv'
<1>1. mode' = mode
  BY DEF C!Next, C!InjectUserMessage, C!Recover, C!EndConversation, C!StartConversation,
         C!ContinueConversation, C!Prepare, C!Respond, C!Abort, C!Fail, C!Distribute, C!Injected
<1>2. skipped \in BOOLEAN /\ index \in DOMAIN Order
  BY DEF C!TypeOK
<1> SUFFICES ASSUME mode = "round_robin", ~skipped', ~skipped => EvenParts
             PROVE  EvenParts'
  <2>1. EvenInv' <=> (mode' = "round_robin" /\ ~skipped' => EvenParts')
    BY DEF EvenInv, EvenParts, Evenly, Choices
  <2> QED BY <1>1, <2>1, EvenSplit
<1>3. ASSUME NEW q \in Qube, C!StartConversation(q) \/ C!ContinueConversation(q)
      PROVE  EvenParts'
  <2>1. turns = {} /\ UNCHANGED turnCount /\ C!BeginTurn(q)
    BY <1>3 DEF C!StartConversation, C!ContinueConversation, ProgressInv
  <2>2. ~skipped
    BY <1>2, <2>1, BeginTurnStep
  <2> QED BY <2>1, <2>2, EvenBegins
<1>4. ASSUME NEW q \in Qube, C!Prepare(q) PROVE EvenParts'
  <2>1. /\ ~skipped /\ nextSpeaker = Nobody /\ nextSpeaker' = q
        /\ q = Order[index] /\ index' = Following(index)
        /\ UNCHANGED <<turns, turnCount>>
    BY <1>2, <1>4, DeterminedStep DEF C!Prepare
  <2>2. Previous(Following(index)) = index
    BY <1>2, Positions
  <2>3. /\ \A i, j \in DOMAIN Order : Order[i] = Order[j] => i = j
        /\ \A i \in DOMAIN Order : Order[i] \in Qube /\ Order[i] # Nobody
        /\ \A p \in Qube : turnCount[p] \in Nat
    BY Positioned DEF C!TypeOK
  <2>4. ASSUME NEW p \in Qube PROVE Chosen(p)' = Chosen(p) + (IF p = q THEN 1 ELSE 0)
    BY <2>1, <2>3, <2>4, ConversationConstants DEF Chosen
  <2>5. \A i \in DOMAIN Order : Choices'[i] = Choices[i] + (IF i = index THEN 1 ELSE 0)
    BY <1>2, <2>1, <2>3, <2>4 DEF Choices
  <2>6. PICK k \in Nat : Evenly(Choices, index, k)
    BY <2>1 DEF EvenParts
  <2>7. \E l \in Nat : Evenly(Choices', Following(index), l)
    BY <1>2, <2>5, <2>6, EvenlyAdvances
  <2>8. \E l \in Nat : Evenly(Choices, index, l)'
    BY <2>1, <2>7 DEF Evenly
  <2>9. nextSpeaker' # Nobody
    BY <2>1, ConversationConstants
  <2> QED BY <2>1, <2>2, <2>8, <2>9 DEF EvenParts
<1>5. ASSUME NEW t \in turns, C!Respond(t) PROVE EvenParts'
  <2>1. turns' = {[t EXCEPT !.m = turnNumber + 1]} /\ turns = {t}
    BY <1>5, RespondProgress DEF ProgressInv
  <2>2. [t EXCEPT !.m = turnNumber + 1].q = t.q
    BY DEF C!TypeOK, C!Turn
  <2>3. UNCHANGED <<index, nextSpeaker, turnCount, skipped>>
    BY <1>5 DEF C!Respond, C!choice
  <2>4. \A q \in Qube : Chosen(q)' = Chosen(q)
    BY <2>1, <2>2, <2>3 DEF Chosen
  <2> QED BY <2>1, <2>2, <2>3, <2>4, EvenKept
<1>6. ASSUME NEW t \in turns, C!Distribute(t) PROVE EvenParts'
  <2>1. /\ turns' = {} /\ turns = {t} /\ turnCount' = [turnCount EXCEPT ![t.q] = @ + 1]
        /\ UNCHANGED <<index, nextSpeaker, skipped>>
    BY <1>6, DistributeProgress DEF C!Distribute, ProgressInv
  <2>2. ASSUME NEW q \in Qube PROVE Chosen(q)' = Chosen(q)
    <3>1. turnCount[q] \in Nat /\ turnCount'[q] = turnCount[q] + (IF q = t.q THEN 1 ELSE 0)
      BY <2>1 DEF C!TypeOK
    <3>2. ~(\E u \in turns' : u.q = q) /\ ((\E u \in turns : u.q = q) <=> q = t.q)
      BY <2>1
    <3> QED BY <2>1, <3>1, <3>2 DEF Chosen
  <2> QED BY <2>1, <2>2, EvenKept
<1>7. CASE C!InjectUserMessage \/ C!Recover \/ C!EndConversation
  <2>1. nextSpeaker' = nextSpeaker /\ UNCHANGED <<index, turns, turnCount>> /\ ~skipped
    BY <1>2, <1>7 DEF C!InjectUserMessage, C!Recover, C!EndConversation, C!choice
  <2>2. \A q \in Qube : Chosen(q)' = Chosen(q)
    BY <2>1 DEF Chosen
  <2> QED BY <2>1, <2>2, EvenKept
<1>8. ASSUME NEW m \in injections, C!Injected(m) PROVE EvenParts'
  <2>1. UNCHANGED turnCount
    BY <1>8 DEF C!Injected
  <2>2. CASE busy /\ UNCHANGED <<busy, turns, nextSpeaker, index, skipped>>
    <3>1. \A q \in Qube : Chosen(q)' = Chosen(q)
      BY <2>1, <2>2 DEF Chosen
    <3> QED BY <2>2, <3>1, EvenKept
  <2>3. CASE ~busy /\ \E q \in Qube : C!BeginTurn(q)
    <3>1. PICK q \in Qube : C!BeginTurn(q)
      BY <2>3
    <3>2. turns = {}
      BY <2>3 DEF ProgressInv
    <3>3. ~skipped
      BY <1>2, <3>1, <3>2, BeginTurnStep
    <3> QED BY <2>1, <3>1, <3>2, <3>3, EvenBegins
  <2> QED BY <1>8, <2>2, <2>3 DEF C!Injected
<1>9. \A t \in turns : ~C!Abort(t) /\ ~C!Fail(t)
  BY DEF C!Abort, C!Fail
<1> QED BY <1>3, <1>4, <1>5, <1>6, <1>7, <1>8, <1>9 DEF C!Next

\* In numbers: p and q are at positions a and b, have spoken cp and cq times, and who
\* is prepared (np, nq) or speaks (tp, tq) is right before the index i.
LEMMA EvenNumbers ==
  ASSUME NEW n \in Nat \ {0}, NEW i \in 1 .. n, NEW a \in 1 .. n, NEW b \in 1 .. n,
         NEW k \in Nat, NEW cp \in Nat, NEW cq \in Nat,
         NEW np \in {0, 1}, NEW nq \in {0, 1}, NEW tp \in {0, 1}, NEW tq \in {0, 1},
         NEW u \in 1 .. n, NEW v \in 1 .. n,
         u = (IF i = 1 THEN n ELSE i - 1), v = (IF u = 1 THEN n ELSE u - 1),
         cp + np + tp = k + (IF a < i THEN 1 ELSE 0),
         cq + nq + tq = k + (IF b < i THEN 1 ELSE 0),
         \/ np = 0 /\ nq = 0 /\ (tq = 1 => b = u)
         \/ (np = 1 <=> a = u) /\ (nq = 1 <=> b = u) /\ (tq = 1 => b = v) /\ (a = b => cp = cq)
  PROVE  cp <= cq + 1
<1>1. CASE np = 0 /\ nq = 0 /\ (tq = 1 => b = u)
  BY <1>1
<1>2. CASE (np = 1 <=> a = u) /\ (nq = 1 <=> b = u) /\ (tq = 1 => b = v) /\ (a = b => cp = cq)
  <2>1. CASE a = b
    BY <1>2, <2>1
  <2>2. CASE a # b /\ i = 1
    BY <1>2, <2>2
  <2>3. CASE a # b /\ i # 1
    BY <1>2, <2>3
  <2> QED BY <2>1, <2>2, <2>3
<1> QED BY <1>1, <1>2

\* So nobody has spoken twice more than another.
LEMMA EvenIsEven == C!TypeOK /\ EvenInv => C!RoundRobinEven
<1> SUFFICES ASSUME C!TypeOK, EvenParts, NEW p \in Qube, NEW q \in Qube
             PROVE  turnCount[p] <= turnCount[q] + 1
  BY EvenSplit DEF C!RoundRobinEven
<1> DEFINE n == Len(Order)
           isNext(r) == IF nextSpeaker = r THEN 1 ELSE 0
           speaks(r) == IF \E t \in turns : t.q = r THEN 1 ELSE 0
<1>1. /\ n \in Nat \ {0} /\ DOMAIN Order = 1 .. n /\ index \in 1 .. n
      /\ \A i, j \in 1 .. n : Order[i] = Order[j] => i = j
      /\ \A i \in 1 .. n : Order[i] # Nobody
  BY ConversationConstants, Positioned DEF C!TypeOK
<1>2. PICK a \in 1 .. n, b \in 1 .. n : Order[a] = p /\ Order[b] = q
  BY <1>1, ConversationConstants
<1>3. PICK k \in Nat : Evenly(Choices, index, k)
  BY DEF EvenParts
<1>4. /\ Chosen(p) = k + (IF a < index THEN 1 ELSE 0)
      /\ Chosen(q) = k + (IF b < index THEN 1 ELSE 0)
  BY <1>1, <1>2, <1>3 DEF Evenly, Choices
<1>5. turnCount[p] \in Nat /\ turnCount[q] \in Nat
  BY DEF C!TypeOK
<1>6. /\ Chosen(p) = turnCount[p] + isNext(p) + speaks(p)
      /\ Chosen(q) = turnCount[q] + isNext(q) + speaks(q)
  BY DEF Chosen
<1> DEFINE u == Previous(index)
           v == Previous(u)
<1>7. /\ u \in 1 .. n /\ v \in 1 .. n
      /\ u = (IF index = 1 THEN n ELSE index - 1) /\ v = (IF u = 1 THEN n ELSE u - 1)
  BY <1>1, Positions DEF Previous
<1>8. \/ isNext(p) = 0 /\ isNext(q) = 0 /\ (speaks(q) = 1 => b = u)
      \/ /\ (isNext(p) = 1 <=> a = u) /\ (isNext(q) = 1 <=> b = u)
         /\ speaks(q) = 1 => b = v
         /\ a = b => turnCount[p] = turnCount[q]
  <2>1. CASE nextSpeaker = Nobody
    <3>1. isNext(p) = 0 /\ isNext(q) = 0
      BY <2>1, ConversationConstants
    <3>2. speaks(q) = 1 => q = Order[u]
      BY <2>1 DEF EvenParts
    <3> QED BY <1>1, <1>2, <1>7, <3>1, <3>2
  <2>2. CASE nextSpeaker # Nobody
    <3>1. nextSpeaker = Order[u]
      BY <2>2 DEF EvenParts
    <3>2. speaks(q) = 1 => q = Order[v]
      BY <2>2 DEF EvenParts
    <3> QED BY <1>1, <1>2, <1>7, <3>1, <3>2
  <2> QED BY <2>1, <2>2
<1>9. {isNext(p), isNext(q), speaks(p), speaks(q)} \subseteq {0, 1}
  OBVIOUS
<1> HIDE DEF n, u, v, isNext, speaks
<1> QED BY <1>1, <1>2, <1>4, <1>5, <1>6, <1>7, <1>8, <1>9, EvenNumbers

-----------------------------------------------------------------------------
(* Conversation: the inductive invariant holds *)

LEMMA ConversationInit == C!Init => ConversationInv
<1> SUFFICES ASSUME C!Init PROVE ConversationInv
  OBVIOUS
<1>1. C!TypeOK /\ ProgressInv
  BY ProgressInit
<1>2. /\ phase = "new" /\ history = <<>> /\ turns = {} /\ nextSpeaker = Nobody /\ index = 1
      /\ turnNumber = 0 /\ turnCount = [q \in Qube |-> 0]
  BY DEF C!Init
<1>3. HeardInv
  BY <1>2 DEF HeardInv, C!HeardByAll
<1>4. AlternateInv
  BY <1>2 DEF AlternateInv, C!NoBackToBack, C!Sent
<1>5. EvenInv
  <2>1. \A q \in Qube : Chosen(q) = 0
    BY <1>2, ConversationConstants DEF Chosen
  <2>2. \A i \in DOMAIN Order : ~(i < 1) /\ Order[i] \in Qube
    BY ConversationConstants, Positioned
  <2> QED BY <1>2, <2>1, <2>2 DEF EvenInv
<1> QED BY <1>1, <1>3, <1>4, <1>5 DEF ConversationInv

LEMMA ConversationNext == ConversationInv /\ C!Next => ConversationInv'
BY ProgressNext, HeardNext, AlternateNext, EvenNext DEF ConversationInv

LEMMA ConversationStutters == ConversationInv /\ UNCHANGED conversationVars => ConversationInv'
<1> SUFFICES ASSUME ConversationInv, UNCHANGED conversationVars PROVE ConversationInv'
  OBVIOUS
<1>1. UNCHANGED <<mode, phase, turnNumber, author, prior, heard, history, last, index,
                  nextSpeaker, turnDue, busy, turns, injections, turnCount, crossed, skipped>>
  BY DEF conversationVars
<1>2. C!TypeOK'
  BY <1>1 DEF ConversationInv, C!TypeOK
<1>3. ProgressInv'
  BY <1>1 DEF ConversationInv, ProgressInv, Signing, C!Sent
<1>4. HeardInv'
  BY <1>1 DEF ConversationInv, HeardInv, C!HeardByAll, C!Sent
<1>5. AlternateInv'
  BY <1>1 DEF ConversationInv, AlternateInv, C!NoBackToBack, C!Sent
<1>6. EvenInv'
  <2>1. \A q : Chosen(q)' = Chosen(q)
    BY <1>1 DEF Chosen
  <2> QED BY <1>1, <2>1 DEF ConversationInv, EvenInv
<1> QED BY <1>2, <1>3, <1>4, <1>5, <1>6 DEF ConversationInv

\* A response is not given up as long as all sessions agree.
LEMMA AbortsOnlyForInterjection ==
  ASSUME ConversationInv, NEW t \in turns, C!Abort(t)
  PROVE  \/ injections # {} \/ crossed # {} \/ phase = "ended"
         \/ \E p \in Qube : prior[p] > prior[t.q]
<1> SUFFICES ASSUME injections = {}, crossed = {}, phase # "ended",
                    \A p \in Qube : ~(prior[p] > prior[t.q])
             PROVE  FALSE
  OBVIOUS
<1>1. C!TypeOK /\ ProgressInv /\ HeardInv
  BY DEF ConversationInv
<1>2. phase = "open" /\ t.m = C!NotSent /\ turns = {t} /\ t.q \in Qube
  BY <1>1 DEF C!Abort, C!TypeOK, C!Turn, ProgressInv
<1>3. OnTheWay = {C!NotSent} /\ C!NotSent \notin 0 .. turnNumber /\ turnNumber \in Nat
  BY <1>1, <1>2, SmallNumbers DEF OnTheWay
<1>4. \A m \in 0 .. turnNumber, p \in Qube : m \in heard[p] <=> m \in heard[t.q]
  <2>1. \A m \in 1 .. turnNumber : Settled(m)
    BY <1>1, <1>2, <1>3, HeardBySettled DEF HeardInv
  <2>2. \A p \in Qube : 0 \in heard[p]
    BY <1>1, <1>2 DEF HeardInv
  <2>3. \A m \in 0 .. turnNumber : m = 0 \/ m \in 1 .. turnNumber
    BY <1>3
  <2> QED BY <1>2, <2>1, <2>2, <2>3 DEF Settled
<1>5. \A p \in Qube : heard[p] \subseteq 0 .. turnNumber
  BY <1>1 DEF ProgressInv
<1>6. \A p \in Qube : heard[p] = heard[t.q]
  BY <1>2, <1>4, <1>5
<1>7. PICK p \in Qube : \E m \in heard[p] :
        prior[t.q] + C!Cardinality(heard[t.q]) + 1
          = prior[p] + C!Cardinality({k \in heard[p] : k <= m})
  BY DEF C!Abort, C!Taken, C!UserAt
<1>8. PICK m \in heard[p] :
        prior[t.q] + C!Cardinality(heard[t.q]) + 1
          = prior[p] + C!Cardinality({k \in heard[p] : k <= m})
  BY <1>7
<1> DEFINE H == heard[t.q]
           L == {k \in heard[p] : k <= m}
<1>9. IsFiniteSet(H) /\ L \subseteq H
  <2>1. 0 \in Int /\ turnNumber \in Int
    BY <1>3
  <2>2. IsFiniteSet(0 .. turnNumber)
    BY <2>1, FS_Interval
  <2> QED BY <1>2, <1>5, <1>6, <2>2, FS_Subset
<1>10. /\ Cardinality(L) \in Nat /\ Cardinality(H) \in Nat /\ Cardinality(L) <= Cardinality(H)
  BY <1>9, FS_Subset, FS_CardinalityType
<1>11. prior[t.q] \in Nat /\ prior[p] \in Nat /\ ~(prior[p] > prior[t.q])
  BY <1>1, <1>2 DEF C!TypeOK
<1>12. prior[t.q] + Cardinality(H) + 1 = prior[p] + Cardinality(L)
  BY <1>8, SameCounting
<1> QED BY <1>10, <1>11, <1>12

ConversationRuns == component = "Conversation" => ConversationInv

LEMMA ConversationRunsInit == Init => ConversationRuns
BY ConversationInit DEF Init, ConversationRuns

LEMMA ConversationRunsNext == ConversationRuns /\ [Next]_vars => ConversationRuns'
<1> SUFFICES ASSUME ConversationRuns, [Next]_vars PROVE ConversationRuns'
  OBVIOUS
<1>1. component' = component
  BY DEF Next, vars
<1>2. component = "Conversation" => C!Next \/ UNCHANGED conversationVars
  BY DEF Next, vars
<1> QED BY <1>1, <1>2, ConversationNext, ConversationStutters DEF ConversationRuns

\* A response that has arrived is given up only if an interjection awaits its signatures,
\* the conversation is over, a response was removed while it was signed, or another
\* participant had more blocks in its session from the start: for any number of Qubes
\* and messages the sessions agree otherwise, and the number of the next block is free.
THEOREM AbortsAreForInterjections == Spec => AbortedForInterjection
<1>1. ConversationRuns /\ [Next]_vars =>
        [component = "Conversation" => C!AbortedForInterjectionStep]_vars
  BY AbortsOnlyForInterjection DEF ConversationRuns, C!AbortedForInterjectionStep
<1> QED BY <1>1, ConversationRunsInit, ConversationRunsNext, PTL DEF Spec, AbortedForInterjection

-----------------------------------------------------------------------------
(* P2PConversation: the inductive invariant *)

Entries(c) == {c.history[i] : i \in DOMAIN c.history}

\* How many messages were made: these are their numbers.
Count == Cardinality(P!Made)

\* Messages are numbered as they are made; and what those are that are marked or on
\* their way.
MadeInv ==
  /\ P!Made = 1 .. Count /\ \A m \in P!Message : number[m] <= Count
  /\ marked \subseteq P!Made /\ hub \subseteq P!Made
  /\ \A q \in Resident : delivered[q] \subseteq P!Made
  /\ \A m \in marked : writer[m] \in Resident /\ m \in {speaking.m} \cup cut
  /\ speaking.stage \in {"none", "asking"} => speaking.m = 0
  /\ speaking.stage \in {"signing", "posting"} =>
       speaking.m \in P!Made /\ writer[speaking.m] = speaking.q
  /\ \A i \in posted : i.m \in P!Made /\ writer[i.m] = User
  /\ ~memory => speaking = P!NoTurn /\ posted = {} /\ conv = P!Blank

\* What is signed is in the session of its speaker, and what is sent to the hub in all,
\* unless it was removed.
SharedInv ==
  /\ speaking.stage = "signing" /\ speaking.m \notin removed => speaking.m \in delivered[speaking.q]
  /\ speaking.stage = "posting" /\ speaking.m \notin removed => P!InAll(speaking.m)
  /\ \A i \in posted : i.stage = "posting" => P!InAll(i.m)

\* Messages that are distributed are in all sessions or in none, those of the hub in all.
SettledInv ==
  /\ \A m \in P!Made \ P!Pending : P!InAll(m) \/ \A q \in Resident : m \notin delivered[q]
  /\ \A m \in hub \ P!Pending : P!InAll(m)

\* The history of c is that of the sessions.
Agrees(c) ==
  /\ \A m \in Entries(c) \ P!Pending : P!InAll(m)
  /\ \A m \in delivered[First] \ P!Pending : writer[m] # Remote => m \in Entries(c)

\* Of two successive messages of a Qube the session of the first Qube gets one at most: they
\* are never both in a history that is rebuilt.
RepeatInv ==
  Cardinality(Resident) > 1 =>
    /\ \A m \in P!Made :
         /\ m + 1 \in P!Made /\ writer[m] \in Resident /\ writer[m + 1] = writer[m]
         /\ m \in delivered[First]
         => m + 1 \notin delivered[First] \cup {speaking.m}
    /\ speaking.m # 0 => \A k \in P!Made : k > speaking.m => writer[k] \notin Resident
    /\ speaking.stage = "asking" /\ Count \in P!Made /\ writer[Count] = speaking.q =>
         Count \notin delivered[First]

\* A message was made between a and b.
MadeBetween(a, b) == \E m \in P!Made : a < m /\ m < b

\* Who is the last one in the history is not the next speaker, unless a message that was
\* made in between is not there, nor is who has made the last message in the session of the
\* first; and a marked message in the history, which a restart has left, is in its place.
OthersSpeak(c) ==
  LET h == c.history
      final == h[Len(h)]
  IN  Cardinality(Resident) > 1 =>
        /\ \A i \in 2 .. Len(h) :
             writer[h[i]] \in Resident /\ writer[h[i]] = writer[h[i - 1]] =>
               MadeBetween(h[i - 1], h[i])
        /\ h # <<>> /\ writer[final] \in Resident /\ writer[final] # c.last =>
             MadeBetween(final, Count + 1)
        /\ h # <<>> /\ speaking # P!NoTurn /\ writer[final] = speaking.q =>
             MadeBetween(final, IF speaking.m = 0 THEN Count + 1 ELSE speaking.m)
        /\ Count \in delivered[First] \ {speaking.m} /\ writer[Count] \in Resident =>
             c.last = writer[Count]
        /\ speaking.m \notin Entries(c)
        /\ \A j, k \in DOMAIN h : j < k /\ {h[j], h[k]} \cap marked # {} => h[j] < h[k]
        /\ \A m \in Entries(c) \cap marked : posted = {} /\ (speaking.m # 0 => m < speaking.m)

\* What holds of the conversation in memory, and of the one that is rebuilt.
Sound(c) ==
  /\ c \in P!Conv /\ c.turn <= Count /\ Entries(c) \subseteq P!Made
  /\ Agrees(c)
  /\ OthersSpeak(c)

P2PInv ==
  /\ P!TypeOK
  /\ MadeInv
  /\ SharedInv
  /\ SettledInv
  /\ RepeatInv
  /\ memory => Sound(conv)

LEMMA P2PConstants ==
  /\ IsFiniteSet(Resident) /\ First \in Resident /\ MaxNumber \in Nat /\ MaxCrashes \in Nat
  /\ User \notin Resident /\ Remote \notin Resident /\ Nobody \notin Resident
  /\ User # Remote /\ User # Nobody /\ Remote # Nobody
<1>1. P!P2PAssumption
  BY ActivitiesAssumption
<1>2. /\ IsFiniteSet(Resident) /\ First \in Resident /\ {User, Remote, Nobody} \cap Resident = {}
      /\ Cardinality({User, Remote, Nobody}) = 3 /\ MaxNumber \in Nat /\ MaxCrashes \in Nat
  BY <1>1, SameCounting DEF P!P2PAssumption
<1>3. \A a, b : IsFiniteSet({a, b}) /\ Cardinality({a, b}) # 3
  <2> TAKE a, b
  <2>1. IsFiniteSet({a}) /\ Cardinality({a}) = 1 /\ {a} \cup {b} = {a, b}
    BY FS_Singleton
  <2> QED BY <2>1, FS_AddElement
<1>4. ASSUME User = Remote \/ User = Nobody \/ Remote = Nobody PROVE FALSE
  <2>1. {User, Remote, Nobody} = {User, Nobody} \/ {User, Remote, Nobody} = {User, Remote}
    BY <1>4
  <2>2. Cardinality({User, Nobody}) # 3 /\ Cardinality({User, Remote}) # 3
    BY <1>3
  <2> QED BY <1>2, <2>1, <2>2
<1> QED BY <1>2, <1>4

\* Bounded numbers have a greatest.
LEMMA GreatestIs ==
  ASSUME NEW N \in SUBSET Nat, N # {}, NEW K \in Nat, \A n \in N : n <= K
  PROVE  P!Max(N) \in N /\ \A n \in N : n <= P!Max(N)
<1> DEFINE D == {K - n : n \in N}
<1>1. D \in SUBSET Nat /\ D # {}
  OBVIOUS
<1> HIDE DEF D
<1>2. PICK d \in D : \A e \in D : d <= e
  BY <1>1, LeastExists
<1>3. PICK m \in N : d = K - m
  BY DEF D
<1>4. ASSUME NEW n \in N PROVE m >= n
  <2>1. K - n \in D
    BY DEF D
  <2>2. K - m <= K - n
    BY <1>2, <1>3, <2>1
  <2>3. m \in Nat /\ n \in Nat
    OBVIOUS
  <2> QED BY <2>2, <2>3
<1>5. P!Max(N) \in N /\ \A n \in N : P!Max(N) >= n
  BY <1>4, Zenon DEF P!Max
<1>6. P!Max(N) \in Nat
  BY <1>5
<1> QED BY <1>5, <1>6

\* A set of messages in the order of their numbers.
LEMMA InOrderIs ==
  ASSUME NEW ms \in SUBSET P!Message
  PROVE  /\ P!InOrder(ms) \in Seq(P!Message)
         /\ {P!InOrder(ms)[i] : i \in DOMAIN P!InOrder(ms)} = ms
         /\ \A i, j \in DOMAIN P!InOrder(ms) : i < j => P!InOrder(ms)[i] < P!InOrder(ms)[j]
<1> DEFINE s == [m \in P!Message |-> m]
           rest == P!Message \ ms
           f == Filtered(s, rest)
<1>1. P!InOrder(ms) = f
  BY Zenon DEF P!InOrder, P!Without, Filtered
<1>2. s \in Seq(P!Message) /\ Len(s) = MaxNumber /\ DOMAIN s = P!Message
  BY P2PConstants DEF P!Message
<1>3. /\ f \in Seq(P!Message)
      /\ {f[k] : k \in DOMAIN f} = {s[i] : i \in DOMAIN s} \ rest
  <2>1. s \in Seq(P!Message)
    BY <1>2
  <2> HIDE DEF s, rest
  <2> QED BY <2>1, FilterKeeps
<1>4. {s[i] : i \in DOMAIN s} = P!Message
  BY <1>2
<1>5. PICK e : Embeds(s, rest, Len(s), f, e)
  <2> HIDE DEF s, rest
  <2> QED BY <1>2, FilterEmbeds
<1>6. DOMAIN f = 1 .. Len(f)
  <2> HIDE DEF f
  <2> QED BY <1>3
<1>7. \A i \in DOMAIN f : f[i] = e[i]
  <2>1. \A i \in DOMAIN f : f[i] = s[e[i]] /\ e[i] \in P!Message
    <3> HIDE DEF f, s
    <3>1. e \in [1 .. Len(f) -> 1 .. Len(s)] /\ \A i \in 1 .. Len(f) : f[i] = s[e[i]]
      BY <1>5 DEF Embeds
    <3> QED BY <1>2, <1>6, <3>1 DEF P!Message
  <2> HIDE DEF f
  <2> QED BY <2>1
<1>8. \A i, j \in DOMAIN f : i < j => f[i] < f[j]
  <2> HIDE DEF f, s
  <2> QED BY <1>5, <1>6, <1>7 DEF Embeds
<1> HIDE DEF f, s
<1>9. {f[i] : i \in DOMAIN f} = ms
  BY <1>3, <1>4
<1> QED BY <1>1, <1>3, <1>8, <1>9

LEMMA P2PTypes ==
  ASSUME P!TypeOK, MadeInv
  PROVE  /\ Count \in Nat /\ Count <= MaxNumber /\ P!Made = 1 .. Count
         /\ P!Made \subseteq P!Message /\ P!Message \subseteq Nat \ {0}
         /\ \A m \in P!Message : writer[m] # Nobody <=> m \in P!Made
<1>1. P!Message = 1 .. MaxNumber /\ MaxNumber \in Nat
  BY P2PConstants DEF P!Message
<1>2. P!Made \subseteq P!Message /\ \A m \in P!Message : writer[m] # Nobody <=> m \in P!Made
  BY DEF P!Made
<1>3. IsFiniteSet(P!Message) /\ Cardinality(P!Message) = MaxNumber
  <2>1. 1 \in Int /\ MaxNumber \in Int
    BY <1>1
  <2> QED BY <1>1, <2>1, FS_Interval
<1>4. Count \in Nat /\ Count <= MaxNumber
  BY <1>2, <1>3, FS_Subset, FS_CardinalityType DEF Count
<1> QED BY <1>1, <1>2, <1>4 DEF MadeInv

\* A message is made: it has the next number.
LEMMA MakesStep ==
  ASSUME P!TypeOK, MadeInv, NEW m, NEW a \in Resident \cup {User, Remote},
         NEW n \in Nat, n <= Count + 1, P!Makes(m, a, n)
  PROVE  /\ Count < MaxNumber /\ m = Count + 1 /\ m \in P!Message /\ m \notin P!Made
         /\ P!Made' = P!Made \cup {m} /\ Count' = m /\ P!Made' = 1 .. Count'
         /\ writer' \in [P!Message -> Resident \cup {User, Remote, Nobody}]
         /\ writer'[m] = a /\ \A k \in P!Message : k # m => writer'[k] = writer[k]
         /\ number' \in [P!Message -> 0 .. MaxNumber] /\ \A k \in P!Message : number'[k] <= Count'
         /\ n \in 0 .. MaxNumber
<1>1. /\ Count \in Nat /\ Count <= MaxNumber /\ P!Made = 1 .. Count /\ P!Message = 1 .. MaxNumber
      /\ MaxNumber \in Nat
  BY P2PTypes, P2PConstants DEF P!Message
<1>2. /\ P!Made # P!Message /\ m = Count + 1
      /\ writer' = [writer EXCEPT ![m] = a] /\ number' = [number EXCEPT ![m] = n]
  BY SameCounting DEF P!Makes, Count
<1>3. Count < MaxNumber /\ m \in P!Message /\ m \notin P!Made /\ n \in 0 .. MaxNumber
  BY <1>1, <1>2
<1>4. /\ writer' \in [P!Message -> Resident \cup {User, Remote, Nobody}]
      /\ writer'[m] = a /\ \A k \in P!Message : k # m => writer'[k] = writer[k]
  BY <1>2, <1>3 DEF P!TypeOK
<1>5. P!Made' = P!Made \cup {m}
  BY <1>3, <1>4, P2PConstants DEF P!Made
<1>6. P!Made' = 1 .. Count + 1
  BY <1>1, <1>2, <1>5
<1>7. Count' = m
  <2>1. 1 \in Int /\ m \in Int /\ ~(1 > m) /\ m - 1 + 1 = m
    BY <1>1, <1>2
  <2>2. Cardinality(1 .. m) = m
    BY <2>1, FS_Interval
  <2> QED BY <1>2, <1>6, <2>2 DEF Count
<1>8. number' \in [P!Message -> 0 .. MaxNumber] /\ \A k \in P!Message : number'[k] <= m
  <2>1. \A k \in P!Message : number[k] <= Count /\ number[k] \in Nat
    BY DEF MadeInv, P!TypeOK
  <2> QED BY <1>1, <1>2, <1>3, <2>1 DEF P!TypeOK
<1> QED BY <1>2, <1>3, <1>4, <1>5, <1>6, <1>7, <1>8

-----------------------------------------------------------------------------
(* P2PConversation: the conversation that is rebuilt *)

LEMMA RebuiltSound ==
  ASSUME P2PInv, ~memory
  PROVE  Sound(P!Rebuilt)
<1> DEFINE mine == {m \in delivered[First] : writer[m] # Remote}
           turns0 == {number[m] : m \in mine} \cup {0}
           h == P!InOrder(mine)
           c == P!Rebuilt
<1>1. P!TypeOK /\ MadeInv /\ SettledInv /\ RepeatInv
  BY DEF P2PInv
<1>2. /\ Count \in Nat /\ Count <= MaxNumber /\ P!Made = 1 .. Count /\ P!Made \subseteq P!Message
      /\ P!Message \subseteq Nat \ {0} /\ MaxNumber \in Nat
      /\ \A m \in P!Message : number[m] <= Count /\ number[m] \in Nat
  BY <1>1, P2PTypes, P2PConstants DEF MadeInv, P!TypeOK
<1>3. mine \subseteq P!Made /\ mine \subseteq P!Message
  BY <1>1, <1>2, P2PConstants DEF MadeInv
<1>4. speaking = P!NoTurn /\ posted = {} /\ speaking.m = 0
  BY <1>1 DEF MadeInv, P!NoTurn
<1>5. P!Max(turns0) \in Nat /\ P!Max(turns0) <= Count
  <2>1. turns0 \in SUBSET Nat /\ turns0 # {} /\ \A n \in turns0 : n <= Count
    BY <1>2, <1>3
  <2> HIDE DEF turns0
  <2>2. P!Max(turns0) \in turns0
    BY <1>2, <2>1, GreatestIs
  <2> QED BY <2>1, <2>2
<1>6. /\ h \in Seq(P!Message) /\ {h[i] : i \in DOMAIN h} = mine
      /\ \A i, j \in DOMAIN h : i < j => h[i] < h[j]
  BY <1>3, InOrderIs
<1>7. /\ c.turn = P!Max(turns0) /\ c.history = h /\ c.scope = "all"
      /\ c.last = IF mine = {} THEN Nobody ELSE writer[P!Max(mine)]
      /\ c = [turn |-> c.turn, history |-> c.history, last |-> c.last, scope |-> c.scope]
  BY Zenon DEF P!Rebuilt
<1> HIDE DEF c, h, turns0
<1>8. Len(h) \in Nat /\ DOMAIN h = 1 .. Len(h) /\ (h # <<>> => Len(h) \in 1 .. Len(h))
  BY <1>6
<1>9. mine # {} => P!Max(mine) \in mine /\ \A m \in mine : m <= P!Max(mine)
  <2>1. mine \in SUBSET Nat /\ \A m \in mine : m <= Count
    BY <1>2, <1>3
  <2> HIDE DEF mine
  <2> QED BY <1>2, <2>1, GreatestIs
<1>10. Entries(c) = mine
  BY <1>6, <1>7 DEF Entries
<1>11. c \in P!Conv
  <2>1. c.turn \in 0 .. MaxNumber
    BY <1>2, <1>5, <1>7
  <2>2. c.last \in Resident \cup {User, Remote, Nobody}
    <3>1. \A m \in mine : writer[m] \in Resident \cup {User, Remote, Nobody}
      BY <1>1, <1>3 DEF P!TypeOK
    <3> HIDE DEF mine
    <3> QED BY <1>7, <1>9, <3>1
  <2> QED BY <1>6, <1>7, <2>1, <2>2 DEF P!Conv, P!Scope
<1>12. Agrees(c)
  <2>1. ASSUME NEW m \in mine \ P!Pending PROVE P!InAll(m)
    BY <1>1, <1>3, <2>1, P2PConstants DEF SettledInv
  <2>2. \A m \in delivered[First] : writer[m] # Remote => m \in mine
    OBVIOUS
  <2> HIDE DEF mine
  <2> QED BY <1>10, <2>1, <2>2 DEF Agrees
<1>13. ASSUME Cardinality(Resident) > 1, NEW i \in 2 .. Len(h),
              writer[h[i]] \in Resident, writer[h[i]] = writer[h[i - 1]]
       PROVE  MadeBetween(h[i - 1], h[i])
  <2>1. i \in DOMAIN h /\ i - 1 \in DOMAIN h /\ i - 1 < i
    BY <1>8
  <2>2. h[i - 1] \in mine /\ h[i] \in mine /\ h[i - 1] < h[i]
    BY <1>6, <2>1
  <2>3. h[i - 1] + 1 # h[i]
    BY <1>1, <1>3, <1>13, <2>2 DEF RepeatInv
  <2>4. h[i - 1] \in 1 .. Count /\ h[i] \in 1 .. Count
    BY <1>2, <1>3, <2>2
  <2>5. h[i - 1] + 1 \in P!Made /\ h[i - 1] < h[i - 1] + 1 /\ h[i - 1] + 1 < h[i]
    BY <1>2, <2>2, <2>3, <2>4
  <2> QED BY <2>5 DEF MadeBetween
<1>14. ASSUME h # <<>> PROVE h[Len(h)] = P!Max(mine) /\ mine # {}
  <2>1. Len(h) \in DOMAIN h
    BY <1>8, <1>14
  <2>2. h[Len(h)] \in mine /\ mine # {}
    BY <1>6, <2>1
  <2>3. \A i \in DOMAIN h : h[i] <= h[Len(h)]
    <3> TAKE i \in DOMAIN h
    <3>1. h[i] \in Nat /\ h[Len(h)] \in Nat
      BY <1>2, <1>3, <1>6, <2>1
    <3>2. i < Len(h) \/ i = Len(h)
      BY <1>8
    <3> QED BY <1>6, <2>1, <3>1, <3>2
  <2>4. PICK i \in DOMAIN h : h[i] = P!Max(mine)
    <3> HIDE DEF mine
    <3> QED BY <1>6, <1>9, <2>2
  <2>5. h[Len(h)] <= P!Max(mine) /\ P!Max(mine) <= h[Len(h)]
    <3> HIDE DEF mine
    <3> QED BY <1>9, <2>2, <2>3, <2>4
  <2>6. h[Len(h)] \in Nat /\ P!Max(mine) \in Nat
    BY <1>2, <1>3, <1>9, <2>2
  <2> QED BY <2>2, <2>5, <2>6
<1>15. Count \in delivered[First] /\ writer[Count] \in Resident => c.last = writer[Count]
  <2> SUFFICES ASSUME Count \in mine PROVE c.last = writer[Count]
    BY P2PConstants
  <2>1. P!Max(mine) \in 1 .. Count /\ Count <= P!Max(mine)
    BY <1>2, <1>3, <1>9
  <2>2. P!Max(mine) = Count
    <3> HIDE DEF mine
    <3> QED BY <1>2, <2>1
  <2> QED BY <1>7, <2>2
<1>16. OthersSpeak(c)
  <2>1. h # <<>> => writer[h[Len(h)]] = c.last
    BY <1>7, <1>14
  <2>2. speaking.m \notin mine
    BY <1>2, <1>3, <1>4
  <2> HIDE DEF mine
  <2> QED BY <1>4, <1>6, <1>7, <1>10, <1>13, <1>15, <2>1, <2>2 DEF OthersSpeak
<1> QED BY <1>3, <1>5, <1>7, <1>10, <1>11, <1>12, <1>16 DEF Sound, c

LEMMA OpenedSound == P2PInv => Sound(P!Opened)
BY RebuiltSound DEF P!Opened, P2PInv

\* Before the first message the conversation is empty.
LEMMA BlankSound ==
  ASSUME P2PInv, P!Made = {}
  PROVE  Sound(conv)
<1>1. CASE memory
  BY <1>1 DEF P2PInv
<1>2. CASE ~memory
  <2>1. P!TypeOK /\ MadeInv
    BY DEF P2PInv
  <2>2. /\ conv = P!Blank /\ speaking = P!NoTurn /\ \A q \in Resident : delivered[q] = {}
        /\ First \in Resident /\ Count \in Nat
    BY <1>2, <2>1, P2PConstants, P2PTypes DEF MadeInv
  <2>3. conv.history = <<>> /\ conv.turn = 0 /\ Entries(conv) = {} /\ conv \in P!Conv
    BY <2>2, <2>1 DEF P!Blank, Entries, P!TypeOK
  <2>4. Agrees(conv)
    BY <2>2, <2>3 DEF Agrees
  <2>5. OthersSpeak(conv)
    BY <2>2, <2>3 DEF OthersSpeak
  <2> QED BY <2>2, <2>3, <2>4, <2>5 DEF Sound
<1> QED BY <1>1, <1>2

-----------------------------------------------------------------------------
(* P2PConversation: what steps preserve *)

\* The parts that are about sessions.  A message that is distributed after a step was so
\* before it, and nothing about it has changed; or all have got it, and the history has it.
LEMMA SettledStep ==
  ASSUME SettledInv, MadeInv', NEW c, memory' => Agrees(c),
         \A m \in P!Made : writer'[m] = writer[m],
         memory' => Entries(conv') \subseteq P!Made',
         \A m \in P!Made' \ P!Pending' :
           \/ /\ m \in P!Made \ P!Pending /\ (m \in hub' => m \in hub)
              /\ \A q \in Resident : m \in delivered'[q] <=> m \in delivered[q]
              /\ memory' => (m \in Entries(conv') <=> m \in Entries(c))
           \/ /\ \A q \in Resident : m \in delivered'[q]
              /\ memory' => (writer'[m] # Remote => m \in Entries(conv'))
  PROVE  SettledInv' /\ (memory' => Agrees(conv)')
<1>1. \A m : P!InAll(m) <=> \A q \in Resident : m \in delivered[q]
  BY DEF P!InAll
<1>2. \A m : P!InAll(m)' <=> \A q \in Resident : m \in delivered'[q]
  BY DEF P!InAll
<1>3. First \in Resident /\ hub' \subseteq P!Made' /\ delivered'[First] \subseteq P!Made'
  BY P2PConstants DEF MadeInv
<1>4. \A m \in P!Made' \ P!Pending' :
        /\ P!InAll(m)' \/ \A q \in Resident : m \notin delivered'[q]
        /\ m \in hub' => P!InAll(m)'
  BY <1>1, <1>2 DEF SettledInv
<1>5. SettledInv'
  BY <1>3, <1>4 DEF SettledInv
<1>6. ASSUME memory' PROVE Agrees(conv)'
  <2>1. \A m \in Entries(conv') \ P!Pending' : P!InAll(m)'
    BY <1>1, <1>2, <1>6 DEF Agrees
  <2>2. \A m \in delivered'[First] \ P!Pending' : writer'[m] # Remote => m \in Entries(conv')
    BY <1>3, <1>6 DEF Agrees
  <2>3. Entries(conv)' = Entries(conv')
    BY DEF Entries
  <2> QED BY <2>1, <2>2, <2>3 DEF Agrees
<1> QED BY <1>5, <1>6

\* Steps after which the messages of Qubes, and what the first session has of them, are
\* as before.
LEMMA RepeatKept ==
  ASSUME P!TypeOK, MadeInv, RepeatInv,
         \A m \in P!Made : writer'[m] = writer[m],
         \A m \in P!Made' : writer'[m] \in Resident =>
           m \in P!Made /\ (m \in delivered'[First] => m \in delivered[First]),
         speaking'.m \in {speaking.m, 0},
         Cardinality(Resident) > 1 /\ speaking'.stage = "asking" =>
           (Count' \in P!Made' /\ writer'[Count'] = speaking'.q => Count' \notin delivered'[First])
  PROVE  RepeatInv'
<1> SUFFICES ASSUME Cardinality(Resident) > 1 PROVE RepeatInv'
  BY DEF RepeatInv
<1>1. P!Made \subseteq Nat \ {0}
  BY P2PTypes
<1>2. ASSUME NEW m \in P!Made', m + 1 \in P!Made', writer'[m] \in Resident,
             writer'[m + 1] = writer'[m], m \in delivered'[First]
      PROVE  m + 1 \notin delivered'[First] \cup {speaking'.m}
  <2>1. m \in P!Made /\ m + 1 \in P!Made /\ m \in delivered[First]
    BY <1>2
  <2>2. m + 1 \notin delivered[First] \cup {speaking.m}
    BY <1>2, <2>1 DEF RepeatInv
  <2>3. m + 1 # 0
    BY <1>1, <2>1
  <2> QED BY <1>2, <2>1, <2>2, <2>3
<1>3. ASSUME speaking'.m # 0, NEW k \in P!Made', k > speaking'.m PROVE writer'[k] \notin Resident
  BY <1>3 DEF RepeatInv
<1> QED BY <1>2, <1>3 DEF RepeatInv

\* The last element of a sequence that is not empty is one of its elements.
LEMMA FinalIs ==
  ASSUME NEW X, NEW h \in Seq(X), h # <<>>
  PROVE  Len(h) \in DOMAIN h /\ Len(h) \in 1 .. Len(h) /\ h[Len(h)] \in {h[i] : i \in DOMAIN h}
OBVIOUS

\* Between numbers that were made, and before the next.
LEMMA BetweenGrows ==
  ASSUME P!TypeOK, MadeInv, MadeInv', P!TypeOK', P!Made \subseteq P!Made', NEW a, NEW b
  PROVE  /\ MadeBetween(a, b) => MadeBetween(a, b)'
         /\ a \in P!Made /\ MadeBetween(a, Count + 1) => MadeBetween(a, Count + 1)'
<1>1. Count \in Nat /\ Count' \in Nat /\ P!Made = 1 .. Count /\ P!Made' = 1 .. Count'
  <2>1. Count \in Nat /\ P!Made = 1 .. Count
    BY P2PTypes
  <2>2. (P!TypeOK /\ MadeInv => Count \in Nat /\ P!Made = 1 .. Count)'
    BY P2PTypes, PTL
  <2> QED BY <2>1, <2>2
<1>2. MadeBetween(a, b) => MadeBetween(a, b)'
  BY DEF MadeBetween
<1>3. Count <= Count'
  BY <1>1
<1>4. ASSUME a \in P!Made, NEW m \in P!Made, a < m PROVE MadeBetween(a, Count + 1)'
  <2>1. m \in P!Made' /\ m \in 1 .. Count'
    BY <1>1
  <2>2. \A n \in Nat : \A k \in 1 .. n : k < n + 1
    OBVIOUS
  <2>3. m < Count' + 1
    BY <1>1, <2>1, <2>2
  <2> QED BY <1>4, <2>1, <2>3 DEF MadeBetween
<1> QED BY <1>2, <1>4 DEF MadeBetween

\* Steps that leave the history of c as it is.
LEMMA OthersSpeakKept ==
  ASSUME P!TypeOK, MadeInv, MadeInv', P!TypeOK', P!Made \subseteq P!Made',
         \A m \in P!Made : writer'[m] = writer[m],
         NEW c \in P!Conv, Entries(c) \subseteq P!Made, OthersSpeak(c),
         conv'.history = c.history, conv'.last = c.last,
         Cardinality(Resident) > 1 =>
           /\ c.history # <<>> /\ speaking' # P!NoTurn /\ writer[c.history[Len(c.history)]] = speaking'.q =>
                \E b \in P!Made' : /\ c.history[Len(c.history)] < b
                                   /\ b < IF speaking'.m = 0 THEN Count' + 1 ELSE speaking'.m
           /\ Count' \in delivered'[First] \ {speaking'.m} /\ writer'[Count'] \in Resident =>
                c.last = writer'[Count']
           /\ speaking'.m \notin Entries(c) /\ Entries(c) \cap marked' \subseteq marked
           /\ \A m \in Entries(c) \cap marked' : posted' = {} /\ (speaking'.m # 0 => m < speaking'.m)
  PROVE  OthersSpeak(conv)' /\ Entries(conv') = Entries(c)
<1>1. Entries(conv)' = Entries(c) /\ Entries(conv') = Entries(c)
  BY DEF Entries
<1> SUFFICES ASSUME Cardinality(Resident) > 1 PROVE OthersSpeak(conv)'
  BY <1>1 DEF OthersSpeak
<1> DEFINE h == c.history
<1>2. h \in Seq(P!Message)
  BY DEF P!Conv
<1> HIDE DEF h
<1>3. \A i \in DOMAIN h : h[i] \in Entries(c)
  BY DEF Entries, h
<1>4. Len(h) \in Nat /\ DOMAIN h = 1 .. Len(h)
  BY <1>2
<1>5. \A i \in DOMAIN h : h[i] \in P!Made /\ writer'[h[i]] = writer[h[i]]
  BY <1>3
<1>6. h # <<>> => Len(h) \in DOMAIN h
  BY <1>2
<1>7. ASSUME NEW i \in 2 .. Len(h), writer'[h[i]] \in Resident, writer'[h[i]] = writer'[h[i - 1]]
      PROVE  MadeBetween(h[i - 1], h[i])'
  <2>1. i \in DOMAIN h /\ i - 1 \in DOMAIN h
    BY <1>4
  <2>2. MadeBetween(h[i - 1], h[i])
    BY <1>5, <1>7, <2>1 DEF OthersSpeak, h
  <2> QED BY <2>2, BetweenGrows
<1>8. h # <<>> /\ writer'[h[Len(h)]] \in Resident /\ writer'[h[Len(h)]] # c.last =>
        MadeBetween(h[Len(h)], Count + 1)'
  BY <1>5, <1>6, BetweenGrows DEF OthersSpeak, h
<1>9. \A j, k \in DOMAIN h : j < k /\ {h[j], h[k]} \cap marked' # {} => h[j] < h[k]
  BY <1>3 DEF OthersSpeak, h
<1>10. h # <<>> /\ speaking' # P!NoTurn /\ writer'[h[Len(h)]] = speaking'.q =>
         \E b \in P!Made' : h[Len(h)] < b /\ b < IF speaking'.m = 0 THEN Count' + 1 ELSE speaking'.m
  BY <1>5, <1>6 DEF h
<1>11. conv'.history = h
  BY DEF h
<1> QED BY <1>1, <1>7, <1>8, <1>9, <1>10, <1>11 DEF OthersSpeak, MadeBetween, P!NoTurn

\* Steps that append message n to the history of c.
LEMMA OthersSpeakAppend ==
  ASSUME P!TypeOK, MadeInv, MadeInv', P!TypeOK', P!Made \subseteq P!Made',
         \A m \in P!Made : writer'[m] = writer[m],
         NEW c \in P!Conv, Entries(c) \subseteq P!Made, OthersSpeak(c),
         NEW n \in P!Made', n \in P!Message, conv'.history = Append(c.history, n),
         Cardinality(Resident) > 1 =>
           /\ writer'[n] \in Resident => conv'.last = writer'[n]
           /\ c.history # <<>> /\ writer'[n] \in Resident
                /\ writer'[n] = writer[c.history[Len(c.history)]]
                => MadeBetween(c.history[Len(c.history)], n)
           /\ speaking' # P!NoTurn => writer'[n] # speaking'.q
           /\ Count' \in delivered'[First] \ {speaking'.m} /\ writer'[Count'] \in Resident =>
                conv'.last = writer'[Count']
           /\ speaking'.m \notin Entries(c) \cup {n}
           /\ n \notin marked' /\ Entries(c) \cap marked' \subseteq marked
           /\ \A m \in Entries(c) \cap marked' :
                posted' = {} /\ (speaking'.m # 0 => m < speaking'.m) /\ m < n
  PROVE  OthersSpeak(conv)' /\ Entries(conv') = Entries(c) \cup {n}
<1> DEFINE h == c.history
           g == Append(h, n)
<1>1. h \in Seq(P!Message)
  BY DEF P!Conv
<1>2. /\ Len(h) \in Nat /\ DOMAIN h = 1 .. Len(h) /\ g \in Seq(P!Message)
      /\ Len(g) = Len(h) + 1 /\ DOMAIN g = 1 .. Len(h) + 1 /\ g[Len(h) + 1] = n
      /\ \A i \in 1 .. Len(h) : g[i] = h[i]
  <2> HIDE DEF h
  <2> QED BY <1>1
<1>3. conv'.history = g /\ \A i \in DOMAIN h : h[i] \in Entries(c)
  BY DEF Entries
<1> HIDE DEF h, g
<1>4. Entries(conv') = Entries(c) \cup {n} /\ Entries(conv)' = Entries(c) \cup {n}
  <2>1. {g[i] : i \in DOMAIN g} = {h[i] : i \in DOMAIN h} \cup {n}
    <3>1. \A i \in DOMAIN g : g[i] \in {h[k] : k \in DOMAIN h} \cup {n}
      <4> TAKE i \in DOMAIN g
      <4>1. i \in 1 .. Len(h) \/ i = Len(h) + 1
        BY <1>2
      <4> QED BY <1>2, <4>1
    <3>2. \A i \in DOMAIN h : h[i] \in {g[k] : k \in DOMAIN g}
      BY <1>2
    <3>3. n \in {g[k] : k \in DOMAIN g}
      BY <1>2
    <3> QED BY <3>1, <3>2, <3>3
  <2> QED BY <1>3, <2>1 DEF Entries, h
<1> SUFFICES ASSUME Cardinality(Resident) > 1 PROVE OthersSpeak(conv)'
  BY <1>4 DEF OthersSpeak
<1>5. \A i \in 1 .. Len(h) : h[i] \in P!Made /\ writer'[h[i]] = writer[h[i]]
  BY <1>2, <1>3
<1>6. ASSUME NEW i \in 2 .. Len(g), writer'[g[i]] \in Resident, writer'[g[i]] = writer'[g[i - 1]]
      PROVE  MadeBetween(g[i - 1], g[i])'
  <2>1. CASE i \in 2 .. Len(h)
    <3>1. i \in 1 .. Len(h) /\ i - 1 \in 1 .. Len(h)
      BY <1>2, <2>1
    <3>2. g[i] = h[i] /\ g[i - 1] = h[i - 1]
      BY <1>2, <3>1
    <3>3. writer[h[i]] \in Resident /\ writer[h[i]] = writer[h[i - 1]]
      BY <1>5, <1>6, <3>1, <3>2
    <3>4. MadeBetween(h[i - 1], h[i])
      BY <2>1, <3>3 DEF OthersSpeak, h
    <3> QED BY <3>2, <3>4, BetweenGrows
  <2>2. CASE i \notin 2 .. Len(h)
    <3>1. i = Len(h) + 1 /\ i - 1 = Len(h) /\ Len(h) \in 1 .. Len(h)
      BY <1>2, <1>6, <2>2
    <3>2. g[i] = n /\ g[i - 1] = h[Len(h)] /\ h # <<>>
      BY <1>2, <3>1
    <3>3. MadeBetween(h[Len(h)], n)
      BY <1>5, <1>6, <3>1, <3>2 DEF h
    <3> QED BY <3>2, <3>3, BetweenGrows
  <2> QED BY <2>1, <2>2
<1>7. g # <<>> /\ g[Len(g)] = n
  BY <1>2
<1>8. ASSUME NEW j \in DOMAIN g, NEW k \in DOMAIN g, j < k, {g[j], g[k]} \cap marked' # {}
      PROVE  g[j] < g[k]
  <2>1. j \in 1 .. Len(h) /\ g[j] = h[j] /\ h[j] \in Entries(c)
    BY <1>2, <1>3, <1>8
  <2>2. CASE k \in 1 .. Len(h)
    <3>1. g[k] = h[k] /\ h[k] \in Entries(c)
      BY <1>2, <1>3, <2>2
    <3> QED BY <1>2, <1>8, <2>1, <2>2, <3>1 DEF OthersSpeak, h
  <2>3. CASE k \notin 1 .. Len(h)
    <3>1. g[k] = n
      BY <1>2, <2>3
    <3> QED BY <1>8, <2>1, <3>1
  <2> QED BY <2>2, <2>3
<1>9. \A m \in (Entries(c) \cup {n}) \cap marked' : posted' = {} /\ (speaking'.m # 0 => m < speaking'.m)
  OBVIOUS
<1> QED BY <1>3, <1>4, <1>6, <1>7, <1>8, <1>9 DEF OthersSpeak, MadeBetween, P!NoTurn

\* An interjection takes the marked messages out of the history of c, and is itself made
\* after all of it.
LEMMA OthersSpeakFilter ==
  ASSUME P!TypeOK, MadeInv, MadeInv', P!TypeOK', P!Made \subseteq P!Made',
         \A m \in P!Made : writer'[m] = writer[m],
         NEW c \in P!Conv, Entries(c) \subseteq P!Made, OthersSpeak(c),
         Count' = Count + 1, writer'[Count'] \notin Resident,
         conv'.history = P!Without(c.history, marked), marked' = {}, UNCHANGED speaking
  PROVE  /\ OthersSpeak(conv)' /\ Entries(conv') = Entries(c) \ marked
         /\ conv'.history \in Seq(P!Message)
<1>0. PICK h : h = c.history
  OBVIOUS
<1>00. PICK gone : gone = marked
  OBVIOUS
<1>000. PICK f : f = Filtered(h, gone)
  OBVIOUS
<1>1. h \in Seq(P!Message) /\ P!Message \in SUBSET Nat /\ DOMAIN h = 1 .. Len(h) /\ Len(h) \in Nat
  <2>1. h \in Seq(P!Message)
    BY <1>0 DEF P!Conv
  <2>2. P!Message \subseteq Nat
    BY P2PTypes
  <2> QED BY <2>1, <2>2
<1>2. conv'.history = f
  <2>1. P!Without(h, gone) = Filtered(h, gone)
    BY Zenon DEF P!Without, Filtered
  <2> QED BY <1>0, <1>00, <1>000, <2>1
<1>3. f \in Seq(P!Message) /\ {f[k] : k \in DOMAIN f} = {h[i] : i \in DOMAIN h} \ gone
  <2>1. f \in Seq(P!Message)
    BY <1>1, <1>000, FilterEmbeds
  <2>2. PICK e : Embeds(h, gone, Len(h), f, e)
    BY <1>1, <1>000, FilterEmbeds
  <2>3. DOMAIN f = 1 .. Len(f)
    BY <2>1
  <2>4. \A k \in DOMAIN f : f[k] \in {h[i] : i \in DOMAIN h} \ gone
    BY <1>1, <2>2, <2>3 DEF Embeds
  <2>5. \A i \in DOMAIN h : h[i] \notin gone => h[i] \in {f[k] : k \in DOMAIN f}
    <3> TAKE i \in DOMAIN h
    <3>1. h[i] \notin gone => \E k \in 1 .. Len(f) : e[k] = i /\ f[k] = h[e[k]]
      BY <1>1, <2>2, <2>3 DEF Embeds
    <3> QED BY <2>3, <3>1
  <2> QED BY <2>1, <2>4, <2>5
<1>4. Entries(c) = {h[i] : i \in DOMAIN h}
  BY <1>0 DEF Entries
<1>6. Entries(conv') = Entries(c) \ gone /\ Entries(conv)' = Entries(c) \ gone
  BY <1>2, <1>3, <1>4 DEF Entries
<1> SUFFICES ASSUME Cardinality(Resident) > 1 PROVE OthersSpeak(conv)'
  BY <1>00, <1>2, <1>3, <1>6 DEF OthersSpeak
<1>7. \A j, k \in DOMAIN h : j < k /\ {h[j], h[k]} \cap gone # {} => h[j] < h[k]
  BY <1>0, <1>00 DEF OthersSpeak
<1>8. /\ \A i \in 2 .. Len(f) :
           \/ \E b \in 2 .. Len(h) : f[i - 1] = h[b - 1] /\ f[i] = h[b]
           \/ \E r \in Entries(c) \cap gone : f[i - 1] < r /\ r < f[i]
      /\ f # <<>> =>
           \/ h # <<>> /\ f[Len(f)] = h[Len(h)]
           \/ \E r \in Entries(c) \cap gone : f[Len(f)] < r
  BY <1>1, <1>4, <1>7, <1>000, FilterNeighbours, Zenon
<1>9. \A m \in Entries(c) : m \in P!Made /\ m \in P!Made' /\ writer'[m] = writer[m]
  OBVIOUS
<1>10. ASSUME NEW i \in 2 .. Len(f), writer'[f[i]] \in Resident, writer'[f[i]] = writer'[f[i - 1]]
       PROVE  \E m \in P!Made' : f[i - 1] < m /\ m < f[i]
  <2>1. ASSUME NEW b \in 2 .. Len(h), f[i - 1] = h[b - 1], f[i] = h[b]
        PROVE  \E m \in P!Made' : f[i - 1] < m /\ m < f[i]
    <3>1. b \in DOMAIN h /\ b - 1 \in DOMAIN h
      BY <1>1
    <3>2. writer'[h[b]] = writer[h[b]] /\ writer'[h[b - 1]] = writer[h[b - 1]]
      BY <1>4, <1>9, <3>1
    <3>3. MadeBetween(h[b - 1], h[b])
      BY <1>0, <1>10, <2>1, <3>2 DEF OthersSpeak
    <3> QED BY <2>1, <3>3 DEF MadeBetween
  <2> QED BY <1>8, <1>9, <2>1
<1>11. /\ Count \in Nat /\ P!Made = 1 .. Count
       /\ Count' \in P!Made' /\ \A m \in P!Made : m < Count' /\ Count' < Count' + 1
  <2>1. Count \in Nat /\ P!Made = 1 .. Count
    BY P2PTypes
  <2>2. P!Made' = 1 .. Count'
    BY DEF MadeInv
  <2> QED BY <2>1, <2>2
<1>12. ASSUME f # <<>> PROVE f[Len(f)] \in Entries(c)
  <2>1. f[Len(f)] \in {f[k] : k \in DOMAIN f}
    BY <1>3, <1>12, FinalIs
  <2> QED BY <1>3, <1>4, <2>1
<1>13. f # <<>> => \E b \in P!Made' : f[Len(f)] < b /\ b < Count' + 1
  BY <1>9, <1>11, <1>12
<1>14. ASSUME f # <<>>, speaking' # P!NoTurn, writer'[f[Len(f)]] = speaking'.q
       PROVE  \E b \in P!Made' : f[Len(f)] < b /\ b < IF speaking'.m = 0 THEN Count' + 1 ELSE speaking'.m
  <2>1. CASE speaking.m = 0
    BY <1>13, <1>14, <2>1
  <2>2. CASE speaking.m # 0 /\ h # <<>> /\ f[Len(f)] = h[Len(h)]
    <3>1. writer[h[Len(h)]] = speaking.q /\ speaking # P!NoTurn
      BY <1>9, <1>12, <1>14, <2>2
    <3>2. MadeBetween(h[Len(h)], speaking.m)
      BY <1>0, <2>2, <3>1 DEF OthersSpeak
    <3> QED BY <2>2, <3>2 DEF MadeBetween
  <2>3. ASSUME speaking.m # 0, NEW r \in Entries(c) \cap gone, f[Len(f)] < r
        PROVE \E b \in P!Made' : f[Len(f)] < b /\ b < speaking.m
    <3>1. r < speaking.m
      BY <1>00, <2>3 DEF OthersSpeak
    <3> QED BY <1>9, <2>3, <3>1
  <2> QED BY <1>8, <1>14, <2>1, <2>2, <2>3
<1>15. speaking'.m \notin Entries(c) \ gone
  BY DEF OthersSpeak
<1> QED BY <1>2, <1>00, <1>6, <1>10, <1>11, <1>13, <1>14, <1>15 DEF OthersSpeak, MadeBetween, P!NoTurn

-----------------------------------------------------------------------------
(* P2PConversation: the actions *)

\* In a turn, and while something is distributed, the conversation is in memory.
LEMMA InMemory ==
  ASSUME P2PInv, speaking # P!NoTurn \/ posted # {}
  PROVE  memory /\ Sound(conv)
BY DEF P2PInv, MadeInv

\* Who speaks.
LEMMA SpeakingIs ==
  ASSUME P!TypeOK
  PROVE  /\ speaking.stage \in {"none", "asking", "signing", "posting"}
         /\ speaking.stage = "none" <=> speaking = P!NoTurn
         /\ speaking # P!NoTurn => speaking \in P!Turn /\ speaking.q \in Resident
         /\ speaking.m \in P!Message \cup {0}
BY DEF P!TypeOK, P!Turn, P!NoTurn

LEMMA P2PRespond ==
  ASSUME P2PInv, P!Respond
  PROVE  P2PInv'
<1>1. P!TypeOK /\ MadeInv /\ SharedInv /\ SettledInv /\ RepeatInv
  BY DEF P2PInv
<1>2. /\ speaking.stage = "asking" /\ speaking # P!NoTurn /\ speaking \in P!Turn
      /\ speaking.q \in Resident /\ speaking.m = 0 /\ conv.scope = "local"
  BY <1>1, SpeakingIs DEF P!Respond, MadeInv
<1>3. memory /\ Sound(conv)
  BY <1>2, InMemory
<1>4. /\ Count \in Nat /\ Count <= MaxNumber /\ P!Made = 1 .. Count /\ P!Made \subseteq P!Message
      /\ P!Message \subseteq Nat \ {0} /\ P!Message = 1 .. MaxNumber /\ MaxNumber \in Nat
  BY <1>1, P2PTypes, P2PConstants DEF P!Message
<1>5. /\ conv \in P!Conv /\ conv.turn \in Nat /\ conv.turn <= Count /\ Entries(conv) \subseteq P!Made
      /\ OthersSpeak(conv) /\ Agrees(conv)
  BY <1>3 DEF Sound, P!Conv
<1>6. PICK m \in P!Message :
        /\ P!Makes(m, speaking.q, conv.turn + 1)
        /\ delivered' = [delivered EXCEPT ![speaking.q] = @ \cup {m}] /\ marked' = marked \cup {m}
        /\ speaking' = [speaking EXCEPT !.m = m, !.stage = "signing", !.inner = conv.scope]
  BY DEF P!Respond
<1>7. /\ conv' = [conv EXCEPT !.turn = @ + 1]
      /\ UNCHANGED <<memory, known, posted, hub, sidecarCrashes, removed, cut>>
  BY DEF P!Respond, P!past
<1>8. /\ Count < MaxNumber /\ m = Count + 1 /\ m \notin P!Made
      /\ P!Made' = P!Made \cup {m} /\ Count' = m /\ P!Made' = 1 .. Count'
      /\ writer' \in [P!Message -> Resident \cup {User, Remote, Nobody}]
      /\ writer'[m] = speaking.q /\ \A k \in P!Message : k # m => writer'[k] = writer[k]
      /\ number' \in [P!Message -> 0 .. MaxNumber] /\ \A k \in P!Message : number'[k] <= Count'
      /\ conv.turn + 1 \in 0 .. MaxNumber
  <2>1. conv.turn + 1 \in Nat /\ conv.turn + 1 <= Count + 1
    BY <1>4, <1>5
  <2> QED BY <1>1, <1>2, <1>6, <2>1, MakesStep
<1>9. /\ speaking' \in P!Turn /\ speaking'.m = m /\ speaking'.stage = "signing"
      /\ speaking'.q = speaking.q /\ speaking' # P!NoTurn
  BY <1>2, <1>6 DEF P!Turn, P!Scope, P!NoTurn
<1>10. conv' \in P!Conv /\ conv'.turn = conv.turn + 1 /\ conv'.history = conv.history /\ conv'.last = conv.last
  BY <1>5, <1>7, <1>8 DEF P!Conv
<1>11. /\ delivered' \in [Resident -> SUBSET P!Message]
       /\ \A q \in Resident : \A k : k # m => (k \in delivered'[q] <=> k \in delivered[q])
       /\ m \in delivered'[speaking.q]
  BY <1>1, <1>2, <1>6 DEF P!TypeOK
<1>12. P!TypeOK'
  BY <1>1, <1>6, <1>7, <1>8, <1>9, <1>10, <1>11 DEF P!TypeOK
<1>13. \A k \in P!Made : writer'[k] = writer[k]
  BY <1>4, <1>8
<1>14. MadeInv'
  <2>1. marked' \subseteq P!Made' /\ hub' \subseteq P!Made' /\ \A q \in Resident : delivered'[q] \subseteq P!Made'
    BY <1>1, <1>6, <1>7, <1>8, <1>11 DEF MadeInv
  <2>2. \A k \in marked' : writer'[k] \in Resident /\ k \in {speaking'.m} \cup cut'
    <3> TAKE k \in marked'
    <3>1. k = m \/ (k \in marked /\ k \in P!Made /\ k # 0)
      BY <1>1, <1>4, <1>6 DEF MadeInv
    <3> QED BY <1>1, <1>2, <1>7, <1>8, <1>9, <1>13, <3>1 DEF MadeInv
  <2>3. \A i \in posted' : i.m \in P!Made' /\ writer'[i.m] = User
    BY <1>1, <1>7, <1>8, <1>13 DEF MadeInv
  <2> QED BY <1>3, <1>7, <1>8, <1>9, <2>1, <2>2, <2>3 DEF MadeInv
<1>15. SharedInv'
  <2>1. ASSUME NEW i \in posted, i.stage = "posting", NEW q \in Resident PROVE i.m \in delivered'[q]
    <3>1. i.m # m /\ i.m \in delivered[q]
      BY <1>1, <1>8, <2>1 DEF MadeInv, SharedInv, P!InAll
    <3> QED BY <1>11, <3>1
  <2> QED BY <1>7, <1>9, <1>11, <2>1 DEF SharedInv, P!InAll
<1>16. Entries(conv') = Entries(conv) /\ P!Pending' = P!Pending \cup {m}
  BY <1>2, <1>4, <1>7, <1>9, <1>10 DEF Entries, P!Pending
<1>17. SettledInv' /\ Agrees(conv)'
  <2>1. \A k \in P!Made' \ P!Pending' :
          /\ k \in P!Made \ P!Pending /\ (k \in hub' => k \in hub)
          /\ \A q \in Resident : k \in delivered'[q] <=> k \in delivered[q]
          /\ k \in Entries(conv') <=> k \in Entries(conv)
    BY <1>7, <1>8, <1>11, <1>16
  <2>2. Entries(conv') \subseteq P!Made'
    BY <1>5, <1>8, <1>16
  <2> QED BY <1>1, <1>3, <1>5, <1>7, <1>13, <1>14, <2>1, <2>2, SettledStep
<1>18. RepeatInv'
  <2> SUFFICES ASSUME Cardinality(Resident) > 1 PROVE RepeatInv'
    BY DEF RepeatInv
  <2>1. ASSUME NEW k \in P!Made', k + 1 \in P!Made', writer'[k] \in Resident,
               writer'[k + 1] = writer'[k], k \in delivered'[First]
        PROVE  k + 1 \notin delivered'[First] \cup {m}
    <3>1. k \in 1 .. Count /\ k # m /\ k \in P!Made
      BY <1>4, <1>8, <2>1
    <3>2. k \in delivered[First] /\ writer'[k] = writer[k]
      BY <1>11, <1>13, <2>1, <3>1, P2PConstants
    <3>3. CASE k + 1 = m
      <4>1. k = Count /\ writer[k] = speaking.q
        BY <1>4, <1>8, <2>1, <3>1, <3>2, <3>3
      <4> QED BY <1>1, <1>2, <3>1, <3>2, <4>1 DEF RepeatInv
    <3>4. CASE k + 1 # m
      <4>1. k + 1 \in P!Made /\ writer[k + 1] = writer[k]
        BY <1>8, <1>13, <2>1, <3>2, <3>4
      <4>2. k + 1 \notin delivered[First]
        BY <1>1, <2>1, <3>1, <3>2, <4>1 DEF RepeatInv
      <4> QED BY <1>11, <3>4, <4>2, P2PConstants
    <3> QED BY <3>3, <3>4
  <2>2. \A k \in P!Made' : ~(k > m)
    BY <1>4, <1>8
  <2> QED BY <1>9, <2>1, <2>2 DEF RepeatInv
<1>19. OthersSpeak(conv)'
  <2>1. ASSUME Cardinality(Resident) > 1, conv.history # <<>>,
               writer[conv.history[Len(conv.history)]] = speaking.q
        PROVE  \E b \in P!Made' : conv.history[Len(conv.history)] < b /\ b < m
    BY <1>2, <1>5, <1>8, <2>1 DEF OthersSpeak, MadeBetween
  <2>2. \A k \in Entries(conv) \cap marked' : k \in marked /\ k < m
    <3> TAKE k \in Entries(conv) \cap marked'
    <3>1. k \in 1 .. Count /\ k # m
      BY <1>4, <1>5, <1>8
    <3> QED BY <1>4, <1>6, <1>8, <3>1
  <2>3. Cardinality(Resident) > 1 => \A k \in Entries(conv) \cap marked : posted = {}
    BY <1>5 DEF OthersSpeak
  <2>4. m \notin Entries(conv)
    BY <1>5, <1>8
  <2>5. m # 0 /\ speaking'.m # 0 /\ posted' = posted
    BY <1>4, <1>7, <1>9
  <2>6. P!Made \subseteq P!Made'
    BY <1>8
  <2> QED BY <1>1, <1>5, <1>8, <1>9, <1>10, <1>12, <1>13, <1>14, <2>1, <2>2, <2>3, <2>4, <2>5, <2>6, OthersSpeakKept
<1>20. (memory => Sound(conv))'
  <2>1. conv'.turn <= Count'
    BY <1>4, <1>5, <1>8, <1>10
  <2>2. Entries(conv)' = Entries(conv')
    BY DEF Entries
  <2>3. Entries(conv)' \subseteq P!Made'
    BY <1>5, <1>8, <1>16, <2>2
  <2> QED BY <1>10, <1>17, <1>19, <2>1, <2>3 DEF Sound
<1> QED BY <1>12, <1>14, <1>15, <1>17, <1>18, <1>20 DEF P2PInv

\* A turn of q begins, in the conversation c.
LEMMA TurnBegins ==
  ASSUME NEW c \in P!Conv, P!BeginTurn(c)
  PROVE  /\ speaking' \in P!Turn /\ speaking' # P!NoTurn /\ speaking'.m = 0
         /\ speaking'.stage = "asking" /\ speaking'.q \in Resident
         /\ Cardinality(Resident) > 1 => speaking'.q # c.last
         /\ conv' \in P!Conv /\ conv'.turn = c.turn /\ conv'.history = c.history
         /\ conv'.last = c.last
<1>1. PICK q \in P!Determined(c) :
        /\ speaking' = [q |-> q, m |-> 0, stage |-> "asking", saved |-> c.scope, inner |-> "all"]
        /\ conv' = [c EXCEPT !.scope = "local"]
  BY DEF P!BeginTurn
<1>2. q \in Resident
  BY DEF P!Determined
<1>3. ASSUME Cardinality(Resident) > 1 PROVE q # c.last
  <2>1. Resident # {c.last}
    <3>1. Cardinality({c.last}) = 1
      BY FS_Singleton
    <3> QED BY <1>3, <3>1
  <2> QED BY <2>1 DEF P!Determined
<1>4. speaking' \in P!Turn /\ speaking' # P!NoTurn
  BY <1>1, <1>2 DEF P!Turn, P!Scope, P!NoTurn, P!Conv
<1>5. conv' \in P!Conv /\ conv'.turn = c.turn /\ conv'.history = c.history /\ conv'.last = c.last
  BY <1>1 DEF P!Conv, P!Scope
<1> QED BY <1>1, <1>2, <1>3, <1>4, <1>5

\* A conversation that is sound says so of its entries.
LEMMA SoundIs ==
  ASSUME P!TypeOK, MadeInv, NEW c, Sound(c)
  PROVE  /\ c \in P!Conv /\ c.turn \in Nat /\ c.turn <= Count /\ Entries(c) \subseteq P!Made
         /\ OthersSpeak(c) /\ Agrees(c) /\ 0 \notin Entries(c)
         /\ c.history \in Seq(P!Message)
         /\ c.history # <<>> => c.history[Len(c.history)] \in P!Made
<1>1. c \in P!Conv /\ c.turn <= Count /\ Entries(c) \subseteq P!Made /\ OthersSpeak(c) /\ Agrees(c)
  BY DEF Sound
<1>2. c.turn \in Nat /\ c.history \in Seq(P!Message)
  BY <1>1 DEF P!Conv
<1>3. 0 \notin P!Made
  BY P2PTypes
<1>4. ASSUME c.history # <<>> PROVE c.history[Len(c.history)] \in Entries(c)
  <2>1. c.history[Len(c.history)] \in {c.history[i] : i \in DOMAIN c.history}
    BY <1>2, <1>4, FinalIs
  <2> QED BY <2>1 DEF Entries
<1> QED BY <1>1, <1>2, <1>3, <1>4

LEMMA P2PContinue ==
  ASSUME P2PInv, P!Continue
  PROVE  P2PInv'
<1>1. P!TypeOK /\ MadeInv /\ SharedInv /\ SettledInv /\ RepeatInv
  BY DEF P2PInv
<1>2. PICK c : c = P!Opened
  OBVIOUS
<1>3. Sound(c)
  BY <1>2, OpenedSound
<1>4. /\ c \in P!Conv /\ c.turn <= Count /\ Entries(c) \subseteq P!Made
      /\ OthersSpeak(c) /\ Agrees(c) /\ 0 \notin Entries(c)
      /\ c.history # <<>> => c.history[Len(c.history)] \in P!Made
  BY <1>1, <1>3, SoundIs
<1>5. /\ speaking = P!NoTurn /\ speaking.m = 0 /\ P!BeginTurn(c) /\ memory'
      /\ UNCHANGED <<known, writer, number, delivered, marked, posted, hub, sidecarCrashes, removed, cut>>
  BY <1>2 DEF P!Continue, P!blocks, P!past, P!NoTurn
<1>6. /\ speaking' \in P!Turn /\ speaking' # P!NoTurn /\ speaking'.m = 0
      /\ speaking'.stage = "asking" /\ speaking'.q \in Resident
      /\ Cardinality(Resident) > 1 => speaking'.q # c.last
      /\ conv' \in P!Conv /\ conv'.turn = c.turn /\ conv'.history = c.history
      /\ conv'.last = c.last
  BY <1>4, <1>5, TurnBegins
<1>7. P!TypeOK'
  BY <1>1, <1>5, <1>6 DEF P!TypeOK
<1>8. P!Made' = P!Made /\ Count' = Count /\ P!Pending' = P!Pending
  BY <1>5, <1>6 DEF P!Made, Count, P!Pending
<1>9. MadeInv'
  BY <1>1, <1>5, <1>6, <1>8 DEF MadeInv
<1>10. SharedInv'
  BY <1>1, <1>5, <1>6 DEF SharedInv, P!InAll
<1>11. Entries(conv') = Entries(c) /\ Entries(conv)' = Entries(c)
  BY <1>6 DEF Entries
<1>12. SettledInv' /\ Agrees(conv)'
  BY <1>1, <1>4, <1>5, <1>8, <1>9, <1>11, SettledStep
<1>13. RepeatInv'
  <2>1. ASSUME Cardinality(Resident) > 1, Count' \in P!Made', writer'[Count'] = speaking'.q
        PROVE  Count' \notin delivered'[First]
    <3>1. Count # 0
      BY <1>1, <1>8, <2>1, P2PTypes
    <3> QED BY <1>4, <1>5, <1>6, <1>8, <2>1, <3>1 DEF OthersSpeak
  <2> QED BY <1>1, <1>5, <1>6, <1>8, <2>1, RepeatKept
<1>14. OthersSpeak(conv)'
  <2>1. ASSUME Cardinality(Resident) > 1, c.history # <<>>,
               writer[c.history[Len(c.history)]] = speaking'.q
        PROVE  \E b \in P!Made' : c.history[Len(c.history)] < b /\ b < Count' + 1
    BY <1>4, <1>6, <1>8, <2>1 DEF OthersSpeak, MadeBetween
  <2>2. Cardinality(Resident) > 1 =>
          /\ Count' \in delivered'[First] \ {speaking'.m} /\ writer'[Count'] \in Resident =>
               c.last = writer'[Count']
          /\ \A m \in Entries(c) \cap marked' : posted' = {}
    BY <1>4, <1>5, <1>6, <1>8 DEF OthersSpeak
  <2> QED BY <1>1, <1>4, <1>5, <1>6, <1>7, <1>8, <1>9, <2>1, <2>2, OthersSpeakKept
<1> QED BY <1>4, <1>5, <1>6, <1>7, <1>8, <1>9, <1>10, <1>11, <1>12, <1>13, <1>14 DEF P2PInv, Sound

LEMMA P2PNoResponse ==
  ASSUME P2PInv, P!NoResponse
  PROVE  P2PInv'
<1>1. P!TypeOK /\ MadeInv /\ SharedInv /\ SettledInv /\ RepeatInv
  BY DEF P2PInv
<1>2. /\ speaking.stage = "asking" /\ speaking # P!NoTurn /\ speaking \in P!Turn
      /\ speaking.q \in Resident /\ speaking.m = 0
  BY <1>1, SpeakingIs DEF P!NoResponse, MadeInv
<1>3. memory /\ Sound(conv)
  BY <1>2, InMemory
<1>4. /\ conv \in P!Conv /\ conv.turn <= Count /\ Entries(conv) \subseteq P!Made
      /\ OthersSpeak(conv) /\ Agrees(conv) /\ 0 \notin Entries(conv)
  BY <1>1, <1>3, SoundIs
<1>5. /\ speaking' = P!NoTurn /\ speaking'.m = 0 /\ speaking'.stage = "none"
      /\ UNCHANGED <<memory, known, writer, number, delivered, marked, posted, hub, sidecarCrashes, removed, cut>>
  BY DEF P!NoResponse, P!blocks, P!past, P!NoTurn
<1>6. conv' \in P!Conv /\ conv'.turn = conv.turn /\ conv'.history = conv.history /\ conv'.last = conv.last
  BY <1>2, <1>4 DEF P!NoResponse, P!Conv, P!Turn
<1>7. P!TypeOK'
  BY <1>1, <1>5, <1>6 DEF P!TypeOK
<1>8. P!Made' = P!Made /\ Count' = Count /\ P!Pending' = P!Pending
  BY <1>2, <1>5 DEF P!Made, Count, P!Pending
<1>9. MadeInv'
  BY <1>1, <1>2, <1>3, <1>5, <1>8 DEF MadeInv
<1>10. SharedInv'
  BY <1>1, <1>5 DEF SharedInv, P!InAll
<1>11. Entries(conv') = Entries(conv) /\ Entries(conv)' = Entries(conv)
  BY <1>6 DEF Entries
<1>12. SettledInv' /\ Agrees(conv)'
  BY <1>1, <1>3, <1>4, <1>5, <1>8, <1>9, <1>11, SettledStep
<1>13. RepeatInv'
  BY <1>1, <1>5, <1>8, RepeatKept
<1>14. OthersSpeak(conv)'
  <2>1. Cardinality(Resident) > 1 =>
          /\ Count' \in delivered'[First] \ {speaking'.m} /\ writer'[Count'] \in Resident =>
               conv.last = writer'[Count']
          /\ \A m \in Entries(conv) \cap marked' : posted' = {}
    BY <1>2, <1>4, <1>5, <1>8 DEF OthersSpeak
  <2> QED BY <1>1, <1>4, <1>5, <1>6, <1>7, <1>8, <1>9, <2>1, OthersSpeakKept
<1> QED BY <1>4, <1>5, <1>6, <1>7, <1>8, <1>9, <1>10, <1>11, <1>12, <1>13, <1>14 DEF P2PInv, Sound

LEMMA P2PShareInjected ==
  ASSUME P2PInv, NEW i \in posted, P!ShareInjected(i)
  PROVE  P2PInv'
<1>1. P!TypeOK /\ MadeInv /\ SharedInv /\ SettledInv /\ RepeatInv
  BY DEF P2PInv
<1>2. memory /\ Sound(conv)
  BY InMemory
<1>3. /\ conv \in P!Conv /\ conv.turn <= Count /\ Entries(conv) \subseteq P!Made
      /\ OthersSpeak(conv) /\ Agrees(conv) /\ 0 \notin Entries(conv)
  BY <1>1, <1>2, SoundIs
<1>4. /\ i.stage = "signing" /\ i \in P!Interjection /\ i.m \in P!Made /\ writer[i.m] = User
      /\ i.m \in P!Message /\ i.inner \in P!Scope
  BY <1>1 DEF P!ShareInjected, P!TypeOK, MadeInv, P!Interjection
<1>5. PICK j : j = [i EXCEPT !.stage = "posting"]
  OBVIOUS
<1>6. j \in P!Interjection /\ j.m = i.m
  BY <1>4, <1>5 DEF P!Interjection
<1>7. /\ delivered' = [q \in Resident |-> delivered[q] \cup {i.m}]
      /\ \/ posted' = (posted \ {i}) \cup {j} /\ cut' = cut
         \/ posted' = posted \ {i} /\ cut' = cut \cup {i.m}
      /\ UNCHANGED <<memory, known, writer, number, marked, speaking, hub, sidecarCrashes, removed>>
  BY <1>5 DEF P!ShareInjected
<1>8. conv' \in P!Conv /\ conv'.turn = conv.turn /\ conv'.history = conv.history /\ conv'.last = conv.last
  BY <1>3, <1>4 DEF P!ShareInjected, P!Conv
<1>9. delivered' \in [Resident -> SUBSET P!Message] /\ \A q \in Resident : delivered'[q] = delivered[q] \cup {i.m}
  BY <1>1, <1>4, <1>7 DEF P!TypeOK
<1>10. P!TypeOK'
  BY <1>1, <1>4, <1>6, <1>7, <1>8, <1>9 DEF P!TypeOK
<1>11. P!Made' = P!Made /\ Count' = Count
  BY <1>7 DEF P!Made, Count
<1>12. P!Pending' = P!Pending
  <2>1. {k.m : k \in posted'} \cup cut' = {k.m : k \in posted} \cup cut
    BY <1>6, <1>7
  <2> QED BY <1>7, <2>1 DEF P!Pending
<1>13. MadeInv'
  <2>1. \A k \in posted' : k.m \in P!Made /\ writer[k.m] = User
    BY <1>1, <1>4, <1>6, <1>7 DEF MadeInv
  <2>2. \A q \in Resident : delivered'[q] \subseteq P!Made
    BY <1>1, <1>4, <1>9 DEF MadeInv
  <2> QED BY <1>1, <1>2, <1>7, <1>11, <2>1, <2>2 DEF MadeInv
<1>14. SharedInv'
  <2>1. ASSUME NEW k \in posted', k.stage = "posting", NEW q \in Resident PROVE k.m \in delivered'[q]
    <3>1. k.m = i.m \/ k \in posted
      BY <1>6, <1>7
    <3> QED BY <1>1, <1>9, <2>1, <3>1 DEF SharedInv, P!InAll
  <2> QED BY <1>1, <1>7, <1>9, <2>1, SpeakingIs DEF SharedInv, P!InAll
<1>15. Entries(conv') = Entries(conv) /\ Entries(conv)' = Entries(conv)
  BY <1>8 DEF Entries
<1>16. SettledInv' /\ Agrees(conv)'
  <2>1. i.m \in P!Pending
    BY <1>1, <1>4, P2PTypes DEF P!Pending
  <2> QED BY <1>1, <1>2, <1>3, <1>7, <1>9, <1>11, <1>12, <1>13, <1>15, <2>1, SettledStep
<1>17. \A m \in P!Made : writer[m] \in Resident => (m \in delivered'[First] <=> m \in delivered[First])
  BY <1>4, <1>9, P2PConstants
<1>18. RepeatInv'
  <2>1. Cardinality(Resident) > 1 /\ speaking.stage = "asking" =>
          (Count \in P!Made /\ writer[Count] = speaking.q => Count \notin delivered'[First])
    BY <1>1, <1>17, SpeakingIs DEF RepeatInv, P!NoTurn
  <2> QED BY <1>1, <1>7, <1>11, <1>17, <2>1, RepeatKept
<1>19. OthersSpeak(conv)'
  <2>1. Cardinality(Resident) > 1 =>
          /\ Count \in delivered[First] \ {speaking.m} /\ writer[Count] \in Resident =>
               conv.last = writer[Count]
          /\ Entries(conv) \cap marked = {}
    BY <1>3 DEF OthersSpeak
  <2>2. Count \in delivered'[First] => Count \in P!Made
    BY <1>11, <1>13, P2PConstants DEF MadeInv
  <2>3. Cardinality(Resident) > 1 =>
          /\ Count' \in delivered'[First] \ {speaking'.m} /\ writer'[Count'] \in Resident =>
               conv.last = writer'[Count']
          /\ speaking'.m \notin Entries(conv) /\ Entries(conv) \cap marked' = {}
    BY <1>3, <1>7, <1>11, <1>17, <2>1, <2>2 DEF OthersSpeak
  <2>4. ASSUME Cardinality(Resident) > 1, conv.history # <<>>, speaking # P!NoTurn,
               writer[conv.history[Len(conv.history)]] = speaking.q
        PROVE  \E b \in P!Made' : /\ conv.history[Len(conv.history)] < b
                                  /\ b < IF speaking'.m = 0 THEN Count' + 1 ELSE speaking'.m
    BY <1>3, <1>7, <1>11, <2>4 DEF OthersSpeak, MadeBetween
  <2> QED BY <1>1, <1>3, <1>7, <1>8, <1>10, <1>11, <1>13, <2>3, <2>4, OthersSpeakKept
<1> QED BY <1>3, <1>8, <1>10, <1>11, <1>13, <1>14, <1>15, <1>16, <1>18, <1>19 DEF P2PInv, Sound

LEMMA P2PCrash ==
  ASSUME P2PInv, P!Crash
  PROVE  P2PInv'
<1>1. P!TypeOK /\ MadeInv /\ SharedInv /\ SettledInv /\ RepeatInv
  BY DEF P2PInv
<1>2. /\ memory' = FALSE /\ conv' = P!Blank /\ speaking' = P!NoTurn /\ speaking'.m = 0
      /\ speaking'.stage = "none" /\ posted' = {} /\ sidecarCrashes < MaxCrashes
      /\ cut' = cut \cup ({speaking.m} \ {0}) \cup {i.m : i \in posted}
      /\ sidecarCrashes' = sidecarCrashes + 1
      /\ UNCHANGED <<known, writer, number, delivered, marked, hub, removed>>
  BY DEF P!Crash, P!blocks, P!NoTurn
<1>3. P!Made' = P!Made /\ Count' = Count
  BY <1>2 DEF P!Made, Count
<1>4. P!Pending' = P!Pending
  BY <1>2 DEF P!Pending
<1>5. 0 \notin P!Made /\ P!Message \subseteq Nat
  BY <1>1, P2PTypes
<1>6. P!TypeOK'
  <2>1. conv' \in P!Conv
    BY <1>2, P2PConstants DEF P!Blank, P!Conv, P!Scope
  <2>2. cut' \subseteq P!Message
    BY <1>1, <1>2 DEF P!TypeOK, P!Turn, P!NoTurn, P!Interjection
  <2>3. sidecarCrashes' \in 0 .. MaxCrashes
    BY <1>1, <1>2, P2PConstants DEF P!TypeOK
  <2> QED BY <1>1, <1>2, <2>1, <2>2, <2>3 DEF P!TypeOK
<1>7. MadeInv'
  <2>1. \A k \in marked : k \in P!Made /\ writer[k] \in Resident /\ k \in cut'
    BY <1>1, <1>2, <1>5 DEF MadeInv
  <2> QED BY <1>1, <1>2, <1>3, <2>1 DEF MadeInv
<1>8. SharedInv'
  BY <1>2 DEF SharedInv
<1>9. SettledInv'
  BY <1>1, <1>2, <1>3, <1>4 DEF SettledInv, P!InAll
<1>10. RepeatInv'
  BY <1>1, <1>2, <1>3, RepeatKept
<1> QED BY <1>2, <1>6, <1>7, <1>8, <1>9, <1>10 DEF P2PInv

\* An entry more.
LEMMA AppendTyped ==
  ASSUME NEW c \in P!Conv, NEW m \in P!Message
  PROVE  /\ [c EXCEPT !.history = Append(@, m)] \in P!Conv
         /\ [c EXCEPT !.history = Append(@, m)].history = Append(c.history, m)
         /\ [c EXCEPT !.history = Append(@, m)].turn = c.turn
         /\ [c EXCEPT !.history = Append(@, m)].last = c.last
<1>1. c.history \in Seq(P!Message)
  BY DEF P!Conv
<1>2. Append(c.history, m) \in Seq(P!Message)
  BY <1>1
<1> QED BY <1>2 DEF P!Conv

LEMMA P2PPostedInjected ==
  ASSUME P2PInv, NEW i \in posted, P!PostedInjected(i)
  PROVE  P2PInv'
<1>1. P!TypeOK /\ MadeInv /\ SharedInv /\ SettledInv /\ RepeatInv
  BY DEF P2PInv
<1>2. memory /\ Sound(conv)
  BY InMemory
<1>3. /\ conv \in P!Conv /\ conv.turn <= Count /\ Entries(conv) \subseteq P!Made
      /\ OthersSpeak(conv) /\ Agrees(conv) /\ 0 \notin Entries(conv)
  BY <1>1, <1>2, SoundIs
<1>4. /\ i.stage = "posting" /\ i.m \in P!Made /\ writer[i.m] = User
      /\ i.m \in P!Message /\ P!InAll(i.m) /\ i.m # 0
  BY <1>1, P2PTypes DEF P!PostedInjected, P!TypeOK, MadeInv, P!Interjection, SharedInv
<1>5. PICK c : c = [conv EXCEPT !.history = Append(@, i.m)]
  OBVIOUS
<1>6. c \in P!Conv /\ c.history = Append(conv.history, i.m) /\ c.turn = conv.turn /\ c.last = conv.last
  BY <1>3, <1>4, <1>5, AppendTyped
<1>7. /\ posted' = posted \ {i} /\ hub' \subseteq hub \cup {i.m}
      /\ IF speaking = P!NoTurn THEN P!BeginTurn(c) ELSE conv' = c /\ UNCHANGED speaking
      /\ UNCHANGED <<memory, known, writer, number, delivered, marked, sidecarCrashes, removed, cut>>
  BY <1>5 DEF P!PostedInjected, P!blocks, P!past
<1>8. /\ conv' \in P!Conv /\ conv'.turn = conv.turn /\ conv'.history = Append(conv.history, i.m)
      /\ conv'.last = conv.last
      /\ \/ speaking # P!NoTurn /\ speaking' = speaking
         \/ /\ speaking = P!NoTurn /\ speaking' \in P!Turn /\ speaking' # P!NoTurn
            /\ speaking'.m = 0 /\ speaking'.stage = "asking" /\ speaking'.q \in Resident
            /\ Cardinality(Resident) > 1 => speaking'.q # conv.last
  BY <1>6, <1>7, TurnBegins
<1>9. speaking = P!NoTurn => speaking.m = 0 /\ speaking.stage = "none"
  BY DEF P!NoTurn
<1>10. P!TypeOK'
  BY <1>1, <1>4, <1>7, <1>8 DEF P!TypeOK
<1>11. P!Made' = P!Made /\ Count' = Count
  BY <1>7 DEF P!Made, Count
<1>12. speaking'.m = speaking.m /\ speaking'.q \in Resident /\ speaking' # P!NoTurn
  BY <1>1, <1>8, <1>9, SpeakingIs
<1>13. MadeInv'
  BY <1>1, <1>2, <1>4, <1>7, <1>8, <1>9, <1>11 DEF MadeInv
<1>14. SharedInv'
  BY <1>1, <1>7, <1>8 DEF SharedInv, P!InAll
<1>15. i.m \notin marked /\ speaking.m # i.m /\ (posted = {} => FALSE)
  BY <1>1, <1>4, P2PConstants, SpeakingIs DEF MadeInv
<1>16. OthersSpeak(conv)' /\ Entries(conv') = Entries(conv) \cup {i.m}
  <2>1. Cardinality(Resident) > 1 =>
          /\ Count \in delivered[First] \ {speaking.m} /\ writer[Count] \in Resident =>
               conv.last = writer[Count]
          /\ speaking.m \notin Entries(conv) /\ Entries(conv) \cap marked = {}
    BY <1>3, <1>15 DEF OthersSpeak
  <2> QED BY <1>1, <1>3, <1>4, <1>7, <1>8, <1>10, <1>11, <1>12, <1>13, <1>15, <2>1,
             P2PConstants, OthersSpeakAppend
<1>17. SettledInv' /\ Agrees(conv)'
  <2>1. ASSUME NEW m \in P!Made' \ P!Pending', m # i.m
        PROVE  /\ m \in P!Made \ P!Pending /\ (m \in hub' => m \in hub)
               /\ m \in Entries(conv') <=> m \in Entries(conv)
    BY <1>7, <1>11, <1>12, <1>16, <2>1 DEF P!Pending
  <2>2. i.m \in Entries(conv') /\ \A q \in Resident : i.m \in delivered'[q]
    BY <1>4, <1>7, <1>16 DEF P!InAll
  <2>3. Entries(conv') \subseteq P!Made'
    BY <1>3, <1>4, <1>11, <1>16
  <2>4. \A m \in P!Made' \ P!Pending' :
           \/ /\ m \in P!Made \ P!Pending /\ (m \in hub' => m \in hub)
              /\ \A q \in Resident : m \in delivered'[q] <=> m \in delivered[q]
              /\ m \in Entries(conv') <=> m \in Entries(conv)
           \/ /\ \A q \in Resident : m \in delivered'[q]
              /\ m \in Entries(conv')
    BY <1>7, <2>1, <2>2
  <2> QED BY <1>1, <1>2, <1>3, <1>7, <1>13, <2>3, <2>4, SettledStep
<1>18. RepeatInv'
  <2>1. ASSUME Cardinality(Resident) > 1, speaking'.stage = "asking", Count \in P!Made,
               writer[Count] = speaking'.q, Count \in delivered[First]
        PROVE  FALSE
    <3>1. CASE speaking # P!NoTurn
      BY <1>1, <1>8, <2>1, <3>1 DEF RepeatInv
    <3>2. CASE speaking = P!NoTurn
      <4>1. Count # 0
        BY <1>1, <2>1, P2PTypes
      <4> QED BY <1>3, <1>8, <1>9, <1>12, <2>1, <3>2, <4>1 DEF OthersSpeak
    <3> QED BY <3>1, <3>2
  <2> QED BY <1>1, <1>7, <1>11, <1>12, <2>1, RepeatKept
<1>19. Entries(conv)' = Entries(conv')
  BY DEF Entries
<1> QED BY <1>3, <1>4, <1>8, <1>10, <1>11, <1>13, <1>14, <1>16, <1>17, <1>18, <1>19 DEF P2PInv, Sound

LEMMA P2PRemoteBlock ==
  ASSUME P2PInv, P!RemoteBlock
  PROVE  P2PInv'
<1>1. P!TypeOK /\ MadeInv /\ SharedInv /\ SettledInv /\ RepeatInv
  BY DEF P2PInv
<1>2. PICK c : c = P!Opened
  OBVIOUS
<1>3. Sound(c) /\ (memory => c = conv)
  BY <1>2, OpenedSound DEF P!Opened
<1>4. /\ c \in P!Conv /\ c.turn \in Nat /\ c.turn <= Count /\ Entries(c) \subseteq P!Made
      /\ OthersSpeak(c) /\ Agrees(c) /\ 0 \notin Entries(c) /\ c.history \in Seq(P!Message)
  BY <1>1, <1>3, SoundIs
<1>5. PICK m \in P!Message, n \in 1 .. c.turn + 1 :
        /\ P!Makes(m, Remote, n)
        /\ delivered' = [q \in Resident |-> delivered[q] \cup {m}]
        /\ conv' = [c EXCEPT !.history = Append(@, m), !.turn = P!Max({@, n}), !.last = Remote]
  BY <1>2 DEF P!RemoteBlock
<1>6. /\ memory'
      /\ UNCHANGED <<known, marked, speaking, posted, hub, sidecarCrashes, removed, cut>>
  BY DEF P!RemoteBlock, P!past
<1>7. /\ Count \in Nat /\ P!Made = 1 .. Count /\ P!Made \subseteq P!Message
      /\ P!Message \subseteq Nat \ {0}
  BY <1>1, P2PTypes
<1>8. n \in Nat /\ n <= Count + 1
  BY <1>4, <1>7
<1>9. /\ Count < MaxNumber /\ m = Count + 1 /\ m \notin P!Made
      /\ P!Made' = P!Made \cup {m} /\ Count' = m /\ P!Made' = 1 .. Count'
      /\ writer' \in [P!Message -> Resident \cup {User, Remote, Nobody}]
      /\ writer'[m] = Remote /\ \A k \in P!Message : k # m => writer'[k] = writer[k]
      /\ number' \in [P!Message -> 0 .. MaxNumber] /\ \A k \in P!Message : number'[k] <= Count'
      /\ n \in 0 .. MaxNumber
  BY <1>1, <1>5, <1>8, MakesStep
<1>10. P!Max({c.turn, n}) \in {c.turn, n}
  <2>1. {c.turn, n} \in SUBSET Nat /\ {c.turn, n} # {} /\ \A k \in {c.turn, n} : k <= Count + 1
    BY <1>4, <1>7, <1>8
  <2>2. Count + 1 \in Nat
    BY <1>7
  <2> QED BY <2>1, <2>2, GreatestIs
<1>11. /\ conv' \in P!Conv /\ conv'.turn <= Count' /\ conv'.last = Remote
       /\ conv'.history = Append(c.history, m)
  <2>1. P!Max({c.turn, n}) \in 0 .. MaxNumber /\ P!Max({c.turn, n}) <= Count'
    BY <1>4, <1>7, <1>8, <1>9, <1>10 DEF P!Conv
  <2>2. Append(c.history, m) \in Seq(P!Message)
    BY <1>4
  <2> HIDE DEF P!Max
  <2> QED BY <1>4, <1>5, <2>1, <2>2 DEF P!Conv
<1>12. delivered' \in [Resident -> SUBSET P!Message] /\ \A q \in Resident : delivered'[q] = delivered[q] \cup {m}
  BY <1>1, <1>5 DEF P!TypeOK
<1>13. P!TypeOK'
  BY <1>1, <1>6, <1>9, <1>11, <1>12 DEF P!TypeOK
<1>14. \A k \in P!Made : writer'[k] = writer[k]
  BY <1>7, <1>9
<1>15. MadeInv'
  <2>1. /\ marked' \subseteq P!Made' /\ hub' \subseteq P!Made'
        /\ \A q \in Resident : delivered'[q] \subseteq P!Made'
    BY <1>1, <1>6, <1>9, <1>12 DEF MadeInv
  <2>2. \A k \in marked : writer'[k] \in Resident /\ k \in {speaking.m} \cup cut
    BY <1>1, <1>14 DEF MadeInv
  <2>3. \A i \in posted : i.m \in P!Made' /\ writer'[i.m] = User
    BY <1>1, <1>9, <1>14 DEF MadeInv
  <2>4. speaking.stage \in {"signing", "posting"} => speaking.m \in P!Made' /\ writer'[speaking.m] = speaking.q
    BY <1>1, <1>9, <1>14 DEF MadeInv
  <2>5. speaking.stage \in {"none", "asking"} => speaking.m = 0
    BY <1>1 DEF MadeInv
  <2> QED BY <1>6, <1>9, <2>1, <2>2, <2>3, <2>4, <2>5 DEF MadeInv
<1>16. SharedInv'
  BY <1>1, <1>6, <1>12, SpeakingIs DEF SharedInv, P!InAll
<1>17. P!Pending' = P!Pending
  BY <1>6 DEF P!Pending
<1>18. /\ \A k \in P!Made : k < m
       /\ speaking.m # m /\ m \notin marked /\ (speaking # P!NoTurn => speaking.q # Remote)
  BY <1>1, <1>7, <1>9, P2PConstants, SpeakingIs DEF MadeInv
<1>19. OthersSpeak(conv)' /\ Entries(conv') = Entries(c) \cup {m}
  <2>1. Cardinality(Resident) > 1 =>
          /\ speaking.m \notin Entries(c)
          /\ \A k \in Entries(c) \cap marked : posted = {} /\ (speaking.m # 0 => k < speaking.m)
    BY <1>4 DEF OthersSpeak
  <2>2. writer'[m] \notin Resident /\ writer'[Count'] \notin Resident /\ m \in P!Made' /\ P!Made \subseteq P!Made'
    BY <1>9, P2PConstants
  <2> QED BY <1>1, <1>4, <1>6, <1>9, <1>11, <1>13, <1>14, <1>15, <1>18, <2>1, <2>2, OthersSpeakAppend
<1>20. SettledInv' /\ Agrees(conv)'
  <2>1. \A k \in P!Made' \ P!Pending' :
           \/ /\ k \in P!Made \ P!Pending /\ (k \in hub' => k \in hub)
              /\ \A q \in Resident : k \in delivered'[q] <=> k \in delivered[q]
              /\ k \in Entries(conv') <=> k \in Entries(c)
           \/ /\ \A q \in Resident : k \in delivered'[q]
              /\ k \in Entries(conv')
    BY <1>6, <1>9, <1>12, <1>17, <1>19
  <2>2. Entries(conv') \subseteq P!Made'
    BY <1>4, <1>9, <1>19
  <2> QED BY <1>1, <1>4, <1>6, <1>14, <1>15, <2>1, <2>2, SettledStep
<1>21. RepeatInv'
  <2>1. \A k \in P!Made' : writer'[k] \in Resident =>
          k \in P!Made /\ (k \in delivered'[First] => k \in delivered[First])
    BY <1>9, <1>12, P2PConstants
  <2>2. speaking.stage = "asking" => speaking.q \in Resident
    BY <1>1, SpeakingIs DEF P!NoTurn
  <2> QED BY <1>1, <1>6, <1>9, <1>14, <2>1, <2>2, P2PConstants, RepeatKept
<1>22. Entries(conv)' = Entries(conv') /\ Entries(conv') \subseteq P!Made'
  <2>1. Entries(conv)' = Entries(conv')
    BY DEF Entries
  <2> QED BY <1>4, <1>9, <1>19, <2>1
<1> QED BY <1>11, <1>13, <1>15, <1>16, <1>19, <1>20, <1>21, <1>22 DEF P2PInv, Sound

LEMMA P2PInject ==
  ASSUME P2PInv, NEW c, Sound(c), memory => c = conv, NEW m \in P!Message, NEW n \in Nat,
         n <= Count + 1, P!Inject(m, c, n)
  PROVE  P2PInv'
<1>1. P!TypeOK /\ MadeInv /\ SharedInv /\ SettledInv /\ RepeatInv
  BY DEF P2PInv
<1>2. /\ c \in P!Conv /\ c.turn \in Nat /\ Entries(c) \subseteq P!Made
      /\ OthersSpeak(c) /\ Agrees(c) /\ 0 \notin Entries(c)
  BY <1>1, SoundIs
<1>3. PICK i : i = [m |-> m, stage |-> "signing", inner |-> c.scope]
  OBVIOUS
<1>4. /\ P!Makes(m, User, n)
      /\ delivered' = [q \in Resident |-> (delivered[q] \ marked)
                         \cup IF marked = {} /\ q = First THEN {m} ELSE {}]
      /\ marked' = {} /\ removed' = removed \cup (marked \cap {speaking.m})
      /\ conv' = [c EXCEPT !.turn = n, !.history = P!Without(@, marked), !.scope = "local"]
      /\ posted' = posted \cup {i} /\ memory'
      /\ UNCHANGED <<known, speaking, hub, sidecarCrashes, cut>>
  BY <1>3 DEF P!Inject
<1>5. /\ Count \in Nat /\ P!Made = 1 .. Count /\ P!Made \subseteq P!Message
      /\ P!Message \subseteq Nat \ {0}
  BY <1>1, P2PTypes
<1>6. /\ Count < MaxNumber /\ m = Count + 1 /\ m \notin P!Made
      /\ P!Made' = P!Made \cup {m} /\ Count' = m /\ P!Made' = 1 .. Count'
      /\ writer' \in [P!Message -> Resident \cup {User, Remote, Nobody}]
      /\ writer'[m] = User /\ \A k \in P!Message : k # m => writer'[k] = writer[k]
      /\ number' \in [P!Message -> 0 .. MaxNumber] /\ \A k \in P!Message : number'[k] <= Count'
      /\ n \in 0 .. MaxNumber
  BY <1>1, <1>4, MakesStep
<1>7. /\ i \in P!Interjection /\ i.m = m /\ i.stage = "signing"
  BY <1>2, <1>3 DEF P!Interjection, P!Conv
<1>8. PICK hs : hs = P!Without(c.history, marked)
  OBVIOUS
<1>9. hs \in Seq(P!Message)
  <2>1. c.history \in Seq(P!Message)
    BY <1>2 DEF P!Conv
  <2>2. P!Without(c.history, marked) = Filtered(c.history, marked)
    BY Zenon DEF P!Without, Filtered
  <2>3. PICK h, gone : h = c.history /\ gone = marked
    OBVIOUS
  <2>4. Filtered(h, gone) \in Seq(P!Message)
    BY <2>1, <2>3, FilterEmbeds
  <2> QED BY <1>8, <2>2, <2>3, <2>4
<1>10. /\ conv' \in P!Conv /\ conv'.turn = n /\ conv'.history = P!Without(c.history, marked)
       /\ conv'.last = c.last
  <2>1. conv' = [c EXCEPT !.turn = n, !.history = hs, !.scope = "local"]
    BY <1>4, <1>8
  <2> QED BY <1>2, <1>6, <1>8, <1>9, <2>1 DEF P!Conv, P!Scope
<1>11. /\ delivered' \in [Resident -> SUBSET P!Message]
       /\ \A q \in Resident : \A k : k # m => (k \in delivered'[q] <=> k \in delivered[q] \ marked)
       /\ \A q \in Resident : delivered'[q] \subseteq delivered[q] \cup {m}
  BY <1>1, <1>4 DEF P!TypeOK
<1>12. P!TypeOK'
  <2>1. removed' \subseteq P!Message /\ marked' \subseteq P!Message
    BY <1>1, <1>4 DEF P!TypeOK
  <2> QED BY <1>1, <1>4, <1>6, <1>7, <1>10, <1>11, <2>1 DEF P!TypeOK
<1>13. \A k \in P!Made : writer'[k] = writer[k]
  BY <1>5, <1>6
<1>14. MadeInv'
  <2>1. marked' = {} /\ hub' \subseteq P!Made' /\ \A q \in Resident : delivered'[q] \subseteq P!Made'
    BY <1>1, <1>4, <1>6, <1>11 DEF MadeInv
  <2>2. \A k \in posted' : k.m \in P!Made' /\ writer'[k.m] = User
    BY <1>1, <1>4, <1>6, <1>7, <1>13 DEF MadeInv
  <2>3. speaking.stage \in {"signing", "posting"} => speaking.m \in P!Made' /\ writer'[speaking.m] = speaking.q
    BY <1>1, <1>6, <1>13 DEF MadeInv
  <2>4. speaking.stage \in {"none", "asking"} => speaking.m = 0
    BY <1>1 DEF MadeInv
  <2> QED BY <1>4, <1>6, <2>1, <2>2, <2>3, <2>4 DEF MadeInv
<1>15. SharedInv'
  <2>1. speaking.m # m
    BY <1>1, <1>5, <1>6, SpeakingIs DEF MadeInv
  <2>2. speaking.m \notin removed' => speaking.m \notin removed /\ speaking.m \notin marked
    BY <1>4
  <2>3. speaking.stage = "signing" /\ speaking.m \notin removed' => speaking.m \in delivered'[speaking.q]
    <3>1. speaking.stage = "signing" => speaking.q \in Resident
      BY <1>1, SpeakingIs DEF P!NoTurn
    <3> QED BY <1>1, <1>11, <2>1, <2>2, <3>1 DEF SharedInv
  <2>4. speaking.stage = "posting" /\ speaking.m \notin removed' =>
          \A q \in Resident : speaking.m \in delivered'[q]
    BY <1>1, <1>11, <2>1, <2>2 DEF SharedInv, P!InAll
  <2>5. ASSUME NEW k \in posted', k.stage = "posting", NEW q \in Resident PROVE k.m \in delivered'[q]
    <3>1. k \in posted
      BY <1>4, <1>7, <2>5
    <3>2. k.m \notin marked /\ k.m # m /\ k.m \in delivered[q]
      BY <1>1, <1>6, <2>5, <3>1, P2PConstants DEF MadeInv, SharedInv, P!InAll
    <3> QED BY <1>11, <3>2
  <2> QED BY <1>4, <2>3, <2>4, <2>5 DEF SharedInv, P!InAll
<1>16. P!Pending' = P!Pending \cup {m} /\ marked \subseteq P!Pending
  <2>1. {k.m : k \in posted'} = {k.m : k \in posted} \cup {m} /\ m # 0
    BY <1>4, <1>5, <1>6, <1>7
  <2>2. marked \subseteq ({speaking.m} \cup cut) \ {0}
    BY <1>1, <1>5 DEF MadeInv
  <2> QED BY <1>4, <2>1, <2>2 DEF P!Pending
<1>17. OthersSpeak(conv)' /\ Entries(conv') = Entries(c) \ marked
  <2>1. Count' = Count + 1 /\ writer'[Count'] \notin Resident /\ P!Made \subseteq P!Made'
    BY <1>6, P2PConstants
  <2> QED BY <1>1, <1>2, <1>4, <1>10, <1>12, <1>13, <1>14, <2>1, OthersSpeakFilter
<1>18. SettledInv' /\ Agrees(conv)'
  <2>1. \A k \in P!Made' \ P!Pending' :
          /\ k \in P!Made \ P!Pending /\ (k \in hub' => k \in hub)
          /\ \A q \in Resident : k \in delivered'[q] <=> k \in delivered[q]
          /\ k \in Entries(conv') <=> k \in Entries(c)
    BY <1>4, <1>6, <1>11, <1>16, <1>17
  <2>2. Entries(conv') \subseteq P!Made'
    BY <1>2, <1>6, <1>17
  <2> QED BY <1>1, <1>2, <1>4, <1>13, <1>14, <2>1, <2>2, SettledStep
<1>19. RepeatInv'
  <2>1. \A k \in P!Made' : writer'[k] \in Resident =>
          k \in P!Made /\ (k \in delivered'[First] => k \in delivered[First])
    BY <1>6, <1>11, P2PConstants
  <2>2. speaking.stage = "asking" => speaking.q \in Resident
    BY <1>1, SpeakingIs DEF P!NoTurn
  <2> QED BY <1>1, <1>4, <1>6, <1>13, <2>1, <2>2, P2PConstants, RepeatKept
<1>20. Entries(conv)' = Entries(conv') /\ Entries(conv') \subseteq P!Made'
  <2>1. Entries(conv)' = Entries(conv')
    BY DEF Entries
  <2> QED BY <1>2, <1>6, <1>17, <2>1
<1> QED BY <1>6, <1>10, <1>12, <1>14, <1>15, <1>17, <1>18, <1>19, <1>20 DEF P2PInv, Sound

LEMMA P2PStart ==
  ASSUME P2PInv, P!Start
  PROVE  P2PInv'
<1>1. Sound(conv) /\ P!Inject(1, conv, 0)
  BY BlankSound DEF P!Start
<1>2. P!TypeOK /\ MadeInv
  BY DEF P2PInv
<1>3. Count \in Nat /\ 0 <= Count + 1
  BY <1>2, P2PTypes
<1>4. 1 \in P!Message
  <2>1. P!Makes(1, User, 0)
    BY <1>1 DEF P!Inject
  <2> QED BY <1>2, <1>3, <2>1, MakesStep
<1> QED BY <1>1, <1>3, <1>4, P2PInject

LEMMA P2PInjectUserMessage ==
  ASSUME P2PInv, P!InjectUserMessage
  PROVE  P2PInv'
<1>1. PICK c : c = P!Opened
  OBVIOUS
<1>2. Sound(c) /\ (memory => c = conv)
  BY <1>1, OpenedSound DEF P!Opened
<1>3. P!TypeOK /\ MadeInv
  BY DEF P2PInv
<1>4. c.turn + 1 \in Nat /\ c.turn + 1 <= Count + 1
  <2>1. Count \in Nat /\ c.turn \in Nat /\ c.turn <= Count
    BY <1>2, <1>3, P2PTypes, SoundIs
  <2> QED BY <2>1
<1>5. \E m \in P!Message : P!Inject(m, c, c.turn + 1)
  BY <1>1 DEF P!InjectUserMessage
<1> QED BY <1>2, <1>4, <1>5, P2PInject

\* After the response in turn nothing by a Qube was made, and of it and the message
\* before only one is in the first session, also when it is put there.
LEMMA RepeatShared ==
  ASSUME P!TypeOK, MadeInv, RepeatInv, speaking.m # 0,
         P!Made' = P!Made, Count' = Count, writer' = writer,
         speaking'.m \in {speaking.m, 0}, speaking'.stage # "asking",
         \A m \in P!Made : m # speaking.m /\ m \in delivered'[First] => m \in delivered[First]
  PROVE  RepeatInv'
<1> SUFFICES ASSUME Cardinality(Resident) > 1 PROVE RepeatInv'
  BY DEF RepeatInv
<1>1. P!Made \subseteq Nat \ {0} /\ speaking.m \in P!Message /\ P!Message \subseteq Nat
  BY P2PTypes, SpeakingIs
<1>2. ASSUME NEW m \in P!Made, m + 1 \in P!Made, writer[m] \in Resident,
             writer[m + 1] = writer[m], m \in delivered'[First]
      PROVE  m + 1 \notin delivered'[First] \cup {speaking'.m}
  <2>1. m # speaking.m
    <3>1. m + 1 > m
      BY <1>1
    <3> QED BY <1>2, <3>1 DEF RepeatInv
  <2>2. m + 1 \notin delivered[First] \cup {speaking.m}
    BY <1>2, <2>1 DEF RepeatInv
  <2>3. m + 1 # 0
    BY <1>1, <1>2
  <2> QED BY <1>2, <2>2, <2>3
<1>3. ASSUME speaking'.m # 0, NEW k \in P!Made, k > speaking'.m PROVE writer[k] \notin Resident
  BY <1>3 DEF RepeatInv
<1> QED BY <1>2, <1>3 DEF RepeatInv

\* A turn ends with its response in the history.
LEMMA TurnEnds ==
  ASSUME P2PInv, speaking.stage \in {"signing", "posting"},
         speaking' = P!NoTurn, marked' = marked \ {speaking.m}, hub' \subseteq hub \cup {speaking.m},
         known' \in BOOLEAN, delivered' \in [Resident -> SUBSET P!Message],
         \A q \in Resident : /\ delivered[q] \subseteq delivered'[q]
                             /\ delivered'[q] \subseteq delivered[q] \cup {speaking.m},
         speaking.m \notin removed => \A q \in Resident : speaking.m \in delivered'[q],
         conv' = [conv EXCEPT !.scope = speaking.saved, !.last = speaking.q,
                              !.history = Append(@, speaking.m)],
         UNCHANGED <<memory, writer, number, posted, sidecarCrashes, removed, cut>>
  PROVE  P2PInv'
<1>1. P!TypeOK /\ MadeInv /\ SharedInv /\ SettledInv /\ RepeatInv
  BY DEF P2PInv
<1>2. PICK m : m = speaking.m
  OBVIOUS
<1>3. /\ speaking # P!NoTurn /\ speaking \in P!Turn /\ speaking.q \in Resident
      /\ m \in P!Made /\ m \in P!Message /\ m # 0 /\ writer[m] = speaking.q
  BY <1>1, <1>2, SpeakingIs, P2PTypes DEF MadeInv, P!NoTurn
<1>4. memory /\ Sound(conv)
  BY <1>3, InMemory
<1>5. /\ conv \in P!Conv /\ conv.turn <= Count /\ Entries(conv) \subseteq P!Made
      /\ OthersSpeak(conv) /\ Agrees(conv) /\ 0 \notin Entries(conv) /\ conv.history \in Seq(P!Message)
  BY <1>1, <1>4, SoundIs
<1>6. /\ conv' \in P!Conv /\ conv'.turn = conv.turn /\ conv'.last = speaking.q
      /\ conv'.history = Append(conv.history, m)
  <2>1. Append(conv.history, m) \in Seq(P!Message)
    BY <1>3, <1>5
  <2> QED BY <1>2, <1>3, <1>5, <2>1 DEF P!Conv, P!Turn
<1>7. speaking'.m = 0 /\ speaking'.stage = "none" /\ speaking' = P!NoTurn
  BY DEF P!NoTurn
<1>8. P!TypeOK'
  BY <1>1, <1>2, <1>3, <1>6 DEF P!TypeOK
<1>9. P!Made' = P!Made /\ Count' = Count
  BY DEF P!Made, Count
<1>10. MadeInv'
  <2>1. /\ marked' \subseteq P!Made /\ hub' \subseteq P!Made
        /\ \A q \in Resident : delivered'[q] \subseteq P!Made
    BY <1>1, <1>2, <1>3 DEF MadeInv
  <2>2. \A k \in marked' : writer[k] \in Resident /\ k \in cut
    BY <1>1 DEF MadeInv
  <2> QED BY <1>1, <1>4, <1>7, <1>9, <2>1, <2>2 DEF MadeInv
<1>11. SharedInv'
  BY <1>1, <1>7 DEF SharedInv, P!InAll
<1>12. OthersSpeak(conv)' /\ Entries(conv') = Entries(conv) \cup {m}
  <2>1. ASSUME Cardinality(Resident) > 1
        PROVE  /\ conv.history # <<>> /\ writer[m] = writer[conv.history[Len(conv.history)]] =>
                    MadeBetween(conv.history[Len(conv.history)], m)
               /\ m \notin Entries(conv)
               /\ \A k \in Entries(conv) \cap marked : posted = {} /\ k < m
    BY <1>2, <1>3, <1>5, <2>1 DEF OthersSpeak
  <2>2. ASSUME Cardinality(Resident) > 1, Count \in delivered'[First], writer[Count] \in Resident
        PROVE  writer[Count] = speaking.q
    <3>1. Count \in P!Made /\ Count \in 1 .. Count /\ m \in 1 .. Count /\ Count \in Nat
      BY <1>1, <1>3, <1>9, <1>10, <2>2, P2PConstants, P2PTypes DEF MadeInv
    <3>2. Count = m \/ Count > m
      BY <3>1
    <3> QED BY <1>1, <1>2, <1>3, <2>2, <3>1, <3>2 DEF RepeatInv
  <2>3. m \notin marked' /\ P!Made \subseteq P!Made' /\ m \in P!Made'
    BY <1>2, <1>3, <1>9
  <2> QED BY <1>1, <1>3, <1>5, <1>6, <1>7, <1>8, <1>9, <1>10, <2>1, <2>2, <2>3, OthersSpeakAppend
<1>13. SettledInv' /\ Agrees(conv)'
  <2>1. P!Pending \subseteq P!Pending' \cup {m} /\ (m \in P!Pending' \/ m \notin removed)
    BY <1>2, <1>3, <1>7 DEF P!Pending
  <2>2. \A k \in P!Made' \ P!Pending' :
           \/ /\ k \in P!Made \ P!Pending /\ (k \in hub' => k \in hub)
              /\ \A q \in Resident : k \in delivered'[q] <=> k \in delivered[q]
              /\ k \in Entries(conv') <=> k \in Entries(conv)
           \/ /\ \A q \in Resident : k \in delivered'[q]
              /\ k \in Entries(conv')
    <3> TAKE k \in P!Made' \ P!Pending'
    <3>1. CASE k = m
      BY <1>2, <1>12, <2>1, <3>1
    <3>2. CASE k # m
      <4>1. k \in P!Made \ P!Pending /\ (k \in hub' => k \in hub)
        BY <1>2, <1>9, <2>1, <3>2
      <4>2. \A q \in Resident : k \in delivered'[q] <=> k \in delivered[q]
        BY <1>2, <3>2
      <4> QED BY <1>12, <3>2, <4>1, <4>2
    <3> QED BY <3>1, <3>2
  <2>3. Entries(conv') \subseteq P!Made'
    BY <1>3, <1>5, <1>9, <1>12
  <2> QED BY <1>1, <1>4, <1>5, <1>10, <2>2, <2>3, SettledStep
<1>14. RepeatInv'
  <2>1. \A k \in P!Made : k # speaking.m /\ k \in delivered'[First] => k \in delivered[First]
    BY P2PConstants
  <2> QED BY <1>1, <1>2, <1>3, <1>7, <1>9, <2>1, RepeatShared
<1>15. Entries(conv)' = Entries(conv')
  BY DEF Entries
<1> QED BY <1>3, <1>5, <1>6, <1>8, <1>9, <1>10, <1>11, <1>12, <1>13, <1>14, <1>15 DEF P2PInv, Sound

LEMMA P2PPosted ==
  ASSUME P2PInv, P!Posted
  PROVE  P2PInv'
<1>1. P!TypeOK /\ SharedInv
  BY DEF P2PInv
<1>2. /\ speaking.stage = "posting" /\ speaking' = P!NoTurn /\ known'
      /\ marked' = marked \ {speaking.m} /\ hub' \subseteq hub \cup {speaking.m}
      /\ conv' = [conv EXCEPT !.scope = speaking.saved, !.last = speaking.q,
                              !.history = Append(@, speaking.m)]
      /\ UNCHANGED <<memory, writer, number, delivered, posted, sidecarCrashes, removed, cut>>
  BY DEF P!Posted, P!LockedIn, P!past
<1>3. delivered' \in [Resident -> SUBSET P!Message] /\ known' \in BOOLEAN
  BY <1>1, <1>2 DEF P!TypeOK
<1>4. speaking.m \notin removed => \A q \in Resident : speaking.m \in delivered'[q]
  BY <1>1, <1>2 DEF SharedInv, P!InAll
<1> QED BY <1>2, <1>3, <1>4, TurnEnds

LEMMA P2PShare ==
  ASSUME P2PInv, P!Share
  PROVE  P2PInv'
<1>1. P!TypeOK /\ MadeInv /\ SharedInv /\ SettledInv /\ RepeatInv
  BY DEF P2PInv
<1>2. PICK m : m = speaking.m
  OBVIOUS
<1>3. /\ speaking.stage = "signing" /\ speaking # P!NoTurn /\ speaking \in P!Turn
      /\ speaking.q \in Resident
      /\ m \in P!Made /\ m \in P!Message /\ m # 0 /\ writer[m] = speaking.q
  BY <1>1, <1>2, SpeakingIs, P2PTypes DEF MadeInv, P!NoTurn, P!Share
<1>4. memory /\ Sound(conv)
  BY <1>3, InMemory
<1>5. /\ conv \in P!Conv /\ conv.turn <= Count /\ Entries(conv) \subseteq P!Made
      /\ OthersSpeak(conv) /\ Agrees(conv) /\ 0 \notin Entries(conv)
  BY <1>1, <1>4, SoundIs
<1>6. /\ delivered' = [q \in Resident |-> IF q = speaking.q THEN delivered[q] ELSE delivered[q] \cup {m}]
      /\ UNCHANGED <<memory, writer, number, posted, hub, sidecarCrashes, removed, cut>>
  BY <1>2 DEF P!Share, P!past
<1>7. /\ delivered' \in [Resident -> SUBSET P!Message]
      /\ \A q \in Resident : delivered[q] \subseteq delivered'[q] /\ delivered'[q] \subseteq delivered[q] \cup {m}
      /\ \A q \in Resident : m \notin removed => m \in delivered'[q]
  <2>1. m \notin removed => m \in delivered[speaking.q]
    BY <1>1, <1>2, <1>3 DEF SharedInv
  <2> QED BY <1>1, <1>3, <1>6, <2>1 DEF P!TypeOK
<1>8. CASE conv.scope # "local"
  <2>1. /\ speaking' = P!NoTurn /\ known' = TRUE /\ marked' = marked \ {speaking.m}
        /\ conv' = [conv EXCEPT !.scope = speaking.saved, !.last = speaking.q,
                                !.history = Append(@, speaking.m)]
    BY <1>8 DEF P!Share
  <2> QED BY <1>2, <1>3, <1>6, <1>7, <2>1, TurnEnds
<1>9. CASE conv.scope = "local"
  <2>1. /\ speaking' = [speaking EXCEPT !.stage = "posting"]
        /\ conv' = [conv EXCEPT !.scope = speaking.inner]
        /\ UNCHANGED <<marked, known>>
    BY <1>9 DEF P!Share
  <2>2. /\ speaking' \in P!Turn /\ speaking' # P!NoTurn /\ speaking'.m = m
        /\ speaking'.stage = "posting" /\ speaking'.q = speaking.q
    BY <1>2, <1>3, <2>1 DEF P!Turn, P!NoTurn
  <2>3. conv' \in P!Conv /\ conv'.turn = conv.turn /\ conv'.history = conv.history /\ conv'.last = conv.last
    BY <1>3, <1>5, <2>1 DEF P!Conv, P!Turn
  <2>4. P!TypeOK'
    BY <1>1, <1>6, <1>7, <2>1, <2>2, <2>3 DEF P!TypeOK
  <2>5. P!Made' = P!Made /\ Count' = Count
    BY <1>6 DEF P!Made, Count
  <2>6. P!Pending' = P!Pending /\ m \in P!Pending
    BY <1>2, <1>3, <1>6, <2>2 DEF P!Pending
  <2>7. MadeInv'
    <3>1. \A q \in Resident : delivered'[q] \subseteq P!Made
      BY <1>1, <1>3, <1>7 DEF MadeInv
    <3> QED BY <1>1, <1>2, <1>3, <1>4, <1>6, <2>1, <2>2, <2>5, <3>1 DEF MadeInv
  <2>8. SharedInv'
    <3>1. ASSUME NEW i \in posted, i.stage = "posting", NEW q \in Resident PROVE i.m \in delivered'[q]
      BY <1>1, <1>7, <3>1 DEF SharedInv, P!InAll
    <3> QED BY <1>6, <1>7, <2>2, <3>1 DEF SharedInv, P!InAll
  <2>9. Entries(conv') = Entries(conv) /\ Entries(conv)' = Entries(conv)
    BY <2>3 DEF Entries
  <2>10. \A k : k # m => \A q \in Resident : k \in delivered'[q] <=> k \in delivered[q]
    BY <1>7
  <2>11. SettledInv' /\ Agrees(conv)'
    BY <1>1, <1>4, <1>5, <1>6, <2>5, <2>6, <2>7, <2>9, <2>10, SettledStep
  <2>12. RepeatInv'
    BY <1>1, <1>2, <1>3, <1>6, <2>2, <2>5, <2>10, P2PConstants, RepeatShared
  <2>13. OthersSpeak(conv)'
    <3>1. ASSUME Cardinality(Resident) > 1, conv.history # <<>>,
                 writer[conv.history[Len(conv.history)]] = speaking.q
          PROVE  \E b \in P!Made : conv.history[Len(conv.history)] < b /\ b < m
      BY <1>2, <1>3, <1>5, <3>1 DEF OthersSpeak, MadeBetween
    <3>2. ASSUME Cardinality(Resident) > 1
          PROVE  /\ Count \in delivered[First] \ {m} /\ writer[Count] \in Resident =>
                      conv.last = writer[Count]
                 /\ m \notin Entries(conv)
                 /\ \A k \in Entries(conv) \cap marked : posted = {} /\ k < m
      BY <1>2, <1>3, <1>5, <3>2 DEF OthersSpeak
    <3>3. Count \in delivered'[First] \ {m} => Count \in delivered[First] \ {m}
      BY <2>10, P2PConstants
    <3> QED BY <1>1, <1>3, <1>5, <1>6, <2>1, <2>2, <2>3, <2>4, <2>5, <2>7, <3>1, <3>2, <3>3, OthersSpeakKept
  <2> QED BY <1>5, <2>3, <2>4, <2>5, <2>7, <2>8, <2>9, <2>11, <2>12, <2>13 DEF P2PInv, Sound
<1> QED BY <1>8, <1>9

LEMMA P2PNext ==
  ASSUME P2PInv, P!Next
  PROVE  P2PInv'
<1>1. CASE \E i \in posted : P!ShareInjected(i) \/ P!PostedInjected(i)
  BY <1>1, P2PShareInjected, P2PPostedInjected
<1>2. CASE \/ P!Start \/ P!Continue \/ P!Respond \/ P!NoResponse \/ P!Share \/ P!Posted
           \/ P!InjectUserMessage \/ P!RemoteBlock \/ P!Crash
  BY <1>2, P2PStart, P2PContinue, P2PRespond, P2PNoResponse, P2PShare, P2PPosted,
     P2PInjectUserMessage, P2PRemoteBlock, P2PCrash
<1> QED BY <1>1, <1>2 DEF P!Next

LEMMA P2PStutters ==
  ASSUME P2PInv, UNCHANGED p2pVars
  PROVE  P2PInv'
<1>1. P!Made' = P!Made /\ Count' = Count /\ P!Pending' = P!Pending
  BY DEF p2pVars, P!Made, Count, P!Pending
<1>2. P!TypeOK'
  BY DEF P2PInv, p2pVars, P!TypeOK
<1>3. MadeInv'
  BY <1>1 DEF P2PInv, p2pVars, MadeInv
<1>4. SharedInv' /\ SettledInv'
  BY <1>1 DEF P2PInv, p2pVars, SharedInv, SettledInv, P!InAll
<1>5. RepeatInv'
  BY <1>1 DEF P2PInv, p2pVars, RepeatInv
<1>6. (memory => Sound(conv))'
  <2>1. Entries(conv)' = Entries(conv)
    BY DEF p2pVars, Entries
  <2>2. Agrees(conv)' = Agrees(conv)
    BY <1>1, <2>1 DEF p2pVars, Agrees, P!InAll
  <2>3. OthersSpeak(conv)' = OthersSpeak(conv)
    BY <1>1, <2>1 DEF p2pVars, OthersSpeak, MadeBetween
  <2> QED BY <1>1, <2>1, <2>2, <2>3 DEF P2PInv, p2pVars, Sound
<1> QED BY <1>2, <1>3, <1>4, <1>5, <1>6 DEF P2PInv

LEMMA P2PInit ==
  ASSUME P!Init
  PROVE  P2PInv
<1>1. /\ conv = P!Blank /\ memory = TRUE /\ known = FALSE
      /\ writer = [m \in P!Message |-> Nobody] /\ number = [m \in P!Message |-> 0]
      /\ delivered = [q \in Resident |-> {}] /\ marked = {}
      /\ speaking = P!NoTurn /\ posted = {} /\ hub = {}
      /\ sidecarCrashes = 0 /\ removed = {} /\ cut = {}
  BY DEF P!Init
<1>2. /\ P!Made = {} /\ Count = 0 /\ speaking.m = 0 /\ speaking.stage = "none"
      /\ conv.history = <<>> /\ conv.turn = 0 /\ P!Made = 1 .. Count
  <2>1. P!Made = {}
    BY <1>1 DEF P!Made
  <2>2. Count = 0
    BY <2>1, FS_EmptySet DEF Count
  <2> QED BY <1>1, <2>1, <2>2 DEF P!NoTurn, P!Blank
<1>3. P!TypeOK
  <2>1. conv \in P!Conv
    BY <1>1, P2PConstants DEF P!Blank, P!Conv, P!Scope
  <2>2. 0 \in 0 .. MaxNumber /\ 0 \in 0 .. MaxCrashes
    BY P2PConstants
  <2>3. number \in [P!Message -> 0 .. MaxNumber] /\ writer \in [P!Message -> Resident \cup {User, Remote, Nobody}]
    BY <1>1, <2>2
  <2> QED BY <1>1, <2>1, <2>2, <2>3 DEF P!TypeOK
<1>4. MadeInv
  BY <1>1, <1>2 DEF MadeInv
<1>5. SharedInv /\ SettledInv /\ RepeatInv
  BY <1>1, <1>2 DEF SharedInv, SettledInv, RepeatInv
<1>6. Sound(conv)
  <2>1. Entries(conv) = {}
    BY <1>2 DEF Entries
  <2>2. Agrees(conv)
    BY <1>1, <2>1, P2PConstants DEF Agrees
  <2>3. OthersSpeak(conv)
    BY <1>1, <1>2, <2>1, P2PConstants DEF OthersSpeak
  <2> QED BY <1>2, <1>3, <2>1, <2>2, <2>3 DEF Sound, P!TypeOK
<1> QED BY <1>3, <1>4, <1>5, <1>6 DEF P2PInv

\* The history that is in memory, or the empty one.
LEMMA HistoryIs ==
  ASSUME P2PInv
  PROVE  /\ memory => Sound(conv) /\ conv \in P!Conv
         /\ ~memory => conv.history = <<>> /\ Entries(conv) = {}
<1>1. ~memory => conv.history = <<>>
  BY DEF P2PInv, MadeInv, P!Blank
<1> QED BY <1>1 DEF P2PInv, Sound, Entries

LEMMA P2PAlternates ==
  ASSUME P2PInv
  PROVE  P!NoBackToBack
<1> SUFFICES ASSUME Cardinality(Resident) > 1, NEW i \in 2 .. Len(conv.history),
                    writer[conv.history[i]] \in Resident,
                    {m \in P!Made : conv.history[i - 1] < m /\ m < conv.history[i]} = {}
             PROVE  writer[conv.history[i]] # writer[conv.history[i - 1]]
  BY SameCounting DEF P!NoBackToBack
<1>1. memory
  BY HistoryIs
<1>2. OthersSpeak(conv)
  BY <1>1, HistoryIs DEF Sound
<1> QED BY <1>2 DEF OthersSpeak, MadeBetween

LEMMA P2PHeard ==
  ASSUME P2PInv
  PROVE  P!LocalAgree /\ P!KeptUnlessCrossed /\ P!LocalRebuildable
<1>1. SettledInv
  BY DEF P2PInv
<1>2. \A m \in Entries(conv) \ P!Pending : P!InAll(m)
  BY HistoryIs DEF Sound, Agrees
<1>3. P!LocalAgree
  BY <1>1, <1>2 DEF P!LocalAgree, SettledInv, Entries
<1>4. P!KeptUnlessCrossed
  BY <1>1 DEF P!KeptUnlessCrossed, SettledInv
<1>5. ASSUME memory
      PROVE  {m \in delivered[First] : writer[m] # Remote} \ P!Pending
               = {m \in P!ToSet(conv.history) : writer[m] # Remote} \ P!Pending
  <2>1. P!ToSet(conv.history) = Entries(conv)
    BY DEF P!ToSet, Entries
  <2>2. \A m \in delivered[First] \ P!Pending : writer[m] # Remote => m \in Entries(conv)
    BY <1>5, HistoryIs DEF Sound, Agrees
  <2>3. \A m \in Entries(conv) \ P!Pending : m \in delivered[First]
    BY <1>2, P2PConstants DEF P!InAll
  <2> QED BY <2>1, <2>2, <2>3
<1> QED BY <1>3, <1>4, <1>5 DEF P!LocalRebuildable

-----------------------------------------------------------------------------
(* The theorems *)

P2PRuns == component = "P2P" => P2PInv

LEMMA P2PRunsInit == Init => P2PRuns
BY P2PInit DEF Init, P2PRuns

LEMMA P2PRunsNext == P2PRuns /\ [Next]_vars => P2PRuns'
<1> SUFFICES ASSUME P2PRuns, [Next]_vars PROVE P2PRuns'
  OBVIOUS
<1>1. component' = component
  BY DEF Next, vars
<1>2. component = "P2P" => P!Next \/ UNCHANGED p2pVars
  BY DEF Next, vars
<1> QED BY <1>1, <1>2, P2PNext, P2PStutters DEF P2PRuns

\* Nobody speaks twice in a row, of any number of Qubes in a discussion or a conversation
\* with remote ones, and in round-robin mode nobody twice more than another, however turns,
\* their preparation, interjections, remote blocks and restarts are interleaved.
THEOREM QubesTakeTurns == Spec => []TurnsAlternate
<1>1. ConversationRuns /\ P2PRuns => TurnsAlternate
  BY EvenIsEven, P2PAlternates, SameCounting
     DEF ConversationRuns, ConversationInv, AlternateInv, C!NoBackToBack, P2PRuns, TurnsAlternate
<1> QED BY <1>1, ConversationRunsInit, ConversationRunsNext, P2PRunsInit, P2PRunsNext, PTL DEF Spec

\* A message that is distributed is in the sessions of all local Qubes and in the history,
\* or in none of them, for any number of Qubes, messages and restarts; what the hub has
\* accepted stays; and the messages that are not of others can be rebuilt after a restart.
THEOREM AllHear == Spec => []HeardByAll
<1>1. ConversationRuns /\ P2PRuns => HeardByAll
  BY P2PHeard DEF ConversationRuns, ConversationInv, HeardInv, P2PRuns, HeardByAll
<1> QED BY <1>1, ConversationRunsInit, ConversationRunsNext, P2PRunsInit, P2PRunsNext, PTL DEF Spec

=============================================================================
