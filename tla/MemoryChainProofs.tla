------------------------- MODULE MemoryChainProofs --------------------------
(***************************************************************************)
(* Proofs about MemoryChain, for every set of Qube objects, every content  *)
(* and every session length.                                               *)
(*                                                                         *)
(* The first part holds whatever the direct writers do: the types, mutual  *)
(* exclusion, and that the length of an index is the number after its      *)
(* latest block.  The second part adds that nobody writes directly         *)
(* (Direct = {}) and proves that the chain is one linked list, and that    *)
(* only an object whose index is complete ever writes a block file.        *)
(***************************************************************************)
EXTENDS MemoryChain, FiniteSetTheorems, TLAPS

-----------------------------------------------------------------------------
(* Indexes *)

\* A well-formed index: one file per number, numbered 0, 1, ... without a gap.
IsIndex(S) ==
  /\ S \subseteq BlockFile
  /\ IsFiniteSet(S)
  /\ S # {}
  /\ UniqueNumbers(S)
  /\ Numbers(S) = 0 .. (Cardinality(S) - 1)

\* A finite set with one file for each of the numbers 0 .. k is an index of size k + 1.
LEMMA IndexOfNumbers ==
  ASSUME NEW S \in SUBSET BlockFile, NEW k \in Nat, UniqueNumbers(S), Numbers(S) = 0 .. k
  PROVE  IsIndex(S) /\ Cardinality(S) = k + 1
<1> DEFINE h == [n \in 0 .. k |-> CHOOSE f \in S : f.num = n]
<1>1. \A n \in 0 .. k : h[n] \in S /\ h[n].num = n
  BY DEF Numbers
<1>2. h \in Bijection(0 .. k, S)
  <2>1. h \in [0 .. k -> S]
    BY <1>1
  <2>2. \A m, n \in 0 .. k : h[m] = h[n] => m = n
    BY <1>1
  <2>3. \A f \in S : \E n \in 0 .. k : h[n] = f
    <3> SUFFICES ASSUME NEW f \in S PROVE h[f.num] = f /\ f.num \in 0 .. k
      OBVIOUS
    <3> QED BY <1>1 DEF Numbers, UniqueNumbers
  <2> HIDE DEF h
  <2> QED BY <2>1, <2>2, <2>3 DEF Bijection, Injection, Surjection, IsInjective
<1>3. ExistsBijection(0 .. k, S)
  BY <1>2 DEF ExistsBijection
<1>4. IsFiniteSet(0 .. k) /\ Cardinality(0 .. k) = k + 1
  BY FS_Interval
<1>5. IsFiniteSet(S) /\ Cardinality(S) = k + 1
  BY <1>3, <1>4, FS_Bijection
<1>6. S # {}
  BY <1>1
<1> QED BY <1>5, <1>6 DEF IsIndex

\* The size of an index is a positive number.
LEMMA IndexSize ==
  ASSUME NEW S, IsIndex(S)
  PROVE  Cardinality(S) \in Nat \ {0}
BY FS_CardinalityType, FS_EmptySet DEF IsIndex

\* The latest block of an index is the one numbered just below its size.
LEMMA LatestOfIndex ==
  ASSUME NEW S, IsIndex(S)
  PROVE  /\ Latest(S) \in S
         /\ Latest(S).num = Cardinality(S) - 1
         /\ HashOf(Latest(S)) \in Hash
<1>1. Cardinality(S) \in Nat \ {0}
  BY IndexSize
<1>2. \A g \in S : g.num \in Nat /\ g.num <= Cardinality(S) - 1
  BY <1>1 DEF IsIndex, Numbers, BlockFile
<1>3. PICK f \in S : f.num = Cardinality(S) - 1
  BY <1>1 DEF IsIndex, Numbers
<1>4. Latest(S) \in S /\ \A g \in S : g.num <= Latest(S).num
  BY <1>2, <1>3 DEF Latest
<1>5. Latest(S).num = Cardinality(S) - 1
  BY <1>1, <1>2, <1>3, <1>4
<1>6. HashOf(Latest(S)) \in Hash
  BY <1>4 DEF IsIndex, HashOf, Hash, BlockFile
<1> QED BY <1>4, <1>5, <1>6

\* Adding the block whose number is the size of the index gives an index.
LEMMA IndexGrows ==
  ASSUME NEW S, IsIndex(S), NEW f \in BlockFile, f.num = Cardinality(S)
  PROVE  /\ IsIndex(S \cup {f})
         /\ Cardinality(S \cup {f}) = Cardinality(S) + 1
<1>1. Cardinality(S) \in Nat \ {0}
  BY IndexSize
<1>2. Numbers(S \cup {f}) = 0 .. Cardinality(S)
  BY <1>1 DEF IsIndex, Numbers
<1>3. UniqueNumbers(S \cup {f})
  BY <1>1 DEF IsIndex, UniqueNumbers, Numbers
<1>4. S \cup {f} \in SUBSET BlockFile
  BY DEF IsIndex
<1> QED BY <1>1, <1>2, <1>3, <1>4, IndexOfNumbers

\* An index of a directory whose files are numbered 0 .. k has at most k + 1 blocks.
LEMMA IndexWithin ==
  ASSUME NEW S, IsIndex(S), NEW D, S \subseteq D, NEW k \in Nat, Numbers(D) = 0 .. k
  PROVE  Cardinality(S) <= k + 1
<1>1. Latest(S) \in S /\ Latest(S).num = Cardinality(S) - 1
  BY LatestOfIndex
<1>2. Latest(S).num \in 0 .. k
  BY <1>1 DEF Numbers
<1> QED BY <1>1, <1>2, IndexSize

\* If any block awaits a summary, the latest block of the index does.
LEMMA LatestIsUnsummarized ==
  ASSUME NEW S, IsIndex(S), Unsummarized(S) # {}
  PROVE  Latest(Unsummarized(S)) = Latest(S)
<1> DEFINE m == Latest(S)
<1>1. m \in S /\ m.num = Cardinality(S) - 1
  BY LatestOfIndex
<1>2. \A g \in S : g.num \in Nat /\ g.num <= m.num
  BY <1>1, IndexSize DEF IsIndex, Numbers, BlockFile
<1>3. m \in Unsummarized(S)
  BY <1>1, <1>2 DEF Unsummarized
<1>4. \A f \in Unsummarized(S) : f \in S
  BY DEF Unsummarized
<1>5. \A f \in S : f.num = m.num => f = m
  BY <1>1 DEF IsIndex, UniqueNumbers
<1> HIDE DEF m
<1>6. /\ Latest(Unsummarized(S)) \in Unsummarized(S)
      /\ m.num <= Latest(Unsummarized(S)).num
  BY <1>2, <1>3, <1>4 DEF Latest
<1> QED BY <1>1, <1>2, <1>4, <1>5, <1>6 DEF m

\* A summary is due only when some block awaits it.
LEMMA DueMeansSome ==
  ASSUME NEW p, SummaryDue(p)
  PROVE  Unsummarized(idx[p]) # {}
BY FS_EmptySet, BoundAssumption DEF SummaryDue

-----------------------------------------------------------------------------
(* Types, mutual exclusion and numbering, whatever the direct writers do *)

\* The numbers of the block files have no gap.
DiskInv == \E k \in Nat : Numbers(disk) = 0 .. k

\* A loaded object has an index of some of the files.
IndexInv ==
  \A p \in Inst :
    /\ pc[p] = "down" => idx[p] = {}
    /\ pc[p] # "down" => idx[p] \subseteq disk /\ IsIndex(idx[p])

\* The number an anchor is about to use is not beyond the end of its index.
NextInv ==
  \A p \in Inst :
    pc[p] \in {"scan", "convert", "numbered"} => next[p] <= Cardinality(idx[p])

Inv == TypeOK /\ MutualExclusion /\ DiskInv /\ IndexInv /\ NextInv

\* What is read from the directory is an index, at least as long as any other.
LEMMA LoadedIndex ==
  ASSUME disk \subseteq BlockFile, DiskInv, NEW S \in IndexesOf(disk)
  PROVE  /\ S \subseteq disk
         /\ IsIndex(S)
         /\ \A T : IsIndex(T) /\ T \subseteq disk => Cardinality(T) <= Cardinality(S)
<1>1. PICK k \in Nat : Numbers(disk) = 0 .. k
  BY DEF DiskInv
<1>2. S \subseteq disk /\ UniqueNumbers(S) /\ Numbers(S) = 0 .. k
  BY <1>1 DEF IndexesOf
<1>3. IsIndex(S) /\ Cardinality(S) = k + 1
  BY <1>2, IndexOfNumbers
<1> QED BY <1>1, <1>2, <1>3, IndexWithin

\* A block numbered at most one past an index of the directory leaves no gap in it.
LEMMA DiskGrows ==
  ASSUME NEW S, IsIndex(S), S \subseteq disk, DiskInv,
         NEW f \in BlockFile, f.num <= Cardinality(S), disk' = disk \cup {f}
  PROVE  DiskInv'
<1>1. PICK k \in Nat : Numbers(disk) = 0 .. k
  BY DEF DiskInv
<1>2. f.num \in Nat /\ f.num <= k + 1
  BY <1>1, IndexWithin, IndexSize DEF BlockFile
<1>3. Numbers(disk') = Numbers(disk) \cup {f.num}
  BY DEF Numbers
<1>4. CASE f.num <= k
  <2>1. (0 .. k) \cup {f.num} = 0 .. k
    BY <1>2, <1>4
  <2> QED BY <1>1, <1>3, <2>1 DEF DiskInv
<1>5. CASE f.num = k + 1
  <2>1. (0 .. k) \cup {k + 1} = 0 .. (k + 1)
    OBVIOUS
  <2>2. Numbers(disk') = 0 .. (k + 1)
    BY <1>1, <1>3, <1>5, <2>1
  <2> QED BY <2>2 DEF DiskInv
<1> QED BY <1>2, <1>4, <1>5

LEMMA InvInit == Init => Inv
<1> SUFFICES ASSUME Init PROVE Inv
  OBVIOUS
<1>1. GenesisBlock \in BlockFile /\ GenesisBlock.num = 0 /\ ZeroHash \in Hash
  BY DEF GenesisBlock, BlockFile, ZeroHash, Hash, Kind
<1>2. TypeOK
  BY <1>1 DEF Init, TypeOK, PC
<1>3. MutualExclusion
  BY NoInstAssumption DEF Init, MutualExclusion, Holding
<1>4. Numbers(disk) = 0 .. 0
  BY <1>1 DEF Init, Numbers
<1>5. IndexInv /\ NextInv
  BY DEF Init, IndexInv, NextInv
<1> QED BY <1>2, <1>3, <1>4, <1>5 DEF Inv, DiskInv

\* Every action but the four that read or write block files leaves disk and idx alone.
LEMMA InvControl ==
  ASSUME Inv, NEW p \in Inst,
         \/ Begin(p) \/ Timeout(p) \/ (\E batch \in Batch : Acquire(p, batch))
         \/ Scanned(p) \/ Collide(p) \/ SaveFails(p) \/ Converted(p)
         \/ SummaryStart(p) \/ SummaryNumber(p) \/ Interrupted(p) \/ Finish(p)
  PROVE  Inv'
<1>1. disk' = disk /\ idx' = idx
  BY DEF Begin, Timeout, Acquire, Scanned, Collide, SaveFails, Converted,
         SummaryStart, SummaryNumber, Interrupted, Finish
<1>2. DiskInv'
  BY <1>1 DEF Inv, DiskInv, Numbers
<1>3. CASE Begin(p)
  BY <1>1, <1>2, <1>3, NoInstAssumption
  DEF Begin, Inv, TypeOK, MutualExclusion, IndexInv, NextInv, Holding, PC, Abort, Unlock
<1>4. CASE Timeout(p)
  BY <1>1, <1>2, <1>4, NoInstAssumption
  DEF Timeout, Inv, TypeOK, MutualExclusion, IndexInv, NextInv, Holding, PC, Abort, Unlock
<1>5. CASE Scanned(p)
  BY <1>1, <1>2, <1>5, NoInstAssumption
  DEF Scanned, Inv, TypeOK, MutualExclusion, IndexInv, NextInv, Holding, PC, Abort, Unlock
<1>6. CASE Collide(p)
  BY <1>1, <1>2, <1>6, NoInstAssumption
  DEF Collide, Inv, TypeOK, MutualExclusion, IndexInv, NextInv, Holding, PC, Abort, Unlock
<1>7. CASE SaveFails(p)
  BY <1>1, <1>2, <1>7, NoInstAssumption
  DEF SaveFails, Inv, TypeOK, MutualExclusion, IndexInv, NextInv, Holding, PC, Abort, Unlock
<1>8. CASE Converted(p)
  BY <1>1, <1>2, <1>8, NoInstAssumption
  DEF Converted, Inv, TypeOK, MutualExclusion, IndexInv, NextInv, Holding, PC, Abort, Unlock
<1>9. CASE SummaryStart(p)
  <2>1. IsIndex(idx[p])
    BY <1>9 DEF SummaryStart, Inv, IndexInv
  <2>2. Unsummarized(idx[p]) # {}
    BY <1>9, DueMeansSome DEF SummaryStart
  <2>3. HashOf(Latest(Unsummarized(idx[p]))) \in Hash
    BY <2>1, <2>2, LatestIsUnsummarized, LatestOfIndex
  <2> QED BY <1>1, <1>2, <1>9, <2>3, NoInstAssumption
      DEF SummaryStart, Inv, TypeOK, MutualExclusion, IndexInv, NextInv, Holding, PC
<1>10. CASE SummaryNumber(p)
  <2>1. Cardinality(idx[p]) \in Nat
    BY <1>10, IndexSize DEF SummaryNumber, Inv, IndexInv
  <2> QED BY <1>1, <1>2, <1>10, <2>1, NoInstAssumption
      DEF SummaryNumber, Inv, TypeOK, MutualExclusion, IndexInv, NextInv, Holding, PC
<1>11. CASE Interrupted(p)
  BY <1>1, <1>2, <1>11, NoInstAssumption
  DEF Interrupted, Inv, TypeOK, MutualExclusion, IndexInv, NextInv, Holding, PC, Abort, Unlock
<1>12. CASE Finish(p)
  BY <1>1, <1>2, <1>12, NoInstAssumption
  DEF Finish, Inv, TypeOK, MutualExclusion, IndexInv, NextInv, Holding, PC, Abort, Unlock
<1>13. CASE \E batch \in Batch : Acquire(p, batch)
  <2>1. PICK batch \in Batch : Acquire(p, batch)
    BY <1>13
  <2>2. Cardinality(idx[p]) \in Nat /\ HashOf(Latest(idx[p])) \in Hash
    BY <2>1, IndexSize, LatestOfIndex DEF Acquire, Inv, IndexInv
  <2>3. batch \in Seq(Payload)
    BY BatchAssumption
  <2> QED BY <1>1, <1>2, <2>1, <2>2, <2>3, NoInstAssumption
      DEF Acquire, Inv, TypeOK, MutualExclusion, IndexInv, NextInv, Holding, PC
<1> QED BY <1>3, <1>4, <1>5, <1>6, <1>7, <1>8, <1>9, <1>10, <1>11, <1>12, <1>13

\* A block file is written: by Convert, by SummarySave, or directly.  f is not
\* beyond the end of the index, and enters the index if it extends it.
LEMMA InvWrite ==
  ASSUME Inv, NEW p \in Inst, pc[p] # "down", NEW f \in BlockFile,
         f.num <= Cardinality(idx[p]), disk' = disk \cup {f},
         \/ idx' = idx
         \/ f.num = Cardinality(idx[p]) /\ idx' = [idx EXCEPT ![p] = @ \cup {f}]
  PROVE  /\ disk' \subseteq BlockFile
         /\ DiskInv'
         /\ \A q \in Inst : idx[q] \subseteq idx'[q]
         /\ \A q \in Inst : pc[q] # "down" =>
              /\ idx'[q] \subseteq disk'
              /\ IsIndex(idx'[q])
              /\ Cardinality(idx[q]) <= Cardinality(idx'[q])
<1>1. IsIndex(idx[p]) /\ idx[p] \subseteq disk
  BY DEF Inv, IndexInv
<1>2. disk' \subseteq BlockFile /\ DiskInv'
  BY <1>1, DiskGrows DEF Inv, TypeOK
<1>3. CASE idx' = idx
  <2>1. \A q \in Inst : pc[q] # "down" =>
          IsIndex(idx[q]) /\ idx[q] \subseteq disk /\ Cardinality(idx[q]) \in Nat
    BY IndexSize DEF Inv, IndexInv
  <2> QED BY <1>2, <1>3, <2>1
<1>4. CASE f.num = Cardinality(idx[p]) /\ idx' = [idx EXCEPT ![p] = @ \cup {f}]
  <2>1. IsIndex(idx[p] \cup {f}) /\ Cardinality(idx[p] \cup {f}) = Cardinality(idx[p]) + 1
    BY <1>1, <1>4, IndexGrows
  <2>2. \A q \in Inst : pc[q] # "down" =>
          IsIndex(idx[q]) /\ idx[q] \subseteq disk /\ Cardinality(idx[q]) \in Nat
    BY IndexSize DEF Inv, IndexInv
  <2>3. \A q \in Inst : idx'[q] = IF q = p THEN idx[p] \cup {f} ELSE idx[q]
    BY <1>4 DEF Inv, TypeOK
  <2>4. idx[p] \cup {f} \subseteq disk'
    BY <1>1
  <2>5. ASSUME NEW q \in Inst, pc[q] # "down"
        PROVE  idx'[q] \subseteq disk' /\ IsIndex(idx'[q])
               /\ Cardinality(idx[q]) <= Cardinality(idx'[q])
    <3>1. CASE q = p
      <4>1. Cardinality(idx[p]) \in Nat
        BY <2>2, <2>5, <3>1
      <4>2. idx'[p] = idx[p] \cup {f}
        BY <2>3
      <4>3. Cardinality(idx[p]) <= Cardinality(idx'[p])
        BY <2>1, <4>1, <4>2
      <4>4. idx'[p] \subseteq disk' /\ IsIndex(idx'[p])
        BY <2>1, <2>4, <4>2
      <4> QED BY <3>1, <4>3, <4>4
    <3>2. CASE q # p
      BY <2>2, <2>3, <2>5, <3>2
    <3> QED BY <3>1, <3>2
  <2> QED BY <1>2, <2>3, <2>5
<1> QED BY <1>3, <1>4

\* The actions that read or write the block files.
LEMMA InvFiles ==
  ASSUME Inv, NEW p \in Inst,
         \/ Load(p) \/ Reload(p) \/ Exit(p)
         \/ (\E x \in Payload : DirectAppend(p, x)) \/ Convert(p) \/ SummarySave(p)
  PROVE  Inv'
<1> USE DEF Inv
<1>1. CASE Load(p) \/ Reload(p)
  <2>1. PICK S \in IndexesOf(disk) : idx' = [idx EXCEPT ![p] = S]
    BY <1>1 DEF Load, Reload
  <2>2. disk' = disk /\ DiskInv'
    BY <1>1 DEF Load, Reload, DiskInv, Numbers
  <2>3. /\ S \subseteq disk /\ IsIndex(S)
        /\ \A T : IsIndex(T) /\ T \subseteq disk => Cardinality(T) <= Cardinality(S)
    BY LoadedIndex DEF TypeOK
  <2>4. pc[p] # "down" => Cardinality(idx[p]) <= Cardinality(S)
    BY <2>3 DEF IndexInv
  <2>5. Cardinality(S) \in Nat /\ (pc[p] # "down" => Cardinality(idx[p]) \in Nat)
    BY <2>3, IndexSize DEF IndexInv
  <2>6. \A q \in Inst : idx'[q] = IF q = p THEN S ELSE idx[q]
    BY <2>1 DEF TypeOK
  <2>7. TypeOK'
    BY <1>1, <2>1, <2>2, <2>3 DEF Load, Reload, TypeOK, PC, Holding
  <2>8. MutualExclusion'
    BY <1>1 DEF Load, Reload, MutualExclusion, TypeOK, Holding, Awaiting
  <2>9. IndexInv'
    BY <1>1, <2>2, <2>3, <2>6 DEF Load, Reload, IndexInv, TypeOK, Awaiting
  <2>10. NextInv'
    <3> SUFFICES ASSUME NEW q \in Inst, pc'[q] \in {"scan", "convert", "numbered"}
                 PROVE  next'[q] <= Cardinality(idx'[q])
      BY DEF NextInv
    <3>1. next'[q] = next[q] /\ next[q] \in Nat
      BY <1>1 DEF Load, Reload, TypeOK
    <3>2. pc[q] \in {"scan", "convert", "numbered"}
      BY <1>1 DEF Load, Reload, TypeOK
    <3>3. next[q] <= Cardinality(idx[q])
      BY <3>2 DEF NextInv
    <3> QED BY <2>4, <2>5, <2>6, <3>1, <3>2, <3>3
  <2> QED BY <2>2, <2>7, <2>8, <2>9, <2>10
<1>2. CASE Exit(p)
  <2>1. TypeOK'
    BY <1>2 DEF Exit, Unlock, TypeOK, PC
  <2>2. MutualExclusion'
    BY <1>2, NoInstAssumption DEF Exit, Unlock, TypeOK, MutualExclusion, Holding
  <2>3. DiskInv'
    BY <1>2 DEF Exit, DiskInv, Numbers
  <2>4. IndexInv'
    BY <1>2 DEF Exit, IndexInv, TypeOK
  <2>5. NextInv'
    BY <1>2 DEF Exit, NextInv, TypeOK
  <2> QED BY <2>1, <2>2, <2>3, <2>4, <2>5
<1>3. CASE \E x \in Payload : DirectAppend(p, x)
  <2>1. PICK x \in Payload : DirectAppend(p, x)
    BY <1>3
  <2> DEFINE f == [num |-> Cardinality(idx[p]), kind |-> "CONTENT", src |-> x,
                   prev |-> HashOf(Latest(idx[p]))]
  <2>2. pc[p] # "down" /\ IsIndex(idx[p])
    BY <2>1 DEF DirectAppend, Awaiting, IndexInv
  <2>3. f \in BlockFile /\ f.num = Cardinality(idx[p]) /\ f.num <= Cardinality(idx[p])
    BY <2>2, IndexSize, LatestOfIndex DEF BlockFile, Kind
  <2>4. disk' = disk \cup {f} /\ idx' = [idx EXCEPT ![p] = @ \cup {f}]
    BY <2>1 DEF DirectAppend
  <2> HIDE DEF f
  <2>5. /\ disk' \subseteq BlockFile /\ DiskInv'
        /\ \A q \in Inst : pc[q] # "down" =>
             /\ idx'[q] \subseteq disk' /\ IsIndex(idx'[q])
             /\ Cardinality(idx[q]) <= Cardinality(idx'[q])
    BY <2>2, <2>3, <2>4, InvWrite
  <2>6. \A q \in Inst : pc[q] # "down" =>
          Cardinality(idx[q]) \in Nat /\ Cardinality(idx'[q]) \in Nat
    BY <2>5, IndexSize DEF IndexInv
  <2>7. TypeOK'
    BY <2>1, <2>3, <2>4, <2>5 DEF DirectAppend, TypeOK
  <2>8. MutualExclusion'
    BY <2>1 DEF DirectAppend, MutualExclusion
  <2>9. IndexInv'
    BY <2>1, <2>2, <2>4, <2>5 DEF DirectAppend, IndexInv, TypeOK
  <2>10. NextInv'
    <3> SUFFICES ASSUME NEW q \in Inst, pc'[q] \in {"scan", "convert", "numbered"}
                 PROVE  next'[q] <= Cardinality(idx'[q])
      BY DEF NextInv
    <3>1. next'[q] = next[q] /\ next[q] \in Nat /\ pc'[q] = pc[q]
      BY <2>1 DEF DirectAppend, TypeOK
    <3>2. next[q] <= Cardinality(idx[q])
      BY <3>1 DEF NextInv
    <3> QED BY <2>5, <2>6, <3>1, <3>2
  <2> QED BY <2>5, <2>7, <2>8, <2>9, <2>10
<1>4. CASE Convert(p)
  <2> DEFINE f == [num |-> next[p], kind |-> "CONTENT", src |-> Head(todo[p]), prev |-> prev[p]]
  <2>1. next[p] \in Nat /\ prev[p] \in Hash /\ Head(todo[p]) \in Payload
    BY <1>4 DEF Convert, TypeOK
  <2>2. f \in BlockFile /\ f.num = next[p]
    BY <2>1 DEF BlockFile, Kind
  <2>3. f.num <= Cardinality(idx[p]) /\ pc[p] = "convert" /\ IsIndex(idx[p])
    BY <1>4, <2>2 DEF Convert, NextInv, IndexInv
  <2>4. HashOf(f) \in Hash
    BY <2>2 DEF HashOf, Hash, BlockFile
  <2>5. /\ disk' = disk \cup {f}
        /\ \/ /\ f.num = Cardinality(idx[p])
              /\ idx' = [idx EXCEPT ![p] = @ \cup {f}]
              /\ next' = [next EXCEPT ![p] = @ + 1]
              /\ prev' = [prev EXCEPT ![p] = HashOf(f)]
              /\ UNCHANGED <<lock, pc>>
           \/ Abort(p) /\ UNCHANGED <<idx, next, prev>>
    BY <1>4 DEF Convert, Save, Extends
  <2> HIDE DEF f
  <2>6. /\ disk' \subseteq BlockFile /\ DiskInv'
        /\ \A q \in Inst : pc[q] # "down" =>
             /\ idx'[q] \subseteq disk' /\ IsIndex(idx'[q])
             /\ Cardinality(idx[q]) <= Cardinality(idx'[q])
    BY <2>2, <2>3, <2>5, InvWrite
  <2>7. \A q \in Inst : pc[q] # "down" =>
          Cardinality(idx[q]) \in Nat /\ Cardinality(idx'[q]) \in Nat
    BY <2>6, IndexSize DEF IndexInv
  <2>8. TypeOK'
    <3>1. disk' \subseteq BlockFile /\ idx' \in [Inst -> SUBSET BlockFile]
      BY <2>2, <2>5, <2>6 DEF TypeOK
    <3>2. lock' \in Inst \cup {NoInst} /\ pc' \in [Inst -> PC]
      BY <2>5 DEF TypeOK, Abort, Unlock, PC
    <3>3. todo' \in [Inst -> Seq(Payload)]
      <4>1. Tail(todo[p]) \in Seq(Payload) /\ <<>> \in Seq(Payload)
        BY <1>4 DEF Convert, TypeOK
      <4>2. todo' = [todo EXCEPT ![p] = Tail(todo[p])] \/ todo' = [todo EXCEPT ![p] = <<>>]
        BY <1>4 DEF Convert, Save, Abort
      <4> QED BY <4>1, <4>2 DEF TypeOK
    <3>4. next' \in [Inst -> Nat] /\ prev' \in [Inst -> Hash]
      <4>1. next[p] + 1 \in Nat
        BY <2>1
      <4>2. next' = next \/ next' = [next EXCEPT ![p] = next[p] + 1]
        BY <2>5
      <4>3. prev' = prev \/ prev' = [prev EXCEPT ![p] = HashOf(f)]
        BY <2>5
      <4> QED BY <2>4, <4>1, <4>2, <4>3 DEF TypeOK
    <3> QED BY <3>1, <3>2, <3>3, <3>4 DEF TypeOK
  <2>9. MutualExclusion'
    BY <2>3, <2>5, NoInstAssumption DEF Abort, Unlock, MutualExclusion, TypeOK, Holding
  <2>10. IndexInv'
    BY <2>3, <2>5, <2>6 DEF Abort, IndexInv, TypeOK
  <2>11. NextInv'
    <3> SUFFICES ASSUME NEW q \in Inst, pc'[q] \in {"scan", "convert", "numbered"}
                 PROVE  next'[q] <= Cardinality(idx'[q])
      BY DEF NextInv
    <3>1. pc[q] \in {"scan", "convert", "numbered"}
      BY <2>5 DEF Abort, TypeOK
    <3>2. next[q] <= Cardinality(idx[q]) /\ next[q] \in Nat
      BY <3>1 DEF NextInv, TypeOK
    <3>3. CASE q = p
      <4>1. /\ f.num = Cardinality(idx[p])
            /\ idx'[p] = idx[p] \cup {f}
            /\ next'[p] = next[p] + 1
        BY <2>5, <3>3 DEF Abort, TypeOK
      <4>2. Cardinality(idx'[p]) = Cardinality(idx[p]) + 1
        BY <2>2, <2>3, <4>1, IndexGrows
      <4>3. next[p] = Cardinality(idx[p]) /\ next[p] + 1 \in Nat
        BY <2>1, <2>2, <4>1
      <4>4. next'[p] = Cardinality(idx'[p])
        BY <4>1, <4>2, <4>3
      <4> QED BY <3>3, <4>1, <4>3, <4>4
    <3>4. CASE q # p
      <4>1. next'[q] = next[q]
        BY <2>5, <3>4 DEF TypeOK
      <4> QED BY <2>6, <2>7, <3>1, <3>2, <4>1
    <3> QED BY <3>3, <3>4
  <2> QED BY <2>6, <2>8, <2>9, <2>10, <2>11
<1>5. CASE SummarySave(p)
  <2> DEFINE f == [num |-> next[p], kind |-> "SUMMARY", src |-> NoPayload, prev |-> prev[p]]
  <2>1. f \in BlockFile /\ f.num = next[p]
    BY DEF BlockFile, Kind, TypeOK
  <2>2. f.num <= Cardinality(idx[p]) /\ pc[p] = "numbered"
    BY <1>5, <2>1 DEF SummarySave, NextInv
  <2>3. /\ disk' = disk \cup {f}
        /\ UNCHANGED <<next, prev>>
        /\ \/ /\ f.num = Cardinality(idx[p])
              /\ idx' = [idx EXCEPT ![p] = @ \cup {f}]
              /\ pc' = [pc EXCEPT ![p] = "done"]
              /\ UNCHANGED <<lock, todo>>
           \/ Abort(p) /\ UNCHANGED idx
    BY <1>5 DEF SummarySave, Save, Extends
  <2> HIDE DEF f
  <2>4. /\ disk' \subseteq BlockFile /\ DiskInv'
        /\ \A q \in Inst : pc[q] # "down" =>
             /\ idx'[q] \subseteq disk' /\ IsIndex(idx'[q])
             /\ Cardinality(idx[q]) <= Cardinality(idx'[q])
    BY <2>1, <2>2, <2>3, InvWrite
  <2>5. \A q \in Inst : pc[q] # "down" =>
          Cardinality(idx[q]) \in Nat /\ Cardinality(idx'[q]) \in Nat
    BY <2>4, IndexSize DEF IndexInv
  <2>6. TypeOK'
    <3>1. disk' \subseteq BlockFile /\ idx' \in [Inst -> SUBSET BlockFile]
      BY <2>1, <2>3, <2>4 DEF TypeOK
    <3>2. lock' \in Inst \cup {NoInst} /\ pc' \in [Inst -> PC]
      BY <2>3 DEF TypeOK, Abort, Unlock, PC, Holding
    <3>3. todo' \in [Inst -> Seq(Payload)]
      <4>1. <<>> \in Seq(Payload)
        OBVIOUS
      <4>2. todo' = todo \/ todo' = [todo EXCEPT ![p] = <<>>]
        BY <2>3 DEF Abort
      <4> QED BY <4>1, <4>2 DEF TypeOK
    <3>4. next' \in [Inst -> Nat] /\ prev' \in [Inst -> Hash]
      BY <2>3 DEF TypeOK
    <3> QED BY <3>1, <3>2, <3>3, <3>4 DEF TypeOK
  <2>7. MutualExclusion'
    BY <2>2, <2>3, NoInstAssumption DEF Abort, Unlock, MutualExclusion, TypeOK, Holding
  <2>8. IndexInv'
    BY <2>2, <2>3, <2>4 DEF Abort, IndexInv, TypeOK
  <2>9. NextInv'
    <3> SUFFICES ASSUME NEW q \in Inst, pc'[q] \in {"scan", "convert", "numbered"}
                 PROVE  next'[q] <= Cardinality(idx'[q])
      BY DEF NextInv
    <3>1. pc[q] \in {"scan", "convert", "numbered"}
      BY <2>3 DEF Abort, TypeOK
    <3>2. next'[q] = next[q] /\ next[q] <= Cardinality(idx[q]) /\ next[q] \in Nat
      BY <2>3, <3>1 DEF NextInv, TypeOK
    <3> QED BY <2>4, <2>5, <3>1, <3>2
  <2> QED BY <2>4, <2>6, <2>7, <2>8, <2>9
<1> QED BY <1>1, <1>2, <1>3, <1>4, <1>5

\* Inv is inductive.
LEMMA InvNext == Inv /\ [Next]_vars => Inv'
<1> SUFFICES ASSUME Inv, [Next]_vars PROVE Inv'
  OBVIOUS
<1>1. CASE Next
  <2>1. PICK p \in Inst :
          \/ Load(p) \/ Reload(p) \/ Exit(p) \/ (\E x \in Payload : DirectAppend(p, x))
          \/ Begin(p) \/ Timeout(p) \/ (\E batch \in Batch : Acquire(p, batch))
          \/ Proceed(p)
    BY <1>1 DEF Next
  <2> QED BY <2>1, InvControl, InvFiles DEF Proceed
<1>2. CASE UNCHANGED vars
  BY <1>2
  DEF vars, Inv, TypeOK, MutualExclusion, DiskInv, Numbers, IndexInv, NextInv
<1> QED BY <1>1, <1>2

\* The variables keep their types, whatever the sessions and the direct writers.
THEOREM TypeCorrect == Spec => []TypeOK
<1>1. Inv => TypeOK
  BY DEF Inv
<1> QED BY <1>1, InvInit, InvNext, PTL DEF Spec

\* The flock is held by exactly the instance that is past __enter__ in
\* anchor_to_chain, for any number of instances, through every failure.
THEOREM LockExcludes == Spec => []MutualExclusion
<1>1. Inv => MutualExclusion
  BY DEF Inv
<1> QED BY <1>1, InvInit, InvNext, PTL DEF Spec

\* get_chain_length is the next free number of its index, even with direct writers.
THEOREM LengthNumbers == Spec => []LengthIsNextNumber
<1>1. Inv => LengthIsNextNumber
  <2> SUFFICES ASSUME Inv PROVE LengthIsNextNumber
    OBVIOUS
  <2>1. PICK k \in Nat : Numbers(disk) = 0 .. k
    BY DEF Inv, DiskInv
  <2>2. ASSUME NEW f \in disk, f.num # 0 PROVE \E g \in disk : g.num + 1 = f.num
    <3>1. f.num \in 0 .. k
      BY <2>1 DEF Numbers
    <3>2. f.num - 1 \in Numbers(disk)
      BY <2>1, <2>2, <3>1
    <3> QED BY <3>1, <3>2 DEF Numbers, Inv, TypeOK, BlockFile
  <2>3. ASSUME NEW p \in Inst PROVE Numbers(idx[p]) = 0 .. (Cardinality(idx[p]) - 1)
    <3>1. CASE pc[p] = "down"
      BY <3>1, FS_EmptySet DEF Inv, IndexInv, Numbers
    <3>2. CASE pc[p] # "down"
      BY <3>2 DEF Inv, IndexInv, IsIndex
    <3> QED BY <3>1, <3>2
  <2> QED BY <2>2, <2>3 DEF LengthIsNextNumber
<1> QED BY <1>1, InvInit, InvNext, PTL DEF Spec

-----------------------------------------------------------------------------
(* One linked list, when every permanent block goes through anchor_to_chain *)

\* What the conversion loop still relies on: p continues from a block it knows.
Continues(p) == \E g \in idx[p] : g.num + 1 = next[p] /\ prev[p] = HashOf(g)

\* An instance that has written a block under the lock knows the whole chain,
\* and keeps knowing it until the lock is released.
Progress(p) ==
  /\ pc[p] \in {"scan", "convert"} => Continues(p)
  /\ pc[p] = "scan" => todo[p] # <<>>
  /\ pc[p] = "convert" => todo[p] # <<>> \/ idx[p] = disk
  /\ pc[p] \in {"post", "summary", "numbered", "done"} => idx[p] = disk
  /\ pc[p] \in {"summary", "numbered"} => prev[p] = HashOf(Latest(disk))
  /\ pc[p] = "numbered" => next[p] = Cardinality(disk)

ChainInv == Inv /\ ChainIntegrity /\ \A p \in Inst : Progress(p)

\* The directory itself is an index, and the only one that can be read from it.
LEMMA DiskIsIndex ==
  ASSUME ChainInv
  PROVE  IsIndex(disk) /\ \A S \in IndexesOf(disk) : S = disk
<1>1. PICK k \in Nat : Numbers(disk) = 0 .. k
  BY DEF ChainInv, Inv, DiskInv
<1>2. IsIndex(disk)
  BY <1>1, IndexOfNumbers DEF ChainInv, Inv, TypeOK, ChainIntegrity
<1>3. \A S \in IndexesOf(disk) : S = disk
  BY DEF IndexesOf, Numbers, UniqueNumbers, ChainInv, ChainIntegrity
<1> QED BY <1>2, <1>3

\* If the number p is about to use is free, p knows the whole chain and its next
\* block extends it: what a stale index cannot do is find a free number.
LEMMA FreeNumberMeansComplete ==
  ASSUME ChainInv, NEW p \in Inst, pc[p] \in {"convert", "numbered"},
         pc[p] = "convert" => todo[p] # <<>>, ~Collision(next[p])
  PROVE  /\ idx[p] = disk
         /\ next[p] = Cardinality(disk)
         /\ prev[p] = HashOf(Latest(disk))
<1>1. IsIndex(disk) /\ Cardinality(disk) \in Nat \ {0}
  BY DiskIsIndex, IndexSize
<1>2. CASE pc[p] = "convert"
  <2>1. /\ next[p] \in Nat
        /\ next[p] <= Cardinality(idx[p])
        /\ IsIndex(idx[p]) /\ idx[p] \subseteq disk
    BY <1>2 DEF ChainInv, Inv, TypeOK, IndexInv, NextInv
  <2>2. Cardinality(idx[p]) \in Nat /\ Cardinality(disk) <= next[p]
    BY <1>1, <2>1, IndexSize DEF Collision, IsIndex
  <2>3. Cardinality(idx[p]) <= Cardinality(disk)
    BY <1>1, <2>1, FS_Subset DEF IsIndex
  <2>4. next[p] = Cardinality(disk) /\ Cardinality(idx[p]) = Cardinality(disk)
    BY <1>1, <2>1, <2>2, <2>3
  <2>5. idx[p] = disk
    BY <1>1, <2>1, <2>4, FS_Subset DEF IsIndex
  <2>6. PICK g \in disk : g.num + 1 = next[p] /\ prev[p] = HashOf(g)
    BY <1>2, <2>5 DEF ChainInv, Progress, Continues
  <2>7. g.num = Cardinality(disk) - 1
    BY <1>1, <2>4, <2>6 DEF IsIndex, BlockFile
  <2>8. g = Latest(disk)
    BY <1>1, <2>7, LatestOfIndex DEF IsIndex, UniqueNumbers
  <2> QED BY <2>4, <2>5, <2>6, <2>8
<1>3. CASE pc[p] = "numbered"
  BY <1>3 DEF ChainInv, Progress
<1> QED BY <1>2, <1>3

\* A block that extends the chain leaves it one linked list.
LEMMA ChainGrows ==
  ASSUME ChainInv, NEW f \in BlockFile, disk' = disk \cup {f},
         f.num = Cardinality(disk), f.prev = HashOf(Latest(disk))
  PROVE  /\ ChainIntegrity'
         /\ IsIndex(disk')
         /\ Cardinality(disk') = Cardinality(disk) + 1
         /\ Latest(disk') = f
<1>1. IsIndex(disk) /\ Cardinality(disk) \in Nat \ {0}
  BY DiskIsIndex, IndexSize
<1>2. IsIndex(disk') /\ Cardinality(disk') = Cardinality(disk) + 1
  BY <1>1, IndexGrows
<1>3. Latest(disk) \in disk /\ Latest(disk).num + 1 = f.num
  BY <1>1, LatestOfIndex
<1>4. Linked(disk')
  BY <1>3 DEF Linked, ChainInv, ChainIntegrity
<1>5. Latest(disk') = f
  BY <1>1, <1>2, LatestOfIndex DEF IsIndex, UniqueNumbers
<1> QED BY <1>2, <1>4, <1>5 DEF ChainIntegrity, IsIndex

LEMMA ChainInit == Init => ChainInv
<1> SUFFICES ASSUME Init PROVE ChainInv
  OBVIOUS
<1>1. Inv
  BY InvInit
<1>2. ChainIntegrity
  BY DEF Init, ChainIntegrity, UniqueNumbers, Linked, GenesisBlock
<1>3. \A p \in Inst : Progress(p)
  BY DEF Init, Progress
<1> QED BY <1>1, <1>2, <1>3 DEF ChainInv

\* A step of p that writes nothing keeps what every other instance relies on.
LEMMA OthersProgress ==
  ASSUME ChainInv, NEW p \in Inst, NEW q \in Inst, q # p, disk' = disk,
         idx'[q] = idx[q], pc'[q] = pc[q], todo'[q] = todo[q],
         next'[q] = next[q], prev'[q] = prev[q]
  PROVE  Progress(q)'
BY DEF ChainInv, Progress, Continues

\* The actions that leave the block files alone.
LEMMA ChainControl ==
  ASSUME ChainInv, Inv', NEW p \in Inst,
         \/ Load(p) \/ Reload(p) \/ Exit(p) \/ Begin(p) \/ Timeout(p)
         \/ (\E batch \in Batch : Acquire(p, batch))
         \/ Scanned(p) \/ Collide(p) \/ SaveFails(p) \/ Converted(p)
         \/ SummaryStart(p) \/ SummaryNumber(p) \/ Interrupted(p) \/ Finish(p)
  PROVE  disk' = disk /\ ChainInv'
<1>1. disk' = disk
  BY DEF Load, Reload, Exit, Begin, Timeout, Acquire, Scanned, Collide, SaveFails,
         Converted, SummaryStart, SummaryNumber, Interrupted, Finish
<1>2. ChainIntegrity'
  BY <1>1 DEF ChainInv, ChainIntegrity, UniqueNumbers, Linked
<1>3. ASSUME NEW q \in Inst, q # p
      PROVE  Progress(q)'
  <2>1. /\ idx'[q] = idx[q] /\ pc'[q] = pc[q] /\ todo'[q] = todo[q]
        /\ next'[q] = next[q] /\ prev'[q] = prev[q]
    BY <1>3 DEF ChainInv, Inv, TypeOK, Load, Reload, Exit, Begin, Timeout, Acquire,
         Scanned, Collide, SaveFails, Abort, Converted, SummaryStart, SummaryNumber,
         Interrupted, Finish
  <2> QED BY <1>1, <1>3, <2>1, OthersProgress
<1>4. Progress(p)'
  <2> USE DEF ChainInv, Inv, TypeOK
  <2>1. CASE Load(p) \/ Exit(p) \/ Begin(p) \/ Timeout(p) \/ Collide(p) \/ SaveFails(p)
             \/ Interrupted(p) \/ Finish(p)
    <3>1. pc'[p] \in {"down", "idle", "wait"}
      BY <2>1 DEF Load, Exit, Begin, Timeout, Collide, SaveFails, Interrupted, Finish, Abort
    <3> QED BY <3>1 DEF Progress
  <2>2. CASE Reload(p)
    <3>1. idx'[p] = disk /\ UNCHANGED <<pc, todo, next, prev>>
      BY <2>2, DiskIsIndex DEF Reload
    <3>2. idx[p] \subseteq disk
      BY <2>2 DEF Reload, Awaiting, IndexInv
    <3> QED BY <1>1, <3>1, <3>2 DEF Progress, Continues
  <2>3. CASE \E batch \in Batch : Acquire(p, batch)
    <3>1. PICK batch \in Batch : Acquire(p, batch)
      BY <2>3
    <3>2. IsIndex(idx[p])
      BY <3>1 DEF Acquire, IndexInv
    <3>3. Latest(idx[p]) \in idx[p] /\ Latest(idx[p]).num + 1 = Cardinality(idx[p])
      <4>1. Cardinality(idx[p]) \in Nat
        BY <3>2, IndexSize
      <4>2. Latest(idx[p]) \in idx[p] /\ Latest(idx[p]).num = Cardinality(idx[p]) - 1
        BY <3>2, LatestOfIndex
      <4> HIDE DEF ChainInv, Inv, TypeOK
      <4> QED BY <4>1, <4>2
    <3>4. batch # <<>>
      BY BatchAssumption
    <3>5. /\ pc'[p] = "scan" /\ todo'[p] = batch /\ idx'[p] = idx[p]
          /\ next'[p] = Cardinality(idx[p]) /\ prev'[p] = HashOf(Latest(idx[p]))
      BY <3>1 DEF Acquire
    <3> QED BY <3>3, <3>4, <3>5 DEF Progress, Continues
  <2>4. CASE Scanned(p)
    BY <1>1, <2>4 DEF Scanned, Progress, Continues
  <2>5. CASE Converted(p)
    BY <1>1, <2>5 DEF Converted, Progress
  <2>6. CASE SummaryStart(p)
    <3>1. IsIndex(idx[p]) /\ idx[p] = disk
      BY <2>6 DEF SummaryStart, IndexInv, Progress
    <3>2. Unsummarized(idx[p]) # {}
      BY <2>6, DueMeansSome DEF SummaryStart
    <3>3. prev'[p] = HashOf(Latest(disk))
      BY <2>6, <3>1, <3>2, LatestIsUnsummarized DEF SummaryStart
    <3>4. pc'[p] = "summary" /\ idx'[p] = disk
      BY <2>6, <3>1 DEF SummaryStart
    <3> QED BY <1>1, <3>3, <3>4 DEF Progress
  <2>7. CASE SummaryNumber(p)
    BY <1>1, <2>7 DEF SummaryNumber, Progress
  <2> QED BY <2>1, <2>2, <2>3, <2>4, <2>5, <2>6, <2>7
<1>5. \A q \in Inst : Progress(q)'
  BY <1>3, <1>4
<1> QED BY <1>1, <1>2, <1>5 DEF ChainInv

\* While p is in the critical section nobody else is, so nobody else relies on
\* anything that the next block of p could disturb.
LEMMA AloneInSection ==
  ASSUME ChainInv, Inv', NEW p \in Inst, pc[p] \in Holding, NEW q \in Inst, q # p,
         pc'[q] = pc[q]
  PROVE  Progress(q)'
<1>1. pc[q] \notin Holding
  BY DEF ChainInv, Inv, MutualExclusion
<1> QED BY <1>1 DEF Progress, Holding

\* The actions that write a block file: the block is the next one of the chain,
\* and the writer's index is complete before and after.
LEMMA ChainWrite ==
  ASSUME ChainInv, Inv', NEW p \in Inst, Convert(p) \/ SummarySave(p)
  PROVE  /\ ChainInv'
         /\ idx[p] = disk /\ idx'[p] = disk'
         /\ \E f \in BlockFile : f.num = Cardinality(disk) /\ disk' = disk \cup {f}
<1>1. CASE Convert(p)
  <2> DEFINE f == [num |-> next[p], kind |-> "CONTENT", src |-> Head(todo[p]), prev |-> prev[p]]
  <2>1. pc[p] = "convert" /\ todo[p] # <<>> /\ ~Collision(next[p]) /\ disk' = disk \cup {f}
    BY <1>1 DEF Convert, Save
  <2>2. /\ idx[p] = disk
        /\ next[p] = Cardinality(disk)
        /\ prev[p] = HashOf(Latest(disk))
    BY <2>1, FreeNumberMeansComplete
  <2>3. Head(todo[p]) \in Payload
    BY <2>1 DEF ChainInv, Inv, TypeOK
  <2>4. f \in BlockFile /\ f.num = Cardinality(disk) /\ f.prev = HashOf(Latest(disk))
    BY <2>2, <2>3 DEF BlockFile, Kind, ChainInv, Inv, TypeOK
  <2>5. Extends(f, idx[p])
    BY <2>2, <2>4 DEF Extends
  <2>6. /\ idx' = [idx EXCEPT ![p] = @ \cup {f}]
        /\ next' = [next EXCEPT ![p] = @ + 1]
        /\ prev' = [prev EXCEPT ![p] = HashOf(f)]
        /\ pc' = pc
    BY <1>1, <2>5 DEF Convert, Save
  <2> HIDE DEF f
  <2>7. ChainIntegrity'
    BY <2>1, <2>4, ChainGrows
  <2>8. idx'[p] = disk'
    BY <2>1, <2>2, <2>6 DEF ChainInv, Inv, TypeOK
  <2>9. Continues(p)'
    <3>1. f \in idx'[p]
      BY <2>1, <2>8
    <3>2. f.num + 1 = next'[p] /\ prev'[p] = HashOf(f)
      BY <2>2, <2>4, <2>6 DEF ChainInv, Inv, TypeOK
    <3> QED BY <3>1, <3>2 DEF Continues
  <2>10. Progress(p)'
    BY <2>1, <2>6, <2>8, <2>9 DEF Progress
  <2>11. \A q \in Inst : Progress(q)'
    <3>1. ASSUME NEW q \in Inst, q # p PROVE Progress(q)'
      BY <2>1, <2>6, <3>1, AloneInSection DEF Holding
    <3> QED BY <2>10, <3>1
  <2>12. ChainInv'
    BY <2>7, <2>11 DEF ChainInv
  <2> QED BY <2>1, <2>2, <2>4, <2>8, <2>12
<1>2. CASE SummarySave(p)
  <2> DEFINE f == [num |-> next[p], kind |-> "SUMMARY", src |-> NoPayload, prev |-> prev[p]]
  <2>1. pc[p] = "numbered" /\ ~Collision(next[p]) /\ disk' = disk \cup {f}
    BY <1>2 DEF SummarySave, Save
  <2>2. /\ idx[p] = disk
        /\ next[p] = Cardinality(disk)
        /\ prev[p] = HashOf(Latest(disk))
    BY <2>1, FreeNumberMeansComplete
  <2>3. f \in BlockFile /\ f.num = Cardinality(disk) /\ f.prev = HashOf(Latest(disk))
    BY <2>2 DEF BlockFile, Kind, ChainInv, Inv, TypeOK
  <2>4. Extends(f, idx[p])
    BY <2>2, <2>3 DEF Extends
  <2>5. /\ idx' = [idx EXCEPT ![p] = @ \cup {f}]
        /\ pc' = [pc EXCEPT ![p] = "done"]
    BY <1>2, <2>4 DEF SummarySave, Save
  <2> HIDE DEF f
  <2>6. ChainIntegrity'
    BY <2>1, <2>3, ChainGrows
  <2>7. idx'[p] = disk' /\ pc'[p] = "done"
    BY <2>1, <2>2, <2>5 DEF ChainInv, Inv, TypeOK
  <2>8. Progress(p)'
    BY <2>7 DEF Progress
  <2>9. \A q \in Inst : Progress(q)'
    <3>1. ASSUME NEW q \in Inst, q # p PROVE Progress(q)'
      <4>1. pc'[q] = pc[q]
        BY <2>5, <3>1 DEF ChainInv, Inv, TypeOK
      <4> QED BY <2>1, <3>1, <4>1, AloneInSection DEF Holding
    <3> QED BY <2>8, <3>1
  <2>10. ChainInv'
    BY <2>6, <2>9 DEF ChainInv
  <2> QED BY <2>1, <2>2, <2>3, <2>7, <2>10
<1> QED BY <1>1, <1>2

\* Without direct writers ChainInv is inductive, and a step that writes does so
\* from a complete index.
LEMMA ChainNext ==
  ASSUME Direct = {}, ChainInv, [Next]_vars
  PROVE  /\ ChainInv'
         /\ \/ disk' = disk
            \/ /\ \E p \in Inst : idx[p] = disk /\ idx'[p] = disk'
               /\ \E f \in BlockFile : f.num = Cardinality(disk) /\ disk' = disk \cup {f}
<1>1. Inv'
  BY InvNext DEF ChainInv
<1>2. CASE Next
  <2>1. PICK p \in Inst :
          \/ Load(p) \/ Reload(p) \/ Exit(p) \/ (\E x \in Payload : DirectAppend(p, x))
          \/ Begin(p) \/ Timeout(p) \/ (\E batch \in Batch : Acquire(p, batch))
          \/ Proceed(p)
    BY <1>2 DEF Next
  <2>2. ~(\E x \in Payload : DirectAppend(p, x))
    BY DEF DirectAppend
  <2> QED BY <1>1, <2>1, <2>2, ChainControl, ChainWrite DEF Proceed
<1>3. CASE UNCHANGED vars
  BY <1>1, <1>3
  DEF vars, ChainInv, ChainIntegrity, UniqueNumbers, Linked, Progress, Continues
<1> QED BY <1>2, <1>3

\* The block files form one linked list with unique numbers, for any number of
\* Qube objects in any number of processes that load, reload, anchor, time out
\* and die at any point: the flock and the collision check of
\* _save_permanent_block are enough, as long as nobody writes without them.
THEOREM ChainIsLinked ==
  ASSUME Direct = {}
  PROVE  Spec => []ChainIntegrity
<1>1. ChainInv => ChainIntegrity
  BY DEF ChainInv
<1>2. ChainInv /\ [Next]_vars => ChainInv'
  BY ChainNext
<1> QED BY <1>1, <1>2, ChainInit, PTL DEF Spec

\* A block file is written only by an object whose index is complete, and stays
\* so: add_block never refuses a block that has already been saved.
THEOREM WritesAreUpToDate ==
  ASSUME Direct = {}
  PROVE  Spec => OnlyUpToDateWrites
<1>1. ChainInv /\ [Next]_vars => ChainInv'
  BY ChainNext
<1>2. ChainInv /\ [Next]_vars
        => [disk' # disk => \E p \in Inst : idx[p] = disk /\ idx'[p] = disk']_vars
  BY ChainNext
<1> QED BY <1>1, <1>2, ChainInit, PTL DEF Spec, OnlyUpToDateWrites

-----------------------------------------------------------------------------
(* The chain implements the append-only ledger *)

\* What the ledger records of a block.
EntryOf(f) == <<f.kind, f.src>>

\* Each position of the ledger of an index is the entry of the block numbered one less.
LEMMA LogOfIndex ==
  ASSUME NEW S, IsIndex(S)
  PROVE  /\ LogOf(S) \in Seq(Entries)
         /\ Len(LogOf(S)) = Cardinality(S)
         /\ \A f \in S : f.num + 1 \in 1 .. Cardinality(S) /\ LogOf(S)[f.num + 1] = EntryOf(f)
         /\ \A i \in 1 .. Cardinality(S) : \E f \in S : f.num + 1 = i
<1>1. Cardinality(S) \in Nat \ {0}
  BY IndexSize
<1>2. \A f \in S : f.num \in 0 .. (Cardinality(S) - 1) /\ BlockAt(S, f.num) = f
  BY DEF IsIndex, Numbers, UniqueNumbers, BlockAt
<1>3. \A i \in 1 .. Cardinality(S) : \E f \in S : f.num + 1 = i
  <2> SUFFICES ASSUME NEW i \in 1 .. Cardinality(S) PROVE \E f \in S : f.num + 1 = i
    OBVIOUS
  <2>1. i - 1 \in Numbers(S)
    BY <1>1 DEF IsIndex
  <2>2. PICK f \in S : f.num = i - 1
    BY <2>1 DEF Numbers
  <2> QED BY <2>2
<1>4. \A f \in S : f.num + 1 \in 1 .. Cardinality(S) /\ LogOf(S)[f.num + 1] = EntryOf(f)
  BY <1>1, <1>2 DEF LogOf, EntryOf
<1>5. \A f \in S : EntryOf(f) \in Entries
  BY DEF IsIndex, BlockFile, EntryOf, Entries
<1>6. LogOf(S) = [i \in 1 .. Cardinality(S) |-> LogOf(S)[i]]
  BY DEF LogOf
<1>7. \A i \in 1 .. Cardinality(S) : LogOf(S)[i] \in Entries
  BY <1>3, <1>4, <1>5
<1> HIDE DEF LogOf
<1>8. LogOf(S) \in [1 .. Cardinality(S) -> Entries]
  BY <1>6, <1>7
<1> QED BY <1>1, <1>3, <1>4, <1>8

\* A block that extends an index appends its entry to the ledger.
LEMMA LogGrows ==
  ASSUME NEW S, IsIndex(S), NEW f \in BlockFile, f.num = Cardinality(S)
  PROVE  LogOf(S \cup {f}) = Append(LogOf(S), EntryOf(f))
<1> DEFINE T == S \cup {f}
           n == Cardinality(S)
<1>1. IsIndex(T) /\ Cardinality(T) = n + 1 /\ n \in Nat
  BY IndexGrows, IndexSize
<1> HIDE DEF T
<1>2. /\ LogOf(S) \in Seq(Entries) /\ Len(LogOf(S)) = n
      /\ \A i \in 1 .. n : \E g \in S : g.num + 1 = i /\ LogOf(S)[i] = EntryOf(g)
  BY LogOfIndex
<1>3. /\ LogOf(T) \in Seq(Entries) /\ Len(LogOf(T)) = n + 1
      /\ \A g \in T : LogOf(T)[g.num + 1] = EntryOf(g)
  BY <1>1, LogOfIndex
<1>4. LogOf(T)[n + 1] = EntryOf(f)
  BY <1>3 DEF T
<1>5. \A i \in 1 .. n : LogOf(T)[i] = LogOf(S)[i]
  BY <1>2, <1>3 DEF T
<1>6. EntryOf(f) \in Entries
  BY DEF EntryOf, Entries, BlockFile
<1> HIDE DEF n
<1>7. LogOf(T) = Append(LogOf(S), EntryOf(f))
  BY <1>1, <1>2, <1>3, <1>4, <1>5, <1>6
<1> QED BY <1>7 DEF T

\* To its readers the directory of block files is an append-only ledger: no block
\* is rewritten, dropped or moved by any interleaving of anchors.
THEOREM ChainImplementsLedger ==
  ASSUME Direct = {}
  PROVE  Spec => ImplementsLedger
<1>1. Init => ChainLedger!Init
  <2> SUFFICES ASSUME Init PROVE LogOf(disk) = <<<<"GENESIS", NoPayload>>>>
    BY DEF ChainLedger!Init
  <2>1. disk = {GenesisBlock} /\ Cardinality(disk) = 1
    BY FS_Singleton DEF Init
  <2>2. BlockAt(disk, 0) = GenesisBlock
    BY <2>1 DEF BlockAt, GenesisBlock
  <2>3. \A i \in 1 .. 1 : <<BlockAt(disk, i - 1).kind, BlockAt(disk, i - 1).src>>
                          = <<"GENESIS", NoPayload>>
    BY <2>2 DEF GenesisBlock
  <2> QED BY <2>1, <2>3 DEF LogOf
<1>2. ChainInv /\ [Next]_vars => ChainInv'
  BY ChainNext
<1>3. ChainInv /\ [Next]_vars => [ChainLedger!Next]_(LogOf(disk))
  <2> SUFFICES ASSUME ChainInv, [Next]_vars
               PROVE  ChainLedger!Next \/ LogOf(disk)' = LogOf(disk)
    OBVIOUS
  <2>1. CASE disk' = disk
    BY <2>1 DEF LogOf, BlockAt
  <2>2. ASSUME NEW f \in BlockFile, f.num = Cardinality(disk), disk' = disk \cup {f}
        PROVE  ChainLedger!Next
    <3>1. LogOf(disk)' = Append(LogOf(disk), EntryOf(f))
      <4>1. LogOf(disk)' = LogOf(disk \cup {f})
        BY <2>2 DEF LogOf, BlockAt
      <4>2. LogOf(disk \cup {f}) = Append(LogOf(disk), EntryOf(f))
        BY <2>2, DiskIsIndex, LogGrows
      <4> QED BY <4>1, <4>2
    <3>2. EntryOf(f) \in Entries
      BY DEF EntryOf, Entries, BlockFile
    <3> QED BY <3>1, <3>2 DEF ChainLedger!Next, ChainLedger!AddBlock
  <2> QED BY <2>1, <2>2, ChainNext
<1> QED BY <1>1, <1>2, <1>3, ChainInit, PTL DEF Spec, ImplementsLedger, ChainLedger!Spec

=============================================================================
