--------------------------- MODULE RecordsProofs ----------------------------
(***************************************************************************)
(* Proofs about WalletTx and ChainState in the specification of MCRecords, *)
(* for any processes, payments, coins, messages and changes, and without   *)
(* the bounds that its run explores them in.                               *)
(***************************************************************************)
EXTENDS MCRecords, FiniteSetTheorems, TLAPS

-----------------------------------------------------------------------------
(* WalletTx: the inductive invariant *)

\* No book of any process has payment t; none has it as pending.
Absent(t) ==
  pending[t] = "none" /\ \A m \in Actor : table[m][t] = "none" /\ copy[m].pending[t] = "none"

NotPending(t) ==
  /\ pending[t] # "pending"
  /\ \A m \in Actor : table[m][t] # "pending" /\ copy[m].pending[t] # "pending"

\* A payment is in the books, expires and is sent only when there is one.
MadeInv == \A t \in Thing : input[t] = NoCoin => Absent(t) /\ t \notin due \cup asked

\* A payment is sent, answered and settled only when it has been handed to the
\* network; and a coin that was spent went to one payment.
CoinInv ==
  /\ sent \cup paid \subseteq asked /\ \A k \in calls : k.t \in asked
  /\ \A t \in paid : input[t] \notin unspent /\ \A u \in paid : input[t] = input[u] => t = u

\* The object of a call is in the table of its manager, if it is held; an automatic
\* payment is in no book, and its call holds no object.
CallInv ==
  \A k \in calls : /\ k.held => table[k.m][k.t] # "none"
                   /\ k.auto => Absent(k.t) /\ ~k.held

RejectedInv == \A t \in rejected \ contested : Absent(t) /\ t \notin asked /\ input[t] # NoCoin

Waits(t) == \E k \in calls : k.t = t

RecordedInv == booksClean => \A t \in asked : t \in recorded \/ t \in unheard \/ Waits(t)

OfferedInv == \A t \in asked : Waits(t) \/ t \in unheard \cup stray \/ NotPending(t)

WalletInv ==
  /\ W!TypeOK
  /\ MadeInv /\ CoinInv /\ CallInv
  /\ RejectedInv /\ RecordedInv /\ OfferedInv

-----------------------------------------------------------------------------
(* WalletTx: the parts of its steps *)

LEMMA WalletInit == W!Init => WalletInv
<1> SUFFICES ASSUME W!Init PROVE WalletInv
  OBVIOUS
<1> USE RecordsAssumption DEF W!WalletTxAssumption, W!Init
<1>1. W!TypeOK
  BY DEF W!TypeOK, W!Table, W!Status
<1>2. \A t \in Thing : Absent(t) /\ NotPending(t)
  BY DEF Absent, NotPending
<1> QED BY <1>1, <1>2 DEF WalletInv, MadeInv, CoinInv, CallInv, RejectedInv, RecordedInv,
        OfferedInv, Waits

\* Calls C become calls D: each is still there, for the same payment, and a call that
\* holds its object has held it.
SameCalls(C, D) ==
  /\ D \subseteq W!Call
  /\ \A d \in D : \E k \in C : k.m = d.m /\ k.t = d.t /\ k.auto = d.auto /\ (d.held => k.held)
  /\ \A k \in C : \E d \in D : d.t = k.t

LEMMA LetGoKeeps ==
  ASSUME NEW C \in SUBSET W!Call, NEW m \in Actor
  PROVE  /\ SameCalls(C, W!LetGo(C, m))
         /\ \A d \in W!LetGo(C, m) : d.held => d.m # m
<1> DEFINE new(k) == [k EXCEPT !.held = @ /\ k.m # m]
           D == W!LetGo(C, m)
<1>1. D = {new(k) : k \in C}
  BY DEF W!LetGo
<1>2. ASSUME NEW k \in C
      PROVE  /\ new(k) \in W!Call /\ new(k).m = k.m /\ new(k).t = k.t
             /\ new(k).auto = k.auto /\ new(k).held = (k.held /\ k.m # m)
  BY <1>2 DEF W!Call
<1> HIDE DEF new
<1> QED BY <1>1, <1>2 DEF SameCalls

LEMMA SameCallsWait ==
  ASSUME NEW C, NEW D, SameCalls(C, D), NEW t
  PROVE  (\E k \in C : k.t = t) <=> (\E k \in D : k.t = t)
<1>1. (\E k \in C : k.t = t) => (\E k \in D : k.t = t)
  BY DEF SameCalls
<1>2. ASSUME NEW d \in D, d.t = t PROVE \E k \in C : k.t = t
  <2>1. PICK k \in C : k.t = d.t
    BY DEF SameCalls
  <2> QED BY <1>2, <2>1
<1> QED BY <1>1, <1>2

\* What a save of the table of m leaves in the books of payment t.
LEMMA SaveBooks ==
  ASSUME W!TypeOK, NEW m \in Actor, NEW tbl \in W!Table, W!SavePending(m, tbl)
  PROVE  /\ pending' \in W!Table /\ recorded' = recorded
         /\ copy' \in [Actor -> [pending : W!Table, recorded : SUBSET Thing]]
         /\ table' \in [Actor -> W!Table]
         /\ copy'[m] = [pending |-> pending', recorded |-> recorded]
         /\ table'[m] = pending'
         /\ \A t \in Thing : pending'[t] = IF tbl[t] # "none" THEN tbl[t] ELSE pending[t]
         /\ \A n \in Actor \ {m} : copy'[n] = copy[n] /\ table'[n] = table[n]
<1> DEFINE list == W!MergedPending(tbl)
<1>1. list \in W!Table /\ \A t \in Thing : list[t] = IF tbl[t] # "none" THEN tbl[t] ELSE pending[t]
  BY DEF W!MergedPending, W!Table, W!TypeOK
<1> HIDE DEF list
<1>2. /\ pending' = list /\ recorded' = recorded
      /\ copy' = [copy EXCEPT ![m] = [pending |-> list, recorded |-> recorded]]
      /\ table' = [table EXCEPT ![m] = list]
  BY DEF W!SavePending, W!SaveState, list
<1> QED BY <1>1, <1>2 DEF W!TypeOK

\* Manager m gets list as its copy of the pending list, and perhaps as its table; the
\* list in the file is list as well.
LEMMA StateBooks ==
  ASSUME W!TypeOK, NEW m \in Actor, NEW list \in W!Table, NEW hist \in SUBSET Thing,
         copy' = [copy EXCEPT ![m] = [pending |-> list, recorded |-> hist]]
  PROVE  /\ copy' \in [Actor -> [pending : W!Table, recorded : SUBSET Thing]]
         /\ copy'[m].pending = list /\ \A n \in Actor \ {m} : copy'[n] = copy[n]
BY DEF W!TypeOK

LEMMA TableBooks ==
  ASSUME W!TypeOK, NEW m \in Actor, NEW list \in W!Table, table' = [table EXCEPT ![m] = list]
  PROVE  /\ table' \in [Actor -> W!Table]
         /\ table'[m] = list /\ \A n \in Actor \ {m} : table'[n] = table[n]
BY DEF W!TypeOK

\* What the books of a payment are is kept if every list in them comes from the books,
\* its entries marked as expired or broadcast at most.
Follows(t) ==
  LET known == {pending[t]} \cup {table[m][t] : m \in Actor} \cup {copy[m].pending[t] : m \in Actor}
      kept == known \cup (IF known = {"none"} THEN {} ELSE {"none", "expired", "broadcast"})
  IN  /\ pending'[t] \in kept
      /\ \A m \in Actor : table'[m][t] \in kept /\ copy'[m].pending[t] \in kept

LEMMA FollowsKeeps ==
  ASSUME NEW t, Follows(t)
  PROVE  (Absent(t) => Absent(t)') /\ (NotPending(t) => NotPending(t)')
<1> DEFINE T == {table[m][t] : m \in Actor}
           P == {copy[m].pending[t] : m \in Actor}
           known == {pending[t]} \cup T \cup P
           kept == known \cup (IF known = {"none"} THEN {} ELSE {"none", "expired", "broadcast"})
<1>1. /\ pending'[t] \in kept
      /\ \A m \in Actor : table'[m][t] \in kept /\ copy'[m].pending[t] \in kept
  BY DEF Follows
<1>2. Absent(t) => kept = {"none"}
  <2>1. Absent(t) => T \subseteq {"none"} /\ P \subseteq {"none"} /\ pending[t] = "none"
    BY DEF Absent
  <2> QED BY <2>1
<1>3. NotPending(t) => "pending" \notin kept
  BY DEF NotPending
<1> HIDE DEF kept
<1> QED BY <1>1, <1>2, <1>3 DEF Absent, NotPending

\* A save of a table that differs from that of m in marks only.
LEMMA SaveFollows ==
  ASSUME W!TypeOK, NEW m \in Actor, NEW tbl \in W!Table, W!SavePending(m, tbl),
         NEW t \in Thing,
         tbl[t] = table[m][t] \/ (table[m][t] # "none" /\ tbl[t] \in {"expired", "broadcast"})
  PROVE  Follows(t)
<1> DEFINE T == {table[n][t] : n \in Actor}
           P == {copy[n].pending[t] : n \in Actor}
           known == {pending[t]} \cup T \cup P
           kept == known \cup (IF known = {"none"} THEN {} ELSE {"none", "expired", "broadcast"})
<1>1. table[m][t] \in known /\ pending[t] \in known
  OBVIOUS
<1>2. tbl[t] \in kept /\ pending[t] \in kept
  BY <1>1
<1>3. \A n \in Actor : table[n][t] \in kept /\ copy[n].pending[t] \in kept
  OBVIOUS
<1>4. /\ pending'[t] = IF tbl[t] # "none" THEN tbl[t] ELSE pending[t]
      /\ copy'[m].pending = pending' /\ table'[m] = pending'
      /\ \A n \in Actor \ {m} : copy'[n] = copy[n] /\ table'[n] = table[n]
  BY SaveBooks
<1>5. \A n \in Actor : table'[n][t] \in kept /\ copy'[n].pending[t] \in kept
  BY <1>2, <1>3, <1>4
<1> QED BY <1>2, <1>4, <1>5 DEF Follows

\* A call of the next state works on what a call of this state worked on.
Continues(d) ==
  /\ \E k \in calls : k.t = d.t /\ k.auto = d.auto /\ (d.held => k.held)
  /\ d.held => table'[d.m][d.t] # "none"

\* A call stays, ends unheard, or leaves its payment in the history, and not pending
\* unless it is astray.
Concluded(k) ==
  \/ k.t \in unheard' \/ \E d \in calls' : d.t = k.t
  \/ k.t \in recorded' /\ (k.t \in stray' \/ NotPending(k.t)')

\* A step in which nothing is sent or settled.
LEMMA ConcludedWallet ==
  ASSUME WalletInv, W!TypeOK', RejectedInv',
         UNCHANGED <<sent, paid, unspent, asked>>,
         unheard \subseteq unheard', stray \subseteq stray',
         booksClean' => booksClean /\ recorded \subseteq recorded',
         \A t \in Thing : input[t] # NoCoin => input'[t] = input[t] /\ Follows(t),
         \A t \in Thing : input'[t] = NoCoin => Follows(t) /\ (t \in due' => t \in due),
         \A d \in calls' : Continues(d),
         \A k \in calls : Concluded(k)
  PROVE  WalletInv'
<1>1. \A t \in Thing : Follows(t) => (Absent(t) => Absent(t)') /\ (NotPending(t) => NotPending(t)')
  BY FollowsKeeps
<1>2. MadeInv'
  BY <1>1 DEF WalletInv, MadeInv
<1>3. asked \subseteq Thing /\ paid \subseteq Thing /\ \A k \in calls : k.t \in Thing
  BY DEF WalletInv, W!TypeOK, W!Call
<1>4. \A t \in asked : input[t] # NoCoin /\ input'[t] = input[t] /\ Follows(t)
  BY <1>3 DEF WalletInv, MadeInv
<1>5. CoinInv'
  BY <1>4 DEF WalletInv, CoinInv, Continues
<1>6. CallInv'
  <2> SUFFICES ASSUME NEW d \in calls'
               PROVE  (d.held => table'[d.m][d.t] # "none") /\ (d.auto => Absent(d.t)' /\ ~d.held)
    BY DEF CallInv
  <2>1. PICK k \in calls : k.t = d.t /\ k.auto = d.auto /\ (d.held => k.held)
    BY DEF Continues
  <2>2. k.t \in asked /\ (k.auto => Absent(k.t) /\ ~k.held)
    BY DEF WalletInv, CoinInv, CallInv
  <2>3. d.t \in Thing /\ Follows(d.t)
    BY <1>3, <1>4, <2>1, <2>2
  <2>4. d.auto => Absent(d.t)'
    BY <1>1, <2>1, <2>2, <2>3
  <2> QED BY <2>1, <2>2, <2>4 DEF Continues
<1>7. \A t : Waits(t) => \/ t \in unheard' \/ Waits(t)'
                         \/ t \in recorded' /\ (t \in stray' \/ NotPending(t)')
  BY DEF Waits, Concluded
<1>8. RecordedInv'
  BY <1>7 DEF WalletInv, RecordedInv
<1>9. OfferedInv'
  BY <1>1, <1>3, <1>4, <1>7 DEF WalletInv, OfferedInv
<1> QED BY <1>2, <1>5, <1>6, <1>8, <1>9 DEF WalletInv

\* A step in which nothing is answered or rejected either.
LEMMA QuietWallet ==
  ASSUME WalletInv, W!TypeOK',
         UNCHANGED <<sent, paid, unspent, asked, rejected, contested, stray>>,
         unheard \subseteq unheard', booksClean' => booksClean /\ recorded \subseteq recorded',
         \A t \in Thing : input[t] # NoCoin => input'[t] = input[t] /\ Follows(t),
         \A t \in Thing : input'[t] = NoCoin => Follows(t) /\ (t \in due' => t \in due),
         \A d \in calls' :
           /\ \E k \in calls : k.t = d.t /\ k.auto = d.auto /\ (d.held => k.held)
           /\ d.held => table'[d.m][d.t] # "none",
         \A k \in calls : k.t \in unheard' \/ \E d \in calls' : d.t = k.t
  PROVE  WalletInv'
<1>1. \A d \in calls' : Continues(d)
  BY DEF Continues
<1>2. \A k \in calls : Concluded(k)
  BY DEF Concluded
<1>3. RejectedInv'
  <2>1. rejected \subseteq Thing
    BY DEF WalletInv, W!TypeOK
  <2>2. \A t \in Thing : Follows(t) => (Absent(t) => Absent(t)')
    BY FollowsKeeps
  <2> QED BY <2>1, <2>2 DEF WalletInv, RejectedInv
<1> QED BY <1>1, <1>2, <1>3, ConcludedWallet

-----------------------------------------------------------------------------
(* WalletTx: its steps *)

\* A proposal of m enters the books; the calls of m let their objects go.
LEMMA ProposedStep ==
  ASSUME WalletInv, NEW m \in Actor, NEW t \in Thing, NEW c \in Coin, W!Proposed(m, t, c),
         NEW C \in SUBSET calls, calls' = W!LetGo(C, m),
         \A k \in calls \ C : k.t \in unheard',
         unheard' \in SUBSET Thing, unheard \subseteq unheard',
         UNCHANGED <<sent, paid, unspent, due, crashes, asked, rejected, contested, stray,
                     booksClean>>
  PROVE  WalletInv'
<1> DEFINE tbl == [table[m] EXCEPT ![t] = "pending"]
<1>1. W!TypeOK /\ calls \in SUBSET W!Call /\ C \in SUBSET W!Call
  BY DEF WalletInv, W!TypeOK
<1>2. /\ input[t] = NoCoin /\ input' = [input EXCEPT ![t] = c] /\ W!SavePending(m, tbl)
  BY DEF W!Proposed
<1>3. /\ tbl \in W!Table
      /\ \A u \in Thing \ {t} : tbl[u] = table[m][u]
  BY <1>1 DEF W!TypeOK, W!Table, W!Status
<1> HIDE DEF tbl
<1>4. /\ pending' \in W!Table /\ recorded' = recorded
      /\ copy' \in [Actor -> [pending : W!Table, recorded : SUBSET Thing]]
      /\ table' \in [Actor -> W!Table]
      /\ \A n \in Actor \ {m} : table'[n] = table[n]
  BY <1>1, <1>2, <1>3, SaveBooks
<1>5. SameCalls(C, calls') /\ \A d \in calls' : d.held => d.m # m
  BY <1>1, LetGoKeeps
<1>6. input' \in [Thing -> Coin \cup {NoCoin}] /\ input'[t] = c
      /\ \A u \in Thing \ {t} : input'[u] = input[u]
  BY <1>1, <1>2 DEF W!TypeOK
<1>7. W!TypeOK'
  BY <1>1, <1>4, <1>5, <1>6 DEF W!TypeOK, SameCalls
<1>8. \A u \in Thing \ {t} : Follows(u)
  BY <1>1, <1>2, <1>3, SaveFollows
<1>9. c # NoCoin
  BY RecordsAssumption DEF W!WalletTxAssumption
<1>10. ASSUME NEW d \in calls'
       PROVE  /\ \E k \in calls : k.t = d.t /\ k.auto = d.auto /\ (d.held => k.held)
              /\ d.held => table'[d.m][d.t] # "none"
  <2>1. PICK k \in C : k.m = d.m /\ k.t = d.t /\ k.auto = d.auto /\ (d.held => k.held)
    BY <1>5 DEF SameCalls
  <2>2. d.held => table[d.m][d.t] # "none" /\ d.m \in Actor \ {m}
    BY <1>1, <1>5, <2>1 DEF WalletInv, CallInv, W!Call
  <2> QED BY <1>4, <2>1, <2>2
<1>11. \A k \in calls : k.t \in unheard' \/ \E d \in calls' : d.t = k.t
  BY <1>5 DEF SameCalls
<1> QED BY <1>2, <1>4, <1>6, <1>7, <1>8, <1>9, <1>10, <1>11, QuietWallet

\* The table of m is saved with marks in it, and its calls let their objects go.
LEMMA MarkedStep ==
  ASSUME WalletInv, NEW m \in Actor, NEW tbl \in W!Table, W!SavePending(m, tbl),
         \A t \in Thing :
           tbl[t] = table[m][t] \/ (table[m][t] # "none" /\ tbl[t] \in {"expired", "broadcast"}),
         calls' = W!LetGo(calls, m),
         UNCHANGED <<input, sent, paid, unspent, due, crashes, asked, unheard, rejected,
                     contested, stray, booksClean>>
  PROVE  WalletInv'
<1>1. W!TypeOK /\ calls \in SUBSET W!Call
  BY DEF WalletInv, W!TypeOK
<1>2. /\ pending' \in W!Table /\ recorded' = recorded
      /\ copy' \in [Actor -> [pending : W!Table, recorded : SUBSET Thing]]
      /\ table' \in [Actor -> W!Table]
      /\ \A n \in Actor \ {m} : table'[n] = table[n]
  BY <1>1, SaveBooks
<1>3. SameCalls(calls, calls') /\ \A d \in calls' : d.held => d.m # m
  BY <1>1, LetGoKeeps
<1>4. W!TypeOK'
  BY <1>1, <1>2, <1>3 DEF W!TypeOK, SameCalls
<1>5. \A u \in Thing : Follows(u)
  BY <1>1, SaveFollows
<1>6. ASSUME NEW d \in calls'
      PROVE  /\ \E k \in calls : k.t = d.t /\ k.auto = d.auto /\ (d.held => k.held)
             /\ d.held => table'[d.m][d.t] # "none"
  <2>1. PICK k \in calls : k.m = d.m /\ k.t = d.t /\ k.auto = d.auto /\ (d.held => k.held)
    BY <1>3 DEF SameCalls
  <2>2. d.held => table[d.m][d.t] # "none" /\ d.m \in Actor \ {m}
    BY <1>1, <1>3, <2>1 DEF WalletInv, CallInv, W!Call
  <2> QED BY <1>2, <2>1, <2>2
<1>7. \A k \in calls : k.t \in unheard' \/ \E d \in calls' : d.t = k.t
  BY <1>3 DEF SameCalls
<1> QED BY <1>2, <1>4, <1>5, <1>6, <1>7, QuietWallet

\* Copies and tables change, but every list in them comes from the books.
LEMMA CopiedStep ==
  ASSUME WalletInv, W!TypeOK',
         \A t \in Thing : Follows(t),
         calls' \subseteq calls, \A k \in calls \ calls' : k.t \in unheard',
         \A k \in calls' : k.held => table'[k.m][k.t] # "none",
         unheard \subseteq unheard', booksClean' => booksClean /\ recorded \subseteq recorded',
         UNCHANGED <<input, sent, paid, unspent, due, asked, rejected, contested, stray>>
  PROVE  WalletInv'
<1>1. \A d \in calls' :
        /\ \E k \in calls : k.t = d.t /\ k.auto = d.auto /\ (d.held => k.held)
        /\ d.held => table'[d.m][d.t] # "none"
  OBVIOUS
<1>2. \A k \in calls : k.t \in unheard' \/ \E d \in calls' : d.t = k.t
  OBVIOUS
<1> QED BY <1>1, <1>2, QuietWallet

LEMMA BooksFollow ==
  ASSUME NEW t, pending'[t] = pending[t], \A m \in Actor : table'[m][t] = table[m][t],
         \A m \in Actor : copy'[m].pending[t] = copy[m].pending[t]
  PROVE  Follows(t)
BY DEF Follows

\* Copies and the list of the file are overwritten with one another.
LEMMA CopiesFollow ==
  ASSUME W!TypeOK, NEW m \in Actor, NEW list \in W!Table, NEW t \in Thing,
         list = pending \/ list = copy[m].pending,
         pending' = list, \A n \in Actor \ {m} : copy'[n] = copy[n], copy'[m].pending = list,
         \A n \in Actor : table'[n] = table[n] \/ table'[n] = pending
  PROVE  Follows(t)
<1> DEFINE T == {table[n][t] : n \in Actor}
           P == {copy[n].pending[t] : n \in Actor}
           known == {pending[t]} \cup T \cup P
           kept == known \cup (IF known = {"none"} THEN {} ELSE {"none", "expired", "broadcast"})
<1>1. pending[t] \in kept /\ \A n \in Actor : table[n][t] \in kept /\ copy[n].pending[t] \in kept
  OBVIOUS
<1> HIDE DEF kept
<1>2. list[t] \in kept
  BY <1>1
<1>3. /\ pending'[t] \in kept
      /\ \A n \in Actor : table'[n][t] \in kept /\ copy'[n].pending[t] \in kept
  BY <1>1, <1>2
<1> QED BY <1>3 DEF Follows, kept

\* Books are copied, calls end without an answer, a proposal runs out.
LEMMA CopyingSteps ==
  ASSUME WalletInv,
         \/ \E m \in Actor : W!OtherSave(m) \/ W!Refresh(m) \/ W!Restart(m)
         \/ \E k \in calls : W!ApproveFailed(k)
         \/ \E t \in Thing : W!Expire(t)
  PROVE  WalletInv'
<1>1. W!TypeOK /\ \A k \in calls : k.t \in Thing /\ k.m \in Actor
  BY DEF WalletInv, W!TypeOK, W!Call
<1>2. \A k \in calls : k.held => table[k.m][k.t] # "none"
  BY DEF WalletInv, CallInv
<1>3. ASSUME NEW m \in Actor, W!OtherSave(m) PROVE WalletInv'
  <2> DEFINE list == copy[m].pending
             hist == copy[m].recorded
  <2>1. list \in W!Table /\ hist \in SUBSET Thing
    BY <1>1 DEF W!TypeOK
  <2>2. /\ pending' = list /\ recorded' = hist /\ ~booksClean'
        /\ copy' = [copy EXCEPT ![m] = [pending |-> list, recorded |-> hist]]
        /\ UNCHANGED <<input, unspent, sent, paid, due, table, calls, crashes, asked, unheard,
                       rejected, contested, stray>>
    BY <1>3 DEF W!OtherSave, W!SaveState, W!network
  <2>3. list = copy[m].pending
    OBVIOUS
  <2> HIDE DEF list, hist
  <2>4. /\ copy' \in [Actor -> [pending : W!Table, recorded : SUBSET Thing]]
        /\ copy'[m].pending = list /\ \A n \in Actor \ {m} : copy'[n] = copy[n]
    BY <1>1, <2>1, <2>2, StateBooks
  <2>5. \A t \in Thing : Follows(t)
    BY <1>1, <2>1, <2>2, <2>3, <2>4, CopiesFollow
  <2>6. W!TypeOK'
    <3>1. ~booksClean' /\ booksClean' \in BOOLEAN
      BY <1>3 DEF W!OtherSave
    <3> QED BY <1>1, <2>1, <2>2, <2>4, <3>1 DEF W!TypeOK
  <2> QED BY <1>2, <2>2, <2>5, <2>6, CopiedStep
<1>4. ASSUME NEW m \in Actor, W!Refresh(m) \/ W!Restart(m) PROVE WalletInv'
  <2>1. pending \in W!Table /\ recorded \in SUBSET Thing
    BY <1>1 DEF W!TypeOK
  <2>2. /\ pending' = pending /\ recorded' = recorded /\ booksClean' = booksClean
        /\ copy' = [copy EXCEPT ![m] = [pending |-> pending, recorded |-> recorded]]
        /\ UNCHANGED <<input, unspent, sent, paid, due, asked, rejected, contested, stray>>
        /\ \/ table' = table /\ calls' = calls /\ unheard' = unheard /\ crashes' = crashes
           \/ /\ table' = [table EXCEPT ![m] = pending]
              /\ calls' = {k \in calls : k.m # m}
              /\ unheard' = unheard \cup {k.t : k \in {j \in calls : j.m = m}}
              /\ crashes < MaxCrashes /\ crashes' = crashes + 1
    BY <1>4 DEF W!Refresh, W!Restart, W!network
  <2>3. /\ copy' \in [Actor -> [pending : W!Table, recorded : SUBSET Thing]]
        /\ copy'[m].pending = pending /\ \A n \in Actor \ {m} : copy'[n] = copy[n]
    BY <1>1, <2>1, <2>2, StateBooks
  <2>4. /\ table' \in [Actor -> W!Table]
        /\ \A n \in Actor : table'[n] = table[n] \/ table'[n] = pending
        /\ \A n \in Actor \ {m} : table'[n] = table[n]
        /\ table' = table \/ \A k \in calls' : k.m # m
    BY <1>1, <2>1, <2>2 DEF W!TypeOK
  <2>5. \A t \in Thing : Follows(t)
    BY <1>1, <2>1, <2>2, <2>3, <2>4, CopiesFollow
  <2>6. /\ calls' \subseteq calls /\ \A k \in calls \ calls' : k.t \in unheard'
        /\ unheard \subseteq unheard' /\ unheard' \subseteq Thing
    BY <1>1, <2>2 DEF W!TypeOK
  <2>7. W!TypeOK'
    <3>1. crashes' \in 0 .. MaxCrashes
      BY <1>1, <2>2, RecordsAssumption DEF W!TypeOK, W!WalletTxAssumption
    <3> QED BY <1>1, <2>1, <2>2, <2>3, <2>4, <2>6, <3>1 DEF W!TypeOK
  <2>8. \A k \in calls' : k.held => table'[k.m][k.t] # "none"
    BY <1>1, <1>2, <2>4, <2>6
  <2> QED BY <2>2, <2>5, <2>6, <2>7, <2>8, CopiedStep
<1>5. ASSUME NEW k \in calls, W!ApproveFailed(k) PROVE WalletInv'
  <2>1. /\ calls' = calls \ {k} /\ unheard' = unheard \cup {k.t}
        /\ UNCHANGED <<input, unspent, sent, paid, due, pending, recorded, copy, table, crashes,
                       asked, rejected, contested, stray, booksClean>>
    BY <1>5 DEF W!ApproveFailed, W!Unheard, W!network, W!books
  <2>2. W!TypeOK'
    BY <1>1, <2>1 DEF W!TypeOK
  <2>3. \A t \in Thing : Follows(t)
    BY <2>1, BooksFollow
  <2>4. \A j \in calls' : j.held => table'[j.m][j.t] # "none"
    BY <1>2, <2>1
  <2> QED BY <2>1, <2>2, <2>3, <2>4, CopiedStep
<1>6. ASSUME NEW t \in Thing, W!Expire(t) PROVE WalletInv'
  <2>1. /\ input[t] # NoCoin /\ due' = due \cup {t}
        /\ UNCHANGED <<input, unspent, sent, paid, pending, recorded, copy, table, calls,
                       crashes, asked, unheard, rejected, contested, stray, booksClean>>
    BY <1>6 DEF W!Expire, W!network, W!books
  <2>2. W!TypeOK'
    BY <1>1, <2>1 DEF W!TypeOK
  <2>3. \A u \in Thing : Follows(u)
    BY <2>1, BooksFollow
  <2>4. \A d \in calls' :
          /\ \E k \in calls : k.t = d.t /\ k.auto = d.auto /\ (d.held => k.held)
          /\ d.held => table'[d.m][d.t] # "none"
    BY <1>2, <2>1
  <2> QED BY <2>1, <2>2, <2>3, <2>4, QuietWallet
<1> QED BY <1>3, <1>4, <1>5, <1>6

\* A payment is proposed, by the Qube or after its automatic payment failed; old
\* proposals are marked.
LEMMA ProposingSteps ==
  ASSUME WalletInv,
         \/ \E m \in Actor, t \in Thing, c \in Coin : W!Propose(m, t, c)
         \/ \E k \in calls, t \in Thing, c \in Coin : W!AutoFailed(k, t, c)
         \/ \E m \in Actor : W!ExpireOld(m)
  PROVE  WalletInv'
<1>1. W!TypeOK /\ \A k \in calls : k.t \in Thing /\ k.m \in Actor
  BY DEF WalletInv, W!TypeOK, W!Call
<1>2. ASSUME NEW m \in Actor, NEW t \in Thing, NEW c \in Coin, W!Propose(m, t, c)
      PROVE  WalletInv'
  <2>1. /\ W!Proposed(m, t, c) /\ calls' = W!LetGo(calls, m)
        /\ UNCHANGED <<sent, paid, unspent, due, crashes, asked, unheard, rejected, contested,
                       stray, booksClean>>
    BY <1>2 DEF W!Propose, W!network
  <2>2. unheard \in SUBSET Thing
    BY <1>1 DEF W!TypeOK
  <2> QED BY <2>1, <2>2, ProposedStep
<1>3. ASSUME NEW k \in calls, NEW t \in Thing, NEW c \in Coin, W!AutoFailed(k, t, c)
      PROVE  WalletInv'
  <2> DEFINE C == calls \ {k}
  <2>1. /\ W!Proposed(k.m, t, c) /\ calls' = W!LetGo(C, k.m) /\ unheard' = unheard \cup {k.t}
        /\ UNCHANGED <<sent, paid, unspent, due, crashes, asked, rejected, contested,
                       stray, booksClean>>
    BY <1>3 DEF W!AutoFailed, W!Unheard, W!network
  <2>2. unheard' \in SUBSET Thing /\ unheard \subseteq unheard' /\ k.m \in Actor
    BY <1>1, <2>1 DEF W!TypeOK
  <2>3. C \in SUBSET calls /\ \A j \in calls \ C : j.t \in unheard'
    BY <2>1
  <2> HIDE DEF C
  <2> QED BY <2>1, <2>2, <2>3, ProposedStep
<1>4. ASSUME NEW m \in Actor, W!ExpireOld(m) PROVE WalletInv'
  <2> DEFINE old == {t \in due : table[m][t] = "pending"}
             tbl == [t \in Thing |-> IF t \in old THEN "expired" ELSE table[m][t]]
  <2>1. /\ W!SavePending(m, tbl) /\ calls' = W!LetGo(calls, m)
        /\ UNCHANGED <<input, sent, paid, unspent, due, crashes, asked, unheard, rejected,
                       contested, stray, booksClean>>
    BY <1>4 DEF W!ExpireOld, W!network
  <2>2. /\ tbl \in W!Table
        /\ \A t \in Thing :
             tbl[t] = table[m][t] \/ (table[m][t] # "none" /\ tbl[t] \in {"expired", "broadcast"})
    BY <1>1 DEF W!TypeOK, W!Table, W!Status
  <2> HIDE DEF tbl
  <2> QED BY <2>1, <2>2, MarkedStep
<1> QED BY <1>2, <1>3, <1>4

\* A step in which payment t is handed to the network by a new call.
LEMMA SentWallet ==
  ASSUME WalletInv, W!TypeOK',
         NEW t \in Thing, t \notin rejected \ contested, input'[t] # NoCoin,
         \A u \in Thing : input[u] # NoCoin \/ u # t => input'[u] = input[u],
         sent' = sent \cup {t}, asked' = asked \cup {t},
         UNCHANGED <<paid, unspent, due, rejected, contested, stray, unheard, booksClean, recorded>>,
         \A u \in Thing : Follows(u),
         NEW D, NEW call, calls' = D \cup {call}, call.t = t,
         call.held => table'[call.m][t] # "none", call.auto => Absent(t) /\ ~call.held,
         \A d \in D : /\ \E k \in calls : k.t = d.t /\ k.auto = d.auto /\ (d.held => k.held)
                      /\ d.held => table'[d.m][d.t] # "none",
         \A k \in calls : \E d \in D : d.t = k.t
  PROVE  WalletInv'
<1>1. \A u \in Thing : (Absent(u) => Absent(u)') /\ (NotPending(u) => NotPending(u)')
  BY FollowsKeeps
<1>2. MadeInv'
  BY <1>1 DEF WalletInv, MadeInv
<1>3. asked \subseteq Thing /\ paid \subseteq Thing /\ \A k \in calls : k.t \in Thing
  BY DEF WalletInv, W!TypeOK, W!Call
<1>4. \A u \in asked : input[u] # NoCoin /\ input'[u] = input[u]
  BY <1>3 DEF WalletInv, MadeInv
<1>5. CoinInv'
  <2>1. sent' \cup paid' \subseteq asked' /\ \A k \in calls' : k.t \in asked'
    BY DEF WalletInv, CoinInv
  <2>2. \A u \in paid : u \in asked
    BY DEF WalletInv, CoinInv
  <2> QED BY <1>4, <2>1, <2>2 DEF WalletInv, CoinInv
<1>6. CallInv'
  <2> SUFFICES ASSUME NEW d \in D
               PROVE  (d.held => table'[d.m][d.t] # "none") /\ (d.auto => Absent(d.t)' /\ ~d.held)
    BY <1>1 DEF CallInv
  <2>1. PICK k \in calls : k.t = d.t /\ k.auto = d.auto /\ (d.held => k.held)
    OBVIOUS
  <2>2. k.auto => Absent(k.t) /\ ~k.held
    BY DEF WalletInv, CallInv
  <2>3. d.auto => Absent(d.t)'
    BY <1>1, <1>3, <2>1, <2>2
  <2> QED BY <2>1, <2>2, <2>3
<1>7. RejectedInv'
  <2>1. rejected \subseteq Thing
    BY DEF WalletInv, W!TypeOK
  <2> QED BY <1>1, <2>1 DEF WalletInv, RejectedInv
<1>8. \A u : Waits(u) \/ u = t => Waits(u)'
  BY DEF Waits
<1>9. RecordedInv'
  BY <1>8 DEF WalletInv, RecordedInv
<1>10. OfferedInv'
  BY <1>1, <1>3, <1>8 DEF WalletInv, OfferedInv
<1> QED BY <1>2, <1>5, <1>6, <1>7, <1>9, <1>10 DEF WalletInv

\* The owner approves, in time or too late; a payment is sent without a proposal.
LEMMA SendingSteps ==
  ASSUME WalletInv,
         \/ \E m \in Actor, t \in Thing : W!Approve(m, t)
         \/ \E m \in Actor, t \in Thing, c \in Coin : W!AutoSend(m, t, c)
  PROVE  WalletInv'
<1>1. W!TypeOK /\ \A k \in calls : k.t \in Thing /\ k.m \in Actor
  BY DEF WalletInv, W!TypeOK, W!Call
<1>2. \A k \in calls : k.held => table[k.m][k.t] # "none"
  BY DEF WalletInv, CallInv
<1>3. ASSUME NEW m \in Actor, NEW t \in Thing, W!Approve(m, t), t \notin due PROVE WalletInv'
  <2> DEFINE call == [m |-> m, t |-> t, auto |-> FALSE, held |-> TRUE]
             D == W!LetGo(calls, m)
  <2>1. /\ pending[t] = "pending" /\ calls' = D \cup {call}
        /\ sent' = sent \cup {t} /\ asked' = asked \cup {t}
        /\ table' = [table EXCEPT ![m] = pending]
        /\ copy' = [copy EXCEPT ![m] = [pending |-> pending, recorded |-> recorded]]
        /\ UNCHANGED <<input, unspent, paid, due, pending, recorded, crashes, unheard, rejected,
                       contested, stray, booksClean>>
    BY <1>3 DEF W!Approve, W!Ask
  <2>2. call \in W!Call /\ call.t = t /\ call.m = m /\ ~call.auto
    BY DEF W!Call
  <2>3. SameCalls(calls, D) /\ \A d \in D : d.held => d.m # m
    BY <1>1, LetGoKeeps DEF W!TypeOK
  <2> HIDE DEF call, D
  <2>4. pending \in W!Table /\ recorded \in SUBSET Thing
    BY <1>1 DEF W!TypeOK
  <2>5. /\ copy' \in [Actor -> [pending : W!Table, recorded : SUBSET Thing]]
        /\ copy'[m].pending = pending /\ \A n \in Actor \ {m} : copy'[n] = copy[n]
    BY <1>1, <2>1, <2>4, StateBooks
  <2>6. /\ table' \in [Actor -> W!Table]
        /\ table'[m] = pending /\ \A n \in Actor \ {m} : table'[n] = table[n]
    BY <1>1, <2>1, <2>4, TableBooks
  <2>7. \A u \in Thing : Follows(u)
    BY <1>1, <2>1, <2>4, <2>5, <2>6, CopiesFollow
  <2>8. W!TypeOK'
    BY <1>1, <2>1, <2>2, <2>3, <2>4, <2>5, <2>6 DEF W!TypeOK, SameCalls
  <2>9. ~Absent(t) /\ input[t] # NoCoin /\ t \notin rejected \ contested
    BY <2>1 DEF Absent, WalletInv, MadeInv, RejectedInv
  <2>10. ASSUME NEW d \in D
         PROVE  /\ \E k \in calls : k.t = d.t /\ k.auto = d.auto /\ (d.held => k.held)
                /\ d.held => table'[d.m][d.t] # "none"
    <3>1. PICK k \in calls : k.m = d.m /\ k.t = d.t /\ k.auto = d.auto /\ (d.held => k.held)
      BY <2>3 DEF SameCalls
    <3>2. d.held => d.m \in Actor \ {m} /\ table[d.m][d.t] # "none"
      BY <1>1, <1>2, <2>3, <3>1
    <3> QED BY <2>6, <3>1, <3>2
  <2>11. \A k \in calls : \E d \in D : d.t = k.t
    BY <2>3 DEF SameCalls
  <2>12. table'[m][t] # "none"
    BY <2>1, <2>6
  <2>13. (call.held => table'[call.m][t] # "none") /\ (call.auto => Absent(t) /\ ~call.held)
    BY <2>2, <2>12
  <2>14. input'[t] # NoCoin /\ \A u \in Thing : input[u] # NoCoin \/ u # t => input'[u] = input[u]
    BY <2>1, <2>9
  <2> QED BY <2>1, <2>2, <2>7, <2>8, <2>9, <2>10, <2>11, <2>13, <2>14, SentWallet
<1>4. ASSUME NEW m \in Actor, NEW t \in Thing, W!Approve(m, t), t \in due PROVE WalletInv'
  <2> DEFINE list == [pending EXCEPT ![t] = "expired"]
  <2>1. /\ pending[t] = "pending" /\ calls' = W!LetGo(calls, m)
        /\ W!SaveState(m, list, recorded) /\ table' = [table EXCEPT ![m] = pending']
        /\ UNCHANGED <<input, unspent, sent, paid, due, crashes, asked, unheard, rejected,
                       contested, stray, booksClean>>
    BY <1>3, <1>4 DEF W!Approve
  <2>2. /\ list \in W!Table /\ list[t] = "expired"
        /\ \A u \in Thing \ {t} : list[u] = pending[u]
    BY <1>1 DEF W!TypeOK, W!Table, W!Status
  <2> HIDE DEF list
  <2>3. /\ pending' = list /\ recorded' = recorded /\ recorded \in SUBSET Thing
        /\ copy' = [copy EXCEPT ![m] = [pending |-> list, recorded |-> recorded]]
        /\ table' = [table EXCEPT ![m] = list]
    BY <1>1, <2>1 DEF W!SaveState, W!TypeOK
  <2>4. /\ copy' \in [Actor -> [pending : W!Table, recorded : SUBSET Thing]]
        /\ copy'[m].pending = list /\ \A n \in Actor \ {m} : copy'[n] = copy[n]
    BY <1>1, <2>2, <2>3, StateBooks
  <2>5. /\ table' \in [Actor -> W!Table]
        /\ table'[m] = list /\ \A n \in Actor \ {m} : table'[n] = table[n]
    BY <1>1, <2>2, <2>3, TableBooks
  <2>6. SameCalls(calls, calls') /\ \A d \in calls' : d.held => d.m # m
    BY <1>1, <2>1, LetGoKeeps DEF W!TypeOK
  <2>7. W!TypeOK'
    BY <1>1, <2>1, <2>2, <2>3, <2>4, <2>5, <2>6 DEF W!TypeOK, SameCalls
  <2>8. ASSUME NEW u \in Thing PROVE Follows(u)
    <3> DEFINE T == {table[n][u] : n \in Actor}
               P == {copy[n].pending[u] : n \in Actor}
               known == {pending[u]} \cup T \cup P
               kept == known \cup (IF known = {"none"} THEN {} ELSE {"none", "expired", "broadcast"})
    <3>1. pending[u] \in kept /\ \A n \in Actor : table[n][u] \in kept /\ copy[n].pending[u] \in kept
      OBVIOUS
    <3>2. list[u] \in kept
      BY <2>1, <2>2
    <3> HIDE DEF kept
    <3>3. /\ pending'[u] \in kept
          /\ \A n \in Actor : table'[n][u] \in kept /\ copy'[n].pending[u] \in kept
      BY <2>3, <2>4, <2>5, <3>1, <3>2
    <3> QED BY <3>3 DEF Follows, kept
  <2>9. ASSUME NEW d \in calls'
        PROVE  /\ \E k \in calls : k.t = d.t /\ k.auto = d.auto /\ (d.held => k.held)
               /\ d.held => table'[d.m][d.t] # "none"
    <3>1. PICK k \in calls : k.m = d.m /\ k.t = d.t /\ k.auto = d.auto /\ (d.held => k.held)
      BY <2>6 DEF SameCalls
    <3>2. d.held => d.m \in Actor \ {m} /\ table[d.m][d.t] # "none"
      BY <1>1, <1>2, <2>6, <3>1
    <3> QED BY <2>5, <3>1, <3>2
  <2>10. \A k \in calls : k.t \in unheard' \/ \E d \in calls' : d.t = k.t
    BY <2>6 DEF SameCalls
  <2> QED BY <2>1, <2>3, <2>7, <2>8, <2>9, <2>10, QuietWallet
<1>5. ASSUME NEW m \in Actor, NEW t \in Thing, NEW c \in Coin, W!AutoSend(m, t, c)
      PROVE  WalletInv'
  <2> DEFINE call == [m |-> m, t |-> t, auto |-> TRUE, held |-> FALSE]
  <2>1. /\ input[t] = NoCoin /\ input' = [input EXCEPT ![t] = c] /\ calls' = calls \cup {call}
        /\ sent' = sent \cup {t} /\ asked' = asked \cup {t}
        /\ UNCHANGED <<unspent, paid, due, pending, recorded, copy, table, crashes, unheard,
                       rejected, contested, stray, booksClean>>
    BY <1>5 DEF W!AutoSend, W!books
  <2>2. call \in W!Call /\ call.t = t /\ call.m = m /\ ~call.held
    BY DEF W!Call
  <2> HIDE DEF call
  <2>3. /\ input' \in [Thing -> Coin \cup {NoCoin}] /\ input'[t] = c
        /\ \A u \in Thing \ {t} : input'[u] = input[u]
    BY <1>1, <2>1 DEF W!TypeOK
  <2>4. c # NoCoin
    BY RecordsAssumption DEF W!WalletTxAssumption
  <2>5. W!TypeOK'
    BY <1>1, <2>1, <2>2, <2>3 DEF W!TypeOK
  <2>6. \A u \in Thing : Follows(u)
    BY <2>1, BooksFollow
  <2>7. Absent(t) /\ t \notin rejected \ contested
    BY <2>1 DEF WalletInv, MadeInv, RejectedInv
  <2>8. \A d \in calls :
          /\ \E k \in calls : k.t = d.t /\ k.auto = d.auto /\ (d.held => k.held)
          /\ d.held => table'[d.m][d.t] # "none"
    BY <1>2, <2>1
  <2>9. \A u \in Thing : input[u] # NoCoin \/ u # t => input'[u] = input[u]
    BY <2>1, <2>3
  <2> QED BY <2>1, <2>2, <2>3, <2>4, <2>5, <2>6, <2>7, <2>8, <2>9, SentWallet
<1> QED BY <1>3, <1>4, <1>5

\* A payment is rejected.
LEMMA RejectStep ==
  ASSUME WalletInv, NEW m \in Actor, NEW t \in Thing, W!Reject(m, t)
  PROVE  WalletInv'
<1> DEFINE list == W!Rejected(m, t)
           tbl == [table[m] EXCEPT ![t] = "none"]
           new(k) == [k EXCEPT !.held = @ /\ ~(k.m = m /\ k.t = t)]
<1>1. W!TypeOK /\ \A k \in calls : k \in W!Call /\ k.t \in Thing /\ k.m \in Actor
  BY DEF WalletInv, W!TypeOK, W!Call
<1>2. /\ table[m][t] # "none" /\ calls' = {new(k) : k \in calls}
      /\ table' = [table EXCEPT ![m][t] = "none"] /\ rejected' = rejected \cup {t}
      /\ contested' = IF \/ t \in asked
                         \/ \E n \in Actor \ {m} : table[n][t] # "none" \/ copy[n].pending[t] # "none"
                      THEN contested \cup {t} ELSE contested
      /\ pending' = list /\ recorded' = recorded
      /\ copy' = [copy EXCEPT ![m] = [pending |-> list, recorded |-> recorded]]
      /\ UNCHANGED <<input, unspent, sent, paid, due, crashes, asked, unheard, stray, booksClean>>
  BY DEF W!Reject, W!SaveState, W!network
<1>3. list \in W!Table /\ list[t] = "none" /\ \A u \in Thing \ {t} : list[u] = pending[u]
  BY <1>1 DEF W!TypeOK, W!Table, W!Rejected
<1>4. tbl \in W!Table /\ tbl[t] = "none" /\ \A u \in Thing \ {t} : tbl[u] = table[m][u]
  BY <1>1 DEF W!TypeOK, W!Table
<1>5. table' = [table EXCEPT ![m] = tbl]
  BY <1>1, <1>2 DEF W!TypeOK
<1>6. \A k \in calls : /\ new(k) \in W!Call /\ new(k).m = k.m /\ new(k).t = k.t
                       /\ new(k).auto = k.auto /\ new(k).held = (k.held /\ ~(k.m = m /\ k.t = t))
  BY <1>1 DEF W!Call
<1> HIDE DEF list, tbl, new
<1>7. /\ copy' \in [Actor -> [pending : W!Table, recorded : SUBSET Thing]]
      /\ copy'[m].pending = list /\ \A n \in Actor \ {m} : copy'[n] = copy[n]
  <2>1. recorded \in SUBSET Thing
    BY <1>1 DEF W!TypeOK
  <2> QED BY <1>1, <1>2, <1>3, <2>1, StateBooks
<1>8. /\ table' \in [Actor -> W!Table]
      /\ table'[m] = tbl /\ \A n \in Actor \ {m} : table'[n] = table[n]
  BY <1>1, <1>4, <1>5, TableBooks
<1>9. W!TypeOK'
  BY <1>1, <1>2, <1>3, <1>6, <1>7, <1>8 DEF W!TypeOK
<1>10. ASSUME NEW u \in Thing PROVE Follows(u)
  <2> DEFINE T == {table[n][u] : n \in Actor}
             P == {copy[n].pending[u] : n \in Actor}
             known == {pending[u]} \cup T \cup P
             kept == known \cup (IF known = {"none"} THEN {} ELSE {"none", "expired", "broadcast"})
  <2>1. pending[u] \in kept /\ \A n \in Actor : table[n][u] \in kept /\ copy[n].pending[u] \in kept
    OBVIOUS
  <2>2. list[u] \in kept /\ tbl[u] \in kept
    <3>1. CASE u = t
      <4>1. table[m][t] \in known /\ table[m][t] # "none"
        BY <1>2, <3>1
      <4> QED BY <1>3, <1>4, <3>1, <4>1
    <3>2. CASE u # t
      BY <1>3, <1>4, <2>1, <3>2
    <3> QED BY <3>1, <3>2
  <2> HIDE DEF kept
  <2>3. /\ pending'[u] \in kept
        /\ \A n \in Actor : table'[n][u] \in kept /\ copy'[n].pending[u] \in kept
    BY <1>2, <1>7, <1>8, <2>1, <2>2
  <2> QED BY <2>3 DEF Follows, kept
<1>11. ASSUME NEW d \in calls'
       PROVE  /\ \E k \in calls : k.t = d.t /\ k.auto = d.auto /\ (d.held => k.held)
              /\ d.held => table'[d.m][d.t] # "none"
  <2>1. PICK k \in calls : d = new(k)
    BY <1>2
  <2>2. /\ d.m = k.m /\ d.t = k.t /\ d.auto = k.auto
        /\ d.held => k.held /\ ~(k.m = m /\ k.t = t)
    BY <1>6, <2>1
  <2>3. d.held => table[k.m][k.t] # "none"
    BY <2>2 DEF WalletInv, CallInv
  <2>4. d.held => table'[k.m][k.t] = table[k.m][k.t]
    BY <1>1, <1>4, <1>8, <2>2
  <2> QED BY <2>2, <2>3, <2>4
<1>12. \A k \in calls : k.t \in unheard' \/ \E d \in calls' : d.t = k.t
  BY <1>2, <1>6
<1>13. RejectedInv'
  <2>1. \A u \in Thing : Absent(u) => Absent(u)'
    BY <1>10, FollowsKeeps
  <2>2. rejected \subseteq Thing
    BY <1>1 DEF W!TypeOK
  <2>3. \A u \in rejected \ contested : Absent(u)' /\ u \notin asked' /\ input'[u] # NoCoin
    BY <1>2, <2>1, <2>2 DEF WalletInv, RejectedInv
  <2>4. t \notin contested' => Absent(t)' /\ t \notin asked' /\ input'[t] # NoCoin
    <3> SUFFICES ASSUME t \notin contested' PROVE Absent(t)' /\ t \notin asked' /\ input'[t] # NoCoin
      OBVIOUS
    <3>1. /\ t \notin asked
          /\ \A n \in Actor \ {m} : table[n][t] = "none" /\ copy[n].pending[t] = "none"
      BY <1>2
    <3>2. Absent(t)'
      BY <1>2, <1>3, <1>4, <1>7, <1>8, <3>1 DEF Absent
    <3>3. input[t] # NoCoin
      BY <1>2 DEF WalletInv, MadeInv, Absent
    <3> QED BY <1>2, <3>1, <3>2, <3>3
  <2> QED BY <1>2, <2>3, <2>4 DEF RejectedInv
<1>14. (\A d \in calls' : Continues(d)) /\ (\A k \in calls : Concluded(k))
  BY <1>11, <1>12 DEF Continues, Concluded
<1> QED BY <1>2, <1>9, <1>10, <1>13, <1>14, ConcludedWallet

\* The network accepts or refuses a payment.
LEMMA AcceptStep ==
  ASSUME WalletInv, NEW t \in Thing, W!Accept(t)
  PROVE  WalletInv'
<1>1. /\ t \in sent /\ sent' = sent \ {t}
      /\ \/ unspent' = unspent /\ paid' = paid
         \/ input[t] \in unspent /\ unspent' = unspent \ {input[t]} /\ paid' = paid \cup {t}
      /\ UNCHANGED <<input, due, pending, recorded, copy, table, calls, crashes, asked, unheard,
                     rejected, contested, stray, booksClean>>
  BY DEF W!Accept, W!books
<1>2. W!TypeOK'
  BY <1>1 DEF WalletInv, W!TypeOK
<1>3. \A u : Absent(u)' = Absent(u) /\ NotPending(u)' = NotPending(u) /\ Waits(u)' = Waits(u)
  BY <1>1 DEF Absent, NotPending, Waits
<1>4. CoinInv'
  BY <1>1 DEF WalletInv, CoinInv
<1>5. MadeInv' /\ RejectedInv' /\ RecordedInv' /\ OfferedInv'
  BY <1>1, <1>3 DEF WalletInv, MadeInv, RejectedInv, RecordedInv, OfferedInv
<1>6. CallInv'
  BY <1>1, <1>3 DEF WalletInv, CallInv
<1> QED BY <1>2, <1>4, <1>5, <1>6 DEF WalletInv

\* The answer to an approval arrives.
LEMMA ApprovedStep ==
  ASSUME WalletInv, NEW k \in calls, W!Approved(k)
  PROVE  WalletInv'
<1> DEFINE tbl == IF k.held THEN [table[k.m] EXCEPT ![k.t] = "broadcast"] ELSE table[k.m]
           merged == W!MergedPending(tbl)
           list == [merged EXCEPT ![k.t] = "none"]
           D == calls \ {k}
<1>1. /\ W!TypeOK /\ k.m \in Actor /\ k.t \in Thing /\ D \in SUBSET W!Call
      /\ \A j \in calls : j.m \in Actor /\ j.t \in Thing
  BY DEF WalletInv, W!TypeOK, W!Call
<1>2. /\ ~k.auto /\ calls' = W!LetGo(D, k.m)
      /\ pending' = list /\ recorded' = recorded \cup {k.t}
      /\ copy' = [copy EXCEPT ![k.m] = [pending |-> list, recorded |-> recorded \cup {k.t}]]
      /\ table' = [table EXCEPT ![k.m] = merged]
      /\ stray' = IF \/ table'[k.m][k.t] = "pending"
                     \/ \E n \in Actor \ {k.m} : "pending" \in {table[n][k.t], copy[n].pending[k.t]}
                  THEN stray \cup {k.t} ELSE stray
      /\ UNCHANGED <<input, unspent, sent, paid, due, crashes, asked, unheard, rejected,
                     contested, booksClean>>
  BY DEF W!Approved, W!SaveState, W!Reloaded, W!network
<1>3. /\ tbl \in W!Table /\ \A u \in Thing \ {k.t} : tbl[u] = table[k.m][u]
      /\ tbl[k.t] = table[k.m][k.t] \/ (k.held /\ tbl[k.t] = "broadcast")
  BY <1>1 DEF W!TypeOK, W!Table, W!Status
<1> HIDE DEF tbl
<1>4. merged \in W!Table /\ \A u \in Thing : merged[u] = IF tbl[u] # "none" THEN tbl[u] ELSE pending[u]
  BY <1>1, <1>3 DEF W!MergedPending, W!Table, W!TypeOK
<1> HIDE DEF merged
<1>5. list \in W!Table /\ list[k.t] = "none" /\ \A u \in Thing \ {k.t} : list[u] = merged[u]
  BY <1>1, <1>4 DEF W!Table
<1> HIDE DEF list, D
<1>6. /\ copy' \in [Actor -> [pending : W!Table, recorded : SUBSET Thing]]
      /\ copy'[k.m].pending = list /\ \A n \in Actor \ {k.m} : copy'[n] = copy[n]
  <2>1. recorded \cup {k.t} \in SUBSET Thing
    BY <1>1 DEF W!TypeOK
  <2> QED BY <1>1, <1>2, <1>5, <2>1, StateBooks
<1>7. /\ table' \in [Actor -> W!Table]
      /\ table'[k.m] = merged /\ \A n \in Actor \ {k.m} : table'[n] = table[n]
  BY <1>1, <1>2, <1>4, TableBooks
<1>8. SameCalls(D, calls') /\ \A d \in calls' : d.held => d.m # k.m
  BY <1>1, <1>2, LetGoKeeps
<1>9. stray' \subseteq Thing /\ stray \subseteq stray'
  BY <1>1, <1>2 DEF W!TypeOK
<1>10. W!TypeOK'
  BY <1>1, <1>2, <1>5, <1>6, <1>7, <1>8, <1>9 DEF W!TypeOK, SameCalls
<1>11. ASSUME NEW u \in Thing PROVE Follows(u)
  <2> DEFINE T == {table[n][u] : n \in Actor}
             P == {copy[n].pending[u] : n \in Actor}
             known == {pending[u]} \cup T \cup P
             kept == known \cup (IF known = {"none"} THEN {} ELSE {"none", "expired", "broadcast"})
  <2>1. pending[u] \in kept /\ \A n \in Actor : table[n][u] \in kept /\ copy[n].pending[u] \in kept
    OBVIOUS
  <2>2. "none" \in kept
    <3>1. pending[u] \in known
      OBVIOUS
    <3> QED BY <3>1
  <2>3. tbl[u] \in kept
    <3>1. CASE tbl[u] = table[k.m][u]
      BY <1>1, <2>1, <3>1
    <3>2. CASE tbl[u] # table[k.m][u]
      <4>1. k.held /\ u = k.t /\ tbl[u] = "broadcast"
        BY <1>3, <3>2
      <4>2. table[k.m][u] \in known /\ table[k.m][u] # "none"
        BY <1>1, <4>1 DEF WalletInv, CallInv
      <4> QED BY <4>1, <4>2
    <3> QED BY <3>1, <3>2
  <2> HIDE DEF kept
  <2>4. merged[u] \in kept /\ list[u] \in kept
    BY <1>4, <1>5, <2>1, <2>2, <2>3
  <2>5. /\ pending'[u] \in kept
        /\ \A n \in Actor : table'[n][u] \in kept /\ copy'[n].pending[u] \in kept
    BY <1>2, <1>6, <1>7, <2>1, <2>4
  <2> QED BY <2>5 DEF Follows, kept
<1>12. ASSUME NEW d \in calls'
       PROVE  /\ \E j \in calls : j.t = d.t /\ j.auto = d.auto /\ (d.held => j.held)
              /\ d.held => table'[d.m][d.t] # "none"
  <2>1. PICK j \in calls : j.m = d.m /\ j.t = d.t /\ j.auto = d.auto /\ (d.held => j.held)
    BY <1>8 DEF SameCalls, D
  <2>2. d.held => d.m \in Actor \ {k.m} /\ table[d.m][d.t] # "none"
    BY <1>1, <1>8, <2>1 DEF WalletInv, CallInv
  <2> QED BY <1>7, <2>1, <2>2
<1>13. k.t \in recorded' /\ (k.t \in stray' \/ NotPending(k.t)')
  <2> SUFFICES ASSUME k.t \notin stray' PROVE NotPending(k.t)'
    BY <1>2
  <2>1. /\ table'[k.m][k.t] # "pending"
        /\ \A n \in Actor \ {k.m} : table[n][k.t] # "pending" /\ copy[n].pending[k.t] # "pending"
    BY <1>2
  <2> QED BY <1>2, <1>5, <1>6, <1>7, <2>1 DEF NotPending
<1>14. \A j \in calls : Concluded(j)
  BY <1>8, <1>13 DEF SameCalls, D, Concluded
<1>15. \A d \in calls' : Continues(d)
  BY <1>12 DEF Continues
<1>16. RejectedInv'
  <2>1. (\A u \in Thing : Absent(u) => Absent(u)') /\ rejected \subseteq Thing
    BY <1>1, <1>11, FollowsKeeps DEF W!TypeOK
  <2> QED BY <1>2, <2>1 DEF WalletInv, RejectedInv
<1> QED BY <1>2, <1>9, <1>10, <1>11, <1>14, <1>15, <1>16, ConcludedWallet

\* The answer to an automatic payment arrives.
LEMMA AutoSentStep ==
  ASSUME WalletInv, NEW k \in calls, W!AutoSent(k)
  PROVE  WalletInv'
<1> DEFINE list == copy[k.m].pending
           hist == copy[k.m].recorded \cup {k.t}
<1>1. /\ W!TypeOK /\ k.m \in Actor /\ k.t \in Thing
      /\ \A j \in calls : j.m \in Actor /\ j.t \in Thing
  BY DEF WalletInv, W!TypeOK, W!Call
<1>2. /\ k.auto /\ calls' = calls \ {k}
      /\ pending' = list /\ recorded' = hist
      /\ copy' = [copy EXCEPT ![k.m] = [pending |-> list, recorded |-> hist]]
      /\ booksClean' = (booksClean /\ copy[k.m] = [pending |-> pending, recorded |-> recorded])
      /\ UNCHANGED <<input, unspent, sent, paid, due, table, crashes, asked, unheard, rejected,
                     contested, stray>>
  BY DEF W!AutoSent, W!SaveState, W!network
<1>3. list \in W!Table /\ hist \in SUBSET Thing /\ booksClean' \in BOOLEAN
  BY <1>1, <1>2 DEF W!TypeOK
<1>4. booksClean' => booksClean /\ recorded \subseteq recorded'
  <2>1. copy[k.m] = [pending |-> pending, recorded |-> recorded] => copy[k.m].recorded = recorded
    OBVIOUS
  <2> QED BY <1>2, <2>1
<1>5. list = copy[k.m].pending /\ k.t \in hist
  OBVIOUS
<1> HIDE DEF list, hist
<1>6. /\ copy' \in [Actor -> [pending : W!Table, recorded : SUBSET Thing]]
      /\ copy'[k.m].pending = list /\ \A n \in Actor \ {k.m} : copy'[n] = copy[n]
  BY <1>1, <1>2, <1>3, StateBooks
<1>7. W!TypeOK'
  BY <1>1, <1>2, <1>3, <1>6 DEF W!TypeOK
<1>8. \A u \in Thing : Follows(u)
  BY <1>1, <1>2, <1>3, <1>5, <1>6, CopiesFollow
<1>9. \A d \in calls' :
        /\ \E j \in calls : j.t = d.t /\ j.auto = d.auto /\ (d.held => j.held)
        /\ d.held => table'[d.m][d.t] # "none"
  BY <1>2 DEF WalletInv, CallInv
<1>10. NotPending(k.t)'
  <2>1. Absent(k.t)
    BY <1>2 DEF WalletInv, CallInv
  <2>2. NotPending(k.t)
    BY <2>1 DEF Absent, NotPending
  <2> QED BY <1>1, <1>8, <2>2, FollowsKeeps
<1>11. (\A j \in calls : Concluded(j)) /\ (\A d \in calls' : Continues(d))
  BY <1>2, <1>5, <1>9, <1>10 DEF Concluded, Continues
<1>12. RejectedInv'
  <2>1. (\A u \in Thing : Absent(u) => Absent(u)') /\ rejected \subseteq Thing
    BY <1>1, <1>8, FollowsKeeps DEF W!TypeOK
  <2> QED BY <1>2, <2>1 DEF WalletInv, RejectedInv
<1> QED BY <1>2, <1>4, <1>7, <1>8, <1>11, <1>12, ConcludedWallet

\* Every step of WalletTx keeps its invariant.
LEMMA WalletNext == WalletInv /\ W!Next => WalletInv'
BY CopyingSteps, ProposingSteps, SendingSteps, RejectStep, AcceptStep, ApprovedStep, AutoSentStep
   DEF W!Next

-----------------------------------------------------------------------------
(* WalletTx: money moves as Payment allows it *)

\* What Payment has of each payment and each coin.
MoneyIs ==
  /\ \A t \in Thing : /\ t \in paid => W!StatusOf(t) = "paid"
                      /\ t \in asked \ paid => W!StatusOf(t) = "authorised"
                      /\ t \notin asked /\ input[t] # NoCoin => W!StatusOf(t) = "proposed"
                      /\ input[t] = NoCoin => W!StatusOf(t) = "none"
  /\ \A c \in Coin : /\ \A t \in paid : input[t] = c => W!SpentOn(c) = t
                     /\ (\A t \in paid : input[t] # c) => W!SpentOn(c) = NoTx

LEMMA MoneyOf == WalletInv => MoneyIs
<1> SUFFICES ASSUME WalletInv PROVE MoneyIs
  OBVIOUS
<1>1. ASSUME NEW t \in Thing
      PROVE  /\ t \in paid => W!StatusOf(t) = "paid"
             /\ t \in asked \ paid => W!StatusOf(t) = "authorised"
             /\ t \notin asked /\ input[t] # NoCoin => W!StatusOf(t) = "proposed"
             /\ input[t] = NoCoin => W!StatusOf(t) = "none"
  <2>1. (t \in paid => t \in asked) /\ (input[t] = NoCoin => t \notin asked)
    BY DEF WalletInv, CoinInv, MadeInv
  <2> QED BY <2>1 DEF W!StatusOf
<1>2. ASSUME NEW c \in Coin, NEW t \in paid, input[t] = c
      PROVE  W!SpentOn(c) = t
  <2>1. W!SpentOn(c) \in paid /\ input[W!SpentOn(c)] = c
    BY <1>2 DEF W!SpentOn
  <2> QED BY <1>2, <2>1 DEF WalletInv, CoinInv
<1>3. ASSUME NEW c \in Coin, \A t \in paid : input[t] # c
      PROVE  W!SpentOn(c) = NoTx
  BY <1>3 DEF W!SpentOn
<1> QED BY <1>1, <1>2, <1>3 DEF MoneyIs

LEMMA MoneyInit == W!Init => W!P!Init
<1> SUFFICES ASSUME W!Init PROVE W!P!Init
  OBVIOUS
<1>1. \A t \in Thing : W!StatusOf(t) = "none"
  BY DEF W!Init, W!StatusOf
<1>2. \A c \in Coin : W!SpentOn(c) = NoTx
  BY DEF W!Init, W!SpentOn
<1> QED BY <1>1, <1>2 DEF W!P!Init, W!Init

\* A step after which Payment has what it had.
LEMMA SameMoney ==
  ASSUME UNCHANGED <<input, paid, asked, due>>
  PROVE  UNCHANGED W!P!vars
BY DEF W!P!vars, W!StatusOf, W!SpentOn

\* A payment gets its coin.
LEMMA ProposedMoney ==
  ASSUME MoneyIs, MoneyIs', WalletInv, NEW t \in Thing, NEW c \in Coin, input[t] = NoCoin,
         input' = [input EXCEPT ![t] = c], UNCHANGED <<paid, asked, due>>
  PROVE  W!P!Next
<1>1. /\ input'[t] = c /\ c # NoCoin /\ t \notin asked
      /\ \A u \in Thing \ {t} : input'[u] = input[u]
  BY RecordsAssumption DEF W!WalletTxAssumption, WalletInv, MadeInv, W!TypeOK
<1>2. W!StatusOf(t) = "none" /\ W!StatusOf(t)' = "proposed"
  BY <1>1 DEF MoneyIs
<1>3. \A u \in Thing \ {t} : W!StatusOf(u)' = W!StatusOf(u)
  BY <1>1 DEF W!StatusOf
<1>4. \A d \in Coin : W!SpentOn(d)' = W!SpentOn(d)
  <2>1. \A u \in paid : u \in Thing \ {t}
    BY <1>1 DEF WalletInv, CoinInv, W!TypeOK
  <2>2. \A u \in paid : input'[u] = input[u]
    BY <1>1, <2>1
  <2> QED BY <2>2 DEF MoneyIs
<1>5. W!P!Propose(t)
  BY <1>2, <1>3, <1>4 DEF W!P!Propose
<1> QED BY <1>5 DEF W!P!Next

\* A payment that is not due is handed to the network, perhaps once more.
LEMMA AskedMoney ==
  ASSUME MoneyIs, MoneyIs', WalletInv, NEW t \in Thing, t \notin due,
         input[t] # NoCoin => input' = input, \A u \in Thing \ {t} : input'[u] = input[u],
         input'[t] # NoCoin, asked' = asked \cup {t}, UNCHANGED <<paid, due>>
  PROVE  W!P!Next \/ UNCHANGED W!P!vars
<1>1. CASE t \in asked
  <2>1. input[t] # NoCoin
    BY <1>1 DEF WalletInv, MadeInv
  <2> QED BY <1>1, <2>1, SameMoney
<1>2. CASE t \notin asked
  <2>1. W!StatusOf(t) \in {"none", "proposed"} /\ W!StatusOf(t)' = "authorised"
    <3>1. t \notin paid
      BY <1>2 DEF WalletInv, CoinInv
    <3> QED BY <1>2, <3>1 DEF MoneyIs
  <2>2. \A u \in Thing \ {t} : W!StatusOf(u)' = W!StatusOf(u)
    BY DEF W!StatusOf
  <2>3. \A d \in Coin : W!SpentOn(d)' = W!SpentOn(d)
    <3>1. \A u \in paid : u \in Thing \ {t}
      BY <1>2 DEF WalletInv, CoinInv, W!TypeOK
    <3>2. \A u \in paid : input'[u] = input[u]
      BY <3>1
    <3> QED BY <3>2 DEF MoneyIs
  <2>4. W!P!Authorise(t)
    BY <2>1, <2>2, <2>3 DEF W!P!Authorise
  <2> QED BY <2>4 DEF W!P!Next
<1> QED BY <1>1, <1>2

\* The network accepts a payment.
LEMMA AcceptedMoney ==
  ASSUME MoneyIs, MoneyIs', WalletInv, NEW t \in sent, input[t] \in unspent,
         paid' = paid \cup {t}, UNCHANGED <<input, asked, due>>
  PROVE  W!P!Next
<1>1. t \in Thing /\ t \in asked \ paid /\ input[t] \in Coin /\ \A u \in paid : input[u] # input[t]
  BY DEF WalletInv, CoinInv, W!TypeOK
<1>2. W!StatusOf(t) = "authorised" /\ W!StatusOf(t)' = "paid"
  BY <1>1 DEF MoneyIs
<1>3. \A u \in Thing \ {t} : W!StatusOf(u)' = W!StatusOf(u)
  BY DEF W!StatusOf
<1>4. W!SpentOn(input[t]) = NoTx /\ W!SpentOn(input[t])' = t
  BY <1>1 DEF MoneyIs
<1>5. ASSUME NEW d \in Coin \ {input[t]} PROVE W!SpentOn(d)' = W!SpentOn(d)
  <2>1. CASE \A u \in paid : input[u] # d
    BY <2>1 DEF MoneyIs
  <2>2. CASE \E u \in paid : input[u] = d
    BY <2>2 DEF MoneyIs
  <2> QED BY <2>1, <2>2
<1>6. W!P!Settle(t, input[t])
  BY <1>1, <1>2, <1>3, <1>4, <1>5 DEF W!P!Settle
<1> QED BY <1>1, <1>6 DEF W!P!Next

\* Every step of WalletTx is a step of Payment or leaves all as it is.
LEMMA MoneyNext ==
  ASSUME WalletInv, WalletInv', W!Next
  PROVE  [W!P!Next]_(W!P!vars)
<1>1. MoneyIs /\ MoneyIs'
  <2>1. WalletInv => MoneyIs
    BY MoneyOf
  <2>2. WalletInv' => MoneyIs'
    BY MoneyOf, PTL
  <2> QED BY <2>1, <2>2
<1>2. ASSUME NEW t \in Thing, W!Expire(t) PROVE [W!P!Next]_(W!P!vars)
  <2>1. due' = due \cup {t} /\ UNCHANGED <<input, paid, asked>>
    BY <1>2 DEF W!Expire, W!network
  <2>2. W!P!Lapse(t)
    BY <2>1 DEF W!P!Lapse, W!StatusOf, W!SpentOn
  <2> QED BY <2>2 DEF W!P!Next
<1>3. ASSUME NEW t \in Thing, W!Accept(t) PROVE [W!P!Next]_(W!P!vars)
  <2>1. CASE input[t] \in unspent
    BY <1>1, <1>3, <2>1, AcceptedMoney DEF W!Accept
  <2>2. CASE input[t] \notin unspent
    BY <1>3, <2>2, SameMoney DEF W!Accept
  <2> QED BY <2>1, <2>2
<1>4. ASSUME NEW m \in Actor, W!ExpireOld(m) \/ W!OtherSave(m) \/ W!Refresh(m) \/ W!Restart(m)
      PROVE  [W!P!Next]_(W!P!vars)
  BY <1>4, SameMoney DEF W!ExpireOld, W!OtherSave, W!Refresh, W!Restart, W!network
<1>5. ASSUME NEW m \in Actor, NEW t \in Thing, W!Reject(m, t) PROVE [W!P!Next]_(W!P!vars)
  BY <1>5, SameMoney DEF W!Reject, W!network
<1>6. ASSUME NEW m \in Actor, NEW t \in Thing, W!Approve(m, t) PROVE [W!P!Next]_(W!P!vars)
  <2>1. pending[t] = "pending" /\ UNCHANGED <<input, paid, due>>
    BY <1>6 DEF W!Approve
  <2>2. CASE t \in due
    <3>1. asked' = asked
      BY <1>6, <2>2 DEF W!Approve
    <3> QED BY <2>1, <3>1, SameMoney
  <2>3. CASE t \notin due
    <3>1. asked' = asked \cup {t}
      BY <1>6, <2>3 DEF W!Approve, W!Ask
    <3>2. input[t] # NoCoin
      BY <2>1 DEF WalletInv, MadeInv, Absent
    <3> QED BY <1>1, <2>1, <2>3, <3>1, <3>2, AskedMoney
  <2> QED BY <2>2, <2>3
<1>7. ASSUME NEW m \in Actor, NEW t \in Thing, NEW c \in Coin, W!Propose(m, t, c)
      PROVE  [W!P!Next]_(W!P!vars)
  BY <1>1, <1>7, ProposedMoney DEF W!Propose, W!Proposed, W!network
<1>8. ASSUME NEW m \in Actor, NEW t \in Thing, NEW c \in Coin, W!AutoSend(m, t, c)
      PROVE  [W!P!Next]_(W!P!vars)
  <2>1. /\ input[t] = NoCoin /\ input' = [input EXCEPT ![t] = c] /\ asked' = asked \cup {t}
        /\ UNCHANGED <<paid, due>>
    BY <1>8 DEF W!AutoSend
  <2>2. t \notin due
    BY <2>1 DEF WalletInv, MadeInv
  <2>3. input'[t] # NoCoin /\ \A u \in Thing \ {t} : input'[u] = input[u]
    BY <2>1, RecordsAssumption DEF W!WalletTxAssumption, WalletInv, W!TypeOK
  <2> QED BY <1>1, <2>1, <2>2, <2>3, AskedMoney
<1>9. ASSUME NEW k \in calls, W!Approved(k) \/ W!AutoSent(k) \/ W!ApproveFailed(k)
      PROVE  [W!P!Next]_(W!P!vars)
  BY <1>9, SameMoney DEF W!Approved, W!AutoSent, W!ApproveFailed, W!network
<1>10. ASSUME NEW k \in calls, NEW t \in Thing, NEW c \in Coin, W!AutoFailed(k, t, c)
       PROVE  [W!P!Next]_(W!P!vars)
  BY <1>1, <1>10, ProposedMoney DEF W!AutoFailed, W!Proposed, W!network
<1> QED BY <1>2, <1>3, <1>4, <1>5, <1>6, <1>7, <1>8, <1>9, <1>10 DEF W!Next

-----------------------------------------------------------------------------
(* WalletTx: the theorems *)

\* WalletInv holds whichever component runs: the variables of the other stay as they are.
LEMMA WalletAlways == Spec => []WalletInv
<1>1. Init => WalletInv
  BY WalletInit DEF Init
<1>2. ASSUME WalletInv, [Next]_vars PROVE WalletInv'
  <2>1. CASE W!Next
    BY <1>2, <2>1, WalletNext
  <2>2. CASE UNCHANGED walletTxVars
    BY <1>2, <2>2 DEF walletTxVars, WalletInv, W!TypeOK, MadeInv, CoinInv, CallInv, RejectedInv,
       RecordedInv, OfferedInv, Absent, NotPending, Waits
  <2> QED BY <1>2, <2>1, <2>2 DEF Next, vars
<1> QED BY <1>1, <1>2, PTL DEF Spec

\* owner_reject and _remove_pending_transaction: a rejected payment that was neither on its
\* way to the network nor known to another process is never paid, and no save of any
\* process, of whatever age its copy is, brings it back.
THEOREM RejectionIsFinal == Spec => []RejectionFinal
<1>1. WalletInv => RejectionFinal
  BY DEF WalletInv, RejectedInv, CoinInv, Absent, RejectionFinal, W!RejectionFinal
<1> QED BY <1>1, WalletAlways, PTL

\* owner_approve, auto_send and their callers: a payment whose answer has arrived is in the
\* history as long as no process saved a copy older than the file, and it is not offered for
\* approval again unless a table or a copy had it as pending at that moment.
THEOREM PaidIsRecorded == Spec => []PaidRecorded
<1>1. WalletInv => PaidRecorded
  BY DEF WalletInv, RecordedInv, OfferedInv, CoinInv, NotPending, Waits, PaidRecorded,
     W!PaidRecorded, W!NotOfferedAgain
<1> QED BY <1>1, WalletAlways, PTL

\* Whatever the state of the books of any process, money moves as Payment allows it: it is
\* signed before it moves and not after the proposal has run out, a coin goes to one payment
\* and what is paid stays paid.
THEOREM WalletImplementsPayment == Spec => ImplementsPayment
<1>1. Init => W!P!Init
  BY MoneyInit DEF Init
<1>2. ASSUME WalletInv, WalletInv', [Next]_vars
      PROVE  [component = "WalletTx" => [W!P!Next]_(W!P!vars)]_vars
  <2>1. CASE W!Next
    BY <1>2, <2>1, MoneyNext
  <2>2. CASE component # "WalletTx" \/ UNCHANGED vars
    BY <2>2
  <2> QED BY <1>2, <2>1, <2>2 DEF Next
<1> QED BY <1>1, <1>2, WalletAlways, PTL DEF Spec, ImplementsPayment

-----------------------------------------------------------------------------
(* ChainState: the inductive invariant *)

FlagInv == \A p \in Actor : flag[p] <=> held[p] # NoSnapshot

\* A message waits for one commit, and only for one that is to come.
BatchInv ==
  /\ committed \subseteq anchored
  /\ \A p \in Actor : /\ p \notin up => pc[p] = "idle"
                      /\ pc[p] = "commit" <=> batch[p] # {}
                      /\ batch[p] \subseteq anchored \ committed
                      /\ \A q \in Actor \ {p} : batch[p] \cap batch[q] = {}

\* What a process without a staged session holds was counted when it was sent or left
\* to a commit; so was what is sent while a commit is awaited.  What one with a staged
\* session holds and was counted when it was sent, it has loaded from the files.
BlocksInv ==
  \A p \in Actor :
    /\ p \notin live => blocks[p] = {}
    /\ ~flag[p] /\ pc[p] # "begin" => blocks[p] \cup batch[p] \subseteq loose \cup missed
    /\ pc[p] = "commit" => blocks[p] \subseteq loose \cup missed
    /\ flag[p] \/ pc[p] = "begin" => (blocks[p] \cup batch[p]) \cap loose \subseteq recovered

Waiting == UNION {batch[p] : p \in Actor}

AnchoredInv ==
  /\ anchored \subseteq loose \cup committed \cup missed \cup Waiting
  /\ loose \cap committed \subseteq recovered

\* While a session is staged nothing is counted.
CountInv ==
  clean => /\ disk.sent = Cardinality(loose) + Cardinality(committed)
           /\ disk.snap # NoSnapshot => disk.snap.sent = disk.sent

\* The snapshot in the document is the work of before the session.
WorkInv ==
  clean /\ disk.snap # NoSnapshot /\ missed = {} /\ (\A q \in Actor : pc[q] # "commit")
    => disk.snap.work = settled

ChainInv ==
  /\ S!TypeOK
  /\ FlagInv /\ BatchInv /\ BlocksInv /\ AnchoredInv /\ CountInv /\ WorkInv

-----------------------------------------------------------------------------
(* ChainState: the parts of its steps *)

LEMMA NoSnapshotIsNone == NoSnapshot \notin S!Rollback
BY RecordsAssumption DEF S!ChainStateAssumption, S!Rollback

LEMMA Bounds == MaxSent \in Nat /\ MaxOpens \in Nat /\ MaxFailures \in Nat
BY RecordsAssumption DEF S!ChainStateAssumption

\* ChainState counts as everyone does.
LEMMA SameCount ==
  ASSUME NEW T
  PROVE  S!IsFiniteSet(T) = IsFiniteSet(T) /\ S!Cardinality(T) = Cardinality(T)
<1>1. S!IsFiniteSet(T) = IsFiniteSet(T)
  BY Zenon DEF S!IsFiniteSet, IsFiniteSet
<1>2. S!Cardinality(T) = Cardinality(T)
  BY Zenon DEF S!Cardinality, Cardinality, S!IsFiniteSet, IsFiniteSet
<1> QED BY <1>1, <1>2

LEMMA CountsAreFinite ==
  ASSUME NEW T \in SUBSET Thing
  PROVE  IsFiniteSet(T) /\ Cardinality(T) \in Nat
<1>1. IsFiniteSet(T)
  <2>1. IsFiniteSet(Thing)
    BY RecordsAssumption, SameCount DEF S!ChainStateAssumption
  <2> QED BY <2>1, FS_Subset
<1> QED BY <1>1, FS_CardinalityType

LEMMA ChainInit == S!Init => ChainInv
<1> SUFFICES ASSUME S!Init PROVE ChainInv
  OBVIOUS
<1>1. S!TypeOK
  BY Bounds DEF S!Init, S!TypeOK, S!Document, S!Snapshot, S!Pc
<1>2. FlagInv /\ BatchInv /\ BlocksInv /\ AnchoredInv
  BY DEF S!Init, FlagInv, BatchInv, BlocksInv, AnchoredInv
<1>3. CountInv /\ WorkInv
  BY FS_EmptySet DEF S!Init, CountInv, WorkInv
<1> QED BY <1>1, <1>2, <1>3 DEF ChainInv

\* What a save of copy by p does to the document.
LEMMA SaveDoc ==
  ASSUME S!TypeOK, NEW p \in Actor, NEW new \in S!Document, NEW fromGui \in BOOLEAN,
         S!Save(p, new, fromGui)
  PROVE  /\ disk' \in S!Document /\ mem' \in [Actor -> S!Document]
         /\ clean' \in BOOLEAN /\ failures' = failures
         /\ disk'.snap = new.snap
         /\ disk'.work = IF fromGui THEN disk.work ELSE new.work
         /\ disk'.sent = IF fromGui THEN disk.sent ELSE new.sent
         /\ disk'.gui = IF fromGui THEN new.gui ELSE disk.gui
         /\ clean' => /\ clean /\ mem[p] = disk
                      /\ flag[p] <=> disk.snap # NoSnapshot
                      /\ held[p] = disk.snap
<1> DEFINE byGui == [disk EXCEPT !.gui = new.gui, !.snap = new.snap]
           byBackend == [new EXCEPT !.gui = disk.gui]
<1>1. disk \in S!Document
  BY DEF S!TypeOK
<1>2. /\ byGui \in S!Document /\ byGui.snap = new.snap /\ byGui.work = disk.work
      /\ byGui.sent = disk.sent /\ byGui.gui = new.gui
  BY <1>1 DEF S!Document
<1>3. /\ byBackend \in S!Document /\ byBackend.snap = new.snap /\ byBackend.work = new.work
      /\ byBackend.sent = new.sent /\ byBackend.gui = disk.gui
  BY <1>1 DEF S!Document
<1>4. disk' = IF fromGui THEN byGui ELSE byBackend
  BY DEF S!Save, S!Merged
<1> HIDE DEF byGui, byBackend
<1>5. disk' \in S!Document
  BY <1>2, <1>3, <1>4
<1>6. mem' \in [Actor -> S!Document]
  BY <1>5 DEF S!Save, S!TypeOK
<1>7. failures' = failures
  BY DEF S!Save
<1>8. clean' = (clean /\ mem[p] = disk /\ flag[p] = (disk.snap # NoSnapshot) /\ held[p] = disk.snap)
  BY DEF S!Save
<1>9. clean' \in BOOLEAN
  BY <1>8
<1>10. flag[p] \in BOOLEAN
  BY DEF S!TypeOK
<1> QED BY <1>2, <1>3, <1>4, <1>5, <1>6, <1>7, <1>8, <1>9, <1>10

\* A save that fails.
LEMMA SaveFailsDoc ==
  ASSUME S!TypeOK, NEW p \in Actor, NEW new \in S!Document, S!SaveFails(p, new)
  PROVE  /\ disk' = disk /\ clean' = clean /\ mem' \in [Actor -> S!Document]
         /\ failures' \in 0 .. MaxFailures /\ failures' # failures
BY Bounds DEF S!SaveFails, S!TypeOK

\* The flag and the snapshot of an object are set together.
LEMMA StageFlag ==
  ASSUME S!TypeOK, FlagInv, NEW p \in Actor, NEW snap \in S!Snapshot, S!Stage(p, snap)
  PROVE  /\ flag' \in [Actor -> BOOLEAN] /\ held' \in [Actor -> S!Snapshot] /\ FlagInv'
         /\ flag'[p] <=> snap # NoSnapshot
         /\ \A q \in Actor \ {p} : flag'[q] = flag[q]
<1>1. /\ flag' = [flag EXCEPT ![p] = snap # NoSnapshot] /\ held' = [held EXCEPT ![p] = snap]
  BY DEF S!Stage
<1>2. flag \in [Actor -> BOOLEAN] /\ held \in [Actor -> S!Snapshot]
  BY DEF S!TypeOK
<1> QED BY <1>1, <1>2 DEF FlagInv

\* The document stays as it is.
LEMMA DocStays ==
  ASSUME CountInv, WorkInv, UNCHANGED <<disk, loose, committed, settled>>, clean' => clean,
         missed \subseteq missed',
         missed' = {} => \A q \in Actor : pc[q] = "commit" => pc'[q] = "commit"
  PROVE  CountInv' /\ WorkInv'
<1>1. CountInv'
  BY DEF CountInv
<1>2. WorkInv'
  BY DEF WorkInv
<1> QED BY <1>1, <1>2

\* A copy is saved that counts what it counted and has the snapshot it had.
LEMMA SameSnapshot ==
  ASSUME CountInv, WorkInv, S!TypeOK, NEW p \in Actor, NEW new \in S!Document,
         NEW fromGui \in BOOLEAN, S!Save(p, new, fromGui),
         new.snap = mem[p].snap, fromGui \/ new.sent = mem[p].sent,
         UNCHANGED <<loose, committed, settled>>, missed \subseteq missed',
         \A q \in Actor : pc[q] = "commit" => pc'[q] = "commit"
  PROVE  CountInv' /\ WorkInv'
<1>1. clean' => clean /\ disk'.snap = disk.snap /\ disk'.sent = disk.sent
  BY SaveDoc
<1>2. CountInv'
  BY <1>1 DEF CountInv
<1>3. WorkInv'
  BY <1>1 DEF WorkInv
<1> QED BY <1>2, <1>3

\* The messages and the flags stay as they are.
LEMMA SessionStays ==
  ASSUME BatchInv, BlocksInv, AnchoredInv,
         UNCHANGED <<up, flag, pc, batch, live, blocks, anchored, loose, missed, committed,
                     recovered>>
  PROVE  BatchInv' /\ BlocksInv' /\ AnchoredInv'
BY DEF BatchInv, BlocksInv, AnchoredInv, Waiting

-----------------------------------------------------------------------------
(* ChainState: its steps *)

LEMMA OpenStep ==
  ASSUME ChainInv, NEW p \in Actor, S!Open(p)
  PROVE  ChainInv'
<1>1. S!TypeOK /\ FlagInv /\ BatchInv /\ BlocksInv /\ AnchoredInv /\ CountInv /\ WorkInv
  BY DEF ChainInv
<1>2. /\ p \notin up /\ opens < MaxOpens /\ opens' = opens + 1 /\ up' = up \cup {p}
      /\ mem' = [mem EXCEPT ![p] = disk] /\ S!Stage(p, disk.snap)
      /\ live' = IF files # {} THEN live \cup {p} ELSE live
      /\ blocks' = [blocks EXCEPT ![p] = files] /\ recovered' = recovered \cup files
      /\ pc' = [pc EXCEPT ![p] = IF files # {} THEN "begin" ELSE "idle"]
      /\ UNCHANGED <<disk, batch, files, failures, clean, settled, anchored, loose, missed,
                     committed>>
  BY DEF S!Open
<1>3. disk.snap \in S!Snapshot
  BY <1>1 DEF S!TypeOK, S!Document
<1>4. /\ flag' \in [Actor -> BOOLEAN] /\ held' \in [Actor -> S!Snapshot] /\ FlagInv'
      /\ \A q \in Actor \ {p} : flag'[q] = flag[q]
  BY <1>1, <1>2, <1>3, StageFlag
<1>5. /\ blocks' \in [Actor -> SUBSET Thing] /\ blocks'[p] = files
      /\ \A q \in Actor \ {p} : blocks'[q] = blocks[q]
  BY <1>1, <1>2 DEF S!TypeOK
<1>6. /\ pc' \in [Actor -> S!Pc] /\ pc'[p] = IF files # {} THEN "begin" ELSE "idle"
      /\ \A q \in Actor \ {p} : pc'[q] = pc[q]
  BY <1>1, <1>2 DEF S!TypeOK, S!Pc
<1>7. S!TypeOK'
  <2>1. mem' \in [Actor -> S!Document] /\ opens' \in 0 .. MaxOpens
    BY <1>1, <1>2, Bounds DEF S!TypeOK
  <2> QED BY <1>1, <1>2, <1>4, <1>5, <1>6, <2>1 DEF S!TypeOK
<1>8. pc[p] = "idle" /\ batch[p] = {}
  BY <1>1, <1>2 DEF BatchInv
<1>9. BatchInv'
  BY <1>1, <1>2, <1>6, <1>8 DEF BatchInv
<1>10. BlocksInv'
  BY <1>1, <1>2, <1>4, <1>5, <1>6, <1>8 DEF BlocksInv
<1>11. AnchoredInv'
  BY <1>1, <1>2 DEF AnchoredInv, Waiting
<1>12. \A q \in Actor : pc[q] = "commit" => pc'[q] = "commit"
  BY <1>6, <1>8
<1>13. CountInv' /\ WorkInv'
  BY <1>1, <1>2, <1>12, DocStays
<1> QED BY <1>4, <1>7, <1>9, <1>10, <1>11, <1>13 DEF ChainInv

LEMMA CloseStep ==
  ASSUME ChainInv, NEW p \in Actor, S!Close(p)
  PROVE  ChainInv'
<1>1. S!TypeOK /\ FlagInv /\ BatchInv /\ BlocksInv /\ AnchoredInv /\ CountInv /\ WorkInv
  BY DEF ChainInv
<1>2. /\ up' = up \ {p} /\ live' = live \ {p}
      /\ mem' = [mem EXCEPT ![p] = disk] /\ S!Stage(p, NoSnapshot)
      /\ pc' = [pc EXCEPT ![p] = "idle"] /\ batch' = [batch EXCEPT ![p] = {}]
      /\ blocks' = [blocks EXCEPT ![p] = {}] /\ missed' = missed \cup batch[p]
      /\ UNCHANGED <<disk, files, opens, failures, clean, settled, anchored, loose, committed,
                     recovered>>
  BY DEF S!Close
<1>3. NoSnapshot \in S!Snapshot
  BY DEF S!Snapshot
<1>4. /\ flag' \in [Actor -> BOOLEAN] /\ held' \in [Actor -> S!Snapshot] /\ FlagInv'
      /\ \A q \in Actor \ {p} : flag'[q] = flag[q]
  BY <1>1, <1>2, <1>3, StageFlag
<1>5. /\ blocks' \in [Actor -> SUBSET Thing] /\ blocks'[p] = {}
      /\ batch' \in [Actor -> SUBSET Thing] /\ batch'[p] = {}
      /\ \A q \in Actor \ {p} : blocks'[q] = blocks[q] /\ batch'[q] = batch[q]
  BY <1>1, <1>2 DEF S!TypeOK
<1>6. /\ pc' \in [Actor -> S!Pc] /\ pc'[p] = "idle"
      /\ \A q \in Actor \ {p} : pc'[q] = pc[q]
  BY <1>1, <1>2 DEF S!TypeOK, S!Pc
<1>7. S!TypeOK'
  <2>1. mem' \in [Actor -> S!Document] /\ missed' \subseteq Thing
    BY <1>1, <1>2 DEF S!TypeOK
  <2> QED BY <1>1, <1>2, <1>4, <1>5, <1>6, <2>1 DEF S!TypeOK
<1>8. BatchInv'
  BY <1>1, <1>2, <1>5, <1>6 DEF BatchInv
<1>9. BlocksInv'
  BY <1>1, <1>2, <1>4, <1>5, <1>6 DEF BlocksInv
<1>10. AnchoredInv'
  <2>1. Waiting \subseteq Waiting' \cup batch[p]
    BY <1>5 DEF Waiting
  <2> QED BY <1>1, <1>2, <2>1 DEF AnchoredInv
<1>11. missed' = {} => \A q \in Actor : pc[q] = "commit" => pc'[q] = "commit"
  BY <1>1, <1>2, <1>6 DEF BatchInv
<1>12. CountInv' /\ WorkInv'
  BY <1>1, <1>2, <1>11, DocStays
<1> QED BY <1>4, <1>7, <1>8, <1>9, <1>10, <1>12 DEF ChainInv

\* The copy of a process changes, and it may be saved.
LEMMA UpdateStep ==
  ASSUME ChainInv, NEW p \in Actor, NEW new \in S!Document, NEW fromGui \in BOOLEAN,
         new.snap = mem[p].snap, new.sent = mem[p].sent,
         S!Update(p, new, fromGui), UNCHANGED S!history
  PROVE  ChainInv'
<1>1. S!TypeOK /\ FlagInv /\ BatchInv /\ BlocksInv /\ AnchoredInv /\ CountInv /\ WorkInv
  BY DEF ChainInv
<1>2. UNCHANGED <<up, flag, held, pc, batch, live, blocks, files, opens, settled, anchored,
                  loose, missed, committed, recovered>>
  BY DEF S!Update, S!session, S!history
<1>3. /\ disk' \in S!Document /\ mem' \in [Actor -> S!Document] /\ clean' \in BOOLEAN
      /\ failures' \in 0 .. MaxFailures
  <2>1. CASE S!Save(p, new, fromGui)
    BY <1>1, <2>1, SaveDoc DEF S!TypeOK
  <2>2. CASE S!SaveFails(p, new)
    BY <1>1, <2>2, SaveFailsDoc DEF S!TypeOK
  <2> QED BY <2>1, <2>2 DEF S!Update
<1>4. S!TypeOK'
  BY <1>1, <1>2, <1>3 DEF S!TypeOK
<1>5. FlagInv'
  BY <1>1, <1>2 DEF FlagInv
<1>6. BatchInv' /\ BlocksInv' /\ AnchoredInv'
  BY <1>1, <1>2, SessionStays
<1>7. CountInv' /\ WorkInv'
  <2>1. CASE S!Save(p, new, fromGui)
    BY <1>1, <1>2, <2>1, SameSnapshot
  <2>2. CASE S!SaveFails(p, new)
    BY <1>1, <1>2, <2>2, SaveFailsDoc, DocStays
  <2> QED BY <2>1, <2>2 DEF S!Update
<1> QED BY <1>4, <1>5, <1>6, <1>7 DEF ChainInv

\* A copy is loaded, a setting changes, or what the backend knows.
LEMMA ChangeSteps ==
  ASSUME ChainInv, NEW p \in Actor,
         S!Reload(p) \/ S!SetAutoAnchor(p) \/ \E c \in Change : S!UpdateRelationship(p, c)
  PROVE  ChainInv'
<1>1. S!TypeOK /\ FlagInv /\ BatchInv /\ BlocksInv /\ AnchoredInv /\ CountInv /\ WorkInv
  BY DEF ChainInv
<1>2. mem[p] \in S!Document
  BY <1>1 DEF S!TypeOK
<1>3. CASE S!Reload(p)
  <2>1. /\ mem' = [mem EXCEPT ![p] = disk]
        /\ UNCHANGED <<disk, up, flag, held, pc, batch, live, blocks, files, opens, failures, clean,
                       settled, anchored, loose, missed, committed, recovered>>
    BY <1>3 DEF S!Reload, S!session, S!history
  <2>2. S!TypeOK'
    <3>1. mem' \in [Actor -> S!Document]
      BY <1>1, <2>1 DEF S!TypeOK
    <3> QED BY <1>1, <2>1, <3>1 DEF S!TypeOK
  <2>3. BatchInv' /\ BlocksInv' /\ AnchoredInv'
    BY <1>1, <2>1, SessionStays
  <2>4. CountInv' /\ WorkInv'
    BY <1>1, <2>1, DocStays
  <2>5. FlagInv'
    BY <1>1, <2>1 DEF FlagInv
  <2> QED BY <2>2, <2>3, <2>4, <2>5 DEF ChainInv
<1>4. CASE S!SetAutoAnchor(p)
  <2> DEFINE new == [mem[p] EXCEPT !.gui = ~@]
  <2>1. S!Update(p, new, TRUE) /\ UNCHANGED S!history
    BY <1>4 DEF S!SetAutoAnchor
  <2>2. new \in S!Document /\ new.snap = mem[p].snap /\ new.sent = mem[p].sent
    BY <1>2 DEF S!Document
  <2> HIDE DEF new
  <2> QED BY <2>1, <2>2, UpdateStep
<1>5. ASSUME NEW c \in Change, S!UpdateRelationship(p, c) PROVE ChainInv'
  <2> DEFINE new == [mem[p] EXCEPT !.work = @ \cup {c}]
  <2>1. S!Update(p, new, FALSE) /\ UNCHANGED S!history
    BY <1>5 DEF S!UpdateRelationship
  <2>2. new \in S!Document /\ new.snap = mem[p].snap /\ new.sent = mem[p].sent
    BY <1>2 DEF S!Document
  <2> HIDE DEF new
  <2> QED BY <2>1, <2>2, UpdateStep
<1> QED BY <1>3, <1>4, <1>5

\* The session section is written: a session starts, is dropped or has ended.
LEMMA SectionSteps ==
  ASSUME ChainInv, NEW p \in Actor, S!StartSession(p) \/ S!DropSession(p) \/ S!EndSession(p)
  PROVE  ChainInv'
<1>1. S!TypeOK /\ FlagInv /\ BatchInv /\ BlocksInv /\ AnchoredInv /\ CountInv /\ WorkInv
  BY DEF ChainInv
<1>2. /\ S!Save(p, mem[p], FALSE)
      /\ UNCHANGED <<up, flag, held, batch, files, opens, settled, anchored, loose, missed,
                     committed, recovered>>
  BY DEF S!StartSession, S!DropSession, S!EndSession, S!history
<1>3. \/ /\ p \in up /\ p \notin live /\ pc[p] = "idle"
         /\ live' = live \cup {p} /\ pc' = [pc EXCEPT ![p] = "begin"] /\ blocks' = blocks
      \/ /\ p \in up /\ pc[p] = "drop" /\ pc' = [pc EXCEPT ![p] = "idle"]
         /\ live' = live \ {p} /\ blocks' = [blocks EXCEPT ![p] = {}]
      \/ /\ p \in up /\ pc[p] = "end" /\ pc' = [pc EXCEPT ![p] = "idle"]
         /\ live' = live /\ blocks' = blocks
  BY DEF S!StartSession, S!DropSession, S!EndSession, S!Idle
<1>4. mem[p] \in S!Document
  BY <1>1 DEF S!TypeOK
<1>5. /\ disk' \in S!Document /\ mem' \in [Actor -> S!Document] /\ clean' \in BOOLEAN
      /\ failures' = failures
  BY <1>1, <1>2, <1>4, SaveDoc
<1>6. /\ pc' \in [Actor -> S!Pc] /\ \A q \in Actor \ {p} : pc'[q] = pc[q]
      /\ blocks' \in [Actor -> SUBSET Thing] /\ \A q \in Actor \ {p} : blocks'[q] = blocks[q]
      /\ pc'[p] # "commit" /\ pc[p] # "commit"
  BY <1>1, <1>3 DEF S!TypeOK, S!Pc
<1>7. S!TypeOK'
  <2>1. live' \subseteq Actor
    BY <1>1, <1>3 DEF S!TypeOK
  <2> QED BY <1>1, <1>2, <1>5, <1>6, <2>1 DEF S!TypeOK
<1>8. FlagInv'
  BY <1>1, <1>2 DEF FlagInv
<1>9. BatchInv'
  BY <1>1, <1>2, <1>3, <1>6 DEF BatchInv
<1>10. BlocksInv'
  <2>1. \A q \in Actor \ {p} : q \in live' <=> q \in live
    BY <1>3
  <2>2. pc \in [Actor -> S!Pc] /\ blocks \in [Actor -> SUBSET Thing]
    BY <1>1 DEF S!TypeOK
  <2>3. \/ blocks'[p] = {} \/ (blocks'[p] = blocks[p] /\ pc[p] # "begin" /\ p \in live /\ p \in live')
    BY <1>1, <1>3, <2>2 DEF BlocksInv
  <2>4. batch[p] = {}
    BY <1>1, <1>6 DEF BatchInv
  <2>5. pc'[p] = "begin" => blocks'[p] = {}
    BY <1>1, <1>3, <2>2 DEF BlocksInv
  <2> SUFFICES ASSUME NEW q \in Actor
               PROVE  /\ q \notin live' => blocks'[q] = {}
                      /\ ~flag[q] /\ pc'[q] # "begin" => blocks'[q] \cup batch[q] \subseteq loose \cup missed
                      /\ pc'[q] = "commit" => blocks'[q] \subseteq loose \cup missed
                      /\ flag[q] \/ pc'[q] = "begin" => (blocks'[q] \cup batch[q]) \cap loose \subseteq recovered
    BY <1>2 DEF BlocksInv
  <2>6. CASE q = p
    BY <1>1, <1>6, <2>3, <2>4, <2>5, <2>6 DEF BlocksInv
  <2>7. CASE q # p
    BY <1>1, <1>6, <2>1, <2>7 DEF BlocksInv
  <2> QED BY <2>6, <2>7
<1>11. AnchoredInv'
  BY <1>1, <1>2 DEF AnchoredInv, Waiting
<1>12. \A q \in Actor : pc[q] = "commit" => pc'[q] = "commit"
  BY <1>6
<1>13. CountInv' /\ WorkInv'
  BY <1>1, <1>2, <1>4, <1>12, SameSnapshot
<1> QED BY <1>7, <1>8, <1>9, <1>10, <1>11, <1>13 DEF ChainInv

\* The state of before the session is put aside.
LEMMA BeginStep ==
  ASSUME ChainInv, NEW p \in Actor, S!BeginStagedSession(p)
  PROVE  ChainInv'
<1> DEFINE snap == [work |-> mem[p].work, sent |-> mem[p].sent]
           new == [mem[p] EXCEPT !.snap = snap]
<1>1. S!TypeOK /\ FlagInv /\ BatchInv /\ BlocksInv /\ AnchoredInv /\ CountInv /\ WorkInv
  BY DEF ChainInv
<1>2. /\ pc[p] = "begin" /\ pc' = [pc EXCEPT ![p] = "idle"]
      /\ settled' = IF disk.snap = NoSnapshot THEN disk.work ELSE settled
      /\ UNCHANGED <<up, batch, live, blocks, files, opens, anchored, loose, missed, committed,
                     recovered>>
      /\ \/ flag[p] /\ UNCHANGED <<disk, mem, flag, held, failures, clean>>
         \/ ~flag[p] /\ S!Stage(p, snap) /\ (S!Save(p, new, FALSE) \/ S!SaveFails(p, new))
  BY DEF S!BeginStagedSession, S!state
<1>3. /\ snap \in S!Snapshot /\ snap # NoSnapshot
      /\ snap.work = mem[p].work /\ snap.sent = mem[p].sent
  <2>1. mem[p] \in S!Document
    BY <1>1 DEF S!TypeOK
  <2>2. snap \in S!Rollback
    BY <2>1 DEF S!Document, S!Rollback
  <2> QED BY <2>2, NoSnapshotIsNone DEF S!Snapshot
<1> HIDE DEF snap
<1>4. new \in S!Document /\ new.snap = snap /\ new.work = mem[p].work /\ new.sent = mem[p].sent
  BY <1>1, <1>3 DEF S!Document, S!TypeOK
<1> HIDE DEF new
<1>5. /\ flag' \in [Actor -> BOOLEAN] /\ held' \in [Actor -> S!Snapshot] /\ FlagInv'
      /\ flag'[p] /\ \A q \in Actor \ {p} : flag'[q] = flag[q]
  <2>1. CASE flag[p] /\ UNCHANGED <<flag, held>>
    BY <1>1, <2>1 DEF S!TypeOK, FlagInv
  <2>2. CASE S!Stage(p, snap)
    BY <1>1, <1>3, <2>2, StageFlag
  <2> QED BY <1>2, <2>1, <2>2
<1>6. /\ disk' \in S!Document /\ mem' \in [Actor -> S!Document] /\ clean' \in BOOLEAN
      /\ failures' \in 0 .. MaxFailures
      /\ \/ disk' = disk /\ clean' = clean
         \/ /\ disk'.snap = snap /\ disk'.work = mem[p].work /\ disk'.sent = mem[p].sent
            /\ clean' => clean /\ mem[p] = disk /\ disk.snap = NoSnapshot
  <2>1. CASE S!Save(p, new, FALSE) /\ ~flag[p]
    BY <1>1, <1>4, <2>1, SaveDoc DEF S!TypeOK
  <2>2. CASE S!SaveFails(p, new)
    BY <1>1, <1>4, <2>2, SaveFailsDoc DEF S!TypeOK
  <2>3. CASE UNCHANGED <<disk, mem, failures, clean>>
    BY <1>1, <2>3 DEF S!TypeOK
  <2> QED BY <1>2, <2>1, <2>2, <2>3
<1>7. /\ pc' \in [Actor -> S!Pc] /\ pc'[p] = "idle"
      /\ \A q \in Actor \ {p} : pc'[q] = pc[q]
  BY <1>1, <1>2 DEF S!TypeOK, S!Pc
<1>8. S!TypeOK'
  <2>1. settled' \subseteq Change
    BY <1>1, <1>2 DEF S!TypeOK, S!Document
  <2> QED BY <1>1, <1>2, <1>5, <1>6, <1>7, <2>1 DEF S!TypeOK
<1>9. BatchInv'
  BY <1>1, <1>2, <1>7 DEF BatchInv
<1>10. BlocksInv'
  BY <1>1, <1>2, <1>5, <1>7 DEF BlocksInv
<1>11. AnchoredInv'
  BY <1>1, <1>2 DEF AnchoredInv, Waiting
<1>12. CountInv'
  BY <1>1, <1>2, <1>3, <1>6 DEF CountInv
<1>13. \A q \in Actor : pc'[q] # "commit" => pc[q] # "commit"
  BY <1>2, <1>7
<1>14. WorkInv'
  <2>1. CASE disk' = disk /\ clean' = clean
    BY <1>1, <1>2, <1>13, <2>1 DEF WorkInv
  <2>2. CASE clean' => disk'.snap = snap /\ mem[p] = disk /\ disk.snap = NoSnapshot
    BY <1>2, <1>3, <2>2 DEF WorkInv
  <2> QED BY <1>6, <2>1, <2>2
<1> QED BY <1>5, <1>8, <1>9, <1>10, <1>11, <1>12, <1>14 DEF ChainInv

\* A message is sent, and counted unless a session is staged.
LEMMA SendStep ==
  ASSUME ChainInv, NEW p \in Actor, NEW m \in Thing, S!SendMessage(p, m)
  PROVE  ChainInv'
<1> DEFINE new == IF flag[p] THEN mem[p] ELSE [mem[p] EXCEPT !.sent = @ + 1]
<1>1. S!TypeOK /\ FlagInv /\ BatchInv /\ BlocksInv /\ AnchoredInv /\ CountInv /\ WorkInv
  BY DEF ChainInv
<1>2. /\ p \in up /\ pc[p] \in {"idle", "commit", "drop"} /\ p \in live /\ m \in S!Unsent
      /\ mem[p].sent < MaxSent
      /\ files' = files \cup {m} /\ blocks' = [blocks EXCEPT ![p] = @ \cup {m}]
      /\ S!Save(p, new, FALSE)
      /\ loose' = IF flag[p] THEN loose ELSE loose \cup {m}
      /\ missed' = IF flag[p] /\ pc[p] = "commit" THEN missed \cup {m} ELSE missed
      /\ UNCHANGED <<up, flag, held, pc, batch, live, opens, settled, anchored, committed, recovered>>
  BY DEF S!SendMessage, S!Free
<1>3. /\ m \notin anchored /\ m \notin loose /\ m \notin missed
      /\ \A q \in Actor : m \notin blocks[q]
  BY <1>2 DEF S!Unsent
<1>4. /\ new \in S!Document /\ new.snap = mem[p].snap /\ new.work = mem[p].work
      /\ new.sent = IF flag[p] THEN mem[p].sent ELSE mem[p].sent + 1
  <2>1. mem[p] \in S!Document
    BY <1>1 DEF S!TypeOK
  <2>2. mem[p].sent + 1 \in 0 .. MaxSent
    BY <1>2, <2>1, Bounds DEF S!Document
  <2> QED BY <2>1, <2>2 DEF S!Document
<1> HIDE DEF new
<1>5. /\ disk' \in S!Document /\ mem' \in [Actor -> S!Document] /\ clean' \in BOOLEAN
      /\ failures' = failures
      /\ clean' => /\ clean
                   /\ flag[p] <=> disk.snap # NoSnapshot
                   /\ disk'.snap = disk.snap /\ disk'.work = disk.work
                   /\ disk'.sent = IF flag[p] THEN disk.sent ELSE disk.sent + 1
  BY <1>1, <1>2, <1>4, SaveDoc
<1>6. /\ blocks' \in [Actor -> SUBSET Thing] /\ blocks'[p] = blocks[p] \cup {m}
      /\ \A q \in Actor \ {p} : blocks'[q] = blocks[q]
  BY <1>1, <1>2 DEF S!TypeOK
<1>7. S!TypeOK'
  BY <1>1, <1>2, <1>5, <1>6 DEF S!TypeOK
<1>8. FlagInv'
  BY <1>1, <1>2 DEF FlagInv
<1>9. BatchInv'
  BY <1>1, <1>2 DEF BatchInv
<1>10. \A q \in Actor : m \notin batch[q]
  BY <1>1, <1>3 DEF BatchInv
<1>11. BlocksInv'
  <2> SUFFICES ASSUME NEW q \in Actor
               PROVE  /\ q \notin live => blocks'[q] = {}
                      /\ ~flag[q] /\ pc[q] # "begin" => blocks'[q] \cup batch[q] \subseteq loose' \cup missed'
                      /\ pc[q] = "commit" => blocks'[q] \subseteq loose' \cup missed'
                      /\ flag[q] \/ pc[q] = "begin" => (blocks'[q] \cup batch[q]) \cap loose' \subseteq recovered
    BY <1>2 DEF BlocksInv
  <2>1. CASE q = p
    BY <1>1, <1>2, <1>3, <1>6, <1>10, <2>1 DEF BlocksInv
  <2>2. CASE q # p
    BY <1>1, <1>2, <1>3, <1>6, <1>10, <2>2 DEF BlocksInv
  <2> QED BY <2>1, <2>2
<1>12. AnchoredInv'
  <2>1. m \notin committed
    BY <1>1, <1>3 DEF BatchInv
  <2> QED BY <1>1, <1>2, <2>1 DEF AnchoredInv, Waiting
<1>13. CASE flag[p]
  <2>1. CountInv' /\ WorkInv'
    BY <1>1, <1>2, <1>4, <1>13, SameSnapshot
  <2> QED BY <1>7, <1>8, <1>9, <1>11, <1>12, <2>1 DEF ChainInv
<1>14. CASE ~flag[p]
  <2>1. /\ loose' = loose \cup {m} /\ Cardinality(loose') = Cardinality(loose) + 1
        /\ Cardinality(loose) \in Nat /\ Cardinality(committed) \in Nat
    <3>1. IsFiniteSet(loose) /\ Cardinality(loose) \in Nat /\ Cardinality(committed) \in Nat
      BY <1>1, CountsAreFinite DEF S!TypeOK
    <3> QED BY <1>2, <1>3, <1>14, <3>1, FS_AddElement
  <2>2. clean' => disk'.snap = NoSnapshot
    BY <1>5, <1>14
  <2>3. clean' => clean /\ disk'.sent = disk.sent + 1
    BY <1>5, <1>14
  <2>4. CountInv'
    BY <1>1, <1>2, <2>1, <2>2, <2>3 DEF CountInv
  <2>5. WorkInv'
    BY <2>2 DEF WorkInv
  <2> QED BY <1>7, <1>8, <1>9, <1>11, <1>12, <2>4, <2>5 DEF ChainInv
<1> QED BY <1>13, <1>14

\* The blocks of p become permanent.
LEMMA AnchorStep ==
  ASSUME ChainInv, NEW p \in Actor, S!AnchorBlocks(p)
  PROVE  ChainInv'
<1>1. S!TypeOK /\ FlagInv /\ BatchInv /\ BlocksInv /\ AnchoredInv /\ CountInv /\ WorkInv
  BY DEF ChainInv
<1>2. /\ p \in up /\ pc[p] = "idle" /\ blocks[p] # {} /\ blocks[p] \cap anchored = {}
      /\ pc' = [pc EXCEPT ![p] = "commit"]
      /\ batch' = [batch EXCEPT ![p] = blocks[p]] /\ blocks' = [blocks EXCEPT ![p] = {}]
      /\ files' = files \ blocks[p] /\ anchored' = anchored \cup blocks[p]
      /\ settled' = disk.work
      /\ UNCHANGED <<disk, mem, flag, held, up, live, opens, failures, clean, loose, missed,
                     committed, recovered>>
  BY DEF S!AnchorBlocks, S!Idle, S!state
<1>3. /\ blocks' \in [Actor -> SUBSET Thing] /\ blocks'[p] = {}
      /\ batch' \in [Actor -> SUBSET Thing] /\ batch'[p] = blocks[p]
      /\ \A q \in Actor \ {p} : blocks'[q] = blocks[q] /\ batch'[q] = batch[q]
      /\ pc' \in [Actor -> S!Pc] /\ pc'[p] = "commit"
      /\ \A q \in Actor \ {p} : pc'[q] = pc[q]
  BY <1>1, <1>2 DEF S!TypeOK, S!Pc
<1>4. S!TypeOK'
  <2>1. settled' \subseteq Change /\ anchored' \subseteq Thing /\ files' \subseteq Thing
    BY <1>1, <1>2 DEF S!TypeOK, S!Document
  <2> QED BY <1>1, <1>2, <1>3, <2>1 DEF S!TypeOK
<1>5. FlagInv'
  BY <1>1, <1>2 DEF FlagInv
<1>6. batch[p] = {} /\ \A q \in Actor : batch[q] \subseteq anchored
  BY <1>1, <1>2 DEF BatchInv
<1>7. BatchInv'
  BY <1>1, <1>2, <1>3, <1>6 DEF BatchInv
<1>8. BlocksInv'
  BY <1>1, <1>2, <1>3, <1>6 DEF BlocksInv
<1>9. AnchoredInv'
  <2>1. Waiting' = Waiting \cup blocks[p]
    BY <1>3, <1>6 DEF Waiting
  <2> QED BY <1>1, <1>2, <2>1 DEF AnchoredInv
<1>10. CountInv'
  BY <1>1, <1>2 DEF CountInv
<1>11. WorkInv'
  BY <1>3 DEF WorkInv
<1> QED BY <1>4, <1>5, <1>7, <1>8, <1>9, <1>10, <1>11 DEF ChainInv

\* The files are deleted by the sidecar.
LEMMA DropFilesStep ==
  ASSUME ChainInv, NEW p \in Actor, S!DiscardInSidecar(p)
  PROVE  ChainInv'
<1>1. S!TypeOK /\ FlagInv /\ BatchInv /\ BlocksInv /\ AnchoredInv /\ CountInv /\ WorkInv
  BY DEF ChainInv
<1>2. /\ p \in up /\ pc[p] = "idle" /\ files' = {} /\ pc' = [pc EXCEPT ![p] = "drop"]
      /\ UNCHANGED <<disk, mem, flag, held, up, batch, live, blocks, opens, failures, clean,
                     settled, anchored, loose, missed, committed, recovered>>
  BY DEF S!DiscardInSidecar, S!Idle, S!state, S!history
<1>3. /\ pc' \in [Actor -> S!Pc] /\ pc'[p] = "drop"
      /\ \A q \in Actor \ {p} : pc'[q] = pc[q]
  BY <1>1, <1>2 DEF S!TypeOK, S!Pc
<1>4. S!TypeOK'
  BY <1>1, <1>2, <1>3 DEF S!TypeOK
<1>5. FlagInv'
  BY <1>1, <1>2 DEF FlagInv
<1>6. BatchInv'
  BY <1>1, <1>2, <1>3 DEF BatchInv
<1>7. BlocksInv'
  BY <1>1, <1>2, <1>3 DEF BlocksInv
<1>8. AnchoredInv'
  BY <1>1, <1>2 DEF AnchoredInv, Waiting
<1>9. \A q \in Actor : pc[q] = "commit" => pc'[q] = "commit"
  BY <1>2, <1>3
<1>10. CountInv' /\ WorkInv'
  BY <1>1, <1>2, <1>9, DocStays
<1> QED BY <1>4, <1>5, <1>6, <1>7, <1>8, <1>10 DEF ChainInv

\* The changes of the session become permanent.
LEMMA CommitStep ==
  ASSUME ChainInv, NEW p \in Actor, S!CommitStagedSession(p)
  PROVE  ChainInv'
<1> DEFINE more == S!Cardinality(batch[p])
           new == [mem[p] EXCEPT !.sent = @ + more, !.snap = NoSnapshot]
<1>1. S!TypeOK /\ FlagInv /\ BatchInv /\ BlocksInv /\ AnchoredInv /\ CountInv /\ WorkInv
  BY DEF ChainInv
<1>2. /\ pc[p] = "commit" /\ batch' = [batch EXCEPT ![p] = {}]
      /\ settled' = IF flag[p] THEN disk'.work ELSE settled
      /\ UNCHANGED <<up, live, blocks, files, opens, anchored, loose, recovered>>
  BY DEF S!CommitStagedSession
<1>3. /\ p \in up /\ batch[p] # {} /\ batch[p] \subseteq anchored /\ batch[p] \cap committed = {}
      /\ blocks[p] \subseteq loose \cup missed
      /\ \A q \in Actor \ {p} : batch[p] \cap batch[q] = {}
  BY <1>1, <1>2 DEF BatchInv, BlocksInv, S!CommitStagedSession
<1>4. /\ batch' \in [Actor -> SUBSET Thing] /\ batch'[p] = {}
      /\ \A q \in Actor \ {p} : batch'[q] = batch[q]
  BY <1>1, <1>2 DEF S!TypeOK
<1>5. Waiting \subseteq Waiting' \cup batch[p]
  BY <1>4 DEF Waiting
<1>6. ASSUME pc' = [pc EXCEPT ![p] = "end"] \/ pc' = [pc EXCEPT ![p] = "idle"]
      PROVE  /\ pc' \in [Actor -> S!Pc] /\ pc'[p] \in {"idle", "end"}
             /\ \A q \in Actor \ {p} : pc'[q] = pc[q]
  BY <1>1, <1>6 DEF S!TypeOK, S!Pc
<1>7. CASE ~flag[p]
  <2>1. /\ pc' = [pc EXCEPT ![p] = "end"] /\ clean' = (clean /\ disk.snap = NoSnapshot)
        /\ UNCHANGED <<disk, mem, flag, held, settled, failures, missed, committed>>
    BY <1>2, <1>7 DEF S!CommitStagedSession, S!state
  <2>2. batch[p] \subseteq loose \cup missed
    BY <1>1, <1>2, <1>7 DEF BlocksInv
  <2>3. S!TypeOK'
    BY <1>1, <1>2, <1>4, <1>6, <2>1 DEF S!TypeOK
  <2>4. FlagInv'
    BY <1>1, <2>1 DEF FlagInv
  <2>5. BatchInv'
    BY <1>1, <1>2, <1>3, <1>4, <1>6, <2>1 DEF BatchInv
  <2>6. BlocksInv'
    BY <1>1, <1>2, <1>3, <1>4, <1>6, <2>1 DEF BlocksInv
  <2>7. AnchoredInv'
    BY <1>1, <1>2, <1>5, <2>1, <2>2 DEF AnchoredInv
  <2>8. CountInv' /\ WorkInv'
    BY <1>1, <1>2, <2>1 DEF CountInv, WorkInv
  <2> QED BY <2>3, <2>4, <2>5, <2>6, <2>7, <2>8 DEF ChainInv
<1>8. ASSUME flag[p]
      PROVE  /\ S!Stage(p, NoSnapshot) /\ new.sent <= MaxSent
             /\ \/ /\ S!Save(p, new, FALSE) /\ pc' = [pc EXCEPT ![p] = "end"]
                   /\ committed' = committed \cup batch[p] /\ missed' = missed
                \/ /\ S!SaveFails(p, new) /\ pc' = [pc EXCEPT ![p] = "idle"]
                   /\ missed' = missed \cup batch[p] /\ committed' = committed
  BY <1>8 DEF S!CommitStagedSession
<1>9. ASSUME flag[p]
      PROVE  /\ new \in S!Document /\ new.snap = NoSnapshot /\ new.work = mem[p].work
             /\ new.sent = mem[p].sent + Cardinality(batch[p])
  <2>1. mem[p] \in S!Document /\ batch[p] \in SUBSET Thing
    BY <1>1 DEF S!TypeOK
  <2>2. more = Cardinality(batch[p]) /\ more \in Nat
    BY <2>1, SameCount, CountsAreFinite
  <2> HIDE DEF more
  <2>3. /\ new \in [gui : BOOLEAN, work : SUBSET Change, sent : Nat, snap : S!Snapshot]
        /\ new.snap = NoSnapshot /\ new.work = mem[p].work /\ new.sent = mem[p].sent + more
    <3>1. /\ mem[p] \in [gui : BOOLEAN, work : SUBSET Change, sent : 0 .. MaxSent, snap : S!Snapshot]
          /\ NoSnapshot \in S!Snapshot
      BY <2>1 DEF S!Document, S!Snapshot
    <3>2. mem[p].sent + more \in Nat
      BY <2>2, <3>1, Bounds
    <3> QED BY <3>1, <3>2
  <2> HIDE DEF new
  <2>4. new.sent \in 0 .. MaxSent
    BY <1>8, <1>9, <2>3, Bounds
  <2> QED BY <2>2, <2>3, <2>4 DEF S!Document
<1> HIDE DEF new
<1>10. CASE flag[p] /\ S!Save(p, new, FALSE)
  <2>1. /\ pc' = [pc EXCEPT ![p] = "end"] /\ committed' = committed \cup batch[p]
        /\ missed' = missed
    <3>1. ~S!SaveFails(p, new)
      BY <1>1, <1>9, <1>10, SaveDoc, SaveFailsDoc
    <3> QED BY <1>8, <1>10, <3>1
  <2>2. /\ disk' \in S!Document /\ mem' \in [Actor -> S!Document] /\ clean' \in BOOLEAN
        /\ failures' = failures
        /\ disk'.snap = NoSnapshot /\ disk'.sent = mem[p].sent + Cardinality(batch[p])
        /\ clean' => clean /\ mem[p] = disk
    BY <1>1, <1>9, <1>10, SaveDoc
  <2>3. /\ flag' \in [Actor -> BOOLEAN] /\ held' \in [Actor -> S!Snapshot] /\ FlagInv'
        /\ ~flag'[p] /\ \A q \in Actor \ {p} : flag'[q] = flag[q]
    BY <1>1, <1>8, <1>10, StageFlag DEF S!Snapshot
  <2>4. S!TypeOK'
    <3>1. settled' \subseteq Change /\ committed' \subseteq Thing
      BY <1>1, <1>2, <2>1, <2>2 DEF S!TypeOK, S!Document
    <3> QED BY <1>1, <1>2, <1>4, <1>6, <2>1, <2>2, <2>3, <3>1 DEF S!TypeOK
  <2>5. BatchInv'
    BY <1>1, <1>2, <1>3, <1>4, <1>6, <2>1 DEF BatchInv
  <2>6. BlocksInv'
    BY <1>1, <1>2, <1>3, <1>4, <1>6, <2>1, <2>3 DEF BlocksInv
  <2>7. AnchoredInv'
    <3>1. batch[p] \cap loose \subseteq recovered
      BY <1>1, <1>10 DEF BlocksInv
    <3> QED BY <1>1, <1>2, <1>5, <2>1, <3>1 DEF AnchoredInv
  <2>8. CountInv'
    <3>1. /\ IsFiniteSet(committed) /\ IsFiniteSet(batch[p]) /\ Cardinality(loose) \in Nat
          /\ Cardinality(committed) \in Nat /\ Cardinality(batch[p]) \in Nat
      BY <1>1, CountsAreFinite DEF S!TypeOK
    <3>2. batch[p] \cap committed = {} /\ committed \cap batch[p] = {}
      BY <1>3
    <3>3. Cardinality(committed \cap batch[p]) = 0
      BY <3>2, FS_EmptySet
    <3>4. Cardinality(committed \cup batch[p]) = Cardinality(committed) + Cardinality(batch[p])
      <4>1. Cardinality(committed \cup batch[p])
              = Cardinality(committed) + Cardinality(batch[p]) - Cardinality(committed \cap batch[p])
        BY <3>1, FS_Union
      <4> QED BY <3>1, <3>3, <4>1
    <3>5. clean' => disk'.sent = disk.sent + Cardinality(batch[p])
      BY <2>2
    <3>6. clean' => disk.sent = Cardinality(loose) + Cardinality(committed)
      BY <1>1, <2>2 DEF CountInv
    <3> QED BY <1>2, <2>1, <2>2, <3>1, <3>4, <3>5, <3>6 DEF CountInv
  <2>9. WorkInv'
    BY <2>2 DEF WorkInv
  <2> QED BY <2>3, <2>4, <2>5, <2>6, <2>7, <2>8, <2>9 DEF ChainInv
<1>11. CASE flag[p] /\ S!SaveFails(p, new)
  <2>1. /\ pc' = [pc EXCEPT ![p] = "idle"] /\ committed' = committed
        /\ missed' = missed \cup batch[p]
    <3>1. ~S!Save(p, new, FALSE)
      BY <1>1, <1>9, <1>11, SaveDoc, SaveFailsDoc
    <3> QED BY <1>8, <1>11, <3>1
  <2>2. /\ disk' = disk /\ clean' = clean /\ mem' \in [Actor -> S!Document]
        /\ failures' \in 0 .. MaxFailures
    BY <1>1, <1>9, <1>11, SaveFailsDoc
  <2>3. /\ flag' \in [Actor -> BOOLEAN] /\ held' \in [Actor -> S!Snapshot] /\ FlagInv'
        /\ ~flag'[p] /\ \A q \in Actor \ {p} : flag'[q] = flag[q]
    BY <1>1, <1>8, <1>11, StageFlag DEF S!Snapshot
  <2>4. S!TypeOK'
    <3>1. settled' \subseteq Change /\ missed' \subseteq Thing
      BY <1>1, <1>2, <2>1, <2>2 DEF S!TypeOK, S!Document
    <3> QED BY <1>1, <1>2, <1>4, <1>6, <2>1, <2>2, <2>3, <3>1 DEF S!TypeOK
  <2>5. BatchInv'
    BY <1>1, <1>2, <1>3, <1>4, <1>6, <2>1 DEF BatchInv
  <2>6. BlocksInv'
    BY <1>1, <1>2, <1>3, <1>4, <1>6, <2>1, <2>3 DEF BlocksInv
  <2>7. AnchoredInv'
    BY <1>1, <1>2, <1>5, <2>1 DEF AnchoredInv
  <2>8. CountInv'
    BY <1>1, <1>2, <2>1, <2>2 DEF CountInv
  <2>9. WorkInv'
    BY <1>3, <2>1 DEF WorkInv
  <2> QED BY <2>3, <2>4, <2>5, <2>6, <2>7, <2>8, <2>9 DEF ChainInv
<1> QED BY <1>7, <1>8, <1>10, <1>11

\* The session is discarded.
LEMMA DiscardStep ==
  ASSUME ChainInv, NEW p \in Actor, S!DiscardSession(p)
  PROVE  /\ ChainInv'
         /\ flag[p] /\ clean' /\ failures' = failures =>
              /\ clean /\ disk.snap # NoSnapshot
              /\ disk'.work = disk.snap.work
<1> DEFINE new == [mem[p] EXCEPT !.work = held[p].work, !.sent = held[p].sent, !.snap = NoSnapshot]
<1>1. S!TypeOK /\ FlagInv /\ BatchInv /\ BlocksInv /\ AnchoredInv /\ CountInv /\ WorkInv
  BY DEF ChainInv
<1>2. /\ p \in up /\ pc[p] = "idle" /\ files' = {} /\ live' = live \ {p}
      /\ blocks' = [blocks EXCEPT ![p] = {}] /\ pc' = [pc EXCEPT ![p] = "end"]
      /\ UNCHANGED <<up, batch, opens, settled, anchored, loose, missed, committed, recovered>>
      /\ \/ ~flag[p] /\ UNCHANGED <<disk, mem, flag, held, failures, clean>>
         \/ flag[p] /\ S!Stage(p, NoSnapshot) /\ (S!Save(p, new, FALSE) \/ S!SaveFails(p, new))
  BY DEF S!DiscardSession, S!Idle, S!state, S!history
<1>3. ASSUME flag[p]
      PROVE  /\ new \in S!Document /\ new.snap = NoSnapshot
             /\ new.work = held[p].work /\ new.sent = held[p].sent
  <2>1. mem[p] \in S!Document /\ held[p] \in S!Rollback
    BY <1>1, <1>3 DEF S!TypeOK, FlagInv, S!Snapshot
  <2> QED BY <2>1 DEF S!Document, S!Rollback, S!Snapshot
<1> HIDE DEF new
<1>4. /\ flag' \in [Actor -> BOOLEAN] /\ held' \in [Actor -> S!Snapshot] /\ FlagInv'
      /\ ~flag'[p] /\ \A q \in Actor \ {p} : flag'[q] = flag[q]
  <2>1. CASE ~flag[p] /\ UNCHANGED <<flag, held>>
    BY <1>1, <2>1 DEF S!TypeOK, FlagInv
  <2>2. CASE S!Stage(p, NoSnapshot)
    BY <1>1, <2>2, StageFlag DEF S!Snapshot
  <2> QED BY <1>2, <2>1, <2>2
<1>5. /\ disk' \in S!Document /\ mem' \in [Actor -> S!Document] /\ clean' \in BOOLEAN
      /\ failures' \in 0 .. MaxFailures
      /\ \/ disk' = disk /\ clean' = clean /\ (flag[p] => failures' # failures)
         \/ /\ flag[p] /\ disk'.snap = NoSnapshot
            /\ disk'.work = held[p].work /\ disk'.sent = held[p].sent
            /\ clean' => clean /\ disk.snap # NoSnapshot /\ held[p] = disk.snap
  <2>1. CASE flag[p] /\ S!Save(p, new, FALSE)
    BY <1>1, <1>3, <2>1, SaveDoc DEF S!TypeOK
  <2>2. CASE flag[p] /\ S!SaveFails(p, new)
    BY <1>1, <1>3, <2>2, SaveFailsDoc DEF S!TypeOK
  <2>3. CASE ~flag[p] /\ UNCHANGED <<disk, mem, failures, clean>>
    BY <1>1, <2>3 DEF S!TypeOK
  <2> QED BY <1>2, <2>1, <2>2, <2>3
<1>6. /\ pc' \in [Actor -> S!Pc] /\ pc'[p] = "end"
      /\ blocks' \in [Actor -> SUBSET Thing] /\ blocks'[p] = {}
      /\ \A q \in Actor \ {p} : pc'[q] = pc[q] /\ blocks'[q] = blocks[q]
  BY <1>1, <1>2 DEF S!TypeOK, S!Pc
<1>7. S!TypeOK'
  BY <1>1, <1>2, <1>4, <1>5, <1>6 DEF S!TypeOK
<1>8. batch[p] = {}
  BY <1>1, <1>2 DEF BatchInv
<1>9. BatchInv'
  BY <1>1, <1>2, <1>6 DEF BatchInv
<1>10. BlocksInv'
  BY <1>1, <1>2, <1>4, <1>6, <1>8 DEF BlocksInv
<1>11. AnchoredInv'
  BY <1>1, <1>2 DEF AnchoredInv, Waiting
<1>12. \A q \in Actor : pc[q] = "commit" => pc'[q] = "commit"
  BY <1>2, <1>6
<1>13. CountInv' /\ WorkInv'
  <2>1. CASE disk' = disk /\ clean' = clean
    BY <1>1, <1>2, <1>12, <2>1, DocStays
  <2>2. CASE /\ disk'.snap = NoSnapshot /\ disk'.sent = held[p].sent
             /\ clean' => clean /\ disk.snap # NoSnapshot /\ held[p] = disk.snap
    <3>1. clean' => disk'.sent = disk.snap.sent /\ disk.snap.sent = disk.sent
      BY <1>1, <2>2 DEF CountInv
    <3> QED BY <1>1, <1>2, <2>2, <3>1 DEF CountInv, WorkInv
  <2> QED BY <1>5, <2>1, <2>2
<1>14. flag[p] /\ clean' /\ failures' = failures =>
         clean /\ disk.snap # NoSnapshot /\ disk'.work = disk.snap.work
  BY <1>5
<1> QED BY <1>4, <1>7, <1>9, <1>10, <1>11, <1>13, <1>14 DEF ChainInv

\* Every step of ChainState keeps its invariant.
LEMMA ChainNext == ChainInv /\ S!Next => ChainInv'
BY OpenStep, CloseStep, ChangeSteps, SectionSteps, BeginStep, SendStep, AnchorStep, CommitStep,
   DiscardStep, DropFilesStep
   DEF S!Next

-----------------------------------------------------------------------------
(* ChainState: the theorems *)

LEMMA ChainAlways == Spec => []ChainInv
<1>1. Init => ChainInv
  BY ChainInit DEF Init
<1>2. ASSUME ChainInv, [Next]_vars PROVE ChainInv'
  <2>1. CASE S!Next
    BY <1>2, <2>1, ChainNext
  <2>2. CASE UNCHANGED chainStateVars
    BY <1>2, <2>2 DEF chainStateVars, ChainInv, S!TypeOK, FlagInv, BatchInv, BlocksInv, AnchoredInv,
       CountInv, WorkInv, Waiting
  <2> QED BY <1>2, <2>1, <2>2 DEF Next, vars
<1> QED BY <1>1, <1>2, PTL DEF Spec

\* All variables of both records have values of their types; a count is never above the
\* bound, a snapshot is there whenever the flag of an object says so.
THEOREM RecordsTypes == Spec => []TypeOK
<1>1. ChainInv /\ WalletInv => TypeOK
  BY DEF ChainInv, WalletInv, TypeOK
<1> QED BY <1>1, ChainAlways, WalletAlways, PTL

\* create_block, commit_staged_session and discard_staged_session: as long as no process
\* saved a copy or used a flag unlike the file, the count in the document is that of the
\* messages counted when they were sent or by a commit, no anchored message is left out
\* unless its commit was prevented, and one is counted twice only if a process loaded it.
THEOREM CountsAreRight == Spec => []MessagesCounted
<1>1. S!Cardinality(loose) = Cardinality(loose) /\ S!Cardinality(committed) = Cardinality(committed)
  BY SameCount
<1>2. ChainInv => MessagesCounted
  BY <1>1 DEF ChainInv, CountInv, AnchoredInv, Waiting, MessagesCounted, S!MessagesCounted
<1> QED BY <1>2, ChainAlways, PTL

\* discard_staged_session: a discard by a process with the staged session, when files and
\* copies agree, leaves the work as it was before the session, unless blocks became
\* permanent whose commit did not come.
THEOREM DiscardIsExact == Spec => DiscardRestores
<1>1. ASSUME ChainInv PROVE S!DiscardRestoresStep
  <2> SUFFICES ASSUME NEW p \in Actor, S!DiscardSession(p), flag[p], S!CleanDiscard
               PROVE  disk'.work = settled
    BY DEF S!DiscardRestoresStep
  <2>1. clean' /\ failures' = failures /\ missed = {} /\ \A q \in Actor : pc[q] # "commit"
    BY DEF S!CleanDiscard
  <2>2. clean /\ disk.snap # NoSnapshot /\ disk'.work = disk.snap.work
    BY <1>1, <2>1, DiscardStep
  <2> QED BY <1>1, <2>1, <2>2 DEF ChainInv, WorkInv
<1> QED BY <1>1, ChainAlways, PTL DEF DiscardRestores

\* The settings in the file stay, whatever sections of its copy the backend has changed.
LEMMA BackendSave ==
  ASSUME S!TypeOK, NEW p \in Actor, NEW new, DOMAIN new = DOMAIN mem[p], S!Save(p, new, FALSE)
  PROVE  disk'.gui = disk.gui
<1>1. disk' = [new EXCEPT !.gui = disk.gui]
  BY DEF S!Save, S!Merged
<1>2. "gui" \in DOMAIN new
  BY DEF S!TypeOK, S!Document
<1> QED BY <1>1, <1>2

LEMMA BackendSteps ==
  ASSUME S!TypeOK, NEW p \in Actor,
         \/ S!Open(p) \/ S!Close(p) \/ S!Reload(p)
         \/ \E c \in Change : S!UpdateRelationship(p, c)
         \/ S!StartSession(p) \/ S!BeginStagedSession(p)
         \/ \E m \in Thing : S!SendMessage(p, m)
         \/ S!AnchorBlocks(p) \/ S!CommitStagedSession(p)
         \/ S!DiscardSession(p) \/ S!DiscardInSidecar(p) \/ S!DropSession(p) \/ S!EndSession(p)
  PROVE  disk'.gui = disk.gui
<1>1. CASE S!Open(p) \/ S!Close(p) \/ S!Reload(p) \/ S!AnchorBlocks(p) \/ S!DiscardInSidecar(p)
  BY <1>1 DEF S!Open, S!Close, S!Reload, S!AnchorBlocks, S!DiscardInSidecar, S!state
<1>2. CASE S!StartSession(p) \/ S!DropSession(p) \/ S!EndSession(p)
  BY <1>2, BackendSave DEF S!StartSession, S!DropSession, S!EndSession
<1>3. ASSUME NEW c \in Change, S!UpdateRelationship(p, c) PROVE disk'.gui = disk.gui
  BY <1>3, BackendSave DEF S!UpdateRelationship, S!Update, S!SaveFails
<1>4. CASE S!BeginStagedSession(p)
  BY <1>4, BackendSave DEF S!BeginStagedSession, S!state, S!SaveFails
<1>5. ASSUME NEW m \in Thing, S!SendMessage(p, m) PROVE disk'.gui = disk.gui
  <2> DEFINE new == IF flag[p] THEN mem[p] ELSE [mem[p] EXCEPT !.sent = @ + 1]
  <2>1. S!Save(p, new, FALSE) /\ DOMAIN new = DOMAIN mem[p]
    BY <1>5 DEF S!SendMessage
  <2> QED BY <2>1, BackendSave
<1>6. CASE S!CommitStagedSession(p)
  BY <1>6, BackendSave DEF S!CommitStagedSession, S!state, S!SaveFails
<1>7. CASE S!DiscardSession(p)
  BY <1>7, BackendSave DEF S!DiscardSession, S!state, S!SaveFails
<1> QED BY <1>1, <1>2, <1>3, <1>4, <1>5, <1>6, <1>7

\* _save with and without the mark of the GUI: whatever the age of their copies, the GUI and
\* the backend do not overwrite each other.  Only a change of the setting changes the
\* setting in the file, and that changes neither the work nor the count.
THEOREM NobodyCrosses == Spec => NoCrossOverwrite
<1>1. ASSUME ChainInv, S!Next PROVE S!NoCrossOverwriteStep
  <2>1. S!TypeOK
    BY <1>1 DEF ChainInv
  <2>2. disk'.gui # disk.gui => \E p \in Actor : S!SetAutoAnchor(p)
    BY <1>1, <2>1, BackendSteps DEF S!Next
  <2>3. ASSUME NEW p \in Actor, S!SetAutoAnchor(p)
        PROVE  disk'.work = disk.work /\ disk'.sent = disk.sent
    BY <2>1, <2>3 DEF S!SetAutoAnchor, S!Update, S!Save, S!SaveFails, S!Merged, S!TypeOK, S!Document
  <2> QED BY <2>2, <2>3 DEF S!NoCrossOverwriteStep
<1>2. ASSUME ChainInv, [Next]_vars
      PROVE  [component = "ChainState" => S!NoCrossOverwriteStep]_vars
  BY <1>1, <1>2 DEF Next
<1> QED BY <1>2, ChainAlways, PTL DEF Spec, NoCrossOverwrite

=============================================================================
