-------------------------- MODULE ExchangesProofs --------------------------
(***************************************************************************)
(* Proofs about what MCExchanges composes: shared memories, permissions,   *)
(* market and cache, handshakes, the limits of a node and the transfer of  *)
(* a Qube, for any processes, requests, limits, windows and sizes.         *)
(***************************************************************************)
EXTENDS MCExchanges, FiniteSetTheorems, WellFoundedInduction, TLAPS

-----------------------------------------------------------------------------
(* Transfer: the inductive invariant *)

\* What a command has packed is what was there when it began; and when the wallet has
\* signed, the NFT is with the recipient.
CommandInv ==
  \A c \in Item : command[c] # NoCall =>
    /\ command[c].package.blocks = command[c].begun
    /\ command[c].step = "signed" => holder[command[c].nft] = command[c].to

\* The record is what its last writer packed, for the recipient if that is a transfer.
WriterInv ==
  writer # NoCall =>
    LET k == command[writer] IN
    /\ k # NoCall
    /\ record = [package |-> k.package,
                 sealed |-> IF k.kind \in {"sync", "auto"} THEN Owner ELSE k.to]

\* A directory has been deleted by a transfer that is over, and what that transfer has
\* sent is with its recipient.
DeleterInv ==
  \A q \in Actor :
    LET k == command[deleter[q]] IN
    /\ q \notin local => deleter[q] # NoCall
    /\ deleter[q] # NoCall =>
         /\ k # NoCall /\ k.step = "over" /\ k.package.qube = q
         /\ k.kind \notin {"sync", "auto"} /\ holder[k.nft] = k.to

\* What is built and signed is a transfer.
StepInv ==
  \A c \in Item : command[c] # NoCall /\ command[c].step \in {"build", "built", "signed"} =>
    command[c].kind = "prepare"

TransferInv == T!TypeOK /\ CommandInv /\ WriterInv /\ DeleterInv /\ StepInv

LEMMA TransferInit == T!Init => TransferInv
<1> USE ExchangesAssumption DEF T!TransferAssumption
<1> QED BY DEF T!Init, TransferInv, T!TypeOK, CommandInv, WriterInv, DeleterInv, StepInv

\* A command as it is after a step that moves it, and perhaps has chosen an NFT.
Moved(c, step, nft) ==
  LET k == command[c] IN
  /\ command' \in [Item -> T!Command \cup {NoCall}]
  /\ command'[c] \in T!Command /\ command'[c] # NoCall
  /\ command'[c].step = step /\ command'[c].nft = nft
  /\ command'[c].kind = k.kind /\ command'[c].package = k.package
  /\ command'[c].to = k.to /\ command'[c].begun = k.begun
  /\ \A d \in Item \ {c} : command'[d] = command[d]

LEMMA MovesTo ==
  ASSUME T!TypeOK, NEW c \in Item, command[c] # NoCall, NEW step \in T!Step, T!Moves(c, step)
  PROVE  Moved(c, step, command[c].nft)
<1> DEFINE o == [command[c] EXCEPT !.step = step]
<1>1. command[c] \in T!Command
  BY DEF T!TypeOK
<1>2. /\ o \in T!Command /\ o.step = step /\ o.nft = command[c].nft /\ o.kind = command[c].kind
      /\ o.package = command[c].package /\ o.to = command[c].to /\ o.begun = command[c].begun
  BY <1>1 DEF T!Command
<1>3. command' = [command EXCEPT ![c] = o]
  BY DEF T!Moves
<1> HIDE DEF o
<1> QED BY <1>2, <1>3, ExchangesAssumption DEF T!TransferAssumption, T!TypeOK, Moved

MovesWith(c, step, n) == command' = [command EXCEPT ![c].step = step, ![c].nft = n]

LEMMA MovesWithNFT ==
  ASSUME T!TypeOK, NEW c \in Item, command[c] # NoCall, NEW step \in T!Step, NEW n \in Actor,
         MovesWith(c, step, n)
  PROVE  Moved(c, step, n)
<1> DEFINE o == [command[c] EXCEPT !.step = step, !.nft = n]
<1>1. command[c] \in T!Command
  BY DEF T!TypeOK
<1>2. /\ o \in T!Command /\ o.step = step /\ o.nft = n /\ o.kind = command[c].kind
      /\ o.package = command[c].package /\ o.to = command[c].to /\ o.begun = command[c].begun
  BY <1>1 DEF T!Command
<1>3. command' = [command EXCEPT ![c] = o]
  BY <1>1 DEF MovesWith, T!TypeOK, T!Command
<1> HIDE DEF o
<1> QED BY <1>2, <1>3, ExchangesAssumption DEF T!TransferAssumption, T!TypeOK, Moved

\* The record after a command has written it.
LEMMA WriteRecord ==
  ASSUME T!TypeOK, NEW c \in Item, command[c] # NoCall,
         NEW reader \in Recipient \cup {Owner}, T!Write(c, reader)
  PROVE  /\ record' \in T!Record /\ writer' = c /\ writer' # NoCall
         /\ record' = [package |-> command[c].package, sealed |-> reader]
<1>1. command[c].package \in T!Package
  BY DEF T!TypeOK, T!Command
<1> QED BY <1>1, ExchangesAssumption DEF T!Write, T!Record, T!TransferAssumption

\* A step that moves one command and writes nothing keeps what the record says.
LEMMA WriterStays ==
  ASSUME T!TypeOK, WriterInv, UNCHANGED <<record, writer>>,
         NEW c \in Item, NEW step, NEW nft, Moved(c, step, nft)
  PROVE  WriterInv'
BY DEF WriterInv, Moved, T!TypeOK

\* A command that writes the record and moves, for the reader of its kind.
LEMMA WriterMoves ==
  ASSUME T!TypeOK, NEW c \in Item, command[c] # NoCall, NEW step, NEW nft, Moved(c, step, nft),
         NEW reader \in Recipient \cup {Owner}, T!Write(c, reader),
         reader = IF command[c].kind \in {"sync", "auto"} THEN Owner ELSE command[c].to
  PROVE  WriterInv' /\ record' \in T!Record /\ writer' \in Item
BY WriteRecord DEF WriterInv, Moved

\* A command that is not over moves: what deleted a directory is over, and stays.
LEMMA DeleterStays ==
  ASSUME T!TypeOK, DeleterInv, deleter' = deleter, local' = local,
         NEW c \in Item, command[c] # NoCall, command[c].step # "over",
         NEW step, NEW nft, Moved(c, step, nft),
         \A n \in Actor : holder[n] # Owner => holder'[n] = holder[n]
  PROVE  DeleterInv'
<1> SUFFICES ASSUME NEW q \in Actor, deleter[q] # NoCall
             PROVE  LET k == command'[deleter[q]] IN
                    /\ k # NoCall /\ k.step = "over" /\ k.package.qube = q
                    /\ k.kind \notin {"sync", "auto"} /\ holder'[k.nft] = k.to
  BY DEF DeleterInv
<1>1. deleter[q] \in Item /\ deleter[q] # c
  BY DEF T!TypeOK, DeleterInv
<1>2. command'[deleter[q]] = command[deleter[q]]
  BY <1>1 DEF Moved
<1>3. command[deleter[q]] \in T!Command /\ holder[command[deleter[q]].nft] = command[deleter[q]].to
  BY <1>1 DEF T!TypeOK, DeleterInv
<1>4. holder'[command[deleter[q]].nft] = command[deleter[q]].to
  BY <1>3, ExchangesAssumption DEF T!TransferAssumption, T!Command
<1> QED BY <1>2, <1>4 DEF DeleterInv

\* A transfer that is over deletes the directory of its Qube.
LEMMA DeleterDeletes ==
  ASSUME T!TypeOK, DeleterInv,
         NEW c \in Item, command[c] # NoCall, command[c].step # "over", T!Delete(c),
         NEW nft \in Actor, Moved(c, "over", nft),
         command[c].kind \notin {"sync", "auto"}, holder'[nft] = command[c].to,
         \A n \in Actor : holder[n] # Owner => holder'[n] = holder[n]
  PROVE  DeleterInv' /\ local' \subseteq Actor /\ deleter' \in [Actor -> Item \cup {NoCall}]
<1> DEFINE s == command[c].package.qube
<1>1. s \in Actor
  BY DEF T!TypeOK, T!Command, T!Package
<1>2. /\ local' = local \ {s}
      /\ deleter' = [deleter EXCEPT ![s] = IF @ = NoCall THEN c ELSE @]
  BY DEF T!Delete, T!Subject
<1> HIDE DEF s
<1>3. local' \subseteq Actor /\ deleter' \in [Actor -> Item \cup {NoCall}]
  BY <1>1, <1>2 DEF T!TypeOK
<1>4. \A q \in Actor : deleter'[q] = deleter[q] \/ (q = s /\ deleter[q] = NoCall /\ deleter'[q] = c)
  BY <1>1, <1>2 DEF T!TypeOK
<1>5. c # NoCall
  BY ExchangesAssumption DEF T!TransferAssumption
<1>6. ASSUME NEW q \in Actor, q \notin local' PROVE deleter'[q] # NoCall
  BY <1>1, <1>2, <1>5, <1>6 DEF T!TypeOK, DeleterInv
<1>7. ASSUME NEW q \in Actor, deleter'[q] # NoCall
      PROVE  LET k == command'[deleter'[q]] IN
             /\ k # NoCall /\ k.step = "over" /\ k.package.qube = q
             /\ k.kind \notin {"sync", "auto"} /\ holder'[k.nft] = k.to
  <2>1. CASE deleter'[q] = c /\ q = s
    BY <2>1 DEF Moved, s
  <2>2. CASE deleter'[q] = deleter[q]
    <3>1. deleter[q] \in Item /\ deleter[q] # c
      BY <1>7, <2>2 DEF T!TypeOK, DeleterInv
    <3>2. command'[deleter[q]] = command[deleter[q]]
      BY <3>1 DEF Moved
    <3>3. /\ command[deleter[q]] \in T!Command
          /\ holder[command[deleter[q]].nft] = command[deleter[q]].to
      BY <1>7, <2>2, <3>1 DEF T!TypeOK, DeleterInv
    <3>4. holder'[command[deleter[q]].nft] = command[deleter[q]].to
      BY <3>3, ExchangesAssumption DEF T!TransferAssumption, T!Command
    <3> QED BY <1>7, <2>2, <3>2, <3>4 DEF DeleterInv
  <2> QED BY <1>4, <1>7, <2>1, <2>2
<1> QED BY <1>3, <1>6, <1>7 DEF DeleterInv

-----------------------------------------------------------------------------
(* Transfer: the steps *)

\* A step that moves one command, which is not over, and leaves alone the record and
\* what has been deleted.
LEMMA CommandMoves ==
  ASSUME TransferInv, NEW c \in Item, command[c] # NoCall, command[c].step # "over",
         NEW step \in T!Step, NEW nft \in Actor, Moved(c, step, nft),
         step \in {"build", "built", "signed"} => command[c].kind = "prepare",
         step = "signed" => holder'[nft] = command[c].to,
         UNCHANGED <<blocks, local, record, copy, writer, deleter>>,
         holder' \in [Actor -> Recipient \cup {Owner}],
         \A n \in Actor : holder[n] # Owner => holder'[n] = holder[n]
  PROVE  TransferInv'
<1>1. T!TypeOK'
  BY DEF TransferInv, T!TypeOK, Moved
<1>2. WriterInv' /\ DeleterInv'
  BY WriterStays, DeleterStays DEF TransferInv
<1>3. StepInv'
  BY DEF TransferInv, StepInv, Moved
<1>4. CommandInv'
  BY ExchangesAssumption
     DEF TransferInv, CommandInv, Moved, T!TypeOK, T!TransferAssumption, T!Command
<1> QED BY <1>1, <1>2, <1>3, <1>4 DEF TransferInv

\* A step that writes the record with it.
LEMMA CommandWrites ==
  ASSUME TransferInv, NEW c \in Item, command[c] # NoCall, command[c].step # "over",
         NEW step \in {"build", "over"}, NEW nft \in Actor, Moved(c, step, nft),
         step = "build" => command[c].kind = "prepare",
         NEW reader \in Recipient \cup {Owner}, T!Write(c, reader),
         reader = IF command[c].kind \in {"sync", "auto"} THEN Owner ELSE command[c].to,
         UNCHANGED <<blocks, copy>>,
         DeleterInv', local' \subseteq Actor, deleter' \in [Actor -> Item \cup {NoCall}],
         holder' \in [Actor -> Recipient \cup {Owner}],
         \A n \in Actor : holder[n] # Owner => holder'[n] = holder[n]
  PROVE  TransferInv'
<1>1. WriterInv' /\ record' \in T!Record /\ writer' \in Item
  BY WriterMoves DEF TransferInv
<1>2. T!TypeOK'
  BY <1>1 DEF TransferInv, T!TypeOK, Moved
<1>3. StepInv'
  BY DEF TransferInv, StepInv, Moved
<1>4. CommandInv'
  BY ExchangesAssumption
     DEF TransferInv, CommandInv, Moved, T!TypeOK, T!TransferAssumption, T!Command
<1> QED BY <1>1, <1>2, <1>3, <1>4 DEF TransferInv

LEMMA TransferAnchor == ASSUME TransferInv, NEW q \in Actor, T!Anchor(q) PROVE TransferInv'
<1>1. blocks' \in [Actor -> 0 .. MaxBlocks]
  BY ExchangesAssumption DEF T!TransferAssumption, TransferInv, T!TypeOK, T!Anchor
<1> QED BY <1>1 DEF T!Anchor, TransferInv, T!TypeOK, CommandInv, WriterInv, DeleterInv, StepInv

LEMMA TransferBegin ==
  ASSUME TransferInv, NEW c \in Item, NEW q \in Actor, NEW kind \in T!Kind, NEW to \in Recipient,
         T!Begin(c, q, kind, to)
  PROVE  TransferInv'
<1> DEFINE p == T!Contents(q, kind)
           o == [kind |-> kind, package |-> p, to |-> to, nft |-> q, begun |-> blocks[q],
                 step |-> "upload"]
<1>1. blocks[q] \in 0 .. MaxBlocks
  BY DEF TransferInv, T!TypeOK
<1>2. p \in T!Package /\ p.blocks = blocks[q]
  BY <1>1 DEF T!Contents, T!Package
<1> HIDE DEF p
<1>3. /\ o \in T!Command /\ o.package = p /\ o.begun = blocks[q] /\ o.step = "upload"
  BY <1>1, <1>2 DEF T!Command, T!Step
<1>4. /\ command[c] = NoCall /\ command' = [command EXCEPT ![c] = o]
      /\ UNCHANGED <<blocks, local, holder, record, copy, writer, deleter>>
  BY DEF T!Begin, p
<1> HIDE DEF o
<1>5. command' \in [Item -> T!Command \cup {NoCall}] /\ command'[c] = o
  BY <1>3, <1>4 DEF TransferInv, T!TypeOK
<1>6. \A d \in Item : d # c => command'[d] = command[d]
  BY <1>4 DEF TransferInv, T!TypeOK
<1>7. T!TypeOK'
  BY <1>4, <1>5 DEF TransferInv, T!TypeOK
<1>8. CommandInv' /\ StepInv'
  BY <1>2, <1>3, <1>4, <1>5, <1>6 DEF TransferInv, CommandInv, StepInv
<1>9. WriterInv'
  BY <1>4, <1>6 DEF TransferInv, WriterInv, T!TypeOK
<1>10. DeleterInv'
  BY <1>4, <1>6 DEF TransferInv, DeleterInv, T!TypeOK
<1> QED BY <1>7, <1>8, <1>9, <1>10 DEF TransferInv

LEMMA TransferImport == ASSUME TransferInv, NEW r \in Recipient, T!Import(r) PROVE TransferInv'
<1>1. record.package \in T!Package /\ record.package.qube \in Actor
  BY DEF TransferInv, T!TypeOK, T!Import, T!Record, T!Package
<1>2. copy' \in [Actor -> T!Package \cup {NoCopy}]
  BY <1>1 DEF TransferInv, T!TypeOK, T!Import
<1> QED BY <1>2 DEF T!Import, TransferInv, T!TypeOK, CommandInv, WriterInv, DeleterInv, StepInv

\* Sending an NFT leaves the others where they are.
LEMMA SendMoves ==
  ASSUME T!TypeOK, NEW n \in Actor, NEW to \in Recipient, T!Send(n, to)
  PROVE  /\ holder' \in [Actor -> Recipient \cup {Owner}] /\ holder'[n] = to
         /\ \A m \in Actor : holder[m] # Owner => holder'[m] = holder[m]
BY DEF T!TypeOK, T!Send, T!Owned

LEMMA TransferOthers ==
  ASSUME TransferInv, NEW c \in Item,
         T!Fail(c) \/ T!Synced(c) \/ T!NotSent(c) \/ T!Sealed(c) \/ T!Sign(c) \/ T!Finalize(c)
  PROVE  TransferInv'
<1> USE DEF TransferInv
<1>1. command[c] # NoCall /\ command[c].step # "over"
  BY DEF T!Fail, T!Synced, T!NotSent, T!Sealed, T!Sign, T!Finalize, T!At
<1>2. /\ command[c] \in T!Command /\ command[c].nft \in Actor
      /\ command[c].to \in Recipient
  BY <1>1 DEF T!TypeOK, T!Command
<1>3. ASSUME UNCHANGED holder
      PROVE  /\ holder' \in [Actor -> Recipient \cup {Owner}]
             /\ \A n \in Actor : holder[n] # Owner => holder'[n] = holder[n]
  BY <1>3 DEF T!TypeOK
<1>4. \A st \in T!Step : T!Moves(c, st) => Moved(c, st, command[c].nft)
  BY <1>1, MovesTo
<1>5. {"build", "built", "signed", "over"} \subseteq T!Step
  BY DEF T!Step
<1>6. CASE T!Fail(c)
  BY <1>1, <1>2, <1>3, <1>4, <1>5, <1>6, CommandMoves DEF T!Fail
<1>7. CASE T!Synced(c) \/ T!NotSent(c) \/ T!Sealed(c)
  <2>1. UNCHANGED <<blocks, local, holder, copy, deleter>>
    BY <1>7 DEF T!Synced, T!NotSent, T!Sealed
  <2>2. \E step \in {"build", "over"}, reader \in Recipient \cup {Owner} :
          /\ T!Moves(c, step) /\ T!Write(c, reader)
          /\ step = "build" => command[c].kind = "prepare"
          /\ reader = IF command[c].kind \in {"sync", "auto"} THEN Owner ELSE command[c].to
    BY <1>2, <1>7 DEF T!Synced, T!NotSent, T!Sealed
  <2>3. PICK step \in {"build", "over"}, reader \in Recipient \cup {Owner} :
          /\ T!Moves(c, step) /\ T!Write(c, reader)
          /\ step = "build" => command[c].kind = "prepare"
          /\ reader = IF command[c].kind \in {"sync", "auto"} THEN Owner ELSE command[c].to
    BY <2>2
  <2>4. Moved(c, step, command[c].nft)
    BY <1>4, <1>5, <2>3
  <2>5. DeleterInv' /\ local' \subseteq Actor /\ deleter' \in [Actor -> Item \cup {NoCall}]
    BY <1>1, <1>3, <2>1, <2>4, DeleterStays DEF T!TypeOK
  <2> QED BY <1>1, <1>2, <1>3, <2>1, <2>3, <2>4, <2>5, CommandWrites
<1>8. CASE T!Sign(c)
  <2>1. /\ holder' \in [Actor -> Recipient \cup {Owner}]
        /\ holder'[command[c].nft] = command[c].to
        /\ \A m \in Actor : holder[m] # Owner => holder'[m] = holder[m]
    BY <1>2, <1>8, SendMoves DEF T!Sign
  <2>2. command[c].kind = "prepare" /\ Moved(c, "signed", command[c].nft)
    BY <1>4, <1>5, <1>8 DEF T!Sign, T!At, StepInv
  <2> QED BY <1>1, <1>2, <1>5, <1>8, <2>1, <2>2, CommandMoves DEF T!Sign
<1>9. CASE T!Finalize(c)
  <2>1. /\ command[c].kind = "prepare" /\ Moved(c, "over", command[c].nft)
        /\ UNCHANGED <<blocks, holder, record, copy, writer>> /\ T!Delete(c)
    BY <1>4, <1>5, <1>9 DEF T!Finalize, T!At, StepInv
  <2>2. holder'[command[c].nft] = command[c].to
    BY <1>9, <2>1 DEF T!Finalize, T!At, CommandInv
  <2>3. DeleterInv' /\ local' \subseteq Actor /\ deleter' \in [Actor -> Item \cup {NoCall}]
    BY <1>1, <1>2, <1>3, <2>1, <2>2, DeleterDeletes
  <2>4. T!TypeOK'
    BY <2>1, <2>3 DEF T!TypeOK, Moved
  <2>5. WriterInv' /\ StepInv'
    BY <2>1, WriterStays DEF StepInv, Moved
  <2>6. CommandInv'
    BY <1>1, <2>1 DEF CommandInv, Moved
  <2> QED BY <2>3, <2>4, <2>5, <2>6
<1> QED BY <1>6, <1>7, <1>8, <1>9

LEMMA TransferBuilt == ASSUME TransferInv, NEW c \in Item, NEW n \in Actor, T!Built(c, n) PROVE TransferInv'
<1>1. command[c] # NoCall /\ command[c].step = "build" /\ command[c].kind = "prepare"
  BY DEF T!Built, T!At, TransferInv, StepInv
<1>2. Moved(c, "built", n)
  BY <1>1, MovesWithNFT DEF MovesWith, T!Built, T!Step, TransferInv
<1> QED BY <1>1, <1>2, CommandMoves DEF T!Built, TransferInv, T!TypeOK, T!Step

LEMMA TransferTransferred ==
  ASSUME TransferInv, NEW c \in Item, NEW n \in Actor, NEW deleted \in BOOLEAN,
         T!Transferred(c, n, deleted)
  PROVE  TransferInv'
<1>1. /\ command[c] # NoCall /\ command[c].step = "upload" /\ command[c].kind = "transfer"
      /\ T!Write(c, command[c].to) /\ T!Send(n, command[c].to) /\ UNCHANGED <<blocks, copy>>
      /\ T!Delete(c) \/ UNCHANGED <<local, deleter>>
  BY DEF T!Transferred, T!At
<1>2. command[c].to \in Recipient
  BY <1>1 DEF TransferInv, T!TypeOK, T!Command
<1>3. Moved(c, "over", n)
  BY <1>1, MovesWithNFT DEF MovesWith, T!Transferred, T!Step, TransferInv
<1>4. /\ holder' \in [Actor -> Recipient \cup {Owner}] /\ holder'[n] = command[c].to
      /\ \A m \in Actor : holder[m] # Owner => holder'[m] = holder[m]
  BY <1>1, <1>2, SendMoves DEF TransferInv
<1>5. DeleterInv' /\ local' \subseteq Actor /\ deleter' \in [Actor -> Item \cup {NoCall}]
  <2>1. CASE T!Delete(c)
    BY <1>1, <1>3, <1>4, <2>1, DeleterDeletes DEF TransferInv
  <2>2. CASE UNCHANGED <<local, deleter>>
    BY <1>1, <1>3, <1>4, <2>2, DeleterStays DEF TransferInv, T!TypeOK
  <2> QED BY <1>1, <2>1, <2>2
<1> QED BY <1>1, <1>2, <1>3, <1>4, <1>5, CommandWrites

LEMMA TransferNext == TransferInv /\ T!Next => TransferInv'
<1> SUFFICES ASSUME TransferInv, T!Next PROVE TransferInv'
  OBVIOUS
<1> QED BY TransferAnchor, TransferBegin, TransferImport, TransferOthers, TransferBuilt,
           TransferTransferred DEF T!Next

\* What the invariant says of a Qube whose directory is deleted.
LEMMA TransferHandsOver == TransferInv => T!HandedOver
<1> SUFFICES ASSUME TransferInv, NEW q \in Actor \ local,
                    writer = deleter[q], command[deleter[q]].nft = q
             PROVE  /\ record.package.qube = q
                    /\ record.package.blocks >= command[deleter[q]].begun
                    /\ holder[q] = record.sealed /\ holder[q] # Owner
  BY DEF T!HandedOver
<1> DEFINE k == command[deleter[q]]
<1>1. deleter[q] \in Item /\ k # NoCall /\ k \in T!Command
  BY DEF TransferInv, DeleterInv, T!TypeOK
<1>2. k.to \in Recipient /\ k.package.blocks = k.begun /\ k.begun \in Nat
  BY <1>1, ExchangesAssumption DEF TransferInv, CommandInv, T!Command, T!TransferAssumption
<1>3. k.package.qube = q /\ k.kind \notin {"sync", "auto"} /\ holder[q] = k.to
  BY <1>1 DEF TransferInv, DeleterInv
<1>4. record = [package |-> k.package, sealed |-> k.to]
  <2>1. writer # NoCall
    BY <1>1, ExchangesAssumption DEF T!TransferAssumption
  <2> QED BY <1>3, <2>1 DEF TransferInv, WriterInv
<1> QED BY <1>2, <1>3, <1>4, ExchangesAssumption DEF T!TransferAssumption

-----------------------------------------------------------------------------
(* Sliding windows, of handshakes and of messages *)

LEMMA LeastExists ==
  ASSUME NEW U \in SUBSET Nat, U # {}
  PROVE  \E m \in U : \A k \in U : m <= k
<1>1. IsWellFoundedOn(OpToRel(<, Nat), Nat)
  BY NatLessThanWellFounded
<1>2. \E x \in U : \A y \in U : ~(<<y, x>> \in OpToRel(<, Nat))
  BY <1>1, WFMin
<1>3. PICK x \in U : \A y \in U : ~(<<y, x>> \in OpToRel(<, Nat))
  BY <1>2
<1>4. ASSUME NEW y \in U PROVE x <= y
  <2>1. ~(y < x)
    BY <1>3 DEF OpToRel
  <2> QED BY <2>1
<1> QED BY <1>4

\* The first place that the loop keeps.
Least(S) == CHOOSE x \in S : \A y \in S : x <= y

LEMMA FirstPlace ==
  ASSUME NEW n \in Nat, NEW U \in SUBSET (1 .. n)
  PROVE  LET m == Least(U \cup {n + 1}) IN
         m \in 1 .. n + 1 /\ (m \in U \/ m = n + 1) /\ \A j \in U : m <= j
<1> DEFINE S == U \cup {n + 1}
<1>1. S \in SUBSET Nat /\ S # {}
  OBVIOUS
<1>2. Least(S) \in S /\ \A y \in S : Least(S) <= y
  <2> HIDE DEF S
  <2>1. \E x \in S : \A y \in S : x <= y
    BY <1>1, LeastExists
  <2> QED BY <2>1 DEF Least
<1> DEFINE m == Least(S)
<1>3. m \in S /\ m <= n + 1 /\ \A j \in U : m <= j
  BY <1>2
<1> HIDE DEF m
<1>4. m \in 1 .. n + 1 /\ (m \in U \/ m = n + 1)
  BY <1>3
<1> QED BY <1>3, <1>4 DEF m

\* The times a that were let through, the times h of them that are kept at time t, when the
\* window begins at t - w: only times before the window are not kept.
Suffix(h, a, k) == h = SubSeq(a, k, Len(a))
Gone(a, k, c) == \A j \in 1 .. Len(a) : j < k => a[j] < c
Kept(h, a, c) == \E k \in 1 .. Len(a) + 1 : Suffix(h, a, k) /\ Gone(a, k, c)
Rising(a) == \A i, j \in 1 .. Len(a) : i <= j => a[i] <= a[j]
Within(a, i, w) == {j \in i .. Len(a) : a[j] <= a[i] + w}
Limited(a, w, max) == \A i \in 1 .. Len(a) : Cardinality(Within(a, i, w)) <= max

Windowed(h, a, t, w, max) ==
  /\ Rising(a) /\ \A i \in 1 .. Len(a) : a[i] <= t
  /\ Kept(h, a, t - w) /\ Limited(a, w, max)

LEMMA SameElements ==
  ASSUME NEW s \in Seq(Nat), NEW u \in Seq(Nat), Len(s) = Len(u), \A i \in 1 .. Len(s) : s[i] = u[i]
  PROVE  s = u
OBVIOUS

LEMMA WindowAges ==
  ASSUME NEW a \in Seq(Nat), NEW h, NEW t \in Nat, NEW w \in Nat, NEW max,
         Windowed(h, a, t, w, max)
  PROVE  Windowed(h, a, t + 1, w, max)
<1>1. PICK k \in 1 .. Len(a) + 1 : Suffix(h, a, k) /\ Gone(a, k, t - w)
  BY DEF Windowed, Kept
<1>2. Gone(a, k, t + 1 - w)
  BY <1>1 DEF Gone
<1>3. \A i \in 1 .. Len(a) : a[i] <= t + 1
  BY DEF Windowed
<1> QED BY <1>1, <1>2, <1>3 DEF Windowed, Kept

LEMMA WindowSlides ==
  ASSUME NEW a \in Seq(Nat), NEW h, NEW t \in Nat, NEW w \in Nat, NEW max,
         Windowed(h, a, t, w, max), h \in Seq(Nat),
         NEW m \in 1 .. Len(h) + 1, \A j \in 1 .. Len(h) : j < m => h[j] < t - w
  PROVE  /\ SubSeq(h, m, Len(h)) \in Seq(Nat)
         /\ Windowed(SubSeq(h, m, Len(h)), a, t, w, max)
<1> DEFINE r == SubSeq(h, m, Len(h))
<1>1. r \in Seq(Nat) /\ Len(r) = Len(h) + 1 - m /\ \A i \in 1 .. Len(r) : r[i] = h[i + m - 1]
  OBVIOUS
<1> HIDE DEF r
<1>2. PICK k \in 1 .. Len(a) + 1 : Suffix(h, a, k) /\ Gone(a, k, t - w)
  BY DEF Windowed, Kept
<1>3. Len(h) = Len(a) + 1 - k /\ \A i \in 1 .. Len(h) : h[i] = a[i + k - 1]
  BY <1>2 DEF Suffix
<1> DEFINE n == k + m - 1
<1>4. n \in 1 .. Len(a) + 1
  BY <1>1, <1>3
<1>5. Suffix(r, a, n)
  <2> DEFINE s == SubSeq(a, n, Len(a))
  <2>1. s \in Seq(Nat) /\ Len(s) = Len(a) + 1 - n /\ \A i \in 1 .. Len(s) : s[i] = a[i + n - 1]
    BY <1>4
  <2> HIDE DEF s
  <2>2. Len(s) = Len(r)
    BY <1>1, <1>3, <2>1
  <2>3. \A i \in 1 .. Len(r) : r[i] = s[i]
    BY <1>1, <1>3, <2>1, <2>2
  <2>4. r \in Seq(Nat) /\ s \in Seq(Nat) /\ Len(r) = Len(s)
    BY <1>1, <2>1, <2>2
  <2>5. r = s
    BY <2>3, <2>4, SameElements
  <2> QED BY <2>5 DEF Suffix, s
<1>6. Gone(a, n, t - w)
  <2> SUFFICES ASSUME NEW j \in 1 .. Len(a), j < n PROVE a[j] < t - w
    BY DEF Gone
  <2>1. CASE j < k
    BY <1>2, <2>1 DEF Gone
  <2>2. CASE j >= k
    <3>1. j - k + 1 \in 1 .. Len(h) /\ j - k + 1 < m
      BY <1>3, <2>2
    <3>2. a[j] = h[j - k + 1]
      BY <1>3, <3>1
    <3> QED BY <3>1, <3>2
  <2> QED BY <2>1, <2>2
<1> QED BY <1>1, <1>4, <1>5, <1>6 DEF Windowed, Kept, r

\* A time is added when fewer than the limit are kept.
LEMMA WindowAdmits ==
  ASSUME NEW a \in Seq(Nat), NEW h \in Seq(Nat), NEW t \in Nat, NEW w \in Nat, NEW max \in Nat,
         Windowed(h, a, t, w, max), Len(h) < max
  PROVE  Windowed(Append(h, t), Append(a, t), t, w, max)
<1> DEFINE b == Append(a, t)
           g == Append(h, t)
<1>1. PICK k \in 1 .. Len(a) + 1 : Suffix(h, a, k) /\ Gone(a, k, t - w)
  BY DEF Windowed, Kept
<1>2. Len(h) = Len(a) + 1 - k /\ \A i \in 1 .. Len(h) : h[i] = a[i + k - 1]
  BY <1>1 DEF Suffix
<1>3. b \in Seq(Nat) /\ Len(b) = Len(a) + 1 /\ b[Len(b)] = t /\ \A i \in 1 .. Len(a) : b[i] = a[i]
  OBVIOUS
<1>4. Suffix(g, b, k)
  <2>1. /\ g \in Seq(Nat) /\ Len(g) = Len(h) + 1 /\ g[Len(g)] = t
        /\ \A i \in 1 .. Len(h) : g[i] = h[i]
    OBVIOUS
  <2> DEFINE s == SubSeq(b, k, Len(b))
  <2>2. s \in Seq(Nat) /\ Len(s) = Len(b) + 1 - k /\ \A i \in 1 .. Len(s) : s[i] = b[i + k - 1]
    BY <1>3
  <2>6. k \in Nat /\ Len(h) \in Nat /\ Len(a) \in Nat
    OBVIOUS
  <2> HIDE DEF b, g, s
  <2>3. ASSUME NEW i \in 1 .. Len(g) PROVE g[i] = s[i]
    <3>1. CASE i = Len(g)
      <4>1. i \in 1 .. Len(s) /\ i + k - 1 = Len(b)
        BY <1>2, <1>3, <2>1, <2>2, <2>6, <3>1
      <4> QED BY <1>3, <2>1, <2>2, <3>1, <4>1
    <3>2. CASE i \in 1 .. Len(h)
      <4>1. i + k - 1 \in 1 .. Len(a) /\ i \in 1 .. Len(s)
        BY <1>2, <1>3, <2>1, <2>2, <2>6, <3>2
      <4> QED BY <1>2, <1>3, <2>1, <2>2, <3>2, <4>1
    <3> QED BY <2>1, <3>1, <3>2
  <2>4. Len(g) = Len(s)
    BY <1>2, <1>3, <2>1, <2>2
  <2>5. g = s
    BY <2>1, <2>2, <2>3, <2>4
  <2> QED BY <2>5 DEF Suffix, s
<1>5. Gone(b, k, t - w)
  BY <1>1, <1>3 DEF Gone
<1>6. Rising(b) /\ \A i \in 1 .. Len(b) : b[i] <= t
  <2>1. Rising(a) /\ \A i \in 1 .. Len(a) : a[i] <= t
    BY DEF Windowed
  <2>2. \A i \in 1 .. Len(b) : i \in 1 .. Len(a) \/ i = Len(b)
    BY <1>3
  <2>3. \A i \in 1 .. Len(b) : b[i] <= t /\ b[i] \in Nat
    BY <1>3, <2>1, <2>2
  <2> HIDE DEF b
  <2>4. ASSUME NEW i \in 1 .. Len(b), NEW j \in 1 .. Len(b), i <= j PROVE b[i] <= b[j]
    <3>1. CASE j = Len(b)
      BY <1>3, <2>3, <3>1
    <3>2. CASE j \in 1 .. Len(a)
      <4>1. i \in 1 .. Len(a)
        BY <2>4, <3>2
      <4> QED BY <1>3, <2>1, <2>4, <3>2, <4>1 DEF Rising
    <3> QED BY <2>2, <3>1, <3>2
  <2> QED BY <2>3, <2>4 DEF Rising
<1> HIDE DEF b, g
<1>7. Limited(b, w, max)
  <2> SUFFICES ASSUME NEW i \in 1 .. Len(b) PROVE Cardinality(Within(b, i, w)) <= max
    BY DEF Limited
  <2>1. CASE i < k
    <3>1. i \in 1 .. Len(a) /\ a[i] + w < t
      BY <1>1, <1>3, <2>1 DEF Gone
    <3>2. \A j \in i .. Len(b) : b[j] <= b[i] + w => j \in 1 .. Len(a)
      <4>3. Len(a) \in Nat /\ i \in Nat /\ i >= 1
        BY <3>1
      <4>1. \A j \in i .. Len(b) : j \in 1 .. Len(a) \/ j = Len(b)
        BY <1>3, <4>3
      <4>2. ~(b[Len(b)] <= b[i] + w)
        BY <1>3, <3>1
      <4> QED BY <4>1, <4>2
    <3>3. Within(b, i, w) = Within(a, i, w)
      <4>1. b[i] = a[i] /\ Len(a) \in Nat
        BY <1>3, <3>1
      <4>2. ASSUME NEW j, j \in Within(b, i, w) PROVE j \in Within(a, i, w)
        <5>1. j \in i .. Len(b) /\ b[j] <= b[i] + w
          BY <4>2 DEF Within
        <5>2. j \in 1 .. Len(a) /\ b[j] = a[j]
          BY <1>3, <3>2, <5>1
        <5>3. j \in i .. Len(a)
          BY <4>1, <5>1, <5>2
        <5> QED BY <4>1, <5>1, <5>2, <5>3 DEF Within
      <4>3. ASSUME NEW j, j \in Within(a, i, w) PROVE j \in Within(b, i, w)
        <5>1. j \in i .. Len(a) /\ a[j] <= a[i] + w
          BY <4>3 DEF Within
        <5>2. j \in 1 .. Len(a) /\ j \in i .. Len(b)
          BY <1>3, <4>1, <5>1
        <5> QED BY <1>3, <4>1, <5>1, <5>2 DEF Within
      <4> QED BY <4>2, <4>3
    <3> QED BY <3>1, <3>3 DEF Windowed, Limited
  <2>2. CASE i >= k
    <3>1. Within(b, i, w) \subseteq k .. Len(b)
      BY <2>2 DEF Within
    <3>2. IsFiniteSet(k .. Len(b)) /\ Cardinality(k .. Len(b)) = Len(b) + 1 - k
      BY <1>3, FS_Interval
    <3>3. Cardinality(Within(b, i, w)) <= Len(b) + 1 - k
      BY <3>1, <3>2, FS_Subset
    <3>4. Cardinality(Within(b, i, w)) \in Nat
      BY <3>1, <3>2, FS_Subset, FS_CardinalityType
    <3> QED BY <1>2, <1>3, <3>3, <3>4
  <2> QED BY <2>1, <2>2
<1>8. k \in 1 .. Len(b) + 1
  BY <1>3
<1> QED BY <1>4, <1>5, <1>6, <1>7, <1>8 DEF Windowed, Kept, b, g

\* Nothing is kept when all is before the window, and at the beginning.
LEMMA WindowEmpties ==
  ASSUME NEW a \in Seq(Nat), NEW h \in Seq(Nat), NEW t \in Nat, NEW w \in Nat, NEW max,
         Windowed(h, a, t, w, max),
         \A i \in 1 .. Len(h) : h[i] < t - w
  PROVE  Windowed(<<>>, a, t, w, max)
<1>1. PICK k \in 1 .. Len(a) + 1 : Suffix(h, a, k) /\ Gone(a, k, t - w)
  BY DEF Windowed, Kept
<1>2. Len(h) = Len(a) + 1 - k /\ \A i \in 1 .. Len(h) : h[i] = a[i + k - 1]
  BY <1>1 DEF Suffix
<1>3. Gone(a, Len(a) + 1, t - w)
  <2> SUFFICES ASSUME NEW j \in 1 .. Len(a) PROVE a[j] < t - w
    BY DEF Gone
  <2>1. CASE j < k
    BY <1>1, <2>1 DEF Gone
  <2>2. CASE j >= k
    <3>1. j - k + 1 \in 1 .. Len(h) /\ a[j] = h[j - k + 1]
      BY <1>2, <2>2
    <3> QED BY <3>1
  <2> QED BY <2>1, <2>2
<1>4. Suffix(<<>>, a, Len(a) + 1)
  BY DEF Suffix
<1> QED BY <1>3, <1>4 DEF Windowed, Kept

LEMMA WindowBegins ==
  ASSUME NEW t \in Nat, NEW w \in Nat, NEW max PROVE Windowed(<<>>, <<>>, t, w, max)
<1>1. Suffix(<<>>, <<>>, 1) /\ Gone(<<>>, 1, t - w)
  BY DEF Suffix, Gone
<1> QED BY <1>1 DEF Windowed, Kept, Rising, Limited

-----------------------------------------------------------------------------
(* Handshake: the inductive invariant *)

\* A request makes one session at most, and then its nonce is remembered or so old that
\* the request is too old as well.
NonceInv ==
  \A r \in Request : accepted[r] # 0 =>
    /\ accepted[r] = 1 /\ r \in sentRequests
    /\ nonces[r] <= now /\ stamp[r] <= nonces[r] + ClockSkew
    /\ r \in nonceTable \/ now - nonces[r] > NonceAge

\* The queue has nonces of requests that were accepted, with the time of that.
QueueInv ==
  \A i \in 1 .. Len(queue) :
    accepted[queue[i].nonce] # 0 /\ queue[i].time = nonces[queue[i].nonce]

QuotaInv ==
  \A s \in Sender : Windowed(history[s], admitted[s], now, HandshakeWindow, MaxHandshakes)

HandshakeInv == H!TypeOK /\ NonceInv /\ QueueInv /\ QuotaInv

LEMMA Parameters ==
  /\ MaxMessageAge \in Nat /\ ClockSkew \in Nat /\ NonceAge \in Nat /\ MaxNonces \in Nat
  /\ MaxHandshakes \in Nat /\ HandshakeWindow \in Nat /\ HandshakeTime \in Nat
  /\ NonceAge > MaxMessageAge + ClockSkew /\ From \in [Request -> Sender]
BY ExchangesAssumption DEF H!HandshakeAssumption

LEMMA HandshakeInit == H!Init => HandshakeInv
<1> SUFFICES ASSUME H!Init PROVE HandshakeInv
  OBVIOUS
<1> USE Parameters DEF H!Init
<1>1. H!TypeOK
  BY DEF H!TypeOK, H!Time, H!Stamp
<1>2. QuotaInv
  BY WindowBegins DEF QuotaInv
<1>3. NonceInv /\ QueueInv
  BY DEF NonceInv, QueueInv
<1> QED BY <1>1, <1>2, <1>3 DEF HandshakeInv

LEMMA TimesAreNumbers ==
  ASSUME NEW max \in Nat, NEW s \in Seq(0 .. max)
  PROVE  s \in Seq(Nat) /\ \A i \in 1 .. Len(s) : s[i] \in 0 .. max
OBVIOUS

\* The loop of a window drops from the front.
LEMMA RecentHandshakes ==
  ASSUME NEW s \in Seq(Nat), NEW c \in Int
  PROVE  \E m \in 1 .. Len(s) + 1 : /\ H!Recent(s, c) = SubSeq(s, m, Len(s))
                                    /\ \A j \in 1 .. Len(s) : j < m => s[j] < c
<1> DEFINE U == {i \in 1 .. Len(s) : s[i] >= c}
           m == Least(U \cup {Len(s) + 1})
<1>1. U \in SUBSET (1 .. Len(s)) /\ Len(s) \in Nat
  OBVIOUS
<1>2. m \in 1 .. Len(s) + 1 /\ \A j \in U : m <= j
  <2> HIDE DEF U
  <2> QED BY <1>1, FirstPlace
<1>3. H!Recent(s, c) = SubSeq(s, m, Len(s))
  BY DEF H!Recent, H!Min, Least
<1> HIDE DEF m
<1>4. ASSUME NEW j \in 1 .. Len(s), j < m PROVE s[j] < c
  <2>1. ~(m <= j)
    BY <1>2, <1>4
  <2>2. j \notin U
    BY <1>2, <2>1
  <2>3. ~(s[j] >= c)
    BY <2>2
  <2> QED BY <2>3
<1> QED BY <1>2, <1>3, <1>4

LEMMA QuotaSlides ==
  ASSUME HandshakeInv, NEW s \in Sender
  PROVE  LET h == H!Recent(history[s], now - HandshakeWindow) IN
         h \in Seq(H!Time) /\ Windowed(h, admitted[s], now, HandshakeWindow, MaxHandshakes)
<1>1. history[s] \in Seq(H!Time) /\ admitted[s] \in Seq(H!Time) /\ now \in Nat
  BY Parameters DEF HandshakeInv, H!TypeOK, H!Time
<1>2. history[s] \in Seq(Nat) /\ admitted[s] \in Seq(Nat)
  BY <1>1, TimesAreNumbers, Parameters DEF H!Time
<1>3. now - HandshakeWindow \in Int
  BY <1>1, Parameters
<1>4. PICK m \in 1 .. Len(history[s]) + 1 :
        /\ H!Recent(history[s], now - HandshakeWindow) = SubSeq(history[s], m, Len(history[s]))
        /\ \A j \in 1 .. Len(history[s]) : j < m => history[s][j] < now - HandshakeWindow
  BY <1>2, <1>3, RecentHandshakes
<1>5. Windowed(history[s], admitted[s], now, HandshakeWindow, MaxHandshakes)
  BY DEF HandshakeInv, QuotaInv
<1>6. SubSeq(history[s], m, Len(history[s])) \in Seq(H!Time)
  BY <1>1, <1>4
<1> QED BY <1>1, <1>2, <1>4, <1>5, <1>6, WindowSlides, Parameters

\* A request that the quota lets through.
LEMMA QuotaCounts ==
  ASSUME HandshakeInv, NEW s \in Sender, H!Quota(s), H!Counted(s), now' = now
  PROVE  /\ QuotaInv'
         /\ history' \in [Sender -> Seq(H!Time)] /\ admitted' \in [Sender -> Seq(H!Time)]
<1> DEFINE h == H!Recent(history[s], now - HandshakeWindow)
<1>1. h \in Seq(H!Time) /\ Windowed(h, admitted[s], now, HandshakeWindow, MaxHandshakes)
  BY QuotaSlides
<1>2. Len(h) < MaxHandshakes
  BY DEF H!Quota
<1>3. /\ history' = [history EXCEPT ![s] = Append(h, now)]
      /\ admitted' = [admitted EXCEPT ![s] = Append(@, now)]
  BY DEF H!Counted
<1> HIDE DEF h
<1>4. /\ now \in Nat /\ now \in H!Time /\ admitted[s] \in Seq(H!Time)
      /\ history \in [Sender -> Seq(H!Time)] /\ admitted \in [Sender -> Seq(H!Time)]
  BY Parameters DEF HandshakeInv, H!TypeOK, H!Time
<1>5. h \in Seq(Nat) /\ admitted[s] \in Seq(Nat)
  BY <1>1, <1>4, TimesAreNumbers, Parameters DEF H!Time
<1>6. Windowed(Append(h, now), Append(admitted[s], now), now, HandshakeWindow, MaxHandshakes)
  BY <1>1, <1>2, <1>4, <1>5, WindowAdmits, Parameters
<1>7. Append(h, now) \in Seq(H!Time) /\ Append(admitted[s], now) \in Seq(H!Time)
  BY <1>1, <1>4
<1>8. history' \in [Sender -> Seq(H!Time)] /\ admitted' \in [Sender -> Seq(H!Time)]
  BY <1>3, <1>4, <1>7
<1>9. ASSUME NEW t \in Sender
      PROVE  Windowed(history'[t], admitted'[t], now', HandshakeWindow, MaxHandshakes)
  <2>1. CASE t = s
    BY <1>3, <1>4, <1>6, <2>1
  <2>2. CASE t # s
    BY <1>3, <1>4, <2>2 DEF HandshakeInv, QuotaInv
  <2> QED BY <2>1, <2>2
<1> QED BY <1>8, <1>9 DEF QuotaInv

\* A step that changes the history of one sender only, to what is in the window.
LEMMA QuotaShrinks ==
  ASSUME HandshakeInv, NEW s \in Sender, NEW h \in Seq(H!Time),
         Windowed(h, admitted[s], now, HandshakeWindow, MaxHandshakes),
         history' = [history EXCEPT ![s] = h], UNCHANGED <<now, admitted>>
  PROVE  QuotaInv' /\ history' \in [Sender -> Seq(H!Time)]
<1>1. history \in [Sender -> Seq(H!Time)]
  BY DEF HandshakeInv, H!TypeOK
<1>2. history' \in [Sender -> Seq(H!Time)]
  BY <1>1
<1>3. \A t \in Sender : history'[t] = IF t = s THEN h ELSE history[t]
  BY <1>1
<1> QED BY <1>2, <1>3 DEF HandshakeInv, QuotaInv

-----------------------------------------------------------------------------
(* Handshake: the steps *)

Entry == [nonce : Request, time : H!Time]

\* What a cleanup drops is older than a nonce may be; what it keeps is in the queue.
LEMMA CleanedUpKeeps ==
  ASSUME NEW tab \in SUBSET Request, NEW q \in Seq(Entry), now \in Nat, NonceAge \in Nat,
         HandshakeTime \in Nat,
         tab \subseteq {q[i].nonce : i \in 1 .. Len(q)}
  PROVE  LET kept == H!CleanedUp(tab, q) IN
         /\ kept.table \subseteq tab /\ kept.queue \in Seq(Entry)
         /\ kept.table \subseteq {kept.queue[i].nonce : i \in 1 .. Len(kept.queue)}
         /\ \A i \in 1 .. Len(kept.queue) : \E j \in 1 .. Len(q) : kept.queue[i] = q[j]
         /\ \A k \in tab \ kept.table :
              \E i \in 1 .. Len(q) : q[i].nonce = k /\ q[i].time < now - NonceAge
<1> DEFINE U == {i \in 1 .. Len(q) : q[i].time >= now - NonceAge}
           n == Least(U \cup {Len(q) + 1})
           dropped == {q[i].nonce : i \in 1 .. n - 1}
           rest == SubSeq(q, n, Len(q))
<1>1. U \in SUBSET (1 .. Len(q)) /\ Len(q) \in Nat
  OBVIOUS
<1>2. n \in 1 .. Len(q) + 1 /\ \A j \in U : n <= j
  <2> HIDE DEF U
  <2> QED BY <1>1, FirstPlace
<1>3. H!CleanedUp(tab, q) = [table |-> tab \ dropped, queue |-> rest]
  BY DEF H!CleanedUp, H!Min, Least
<1> HIDE DEF n
<1>4. rest \in Seq(Entry) /\ Len(rest) = Len(q) + 1 - n /\ \A i \in 1 .. Len(rest) : rest[i] = q[i + n - 1]
  BY <1>2
<1> HIDE DEF rest
<1>5. \A i \in 1 .. Len(rest) : i + n - 1 \in 1 .. Len(q)
  BY <1>2, <1>4
<1>6. ASSUME NEW k \in tab \ dropped PROVE \E i \in 1 .. Len(rest) : rest[i].nonce = k
  <2>1. PICK i \in 1 .. Len(q) : q[i].nonce = k
    OBVIOUS
  <2>2. ~(i < n)
    BY <1>2, <1>6, <2>1
  <2>3. i - n + 1 \in 1 .. Len(rest) /\ rest[i - n + 1] = q[i]
    BY <1>2, <1>4, <2>2
  <2> QED BY <2>1, <2>3
<1>7. ASSUME NEW k \in dropped
      PROVE  \E i \in 1 .. Len(q) : q[i].nonce = k /\ q[i].time < now - NonceAge
  <2>1. PICK i \in 1 .. n - 1 : q[i].nonce = k
    OBVIOUS
  <2>2. i \in 1 .. Len(q) /\ ~(n <= i)
    BY <1>2
  <2>3. i \notin U
    BY <1>2, <2>2
  <2>4. q[i].time \in Nat
    <3>1. q[i] \in Entry
      BY <2>2
    <3>2. q[i].time \in H!Time
      BY <3>1 DEF Entry
    <3> QED BY <3>2 DEF H!Time
  <2>5. q[i].time < now - NonceAge
    BY <2>2, <2>3, <2>4
  <2> QED BY <2>1, <2>2, <2>5
<1> HIDE DEF dropped
<1>8. tab \ dropped \subseteq {rest[i].nonce : i \in 1 .. Len(rest)}
  BY <1>6
<1>9. \A i \in 1 .. Len(rest) : \E j \in 1 .. Len(q) : rest[i] = q[j]
  BY <1>4, <1>5
<1> QED BY <1>3, <1>4, <1>7, <1>8, <1>9

\* The nonce of an accepted request is entered.
LEMMA EnteredKeeps ==
  ASSUME HandshakeInv, NEW r \in Request, H!Entered(r)
  PROVE  /\ nonces' \in [Request -> H!Time] /\ nonces'[r] = now
         /\ \A k \in Request \ {r} : nonces'[k] = nonces[k]
         /\ nonceTable' \subseteq Request /\ queue' \in Seq(Entry)
         /\ nonceTable' \subseteq {queue'[i].nonce : i \in 1 .. Len(queue')}
         /\ \A i \in 1 .. Len(queue') : \/ queue'[i] = [nonce |-> r, time |-> now]
                                        \/ \E j \in 1 .. Len(queue) : queue'[i] = queue[j]
         /\ \A k \in (nonceTable \cup {r}) \ nonceTable' :
              \E i \in 1 .. Len(queue) : queue[i].nonce = k /\ queue[i].time < now - NonceAge
<1> DEFINE tab == nonceTable \cup {r}
           e == [nonce |-> r, time |-> now]
           q == Append(queue, e)
           kept == H!CleanedUp(tab, q)
<1>1. /\ now \in H!Time /\ now \in Nat /\ NonceAge \in Nat /\ HandshakeTime \in Nat
      /\ nonces \in [Request -> H!Time] /\ queue \in Seq(Entry) /\ nonceTable \subseteq Request
      /\ nonceTable \subseteq {queue[i].nonce : i \in 1 .. Len(queue)}
  <2>1. now \in Nat
    BY Parameters DEF HandshakeInv, H!TypeOK, H!Time
  <2> QED BY <2>1, Parameters DEF HandshakeInv, H!TypeOK, Entry
<1>2. /\ nonces' = [nonces EXCEPT ![r] = now]
      /\ \/ nonceTable' = kept.table /\ queue' = kept.queue
         \/ nonceTable' = tab /\ queue' = q
  BY DEF H!Entered
<1>3. e \in Entry /\ e.nonce = r /\ e.time = now
  BY <1>1 DEF Entry
<1> HIDE DEF e
<1>4. /\ q \in Seq(Entry) /\ Len(q) = Len(queue) + 1 /\ q[Len(q)] = e
      /\ \A i \in 1 .. Len(queue) : q[i] = queue[i]
  BY <1>1, <1>3
<1> HIDE DEF q
<1>5. \A i \in 1 .. Len(q) : q[i] = e \/ \E j \in 1 .. Len(queue) : q[i] = queue[j]
  <2>1. Len(queue) \in Nat
    BY <1>1
  <2>2. \A i \in 1 .. Len(q) : i = Len(q) \/ i \in 1 .. Len(queue)
    BY <1>4, <2>1
  <2> QED BY <1>4, <2>2
<1>6. tab \subseteq {q[i].nonce : i \in 1 .. Len(q)}
  <2>1. Len(queue) \in Nat
    BY <1>1
  <2>2. Len(q) \in 1 .. Len(q) /\ \A i \in 1 .. Len(queue) : i \in 1 .. Len(q)
    BY <1>4, <2>1
  <2>3. ASSUME NEW k \in nonceTable PROVE \E i \in 1 .. Len(q) : q[i].nonce = k
    <3>1. PICK i \in 1 .. Len(queue) : queue[i].nonce = k
      BY <1>1
    <3> QED BY <1>4, <2>2, <3>1
  <2> QED BY <1>3, <1>4, <2>2, <2>3
<1>7. tab \in SUBSET Request
  BY <1>1
<1>8. nonces' \in [Request -> H!Time] /\ nonces'[r] = now /\ \A k \in Request \ {r} : nonces'[k] = nonces[k]
  BY <1>1, <1>2
<1>9. CASE nonceTable' = tab /\ queue' = q
  BY <1>4, <1>5, <1>6, <1>7, <1>8, <1>9 DEF e
<1>10. CASE nonceTable' = kept.table /\ queue' = kept.queue
  <2>1. /\ kept.table \subseteq tab /\ kept.queue \in Seq(Entry)
        /\ kept.table \subseteq {kept.queue[i].nonce : i \in 1 .. Len(kept.queue)}
        /\ \A i \in 1 .. Len(kept.queue) : \E j \in 1 .. Len(q) : kept.queue[i] = q[j]
        /\ \A k \in tab \ kept.table :
             \E i \in 1 .. Len(q) : q[i].nonce = k /\ q[i].time < now - NonceAge
    <3> HIDE DEF tab
    <3> QED BY <1>1, <1>4, <1>6, <1>7, CleanedUpKeeps
  <2> HIDE DEF kept, tab
  <2>2. ASSUME NEW i \in 1 .. Len(queue')
        PROVE  queue'[i] = e \/ \E j \in 1 .. Len(queue) : queue'[i] = queue[j]
    BY <1>5, <1>10, <2>1
  <2>3. ASSUME NEW k \in tab \ nonceTable'
        PROVE  \E i \in 1 .. Len(queue) : queue[i].nonce = k /\ queue[i].time < now - NonceAge
    <3>1. PICK i \in 1 .. Len(q) : q[i].nonce = k /\ q[i].time < now - NonceAge
      BY <1>10, <2>1, <2>3
    <3>2. q[i] # e
      BY <1>1, <1>3, <3>1
    <3> QED BY <1>5, <3>1, <3>2
  <2>4. nonceTable' \subseteq Request /\ queue' \in Seq(Entry)
    BY <1>7, <1>10, <2>1
  <2>5. nonceTable' \subseteq {queue'[i].nonce : i \in 1 .. Len(queue')}
    BY <1>10, <2>1
  <2> QED BY <1>8, <2>2, <2>3, <2>4, <2>5 DEF tab, e
<1> QED BY <1>2, <1>9, <1>10

\* A request that was accepted is not accepted again.
LEMMA AcceptedBefore ==
  ASSUME HandshakeInv, NEW r \in Request, H!InTime(r), ~H!Used(r)
  PROVE  accepted[r] = 0
<1> SUFFICES ASSUME accepted[r] # 0 PROVE FALSE
  OBVIOUS
<1>1. /\ now \in Nat /\ nonces[r] \in Nat /\ stamp[r] \in Int
  BY Parameters DEF HandshakeInv, H!TypeOK, H!Time, H!Stamp
<1>2. /\ stamp[r] <= nonces[r] + ClockSkew
      /\ r \in nonceTable \/ now - nonces[r] > NonceAge
  BY DEF HandshakeInv, NonceInv
<1>3. now - nonces[r] >= NonceAge
  BY <1>1, <1>2, Parameters DEF H!Used
<1> QED BY <1>1, <1>2, <1>3, Parameters DEF H!InTime

LEMMA HandshakeAccept == ASSUME HandshakeInv, NEW r \in Request, H!Accept(r) PROVE HandshakeInv'
<1> DEFINE s == From[r]
<1>1. /\ s \in Sender /\ H!Quota(s) /\ H!Counted(s) /\ UNCHANGED <<now, stamp, sentRequests>>
      /\ r \in sentRequests /\ H!InTime(r) /\ ~H!Used(r) /\ H!Entered(r)
      /\ accepted' = [accepted EXCEPT ![r] = @ + 1] /\ sessions' = sessions \cup {s}
  BY Parameters DEF H!Accept
<1>2. /\ QuotaInv'
      /\ history' \in [Sender -> Seq(H!Time)] /\ admitted' \in [Sender -> Seq(H!Time)]
  BY <1>1, QuotaCounts
<1>3. accepted[r] = 0
  BY <1>1, AcceptedBefore
<1>4. accepted' \in [Request -> Nat] /\ accepted'[r] = 1 /\ \A k \in Request \ {r} : accepted'[k] = accepted[k]
  BY <1>1, <1>3 DEF HandshakeInv, H!TypeOK
<1>5. /\ nonces' \in [Request -> H!Time] /\ nonces'[r] = now
      /\ \A k \in Request \ {r} : nonces'[k] = nonces[k]
      /\ nonceTable' \subseteq Request /\ queue' \in Seq(Entry)
      /\ nonceTable' \subseteq {queue'[i].nonce : i \in 1 .. Len(queue')}
      /\ \A i \in 1 .. Len(queue') : \/ queue'[i] = [nonce |-> r, time |-> now]
                                     \/ \E j \in 1 .. Len(queue) : queue'[i] = queue[j]
      /\ \A k \in (nonceTable \cup {r}) \ nonceTable' :
           \E i \in 1 .. Len(queue) : queue[i].nonce = k /\ queue[i].time < now - NonceAge
  BY <1>1, EnteredKeeps
<1>6. H!TypeOK'
  BY <1>1, <1>2, <1>4, <1>5 DEF HandshakeInv, H!TypeOK, Entry
<1>7. \A i \in 1 .. Len(queue) : queue[i].nonce \in Request \ {r}
  <2>1. queue \in Seq(Entry)
    BY DEF HandshakeInv, H!TypeOK, Entry
  <2>2. \A i \in 1 .. Len(queue) : queue[i] \in Entry
    BY <2>1
  <2>3. \A i \in 1 .. Len(queue) : queue[i].nonce \in Request
    BY <2>2 DEF Entry
  <2> QED BY <1>3, <2>3 DEF HandshakeInv, QueueInv
<1>8. QueueInv'
  <2> SUFFICES ASSUME NEW i \in 1 .. Len(queue')
               PROVE  /\ accepted'[queue'[i].nonce] # 0
                      /\ queue'[i].time = nonces'[queue'[i].nonce]
    BY DEF QueueInv
  <2>1. CASE queue'[i] = [nonce |-> r, time |-> now]
    BY <1>4, <1>5, <2>1
  <2>2. CASE \E j \in 1 .. Len(queue) : queue'[i] = queue[j]
    BY <1>4, <1>5, <1>7, <2>2 DEF HandshakeInv, QueueInv
  <2> QED BY <1>5, <2>1, <2>2
<1>9. now \in Nat /\ stamp[r] \in Int
  BY Parameters DEF HandshakeInv, H!TypeOK, H!Time, H!Stamp
<1>10. r \in nonceTable'
  BY <1>5, <1>7
<1>11. NonceInv'
  <2> SUFFICES ASSUME NEW k \in Request, accepted'[k] # 0
               PROVE  /\ accepted'[k] = 1 /\ k \in sentRequests
                      /\ nonces'[k] <= now /\ stamp[k] <= nonces'[k] + ClockSkew
                      /\ k \in nonceTable' \/ now - nonces'[k] > NonceAge
    BY <1>1 DEF NonceInv
  <2>1. CASE k = r
    BY <1>1, <1>4, <1>5, <1>9, <1>10, <2>1, Parameters DEF H!InTime
  <2>2. CASE k # r
    <3>1. accepted'[k] = accepted[k] /\ nonces'[k] = nonces[k] /\ nonces[k] \in Nat
      BY <1>4, <1>5, <2>2, Parameters DEF HandshakeInv, H!TypeOK, H!Time
    <3>2. /\ accepted[k] = 1 /\ k \in sentRequests
          /\ nonces[k] <= now /\ stamp[k] <= nonces[k] + ClockSkew
          /\ k \in nonceTable \/ now - nonces[k] > NonceAge
      BY <3>1 DEF HandshakeInv, NonceInv
    <3>3. ASSUME k \in nonceTable \ nonceTable' PROVE now - nonces[k] > NonceAge
      <4>1. PICK i \in 1 .. Len(queue) : queue[i].nonce = k /\ queue[i].time < now - NonceAge
        BY <1>5, <3>3
      <4>2. nonces[k] < now - NonceAge
        BY <4>1 DEF HandshakeInv, QueueInv
      <4> QED BY <1>9, <3>1, <4>2, Parameters
    <3> QED BY <3>1, <3>2, <3>3
  <2> QED BY <2>1, <2>2
<1> QED BY <1>2, <1>6, <1>8, <1>11 DEF HandshakeInv

\* A step that leaves the nonces alone.
LEMMA NoncesStay ==
  ASSUME HandshakeInv, UNCHANGED <<now, stamp, nonces, nonceTable, queue, accepted>>,
         sentRequests' = sentRequests
  PROVE  NonceInv' /\ QueueInv'
BY DEF HandshakeInv, NonceInv, QueueInv

LEMMA HandshakeOthers ==
  ASSUME HandshakeInv, NEW r \in Request, H!Refuse(r) \/ H!RefuseOld(r) \/ H!RefuseAgain(r)
  PROVE  HandshakeInv'
<1> DEFINE s == From[r]
<1>1. s \in Sender
  BY Parameters
<1>2. UNCHANGED <<now, stamp, sentRequests, nonces, nonceTable, queue, sessions, accepted>>
  BY DEF H!Refuse, H!RefuseOld, H!RefuseAgain
<1>3. QuotaInv' /\ history' \in [Sender -> Seq(H!Time)] /\ admitted' \in [Sender -> Seq(H!Time)]
  <2>1. CASE H!Refuse(r)
    <3> DEFINE h == H!Recent(history[s], now - HandshakeWindow)
    <3>1. h \in Seq(H!Time) /\ Windowed(h, admitted[s], now, HandshakeWindow, MaxHandshakes)
      BY <1>1, QuotaSlides
    <3>2. history' = [history EXCEPT ![s] = h] /\ admitted' = admitted
      BY <2>1 DEF H!Refuse
    <3> HIDE DEF h
    <3> QED BY <1>1, <1>2, <3>1, <3>2, QuotaShrinks DEF HandshakeInv, H!TypeOK
  <2>2. CASE H!RefuseOld(r) \/ H!RefuseAgain(r)
    BY <1>1, <1>2, <2>2, QuotaCounts DEF H!RefuseOld, H!RefuseAgain
  <2> QED BY <2>1, <2>2
<1>4. H!TypeOK'
  BY <1>2, <1>3 DEF HandshakeInv, H!TypeOK
<1> QED BY <1>2, <1>3, <1>4, NoncesStay DEF HandshakeInv

LEMMA HandshakeSend == ASSUME HandshakeInv, NEW r \in Request, H!Send(r) PROVE HandshakeInv'
<1>1. PICK t \in H!Stamp : stamp' = [stamp EXCEPT ![r] = t]
  BY DEF H!Send
<1>2. /\ r \notin sentRequests /\ sentRequests' = sentRequests \cup {r}
      /\ UNCHANGED <<now, nonces, nonceTable, queue, history, sessions, accepted, admitted>>
  BY DEF H!Send
<1>3. stamp' \in [Request -> H!Stamp] /\ \A k \in Request \ {r} : stamp'[k] = stamp[k]
  BY <1>1 DEF HandshakeInv, H!TypeOK
<1>4. H!TypeOK'
  BY <1>2, <1>3 DEF HandshakeInv, H!TypeOK
<1>5. accepted[r] = 0
  BY <1>2 DEF HandshakeInv, NonceInv
<1> QED BY <1>2, <1>3, <1>4, <1>5 DEF HandshakeInv, NonceInv, QueueInv, QuotaInv

LEMMA HandshakeTick == HandshakeInv /\ H!Tick => HandshakeInv'
<1> SUFFICES ASSUME HandshakeInv, H!Tick PROVE HandshakeInv'
  OBVIOUS
<1>1. /\ now \in Nat /\ now < HandshakeTime /\ now' = now + 1
      /\ UNCHANGED <<stamp, sentRequests, nonces, nonceTable, queue, history, sessions,
                     accepted, admitted>>
  BY Parameters DEF H!Tick, HandshakeInv, H!TypeOK, H!Time
<1>2. now' \in H!Time
  BY <1>1, Parameters DEF H!Time
<1>3. H!TypeOK'
  BY <1>1, <1>2 DEF HandshakeInv, H!TypeOK
<1>4. NonceInv'
  <2>1. \A r \in Request : nonces[r] \in Nat
    BY Parameters DEF HandshakeInv, H!TypeOK, H!Time
  <2> QED BY <1>1, <2>1, Parameters DEF HandshakeInv, NonceInv
<1>5. QuotaInv'
  <2> SUFFICES ASSUME NEW s \in Sender
               PROVE  Windowed(history[s], admitted[s], now + 1, HandshakeWindow, MaxHandshakes)
    BY <1>1 DEF QuotaInv
  <2>1. admitted[s] \in Seq(Nat)
    BY TimesAreNumbers, Parameters DEF HandshakeInv, H!TypeOK, H!Time
  <2> QED BY <1>1, <2>1, WindowAges, Parameters DEF HandshakeInv, QuotaInv
<1> QED BY <1>1, <1>3, <1>4, <1>5 DEF HandshakeInv, QueueInv

LEMMA HandshakeForget == ASSUME HandshakeInv, NEW s \in Sender, H!Forget(s) PROVE HandshakeInv'
<1> DEFINE h == history[s]
<1>1. /\ h # <<>> /\ h[Len(h)] < now - HandshakeWindow /\ history' = [history EXCEPT ![s] = <<>>]
      /\ UNCHANGED <<now, stamp, sentRequests, nonces, nonceTable, queue, sessions, accepted,
                     admitted>>
  BY DEF H!Forget
<1>2. /\ h \in Seq(Nat) /\ admitted[s] \in Seq(Nat) /\ now \in Nat
  BY TimesAreNumbers, Parameters DEF HandshakeInv, H!TypeOK, H!Time
<1>3. Windowed(h, admitted[s], now, HandshakeWindow, MaxHandshakes)
  BY DEF HandshakeInv, QuotaInv
<1> HIDE DEF h
<1> DEFINE a == admitted[s]
<1>4. a \in Seq(Nat) /\ Windowed(h, a, now, HandshakeWindow, MaxHandshakes)
  BY <1>2, <1>3
<1> HIDE DEF a
<1>5. ASSUME NEW i \in 1 .. Len(h) PROVE h[i] < now - HandshakeWindow
  <2>1. PICK k \in 1 .. Len(a) + 1 : Suffix(h, a, k)
    BY <1>4 DEF Windowed, Kept
  <2>2. /\ Len(h) = Len(a) + 1 - k
        /\ \A j \in 1 .. Len(h) : h[j] = a[j + k - 1]
    BY <1>4, <2>1 DEF Suffix
  <2>3. /\ Len(h) \in 1 .. Len(h) /\ Len(h) + k - 1 = Len(a) /\ Len(a) \in 1 .. Len(a)
        /\ i + k - 1 \in 1 .. Len(a) /\ i + k - 1 <= Len(a)
    BY <1>2, <1>4, <2>2
  <2>4. h[i] = a[i + k - 1] /\ h[Len(h)] = a[Len(a)]
    BY <2>2, <2>3
  <2>5. a[i + k - 1] <= a[Len(a)]
    BY <1>4, <2>3 DEF Windowed, Rising
  <2>6. h[i] \in Nat /\ h[Len(h)] \in Nat /\ HandshakeWindow \in Nat
    BY <1>2, <2>3, Parameters
  <2>7. h[Len(h)] < now - HandshakeWindow
    BY <1>1 DEF h
  <2> QED BY <1>2, <2>4, <2>5, <2>6, <2>7
<1>6. Windowed(<<>>, admitted[s], now, HandshakeWindow, MaxHandshakes)
  BY <1>2, <1>3, <1>5, WindowEmpties, Parameters
<1>7. <<>> \in Seq(H!Time)
  OBVIOUS
<1>8. QuotaInv' /\ history' \in [Sender -> Seq(H!Time)]
  <2> HIDE DEF a
  <2> QED BY <1>1, <1>6, <1>7, QuotaShrinks
<1>9. H!TypeOK'
  BY <1>1, <1>8 DEF HandshakeInv, H!TypeOK
<1> QED BY <1>1, <1>8, <1>9, NoncesStay DEF HandshakeInv

LEMMA HandshakeNext == HandshakeInv /\ H!Next => HandshakeInv'
<1> SUFFICES ASSUME HandshakeInv, H!Next PROVE HandshakeInv'
  OBVIOUS
<1>1. ASSUME NEW s \in Sender, H!Close(s) PROVE HandshakeInv'
  BY <1>1 DEF H!Close, HandshakeInv, H!TypeOK, NonceInv, QueueInv, QuotaInv
<1> QED BY <1>1, HandshakeTick, HandshakeSend, HandshakeOthers, HandshakeAccept,
           HandshakeForget DEF H!Next

-----------------------------------------------------------------------------
(* RateLimits: the inductive invariant *)

\* A Qube without a limiter has no times; those of the others are what is in the window.
RateInv ==
  /\ \A q \in Actor : Windowed(requests[q], allowed[q], clock, MessageWindow, MaxMessages)
  /\ \A q \in Actor \ limiters : requests[q] = <<>>

Opened(q) == {c \in R!In("open") : connection[c].qube = q}
Slots == UNION {{q} \X (1 .. active[q]) : q \in Actor}

\* The counts, and their sum, are those of the open connections.
CountInv ==
  /\ \A q \in Actor : IsFiniteSet(Opened(q)) /\ active[q] = Cardinality(Opened(q))
  /\ IsFiniteSet(R!In("open")) /\ IsFiniteSet(Slots)
  /\ Cardinality(Slots) = Cardinality(R!In("open"))

\* With those that are allowed, there are no more than the limit.
RoomInv ==
  ~hurried => LET taken == R!In("allowed") \cup R!In("open") IN
              IsFiniteSet(taken) /\ Cardinality(taken) <= MaxConnections

RateLimitsInv == R!TypeOK /\ RateInv /\ CountInv /\ RoomInv

LEMMA RateParameters ==
  /\ MaxMessages \in Nat /\ MessageWindow \in Nat /\ MaxConnections \in Nat \ {0}
  /\ BlockTime \in Nat \ {0} /\ MessageTime \in Nat /\ NoBlock \notin Nat
BY ExchangesAssumption DEF R!RateLimitsAssumption

LEMMA SameRateCount ==
  ASSUME NEW U
  PROVE  R!Cardinality(U) = Cardinality(U)
BY Zenon DEF R!Cardinality, Cardinality, R!IsFiniteSet, IsFiniteSet

LEMMA RateInit == R!Init => RateLimitsInv
<1> SUFFICES ASSUME R!Init PROVE RateLimitsInv
  OBVIOUS
<1> USE RateParameters DEF R!Init
<1>8. connection \in [Connection -> [qube : Actor, state : {"new", "allowed", "open", "closed"}]]
  <2>1. connection \in [Connection -> [qube : Actor, state : {"new"}]]
    OBVIOUS
  <2>2. [qube : Actor, state : {"new"}] \subseteq
          [qube : Actor, state : {"new", "allowed", "open", "closed"}]
    OBVIOUS
  <2> QED BY <2>1, <2>2
<1>1. R!TypeOK
  <2>1. clock \in R!Time
    BY DEF R!Time
  <2>2. requests \in [Actor -> Seq(R!Time)] /\ allowed \in [Actor -> Seq(R!Time)]
    OBVIOUS
  <2>3. blocklist \in [Actor -> Nat \cup {NoBlock}] /\ active \in [Actor -> Nat]
    OBVIOUS
  <2>4. limiters \subseteq Actor /\ hurried \in BOOLEAN
    OBVIOUS
  <2> QED BY <1>8, <2>1, <2>2, <2>3, <2>4 DEF R!TypeOK
<1>2. RateInv
  BY WindowBegins DEF RateInv
<1>3. R!In("open") = {} /\ R!In("allowed") = {} /\ \A q \in Actor : Opened(q) = {}
  BY DEF R!In, Opened
<1>4. Slots = {}
  <2>1. \A q \in Actor : {q} \X (1 .. active[q]) = {}
    OBVIOUS
  <2> QED BY <2>1 DEF Slots
<1>5. IsFiniteSet({}) /\ Cardinality({}) = 0
  BY FS_EmptySet
<1>6. CountInv
  BY <1>3, <1>4, <1>5 DEF CountInv
<1>7. RoomInv
  <2>1. R!In("allowed") \cup R!In("open") = {}
    BY <1>3
  <2>2. Cardinality({}) <= MaxConnections
    BY <1>5
  <2> QED BY <1>5, <2>1, <2>2 DEF RoomInv
<1> QED BY <1>1, <1>2, <1>6, <1>7 DEF RateLimitsInv

LEMMA RecentMessages ==
  ASSUME NEW s \in Seq(Nat), clock \in Nat
  PROVE  \E m \in 1 .. Len(s) + 1 : /\ R!Recent(s) = SubSeq(s, m, Len(s))
                                    /\ \A j \in 1 .. Len(s) : j < m => s[j] < clock - MessageWindow
<1> DEFINE U == {i \in 1 .. Len(s) : s[i] >= clock - MessageWindow}
           m == Least(U \cup {Len(s) + 1})
<1>1. U \in SUBSET (1 .. Len(s)) /\ Len(s) \in Nat
  OBVIOUS
<1>2. m \in 1 .. Len(s) + 1 /\ \A j \in U : m <= j
  <2> HIDE DEF U
  <2> QED BY <1>1, FirstPlace
<1>3. R!Recent(s) = SubSeq(s, m, Len(s))
  BY DEF R!Recent, R!Min, Least
<1> HIDE DEF m
<1>4. ASSUME NEW j \in 1 .. Len(s), j < m PROVE s[j] < clock - MessageWindow
  <2>1. ~(m <= j)
    BY <1>2, <1>4
  <2>2. j \notin U
    BY <1>2, <2>1
  <2>3. ~(s[j] >= clock - MessageWindow)
    BY <2>2
  <2> QED BY <2>3, RateParameters
<1> QED BY <1>2, <1>3, <1>4

LEMMA RateSlides ==
  ASSUME RateLimitsInv, NEW q \in Actor
  PROVE  LET h == R!Recent(requests[q]) IN
         h \in Seq(R!Time) /\ Windowed(h, allowed[q], clock, MessageWindow, MaxMessages)
<1>1. requests[q] \in Seq(R!Time) /\ allowed[q] \in Seq(R!Time) /\ clock \in Nat
  BY RateParameters DEF RateLimitsInv, R!TypeOK, R!Time
<1>2. requests[q] \in Seq(Nat) /\ allowed[q] \in Seq(Nat)
  BY <1>1, TimesAreNumbers, RateParameters DEF R!Time
<1>3. PICK m \in 1 .. Len(requests[q]) + 1 :
        /\ R!Recent(requests[q]) = SubSeq(requests[q], m, Len(requests[q]))
        /\ \A j \in 1 .. Len(requests[q]) : j < m => requests[q][j] < clock - MessageWindow
  BY <1>1, <1>2, RecentMessages
<1>4. Windowed(requests[q], allowed[q], clock, MessageWindow, MaxMessages)
  BY DEF RateLimitsInv, RateInv
<1> DEFINE h == requests[q]
<1>5. SubSeq(h, m, Len(h)) \in Seq(R!Time)
  BY <1>1, <1>3
<1>6. /\ h \in Seq(Nat) /\ m \in 1 .. Len(h) + 1
      /\ \A j \in 1 .. Len(h) : j < m => h[j] < clock - MessageWindow
      /\ Windowed(h, allowed[q], clock, MessageWindow, MaxMessages)
  BY <1>2, <1>3, <1>4
<1>7. R!Recent(h) = SubSeq(h, m, Len(h))
  BY <1>3
<1> HIDE DEF h
<1>8. Windowed(SubSeq(h, m, Len(h)), allowed[q], clock, MessageWindow, MaxMessages)
  BY <1>1, <1>2, <1>6, WindowSlides, RateParameters
<1> QED BY <1>5, <1>7, <1>8 DEF h

\* A message, let through or not.
LEMMA RateMessage == ASSUME RateLimitsInv, NEW q \in Actor, R!Message(q) PROVE RateLimitsInv'
<1> DEFINE h == IF q \in limiters THEN R!Recent(requests[q]) ELSE <<>>
           under == Len(h) < MaxMessages
           g == IF under THEN Append(h, clock) ELSE h
           a == IF under THEN Append(allowed[q], clock) ELSE allowed[q]
<1>1. h \in Seq(R!Time) /\ Windowed(h, allowed[q], clock, MessageWindow, MaxMessages)
  <2>1. CASE q \in limiters
    BY <2>1, RateSlides
  <2>2. CASE q \notin limiters
    BY <2>2 DEF RateLimitsInv, RateInv
  <2> QED BY <2>1, <2>2
<1>2. /\ R!Looked(q) /\ limiters' = limiters \cup {q}
      /\ requests' = [requests EXCEPT ![q] = g]
      /\ allowed' = [allowed EXCEPT ![q] = a]
      /\ UNCHANGED <<clock, active, connection, hurried>>
  BY DEF R!Message
<1> HIDE DEF h
<1>3. /\ clock \in Nat /\ clock \in R!Time /\ allowed[q] \in Seq(R!Time)
      /\ requests \in [Actor -> Seq(R!Time)] /\ allowed \in [Actor -> Seq(R!Time)]
  BY RateParameters DEF RateLimitsInv, R!TypeOK, R!Time
<1>4. h \in Seq(Nat) /\ allowed[q] \in Seq(Nat)
  BY <1>1, <1>3, TimesAreNumbers, RateParameters DEF R!Time
<1>5. Windowed(g, a, clock, MessageWindow, MaxMessages)
  <2>1. CASE under
    BY <1>1, <1>3, <1>4, <2>1, WindowAdmits, RateParameters
  <2>2. CASE ~under
    BY <1>1, <2>2
  <2> QED BY <2>1, <2>2
<1>6. g \in Seq(R!Time) /\ a \in Seq(R!Time)
  BY <1>1, <1>3
<1> HIDE DEF g, a
<1>7. requests' \in [Actor -> Seq(R!Time)] /\ allowed' \in [Actor -> Seq(R!Time)]
  BY <1>2, <1>3, <1>6
<1>8. \A p \in Actor : /\ requests'[p] = IF p = q THEN g ELSE requests[p]
                       /\ allowed'[p] = IF p = q THEN a ELSE allowed[p]
  BY <1>2, <1>3
<1>9. RateInv'
  BY <1>2, <1>5, <1>8 DEF RateLimitsInv, RateInv
<1>10. blocklist' \in [Actor -> Nat \cup {NoBlock}]
  BY <1>2 DEF R!Looked, RateLimitsInv, R!TypeOK
<1>11. R!TypeOK'
  BY <1>2, <1>7, <1>10 DEF RateLimitsInv, R!TypeOK
<1> QED BY <1>2, <1>9, <1>11 DEF RateLimitsInv, CountInv, RoomInv, R!In, Opened, Slots

LEMMA RateCleanup == RateLimitsInv /\ R!Cleanup => RateLimitsInv'
<1> SUFFICES ASSUME RateLimitsInv, R!Cleanup PROVE RateLimitsInv'
  OBVIOUS
<1>1. /\ limiters' = {q \in limiters : ~R!Expired(q)}
      /\ requests' = [q \in Actor |-> IF q \in limiters' THEN R!Recent(requests[q]) ELSE <<>>]
      /\ UNCHANGED <<clock, blocklist, active, connection, allowed, hurried>>
  BY DEF R!Cleanup
<1>2. ASSUME NEW q \in Actor
      PROVE  /\ requests'[q] \in Seq(R!Time)
             /\ Windowed(requests'[q], allowed[q], clock, MessageWindow, MaxMessages)
  <2>1. CASE q \in limiters'
    BY <1>1, <2>1, RateSlides
  <2>2. CASE q \in limiters \ limiters'
    BY <1>1, <2>2, RateSlides DEF R!Expired
  <2>3. CASE q \notin limiters /\ q \notin limiters'
    BY <1>1, <2>3 DEF RateLimitsInv, RateInv
  <2> QED BY <2>1, <2>2, <2>3
<1>3. RateInv'
  BY <1>1, <1>2 DEF RateInv
<1>4. requests' \in [Actor -> Seq(R!Time)]
  BY <1>1, <1>2
<1>5. R!TypeOK'
  BY <1>1, <1>4 DEF RateLimitsInv, R!TypeOK
<1> QED BY <1>1, <1>3, <1>5 DEF RateLimitsInv, CountInv, RoomInv, R!In, Opened, Slots

LEMMA RateTick == RateLimitsInv /\ R!Tick => RateLimitsInv'
<1> SUFFICES ASSUME RateLimitsInv, R!Tick PROVE RateLimitsInv'
  OBVIOUS
<1>1. /\ clock \in Nat /\ clock < MessageTime /\ clock' = clock + 1
      /\ UNCHANGED <<limiters, requests, blocklist, active, connection, allowed, hurried>>
  BY RateParameters DEF R!Tick, RateLimitsInv, R!TypeOK, R!Time
<1>2. clock' \in R!Time
  BY <1>1, RateParameters DEF R!Time
<1>3. R!TypeOK'
  BY <1>1, <1>2 DEF RateLimitsInv, R!TypeOK
<1>4. ASSUME NEW q \in Actor
      PROVE  Windowed(requests[q], allowed[q], clock + 1, MessageWindow, MaxMessages)
  <2>1. allowed[q] \in Seq(Nat)
    BY TimesAreNumbers, RateParameters DEF RateLimitsInv, R!TypeOK, R!Time
  <2> QED BY <1>1, <2>1, WindowAges, RateParameters DEF RateLimitsInv, RateInv
<1>5. RateInv'
  BY <1>1, <1>4 DEF RateLimitsInv, RateInv
<1> QED BY <1>1, <1>3, <1>5 DEF RateLimitsInv, CountInv, RoomInv, R!In, Opened, Slots

LEMMA RateBlock ==
  ASSUME RateLimitsInv, NEW q \in Actor, R!MessageBlocked(q) \/ R!Block(q) \/ R!Unblock(q)
  PROVE  RateLimitsInv'
<1>1. UNCHANGED <<clock, limiters, requests, active, connection, allowed, hurried>>
  BY DEF R!MessageBlocked, R!Block, R!Unblock, R!vars
<1>2. clock \in Nat
  BY RateParameters DEF RateLimitsInv, R!TypeOK, R!Time
<1>3. blocklist' \in [Actor -> Nat \cup {NoBlock}]
  <2>1. blocklist \in [Actor -> Nat \cup {NoBlock}] /\ clock + BlockTime \in Nat
    BY <1>2, RateParameters DEF RateLimitsInv, R!TypeOK
  <2>2. \/ blocklist' = blocklist
        \/ blocklist' = [blocklist EXCEPT ![q] = clock + BlockTime]
        \/ blocklist' = [blocklist EXCEPT ![q] = NoBlock]
    BY DEF R!MessageBlocked, R!Block, R!Unblock, R!vars
  <2> QED BY <2>1, <2>2
<1>4. R!TypeOK'
  BY <1>1, <1>3 DEF RateLimitsInv, R!TypeOK
<1> QED BY <1>1, <1>4 DEF RateLimitsInv, RateInv, CountInv, RoomInv, R!In, Opened, Slots

-----------------------------------------------------------------------------
(* RateLimits: the connections *)

\* Connection c of Qube q gets another state.
LEMMA ConnectionMoves ==
  ASSUME R!TypeOK, NEW c \in Connection,
         NEW state \in {"new", "allowed", "open", "closed"}, R!Moved(c, state)
  PROVE  /\ connection' \in [Connection -> [qube : Actor, state : {"new", "allowed", "open", "closed"}]]
         /\ connection'[c].state = state /\ connection'[c].qube = connection[c].qube
         /\ \A d \in Connection \ {c} : connection'[d] = connection[d]
<1> DEFINE o == [connection[c] EXCEPT !.state = state]
<1>1. connection[c] \in [qube : Actor, state : {"new", "allowed", "open", "closed"}]
  BY DEF R!TypeOK
<1>2. /\ o \in [qube : Actor, state : {"new", "allowed", "open", "closed"}]
      /\ o.state = state /\ o.qube = connection[c].qube
  BY <1>1
<1>3. connection' = [connection EXCEPT ![c] = o]
  BY DEF R!Moved
<1> HIDE DEF o
<1> QED BY <1>2, <1>3 DEF R!TypeOK

LEMMA OpenIs == R!Open = Cardinality(Slots)
BY SameRateCount DEF R!Open, Slots

LEMMA RateAllow ==
  ASSUME RateLimitsInv, NEW c \in Connection, R!AllowConnection(c) PROVE RateLimitsInv'
<1> DEFINE q == connection[c].qube
<1>1. /\ c \in R!In("new") /\ R!Looked(q) /\ R!Open < MaxConnections /\ R!Moved(c, "allowed")
      /\ hurried' = (hurried \/ R!In("allowed") # {})
      /\ UNCHANGED <<clock, limiters, requests, active, allowed>>
  BY DEF R!AllowConnection
<1>2. /\ connection' \in [Connection -> [qube : Actor, state : {"new", "allowed", "open", "closed"}]]
      /\ connection'[c].state = "allowed" /\ connection'[c].qube = q
      /\ \A d \in Connection \ {c} : connection'[d] = connection[d]
  BY <1>1, ConnectionMoves DEF RateLimitsInv
<1>3. connection[c].state = "new"
  BY <1>1 DEF R!In
<1>4. R!In("open")' = R!In("open") /\ \A p \in Actor : Opened(p)' = Opened(p)
  <2>1. R!In("open")' = R!In("open")
    BY <1>2, <1>3 DEF R!In
  <2> QED BY <1>2, <1>3, <2>1 DEF Opened, R!In
<1>5. R!In("allowed")' = R!In("allowed") \cup {c}
  BY <1>2, <1>3 DEF R!In
<1>6. CountInv'
  <2>1. Slots' = Slots
    BY <1>1 DEF Slots
  <2> QED BY <1>1, <1>4, <2>1 DEF RateLimitsInv, CountInv
<1>7. RoomInv'
  <2> SUFFICES ASSUME ~hurried'
               PROVE  LET taken == R!In("allowed")' \cup R!In("open")' IN
                      IsFiniteSet(taken) /\ Cardinality(taken) <= MaxConnections
    BY DEF RoomInv
  <2>1. R!In("allowed")' \cup R!In("open")' = R!In("open") \cup {c}
    BY <1>1, <1>4, <1>5
  <2>2. c \notin R!In("open")
    BY <1>3 DEF R!In
  <2>3. /\ IsFiniteSet(R!In("open")) /\ Cardinality(R!In("open")) \in Nat
        /\ Cardinality(R!In("open")) < MaxConnections
    BY <1>1, OpenIs, FS_CardinalityType DEF RateLimitsInv, CountInv
  <2>4. /\ IsFiniteSet(R!In("open") \cup {c})
        /\ Cardinality(R!In("open") \cup {c}) = Cardinality(R!In("open")) + 1
    BY <2>2, <2>3, FS_AddElement
  <2>5. Cardinality(R!In("open") \cup {c}) <= MaxConnections
    BY <2>3, <2>4, RateParameters
  <2> QED BY <2>1, <2>4, <2>5
<1>8. blocklist' \in [Actor -> Nat \cup {NoBlock}] /\ hurried' \in BOOLEAN
  BY <1>1 DEF R!Looked, RateLimitsInv, R!TypeOK
<1>9. R!TypeOK'
  BY <1>1, <1>2, <1>8 DEF RateLimitsInv, R!TypeOK
<1> QED BY <1>1, <1>6, <1>7, <1>9 DEF RateLimitsInv, RateInv

LEMMA RateRegister ==
  ASSUME RateLimitsInv, NEW c \in Connection, R!Register(c) PROVE RateLimitsInv'
<1>0. PICK q \in Actor : q = connection[c].qube
  BY DEF RateLimitsInv, R!TypeOK
<1> DEFINE more == <<q, active[q] + 1>>
<1>1. /\ connection[c].state = "allowed" /\ R!Moved(c, "open")
      /\ active' = [active EXCEPT ![q] = @ + 1]
      /\ UNCHANGED <<clock, limiters, requests, blocklist, allowed, hurried>>
  BY <1>0 DEF R!Register, R!In
<1>2. /\ connection' \in [Connection -> [qube : Actor, state : {"new", "allowed", "open", "closed"}]]
      /\ connection'[c].state = "open" /\ connection'[c].qube = q
      /\ \A d \in Connection \ {c} : connection'[d] = connection[d]
  BY <1>0, <1>1, ConnectionMoves DEF RateLimitsInv
<1>3. /\ q \in Actor /\ active \in [Actor -> Nat]
  BY DEF RateLimitsInv, R!TypeOK
<1>4. R!In("open")' = R!In("open") \cup {c} /\ c \notin R!In("open")
  BY <1>1, <1>2 DEF R!In
<1>5. R!In("allowed")' \cup R!In("open")' = R!In("allowed") \cup R!In("open")
  BY <1>1, <1>2 DEF R!In
<1>6. /\ Opened(q)' = Opened(q) \cup {c} /\ c \notin Opened(q)
      /\ \A p \in Actor \ {q} : Opened(p)' = Opened(p)
  BY <1>0, <1>2, <1>4 DEF Opened, R!In
<1>7. active' \in [Actor -> Nat] /\ active'[q] = active[q] + 1 /\ \A p \in Actor \ {q} : active'[p] = active[p]
  BY <1>1, <1>3
<1>8. Slots' = Slots \cup {more} /\ more \notin Slots
  <2>1. ASSUME NEW x PROVE x \in Slots' <=> x \in Slots \cup {more}
    <3>1. x \in Slots' <=> \E p \in Actor : \E i \in 1 .. active'[p] : x = <<p, i>>
      BY DEF Slots
    <3>2. x \in Slots <=> \E p \in Actor : \E i \in 1 .. active[p] : x = <<p, i>>
      BY DEF Slots
    <3>3. \A i : i \in 1 .. active'[q] <=> i \in 1 .. active[q] \/ i = active[q] + 1
      BY <1>3, <1>7
    <3> QED BY <1>3, <1>7, <3>1, <3>2, <3>3
  <2>2. more \notin Slots
    <3>1. active[q] + 1 \notin 1 .. active[q]
      BY <1>3
    <3> QED BY <3>1 DEF Slots
  <2> HIDE DEF more
  <2> QED BY <2>1, <2>2
<1> HIDE DEF more
<1>9. /\ \A p \in Actor : IsFiniteSet(Opened(p)) /\ active[p] = Cardinality(Opened(p))
      /\ IsFiniteSet(R!In("open")) /\ IsFiniteSet(Slots)
      /\ Cardinality(Slots) = Cardinality(R!In("open"))
  BY DEF RateLimitsInv, CountInv
<1>10. CountInv'
  <2>1. IsFiniteSet(Opened(q)') /\ Cardinality(Opened(q)') = Cardinality(Opened(q)) + 1
    BY <1>3, <1>6, <1>9, FS_AddElement
  <2>2. IsFiniteSet(Slots') /\ Cardinality(Slots') = Cardinality(Slots) + 1
    BY <1>8, <1>9, FS_AddElement
  <2>3. IsFiniteSet(R!In("open")') /\ Cardinality(R!In("open")') = Cardinality(R!In("open")) + 1
    BY <1>4, <1>9, FS_AddElement
  <2>4. ASSUME NEW p \in Actor
        PROVE  IsFiniteSet(Opened(p)') /\ active'[p] = Cardinality(Opened(p)')
    <3>1. CASE p = q
      BY <1>3, <1>7, <1>9, <2>1, <3>1
    <3>2. CASE p # q
      <4>1. Opened(p)' = Opened(p) /\ active'[p] = active[p]
        BY <1>6, <1>7, <1>9, <3>2
      <4> QED BY <1>6, <1>7, <1>9, <3>2, <4>1
    <3> QED BY <3>1, <3>2
  <2>5. Cardinality(Slots') = Cardinality(R!In("open")')
    BY <1>9, <2>2, <2>3
  <2> QED BY <2>2, <2>3, <2>4, <2>5 DEF CountInv
<1>11. RoomInv'
  BY <1>1, <1>5 DEF RateLimitsInv, RoomInv
<1>12. R!TypeOK'
  BY <1>1, <1>2, <1>7 DEF RateLimitsInv, R!TypeOK
<1> QED BY <1>1, <1>10, <1>11, <1>12 DEF RateLimitsInv, RateInv

LEMMA RateUnregister ==
  ASSUME RateLimitsInv, NEW c \in Connection, R!Unregister(c) PROVE RateLimitsInv'
<1>0. PICK q \in Actor : q = connection[c].qube
  BY DEF RateLimitsInv, R!TypeOK
<1> DEFINE last == <<q, active[q]>>
<1>1. /\ connection[c].state = "open" /\ R!Moved(c, "closed")
      /\ active' = [active EXCEPT ![q] = @ - 1]
      /\ UNCHANGED <<clock, limiters, requests, blocklist, allowed, hurried>>
  BY <1>0 DEF R!Unregister, R!In
<1>2. /\ connection' \in [Connection -> [qube : Actor, state : {"new", "allowed", "open", "closed"}]]
      /\ connection'[c].state = "closed" /\ connection'[c].qube = q
      /\ \A d \in Connection \ {c} : connection'[d] = connection[d]
  BY <1>0, <1>1, ConnectionMoves DEF RateLimitsInv
<1>3. /\ q \in Actor /\ active \in [Actor -> Nat]
  BY DEF RateLimitsInv, R!TypeOK
<1>4. R!In("open")' = R!In("open") \ {c} /\ c \in R!In("open")
  BY <1>1, <1>2 DEF R!In
<1>5. R!In("allowed")' \cup R!In("open")' \subseteq R!In("allowed") \cup R!In("open")
  BY <1>1, <1>2 DEF R!In
<1>6. /\ Opened(q)' = Opened(q) \ {c} /\ c \in Opened(q)
      /\ \A p \in Actor \ {q} : Opened(p)' = Opened(p)
  BY <1>0, <1>2, <1>4 DEF Opened, R!In
<1>7. /\ \A p \in Actor : IsFiniteSet(Opened(p)) /\ active[p] = Cardinality(Opened(p))
      /\ IsFiniteSet(R!In("open")) /\ IsFiniteSet(Slots)
      /\ Cardinality(Slots) = Cardinality(R!In("open"))
  BY DEF RateLimitsInv, CountInv
<1>8. /\ IsFiniteSet(Opened(q)') /\ Cardinality(Opened(q)') = active[q] - 1
      /\ Cardinality(Opened(q)') \in Nat
  BY <1>3, <1>6, <1>7, FS_RemoveElement, FS_CardinalityType
<1>9. /\ active[q] \in Nat \ {0} /\ active' \in [Actor -> Nat] /\ active'[q] = active[q] - 1
      /\ \A p \in Actor \ {q} : active'[p] = active[p]
  BY <1>1, <1>3, <1>8
<1>10. Slots' = Slots \ {last} /\ last \in Slots
  <2>1. ASSUME NEW x PROVE x \in Slots' <=> x \in Slots \ {last}
    <3>1. x \in Slots' <=> \E p \in Actor : \E i \in 1 .. active'[p] : x = <<p, i>>
      BY DEF Slots
    <3>2. x \in Slots <=> \E p \in Actor : \E i \in 1 .. active[p] : x = <<p, i>>
      BY DEF Slots
    <3>3. \A i : i \in 1 .. active'[q] <=> i \in 1 .. active[q] /\ i # active[q]
      BY <1>3, <1>9
    <3> QED BY <1>3, <1>9, <3>1, <3>2, <3>3
  <2>2. last \in Slots
    <3>1. active[q] \in 1 .. active[q]
      BY <1>9
    <3> QED BY <1>3, <3>1 DEF Slots
  <2> HIDE DEF last
  <2> QED BY <2>1, <2>2
<1> HIDE DEF last
<1>11. CountInv'
  <2>1. IsFiniteSet(Slots') /\ Cardinality(Slots') = Cardinality(Slots) - 1
    BY <1>7, <1>10, FS_RemoveElement
  <2>2. IsFiniteSet(R!In("open")') /\ Cardinality(R!In("open")') = Cardinality(R!In("open")) - 1
    BY <1>4, <1>7, FS_RemoveElement
  <2>3. ASSUME NEW p \in Actor
        PROVE  IsFiniteSet(Opened(p)') /\ active'[p] = Cardinality(Opened(p)')
    <3>1. CASE p = q
      BY <1>8, <1>9, <3>1
    <3>2. CASE p # q
      <4>1. Opened(p)' = Opened(p) /\ active'[p] = active[p]
        BY <1>6, <1>7, <1>9, <3>2
      <4> QED BY <1>6, <1>7, <1>9, <3>2, <4>1
    <3> QED BY <3>1, <3>2
  <2>4. Cardinality(Slots') = Cardinality(R!In("open")')
    BY <1>7, <2>1, <2>2
  <2> QED BY <2>1, <2>2, <2>3, <2>4 DEF CountInv
<1>12. RoomInv'
  <2> DEFINE taken == R!In("allowed") \cup R!In("open")
             left == R!In("allowed")' \cup R!In("open")'
  <2> SUFFICES ASSUME ~hurried PROVE IsFiniteSet(left) /\ Cardinality(left) <= MaxConnections
    BY <1>1 DEF RoomInv
  <2>1. IsFiniteSet(taken) /\ Cardinality(taken) <= MaxConnections
    BY DEF RateLimitsInv, RoomInv
  <2>2. left \subseteq taken
    BY <1>5
  <2> HIDE DEF left, taken
  <2>3. /\ IsFiniteSet(left) /\ Cardinality(left) <= Cardinality(taken)
        /\ Cardinality(left) \in Nat /\ Cardinality(taken) \in Nat
    BY <2>1, <2>2, FS_Subset, FS_CardinalityType
  <2> QED BY <2>1, <2>3, RateParameters
<1>13. R!TypeOK'
  BY <1>1, <1>2, <1>9 DEF RateLimitsInv, R!TypeOK
<1> QED BY <1>1, <1>11, <1>12, <1>13 DEF RateLimitsInv, RateInv

LEMMA RateNext == RateLimitsInv /\ R!Next => RateLimitsInv'
<1> SUFFICES ASSUME RateLimitsInv, R!Next PROVE RateLimitsInv'
  OBVIOUS
<1> QED BY RateTick, RateCleanup, RateMessage, RateBlock, RateAllow, RateRegister,
           RateUnregister DEF R!Next

\* What the invariants say of the limits.
LEMMA WindowLimits ==
  ASSUME NEW a \in Seq(Nat), NEW h, NEW t, NEW w \in Nat, NEW max, Windowed(h, a, t, w, max)
  PROVE  \A i \in 1 .. Len(a) : Cardinality({j \in i .. Len(a) : a[j] <= a[i] + w}) <= max
BY DEF Windowed, Limited, Within

LEMMA RateHolds == RateLimitsInv => R!WithinRate /\ R!ConnectionsCounted
<1> SUFFICES ASSUME RateLimitsInv PROVE R!WithinRate /\ R!ConnectionsCounted
  OBVIOUS
<1>1. R!WithinRate
  <2> SUFFICES ASSUME NEW q \in Actor, NEW i \in 1 .. Len(allowed[q])
               PROVE  Cardinality({j \in i .. Len(allowed[q]) :
                        allowed[q][j] <= allowed[q][i] + MessageWindow}) <= MaxMessages
    BY SameRateCount DEF R!WithinRate
  <2>1. allowed[q] \in Seq(Nat)
    BY TimesAreNumbers, RateParameters DEF RateLimitsInv, R!TypeOK, R!Time
  <2> QED BY <2>1, WindowLimits, RateParameters DEF RateLimitsInv, RateInv
<1>2. \A q \in Actor : active[q] = R!Cardinality({c \in R!In("open") : connection[c].qube = q})
  BY SameRateCount DEF RateLimitsInv, CountInv, Opened
<1>3. ~hurried => R!Open <= MaxConnections
  <2> SUFFICES ASSUME ~hurried PROVE Cardinality(R!In("open")) <= MaxConnections
    BY OpenIs DEF RateLimitsInv, CountInv
  <2> DEFINE taken == R!In("allowed") \cup R!In("open")
  <2>1. IsFiniteSet(taken) /\ Cardinality(taken) <= MaxConnections
    BY DEF RateLimitsInv, RoomInv
  <2>2. R!In("open") \subseteq taken
    OBVIOUS
  <2> HIDE DEF taken
  <2>3. /\ IsFiniteSet(R!In("open")) /\ Cardinality(R!In("open")) <= Cardinality(taken)
        /\ Cardinality(R!In("open")) \in Nat /\ Cardinality(taken) \in Nat
    BY <2>1, <2>2, FS_Subset, FS_CardinalityType
  <2> QED BY <2>1, <2>3, RateParameters
<1> QED BY <1>1, <1>2, <1>3 DEF R!ConnectionsCounted

-----------------------------------------------------------------------------
(* Market *)

\* While one payment at a time is verified, there is room for its buyer.
SalesInv ==
  MaxSales # 0 /\ ~crowded => \A m \in Actor :
    /\ IsFiniteSet(listing[m].buyers) /\ Cardinality(listing[m].buyers) <= MaxSales
    /\ M!Verifying(m) # {} => Cardinality(listing[m].buyers) < MaxSales
    /\ \A c, d \in M!Verifying(m) : c = d

MarketInv == M!TypeOK /\ SalesInv

LEMMA SameMarketCount ==
  ASSUME NEW U
  PROVE  M!Cardinality(U) = Cardinality(U)
BY Zenon DEF M!Cardinality, Cardinality, M!IsFiniteSet, IsFiniteSet

\* What is checked keeps its buyers, and is active only if it is not sold out.
LEMMA CheckedKeeps ==
  ASSUME NEW o \in M!Listing
  PROVE  /\ M!Checked(o) \in M!Listing /\ M!Checked(o).buyers = o.buyers
         /\ M!Checked(o).status = "active" /\ MaxSales # 0 => ~(Cardinality(o.buyers) >= MaxSales)
<1>1. /\ [o EXCEPT !.status = "expired"] \in M!Listing
      /\ [o EXCEPT !.status = "sold_out"] \in M!Listing
      /\ [o EXCEPT !.status = "expired"].buyers = o.buyers
      /\ [o EXCEPT !.status = "sold_out"].buyers = o.buyers
      /\ [o EXCEPT !.status = "expired"].status = "expired"
      /\ [o EXCEPT !.status = "sold_out"].status = "sold_out"
  BY DEF M!Listing, M!Status
<1>2. M!SoldOut(o) <=> MaxSales # 0 /\ Cardinality(o.buyers) >= MaxSales
  BY SameMarketCount DEF M!SoldOut
<1> QED BY <1>1, <1>2 DEF M!Checked

LEMMA NewIsListing == M!New \in M!Listing /\ M!New.buyers = {}
BY DEF M!New, M!Listing, M!Status

LEMMA MarketInit == M!Init => MarketInv
<1> SUFFICES ASSUME M!Init PROVE MarketInv
  OBVIOUS
<1> USE DEF M!Init
<1>1. MaxSales \in Nat
  BY ExchangesAssumption DEF M!MarketAssumption
<1>2. M!TypeOK
  BY NewIsListing DEF M!TypeOK, M!Verifying
<1>3. \A m \in Actor : listing[m].buyers = {} /\ M!Verifying(m) = {}
  BY NewIsListing DEF M!Verifying
<1>4. IsFiniteSet({}) /\ Cardinality({}) = 0
  BY FS_EmptySet
<1> QED BY <1>1, <1>2, <1>3, <1>4 DEF MarketInv, SalesInv

\* A step by which the listing of one process changes, its buyers staying or gone, and no
\* purchase begins.
LEMMA SalesStay ==
  ASSUME MarketInv, NEW m \in Actor, NEW o \in M!Listing,
         listing' = [listing EXCEPT ![m] = o], crowded' = crowded, at' = at,
         \/ o.buyers = listing[m].buyers
         \/ o.buyers = {} /\ M!Verifying(m) = {},
         \A n \in Actor : M!Verifying(n)' \subseteq M!Verifying(n)
  PROVE  SalesInv' /\ listing' \in [Actor -> M!Listing]
<1>1. listing \in [Actor -> M!Listing]
  BY DEF MarketInv, M!TypeOK
<1>2. listing' \in [Actor -> M!Listing] /\ \A n \in Actor : listing'[n] = IF n = m THEN o ELSE listing[n]
  BY <1>1
<1>3. IsFiniteSet({}) /\ Cardinality({}) = 0 /\ MaxSales \in Nat
  BY FS_EmptySet, ExchangesAssumption DEF M!MarketAssumption
<1>4. ASSUME MaxSales # 0, ~crowded, NEW n \in Actor
      PROVE  /\ IsFiniteSet(listing'[n].buyers) /\ Cardinality(listing'[n].buyers) <= MaxSales
             /\ M!Verifying(n)' # {} => Cardinality(listing'[n].buyers) < MaxSales
             /\ \A c, d \in M!Verifying(n)' : c = d
  <2>1. /\ IsFiniteSet(listing[n].buyers) /\ Cardinality(listing[n].buyers) <= MaxSales
        /\ M!Verifying(n) # {} => Cardinality(listing[n].buyers) < MaxSales
        /\ \A c, d \in M!Verifying(n) : c = d
    BY <1>4 DEF MarketInv, SalesInv
  <2>2. M!Verifying(n)' \subseteq M!Verifying(n)
    OBVIOUS
  <2>3. \/ listing'[n].buyers = listing[n].buyers
        \/ listing'[n].buyers = {} /\ M!Verifying(n) = {}
    BY <1>2
  <2> QED BY <1>3, <2>1, <2>2, <2>3
<1> QED BY <1>2, <1>4 DEF SalesInv

LEMMA MarketManagers ==
  ASSUME MarketInv, NEW m \in Actor, M!Load(m) \/ M!Search(m) \/ M!Cancel(m)
  PROVE  MarketInv'
<1>1. /\ UNCHANGED <<listingFile, late, call, at, crowded>>
      /\ sellers' = sellers \/ (m \notin sellers /\ sellers' = sellers \cup {m})
      /\ listed' \in [Actor -> BOOLEAN]
  BY DEF M!Load, M!Search, M!Cancel, MarketInv, M!TypeOK
<1>2. \A n \in Actor : M!Verifying(n)' = M!Verifying(n)
  BY <1>1 DEF M!Verifying
<1>3. listing[m] \in M!Listing /\ (m \notin sellers => M!Verifying(m) = {})
  BY DEF MarketInv, M!TypeOK
<1>4. \E o \in M!Listing : /\ listing' = [listing EXCEPT ![m] = o]
                           /\ \/ o.buyers = listing[m].buyers
                              \/ o.buyers = {} /\ M!Verifying(m) = {}
  <2>1. CASE M!Load(m)
    <3>1. m \notin sellers /\ listing' = [listing EXCEPT ![m] = IF listingFile THEN M!Checked(M!New) ELSE M!New]
      BY <2>1 DEF M!Load
    <3> QED BY <1>3, <3>1, NewIsListing, CheckedKeeps
  <2>2. CASE M!Search(m)
    <3>1. listing' = [listing EXCEPT ![m] = M!Checked(listing[m])]
      BY <2>2 DEF M!Search
    <3> QED BY <1>3, <3>1, CheckedKeeps
  <2>3. CASE M!Cancel(m)
    <3> DEFINE o == [listing[m] EXCEPT !.status = "cancelled"]
    <3>1. listing' = [listing EXCEPT ![m] = o]
      BY <2>3 DEF M!Cancel
    <3>2. o \in M!Listing /\ o.buyers = listing[m].buyers
      BY <1>3 DEF M!Listing, M!Status
    <3> HIDE DEF o
    <3> QED BY <3>1, <3>2
  <2> QED BY <2>1, <2>2, <2>3
<1>5. SalesInv' /\ listing' \in [Actor -> M!Listing]
  BY <1>1, <1>2, <1>4, SalesStay
<1>6. M!TypeOK'
  BY <1>1, <1>2, <1>5 DEF MarketInv, M!TypeOK
<1> QED BY <1>5, <1>6 DEF MarketInv

\* The listings stay, and purchases end at most, those of a process that ends all.
Quiet ==
  /\ UNCHANGED <<listing, at, crowded>> /\ listingFile' \in BOOLEAN /\ late' \in BOOLEAN
  /\ listed' \in [Actor -> BOOLEAN] /\ sellers' \subseteq sellers
  /\ call' \in [Item -> {"new", "verifying", "sold", "failed"}]
  /\ \A c \in Item : call'[c] = "verifying" => call[c] = "verifying"
  /\ \A m \in sellers \ sellers' : \A c \in Item : call'[c] = "verifying" => at[c] # m

LEMMA MarketQuiet == MarketInv /\ Quiet => MarketInv'
<1> SUFFICES ASSUME MarketInv, Quiet PROVE MarketInv'
  OBVIOUS
<1>1. \A m \in Actor : M!Verifying(m)' \subseteq M!Verifying(m)
  BY DEF Quiet, M!Verifying
<1>2. \A m \in Actor \ sellers' : M!Verifying(m)' = {}
  BY <1>1 DEF Quiet, M!Verifying, MarketInv, M!TypeOK
<1>3. M!TypeOK'
  BY <1>2 DEF Quiet, MarketInv, M!TypeOK
<1>4. SalesInv'
  BY <1>1 DEF Quiet, MarketInv, SalesInv
<1> QED BY <1>3, <1>4 DEF MarketInv

LEMMA MarketOthers ==
  ASSUME MarketInv,
         M!Expire \/ (\E m \in Actor : M!Cleanup(m) \/ M!Die(m)) \/ (\E c \in Item : M!NotPaid(c))
  PROVE  MarketInv'
<1> SUFFICES Quiet
  BY MarketQuiet
<1>1. CASE M!Expire
  BY <1>1 DEF Quiet, M!Expire, MarketInv, M!TypeOK
<1>2. ASSUME NEW m \in Actor, M!Cleanup(m) PROVE Quiet
  BY <1>2 DEF Quiet, M!Cleanup, MarketInv, M!TypeOK
<1>3. ASSUME NEW m \in Actor, M!Die(m) PROVE Quiet
  BY <1>3 DEF Quiet, M!Die, M!Ended, M!Verifying, MarketInv, M!TypeOK
<1>4. ASSUME NEW c \in Item, M!NotPaid(c) PROVE Quiet
  BY <1>4 DEF Quiet, M!NotPaid, MarketInv, M!TypeOK
<1> QED BY <1>1, <1>2, <1>3, <1>4

LEMMA MarketBegin == ASSUME MarketInv, NEW c \in Item, M!Begin(c) PROVE MarketInv'
<1>0. PICK m \in Actor : m = at[c]
  BY DEF MarketInv, M!TypeOK
<1> DEFINE o == M!Checked(listing[m])
<1>1. /\ call[c] = "new" /\ m \in sellers /\ listing' = [listing EXCEPT ![m] = o]
      /\ call' = [call EXCEPT ![c] = IF o.status = "active" THEN "verifying" ELSE "failed"]
      /\ crowded' = (crowded \/ (o.status = "active" /\ M!Verifying(m) # {}))
      /\ UNCHANGED <<listingFile, sellers, listed, late, at>>
  BY <1>0 DEF M!Begin
<1>2. /\ o \in M!Listing /\ o.buyers = listing[m].buyers
      /\ o.status = "active" /\ MaxSales # 0 => ~(Cardinality(listing[m].buyers) >= MaxSales)
  BY CheckedKeeps DEF MarketInv, M!TypeOK
<1> HIDE DEF o
<1>3. /\ call' \in [Item -> {"new", "verifying", "sold", "failed"}]
      /\ \A d \in Item \ {c} : call'[d] = call[d]
      /\ call'[c] = "verifying" <=> o.status = "active"
  BY <1>1 DEF MarketInv, M!TypeOK
<1>4. /\ \A n \in Actor \ {m} : M!Verifying(n)' = M!Verifying(n)
      /\ o.status = "active" => M!Verifying(m)' = M!Verifying(m) \cup {c}
      /\ o.status # "active" => M!Verifying(m)' = M!Verifying(m)
  BY <1>0, <1>1, <1>3 DEF M!Verifying
<1>5. listing \in [Actor -> M!Listing] /\ crowded \in BOOLEAN
  BY DEF MarketInv, M!TypeOK
<1>6. /\ listing' \in [Actor -> M!Listing]
      /\ \A n \in Actor : listing'[n].buyers = listing[n].buyers
  BY <1>1, <1>2, <1>5
<1>7. crowded' \in BOOLEAN /\ \A n \in Actor \ sellers : M!Verifying(n)' = {}
  BY <1>1, <1>4, <1>5 DEF MarketInv, M!TypeOK
<1>8. M!TypeOK'
  BY <1>1, <1>3, <1>6, <1>7 DEF MarketInv, M!TypeOK
<1>9. ASSUME MaxSales # 0, ~crowded', NEW n \in Actor
      PROVE  /\ IsFiniteSet(listing[n].buyers) /\ Cardinality(listing[n].buyers) <= MaxSales
             /\ M!Verifying(n)' # {} => Cardinality(listing[n].buyers) < MaxSales
             /\ \A d, e \in M!Verifying(n)' : d = e
  <2>1. /\ IsFiniteSet(listing[n].buyers) /\ Cardinality(listing[n].buyers) <= MaxSales
        /\ M!Verifying(n) # {} => Cardinality(listing[n].buyers) < MaxSales
        /\ \A d, e \in M!Verifying(n) : d = e
    BY <1>1, <1>9 DEF MarketInv, SalesInv
  <2>2. CASE n # m \/ o.status # "active"
    BY <1>4, <2>1, <2>2
  <2>3. CASE n = m /\ o.status = "active"
    <3>1. M!Verifying(m) = {} /\ M!Verifying(m)' = {c}
      BY <1>1, <1>4, <1>9, <2>3
    <3>2. Cardinality(listing[m].buyers) \in Nat /\ MaxSales \in Nat
      BY <2>1, <2>3, FS_CardinalityType, ExchangesAssumption DEF M!MarketAssumption
    <3>3. Cardinality(listing[m].buyers) < MaxSales
      BY <1>2, <1>9, <2>3, <3>2
    <3> QED BY <2>1, <2>3, <3>1, <3>3
  <2> QED BY <2>2, <2>3
<1>10. SalesInv'
  BY <1>6, <1>9 DEF SalesInv
<1> QED BY <1>8, <1>10 DEF MarketInv

LEMMA MarketPaid == ASSUME MarketInv, NEW c \in Item, M!Paid(c) PROVE MarketInv'
<1>0. PICK m \in Actor : m = at[c]
  BY DEF MarketInv, M!TypeOK
<1> DEFINE b == listing[m].buyers \cup {c}
           o == [listing[m] EXCEPT !.buyers = @ \cup {c}]
           p == IF M!SoldOut(o) THEN [o EXCEPT !.status = "sold_out"] ELSE o
<1>1. /\ call[c] = "verifying" /\ call' = [call EXCEPT ![c] = "sold"]
      /\ listing' = [listing EXCEPT ![m] = p]
      /\ UNCHANGED <<listingFile, sellers, listed, late, at, crowded>>
  BY <1>0 DEF M!Paid
<1>2. listing \in [Actor -> M!Listing] /\ listing[m] \in M!Listing
  BY DEF MarketInv, M!TypeOK
<1>3. o \in M!Listing /\ o.buyers = b
  BY <1>2 DEF M!Listing
<1> HIDE DEF o
<1>4. p \in M!Listing /\ p.buyers = b
  BY <1>3 DEF M!Listing, M!Status
<1> HIDE DEF p, b
<1>5. /\ call' \in [Item -> {"new", "verifying", "sold", "failed"}]
      /\ call'[c] = "sold" /\ \A d \in Item \ {c} : call'[d] = call[d]
  BY <1>1 DEF MarketInv, M!TypeOK
<1>6. /\ \A n \in Actor \ {m} : M!Verifying(n)' = M!Verifying(n)
      /\ M!Verifying(m)' = M!Verifying(m) \ {c} /\ c \in M!Verifying(m)
  BY <1>0, <1>1, <1>5 DEF M!Verifying
<1>7. /\ listing' \in [Actor -> M!Listing] /\ listing'[m].buyers = b
      /\ \A n \in Actor \ {m} : listing'[n] = listing[n]
  BY <1>1, <1>2, <1>4
<1>8. M!TypeOK'
  <2>1. \A n \in Actor \ sellers : M!Verifying(n)' = {}
    BY <1>6 DEF MarketInv, M!TypeOK
  <2> QED BY <1>1, <1>5, <1>7, <2>1 DEF MarketInv, M!TypeOK
<1>9. ASSUME MaxSales # 0, ~crowded, NEW n \in Actor
      PROVE  /\ IsFiniteSet(listing'[n].buyers) /\ Cardinality(listing'[n].buyers) <= MaxSales
             /\ M!Verifying(n)' # {} => Cardinality(listing'[n].buyers) < MaxSales
             /\ \A d, e \in M!Verifying(n)' : d = e
  <2>1. /\ IsFiniteSet(listing[n].buyers) /\ Cardinality(listing[n].buyers) <= MaxSales
        /\ M!Verifying(n) # {} => Cardinality(listing[n].buyers) < MaxSales
        /\ \A d, e \in M!Verifying(n) : d = e
    BY <1>9 DEF MarketInv, SalesInv
  <2>2. CASE n # m
    BY <1>6, <1>7, <2>1, <2>2
  <2>3. CASE n = m
    <3>1. M!Verifying(m)' = {} /\ Cardinality(listing[m].buyers) < MaxSales
      BY <1>6, <2>1, <2>3
    <3>2. Cardinality(listing[m].buyers) \in Nat /\ MaxSales \in Nat
      BY <2>1, <2>3, FS_CardinalityType, ExchangesAssumption DEF M!MarketAssumption
    <3>3. IsFiniteSet(b) /\ Cardinality(b) \in Nat /\ Cardinality(b) <= Cardinality(listing[m].buyers) + 1
      <4>1. CASE c \in listing[m].buyers
        <5>1. b = listing[m].buyers
          BY <4>1 DEF b
        <5> QED BY <2>1, <2>3, <3>2, <5>1
      <4>2. CASE c \notin listing[m].buyers
        <5> DEFINE B == listing[m].buyers
        <5>1. IsFiniteSet(B) /\ c \notin B /\ b = B \cup {c} /\ Cardinality(B) \in Nat
          BY <2>1, <2>3, <3>2, <4>2 DEF b
        <5> HIDE DEF B
        <5>2. IsFiniteSet(b) /\ Cardinality(b) = Cardinality(B) + 1
          BY <5>1, FS_AddElement
        <5> QED BY <5>1, <5>2 DEF B
      <4> QED BY <4>1, <4>2
    <3> QED BY <1>7, <2>3, <3>1, <3>2, <3>3
  <2> QED BY <2>2, <2>3
<1>10. SalesInv'
  BY <1>1, <1>9 DEF SalesInv
<1> QED BY <1>8, <1>10 DEF MarketInv

LEMMA MarketNext == MarketInv /\ M!Next => MarketInv'
<1> SUFFICES ASSUME MarketInv, M!Next PROVE MarketInv'
  OBVIOUS
<1> QED BY MarketManagers, MarketOthers, MarketBegin, MarketPaid DEF M!Next

LEMMA MarketHolds == MarketInv => M!ProcessWithinLimit
<1> SUFFICES ASSUME MarketInv PROVE M!ProcessWithinLimit
  OBVIOUS
<1>1. sellers \subseteq Actor
  BY DEF MarketInv, M!TypeOK
<1> QED BY <1>1, SameMarketCount DEF M!ProcessWithinLimit, MarketInv, SalesInv

-----------------------------------------------------------------------------
(* SharedCache: orders *)

\* The entries and their files are the same while a process runs; the files are in the order
\* of the last uses, and fit.
CacheInv ==
  /\ K!TypeOK
  /\ cacheUp => cached = cacheFiles
  /\ cacheFiles \subseteq recent
  /\ K!TotalSize(K!Keys(cacheFiles)) <= CacheSize

LEMMA SameCacheCount ==
  ASSUME NEW U
  PROVE  K!IsFiniteSet(U) = IsFiniteSet(U) /\ K!Cardinality(U) = Cardinality(U)
<1>1. K!IsFiniteSet(U) = IsFiniteSet(U)
  BY Zenon DEF K!IsFiniteSet, IsFiniteSet
<1>2. K!Cardinality(U) = Cardinality(U)
  BY Zenon DEF K!Cardinality, Cardinality, K!IsFiniteSet, IsFiniteSet
<1> QED BY <1>1, <1>2

LEMMA KeysFinite == IsFiniteSet(Key) /\ CacheSize \in Nat /\ Size \in [Key -> Nat \ {0}]
BY SameCacheCount, ExchangesAssumption DEF K!SharedCacheAssumption

LEMMA OrderPairs ==
  ASSUME NEW o
  PROVE  K!Order(o) <=>
    /\ \A x \in o : \E j, k \in Key : x = <<j, k>> /\ <<j, j>> \in o /\ <<k, k>> \in o
    /\ \A j, k \in Key : <<j, j>> \in o /\ <<k, k>> \in o => <<j, k>> \in o \/ <<k, j>> \in o
    /\ \A j, k \in Key : <<j, k>> \in o /\ <<k, j>> \in o => j = k
    /\ \A i, j, k \in Key : <<i, j>> \in o /\ <<j, k>> \in o => <<i, k>> \in o
<1> DEFINE Pairs == \A x \in o : \E j, k \in Key : x = <<j, k>> /\ <<j, j>> \in o /\ <<k, k>> \in o
           Total == \A j, k \in Key : <<j, j>> \in o /\ <<k, k>> \in o => <<j, k>> \in o \/ <<k, j>> \in o
           Single == \A j, k \in Key : <<j, k>> \in o /\ <<k, j>> \in o => j = k
           Onward == \A i, j, k \in Key : <<i, j>> \in o /\ <<j, k>> \in o => <<i, k>> \in o
<1>1. Pairs <=> o \subseteq K!Keys(o) \X K!Keys(o)
  <2>1. ASSUME Pairs, NEW x \in o PROVE x \in K!Keys(o) \X K!Keys(o)
    <3>1. PICK j, k \in Key : x = <<j, k>> /\ <<j, j>> \in o /\ <<k, k>> \in o
      BY <2>1
    <3>2. j \in K!Keys(o) /\ k \in K!Keys(o)
      BY <3>1 DEF K!Keys
    <3> QED BY <3>1, <3>2
  <2>2. ASSUME o \subseteq K!Keys(o) \X K!Keys(o), NEW x \in o
        PROVE  \E j, k \in Key : x = <<j, k>> /\ <<j, j>> \in o /\ <<k, k>> \in o
    <3>1. PICK j \in K!Keys(o), k \in K!Keys(o) : x = <<j, k>>
      BY <2>2
    <3>2. j \in Key /\ k \in Key /\ <<j, j>> \in o /\ <<k, k>> \in o
      BY DEF K!Keys
    <3> QED BY <3>1, <3>2
  <2> QED BY <2>1, <2>2
<1>2. Pairs => \A j, k \in Key : <<j, k>> \in o => <<j, j>> \in o /\ <<k, k>> \in o
  OBVIOUS
<1>3. ASSUME Pairs
      PROVE  K!Order(o) <=> Total /\ Single /\ Onward
  <2>1. Total <=> \A j, k \in K!Keys(o) : <<j, k>> \in o \/ <<k, j>> \in o
    BY DEF K!Keys
  <2>2. Single <=> \A j, k \in K!Keys(o) : <<j, k>> \in o /\ <<k, j>> \in o => j = k
    <3> HIDE DEF Pairs
    <3> QED BY <1>2, <1>3 DEF K!Keys
  <2>3. Onward <=> \A j, k \in K!Keys(o) : <<j, k>> \in o => K!Since(o, k) \subseteq K!Since(o, j)
    <3> HIDE DEF Pairs
    <3> QED BY <1>2, <1>3 DEF K!Keys, K!Since
  <2> HIDE DEF Total, Single, Onward
  <2> QED BY <1>1, <1>3, <2>1, <2>2, <2>3 DEF K!Order
<1>4. K!Order(o) => Pairs
  BY <1>1 DEF K!Order
<1> HIDE DEF Pairs, Total, Single, Onward
<1>5. K!Order(o) <=> Pairs /\ Total /\ Single /\ Onward
  BY <1>3, <1>4
<1> QED BY <1>5 DEF Pairs, Total, Single, Onward

LEMMA OnlyOrder ==
  ASSUME NEW o, K!Order(o), NEW S
  PROVE  K!Order(K!Only(o, S)) /\ K!Keys(K!Only(o, S)) = K!Keys(o) \cap S
<1> DEFINE p == K!Only(o, S)
<1>1. \A j, k : <<j, k>> \in p <=> <<j, k>> \in o /\ j \in S /\ k \in S
  BY DEF K!Only
<1>2. p \subseteq o
  BY DEF K!Only
<1> HIDE DEF p
<1>3. /\ \A x \in o : \E j, k \in Key : x = <<j, k>> /\ <<j, j>> \in o /\ <<k, k>> \in o
      /\ \A j, k \in Key : <<j, j>> \in o /\ <<k, k>> \in o => <<j, k>> \in o \/ <<k, j>> \in o
      /\ \A j, k \in Key : <<j, k>> \in o /\ <<k, j>> \in o => j = k
      /\ \A i, j, k \in Key : <<i, j>> \in o /\ <<j, k>> \in o => <<i, k>> \in o
  BY OrderPairs
<1>4. ASSUME NEW x \in p PROVE \E j, k \in Key : x = <<j, k>> /\ <<j, j>> \in p /\ <<k, k>> \in p
  <2>1. PICK j, k \in Key : x = <<j, k>> /\ <<j, j>> \in o /\ <<k, k>> \in o
    BY <1>2, <1>3
  <2>2. <<j, k>> \in p
    BY <2>1
  <2>3. j \in S /\ k \in S
    BY <1>1, <2>2
  <2>4. <<j, j>> \in p /\ <<k, k>> \in p
    BY <1>1, <2>1, <2>3
  <2> QED BY <2>1, <2>4
<1>5. \A j, k \in Key : <<j, j>> \in p /\ <<k, k>> \in p => <<j, k>> \in p \/ <<k, j>> \in p
  BY <1>1, <1>3
<1>6. /\ \A j, k \in Key : <<j, k>> \in p /\ <<k, j>> \in p => j = k
      /\ \A i, j, k \in Key : <<i, j>> \in p /\ <<j, k>> \in p => <<i, k>> \in p
  BY <1>1, <1>3
<1>7. K!Order(p)
  BY <1>4, <1>5, <1>6, OrderPairs
<1>8. K!Keys(p) = K!Keys(o) \cap S
  BY <1>1 DEF K!Keys
<1> QED BY <1>7, <1>8 DEF p

LEMMA TouchedOrder ==
  ASSUME NEW o, K!Order(o), NEW k \in Key
  PROVE  /\ K!Order(K!Touched(o, k)) /\ K!Keys(K!Touched(o, k)) = K!Keys(o) \cup {k}
         /\ \A i, j : <<i, j>> \in K!Touched(o, k) <=>
              \/ <<i, j>> \in o /\ i # k /\ j # k
              \/ j = k /\ i \in K!Keys(o) \cup {k}
<1> DEFINE p == K!Touched(o, k)
<1>1. /\ \A x \in o : \E i, j \in Key : x = <<i, j>> /\ <<i, i>> \in o /\ <<j, j>> \in o
      /\ \A i, j \in Key : <<i, i>> \in o /\ <<j, j>> \in o => <<i, j>> \in o \/ <<j, i>> \in o
      /\ \A i, j \in Key : <<i, j>> \in o /\ <<j, i>> \in o => i = j
      /\ \A h, i, j \in Key : <<h, i>> \in o /\ <<i, j>> \in o => <<h, j>> \in o
  BY OrderPairs
<1>2. ASSUME NEW i, NEW j, <<i, j>> \in o
      PROVE  i \in Key /\ j \in Key /\ <<i, i>> \in o /\ <<j, j>> \in o
  <2>1. PICK g, h \in Key : <<i, j>> = <<g, h>> /\ <<g, g>> \in o /\ <<h, h>> \in o
    BY <1>1, <1>2
  <2>2. i = g /\ j = h
    BY <2>1
  <2> QED BY <2>1, <2>2
<1>3. \A i, j : <<i, j>> \in p <=> \/ <<i, j>> \in o /\ i # k /\ j # k
                                   \/ j = k /\ i \in K!Keys(o) \cup {k}
  BY <1>2 DEF K!Touched, K!Only
<1>4. \A x \in p : \E i, j : x = <<i, j>>
  BY <1>1 DEF K!Touched, K!Only
<1> HIDE DEF p
<1>5. \A i \in Key : <<i, i>> \in p <=> <<i, i>> \in o \/ i = k
  BY <1>3 DEF K!Keys
<1>6. \A i, j \in Key : <<i, j>> \in p <=> \/ <<i, j>> \in o /\ i # k /\ j # k
                                           \/ j = k /\ (<<i, i>> \in o \/ i = k)
  BY <1>3 DEF K!Keys
<1>7. ASSUME NEW x \in p PROVE \E i, j \in Key : x = <<i, j>> /\ <<i, i>> \in p /\ <<j, j>> \in p
  <2>1. PICK i, j : x = <<i, j>>
    BY <1>4
  <2>2. i \in Key /\ j \in Key
    <3>1. <<i, j>> \in p
      BY <2>1
    <3>2. (<<i, j>> \in o) \/ (j = k /\ i \in K!Keys(o) \cup {k})
      BY <1>3, <3>1
    <3>3. K!Keys(o) \subseteq Key
      BY DEF K!Keys
    <3> QED BY <1>2, <3>2, <3>3
  <2> QED BY <1>2, <1>5, <1>6, <2>1, <2>2
<1>8. \A i, j \in Key : <<i, i>> \in p /\ <<j, j>> \in p => <<i, j>> \in p \/ <<j, i>> \in p
  BY <1>1, <1>5, <1>6
<1>9. \A i, j \in Key : <<i, j>> \in p /\ <<j, i>> \in p => i = j
  BY <1>1, <1>6
<1>10. \A h, i, j \in Key : <<h, i>> \in p /\ <<i, j>> \in p => <<h, j>> \in p
  BY <1>1, <1>2, <1>6
<1>11. K!Order(p)
  BY <1>7, <1>8, <1>9, <1>10, OrderPairs
<1>12. K!Keys(p) = K!Keys(o) \cup {k}
  BY <1>5 DEF K!Keys
<1> QED BY <1>3, <1>11, <1>12 DEF p

\* More keys take at least as much room.
LEMMA RoomIsFinite == ASSUME NEW S \in SUBSET Key PROVE IsFiniteSet(K!Bytes(S))
<1> DEFINE Part(k) == {k} \X (1 .. Size[k])
           parts == {Part(k) : k \in S}
           f == [k \in S |-> Part(k)]
<1>1. IsFiniteSet(S)
  BY KeysFinite, FS_Subset
<1>2. \A k \in S : IsFiniteSet(Part(k))
  <2> SUFFICES ASSUME NEW k \in S PROVE IsFiniteSet(Part(k))
    OBVIOUS
  <2>1. IsFiniteSet({k})
    BY FS_Singleton
  <2>2. Size[k] \in Nat
    BY KeysFinite
  <2>3. IsFiniteSet(1 .. Size[k])
    BY <2>2, FS_Interval
  <2> QED BY <2>1, <2>3, FS_Product
<1> HIDE DEF Part
<1>3. f \in Surjection(S, parts)
  BY DEF Surjection
<1>4. IsFiniteSet(parts)
  <2> HIDE DEF f, parts
  <2> QED BY <1>1, <1>3, FS_Surjection
<1>5. \A U \in parts : IsFiniteSet(U)
  BY <1>2
<1>6. IsFiniteSet(UNION parts)
  <2> HIDE DEF parts
  <2> QED BY <1>4, <1>5, FS_UNION
<1> QED BY <1>6 DEF Part, K!Bytes

LEMMA MoreRoom ==
  ASSUME NEW S \in SUBSET Key, NEW U \in SUBSET S
  PROVE  K!TotalSize(U) \in Nat /\ K!TotalSize(S) \in Nat /\ K!TotalSize(U) <= K!TotalSize(S)
<1>1. IsFiniteSet(K!Bytes(S)) /\ IsFiniteSet(K!Bytes(U))
  BY RoomIsFinite
<1>2. K!Bytes(U) \subseteq K!Bytes(S)
  BY DEF K!Bytes
<1>3. Cardinality(K!Bytes(U)) <= Cardinality(K!Bytes(S))
  BY <1>1, <1>2, FS_Subset
<1>4. Cardinality(K!Bytes(U)) \in Nat /\ Cardinality(K!Bytes(S)) \in Nat
  BY <1>1, FS_CardinalityType
<1> QED BY <1>3, <1>4, SameCacheCount DEF K!TotalSize

\* Among some keys of an order, there is one that was used before all the others.
LEMMA OldestExists ==
  ASSUME NEW o, K!Order(o), NEW S \in SUBSET K!Keys(o), S # {}
  PROVE  \E m \in S : \A k \in S : <<m, k>> \in o
<1> DEFINE after(k) == K!Since(o, k)
           N == Cardinality(Key)
           D == {N - Cardinality(after(k)) : k \in S}
<1>1. /\ \A k \in Key : IsFiniteSet(after(k)) /\ Cardinality(after(k)) <= N
      /\ \A k \in Key : Cardinality(after(k)) \in Nat
  BY KeysFinite, FS_Subset, FS_CardinalityType DEF K!Since
<1>2. N \in Nat /\ S \subseteq Key
  BY KeysFinite, FS_CardinalityType DEF K!Keys
<1>3. D \in SUBSET Nat /\ D # {}
  BY <1>1, <1>2
<1>4. PICK n \in D : \A d \in D : n <= d
  <2> HIDE DEF D
  <2> QED BY <1>3, LeastExists
<1>5. PICK m \in S : n = N - Cardinality(after(m))
  OBVIOUS
<1>6. ASSUME NEW k \in S PROVE <<m, k>> \in o
  <2> SUFFICES ASSUME <<m, k>> \notin o PROVE FALSE
    OBVIOUS
  <2>1. <<k, m>> \in o
    BY DEF K!Order
  <2>2. after(m) \subseteq after(k)
    BY <2>1 DEF K!Order
  <2>3. k \in after(k) /\ k \notin after(m)
    BY <1>2 DEF K!Since, K!Keys
  <2>4. Cardinality(after(m)) < Cardinality(after(k))
    <3>1. after(m) # after(k) /\ IsFiniteSet(after(k)) /\ k \in Key /\ m \in Key
      BY <1>1, <1>2, <2>3
    <3> HIDE DEF after
    <3> QED BY <1>1, <2>2, <3>1, FS_Subset
  <2>5. N - Cardinality(after(k)) \in D
    OBVIOUS
  <2>6. n <= N - Cardinality(after(k))
    BY <1>4, <2>5
  <2> HIDE DEF D, N, after
  <2> QED BY <1>1, <1>2, <1>5, <2>4, <2>6
<1> QED BY <1>6

Fits(o) == {k \in K!Keys(o) : K!TotalSize(K!Since(o, k)) <= CacheSize}

\* What is removed was used before all that stays, and that fits.
LEMMA FittingFits ==
  ASSUME NEW o, K!Order(o)
  PROVE  /\ K!Fitting(o) = K!Only(o, Fits(o)) /\ K!Order(K!Fitting(o))
         /\ K!Keys(K!Fitting(o)) = Fits(o) /\ K!TotalSize(Fits(o)) <= CacheSize
         /\ \A x \in K!Keys(o) \ Fits(o), y \in Fits(o) : <<x, y>> \in o
<1>1. K!Fitting(o) = K!Only(o, Fits(o)) /\ Fits(o) \subseteq K!Keys(o)
  BY DEF K!Fitting, Fits
<1>2. K!Order(K!Fitting(o)) /\ K!Keys(K!Fitting(o)) = Fits(o)
  BY <1>1, OnlyOrder
<1>3. Fits(o) \subseteq Key
  BY <1>1 DEF K!Keys
<1>4. K!TotalSize(Fits(o)) <= CacheSize
  <2>1. CASE Fits(o) = {}
    <3>1. K!Bytes({}) = {}
      BY DEF K!Bytes
    <3>2. K!TotalSize({}) = 0
      BY <3>1, SameCacheCount, FS_EmptySet DEF K!TotalSize
    <3> QED BY <2>1, <3>2, KeysFinite
  <2>2. CASE Fits(o) # {}
    <3>1. PICK m \in Fits(o) : \A k \in Fits(o) : <<m, k>> \in o
      BY <1>1, <2>2, OldestExists
    <3>2. Fits(o) \subseteq K!Since(o, m) /\ K!Since(o, m) \subseteq Key
      BY <1>3, <3>1 DEF K!Since
    <3>3. K!TotalSize(K!Since(o, m)) <= CacheSize
      BY <3>1 DEF Fits
    <3>4. /\ K!TotalSize(Fits(o)) <= K!TotalSize(K!Since(o, m))
          /\ K!TotalSize(Fits(o)) \in Nat /\ K!TotalSize(K!Since(o, m)) \in Nat
      BY <3>2, MoreRoom
    <3> QED BY <3>3, <3>4, KeysFinite
  <2> QED BY <2>1, <2>2
<1>5. ASSUME NEW x \in K!Keys(o) \ Fits(o), NEW y \in Fits(o) PROVE <<x, y>> \in o
  <2> SUFFICES ASSUME <<x, y>> \notin o PROVE FALSE
    OBVIOUS
  <2>1. <<y, x>> \in o
    BY <1>1 DEF K!Order
  <2>2. K!Since(o, x) \subseteq K!Since(o, y) /\ K!Since(o, y) \subseteq Key
    BY <1>1, <2>1 DEF K!Order, K!Since
  <2>3. /\ K!TotalSize(K!Since(o, x)) <= K!TotalSize(K!Since(o, y))
        /\ K!TotalSize(K!Since(o, x)) \in Nat /\ K!TotalSize(K!Since(o, y)) \in Nat
    BY <2>2, MoreRoom
  <2>4. K!TotalSize(K!Since(o, y)) <= CacheSize /\ ~(K!TotalSize(K!Since(o, x)) <= CacheSize)
    BY DEF Fits
  <2> QED BY <2>3, <2>4, KeysFinite
<1> QED BY <1>1, <1>2, <1>4, <1>5

LEMMA MoreTouched ==
  ASSUME NEW o, NEW r, o \subseteq r, NEW k
  PROVE  K!Touched(o, k) \subseteq K!Touched(r, k)
<1>1. K!Keys(o) \subseteq K!Keys(r)
  BY DEF K!Keys
<1>2. K!Only(o, Key \ {k}) \subseteq K!Only(r, Key \ {k})
  BY DEF K!Only
<1>3. (K!Keys(o) \cup {k}) \X {k} \subseteq (K!Keys(r) \cup {k}) \X {k}
  BY <1>1
<1> QED BY <1>2, <1>3 DEF K!Touched

LEMMA NothingCached == K!Order({}) /\ K!Keys({}) = {} /\ K!TotalSize({}) = 0
<1>1. K!Keys({}) = {}
  BY DEF K!Keys
<1>2. K!Bytes({}) = {}
  BY DEF K!Bytes
<1>3. K!TotalSize({}) = 0
  BY <1>2, SameCacheCount, FS_EmptySet DEF K!TotalSize
<1> QED BY <1>1, <1>3 DEF K!Order

LEMMA CacheInit == K!Init => CacheInv
<1> SUFFICES ASSUME K!Init PROVE CacheInv
  OBVIOUS
<1>1. cached = {} /\ cacheFiles = {} /\ cacheTorn = {} /\ cacheUp = TRUE /\ recent = {}
  BY DEF K!Init
<1> QED BY <1>1, NothingCached, KeysFinite DEF CacheInv, K!TypeOK

\* After an entry is added, the entries and the files are what fits.
LEMMA CacheAdded ==
  ASSUME CacheInv, NEW k \in Key, K!Add(k)
  PROVE  \E X : /\ X = K!Touched(cacheFiles, k) /\ K!Order(X)
                /\ K!Keys(X) = K!Keys(cacheFiles) \cup {k} /\ X \subseteq recent'
                /\ cached' = cacheFiles' /\ cacheFiles' = K!Only(X, Fits(X))
                /\ K!Keys(cacheFiles') = Fits(X) /\ Fits(X) \subseteq K!Keys(X)
<1>1. K!Order(cacheFiles) /\ cached = cacheFiles /\ cacheFiles \subseteq recent
  BY DEF CacheInv, K!TypeOK, K!Add
<1>2. PICK X : X = K!Touched(cacheFiles, k)
  OBVIOUS
<1>3. K!Order(X) /\ K!Keys(X) = K!Keys(cacheFiles) \cup {k}
  BY <1>1, <1>2, TouchedOrder
<1>4. X \subseteq recent'
  BY <1>1, <1>2, MoreTouched DEF K!Add
<1>5. cached' = K!Only(X, Fits(X)) /\ K!Keys(cached') = Fits(X)
  BY <1>1, <1>2, <1>3, FittingFits DEF K!Add
<1>6. cacheFiles' = K!Only(X, K!Keys(cached'))
  BY <1>2 DEF K!Add
<1>7. Fits(X) \subseteq K!Keys(X)
  BY DEF Fits
<1> QED BY <1>2, <1>3, <1>4, <1>5, <1>6, <1>7

LEMMA CacheAdd == ASSUME CacheInv, NEW k \in Key, K!Add(k) PROVE CacheInv'
<1>1. PICK X : /\ X = K!Touched(cacheFiles, k) /\ K!Order(X)
               /\ K!Keys(X) = K!Keys(cacheFiles) \cup {k} /\ X \subseteq recent'
               /\ cached' = cacheFiles' /\ cacheFiles' = K!Only(X, Fits(X))
               /\ K!Keys(cacheFiles') = Fits(X) /\ Fits(X) \subseteq K!Keys(X)
  BY CacheAdded
<1>2. K!Order(cacheFiles') /\ K!TotalSize(K!Keys(cacheFiles')) <= CacheSize
  BY <1>1, OnlyOrder, FittingFits
<1>3. K!Order(recent')
  BY TouchedOrder DEF CacheInv, K!TypeOK, K!Add
<1>4. cacheTorn' = cacheTorn \ {k} /\ cacheUp' \in BOOLEAN
  BY DEF K!Add, CacheInv, K!TypeOK
<1>5. cacheTorn' \subseteq Key /\ K!Keys(cacheFiles') \cap cacheTorn' = {}
  BY <1>1, <1>4 DEF CacheInv, K!TypeOK
<1>6. cacheFiles' \subseteq recent'
  BY <1>1 DEF K!Only
<1>7. K!Order(cached')
  BY <1>1, <1>2
<1> QED BY <1>1, <1>2, <1>3, <1>4, <1>5, <1>6, <1>7 DEF CacheInv, K!TypeOK

LEMMA CacheNext == CacheInv /\ K!Next => CacheInv'
<1> SUFFICES ASSUME CacheInv, K!Next PROVE CacheInv'
  OBVIOUS
<1>1. /\ K!Order(cached) /\ K!Order(cacheFiles) /\ K!Order(recent)
      /\ cacheTorn \subseteq Key /\ K!Keys(cacheFiles) \cap cacheTorn = {} /\ cacheUp \in BOOLEAN
      /\ cacheUp => cached = cacheFiles
      /\ cacheFiles \subseteq recent /\ K!TotalSize(K!Keys(cacheFiles)) <= CacheSize
      /\ K!Keys(cacheFiles) \subseteq Key
  BY DEF CacheInv, K!TypeOK, K!Keys
<1>2. ASSUME NEW S \in SUBSET Key
      PROVE  /\ K!Order(K!Only(cacheFiles, S)) /\ K!Only(cacheFiles, S) \subseteq recent
             /\ K!Keys(K!Only(cacheFiles, S)) = K!Keys(cacheFiles) \cap S
             /\ K!TotalSize(K!Keys(K!Only(cacheFiles, S))) <= CacheSize
  <2>1. /\ K!Order(K!Only(cacheFiles, S))
        /\ K!Keys(K!Only(cacheFiles, S)) = K!Keys(cacheFiles) \cap S
    BY <1>1, OnlyOrder
  <2>2. K!Only(cacheFiles, S) \subseteq cacheFiles
    BY DEF K!Only
  <2>3. K!Keys(cacheFiles) \cap S \in SUBSET K!Keys(cacheFiles)
    OBVIOUS
  <2>4. /\ K!TotalSize(K!Keys(cacheFiles) \cap S) <= K!TotalSize(K!Keys(cacheFiles))
        /\ K!TotalSize(K!Keys(cacheFiles) \cap S) \in Nat /\ K!TotalSize(K!Keys(cacheFiles)) \in Nat
    BY <1>1, <2>3, MoreRoom
  <2> QED BY <1>1, <2>1, <2>2, <2>4, KeysFinite
<1>3. ASSUME NEW k \in Key, K!Add(k) PROVE CacheInv'
  BY <1>3, CacheAdd
<1>4. ASSUME NEW k \in Key, K!Get(k) PROVE CacheInv'
  <2>1. /\ cached' = K!Touched(cacheFiles, k) /\ cacheFiles' = K!Touched(cacheFiles, k)
        /\ recent' = K!Touched(recent, k) /\ k \in K!Keys(cacheFiles)
        /\ cacheTorn' = cacheTorn /\ cacheUp' = cacheUp
    BY <1>1, <1>4 DEF K!Get
  <2>2. K!Order(cacheFiles') /\ K!Order(recent') /\ K!Keys(cacheFiles') = K!Keys(cacheFiles)
    <3>1. /\ K!Order(K!Touched(cacheFiles, k))
          /\ K!Keys(K!Touched(cacheFiles, k)) = K!Keys(cacheFiles) \cup {k}
      BY <1>1, TouchedOrder
    <3>2. K!Order(K!Touched(recent, k))
      BY <1>1, TouchedOrder
    <3> QED BY <2>1, <3>1, <3>2
  <2>3. cacheFiles' \subseteq recent'
    BY <1>1, <2>1, MoreTouched
  <2>4. cached' = cacheFiles' /\ K!Order(cached')
    BY <2>1, <2>2
  <2> QED BY <1>1, <2>1, <2>2, <2>3, <2>4 DEF CacheInv, K!TypeOK
<1>5. ASSUME NEW gone \in SUBSET Key, K!Drop(gone) PROVE CacheInv'
  <2>1. PICK S \in SUBSET Key : S = Key \ gone
    OBVIOUS
  <2>2. /\ cached' = K!Only(cacheFiles, S) /\ cacheFiles' = K!Only(cacheFiles, S)
        /\ recent' = recent /\ cacheTorn' = cacheTorn /\ cacheUp' = cacheUp
    BY <1>1, <1>5, <2>1 DEF K!Drop
  <2>3. /\ K!Order(cacheFiles') /\ cacheFiles' \subseteq recent
        /\ K!Keys(cacheFiles') = K!Keys(cacheFiles) \cap S
        /\ K!TotalSize(K!Keys(cacheFiles')) <= CacheSize
    BY <1>2, <2>2
  <2>4. cached' = cacheFiles' /\ K!Order(cached')
    BY <2>2, <2>3
  <2> QED BY <1>1, <2>2, <2>3, <2>4 DEF CacheInv, K!TypeOK
<1>6. CASE K!Clear
  <2>1. cached' = {} /\ cacheFiles' = {} /\ cacheTorn' = {} /\ recent' = recent /\ cacheUp' = cacheUp
    BY <1>6 DEF K!Clear
  <2> QED BY <1>1, <2>1, NothingCached, KeysFinite DEF CacheInv, K!TypeOK
<1>7. CASE K!Die
  <2>1. cached' = {} /\ recent' = recent /\ cacheUp' = FALSE
    BY <1>7 DEF K!Die
  <2>2. CASE cacheFiles' = cacheFiles /\ cacheTorn' = cacheTorn
    BY <1>1, <2>1, <2>2, NothingCached DEF CacheInv, K!TypeOK
  <2>3. ASSUME NEW k \in Key,
               cacheFiles' = K!Only(cacheFiles, Key \ {k}) /\ cacheTorn' = cacheTorn \cup {k}
        PROVE  CacheInv'
    <3>1. PICK S \in SUBSET Key : S = Key \ {k}
      OBVIOUS
    <3>2. /\ K!Order(cacheFiles') /\ cacheFiles' \subseteq recent
          /\ K!Keys(cacheFiles') = K!Keys(cacheFiles) \cap S
          /\ K!TotalSize(K!Keys(cacheFiles')) <= CacheSize
      BY <1>2, <2>3, <3>1
    <3>3. cacheTorn' \subseteq Key /\ K!Keys(cacheFiles') \cap cacheTorn' = {}
      BY <1>1, <2>3, <3>1, <3>2
    <3> QED BY <1>1, <2>1, <3>2, <3>3, NothingCached DEF CacheInv, K!TypeOK
  <2> QED BY <1>7, <2>2, <2>3 DEF K!Die
<1>8. CASE K!Load
  <2>1. /\ cached' = cacheFiles /\ cacheFiles' = cacheFiles /\ cacheTorn' = cacheTorn
        /\ recent' = recent /\ cacheUp' = TRUE
    BY <1>8 DEF K!Load
  <2> QED BY <1>1, <2>1 DEF CacheInv, K!TypeOK
<1> QED BY <1>3, <1>4, <1>5, <1>6, <1>7, <1>8 DEF K!Next

LEMMA CacheHolds == CacheInv => K!WithinLimit /\ K!EvictsLeastRecentStep
<1> SUFFICES ASSUME CacheInv PROVE K!WithinLimit /\ K!EvictsLeastRecentStep
  OBVIOUS
<1>1. K!WithinLimit
  BY DEF CacheInv, K!WithinLimit
<1>2. ASSUME NEW k \in Key, K!Add(k),
             NEW x \in K!Keys(cacheFiles) \ K!Keys(cacheFiles'), NEW y \in K!Keys(cacheFiles')
      PROVE  <<x, y>> \in recent'
  <2>1. PICK X : /\ X = K!Touched(cacheFiles, k) /\ K!Order(X)
                 /\ K!Keys(X) = K!Keys(cacheFiles) \cup {k} /\ X \subseteq recent'
                 /\ cached' = cacheFiles' /\ cacheFiles' = K!Only(X, Fits(X))
                 /\ K!Keys(cacheFiles') = Fits(X) /\ Fits(X) \subseteq K!Keys(X)
    BY <1>2, CacheAdded
  <2>2. x \in K!Keys(X) \ Fits(X) /\ y \in Fits(X)
    BY <2>1
  <2> QED BY <2>1, <2>2, FittingFits
<1>3. K!EvictsLeastRecentStep
  BY <1>2 DEF K!EvictsLeastRecentStep
<1> QED BY <1>1, <1>3

-----------------------------------------------------------------------------
(* Collaboration *)

LEMMA SameSignatureCount ==
  ASSUME NEW S
  PROVE  C!IsFiniteSet(S) = IsFiniteSet(S) /\ C!Cardinality(S) = Cardinality(S)
<1>1. C!IsFiniteSet(S) = IsFiniteSet(S)
  BY Zenon DEF C!IsFiniteSet, IsFiniteSet
<1>2. C!Cardinality(S) = Cardinality(S)
  BY Zenon DEF C!Cardinality, Cardinality, C!IsFiniteSet, IsFiniteSet
<1> QED BY <1>1, <1>2

LEMMA ParticipantsFinite ==
  /\ IsFiniteSet(Item) /\ Item # {}
  /\ NoBlock # Torn /\ NoBlock \notin C!Block /\ Torn \notin C!Block
BY SameSignatureCount, ExchangesAssumption DEF C!CollaborationAssumption

\* In a block, complete means that all participants have signed it.
Agreed(b) ==
  C!IsBlock(b) =>
    /\ b.status = "complete" => b.signatures = Item
    /\ b.signatures = Item /\ b.rejections = {} => b.status = "complete"

LEMMA SignedBlock ==
  ASSUME NEW b \in C!Block, NEW p \in Item
  PROVE  /\ C!Signed(b, p) \in C!Block /\ Agreed(C!Signed(b, p))
         /\ C!Signed(b, p).signatures = b.signatures \cup {p}
<1> DEFINE signatures == b.signatures \cup {p}
           c == C!Signed(b, p)
<1>1. signatures \subseteq Item /\ b.rejections \subseteq Item /\ b.status \in C!Status
  BY DEF C!Block
<1>2. C!SignedStatus(signatures) = "complete" <=> signatures = Item
  <2>1. signatures # {}
    OBVIOUS
  <2> HIDE DEF signatures
  <2>2. Cardinality(signatures) \in Nat /\ Cardinality(Item) \in Nat
    BY <1>1, ParticipantsFinite, FS_Subset, FS_CardinalityType
  <2>3. signatures # Item => Cardinality(signatures) < Cardinality(Item)
    BY <1>1, <2>2, ParticipantsFinite, FS_Subset
  <2>4. Cardinality(signatures) < Cardinality(Item) <=> signatures # Item
    BY <2>2, <2>3
  <2>5. C!Cardinality(signatures) < C!Cardinality(Item) <=> signatures # Item
    BY <2>4, SameSignatureCount
  <2>6. CASE signatures = Item
    BY <2>1, <2>5, <2>6 DEF C!SignedStatus
  <2>7. CASE signatures # Item
    BY <2>1, <2>5, <2>7 DEF C!SignedStatus
  <2> QED BY <2>6, <2>7
<1>3. C!SignedStatus(signatures) \in C!Status
  <2> HIDE DEF signatures
  <2> QED BY DEF C!SignedStatus, C!Status
<1>4. /\ c.signatures = signatures /\ c.status = C!SignedStatus(signatures)
      /\ c \in C!Block
  BY <1>1, <1>3 DEF C!Signed, C!Block
<1> HIDE DEF c
<1>5. Agreed(c)
  BY <1>2, <1>4 DEF Agreed
<1> QED BY <1>4, <1>5 DEF c

LEMMA RejectedBlock ==
  ASSUME NEW b \in C!Block, NEW p \in Item
  PROVE  /\ C!Rejected(b, p) \in C!Block /\ Agreed(C!Rejected(b, p))
         /\ C!Rejected(b, p).signatures = b.signatures
<1> DEFINE c == C!Rejected(b, p)
<1>1. /\ c \in C!Block /\ c.signatures = b.signatures
      /\ c.rejections = b.rejections \cup {p} /\ c.status = "rejected"
  BY DEF C!Rejected, C!Block, C!Status
<1> HIDE DEF c
<1>2. Agreed(c)
  BY <1>1 DEF Agreed
<1> QED BY <1>1, <1>2 DEF c

LEMMA NewBlock == C!New \in C!Block /\ Agreed(C!New) /\ C!New.signatures = {}
BY ParticipantsFinite DEF C!New, C!Block, C!Status, Agreed

\* All blocks are agreed on, and the file has the signatures that were accepted.
CollaborationInv ==
  /\ blockFile \in C!Block \cup {NoBlock, Torn}
  /\ blockCopy \in [Actor -> C!Block \cup {NoBlock}]
  /\ blockOld \in BOOLEAN /\ signers \subseteq Item /\ blockSpoiled \in BOOLEAN
  /\ Agreed(blockFile) /\ \A m \in Actor : Agreed(blockCopy[m])
  /\ C!IsBlock(blockFile) /\ ~blockSpoiled => blockFile.signatures = signers

LEMMA CollaborationHolds ==
  CollaborationInv => C!TypeOK /\ C!CompleteWhenAllSigned /\ C!SignaturesKept
<1> SUFFICES ASSUME CollaborationInv PROVE C!TypeOK /\ C!CompleteWhenAllSigned /\ C!SignaturesKept
  OBVIOUS
<1>1. \A b \in {blockFile} \cup {blockCopy[m] : m \in Actor} : Agreed(b)
  BY DEF CollaborationInv
<1>2. C!CompleteWhenAllSigned
  BY <1>1 DEF C!CompleteWhenAllSigned, Agreed
<1> QED BY <1>2 DEF CollaborationInv, C!TypeOK, C!SignaturesKept

LEMMA CollaborationInit == C!Init => CollaborationInv
<1> SUFFICES ASSUME C!Init PROVE CollaborationInv
  OBVIOUS
<1>1. /\ blockFile = NoBlock /\ blockCopy = [m \in Actor |-> NoBlock]
      /\ blockOld = FALSE /\ signers = {} /\ blockSpoiled = FALSE
  BY DEF C!Init
<1>2. Agreed(NoBlock) /\ ~C!IsBlock(NoBlock)
  BY DEF Agreed, C!IsBlock
<1> QED BY <1>1, <1>2 DEF CollaborationInv

\* A save of an agreed block keeps the invariant, if its signatures are those accepted.
LEMMA CollaborationSaved ==
  ASSUME CollaborationInv, NEW m \in Actor, NEW b \in C!Block, C!Saved(m, b), Agreed(b),
         blockOld' \in BOOLEAN, signers' \subseteq Item,
         blockCopy[m] = blockFile /\ ~blockSpoiled => b.signatures = signers'
  PROVE  CollaborationInv'
<1>1. /\ blockFile \in C!Block \cup {NoBlock, Torn}
      /\ blockCopy \in [Actor -> C!Block \cup {NoBlock}] /\ blockSpoiled \in BOOLEAN
      /\ \A n \in Actor : Agreed(blockCopy[n])
  BY DEF CollaborationInv
<1>2. /\ blockFile' = b /\ blockCopy' = [blockCopy EXCEPT ![m] = b]
      /\ blockSpoiled' = (blockSpoiled \/ blockCopy[m] # blockFile)
  BY DEF C!Saved
<1>3. /\ blockCopy' \in [Actor -> C!Block \cup {NoBlock}]
      /\ \A n \in Actor : blockCopy'[n] = b \/ blockCopy'[n] = blockCopy[n]
  BY <1>1, <1>2
<1>4. \A n \in Actor : Agreed(blockCopy'[n])
  BY <1>1, <1>3
<1>5. Agreed(blockFile') /\ blockSpoiled' \in BOOLEAN
  BY <1>1, <1>2
<1>6. ~blockSpoiled' => blockFile'.signatures = signers'
  BY <1>1, <1>2
<1>7. blockFile' \in C!Block \cup {NoBlock, Torn}
  BY <1>2
<1>8. C!IsBlock(blockFile)' /\ ~blockSpoiled' => blockFile'.signatures = signers'
  BY <1>6
<1>9. Agreed(blockFile)' /\ \A n \in Actor : Agreed(blockCopy[n])'
  BY <1>4, <1>5 DEF Agreed, C!IsBlock
<1> QED BY <1>3, <1>5, <1>7, <1>8, <1>9 DEF CollaborationInv

\* A manager has no copy any more, or the copy that is in the file; the rest stays.
LEMMA CollaborationCopies ==
  ASSUME CollaborationInv, NEW m \in Actor, NEW b \in {blockFile, NoBlock},
         b \in C!Block \cup {NoBlock},
         blockCopy' = [blockCopy EXCEPT ![m] = b],
         blockFile' \in {blockFile, NoBlock, Torn}, blockSpoiled' \in BOOLEAN,
         blockSpoiled => blockSpoiled', blockOld' = blockOld, signers' = signers
  PROVE  CollaborationInv'
<1>1. /\ blockFile \in C!Block \cup {NoBlock, Torn}
      /\ blockCopy \in [Actor -> C!Block \cup {NoBlock}]
      /\ blockOld \in BOOLEAN /\ signers \subseteq Item /\ blockSpoiled \in BOOLEAN
      /\ Agreed(blockFile) /\ \A n \in Actor : Agreed(blockCopy[n])
      /\ C!IsBlock(blockFile) /\ ~blockSpoiled => blockFile.signatures = signers
  BY DEF CollaborationInv
<1>2. ~C!IsBlock(NoBlock) /\ ~C!IsBlock(Torn)
  BY DEF C!IsBlock
<1>3. Agreed(NoBlock) /\ Agreed(Torn)
  BY <1>2 DEF Agreed
<1>4. /\ blockCopy' \in [Actor -> C!Block \cup {NoBlock}]
      /\ \A n \in Actor : blockCopy'[n] = b \/ blockCopy'[n] = blockCopy[n]
  BY <1>1
<1>5. Agreed(b)
  BY <1>1, <1>3
<1>6. \A n \in Actor : Agreed(blockCopy'[n])
  BY <1>1, <1>4, <1>5
<1>7. Agreed(blockFile')
  BY <1>1, <1>3
<1>8. C!IsBlock(blockFile') /\ ~blockSpoiled' => blockFile'.signatures = signers'
  BY <1>1, <1>2
<1>9. /\ Agreed(blockFile)' /\ \A n \in Actor : Agreed(blockCopy[n])'
      /\ C!IsBlock(blockFile)' /\ ~blockSpoiled' => blockFile'.signatures = signers'
  BY <1>6, <1>7, <1>8 DEF Agreed, C!IsBlock
<1>10. blockFile' \in C!Block \cup {NoBlock, Torn}
  BY <1>1
<1> QED BY <1>1, <1>4, <1>9, <1>10 DEF CollaborationInv

LEMMA CollaborationNext == CollaborationInv /\ C!Next => CollaborationInv'
<1> SUFFICES ASSUME CollaborationInv, C!Next PROVE CollaborationInv'
  OBVIOUS
<1>1. /\ blockFile \in C!Block \cup {NoBlock, Torn}
      /\ blockCopy \in [Actor -> C!Block \cup {NoBlock}]
      /\ blockOld \in BOOLEAN /\ signers \subseteq Item /\ blockSpoiled \in BOOLEAN
      /\ Agreed(blockFile) /\ \A n \in Actor : Agreed(blockCopy[n])
      /\ C!IsBlock(blockFile) /\ ~blockSpoiled => blockFile.signatures = signers
  BY DEF CollaborationInv
<1>2. \A b \in C!Block : C!IsBlock(b)
  BY ParticipantsFinite DEF C!IsBlock
<1>3. CASE C!CreateUnsigned
  <2>1. /\ blockFile' = C!New /\ blockOld' = FALSE /\ signers' = {}
        /\ blockCopy' = blockCopy /\ blockSpoiled' = blockSpoiled
    BY <1>3 DEF C!CreateUnsigned
  <2>2. /\ Agreed(blockFile') /\ blockFile' \in C!Block /\ blockFile'.signatures = signers'
    BY <2>1, NewBlock
  <2>3. \A n \in Actor : Agreed(blockCopy'[n])
    BY <1>1, <2>1
  <2>4. Agreed(blockFile)' /\ \A n \in Actor : Agreed(blockCopy[n])'
    BY <2>2, <2>3 DEF Agreed, C!IsBlock
  <2> QED BY <1>1, <2>1, <2>2, <2>4 DEF CollaborationInv
<1>4. CASE C!Age
  <2>1. /\ blockFile' = blockFile /\ blockOld' = TRUE /\ signers' = signers
        /\ blockCopy' = blockCopy /\ blockSpoiled' = blockSpoiled
    BY <1>4 DEF C!Age
  <2>2. Agreed(blockFile') /\ \A n \in Actor : Agreed(blockCopy'[n])
    BY <1>1, <2>1
  <2>3. /\ Agreed(blockFile)' /\ \A n \in Actor : Agreed(blockCopy[n])'
        /\ C!IsBlock(blockFile)' /\ ~blockSpoiled' => blockFile'.signatures = signers'
    BY <1>1, <2>1, <2>2 DEF Agreed, C!IsBlock
  <2> QED BY <1>1, <2>1, <2>3 DEF CollaborationInv
<1>5. ASSUME NEW m \in Actor, NEW p \in Item, C!Create(m, p) PROVE CollaborationInv'
  <2>1. PICK b : b = C!Signed(C!New, p)
    OBVIOUS
  <2>2. b \in C!Block /\ Agreed(b) /\ b.signatures = {p}
    BY <2>1, NewBlock, SignedBlock
  <2>3. C!Saved(m, b) /\ signers' = {p} /\ blockOld' = FALSE
    BY <1>5, <2>1 DEF C!Create
  <2> QED BY <2>2, <2>3, CollaborationSaved
<1>6. ASSUME NEW m \in Actor, NEW p \in Item, C!Sign(m, p) PROVE CollaborationInv'
  <2>1. blockCopy[m] \in C!Block
    BY <1>1, <1>6 DEF C!Sign
  <2>2. PICK b : b = C!Signed(blockCopy[m], p)
    OBVIOUS
  <2>3. b \in C!Block /\ Agreed(b) /\ b.signatures = blockCopy[m].signatures \cup {p}
    BY <2>1, <2>2, SignedBlock
  <2>4. C!Saved(m, b) /\ signers' = signers \cup {p} /\ blockOld' = blockOld
    BY <1>6, <2>2 DEF C!Sign
  <2>5. blockCopy[m] = blockFile /\ ~blockSpoiled => b.signatures = signers'
    BY <1>1, <1>2, <2>1, <2>3, <2>4
  <2> QED BY <1>1, <2>3, <2>4, <2>5, CollaborationSaved
<1>7. ASSUME NEW m \in Actor, NEW p \in Item, C!Reject(m, p) PROVE CollaborationInv'
  <2>1. blockCopy[m] \in C!Block
    BY <1>1, <1>7 DEF C!Reject
  <2>2. PICK b : b = C!Rejected(blockCopy[m], p)
    OBVIOUS
  <2>3. b \in C!Block /\ Agreed(b) /\ b.signatures = blockCopy[m].signatures
    BY <2>1, <2>2, RejectedBlock
  <2>4. C!Saved(m, b) /\ signers' = signers /\ blockOld' = blockOld
    BY <1>7, <2>2 DEF C!Reject
  <2>5. blockCopy[m] = blockFile /\ ~blockSpoiled => b.signatures = signers'
    BY <1>1, <1>2, <2>1, <2>3, <2>4
  <2> QED BY <1>1, <2>3, <2>4, <2>5, CollaborationSaved
<1>8. ASSUME NEW m \in Actor, C!Load(m) PROVE CollaborationInv'
  <2>1. /\ blockFile \in C!Block /\ blockCopy' = [blockCopy EXCEPT ![m] = blockFile]
        /\ blockFile' = blockFile /\ blockOld' = blockOld /\ signers' = signers
        /\ blockSpoiled' = blockSpoiled
    BY <1>1, <1>8 DEF C!Load, C!IsBlock
  <2> QED BY <1>1, <2>1, CollaborationCopies
<1>9. ASSUME NEW m \in Actor, C!Die(m) PROVE CollaborationInv'
  <2>1. /\ blockCopy' = [blockCopy EXCEPT ![m] = NoBlock]
        /\ blockFile' \in {blockFile, Torn} /\ blockOld' = blockOld /\ signers' = signers
        /\ blockSpoiled' \in BOOLEAN /\ (blockSpoiled => blockSpoiled')
    <3>1. CASE C!Tear(m)
      BY <1>9, <3>1 DEF C!Die, C!Tear
    <3>2. CASE blockCopy' = [blockCopy EXCEPT ![m] = NoBlock] /\ UNCHANGED <<blockFile, blockSpoiled>>
      BY <1>1, <1>9, <3>2 DEF C!Die
    <3> QED BY <1>9, <3>1, <3>2 DEF C!Die
  <2> QED BY <2>1, CollaborationCopies
<1>10. ASSUME NEW m \in Actor, C!Cleanup(m) PROVE CollaborationInv'
  <2>1. /\ blockCopy' = [blockCopy EXCEPT ![m] = NoBlock] /\ blockFile' = NoBlock
        /\ blockOld' = blockOld /\ signers' = signers
        /\ blockSpoiled' \in BOOLEAN /\ (blockSpoiled => blockSpoiled')
    BY <1>1, <1>10 DEF C!Cleanup
  <2> QED BY <2>1, CollaborationCopies
<1> QED BY <1>3, <1>4, <1>5, <1>6, <1>7, <1>8, <1>9, <1>10 DEF C!Next

\* While nobody saves from another copy, a complete block only gets more signatures or
\* a rejection: the cleanup leaves it.
LEMMA CollaborationStays ==
  CollaborationInv /\ (C!Next \/ UNCHANGED collaborationVars) => C!CompletedStaysStep
<1> SUFFICES ASSUME CollaborationInv, C!Next \/ UNCHANGED collaborationVars,
                    C!IsBlock(blockFile), blockFile.status = "complete", ~blockSpoiled'
             PROVE  C!IsBlock(blockFile') /\ blockFile'.signatures = Item
  BY DEF C!CompletedStaysStep, C!IsBlock
<1>1. blockFile.signatures = Item /\ blockFile \in C!Block
  BY DEF CollaborationInv, Agreed, C!IsBlock
<1>2. \A b \in C!Block : C!IsBlock(b)
  BY ParticipantsFinite DEF C!IsBlock
<1>3. blockFile # NoBlock
  BY <1>1, ParticipantsFinite
<1>4. CASE blockFile' = blockFile
  BY <1>1, <1>4
<1>5. ASSUME NEW m \in Actor, NEW b \in C!Block, C!Saved(m, b),
             blockCopy[m] = blockFile => b.signatures = Item
      PROVE  C!IsBlock(blockFile') /\ blockFile'.signatures = Item
  BY <1>2, <1>5 DEF C!Saved
<1>6. ASSUME NEW m \in Actor, NEW p \in Item, C!Create(m, p) PROVE FALSE
  BY <1>3, <1>6 DEF C!Create
<1>7. ~C!CreateUnsigned
  BY <1>3 DEF C!CreateUnsigned
<1>8. ASSUME NEW m \in Actor, NEW p \in Item, C!Sign(m, p)
      PROVE  C!IsBlock(blockFile') /\ blockFile'.signatures = Item
  <2>1. blockCopy[m] \in C!Block
    BY <1>8 DEF C!Sign, CollaborationInv
  <2>2. PICK b : b = C!Signed(blockCopy[m], p)
    OBVIOUS
  <2>3. b \in C!Block /\ b.signatures = blockCopy[m].signatures \cup {p}
    BY <2>1, <2>2, SignedBlock
  <2>4. C!Saved(m, b) /\ (blockCopy[m] = blockFile => b.signatures = Item)
    BY <1>1, <1>8, <2>2, <2>3 DEF C!Sign
  <2> QED BY <1>5, <2>3, <2>4
<1>9. ASSUME NEW m \in Actor, NEW p \in Item, C!Reject(m, p)
      PROVE  C!IsBlock(blockFile') /\ blockFile'.signatures = Item
  <2>1. blockCopy[m] \in C!Block
    BY <1>9 DEF C!Reject, CollaborationInv
  <2>2. PICK b : b = C!Rejected(blockCopy[m], p)
    OBVIOUS
  <2>3. b \in C!Block /\ b.signatures = blockCopy[m].signatures
    BY <2>1, <2>2, RejectedBlock
  <2>4. C!Saved(m, b) /\ (blockCopy[m] = blockFile => b.signatures = Item)
    BY <1>1, <1>9, <2>2, <2>3 DEF C!Reject
  <2> QED BY <1>5, <2>3, <2>4
<1>10. ASSUME NEW m \in Actor, C!Load(m) \/ C!Die(m) PROVE blockFile' = blockFile
  BY <1>10 DEF C!Load, C!Die, C!Tear
<1>11. ASSUME NEW m \in Actor, C!Cleanup(m) PROVE FALSE
  <2>1. blockCopy[m] = blockFile
    BY <1>11 DEF C!Cleanup
  <2> QED BY <1>11, <2>1 DEF C!Cleanup, C!Removable
<1>12. C!Age \/ UNCHANGED collaborationVars => blockFile' = blockFile
  BY DEF C!Age, collaborationVars
<1> QED BY <1>4, <1>6, <1>7, <1>8, <1>9, <1>10, <1>11, <1>12 DEF C!Next

-----------------------------------------------------------------------------
(* Permissions *)

PermissionsTypes ==
  /\ permissionsFile \in P!Table \cup {Torn} /\ permissions \in [Actor -> P!Table]
  /\ permissionsUp \subseteq Actor
  /\ expired \subseteq given /\ given \subseteq Item /\ revoked \subseteq given
  /\ permissionsSpoiled \in BOOLEAN

Bounded(t) == t.granted \subseteq given /\ t.revoked \subseteq t.granted

\* All tables have only permissions that were created, and revoked only what they granted;
\* while every save was made from a table like the file, the file is true.
PermissionsInv ==
  /\ PermissionsTypes
  /\ ~permissionsSpoiled =>
       permissionsFile # Torn /\ P!Valid(permissionsFile) = (given \ revoked) \ expired
  /\ permissionsFile # Torn => Bounded(permissionsFile)
  /\ \A m \in Actor : Bounded(permissions[m])

LEMMA TornIsNoTable == Torn \notin P!Table
BY ExchangesAssumption DEF P!PermissionsAssumption

LEMMA PermissionsInit == P!Init => PermissionsInv
<1> SUFFICES ASSUME P!Init PROVE PermissionsInv
  OBVIOUS
<1>1. P!Empty \in P!Table /\ P!Empty.granted = {} /\ P!Empty.revoked = {}
  BY DEF P!Empty, P!Table
<1>2. P!Empty # Torn
  BY <1>1, TornIsNoTable
<1>3. PermissionsTypes
  BY <1>1 DEF P!Init, PermissionsTypes
<1>4. Bounded(permissionsFile) /\ \A m \in Actor : Bounded(permissions[m])
  BY <1>1 DEF P!Init, Bounded
<1>5. permissionsFile # Torn /\ P!Valid(permissionsFile) = (given \ revoked) \ expired
  BY <1>1, <1>2 DEF P!Init, P!Valid
<1> QED BY <1>3, <1>4, <1>5 DEF PermissionsInv

\* A save of a table: the invariant stays if the table is bounded and, when it is made from a
\* table like a true file, true.
LEMMA PermissionsSaved ==
  ASSUME PermissionsInv, NEW m \in permissionsUp, NEW t \in P!Table, P!Saved(m, t),
         permissionsUp' = permissionsUp, expired' = expired,
         given \subseteq given', given' \subseteq Item, revoked' \subseteq given',
         t.granted \subseteq given', t.revoked \subseteq t.granted,
         (P!Valid(permissions[m]) = (given \ revoked) \ expired) =>
           (t.granted \ t.revoked) \ expired = (given' \ revoked') \ expired
  PROVE  PermissionsInv'
<1>1. /\ PermissionsTypes
      /\ ~permissionsSpoiled => P!Valid(permissionsFile) = (given \ revoked) \ expired
      /\ \A n \in Actor : Bounded(permissions[n])
  BY DEF PermissionsInv
<1>2. /\ permissionsFile' = t /\ permissions' = [permissions EXCEPT ![m] = t]
      /\ permissionsSpoiled' = (permissionsSpoiled \/ permissions[m] # permissionsFile)
  BY DEF P!Saved
<1>3. m \in Actor /\ t # Torn
  BY <1>1, TornIsNoTable DEF PermissionsTypes
<1>4. PermissionsTypes'
  BY <1>1, <1>2, <1>3 DEF PermissionsTypes
<1>5. \A n \in Actor : permissions'[n] = t \/ permissions'[n] = permissions[n]
  BY <1>1, <1>2 DEF PermissionsTypes
<1>6. \A n \in Actor : Bounded(permissions[n])'
  BY <1>1, <1>5 DEF Bounded
<1>7. Bounded(permissionsFile)'
  BY <1>2 DEF Bounded
<1>8. ASSUME ~permissionsSpoiled'
      PROVE  permissionsFile' # Torn /\ P!Valid(permissionsFile)' = (given' \ revoked') \ expired'
  <2>1. ~permissionsSpoiled /\ permissions[m] = permissionsFile
    BY <1>1, <1>2, <1>8 DEF PermissionsTypes
  <2>2. (t.granted \ t.revoked) \ expired = (given' \ revoked') \ expired
    BY <1>1, <2>1
  <2> QED BY <1>2, <1>3, <2>2 DEF P!Valid
<1> QED BY <1>4, <1>6, <1>7, <1>8 DEF PermissionsInv

\* What the operations save, of the table t of a manager.
LEMMA GrantedTable ==
  ASSUME NEW t \in P!Table, NEW p \in Item
  PROVE  /\ [t EXCEPT !.granted = @ \cup {p}] \in P!Table
         /\ [t EXCEPT !.granted = @ \cup {p}].granted = t.granted \cup {p}
         /\ [t EXCEPT !.granted = @ \cup {p}].revoked = t.revoked
         /\ [t EXCEPT !.revoked = @ \cup {p}] \in P!Table
         /\ [t EXCEPT !.revoked = @ \cup {p}].granted = t.granted
         /\ [t EXCEPT !.revoked = @ \cup {p}].revoked = t.revoked \cup {p}
BY DEF P!Table

LEMMA CleanedTable ==
  ASSUME NEW t \in P!Table
  PROVE  /\ P!Cleaned(t) \in P!Table /\ P!Cleaned(t).granted \subseteq t.granted
         /\ P!Cleaned(t).revoked \subseteq P!Cleaned(t).granted
         /\ (P!Cleaned(t).granted \ P!Cleaned(t).revoked) \ expired
              = (t.granted \ t.revoked) \ expired
<1> DEFINE kept == P!Kept(t)
           c == P!Cleaned(t)
<1>1. c.granted = kept /\ c.revoked = t.revoked \cap kept
  BY DEF P!Cleaned
<1>2. kept = {p \in t.granted : p \notin expired \/ p \notin t.revoked}
  BY DEF P!Kept
<1>3. t.granted \subseteq Item /\ t.revoked \subseteq Item
  BY DEF P!Table
<1>4. c \in P!Table
  BY <1>2, <1>3 DEF P!Cleaned, P!Table
<1> HIDE DEF kept, c
<1>5. (c.granted \ c.revoked) \ expired = (t.granted \ t.revoked) \ expired
  BY <1>1, <1>2
<1> QED BY <1>1, <1>2, <1>4, <1>5 DEF c

LEMMA PermissionsNext == PermissionsInv /\ P!Next => PermissionsInv'
<1> SUFFICES ASSUME PermissionsInv, P!Next PROVE PermissionsInv'
  OBVIOUS
<1>1. /\ permissionsFile \in P!Table \cup {Torn} /\ permissions \in [Actor -> P!Table]
      /\ permissionsUp \subseteq Actor
      /\ expired \subseteq given /\ given \subseteq Item /\ revoked \subseteq given
      /\ permissionsSpoiled \in BOOLEAN
      /\ ~permissionsSpoiled =>
           permissionsFile # Torn /\ P!Valid(permissionsFile) = (given \ revoked) \ expired
      /\ permissionsFile # Torn => Bounded(permissionsFile)
      /\ \A m \in Actor : Bounded(permissions[m])
  BY DEF PermissionsInv, PermissionsTypes
<1>2. ASSUME NEW p \in Item, P!Expire(p) PROVE PermissionsInv'
  <2>1. /\ expired' = expired \cup {p} /\ p \in given
        /\ permissionsFile' = permissionsFile /\ permissions' = permissions
        /\ permissionsUp' = permissionsUp /\ given' = given /\ revoked' = revoked
        /\ permissionsSpoiled' = permissionsSpoiled
    BY <1>2 DEF P!Expire
  <2>2. PermissionsTypes'
    BY <1>1, <2>1 DEF PermissionsTypes
  <2>3. /\ permissionsFile' # Torn => Bounded(permissionsFile)'
        /\ \A m \in Actor : Bounded(permissions[m])'
    BY <1>1, <2>1 DEF Bounded
  <2>4. ~permissionsSpoiled' =>
          permissionsFile' # Torn /\ P!Valid(permissionsFile)' = (given' \ revoked') \ expired'
    BY <1>1, <2>1 DEF P!Valid
  <2> QED BY <2>2, <2>3, <2>4 DEF PermissionsInv
<1>3. ASSUME NEW m \in Actor, NEW p \in Item, P!Grant(m, p) PROVE PermissionsInv'
  <2>1. PICK t : t = [permissions[m] EXCEPT !.granted = @ \cup {p}]
    OBVIOUS
  <2>2. permissions[m] \in P!Table /\ Bounded(permissions[m])
    BY <1>1
  <2>3. /\ t \in P!Table /\ t.granted = permissions[m].granted \cup {p}
        /\ t.revoked = permissions[m].revoked
    BY <2>1, <2>2, GrantedTable
  <2>4. /\ P!Saved(m, t) /\ m \in permissionsUp /\ p \notin given
        /\ given' = given \cup {p} /\ permissionsUp' = permissionsUp
        /\ expired' = expired /\ revoked' = revoked
    BY <1>3, <2>1 DEF P!Grant
  <2>5. /\ t.granted \subseteq given' /\ t.revoked \subseteq t.granted
        /\ given \subseteq given' /\ given' \subseteq Item /\ revoked' \subseteq given'
    BY <1>1, <2>2, <2>3, <2>4 DEF Bounded
  <2>6. (P!Valid(permissions[m]) = (given \ revoked) \ expired) =>
          (t.granted \ t.revoked) \ expired = (given' \ revoked') \ expired
    <3>1. p \notin permissions[m].revoked /\ p \notin revoked /\ p \notin expired
      BY <1>1, <2>2, <2>4 DEF Bounded
    <3>2. (t.granted \ t.revoked) \ expired = P!Valid(permissions[m]) \cup {p}
      BY <2>3, <3>1 DEF P!Valid
    <3>3. (given' \ revoked') \ expired = ((given \ revoked) \ expired) \cup {p}
      BY <2>4, <3>1
    <3> QED BY <3>2, <3>3
  <2> QED BY <2>3, <2>4, <2>5, <2>6, PermissionsSaved
<1>4. ASSUME NEW m \in Actor, NEW p \in Item, P!Revoke(m, p) PROVE PermissionsInv'
  <2>1. PICK t : t = [permissions[m] EXCEPT !.revoked = @ \cup {p}]
    OBVIOUS
  <2>2. permissions[m] \in P!Table /\ Bounded(permissions[m])
    BY <1>1
  <2>3. /\ t \in P!Table /\ t.granted = permissions[m].granted
        /\ t.revoked = permissions[m].revoked \cup {p}
    BY <2>1, <2>2, GrantedTable
  <2>4. /\ P!Saved(m, t) /\ m \in permissionsUp /\ p \in permissions[m].granted
        /\ revoked' = revoked \cup {p} /\ permissionsUp' = permissionsUp
        /\ expired' = expired /\ given' = given
    BY <1>4, <2>1 DEF P!Revoke
  <2>5. /\ t.granted \subseteq given' /\ t.revoked \subseteq t.granted
        /\ given \subseteq given' /\ given' \subseteq Item /\ revoked' \subseteq given'
    BY <1>1, <2>2, <2>3, <2>4 DEF Bounded
  <2>6. (P!Valid(permissions[m]) = (given \ revoked) \ expired) =>
          (t.granted \ t.revoked) \ expired = (given' \ revoked') \ expired
    <3>1. (t.granted \ t.revoked) \ expired = P!Valid(permissions[m]) \ {p}
      BY <2>3 DEF P!Valid
    <3>2. (given' \ revoked') \ expired = ((given \ revoked) \ expired) \ {p}
      BY <2>4
    <3> QED BY <3>1, <3>2
  <2> QED BY <2>3, <2>4, <2>5, <2>6, PermissionsSaved
<1>5. ASSUME NEW m \in Actor, P!Cleanup(m) PROVE PermissionsInv'
  <2>1. PICK t : t = P!Cleaned(permissions[m])
    OBVIOUS
  <2>2. permissions[m] \in P!Table /\ Bounded(permissions[m])
    BY <1>1
  <2>3. /\ t \in P!Table /\ t.granted \subseteq permissions[m].granted
        /\ t.revoked \subseteq t.granted
        /\ (t.granted \ t.revoked) \ expired = P!Valid(permissions[m])
    BY <2>1, <2>2, CleanedTable DEF P!Valid
  <2>4. /\ P!Saved(m, t) /\ m \in permissionsUp /\ permissionsUp' = permissionsUp
        /\ expired' = expired /\ given' = given /\ revoked' = revoked
    BY <1>5, <2>1 DEF P!Cleanup
  <2>5. t.granted \subseteq given' /\ given' \subseteq Item /\ revoked' \subseteq given'
    BY <1>1, <2>2, <2>3, <2>4 DEF Bounded
  <2> QED BY <2>3, <2>4, <2>5, PermissionsSaved
<1>6. ASSUME NEW m \in Actor, P!Load(m) \/ P!Die(m) PROVE PermissionsInv'
  <2>1. P!Empty \in P!Table /\ Bounded(P!Empty)
    BY DEF P!Empty, P!Table, Bounded
  <2>2. /\ expired' = expired /\ given' = given /\ revoked' = revoked
        /\ permissionsUp' \subseteq Actor
        /\ (permissionsFile' = permissionsFile /\ permissionsSpoiled' = permissionsSpoiled)
             \/ (permissionsFile' = Torn /\ permissionsSpoiled' = TRUE)
    BY <1>1, <1>6 DEF P!Load, P!Die
  <2>3. PICK t \in P!Table : Bounded(t) /\ permissions' = [permissions EXCEPT ![m] = t]
    BY <1>1, <1>6, <2>1 DEF P!Load, P!Die
  <2>4. permissions' \in [Actor -> P!Table]
    BY <1>1, <2>3
  <2>5. \A n \in Actor : permissions'[n] = t \/ permissions'[n] = permissions[n]
    BY <1>1, <2>3
  <2>6. \A n \in Actor : Bounded(permissions[n])'
    BY <1>1, <2>2, <2>3, <2>5 DEF Bounded
  <2>7. PermissionsTypes'
    BY <1>1, <2>2, <2>4 DEF PermissionsTypes
  <2>8. permissionsFile' # Torn => Bounded(permissionsFile)'
    BY <1>1, <2>2 DEF Bounded
  <2>9. ~permissionsSpoiled' =>
          permissionsFile' # Torn /\ P!Valid(permissionsFile)' = (given' \ revoked') \ expired'
    BY <1>1, <2>2 DEF P!Valid
  <2> QED BY <2>6, <2>7, <2>8, <2>9 DEF PermissionsInv
<1> QED BY <1>2, <1>3, <1>4, <1>5, <1>6 DEF P!Next

LEMMA PermissionsHolds == PermissionsInv => P!TypeOK /\ P!FileIsTrue
BY DEF PermissionsInv, PermissionsTypes, Bounded, P!TypeOK, P!FileIsTrue

\* A revoked permission that the file comes to allow was allowed by the file, or by the
\* table that was saved.
LEMMA RevocationStays ==
  PermissionsInv /\ (P!Next \/ UNCHANGED permissionsVars) => P!RevocationFinalStep
<1> SUFFICES ASSUME PermissionsInv, P!Next \/ UNCHANGED permissionsVars,
                    NEW p \in revoked, p \in P!Valid(permissionsFile)',
                    permissionsFile # Torn, permissionsFile' # Torn
             PROVE  p \in P!Valid(permissionsFile) \/
                    \E m \in permissionsUp : p \in P!Valid(permissions[m])
  BY DEF P!RevocationFinalStep
<1>1. /\ permissions \in [Actor -> P!Table] /\ revoked \subseteq given
  BY DEF PermissionsInv, PermissionsTypes
<1>2. CASE permissionsFile' = permissionsFile /\ expired \subseteq expired'
  BY <1>2 DEF P!Valid
<1>3. ASSUME NEW q \in Item, P!Expire(q)
      PROVE  permissionsFile' = permissionsFile /\ expired \subseteq expired'
  BY <1>3 DEF P!Expire
<1>4. ASSUME NEW m \in Actor, P!Load(m) \/ P!Die(m)
      PROVE  permissionsFile' = permissionsFile /\ expired \subseteq expired'
  BY <1>4 DEF P!Load, P!Die
<1>5. UNCHANGED permissionsVars => permissionsFile' = permissionsFile /\ expired \subseteq expired'
  BY DEF permissionsVars
<1>6. ASSUME NEW m \in permissionsUp, NEW t, P!Saved(m, t), expired' = expired,
             p \in (t.granted \ t.revoked) \ expired => p \in P!Valid(permissions[m])
      PROVE  p \in P!Valid(permissions[m])
  BY <1>6 DEF P!Saved, P!Valid
<1>7. ASSUME NEW m \in Actor, NEW q \in Item, P!Grant(m, q)
      PROVE  \E n \in permissionsUp : p \in P!Valid(permissions[n])
  <2>1. PICK t : t = [permissions[m] EXCEPT !.granted = @ \cup {q}]
    OBVIOUS
  <2>2. t.granted = permissions[m].granted \cup {q} /\ t.revoked = permissions[m].revoked
    BY <1>1, <2>1, GrantedTable
  <2>3. P!Saved(m, t) /\ m \in permissionsUp /\ expired' = expired /\ q \notin given
    BY <1>7, <2>1 DEF P!Grant
  <2>4. p # q
    BY <1>1, <2>3
  <2>5. p \in (t.granted \ t.revoked) \ expired => p \in P!Valid(permissions[m])
    BY <2>2, <2>4 DEF P!Valid
  <2> QED BY <1>6, <2>3, <2>5
<1>8. ASSUME NEW m \in Actor, NEW q \in Item, P!Revoke(m, q)
      PROVE  \E n \in permissionsUp : p \in P!Valid(permissions[n])
  <2>1. PICK t : t = [permissions[m] EXCEPT !.revoked = @ \cup {q}]
    OBVIOUS
  <2>2. t.granted = permissions[m].granted /\ t.revoked = permissions[m].revoked \cup {q}
    BY <1>1, <2>1, GrantedTable
  <2>3. P!Saved(m, t) /\ m \in permissionsUp /\ expired' = expired
    BY <1>8, <2>1 DEF P!Revoke
  <2>4. p \in (t.granted \ t.revoked) \ expired => p \in P!Valid(permissions[m])
    BY <2>2 DEF P!Valid
  <2> QED BY <1>6, <2>3, <2>4
<1>9. ASSUME NEW m \in Actor, P!Cleanup(m)
      PROVE  \E n \in permissionsUp : p \in P!Valid(permissions[n])
  <2>1. PICK t : t = P!Cleaned(permissions[m])
    OBVIOUS
  <2>2. (t.granted \ t.revoked) \ expired = P!Valid(permissions[m])
    BY <1>1, <2>1, CleanedTable DEF P!Valid
  <2>3. P!Saved(m, t) /\ m \in permissionsUp /\ expired' = expired
    BY <1>9, <2>1 DEF P!Cleanup
  <2> QED BY <1>6, <2>2, <2>3
<1> QED BY <1>2, <1>3, <1>4, <1>5, <1>7, <1>8, <1>9 DEF P!Next

-----------------------------------------------------------------------------
(* The composition: one component takes steps, and all keep their invariants. *)

ExchangesInv ==
  /\ CollaborationInv /\ PermissionsInv /\ MarketInv /\ CacheInv
  /\ HandshakeInv /\ RateLimitsInv /\ TransferInv

LEMMA ExchangesInit == Init => ExchangesInv
BY CollaborationInit, PermissionsInit, MarketInit, CacheInit, HandshakeInit, RateInit,
   TransferInit DEF Init, ExchangesInv

\* A step of the composition is a step of one component, and leaves the others alone.
LEMMA ComponentSteps ==
  [Next]_vars =>
    /\ C!Next \/ UNCHANGED collaborationVars
    /\ P!Next \/ UNCHANGED permissionsVars
    /\ M!Next \/ UNCHANGED marketVars
    /\ K!Next \/ UNCHANGED cacheVars
    /\ H!Next \/ UNCHANGED handshakeVars
    /\ R!Next \/ UNCHANGED rateVars
    /\ T!Next \/ UNCHANGED transferVars
<1> SUFFICES ASSUME [Next]_vars
             PROVE  /\ C!Next \/ UNCHANGED collaborationVars
                    /\ P!Next \/ UNCHANGED permissionsVars
                    /\ M!Next \/ UNCHANGED marketVars
                    /\ K!Next \/ UNCHANGED cacheVars
                    /\ H!Next \/ UNCHANGED handshakeVars
                    /\ R!Next \/ UNCHANGED rateVars
                    /\ T!Next \/ UNCHANGED transferVars
  OBVIOUS
<1>1. CASE UNCHANGED vars
  <2>1. /\ collaborationVars' = collaborationVars /\ permissionsVars' = permissionsVars
        /\ marketVars' = marketVars /\ cacheVars' = cacheVars
        /\ handshakeVars' = handshakeVars /\ rateVars' = rateVars /\ transferVars' = transferVars
    BY <1>1 DEF vars
  <2> QED BY <2>1
<1>2. CASE Next
  BY <1>2 DEF Next
<1> QED BY <1>1, <1>2

LEMMA ExchangesNext == ExchangesInv /\ [Next]_vars => ExchangesInv'
<1> SUFFICES ASSUME ExchangesInv, [Next]_vars PROVE ExchangesInv'
  OBVIOUS
<1>1. UNCHANGED collaborationVars => CollaborationInv'
  BY DEF ExchangesInv, collaborationVars, CollaborationInv, Agreed, C!IsBlock
<1>2. UNCHANGED permissionsVars => PermissionsInv'
  BY DEF ExchangesInv, permissionsVars, PermissionsInv, PermissionsTypes, Bounded, P!Valid
<1>3. UNCHANGED marketVars => MarketInv'
  BY DEF ExchangesInv, marketVars, MarketInv, SalesInv, M!TypeOK, M!Verifying
<1>4. UNCHANGED cacheVars => CacheInv'
  <2> SUFFICES ASSUME UNCHANGED cacheVars PROVE CacheInv'
    OBVIOUS
  <2>1. /\ cached' = cached /\ cacheFiles' = cacheFiles /\ cacheTorn' = cacheTorn
        /\ cacheUp' = cacheUp /\ recent' = recent
    BY DEF cacheVars
  <2>2. /\ K!Order(cached') /\ K!Order(cacheFiles') /\ K!Order(recent')
        /\ K!Keys(cacheFiles') \cap cacheTorn' = {}
        /\ K!TotalSize(K!Keys(cacheFiles')) <= CacheSize
    BY <2>1 DEF ExchangesInv, CacheInv, K!TypeOK
  <2> QED BY <2>1, <2>2 DEF ExchangesInv, CacheInv, K!TypeOK
<1>5. UNCHANGED handshakeVars => HandshakeInv'
  BY DEF ExchangesInv, handshakeVars, HandshakeInv, NonceInv, QueueInv, QuotaInv, H!TypeOK
<1>6. UNCHANGED rateVars => RateLimitsInv'
  <2> SUFFICES ASSUME UNCHANGED rateVars PROVE RateLimitsInv'
    OBVIOUS
  <2>1. /\ clock' = clock /\ limiters' = limiters /\ requests' = requests
        /\ blocklist' = blocklist /\ active' = active /\ connection' = connection
        /\ allowed' = allowed /\ hurried' = hurried
    BY DEF rateVars
  <2>2. R!TypeOK' /\ RateInv'
    BY <2>1 DEF ExchangesInv, RateLimitsInv, R!TypeOK, RateInv
  <2>3. R!In("open")' = R!In("open") /\ R!In("allowed")' = R!In("allowed")
    BY <2>1 DEF R!In
  <2>4. Slots' = Slots /\ \A q \in Actor : Opened(q)' = Opened(q)
    BY <2>1, <2>3 DEF Slots, Opened
  <2>5. CountInv'
    BY <2>1, <2>3, <2>4 DEF ExchangesInv, RateLimitsInv, CountInv
  <2>6. RoomInv'
    BY <2>1, <2>3 DEF ExchangesInv, RateLimitsInv, RoomInv
  <2> QED BY <2>2, <2>5, <2>6 DEF RateLimitsInv
<1>7. UNCHANGED transferVars => TransferInv'
  BY DEF ExchangesInv, transferVars, TransferInv, T!TypeOK, CommandInv, WriterInv, DeleterInv,
         StepInv
<1> QED BY <1>1, <1>2, <1>3, <1>4, <1>5, <1>6, <1>7, ComponentSteps, CollaborationNext,
           PermissionsNext, MarketNext, CacheNext, HandshakeNext, RateNext, TransferNext
           DEF ExchangesInv

LEMMA ExchangesInvariant == Spec => []ExchangesInv
BY ExchangesInit, ExchangesNext, PTL DEF Spec

LEMMA SameHandshakeCount ==
  ASSUME NEW S
  PROVE  H!Cardinality(S) = Cardinality(S)
BY Zenon DEF H!Cardinality, Cardinality, H!IsFiniteSet, IsFiniteSet

LEMMA HandshakeHolds == HandshakeInv => H!AcceptedOnce /\ H!WithinQuota
<1> SUFFICES ASSUME HandshakeInv PROVE H!AcceptedOnce /\ H!WithinQuota
  OBVIOUS
<1>1. H!AcceptedOnce
  <2> SUFFICES ASSUME NEW r \in Request PROVE accepted[r] <= 1
    BY DEF H!AcceptedOnce
  <2> QED BY DEF HandshakeInv, NonceInv
<1>2. H!WithinQuota
  <2> SUFFICES ASSUME NEW s \in Sender, NEW i \in 1 .. Len(admitted[s])
               PROVE  Cardinality({j \in i .. Len(admitted[s]) :
                        admitted[s][j] <= admitted[s][i] + HandshakeWindow}) <= MaxHandshakes
    BY SameHandshakeCount DEF H!WithinQuota
  <2>1. admitted[s] \in Seq(Nat)
    <3>1. admitted[s] \in Seq(0 .. HandshakeTime)
      BY DEF HandshakeInv, H!TypeOK, H!Time
    <3> QED BY <3>1, TimesAreNumbers, Parameters
  <2>2. Windowed(history[s], admitted[s], now, HandshakeWindow, MaxHandshakes)
    BY DEF HandshakeInv, QuotaInv
  <2> QED BY <2>1, <2>2, WindowLimits, Parameters
<1> QED BY <1>1, <1>2

LEMMA SharedHolds ==
  ExchangesInv => C!CompleteWhenAllSigned /\ C!SignaturesKept /\ P!FileIsTrue
BY CollaborationHolds, PermissionsHolds DEF ExchangesInv

-----------------------------------------------------------------------------
(* Theorems *)

\* Every variable of the seven components keeps its type: the blocks, tables, listings,
\* orders of the cache, histories of requests and commands that their operations make are
\* well-formed, whatever the constants are.
THEOREM ExchangesTypes == Spec => []TypeOK
<1>1. ExchangesInv => TypeOK
  BY CollaborationHolds, PermissionsHolds
     DEF ExchangesInv, MarketInv, CacheInv, HandshakeInv, RateLimitsInv, TransferInv, TypeOK
<1> QED BY <1>1, ExchangesInvariant, PTL

\* However often, late and out of order a handshake request arrives, it makes at most one
\* session (validate_handshake, NonceManager): for any number of requests and senders, any
\* cleanup of the nonces, and any times for which nonces are kept longer than a request is
\* fresh.
THEOREM SessionsAreSingle == Spec => []AcceptedOnce
<1>1. ExchangesInv => AcceptedOnce
  BY HandshakeHolds DEF ExchangesInv, AcceptedOnce
<1> QED BY <1>1, ExchangesInvariant, PTL

\* The limits hold, for any limits and windows: of the sales of a process that verifies one
\* payment at a time (Market), of the size of the cache (_enforce_size_limit), of the requests
\* of a peer and the messages of a Qube in every window of time (RateLimiter), and of the
\* connections of a node that registers one before it allows the next.
THEOREM LimitsHold == Spec => []WithinLimits
<1>1. ExchangesInv => WithinLimits
  BY MarketHolds, CacheHolds, HandshakeHolds, RateHolds DEF ExchangesInv, WithinLimits
<1> QED BY <1>1, ExchangesInvariant, PTL

\* Someone who has the NFT of a Qube whose directory a transfer has deleted can have the
\* Qube, with every block that was there when the transfer began (transfer_qube,
\* prepare_transfer_wc, finalize_transfer_wc, import_from_wallet): for any number of Qubes,
\* commands, recipients and blocks.
THEOREM HandedOverHolds == Spec => []HandedOver
<1>1. ExchangesInv => HandedOver
  BY TransferHandsOver DEF ExchangesInv, HandedOver
<1> QED BY <1>1, ExchangesInvariant, PTL

\* What participants have signed and an owner has granted or revoked stays, and the cache
\* removes what was used before all that stays (add_signature, cleanup_old_sessions,
\* save_permissions, _enforce_size_limit): for any number of managers, participants,
\* permissions and entries.
THEOREM SharedIsKept == Spec => SharedKept
<1> DEFINE Step ==
      /\ component = "Collaboration" =>
           C!CompleteWhenAllSigned' /\ C!SignaturesKept' /\ C!CompletedStaysStep
      /\ component = "Permissions" => P!FileIsTrue' /\ P!RevocationFinalStep
      /\ component = "SharedCache" => K!EvictsLeastRecentStep
<1>1. ExchangesInv' => C!CompleteWhenAllSigned' /\ C!SignaturesKept' /\ P!FileIsTrue'
  BY SharedHolds, PTL
<1>2. ExchangesInv /\ ExchangesInv' /\ [Next]_vars => [Step]_vars
  <2> SUFFICES ASSUME ExchangesInv, ExchangesInv', [Next]_vars PROVE Step
    OBVIOUS
  <2>1. C!CompleteWhenAllSigned' /\ C!SignaturesKept' /\ P!FileIsTrue'
    BY <1>1
  <2>2. C!CompletedStaysStep /\ P!RevocationFinalStep /\ K!EvictsLeastRecentStep
    BY ComponentSteps, CollaborationStays, RevocationStays, CacheHolds DEF ExchangesInv
  <2> QED BY <2>1, <2>2
<1> QED BY <1>2, ExchangesInvariant, PTL DEF Spec, SharedKept

=============================================================================
