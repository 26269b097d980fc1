------------------------------ MODULE Transfer ------------------------------
(***************************************************************************)
(* Synchronising Qubes with IPFS and handing one over with its NFT.        *)
(*                                                                         *)
(* A command packs the blocks of a Qube, awaits the upload, and then       *)
(* writes the chain_sync record: where the package is, and its key, sealed *)
(* for one reader.  All Qubes have NFTs of the one official category, and  *)
(* the record is in the file of the category: there is one for all.  A     *)
(* transfer seals the record for the recipient, sends the NFT and deletes  *)
(* the directory of the Qube; through WalletConnect it is a command that   *)
(* prepares, the signature of the wallet, and a command that finalizes.    *)
(*                                                                         *)
(* Uploaded packages stay, and a record is written as a whole.             *)
(***************************************************************************)
EXTENDS Naturals

CONSTANTS
  Qube,
  Call,        \* commands, with their repetitions
  Recipient,
  Owner,
  NoRecord, NoCopy, NoCall,
  MaxBlocks    \* blocks that are anchored are bounded by it

Kind == {"sync",      \* by the user or periodically, with the password
         "auto",      \* after an anchor, without it
         "transfer", "prepare"}

Package == [qube : Qube, blocks : 0..MaxBlocks, key : BOOLEAN]

Step == {"upload", "build", "built", "signed", "over"}

Command == [kind : Kind, package : Package, to : Recipient, nft : Qube,
            begun : 0..MaxBlocks, step : Step]

Record == [package : Package, sealed : Recipient \cup {Owner}]

TransferAssumption ==
  /\ Owner \notin Recipient /\ MaxBlocks \in Nat
  /\ NoRecord \notin Record /\ NoCopy \notin Package /\ NoCall \notin Call \cup Command

VARIABLES
  blocks,   \* blocks[q]: how many permanent blocks the Qube has
  local,    \* Qubes whose directory is there
  holder,   \* holder[q]: who has the NFT of q
  record,   \* the chain_sync record of the category
  call,     \* call[c]: the command, its package and how far it has come
  copy,     \* copy[q]: what a recipient has imported
  \* History:
  writer,   \* the command that wrote the record last
  deleter   \* deleter[q]: the command that deleted the directory of q

vars == <<blocks, local, holder, record, call, copy, writer, deleter>>

TypeOK ==
  /\ blocks \in [Qube -> 0..MaxBlocks] /\ local \subseteq Qube
  /\ holder \in [Qube -> Recipient \cup {Owner}]
  /\ record \in Record \cup {NoRecord} /\ call \in [Call -> Command \cup {NoCall}]
  /\ copy \in [Qube -> Package \cup {NoCopy}]
  /\ writer \in Call \cup {NoCall} /\ deleter \in [Qube -> Call \cup {NoCall}]

Init ==
  /\ blocks = [q \in Qube |-> 0] /\ local = Qube
  /\ holder = [q \in Qube |-> Owner]
  /\ record = NoRecord /\ writer = NoCall
  /\ call = [c \in Call |-> NoCall]
  /\ copy = [q \in Qube |-> NoCopy]
  /\ deleter = [q \in Qube |-> NoCall]

At(c, step) == call[c] # NoCall /\ call[c].step = step
Moves(c, step) == call' = [call EXCEPT ![c].step = step]
Subject(c) == call[c].package.qube
Owned == {q \in Qube : holder[q] = Owner}

-----------------------------------------------------------------------------
Anchor(q) ==
  /\ q \in local /\ blocks[q] < MaxBlocks
  /\ blocks' = [blocks EXCEPT ![q] = @ + 1]
  /\ UNCHANGED <<local, holder, record, call, copy, writer, deleter>>

\* What create_chain_package packs: the private key only if it has the password.
Contents(q, kind) == [qube |-> q, blocks |-> blocks[q], key |-> kind = "sync"]

Begin(c, q, kind, to) ==
  /\ call[c] = NoCall /\ q \in local
  /\ call' = [call EXCEPT ![c] = [kind |-> kind, package |-> Contents(q, kind), to |-> to,
                                  nft |-> q, begun |-> blocks[q], step |-> "upload"]]
  /\ UNCHANGED <<blocks, local, holder, record, copy, writer, deleter>>

\* The upload or the building of the transaction fails, or the process ends.
Fail(c) ==
  /\ At(c, "upload") \/ At(c, "build")
  /\ Moves(c, "over")
  /\ UNCHANGED <<blocks, local, holder, record, copy, writer, deleter>>

\* update_chain_sync_metadata, and for a transfer update_encrypted_key_for_transfer.
Write(c, reader) ==
  /\ record' = [package |-> call[c].package, sealed |-> reader]
  /\ writer' = c

Synced(c) ==
  /\ At(c, "upload") /\ call[c].kind \in {"sync", "auto"}
  /\ Write(c, Owner) /\ Moves(c, "over")
  /\ UNCHANGED <<blocks, local, holder, copy, deleter>>

\* _send_nft takes the first NFT of the category that the wallet has.
Send(n, to) == n \in Owned /\ holder' = [holder EXCEPT ![n] = to]

Delete(c) ==
  /\ local' = local \ {Subject(c)}
  /\ deleter' = [deleter EXCEPT ![Subject(c)] = IF @ = NoCall THEN c ELSE @]

\* The rest of transfer_qube happens in one go.  The directory stays if it cannot be
\* deleted, or if the NFT was sent and the answer of the network did not arrive.
Transferred(c, n, deleted) ==
  /\ At(c, "upload") /\ call[c].kind = "transfer"
  /\ Write(c, call[c].to) /\ Send(n, call[c].to)
  /\ call' = [call EXCEPT ![c].step = "over", ![c].nft = n]
  /\ IF deleted THEN Delete(c) ELSE UNCHANGED <<local, deleter>>
  /\ UNCHANGED <<blocks, copy>>

\* Mutant of NotSent: the directory is deleted although nothing was sent.
NotSentButDeleted(c) ==
  /\ At(c, "upload") /\ call[c].kind = "transfer"
  /\ Write(c, call[c].to) /\ Moves(c, "over") /\ Delete(c)
  /\ UNCHANGED <<blocks, holder, copy>>

NotSent(c) ==
  /\ At(c, "upload") /\ call[c].kind = "transfer"
  /\ Write(c, call[c].to) /\ Moves(c, "over")
  /\ UNCHANGED <<blocks, local, holder, copy, deleter>>

\* prepare_transfer_wc seals the record and awaits the unsigned transaction, which
\* spends the first NFT of the category that the wallet has.
Sealed(c) ==
  /\ At(c, "upload") /\ call[c].kind = "prepare"
  /\ Write(c, call[c].to) /\ Moves(c, "build")
  /\ UNCHANGED <<blocks, local, holder, copy, deleter>>

Built(c, n) ==
  /\ At(c, "build") /\ n \in Owned
  /\ call' = [call EXCEPT ![c].step = "built", ![c].nft = n]
  /\ UNCHANGED <<blocks, local, holder, record, copy, writer, deleter>>

\* The GUI has the wallet sign and sends the transaction: an NFT is spent once.
Sign(c) ==
  /\ At(c, "built") /\ Send(call[c].nft, call[c].to)
  /\ Moves(c, "signed")
  /\ UNCHANGED <<blocks, local, record, copy, writer, deleter>>

\* finalize_transfer_wc, which looks at nothing but the file of the preparation.
Finalize(c) ==
  /\ At(c, "signed") /\ Delete(c) /\ Moves(c, "over")
  /\ UNCHANGED <<blocks, holder, record, copy, writer>>

\* import_from_wallet: a recipient with an NFT of the category reads the record.
Import(r) ==
  /\ \E n \in Qube : holder[n] = r
  /\ record # NoRecord /\ record.sealed = r
  /\ copy[record.package.qube] = NoCopy
  /\ copy' = [copy EXCEPT ![record.package.qube] = record.package]
  /\ UNCHANGED <<blocks, local, holder, record, call, writer, deleter>>

Next ==
  \/ \E q \in Qube : Anchor(q)
  \/ \E c \in Call :
       \/ \E q \in Qube, kind \in Kind, to \in Recipient : Begin(c, q, kind, to)
       \/ Fail(c) \/ Synced(c) \/ NotSent(c) \/ Sealed(c) \/ Sign(c) \/ Finalize(c)
       \/ \E n \in Qube : \/ \E deleted \in BOOLEAN : Transferred(c, n, deleted)
                          \/ Built(c, n)
  \/ \E r \in Recipient : Import(r)

Spec == Init /\ [][Next]_vars

-----------------------------------------------------------------------------
(* Properties *)

\* Someone who has the NFT of a Qube whose directory is deleted can have the Qube:
\* the record is for that Qube and sealed for the holder, with every block that was
\* there when the transfer began; unless another command has written the record after
\* that transfer did, or the NFT of another Qube was sent in its place.
HandedOver ==
  \A q \in Qube \ local :
    LET c == deleter[q] IN
    writer = c /\ call[c].nft = q =>
      /\ record.package.qube = q /\ record.package.blocks >= call[c].begun
      /\ holder[q] = record.sealed /\ holder[q] # Owner

=============================================================================
