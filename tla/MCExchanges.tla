----------------------------- MODULE MCExchanges -----------------------------
(***************************************************************************)
(* Small instances of what a Qube exchanges with others: shared memories,  *)
(* with their permissions, market and cache; handshakes and the limits of  *)
(* a node; and the Qube itself, when it is handed over.  Each is checked   *)
(* alone: the component that runs is chosen at the beginning, the others   *)
(* stay in an initial state.                                               *)
(***************************************************************************)
EXTENDS Naturals, FiniteSets, Sequences, TLC

CONSTANTS
  Actor,   \* managers, Qubes
  Item,    \* participants, permissions, purchases, commands
  NoBlock, Torn, NoRecord, NoCopy, NoCall,
  \* Market:
  MaxSales,
  \* SharedCache:
  Key, Size, CacheSize,
  \* Handshake:
  Request, Sender, From, MaxMessageAge, ClockSkew, NonceAge, MaxNonces,
  MaxHandshakes, HandshakeWindow, HandshakeTime,
  \* RateLimits:
  Connection, MaxMessages, MessageWindow, MaxConnections, BlockTime, MessageTime,
  \* Transfer:
  Recipient, Owner, MaxBlocks

\* Two small memories, one that fills half of the cache, and one that does not fit.
Sizes == [k \in Key |-> CASE k = 3 -> 2 [] k = 4 -> 5 [] OTHER -> 1]

\* All requests of a handshake are of one peer.
OnePeer == [r \in Request |-> CHOOSE s \in Sender : TRUE]

VARIABLES
  component,  \* the component that runs
  \* Collaboration:
  blockFile, blockCopy, blockOld, signers, blockSpoiled,
  \* Permissions:
  permissionsFile, permissions, permissionsUp, expired, given, revoked, permissionsSpoiled,
  \* Market:
  listingFile, sellers, listing, listed, late, call, at, crowded,
  \* SharedCache:
  cached, cacheFiles, cacheTorn, cacheUp, recent,
  \* Handshake:
  now, stamp, sentRequests, nonces, nonceTable, queue, history, sessions, accepted, admitted,
  \* RateLimits:
  clock, limiters, requests, blocklist, active, connection, allowed, hurried,
  \* Transfer:
  blocks, local, holder, record, command, copy, writer, deleter

C == INSTANCE Collaboration WITH
       file <- blockFile, copy <- blockCopy, old <- blockOld, accepted <- signers,
       spoiled <- blockSpoiled, Manager <- Actor, Participant <- Item
P == INSTANCE Permissions WITH
       file <- permissionsFile, table <- permissions, up <- permissionsUp,
       spoiled <- permissionsSpoiled, Manager <- Actor, Permission <- Item
M == INSTANCE Market WITH
       file <- listingFile, up <- sellers, obj <- listing,
       Manager <- Actor, Call <- Item
K == INSTANCE SharedCache WITH
       table <- cached, files <- cacheFiles, torn <- cacheTorn, up <- cacheUp, MaxSize <- CacheSize
H == INSTANCE Handshake WITH
       sent <- sentRequests, table <- nonceTable,
       MaxRequests <- MaxHandshakes, Window <- HandshakeWindow, MaxTime <- HandshakeTime
R == INSTANCE RateLimits WITH
       now <- clock, crowded <- hurried, Qube <- Actor,
       MaxRequests <- MaxMessages, Window <- MessageWindow, MaxTime <- MessageTime
T == INSTANCE Transfer WITH
       call <- command, Qube <- Actor, Call <- Item

ASSUME ExchangesAssumption ==
  /\ C!CollaborationAssumption
  /\ P!PermissionsAssumption
  /\ M!MarketAssumption
  /\ K!SharedCacheAssumption
  /\ H!HandshakeAssumption
  /\ R!RateLimitsAssumption
  /\ T!TransferAssumption

collaborationVars == <<blockFile, blockCopy, blockOld, signers, blockSpoiled>>
permissionsVars == <<permissionsFile, permissions, permissionsUp, expired, given, revoked,
                     permissionsSpoiled>>
marketVars == <<listingFile, sellers, listing, listed, late, call, at, crowded>>
cacheVars == <<cached, cacheFiles, cacheTorn, cacheUp, recent>>
handshakeVars == <<now, stamp, sentRequests, nonces, nonceTable, queue, history, sessions,
                   accepted, admitted>>
rateVars == <<clock, limiters, requests, blocklist, active, connection, allowed, hurried>>
transferVars == <<blocks, local, holder, record, command, copy, writer, deleter>>
vars == <<component, collaborationVars, permissionsVars, marketVars, cacheVars,
          handshakeVars, rateVars, transferVars>>

Init ==
  /\ component \in {"Collaboration", "Permissions", "Market", "SharedCache",
                    "Handshake", "RateLimits", "Transfer"}
  /\ C!Init /\ P!Init /\ M!Init /\ K!Init /\ H!Init /\ R!Init /\ T!Init
  /\ component # "Market" => \A c \in Item : at[c] = CHOOSE m \in Actor : TRUE
  /\ component # "RateLimits" =>
       \A c \in Connection : connection[c].qube = CHOOSE q \in Actor : TRUE

Next ==
  /\ UNCHANGED component
  /\ \/ component = "Collaboration" /\ C!Next
        /\ UNCHANGED <<permissionsVars, marketVars, cacheVars,
                       handshakeVars, rateVars, transferVars>>
     \/ component = "Permissions" /\ P!Next
        /\ UNCHANGED <<collaborationVars, marketVars, cacheVars,
                       handshakeVars, rateVars, transferVars>>
     \/ component = "Market" /\ M!Next
        /\ UNCHANGED <<collaborationVars, permissionsVars, cacheVars,
                       handshakeVars, rateVars, transferVars>>
     \/ component = "SharedCache" /\ K!Next
        /\ UNCHANGED <<collaborationVars, permissionsVars, marketVars,
                       handshakeVars, rateVars, transferVars>>
     \/ component = "Handshake" /\ H!Next
        /\ UNCHANGED <<collaborationVars, permissionsVars, marketVars,
                       cacheVars, rateVars, transferVars>>
     \/ component = "RateLimits" /\ R!Next
        /\ UNCHANGED <<collaborationVars, permissionsVars, marketVars,
                       cacheVars, handshakeVars, transferVars>>
     \/ component = "Transfer" /\ T!Next
        /\ UNCHANGED <<collaborationVars, permissionsVars, marketVars,
                       cacheVars, handshakeVars, rateVars>>

Spec == Init /\ [][Next]_vars

Symmetry == Permutations(Item)

-----------------------------------------------------------------------------
(* The properties of the components *)

\* All variables have values of their types.
TypeOK ==
  /\ component = "Collaboration" => C!TypeOK
  /\ component = "Permissions" => P!TypeOK
  /\ component = "Market" => M!TypeOK
  /\ component = "SharedCache" => K!TypeOK
  /\ component = "Handshake" => H!TypeOK
  /\ component = "RateLimits" => R!TypeOK
  /\ component = "Transfer" => T!TypeOK

\* What participants have signed and an owner has granted or revoked stays, however
\* many managers come, go, clean up and die while writing, as long as each saves from
\* a copy like the file: a block has exactly the signatures that were accepted, is
\* complete when all have signed and then ends only by a rejection; a file allows
\* what was granted and not revoked, and only a manager that has not read a
\* revocation undoes it.  What the cache removes to make room was used before all
\* that stays, also if the last use was in an earlier process.
SharedKept ==
  [][ /\ component = "Collaboration" =>
           C!CompleteWhenAllSigned' /\ C!SignaturesKept' /\ C!CompletedStaysStep
      /\ component = "Permissions" => P!FileIsTrue' /\ P!RevocationFinalStep
      /\ component = "SharedCache" => K!EvictsLeastRecentStep ]_vars

\* A nonce that the table forgets, or that its cleanup drops, belongs to a request that
\* is too old by then: however often, late and out of order it arrives, a request
\* makes at most one session.
AcceptedOnce == component = "Handshake" => H!AcceptedOnce

\* Limits hold: the sales of a process that verifies one payment at a time, the size
\* of the cache, the requests of a peer and the messages of a Qube in every window of
\* time, the connections of a node that registers one before it allows the next;
\* although what they are counted by is evicted, cleaned up, blocked and made anew.
WithinLimits ==
  /\ component = "Market" => M!ProcessWithinLimit
  /\ component = "SharedCache" => K!WithinLimit
  /\ component = "Handshake" => H!WithinQuota
  /\ component = "RateLimits" => R!WithinRate /\ R!ConnectionsCounted

\* Someone who has the NFT of a Qube whose directory is deleted can have the Qube,
\* with every block that was there when the transfer began, however syncs, transfers
\* and imports of two Qubes overlap and fail; unless another command has written the
\* shared record after that transfer did, or the NFT of the other Qube was sent.
HandedOver == component = "Transfer" => T!HandedOver

=============================================================================
