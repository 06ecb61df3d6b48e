------------------------------- MODULE Peers -------------------------------
(***************************************************************************)
(* network.PeerManager, and the loops of network.PeerDiscovery that drive  *)
(* it: bootstrap dialling with backoff, health checks, peer exchange and   *)
(* pruning.                                                                *)
(*                                                                         *)
(* A peer has its own lock, and ConnectToPeer holds it while it dials; the *)
(* other operations on that peer wait.  A peer that is removed during the  *)
(* dial is an orphan: the dial ends on an object no map refers to.  Time   *)
(* is left out: a duration that the code compares may be over or not, and  *)
(* a ban may have run out, at any step.  The manager is the node's, which  *)
(* is created without a database, so Persist and LoadPeers do nothing.     *)
(***************************************************************************)
EXTENDS Integers, FiniteSets

CONSTANTS
    Ids,            \* PeerIDs
    Addrs,          \* addresses
    IdOf,           \* PeerIDFromBytes of an address
    BootstrapAddrs, \* NodeConfig.BootstrapPeers
    None,
    MaxScore,       \* 100, in the code: scores are kept in -100 .. 100
    BanBelow,       \* -20, in the code: a score below it bans
    PruneBelow,     \* -10, in the code
    SpamPenalty,    \* 10, in the code: a message over the rate limit
    DecodePenalty,  \* 2, in the code: a transaction that does not decode
    Gains,          \* what ReportSuccess adds for a message
    ScoreWord,      \* 2^32, the range of a score in a peer exchange message
    BaseBackoff,    \* backoffInterval
    MaxBackoff

PeerStates == {"disconnected", "connecting", "connected", "banned"}

Peer == [addr : Addrs, state : PeerStates, score : Int, conn : BOOLEAN]

ASSUME PeersAssumption ==
    /\ IdOf \in [Addrs -> Ids]
    /\ BootstrapAddrs \subseteq Addrs
    /\ None \notin Ids /\ None \notin Peer
    /\ MaxScore \in Nat /\ BanBelow \in Int /\ PruneBelow \in Int
    /\ -MaxScore < BanBelow /\ BanBelow < 0
    /\ SpamPenalty \in Nat /\ DecodePenalty \in Nat /\ Gains \subseteq Nat
    /\ ScoreWord \in Nat /\ MaxScore < ScoreWord
    /\ BaseBackoff \in Nat \ {0} /\ MaxBackoff \in Nat /\ BaseBackoff < MaxBackoff

VARIABLES
    peers,          \* PeerManager.peers: a record, or None
    peersByAddr,    \* PeerManager.peersByAddr: the ID of the peer, or None
    dialing,        \* the stored peers whose lock ConnectToPeer holds
    orphans,        \* the removed peers whose lock ConnectToPeer holds
    pingFailures,   \* PeerDiscovery.pingFailures, 0 when the map has no entry
    toRemove,       \* the IDs pruneDeadPeers found and has not removed yet
    boot,           \* the bootstrap addresses left in this round, the one being
                    \* dialled, and whether one was reached
    backoff         \* bootstrapLoop's delay

peerVars == <<peers, peersByAddr, dialing, orphans, pingFailures, toRemove,
              boot, backoff>>

Stored == {id \in Ids : peers[id] # None}

\* The peers an operation may change now: stored, and not locked by a dial.
Free == Stored \ dialing

GetPeersByState(s) == {id \in Stored : peers[id].state = s}

\* GetBestPeers as a set: fewer than the limit of 100 are known.
GetBestPeers == {id \in GetPeersByState("connected") : peers[id].score > 0}

PeersInit ==
    /\ peers = [id \in Ids |-> None]
    /\ peersByAddr = [a \in Addrs |-> None]
    /\ dialing = {} /\ orphans = {}
    /\ pingFailures = [id \in Ids |-> 0]
    /\ toRemove = {}
    /\ boot = [left |-> BootstrapAddrs, at |-> None, reached |-> FALSE]
    /\ backoff = BaseBackoff

(***************************************************************************)
(* PeerManager                                                             *)
(***************************************************************************)

\* The peer AddPeer returns for an ID and an address.
Found(id, addr) ==
    IF peers[id] # None THEN id
    ELSE IF peersByAddr[addr] # None THEN peersByAddr[addr] ELSE id

NewPeer(addr) == [addr |-> addr, state |-> "disconnected", score |-> 0, conn |-> FALSE]

\* The two maps after AddPeer.
AddedPeers(id, addr) ==
    IF Found(id, addr) = id /\ peers[id] = None
    THEN [peers EXCEPT ![id] = NewPeer(addr)] ELSE peers
AddedByAddr(id, addr) ==
    IF Found(id, addr) = id /\ peers[id] = None
    THEN [peersByAddr EXCEPT ![addr] = id] ELSE peersByAddr

AddPeer(id, addr) ==
    /\ peers' = AddedPeers(id, addr)
    /\ peersByAddr' = AddedByAddr(id, addr)
    /\ UNCHANGED <<dialing, orphans, pingFailures, toRemove, boot, backoff>>

\* RemovePeer takes the manager's lock only, so it does not wait for a dial.
RemovePeer(id) ==
    /\ peers[id] # None
    /\ peersByAddr' = [peersByAddr EXCEPT ![peers[id].addr] = None]
    /\ peers' = [peers EXCEPT ![id] = None]
    /\ dialing' = dialing \ {id}
    /\ orphans' = orphans \cup (dialing \cap {id})

\* ReportFailure bounds a score from below, ReportSuccess from above,
\* UpdateScore on both sides.
AtLeast(s) == IF s < -MaxScore THEN -MaxScore ELSE s
AtMost(s) == IF s > MaxScore THEN MaxScore ELSE s

\* Mutant of Banned: the connection stays.
BannedWithConn(p) == [p EXCEPT !.state = "banned"]

Banned(p) == [p EXCEPT !.state = "banned", !.conn = FALSE]

\* A peer after ReportFailure(id, severity): a ban is renewed.
Failed(p, severity) ==
    LET q == [p EXCEPT !.score = AtLeast(p.score - severity)]
    IN  IF q.score < BanBelow THEN Banned(q) ELSE q

\* A peer after ReportSuccess: gain is what the message type and the daily
\* limit on block messages leave.
Succeeded(p, gain) == [p EXCEPT !.score = AtMost(p.score + gain)]

\* A peer after UpdateScore(id, delta).
Updated(p, delta) ==
    LET q == [p EXCEPT !.score = AtLeast(AtMost(p.score + delta))]
    IN  IF q.score < BanBelow /\ q.state # "banned" THEN Banned(q) ELSE q

SetPeer(id, p) ==
    /\ peers' = [peers EXCEPT ![id] = p]
    /\ UNCHANGED <<peersByAddr, dialing, orphans, toRemove, boot, backoff>>

ReportFailure(id, severity) ==
    /\ id \in Free
    /\ SetPeer(id, Failed(peers[id], severity))
    /\ UNCHANGED pingFailures

ReportSuccess(id, gain) ==
    /\ id \in Free
    /\ SetPeer(id, Succeeded(peers[id], gain))
    /\ UNCHANGED pingFailures

UpdateScore(id, delta) ==
    /\ id \in Free
    /\ SetPeer(id, Updated(peers[id], delta))
    /\ UNCHANGED pingFailures

Ban(id) ==
    /\ id \in Free
    /\ SetPeer(id, Banned(peers[id]))
    /\ UNCHANGED pingFailures

\* DisconnectPeer does not look at the state: it also ends a ban.
Disconnected(p) == [p EXCEPT !.conn = FALSE, !.state = "disconnected"]

\* cleanupExpiredBans, for the bans in S that have run out.
CleanupExpiredBans(S) ==
    /\ dialing \cap GetPeersByState("banned") = {}
    /\ S # {} /\ S \subseteq GetPeersByState("banned")
    /\ peers' = [id \in Ids |-> IF id \in S THEN [peers[id] EXCEPT !.state = "disconnected"]
                                ELSE peers[id]]
    /\ UNCHANGED <<peersByAddr, dialing, orphans, pingFailures, toRemove, boot, backoff>>

(***************************************************************************)
(* PeerDiscovery                                                           *)
(***************************************************************************)

\* bootstrapLoop takes the next address and ConnectToPeer starts to dial it:
\* whatever the state of the peer, a ban included.
BootstrapDial(addr) ==
    LET id == Found(IdOf[addr], addr)
    IN  /\ boot.at = None /\ addr \in boot.left
        /\ id \notin dialing
        /\ peersByAddr' = AddedByAddr(IdOf[addr], addr)
        /\ peers' = [AddedPeers(IdOf[addr], addr) EXCEPT ![id].state = "connecting"]
        /\ dialing' = dialing \cup {id}
        /\ boot' = [boot EXCEPT !.left = @ \ {addr}, !.at = id]
        /\ UNCHANGED <<orphans, pingFailures, toRemove, backoff>>

\* The dial ends.  On a failure the peer keeps the connection it had.
BootstrapDialed(ok) ==
    /\ boot.at # None
    /\ boot' = [boot EXCEPT !.at = None, !.reached = @ \/ ok]
    /\ dialing' = dialing \ {boot.at}
    /\ orphans' = IF boot.at \in dialing THEN orphans ELSE orphans \ {boot.at}
    /\ peers' = IF boot.at \notin dialing THEN peers
                ELSE [peers EXCEPT ![boot.at].state = IF ok THEN "connected" ELSE "disconnected",
                                   ![boot.at].conn = @ \/ ok]
    /\ UNCHANGED <<peersByAddr, pingFailures, toRemove, backoff>>

\* The delay is compared with its maximum before it is doubled.
NextBackoff(b, reached) ==
    IF reached THEN BaseBackoff ELSE IF b < MaxBackoff THEN b * 2 ELSE b

\* The end of a round: the loop sleeps and starts over.
BootstrapRound ==
    /\ boot.at = None /\ boot.left = {}
    /\ backoff' = NextBackoff(backoff, boot.reached)
    /\ boot' = [left |-> BootstrapAddrs, at |-> None, reached |-> FALSE]
    /\ UNCHANGED <<peers, peersByAddr, dialing, orphans, pingFailures, toRemove>>

\* performHealthCheck and trackPingFailure for a peer whose ping cannot be
\* written: a failure is reported, and the third one disconnects.
PingFails(id) ==
    LET n == pingFailures[id] + 1
        p == Failed(peers[id], 1)
    IN  /\ id \in Free /\ peers[id].state = "connected" /\ peers[id].conn
        /\ SetPeer(id, IF n >= 3 THEN Disconnected(p) ELSE p)
        /\ pingFailures' = [pingFailures EXCEPT ![id] = IF n >= 3 THEN 0 ELSE n]

\* HandlePong and resetPingFailure.
HandlePong(id) ==
    /\ id \in Free
    /\ pingFailures' = [pingFailures EXCEPT ![id] = 0]
    /\ UNCHANGED <<peers, peersByAddr, dialing, orphans, toRemove, boot, backoff>>

\* pruneDeadPeers collects under the read lock the peers in S: any that were
\* not seen for a day, and bad ones that are disconnected.
PruneScan(S) ==
    /\ toRemove = {} /\ dialing = {}
    /\ S # {} /\ S \subseteq Stored
    /\ toRemove' = S
    /\ UNCHANGED <<peers, peersByAddr, dialing, orphans, pingFailures, boot, backoff>>

\* Then it removes them one by one, if they are still there.
PruneRemove(id) ==
    /\ id \in toRemove
    /\ toRemove' = toRemove \ {id}
    /\ \/ RemovePeer(id)
       \/ peers[id] = None /\ UNCHANGED <<peers, peersByAddr, dialing, orphans>>
    /\ UNCHANGED <<pingFailures, boot, backoff>>

\* What parsePeerInfo reads for a score that serializePeerInfo wrote: the
\* 32-bit word is not taken back to a signed number.
WireScore(s) == s % ScoreWord

\* performPEX and RequestPeerExchange: our best peers are sent to the best
\* peers; the write fails for those in F.
PerformPEX(F) ==
    /\ F # {} /\ F \subseteq {id \in GetBestPeers : peers[id].conn}
    /\ dialing \cap GetBestPeers = {}
    /\ peers' = [id \in Ids |-> IF id \in F THEN Failed(peers[id], 1) ELSE peers[id]]
    /\ UNCHANGED <<peersByAddr, dialing, orphans, pingFailures, toRemove, boot, backoff>>

\* HandlePeerExchange with one entry: the score of a known peer is replaced.
HandlePeerExchange(id, addr, score) ==
    LET known == Found(id, addr)
    IN  /\ known \notin dialing
        /\ peersByAddr' = AddedByAddr(id, addr)
        /\ peers' = [AddedPeers(id, addr) EXCEPT ![known].score = WireScore(score)]
        /\ UNCHANGED <<dialing, orphans, pingFailures, toRemove, boot, backoff>>

(***************************************************************************)
(* The specification                                                       *)
(***************************************************************************)

\* The steps of the discovery loops, and the calls that connection handlers and
\* message handlers make.
PeersNext ==
    \/ \E id \in Ids, a \in Addrs : AddPeer(id, a)
    \/ \E id \in Ids : ReportFailure(id, SpamPenalty) \/ ReportFailure(id, DecodePenalty)
    \/ \E id \in Ids, g \in Gains : ReportSuccess(id, g)
    \/ \E id \in Ids, d \in {-SpamPenalty} \cup Gains : UpdateScore(id, d)
    \/ \E id \in Ids : Ban(id) \/ PingFails(id) \/ HandlePong(id) \/ PruneRemove(id)
    \/ \E S \in SUBSET Ids : CleanupExpiredBans(S) \/ PruneScan(S) \/ PerformPEX(S)
    \/ \E a \in Addrs : BootstrapDial(a)
    \/ \E ok \in BOOLEAN : BootstrapDialed(ok)
    \/ BootstrapRound
    \/ \E id \in Ids, a \in Addrs, s \in {-1, 1} : HandlePeerExchange(id, a, s)

PeersSpec == PeersInit /\ [][PeersNext]_peerVars

(***************************************************************************)
(* Properties                                                              *)
(***************************************************************************)

\* A banned peer has no connection, however failure reports, bans, score
\* updates, disconnects, dials and peer exchange interleave (PeerManager).
BannedNotConnected ==
    \A id \in Stored : peers[id].state = "banned" => ~peers[id].conn

\* The address index and the peers agree: an entry leads to the stored peer with
\* that address, and every stored peer is indexed.  A stale entry would make
\* AddPeer hand out a peer nobody sees (AddPeer, RemovePeer).
IndexSound ==
    /\ \A a \in Addrs : peersByAddr[a] # None =>
            peersByAddr[a] \in Stored /\ peers[peersByAddr[a]].addr = a
    /\ \A id \in Stored : peersByAddr[peers[id].addr] = id

\* The bootstrap delay stays below twice its maximum (bootstrapLoop).
BackoffBounded == backoff < 2 * MaxBackoff
=============================================================================
