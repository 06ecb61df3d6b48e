--------------------------- MODULE NetworkProofs ---------------------------
(***************************************************************************)
(* Proofs about the peer manager and the gossip engine, for any number of  *)
(* peers, addresses, penalties, hashes and any capacity of the seen set.   *)
(*                                                                         *)
(* The peer manager keeps its two maps in agreement and no connection to a *)
(* banned peer.  The three invariants are inductive once the maps are      *)
(* typed: every operation replaces one record without changing its address *)
(* (Replaces), or adds or removes a record together with its index entry.  *)
(*                                                                         *)
(* The seen set suppresses duplicates for exactly its capacity: it holds   *)
(* the last hashes that were marked, in their order (Recent).              *)
(***************************************************************************)
EXTENDS Peers, GossipEngine, TLAPS

-----------------------------------------------------------------------------
(* The peer manager.                                                       *)

MapsTyped ==
    /\ peers \in [Ids -> Peer \cup {None}]
    /\ peersByAddr \in [Addrs -> Ids \cup {None}]

PeersInv == MapsTyped /\ IndexSound /\ BannedNotConnected

\* What an operation may make of a record.
Fine(p) == p \in Peer /\ (p.state = "banned" => ~p.conn)

\* A record replaced by another with its address.
Replaces(id, p) ==
    /\ id \in Stored /\ Fine(p) /\ p.addr = peers[id].addr
    /\ peers' = [peers EXCEPT ![id] = p]
    /\ UNCHANGED peersByAddr

\* The stored records are records, and fine ones.
LEMMA StoredFine ==
    ASSUME PeersInv, NEW id \in Stored
    PROVE  id \in Ids /\ Fine(peers[id])
BY DEF PeersInv, MapsTyped, BannedNotConnected, Stored, Fine

LEMMA ReplaceKeeps ==
    ASSUME PeersInv, NEW id \in Ids, NEW p, Replaces(id, p)
    PROVE  PeersInv' /\ Stored' = Stored
<1>1. /\ id \in Stored /\ p \in Peer /\ p # None /\ p.addr = peers[id].addr
      /\ peers' = [peers EXCEPT ![id] = p] /\ peersByAddr' = peersByAddr
  BY PeersAssumption DEF Replaces, Fine
<1>2. MapsTyped'
  BY <1>1 DEF PeersInv, MapsTyped
<1>3. \A x \in Ids : peers'[x] = IF x = id THEN p ELSE peers[x]
  BY <1>1 DEF PeersInv, MapsTyped
<1>4. Stored' = Stored
  BY <1>1, <1>3 DEF Stored
<1>5. \A x \in Stored : peers'[x].addr = peers[x].addr
  BY <1>1, <1>3 DEF Stored
<1>6. IndexSound'
  BY <1>1, <1>4, <1>5 DEF PeersInv, IndexSound
<1>7. BannedNotConnected'
  BY <1>3, <1>4 DEF PeersInv, BannedNotConnected, Replaces, Fine, Stored
<1> QED  BY <1>2, <1>4, <1>6, <1>7 DEF PeersInv

\* Several records at once, each by one with its address.
LEMMA ReplaceManyKeeps ==
    ASSUME PeersInv, NEW S \in SUBSET Stored, NEW f,
           \A id \in S : Fine(f[id]) /\ f[id].addr = peers[id].addr,
           peers' = [id \in Ids |-> IF id \in S THEN f[id] ELSE peers[id]],
           UNCHANGED peersByAddr
    PROVE  PeersInv' /\ Stored' = Stored
<1>1. \A x \in Ids : peers'[x] = IF x \in S THEN f[x] ELSE peers[x]
  OBVIOUS
<1>2. \A x \in S : f[x] \in Peer /\ f[x] # None
  BY PeersAssumption DEF Fine
<1>3. MapsTyped'
  BY <1>2 DEF PeersInv, MapsTyped
<1>4. Stored' = Stored
  BY <1>1, <1>2 DEF Stored
<1>5. \A x \in Stored : peers'[x].addr = peers[x].addr
  BY <1>1 DEF Stored
<1>6. IndexSound'
  BY <1>4, <1>5 DEF PeersInv, IndexSound
<1>7. BannedNotConnected'
  BY <1>1, <1>4 DEF PeersInv, BannedNotConnected, Fine, Stored
<1> QED  BY <1>3, <1>4, <1>6, <1>7 DEF PeersInv

\* Operations on a record leave a fine record with the same address.
LEMMA OperationsFine ==
    ASSUME NEW p, Fine(p), NEW n \in Int
    PROVE  /\ Fine(Banned(p)) /\ Banned(p).addr = p.addr
           /\ Fine(Disconnected(p)) /\ Disconnected(p).addr = p.addr
           /\ Fine(Failed(p, n)) /\ Failed(p, n).addr = p.addr
           /\ Fine(Succeeded(p, n)) /\ Succeeded(p, n).addr = p.addr
           /\ Fine(Updated(p, n)) /\ Updated(p, n).addr = p.addr
<1>1. \A q : Fine(q) => /\ Fine(Banned(q)) /\ Banned(q).addr = q.addr
                        /\ Fine(Disconnected(q)) /\ Disconnected(q).addr = q.addr
  BY DEF Fine, Peer, PeerStates, Banned, Disconnected
<1>2. \A s \in Int : AtLeast(s) \in Int /\ AtMost(s) \in Int
  BY PeersAssumption DEF AtLeast, AtMost
<1>3. \A s \in Int : /\ Fine([p EXCEPT !.score = s])
                     /\ [p EXCEPT !.score = s].addr = p.addr
  BY DEF Fine, Peer
<1>4. p.score \in Int /\ p.score - n \in Int /\ p.score + n \in Int
  BY DEF Fine, Peer
<1>5. Fine(Failed(p, n)) /\ Failed(p, n).addr = p.addr
  BY <1>1, <1>2, <1>3, <1>4 DEF Failed
<1>6. Fine(Succeeded(p, n)) /\ Succeeded(p, n).addr = p.addr
  BY <1>2, <1>3, <1>4 DEF Succeeded
<1>7. Fine(Updated(p, n)) /\ Updated(p, n).addr = p.addr
  BY <1>1, <1>2, <1>3, <1>4 DEF Updated
<1> QED  BY <1>1, <1>5, <1>6, <1>7

\* AddPeer, and what is done next to the record it found or made: either the
\* record was stored, or neither the ID nor the address was known.
LEMMA AddKeeps ==
    ASSUME PeersInv, NEW id \in Ids, NEW a \in Addrs, NEW q, Fine(q),
           q.addr = AddedPeers(id, a)[Found(id, a)].addr,
           peersByAddr' = AddedByAddr(id, a),
           peers' = [AddedPeers(id, a) EXCEPT ![Found(id, a)] = q]
    PROVE  PeersInv' /\ Stored' = Stored \cup {Found(id, a)}
<1> DEFINE k == Found(id, a)
<1>1. CASE k = id /\ peers[id] = None
  <2>1. /\ peersByAddr' = [peersByAddr EXCEPT ![a] = id]
        /\ AddedPeers(id, a) = [peers EXCEPT ![id] = NewPeer(a)]
    BY <1>1 DEF AddedByAddr, AddedPeers
  <2>2. peersByAddr[a] = None
    BY <1>1, PeersAssumption DEF Found, PeersInv, IndexSound, Stored
  <2>3. q \in Peer /\ q # None /\ q.addr = a /\ peers' = [peers EXCEPT ![id] = q]
    <3>1. q \in Peer /\ q # None
      BY PeersAssumption DEF Fine
    <3>2. peers \in [Ids -> Peer \cup {None}] /\ Found(id, a) = id
      BY <1>1 DEF PeersInv, MapsTyped
    <3>3. q.addr = NewPeer(a).addr
      BY <2>1, <3>2
    <3>4. peers' = [[peers EXCEPT ![id] = NewPeer(a)] EXCEPT ![id] = q]
      BY <2>1, <3>2
    <3> QED  BY <3>1, <3>2, <3>3, <3>4 DEF NewPeer
  <2>4. \A x \in Ids : peers'[x] = IF x = id THEN q ELSE peers[x]
    BY <2>3 DEF PeersInv, MapsTyped
  <2>5. \A b \in Addrs : peersByAddr'[b] = IF b = a THEN id ELSE peersByAddr[b]
    BY <2>1 DEF PeersInv, MapsTyped
  <2>6. MapsTyped'
    <3>1. peers' \in [Ids -> Peer \cup {None}]
      BY <2>3 DEF PeersInv, MapsTyped
    <3>2. peersByAddr' \in [Addrs -> Ids \cup {None}]
      BY <2>1 DEF PeersInv, MapsTyped
    <3> QED  BY <3>1, <3>2 DEF MapsTyped
  <2>7. Stored' = Stored \cup {id}
    BY <2>3, <2>4 DEF Stored
  <2>8. \A x \in Stored : x \in Ids /\ x # id /\ peers[x].addr \in Addrs /\ peers[x].addr # a
    BY <1>1, <2>2, StoredFine, PeersAssumption DEF PeersInv, IndexSound, Stored, Fine, Peer
  <2>9. IndexSound'
    <3>1. \A b \in Addrs : peersByAddr'[b] # None =>
               peersByAddr'[b] \in Stored' /\ peers'[peersByAddr'[b]].addr = b
      BY <2>3, <2>4, <2>5, <2>7, <2>8 DEF PeersInv, IndexSound
    <3>2. \A x \in Stored' : peersByAddr'[peers'[x].addr] = x
      BY <2>3, <2>4, <2>5, <2>7, <2>8 DEF PeersInv, IndexSound
    <3> QED  BY <3>1, <3>2 DEF IndexSound
  <2>10. BannedNotConnected'
    BY <2>4, <2>7, <2>8 DEF PeersInv, BannedNotConnected, Fine
  <2> QED  BY <1>1, <2>6, <2>7, <2>9, <2>10 DEF PeersInv
<1>2. CASE ~(k = id /\ peers[id] = None)
  <2>1. AddedPeers(id, a) = peers /\ peersByAddr' = peersByAddr
    BY <1>2 DEF AddedPeers, AddedByAddr
  <2>2. k \in Stored /\ k \in Ids
    BY <1>2 DEF Found, PeersInv, MapsTyped, IndexSound, Stored
  <2>3. Replaces(k, q)
    BY <2>1, <2>2 DEF Replaces
  <2>4. PeersInv' /\ Stored' = Stored
    <3> HIDE DEF k
    <3> QED  BY <2>2, <2>3, ReplaceKeeps
  <2> QED  BY <2>2, <2>4
<1> QED  BY <1>1, <1>2

LEMMA RemoveKeeps ==
    ASSUME PeersInv, NEW id \in Ids, RemovePeer(id)
    PROVE  PeersInv' /\ Stored' = Stored \ {id}
<1>1. /\ id \in Stored /\ peers' = [peers EXCEPT ![id] = None]
      /\ peersByAddr' = [peersByAddr EXCEPT ![peers[id].addr] = None]
  BY DEF RemovePeer, Stored
<1>2. peers[id].addr \in Addrs
  BY <1>1, StoredFine DEF Fine, Peer
<1>3. MapsTyped'
  BY <1>1, <1>2 DEF PeersInv, MapsTyped
<1>4. \A x \in Ids : peers'[x] = IF x = id THEN None ELSE peers[x]
  BY <1>1 DEF PeersInv, MapsTyped
<1>5. \A b \in Addrs : peersByAddr'[b] = IF b = peers[id].addr THEN None ELSE peersByAddr[b]
  BY <1>1, <1>2 DEF PeersInv, MapsTyped
<1>6. Stored' = Stored \ {id}
  BY <1>4 DEF Stored
<1>7. \A x \in Stored : x \in Ids /\ peers[x].addr \in Addrs
  BY StoredFine DEF Fine, Peer
<1>8. IndexSound'
  <2>1. \A b \in Addrs : peersByAddr'[b] # None =>
             peersByAddr'[b] \in Stored' /\ peers'[peersByAddr'[b]].addr = b
    BY <1>1, <1>4, <1>5, <1>6, <1>7 DEF PeersInv, IndexSound
  <2>2. \A x \in Stored' : peersByAddr'[peers'[x].addr] = x
    BY <1>1, <1>4, <1>5, <1>6, <1>7 DEF PeersInv, IndexSound
  <2> QED  BY <2>1, <2>2 DEF IndexSound
<1>9. BannedNotConnected'
  BY <1>4, <1>6, <1>7 DEF PeersInv, BannedNotConnected
<1> QED  BY <1>3, <1>6, <1>8, <1>9 DEF PeersInv

\* The inductive invariant: a dial holds the lock of a stored peer.
PeersInductive == PeersInv /\ dialing \subseteq Stored

\* The steps that replace the record of one peer.
LEMMA SetPeerKeeps ==
    ASSUME PeersInductive, NEW id \in Stored, NEW p, Fine(p), p.addr = peers[id].addr,
           SetPeer(id, p)
    PROVE  PeersInductive'
<1>1. id \in Ids /\ Replaces(id, p) /\ dialing' = dialing
  BY DEF SetPeer, Replaces, Stored
<1> QED  BY <1>1, ReplaceKeeps DEF PeersInductive

LEMMA ReportKeeps ==
    ASSUME PeersInductive, NEW id \in Ids, NEW n \in Int,
           ReportFailure(id, n) \/ ReportSuccess(id, n) \/ UpdateScore(id, n) \/ Ban(id)
    PROVE  PeersInductive'
<1>1. id \in Stored
  BY DEF ReportFailure, ReportSuccess, UpdateScore, Ban, Free
<1>2. Fine(peers[id])
  BY <1>1, StoredFine DEF PeersInductive
<1>3. CASE ReportFailure(id, n)
  BY <1>1, <1>2, <1>3, OperationsFine, SetPeerKeeps DEF ReportFailure
<1>4. CASE ReportSuccess(id, n)
  BY <1>1, <1>2, <1>4, OperationsFine, SetPeerKeeps DEF ReportSuccess
<1>5. CASE UpdateScore(id, n)
  BY <1>1, <1>2, <1>5, OperationsFine, SetPeerKeeps DEF UpdateScore
<1>6. CASE Ban(id)
  BY <1>1, <1>2, <1>6, OperationsFine, SetPeerKeeps DEF Ban
<1> QED  BY <1>3, <1>4, <1>5, <1>6

LEMMA PingFailsKeeps ==
    ASSUME PeersInductive, NEW id \in Ids, PingFails(id)
    PROVE  PeersInductive'
<1>1. id \in Stored
  BY DEF PingFails, Free
<1>2. Fine(peers[id])
  BY <1>1, StoredFine DEF PeersInductive
<1> DEFINE p == Failed(peers[id], 1)
<1>3. Fine(p) /\ p.addr = peers[id].addr
  BY <1>2, OperationsFine
<1>4. Fine(Disconnected(p)) /\ Disconnected(p).addr = peers[id].addr
  <2> HIDE DEF p
  <2> QED  BY <1>3, OperationsFine
<1>5. SetPeer(id, p) \/ SetPeer(id, Disconnected(p))
  BY DEF PingFails
<1> HIDE DEF p
<1> QED  BY <1>1, <1>3, <1>4, <1>5, SetPeerKeeps

\* The record AddPeer found or made, and AddPeer itself.
LEMMA AddedFine ==
    ASSUME PeersInv, NEW id \in Ids, NEW a \in Addrs
    PROVE  /\ Found(id, a) \in Ids /\ Fine(AddedPeers(id, a)[Found(id, a)])
           /\ AddedPeers(id, a) = [AddedPeers(id, a) EXCEPT
                                     ![Found(id, a)] = AddedPeers(id, a)[Found(id, a)]]
           /\ AddedPeers(id, a) \in [Ids -> Peer \cup {None}]
<1>1. CASE Found(id, a) = id /\ peers[id] = None
  <2>1. AddedPeers(id, a) = [peers EXCEPT ![id] = NewPeer(a)]
    BY <1>1 DEF AddedPeers
  <2>2. Fine(NewPeer(a)) /\ NewPeer(a) \in Peer
    BY DEF Fine, NewPeer, Peer, PeerStates
  <2> QED  BY <1>1, <2>1, <2>2 DEF PeersInv, MapsTyped
<1>2. CASE ~(Found(id, a) = id /\ peers[id] = None)
  <2>1. AddedPeers(id, a) = peers
    BY <1>2 DEF AddedPeers
  <2>2. Found(id, a) \in Stored /\ Found(id, a) \in Ids
    BY <1>2 DEF Found, PeersInv, MapsTyped, IndexSound, Stored
  <2> QED  BY <2>1, <2>2, StoredFine DEF PeersInv, MapsTyped
<1> QED  BY <1>1, <1>2

LEMMA AddPeerKeeps ==
    ASSUME PeersInductive, NEW id \in Ids, NEW a \in Addrs, AddPeer(id, a)
    PROVE  PeersInductive'
<1>1. PeersInv /\ peers' = AddedPeers(id, a) /\ peersByAddr' = AddedByAddr(id, a) /\ dialing' = dialing
  BY DEF PeersInductive, AddPeer
<1>2. PeersInv' /\ Stored' = Stored \cup {Found(id, a)}
  BY <1>1, AddedFine, AddKeeps
<1> QED  BY <1>1, <1>2 DEF PeersInductive

LEMMA BootstrapDialKeeps ==
    ASSUME PeersInductive, NEW a \in Addrs, BootstrapDial(a)
    PROVE  PeersInductive'
<1> DEFINE id == IdOf[a]
           f == AddedPeers(id, a)
           k == Found(id, a)
           q == [f[k] EXCEPT !.state = "connecting"]
<1>1. id \in Ids /\ PeersInv
  BY PeersAssumption DEF PeersInductive
<1>2. k \in Ids /\ Fine(f[k]) /\ f \in [Ids -> Peer \cup {None}]
  BY <1>1, AddedFine
<1>3. Fine(q) /\ q.addr = f[k].addr
  <2> HIDE DEF f, k
  <2> QED  BY <1>2 DEF q, Fine, Peer, PeerStates
<1>4. /\ peersByAddr' = AddedByAddr(id, a) /\ dialing' = dialing \cup {k}
      /\ peers' = [f EXCEPT ![k] = q]
  BY DEF BootstrapDial
<1>5. PeersInv' /\ Stored' = Stored \cup {k}
  <2> HIDE DEF q
  <2> QED  BY <1>1, <1>3, <1>4, AddKeeps
<1> QED  BY <1>4, <1>5 DEF PeersInductive

LEMMA BootstrapDialedKeeps ==
    ASSUME PeersInductive, NEW ok \in BOOLEAN, BootstrapDialed(ok)
    PROVE  PeersInductive'
<1> DEFINE k == boot.at
           r == peers[k]
           q == [r EXCEPT !.state = IF ok THEN "connected" ELSE "disconnected",
                          !.conn = @ \/ ok]
<1>1. CASE k \notin dialing
  <2>1. UNCHANGED <<peers, peersByAddr>> /\ dialing' = dialing
    BY <1>1 DEF BootstrapDialed
  <2> QED  BY <2>1 DEF PeersInductive, PeersInv, MapsTyped, IndexSound,
                        BannedNotConnected, Stored
<1>2. CASE k \in dialing
  <2>1. k \in Stored /\ k \in Ids /\ Fine(r) /\ PeersInv
    BY <1>2, StoredFine DEF PeersInductive
  <2>2. Fine(q) /\ q.addr = r.addr
    <3> HIDE DEF r
    <3> QED  BY <2>1 DEF Fine, Peer, PeerStates
  <2>3. peers' = [peers EXCEPT ![k] = q] /\ peersByAddr' = peersByAddr
    BY <1>2, <2>1 DEF BootstrapDialed, PeersInv, MapsTyped
  <2>4. PeersInv' /\ Stored' = Stored
    <3> HIDE DEF k, q
    <3> QED  BY <2>1, <2>2, <2>3, ReplaceKeeps DEF Replaces
  <2>5. dialing' \subseteq dialing
    BY DEF BootstrapDialed
  <2> QED  BY <2>4, <2>5 DEF PeersInductive
<1> QED  BY <1>1, <1>2

LEMMA HandlePeerExchangeKeeps ==
    ASSUME PeersInductive, NEW id \in Ids, NEW a \in Addrs, NEW n \in {-1, 1},
           HandlePeerExchange(id, a, n)
    PROVE  PeersInductive'
<1> DEFINE f == AddedPeers(id, a)
           k == Found(id, a)
           q == [f[k] EXCEPT !.score = WireScore(n)]
<1>1. WireScore(n) \in Int
  BY PeersAssumption DEF WireScore
<1>2. k \in Ids /\ Fine(f[k]) /\ PeersInv
  BY AddedFine DEF PeersInductive
<1>3. Fine(q) /\ q.addr = f[k].addr
  <2> HIDE DEF f, k
  <2> QED  BY <1>1, <1>2 DEF q, Fine, Peer, PeerStates
<1>4. /\ peersByAddr' = AddedByAddr(id, a) /\ dialing' = dialing
      /\ peers' = [f EXCEPT ![k] = q]
  BY DEF HandlePeerExchange
<1>5. PeersInv' /\ Stored' = Stored \cup {k}
  <2> HIDE DEF q
  <2> QED  BY <1>2, <1>3, <1>4, AddKeeps
<1> QED  BY <1>4, <1>5 DEF PeersInductive

\* The loops that go over several peers.
LEMMA LoopsKeep ==
    ASSUME PeersInductive, NEW S \in SUBSET Ids, CleanupExpiredBans(S) \/ PerformPEX(S)
    PROVE  PeersInductive'
<1>1. PeersInv /\ S \subseteq Stored /\ UNCHANGED <<peersByAddr, dialing>>
  BY DEF PeersInductive, CleanupExpiredBans, PerformPEX, GetPeersByState, GetBestPeers
<1>2. \A id \in S : Fine(peers[id])
  BY <1>1, StoredFine
<1>3. CASE CleanupExpiredBans(S)
  <2> DEFINE f == [id \in S |-> [peers[id] EXCEPT !.state = "disconnected"]]
  <2>1. \A id \in S : Fine(f[id]) /\ f[id].addr = peers[id].addr
    BY <1>2 DEF Fine, Peer, PeerStates
  <2>2. peers' = [id \in Ids |-> IF id \in S THEN f[id] ELSE peers[id]]
    BY <1>3 DEF CleanupExpiredBans
  <2> HIDE DEF f
  <2> QED  BY <1>1, <2>1, <2>2, ReplaceManyKeeps DEF PeersInductive
<1>4. CASE PerformPEX(S)
  <2> DEFINE f == [id \in S |-> Failed(peers[id], 1)]
  <2>1. \A id \in S : Fine(f[id]) /\ f[id].addr = peers[id].addr
    BY <1>2, OperationsFine
  <2>2. peers' = [id \in Ids |-> IF id \in S THEN f[id] ELSE peers[id]]
    BY <1>4 DEF PerformPEX
  <2> HIDE DEF f
  <2> QED  BY <1>1, <2>1, <2>2, ReplaceManyKeeps DEF PeersInductive
<1> QED  BY <1>3, <1>4

\* PruneRemove: the peer is removed, or it was removed before.
LEMMA PruneRemoveKeeps ==
    ASSUME PeersInductive, NEW id \in Ids, PruneRemove(id)
    PROVE  PeersInductive'
<1>1. CASE RemovePeer(id)
  <2>1. PeersInv' /\ Stored' = Stored \ {id}
    BY <1>1, RemoveKeeps DEF PeersInductive
  <2>2. dialing' = dialing \ {id}
    BY <1>1 DEF RemovePeer
  <2> QED  BY <2>1, <2>2 DEF PeersInductive
<1>2. CASE UNCHANGED <<peers, peersByAddr, dialing, orphans>>
  BY <1>2 DEF PeersInductive, PeersInv, MapsTyped, IndexSound, BannedNotConnected, Stored
<1> QED  BY <1>1, <1>2 DEF PruneRemove

\* Every step keeps the maps in agreement and the banned peers disconnected.
LEMMA PeersStep ==
    ASSUME PeersInductive, [PeersNext]_peerVars
    PROVE  PeersInductive'
<1>1. CASE UNCHANGED <<peers, peersByAddr, dialing>>
  BY <1>1 DEF PeersInductive, PeersInv, MapsTyped, IndexSound, BannedNotConnected, Stored
<1>2. ASSUME NEW id \in Ids, NEW a \in Addrs, AddPeer(id, a)
      PROVE  PeersInductive'
  BY <1>2, AddPeerKeeps
<1>3. ASSUME NEW id \in Ids, NEW n \in Int,
             ReportFailure(id, n) \/ ReportSuccess(id, n) \/ UpdateScore(id, n) \/ Ban(id)
      PROVE  PeersInductive'
  BY <1>3, ReportKeeps
<1>4. ASSUME NEW id \in Ids, PingFails(id) \/ PruneRemove(id)
      PROVE  PeersInductive'
  BY <1>4, PingFailsKeeps, PruneRemoveKeeps
<1>5. ASSUME NEW S \in SUBSET Ids, CleanupExpiredBans(S) \/ PerformPEX(S)
      PROVE  PeersInductive'
  BY <1>5, LoopsKeep
<1>6. ASSUME NEW a \in Addrs, BootstrapDial(a)
      PROVE  PeersInductive'
  BY <1>6, BootstrapDialKeeps
<1>7. ASSUME NEW ok \in BOOLEAN, BootstrapDialed(ok)
      PROVE  PeersInductive'
  BY <1>7, BootstrapDialedKeeps
<1>8. ASSUME NEW id \in Ids, NEW a \in Addrs, NEW n \in {-1, 1},
             HandlePeerExchange(id, a, n)
      PROVE  PeersInductive'
  BY <1>8, HandlePeerExchangeKeeps
<1>9. SpamPenalty \in Int /\ DecodePenalty \in Int /\ -SpamPenalty \in Int /\ Gains \subseteq Int
  BY PeersAssumption
<1>10. CASE UNCHANGED peerVars
  BY <1>1, <1>10 DEF peerVars
<1>11. CASE \E id \in Ids : ReportFailure(id, SpamPenalty) \/ ReportFailure(id, DecodePenalty)
  BY <1>3, <1>9, <1>11
<1>12. CASE \E id \in Ids, g \in Gains : ReportSuccess(id, g)
  BY <1>3, <1>9, <1>12
<1>13. CASE \E id \in Ids, d \in {-SpamPenalty} \cup Gains : UpdateScore(id, d)
  BY <1>3, <1>9, <1>13
<1>14. CASE \E id \in Ids : Ban(id) \/ PingFails(id) \/ HandlePong(id) \/ PruneRemove(id)
  <2> PICK id \in Ids : Ban(id) \/ PingFails(id) \/ HandlePong(id) \/ PruneRemove(id)
    BY <1>14
  <2>1. CASE HandlePong(id)
    BY <1>1, <2>1 DEF HandlePong
  <2>2. CASE Ban(id)
    BY <1>3, <1>9, <2>2
  <2> QED  BY <1>4, <2>1, <2>2
<1>15. CASE \E S \in SUBSET Ids : CleanupExpiredBans(S) \/ PruneScan(S) \/ PerformPEX(S)
  <2> PICK S \in SUBSET Ids : CleanupExpiredBans(S) \/ PruneScan(S) \/ PerformPEX(S)
    BY <1>15
  <2>1. CASE PruneScan(S)
    BY <1>1, <2>1 DEF PruneScan
  <2> QED  BY <1>5, <2>1
<1>16. CASE BootstrapRound
  BY <1>1, <1>16 DEF BootstrapRound
<1> QED
  BY <1>2, <1>6, <1>7, <1>8, <1>10, <1>11, <1>12, <1>13, <1>14, <1>15, <1>16
  DEF PeersNext

\* A banned peer has no connection and the address index is that of the stored
\* peers, in every behaviour of the peer manager under its discovery loops and
\* handlers (PeerManager, PeerDiscovery).
THEOREM PeersCorrect == PeersSpec => [](IndexSound /\ BannedNotConnected)
<1>1. PeersInit => PeersInductive
  BY DEF PeersInit, PeersInductive, PeersInv, MapsTyped, IndexSound,
         BannedNotConnected, Stored
<1>2. PeersInductive /\ [PeersNext]_peerVars => PeersInductive'
  BY PeersStep
<1>3. PeersInductive => IndexSound /\ BannedNotConnected
  BY DEF PeersInductive, PeersInv
<1> QED  BY <1>1, <1>2, <1>3, PTL DEF PeersSpec

\* The delay between bootstrap rounds stays below twice its maximum, whatever
\* the two durations are (bootstrapLoop).
THEOREM BackoffCorrect == PeersSpec => []BackoffBounded
<1> DEFINE Inv == backoff \in Nat /\ BackoffBounded
<1>1. PeersInit => Inv
  BY PeersAssumption DEF PeersInit, BackoffBounded
<1>2. Inv /\ [PeersNext]_peerVars => Inv'
  <2> SUFFICES ASSUME Inv, [PeersNext]_peerVars PROVE Inv'
    OBVIOUS
  <2>1. backoff' = backoff \/ backoff' = NextBackoff(backoff, boot.reached)
    BY DEF PeersNext, peerVars, AddPeer, ReportFailure, ReportSuccess, UpdateScore, Ban,
           PingFails, HandlePong, PruneRemove, CleanupExpiredBans, PruneScan, PerformPEX,
           BootstrapDial, BootstrapDialed, BootstrapRound, HandlePeerExchange, SetPeer
  <2> QED  BY <2>1, PeersAssumption DEF BackoffBounded, NextBackoff
<1>3. Inv => BackoffBounded
  OBVIOUS
<1> QED  BY <1>1, <1>2, <1>3, PTL DEF PeersSpec

-----------------------------------------------------------------------------
(* The seen set.                                                            *)

\* The elements of order are the last ones of marked.
Recent ==
    /\ Len(order) = IF Len(marked) <= SeenMax THEN Len(marked) ELSE SeenMax
    /\ \A i \in 1 .. Len(order) : order[i] = marked[Len(marked) - Len(order) + i]

SeenInv ==
    /\ marked \in Seq(Hashes) /\ order \in Seq(Hashes)
    /\ Recent /\ NoRepeatWithinCapacity

\* Mark of a hash that was not seen keeps the last SeenMax hashes.
LEMMA MarkKeepsRecent ==
  ASSUME NEW h \in Hashes, SeenInv, MarkFirst(h)
  PROVE  SeenInv'
<1> USE GossipAssumption DEF GossipAssumption
<1> DEFINE m == Len(marked)
           o == Len(order)
<1>1. /\ marked \in Seq(Hashes) /\ order \in Seq(Hashes)
      /\ m \in Nat /\ o \in Nat /\ o <= m /\ o <= SeenMax
      /\ \A i \in 1 .. o : order[i] = marked[m - o + i]
      /\ ~ Seen(h) /\ marked' = Append(marked, h)
  <2>1. marked \in Seq(Hashes) /\ order \in Seq(Hashes) /\ Recent
    BY DEF SeenInv
  <2>2. m \in Nat /\ o \in Nat /\ SeenMax \in Nat
    BY <2>1
  <2>3. o = IF m <= SeenMax THEN m ELSE SeenMax
    BY <2>1 DEF Recent
  <2>4. o <= m /\ o <= SeenMax
    BY <2>2, <2>3
  <2>5. \A i \in 1 .. o : order[i] = marked[m - o + i]
    BY <2>1 DEF Recent
  <2>6. ~ Seen(h) /\ marked' = Append(marked, h)
    BY DEF MarkFirst
  <2> QED  BY <2>1, <2>2, <2>4, <2>5, <2>6
<1>2. \A i \in 1 .. o : order[i] # h
  BY <1>1 DEF Seen, Range
<1>3. /\ marked' \in Seq(Hashes) /\ Len(marked') = m + 1 /\ marked'[m + 1] = h
      /\ \A i \in 1 .. m : marked'[i] = marked[i]
  BY <1>1
<1>4. /\ order' = IF o + 1 > SeenMax THEN Tail(Append(order, h)) ELSE Append(order, h)
      /\ Append(order, h) \in Seq(Hashes) /\ Len(Append(order, h)) = o + 1
  BY <1>1 DEF MarkFirst, Mark
<1>5. order' \in Seq(Hashes) /\ Len(order') = IF o + 1 > SeenMax THEN o ELSE o + 1
  BY <1>1, <1>4
<1>6. \A i \in 1 .. Len(order') : order'[i] = marked'[Len(marked') - Len(order') + i]
  <2>1. CASE o + 1 > SeenMax
    <3> SUFFICES ASSUME NEW i \in 1 .. o
                 PROVE  order'[i] = marked'[m + 1 - o + i]
      BY <1>3, <1>5, <2>1
    <3>1. order'[i] = Append(order, h)[i + 1]
      BY <1>1, <1>4, <2>1
    <3>2. CASE i = o
      BY <1>1, <1>3, <3>1, <3>2
    <3>3. CASE i # o
      <4>1. order'[i] = order[i + 1] /\ i + 1 \in 1 .. o
        BY <1>1, <3>1, <3>3
      <4>2. order[i + 1] = marked[m - o + (i + 1)]
        BY <1>1, <4>1
      <4> QED  BY <1>1, <1>3, <4>1, <4>2
    <3> QED  BY <3>2, <3>3
  <2>2. CASE o + 1 <= SeenMax
    <3>1. o = m
      BY <2>2, <1>1 DEF SeenInv, Recent
    <3>2. order' = Append(order, h) /\ Len(order') = o + 1
      BY <1>1, <1>4, <2>2
    <3> SUFFICES ASSUME NEW i \in 1 .. o + 1
                 PROVE  order'[i] = marked'[i]
      BY <1>1, <1>3, <3>1, <3>2
    <3>3. CASE i = o + 1
      BY <1>1, <1>3, <3>1, <3>2, <3>3
    <3>4. CASE i \in 1 .. o
      <4>1. order'[i] = order[i]
        BY <1>1, <3>2, <3>4
      <4>2. order[i] = marked[i]
        BY <1>1, <3>1, <3>4
      <4> QED  BY <1>3, <3>1, <3>4, <4>1, <4>2
    <3> QED  BY <1>1, <3>3, <3>4
  <2>3. o + 1 > SeenMax \/ o + 1 <= SeenMax
    <3> HIDE DEF o
    <3> QED  BY <1>1
  <2> QED  BY <2>1, <2>2, <2>3
<1>7. Recent'
  <2>1. Len(order) = IF m <= SeenMax THEN m ELSE SeenMax
    BY DEF SeenInv, Recent
  <2>2. Len(order') = IF m + 1 <= SeenMax THEN m + 1 ELSE SeenMax
    <3> HIDE DEF m, o
    <3>1. o = IF m <= SeenMax THEN m ELSE SeenMax
      BY <2>1 DEF o
    <3> QED  BY <1>1, <1>5, <3>1
  <2>3. Len(order') = IF Len(marked') <= SeenMax THEN Len(marked') ELSE SeenMax
    BY <1>3, <2>2
  <2> QED  BY <1>6, <2>3, Zenon DEF Recent
<1>8. NoRepeatWithinCapacity'
  <2> SUFFICES ASSUME NEW i \in 1 .. m + 1, NEW j \in 1 .. m + 1, i < j,
                      marked'[i] = marked'[j]
               PROVE  j - i > SeenMax
    BY <1>3 DEF NoRepeatWithinCapacity
  <2>1. CASE j <= m
    <3>1. marked[i] = marked[j] /\ i \in DOMAIN marked /\ j \in DOMAIN marked
      BY <1>1, <1>3, <2>1
    <3> QED  BY <3>1 DEF SeenInv, NoRepeatWithinCapacity
  <2>2. CASE j = m + 1
    <3>1. marked[i] = h /\ i \in 1 .. m
      BY <1>1, <1>3, <2>2
    <3>2. i <= m - o
      <4> SUFFICES ASSUME i > m - o PROVE FALSE
        BY <1>1, <3>1
      <4>1. i - (m - o) \in 1 .. o /\ m - o + (i - (m - o)) = i
        BY <1>1, <3>1
      <4> QED  BY <1>1, <1>2, <3>1, <4>1
    <3>3. o = SeenMax
      BY <1>1, <3>1, <3>2 DEF SeenInv, Recent
    <3> QED  BY <1>1, <2>2, <3>1, <3>2, <3>3
  <2>3. j <= m \/ j = m + 1
    <3> HIDE DEF m
    <3> QED  BY <1>1
  <2> QED  BY <2>1, <2>2, <2>3
<1> QED  BY <1>3, <1>5, <1>7, <1>8 DEF SeenInv

\* No hash is gossiped or accepted again before as many others as the seen
\* set holds (SeenSet.Mark under GossipEngine's lock).
THEOREM SeenCorrect == GossipSpec => []NoRepeatWithinCapacity
<1>1. GossipInit => SeenInv
  BY GossipAssumption DEF GossipAssumption, GossipInit, SeenInv, Recent, NoRepeatWithinCapacity
<1>2. SeenInv /\ [GossipNext]_gossipVars => SeenInv'
  <2> SUFFICES ASSUME SeenInv, [GossipNext]_gossipVars PROVE SeenInv'
    OBVIOUS
  <2>1. CASE UNCHANGED <<order, marked>>
    BY <2>1 DEF SeenInv, Recent, NoRepeatWithinCapacity
  <2>2. CASE \E h \in Hashes : MarkFirst(h)
    BY <2>2, MarkKeepsRecent
  <2>3. UNCHANGED <<order, marked>> \/ \E h \in Hashes : MarkFirst(h)
    BY DEF GossipNext, gossipVars, PeerConnects, PeerLeaves, Refill, GossipBlock,
           GossipTransaction, getBucket, Refused, Send, HandleIncoming, cleanupStaleBuckets
  <2> QED  BY <2>1, <2>2, <2>3
<1>3. SeenInv => NoRepeatWithinCapacity
  BY DEF SeenInv
<1> QED  BY <1>1, <1>2, <1>3, PTL DEF GossipSpec
=============================================================================
