------------------------------- MODULE MCNode -------------------------------
(***************************************************************************)
(* Nodes that gossip to each other, the same without transactions but with *)
(* restarts, one node that restarts more often, the storage below a node,  *)
(* its genesis, the peer manager and the transport.  Each of them allows   *)
(* whatever the others may do to it, so one behaviour follows one of them. *)
(***************************************************************************)
EXTENDS Node, Storage, Genesis, Peers, P2P, TLC

CONSTANTS p1, p2, a1, a2, c1, c2

VARIABLE part

\* Staking makes node 0 the proposer of height 3, which is not its turn in
\* the round robin.
MCProposers == [h \in Heights |-> IF h = 3 THEN 0 ELSE h % N]
MCStarts == [n \in Nodes |-> 1]

Restarted == INSTANCE Node WITH Txs <- {},
    MaxStarts <- [n \in Nodes |-> IF n = 0 THEN 2 ELSE 1]

Solo == INSTANCE Node WITH
    N <- 1, MaxHeight <- 6, MaxStarts <- [n \in 0 .. 0 |-> 3],
    WeightedProposer <- [h \in 1 .. 6 |-> 0]

MCPathOf == <<<<0, 1, 1>>, <<1, 0, 0>>>>
MCValues == <<{1, 2}, {1}>>

\* Documents that share a validator; the second writes its address another
\* way, the third has one that does not parse after one that does, the
\* fourth is not valid.
MCAddressOf == "a" :> 1 @@ "0xa" :> 1 @@ "b" :> 2 @@ "c" :> 3
Entry(text, key) ==
    [address |-> text, pubKey |-> key, stake |-> 5, commission |-> 100,
     keyIsHex |-> TRUE]
Document(entries, balances) ==
    [chainID |-> "dsn", time |-> "past", minimumStake |-> 5,
     validators |-> entries, balances |-> balances]
MCDocOf ==
    1 :> Document(<<Entry("a", "k"), Entry("b", "l")>>, <<"c">>) @@
    2 :> Document(<<Entry("0xa", "k"), Entry("a", "l"), Entry("c", "m")>>, <<>>) @@
    3 :> Document(<<Entry("c", "k"), Entry("", "l")>>, <<"a">>) @@
    4 :> Document(<<Entry("a", "k"), Entry("b", "k")>>, <<>>) @@
    5 :> Document(<<Entry("b", "k")>>, <<"">>)

MCIdOf == a1 :> p1 @@ a2 :> p2
MCAddrOf == c1 :> a2 @@ c2 :> a2
MCBanBelow == -1

vars == <<part, nodeVars, storeVars, genesisVars, peerVars, p2pVars>>

Init ==
    /\ part \in {"nodes", "restarted", "solo", "storage", "genesis",
                "peers", "p2p"}
    /\ IF part = "solo" THEN Solo!NodeInit ELSE NodeInit
    /\ StorageInit /\ GenesisInit /\ PeersInit /\ P2PInit

Next ==
    /\ UNCHANGED part
    /\ \/ /\ \/ part = "nodes" /\ NodeNext
             \/ part = "restarted" /\ Restarted!NodeNext
             \/ part = "solo" /\ Solo!NodeNext
          /\ UNCHANGED <<storeVars, genesisVars, peerVars, p2pVars>>
       \/ /\ part = "storage" /\ StorageNext
          /\ UNCHANGED <<nodeVars, genesisVars, peerVars, p2pVars>>
       \/ /\ part = "genesis" /\ GenesisNext
          /\ UNCHANGED <<nodeVars, storeVars, peerVars, p2pVars>>
       \/ /\ part = "peers" /\ PeersNext
          /\ UNCHANGED <<nodeVars, storeVars, genesisVars, p2pVars>>
       \/ /\ part = "p2p" /\ P2PNext
          /\ UNCHANGED <<nodeVars, storeVars, genesisVars, peerVars>>

Spec == Init /\ [][Next]_vars
=============================================================================
