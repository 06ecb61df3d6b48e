----------------------------- MODULE MCServices -----------------------------
(***************************************************************************)
(* The services around the node, side by side: the WebSocket hub and the   *)
(* SDK's client of it, the JSON-RPC pipeline, its rate limiter and the     *)
(* SDK's retries, contract execution, the indexer and the explorer's       *)
(* pages, the gossip engine, the transfer of a snapshot and the binary     *)
(* records.  They share no state in these models, so one behaviour follows *)
(* one of them.                                                            *)
(***************************************************************************)
EXTENDS Hub, WSClient, Indexer, RateLimit, Rpc, Requests, Explorer, Contracts,
        GossipEngine, ChunkTransfer, Codec

VARIABLE part

vars == <<part, hubVars, wsVars, idxVars, rvars, pvars, qvars, expVars, cvars,
          gossipVars, transferVars, codecVars>>

Event(c, t, x, d) == [contract |-> c, topic |-> t, tx |-> x, data |-> d]
MCBlockTxs == SubSeq(<<{"a"}, {"b"}, {"a"}, {}>>, 1, MaxBlock)
MCBlockEvents == SubSeq(<<<<Event("k", "t", 1, 1), Event("k", "t", 1, 2)>>, <<>>,
                          <<Event("k", "u", 1, 1)>>, <<>>>>, 1, MaxBlock)
MCFiles == {<<1, 2, 3>>, <<1, 2, 2>>}
MCSelected == <<1, 2, 3>>

Init ==
  /\ HubInit /\ WSInit /\ IndexerInit /\ RateInit /\ RpcInit /\ RequestsInit
  /\ ExplorerInit /\ ContractsInit /\ GossipInit /\ TransferInit
  /\ CodecInit
  /\ part \in {"hub", "ws", "indexer", "rate", "rpc", "requests", "explorer",
               "contracts", "gossip", "transfer", "codec"}

Next ==
  /\ UNCHANGED part
  /\ \/ /\ part = "hub" /\ HubNext
        /\ UNCHANGED <<wsVars, idxVars, rvars, pvars, qvars, expVars, cvars,
                      gossipVars, transferVars, codecVars>>
     \/ /\ part = "ws" /\ WSNext
        /\ UNCHANGED <<hubVars, idxVars, rvars, pvars, qvars, expVars, cvars,
                      gossipVars, transferVars, codecVars>>
     \/ /\ part = "indexer" /\ IndexerNext
        /\ UNCHANGED <<hubVars, wsVars, rvars, pvars, qvars, expVars, cvars,
                      gossipVars, transferVars, codecVars>>
     \/ /\ part = "rate" /\ RateNext
        /\ UNCHANGED <<hubVars, wsVars, idxVars, pvars, qvars, expVars, cvars,
                      gossipVars, transferVars, codecVars>>
     \/ /\ part = "rpc" /\ RpcNext
        /\ UNCHANGED <<hubVars, wsVars, idxVars, rvars, qvars, expVars, cvars,
                      gossipVars, transferVars, codecVars>>
     \/ /\ part = "requests" /\ RequestsNext
        /\ UNCHANGED <<hubVars, wsVars, idxVars, rvars, pvars, expVars, cvars,
                      gossipVars, transferVars, codecVars>>
     \/ /\ part = "explorer" /\ ExplorerNext
        /\ UNCHANGED <<hubVars, wsVars, idxVars, rvars, pvars, qvars, cvars,
                      gossipVars, transferVars, codecVars>>
     \/ /\ part = "contracts" /\ ContractsNext
        /\ UNCHANGED <<hubVars, wsVars, idxVars, rvars, pvars, qvars, expVars,
                      gossipVars, transferVars, codecVars>>
     \/ /\ part = "gossip" /\ GossipNext
        /\ UNCHANGED <<hubVars, wsVars, idxVars, rvars, pvars, qvars, expVars, cvars,
                      transferVars, codecVars>>
     \/ /\ part = "transfer" /\ TransferNext
        /\ UNCHANGED <<hubVars, wsVars, idxVars, rvars, pvars, qvars, expVars, cvars,
                      gossipVars, codecVars>>
     \/ /\ part = "codec" /\ CodecNext
        /\ UNCHANGED <<hubVars, wsVars, idxVars, rvars, pvars, qvars, expVars, cvars,
                      gossipVars, transferVars>>

Spec == Init /\ [][Next]_vars
=============================================================================
