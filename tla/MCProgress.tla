----------------------------- MODULE MCProgress -----------------------------
(***************************************************************************)
(* The parts that promise progress, on instances small enough for that,    *)
(* under the fairness of the Go scheduler: a goroutine that can go on      *)
(* does, and a timer or a deadline passes.  They share no state, so one    *)
(* behaviour follows one of them.                                          *)
(***************************************************************************)
EXTENDS Hub, Indexer, Sync

VARIABLE part

vars == <<part, hubVars, idxVars, syncVars>>

Event(c, t, x, d) == [contract |-> c, topic |-> t, tx |-> x, data |-> d]
MCBlockTxs == SubSeq(<<{"a"}, {"b"}, {"a"}>>, 1, MaxBlock)
MCBlockEvents == SubSeq(<<<<Event("k", "t", 1, 1)>>, <<>>, <<>>>>, 1, MaxBlock)

Init ==
    /\ part \in {"hub", "indexer", "sync"}
    /\ HubInit /\ IndexerInit /\ SyncInit

Next ==
    /\ UNCHANGED part
    /\ \/ part = "hub" /\ HubNext /\ UNCHANGED <<idxVars, syncVars>>
       \/ part = "indexer" /\ IndexerNext /\ UNCHANGED <<hubVars, syncVars>>
       \/ part = "sync" /\ SyncNext /\ UNCHANGED <<hubVars, idxVars>>

LiveSpec ==
    /\ Init /\ [][Next]_vars
    /\ HubFairness /\ IndexerFairness /\ SyncFairness

\* The start of a node alone.
SyncSpec ==
    /\ Init /\ part = "sync" /\ [][Next]_vars /\ SyncFairness
=============================================================================
