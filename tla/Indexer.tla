------------------------------- MODULE Indexer -------------------------------
(***************************************************************************)
(* The block indexer (indexer/): the queue between the node and the        *)
(* indexing goroutine, the one-transaction update of its database, Stop,   *)
(* and what a crash and a restart leave.  The node applies blocks of       *)
(* increasing height; a block it proposed itself is not enqueued           *)
(* (runConsensusLoop), one it accepted is (applyAcceptedBlock).            *)
(***************************************************************************)
EXTENDS Naturals, Sequences, FiniteSets

CONSTANTS MaxBlock,    \* bound on the heights applied
          QueueCap,    \* capacity of idx.ch
          BlockTxs,    \* height -> transactions of the block
          BlockEvents  \* height -> its events, in order

ASSUME IndexerAssumption ==
    /\ MaxBlock \in Nat
    /\ QueueCap \in Nat \ {0}
    /\ DOMAIN BlockTxs = 1..MaxBlock
    /\ DOMAIN BlockEvents = 1..MaxBlock

VARIABLES applied,   \* height -> "none", "own" or "accepted": the node's chain
          waiting,   \* block the node is trying to enqueue, 0 if none
          ch,        \* idx.ch
          chOpen,    \* idx.ch is not closed
          worker,    \* the goroutine of run
          idb,       \* the database
          iheight,   \* idx.height
          lostBy,    \* height -> why a block it should index was dropped
          ipanic     \* a send on the closed channel

idxVars == <<applied, waiting, ch, chOpen, worker, idb, iheight, lostBy, ipanic>>

BlockNums == 1..MaxBlock

\* EventsIndexKey: contract, topic, height and transaction index.
EventKey(h, e) == [contract |-> e.contract, topic |-> e.topic,
                   height |-> h, tx |-> e.tx]

EmptyDB == [blocks |-> {}, receipts |-> {}, events |-> {}, latest |-> 0]

IndexerInit ==
    /\ applied = [h \in BlockNums |-> "none"]
    /\ waiting = 0
    /\ ch = <<>> /\ chOpen = TRUE
    /\ worker = [at |-> "select", block |-> 0]
    /\ idb = EmptyDB
    /\ iheight = 0
    /\ lostBy = [h \in BlockNums |-> "no"]
    /\ ipanic = FALSE

NodeTip == CHOOSE h \in 0..MaxBlock :
              /\ h > 0 => applied[h] # "none"
              /\ \A g \in (h + 1)..MaxBlock : applied[g] = "none"

\* The node is alive while its indexing goroutine has not been shut down.
ProposeOwn(h) ==
    /\ waiting = 0 /\ h > NodeTip
    /\ applied' = [applied EXCEPT ![h] = "own"]
    /\ UNCHANGED <<waiting, ch, chOpen, worker, idb, iheight, lostBy, ipanic>>

ApplyAccepted(h) ==
    /\ waiting = 0 /\ h > NodeTip
    /\ applied' = [applied EXCEPT ![h] = "accepted"]
    /\ waiting' = h
    /\ UNCHANGED <<ch, chOpen, worker, idb, iheight, lostBy, ipanic>>

\* Enqueue: the send waits for room; on a closed channel it panics.
Enqueue ==
    /\ waiting # 0
    /\ \/ /\ ~chOpen
          /\ ipanic' = TRUE
          /\ UNCHANGED <<waiting, ch>>
       \/ /\ chOpen /\ Len(ch) < QueueCap
          /\ ch' = Append(ch, waiting)
          /\ waiting' = 0
          /\ UNCHANGED ipanic
    /\ UNCHANGED <<applied, chOpen, worker, idb, iheight, lostBy>>

(***************************************************************************)
(* run: receive, index in one transaction, then move idx.height under the  *)
(* lock.  A closed channel is drained before it reports closed.            *)
(***************************************************************************)
Receive ==
    /\ worker.at = "select"
    /\ ch # <<>>
    /\ worker' = [at |-> "index", block |-> Head(ch)]
    /\ ch' = Tail(ch)
    /\ UNCHANGED <<applied, waiting, chOpen, idb, iheight, lostBy, ipanic>>

\* A transaction is stored under its id, an event under its key: a later one
\* with the same key replaces it.
Indexed(db, h) ==
    LET evs == BlockEvents[h]
        last == {i \in 1..Len(evs) :
                    \A j \in (i + 1)..Len(evs) :
                        EventKey(h, evs[j]) # EventKey(h, evs[i])}
        new == {[key |-> EventKey(h, evs[i]), data |-> evs[i].data] : i \in last}
    IN  [blocks |-> db.blocks \cup {h},
         receipts |-> {r \in db.receipts : r.tx \notin BlockTxs[h]}
                        \cup {[tx |-> t, block |-> h] : t \in BlockTxs[h]},
         events |-> {e \in db.events : \A f \in new : f.key # e.key} \cup new,
         latest |-> h]

indexBlock ==
    /\ worker.at = "index"
    /\ idb' = Indexed(idb, worker.block)
    /\ worker' = [worker EXCEPT !.at = "height"]
    /\ UNCHANGED <<applied, waiting, ch, chOpen, iheight, lostBy, ipanic>>

\* The database refuses the update: logged, and the block is skipped.
indexBlockFails ==
    /\ worker.at = "index"
    /\ lostBy' = [lostBy EXCEPT ![worker.block] = "error"]
    /\ worker' = [at |-> "select", block |-> 0]
    /\ UNCHANGED <<applied, waiting, ch, chOpen, idb, iheight, ipanic>>

UpdateHeight ==
    /\ worker.at = "height"
    /\ iheight' = IF worker.block > iheight THEN worker.block ELSE iheight
    /\ worker' = [at |-> "select", block |-> 0]
    /\ UNCHANGED <<applied, waiting, ch, chOpen, idb, lostBy, ipanic>>

\* A slip of run: it leaves on the closed channel before it is empty.
WorkerExitsEarly ==
    /\ worker.at = "select"
    /\ ~chOpen
    /\ worker' = [at |-> "done", block |-> 0]
    /\ UNCHANGED <<applied, waiting, ch, chOpen, idb, iheight, lostBy, ipanic>>

WorkerExits ==
    /\ worker.at = "select"
    /\ ~chOpen /\ ch = <<>>
    /\ worker' = [at |-> "done", block |-> 0]
    /\ UNCHANGED <<applied, waiting, ch, chOpen, idb, iheight, lostBy, ipanic>>

\* Stop closes the channel and waits for run to end.
Stop ==
    /\ chOpen
    /\ chOpen' = FALSE
    /\ UNCHANGED <<applied, waiting, ch, worker, idb, iheight, lostBy, ipanic>>

(***************************************************************************)
(* The process ends (by a crash, or after Stop) and starts again: New      *)
(* reads the latest indexed height; Recover re-indexes nothing.  A crash   *)
(* drops what was queued or being indexed; after Stop nothing should be    *)
(* left but a block the node still tried to hand over.                     *)
(***************************************************************************)
InFlight == {ch[i] : i \in 1..Len(ch)}
            \cup (IF worker.at = "index" THEN {worker.block} ELSE {})
            \cup (IF waiting # 0 THEN {waiting} ELSE {})

Restart ==
    /\ lostBy' = [h \in BlockNums |->
                     IF h = waiting \/ (worker.at # "done" /\ h \in InFlight)
                       THEN "crash" ELSE lostBy[h]]
    /\ waiting' = 0
    /\ ch' = <<>> /\ chOpen' = TRUE
    /\ worker' = [at |-> "select", block |-> 0]
    /\ iheight' = idb.latest
    /\ ipanic' = FALSE
    /\ UNCHANGED <<applied, idb>>

\* CatchUp, for the caller that asks for it: a block the store cannot give or
\* the database refuses is skipped.
CatchUp(from, tip) ==
    /\ ~ipanic /\ chOpen
    /\ worker.at = "select" /\ ch = <<>> /\ waiting = 0
    /\ \E got \in SUBSET {h \in from..tip : applied[h] = "accepted"} :
         /\ got # {}
         /\ LET step[h \in (from - 1)..tip] ==
                    IF h < from THEN idb
                    ELSE IF h \in got THEN Indexed(step[h - 1], h)
                                      ELSE step[h - 1]
            IN  idb' = step[tip]
         /\ iheight' = CHOOSE h \in got : \A g \in got : g <= h
         /\ lostBy' = [h \in BlockNums |-> IF h \in got THEN "no" ELSE lostBy[h]]
    /\ UNCHANGED <<applied, waiting, ch, chOpen, worker, ipanic>>

IndexerNext ==
    \/ /\ ~ipanic
       /\ \/ \E h \in BlockNums : ProposeOwn(h) \/ ApplyAccepted(h)
          \/ Enqueue \/ Receive \/ indexBlock \/ indexBlockFails
          \/ UpdateHeight \/ WorkerExits \/ Stop
    \/ Restart
    \/ \E from \in BlockNums : \E tip \in from..NodeTip : CatchUp(from, tip)

\* The goroutine of run is scheduled while it can run.
IndexerFairness ==
    /\ WF_idxVars(~ipanic /\ (\/ Receive \/ indexBlock \/ indexBlockFails
                              \/ UpdateHeight \/ WorkerExits))
    /\ WF_idxVars(~ipanic /\ Enqueue)

----------------------------------------------------------------------------

\* A block that waits in the queue is indexed, or dropped for a known reason.
QueuedIsIndexed ==
    \A h \in BlockNums :
        (\E i \in 1..Len(ch) : ch[i] = h)
            ~> (h \in idb.blocks \/ lostBy[h] # "no" \/ ipanic)
=============================================================================
