-------------------------------- MODULE Sync --------------------------------
(***************************************************************************)
(* How a node with fast sync enabled comes to run consensus: startup       *)
(* phases 13 and 14, Node.StartConsensus, and the part of FastSyncEngine   *)
(* that a running node reaches.  No handler of snapshot messages calls     *)
(* HandleSnapshotInfo, so a query never collects an answer and the engine  *)
(* retries until it falls back to live sync.                               *)
(*                                                                         *)
(* The mutex of the engine is explicit: the query goroutine holds it while *)
(* it backs off and while it runs the state change callback.               *)
(***************************************************************************)
EXTENDS Naturals

CONSTANT MaxQueryRetries    \* FastSyncEngine.maxQueryRetries

VARIABLES
    fresh,     \* whether the stored state root is zero (phase 13)
    pc,        \* where the startup and the query goroutine are
    mu,        \* who holds FastSyncEngine.mu
    engine,    \* FastSyncEngine.state
    retries,   \* FastSyncEngine.queryRetryCount
    callback,  \* FastSyncEngine.onStateChange: who set it
    running,   \* Node.consensusRunning
    looping    \* whether runConsensusLoop was started

syncVars == <<fresh, pc, mu, engine, retries, callback, running, looping>>

Goroutines == {"startup", "query"}

SyncInit ==
    /\ fresh = TRUE
    /\ pc = [g \in Goroutines |-> IF g = "startup" THEN "boot" ELSE "none"]
    /\ mu = "nobody" /\ engine = "Idle" /\ retries = 0
    /\ callback = "nobody" /\ running = FALSE /\ looping = FALSE

In(g, place) == pc[g] = place
MoveTo(g, place) == pc' = [pc EXCEPT ![g] = place]
-----------------------------------------------------------------------------
\* Phase 13: fast sync only on a database with a state; otherwise phase 14
\* starts consensus directly.
EnterSyncMode ==
    /\ In("startup", "boot")
    /\ fresh' \in BOOLEAN
    /\ MoveTo("startup", IF fresh' THEN "consensus" ELSE "phase14")
    /\ UNCHANGED <<mu, engine, retries, callback, running, looping>>

\* Phase 14 on a database with a state: SetStateChangeHandler, then Start.
TransitionToLive ==
    /\ In("startup", "phase14") /\ mu = "nobody"
    /\ callback' = "phase14"
    /\ MoveTo("startup", "start")
    /\ UNCHANGED <<fresh, mu, engine, retries, running, looping>>

\* StartConsensus up to SetStateChangeHandler.
StartConsensus(g) ==
    /\ In(g, "consensus") /\ ~ running
    /\ running' = TRUE
    /\ MoveTo(g, "handler")
    /\ UNCHANGED <<fresh, mu, engine, retries, callback, looping>>

\* Mutant of SetStateChangeHandler: the mutex is not released.
SetStateChangeHandlerLocked(g) ==
    /\ In(g, "handler") /\ mu = "nobody"
    /\ callback' = "consensus" /\ mu' = g
    /\ MoveTo(g, "start")
    /\ UNCHANGED <<fresh, engine, retries, running, looping>>

\* SetStateChangeHandler takes the mutex.
SetStateChangeHandler(g) ==
    /\ In(g, "handler") /\ mu = "nobody"
    /\ callback' = "consensus"
    /\ MoveTo(g, "start")
    /\ UNCHANGED <<fresh, mu, engine, retries, running, looping>>

\* FastSyncEngine.Start, also under the mutex; StartConsensus then starts its
\* loop.
StartEngine(g) ==
    /\ In(g, "start") /\ mu = "nobody"
    /\ engine' = IF engine = "Idle" THEN "Querying" ELSE engine
    /\ retries' = IF engine = "Idle" THEN 0 ELSE retries
    /\ pc' = [pc EXCEPT ![g] = "done",
                        !["query"] = IF engine = "Idle" THEN "asked" ELSE @]
    /\ looping' = (looping \/ running)
    /\ UNCHANGED <<fresh, mu, callback, running>>
-----------------------------------------------------------------------------

\* queryPeers: nobody answered in time; handleQueryRetry.
QueryTimeout ==
    /\ In("query", "asked") /\ mu = "nobody"
    /\ mu' = "query"
    /\ retries' = retries + 1
    /\ MoveTo("query", IF retries + 1 >= MaxQueryRetries THEN "live" ELSE "backoff")
    /\ UNCHANGED <<fresh, engine, callback, running, looping>>

\* The back-off ends with a new query goroutine.
QueryAgain ==
    /\ In("query", "backoff")
    /\ mu' = "nobody"
    /\ MoveTo("query", "asked")
    /\ UNCHANGED <<fresh, engine, retries, callback, running, looping>>

\* setStateLocked(SyncLive).  The callback of phase 14 calls StartConsensus;
\* the one of StartConsensus reads the tip and returns.
FallBackToLive ==
    /\ In("query", "live")
    /\ engine' = "Live"
    /\ IF callback = "phase14"
       THEN MoveTo("query", "consensus") /\ mu' = mu
       ELSE MoveTo("query", "done") /\ mu' = "nobody"
    /\ UNCHANGED <<fresh, retries, callback, running, looping>>

\* FastSyncEngine.Stop: both waits of the query goroutine end.
StopEngine ==
    /\ pc["query"] \in {"asked", "backoff"}
    /\ MoveTo("query", "stopped")
    /\ mu' = "nobody"
    /\ UNCHANGED <<fresh, engine, retries, callback, running, looping>>

SyncStep ==
    \/ TransitionToLive
    \/ \E g \in Goroutines :
          StartConsensus(g) \/ SetStateChangeHandler(g) \/ StartEngine(g)
    \/ QueryTimeout \/ QueryAgain \/ FallBackToLive

SyncNext == EnterSyncMode \/ SyncStep \/ StopEngine

\* The goroutines run, and timers fire.
SyncFairness == WF_syncVars(SyncStep)
-----------------------------------------------------------------------------

\* A node with an empty database runs its consensus loop whatever fast sync
\* does (startupPhase14_TransitionToLive).
FreshNodeRuns == In("startup", "consensus") ~> looping

\* A node that fast sync has finished on runs its consensus loop.
LiveNodeRuns == engine = "Live" ~> looping
=============================================================================
