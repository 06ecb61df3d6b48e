------------------------------ MODULE Storage -------------------------------
(***************************************************************************)
(* The state in memory, the state in the database and what moves between   *)
(* them: InMemoryState, PersistentState, CommitState, checkpoints,         *)
(* snapshots and the loading half of Recover.                              *)
(*                                                                         *)
(* Contents are a sequence over Keys; 0 is an absent key.  A serialized    *)
(* snapshot is its contents and its root: the entries are sorted, counted  *)
(* and checked on both sides, and the limits of the two sides agree.       *)
(***************************************************************************)
EXTENDS SMT, FiniteSets

CONSTANTS
    Values,         \* the values of each key
    MaxCheckpoint   \* bound on the number of checkpoints

VARIABLES
    running,    \* whether the process runs
    live,       \* Node.state: contents and the root of its tree
    cache,      \* PersistentState.cache and kvstore
    bolt,       \* the buckets: contents, state_root
    checkpoints,\* the checkpoints bucket: "latest" (0 is none) and the roots
    snapshots,  \* stored snapshots, by height; a height with none has root <<>>
    committed,  \* the contents of the last CommitState (history)
    removed     \* the keys removed since the database was created (history)

storeVars == <<running, live, cache, bolt, checkpoints, snapshots, committed, removed>>

NoEntries == [k \in Keys |-> 0]
NewState == [kv |-> NoEntries, root |-> EmptyHash]

StorageInit ==
    /\ running = TRUE
    /\ live = NewState /\ cache = NoEntries /\ bolt = NewState
    /\ checkpoints = [latest |-> 0, root |-> [h \in 1 .. MaxCheckpoint |-> EmptyHash]]
    /\ snapshots = [h \in 1 .. MaxCheckpoint |-> NewState]
    /\ committed = NoEntries /\ removed = {}

\* Mutant of Over: an entry that exists is kept.
OverMissing(f, kv) == [k \in Keys |-> IF f[k] # 0 THEN f[k] ELSE kv[k]]

\* The entries of kv written over those of f; nothing is deleted.
Over(f, kv) == [k \in Keys |-> IF kv[k] # 0 THEN kv[k] ELSE f[k]]
Present(kv) == {k \in Keys : kv[k] # 0}
-----------------------------------------------------------------------------
SetBytes(k, v) ==
    /\ running
    /\ live' = [live EXCEPT !.kv[k] = v]
    /\ UNCHANGED <<running, cache, bolt, checkpoints, snapshots, committed, removed>>

\* RemoveValidator deletes the index entries of a validator.
DeleteBytes(k) ==
    /\ running /\ live.kv[k] # 0
    /\ live' = [live EXCEPT !.kv[k] = 0]
    /\ removed' = removed \cup {k}
    /\ UNCHANGED <<running, cache, bolt, checkpoints, snapshots, committed>>

\* InMemoryState.Commit, which BuildBlock and ValidateBlock call.
Commit ==
    /\ running /\ live.root # Root(live.kv)
    /\ live' = [live EXCEPT !.root = Root(live.kv)]
    /\ UNCHANGED <<running, cache, bolt, checkpoints, snapshots, committed, removed>>

\* PersistentState.Commit after the contents kv were set: one transaction.
PersistentCommit(kv) ==
    [kv |-> Over(bolt.kv, Over(cache, kv)), root |-> Root(Over(cache, kv))]

\* Node.CommitState.
Flush ==
    /\ running
    /\ cache' = Over(cache, live.kv)
    /\ bolt' = PersistentCommit(live.kv)
    /\ live' = [live EXCEPT !.root = Root(live.kv)]
    /\ committed' = live.kv
    /\ UNCHANGED <<running, checkpoints, snapshots, removed>>

\* What is stored for a height.
LoadCheckpoint(h) == checkpoints.root[h]
LatestCheckpoint == [height |-> checkpoints.latest, root |-> LoadCheckpoint(checkpoints.latest)]
SnapshotExists(h) == snapshots[h].root # EmptyHash
LoadSnapshot(h) == snapshots[h]

\* StoreCheckpoint: by height and as the latest, in one transaction.
StoreCheckpoint(h, root) ==
    checkpoints' = [latest |-> h, root |-> [checkpoints.root EXCEPT ![h] = root]]

\* The root is the one the block of the new epoch has; the snapshot's hash is
\* left zero.
CreateCheckpoint ==
    /\ running /\ checkpoints.latest < MaxCheckpoint /\ live.root # EmptyHash
    /\ StoreCheckpoint(checkpoints.latest + 1, live.root)
    /\ UNCHANGED <<running, live, cache, bolt, snapshots, committed, removed>>

\* InMemoryState.CreateSnapshot: the entries, and the root of the tree, which
\* is that of the last Commit.
CreateSnapshot == [kv |-> live.kv, root |-> live.root]

PutSnapshot(h, snap) == snapshots' = [snapshots EXCEPT ![h] = snap]

\* The snapshot of a block's height, serialized and stored.
SaveSnapshot ==
    /\ running /\ checkpoints.latest > 0
    /\ ~ SnapshotExists(checkpoints.latest) /\ live.root # EmptyHash
    /\ PutSnapshot(checkpoints.latest, CreateSnapshot)
    /\ UNCHANGED <<running, live, cache, bolt, checkpoints, committed, removed>>

Kill ==
    /\ running
    /\ running' = FALSE /\ live' = NewState /\ cache' = NoEntries
    /\ UNCHANGED <<bolt, checkpoints, snapshots, committed, removed>>

\* Mutant of Restored: the transaction is not committed.
RestoredNot(snap) == bolt

\* What RestoreFromSnapshot leaves in the buckets.
Restored(snap) == [kv |-> snap.kv, root |-> snap.root]

\* Recover finds another root than the checkpoint's.
Drifted ==
    /\ bolt.root # EmptyHash /\ checkpoints.latest # 0
    /\ bolt.root # LatestCheckpoint.root

\* RestoreFromSnapshot accepts a snapshot: its root is not zero and is that
\* of its entries.
Restorable(snap) == snap.root # EmptyHash /\ Root(snap.kv) = snap.root

\* NewPersistentState, and Recover up to the replay.  A failure is final
\* until the next start, which fails again.
Reopen ==
    /\ ~ running
    /\ Drifted => /\ SnapshotExists(checkpoints.latest)
                  /\ Restorable(LoadSnapshot(checkpoints.latest))
    /\ running' = TRUE
    /\ bolt' = IF Drifted THEN Restored(LoadSnapshot(checkpoints.latest)) ELSE bolt
    /\ cache' = IF bolt.root = EmptyHash THEN NoEntries ELSE bolt'.kv
    /\ live' = [kv |-> cache', root |-> Root(cache')]
    /\ committed' = IF Drifted THEN bolt'.kv ELSE committed
    /\ UNCHANGED <<checkpoints, snapshots, removed>>

\* FastSyncFromCheckpoint with a checkpoint and a snapshot from elsewhere.
\* The database is replaced; the state in memory is written over, and what
\* else it held stays.  The tip it stores and the replay are Node's.  With a
\* checkpoint of this database, FastSyncFromLocalSnapshot, it always fails:
\* the snapshot's hash is not zero.
FastSyncFromCheckpoint(snap) ==
    /\ running /\ Restorable(snap)
    /\ bolt' = Restored(snap) /\ cache' = snap.kv
    /\ LET kv == Over(live.kv, snap.kv)
       IN  live' = [kv |-> kv, root |-> Root(kv)]
    /\ committed' = snap.kv
    /\ UNCHANGED <<running, checkpoints, snapshots, removed>>

Contents == {kv \in [Keys -> UNION {Values[k] : k \in Keys} \cup {0}] :
                \A k \in Keys : kv[k] \in Values[k] \cup {0}}

StorageNext ==
    \/ \E kv \in Contents : FastSyncFromCheckpoint([kv |-> kv, root |-> Root(kv)])
    \/ \E k \in Keys : DeleteBytes(k) \/ \E v \in Values[k] : SetBytes(k, v)
    \/ Commit \/ Flush \/ CreateCheckpoint \/ SaveSnapshot
    \/ Kill \/ Reopen
-----------------------------------------------------------------------------

\* Different contents have different roots, so a root that agrees with the
\* checkpoint's or the header's vouches for the contents (SMT.Insert, which
\* mixes a node with itself where a sibling is meant).
RootVouches ==
    LET rooted == {<<kv, Root(kv)>> : kv \in {live.kv, cache, bolt.kv, committed}}
    IN  \A a, b \in rooted : a[2] = b[2] => a[1] = b[1]

\* Every entry of the last commit is stored, and what is stored beyond it is
\* what was removed at some time: deletions do not reach the database, and a
\* restart brings the entries back (RemoveValidator, CommitState, Commit).
CommittedSurvives ==
    /\ \A k \in Present(committed) : bolt.kv[k] = committed[k]
    /\ Present(bolt.kv) \subseteq Present(committed) \cup removed

\* A restore brings back exactly the contents the checkpoint was made with
\* when nothing was written between the block's commit and the snapshot:
\* whatever was stored in the meantime is gone (RestoreFromSnapshot).
RestoreIsExact ==
    [][~ running /\ running' /\ Drifted =>
          /\ live'.kv = LoadSnapshot(checkpoints.latest).kv
          /\ live'.root = LoadSnapshot(checkpoints.latest).root
          /\ bolt'.root = live'.root]_storeVars
=============================================================================
