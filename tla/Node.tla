-------------------------------- MODULE Node --------------------------------
(***************************************************************************)
(* Nodes that propose, gossip, store and recover: package node             *)
(* (runConsensusLoop, handleBlockMessage, handleFork, applyAcceptedBlock,  *)
(* CommitState, Shutdown, Recover, ReplayBlocks, the startup phases) with  *)
(* BuildBlock, ValidateBlock, BeginBlock and CreateCheckpoint as it calls  *)
(* them.                                                                   *)
(*                                                                         *)
(* A state is what its contents say about the chain: the epoch, the epochs *)
(* with a validator snapshot and the applied transactions.  Its root is    *)
(* the state itself, which state/smt.go justifies (module SMT).  A hash is *)
(* the proposer, the height, the run of the proposer and whether Shutdown  *)
(* made the header up.  Executing a block is one step; another goroutine's *)
(* block can be executed between any two steps of the loop.                *)
(*                                                                         *)
(* Blocks carry one transaction at most (MaxTxPerBlock = 1), no validator  *)
(* changes during a run, and no transaction is a contract call.            *)
(***************************************************************************)
EXTENDS Integers, FiniteSets

CONSTANTS
    N,                \* validators; the nodes are their indices
    Txs,              \* transactions, each applicable once (its nonce)
    BlocksPerEpoch,
    SnapshotInterval, \* Config.SnapshotInterval, in epochs; 0 is never
    finalityK,        \* 6 in the code
    WeightedProposer, \* WeightedProposerAtHeight over the staking state
    MaxHeight,        \* bound on the height of the loop
    MaxStarts         \* bound on the number of starts of each node

Nodes == 0 .. N - 1
Heights == 1 .. MaxHeight

ASSUME NodeAssumption ==
    /\ N \in Nat \ {0} /\ BlocksPerEpoch \in Nat \ {0}
    /\ SnapshotInterval \in Nat /\ finalityK \in Nat
    /\ MaxHeight \in Nat /\ MaxStarts \in [Nodes -> Nat]
    /\ WeightedProposer \in [Heights -> Nodes]

VARIABLES
    up,      \* "up", "closing" (Shutdown stored its tip), "down"
    starts,  \* starts so far
    chain,   \* Node.currentHeight, currentTipHash, currentEpoch, finalizedHeight
    mem,     \* Node.state: contents, and the contents its root is of
    pool,    \* Node.mempool
    loop,    \* runConsensusLoop: where it is, its height, the built block
    disk,    \* the database
    inbox    \* gossiped blocks on their way to a node

nodeVars == <<up, starts, chain, mem, pool, loop, disk, inbox>>
-----------------------------------------------------------------------------
(* States, hashes, headers.                                                *)

\* The contents with the zero root.
Empty == [epoch |-> 0, snapshots |-> {}, txs |-> {}]
ZeroHash == <<>>
HashOf(b) == <<b.by, b.height, b.run, b.stub>>
NoTip == [by |-> 0, height |-> 0, run |-> 0, stub |-> FALSE,
          prev |-> ZeroHash, epoch |-> 0, root |-> Empty, txs |-> {}]

\* Node.currentHeight and the like, as StartConsensus takes them from the tip.
At(tip) ==
    [height |-> tip.height, epoch |-> tip.epoch, finalized |-> 0,
     tip |-> IF tip = NoTip THEN ZeroHash ELSE HashOf(tip)]

\* A bucket after Put.
Put(bucket, k, v) ==
    [x \in DOMAIN bucket \cup {k} |-> IF x = k THEN v ELSE bucket[x]]
-----------------------------------------------------------------------------
(* Execution.                                                              *)

IsEpochBoundary(h) == h % BlocksPerEpoch = 0
EpochAtHeight(h) == (h - 1) \div BlocksPerEpoch + 1

\* BeginBlock.  No supply is ever recorded, so nothing is issued or
\* distributed at a boundary; ProcessEpochTransition refuses a boundary that
\* is not the one after the last.
BeginBlock(s, h) ==
    LET refused == IsEpochBoundary(h) /\ EpochAtHeight(h) # s.epoch + 1
        epoch   == IF IsEpochBoundary(h) THEN s.epoch + 1 ELSE s.epoch
    IN  IF refused
        THEN [ok |-> FALSE, state |-> s]
        ELSE [ok |-> TRUE, state |-> [s EXCEPT !.epoch = epoch,
                                               !.snapshots = @ \cup {epoch}]]

\* BeginBlock and the transactions.  One that was applied before fails on its
\* nonce; the state keeps what was done up to there.
Execute(s, h, txs) ==
    LET begun == BeginBlock(s, h)
    IN  IF begun.ok /\ txs \cap s.txs = {}
        THEN [ok |-> TRUE, state |-> [begun.state EXCEPT !.txs = @ \cup txs]]
        ELSE [ok |-> FALSE, state |-> begun.state]

\* ProposerAtHeight: round robin over Config.Validators.
ProposerAtHeight(h) == h % N

\* BuildBlock leaves the commit proof nil.
NewBlock(n, h, txs, s) ==
    [by |-> n, height |-> h, run |-> starts[n], stub |-> FALSE,
     prev |-> chain[n].tip, epoch |-> s.epoch, root |-> s, txs |-> txs,
     proof |-> FALSE]

\* What StoreBlockHeader and StoreTip keep of a block.
Header(b) == [f \in DOMAIN NoTip |-> b[f]]

\* EncodeBlockMessage and DecodeBlockMessage: the commit proof is not part of
\* the message.
Gossiped(b) == [b EXCEPT !.proof = FALSE]

\* validateCommitProof, as far as a message without a proof gets.  Module
\* Voting has the votes of a proof.
validateCommitProof(b) == b.proof

\* ValidateBlock: the first error, the state it leaves behind and whether that
\* was committed to the tree.
ValidateBlock(s, b, expectedPrev) ==
    LET begun == BeginBlock(s, b.height)
        done  == Execute(s, b.height, b.txs)
        Result(e, st, c) == [error |-> e, state |-> st, committed |-> c]
    IN  IF b.prev # expectedPrev THEN Result("previous hash", s, FALSE)
        ELSE IF ~ begun.ok THEN Result("begin block", begun.state, FALSE)
        ELSE IF b.epoch # begun.state.epoch
             THEN Result("epoch", begun.state, FALSE)
        ELSE IF b.by # WeightedProposer[b.height]
             THEN Result("proposer", begun.state, FALSE)
        ELSE IF ~ done.ok THEN Result("transaction", done.state, FALSE)
        ELSE IF done.state # b.root THEN Result("state root", done.state, TRUE)
        ELSE IF ~ validateCommitProof(b)
             THEN Result("commit proof", done.state, TRUE)
        ELSE Result("none", done.state, TRUE)
-----------------------------------------------------------------------------
NodeInit ==
    /\ up = [n \in Nodes |-> "down"]
    /\ starts = [n \in Nodes |-> 0]
    /\ chain = [n \in Nodes |-> At(NoTip)]
    /\ mem = [n \in Nodes |-> [state |-> Empty, root |-> Empty]]
    /\ pool = [n \in Nodes |-> {}]
    /\ loop = [n \in Nodes |-> [at |-> "check", height |-> 1, block |-> NoTip]]
    /\ disk = [n \in Nodes |->
                 [headers |-> <<>>, tip |-> NoTip, state |-> Empty,
                  checkpoint |-> NoTip, snapshots |-> <<>>]]
    /\ inbox = [n \in Nodes |-> {}]

\* Mempool.Submit and expiry, as far as one transaction of a sender goes;
\* module BlockProduction has the pool.
Submit(n, t) ==
    /\ up[n] = "up" /\ t \notin pool[n] \cup mem[n].state.txs
    /\ pool' = [pool EXCEPT ![n] = @ \cup {t}]
    /\ UNCHANGED <<up, starts, chain, mem, loop, disk, inbox>>

Expire(n, t) ==
    /\ up[n] = "up" /\ t \in pool[n]
    /\ pool' = [pool EXCEPT ![n] = @ \ {t}]
    /\ UNCHANGED <<up, starts, chain, mem, loop, disk, inbox>>

Alive(n) == up[n] \in {"up", "closing"}

\* Where the loop goes on.  It looks at consensusStopCh only before it checks
\* the proposer and while it waits.
LoopTo(n, at) == loop' = [loop EXCEPT ![n].at = at]

NotProposer(n) ==
    /\ up[n] = "up" /\ loop[n].at = "check"
    /\ ProposerAtHeight(loop[n].height) # n
    /\ LoopTo(n, "wait")
    /\ UNCHANGED <<up, starts, chain, mem, pool, disk, inbox>>

\* The transactions a block takes: one, unless the pool is empty.
Picked(n) == IF pool[n] = {} THEN {{}} ELSE {{t} : t \in pool[n]}

\* BuildBlock succeeds, which commits the tree, and the block is broadcast.
Propose(n) ==
    /\ up[n] = "up" /\ loop[n].at = "check"
    /\ ProposerAtHeight(loop[n].height) = n
    /\ \E txs \in Picked(n) :
         LET h    == loop[n].height
             done == Execute(mem[n].state, h, txs)
             b    == NewBlock(n, h, txs, done.state)
         IN  /\ done.ok
             /\ mem' = [mem EXCEPT ![n] = [state |-> done.state,
                                           root |-> done.state]]
             /\ loop' = [loop EXCEPT ![n].at = "header", ![n].block = b]
             /\ inbox' = [m \in Nodes |->
                            IF m # n /\ up[m] = "up"
                            THEN inbox[m] \cup {Gossiped(b)} ELSE inbox[m]]
    /\ UNCHANGED <<up, starts, chain, pool, disk>>

\* BuildBlock fails: on a boundary that is not the next one, or on a
\* transaction the state has already.
FailBuild(n) ==
    /\ up[n] = "up" /\ loop[n].at = "check"
    /\ ProposerAtHeight(loop[n].height) = n
    /\ \E txs \in Picked(n) :
         LET done == Execute(mem[n].state, loop[n].height, txs)
         IN  /\ ~ done.ok
             /\ mem' = [mem EXCEPT ![n].state = done.state]
    /\ LoopTo(n, "wait")
    /\ UNCHANGED <<up, starts, chain, pool, disk, inbox>>

StoreBlockHeader(n) ==
    /\ Alive(n) /\ loop[n].at = "header"
    /\ disk' = [disk EXCEPT ![n].headers =
                  Put(@, loop[n].height, Header(loop[n].block))]
    /\ LoopTo(n, "tip")
    /\ UNCHANGED <<up, starts, chain, mem, pool, inbox>>

StoreTip(n) ==
    /\ Alive(n) /\ loop[n].at = "tip"
    /\ disk' = [disk EXCEPT ![n].tip = Header(loop[n].block)]
    /\ LoopTo(n, "commit")
    /\ UNCHANGED <<up, starts, chain, mem, pool, inbox>>

\* The whole of Node.state is copied and both trees are rebuilt.
CommitState(n) ==
    /\ Alive(n) /\ loop[n].at = "commit"
    /\ disk' = [disk EXCEPT ![n].state = mem[n].state]
    /\ mem' = [mem EXCEPT ![n].root = mem[n].state]
    /\ LoopTo(n, "update")
    /\ UNCHANGED <<up, starts, chain, pool, inbox>>

NewEpoch(n, b) == b.epoch > 0 /\ b.epoch # chain[n].epoch

\* The position in memory and the pool, and CreateCheckpoint when the block is
\* of another epoch than the last.
Update(n) ==
    /\ Alive(n) /\ loop[n].at = "update"
    /\ LET b == loop[n].block
           snapshot == /\ NewEpoch(n, b) /\ SnapshotInterval > 0
                       /\ b.epoch % SnapshotInterval = 0
       IN  /\ chain' = [chain EXCEPT
                 ![n].height = b.height, ![n].tip = HashOf(b),
                 ![n].epoch = IF NewEpoch(n, b) THEN b.epoch ELSE @]
           /\ pool' = [pool EXCEPT ![n] = @ \ b.txs]
           /\ disk' = IF NewEpoch(n, b)
                      THEN [disk EXCEPT ![n].checkpoint = Header(b)]
                      ELSE disk
           /\ loop' = [loop EXCEPT
                 ![n].at = IF snapshot THEN "snapshot" ELSE "wait",
                 ![n].height = IF snapshot THEN @ ELSE @ + 1]
    /\ UNCHANGED <<up, starts, mem, inbox>>

\* CreateSnapshot takes the contents as they are and the root of the tree as
\* it was last committed.
StoreSnapshot(n) ==
    /\ Alive(n) /\ loop[n].at = "snapshot"
    /\ disk' = [disk EXCEPT ![n].snapshots =
                  Put(@, loop[n].block.height, mem[n])]
    /\ loop' = [loop EXCEPT ![n].at = "wait", ![n].height = @ + 1]
    /\ UNCHANGED <<up, starts, chain, mem, pool, inbox>>

\* ProposerTimeout.  After a block of its own the loop has moved on already.
Timeout(n) ==
    /\ up[n] = "up" /\ loop[n].at = "wait" /\ loop[n].height < MaxHeight
    /\ loop' = [loop EXCEPT ![n].at = "check", ![n].height = @ + 1]
    /\ UNCHANGED <<up, starts, chain, mem, pool, disk, inbox>>
-----------------------------------------------------------------------------
(* Blocks of others: handleBlockMessage, on a goroutine of the network.    *)

forkWeight(h, tip) ==
    IF tip < finalityK THEN h
    ELSE IF h > tip - finalityK THEN tip - finalityK ELSE h

\* handleFork before it validates.
BetterFork(n, b) ==
    LET new  == forkWeight(b.height, chain[n].height)
        curr == forkWeight(chain[n].height, chain[n].height)
    IN  new > curr \/ (new = curr /\ b.height > chain[n].height)

\* The height a block finalizes, counted from the block alone.
Finalized(n, b) ==
    IF b.height > finalityK THEN b.height - finalityK ELSE chain[n].finalized

\* Neither below the finalized height nor a fork that loses.
Considered(n, b) ==
    /\ b.height > Finalized(n, b)
    /\ b.prev = chain[n].tip \/ BetterFork(n, b)

\* The hash of the stored header below b.
StoredParent(n, b) ==
    IF b.height - 1 \in DOMAIN disk[n].headers
    THEN HashOf(disk[n].headers[b.height - 1]) ELSE ZeroHash

Verdict(n, b) == ValidateBlock(mem[n].state, b, StoredParent(n, b))

\* applyAcceptedBlock: position, AtomicStoreBlockAndTip, CommitState, pool,
\* gossip, checkpoint and snapshot.
ApplyAcceptedBlock(n, b, s) ==
    LET d == [disk[n] EXCEPT !.headers = Put(@, b.height, Header(b)),
                             !.tip = Header(b), !.state = s]
        snapshot == SnapshotInterval > 0 /\ b.epoch % SnapshotInterval = 0
    IN  /\ chain' = [chain EXCEPT
              ![n] = [height |-> b.height, tip |-> HashOf(b),
                      epoch |-> IF NewEpoch(n, b) THEN b.epoch ELSE @.epoch,
                      finalized |-> Finalized(n, b)]]
        /\ pool' = [pool EXCEPT ![n] = @ \ b.txs]
        /\ disk' = [disk EXCEPT ![n] =
              IF ~ NewEpoch(n, b) THEN d
              ELSE [d EXCEPT !.checkpoint = Header(b),
                             !.snapshots = IF snapshot
                                THEN Put(@, b.height, [state |-> s, root |-> s])
                                ELSE @]]
        /\ inbox' = [m \in Nodes |->
              IF m = n THEN inbox[n] \ {b}
              ELSE IF up[m] = "up" THEN inbox[m] \cup {Gossiped(b)}
              ELSE inbox[m]]

\* A rejected block moves nothing but finalizedHeight, and leaves in the
\* node's state what was executed until it was rejected.
Reject(n, b) ==
    /\ chain' = [chain EXCEPT ![n].finalized = Finalized(n, b)]
    /\ inbox' = [inbox EXCEPT ![n] = @ \ {b}]
    /\ UNCHANGED <<pool, disk>>

Receive(n, b) ==
    LET v == Verdict(n, b)
    IN  /\ up[n] = "up" /\ b \in inbox[n]
        /\ IF Considered(n, b) /\ v.error = "none"
           THEN ApplyAcceptedBlock(n, b, v.state) ELSE Reject(n, b)
        /\ mem' = IF ~ Considered(n, b) THEN mem
                  ELSE [mem EXCEPT ![n].state = v.state,
                                   ![n].root = IF v.committed THEN v.state ELSE @]
        /\ UNCHANGED <<up, starts, loop>>
-----------------------------------------------------------------------------
(* Stopping and starting.                                                  *)

\* Shutdown stores a made-up tip: the height in memory and the stored root,
\* and no epoch, parent or proposer.  The loop is not waited for.
Shutdown(n) ==
    /\ up[n] = "up"
    /\ up' = [up EXCEPT ![n] = "closing"]
    /\ disk' = IF chain[n].height = 0 THEN disk
               ELSE [disk EXCEPT ![n].tip =
                       [NoTip EXCEPT !.by = n, !.height = chain[n].height,
                                     !.run = starts[n], !.stub = TRUE,
                                     !.root = disk[n].state]]
    /\ inbox' = [inbox EXCEPT ![n] = {}]
    /\ UNCHANGED <<starts, chain, mem, pool, loop>>

\* The database is closed, or the process is killed.
Stopped(n) ==
    /\ up' = [up EXCEPT ![n] = "down"]
    /\ inbox' = [inbox EXCEPT ![n] = {}]
    /\ chain' = [chain EXCEPT ![n] = At(NoTip)]
    /\ mem' = [mem EXCEPT ![n] = [state |-> Empty, root |-> Empty]]
    /\ pool' = [pool EXCEPT ![n] = {}]
    /\ loop' = [loop EXCEPT ![n] = [at |-> "check", height |-> 1,
                                    block |-> NoTip]]
    /\ UNCHANGED <<starts, disk>>

CloseDatabase(n) == up[n] = "closing" /\ Stopped(n)
Crash(n) == up[n] = "up" /\ Stopped(n)

\* ReplayBlocks: BeginBlock at every height, no transactions; the tip is
\* stored at every height that gives the root of its header.
ReplayBlocks(d, from, to) ==
    LET Replayed[h \in from - 1 .. to] ==
            IF h < from THEN [ok |-> TRUE, state |-> d.state, tip |-> d.tip]
            ELSE LET r     == Replayed[h - 1]
                     begun == BeginBlock(r.state, h)
                 IN  IF /\ r.ok /\ h \in DOMAIN d.headers /\ begun.ok
                        /\ begun.state = d.headers[h].root
                     THEN [ok |-> TRUE, state |-> begun.state,
                           tip |-> d.headers[h]]
                     ELSE [r EXCEPT !.ok = FALSE]
    IN  Replayed[to]

\* Recover: what it makes of the database, and whether New succeeds.
Recovered(d) ==
    LET cp   == d.checkpoint
        have == cp.height \in DOMAIN d.snapshots
        snap == d.snapshots[cp.height]
        back == [d EXCEPT !.state = snap.state]
        r    == ReplayBlocks(back, cp.height + 1, d.tip.height)
    IN  IF d.state = Empty \/ cp = NoTip \/ d.state = cp.root
        THEN [ok |-> TRUE, disk |-> d, state |-> d.state]
        ELSE IF ~ have THEN [ok |-> FALSE, disk |-> d, state |-> Empty]
        ELSE IF snap.state # snap.root   \* RestoreFromSnapshot refuses it
             THEN [ok |-> FALSE, disk |-> d, state |-> Empty]
        ELSE IF d.tip.height <= cp.height
             THEN [ok |-> TRUE, disk |-> back, state |-> snap.state]
        ELSE [ok |-> r.ok, disk |-> [back EXCEPT !.tip = r.tip],
              state |-> r.state]

\* Mutant of FirstHeight: the loop starts at the tip.
FirstHeightAtTip(tip) == IF tip.height = 0 THEN 1 ELSE tip.height

\* Where runConsensusLoop starts.
FirstHeight(tip) == tip.height + 1

\* New, Start and StartConsensus.
Start(n) ==
    LET r == Recovered(disk[n])
    IN  /\ up[n] = "down" /\ starts[n] < MaxStarts[n]
        /\ starts' = [starts EXCEPT ![n] = @ + 1]
        /\ disk' = [disk EXCEPT ![n] = r.disk]
        /\ IF r.ok
           THEN /\ up' = [up EXCEPT ![n] = "up"]
                /\ mem' = [mem EXCEPT ![n] = [state |-> r.state,
                                              root |-> r.state]]
                /\ chain' = [chain EXCEPT ![n] = At(r.disk.tip)]
                /\ loop' = [loop EXCEPT ![n].height = FirstHeight(r.disk.tip)]
           ELSE UNCHANGED <<up, mem, chain, loop>>
        /\ UNCHANGED <<pool, inbox>>
-----------------------------------------------------------------------------
LoopStep(n) ==
    \/ NotProposer(n) \/ Propose(n) \/ FailBuild(n)
    \/ StoreBlockHeader(n) \/ StoreTip(n) \/ CommitState(n)
    \/ Update(n) \/ StoreSnapshot(n) \/ Timeout(n)

NodeNext ==
    \E n \in Nodes :
        \/ \E t \in Txs : Submit(n, t) \/ Expire(n, t)
        \/ LoopStep(n)
        \/ \E b \in inbox[n] : Receive(n, b)
        \/ Shutdown(n) \/ CloseDatabase(n) \/ Crash(n) \/ Start(n)

NodeSpec == NodeInit /\ [][NodeNext]_nodeVars
-----------------------------------------------------------------------------
\* The header that a step stores, if any.
Stores(n, h) ==
    h \in DOMAIN disk[n].headers => disk'[n].headers[h] # disk[n].headers[h]

\* A node stores headers only above its stored tip, so what is below stays,
\* and as children of that tip, or of the block of the tip's height when
\* Shutdown has put its stub there: across crashes between any two writes, a
\* loop that outlives Shutdown and recoveries that fail half-way
\* (runConsensusLoop, Shutdown, Recover).
HeadersExtendTip ==
    [][\A n \in DOMAIN disk : \A h \in DOMAIN disk'[n].headers :
          Stores(n, h) =>
             LET tip == disk[n].tip
                 b   == disk'[n].headers[h]
             IN  /\ h > tip.height
                 /\ \/ b.prev = At(tip).tip
                    \/ tip.stub /\ b.prev # ZeroHash /\ b.prev[2] = tip.height
      ]_nodeVars

-----------------------------------------------------------------------------
\* The root a restarted node has is the one it had when it stopped.
StartKeepsState ==
    [][\A n \in DOMAIN disk : starts'[n] # starts[n] =>
          up'[n] = "up" /\ mem'[n].root = disk[n].state]_nodeVars

\* Epochs change at the multiples of BlocksPerEpoch.
EpochsOnTime ==
    \A n \in DOMAIN disk : \A h \in DOMAIN disk[n].headers :
        disk[n].headers[h].epoch = h \div BlocksPerEpoch
=============================================================================
