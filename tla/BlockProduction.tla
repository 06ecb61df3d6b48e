-------------------------- MODULE BlockProduction --------------------------
(***************************************************************************)
(* From a submitted transaction to a persisted block, on the node that     *)
(* proposes: package mempool, the transaction part of                      *)
(* consensus.BuildBlock with state.ApplyTransaction and chargeGas, the     *)
(* proposer's branch of Node.runConsensusLoop, and Node.Recover.           *)
(*                                                                         *)
(* Submit runs on RPC and gossip goroutines while the consensus goroutine  *)
(* builds, so a block is built in steps: choose the transactions, execute  *)
(* them one by one on the node's only copy of the state, publish, store    *)
(* the tip, store the state, clean the pool.  A crash may come between any *)
(* two of them.  The chain is in its first epoch: no checkpoint exists, so *)
(* Recover takes the stored accounts as they are.                          *)
(*                                                                         *)
(* System transitions and rewards are in BlockExecution.                   *)
(***************************************************************************)
EXTENDS Integers, FiniteSets

CONSTANTS
    Senders,        \* accounts, numbered in the order of their addresses
    Txs,            \* the transactions clients may submit
    InitialBalance,
    MaxSize,        \* Config.MempoolMaxSize
    MaxTxs,         \* Config.MaxTxPerBlock
    MayExpire,      \* whether transactions may outlive Config.MempoolTTL
    MaxRestarts     \* bound on the number of restarts

\* amount is the transfer, the gas used or the stake; key is the public key of
\* a registration.  A "failing" transaction is a call on which VM.Execute
\* returns an error, as it does when the contract does not exist.
Kinds == {"standard", "contract", "failing", "registration"}

ASSUME SendersAssumption == Senders \subseteq Nat
ASSUME TxsAssumption ==
    /\ IsFiniteSet(Txs)
    /\ \A t \in Txs : /\ t.sender \in Senders /\ t.to \in Senders
                      /\ t.nonce \in Nat \ {0}
                      /\ t.kind \in Kinds
                      /\ t.fee \in Nat \ {0} /\ t.amount \in Nat
ASSUME LimitsAssumption ==
    /\ InitialBalance \in Nat /\ MaxSize \in Nat /\ MaxTxs \in Nat
    /\ MaxRestarts \in Nat /\ MayExpire \in BOOLEAN

VARIABLES
    txs,        \* Mempool.txs and its index
    nextNonce,  \* Mempool.nextNonce, 0 when the map has no entry
    account,    \* Node.state: nonce and balance of every sender
    executed,   \* how often each transaction was applied to Node.state; the
                \* writes of a contract whose gas cannot be charged not counted
    saved,      \* account and executed as last persisted by CommitState
    phase,      \* where the consensus goroutine is
    batch,      \* the chosen transactions still to execute
    block,      \* the chosen transactions that were executed
    onChain,    \* the transactions of all blocks whose tip is stored
    lastError,  \* why the last BuildBlock failed
    restarts,
    disturbed,  \* history: something since the start of the node came between
                \* the nonces of the pool and those of the accounts
    abandoned   \* history: the transactions that failed builds executed

vars == <<txs, nextNonce, account, executed, saved, phase, batch, block,
          onChain, lastError, restarts, disturbed, abandoned>>
pool == <<txs, nextNonce>>
history == <<disturbed, abandoned>>
state == <<account, executed>>
disk == <<saved, onChain>>

Phases == {"idle", "executing", "storeTip", "commitState", "clean"}

Init ==
    /\ txs = {}
    /\ nextNonce = [s \in Senders |-> 0]
    /\ account = [s \in Senders |-> [nonce |-> 0, balance |-> InitialBalance]]
    /\ executed = [t \in Txs |-> 0]
    /\ saved = [account |-> account, executed |-> executed]
    /\ phase = "idle"
    /\ batch = {}
    /\ block = {}
    /\ onChain = {}
    /\ lastError = "none"
    /\ restarts = 0
    /\ disturbed = FALSE
    /\ abandoned = {}
-----------------------------------------------------------------------------
(* Package mempool.                                                        *)

\* What Submit wants to see on the sender's account.
Required(t) == t.fee + (IF t.kind = "registration" THEN t.amount ELSE 0)

\* The nonce check.  The account is only consulted for the first transaction
\* of a sender since the node started.
Admissible(t) ==
    IF nextNonce[t.sender] = 0
    THEN /\ account[t.sender].balance >= Required(t)
         /\ t.nonce = account[t.sender].nonce + 1
    ELSE t.nonce = nextNonce[t.sender] + 1

Submit(t) ==
    /\ Cardinality(txs) < MaxSize
    /\ t \notin txs
    /\ Admissible(t)
    /\ txs' = txs \cup {t}
    /\ nextNonce' = [nextNonce EXCEPT ![t.sender] = t.nonce]
    /\ UNCHANGED <<state, disk, phase, batch, block, lastError, restarts, history>>

\* Mutant of Expire: the sweep finds the transaction and keeps it.
ExpireKeeps(t) == MayExpire /\ t \in txs /\ UNCHANGED vars

\* PendingTxs, called by the builder and by RPC queries, drops what outlived
\* the TTL.  nextNonce stays as it is.
Expire(t) ==
    /\ MayExpire
    /\ t \in txs
    /\ txs' = txs \ {t}
    /\ disturbed' = TRUE
    /\ UNCHANGED <<nextNonce, state, disk, phase, batch, block, lastError,
                   restarts, abandoned>>
-----------------------------------------------------------------------------
(* BuildBlock.                                                             *)

\* The MaxTxs transactions with the highest fees.  Equal fees are ordered by
\* timestamp and intent ID, which the model leaves open.
Chosen ==
    {S \in SUBSET txs :
        /\ Cardinality(S) =
              IF Cardinality(txs) > MaxTxs THEN MaxTxs ELSE Cardinality(txs)
        /\ \A t \in S, u \in txs \ S : u.fee <= t.fee}

StartBlock ==
    /\ phase = "idle"
    /\ batch' \in Chosen
    /\ block' = {}
    /\ phase' = "executing"
    /\ disturbed' = (disturbed \/ batch' # txs)
    /\ UNCHANGED <<pool, state, disk, lastError, restarts, abandoned>>

\* Execution order: by sender, then by nonce.
Before(t, u) ==
    t.sender < u.sender \/ (t.sender = u.sender /\ t.nonce < u.nonce)

Registered(key) ==
    \E t \in Txs : t.kind = "registration" /\ t.key = key /\ executed[t] > 0

\* The error of executing t on the state, "none" if there is none.  The checks
\* are made in this order.
Outcome(t) ==
    LET acc  == account[t.sender]
        cost == t.amount + (IF t.kind = "contract" THEN 0 ELSE t.fee)
    IN  IF t.kind = "failing" THEN "vm"
        ELSE IF t.kind # "contract" /\ t.nonce # acc.nonce + 1 THEN "nonce"
        ELSE IF acc.balance < cost THEN "balance"
        ELSE IF t.kind = "registration" /\ Registered(t.key) THEN "registered"
        ELSE "none"

\* A transfer credits the recipient before it debits the sender, which may be
\* the same account.
Transferred(t) ==
    LET credited == [account EXCEPT ![t.to].balance = @ + t.amount]
    IN  [credited EXCEPT ![t.sender].balance = @ - t.amount - t.fee,
                         ![t.sender].nonce = @ + 1]

\* A contract transaction is charged the gas used; its nonce is not looked at.
GasCharged(t) == [account EXCEPT ![t.sender].balance = @ - t.amount]

Applied(t) ==
    CASE t.kind = "standard" -> Transferred(t)
      [] t.kind = "contract" -> GasCharged(t)
      [] t.kind = "registration" ->
            [account EXCEPT ![t.sender].balance = @ - t.amount - t.fee,
                            ![t.sender].nonce = @ + 1]

\* The stake of a registration is debited on the shared account before the
\* key is found to be registered already.
AfterError(t) ==
    IF Outcome(t) = "registered"
    THEN [account EXCEPT ![t.sender].balance = @ - t.amount]
    ELSE account

\* The next transaction of the sorted list.
IsNext(t) == t \in batch /\ \A u \in batch \ {t} : ~ Before(u, t)

ExecuteTx(t) ==
    /\ phase = "executing"
    /\ IsNext(t)
    /\ Outcome(t) = "none"
    /\ account' = Applied(t)
    /\ executed' = [executed EXCEPT ![t] = @ + 1]
    /\ batch' = batch \ {t}
    /\ block' = block \cup {t}
    /\ disturbed' = (disturbed \/ t.kind = "contract")
    /\ UNCHANGED <<pool, disk, phase, lastError, restarts, abandoned>>

\* BuildBlock returns the error.  What the transactions before it did to the
\* state stays, and so do all the transactions in the pool.
FailBuild(t) ==
    /\ phase = "executing"
    /\ IsNext(t)
    /\ Outcome(t) # "none"
    /\ account' = AfterError(t)
    /\ batch' = {}
    /\ block' = {}
    /\ phase' = "idle"
    /\ lastError' = Outcome(t)
    /\ disturbed' = (disturbed \/ Outcome(t) # "nonce")
    /\ abandoned' = abandoned \cup block
    /\ UNCHANGED <<pool, executed, disk, restarts>>

\* Mutant of FinishBlock: the state is persisted before the tip.
FinishBlockSaves ==
    /\ phase = "executing"
    /\ batch = {}
    /\ phase' = "storeTip"
    /\ lastError' = "none"
    /\ saved' = [account |-> account, executed |-> executed]
    /\ UNCHANGED <<pool, state, onChain, batch, block, restarts, history>>

\* The block is complete, signed and broadcast.
FinishBlock ==
    /\ phase = "executing"
    /\ batch = {}
    /\ phase' = "storeTip"
    /\ lastError' = "none"
    /\ UNCHANGED <<pool, state, disk, batch, block, restarts, history>>
-----------------------------------------------------------------------------
(* The proposer's branch of runConsensusLoop, after BuildBlock.            *)

\* StoreBlockHeader, StoreTip.
StoreTip ==
    /\ phase = "storeTip"
    /\ onChain' = onChain \cup block
    /\ phase' = "commitState"
    /\ UNCHANGED <<pool, state, saved, batch, block, lastError, restarts, history>>

CommitState ==
    /\ phase = "commitState"
    /\ saved' = [account |-> account, executed |-> executed]
    /\ phase' = "clean"
    /\ UNCHANGED <<pool, state, onChain, batch, block, lastError, restarts, history>>

\* Mutant of CleanMempool: the transactions of the block stay in the pool.
CleanNothing ==
    /\ phase = "clean"
    /\ block' = {}
    /\ phase' = "idle"
    /\ UNCHANGED <<pool, state, disk, batch, lastError, restarts, history>>

CleanMempool ==
    /\ phase = "clean"
    /\ txs' = txs \ block
    /\ block' = {}
    /\ phase' = "idle"
    /\ UNCHANGED <<nextNonce, state, disk, batch, lastError, restarts, history>>

\* Mutant of Restart: the executed transactions are remembered, the accounts
\* are not reloaded.
RestartKeepsState ==
    /\ restarts < MaxRestarts
    /\ restarts' = restarts + 1
    /\ txs' = {}
    /\ nextNonce' = [s \in Senders |-> 0]
    /\ account' = saved.account
    /\ phase' = "idle"
    /\ batch' = {}
    /\ block' = {}
    /\ lastError' = "none"
    /\ disturbed' = FALSE
    /\ UNCHANGED <<executed, disk, abandoned>>

\* The process ends, at any point, and starts again: the pool is empty and
\* Recover loads the stored accounts.
Restart ==
    /\ restarts < MaxRestarts
    /\ restarts' = restarts + 1
    /\ txs' = {}
    /\ nextNonce' = [s \in Senders |-> 0]
    /\ account' = saved.account
    /\ executed' = saved.executed
    /\ phase' = "idle"
    /\ batch' = {}
    /\ block' = {}
    /\ lastError' = "none"
    /\ disturbed' = FALSE
    /\ UNCHANGED <<disk, abandoned>>
-----------------------------------------------------------------------------
Build ==
    \/ StartBlock
    \/ \E t \in Txs : ExecuteTx(t) \/ FailBuild(t)
    \/ FinishBlock
    \/ StoreTip
    \/ CommitState
    \/ CleanMempool

Next ==
    \/ \E t \in Txs : Submit(t) \/ Expire(t)
    \/ Build
    \/ Restart

Spec == Init /\ [][Next]_vars

\* The consensus goroutine keeps running, and time passes for every pooled
\* transaction.
Fairness == WF_vars(Build) /\ \A t \in Txs : WF_vars(Expire(t))
-----------------------------------------------------------------------------
Accounts == [Senders -> [nonce : Nat, balance : Nat]]
Counts == [Txs -> Nat]

\* Type invariant: no balance goes below zero.
ProductionTypeOK ==
    /\ txs \subseteq Txs
    /\ nextNonce \in [Senders -> Nat]
    /\ account \in Accounts
    /\ executed \in Counts
    /\ saved \in [account : Accounts, executed : Counts]
    /\ phase \in Phases
    /\ batch \subseteq Txs
    /\ block \subseteq Txs
    /\ onChain \subseteq Txs
    /\ lastError \in {"none", "vm", "nonce", "balance", "registered"}
    /\ restarts \in 0 .. MaxRestarts
    /\ disturbed \in BOOLEAN
    /\ abandoned \subseteq Txs

\* The transactions that ApplyTransaction, not the VM, executed for s.
NoncedOf(s, counts) ==
    {t \in Txs : t.sender = s /\ t.kind \in {"standard", "registration"}
                 /\ counts[t] > 0}

NoncesSpent(accounts, counts) ==
    \A s \in Senders :
        /\ {t.nonce : t \in NoncedOf(s, counts)} = 1 .. accounts[s].nonce
        /\ \A t \in NoncedOf(s, counts) :
              /\ counts[t] = 1
              /\ \A u \in NoncedOf(s, counts) : u.nonce = t.nonce => u = t

\* Every transfer and registration takes effect at most once, and each nonce
\* of an account was spent by exactly one of them, in the running state and in
\* the persisted one: across failed builds, which leave transactions both
\* executed and pooled, expiry, crashes between any two steps of the proposer,
\* and resubmission after a restart (state/applier.go, step 4).
NoncedIntentsOnce ==
    /\ NoncesSpent(account, executed)
    /\ NoncesSpent(saved.account, saved.executed)

\* BuildBlock fails because of a nonce only after something came between pool
\* and accounts since the start of the node: a transaction expired, a block left
\* pooled transactions behind, a contract transaction was executed, which takes
\* a nonce of the pool and none of the account, or a build failed for another
\* reason.  Otherwise the pool admits a sender's nonces without a gap and the
\* builder executes them in order, whatever is submitted while it builds.
NoNonceErrors == lastError = "nonce" => disturbed

\* Whatever CommitState has persisted is the effect of transactions of blocks
\* whose tip is stored, or was left behind by a build that failed.
PersistedEffectsHaveBlock ==
    \A t \in Txs : saved.executed[t] > 0 => t \in onChain \cup abandoned

\* The pool never holds two transactions with the same sender and nonce, so
\* the order BuildBlock sorts them into is the only one (Mempool.Submit).
OneTxPerNonce ==
    \A t, u \in txs : t.sender = u.sender /\ t.nonce = u.nonce => t = u
=============================================================================
