--------------------------- MODULE BlockExecution ---------------------------
(***************************************************************************)
(* What executing one block after another does to the ledger: evidence,    *)
(* BeginBlock (token issuance, validator rewards, the epoch transition,    *)
(* the validator-set snapshot), the block's transactions, FinalizeBlock    *)
(* (fee distribution).  BuildBlock and ValidateBlock run the same steps in *)
(* the same order; this module is one node executing accepted blocks.      *)
(*                                                                         *)
(* The staking operations come from module Staking.  Accounts other than   *)
(* the treasury's zero address are those of Staking.                       *)
(***************************************************************************)
EXTENDS Staking, RewardShares

CONSTANTS
    InitialSupply,  \* economics/total_supply before the first block; no code
                    \* outside the tests sets it, so 0 unless an embedder does
    InflationBP,    \* YearlyInflationBasisPoints, 500 in the code
    EpochsPerYear,  \* SecondsPerYear / BlocksPerEpoch in the code
    Reported,       \* offenses the evidence of this instance is about
    VoteOrders,     \* orders in which evidence may list its two votes
    TxKinds,        \* kinds of transaction the blocks of this instance hold
    Transfers,      \* amounts a transaction moves
    Fees,           \* values of MaxFee
    GasUses,        \* gas a contract call may end up using
    MaxFees         \* bound: fees of one block

ASSUME SupplyAssumption ==
    /\ InitialSupply \in Nat
    /\ InflationBP \in Nat
    /\ EpochsPerYear \in Nat \ {0}

ASSUME EvidenceAssumption ==
    /\ Reported \subseteq {"doublePrevote", "doublePrecommit"}
    /\ VoteOrders \subseteq {"AB", "BA"}

ASSUME TxAssumption ==
    /\ TxKinds \subseteq {"transfer", "contract", "registration", "staking"}
    /\ Transfers \subseteq Nat
    /\ Fees \subseteq Nat \ {0}
    /\ GasUses \subseteq Nat
    /\ MaxFees \in Nat

VARIABLES
    height,         \* the block being executed, or the last one executed
    phase,          \* "evidence" between blocks, "txs" inside one
    totalSupply,    \* key economics/total_supply
    treasury,       \* balance of the treasury account
    snapshots,      \* keys snapshot/<epoch>: the active records by epoch
    processed,      \* keys evidence/processed/<hash>: height of the block
    unreadable,     \* validator records in the layout of the applier
    fees            \* totalFees of the block being executed

blockVars == <<height, phase, totalSupply, treasury, snapshots, processed,
               unreadable, fees>>
vars == <<stakingVars, blockVars>>

\* A key-value map with `key` set to `value`.
Put(map, key, value) ==
    [k \in DOMAIN map \cup {key} |-> IF k = key THEN value ELSE map[k]]

-----------------------------------------------------------------------------
(* Evidence.                                                               *)

\* Two conflicting votes of one validator.  The hash covers both votes in the
\* order they are listed, so the record stands for its hash.
Evidence == [validator: ConsensusIDs, offense: Reported, order: VoteOrders]

\* ProcessEvidence for one piece of evidence of the next block.  Evidence that
\* is already processed, or names no validator or a removed one, is an error
\* and its block is not executed.  A slash of zero changes no record, but the
\* evidence still counts as processed.
ProcessEvidence(ev) ==
    /\ phase = "evidence"
    /\ ev \notin DOMAIN processed
    /\ validators[ev.validator].status \notin {"absent", "removed"}
    /\ \/ SlashValidator(ev.validator, ev.offense)
       \/ /\ SlashAmount(SlashPercent[ev.offense],
                         validators[ev.validator].bondedStake) = 0
          /\ UNCHANGED stakingVars
    /\ processed' = Put(processed, ev, height + 1)
    /\ UNCHANGED <<height, phase, totalSupply, treasury, snapshots, unreadable,
                   fees>>

-----------------------------------------------------------------------------
(* BeginBlock.                                                             *)

\* Computed in unbounded integers; a result that is no uint64 counts as 0.
PerEpochIssuance(supply) ==
    LET result == (supply * InflationBP) \div (EpochsPerYear * BasisPoints)
    IN  IF result < Word THEN result ELSE 0

Percent(amount, p) == ((amount * p) % Word) \div 100

\* A snapshot maps each validator that was active to its record.
Power(snap) == [id \in DOMAIN snap |-> snap[id].votingPower]
TotalPower(snap) == Total(Power(snap), DOMAIN snap) % Word

ActiveRecords == [id \in GetActiveValidators |-> validators[id]]

\* The balances after each validator of `snap` is paid its reward.
Credited(reward, snap) ==
    [a \in Accounts |->
        balances[a] + Total(reward, {id \in DOMAIN snap : snap[id].operator = a})]

\* The possible balances after `amount` is split over the validators of
\* `snap`; they differ in which of several top validators gets the remainder.
PaidOut(amount, snap) ==
    IF amount = 0 \/ TotalPower(snap) = 0
    THEN {balances}
    ELSE {Credited(Rewards(amount, Power(snap), DOMAIN snap, top, Word), snap) :
             top \in TopPower(Power(snap), DOMAIN snap)}

\* The pool of a completed epoch goes to the validators of the snapshot before
\* it; the pool of epoch 1 is never paid.
DistributeValidatorRewards(epoch, pool) ==
    IF epoch = 1 \/ epoch - 1 \notin DOMAIN snapshots
    THEN {balances}
    ELSE PaidOut(pool, snapshots[epoch - 1])

\* GetSnapshot, then CreateSnapshot when there is none for the epoch.
CreateSnapshot(epoch, active) ==
    snapshots' = IF epoch \in DOMAIN snapshots
                 THEN snapshots
                 ELSE Put(snapshots, epoch, active)

\* Mutant of EpochBoundary: the rewards are overwritten by the transition.
EpochBoundaryLosesRewards(h) ==
    LET issuance == PerEpochIssuance(totalSupply)
    IN  /\ totalSupply' = totalSupply + issuance
        /\ treasury' = treasury + Percent(issuance, 10)
        /\ ProcessEpochTransition(h, balances)

\* IssueEpochTokens and DistributeValidatorRewards, then the epoch transition.
EpochBoundary(h) ==
    LET issuance == PerEpochIssuance(totalSupply)
    IN  /\ totalSupply' = totalSupply + issuance
        /\ treasury' = treasury + Percent(issuance, 10)
        /\ \E paid \in DistributeValidatorRewards(EpochAtHeight(h),
                                                  Percent(issuance, 90)) :
              ProcessEpochTransition(h, paid)

BeginBlock ==
    /\ phase = "evidence"
    /\ height < MaxHeight
    /\ height' = height + 1
    /\ phase' = "txs"
    /\ \/ /\ IsEpochBoundary(height + 1)
          /\ EpochBoundary(height + 1)
       \/ /\ ~IsEpochBoundary(height + 1)
          /\ UNCHANGED <<stakingVars, totalSupply, treasury>>
    /\ CreateSnapshot(currentEpoch', ActiveRecords')
    /\ UNCHANGED <<processed, unreadable, fees>>

-----------------------------------------------------------------------------
(* Transactions.                                                           *)

\* Collecting the fee of a transaction of this block.
AddFee(maxFee) ==
    /\ phase = "txs"
    /\ fees + maxFee <= MaxFees
    /\ fees' = fees + maxFee

\* Mutant of ApplyTransfer: both accounts are read before either is written,
\* so that the credit of a transfer to oneself overwrites the debit.
ApplyTransferStale(from, to, amount, maxFee) ==
    /\ "transfer" \in TxKinds
    /\ AddFee(maxFee)
    /\ balances[from] >= amount + maxFee
    /\ balances' = [balances EXCEPT ![from] = @ - amount - maxFee,
                                    ![to] = balances[to] + amount]
    /\ UNCHANGED <<currentEpoch, validators, byOperator, byPubkey, totalBonded,
                   burned, height, phase, totalSupply, treasury, snapshots,
                   processed, unreadable>>

\* ApplyTransaction of a standard transaction: the sender pays the amount and
\* MaxFee.  Sender and recipient may be the same account.
ApplyTransfer(from, to, amount, maxFee) ==
    /\ "transfer" \in TxKinds
    /\ AddFee(maxFee)
    /\ balances[from] >= amount + maxFee
    /\ balances' = [balances EXCEPT ![to] = @ + amount,
                                    ![from] = @ - amount - maxFee]
    /\ UNCHANGED <<currentEpoch, validators, byOperator, byPubkey, totalBonded,
                   burned, height, phase, totalSupply, treasury, snapshots,
                   processed, unreadable>>

\* A contract deployment or call run by the VM: the sender pays for the gas
\* used, while the block's fee total grows by MaxFee.
ExecuteContract(from, gasUsed, maxFee) ==
    /\ "contract" \in TxKinds
    /\ AddFee(maxFee)
    /\ balances[from] >= gasUsed
    /\ balances' = [balances EXCEPT ![from] = @ - gasUsed]
    /\ UNCHANGED <<currentEpoch, validators, byOperator, byPubkey, totalBonded,
                   burned, height, phase, totalSupply, treasury, snapshots,
                   processed, unreadable>>

\* ApplyTransaction of a validator registration.  It writes the indexes and
\* the total, but the record in a layout of its own, which Validator.Decode
\* rejects, and no sequence entry: for the registry there is no validator.
ApplyRegistration(id, op, stake, maxFee) ==
    /\ "registration" \in TxKinds
    /\ AddFee(maxFee)
    /\ stake >= MinimumValidatorStake
    /\ balances[op] >= stake + maxFee
    /\ validators[id].status = "absent"
    /\ id \notin unreadable
    /\ balances' = [balances EXCEPT ![op] = @ - stake - maxFee]
    /\ unreadable' = unreadable \cup {id}
    /\ byPubkey' = byPubkey \cup {id}
    /\ byOperator' = [byOperator EXCEPT ![op] = id]
    /\ totalBonded' = totalBonded + stake
    /\ UNCHANGED <<currentEpoch, validators, burned, height, phase, totalSupply,
                   treasury, snapshots, processed>>

\* A staking operation called between BeginBlock and FinalizeBlock.
StakingOperation ==
    /\ "staking" \in TxKinds
    /\ phase = "txs"
    /\ \/ \E id \in ConsensusIDs, op \in Accounts, stake \in StakeAmounts :
             RegisterValidator(id, op, stake)
       \/ \E from \in Accounts, id \in ConsensusIDs, amount \in StakeAmounts :
             Bond(from, id, amount)
       \/ \E id \in ConsensusIDs, cooldown \in 1 .. MaxCooldown :
             StartUnstake(id, currentEpoch + cooldown)
    /\ UNCHANGED blockVars

-----------------------------------------------------------------------------
(* FinalizeBlock.                                                          *)

\* Mutant of DistributeRewards: the treasury's share is paid out too.
DistributeAllFees(totalFees) == PaidOut(totalFees, ActiveRecords)

\* 70% of the fees go to the validators active now; the shares computed for
\* burning and for the treasury are credited to nobody.
DistributeRewards(totalFees) == PaidOut(Percent(totalFees, 70), ActiveRecords)

FinalizeBlock ==
    /\ phase = "txs"
    /\ \E paid \in DistributeRewards(fees) : balances' = paid
    /\ fees' = 0
    /\ phase' = "evidence"
    /\ UNCHANGED <<currentEpoch, validators, byOperator, byPubkey, totalBonded,
                   burned, height, totalSupply, treasury, snapshots, processed,
                   unreadable>>

-----------------------------------------------------------------------------
BlockInit ==
    /\ Init
    /\ height = 0
    /\ phase = "evidence"
    /\ totalSupply = InitialSupply
    /\ treasury = 0
    /\ snapshots = << >>
    /\ processed = << >>
    /\ unreadable = {}
    /\ fees = 0

BlockNext ==
    \/ \E ev \in Evidence : ProcessEvidence(ev)
    \/ BeginBlock
    \/ \E from, to \in Accounts, amount \in Transfers, maxFee \in Fees :
          ApplyTransfer(from, to, amount, maxFee)
    \/ \E from \in Accounts, gasUsed \in GasUses, maxFee \in Fees :
          ExecuteContract(from, gasUsed, maxFee)
    \/ \E id \in ConsensusIDs, op \in Accounts, stake \in StakeAmounts,
          maxFee \in Fees : ApplyRegistration(id, op, stake, maxFee)
    \/ StakingOperation
    \/ FinalizeBlock

BlockSpec == BlockInit /\ [][BlockNext]_vars

-----------------------------------------------------------------------------
(* Properties.                                                             *)

\* Every variable keeps its type, so no balance, stake or fee total of block
\* execution ever goes below zero.
BlockTypeOK ==
    /\ TypeOK
    /\ height \in 0 .. MaxHeight
    /\ phase \in {"evidence", "txs"}
    /\ totalSupply \in Nat
    /\ treasury \in Nat
    /\ \A e \in DOMAIN snapshots :
          /\ DOMAIN snapshots[e] \subseteq ConsensusIDs
          /\ \A id \in DOMAIN snapshots[e] : snapshots[e][id] \in Validator
    /\ DOMAIN processed \subseteq Evidence
    /\ \A ev \in DOMAIN processed : processed[ev] \in 1 .. MaxHeight + 1
    /\ unreadable \subseteq ConsensusIDs
    /\ fees \in 0 .. MaxFees

\* Tokens in existence; a fee leaves circulation until FinalizeBlock pays it.
Circulating == Total(balances, Accounts) + treasury + totalBonded

\* Executing blocks never creates tokens other than the issued ones: what is
\* in existence and what was slashed stays within the initial supply plus the
\* issuance recorded in economics/total_supply (IssueEpochTokens,
\* DistributeValidatorRewards, DistributeRewards).
NoTokensFromNothing ==
    Circulating + burned
        <= InitialBalance * Cardinality(Accounts) + (totalSupply - InitialSupply)

\* No transaction, staking operation or fee distribution creates tokens: with
\* the fees collected so far counted in, the total only grows by the issuance of
\* BeginBlock (IssuancePaidExactly) and by contract calls, which are charged the
\* gas used and reported as MaxFee (ApplyTransaction, DistributeRewards, Bond,
\* Slash).
TransactionsCreateNoTokens ==
    [][\/ (Circulating + burned + fees)' <= Circulating + burned + fees
       \/ phase = "evidence" /\ phase' = "txs"
       \/ \E from \in Accounts, gasUsed \in GasUses, maxFee \in Fees :
             ExecuteContract(from, gasUsed, maxFee)]_vars

\* What BeginBlock of the next height adds to the tokens in existence: the
\* treasury's 10% of the issuance and, once a snapshot of the epoch before has
\* voting power, the validators' 90%.
NextIssue ==
    LET issuance == PerEpochIssuance(totalSupply)
        earlier  == EpochAtHeight(height + 1) - 1
        pool     == IF /\ earlier \in DOMAIN snapshots \ {0}
                       /\ TotalPower(snapshots[earlier]) # 0
                    THEN Percent(issuance, 90) ELSE 0
    IN  IF IsEpochBoundary(height + 1)
        THEN Percent(issuance, 10) + pool ELSE 0

\* An epoch boundary pays out exactly the issuance, whatever the rounding and
\* whatever stake the same transition activates, releases or unjails; inside an
\* epoch BeginBlock moves no tokens.
IssuancePaidExactly ==
    [][phase = "evidence" /\ phase' = "txs" =>
          Circulating' = Circulating + NextIssue]_vars

\* With every height executed, the epoch counter never loses step with the
\* height, so the mismatch error of ProcessEpochTransition cannot occur.
EpochFollowsHeight == currentEpoch = height \div BlocksPerEpoch

\* The validator set a commit proof of an epoch is checked against is fixed by
\* the epoch's first block: later blocks, slashes and unstakes of the epoch do
\* not change it (BeginBlock, CreateSnapshot).
SnapshotsImmutable ==
    [][\A e \in DOMAIN snapshots :
          e \in DOMAIN snapshots' /\ snapshots'[e] = snapshots[e]]_vars

\* A validator caught double-signing during an epoch is out of the next
\* epoch's validator set, even when the evidence arrives with the block that
\* takes the snapshot: ProcessEvidence runs before BeginBlock, and the epoch
\* transition in between does not release it.  (A slash that rounds to zero
\* does not jail.)
PunishedLeaveTheSet ==
    \A ev \in DOMAIN processed :
        LET id == ev.validator
            e  == (processed[ev] - 1) \div BlocksPerEpoch
        IN  /\ {e, e + 1} \subseteq DOMAIN snapshots
            /\ id \in DOMAIN snapshots[e]
            /\ SlashAmount(SlashPercent[ev.offense],
                           snapshots[e][id].bondedStake) # 0
            => id \notin DOMAIN snapshots[e + 1]

\* FinalizeBlock pays the validators exactly their 70% of the fees, whatever
\* the rounding, unless no validator has voting power.
FeesPaidExactly ==
    [][phase = "txs" /\ phase' = "evidence" =>
          Total(balances', Accounts) - Total(balances, Accounts)
              = IF TotalPower(ActiveRecords) = 0 THEN 0
                ELSE Percent(fees, 70)]_vars

\* staking/total_bonded covers the stakes of all validators the registry knows,
\* so that no later slash or release underflows it, registrations by
\* transaction included.
BondedCoversStakes == Total(Stakes, Bonded) <= totalBonded

\* One double-sign (two given votes) is punished at most once.
OneSlashPerDoubleSign ==
    \A ev1, ev2 \in DOMAIN processed :
        ev1.validator = ev2.validator /\ ev1.offense = ev2.offense => ev1 = ev2
=============================================================================
