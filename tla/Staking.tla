------------------------------ MODULE Staking -------------------------------
(***************************************************************************)
(* The validator registry and the stake ledger of package staking:         *)
(* registration, bonding, unstaking, slashing with jail, and the epoch     *)
(* transition that activates, releases and unjails validators.             *)
(*                                                                         *)
(* All of it lives in the key-value store and the accounts of one node and *)
(* is only touched by the goroutine that executes blocks, so every         *)
(* operation is one step.  A call that returns an error before its first   *)
(* write leaves the state alone and is not a step.                         *)
(***************************************************************************)
EXTENDS Integers, FiniteSets, Totals

CONSTANTS
    ConsensusIDs,           \* identities derived from consensus public keys
    Accounts,               \* account addresses: operators and bonding senders
    None,                   \* no consensus ID / no account
    MinimumValidatorStake,  \* 100_000 in the code
    StakeAmounts,           \* amounts a caller may register or bond
    InitialBalance,         \* balance of each account at the start
    SlashPercent,           \* basis points per slashable offense
    JailEpochs,             \* 10 in the code
    MaxCooldown,            \* longest cooldown a caller of StartUnstake asks for
    BlocksPerEpoch,         \* 100 in the code
    MaxHeight,              \* bound: the last height of a behaviour
    Word                    \* 2^64: voting power and slash products are uint64

Offenses == {"doublePrevote", "doublePrecommit", "invalidCommit"}

\* A slash percentage is in basis points.
BasisPoints == 10000

ASSUME SetAssumption ==
    /\ IsFiniteSet(ConsensusIDs)
    /\ IsFiniteSet(Accounts)
    /\ None \notin ConsensusIDs
    /\ None \notin Accounts

ASSUME AmountAssumption ==
    /\ MinimumValidatorStake \in Nat
    /\ StakeAmounts \subseteq Nat
    /\ InitialBalance \in Nat
    /\ SlashPercent \in [Offenses -> 0 .. BasisPoints]
    /\ Word \in Nat \ {0}

ASSUME EpochAssumption ==
    /\ JailEpochs \in Nat \ {0}
    /\ MaxCooldown \in Nat \ {0}
    /\ BlocksPerEpoch \in Nat \ {0}
    /\ MaxHeight \in Nat

VARIABLES
    currentEpoch,   \* key epoch/current
    validators,     \* keys validator/<consensus ID>; status "absent" is no key
    byOperator,     \* keys validator/operator/<address>
    byPubkey,       \* keys validator/pubkey/<key>; a key is named by its ID
    totalBonded,    \* key staking/total_bonded
    balances,       \* the accounts
    burned          \* history: all stake ever slashed

stakingVars == <<currentEpoch, validators, byOperator, byPubkey, totalBonded,
                 balances, burned>>

-----------------------------------------------------------------------------
(* The validator record and its lifecycle.                                 *)

Status == {"absent", "pending", "active", "jailed", "unstaking", "removed"}

\* A stored record; "absent" stands for a key that is not in the store.
Validator ==
    [status: Status, operator: Accounts \cup {None}, bondedStake: Nat,
     votingPower: Nat, jailedUntil: Nat, activationEpoch: Nat,
     unstakeEpoch: Nat]

NoRecord ==
    [status |-> "absent", operator |-> None, bondedStake |-> 0,
     votingPower |-> 0, jailedUntil |-> 0, activationEpoch |-> 0,
     unstakeEpoch |-> 0]

allowedTransitions ==
    { <<"pending", "active">>, <<"active", "jailed">>,
      <<"active", "unstaking">>, <<"jailed", "active">>,
      <<"unstaking", "removed">> }

IsValidTransition(from, to) == <<from, to>> \in allowedTransitions

\* A new pending validator: it activates at the next epoch.
NewValidator(op, stake) ==
    [NoRecord EXCEPT !.status = "pending", !.operator = op,
                     !.bondedStake = stake,
                     !.activationEpoch = currentEpoch + 1]

\* What the registry stores for v: voting power is recomputed on every store.
stakeToVotingPower(stake) == stake % Word

Stored(v) ==
    [v EXCEPT !.votingPower = IF v.status = "active"
                              THEN stakeToVotingPower(v.bondedStake)
                              ELSE 0]

UpdateValidator(id, v) == validators' = [validators EXCEPT ![id] = Stored(v)]

GetActiveValidators == {id \in ConsensusIDs : validators[id].status = "active"}

-----------------------------------------------------------------------------
(* Epoch arithmetic.                                                       *)

EpochAtHeight(height) ==
    IF height = 0 THEN 0 ELSE ((height - 1) \div BlocksPerEpoch) + 1

IsEpochBoundary(height) == height # 0 /\ height % BlocksPerEpoch = 0

-----------------------------------------------------------------------------
(* Operations.                                                             *)

Init ==
    /\ currentEpoch = 0
    /\ validators = [id \in ConsensusIDs |-> NoRecord]
    /\ byOperator = [a \in Accounts |-> None]
    /\ byPubkey = {}
    /\ totalBonded = 0
    /\ balances = [a \in Accounts |-> InitialBalance]
    /\ burned = 0

\* Mutant of RegisterValidator: total_bonded is not increased.
RegisterValidatorKeepsTotal(id, op, stake) ==
    /\ balances[op] >= stake
    /\ validators[id].status = "absent"
    /\ id \notin byPubkey
    /\ byOperator[op] = None
    /\ stake >= MinimumValidatorStake
    /\ balances' = [balances EXCEPT ![op] = @ - stake]
    /\ validators' = [validators EXCEPT ![id] = NewValidator(op, stake)]
    /\ byPubkey' = byPubkey \cup {id}
    /\ byOperator' = [byOperator EXCEPT ![op] = id]
    /\ UNCHANGED <<currentEpoch, totalBonded, burned>>

\* The caller deducts the stake from the operator's balance first.
RegisterValidator(id, op, stake) ==
    /\ balances[op] >= stake
    /\ validators[id].status = "absent"
    /\ id \notin byPubkey
    /\ byOperator[op] = None
    /\ stake >= MinimumValidatorStake
    /\ balances' = [balances EXCEPT ![op] = @ - stake]
    /\ validators' = [validators EXCEPT ![id] = NewValidator(op, stake)]
    /\ byPubkey' = byPubkey \cup {id}
    /\ byOperator' = [byOperator EXCEPT ![op] = id]
    /\ totalBonded' = totalBonded + stake
    /\ UNCHANGED <<currentEpoch, burned>>

\* Mutant of Bond: a validator of any status accepts stake.
BondAnyStatus(from, id, amount) ==
    /\ balances[from] >= amount
    /\ balances' = [balances EXCEPT ![from] = @ - amount]
    /\ UpdateValidator(id, [validators[id] EXCEPT !.bondedStake = @ + amount])
    /\ totalBonded' = totalBonded + amount
    /\ UNCHANGED <<currentEpoch, byOperator, byPubkey, burned>>

Bond(from, id, amount) ==
    /\ balances[from] >= amount
    /\ validators[id].status \in {"pending", "active"}
    /\ balances' = [balances EXCEPT ![from] = @ - amount]
    /\ UpdateValidator(id, [validators[id] EXCEPT !.bondedStake = @ + amount])
    /\ totalBonded' = totalBonded + amount
    /\ UNCHANGED <<currentEpoch, byOperator, byPubkey, burned>>

StartUnstake(id, unstakeEpoch) ==
    /\ IsValidTransition(validators[id].status, "unstaking")
    /\ UpdateValidator(id, [validators[id] EXCEPT !.status = "unstaking",
                                                  !.unstakeEpoch = unstakeEpoch])
    /\ UNCHANGED <<currentEpoch, byOperator, byPubkey, totalBonded, balances,
                   burned>>

\* The product is taken in uint64 arithmetic.
SlashAmount(slashPercent, stake) ==
    (((stake % Word) * slashPercent) % Word) \div BasisPoints

\* Mutant of Slashed: a slash jails a validator of any status.
SlashedAlwaysJails(v, amount, jailEpochs) ==
    [v EXCEPT !.bondedStake = @ - amount, !.status = "jailed",
              !.jailedUntil = currentEpoch + jailEpochs]

\* What a slash of `amount` leaves of record v.
Slashed(v, amount, jailEpochs) ==
    LET w == [v EXCEPT !.bondedStake = @ - amount]
    IN  IF v.status = "active"
        THEN [w EXCEPT !.status = "jailed",
                       !.jailedUntil = currentEpoch + jailEpochs]
        ELSE w

\* Mutant of ApplySlash: total_bonded is not reduced.
ApplySlashKeepsTotal(id, slashPercent, jailEpochs) ==
    LET v      == validators[id]
        amount == SlashAmount(slashPercent, v.bondedStake)
    IN  /\ v.status \notin {"absent", "removed"}
        /\ amount # 0
        /\ UpdateValidator(id, Slashed(v, amount, jailEpochs))
        /\ burned' = burned + amount
        /\ UNCHANGED <<currentEpoch, byOperator, byPubkey, totalBonded, balances>>

ApplySlash(id, slashPercent, jailEpochs) ==
    LET v      == validators[id]
        amount == SlashAmount(slashPercent, v.bondedStake)
    IN  /\ v.status \notin {"absent", "removed"}
        /\ amount # 0
        /\ UpdateValidator(id, Slashed(v, amount, jailEpochs))
        /\ totalBonded' = totalBonded - amount
        /\ burned' = burned + amount
        /\ UNCHANGED <<currentEpoch, byOperator, byPubkey, balances>>

SlashValidator(id, offense) == ApplySlash(id, SlashPercent[offense], JailEpochs)

\* Mutant of Unjailed: one epoch early.
UnjailedEarly(next) ==
    {id \in ConsensusIDs : /\ validators[id].status = "jailed"
                           /\ validators[id].jailedUntil <= next + 1}

\* Mutant of Unjailed: < for <=.
UnjailedLate(next) ==
    {id \in ConsensusIDs : /\ validators[id].status = "jailed"
                           /\ validators[id].jailedUntil < next}

\* The validators the three loops of the transition to epoch `next` act on.
Activated(next) ==
    {id \in ConsensusIDs : /\ validators[id].status = "pending"
                           /\ validators[id].activationEpoch = next}
Released(next) ==
    {id \in ConsensusIDs : /\ validators[id].status = "unstaking"
                           /\ validators[id].unstakeEpoch <= next}
Unjailed(next) ==
    {id \in ConsensusIDs : /\ validators[id].status = "jailed"
                           /\ validators[id].jailedUntil <= next}

Stakes == [id \in ConsensusIDs |-> validators[id].bondedStake]

\* Mutant of ReleaseStake: the operator index keeps its entry.
ReleaseStakeKeepsOperator(R, paid) ==
    /\ balances' = [a \in Accounts |->
                      paid[a] + Total(Stakes,
                                      {id \in R : validators[id].operator = a})]
    /\ totalBonded' = totalBonded - Total(Stakes, R)
    /\ byPubkey' = byPubkey \ R
    /\ byOperator' = byOperator

\* ReleaseStake with RemoveValidator for every validator of R: the stake goes
\* back to the operator, the record stays with its stake, the indexes go.
\* `paid` is what the accounts hold when the release starts.
ReleaseStake(R, paid) ==
    /\ balances' = [a \in Accounts |->
                      paid[a] + Total(Stakes,
                                      {id \in R : validators[id].operator = a})]
    /\ totalBonded' = totalBonded - Total(Stakes, R)
    /\ byPubkey' = byPubkey \ R
    /\ byOperator' = [a \in Accounts |->
                        IF \E id \in R : validators[id].operator = a
                        THEN None ELSE byOperator[a]]

ActivateValidator(v, epoch) ==
    Stored([v EXCEPT !.status = "active", !.activationEpoch = epoch])
UnjailValidator(v) ==
    Stored([v EXCEPT !.status = "active", !.jailedUntil = 0])
RemoveValidator(v) ==
    Stored([v EXCEPT !.status = "removed"])

ProcessEpochTransition(height, paid) ==
    LET next == currentEpoch + 1
    IN  /\ EpochAtHeight(height) = next
        /\ validators' = [id \in ConsensusIDs |->
               CASE id \in Activated(next) -> ActivateValidator(validators[id], next)
                 [] id \in Released(next)  -> RemoveValidator(validators[id])
                 [] id \in Unjailed(next)  -> UnjailValidator(validators[id])
                 [] OTHER                  -> validators[id]]
        /\ ReleaseStake(Released(next), paid)
        /\ currentEpoch' = next
        /\ UNCHANGED burned

-----------------------------------------------------------------------------
Next ==
    \/ \E id \in ConsensusIDs, op \in Accounts, stake \in StakeAmounts :
          RegisterValidator(id, op, stake)
    \/ \E from \in Accounts, id \in ConsensusIDs, amount \in StakeAmounts :
          Bond(from, id, amount)
    \/ \E id \in ConsensusIDs, cooldown \in 1 .. MaxCooldown :
          StartUnstake(id, currentEpoch + cooldown)
    \/ \E id \in ConsensusIDs, offense \in Offenses : SlashValidator(id, offense)
    \/ \E height \in 1 .. MaxHeight :
          ProcessEpochTransition(height, balances)

Spec == Init /\ [][Next]_stakingVars

\* Blocks keep coming, so the epoch transition of the next epoch is never
\* postponed for ever.
EpochFairness == WF_stakingVars(\E height \in 1 .. MaxHeight :
                                    ProcessEpochTransition(height, balances))

FairSpec == Spec /\ EpochFairness

-----------------------------------------------------------------------------
(* Properties.                                                             *)

\* The validators whose stake is in the ledger's keeping.
Bonded == {id \in ConsensusIDs : validators[id].status \notin {"absent", "removed"}}

\* Every variable keeps its type; amounts never go below zero, so no
\* Amount.Sub of the code fails half-way through an operation.
TypeOK ==
    /\ currentEpoch \in Nat
    /\ validators \in [ConsensusIDs -> Validator]
    /\ byOperator \in [Accounts -> ConsensusIDs \cup {None}]
    /\ byPubkey \subseteq ConsensusIDs
    /\ totalBonded \in Nat
    /\ balances \in [Accounts -> Nat]
    /\ burned \in Nat

\* staking/total_bonded is the sum of the stakes of the validators that are
\* neither unregistered nor removed, whatever mix of bonding, slashing and
\* release led here (TotalBonded, registry.go).
TotalBondedIsSum == totalBonded = Total(Stakes, Bonded)

\* Tokens are never created or lost by staking: accounts, bonded stake and
\* slashed stake add up to the initial supply.
SupplyConserved ==
    Total(balances, Accounts) + totalBonded + burned
        = InitialBalance * Cardinality(Accounts)

\* The public-key and operator indexes name exactly the validators that are
\* not removed, and no operator runs two of them (RegisterValidator,
\* RemoveValidator).
IndexesAgree ==
    /\ byPubkey = Bonded
    /\ \A id \in Bonded : validators[id].operator \in Accounts
    /\ \A a \in Accounts, id \in ConsensusIDs :
          byOperator[a] = id <=> id \in Bonded /\ validators[id].operator = a

\* No validator is left behind by the transition that should have moved it: a
\* pending one activates at the very next epoch, an unstaking or jailed one
\* still has its epoch ahead (ProcessEpochTransition compares the activation
\* epoch with =, so a pending validator it misses stays pending for ever).
DeadlinesAhead ==
    \A id \in ConsensusIDs :
        /\ validators[id].status = "pending" =>
              validators[id].activationEpoch = currentEpoch + 1
        /\ validators[id].status = "unstaking" =>
              validators[id].unstakeEpoch > currentEpoch
        /\ validators[id].status = "jailed" =>
              validators[id].jailedUntil > currentEpoch

\* A removed validator got its stake back in that very step, at exactly the
\* epoch it had asked for and not before (ReleaseStake).
ReleaseIsExact ==
    [][\A id \in ConsensusIDs :
          validators[id].status # "removed" /\ validators'[id].status = "removed"
          => LET op == validators[id].operator
             IN  /\ currentEpoch' = validators[id].unstakeEpoch
                 /\ balances'[op] = balances[op] + validators[id].bondedStake
      ]_stakingVars

\* What staking promises the owners of the tokens: an escrow that is paid out
\* once, in full, and otherwise only shrinks by slashing.
Escrow == INSTANCE StakeEscrow WITH
    Owners <- ConsensusIDs,
    Supply <- InitialBalance * Cardinality(Accounts),
    wallet <- Total(balances, Accounts),
    escrow <- [id \in ConsensusIDs |-> IF id \in Bonded THEN Stakes[id] ELSE 0],
    closed <- {id \in ConsensusIDs : validators[id].status = "removed"},
    burned <- burned

\* Staking implements the escrow.
ImplementsEscrow == Escrow!Spec

LastEpoch == EpochAtHeight(MaxHeight)

\* Stake that is being withdrawn comes out: every unstaking validator whose
\* epoch lies within the behaviour is removed, whatever slashes hit it.
UnstakingCompletes ==
    \A id \in ConsensusIDs :
        validators[id].status = "unstaking" /\ validators[id].unstakeEpoch <= LastEpoch
        ~> validators[id].status = "removed"
=============================================================================
