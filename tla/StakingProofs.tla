---------------------------- MODULE StakingProofs ---------------------------
(***************************************************************************)
(* Proofs about Staking, for every value of its constants: the invariants  *)
(* the runs check on a small instance, and that staking implements the     *)
(* escrow of StakeEscrow.                                                  *)
(*                                                                         *)
(* The invariants are proved together: that total_bonded never goes below  *)
(* zero needs that it is the sum of the stakes, that a release pays every  *)
(* stake to one account needs the operator index.                          *)
(***************************************************************************)
EXTENDS Staking, TotalsProofs

IInv ==
    /\ TypeOK
    /\ TotalBondedIsSum
    /\ SupplyConserved
    /\ IndexesAgree
    /\ DeadlinesAhead

-----------------------------------------------------------------------------
(* Arithmetic.                                                             *)

\* A remainder is a natural number no larger than what was divided.
LEMMA ModBound ==
    ASSUME NEW x \in Nat, NEW w \in Nat, w > 0
    PROVE  x % w \in Nat /\ x % w <= x
OBVIOUS

LEMMA AccountsFinite == IsFiniteSet(Accounts) /\ IsFiniteSet(ConsensusIDs)
BY SetAssumption

LEMMA WordType == Word \in Nat /\ Word > 0
BY AmountAssumption

LEMMA SlashPercentType == \A offense \in Offenses : SlashPercent[offense] \in 0 .. BasisPoints
BY AmountAssumption

\* A slash never takes more than the stake, also when the uint64 product in
\* SlashAmount wraps around.
LEMMA SlashAmountBound ==
    ASSUME NEW p \in 0 .. BasisPoints, NEW stake \in Nat
    PROVE  SlashAmount(p, stake) \in Nat /\ SlashAmount(p, stake) <= stake
<1> DEFINE y == stake % Word
           q == y * p
           z == q % Word
<1>0. BasisPoints \in Nat /\ BasisPoints > 0
  BY DEF BasisPoints
<1>1. y \in Nat /\ y <= stake
  BY WordType, ModBound
<1>2. q \in Nat /\ q <= y * 10000
  <2> HIDE DEF y
  <2>1. p \in Nat /\ p <= BasisPoints
    BY <1>0
  <2>2. p <= 10000
    BY <2>1 DEF BasisPoints
  <2> QED
    BY <1>1, <2>1, <2>2
<1>3. z \in Nat /\ z <= q
  <2> HIDE DEF q
  <2> QED
    BY WordType, <1>2, ModBound
<1>4. z \div 10000 \in Nat /\ z \div 10000 <= y
  <2> HIDE DEF y, q, z
  <2>1. z <= y * 10000
    BY <1>1, <1>2, <1>3
  <2> QED
    BY <1>1, <1>3, <2>1
<1> HIDE DEF y, q, z
<1>5. SlashAmount(p, stake) = z \div 10000
  BY DEF SlashAmount, BasisPoints, y, q, z
<1> QED
  BY <1>1, <1>4, <1>5

-----------------------------------------------------------------------------
(* Records.                                                                *)

LEMMA NewValidatorType ==
    ASSUME TypeOK, NEW op \in Accounts, NEW stake \in Nat
    PROVE  /\ NewValidator(op, stake) \in Validator
           /\ NewValidator(op, stake).status = "pending"
           /\ NewValidator(op, stake).operator = op
           /\ NewValidator(op, stake).bondedStake = stake
           /\ NewValidator(op, stake).activationEpoch = currentEpoch + 1
<1>1. currentEpoch + 1 \in Nat
  BY DEF TypeOK
<1> QED
  BY <1>1 DEF NewValidator, NoRecord, Validator, Status

LEMMA StoredType ==
    ASSUME NEW v \in Validator
    PROVE  /\ Stored(v) \in Validator
           /\ Stored(v).status = v.status
           /\ Stored(v).operator = v.operator
           /\ Stored(v).bondedStake = v.bondedStake
           /\ Stored(v).jailedUntil = v.jailedUntil
           /\ Stored(v).activationEpoch = v.activationEpoch
           /\ Stored(v).unstakeEpoch = v.unstakeEpoch
<1>1. v.bondedStake \in Nat
  BY DEF Validator
<1>2. stakeToVotingPower(v.bondedStake) \in Nat
  BY <1>1, ModBound, AmountAssumption DEF stakeToVotingPower
<1> QED
  BY <1>2 DEF Stored, Validator

-----------------------------------------------------------------------------
(* What storing one record does to the ledger's derived quantities.        *)

LEMMA StakesType ==
    ASSUME TypeOK
    PROVE  /\ Stakes \in [ConsensusIDs -> Nat]
           /\ Bonded \in SUBSET ConsensusIDs
           /\ IsFiniteSet(Bonded)
           /\ \A id \in ConsensusIDs : Stakes[id] = validators[id].bondedStake
BY FS_Subset, SetAssumption DEF Stakes, TypeOK, Validator, Bonded

LEMMA StoreOne ==
    ASSUME TypeOK, NEW id \in ConsensusIDs, NEW w \in Validator,
           w.status \notin {"absent", "removed"},
           validators' = [validators EXCEPT ![id] = w]
    PROVE  /\ validators' \in [ConsensusIDs -> Validator]
           /\ Bonded' = Bonded \cup {id}
           /\ Stakes' = [Stakes EXCEPT ![id] = w.bondedStake]
           /\ Total(Stakes', Bonded') = Total(Stakes, Bonded \ {id}) + w.bondedStake
           /\ Total(Stakes, Bonded \ {id}) \in Nat
           /\ id \in Bonded =>
                 Total(Stakes, Bonded) = Total(Stakes, Bonded \ {id}) + Stakes[id]
<1>1. validators' \in [ConsensusIDs -> Validator]
  BY DEF TypeOK
<1>2. Bonded' = Bonded \cup {id}
  BY DEF TypeOK, Bonded
<1>3. Stakes' = [Stakes EXCEPT ![id] = w.bondedStake]
  BY DEF TypeOK, Stakes
<1>4. w.bondedStake \in Nat
  BY DEF Validator
<1>5. Stakes' \in [ConsensusIDs -> Nat] /\ Stakes'[id] = w.bondedStake
      /\ \A j \in Bonded \ {id} : Stakes'[j] = Stakes[j]
  BY <1>3, <1>4, StakesType
<1>6. IsFiniteSet(Bonded \cup {id}) /\ IsFiniteSet(Bonded \ {id})
  BY StakesType, FS_AddElement, FS_RemoveElement
<1>7. (Bonded \cup {id}) \ {id} = Bonded \ {id}
  OBVIOUS
<1>8. Total(Stakes', Bonded \cup {id})
        = Total(Stakes', (Bonded \cup {id}) \ {id}) + Stakes'[id]
  <2>1. \A j \in Bonded \cup {id} : Stakes'[j] \in Nat
    BY <1>5, StakesType
  <2> QED
    BY <1>6, <2>1, TotalSplit
<1>9. Total(Stakes', Bonded \ {id}) = Total(Stakes, Bonded \ {id})
  BY <1>5, TotalCong
<1>10. Total(Stakes, Bonded \ {id}) \in Nat
  BY <1>6, StakesType, TotalType
<1>11. id \in Bonded =>
          Total(Stakes, Bonded) = Total(Stakes, Bonded \ {id}) + Stakes[id]
  BY StakesType, TotalSplit
<1> QED
  BY <1>1, <1>2, <1>3, <1>5, <1>7, <1>8, <1>9, <1>10, <1>11

\* Storing another record of a bonded validator that keeps its operator leaves
\* the indexes right.
LEMMA StoreKeepsIndexes ==
    ASSUME TypeOK, IndexesAgree, NEW id \in Bonded, NEW w \in Validator,
           w.status \notin {"absent", "removed"},
           w.operator = validators[id].operator,
           validators' = [validators EXCEPT ![id] = w],
           UNCHANGED <<byOperator, byPubkey>>
    PROVE  IndexesAgree'
<1>1. id \in ConsensusIDs
  BY DEF Bonded
<1>2. Bonded' = Bonded
  <2>1. Bonded' = Bonded \cup {id}
    BY <1>1, StoreOne
  <2> QED
    BY <2>1
<1>3. \A j \in ConsensusIDs : validators'[j].operator = validators[j].operator
  BY <1>1 DEF TypeOK
<1> QED
  BY <1>2, <1>3 DEF IndexesAgree, Bonded

\* Moving n tokens out of account a.
LEMMA Withdraw ==
    ASSUME TypeOK, NEW a \in Accounts, NEW n \in Nat, balances[a] >= n,
           balances' = [balances EXCEPT ![a] = @ - n]
    PROVE  /\ balances' \in [Accounts -> Nat]
           /\ Total(balances', Accounts) = Total(balances, Accounts) - n
           /\ Total(balances, Accounts) \in Nat
           /\ n <= Total(balances, Accounts)
<1>1. balances \in [Accounts -> Nat] /\ balances[a] \in Nat
  BY DEF TypeOK
<1>2. /\ balances' \in [Accounts -> Nat]
      /\ balances'[a] = balances[a] - n
      /\ \A b \in Accounts \ {a} : balances'[b] = balances[b]
  BY <1>1
<1>3. /\ Total(balances', Accounts) = Total(balances, Accounts) - balances[a] + balances'[a]
      /\ Total(balances, Accounts) \in Nat
      /\ balances[a] <= Total(balances, Accounts)
  <2> DEFINE c == balances'
  <2>1. IsFiniteSet(Accounts)
    BY SetAssumption
  <2>2. c \in [Accounts -> Nat] /\ \A b \in Accounts \ {a} : c[b] = balances[b]
    BY <1>2
  <2> HIDE DEF c
  <2>3. Total(c, Accounts) = Total(balances, Accounts) - balances[a] + c[a]
    BY <1>1, <2>1, <2>2, TotalUpdate
  <2> QED
    BY <1>1, <1>2, <2>1, <2>2, <2>3, TotalUpdate DEF c
<1> QED
  BY <1>1, <1>2, <1>3

-----------------------------------------------------------------------------
(* The initial state and the actions preserve the invariants.              *)

\* The total of a constant function.
LEMMA TotalConstant ==
    ASSUME NEW S, IsFiniteSet(S), NEW n \in Nat
    PROVE  Total([i \in S |-> n], S) = n * Cardinality(S)
<1>1. IsFiniteSet(1 .. n) /\ Cardinality(1 .. n) = n
  BY FS_Interval
<1>2. Units([i \in S |-> n], S) = S \X (1 .. n)
  BY DEF Units
<1>3. Cardinality(S \X (1 .. n)) = Cardinality(S) * n
  BY <1>1, FS_Product
<1>4. Cardinality(S) \in Nat
  BY FS_CardinalityType
<1>5. \A c \in Nat : c * n = n * c
  OBVIOUS
<1>6. Total([i \in S |-> n], S) = Cardinality(S) * n
  BY <1>2, <1>3, Zenon DEF Total
<1> QED
  BY <1>4, <1>5, <1>6, Zenon

LEMMA InitIInv == Init => IInv
<1> SUFFICES ASSUME Init
             PROVE  IInv
  OBVIOUS
<1>1. TypeOK
  BY AmountAssumption DEF Init, TypeOK, NoRecord, Validator, Status
<1>2. Bonded = {}
  BY DEF Init, Bonded, NoRecord
<1>3. TotalBondedIsSum
  BY <1>2, TotalEmpty DEF Init, TotalBondedIsSum
<1>4. SupplyConserved
  <2>1. Total(balances, Accounts) = InitialBalance * Cardinality(Accounts)
    <3>1. balances = [a \in Accounts |-> InitialBalance]
      BY DEF Init
    <3>2. IsFiniteSet(Accounts) /\ InitialBalance \in Nat
      BY SetAssumption, AmountAssumption
    <3> QED
      BY <3>1, <3>2, TotalConstant, Zenon
  <2>2. Total(balances, Accounts) \in Nat
    BY <1>1, SetAssumption, TotalType DEF TypeOK
  <2> QED
    BY <2>1, <2>2 DEF Init, SupplyConserved
<1>5. IndexesAgree
  BY <1>2, SetAssumption DEF Init, IndexesAgree
<1>6. DeadlinesAhead
  BY DEF Init, DeadlinesAhead, NoRecord
<1> QED
  BY <1>1, <1>3, <1>4, <1>5, <1>6 DEF IInv

LEMMA RegisterIInv ==
    ASSUME IInv, NEW id \in ConsensusIDs, NEW op \in Accounts,
           NEW stake \in StakeAmounts, RegisterValidator(id, op, stake)
    PROVE  IInv'
<1> DEFINE w == NewValidator(op, stake)
<1>1. stake \in Nat
  BY AmountAssumption
<1>2. /\ w \in Validator /\ w.status = "pending" /\ w.operator = op
      /\ w.bondedStake = stake /\ w.activationEpoch = currentEpoch + 1
  BY <1>1, NewValidatorType DEF IInv
<1>3. validators' = [validators EXCEPT ![id] = w]
  BY DEF RegisterValidator
<1> HIDE DEF w
<1>4. id \notin Bonded
  BY DEF RegisterValidator, Bonded
<1>5. /\ validators' \in [ConsensusIDs -> Validator]
      /\ Bonded' = Bonded \cup {id}
      /\ Total(Stakes', Bonded') = Total(Stakes, Bonded) + stake
  <2>1. Bonded \ {id} = Bonded
    BY <1>4
  <2> QED
    BY <1>2, <1>3, <2>1, StoreOne DEF IInv
<1>6. /\ balances' \in [Accounts -> Nat]
      /\ Total(balances', Accounts) = Total(balances, Accounts) - stake
      /\ Total(balances, Accounts) \in Nat
  BY <1>1, Withdraw DEF IInv, RegisterValidator
<1>7. totalBonded' = totalBonded + stake /\ totalBonded \in Nat /\ burned \in Nat
      /\ burned' = burned /\ currentEpoch' = currentEpoch
  BY DEF RegisterValidator, IInv, TypeOK
<1>8. TypeOK'
  BY <1>1, <1>5, <1>6, <1>7 DEF IInv, TypeOK, RegisterValidator
<1>9. TotalBondedIsSum'
  BY <1>5, <1>7 DEF IInv, TotalBondedIsSum
<1>10. SupplyConserved'
  BY <1>1, <1>6, <1>7 DEF IInv, SupplyConserved
<1>11. IndexesAgree'
  <2>1. \A j \in ConsensusIDs : j # id => validators'[j] = validators[j]
    BY <1>3 DEF IInv, TypeOK
  <2>2. validators'[id] = w
    BY <1>3 DEF IInv, TypeOK
  <2>3. byOperator[op] = None /\ byOperator' = [byOperator EXCEPT ![op] = id]
        /\ byPubkey' = byPubkey \cup {id}
    BY DEF RegisterValidator
  <2>4. \A a \in Accounts : byOperator'[a] = IF a = op THEN id ELSE byOperator[a]
    BY <2>3 DEF IInv, TypeOK
  <2>5. \A j \in Bonded : validators[j].operator # op
    BY <2>3, SetAssumption DEF IInv, IndexesAgree, Bonded
  <2> QED
    BY <1>2, <1>4, <1>5, <2>1, <2>2, <2>3, <2>4, <2>5, SetAssumption DEF IInv, IndexesAgree, Bonded
<1>12. DeadlinesAhead'
  BY <1>2, <1>3, <1>7 DEF IInv, TypeOK, DeadlinesAhead
<1> QED
  BY <1>8, <1>9, <1>10, <1>11, <1>12 DEF IInv

LEMMA BondIInv ==
    ASSUME IInv, NEW from \in Accounts, NEW id \in ConsensusIDs,
           NEW amount \in StakeAmounts, Bond(from, id, amount)
    PROVE  IInv'
<1> DEFINE v == [validators[id] EXCEPT !.bondedStake = @ + amount]
           w == Stored(v)
<1>0. validators[id] \in Validator
  BY DEF IInv, TypeOK
<1>1. amount \in Nat /\ validators[id].bondedStake \in Nat
  BY <1>0, AmountAssumption DEF Validator
<1>2. /\ v \in Validator /\ v.status = validators[id].status
      /\ v.operator = validators[id].operator
      /\ v.bondedStake = validators[id].bondedStake + amount
      /\ v.activationEpoch = validators[id].activationEpoch
  BY <1>0, <1>1 DEF Validator
<1>3. validators' = [validators EXCEPT ![id] = w]
  BY DEF Bond, UpdateValidator
<1> HIDE DEF v
<1>4. /\ w \in Validator /\ w.status = validators[id].status
      /\ w.operator = validators[id].operator
      /\ w.bondedStake = validators[id].bondedStake + amount
      /\ w.activationEpoch = validators[id].activationEpoch
  BY <1>2, StoredType
<1> HIDE DEF w
<1>5. id \in Bonded /\ w.status \in {"pending", "active"}
  BY <1>4 DEF Bond, Bonded
<1>6. /\ validators' \in [ConsensusIDs -> Validator]
      /\ Total(Stakes', Bonded') = Total(Stakes, Bonded) + amount
  <2>1. /\ validators' \in [ConsensusIDs -> Validator]
        /\ Total(Stakes', Bonded') = Total(Stakes, Bonded \ {id}) + w.bondedStake
        /\ Total(Stakes, Bonded \ {id}) \in Nat
        /\ Total(Stakes, Bonded) = Total(Stakes, Bonded \ {id}) + Stakes[id]
    BY <1>3, <1>4, <1>5, StoreOne DEF IInv
  <2>2. Stakes[id] = validators[id].bondedStake
    BY StakesType DEF IInv
  <2> QED
    BY <1>1, <1>4, <2>1, <2>2
<1>7. /\ balances' \in [Accounts -> Nat]
      /\ Total(balances', Accounts) = Total(balances, Accounts) - amount
      /\ Total(balances, Accounts) \in Nat
  BY <1>1, Withdraw DEF IInv, Bond
<1>8. totalBonded' = totalBonded + amount /\ totalBonded \in Nat /\ burned \in Nat
      /\ burned' = burned /\ currentEpoch' = currentEpoch
  BY DEF Bond, IInv, TypeOK
<1>9. TypeOK'
  BY <1>1, <1>6, <1>7, <1>8 DEF IInv, TypeOK, Bond
<1>10. TotalBondedIsSum'
  BY <1>6, <1>8 DEF IInv, TotalBondedIsSum
<1>11. SupplyConserved'
  BY <1>1, <1>7, <1>8 DEF IInv, SupplyConserved
<1>12. IndexesAgree'
  BY <1>3, <1>4, <1>5, StoreKeepsIndexes DEF IInv, Bond
<1>13. DeadlinesAhead'
  BY <1>3, <1>4, <1>5, <1>8 DEF IInv, TypeOK, DeadlinesAhead
<1> QED
  BY <1>9, <1>10, <1>11, <1>12, <1>13 DEF IInv

LEMMA StartUnstakeIInv ==
    ASSUME IInv, NEW id \in ConsensusIDs, NEW cooldown \in 1 .. MaxCooldown,
           StartUnstake(id, currentEpoch + cooldown)
    PROVE  IInv'
<1> DEFINE e == currentEpoch + cooldown
           v == [validators[id] EXCEPT !.status = "unstaking", !.unstakeEpoch = e]
           w == Stored(v)
<1>0. validators[id] \in Validator
  BY DEF IInv, TypeOK
<1>1. currentEpoch \in Nat /\ e \in Nat /\ e > currentEpoch
  BY EpochAssumption DEF IInv, TypeOK
<1> HIDE DEF e
<1>2. /\ v \in Validator /\ v.status = "unstaking"
      /\ v.operator = validators[id].operator
      /\ v.bondedStake = validators[id].bondedStake
      /\ v.unstakeEpoch = e
  BY <1>0, <1>1 DEF Validator, Status
<1>3. validators' = [validators EXCEPT ![id] = w]
  BY DEF StartUnstake, UpdateValidator, e
<1> HIDE DEF v
<1>4. /\ w \in Validator /\ w.status = "unstaking"
      /\ w.operator = validators[id].operator
      /\ w.bondedStake = validators[id].bondedStake
      /\ w.unstakeEpoch = e
  BY <1>2, StoredType
<1> HIDE DEF w
<1>5. id \in Bonded
  BY DEF StartUnstake, IsValidTransition, allowedTransitions, Bonded
<1>6. /\ validators' \in [ConsensusIDs -> Validator]
      /\ Total(Stakes', Bonded') = Total(Stakes, Bonded)
  <2>1. /\ validators' \in [ConsensusIDs -> Validator]
        /\ Total(Stakes', Bonded') = Total(Stakes, Bonded \ {id}) + w.bondedStake
        /\ Total(Stakes, Bonded) = Total(Stakes, Bonded \ {id}) + Stakes[id]
    BY <1>3, <1>4, <1>5, StoreOne DEF IInv
  <2>2. Stakes[id] = validators[id].bondedStake
    BY StakesType DEF IInv
  <2> QED
    BY <1>4, <2>1, <2>2
<1>7. UNCHANGED <<currentEpoch, byOperator, byPubkey, totalBonded, balances, burned>>
  BY DEF StartUnstake
<1>8. TypeOK'
  BY <1>6, <1>7 DEF IInv, TypeOK
<1>9. TotalBondedIsSum' /\ SupplyConserved'
  BY <1>6, <1>7 DEF IInv, TotalBondedIsSum, SupplyConserved
<1>10. IndexesAgree'
  BY <1>3, <1>4, <1>5, <1>7, StoreKeepsIndexes DEF IInv
<1>11. DeadlinesAhead'
  BY <1>1, <1>3, <1>4, <1>7 DEF IInv, TypeOK, DeadlinesAhead
<1> QED
  BY <1>8, <1>9, <1>10, <1>11 DEF IInv

LEMMA SlashIInv ==
    ASSUME IInv, NEW id \in ConsensusIDs, NEW offense \in Offenses,
           SlashValidator(id, offense)
    PROVE  IInv'
<1> DEFINE stake  == validators[id].bondedStake
           amount == SlashAmount(SlashPercent[offense], stake)
           v      == Slashed(validators[id], amount, JailEpochs)
           w      == Stored(v)
<1>0. validators[id] \in Validator /\ currentEpoch \in Nat /\ totalBonded \in Nat
      /\ burned \in Nat /\ balances \in [Accounts -> Nat]
  BY DEF IInv, TypeOK
<1>1. stake \in Nat
  BY <1>0 DEF Validator
<1>2. amount \in Nat /\ amount <= stake
  <2> DEFINE p == SlashPercent[offense]
  <2>1. p \in 0 .. BasisPoints
    BY SlashPercentType
  <2> HIDE DEF p, stake
  <2>2. SlashAmount(p, stake) \in Nat /\ SlashAmount(p, stake) <= stake
    BY <1>1, <2>1, SlashAmountBound
  <2> QED
    BY <2>2 DEF p
<1>3. /\ validators' = [validators EXCEPT ![id] = w]
      /\ totalBonded' = totalBonded - amount
      /\ burned' = burned + amount
      /\ UNCHANGED <<currentEpoch, byOperator, byPubkey, balances>>
      /\ validators[id].status \notin {"absent", "removed"}
  BY DEF SlashValidator, ApplySlash, UpdateValidator
<1> HIDE DEF amount
<1>4. /\ v \in Validator
      /\ v.status = IF validators[id].status = "active" THEN "jailed"
                    ELSE validators[id].status
      /\ v.operator = validators[id].operator
      /\ v.bondedStake = stake - amount
      /\ v.activationEpoch = validators[id].activationEpoch
      /\ v.unstakeEpoch = validators[id].unstakeEpoch
      /\ v.jailedUntil = IF validators[id].status = "active"
                         THEN currentEpoch + JailEpochs
                         ELSE validators[id].jailedUntil
  <2>1. stake - amount \in Nat /\ currentEpoch + JailEpochs \in Nat
    BY <1>0, <1>1, <1>2, EpochAssumption
  <2>2. CASE validators[id].status = "active"
    BY <1>0, <2>1, <2>2 DEF Slashed, Validator, Status
  <2>3. CASE validators[id].status # "active"
    BY <1>0, <2>1, <2>3 DEF Slashed, Validator, Status
  <2> QED
    BY <2>2, <2>3
<1> HIDE DEF v
<1>5. /\ w \in Validator
      /\ w.status = IF validators[id].status = "active" THEN "jailed"
                    ELSE validators[id].status
      /\ w.operator = validators[id].operator
      /\ w.bondedStake = stake - amount
      /\ w.activationEpoch = validators[id].activationEpoch
      /\ w.unstakeEpoch = validators[id].unstakeEpoch
      /\ w.jailedUntil = IF validators[id].status = "active"
                         THEN currentEpoch + JailEpochs
                         ELSE validators[id].jailedUntil
  BY <1>4, StoredType
<1> HIDE DEF w
<1>6. id \in Bonded /\ w.status \notin {"absent", "removed"}
  BY <1>3, <1>5 DEF Bonded
<1>7. /\ validators' \in [ConsensusIDs -> Validator]
      /\ Total(Stakes', Bonded') = Total(Stakes, Bonded) - amount
      /\ stake <= Total(Stakes, Bonded)
  <2>1. /\ validators' \in [ConsensusIDs -> Validator]
        /\ Total(Stakes', Bonded') = Total(Stakes, Bonded \ {id}) + w.bondedStake
        /\ Total(Stakes, Bonded \ {id}) \in Nat
        /\ Total(Stakes, Bonded) = Total(Stakes, Bonded \ {id}) + Stakes[id]
    BY <1>3, <1>5, <1>6, StoreOne DEF IInv
  <2>2. Stakes[id] = stake
    BY StakesType DEF IInv
  <2> HIDE DEF stake
  <2> QED
    BY <1>1, <1>2, <1>5, <2>1, <2>2
<1>8. totalBonded - amount \in Nat
  <2> HIDE DEF stake
  <2> QED
    BY <1>0, <1>1, <1>2, <1>7 DEF IInv, TotalBondedIsSum
<1>9. TypeOK'
  BY <1>0, <1>2, <1>3, <1>7, <1>8 DEF IInv, TypeOK
<1>10. TotalBondedIsSum'
  BY <1>3, <1>7 DEF IInv, TotalBondedIsSum
<1>11. SupplyConserved'
  <2>1. Total(balances, Accounts) \in Nat
    BY <1>0, AccountsFinite, TotalType
  <2> QED
    BY <1>0, <1>2, <1>3, <2>1 DEF IInv, SupplyConserved
<1>12. IndexesAgree'
  BY <1>3, <1>5, <1>6, StoreKeepsIndexes DEF IInv
<1>13. DeadlinesAhead'
  <2>1. currentEpoch + JailEpochs > currentEpoch
    BY <1>0, EpochAssumption
  <2> QED
    BY <1>3, <1>5, <2>1 DEF IInv, TypeOK, DeadlinesAhead
<1> QED
  BY <1>9, <1>10, <1>11, <1>12, <1>13 DEF IInv

-----------------------------------------------------------------------------
(* The epoch transition.                                                   *)

\* The record the transition to epoch `next` leaves of each validator.
LEMMA TransitionRecords ==
    ASSUME TypeOK, NEW height, NEW paid, ProcessEpochTransition(height, paid),
           NEW id \in ConsensusIDs
    PROVE  LET next == currentEpoch + 1
               v == validators[id]
               w == validators'[id]
           IN  /\ w \in Validator
               /\ w.bondedStake = v.bondedStake
               /\ w.operator = v.operator
               /\ w.status = "removed" <=> v.status = "removed" \/ id \in Released(next)
               /\ w.status = "absent" <=> v.status = "absent"
               /\ w.status = "pending" =>
                     v.status = "pending" /\ id \notin Activated(next)
               /\ w.status = "unstaking" =>
                     /\ v.status = "unstaking"
                     /\ id \notin Released(next)
                     /\ w.unstakeEpoch = v.unstakeEpoch
               /\ w.status = "jailed" =>
                     /\ v.status = "jailed"
                     /\ id \notin Unjailed(next)
                     /\ w.jailedUntil = v.jailedUntil
<1> DEFINE next == currentEpoch + 1
           v == validators[id]
<1>0. v \in Validator /\ next \in Nat
  BY DEF TypeOK
<1>1. validators'[id] =
        CASE id \in Activated(next) -> ActivateValidator(v, next)
          [] id \in Released(next)  -> RemoveValidator(v)
          [] id \in Unjailed(next)  -> UnjailValidator(v)
          [] OTHER                  -> v
  BY DEF ProcessEpochTransition
<1>2. /\ id \in Activated(next) => v.status = "pending"
      /\ id \in Released(next) => v.status = "unstaking"
      /\ id \in Unjailed(next) => v.status = "jailed"
  BY DEF Activated, Released, Unjailed
<1> HIDE DEF next, v
<1>3. CASE id \in Activated(next)
  <2> DEFINE u == [v EXCEPT !.status = "active", !.activationEpoch = next]
  <2>1. u \in Validator /\ u.status = "active" /\ u.bondedStake = v.bondedStake
        /\ u.operator = v.operator
    BY <1>0 DEF Validator, Status
  <2>2. validators'[id] = Stored(u)
    BY <1>1, <1>2, <1>3 DEF ActivateValidator
  <2> HIDE DEF u
  <2>3. /\ validators'[id] \in Validator
        /\ validators'[id].status = "active"
        /\ validators'[id].bondedStake = v.bondedStake
        /\ validators'[id].operator = v.operator
    BY <2>1, <2>2, StoredType
  <2> QED
    BY <1>2, <1>3, <2>3 DEF v, next
<1>4. CASE id \in Released(next)
  <2> DEFINE u == [v EXCEPT !.status = "removed"]
  <2>1. u \in Validator /\ u.status = "removed" /\ u.bondedStake = v.bondedStake
        /\ u.operator = v.operator
    BY <1>0 DEF Validator, Status
  <2>2. validators'[id] = Stored(u)
    BY <1>1, <1>2, <1>4 DEF RemoveValidator
  <2> HIDE DEF u
  <2>3. /\ validators'[id] \in Validator
        /\ validators'[id].status = "removed"
        /\ validators'[id].bondedStake = v.bondedStake
        /\ validators'[id].operator = v.operator
    BY <2>1, <2>2, StoredType
  <2> QED
    BY <1>2, <1>4, <2>3 DEF v, next
<1>5. CASE id \in Unjailed(next)
  <2> DEFINE u == [v EXCEPT !.status = "active", !.jailedUntil = 0]
  <2>1. u \in Validator /\ u.status = "active" /\ u.bondedStake = v.bondedStake
        /\ u.operator = v.operator
    BY <1>0 DEF Validator, Status
  <2>2. validators'[id] = Stored(u)
    BY <1>1, <1>2, <1>5 DEF UnjailValidator
  <2> HIDE DEF u
  <2>3. /\ validators'[id] \in Validator
        /\ validators'[id].status = "active"
        /\ validators'[id].bondedStake = v.bondedStake
        /\ validators'[id].operator = v.operator
    BY <2>1, <2>2, StoredType
  <2> QED
    BY <1>2, <1>5, <2>3 DEF v, next
<1>6. CASE id \notin Activated(next) \cup Released(next) \cup Unjailed(next)
  <2>1. validators'[id] = v
    BY <1>1, <1>6
  <2> QED
    BY <1>0, <1>6, <2>1 DEF v, next
<1> QED
  BY <1>3, <1>4, <1>5, <1>6

\* The transition keeps the ledger right from whatever balances it starts:
\* what leaves total_bonded is what the accounts receive.
LEMMA TransitionLedger ==
    ASSUME TypeOK, TotalBondedIsSum, IndexesAgree, DeadlinesAhead,
           NEW height, NEW paid \in [Accounts -> Nat],
           ProcessEpochTransition(height, paid)
    PROVE  /\ TypeOK' /\ TotalBondedIsSum' /\ IndexesAgree' /\ DeadlinesAhead'
           /\ Total(balances', Accounts) + totalBonded'
                = Total(paid, Accounts) + totalBonded
<1> DEFINE next == currentEpoch + 1
           R == Released(next)
           owner == [id \in ConsensusIDs |-> validators[id].operator]
           back == [a \in Accounts |-> Total(Stakes, {id \in R : owner[id] = a})]
<1>0. /\ validators \in [ConsensusIDs -> Validator] /\ currentEpoch \in Nat
      /\ next \in Nat /\ totalBonded \in Nat /\ burned \in Nat
  BY DEF TypeOK
<1>1. R \subseteq Bonded
  BY DEF Released, Bonded
<1>2. /\ validators' \in [ConsensusIDs -> Validator]
      /\ Stakes' = Stakes
      /\ Bonded' = Bonded \ R
  <2>1. DOMAIN validators' = ConsensusIDs
        /\ validators' = [id \in ConsensusIDs |-> validators'[id]]
    BY DEF ProcessEpochTransition
  <2>2. \A id \in ConsensusIDs :
           /\ validators'[id] \in Validator
           /\ validators'[id].bondedStake = validators[id].bondedStake
           /\ validators'[id].status = "removed" <=> validators[id].status = "removed" \/ id \in R
           /\ validators'[id].status = "absent" <=> validators[id].status = "absent"
    BY TransitionRecords
  <2>3. validators' \in [ConsensusIDs -> Validator]
    BY <2>1, <2>2
  <2>4. Stakes' = Stakes
    BY <2>2 DEF Stakes
  <2>5. Bonded' = Bonded \ R
    <3> HIDE DEF R
    <3> QED
      BY <2>2 DEF Bonded
  <2> QED
    BY <2>3, <2>4, <2>5
<1>3. /\ balances' = [a \in Accounts |-> paid[a] + back[a]]
      /\ totalBonded' = totalBonded - Total(Stakes, R)
      /\ byPubkey' = byPubkey \ R
      /\ byOperator' = [a \in Accounts |->
                           IF \E id \in R : validators[id].operator = a
                           THEN None ELSE byOperator[a]]
      /\ currentEpoch' = next
      /\ burned' = burned
  <2>1. \A a \in Accounts : {id \in R : owner[id] = a} = {id \in R : validators[id].operator = a}
    BY DEF Released
  <2> QED
    BY <2>1 DEF ProcessEpochTransition, ReleaseStake
<1>4. IsFiniteSet(R) /\ IsFiniteSet(Bonded)
  BY <1>1, StakesType, FS_Subset
<1>5. /\ \A id \in R : owner[id] \in Accounts /\ Stakes[id] \in Nat
      /\ \A id \in Bonded : Stakes[id] \in Nat
  BY <1>1, StakesType DEF IndexesAgree, Bonded
<1>6. /\ \A a \in Accounts : back[a] \in Nat
      /\ Total(back, Accounts) = Total(Stakes, R)
  <2>2. \A id \in R : owner[id] \in Accounts
    BY <1>5
  <2>3. \A id \in R : Stakes[id] \in Nat
    BY <1>5
  <2>4. IsFiniteSet(Accounts)
    BY AccountsFinite
  <2>5. IsFiniteSet(R)
    BY <1>4
  <2> DEFINE part == [a \in Accounts |-> {id \in R : owner[id] = a}]
  <2>6. \A a \in Accounts : part[a] \in SUBSET R
                              /\ \A id \in R : id \in part[a] <=> owner[id] = a
    OBVIOUS
  <2>7. \A a \in Accounts : back[a] = Total(Stakes, part[a])
    OBVIOUS
  <2> HIDE DEF back, owner, R, part
  <2> QED
    BY <2>2, <2>3, <2>4, <2>5, <2>6, <2>7, TotalPartition
<1>7. /\ Total(Stakes, R) \in Nat /\ Total(Stakes, Bonded) \in Nat
      /\ Total(Stakes, R) <= Total(Stakes, Bonded)
      /\ Total(Stakes, Bonded \ R) = Total(Stakes, Bonded) - Total(Stakes, R)
  <2> HIDE DEF R
  <2> QED
    BY <1>1, <1>4, <1>5, TotalSubset
<1> HIDE DEF R, back
<1>8. /\ balances' \in [Accounts -> Nat]
      /\ Total(balances', Accounts) = Total(paid, Accounts) + Total(back, Accounts)
      /\ Total(paid, Accounts) \in Nat
  <2>1. balances' \in [Accounts -> Nat]
    BY <1>3, <1>6
  <2>2. Total(balances', Accounts) = Total(paid, Accounts) + Total(back, Accounts)
    BY <1>3, <1>6, AccountsFinite, TotalPlus
  <2>3. Total(paid, Accounts) \in Nat
    BY AccountsFinite, TotalType
  <2> QED
    BY <2>1, <2>2, <2>3
<1>9. TypeOK'
  <2>1. totalBonded - Total(Stakes, R) \in Nat
    BY <1>0, <1>7 DEF TotalBondedIsSum
  <2> QED
    BY <1>0, <1>2, <1>3, <1>8, <2>1 DEF TypeOK
<1>10. TotalBondedIsSum'
  BY <1>2, <1>3, <1>7 DEF TotalBondedIsSum
<1>11. Total(balances', Accounts) + totalBonded' = Total(paid, Accounts) + totalBonded
  BY <1>0, <1>3, <1>6, <1>7, <1>8
<1>12. IndexesAgree'
  <2>1. \A id \in ConsensusIDs : validators'[id].operator = validators[id].operator
    BY TransitionRecords
  <2>2. byPubkey' = Bonded'
    BY <1>2, <1>3 DEF IndexesAgree
  <2>3. \A id \in Bonded' : validators'[id].operator \in Accounts
    BY <1>2, <2>1 DEF IndexesAgree, Bonded
  <2>4. ASSUME NEW a \in Accounts, NEW id \in ConsensusIDs
        PROVE  byOperator'[a] = id <=> id \in Bonded' /\ validators'[id].operator = a
    <3>1. CASE \E j \in R : validators[j].operator = a
      <4>1. byOperator'[a] = None
        BY <1>3, <3>1
      <4>2. PICK j \in R : validators[j].operator = a
        BY <3>1
      <4>3. byOperator[a] = j
        BY <1>1, <4>2 DEF IndexesAgree, Bonded
      <4>4. id \in Bonded /\ validators[id].operator = a => id \in R
        BY <4>2, <4>3 DEF IndexesAgree
      <4> QED
        BY <1>2, <2>1, <4>1, <4>4, SetAssumption
    <3>2. CASE ~ \E j \in R : validators[j].operator = a
      <4>1. byOperator'[a] = byOperator[a]
        BY <1>3, <3>2
      <4> QED
        BY <1>2, <2>1, <3>2, <4>1 DEF IndexesAgree
    <3> QED
      BY <3>1, <3>2
  <2> QED
    BY <2>2, <2>3, <2>4 DEF IndexesAgree
<1>13. DeadlinesAhead'
  <2> SUFFICES ASSUME NEW id \in ConsensusIDs
               PROVE  /\ validators'[id].status = "pending" =>
                            validators'[id].activationEpoch = next + 1
                      /\ validators'[id].status = "unstaking" =>
                            validators'[id].unstakeEpoch > next
                      /\ validators'[id].status = "jailed" =>
                            validators'[id].jailedUntil > next
    BY <1>3 DEF DeadlinesAhead
  <2>1. validators'[id].status # "pending"
    BY TransitionRecords DEF DeadlinesAhead, Activated
  <2>2. validators[id].unstakeEpoch \in Nat /\ validators[id].jailedUntil \in Nat
    BY <1>0 DEF Validator
  <2>3. validators'[id].status = "unstaking" => validators'[id].unstakeEpoch > next
    BY <1>0, <2>2, TransitionRecords DEF Released
  <2>4. validators'[id].status = "jailed" => validators'[id].jailedUntil > next
    BY <1>0, <2>2, TransitionRecords DEF Unjailed
  <2> QED
    BY <2>1, <2>3, <2>4
<1> QED
  BY <1>9, <1>10, <1>11, <1>12, <1>13

LEMMA TransitionIInv ==
    ASSUME IInv, NEW height, ProcessEpochTransition(height, balances)
    PROVE  IInv'
<1>1. /\ TypeOK' /\ TotalBondedIsSum' /\ IndexesAgree' /\ DeadlinesAhead'
      /\ Total(balances', Accounts) + totalBonded'
           = Total(balances, Accounts) + totalBonded
  BY TransitionLedger DEF IInv, TypeOK
<1>2. burned' = burned
  BY DEF ProcessEpochTransition
<1>3. SupplyConserved'
  BY <1>1, <1>2 DEF IInv, SupplyConserved
<1> QED
  BY <1>1, <1>3 DEF IInv

-----------------------------------------------------------------------------
(* The theorems.                                                           *)

LEMMA StepIInv == IInv /\ [Next]_stakingVars => IInv'
<1> SUFFICES ASSUME IInv, [Next]_stakingVars
             PROVE  IInv'
  OBVIOUS
<1>1. ASSUME NEW id \in ConsensusIDs, NEW op \in Accounts, NEW stake \in StakeAmounts,
             RegisterValidator(id, op, stake)
      PROVE  IInv'
  BY <1>1, RegisterIInv
<1>2. ASSUME NEW from \in Accounts, NEW id \in ConsensusIDs,
             NEW amount \in StakeAmounts, Bond(from, id, amount)
      PROVE  IInv'
  BY <1>2, BondIInv
<1>3. ASSUME NEW id \in ConsensusIDs, NEW cooldown \in 1 .. MaxCooldown,
             StartUnstake(id, currentEpoch + cooldown)
      PROVE  IInv'
  BY <1>3, StartUnstakeIInv
<1>4. ASSUME NEW id \in ConsensusIDs, NEW offense \in Offenses,
             SlashValidator(id, offense)
      PROVE  IInv'
  BY <1>4, SlashIInv
<1>5. ASSUME NEW height \in 1 .. MaxHeight, ProcessEpochTransition(height, balances)
      PROVE  IInv'
  BY <1>5, TransitionIInv
<1>6. CASE UNCHANGED stakingVars
  BY <1>6 DEF stakingVars, IInv, TypeOK, TotalBondedIsSum, SupplyConserved,
              IndexesAgree, DeadlinesAhead, Stakes, Bonded
<1> QED
  BY <1>1, <1>2, <1>3, <1>4, <1>5, <1>6 DEF Next

\* The inductive invariant holds in every reachable state.
THEOREM Invariance == Spec => []IInv
<1> QED
  BY InitIInv, StepIInv, PTL DEF Spec

\* Every variable of the ledger keeps its type; in particular no subtraction
\* of amounts in Bond, ApplySlash or ReleaseStake goes below zero.
THEOREM TypeCorrect == Spec => []TypeOK
<1>1. IInv => TypeOK
  BY DEF IInv
<1> QED
  BY <1>1, Invariance, PTL

\* staking/total_bonded is always the sum of the stakes it accounts for.
THEOREM TotalBondedCorrect == Spec => []TotalBondedIsSum
<1>1. IInv => TotalBondedIsSum
  BY DEF IInv
<1> QED
  BY <1>1, Invariance, PTL

\* Staking neither creates nor loses tokens.
THEOREM SupplyCorrect == Spec => []SupplyConserved
<1>1. IInv => SupplyConserved
  BY DEF IInv
<1> QED
  BY <1>1, Invariance, PTL

\* The public-key and operator indexes name exactly the registered validators.
THEOREM IndexesCorrect == Spec => []IndexesAgree
<1>1. IInv => IndexesAgree
  BY DEF IInv
<1> QED
  BY <1>1, Invariance, PTL

\* No validator is left behind by the epoch transition meant to move it.
THEOREM DeadlinesCorrect == Spec => []DeadlinesAhead
<1>1. IInv => DeadlinesAhead
  BY DEF IInv
<1> QED
  BY <1>1, Invariance, PTL

-----------------------------------------------------------------------------
(* What a step may do.                                                     *)

\* The statuses that the actions other than the transition leave behind.
LEMMA OnlyTransitionRemoves ==
    ASSUME IInv, NEW id \in ConsensusIDs,
           \/ \E j \in ConsensusIDs, op \in Accounts, stake \in StakeAmounts :
                 RegisterValidator(j, op, stake)
           \/ \E from \in Accounts, j \in ConsensusIDs, amount \in StakeAmounts :
                 Bond(from, j, amount)
           \/ \E j \in ConsensusIDs, cooldown \in 1 .. MaxCooldown :
                 StartUnstake(j, currentEpoch + cooldown)
           \/ \E j \in ConsensusIDs, offense \in Offenses : SlashValidator(j, offense)
           \/ UNCHANGED stakingVars
    PROVE  validators'[id].status = "removed" => validators[id].status = "removed"
<1>0. validators \in [ConsensusIDs -> Validator] /\ currentEpoch \in Nat
  BY DEF IInv, TypeOK
<1>1. ASSUME NEW j \in ConsensusIDs, NEW v,
             UpdateValidator(j, v),
             v.status # "removed",
             "status" \in DOMAIN v
      PROVE  validators'[id].status = "removed" => validators[id].status = "removed"
  BY <1>0, <1>1 DEF UpdateValidator, Stored
<1>2. ASSUME NEW j \in ConsensusIDs, NEW op \in Accounts, NEW stake \in StakeAmounts,
             RegisterValidator(j, op, stake)
      PROVE  validators'[id].status = "removed" => validators[id].status = "removed"
  BY <1>0, <1>2 DEF RegisterValidator, NewValidator, NoRecord
<1>3. ASSUME NEW from \in Accounts, NEW j \in ConsensusIDs, NEW amount \in StakeAmounts,
             Bond(from, j, amount)
      PROVE  validators'[id].status = "removed" => validators[id].status = "removed"
  BY <1>0, <1>1, <1>3 DEF Bond, Validator
<1>4. ASSUME NEW j \in ConsensusIDs, NEW cooldown \in 1 .. MaxCooldown,
             StartUnstake(j, currentEpoch + cooldown)
      PROVE  validators'[id].status = "removed" => validators[id].status = "removed"
  BY <1>0, <1>1, <1>4 DEF StartUnstake, Validator
<1>5. ASSUME NEW j \in ConsensusIDs, NEW offense \in Offenses, SlashValidator(j, offense)
      PROVE  validators'[id].status = "removed" => validators[id].status = "removed"
  BY <1>0, <1>1, <1>5 DEF SlashValidator, ApplySlash, Slashed, Validator
<1>6. CASE UNCHANGED stakingVars
  BY <1>6 DEF stakingVars
<1> QED
  BY <1>2, <1>3, <1>4, <1>5, <1>6

\* What the transition pays the operator of a validator it removes.
LEMMA TransitionPays ==
    ASSUME IInv, NEW height, ProcessEpochTransition(height, balances),
           NEW id \in ConsensusIDs,
           validators[id].status # "removed", validators'[id].status = "removed"
    PROVE  /\ currentEpoch' = validators[id].unstakeEpoch
           /\ balances'[validators[id].operator]
                = balances[validators[id].operator] + validators[id].bondedStake
<1> DEFINE next == currentEpoch + 1
           op == validators[id].operator
           mine == {j \in Released(next) : validators[j].operator = op}
<1>0. /\ TypeOK /\ IndexesAgree /\ DeadlinesAhead
      /\ validators[id] \in Validator /\ currentEpoch \in Nat
  BY DEF IInv, TypeOK
<1>1. id \in Released(next)
  BY <1>0, TransitionRecords
<1>2. validators[id].unstakeEpoch <= next /\ validators[id].unstakeEpoch > currentEpoch
      /\ validators[id].unstakeEpoch \in Nat
  BY <1>0, <1>1 DEF Released, DeadlinesAhead, Validator
<1>3. currentEpoch' = validators[id].unstakeEpoch
  BY <1>0, <1>2 DEF ProcessEpochTransition
<1>4. op \in Accounts
  BY <1>0, <1>1 DEF Released, IndexesAgree, Bonded
<1>5. mine = {id}
  <2>1. \A j \in mine : byOperator[op] = j
    BY <1>0, <1>4 DEF Released, IndexesAgree, Bonded
  <2>2. id \in mine
    BY <1>1
  <2> QED
    BY <2>1, <2>2
<1>6. Stakes[id] \in Nat /\ Stakes[id] = validators[id].bondedStake
  BY <1>0, StakesType
<1>7. Total(Stakes, mine) = validators[id].bondedStake
  BY <1>5, <1>6, TotalSingleton
<1>8. balances'[op] = balances[op] + Total(Stakes, mine)
  BY <1>4 DEF ProcessEpochTransition, ReleaseStake
<1> QED
  BY <1>3, <1>7, <1>8

\* A validator is removed in the step that pays its operator the whole stake,
\* at the epoch it had asked for.
THEOREM ReleaseCorrect == Spec => ReleaseIsExact
<1>1. ASSUME IInv, [Next]_stakingVars
      PROVE  \A id \in ConsensusIDs :
               validators[id].status # "removed" /\ validators'[id].status = "removed"
               => LET op == validators[id].operator
                  IN  /\ currentEpoch' = validators[id].unstakeEpoch
                      /\ balances'[op] = balances[op] + validators[id].bondedStake
  <2> SUFFICES ASSUME NEW id \in ConsensusIDs,
                      validators[id].status # "removed", validators'[id].status = "removed"
               PROVE  /\ currentEpoch' = validators[id].unstakeEpoch
                      /\ balances'[validators[id].operator]
                           = balances[validators[id].operator] + validators[id].bondedStake
    OBVIOUS
  <2>1. PICK height \in 1 .. MaxHeight : ProcessEpochTransition(height, balances)
    BY <1>1, OnlyTransitionRemoves DEF Next
  <2> QED
    BY <1>1, <2>1, TransitionPays
<1> QED
  BY <1>1, Invariance, PTL DEF Spec, ReleaseIsExact

-----------------------------------------------------------------------------
(* Staking implements the escrow.                                          *)

\* The refinement mapping of Escrow, by name.
Held == [id \in ConsensusIDs |-> IF id \in Bonded THEN Stakes[id] ELSE 0]
Closed == {id \in ConsensusIDs : validators[id].status = "removed"}

LEMMA HeldType ==
    ASSUME TypeOK
    PROVE  Held \in [ConsensusIDs -> Nat]
BY StakesType DEF Held

\* What storing one record of a validator that is not removed does to the
\* mapped state.
LEMMA StoreOneHeld ==
    ASSUME TypeOK, NEW id \in ConsensusIDs, NEW w \in Validator,
           w.status \notin {"absent", "removed"},
           validators[id].status # "removed",
           validators' = [validators EXCEPT ![id] = w]
    PROVE  /\ Held' = [Held EXCEPT ![id] = w.bondedStake]
           /\ Closed' = Closed
           /\ id \notin Closed
<1>1. Bonded' = Bonded \cup {id} /\ Stakes' = [Stakes EXCEPT ![id] = w.bondedStake]
  BY StoreOne
<1>2. Stakes \in [ConsensusIDs -> Nat]
  BY StakesType
<1>3. \A j \in ConsensusIDs : Held'[j] = IF j = id THEN w.bondedStake ELSE Held[j]
  BY <1>1, <1>2 DEF Held
<1>4. Closed' = Closed /\ id \notin Closed
  BY DEF Closed, TypeOK
<1> QED
  BY <1>3, <1>4 DEF Held

LEMMA EscrowInit == Init => Escrow!Init
<1> SUFFICES ASSUME Init
             PROVE  Escrow!Init
  OBVIOUS
<1>1. IInv
  BY InitIInv
<1>2. Bonded = {} /\ burned = 0 /\ totalBonded = 0
  BY DEF Init, Bonded, NoRecord
<1>3. Total(balances, Accounts) = InitialBalance * Cardinality(Accounts)
  <2>1. Total(balances, Accounts) \in Nat
    BY <1>1, AccountsFinite, TotalType DEF IInv, TypeOK
  <2> QED
    BY <1>1, <1>2, <2>1 DEF IInv, SupplyConserved
<1>4. Held = [id \in ConsensusIDs |-> 0]
  BY <1>2 DEF Held
<1>5. Closed = {}
  BY DEF Init, Closed, NoRecord
<1> QED
  BY <1>2, <1>3, <1>4, <1>5 DEF Escrow!Init, Held, Closed

LEMMA EscrowRegister ==
    ASSUME IInv, NEW id \in ConsensusIDs, NEW op \in Accounts,
           NEW stake \in StakeAmounts, RegisterValidator(id, op, stake)
    PROVE  Escrow!Next
<1> DEFINE w == NewValidator(op, stake)
<1>1. stake \in Nat
  BY AmountAssumption
<1>2. /\ w \in Validator /\ w.status = "pending" /\ w.bondedStake = stake
  BY <1>1, NewValidatorType DEF IInv
<1>3. validators' = [validators EXCEPT ![id] = w] /\ validators[id].status = "absent"
      /\ burned' = burned
  BY DEF RegisterValidator
<1> HIDE DEF w
<1>4. /\ Held' = [Held EXCEPT ![id] = stake] /\ Closed' = Closed /\ id \notin Closed
  BY <1>2, <1>3, StoreOneHeld DEF IInv
<1>5. Held[id] = 0 /\ 0 + stake = stake
  BY <1>1, <1>3 DEF Held, Bonded
<1>6. /\ Total(balances', Accounts) = Total(balances, Accounts) - stake
      /\ Total(balances, Accounts) \in Nat
      /\ stake <= Total(balances, Accounts)
  BY <1>1, Withdraw DEF IInv, RegisterValidator
<1>7. stake \in 0 .. Total(balances, Accounts)
  BY <1>1, <1>6
<1>8. Held' = [Held EXCEPT ![id] = Held[id] + stake]
  BY <1>4, <1>5
<1>9. Escrow!Lock(id, stake)
  BY <1>3, <1>4, <1>6, <1>8 DEF Escrow!Lock, Held, Closed
<1> QED
  BY <1>7, <1>9 DEF Escrow!Next

LEMMA EscrowBond ==
    ASSUME IInv, NEW from \in Accounts, NEW id \in ConsensusIDs,
           NEW amount \in StakeAmounts, Bond(from, id, amount)
    PROVE  Escrow!Next
<1> DEFINE v == [validators[id] EXCEPT !.bondedStake = @ + amount]
           w == Stored(v)
<1>0. validators[id] \in Validator
  BY DEF IInv, TypeOK
<1>1. amount \in Nat /\ validators[id].bondedStake \in Nat
  BY <1>0, AmountAssumption DEF Validator
<1>2. /\ v \in Validator /\ v.status = validators[id].status
      /\ v.bondedStake = validators[id].bondedStake + amount
  BY <1>0, <1>1 DEF Validator
<1>3. validators' = [validators EXCEPT ![id] = w] /\ burned' = burned
      /\ validators[id].status \in {"pending", "active"}
  BY DEF Bond, UpdateValidator
<1> HIDE DEF v
<1>4. /\ w \in Validator /\ w.status = validators[id].status
      /\ w.bondedStake = validators[id].bondedStake + amount
  BY <1>2, StoredType
<1> HIDE DEF w
<1>5. /\ Held' = [Held EXCEPT ![id] = w.bondedStake] /\ Closed' = Closed /\ id \notin Closed
  BY <1>3, <1>4, StoreOneHeld DEF IInv
<1>6. Held[id] = validators[id].bondedStake
  BY <1>3 DEF Held, Bonded, Stakes
<1>7. /\ Total(balances', Accounts) = Total(balances, Accounts) - amount
      /\ Total(balances, Accounts) \in Nat
      /\ amount <= Total(balances, Accounts)
  BY <1>1, Withdraw DEF IInv, Bond
<1>8. amount \in 0 .. Total(balances, Accounts)
  BY <1>1, <1>7
<1>9. Held' = [Held EXCEPT ![id] = Held[id] + amount]
  BY <1>4, <1>5, <1>6
<1>10. Escrow!Lock(id, amount)
  BY <1>3, <1>5, <1>7, <1>9 DEF Escrow!Lock, Held, Closed
<1> QED
  BY <1>8, <1>10 DEF Escrow!Next

LEMMA EscrowUnstake ==
    ASSUME IInv, NEW id \in ConsensusIDs, NEW cooldown \in 1 .. MaxCooldown,
           StartUnstake(id, currentEpoch + cooldown)
    PROVE  UNCHANGED Escrow!vars
<1> DEFINE e == currentEpoch + cooldown
           v == [validators[id] EXCEPT !.status = "unstaking", !.unstakeEpoch = e]
           w == Stored(v)
<1>0. validators[id] \in Validator /\ e \in Nat
  BY EpochAssumption DEF IInv, TypeOK
<1> HIDE DEF e
<1>2. /\ v \in Validator /\ v.status = "unstaking"
      /\ v.bondedStake = validators[id].bondedStake
  BY <1>0 DEF Validator, Status
<1>3. /\ validators' = [validators EXCEPT ![id] = w]
      /\ validators[id].status = "active"
      /\ UNCHANGED <<balances, burned>>
  BY DEF StartUnstake, UpdateValidator, IsValidTransition, allowedTransitions, e
<1> HIDE DEF v
<1>4. /\ w \in Validator /\ w.status = "unstaking"
      /\ w.bondedStake = validators[id].bondedStake
  BY <1>2, StoredType
<1> HIDE DEF w
<1>5. /\ Held' = [Held EXCEPT ![id] = w.bondedStake] /\ Closed' = Closed
  BY <1>3, <1>4, StoreOneHeld DEF IInv
<1>6. Held[id] = validators[id].bondedStake
  BY <1>3 DEF Held, Bonded, Stakes
<1>7. Held' = Held
  BY <1>4, <1>5, <1>6 DEF Held
<1> QED
  BY <1>3, <1>5, <1>7 DEF Escrow!vars, Held, Closed

LEMMA EscrowSlash ==
    ASSUME IInv, NEW id \in ConsensusIDs, NEW offense \in Offenses,
           SlashValidator(id, offense)
    PROVE  Escrow!Next
<1> DEFINE stake  == validators[id].bondedStake
           amount == SlashAmount(SlashPercent[offense], stake)
           v      == Slashed(validators[id], amount, JailEpochs)
           w      == Stored(v)
<1>0. validators[id] \in Validator /\ currentEpoch \in Nat
  BY DEF IInv, TypeOK
<1>1. stake \in Nat
  BY <1>0 DEF Validator
<1>2. amount \in Nat /\ amount <= stake
  BY <1>1, SlashPercentType, SlashAmountBound
<1>3. /\ validators' = [validators EXCEPT ![id] = w]
      /\ burned' = burned + amount
      /\ balances' = balances
      /\ validators[id].status \notin {"absent", "removed"}
  BY DEF SlashValidator, ApplySlash, UpdateValidator
<1> HIDE DEF amount
<1>4. /\ v \in Validator
      /\ v.status \notin {"absent", "removed"}
      /\ v.bondedStake = stake - amount
  <2>1. stake - amount \in Nat /\ currentEpoch + JailEpochs \in Nat
    BY <1>0, <1>1, <1>2, EpochAssumption
  <2>2. CASE validators[id].status = "active"
    BY <1>0, <2>1, <2>2 DEF Slashed, Validator, Status
  <2>3. CASE validators[id].status # "active"
    BY <1>0, <1>3, <2>1, <2>3 DEF Slashed, Validator, Status
  <2> QED
    BY <2>2, <2>3
<1> HIDE DEF v
<1>5. /\ w \in Validator
      /\ w.status \notin {"absent", "removed"}
      /\ w.bondedStake = stake - amount
  BY <1>4, StoredType
<1> HIDE DEF w
<1>6. /\ Held' = [Held EXCEPT ![id] = w.bondedStake] /\ Closed' = Closed
  BY <1>3, <1>5, StoreOneHeld DEF IInv
<1>7. Held[id] = stake
  BY <1>3 DEF Held, Bonded, Stakes
<1>8. Held' = [Held EXCEPT ![id] = Held[id] - amount]
  BY <1>5, <1>6, <1>7
<1>9. PICK n \in 0 .. Held[id] : n = amount
  BY <1>1, <1>2, <1>7
<1>10. Escrow!Burn(id, n)
  BY <1>3, <1>6, <1>8, <1>9 DEF Escrow!Burn, Held, Closed
<1>11. \E i \in ConsensusIDs : \E m \in 0 .. Held[i] : Escrow!Burn(i, m)
  BY <1>9, <1>10
<1> QED
  BY <1>11, Zenon DEF Escrow!Next, Held

LEMMA EscrowTransition ==
    ASSUME IInv, NEW height, ProcessEpochTransition(height, balances)
    PROVE  Escrow!Next
<1> DEFINE R == Released(currentEpoch + 1)
<1>0. /\ TypeOK /\ TotalBondedIsSum /\ IndexesAgree /\ DeadlinesAhead
      /\ balances \in [Accounts -> Nat] /\ totalBonded \in Nat
  BY DEF IInv, TypeOK
<1>1. /\ R \in SUBSET ConsensusIDs
      /\ R \subseteq Bonded
      /\ R \cap Closed = {}
  BY DEF Released, Bonded, Closed
<1>2. \A id \in ConsensusIDs :
         /\ validators'[id].bondedStake = validators[id].bondedStake
         /\ validators'[id].status = "removed" <=> validators[id].status = "removed" \/ id \in R
         /\ validators'[id].status = "absent" <=> validators[id].status = "absent"
  BY <1>0, TransitionRecords
<1>3. /\ Total(balances', Accounts) + totalBonded' = Total(balances, Accounts) + totalBonded
      /\ TypeOK'
  BY <1>0, TransitionLedger
<1>4. totalBonded' = totalBonded - Total(Stakes, R) /\ burned' = burned
  BY DEF ProcessEpochTransition, ReleaseStake
<1> HIDE DEF R
<1>5. Total(Stakes, R) \in Nat /\ Total(Stakes, R) = Total(Held, R)
  <2>1. \A id \in R : Stakes[id] = Held[id] /\ Stakes[id] \in Nat
    BY <1>0, <1>1, StakesType DEF Held
  <2>2. IsFiniteSet(R)
    BY <1>1, AccountsFinite, FS_Subset
  <2> QED
    BY <2>1, <2>2, TotalCong, TotalType
<1>6. Total(balances', Accounts) = Total(balances, Accounts) + Total(Held, R)
  <2>1. Total(balances, Accounts) \in Nat
    BY <1>0, AccountsFinite, TotalType
  <2>2. Total(balances', Accounts) \in Nat
    BY <1>3, AccountsFinite, TotalType DEF TypeOK
  <2> QED
    BY <1>0, <1>3, <1>4, <1>5, <2>1, <2>2
<1>7. Closed' = Closed \cup R
  BY <1>1, <1>2 DEF Closed
<1>8. Held' = [id \in ConsensusIDs |-> IF id \in R THEN 0 ELSE Held[id]]
  <2>1. \A id \in ConsensusIDs : id \in Bonded' <=> id \in Bonded /\ id \notin R
    BY <1>1, <1>2 DEF Bonded
  <2>2. \A id \in ConsensusIDs : Stakes'[id] = Stakes[id]
    BY <1>2 DEF Stakes
  <2> QED
    BY <2>1, <2>2 DEF Held
<1>9. PICK P \in SUBSET ConsensusIDs : P = R
  BY <1>1
<1>10. Escrow!PayOut(P)
  <2>1. /\ P \cap Closed = {}
        /\ Total(balances', Accounts) = Total(balances, Accounts) + Total(Held, P)
        /\ Held' = [id \in ConsensusIDs |-> IF id \in P THEN 0 ELSE Held[id]]
        /\ Closed' = Closed \cup P
        /\ burned' = burned
    BY <1>1, <1>4, <1>6, <1>7, <1>8, <1>9
  <2>2. Total(Held, P) = Escrow!Total(Held, P)
    BY Zenon DEF Total, Units, Cardinality, Escrow!Total, Escrow!Units, Escrow!Cardinality
  <2> QED
    BY <2>1, <2>2, Zenon DEF Escrow!PayOut, Held, Closed
<1> QED
  BY <1>10 DEF Escrow!Next

\* Every behaviour of the stake ledger is one of the escrow: stake is locked,
\* burned by slashing, and paid out whole and once.
THEOREM StakingImplementsEscrow == Spec => ImplementsEscrow
<1>1. IInv /\ [Next]_stakingVars => [Escrow!Next]_(Escrow!vars)
  <2> SUFFICES ASSUME IInv, [Next]_stakingVars
               PROVE  [Escrow!Next]_(Escrow!vars)
    OBVIOUS
  <2>1. CASE UNCHANGED stakingVars
    BY <2>1 DEF stakingVars, Escrow!vars, Bonded, Stakes
  <2> QED
    BY <2>1, EscrowRegister, EscrowBond, EscrowUnstake, EscrowSlash,
       EscrowTransition DEF Next
<1> QED
  BY <1>1, EscrowInit, Invariance, PTL DEF Spec, ImplementsEscrow, Escrow!Spec
=============================================================================
