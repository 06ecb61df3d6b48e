---------------------------- MODULE BlockProofs ----------------------------
(***************************************************************************)
(* Executing blocks, for any validators, accounts, amounts, epoch length   *)
(* and word size: no amount goes below zero, staking/total_bonded covers   *)
(* the stakes of every validator, the epoch counter keeps step with the    *)
(* height, and the snapshot of an epoch is never changed.                  *)
(*                                                                         *)
(* The invariant of module Staking (the total equals the stakes, the       *)
(* indexes agree) does not hold here: ApplyRegistration adds to the total  *)
(* and to the indexes without a record.  What is left of it, that the      *)
(* total covers the stakes, is inductive with the types alone.             *)
(***************************************************************************)
EXTENDS BlockExecution, StakingProofs

BlockInv == BlockTypeOK /\ BondedCoversStakes /\ EpochFollowsHeight

\* The ledger's part of the invariant.
LedgerInv == TypeOK /\ BondedCoversStakes

-----------------------------------------------------------------------------
(* Epoch arithmetic.                                                       *)

\* A quotient is determined by its bounds.
LEMMA QuotientUnique ==
    ASSUME NEW b \in Nat \ {0}, NEW q \in Nat, NEW p \in Nat,
           NEW r \in 0 .. b - 1, NEW s \in 0 .. b - 1,
           b * q + r = b * p + s
    PROVE  q = p
<1>1. ASSUME NEW x \in Nat, NEW y \in Nat, NEW i \in 0 .. b - 1, NEW j \in 0 .. b - 1,
             b * x + i = b * y + j, x < y
      PROVE  FALSE
  <2>1. PICK d \in Nat : y = x + 1 + d
    <3>1. y - x - 1 \in Nat /\ y = x + 1 + (y - x - 1)
      BY <1>1
    <3> QED
      BY <3>1
  <2>2. b * y = b * x + b + b * d
    BY <2>1
  <2>3. b * d \in Nat /\ b * x \in Nat
    OBVIOUS
  <2> QED
    BY <1>1, <2>2, <2>3
<1>2. ~ (q < p)
  BY <1>1
<1>3. ~ (p < q)
  <2>1. b * p + s = b * q + r
    OBVIOUS
  <2> QED
    BY <1>1, <2>1
<1> QED
  BY <1>2, <1>3

\* The quotient grows by one exactly at the multiples of b.
LEMMA NextQuotient ==
    ASSUME NEW b \in Nat \ {0}, NEW h \in Nat
    PROVE  /\ h \div b \in Nat
           /\ (h + 1) \div b = IF (h + 1) % b = 0 THEN (h \div b) + 1 ELSE h \div b
<1> DEFINE q == h \div b
           r == h % b
           p == (h + 1) \div b
           s == (h + 1) % b
<1>1. q \in Nat /\ r \in 0 .. b - 1 /\ h = b * q + r
  OBVIOUS
<1>2. p \in Nat /\ s \in 0 .. b - 1 /\ h + 1 = b * p + s
  OBVIOUS
<1> HIDE DEF q, r, p, s
<1>3. b * q \in Nat /\ b * p \in Nat
  BY <1>1, <1>2
<1>4. CASE r + 1 = b
  <2>1. b * (q + 1) = b * q + b
    BY <1>1
  <2>2. b * (q + 1) + 0 = b * p + s
    BY <1>1, <1>2, <1>3, <1>4, <2>1
  <2>3. q + 1 = p
    BY <1>1, <1>2, <2>2, QuotientUnique
  <2>4. s = 0
    BY <1>2, <1>3, <2>2, <2>3
  <2> QED
    BY <1>1, <2>3, <2>4 DEF q, p, s
<1>5. CASE r + 1 # b
  <2>1. r + 1 \in 0 .. b - 1
    BY <1>1, <1>5
  <2>2. b * q + (r + 1) = b * p + s
    BY <1>1, <1>2, <1>3
  <2>3. q = p
    BY <1>1, <1>2, <2>1, <2>2, QuotientUnique
  <2>4. s # 0
    BY <1>1, <1>2, <1>3, <2>2, <2>3
  <2> QED
    BY <1>1, <2>3, <2>4 DEF q, p, s
<1> QED
  BY <1>4, <1>5

-----------------------------------------------------------------------------
(* The staking operations.                                                 *)

\* Storing a bonded validator's record with its stake changed by as much as
\* the total.
LEMMA StoreCovers ==
    ASSUME LedgerInv, NEW id \in Bonded, NEW w \in Validator,
           w.status \notin {"absent", "removed"},
           validators' = [validators EXCEPT ![id] = w],
           totalBonded' = totalBonded + w.bondedStake - validators[id].bondedStake
    PROVE  /\ validators' \in [ConsensusIDs -> Validator]
           /\ totalBonded' \in Nat
           /\ BondedCoversStakes'
<1> DEFINE rest == Total(Stakes, Bonded \ {id})
           old  == validators[id].bondedStake
           new  == w.bondedStake
           all  == Total(Stakes, Bonded)
           now  == Total(Stakes', Bonded')
<1>1. id \in ConsensusIDs
  BY DEF Bonded
<1>2. /\ validators' \in [ConsensusIDs -> Validator]
      /\ now = rest + new /\ rest \in Nat /\ all = rest + Stakes[id]
  BY <1>1, StoreOne DEF LedgerInv
<1>3. Stakes[id] = old
  BY <1>1, StakesType DEF LedgerInv
<1>4. old \in Nat /\ new \in Nat /\ totalBonded \in Nat /\ all <= totalBonded
  BY <1>1 DEF LedgerInv, TypeOK, Validator, BondedCoversStakes
<1>5. totalBonded' = totalBonded + new - old
  OBVIOUS
<1>6. BondedCoversStakes' <=> now <= totalBonded'
  BY DEF BondedCoversStakes
<1> HIDE DEF rest, old, new, all, now
<1> QED
  BY <1>2, <1>3, <1>4, <1>5, <1>6

LEMMA RegisterCovers ==
    ASSUME LedgerInv, NEW id \in ConsensusIDs, NEW op \in Accounts,
           NEW stake \in StakeAmounts, RegisterValidator(id, op, stake)
    PROVE  LedgerInv'
<1> DEFINE w == NewValidator(op, stake)
<1>1. stake \in Nat
  BY AmountAssumption
<1>2. w \in Validator /\ w.status = "pending" /\ w.bondedStake = stake
  BY <1>1, NewValidatorType DEF LedgerInv
<1>3. validators' = [validators EXCEPT ![id] = w]
  BY DEF RegisterValidator
<1> HIDE DEF w
<1>4. Bonded \ {id} = Bonded
  BY DEF RegisterValidator, Bonded
<1>5. /\ validators' \in [ConsensusIDs -> Validator]
      /\ Total(Stakes', Bonded') = Total(Stakes, Bonded) + stake
      /\ Total(Stakes, Bonded) \in Nat
  BY <1>2, <1>3, <1>4, StoreOne DEF LedgerInv
<1>6. balances' \in [Accounts -> Nat]
  BY <1>1, Withdraw DEF LedgerInv, RegisterValidator
<1>7. totalBonded' = totalBonded + stake /\ totalBonded \in Nat
  BY DEF RegisterValidator, LedgerInv, TypeOK
<1>8. TypeOK'
  BY <1>1, <1>5, <1>6, <1>7 DEF LedgerInv, TypeOK, RegisterValidator
<1>9. BondedCoversStakes'
  BY <1>1, <1>5, <1>7 DEF LedgerInv, BondedCoversStakes
<1> QED
  BY <1>8, <1>9 DEF LedgerInv

LEMMA BondCovers ==
    ASSUME LedgerInv, NEW from \in Accounts, NEW id \in ConsensusIDs,
           NEW amount \in StakeAmounts, Bond(from, id, amount)
    PROVE  LedgerInv'
<1> DEFINE v == [validators[id] EXCEPT !.bondedStake = @ + amount]
           w == Stored(v)
<1>0. validators[id] \in Validator
  BY DEF LedgerInv, TypeOK
<1>1. amount \in Nat /\ validators[id].bondedStake \in Nat
  BY <1>0, AmountAssumption DEF Validator
<1>2. /\ v \in Validator /\ v.status = validators[id].status
      /\ v.bondedStake = validators[id].bondedStake + amount
  BY <1>0, <1>1 DEF Validator
<1>3. validators' = [validators EXCEPT ![id] = w]
  BY DEF Bond, UpdateValidator
<1> HIDE DEF v
<1>4. /\ w \in Validator /\ w.status = validators[id].status
      /\ w.bondedStake = validators[id].bondedStake + amount
  BY <1>2, StoredType
<1> HIDE DEF w
<1>5. id \in Bonded /\ w.status \notin {"absent", "removed"}
  BY <1>4 DEF Bond, Bonded
<1>6. totalBonded' = totalBonded + amount /\ totalBonded \in Nat
  BY DEF Bond, LedgerInv, TypeOK
<1>7. totalBonded' = totalBonded + w.bondedStake - validators[id].bondedStake
  BY <1>1, <1>4, <1>6
<1>8. /\ validators' \in [ConsensusIDs -> Validator]
      /\ totalBonded' \in Nat /\ BondedCoversStakes'
  BY <1>3, <1>4, <1>5, <1>7, StoreCovers
<1>9. balances' \in [Accounts -> Nat]
  BY <1>1, Withdraw DEF LedgerInv, Bond
<1> QED
  BY <1>8, <1>9 DEF LedgerInv, TypeOK, Bond

LEMMA UnstakeCovers ==
    ASSUME LedgerInv, NEW id \in ConsensusIDs, NEW cooldown \in 1 .. MaxCooldown,
           StartUnstake(id, currentEpoch + cooldown)
    PROVE  LedgerInv'
<1> DEFINE e == currentEpoch + cooldown
           v == [validators[id] EXCEPT !.status = "unstaking", !.unstakeEpoch = e]
           w == Stored(v)
<1>0. validators[id] \in Validator /\ totalBonded \in Nat
  BY DEF LedgerInv, TypeOK
<1>1. e \in Nat /\ validators[id].bondedStake \in Nat
  BY <1>0, EpochAssumption DEF LedgerInv, TypeOK, Validator
<1> HIDE DEF e
<1>2. /\ v \in Validator /\ v.status = "unstaking"
      /\ v.bondedStake = validators[id].bondedStake
  BY <1>0, <1>1 DEF Validator, Status
<1>3. validators' = [validators EXCEPT ![id] = w]
  BY DEF StartUnstake, UpdateValidator, e
<1> HIDE DEF v
<1>4. /\ w \in Validator /\ w.status = "unstaking"
      /\ w.bondedStake = validators[id].bondedStake
  BY <1>2, StoredType
<1> HIDE DEF w
<1>5. id \in Bonded
  BY DEF StartUnstake, IsValidTransition, allowedTransitions, Bonded
<1>6. UNCHANGED <<currentEpoch, byOperator, byPubkey, totalBonded, balances, burned>>
  BY DEF StartUnstake
<1>7. totalBonded' = totalBonded + w.bondedStake - validators[id].bondedStake
  BY <1>0, <1>1, <1>4, <1>6
<1>8. /\ validators' \in [ConsensusIDs -> Validator]
      /\ totalBonded' \in Nat /\ BondedCoversStakes'
  BY <1>3, <1>4, <1>5, <1>7, StoreCovers
<1> QED
  BY <1>6, <1>8 DEF LedgerInv, TypeOK

LEMMA SlashCovers ==
    ASSUME LedgerInv, NEW id \in ConsensusIDs, NEW offense \in Offenses,
           SlashValidator(id, offense)
    PROVE  LedgerInv'
<1> DEFINE stake  == validators[id].bondedStake
           amount == SlashAmount(SlashPercent[offense], stake)
           v      == Slashed(validators[id], amount, JailEpochs)
           w      == Stored(v)
<1>0. validators[id] \in Validator /\ currentEpoch \in Nat /\ totalBonded \in Nat
      /\ burned \in Nat
  BY DEF LedgerInv, TypeOK
<1>1. stake \in Nat
  BY <1>0 DEF Validator
<1>2. amount \in Nat /\ amount <= stake
  <2> DEFINE p == SlashPercent[offense]
  <2>1. p \in 0 .. BasisPoints
    BY SlashPercentType
  <2> HIDE DEF p, stake
  <2>2. SlashAmount(p, stake) \in Nat /\ SlashAmount(p, stake) <= stake
    BY <1>1, <2>1, SlashAmountBound
  <2> QED
    BY <2>2 DEF p
<1>3. /\ validators' = [validators EXCEPT ![id] = w]
      /\ totalBonded' = totalBonded - amount
      /\ burned' = burned + amount
      /\ UNCHANGED <<currentEpoch, byOperator, byPubkey, balances>>
      /\ id \in Bonded
  BY DEF SlashValidator, ApplySlash, UpdateValidator, Bonded
<1> HIDE DEF amount
<1>4. /\ v \in Validator
      /\ v.status \in {"jailed", validators[id].status}
      /\ v.bondedStake = stake - amount
  <2>1. stake - amount \in Nat /\ currentEpoch + JailEpochs \in Nat
    BY <1>0, <1>1, <1>2, EpochAssumption
  <2>2. CASE validators[id].status = "active"
    BY <1>0, <2>1, <2>2 DEF Slashed, Validator, Status
  <2>3. CASE validators[id].status # "active"
    BY <1>0, <2>1, <2>3 DEF Slashed, Validator, Status
  <2> QED
    BY <2>2, <2>3
<1> HIDE DEF v
<1>5. /\ w \in Validator
      /\ w.status \in {"jailed", validators[id].status}
      /\ w.bondedStake = stake - amount
  BY <1>4, StoredType
<1> HIDE DEF w
<1>6. w.status \notin {"absent", "removed"}
  BY <1>3, <1>5 DEF Bonded
<1>7. totalBonded' = totalBonded + w.bondedStake - stake
  <2> HIDE DEF stake
  <2> QED
    BY <1>0, <1>1, <1>2, <1>3, <1>5
<1>8. /\ validators' \in [ConsensusIDs -> Validator]
      /\ totalBonded' \in Nat /\ BondedCoversStakes'
  BY <1>3, <1>5, <1>6, <1>7, StoreCovers
<1> QED
  BY <1>0, <1>2, <1>3, <1>8 DEF LedgerInv, TypeOK

\* The transition keeps the ledger right from whatever balances it starts: no
\* more leaves the total than the stakes it covers.
LEMMA TransitionCovers ==
    ASSUME LedgerInv, NEW h, NEW paid \in [Accounts -> Nat],
           ProcessEpochTransition(h, paid)
    PROVE  LedgerInv' /\ currentEpoch' = currentEpoch + 1
<1> DEFINE next == currentEpoch + 1
           R == Released(next)
           back(a) == Total(Stakes, {id \in R : validators[id].operator = a})
<1>0. /\ TypeOK /\ next \in Nat /\ totalBonded \in Nat /\ burned \in Nat
      /\ byPubkey \subseteq ConsensusIDs
      /\ byOperator \in [Accounts -> ConsensusIDs \cup {None}]
  BY DEF LedgerInv, TypeOK
<1>1. R \subseteq Bonded
  BY DEF Released, Bonded
<1>2. /\ validators' \in [ConsensusIDs -> Validator]
      /\ Stakes' = Stakes
      /\ Bonded' = Bonded \ R
  <2>1. validators' = [id \in ConsensusIDs |-> validators'[id]]
    BY DEF ProcessEpochTransition
  <2>2. \A id \in ConsensusIDs :
           /\ validators'[id] \in Validator
           /\ validators'[id].bondedStake = validators[id].bondedStake
           /\ validators'[id].status = "removed" <=> validators[id].status = "removed" \/ id \in R
           /\ validators'[id].status = "absent" <=> validators[id].status = "absent"
    BY <1>0, TransitionRecords
  <2>3. validators' \in [ConsensusIDs -> Validator]
    BY <2>1, <2>2
  <2>4. Stakes' = Stakes
    BY <2>2 DEF Stakes
  <2>5. Bonded' = Bonded \ R
    <3> HIDE DEF R
    <3> QED
      BY <2>2 DEF Bonded
  <2> QED
    BY <2>3, <2>4, <2>5
<1>3. /\ balances' = [a \in Accounts |-> paid[a] + back(a)]
      /\ totalBonded' = totalBonded - Total(Stakes, R)
      /\ byPubkey' = byPubkey \ R
      /\ byOperator' = [a \in Accounts |->
                           IF \E id \in R : validators[id].operator = a
                           THEN None ELSE byOperator[a]]
      /\ currentEpoch' = next
      /\ burned' = burned
  BY DEF ProcessEpochTransition, ReleaseStake
<1>4. IsFiniteSet(R) /\ IsFiniteSet(Bonded)
      /\ \A id \in Bonded : Stakes[id] \in Nat
  BY <1>0, <1>1, StakesType, FS_Subset
<1>5. \A a \in Accounts : back(a) \in Nat
  <2> SUFFICES ASSUME NEW a \in Accounts
               PROVE  back(a) \in Nat
    OBVIOUS
  <2> DEFINE T == {id \in R : validators[id].operator = a}
  <2>1. T \subseteq Bonded /\ IsFiniteSet(T)
    BY <1>1, <1>4, FS_Subset
  <2>2. \A id \in T : Stakes[id] \in Nat
    BY <1>4, <2>1
  <2> HIDE DEF T
  <2>3. Total(Stakes, T) \in Nat
    BY <2>1, <2>2, TotalType
  <2> QED
    BY <2>3 DEF T
<1>6. /\ Total(Stakes, R) \in Nat /\ Total(Stakes, Bonded) \in Nat
      /\ Total(Stakes, R) <= Total(Stakes, Bonded)
      /\ Total(Stakes, Bonded \ R) = Total(Stakes, Bonded) - Total(Stakes, R)
  <2> HIDE DEF R
  <2> QED
    BY <1>1, <1>4, TotalSubset
<1> HIDE DEF R, back, next
<1>7. balances' \in [Accounts -> Nat]
  BY <1>3, <1>5
<1>8. totalBonded' \in Nat /\ BondedCoversStakes'
  BY <1>0, <1>2, <1>3, <1>6 DEF LedgerInv, BondedCoversStakes
<1>9. TypeOK'
  BY <1>0, <1>2, <1>3, <1>7, <1>8 DEF TypeOK
<1> QED
  BY <1>3, <1>8, <1>9 DEF LedgerInv, next

-----------------------------------------------------------------------------
(* Rewards.                                                                *)

LEMMA PercentType ==
    ASSUME NEW amount \in Nat, NEW p \in Nat
    PROVE  Percent(amount, p) \in Nat
<1> DEFINE x == amount * p
<1>1. x \in Nat
  OBVIOUS
<1> HIDE DEF x
<1>2. x % Word \in Nat
  BY <1>1, WordType, ModBound
<1> QED
  BY <1>2 DEF Percent, x

\* A set of records as a snapshot keeps them.
Records(snap) ==
    DOMAIN snap \subseteq ConsensusIDs /\ \A id \in DOMAIN snap : snap[id] \in Validator

\* Every validator is paid a natural number, whatever wraps around.
LEMMA RewardsType ==
    ASSUME NEW amount \in Nat, NEW S, IsFiniteSet(S), NEW power,
           \A i \in S : power[i] \in Nat, NEW top \in S,
           Total(power, S) % Word # 0
    PROVE  \A i \in S : Rewards(amount, power, S, top, Word)[i] \in Nat
<1> DEFINE tp == Total(power, S) % Word
           portion == [i \in S |-> Portion(amount, power[i], tp, Word)]
           rem == (amount - (Total(portion, S) % Word)) % Word
<1>1. tp \in Nat /\ tp > 0
  <2>1. Total(power, S) \in Nat
    BY TotalType
  <2> QED
    BY <2>1, WordType, ModBound
<1>2. \A i \in S : portion[i] \in Nat
  <2> SUFFICES ASSUME NEW i \in S
               PROVE  Portion(amount, power[i], tp, Word) \in Nat
    OBVIOUS
  <2> DEFINE x == amount * power[i]
             y == x % Word
  <2>1. x \in Nat
    OBVIOUS
  <2> HIDE DEF x, tp
  <2>2. y \in Nat
    BY <2>1, WordType, ModBound
  <2> HIDE DEF y
  <2>3. y \div tp \in Nat
    BY <1>1, <2>2
  <2> QED
    BY <2>3 DEF Portion, y, x
<1> HIDE DEF tp
<1>3. rem \in Nat
  <2> DEFINE d == Total(portion, S)
             e == d % Word
  <2>1. d \in Nat
    <3> HIDE DEF portion
    <3> QED
      BY <1>2, TotalType
  <2> HIDE DEF d
  <2>2. e \in Nat
    BY <2>1, WordType, ModBound
  <2> HIDE DEF e
  <2>3. (amount - e) % Word \in Nat
    BY <2>2, WordType
  <2> QED
    BY <2>3 DEF e, d
<1> DEFINE last == (portion[top] + rem) % Word
<1>4. Rewards(amount, power, S, top, Word) = [portion EXCEPT ![top] = last]
  BY DEF Rewards, tp
<1>5. portion = [i \in S |-> portion[i]]
  OBVIOUS
<1> HIDE DEF portion, rem
<1>6. last \in Nat
  <2> DEFINE z == portion[top] + rem
  <2>1. z \in Nat
    BY <1>2, <1>3
  <2> HIDE DEF z
  <2>2. z % Word \in Nat
    BY <2>1, WordType, ModBound
  <2> QED
    BY <2>2 DEF z
<1> HIDE DEF last
<1> QED
  BY <1>2, <1>4, <1>5, <1>6

LEMMA PaidOutType ==
    ASSUME TypeOK, NEW amount \in Nat, NEW snap, Records(snap),
           NEW paid \in PaidOut(amount, snap)
    PROVE  paid \in [Accounts -> Nat]
<1>1. CASE amount = 0 \/ TotalPower(snap) = 0
  BY <1>1 DEF PaidOut, TypeOK
<1>2. CASE ~ (amount = 0 \/ TotalPower(snap) = 0)
  <2> DEFINE S == DOMAIN snap
             pw == Power(snap)
  <2>1. PICK top \in TopPower(pw, S) :
               paid = Credited(Rewards(amount, pw, S, top, Word), snap)
    BY <1>2 DEF PaidOut
  <2>2. top \in S
    BY DEF TopPower
  <2>3. IsFiniteSet(S)
    BY AccountsFinite, FS_Subset DEF Records
  <2>4. \A i \in S : pw[i] \in Nat
    BY DEF Power, Records, Validator
  <2>5. Total(pw, S) % Word # 0
    BY <1>2 DEF TotalPower
  <2> DEFINE reward == Rewards(amount, pw, S, top, Word)
  <2>6. \A i \in S : reward[i] \in Nat
    <3> HIDE DEF pw, S
    <3> QED
      BY <2>2, <2>3, <2>4, <2>5, RewardsType
  <2>7. paid = [a \in Accounts |->
                  balances[a] + Total(reward, {id \in S : snap[id].operator = a})]
    BY <2>1 DEF Credited
  <2> HIDE DEF reward, pw, S
  <2>8. ASSUME NEW a \in Accounts
        PROVE  Total(reward, {id \in S : snap[id].operator = a}) \in Nat
    <3> DEFINE T == {id \in S : snap[id].operator = a}
    <3>1. IsFiniteSet(T) /\ \A id \in T : reward[id] \in Nat
      BY <2>3, <2>6, FS_Subset
    <3> HIDE DEF T
    <3>2. Total(reward, T) \in Nat
      BY <3>1, TotalType
    <3> QED
      BY <3>2 DEF T
  <2> QED
    BY <2>7, <2>8 DEF TypeOK
<1> QED
  BY <1>1, <1>2

-----------------------------------------------------------------------------
(* The steps of block execution.                                           *)

LEMMA IssuanceType ==
    ASSUME NEW supply \in Nat
    PROVE  PerEpochIssuance(supply) \in Nat
<1> DEFINE x == supply * InflationBP
           y == EpochsPerYear * BasisPoints
<1>1. x \in Nat
  BY SupplyAssumption
<1>2. y \in Nat /\ y > 0
  BY SupplyAssumption DEF BasisPoints
<1> HIDE DEF x, y
<1>3. x \div y \in Nat
  BY <1>1, <1>2
<1> QED
  BY <1>3 DEF PerEpochIssuance, x, y

\* The snapshot of an epoch holds records, also after the step that takes it.
LEMMA SnapshotRecords ==
    ASSUME BlockTypeOK, TypeOK', NEW e, CreateSnapshot(e, ActiveRecords')
    PROVE  \A d \in DOMAIN snapshots' : Records(snapshots'[d])
<1>1. Records(ActiveRecords')
  BY DEF ActiveRecords, GetActiveValidators, Records, TypeOK
<1>2. \A d \in DOMAIN snapshots : Records(snapshots[d])
  BY DEF BlockTypeOK, Records
<1>3. CASE e \in DOMAIN snapshots
  BY <1>2, <1>3 DEF CreateSnapshot
<1>4. CASE e \notin DOMAIN snapshots
  <2> DEFINE new == ActiveRecords'
  <2>1. Records(new)
    BY <1>1
  <2>2. snapshots' = Put(snapshots, e, new)
    BY <1>4 DEF CreateSnapshot
  <2> HIDE DEF new
  <2>3. /\ DOMAIN snapshots' = DOMAIN snapshots \cup {e}
        /\ \A d \in DOMAIN snapshots' :
              snapshots'[d] = IF d = e THEN new ELSE snapshots[d]
    BY <2>2 DEF Put
  <2> QED
    BY <1>2, <2>1, <2>3
<1> QED
  BY <1>3, <1>4

LEMMA BeginBlockInv ==
    ASSUME BlockInv, BeginBlock
    PROVE  BlockInv'
<1>0. LedgerInv /\ BlockTypeOK /\ TypeOK /\ height \in Nat /\ totalSupply \in Nat
      /\ treasury \in Nat /\ currentEpoch = height \div BlocksPerEpoch
  BY DEF BlockInv, BlockTypeOK, LedgerInv, EpochFollowsHeight
<1>1. height' = height + 1 /\ height' \in 0 .. MaxHeight /\ phase' = "txs"
      /\ CreateSnapshot(currentEpoch', ActiveRecords')
      /\ UNCHANGED <<processed, unreadable, fees>>
  BY <1>0, EpochAssumption DEF BeginBlock, BlockTypeOK
<1>2. /\ height \div BlocksPerEpoch \in Nat
      /\ (height + 1) \div BlocksPerEpoch
            = IF (height + 1) % BlocksPerEpoch = 0
              THEN (height \div BlocksPerEpoch) + 1 ELSE height \div BlocksPerEpoch
  BY <1>0, EpochAssumption, NextQuotient
<1>3. LedgerInv' /\ totalSupply' \in Nat /\ treasury' \in Nat
      /\ currentEpoch' = (height + 1) \div BlocksPerEpoch
  <2>1. CASE IsEpochBoundary(height + 1)
    <3>1. EpochBoundary(height + 1)
      BY <2>1 DEF BeginBlock
    <3> DEFINE issuance == PerEpochIssuance(totalSupply)
    <3>2. issuance \in Nat
      BY <1>0, IssuanceType
    <3>3. totalSupply' = totalSupply + issuance /\ treasury' = treasury + Percent(issuance, 10)
      BY <3>1 DEF EpochBoundary
    <3>4. PICK paid \in DistributeValidatorRewards(EpochAtHeight(height + 1),
                                                   Percent(issuance, 90)) :
                 ProcessEpochTransition(height + 1, paid)
      BY <3>1 DEF EpochBoundary
    <3> HIDE DEF issuance
    <3>5. Percent(issuance, 10) \in Nat /\ Percent(issuance, 90) \in Nat
      BY <3>2, PercentType
    <3>6. paid \in [Accounts -> Nat]
      <4> DEFINE e == EpochAtHeight(height + 1)
                 pool == Percent(issuance, 90)
      <4>1. paid \in DistributeValidatorRewards(e, pool)
        OBVIOUS
      <4>2. pool \in Nat
        BY <3>5
      <4> HIDE DEF e, pool
      <4>3. CASE e = 1 \/ e - 1 \notin DOMAIN snapshots
        BY <1>0, <4>1, <4>3 DEF DistributeValidatorRewards, TypeOK
      <4>4. CASE ~ (e = 1 \/ e - 1 \notin DOMAIN snapshots)
        <5>1. paid \in PaidOut(pool, snapshots[e - 1])
          BY <4>1, <4>4 DEF DistributeValidatorRewards
        <5>2. Records(snapshots[e - 1])
          BY <1>0, <4>4 DEF BlockTypeOK, Records
        <5> QED
          BY <1>0, <4>2, <5>1, <5>2, PaidOutType
      <4> QED
        BY <4>3, <4>4
    <3>7. LedgerInv' /\ currentEpoch' = currentEpoch + 1
      BY <1>0, <3>4, <3>6, TransitionCovers
    <3>8. currentEpoch' = (height + 1) \div BlocksPerEpoch
      BY <1>0, <1>2, <2>1, <3>7 DEF IsEpochBoundary
    <3> QED
      BY <1>0, <3>2, <3>3, <3>5, <3>7, <3>8
  <2>2. CASE ~ IsEpochBoundary(height + 1)
    <3>1. UNCHANGED <<stakingVars, totalSupply, treasury>>
      BY <2>2 DEF BeginBlock
    <3>2. LedgerInv'
      BY <1>0, <3>1 DEF LedgerInv, TypeOK, BondedCoversStakes, Stakes, Bonded, stakingVars
    <3>3. (height + 1) % BlocksPerEpoch # 0
      BY <1>0, <2>2 DEF IsEpochBoundary
    <3> QED
      BY <1>0, <1>2, <3>1, <3>2, <3>3 DEF stakingVars
  <2> QED
    BY <2>1, <2>2
<1>4. TypeOK' /\ BondedCoversStakes'
  BY <1>3 DEF LedgerInv
<1>5. \A e \in DOMAIN snapshots' : Records(snapshots'[e])
  BY <1>0, <1>1, <1>4, SnapshotRecords
<1>6. BlockTypeOK'
  BY <1>0, <1>1, <1>3, <1>4, <1>5 DEF BlockTypeOK, Records
<1>7. EpochFollowsHeight'
  BY <1>1, <1>3 DEF EpochFollowsHeight
<1> QED
  BY <1>4, <1>6, <1>7 DEF BlockInv

\* A step that only changes the accounts and the fees of the block.
LEMMA AccountsStep ==
    ASSUME BlockInv, balances' \in [Accounts -> Nat], fees' \in 0 .. MaxFees,
           phase' \in {"evidence", "txs"},
           UNCHANGED <<currentEpoch, validators, byOperator, byPubkey, totalBonded,
                       burned, height, totalSupply, treasury, snapshots, processed,
                       unreadable>>
    PROVE  BlockInv'
<1>1. TypeOK'
  BY DEF BlockInv, BlockTypeOK, TypeOK
<1>2. BlockTypeOK'
  BY <1>1 DEF BlockInv, BlockTypeOK
<1>3. BondedCoversStakes'
  BY DEF BlockInv, BondedCoversStakes, Stakes, Bonded
<1>4. EpochFollowsHeight'
  BY DEF BlockInv, EpochFollowsHeight
<1> QED
  BY <1>2, <1>3, <1>4 DEF BlockInv

\* A step of the stake ledger inside or before a block.
LEMMA LedgerStep ==
    ASSUME BlockInv, LedgerInv', currentEpoch' = currentEpoch,
           UNCHANGED <<height, phase, totalSupply, treasury, snapshots, unreadable,
                       fees>>,
           DOMAIN processed' \subseteq Evidence,
           \A ev \in DOMAIN processed' : processed'[ev] \in 1 .. MaxHeight + 1
    PROVE  BlockInv'
<1>1. TypeOK' /\ BondedCoversStakes'
  BY DEF LedgerInv
<1>2. BlockTypeOK'
  BY <1>1 DEF BlockInv, BlockTypeOK
<1>3. EpochFollowsHeight'
  BY DEF BlockInv, EpochFollowsHeight
<1> QED
  BY <1>1, <1>2, <1>3 DEF BlockInv

LEMMA ProcessEvidenceInv ==
    ASSUME BlockInv, NEW ev \in Evidence, ProcessEvidence(ev)
    PROVE  BlockInv'
<1>1. ev.validator \in ConsensusIDs /\ ev.offense \in Offenses
  BY EvidenceAssumption DEF Evidence, Offenses
<1>2. LedgerInv' /\ currentEpoch' = currentEpoch
  <2>0. LedgerInv
    BY DEF BlockInv, BlockTypeOK, LedgerInv
  <2>1. CASE SlashValidator(ev.validator, ev.offense)
    <3>1. LedgerInv'
      BY <1>1, <2>0, <2>1, SlashCovers
    <3>2. currentEpoch' = currentEpoch
      BY <2>1 DEF SlashValidator, ApplySlash
    <3> QED
      BY <2>0, <3>1, <3>2
  <2>2. CASE UNCHANGED stakingVars
    BY <2>0, <2>2 DEF LedgerInv, TypeOK, BondedCoversStakes, Stakes, Bonded, stakingVars
  <2> QED
    BY <2>1, <2>2 DEF ProcessEvidence
<1>4. /\ DOMAIN processed' = DOMAIN processed \cup {ev}
      /\ \A x \in DOMAIN processed' :
            processed'[x] = IF x = ev THEN height + 1 ELSE processed[x]
  BY DEF ProcessEvidence, Put
<1>5. height + 1 \in 1 .. MaxHeight + 1
  BY EpochAssumption DEF BlockInv, BlockTypeOK
<1>6. /\ DOMAIN processed' \subseteq Evidence
      /\ \A x \in DOMAIN processed' : processed'[x] \in 1 .. MaxHeight + 1
  BY <1>4, <1>5 DEF BlockInv, BlockTypeOK
<1>7. UNCHANGED <<height, phase, totalSupply, treasury, snapshots, unreadable, fees>>
  BY DEF ProcessEvidence
<1> QED
  BY <1>2, <1>6, <1>7, LedgerStep

LEMMA AddFeeType ==
    ASSUME BlockInv, NEW maxFee \in Fees, AddFee(maxFee)
    PROVE  fees' \in 0 .. MaxFees /\ phase = "txs" /\ maxFee \in Nat
BY TxAssumption DEF BlockInv, BlockTypeOK, AddFee

LEMMA ApplyTransferInv ==
    ASSUME BlockInv, NEW from \in Accounts, NEW to \in Accounts,
           NEW amount \in Transfers, NEW maxFee \in Fees,
           ApplyTransfer(from, to, amount, maxFee)
    PROVE  BlockInv'
<1>1. fees' \in 0 .. MaxFees /\ maxFee \in Nat /\ amount \in Nat
  BY AddFeeType, TxAssumption DEF ApplyTransfer
<1>2. balances' \in [Accounts -> Nat]
  <2>1. balances \in [Accounts -> Nat] /\ balances[from] >= amount + maxFee
    BY DEF BlockInv, BlockTypeOK, TypeOK, ApplyTransfer
  <2>2. balances' = [balances EXCEPT ![to] = @ + amount, ![from] = @ - amount - maxFee]
    BY DEF ApplyTransfer
  <2>3. CASE from = to
    BY <1>1, <2>1, <2>2, <2>3
  <2>4. CASE from # to
    BY <1>1, <2>1, <2>2, <2>4
  <2> QED
    BY <2>3, <2>4
<1>3. UNCHANGED <<currentEpoch, validators, byOperator, byPubkey, totalBonded, burned,
                  height, phase, totalSupply, treasury, snapshots, processed, unreadable>>
  BY DEF ApplyTransfer
<1>4. phase' \in {"evidence", "txs"}
  BY <1>3 DEF BlockInv, BlockTypeOK
<1> QED
  BY <1>1, <1>2, <1>3, <1>4, AccountsStep

LEMMA ExecuteContractInv ==
    ASSUME BlockInv, NEW from \in Accounts, NEW gasUsed \in GasUses, NEW maxFee \in Fees,
           ExecuteContract(from, gasUsed, maxFee)
    PROVE  BlockInv'
<1>1. fees' \in 0 .. MaxFees /\ gasUsed \in Nat
  BY AddFeeType, TxAssumption DEF ExecuteContract
<1>2. balances' \in [Accounts -> Nat]
  BY <1>1 DEF BlockInv, BlockTypeOK, TypeOK, ExecuteContract
<1>3. UNCHANGED <<currentEpoch, validators, byOperator, byPubkey, totalBonded, burned,
                  height, phase, totalSupply, treasury, snapshots, processed, unreadable>>
  BY DEF ExecuteContract
<1>4. phase' \in {"evidence", "txs"}
  BY <1>3 DEF BlockInv, BlockTypeOK
<1> QED
  BY <1>1, <1>2, <1>3, <1>4, AccountsStep

LEMMA ApplyRegistrationInv ==
    ASSUME BlockInv, NEW id \in ConsensusIDs, NEW op \in Accounts,
           NEW stake \in StakeAmounts, NEW maxFee \in Fees,
           ApplyRegistration(id, op, stake, maxFee)
    PROVE  BlockInv'
<1>1. fees' \in 0 .. MaxFees /\ maxFee \in Nat /\ stake \in Nat
  BY AddFeeType, AmountAssumption DEF ApplyRegistration
<1>2. balances' \in [Accounts -> Nat]
  BY <1>1 DEF BlockInv, BlockTypeOK, TypeOK, ApplyRegistration
<1>3. totalBonded' = totalBonded + stake /\ totalBonded \in Nat
  BY DEF BlockInv, BlockTypeOK, TypeOK, ApplyRegistration
<1>4. /\ byPubkey' \subseteq ConsensusIDs /\ unreadable' \subseteq ConsensusIDs
      /\ byOperator' \in [Accounts -> ConsensusIDs \cup {None}]
  BY DEF BlockInv, BlockTypeOK, TypeOK, ApplyRegistration
<1>5. UNCHANGED <<currentEpoch, validators, burned, height, phase, totalSupply,
                  treasury, snapshots, processed>>
  BY DEF ApplyRegistration
<1>6. TypeOK'
  BY <1>1, <1>2, <1>3, <1>4, <1>5 DEF BlockInv, BlockTypeOK, TypeOK
<1>7. BlockTypeOK'
  BY <1>1, <1>4, <1>5, <1>6 DEF BlockInv, BlockTypeOK
<1>8. BondedCoversStakes'
  <2>1. Total(Stakes', Bonded') = Total(Stakes, Bonded)
    BY <1>5 DEF Stakes, Bonded
  <2>2. Total(Stakes, Bonded) \in Nat
    <3>1. IsFiniteSet(Bonded) /\ \A i \in Bonded : Stakes[i] \in Nat
      BY StakesType DEF BlockInv, BlockTypeOK
    <3> QED
      BY <3>1, TotalType
  <2> QED
    BY <1>1, <1>3, <2>1, <2>2 DEF BlockInv, BondedCoversStakes
<1>9. EpochFollowsHeight'
  BY <1>5 DEF BlockInv, EpochFollowsHeight
<1> QED
  BY <1>7, <1>8, <1>9 DEF BlockInv

LEMMA StakingOperationInv ==
    ASSUME BlockInv, StakingOperation
    PROVE  BlockInv'
<1>0. LedgerInv
  BY DEF BlockInv, BlockTypeOK, LedgerInv
<1>1. ASSUME NEW id \in ConsensusIDs, NEW op \in Accounts, NEW stake \in StakeAmounts,
             RegisterValidator(id, op, stake)
      PROVE  LedgerInv' /\ currentEpoch' = currentEpoch
  <2>1. LedgerInv'
    BY <1>0, <1>1, RegisterCovers
  <2> QED
    BY <1>1, <2>1 DEF RegisterValidator
<1>2. ASSUME NEW from \in Accounts, NEW id \in ConsensusIDs, NEW amount \in StakeAmounts,
             Bond(from, id, amount)
      PROVE  LedgerInv' /\ currentEpoch' = currentEpoch
  <2>1. LedgerInv'
    BY <1>0, <1>2, BondCovers
  <2> QED
    BY <1>2, <2>1 DEF Bond
<1>3. ASSUME NEW id \in ConsensusIDs, NEW cooldown \in 1 .. MaxCooldown,
             StartUnstake(id, currentEpoch + cooldown)
      PROVE  LedgerInv' /\ currentEpoch' = currentEpoch
  <2>1. LedgerInv'
    BY <1>0, <1>3, UnstakeCovers
  <2> QED
    BY <1>3, <2>1 DEF StartUnstake
<1>4. LedgerInv' /\ currentEpoch' = currentEpoch
  BY <1>1, <1>2, <1>3 DEF StakingOperation
<1>5. /\ UNCHANGED <<height, phase, totalSupply, treasury, snapshots, unreadable, fees>>
      /\ processed' = processed
  BY DEF StakingOperation, blockVars
<1>6. /\ DOMAIN processed' \subseteq Evidence
      /\ \A ev \in DOMAIN processed' : processed'[ev] \in 1 .. MaxHeight + 1
  BY <1>5 DEF BlockInv, BlockTypeOK
<1> QED
  BY <1>4, <1>5, <1>6, LedgerStep

LEMMA FinalizeBlockInv ==
    ASSUME BlockInv, FinalizeBlock
    PROVE  BlockInv'
<1>1. TypeOK /\ fees \in Nat
  BY TxAssumption DEF BlockInv, BlockTypeOK
<1>2. Percent(fees, 70) \in Nat
  BY <1>1, PercentType
<1>3. Records(ActiveRecords)
  BY <1>1 DEF ActiveRecords, GetActiveValidators, Records, TypeOK
<1>4. balances' \in PaidOut(Percent(fees, 70), ActiveRecords)
  BY DEF FinalizeBlock, DistributeRewards
<1>5. balances' \in [Accounts -> Nat]
  BY <1>1, <1>2, <1>3, <1>4, PaidOutType
<1>6. fees' \in 0 .. MaxFees
  BY TxAssumption DEF FinalizeBlock
<1> QED
  BY <1>5, <1>6, AccountsStep DEF FinalizeBlock

-----------------------------------------------------------------------------
(* The theorems.                                                           *)

LEMMA BlockInitInv == BlockInit => BlockInv
<1> SUFFICES ASSUME BlockInit
             PROVE  BlockInv
  OBVIOUS
<1>1. Init
  BY DEF BlockInit
<1>2. TypeOK
  BY <1>1, InitIInv DEF IInv
<1>3. BlockTypeOK
  BY <1>2, SupplyAssumption, EpochAssumption, TxAssumption DEF BlockInit, BlockTypeOK
<1>4. BondedCoversStakes
  <2>1. Total(Stakes, Bonded) = totalBonded /\ totalBonded \in Nat
    BY <1>1, <1>2, InitIInv DEF IInv, TotalBondedIsSum, TypeOK
  <2> QED
    BY <2>1 DEF BondedCoversStakes
<1>5. EpochFollowsHeight
  BY EpochAssumption DEF BlockInit, Init, EpochFollowsHeight
<1> QED
  BY <1>3, <1>4, <1>5 DEF BlockInv

LEMMA BlockStepInv == BlockInv /\ [BlockNext]_vars => BlockInv'
<1> SUFFICES ASSUME BlockInv, [BlockNext]_vars
             PROVE  BlockInv'
  OBVIOUS
<1>1. CASE \E ev \in Evidence : ProcessEvidence(ev)
  BY <1>1, ProcessEvidenceInv
<1>2. CASE BeginBlock
  BY <1>2, BeginBlockInv
<1>3. CASE \E from, to \in Accounts, amount \in Transfers, maxFee \in Fees :
              ApplyTransfer(from, to, amount, maxFee)
  BY <1>3, ApplyTransferInv
<1>4. CASE \E from \in Accounts, gasUsed \in GasUses, maxFee \in Fees :
              ExecuteContract(from, gasUsed, maxFee)
  BY <1>4, ExecuteContractInv
<1>5. CASE \E id \in ConsensusIDs, op \in Accounts, stake \in StakeAmounts,
              maxFee \in Fees : ApplyRegistration(id, op, stake, maxFee)
  BY <1>5, ApplyRegistrationInv
<1>6. CASE StakingOperation
  BY <1>6, StakingOperationInv
<1>7. CASE FinalizeBlock
  BY <1>7, FinalizeBlockInv
<1>8. CASE UNCHANGED vars
  BY <1>8 DEF BlockInv, BlockTypeOK, TypeOK, BondedCoversStakes, Stakes, Bonded,
              EpochFollowsHeight, vars, stakingVars, blockVars
<1> QED
  BY <1>1, <1>2, <1>3, <1>4, <1>5, <1>6, <1>7, <1>8 DEF BlockNext

\* Whatever blocks are executed, no balance, stake or total goes below zero,
\* staking/total_bonded covers the stakes, registrations by transaction
\* included, and the epoch counter is the one of the height (BeginBlock,
\* ProcessEpochTransition, ProcessEvidence, ApplyTransaction, FinalizeBlock).
THEOREM BlocksCorrect ==
    BlockSpec => [](BlockTypeOK /\ BondedCoversStakes /\ EpochFollowsHeight)
<1>1. BlockInv => BlockTypeOK /\ BondedCoversStakes /\ EpochFollowsHeight
  BY DEF BlockInv
<1> QED
  BY <1>1, BlockInitInv, BlockStepInv, PTL DEF BlockSpec

\* The epoch the next boundary asks for is the one after the current, so the
\* mismatch error of ProcessEpochTransition cannot occur.
THEOREM TransitionNeverRefused ==
    BlockSpec => [](IsEpochBoundary(height + 1) =>
                       EpochAtHeight(height + 1) = currentEpoch + 1)
<1>1. BlockInv => (IsEpochBoundary(height + 1) =>
                      EpochAtHeight(height + 1) = currentEpoch + 1)
  <2> SUFFICES ASSUME BlockInv
               PROVE  EpochAtHeight(height + 1) = currentEpoch + 1
    OBVIOUS
  <2>1. height \in Nat /\ currentEpoch = height \div BlocksPerEpoch
    BY DEF BlockInv, BlockTypeOK, EpochFollowsHeight
  <2>2. height + 1 # 0 /\ (height + 1) - 1 = height
    BY <2>1
  <2> QED
    BY <2>1, <2>2 DEF EpochAtHeight
<1> QED
  BY <1>1, BlockInitInv, BlockStepInv, PTL DEF BlockSpec

\* The validator set of an epoch, against which commit proofs are checked, is
\* fixed by the block that takes its snapshot (BeginBlock, CreateSnapshot).
THEOREM SnapshotsFixed == BlockSpec => SnapshotsImmutable
<1> DEFINE Kept == \A e \in DOMAIN snapshots :
                      e \in DOMAIN snapshots' /\ snapshots'[e] = snapshots[e]
<1>1. BlockNext => Kept
  <2> SUFFICES ASSUME BlockNext
               PROVE  Kept
    OBVIOUS
  <2>1. CASE BeginBlock
    <3>1. PICK e, new : snapshots' = IF e \in DOMAIN snapshots THEN snapshots
                                     ELSE Put(snapshots, e, new)
      BY <2>1 DEF BeginBlock, CreateSnapshot
    <3> QED
      BY <3>1 DEF Put
  <2>2. CASE ~ BeginBlock
    <3>1. snapshots' = snapshots
      BY <2>2 DEF BlockNext, ProcessEvidence, ApplyTransfer, ExecuteContract,
                  ApplyRegistration, StakingOperation, FinalizeBlock, blockVars
    <3> QED
      BY <3>1
  <2> QED
    BY <2>1, <2>2
<1>2. [BlockNext]_vars => [Kept]_vars
  BY <1>1
<1> QED
  BY <1>2, PTL DEF BlockSpec, SnapshotsImmutable
=============================================================================
