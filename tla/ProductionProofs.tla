------------------------- MODULE ProductionProofs -------------------------
(***************************************************************************)
(* Proofs about BlockProduction, for every set of transactions, pool size, *)
(* block limit and number of restarts.                                     *)
(*                                                                         *)
(* NoncedIntentsOnce is inductive together with the type invariant.  Its   *)
(* second half, about the persisted state, is what a restart falls back    *)
(* on.  OneTxPerNonce needs that nextNonce is at least every pooled nonce. *)
(***************************************************************************)
EXTENDS BlockProduction, TLAPS

Nonced(t) == t.kind \in {"standard", "registration"}

\* What an executed transaction does to the nonces.
NoncesAfter(t, before, after) ==
    \A s \in Senders :
        after[s].nonce = IF s = t.sender /\ Nonced(t) THEN before[s].nonce + 1
                                                      ELSE before[s].nonce

\* Executing a transaction that has no error keeps balances natural numbers
\* and moves the sender's nonce by one, to the transaction's nonce, exactly
\* when ApplyTransaction executed it.
LEMMA AppliedLaws ==
    ASSUME ProductionTypeOK, NEW t \in Txs, Outcome(t) = "none"
    PROVE  /\ Applied(t) \in Accounts
           /\ NoncesAfter(t, account, Applied(t))
           /\ Nonced(t) => t.nonce = account[t.sender].nonce + 1
<1> DEFINE s == t.sender
           r == t.to
<1>1. /\ s \in Senders /\ r \in Senders
      /\ t.amount \in Nat /\ t.fee \in Nat /\ t.nonce \in Nat
      /\ t.kind \in {"standard", "contract", "failing", "registration"}
  BY TxsAssumption DEF Kinds
<1>2. /\ account \in [Senders -> [nonce : Nat, balance : Nat]]
      /\ \A x \in Senders : account[x].nonce \in Nat /\ account[x].balance \in Nat
  BY DEF ProductionTypeOK, Accounts
<1>3. /\ t.kind # "failing"
      /\ t.kind # "contract" => t.nonce = account[s].nonce + 1
      /\ account[s].balance >= t.amount + (IF t.kind = "contract" THEN 0 ELSE t.fee)
  BY <1>1, <1>2 DEF Outcome
<1>4. CASE t.kind = "standard"
  <2> DEFINE credited == [account EXCEPT ![r].balance = @ + t.amount]
  <2>1. Applied(t) = [credited EXCEPT ![s].balance = @ - t.amount - t.fee,
                                      ![s].nonce = @ + 1]
    BY <1>4 DEF Applied, Transferred
  <2>2. /\ credited \in [Senders -> [nonce : Nat, balance : Nat]]
        /\ \A x \in Senders : /\ credited[x].nonce = account[x].nonce
                              /\ credited[x].balance >= account[x].balance
    BY <1>1, <1>2
  <2>3. credited[s].balance >= t.amount + t.fee
    BY <1>1, <1>2, <1>3, <1>4, <2>2
  <2> HIDE DEF credited
  <2>4. /\ Applied(t) \in [Senders -> [nonce : Nat, balance : Nat]]
        /\ \A x \in Senders :
              Applied(t)[x].nonce = IF x = s THEN credited[x].nonce + 1
                                             ELSE credited[x].nonce
    BY <1>1, <2>1, <2>2, <2>3
  <2> QED
    BY <1>3, <1>4, <2>2, <2>4 DEF NoncesAfter, Nonced, Accounts
<1>5. CASE t.kind = "contract"
  <2>1. Applied(t) = [account EXCEPT ![s].balance = @ - t.amount]
    BY <1>5 DEF Applied, GasCharged
  <2>2. /\ Applied(t) \in [Senders -> [nonce : Nat, balance : Nat]]
        /\ \A x \in Senders : Applied(t)[x].nonce = account[x].nonce
    BY <1>1, <1>2, <1>3, <1>5, <2>1
  <2> QED
    BY <1>5, <2>2 DEF NoncesAfter, Nonced, Accounts
<1>6. CASE t.kind = "registration"
  <2>1. Applied(t) = [account EXCEPT ![s].balance = @ - t.amount - t.fee,
                                     ![s].nonce = @ + 1]
    BY <1>6 DEF Applied
  <2>2. /\ Applied(t) \in [Senders -> [nonce : Nat, balance : Nat]]
        /\ \A x \in Senders :
              Applied(t)[x].nonce = IF x = s THEN account[x].nonce + 1
                                             ELSE account[x].nonce
    BY <1>1, <1>2, <1>3, <1>6, <2>1
  <2> QED
    BY <1>3, <1>6, <2>2 DEF NoncesAfter, Nonced, Accounts
<1> QED
  BY <1>1, <1>3, <1>4, <1>5, <1>6

\* A failed transaction takes at most the stake it was checked to have.
LEMMA AfterErrorType ==
    ASSUME ProductionTypeOK, NEW t \in Txs
    PROVE  AfterError(t) \in Accounts
<1>1. /\ t.sender \in Senders
      /\ t.amount \in Nat /\ t.fee \in Nat
  BY TxsAssumption
<1>2. /\ account \in [Senders -> [nonce : Nat, balance : Nat]]
      /\ account[t.sender].balance \in Nat
  BY <1>1 DEF ProductionTypeOK, Accounts
<1>3. CASE Outcome(t) = "registered"
  <2>1. account[t.sender].balance >= t.amount
    BY <1>1, <1>2, <1>3 DEF Outcome
  <2>2. AfterError(t) = [account EXCEPT ![t.sender].balance = @ - t.amount]
    BY <1>3 DEF AfterError
  <2> QED
    BY <1>1, <1>2, <2>1, <2>2 DEF Accounts
<1>4. CASE Outcome(t) # "registered"
  BY <1>2, <1>4 DEF AfterError, Accounts
<1> QED
  BY <1>3, <1>4

\* Spending a nonce: the transaction takes the next nonce of its sender, so it
\* was not executed before.
LEMMA SpendNonce ==
    ASSUME NEW before \in Accounts, NEW after \in Accounts,
           NEW counts \in Counts, NEW t \in Txs,
           NoncesSpent(before, counts),
           NoncesAfter(t, before, after),
           Nonced(t) => t.nonce = before[t.sender].nonce + 1
    PROVE  NoncesSpent(after, [counts EXCEPT ![t] = @ + 1])
<1> DEFINE counts2 == [counts EXCEPT ![t] = @ + 1]
<1>1. /\ \A u \in Txs : counts[u] \in Nat /\ u.nonce \in Nat \ {0}
      /\ \A u \in Txs : counts2[u] = IF u = t THEN counts[t] + 1 ELSE counts[u]
      /\ \A s \in Senders : before[s].nonce \in Nat
      /\ t.sender \in Senders
  BY TxsAssumption DEF Counts, Accounts
<1> HIDE DEF counts2
<1> SUFFICES ASSUME NEW s \in Senders
             PROVE  /\ {u.nonce : u \in NoncedOf(s, counts2)} = 1 .. after[s].nonce
                    /\ \A u \in NoncedOf(s, counts2) :
                          /\ counts2[u] = 1
                          /\ \A v \in NoncedOf(s, counts2) :
                                v.nonce = u.nonce => v = u
  BY DEF NoncesSpent, counts2
<1>2. /\ {u.nonce : u \in NoncedOf(s, counts)} = 1 .. before[s].nonce
      /\ \A u \in NoncedOf(s, counts) :
            /\ counts[u] = 1
            /\ \A v \in NoncedOf(s, counts) : v.nonce = u.nonce => v = u
  BY DEF NoncesSpent
<1>3. CASE s = t.sender /\ Nonced(t)
  <2>1. /\ t.nonce = before[s].nonce + 1
        /\ after[s].nonce = before[s].nonce + 1
    BY <1>3 DEF NoncesAfter
  <2>2. t \notin NoncedOf(s, counts)
    BY <1>1, <1>2, <2>1
  <2>3. counts[t] = 0
    BY <1>1, <1>3, <2>2 DEF NoncedOf, Nonced
  <2>4. NoncedOf(s, counts2) = NoncedOf(s, counts) \cup {t}
    BY <1>1, <1>3, <2>3 DEF NoncedOf, Nonced
  <2>5. \A u \in NoncedOf(s, counts) : u \in Txs /\ u.nonce \in 1 .. before[s].nonce
    BY <1>2 DEF NoncedOf
  <2>6. {u.nonce : u \in NoncedOf(s, counts2)}
          = {u.nonce : u \in NoncedOf(s, counts)} \cup {t.nonce}
    BY <2>4
  <2>7. 1 .. before[s].nonce + 1 = (1 .. before[s].nonce) \cup {before[s].nonce + 1}
    BY <1>1
  <2>8. {u.nonce : u \in NoncedOf(s, counts2)} = 1 .. after[s].nonce
    BY <1>2, <2>1, <2>6, <2>7
  <2>9. \A u \in NoncedOf(s, counts2) :
           /\ counts2[u] = 1
           /\ \A v \in NoncedOf(s, counts2) : v.nonce = u.nonce => v = u
    <3>1. \A u \in NoncedOf(s, counts) : u.nonce # t.nonce /\ u # t
      BY <1>1, <2>1, <2>2, <2>5
    <3> QED
      BY <1>1, <1>2, <2>3, <2>4, <2>5, <3>1
  <2> QED
    BY <2>8, <2>9
<1>4. CASE ~ (s = t.sender /\ Nonced(t))
  <2>1. after[s].nonce = before[s].nonce
    BY <1>4 DEF NoncesAfter
  <2>2. t \notin NoncedOf(s, counts) /\ t \notin NoncedOf(s, counts2)
    BY <1>4 DEF NoncedOf, Nonced
  <2>3. NoncedOf(s, counts2) = NoncedOf(s, counts)
    BY <1>1, <2>2 DEF NoncedOf
  <2>4. \A u \in NoncedOf(s, counts) : counts2[u] = counts[u]
    BY <1>1, <2>2 DEF NoncedOf
  <2> QED
    BY <1>2, <2>1, <2>3, <2>4
<1> QED
  BY <1>3, <1>4

\* A failed transaction leaves every nonce alone.
LEMMA AfterErrorNonces ==
    ASSUME ProductionTypeOK, NEW t \in Txs, NEW s \in Senders
    PROVE  AfterError(t)[s].nonce = account[s].nonce
<1>1. /\ t.sender \in Senders
      /\ account \in [Senders -> [nonce : Nat, balance : Nat]]
  BY TxsAssumption DEF ProductionTypeOK, Accounts
<1> QED
  BY <1>1 DEF AfterError

\* Every balance, nonce and counter keeps its type in every step.
LEMMA TypeStep ==
    ASSUME ProductionTypeOK, [Next]_vars
    PROVE  ProductionTypeOK'
<1> USE DEF ProductionTypeOK
<1>1. ASSUME NEW t \in Txs, Submit(t) PROVE ProductionTypeOK'
  BY <1>1, TxsAssumption DEF Submit, state, disk, history
<1>2. ASSUME NEW t \in Txs, Expire(t) PROVE ProductionTypeOK'
  BY <1>2 DEF Expire, state, disk
<1>3. ASSUME StartBlock PROVE ProductionTypeOK'
  BY <1>3 DEF StartBlock, Chosen, Phases, pool, state, disk
<1>4. ASSUME NEW t \in Txs, ExecuteTx(t) PROVE ProductionTypeOK'
  <2>1. account' \in Accounts
    BY <1>4, AppliedLaws DEF ExecuteTx
  <2>2. executed' \in Counts
    BY <1>4 DEF ExecuteTx, Counts
  <2> QED
    BY <1>4, <2>1, <2>2 DEF ExecuteTx, pool, disk
<1>5. ASSUME NEW t \in Txs, FailBuild(t) PROVE ProductionTypeOK'
  <2>1. account' \in Accounts
    BY <1>5, AfterErrorType DEF FailBuild
  <2>2. lastError' \in {"none", "vm", "nonce", "balance", "registered"}
    BY <1>5 DEF FailBuild, Outcome
  <2> QED
    BY <1>5, <2>1, <2>2 DEF FailBuild, Phases, pool, disk
<1>6. ASSUME FinishBlock PROVE ProductionTypeOK'
  BY <1>6 DEF FinishBlock, Phases, history, pool, state, disk
<1>7. ASSUME StoreTip PROVE ProductionTypeOK'
  BY <1>7 DEF StoreTip, Phases, history, pool, state
<1>8. ASSUME CommitState PROVE ProductionTypeOK'
  BY <1>8 DEF CommitState, Phases, history, pool, state
<1>9. ASSUME CleanMempool PROVE ProductionTypeOK'
  BY <1>9 DEF CleanMempool, Phases, history, state, disk
<1>10. ASSUME Restart PROVE ProductionTypeOK'
  <2>1. disturbed' \in BOOLEAN
    BY <1>10, Zenon DEF Restart
  <2> QED
    BY <1>10, <2>1, LimitsAssumption DEF Restart, Phases, disk
<1>11. CASE UNCHANGED vars
  BY <1>11 DEF vars
<1> QED
  BY <1>1, <1>2, <1>3, <1>4, <1>5, <1>6, <1>7, <1>8, <1>9, <1>10, <1>11
     DEF Next, Build

\* Type correctness: whatever is submitted, executed, rolled back by a crash or
\* left half done by a failed build, balances stay natural numbers.
THEOREM TypeCorrect == Spec => []ProductionTypeOK
<1>1. Init => ProductionTypeOK
  <2>1. Init => disturbed \in BOOLEAN
    BY Zenon DEF Init
  <2> QED
    BY <2>1, LimitsAssumption
       DEF Init, ProductionTypeOK, Accounts, Counts, Phases
<1>2. ProductionTypeOK /\ [Next]_vars => ProductionTypeOK'
  BY TypeStep
<1> QED
  BY <1>1, <1>2, PTL DEF Spec

\* No step spends a nonce twice.
LEMMA OnceStep ==
    ASSUME ProductionTypeOK, NoncedIntentsOnce, [Next]_vars
    PROVE  NoncedIntentsOnce'
<1> USE DEF NoncedIntentsOnce
<1>1. ASSUME NEW t \in Txs, ExecuteTx(t) PROVE NoncedIntentsOnce'
  <2>1. /\ account \in Accounts /\ executed \in Counts
        /\ NoncesSpent(account, executed)
    BY DEF ProductionTypeOK
  <2>2. /\ account' = Applied(t)
        /\ executed' = [executed EXCEPT ![t] = @ + 1]
        /\ saved' = saved
        /\ Outcome(t) = "none"
    BY <1>1 DEF ExecuteTx, disk
  <2>3. /\ Applied(t) \in Accounts
        /\ NoncesAfter(t, account, Applied(t))
        /\ Nonced(t) => t.nonce = account[t.sender].nonce + 1
    BY <2>2, AppliedLaws
  <2>4. PICK a, c : a = account' /\ c = executed'
    OBVIOUS
  <2>5. NoncesSpent(a, c)
    BY <2>1, <2>2, <2>3, <2>4, SpendNonce
  <2>6. NoncesSpent(account, executed)'
    BY <2>4, <2>5 DEF NoncesSpent, NoncedOf
  <2> QED
    BY <2>2, <2>6 DEF NoncesSpent, NoncedOf
<1>2. ASSUME NEW t \in Txs, FailBuild(t) PROVE NoncedIntentsOnce'
  <2>1. /\ account' = AfterError(t)
        /\ executed' = executed
        /\ saved' = saved
    BY <1>2 DEF FailBuild, disk
  <2>2. \A s \in Senders : account'[s].nonce = account[s].nonce
    BY <2>1, AfterErrorNonces
  <2> QED
    BY <2>1, <2>2 DEF NoncesSpent, NoncedOf
<1>3. ASSUME CommitState PROVE NoncedIntentsOnce'
  <2>1. /\ saved'.account = account /\ saved'.executed = executed
        /\ account' = account /\ executed' = executed
    BY <1>3 DEF CommitState, state
  <2> QED
    BY <2>1 DEF NoncesSpent, NoncedOf
<1>4. ASSUME Restart PROVE NoncedIntentsOnce'
  BY <1>4 DEF Restart, disk, NoncesSpent, NoncedOf
<1>5. ASSUME UNCHANGED <<account, executed, saved>> PROVE NoncedIntentsOnce'
  BY <1>5 DEF NoncesSpent, NoncedOf
<1>6. ASSUME NEW t \in Txs, Submit(t) \/ Expire(t)
      PROVE  UNCHANGED <<account, executed, saved>>
  BY <1>6 DEF Submit, Expire, state, disk
<1>7. StartBlock \/ FinishBlock \/ StoreTip \/ CleanMempool \/ UNCHANGED vars
        => UNCHANGED <<account, executed, saved>>
  BY DEF StartBlock, FinishBlock, StoreTip, CleanMempool, vars, state, disk
<1> QED
  BY <1>1, <1>2, <1>3, <1>4, <1>5, <1>6, <1>7 DEF Next, Build

\* Transfers and registrations are executed at most once and spend each nonce
\* exactly once, in memory and on disk, for any clients and any crashes.
THEOREM IntentsOnce == Spec => []NoncedIntentsOnce
<1>1. Init => NoncedIntentsOnce
  <2> SUFFICES ASSUME Init PROVE NoncedIntentsOnce
    OBVIOUS
  <2>1. /\ \A s \in Senders : account[s].nonce = 0
        /\ \A t \in Txs : executed[t] = 0
        /\ saved.account = account /\ saved.executed = executed
    BY DEF Init
  <2>2. \A s \in Senders : NoncedOf(s, executed) = {}
    BY <2>1 DEF NoncedOf
  <2>3. NoncesSpent(account, executed)
    BY <2>1, <2>2 DEF NoncesSpent
  <2> QED
    BY <2>1, <2>3 DEF NoncedIntentsOnce
<1>2. ProductionTypeOK /\ NoncedIntentsOnce /\ [Next]_vars => NoncedIntentsOnce'
  BY OnceStep
<1> QED
  BY <1>1, <1>2, TypeCorrect, PTL DEF Spec

\* The strengthening of OneTxPerNonce: no pooled nonce is above nextNonce.
PoolBehindNonce ==
    /\ OneTxPerNonce
    /\ \A t \in txs : t.nonce <= nextNonce[t.sender]

\* The nonce Submit admits is above every pooled nonce of its sender, and
\* nothing else adds to the pool; a restart clears pool and nonces together.
LEMMA PoolStep ==
    ASSUME ProductionTypeOK, PoolBehindNonce, [Next]_vars
    PROVE  PoolBehindNonce'
<1> USE DEF PoolBehindNonce, OneTxPerNonce
<1>1. ASSUME NEW t \in Txs, Submit(t) PROVE PoolBehindNonce'
  <2>1. /\ \A u \in Txs : u.sender \in Senders /\ u.nonce \in Nat \ {0}
        /\ txs \subseteq Txs
        /\ nextNonce \in [Senders -> Nat]
        /\ account[t.sender].nonce \in Nat
    BY TxsAssumption DEF ProductionTypeOK, Accounts
  <2>2. /\ txs' = txs \cup {t}
        /\ nextNonce' = [nextNonce EXCEPT ![t.sender] = t.nonce]
    BY <1>1 DEF Submit
  <2>3. t.nonce > nextNonce[t.sender]
    BY <1>1, <2>1 DEF Submit, Admissible
  <2>4. \A u \in txs : u.sender = t.sender => u.nonce < t.nonce
    BY <2>1, <2>3
  <2> QED
    BY <2>1, <2>2, <2>4
<1>2. ASSUME txs' \subseteq txs, nextNonce' = nextNonce PROVE PoolBehindNonce'
  BY <1>2
<1>3. ASSUME Restart PROVE PoolBehindNonce'
  BY <1>3 DEF Restart
<1>4. ASSUME NEW t \in Txs, Expire(t) \/ ExecuteTx(t) \/ FailBuild(t)
      PROVE  txs' \subseteq txs /\ nextNonce' = nextNonce
  BY <1>4 DEF Expire, ExecuteTx, FailBuild, pool
<1>5. (StartBlock \/ FinishBlock \/ StoreTip \/ CommitState \/ CleanMempool
         \/ UNCHANGED vars)
        => txs' \subseteq txs /\ nextNonce' = nextNonce
  BY DEF StartBlock, FinishBlock, StoreTip, CommitState, CleanMempool, vars, pool
<1> QED
  BY <1>1, <1>2, <1>3, <1>4, <1>5 DEF Next, Build

\* The mempool never holds two transactions for one nonce of an account.
THEOREM PoolUnambiguous == Spec => []OneTxPerNonce
<1>1. Init => PoolBehindNonce
  BY DEF Init, PoolBehindNonce, OneTxPerNonce
<1>2. ProductionTypeOK /\ PoolBehindNonce /\ [Next]_vars => PoolBehindNonce'
  BY PoolStep
<1>3. PoolBehindNonce => OneTxPerNonce
  BY DEF PoolBehindNonce
<1> QED
  BY <1>1, <1>2, <1>3, TypeCorrect, PTL DEF Spec

-----------------------------------------------------------------------------
(* Nonce errors.                                                           *)

\* As long as nothing disturbed it: the pooled transactions that the builder
\* has not executed carry, for every sender the pool knows, exactly the nonces
\* after the one of the account, and those chosen for the block come first.
NonceChain ==
    /\ block \subseteq txs
    /\ batch \subseteq txs \ block
    /\ \A t \in txs \ block : account[t.sender].nonce < t.nonce
    /\ \A s \in Senders :
          nextNonce[s] # 0 =>
             /\ account[s].nonce <= nextNonce[s]
             /\ \A n \in Nat :
                   account[s].nonce < n /\ n <= nextNonce[s] =>
                      \E t \in txs \ block : t.sender = s /\ t.nonce = n
    /\ \A t \in batch, u \in txs \ block :
          u.sender = t.sender /\ u.nonce < t.nonce => u \in batch

BuildPhases ==
    /\ phase # "executing" => batch = {}
    /\ phase = "idle" => block = {}

NonceInv ==
    /\ NoNonceErrors
    /\ BuildPhases
    /\ disturbed \/ NonceChain

\* In an undisturbed pool the next transaction of a block has the next nonce.
LEMMA NextHasNextNonce ==
    ASSUME ProductionTypeOK, PoolBehindNonce, NonceChain,
           NEW t \in Txs, IsNext(t)
    PROVE  t.nonce = account[t.sender].nonce + 1
<1>1. /\ t.sender \in Senders /\ t.nonce \in Nat
      /\ account[t.sender].nonce \in Nat
      /\ nextNonce[t.sender] \in Nat
      /\ t \in batch /\ t \in txs \ block
      /\ account[t.sender].nonce < t.nonce
      /\ t.nonce <= nextNonce[t.sender]
  BY TxsAssumption
     DEF ProductionTypeOK, Accounts, PoolBehindNonce, NonceChain, IsNext
<1> SUFFICES ASSUME account[t.sender].nonce + 1 < t.nonce
             PROVE  FALSE
  BY <1>1
<1>2. PICK u \in txs \ block :
         u.sender = t.sender /\ u.nonce = account[t.sender].nonce + 1
  BY <1>1 DEF NonceChain
<1>3. u \in batch /\ u # t /\ u.nonce < t.nonce
  BY <1>1, <1>2 DEF NonceChain
<1> QED
  BY <1>2, <1>3 DEF IsNext, Before

\* No step makes an undisturbed pool disagree with the accounts.
LEMMA NonceStep ==
    ASSUME ProductionTypeOK, PoolBehindNonce, NonceInv, [Next]_vars
    PROVE  NonceInv'
<1>0. /\ \A u \in Txs : u.sender \in Senders /\ u.nonce \in Nat \ {0}
      /\ txs \subseteq Txs /\ batch \subseteq Txs /\ block \subseteq Txs
      /\ nextNonce \in [Senders -> Nat]
      /\ \A s \in Senders : account[s].nonce \in Nat /\ nextNonce[s] \in Nat
      /\ disturbed \in BOOLEAN
  BY TxsAssumption DEF ProductionTypeOK, Accounts
<1>1. ASSUME NEW t \in Txs, Submit(t) PROVE NonceInv'
  <2>1. /\ txs' = txs \cup {t} /\ t \notin txs
        /\ nextNonce' = [nextNonce EXCEPT ![t.sender] = t.nonce]
        /\ UNCHANGED <<account, phase, batch, block, lastError, disturbed>>
        /\ t.nonce > nextNonce[t.sender]
        /\ nextNonce[t.sender] = 0 => t.nonce = account[t.sender].nonce + 1
        /\ nextNonce[t.sender] # 0 => t.nonce = nextNonce[t.sender] + 1
    BY <1>0, <1>1 DEF Submit, Admissible, state, history
  <2>2. NoNonceErrors' /\ BuildPhases'
    BY <2>1 DEF NonceInv, NoNonceErrors, BuildPhases
  <2>3. ASSUME NonceChain PROVE NonceChain'
    <3>1. txs' \ block' = (txs \ block) \cup {t}
      BY <2>1, <2>3 DEF NonceChain
    <3>2. \A u \in txs : u.sender = t.sender => u.nonce < t.nonce
      BY <1>0, <2>1 DEF PoolBehindNonce
    <3>3. account[t.sender].nonce < t.nonce
      BY <1>0, <2>1, <2>3 DEF NonceChain
    <3>4. ASSUME NEW s \in Senders, nextNonce'[s] # 0
          PROVE  /\ account'[s].nonce <= nextNonce'[s]
                 /\ \A n \in Nat :
                       account'[s].nonce < n /\ n <= nextNonce'[s] =>
                          \E u \in txs' \ block' : u.sender = s /\ u.nonce = n
      <4>1. CASE s # t.sender
        BY <1>0, <2>1, <2>3, <3>1, <3>4, <4>1 DEF NonceChain
      <4>2. CASE s = t.sender
        <5>1. nextNonce'[s] = t.nonce
          BY <1>0, <2>1, <4>2
        <5>2. ASSUME NEW n \in Nat, account[s].nonce < n, n <= t.nonce
              PROVE  \E u \in txs' \ block' : u.sender = s /\ u.nonce = n
          <6>1. CASE n = t.nonce
            BY <3>1, <4>2, <6>1
          <6>2. CASE n # t.nonce
            <7>1. nextNonce[s] # 0 /\ n <= nextNonce[s]
              BY <1>0, <2>1, <4>2, <5>2, <6>2
            <7> QED
              BY <2>3, <3>1, <5>2, <7>1 DEF NonceChain
          <6> QED
            BY <6>1, <6>2
        <5> QED
          BY <1>0, <2>1, <3>3, <4>2, <5>1, <5>2
      <4> QED
        BY <4>1, <4>2
    <3> QED
      BY <1>0, <2>1, <2>3, <3>1, <3>2, <3>3, <3>4 DEF NonceChain
  <2> QED
    BY <2>1, <2>2, <2>3 DEF NonceInv
<1>2. ASSUME NEW t \in Txs, Expire(t) PROVE NonceInv'
  BY <1>2 DEF Expire, NonceInv, NoNonceErrors, BuildPhases
<1>3. ASSUME StartBlock PROVE NonceInv'
  <2>1. /\ UNCHANGED <<txs, nextNonce, account, lastError>>
        /\ phase = "idle" /\ phase' = "executing" /\ block' = {}
        /\ disturbed' = (disturbed \/ batch' # txs)
    BY <1>3 DEF StartBlock, pool, state
  <2>2. NoNonceErrors' /\ BuildPhases'
    BY <2>1 DEF NonceInv, NoNonceErrors, BuildPhases
  <2>3. ASSUME NonceChain, batch' = txs PROVE NonceChain'
    <3>1. block = {}
      BY <2>1 DEF NonceInv, BuildPhases
    <3> QED
      BY <2>1, <2>3, <3>1 DEF NonceChain
  <2> QED
    BY <2>1, <2>2, <2>3 DEF NonceInv
<1>4. ASSUME NEW t \in Txs, ExecuteTx(t) PROVE NonceInv'
  <2>1. /\ UNCHANGED <<txs, nextNonce, phase, lastError>>
        /\ batch' = batch \ {t} /\ block' = block \cup {t}
        /\ account' = Applied(t)
        /\ disturbed' = (disturbed \/ t.kind = "contract")
        /\ Outcome(t) = "none"
        /\ t \in batch /\ phase = "executing"
    BY <1>4 DEF ExecuteTx, IsNext, pool
  <2>2. NoNonceErrors' /\ BuildPhases'
    BY <2>1 DEF NonceInv, NoNonceErrors, BuildPhases
  <2>3. ASSUME NonceChain, t.kind # "contract" PROVE NonceChain'
    <3>1. Nonced(t)
      BY <2>1, <2>3, TxsAssumption DEF Nonced, Kinds, Outcome
    <3>2. /\ t.nonce = account[t.sender].nonce + 1
          /\ \A s \in Senders : account'[s].nonce = IF s = t.sender
                                                    THEN account[s].nonce + 1
                                                    ELSE account[s].nonce
      BY <2>1, <3>1, AppliedLaws DEF NoncesAfter
    <3>3. /\ t \in txs \ block
          /\ t.nonce <= nextNonce[t.sender]
          /\ \A u \in txs \ block :
                u.sender = t.sender /\ u.nonce = t.nonce => u = t
      BY <2>1, <2>3 DEF NonceChain, PoolBehindNonce, OneTxPerNonce
    <3>4. txs' \ block' = (txs \ block) \ {t}
      BY <2>1
    <3>5. \A u \in txs' \ block' : account'[u.sender].nonce < u.nonce
      BY <1>0, <2>3, <3>2, <3>3, <3>4 DEF NonceChain
    <3>6. ASSUME NEW s \in Senders, nextNonce'[s] # 0
          PROVE  /\ account'[s].nonce <= nextNonce'[s]
                 /\ \A n \in Nat :
                       account'[s].nonce < n /\ n <= nextNonce'[s] =>
                          \E u \in txs' \ block' : u.sender = s /\ u.nonce = n
      <4>1. nextNonce'[s] = nextNonce[s] /\ nextNonce[s] # 0
        BY <2>1, <3>6
      <4>2. account'[s].nonce <= nextNonce[s]
        BY <1>0, <2>3, <3>2, <3>3, <4>1 DEF NonceChain
      <4>3. ASSUME NEW n \in Nat, account'[s].nonce < n, n <= nextNonce[s]
            PROVE  \E u \in txs' \ block' : u.sender = s /\ u.nonce = n
        <5>1. account[s].nonce < n /\ (s = t.sender => n # t.nonce)
          BY <1>0, <3>2, <4>3
        <5>2. PICK u \in txs \ block : u.sender = s /\ u.nonce = n
          BY <2>3, <4>1, <4>3, <5>1 DEF NonceChain
        <5> QED
          BY <3>4, <5>1, <5>2
      <4> QED
        BY <4>1, <4>2, <4>3
    <3>7. /\ block' \subseteq txs'
          /\ batch' \subseteq txs' \ block'
          /\ \A v \in batch', u \in txs' \ block' :
                u.sender = v.sender /\ u.nonce < v.nonce => u \in batch'
      BY <2>1, <2>3, <3>3, <3>4 DEF NonceChain
    <3> QED
      BY <3>5, <3>6, <3>7 DEF NonceChain
  <2> QED
    BY <2>1, <2>2, <2>3 DEF NonceInv
<1>5. ASSUME NEW t \in Txs, FailBuild(t) PROVE NonceInv'
  <2>1. /\ phase' = "idle" /\ batch' = {} /\ block' = {}
        /\ lastError' = Outcome(t)
        /\ disturbed' = (disturbed \/ Outcome(t) # "nonce")
        /\ IsNext(t)
    BY <1>5 DEF FailBuild
  <2>2. disturbed \/ Outcome(t) # "nonce"
    <3>1. ASSUME NonceChain PROVE Outcome(t) # "nonce"
      BY <2>1, <3>1, NextHasNextNonce DEF Outcome
    <3> QED
      BY <3>1 DEF NonceInv
  <2> QED
    BY <2>1, <2>2 DEF NonceInv, NoNonceErrors, BuildPhases
<1>6. ASSUME UNCHANGED <<txs, nextNonce, account, batch, block, disturbed>>,
             lastError' \in {lastError, "none"},
             phase' # "idle", phase' # "executing",
             batch = {}
      PROVE  NonceInv'
  BY <1>6 DEF NonceInv, NoNonceErrors, BuildPhases, NonceChain
<1>7. ASSUME FinishBlock PROVE NonceInv'
  BY <1>6, <1>7 DEF FinishBlock, pool, state, history
<1>8. ASSUME StoreTip \/ CommitState PROVE NonceInv'
  <2>1. batch = {}
    BY <1>8 DEF StoreTip, CommitState, NonceInv, BuildPhases
  <2> QED
    BY <1>6, <1>8, <2>1 DEF StoreTip, CommitState, pool, state, history
<1>9. ASSUME CleanMempool PROVE NonceInv'
  <2>1. /\ txs' = txs \ block /\ block' = {} /\ phase' = "idle" /\ batch = {}
        /\ UNCHANGED <<nextNonce, account, batch, lastError, disturbed>>
    BY <1>9 DEF CleanMempool, state, history, NonceInv, BuildPhases
  <2>2. txs' \ block' = txs \ block
    BY <2>1
  <2> QED
    BY <2>1, <2>2 DEF NonceInv, NoNonceErrors, BuildPhases, NonceChain
<1>10. ASSUME Restart PROVE NonceInv'
  BY <1>10 DEF Restart, NonceInv, NoNonceErrors, BuildPhases, NonceChain
<1>11. CASE UNCHANGED vars
  BY <1>11 DEF vars, NonceInv, NoNonceErrors, BuildPhases, NonceChain
<1> QED
  BY <1>1, <1>2, <1>3, <1>4, <1>5, <1>7, <1>8, <1>9, <1>10, <1>11
     DEF Next, Build

\* For any clients, pool and block size: a block fails on a nonce only after
\* expiry, a block that left transactions behind, a contract transaction or a
\* build that failed otherwise came between the pool and the accounts.
THEOREM NoncesAgree == Spec => []NoNonceErrors
<1>1. Init => PoolBehindNonce /\ NonceInv
  BY DEF Init, PoolBehindNonce, OneTxPerNonce, NonceInv, NoNonceErrors,
         BuildPhases, NonceChain
<1>2. ProductionTypeOK /\ PoolBehindNonce /\ NonceInv /\ [Next]_vars
        => PoolBehindNonce' /\ NonceInv'
  BY PoolStep, NonceStep
<1>3. NonceInv => NoNonceErrors
  BY DEF NonceInv
<1> QED
  BY <1>1, <1>2, <1>3, TypeCorrect, PTL DEF Spec
-----------------------------------------------------------------------------
(* Persisted effects.                                                      *)

\* The running state holds the effects of stored blocks, of failed builds and
\* of the block being built, which is stored before the state is.
EffectsInv ==
    /\ PersistedEffectsHaveBlock
    /\ \A t \in Txs : executed[t] > 0 => t \in onChain \cup abandoned \cup block
    /\ phase = "idle" => block = {}
    /\ phase \in {"commitState", "clean"} => block \subseteq onChain

LEMMA EffectsStep ==
    ASSUME ProductionTypeOK, EffectsInv, [Next]_vars
    PROVE  EffectsInv'
<1> USE DEF EffectsInv, PersistedEffectsHaveBlock
<1>1. ASSUME UNCHANGED <<executed, saved, onChain, abandoned, phase, block>>
      PROVE  EffectsInv'
  BY <1>1
<1>2. ASSUME NEW t \in Txs, Submit(t) \/ Expire(t) PROVE EffectsInv'
  BY <1>1, <1>2 DEF Submit, Expire, state, disk, history
<1>3. ASSUME StartBlock PROVE EffectsInv'
  BY <1>3 DEF StartBlock, state, disk
<1>4. ASSUME NEW t \in Txs, ExecuteTx(t) PROVE EffectsInv'
  <2>1. \A u \in Txs : u # t => executed'[u] = executed[u]
    BY <1>4 DEF ExecuteTx, ProductionTypeOK, Counts
  <2>2. /\ UNCHANGED <<saved, onChain, abandoned>>
        /\ phase' = "executing" /\ block' = block \cup {t}
    BY <1>4 DEF ExecuteTx, disk
  <2> QED
    BY <2>1, <2>2
<1>5. ASSUME NEW t \in Txs, FailBuild(t) PROVE EffectsInv'
  BY <1>5 DEF FailBuild, disk
<1>6. ASSUME FinishBlock PROVE EffectsInv'
  BY <1>6 DEF FinishBlock, state, disk, history
<1>7. ASSUME StoreTip PROVE EffectsInv'
  BY <1>7 DEF StoreTip, state, history
<1>8. ASSUME CommitState PROVE EffectsInv'
  BY <1>8 DEF CommitState, state, history
<1>9. ASSUME CleanMempool PROVE EffectsInv'
  BY <1>9 DEF CleanMempool, state, disk, history
<1>10. ASSUME Restart PROVE EffectsInv'
  BY <1>10 DEF Restart, disk
<1>11. CASE UNCHANGED vars
  BY <1>1, <1>11 DEF vars
<1> QED
  BY <1>2, <1>3, <1>4, <1>5, <1>6, <1>7, <1>8, <1>9, <1>10, <1>11
     DEF Next, Build

\* For any crashes and failed builds: the persisted state holds no effect of a
\* transaction that is in no stored block, unless a failed build executed it.
THEOREM EffectsHaveBlock == Spec => []PersistedEffectsHaveBlock
<1>1. Init => EffectsInv
  BY DEF Init, EffectsInv, PersistedEffectsHaveBlock
<1>2. ProductionTypeOK /\ EffectsInv /\ [Next]_vars => EffectsInv'
  BY EffectsStep
<1>3. EffectsInv => PersistedEffectsHaveBlock
  BY DEF EffectsInv
<1> QED
  BY <1>1, <1>2, <1>3, TypeCorrect, PTL DEF Spec
=============================================================================
