-------------------------- MODULE MCBlockExecution --------------------------
(* Small instances of BlockExecution for TLC. *)
EXTENDS BlockExecution, TLC

\* 500, 1000 and 2000 in the code; larger here so that small stakes lose tokens.
MCSlashPercent ==
    [doublePrevote |-> 2500, doublePrecommit |-> 5000, invalidCommit |-> 10000]

\* Consensus IDs and accounts are interchangeable.
Symmetry == Permutations(ConsensusIDs) \cup Permutations(Accounts)

-----------------------------------------------------------------------------
(* The reward split over every small input.  The word is small so that     *)
(* products wrap, and large enough that sums of powers do not.  The two    *)
(* properties do not depend on the state; they are stated of the states    *)
(* before the first block so that TLC evaluates them once.                 *)

Sharers == {1, 2, 3}
SmallWord == 64
Amounts == 0 .. 12
Powers == {p \in [Sharers -> 0 .. 4] : \E v \in Sharers : p[v] # 0}

Split(amount, power, top) == Rewards(amount, power, Sharers, top, SmallWord)

\* DistributeRewards and DistributeValidatorRewards pay out exactly the amount,
\* even when amount * power wraps around 2^64: nothing is created or lost.
SharesExact ==
    height = 0 => \A amount \in Amounts, power \in Powers :
        \A top \in TopPower(power, Sharers) :
            Total(Split(amount, power, top), Sharers) = amount
=============================================================================
