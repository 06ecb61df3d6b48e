----------------------------- MODULE MCStaking ------------------------------
(* Small instances of Staking for TLC. *)
EXTENDS Staking, TLC

\* 500, 1000 and 2000 in the code; larger here so that small stakes lose tokens.
MCSlashPercent ==
    [doublePrevote |-> 2500, doublePrecommit |-> 5000, invalidCommit |-> 10000]

\* Consensus IDs and accounts are interchangeable in Staking.
Symmetry == Permutations(ConsensusIDs) \cup Permutations(Accounts)
=============================================================================
