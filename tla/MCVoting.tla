------------------------------ MODULE MCVoting ------------------------------
(* The instance of Voting for TLC.                                         *)
EXTENDS Voting

\* Every validator has the same power.
Equal == [v \in Validators |-> 1]
=============================================================================
