---------------------------- MODULE RewardShares ----------------------------
(***************************************************************************)
(* How package staking splits an amount between validators by voting       *)
(* power.  DistributeRewards (fees) and DistributeValidatorRewards (epoch  *)
(* issuance) share this algorithm: round every share down, then give the   *)
(* rest to the validator with the most voting power.                       *)
(*                                                                         *)
(* All arithmetic is uint64: `w` is 2^64.                                  *)
(***************************************************************************)
EXTENDS Totals

\* The share of one validator, before the remainder.
Portion(amount, power, totalPower, w) ==
    ((amount * power) % w) \div totalPower

\* The validators with the most voting power: the code takes the first one of
\* a list sorted by power, then by consensus ID.
TopPower(power, S) == {i \in S : \A j \in S : power[j] <= power[i]}

\* Mutant of Rewards: the remainder stays with nobody.
RewardsFloor(amount, power, S, top, w) ==
    LET totalPower == (Total(power, S) % w)
    IN  [i \in S |-> Portion(amount, power[i], totalPower, w)]

\* What each validator of S is paid out of `amount`; the total power is not 0.
Rewards(amount, power, S, top, w) ==
    LET totalPower  == (Total(power, S) % w)
        portion     == [i \in S |-> Portion(amount, power[i], totalPower, w)]
        distributed == (Total(portion, S) % w)
        remainder   == ((amount - distributed) % w)
    IN  [portion EXCEPT ![top] = ((@ + remainder) % w)]
=============================================================================
