------------------------------- MODULE Voting -------------------------------
(***************************************************************************)
(* Prevotes, precommits and commit proofs for one height (package          *)
(* consensus: VotingState, the voting rules the BFT harness runs, and      *)
(* validateCommitProof), weighted by the voting power of one validator     *)
(* snapshot.                                                               *)
(*                                                                         *)
(* Votes are signed by their validators and reach the VotingState of their *)
(* block later, in any order or never; the harness's loop, which signs and *)
(* delivers in one pass, is one of these behaviours.  All votes are of     *)
(* round 0, the only round any code of the repository runs.  Byzantine     *)
(* validators may have signed any vote at any time, so their votes are     *)
(* always on hand.  A vote for another height or block, by a validator     *)
(* outside the snapshot or with a bad signature is refused before the      *)
(* first write of addVote and is not a step.                               *)
(***************************************************************************)
EXTENDS Integers, Sequences, FiniteSets, Totals

CONSTANTS
    Validators,     \* the validators of the snapshot
    Power,          \* their voting power
    Byzantine,      \* those that do not follow the voting rules
    Blocks,         \* the blocks proposed at this height
    PowerClaims,    \* powers a commit proof may state
    Word            \* 2^64: power is uint64

ASSUME ValidatorAssumption ==
    /\ IsFiniteSet(Validators)
    /\ Power \in [Validators -> Nat]
    /\ Byzantine \subseteq Validators
    /\ PowerClaims \subseteq Nat

\* The products of the two-thirds test fit in a uint64.
ASSUME PowerFits ==
    /\ Word \in Nat
    /\ 3 * Total(Power, Validators) < Word

Honest == Validators \ Byzantine

VARIABLES
    prevoted,       \* block -> honest validators that signed a prevote for it
    precommitted,   \* block -> honest validators that signed a precommit for it
    votingState,    \* block -> its VotingState
    committed       \* block -> signers of the commit proof accepted for it

votingVars == <<prevoted, precommitted, votingState, committed>>

-----------------------------------------------------------------------------
(* VotingState.                                                            *)

\* The power of the snapshot, added up in a uint64.
TotalPower == Total(Power, Validators) % Word

VotingState ==
    [prevotes: SUBSET Validators, precommits: SUBSET Validators,
     prevotePower: 0 .. TotalPower, precommitPower: 0 .. TotalPower]

NewVotingState ==
    [prevotes |-> {}, precommits |-> {}, prevotePower |-> 0, precommitPower |-> 0]

\* Mutant of HasTwoThirdsMajority: the factors are swapped.
HasThreeHalvesMajority(signedPower, totalPower) ==
    /\ totalPower # 0
    /\ (signedPower * 2) % Word >= (totalPower * 3) % Word

\* The test of HasPrevoteMajority, HasPrecommitMajority and CommitProof.
HasTwoThirdsMajority(signedPower, totalPower) ==
    /\ totalPower # 0
    /\ (signedPower * 3) % Word >= (totalPower * 2) % Word

HasPrevoteMajority(vs)   == HasTwoThirdsMajority(vs.prevotePower, TotalPower)
HasPrecommitMajority(vs) == HasTwoThirdsMajority(vs.precommitPower, TotalPower)

\* Votes that exist: a Byzantine validator has signed whatever is asked of it.
SignedPrevotes(b)   == prevoted[b] \cup Byzantine
SignedPrecommits(b) == precommitted[b] \cup Byzantine

-----------------------------------------------------------------------------
(* Commit proofs.                                                          *)

\* The votes of one validator in a proof, by type; a proof from outside may
\* repeat a vote or pass off a prevote.
Entries == {<<>>, <<"precommit">>, <<"precommit", "precommit">>, <<"prevote">>}

CommitProofs ==
    [precommits: [Validators -> Entries], totalPower: PowerClaims,
     signedPower: PowerClaims]

\* Power of all votes listed in a proof, added up in a uint64.
AccumulatedPower(proof) ==
    Total([v \in Validators |-> Len(proof.precommits[v]) * Power[v]], Validators)
        % Word

Signers(proof) == {v \in Validators : proof.precommits[v] # <<>>}

\* The proof a VotingState gives for its block.
BuildCommitProof(vs) ==
    [precommits  |-> [v \in Validators |-> IF v \in vs.precommits
                                           THEN <<"precommit">> ELSE <<>>],
     totalPower  |-> TotalPower,
     signedPower |-> vs.precommitPower]

\* Mutant of validateCommitProof: the votes are not bound to the block.
AcceptsAnyBlock(b, proof) ==
    /\ proof.totalPower = TotalPower
    /\ \A v \in Validators :
          /\ Len(proof.precommits[v]) <= 1
          /\ \A k \in DOMAIN proof.precommits[v] :
                /\ proof.precommits[v][k] = "precommit"
                /\ \E c \in Blocks : v \in SignedPrecommits(c)
    /\ AccumulatedPower(proof) = proof.signedPower
    /\ HasTwoThirdsMajority(proof.signedPower, proof.totalPower)

\* Mutant of validateCommitProof: the votes are counted but not enough of them
\* required.
AcceptsMinority(b, proof) ==
    /\ proof.totalPower = TotalPower
    /\ \A v \in Validators :
          /\ Len(proof.precommits[v]) <= 1
          /\ \A k \in DOMAIN proof.precommits[v] :
                /\ proof.precommits[v][k] = "precommit"
                /\ v \in SignedPrecommits(b)
    /\ AccumulatedPower(proof) = proof.signedPower

\* The checks that depend on the proof.  Its height and set hash are those of
\* the one snapshot here, and its list is sorted, hence a bag of votes.
validateCommitProof(b, proof) ==
    /\ proof.totalPower = TotalPower
    /\ \A v \in Validators :
          /\ Len(proof.precommits[v]) <= 1
          /\ \A k \in DOMAIN proof.precommits[v] :
                /\ proof.precommits[v][k] = "precommit"
                /\ v \in SignedPrecommits(b)
    /\ AccumulatedPower(proof) = proof.signedPower
    /\ HasTwoThirdsMajority(proof.signedPower, proof.totalPower)

-----------------------------------------------------------------------------
(* Steps.                                                                  *)

Init ==
    /\ prevoted = [b \in Blocks |-> {}]
    /\ precommitted = [b \in Blocks |-> {}]
    /\ votingState = [b \in Blocks |-> NewVotingState]
    /\ committed = [b \in Blocks |-> {}]

\* An honest validator prevotes one block of the height, the first it gets.
SignPrevote(v, b) ==
    /\ v \in Honest
    /\ \A c \in Blocks : v \notin prevoted[c]
    /\ prevoted' = [prevoted EXCEPT ![b] = @ \cup {v}]
    /\ UNCHANGED <<precommitted, votingState, committed>>

\* It precommits every block with a prevote majority.
SignPrecommit(v, b) ==
    /\ v \in Honest
    /\ v \notin precommitted[b]
    /\ HasPrevoteMajority(votingState[b])
    /\ precommitted' = [precommitted EXCEPT ![b] = @ \cup {v}]
    /\ UNCHANGED <<prevoted, votingState, committed>>

AddPrevote(v, b) ==
    /\ v \in SignedPrevotes(b)
    /\ v \notin votingState[b].prevotes
    /\ votingState' = [votingState EXCEPT
                          ![b].prevotes = @ \cup {v},
                          ![b].prevotePower = (@ + Power[v]) % Word]
    /\ UNCHANGED <<prevoted, precommitted, committed>>

AddPrecommit(v, b) ==
    /\ v \in SignedPrecommits(b)
    /\ v \notin votingState[b].precommits
    /\ votingState' = [votingState EXCEPT
                          ![b].precommits = @ \cup {v},
                          ![b].precommitPower = (@ + Power[v]) % Word]
    /\ UNCHANGED <<prevoted, precommitted, committed>>

\* A node accepts the block on the strength of a proof.
AcceptBlock(b, proof) ==
    /\ committed[b] = {}
    /\ validateCommitProof(b, proof)
    /\ committed' = [committed EXCEPT ![b] = Signers(proof)]
    /\ UNCHANGED <<prevoted, precommitted, votingState>>

\* The proof the VotingState built travels with its block.
AcceptBuilt(b) ==
    /\ HasPrecommitMajority(votingState[b])
    /\ AcceptBlock(b, BuildCommitProof(votingState[b]))

Next ==
    \/ \E v \in Validators, b \in Blocks :
          \/ SignPrevote(v, b)
          \/ SignPrecommit(v, b)
          \/ AddPrevote(v, b)
          \/ AddPrecommit(v, b)
    \/ \E b \in Blocks : AcceptBuilt(b)
    \/ \E b \in Blocks, proof \in CommitProofs : AcceptBlock(b, proof)

Spec == Init /\ [][Next]_votingVars

\* The harness has every honest validator vote and hands every vote of theirs
\* to the VotingState of its block; a block with a proof is validated.
VotingFairness ==
    \A b \in Blocks :
        /\ \A v \in Honest :
              /\ WF_votingVars(SignPrevote(v, b))
              /\ WF_votingVars(SignPrecommit(v, b))
              /\ WF_votingVars(AddPrevote(v, b))
              /\ WF_votingVars(AddPrecommit(v, b))
        /\ WF_votingVars(AcceptBuilt(b))

FairSpec == Spec /\ VotingFairness

-----------------------------------------------------------------------------
(* Properties.                                                             *)

\* Every variable keeps its type; no VotingState counts more power than the
\* snapshot has, which CommitProof.Validate would refuse.
TypeOK ==
    /\ prevoted \in [Blocks -> SUBSET Honest]
    /\ precommitted \in [Blocks -> SUBSET Honest]
    /\ votingState \in [Blocks -> VotingState]
    /\ committed \in [Blocks -> SUBSET Validators]

\* The running powers of a VotingState are the power of the votes it holds:
\* no order of deliveries, repeats included, counts a vote twice (addVote).
PowersMatch ==
    \A b \in Blocks :
        /\ votingState[b].prevotePower = Total(Power, votingState[b].prevotes)
        /\ votingState[b].precommitPower = Total(Power, votingState[b].precommits)

\* Whatever votes have been collected, the proof BuildCommitProof returns
\* passes validateCommitProof at every node.
BuiltProofsAccepted ==
    \A b \in Blocks :
        HasPrecommitMajority(votingState[b]) =>
            validateCommitProof(b, BuildCommitProof(votingState[b]))

\* Less than a third of the power is Byzantine.
FewByzantine == 3 * Total(Power, Byzantine) < Total(Power, Validators)

\* At most one block of a height is ever accepted (VerifySafety), provided
\* less than a third of the power is Byzantine.
Agreement ==
    FewByzantine =>
        \A b, c \in Blocks : committed[b] # {} /\ committed[c] # {} => b = c

\* A validator that follows the rules never signs precommits for two blocks,
\* the double sign ProcessEvidence slashes, although it precommits every block
\* with a prevote majority without looking at its earlier precommits.
HonestNeverDoubleSigns ==
    FewByzantine =>
        \A b, c \in Blocks : \A v \in Honest :
            v \in precommitted[b] /\ v \in precommitted[c] => b = c

\* Two accepted blocks convict at least a third of the power of signing both,
\* however many validators are Byzantine.
Accountability ==
    \A b, c \in Blocks :
        b # c /\ committed[b] # {} /\ committed[c] # {} =>
            3 * Total(Power, committed[b] \cap committed[c])
                >= Total(Power, Validators)

\* A block all honest validators prevote is accepted in the end, whatever the
\* Byzantine validators sign, if the honest ones have two thirds of the power.
BlockCommits ==
    3 * Total(Power, Honest) >= 2 * Total(Power, Validators) =>
        \A b \in Blocks : (prevoted[b] = Honest) ~> (committed[b] # {})
=============================================================================
