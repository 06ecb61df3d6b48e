---------------------------- MODULE VotingProofs ----------------------------
(***************************************************************************)
(* Proofs about Voting, for every snapshot, every set of Byzantine         *)
(* validators and every set of proposed blocks.                            *)
(***************************************************************************)
EXTENDS Voting, TotalsProofs

\* A set of validators with two thirds of the power.
IsQuorum(S) ==
    /\ Total(Power, Validators) # 0
    /\ 3 * Total(Power, S) >= 2 * Total(Power, Validators)

\* A VotingState holds signed votes only.
CollectedSigned ==
    \A b \in Blocks :
        /\ votingState[b].prevotes \subseteq SignedPrevotes(b)
        /\ votingState[b].precommits \subseteq SignedPrecommits(b)

\* An honest validator prevotes one block.
PrevoteOnce ==
    \A b, c \in Blocks : \A v \in Honest :
        v \in prevoted[b] /\ v \in prevoted[c] => b = c

\* An honest precommit is backed by a quorum of collected prevotes.
PrecommitsFollow ==
    \A b \in Blocks :
        precommitted[b] # {} => IsQuorum(votingState[b].prevotes)

\* An accepted block is backed by a quorum of signed precommits.
CommitsBacked ==
    \A b \in Blocks :
        committed[b] # {} => /\ committed[b] \subseteq SignedPrecommits(b)
                             /\ IsQuorum(committed[b])

IInv ==
    /\ TypeOK
    /\ PowersMatch
    /\ CollectedSigned
    /\ PrevoteOnce
    /\ PrecommitsFollow
    /\ CommitsBacked

-----------------------------------------------------------------------------
(* Power.                                                                  *)

\* The power of a set of validators is a number no larger than the whole, and
\* none of the products of the two-thirds test wraps around.
LEMMA PowerType ==
    ASSUME NEW S \in SUBSET Validators
    PROVE  /\ IsFiniteSet(S)
           /\ \A v \in S : Power[v] \in Nat
           /\ Total(Power, S) \in Nat
           /\ Total(Power, Validators) \in Nat
           /\ Total(Power, S) <= Total(Power, Validators)
           /\ Total(Power, Validators \ S) = Total(Power, Validators) - Total(Power, S)
<1>1. IsFiniteSet(Validators) /\ \A v \in Validators : Power[v] \in Nat
  BY ValidatorAssumption
<1>2. IsFiniteSet(S)
  BY <1>1, FS_Subset
<1> QED
  BY <1>1, <1>2, TotalSubset

\* A number below the modulus is its own remainder.
LEMMA SmallRemainder ==
    ASSUME NEW n \in Nat, NEW w \in Nat, n < w
    PROVE  n % w = n
OBVIOUS

\* The snapshot's total is the power of all its validators.
LEMMA TotalPowerIsTotal == TotalPower = Total(Power, Validators)
<1> DEFINE t == Total(Power, Validators)
<1>1. t \in Nat
  BY PowerType
<1>2. t < Word /\ Word \in Nat
  <2> HIDE DEF t
  <2>1. 3 * t < Word /\ Word \in Nat
    BY PowerFits DEF t
  <2> QED
    BY <1>1, <2>1
<1>3. t % Word = t
  <2> HIDE DEF t
  <2> QED
    BY <1>1, <1>2, SmallRemainder
<1> QED
  BY <1>3 DEF TotalPower

\* The uint64 test on the power of a set says that the set is a quorum.
LEMMA MajorityIsQuorum ==
    ASSUME NEW S \in SUBSET Validators
    PROVE  HasTwoThirdsMajority(Total(Power, S), TotalPower) <=> IsQuorum(S)
<1> DEFINE t == Total(Power, Validators)
           s == Total(Power, S)
<1>1. s \in Nat /\ t \in Nat /\ s <= t
  BY PowerType
<1>2. 3 * t < Word /\ Word \in Nat
  BY PowerFits
<1>3. TotalPower = t
  BY TotalPowerIsTotal
<1> HIDE DEF s, t
<1>4. /\ s * 3 \in Nat /\ s * 3 < Word
      /\ t * 2 \in Nat /\ t * 2 < Word
  BY <1>1, <1>2
<1>5. (s * 3) % Word = s * 3 /\ (t * 2) % Word = t * 2
  BY <1>2, <1>4, SmallRemainder
<1>6. HasTwoThirdsMajority(s, t) <=> t # 0 /\ s * 3 >= t * 2
  BY <1>5 DEF HasTwoThirdsMajority
<1>7. IsQuorum(S) <=> t # 0 /\ 3 * s >= 2 * t
  BY DEF IsQuorum, s, t
<1>8. HasTwoThirdsMajority(s, t) <=> IsQuorum(S)
  BY <1>1, <1>6, <1>7
<1> QED
  BY <1>3, <1>8 DEF s

\* Adding a new voter's power to that of a set gives the power of the larger
\* set, without wrapping around.
LEMMA AddPower ==
    ASSUME NEW S \in SUBSET Validators, NEW v \in Validators, v \notin S
    PROVE  /\ (Total(Power, S) + Power[v]) % Word = Total(Power, S \cup {v})
           /\ Total(Power, S \cup {v}) \in 0 .. TotalPower
<1> DEFINE U == S \cup {v}
<1>1. U \in SUBSET Validators /\ v \in U /\ U \ {v} = S
  OBVIOUS
<1>2. /\ IsFiniteSet(U)
      /\ \A u \in U : Power[u] \in Nat
      /\ Total(Power, U) \in Nat
      /\ Total(Power, Validators) \in Nat
      /\ Total(Power, U) <= Total(Power, Validators)
  BY <1>1, PowerType
<1>3. Total(Power, U) = Total(Power, U \ {v}) + Power[v]
  <2> HIDE DEF U
  <2> QED
    BY <1>1, <1>2, TotalSplit
<1>4. Total(Power, U) = Total(Power, S) + Power[v]
  BY <1>1, <1>3
<1>5. Word \in Nat /\ 3 * Total(Power, Validators) < Word
  BY PowerFits
<1>6. Total(Power, U) < Word
  BY <1>2, <1>5
<1>7. Total(Power, U) % Word = Total(Power, U)
  BY <1>2, <1>5, <1>6, SmallRemainder
<1> QED
  BY <1>2, <1>4, <1>7, TotalPowerIsTotal

\* Two quorums have a third of the power in common.
LEMMA QuorumIntersection ==
    ASSUME NEW A \in SUBSET Validators, NEW B \in SUBSET Validators,
           IsQuorum(A), IsQuorum(B)
    PROVE  3 * Total(Power, A \cap B) >= Total(Power, Validators)
<1>1. /\ IsFiniteSet(A) /\ IsFiniteSet(B) /\ IsFiniteSet(A \cap B)
      /\ IsFiniteSet(B \ A)
      /\ \A v \in Validators : Power[v] \in Nat
  BY PowerType
<1>2. Total(Power, (A \cap B) \cup (B \ A))
        = Total(Power, A \cap B) + Total(Power, B \ A)
  <2>1. (A \cap B) \cap (B \ A) = {}
    OBVIOUS
  <2>2. \A v \in (A \cap B) \cup (B \ A) : Power[v] \in Nat
    BY <1>1
  <2> QED
    BY <1>1, <2>1, <2>2, TotalUnion
<1>3. Total(Power, A \cup (B \ A)) = Total(Power, A) + Total(Power, B \ A)
  <2>1. A \cap (B \ A) = {}
    OBVIOUS
  <2>2. \A v \in A \cup (B \ A) : Power[v] \in Nat
    BY <1>1
  <2> QED
    BY <1>1, <2>1, <2>2, TotalUnion
<1>4. (A \cap B) \cup (B \ A) = B /\ A \cup (B \ A) = A \cup B
  OBVIOUS
<1>5. /\ Total(Power, A) \in Nat /\ Total(Power, B) \in Nat
      /\ Total(Power, A \cap B) \in Nat /\ Total(Power, B \ A) \in Nat
      /\ Total(Power, A \cup B) \in Nat /\ Total(Power, Validators) \in Nat
      /\ Total(Power, A \cup B) <= Total(Power, Validators)
  BY PowerType
<1>6. /\ 3 * Total(Power, A) >= 2 * Total(Power, Validators)
      /\ 3 * Total(Power, B) >= 2 * Total(Power, Validators)
  BY DEF IsQuorum
<1>7. /\ Total(Power, B) = Total(Power, A \cap B) + Total(Power, B \ A)
      /\ Total(Power, A \cup B) = Total(Power, A) + Total(Power, B \ A)
  BY <1>2, <1>3, <1>4, Zenon
<1> QED
  BY <1>5, <1>6, <1>7

\* With less than a third of the power Byzantine, two quorums share an honest
\* validator.
LEMMA QuorumsShareHonest ==
    ASSUME NEW A \in SUBSET Validators, NEW B \in SUBSET Validators,
           IsQuorum(A), IsQuorum(B), FewByzantine
    PROVE  \E v \in Honest : v \in A /\ v \in B
<1> SUFFICES ASSUME \A v \in Honest : ~ (v \in A /\ v \in B)
             PROVE  FALSE
  OBVIOUS
<1>1. A \cap B \in SUBSET Byzantine /\ Byzantine \in SUBSET Validators
  BY ValidatorAssumption DEF Honest
<1>2. IsFiniteSet(Byzantine) /\ \A v \in Byzantine : Power[v] \in Nat
  BY <1>1, PowerType
<1>3. /\ Total(Power, A \cap B) <= Total(Power, Byzantine)
      /\ Total(Power, A \cap B) \in Nat
      /\ Total(Power, Byzantine) \in Nat
  BY <1>1, <1>2, TotalSubset
<1>4. 3 * Total(Power, A \cap B) >= Total(Power, Validators)
  BY QuorumIntersection
<1>5. Total(Power, Validators) \in Nat
  BY PowerType
<1> QED
  BY <1>3, <1>4, <1>5 DEF FewByzantine

\* A function that is zero on a finite set adds up to zero there.
LEMMA TotalZero ==
    ASSUME NEW S, NEW f, \A i \in S : f[i] = 0
    PROVE  Total(f, S) = 0
<1>1. Units(f, S) = {}
  BY DEF Units
<1> QED
  BY <1>1, FS_EmptySet DEF Total

-----------------------------------------------------------------------------
(* Commit proofs.                                                          *)

\* A proof that lists each signer once states the power of its signers.
LEMMA AccumulatedIsTotal ==
    ASSUME NEW proof, NEW S \in SUBSET Validators,
           \A v \in S : Len(proof.precommits[v]) = 1,
           \A v \in Validators \ S : Len(proof.precommits[v]) = 0
    PROVE  AccumulatedPower(proof) = Total(Power, S)
<1> DEFINE g == [v \in Validators |-> Len(proof.precommits[v]) * Power[v]]
<1>1. /\ IsFiniteSet(S) /\ IsFiniteSet(Validators \ S)
      /\ \A v \in Validators : Power[v] \in Nat
      /\ Total(Power, S) \in Nat /\ Total(Power, Validators) \in Nat
      /\ Total(Power, S) <= Total(Power, Validators)
  BY PowerType
<1>2. /\ \A v \in S : g[v] = Power[v]
      /\ \A v \in Validators \ S : g[v] = 0
  <2>1. ASSUME NEW v \in S
        PROVE  g[v] = Power[v]
    <3>1. g[v] = Len(proof.precommits[v]) * Power[v] /\ Len(proof.precommits[v]) = 1
      OBVIOUS
    <3>2. g[v] = 1 * Power[v] /\ Power[v] \in Nat
      BY <1>1, <3>1, Zenon
    <3> QED
      BY <3>2
  <2>2. ASSUME NEW v \in Validators \ S
        PROVE  g[v] = 0
    <3>1. g[v] = Len(proof.precommits[v]) * Power[v] /\ Len(proof.precommits[v]) = 0
      OBVIOUS
    <3>2. g[v] = 0 * Power[v] /\ Power[v] \in Nat
      BY <1>1, <3>1, Zenon
    <3> QED
      BY <3>2
  <2> QED
    BY <2>1, <2>2, Zenon
<1>3. \A v \in S \cup (Validators \ S) : g[v] \in Nat
  BY <1>1, <1>2
<1>4. S \cap (Validators \ S) = {} /\ S \cup (Validators \ S) = Validators
  OBVIOUS
<1>5. Total(g, Validators) = Total(Power, S)
  <2> HIDE DEF g
  <2>1. Total(g, S \cup (Validators \ S)) = Total(g, S) + Total(g, Validators \ S)
    BY <1>1, <1>3, <1>4, TotalUnion
  <2>2. Total(g, S) = Total(Power, S)
    BY <1>2, TotalCong
  <2>3. Total(g, Validators \ S) = 0
    BY <1>2, TotalZero
  <2>4. Total(g, Validators) = Total(Power, S) + 0
    BY <1>4, <2>1, <2>2, <2>3, Zenon
  <2> QED
    BY <1>1, <2>4
<1>6. Total(Power, S) % Word = Total(Power, S)
  <2>1. 3 * Total(Power, Validators) < Word /\ Word \in Nat
    BY PowerFits
  <2>2. Total(Power, S) < Word
    BY <1>1, <2>1
  <2> QED
    BY <1>1, <2>1, <2>2, SmallRemainder
<1> QED
  BY <1>5, <1>6 DEF AccumulatedPower

\* The signers of an accepted proof are a quorum that signed precommits.
LEMMA AcceptedSigners ==
    ASSUME NEW b \in Blocks, NEW proof,
           proof.precommits \in [Validators -> Entries],
           validateCommitProof(b, proof)
    PROVE  /\ Signers(proof) \in SUBSET Validators
           /\ Signers(proof) \subseteq SignedPrecommits(b)
           /\ IsQuorum(Signers(proof))
<1>1. Signers(proof) \in SUBSET Validators
  BY DEF Signers
<1>2. /\ \A v \in Signers(proof) : Len(proof.precommits[v]) = 1 /\ v \in SignedPrecommits(b)
      /\ \A v \in Validators \ Signers(proof) : Len(proof.precommits[v]) = 0
  <2> SUFFICES ASSUME NEW v \in Validators
               PROVE  \/ proof.precommits[v] = <<>>
                      \/ Len(proof.precommits[v]) = 1 /\ v \in SignedPrecommits(b)
    BY DEF Signers
  <2> DEFINE e == proof.precommits[v]
  <2>1. e \in Entries
    OBVIOUS
  <2>2. Len(e) <= 1 /\ \A k \in DOMAIN e : v \in SignedPrecommits(b)
    BY DEF validateCommitProof
  <2> HIDE DEF e
  <2>3. \/ e = <<>>
        \/ Len(e) = 1 /\ 1 \in DOMAIN e
    <3>1. CASE e = <<"precommit", "precommit">>
      BY <2>2, <3>1
    <3>2. CASE e = <<"precommit">>
      BY <3>2
    <3>3. CASE e = <<"prevote">>
      BY <3>3
    <3> QED
      BY <2>1, <3>1, <3>2, <3>3 DEF Entries
  <2> QED
    BY <2>2, <2>3 DEF e
<1>3. AccumulatedPower(proof) = Total(Power, Signers(proof))
  BY <1>1, <1>2, AccumulatedIsTotal
<1>4. HasTwoThirdsMajority(Total(Power, Signers(proof)), TotalPower)
  BY <1>3 DEF validateCommitProof
<1> QED
  BY <1>1, <1>2, <1>4, MajorityIsQuorum

-----------------------------------------------------------------------------
(* The inductive invariant.                                                *)

LEMMA InitIInv == Init => IInv
<1> SUFFICES ASSUME Init
             PROVE  IInv
  OBVIOUS
<1>1. {} \in SUBSET Validators /\ Total(Power, {}) = 0
  BY TotalEmpty
<1>2. TotalPower \in Nat
  BY TotalPowerIsTotal, PowerType
<1>3. NewVotingState \in VotingState
  BY <1>2 DEF NewVotingState, VotingState
<1>4. TypeOK
  BY <1>3 DEF Init, TypeOK
<1> QED
  BY <1>1, <1>4 DEF Init, IInv, PowersMatch, CollectedSigned, PrevoteOnce,
                    PrecommitsFollow, CommitsBacked, NewVotingState

LEMMA SignPrevoteIInv ==
    ASSUME IInv, NEW v \in Validators, NEW b \in Blocks, SignPrevote(v, b)
    PROVE  IInv'
<1> USE DEF IInv
<1>1. /\ prevoted \in [Blocks -> SUBSET Honest]
      /\ v \in Honest
      /\ \A c \in Blocks : v \notin prevoted[c]
      /\ prevoted' = [prevoted EXCEPT ![b] = @ \cup {v}]
      /\ UNCHANGED <<precommitted, votingState, committed>>
  BY DEF SignPrevote, TypeOK
<1>2. TypeOK'
  BY <1>1 DEF TypeOK
<1>3. PowersMatch' /\ PrecommitsFollow'
  BY <1>1 DEF PowersMatch, PrecommitsFollow
<1>4. CommitsBacked'
  BY <1>1 DEF CommitsBacked, SignedPrecommits
<1>5. CollectedSigned'
  BY <1>1 DEF CollectedSigned, SignedPrevotes, SignedPrecommits
<1>6. PrevoteOnce'
  BY <1>1 DEF PrevoteOnce
<1> QED
  BY <1>2, <1>3, <1>4, <1>5, <1>6

LEMMA SignPrecommitIInv ==
    ASSUME IInv, NEW v \in Validators, NEW b \in Blocks, SignPrecommit(v, b)
    PROVE  IInv'
<1> USE DEF IInv
<1>1. /\ precommitted \in [Blocks -> SUBSET Honest]
      /\ v \in Honest
      /\ HasPrevoteMajority(votingState[b])
      /\ precommitted' = [precommitted EXCEPT ![b] = @ \cup {v}]
      /\ UNCHANGED <<prevoted, votingState, committed>>
  BY DEF SignPrecommit, TypeOK
<1>2. TypeOK'
  BY <1>1 DEF TypeOK
<1>3. PowersMatch' /\ PrevoteOnce'
  BY <1>1 DEF PowersMatch, PrevoteOnce
<1>4. CommitsBacked'
  BY <1>1 DEF CommitsBacked, SignedPrecommits
<1>5. CollectedSigned'
  BY <1>1 DEF CollectedSigned, SignedPrevotes, SignedPrecommits
<1>6. IsQuorum(votingState[b].prevotes)
  <2>1. PICK P : P = votingState[b].prevotes
    OBVIOUS
  <2>2. P \in SUBSET Validators /\ votingState[b].prevotePower = Total(Power, P)
    BY <2>1 DEF TypeOK, VotingState, PowersMatch
  <2>3. HasTwoThirdsMajority(Total(Power, P), TotalPower)
    BY <1>1, <2>2 DEF HasPrevoteMajority
  <2> QED
    BY <2>1, <2>2, <2>3, MajorityIsQuorum
<1>7. PrecommitsFollow'
  BY <1>1, <1>6 DEF PrecommitsFollow
<1> QED
  BY <1>2, <1>3, <1>4, <1>5, <1>7

LEMMA AddPrevoteIInv ==
    ASSUME IInv, NEW v \in Validators, NEW b \in Blocks, AddPrevote(v, b)
    PROVE  IInv'
<1> USE DEF IInv
<1>1. PICK P : P = votingState[b].prevotes
  OBVIOUS
<1>2. /\ P \in SUBSET Validators
      /\ v \notin P
      /\ v \in SignedPrevotes(b)
      /\ votingState[b].prevotePower = Total(Power, P)
      /\ P \subseteq SignedPrevotes(b)
      /\ UNCHANGED <<prevoted, precommitted, committed>>
  BY <1>1 DEF AddPrevote, TypeOK, VotingState, PowersMatch, CollectedSigned
<1>3. /\ (Total(Power, P) + Power[v]) % Word = Total(Power, P \cup {v})
      /\ Total(Power, P \cup {v}) \in 0 .. TotalPower
  BY <1>2, AddPower
<1>4. votingState' = [votingState EXCEPT
                         ![b].prevotes = P \cup {v},
                         ![b].prevotePower = Total(Power, P \cup {v})]
  BY <1>1, <1>2, <1>3 DEF AddPrevote, TypeOK, VotingState
<1>5. /\ votingState'[b].prevotes = P \cup {v}
      /\ votingState'[b].prevotePower = Total(Power, P \cup {v})
      /\ votingState'[b].precommits = votingState[b].precommits
      /\ votingState'[b].precommitPower = votingState[b].precommitPower
      /\ \A c \in Blocks \ {b} : votingState'[c] = votingState[c]
      /\ votingState' \in [Blocks -> VotingState]
  BY <1>2, <1>3, <1>4 DEF TypeOK, VotingState
<1>6. TypeOK' /\ PowersMatch' /\ PrevoteOnce'
  BY <1>2, <1>5 DEF TypeOK, PowersMatch, PrevoteOnce
<1>7. CollectedSigned' /\ CommitsBacked'
  BY <1>2, <1>5 DEF CollectedSigned, CommitsBacked, SignedPrevotes, SignedPrecommits
<1>8. PrecommitsFollow'
  <2>1. /\ Total(Power, P) \in Nat
        /\ Total(Power, Validators) \in Nat
        /\ P \cup {v} \in SUBSET Validators /\ P \in SUBSET (P \cup {v})
    BY <1>2, PowerType
  <2>2. IsFiniteSet(P \cup {v}) /\ \A u \in P \cup {v} : Power[u] \in Nat
    BY <2>1, PowerType
  <2>3. /\ Total(Power, P) <= Total(Power, P \cup {v})
        /\ Total(Power, P \cup {v}) \in Nat
    BY <2>1, <2>2, TotalSubset
  <2>4. IsQuorum(P) => IsQuorum(P \cup {v})
    BY <2>1, <2>3 DEF IsQuorum
  <2> QED
    BY <1>1, <1>2, <1>5, <2>4 DEF PrecommitsFollow
<1> QED
  BY <1>6, <1>7, <1>8

LEMMA AddPrecommitIInv ==
    ASSUME IInv, NEW v \in Validators, NEW b \in Blocks, AddPrecommit(v, b)
    PROVE  IInv'
<1> USE DEF IInv
<1>1. PICK P : P = votingState[b].precommits
  OBVIOUS
<1>2. /\ P \in SUBSET Validators
      /\ v \notin P
      /\ v \in SignedPrecommits(b)
      /\ votingState[b].precommitPower = Total(Power, P)
      /\ P \subseteq SignedPrecommits(b)
      /\ UNCHANGED <<prevoted, precommitted, committed>>
  BY <1>1 DEF AddPrecommit, TypeOK, VotingState, PowersMatch, CollectedSigned
<1>3. /\ (Total(Power, P) + Power[v]) % Word = Total(Power, P \cup {v})
      /\ Total(Power, P \cup {v}) \in 0 .. TotalPower
  BY <1>2, AddPower
<1>4. votingState' = [votingState EXCEPT
                         ![b].precommits = P \cup {v},
                         ![b].precommitPower = Total(Power, P \cup {v})]
  BY <1>1, <1>2, <1>3 DEF AddPrecommit, TypeOK, VotingState
<1>5. /\ votingState'[b].precommits = P \cup {v}
      /\ votingState'[b].precommitPower = Total(Power, P \cup {v})
      /\ votingState'[b].prevotes = votingState[b].prevotes
      /\ votingState'[b].prevotePower = votingState[b].prevotePower
      /\ \A c \in Blocks \ {b} : votingState'[c] = votingState[c]
      /\ votingState' \in [Blocks -> VotingState]
  BY <1>2, <1>3, <1>4 DEF TypeOK, VotingState
<1>6. TypeOK' /\ PowersMatch' /\ PrevoteOnce'
  BY <1>2, <1>5 DEF TypeOK, PowersMatch, PrevoteOnce
<1>7. CollectedSigned' /\ CommitsBacked'
  BY <1>2, <1>5 DEF CollectedSigned, CommitsBacked, SignedPrevotes, SignedPrecommits
<1>8. PrecommitsFollow'
  BY <1>2, <1>5 DEF PrecommitsFollow
<1> QED
  BY <1>6, <1>7, <1>8

LEMMA AcceptBlockIInv ==
    ASSUME IInv, NEW b \in Blocks, NEW proof,
           proof.precommits \in [Validators -> Entries], AcceptBlock(b, proof)
    PROVE  IInv'
<1> USE DEF IInv
<1>1. validateCommitProof(b, proof)
  BY DEF AcceptBlock
<1>2. /\ Signers(proof) \in SUBSET Validators
      /\ Signers(proof) \subseteq SignedPrecommits(b)
      /\ IsQuorum(Signers(proof))
  BY <1>1, AcceptedSigners
<1>3. /\ committed' = [committed EXCEPT ![b] = Signers(proof)]
      /\ UNCHANGED <<prevoted, precommitted, votingState>>
  BY DEF AcceptBlock
<1>4. TypeOK'
  BY <1>2, <1>3 DEF TypeOK
<1>5. PowersMatch' /\ PrevoteOnce' /\ PrecommitsFollow'
  BY <1>3 DEF PowersMatch, PrevoteOnce, PrecommitsFollow
<1>6. CollectedSigned'
  BY <1>3 DEF CollectedSigned, SignedPrevotes, SignedPrecommits
<1>7. CommitsBacked'
  BY <1>2, <1>3 DEF CommitsBacked, TypeOK, SignedPrecommits
<1> QED
  BY <1>4, <1>5, <1>6, <1>7

\* The proof a VotingState builds lists votes of the right shape.
LEMMA BuiltShape ==
    ASSUME NEW vs
    PROVE  BuildCommitProof(vs).precommits \in [Validators -> Entries]
BY DEF BuildCommitProof, Entries

LEMMA AcceptBuiltIInv ==
    ASSUME IInv, NEW b \in Blocks, AcceptBuilt(b)
    PROVE  IInv'
<1>1. PICK vs : vs = votingState[b]
  OBVIOUS
<1>2. PICK proof : proof = BuildCommitProof(vs)
  OBVIOUS
<1>3. proof = BuildCommitProof(votingState[b])
  BY <1>1, <1>2
<1>4. proof.precommits \in [Validators -> Entries]
  BY <1>2, BuiltShape
<1>5. validateCommitProof(b, proof)
  BY <1>3 DEF AcceptBuilt, AcceptBlock, validateCommitProof, AccumulatedPower
<1>6. AcceptBlock(b, proof)
  BY <1>3, <1>5 DEF AcceptBuilt, AcceptBlock, Signers
<1> QED
  BY <1>4, <1>6, AcceptBlockIInv

LEMMA StepIInv == IInv /\ [Next]_votingVars => IInv'
<1> SUFFICES ASSUME IInv, [Next]_votingVars
             PROVE  IInv'
  OBVIOUS
<1>1. CASE UNCHANGED votingVars
  BY <1>1 DEF IInv, TypeOK, PowersMatch, CollectedSigned, PrevoteOnce,
              PrecommitsFollow, CommitsBacked, SignedPrevotes,
              SignedPrecommits, votingVars
<1>2. ASSUME NEW v \in Validators, NEW b \in Blocks, SignPrevote(v, b)
      PROVE  IInv'
  BY <1>2, SignPrevoteIInv
<1>3. ASSUME NEW v \in Validators, NEW b \in Blocks, SignPrecommit(v, b)
      PROVE  IInv'
  BY <1>3, SignPrecommitIInv
<1>4. ASSUME NEW v \in Validators, NEW b \in Blocks, AddPrevote(v, b)
      PROVE  IInv'
  BY <1>4, AddPrevoteIInv
<1>5. ASSUME NEW v \in Validators, NEW b \in Blocks, AddPrecommit(v, b)
      PROVE  IInv'
  BY <1>5, AddPrecommitIInv
<1>6. ASSUME NEW b \in Blocks, AcceptBuilt(b)
      PROVE  IInv'
  BY <1>6, AcceptBuiltIInv
<1>7. ASSUME NEW b \in Blocks, NEW proof \in CommitProofs, AcceptBlock(b, proof)
      PROVE  IInv'
  <2>1. proof.precommits \in [Validators -> Entries]
    BY DEF CommitProofs
  <2> QED
    BY <1>7, <2>1, AcceptBlockIInv
<1> QED
  BY <1>1, <1>2, <1>3, <1>4, <1>5, <1>6, <1>7 DEF Next

\* The inductive invariant holds in every reachable state.
THEOREM VotingInvariance == Spec => []IInv
<1>1. Init => IInv
  BY InitIInv
<1>2. IInv /\ [Next]_votingVars => IInv'
  BY StepIInv
<1> QED
  BY <1>1, <1>2, PTL DEF Spec

-----------------------------------------------------------------------------
(* What follows from it.                                                   *)

\* Type correctness: no VotingState ever counts more than the whole power.
THEOREM VotingTypes == Spec => []TypeOK
<1>1. IInv => TypeOK
  BY DEF IInv
<1> QED
  BY <1>1, VotingInvariance, PTL

\* addVote keeps exact count of the power of the votes it holds.
THEOREM PowersCorrect == Spec => []PowersMatch
<1>1. IInv => PowersMatch
  BY DEF IInv
<1> QED
  BY <1>1, VotingInvariance, PTL

\* No honest validator precommits two blocks: the two prevote majorities would
\* share an honest validator that prevoted twice.
LEMMA NoDoubleSign == IInv => HonestNeverDoubleSigns
<1> SUFFICES ASSUME IInv, FewByzantine, NEW b \in Blocks, NEW c \in Blocks,
                    NEW v \in Honest, v \in precommitted[b], v \in precommitted[c]
             PROVE  b = c
  BY DEF HonestNeverDoubleSigns
<1>1. PICK P : P = votingState[b].prevotes
  OBVIOUS
<1>2. PICK Q : Q = votingState[c].prevotes
  OBVIOUS
<1>3. /\ P \in SUBSET Validators /\ Q \in SUBSET Validators
      /\ IsQuorum(P) /\ IsQuorum(Q)
      /\ P \subseteq prevoted[b] \cup Byzantine
      /\ Q \subseteq prevoted[c] \cup Byzantine
  BY <1>1, <1>2 DEF IInv, TypeOK, VotingState, PrecommitsFollow,
                    CollectedSigned, SignedPrevotes
<1>4. PICK u \in Honest : u \in P /\ u \in Q
  BY <1>3, QuorumsShareHonest
<1>5. u \in prevoted[b] /\ u \in prevoted[c]
  BY <1>3, <1>4 DEF Honest
<1> QED
  BY <1>4, <1>5 DEF IInv, PrevoteOnce

\* A validator that follows the harness's rules is never slashable, for any
\* snapshot with less than a third of the power Byzantine.
THEOREM HonestSafe == Spec => []HonestNeverDoubleSigns
BY NoDoubleSign, VotingInvariance, PTL

\* At most one block of a height passes validateCommitProof, for any snapshot
\* with less than a third of the power Byzantine: two accepted proofs share an
\* honest signer, which would have precommitted both blocks.
THEOREM AgreementHolds == Spec => []Agreement
<1>1. IInv => Agreement
  <2> SUFFICES ASSUME IInv, FewByzantine, NEW b \in Blocks, NEW c \in Blocks,
                      committed[b] # {}, committed[c] # {}
               PROVE  b = c
    BY DEF Agreement
  <2>1. PICK P : P = committed[b]
    OBVIOUS
  <2>2. PICK Q : Q = committed[c]
    OBVIOUS
  <2>3. /\ P \in SUBSET Validators /\ Q \in SUBSET Validators
        /\ IsQuorum(P) /\ IsQuorum(Q)
        /\ P \subseteq precommitted[b] \cup Byzantine
        /\ Q \subseteq precommitted[c] \cup Byzantine
    BY <2>1, <2>2 DEF IInv, TypeOK, CommitsBacked, SignedPrecommits
  <2>4. PICK v \in Honest : v \in P /\ v \in Q
    BY <2>3, QuorumsShareHonest
  <2>5. v \in precommitted[b] /\ v \in precommitted[c]
    BY <2>3, <2>4 DEF Honest
  <2> QED
    BY <2>4, <2>5, NoDoubleSign DEF HonestNeverDoubleSigns
<1> QED
  BY <1>1, VotingInvariance, PTL

\* Two accepted blocks convict a third of the power, for any Byzantine set.
THEOREM AccountabilityHolds == Spec => []Accountability
<1>1. IInv => Accountability
  <2> SUFFICES ASSUME IInv, NEW b \in Blocks, NEW c \in Blocks,
                      committed[b] # {}, committed[c] # {}
               PROVE  3 * Total(Power, committed[b] \cap committed[c])
                        >= Total(Power, Validators)
    BY DEF Accountability
  <2>1. PICK P : P = committed[b]
    OBVIOUS
  <2>2. PICK Q : Q = committed[c]
    OBVIOUS
  <2>3. /\ P \in SUBSET Validators /\ Q \in SUBSET Validators
        /\ IsQuorum(P) /\ IsQuorum(Q)
    BY <2>1, <2>2 DEF IInv, TypeOK, CommitsBacked
  <2>4. 3 * Total(Power, P \cap Q) >= Total(Power, Validators)
    BY <2>3, QuorumIntersection
  <2> QED
    BY <2>1, <2>2, <2>4
<1> QED
  BY <1>1, VotingInvariance, PTL

\* BuildCommitProof and validateCommitProof agree.
THEOREM BuiltProofsCorrect == Spec => []BuiltProofsAccepted
<1>1. IInv => BuiltProofsAccepted
  <2> SUFFICES ASSUME IInv, NEW b \in Blocks, HasPrecommitMajority(votingState[b])
               PROVE  validateCommitProof(b, BuildCommitProof(votingState[b]))
    BY DEF BuiltProofsAccepted
  <2>1. PICK vs : vs = votingState[b]
    OBVIOUS
  <2>2. PICK proof : proof = BuildCommitProof(vs)
    OBVIOUS
  <2>3. /\ vs.precommits \in SUBSET Validators
        /\ vs.precommits \subseteq SignedPrecommits(b)
        /\ vs.precommitPower = Total(Power, vs.precommits)
    BY <2>1 DEF IInv, TypeOK, VotingState, CollectedSigned, PowersMatch
  <2>4. /\ proof.totalPower = TotalPower
        /\ proof.signedPower = vs.precommitPower
        /\ \A v \in vs.precommits : proof.precommits[v] = <<"precommit">>
        /\ \A v \in Validators \ vs.precommits : proof.precommits[v] = <<>>
    BY <2>2, <2>3 DEF BuildCommitProof
  <2>5. /\ \A v \in vs.precommits : Len(proof.precommits[v]) = 1
        /\ \A v \in Validators \ vs.precommits : Len(proof.precommits[v]) = 0
    <3>1. Len(<<"precommit">>) = 1 /\ Len(<<>>) = 0
      OBVIOUS
    <3> QED
      BY <2>4, <3>1, Zenon
  <2>6. AccumulatedPower(proof) = proof.signedPower
    <3>1. AccumulatedPower(proof) = Total(Power, vs.precommits)
      BY <2>3, <2>5, AccumulatedIsTotal
    <3> QED
      BY <2>3, <2>4, <3>1
  <2>7. HasTwoThirdsMajority(proof.signedPower, proof.totalPower)
    <3>1. HasTwoThirdsMajority(vs.precommitPower, TotalPower)
      BY <2>1 DEF HasPrecommitMajority, HasTwoThirdsMajority
    <3> QED
      BY <2>4, <3>1
  <2>8. \A v \in Validators :
          /\ Len(proof.precommits[v]) <= 1
          /\ \A k \in DOMAIN proof.precommits[v] :
                proof.precommits[v][k] = "precommit" /\ v \in SignedPrecommits(b)
    <3> TAKE v \in Validators
    <3>1. PICK e : e = proof.precommits[v]
      OBVIOUS
    <3>2. \/ e = <<"precommit">> /\ v \in SignedPrecommits(b)
          \/ e = <<>>
      BY <2>3, <2>4, <3>1, Zenon
    <3>3. CASE e = <<>>
      BY <3>1, <3>3
    <3>4. CASE e = <<"precommit">> /\ v \in SignedPrecommits(b)
      <4>1. Len(e) = 1 /\ DOMAIN e = {1} /\ e[1] = "precommit"
        BY <3>4
      <4>2. /\ Len(e) <= 1
            /\ \A k \in DOMAIN e : e[k] = "precommit" /\ v \in SignedPrecommits(b)
        BY <3>4, <4>1
      <4> QED
        BY <3>1, <4>2, Zenon
    <3> QED
      BY <3>2, <3>3, <3>4, Zenon
  <2>9. validateCommitProof(b, proof)
    BY <2>4, <2>6, <2>7, <2>8 DEF validateCommitProof
  <2> QED
    <3>1. proof = BuildCommitProof(votingState[b])
      BY <2>1, <2>2
    <3> QED
      BY <2>9, <3>1 DEF validateCommitProof, AccumulatedPower
<1> QED
  BY <1>1, VotingInvariance, PTL
=============================================================================
