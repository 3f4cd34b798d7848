-------------------------- MODULE SignalReaderProofs --------------------------
(***************************************************************************)
(* Proofs about SignalReader, for any number of chains up to 21, whichever *)
(* answer and in whatever order.                                           *)
(***************************************************************************)
EXTENDS SignalReader, FiniteSetTheorems, TLAPS

ReadWeeks == {0, 1}
WeekCounts == {0, 1, 2}

\* The shares 0/13, 1/13 and 2/13 of 100, rounded.
CollectedSignals ==
    [ walletAgeInDays : {0}, distinctProtocols : {0}, daoVoteCount : {0}, lpTenureInDays : {0},
      crossChainCount : 0 .. 21, txConsistencyScore : {0, 8, 15} ]

ReaderInv ==
    /\ pending \in Nat /\ activeChains \in Nat
    /\ pending + activeChains <= 21
    /\ activeWeeks \in SUBSET ReadWeeks
    /\ week \in ReadWeeks
    /\ witness = NoWitness \/ witness \in CollectedSignals

-----------------------------------------------------------------------------
(* Lemmas *)

LEMMA SubsetCardinality ==
    ASSUME NEW S, IsFiniteSet(S), Cardinality(S) = 2, NEW T, T \in SUBSET S
    PROVE  Cardinality(T) \in WeekCounts
<1>1. IsFiniteSet(T) /\ Cardinality(T) <= Cardinality(S)
  BY FS_Subset
<1>2. Cardinality(T) \in Nat
  BY <1>1, FS_CardinalityType
<1> QED BY <1>1, <1>2 DEF WeekCounts

LEMMA AtMostTwoWeeks ==
    ASSUME NEW weeks, weeks \in SUBSET ReadWeeks
    PROVE  Cardinality(weeks) \in WeekCounts
<1> DEFINE both == {0} \cup {1}
<1>1. Cardinality({0}) = 1 /\ IsFiniteSet({0})
  BY FS_Singleton
<1>2. IsFiniteSet(both) /\ Cardinality(both) = 2
  BY <1>1, FS_AddElement
<1>3. weeks \in SUBSET both
  BY DEF ReadWeeks
<1> HIDE DEF both
<1> QED BY <1>2, <1>3, SubsetCardinality

USE ReaderAssumption, MaxUint32Assumption DEF ReaderAssumption

LEMMA ConsistencyOfWeeks ==
    ASSUME NEW timestamps \in Nat, NEW weeks \in WeekCounts
    PROVE  ConsistencyScore(timestamps, weeks) \in {0, 8, 15}
<1>1. CASE weeks = 0
  BY <1>1 DEF ConsistencyScore
<1>2. CASE weeks = 1
  BY <1>2 DEF ConsistencyScore
<1>3. CASE weeks = 2
  BY <1>3 DEF ConsistencyScore
<1> QED BY <1>1, <1>2, <1>3 DEF WeekCounts

LEMMA ReaderStepInv ==
    ASSUME ReaderInv, [ReaderNext]_readerVars
    PROVE  ReaderInv'
<1>1. CASE ChainActive
  BY <1>1 DEF ChainActive, ReaderInv
<1>2. CASE ChainAddsNothing
  BY <1>2 DEF ChainAddsNothing, ReaderInv
<1>3. CASE NextWeek
  BY <1>3 DEF NextWeek, ReaderInv, ReadWeeks
<1>4. CASE Collect
  <2>1. ConsistencyScore(activeChains, Cardinality(activeWeeks)) \in {0, 8, 15}
    <3>1. activeWeeks \in SUBSET ReadWeeks /\ activeChains \in Nat
      BY DEF ReaderInv
    <3>2. Cardinality(activeWeeks) \in WeekCounts
      BY <3>1, AtMostTwoWeeks
    <3> QED BY <3>1, <3>2, ConsistencyOfWeeks
  <2>2. activeChains \in 0 .. 21
    BY DEF ReaderInv
  <2>3. witness' \in CollectedSignals
    BY <1>4, <2>1, <2>2 DEF Collect, CollectedSignals, WalletAge
  <2> QED BY <1>4, <2>3 DEF Collect, ReaderInv
<1>5. CASE UNCHANGED readerVars
  BY <1>5 DEF readerVars, ReaderInv
<1> QED BY <1>1, <1>2, <1>3, <1>4, <1>5 DEF ReaderNext

\* 300 for the base, 25 for a chain and 5 for a point of consistency: 300 + 525 + 75 at most.
LEMMA CollectedAccepted ==
    ASSUME NEW signals \in CollectedSignals
    PROVE  /\ ScoreAccepted(DefaultScoreConfig, signals)
           /\ EstimatedBand(signals)
                = DeriveBand(DefaultScoreConfig, UnclampedScore(DefaultScoreConfig, signals))
<1> DEFINE score == UnclampedScore(DefaultScoreConfig, signals)
<1>1. /\ signals.crossChainCount \in 0 .. 21 /\ signals.txConsistencyScore \in {0, 8, 15}
      /\ signals.walletAgeInDays = 0 /\ signals.distinctProtocols = 0
      /\ signals.daoVoteCount = 0 /\ signals.lpTenureInDays = 0
  BY DEF CollectedSignals
<1>2. score = 300 + signals.crossChainCount * 25 + signals.txConsistencyScore * 5
  BY <1>1 DEF UnclampedScore, DefaultScoreConfig
<1>3. score \in 300 .. 900
  BY <1>1, <1>2
<1>4. ScoreAccepted(DefaultScoreConfig, signals)
  BY <1>1, <1>3 DEF ScoreAccepted, SignalsInBounds, DefaultScoreConfig
<1>5. EstimatedBand(signals) = DeriveBand(DefaultScoreConfig, score)
  <2>1. score \in Int
    BY <1>3
  <2> HIDE DEF score
  <2>2. /\ DefaultScoreConfig.platinumThreshold = 820 /\ DefaultScoreConfig.goldThreshold = 700
        /\ DefaultScoreConfig.silverThreshold = 550 /\ DefaultScoreConfig.bronzeThreshold = 400
    BY DEF DefaultScoreConfig
  <2>3. EstimatedBand(signals) = CASE score >= 820 -> 4
                                   [] score >= 700 /\ score < 820 -> 3
                                   [] score >= 550 /\ score < 700 -> 2
                                   [] score >= 400 /\ score < 550 -> 1
                                   [] score < 400 -> 0
    BY DEF EstimatedBand, score
  <2> QED BY <2>1, <2>2, <2>3 DEF DeriveBand
<1> QED BY <1>4, <1>5

-----------------------------------------------------------------------------
(* Theorems *)

\* The contract accepts whatever the default reader collects from up to 21 chains, and derives the
\* band the SDK answers with (sdk/src/reputation/reader/index.ts:40-94, prove.ts:23-40).
THEOREM ReaderWitnessAccepted == ReaderSpec => []WitnessAccepted
<1>1. ReaderInit => ReaderInv
  BY DEF ReaderInit, ReaderInv, ReadWeeks
<1>2. ReaderInv => WitnessAccepted
  BY CollectedAccepted DEF ReaderInv, WitnessAccepted
<1> QED BY <1>1, <1>2, ReaderStepInv, PTL DEF ReaderSpec

=============================================================================
