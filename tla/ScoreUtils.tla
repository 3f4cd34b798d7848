----------------------------- MODULE ScoreUtils -----------------------------
(***************************************************************************)
(* The pure scoring circuits of packages/contract/src/modules: validation  *)
(* of a ScoreConfig, the range check on reputation signals, the weighted   *)
(* score, its bucket (band) and the community weight of a band.            *)
(*                                                                         *)
(* Compact integers are unsigned and of fixed width.  Uint<32> values are  *)
(* members of Uint32; MaxUint32 is the largest one (2^32 - 1 in the code,  *)
(* a smaller bound in the model-checking instances).                       *)
(***************************************************************************)
EXTENDS Integers

CONSTANT MaxUint32

ASSUME MaxUint32Assumption == MaxUint32 \in Nat

Uint32 == 0 .. MaxUint32

Bands == 0 .. 4      \* unranked, bronze, silver, gold, platinum

ReputationSignals ==
    [ walletAgeInDays : Uint32, distinctProtocols : Uint32, daoVoteCount : Uint32,
      lpTenureInDays : Uint32, crossChainCount : Uint32, txConsistencyScore : Uint32 ]

ScoreConfigs ==
    [ baseScore : Uint32, maxScore : Uint32,
      walletAgeWeight : Uint32, protocolWeight : Uint32, daoWeight : Uint32,
      lpWeight : Uint32, crossChainWeight : Uint32, consistencyWeight : Uint32,
      bronzeThreshold : Uint32, silverThreshold : Uint32,
      goldThreshold : Uint32, platinumThreshold : Uint32 ]

-----------------------------------------------------------------------------

ScoreConfigValid(config) ==
    /\ config.baseScore <= config.maxScore
    /\ config.bronzeThreshold < config.silverThreshold
    /\ config.silverThreshold < config.goldThreshold
    /\ config.goldThreshold < config.platinumThreshold
    /\ config.platinumThreshold <= config.maxScore

SignalsInBounds(s) ==
    /\ s.walletAgeInDays <= 3650
    /\ s.distinctProtocols <= 100
    /\ s.daoVoteCount <= 1000
    /\ s.lpTenureInDays <= 3650
    /\ s.crossChainCount <= 32
    /\ s.txConsistencyScore <= 100

\* Products and sums widen in Compact, so this never wraps; the cast back to
\* Uint<32> is an assertion of ScoreAccepted.
UnclampedScore(config, s) ==
      config.baseScore
    + s.walletAgeInDays * config.walletAgeWeight
    + s.distinctProtocols * config.protocolWeight
    + s.daoVoteCount * config.daoWeight
    + s.lpTenureInDays * config.lpWeight
    + s.crossChainCount * config.crossChainWeight
    + s.txConsistencyScore * config.consistencyWeight

ScoreAccepted(config, s) ==
    /\ SignalsInBounds(s)
    /\ UnclampedScore(config, s) <= MaxUint32
    /\ UnclampedScore(config, s) <= config.maxScore

\* Mutant of DeriveBand: a score equal to a threshold misses the band.
DeriveBandStrict(config, score) ==
    IF score > config.platinumThreshold THEN 4
    ELSE IF score > config.goldThreshold THEN 3
    ELSE IF score > config.silverThreshold THEN 2
    ELSE IF score > config.bronzeThreshold THEN 1
    ELSE 0

DeriveBand(config, score) ==
    IF score >= config.platinumThreshold THEN 4
    ELSE IF score >= config.goldThreshold THEN 3
    ELSE IF score >= config.silverThreshold THEN 2
    ELSE IF score >= config.bronzeThreshold THEN 1
    ELSE 0

CommunityWeightBps(band) == IF band >= 4 THEN 20000 ELSE 5000 * band

=============================================================================
