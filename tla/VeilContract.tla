---------------------------- MODULE VeilContract ----------------------------
(***************************************************************************)
(* The Veil contract (packages/contract/src/main.compact): its ledger, the *)
(* circuits of Identity, Reputation and Governance, and the clients that   *)
(* call them, interleaved in every order the chain may choose.             *)
(***************************************************************************)
EXTENDS Governance, Reputation

ZeroScoreConfig ==
    [ baseScore |-> 0, maxScore |-> 0,
      walletAgeWeight |-> 0, protocolWeight |-> 0, daoWeight |-> 0,
      lpWeight |-> 0, crossChainWeight |-> 0, consistencyWeight |-> 0,
      bronzeThreshold |-> 0, silverThreshold |-> 0,
      goldThreshold |-> 0, platinumThreshold |-> 0 ]

\* The constructor, and clients that join with createVeilPrivateState().
Init ==
    /\ identityRecords = [v \in VeilIds |-> NoIdentity]
    /\ identityCommitments = <<>>
    /\ reputationCommitments = <<>>
    /\ erasedIndices = {}
    /\ processedProofs = {}
    /\ supportedChainNamespaces = InitialNamespaces
    /\ supportedReaderPolicies = InitialReaderPolicies
    /\ scoreConfig = InitialScoreConfig
    /\ pendingScoreConfig = [ config |-> ZeroScoreConfig, operationId |-> Default,
                              proposedAtEpoch |-> 0, executableAtEpoch |-> 0 ]
    /\ hasPendingScoreConfig = FALSE
    /\ proposalBlock = 0
    /\ blockTime = 0
    /\ privateState = [c \in Clients |-> [v \in VeilIds |-> NoReputation]]
    /\ calls = [id \in CallIds |-> NoCall]
    /\ decision = NoDecision

IdentityStep ==
    \E v \in VeilIds, ns \in ChainNamespaces, key \in KeyCommitments,
       sig \in WalletSignatures, t \in ClockReadings : Register(v, ns, key, sig, t)

GovernanceStep ==
    \/ ApplyScoreConfig
    \/ \E op \in OperationIds, bundle \in SignatureBundles, nonce \in GovernanceNonces :
          \/ CancelScoreConfig(op, bundle, nonce)
          \/ \E t \in ClockReadings :
                \/ \E config \in ProposedConfigs :
                      ProposeScoreConfig(config, op, bundle, nonce, t)
                \/ \E ns \in ChainNamespaces :
                      AddSupportedChainNamespace(ns, op, bundle, nonce, t)
                \/ \E rp \in ReaderPolicies :
                      AddSupportedReaderPolicy(rp, op, bundle, nonce, t)

ReputationStep ==
    \E id \in CallIds :
        \/ \E c \in Clients, v \in VeilIds, t \in ClockReadings :
              \/ \E w \in WitnessCommitments, nonce \in ProofNonces :
                    ProveCall(id, c, v, w, nonce, t)
              \/ \E requester \in Requesters, minimumBand \in MinimumBands :
                    CheckCall(id, c, v, requester, minimumBand, t)
        \/ LandProve(id)
        \/ LandCheck(id)
        \/ Discard(id)
        \/ StorePrivateState(id)

Volatility == \E c \in VolatileClients : Close(c) \/ JoinFresh(c)

Next == IdentityStep \/ GovernanceStep \/ ReputationStep \/ Volatility \/ Tick

Spec == Init /\ [][Next]_vars

-----------------------------------------------------------------------------

\* Every variable has its type; in particular no identity or policy is ever the
\* zero hash the circuits reject.
TypeOK ==
    /\ identityRecords \in [VeilIds -> VeilIdentityRecords \cup {NoIdentity}]
    /\ identityCommitments \in Seq(VeilIdentityRecords)
    /\ reputationCommitments \in Seq(ReputationScores)
    /\ erasedIndices \subseteq Nat
    /\ processedProofs \subseteq ReplayKeys
    /\ supportedChainNamespaces \subseteq ChainNamespaces \ {Default}
    /\ supportedReaderPolicies \subseteq ReaderPolicies \ {Default}
    /\ scoreConfig \in ScoreConfigs
    /\ pendingScoreConfig \in PendingScoreConfigs
    /\ hasPendingScoreConfig \in BOOLEAN
    /\ proposalBlock \in 0 .. MaxTime
    /\ blockTime \in 0 .. MaxTime
    /\ privateState \in [Clients -> VeilPrivateStates]
    /\ calls \in [CallIds -> ProveCalls \cup CheckCalls \cup {NoCall}]
    /\ decision \in Decisions \cup {NoDecision}

Leaves == DOMAIN reputationCommitments

Leaf(i) == reputationCommitments[i]

Live(i) == i \in Leaves /\ i - 1 \notin erasedIndices

\* The records committed to the reputation tree at any time.
Committed == { Leaf(i) : i \in Leaves }

(***************************************************************************)
(* Replay protection.  SECURITY.md: "Replay protection tracks both (veilId,*)
(* nonce) and (veilId, proofHash)".                                        *)
(***************************************************************************)

\* No two reputation updates of one identity ever land with the same nonce or the
\* same proof, whatever was submitted while the first was still in flight.
NoReplay ==
    \A i, j \in Leaves :
        /\ i # j
        /\ Leaf(i).veilIdHash = Leaf(j).veilIdHash
        => /\ Leaf(i).proofHash.proofNonce # Leaf(j).proofHash.proofNonce
           /\ Leaf(i).proofHash # Leaf(j).proofHash

KeysTagged(tag) == {k \in processedProofs : k[1] = tag}

RegisteredIds == {v \in VeilIds : identityRecords[v] # NoIdentity}

\* The replay set accounts for exactly what happened: one register key for each
\* identity and identity commitment, one nonce key and one proof key for each
\* reputation update, as many governance nonces as governance operations.
ReplayAccounting ==
    /\ Cardinality(KeysTagged("register")) = Len(identityCommitments)
    /\ Cardinality(RegisteredIds) = Len(identityCommitments)
    /\ Cardinality(KeysTagged("nonce")) = FirstFree
    /\ Cardinality(KeysTagged("proof")) = FirstFree
    /\ Cardinality(KeysTagged("operation")) = Cardinality(KeysTagged("governanceNonce"))

(***************************************************************************)
(* The reputation tree.                                                    *)
(***************************************************************************)

\* Each committed record carries the band its own signals earn: the number of
\* thresholds its score reaches, under a well-ordered config, within maxScore.
\* README.md: "claimed band matches the computed private score interval".
BandEarned ==
    \A i \in Leaves :
        LET r      == Leaf(i)
            config == r.proofHash.scoreConfig
        IN  /\ r.score = UnclampedScore(config, r.proofHash.witnessCommitment.signals)
            /\ r.score <= config.maxScore
            /\ r.band = Cardinality({th \in { config.bronzeThreshold, config.silverThreshold,
                                              config.goldThreshold, config.platinumThreshold } :
                                     th <= r.score})

\* The index a record names (getFirstFreeReputationIndex, read when it was
\* proved) is never beyond the leaf it landed at, so insertIndexDefault only ever
\* overwrites allocated leaves, never a free slot of the tree.
IndexNotAhead ==
    /\ \A i \in Leaves : Leaf(i).mtIndex <= i - 1
    /\ \A k \in erasedIndices : k < FirstFree

\* No two updates overlapped: every record names the very leaf it landed at.
NoOverlap == \A i \in Leaves : Leaf(i).mtIndex = i - 1

\* As long as no two updates overlapped, a leaf is erased only when a later leaf
\* of the same identity took its place.
ErasedIsSuperseded ==
    NoOverlap =>
        \A k \in erasedIndices :
            \E j \in Leaves : j > k + 1 /\ Leaf(j).veilIdHash = Leaf(k + 1).veilIdHash

\* A client stores only what landed: a record in some private state was committed
\* on chain, whatever was discarded, closed or overwritten on the way.
PrivateStateLanded ==
    \A c \in Clients, v \in VeilIds :
        privateState[c][v] # NoReputation =>
            /\ privateState[c][v] \in Committed
            /\ privateState[c][v].veilIdHash = v

\* A decision is backed by a committed record of that identity with that band.
DecisionBacked ==
    decision # NoDecision =>
        \E r \in Committed : /\ r.veilIdHash = decision.veilIdHash
                             /\ r.band = decision.band

\* A check that is about to land while the tree is still the one it was proved
\* against answers from a live leaf: only an update in between makes it stale.
CheckFresh ==
    \A id \in CallIds :
        /\ InFlight(id)
        /\ calls[id].circuit = "check"
        /\ calls[id].firstFree = FirstFree
        => \E i \in Leaves : Live(i) /\ Leaf(i) = calls[id].existing

\* A client that makes one call at a time, alone, never loses its reputation:
\* between calls each record it stores is a live leaf, so the next prove and
\* check find their path.  (Checked where one client uses one call slot.)
OwnRecordLive ==
    \A c \in Clients, v \in VeilIds :
        /\ privateState[c][v] # NoReputation
        /\ \A id \in CallIds : calls[id] # NoCall => calls[id].status = "submitted"
        => HasPath(privateState[c][v])

\* The leaf an update erases is the existing commitment whose membership the same
\* circuit has just asserted (Reputation.compact:103).
ErasesVerifiedLeaf ==
    [][\A k \in erasedIndices' \ erasedIndices :
          \E id \in CallIds : /\ calls'[id] # calls[id]
                              /\ calls[id].existing = Leaf(k + 1)]_vars

\* ... and there is at most one live leaf for an identity.
OneLiveLeaf ==
    \A i, j \in Leaves :
        Live(i) /\ Live(j) /\ Leaf(i).veilIdHash = Leaf(j).veilIdHash => i = j

(***************************************************************************)
(* The registry of reputations.  The reputation of an identity is its live *)
(* leaf; the client's store and the calls in flight are not seen.          *)
(***************************************************************************)
LiveLeaves(v) == {i \in Leaves : Live(i) /\ Leaf(i).veilIdHash = v}

LiveReputation(v) == IF LiveLeaves(v) = {} THEN NoReputation
                     ELSE Leaf(CHOOSE i \in LiveLeaves(v) : TRUE)

Answer == IF decision = NoDecision THEN NoDecision
          ELSE [ veilIdHash |-> decision.veilIdHash, band |-> decision.band,
                 meetsThreshold |-> decision.meetsThreshold ]

LiveReputations == [v \in VeilIds |-> LiveReputation(v)]

SpentNonces == { <<k[2], k[3]>> : k \in KeysTagged("nonce") }

Registry == INSTANCE ReputationRegistry WITH
                registered <- RegisteredIds, reputation <- LiveReputations,
                spentNonces <- SpentNonces, answer <- Answer, NoAnswer <- NoDecision

\* For a client that is alone and makes one call at a time the contract is such a
\* registry: a proof made earlier updates or reads, when it lands, the reputation
\* of that moment, and nothing else (Reputation.compact:96-166).
RegistryKept == Registry!Spec

(***************************************************************************)
(* Governance.                                                             *)
(***************************************************************************)

\* The thresholds in force, and those pending, are always well ordered.
ConfigsValid ==
    /\ ScoreConfigValid(scoreConfig)
    /\ hasPendingScoreConfig => ScoreConfigValid(pendingScoreConfig.config)

\* A config comes into force no earlier than the timelock after its proposal
\* landed, less the clock window: executableAt is computed from the proposer's
\* clock, which the contract ties to block time only through the proof window.
DelayLessWindow ==
    [][scoreConfig' # scoreConfig
         => blockTime + ProofWindow >= proposalBlock + ConfigTimelock]_vars

\* contract/README.md: "_configTimelockEpochs: delay before a proposed score
\* config can be applied".
FullDelay ==
    [][scoreConfig' # scoreConfig
         => blockTime >= proposalBlock + ConfigTimelock]_vars

=============================================================================
