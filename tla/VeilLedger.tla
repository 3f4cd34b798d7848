----------------------------- MODULE VeilLedger -----------------------------
(***************************************************************************)
(* The state of the Veil contract (GlobalLedgerStates.compact), the block  *)
(* time, and the state a client keeps beside it: its private reputation    *)
(* records and the contract calls it has in flight.                        *)
(*                                                                         *)
(* Hashes and commitments (persistentHash, persistentCommit) are modelled  *)
(* as the tuple or record they bind: equal exactly when all the inputs     *)
(* are.  Default is the all-zero Bytes<32> the circuits reject.            *)
(*                                                                         *)
(* A Merkle tree is append-only, so reputationCommitments is modelled by   *)
(* the sequence of everything ever inserted and the set of (zero-based)    *)
(* indices that insertIndexDefault overwrote with the default leaf.  That  *)
(* keeps what a HistoricMerkleTree keeps: the present leaves, the next     *)
(* free index and every leaf of an earlier root.                           *)
(***************************************************************************)
EXTENDS ScoreUtils, Sequences, FiniteSets

CONSTANTS
    Default,            \* default<Bytes<32>>
    VeilIds,            \* veilIdHash arguments
    ChainNamespaces, ReaderPolicies,
    KeyCommitments,     \* publicKeyOrLockHashCommitment arguments
    WalletSignatures,   \* walletSignatureHash arguments
    ChainCommitments, WitnessSalts, ProofNonces,
    OperationIds, SignatureBundles, GovernanceNonces,
    Requesters,         \* requesterAddressHash arguments of check
    MinimumBands,       \* minimumBand arguments of check, a Uint<8>
    Signals,            \* the signal records clients collect
    ProposedConfigs,    \* the score configs a council proposes
    Clients,            \* browser profiles, each with its own private state
    VolatileClients,    \* those whose page may close and whose store may vanish
    CallIds,            \* slots for calls in flight
    NoIdentity, NoReputation, NoCall, NoDecision,   \* absent values
    InitialScoreConfig, InitialNamespaces, InitialReaderPolicies, \* constructor
    Controller,         \* governanceControllerCommitment
    ConfigTimelock,     \* configTimelockEpochs
    ProofWindow,        \* 900 s in witness.ts
    MaxTime,            \* bound on block time
    MaxUint64           \* width of the epoch fields

VARIABLES
    identityRecords,        \* the map from veilIdHash to its record
    identityCommitments,    \* leaves of the identity tree
    reputationCommitments,  \* every leaf ever inserted in the reputation tree
    erasedIndices,          \* indices overwritten by insertIndexDefault
    processedProofs,
    supportedChainNamespaces,
    supportedReaderPolicies,
    scoreConfig,
    pendingScoreConfig,
    hasPendingScoreConfig,
    proposalBlock,          \* history: block time at which the pending proposal landed
    blockTime,
    privateState,           \* privateState[c].reputationScores, stored by client c
    calls,                  \* calls in flight
    decision                \* the ReputationDecision returned last

identityVars   == <<identityRecords, identityCommitments>>
reputationVars == <<reputationCommitments, erasedIndices>>
configVars     == <<scoreConfig, pendingScoreConfig, hasPendingScoreConfig, proposalBlock>>
supportVars    == <<supportedChainNamespaces, supportedReaderPolicies>>
clientVars     == <<privateState, calls, decision>>
vars == <<identityVars, reputationVars, processedProofs, configVars, supportVars,
          blockTime, clientVars>>

-----------------------------------------------------------------------------
(***************************************************************************)
(* Types.                                                                  *)
(***************************************************************************)
Epochs == 0 .. MaxUint64

\* deriveIdentityProofHash
IdentityProofs ==
    [ veilIdHash : VeilIds, chainNamespace : ChainNamespaces,
      keyCommitment : KeyCommitments, walletSignatureHash : WalletSignatures ]

\* The record's fields veilIdHash, chainNamespace, ... are those chainProofHash binds.
VeilIdentityRecords ==
    [ chainProofHash : IdentityProofs, version : {1}, status : {1},
      createdAtEpoch : Epochs, updatedAtEpoch : Epochs ]

\* deriveReputationWitnessCommitment
WitnessCommitments ==
    [ signals : Signals, chainNamespace : ChainNamespaces,
      chainCommitment : ChainCommitments, readerPolicyHash : ReaderPolicies,
      witnessSalt : WitnessSalts ]

\* deriveReputationProofHash; the config stands for its hash.
ReputationProofs ==
    [ veilIdHash : VeilIds, witnessCommitment : WitnessCommitments, claimedBand : Bands,
      scoreConfig : ScoreConfigs, proofNonce : ProofNonces ]

\* The record's remaining fields are those proofHash binds.
ReputationScores ==
    [ veilIdHash : VeilIds, score : Uint32, band : Bands, proofHash : ReputationProofs,
      lastUpdatedEpoch : Epochs, mtIndex : Nat ]

PendingScoreConfigs ==
    [ config : ScoreConfigs, operationId : OperationIds \cup {Default},
      proposedAtEpoch : Epochs, executableAtEpoch : Epochs ]

VeilPrivateStates == [ VeilIds -> ReputationScores \cup {NoReputation} ]

CallStatuses == {"submitted", "orphaned", "finalized"}

ProveCalls ==
    [ circuit : {"prove"}, status : CallStatuses, client : Clients,
      reputation : ReputationScores, existing : ReputationScores \cup {NoReputation},
      nextPrivateState : VeilPrivateStates ]

CheckCalls ==
    [ circuit : {"check"}, status : CallStatuses, client : Clients, veilIdHash : VeilIds,
      requester : Requesters, minimumBand : Bands, existing : ReputationScores,
      firstFree : Nat, at : Epochs, nextPrivateState : VeilPrivateStates ]

Decisions ==
    [ veilIdHash : VeilIds, meetsThreshold : BOOLEAN, band : Bands,
      communityWeightBps : Nat, validAtEpoch : Epochs ]

\* Keys of processedProofs; kernel.self() is the same in all of them.
RegisterKey(v, proof)  == <<"register", v, proof>>
NonceKey(v, nonce)     == <<"nonce", v, nonce>>
ProofKey(v, proof)     == <<"proof", v, proof>>
OperationKey(op)       == <<"operation", Controller, op>>
GovernanceNonceKey(n)  == <<"governanceNonce", Controller, n>>

ReplayKeys ==
         {"register"} \X VeilIds \X IdentityProofs
    \cup {"nonce"} \X VeilIds \X ProofNonces
    \cup {"proof"} \X VeilIds \X ReputationProofs
    \cup {"operation"} \X {Controller} \X OperationIds
    \cup {"governanceNonce"} \X {Controller} \X GovernanceNonces

ASSUME LedgerAssumption ==
    /\ Signals \subseteq ReputationSignals
    /\ ProposedConfigs \subseteq ScoreConfigs
    /\ VolatileClients \subseteq Clients
    /\ NoIdentity \notin VeilIdentityRecords
    /\ NoReputation \notin ReputationScores
    /\ NoCall \notin ProveCalls \cup CheckCalls
    /\ NoDecision \notin Decisions
    /\ MinimumBands \subseteq Nat
    /\ ConfigTimelock \in Nat
    /\ ProofWindow \in Nat
    /\ MaxTime \in Nat
    /\ MaxUint64 \in Nat /\ MaxTime + ProofWindow <= MaxUint64

\* What the constructor asserts of its arguments.
ASSUME ConstructorAssumption ==
    /\ InitialScoreConfig \in ScoreConfigs /\ ScoreConfigValid(InitialScoreConfig)
    /\ InitialNamespaces \subseteq ChainNamespaces \ {Default}
    /\ InitialReaderPolicies \subseteq ReaderPolicies \ {Default}
    /\ Controller # Default

-----------------------------------------------------------------------------
(***************************************************************************)
(* Time.  getCurrentTime answers the client's clock t with the window      *)
(* [t - 900, t + 900]; retrieveAndVerifyTime asserts that the block time   *)
(* is in it and hands t to the circuit.                                    *)
(***************************************************************************)
ClockReadings == 0 .. (MaxTime + ProofWindow)

\* Mutant of TimeVerified: validUntil is not checked.
TimeVerifiedNoExpiry(t) == t - ProofWindow <= blockTime

TimeVerified(t) == /\ t - ProofWindow <= blockTime
                   /\ blockTime <= t + ProofWindow

\* A block with a later time.
Tick == /\ blockTime < MaxTime
        /\ blockTime' = blockTime + 1
        /\ UNCHANGED <<identityVars, reputationVars, processedProofs, configVars,
                       supportVars, clientVars>>

=============================================================================
