------------------------- MODULE VeilContractProofs -------------------------
(***************************************************************************)
(* Proofs about VeilContract, for every value of its constants: the types  *)
(* of the ledger and of the clients' state, and the safety properties the  *)
(* model-checking runs show on small instances.                            *)
(***************************************************************************)
EXTENDS VeilContract, FiniteSetTheorems, SequenceTheorems, TLAPS

USE MaxUint32Assumption, LedgerAssumption, ConstructorAssumption

-----------------------------------------------------------------------------
(***************************************************************************)
(* Lemmas about the operators of the model.                                *)
(***************************************************************************)

\* The weighted score of well-typed signals under a well-typed config is a
\* natural number (Reputation.compact:44-51).
LEMMA UnclampedScoreNat ==
    ASSUME NEW config \in ScoreConfigs, NEW s \in ReputationSignals
    PROVE  UnclampedScore(config, s) \in Nat
<1> DEFINE Prod(x, y) == x * y
<1>1. ASSUME NEW x \in Uint32, NEW y \in Uint32
      PROVE  Prod(x, y) \in Nat
  BY <1>1 DEF Uint32
<1>2. /\ config.baseScore \in Nat
      /\ Prod(s.walletAgeInDays, config.walletAgeWeight) \in Nat
      /\ Prod(s.distinctProtocols, config.protocolWeight) \in Nat
      /\ Prod(s.daoVoteCount, config.daoWeight) \in Nat
      /\ Prod(s.lpTenureInDays, config.lpWeight) \in Nat
      /\ Prod(s.crossChainCount, config.crossChainWeight) \in Nat
      /\ Prod(s.txConsistencyScore, config.consistencyWeight) \in Nat
  <2> HIDE DEF Prod
  <2> QED BY <1>1 DEF ScoreConfigs, ReputationSignals, Uint32
<1>3. UnclampedScore(config, s) =
          config.baseScore
        + Prod(s.walletAgeInDays, config.walletAgeWeight)
        + Prod(s.distinctProtocols, config.protocolWeight)
        + Prod(s.daoVoteCount, config.daoWeight)
        + Prod(s.lpTenureInDays, config.lpWeight)
        + Prod(s.crossChainCount, config.crossChainWeight)
        + Prod(s.txConsistencyScore, config.consistencyWeight)
  BY DEF UnclampedScore
<1> HIDE DEF Prod
<1> QED BY <1>2, <1>3

\* A band is one of the five (Utils.compact:212-229).
LEMMA DeriveBandType ==
    ASSUME NEW config, NEW score
    PROVE  DeriveBand(config, score) \in Bands
BY DEF DeriveBand, Bands

\* A record the circuit accepts is well typed.
LEMMA NewReputationType ==
    ASSUME TypeOK, NEW v \in VeilIds, NEW w \in WitnessCommitments,
           NEW nonce \in ProofNonces, NEW t \in ClockReadings,
           ScoreAccepted(scoreConfig, w.signals)
    PROVE  NewReputation(v, w, nonce, t) \in ReputationScores
<1> DEFINE score == UnclampedScore(scoreConfig, w.signals)
<1>1. scoreConfig \in ScoreConfigs /\ w.signals \in ReputationSignals
  BY DEF TypeOK, WitnessCommitments
<1>2. score \in Uint32
  BY <1>1, UnclampedScoreNat DEF ScoreAccepted, Uint32
<1>3. DeriveBand(scoreConfig, score) \in Bands
  BY DeriveBandType
<1>4. t \in Epochs
  BY DEF ClockReadings, Epochs
<1>5. FirstFree \in Nat
  BY DEF TypeOK, FirstFree
<1> HIDE DEF score
<1>6. NewReputation(v, w, nonce, t) =
        [ veilIdHash |-> v, score |-> score, band |-> DeriveBand(scoreConfig, score),
          proofHash |-> [ veilIdHash |-> v, witnessCommitment |-> w,
                          claimedBand |-> DeriveBand(scoreConfig, score),
                          scoreConfig |-> scoreConfig, proofNonce |-> nonce ],
          lastUpdatedEpoch |-> t, mtIndex |-> FirstFree ]
  BY DEF NewReputation, score
<1> QED
  BY <1>1, <1>2, <1>3, <1>4, <1>5, <1>6 DEF ReputationScores, ReputationProofs

\* The parts of a prove call that the circuit's own step changes.
LEMMA FinalizedType ==
    ASSUME TypeOK, NEW id \in CallIds, InFlight(id)
    PROVE  Finalized(id) \in [CallIds -> ProveCalls \cup CheckCalls \cup {NoCall}]
<1>1. calls[id] \in ProveCalls \cup CheckCalls
  BY DEF TypeOK, InFlight
<1>2. [calls[id] EXCEPT !.status = "finalized"] \in ProveCalls \cup CheckCalls
  BY <1>1 DEF ProveCalls, CheckCalls, CallStatuses
<1>3. [calls EXCEPT ![id].status = "finalized"]
        = [calls EXCEPT ![id] = [calls[id] EXCEPT !.status = "finalized"]]
  BY DEF TypeOK
<1> QED
  BY <1>2, <1>3 DEF Finalized, TypeOK

-----------------------------------------------------------------------------
(***************************************************************************)
(* Type correctness: one step per action.                                  *)
(***************************************************************************)

LEMMA InitType == Init => TypeOK
<1> SUFFICES ASSUME Init PROVE TypeOK
  OBVIOUS
<1>1. ZeroScoreConfig \in ScoreConfigs
  BY DEF ZeroScoreConfig, ScoreConfigs, Uint32
<1>2. pendingScoreConfig \in PendingScoreConfigs
  BY <1>1 DEF Init, PendingScoreConfigs, Epochs
<1>3. privateState \in [Clients -> VeilPrivateStates]
  BY DEF Init, VeilPrivateStates
<1>4. calls \in [CallIds -> ProveCalls \cup CheckCalls \cup {NoCall}]
  BY DEF Init
<1>5. identityRecords \in [VeilIds -> VeilIdentityRecords \cup {NoIdentity}]
  BY DEF Init
<1>6. /\ identityCommitments \in Seq(VeilIdentityRecords)
      /\ reputationCommitments \in Seq(ReputationScores)
  BY DEF Init
<1>7. /\ proposalBlock \in 0 .. MaxTime
      /\ blockTime \in 0 .. MaxTime
      /\ scoreConfig \in ScoreConfigs
  BY DEF Init
<1>8. /\ supportedChainNamespaces \subseteq ChainNamespaces \ {Default}
      /\ supportedReaderPolicies \subseteq ReaderPolicies \ {Default}
  BY DEF Init
<1> QED
  BY <1>2, <1>3, <1>4, <1>5, <1>6, <1>7, <1>8 DEF Init, TypeOK

LEMMA RegisterType ==
    ASSUME TypeOK, NEW v \in VeilIds, NEW ns \in ChainNamespaces,
           NEW key \in KeyCommitments, NEW sig \in WalletSignatures,
           NEW t \in ClockReadings, Register(v, ns, key, sig, t)
    PROVE  TypeOK'
<1> DEFINE proof  == [ veilIdHash |-> v, chainNamespace |-> ns,
                       keyCommitment |-> key, walletSignatureHash |-> sig ]
           record == [ chainProofHash |-> proof, version |-> 1, status |-> 1,
                       createdAtEpoch |-> t, updatedAtEpoch |-> t ]
<1>1. t \in Epochs
  BY DEF ClockReadings, Epochs
<1>2. proof \in IdentityProofs
  BY DEF IdentityProofs
<1>3. record \in VeilIdentityRecords
  BY <1>1, <1>2 DEF VeilIdentityRecords
<1>4. RegisterKey(v, proof) \in ReplayKeys
  BY <1>2 DEF RegisterKey, ReplayKeys
<1>5. /\ processedProofs' = processedProofs \cup {RegisterKey(v, proof)}
      /\ identityRecords' = [identityRecords EXCEPT ![v] = record]
      /\ identityCommitments' = Append(identityCommitments, record)
      /\ UNCHANGED <<reputationVars, configVars, supportVars, blockTime, clientVars>>
  BY DEF Register
<1> HIDE DEF record, proof
<1> QED
  BY <1>3, <1>4, <1>5
  DEF TypeOK, reputationVars, configVars, supportVars, clientVars

LEMMA ConsumeType ==
    ASSUME TypeOK, NEW op \in OperationIds, NEW bundle, NEW nonce \in GovernanceNonces,
           ConsumeOperation(op, bundle, nonce)
    PROVE  processedProofs' \subseteq ReplayKeys
BY DEF TypeOK, ConsumeOperation, OperationKey, GovernanceNonceKey, ReplayKeys

LEMMA GovernanceType ==
    ASSUME TypeOK, GovernanceStep
    PROVE  TypeOK'
<1>1. ASSUME ApplyScoreConfig
      PROVE  TypeOK'
  <2>1. scoreConfig' \in ScoreConfigs /\ hasPendingScoreConfig' \in BOOLEAN
    BY <1>1 DEF ApplyScoreConfig, TypeOK, PendingScoreConfigs
  <2> QED
    BY <1>1, <2>1
    DEF ApplyScoreConfig, TypeOK, identityVars, reputationVars, supportVars, clientVars
<1>2. ASSUME NEW op \in OperationIds, NEW bundle \in SignatureBundles,
             NEW nonce \in GovernanceNonces, CancelScoreConfig(op, bundle, nonce)
      PROVE  TypeOK'
  <2>1. processedProofs' \subseteq ReplayKeys
    BY <1>2, ConsumeType DEF CancelScoreConfig
  <2> QED
    BY <1>2, <2>1
    DEF CancelScoreConfig, TypeOK, identityVars, reputationVars, supportVars, clientVars
<1>3. ASSUME NEW op \in OperationIds, NEW bundle \in SignatureBundles,
             NEW nonce \in GovernanceNonces, NEW t \in ClockReadings,
             NEW config \in ProposedConfigs,
             ProposeScoreConfig(config, op, bundle, nonce, t)
      PROVE  TypeOK'
  <2>1. processedProofs' \subseteq ReplayKeys
    BY <1>3, ConsumeType DEF ProposeScoreConfig
  <2>2. t \in Epochs /\ t + ConfigTimelock \in Epochs
    BY <1>3 DEF ProposeScoreConfig, ClockReadings, Epochs
  <2>3. config \in ScoreConfigs
    OBVIOUS
  <2>4. pendingScoreConfig' \in PendingScoreConfigs
    BY <1>3, <2>2, <2>3 DEF ProposeScoreConfig, PendingScoreConfigs
  <2> QED
    BY <1>3, <2>1, <2>4
    DEF ProposeScoreConfig, TypeOK, identityVars, reputationVars, supportVars, clientVars
<1>4. ASSUME NEW op \in OperationIds, NEW bundle \in SignatureBundles,
             NEW nonce \in GovernanceNonces, NEW t \in ClockReadings,
             NEW ns \in ChainNamespaces,
             AddSupportedChainNamespace(ns, op, bundle, nonce, t)
      PROVE  TypeOK'
  <2>1. processedProofs' \subseteq ReplayKeys
    BY <1>4, ConsumeType DEF AddSupportedChainNamespace
  <2> QED
    BY <1>4, <2>1
    DEF AddSupportedChainNamespace, TypeOK, identityVars, reputationVars, configVars, clientVars
<1>5. ASSUME NEW op \in OperationIds, NEW bundle \in SignatureBundles,
             NEW nonce \in GovernanceNonces, NEW t \in ClockReadings,
             NEW rp \in ReaderPolicies,
             AddSupportedReaderPolicy(rp, op, bundle, nonce, t)
      PROVE  TypeOK'
  <2>1. processedProofs' \subseteq ReplayKeys
    BY <1>5, ConsumeType DEF AddSupportedReaderPolicy
  <2> QED
    BY <1>5, <2>1
    DEF AddSupportedReaderPolicy, TypeOK, identityVars, reputationVars, configVars, clientVars
<1> QED
  BY <1>1, <1>2, <1>3, <1>4, <1>5 DEF GovernanceStep

LEMMA ProveCallType ==
    ASSUME TypeOK, NEW id \in CallIds, NEW c \in Clients, NEW v \in VeilIds,
           NEW w \in WitnessCommitments, NEW nonce \in ProofNonces, NEW t \in ClockReadings,
           ProveCall(id, c, v, w, nonce, t)
    PROVE  TypeOK'
<1> DEFINE reputation == NewReputation(v, w, nonce, t)
           call == [ circuit |-> "prove", status |-> "submitted", client |-> c,
                     reputation |-> reputation, existing |-> privateState[c][v],
                     nextPrivateState |-> [privateState[c] EXCEPT ![v] = reputation] ]
<1>1. reputation \in ReputationScores
  <2>1. ScoreAccepted(scoreConfig, w.signals)
    BY DEF ProveCall, ProveAsserts
  <2> QED BY <2>1, NewReputationType
<1> HIDE DEF reputation
<1>2. /\ privateState[c][v] \in ReputationScores \cup {NoReputation}
      /\ [privateState[c] EXCEPT ![v] = reputation] \in VeilPrivateStates
  BY <1>1 DEF TypeOK, VeilPrivateStates
<1>3. call \in ProveCalls
  BY <1>1, <1>2 DEF ProveCalls, CallStatuses
<1>4. /\ calls' = [calls EXCEPT ![id] = call]
      /\ UNCHANGED <<identityVars, reputationVars, processedProofs, configVars,
                     supportVars, blockTime, privateState, decision>>
  BY DEF ProveCall, reputation
<1> HIDE DEF call
<1> QED
  BY <1>3, <1>4 DEF TypeOK, identityVars, reputationVars, configVars, supportVars

LEMMA CheckCallType ==
    ASSUME TypeOK, NEW id \in CallIds, NEW c \in Clients, NEW v \in VeilIds,
           NEW requester \in Requesters, NEW minimumBand \in MinimumBands,
           NEW t \in ClockReadings, CheckCall(id, c, v, requester, minimumBand, t)
    PROVE  TypeOK'
<1> DEFINE call == [ circuit |-> "check", status |-> "submitted", client |-> c,
                     veilIdHash |-> v, requester |-> requester,
                     minimumBand |-> minimumBand, existing |-> privateState[c][v],
                     firstFree |-> FirstFree, at |-> t,
                     nextPrivateState |-> privateState[c] ]
<1>1. /\ privateState[c][v] \in ReputationScores
      /\ privateState[c] \in VeilPrivateStates
  BY DEF TypeOK, VeilPrivateStates, CheckCall
<1>2. minimumBand \in Bands
  BY DEF CheckCall, CheckAsserts, Bands
<1>3. t \in Epochs /\ FirstFree \in Nat
  BY DEF ClockReadings, Epochs, FirstFree, TypeOK
<1>4. call \in CheckCalls
  BY <1>1, <1>2, <1>3 DEF CheckCalls, CallStatuses
<1>5. /\ calls' = [calls EXCEPT ![id] = call]
      /\ UNCHANGED <<identityVars, reputationVars, processedProofs, configVars,
                     supportVars, blockTime, privateState, decision>>
  BY DEF CheckCall
<1> HIDE DEF call
<1> QED
  BY <1>4, <1>5 DEF TypeOK, identityVars, reputationVars, configVars, supportVars

LEMMA LandProveType ==
    ASSUME TypeOK, NEW id \in CallIds, LandProve(id)
    PROVE  TypeOK'
<1> DEFINE call == calls[id]
           r    == call.reputation
<1>1. call \in ProveCalls
  BY DEF LandProve, InFlight, TypeOK, CheckCalls
<1>2. /\ r \in ReputationScores
      /\ call.existing \in ReputationScores \cup {NoReputation}
  BY <1>1 DEF ProveCalls
<1>3. {NonceKey(r.veilIdHash, r.proofHash.proofNonce), ProofKey(r.veilIdHash, r.proofHash)}
        \subseteq ReplayKeys
  BY <1>2 DEF ReputationScores, ReputationProofs, NonceKey, ProofKey, ReplayKeys
<1>4. erasedIndices' \subseteq Nat
  BY <1>2 DEF LandProve, ReputationScores, TypeOK
<1>5. Append(reputationCommitments, r) \in Seq(ReputationScores)
  BY <1>2, AppendProperties DEF TypeOK
<1>6. calls' \in [CallIds -> ProveCalls \cup CheckCalls \cup {NoCall}]
  BY FinalizedType DEF LandProve
<1>7. /\ processedProofs' = processedProofs \cup
             {NonceKey(r.veilIdHash, r.proofHash.proofNonce), ProofKey(r.veilIdHash, r.proofHash)}
      /\ reputationCommitments' = Append(reputationCommitments, r)
      /\ UNCHANGED <<identityVars, configVars, supportVars, blockTime, privateState, decision>>
  BY DEF LandProve
<1> HIDE DEF r, call
<1> QED
  BY <1>3, <1>4, <1>5, <1>6, <1>7 DEF TypeOK, identityVars, configVars, supportVars

LEMMA LandCheckType ==
    ASSUME TypeOK, NEW id \in CallIds, LandCheck(id)
    PROVE  TypeOK'
<1>1. calls[id] \in CheckCalls
  BY DEF LandCheck, InFlight, TypeOK, ProveCalls
<1>2. /\ calls[id].veilIdHash \in VeilIds
      /\ calls[id].existing.band \in Bands
      /\ calls[id].minimumBand \in Bands
      /\ calls[id].at \in Epochs
  BY <1>1 DEF CheckCalls, ReputationScores
<1>3. CommunityWeightBps(calls[id].existing.band) \in Nat
  BY <1>2 DEF CommunityWeightBps, Bands
<1>4. decision' \in Decisions
  BY <1>2, <1>3 DEF LandCheck, Decisions
<1>5. calls' \in [CallIds -> ProveCalls \cup CheckCalls \cup {NoCall}]
  BY FinalizedType DEF LandCheck
<1> QED
  BY <1>4, <1>5 DEF LandCheck, TypeOK, identityVars, reputationVars, configVars, supportVars

LEMMA DiscardType ==
    ASSUME TypeOK, NEW id \in CallIds, Discard(id)
    PROVE  TypeOK'
BY DEF Discard, TypeOK, identityVars, reputationVars, configVars, supportVars

LEMMA StoreType ==
    ASSUME TypeOK, NEW id \in CallIds, StorePrivateState(id)
    PROVE  TypeOK'
<1>1. calls[id] \in ProveCalls \cup CheckCalls
  BY DEF StorePrivateState, TypeOK
<1>2. calls[id].client \in Clients /\ calls[id].nextPrivateState \in VeilPrivateStates
  BY <1>1 DEF ProveCalls, CheckCalls
<1>3. privateState' \in [Clients -> VeilPrivateStates]
  BY <1>2 DEF StorePrivateState, TypeOK
<1>4. calls' \in [CallIds -> ProveCalls \cup CheckCalls \cup {NoCall}]
  BY DEF StorePrivateState, TypeOK
<1> QED
  BY <1>3, <1>4
  DEF StorePrivateState, TypeOK, identityVars, reputationVars, configVars, supportVars

LEMMA CloseType ==
    ASSUME TypeOK, NEW c \in Clients, Close(c)
    PROVE  TypeOK'
<1>1. ASSUME NEW id \in CallIds, calls[id] # NoCall
      PROVE  [calls[id] EXCEPT !.status = "orphaned"] \in ProveCalls \cup CheckCalls
  <2>1. calls[id] \in ProveCalls \cup CheckCalls
    BY <1>1 DEF TypeOK
  <2> QED
    BY <2>1 DEF ProveCalls, CheckCalls, CallStatuses
<1>2. calls' \in [CallIds -> ProveCalls \cup CheckCalls \cup {NoCall}]
  BY <1>1 DEF Close, TypeOK
<1> QED
  BY <1>2 DEF Close, TypeOK, identityVars, reputationVars, configVars, supportVars

LEMMA JoinFreshType ==
    ASSUME TypeOK, NEW c \in Clients, JoinFresh(c)
    PROVE  TypeOK'
<1>1. privateState' \in [Clients -> VeilPrivateStates]
  BY DEF JoinFresh, TypeOK, VeilPrivateStates
<1> QED
  BY <1>1 DEF JoinFresh, TypeOK, identityVars, reputationVars, configVars, supportVars

\* Every reachable state is well typed: no identity, namespace or policy is the
\* zero hash, every committed record and every pending call has its shape, for
\* any number of identities, clients, calls and configs.
THEOREM TypeCorrect == Spec => []TypeOK
<1>1. TypeOK /\ [Next]_vars => TypeOK'
  <2> SUFFICES ASSUME TypeOK, [Next]_vars PROVE TypeOK'
    OBVIOUS
  <2>1. CASE IdentityStep
    BY <2>1, RegisterType DEF IdentityStep
  <2>2. CASE GovernanceStep
    BY <2>2, GovernanceType
  <2>3. CASE ReputationStep
    BY <2>3, ProveCallType, CheckCallType, LandProveType, LandCheckType, DiscardType,
       StoreType
    DEF ReputationStep
  <2>4. CASE Volatility
    BY <2>4, LedgerAssumption, CloseType, JoinFreshType DEF Volatility
  <2>5. CASE Tick
    BY <2>5 DEF Tick, TypeOK, identityVars, reputationVars, configVars, supportVars, clientVars
  <2>6. CASE UNCHANGED vars
    BY <2>6
    DEF vars, TypeOK, identityVars, reputationVars, configVars, supportVars, clientVars
  <2> QED
    BY <2>1, <2>2, <2>3, <2>4, <2>5, <2>6 DEF Next
<1> QED
  BY <1>1, InitType, PTL DEF Spec

-----------------------------------------------------------------------------
(***************************************************************************)
(* The reputation tree only grows, and only by LandProve.                  *)
(***************************************************************************)
Unprocessed(id) ==
    LET r == calls[id].reputation
    IN  /\ NonceKey(r.veilIdHash, r.proofHash.proofNonce) \notin processedProofs
        /\ NonceKey(r.veilIdHash, r.proofHash.proofNonce) \in processedProofs'

LEMMA OnlyLandProveCommits ==
    ASSUME [Next]_vars
    PROVE  \/ /\ UNCHANGED reputationVars
              /\ processedProofs \subseteq processedProofs'
           \/ \E id \in CallIds : LandProve(id)
<1>1. ASSUME IdentityStep
      PROVE  UNCHANGED reputationVars /\ processedProofs \subseteq processedProofs'
  BY <1>1 DEF IdentityStep, Register
<1>2. ASSUME GovernanceStep
      PROVE  UNCHANGED reputationVars /\ processedProofs \subseteq processedProofs'
  BY <1>2
  DEF GovernanceStep, ApplyScoreConfig, CancelScoreConfig, ProposeScoreConfig,
      AddSupportedChainNamespace, AddSupportedReaderPolicy, ConsumeOperation
<1>3. ASSUME ReputationStep, ~ \E id \in CallIds : LandProve(id)
      PROVE  UNCHANGED reputationVars /\ processedProofs \subseteq processedProofs'
  BY <1>3 DEF ReputationStep, ProveCall, CheckCall, LandCheck, Discard, StorePrivateState
<1>4. ASSUME Volatility \/ Tick \/ UNCHANGED vars
      PROVE  UNCHANGED reputationVars /\ processedProofs \subseteq processedProofs'
  BY <1>4 DEF Volatility, Close, JoinFresh, Tick, vars
<1> QED
  BY <1>1, <1>2, <1>3, <1>4 DEF Next

\* What LandProve does to the tree.
LEMMA LandProveAppends ==
    ASSUME TypeOK, NEW id \in CallIds, LandProve(id)
    PROVE  /\ calls[id] \in ProveCalls
           /\ calls[id].reputation \in ReputationScores
           /\ FirstFree \in Nat
           /\ FirstFree' = FirstFree + 1
           /\ Leaves = 1 .. FirstFree
           /\ Leaves' = 1 .. (FirstFree + 1)
           /\ \A i \in Leaves : reputationCommitments'[i] = Leaf(i)
           /\ reputationCommitments'[FirstFree + 1] = calls[id].reputation
           /\ Unprocessed(id)
           /\ processedProofs \subseteq processedProofs'
<1>1. calls[id] \in ProveCalls
  BY DEF LandProve, InFlight, TypeOK, CheckCalls
<1>2. calls[id].reputation \in ReputationScores
  BY <1>1 DEF ProveCalls
<1>3. /\ reputationCommitments \in Seq(ReputationScores)
      /\ reputationCommitments' = Append(reputationCommitments, calls[id].reputation)
  BY DEF TypeOK, LandProve
<1>4. /\ FirstFree \in Nat
      /\ FirstFree' = FirstFree + 1
      /\ Leaves = 1 .. FirstFree
      /\ Leaves' = 1 .. (FirstFree + 1)
      /\ \A i \in Leaves : reputationCommitments'[i] = Leaf(i)
      /\ reputationCommitments'[FirstFree + 1] = calls[id].reputation
  BY <1>2, <1>3, AppendProperties, LenProperties DEF FirstFree, Leaves, Leaf
<1>5. Unprocessed(id) /\ processedProofs \subseteq processedProofs'
  BY DEF LandProve, ProveAsserts, Unprocessed
<1> QED
  BY <1>1, <1>2, <1>4, <1>5

\* What was committed stays committed, though its leaf may be erased.
LEMMA CommittedGrows ==
    ASSUME TypeOK, [Next]_vars
    PROVE  Committed \subseteq Committed'
<1>1. CASE UNCHANGED reputationVars
  BY <1>1 DEF Committed, Leaves, Leaf, reputationVars
<1>2. ASSUME NEW id \in CallIds, LandProve(id)
      PROVE  Committed \subseteq Committed'
  BY <1>2, LandProveAppends DEF Committed, Leaf
<1> QED
  BY <1>1, <1>2, OnlyLandProveCommits

-----------------------------------------------------------------------------
(***************************************************************************)
(* Replay.  The nonce of every committed record is in the replay set, so a *)
(* record that lands has a nonce no other record of its identity has.      *)
(***************************************************************************)
NoncesProcessed ==
    \A i \in Leaves :
        NonceKey(Leaf(i).veilIdHash, Leaf(i).proofHash.proofNonce) \in processedProofs

ReplayInv == NoncesProcessed /\ NoReplay

LEMMA ReplayStep ==
    ASSUME TypeOK, ReplayInv, [Next]_vars
    PROVE  ReplayInv'
<1>1. CASE UNCHANGED reputationVars /\ processedProofs \subseteq processedProofs'
  BY <1>1 DEF ReplayInv, NoncesProcessed, NoReplay, Leaves, Leaf, reputationVars
<1>2. ASSUME NEW id \in CallIds, LandProve(id)
      PROVE  ReplayInv'
  <2> DEFINE new == FirstFree + 1
             r == calls[id].reputation
  <2>1. /\ Leaves' = Leaves \cup {new}
        /\ \A i \in Leaves : reputationCommitments'[i] = Leaf(i)
        /\ reputationCommitments'[new] = r
        /\ processedProofs \subseteq processedProofs'
    BY <1>2, LandProveAppends
  <2>2. /\ NonceKey(r.veilIdHash, r.proofHash.proofNonce) \notin processedProofs
        /\ NonceKey(r.veilIdHash, r.proofHash.proofNonce) \in processedProofs'
    BY <1>2, LandProveAppends DEF Unprocessed
  <2> HIDE DEF new, r
  <2>3. NoncesProcessed'
    BY <2>1, <2>2 DEF ReplayInv, NoncesProcessed, Leaf
  <2>4. \A i \in Leaves : Leaf(i).veilIdHash = r.veilIdHash =>
            Leaf(i).proofHash.proofNonce # r.proofHash.proofNonce
    BY <2>2 DEF ReplayInv, NoncesProcessed
  <2>5. NoReplay'
    BY <2>1, <2>4 DEF ReplayInv, NoReplay, Leaf
  <2> QED
    BY <2>3, <2>5 DEF ReplayInv
<1> QED
  BY <1>1, <1>2, OnlyLandProveCommits

\* Two updates of one identity never land with the same nonce or the same proof
\* (Reputation.compact:79-95), whatever is in flight at the same time.
THEOREM ReplayProtected == Spec => []NoReplay
<1>1. Init => ReplayInv
  BY DEF Init, ReplayInv, NoncesProcessed, NoReplay, Leaves
<1>2. ReplayInv => NoReplay
  BY DEF ReplayInv
<1> QED
  BY <1>1, <1>2, ReplayStep, TypeCorrect, PTL DEF Spec

-----------------------------------------------------------------------------
(***************************************************************************)
(* Records, indices and decisions.  A call in flight carries records that  *)
(* were read from a private state and one that may still have to land; the *)
(* invariant says which of them are committed, and of which identity.      *)
(***************************************************************************)
Recorded(r, v) == r \in Committed /\ r.veilIdHash = v

StoredRecorded ==
    \A c \in Clients, v \in VeilIds :
        privateState[c][v] # NoReputation => Recorded(privateState[c][v], v)

ProveRecorded(id) ==
    LET call == calls[id]
        v    == call.reputation.veilIdHash
    IN  /\ call.reputation.mtIndex <= FirstFree
        /\ call.status = "finalized" => call.reputation \in Committed
        /\ call.existing # NoReputation => Recorded(call.existing, v)
        /\ \A u \in VeilIds : call.nextPrivateState[u] # NoReputation =>
              \/ Recorded(call.nextPrivateState[u], u)
              \/ u = v /\ call.nextPrivateState[u] = call.reputation

CheckRecorded(id) ==
    LET call == calls[id]
    IN  /\ Recorded(call.existing, call.veilIdHash)
        /\ \A u \in VeilIds : call.nextPrivateState[u] # NoReputation =>
              Recorded(call.nextPrivateState[u], u)

CallsRecorded ==
    \A id \in CallIds : /\ calls[id] \in ProveCalls => ProveRecorded(id)
                        /\ calls[id] \in CheckCalls => CheckRecorded(id)

RecordInv == StoredRecorded /\ CallsRecorded /\ IndexNotAhead /\ DecisionBacked

\* Steps that leave the tree, the private states and the decision alone keep
\* what those say.
LEMMA RecordFrame ==
    ASSUME RecordInv, UNCHANGED reputationVars
    PROVE  /\ Committed' = Committed
           /\ FirstFree' = FirstFree
           /\ IndexNotAhead'
           /\ privateState' = privateState => StoredRecorded'
           /\ decision' = decision => DecisionBacked'
           /\ \A id \in CallIds : calls'[id] = calls[id] =>
                 /\ calls[id] \in ProveCalls => ProveRecorded(id)'
                 /\ calls[id] \in CheckCalls => CheckRecorded(id)'
<1>1. /\ Committed' = Committed
      /\ FirstFree' = FirstFree
      /\ Leaves' = Leaves
  BY DEF reputationVars, Committed, FirstFree, Leaves, Leaf
<1>2. IndexNotAhead'
  BY <1>1 DEF RecordInv, IndexNotAhead, Leaf, reputationVars
<1>3. privateState' = privateState => StoredRecorded'
  BY <1>1 DEF RecordInv, StoredRecorded, Recorded
<1>4. decision' = decision => DecisionBacked'
  BY <1>1 DEF RecordInv, DecisionBacked
<1>5. ASSUME NEW id \in CallIds, calls'[id] = calls[id], calls[id] \in ProveCalls
      PROVE  ProveRecorded(id)'
  BY <1>1, <1>5 DEF RecordInv, CallsRecorded, ProveRecorded, Recorded
<1>6. ASSUME NEW id \in CallIds, calls'[id] = calls[id], calls[id] \in CheckCalls
      PROVE  CheckRecorded(id)'
  BY <1>1, <1>6 DEF RecordInv, CallsRecorded, CheckRecorded, Recorded
<1> QED
  BY <1>1, <1>2, <1>3, <1>4, <1>5, <1>6

\* A call is a prove or a check, never both, and NoCall is neither.
LEMMA CallKinds ==
    /\ \A call \in ProveCalls : call \notin CheckCalls /\ call # NoCall
                                /\ call.circuit = "prove"
    /\ \A call \in CheckCalls : call \notin ProveCalls /\ call # NoCall
                                /\ call.circuit = "check"
BY DEF ProveCalls, CheckCalls

LEMMA ProveCallRecorded ==
    ASSUME TypeOK, RecordInv, NEW id \in CallIds, NEW c \in Clients, NEW v \in VeilIds,
           NEW w \in WitnessCommitments, NEW nonce \in ProofNonces, NEW t \in ClockReadings,
           ProveCall(id, c, v, w, nonce, t)
    PROVE  RecordInv'
<1> DEFINE reputation == NewReputation(v, w, nonce, t)
           call == [ circuit |-> "prove", status |-> "submitted", client |-> c,
                     reputation |-> reputation, existing |-> privateState[c][v],
                     nextPrivateState |-> [privateState[c] EXCEPT ![v] = reputation] ]
<1>1. /\ reputation.veilIdHash = v
      /\ reputation.mtIndex = FirstFree
      /\ FirstFree \in Nat
  BY DEF NewReputation, FirstFree, TypeOK
<1> HIDE DEF reputation
<1>2. /\ calls' = [calls EXCEPT ![id] = call]
      /\ UNCHANGED <<reputationVars, privateState, decision>>
  BY DEF ProveCall, reputation
<1>3. calls'[id] = call /\ \A other \in CallIds : other # id => calls'[other] = calls[other]
  BY <1>2 DEF TypeOK
<1>4. /\ Committed' = Committed /\ FirstFree' = FirstFree
      /\ IndexNotAhead' /\ StoredRecorded' /\ DecisionBacked'
  BY <1>2, RecordFrame
<1>5. \A u \in VeilIds : /\ u = v => call.nextPrivateState[u] = reputation
                         /\ u # v => call.nextPrivateState[u] = privateState[c][u]
  BY DEF TypeOK, VeilPrivateStates
<1>6. ProveRecorded(id)'
  BY <1>1, <1>3, <1>4, <1>5 DEF RecordInv, StoredRecorded, ProveRecorded, Recorded
<1>7. calls'[id] \notin CheckCalls
  BY <1>3 DEF CheckCalls
<1>8. CallsRecorded'
  BY <1>2, <1>3, <1>6, <1>7, RecordFrame DEF CallsRecorded
<1> QED
  BY <1>4, <1>8 DEF RecordInv

LEMMA CheckCallRecorded ==
    ASSUME TypeOK, RecordInv, NEW id \in CallIds, NEW c \in Clients, NEW v \in VeilIds,
           NEW requester \in Requesters, NEW minimumBand \in MinimumBands,
           NEW t \in ClockReadings, CheckCall(id, c, v, requester, minimumBand, t)
    PROVE  RecordInv'
<1> DEFINE call == [ circuit |-> "check", status |-> "submitted", client |-> c,
                     veilIdHash |-> v, requester |-> requester,
                     minimumBand |-> minimumBand, existing |-> privateState[c][v],
                     firstFree |-> FirstFree, at |-> t,
                     nextPrivateState |-> privateState[c] ]
<1>1. /\ calls' = [calls EXCEPT ![id] = call]
      /\ privateState[c][v] # NoReputation
      /\ UNCHANGED <<reputationVars, privateState, decision>>
  BY DEF CheckCall
<1>2. calls'[id] = call /\ \A other \in CallIds : other # id => calls'[other] = calls[other]
  BY <1>1 DEF TypeOK
<1>3. /\ Committed' = Committed
      /\ IndexNotAhead' /\ StoredRecorded' /\ DecisionBacked'
  BY <1>1, RecordFrame
<1>4. CheckRecorded(id)'
  BY <1>1, <1>2, <1>3 DEF RecordInv, StoredRecorded, CheckRecorded, Recorded
<1>5. calls'[id] \notin ProveCalls
  BY <1>2 DEF ProveCalls
<1>6. CallsRecorded'
  BY <1>1, <1>2, <1>4, <1>5, RecordFrame DEF CallsRecorded
<1> QED
  BY <1>3, <1>6 DEF RecordInv

\* Handing a landed call to its client changes nothing but its status.
LEMMA FinalizedCalls ==
    ASSUME TypeOK, NEW id \in CallIds, InFlight(id), calls' = Finalized(id)
    PROVE  /\ \A other \in CallIds : other # id => calls'[other] = calls[other]
           /\ calls'[id] # NoCall =>
                calls'[id] = [calls[id] EXCEPT !.status = "finalized"]
<1>1. [calls EXCEPT ![id].status = "finalized"]
        = [calls EXCEPT ![id] = [calls[id] EXCEPT !.status = "finalized"]]
  BY DEF TypeOK
<1> QED
  BY <1>1 DEF Finalized, TypeOK

LEMMA LandProveRecorded ==
    ASSUME TypeOK, RecordInv, NEW id \in CallIds, LandProve(id)
    PROVE  RecordInv'
<1> DEFINE r == calls[id].reputation
           new == FirstFree + 1
<1>1. /\ calls[id] \in ProveCalls
      /\ r \in ReputationScores
      /\ FirstFree \in Nat
      /\ FirstFree' = FirstFree + 1
      /\ Leaves = 1 .. FirstFree
      /\ Leaves' = 1 .. new
      /\ \A i \in Leaves : reputationCommitments'[i] = Leaf(i)
      /\ reputationCommitments'[new] = r
  BY LandProveAppends
<1>2. Committed' = Committed \cup {r}
  <2> HIDE DEF r
  <2>1. Leaves' = Leaves \cup {new}
    BY <1>1
  <2> QED BY <1>1, <2>1 DEF Committed, Leaf
<1>3. ProveRecorded(id)
  BY <1>1 DEF RecordInv, CallsRecorded
<1>4. r.mtIndex \in Nat /\ r.mtIndex <= FirstFree
  BY <1>1, <1>3 DEF ProveRecorded, ReputationScores
<1>5. \A k \in erasedIndices' \ erasedIndices : k < FirstFree
  <2>1. ASSUME calls[id].existing # NoReputation
        PROVE  calls[id].existing.mtIndex < FirstFree
    <3>1. calls[id].existing \in Committed /\ calls[id].existing \in ReputationScores
      BY <1>1, <1>3, <2>1 DEF ProveRecorded, Recorded, ProveCalls
    <3>2. PICK i \in Leaves : Leaf(i) = calls[id].existing
      BY <3>1 DEF Committed
    <3>3. Leaf(i).mtIndex <= i - 1
      BY DEF RecordInv, IndexNotAhead
    <3>4. calls[id].existing.mtIndex \in Nat /\ i \in 1 .. FirstFree
      BY <1>1, <3>1 DEF ReputationScores
    <3> QED BY <1>1, <3>2, <3>3, <3>4
  <2> QED BY <2>1 DEF LandProve
<1>6. IndexNotAhead'
  <2>1. \A i \in Leaves' : reputationCommitments'[i].mtIndex <= i - 1
    <3>1. ASSUME NEW i \in Leaves', i # new
          PROVE  reputationCommitments'[i].mtIndex <= i - 1
      BY <1>1, <3>1 DEF RecordInv, IndexNotAhead
    <3> QED BY <1>1, <1>4, <3>1
  <2>2. \A k \in erasedIndices' : k < FirstFree'
    <3>1. \A k \in erasedIndices' : k \in Nat /\ k < FirstFree
      BY <1>5, LandProveType DEF RecordInv, IndexNotAhead, TypeOK
    <3> QED BY <1>1, <3>1
  <2> QED BY <2>1, <2>2 DEF IndexNotAhead, Leaf
<1> HIDE DEF r
<1>7. StoredRecorded' /\ DecisionBacked'
  <2>1. privateState' = privateState /\ decision' = decision
    BY DEF LandProve
  <2> QED BY <1>2, <2>1 DEF RecordInv, StoredRecorded, Recorded, DecisionBacked
<1>8. CallsRecorded'
  <2>1. /\ \A other \in CallIds : other # id => calls'[other] = calls[other]
        /\ calls'[id] # NoCall => calls'[id] = [calls[id] EXCEPT !.status = "finalized"]
    BY FinalizedCalls DEF LandProve
  <2>2. ASSUME NEW other \in CallIds, other # id, calls'[other] \in ProveCalls
        PROVE  ProveRecorded(other)'
    <3>1. calls'[other] = calls[other] /\ ProveRecorded(other)
      BY <2>1, <2>2 DEF RecordInv, CallsRecorded
    <3>2. calls[other].reputation.mtIndex \in Nat
      BY <2>2, <3>1 DEF ProveCalls, ReputationScores
    <3> QED BY <1>1, <1>2, <3>1, <3>2 DEF ProveRecorded, Recorded
  <2>3. ASSUME NEW other \in CallIds, other # id, calls'[other] \in CheckCalls
        PROVE  CheckRecorded(other)'
    <3>1. calls'[other] = calls[other] /\ CheckRecorded(other)
      BY <2>1, <2>3 DEF RecordInv, CallsRecorded
    <3> QED BY <1>2, <3>1 DEF CheckRecorded, Recorded
  <2>4. ASSUME calls'[id] \in ProveCalls \cup CheckCalls
        PROVE  calls'[id] \in ProveCalls /\ calls'[id] \notin CheckCalls
               /\ ProveRecorded(id)'
    <3>1. calls'[id] # NoCall
      BY <2>4, CallKinds
    <3>2. /\ calls'[id].circuit = calls[id].circuit
          /\ calls'[id].reputation = r
          /\ calls'[id].existing = calls[id].existing
          /\ calls'[id].nextPrivateState = calls[id].nextPrivateState
      BY <1>1, <2>1, <3>1 DEF ProveCalls, r
    <3>3. calls'[id] \in ProveCalls /\ calls'[id] \notin CheckCalls
      BY <1>1, <2>4, <3>2, CallKinds
    <3>4. ProveRecorded(id)'
      BY <1>1, <1>2, <1>3, <1>4, <3>2 DEF ProveRecorded, Recorded, r
    <3> QED BY <3>3, <3>4
  <2> QED BY <2>2, <2>3, <2>4 DEF CallsRecorded
<1> QED
  BY <1>6, <1>7, <1>8 DEF RecordInv

LEMMA LandCheckRecorded ==
    ASSUME TypeOK, RecordInv, NEW id \in CallIds, LandCheck(id)
    PROVE  RecordInv'
<1>1. calls[id] \in CheckCalls
  BY DEF LandCheck, InFlight, TypeOK, ProveCalls
<1>2. /\ \A other \in CallIds : other # id => calls'[other] = calls[other]
      /\ calls'[id] # NoCall => calls'[id] = [calls[id] EXCEPT !.status = "finalized"]
  BY FinalizedCalls DEF LandCheck
<1>3. Committed' = Committed /\ IndexNotAhead' /\ StoredRecorded'
  BY RecordFrame DEF LandCheck
<1>4. CheckRecorded(id)
  BY <1>1 DEF RecordInv, CallsRecorded
<1>5. DecisionBacked'
  BY <1>3, <1>4 DEF LandCheck, DecisionBacked, CheckRecorded, Recorded
<1>6. ASSUME calls'[id] \in ProveCalls \cup CheckCalls
      PROVE  calls'[id] \notin ProveCalls /\ CheckRecorded(id)'
  <2>1. calls'[id] # NoCall
    BY <1>6, CallKinds
  <2>2. /\ calls'[id].circuit = calls[id].circuit
        /\ calls'[id].veilIdHash = calls[id].veilIdHash
        /\ calls'[id].existing = calls[id].existing
        /\ calls'[id].nextPrivateState = calls[id].nextPrivateState
    BY <1>1, <1>2, <2>1 DEF CheckCalls
  <2>3. calls'[id] \notin ProveCalls
    BY <1>1, <2>2, CallKinds
  <2> QED BY <1>3, <1>4, <2>2, <2>3 DEF CheckRecorded, Recorded
<1>7. CallsRecorded'
  <2>1. \A other \in CallIds : other # id =>
           /\ calls'[other] \in ProveCalls => ProveRecorded(other)'
           /\ calls'[other] \in CheckCalls => CheckRecorded(other)'
    BY <1>2, RecordFrame DEF LandCheck
  <2> QED BY <1>6, <2>1 DEF CallsRecorded
<1> QED
  BY <1>3, <1>5, <1>7 DEF RecordInv

\* Clearing call slots, and orphaning what is in them, forgets nothing.
LEMMA CallsCleared ==
    ASSUME TypeOK, RecordInv, UNCHANGED reputationVars,
           \A id \in CallIds : \/ calls'[id] = calls[id]
                               \/ calls'[id] = NoCall
                               \/ /\ calls[id] # NoCall
                                  /\ calls'[id] = [calls[id] EXCEPT !.status = "orphaned"]
    PROVE  CallsRecorded'
<1> SUFFICES ASSUME NEW id \in CallIds
             PROVE  /\ calls'[id] \in ProveCalls => ProveRecorded(id)'
                    /\ calls'[id] \in CheckCalls => CheckRecorded(id)'
  BY DEF CallsRecorded
<1>1. Committed' = Committed /\ FirstFree' = FirstFree
  BY RecordFrame
<1>2. CASE calls'[id] = calls[id]
  BY <1>2, RecordFrame
<1>3. CASE calls'[id] = NoCall
  BY <1>3, CallKinds
<1>4. CASE calls[id] # NoCall /\ calls'[id] = [calls[id] EXCEPT !.status = "orphaned"]
  <2>1. CASE calls[id] \in ProveCalls
    <3>1. /\ calls'[id].circuit = calls[id].circuit
          /\ calls'[id].status = "orphaned"
          /\ calls'[id].reputation = calls[id].reputation
          /\ calls'[id].existing = calls[id].existing
          /\ calls'[id].nextPrivateState = calls[id].nextPrivateState
      BY <1>4, <2>1 DEF ProveCalls
    <3>2. calls'[id] \notin CheckCalls
      BY <2>1, <3>1, CallKinds
    <3>3. ProveRecorded(id)
      BY <2>1 DEF RecordInv, CallsRecorded
    <3> QED BY <1>1, <3>1, <3>2, <3>3 DEF ProveRecorded, Recorded
  <2>2. CASE calls[id] \in CheckCalls
    <3>1. /\ calls'[id].circuit = calls[id].circuit
          /\ calls'[id].veilIdHash = calls[id].veilIdHash
          /\ calls'[id].existing = calls[id].existing
          /\ calls'[id].nextPrivateState = calls[id].nextPrivateState
      BY <1>4, <2>2 DEF CheckCalls
    <3>2. calls'[id] \notin ProveCalls
      BY <2>2, <3>1, CallKinds
    <3>3. CheckRecorded(id)
      BY <2>2 DEF RecordInv, CallsRecorded
    <3> QED BY <1>1, <3>1, <3>2, <3>3 DEF CheckRecorded, Recorded
  <2> QED BY <1>4, <2>1, <2>2 DEF TypeOK
<1> QED
  BY <1>2, <1>3, <1>4

LEMMA StoreRecorded ==
    ASSUME TypeOK, RecordInv, NEW id \in CallIds, StorePrivateState(id)
    PROVE  RecordInv'
<1> DEFINE c == calls[id].client
           next == calls[id].nextPrivateState
<1>1. calls[id] \in ProveCalls \cup CheckCalls /\ c \in Clients
  BY DEF StorePrivateState, TypeOK, ProveCalls, CheckCalls
<1>2. /\ Committed' = Committed
      /\ IndexNotAhead' /\ DecisionBacked'
  BY RecordFrame DEF StorePrivateState
<1>3. \A u \in VeilIds : next[u] # NoReputation => Recorded(next[u], u)
  <2>1. CASE calls[id] \in ProveCalls
    BY <2>1
    DEF RecordInv, CallsRecorded, ProveRecorded, StorePrivateState, Recorded
  <2>2. CASE calls[id] \in CheckCalls
    BY <2>2 DEF RecordInv, CallsRecorded, CheckRecorded
  <2> QED BY <1>1, <2>1, <2>2
<1>4. \A d \in Clients : privateState'[d] = IF d = c THEN next ELSE privateState[d]
  BY DEF StorePrivateState, TypeOK
<1> HIDE DEF c, next
<1>5. StoredRecorded'
  BY <1>2, <1>3, <1>4 DEF RecordInv, StoredRecorded, Recorded
<1>6. CallsRecorded'
  <2>1. \A other \in CallIds : calls'[other] = calls[other] \/ calls'[other] = NoCall
    BY DEF StorePrivateState, TypeOK
  <2> QED BY <2>1, CallsCleared DEF StorePrivateState
<1> QED
  BY <1>2, <1>5, <1>6 DEF RecordInv

LEMMA RecordStep ==
    ASSUME TypeOK, RecordInv, [Next]_vars
    PROVE  RecordInv'
<1>1. ASSUME UNCHANGED <<reputationVars, privateState, calls, decision>>
      PROVE  RecordInv'
  BY <1>1, RecordFrame, CallsCleared DEF RecordInv
<1>2. CASE IdentityStep \/ GovernanceStep \/ Tick \/ UNCHANGED vars
  <2>1. CASE IdentityStep
    BY <1>1, <2>1 DEF IdentityStep, Register, clientVars
  <2>2. CASE GovernanceStep
    <3>1. UNCHANGED <<reputationVars, clientVars>>
      BY <2>2
      DEF GovernanceStep, ApplyScoreConfig, CancelScoreConfig, ProposeScoreConfig,
          AddSupportedChainNamespace, AddSupportedReaderPolicy
    <3> QED BY <1>1, <3>1 DEF clientVars
  <2>3. CASE Tick \/ UNCHANGED vars
    BY <1>1, <2>3 DEF Tick, vars, clientVars
  <2> QED BY <1>2, <2>1, <2>2, <2>3
<1>3. ASSUME NEW id \in CallIds, Discard(id)
      PROVE  RecordInv'
  <2>1. \A other \in CallIds : calls'[other] = calls[other] \/ calls'[other] = NoCall
    BY <1>3 DEF Discard, TypeOK
  <2>2. CallsRecorded'
    BY <1>3, <2>1, CallsCleared DEF Discard
  <2> QED BY <1>3, <2>2, RecordFrame DEF Discard, RecordInv
<1>4. ASSUME NEW c \in Clients, Close(c)
      PROVE  RecordInv'
  <2>1. CallsRecorded'
    BY <1>4, CallsCleared DEF Close
  <2> QED BY <1>4, <2>1, RecordFrame DEF Close, RecordInv
<1>5. ASSUME NEW c \in Clients, JoinFresh(c)
      PROVE  RecordInv'
  <2>1. CallsRecorded' /\ Committed' = Committed /\ IndexNotAhead' /\ DecisionBacked'
    BY <1>5, CallsCleared, RecordFrame DEF JoinFresh
  <2>2. \A d \in Clients, v \in VeilIds :
            privateState'[d][v] = IF d = c THEN NoReputation ELSE privateState[d][v]
    BY <1>5 DEF JoinFresh, TypeOK
  <2>3. StoredRecorded'
    BY <2>1, <2>2 DEF RecordInv, StoredRecorded, Recorded
  <2> QED BY <2>1, <2>3 DEF RecordInv
<1>6. CASE ReputationStep
  BY <1>3, <1>6, ProveCallRecorded, CheckCallRecorded, LandProveRecorded,
     LandCheckRecorded, StoreRecorded DEF ReputationStep
<1>7. CASE Volatility
  BY <1>4, <1>5, <1>7, LedgerAssumption DEF Volatility
<1> QED
  BY <1>2, <1>6, <1>7 DEF Next

THEOREM RecordsCommitted == Spec => []RecordInv
<1>1. Init => RecordInv
  <2> SUFFICES ASSUME Init PROVE RecordInv
    OBVIOUS
  <2>1. StoredRecorded /\ DecisionBacked
    BY DEF Init, StoredRecorded, DecisionBacked
  <2>2. CallsRecorded
    BY CallKinds DEF Init, CallsRecorded
  <2>3. IndexNotAhead
    BY DEF Init, IndexNotAhead, Leaves
  <2> QED BY <2>1, <2>2, <2>3 DEF RecordInv
<1> QED
  BY <1>1, RecordStep, TypeCorrect, PTL DEF Spec

\* A client stores only records that landed, each under its own identity
\* (witness.ts:59-76 and the private state the provider keeps).
THEOREM StoredStateLanded == Spec => []PrivateStateLanded
<1>1. RecordInv => PrivateStateLanded
  BY DEF RecordInv, StoredRecorded, Recorded, PrivateStateLanded
<1> QED
  BY <1>1, RecordsCommitted, PTL

\* insertIndexDefault never writes a free slot of the reputation tree
\* (Utils.compact:254-256, with the index of witness.ts:91-96).
THEOREM IndexNeverAhead == Spec => []IndexNotAhead
<1>1. RecordInv => IndexNotAhead
  BY DEF RecordInv
<1> QED
  BY <1>1, RecordsCommitted, PTL

\* A decision always reports a band some record of that identity was committed
\* with (Reputation.compact:134-166).
THEOREM DecisionsBacked == Spec => []DecisionBacked
<1>1. RecordInv => DecisionBacked
  BY DEF RecordInv
<1> QED
  BY <1>1, RecordsCommitted, PTL

-----------------------------------------------------------------------------
(***************************************************************************)
(* Erasure.  While every record names its own leaf, the leaf an update     *)
(* erases is the one its existing record, of the same identity, landed at. *)
(***************************************************************************)
LEMMA SupersededStep ==
    ASSUME TypeOK, RecordInv, ErasedIsSuperseded, [Next]_vars
    PROVE  ErasedIsSuperseded'
<1>1. CASE UNCHANGED reputationVars
  BY <1>1 DEF ErasedIsSuperseded, NoOverlap, Leaves, Leaf, reputationVars
<1>2. ASSUME NEW id \in CallIds, LandProve(id), NoOverlap', NEW k \in erasedIndices'
      PROVE  (\E j \in Leaves : j > k + 1 /\ Leaf(j).veilIdHash = Leaf(k + 1).veilIdHash)'
  <2> DEFINE r == calls[id].reputation
             new == FirstFree + 1
  <2>1. /\ calls[id] \in ProveCalls
        /\ FirstFree \in Nat
        /\ Leaves = 1 .. FirstFree
        /\ Leaves' = 1 .. new
        /\ \A i \in Leaves : reputationCommitments'[i] = Leaf(i)
        /\ reputationCommitments'[new] = r
    BY <1>2, LandProveAppends
  <2> HIDE DEF r
  <2>2. Leaves \subseteq Leaves'
    BY <2>1
  <2>3. NoOverlap
    BY <1>2, <2>1, <2>2 DEF NoOverlap, Leaf
  <2>4. CASE k \in erasedIndices
    <3>1. PICK j \in Leaves : j > k + 1 /\ Leaf(j).veilIdHash = Leaf(k + 1).veilIdHash
      BY <2>3, <2>4 DEF ErasedIsSuperseded
    <3>2. k \in Nat /\ j \in 1 .. FirstFree
      BY <2>1, <2>4 DEF TypeOK
    <3>3. k + 1 \in Leaves
      BY <2>1, <3>1, <3>2
    <3> QED BY <2>1, <2>2, <3>1, <3>3 DEF Leaf
  <2>5. CASE k \notin erasedIndices
    <3>1. calls[id].existing # NoReputation /\ k = calls[id].existing.mtIndex
      BY <1>2, <2>5 DEF LandProve
    <3>2. Recorded(calls[id].existing, r.veilIdHash)
      BY <2>1, <3>1 DEF RecordInv, CallsRecorded, ProveRecorded, r
    <3>3. PICK i \in Leaves : Leaf(i) = calls[id].existing
      BY <3>2 DEF Recorded, Committed
    <3>4. k = i - 1 /\ i \in 1 .. FirstFree
      BY <2>1, <2>3, <3>1, <3>3 DEF NoOverlap
    <3>5. k + 1 = i /\ new > k + 1 /\ new \in Leaves'
      BY <2>1, <3>4
    <3>6. reputationCommitments'[i].veilIdHash = r.veilIdHash
      BY <2>1, <3>2, <3>3 DEF Recorded
    <3> QED BY <2>1, <3>5, <3>6 DEF Leaf
  <2> QED BY <2>4, <2>5
<1>3. ASSUME NEW id \in CallIds, LandProve(id)
      PROVE  ErasedIsSuperseded'
  BY <1>2, <1>3 DEF ErasedIsSuperseded
<1> QED
  BY <1>1, <1>3, OnlyLandProveCommits

\* Without overlapping updates, an erased leaf was superseded by a later leaf of
\* the same identity (Reputation.compact:97-129).
THEOREM ErasureSupersedes == Spec => []ErasedIsSuperseded
<1>1. Init => ErasedIsSuperseded
  BY DEF Init, ErasedIsSuperseded
<1> QED
  BY <1>1, SupersededStep, TypeCorrect, RecordsCommitted, PTL DEF Spec

-----------------------------------------------------------------------------
(***************************************************************************)
(* Governance.                                                             *)
(***************************************************************************)
DelayInv ==
    hasPendingScoreConfig =>
        pendingScoreConfig.executableAtEpoch + ProofWindow >= proposalBlock + ConfigTimelock

ConfigInv == ConfigsValid /\ DelayInv

LEMMA ConfigFrame ==
    ASSUME ConfigInv, UNCHANGED configVars
    PROVE  ConfigInv'
BY DEF ConfigInv, ConfigsValid, DelayInv, configVars, ScoreConfigValid

LEMMA ConfigStep ==
    ASSUME TypeOK, ConfigInv, [Next]_vars
    PROVE  /\ ConfigInv'
           /\ scoreConfig' # scoreConfig
                => blockTime + ProofWindow >= proposalBlock + ConfigTimelock
<1>1. ASSUME UNCHANGED configVars
      PROVE  ConfigInv' /\ scoreConfig' = scoreConfig
  BY <1>1, ConfigFrame DEF configVars
<1>2. CASE ApplyScoreConfig
  <2>1. ConfigInv'
    BY <1>2 DEF ApplyScoreConfig, ConfigInv, ConfigsValid, DelayInv, ScoreConfigValid
  <2>2. /\ pendingScoreConfig.executableAtEpoch \in Nat
        /\ blockTime \in Nat /\ proposalBlock \in Nat
    BY DEF TypeOK, PendingScoreConfigs, Epochs
  <2>3. blockTime + ProofWindow >= proposalBlock + ConfigTimelock
    BY <1>2, <2>2 DEF ApplyScoreConfig, ConfigInv, DelayInv
  <2> QED BY <2>1, <2>3
<1>3. ASSUME NEW op, NEW bundle, NEW nonce, CancelScoreConfig(op, bundle, nonce)
      PROVE  ConfigInv' /\ scoreConfig' = scoreConfig
  BY <1>3 DEF CancelScoreConfig, ConfigInv, ConfigsValid, DelayInv, ScoreConfigValid
<1>4. ASSUME NEW config, NEW op, NEW bundle, NEW nonce, NEW t \in ClockReadings,
             ProposeScoreConfig(config, op, bundle, nonce, t)
      PROVE  ConfigInv' /\ scoreConfig' = scoreConfig
  <2>1. blockTime <= t + ProofWindow /\ blockTime \in Nat /\ t \in Nat
    BY <1>4 DEF ProposeScoreConfig, TimeVerified, TypeOK, ClockReadings
  <2>2. /\ pendingScoreConfig'.executableAtEpoch = t + ConfigTimelock
        /\ pendingScoreConfig'.config = config
        /\ proposalBlock' = blockTime
        /\ scoreConfig' = scoreConfig
        /\ ScoreConfigValid(config)
    BY <1>4 DEF ProposeScoreConfig
  <2>3. DelayInv'
    BY <2>1, <2>2 DEF DelayInv
  <2>4. ConfigsValid'
    BY <2>2 DEF ConfigsValid, ConfigInv, ScoreConfigValid
  <2> QED BY <2>2, <2>3, <2>4 DEF ConfigInv
<1>5. CASE GovernanceStep
  BY <1>1, <1>2, <1>3, <1>4, <1>5
  DEF GovernanceStep, AddSupportedChainNamespace, AddSupportedReaderPolicy
<1>6. CASE IdentityStep \/ Volatility \/ Tick \/ UNCHANGED vars
  <2>1. CASE IdentityStep
    BY <1>1, <2>1 DEF IdentityStep, Register
  <2>2. CASE Volatility
    BY <1>1, <2>2 DEF Volatility, Close, JoinFresh
  <2>3. CASE Tick \/ UNCHANGED vars
    BY <1>1, <2>3 DEF Tick, vars
  <2> QED BY <1>6, <2>1, <2>2, <2>3
<1>7. CASE ReputationStep
  BY <1>1, <1>7
  DEF ReputationStep, ProveCall, CheckCall, LandProve, LandCheck, Discard, StorePrivateState
<1> QED
  BY <1>5, <1>6, <1>7 DEF Next

LEMMA ConfigInvariant == Spec => []ConfigInv
<1>1. Init => ConfigInv
  BY DEF Init, ConfigInv, ConfigsValid, DelayInv, ScoreConfigValid
<1> QED
  BY <1>1, ConfigStep, TypeCorrect, PTL DEF Spec

\* No config with unordered thresholds is ever pending or in force
\* (Governance.compact, assertScoreConfigValid in Utils.compact:180-186).
THEOREM ConfigsAlwaysValid == Spec => []ConfigsValid
<1>1. ConfigInv => ConfigsValid
  BY DEF ConfigInv
<1> QED
  BY <1>1, ConfigInvariant, PTL

\* For every timelock and every clock skew the window admits, a config comes into
\* force at most one proof window short of its timelock (Governance.compact:60, 72-79).
THEOREM TimelockLessWindow == Spec => DelayLessWindow
<1>1. ASSUME TypeOK, ConfigInv, [Next]_vars
      PROVE  [scoreConfig' # scoreConfig
                => blockTime + ProofWindow >= proposalBlock + ConfigTimelock]_vars
  BY <1>1, ConfigStep
<1> QED
  BY <1>1, ConfigInvariant, TypeCorrect, PTL DEF Spec, DelayLessWindow

-----------------------------------------------------------------------------
(***************************************************************************)
(* Checks.  A check reads its record from the tree it is proved against;   *)
(* the tree changes only by growing.                                       *)
(***************************************************************************)
FreshInv ==
    \A id \in CallIds :
        calls[id] \in CheckCalls =>
            /\ calls[id].firstFree <= FirstFree
            /\ calls[id].firstFree = FirstFree =>
                  \E i \in Leaves : i - 1 \notin erasedIndices /\ Leaf(i) = calls[id].existing

\* A step that leaves the tree alone and creates no check call.
LEMMA FreshFrame ==
    ASSUME FreshInv, UNCHANGED reputationVars,
           \A id \in CallIds : calls'[id] \in CheckCalls =>
               /\ calls[id] \in CheckCalls
               /\ calls'[id].firstFree = calls[id].firstFree
               /\ calls'[id].existing = calls[id].existing
    PROVE  FreshInv'
<1>1. /\ FirstFree' = FirstFree
      /\ Leaves' = Leaves
      /\ erasedIndices' = erasedIndices
      /\ reputationCommitments' = reputationCommitments
  BY DEF reputationVars, FirstFree, Leaves
<1> QED
  BY <1>1 DEF FreshInv, Leaf

LEMMA FreshStep ==
    ASSUME TypeOK, FreshInv, [Next]_vars
    PROVE  FreshInv'
<1> DEFINE Kept(id) == calls'[id] \in CheckCalls =>
                          /\ calls[id] \in CheckCalls
                          /\ calls'[id].firstFree = calls[id].firstFree
                          /\ calls'[id].existing = calls[id].existing
<1>1. ASSUME UNCHANGED reputationVars, calls' = calls
      PROVE  FreshInv'
  BY <1>1, FreshFrame
<1>2. CASE IdentityStep \/ GovernanceStep \/ Tick \/ UNCHANGED vars
  <2>1. CASE IdentityStep
    BY <1>1, <2>1 DEF IdentityStep, Register, clientVars
  <2>2. CASE GovernanceStep
    <3>1. UNCHANGED <<reputationVars, clientVars>>
      BY <2>2
      DEF GovernanceStep, ApplyScoreConfig, CancelScoreConfig, ProposeScoreConfig,
          AddSupportedChainNamespace, AddSupportedReaderPolicy
    <3> QED BY <1>1, <3>1 DEF clientVars
  <2>3. CASE Tick \/ UNCHANGED vars
    BY <1>1, <2>3 DEF Tick, vars, clientVars
  <2> QED BY <1>2, <2>1, <2>2, <2>3
<1>3. ASSUME NEW id \in CallIds, NEW c \in Clients, NEW v \in VeilIds,
             NEW w \in WitnessCommitments, NEW nonce \in ProofNonces,
             NEW t \in ClockReadings, ProveCall(id, c, v, w, nonce, t)
      PROVE  FreshInv'
  <2>1. calls'[id].circuit = "prove" /\ \A other \in CallIds : other # id => calls'[other] = calls[other]
    BY <1>3 DEF ProveCall, TypeOK
  <2>2. \A other \in CallIds : Kept(other)
    BY <2>1 DEF CheckCalls
  <2> QED BY <1>3, <2>2, FreshFrame DEF ProveCall
<1>4. ASSUME NEW id \in CallIds, NEW c \in Clients, NEW v \in VeilIds,
             NEW requester \in Requesters, NEW minimumBand \in MinimumBands,
             NEW t \in ClockReadings, CheckCall(id, c, v, requester, minimumBand, t)
      PROVE  FreshInv'
  <2>1. /\ calls'[id].firstFree = FirstFree
        /\ calls'[id].existing = privateState[c][v]
        /\ \A other \in CallIds : other # id => calls'[other] = calls[other]
        /\ HasPath(privateState[c][v])
        /\ UNCHANGED reputationVars
    BY <1>4 DEF CheckCall, TypeOK
  <2>2. /\ FirstFree' = FirstFree
        /\ Leaves' = Leaves
        /\ Leaves = 1 .. FirstFree
        /\ erasedIndices' = erasedIndices
        /\ reputationCommitments' = reputationCommitments
        /\ FirstFree \in Nat
    BY <2>1, LenProperties DEF reputationVars, FirstFree, Leaves, TypeOK
  <2>3. \E i \in Leaves : i - 1 \notin erasedIndices /\ Leaf(i) = privateState[c][v]
    BY <2>1, <2>2 DEF HasPath, Leaf
  <2> QED BY <2>1, <2>2, <2>3 DEF FreshInv, Leaf
<1>5. ASSUME NEW id \in CallIds, LandProve(id)
      PROVE  FreshInv'
  <2>1. /\ FirstFree \in Nat
        /\ FirstFree' = FirstFree + 1
        /\ calls[id] \in ProveCalls
    BY <1>5, LandProveAppends
  <2>2. /\ \A other \in CallIds : other # id => calls'[other] = calls[other]
        /\ calls'[id] # NoCall => calls'[id] = [calls[id] EXCEPT !.status = "finalized"]
    BY <1>5, FinalizedCalls DEF LandProve
  <2>3. calls'[id] \notin CheckCalls
    BY <2>1, <2>2, CallKinds DEF ProveCalls
  <2>4. ASSUME NEW other \in CallIds, calls'[other] \in CheckCalls
        PROVE  calls'[other].firstFree \in Nat /\ calls'[other].firstFree <= FirstFree
    BY <2>2, <2>3, <2>4 DEF FreshInv, CheckCalls
  <2> QED BY <2>1, <2>4 DEF FreshInv
<1>6. ASSUME NEW id \in CallIds, LandCheck(id)
      PROVE  FreshInv'
  <2>1. /\ \A other \in CallIds : other # id => calls'[other] = calls[other]
        /\ calls'[id] # NoCall => calls'[id] = [calls[id] EXCEPT !.status = "finalized"]
    BY <1>6, FinalizedCalls DEF LandCheck
  <2>2. calls[id] \in CheckCalls
    BY <1>6 DEF LandCheck, InFlight, TypeOK, ProveCalls
  <2>3. \A other \in CallIds : Kept(other)
    BY <2>1, <2>2, CallKinds DEF CheckCalls
  <2> QED BY <1>6, <2>3, FreshFrame DEF LandCheck
<1>7. ASSUME NEW id \in CallIds, Discard(id) \/ StorePrivateState(id)
      PROVE  FreshInv'
  <2>1. \A other \in CallIds : calls'[other] = calls[other] \/ calls'[other] = NoCall
    BY <1>7 DEF Discard, StorePrivateState, TypeOK
  <2>2. \A other \in CallIds : Kept(other)
    BY <2>1, CallKinds
  <2> QED BY <1>7, <2>2, FreshFrame DEF Discard, StorePrivateState
<1>8. ASSUME NEW c \in Clients, Close(c) \/ JoinFresh(c)
      PROVE  FreshInv'
  <2>1. ASSUME NEW id \in CallIds, calls[id] # NoCall,
               calls'[id] = [calls[id] EXCEPT !.status = "orphaned"]
        PROVE  Kept(id)
    <3>1. calls[id] \in ProveCalls \cup CheckCalls
      BY <2>1 DEF TypeOK
    <3>2. calls'[id].circuit = calls[id].circuit
      BY <2>1, <3>1 DEF ProveCalls, CheckCalls
    <3> QED BY <2>1, <3>1, <3>2, CallKinds DEF CheckCalls
  <2>2. \A id \in CallIds : Kept(id)
    BY <1>8, <2>1, CallKinds DEF Close, JoinFresh
  <2> QED BY <1>8, <2>2, FreshFrame DEF Close, JoinFresh
<1>9. CASE ReputationStep
  BY <1>3, <1>4, <1>5, <1>6, <1>7, <1>9 DEF ReputationStep
<1>10. CASE Volatility
  BY <1>8, <1>10, LedgerAssumption DEF Volatility
<1> QED
  BY <1>2, <1>9, <1>10 DEF Next

\* A check answers from a live leaf unless an update landed after it was proved
\* (Reputation.compact:134-166, witness.ts:78-89).
THEOREM ChecksFresh == Spec => []CheckFresh
<1>1. Init => FreshInv
  BY CallKinds DEF Init, FreshInv
<1>2. TypeOK /\ FreshInv => CheckFresh
  BY CallKinds DEF TypeOK, FreshInv, CheckFresh, InFlight, Live
<1> QED
  BY <1>1, <1>2, FreshStep, TypeCorrect, PTL DEF Spec

-----------------------------------------------------------------------------
(***************************************************************************)
(* Bands.                                                                  *)
(***************************************************************************)

\* Under a valid config the band is the number of thresholds the score reaches.
LEMMA BandCountsThresholds ==
    ASSUME NEW config \in ScoreConfigs, ScoreConfigValid(config), NEW score \in Nat
    PROVE  DeriveBand(config, score) =
             Cardinality({th \in { config.bronzeThreshold, config.silverThreshold,
                                   config.goldThreshold, config.platinumThreshold } :
                          th <= score})
<1> DEFINE b == config.bronzeThreshold
           s == config.silverThreshold
           g == config.goldThreshold
           p == config.platinumThreshold
           reached == {th \in {b, s, g, p} : th <= score}
<1>1. b \in Nat /\ s \in Nat /\ g \in Nat /\ p \in Nat /\ b < s /\ s < g /\ g < p
  BY DEF ScoreConfigs, Uint32, ScoreConfigValid
<1>2. DeriveBand(config, score) = IF score >= p THEN 4 ELSE IF score >= g THEN 3
                                  ELSE IF score >= s THEN 2 ELSE IF score >= b THEN 1 ELSE 0
  BY DEF DeriveBand
<1> HIDE DEF b, s, g, p
<1> DEFINE E == {}
           B == E \cup {b}
           S == B \cup {s}
           G == S \cup {g}
           P == G \cup {p}
<1>3. b \notin E /\ s \notin B /\ g \notin S /\ p \notin G
  BY <1>1
<1>4. IsFiniteSet(B) /\ Cardinality(B) = 1
  <2>1. IsFiniteSet(E) /\ Cardinality(E) = 0
    BY FS_EmptySet
  <2> HIDE DEF E
  <2> QED BY <1>3, <2>1, FS_AddElement
<1> HIDE DEF B
<1>5. IsFiniteSet(S) /\ Cardinality(S) = 2
  BY <1>3, <1>4, FS_AddElement, SMTT(20)
<1> HIDE DEF S
<1>6. IsFiniteSet(G) /\ Cardinality(G) = 3
  BY <1>3, <1>5, FS_AddElement, SMTT(20)
<1> HIDE DEF G
<1>7. IsFiniteSet(P) /\ Cardinality(P) = 4
  BY <1>3, <1>6, FS_AddElement, SMTT(20)
<1> HIDE DEF P
<1>8. /\ score >= p => reached = P
      /\ ~(score >= p) /\ score >= g => reached = G
      /\ ~(score >= g) /\ score >= s => reached = S
      /\ ~(score >= s) /\ score >= b => reached = B
      /\ ~(score >= b) => reached = {}
  <2>1. CASE score >= p
    BY <1>1, <2>1 DEF E, B, S, G, P
  <2>2. CASE ~(score >= p) /\ score >= g
    BY <1>1, <2>2 DEF E, B, S, G
  <2>3. CASE ~(score >= g) /\ score >= s
    BY <1>1, <2>3 DEF E, B, S
  <2>4. CASE ~(score >= s) /\ score >= b
    BY <1>1, <2>4 DEF E, B
  <2>5. CASE ~(score >= b)
    BY <1>1, <2>5
  <2> QED BY <1>1, <2>1, <2>2, <2>3, <2>4, <2>5
<1>9. DeriveBand(config, score) = Cardinality(reached)
  <2> HIDE DEF reached
  <2> QED BY <1>1, <1>2, <1>4, <1>5, <1>6, <1>7, <1>8, FS_EmptySet
<1> QED
  BY <1>9 DEF reached, b, s, g, p

Earned(r) ==
    LET config == r.proofHash.scoreConfig
        score  == UnclampedScore(config, r.proofHash.witnessCommitment.signals)
    IN  /\ ScoreConfigValid(config)
        /\ r.score = score
        /\ score <= config.maxScore
        /\ r.band = DeriveBand(config, score)

EarnedInv ==
    /\ \A r \in Committed : Earned(r)
    /\ \A id \in CallIds : calls[id] \in ProveCalls => Earned(calls[id].reputation)

LEMMA EarnedBands ==
    ASSUME TypeOK, EarnedInv
    PROVE  BandEarned
<1> SUFFICES ASSUME NEW i \in Leaves
             PROVE  LET r == Leaf(i)
                        config == r.proofHash.scoreConfig
                    IN  /\ r.score = UnclampedScore(config, r.proofHash.witnessCommitment.signals)
                        /\ r.score <= config.maxScore
                        /\ r.band = Cardinality({th \in { config.bronzeThreshold,
                                        config.silverThreshold, config.goldThreshold,
                                        config.platinumThreshold } : th <= r.score})
  BY DEF BandEarned
<1>1. Leaf(i) \in ReputationScores
  BY DEF TypeOK, Leaves, Leaf
<1>2. Leaf(i).proofHash.scoreConfig \in ScoreConfigs /\ Leaf(i).score \in Nat
  BY <1>1 DEF ReputationScores, ReputationProofs, Uint32
<1>3. Earned(Leaf(i))
  BY DEF EarnedInv, Committed
<1> QED
  BY <1>2, <1>3, BandCountsThresholds DEF Earned

\* Steps that neither commit a record nor propose one.
LEMMA EarnedFrame ==
    ASSUME EarnedInv, UNCHANGED reputationVars,
           \A id \in CallIds : calls'[id] \in ProveCalls =>
               calls[id] \in ProveCalls /\ calls'[id].reputation = calls[id].reputation
    PROVE  EarnedInv'
<1>1. Committed' = Committed
  BY DEF Committed, Leaves, Leaf, reputationVars
<1> QED
  BY <1>1 DEF EarnedInv

LEMMA EarnedStep ==
    ASSUME TypeOK, ConfigsValid, EarnedInv, [Next]_vars
    PROVE  EarnedInv'
<1> DEFINE Kept(id) == calls'[id] \in ProveCalls =>
               calls[id] \in ProveCalls /\ calls'[id].reputation = calls[id].reputation
<1>1. ASSUME UNCHANGED reputationVars, calls' = calls
      PROVE  EarnedInv'
  BY <1>1, EarnedFrame
<1>2. CASE IdentityStep \/ GovernanceStep \/ Tick \/ UNCHANGED vars
  <2>1. CASE IdentityStep
    BY <1>1, <2>1 DEF IdentityStep, Register, clientVars
  <2>2. CASE GovernanceStep
    <3>1. UNCHANGED <<reputationVars, clientVars>>
      BY <2>2
      DEF GovernanceStep, ApplyScoreConfig, CancelScoreConfig, ProposeScoreConfig,
          AddSupportedChainNamespace, AddSupportedReaderPolicy
    <3> QED BY <1>1, <3>1 DEF clientVars
  <2>3. CASE Tick \/ UNCHANGED vars
    BY <1>1, <2>3 DEF Tick, vars, clientVars
  <2> QED BY <1>2, <2>1, <2>2, <2>3
<1>3. ASSUME NEW id \in CallIds, NEW c \in Clients, NEW v \in VeilIds,
             NEW w \in WitnessCommitments, NEW nonce \in ProofNonces,
             NEW t \in ClockReadings, ProveCall(id, c, v, w, nonce, t)
      PROVE  EarnedInv'
  <2>1. /\ calls'[id].reputation = NewReputation(v, w, nonce, t)
        /\ ScoreAccepted(scoreConfig, w.signals)
        /\ \A other \in CallIds : other # id => calls'[other] = calls[other]
    BY <1>3 DEF ProveCall, ProveAsserts, TypeOK
  <2>2. Earned(NewReputation(v, w, nonce, t))
    BY <2>1 DEF Earned, NewReputation, ConfigsValid, ScoreAccepted
  <2>3. Committed' = Committed
    BY <1>3 DEF ProveCall, Committed, Leaves, Leaf, reputationVars
  <2> QED BY <2>1, <2>2, <2>3 DEF EarnedInv
<1>4. ASSUME NEW id \in CallIds, NEW c \in Clients, NEW v \in VeilIds,
             NEW requester \in Requesters, NEW minimumBand \in MinimumBands,
             NEW t \in ClockReadings, CheckCall(id, c, v, requester, minimumBand, t)
      PROVE  EarnedInv'
  <2>1. calls'[id].circuit = "check" /\ \A other \in CallIds : other # id => calls'[other] = calls[other]
    BY <1>4 DEF CheckCall, TypeOK
  <2>2. \A other \in CallIds : Kept(other)
    BY <2>1 DEF ProveCalls
  <2> QED BY <1>4, <2>2, EarnedFrame DEF CheckCall
<1>5. ASSUME NEW id \in CallIds, LandProve(id)
      PROVE  EarnedInv'
  <2>1. /\ calls[id] \in ProveCalls
        /\ \A i \in Leaves : reputationCommitments'[i] = Leaf(i)
        /\ reputationCommitments'[FirstFree + 1] = calls[id].reputation
        /\ Leaves' = Leaves \cup {FirstFree + 1}
    BY <1>5, LandProveAppends
  <2>2. Committed' = Committed \cup {calls[id].reputation}
    BY <2>1 DEF Committed, Leaf
  <2>3. /\ \A other \in CallIds : other # id => calls'[other] = calls[other]
        /\ calls'[id] # NoCall => calls'[id] = [calls[id] EXCEPT !.status = "finalized"]
    BY <1>5, FinalizedCalls DEF LandProve
  <2>4. \A other \in CallIds : Kept(other)
    BY <2>1, <2>3, CallKinds DEF ProveCalls
  <2> QED BY <2>1, <2>2, <2>4 DEF EarnedInv
<1>6. ASSUME NEW id \in CallIds, LandCheck(id)
      PROVE  EarnedInv'
  <2>1. /\ \A other \in CallIds : other # id => calls'[other] = calls[other]
        /\ calls'[id] # NoCall => calls'[id] = [calls[id] EXCEPT !.status = "finalized"]
    BY <1>6, FinalizedCalls DEF LandCheck
  <2>2. calls[id] \in CheckCalls
    BY <1>6 DEF LandCheck, InFlight, TypeOK, ProveCalls
  <2>3. \A other \in CallIds : Kept(other)
    BY <2>1, <2>2, CallKinds DEF CheckCalls
  <2> QED BY <1>6, <2>3, EarnedFrame DEF LandCheck
<1>7. ASSUME NEW id \in CallIds, Discard(id) \/ StorePrivateState(id)
      PROVE  EarnedInv'
  <2>1. \A other \in CallIds : calls'[other] = calls[other] \/ calls'[other] = NoCall
    BY <1>7 DEF Discard, StorePrivateState, TypeOK
  <2>2. \A other \in CallIds : Kept(other)
    BY <2>1, CallKinds
  <2> QED BY <1>7, <2>2, EarnedFrame DEF Discard, StorePrivateState
<1>8. ASSUME NEW c \in Clients, Close(c) \/ JoinFresh(c)
      PROVE  EarnedInv'
  <2>1. ASSUME NEW id \in CallIds, calls[id] # NoCall,
               calls'[id] = [calls[id] EXCEPT !.status = "orphaned"]
        PROVE  Kept(id)
    <3>1. calls[id] \in ProveCalls \cup CheckCalls
      BY <2>1 DEF TypeOK
    <3>2. calls'[id].circuit = calls[id].circuit
      BY <2>1, <3>1 DEF ProveCalls, CheckCalls
    <3> QED BY <2>1, <3>1, <3>2, CallKinds DEF ProveCalls
  <2>2. \A id \in CallIds : Kept(id)
    BY <1>8, <2>1, CallKinds DEF Close, JoinFresh
  <2> QED BY <1>8, <2>2, EarnedFrame DEF Close, JoinFresh
<1>9. CASE ReputationStep
  BY <1>3, <1>4, <1>5, <1>6, <1>7, <1>9 DEF ReputationStep
<1>10. CASE Volatility
  BY <1>8, <1>10, LedgerAssumption DEF Volatility
<1> QED
  BY <1>2, <1>9, <1>10 DEF Next

\* Every committed record has the score its own signals earn under a valid config
\* and the band that counts the thresholds reached (Reputation.compact:44-54,
\* Utils.compact:212-229).
THEOREM BandsEarned == Spec => []BandEarned
<1>1. Init => EarnedInv
  BY CallKinds DEF Init, EarnedInv, Committed, Leaves
<1> QED
  BY <1>1, EarnedStep, EarnedBands, ConfigsAlwaysValid, TypeCorrect, PTL DEF Spec


-----------------------------------------------------------------------------
(***************************************************************************)
(* The replay set's accounts.  Each operation adds keys that were not in   *)
(* the set, at most one of a tag, so counting the keys of a tag counts the *)
(* operations.                                                             *)
(***************************************************************************)
Tagged(keys, tag) == {k \in keys : k[1] = tag}

AccountInv ==
    /\ ReplayAccounting
    /\ IsFiniteSet(processedProofs)
    /\ IsFiniteSet(RegisteredIds)

\* A fresh key is one more of its tag; keys of other tags do not count.
LEMMA OneMoreTagged ==
    ASSUME NEW keys, IsFiniteSet(keys), NEW tag, NEW key, key \notin keys, key[1] = tag,
           NEW grown, keys \subseteq grown, key \in grown,
           \A k \in grown : k[1] = tag => k \in keys \/ k = key
    PROVE  Cardinality(Tagged(grown, tag)) = Cardinality(Tagged(keys, tag)) + 1
<1>1. IsFiniteSet(Tagged(keys, tag))
  BY FS_Subset, Tagged(keys, tag) \subseteq keys DEF Tagged
<1>2. Tagged(grown, tag) = Tagged(keys, tag) \cup {key}
  BY DEF Tagged
<1>3. key \notin Tagged(keys, tag)
  BY DEF Tagged
<1> QED
  BY <1>1, <1>2, <1>3, FS_AddElement

\* The accounts balance after a step that touches none of them.
LEMMA AccountFrame ==
    ASSUME AccountInv, UNCHANGED <<identityVars, reputationCommitments, processedProofs>>
    PROVE  AccountInv'
BY DEF AccountInv, ReplayAccounting, RegisteredIds, KeysTagged, FirstFree, identityVars

LEMMA RegisterAccounted ==
    ASSUME TypeOK, AccountInv, NEW v \in VeilIds, NEW ns \in ChainNamespaces,
           NEW key \in KeyCommitments, NEW sig \in WalletSignatures,
           NEW t \in ClockReadings, Register(v, ns, key, sig, t)
    PROVE  AccountInv'
<1> DEFINE proof  == [ veilIdHash |-> v, chainNamespace |-> ns,
                       keyCommitment |-> key, walletSignatureHash |-> sig ]
           record == [ chainProofHash |-> proof, version |-> 1, status |-> 1,
                       createdAtEpoch |-> t, updatedAtEpoch |-> t ]
           new    == RegisterKey(v, proof)
<1>1. /\ new \notin processedProofs
      /\ processedProofs' = processedProofs \cup {new}
      /\ identityRecords' = [identityRecords EXCEPT ![v] = record]
      /\ identityCommitments' = Append(identityCommitments, record)
      /\ identityRecords[v] = NoIdentity
      /\ FirstFree' = FirstFree
  BY DEF Register, Registered, reputationVars, FirstFree
<1>2. new[1] = "register"
  BY DEF RegisterKey
<1>3. record \in VeilIdentityRecords
  BY DEF VeilIdentityRecords, IdentityProofs, ClockReadings, Epochs
<1> HIDE DEF new, record
<1>4. Len(identityCommitments') = Len(identityCommitments) + 1
  BY <1>1, <1>3 DEF TypeOK
<1>5. /\ RegisteredIds' = RegisteredIds \cup {v}
      /\ v \notin RegisteredIds
  BY <1>1, <1>3 DEF RegisteredIds, TypeOK
<1>6. /\ IsFiniteSet(RegisteredIds')
      /\ Cardinality(RegisteredIds') = Cardinality(RegisteredIds) + 1
  BY <1>5, FS_AddElement DEF AccountInv
<1>7. IsFiniteSet(processedProofs')
  BY <1>1, FS_AddElement DEF AccountInv
<1>8. Cardinality(Tagged(processedProofs', "register"))
        = Cardinality(Tagged(processedProofs, "register")) + 1
  <2>1. /\ \A k \in processedProofs' : k \in processedProofs \/ k = new
        /\ processedProofs \subseteq processedProofs'
        /\ new \in processedProofs'
    BY <1>1
  <2>2. IsFiniteSet(processedProofs) /\ new \notin processedProofs
    BY <1>1 DEF AccountInv
  <2> QED BY <1>2, <2>1, <2>2, OneMoreTagged
<1>9. \A tag : tag # "register" =>
         Tagged(processedProofs', tag) = Tagged(processedProofs, tag)
  BY <1>1, <1>2 DEF Tagged
<1> QED
  BY <1>1, <1>4, <1>6, <1>7, <1>8, <1>9
  DEF AccountInv, ReplayAccounting, RegisteredIds, KeysTagged, Tagged

LEMMA ConsumeAccounted ==
    ASSUME TypeOK, AccountInv, NEW op, NEW bundle, NEW nonce,
           ConsumeOperation(op, bundle, nonce),
           UNCHANGED <<identityVars, reputationCommitments>>
    PROVE  AccountInv'
<1> DEFINE ok == OperationKey(op)
           nk == GovernanceNonceKey(nonce)
<1>1. /\ ok \notin processedProofs
      /\ nk \notin processedProofs
      /\ processedProofs' = processedProofs \cup {ok} \cup {nk}
  BY DEF ConsumeOperation
<1>2. ok[1] = "operation" /\ nk[1] = "governanceNonce"
  BY DEF OperationKey, GovernanceNonceKey
<1> HIDE DEF ok, nk
<1>3. IsFiniteSet(processedProofs')
  <2>1. IsFiniteSet(processedProofs \cup {ok})
    BY FS_AddElement DEF AccountInv
  <2> QED BY <1>1, <2>1, FS_AddElement
<1>4. Cardinality(Tagged(processedProofs', "operation"))
        = Cardinality(Tagged(processedProofs, "operation")) + 1
  <2>1. \A k \in processedProofs' : k[1] = "operation" => k \in processedProofs \/ k = ok
    BY <1>1, <1>2
  <2>2. processedProofs \subseteq processedProofs' /\ ok \in processedProofs'
    BY <1>1
  <2>3. IsFiniteSet(processedProofs) /\ ok \notin processedProofs
    BY <1>1 DEF AccountInv
  <2> QED BY <1>2, <2>1, <2>2, <2>3, OneMoreTagged
<1>5. Cardinality(Tagged(processedProofs', "governanceNonce"))
        = Cardinality(Tagged(processedProofs, "governanceNonce")) + 1
  <2>1. \A k \in processedProofs' : k[1] = "governanceNonce" => k \in processedProofs \/ k = nk
    BY <1>1, <1>2
  <2>2. processedProofs \subseteq processedProofs' /\ nk \in processedProofs'
    BY <1>1
  <2>3. IsFiniteSet(processedProofs) /\ nk \notin processedProofs
    BY <1>1 DEF AccountInv
  <2> QED BY <1>2, <2>1, <2>2, <2>3, OneMoreTagged
<1>6. \A tag : tag \notin {"operation", "governanceNonce"} =>
         Tagged(processedProofs', tag) = Tagged(processedProofs, tag)
  BY <1>1, <1>2 DEF Tagged
<1> QED
  BY <1>3, <1>4, <1>5, <1>6
  DEF AccountInv, ReplayAccounting, RegisteredIds, KeysTagged, Tagged, FirstFree, identityVars

LEMMA LandProveAccounted ==
    ASSUME TypeOK, AccountInv, NEW id \in CallIds, LandProve(id)
    PROVE  AccountInv'
<1> DEFINE r  == calls[id].reputation
           nk == NonceKey(r.veilIdHash, r.proofHash.proofNonce)
           pk == ProofKey(r.veilIdHash, r.proofHash)
<1>1. /\ nk \notin processedProofs
      /\ pk \notin processedProofs
      /\ processedProofs' = processedProofs \cup {nk} \cup {pk}
      /\ UNCHANGED identityVars
  BY DEF LandProve, ProveAsserts
<1>2. nk[1] = "nonce" /\ pk[1] = "proof"
  BY DEF NonceKey, ProofKey
<1>3. FirstFree' = FirstFree + 1
  BY LandProveAppends
<1> HIDE DEF nk, pk
<1>4. IsFiniteSet(processedProofs')
  <2>1. IsFiniteSet(processedProofs \cup {nk})
    BY FS_AddElement DEF AccountInv
  <2> QED BY <1>1, <2>1, FS_AddElement
<1>5. Cardinality(Tagged(processedProofs', "nonce"))
        = Cardinality(Tagged(processedProofs, "nonce")) + 1
  <2>1. \A k \in processedProofs' : k[1] = "nonce" => k \in processedProofs \/ k = nk
    BY <1>1, <1>2
  <2>2. processedProofs \subseteq processedProofs' /\ nk \in processedProofs'
    BY <1>1
  <2>3. IsFiniteSet(processedProofs) /\ nk \notin processedProofs
    BY <1>1 DEF AccountInv
  <2> QED BY <1>2, <2>1, <2>2, <2>3, OneMoreTagged
<1>6. Cardinality(Tagged(processedProofs', "proof"))
        = Cardinality(Tagged(processedProofs, "proof")) + 1
  <2>1. \A k \in processedProofs' : k[1] = "proof" => k \in processedProofs \/ k = pk
    BY <1>1, <1>2
  <2>2. processedProofs \subseteq processedProofs' /\ pk \in processedProofs'
    BY <1>1
  <2>3. IsFiniteSet(processedProofs) /\ pk \notin processedProofs
    BY <1>1 DEF AccountInv
  <2> QED BY <1>2, <2>1, <2>2, <2>3, OneMoreTagged
<1>7. \A tag : tag \notin {"nonce", "proof"} =>
         Tagged(processedProofs', tag) = Tagged(processedProofs, tag)
  BY <1>1, <1>2 DEF Tagged
<1>8. /\ RegisteredIds' = RegisteredIds
      /\ identityCommitments' = identityCommitments
  BY <1>1 DEF RegisteredIds, identityVars
<1> QED
  BY <1>3, <1>4, <1>5, <1>6, <1>7, <1>8
  DEF AccountInv, ReplayAccounting, KeysTagged, Tagged

LEMMA AccountStep ==
    ASSUME TypeOK, AccountInv, [Next]_vars
    PROVE  AccountInv'
<1>1. CASE IdentityStep
  BY <1>1, RegisterAccounted DEF IdentityStep
<1>2. CASE GovernanceStep
  <2>1. CASE ApplyScoreConfig
    BY <2>1, AccountFrame DEF ApplyScoreConfig, reputationVars
  <2>2. ASSUME NEW op \in OperationIds, NEW bundle \in SignatureBundles,
               NEW nonce \in GovernanceNonces,
               \/ CancelScoreConfig(op, bundle, nonce)
               \/ \E t \in ClockReadings :
                     \/ \E config \in ProposedConfigs :
                           ProposeScoreConfig(config, op, bundle, nonce, t)
                     \/ \E ns \in ChainNamespaces :
                           AddSupportedChainNamespace(ns, op, bundle, nonce, t)
                     \/ \E rp \in ReaderPolicies :
                           AddSupportedReaderPolicy(rp, op, bundle, nonce, t)
        PROVE  AccountInv'
    <3>1. /\ ConsumeOperation(op, bundle, nonce)
          /\ UNCHANGED <<identityVars, reputationCommitments>>
      BY <2>2
      DEF CancelScoreConfig, ProposeScoreConfig, AddSupportedChainNamespace,
          AddSupportedReaderPolicy, reputationVars
    <3> QED BY <3>1, ConsumeAccounted
  <2> QED BY <1>2, <2>1, <2>2 DEF GovernanceStep
<1>3. CASE ReputationStep
  <2>1. ASSUME ~ \E id \in CallIds : LandProve(id)
        PROVE  UNCHANGED <<identityVars, reputationCommitments, processedProofs>>
    BY <1>3, <2>1
    DEF ReputationStep, ProveCall, CheckCall, LandCheck, Discard, StorePrivateState,
        reputationVars
  <2> QED BY <1>3, <2>1, AccountFrame, LandProveAccounted
<1>4. CASE Volatility \/ Tick \/ UNCHANGED vars
  BY <1>4, AccountFrame DEF Volatility, Close, JoinFresh, Tick, vars, reputationVars
<1> QED
  BY <1>1, <1>2, <1>3, <1>4 DEF Next

\* The replay set holds exactly one register key for each identity, one nonce key
\* and one proof key for each reputation update, and as many governance nonces as
\* operations (Identity.compact:60, Reputation.compact:79-95, Governance.compact):
\* no circuit ever uses a key that another call of it could use again.
THEOREM ReplayAccounted == Spec => []ReplayAccounting
<1>1. Init => AccountInv
  <2> SUFFICES ASSUME Init PROVE AccountInv
    OBVIOUS
  <2>1. /\ RegisteredIds = {}
        /\ \A tag : KeysTagged(tag) = {}
        /\ processedProofs = {}
        /\ Len(identityCommitments) = 0
        /\ FirstFree = 0
    BY DEF Init, RegisteredIds, KeysTagged, FirstFree
  <2> QED BY <2>1, FS_EmptySet DEF AccountInv, ReplayAccounting, RegisteredIds
<1>2. AccountInv => ReplayAccounting
  BY DEF AccountInv
<1> QED
  BY <1>1, <1>2, AccountStep, TypeCorrect, PTL DEF Spec

-----------------------------------------------------------------------------
(***************************************************************************)
(* One client that makes one call at a time and is never closed.  While    *)
(* its update is landed and not stored yet, the record an identity has is  *)
(* the one that landed, not the one in the private state: the invariant is *)
(* about that current record.                                              *)
(***************************************************************************)
Solo(c, k) == Clients = {c} /\ CallIds = {k} /\ VolatileClients = {}

Landed(k, v) ==
    /\ calls[k] \in ProveCalls
    /\ calls[k].status = "finalized"
    /\ calls[k].reputation.veilIdHash = v

Current(c, k, v) == IF Landed(k, v) THEN calls[k].reputation ELSE privateState[c][v]

\* The record an identity has is a live leaf ...
CurrentLive(c, k) ==
    \A v \in VeilIds : Current(c, k, v) # NoReputation =>
        /\ Current(c, k, v).veilIdHash = v
        /\ HasPath(Current(c, k, v))

\* ... and a leaf that is live is the record its identity has.
LiveCurrent(c, k) ==
    \A i \in Leaves : Live(i) => Leaf(i) = Current(c, k, Leaf(i).veilIdHash)

\* What the call was executed on is still so when it lands.
SoloCall(c, k) ==
    /\ calls[k] \in ProveCalls =>
          LET v == calls[k].reputation.veilIdHash
          IN  /\ calls[k].client = c
              /\ calls[k].status # "orphaned"
              /\ calls[k].nextPrivateState = [privateState[c] EXCEPT ![v] = calls[k].reputation]
              /\ calls[k].status = "submitted" =>
                    /\ calls[k].reputation.mtIndex = FirstFree
                    /\ calls[k].existing = privateState[c][v]
    /\ calls[k] \in CheckCalls =>
          /\ calls[k].client = c
          /\ calls[k].status # "orphaned"
          /\ calls[k].nextPrivateState = privateState[c]
          /\ calls[k].status = "submitted" => calls[k].existing = privateState[c][calls[k].veilIdHash]

SoloInv(c, k) ==
    /\ CurrentLive(c, k)
    /\ LiveCurrent(c, k)
    /\ NoOverlap
    /\ SoloCall(c, k)

LEMMA LeafTypes ==
    ASSUME TypeOK, NEW i \in Leaves
    PROVE  i \in Nat /\ Leaf(i) \in ReputationScores /\ Leaf(i).veilIdHash \in VeilIds
<1>1. reputationCommitments \in Seq(ReputationScores)
  BY DEF TypeOK
<1>2. i \in Nat /\ Leaf(i) \in ReputationScores
  BY <1>1, LenProperties, ElementOfSeq DEF Leaves, Leaf
<1> QED
  BY <1>2 DEF ReputationScores

\* A step that leaves the tree and every current record alone.
LEMMA SoloFrame ==
    ASSUME NEW c, NEW k, SoloInv(c, k), TypeOK, UNCHANGED reputationVars,
           \A v \in VeilIds : Current(c, k, v)' = Current(c, k, v),
           SoloCall(c, k)'
    PROVE  SoloInv(c, k)'
<1>1. /\ FirstFree' = FirstFree
      /\ Leaves' = Leaves
      /\ erasedIndices' = erasedIndices
      /\ reputationCommitments' = reputationCommitments
      /\ \A r : HasPath(r)' = HasPath(r)
  BY DEF reputationVars, FirstFree, Leaves, HasPath
<1>2. \A i \in Leaves : Leaf(i).veilIdHash \in VeilIds
  BY LeafTypes
<1>3. CurrentLive(c, k)'
  <2> SUFFICES ASSUME NEW v \in VeilIds, Current(c, k, v)' # NoReputation
               PROVE  Current(c, k, v)'.veilIdHash = v /\ HasPath(Current(c, k, v))'
    BY DEF CurrentLive
  <2>1. PICK now : now = Current(c, k, v)
    OBVIOUS
  <2>2. Current(c, k, v)' = now
    BY <2>1
  <2>3. now.veilIdHash = v /\ HasPath(now)
    BY <2>1, <2>2 DEF SoloInv, CurrentLive
  <2> QED BY <1>1, <2>2, <2>3 DEF HasPath
<1>4. LiveCurrent(c, k)' /\ NoOverlap'
  BY <1>1, <1>2 DEF SoloInv, LiveCurrent, NoOverlap, Leaf, Live
<1> QED
  BY <1>3, <1>4 DEF SoloInv

\* The update that lands becomes the record of its identity; the others keep theirs.
SoloLands(c, k) ==
    LET r == calls[k].reputation
        v == r.veilIdHash
    IN  /\ calls[k].existing = privateState[c][v]
        /\ r.mtIndex = FirstFree
        /\ calls'[k] \in ProveCalls
        /\ calls'[k].status = "finalized"
        /\ calls'[k].client = c
        /\ calls'[k].reputation = r
        /\ calls'[k].nextPrivateState = [privateState[c] EXCEPT ![v] = r]
        /\ privateState' = privateState
        /\ \A u \in VeilIds : Current(c, k, u) = privateState[c][u]
        /\ \A u \in VeilIds : Current(c, k, u)' = IF u = v THEN r ELSE privateState[c][u]

LEMMA SoloLanding ==
    ASSUME NEW c, NEW k, Solo(c, k), TypeOK, SoloInv(c, k), LandProve(k)
    PROVE  SoloLands(c, k)
<1> DEFINE r == calls[k].reputation
           v == r.veilIdHash
<1>1. calls[k] \in ProveCalls
  BY LandProveAppends DEF Solo
<1>2. /\ calls[k].status = "submitted"
      /\ calls[k].client = c
      /\ r.mtIndex = FirstFree
      /\ calls[k].existing = privateState[c][v]
      /\ calls[k].nextPrivateState = [privateState[c] EXCEPT ![v] = r]
  BY <1>1 DEF LandProve, InFlight, SoloInv, SoloCall
<1>3. privateState' = privateState
  BY DEF LandProve
<1>4. calls'[k] = [calls[k] EXCEPT !.status = "finalized"]
  BY <1>2 DEF LandProve, Finalized, TypeOK, Solo
<1>5. /\ calls'[k] \in ProveCalls
      /\ calls'[k].status = "finalized"
      /\ calls'[k].client = c
      /\ calls'[k].reputation = r
      /\ calls'[k].nextPrivateState = calls[k].nextPrivateState
  BY <1>1, <1>2, <1>4 DEF ProveCalls, CallStatuses
<1>6. /\ \A u \in VeilIds : Current(c, k, u)' = IF u = v THEN r ELSE privateState[c][u]
      /\ \A u \in VeilIds : Current(c, k, u) = privateState[c][u]
  BY <1>2, <1>3, <1>5 DEF Current, Landed
<1> QED
  BY <1>2, <1>3, <1>5, <1>6 DEF SoloLands

\* The update that lands takes the place of the record its identity had.
LEMMA SoloLandProve ==
    ASSUME NEW c, NEW k, Solo(c, k), TypeOK, IndexNotAhead, SoloInv(c, k), LandProve(k)
    PROVE  SoloInv(c, k)'
<1> DEFINE r   == calls[k].reputation
           v   == r.veilIdHash
           old == privateState[c][v]
           new == FirstFree + 1
<1>1. /\ calls[k] \in ProveCalls
      /\ r \in ReputationScores
      /\ FirstFree \in Nat
      /\ FirstFree' = new
      /\ Leaves = 1 .. FirstFree
      /\ Leaves' = 1 .. new
      /\ \A i \in Leaves : reputationCommitments'[i] = Leaf(i)
      /\ reputationCommitments'[new] = r
  BY LandProveAppends DEF Solo
<1>2. v \in VeilIds /\ r.veilIdHash = v /\ r # NoReputation
  BY <1>1 DEF ReputationScores
<1>3. /\ calls[k].existing = old
      /\ r.mtIndex = FirstFree
      /\ calls'[k] \in ProveCalls
      /\ calls'[k].status = "finalized"
      /\ calls'[k].client = c
      /\ calls'[k].reputation = r
      /\ calls'[k].nextPrivateState = [privateState[c] EXCEPT ![v] = r]
      /\ privateState' = privateState
      /\ \A u \in VeilIds : Current(c, k, u) = privateState[c][u]
      /\ \A u \in VeilIds : Current(c, k, u)' = IF u = v THEN r ELSE privateState[c][u]
  <2>1. SoloLands(c, k)
    BY SoloLanding
  <2> QED BY <2>1 DEF SoloLands
<1>4. /\ privateState' = privateState
      /\ erasedIndices' = IF old = NoReputation THEN erasedIndices
                          ELSE erasedIndices \cup {old.mtIndex}
  BY <1>3 DEF LandProve
<1>8. /\ \A i \in Leaves : Leaf(i) \in ReputationScores
      /\ \A i \in Leaves : Leaf(i).mtIndex = i - 1
      /\ \A i \in Leaves : i - 1 \notin erasedIndices =>
            Leaf(i) = privateState[c][Leaf(i).veilIdHash]
      /\ \A u \in VeilIds : privateState[c][u] # NoReputation =>
            /\ privateState[c][u].veilIdHash = u
            /\ \E i \in Leaves : i - 1 \notin erasedIndices /\ Leaf(i) = privateState[c][u]
  <2>1. \A i \in Leaves : Leaf(i) \in ReputationScores
    BY LeafTypes
  <2>2. \A i \in Leaves : Leaf(i).veilIdHash \in VeilIds
    BY LeafTypes
  <2>3. \A i \in Leaves : i - 1 \notin erasedIndices =>
            Leaf(i) = privateState[c][Leaf(i).veilIdHash]
    BY <1>3, <2>2 DEF SoloInv, LiveCurrent, Live
  <2>4. ASSUME NEW u \in VeilIds, privateState[c][u] # NoReputation
        PROVE  /\ privateState[c][u].veilIdHash = u
               /\ \E i \in Leaves : i - 1 \notin erasedIndices /\ Leaf(i) = privateState[c][u]
    BY <1>1, <1>3, <2>4 DEF SoloInv, CurrentLive, HasPath, Leaf
  <2> QED BY <2>1, <2>3, <2>4 DEF SoloInv, NoOverlap
<1> HIDE DEF r, v
<1>9. old # NoReputation =>
         /\ old.mtIndex \in 0 .. (FirstFree - 1)
         /\ Leaf(old.mtIndex + 1) = old
         /\ old.veilIdHash = v
  <2> SUFFICES ASSUME old # NoReputation
               PROVE  /\ old.mtIndex \in 0 .. (FirstFree - 1)
                      /\ Leaf(old.mtIndex + 1) = old
                      /\ old.veilIdHash = v
    OBVIOUS
  <2>1. PICK i \in Leaves : Leaf(i) = old
    BY <1>2, <1>8
  <2>2. old.mtIndex = i - 1
    BY <1>8, <2>1
  <2> QED BY <1>1, <1>2, <1>8, <2>1, <2>2
<1> HIDE DEF old
<1>10. /\ FirstFree \notin erasedIndices'
       /\ \A i \in Leaves : i - 1 \notin erasedIndices' <=>
             i - 1 \notin erasedIndices /\ (old # NoReputation => i - 1 # old.mtIndex)
  <2>1. \A n \in erasedIndices : n \in Nat /\ n < FirstFree
    BY DEF IndexNotAhead, TypeOK
  <2> QED BY <1>1, <1>4, <1>9, <2>1
<1>11. CurrentLive(c, k)'
  <2> SUFFICES ASSUME NEW u \in VeilIds, Current(c, k, u)' # NoReputation
               PROVE  Current(c, k, u)'.veilIdHash = u /\ HasPath(Current(c, k, u))'
    BY DEF CurrentLive
  <2>1. PICK now : now = Current(c, k, u)'
    OBVIOUS
  <2>2. \E i \in Leaves' : i - 1 \notin erasedIndices' /\ reputationCommitments'[i] = now
    <3>1. CASE u = v
      <4>1. now = r
        BY <1>3, <2>1, <3>1
      <4>2. new \in Leaves' /\ new - 1 \notin erasedIndices'
        BY <1>1, <1>10
      <4>3. reputationCommitments'[new] = now
        BY <1>1, <4>1
      <4> HIDE DEF new
      <4> QED BY <4>2, <4>3
    <3>2. CASE u # v
      <4>1. now = privateState[c][u]
        BY <1>3, <2>1, <3>2
      <4>2. PICK i \in Leaves : i - 1 \notin erasedIndices /\ Leaf(i) = now
        BY <1>8, <2>1, <4>1
      <4>3. Leaf(i).veilIdHash = u
        BY <1>8, <2>1, <4>1, <4>2
      <4>4. old # NoReputation => i - 1 # old.mtIndex
        BY <1>1, <1>9, <3>2, <4>3
      <4> QED BY <1>1, <1>10, <4>2, <4>4
    <3> QED BY <3>1, <3>2
  <2>3. now.veilIdHash = u
    <3>1. CASE u = v
      BY <1>2, <1>3, <2>1, <3>1
    <3>2. CASE u # v
      BY <1>3, <1>8, <2>1, <3>2
    <3> QED BY <3>1, <3>2
  <2> QED BY <1>1, <2>1, <2>2, <2>3 DEF HasPath
<1>12. LiveCurrent(c, k)'
  <2> SUFFICES ASSUME NEW i \in Leaves', i - 1 \notin erasedIndices'
               PROVE  Leaf(i)' = Current(c, k, Leaf(i).veilIdHash)'
    BY DEF LiveCurrent, Live
  <2>1. CASE i = new
    <3>1. Leaf(i)' = r
      BY <1>1, <2>1 DEF Leaf
    <3> QED BY <1>2, <1>3, <3>1 DEF Current, Landed
  <2>2. CASE i # new
    <3>1. i \in Leaves /\ Leaf(i)' = Leaf(i)
      BY <1>1, <2>2 DEF Leaf
    <3>2. PICK u \in VeilIds : u = Leaf(i).veilIdHash
      BY <3>1, LeafTypes
    <3>3. Leaf(i) = privateState[c][u] /\ Leaf(i) # NoReputation
      BY <1>8, <1>10, <3>1, <3>2
    <3>4. u # v
      <4> SUFFICES ASSUME u = v PROVE FALSE
        OBVIOUS
      <4>1. Leaf(i) = old /\ old # NoReputation
        BY <3>3 DEF old
      <4>2. i - 1 # old.mtIndex
        BY <1>10, <3>1, <4>1
      <4> QED BY <1>8, <3>1, <4>1, <4>2
    <3>5. Current(c, k, u)' = Leaf(i)
      BY <1>3, <3>3, <3>4
    <3> QED BY <3>1, <3>2, <3>5 DEF Current, Landed
  <2> QED BY <2>1, <2>2
<1>13. NoOverlap'
  BY <1>1, <1>3, <1>8 DEF NoOverlap, Leaf
<1>14. SoloCall(c, k)'
  BY <1>3, <1>4, <1>3, CallKinds DEF SoloCall, v
<1> QED
  BY <1>11, <1>12, <1>13, <1>14 DEF SoloInv

LEMMA SoloStep ==
    ASSUME NEW c, NEW k, Solo(c, k), TypeOK, IndexNotAhead, SoloInv(c, k), [Next]_vars
    PROVE  SoloInv(c, k)'
<1>1. ASSUME UNCHANGED <<reputationVars, privateState, calls>>
      PROVE  SoloInv(c, k)'
  <2>1. SoloCall(c, k)'
    BY <1>1 DEF SoloInv, SoloCall, FirstFree, reputationVars
  <2>2. \A v \in VeilIds : Current(c, k, v)' = Current(c, k, v)
    BY <1>1 DEF Current, Landed
  <2> QED BY <1>1, <2>1, <2>2, SoloFrame
<1>2. CASE IdentityStep \/ GovernanceStep \/ Tick \/ UNCHANGED vars
  <2>1. CASE IdentityStep
    BY <1>1, <2>1 DEF IdentityStep, Register, clientVars
  <2>2. CASE GovernanceStep
    <3>1. UNCHANGED <<reputationVars, clientVars>>
      BY <2>2
      DEF GovernanceStep, ApplyScoreConfig, CancelScoreConfig, ProposeScoreConfig,
          AddSupportedChainNamespace, AddSupportedReaderPolicy
    <3> QED BY <1>1, <3>1 DEF clientVars
  <2>3. CASE Tick \/ UNCHANGED vars
    BY <1>1, <2>3 DEF Tick, vars, clientVars
  <2> QED BY <1>2, <2>1, <2>2, <2>3
<1>3. ASSUME NEW v \in VeilIds, NEW w \in WitnessCommitments, NEW nonce \in ProofNonces,
             NEW t \in ClockReadings, ProveCall(k, c, v, w, nonce, t)
      PROVE  SoloInv(c, k)'
  <2> DEFINE r == NewReputation(v, w, nonce, t)
  <2>1. r.veilIdHash = v /\ r.mtIndex = FirstFree
    BY DEF NewReputation
  <2> HIDE DEF r
  <2>2. /\ calls[k] = NoCall
        /\ calls'[k] = [ circuit |-> "prove", status |-> "submitted", client |-> c,
                         reputation |-> r, existing |-> privateState[c][v],
                         nextPrivateState |-> [privateState[c] EXCEPT ![v] = r] ]
        /\ UNCHANGED <<reputationVars, privateState>>
    BY <1>3 DEF ProveCall, TypeOK, Solo, r
  <2>3. /\ calls'[k].circuit = "prove"
        /\ calls'[k].status = "submitted"
        /\ FirstFree' = FirstFree
    BY <2>2 DEF reputationVars, FirstFree
  <2>4. SoloCall(c, k)'
    BY <2>1, <2>2, <2>3, CallKinds DEF SoloCall
  <2>5. \A u \in VeilIds : Current(c, k, u)' = Current(c, k, u)
    BY <2>2, <2>3, CallKinds DEF Current, Landed
  <2> QED BY <2>2, <2>4, <2>5, SoloFrame
<1>4. ASSUME NEW v \in VeilIds, NEW requester \in Requesters,
             NEW minimumBand \in MinimumBands, NEW t \in ClockReadings,
             CheckCall(k, c, v, requester, minimumBand, t)
      PROVE  SoloInv(c, k)'
  <2>1. /\ calls[k] = NoCall
        /\ calls'[k].circuit = "check"
        /\ calls'[k].status = "submitted"
        /\ calls'[k].client = c
        /\ calls'[k].nextPrivateState = privateState[c]
        /\ calls'[k].veilIdHash = v
        /\ calls'[k].existing = privateState[c][v]
        /\ UNCHANGED <<reputationVars, privateState>>
    BY <1>4 DEF CheckCall, TypeOK, Solo
  <2>2. SoloCall(c, k)'
    BY <2>1, CallKinds DEF SoloCall
  <2>3. \A u \in VeilIds : Current(c, k, u)' = Current(c, k, u)
    BY <2>1, CallKinds DEF Current, Landed
  <2> QED BY <2>1, <2>2, <2>3, SoloFrame
<1>5. ASSUME LandCheck(k)
      PROVE  SoloInv(c, k)'
  <2>1. calls[k] \in CheckCalls
    BY <1>5 DEF LandCheck, InFlight, TypeOK, ProveCalls, Solo
  <2>2. /\ calls[k].status = "submitted"
        /\ calls[k].client = c
        /\ calls[k].nextPrivateState = privateState[c]
        /\ UNCHANGED <<reputationVars, privateState>>
    BY <1>5, <2>1 DEF LandCheck, InFlight, SoloInv, SoloCall
  <2>3. calls'[k] = [calls[k] EXCEPT !.status = "finalized"]
    BY <1>5, <2>2 DEF LandCheck, Finalized, TypeOK, Solo
  <2>4. /\ calls'[k].circuit = "check"
        /\ calls'[k].status = "finalized"
        /\ calls'[k].client = c
        /\ calls'[k].nextPrivateState = privateState[c]
    BY <2>1, <2>2, <2>3 DEF CheckCalls
  <2>5. SoloCall(c, k)'
    BY <2>2, <2>4, CallKinds DEF SoloCall
  <2>6. \A u \in VeilIds : Current(c, k, u)' = Current(c, k, u)
    BY <2>1, <2>2, <2>4, CallKinds DEF Current, Landed
  <2> QED BY <2>2, <2>5, <2>6, SoloFrame
<1>6. ASSUME Discard(k)
      PROVE  SoloInv(c, k)'
  <2>1. /\ calls'[k] = NoCall
        /\ UNCHANGED <<reputationVars, privateState>>
    BY <1>6 DEF Discard, TypeOK, Solo
  <2>2. ~ (calls[k] \in ProveCalls /\ calls[k].status = "finalized")
    BY <1>6 DEF Discard, InFlight
  <2>3. SoloCall(c, k)'
    BY <2>1, CallKinds DEF SoloCall
  <2>4. \A u \in VeilIds : Current(c, k, u)' = Current(c, k, u)
    BY <2>1, <2>2, CallKinds DEF Current, Landed
  <2> QED BY <2>1, <2>3, <2>4, SoloFrame
<1>7. ASSUME StorePrivateState(k)
      PROVE  SoloInv(c, k)'
  <2>1. /\ calls[k] \in ProveCalls \cup CheckCalls
        /\ calls[k].status = "finalized"
        /\ calls'[k] = NoCall
        /\ UNCHANGED reputationVars
    BY <1>7 DEF StorePrivateState, TypeOK, Solo
  <2>2. calls[k].client = c
    BY <2>1 DEF SoloInv, SoloCall
  <2>3. privateState'[c] = calls[k].nextPrivateState
    BY <1>7, <2>2 DEF StorePrivateState, TypeOK, Solo
  <2>4. SoloCall(c, k)'
    BY <2>1, CallKinds DEF SoloCall
  <2>5. \A u \in VeilIds : Current(c, k, u)' = privateState'[c][u]
    BY <2>1, CallKinds DEF Current, Landed
  <2>6. \A u \in VeilIds : Current(c, k, u) = privateState'[c][u]
    <3>1. CASE calls[k] \in ProveCalls
      <4>1. privateState'[c] =
                [privateState[c] EXCEPT ![calls[k].reputation.veilIdHash] = calls[k].reputation]
        BY <2>3, <3>1 DEF SoloInv, SoloCall
      <4>2. privateState[c] \in VeilPrivateStates
        BY DEF TypeOK, Solo
      <4> QED BY <2>1, <3>1, <4>1, <4>2 DEF Current, Landed, VeilPrivateStates
    <3>2. CASE calls[k] \in CheckCalls
      BY <2>3, <3>2, CallKinds DEF Current, Landed, SoloInv, SoloCall
    <3> QED BY <2>1, <3>1, <3>2
  <2> QED BY <2>1, <2>4, <2>5, <2>6, SoloFrame
<1>8. CASE ReputationStep
  BY <1>3, <1>4, <1>5, <1>6, <1>7, <1>8, SoloLandProve DEF ReputationStep, Solo
<1> QED
  BY <1>2, <1>8 DEF Next, Volatility, Solo

LEMMA SoloInit ==
    ASSUME NEW c, NEW k, Solo(c, k), Init
    PROVE  SoloInv(c, k)
<1>1. /\ calls[k] = NoCall
      /\ Leaves = {}
      /\ \A v \in VeilIds : privateState[c][v] = NoReputation
  BY DEF Init, Solo, Leaves
<1>2. \A v \in VeilIds : Current(c, k, v) = NoReputation
  BY <1>1, CallKinds DEF Current, Landed
<1> QED
  BY <1>1, <1>2, CallKinds DEF SoloInv, CurrentLive, LiveCurrent, NoOverlap, SoloCall

\* A client that makes one call at a time, alone, never loses its reputation:
\* between calls each record it stores is a live leaf, so that the next prove and
\* check find their path (witness.ts:59-89, Reputation.compact:96-110).
THEOREM OwnRecordsLive ==
    ASSUME NEW c, NEW k, Clients = {c}, CallIds = {k}, VolatileClients = {}
    PROVE  Spec => []OwnRecordLive
<1>1. Solo(c, k)
  BY DEF Solo
<1>2. TypeOK /\ SoloInv(c, k) => OwnRecordLive
  BY <1>1, CallKinds
  DEF Solo, SoloInv, CurrentLive, Current, Landed, OwnRecordLive
<1>3. Init => SoloInv(c, k)
  BY <1>1, SoloInit
<1>4. TypeOK /\ IndexNotAhead /\ SoloInv(c, k) /\ [Next]_vars => SoloInv(c, k)'
  BY <1>1, SoloStep
<1> QED
  BY <1>2, <1>3, <1>4, TypeCorrect, IndexNeverAhead, PTL DEF Spec

\* ... and the tree never holds two live leaves of one identity: the update that
\* lands erases the leaf of the record it replaces (Reputation.compact:96-110).
THEOREM LiveLeafUnique ==
    ASSUME NEW c, NEW k, Clients = {c}, CallIds = {k}, VolatileClients = {}
    PROVE  Spec => []OneLiveLeaf
<1>1. Solo(c, k)
  BY DEF Solo
<1>2. TypeOK /\ SoloInv(c, k) => OneLiveLeaf
  <2> SUFFICES ASSUME TypeOK, SoloInv(c, k), NEW i \in Leaves, NEW j \in Leaves,
                      Live(i), Live(j), Leaf(i).veilIdHash = Leaf(j).veilIdHash
               PROVE  i = j
    BY DEF OneLiveLeaf
  <2>1. Leaf(i) = Leaf(j)
    BY DEF SoloInv, LiveCurrent
  <2>2. i - 1 = j - 1
    BY <2>1 DEF SoloInv, NoOverlap
  <2>3. i \in Nat /\ j \in Nat
    BY LeafTypes
  <2> QED BY <2>2, <2>3
<1>3. Init => SoloInv(c, k)
  BY <1>1, SoloInit
<1>4. TypeOK /\ IndexNotAhead /\ SoloInv(c, k) /\ [Next]_vars => SoloInv(c, k)'
  BY <1>1, SoloStep
<1> QED
  BY <1>2, <1>3, <1>4, TypeCorrect, IndexNeverAhead, PTL DEF Spec

-----------------------------------------------------------------------------
(***************************************************************************)
(* The contract as a registry of reputations.  A landing proof is the only *)
(* step the registry sees of an update, and a landing check answers from   *)
(* the record its identity has then.                                       *)
(***************************************************************************)
registryVars == <<RegisteredIds, LiveReputations, SpentNonces, Answer>>

\* What the ledger holds of an identity is the record its client has or will store.
LiveIsCurrent(c, k) == \A v \in VeilIds : LiveReputation(v) = Current(c, k, v)

LEMMA LiveLeafIsCurrent ==
    ASSUME NEW c, NEW k, TypeOK, SoloInv(c, k)
    PROVE  LiveIsCurrent(c, k)
<1> SUFFICES ASSUME NEW v \in VeilIds PROVE LiveReputation(v) = Current(c, k, v)
  BY DEF LiveIsCurrent
<1>1. CASE LiveLeaves(v) = {}
  <2>1. Leaves = 1 .. FirstFree
    BY LenProperties DEF Leaves, FirstFree, TypeOK
  <2>2. ASSUME Current(c, k, v) # NoReputation PROVE FALSE
    <3>1. PICK i \in 1 .. FirstFree : i - 1 \notin erasedIndices
                                      /\ reputationCommitments[i] = Current(c, k, v)
      BY <2>2 DEF SoloInv, CurrentLive, HasPath
    <3>2. Leaf(i).veilIdHash = v
      BY <2>2, <3>1 DEF SoloInv, CurrentLive, Leaf
    <3> QED BY <1>1, <2>1, <3>1, <3>2 DEF LiveLeaves, Live
  <2> QED BY <1>1, <2>2 DEF LiveReputation
<1>2. CASE LiveLeaves(v) # {}
  <2> DEFINE i == CHOOSE j \in LiveLeaves(v) : TRUE
  <2>1. i \in LiveLeaves(v)
    BY <1>2
  <2>2. LiveReputation(v) = Leaf(i)
    BY <1>2 DEF LiveReputation
  <2> HIDE DEF i
  <2> QED BY <2>1, <2>2 DEF LiveLeaves, SoloInv, LiveCurrent
<1> QED
  BY <1>1, <1>2

\* Steps the registry does not see.
LEMMA RegistryFrame ==
    ASSUME UNCHANGED reputationVars
    PROVE  UNCHANGED LiveReputations
BY DEF reputationVars, LiveReputations, LiveReputation, LiveLeaves, Live, Leaf, Leaves

LEMMA SpentFrame ==
    ASSUME KeysTagged("nonce")' = KeysTagged("nonce")
    PROVE  UNCHANGED SpentNonces
BY DEF SpentNonces

LEMMA RegistryUnseen ==
    ASSUME UNCHANGED <<identityVars, reputationVars, processedProofs, decision>>
    PROVE  UNCHANGED registryVars
<1>1. UNCHANGED LiveReputations
  BY RegistryFrame
<1>2. UNCHANGED SpentNonces
  BY SpentFrame DEF KeysTagged
<1> QED
  BY <1>1, <1>2 DEF registryVars, RegisteredIds, Answer, identityVars

LEMMA RegisterRegisters ==
    ASSUME TypeOK, NEW v \in VeilIds, NEW ns \in ChainNamespaces,
           NEW key \in KeyCommitments, NEW sig \in WalletSignatures,
           NEW t \in ClockReadings, Register(v, ns, key, sig, t)
    PROVE  Registry!Register(v)
<1> DEFINE proof  == [ veilIdHash |-> v, chainNamespace |-> ns,
                       keyCommitment |-> key, walletSignatureHash |-> sig ]
           record == [ chainProofHash |-> proof, version |-> 1, status |-> 1,
                       createdAtEpoch |-> t, updatedAtEpoch |-> t ]
<1>1. /\ processedProofs' = processedProofs \cup {RegisterKey(v, proof)}
      /\ identityRecords' = [identityRecords EXCEPT ![v] = record]
      /\ identityRecords[v] = NoIdentity
      /\ decision' = decision
      /\ UNCHANGED reputationVars
  BY DEF Register, Registered, clientVars
<1>2. record \in VeilIdentityRecords
  BY DEF VeilIdentityRecords, IdentityProofs, ClockReadings, Epochs
<1> HIDE DEF record
<1>3. RegisteredIds' = RegisteredIds \cup {v} /\ v \notin RegisteredIds
  BY <1>1, <1>2 DEF RegisteredIds, TypeOK
<1>4. KeysTagged("nonce")' = KeysTagged("nonce")
  BY <1>1 DEF KeysTagged, RegisterKey
<1>5. UNCHANGED <<LiveReputations, SpentNonces, Answer>>
  BY <1>1, <1>4, RegistryFrame, SpentFrame DEF Answer
<1> QED
  BY <1>3, <1>5 DEF Registry!Register

LEMMA GovernanceUnseen ==
    ASSUME GovernanceStep
    PROVE  UNCHANGED registryVars
<1>1. UNCHANGED <<identityVars, reputationVars, decision>>
  BY DEF GovernanceStep, ApplyScoreConfig, CancelScoreConfig, ProposeScoreConfig,
         AddSupportedChainNamespace, AddSupportedReaderPolicy, clientVars
<1>2. \/ processedProofs' = processedProofs
      \/ \E op \in OperationIds, nonce \in GovernanceNonces :
            processedProofs' = processedProofs \cup {OperationKey(op), GovernanceNonceKey(nonce)}
  BY DEF GovernanceStep, ApplyScoreConfig, CancelScoreConfig, ProposeScoreConfig,
         AddSupportedChainNamespace, AddSupportedReaderPolicy, ConsumeOperation
<1>3. KeysTagged("nonce")' = KeysTagged("nonce")
  BY <1>2 DEF KeysTagged, OperationKey, GovernanceNonceKey
<1> QED
  BY <1>1, <1>3, RegistryFrame, SpentFrame
  DEF registryVars, RegisteredIds, Answer, identityVars

\* The nonce of the update was never spent before, and is from now on.
LEMMA LandProveSpends ==
    ASSUME TypeOK, NEW id \in CallIds, LandProve(id), NEW v, NEW nonce,
           v = calls[id].reputation.veilIdHash,
           nonce = calls[id].reputation.proofHash.proofNonce
    PROVE  /\ <<v, nonce>> \notin SpentNonces
           /\ SpentNonces' = SpentNonces \cup {<<v, nonce>>}
<1> DEFINE nk == NonceKey(v, nonce)
           pk == ProofKey(v, calls[id].reputation.proofHash)
<1>1. /\ nk \notin processedProofs
      /\ processedProofs' = processedProofs \cup {nk, pk}
  BY DEF LandProve, ProveAsserts
<1>2. nk = <<"nonce", v, nonce>> /\ pk[1] = "proof"
  BY DEF NonceKey, ProofKey
<1> HIDE DEF nk, pk
<1>3. KeysTagged("nonce")' = KeysTagged("nonce") \cup {nk}
  BY <1>1, <1>2 DEF KeysTagged
<1>4. ASSUME NEW key \in KeysTagged("nonce"), key[2] = v, key[3] = nonce
      PROVE  FALSE
  <2>1. key \in ReplayKeys /\ key[1] = "nonce"
    BY DEF KeysTagged, TypeOK
  <2>2. key \in {"nonce"} \X VeilIds \X ProofNonces
    BY <2>1 DEF ReplayKeys
  <2>3. key = nk
    BY <1>2, <1>4, <2>2
  <2> QED BY <1>1, <2>3 DEF KeysTagged
<1>5. nk[2] = v /\ nk[3] = nonce
  BY <1>2
<1> QED
  BY <1>3, <1>4, <1>5 DEF SpentNonces

LEMMA LandProveUpdates ==
    ASSUME NEW c, NEW k, Solo(c, k), TypeOK, SoloInv(c, k), LandProve(k),
           LiveIsCurrent(c, k), LiveIsCurrent(c, k)'
    PROVE  \E v \in VeilIds : Registry!Update(v)
<1>1. calls[k].reputation \in ReputationScores
  BY LandProveAppends DEF Solo
<1>2. PICK r \in ReputationScores : r = calls[k].reputation
  BY <1>1
<1>3. PICK v \in VeilIds : v = r.veilIdHash
  BY DEF ReputationScores
<1>4. SoloLands(c, k)
  BY SoloLanding
<1>5. \A u \in VeilIds : /\ LiveReputation(u) = privateState[c][u]
                         /\ LiveReputation(u)' = IF u = v THEN r ELSE privateState[c][u]
  BY <1>2, <1>3, <1>4 DEF SoloLands, LiveIsCurrent
<1>6. LiveReputations' = [LiveReputations EXCEPT ![v] = r] /\ LiveReputations'[v] = r
  BY <1>5 DEF LiveReputations
<1>7. v \in RegisteredIds
  BY <1>2, <1>3 DEF LandProve, ProveAsserts, Registered, RegisteredIds
<1>8. UNCHANGED <<RegisteredIds, Answer>>
  BY DEF LandProve, RegisteredIds, Answer, identityVars
<1>9. /\ <<v, r.proofHash.proofNonce>> \notin SpentNonces
      /\ SpentNonces' = SpentNonces \cup {<<v, r.proofHash.proofNonce>>}
  BY <1>2, <1>3, LandProveSpends DEF Solo
<1>10. r # NoReputation
  OBVIOUS
<1> QED
  BY <1>3, <1>6, <1>7, <1>8, <1>9, <1>10 DEF Registry!Update

LEMMA LandCheckAnswers ==
    ASSUME NEW c, NEW k, Solo(c, k), TypeOK, SoloInv(c, k), LandCheck(k),
           LiveIsCurrent(c, k)
    PROVE  \E v \in VeilIds, minimumBand \in Bands : Registry!Check(v, minimumBand)
<1>1. calls[k] \in CheckCalls
  BY DEF LandCheck, InFlight, TypeOK, ProveCalls, Solo
<1>2. PICK v \in VeilIds, minimumBand \in Bands :
          v = calls[k].veilIdHash /\ minimumBand = calls[k].minimumBand
  BY <1>1 DEF CheckCalls
<1>3. PICK existing \in ReputationScores : existing = calls[k].existing
  BY <1>1 DEF CheckCalls
<1>4. existing = privateState[c][v]
  BY <1>1, <1>2, <1>3 DEF LandCheck, InFlight, SoloInv, SoloCall
<1>5. LiveReputations[v] = existing /\ existing # NoReputation
  BY <1>1, <1>4, CallKinds DEF LiveReputations, LiveIsCurrent, Current, Landed
<1>6. /\ decision'.veilIdHash = v
      /\ decision'.band = existing.band
      /\ decision'.meetsThreshold = (existing.band >= minimumBand)
  BY <1>2, <1>3 DEF LandCheck
<1>7. decision' # NoDecision
  <2>1. existing.band \in Bands /\ calls[k].at \in Epochs
    BY <1>1 DEF CheckCalls, ReputationScores
  <2>2. CommunityWeightBps(existing.band) \in Nat
    BY <2>1 DEF CommunityWeightBps, Bands
  <2>3. decision' \in Decisions
    BY <1>2, <1>3, <2>1, <2>2 DEF LandCheck, Decisions
  <2> QED BY <2>3
<1>8. Answer' = [ veilIdHash |-> v, band |-> LiveReputations[v].band,
                  meetsThreshold |-> LiveReputations[v].band >= minimumBand ]
  BY <1>5, <1>6, <1>7 DEF Answer
<1>9. v \in RegisteredIds
  BY <1>2 DEF LandCheck, CheckAsserts, Registered, RegisteredIds
<1>10. UNCHANGED <<RegisteredIds, LiveReputations, SpentNonces>>
  BY RegistryFrame, SpentFrame DEF LandCheck, RegisteredIds, KeysTagged, identityVars
<1> QED
  BY <1>5, <1>8, <1>9, <1>10 DEF Registry!Check

LEMMA RegistryStep ==
    ASSUME NEW c, NEW k, Solo(c, k), TypeOK, SoloInv(c, k), [Next]_vars,
           LiveIsCurrent(c, k), LiveIsCurrent(c, k)'
    PROVE  [Registry!Next]_registryVars
<1>1. CASE IdentityStep
  BY <1>1, RegisterRegisters DEF IdentityStep, Registry!Next
<1>2. CASE GovernanceStep
  BY <1>2, GovernanceUnseen
<1>3. CASE ReputationStep
  <2>1. CASE LandProve(k)
    BY <2>1, LandProveUpdates DEF Registry!Next
  <2>2. CASE LandCheck(k)
    BY <2>2, LandCheckAnswers DEF Registry!Next
  <2>3. CASE ~LandProve(k) /\ ~LandCheck(k)
    <3>1. UNCHANGED <<identityVars, reputationVars, processedProofs, decision>>
      BY <1>3, <2>3
      DEF ReputationStep, ProveCall, CheckCall, Discard, StorePrivateState, Solo
    <3> QED BY <3>1, RegistryUnseen
  <2> QED BY <2>1, <2>2, <2>3
<1>4. CASE Volatility \/ Tick \/ UNCHANGED vars
  <2>1. UNCHANGED <<identityVars, reputationVars, processedProofs, decision>>
    BY <1>4 DEF Volatility, Close, JoinFresh, Tick, vars, clientVars
  <2> QED BY <2>1, RegistryUnseen
<1> QED
  BY <1>1, <1>2, <1>3, <1>4 DEF Next

\* For a client that is alone and makes one call at a time the contract implements
\* the registry: each landing proof replaces the reputation of its identity, spends a
\* nonce that was never spent, and changes no other identity; each landing check
\* answers from the reputation of that moment (Reputation.compact:79-166).
THEOREM ContractIsRegistry ==
    ASSUME NEW c, NEW k, Clients = {c}, CallIds = {k}, VolatileClients = {}
    PROVE  Spec => RegistryKept
<1>1. Solo(c, k)
  BY DEF Solo
<1>2. Init => SoloInv(c, k)
  BY <1>1, SoloInit
<1>3. TypeOK /\ IndexNotAhead /\ SoloInv(c, k) /\ [Next]_vars => SoloInv(c, k)'
  BY <1>1, SoloStep
<1>4. TypeOK /\ SoloInv(c, k) => LiveIsCurrent(c, k)
  BY LiveLeafIsCurrent
<1>5. TypeOK /\ SoloInv(c, k) /\ [Next]_vars /\ LiveIsCurrent(c, k) /\ LiveIsCurrent(c, k)'
        => [Registry!Next]_registryVars
  BY <1>1, RegistryStep
<1>6. Init => Registry!Init
  <2> SUFFICES ASSUME Init PROVE Registry!Init
    OBVIOUS
  <2>1. LiveReputations = [v \in VeilIds |-> NoReputation]
    BY DEF Init, LiveReputations, LiveReputation, LiveLeaves, Leaves
  <2>2. RegisteredIds = {} /\ SpentNonces = {} /\ Answer = NoDecision
    BY DEF Init, RegisteredIds, SpentNonces, KeysTagged, Answer
  <2> QED BY <2>1, <2>2 DEF Registry!Init
<1>7. registryVars = <<RegisteredIds, LiveReputations, SpentNonces, Answer>>
  BY DEF registryVars
<1> QED
  BY <1>2, <1>3, <1>4, <1>5, <1>6, <1>7, TypeCorrect, IndexNeverAhead, PTL
  DEF Spec, RegistryKept, Registry!Spec, registryVars
=============================================================================
