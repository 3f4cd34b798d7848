----------------------------- MODULE Reputation -----------------------------
(***************************************************************************)
(* packages/contract/src/modules/Reputation.compact with its witnesses     *)
(* (packages/contract/src/witness.ts) and the client's side of a call.     *)
(*                                                                         *)
(* A call has three steps.  The client executes the circuit against the    *)
(* ledger it sees and its private state: witnesses are read and frozen     *)
(* into the proof (ProveCall, CheckCall).  The transaction lands later,    *)
(* when the assertions are evaluated again over the ledger of that moment  *)
(* but the witnesses are those of the proof (LandProve, LandCheck), or it  *)
(* never lands (Discard).  Last, the client that sees it finalized stores  *)
(* the private state the execution produced, all of it                     *)
(* (StorePrivateState).  The client may be closed at any point (Close).    *)
(***************************************************************************)
EXTENDS Identity

\* firstFree() of the tree: the zero-based index the next insert takes.
FirstFree == Len(reputationCommitments)

\* findPathForLeaf: the commitment is a leaf of the present tree.
HasPath(reputation) ==
    \E i \in 1 .. FirstFree : /\ i - 1 \notin erasedIndices
                              /\ reputationCommitments[i] = reputation

InFlight(id) == calls[id] # NoCall /\ calls[id].status \in {"submitted", "orphaned"}

\* A landed call is handed to its client, unless the client is gone.
Finalized(id) == IF calls[id].status = "submitted"
                 THEN [calls EXCEPT ![id].status = "finalized"]
                 ELSE [calls EXCEPT ![id] = NoCall]

-----------------------------------------------------------------------------
(***************************************************************************)
(* Reputation_prove.                                                       *)
(***************************************************************************)

\* Mutants of NewReputation: the index of the last leaf, and a one-based index.
NewReputationAtLast(v, witnessCommitment, nonce, t) ==
    LET score == UnclampedScore(scoreConfig, witnessCommitment.signals)
        band  == DeriveBand(scoreConfig, score)
    IN  [ veilIdHash |-> v, score |-> score, band |-> band,
          proofHash |-> [ veilIdHash |-> v, witnessCommitment |-> witnessCommitment,
                          claimedBand |-> band, scoreConfig |-> scoreConfig,
                          proofNonce |-> nonce ],
          lastUpdatedEpoch |-> t,
          mtIndex |-> FirstFree - 1 ]

NewReputationOneBased(v, witnessCommitment, nonce, t) ==
    LET score == UnclampedScore(scoreConfig, witnessCommitment.signals)
        band  == DeriveBand(scoreConfig, score)
    IN  [ veilIdHash |-> v, score |-> score, band |-> band,
          proofHash |-> [ veilIdHash |-> v, witnessCommitment |-> witnessCommitment,
                          claimedBand |-> band, scoreConfig |-> scoreConfig,
                          proofNonce |-> nonce ],
          lastUpdatedEpoch |-> t,
          mtIndex |-> FirstFree + 1 ]

\* The record the circuit builds from its arguments, the live scoreConfig and
\* the witnesses getCurrentTime and getFirstFreeReputationIndex.
NewReputation(v, witnessCommitment, nonce, t) ==
    LET score == UnclampedScore(scoreConfig, witnessCommitment.signals)
        band  == DeriveBand(scoreConfig, score)
    IN  [ veilIdHash |-> v, score |-> score, band |-> band,
          proofHash |-> [ veilIdHash |-> v, witnessCommitment |-> witnessCommitment,
                          claimedBand |-> band, scoreConfig |-> scoreConfig,
                          proofNonce |-> nonce ],
          lastUpdatedEpoch |-> t,
          mtIndex |-> FirstFree ]

\* Mutant of ProveAsserts: the replay set is not consulted.
ProveAssertsReplayable(v, witnessCommitment, proof, t) ==
    /\ TimeVerified(t)
    /\ Registered(v)
    /\ Active(v)
    /\ witnessCommitment.chainNamespace \in supportedChainNamespaces
    /\ witnessCommitment.readerPolicyHash \in supportedReaderPolicies
    /\ witnessCommitment.chainCommitment # Default
    /\ witnessCommitment.witnessSalt # Default
    /\ proof.scoreConfig = scoreConfig
    /\ ScoreAccepted(scoreConfig, witnessCommitment.signals)

\* Assertions of prove over the ledger.  The values of scoreConfig a proof was
\* computed from are part of its transcript: a proof made under another config
\* does not apply.
ProveAsserts(v, witnessCommitment, proof, t) ==
    /\ TimeVerified(t)
    /\ Registered(v)
    /\ Active(v)
    /\ witnessCommitment.chainNamespace \in supportedChainNamespaces
    /\ witnessCommitment.readerPolicyHash \in supportedReaderPolicies
    /\ witnessCommitment.chainCommitment # Default
    /\ witnessCommitment.witnessSalt # Default
    /\ proof.scoreConfig = scoreConfig
    /\ ScoreAccepted(scoreConfig, witnessCommitment.signals)
    /\ NonceKey(v, proof.proofNonce) \notin processedProofs
    /\ ProofKey(v, proof) \notin processedProofs

ProveCall(id, c, v, witnessCommitment, nonce, t) ==
    LET reputation == NewReputation(v, witnessCommitment, nonce, t)
        existing   == privateState[c][v]
    IN  /\ calls[id] = NoCall
        /\ ProveAsserts(v, witnessCommitment, reputation.proofHash, t)
        /\ existing # NoReputation => HasPath(existing)
        /\ calls' = [calls EXCEPT ![id] =
                        [ circuit |-> "prove", status |-> "submitted", client |-> c,
                          reputation |-> reputation, existing |-> existing,
                          nextPrivateState |-> [privateState[c] EXCEPT ![v] = reputation] ]]
        /\ UNCHANGED <<identityVars, reputationVars, processedProofs, configVars,
                       supportVars, blockTime, privateState, decision>>

\* Mutants of LandProve: it erases the last leaf, or none at all.
LandProveErasingLast(id) ==
    LET call == calls[id]
        r    == call.reputation
    IN  /\ InFlight(id)
        /\ call.circuit = "prove"
        /\ ProveAsserts(r.veilIdHash, r.proofHash.witnessCommitment, r.proofHash,
                        r.lastUpdatedEpoch)
        /\ processedProofs' = processedProofs \cup
               {NonceKey(r.veilIdHash, r.proofHash.proofNonce), ProofKey(r.veilIdHash, r.proofHash)}
        /\ erasedIndices' = IF call.existing = NoReputation
                            THEN erasedIndices
                            ELSE erasedIndices \cup {FirstFree - 1}
        /\ reputationCommitments' = Append(reputationCommitments, r)
        /\ calls' = Finalized(id)
        /\ UNCHANGED <<identityVars, configVars, supportVars, blockTime, privateState, decision>>

LandProveErasingNone(id) ==
    LET call == calls[id]
        r    == call.reputation
    IN  /\ InFlight(id)
        /\ call.circuit = "prove"
        /\ ProveAsserts(r.veilIdHash, r.proofHash.witnessCommitment, r.proofHash,
                        r.lastUpdatedEpoch)
        /\ processedProofs' = processedProofs \cup
               {NonceKey(r.veilIdHash, r.proofHash.proofNonce), ProofKey(r.veilIdHash, r.proofHash)}
        /\ erasedIndices' = erasedIndices
        /\ reputationCommitments' = Append(reputationCommitments, r)
        /\ calls' = Finalized(id)
        /\ UNCHANGED <<identityVars, configVars, supportVars, blockTime, privateState, decision>>

\* The path of the existing commitment was taken from a tree the ledger had, and
\* HistoricMerkleTree.checkRoot accepts every earlier root, so the membership
\* assertion made by ProveCall still holds; the leaf erased is the one at the
\* index the private record names.
LandProve(id) ==
    LET call == calls[id]
        r    == call.reputation
    IN  /\ InFlight(id)
        /\ call.circuit = "prove"
        /\ ProveAsserts(r.veilIdHash, r.proofHash.witnessCommitment, r.proofHash,
                        r.lastUpdatedEpoch)
        /\ processedProofs' = processedProofs \cup
               {NonceKey(r.veilIdHash, r.proofHash.proofNonce), ProofKey(r.veilIdHash, r.proofHash)}
        /\ erasedIndices' = IF call.existing = NoReputation
                            THEN erasedIndices
                            ELSE erasedIndices \cup {call.existing.mtIndex}
        /\ reputationCommitments' = Append(reputationCommitments, r)
        /\ calls' = Finalized(id)
        /\ UNCHANGED <<identityVars, configVars, supportVars, blockTime, privateState, decision>>

-----------------------------------------------------------------------------
(***************************************************************************)
(* Reputation_check.                                                       *)
(***************************************************************************)
CheckAsserts(v, requester, minimumBand, t) ==
    /\ TimeVerified(t)
    /\ Registered(v)
    /\ Active(v)
    /\ minimumBand <= 4
    /\ requester # Default

\* Mutant of CheckCall: the record's membership is not asserted.
CheckCallNoPath(id, c, v, requester, minimumBand, t) ==
    LET existing == privateState[c][v]
    IN  /\ calls[id] = NoCall
        /\ CheckAsserts(v, requester, minimumBand, t)
        /\ existing # NoReputation
        /\ calls' = [calls EXCEPT ![id] =
                        [ circuit |-> "check", status |-> "submitted", client |-> c,
                          veilIdHash |-> v, requester |-> requester,
                          minimumBand |-> minimumBand, existing |-> existing,
                          firstFree |-> FirstFree,   \* history: the tree it was proved against
                          at |-> t, nextPrivateState |-> privateState[c] ]]
        /\ UNCHANGED <<identityVars, reputationVars, processedProofs, configVars,
                       supportVars, blockTime, privateState, decision>>

CheckCall(id, c, v, requester, minimumBand, t) ==
    LET existing == privateState[c][v]
    IN  /\ calls[id] = NoCall
        /\ CheckAsserts(v, requester, minimumBand, t)
        /\ existing # NoReputation
        /\ HasPath(existing)
        /\ calls' = [calls EXCEPT ![id] =
                        [ circuit |-> "check", status |-> "submitted", client |-> c,
                          veilIdHash |-> v, requester |-> requester,
                          minimumBand |-> minimumBand, existing |-> existing,
                          firstFree |-> FirstFree,   \* history: the tree it was proved against
                          at |-> t, nextPrivateState |-> privateState[c] ]]
        /\ UNCHANGED <<identityVars, reputationVars, processedProofs, configVars,
                       supportVars, blockTime, privateState, decision>>

\* Mutant of LandCheck: it reports the band that was asked for.
LandCheckAsked(id) ==
    LET call == calls[id]
        band == call.minimumBand
    IN  /\ InFlight(id)
        /\ call.circuit = "check"
        /\ CheckAsserts(call.veilIdHash, call.requester, call.minimumBand, call.at)
        /\ decision' = [ veilIdHash |-> call.veilIdHash,
                         meetsThreshold |-> band >= call.minimumBand,
                         band |-> band,
                         communityWeightBps |-> CommunityWeightBps(band),
                         validAtEpoch |-> call.at ]
        /\ calls' = Finalized(id)
        /\ UNCHANGED <<identityVars, reputationVars, processedProofs, configVars,
                       supportVars, blockTime, privateState>>

LandCheck(id) ==
    LET call == calls[id]
        band == call.existing.band
    IN  /\ InFlight(id)
        /\ call.circuit = "check"
        /\ CheckAsserts(call.veilIdHash, call.requester, call.minimumBand, call.at)
        /\ decision' = [ veilIdHash |-> call.veilIdHash,
                         meetsThreshold |-> band >= call.minimumBand,
                         band |-> band,
                         communityWeightBps |-> CommunityWeightBps(band),
                         validAtEpoch |-> call.at ]
        /\ calls' = Finalized(id)
        /\ UNCHANGED <<identityVars, reputationVars, processedProofs, configVars,
                       supportVars, blockTime, privateState>>

-----------------------------------------------------------------------------
(***************************************************************************)
(* The client's side.                                                      *)
(***************************************************************************)

\* A transaction that is rejected, expires or is never included.
Discard(id) ==
    /\ InFlight(id)
    /\ calls' = [calls EXCEPT ![id] = NoCall]
    /\ UNCHANGED <<identityVars, reputationVars, processedProofs, configVars,
                   supportVars, blockTime, privateState, decision>>

\* Mutant of StorePrivateState: it stores before the call landed.
StoreOnSubmit(id) ==
    LET call == calls[id]
    IN  /\ call # NoCall
        /\ call.status # "orphaned"
        /\ privateState' = [privateState EXCEPT ![call.client] = call.nextPrivateState]
        /\ calls' = [calls EXCEPT ![id] = NoCall]
        /\ UNCHANGED <<identityVars, reputationVars, processedProofs, configVars,
                       supportVars, blockTime, decision>>

\* The client's call returns: the whole private state is replaced by the one
\* its execution produced from the private state it had read.
StorePrivateState(id) ==
    LET call == calls[id]
    IN  /\ call # NoCall
        /\ call.status = "finalized"
        /\ privateState' = [privateState EXCEPT ![call.client] = call.nextPrivateState]
        /\ calls' = [calls EXCEPT ![id] = NoCall]
        /\ UNCHANGED <<identityVars, reputationVars, processedProofs, configVars,
                       supportVars, blockTime, decision>>

\* The page is closed: what it submitted may still land, nothing is stored.
Close(c) ==
    /\ \E id \in CallIds : calls[id] # NoCall /\ calls[id].client = c
                           /\ calls[id].status # "orphaned"
    /\ calls' = [ id \in CallIds |->
                    IF calls[id] = NoCall \/ calls[id].client # c THEN calls[id]
                    ELSE IF calls[id].status = "finalized" THEN NoCall
                    ELSE [calls[id] EXCEPT !.status = "orphaned"] ]
    /\ UNCHANGED <<identityVars, reputationVars, processedProofs, configVars,
                   supportVars, blockTime, privateState, decision>>

\* The browser's store is gone (another device, cleared site data): joining the
\* contract again starts from createVeilPrivateState().
JoinFresh(c) ==
    /\ \A id \in CallIds : calls[id] # NoCall /\ calls[id].client = c
                           => calls[id].status = "orphaned"
    /\ privateState' = [privateState EXCEPT ![c] = [v \in VeilIds |-> NoReputation]]
    /\ UNCHANGED <<identityVars, reputationVars, processedProofs, configVars,
                   supportVars, blockTime, calls, decision>>

=============================================================================
