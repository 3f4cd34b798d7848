----------------------------- MODULE Governance -----------------------------
(***************************************************************************)
(* packages/contract/src/modules/Governance.compact.  Every circuit but    *)
(* applyScoreConfig consumes an operation id and a nonce, which all of     *)
(* them share.  The argument t is the clock of the client that proved the  *)
(* call; the call lands when the block time is within ProofWindow of it.   *)
(***************************************************************************)
EXTENDS VeilLedger

\* Mutant of ConsumeOperation: a nonce may be used by several operations.
ConsumeOperationAnyNonce(op, bundle, nonce) ==
    /\ op # Default
    /\ bundle # Default
    /\ nonce # Default
    /\ OperationKey(op) \notin processedProofs
    /\ processedProofs' = processedProofs \cup {OperationKey(op), GovernanceNonceKey(nonce)}

ConsumeOperation(op, bundle, nonce) ==
    /\ op # Default
    /\ bundle # Default
    /\ nonce # Default
    /\ OperationKey(op) \notin processedProofs
    /\ GovernanceNonceKey(nonce) \notin processedProofs
    /\ processedProofs' = processedProofs \cup {OperationKey(op), GovernanceNonceKey(nonce)}

\* Mutant of ProposeScoreConfig: the proposed config is not validated.
ProposeUnchecked(config, op, bundle, nonce, t) ==
    /\ TimeVerified(t)
    /\ ConsumeOperation(op, bundle, nonce)
    /\ t + ConfigTimelock <= MaxUint64
    /\ pendingScoreConfig' = [ config |-> config, operationId |-> op,
                               proposedAtEpoch |-> t,
                               executableAtEpoch |-> t + ConfigTimelock ]
    /\ hasPendingScoreConfig' = TRUE
    /\ proposalBlock' = blockTime
    /\ UNCHANGED <<scoreConfig, identityVars, reputationVars, supportVars, blockTime, clientVars>>

\* A proposal replaces the pending one, if there is one.
ProposeScoreConfig(config, op, bundle, nonce, t) ==
    /\ TimeVerified(t)
    /\ ScoreConfigValid(config)
    /\ ConsumeOperation(op, bundle, nonce)
    /\ t + ConfigTimelock <= MaxUint64
    /\ pendingScoreConfig' = [ config |-> config, operationId |-> op,
                               proposedAtEpoch |-> t,
                               executableAtEpoch |-> t + ConfigTimelock ]
    /\ hasPendingScoreConfig' = TRUE
    /\ proposalBlock' = blockTime
    /\ UNCHANGED <<scoreConfig, identityVars, reputationVars, supportVars, blockTime, clientVars>>

ApplyScoreConfig ==
    /\ hasPendingScoreConfig
    /\ blockTime >= pendingScoreConfig.executableAtEpoch
    /\ ScoreConfigValid(pendingScoreConfig.config)
    /\ scoreConfig' = pendingScoreConfig.config
    /\ hasPendingScoreConfig' = FALSE
    /\ UNCHANGED <<pendingScoreConfig, proposalBlock, processedProofs, identityVars,
                   reputationVars, supportVars, blockTime, clientVars>>

CancelScoreConfig(op, bundle, nonce) ==
    /\ hasPendingScoreConfig
    /\ ConsumeOperation(op, bundle, nonce)
    /\ hasPendingScoreConfig' = FALSE
    /\ UNCHANGED <<scoreConfig, pendingScoreConfig, proposalBlock, identityVars,
                   reputationVars, supportVars, blockTime, clientVars>>

AddSupportedChainNamespace(ns, op, bundle, nonce, t) ==
    /\ TimeVerified(t)
    /\ ns # Default
    /\ ns \notin supportedChainNamespaces
    /\ ConsumeOperation(op, bundle, nonce)
    /\ supportedChainNamespaces' = supportedChainNamespaces \cup {ns}
    /\ UNCHANGED <<supportedReaderPolicies, configVars, identityVars, reputationVars,
                   blockTime, clientVars>>

AddSupportedReaderPolicy(rp, op, bundle, nonce, t) ==
    /\ TimeVerified(t)
    /\ rp # Default
    /\ rp \notin supportedReaderPolicies
    /\ ConsumeOperation(op, bundle, nonce)
    /\ supportedReaderPolicies' = supportedReaderPolicies \cup {rp}
    /\ UNCHANGED <<supportedChainNamespaces, configVars, identityVars, reputationVars,
                   blockTime, clientVars>>

=============================================================================
