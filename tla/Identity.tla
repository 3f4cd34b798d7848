------------------------------ MODULE Identity ------------------------------
(***************************************************************************)
(* packages/contract/src/modules/Identity.compact                          *)
(***************************************************************************)
EXTENDS VeilLedger

Registered(v) == identityRecords[v] # NoIdentity

\* The value assertActive returns; it aborts when v is not registered.
Active(v) == identityRecords[v].status = 1

\* register only reads ledger values its assertions mention, so a call proved
\* earlier by a client whose clock said t is this single step of the ledger.
Register(v, ns, key, sig, t) ==
    LET proof  == [ veilIdHash |-> v, chainNamespace |-> ns,
                    keyCommitment |-> key, walletSignatureHash |-> sig ]
        record == [ chainProofHash |-> proof, version |-> 1, status |-> 1,
                    createdAtEpoch |-> t, updatedAtEpoch |-> t ]
    IN  /\ TimeVerified(t)
        /\ v # Default
        /\ ns \in supportedChainNamespaces
        /\ key # Default
        /\ sig # Default
        /\ ~Registered(v)
        /\ RegisterKey(v, proof) \notin processedProofs
        /\ processedProofs' = processedProofs \cup {RegisterKey(v, proof)}
        /\ identityRecords' = [identityRecords EXCEPT ![v] = record]
        /\ identityCommitments' = Append(identityCommitments, record)
        /\ UNCHANGED <<reputationVars, configVars, supportVars, blockTime, clientVars>>

=============================================================================
