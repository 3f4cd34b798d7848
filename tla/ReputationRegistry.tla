------------------------- MODULE ReputationRegistry -------------------------
(***************************************************************************)
(* What a client that is alone may think of the Veil contract: a registry  *)
(* with one reputation for each identity, which an update replaces at once *)
(* and a check reads.  How records are committed, found again, erased and  *)
(* stored by the client is left to the contract.                           *)
(***************************************************************************)
EXTENDS Naturals

CONSTANTS VeilIds, Bands, NoReputation, NoAnswer

VARIABLES registered,    \* the identities
          reputation,    \* the reputation each of them has, if it has one
          spentNonces,   \* nonces of the updates, with their identities
          answer         \* of the last check

Register(v) ==
    /\ v \notin registered
    /\ registered' = registered \cup {v}
    /\ UNCHANGED <<reputation, spentNonces, answer>>

\* A record of the identity replaces the one it had; each has a nonce of its own.
Update(v) ==
    LET record == reputation'[v]
        spent  == <<v, record.proofHash.proofNonce>>
    IN  /\ v \in registered
        /\ record # NoReputation
        /\ record.veilIdHash = v
        /\ spent \notin spentNonces
        /\ spentNonces' = spentNonces \cup {spent}
        /\ reputation' = [reputation EXCEPT ![v] = record]
        /\ UNCHANGED <<registered, answer>>

\* The answer is about the reputation of the moment.
Check(v, minimumBand) ==
    /\ v \in registered
    /\ reputation[v] # NoReputation
    /\ answer' = [ veilIdHash |-> v, band |-> reputation[v].band,
                   meetsThreshold |-> reputation[v].band >= minimumBand ]
    /\ UNCHANGED <<registered, reputation, spentNonces>>

Init == /\ registered = {}
        /\ reputation = [v \in VeilIds |-> NoReputation]
        /\ spentNonces = {}
        /\ answer = NoAnswer

Next == \E v \in VeilIds : \/ Register(v)
                           \/ Update(v)
                           \/ \E minimumBand \in Bands : Check(v, minimumBand)

Spec == Init /\ [][Next]_<<registered, reputation, spentNonces, answer>>

=============================================================================
