--------------------------- MODULE MCVeilContract ---------------------------
(***************************************************************************)
(* Values for the constants of VeilContract.  The configs are the default  *)
(* score config (DEFAULT_SCORE_CONFIG in packages/sdk and the contract     *)
(* tests), one a council could propose, and one with inverted thresholds.  *)
(***************************************************************************)
EXTENDS VeilContract, TLC

CONSTANTS zero, v1, v2, evm, policy, key, sig, commitment, salt, n1, n2,
          op1, op2, bundle, g1, g2, requester, c1, c2, k1, k2, sol, reader, controller

DefaultConfig ==
    [ baseScore |-> 300, maxScore |-> 900,
      walletAgeWeight |-> 3, protocolWeight |-> 15, daoWeight |-> 20,
      lpWeight |-> 10, crossChainWeight |-> 25, consistencyWeight |-> 5,
      bronzeThreshold |-> 400, silverThreshold |-> 550,
      goldThreshold |-> 700, platinumThreshold |-> 820 ]

StricterConfig == [DefaultConfig EXCEPT !.bronzeThreshold = 500, !.daoWeight = 10]

InvertedConfig == [DefaultConfig EXCEPT !.silverThreshold = 300]

NoActivity == [ walletAgeInDays |-> 0, distinctProtocols |-> 0, daoVoteCount |-> 0,
                lpTenureInDays |-> 0, crossChainCount |-> 0, txConsistencyScore |-> 0 ]

\* 300 + 20 * 20 = 700, exactly the gold threshold of the default config.
GoldVoter == [NoActivity EXCEPT !.daoVoteCount = 20]

\* 300 + 2 * 15 + 4 * 5 + 2 * 25 = 400, exactly the bronze threshold.
BronzeUser == [NoActivity EXCEPT !.distinctProtocols = 2, !.crossChainCount = 2,
                                 !.txConsistencyScore = 4]

\* 300 + 40 * 15 + 1 > 900: over maxScore.
TooActive == [NoActivity EXCEPT !.distinctProtocols = 40, !.walletAgeInDays = 1]

NoSignal   == {}
OneSignal  == {GoldVoter}
FewSignals == {GoldVoter, BronzeUser, TooActive}
NoConfigs  == {}
OneConfig  == {StricterConfig}
SomeConfigs == {StricterConfig, InvertedConfig}

Symmetry == Permutations(Clients) \cup Permutations(CallIds)
            \cup Permutations(ProofNonces) \cup Permutations(VeilIds)
\* Bound: checks are made while at most one identity is registered.
ChecksAlone ==
    \/ Cardinality({v \in VeilIds : identityRecords[v] # NoIdentity}) <= 1
    \/ /\ decision = NoDecision
       /\ \A id \in CallIds : calls[id] # NoCall => calls[id].circuit = "prove"

\* Bound: a client that is alone checks before the time is 2 and before the council acts.
ChecksEarly ==
    \/ decision = NoDecision /\ \A id \in CallIds : calls[id] # NoCall => calls[id].circuit = "prove"
    \/ blockTime <= 1 /\ KeysTagged("operation") = {}

SoloSymmetry == Permutations(ProofNonces) \cup Permutations({op1, op2})
                \cup Permutations({g1, g2})

=============================================================================
