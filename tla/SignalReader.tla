----------------------------- MODULE SignalReader -----------------------------
(***************************************************************************)
(* The default evidence reader of the SDK and what the contract makes of   *)
(* the witness it collects: readEthereumSignals, readCKBSignals and        *)
(* collectReputationWitnessFromAddresses (packages/sdk/src/reputation/     *)
(* reader) and the band proveReputation answers with (prove.ts).  Every    *)
(* configured EVM chain is asked at once and answers in any order or not;  *)
(* one with transactions adds a timestamp of the moment it answers.  Time  *)
(* matters only by the week it is in.                                      *)
(***************************************************************************)
EXTENDS ScoreUtils, FiniteSets

CONSTANTS MaxChains,     \* bound on the EVM chains that are configured
          NoWitness

ASSUME ReaderAssumption == MaxChains \in 0 .. 21 /\ NoWitness \notin ReputationSignals /\ MaxUint32 >= 3650

VARIABLES pending,       \* EVM chains that have not answered
          activeChains,  \* EVM chains that answered with transactions
          activeWeeks,   \* weeks of their timestamps
          week,          \* the present week
          witness        \* the witness collected

readerVars == <<pending, activeChains, activeWeeks, week, witness>>

DefaultScoreConfig ==
    [ baseScore |-> 300, maxScore |-> 900,
      walletAgeWeight |-> 3, protocolWeight |-> 15, daoWeight |-> 20,
      lpWeight |-> 10, crossChainWeight |-> 25, consistencyWeight |-> 5,
      bronzeThreshold |-> 400, silverThreshold |-> 550,
      goldThreshold |-> 700, platinumThreshold |-> 820 ]

ReaderInit ==
    /\ pending \in 0 .. MaxChains
    /\ activeChains = 0 /\ activeWeeks = {}
    /\ week = 0
    /\ witness = NoWitness

ChainActive ==
    /\ pending > 0
    /\ pending' = pending - 1
    /\ activeChains' = activeChains + 1
    /\ activeWeeks' = activeWeeks \cup {week}
    /\ UNCHANGED <<week, witness>>

\* The chain has no transaction of the address, or its RPC fails: nothing is merged.
ChainAddsNothing ==
    /\ pending > 0
    /\ pending' = pending - 1
    /\ UNCHANGED <<activeChains, activeWeeks, week, witness>>

\* The reads may go on into the next week.
NextWeek ==
    /\ week = 0
    /\ week' = 1
    /\ UNCHANGED <<pending, activeChains, activeWeeks, witness>>

\* Rounded share of the 13 weeks of 90 days, of at least three timestamps.
ConsistencyScore(timestamps, weeks) ==
    IF timestamps < 3 THEN 0 ELSE (200 * weeks + 13) \div 26

\* Mutant of WalletAge: a wallet without a transaction is as old as the epoch.
WalletAgeSinceEpoch(timestamps) == IF timestamps = 0 THEN 20000 ELSE 0

\* Days since the first timestamp, all of which are of the read itself; now without any.
WalletAge(timestamps) == 0

\* CKB is read for its tip only and adds no signal, whether it can be reached or not.
Collect ==
    /\ pending = 0
    /\ witness = NoWitness
    /\ witness' = [ walletAgeInDays |-> WalletAge(activeChains), distinctProtocols |-> 0,
                    daoVoteCount |-> 0, lpTenureInDays |-> 0, crossChainCount |-> activeChains,
                    txConsistencyScore |-> ConsistencyScore(activeChains, Cardinality(activeWeeks)) ]
    /\ UNCHANGED <<pending, activeChains, activeWeeks, week>>

\* The band proveReputation answers with, by the default configuration, whichever is in force.
EstimatedBand(signals) ==
    LET score == UnclampedScore(DefaultScoreConfig, signals)
    IN CASE score >= 820 -> 4
         [] score >= 700 /\ score < 820 -> 3
         [] score >= 550 /\ score < 700 -> 2
         [] score >= 400 /\ score < 550 -> 1
         [] score < 400 -> 0

ReaderNext == ChainActive \/ ChainAddsNothing \/ NextWeek \/ Collect
ReaderSpec == ReaderInit /\ [][ReaderNext]_readerVars
-----------------------------------------------------------------------------
(* Properties *)

\* Whichever chains answer, and whenever, the contract accepts the signals and the score of what
\* the default reader collects, and derives the band the SDK answers with: for up to 21 chains;
\* with 22 and a change of week the score exceeds maxScore (reader/index.ts:40-94, prove.ts:23-40).
WitnessAccepted ==
    witness # NoWitness =>
        /\ ScoreAccepted(DefaultScoreConfig, witness)
        /\ EstimatedBand(witness) = DeriveBand(DefaultScoreConfig, UnclampedScore(DefaultScoreConfig, witness))

=============================================================================
