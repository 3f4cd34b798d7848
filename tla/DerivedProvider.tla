--------------------------- MODULE DerivedProvider ---------------------------
(***************************************************************************)
(* Calls through the provider of packages/sdk/src/providers/derived.ts,    *)
(* one wallet for all of them.  callTx proves the circuit, estimates its   *)
(* fee, makes sure that DUST is visible (asking the sponsor for it),       *)
(* balances, submits, and waits for the transaction.  The active circuit   *)
(* and the last transaction id are variables all calls share.  An action   *)
(* is the code between two awaits.  What the api, the wallet, the sponsor  *)
(* and the chain do is external.                                           *)
(***************************************************************************)
EXTENDS Naturals, FiniteSets

CONSTANTS Calls,               \* numbers of the calls that may be made; 0 is null
          VeilIds,
          Fee, MinSponsoredDust, MaxDust,   \* DUST in units that tell the fee from the minimum
          SponsorConfigured,   \* config.feeSponsorUrl is set
          InitiallyRegistered, InitiallyProved

ASSUME ProviderAssumption ==
    /\ Calls \subseteq Nat \ {0}
    /\ Fee \in Nat /\ MinSponsoredDust \in 1 .. Fee /\ MaxDust \in Nat
    /\ SponsorConfigured \in BOOLEAN
    /\ InitiallyProved \subseteq InitiallyRegistered /\ InitiallyRegistered \subseteq VeilIds

VARIABLES calls,              \* where each call is
          activeCircuit, lastSubmittedTxId,
          dust,               \* DUST the wallet has and may spend
          generating,         \* a sponsor's NIGHT generates DUST for the wallet
          chain,              \* what became of each call's transaction
          overlapping         \* history: calls that were in flight together with another one

providerVars == <<calls, activeCircuit, lastSubmittedTxId, dust, generating, chain, overlapping>>

Circuits == {"Identity_register", "Identity_assertActive", "Reputation_prove", "Reputation_check"}
SponsorScopes == {"Identity_register", "Reputation_prove"}

Settled == {"returned", "failed"}
InFlight == {c \in Calls : calls[c].step \notin {"new"} \cup Settled}

ProviderInit ==
    /\ calls = [c \in Calls |-> [step |-> "new"]]
    /\ activeCircuit = "transaction"
    /\ lastSubmittedTxId = 0
    /\ dust \in 0 .. MaxDust
    /\ generating = FALSE
    /\ chain = [c \in Calls |-> "none"]
    /\ overlapping = {}

Applied(circuit) == {calls[c].veilId : c \in {d \in Calls : /\ chain[d] = "applied"
                                                            /\ calls[d].circuit = circuit}}
RegisteredIds == InitiallyRegistered \cup Applied("Identity_register")
ProvedIds == InitiallyProved \cup Applied("Reputation_prove")

\* What the circuits assert of the identity.
Asserted(circuit, veilId) ==
    CASE circuit = "Identity_register" -> veilId \notin RegisteredIds
      [] circuit = "Reputation_check"  -> veilId \in ProvedIds
      [] OTHER                         -> veilId \in RegisteredIds

CallAt(c, step) == calls[c].step = step
Goto(c, step) == calls' = [calls EXCEPT ![c].step = step]

\* The call rejects; reason and circuit are what its message tells.
FailWith(c, reason, circuit) ==
    calls' = [calls EXCEPT ![c] = [step |-> "failed", circuit |-> @.circuit, veilId |-> @.veilId,
                                   reason |-> reason, mentions |-> circuit]]

CallTx(c, circuit, veilId) ==
    /\ CallAt(c, "new")
    /\ calls' = [calls EXCEPT ![c] = [step |-> "proving", circuit |-> circuit, veilId |-> veilId]]
    /\ activeCircuit' = circuit
    /\ lastSubmittedTxId' = 0
    /\ overlapping' = overlapping \cup IF InFlight = {} THEN {} ELSE InFlight \cup {c}
    /\ UNCHANGED <<dust, generating, chain>>

Shared == <<activeCircuit, lastSubmittedTxId, overlapping>>

\* The circuit runs against the ledger, is proved, and its fee is estimated or not.
Prove(c) ==
    /\ CallAt(c, "proving")
    /\ \/ /\ Asserted(calls[c].circuit, calls[c].veilId)
          /\ \E targetDust \in {Fee, MinSponsoredDust} :
               calls' = [calls EXCEPT ![c] = [step |-> "checking", circuit |-> @.circuit,
                                              veilId |-> @.veilId, targetDust |-> targetDust,
                                              scope |-> activeCircuit]]
       \/ /\ ~Asserted(calls[c].circuit, calls[c].veilId)
          /\ FailWith(c, "assertion", calls[c].circuit)
    /\ UNCHANGED <<Shared, dust, generating, chain>>

\* ensureSponsoredDust; the check for visible DUST says no also when the wallet does not answer in time.
FindDust(c) ==
    /\ CallAt(c, "checking")
    /\ dust >= calls[c].targetDust
    /\ Goto(c, "balancing")
    /\ UNCHANGED <<Shared, dust, generating, chain>>

\* Mutant of RequestSponsorship: the sponsor's answer is not followed by a wait for the DUST.
RequestSponsorshipNoWait(c) ==
    /\ CallAt(c, "checking")
    /\ IF SponsorConfigured THEN Goto(c, "balancing") ELSE FailWith(c, "no sponsor", "none")
    /\ UNCHANGED <<Shared, dust, generating, chain>>

RequestSponsorship(c) ==
    /\ CallAt(c, "checking")
    /\ IF SponsorConfigured THEN Goto(c, "requesting") ELSE FailWith(c, "no sponsor", "none")
    /\ UNCHANGED <<Shared, dust, generating, chain>>

\* The backend leases to the address, or answers with the lease it already has, or refuses: a scope
\* it does not sponsor with a message about identity registration.
SponsorAnswers(c) ==
    /\ CallAt(c, "requesting")
    /\ \/ /\ calls[c].scope \in SponsorScopes
          /\ generating' = TRUE
          /\ Goto(c, "waiting")
       \/ /\ IF calls[c].scope \in SponsorScopes
             THEN FailWith(c, "unavailable", "none")
             ELSE FailWith(c, "scope", "Identity_register")
          /\ UNCHANGED generating
    /\ UNCHANGED <<Shared, dust, chain>>

SeeSponsoredDust(c) ==
    /\ CallAt(c, "waiting")
    /\ dust >= calls[c].targetDust
    /\ Goto(c, "balancing")
    /\ UNCHANGED <<Shared, dust, generating, chain>>

SponsoredDustTimesOut(c) ==
    /\ CallAt(c, "waiting")
    /\ FailWith(c, "timeout", "none")
    /\ UNCHANGED <<Shared, dust, generating, chain>>

\* Balanced, signed, finalized, and handed to the relay, which may or may not receive it.
Balance(c) ==
    /\ CallAt(c, "balancing")
    /\ \/ /\ dust >= Fee
          /\ dust' = dust - Fee
          /\ Goto(c, "submitting")
          /\ chain' \in {chain, [chain EXCEPT ![c] = "relayed"]}
       \/ /\ dust < Fee
          /\ FailWith(c, "dust", "none")
          /\ UNCHANGED <<dust, chain>>
    /\ UNCHANGED <<Shared, generating>>

\* Mutant of SubmitReturns: the id is also taken of a submission that has timed out.
SubmitReturnsLate(c) ==
    /\ \/ CallAt(c, "submitting")
       \/ CallAt(c, "failed") /\ calls[c].reason = "timeout"
    /\ chain[c] # "none"
    /\ lastSubmittedTxId' = c
    /\ IF CallAt(c, "submitting") THEN Goto(c, "confirming") ELSE UNCHANGED calls
    /\ UNCHANGED <<activeCircuit, overlapping, dust, generating, chain>>

SubmitReturns(c) ==
    /\ CallAt(c, "submitting")
    /\ chain[c] # "none"
    /\ lastSubmittedTxId' = c
    /\ Goto(c, "confirming")
    /\ UNCHANGED <<activeCircuit, overlapping, dust, generating, chain>>

\* The race is lost: the id that submitTransaction may still answer with goes nowhere.
SubmitTimesOut(c) ==
    /\ CallAt(c, "submitting")
    /\ FailWith(c, "timeout", activeCircuit)
    /\ UNCHANGED <<Shared, dust, generating, chain>>

\* The api has seen the transaction; the id is the one the wallet submitted last, or the result's.
Confirm(c) ==
    /\ CallAt(c, "confirming")
    /\ chain[c] \in {"applied", "rejected"}
    /\ IF chain[c] = "applied"
       THEN calls' = [calls EXCEPT ![c] =
                         [step |-> "returned", circuit |-> @.circuit, veilId |-> @.veilId,
                          txId |-> IF lastSubmittedTxId # 0 THEN lastSubmittedTxId ELSE c]]
       ELSE FailWith(c, "rejected", "none")
    /\ UNCHANGED <<Shared, dust, generating, chain>>

\* The proof server, the sponsor or the relay cannot be reached.
Unreachable(c) ==
    /\ \E step \in {"proving", "requesting", "balancing", "submitting"} : CallAt(c, step)
    /\ FailWith(c, "network", "none")
    /\ UNCHANGED <<Shared, dust, generating, chain>>

\* A relayed transaction is applied if what it read of the ledger still holds.
Land(c) ==
    /\ chain[c] = "relayed"
    /\ chain' = [chain EXCEPT ![c] = IF Asserted(calls[c].circuit, calls[c].veilId)
                                     THEN "applied" ELSE "rejected"]
    /\ UNCHANGED <<Shared, calls, dust, generating>>

GenerateDust ==
    /\ generating
    /\ dust < MaxDust
    /\ dust' = dust + 1
    /\ UNCHANGED <<Shared, calls, generating, chain>>

\* The waits that withTimeout ends: for the DUST wallet, and for the relay to take a transaction.
TimedStep(c) ==
    \/ FindDust(c) \/ RequestSponsorship(c)
    \/ SeeSponsoredDust(c) \/ SponsoredDustTimesOut(c)
    \/ SubmitReturns(c) \/ SubmitTimesOut(c)

\* The waits that only an answer ends: for the proof and the fee estimate, for the sponsor, for the
\* wallet to balance and finalize, for the transaction to be seen.
UntimedWait(c) == calls[c].step \in {"proving", "requesting", "balancing", "confirming"}

CallStep(c) == TimedStep(c) \/ Prove(c) \/ SponsorAnswers(c) \/ Balance(c) \/ Confirm(c)

ProviderNext ==
    \/ \E c \in Calls : CallStep(c) \/ Unreachable(c) \/ Land(c)
    \/ GenerateDust

\* Whoever makes the calls.
ProviderSpec ==
    ProviderInit /\ [][ \/ ProviderNext
                       \/ \E c \in Calls, circuit \in Circuits, veilId \in VeilIds :
                              CallTx(c, circuit, veilId) ]_providerVars
-----------------------------------------------------------------------------
(* Properties *)

\* A call that overlapped no other one answers with the id of its own transaction, whatever became
\* of the earlier ones: no late answer to a submission that timed out is taken for it
\* (derived.ts:353-364 and 632-642).
AnswersOwnTxId ==
    \A c \in Calls \ overlapping : CallAt(c, "returned") => calls[c].txId = c

\* Of the calls whose fee was estimated, only one that overlapped another is ever found to have too
\* little DUST after the gate let it through (derived.ts:525-566).
GateSuffices ==
    \A c \in Calls \ overlapping : CallAt(c, "balancing") => dust >= calls[c].targetDust

=============================================================================
