------------------------ MODULE DerivedProviderProofs ------------------------
(***************************************************************************)
(* Proofs about DerivedProvider, for any number of calls and any amounts   *)
(* of DUST; about the hooks of VeilHooks over it, for any accounts; and    *)
(* about WalletCache, for any seeds and keys.                              *)
(***************************************************************************)
EXTENDS VeilHooks, WalletCache, TLAPS

USE ProviderAssumption DEF ProviderAssumption

Scopes == Circuits \cup {"transaction"}
GatedSteps == {"checking", "requesting", "waiting", "balancing", "submitting", "confirming"}

NewCalls == [step : {"new"}]
ProvingCalls == [step : {"proving"}, circuit : Circuits, veilId : VeilIds]
GatedCalls == [step : GatedSteps, circuit : Circuits, veilId : VeilIds, targetDust : Nat, scope : Scopes]
FailedCalls ==
    [step : {"failed"}, circuit : Circuits, veilId : VeilIds,
     reason : {"assertion", "no sponsor", "unavailable", "scope", "timeout", "dust", "rejected", "network"},
     mentions : Scopes \cup {"none"}]
ReturnedCalls == [step : {"returned"}, circuit : Circuits, veilId : VeilIds, txId : Nat]

Moved == ProvingCalls \cup GatedCalls \cup FailedCalls \cup ReturnedCalls
Flying(c) == calls[c].step \notin {"new"} \cup Settled

ProviderTypeOK ==
    /\ calls \in [Calls -> NewCalls \cup Moved]
    /\ activeCircuit \in Scopes
    /\ lastSubmittedTxId \in Nat
    /\ dust \in Nat
    /\ overlapping \subseteq Calls

\* A call in flight that overlapped no other is alone, and the id submitted last is its own.
Alone ==
    \A c \in Calls \ overlapping : Flying(c) =>
        /\ \A d \in Calls : Flying(d) => d = c
        /\ lastSubmittedTxId \in {0, c}

ProviderInv == ProviderTypeOK /\ Alone /\ AnswersOwnTxId /\ GateSuffices

-----------------------------------------------------------------------------
(* Lemmas *)

LEMMA ProviderInitInv == ProviderInit => ProviderInv
<1> SUFFICES ASSUME ProviderInit PROVE ProviderInv
  OBVIOUS
<1>1. \A c \in Calls : calls[c] \in NewCalls /\ calls[c].step = "new"
  BY DEF ProviderInit, NewCalls
<1>2. ProviderTypeOK
  BY <1>1 DEF ProviderInit, ProviderTypeOK, Scopes
<1> QED BY <1>1, <1>2 DEF ProviderInv, Alone, Flying, AnswersOwnTxId, GateSuffices, CallAt

LEMMA CallShape ==
    ASSUME ProviderTypeOK, NEW c \in Calls
    PROVE  /\ calls[c].step = "proving" => calls[c] \in ProvingCalls
           /\ calls[c].step \in GatedSteps => calls[c] \in GatedCalls
           /\ Flying(c) <=> calls[c].step \in GatedSteps \cup {"proving"}
BY DEF ProviderTypeOK, NewCalls, Moved, ProvingCalls, GatedCalls, FailedCalls, ReturnedCalls, GatedSteps,
       Flying, Settled

\* A call in flight moves on: it is alone unless it overlapped another one, so what is asked of
\* the calls that overlapped none is asked of it only.
LEMMA CallMoves ==
    ASSUME ProviderInv, NEW c \in Calls, Flying(c), NEW next \in Moved,
           calls' = [calls EXCEPT ![c] = next],
           UNCHANGED <<activeCircuit, overlapping>>,
           lastSubmittedTxId' \in {lastSubmittedTxId, c},
           dust' \in Nat,
           c \notin overlapping =>
               /\ next.step = "balancing" => dust' >= next.targetDust
               /\ next.step = "returned" => next.txId = c
    PROVE  ProviderInv'
<1>1. /\ calls'[c] = next /\ \A d \in Calls : d # c => calls'[d] = calls[d]
      /\ calls' \in [Calls -> NewCalls \cup Moved]
  BY DEF ProviderInv, ProviderTypeOK
<1>2. ProviderTypeOK'
  BY <1>1 DEF ProviderInv, ProviderTypeOK
<1>3. \A d \in Calls : Flying(d)' => Flying(d)
  BY <1>1 DEF Flying
<1>4. \A d \in Calls \ overlapping : d # c => ~Flying(d)
  BY DEF ProviderInv, Alone
<1>5. Alone'
  BY <1>3, <1>4 DEF ProviderInv, Alone
<1>6. AnswersOwnTxId'
  BY <1>1 DEF ProviderInv, AnswersOwnTxId, CallAt
<1>7. GateSuffices'
  BY <1>1, <1>4 DEF GateSuffices, CallAt, Flying, Settled
<1> QED BY <1>2, <1>5, <1>6, <1>7 DEF ProviderInv

\* What a call that fails becomes.
LEMMA FailMoves ==
    ASSUME ProviderInv, NEW c \in Calls, Flying(c),
           NEW reason \in {"assertion", "no sponsor", "unavailable", "scope", "timeout", "dust",
                           "rejected", "network"},
           NEW circuit \in Scopes \cup {"none"}, FailWith(c, reason, circuit),
           UNCHANGED <<Shared, dust>>
    PROVE  ProviderInv'
<1> DEFINE next == [step |-> "failed", circuit |-> calls[c].circuit, veilId |-> calls[c].veilId,
                    reason |-> reason, mentions |-> circuit]
<1>1. calls[c] \in ProvingCalls \cup GatedCalls
  BY CallShape DEF ProviderInv
<1>2. next \in Moved /\ next.step = "failed"
  BY <1>1 DEF Moved, FailedCalls, ProvingCalls, GatedCalls
<1>3. calls' = [calls EXCEPT ![c] = next]
  BY DEF FailWith
<1> HIDE DEF next
<1> QED BY <1>2, <1>3, CallMoves DEF ProviderInv, ProviderTypeOK, Shared

\* What a call that goes to another step of a gated one becomes.
LEMMA GotoMoves ==
    ASSUME ProviderInv, NEW c \in Calls, calls[c].step \in GatedSteps, NEW step \in GatedSteps,
           Goto(c, step),
           UNCHANGED <<activeCircuit, overlapping>>,
           lastSubmittedTxId' \in {lastSubmittedTxId, c},
           dust' \in Nat,
           step = "balancing" => dust' >= calls[c].targetDust
    PROVE  ProviderInv'
<1> DEFINE next == [calls[c] EXCEPT !.step = step]
<1>1. calls[c] \in GatedCalls /\ Flying(c)
  BY CallShape DEF ProviderInv
<1>2. next \in GatedCalls /\ next.step = step /\ next.targetDust = calls[c].targetDust
  BY <1>1 DEF GatedCalls
<1>3. calls' = [calls EXCEPT ![c] = next]
  BY DEF Goto
<1>4. next \in Moved /\ next.step # "returned"
  BY <1>2 DEF Moved, GatedSteps
<1> HIDE DEF next
<1> QED BY <1>1, <1>2, <1>3, <1>4, CallMoves

-----------------------------------------------------------------------------
(* Steps *)

\* A call that finds another one in flight makes both of them overlapping.
LEMMA CallTxInv ==
    ASSUME ProviderInv, NEW c \in Calls, NEW circuit \in Circuits, NEW veilId \in VeilIds,
           CallTx(c, circuit, veilId)
    PROVE  ProviderInv'
<1> DEFINE next == [step |-> "proving", circuit |-> circuit, veilId |-> veilId]
<1>1. /\ calls[c].step = "new" /\ calls' = [calls EXCEPT ![c] = next]
      /\ activeCircuit' = circuit /\ lastSubmittedTxId' = 0 /\ UNCHANGED dust
      /\ overlapping' = overlapping \cup (IF InFlight = {} THEN {} ELSE InFlight \cup {c})
  BY DEF CallTx, CallAt
<1>2. next \in ProvingCalls /\ next.step = "proving"
  BY DEF ProvingCalls
<1> HIDE DEF next
<1>3. /\ calls'[c] = next /\ \A d \in Calls : d # c => calls'[d] = calls[d]
      /\ calls' \in [Calls -> NewCalls \cup Moved]
  BY <1>1, <1>2 DEF ProviderInv, ProviderTypeOK, Moved
<1>4. InFlight \subseteq Calls /\ \A d \in Calls : Flying(d) <=> d \in InFlight
  BY DEF InFlight, Flying
<1>5. ProviderTypeOK'
  BY <1>1, <1>3, <1>4 DEF ProviderInv, ProviderTypeOK, Scopes
<1>6. \A d \in Calls \ overlapping' : Flying(d)' => d = c /\ InFlight = {}
  BY <1>1, <1>3, <1>4 DEF Flying
<1>7. InFlight = {} => \A d \in Calls : Flying(d)' => d = c
  BY <1>3, <1>4 DEF Flying
<1>8. Alone'
  BY <1>1, <1>6, <1>7 DEF Alone
<1>9. AnswersOwnTxId'
  BY <1>1, <1>2, <1>3 DEF ProviderInv, AnswersOwnTxId, CallAt
<1>10. GateSuffices'
  BY <1>2, <1>3, <1>6 DEF GateSuffices, CallAt, Flying, Settled
<1> QED BY <1>5, <1>8, <1>9, <1>10 DEF ProviderInv

LEMMA ProveInv ==
    ASSUME ProviderInv, NEW c \in Calls, Prove(c)
    PROVE  ProviderInv'
<1>1. calls[c].step = "proving" /\ UNCHANGED <<Shared, dust>>
  BY DEF Prove, CallAt
<1>2. calls[c] \in ProvingCalls /\ Flying(c)
  BY <1>1, CallShape DEF ProviderInv
<1>3. ASSUME NEW targetDust \in {Fee, MinSponsoredDust},
             calls' = [calls EXCEPT ![c] = [step |-> "checking", circuit |-> @.circuit,
                                            veilId |-> @.veilId, targetDust |-> targetDust,
                                            scope |-> activeCircuit]]
      PROVE  ProviderInv'
  <2> DEFINE next == [step |-> "checking", circuit |-> calls[c].circuit, veilId |-> calls[c].veilId,
                      targetDust |-> targetDust, scope |-> activeCircuit]
  <2>1. targetDust \in Nat /\ activeCircuit \in Scopes
    BY DEF ProviderInv, ProviderTypeOK
  <2>2. next \in Moved /\ next.step = "checking"
    BY <1>2, <2>1 DEF Moved, GatedCalls, GatedSteps, ProvingCalls
  <2>3. calls' = [calls EXCEPT ![c] = next]
    BY <1>3
  <2> HIDE DEF next
  <2> QED BY <1>1, <1>2, <2>2, <2>3, CallMoves DEF ProviderInv, ProviderTypeOK, Shared
<1>4. CASE FailWith(c, "assertion", calls[c].circuit)
  <2>1. calls[c].circuit \in Scopes
    BY <1>2 DEF ProvingCalls, Scopes
  <2> QED BY <1>1, <1>2, <1>4, <2>1, FailMoves
<1> QED BY <1>3, <1>4 DEF Prove

LEMMA DustStepsInv ==
    ASSUME ProviderInv, NEW c \in Calls,
           \/ FindDust(c) \/ RequestSponsorship(c) \/ SponsorAnswers(c)
           \/ SeeSponsoredDust(c) \/ SponsoredDustTimesOut(c)
    PROVE  ProviderInv'
<1>1. /\ calls[c].step \in {"checking", "requesting", "waiting"}
      /\ UNCHANGED <<activeCircuit, lastSubmittedTxId, overlapping, dust>>
  BY DEF FindDust, RequestSponsorship, SponsorAnswers, SeeSponsoredDust, SponsoredDustTimesOut, CallAt, Shared
<1>2. calls[c].step \in GatedSteps /\ Flying(c) /\ dust' \in Nat
  BY <1>1 DEF GatedSteps, Flying, Settled, ProviderInv, ProviderTypeOK
<1>3. CASE FindDust(c) \/ SeeSponsoredDust(c)
  <2>1. Goto(c, "balancing") /\ dust >= calls[c].targetDust /\ "balancing" \in GatedSteps
    BY <1>3 DEF FindDust, SeeSponsoredDust, GatedSteps
  <2> QED BY <1>1, <1>2, <2>1, GotoMoves
<1>4. CASE Goto(c, "requesting")
  <2>1. "requesting" \in GatedSteps
    BY DEF GatedSteps
  <2> QED BY <1>1, <1>2, <1>4, <2>1, GotoMoves
<1>5. CASE Goto(c, "waiting")
  <2>1. "waiting" \in GatedSteps
    BY DEF GatedSteps
  <2> QED BY <1>1, <1>2, <1>5, <2>1, GotoMoves
<1>6. CASE \/ FailWith(c, "no sponsor", "none") \/ FailWith(c, "unavailable", "none")
           \/ FailWith(c, "scope", "Identity_register") \/ FailWith(c, "timeout", "none")
  <2>1. "Identity_register" \in Scopes
    BY DEF Scopes, Circuits
  <2> QED BY <1>1, <1>2, <1>6, <2>1, FailMoves DEF Shared
<1> QED BY <1>3, <1>4, <1>5, <1>6
        DEF RequestSponsorship, SponsorAnswers, SponsoredDustTimesOut

LEMMA SubmitStepsInv ==
    ASSUME ProviderInv, NEW c \in Calls,
           Balance(c) \/ SubmitReturns(c) \/ SubmitTimesOut(c)
    PROVE  ProviderInv'
<1>1. /\ calls[c].step \in {"balancing", "submitting"}
      /\ UNCHANGED <<activeCircuit, overlapping>>
  BY DEF Balance, SubmitReturns, SubmitTimesOut, CallAt, Shared
<1>2. calls[c].step \in GatedSteps /\ Flying(c) /\ dust \in Nat /\ activeCircuit \in Scopes
  BY <1>1 DEF GatedSteps, Flying, Settled, ProviderInv, ProviderTypeOK
<1>3. "submitting" \in GatedSteps /\ "confirming" \in GatedSteps
  BY DEF GatedSteps
<1>4. CASE Balance(c)
  <2>1. UNCHANGED lastSubmittedTxId
    BY <1>4 DEF Balance, Shared
  <2>2. CASE dust >= Fee /\ dust' = dust - Fee /\ Goto(c, "submitting")
    <3>1. dust' \in Nat
      BY <1>2, <2>2
    <3> QED BY <1>1, <1>2, <1>3, <2>1, <2>2, <3>1, GotoMoves
  <2>3. CASE FailWith(c, "dust", "none") /\ UNCHANGED dust
    BY <1>1, <1>2, <2>1, <2>3, FailMoves DEF Shared
  <2> QED BY <1>4, <2>2, <2>3 DEF Balance
<1>5. CASE SubmitReturns(c)
  BY <1>1, <1>2, <1>3, <1>5, GotoMoves DEF SubmitReturns
<1>6. CASE SubmitTimesOut(c)
  BY <1>2, <1>6, FailMoves DEF SubmitTimesOut
<1> QED BY <1>4, <1>5, <1>6

\* The call answers with the id submitted last, which is its own if it is alone.
LEMMA ConfirmInv ==
    ASSUME ProviderInv, NEW c \in Calls, Confirm(c)
    PROVE  ProviderInv'
<1> DEFINE txId == IF lastSubmittedTxId # 0 THEN lastSubmittedTxId ELSE c
           next == [step |-> "returned", circuit |-> calls[c].circuit, veilId |-> calls[c].veilId,
                    txId |-> txId]
<1>1. calls[c].step = "confirming" /\ UNCHANGED <<Shared, dust>>
  BY DEF Confirm, CallAt
<1>2. calls[c] \in GatedCalls /\ Flying(c)
  BY <1>1, CallShape DEF ProviderInv, GatedSteps
<1>3. CASE FailWith(c, "rejected", "none")
  BY <1>1, <1>2, <1>3, FailMoves
<1>4. CASE calls' = [calls EXCEPT ![c] = next]
  <2>1. txId \in Nat /\ (c \notin overlapping => txId = c)
    BY <1>2 DEF ProviderInv, ProviderTypeOK, Alone
  <2> HIDE DEF txId
  <2>2. next \in Moved /\ next.step = "returned" /\ next.txId = txId
    BY <1>2, <2>1 DEF Moved, ReturnedCalls, GatedCalls
  <2> HIDE DEF next
  <2> QED BY <1>1, <1>2, <1>4, <2>1, <2>2, CallMoves DEF ProviderInv, ProviderTypeOK, Shared
<1> QED BY <1>3, <1>4 DEF Confirm

LEMMA UnreachableInv ==
    ASSUME ProviderInv, NEW c \in Calls, Unreachable(c)
    PROVE  ProviderInv'
<1>1. Flying(c) /\ FailWith(c, "network", "none") /\ UNCHANGED <<Shared, dust>>
  BY DEF Unreachable, CallAt, Flying, Settled
<1> QED BY <1>1, FailMoves

LEMMA ProviderStepInv ==
    ASSUME ProviderInv,
           [ \/ ProviderNext
             \/ \E c \in Calls, circuit \in Circuits, veilId \in VeilIds :
                    CallTx(c, circuit, veilId) ]_providerVars
    PROVE  ProviderInv'
<1>1. CASE UNCHANGED <<Shared, calls>> /\ dust' \in Nat /\ dust' >= dust
  <2>1. ProviderTypeOK' /\ Alone' /\ AnswersOwnTxId'
    BY <1>1 DEF Shared, ProviderInv, ProviderTypeOK, Alone, Flying, AnswersOwnTxId, CallAt
  <2>2. \A c \in Calls : calls[c].step = "balancing" => calls[c].targetDust \in Nat
    BY CallShape DEF ProviderInv, GatedSteps, GatedCalls
  <2>3. GateSuffices'
    BY <1>1, <2>2 DEF Shared, ProviderInv, ProviderTypeOK, GateSuffices, CallAt
  <2> QED BY <2>1, <2>3 DEF ProviderInv
<1>2. CASE UNCHANGED providerVars
  BY <1>1, <1>2 DEF providerVars, Shared, ProviderInv, ProviderTypeOK
<1>3. ASSUME NEW c \in Calls, Land(c) PROVE ProviderInv'
  BY <1>1, <1>3 DEF Land, ProviderInv, ProviderTypeOK
<1>4. CASE GenerateDust
  BY <1>1, <1>4 DEF GenerateDust, ProviderInv, ProviderTypeOK
<1>5. CASE \E c \in Calls, circuit \in Circuits, veilId \in VeilIds : CallTx(c, circuit, veilId)
  BY <1>5, CallTxInv
<1>6. ASSUME NEW c \in Calls, CallStep(c) PROVE ProviderInv'
  BY <1>6, ProveInv, DustStepsInv, SubmitStepsInv, ConfirmInv DEF CallStep, TimedStep
<1> QED BY <1>2, <1>3, <1>4, <1>5, <1>6, UnreachableInv DEF ProviderNext

-----------------------------------------------------------------------------
(* Theorems *)

\* However many calls are made, one that overlapped no other answers with the id of its own
\* transaction (derived.ts:353-364 and 632-642).
THEOREM ProviderAnswersOwnTxId == ProviderSpec => []AnswersOwnTxId
<1>1. ProviderInv => AnswersOwnTxId
  BY DEF ProviderInv
<1> QED BY <1>1, ProviderInitInv, ProviderStepInv, PTL DEF ProviderSpec

\* Nor does it find less DUST than the gate let it through with (derived.ts:525-566).
THEOREM ProviderGateSuffices == ProviderSpec => []GateSuffices
<1>1. ProviderInv => GateSuffices
  BY DEF ProviderInv
<1> QED BY <1>1, ProviderInitInv, ProviderStepInv, PTL DEF ProviderSpec

-----------------------------------------------------------------------------
(* The hooks of a page *)

Submitted == {"submitting", "confirming", "returned", "failed"}
Hooks == {"resolve", "register", "prove", "check"}

PageTypeOK ==
    /\ chain \in [Calls -> {"none", "relayed", "applied", "rejected"}]
    /\ continuations \in [Calls -> {"none"} \cup Hooks]
    /\ signer \in VeilIds \cup {NoId}
    /\ \A f \in preparing : f.veilId \in VeilIds

\* What became of a call's transaction bears out what the call answers; an identity asserted of a
\* transaction that was applied is registered.
CallsBacked ==
    \A c \in Calls :
        /\ calls[c].step \notin Submitted => chain[c] = "none"
        /\ calls[c].step = "returned" => chain[c] = "applied"
        /\ chain[c] = "applied" /\ calls[c].circuit = "Identity_assertActive" =>
               calls[c].veilId \in RegisteredIds

\* A call that a hook awaits is the hook's, and of what is shown if its answer will be shown.
AwaitedIsShown ==
    \A c \in Calls :
        /\ continuations[c] # "none" => calls[c].step # "new"
        /\ continuations[c] = "resolve" =>
               /\ calls[c].circuit = "Identity_assertActive"
               /\ calls[c].veilId = signer /\ identity = signer
        /\ continuations[c] = "register" => calls[c].circuit = "Identity_register"
        /\ continuations[c] = "check" => calls[c].veilId = gatedId

PageInv ==
    ProviderInv /\ PageTypeOK /\ CallsBacked /\ AwaitedIsShown /\ RegisteredIsReal /\ DecisionIsForShown

\* A call that was made stays what it was made for.
CallsKept ==
    \A c \in Calls : calls[c].step # "new" =>
        /\ calls'[c].step # "new"
        /\ calls'[c].circuit = calls[c].circuit
        /\ calls'[c].veilId = calls[c].veilId

LEMMA MovedKeeps ==
    ASSUME ProviderTypeOK, NEW c \in Calls, NEW next,
           next.step # "new", next.circuit = calls[c].circuit, next.veilId = calls[c].veilId,
           calls' = [calls EXCEPT ![c] = next]
    PROVE  CallsKept
BY DEF ProviderTypeOK, CallsKept

LEMMA FailKeeps ==
    ASSUME ProviderTypeOK, NEW c \in Calls, NEW reason, NEW circuit, FailWith(c, reason, circuit)
    PROVE  CallsKept /\ calls'[c].step = "failed"
<1> DEFINE next == [step |-> "failed", circuit |-> calls[c].circuit, veilId |-> calls[c].veilId,
                    reason |-> reason, mentions |-> circuit]
<1>1. next.step = "failed" /\ next.circuit = calls[c].circuit /\ next.veilId = calls[c].veilId
  OBVIOUS
<1>2. calls' = [calls EXCEPT ![c] = next]
  BY DEF FailWith
<1> HIDE DEF next
<1>3. calls'[c] = next
  BY <1>2 DEF ProviderTypeOK
<1> QED BY <1>1, <1>2, <1>3, MovedKeeps

LEMMA GotoKeeps ==
    ASSUME ProviderTypeOK, NEW c \in Calls, calls[c].step \in GatedSteps,
           NEW step \in GatedSteps, Goto(c, step)
    PROVE  CallsKept /\ calls'[c].step = step
<1> DEFINE next == [calls[c] EXCEPT !.step = step]
<1>1. calls[c] \in GatedCalls
  BY CallShape
<1>2. /\ next.step = step /\ next.step # "new"
      /\ next.circuit = calls[c].circuit /\ next.veilId = calls[c].veilId
  BY <1>1 DEF GatedCalls, GatedSteps
<1>3. calls' = [calls EXCEPT ![c] = next]
  BY DEF Goto
<1> HIDE DEF next
<1>4. calls'[c] = next
  BY <1>3 DEF ProviderTypeOK
<1> QED BY <1>2, <1>3, <1>4, MovedKeeps

LEMMA AppliedGrows ==
    ASSUME CallsBacked, CallsKept,
           \A c \in Calls : chain[c] = "applied" => chain'[c] = "applied"
    PROVE  RegisteredIds \subseteq RegisteredIds'
<1>1. ASSUME NEW c \in Calls, chain[c] = "applied", calls[c].circuit = "Identity_register"
      PROVE  calls[c].veilId \in RegisteredIds'
  <2>1. calls[c].step # "new"
    BY <1>1 DEF CallsBacked, Submitted
  <2>2. calls'[c].veilId = calls[c].veilId /\ calls'[c].circuit = "Identity_register"
    BY <1>1, <2>1 DEF CallsKept
  <2> QED BY <1>1, <2>2 DEF RegisteredIds, Applied
<1> QED BY <1>1 DEF RegisteredIds, Applied

\* The transaction of a call is handed to the relay, if it changes.
LEMMA MoveBacked ==
    ASSUME PageTypeOK, CallsBacked, CallsKept, NEW c \in Calls,
           \A d \in Calls \ {c} : calls'[d] = calls[d],
           \/ chain' = chain
           \/ chain' = [chain EXCEPT ![c] = "relayed"] /\ chain[c] # "applied",
           calls[c].step # "new",
           calls'[c].step \notin Submitted => chain'[c] = "none",
           calls'[c].step = "returned" => chain'[c] = "applied"
    PROVE  /\ chain' \in [Calls -> {"none", "relayed", "applied", "rejected"}]
           /\ CallsBacked' /\ RegisteredIds \subseteq RegisteredIds'
<1>1. /\ chain' \in [Calls -> {"none", "relayed", "applied", "rejected"}]
      /\ \A d \in Calls : chain'[d] = "applied" <=> chain[d] = "applied"
      /\ \A d \in Calls \ {c} : chain'[d] = chain[d]
  BY DEF PageTypeOK
<1>2. RegisteredIds \subseteq RegisteredIds'
  BY <1>1, AppliedGrows
<1>3. \A d \in Calls : chain'[d] = "applied" =>
          calls'[d].veilId = calls[d].veilId /\ calls'[d].circuit = calls[d].circuit
  BY <1>1 DEF CallsBacked, Submitted, CallsKept
<1>4. CallsBacked'
  BY <1>1, <1>2, <1>3 DEF CallsBacked
<1> QED BY <1>1, <1>2, <1>4

LEMMA CallTxBacked ==
    ASSUME ProviderInv, PageTypeOK, CallsBacked,
           NEW c \in Calls, NEW circuit, NEW veilId, CallTx(c, circuit, veilId)
    PROVE  /\ CallsKept /\ CallsBacked' /\ RegisteredIds \subseteq RegisteredIds' /\ chain' = chain
           /\ calls'[c].step # "new" /\ calls'[c].circuit = circuit /\ calls'[c].veilId = veilId
           /\ calls[c].step = "new"
<1> DEFINE next == [step |-> "proving", circuit |-> circuit, veilId |-> veilId]
<1>1. calls[c].step = "new" /\ calls' = [calls EXCEPT ![c] = next] /\ chain' = chain
  BY DEF CallTx, CallAt
<1>2. next.step = "proving" /\ next.circuit = circuit /\ next.veilId = veilId
  OBVIOUS
<1> HIDE DEF next
<1>3. calls'[c] = next /\ \A d \in Calls \ {c} : calls'[d] = calls[d]
  BY <1>1 DEF ProviderInv, ProviderTypeOK
<1>4. CallsKept
  BY <1>1, <1>2, <1>3 DEF CallsKept
<1>5. RegisteredIds \subseteq RegisteredIds'
  BY <1>1, <1>4, AppliedGrows
<1>6. chain[c] = "none"
  BY <1>1 DEF CallsBacked, Submitted
<1>7. CallsBacked'
  BY <1>1, <1>2, <1>3, <1>5, <1>6 DEF CallsBacked
<1> QED BY <1>1, <1>2, <1>3, <1>4, <1>5, <1>7

LEMMA FailedBacked ==
    ASSUME ProviderInv, PageTypeOK, CallsBacked, NEW c \in Calls, calls[c].step # "new",
           NEW reason, NEW circuit, FailWith(c, reason, circuit), chain' = chain
    PROVE  /\ chain' \in [Calls -> {"none", "relayed", "applied", "rejected"}]
           /\ CallsKept /\ CallsBacked' /\ RegisteredIds \subseteq RegisteredIds'
<1>1. CallsKept /\ calls'[c].step = "failed"
  BY FailKeeps DEF ProviderInv
<1>2. \A d \in Calls \ {c} : calls'[d] = calls[d]
  BY DEF FailWith, ProviderInv, ProviderTypeOK
<1> QED BY <1>1, <1>2, MoveBacked DEF Submitted

LEMMA GoneBacked ==
    ASSUME ProviderInv, PageTypeOK, CallsBacked, NEW c \in Calls, calls[c].step \in GatedSteps,
           NEW step \in GatedSteps, Goto(c, step),
           \/ chain' = chain
           \/ chain' = [chain EXCEPT ![c] = "relayed"] /\ chain[c] # "applied",
           step \notin Submitted => calls[c].step \notin Submitted /\ chain' = chain
    PROVE  /\ chain' \in [Calls -> {"none", "relayed", "applied", "rejected"}]
           /\ CallsKept /\ CallsBacked' /\ RegisteredIds \subseteq RegisteredIds'
<1>1. CallsKept /\ calls'[c].step = step
  BY GotoKeeps DEF ProviderInv
<1>2. \A d \in Calls \ {c} : calls'[d] = calls[d]
  BY DEF Goto, ProviderInv, ProviderTypeOK
<1>3. calls[c].step # "new" /\ step # "returned"
  BY DEF GatedSteps
<1>4. step \notin Submitted => chain'[c] = "none"
  BY DEF CallsBacked
<1> QED BY <1>1, <1>2, <1>3, <1>4, MoveBacked

LEMMA StepBacked ==
    ASSUME ProviderInv, PageTypeOK, CallsBacked, NEW c \in Calls, CallStep(c) \/ Unreachable(c)
    PROVE  /\ chain' \in [Calls -> {"none", "relayed", "applied", "rejected"}]
           /\ CallsKept /\ CallsBacked' /\ RegisteredIds \subseteq RegisteredIds'
<1>1. CASE Unreachable(c)
  BY <1>1, FailedBacked DEF Unreachable, CallAt
<1>2. CASE Prove(c)
  <2>1. calls[c].step = "proving" /\ chain' = chain
    BY <1>2 DEF Prove, CallAt
  <2>2. ASSUME NEW targetDust \in {Fee, MinSponsoredDust},
               calls' = [calls EXCEPT ![c] = [step |-> "checking", circuit |-> @.circuit,
                                              veilId |-> @.veilId, targetDust |-> targetDust,
                                              scope |-> activeCircuit]]
        PROVE  /\ chain' \in [Calls -> {"none", "relayed", "applied", "rejected"}]
               /\ CallsKept /\ CallsBacked' /\ RegisteredIds \subseteq RegisteredIds'
    <3> DEFINE next == [step |-> "checking", circuit |-> calls[c].circuit, veilId |-> calls[c].veilId,
                        targetDust |-> targetDust, scope |-> activeCircuit]
    <3>1. /\ next.step = "checking" /\ next.circuit = calls[c].circuit
          /\ next.veilId = calls[c].veilId /\ calls' = [calls EXCEPT ![c] = next]
      BY <2>2
    <3> HIDE DEF next
    <3>2. CallsKept
      BY <3>1, MovedKeeps DEF ProviderInv
    <3>3. calls'[c].step = "checking" /\ \A d \in Calls \ {c} : calls'[d] = calls[d]
      BY <3>1 DEF ProviderInv, ProviderTypeOK
    <3>4. chain[c] = "none"
      BY <2>1 DEF CallsBacked, Submitted
    <3> QED BY <2>1, <3>2, <3>3, <3>4, MoveBacked
  <2> QED BY <1>2, <2>1, <2>2, FailedBacked DEF Prove
<1>3. CASE \/ FindDust(c) \/ RequestSponsorship(c) \/ SponsorAnswers(c)
           \/ SeeSponsoredDust(c) \/ SponsoredDustTimesOut(c)
  <2>1. calls[c].step \in {"checking", "requesting", "waiting"} /\ chain' = chain
    BY <1>3 DEF FindDust, RequestSponsorship, SponsorAnswers, SeeSponsoredDust, SponsoredDustTimesOut, CallAt
  <2>2. calls[c].step \in GatedSteps /\ calls[c].step \notin Submitted /\ calls[c].step # "new"
    BY <2>1 DEF GatedSteps, Submitted
  <2>3. \/ \E step \in {"balancing", "requesting", "waiting"} : Goto(c, step)
        \/ \E reason \in {"no sponsor", "unavailable", "scope", "timeout"},
              circuit \in {"none", "Identity_register"} : FailWith(c, reason, circuit)
    BY <1>3 DEF FindDust, RequestSponsorship, SponsorAnswers, SeeSponsoredDust, SponsoredDustTimesOut
  <2>4. {"balancing", "requesting", "waiting"} \subseteq GatedSteps
    BY DEF GatedSteps
  <2> QED BY <2>1, <2>2, <2>3, <2>4, FailedBacked, GoneBacked
<1>4. CASE Balance(c)
  <2>1. calls[c].step = "balancing" /\ chain[c] = "none" /\ calls[c].step \in GatedSteps
    BY <1>4 DEF Balance, CallAt, CallsBacked, Submitted, GatedSteps
  <2>2. "submitting" \in GatedSteps /\ "submitting" \in Submitted
    BY DEF GatedSteps, Submitted
  <2>3. CASE Goto(c, "submitting") /\ chain' \in {chain, [chain EXCEPT ![c] = "relayed"]}
    BY <2>1, <2>2, <2>3, GoneBacked
  <2>4. CASE FailWith(c, "dust", "none") /\ chain' = chain
    BY <2>1, <2>4, FailedBacked
  <2> QED BY <1>4, <2>3, <2>4 DEF Balance
<1>5. CASE SubmitReturns(c)
  <2>1. /\ calls[c].step \in GatedSteps /\ Goto(c, "confirming") /\ chain' = chain
        /\ "confirming" \in GatedSteps /\ "confirming" \in Submitted
    BY <1>5 DEF SubmitReturns, CallAt, GatedSteps, Submitted
  <2> QED BY <2>1, GoneBacked
<1>6. CASE SubmitTimesOut(c)
  BY <1>6, FailedBacked DEF SubmitTimesOut, CallAt
<1>7. CASE Confirm(c)
  <2>1. calls[c].step = "confirming" /\ chain' = chain
    BY <1>7 DEF Confirm, CallAt
  <2>2. CASE chain[c] = "applied"
    <3> DEFINE next == [step |-> "returned", circuit |-> calls[c].circuit, veilId |-> calls[c].veilId,
                        txId |-> IF lastSubmittedTxId # 0 THEN lastSubmittedTxId ELSE c]
    <3>1. /\ next.step = "returned" /\ next.circuit = calls[c].circuit
          /\ next.veilId = calls[c].veilId /\ calls' = [calls EXCEPT ![c] = next]
      BY <1>7, <2>2 DEF Confirm
    <3> HIDE DEF next
    <3>2. CallsKept
      BY <3>1, MovedKeeps DEF ProviderInv
    <3>3. calls'[c].step = "returned" /\ \A d \in Calls \ {c} : calls'[d] = calls[d]
      BY <3>1 DEF ProviderInv, ProviderTypeOK
    <3> QED BY <2>1, <2>2, <3>2, <3>3, MoveBacked DEF Submitted
  <2> QED BY <1>7, <2>1, <2>2, FailedBacked DEF Confirm
<1> QED BY <1>1, <1>2, <1>3, <1>4, <1>5, <1>6, <1>7 DEF CallStep, TimedStep

\* A transaction is applied if what its circuit asserts of the identity holds by then.
LEMMA LandBacked ==
    ASSUME ProviderInv, PageTypeOK, CallsBacked, NEW c \in Calls, Land(c)
    PROVE  /\ chain' \in [Calls -> {"none", "relayed", "applied", "rejected"}]
           /\ CallsKept /\ CallsBacked' /\ RegisteredIds \subseteq RegisteredIds'
<1>1. /\ chain[c] = "relayed" /\ calls' = calls
      /\ chain' = [chain EXCEPT ![c] = IF Asserted(calls[c].circuit, calls[c].veilId)
                                       THEN "applied" ELSE "rejected"]
  BY DEF Land
<1>2. /\ chain' \in [Calls -> {"none", "relayed", "applied", "rejected"}]
      /\ \A d \in Calls \ {c} : chain'[d] = chain[d]
      /\ chain'[c] # "none"
      /\ chain'[c] = "applied" => Asserted(calls[c].circuit, calls[c].veilId)
  BY <1>1 DEF PageTypeOK
<1>3. CallsKept
  BY <1>1 DEF CallsKept
<1>4. RegisteredIds \subseteq RegisteredIds'
  BY <1>1, <1>2, <1>3, AppliedGrows
<1>5. chain'[c] = "applied" /\ calls[c].circuit = "Identity_assertActive" =>
          calls[c].veilId \in RegisteredIds
  BY <1>2 DEF Asserted
<1>6. CallsBacked'
  BY <1>1, <1>2, <1>4, <1>5 DEF CallsBacked
<1> QED BY <1>2, <1>3, <1>4, <1>6

\* What the provider's part of a step keeps.
ProviderMoves ==
    /\ ProviderInv' /\ chain' \in [Calls -> {"none", "relayed", "applied", "rejected"}]
    /\ CallsKept /\ CallsBacked' /\ RegisteredIds \subseteq RegisteredIds'

USE HooksAssumption DEF HooksAssumption

LEMMA StillMoves ==
    ASSUME PageInv, UNCHANGED providerVars
    PROVE  ProviderMoves
<1>1. calls' = calls /\ chain' = chain
  BY DEF providerVars
<1>2. ProviderInv'
  BY ProviderStepInv DEF PageInv
<1>3. RegisteredIds' = RegisteredIds
  BY <1>1 DEF RegisteredIds, Applied
<1>4. CallsBacked' /\ CallsKept
  BY <1>1, <1>3 DEF PageInv, CallsBacked, CallsKept
<1> QED BY <1>1, <1>2, <1>3, <1>4 DEF ProviderMoves, PageInv, PageTypeOK

LEMMA NextMoves ==
    ASSUME PageInv, ProviderNext
    PROVE  ProviderMoves
<1>1. ProviderInv'
  BY ProviderStepInv DEF PageInv
<1>2. CASE GenerateDust
  <2>1. calls' = calls /\ chain' = chain
    BY <1>2 DEF GenerateDust, Shared
  <2>2. RegisteredIds' = RegisteredIds
    BY <2>1 DEF RegisteredIds, Applied
  <2>3. CallsBacked' /\ CallsKept
    BY <2>1, <2>2 DEF PageInv, CallsBacked, CallsKept
  <2> QED BY <1>1, <2>1, <2>2, <2>3 DEF ProviderMoves, PageInv, PageTypeOK
<1>3. ASSUME NEW c \in Calls, CallStep(c) \/ Unreachable(c)
      PROVE  ProviderMoves
  BY <1>1, <1>3, StepBacked DEF PageInv, ProviderMoves
<1>4. ASSUME NEW c \in Calls, Land(c)
      PROVE  ProviderMoves
  BY <1>1, <1>4, LandBacked DEF PageInv, ProviderMoves
<1> QED BY <1>2, <1>3, <1>4 DEF ProviderNext

LEMMA IssueMoves ==
    ASSUME PageInv, NEW hook \in Hooks, NEW circuit \in Circuits, NEW veilId \in VeilIds,
           NEW others \in [Calls -> {"none"} \cup Hooks], Issue(hook, circuit, veilId, others)
    PROVE  /\ ProviderMoves
           /\ continuations' \in [Calls -> {"none"} \cup Hooks]
           /\ \E c \in Calls :
                 /\ calls'[c].step # "new" /\ calls'[c].circuit = circuit /\ calls'[c].veilId = veilId
                 /\ continuations'[c] = hook
                 /\ \A d \in Calls \ {c} : continuations'[d] = others[d]
<1>1. PICK c \in Calls : CallTx(c, circuit, veilId) /\ continuations' = [others EXCEPT ![c] = hook]
  BY DEF Issue
<1>2. ProviderInv'
  BY <1>1, CallTxInv DEF PageInv
<1>3. /\ CallsKept /\ CallsBacked' /\ RegisteredIds \subseteq RegisteredIds' /\ chain' = chain
      /\ calls'[c].step # "new" /\ calls'[c].circuit = circuit /\ calls'[c].veilId = veilId
  BY <1>1, CallTxBacked DEF PageInv
<1>4. ProviderMoves
  BY <1>2, <1>3 DEF ProviderMoves, PageInv, PageTypeOK
<1> QED BY <1>1, <1>3, <1>4

\* A step of a hook that leaves its status, or sets another one than registered, shows no identity
\* that was not shown.
LEMMA StatusKept ==
    ASSUME PageInv, ProviderMoves,
           \/ idStatus' # "registered"
           \/ idStatus' = idStatus /\ strayed' = strayed /\ signer' = signer /\ identity' \in {identity, signer}
    PROVE  RegisteredIsReal'
BY DEF PageInv, ProviderMoves, RegisteredIsReal

\* The calls awaited remain so, or are cancelled.
LEMMA AwaitedKept ==
    ASSUME PageInv, ProviderMoves,
           \A c \in Calls : continuations'[c] \in {continuations[c], "none"},
           UNCHANGED <<signer, identity, gatedId>>
    PROVE  AwaitedIsShown'
BY DEF PageInv, ProviderMoves, CallsKept, AwaitedIsShown

LEMMA DecisionKept ==
    ASSUME PageInv, UNCHANGED checkState
    PROVE  DecisionIsForShown'
BY DEF PageInv, checkState, DecisionIsForShown

LEMMA ConcludeKeeps ==
    ASSUME PageInv, NEW c \in Calls, Conclude(c)
    PROVE  /\ continuations' \in [Calls -> {"none"} \cup Hooks]
           /\ \A d \in Calls : continuations'[d] \in {continuations[d], "none"}
BY DEF PageInv, PageTypeOK, Conclude

LEMMA CancelledKeeps ==
    ASSUME PageInv, NEW hook
    PROVE  /\ Cancelled(hook) \in [Calls -> {"none"} \cup Hooks]
           /\ \A d \in Calls : /\ Cancelled(hook)[d] \in {continuations[d], "none"}
                               /\ Cancelled(hook)[d] # hook \/ hook = "none"
BY DEF PageInv, PageTypeOK, Cancelled

LEMMA SwitchAccountPage ==
    ASSUME PageInv, SwitchAccount
    PROVE  PageInv'
<1>1. /\ UNCHANGED providerVars /\ UNCHANGED checkState /\ continuations' = Cancelled("resolve")
      /\ idStatus' # "registered" /\ signer' \in VeilIds \cup {NoId}
      /\ preparing' = Deriving(signer', preparing)
  BY DEF SwitchAccount
<1>2. ProviderMoves
  BY <1>1, StillMoves
<1>3. /\ continuations' \in [Calls -> {"none"} \cup Hooks]
      /\ \A c \in Calls : continuations'[c] \in {continuations[c], "none"} /\ continuations'[c] # "resolve"
  BY <1>1, CancelledKeeps
<1>4. PageTypeOK'
  BY <1>1, <1>2, <1>3 DEF ProviderMoves, PageTypeOK, PageInv, Deriving, Flow
<1>5. AwaitedIsShown'
  BY <1>1, <1>2, <1>3 DEF PageInv, ProviderMoves, CallsKept, AwaitedIsShown, checkState
<1> QED BY <1>1, <1>2, <1>4, <1>5, StatusKept, DecisionKept DEF PageInv, ProviderMoves

LEMMA DerivePage ==
    ASSUME PageInv, Derive
    PROVE  PageInv'
<1>1. /\ Flow("derive", signer) \in preparing /\ preparing' \subseteq preparing
      /\ UNCHANGED <<signer, strayed, checkState>>
  BY DEF Derive
<1>2. signer \in VeilIds /\ \A f \in preparing' : f.veilId \in VeilIds
  BY <1>1 DEF PageInv, PageTypeOK, Flow
<1>3. CASE identity' = signer /\ Issue("resolve", "Identity_assertActive", signer, continuations)
           /\ UNCHANGED idStatus
  <2>1. "resolve" \in Hooks /\ "Identity_assertActive" \in Circuits
        /\ continuations \in [Calls -> {"none"} \cup Hooks]
    BY DEF Hooks, Circuits, PageInv, PageTypeOK
  <2>2. ProviderMoves /\ continuations' \in [Calls -> {"none"} \cup Hooks]
    BY <1>2, <1>3, <2>1, IssueMoves
  <2>3. PICK c \in Calls :
              /\ calls'[c].step # "new" /\ calls'[c].circuit = "Identity_assertActive"
              /\ calls'[c].veilId = signer /\ continuations'[c] = "resolve"
              /\ \A d \in Calls \ {c} : continuations'[d] = continuations[d]
    BY <1>2, <1>3, <2>1, IssueMoves
  <2>4. AwaitedIsShown'
    BY <1>1, <1>3, <2>2, <2>3 DEF PageInv, ProviderMoves, CallsKept, AwaitedIsShown, checkState
  <2>5. PageTypeOK'
    BY <1>1, <1>2, <2>2 DEF PageInv, PageTypeOK, ProviderMoves
  <2>6. RegisteredIsReal'
    BY <1>1, <1>3, <2>2, StatusKept
  <2> QED BY <1>1, <2>2, <2>4, <2>5, <2>6, DecisionKept DEF PageInv, ProviderMoves
<1>4. CASE idStatus' = "error" /\ UNCHANGED <<identity, continuations, providerVars>>
  <2>1. ProviderMoves
    BY <1>4, StillMoves
  <2>2. AwaitedIsShown'
    BY <1>1, <1>4, <2>1, AwaitedKept DEF checkState
  <2>3. PageTypeOK'
    BY <1>1, <1>2, <1>4, <2>1 DEF PageInv, PageTypeOK, ProviderMoves
  <2> QED BY <1>1, <1>4, <2>1, <2>2, <2>3, StatusKept, DecisionKept DEF PageInv, ProviderMoves
<1> QED BY <1>3, <1>4 DEF Derive

\* assertActive answered for the account shown, so its identity is registered.
LEMMA ResolvePage ==
    ASSUME PageInv, NEW c \in Calls, Resolve(c)
    PROVE  PageInv'
<1>1. /\ Conclude(c) /\ continuations[c] = "resolve" /\ strayed' = FALSE
      /\ UNCHANGED <<signer, identity, preparing, checkState, providerVars>>
      /\ idStatus' = IF Resolved(c) = "registered" THEN "registered" ELSE "unregistered"
  BY DEF Resolve, Done
<1>2. ProviderMoves
  BY <1>1, StillMoves
<1>3. PageTypeOK' /\ AwaitedIsShown'
  BY <1>1, <1>2, ConcludeKeeps, AwaitedKept DEF PageInv, PageTypeOK, ProviderMoves, checkState
<1>4. idStatus' = "registered" => calls[c].step = "returned"
  BY <1>1 DEF Resolved, CallAt
<1>5. RegisteredIsReal'
  <2>1. identity = signer /\ calls[c].veilId = signer /\ calls[c].circuit = "Identity_assertActive"
    BY <1>1 DEF PageInv, AwaitedIsShown
  <2>2. idStatus' = "registered" => signer \in RegisteredIds
    BY <1>4, <2>1 DEF PageInv, CallsBacked
  <2> QED BY <1>1, <1>2, <2>1, <2>2 DEF RegisteredIsReal, ProviderMoves
<1> QED BY <1>1, <1>2, <1>3, <1>5, DecisionKept DEF PageInv, ProviderMoves

\* A registration that was applied is of the account shown, or strayed.
LEMMA ConcludeRegisterPage ==
    ASSUME PageInv, NEW c \in Calls, ConcludeRegister(c)
    PROVE  PageInv'
<1>1. /\ Conclude(c) /\ continuations[c] = "register" /\ strayed' = ({signer, identity} # {calls[c].veilId})
      /\ UNCHANGED <<signer, identity, preparing, checkState, providerVars>>
      /\ idStatus' = IF calls[c].step = "returned" THEN "registered" ELSE "error"
  BY DEF ConcludeRegister, Done, CallAt
<1>2. ProviderMoves
  BY <1>1, StillMoves
<1>3. PageTypeOK' /\ AwaitedIsShown'
  BY <1>1, <1>2, ConcludeKeeps, AwaitedKept DEF PageInv, PageTypeOK, ProviderMoves, checkState
<1>4. RegisteredIsReal'
  <2>1. idStatus' = "registered" => calls[c].veilId \in RegisteredIds
    BY <1>1 DEF PageInv, AwaitedIsShown, CallsBacked, RegisteredIds, Applied
  <2>2. ~strayed' => identity = calls[c].veilId /\ signer = calls[c].veilId
    BY <1>1
  <2> QED BY <1>1, <1>2, <2>1, <2>2 DEF RegisteredIsReal, ProviderMoves
<1> QED BY <1>1, <1>2, <1>3, <1>4, DecisionKept DEF PageInv, ProviderMoves

\* Steps that begin a flow, or conclude one that the identity shown does not depend on.
LEMMA QuietPage ==
    ASSUME PageInv, UNCHANGED <<signer, identity, strayed, checkState, providerVars>>,
           idStatus' \in {idStatus, "registering", "error"},
           continuations' \in [Calls -> {"none"} \cup Hooks],
           \A c \in Calls : continuations'[c] \in {continuations[c], "none"},
           \A f \in preparing' : f.veilId \in VeilIds
    PROVE  PageInv'
<1>1. ProviderMoves
  BY StillMoves
<1>2. PageTypeOK' /\ AwaitedIsShown'
  BY <1>1, AwaitedKept DEF PageInv, PageTypeOK, ProviderMoves, checkState
<1>3. RegisteredIsReal'
  BY <1>1, StatusKept
<1> QED BY <1>1, <1>2, <1>3, DecisionKept DEF PageInv, ProviderMoves

\* A call is issued of which no answer is shown as the state of the identity or as a decision.
LEMMA IssuePage ==
    ASSUME PageInv, NEW hook \in {"register", "prove"}, NEW circuit \in Circuits, NEW veilId \in VeilIds,
           hook = "register" => circuit = "Identity_register",
           Issue(hook, circuit, veilId, continuations),
           UNCHANGED <<identityState, checkState>>,
           \A f \in preparing' : f.veilId \in VeilIds
    PROVE  PageInv'
<1>1. hook \in Hooks /\ continuations \in [Calls -> {"none"} \cup Hooks]
  BY DEF Hooks, PageInv, PageTypeOK
<1>2. ProviderMoves /\ continuations' \in [Calls -> {"none"} \cup Hooks]
  BY <1>1, IssueMoves
<1>3. PICK c \in Calls :
          /\ calls'[c].step # "new" /\ calls'[c].circuit = circuit /\ continuations'[c] = hook
          /\ \A d \in Calls \ {c} : continuations'[d] = continuations[d]
  BY <1>1, IssueMoves
<1>4. AwaitedIsShown'
  BY <1>2, <1>3 DEF PageInv, ProviderMoves, CallsKept, AwaitedIsShown, identityState, checkState
<1>5. PageTypeOK'
  BY <1>2 DEF PageInv, PageTypeOK, ProviderMoves, identityState
<1>6. RegisteredIsReal'
  BY <1>2, StatusKept DEF identityState
<1> QED BY <1>2, <1>4, <1>5, <1>6, DecisionKept DEF PageInv, ProviderMoves

LEMMA RegisterNextPage ==
    ASSUME PageInv, RegisterNext
    PROVE  PageInv'
<1>1. /\ signer \in VeilIds \cup {NoId} /\ continuations \in [Calls -> {"none"} \cup Hooks]
      /\ \A f \in preparing : f.veilId \in VeilIds
  BY DEF PageInv, PageTypeOK
<1>2. CASE Register \/ ProveReputation
  <2>1. /\ UNCHANGED <<signer, identity, strayed, checkState, providerVars, continuations>>
        /\ idStatus' \in {idStatus, "registering", "error"}
        /\ \E hook \in {"register", "prove"} : preparing' = preparing \cup {Flow(hook, signer)}
        /\ signer # NoId
    BY <1>2 DEF Register, ProveReputation, identityState
  <2>2. \A f \in preparing' : f.veilId \in VeilIds
    BY <1>1, <2>1 DEF Flow
  <2> QED BY <1>1, <2>1, <2>2, QuietPage
<1>3. ASSUME NEW veilId \in VeilIds, SignRegistration(veilId)
      PROVE  PageInv'
  <2>1. \A f \in preparing' : f.veilId \in VeilIds
    BY <1>1, <1>3 DEF SignRegistration
  <2>2. CASE Issue("register", "Identity_register", veilId, continuations) /\ UNCHANGED idStatus
    <3>1. "Identity_register" \in Circuits /\ UNCHANGED <<identityState, checkState>>
      BY <1>3, <2>2 DEF SignRegistration, Circuits, identityState
    <3> QED BY <2>1, <2>2, <3>1, IssuePage
  <2>3. CASE idStatus' = "error" /\ UNCHANGED <<continuations, providerVars>>
    BY <1>1, <1>3, <2>1, <2>3, QuietPage DEF SignRegistration
  <2> QED BY <1>3, <2>2, <2>3 DEF SignRegistration
<1>4. ASSUME NEW veilId \in VeilIds, CollectWitness(veilId)
      PROVE  PageInv'
  <2>1. \A f \in preparing' : f.veilId \in VeilIds
    BY <1>1, <1>4 DEF CollectWitness
  <2>2. UNCHANGED <<identityState, checkState>>
    BY <1>4 DEF CollectWitness
  <2>3. CASE Issue("prove", "Reputation_prove", veilId, continuations)
    BY <2>1, <2>2, <2>3, IssuePage DEF Circuits
  <2>4. CASE UNCHANGED <<continuations, providerVars>>
    BY <1>1, <2>1, <2>2, <2>4, QuietPage DEF identityState
  <2> QED BY <1>4, <2>3, <2>4 DEF CollectWitness
<1>5. ASSUME NEW c \in Calls, ConcludeProve(c)
      PROVE  PageInv'
  <2>1. UNCHANGED <<signer, identity, strayed, idStatus, checkState, preparing, providerVars>> /\ Conclude(c)
    BY <1>5 DEF ConcludeProve, identityState
  <2> QED BY <1>1, <2>1, ConcludeKeeps, QuietPage
<1> QED BY <1>2, <1>3, <1>4, <1>5, SwitchAccountPage, DerivePage, ResolvePage, ConcludeRegisterPage
        DEF RegisterNext, HookStep

\* The check of the veilId shown is issued, and an earlier one is cancelled.
LEMMA GatePage ==
    ASSUME PageInv, NEW veilId \in GatedIds, Gate(veilId)
    PROVE  PageInv'
<1>1. /\ gatedId' = veilId /\ loading' = TRUE /\ UNCHANGED <<identityState, preparing>>
      /\ Issue("check", "Reputation_check", veilId, Cancelled("check"))
      /\ veilId \in VeilIds /\ "check" \in Hooks /\ "Reputation_check" \in Circuits
  BY DEF Gate, Hooks, Circuits
<1>2. /\ Cancelled("check") \in [Calls -> {"none"} \cup Hooks]
      /\ \A c \in Calls : /\ Cancelled("check")[c] \in {continuations[c], "none"}
                          /\ Cancelled("check")[c] # "check"
  BY CancelledKeeps
<1>3. ProviderMoves /\ continuations' \in [Calls -> {"none"} \cup Hooks]
  BY <1>1, <1>2, IssueMoves
<1>4. PICK c \in Calls :
          /\ calls'[c].step # "new" /\ calls'[c].veilId = veilId /\ continuations'[c] = "check"
          /\ \A d \in Calls \ {c} : continuations'[d] = Cancelled("check")[d]
  BY <1>1, <1>2, IssueMoves
<1>5. AwaitedIsShown'
  BY <1>1, <1>2, <1>3, <1>4 DEF PageInv, ProviderMoves, CallsKept, AwaitedIsShown, identityState
<1>6. PageTypeOK' /\ RegisteredIsReal'
  BY <1>1, <1>3, StatusKept DEF PageInv, PageTypeOK, ProviderMoves, identityState
<1>7. DecisionIsForShown'
  BY <1>1 DEF DecisionIsForShown
<1> QED BY <1>3, <1>5, <1>6, <1>7 DEF PageInv, ProviderMoves

LEMMA GateNothingPage ==
    ASSUME PageInv, GateNothing
    PROVE  PageInv'
<1>1. /\ gatedId' = NoId /\ decision' = NoDecision /\ continuations' = Cancelled("check")
      /\ UNCHANGED <<identityState, preparing, providerVars>>
  BY DEF GateNothing
<1>2. /\ continuations' \in [Calls -> {"none"} \cup Hooks]
      /\ \A c \in Calls : continuations'[c] \in {continuations[c], "none"} /\ continuations'[c] # "check"
  BY <1>1, CancelledKeeps
<1>3. ProviderMoves
  BY <1>1, StillMoves
<1>4. AwaitedIsShown'
  BY <1>1, <1>2, <1>3 DEF PageInv, ProviderMoves, CallsKept, AwaitedIsShown, identityState
<1>5. PageTypeOK' /\ RegisteredIsReal'
  BY <1>1, <1>2, <1>3, StatusKept DEF PageInv, PageTypeOK, ProviderMoves, identityState
<1>6. DecisionIsForShown'
  BY <1>1 DEF DecisionIsForShown, NoDecision
<1> QED BY <1>3, <1>4, <1>5, <1>6 DEF PageInv, ProviderMoves

\* A check that is still awaited is of the veilId shown, so its decision is.
LEMMA ConcludeCheckPage ==
    ASSUME PageInv, NEW c \in Calls, ConcludeCheck(c)
    PROVE  PageInv'
<1>1. /\ Conclude(c) /\ continuations[c] = "check" /\ calls[c].step \in Settled
      /\ UNCHANGED <<gatedId, identityState, preparing, providerVars>>
      /\ checkError' = (calls[c].step = "failed")
      /\ calls[c].step = "returned" => decision'.veilId = calls[c].veilId
  BY DEF ConcludeCheck, Done, CallAt
<1>2. ProviderMoves
  BY <1>1, StillMoves
<1>3. PageTypeOK' /\ AwaitedIsShown' /\ RegisteredIsReal'
  BY <1>1, <1>2, ConcludeKeeps, AwaitedKept, StatusKept DEF PageInv, PageTypeOK, ProviderMoves, identityState
<1>4. DecisionIsForShown'
  BY <1>1 DEF PageInv, AwaitedIsShown, DecisionIsForShown, Settled
<1> QED BY <1>2, <1>3, <1>4 DEF PageInv, ProviderMoves

LEMMA PageInitInv == HooksInit /\ ProviderInit => PageInv
<1> SUFFICES ASSUME HooksInit, ProviderInit PROVE PageInv
  OBVIOUS
<1>1. \A c \in Calls : calls[c].step = "new" /\ chain[c] = "none" /\ continuations[c] = "none"
  BY DEF HooksInit, ProviderInit
<1>2. PageTypeOK
  BY <1>1 DEF HooksInit, ProviderInit, PageTypeOK, Deriving, Flow
<1>3. CallsBacked /\ AwaitedIsShown
  BY <1>1 DEF CallsBacked, AwaitedIsShown
<1>4. RegisteredIsReal /\ DecisionIsForShown
  BY DEF HooksInit, RegisteredIsReal, DecisionIsForShown, NoDecision
<1> QED BY <1>2, <1>3, <1>4, ProviderInitInv DEF PageInv

LEMMA PageStepInv ==
    ASSUME PageInv, [HooksNext]_<<hookVars, providerVars>>
    PROVE  PageInv'
<1>1. CASE UNCHANGED hookVars /\ ProviderMoves
  <2>1. UNCHANGED <<identityState, checkState, preparing, continuations>>
    BY <1>1 DEF hookVars, identityState, checkState
  <2>2. AwaitedIsShown' /\ RegisteredIsReal' /\ DecisionIsForShown'
    BY <1>1, <2>1, AwaitedKept, StatusKept, DecisionKept DEF identityState, checkState
  <2>3. PageTypeOK'
    BY <1>1, <2>1 DEF PageInv, PageTypeOK, ProviderMoves, identityState
  <2> QED BY <1>1, <2>2, <2>3 DEF PageInv, ProviderMoves
<1>2. CASE GateNext
  BY <1>2, GatePage, GateNothingPage, ConcludeCheckPage DEF GateNext
<1> QED BY <1>1, <1>2, RegisterNextPage, NextMoves, StillMoves DEF HooksNext

\* On a page with VeilRegister and VeilGate over one provider, whatever the user, the wallet, the
\* sponsor and the chain do, an identity shown as registered is the account's and is registered,
\* unless it was set by a registration of another account (useIdentity.ts:36-83).
THEOREM HooksRegisteredIsReal == HooksSpec => []RegisteredIsReal
<1>1. PageInv => RegisteredIsReal
  BY DEF PageInv
<1> QED BY <1>1, PageInitInv, PageStepInv, PTL DEF HooksSpec

\* On such a page the decision shown without an error is of the veilId shown
\* (useReputationCheck.ts:41-70).
THEOREM HooksDecisionIsForShown == HooksSpec => []DecisionIsForShown
<1>1. PageInv => DecisionIsForShown
  BY DEF PageInv
<1> QED BY <1>1, PageInitInv, PageStepInv, PTL DEF HooksSpec

-----------------------------------------------------------------------------
(* The saved wallet state *)

OpenWallets == [step : {"reading"} \cup OpenSteps, seed : Seeds, state : Seeds]

\* An entry is of a seed that is saved under its key.
EntriesKeyed == \A k \in CacheKeys : cached[k] # NoSeed => CacheKeyOf[cached[k]] = k

\* WalletOfKey holds of a wallet from the moment its seed is known.
WalletsKeyed ==
    \A p \in WalletProviders :
        wallets[p] \in OpenWallets => CacheKeyOf[wallets[p].state] = EntryKey(p)

\* Saves are in flight only of a wallet that runs or stops, so what they write is of its seed.
SavesRunning ==
    \A p \in WalletProviders : saves[p] > 0 => wallets[p].step \in {"running", "stopping"}

WalletInv == WalletTypeOK /\ EntriesKeyed /\ WalletsKeyed

USE WalletCacheAssumption DEF WalletCacheAssumption

LEMMA WalletInitInv == WalletInit => WalletInv /\ SavesRunning
BY DEF WalletInit, SavesRunning, WalletInv, WalletTypeOK, EntriesKeyed, WalletsKeyed, Closed, OpenWallets

\* The wallet of one provider is exchanged for a keyed one; no entry is written.
LEMMA WalletMoves ==
    ASSUME WalletInv, NEW p \in WalletProviders, NEW next,
           next \in OpenWallets, CacheKeyOf[next.state] = CacheKeyOf[next.seed],
           wallets' = [wallets EXCEPT ![p] = next], cached' = cached,
           saves' \in [WalletProviders -> 0 .. MaxSaves]
    PROVE  WalletInv'
<1>1. WalletTypeOK' /\ EntriesKeyed'
  BY DEF WalletInv, WalletTypeOK, EntriesKeyed, OpenWallets
<1>2. \A q \in WalletProviders : wallets'[q] = IF q = p THEN next ELSE wallets[q]
  BY DEF WalletInv, WalletTypeOK
<1>3. WalletsKeyed'
  BY <1>2 DEF WalletInv, WalletsKeyed, EntryKey
<1> QED BY <1>1, <1>3 DEF WalletInv

LEMMA WalletCloses ==
    ASSUME WalletInv, NEW p \in WalletProviders, wallets' = [wallets EXCEPT ![p] = Closed]
    PROVE  wallets' \in [WalletProviders -> {Closed} \cup OpenWallets] /\ WalletsKeyed'
<1>1. Closed \notin OpenWallets
  BY DEF Closed, OpenWallets, OpenSteps
<1> QED BY <1>1 DEF WalletInv, WalletTypeOK, WalletsKeyed, OpenWallets, EntryKey

\* The state of an open wallet is written under its key.
LEMMA EntryWritten ==
    ASSUME WalletInv, NEW p \in WalletProviders, wallets[p] \in OpenWallets,
           cached' = [cached EXCEPT ![EntryKey(p)] = wallets[p].state]
    PROVE  cached' \in [CacheKeys -> Seeds \cup {NoSeed}] /\ EntriesKeyed'
<1>1. wallets[p].state \in Seeds /\ wallets[p].seed \in Seeds
  BY DEF OpenWallets
<1>2. EntryKey(p) \in CacheKeys /\ CacheKeyOf[wallets[p].state] = EntryKey(p)
  BY <1>1 DEF EntryKey, WalletInv, WalletsKeyed
<1> HIDE DEF EntryKey
<1> QED BY <1>1, <1>2 DEF WalletInv, WalletTypeOK, EntriesKeyed

LEMMA RestoreWalletInv ==
    ASSUME WalletInv, NEW p \in WalletProviders, RestoreWallet(p)
    PROVE  WalletInv'
<1>1. wallets[p] \in OpenWallets /\ CacheKeyOf[wallets[p].state] = EntryKey(p)
  BY DEF RestoreWallet, WalletAt, WalletInv, WalletTypeOK, WalletsKeyed, Closed, OpenWallets
<1>2. saves' \in [WalletProviders -> 0 .. MaxSaves] /\ cached' = cached
  BY DEF RestoreWallet, WalletInv, WalletTypeOK
<1>3. PICK entry \in LoadEntry(p) :
         wallets' = [wallets EXCEPT ![p].step = "joining",
                                    ![p].state = IF entry = NoSeed THEN @ ELSE entry]
  BY DEF RestoreWallet
<1> DEFINE state == IF entry = NoSeed THEN wallets[p].state ELSE entry
           next == [wallets[p] EXCEPT !.step = "joining", !.state = state]
<1>4. state \in Seeds /\ CacheKeyOf[state] = EntryKey(p)
  <2>1. EntryKey(p) \in CacheKeys
    BY <1>1 DEF EntryKey, OpenWallets
  <2>2. CASE entry = NoSeed
    BY <1>1, <2>2 DEF OpenWallets
  <2>3. CASE entry # NoSeed
    BY <2>1, <2>3 DEF LoadEntry, WalletInv, WalletTypeOK, EntriesKeyed
  <2> QED BY <2>2, <2>3
<1>5. wallets' = [wallets EXCEPT ![p] = next]
  BY <1>3 DEF WalletInv, WalletTypeOK
<1> HIDE DEF state
<1>6. next \in OpenWallets /\ next.state = state /\ next.seed = wallets[p].seed
  BY <1>1, <1>4 DEF OpenWallets, OpenSteps
<1>7. CacheKeyOf[next.state] = CacheKeyOf[next.seed]
  BY <1>4, <1>6 DEF EntryKey
<1> HIDE DEF next
<1> QED BY <1>2, <1>5, <1>6, <1>7, WalletMoves

\* An open wallet goes on, or is closed, and its saves are counted.
LEMMA WalletGoesOn ==
    ASSUME WalletInv, NEW p \in WalletProviders, wallets[p] \in OpenWallets,
           NEW step \in OpenSteps,
           WalletGoes(p, step) \/ wallets' = [wallets EXCEPT ![p] = Closed],
           cached' = cached, saves' \in [WalletProviders -> 0 .. MaxSaves]
    PROVE  WalletInv'
<1> DEFINE next == [wallets[p] EXCEPT !.step = step]
<1>1. CacheKeyOf[wallets[p].state] = CacheKeyOf[wallets[p].seed]
  BY DEF WalletInv, WalletsKeyed, EntryKey
<1>2. next \in OpenWallets /\ CacheKeyOf[next.state] = CacheKeyOf[next.seed]
  BY <1>1 DEF OpenWallets
<1>3. CASE WalletGoes(p, step)
  <2>1. wallets' = [wallets EXCEPT ![p] = next]
    BY <1>3 DEF WalletGoes, WalletInv, WalletTypeOK
  <2> HIDE DEF next
  <2> QED BY <1>2, <2>1, WalletMoves
<1>4. CASE wallets' = [wallets EXCEPT ![p] = Closed]
  BY <1>4, WalletCloses DEF WalletInv, EntriesKeyed, WalletTypeOK, OpenWallets
<1> QED BY <1>3, <1>4

LEMMA WriteEntryInv ==
    ASSUME WalletInv, SavesRunning, NEW p \in WalletProviders, WriteEntry(p)
    PROVE  WalletInv'
<1>0. wallets[p] \in OpenWallets
  BY DEF WriteEntry, SavesRunning, WalletInv, WalletTypeOK, Closed, OpenWallets
<1>1. wallets' = wallets /\ saves' \in [WalletProviders -> 0 .. MaxSaves]
  BY DEF WriteEntry, WalletInv, WalletTypeOK
<1>2. cached' \in [CacheKeys -> Seeds \cup {NoSeed}] /\ EntriesKeyed'
  <2>1. CASE UNCHANGED cached
    BY <2>1 DEF WalletInv, WalletTypeOK, EntriesKeyed
  <2> QED BY <1>0, <2>1, EntryWritten DEF WriteEntry
<1> QED BY <1>1, <1>2 DEF WalletInv, WalletTypeOK, WalletsKeyed, EntryKey

LEMMA LeavePageInv ==
    ASSUME WalletInv, NEW p \in WalletProviders, LeavePage(p)
    PROVE  WalletInv'
<1>1. wallets[p] \in OpenWallets
  BY DEF LeavePage, WalletInv, WalletTypeOK, Closed, OpenWallets, OpenSteps
<1>2. saves' \in [WalletProviders -> 0 .. MaxSaves]
  BY DEF LeavePage, WalletInv, WalletTypeOK
<1>3. cached' \in [CacheKeys -> Seeds \cup {NoSeed}] /\ EntriesKeyed'
  <2>1. CASE UNCHANGED cached
    BY <2>1 DEF WalletInv, WalletTypeOK, EntriesKeyed
  <2> QED BY <1>1, <2>1, EntryWritten DEF LeavePage
<1>4. wallets' \in [WalletProviders -> {Closed} \cup OpenWallets] /\ WalletsKeyed'
  BY WalletCloses DEF LeavePage
<1> QED BY <1>2, <1>3, <1>4 DEF WalletInv, WalletTypeOK, OpenWallets

LEMMA SavesStepInv ==
    ASSUME WalletInv, SavesRunning, [WalletNext]_walletVars
    PROVE  SavesRunning'
<1> USE DEF WalletInv, WalletTypeOK, SavesRunning
<1>1. CASE UNCHANGED walletVars
  BY <1>1 DEF walletVars
<1>2. ASSUME NEW p \in WalletProviders, saves[p] = 0, saves' = saves,
             \A q \in WalletProviders \ {p} : wallets'[q] = wallets[q]
      PROVE  SavesRunning'
  BY <1>2
<1>3. ASSUME NEW p \in WalletProviders,
             (\E seed \in Seeds : DeriveSeed(p, seed)) \/ WalletStopped(p)
      PROVE  SavesRunning'
  BY <1>2, <1>3 DEF DeriveSeed, WalletStopped
<1>4. ASSUME NEW p \in WalletProviders, RestoreWallet(p) \/ JoinVeil(p)
      PROVE  SavesRunning'
  <2>1. saves[p] = 0
    BY <1>4 DEF RestoreWallet, JoinVeil, WalletAt
  <2>2. saves' = saves /\ \A q \in WalletProviders \ {p} : wallets'[q] = wallets[q]
    BY <1>4 DEF RestoreWallet, JoinVeil, WalletGoes
  <2> QED BY <1>2, <2>1, <2>2
<1>5. ASSUME NEW p \in WalletProviders, SaveWallet(p) \/ WriteEntry(p)
      PROVE  SavesRunning'
  BY <1>5 DEF SaveWallet, WriteEntry, WalletAt
<1>6. ASSUME NEW p \in WalletProviders, StopWallet(p)
      PROVE  SavesRunning'
  <2>1. /\ wallets[p] \in OpenWallets /\ wallets' = [wallets EXCEPT ![p].step = "stopping"]
        /\ \A q \in WalletProviders \ {p} : saves'[q] = saves[q]
    BY <1>6 DEF StopWallet, WalletAt, WalletGoes, Closed, OpenWallets
  <2>2. wallets'[p].step = "stopping" /\ \A q \in WalletProviders \ {p} : wallets'[q] = wallets[q]
    BY <2>1 DEF OpenWallets
  <2> QED BY <2>1, <2>2
<1>7. ASSUME NEW p \in WalletProviders, LeavePage(p)
      PROVE  SavesRunning'
  BY <1>7 DEF LeavePage
<1> QED BY <1>1, <1>3, <1>4, <1>5, <1>6, <1>7 DEF WalletNext

LEMMA WalletStepInv ==
    ASSUME WalletInv, SavesRunning, [WalletNext]_walletVars
    PROVE  WalletInv'
<1>1. CASE UNCHANGED walletVars
  BY <1>1 DEF walletVars, WalletInv, WalletTypeOK, EntriesKeyed, WalletsKeyed, EntryKey
<1>2. ASSUME NEW p \in WalletProviders, NEW seed \in Seeds, DeriveSeed(p, seed)
      PROVE  WalletInv'
  <2> DEFINE next == [step |-> "reading", seed |-> seed, state |-> seed]
  <2>1. next \in OpenWallets /\ CacheKeyOf[next.state] = CacheKeyOf[next.seed]
    BY DEF OpenWallets
  <2>2. /\ wallets' = [wallets EXCEPT ![p] = next] /\ cached' = cached
        /\ saves' \in [WalletProviders -> 0 .. MaxSaves]
    BY <1>2 DEF DeriveSeed, WalletInv, WalletTypeOK
  <2> HIDE DEF next
  <2> QED BY <2>1, <2>2, WalletMoves
<1>3. ASSUME NEW p \in WalletProviders,
             JoinVeil(p) \/ SaveWallet(p) \/ StopWallet(p) \/ WalletStopped(p)
      PROVE  WalletInv'
  <2>1. wallets[p] \in OpenWallets
    BY <1>3 DEF JoinVeil, SaveWallet, StopWallet, WalletStopped, WalletAt, WalletInv, WalletTypeOK,
                Closed, OpenWallets
  <2>2. cached' = cached /\ saves' \in [WalletProviders -> 0 .. MaxSaves]
    BY <1>3 DEF JoinVeil, SaveWallet, StopWallet, WalletStopped, WalletInv, WalletTypeOK
  <2>3. CASE SaveWallet(p)
    BY <2>2, <2>3 DEF SaveWallet, WalletInv, WalletTypeOK, EntriesKeyed, WalletsKeyed, EntryKey
  <2> QED BY <1>3, <2>1, <2>2, <2>3, WalletGoesOn DEF JoinVeil, StopWallet, WalletStopped, OpenSteps
<1>4. ASSUME NEW p \in WalletProviders, WriteEntry(p)
      PROVE  WalletInv'
  BY <1>4, WriteEntryInv
<1> QED BY <1>1, <1>2, <1>3, <1>4, RestoreWalletInv, LeavePageInv DEF WalletNext

\* Whatever providers of whichever seeds save, restore, stop and leave, the state of a wallet is
\* of a seed saved under the same key (derived.ts:443-505).
THEOREM WalletsOfKey == WalletSpec => []WalletOfKey
<1>1. WalletInv => WalletOfKey
  BY DEF WalletInv, WalletTypeOK, WalletsKeyed, WalletOfKey, OpenWallets, OpenSteps, Closed
<1> QED BY <1>1, WalletInitInv, WalletStepInv, SavesStepInv, PTL DEF WalletSpec

=============================================================================
