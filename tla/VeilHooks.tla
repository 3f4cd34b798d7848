------------------------------ MODULE VeilHooks ------------------------------
(***************************************************************************)
(* The React bindings over one provider: useIdentity, useReputation and    *)
(* VeilRegister for the user's wallet, useReputationCheck and VeilGate for *)
(* the veilId a page shows (packages/react/src).  A hook's calls go        *)
(* through DerivedProvider; what follows an await is an action of its own, *)
(* and works on the variables its closure has captured.                    *)
(***************************************************************************)
EXTENDS DerivedProvider

CONSTANTS NoId,          \* null: no signer, identity, proof or decision
          GatedIds,      \* veilIds the page may show
          MaxSwitches    \* bound on changes of the wallet's account

ASSUME HooksAssumption == NoId \notin VeilIds /\ MaxSwitches \in Nat /\ GatedIds \subseteq VeilIds

VARIABLES signer,        \* the account ccc.useSigner() answers with, by its veilId
          identity, idStatus,
          proof, proofStatus,
          preparing,     \* flows that await a key, a signature or chain data before their call
          gatedId,       \* options.veilId of the check
          decision,      \* of which veilId, and whether it meets the threshold
          loading, checkError,
          continuations, \* what awaits each call
          switches,      \* changes of account so far
          strayed        \* history: idStatus was last set by a registration of another account

hookVars == <<signer, identity, idStatus, proof, proofStatus, preparing, gatedId, decision, loading,
              checkError, continuations, switches, strayed>>
identityState == <<signer, identity, idStatus, switches, strayed>>
reputationState == <<proof, proofStatus>>
checkState == <<gatedId, decision, loading, checkError>>

Flow(hook, veilId) == [flow |-> hook, veilId |-> veilId]

\* The effect of useIdentity begins to derive the identity of a signer, whatever came before.
Deriving(account, others) ==
    {f \in others : f.flow # "derive"} \cup IF account = NoId THEN {} ELSE {Flow("derive", account)}

NoDecision == [veilId |-> NoId, meets |-> FALSE]

HooksInit ==
    /\ signer \in VeilIds \cup {NoId} /\ identity = NoId
    /\ idStatus = IF signer = NoId THEN "idle" ELSE "deriving"
    /\ proof = NoId /\ proofStatus = "idle"
    /\ preparing = Deriving(signer, {})
    /\ gatedId = NoId /\ decision = NoDecision /\ loading = FALSE /\ checkError = FALSE
    /\ continuations = [c \in Calls |-> "none"]
    /\ switches = 0
    /\ strayed = FALSE

\* Cleaning an effect up cancels what awaits its call.
Cancelled(hook) == [c \in Calls |-> IF continuations[c] = hook THEN "none" ELSE continuations[c]]

\* The next call of a hook, and what awaits it.
Issue(hook, circuit, veilId, others) ==
    \E c \in Calls : /\ \A d \in Calls : calls[d].step = "new" => c <= d
                     /\ CallTx(c, circuit, veilId)
                     /\ continuations' = [others EXCEPT ![c] = hook]

\* The account changes: the effect of useIdentity runs again.
SwitchAccount ==
    /\ switches < MaxSwitches
    /\ switches' = switches + 1
    /\ \E account \in (VeilIds \cup {NoId}) \ {signer} :
         /\ signer' = account
         /\ IF account = NoId THEN identity' = NoId /\ idStatus' = "idle"
                              ELSE identity' = identity /\ idStatus' = "deriving"
         /\ preparing' = Deriving(account, preparing)
    /\ continuations' = Cancelled("resolve")
    /\ strayed' = FALSE
    /\ UNCHANGED <<reputationState, checkState, providerVars>>

\* deriveIdentity answers, and the state of the identity is asked for; or it throws.
Derive ==
    /\ Flow("derive", signer) \in preparing
    /\ preparing' = preparing \ {Flow("derive", signer)}
    /\ \/ /\ identity' = signer
          /\ Issue("resolve", "Identity_assertActive", signer, continuations)
          /\ UNCHANGED idStatus
       \/ /\ idStatus' = "error"
          /\ UNCHANGED <<identity, continuations, providerVars>>
    /\ UNCHANGED <<signer, switches, strayed, reputationState, checkState>>

\* resolveIdentityState: registered, not registered, or null, by what the error's message mentions.
Resolved(c) ==
    IF CallAt(c, "returned") THEN "registered"
    ELSE IF \/ calls[c].reason \in {"assertion", "scope"}
            \/ calls[c].mentions \in {"Identity_register", "Identity_assertActive"}
         THEN "unregistered" ELSE "null"

Done(c, hook) == calls[c].step \in Settled /\ continuations[c] = hook
Conclude(c) == continuations' = [continuations EXCEPT ![c] = "none"]

\* Mutants of Resolve: null is taken for registered; null leaves the status as it is.
ResolveNullRegistered(c) ==
    /\ Done(c, "resolve")
    /\ idStatus' = IF Resolved(c) = "unregistered" THEN "unregistered" ELSE "registered"
    /\ strayed' = FALSE
    /\ Conclude(c)
    /\ UNCHANGED <<signer, identity, switches, reputationState, checkState, preparing, providerVars>>

ResolveNullIgnored(c) ==
    /\ Done(c, "resolve")
    /\ idStatus' = IF Resolved(c) = "null" THEN idStatus ELSE Resolved(c)
    /\ strayed' = FALSE
    /\ Conclude(c)
    /\ UNCHANGED <<signer, identity, switches, reputationState, checkState, preparing, providerVars>>

Resolve(c) ==
    /\ Done(c, "resolve")
    /\ idStatus' = IF Resolved(c) = "registered" THEN "registered" ELSE "unregistered"
    /\ strayed' = FALSE
    /\ Conclude(c)
    /\ UNCHANGED <<signer, identity, switches, reputationState, checkState, preparing, providerVars>>

\* VeilRegister offers registration of what the hook says is unregistered; register() has no cleanup.
Register ==
    /\ idStatus = "unregistered"
    /\ signer # NoId /\ identity # NoId
    /\ Flow("register", signer) \notin preparing
    /\ preparing' = preparing \cup {Flow("register", signer)}
    /\ idStatus' = "registering"
    /\ UNCHANGED <<signer, identity, switches, strayed, reputationState, checkState, continuations,
                   providerVars>>

\* The wallet signs the registration, or refuses to.
SignRegistration(veilId) ==
    /\ Flow("register", veilId) \in preparing
    /\ preparing' = preparing \ {Flow("register", veilId)}
    /\ \/ /\ Issue("register", "Identity_register", veilId, continuations)
          /\ UNCHANGED idStatus
       \/ /\ idStatus' = "error"
          /\ UNCHANGED <<continuations, providerVars>>
    /\ UNCHANGED <<signer, identity, switches, strayed, reputationState, checkState>>

ConcludeRegister(c) ==
    /\ Done(c, "register")
    /\ idStatus' = IF CallAt(c, "returned") THEN "registered" ELSE "error"
    /\ strayed' = ({signer, identity} # {calls[c].veilId})
    /\ Conclude(c)
    /\ UNCHANGED <<signer, identity, switches, reputationState, checkState, preparing, providerVars>>

\* The button is there for a registered identity without a proof and without one being made.
ProveReputation ==
    /\ idStatus = "registered" /\ signer # NoId /\ proof = NoId
    /\ proofStatus \in {"idle", "error", "done"}
    /\ proofStatus' = "reading_chain_data"
    /\ preparing' = preparing \cup {Flow("prove", signer)}
    /\ UNCHANGED <<identityState, proof, checkState, continuations, providerVars>>

\* The signals are collected for the closure's signer, or the collection throws.
CollectWitness(veilId) ==
    /\ Flow("prove", veilId) \in preparing
    /\ preparing' = preparing \ {Flow("prove", veilId)}
    /\ \/ /\ Issue("prove", "Reputation_prove", veilId, continuations)
          /\ UNCHANGED proofStatus
       \/ /\ proofStatus' = "error"
          /\ UNCHANGED <<continuations, providerVars>>
    /\ UNCHANGED <<identityState, proof, checkState>>

ConcludeProve(c) ==
    /\ Done(c, "prove")
    /\ proofStatus' = IF CallAt(c, "returned") THEN "done" ELSE "error"
    /\ proof' = IF CallAt(c, "returned") THEN calls[c].veilId ELSE proof
    /\ Conclude(c)
    /\ UNCHANGED <<identityState, checkState, preparing, providerVars>>

\* Mutant of Gate: an earlier check is not cancelled.
GateNotCancelled(veilId) ==
    /\ veilId # gatedId
    /\ gatedId' = veilId
    /\ loading' = TRUE /\ checkError' = FALSE
    /\ Issue("check", "Reputation_check", veilId, continuations)
    /\ UNCHANGED <<decision, identityState, reputationState, preparing>>

\* The page shows another veilId: the effect of useReputationCheck runs again.
Gate(veilId) ==
    /\ veilId # gatedId
    /\ gatedId' = veilId
    /\ loading' = TRUE /\ checkError' = FALSE
    /\ Issue("check", "Reputation_check", veilId, Cancelled("check"))
    /\ UNCHANGED <<decision, identityState, reputationState, preparing>>

GateNothing ==
    /\ gatedId # NoId
    /\ gatedId' = NoId
    /\ decision' = NoDecision
    /\ continuations' = Cancelled("check")
    /\ UNCHANGED <<loading, checkError, identityState, reputationState, preparing, providerVars>>

\* A failed check leaves the decision there was.
ConcludeCheck(c) ==
    /\ Done(c, "check")
    /\ loading' = FALSE
    /\ IF CallAt(c, "returned")
       THEN \E meets \in BOOLEAN : decision' = [veilId |-> calls[c].veilId, meets |-> meets]
       ELSE UNCHANGED decision
    /\ checkError' = CallAt(c, "failed")
    /\ Conclude(c)
    /\ UNCHANGED <<gatedId, identityState, reputationState, preparing, providerVars>>

\* VeilGate renders its children.
GateOpen == ~loading /\ decision.meets

HookStep == Derive \/ \E c \in Calls : Resolve(c) \/ ConcludeRegister(c)

\* A page with VeilRegister, and a page with VeilGate.
RegisterNext ==
    \/ SwitchAccount \/ HookStep \/ Register \/ ProveReputation
    \/ \E veilId \in VeilIds : SignRegistration(veilId) \/ CollectWitness(veilId)
    \/ \E c \in Calls : ConcludeProve(c)

GateNext ==
    \/ \E veilId \in GatedIds : Gate(veilId)
    \/ GateNothing
    \/ \E c \in Calls : ConcludeCheck(c)

\* A page with both, over one provider.
HooksNext == RegisterNext \/ GateNext \/ (ProviderNext /\ UNCHANGED hookVars)
HooksSpec == HooksInit /\ ProviderInit /\ [][HooksNext]_<<hookVars, providerVars>>

\* Timers fire, and the code that awaits a call runs once the call has settled.  Nothing is asked of
\* the wallet, the proof server, the sponsor, the relay or the chain.
HooksFairness ==
    \A c \in Calls :
        /\ WF_<<hookVars, providerVars>>(Resolve(c) \/ ConcludeRegister(c))
        /\ WF_<<hookVars, providerVars>>(TimedStep(c) /\ UNCHANGED hookVars)

-----------------------------------------------------------------------------
(* Properties *)

\* An identity shown as registered is registered, unless registering one account was concluded
\* after the user had switched to another (useIdentity.ts:36-83).
RegisteredIsReal == idStatus = "registered" /\ ~strayed => identity = signer /\ identity \in RegisteredIds

\* Every wait without a timeout ends: the wallet signs the derivation of its identity or refuses, and
\* no call waits for ever for its proof, the sponsor, the balancing or the chain.
WaitsAnswered ==
    /\ []<>(Flow("derive", signer) \notin preparing)
    /\ \A c \in Calls : []<>~UntimedWait(c)

\* As long as every wait without a timeout ends, in an answer or an error, no page derives its
\* identity for ever: whether DUST shows or not, the relay answers or not, the call fails or the
\* account changes, the status becomes another one (useIdentity.ts:36-70).
DerivingEnds == WaitsAnswered => []<>(idStatus # "deriving")

\* The gate shows its children only for a veilId that a check has found to meet the threshold
\* (VeilGate.tsx:9 and 41-43).
GateIsForShown == GateOpen => decision.veilId = gatedId

\* Unless the check failed, the decision shown is of the veilId shown, and never the late answer
\* to an earlier check (useReputationCheck.ts:41-70).
DecisionIsForShown == ~loading /\ ~checkError => decision.veilId \in {NoId, gatedId}

=============================================================================
