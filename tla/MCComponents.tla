---------------------------- MODULE MCComponents ----------------------------
(***************************************************************************)
(* The components around the contract and the sponsorship that share no    *)
(* state with one another, each checked by itself on one instance: part    *)
(* chooses the component that steps.  A page with VeilRegister and a page  *)
(* with VeilGate are two parts; both have a provider of their own.         *)
(***************************************************************************)
EXTENDS TxQueue, RateLimiter, DeployService, VeilHooks, Dashboard, PrivateStateStore, SignalReader,
        WalletCache, TLC

CONSTANTS Parts,      \* the components to check
          s1, s2, s3, k1, k2

\* The addresses of two of the three accounts begin alike.
KeyByPrefix == s1 :> k1 @@ s2 :> k1 @@ s3 :> k2

VARIABLE part

backendVars == <<queueVars, rateVars, deployVars>>
pageVars == <<hookVars, providerVars>>

Init ==
    /\ part \in Parts
    /\ QueueInit /\ RateInit /\ DeployInit /\ StoreInit
    /\ HooksInit /\ ProviderInit /\ DashboardInit /\ ReaderInit /\ WalletInit
    \* What the other parts leave alone starts in one state.
    /\ part # "register" => signer = NoId
    /\ dust = IF part = "gate" THEN Fee ELSE 0
    /\ part # "reader" => pending = 0

Backend ==
    /\ \/ part = "queue" /\ QueueNext /\ UNCHANGED <<rateVars, deployVars>>
       \/ part = "rate" /\ (RateNext \/ Tick \/ DropRequests) /\ UNCHANGED <<queueVars, deployVars>>
       \/ part = "deploy" /\ (DeployNext \/ ExitProcess) /\ UNCHANGED <<queueVars, rateVars>>
    /\ UNCHANGED <<pageVars, dashboardVars, storeVars, readerVars, walletVars>>

Pages ==
    /\ \/ part = "register" /\ RegisterNext
       \/ part = "gate" /\ GateNext
       \/ part \in {"register", "gate"} /\ ProviderNext /\ UNCHANGED hookVars
    /\ UNCHANGED <<backendVars, dashboardVars, storeVars, readerVars, walletVars>>

Others ==
    /\ \/ part = "dashboard" /\ DashboardNext /\ UNCHANGED <<storeVars, readerVars, walletVars>>
       \/ part = "store" /\ StoreNext /\ UNCHANGED <<dashboardVars, readerVars, walletVars>>
       \/ part = "reader" /\ ReaderNext /\ UNCHANGED <<dashboardVars, storeVars, walletVars>>
       \/ part = "wallet" /\ WalletNext /\ UNCHANGED <<dashboardVars, storeVars, readerVars>>
    /\ UNCHANGED <<backendVars, pageVars>>

Next == (Backend \/ Pages \/ Others) /\ UNCHANGED part

Fairness == QueueFairness /\ HooksFairness /\ StoreFairness

vars == <<part, backendVars, pageVars, dashboardVars, storeVars, readerVars, walletVars>>

Spec == Init /\ [][Next]_vars /\ Fairness

=============================================================================
