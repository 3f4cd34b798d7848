----------------------------- MODULE WalletCache -----------------------------
(***************************************************************************)
(* The saved wallet state of the SDK's derived provider (derived.ts and    *)
(* idb-wallet-cache.ts of packages/sdk/src/providers), of the CLI          *)
(* (packages/cli/src/midnight-wallet-provider.ts) and of the backend       *)
(* (packages/backend/src/services/wallet-service.ts).  All three restore   *)
(* a wallet from the entry of a key, keep saving it under that key and     *)
(* save it once more when they stop.  They differ in the key: the network  *)
(* and the first 40 characters of the CKB address, the network alone, the  *)
(* network and the wallet's role.                                          *)
(***************************************************************************)
EXTENDS Naturals

CONSTANTS Seeds,             \* master seeds: of an account, typed in, or configured
          CacheKeys,
          CacheKeyOf,        \* the key a seed's wallet is saved under
          WalletProviders,   \* providers, in the pages or processes of one machine
          NoSeed,
          MaxSaves           \* bound on the saves of a provider in flight

ASSUME WalletCacheAssumption ==
    /\ CacheKeyOf \in [Seeds -> CacheKeys]
    /\ NoSeed \notin Seeds
    /\ MaxSaves \in Nat

VARIABLES cached,    \* of each key, the seed whose wallet state the entry holds
          wallets,   \* of each provider: how far it is, its seed, the seed of its wallet's state
          saves      \* its saves that have not settled

walletVars == <<cached, wallets, saves>>

Closed == [step |-> "closed"]
OpenSteps == {"joining", "running", "stopping"}

WalletTypeOK ==
    /\ cached \in [CacheKeys -> Seeds \cup {NoSeed}]
    /\ wallets \in [WalletProviders ->
           {Closed} \cup [step : {"reading"} \cup OpenSteps, seed : Seeds, state : Seeds]]
    /\ saves \in [WalletProviders -> 0 .. MaxSaves]

WalletInit ==
    /\ cached = [k \in CacheKeys |-> NoSeed]
    /\ wallets = [p \in WalletProviders |-> Closed]
    /\ saves = [p \in WalletProviders |-> 0]

WalletAt(p, step) == wallets[p].step = step
WalletGoes(p, step) == wallets' = [wallets EXCEPT ![p].step = step]

EntryKey(p) == CacheKeyOf[wallets[p].seed]

\* Mutant of LoadEntry: any key will do.
LoadAnyEntry(p) == {cached[k] : k \in CacheKeys} \cup {NoSeed}

\* What reading the entry may answer: nothing when it cannot be read (an error, a file half
\* written).
LoadEntry(p) == {cached[EntryKey(p)], NoSeed}

\* The seed is derived from the signer's signature, typed in or configured.
DeriveSeed(p, seed) ==
    /\ WalletAt(p, "closed")
    /\ saves[p] = 0     \* another provider has its own saves
    /\ wallets' = [wallets EXCEPT ![p] = [step |-> "reading", seed |-> seed, state |-> seed]]
    /\ UNCHANGED <<cached, saves>>

\* An entry is restored whoever's state it holds; without one the wallet starts from the seed.
RestoreWallet(p) ==
    /\ WalletAt(p, "reading")
    /\ \E entry \in LoadEntry(p) :
         wallets' = [wallets EXCEPT ![p].step = "joining",
                                    ![p].state = IF entry = NoSeed THEN @ ELSE entry]
    /\ UNCHANGED <<cached, saves>>

\* The provider joins the contract and starts the timer that saves, or throws.
JoinVeil(p) ==
    /\ WalletAt(p, "joining")
    /\ WalletGoes(p, "running") \/ wallets' = [wallets EXCEPT ![p] = Closed]
    /\ UNCHANGED <<cached, saves>>

\* By the timer, a submitted transaction, sponsored DUST or a finished sync.
SaveWallet(p) ==
    /\ WalletAt(p, "running")
    /\ saves[p] < MaxSaves
    /\ saves' = [saves EXCEPT ![p] = @ + 1]
    /\ UNCHANGED <<cached, wallets>>

\* The serialised state is written under the key of the provider's seed, or the write fails.
WriteEntry(p) ==
    /\ saves[p] > 0
    /\ saves' = [saves EXCEPT ![p] = @ - 1]
    /\ cached' = [cached EXCEPT ![EntryKey(p)] = wallets[p].state] \/ UNCHANGED cached
    /\ UNCHANGED wallets

\* The timer is cleared and the state saved a last time.
StopWallet(p) ==
    /\ WalletAt(p, "running")
    /\ saves[p] < MaxSaves
    /\ saves' = [saves EXCEPT ![p] = @ + 1]
    /\ WalletGoes(p, "stopping")
    /\ UNCHANGED cached

\* The last save has settled, whether it was written or not.
WalletStopped(p) ==
    /\ WalletAt(p, "stopping")
    /\ saves[p] = 0
    /\ wallets' = [wallets EXCEPT ![p] = Closed]
    /\ UNCHANGED <<cached, saves>>

\* The page is left or the process exits; what beforeunload saves may not be written any more.
LeavePage(p) ==
    /\ wallets[p].step \in {"reading"} \cup OpenSteps
    /\ wallets' = [wallets EXCEPT ![p] = Closed]
    /\ saves' = [saves EXCEPT ![p] = 0]
    /\ \/ UNCHANGED cached
       \/ /\ wallets[p].step \in {"running", "stopping"}
          /\ cached' = [cached EXCEPT ![EntryKey(p)] = wallets[p].state]

WalletNext ==
    \E p \in WalletProviders :
        \/ \E seed \in Seeds : DeriveSeed(p, seed)
        \/ RestoreWallet(p) \/ JoinVeil(p) \/ SaveWallet(p) \/ WriteEntry(p)
        \/ StopWallet(p) \/ WalletStopped(p) \/ LeavePage(p)

WalletSpec == WalletInit /\ [][WalletNext]_walletVars
-----------------------------------------------------------------------------
(* Properties *)

\* derived.ts:5-7: "All three Midnight sub-wallets (shielded NIGHT, unshielded NIGHT, DUST fees)
\* are derived from that seed": the state a provider works with is of its own seed.
WalletOfSeed ==
    \A p \in WalletProviders : wallets[p].step \in OpenSteps => wallets[p].state = wallets[p].seed

\* What does hold: however providers of several seeds are interleaved, stopped and left, the
\* state is of a seed that is saved under the same key (derived.ts:443-505).
WalletOfKey ==
    \A p \in WalletProviders :
        wallets[p].step \in OpenSteps => CacheKeyOf[wallets[p].state] = EntryKey(p)

=============================================================================
