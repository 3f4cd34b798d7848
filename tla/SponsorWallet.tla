--------------------------- MODULE SponsorWallet ---------------------------
(***************************************************************************)
(* The sponsor wallet of the backend: its NIGHT UTXOs on the chain and the *)
(* transactions it has submitted, as                                       *)
(* packages/backend/src/services/wallet-service.ts uses them.  The wallet  *)
(* is a dedicated one, as the backend's README asks for.                   *)
(*                                                                         *)
(* Registering a UTXO for DUST generation, deregistering it and splitting  *)
(* the pool all spend the UTXO and create another one.  A UTXO id          *)
(* (`intentHash#outputNo`) is <<c, v>>: the v-th UTXO of coin c.           *)
(***************************************************************************)
EXTENDS Naturals, FiniteSets

CONSTANTS
    Coins,          \* every coin there may ever be
    InitialCoins,   \* those the wallet is funded with
    Addresses,      \* DUST addresses of users
    Operating,      \* the wallet's own DUST address
    Free,           \* owner of a coin that is not registered
    Absent          \* owner of a coin that does not exist yet

ASSUME WalletAssumption ==
    /\ IsFiniteSet(Coins) /\ InitialCoins \subseteq Coins
    /\ Addresses \cap {Operating, Free, Absent} = {}
    /\ Operating # Free /\ Operating # Absent /\ Free # Absent

VARIABLES
    coin,           \* the chain: coin -> its current version, and whom its DUST goes to
    pending         \* transactions submitted and neither landed nor dropped

walletVars == <<coin, pending>>

UtxoIds == Coins \X Nat
Beneficiaries == Addresses \cup {Operating}
Transactions ==
    [inputs : SUBSET UtxoIds, to : Beneficiaries \cup {Free}, created : SUBSET Coins,
     booked : BOOLEAN]

WalletTypeOK ==
    /\ coin \in [Coins -> [version : Nat, owner : Beneficiaries \cup {Free, Absent}]]
    /\ pending \subseteq Transactions

WalletInit ==
    /\ coin = [c \in Coins |->
                 [version |-> 0, owner |-> IF c \in InitialCoins THEN Free ELSE Absent]]
    /\ pending = {}

-----------------------------------------------------------------------------
(* What the wallet sees once it is synced.  The inputs of its own pending  *)
(* transactions are booked, so they are not available; a wallet that is    *)
(* started again may have forgotten them.                                  *)

utxoId(c) == <<c, coin[c].version>>
Unspent(id) == id[2] = coin[id[1]].version
Booked == UNION {t.inputs : t \in {p \in pending : p.booked}}
availableCoins == {utxoId(c) : c \in {d \in Coins : coin[d].owner # Absent}} \ Booked
spendableUtxos == availableCoins  \* a variant with a bug, for a mutant
freeNightUtxos == {id \in availableCoins : coin[id[1]].owner = Free}
registeredUtxos == {id \in availableCoins : coin[id[1]].owner \in Beneficiaries}

-----------------------------------------------------------------------------
(* submitTransaction returns when the node has taken the transaction, which *)
(* it refuses to do if an input is spent or in use by another one.          *)
submitTransaction(inputs, to, created) ==
    /\ \A id \in inputs : Unspent(id) /\ \A t \in pending : id \notin t.inputs
    /\ pending' = pending \cup
          {[inputs |-> inputs, to |-> to, created |-> created, booked |-> TRUE]}

(* A transaction lands: each input is replaced by its next version,         *)
(* registered to the beneficiary or to nobody, and a split adds coins.      *)
Land(t) ==
    /\ coin' = [c \in Coins |->
          CASE c \in {id[1] : id \in t.inputs} -> [version |-> coin[c].version + 1, owner |-> t.to]
            [] c \in t.created -> [version |-> coin[c].version + 1, owner |-> Free]
            [] OTHER -> coin[c]]
    /\ pending' = pending \ {t}

(* It may also be refused by the ledger or run out of its ttl. *)
Drop(t) ==
    /\ pending' = pending \ {t}
    /\ UNCHANGED coin

(* The wallet is started again by a new process. *)
Forget == pending' = {[t EXCEPT !.booked = FALSE] : t \in pending}
=============================================================================
