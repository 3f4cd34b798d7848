------------------------------ MODULE Dashboard ------------------------------
(***************************************************************************)
(* The dashboard page, packages/apps/veil-ui/pages/dashboard.tsx: connect  *)
(* a wallet, sign, register and prove, with what is reached cached per     *)
(* account and carried by backups.  An operation captures the page's state *)
(* when it is clicked, and sets state when what it awaits is answered,     *)
(* whatever account the page shows by then.  A transaction or a proof is   *)
(* represented by the account it is of, a Veil ID and a lock hash by the   *)
(* account they are derived from.  A backup that may be of another         *)
(* contract, and what follows from one, is not own.                        *)
(***************************************************************************)
EXTENDS Naturals

CONSTANTS Accounts,
          Nobody,        \* no account, and no transaction or proof of one
          Slots,         \* bound on operations in flight at once
          MaxEvents      \* bound on changes of a connected account, exports, imports and reloads

ASSUME DashboardAssumption == Nobody \notin Accounts /\ Slots \subseteq Nat /\ MaxEvents \in Nat

VARIABLES account,       \* address, veilId and lockHash
          signature, registrationTx, shownProof,
          page,          \* state
          backupRestored,
          ops,           \* the operations in flight, with what they captured
          cache,         \* dashboard entries of localStorage
          backup,        \* the last backup exported
          onChain,       \* accounts with an identity, and with a proof
          events,        \* changes of a connected account, exports, imports and reloads so far
          mixed          \* history: what is shown came, since the account was activated, from an
                         \* operation of another account or from what is not own

dashboardVars == <<account, signature, registrationTx, shownProof, page, backupRestored,
                   ops, cache, backup, onChain, events, mixed>>
shown == <<account, signature, registrationTx, shownProof, page, backupRestored>>

Idle == [kind |-> "none"]
NoEntry == [account |-> Nobody]

Busy == page \in {"connecting", "signing", "preparing", "registering", "proving"}
WalletConnected == account # Nobody
IdentitySigned == \/ signature # Nobody
                  \/ page \in {"signed", "preparing", "registering", "registered", "proving", "proved"}
IdentityRegistered == registrationTx # Nobody \/ page \in {"registered", "proving", "proved"}
ReputationProved == shownProof # Nobody \/ page = "proved"
PrimaryEnabled == ~Busy /\ ~ReputationProved

DashboardInit ==
    /\ account = Nobody /\ signature = Nobody /\ registrationTx = Nobody /\ shownProof = Nobody
    /\ page = "idle" /\ backupRestored = FALSE
    /\ ops = [slot \in Slots |-> Idle]
    /\ cache = [a \in Accounts |-> NoEntry]
    /\ backup = NoEntry
    /\ onChain = [registered |-> {}, proved |-> {}]
    /\ events = 0
    /\ mixed = FALSE

\* The transaction that is captured is own unless it was shown by a page that is mixed.
Begin(kind, a, tx, file) ==
    \E slot \in Slots : /\ \A other \in Slots : ops[other] = Idle => slot <= other
                        /\ ops[slot] = Idle
                        /\ ops' = [ops EXCEPT ![slot] =
                                      [kind |-> kind, account |-> a, tx |-> tx, file |-> file,
                                       own |-> tx = Nobody \/ ~mixed]]
End(slot) == ops' = [ops EXCEPT ![slot] = Idle]

\* An operation sets what the page shows.
Mixes(slot) == mixed' = (mixed \/ ops[slot].account # account \/ ~ops[slot].own)
Event == events < MaxEvents /\ events' = events + 1

Entry(a, tx, proofOf, state, own) ==
    [account |-> a, registrationTx |-> tx, proof |-> proofOf, state |-> state, own |-> own]
\* Backups of other contracts on the network, and of this one by other browsers.
OtherBackups ==
    {Entry(a, a, Nobody, "registered", FALSE) : a \in Accounts}
        \cup {Entry(a, a, a, "proved", FALSE) : a \in Accounts}

Apply(entry) ==
    /\ account' = entry.account
    /\ registrationTx' = entry.registrationTx
    /\ shownProof' = entry.proof
    /\ page' = entry.state
    /\ backupRestored' = TRUE

\* Mutant of Activate: what the page shows of the account before is not cleared.
ActivateKeeping(selected) ==
    /\ signature' = Nobody
    /\ mixed' = (cache[selected] # NoEntry /\ ~cache[selected].own)
    /\ IF cache[selected] # NoEntry
       THEN Apply(cache[selected])
       ELSE /\ account' = selected
            /\ page' = "ready" /\ backupRestored' = FALSE
            /\ UNCHANGED <<registrationTx, shownProof>>

\* The rest of activateWallet, after the digest it awaits.
Activate(selected) ==
    /\ signature' = Nobody
    /\ mixed' = (cache[selected] # NoEntry /\ ~cache[selected].own)
    /\ IF cache[selected] # NoEntry
       THEN Apply(cache[selected])
       ELSE /\ account' = selected
            /\ registrationTx' = Nobody /\ shownProof' = Nobody
            /\ page' = "ready" /\ backupRestored' = FALSE

\* What the page shows when no account is selected.
ShowNobody ==
    /\ account' = Nobody /\ signature' = Nobody /\ registrationTx' = Nobody /\ shownProof' = Nobody
    /\ page' = "idle" /\ backupRestored' = FALSE
    /\ mixed' = FALSE

\* The wallet reports the account it has selected or that there is none, at first and after a change.
SyncAccounts ==
    /\ Event
    /\ \/ \E selected \in Accounts : Activate(selected)
       \/ ShowNobody
    /\ UNCHANGED <<ops, cache, backup, onChain>>

\* The primary button, or while an account is shown the one to use a different wallet, which is there
\* under the same condition (dashboard.tsx:925-933).
Connect ==
    /\ PrimaryEnabled
    /\ IF WalletConnected THEN Event ELSE UNCHANGED events
    /\ Begin("connecting", Nobody, Nobody, NoEntry)
    /\ page' = "connecting"
    /\ signature' = Nobody
    /\ UNCHANGED <<account, registrationTx, shownProof, backupRestored, cache, backup, onChain, mixed>>

Connected(slot, selected) ==
    /\ ops[slot].kind = "connecting"
    /\ End(slot)
    /\ Activate(selected)
    /\ UNCHANGED <<cache, backup, onChain, events>>

Sign ==
    /\ PrimaryEnabled /\ WalletConnected /\ ~IdentitySigned
    /\ Begin("signing", account, Nobody, NoEntry)
    /\ page' = "signing"
    /\ signature' = Nobody
    /\ UNCHANGED <<account, registrationTx, shownProof, backupRestored, cache, backup, onChain, events, mixed>>

Signed(slot) ==
    /\ ops[slot].kind = "signing"
    /\ End(slot)
    /\ signature' = ops[slot].account
    /\ page' = "signed"
    /\ Mixes(slot)
    /\ UNCHANGED <<account, registrationTx, shownProof, backupRestored, cache, backup, onChain, events>>

\* A transaction may have landed although its submission is not known to have succeeded.
MayHaveLanded(slot) ==
    LET a == ops[slot].account
    IN \/ UNCHANGED onChain
       \/ ops[slot].kind = "registering" /\ onChain' = [onChain EXCEPT !.registered = @ \cup {a}]
       \/ /\ ops[slot].kind = "proving" /\ a \in onChain.registered
          /\ onChain' = [onChain EXCEPT !.proved = @ \cup {a}]

\* Mutant of Fails: a failure is not shown.
FailsQuietly(slot) ==
    /\ ops[slot] # Idle
    /\ End(slot)
    /\ MayHaveLanded(slot)
    /\ UNCHANGED <<shown, cache, backup, events, mixed>>

\* Any operation that throws; the provider of a flow is stopped in its finally.
Fails(slot) ==
    /\ ops[slot] # Idle
    /\ End(slot)
    /\ page' = "error"
    /\ MayHaveLanded(slot)
    /\ UNCHANGED <<account, signature, registrationTx, shownProof, backupRestored, cache, backup, events, mixed>>

\* completeReputationProof.
CompleteProof ==
    /\ PrimaryEnabled /\ WalletConnected /\ IdentitySigned
    /\ Begin("preparing", account, registrationTx, NoEntry)
    /\ page' = "preparing"
    /\ shownProof' = Nobody
    /\ UNCHANGED <<account, signature, registrationTx, backupRestored, cache, backup, onChain, events, mixed>>

Persist(a, tx, proofOf, state, own) == cache' = [cache EXCEPT ![a] = Entry(a, tx, proofOf, state, own)]

\* Registered, now or before: the flow goes on to the proof.
ToProof(slot, tx, own) ==
    /\ Persist(ops[slot].account, tx, Nobody, "registered", own)
    /\ ops' = [ops EXCEPT ![slot].kind = "proving", ![slot].tx = tx, ![slot].own = own]
    /\ page' = "proving"

\* The provider is there.
Prepared(slot) ==
    /\ ops[slot].kind = "preparing"
    /\ IF ops[slot].tx # Nobody
       THEN ToProof(slot, ops[slot].tx, ops[slot].own)
       ELSE /\ ops' = [ops EXCEPT ![slot].kind = "registering"]
            /\ page' = "registering"
            /\ UNCHANGED cache
    /\ Mixes(slot)
    /\ UNCHANGED <<account, signature, registrationTx, shownProof, backupRestored, backup, onChain, events>>

\* Mutant of FinishRegistration: the progress is persisted for the account that is shown by now.
FinishRegistrationOfShown(slot) ==
    /\ ops[slot].kind = "registering"
    /\ LET a == ops[slot].account
       IN /\ onChain' = [onChain EXCEPT !.registered = @ \cup {a}]
          /\ registrationTx' = a
          /\ ops' = [ops EXCEPT ![slot].kind = "proving", ![slot].tx = a]
          /\ IF WalletConnected
             THEN Persist(account, a, Nobody, "registered", TRUE)
             ELSE UNCHANGED cache
    /\ page' = "proving"
    /\ Mixes(slot)
    /\ UNCHANGED <<account, signature, shownProof, backupRestored, backup, events>>

\* The registration landed, or failed with a message that says it is registered already, which of
\* the messages in src/ only the contract's does.
FinishRegistration(slot) ==
    /\ ops[slot].kind = "registering"
    /\ LET a == ops[slot].account
       IN /\ onChain' = [onChain EXCEPT !.registered = @ \cup {a}]
          /\ registrationTx' = a
          /\ ToProof(slot, a, TRUE)
    /\ Mixes(slot)
    /\ UNCHANGED <<account, signature, shownProof, backupRestored, backup, events>>

FinishProof(slot) ==
    /\ ops[slot].kind = "proving"
    /\ LET a == ops[slot].account
       IN /\ a \in onChain.registered
          /\ onChain' = [onChain EXCEPT !.proved = @ \cup {a}]
          /\ shownProof' = a
          /\ Persist(a, ops[slot].tx, a, "proved", ops[slot].own)
    /\ page' = "proved"
    /\ End(slot)
    /\ Mixes(slot)
    /\ UNCHANGED <<account, signature, registrationTx, backupRestored, backup, events>>

ExportBackup ==
    /\ WalletConnected /\ (IdentityRegistered \/ ReputationProved \/ backupRestored)
    /\ Event
    /\ backup' = Entry(account, registrationTx, shownProof,
                       IF ReputationProved THEN "proved" ELSE "registered", ~mixed)
    /\ UNCHANGED <<shown, ops, cache, onChain, mixed>>

\* A file of this version and network is chosen, of whatever contract; it is read, and databases are
\* restored from it, before the dashboard is.
ImportBackup ==
    /\ Event
    /\ WalletConnected /\ ~Busy
    /\ \E file \in OtherBackups \cup ({backup} \ {NoEntry}) : Begin("importing", account, Nobody, file)
    /\ UNCHANGED <<shown, cache, backup, onChain, mixed>>

\* What it restores is shown if it is of the account that was shown when the file was chosen.
Imported(slot) ==
    /\ ops[slot].kind = "importing"
    /\ End(slot)
    /\ LET file == ops[slot].file
       IN /\ cache' = [cache EXCEPT ![file.account] = file]
          /\ IF file.account = ops[slot].account
             THEN Apply(file) /\ mixed' = (mixed \/ file.account # account \/ ~file.own)
             ELSE UNCHANGED <<account, registrationTx, shownProof, page, backupRestored, mixed>>
    /\ UNCHANGED <<signature, backup, onChain, events>>

\* An export throws, possibly while an operation is in flight.
ExportFails ==
    /\ WalletConnected /\ (IdentityRegistered \/ ReputationProved \/ backupRestored)
    /\ page' = "error"
    /\ UNCHANGED <<account, signature, registrationTx, shownProof, backupRestored, ops, cache, backup,
                   onChain, events, mixed>>

\* The page is loaded again: what was submitted may land without it.
Reload ==
    /\ Event
    /\ \E landed \in SUBSET Slots :
          LET Landed(kind) == {ops[slot].account : slot \in {other \in landed : ops[other].kind = kind}}
          IN onChain' = [registered |-> onChain.registered \cup Landed("registering"),
                         proved |-> onChain.proved \cup (Landed("proving") \cap onChain.registered)]
    /\ ops' = [slot \in Slots |-> Idle]
    /\ ShowNobody
    /\ UNCHANGED <<cache, backup>>

DashboardNext ==
    \/ Connect \/ Sign \/ CompleteProof \/ ExportBackup \/ ImportBackup \/ ExportFails
    \/ SyncAccounts \/ Reload
    \/ \E slot \in Slots, selected \in Accounts : Connected(slot, selected)
    \/ \E slot \in Slots : \/ Signed(slot) \/ Imported(slot) \/ Prepared(slot) \/ FinishRegistration(slot)
                           \/ FinishProof(slot) \/ Fails(slot)

DashboardSpec == DashboardInit /\ [][DashboardNext]_dashboardVars
-----------------------------------------------------------------------------
(* Properties *)

\* The buttons are only disabled by an operation that is going to enable them again: whichever of
\* two operations in flight ends first, and whatever account is connected or selected meanwhile
\* (dashboard.tsx:453 and 631-780).
BusyAttended == Busy => \E slot \in Slots : ops[slot].kind \notin {"none", "importing"}

\* What the page shows is of the account it shows and has happened on the chain, also while
\* operations of other accounts are in flight: until one of them answers, or a backup that is not own
\* is shown, and again once an account is activated (dashboard.tsx:508-571 and 706-780).
PageShowsOwn ==
    mixed \/ /\ {signature, registrationTx, shownProof} \subseteq {Nobody, account}
             /\ IdentityRegistered => account \in onChain.registered
             /\ ReputationProved => account \in onChain.proved

\* What is cached for an account is of that account, and has happened on the chain unless it follows
\* from a backup or a page that was not own: whatever account is shown when an operation answers, its
\* progress is recorded for its own (dashboard.tsx:615-629, 737-762 and 833-836).
CacheTruthful ==
    \A a \in Accounts : cache[a] # NoEntry =>
        /\ cache[a].account = a
        /\ cache[a].own => /\ a \in onChain.registered
                           /\ cache[a].state = "proved" => a \in onChain.proved

=============================================================================
