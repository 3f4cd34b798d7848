--------------------------- MODULE DashboardProofs ---------------------------
(***************************************************************************)
(* Proofs about Dashboard, for any accounts and any number of operations   *)
(* in flight and of events.                                                *)
(***************************************************************************)
EXTENDS Dashboard, TLAPS

USE DashboardAssumption DEF DashboardAssumption

AnyAccount == Accounts \cup {Nobody}
Kinds == {"connecting", "signing", "preparing", "registering", "proving", "importing"}
Entries == [account : Accounts, registrationTx : AnyAccount, proof : AnyAccount,
            state : {"registered", "proved"}, own : BOOLEAN]
Files == {NoEntry} \cup Entries
Ops == [kind : Kinds, account : AnyAccount, tx : AnyAccount, file : Files, own : BOOLEAN]
OfAccount(op) == op.kind \notin {"none", "connecting"}

\* The types, and what holds whatever follows from what: an operation other than of connecting is of
\* an account, an import has a file, an entry is cached for its account, and a proof is of a
\* registered identity.
DashboardTypeOK ==
    /\ {account, signature, registrationTx, shownProof} \subseteq AnyAccount
    /\ backupRestored \in BOOLEAN /\ mixed \in BOOLEAN
    /\ ops \in [Slots -> {Idle} \cup Ops]
    /\ cache \in [Accounts -> Files]
    /\ backup \in Files
    /\ onChain \in [registered : SUBSET Accounts, proved : SUBSET Accounts]
    /\ onChain.proved \subseteq onChain.registered
    /\ \A slot \in Slots : OfAccount(ops[slot]) => ops[slot].account \in Accounts
    /\ \A slot \in Slots : ops[slot].kind = "importing" => ops[slot].file \in Entries
    /\ \A a \in Accounts : cache[a] # NoEntry => cache[a].account = a

\* What an own entry says has happened on the chain.
Truthful(entry) ==
    entry.own => /\ {entry.registrationTx, entry.proof} \subseteq {Nobody, entry.account}
                 /\ entry.account \in onChain.registered
                 /\ entry.proof # Nobody \/ entry.state = "proved" => entry.account \in onChain.proved

EntriesTruthful ==
    /\ \A a \in Accounts : cache[a] # NoEntry => Truthful(cache[a])
    /\ backup # NoEntry => Truthful(backup)

\* An own operation is of one account, which has the identity that the operation takes for registered.
OpsTruthful ==
    \A slot \in Slots :
        /\ OfAccount(ops[slot]) /\ ops[slot].own =>
               /\ ops[slot].tx \in {Nobody, ops[slot].account}
               /\ ops[slot].tx # Nobody \/ ops[slot].kind = "proving"
                      => ops[slot].account \in onChain.registered
        /\ ops[slot].kind = "importing" => Truthful(ops[slot].file)

\* What the page shows is of its account and has happened on the chain.
ShownTruthful ==
    ~mixed => /\ {signature, registrationTx, shownProof} \subseteq {Nobody, account}
              /\ registrationTx # Nobody \/ backupRestored \/ page \in {"registered", "proving", "proved"}
                     => account \in onChain.registered
              /\ shownProof # Nobody \/ page = "proved" => account \in onChain.proved

DashboardInv ==
    /\ DashboardTypeOK
    /\ BusyAttended
    /\ EntriesTruthful /\ OpsTruthful /\ ShownTruthful

-----------------------------------------------------------------------------
(* Lemmas *)

LEMMA IdleAndNoEntry ==
    /\ Idle.kind = "none" /\ Idle \notin Ops
    /\ NoEntry \notin Entries
BY DEF Idle, Ops, Kinds, NoEntry, Entries

LEMMA DashboardInitInv == DashboardInit => DashboardInv
<1> SUFFICES ASSUME DashboardInit PROVE DashboardInv
  OBVIOUS
<1>1. \A slot \in Slots : ops[slot] = Idle /\ ops[slot].kind = "none"
  BY DEF DashboardInit, Idle
<1>2. DashboardTypeOK
  BY <1>1 DEF DashboardInit, DashboardTypeOK, AnyAccount, OfAccount, Files
<1>3. EntriesTruthful /\ OpsTruthful /\ ShownTruthful
  BY <1>1 DEF DashboardInit, OpsTruthful, ShownTruthful, EntriesTruthful, OfAccount
<1> QED BY <1>2, <1>3 DEF DashboardInit, DashboardInv, BusyAttended, Busy

\* An operation is begun in a slot that is free.
Begun(slot, kind, a, tx, file) ==
    /\ ops' \in [Slots -> {Idle} \cup Ops]
    /\ ops[slot] = Idle
    /\ ops'[slot].kind = kind /\ ops'[slot].account = a
    /\ ops'[slot].tx = tx /\ ops'[slot].file = file
    /\ ops'[slot].own => tx = Nobody \/ ~mixed
    /\ \A other \in Slots : other # slot => ops'[other] = ops[other]

LEMMA BeginOps ==
    ASSUME DashboardTypeOK, NEW kind \in Kinds, NEW a \in AnyAccount, NEW tx \in AnyAccount,
           NEW file \in Files, Begin(kind, a, tx, file)
    PROVE  \E slot \in Slots : Begun(slot, kind, a, tx, file)
<1> DEFINE op == [kind |-> kind, account |-> a, tx |-> tx, file |-> file, own |-> tx = Nobody \/ ~mixed]
<1>1. PICK slot \in Slots : ops[slot] = Idle /\ ops' = [ops EXCEPT ![slot] = op]
  BY DEF Begin
<1>2. op \in Ops
  <2>1. (tx = Nobody \/ ~mixed) \in BOOLEAN
    OBVIOUS
  <2> QED BY <2>1 DEF Ops
<1> HIDE DEF op
<1>3. /\ ops' \in [Slots -> {Idle} \cup Ops] /\ ops'[slot] = op
      /\ \A other \in Slots : other # slot => ops'[other] = ops[other]
  BY <1>1, <1>2 DEF DashboardTypeOK
<1>4. op.kind = kind /\ op.account = a /\ op.tx = tx /\ op.file = file
  BY DEF op
<1>5. op.own => tx = Nobody \/ ~mixed
  BY Zenon DEF op
<1> QED BY <1>1, <1>3, <1>4, <1>5 DEF Begun

LEMMA EndOps ==
    ASSUME DashboardTypeOK, NEW slot \in Slots, End(slot)
    PROVE  /\ ops' \in [Slots -> {Idle} \cup Ops]
           /\ ops'[slot] = Idle /\ ops'[slot].kind = "none"
           /\ \A other \in Slots : other # slot => ops'[other] = ops[other]
BY IdleAndNoEntry DEF End, DashboardTypeOK

LEMMA ConnectInv ==
    ASSUME DashboardInv, Connect
    PROVE  DashboardInv'
<1>1. PICK slot \in Slots : Begun(slot, "connecting", Nobody, Nobody, NoEntry)
  <2>1. /\ Begin("connecting", Nobody, Nobody, NoEntry) /\ "connecting" \in Kinds
        /\ Nobody \in AnyAccount /\ NoEntry \in Files
    BY DEF Connect, Kinds, AnyAccount, Files
  <2>2. DashboardTypeOK
    BY DEF DashboardInv
  <2> QED BY <2>1, <2>2, BeginOps, ZenonT(60)
<1>2. UNCHANGED <<account, registrationTx, shownProof, backupRestored, cache, backup, onChain, mixed>>
      /\ signature' = Nobody /\ page' = "connecting"
  BY DEF Connect
<1>3. DashboardTypeOK'
  <2>1. /\ \A other \in Slots : OfAccount(ops'[other]) => ops'[other].account \in Accounts
        /\ \A other \in Slots : ops'[other].kind = "importing" => ops'[other].file \in Entries
        /\ ops' \in [Slots -> {Idle} \cup Ops]
    BY <1>1, <1>2 DEF Begun, DashboardInv, DashboardTypeOK, OfAccount
  <2> QED BY <1>2, <2>1 DEF DashboardInv, DashboardTypeOK, AnyAccount
<1>4. BusyAttended'
  BY <1>1 DEF Begun, BusyAttended
<1>5. (EntriesTruthful /\ OpsTruthful /\ ShownTruthful)'
  BY <1>1, <1>2 DEF Begun, DashboardInv, OpsTruthful, ShownTruthful, EntriesTruthful, Truthful, OfAccount
<1> QED BY <1>3, <1>4, <1>5 DEF DashboardInv

LEMMA SignInv ==
    ASSUME DashboardInv, Sign
    PROVE  DashboardInv'
<1>1. PICK slot \in Slots : Begun(slot, "signing", account, Nobody, NoEntry)
  <2>1. /\ Begin("signing", account, Nobody, NoEntry) /\ "signing" \in Kinds
        /\ Nobody \in AnyAccount /\ account \in AnyAccount /\ NoEntry \in Files
    BY DEF Sign, Kinds, AnyAccount, Files, DashboardInv, DashboardTypeOK
  <2>2. DashboardTypeOK
    BY DEF DashboardInv
  <2> QED BY <2>1, <2>2, BeginOps, ZenonT(60)
<1>2. /\ UNCHANGED <<account, registrationTx, shownProof, backupRestored, cache, backup, onChain, mixed>>
      /\ signature' = Nobody /\ page' = "signing"
      /\ account \in Accounts
  BY DEF Sign, WalletConnected, DashboardInv, DashboardTypeOK, AnyAccount
<1>3. DashboardTypeOK'
  <2>1. /\ \A other \in Slots : OfAccount(ops'[other]) => ops'[other].account \in Accounts
        /\ \A other \in Slots : ops'[other].kind = "importing" => ops'[other].file \in Entries
        /\ ops' \in [Slots -> {Idle} \cup Ops]
    BY <1>1, <1>2 DEF Begun, DashboardInv, DashboardTypeOK, OfAccount
  <2> QED BY <1>2, <2>1 DEF DashboardInv, DashboardTypeOK, AnyAccount
<1>4. BusyAttended'
  BY <1>1 DEF Begun, BusyAttended
<1>5. (EntriesTruthful /\ OpsTruthful /\ ShownTruthful)'
  BY <1>1, <1>2 DEF Begun, DashboardInv, OpsTruthful, ShownTruthful, EntriesTruthful, Truthful, OfAccount
<1> QED BY <1>3, <1>4, <1>5 DEF DashboardInv

LEMMA CompleteProofInv ==
    ASSUME DashboardInv, CompleteProof
    PROVE  DashboardInv'
<1>1. PICK slot \in Slots : Begun(slot, "preparing", account, registrationTx, NoEntry)
  <2>1. Begin("preparing", account, registrationTx, NoEntry) /\ "preparing" \in Kinds /\ NoEntry \in Files
    BY DEF CompleteProof, Kinds, Files
  <2>2. registrationTx \in AnyAccount /\ account \in AnyAccount
    BY DEF DashboardInv, DashboardTypeOK
  <2>3. DashboardTypeOK
    BY DEF DashboardInv
  <2> QED BY <2>1, <2>2, <2>3, BeginOps, ZenonT(60)
<1>2. /\ UNCHANGED <<account, signature, registrationTx, backupRestored, cache, backup, onChain, mixed>>
      /\ shownProof' = Nobody /\ page' = "preparing"
      /\ account \in Accounts
  BY DEF CompleteProof, WalletConnected, DashboardInv, DashboardTypeOK, AnyAccount
<1>3. DashboardTypeOK'
  <2>1. /\ \A other \in Slots : OfAccount(ops'[other]) => ops'[other].account \in Accounts
        /\ \A other \in Slots : ops'[other].kind = "importing" => ops'[other].file \in Entries
        /\ ops' \in [Slots -> {Idle} \cup Ops]
    BY <1>1, <1>2 DEF Begun, DashboardInv, DashboardTypeOK, OfAccount
  <2> QED BY <1>2, <2>1 DEF DashboardInv, DashboardTypeOK, AnyAccount
<1>4. BusyAttended'
  BY <1>1 DEF Begun, BusyAttended
<1>5. (EntriesTruthful /\ ShownTruthful)'
  BY <1>2 DEF DashboardInv, ShownTruthful, EntriesTruthful, Truthful
<1>6. OpsTruthful'
  BY <1>1, <1>2 DEF Begun, DashboardInv, OpsTruthful, ShownTruthful, Truthful, OfAccount
<1> QED BY <1>3, <1>4, <1>5, <1>6 DEF DashboardInv

\* The page shows the account and what is cached for it, and nothing else.
LEMMA ActivateShows ==
    ASSUME DashboardTypeOK, EntriesTruthful, NEW selected \in Accounts, Activate(selected),
           UNCHANGED onChain
    PROVE  /\ {account', signature', registrationTx', shownProof'} \subseteq AnyAccount
           /\ backupRestored' \in BOOLEAN /\ mixed' \in BOOLEAN
           /\ ~Busy'
           /\ ShownTruthful'
<1>1. CASE cache[selected] # NoEntry
  <2>1. cache[selected] \in Entries
    BY <1>1 DEF DashboardTypeOK, Files
  <2>2. /\ account' = cache[selected].account /\ registrationTx' = cache[selected].registrationTx
        /\ shownProof' = cache[selected].proof /\ page' = cache[selected].state
        /\ backupRestored' = TRUE /\ signature' = Nobody
        /\ mixed' = ~cache[selected].own
    BY <1>1 DEF Activate, Apply
  <2>3. page' \in {"registered", "proved"}
    BY <2>1, <2>2 DEF Entries
  <2>4. ShownTruthful'
    BY <1>1, <2>1, <2>2 DEF Entries, EntriesTruthful, Truthful, ShownTruthful
  <2> QED BY <2>1, <2>2, <2>3, <2>4 DEF Entries, AnyAccount, Busy
<1>2. CASE cache[selected] = NoEntry
  BY <1>2 DEF Activate, Busy, AnyAccount, ShownTruthful
<1> QED BY <1>1, <1>2

LEMMA SyncAccountsInv ==
    ASSUME DashboardInv, SyncAccounts
    PROVE  DashboardInv'
<1>1. UNCHANGED <<ops, cache, backup, onChain>>
  BY DEF SyncAccounts
<1>2. /\ {account', signature', registrationTx', shownProof'} \subseteq AnyAccount
      /\ backupRestored' \in BOOLEAN /\ mixed' \in BOOLEAN
      /\ ~Busy'
      /\ ShownTruthful'
  <2>1. CASE \E selected \in Accounts : Activate(selected)
    BY <1>1, <2>1, ActivateShows DEF DashboardInv
  <2>2. CASE ShowNobody
    BY <2>2 DEF ShowNobody, Busy, AnyAccount, ShownTruthful
  <2> QED BY <2>1, <2>2 DEF SyncAccounts
<1>3. DashboardTypeOK'
  BY <1>1, <1>2 DEF DashboardInv, DashboardTypeOK, OfAccount
<1>4. BusyAttended'
  BY <1>2 DEF BusyAttended
<1>5. (EntriesTruthful /\ OpsTruthful)'
  BY <1>1 DEF DashboardInv, OpsTruthful, EntriesTruthful, Truthful, OfAccount
<1> QED BY <1>2, <1>3, <1>4, <1>5 DEF DashboardInv

LEMMA ConnectedInv ==
    ASSUME DashboardInv, NEW slot \in Slots, NEW selected \in Accounts, Connected(slot, selected)
    PROVE  DashboardInv'
<1>1. UNCHANGED <<cache, backup, onChain>> /\ End(slot) /\ Activate(selected)
  BY DEF Connected
<1>2. /\ {account', signature', registrationTx', shownProof'} \subseteq AnyAccount
      /\ backupRestored' \in BOOLEAN /\ mixed' \in BOOLEAN
      /\ ~Busy'
      /\ ShownTruthful'
  BY <1>1, ActivateShows DEF DashboardInv
<1>3. /\ ops' \in [Slots -> {Idle} \cup Ops]
      /\ ops'[slot] = Idle /\ ops'[slot].kind = "none"
      /\ \A other \in Slots : other # slot => ops'[other] = ops[other]
  BY <1>1, EndOps DEF DashboardInv
<1>4. DashboardTypeOK'
  BY <1>1, <1>2, <1>3 DEF DashboardInv, DashboardTypeOK, OfAccount
<1>5. BusyAttended'
  BY <1>2 DEF BusyAttended
<1>6. (EntriesTruthful /\ OpsTruthful)'
  BY <1>1, <1>3 DEF DashboardInv, OpsTruthful, EntriesTruthful, Truthful, OfAccount
<1> QED BY <1>2, <1>4, <1>5, <1>6 DEF DashboardInv

LEMMA SignedInv ==
    ASSUME DashboardInv, NEW slot \in Slots, Signed(slot)
    PROVE  DashboardInv'
<1>1. /\ UNCHANGED <<account, registrationTx, shownProof, backupRestored, cache, backup, onChain>>
      /\ End(slot) /\ Mixes(slot) /\ ops[slot].kind = "signing"
      /\ signature' = ops[slot].account /\ page' = "signed"
  BY DEF Signed
<1>2. /\ ops' \in [Slots -> {Idle} \cup Ops]
      /\ ops'[slot] = Idle /\ ops'[slot].kind = "none"
      /\ \A other \in Slots : other # slot => ops'[other] = ops[other]
  BY <1>1, EndOps DEF DashboardInv
<1>3. signature' \in AnyAccount /\ mixed' \in BOOLEAN /\ (~mixed' => ~mixed /\ signature' = account)
  BY <1>1 DEF DashboardInv, DashboardTypeOK, AnyAccount, OfAccount, Mixes
<1>4. DashboardTypeOK'
  BY <1>1, <1>2, <1>3 DEF DashboardInv, DashboardTypeOK, OfAccount
<1>5. BusyAttended'
  BY <1>1 DEF BusyAttended, Busy
<1>6. (EntriesTruthful /\ OpsTruthful)'
  BY <1>1, <1>2 DEF DashboardInv, OpsTruthful, EntriesTruthful, Truthful, OfAccount
<1>7. ShownTruthful'
  BY <1>1, <1>3 DEF DashboardInv, ShownTruthful
<1> QED BY <1>4, <1>5, <1>6, <1>7 DEF DashboardInv

LEMMA FailsInv ==
    ASSUME DashboardInv, NEW slot \in Slots, Fails(slot)
    PROVE  DashboardInv'
<1>1. /\ UNCHANGED <<account, signature, registrationTx, shownProof, backupRestored, cache, backup, mixed>>
      /\ End(slot) /\ page' = "error" /\ MayHaveLanded(slot)
  BY DEF Fails
<1>2. /\ ops' \in [Slots -> {Idle} \cup Ops]
      /\ ops'[slot] = Idle /\ ops'[slot].kind = "none"
      /\ \A other \in Slots : other # slot => ops'[other] = ops[other]
  BY <1>1, EndOps DEF DashboardInv
<1>3. /\ onChain' \in [registered : SUBSET Accounts, proved : SUBSET Accounts]
      /\ onChain.registered \subseteq onChain'.registered
      /\ onChain.proved \subseteq onChain'.proved
      /\ onChain'.proved \subseteq onChain'.registered
  <2>1. CASE UNCHANGED onChain
    BY <2>1 DEF DashboardInv, DashboardTypeOK
  <2>2. CASE /\ ops[slot].kind = "registering"
             /\ onChain' = [onChain EXCEPT !.registered = @ \cup {ops[slot].account}]
    <3>1. ops[slot].account \in Accounts
      BY <2>2 DEF DashboardInv, DashboardTypeOK, OfAccount
    <3> QED BY <2>2, <3>1 DEF DashboardInv, DashboardTypeOK
  <2>3. CASE /\ ops[slot].kind = "proving" /\ ops[slot].account \in onChain.registered
             /\ onChain' = [onChain EXCEPT !.proved = @ \cup {ops[slot].account}]
    <3>1. ops[slot].account \in Accounts
      BY <2>3 DEF DashboardInv, DashboardTypeOK, OfAccount
    <3> QED BY <2>3, <3>1 DEF DashboardInv, DashboardTypeOK
  <2> QED BY <1>1, <2>1, <2>2, <2>3 DEF MayHaveLanded
<1>4. DashboardTypeOK'
  BY <1>1, <1>2, <1>3 DEF DashboardInv, DashboardTypeOK, OfAccount
<1>5. BusyAttended'
  BY <1>1 DEF BusyAttended, Busy
<1>6. EntriesTruthful'
  BY <1>1, <1>3 DEF DashboardInv, EntriesTruthful, Truthful
<1>7. OpsTruthful'
  BY <1>2, <1>3 DEF DashboardInv, OpsTruthful, Truthful, OfAccount
<1>8. ShownTruthful'
  BY <1>1, <1>3 DEF DashboardInv, ShownTruthful
<1> QED BY <1>4, <1>5, <1>6, <1>7, <1>8 DEF DashboardInv

\* What an operation of an account records when it goes on to the proof.
LEMMA ToProofRecords ==
    ASSUME DashboardTypeOK, NEW slot \in Slots, NEW tx \in AnyAccount, NEW own \in BOOLEAN,
           OfAccount(ops[slot]), ToProof(slot, tx, own)
    PROVE  LET a == ops[slot].account
           IN /\ a \in Accounts
              /\ ops' \in [Slots -> {Idle} \cup Ops]
              /\ ops'[slot].kind = "proving" /\ ops'[slot].account = a
              /\ ops'[slot].tx = tx /\ ops'[slot].own = own
              /\ \A other \in Slots : other # slot => ops'[other] = ops[other]
              /\ cache' \in [Accounts -> Files]
              /\ cache'[a] = Entry(a, tx, Nobody, "registered", own)
              /\ \A b \in Accounts : b # a => cache'[b] = cache[b]
              /\ page' = "proving"
<1> DEFINE a == ops[slot].account
           op == [ops[slot] EXCEPT !.kind = "proving", !.tx = tx, !.own = own]
           entry == Entry(a, tx, Nobody, "registered", own)
<1>1. a \in Accounts
  BY DEF DashboardTypeOK
<1>2. ops[slot] \in Ops
  BY IdleAndNoEntry DEF DashboardTypeOK, OfAccount
<1>3. op \in Ops /\ op.kind = "proving" /\ op.account = a /\ op.tx = tx /\ op.own = own
  BY <1>2 DEF Ops, Kinds
<1>4. entry \in Entries
  BY <1>1 DEF Entry, Entries, AnyAccount
<1>5. ops' = [ops EXCEPT ![slot] = op] /\ cache' = [cache EXCEPT ![a] = entry] /\ page' = "proving"
  BY <1>2 DEF ToProof, Persist, DashboardTypeOK, Ops
<1> HIDE DEF op, entry
<1>6. /\ ops' \in [Slots -> {Idle} \cup Ops] /\ ops'[slot] = op
      /\ \A other \in Slots : other # slot => ops'[other] = ops[other]
  BY <1>3, <1>5 DEF DashboardTypeOK
<1>7. /\ cache' \in [Accounts -> Files] /\ cache'[a] = entry
      /\ \A b \in Accounts : b # a => cache'[b] = cache[b]
  BY <1>1, <1>4, <1>5 DEF DashboardTypeOK, Files
<1> QED BY <1>1, <1>3, <1>5, <1>6, <1>7 DEF entry

LEMMA PreparedInv ==
    ASSUME DashboardInv, NEW slot \in Slots, Prepared(slot)
    PROVE  DashboardInv'
<1> DEFINE a == ops[slot].account
           tx == ops[slot].tx
           own == ops[slot].own
<1>1. /\ UNCHANGED <<account, signature, registrationTx, shownProof, backupRestored, backup, onChain>>
      /\ ops[slot].kind = "preparing" /\ OfAccount(ops[slot]) /\ Mixes(slot)
  BY DEF Prepared, OfAccount
<1>2. ops[slot] \in Ops /\ a \in Accounts /\ tx \in AnyAccount /\ own \in BOOLEAN
  <2>1. ops[slot] \in Ops
    BY <1>1, IdleAndNoEntry DEF DashboardInv, DashboardTypeOK
  <2> QED BY <1>1, <2>1 DEF DashboardInv, DashboardTypeOK, Ops
<1>3. mixed' \in BOOLEAN /\ (~mixed' => ~mixed /\ a = account /\ own)
  BY <1>1 DEF Mixes, DashboardInv, DashboardTypeOK
<1>4. CASE tx # Nobody
  <2>1. ToProof(slot, tx, own)
    BY <1>4 DEF Prepared
  <2>2. /\ ops' \in [Slots -> {Idle} \cup Ops]
        /\ ops'[slot].kind = "proving" /\ ops'[slot].account = a
        /\ ops'[slot].tx = tx /\ ops'[slot].own = own
        /\ \A other \in Slots : other # slot => ops'[other] = ops[other]
        /\ cache' \in [Accounts -> Files]
        /\ cache'[a] = Entry(a, tx, Nobody, "registered", own)
        /\ \A b \in Accounts : b # a => cache'[b] = cache[b]
        /\ page' = "proving"
    BY <1>1, <1>2, <2>1, ToProofRecords DEF DashboardInv
  <2>3. own => tx = a /\ a \in onChain.registered
    BY <1>1, <1>4 DEF DashboardInv, OpsTruthful
  <2>4. DashboardTypeOK'
    BY <1>1, <1>2, <1>3, <2>2 DEF DashboardInv, DashboardTypeOK, OfAccount, Entry
  <2>5. BusyAttended'
    BY <2>2 DEF BusyAttended
  <2>6. EntriesTruthful'
    BY <1>1, <2>2, <2>3 DEF DashboardInv, EntriesTruthful, Truthful, Entry
  <2>7. OpsTruthful'
    BY <1>1, <2>2, <2>3 DEF DashboardInv, OpsTruthful, Truthful, OfAccount
  <2>8. ShownTruthful'
    BY <1>1, <1>3, <2>2, <2>3 DEF DashboardInv, ShownTruthful
  <2> QED BY <2>4, <2>5, <2>6, <2>7, <2>8 DEF DashboardInv
<1>5. CASE tx = Nobody
  <2>1. ops' = [ops EXCEPT ![slot].kind = "registering"] /\ page' = "registering" /\ UNCHANGED cache
    BY <1>5 DEF Prepared
  <2>2. [ops[slot] EXCEPT !.kind = "registering"] \in Ops
    BY <1>2 DEF Ops, Kinds
  <2>3. /\ ops' \in [Slots -> {Idle} \cup Ops]
        /\ ops'[slot].kind = "registering" /\ ops'[slot].account = a /\ ops'[slot].tx = tx
        /\ \A other \in Slots : other # slot => ops'[other] = ops[other]
    BY <1>2, <2>1, <2>2 DEF DashboardInv, DashboardTypeOK, Ops
  <2>4. DashboardTypeOK'
    BY <1>1, <1>2, <1>3, <2>1, <2>3 DEF DashboardInv, DashboardTypeOK, OfAccount
  <2>5. BusyAttended'
    BY <2>3 DEF BusyAttended
  <2>6. (EntriesTruthful /\ OpsTruthful)'
    BY <1>1, <1>5, <2>1, <2>3 DEF DashboardInv, OpsTruthful, EntriesTruthful, Truthful, OfAccount
  <2>7. ShownTruthful'
    BY <1>1, <1>3, <2>1 DEF DashboardInv, ShownTruthful
  <2> QED BY <2>4, <2>5, <2>6, <2>7 DEF DashboardInv
<1> QED BY <1>4, <1>5

LEMMA FinishRegistrationInv ==
    ASSUME DashboardInv, NEW slot \in Slots, FinishRegistration(slot)
    PROVE  DashboardInv'
<1> DEFINE a == ops[slot].account
<1>1. /\ UNCHANGED <<account, signature, shownProof, backupRestored, backup>>
      /\ ops[slot].kind = "registering" /\ OfAccount(ops[slot]) /\ Mixes(slot)
      /\ onChain' = [onChain EXCEPT !.registered = @ \cup {a}]
      /\ registrationTx' = a /\ ToProof(slot, a, TRUE)
  BY DEF FinishRegistration, OfAccount
<1>2. a \in Accounts /\ a \in AnyAccount
  BY <1>1 DEF DashboardInv, DashboardTypeOK, AnyAccount
<1>3. /\ ops' \in [Slots -> {Idle} \cup Ops]
      /\ ops'[slot].kind = "proving" /\ ops'[slot].account = a
      /\ ops'[slot].tx = a /\ ops'[slot].own = TRUE
      /\ \A other \in Slots : other # slot => ops'[other] = ops[other]
      /\ cache' \in [Accounts -> Files]
      /\ cache'[a] = Entry(a, a, Nobody, "registered", TRUE)
      /\ \A b \in Accounts : b # a => cache'[b] = cache[b]
      /\ page' = "proving"
  BY <1>1, <1>2, ToProofRecords DEF DashboardInv
<1>4. /\ onChain' \in [registered : SUBSET Accounts, proved : SUBSET Accounts]
      /\ onChain'.registered = onChain.registered \cup {a} /\ onChain'.proved = onChain.proved
  BY <1>1, <1>2 DEF DashboardInv, DashboardTypeOK
<1>5. mixed' \in BOOLEAN /\ (~mixed' => ~mixed /\ a = account)
  BY <1>1 DEF Mixes, DashboardInv, DashboardTypeOK
<1>6. DashboardTypeOK'
  BY <1>1, <1>2, <1>3, <1>4, <1>5 DEF DashboardInv, DashboardTypeOK, OfAccount, Entry
<1>7. BusyAttended'
  BY <1>3 DEF BusyAttended
<1>8. EntriesTruthful'
  BY <1>1, <1>3, <1>4 DEF DashboardInv, EntriesTruthful, Truthful, Entry
<1>9. OpsTruthful'
  BY <1>1, <1>3, <1>4 DEF DashboardInv, OpsTruthful, Truthful, OfAccount
<1>10. ShownTruthful'
  BY <1>1, <1>3, <1>4, <1>5 DEF DashboardInv, ShownTruthful
<1> QED BY <1>6, <1>7, <1>8, <1>9, <1>10 DEF DashboardInv

LEMMA FinishProofInv ==
    ASSUME DashboardInv, NEW slot \in Slots, FinishProof(slot)
    PROVE  DashboardInv'
<1> DEFINE a == ops[slot].account
           entry == Entry(a, ops[slot].tx, a, "proved", ops[slot].own)
<1>1. /\ UNCHANGED <<account, signature, registrationTx, backupRestored, backup>>
      /\ ops[slot].kind = "proving" /\ OfAccount(ops[slot]) /\ Mixes(slot)
      /\ a \in onChain.registered
      /\ onChain' = [onChain EXCEPT !.proved = @ \cup {a}]
      /\ shownProof' = a /\ page' = "proved" /\ cache' = [cache EXCEPT ![a] = entry]
      /\ End(slot)
  BY DEF FinishProof, OfAccount, Persist
<1>2. /\ ops[slot] \in Ops /\ a \in Accounts /\ a \in AnyAccount
      /\ ops[slot].tx \in AnyAccount /\ ops[slot].own \in BOOLEAN
  <2>1. ops[slot] \in Ops
    BY <1>1, IdleAndNoEntry DEF DashboardInv, DashboardTypeOK
  <2> QED BY <1>1, <2>1 DEF DashboardInv, DashboardTypeOK, Ops, AnyAccount
<1>3. /\ ops' \in [Slots -> {Idle} \cup Ops]
      /\ ops'[slot] = Idle /\ ops'[slot].kind = "none"
      /\ \A other \in Slots : other # slot => ops'[other] = ops[other]
  BY <1>1, EndOps DEF DashboardInv
<1>4. entry \in Entries /\ entry.account = a
  BY <1>2 DEF Entry, Entries
<1>5. /\ cache' \in [Accounts -> Files]
      /\ cache'[a] = entry
      /\ \A b \in Accounts : b # a => cache'[b] = cache[b]
  <2> HIDE DEF entry
  <2> QED BY <1>1, <1>2, <1>4 DEF DashboardInv, DashboardTypeOK, Files
<1>6. /\ onChain' \in [registered : SUBSET Accounts, proved : SUBSET Accounts]
      /\ onChain'.proved = onChain.proved \cup {a} /\ onChain'.registered = onChain.registered
  BY <1>1, <1>2 DEF DashboardInv, DashboardTypeOK
<1>7. mixed' \in BOOLEAN /\ (~mixed' => ~mixed /\ a = account)
  BY <1>1 DEF Mixes, DashboardInv, DashboardTypeOK
<1>8. DashboardTypeOK'
  <2> HIDE DEF entry
  <2> QED BY <1>1, <1>2, <1>3, <1>4, <1>5, <1>6, <1>7 DEF DashboardInv, DashboardTypeOK, OfAccount
<1>9. BusyAttended'
  BY <1>1 DEF BusyAttended, Busy
<1>10. EntriesTruthful'
  <2>1. ops[slot].own => ops[slot].tx \in {Nobody, a}
    BY <1>1 DEF DashboardInv, OpsTruthful
  <2>2. UNCHANGED backup /\ a \in onChain'.registered /\ a \in onChain'.proved
    BY <1>1, <1>6
  <2>3. cache'[a] = [account |-> a, registrationTx |-> ops[slot].tx, proof |-> a, state |-> "proved",
                     own |-> ops[slot].own]
    BY <1>5 DEF Entry
  <2> HIDE DEF entry
  <2> QED BY <1>5, <1>6, <2>1, <2>2, <2>3 DEF DashboardInv, EntriesTruthful, Truthful
<1>11. OpsTruthful'
  <2>1. \A other \in Slots : ops'[other] = ops[other] \/ ops'[other].kind = "none"
    BY <1>3
  <2>2. onChain.registered = onChain'.registered /\ onChain.proved \subseteq onChain'.proved
    BY <1>6
  <2> SUFFICES ASSUME NEW other \in Slots
               PROVE  /\ OfAccount(ops'[other]) /\ ops'[other].own =>
                             /\ ops'[other].tx \in {Nobody, ops'[other].account}
                             /\ ops'[other].tx # Nobody \/ ops'[other].kind = "proving"
                                    => ops'[other].account \in onChain'.registered
                      /\ ops'[other].kind = "importing" => Truthful(ops[other].file)'
    BY DEF OpsTruthful, Truthful
  <2>3. CASE ops'[other].kind = "none"
    BY <2>3 DEF OfAccount
  <2>4. CASE ops'[other] = ops[other]
    BY <2>2, <2>4 DEF DashboardInv, OpsTruthful, Truthful
  <2> QED BY <2>1, <2>3, <2>4
<1>12. ShownTruthful'
  BY <1>1, <1>6, <1>7 DEF DashboardInv, ShownTruthful
<1> QED BY <1>8, <1>9, <1>10, <1>11, <1>12 DEF DashboardInv

LEMMA ExportBackupInv ==
    ASSUME DashboardInv, ExportBackup
    PROVE  DashboardInv'
<1>1. /\ UNCHANGED <<shown, ops, cache, onChain, mixed>>
      /\ account \in Accounts
      /\ IdentityRegistered \/ ReputationProved \/ backupRestored
      /\ backup' = Entry(account, registrationTx, shownProof,
                         IF ReputationProved THEN "proved" ELSE "registered", ~mixed)
  BY DEF ExportBackup, WalletConnected, DashboardInv, DashboardTypeOK, AnyAccount
<1>2. UNCHANGED <<account, signature, registrationTx, shownProof, page, backupRestored>>
  BY <1>1 DEF shown
<1>3. backup' \in Entries
  BY <1>1 DEF Entry, Entries, DashboardInv, DashboardTypeOK
<1>4. DashboardTypeOK'
  BY <1>1, <1>2, <1>3 DEF DashboardInv, DashboardTypeOK, OfAccount, Files
<1>5. BusyAttended'
  BY <1>1, <1>2 DEF DashboardInv, BusyAttended, Busy
<1>6. ~mixed => account \in onChain.registered
  <2>1. CASE registrationTx # Nobody \/ backupRestored \/ page \in {"registered", "proving", "proved"}
    BY <2>1 DEF DashboardInv, ShownTruthful
  <2>2. CASE shownProof # Nobody
    BY <2>2 DEF DashboardInv, DashboardTypeOK, ShownTruthful
  <2> QED BY <1>1, <2>1, <2>2 DEF IdentityRegistered, ReputationProved
<1>7. Truthful(backup)'
  BY <1>1, <1>6 DEF DashboardInv, ShownTruthful, Truthful, Entry, ReputationProved
<1>8. EntriesTruthful'
  BY <1>1, <1>7 DEF DashboardInv, EntriesTruthful, Truthful
<1>9. (OpsTruthful /\ ShownTruthful)'
  BY <1>1, <1>2 DEF DashboardInv, OpsTruthful, ShownTruthful, Truthful, OfAccount
<1> QED BY <1>4, <1>5, <1>8, <1>9 DEF DashboardInv

LEMMA OtherBackupsEntries ==
    ASSUME NEW file \in OtherBackups
    PROVE  file \in Entries /\ ~file.own
<1>1. PICK a \in Accounts : \/ file = Entry(a, a, Nobody, "registered", FALSE)
                          \/ file = Entry(a, a, a, "proved", FALSE)
  BY DEF OtherBackups
<1>2. CASE file = Entry(a, a, Nobody, "registered", FALSE)
  BY <1>2 DEF Entry, Entries, AnyAccount
<1>3. CASE file = Entry(a, a, a, "proved", FALSE)
  BY <1>3 DEF Entry, Entries, AnyAccount
<1> QED BY <1>1, <1>2, <1>3

LEMMA ImportBackupInv ==
    ASSUME DashboardInv, ImportBackup
    PROVE  DashboardInv'
<1>1. /\ UNCHANGED <<account, signature, registrationTx, shownProof, page, backupRestored>>
      /\ UNCHANGED <<cache, backup, onChain, mixed>>
      /\ account \in Accounts /\ ~Busy
  BY DEF ImportBackup, shown, WalletConnected, DashboardInv, DashboardTypeOK, AnyAccount
<1>2. PICK file \in OtherBackups \cup ({backup} \ {NoEntry}) : Begin("importing", account, Nobody, file)
  BY DEF ImportBackup
<1>3. file \in Entries /\ file \in Files /\ Truthful(file)
  <2>1. CASE file \in OtherBackups
    BY <2>1, OtherBackupsEntries DEF Truthful, Files
  <2>2. CASE file = backup /\ backup # NoEntry
    BY <2>2 DEF DashboardInv, DashboardTypeOK, EntriesTruthful, Files
  <2> QED BY <2>1, <2>2
<1>4. PICK slot \in Slots : Begun(slot, "importing", account, Nobody, file)
  <2>1. "importing" \in Kinds /\ account \in AnyAccount /\ Nobody \in AnyAccount
    BY <1>1 DEF Kinds, AnyAccount
  <2>2. DashboardTypeOK
    BY DEF DashboardInv
  <2> QED BY <1>2, <1>3, <2>1, <2>2, BeginOps, ZenonT(60)
<1>5. DashboardTypeOK'
  BY <1>1, <1>3, <1>4 DEF Begun, DashboardInv, DashboardTypeOK, OfAccount
<1>6. BusyAttended'
  BY <1>1 DEF BusyAttended, Busy
<1>7. OpsTruthful'
  BY <1>1, <1>3, <1>4 DEF Begun, DashboardInv, OpsTruthful, Truthful, OfAccount
<1>8. (EntriesTruthful /\ ShownTruthful)'
  BY <1>1 DEF DashboardInv, ShownTruthful, EntriesTruthful, Truthful
<1> QED BY <1>5, <1>6, <1>7, <1>8 DEF DashboardInv

LEMMA ImportedInv ==
    ASSUME DashboardInv, NEW slot \in Slots, Imported(slot)
    PROVE  DashboardInv'
<1> DEFINE file == ops[slot].file
<1>1. /\ UNCHANGED <<signature, backup, onChain>>
      /\ ops[slot].kind = "importing" /\ End(slot)
      /\ cache' = [cache EXCEPT ![file.account] = file]
  BY DEF Imported
<1>2. /\ ops' \in [Slots -> {Idle} \cup Ops]
      /\ ops'[slot] = Idle /\ ops'[slot].kind = "none"
      /\ \A other \in Slots : other # slot => ops'[other] = ops[other]
  BY <1>1, EndOps DEF DashboardInv
<1>3. file \in Entries /\ file \in Files /\ Truthful(file)
  BY <1>1 DEF DashboardInv, DashboardTypeOK, OpsTruthful, Files
<1>4. file.account \in Accounts /\ file.state \in {"registered", "proved"}
  BY <1>3 DEF Entries
<1>5. /\ cache' \in [Accounts -> Files]
      /\ cache'[file.account] = file
      /\ \A a \in Accounts : a # file.account => cache'[a] = cache[a]
  BY <1>1, <1>3, <1>4 DEF DashboardInv, DashboardTypeOK
<1>6. \/ /\ account' = file.account /\ registrationTx' = file.registrationTx
         /\ shownProof' = file.proof /\ page' = file.state /\ backupRestored' = TRUE
         /\ mixed' = (mixed \/ file.account # account \/ ~file.own)
      \/ UNCHANGED <<account, registrationTx, shownProof, page, backupRestored, mixed>>
  BY DEF Imported, Apply
<1>7. DashboardTypeOK'
  <2>1. {account', signature', registrationTx', shownProof'} \subseteq AnyAccount
    BY <1>1, <1>3, <1>6 DEF DashboardInv, DashboardTypeOK, Entries, AnyAccount
  <2>2. backupRestored' \in BOOLEAN /\ mixed' \in BOOLEAN
    BY <1>6 DEF DashboardInv, DashboardTypeOK
  <2>3. \A a \in Accounts : cache'[a] # NoEntry => cache'[a].account = a
    BY <1>5 DEF DashboardInv, DashboardTypeOK
  <2> QED BY <1>1, <1>2, <1>5, <2>1, <2>2, <2>3 DEF DashboardInv, DashboardTypeOK, OfAccount
<1>8. BusyAttended'
  <2>1. CASE page' = file.state
    BY <1>4, <2>1 DEF BusyAttended, Busy
  <2>2. CASE UNCHANGED page
    <3>1. \A other \in Slots : ops[other].kind \notin {"none", "importing"} => ops'[other] = ops[other]
      BY <1>1, <1>2
    <3> QED BY <2>2, <3>1 DEF DashboardInv, BusyAttended, Busy
  <2> QED BY <1>6, <2>1, <2>2
<1>9. EntriesTruthful'
  BY <1>1, <1>3, <1>5 DEF DashboardInv, EntriesTruthful, Truthful
<1>10. OpsTruthful'
  BY <1>1, <1>2 DEF DashboardInv, OpsTruthful, Truthful, OfAccount
<1>11. ShownTruthful'
  <2>1. CASE UNCHANGED <<account, registrationTx, shownProof, page, backupRestored, mixed>>
    BY <1>1, <2>1 DEF DashboardInv, ShownTruthful
  <2>2. CASE /\ account' = file.account /\ registrationTx' = file.registrationTx
             /\ shownProof' = file.proof /\ page' = file.state
             /\ mixed' = (mixed \/ file.account # account \/ ~file.own)
    <3> SUFFICES ASSUME ~mixed' PROVE ShownTruthful'
      BY DEF ShownTruthful
    <3>1. ~mixed /\ file.account = account /\ file.own
      BY <2>2, <1>3 DEF Entries
    <3>2. signature' \in {Nobody, account}
      BY <1>1, <3>1 DEF DashboardInv, ShownTruthful
    <3>3. /\ {file.registrationTx, file.proof} \subseteq {Nobody, account}
          /\ account \in onChain.registered
          /\ file.proof # Nobody \/ file.state = "proved" => account \in onChain.proved
      BY <1>3, <3>1 DEF Truthful
    <3> QED BY <1>1, <2>2, <3>1, <3>2, <3>3 DEF ShownTruthful
  <2> QED BY <1>6, <2>1, <2>2
<1> QED BY <1>7, <1>8, <1>9, <1>10, <1>11 DEF DashboardInv

LEMMA ExportFailsInv ==
    ASSUME DashboardInv, ExportFails
    PROVE  DashboardInv'
<1>1. /\ UNCHANGED <<account, signature, registrationTx, shownProof, backupRestored>>
      /\ UNCHANGED <<ops, cache, backup, onChain, mixed>>
      /\ page' = "error"
  BY DEF ExportFails
<1>2. DashboardTypeOK'
  BY <1>1 DEF DashboardInv, DashboardTypeOK, OfAccount
<1>3. BusyAttended'
  BY <1>1 DEF BusyAttended, Busy
<1>4. (EntriesTruthful /\ OpsTruthful /\ ShownTruthful)'
  BY <1>1 DEF DashboardInv, OpsTruthful, ShownTruthful, EntriesTruthful, Truthful, OfAccount
<1> QED BY <1>2, <1>3, <1>4 DEF DashboardInv

\* Nothing is in flight and nothing shown after a reload; what was submitted may land all the same.
LEMMA ReloadInv ==
    ASSUME DashboardInv, Reload
    PROVE  DashboardInv'
<1>1. UNCHANGED <<cache, backup>> /\ ShowNobody /\ ops' = [slot \in Slots |-> Idle]
  BY DEF Reload
<1>2. /\ onChain' \in [registered : SUBSET Accounts, proved : SUBSET Accounts]
      /\ onChain.registered \subseteq onChain'.registered
      /\ onChain.proved \subseteq onChain'.proved
      /\ onChain'.proved \subseteq onChain'.registered
  <2>1. PICK landed \in SUBSET Slots :
            onChain' =
                [registered |-> onChain.registered \cup
                     {ops[slot].account : slot \in {other \in landed : ops[other].kind = "registering"}},
                 proved |-> onChain.proved \cup
                     ({ops[slot].account : slot \in {other \in landed : ops[other].kind = "proving"}}
                          \cap onChain.registered)]
    BY DEF Reload
  <2>2. \A slot \in landed : ops[slot].kind \in {"registering", "proving"} => ops[slot].account \in Accounts
    BY DEF DashboardInv, DashboardTypeOK, OfAccount
  <2> QED BY <2>1, <2>2 DEF DashboardInv, DashboardTypeOK
<1>3. \A slot \in Slots : ops'[slot] = Idle /\ ops'[slot].kind = "none"
  BY <1>1, IdleAndNoEntry
<1>4. DashboardTypeOK'
  BY <1>1, <1>2, <1>3 DEF DashboardInv, DashboardTypeOK, OfAccount, ShowNobody, AnyAccount
<1>5. BusyAttended'
  BY <1>1 DEF BusyAttended, Busy, ShowNobody
<1>6. EntriesTruthful'
  BY <1>1, <1>2 DEF DashboardInv, EntriesTruthful, Truthful
<1>7. (OpsTruthful /\ ShownTruthful)'
  BY <1>1, <1>3 DEF OpsTruthful, ShownTruthful, OfAccount, ShowNobody
<1> QED BY <1>4, <1>5, <1>6, <1>7 DEF DashboardInv

LEMMA DashboardStepInv ==
    ASSUME DashboardInv, [DashboardNext]_dashboardVars
    PROVE  DashboardInv'
<1>1. CASE UNCHANGED dashboardVars
  BY <1>1 DEF dashboardVars, DashboardInv, DashboardTypeOK, BusyAttended, Busy, OpsTruthful,
              ShownTruthful, EntriesTruthful, Truthful, OfAccount
<1>2. CASE DashboardNext
  BY <1>2, ConnectInv, SignInv, CompleteProofInv, ExportBackupInv, ImportBackupInv, ExportFailsInv,
     SyncAccountsInv, ReloadInv, ConnectedInv, SignedInv, ImportedInv, PreparedInv,
     FinishRegistrationInv, FinishProofInv, FailsInv DEF DashboardNext
<1> QED BY <1>1, <1>2

-----------------------------------------------------------------------------
(* Theorems *)

\* However many operations are in flight, whichever ends first, and whatever account is connected
\* over another meanwhile, the buttons are disabled only while one is (dashboard.tsx:453 and 631-780).
THEOREM DashboardBusyAttended == DashboardSpec => []BusyAttended
<1>1. DashboardInv => BusyAttended
  BY DEF DashboardInv
<1> QED BY <1>1, DashboardInitInv, DashboardStepInv, PTL DEF DashboardSpec

\* What the page shows is of its account and has happened on the chain, also while operations of
\* other accounts are in flight, until one of them answers or a backup that is not own is shown, and
\* again from the next activation of an account (dashboard.tsx:508-571 and 706-780).
THEOREM DashboardShowsOwn == DashboardSpec => []PageShowsOwn
<1>1. DashboardInv => PageShowsOwn
  BY DEF DashboardInv, ShownTruthful, PageShowsOwn, IdentityRegistered, ReputationProved
<1> QED BY <1>1, DashboardInitInv, DashboardStepInv, PTL DEF DashboardSpec

\* What is cached for an account is its own and has happened on the chain unless it follows from a
\* backup or a page that was not own, whatever account is shown when an operation answers
\* (dashboard.tsx:615-629, 737-762 and 833-836).
THEOREM DashboardCacheTruthful == DashboardSpec => []CacheTruthful
<1>1. DashboardInv => CacheTruthful
  BY DEF DashboardInv, DashboardTypeOK, EntriesTruthful, Truthful, CacheTruthful
<1> QED BY <1>1, DashboardInitInv, DashboardStepInv, PTL DEF DashboardSpec

=============================================================================
