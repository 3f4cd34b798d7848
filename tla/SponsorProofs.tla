--------------------------- MODULE SponsorProofs ---------------------------
(***************************************************************************)
(* Proofs about SponsorService, for every value of its constants.          *)
(***************************************************************************)
EXTENDS SponsorService, FiniteSetTheorems, SequenceTheorems, TLAPS

USE WalletAssumption, SponsorAssumption

-----------------------------------------------------------------------------
(* Lemmas about the operators of the model. *)

\* The smaller and the larger of two numbers.
LEMMA MinOfTwo ==
    ASSUME NEW x \in Int, NEW y \in Int
    PROVE  Min({x, y}) \in {x, y} /\ Min({x, y}) <= x /\ Min({x, y}) <= y
<1>1. \E m \in {x, y} : \A n \in {x, y} : m =< n
  OBVIOUS
<1> QED BY <1>1 DEF Min

LEMMA MaxOfTwo ==
    ASSUME NEW x \in Int, NEW y \in Int
    PROVE  Max({x, y}) \in {x, y} /\ Max({x, y}) >= x /\ Max({x, y}) >= y
<1>1. \E m \in {x, y} : \A n \in {x, y} : m >= n
  OBVIOUS
<1> QED BY <1>1 DEF Max

\* What the wallet sees are UTXO ids of coins.
LEMMA AvailableAreIds ==
    ASSUME WalletTypeOK
    PROVE  availableCoins \subseteq UtxoIds
BY DEF WalletTypeOK, availableCoins, utxoId, UtxoIds

LEMMA FreeAndRegisteredAreIds ==
    ASSUME WalletTypeOK
    PROVE  freeNightUtxos \subseteq UtxoIds /\ registeredUtxos \subseteq UtxoIds
BY AvailableAreIds DEF freeNightUtxos, registeredUtxos

\* Submitting a well-typed transaction keeps the wallet well typed.
LEMMA SubmitType ==
    ASSUME WalletTypeOK, UNCHANGED coin,
           NEW inputs \in SUBSET UtxoIds, NEW to \in Beneficiaries \cup {Free},
           NEW created \in SUBSET Coins,
           submitTransaction(inputs, to, created)
    PROVE  WalletTypeOK'
<1>1. [inputs |-> inputs, to |-> to, created |-> created, booked |-> TRUE] \in Transactions
  BY DEF Transactions
<1> QED BY <1>1 DEF WalletTypeOK, submitTransaction

\* A transaction that lands or is dropped keeps the wallet well typed.
LEMMA ChainType ==
    ASSUME WalletTypeOK, NEW t \in pending, Land(t) \/ Drop(t)
    PROVE  WalletTypeOK'
<1>1. t.to \in Beneficiaries \cup {Free}
  BY DEF WalletTypeOK, Transactions
<1>2. CASE Land(t)
  <2>1. ASSUME NEW c \in Coins
        PROVE  coin'[c] \in [version : Nat, owner : Beneficiaries \cup {Free, Absent}]
    BY <1>1, <1>2 DEF Land, WalletTypeOK
  <2>2. coin' = [c \in Coins |-> coin'[c]]
    BY <1>2 DEF Land
  <2> QED BY <1>2, <2>1, <2>2 DEF Land, WalletTypeOK
<1>3. CASE Drop(t)
  BY <1>3 DEF Drop, WalletTypeOK
<1> QED BY <1>2, <1>3

LEMMA ForgetType ==
    ASSUME WalletTypeOK, UNCHANGED coin, Forget
    PROVE  WalletTypeOK'
BY ZenonT(60) DEF WalletTypeOK, Forget, Transactions

\* Counting down to zero and up to a bound.
LEMMA DownByOne ==
    ASSUME NEW n \in Nat, NEW x \in 0 .. n
    PROVE  Max({0, x - 1}) \in 0 .. n
<1>1. 0 \in Int /\ x - 1 \in Int
  OBVIOUS
<1>2. Max({0, x - 1}) \in {0, x - 1} /\ Max({0, x - 1}) >= 0
  BY <1>1, MaxOfTwo, Zenon
<1> DEFINE m == Max({0, x - 1})
<1> HIDE DEF m
<1>3. m \in {0, x - 1} /\ m >= 0
  BY <1>2 DEF m
<1>4. m \in 0 .. n
  BY <1>3
<1> QED BY <1>4 DEF m

LEMMA UpByOne ==
    ASSUME NEW n \in Nat, NEW x \in 0 .. n
    PROVE  Min({x + 1, n}) \in 0 .. n
<1>1. n \in Int /\ x + 1 \in Int
  OBVIOUS
<1>2. Min({x + 1, n}) \in {x + 1, n} /\ Min({x + 1, n}) <= n
  BY <1>1, MinOfTwo, Zenon
<1> DEFINE m == Min({x + 1, n})
<1> HIDE DEF m
<1>3. m \in {x + 1, n} /\ m <= n
  BY <1>2 DEF m
<1>4. m \in 0 .. n
  BY <1>3
<1> QED BY <1>4 DEF m

\* How many outputs a split asks for: the free UTXOs are finitely many.
LEMMA WantedOutputsType ==
    ASSUME WalletTypeOK
    PROVE  WantedOutputs \in Int
<1>1. IsFiniteSet(freeNightUtxos)
  <2> DEFINE ids == {utxoId(c) : c \in Coins}
             f == [c \in Coins |-> utxoId(c)]
  <2>1. f \in Surjection(Coins, ids)
    BY DEF Surjection
  <2>2. IsFiniteSet(ids)
    BY <2>1, FS_Surjection
  <2>3. freeNightUtxos \in SUBSET ids
    BY DEF freeNightUtxos, availableCoins
  <2> QED BY <2>2, <2>3, FS_Subset
<1> DEFINE n == Cardinality(freeNightUtxos)
           m == Max({0, TargetFreeUtxos - n})
<1>2. n \in Nat
  BY <1>1, FS_CardinalityType
<1> HIDE DEF n
<1>3. 0 \in Int /\ TargetFreeUtxos - n \in Int /\ MaxSplitOutputs \in Int
  BY <1>2
<1>4. m \in {0, TargetFreeUtxos - n}
  BY <1>3, MaxOfTwo, Zenon
<1>5. m \in Int
  <2> HIDE DEF m
  <2> QED BY <1>3, <1>4
<1>6. Min({MaxSplitOutputs, m}) \in {MaxSplitOutputs, m}
  BY <1>3, <1>5, MinOfTwo, Zenon
<1>7. Min({MaxSplitOutputs, m}) \in Int
  BY <1>3, <1>5, <1>6, Zenon
<1> QED BY <1>3, <1>7 DEF WantedOutputs, n

-----------------------------------------------------------------------------
(***************************************************************************)
(* Types, the lock and active leases.  OneActiveLease is not inductive by  *)
(* itself: a request inserts a lease for its address, so it must still     *)
(* have none by then.  FindExisting takes the newest of the active leases  *)
(* it finds, which is well defined because there is at most one.           *)
(***************************************************************************)

LockHeld == pc["request"] # "idle" => queue # <<>>

NoneWhileAllocating ==
    pc["request"] \notin {"idle", "extend"} => ActiveLeases(Head(queue)) = {}

LeaseInv == TypeOK /\ LockHeld /\ OneActiveLease /\ NoneWhileAllocating

\* The newest of the active leases of an address is one of them.
LEMMA NewestActive ==
    ASSUME TypeOK, OneActiveLease, NEW a, ActiveLeases(a) # {}
    PROVE  /\ Max(ActiveLeases(a)) \in ActiveLeases(a)
           /\ Max(ActiveLeases(a)) \in 1 .. Len(leases)
<1>1. PICK i \in ActiveLeases(a) : TRUE
  OBVIOUS
<1>2. DOMAIN leases = 1 .. Len(leases) /\ Len(leases) \in Nat
  BY LenProperties DEF TypeOK
<1>3. \A j \in ActiveLeases(a) : j = i
  BY <1>1 DEF ActiveLeases, OneActiveLease
<1>4. i \in 1 .. Len(leases)
  BY <1>1, <1>2 DEF ActiveLeases
<1>5. ActiveLeases(a) = {i}
  BY <1>1, <1>3
<1>6. Max({i}) = i
  BY <1>4 DEF Max
<1> QED BY <1>1, <1>4, <1>5, <1>6

\* A change of the leases that makes none of them active and moves none to
\* another address keeps their types and adds no active lease.
NoNewActive ==
    /\ leases' = [j \in DOMAIN leases |-> leases'[j]]
    /\ \A j \in DOMAIN leases :
          /\ leases'[j] \in Leases
          /\ leases'[j].dustAddress = leases[j].dustAddress
          /\ leases'[j].status = "active" => leases[j].status = "active"

LEMMA NoNewActiveKeeps ==
    ASSUME TypeOK, OneActiveLease, NoNewActive
    PROVE  /\ leases' \in Seq(Leases)
           /\ Len(leases') = Len(leases) /\ DOMAIN leases' = DOMAIN leases
           /\ OneActiveLease'
           /\ \A a : ActiveLeases(a)' \subseteq ActiveLeases(a)
<1>1. DOMAIN leases = 1 .. Len(leases) /\ Len(leases) \in Nat
  BY LenProperties DEF TypeOK
<1>2. leases' \in [1 .. Len(leases) -> Leases]
  BY <1>1 DEF NoNewActive
<1>3. leases' \in Seq(Leases) /\ Len(leases') = Len(leases)
  <2>1. leases' \in Seq(Leases)
    BY <1>1, <1>2, SeqDef
  <2>2. DOMAIN leases' = 1 .. Len(leases') /\ Len(leases') \in Nat
    BY <2>1, LenProperties
  <2> QED BY <1>1, <1>2, <2>1, <2>2
<1>4. DOMAIN leases' = DOMAIN leases
  BY <1>1, <1>2
<1>5. OneActiveLease'
  BY <1>4 DEF OneActiveLease, NoNewActive
<1>6. ASSUME NEW a PROVE ActiveLeases(a)' \subseteq ActiveLeases(a)
  BY <1>4 DEF ActiveLeases, NoNewActive
<1> QED BY <1>3, <1>4, <1>5, <1>6

\* Changing one lease, if there is one of that index, is such a change.
LEMMA OneLeaseChanged ==
    ASSUME TypeOK, NEW i, NEW l, leases' = [leases EXCEPT ![i] = l],
           i \in DOMAIN leases =>
              /\ l \in Leases
              /\ l.dustAddress = leases[i].dustAddress
              /\ l.status = "active" => leases[i].status = "active"
    PROVE  NoNewActive
<1>1. ASSUME NEW j \in DOMAIN leases PROVE leases[j] \in Leases
  BY ElementOfSeq, LenProperties DEF TypeOK
<1> QED BY <1>1 DEF NoNewActive

\* Leases that do not change are such a change as well.
LEMMA LeasesUnchanged ==
    ASSUME TypeOK, UNCHANGED leases
    PROVE  NoNewActive
<1>1. ASSUME NEW j \in DOMAIN leases PROVE leases[j] \in Leases
  BY ElementOfSeq, LenProperties DEF TypeOK
<1>2. leases = [j \in DOMAIN leases |-> leases[j]]
  BY LenProperties DEF TypeOK
<1> QED BY <1>1, <1>2 DEF NoNewActive

\* Where a worker may go, and what it must have been doing before.
LEMMA WorkerStep ==
    ASSUME LeaseInv, NEW w \in Workers,
           NEW step \in {"idle"} \cup SweepSteps \cup RequestSteps, GoTo(w, step),
           w = "maintenance" => step \notin RequestSteps,
           w = "request" => pc["request"] \notin {"idle", "extend"},
           UNCHANGED queue, \A a : ActiveLeases(a)' \subseteq ActiveLeases(a)
    PROVE  /\ pc' \in [Workers -> {"idle"} \cup SweepSteps \cup RequestSteps]
           /\ pc'["maintenance"] \notin RequestSteps
           /\ LockHeld'
           /\ NoneWhileAllocating'
<1>1. /\ pc' \in [Workers -> {"idle"} \cup SweepSteps \cup RequestSteps]
      /\ pc'["maintenance"] \notin RequestSteps
  BY DEF LeaseInv, TypeOK, GoTo, Workers
<1>2. pc'["request"] # "idle" => pc["request"] # "idle"
  BY DEF LeaseInv, TypeOK, GoTo, Workers
<1>3. pc'["request"] \notin {"idle", "extend"} => pc["request"] \notin {"idle", "extend"}
  BY DEF LeaseInv, TypeOK, GoTo, Workers
<1>4. LockHeld'
  BY <1>2 DEF LeaseInv, LockHeld
<1>5. NoneWhileAllocating'
  BY <1>3 DEF LeaseInv, NoneWhileAllocating, ActiveLeases
<1> QED BY <1>1, <1>4, <1>5

\* A request that releases the lock leaves nothing behind.
LEMMA ReleaseStep ==
    ASSUME TypeOK, queue # <<>>, Release
    PROVE  /\ queue' \in Seq(Addresses)
           /\ pc' \in [Workers -> {"idle"} \cup SweepSteps \cup RequestSteps]
           /\ pc'["maintenance"] \notin RequestSteps
           /\ request' = NoRequest
           /\ LockHeld'
           /\ NoneWhileAllocating'
<1>1. queue' \in Seq(Addresses)
  BY HeadTailProperties DEF TypeOK, Release
<1>2. pc' = [pc EXCEPT !["request"] = "idle"] /\ request' = NoRequest
  BY DEF Release, GoTo
<1> QED BY <1>1, <1>2 DEF TypeOK, Workers, LockHeld, NoneWhileAllocating

\* The types of the locals, for n leases.
Locals(n) ==
    [lease : 0 .. n, utxoIds : SUBSET UtxoIds, free : BOOLEAN, retry : BOOLEAN,
     result : {"reclaimed", "reclaim_failed"}, outputs : Nat]
Requests(n) ==
    [age : 0 .. TTL, attempt : {1, 2}, existing : 0 .. n, before : SUBSET UtxoIds,
     selected : SUBSET UtxoIds, utxoIds : SUBSET UtxoIds]

LEMMA NoRequestType ==
    ASSUME NEW n \in Nat
    PROVE  NoRequest \in Requests(n)
BY DEF NoRequest, Requests

LEMMA NoReclaimType ==
    ASSUME NEW n \in Nat, NEW i \in 0 .. n
    PROVE  NoReclaim \in Locals(n) /\ [NoReclaim EXCEPT !.lease = i] \in Locals(n)
<1>1. NoReclaim \in Locals(n)
  BY DEF NoReclaim, Locals
<1>2. \A r \in Locals(n) : [r EXCEPT !.lease = i] \in Locals(n)
  BY DEF Locals
<1> QED BY <1>1, <1>2

\* The parts of the type invariant, under the names of the lemmas.
LEMMA TypeParts ==
    TypeOK <=> /\ WalletTypeOK
               /\ leases \in Seq(Leases)
               /\ queue \in Seq(Addresses)
               /\ pc \in [Workers -> {"idle"} \cup SweepSteps \cup RequestSteps]
               /\ pc["maintenance"] \notin RequestSteps
               /\ todo \in [Workers -> SUBSET (DOMAIN leases)]
               /\ local \in [Workers -> Locals(Len(leases))]
               /\ request \in Requests(Len(leases))
               /\ faults \in 0 .. FaultBound
BY DEF TypeOK, Locals, Requests

\* An action of a sweep: its worker moves on, no lease becomes active and the
\* other variables are well typed.
LEMMA SweepStep ==
    ASSUME LeaseInv, NEW w \in Workers,
           NEW step \in {"idle"} \cup SweepSteps \cup RequestSteps, GoTo(w, step),
           w = "maintenance" => step \notin RequestSteps,
           w = "request" => pc["request"] \notin {"idle", "extend"},
           NoNewActive, UNCHANGED <<queue, faults>>, WalletTypeOK',
           todo' \in [Workers -> SUBSET (DOMAIN leases)],
           local' \in [Workers -> Locals(Len(leases))],
           request' \in Requests(Len(leases))
    PROVE  LeaseInv'
<1>1. /\ leases' \in Seq(Leases)
      /\ Len(leases') = Len(leases) /\ DOMAIN leases' = DOMAIN leases
      /\ OneActiveLease'
      /\ \A a : ActiveLeases(a)' \subseteq ActiveLeases(a)
  BY NoNewActiveKeeps DEF LeaseInv
<1>2. /\ pc' \in [Workers -> {"idle"} \cup SweepSteps \cup RequestSteps]
      /\ pc'["maintenance"] \notin RequestSteps
      /\ LockHeld'
      /\ NoneWhileAllocating'
  BY <1>1, WorkerStep
<1>3. TypeOK'
  BY <1>1, <1>2 DEF LeaseInv, TypeOK, Locals, Requests
<1> QED BY <1>1, <1>2, <1>3 DEF LeaseInv

\* An action of the request that releases the lock.
LEMMA ReleasingStep ==
    ASSUME LeaseInv, pc["request"] # "idle" \/ queue # <<>>, Release,
           NoNewActive, UNCHANGED faults, WalletTypeOK',
           todo' \in [Workers -> SUBSET (DOMAIN leases)],
           local' \in [Workers -> Locals(Len(leases))]
    PROVE  LeaseInv'
<1>1. /\ leases' \in Seq(Leases)
      /\ Len(leases') = Len(leases) /\ DOMAIN leases' = DOMAIN leases
      /\ OneActiveLease'
  BY NoNewActiveKeeps DEF LeaseInv
<1>2. /\ queue' \in Seq(Addresses)
      /\ pc' \in [Workers -> {"idle"} \cup SweepSteps \cup RequestSteps]
      /\ pc'["maintenance"] \notin RequestSteps
      /\ request' = NoRequest
      /\ LockHeld'
      /\ NoneWhileAllocating'
  BY ReleaseStep DEF LeaseInv, LockHeld
<1>3. Len(leases) \in Nat
  BY LenProperties DEF LeaseInv, TypeOK
<1>4. TypeOK'
  BY <1>1, <1>2, <1>3, NoRequestType DEF LeaseInv, TypeOK, Locals, Requests
<1> QED BY <1>1, <1>2, <1>4 DEF LeaseInv

-----------------------------------------------------------------------------
(* Every action keeps the invariant: requests. *)

\* What the invariant says of the types, for a worker.
LEMMA LocalTypes ==
    ASSUME TypeOK, NEW w \in Workers
    PROVE  /\ Len(leases) \in Nat /\ DOMAIN leases = 1 .. Len(leases)
           /\ local[w] \in Locals(Len(leases)) /\ todo[w] \subseteq DOMAIN leases
           /\ local \in [Workers -> Locals(Len(leases))]
           /\ todo \in [Workers -> SUBSET (DOMAIN leases)]
           /\ request \in Requests(Len(leases))
BY LenProperties DEF TypeOK, Locals, Requests

LEMMA WalletStays ==
    ASSUME WalletTypeOK, UNCHANGED walletVars
    PROVE  WalletTypeOK'
BY DEF WalletTypeOK, walletVars

LEMMA ArriveStep ==
    ASSUME LeaseInv, NEW a \in Addresses, Arrive(a)
    PROVE  LeaseInv'
<1>1. queue' \in Seq(Addresses) /\ queue' # <<>>
  BY AppendProperties, SMTT(30) DEF LeaseInv, TypeOK, Arrive
<1>2. queue # <<>> => Head(queue') = Head(queue)
  <2> SUFFICES ASSUME queue # <<>> PROVE Head(queue') = Head(queue)
    OBVIOUS
  <2>1. queue \in Seq(Addresses) /\ queue' = Append(queue, a)
    BY DEF LeaseInv, TypeOK, Arrive
  <2>2. Len(queue) \in Nat /\ Len(queue) > 0
    BY <2>1, EmptySeq, LenProperties
  <2>3. queue'[1] = queue[1]
    BY <2>1, <2>2, AppendProperties
  <2>4. Head(queue) = queue[1] /\ Head(queue') = queue'[1]
    BY <1>1, <2>1, HeadTailProperties
  <2> QED BY <2>3, <2>4
<1>3. TypeOK'
  BY <1>1 DEF LeaseInv, TypeOK, Arrive, WalletTypeOK
<1>4. LockHeld' /\ OneActiveLease'
  BY <1>1 DEF LeaseInv, LockHeld, OneActiveLease, Arrive
<1>5. NoneWhileAllocating'
  BY <1>2 DEF LeaseInv, LockHeld, NoneWhileAllocating, ActiveLeases, Arrive
<1> QED BY <1>3, <1>4, <1>5 DEF LeaseInv

LEMMA FindExistingStep ==
    ASSUME LeaseInv, FindExisting
    PROVE  LeaseInv'
<1> DEFINE existing == ActiveLeases(Head(queue))
<1>1. /\ TypeOK /\ OneActiveLease /\ NoNewActive /\ WalletTypeOK'
      /\ "request" \in Workers /\ queue # <<>>
  BY LeasesUnchanged, WalletStays DEF LeaseInv, TypeOK, FindExisting, walletVars, Workers
<1>2. Len(leases) \in Nat /\ request \in Requests(Len(leases))
  BY <1>1, LocalTypes
<1>3. CASE Release
  BY <1>1, <1>3, LocalTypes, ReleasingStep DEF FindExisting
<1>4. CASE /\ existing # {} /\ GoTo("request", "extend")
           /\ request' = [NoRequest EXCEPT !.existing = Max(existing)]
           /\ UNCHANGED queue
  <2>1. Max(existing) \in 0 .. Len(leases)
    BY <1>1, <1>2, <1>4, NewestActive
  <2> HIDE DEF existing
  <2>2. \A r \in Requests(Len(leases)) :
           [r EXCEPT !.existing = Max(existing)] \in Requests(Len(leases))
    BY <2>1 DEF Requests
  <2>3. request' \in Requests(Len(leases))
    BY <1>2, <1>4, <2>2, NoRequestType
  <2>4. TypeOK'
    BY <1>1, <1>4, <2>3 DEF LeaseInv, TypeOK, FindExisting, GoTo, Workers, RequestSteps, Requests
  <2>5. LockHeld' /\ OneActiveLease' /\ NoneWhileAllocating'
    BY <1>1, <1>4 DEF LeaseInv, TypeOK, LockHeld, OneActiveLease, NoneWhileAllocating,
                      ActiveLeases, FindExisting, GoTo, Workers
  <2> QED BY <2>4, <2>5 DEF LeaseInv
<1>5. CASE /\ existing = {} /\ GoTo("request", "find") /\ request' = NoRequest
           /\ UNCHANGED queue
  <2>1. TypeOK'
    BY <1>1, <1>2, <1>5, NoRequestType
    DEF LeaseInv, TypeOK, FindExisting, GoTo, Workers, SweepSteps, RequestSteps, Requests
  <2>2. LockHeld' /\ OneActiveLease'
    BY <1>1, <1>5 DEF LeaseInv, LockHeld, OneActiveLease, FindExisting
  <2>3. NoneWhileAllocating'
    BY <1>1, <1>5 DEF NoneWhileAllocating, ActiveLeases, FindExisting
  <2> QED BY <2>1, <2>2, <2>3 DEF LeaseInv
<1> QED BY <1>3, <1>4, <1>5 DEF FindExisting

LEMMA LeaseElement ==
    ASSUME TypeOK, NEW i \in DOMAIN leases
    PROVE  leases[i] \in Leases
BY ElementOfSeq, LenProperties DEF TypeOK

LEMMA ExtendStep ==
    ASSUME LeaseInv, Extend
    PROVE  LeaseInv'
<1>1. TypeOK /\ OneActiveLease /\ WalletTypeOK' /\ Release /\ pc["request"] # "idle"
  BY WalletStays DEF LeaseInv, TypeOK, Extend, walletVars
<1> DEFINE i == request.existing
           idle == Min({request.age, StaleAfter})
           l == [leases[i] EXCEPT !.left = TTL - request.age, !.extended = TRUE,
                                  !.idle = idle]
<1>2. idle \in 0 .. StaleAfter /\ TTL - request.age \in 0 .. TTL
  <2>1. request.age \in 0 .. TTL /\ StaleAfter \in Nat /\ TTL \in Nat
    BY <1>1, LocalTypes DEF Requests, Workers
  <2>2. request.age \in Int /\ StaleAfter \in Int
    BY <2>1
  <2>3. idle \in {request.age, StaleAfter} /\ idle <= StaleAfter
    BY <2>2, MinOfTwo, Zenon
  <2> HIDE DEF idle
  <2> QED BY <2>1, <2>3
<1>3. leases' = [leases EXCEPT ![i] = l]
  BY DEF Extend
<1> HIDE DEF idle
<1>4. i \in DOMAIN leases => /\ l \in Leases
                             /\ l.dustAddress = leases[i].dustAddress
                             /\ l.status = "active" => leases[i].status = "active"
  BY <1>1, <1>2, LeaseElement DEF Leases
<1> HIDE DEF i, l
<1>5. NoNewActive
  BY <1>1, <1>3, <1>4, OneLeaseChanged
<1> QED BY <1>1, <1>5, LocalTypes, ReleasingStep DEF Extend, Workers

LEMMA SelectStep ==
    ASSUME LeaseInv, Select
    PROVE  LeaseInv'
<1>1. TypeOK /\ NoNewActive /\ WalletTypeOK' /\ "request" \in Workers
  BY LeasesUnchanged, WalletStays DEF LeaseInv, TypeOK, Select, walletVars, Workers
<1>2. PICK selected \in SUBSET freeNightUtxos :
         request' = [request EXCEPT !.selected = selected, !.before = registeredUtxos]
  BY DEF Select
<1>3. selected \in SUBSET UtxoIds /\ registeredUtxos \in SUBSET UtxoIds
  BY <1>1, FreeAndRegisteredAreIds DEF TypeOK
<1>4. request' \in Requests(Len(leases))
  BY <1>1, <1>2, <1>3, LocalTypes DEF Requests
<1> QED BY <1>1, <1>4, LocalTypes, SweepStep DEF Select, RequestSteps

LEMMA SubmitStep ==
    ASSUME LeaseInv, Submit
    PROVE  LeaseInv'
<1>1. TypeOK /\ NoNewActive /\ "request" \in Workers /\ queue # <<>>
  BY LeasesUnchanged DEF LeaseInv, LockHeld, Submit, Workers
<1>2. Head(queue) \in Addresses
  BY <1>1, HeadTailProperties DEF TypeOK
<1>3. request.selected \in SUBSET UtxoIds
  BY <1>1, LocalTypes DEF Requests
<1>4. WalletTypeOK'
  <2>1. submitTransaction(request.selected, Head(queue), {}) /\ UNCHANGED coin
    BY DEF Submit
  <2> QED BY <1>1, <1>2, <1>3, <2>1, SubmitType DEF TypeOK, Beneficiaries
<1> QED BY <1>1, <1>4, LocalTypes, SweepStep DEF Submit, RequestSteps

LEMMA RecogniseStep ==
    ASSUME LeaseInv, Recognise
    PROVE  LeaseInv'
<1>1. TypeOK /\ NoNewActive /\ WalletTypeOK' /\ "request" \in Workers
  BY LeasesUnchanged, WalletStays DEF LeaseInv, TypeOK, Recognise, walletVars, Workers
<1> DEFINE new == registeredUtxos \ request.before
           ids == IF new = {} THEN request.selected ELSE new
<1>2. request \in Requests(Len(leases)) /\ registeredUtxos \subseteq UtxoIds
  BY <1>1, LocalTypes, FreeAndRegisteredAreIds DEF TypeOK
<1>3. ids \in SUBSET UtxoIds
  BY <1>2 DEF Requests
<1>4. request' = [request EXCEPT !.before = {}, !.utxoIds = ids]
  BY DEF Recognise
<1> HIDE DEF ids
<1>5. request' \in Requests(Len(leases))
  BY <1>2, <1>3, <1>4 DEF Requests
<1> QED BY <1>1, <1>5, LocalTypes, SweepStep DEF Recognise, RequestSteps

LEMMA NotSponsoredStep ==
    ASSUME LeaseInv, NotSponsored
    PROVE  LeaseInv'
<1>1. /\ TypeOK /\ NoNewActive /\ WalletTypeOK' /\ "request" \in Workers
      /\ pc["request"] \notin {"idle", "extend"}
  BY LeasesUnchanged, WalletStays DEF LeaseInv, TypeOK, NotSponsored, walletVars, Workers
<1>2. CASE Release
  BY <1>1, <1>2, LocalTypes, ReleasingStep DEF NotSponsored
<1>3. CASE /\ request' = [NoRequest EXCEPT !.age = request.age, !.attempt = 2]
           /\ GoTo("request", "find") /\ UNCHANGED queue
  <2>1. NoRequest \in Requests(Len(leases)) /\ request.age \in 0 .. TTL
    BY <1>1, LocalTypes, NoRequestType DEF Requests
  <2>2. \A r \in Requests(Len(leases)) :
           [r EXCEPT !.age = request.age, !.attempt = 2] \in Requests(Len(leases))
    BY <2>1 DEF Requests
  <2>3. request' \in Requests(Len(leases))
    BY <1>3, <2>1, <2>2
  <2> QED BY <1>1, <1>3, <2>3, LocalTypes, SweepStep DEF NotSponsored, SweepSteps
<1> QED BY <1>2, <1>3 DEF NotSponsored

LEMMA NewLeaseType ==
    ASSUME TypeOK, queue # <<>>
    PROVE  NewLease \in Leases
<1>1. Head(queue) \in Addresses
  BY HeadTailProperties DEF TypeOK
<1>2. request.age \in 0 .. TTL /\ request.selected \subseteq UtxoIds
      /\ request.utxoIds \subseteq UtxoIds
  BY LocalTypes DEF Requests, Workers
<1>3. TTL \in Nat /\ StaleAfter \in Nat
  OBVIOUS
<1>4. TTL - request.age \in 0 .. TTL /\ 0 \in 0 .. StaleAfter
  BY <1>2, <1>3
<1> QED BY <1>1, <1>2, <1>4 DEF NewLease, Leases, Statuses

\* The lease the request inserts is the only active one of its address.
LEMMA InsertStep ==
    ASSUME LeaseInv, Insert
    PROVE  LeaseInv'
<1>1. /\ TypeOK /\ OneActiveLease /\ WalletTypeOK' /\ queue # <<>> /\ Release
      /\ ActiveLeases(Head(queue)) = {}
  BY WalletStays DEF LeaseInv, LockHeld, NoneWhileAllocating, TypeOK, Insert, walletVars
<1>2. NewLease \in Leases
  BY <1>1, NewLeaseType
<1>3. /\ leases' \in Seq(Leases) /\ Len(leases') = Len(leases) + 1
      /\ \A j \in 1 .. Len(leases) : leases'[j] = leases[j]
      /\ leases'[Len(leases) + 1] = NewLease
  BY <1>1, <1>2, AppendProperties DEF TypeOK, Insert
<1>4. /\ Len(leases) \in Nat /\ DOMAIN leases = 1 .. Len(leases)
      /\ DOMAIN leases' = 1 .. Len(leases) + 1
  BY <1>1, <1>3, LenProperties DEF TypeOK
<1>5. /\ queue' \in Seq(Addresses)
      /\ pc' \in [Workers -> {"idle"} \cup SweepSteps \cup RequestSteps]
      /\ pc'["maintenance"] \notin RequestSteps
      /\ request' = NoRequest
      /\ LockHeld'
      /\ NoneWhileAllocating'
  BY <1>1, ReleaseStep
<1>6. OneActiveLease'
  <2>1. NewLease.dustAddress = Head(queue)
    BY DEF NewLease
  <2>2. \A j \in 1 .. Len(leases) :
           ~(leases[j].status = "active" /\ leases[j].dustAddress = Head(queue))
    BY <1>1, <1>4 DEF ActiveLeases
  <2> HIDE DEF NewLease
  <2>3. SUFFICES ASSUME NEW i \in 1 .. Len(leases) + 1, NEW j \in 1 .. Len(leases) + 1,
                        leases'[i].status = "active", leases'[j].status = "active",
                        leases'[i].dustAddress = leases'[j].dustAddress
                 PROVE  i = j
    BY <1>4 DEF OneActiveLease
  <2>4. CASE i \in 1 .. Len(leases) /\ j \in 1 .. Len(leases)
    BY <1>1, <1>3, <1>4, <2>3, <2>4 DEF OneActiveLease
  <2>5. CASE i = Len(leases) + 1 /\ j \in 1 .. Len(leases)
    BY <1>3, <2>1, <2>2, <2>3, <2>5
  <2>6. CASE j = Len(leases) + 1 /\ i \in 1 .. Len(leases)
    BY <1>3, <2>1, <2>2, <2>3, <2>6
  <2>7. CASE j = Len(leases) + 1 /\ i = Len(leases) + 1
    BY <2>7
  <2> QED BY <1>4, <2>4, <2>5, <2>6, <2>7
<1>7. TypeOK'
  <2>1. local' \in [Workers -> Locals(Len(leases'))]
    BY <1>1, <1>3, <1>4, LocalTypes, SMTT(30) DEF Insert, Locals, Workers
  <2>2. todo' \in [Workers -> SUBSET (DOMAIN leases')]
    BY <1>1, <1>4, LocalTypes DEF Insert, Workers
  <2>3. request' \in Requests(Len(leases'))
    BY <1>3, <1>4, <1>5, NoRequestType
  <2>4. faults' \in 0 .. FaultBound
    BY <1>1 DEF TypeOK, Insert
  <2> QED BY <1>1, <1>3, <1>5, <2>1, <2>2, <2>3, <2>4 DEF TypeOK, Locals, Requests
<1> QED BY <1>5, <1>6, <1>7 DEF LeaseInv

-----------------------------------------------------------------------------
(* Every action keeps the invariant: sweeps. *)

\* Where a sweep goes from a reclaim, by worker.
LEMMA AfterReclaimStep ==
    ASSUME NEW w \in Workers, NEW left
    PROVE  /\ AfterReclaim(w, left) \in SweepSteps \cup RequestSteps \cup {"idle"}
           /\ w = "maintenance" => AfterReclaim(w, left) \notin RequestSteps
           /\ AfterPool(w) \in SweepSteps \cup RequestSteps \cup {"idle"}
           /\ w = "maintenance" => AfterPool(w) \notin RequestSteps
BY DEF AfterReclaim, AfterPool, Workers, SweepSteps, RequestSteps

LEMMA FindStep ==
    ASSUME LeaseInv, NEW w \in Workers, Find(w)
    PROVE  LeaseInv'
<1>1. TypeOK /\ NoNewActive /\ WalletTypeOK'
  BY LeasesUnchanged, WalletStays DEF LeaseInv, TypeOK, Find, walletVars
<1>2. PICK batch \in SUBSET Expired :
         todo' = [todo EXCEPT ![w] = batch] /\ GoTo(w, AfterReclaim(w, batch))
  BY DEF Find
<1>3. todo' \in [Workers -> SUBSET (DOMAIN leases)]
  BY <1>1, <1>2, LocalTypes DEF Expired
<1>4. w = "request" => pc["request"] \notin {"idle", "extend"}
  BY DEF Find
<1>5. UNCHANGED <<queue, faults, local, request>>
  BY DEF Find
<1> QED BY <1>1, <1>2, <1>3, <1>4, <1>5, LocalTypes, AfterReclaimStep, SweepStep

LEMMA MarkStep ==
    ASSUME LeaseInv, NEW w \in Workers, Mark(w)
    PROVE  LeaseInv'
<1>1. TypeOK /\ WalletTypeOK'
  BY WalletStays DEF LeaseInv, TypeOK, Mark, walletVars
<1>2. PICK i \in todo[w] :
         /\ todo' = [todo EXCEPT ![w] = @ \ {i}]
         /\ local' = [local EXCEPT ![w] = [NoReclaim EXCEPT !.lease = i]]
         /\ leases[i].status = "reclaimed" => UNCHANGED leases
         /\ leases[i].status # "reclaimed" =>
               leases' = [leases EXCEPT ![i] = Marked(leases[i])]
  BY DEF Mark
<1>3. i \in DOMAIN leases /\ i \in 0 .. Len(leases) /\ Len(leases) \in Nat
  BY <1>1, LocalTypes
<1>4. NoNewActive
  <2>1. CASE leases[i].status = "reclaimed"
    BY <1>1, <1>2, <2>1, LeasesUnchanged
  <2>2. CASE leases[i].status # "reclaimed"
    <3> DEFINE n == leases[i].reclaimAttempts + 1
               l == Marked(leases[i])
    <3>1. leases' = [leases EXCEPT ![i] = l]
      BY <1>2, <2>2
    <3>2. 0 \in 0 .. StaleAfter /\ n \in Nat
      BY <1>1, <1>3, LeaseElement, SMTT(30) DEF Leases
    <3>3. l = [leases[i] EXCEPT !.status = "reclaiming", !.idle = 0, !.reclaimAttempts = n]
      BY DEF Marked
    <3> HIDE DEF n, l
    <3>4. l \in Leases /\ l.dustAddress = leases[i].dustAddress /\ l.status # "active"
      BY <1>1, <1>3, <3>2, <3>3, LeaseElement DEF Leases, Statuses
    <3> QED BY <1>1, <3>1, <3>4, OneLeaseChanged
  <2> QED BY <2>1, <2>2
<1>5. todo' \in [Workers -> SUBSET (DOMAIN leases)]
  BY <1>1, <1>2, LocalTypes
<1>6. local' \in [Workers -> Locals(Len(leases))]
  <2>1. [NoReclaim EXCEPT !.lease = i] \in Locals(Len(leases))
    BY <1>3, NoReclaimType
  <2> QED BY <1>1, <1>2, <2>1, LocalTypes
<1>7. /\ GoTo(w, "look") /\ UNCHANGED <<queue, faults, request>>
      /\ w = "request" => pc["request"] \notin {"idle", "extend"}
  BY DEF Mark
<1> QED BY <1>1, <1>4, <1>5, <1>6, <1>7, LocalTypes, SweepStep DEF SweepSteps, RequestSteps

\* Giving a reclaim up, and other changes of the locals.
LEMMA LocalChanged ==
    ASSUME TypeOK, NEW w \in Workers, NEW l \in Locals(Len(leases)),
           local' = [local EXCEPT ![w] = l]
    PROVE  local' \in [Workers -> Locals(Len(leases))]
BY LocalTypes

LEMMA GiveUpType ==
    ASSUME TypeOK, NEW w \in Workers, GiveUp(w)
    PROVE  local' \in [Workers -> Locals(Len(leases))] /\ GoTo(w, "settle")
<1>1. local[w].lease \in 0 .. Len(leases) /\ Len(leases) \in Nat
  BY LocalTypes DEF Locals
<1>2. [NoReclaim EXCEPT !.lease = local[w].lease] \in Locals(Len(leases))
  BY <1>1, NoReclaimType
<1> QED BY <1>2, LocalChanged DEF GiveUp

LEMMA LookStep ==
    ASSUME LeaseInv, NEW w \in Workers, Look(w)
    PROVE  LeaseInv'
<1>1. TypeOK /\ NoNewActive /\ WalletTypeOK'
  BY LeasesUnchanged, WalletStays DEF LeaseInv, TypeOK, Look, walletVars
<1> DEFINE reclaimable == registeredUtxos \cap leases[local[w].lease].utxoIds
           seen == [local[w] EXCEPT !.utxoIds = reclaimable, !.free = freeNightUtxos # {}]
<1>2. /\ UNCHANGED <<queue, faults, request, todo>>
      /\ w = "request" => pc["request"] \notin {"idle", "extend"}
  BY DEF Look
<1>3. reclaimable \in SUBSET UtxoIds
  BY <1>1, FreeAndRegisteredAreIds DEF TypeOK
<1>4. seen \in Locals(Len(leases))
  <2> DEFINE free == freeNightUtxos # {}
  <2>1. free \in BOOLEAN /\ local[w] \in Locals(Len(leases))
    BY <1>1, LocalTypes
  <2>2. seen = [local[w] EXCEPT !.utxoIds = reclaimable, !.free = free]
    OBVIOUS
  <2> HIDE DEF reclaimable, free, seen
  <2> QED BY <1>3, <2>1, <2>2 DEF Locals
<1>5. \/ GiveUp(w)
      \/ local' = [local EXCEPT ![w] = seen] /\ GoTo(w, "deregister")
      \/ local' = [local EXCEPT ![w] = seen] /\ GoTo(w, "generate")
  BY DEF Look
<1> HIDE DEF seen
<1>6. CASE GiveUp(w)
  BY <1>1, <1>2, <1>6, GiveUpType, LocalTypes, SweepStep DEF SweepSteps, RequestSteps
<1>7. CASE local' = [local EXCEPT ![w] = seen] /\ GoTo(w, "deregister")
  BY <1>1, <1>2, <1>4, <1>7, LocalChanged, LocalTypes, SweepStep DEF SweepSteps, RequestSteps
<1>8. CASE local' = [local EXCEPT ![w] = seen] /\ GoTo(w, "generate")
  BY <1>1, <1>2, <1>4, <1>8, LocalChanged, LocalTypes, SweepStep DEF SweepSteps, RequestSteps
<1> QED BY <1>5, <1>6, <1>7, <1>8

LEMMA GenerateStep ==
    ASSUME LeaseInv, NEW w \in Workers, Generate(w)
    PROVE  LeaseInv'
<1>1. TypeOK /\ NoNewActive
  BY LeasesUnchanged DEF LeaseInv, Generate
<1>2. /\ UNCHANGED <<queue, faults, request, todo, coin>>
      /\ w = "request" => pc["request"] \notin {"idle", "extend"}
  BY DEF Generate
<1>3. WalletTypeOK'
  <2>1. CASE UNCHANGED pending
    BY <1>1, <1>2, <2>1, WalletStays DEF TypeOK, walletVars
  <2>2. ASSUME NEW id \in freeNightUtxos, submitTransaction({id}, Operating, {})
        PROVE  WalletTypeOK'
    <3>1. {id} \in SUBSET UtxoIds /\ {} \in SUBSET Coins
      BY <1>1, FreeAndRegisteredAreIds DEF TypeOK
    <3>2. Operating \in Beneficiaries \cup {Free}
      BY DEF Beneficiaries
    <3> QED BY <1>1, <1>2, <2>2, <3>1, <3>2, SubmitType DEF TypeOK
  <2> QED BY <2>1, <2>2 DEF Generate
<1>4. CASE GiveUp(w)
  BY <1>1, <1>2, <1>3, <1>4, GiveUpType, LocalTypes, SweepStep DEF SweepSteps, RequestSteps
<1>5. CASE GoTo(w, IF local[w].retry THEN "look" ELSE "deregister") /\ UNCHANGED local
  <2>1. /\ (IF local[w].retry THEN "look" ELSE "deregister") \in SweepSteps
        /\ (IF local[w].retry THEN "look" ELSE "deregister") \notin RequestSteps
    BY DEF SweepSteps, RequestSteps
  <2> QED BY <1>1, <1>2, <1>3, <1>5, <2>1, LocalTypes, SweepStep
<1> QED BY <1>4, <1>5 DEF Generate

LEMMA DeregisterStep ==
    ASSUME LeaseInv, NEW w \in Workers, Deregister(w)
    PROVE  LeaseInv'
<1>1. TypeOK /\ NoNewActive
  BY LeasesUnchanged DEF LeaseInv, Deregister
<1>2. /\ UNCHANGED <<queue, faults, request, todo, coin>>
      /\ w = "request" => pc["request"] \notin {"idle", "extend"}
  BY DEF Deregister
<1>3. local[w] \in Locals(Len(leases)) /\ Len(leases) \in Nat
  BY <1>1, LocalTypes
<1> DEFINE done == [NoReclaim EXCEPT !.lease = local[w].lease, !.result = "reclaimed"]
<1>4. done \in Locals(Len(leases))
  <2>1. NoReclaim \in Locals(Len(leases)) /\ local[w].lease \in 0 .. Len(leases)
    BY <1>3, NoReclaimType DEF Locals
  <2>2. \A r \in Locals(Len(leases)) :
           [r EXCEPT !.lease = local[w].lease, !.result = "reclaimed"] \in Locals(Len(leases))
    BY <2>1 DEF Locals
  <2> QED BY <2>1, <2>2
<1>5. CASE /\ submitTransaction(local[w].utxoIds, Free, {})
           /\ local' = [local EXCEPT ![w] = done] /\ GoTo(w, "settle")
  <2>1. local[w].utxoIds \in SUBSET UtxoIds /\ {} \in SUBSET Coins
    BY <1>3 DEF Locals
  <2>2. WalletTypeOK'
    BY <1>1, <1>2, <1>5, <2>1, SubmitType DEF TypeOK
  <2> HIDE DEF done
  <2> QED BY <1>1, <1>2, <1>4, <1>5, <2>2, LocalChanged, LocalTypes, SweepStep
          DEF SweepSteps, RequestSteps
<1>6. CASE /\ local' = [local EXCEPT ![w].retry = TRUE] /\ GoTo(w, "generate")
           /\ UNCHANGED pending
  <2>1. [local[w] EXCEPT !.retry = TRUE] \in Locals(Len(leases))
    BY <1>3 DEF Locals
  <2>2. local' = [local EXCEPT ![w] = [local[w] EXCEPT !.retry = TRUE]]
    BY <1>6
  <2>3. WalletTypeOK'
    BY <1>1, <1>2, <1>6, WalletStays DEF TypeOK, walletVars
  <2> QED BY <1>1, <1>2, <1>6, <2>1, <2>2, <2>3, LocalChanged, LocalTypes, SweepStep
          DEF SweepSteps, RequestSteps
<1>7. CASE GiveUp(w) /\ UNCHANGED pending
  <2>1. WalletTypeOK'
    BY <1>1, <1>2, <1>7, WalletStays DEF TypeOK, walletVars
  <2> QED BY <1>1, <1>2, <1>7, <2>1, GiveUpType, LocalTypes, SweepStep
          DEF SweepSteps, RequestSteps
<1> QED BY <1>5, <1>6, <1>7 DEF Deregister

LEMMA SettleStep ==
    ASSUME LeaseInv, NEW w \in Workers, Settle(w)
    PROVE  LeaseInv'
<1>1. TypeOK /\ WalletTypeOK'
  BY WalletStays DEF LeaseInv, TypeOK, Settle, walletVars
<1> DEFINE i == local[w].lease
           l == [leases[i] EXCEPT !.status = local[w].result, !.idle = 0]
<1>2. local[w] \in Locals(Len(leases)) /\ Len(leases) \in Nat
  BY <1>1, LocalTypes
<1>3. local[w].result \in Statuses /\ local[w].result # "active" /\ 0 \in 0 .. StaleAfter
  BY <1>2 DEF Locals, Statuses
<1>4. leases' = [leases EXCEPT ![i] = l]
  BY DEF Settle
<1>5. i \in DOMAIN leases =>
         l \in Leases /\ l.dustAddress = leases[i].dustAddress /\ l.status # "active"
  BY <1>1, <1>3, LeaseElement DEF Leases
<1> HIDE DEF i, l
<1>6. NoNewActive
  BY <1>1, <1>4, <1>5, OneLeaseChanged
<1>7. local' \in [Workers -> Locals(Len(leases))]
  <2>1. 0 \in 0 .. Len(leases)
    BY <1>2
  <2>2. NoReclaim \in Locals(Len(leases))
    BY <1>2, <2>1, NoReclaimType
  <2> QED BY <1>1, <2>2, LocalChanged DEF Settle
<1>8. /\ GoTo(w, AfterReclaim(w, todo[w])) /\ UNCHANGED <<queue, faults, request, todo>>
      /\ w = "request" => pc["request"] \notin {"idle", "extend"}
  BY DEF Settle
<1> QED BY <1>1, <1>6, <1>7, <1>8, AfterReclaimStep, LocalTypes, SweepStep

LEMMA PoolStep ==
    ASSUME LeaseInv, NEW w \in Workers, Pool(w)
    PROVE  LeaseInv'
<1>1. TypeOK /\ NoNewActive /\ WalletTypeOK'
  BY LeasesUnchanged, WalletStays DEF LeaseInv, TypeOK, Pool, walletVars
<1>2. /\ UNCHANGED <<queue, faults, request, todo>>
      /\ w = "request" => pc["request"] \notin {"idle", "extend"}
  BY DEF Pool
<1>3. CASE GoTo(w, AfterPool(w)) /\ UNCHANGED local
  BY <1>1, <1>2, <1>3, AfterReclaimStep, LocalTypes, SweepStep
<1>4. CASE /\ WantedOutputs > 0 /\ GoTo(w, "split")
           /\ local' = [local EXCEPT ![w].outputs = WantedOutputs]
  <2>1. WantedOutputs \in Nat
    BY <1>1, <1>4, WantedOutputsType DEF TypeOK
  <2>2. [local[w] EXCEPT !.outputs = WantedOutputs] \in Locals(Len(leases))
    BY <1>1, <2>1, LocalTypes DEF Locals
  <2>3. local' = [local EXCEPT ![w] = [local[w] EXCEPT !.outputs = WantedOutputs]]
    BY <1>4
  <2> QED BY <1>1, <1>2, <1>4, <2>2, <2>3, LocalChanged, LocalTypes, SweepStep
          DEF SweepSteps, RequestSteps
<1> QED BY <1>3, <1>4 DEF Pool

LEMMA SplitStep ==
    ASSUME LeaseInv, NEW w \in Workers, Split(w)
    PROVE  LeaseInv'
<1>1. TypeOK /\ NoNewActive
  BY LeasesUnchanged DEF LeaseInv, Split
<1>2. /\ UNCHANGED <<queue, faults, request, todo, coin>> /\ GoTo(w, AfterPool(w))
      /\ w = "request" => pc["request"] \notin {"idle", "extend"}
  BY DEF Split
<1>3. WalletTypeOK'
  <2>1. CASE UNCHANGED pending
    BY <1>1, <1>2, <2>1, WalletStays DEF TypeOK, walletVars
  <2>2. ASSUME NEW id \in availableCoins, NEW n \in 1 .. local[w].outputs,
               NEW new \in kSubset(n, NewCoins), submitTransaction({id}, Free, new)
        PROVE  WalletTypeOK'
    <3>1. {id} \in SUBSET UtxoIds
      BY <1>1, AvailableAreIds DEF TypeOK
    <3>2. new \in SUBSET Coins
      BY DEF kSubset, NewCoins
    <3> QED BY <1>1, <1>2, <2>2, <3>1, <3>2, SubmitType DEF TypeOK
  <2> QED BY <2>1, <2>2 DEF Split
<1>4. local' \in [Workers -> Locals(Len(leases))]
  <2>1. 0 \in 0 .. Len(leases) /\ Len(leases) \in Nat
    BY <1>1, LocalTypes
  <2>2. NoReclaim \in Locals(Len(leases))
    BY <2>1, NoReclaimType
  <2> QED BY <1>1, <2>2, LocalChanged DEF Split
<1> QED BY <1>1, <1>2, <1>3, <1>4, AfterReclaimStep, LocalTypes, SweepStep

-----------------------------------------------------------------------------
(* Every action keeps the invariant: faults, time and the chain. *)

LEMMA SettleFailsStep ==
    ASSUME LeaseInv, NEW w \in Workers, SettleFails(w)
    PROVE  LeaseInv'
<1>1. TypeOK /\ OneActiveLease /\ NoNewActive /\ WalletTypeOK'
  BY LeasesUnchanged, WalletStays DEF LeaseInv, TypeOK, SettleFails, walletVars
<1>2. local' \in [Workers -> Locals(Len(leases))]
  <2>1. [local[w] EXCEPT !.result = "reclaim_failed"] \in Locals(Len(leases))
    BY <1>1, LocalTypes DEF Locals
  <2>2. local' = [local EXCEPT ![w] = [local[w] EXCEPT !.result = "reclaim_failed"]]
    BY DEF SettleFails
  <2> QED BY <1>1, <2>1, <2>2, LocalChanged
<1>3. faults' \in 0 .. FaultBound
  BY <1>1, SMTT(30) DEF TypeOK, SettleFails
<1>4. UNCHANGED <<leases, queue, pc, todo, request>>
  BY DEF SettleFails
<1>5. TypeOK'
  BY <1>1, <1>2, <1>3, <1>4 DEF TypeOK, Locals
<1> QED BY <1>4, <1>5 DEF LeaseInv, OneActiveLease, LockHeld, NoneWhileAllocating, ActiveLeases

LEMMA AbortStep ==
    ASSUME LeaseInv, NEW w \in Workers, Abort(w)
    PROVE  LeaseInv'
<1>1. TypeOK /\ OneActiveLease /\ NoNewActive /\ WalletTypeOK' /\ Len(leases) \in Nat
  BY LeasesUnchanged, LocalTypes, WalletStays DEF LeaseInv, TypeOK, Abort, walletVars
<1>2. todo' \in [Workers -> SUBSET (DOMAIN leases)]
  BY <1>1, LocalTypes DEF Abort
<1>3. local' \in [Workers -> Locals(Len(leases))]
  <2>1. 0 \in 0 .. Len(leases)
    BY <1>1
  <2>2. NoReclaim \in Locals(Len(leases))
    BY <1>1, <2>1, NoReclaimType
  <2> QED BY <1>1, <2>2, LocalChanged DEF Abort
<1>4. faults' \in 0 .. FaultBound
  BY <1>1, SMTT(30) DEF TypeOK, Abort
<1>5. CASE w = "request"
  <2>1. Release /\ UNCHANGED leases /\ queue # <<>>
    BY <1>5 DEF Abort, LeaseInv, LockHeld
  <2>2. /\ queue' \in Seq(Addresses)
        /\ pc' \in [Workers -> {"idle"} \cup SweepSteps \cup RequestSteps]
        /\ pc'["maintenance"] \notin RequestSteps
        /\ request' = NoRequest
        /\ LockHeld'
        /\ NoneWhileAllocating'
    BY <1>1, <2>1, ReleaseStep
  <2>3. TypeOK'
    BY <1>1, <1>2, <1>3, <1>4, <2>1, <2>2, NoRequestType
    DEF TypeOK, Locals, Requests
  <2> QED BY <1>1, <2>1, <2>2, <2>3 DEF LeaseInv, OneActiveLease
<1>6. CASE w # "request"
  <2>1. w = "maintenance" /\ GoTo(w, "idle") /\ UNCHANGED <<queue, request, leases>>
    BY <1>6 DEF Abort, Workers
  <2>2. \A a : ActiveLeases(a)' \subseteq ActiveLeases(a)
    BY <2>1 DEF ActiveLeases
  <2>3. /\ pc' \in [Workers -> {"idle"} \cup SweepSteps \cup RequestSteps]
        /\ pc'["maintenance"] \notin RequestSteps
        /\ LockHeld'
        /\ NoneWhileAllocating'
    BY <2>1, <2>2, WorkerStep DEF RequestSteps
  <2>4. TypeOK'
    BY <1>1, <1>2, <1>3, <1>4, <2>1, <2>3 DEF TypeOK, Locals, Requests
  <2> QED BY <1>1, <2>1, <2>3, <2>4 DEF LeaseInv, OneActiveLease
<1> QED BY <1>5, <1>6

LEMMA RestartStep ==
    ASSUME LeaseInv, Restart
    PROVE  LeaseInv'
<1>1. TypeOK /\ OneActiveLease /\ Len(leases) \in Nat /\ UNCHANGED leases
  BY LenProperties DEF LeaseInv, TypeOK, Restart
<1>2. WalletTypeOK'
  BY <1>1, ForgetType DEF TypeOK, Restart
<1>3. NoReclaim \in Locals(Len(leases))
  <2>1. 0 \in 0 .. Len(leases)
    BY <1>1
  <2> QED BY <1>1, <2>1, NoReclaimType
<1>4. local' \in [Workers -> Locals(Len(leases))]
  BY <1>3 DEF Restart
<1>5. todo' \in [Workers -> SUBSET (DOMAIN leases)]
  BY DEF Restart
<1>6. queue' \in Seq(Addresses)
  BY EmptySeq DEF Restart
<1>7. /\ pc' \in [Workers -> {"idle"} \cup SweepSteps \cup RequestSteps]
      /\ pc'["maintenance"] \notin RequestSteps /\ pc'["request"] = "idle"
  BY DEF Restart, Workers, RequestSteps
<1>8. faults' \in 0 .. FaultBound
  BY <1>1, SMTT(30) DEF TypeOK, Restart
<1>9. request' \in Requests(Len(leases))
  BY <1>1, NoRequestType DEF Restart
<1>10. TypeOK'
  BY <1>1, <1>2, <1>4, <1>5, <1>6, <1>7, <1>8, <1>9 DEF TypeOK, Locals, Requests
<1> QED BY <1>1, <1>7, <1>10 DEF LeaseInv, LockHeld, OneActiveLease, NoneWhileAllocating

LEMMA TickStep ==
    ASSUME LeaseInv, Tick
    PROVE  LeaseInv'
<1>1. TypeOK /\ OneActiveLease /\ WalletTypeOK' /\ Len(leases) \in Nat
  BY LenProperties, WalletStays DEF LeaseInv, TypeOK, Tick, walletVars
<1>2. NoNewActive
  <2>1. SUFFICES ASSUME NEW j \in DOMAIN leases
                 PROVE  /\ leases'[j] \in Leases
                        /\ leases'[j].dustAddress = leases[j].dustAddress
                        /\ leases'[j].status = leases[j].status
    BY DEF NoNewActive, Tick
  <2> DEFINE left == Max({0, leases[j].left - 1})
             idle == IF leases[j].status = "reclaiming"
                     THEN Min({leases[j].idle + 1, StaleAfter}) ELSE 0
  <2>2. leases'[j] = [leases[j] EXCEPT !.left = left, !.idle = idle]
    BY DEF Tick
  <2>3. /\ leases[j] \in Leases /\ leases[j].left \in 0 .. TTL
        /\ leases[j].idle \in 0 .. StaleAfter
    BY <1>1, LeaseElement DEF Leases
  <2>4. left \in 0 .. TTL
    BY <2>3, DownByOne
  <2>5. idle \in 0 .. StaleAfter
    BY <2>3, UpByOne
  <2> HIDE DEF left, idle
  <2> QED BY <2>2, <2>3, <2>4, <2>5 DEF Leases
<1>3. /\ leases' \in Seq(Leases)
      /\ Len(leases') = Len(leases) /\ DOMAIN leases' = DOMAIN leases
      /\ OneActiveLease'
      /\ \A a : ActiveLeases(a)' \subseteq ActiveLeases(a)
  BY <1>1, <1>2, NoNewActiveKeeps
<1>4. request' \in Requests(Len(leases))
  <2>1. request \in Requests(Len(leases))
    BY <1>1, LocalTypes DEF Workers
  <2> DEFINE age == Min({request.age + 1, TTL})
  <2>2. request.age \in 0 .. TTL
    BY <2>1 DEF Requests
  <2>3. age \in 0 .. TTL
    BY <2>2, UpByOne
  <2>4. request' = IF pc["request"] = "idle" THEN request ELSE [request EXCEPT !.age = age]
    BY DEF Tick
  <2> HIDE DEF age
  <2> QED BY <2>1, <2>3, <2>4 DEF Requests
<1>5. TypeOK'
  BY <1>1, <1>3, <1>4 DEF TypeOK, Tick, Locals, Requests
<1>6. LockHeld' /\ NoneWhileAllocating'
  <2>1. UNCHANGED <<queue, pc>>
    BY DEF Tick
  <2> QED BY <1>3, <2>1 DEF LeaseInv, LockHeld, NoneWhileAllocating, ActiveLeases
<1> QED BY <1>3, <1>5, <1>6 DEF LeaseInv

LEMMA ChainStep ==
    ASSUME LeaseInv, Chain
    PROVE  LeaseInv'
<1>1. WalletTypeOK'
  BY ChainType DEF LeaseInv, TypeOK, Chain
<1>2. TypeOK'
  BY <1>1 DEF LeaseInv, TypeOK, Chain
<1> QED BY <1>2 DEF LeaseInv, LockHeld, OneActiveLease, NoneWhileAllocating, ActiveLeases, Chain

-----------------------------------------------------------------------------
(* The theorems. *)

LEMMA LeaseInvInit == Init => LeaseInv
<1> SUFFICES ASSUME Init PROVE LeaseInv
  OBVIOUS
<1>1. WalletTypeOK
  BY DEF Init, WalletInit, WalletTypeOK
<1>2. leases = <<>> /\ leases \in Seq(Leases) /\ queue \in Seq(Addresses)
      /\ Len(leases) = 0 /\ DOMAIN leases = {}
  BY EmptySeq DEF Init
<1>3. NoReclaim \in Locals(0) /\ NoRequest \in Requests(0)
  <2>1. 0 \in Nat /\ 0 \in 0 .. 0
    OBVIOUS
  <2> QED BY <2>1, NoReclaimType, NoRequestType
<1>4. TypeOK
  BY <1>1, <1>2, <1>3 DEF Init, TypeOK, Workers, RequestSteps, Locals, Requests
<1> QED BY <1>2, <1>4 DEF Init, LeaseInv, LockHeld, OneActiveLease, NoneWhileAllocating, Workers

LEMMA LeaseInvStep ==
    ASSUME LeaseInv, [Next]_vars
    PROVE  LeaseInv'
<1>1. CASE \E a \in Addresses : Arrive(a)
  BY <1>1, ArriveStep
<1>2. CASE Request
  BY <1>2, FindExistingStep, ExtendStep, SelectStep, SubmitStep, RecogniseStep,
     NotSponsoredStep, InsertStep DEF Request
<1>3. CASE \E w \in Workers : Sweep(w)
  BY <1>3, FindStep, MarkStep, LookStep, GenerateStep, DeregisterStep, SettleStep,
     PoolStep, SplitStep DEF Sweep
<1>4. CASE \E w \in Workers : SettleFails(w) \/ Abort(w)
  BY <1>4, SettleFailsStep, AbortStep
<1>5. CASE Restart
  BY <1>5, RestartStep
<1>6. CASE Tick
  BY <1>6, TickStep
<1>7. CASE Chain
  BY <1>7, ChainStep
<1>8. CASE UNCHANGED vars
  BY <1>8 DEF vars, LeaseInv, TypeOK, WalletTypeOK, LockHeld, OneActiveLease,
              NoneWhileAllocating, ActiveLeases
<1> QED BY <1>1, <1>2, <1>3, <1>4, <1>5, <1>6, <1>7, <1>8 DEF Next

(* Every variable keeps its type. *)
THEOREM SponsorTypeCorrect == Spec => []TypeOK
<1>1. LeaseInv => TypeOK
  BY DEF LeaseInv
<1> QED BY <1>1, LeaseInvInit, LeaseInvStep, PTL DEF Spec

(* contract-service.ts:ensureDustSponsorship: an address never has two       *)
(* active leases, for any number of addresses, coins, requests and leases.  *)
THEOREM SponsorOneActiveLease == Spec => []OneActiveLease
<1>1. LeaseInv => OneActiveLease
  BY DEF LeaseInv
<1> QED BY <1>1, LeaseInvInit, LeaseInvStep, PTL DEF Spec

-----------------------------------------------------------------------------
(***************************************************************************)
(* Attempts.  Each sweep reads a lease below the maximum and counts it      *)
(* later, so the bound on the count depends on how many sweeps still have   *)
(* the lease to do: each of them may add one.                               *)
(***************************************************************************)

AttemptsInv ==
    \A i \in DOMAIN leases :
        /\ leases[i].reclaimAttempts <= MaxAttempts + 1
        /\ \A w \in Workers : i \in todo[w] => leases[i].reclaimAttempts <= MaxAttempts
        /\ (\A w \in Workers : i \in todo[w]) => leases[i].reclaimAttempts < MaxAttempts

\* Nothing is counted and no sweep takes on a lease.
LEMMA NothingCounted ==
    ASSUME AttemptsInv, DOMAIN leases' = DOMAIN leases,
           \A i \in DOMAIN leases : leases'[i].reclaimAttempts = leases[i].reclaimAttempts,
           \A w \in Workers : todo'[w] \subseteq todo[w]
    PROVE  AttemptsInv'
BY DEF AttemptsInv

\* A sweep takes on leases that have attempts left.
LEMMA FindAttempts ==
    ASSUME TypeOK, AttemptsInv, NEW w \in Workers, Find(w)
    PROVE  AttemptsInv'
<1>1. PICK batch \in SUBSET Expired : todo' = [todo EXCEPT ![w] = batch]
  BY DEF Find
<1>2. UNCHANGED leases
  BY DEF Find
<1>3. \A i \in batch : leases[i].reclaimAttempts < MaxAttempts
  BY DEF Expired, AttemptsLeft
<1>4. \A i \in DOMAIN leases : leases[i].reclaimAttempts \in Nat
  BY LeaseElement DEF Leases
<1>5. SUFFICES ASSUME NEW i \in DOMAIN leases
               PROVE  /\ leases[i].reclaimAttempts <= MaxAttempts + 1
                      /\ \A v \in Workers :
                            i \in todo'[v] => leases[i].reclaimAttempts <= MaxAttempts
                      /\ (\A v \in Workers : i \in todo'[v]) =>
                            leases[i].reclaimAttempts < MaxAttempts
  BY <1>2 DEF AttemptsInv
<1>6. CASE i \in batch
  BY <1>3, <1>4, <1>6
<1>7. CASE i \notin batch
  <2>1. i \notin todo'[w] /\ \A v \in Workers \ {w} : todo'[v] = todo[v]
    BY <1>1, <1>7 DEF TypeOK
  <2> QED BY <1>5, <2>1 DEF AttemptsInv
<1> QED BY <1>6, <1>7

\* A sweep counts a lease it had to do, and has it no longer.
LEMMA MarkAttempts ==
    ASSUME TypeOK, AttemptsInv, NEW w \in Workers, Mark(w)
    PROVE  AttemptsInv'
<1>1. PICK k \in todo[w] :
         /\ todo' = [todo EXCEPT ![w] = @ \ {k}]
         /\ leases[k].status = "reclaimed" => UNCHANGED leases
         /\ leases[k].status # "reclaimed" =>
               leases' = [leases EXCEPT ![k] = Marked(leases[k])]
  BY DEF Mark
<1>2. k \in DOMAIN leases
  BY LocalTypes
<1>3. /\ k \notin todo'[w] /\ todo'[w] \subseteq todo[w]
      /\ \A v \in Workers \ {w} : todo'[v] = todo[v]
  BY <1>1 DEF TypeOK
<1>4. CASE leases[k].status = "reclaimed"
  <2>1. \A v \in Workers : todo'[v] \subseteq todo[v]
    BY <1>3
  <2> QED BY <1>1, <1>4, <2>1, NothingCounted
<1>5. CASE leases[k].status # "reclaimed"
  <2> DEFINE n == leases[k].reclaimAttempts
  <2>1. n \in Nat
    BY <1>2, LeaseElement DEF Leases
  <2>2. /\ DOMAIN leases' = DOMAIN leases
        /\ \A i \in DOMAIN leases \ {k} : leases'[i] = leases[i]
        /\ leases'[k] = Marked(leases[k])
    BY <1>1, <1>2, <1>5
  <2>3. Marked(leases[k]).reclaimAttempts = n + 1
    <3>1. leases[k] \in Leases
      BY <1>2, LeaseElement
    <3> QED BY <3>1 DEF Marked, Leases
  <2>4. /\ n <= MaxAttempts
        /\ (\A v \in Workers : k \in todo[v]) => n < MaxAttempts
    BY <1>1, <1>2 DEF AttemptsInv
  <2>5. \A v \in Workers : k \in todo'[v] => \A u \in Workers : k \in todo[u]
    BY <1>1, <1>3 DEF Workers
  <2>6. SUFFICES ASSUME NEW i \in DOMAIN leases
                 PROVE  /\ leases'[i].reclaimAttempts <= MaxAttempts + 1
                        /\ \A v \in Workers :
                              i \in todo'[v] => leases'[i].reclaimAttempts <= MaxAttempts
                        /\ (\A v \in Workers : i \in todo'[v]) =>
                              leases'[i].reclaimAttempts < MaxAttempts
    BY <2>2 DEF AttemptsInv
  <2>7. CASE i # k
    BY <1>3, <2>2, <2>7 DEF AttemptsInv
  <2>8. CASE i = k
    <3> HIDE DEF n
    <3>1. leases'[i].reclaimAttempts = n + 1
      BY <2>2, <2>3, <2>8
    <3>2. leases'[i].reclaimAttempts <= MaxAttempts + 1
      BY <2>1, <2>4, <3>1
    <3>3. ASSUME NEW v \in Workers, i \in todo'[v]
          PROVE  leases'[i].reclaimAttempts <= MaxAttempts
      BY <2>1, <2>4, <2>5, <2>8, <3>1, <3>3
    <3> QED BY <1>3, <2>8, <3>2, <3>3
  <2> QED BY <2>7, <2>8
<1> QED BY <1>4, <1>5

\* A new lease has no attempts yet, and no sweep has it to do.
LEMMA InsertAttempts ==
    ASSUME TypeOK, AttemptsInv, Insert, queue # <<>>
    PROVE  AttemptsInv'
<1>1. Len(leases) \in Nat /\ DOMAIN leases = 1 .. Len(leases)
  BY LenProperties DEF TypeOK
<1>2. /\ DOMAIN leases' = 1 .. Len(leases) + 1
      /\ \A i \in 1 .. Len(leases) : leases'[i] = leases[i]
      /\ leases'[Len(leases) + 1] = NewLease
  <2>1. leases' = Append(leases, NewLease) /\ NewLease \in Leases
    BY NewLeaseType DEF Insert
  <2>2. leases' \in Seq(Leases) /\ Len(leases') = Len(leases) + 1
    BY <2>1, AppendProperties DEF TypeOK
  <2> QED BY <1>1, <2>1, <2>2, AppendProperties, LenProperties DEF TypeOK
<1>3. UNCHANGED todo /\ \A w \in Workers : todo[w] \subseteq 1 .. Len(leases)
  BY <1>1, LocalTypes DEF Insert
<1>4. NewLease.reclaimAttempts = 0
  BY DEF NewLease
<1>5. "request" \in Workers
  BY DEF Workers
<1> HIDE DEF NewLease
<1> QED BY <1>1, <1>2, <1>3, <1>4, <1>5, SMTT(30) DEF AttemptsInv

\* What an action that changes leases does not do to attempts.
LEMMA ExtendAttempts ==
    ASSUME TypeOK, Extend
    PROVE  /\ DOMAIN leases' = DOMAIN leases
           /\ \A i \in DOMAIN leases : leases'[i].reclaimAttempts = leases[i].reclaimAttempts
<1> DEFINE l == [leases[request.existing] EXCEPT
                    !.left = TTL - request.age, !.extended = TRUE,
                    !.idle = Min({request.age, StaleAfter})]
<1>1. leases' = [leases EXCEPT ![request.existing] = l]
  BY DEF Extend
<1>2. request.existing \in DOMAIN leases =>
         l.reclaimAttempts = leases[request.existing].reclaimAttempts
  BY LeaseElement DEF Leases
<1> HIDE DEF l
<1> QED BY <1>1, <1>2

LEMMA SettleAttempts ==
    ASSUME TypeOK, NEW w \in Workers, Settle(w)
    PROVE  /\ DOMAIN leases' = DOMAIN leases
           /\ \A i \in DOMAIN leases : leases'[i].reclaimAttempts = leases[i].reclaimAttempts
<1> DEFINE l == [leases[local[w].lease] EXCEPT !.status = local[w].result, !.idle = 0]
<1>1. leases' = [leases EXCEPT ![local[w].lease] = l]
  BY DEF Settle
<1>2. local[w].lease \in DOMAIN leases =>
         l.reclaimAttempts = leases[local[w].lease].reclaimAttempts
  BY LeaseElement DEF Leases
<1> HIDE DEF l
<1> QED BY <1>1, <1>2

LEMMA TickAttempts ==
    ASSUME TypeOK, Tick
    PROVE  /\ DOMAIN leases' = DOMAIN leases
           /\ \A i \in DOMAIN leases : leases'[i].reclaimAttempts = leases[i].reclaimAttempts
<1>1. ASSUME NEW i \in DOMAIN leases
      PROVE  leases'[i].reclaimAttempts = leases[i].reclaimAttempts
  <2> DEFINE left == Max({0, leases[i].left - 1})
             idle == IF leases[i].status = "reclaiming"
                     THEN Min({leases[i].idle + 1, StaleAfter}) ELSE 0
  <2>1. leases'[i] = [leases[i] EXCEPT !.left = left, !.idle = idle]
    BY DEF Tick
  <2>2. leases[i] \in Leases
    BY LeaseElement
  <2> HIDE DEF left, idle
  <2> QED BY <2>1, <2>2 DEF Leases
<1>2. DOMAIN leases' = DOMAIN leases
  BY DEF Tick
<1> QED BY <1>1, <1>2

LEMMA AttemptsInvStep ==
    ASSUME LeaseInv, AttemptsInv, [Next]_vars
    PROVE  AttemptsInv'
<1>1. TypeOK
  BY DEF LeaseInv
<1>2. CASE \E a \in Addresses : Arrive(a)
  BY <1>2, NothingCounted DEF Arrive
<1>3. CASE FindExisting \/ Select \/ Submit \/ Recognise \/ NotSponsored
  <2>1. UNCHANGED <<leases, todo>>
    BY <1>3 DEF FindExisting, Select, Submit, Recognise, NotSponsored
  <2> QED BY <2>1, NothingCounted
<1>4. CASE Extend
  BY <1>1, <1>4, ExtendAttempts, NothingCounted DEF Extend
<1>5. CASE Insert
  <2>1. queue # <<>>
    BY <1>5 DEF LeaseInv, LockHeld, Insert
  <2> QED BY <1>1, <1>5, <2>1, InsertAttempts
<1>6. ASSUME NEW w \in Workers, Find(w) PROVE AttemptsInv'
  BY <1>1, <1>6, FindAttempts
<1>7. ASSUME NEW w \in Workers, Mark(w) PROVE AttemptsInv'
  BY <1>1, <1>7, MarkAttempts
<1>8. ASSUME NEW w \in Workers, Settle(w) PROVE AttemptsInv'
  BY <1>1, <1>8, SettleAttempts, NothingCounted DEF Settle
<1>9. ASSUME NEW w \in Workers,
             Look(w) \/ Generate(w) \/ Deregister(w) \/ Pool(w) \/ Split(w)
      PROVE  AttemptsInv'
  <2>1. UNCHANGED <<leases, todo>>
    BY <1>9 DEF Look, Generate, Deregister, Pool, Split
  <2> QED BY <2>1, NothingCounted
<1>10. ASSUME NEW w \in Workers, Abort(w) PROVE AttemptsInv'
  <2>1. UNCHANGED leases /\ todo' = [todo EXCEPT ![w] = {}]
    BY <1>10 DEF Abort
  <2>2. \A v \in Workers : todo'[v] \subseteq todo[v]
    BY <1>1, <2>1 DEF TypeOK
  <2> QED BY <2>1, <2>2, NothingCounted
<1>11. CASE Restart
  <2>1. UNCHANGED leases /\ \A v \in Workers : todo'[v] \subseteq todo[v]
    BY <1>11 DEF Restart
  <2> QED BY <2>1, NothingCounted
<1>12. CASE Tick
  BY <1>1, <1>12, TickAttempts, NothingCounted DEF Tick
<1>13. CASE Chain \/ UNCHANGED vars \/ \E w \in Workers : SettleFails(w)
  BY <1>13, NothingCounted DEF Chain, vars, SettleFails
<1> QED BY <1>2, <1>3, <1>4, <1>5, <1>6, <1>7, <1>8, <1>9, <1>10, <1>11, <1>12, <1>13
        DEF Next, Request, Sweep

(* contract-service.ts:reclaimExpiredSponsorships: whatever the two sweeps   *)
(* and the restarts do, no lease is attempted more than once beyond the     *)
(* configured maximum.                                                      *)
THEOREM SponsorAttemptsBounded == Spec => []AttemptsBounded
<1>1. Init => AttemptsInv
  BY DEF Init, AttemptsInv
<1>2. AttemptsInv => AttemptsBounded
  BY DEF AttemptsInv, AttemptsBounded
<1>3. LeaseInv /\ AttemptsInv /\ [Next]_vars => (LeaseInv /\ AttemptsInv)'
  BY LeaseInvStep, AttemptsInvStep
<1> QED BY <1>1, <1>2, <1>3, LeaseInvInit, PTL DEF Spec
-----------------------------------------------------------------------------
(***************************************************************************)
(* UTXOs on leases, if no submitted transaction is dropped.  That no UTXO  *)
(* is on two leases while it is registered rests on what a request sees:   *)
(* a registered UTXO of an older lease was visible before the request      *)
(* submitted, or is booked by a transaction that spends it, so it is not   *)
(* what shows as new afterwards.                                           *)
(***************************************************************************)

\* The UTXO exists or did exist; it is on some lease.
Within(id) == id[2] <= coin[id[1]].version
Leased(id) == \E i \in DOMAIN leases : id \in leases[i].utxoIds

LeasesWithin == \A i \in DOMAIN leases : \A id \in leases[i].utxoIds : Within(id)

BeforeKnown ==
    pc["request"] \in {"submit", "wait"} =>
        /\ \A id \in request.selected : Within(id) /\ ~Registered(id)
        /\ \A id \in UtxoIds : Leased(id) /\ Registered(id) => id \in request.before \cup Booked

SeenIsNew ==
    pc["request"] = "insert" =>
        \A id \in request.utxoIds : Within(id) /\ (Leased(id) => ~Registered(id))

DisjointInv == LeasedUtxosDisjoint /\ LeasesWithin /\ BeforeKnown /\ SeenIsNew

\* What no action but Insert does to the leases.
TermPast(i) == leases[i].left = 0 \/ leases[i].extended

LeasesGoOn ==
    /\ DOMAIN leases' = DOMAIN leases
    /\ \A i \in DOMAIN leases :
          /\ leases'[i].utxoIds = leases[i].utxoIds
          /\ leases'[i].selected = leases[i].selected
          /\ leases'[i].status = "active" => leases[i].status = "active"
          /\ TermPast(i) => TermPast(i)'

LEMMA OneLeaseGoesOn ==
    ASSUME NEW i, NEW l, leases' = [leases EXCEPT ![i] = l],
           i \in DOMAIN leases =>
              /\ l.utxoIds = leases[i].utxoIds /\ l.selected = leases[i].selected
              /\ l.status = "active" => leases[i].status = "active"
              /\ TermPast(i) => l.left = 0 \/ l.extended
    PROVE  LeasesGoOn
BY DEF LeasesGoOn, TermPast

LEMMA SameLeasesGoOn ==
    ASSUME UNCHANGED leases
    PROVE  LeasesGoOn
BY DEF LeasesGoOn, TermPast

LEMMA ExtendGoesOn ==
    ASSUME TypeOK, Extend
    PROVE  LeasesGoOn
<1> DEFINE l == [leases[request.existing] EXCEPT
                    !.left = TTL - request.age, !.extended = TRUE,
                    !.idle = Min({request.age, StaleAfter})]
<1>1. leases' = [leases EXCEPT ![request.existing] = l]
  BY DEF Extend
<1>2. request.existing \in DOMAIN leases =>
         /\ l.utxoIds = leases[request.existing].utxoIds /\ l.selected = leases[request.existing].selected
         /\ l.status = leases[request.existing].status /\ l.extended
  BY LeaseElement DEF Leases
<1> HIDE DEF l
<1> QED BY <1>1, <1>2, OneLeaseGoesOn

LEMMA MarkGoesOn ==
    ASSUME TypeOK, NEW w \in Workers, Mark(w)
    PROVE  LeasesGoOn
<1>1. PICK k \in todo[w] :
         /\ leases[k].status = "reclaimed" => UNCHANGED leases
         /\ leases[k].status # "reclaimed" => leases' = [leases EXCEPT ![k] = Marked(leases[k])]
  BY DEF Mark
<1>2. PICK l : l = Marked(leases[k])
  OBVIOUS
<1>3. k \in DOMAIN leases =>
         /\ l.utxoIds = leases[k].utxoIds /\ l.selected = leases[k].selected
         /\ l.status = "reclaiming" /\ l.left = leases[k].left /\ l.extended = leases[k].extended
  BY <1>2, LeaseElement DEF Leases, Marked
<1>4. CASE leases[k].status = "reclaimed"
  BY <1>1, <1>4, SameLeasesGoOn
<1>5. CASE leases[k].status # "reclaimed"
  <2>1. leases' = [leases EXCEPT ![k] = l]
    BY <1>1, <1>2, <1>5
  <2> QED BY <1>3, <2>1, OneLeaseGoesOn DEF TermPast
<1> QED BY <1>4, <1>5

LEMMA SettleGoesOn ==
    ASSUME TypeOK, NEW w \in Workers, Settle(w)
    PROVE  LeasesGoOn
<1>1. PICK k, l : k = local[w].lease /\ l = [leases[k] EXCEPT !.status = local[w].result, !.idle = 0]
  OBVIOUS
<1>2. leases' = [leases EXCEPT ![k] = l]
  BY <1>1 DEF Settle
<1>3. local[w].result \in {"reclaimed", "reclaim_failed"}
  BY LocalTypes DEF Locals
<1>4. k \in DOMAIN leases =>
         /\ l.utxoIds = leases[k].utxoIds /\ l.selected = leases[k].selected
         /\ l.status # "active" /\ l.left = leases[k].left /\ l.extended = leases[k].extended
  BY <1>1, <1>3, LeaseElement DEF Leases
<1> QED BY <1>2, <1>4, OneLeaseGoesOn DEF TermPast

LEMMA TickGoesOn ==
    ASSUME TypeOK, Tick
    PROVE  LeasesGoOn
<1>1. ASSUME NEW i \in DOMAIN leases
      PROVE  /\ leases'[i].utxoIds = leases[i].utxoIds /\ leases'[i].selected = leases[i].selected
             /\ leases'[i].status = leases[i].status /\ leases'[i].extended = leases[i].extended
             /\ leases[i].left = 0 => leases'[i].left = 0
  <2> DEFINE left == Max({0, leases[i].left - 1})
             idle == IF leases[i].status = "reclaiming"
                     THEN Min({leases[i].idle + 1, StaleAfter}) ELSE 0
  <2>1. leases'[i] = [leases[i] EXCEPT !.left = left, !.idle = idle]
    BY DEF Tick
  <2>2. leases[i] \in Leases /\ leases[i].left \in 0 .. TTL
    BY LeaseElement DEF Leases
  <2>3. leases[i].left = 0 => left = 0
    <3>1. 0 \in Int /\ leases[i].left - 1 \in Int
      BY <2>2
    <3>2. left \in {0, leases[i].left - 1} /\ left >= 0
      BY <3>1, MaxOfTwo, Zenon
    <3> HIDE DEF left
    <3> QED BY <2>2, <3>2
  <2> HIDE DEF left, idle
  <2> QED BY <2>1, <2>2, <2>3 DEF Leases
<1>2. DOMAIN leases' = DOMAIN leases
  BY DEF Tick
<1> QED BY <1>1, <1>2 DEF LeasesGoOn, TermPast

\* A step of a sweep does not take the request to where a UTXO is waited for, and drops nothing.
LEMMA SweepGoesOn ==
    ASSUME TypeOK, NEW w \in Workers, Sweep(w)
    PROVE  /\ LeasesGoOn
           /\ UNCHANGED <<coin, request>> /\ pending \subseteq pending'
           /\ \/ pc'["request"] = pc["request"]
              \/ pc'["request"] \notin {"submit", "wait", "insert"}
<1>1. LeasesGoOn
  <2>1. CASE UNCHANGED leases
    BY <2>1, SameLeasesGoOn
  <2> QED BY <2>1, MarkGoesOn, SettleGoesOn
          DEF Sweep, Find, Look, Generate, Deregister, Pool, Split
<1>2. UNCHANGED <<coin, request>> /\ pending \subseteq pending'
  BY DEF Sweep, Find, Mark, Look, Generate, Deregister, Settle, Pool, Split, submitTransaction
<1>3. PICK step : GoTo(w, step) /\ step \notin {"submit", "wait", "insert"}
  BY DEF Sweep, Find, Mark, Look, GiveUp, Generate, Deregister, Settle, Pool, Split,
         AfterReclaim, AfterPool
<1> QED BY <1>1, <1>2, <1>3 DEF GoTo, TypeOK, Workers

\* A coin keeps its version and owner, or has its next version.
CoinsMove == \A c \in Coins : coin'[c] = coin[c] \/ coin'[c].version = coin[c].version + 1

LEMMA IdsMove ==
    ASSUME WalletTypeOK, CoinsMove, NEW id \in UtxoIds, Within(id)
    PROVE  /\ Within(id)'
           /\ Unspent(id)' => Unspent(id) /\ coin'[id[1]] = coin[id[1]]
           /\ Registered(id)' => Registered(id)
<1>1. id[1] \in Coins /\ id[2] \in Nat /\ coin[id[1]].version \in Nat
  BY DEF UtxoIds, WalletTypeOK
<1>2. coin'[id[1]] = coin[id[1]] \/ coin'[id[1]].version = coin[id[1]].version + 1
  BY <1>1 DEF CoinsMove
<1>3. Within(id)' /\ (Unspent(id)' => Unspent(id) /\ coin'[id[1]] = coin[id[1]])
  BY <1>1, <1>2 DEF Within, Unspent
<1> QED BY <1>3 DEF Registered

LEMMA LandMoves ==
    ASSUME WalletTypeOK, NEW t \in pending, Land(t)
    PROVE  /\ CoinsMove
           /\ \A id \in t.inputs : Within(id) => ~Unspent(id)'
<1>1. \A c \in Coins : coin'[c] = coin[c] \/ coin'[c].version = coin[c].version + 1
  BY DEF Land
<1>2. ASSUME NEW id \in t.inputs, Within(id) PROVE ~Unspent(id)'
  <2>1. id \in UtxoIds
    BY DEF WalletTypeOK, Transactions
  <2>2. id[1] \in Coins /\ id[2] \in Nat /\ coin[id[1]].version \in Nat
    BY <2>1 DEF UtxoIds, WalletTypeOK
  <2>3. coin'[id[1]].version = coin[id[1]].version + 1
    BY <2>2 DEF Land
  <2> QED BY <1>2, <2>2, <2>3 DEF Within, Unspent
<1> QED BY <1>1, <1>2 DEF CoinsMove

\* The ids that leases and requests hold are UTXO ids.
LEMMA IdsOfLeases ==
    ASSUME TypeOK
    PROVE  /\ \A i \in DOMAIN leases : leases[i].utxoIds \subseteq UtxoIds
           /\ \A id : Leased(id) => id \in UtxoIds
           /\ request.selected \subseteq UtxoIds /\ request.utxoIds \subseteq UtxoIds
<1>1. \A i \in DOMAIN leases : leases[i].utxoIds \subseteq UtxoIds
  BY LeaseElement DEF Leases
<1>2. request.selected \subseteq UtxoIds /\ request.utxoIds \subseteq UtxoIds
  BY LocalTypes DEF Requests, Workers
<1> QED BY <1>1, <1>2 DEF Leased

\* Nothing is recorded, and the request, where it waits for a UTXO, goes on as it was; what was
\* booked is still booked, or spent.
LEMMA DisjointGoesOn ==
    ASSUME TypeOK, DisjointInv, LeasesGoOn, CoinsMove,
           pc'["request"] \in {"submit", "wait"} =>
              /\ pc["request"] \in {"submit", "wait"}
              /\ request'.before = request.before /\ request'.selected = request.selected
              /\ \A id \in Booked : Within(id) /\ Unspent(id)' => id \in Booked',
           pc'["request"] = "insert" =>
              pc["request"] = "insert" /\ request'.utxoIds = request.utxoIds
    PROVE  DisjointInv'
<1>1. WalletTypeOK
  BY DEF TypeOK
<1>2. \A id : Leased(id)' <=> Leased(id)
  BY DEF Leased, LeasesGoOn
<1>3. \A id : Leased(id) => id \in UtxoIds /\ Within(id)
  BY IdsOfLeases DEF DisjointInv, LeasesWithin, Leased
<1>4. \A id \in UtxoIds : Within(id) => Within(id)' /\ (Registered(id)' => Registered(id))
  BY <1>1, IdsMove
<1>5. LeasesWithin'
  BY <1>3, <1>4 DEF LeasesGoOn, LeasesWithin, Leased
<1>6. LeasedUtxosDisjoint'
  <2> SUFFICES ASSUME NEW i \in DOMAIN leases, NEW j \in DOMAIN leases,
                      NEW id \in leases[i].utxoIds \cap leases[j].utxoIds, Registered(id)'
               PROVE  i = j
    BY DEF LeasesGoOn, LeasedUtxosDisjoint
  <2>1. Registered(id)
    BY <1>3, <1>4 DEF Leased
  <2> QED BY <2>1 DEF DisjointInv, LeasedUtxosDisjoint
<1>7. BeforeKnown'
  <2> SUFFICES ASSUME pc'["request"] \in {"submit", "wait"}
               PROVE  /\ \A id \in request'.selected : Within(id)' /\ ~Registered(id)'
                      /\ \A id \in UtxoIds : Leased(id)' /\ Registered(id)' =>
                            id \in request'.before \cup Booked'
    BY DEF BeforeKnown
  <2>1. /\ \A id \in request.selected : Within(id) /\ ~Registered(id)
        /\ \A id \in UtxoIds : Leased(id) /\ Registered(id) => id \in request.before \cup Booked
    BY DEF DisjointInv, BeforeKnown
  <2>2. \A id \in request'.selected : Within(id)' /\ ~Registered(id)'
    BY <1>4, <2>1, IdsOfLeases
  <2>3. \A id \in UtxoIds : Registered(id)' => Unspent(id)'
    BY DEF Registered
  <2> QED BY <1>2, <1>3, <1>4, <2>1, <2>2, <2>3
<1>8. SeenIsNew'
  <2> SUFFICES ASSUME pc'["request"] = "insert"
               PROVE  \A id \in request'.utxoIds : Within(id)' /\ (Leased(id)' => ~Registered(id)')
    BY DEF SeenIsNew
  <2>1. \A id \in request.utxoIds : Within(id) /\ (Leased(id) => ~Registered(id))
    BY DEF DisjointInv, SeenIsNew
  <2> QED BY <1>2, <1>4, <2>1, IdsOfLeases
<1> QED BY <1>5, <1>6, <1>7, <1>8 DEF DisjointInv

LEMMA BookedGrows ==
    ASSUME pending \subseteq pending'
    PROVE  Booked \subseteq Booked'
BY DEF Booked

\* What is registered when the request looks is visible, or booked.
LEMMA RegisteredIsSeen ==
    ASSUME WalletTypeOK, NEW id \in UtxoIds
    PROVE  /\ Registered(id) <=> id \in registeredUtxos \/ (Registered(id) /\ id \in Booked)
           /\ id \in registeredUtxos => id \notin Booked
           /\ id \in freeNightUtxos => Within(id) /\ ~Registered(id)
           /\ Registered(id) => Within(id)
<1>1. PICK c \in Coins, v \in Nat : id = <<c, v>>
  BY DEF UtxoIds
<1>2. id[1] = c /\ id[2] = v /\ coin[c].version \in Nat
  BY <1>1 DEF WalletTypeOK
<1>3. \A d \in Coins : utxoId(d) = id <=> d = c /\ coin[c].version = v
  BY <1>1 DEF utxoId
<1>4. id \in availableCoins <=> coin[c].version = v /\ coin[c].owner # Absent /\ id \notin Booked
  BY <1>3 DEF availableCoins
<1>5. Absent \notin Beneficiaries /\ Free \notin Beneficiaries
  BY DEF Beneficiaries
<1> QED BY <1>2, <1>4, <1>5 DEF registeredUtxos, freeNightUtxos, Registered, Unspent, Within

LEMMA SelectDisjoint ==
    ASSUME TypeOK, DisjointInv, Select
    PROVE  DisjointInv'
<1>1. PICK selected \in SUBSET freeNightUtxos :
         request' = [request EXCEPT !.selected = selected, !.before = registeredUtxos]
  BY DEF Select
<1>2. request'.selected = selected /\ request'.before = registeredUtxos
  BY <1>1, LocalTypes DEF Requests
<1>3. UNCHANGED <<coin, pending, leases>> /\ pc'["request"] = "submit" /\ WalletTypeOK
  BY DEF Select, GoTo, TypeOK, Workers
<1>4. \A id : /\ Registered(id)' <=> Registered(id)
              /\ Within(id)' <=> Within(id)
              /\ Leased(id)' <=> Leased(id)
  BY <1>3 DEF Registered, Unspent, Within, Leased
<1>5. LeasesWithin' /\ LeasedUtxosDisjoint' /\ Booked' = Booked
  BY <1>3, <1>4 DEF DisjointInv, LeasesWithin, LeasedUtxosDisjoint, Booked
<1>6. \A id \in selected : Within(id) /\ ~Registered(id)
  BY <1>3, FreeAndRegisteredAreIds, RegisteredIsSeen
<1>7. \A id \in UtxoIds : Registered(id) => id \in registeredUtxos \cup Booked
  BY <1>3, RegisteredIsSeen
<1>8. BeforeKnown'
  BY <1>2, <1>4, <1>5, <1>6, <1>7 DEF BeforeKnown
<1>9. SeenIsNew'
  BY <1>3 DEF SeenIsNew
<1> QED BY <1>5, <1>8, <1>9 DEF DisjointInv

LEMMA RecogniseDisjoint ==
    ASSUME TypeOK, DisjointInv, Recognise
    PROVE  DisjointInv'
<1>1. PICK new, ids : /\ new = registeredUtxos \ request.before
                      /\ ids = IF new = {} THEN request.selected ELSE new
                      /\ request' = [request EXCEPT !.before = {}, !.utxoIds = ids]
  BY DEF Recognise
<1>2. request'.utxoIds = ids
  BY <1>1, LocalTypes DEF Requests
<1>3. /\ UNCHANGED <<coin, pending, leases>> /\ pc'["request"] = "insert" /\ WalletTypeOK
      /\ pc["request"] = "wait"
  BY DEF Recognise, GoTo, TypeOK, Workers
<1>4. \A id : /\ Registered(id)' <=> Registered(id)
              /\ Within(id)' <=> Within(id)
              /\ Leased(id)' <=> Leased(id)
  BY <1>3 DEF Registered, Unspent, Within, Leased
<1>5. LeasesWithin' /\ LeasedUtxosDisjoint'
  BY <1>3, <1>4 DEF DisjointInv, LeasesWithin, LeasedUtxosDisjoint
<1>6. BeforeKnown'
  BY <1>3 DEF BeforeKnown
<1>7. /\ \A id \in request.selected : Within(id) /\ ~Registered(id)
      /\ \A id \in UtxoIds : Leased(id) /\ Registered(id) => id \in request.before \cup Booked
  BY <1>3 DEF DisjointInv, BeforeKnown
<1>8. \A id \in new : Within(id) /\ (Leased(id) => ~Registered(id))
  <2> SUFFICES ASSUME NEW id \in new PROVE Within(id) /\ (Leased(id) => ~Registered(id))
    OBVIOUS
  <2>1. id \in UtxoIds /\ id \in registeredUtxos /\ id \notin request.before
    BY <1>1, <1>3, FreeAndRegisteredAreIds
  <2>2. id \notin Booked /\ Registered(id) /\ Within(id)
    BY <1>3, <2>1, RegisteredIsSeen
  <2> QED BY <1>7, <2>1, <2>2
<1>9. SeenIsNew'
  BY <1>1, <1>2, <1>4, <1>7, <1>8 DEF SeenIsNew
<1> QED BY <1>5, <1>6, <1>9 DEF DisjointInv

\* The new lease comes last.
LEMMA InsertLeases ==
    ASSUME TypeOK, Insert, queue # <<>>
    PROVE  /\ DOMAIN leases = 1 .. Len(leases) /\ Len(leases) \in Nat
           /\ DOMAIN leases' = 1 .. Len(leases) + 1
           /\ \A i \in 1 .. Len(leases) : leases'[i] = leases[i]
           /\ leases'[Len(leases) + 1] = NewLease
           /\ UNCHANGED <<coin, pending>> /\ pc["request"] = "insert" /\ pc'["request"] = "idle"
<1>1. Len(leases) \in Nat /\ DOMAIN leases = 1 .. Len(leases)
  BY LenProperties DEF TypeOK
<1>2. leases' = Append(leases, NewLease) /\ NewLease \in Leases
  BY NewLeaseType DEF Insert
<1>3. leases' \in Seq(Leases) /\ Len(leases') = Len(leases) + 1
  BY <1>2, AppendProperties DEF TypeOK
<1>4. /\ DOMAIN leases' = 1 .. Len(leases) + 1
      /\ \A i \in 1 .. Len(leases) : leases'[i] = leases[i]
      /\ leases'[Len(leases) + 1] = NewLease
  BY <1>1, <1>2, <1>3, AppendProperties, LenProperties DEF TypeOK
<1>5. UNCHANGED <<coin, pending>> /\ pc["request"] = "insert" /\ pc'["request"] = "idle"
  BY DEF Insert, Release, GoTo, TypeOK, Workers
<1> QED BY <1>1, <1>4, <1>5

LEMMA InsertDisjoint ==
    ASSUME TypeOK, DisjointInv, Insert, queue # <<>>
    PROVE  DisjointInv'
<1>1. PICK n : n = Len(leases)
  OBVIOUS
<1>2. /\ n \in Nat /\ DOMAIN leases = 1 .. n /\ DOMAIN leases' = 1 .. n + 1
      /\ \A i \in 1 .. n : leases'[i].utxoIds = leases[i].utxoIds
      /\ leases'[n + 1].utxoIds = request.utxoIds
      /\ UNCHANGED <<coin, pending>> /\ pc["request"] = "insert" /\ pc'["request"] = "idle"
  BY <1>1, InsertLeases DEF NewLease
<1>3. \A id : (Registered(id)' <=> Registered(id)) /\ (Within(id)' <=> Within(id))
  BY <1>2 DEF Registered, Unspent, Within
<1>4. \A id \in request.utxoIds :
         Within(id) /\ \A i \in 1 .. n : id \in leases[i].utxoIds => ~Registered(id)
  BY <1>2 DEF DisjointInv, SeenIsNew, Leased
<1>5. LeasesWithin'
  <2> SUFFICES ASSUME NEW i \in 1 .. n + 1, NEW id \in leases'[i].utxoIds PROVE Within(id)
    BY <1>2, <1>3 DEF LeasesWithin
  <2>1. CASE i \in 1 .. n
    BY <1>2, <2>1 DEF DisjointInv, LeasesWithin
  <2>2. CASE i = n + 1
    BY <1>2, <1>4, <2>2
  <2> QED BY <1>2, <2>1, <2>2
<1>6. LeasedUtxosDisjoint'
  <2> SUFFICES ASSUME NEW i \in 1 .. n + 1, NEW j \in 1 .. n + 1, NEW id, Registered(id),
                      id \in leases'[i].utxoIds, id \in leases'[j].utxoIds
               PROVE  i = j
    BY <1>2, <1>3 DEF LeasedUtxosDisjoint
  <2>1. CASE i \in 1 .. n /\ j \in 1 .. n
    BY <1>2, <2>1 DEF DisjointInv, LeasedUtxosDisjoint
  <2>2. CASE i = n + 1 /\ j \in 1 .. n
    BY <1>2, <1>4, <2>2
  <2>3. CASE i \in 1 .. n /\ j = n + 1
    BY <1>2, <1>4, <2>3
  <2> QED BY <1>2, <2>1, <2>2, <2>3
<1>7. BeforeKnown' /\ SeenIsNew'
  BY <1>2 DEF BeforeKnown, SeenIsNew
<1> QED BY <1>5, <1>6, <1>7 DEF DisjointInv

\* One step of each kind.
LEMMA DisjointStep ==
    ASSUME ~MayDrop, LeaseInv, DisjointInv, [Next]_vars
    PROVE  DisjointInv'
<1>1. TypeOK /\ WalletTypeOK
  BY DEF LeaseInv, TypeOK
<1>2. UNCHANGED coin => CoinsMove
  BY DEF CoinsMove
<1>3. ASSUME UNCHANGED <<coin, leases, pc>>, pending \subseteq pending',
             pc["request"] \in {"submit", "wait", "insert"} =>
                /\ request'.before = request.before /\ request'.selected = request.selected
                /\ request'.utxoIds = request.utxoIds
      PROVE  DisjointInv'
  BY <1>1, <1>2, <1>3, SameLeasesGoOn, BookedGrows, DisjointGoesOn
<1>4. CASE UNCHANGED vars
  BY <1>3, <1>4 DEF vars
<1>5. CASE (\E a \in Addresses : Arrive(a)) \/ \E w \in Workers : SettleFails(w)
  BY <1>3, <1>5 DEF Arrive, SettleFails
<1>6. CASE Tick
  <2>1. /\ UNCHANGED <<coin, pending, pc>>
        /\ request'.before = request.before /\ request'.selected = request.selected
        /\ request'.utxoIds = request.utxoIds
    <3>1. PICK age : request' \in {request, [request EXCEPT !.age = age]}
      BY <1>6 DEF Tick
    <3>2. request \in Requests(Len(leases))
      BY <1>1, LocalTypes DEF Workers
    <3>3. /\ request'.before = request.before /\ request'.selected = request.selected
          /\ request'.utxoIds = request.utxoIds
      BY <3>1, <3>2 DEF Requests
    <3> QED BY <1>6, <3>3 DEF Tick
  <2> QED BY <1>1, <1>2, <1>6, <2>1, TickGoesOn, BookedGrows, DisjointGoesOn
<1>7. CASE Chain
  <2>1. PICK t \in pending : Land(t)
    BY <1>7 DEF Chain
  <2>2. \A id \in Booked : Within(id) /\ Unspent(id)' => id \in Booked'
    BY <1>1, <2>1, LandMoves DEF Booked, Land
  <2> QED BY <1>1, <1>7, <2>1, <2>2, LandMoves, SameLeasesGoOn, DisjointGoesOn DEF Chain
<1>8. CASE Restart
  <2>1. UNCHANGED <<coin, leases>> /\ pc'["request"] = "idle"
    BY <1>8 DEF Restart, Workers
  <2> QED BY <1>1, <1>2, <2>1, SameLeasesGoOn, DisjointGoesOn
<1>9. CASE FindExisting \/ Extend \/ NotSponsored
  <2>1. UNCHANGED coin /\ pc'["request"] \in {"idle", "extend", "find"}
    BY <1>1, <1>9 DEF FindExisting, Extend, NotSponsored, Release, GoTo, TypeOK, Workers
  <2>2. LeasesGoOn
    BY <1>1, <1>9, SameLeasesGoOn, ExtendGoesOn DEF FindExisting, NotSponsored
  <2> QED BY <1>1, <1>2, <2>1, <2>2, DisjointGoesOn
<1>10. CASE Submit
  <2>1. /\ UNCHANGED <<coin, leases, request>> /\ pending \subseteq pending'
        /\ pc["request"] = "submit" /\ pc'["request"] = "wait"
    BY <1>1, <1>10 DEF Submit, submitTransaction, GoTo, TypeOK, Workers
  <2> QED BY <1>1, <1>2, <2>1, SameLeasesGoOn, BookedGrows, DisjointGoesOn
<1>11. CASE Insert
  BY <1>1, <1>11, InsertDisjoint DEF LeaseInv, LockHeld, Insert
<1>12. ASSUME NEW w \in Workers, Sweep(w) PROVE DisjointInv'
  BY <1>1, <1>2, <1>12, SweepGoesOn, BookedGrows, DisjointGoesOn
<1>13. ASSUME NEW w \in Workers, Abort(w) PROVE DisjointInv'
  <2>1. /\ UNCHANGED <<coin, pending, leases>>
        /\ \/ pc'["request"] = "idle"
           \/ UNCHANGED request /\ pc'["request"] = pc["request"]
    BY <1>1, <1>13 DEF Abort, Release, GoTo, TypeOK, Workers
  <2> QED BY <1>1, <1>2, <2>1, SameLeasesGoOn, BookedGrows, DisjointGoesOn
<1> QED BY <1>1, <1>4, <1>5, <1>6, <1>7, <1>8, <1>9, <1>10, <1>11, <1>12, <1>13,
           SelectDisjoint, RecogniseDisjoint DEF Next, Request

(* contract-service.ts:waitForRegisteredUtxoIds, in the order it is called: *)
(* no UTXO that is registered is on two leases, with any number of coins,   *)
(* addresses and requests and whether or not the pool is split, if the      *)
(* chain drops no transaction.                                              *)
THEOREM SponsorLeasedUtxosDisjoint ==
    ASSUME ~MayDrop
    PROVE  Spec => []LeasedUtxosDisjoint
<1>1. Init => DisjointInv
  BY DEF Init, DisjointInv, LeasedUtxosDisjoint, LeasesWithin, BeforeKnown, SeenIsNew, Workers
<1>2. DisjointInv => LeasedUtxosDisjoint
  BY DEF DisjointInv
<1>3. LeaseInv /\ DisjointInv /\ [Next]_vars => (LeaseInv /\ DisjointInv)'
  BY LeaseInvStep, DisjointStep
<1> QED BY <1>1, <1>2, <1>3, LeaseInvInit, PTL DEF Spec

-----------------------------------------------------------------------------
(***************************************************************************)
(* Active leases and terms, if moreover no pool is split.  A transaction   *)
(* that spends a registered UTXO is the deregistration of a lease that a   *)
(* sweep has read as expired and marked, and by the invariant above that   *)
(* UTXO is on no other lease.                                              *)
(***************************************************************************)

ReclaimSteps == {"look", "generate", "deregister", "settle"}

\* A lease whose UTXOs may be taken back.
Ended(i) == i \in DOMAIN leases /\ leases[i].status # "active" /\ TermPast(i)

SweepOf(w) ==
    /\ pc[w] \notin {"pool", "split"}
    /\ \A i \in todo[w] : TermPast(i)
    /\ pc[w] \in ReclaimSteps => Ended(local[w].lease)
    /\ pc[w] \in {"generate", "deregister"} =>
          /\ local[w].utxoIds \subseteq leases[local[w].lease].utxoIds
          /\ \A id \in local[w].utxoIds : Unspent(id) => Registered(id)

SweepInv == \A w \in Workers : SweepOf(w)

Spends(t) ==
    /\ t.created = {}
    /\ \A id \in t.inputs :
          /\ Unspent(id)
          /\ t.to = Free => Registered(id)
          /\ Registered(id) => \E i \in DOMAIN leases : Ended(i) /\ id \in leases[i].utxoIds

PendingInv ==
    /\ \A t \in pending : Spends(t)
    /\ \A t, u \in pending : t.inputs \cap u.inputs # {} => t = u

HeldInv ==
    /\ \A i \in DOMAIN leases :
          leases[i].status = "active" /\ leases[i].utxoIds # leases[i].selected =>
              \A id \in leases[i].utxoIds : Registered(id)
    /\ pc["request"] = "insert" /\ request.utxoIds # request.selected =>
          \A id \in request.utxoIds : Registered(id)

PoolInv == SweepInv /\ PendingInv /\ HeldInv

\* What every action does to the leases and to the coins.
LeasesKept ==
    \A i \in DOMAIN leases :
        /\ i \in DOMAIN leases'
        /\ leases'[i].utxoIds = leases[i].utxoIds
        /\ leases'[i].status = "active" => leases[i].status = "active"
        /\ TermPast(i) => TermPast(i)'

LEMMA GoOnIsKept ==
    ASSUME LeasesGoOn
    PROVE  LeasesKept
BY DEF LeasesGoOn, LeasesKept

LEMMA InsertIsKept ==
    ASSUME TypeOK, Insert, queue # <<>>
    PROVE  LeasesKept
<1>1. PICK n : n = Len(leases)
  OBVIOUS
<1>2. /\ n \in Nat /\ DOMAIN leases = 1 .. n /\ DOMAIN leases' = 1 .. n + 1
      /\ \A i \in 1 .. n : leases'[i] = leases[i]
  BY <1>1, InsertLeases
<1> QED BY <1>2 DEF LeasesKept, TermPast

LEMMA StepKeeps ==
    ASSUME LeaseInv, [Next]_vars
    PROVE  LeasesKept /\ CoinsMove
<1>1. TypeOK /\ WalletTypeOK
  BY DEF LeaseInv, TypeOK
<1>2. LeasesKept
  <2>1. CASE UNCHANGED leases
    BY <2>1, SameLeasesGoOn, GoOnIsKept
  <2>2. CASE Insert
    BY <1>1, <2>2, InsertIsKept DEF LeaseInv, LockHeld, Insert
  <2>3. CASE Extend
    BY <1>1, <2>3, ExtendGoesOn, GoOnIsKept
  <2>4. CASE Tick
    BY <1>1, <2>4, TickGoesOn, GoOnIsKept
  <2>5. ASSUME NEW w \in Workers, Sweep(w) PROVE LeasesKept
    BY <1>1, <2>5, SweepGoesOn, GoOnIsKept
  <2> QED BY <2>1, <2>2, <2>3, <2>4, <2>5
          DEF Next, vars, Request, Arrive, FindExisting, Select, Submit, Recognise, NotSponsored,
              SettleFails, Abort, Restart, Chain
<1>3. CoinsMove
  <2>1. CASE UNCHANGED coin
    BY <2>1 DEF CoinsMove
  <2>2. CASE Chain
    BY <1>1, <2>1, <2>2, LandMoves DEF Chain, Drop
  <2>3. ASSUME NEW w \in Workers, Sweep(w) PROVE UNCHANGED coin
    BY <1>1, <2>3, SweepGoesOn
  <2> QED BY <2>1, <2>2, <2>3
          DEF Next, vars, Request, Arrive, FindExisting, Extend, Select, Submit, Recognise,
              NotSponsored, Insert, SettleFails, Abort, Restart, Tick
<1> QED BY <1>2, <1>3

\* A lease that has ended stays so.
LEMMA EndedStays ==
    ASSUME LeasesKept, NEW i, Ended(i)
    PROVE  Ended(i)' /\ leases'[i].utxoIds = leases[i].utxoIds
BY DEF LeasesKept, Ended

\* A worker goes on with what it had, or drops some of it.
LEMMA WorkerKeeps ==
    ASSUME TypeOK, LeasesWithin, LeasesKept, CoinsMove, NEW w \in Workers, SweepOf(w),
           pc'[w] \notin {"pool", "split"}, todo'[w] \subseteq todo[w],
           pc'[w] \in ReclaimSteps => pc[w] \in ReclaimSteps /\ local'[w].lease = local[w].lease,
           pc'[w] \in {"generate", "deregister"} =>
              pc[w] \in {"generate", "deregister"} /\ local'[w].utxoIds = local[w].utxoIds
    PROVE  SweepOf(w)'
<1>1. todo[w] \subseteq DOMAIN leases
  BY LocalTypes
<1>2. \A i \in todo'[w] : TermPast(i)'
  BY <1>1 DEF LeasesKept, SweepOf
<1>3. PICK k : k = local[w].lease
  OBVIOUS
<1>4. ASSUME pc'[w] \in ReclaimSteps PROVE Ended(local[w].lease)'
  <2>1. Ended(k) /\ local'[w].lease = k
    BY <1>3, <1>4 DEF SweepOf
  <2>2. Ended(k)'
    BY <2>1, EndedStays
  <2> QED BY <2>1, <2>2 DEF Ended, TermPast
<1>5. ASSUME pc'[w] \in {"generate", "deregister"}
      PROVE  /\ local'[w].utxoIds \subseteq leases'[local'[w].lease].utxoIds
             /\ \A id \in local'[w].utxoIds : Unspent(id)' => Registered(id)'
  <2>1. /\ Ended(k) /\ local'[w].lease = k
        /\ local'[w].utxoIds = local[w].utxoIds
        /\ local[w].utxoIds \subseteq leases[k].utxoIds
        /\ \A id \in local[w].utxoIds : Unspent(id) => Registered(id)
    BY <1>3, <1>5 DEF SweepOf, ReclaimSteps
  <2>2. leases'[k].utxoIds = leases[k].utxoIds
    BY <2>1, EndedStays
  <2>3. \A id \in local[w].utxoIds : id \in UtxoIds /\ Within(id)
    BY <2>1, IdsOfLeases DEF Ended, LeasesWithin
  <2>4. ASSUME NEW id \in local[w].utxoIds, Unspent(id)' PROVE Registered(id)'
    <3>1. Unspent(id) /\ coin'[id[1]] = coin[id[1]]
      BY <2>3, <2>4, IdsMove DEF TypeOK
    <3> QED BY <2>1, <2>4, <3>1 DEF Registered
  <2> QED BY <2>1, <2>2, <2>4
<1> QED BY <1>2, <1>4, <1>5 DEF SweepOf

\* The request outside its sweep, and what a worker does that is at no lease.
LEMMA NotAtALease ==
    ASSUME TypeOK, LeasesWithin, LeasesKept, CoinsMove, NEW w \in Workers, SweepOf(w),
           pc'[w] \notin {"pool", "split"} \cup ReclaimSteps, todo'[w] \subseteq todo[w]
    PROVE  SweepOf(w)'
BY WorkerKeeps DEF ReclaimSteps

LEMMA SameWorker ==
    ASSUME TypeOK, LeasesWithin, LeasesKept, CoinsMove, NEW w \in Workers, SweepOf(w),
           pc'[w] = pc[w], todo'[w] = todo[w], local'[w] = local[w]
    PROVE  SweepOf(w)'
<1>1. pc'[w] \notin {"pool", "split"}
  BY DEF SweepOf
<1> QED BY <1>1, WorkerKeeps

\* Where a sweep goes when there is no pool to look after.
LEMMA AfterReclaimNoPool ==
    ASSUME TargetFreeUtxos = 0, NEW w, NEW left
    PROVE  AfterReclaim(w, left) \in {"mark", "select", "idle"}
BY DEF AfterReclaim, AfterPool

LEMMA FindSweep ==
    ASSUME TargetFreeUtxos = 0, TypeOK, LeasesKept, NEW w \in Workers, Find(w)
    PROVE  SweepOf(w)'
<1>1. PICK batch \in SUBSET Expired :
         todo' = [todo EXCEPT ![w] = batch] /\ GoTo(w, AfterReclaim(w, batch))
  BY DEF Find
<1>2. todo'[w] = batch /\ pc'[w] \in {"mark", "select", "idle"}
  BY <1>1, AfterReclaimNoPool DEF TypeOK, GoTo
<1>3. \A i \in batch : TermPast(i)'
  BY DEF Expired, TermOver, TermPast, LeasesKept
<1> QED BY <1>2, <1>3 DEF SweepOf, ReclaimSteps

LEMMA MarkSweep ==
    ASSUME TypeOK, LeasesKept, NEW w \in Workers, SweepOf(w), Mark(w)
    PROVE  SweepOf(w)'
<1>1. PICK k \in todo[w] :
         /\ todo' = [todo EXCEPT ![w] = @ \ {k}]
         /\ local' = [local EXCEPT ![w] = [NoReclaim EXCEPT !.lease = k]]
         /\ leases[k].status = "reclaimed" => UNCHANGED leases
         /\ leases[k].status # "reclaimed" => leases' = [leases EXCEPT ![k] = Marked(leases[k])]
  BY DEF Mark
<1>2. k \in DOMAIN leases /\ todo[w] \subseteq DOMAIN leases
  BY LocalTypes
<1>3. pc'[w] = "look" /\ todo'[w] \subseteq todo[w] /\ local'[w].lease = k
  BY <1>1 DEF Mark, GoTo, TypeOK, NoReclaim
<1>4. \A i \in todo[w] : TermPast(i)'
  BY <1>2 DEF SweepOf, LeasesKept
<1>5. leases'[k].status # "active" /\ k \in DOMAIN leases'
  <2>1. CASE leases[k].status = "reclaimed"
    BY <1>1, <1>2, <2>1
  <2>2. CASE leases[k].status # "reclaimed"
    <3>1. leases'[k] = Marked(leases[k]) /\ DOMAIN leases' = DOMAIN leases
      BY <1>1, <1>2, <2>2
    <3>2. Marked(leases[k]).status = "reclaiming"
      BY <1>2, LeaseElement DEF Leases, Marked
    <3> QED BY <1>2, <3>1, <3>2
  <2> QED BY <2>1, <2>2
<1>6. Ended(k)'
  BY <1>4, <1>5 DEF Ended
<1> QED BY <1>3, <1>4, <1>6 DEF SweepOf

LEMMA LookSweep ==
    ASSUME TypeOK, LeasesWithin, LeasesKept, CoinsMove, NEW w \in Workers, SweepOf(w), Look(w)
    PROVE  SweepOf(w)'
<1>1. PICK reclaimable, seen, k :
         /\ k = local[w].lease
         /\ reclaimable = registeredUtxos \cap leases[k].utxoIds
         /\ seen = [local[w] EXCEPT !.utxoIds = reclaimable, !.free = freeNightUtxos # {}]
  OBVIOUS
<1>2. \/ GiveUp(w)
      \/ local' = [local EXCEPT ![w] = seen] /\ GoTo(w, "deregister")
      \/ local' = [local EXCEPT ![w] = seen] /\ GoTo(w, "generate")
  BY <1>1 DEF Look
<1>3. UNCHANGED <<coin, leases, todo>> /\ pc[w] = "look"
  BY DEF Look
<1>4. CASE GiveUp(w)
  <2>1. pc'[w] = "settle" /\ local'[w].lease = local[w].lease
    BY <1>4, LocalTypes DEF GiveUp, GoTo, TypeOK, NoReclaim
  <2> QED BY <1>3, <2>1, WorkerKeeps DEF ReclaimSteps
<1>5. CASE local' = [local EXCEPT ![w] = seen] /\ pc'[w] \in {"generate", "deregister"}
  <2>1. local'[w].lease = k /\ local'[w].utxoIds = reclaimable
    BY <1>1, <1>5, LocalTypes DEF Locals
  <2>2. Ended(k) /\ \A i \in todo[w] : TermPast(i)
    BY <1>1, <1>3 DEF SweepOf, ReclaimSteps
  <2>3. \A id \in reclaimable : Registered(id)
    BY <1>1, FreeAndRegisteredAreIds, RegisteredIsSeen DEF TypeOK
  <2> QED BY <1>1, <1>3, <1>5, <2>1, <2>2, <2>3
          DEF SweepOf, Ended, TermPast, Registered, Unspent, ReclaimSteps
<1> QED BY <1>2, <1>4, <1>5 DEF GoTo, TypeOK

LEMMA GenerateSweep ==
    ASSUME TypeOK, LeasesWithin, LeasesKept, CoinsMove, NEW w \in Workers, SweepOf(w), Generate(w)
    PROVE  SweepOf(w)'
<1>1. UNCHANGED <<coin, leases, todo>> /\ pc[w] = "generate"
  BY DEF Generate
<1>2. CASE GiveUp(w)
  <2>1. pc'[w] = "settle" /\ local'[w].lease = local[w].lease
    BY <1>2, LocalTypes DEF GiveUp, GoTo, TypeOK, NoReclaim
  <2> QED BY <1>1, <2>1, WorkerKeeps DEF ReclaimSteps
<1>3. CASE UNCHANGED local /\ pc'[w] \in {"look", "deregister"}
  BY <1>1, <1>3, WorkerKeeps DEF ReclaimSteps
<1> QED BY <1>2, <1>3 DEF Generate, GoTo, TypeOK

LEMMA DeregisterSweep ==
    ASSUME TypeOK, LeasesWithin, LeasesKept, CoinsMove, NEW w \in Workers, SweepOf(w), Deregister(w)
    PROVE  SweepOf(w)'
<1>1. UNCHANGED <<coin, leases, todo>> /\ pc[w] = "deregister"
  BY DEF Deregister
<1>2. CASE pc'[w] = "settle" /\ local'[w].lease = local[w].lease
  BY <1>1, <1>2, WorkerKeeps DEF ReclaimSteps
<1>3. CASE local' = [local EXCEPT ![w].retry = TRUE] /\ GoTo(w, "generate")
  <2>1. /\ local'[w].lease = local[w].lease /\ local'[w].utxoIds = local[w].utxoIds
        /\ pc'[w] = "generate"
    BY <1>3, LocalTypes DEF Locals, GoTo, TypeOK
  <2> QED BY <1>1, <2>1, WorkerKeeps DEF ReclaimSteps
<1>4. PICK l \in {[NoReclaim EXCEPT !.lease = local[w].lease],
                   [NoReclaim EXCEPT !.lease = local[w].lease, !.result = "reclaimed"]} :
         \/ local' = [local EXCEPT ![w] = l] /\ GoTo(w, "settle")
         \/ local' = [local EXCEPT ![w].retry = TRUE] /\ GoTo(w, "generate")
  BY DEF Deregister, GiveUp
<1>5. l.lease = local[w].lease
  BY DEF NoReclaim
<1> QED BY <1>2, <1>3, <1>4, <1>5, LocalTypes DEF GoTo, TypeOK

LEMMA SettleSweep ==
    ASSUME TargetFreeUtxos = 0, TypeOK, LeasesWithin, LeasesKept, CoinsMove,
           NEW w \in Workers, SweepOf(w), Settle(w)
    PROVE  SweepOf(w)'
<1>1. pc'[w] \in {"mark", "select", "idle"} /\ UNCHANGED todo
  BY AfterReclaimNoPool DEF Settle, GoTo, TypeOK
<1> QED BY <1>1, NotAtALease DEF ReclaimSteps

LEMMA SweepInvStep ==
    ASSUME TargetFreeUtxos = 0, LeaseInv, LeasesWithin, SweepInv, [Next]_vars
    PROVE  SweepInv'
<1>1. TypeOK /\ LeasesKept /\ CoinsMove
  BY StepKeeps DEF LeaseInv
<1>2. SUFFICES ASSUME NEW v \in Workers PROVE SweepOf(v)'
  BY DEF SweepInv
<1>3. SweepOf(v)
  BY DEF SweepInv
<1>4. CASE UNCHANGED <<pc, todo, local>>
  BY <1>1, <1>3, <1>4, SameWorker
<1>5. CASE Request
  <2>1. UNCHANGED <<todo, local>> /\ UNCHANGED pc["maintenance"]
    BY <1>1, <1>5 DEF Request, FindExisting, Extend, Select, Submit, Recognise, NotSponsored,
                      Insert, Release, GoTo, TypeOK, Workers
  <2>2. pc'["request"] \in {"idle", "find"} \cup RequestSteps
    BY <1>1, <1>5 DEF Request, FindExisting, Extend, Select, Submit, Recognise, NotSponsored,
                      Insert, Release, GoTo, TypeOK, Workers, RequestSteps
  <2>3. CASE v = "request"
    BY <1>1, <1>3, <2>1, <2>2, <2>3, NotAtALease DEF RequestSteps, ReclaimSteps
  <2>4. CASE v = "maintenance"
    BY <1>1, <1>3, <2>1, <2>4, SameWorker
  <2> QED BY <2>3, <2>4 DEF Workers
<1>6. CASE Restart
  <2>1. pc'[v] = "idle" /\ todo'[v] = {}
    BY <1>6 DEF Restart
  <2> QED BY <1>1, <1>3, <2>1, NotAtALease DEF ReclaimSteps
<1>7. ASSUME NEW w \in Workers, Sweep(w) PROVE SweepOf(v)'
  <2>1. CASE v # w
    <3>1. pc'[v] = pc[v] /\ todo'[v] = todo[v] /\ local'[v] = local[v]
      BY <1>1, <1>7, <2>1 DEF Sweep, Find, Mark, Look, GiveUp, Generate, Deregister, Settle, Pool,
                              Split, GoTo, TypeOK
    <3> QED BY <1>1, <1>3, <3>1, SameWorker
  <2>2. CASE v = w
    <3>1. ~Pool(v) /\ ~Split(v)
      BY <1>3 DEF SweepOf, Pool, Split
    <3> QED BY <1>1, <1>3, <1>7, <2>2, <3>1, FindSweep, MarkSweep, LookSweep, GenerateSweep,
               DeregisterSweep, SettleSweep DEF Sweep
  <2> QED BY <2>1, <2>2
<1>8. ASSUME NEW w \in Workers, Abort(w) PROVE SweepOf(v)'
  <2>1. GoTo(w, "idle") /\ todo' = [todo EXCEPT ![w] = {}] /\ local' = [local EXCEPT ![w] = NoReclaim]
    BY <1>8 DEF Abort, Release
  <2>2. CASE v # w
    <3>1. pc'[v] = pc[v] /\ todo'[v] = todo[v] /\ local'[v] = local[v]
      BY <1>1, <2>1, <2>2 DEF GoTo, TypeOK
    <3> QED BY <1>1, <1>3, <3>1, SameWorker
  <2>3. CASE v = w
    <3>1. pc'[v] = "idle" /\ todo'[v] = {}
      BY <1>1, <2>1, <2>3 DEF GoTo, TypeOK
    <3> QED BY <1>1, <1>3, <3>1, NotAtALease DEF ReclaimSteps
  <2> QED BY <2>2, <2>3
<1>9. ASSUME NEW w \in Workers, SettleFails(w) PROVE SweepOf(v)'
  <2>1. pc' = pc /\ todo' = todo /\ pc[w] = "settle" /\ local'[v].lease = local[v].lease
    BY <1>1, <1>9 DEF SettleFails, TypeOK
  <2>2. CASE v # w
    <3>1. local'[v] = local[v]
      BY <1>1, <1>9, <2>2 DEF SettleFails, TypeOK
    <3> QED BY <1>1, <1>3, <2>1, <3>1, SameWorker
  <2>3. CASE v = w
    BY <1>1, <1>3, <2>1, <2>3, WorkerKeeps
  <2> QED BY <2>2, <2>3
<1> QED BY <1>4, <1>5, <1>6, <1>7, <1>8, <1>9 DEF Next, vars, Arrive, Tick, Chain

\* Nothing is submitted and nothing lands; the new process may have forgotten what it booked.
LEMMA SameSpends ==
    ASSUME LeasesKept, UNCHANGED coin, NEW t, NEW u, u.inputs = t.inputs, u.to = t.to,
           u.created = t.created, Spends(t)
    PROVE  Spends(u)'
<1>1. \A id : (Unspent(id)' <=> Unspent(id)) /\ (Registered(id)' <=> Registered(id))
  BY DEF Registered, Unspent
<1>2. ASSUME NEW id \in t.inputs, Registered(id)
      PROVE  \E i \in DOMAIN leases' : Ended(i)' /\ id \in leases'[i].utxoIds
  <2>1. PICK i \in DOMAIN leases : Ended(i) /\ id \in leases[i].utxoIds
    BY <1>2 DEF Spends
  <2> QED BY <2>1, EndedStays DEF Ended
<1> QED BY <1>1, <1>2 DEF Spends

LEMMA NothingSubmitted ==
    ASSUME LeasesKept, UNCHANGED <<coin, pending>>, PendingInv
    PROVE  PendingInv'
BY SameSpends DEF PendingInv

LEMMA ForgetPending ==
    ASSUME LeasesKept, UNCHANGED coin, Forget, WalletTypeOK, PendingInv
    PROVE  PendingInv'
<1>1. ASSUME NEW u \in pending'
      PROVE  \E t \in pending :
                /\ u = [t EXCEPT !.booked = FALSE]
                /\ u.inputs = t.inputs /\ u.to = t.to /\ u.created = t.created
  <2>1. PICK t \in pending : u = [t EXCEPT !.booked = FALSE]
    BY DEF Forget
  <2>2. t \in Transactions
    BY DEF WalletTypeOK
  <2> QED BY <2>1, <2>2 DEF Transactions
<1>2. \A u \in pending' : Spends(u)'
  BY <1>1, SameSpends DEF PendingInv
<1>3. \A u, v \in pending' : u.inputs \cap v.inputs # {} => u = v
  <2> SUFFICES ASSUME NEW u \in pending', NEW v \in pending', u.inputs \cap v.inputs # {} PROVE u = v
    OBVIOUS
  <2>1. PICK t \in pending : u = [t EXCEPT !.booked = FALSE] /\ u.inputs = t.inputs
    BY <1>1
  <2>2. PICK s \in pending : v = [s EXCEPT !.booked = FALSE] /\ v.inputs = s.inputs
    BY <1>1
  <2>3. t = s
    BY <2>1, <2>2 DEF PendingInv
  <2> QED BY <2>1, <2>2, <2>3
<1> QED BY <1>2, <1>3 DEF PendingInv

\* The node takes a transaction that spends UTXOs of an ended lease, or none that is registered.
LEMMA SubmitPending ==
    ASSUME LeasesKept, UNCHANGED coin, PendingInv, NEW inputs, NEW to,
           submitTransaction(inputs, to, {}),
           to = Free => \A id \in inputs : Registered(id),
           \A id \in inputs : Registered(id) =>
              \E i \in DOMAIN leases : Ended(i) /\ id \in leases[i].utxoIds
    PROVE  PendingInv'
<1>1. PICK new : new = [inputs |-> inputs, to |-> to, created |-> {}, booked |-> TRUE]
  OBVIOUS
<1>2. /\ new.inputs = inputs /\ new.to = to /\ new.created = {}
      /\ pending' = pending \cup {new}
      /\ \A id \in inputs : Unspent(id) /\ \A t \in pending : id \notin t.inputs
  BY <1>1 DEF submitTransaction
<1>3. Spends(new)
  BY <1>2 DEF Spends
<1>4. \A t \in pending' : Spends(t)'
  BY <1>2, <1>3, SameSpends DEF PendingInv
<1>5. \A t, u \in pending' : t.inputs \cap u.inputs # {} => t = u
  BY <1>2 DEF PendingInv
<1> QED BY <1>4, <1>5 DEF PendingInv

\* What another transaction spends is not touched when one lands.
LEMMA LandApart ==
    ASSUME WalletTypeOK, PendingInv, NEW t \in pending, Land(t), NEW id \in UtxoIds, Unspent(id),
           id \notin t.inputs
    PROVE  coin'[id[1]] = coin[id[1]]
<1>1. id[1] \in Coins
  BY DEF UtxoIds
<1>2. ASSUME NEW x \in t.inputs, x[1] = id[1] PROVE FALSE
  <2>1. x \in UtxoIds /\ Unspent(x)
    BY DEF WalletTypeOK, Transactions, PendingInv, Spends
  <2>2. x = id
    BY <1>2, <2>1 DEF UtxoIds, Unspent
  <2> QED BY <2>2
<1>3. t.created = {}
  BY DEF PendingInv, Spends
<1> QED BY <1>1, <1>2, <1>3 DEF Land

LEMMA LandPending ==
    ASSUME WalletTypeOK, LeasesKept, PendingInv, NEW t \in pending, Land(t)
    PROVE  PendingInv'
<1>1. pending' = pending \ {t}
  BY DEF Land
<1>2. ASSUME NEW u \in pending' PROVE Spends(u)'
  <2>1. u \in pending /\ Spends(u) /\ u.inputs \subseteq UtxoIds
    BY <1>1 DEF PendingInv, WalletTypeOK, Transactions
  <2>2. \A id \in u.inputs : coin'[id[1]] = coin[id[1]]
    <3> SUFFICES ASSUME NEW id \in u.inputs PROVE coin'[id[1]] = coin[id[1]]
      OBVIOUS
    <3>1. id \notin t.inputs
      BY <1>1, <2>1 DEF PendingInv
    <3> QED BY <2>1, <3>1, LandApart DEF Spends
  <2>3. \A id \in u.inputs : (Unspent(id)' <=> Unspent(id)) /\ (Registered(id)' <=> Registered(id))
    BY <2>2 DEF Registered, Unspent
  <2>4. ASSUME NEW id \in u.inputs, Registered(id)
        PROVE  \E i \in DOMAIN leases' : Ended(i)' /\ id \in leases'[i].utxoIds
    <3>1. PICK i \in DOMAIN leases : Ended(i) /\ id \in leases[i].utxoIds
      BY <2>1, <2>4 DEF Spends
    <3> QED BY <3>1, EndedStays DEF Ended
  <2> QED BY <2>1, <2>3, <2>4 DEF Spends
<1> QED BY <1>1, <1>2 DEF PendingInv

LEMMA PendingInvStep ==
    ASSUME ~MayDrop, LeaseInv, DisjointInv, SweepInv, PendingInv, [Next]_vars
    PROVE  PendingInv'
<1>1. TypeOK /\ WalletTypeOK /\ LeasesKept
  BY StepKeeps DEF LeaseInv, TypeOK
<1>2. CASE UNCHANGED <<coin, pending>>
  BY <1>1, <1>2, NothingSubmitted
<1>3. CASE Submit
  <2>1. Head(queue) \in Addresses
    BY <1>1, <1>3, HeadTailProperties DEF LeaseInv, LockHeld, Submit, TypeOK
  <2>2. Head(queue) # Free /\ \A id \in request.selected : ~Registered(id)
    BY <1>3, <2>1 DEF DisjointInv, BeforeKnown, Submit
  <2>3. submitTransaction(request.selected, Head(queue), {}) /\ UNCHANGED coin
    BY <1>3 DEF Submit
  <2>4. PICK inputs, to : inputs = request.selected /\ to = Head(queue)
    OBVIOUS
  <2> QED BY <1>1, <2>2, <2>3, <2>4, SubmitPending
<1>4. ASSUME NEW w \in Workers, Generate(w) PROVE PendingInv'
  <2>1. UNCHANGED coin /\ \/ UNCHANGED pending
                          \/ \E id \in freeNightUtxos : submitTransaction({id}, Operating, {})
    BY <1>4 DEF Generate
  <2>2. ASSUME NEW id \in freeNightUtxos, submitTransaction({id}, Operating, {}) PROVE PendingInv'
    <3>1. ~Registered(id)
      BY <1>1, FreeAndRegisteredAreIds, RegisteredIsSeen
    <3> QED BY <1>1, <2>1, <2>2, <3>1, SubmitPending
  <2> QED BY <1>1, <2>1, <2>2, NothingSubmitted
<1>5. ASSUME NEW w \in Workers, Deregister(w) PROVE PendingInv'
  <2>1. UNCHANGED coin /\ \/ UNCHANGED pending
                          \/ submitTransaction(local[w].utxoIds, Free, {})
    BY <1>5 DEF Deregister
  <2>2. CASE submitTransaction(local[w].utxoIds, Free, {})
    <3>1. PICK inputs, k : inputs = local[w].utxoIds /\ k = local[w].lease
      OBVIOUS
    <3>2. /\ Ended(k) /\ inputs \subseteq leases[k].utxoIds
          /\ \A id \in inputs : Unspent(id) => Registered(id)
      BY <1>5, <3>1 DEF Deregister, SweepInv, SweepOf, ReclaimSteps
    <3>3. \A id \in inputs : Registered(id)
      BY <2>2, <3>1, <3>2 DEF submitTransaction
    <3>4. \A id \in inputs : \E i \in DOMAIN leases : Ended(i) /\ id \in leases[i].utxoIds
      BY <3>2 DEF Ended
    <3> QED BY <1>1, <2>1, <2>2, <3>1, <3>3, <3>4, SubmitPending
  <2> QED BY <1>1, <2>1, <2>2, NothingSubmitted
<1>6. ASSUME NEW w \in Workers, Split(w) PROVE FALSE
  BY <1>6 DEF Split, SweepInv, SweepOf
<1>7. CASE Restart
  BY <1>1, <1>7, ForgetPending DEF Restart
<1>8. CASE Chain
  <2>1. PICK t \in pending : Land(t)
    BY <1>8 DEF Chain
  <2> QED BY <1>1, <2>1, LandPending
<1> QED BY <1>2, <1>3, <1>4, <1>5, <1>6, <1>7, <1>8
        DEF Next, vars, Request, Sweep, Arrive, FindExisting, Extend, Select, Recognise,
            NotSponsored, Insert, SettleFails, Abort, Tick, Find, Mark, Look, Settle, Pool

\* A UTXO of an active lease is spent by no transaction, nor is one that is about to be recorded.
LEMMA HeldIsNotSpent ==
    ASSUME LeasedUtxosDisjoint, PendingInv, NEW i \in DOMAIN leases, leases[i].status = "active",
           NEW id \in leases[i].utxoIds, Registered(id)
    PROVE  ~InUse(id)
<1> SUFFICES ASSUME NEW t \in pending, id \in t.inputs PROVE FALSE
  BY DEF InUse
<1>1. PICK j \in DOMAIN leases : Ended(j) /\ id \in leases[j].utxoIds
  BY DEF PendingInv, Spends
<1>2. i = j
  BY <1>1 DEF LeasedUtxosDisjoint
<1> QED BY <1>1, <1>2 DEF Ended

LEMMA NewIsNotSpent ==
    ASSUME SeenIsNew, PendingInv, pc["request"] = "insert", NEW id \in request.utxoIds,
           Registered(id)
    PROVE  ~InUse(id)
<1> SUFFICES ASSUME NEW t \in pending, id \in t.inputs PROVE FALSE
  BY DEF InUse
<1>1. Leased(id)
  BY DEF PendingInv, Spends, Leased
<1> QED BY <1>1 DEF SeenIsNew

\* No lease is added, and no UTXO is lost that is on an active lease or about to be recorded.
LEMMA HeldGoesOn ==
    ASSUME LeasesGoOn, HeldInv,
           \A i \in DOMAIN leases : leases[i].status = "active" =>
              \A id \in leases[i].utxoIds : Registered(id) => Registered(id)',
           pc'["request"] = "insert" =>
              /\ pc["request"] = "insert"
              /\ request'.utxoIds = request.utxoIds /\ request'.selected = request.selected
              /\ \A id \in request.utxoIds : Registered(id) => Registered(id)'
    PROVE  HeldInv'
BY DEF LeasesGoOn, HeldInv

LEMMA HeldInvStep ==
    ASSUME ~MayDrop, LeaseInv, DisjointInv, PendingInv, HeldInv, [Next]_vars
    PROVE  HeldInv'
<1>1. TypeOK /\ WalletTypeOK
  BY DEF LeaseInv, TypeOK
<1>2. UNCHANGED coin => \A id : Registered(id)' <=> Registered(id)
  BY DEF Registered, Unspent
<1>3. ASSUME UNCHANGED coin, LeasesGoOn,
             \/ pc'["request"] # "insert"
             \/ /\ pc'["request"] = pc["request"]
                /\ request'.utxoIds = request.utxoIds /\ request'.selected = request.selected
      PROVE  HeldInv'
  BY <1>2, <1>3, HeldGoesOn
<1>4. CASE UNCHANGED <<coin, leases, pc, request>>
  BY <1>3, <1>4, SameLeasesGoOn
<1>5. CASE Request /\ ~Recognise /\ ~Insert
  <2>1. UNCHANGED coin /\ pc'["request"] # "insert"
    BY <1>1, <1>5 DEF Request, FindExisting, Extend, Select, Submit, NotSponsored, Release, GoTo,
                      TypeOK, Workers
  <2>2. LeasesGoOn
    BY <1>1, <1>5, ExtendGoesOn, SameLeasesGoOn
       DEF Request, FindExisting, Select, Submit, NotSponsored
  <2> QED BY <1>3, <2>1, <2>2
<1>6. CASE Recognise
  <2>1. PICK new, ids : /\ new = registeredUtxos \ request.before
                        /\ ids = IF new = {} THEN request.selected ELSE new
                        /\ request' = [request EXCEPT !.before = {}, !.utxoIds = ids]
    BY <1>6 DEF Recognise
  <2>2. request'.utxoIds = ids /\ request'.selected = request.selected
    BY <1>1, <2>1, LocalTypes DEF Requests, Workers
  <2>3. UNCHANGED <<coin, leases>>
    BY <1>6 DEF Recognise
  <2>4. \A id \in new : Registered(id)
    BY <1>1, <2>1, FreeAndRegisteredAreIds, RegisteredIsSeen
  <2> QED BY <1>2, <2>1, <2>2, <2>3, <2>4 DEF HeldInv
<1>7. CASE Insert
  <2>1. PICK n : n = Len(leases)
    OBVIOUS
  <2>2. /\ n \in Nat /\ DOMAIN leases = 1 .. n /\ DOMAIN leases' = 1 .. n + 1
        /\ \A i \in 1 .. n : leases'[i] = leases[i]
        /\ leases'[n + 1].utxoIds = request.utxoIds /\ leases'[n + 1].selected = request.selected
        /\ UNCHANGED coin /\ pc["request"] = "insert" /\ pc'["request"] = "idle"
    <3>1. queue # <<>>
      BY <1>7 DEF LeaseInv, LockHeld, Insert
    <3>2. NewLease.utxoIds = request.utxoIds /\ NewLease.selected = request.selected
      BY DEF NewLease
    <3> HIDE DEF NewLease
    <3> QED BY <1>1, <1>7, <2>1, <3>1, <3>2, InsertLeases
  <2>3. SUFFICES ASSUME NEW i \in 1 .. n + 1, leases'[i].status = "active",
                        leases'[i].utxoIds # leases'[i].selected
                 PROVE  \A id \in leases'[i].utxoIds : Registered(id)
    BY <1>2, <2>2 DEF HeldInv
  <2>4. CASE i \in 1 .. n
    BY <2>2, <2>3, <2>4 DEF HeldInv
  <2>5. CASE i = n + 1
    BY <2>2, <2>3, <2>5 DEF HeldInv
  <2> QED BY <2>2, <2>4, <2>5
<1>8. ASSUME NEW w \in Workers, Sweep(w) PROVE HeldInv'
  BY <1>1, <1>3, <1>8, SweepGoesOn
<1>9. ASSUME NEW w \in Workers, Abort(w) PROVE HeldInv'
  <2>1. /\ UNCHANGED <<coin, leases>>
        /\ \/ pc'["request"] = "idle"
           \/ UNCHANGED request /\ pc'["request"] = pc["request"]
    BY <1>1, <1>9 DEF Abort, Release, GoTo, TypeOK, Workers
  <2> QED BY <1>3, <2>1, SameLeasesGoOn
<1>10. CASE Restart
  <2>1. UNCHANGED <<coin, leases>> /\ pc'["request"] = "idle"
    BY <1>10 DEF Restart, Workers
  <2> QED BY <1>3, <2>1, SameLeasesGoOn
<1>11. CASE Tick
  <2>1. PICK age : request' \in {request, [request EXCEPT !.age = age]}
    BY <1>11 DEF Tick
  <2>2. request \in Requests(Len(leases))
    BY <1>1, LocalTypes DEF Workers
  <2>3. request'.utxoIds = request.utxoIds /\ request'.selected = request.selected
    BY <2>1, <2>2 DEF Requests
  <2>4. UNCHANGED <<coin, pc>>
    BY <1>11 DEF Tick
  <2> QED BY <1>1, <1>3, <1>11, <2>3, <2>4, TickGoesOn
<1>12. CASE Chain
  <2>1. PICK t \in pending : Land(t)
    BY <1>12 DEF Chain
  <2>2. UNCHANGED <<leases, pc, request>>
    BY <1>12 DEF Chain
  <2>3. ASSUME NEW id \in UtxoIds, Registered(id), ~InUse(id) PROVE Registered(id)'
    <3>1. Unspent(id) /\ id \notin t.inputs
      BY <2>3 DEF InUse, Registered
    <3>2. coin'[id[1]] = coin[id[1]]
      BY <1>1, <2>1, <3>1, LandApart
    <3> QED BY <2>3, <3>2 DEF Registered, Unspent
  <2>4. \A i \in DOMAIN leases : leases[i].status = "active" =>
           \A id \in leases[i].utxoIds : Registered(id) => Registered(id)'
    BY <1>1, <2>3, IdsOfLeases, HeldIsNotSpent DEF DisjointInv
  <2>5. pc["request"] = "insert" =>
           \A id \in request.utxoIds : Registered(id) => Registered(id)'
    BY <1>1, <2>3, IdsOfLeases, NewIsNotSpent DEF DisjointInv
  <2> QED BY <2>2, <2>4, <2>5, SameLeasesGoOn, HeldGoesOn
<1> QED BY <1>4, <1>5, <1>6, <1>7, <1>8, <1>9, <1>10, <1>11, <1>12 DEF Next, vars, Arrive, SettleFails

LEMMA PoolInvInit ==
    Init => DisjointInv /\ PoolInv
BY DEF Init, WalletInit, DisjointInv, LeasedUtxosDisjoint, LeasesWithin, BeforeKnown, SeenIsNew,
       PoolInv, SweepInv, SweepOf, ReclaimSteps, PendingInv, HeldInv, Workers

LEMMA PoolInvStep ==
    ASSUME ~MayDrop, TargetFreeUtxos = 0, LeaseInv, DisjointInv, PoolInv, [Next]_vars
    PROVE  LeaseInv' /\ DisjointInv' /\ PoolInv'
<1>1. LeasesWithin
  BY DEF DisjointInv
<1> QED BY <1>1, LeaseInvStep, DisjointStep, SweepInvStep, PendingInvStep, HeldInvStep DEF PoolInv

(* contract-service.ts:ensureDustSponsorship hands an active lease out      *)
(* again: as long as it is active, what it was seen to register is          *)
(* registered and about to be spent by nothing, whatever the sweeps do to   *)
(* the other leases, if no pool is split and the chain drops nothing.       *)
THEOREM SponsorActiveLeaseIntact ==
    ASSUME ~MayDrop, TargetFreeUtxos = 0
    PROVE  Spec => []ActiveLeaseIntact
<1>1. DisjointInv /\ PoolInv => ActiveLeaseIntact
  BY HeldIsNotSpent DEF ActiveLeaseIntact, DisjointInv, PoolInv, HeldInv
<1>2. LeaseInv /\ DisjointInv /\ PoolInv /\ [Next]_vars => (LeaseInv /\ DisjointInv /\ PoolInv)'
  BY PoolInvStep
<1> QED BY <1>1, <1>2, LeaseInvInit, PoolInvInit, PTL DEF Spec

(* contract-service.ts:reclaimExpiredSponsorships: a UTXO on a lease is     *)
(* deregistered only once the term the lease was recorded with is over,     *)
(* under the same conditions.                                               *)
THEOREM SponsorFirstTermRespected ==
    ASSUME ~MayDrop, TargetFreeUtxos = 0
    PROVE  Spec => []FirstTermRespected
<1>1. DisjointInv /\ PoolInv => FirstTermRespected
  <2> SUFFICES ASSUME DisjointInv, PoolInv, NEW i \in DOMAIN leases,
                      NEW t \in pending, t.to = Free, NEW id \in t.inputs \cap leases[i].utxoIds
               PROVE  TermPast(i)
    BY DEF FirstTermRespected, Reclaiming, TermPast
  <2>1. PICK j \in DOMAIN leases : Registered(id) /\ Ended(j) /\ id \in leases[j].utxoIds
    BY DEF PoolInv, PendingInv, Spends
  <2>2. i = j
    BY <2>1 DEF DisjointInv, LeasedUtxosDisjoint
  <2> QED BY <2>1, <2>2 DEF Ended
<1>2. LeaseInv /\ DisjointInv /\ PoolInv /\ [Next]_vars => (LeaseInv /\ DisjointInv /\ PoolInv)'
  BY PoolInvStep
<1> QED BY <1>1, <1>2, LeaseInvInit, PoolInvInit, PTL DEF Spec
=============================================================================
