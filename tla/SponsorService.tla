--------------------------- MODULE SponsorService ---------------------------
(***************************************************************************)
(* DUST sponsorship: packages/backend/src/services/contract-service.ts     *)
(* (leases, allocation lock, reclaim sweep, pool maintenance) on top of    *)
(* the sponsor wallet.                                                     *)
(*                                                                         *)
(* Two workers share the wallet and the lease collection: the request that *)
(* holds the allocation lock, and the maintenance the interval starts.     *)
(* Each action is the code between two awaits.  Both workers run the same  *)
(* sweep over expired leases.                                              *)
(*                                                                         *)
(* Time is relative: `left` is what remains until expiresAt and `idle` the *)
(* time since updatedAt, which is only read of leases being reclaimed;     *)
(* each is counted to the bound the code compares it with.                 *)
(***************************************************************************)
EXTENDS SponsorWallet, Sequences, FiniteSetsExt

CONSTANTS
    TTL,                \* sponsorAllocationTtlMs
    StaleAfter,         \* max(sponsorReclaimIntervalMs, 60 s)
    MaxAttempts,        \* sponsorReclaimMaxAttempts
    RequestLimit,       \* leases a request's sweep takes (25)
    MaintenanceLimit,   \* leases a maintenance sweep takes (10)
    TargetFreeUtxos,    \* sponsorPoolTargetFreeUtxos, 0 disables splitting
    MaxSplitOutputs,    \* sponsorPoolMaxSplitOutputs
    QueueBound,         \* bound: requests in the service at a time
    LeaseBound,         \* bound: leases ever recorded
    FaultBound,         \* bound: database errors and restarts
    MayDrop             \* whether a submitted transaction may never land

ASSUME SponsorAssumption ==
    /\ {TTL, StaleAfter, MaxAttempts, RequestLimit, MaintenanceLimit} \subseteq Nat \ {0}
    /\ {TargetFreeUtxos, MaxSplitOutputs, QueueBound, LeaseBound, FaultBound} \subseteq Nat
    /\ MayDrop \in BOOLEAN

VARIABLES
    leases,     \* veil dust sponsorships, in insertion order; the index stands for txId
    queue,      \* addresses of the requests waiting for the lock, its holder first
    pc,         \* worker -> what it awaits
    todo,       \* worker -> leases its sweep still has to reclaim
    local,      \* worker -> locals of the reclaim in progress
    request,    \* locals of the lock holder
    faults      \* bound: faults so far

vars == <<coin, pending, leases, queue, pc, todo, local, request, faults>>

Workers == {"request", "maintenance"}
SweepSteps == {"find", "mark", "look", "generate", "deregister", "settle", "pool", "split"}
RequestSteps == {"extend", "select", "submit", "wait", "insert"}
Statuses == {"active", "reclaiming", "reclaimed", "reclaim_failed"}

Leases ==
    [dustAddress : Addresses, utxoIds : SUBSET UtxoIds, status : Statuses,
     reclaimAttempts : Nat, left : 0 .. TTL, idle : 0 .. StaleAfter,
     \* history: the UTXOs its transaction spent, and whether its term was prolonged
     selected : SUBSET UtxoIds, extended : BOOLEAN]

NoReclaim == [lease |-> 0, utxoIds |-> {}, free |-> FALSE, retry |-> FALSE,
              result |-> "reclaim_failed", outputs |-> 0]
NoRequest == [age |-> 0, attempt |-> 1, existing |-> 0, before |-> {}, selected |-> {},
              utxoIds |-> {}]

TypeOK ==
    /\ WalletTypeOK
    /\ leases \in Seq(Leases)
    /\ queue \in Seq(Addresses)
    /\ pc \in [Workers -> {"idle"} \cup SweepSteps \cup RequestSteps]
    /\ pc["maintenance"] \notin RequestSteps
    /\ todo \in [Workers -> SUBSET (DOMAIN leases)]
    /\ local \in [Workers -> [lease : 0 .. Len(leases), utxoIds : SUBSET UtxoIds,
                              free : BOOLEAN, retry : BOOLEAN,
                              result : {"reclaimed", "reclaim_failed"}, outputs : Nat]]
    /\ request \in [age : 0 .. TTL, attempt : {1, 2}, existing : 0 .. Len(leases),
                    before : SUBSET UtxoIds, selected : SUBSET UtxoIds,
                    utxoIds : SUBSET UtxoIds]
    /\ faults \in 0 .. FaultBound

Init ==
    /\ WalletInit
    /\ leases = <<>>
    /\ queue = <<>>
    /\ pc = [w \in Workers |-> "idle"]
    /\ todo = [w \in Workers |-> {}]
    /\ local = [w \in Workers |-> NoReclaim]
    /\ request = NoRequest
    /\ faults = 0

GoTo(w, step) == pc' = [pc EXCEPT ![w] = step]

-----------------------------------------------------------------------------
(* Requests.  A request joins the promise chain of the allocation lock once *)
(* its scope and rate limit have been checked.                              *)

Arrive(a) ==
    /\ Len(queue) < QueueBound
    /\ queue' = Append(queue, a)
    /\ UNCHANGED <<coin, pending, leases, pc, todo, local, request, faults>>

(* The request is answered or fails, and releases the lock. *)
Release ==
    /\ queue' = Tail(queue)
    /\ GoTo("request", "idle")
    /\ request' = NoRequest

ActiveLeases(a) ==
    {i \in DOMAIN leases : leases[i].dustAddress = a /\ leases[i].status = "active"}

(* The lock holder looks for its newest active lease: one that has not      *)
(* expired is handed out again, an expired one is prolonged, and without    *)
(* one the request goes on to allocate.                                     *)
FindExisting ==
    /\ pc["request"] = "idle" /\ queue # <<>>
    /\ LET existing == ActiveLeases(Head(queue)) IN
       \/ /\ existing # {} /\ leases[Max(existing)].left > 0
          /\ Release
       \/ /\ existing # {} /\ leases[Max(existing)].left = 0
          /\ GoTo("request", "extend")
          /\ request' = [NoRequest EXCEPT !.existing = Max(existing)]
          /\ UNCHANGED queue
       \/ /\ existing = {}
          /\ GoTo("request", "find")
          /\ request' = NoRequest
          /\ UNCHANGED queue
    /\ UNCHANGED <<coin, pending, leases, todo, local, faults>>

(* The update selects the lease by txId alone, whatever its status is now.  *)
Extend ==
    /\ pc["request"] = "extend"
    /\ leases' = [leases EXCEPT ![request.existing] =
                    [@ EXCEPT !.left = TTL - request.age, !.extended = TRUE,
                              !.idle = Min({request.age, StaleAfter})]]
    /\ Release
    /\ UNCHANGED <<coin, pending, todo, local, faults>>

-----------------------------------------------------------------------------
(* The sweep, reclaimExpiredSponsorships. *)

TermOver(i) == leases[i].left = 0
Reclaimable(i) ==
    \/ leases[i].status \in {"active", "reclaim_failed"}
    \/ leases[i].status = "reclaiming" /\ leases[i].idle = StaleAfter
AttemptsLeft(i) == leases[i].reclaimAttempts < MaxAttempts

\* Variants with a bug, for the mutants.
ExpiredOrNot == {i \in DOMAIN leases : Reclaimable(i) /\ AttemptsLeft(i)}
ExpiredOneMore ==
    {i \in DOMAIN leases :
        TermOver(i) /\ Reclaimable(i) /\ leases[i].reclaimAttempts <= MaxAttempts}
ExpiredFailed ==
    {i \in DOMAIN leases :
        TermOver(i) /\ leases[i].status = "reclaim_failed" /\ AttemptsLeft(i)}
ExpiredUnstarted ==
    {i \in DOMAIN leases :
        /\ TermOver(i) /\ leases[i].status \in {"active", "reclaim_failed"}
        /\ AttemptsLeft(i)}

Expired == {i \in DOMAIN leases : TermOver(i) /\ Reclaimable(i) /\ AttemptsLeft(i)}

Limit(w) == IF w = "request" THEN RequestLimit ELSE MaintenanceLimit

(* What a worker does once its sweep is over: a request allocates,          *)
(* maintenance is done.  Before that both look after the pool, unless       *)
(* splitting is off (maintainSponsorPool).                                  *)
AfterPool(w) == IF w = "request" THEN "select" ELSE "idle"
AfterReclaim(w, left) ==
    IF left # {} THEN "mark" ELSE IF TargetFreeUtxos > 0 THEN "pool" ELSE AfterPool(w)

(* The query.  Maintenance runs it when the interval fires and no other      *)
(* maintenance is under way (runSponsorMaintenance).                         *)
Find(w) ==
    /\ pc[w] = IF w = "maintenance" THEN "idle" ELSE "find"
    /\ \E batch \in SUBSET Expired :
          /\ Cardinality(batch) = Min({Limit(w), Cardinality(Expired)})
          /\ todo' = [todo EXCEPT ![w] = batch]
          /\ GoTo(w, AfterReclaim(w, batch))
    /\ UNCHANGED <<coin, pending, leases, queue, local, request, faults>>

(* The update's filter leaves a reclaimed lease alone, but the sweep goes on *)
(* with it all the same.                                                     *)
Marked(lease) ==
    [lease EXCEPT !.status = "reclaiming", !.idle = 0, !.reclaimAttempts = @ + 1]

Mark(w) ==
    /\ pc[w] = "mark"
    /\ \E i \in todo[w] :
          /\ todo' = [todo EXCEPT ![w] = @ \ {i}]
          /\ local' = [local EXCEPT ![w] = [NoReclaim EXCEPT !.lease = i]]
          /\ leases' = IF leases[i].status = "reclaimed" THEN leases
                       ELSE [leases EXCEPT ![i] = Marked(@)]
    /\ GoTo(w, "look")
    /\ UNCHANGED <<coin, pending, queue, request, faults>>

(* The reclaim in progress ends as reclaim_failed: null or an exception. *)
GiveUp(w) ==
    /\ local' = [local EXCEPT ![w] = [NoReclaim EXCEPT !.lease = local[w].lease]]
    /\ GoTo(w, "settle")

(* reclaimDustForUtxoIds: which of the lease's UTXOs are registered.  Too   *)
(* little spendable DUST for the fee needs a free UTXO to make some first;  *)
(* the second look, after a retry, goes straight on.                        *)
Look(w) ==
    /\ pc[w] = "look"
    /\ LET reclaimable == registeredUtxos \cap leases[local[w].lease].utxoIds
           seen == [local[w] EXCEPT !.utxoIds = reclaimable,
                                    !.free = freeNightUtxos # {}]
       IN \/ /\ reclaimable = {}
             /\ GiveUp(w)
          \/ /\ reclaimable # {}
             /\ local' = [local EXCEPT ![w] = seen]
             /\ GoTo(w, "deregister")
          \/ /\ reclaimable # {} /\ ~local[w].retry /\ seen.free
             /\ local' = [local EXCEPT ![w] = seen]
             /\ GoTo(w, "generate")
          \/ /\ reclaimable # {} /\ ~local[w].retry /\ ~seen.free
             /\ GiveUp(w)
    /\ UNCHANGED <<coin, pending, leases, queue, todo, request, faults>>

(* ensureFreshDustForReclaim: one free UTXO, if there still is one, is      *)
(* registered to the wallet's own address, and stays so.  The DUST may be   *)
(* enough or not, and the submission may fail.                              *)
Generate(w) ==
    /\ pc[w] = "generate"
    /\ \/ \E id \in freeNightUtxos : submitTransaction({id}, Operating, {})
       \/ UNCHANGED pending
    /\ \/ /\ GoTo(w, IF local[w].retry THEN "look" ELSE "deregister")
          /\ UNCHANGED local
       \/ GiveUp(w)
    /\ UNCHANGED <<coin, leases, queue, todo, request, faults>>

(* buildAndSubmitDeregister: taken by the node, refused for lack of DUST    *)
(* (error 138, retried once), or refused for another reason.                *)
Deregister(w) ==
    /\ pc[w] = "deregister"
    /\ \/ /\ submitTransaction(local[w].utxoIds, Free, {})
          /\ local' = [local EXCEPT ![w] = [NoReclaim EXCEPT !.lease = local[w].lease,
                                                            !.result = "reclaimed"]]
          /\ GoTo(w, "settle")
       \/ /\ ~local[w].retry /\ local[w].free
          /\ local' = [local EXCEPT ![w].retry = TRUE]
          /\ GoTo(w, "generate")
          /\ UNCHANGED pending
       \/ /\ GiveUp(w)
          /\ UNCHANGED pending
    /\ UNCHANGED <<coin, leases, queue, todo, request, faults>>

SettleAsActive(w) ==
    /\ pc[w] = "settle"
    /\ leases' = [leases EXCEPT ![local[w].lease].status =
                    IF local[w].result = "reclaimed" THEN "reclaimed" ELSE "active"]
    /\ local' = [local EXCEPT ![w] = NoReclaim]
    /\ GoTo(w, AfterReclaim(w, todo[w]))
    /\ UNCHANGED <<coin, pending, queue, todo, request, faults>>

Settle(w) ==
    /\ pc[w] = "settle"
    /\ leases' = [leases EXCEPT ![local[w].lease] =
                    [@ EXCEPT !.status = local[w].result, !.idle = 0]]
    /\ local' = [local EXCEPT ![w] = NoReclaim]
    /\ GoTo(w, AfterReclaim(w, todo[w]))
    /\ UNCHANGED <<coin, pending, queue, todo, request, faults>>

-----------------------------------------------------------------------------
(* splitSponsorNightPool: nothing is split if there are UTXOs enough, one   *)
(* is registered, or none is there to be split.                             *)
WantedOutputs ==
    IF registeredUtxos # {} \/ freeNightUtxos = {} THEN 0
    ELSE Min({MaxSplitOutputs, Max({0, TargetFreeUtxos - Cardinality(freeNightUtxos)})})

Pool(w) ==
    /\ pc[w] = "pool"
    /\ \/ WantedOutputs = 0 /\ GoTo(w, AfterPool(w)) /\ UNCHANGED local
       \/ /\ WantedOutputs > 0
          /\ local' = [local EXCEPT ![w].outputs = WantedOutputs]
          /\ GoTo(w, "split")
    /\ UNCHANGED <<coin, pending, leases, queue, todo, request, faults>>

(* transferTransaction picks its inputs from what is available by then; a   *)
(* failure is logged and ignored.                                           *)
NewCoins == {c \in Coins : coin[c].owner = Absent} \ UNION {t.created : t \in pending}

Split(w) ==
    /\ pc[w] = "split"
    /\ \/ \E id \in availableCoins, n \in 1 .. local[w].outputs :
            \E new \in kSubset(n, NewCoins) : submitTransaction({id}, Free, new)
       \/ UNCHANGED pending
    /\ local' = [local EXCEPT ![w] = NoReclaim]
    /\ GoTo(w, AfterPool(w))
    /\ UNCHANGED <<coin, leases, queue, todo, request, faults>>

-----------------------------------------------------------------------------
(* Allocation: sponsorDustFor and the insertion of the lease. *)

Select ==
    /\ pc["request"] = "select"
    /\ Len(leases) < LeaseBound
    /\ \E selected \in SUBSET freeNightUtxos \ {{}} :
          request' = [request EXCEPT !.selected = selected, !.before = registeredUtxos]
    /\ GoTo("request", "submit")
    /\ UNCHANGED <<coin, pending, leases, queue, todo, local, faults>>

Submit ==
    /\ pc["request"] = "submit"
    /\ submitTransaction(request.selected, Head(queue), {})
    /\ GoTo("request", "wait")
    /\ UNCHANGED <<coin, leases, queue, todo, local, request, faults>>

RecogniseAll ==
    /\ pc["request"] = "wait"
    /\ request' = [request EXCEPT !.before = {},
                                  !.utxoIds = IF registeredUtxos = {} THEN request.selected
                                              ELSE registeredUtxos]
    /\ GoTo("request", "insert")
    /\ UNCHANGED <<coin, pending, leases, queue, todo, local, faults>>

(* waitForRegisteredUtxoIds: what is registered now and was not before,     *)
(* waiting for as many as were selected; at the timeout whatever there is,  *)
(* and the selected ids if there is nothing.                                *)
Recognise ==
    /\ pc["request"] = "wait"
    /\ LET new == registeredUtxos \ request.before IN
       request' = [request EXCEPT !.before = {},
                                  !.utxoIds = IF new = {} THEN request.selected ELSE new]
    /\ GoTo("request", "insert")
    /\ UNCHANGED <<coin, pending, leases, queue, todo, local, faults>>

(* No free UTXO, or an error anywhere in sponsorDustFor: null.  The first   *)
(* time the request sweeps and tries again.                                 *)
NotSponsored ==
    /\ pc["request"] \in {"select", "submit", "wait"}
    /\ \/ /\ request.attempt = 1
          /\ request' = [NoRequest EXCEPT !.age = request.age, !.attempt = 2]
          /\ GoTo("request", "find")
          /\ UNCHANGED queue
       \/ /\ request.attempt = 2
          /\ Release
    /\ UNCHANGED <<coin, pending, leases, todo, local, faults>>

NewLeaseLate ==
    [dustAddress |-> Head(queue), utxoIds |-> request.utxoIds, status |-> "active",
     reclaimAttempts |-> 0, left |-> TTL + request.age, idle |-> 0,
     selected |-> request.selected, extended |-> FALSE]

NewLease ==
    [dustAddress |-> Head(queue), utxoIds |-> request.utxoIds, status |-> "active",
     reclaimAttempts |-> 0, left |-> TTL - request.age,
     idle |-> 0, selected |-> request.selected, extended |-> FALSE]

Insert ==
    /\ pc["request"] = "insert"
    /\ leases' = Append(leases, NewLease)
    /\ Release
    /\ UNCHANGED <<coin, pending, todo, local, faults>>

-----------------------------------------------------------------------------
(* Faults, time and the chain. *)

(* The update that settles a reclaim fails inside the try, whatever it was   *)
(* to record: it is caught, and the sweep is about to record the failure.   *)
SettleFails(w) ==
    /\ faults < FaultBound
    /\ pc[w] = "settle"
    /\ local' = [local EXCEPT ![w].result = "reclaim_failed"]
    /\ faults' = faults + 1
    /\ UNCHANGED <<coin, pending, leases, queue, pc, todo, request>>

(* An operation on the database fails outside any try: the sweep or the     *)
(* request ends there, and a request releases the lock.  At "settle" that   *)
(* is the update of the catch block.                                        *)
Abort(w) ==
    /\ faults < FaultBound
    /\ pc[w] \in {"find", "mark", "settle", "extend", "insert"}
    /\ pc[w] = "settle" => local[w].result = "reclaim_failed"
    /\ IF w = "request" THEN Release
       ELSE GoTo(w, "idle") /\ UNCHANGED <<queue, request>>
    /\ todo' = [todo EXCEPT ![w] = {}]
    /\ local' = [local EXCEPT ![w] = NoReclaim]
    /\ faults' = faults + 1
    /\ UNCHANGED <<coin, pending, leases>>

(* The process stops and starts again: leases and chain remain. *)
Restart ==
    /\ faults < FaultBound
    /\ queue' = <<>>
    /\ pc' = [w \in Workers |-> "idle"]
    /\ todo' = [w \in Workers |-> {}]
    /\ local' = [w \in Workers |-> NoReclaim]
    /\ request' = NoRequest
    /\ faults' = faults + 1
    /\ Forget
    /\ UNCHANGED <<coin, leases>>

Tick ==
    /\ leases' = [i \in DOMAIN leases |->
                    [leases[i] EXCEPT
                        !.left = Max({0, @ - 1}),
                        !.idle = IF leases[i].status = "reclaiming"
                                 THEN Min({@ + 1, StaleAfter}) ELSE 0]]
    /\ request' = IF pc["request"] = "idle" THEN request
                  ELSE [request EXCEPT !.age = Min({@ + 1, TTL})]
    /\ UNCHANGED <<coin, pending, queue, pc, todo, local, faults>>

Chain ==
    /\ \E t \in pending :
          \/ Land(t)
          \/ MayDrop /\ Drop(t)
    /\ UNCHANGED <<leases, queue, pc, todo, local, request, faults>>

-----------------------------------------------------------------------------
Sweep(w) ==
    \/ Find(w) \/ Mark(w) \/ Look(w) \/ Generate(w) \/ Deregister(w) \/ Settle(w)
    \/ Pool(w) \/ Split(w)

Request ==
    \/ FindExisting \/ Extend \/ Select \/ Submit \/ Recognise \/ NotSponsored \/ Insert

Next ==
    \/ \E a \in Addresses : Arrive(a)
    \/ Request
    \/ \E w \in Workers : Sweep(w) \/ SettleFails(w) \/ Abort(w)
    \/ Restart
    \/ Tick
    \/ Chain

Spec == Init /\ [][Next]_vars

(* The interval fires again and again, its query is answered, and time goes  *)
(* on.  Nothing is asked of the chain, of the requests, or of the steps in   *)
(* which a sweep waits for the wallet: waitForSyncedState and the submission *)
(* of a transaction have no timeout.                                         *)
Fairness ==
    /\ WF_vars(Find("maintenance"))
    /\ WF_vars(Tick)

FairSpec == Spec /\ Fairness

-----------------------------------------------------------------------------
(* Properties. *)

Registered(id) == Unspent(id) /\ coin[id[1]].owner \in Beneficiaries
InUse(id) == \E t \in pending : id \in t.inputs

(* An address has at most one active lease, whatever the sweeps do to its   *)
(* older leases while a request allocates a new one.                        *)
OneActiveLease ==
    \A i, j \in DOMAIN leases :
        /\ leases[i].status = "active" /\ leases[j].status = "active"
        /\ leases[i].dustAddress = leases[j].dustAddress
        => i = j

(* The attempts at one lease stay within the maximum, and one more when     *)
(* both sweeps have read it before either counted.                          *)
AttemptsBounded ==
    \A i \in DOMAIN leases : leases[i].reclaimAttempts <= MaxAttempts + 1

(* No registered UTXO is on two leases: reclaiming one lease never takes    *)
(* away what another one holds.  Needs ~MayDrop: a UTXO whose               *)
(* deregistration was dropped shows again, as if newly registered.          *)
LeasedUtxosDisjoint ==
    \A i, j \in DOMAIN leases :
        \A id \in leases[i].utxoIds \cap leases[j].utxoIds : Registered(id) => i = j

(* While a lease is active, every UTXO it was seen to register stays        *)
(* registered and no transaction is about to spend it: what FindExisting    *)
(* hands out again is still there.  Needs TargetFreeUtxos = 0, as a split   *)
(* may spend a registered UTXO, and ~MayDrop.                               *)
ActiveLeaseIntact ==
    \A i \in DOMAIN leases :
        leases[i].status = "active" /\ leases[i].utxoIds # leases[i].selected =>
            \A id \in leases[i].utxoIds : Registered(id) /\ ~InUse(id)

Reclaiming(i) == \E t \in pending : t.to = Free /\ t.inputs \cap leases[i].utxoIds # {}

(* A UTXO on a lease is deregistered only after the term the lease was      *)
(* recorded with.  Needs TargetFreeUtxos = 0 and ~MayDrop likewise.         *)
FirstTermRespected ==
    \A i \in DOMAIN leases : Reclaiming(i) => leases[i].left = 0 \/ leases[i].extended

(* The same of the expiry the holder was told last (API.md: allocations are *)
(* reclaimed after their ttl).  Fails: Extend prolongs a lease that a sweep *)
(* has read as expired and goes on to reclaim.                              *)
TermRespected ==
    \A i \in DOMAIN leases : Reclaiming(i) => leases[i].left = 0

(* API.md: successful sponsorships are recorded and reclaimed.  What the    *)
(* transaction of a lease registered is on the lease, else no sweep finds   *)
(* it.  Fails when it shows only after waitForRegisteredUtxoIds timed out,  *)
(* or another registration shows before it.                                 *)
RecordedForReclaim ==
    \A i \in DOMAIN leases : \A id \in leases[i].selected :
        LET made == <<id[1], id[2] + 1>> IN
        Registered(made) /\ coin[id[1]].owner = leases[i].dustAddress =>
            made \in leases[i].utxoIds

(* Maintenance keeps returning: sponsorMaintenancePromise settles each time. *)
(* While it does not, runSponsorMaintenance answers every interval with the  *)
(* promise that is pending, and no other maintenance sweeps.                 *)
MaintenanceReturns == []<>(pc["maintenance"] = "idle")

(* As long as maintenance keeps returning, an expired lease does not stay    *)
(* active: a sweep gets to it although other leases fail and come back to    *)
(* compete for the sweep's limit and requests hang, unless its holder        *)
(* prolongs it.                                                              *)
Overdue(i) == i \in DOMAIN leases /\ leases[i].status = "active" /\ leases[i].left = 0
ExpiredLeaseSwept ==
    MaintenanceReturns => \A i \in 1 .. LeaseBound : Overdue(i) ~> ~Overdue(i)

(* As long as maintenance keeps returning, a reclaim that was begun is       *)
(* concluded, even if the process stopped in the middle or the request that  *)
(* began it hangs, unless its attempts are used up.                          *)
Unconcluded(i) ==
    /\ i \in DOMAIN leases /\ leases[i].status = "reclaiming"
    /\ leases[i].reclaimAttempts < MaxAttempts
ReclaimConcluded ==
    MaintenanceReturns => \A i \in 1 .. LeaseBound : Unconcluded(i) ~> ~Unconcluded(i)
=============================================================================
