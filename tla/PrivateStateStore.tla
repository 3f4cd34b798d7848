-------------------------- MODULE PrivateStateStore --------------------------
(***************************************************************************)
(* The private-state provider of the CLI: serializePrivateStateProvider    *)
(* and withLevelDbLockRetry of packages/cli/src/index.ts.  The operations  *)
(* of a process wait for one another; one that finds the LevelDB database  *)
(* locked is retried after each of a list of delays.  The database, which  *)
(* admits one operation of one process at a time, is external.             *)
(***************************************************************************)
EXTENDS Naturals, Sequences

CONSTANTS Processes,     \* CLI processes that share the database
          Operations,    \* calls of get, set, setSigningKey, ...
          LockRetries    \* Len(LEVEL_DB_LOCK_RETRY_DELAYS_MS)

ASSUME StoreAssumption == LockRetries \in Nat

VARIABLES queue,       \* each process's promise chain: its unsettled operations, oldest first
          operations,  \* of each operation its process, where it is, and its attempt
          blockers,    \* history: processes that held the database at its attempts
          killed       \* processes that have exited

storeVars == <<queue, operations, blockers, killed>>

Unissued == [step |-> "unissued"]
UnsettledSteps == {"waiting", "attempting", "using", "sleeping"}

StoreTypeOK ==
    /\ queue \in [Processes -> Seq(Operations)]
    /\ operations \in [Operations ->
           {Unissued} \cup [process : Processes, attempt : 0 .. LockRetries,
                            step : UnsettledSteps \cup {"returned", "failed", "dropped"}]]
    /\ blockers \in [Operations -> SUBSET Processes]
    /\ killed \subseteq Processes

StoreInit ==
    /\ queue = [p \in Processes |-> <<>>]
    /\ operations = [o \in Operations |-> Unissued]
    /\ blockers = [o \in Operations |-> {}]
    /\ killed = {}

OperationAt(o, step) == operations[o].step = step
OperationGoes(o, step) == operations' = [operations EXCEPT ![o].step = step]
Unsettled == {o \in Operations : operations[o].step \in UnsettledSteps}

\* runExclusive: the operation is chained to the queue of its process.
RunExclusive(p, o) ==
    /\ operations[o] = Unissued
    /\ p \notin killed
    /\ operations' = [operations EXCEPT ![o] = [process |-> p, step |-> "waiting", attempt |-> 0]]
    /\ queue' = [queue EXCEPT ![p] = Append(@, o)]
    /\ UNCHANGED <<blockers, killed>>

\* Mutant of StartOperation: an operation does not wait for the ones before it.
StartUnqueued(o) ==
    /\ OperationAt(o, "waiting")
    /\ OperationGoes(o, "attempting")
    /\ UNCHANGED <<queue, blockers, killed>>

\* Whatever became of the one before, the next operation starts.
StartOperation(o) ==
    /\ OperationAt(o, "waiting")
    /\ Head(queue[operations[o].process]) = o
    /\ OperationGoes(o, "attempting")
    /\ UNCHANGED <<queue, blockers, killed>>

Holders == {o \in Operations : OperationAt(o, "using")}

OpenStore(o) ==
    /\ OperationAt(o, "attempting")
    /\ Holders = {}
    /\ OperationGoes(o, "using")
    /\ UNCHANGED <<queue, blockers, killed>>

\* Mutant of SettleOperation: a rejected operation rejects those chained to it unseen.
SettleReturnedOnly(o, step) ==
    /\ OperationGoes(o, step)
    /\ queue' = IF step = "returned"
                THEN [queue EXCEPT ![operations[o].process] = Tail(@)] ELSE queue

SettleOperation(o, step) ==
    /\ OperationGoes(o, step)
    /\ queue' = [queue EXCEPT ![operations[o].process] = Tail(@)]

\* isLevelDbLockedError: retried while there are delays left, rejected after the last.
FindLocked(o) ==
    /\ OperationAt(o, "attempting")
    /\ Holders # {}
    /\ blockers' = [blockers EXCEPT ![o] = @ \cup {operations[h].process : h \in Holders}]
    /\ IF operations[o].attempt < LockRetries
       THEN OperationGoes(o, "sleeping") /\ UNCHANGED queue
       ELSE SettleOperation(o, "failed")
    /\ UNCHANGED killed

RetryOperation(o) ==
    /\ OperationAt(o, "sleeping")
    /\ operations' = [operations EXCEPT ![o].step = "attempting", ![o].attempt = @ + 1]
    /\ UNCHANGED <<queue, blockers, killed>>

\* The operation is done and the database closed; any other error is passed on at once.
CloseStore(o) ==
    /\ OperationAt(o, "using")
    /\ \E outcome \in {"returned", "failed"} : SettleOperation(o, outcome)
    /\ UNCHANGED <<blockers, killed>>

\* The process exits; the operating system releases its lock.
KillProcess(p) ==
    /\ p \notin killed
    /\ killed' = killed \cup {p}
    /\ operations' = [o \in Operations |->
           IF o \in Unsettled /\ operations[o].process = p
           THEN [operations[o] EXCEPT !.step = "dropped"] ELSE operations[o]]
    /\ queue' = [queue EXCEPT ![p] = <<>>]
    /\ UNCHANGED blockers

OperationStep(o) == StartOperation(o) \/ OpenStore(o) \/ FindLocked(o) \/ RetryOperation(o) \/ CloseStore(o)

StoreNext == \/ \E o \in Operations : OperationStep(o) \/ \E p \in Processes : RunExclusive(p, o)
             \/ \E p \in Processes : KillProcess(p)

StoreFairness == \A o \in Operations : WF_storeVars(OperationStep(o))
StoreSpec == StoreInit /\ [][StoreNext]_storeVars
-----------------------------------------------------------------------------
(* Properties *)

\* An operation is only ever kept out of the database by another process, however many its own
\* process issues at once; so a signing key is only lost to a lock another process holds at
\* every attempt (cli/src/index.ts:107-148 and 221-239).
LockedOutByOther ==
    \A o \in Operations : operations[o] # Unissued => operations[o].process \notin blockers[o]

\* Every operation settles: neither one that fails nor a process that is killed while it holds
\* the database keeps the others waiting for ever.
OperationsSettle == []<>(Unsettled = {})

=============================================================================
