----------------------- MODULE PrivateStateStoreProofs -----------------------
(***************************************************************************)
(* Proofs about PrivateStateStore, for any processes, operations and       *)
(* number of retries.                                                      *)
(***************************************************************************)
EXTENDS PrivateStateStore, SequenceTheorems, TLAPS

USE StoreAssumption DEF StoreAssumption

ActiveSteps == {"attempting", "using", "sleeping"}

\* An operation that has started is the oldest of its process.
ActiveIsHead ==
    \A o \in Operations : operations[o].step \in ActiveSteps =>
        /\ queue[operations[o].process] # <<>>
        /\ Head(queue[operations[o].process]) = o

\* One that has not is somewhere in the queue of its process.
WaitingQueued ==
    \A o \in Operations : operations[o].step = "waiting" =>
        \E i \in 1 .. Len(queue[operations[o].process]) : queue[operations[o].process][i] = o

UnissuedUnblocked == \A o \in Operations : operations[o] = Unissued => blockers[o] = {}

\* One that sleeps has a retry left.
SleepersMayRetry ==
    \A o \in Operations : operations[o].step = "sleeping" => operations[o].attempt < LockRetries

StoreInv ==
    /\ StoreTypeOK
    /\ ActiveIsHead
    /\ WaitingQueued
    /\ UnissuedUnblocked
    /\ SleepersMayRetry
    /\ LockedOutByOther

OperationRecords ==
    [process : Processes, attempt : 0 .. LockRetries,
     step : UnsettledSteps \cup {"returned", "failed", "dropped"}]

-----------------------------------------------------------------------------
(* Lemmas *)

\* An operation at a step of an issued one has a process.
LEMMA IssuedShape ==
    ASSUME StoreTypeOK, NEW o \in Operations
    PROVE  /\ operations[o] # Unissued => operations[o] \in OperationRecords
           /\ operations[o].step # "unissued" => operations[o] # Unissued
           /\ operations[o] \in OperationRecords => operations[o] # Unissued
<1>1. operations[o] \in {Unissued} \cup OperationRecords
  BY DEF StoreTypeOK, OperationRecords
<1>2. Unissued.step = "unissued"
  BY DEF Unissued
<1> QED BY <1>1, <1>2 DEF OperationRecords, UnsettledSteps

LEMMA StoreInitInv == StoreInit => StoreInv
<1> SUFFICES ASSUME StoreInit PROVE StoreInv
  OBVIOUS
<1>1. StoreTypeOK
  <2>1. queue \in [Processes -> Seq(Operations)]
    BY EmptySeq DEF StoreInit
  <2> QED BY <2>1 DEF StoreInit, StoreTypeOK
<1>2. \A o \in Operations : operations[o] = Unissued /\ operations[o].step = "unissued"
  BY DEF StoreInit, Unissued
<1> QED BY <1>1, <1>2 DEF StoreInit, StoreInv, ActiveIsHead, WaitingQueued, UnissuedUnblocked,
                          SleepersMayRetry, LockedOutByOther, ActiveSteps

LEMMA RunExclusiveInv ==
    ASSUME StoreInv, NEW p \in Processes, NEW o \in Operations, RunExclusive(p, o)
    PROVE  StoreInv'
<1> DEFINE record == [process |-> p, step |-> "waiting", attempt |-> 0]
<1>1. /\ operations[o] = Unissued /\ operations' = [operations EXCEPT ![o] = record]
      /\ queue' = [queue EXCEPT ![p] = Append(queue[p], o)]
      /\ UNCHANGED <<blockers, killed>>
  BY DEF RunExclusive
<1>2. queue[p] \in Seq(Operations)
  BY DEF StoreInv, StoreTypeOK
<1>3. /\ Append(queue[p], o) \in Seq(Operations) /\ Append(queue[p], o) # <<>>
      /\ Len(queue[p]) \in Nat /\ Len(Append(queue[p], o)) = Len(queue[p]) + 1
      /\ \A i \in 1 .. Len(queue[p]) : Append(queue[p], o)[i] = queue[p][i]
      /\ Append(queue[p], o)[Len(queue[p]) + 1] = o
      /\ queue[p] # <<>> => Head(Append(queue[p], o)) = Head(queue[p])
  BY <1>2, AppendProperties
<1>4. /\ queue'[p] = Append(queue[p], o)
      /\ \A q \in Processes : q # p => queue'[q] = queue[q]
  BY <1>1 DEF StoreInv, StoreTypeOK
<1>5. /\ operations'[o] = record
      /\ \A e \in Operations : e # o => operations'[e] = operations[e]
      /\ record # Unissued
  BY <1>1 DEF StoreInv, StoreTypeOK, Unissued
<1>6. StoreTypeOK'
  <2>1. record \in OperationRecords
    BY DEF OperationRecords, UnsettledSteps
  <2> QED BY <1>1, <1>3, <2>1 DEF StoreInv, StoreTypeOK, OperationRecords
<1>7. ActiveIsHead'
  <2> SUFFICES ASSUME NEW e \in Operations, operations'[e].step \in ActiveSteps
               PROVE  /\ queue'[operations'[e].process] # <<>>
                      /\ Head(queue'[operations'[e].process]) = e
    BY DEF ActiveIsHead
  <2>1. e # o /\ operations'[e] = operations[e]
    BY <1>5 DEF ActiveSteps
  <2>2. operations[e].process \in Processes
    BY <2>1, IssuedShape DEF StoreInv, ActiveSteps, OperationRecords
  <2>3. queue[operations[e].process] # <<>> /\ Head(queue[operations[e].process]) = e
    BY <2>1 DEF StoreInv, ActiveIsHead
  <2> QED BY <1>3, <1>4, <2>1, <2>2, <2>3
<1>8. WaitingQueued'
  <2> SUFFICES ASSUME NEW e \in Operations, operations'[e].step = "waiting"
               PROVE  \E i \in 1 .. Len(queue'[operations'[e].process]) :
                          queue'[operations'[e].process][i] = e
    BY DEF WaitingQueued
  <2>1. CASE e = o
    BY <1>3, <1>4, <1>5, <2>1
  <2>2. CASE e # o
    <3>1. operations'[e] = operations[e] /\ operations[e].process \in Processes
      BY <1>5, <2>2, IssuedShape DEF StoreInv, OperationRecords
    <3>2. PICK i \in 1 .. Len(queue[operations[e].process]) : queue[operations[e].process][i] = e
      BY <3>1 DEF StoreInv, WaitingQueued
    <3>3. CASE operations[e].process = p
      BY <1>3, <1>4, <3>1, <3>2, <3>3, SMTT(30)
    <3>4. CASE operations[e].process # p
      BY <1>4, <3>1, <3>2, <3>4
    <3> QED BY <3>3, <3>4
  <2> QED BY <2>1, <2>2
<1>9. UnissuedUnblocked' /\ LockedOutByOther' /\ SleepersMayRetry'
  BY <1>1, <1>5 DEF StoreInv, UnissuedUnblocked, LockedOutByOther, SleepersMayRetry
<1> QED BY <1>6, <1>7, <1>8, <1>9 DEF StoreInv

\* An operation goes from one step to another, the queues left alone.
LEMMA GoesInv ==
    ASSUME StoreInv, NEW o \in Operations, NEW attempt \in 0 .. LockRetries, NEW step \in ActiveSteps,
           operations[o] # Unissued, step = "sleeping" => attempt < LockRetries,
           operations' = [operations EXCEPT ![o].step = step, ![o].attempt = attempt],
           queue[operations[o].process] # <<>>, Head(queue[operations[o].process]) = o,
           UNCHANGED <<queue, killed>>,
           blockers' \in [Operations -> SUBSET Processes],
           \A e \in Operations : e # o => blockers'[e] = blockers[e],
           operations[o].process \notin blockers'[o]
    PROVE  StoreInv'
<1> DEFINE record == [operations[o] EXCEPT !.step = step, !.attempt = attempt]
<1>1. operations[o] \in OperationRecords
  BY IssuedShape DEF StoreInv
<1>2. /\ record \in OperationRecords /\ record.process = operations[o].process
      /\ record.step = step /\ record.attempt = attempt
  BY <1>1 DEF OperationRecords, UnsettledSteps, ActiveSteps
<1>3. operations' = [operations EXCEPT ![o] = record]
  OBVIOUS
<1>4. /\ operations'[o] = record /\ operations' \in [Operations -> {Unissued} \cup OperationRecords]
      /\ \A e \in Operations : e # o => operations'[e] = operations[e]
  BY <1>2, <1>3 DEF StoreInv, StoreTypeOK, OperationRecords
<1>5. StoreTypeOK'
  BY <1>4 DEF StoreInv, StoreTypeOK, OperationRecords
<1>6. ActiveIsHead' /\ WaitingQueued'
  BY <1>2, <1>4 DEF StoreInv, ActiveIsHead, WaitingQueued, ActiveSteps
<1>7. record # Unissued
  BY <1>2 DEF Unissued, ActiveSteps
<1>8. UnissuedUnblocked' /\ LockedOutByOther' /\ SleepersMayRetry'
  BY <1>2, <1>4, <1>7 DEF StoreInv, UnissuedUnblocked, LockedOutByOther, SleepersMayRetry
<1> QED BY <1>5, <1>6, <1>8 DEF StoreInv

\* An operation settles and the one after it is at the head of the queue.
LEMMA SettleInv ==
    ASSUME StoreInv, NEW o \in Operations, operations[o].step \in ActiveSteps,
           NEW step \in {"returned", "failed"}, SettleOperation(o, step),
           UNCHANGED killed,
           blockers' \in [Operations -> SUBSET Processes],
           \A e \in Operations : e # o => blockers'[e] = blockers[e],
           operations[o].process \notin blockers'[o]
    PROVE  StoreInv'
<1> DEFINE record == [operations[o] EXCEPT !.step = step]
           p == operations[o].process
<1>1. operations[o] \in OperationRecords /\ operations[o] # Unissued /\ p \in Processes
  BY IssuedShape DEF StoreInv, OperationRecords, ActiveSteps
<1>2. record \in OperationRecords /\ record.process = p /\ record.step = step
  BY <1>1 DEF OperationRecords, UnsettledSteps
<1>3. /\ operations'[o] = record /\ operations' \in [Operations -> {Unissued} \cup OperationRecords]
      /\ \A e \in Operations : e # o => operations'[e] = operations[e]
  BY <1>2 DEF SettleOperation, OperationGoes, StoreInv, StoreTypeOK, OperationRecords
<1>4. queue[p] \in Seq(Operations) /\ queue[p] # <<>> /\ Head(queue[p]) = o
  BY <1>1 DEF StoreInv, StoreTypeOK, ActiveIsHead
<1>5. /\ Tail(queue[p]) \in Seq(Operations) /\ Len(queue[p]) \in Nat
      /\ Len(Tail(queue[p])) = Len(queue[p]) - 1 /\ queue[p][1] = o
      /\ \A i \in 1 .. Len(Tail(queue[p])) : Tail(queue[p])[i] = queue[p][i + 1]
  BY <1>4, HeadTailProperties, EmptySeq
<1>6. /\ queue' \in [Processes -> Seq(Operations)] /\ queue'[p] = Tail(queue[p])
      /\ \A q \in Processes : q # p => queue'[q] = queue[q]
  BY <1>1, <1>5 DEF SettleOperation, StoreInv, StoreTypeOK
<1>7. StoreTypeOK'
  BY <1>3, <1>6 DEF StoreInv, StoreTypeOK, OperationRecords
<1>8. ActiveIsHead'
  <2> SUFFICES ASSUME NEW e \in Operations, operations'[e].step \in ActiveSteps
               PROVE  /\ queue'[operations'[e].process] # <<>>
                      /\ Head(queue'[operations'[e].process]) = e
    BY DEF ActiveIsHead
  <2>1. e # o /\ operations'[e] = operations[e]
    BY <1>2, <1>3 DEF ActiveSteps
  <2>2. operations[e].process \in Processes
    BY <2>1, IssuedShape DEF StoreInv, ActiveSteps, OperationRecords
  <2>3. queue[operations[e].process] # <<>> /\ Head(queue[operations[e].process]) = e
    BY <2>1 DEF StoreInv, ActiveIsHead
  <2>4. operations[e].process # p
    BY <1>4, <2>1, <2>3
  <2> QED BY <1>6, <2>1, <2>2, <2>3, <2>4
<1>9. WaitingQueued'
  <2> SUFFICES ASSUME NEW e \in Operations, operations'[e].step = "waiting"
               PROVE  \E i \in 1 .. Len(queue'[operations'[e].process]) :
                          queue'[operations'[e].process][i] = e
    BY DEF WaitingQueued
  <2>1. e # o /\ operations'[e] = operations[e] /\ operations[e].process \in Processes
    <3>1. e # o
      BY <1>2, <1>3
    <3> QED BY <1>3, <3>1, IssuedShape DEF StoreInv, OperationRecords
  <2>2. PICK i \in 1 .. Len(queue[operations[e].process]) : queue[operations[e].process][i] = e
    BY <2>1 DEF StoreInv, WaitingQueued
  <2>3. CASE operations[e].process = p
    <3>1. i # 1 /\ i \in 1 .. Len(queue[p]) /\ queue[p][i] = e
      BY <1>5, <2>1, <2>2, <2>3
    <3>2. i - 1 \in 1 .. Len(Tail(queue[p])) /\ (i - 1) + 1 = i
      BY <1>5, <3>1
    <3>3. Tail(queue[p])[i - 1] = e
      BY <1>5, <3>1, <3>2
    <3> QED BY <1>6, <2>1, <2>3, <3>2, <3>3, ZenonT(60)
  <2>4. CASE operations[e].process # p
    BY <1>6, <2>1, <2>2, <2>4
  <2> QED BY <2>3, <2>4
<1>10. record # Unissued
  BY <1>2 DEF Unissued
<1>11. UnissuedUnblocked' /\ LockedOutByOther' /\ SleepersMayRetry'
  BY <1>2, <1>3, <1>10 DEF StoreInv, UnissuedUnblocked, LockedOutByOther, SleepersMayRetry
<1> QED BY <1>7, <1>8, <1>9, <1>11 DEF StoreInv

-----------------------------------------------------------------------------
(* Steps *)

LEMMA StepOnlyGoes ==
    ASSUME StoreInv, NEW o \in Operations, NEW step, operations[o] # Unissued, OperationGoes(o, step)
    PROVE  /\ operations[o].attempt \in 0 .. LockRetries
           /\ operations' = [operations EXCEPT ![o].step = step, ![o].attempt = operations[o].attempt]
<1>1. operations[o] \in OperationRecords
  BY IssuedShape DEF StoreInv
<1>2. [operations[o] EXCEPT !.step = step]
        = [operations[o] EXCEPT !.step = step, !.attempt = operations[o].attempt]
  BY <1>1 DEF OperationRecords
<1> QED BY <1>1, <1>2, ZenonT(60) DEF OperationGoes, OperationRecords

LEMMA StartOperationInv ==
    ASSUME StoreInv, NEW o \in Operations, StartOperation(o)
    PROVE  StoreInv'
<1>1. /\ operations[o].step = "waiting" /\ OperationGoes(o, "attempting")
      /\ Head(queue[operations[o].process]) = o /\ UNCHANGED <<queue, blockers, killed>>
  BY DEF StartOperation, OperationAt
<1>2. operations[o] # Unissued /\ operations[o].process \in Processes
  BY <1>1, IssuedShape DEF StoreInv, OperationRecords
<1>3. queue[operations[o].process] # <<>>
  <2>1. PICK i \in 1 .. Len(queue[operations[o].process]) : queue[operations[o].process][i] = o
    BY <1>1 DEF StoreInv, WaitingQueued
  <2>2. queue[operations[o].process] \in Seq(Operations)
    BY <1>2 DEF StoreInv, StoreTypeOK
  <2> QED BY <2>1, <2>2, EmptySeq
<1>4. blockers' \in [Operations -> SUBSET Processes] /\ operations[o].process \notin blockers'[o]
  BY <1>1, <1>2 DEF StoreInv, StoreTypeOK, LockedOutByOther
<1>5. /\ operations[o].attempt \in 0 .. LockRetries
      /\ operations' = [operations EXCEPT ![o].step = "attempting", ![o].attempt = operations[o].attempt]
  BY <1>1, <1>2, StepOnlyGoes
<1>6. "attempting" \in ActiveSteps
  BY DEF ActiveSteps
<1> QED BY <1>1, <1>2, <1>3, <1>4, <1>5, <1>6, GoesInv

LEMMA OpenStoreInv ==
    ASSUME StoreInv, NEW o \in Operations, OpenStore(o)
    PROVE  StoreInv'
<1>1. /\ operations[o].step = "attempting" /\ OperationGoes(o, "using")
      /\ UNCHANGED <<queue, blockers, killed>>
  BY DEF OpenStore, OperationAt
<1>2. operations[o] # Unissued
  BY <1>1, IssuedShape DEF StoreInv
<1>3. queue[operations[o].process] # <<>> /\ Head(queue[operations[o].process]) = o
  BY <1>1 DEF StoreInv, ActiveIsHead, ActiveSteps
<1>4. blockers' \in [Operations -> SUBSET Processes] /\ operations[o].process \notin blockers'[o]
  BY <1>1, <1>2 DEF StoreInv, StoreTypeOK, LockedOutByOther
<1>5. /\ operations[o].attempt \in 0 .. LockRetries
      /\ operations' = [operations EXCEPT ![o].step = "using", ![o].attempt = operations[o].attempt]
  BY <1>1, <1>2, StepOnlyGoes
<1>6. "using" \in ActiveSteps
  BY DEF ActiveSteps
<1> QED BY <1>1, <1>2, <1>3, <1>4, <1>5, <1>6, GoesInv

\* The holder of the database is the oldest operation of its process, and so is the one that
\* finds it locked: they are of different processes.
LEMMA FindLockedInv ==
    ASSUME StoreInv, NEW o \in Operations, FindLocked(o)
    PROVE  StoreInv'
<1> DEFINE holding == {operations[h].process : h \in Holders}
<1>1. /\ operations[o].step = "attempting" /\ UNCHANGED killed
      /\ blockers' = [blockers EXCEPT ![o] = blockers[o] \cup holding]
  BY DEF FindLocked, OperationAt
<1>2. operations[o] # Unissued /\ operations[o] \in OperationRecords
  BY <1>1, IssuedShape DEF StoreInv
<1>3. queue[operations[o].process] # <<>> /\ Head(queue[operations[o].process]) = o
  BY <1>1 DEF StoreInv, ActiveIsHead, ActiveSteps
<1>4. \A h \in Holders : operations[h].process \in Processes /\ operations[h].process # operations[o].process
  <2> SUFFICES ASSUME NEW h \in Holders
               PROVE  operations[h].process \in Processes /\ operations[h].process # operations[o].process
    OBVIOUS
  <2>1. h \in Operations /\ operations[h].step = "using"
    BY DEF Holders, OperationAt
  <2>2. operations[h].process \in Processes
    BY <2>1, IssuedShape DEF StoreInv, OperationRecords
  <2>3. Head(queue[operations[h].process]) = h
    BY <2>1 DEF StoreInv, ActiveIsHead, ActiveSteps
  <2>4. h # o
    BY <1>1, <2>1
  <2> QED BY <1>3, <2>2, <2>3, <2>4
<1>5. holding \subseteq Processes /\ operations[o].process \notin holding
  BY <1>4
<1>6. /\ blockers' \in [Operations -> SUBSET Processes]
      /\ \A e \in Operations : e # o => blockers'[e] = blockers[e]
      /\ operations[o].process \notin blockers'[o]
  <2> HIDE DEF holding
  <2> QED BY <1>1, <1>2, <1>5 DEF StoreInv, StoreTypeOK, LockedOutByOther
<1>7. CASE operations[o].attempt < LockRetries
  <2>1. OperationGoes(o, "sleeping") /\ UNCHANGED queue
    BY <1>7 DEF FindLocked
  <2>2. /\ operations[o].attempt \in 0 .. LockRetries
        /\ operations' = [operations EXCEPT ![o].step = "sleeping", ![o].attempt = operations[o].attempt]
    BY <1>2, <2>1, StepOnlyGoes
  <2>3. "sleeping" \in ActiveSteps
    BY DEF ActiveSteps
  <2> QED BY <1>1, <1>2, <1>3, <1>6, <1>7, <2>1, <2>2, <2>3, GoesInv
<1>8. CASE ~(operations[o].attempt < LockRetries)
  <2>1. SettleOperation(o, "failed")
    BY <1>8 DEF FindLocked
  <2>2. operations[o].step \in ActiveSteps
    BY <1>1 DEF ActiveSteps
  <2> QED BY <1>1, <1>6, <2>1, <2>2, SettleInv
<1> QED BY <1>7, <1>8

LEMMA RetryOperationInv ==
    ASSUME StoreInv, NEW o \in Operations, RetryOperation(o)
    PROVE  StoreInv'
<1> DEFINE next == operations[o].attempt + 1
<1>1. /\ operations[o].step = "sleeping" /\ UNCHANGED <<queue, blockers, killed>>
      /\ operations' = [operations EXCEPT ![o].step = "attempting", ![o].attempt = next]
  BY DEF RetryOperation, OperationAt
<1>2. operations[o] # Unissued /\ operations[o] \in OperationRecords
  BY <1>1, IssuedShape DEF StoreInv
<1>3. next \in 0 .. LockRetries
  BY <1>1, <1>2 DEF StoreInv, SleepersMayRetry, OperationRecords
<1>4. queue[operations[o].process] # <<>> /\ Head(queue[operations[o].process]) = o
  BY <1>1 DEF StoreInv, ActiveIsHead, ActiveSteps
<1>5. blockers' \in [Operations -> SUBSET Processes] /\ operations[o].process \notin blockers'[o]
  BY <1>1, <1>2 DEF StoreInv, StoreTypeOK, LockedOutByOther
<1>6. "attempting" \in ActiveSteps
  BY DEF ActiveSteps
<1> HIDE DEF next
<1> QED BY <1>1, <1>2, <1>3, <1>4, <1>5, <1>6, GoesInv

LEMMA CloseStoreInv ==
    ASSUME StoreInv, NEW o \in Operations, CloseStore(o)
    PROVE  StoreInv'
<1>1. PICK outcome \in {"returned", "failed"} : SettleOperation(o, outcome)
  BY DEF CloseStore
<1>2. operations[o].step = "using" /\ UNCHANGED <<blockers, killed>>
  BY DEF CloseStore, OperationAt
<1>3. operations[o] # Unissued /\ operations[o].step \in ActiveSteps
  BY <1>2, IssuedShape DEF StoreInv, ActiveSteps
<1>4. blockers' \in [Operations -> SUBSET Processes] /\ operations[o].process \notin blockers'[o]
  BY <1>2, <1>3 DEF StoreInv, StoreTypeOK, LockedOutByOther
<1> QED BY <1>1, <1>2, <1>3, <1>4, SettleInv

LEMMA KillProcessInv ==
    ASSUME StoreInv, NEW p \in Processes, KillProcess(p)
    PROVE  StoreInv'
<1> DEFINE ended(o) == o \in Unsettled /\ operations[o].process = p
<1>1. /\ killed' = killed \cup {p} /\ UNCHANGED blockers
      /\ operations' = [o \in Operations |-> IF ended(o) THEN [operations[o] EXCEPT !.step = "dropped"]
                                                         ELSE operations[o]]
      /\ queue' = [queue EXCEPT ![p] = <<>>]
  BY DEF KillProcess
<1>2. \A o \in Operations :
          \/ ~ended(o) /\ operations'[o] = operations[o]
          \/ ended(o) /\ operations'[o] = [operations[o] EXCEPT !.step = "dropped"]
  BY <1>1
<1>3. \A o \in Operations : ended(o) =>
          /\ operations[o] # Unissued /\ operations'[o] \in OperationRecords
          /\ operations'[o].step = "dropped" /\ operations'[o].process = operations[o].process
          /\ operations'[o] # Unissued
  <2> SUFFICES ASSUME NEW o \in Operations, ended(o)
               PROVE  /\ operations[o] # Unissued /\ operations'[o] \in OperationRecords
                      /\ operations'[o].step = "dropped"
                      /\ operations'[o].process = operations[o].process
                      /\ operations'[o] # Unissued
    OBVIOUS
  <2>1. operations[o] # Unissued /\ operations[o] \in OperationRecords
    BY IssuedShape DEF StoreInv, Unsettled, UnsettledSteps
  <2>2. operations'[o] = [operations[o] EXCEPT !.step = "dropped"]
    BY <1>2
  <2>3. /\ operations'[o] \in OperationRecords /\ operations'[o].step = "dropped"
        /\ operations'[o].process = operations[o].process
    BY <2>1, <2>2 DEF OperationRecords
  <2> QED BY <2>1, <2>3 DEF Unissued
<1>4. \A o \in Operations : operations'[o].step \in UnsettledSteps =>
          operations'[o] = operations[o] /\ operations[o].process \in Processes \ {p}
  <2> SUFFICES ASSUME NEW o \in Operations, operations'[o].step \in UnsettledSteps
               PROVE  operations'[o] = operations[o] /\ operations[o].process \in Processes \ {p}
    OBVIOUS
  <2>1. ~ended(o) /\ operations'[o] = operations[o]
    BY <1>2, <1>3 DEF UnsettledSteps
  <2>2. operations[o].process \in Processes
    BY <2>1, IssuedShape DEF StoreInv, OperationRecords, UnsettledSteps
  <2> QED BY <2>1, <2>2 DEF Unsettled
<1>5. queue' \in [Processes -> Seq(Operations)] /\ \A q \in Processes \ {p} : queue'[q] = queue[q]
  BY <1>1, EmptySeq DEF StoreInv, StoreTypeOK
<1>6. StoreTypeOK'
  <2>1. \A o \in Operations : operations'[o] \in {Unissued} \cup OperationRecords
    BY <1>2, <1>3 DEF StoreInv, StoreTypeOK, OperationRecords
  <2>2. operations' \in [Operations -> {Unissued} \cup OperationRecords]
    BY <1>1, <2>1
  <2> QED BY <1>1, <1>5, <2>2 DEF StoreInv, StoreTypeOK, OperationRecords
<1>7. ActiveIsHead' /\ WaitingQueued' /\ SleepersMayRetry'
  BY <1>4, <1>5 DEF StoreInv, ActiveIsHead, WaitingQueued, SleepersMayRetry, ActiveSteps, UnsettledSteps
<1>8. UnissuedUnblocked' /\ LockedOutByOther'
  BY <1>1, <1>2, <1>3 DEF StoreInv, UnissuedUnblocked, LockedOutByOther
<1> QED BY <1>6, <1>7, <1>8 DEF StoreInv

LEMMA StoreStepInv ==
    ASSUME StoreInv, [StoreNext]_storeVars
    PROVE  StoreInv'
<1>1. ASSUME NEW o \in Operations, OperationStep(o) PROVE StoreInv'
  BY <1>1, StartOperationInv, OpenStoreInv, FindLockedInv, RetryOperationInv, CloseStoreInv
     DEF OperationStep
<1>2. CASE UNCHANGED storeVars
  BY <1>2 DEF storeVars, StoreInv, StoreTypeOK, ActiveIsHead, WaitingQueued, UnissuedUnblocked,
              SleepersMayRetry, LockedOutByOther
<1> QED BY <1>1, <1>2, RunExclusiveInv, KillProcessInv DEF StoreNext

-----------------------------------------------------------------------------
(* Theorems *)

\* However many processes and operations there are and however often one retries, an operation
\* is kept out of the database by other processes only (cli/src/index.ts:107-148).
THEOREM StoreLockedOutByOther == StoreSpec => []LockedOutByOther
<1>1. StoreInv => LockedOutByOther
  BY DEF StoreInv
<1> QED BY <1>1, StoreInitInv, StoreStepInv, PTL DEF StoreSpec

=============================================================================
