---------------------------- MODULE TxQueueProofs ----------------------------
(***************************************************************************)
(* Proofs about TxQueue, for any jobs and any number of faults.            *)
(***************************************************************************)
EXTENDS TxQueue, SequenceTheorems, TLAPS

USE QueueAssumption DEF QueueAssumption

\* The drain of the moment is the only one.
OneDrain == \A d, e \in Jobs : drains[d] # NoDrain /\ drains[e] # NoDrain => d = e

\* A job is inserted once.
InsertingAbsent == \A job \in inserting : jobs[job] = "absent"

\* The tasks that wait are of distinct jobs that are queued and were not executed.
TasksFresh ==
    /\ \A i \in 1 .. Len(tasks) : jobs[tasks[i]] = "queued" /\ execution[tasks[i]] = "waiting"
    /\ \A i, k \in 1 .. Len(tasks) : i # k => tasks[i] # tasks[k]

\* What a drain's step says of the job it deals with.
DrainKnows ==
    \A d \in Jobs : drains[d] # NoDrain =>
        LET task == drains[d].task
        IN /\ \A i \in 1 .. Len(tasks) : tasks[i] # task
           /\ drains[d].step = "marking" => jobs[task] = "queued" /\ execution[task] = "waiting"
           /\ drains[d].step = "executing" => jobs[task] = "running" /\ execution[task] = "started"
           /\ drains[d].step = "recording_success" => jobs[task] = "running" /\ execution[task] = "returned"
           /\ drains[d].step = "recording_failure" => /\ jobs[task] \in {"running", "succeeded"}
                                                      /\ execution[task] \in {"returned", "threw"}

\* What is started is what the drain awaits.
StartedAwaited ==
    \A job \in Jobs : execution[job] = "started" =>
        \E d \in Jobs : drains[d].step = "executing" /\ drains[d].task = job

AbsentUnexecuted == \A job \in Jobs : jobs[job] = "absent" => execution[job] = "waiting"

QueueInv ==
    /\ QueueTypeOK
    /\ OneDrain
    /\ InsertingAbsent
    /\ TasksFresh
    /\ DrainKnows
    /\ StartedAwaited
    /\ AbsentUnexecuted
    /\ TasksAttended

-----------------------------------------------------------------------------
(* Lemmas *)

\* A drain that awaits something is no NoDrain, and one that executes is executing a job.
LEMMA DrainShape ==
    ASSUME QueueTypeOK, NEW d \in Jobs
    PROVE  /\ drains[d] # NoDrain => drains[d].step \in Steps /\ drains[d].task \in Jobs
           /\ drains[d].step \in Steps => drains[d] # NoDrain
<1>1. drains[d] = NoDrain \/ drains[d] \in [step : Steps, task : Jobs]
  BY DEF QueueTypeOK, Drains
<1>2. NoDrain.step = "none" /\ "none" \notin Steps
  BY DEF NoDrain, Steps
<1> QED BY <1>1, <1>2

LEMMA QueueInitInv == QueueInit => QueueInv
<1> SUFFICES ASSUME QueueInit PROVE QueueInv
  OBVIOUS
<1>1. QueueTypeOK
  <2>1. tasks \in Seq(Jobs)
    BY EmptySeq DEF QueueInit
  <2>2. drains \in [Jobs -> Drains]
    BY DEF QueueInit, Drains
  <2>3. jobs \in [Jobs -> JobStatuses] /\ processing \in BOOLEAN /\ inserting \subseteq Jobs
    BY DEF QueueInit, JobStatuses
  <2>4. queueFaults \in 0 .. MaxQueueFaults
    BY DEF QueueInit
  <2>5. execution \in [Jobs -> {"waiting", "started", "returned", "threw", "interrupted"}]
    BY DEF QueueInit
  <2> QED BY <2>1, <2>2, <2>3, <2>4, <2>5 DEF QueueTypeOK
<1>2. NoDrain.step = "none"
  BY DEF NoDrain
<1>3. OneDrain /\ InsertingAbsent /\ TasksFresh /\ DrainKnows /\ TasksAttended
  BY DEF QueueInit, OneDrain, InsertingAbsent, TasksFresh, DrainKnows, TasksAttended
<1>4. StartedAwaited /\ AbsentUnexecuted
  BY DEF QueueInit, StartedAwaited, AbsentUnexecuted
<1> QED BY <1>1, <1>3, <1>4 DEF QueueInv

\* The exit of the process leaves nothing in memory.
LEMMA ExitInv ==
    ASSUME QueueInv, Exit, queueFaults' \in 1 .. MaxQueueFaults,
           jobs' \in [Jobs -> JobStatuses],
           \A job \in Jobs : jobs'[job] = "absent" => jobs[job] = "absent"
    PROVE  QueueInv'
<1>1. QueueTypeOK'
  <2>1. tasks' \in Seq(Jobs)
    BY EmptySeq DEF Exit
  <2>2. drains' \in [Jobs -> Drains]
    BY DEF Exit, Drains
  <2>3. execution' \in [Jobs -> {"waiting", "started", "returned", "threw", "interrupted"}]
    BY DEF QueueInv, QueueTypeOK, Exit
  <2>4. inserting' \subseteq Jobs /\ processing' \in BOOLEAN
    BY DEF Exit
  <2> QED BY <2>1, <2>2, <2>3, <2>4 DEF QueueTypeOK
<1>2. \A d \in Jobs : drains'[d] = NoDrain
  BY DEF Exit
<1>3. OneDrain' /\ InsertingAbsent' /\ DrainKnows' /\ TasksAttended'
  BY <1>2 DEF Exit, OneDrain, InsertingAbsent, DrainKnows, TasksAttended
<1>4. TasksFresh'
  BY DEF Exit, TasksFresh
<1>5. StartedAwaited'
  BY DEF Exit, StartedAwaited
<1>6. AbsentUnexecuted'
  BY DEF Exit, AbsentUnexecuted, QueueInv
<1> QED BY <1>1, <1>3, <1>4, <1>5, <1>6 DEF QueueInv

\* A drain that has dealt with its task and takes the next one, or is done.
LEMMA ProceedInv ==
    ASSUME QueueInv, NEW d \in Jobs, Proceed(d),
           drains[d].step \in {"recording_success", "recording_failure"},
           NEW status \in {"succeeded", "failed"}, Recorded(d, status),
           UNCHANGED <<inserting, execution, queueFaults>>
    PROVE  QueueInv'
<1> DEFINE task == drains[d].task
<1>0. /\ drains[d] # NoDrain
      /\ task \in Jobs
      /\ jobs[task] # "absent" /\ execution[task] # "started"
      /\ \A i \in 1 .. Len(tasks) : tasks[i] # task
  BY DrainShape DEF QueueInv, DrainKnows, Steps
<1>1. \A e \in Jobs : e # d => drains[e] = NoDrain
  BY <1>0 DEF QueueInv, OneDrain
<1>2. jobs' = [jobs EXCEPT ![task] = status] /\ jobs' \in [Jobs -> JobStatuses]
  BY <1>0 DEF Recorded, QueueInv, QueueTypeOK, JobStatuses
<1>3. InsertingAbsent'
  BY <1>0, <1>2 DEF QueueInv, QueueTypeOK, InsertingAbsent
<1>4. ASSUME NEW job \in Jobs, execution[job] = "started"
      PROVE  FALSE
  <2>1. PICK e \in Jobs : drains[e].step = "executing" /\ drains[e].task = job
    BY <1>4 DEF QueueInv, StartedAwaited
  <2>2. drains[e] # NoDrain
    BY <2>1, DrainShape DEF QueueInv, Steps
  <2> QED BY <1>1, <2>1, <2>2
<1>5. StartedAwaited' /\ AbsentUnexecuted'
  BY <1>0, <1>2, <1>4 DEF StartedAwaited, AbsentUnexecuted, QueueInv, QueueTypeOK
<1>6. CASE tasks = <<>>
  <2>1. tasks' = <<>> /\ processing' = FALSE /\ drains' = [drains EXCEPT ![d] = NoDrain]
    BY <1>6 DEF Proceed
  <2>2. QueueTypeOK'
    BY <1>2, <2>1, <1>6 DEF QueueInv, QueueTypeOK, Drains
  <2>3. \A e \in Jobs : drains'[e] = NoDrain
    BY <1>1, <2>1 DEF QueueInv, QueueTypeOK
  <2>4. OneDrain' /\ DrainKnows' /\ TasksAttended'
    BY <2>1, <2>3 DEF OneDrain, DrainKnows, TasksAttended
  <2>5. TasksFresh'
    BY <2>1 DEF TasksFresh
  <2> QED BY <1>3, <1>5, <2>2, <2>4, <2>5 DEF QueueInv
<1>7. CASE tasks # <<>>
  <2>1. /\ tasks' = Tail(tasks)
        /\ drains' = [drains EXCEPT ![d] = [step |-> "marking", task |-> Head(tasks)]]
        /\ UNCHANGED processing
    BY <1>7 DEF Proceed
  <2>2. tasks \in Seq(Jobs)
    BY DEF QueueInv, QueueTypeOK
  <2>3. /\ Head(tasks) \in Jobs /\ Head(tasks) = tasks[1] /\ Len(tasks) \in Nat \ {0}
        /\ tasks' \in Seq(Jobs) /\ Len(tasks') = Len(tasks) - 1
        /\ \A i \in 1 .. Len(tasks') : tasks'[i] = tasks[i + 1]
    BY <1>7, <2>1, <2>2, HeadTailProperties, EmptySeq
  <2>4. [step |-> "marking", task |-> Head(tasks)] \in Drains
    BY <2>3 DEF Drains, Steps
  <2>5. QueueTypeOK'
    BY <1>2, <2>1, <2>3, <2>4 DEF QueueInv, QueueTypeOK
  <2>6. /\ drains'[d] = [step |-> "marking", task |-> tasks[1]]
        /\ \A e \in Jobs : e # d => drains'[e] = NoDrain
    BY <1>1, <2>1, <2>3 DEF QueueInv, QueueTypeOK
  <2>7. OneDrain'
    BY <2>6 DEF OneDrain
  <2>8. TasksFresh'
    <3>1. ASSUME NEW i \in 1 .. Len(tasks')
          PROVE  /\ i + 1 \in 1 .. Len(tasks) /\ tasks'[i] = tasks[i + 1]
                 /\ tasks[i + 1] \in Jobs /\ tasks[i + 1] # task
                 /\ jobs[tasks[i + 1]] = "queued" /\ execution[tasks[i + 1]] = "waiting"
      <4>1. i + 1 \in 1 .. Len(tasks) /\ tasks'[i] = tasks[i + 1]
        BY <2>3
      <4> QED BY <4>1, <1>0, <2>2 DEF QueueInv, TasksFresh
    <3>2. \A i \in 1 .. Len(tasks') : jobs'[tasks'[i]] = "queued" /\ execution'[tasks'[i]] = "waiting"
      BY <1>0, <1>2, <3>1 DEF QueueInv, QueueTypeOK
    <3>3. \A i, k \in 1 .. Len(tasks') : i # k => tasks'[i] # tasks'[k]
      <4> SUFFICES ASSUME NEW i \in 1 .. Len(tasks'), NEW k \in 1 .. Len(tasks'), i # k
                   PROVE  tasks'[i] # tasks'[k]
        OBVIOUS
      <4>1. i + 1 # k + 1
        BY <2>3
      <4> QED BY <3>1, <4>1 DEF QueueInv, TasksFresh
    <3> QED BY <3>2, <3>3 DEF TasksFresh
  <2>9. DrainKnows'
    BY <1>0, <1>2, <2>3, <2>6 DEF QueueInv, QueueTypeOK, TasksFresh, DrainKnows
  <2>10. processing
    BY <1>0 DEF QueueInv, TasksAttended
  <2>11. drains'[d] # NoDrain
    BY <2>6 DEF NoDrain
  <2>12. TasksAttended'
    BY <2>1, <2>10, <2>11 DEF TasksAttended
  <2> QED BY <1>3, <1>5, <2>5, <2>7, <2>8, <2>9, <2>12 DEF QueueInv
<1> QED BY <1>6, <1>7

\* A drain that rejects, while its task is not being executed.
LEMMA RejectInv ==
    ASSUME QueueInv, NEW d \in Jobs, Reject(d), Fault,
           drains[d].step \in {"marking", "recording_failure"},
           NEW status \in {"running", "failed"}, RecordedOrNot(d, status)
    PROVE  QueueInv'
<1> DEFINE task == drains[d].task
<1>0. /\ drains[d] # NoDrain
      /\ task \in Jobs
      /\ jobs[task] # "absent"
      /\ \A i \in 1 .. Len(tasks) : tasks[i] # task
  BY DrainShape DEF QueueInv, DrainKnows, Steps
<1>1. \A e \in Jobs : e # d => drains[e] = NoDrain
  BY <1>0 DEF QueueInv, OneDrain
<1>2. /\ jobs' \in [Jobs -> JobStatuses]
      /\ \A job \in Jobs : job # task => jobs'[job] = jobs[job]
      /\ \A job \in Jobs : jobs'[job] = "absent" => jobs[job] = "absent"
  BY <1>0 DEF RecordedOrNot, Recorded, QueueInv, QueueTypeOK, JobStatuses
<1>3. queueFaults' \in 1 .. MaxQueueFaults
  BY DEF Fault, QueueInv, QueueTypeOK
<1>4. CASE Exit
  BY <1>2, <1>3, <1>4, ExitInv
<1>5. CASE /\ processing' = FALSE
           /\ drains' = [drains EXCEPT ![d] = NoDrain]
           /\ UNCHANGED <<inserting, tasks, execution>>
  <2>1. \A e \in Jobs : drains'[e] = NoDrain
    BY <1>1, <1>5 DEF QueueInv, QueueTypeOK
  <2>2. QueueTypeOK'
    <3>1. drains' \in [Jobs -> Drains]
      BY <1>5 DEF QueueInv, QueueTypeOK, Drains
    <3>2. queueFaults' \in 0 .. MaxQueueFaults
      BY <1>3
    <3> QED BY <1>2, <1>5, <3>1, <3>2 DEF QueueInv, QueueTypeOK
  <2>3. OneDrain' /\ DrainKnows'
    BY <2>1 DEF OneDrain, DrainKnows
  <2>4. TasksAttended'
    BY <1>3, <1>5, <2>1 DEF TasksAttended
  <2>5. InsertingAbsent'
    BY <1>0, <1>2, <1>5 DEF QueueInv, QueueTypeOK, InsertingAbsent
  <2>6. TasksFresh'
    BY <1>0, <1>2, <1>5 DEF QueueInv, QueueTypeOK, TasksFresh
  <2>7. StartedAwaited'
    <3> SUFFICES ASSUME NEW job \in Jobs, execution[job] = "started"
                 PROVE  FALSE
      BY <1>5 DEF StartedAwaited
    <3>1. PICK e \in Jobs : drains[e].step = "executing" /\ drains[e].task = job
      BY DEF QueueInv, StartedAwaited
    <3>2. drains[e] # NoDrain
      BY <3>1, DrainShape DEF QueueInv, Steps
    <3> QED BY <1>1, <3>1, <3>2
  <2>8. AbsentUnexecuted'
    BY <1>2, <1>5 DEF QueueInv, AbsentUnexecuted
  <2> QED BY <2>2, <2>3, <2>4, <2>5, <2>6, <2>7, <2>8 DEF QueueInv
<1> QED BY <1>4, <1>5 DEF Reject

\* A job is enqueued, or its insert fails: the tasks and the drain are left alone.
LEMMA EnqueueInv ==
    ASSUME QueueInv, NEW job \in Jobs, Enqueue(job) \/ InsertFails(job)
    PROVE  QueueInv'
<1>1. /\ jobs[job] = "absent" /\ UNCHANGED <<tasks, processing, drains, execution>>
      /\ jobs' \in [Jobs -> JobStatuses]
      /\ \A j \in Jobs : j # job => jobs'[j] = jobs[j]
      /\ inserting' \subseteq Jobs
      /\ queueFaults' \in queueFaults .. MaxQueueFaults
  BY DEF Enqueue, InsertFails, Fault, QueueInv, QueueTypeOK, JobStatuses
<1>2. QueueTypeOK'
  BY <1>1 DEF QueueInv, QueueTypeOK
<1>3. InsertingAbsent'
  <2>1. CASE Enqueue(job)
    BY <2>1 DEF Enqueue, QueueInv, InsertingAbsent
  <2>2. CASE InsertFails(job)
    BY <1>1, <2>2 DEF InsertFails, QueueInv, QueueTypeOK, InsertingAbsent
  <2> QED BY <2>1, <2>2
<1>4. OneDrain' /\ StartedAwaited' /\ TasksAttended'
  BY <1>1 DEF QueueInv, QueueTypeOK, OneDrain, StartedAwaited, TasksAttended
<1>5. TasksFresh'
  <2>1. \A i \in 1 .. Len(tasks) : tasks[i] \in Jobs /\ tasks[i] # job
    BY <1>1 DEF QueueInv, QueueTypeOK, TasksFresh
  <2> QED BY <1>1, <2>1 DEF QueueInv, TasksFresh
<1>6. DrainKnows'
  <2>1. \A d \in Jobs : drains[d] # NoDrain =>
            drains[d].task \in Jobs /\ drains[d].step \in Steps /\ drains[d].task # job
    BY <1>1, DrainShape DEF QueueInv, DrainKnows, Steps
  <2> QED BY <1>1, <2>1 DEF QueueInv, DrainKnows
<1>7. AbsentUnexecuted'
  BY <1>1 DEF QueueInv, QueueTypeOK, AbsentUnexecuted
<1> QED BY <1>2, <1>3, <1>4, <1>5, <1>6, <1>7 DEF QueueInv

\* The sequence of tasks with one more.
LEMMA PushedTasks ==
    ASSUME QueueInv, NEW job \in Jobs, jobs[job] = "absent"
    PROVE  /\ Append(tasks, job) \in Seq(Jobs)
           /\ Len(Append(tasks, job)) = Len(tasks) + 1 /\ Len(tasks) \in Nat
           /\ \A i \in 1 .. Len(tasks) : Append(tasks, job)[i] = tasks[i] /\ tasks[i] # job
           /\ Append(tasks, job)[Len(tasks) + 1] = job
           /\ \A i, k \in 1 .. Len(tasks) + 1 : i # k => Append(tasks, job)[i] # Append(tasks, job)[k]
<1>1. tasks \in Seq(Jobs)
  BY DEF QueueInv, QueueTypeOK
<1>2. \A i \in 1 .. Len(tasks) : tasks[i] # job
  BY DEF QueueInv, TasksFresh
<1>3. /\ Append(tasks, job) \in Seq(Jobs) /\ Len(tasks) \in Nat
      /\ Len(Append(tasks, job)) = Len(tasks) + 1
      /\ \A i \in 1 .. Len(tasks) : Append(tasks, job)[i] = tasks[i]
      /\ Append(tasks, job)[Len(tasks) + 1] = job
  BY <1>1, AppendProperties
<1>4. ASSUME NEW i \in 1 .. Len(tasks) + 1, NEW k \in 1 .. Len(tasks) + 1, i # k
      PROVE  Append(tasks, job)[i] # Append(tasks, job)[k]
  <2>1. CASE i \in 1 .. Len(tasks) /\ k \in 1 .. Len(tasks)
    BY <1>3, <1>4, <2>1 DEF QueueInv, TasksFresh
  <2>2. CASE i = Len(tasks) + 1 /\ k \in 1 .. Len(tasks)
    BY <1>2, <1>3, <2>2
  <2>3. CASE k = Len(tasks) + 1 /\ i \in 1 .. Len(tasks)
    BY <1>2, <1>3, <2>3
  <2> QED BY <1>3, <1>4, <2>1, <2>2, <2>3
<1> QED BY <1>2, <1>3, <1>4

LEMMA InsertInv ==
    ASSUME QueueInv, NEW job \in Jobs, Insert(job)
    PROVE  QueueInv'
<1> DEFINE pushed == Append(tasks, job)
<1>0. /\ jobs[job] = "absent" /\ job \in inserting
      /\ jobs' = [jobs EXCEPT ![job] = "queued"] /\ inserting' = inserting \ {job}
      /\ UNCHANGED <<execution, queueFaults>>
  BY DEF Insert
<1>1. /\ pushed \in Seq(Jobs) /\ Len(pushed) = Len(tasks) + 1 /\ Len(tasks) \in Nat
      /\ \A i \in 1 .. Len(tasks) : pushed[i] = tasks[i] /\ tasks[i] # job
      /\ pushed[Len(tasks) + 1] = job
      /\ \A i, k \in 1 .. Len(tasks) + 1 : i # k => pushed[i] # pushed[k]
  BY <1>0, PushedTasks
<1>2. /\ jobs' \in [Jobs -> JobStatuses] /\ jobs'[job] = "queued"
      /\ \A j \in Jobs : j # job => jobs'[j] = jobs[j]
  BY <1>0 DEF QueueInv, QueueTypeOK, JobStatuses
<1>3. execution[job] = "waiting"
  BY <1>0 DEF QueueInv, AbsentUnexecuted
<1>4. \A i \in 1 .. Len(pushed) : jobs'[pushed[i]] = "queued" /\ execution[pushed[i]] = "waiting"
  <2> SUFFICES ASSUME NEW i \in 1 .. Len(tasks) + 1
               PROVE  jobs'[pushed[i]] = "queued" /\ execution[pushed[i]] = "waiting"
    BY <1>1
  <2>1. CASE i = Len(tasks) + 1
    BY <1>1, <1>2, <1>3, <2>1
  <2>2. CASE i \in 1 .. Len(tasks)
    <3>1. tasks[i] \in Jobs /\ jobs[tasks[i]] = "queued" /\ execution[tasks[i]] = "waiting"
      BY <2>2 DEF QueueInv, QueueTypeOK, TasksFresh
    <3> QED BY <1>1, <1>2, <2>2, <3>1
  <2> QED BY <1>1, <2>1, <2>2
<1>5. InsertingAbsent'
  BY <1>0, <1>2 DEF QueueInv, QueueTypeOK, InsertingAbsent
<1>6. \A d \in Jobs : drains[d] # NoDrain =>
          drains[d].task \in Jobs /\ drains[d].step \in Steps /\ drains[d].task # job
  BY <1>0, DrainShape DEF QueueInv, DrainKnows, Steps
<1>7. AbsentUnexecuted'
  BY <1>0, <1>2 DEF QueueInv, AbsentUnexecuted
<1>8. CASE processing /\ tasks' = pushed /\ UNCHANGED <<processing, drains>>
  <2>1. QueueTypeOK'
    BY <1>0, <1>1, <1>2, <1>8 DEF QueueInv, QueueTypeOK
  <2>2. OneDrain' /\ StartedAwaited' /\ TasksAttended'
    BY <1>0, <1>8 DEF QueueInv, OneDrain, StartedAwaited, TasksAttended
  <2>3. TasksFresh'
    BY <1>0, <1>1, <1>4, <1>8, SMTT(30) DEF TasksFresh
  <2>4. DrainKnows'
    <3> SUFFICES ASSUME NEW d \in Jobs, drains[d] # NoDrain
                 PROVE  (LET task == drains[d].task
                         IN /\ \A i \in 1 .. Len(pushed) : pushed[i] # task
                            /\ drains[d].step = "marking" => jobs'[task] = "queued" /\ execution[task] = "waiting"
                            /\ drains[d].step = "executing" => jobs'[task] = "running" /\ execution[task] = "started"
                            /\ drains[d].step = "recording_success" => jobs'[task] = "running" /\ execution[task] = "returned"
                            /\ drains[d].step = "recording_failure" => /\ jobs'[task] \in {"running", "succeeded"}
                                                                       /\ execution[task] \in {"returned", "threw"})
      BY <1>0, <1>8 DEF DrainKnows
    <3>1. jobs'[drains[d].task] = jobs[drains[d].task]
      BY <1>2, <1>6
    <3>2. \A i \in 1 .. Len(pushed) : pushed[i] # drains[d].task
      BY <1>1, <1>6 DEF QueueInv, DrainKnows
    <3> QED BY <3>1, <3>2 DEF QueueInv, DrainKnows
  <2> QED BY <1>5, <1>7, <2>1, <2>2, <2>3, <2>4 DEF QueueInv
<1>9. CASE /\ ~processing /\ processing' = TRUE
           /\ tasks' = Tail(pushed)
           /\ drains' = [drains EXCEPT ![job] = [step |-> "marking", task |-> Head(pushed)]]
  <2>1. /\ Head(pushed) \in Jobs /\ Head(pushed) = pushed[1]
        /\ tasks' \in Seq(Jobs) /\ Len(tasks') = Len(tasks)
        /\ \A i \in 1 .. Len(tasks') : tasks'[i] = pushed[i + 1]
    BY <1>1, <1>9, HeadTailProperties, EmptySeq
  <2>2. \A d \in Jobs : drains[d] = NoDrain
    BY <1>9 DEF QueueInv, TasksAttended
  <2>3. [step |-> "marking", task |-> Head(pushed)] \in Drains
    BY <2>1 DEF Drains, Steps
  <2>4. QueueTypeOK'
    BY <1>0, <1>2, <1>9, <2>1, <2>3 DEF QueueInv, QueueTypeOK
  <2>5. /\ drains'[job] = [step |-> "marking", task |-> pushed[1]]
        /\ \A d \in Jobs : d # job => drains'[d] = NoDrain
    BY <1>9, <2>1, <2>2 DEF QueueInv, QueueTypeOK
  <2>6. OneDrain'
    BY <2>5 DEF OneDrain
  <2>7. StartedAwaited'
    <3> SUFFICES ASSUME NEW j \in Jobs, execution[j] = "started" PROVE FALSE
      BY <1>0 DEF StartedAwaited
    <3>1. PICK d \in Jobs : drains[d].step = "executing"
      BY DEF QueueInv, StartedAwaited
    <3>2. drains[d] # NoDrain
      BY <3>1, DrainShape DEF QueueInv, Steps
    <3> QED BY <2>2, <3>2
  <2>8. \A i \in 1 .. Len(tasks') : i + 1 \in 1 .. Len(pushed) /\ tasks'[i] = pushed[i + 1]
    BY <1>1, <2>1
  <2>9. TasksFresh'
    <3>1. \A i \in 1 .. Len(tasks') : jobs'[tasks'[i]] = "queued" /\ execution'[tasks'[i]] = "waiting"
      BY <1>0, <1>4, <2>8
    <3>2. \A i, k \in 1 .. Len(tasks') : i # k => tasks'[i] # tasks'[k]
      <4> SUFFICES ASSUME NEW i \in 1 .. Len(tasks'), NEW k \in 1 .. Len(tasks'), i # k
                   PROVE  tasks'[i] # tasks'[k]
        OBVIOUS
      <4>1. i + 1 # k + 1
        BY <1>1, <2>1
      <4>2. pushed[i + 1] # pushed[k + 1]
        BY <1>1, <2>8, <4>1
      <4> QED BY <2>8, <4>2
    <3> QED BY <3>1, <3>2 DEF TasksFresh
  <2>10. DrainKnows'
    <3>1. \A i \in 1 .. Len(tasks') : tasks'[i] # pushed[1]
      <4> SUFFICES ASSUME NEW i \in 1 .. Len(tasks') PROVE tasks'[i] # pushed[1]
        OBVIOUS
      <4>1. i + 1 # 1 /\ 1 \in 1 .. Len(tasks) + 1
        BY <1>1, <2>1
      <4> QED BY <1>1, <2>8, <4>1
    <3>2. jobs'[pushed[1]] = "queued" /\ execution'[pushed[1]] = "waiting"
      BY <1>0, <1>1, <1>4
    <3> QED BY <2>5, <3>1, <3>2 DEF DrainKnows
  <2>11. drains'[job] # NoDrain
    BY <2>5 DEF NoDrain
  <2>12. TasksAttended'
    BY <1>9, <2>11 DEF TasksAttended
  <2> QED BY <1>5, <1>7, <2>4, <2>6, <2>7, <2>9, <2>10, <2>12 DEF QueueInv
<1> QED BY <1>8, <1>9 DEF Insert

\* The job is marked running, its task settles, or its success is not recorded: the drain goes on
\* with the same task.
LEMMA AwaitInv ==
    ASSUME QueueInv, NEW d \in Jobs, Mark(d) \/ TaskSettles(d) \/ RecordSuccessFails(d)
    PROVE  QueueInv'
<1> DEFINE task == drains[d].task
<1>0. /\ drains[d] # NoDrain /\ task \in Jobs /\ jobs[task] # "absent"
      /\ drains[d] \in [step : Steps, task : Jobs]
      /\ \A i \in 1 .. Len(tasks) : tasks[i] \in Jobs /\ tasks[i] # task
  <2>1. drains[d].step \in Steps
    BY DEF Mark, TaskSettles, RecordSuccessFails, At, Steps
  <2>2. drains[d] # NoDrain /\ task \in Jobs
    BY <2>1, DrainShape DEF QueueInv
  <2>3. drains[d] \in [step : Steps, task : Jobs]
    BY <2>2 DEF QueueInv, QueueTypeOK, Drains
  <2>4. jobs[task] # "absent"
    BY <2>1, <2>2 DEF QueueInv, DrainKnows, Steps
  <2>5. \A i \in 1 .. Len(tasks) : tasks[i] \in Jobs /\ tasks[i] # task
    BY <2>2 DEF QueueInv, QueueTypeOK, DrainKnows
  <2> QED BY <2>2, <2>3, <2>4, <2>5
<1>1. \A e \in Jobs : e # d => drains[e] = NoDrain
  BY <1>0 DEF QueueInv, OneDrain
<1>2. PICK next \in Steps :
          /\ drains' = [drains EXCEPT ![d].step = next]
          /\ UNCHANGED <<inserting, tasks, processing>>
          /\ queueFaults' \in queueFaults .. MaxQueueFaults
          /\ jobs' \in [Jobs -> JobStatuses]
          /\ execution' \in [Jobs -> {"waiting", "started", "returned", "threw", "interrupted"}]
          /\ jobs'[task] # "absent"
          /\ \A job \in Jobs : job # task => jobs'[job] = jobs[job] /\ execution'[job] = execution[job]
          /\ \/ next = "executing" /\ jobs'[task] = "running" /\ execution'[task] = "started"
             \/ next = "recording_success" /\ jobs'[task] = "running" /\ execution'[task] = "returned"
             \/ /\ next = "recording_failure" /\ jobs'[task] \in {"running", "succeeded"}
                /\ execution'[task] \in {"returned", "threw"}
  <2>1. CASE Mark(d)
    <3>1. /\ jobs' = [jobs EXCEPT ![task] = "running"]
          /\ execution' = [execution EXCEPT ![task] = "started"]
          /\ drains' = [drains EXCEPT ![d].step = "executing"]
          /\ UNCHANGED <<inserting, tasks, processing, queueFaults>>
      BY <2>1 DEF Mark, Await, Recorded
    <3>2. /\ jobs' \in [Jobs -> JobStatuses] /\ jobs'[task] = "running"
          /\ execution' \in [Jobs -> {"waiting", "started", "returned", "threw", "interrupted"}]
          /\ execution'[task] = "started"
          /\ \A job \in Jobs : job # task => jobs'[job] = jobs[job] /\ execution'[job] = execution[job]
      BY <1>0, <3>1 DEF QueueInv, QueueTypeOK, JobStatuses
    <3>3. "executing" \in Steps /\ queueFaults' \in queueFaults .. MaxQueueFaults
      BY <3>1 DEF Steps, QueueInv, QueueTypeOK
    <3> QED BY <3>1, <3>2, <3>3
  <2>2. CASE TaskSettles(d)
    <3>1. jobs[task] = "running" /\ jobs' = jobs
      BY <1>0, <2>2 DEF TaskSettles, At, QueueInv, DrainKnows
    <3>2. PICK settled \in {[how |-> "returned", next |-> "recording_success"],
                            [how |-> "returned", next |-> "recording_failure"],
                            [how |-> "threw", next |-> "recording_failure"]} :
              execution' = [execution EXCEPT ![task] = settled.how]
              /\ drains' = [drains EXCEPT ![d].step = settled.next]
      BY <2>2 DEF TaskSettles, Await
    <3>3. /\ settled.next \in Steps /\ settled.how \in {"returned", "threw"}
          /\ \/ settled.next = "recording_success" /\ settled.how = "returned"
             \/ settled.next = "recording_failure"
      BY DEF Steps
    <3>4. /\ UNCHANGED <<inserting, tasks, processing>>
          /\ queueFaults' \in queueFaults .. MaxQueueFaults
      BY <2>2 DEF TaskSettles, QueueInv, QueueTypeOK
    <3>5. /\ execution' \in [Jobs -> {"waiting", "started", "returned", "threw", "interrupted"}]
          /\ execution'[task] = settled.how
          /\ \A job \in Jobs : job # task => execution'[job] = execution[job]
      BY <1>0, <3>2, <3>3 DEF QueueInv, QueueTypeOK
    <3> QED BY <3>1, <3>2, <3>3, <3>4, <3>5 DEF QueueInv, QueueTypeOK
  <2>3. CASE RecordSuccessFails(d)
    <3>1. jobs[task] = "running" /\ execution[task] = "returned"
      BY <1>0, <2>3 DEF RecordSuccessFails, At, QueueInv, DrainKnows
    <3>2. /\ jobs' = [jobs EXCEPT ![task] = "succeeded"] \/ jobs' = jobs
          /\ drains' = [drains EXCEPT ![d].step = "recording_failure"]
          /\ UNCHANGED <<inserting, tasks, processing, execution>>
      BY <2>3 DEF RecordSuccessFails, Await, RecordedOrNot, Recorded
    <3>3. /\ jobs' \in [Jobs -> JobStatuses] /\ jobs'[task] \in {"running", "succeeded"}
          /\ \A job \in Jobs : job # task => jobs'[job] = jobs[job]
      BY <1>0, <3>1, <3>2 DEF QueueInv, QueueTypeOK, JobStatuses
    <3>4. "recording_failure" \in Steps /\ queueFaults' \in queueFaults .. MaxQueueFaults
      BY <2>3 DEF RecordSuccessFails, Fault, Steps, QueueInv, QueueTypeOK
    <3>5. execution' \in [Jobs -> {"waiting", "started", "returned", "threw", "interrupted"}]
      BY <3>2 DEF QueueInv, QueueTypeOK
    <3> QED BY <3>1, <3>2, <3>3, <3>4, <3>5
  <2> QED BY <2>1, <2>2, <2>3
<1>3. /\ drains' \in [Jobs -> Drains]
      /\ drains'[d].step = next /\ drains'[d].task = task
      /\ \A e \in Jobs : e # d => drains'[e] = NoDrain
  <2>1. [drains[d] EXCEPT !.step = next] \in [step : Steps, task : Jobs]
    BY <1>0
  <2>2. drains' = [drains EXCEPT ![d] = [drains[d] EXCEPT !.step = next]]
    BY <1>2
  <2> QED BY <1>0, <1>1, <2>1, <2>2 DEF QueueInv, QueueTypeOK, Drains
<1>4. drains'[d] # NoDrain
  BY <1>3 DEF NoDrain, Steps
<1>5. QueueTypeOK'
  BY <1>2, <1>3 DEF QueueInv, QueueTypeOK
<1>6. OneDrain'
  BY <1>3 DEF OneDrain
<1>7. InsertingAbsent' /\ AbsentUnexecuted'
  BY <1>0, <1>2 DEF QueueInv, QueueTypeOK, InsertingAbsent, AbsentUnexecuted
<1>8. TasksFresh'
  BY <1>0, <1>2 DEF QueueInv, TasksFresh
<1>9. DrainKnows'
  BY <1>0, <1>2, <1>3 DEF DrainKnows
<1>10. TasksAttended'
  <2>1. processing
    BY <1>0 DEF QueueInv, TasksAttended
  <2> QED BY <1>2, <1>4, <2>1 DEF TasksAttended
<1>11. StartedAwaited'
  <2> SUFFICES ASSUME NEW job \in Jobs, execution'[job] = "started"
               PROVE  \E e \in Jobs : drains'[e].step = "executing" /\ drains'[e].task = job
    BY DEF StartedAwaited
  <2>1. CASE job = task
    BY <1>2, <1>3, <2>1
  <2>2. CASE job # task
    <3>1. execution[job] = "started"
      BY <1>2, <2>2
    <3>2. PICK e \in Jobs : drains[e].step = "executing" /\ drains[e].task = job
      BY <3>1 DEF QueueInv, StartedAwaited
    <3>3. drains[e] # NoDrain
      BY <3>2, DrainShape DEF QueueInv, Steps
    <3> QED BY <1>1, <2>2, <3>2, <3>3
  <2> QED BY <2>1, <2>2
<1> QED BY <1>5, <1>6, <1>7, <1>8, <1>9, <1>10, <1>11 DEF QueueInv

\* Every step of the queue keeps its invariant.
LEMMA QueueStepInv ==
    ASSUME QueueInv, [QueueNext]_queueVars
    PROVE  QueueInv'
<1>1. ASSUME NEW job \in Jobs, Enqueue(job) \/ InsertFails(job)
      PROVE  QueueInv'
  BY <1>1, EnqueueInv
<1>2. ASSUME NEW job \in Jobs, Insert(job)
      PROVE  QueueInv'
  BY <1>2, InsertInv
<1>3. ASSUME NEW d \in Jobs, Mark(d) \/ TaskSettles(d) \/ RecordSuccessFails(d)
      PROVE  QueueInv'
  BY <1>3, AwaitInv
<1>4. ASSUME NEW d \in Jobs, RecordSuccess(d)
      PROVE  QueueInv'
  BY <1>4, ProceedInv DEF RecordSuccess, At
<1>5. ASSUME NEW d \in Jobs, RecordFailure(d)
      PROVE  QueueInv'
  BY <1>5, ProceedInv DEF RecordFailure, At
<1>6. ASSUME NEW d \in Jobs, MarkFails(d)
      PROVE  QueueInv'
  BY <1>6, RejectInv DEF MarkFails, At
<1>7. ASSUME NEW d \in Jobs, RecordFailureFails(d)
      PROVE  QueueInv'
  BY <1>7, RejectInv DEF RecordFailureFails, At
<1>8. CASE QueueRestart
  <2>1. queueFaults' \in 1 .. MaxQueueFaults /\ jobs' = jobs /\ Exit
    BY <1>8 DEF QueueRestart, Fault, QueueInv, QueueTypeOK
  <2> QED BY <2>1, ExitInv DEF QueueInv, QueueTypeOK
<1>9. CASE UNCHANGED queueVars
  BY <1>9 DEF queueVars, QueueInv, QueueTypeOK, OneDrain, InsertingAbsent, TasksFresh, DrainKnows,
              StartedAwaited, AbsentUnexecuted, TasksAttended
<1> QED BY <1>1, <1>2, <1>3, <1>4, <1>5, <1>6, <1>7, <1>8, <1>9 DEF QueueNext, DrainStep

\* Every step of the queue is a step of what it promises, or none.
LEMMA QueueStepPromised ==
    ASSUME QueueInv, [QueueNext]_queueVars
    PROVE  [Promise!Next]_<<jobs, execution>>
<1> USE DEF Promise!Next, Promise!Accept, Promise!Begin, Promise!Settle, Promise!Report
\* While the drain does not execute a task, nothing is started, and an exit interrupts nothing.
<1>1. ASSUME NEW d \in Jobs, drains[d].step \in Steps \ {"executing"}
      PROVE  /\ drains[d].task \in Jobs /\ drains[d] # NoDrain
             /\ \A job \in Jobs : execution[job] # "started"
             /\ Exit => execution' = execution
  <2>1. drains[d] # NoDrain /\ drains[d].task \in Jobs
    BY <1>1, DrainShape DEF QueueInv
  <2>2. ASSUME NEW job \in Jobs, execution[job] = "started"
        PROVE  FALSE
    <3>1. PICK e \in Jobs : drains[e].step = "executing" /\ drains[e].task = job
      BY <2>2 DEF QueueInv, StartedAwaited
    <3>2. drains[e] # NoDrain
      BY <3>1, DrainShape DEF QueueInv, Steps
    <3> QED BY <1>1, <2>1, <3>1, <3>2 DEF QueueInv, OneDrain
  <2>3. Exit => execution' = execution
    BY <2>2 DEF Exit, QueueInv, QueueTypeOK
  <2> QED BY <2>1, <2>2, <2>3
<1>2. ASSUME NEW job \in Jobs, Enqueue(job) \/ Insert(job) \/ InsertFails(job)
      PROVE  (\E j \in Jobs : Promise!Accept(j)) \/ UNCHANGED <<jobs, execution>>
  BY <1>2 DEF Enqueue, Insert, InsertFails
<1>3. ASSUME NEW d \in Jobs, Mark(d)
      PROVE  \E j \in Jobs : Promise!Begin(j)
  <2>1. drains[d].step = "marking" /\ "marking" \in Steps
    BY <1>3 DEF Mark, At, Steps
  <2>2. /\ drains[d].task \in Jobs /\ jobs[drains[d].task] = "queued" /\ execution[drains[d].task] = "waiting"
        /\ \A job \in Jobs : execution[job] # "started"
    BY <1>1, <2>1 DEF QueueInv, DrainKnows
  <2> QED BY <1>3, <2>2 DEF Mark, Recorded
<1>4. ASSUME NEW d \in Jobs, MarkFails(d)
      PROVE  (\E j \in Jobs : Promise!Begin(j)) \/ UNCHANGED <<jobs, execution>>
  <2>1. drains[d].step = "marking" /\ "marking" \in Steps
    BY <1>4 DEF MarkFails, At, Steps
  <2>2. /\ drains[d].task \in Jobs /\ jobs[drains[d].task] = "queued"
        /\ execution' = execution
    BY <1>1, <1>4, <2>1 DEF QueueInv, DrainKnows, MarkFails, Reject
  <2> QED BY <1>4, <2>2 DEF MarkFails, RecordedOrNot, Recorded
<1>5. ASSUME NEW d \in Jobs, TaskSettles(d)
      PROVE  \E j \in Jobs : Promise!Settle(j)
  <2>1. drains[d].step = "executing" /\ "executing" \in Steps
    BY <1>5 DEF TaskSettles, At, Steps
  <2>2. drains[d].task \in Jobs /\ execution[drains[d].task] = "started"
    BY <2>1, DrainShape DEF QueueInv, DrainKnows
  <2>3. PICK settled \in {[how |-> "returned", next |-> "recording_success"],
                          [how |-> "returned", next |-> "recording_failure"],
                          [how |-> "threw", next |-> "recording_failure"]} :
            execution' = [execution EXCEPT ![drains[d].task] = settled.how]
    BY <1>5 DEF TaskSettles
  <2>4. settled.how \in {"returned", "threw"} /\ UNCHANGED jobs
    BY <1>5 DEF TaskSettles
  <2> QED BY <2>2, <2>3, <2>4
<1>6. ASSUME NEW d \in Jobs, RecordSuccess(d) \/ RecordSuccessFails(d)
      PROVE  (\E j \in Jobs : Promise!Report(j)) \/ UNCHANGED <<jobs, execution>>
  <2>1. drains[d].step = "recording_success" /\ "recording_success" \in Steps
    BY <1>6 DEF RecordSuccess, RecordSuccessFails, At, Steps
  <2>2. /\ drains[d].task \in Jobs /\ jobs[drains[d].task] = "running"
        /\ execution[drains[d].task] = "returned"
    BY <1>1, <2>1 DEF QueueInv, DrainKnows
  <2> QED BY <1>6, <2>2 DEF RecordSuccess, RecordSuccessFails, RecordedOrNot, Recorded
<1>7. ASSUME NEW d \in Jobs, RecordFailure(d) \/ RecordFailureFails(d)
      PROVE  (\E j \in Jobs : Promise!Report(j)) \/ UNCHANGED <<jobs, execution>>
  <2>1. drains[d].step = "recording_failure" /\ "recording_failure" \in Steps
    BY <1>7 DEF RecordFailure, RecordFailureFails, At, Steps
  <2>2. /\ drains[d].task \in Jobs /\ jobs[drains[d].task] \in {"running", "succeeded"}
        /\ execution[drains[d].task] \in {"returned", "threw"}
        /\ execution' = execution
    BY <1>1, <1>7, <2>1 DEF QueueInv, DrainKnows, RecordFailure, RecordFailureFails, Reject
  <2> QED BY <1>7, <2>2 DEF RecordFailure, RecordFailureFails, RecordedOrNot, Recorded
<1>8. CASE QueueRestart
  BY <1>8 DEF QueueRestart, Exit, Promise!Interrupt
<1>9. CASE UNCHANGED queueVars
  BY <1>9 DEF queueVars
<1> QED BY <1>2, <1>3, <1>4, <1>5, <1>6, <1>7, <1>8, <1>9 DEF QueueNext, DrainStep

-----------------------------------------------------------------------------
(* Theorems *)

\* Whatever fails, tasks that wait have a drain unless there was a fault, and the flag is set
\* exactly while a drain runs (tx-queue.ts:86-99).
THEOREM QueueAttended == QueueSpec => []TasksAttended
<1>1. QueueInv => TasksAttended
  BY DEF QueueInv
<1> QED BY <1>1, QueueInitInv, QueueStepInv, PTL DEF QueueSpec

\* The queue implements JobQueue: at most one execution of every job, one at a time, and no success
\* reported of a job that did not return (tx-queue.ts:66-135).
THEOREM QueueKeepsPromise == QueueSpec => QueuePromise
<1>1. QueueInit => Promise!Init
  BY DEF QueueInit, Promise!Init
<1> QED BY <1>1, QueueInitInv, QueueStepInv, QueueStepPromised, PTL
    DEF QueueSpec, QueuePromise, Promise!Spec

=============================================================================
