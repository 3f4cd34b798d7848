------------------------------- MODULE TxQueue -------------------------------
(***************************************************************************)
(* The transaction queue of the backend,                                   *)
(* packages/backend/src/services/tx-queue.ts.  Jobs are documents of a     *)
(* collection, their tasks wait in memory, and every enqueue starts a      *)
(* drain, which returns at once when another one is processing.  An action *)
(* is the code between two awaits; drains[job] is the drain that the       *)
(* enqueue of job has started.                                             *)
(*                                                                         *)
(* A rejected drain is nobody's to catch (void this.drain()): by Node's    *)
(* default the process exits, with --unhandled-rejections=warn it goes on. *)
(***************************************************************************)
EXTENDS Naturals, Sequences

CONSTANTS Jobs,             \* the jobs that may be enqueued
          MaxQueueFaults    \* bound on failed updates and on restarts

ASSUME QueueAssumption == MaxQueueFaults \in Nat

VARIABLES jobs,          \* status of each job document
          inserting,     \* jobs whose insertOne is awaited
          tasks,         \* the tasks in memory
          processing,    \* the flag that lets one drain run
          drains,        \* what each drain awaits, and for which job
          execution,     \* what became of each job's task, outside the process
          queueFaults    \* failed updates and restarts so far

queueVars == <<jobs, inserting, tasks, processing, drains, execution, queueFaults>>

JobStatuses == {"absent", "queued", "running", "succeeded", "failed"}
Finished == {"succeeded", "failed"}
Steps == {"marking", "executing", "recording_success", "recording_failure"}
NoDrain == [step |-> "none"]
Drains == {NoDrain} \cup [step : Steps, task : Jobs]

QueueTypeOK ==
    /\ jobs \in [Jobs -> JobStatuses]
    /\ inserting \subseteq Jobs
    /\ tasks \in Seq(Jobs)
    /\ processing \in BOOLEAN
    /\ drains \in [Jobs -> Drains]
    /\ execution \in [Jobs -> {"waiting", "started", "returned", "threw", "interrupted"}]
    /\ queueFaults \in 0 .. MaxQueueFaults

QueueInit ==
    /\ jobs = [job \in Jobs |-> "absent"]
    /\ inserting = {}
    /\ tasks = <<>>
    /\ processing = FALSE
    /\ drains = [job \in Jobs |-> NoDrain]
    /\ execution = [job \in Jobs |-> "waiting"]
    /\ queueFaults = 0

\* What is in memory when the process has started again, and what the exit interrupts.
Exit ==
    /\ inserting' = {}
    /\ tasks' = <<>>
    /\ processing' = FALSE
    /\ drains' = [job \in Jobs |-> NoDrain]
    /\ execution' = [job \in Jobs |-> IF execution[job] = "started" THEN "interrupted"
                                                                    ELSE execution[job]]

Fault == queueFaults < MaxQueueFaults /\ queueFaults' = queueFaults + 1

\* randomUUID: a job is enqueued once.
Enqueue(job) ==
    /\ jobs[job] = "absent"
    /\ job \notin inserting
    /\ inserting' = inserting \cup {job}
    /\ UNCHANGED <<jobs, tasks, processing, drains, execution, queueFaults>>

\* Mutant of Insert: a drain does not look whether another one is processing.
InsertUnguarded(job) ==
    /\ job \in inserting
    /\ jobs[job] = "absent"
    /\ inserting' = inserting \ {job}
    /\ jobs' = [jobs EXCEPT ![job] = "queued"]
    /\ processing' = TRUE
    /\ tasks' = Tail(Append(tasks, job))
    /\ drains' = [drains EXCEPT ![job] = [step |-> "marking", task |-> Head(Append(tasks, job))]]
    /\ UNCHANGED <<execution, queueFaults>>

\* The task is pushed, and the drain it starts takes the first task unless one is running.
Insert(job) ==
    /\ job \in inserting
    /\ jobs[job] = "absent"
    /\ inserting' = inserting \ {job}
    /\ jobs' = [jobs EXCEPT ![job] = "queued"]
    /\ LET pushed == Append(tasks, job)
       IN \/ /\ processing
             /\ tasks' = pushed
             /\ UNCHANGED <<processing, drains>>
          \/ /\ ~processing
             /\ processing' = TRUE
             /\ tasks' = Tail(pushed)
             /\ drains' = [drains EXCEPT ![job] = [step |-> "marking", task |-> Head(pushed)]]
    /\ UNCHANGED <<execution, queueFaults>>

\* The insert is rejected, after it was applied or without; enqueue rejects and pushes nothing.
InsertFails(job) ==
    /\ job \in inserting
    /\ jobs[job] = "absent"
    /\ Fault
    /\ inserting' = inserting \ {job}
    /\ \/ jobs' = [jobs EXCEPT ![job] = "queued"]
       \/ UNCHANGED jobs
    /\ UNCHANGED <<tasks, processing, drains, execution>>

At(drain, step) == drains[drain].step = step
Await(drain, step) == drains' = [drains EXCEPT ![drain].step = step]

\* Mutant of Proceed: a drain deals with one task only.
ProceedOnce(drain) ==
    /\ processing' = FALSE
    /\ drains' = [drains EXCEPT ![drain] = NoDrain]
    /\ UNCHANGED tasks

\* The drain's next iteration, after its task was dealt with.
Proceed(drain) ==
    \/ /\ tasks = <<>>
       /\ processing' = FALSE
       /\ drains' = [drains EXCEPT ![drain] = NoDrain]
       /\ UNCHANGED tasks
    \/ /\ tasks # <<>>
       /\ tasks' = Tail(tasks)
       /\ drains' = [drains EXCEPT ![drain] = [step |-> "marking", task |-> Head(tasks)]]
       /\ UNCHANGED processing

\* Mutant of Reject: the flag is not reset in a finally.
RejectStuck(drain) ==
    \/ Exit
    \/ /\ drains' = [drains EXCEPT ![drain] = NoDrain]
       /\ UNCHANGED <<inserting, tasks, processing, execution>>

\* The drain rejects: its finally resets the flag, and nobody handles the rejection.
Reject(drain) ==
    \/ Exit
    \/ /\ processing' = FALSE
       /\ drains' = [drains EXCEPT ![drain] = NoDrain]
       /\ UNCHANGED <<inserting, tasks, execution>>

Recorded(drain, status) == jobs' = [jobs EXCEPT ![drains[drain].task] = status]
RecordedOrNot(drain, status) == Recorded(drain, status) \/ UNCHANGED jobs

\* The job is marked running and task.run() is called.
Mark(drain) ==
    /\ At(drain, "marking")
    /\ Recorded(drain, "running")
    /\ execution' = [execution EXCEPT ![drains[drain].task] = "started"]
    /\ Await(drain, "executing")
    /\ UNCHANGED <<inserting, tasks, processing, queueFaults>>

\* This update is outside the try: the task, already shifted, is lost.
MarkFails(drain) ==
    /\ At(drain, "marking")
    /\ Fault
    /\ RecordedOrNot(drain, "running")
    /\ Reject(drain)

\* The task throws, or returns; a result that cannot be serialised is dealt with like an error.
TaskSettles(drain) ==
    /\ At(drain, "executing")
    /\ \E settled \in {[how |-> "returned", next |-> "recording_success"],
                      [how |-> "returned", next |-> "recording_failure"],
                      [how |-> "threw", next |-> "recording_failure"]} :
         /\ execution' = [execution EXCEPT ![drains[drain].task] = settled.how]
         /\ Await(drain, settled.next)
    /\ UNCHANGED <<jobs, inserting, tasks, processing, queueFaults>>

RecordSuccess(drain) ==
    /\ At(drain, "recording_success")
    /\ Recorded(drain, "succeeded")
    /\ Proceed(drain)
    /\ UNCHANGED <<inserting, execution, queueFaults>>

\* Caught like an error of the task: the job is recorded as failed.
RecordSuccessFails(drain) ==
    /\ At(drain, "recording_success")
    /\ Fault
    /\ RecordedOrNot(drain, "succeeded")
    /\ Await(drain, "recording_failure")
    /\ UNCHANGED <<inserting, tasks, processing, execution>>

RecordFailure(drain) ==
    /\ At(drain, "recording_failure")
    /\ Recorded(drain, "failed")
    /\ Proceed(drain)
    /\ UNCHANGED <<inserting, execution, queueFaults>>

RecordFailureFails(drain) ==
    /\ At(drain, "recording_failure")
    /\ Fault
    /\ RecordedOrNot(drain, "failed")
    /\ Reject(drain)

\* A write in flight that is applied all the same is the write's own action, or MarkFails, before it.
QueueRestart == Fault /\ Exit /\ UNCHANGED jobs

DrainStep(drain) ==
    \/ Mark(drain) \/ TaskSettles(drain) \/ RecordSuccess(drain) \/ RecordFailure(drain)

QueueNext ==
    \/ \E job \in Jobs : Enqueue(job) \/ Insert(job) \/ InsertFails(job)
    \/ \E drain \in Jobs : \/ DrainStep(drain)
                           \/ MarkFails(drain) \/ RecordSuccessFails(drain)
                           \/ RecordFailureFails(drain)
    \/ QueueRestart

\* The event loop settles what is awaited; that tasks settle is up to the task (no timeout).
QueueFairness == \A drain \in Jobs : WF_queueVars(DrainStep(drain))

QueueSpec == QueueInit /\ [][QueueNext]_queueVars
-----------------------------------------------------------------------------
(* Properties *)

\* The queue keeps what JobQueue promises, whatever fails: at most one execution of a job, one
\* job at a time, and no success reported of a task that did not return.
Promise == INSTANCE JobQueue WITH status <- jobs, execution <- execution
QueuePromise == Promise!Spec

\* Tasks that wait have a drain that will get to them: the flag is set exactly while one drain
\* runs, so it never keeps every later drain out, and tasks are only left without a drain after
\* a fault (tx-queue.ts:86-99).
TasksAttended ==
    /\ processing <=> \E drain \in Jobs : drains[drain] # NoDrain
    /\ tasks # <<>> => processing \/ queueFaults > 0

\* Every accepted job is finished, and reported so, unless an update fails or the process exits
\* (tx-queue.ts:66-135).
QueuedFinishes ==
    []<>(queueFaults > 0 \/ \A job \in Jobs : jobs[job] \in Finished \cup {"absent"})

=============================================================================
