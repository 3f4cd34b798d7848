------------------------------ MODULE JobQueue ------------------------------
(***************************************************************************)
(* What the backend's transaction queue promises, abstracting from how     *)
(* tasks wait and who runs them: every accepted job is executed at most    *)
(* once, one job at a time, and success is only reported of a job whose    *)
(* execution returned.                                                     *)
(***************************************************************************)
CONSTANT Jobs

VARIABLES status,      \* what get(id) answers: the status in the job document
          execution    \* what became of the job's task

\* The job document is inserted.
Accept(job) ==
    /\ status[job] = "absent"
    /\ status' = [status EXCEPT ![job] = "queued"]
    /\ UNCHANGED execution

\* The job is marked running; its task is executed unless the update was not acknowledged.
Begin(job) ==
    /\ status[job] = "queued"
    /\ status' = [status EXCEPT ![job] = "running"]
    /\ \/ UNCHANGED execution
       \/ /\ execution[job] = "waiting"
          /\ \A other \in Jobs : execution[other] # "started"
          /\ execution' = [execution EXCEPT ![job] = "started"]

Settle(job) ==
    /\ execution[job] = "started"
    /\ \E outcome \in {"returned", "threw"} : execution' = [execution EXCEPT ![job] = outcome]
    /\ UNCHANGED status

\* A job that was executed may be reported failed all the same; a failure is final.
Report(job) ==
    /\ \/ /\ status[job] = "running"
          /\ execution[job] = "returned"
          /\ status' = [status EXCEPT ![job] = "succeeded"]
       \/ /\ status[job] \in {"running", "succeeded"}
          /\ execution[job] \in {"returned", "threw"}
          /\ status' = [status EXCEPT ![job] = "failed"]
    /\ UNCHANGED execution

\* The process exits: what was being executed never settles.
Interrupt ==
    /\ execution' = [job \in Jobs |-> IF execution[job] = "started" THEN "interrupted"
                                                                    ELSE execution[job]]
    /\ UNCHANGED status

Init == /\ status = [job \in Jobs |-> "absent"]
        /\ execution = [job \in Jobs |-> "waiting"]

Next == \/ \E job \in Jobs : Accept(job) \/ Begin(job) \/ Settle(job) \/ Report(job)
        \/ Interrupt

Spec == Init /\ [][Next]_<<status, execution>>

=============================================================================
