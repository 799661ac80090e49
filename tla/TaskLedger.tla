----------------------------- MODULE TaskLedger -----------------------------
(***************************************************************************)
(* What the outstanding-task counter of a job promises, whatever the       *)
(* workers do: a job has units of outstanding work (messages queued or     *)
(* being processed, children reserved but not yet published); whoever      *)
(* creates work registers it first and holds a unit of its own while it    *)
(* does; a unit is settled through complete_job_task, or is lost without   *)
(* being settled.  CrawlJob is shown to implement this module.             *)
(***************************************************************************)
EXTENDS JobRow

CONSTANT MaxTasks      \* bound on the tasks a job may have registered at once

ASSUME MaxTasksAssumption == MaxTasks \in Nat \ {0}

\* Of the statuses in crawl_log, the only one a statement on the row reads.
LogStatus == {"completed"}

VARIABLES
    row,          \* the jobs row
    outstanding,  \* units of work that really are outstanding
    crawl_log     \* the statuses logged for the job, restricted to LogStatus

vars == <<row, outstanding, crawl_log>>

\* The row exists and the root message has been registered.
Init ==
    /\ row = register_job_tasks(create_job, 1)
    /\ outstanding = 1
    /\ crawl_log = {}

\* The holder of a unit registers n more before it publishes them.
Register(n) ==
    /\ outstanding > 0
    /\ row.active_tasks + n <= MaxTasks
    /\ row' = register_job_tasks(row, n)
    /\ outstanding' = outstanding + n
    /\ UNCHANGED crawl_log

\* One unit ends and is settled.
Settle(failed) ==
    /\ outstanding > 0
    /\ row' = complete_job_task(row, failed, crawl_log # {})
    /\ outstanding' = outstanding - 1
    /\ UNCHANGED crawl_log

\* n units vanish without anybody settling them.
Lose(n) ==
    /\ n <= outstanding
    /\ outstanding' = outstanding - n
    /\ UNCHANGED <<row, crawl_log>>

\* A worker that holds a unit logs a page as 'completed'.
Log(status) ==
    /\ outstanding > 0
    /\ crawl_log' = crawl_log \cup {status}
    /\ UNCHANGED <<row, outstanding>>

\* A worker that starts a page.
MarkRunning ==
    /\ row' = update_job_status(row, "running")
    /\ UNCHANGED <<outstanding, crawl_log>>

\* Anybody: a worker, the watchdog, the retry route.  The submit route fails
\* the job because the root message was not published: that unit is gone too.
Fail(lost) ==
    /\ lost <= outstanding
    /\ row' = update_job_status(row, "failed")
    /\ outstanding' = outstanding - lost
    /\ UNCHANGED crawl_log

Pause == row' = pause_job(row) /\ UNCHANGED <<outstanding, crawl_log>>

Resume == row' = resume_job(row) /\ UNCHANGED <<outstanding, crawl_log>>

Next ==
    \/ \E n \in 1..MaxTasks : Register(n) \/ Lose(n)
    \/ \E failed \in BOOLEAN : Settle(failed)
    \/ \E status \in LogStatus : Log(status)
    \/ MarkRunning
    \/ \E lost \in {0, 1} : Fail(lost)
    \/ Pause
    \/ Resume

Spec == Init /\ [][Next]_vars

-----------------------------------------------------------------------------
(* Type invariant. *)
TypeOK ==
    /\ row \in Row
    /\ outstanding \in Nat
    /\ crawl_log \subseteq LogStatus

(* The counter of the row never undercounts the work that is outstanding:  *)
(* register_job_tasks runs before the work exists, complete_job_task after *)
(* it ended.                                                               *)
Covered == row.active_tasks >= outstanding

(* complete_job_task (client.py:838): a job is never 'completed' while any *)
(* of its messages is still queued or being processed.                     *)
NoEarlyCompletion == row.status = "completed" => outstanding = 0

(* complete_job_task's EXISTS subquery (client.py:883-888): a job that     *)
(* produced nothing never turns green.                                     *)
CompletedHasContent == row.status = "completed" => crawl_log # {}

(* update_job_status, pause_job, resume_job and complete_job_task together *)
(* (client.py:721-929): no sequence of writes changes a finished status.   *)
FinishedIsFinal ==
    [][row.status \in FinishedStatus => row'.status = row.status]_vars
=============================================================================
