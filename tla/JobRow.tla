------------------------------- MODULE JobRow -------------------------------
(***************************************************************************)
(* The row of the jobs table of one crawl job, and every SQL statement of  *)
(* PostgreSQLClient that writes its status or its outstanding-task counter.*)
(* Each statement is one UPDATE (or one transaction), so it is a function  *)
(* from the row to the row; the columns that only the UI reads             *)
(* (completed_at, assignment_reason, url, ...) are left out.               *)
(***************************************************************************)
EXTENDS Integers

\* The CHECK constraint on jobs.status once 'paused' has been added.
JobStatus == {"pending", "running", "paused", "needs_review",
              "completed", "failed", "skipped"}

ActiveStatus == {"pending", "running", "needs_review"}

\* The statuses the crawl workers and the pause route treat as finished.
FinishedStatus == {"completed", "failed", "skipped"}

NULL == "null"

Row == [status : JobStatus,
        active_tasks : Nat,
        resume_status : JobStatus \cup {NULL}]

\* INSERT INTO jobs ... 'pending'
create_job == [status |-> "pending", active_tasks |-> 0, resume_status |-> NULL]

\* (Mutant) a status write that is not terminal-safe.
update_job_status_unguarded(row, status) == [row EXCEPT !.status = status]

\* Terminal-safe status write: 'completed' always applies, the other terminal
\* states never replace 'completed', an active state only replaces an active one.
update_job_status(row, status) ==
    IF \/ status = "completed"
       \/ status \in {"failed", "skipped", "needs_review"} /\ row.status # "completed"
       \/ status \in {"pending", "running"} /\ row.status \in ActiveStatus
    THEN [row EXCEPT !.status = status]
    ELSE row

pause_job(row) ==
    IF row.status \in ActiveStatus
    THEN [row EXCEPT !.resume_status = row.status, !.status = "paused"]
    ELSE row

resume_job(row) ==
    IF row.status = "paused"
    THEN [row EXCEPT !.status = IF row.resume_status \in ActiveStatus
                                THEN row.resume_status ELSE "running",
                     !.resume_status = NULL]
    ELSE row

register_job_tasks(row, task_count) ==
    IF task_count <= 0 THEN row
    ELSE [row EXCEPT !.active_tasks = @ + task_count]

\* GREATEST(active_tasks - 1, 0)
Decremented(n) == IF n > 0 THEN n - 1 ELSE 0

Settled(row, last, anyCompleted) ==
    [row EXCEPT !.active_tasks = Decremented(@),
                !.status = IF last /\ @ \in ActiveStatus
                           THEN IF anyCompleted THEN "completed" ELSE "failed"
                           ELSE @]

\* (Mutants) the finalizer fires one task early, one task late, or whether
\* or not a page was completed.
complete_job_task_early(row, failed, anyCompleted) ==
    IF failed THEN [row EXCEPT !.status = "failed", !.active_tasks = Decremented(@)]
    ELSE Settled(row, row.active_tasks <= 2, anyCompleted)

complete_job_task_late(row, failed, anyCompleted) ==
    IF failed THEN [row EXCEPT !.status = "failed", !.active_tasks = Decremented(@)]
    ELSE Settled(row, row.active_tasks < 1, anyCompleted)

complete_job_task_green(row, failed, anyCompleted) ==
    IF failed THEN [row EXCEPT !.status = "failed", !.active_tasks = Decremented(@)]
    ELSE Settled(row, row.active_tasks <= 1, TRUE)

\* Settle one message.  anyCompleted is the EXISTS subquery: some crawl_log row
\* of the job has status 'completed'.
complete_job_task(row, failed, anyCompleted) ==
    IF failed
    THEN IF row.status \in {"completed", "paused"} THEN row
         ELSE [row EXCEPT !.status = "failed",
                          !.active_tasks = Decremented(@)]
    ELSE Settled(row, row.active_tasks <= 1, anyCompleted)
=============================================================================
