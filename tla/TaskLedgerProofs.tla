-------------------------- MODULE TaskLedgerProofs --------------------------
(***************************************************************************)
(* The promises of the task ledger, for any number of tasks.  NoEarly-     *)
(* Completion is not inductive: the completing step reads active_tasks,    *)
(* not the work that is really outstanding, so it needs Covered; and a     *)
(* step after completion must not create work, so it needs itself.         *)
(***************************************************************************)
EXTENDS TaskLedger, TLAPS

\* Nothing writes 'skipped' on the row: its finished statuses are two.
NeverSkipped == row.status # "skipped"

LedgerInv ==
    /\ TypeOK
    /\ Covered
    /\ NoEarlyCompletion
    /\ CompletedHasContent
    /\ NeverSkipped

-----------------------------------------------------------------------------
(* What the statements on the row do, case by case. *)

\* The counter never drops by more than one, and never below zero.
LEMMA DecrementedBounds ==
    ASSUME NEW n \in Nat
    PROVE  /\ Decremented(n) \in Nat
           /\ Decremented(n) >= n - 1
           /\ Decremented(n) <= n
BY DEF Decremented

\* complete_job_task keeps the row typed and gives back at most one slot.
LEMMA CompleteTyped ==
    ASSUME NEW r \in Row, NEW failed, NEW any
    PROVE  /\ complete_job_task(r, failed, any) \in Row
           /\ complete_job_task(r, failed, any).active_tasks >= r.active_tasks - 1
           /\ r.status # "skipped"
                => complete_job_task(r, failed, any).status # "skipped"
<1>1. /\ Decremented(r.active_tasks) \in Nat
      /\ Decremented(r.active_tasks) >= r.active_tasks - 1
  BY DecrementedBounds DEF Row
<1>2. CASE failed
  <2>1. CASE r.status \in {"completed", "paused"}
    BY <1>2, <2>1 DEF complete_job_task, Settled, Row
  <2>2. CASE r.status \notin {"completed", "paused"}
    <3>1. complete_job_task(r, failed, any)
            = [status |-> "failed", active_tasks |-> Decremented(r.active_tasks),
               resume_status |-> r.resume_status]
      BY <1>2, <2>2 DEF complete_job_task, Settled, Row
    <3>2. QED
      BY <1>1, <3>1 DEF Row, JobStatus
  <2>3. QED
    BY <2>1, <2>2
<1>3. CASE ~failed
  BY <1>1, <1>3 DEF complete_job_task, Settled, Row, JobStatus
<1>4. QED
  BY <1>2, <1>3

\* complete_job_task never leaves a finished status.
LEMMA CompleteKeepsFinished ==
    ASSUME NEW r \in Row, NEW failed, NEW any,
           r.status \in {"completed", "failed"}
    PROVE  complete_job_task(r, failed, any).status = r.status
BY DEF complete_job_task, Settled, Row, JobStatus, ActiveStatus

\* The writes that are not settlements keep the counter and never complete.
LEMMA StatusWrites ==
    ASSUME NEW r \in Row, NEW s \in {"running", "failed"}
    PROVE  \A q \in {update_job_status(r, s), pause_job(r), resume_job(r)} :
              /\ q \in Row
              /\ q.active_tasks = r.active_tasks
              /\ q.status = "completed" <=> r.status = "completed"
              /\ r.status = "failed" => q.status = "failed"
              /\ r.status # "skipped" => q.status # "skipped"
<1>1. /\ update_job_status(r, s) \in Row
      /\ update_job_status(r, s).active_tasks = r.active_tasks
      /\ update_job_status(r, s).status = "completed" <=> r.status = "completed"
      /\ r.status = "failed" => update_job_status(r, s).status = "failed"
      /\ r.status # "skipped" => update_job_status(r, s).status # "skipped"
  BY DEF update_job_status, Row, JobStatus, ActiveStatus
<1>2. /\ pause_job(r) \in Row
      /\ pause_job(r).active_tasks = r.active_tasks
      /\ pause_job(r).status = "completed" <=> r.status = "completed"
      /\ r.status = "failed" => pause_job(r).status = "failed"
      /\ r.status # "skipped" => pause_job(r).status # "skipped"
  BY DEF pause_job, Row, JobStatus, ActiveStatus, NULL
<1>3. /\ resume_job(r) \in Row
      /\ resume_job(r).active_tasks = r.active_tasks
      /\ resume_job(r).status = "completed" <=> r.status = "completed"
      /\ r.status = "failed" => resume_job(r).status = "failed"
      /\ r.status # "skipped" => resume_job(r).status # "skipped"
  BY DEF resume_job, Row, JobStatus, ActiveStatus, NULL
<1>4. QED
  BY <1>1, <1>2, <1>3

\* register_job_tasks only adds to the counter.
LEMMA RegisterAdds ==
    ASSUME NEW r \in Row, NEW n \in Nat \ {0}
    PROVE  /\ register_job_tasks(r, n) \in Row
           /\ register_job_tasks(r, n).active_tasks = r.active_tasks + n
           /\ register_job_tasks(r, n).status = r.status
BY DEF register_job_tasks, Row

-----------------------------------------------------------------------------

LEMMA InitEstablishesInv == Init => LedgerInv
<1> SUFFICES ASSUME Init PROVE LedgerInv
  OBVIOUS
<1>1. row = [status |-> "pending", active_tasks |-> 1, resume_status |-> NULL]
  BY DEF Init, create_job, register_job_tasks
<1>2. outstanding = 1 /\ crawl_log = {}
  BY DEF Init
<1>3. row \in Row
  BY <1>1 DEF Row, JobStatus
<1>4. QED
  BY <1>1, <1>2, <1>3 DEF LedgerInv, TypeOK, Covered, NoEarlyCompletion,
                          CompletedHasContent, NeverSkipped

LEMMA NextPreservesInv == LedgerInv /\ [Next]_vars => LedgerInv'
<1> SUFFICES ASSUME LedgerInv, [Next]_vars
             PROVE  LedgerInv'
  OBVIOUS
<1> USE DEF LedgerInv, TypeOK, Covered, NoEarlyCompletion, CompletedHasContent, NeverSkipped
<1>t. row.active_tasks \in Nat
  BY DEF Row
<1>1. ASSUME NEW n \in 1..MaxTasks, Register(n)
      PROVE  LedgerInv'
  <2>1. n \in Nat \ {0}
    BY MaxTasksAssumption
  <2>2. /\ row' \in Row
        /\ row'.active_tasks = row.active_tasks + n
        /\ row'.status = row.status
    BY <1>1, <2>1, RegisterAdds DEF Register
  <2>3. QED
    BY <1>1, <1>t, <2>1, <2>2 DEF Register
<1>2. ASSUME NEW n \in 1..MaxTasks, Lose(n)
      PROVE  LedgerInv'
  BY <1>2, <1>t, MaxTasksAssumption DEF Lose
<1>3. ASSUME NEW failed \in BOOLEAN, Settle(failed)
      PROVE  LedgerInv'
  <2>1. /\ row' \in Row
        /\ row'.active_tasks >= row.active_tasks - 1
        /\ row'.status # "skipped"
    BY <1>3, CompleteTyped DEF Settle
  <2>2. row'.status = "completed" => row.active_tasks <= 1 /\ crawl_log # {}
    <3>1. row.status # "completed"
      BY <1>3 DEF Settle
    <3>2. row'.status = "completed"
            => row.status = "completed" \/ (row.active_tasks <= 1 /\ crawl_log # {})
      BY <1>3 DEF Settle, complete_job_task, Settled, Row, JobStatus, ActiveStatus
    <3>3. QED
      BY <3>1, <3>2
  <2>3. row'.active_tasks \in Nat
    BY <2>1 DEF Row
  <2>4. QED
    BY <1>3, <1>t, <2>1, <2>2, <2>3 DEF Settle
<1>4. ASSUME NEW status \in LogStatus, Log(status)
      PROVE  LedgerInv'
  BY <1>4 DEF Log
<1>5. CASE MarkRunning
  BY <1>5, <1>t, StatusWrites DEF MarkRunning
<1>0. ASSUME NEW lost \in {0, 1}, Fail(lost)
      PROVE  LedgerInv'
  BY <1>0, <1>t, StatusWrites DEF Fail
<1>6. CASE Pause
  BY <1>6, <1>t, StatusWrites DEF Pause
<1>7. CASE Resume
  BY <1>7, <1>t, StatusWrites DEF Resume
<1>8. CASE UNCHANGED vars
  BY <1>8 DEF vars
<1>9. QED
  BY <1>1, <1>2, <1>3, <1>4, <1>5, <1>6, <1>7, <1>8, <1>0 DEF Next

(* The inductive invariant holds in every state of every behaviour. *)
THEOREM LedgerInvariant == Spec => []LedgerInv
<1>1. Init => LedgerInv
  BY InitEstablishesInv
<1>2. LedgerInv /\ [Next]_vars => LedgerInv'
  BY NextPreservesInv
<1>3. QED
  BY <1>1, <1>2, PTL DEF Spec

(* Type correctness of the ledger (the jobs row, client.py:621-929). *)
THEOREM TypeCorrect == Spec => []TypeOK
<1>1. LedgerInv => TypeOK
  BY DEF LedgerInv
<1>2. QED
  BY <1>1, LedgerInvariant, PTL

(* The counter covers the outstanding work: registering before publishing  *)
(* (client.py:825) and settling after processing (client.py:838) never let *)
(* active_tasks fall below the number of messages still to be settled.     *)
THEOREM CounterCovers == Spec => []Covered
<1>1. LedgerInv => Covered
  BY DEF LedgerInv
<1>2. QED
  BY <1>1, LedgerInvariant, PTL

(* A job is never 'completed' while work is outstanding (the rule stated   *)
(* in complete_job_task, client.py:849-856), for any number of tasks.      *)
THEOREM NeverCompletesEarly == Spec => []NoEarlyCompletion
<1>1. LedgerInv => NoEarlyCompletion
  BY DEF LedgerInv
<1>2. QED
  BY <1>1, LedgerInvariant, PTL

(* A completed job logged a completed page (client.py:879-888). *)
THEOREM CompletedJobsHaveContent == Spec => []CompletedHasContent
<1>1. LedgerInv => CompletedHasContent
  BY DEF LedgerInv
<1>2. QED
  BY <1>1, LedgerInvariant, PTL

(* A finished job keeps its status whatever is still in flight: a late     *)
(* settlement, a stale worker, a pause or a resume never changes it        *)
(* (update_job_status, client.py:721-754, with the other writers).         *)
THEOREM FinishedStaysFinished == Spec => FinishedIsFinal
<1>1. LedgerInv /\ [Next]_vars
        => [row.status \in FinishedStatus => row'.status = row.status]_vars
  <2> SUFFICES ASSUME LedgerInv, [Next]_vars, row.status \in {"completed", "failed"}
               PROVE  row'.status = row.status
    BY DEF LedgerInv, NeverSkipped, FinishedStatus
  <2>1. row \in Row
    BY DEF LedgerInv, TypeOK
  <2>2. ASSUME NEW n \in 1..MaxTasks, Register(n)
        PROVE  row'.status = row.status
    BY <2>1, <2>2, MaxTasksAssumption, RegisterAdds DEF Register
  <2>3. ASSUME NEW failed \in BOOLEAN, Settle(failed)
        PROVE  row'.status = row.status
    BY <2>1, <2>3, CompleteKeepsFinished DEF Settle
  <2>4. CASE MarkRunning \/ (\E lost \in {0, 1} : Fail(lost)) \/ Pause \/ Resume
    BY <2>1, <2>4, StatusWrites DEF MarkRunning, Fail, Pause, Resume
  <2>5. QED
    BY <2>2, <2>3, <2>4 DEF Next, Lose, Log, vars
<1>2. QED
  BY <1>1, LedgerInvariant, PTL DEF Spec, FinishedIsFinal
=============================================================================
