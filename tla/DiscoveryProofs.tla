--------------------------- MODULE DiscoveryProofs ---------------------------
(* Theorems about JobSubmission and DiscoveryWorker, for any number of       *)
(* calls, URLs, topics, jobs, seeds and environment events.                  *)
EXTENDS DiscoveryWorker, TLAPS

-----------------------------------------------------------------------------
(* The inductive invariant                                                   *)

Finished(j) == RowOf(j).status \in FinishedStatus

\* What is true of every job by itself.
JobOK(job) ==
    /\ job.row.status = "running" => job.sent
    /\ job.row.status = "paused" => /\ job.row.resume_status \in ActiveStatus
                                    /\ job.row.resume_status = "running" => job.sent
    /\ ~job.sent => job.work = 0 /\ job.search = "none" /\ job.row.active_tasks <= 1
    /\ job.search = "send" => job.rest \in 1..MaxSeeds
    /\ job.search \in {"queued", "gate", "discover"} => job.row.active_tasks <= 1

\* What the guard of a submission of url has ruled out is out for good.
RuledOut(ids, url) ==
    \A i \in ids : i \in JobId /\ (jobs[i].url = url => Finished(i))

\* A call has created its job and not yet left it.
AtWork == {"register", "publish", "publish_failed", "mark"}

CallOK(c) ==
    /\ Serving(c) => call[c].todo # {}
    /\ call[c].pc \in {"idle", "fail_old", "kafka", "guard", "create"} => call[c].job = 0
    /\ call[c].pc \in AtWork => call[c].job \in JobId
    /\ At(c, "fail_old") => call[c].retry_of \in JobId
    /\ At(c, "register") => ~jobs[call[c].job].sent /\ RowOf(call[c].job).active_tasks = 0
    /\ At(c, "publish") => ~jobs[call[c].job].sent /\ RowOf(call[c].job).active_tasks = 1
    /\ At(c, "mark") => jobs[call[c].job].sent
    /\ Serving(c) => RuledOut(call[c].checked, CurrentUrl(c))
    /\ call[c].answer \subseteq JobId

\* One call per job.
OneCall ==
    \A c, d \in Call : /\ call[c].pc \in AtWork /\ call[d].pc \in AtWork
                       /\ call[c].job = call[d].job
                       => c = d

\* What a failed UPDATE in fail_job, which is only logged, takes away.
FailsOK(c) ==
    /\ At(c, "refused") /\ call[c].job # 0 => call[c].job \in JobId /\ Finished(call[c].job)
    /\ call[c].retry_of # 0 =>
          /\ call[c].retry_of \in JobId
          /\ call[c].retry_of \notin call[c].answer
          /\ call[c].job # call[c].retry_of
          /\ At(c, "fail_old") \/ Finished(call[c].retry_of)

SubmissionInv ==
    /\ TypeOK
    /\ \A j \in JobId : JobOK(jobs[j]) /\ RuledOut(jobs[j].checked, jobs[j].url)
    /\ \A c \in Call : CallOK(c)
    /\ OneCall

NeverSwallowed == "swallowed" \notin Faults

FailsInv == NeverSwallowed => \A c \in Call : FailsOK(c)

-----------------------------------------------------------------------------
(* The statements on a row                                                   *)

LEMMA StatusWritten ==
  ASSUME NEW r \in Row, NEW s \in {"running", "failed"}
  PROVE  /\ update_job_status(r, s) \in Row
         /\ update_job_status(r, s).active_tasks = r.active_tasks
         /\ update_job_status(r, s).resume_status = r.resume_status
         /\ update_job_status(r, s).status \in {r.status, s}
         /\ r.status \in FinishedStatus \/ s = "failed"
               => update_job_status(r, s).status \in FinishedStatus
  BY DEF update_job_status, Row, JobStatus, ActiveStatus, FinishedStatus

LEMMA Paused ==
  ASSUME NEW r \in Row
  PROVE  /\ pause_job(r) \in Row
         /\ pause_job(r).active_tasks = r.active_tasks
         /\ \/ pause_job(r) = r
            \/ /\ r.status \in ActiveStatus
               /\ pause_job(r).status = "paused" /\ pause_job(r).resume_status = r.status
  BY DEF pause_job, Row, JobStatus, ActiveStatus

LEMMA Resumed ==
  ASSUME NEW r \in Row, r.status = "paused"
  PROVE  /\ resume_job(r) \in Row
         /\ resume_job(r).active_tasks = r.active_tasks
         /\ r.resume_status \in ActiveStatus => resume_job(r).status = r.resume_status
  BY DEF resume_job, Row, JobStatus, ActiveStatus

LEMMA Registered ==
  ASSUME NEW r \in Row, NEW n \in Nat
  PROVE  /\ register_job_tasks(r, n) \in Row
         /\ register_job_tasks(r, n).active_tasks = r.active_tasks + n
         /\ register_job_tasks(r, n).status = r.status
         /\ register_job_tasks(r, n).resume_status = r.resume_status
  BY DEF register_job_tasks, Row

LEMMA CompletedOne ==
  ASSUME NEW r \in Row, NEW failed, NEW any
  PROVE  /\ complete_job_task(r, failed, any) \in Row
         /\ complete_job_task(r, failed, any).active_tasks <= r.active_tasks
         /\ complete_job_task(r, failed, any).resume_status = r.resume_status
         /\ complete_job_task(r, failed, any).status \in {r.status, "completed", "failed"}
         /\ r.status \in FinishedStatus
               => complete_job_task(r, failed, any).status \in FinishedStatus
  <1> DEFINE n == Decremented(r.active_tasks)
  <1>1. n \in Nat /\ n <= r.active_tasks
    BY DEF Decremented, Row
  <1>2. CASE r.status \in {"completed", "paused"} /\ failed
    BY <1>2 DEF complete_job_task, Row, FinishedStatus
  <1>3. CASE r.status \notin {"completed", "paused"} /\ failed
    <2>1. complete_job_task(r, failed, any) = [r EXCEPT !.status = "failed", !.active_tasks = n]
      BY <1>3 DEF complete_job_task
    <2> HIDE DEF n
    <2> QED BY <1>1, <2>1 DEF Row, JobStatus, FinishedStatus
  <1>4. CASE ~failed
    <2> DEFINE s == IF r.active_tasks <= 1 /\ r.status \in ActiveStatus
                    THEN IF any THEN "completed" ELSE "failed" ELSE r.status
    <2>1. complete_job_task(r, failed, any) = [r EXCEPT !.active_tasks = n, !.status = s]
      BY <1>4 DEF complete_job_task, Settled
    <2>2. s \in {r.status, "completed", "failed"} /\ (r.status \in FinishedStatus => s \in FinishedStatus)
      BY DEF FinishedStatus
    <2> HIDE DEF n, s
    <2> QED BY <1>1, <2>1, <2>2 DEF Row, JobStatus
  <1> QED BY <1>2, <1>3, <1>4

LEMMA CreatedRow == create_job \in Row /\ create_job.status = "pending" /\ create_job.active_tasks = 0
  BY DEF create_job, Row, JobStatus, NULL

-----------------------------------------------------------------------------
(* What a step may do to a job                                               *)

Keeps(old, new) ==
    /\ new.url = old.url /\ new.checked = old.checked
    /\ old.sent => new.sent
    /\ old.row.status \in FinishedStatus => new.row.status \in FinishedStatus

\* Only the call at work on a job registers and publishes its root.
Untouched(old, new) ==
    ~old.sent => ~new.sent /\ new.row.active_tasks = old.row.active_tasks

JobsType == jobs \in Seq(Job) /\ Len(jobs) <= MaxJobs

JobsOK == \A j \in JobId : JobOK(jobs[j])

LEMMA Written ==
  ASSUME JobsType, NEW j \in JobId, NEW new \in Job, jobs' = [jobs EXCEPT ![j] = new]
  PROVE  /\ JobsType' /\ JobId' = JobId /\ jobs[j] \in Job
         /\ jobs'[j] = new /\ \A i \in JobId : i # j => jobs'[i] = jobs[i]
  BY DEF JobsType, JobId

LEMMA Appended ==
  ASSUME JobsType, NEW new \in Job, Len(jobs) < MaxJobs, jobs' = Append(jobs, new)
  PROVE  /\ JobsType' /\ JobId = 1..Len(jobs) /\ JobId' = 1..(Len(jobs) + 1)
         /\ jobs'[Len(jobs) + 1] = new /\ \A i \in JobId : jobs'[i] = jobs[i]
  BY SubmissionAssumption DEF JobsType, JobId

LEMMA WithRow ==
  ASSUME NEW job \in Job, NEW r \in Row
  PROVE  /\ [job EXCEPT !.row = r] \in Job
         /\ [job EXCEPT !.row = r].row = r
         /\ [job EXCEPT !.row = r].url = job.url
         /\ [job EXCEPT !.row = r].checked = job.checked
         /\ [job EXCEPT !.row = r].sent = job.sent
         /\ [job EXCEPT !.row = r].work = job.work
         /\ [job EXCEPT !.row = r].rest = job.rest
         /\ [job EXCEPT !.row = r].search = job.search
         /\ [job EXCEPT !.row = r].logged = job.logged
  BY DEF Job

LEMMA JobFields ==
  ASSUME NEW job \in Job
  PROVE  /\ job.row \in Row /\ job.rest \in Nat /\ job.work \in Nat
         /\ job.sent \in BOOLEAN /\ job.checked \subseteq 1..MaxJobs
         /\ job.row.active_tasks \in Nat /\ job.row.status \in JobStatus
         /\ job.url \in Url \cup Query
  BY DEF Job, Row

JobsMove ==
    /\ JobsType' /\ JobId \subseteq JobId'
    /\ \A j \in JobId : Keeps(jobs[j], jobs'[j])
    /\ JobsOK'

FaultsType == faults \in 0..MaxFaults

LEMMA FaultTyped ==
  ASSUME FaultsType, UNCHANGED faults \/ \E kind \in FaultKind : Fault(kind)
  PROVE  FaultsType'
  BY SubmissionAssumption DEF FaultsType, Fault

(* A step that writes one job and keeps it in order.                         *)
LEMMA OneJob ==
  ASSUME JobsType, JobsOK, NEW j \in JobId, NEW new \in Job, jobs' = [jobs EXCEPT ![j] = new],
         JobOK(new), Keeps(jobs[j], new)
  PROVE  /\ JobsMove /\ JobId' = JobId
         /\ Untouched(jobs[j], new) => \A i \in JobId : Untouched(jobs[i], jobs'[i])
  <1>1. /\ JobsType' /\ JobId' = JobId /\ jobs'[j] = new
        /\ \A i \in JobId : i # j => jobs'[i] = jobs[i]
    BY Written
  <1> QED BY <1>1 DEF JobsMove, Keeps, Untouched, JobsOK

LEMMA NoJob ==
  ASSUME JobsType, JobsOK, UNCHANGED jobs
  PROVE  JobsMove /\ JobId' = JobId /\ \A i \in JobId : Untouched(jobs[i], jobs'[i])
  BY DEF JobsMove, JobsType, JobsOK, JobId, Keeps, Untouched

LEMMA RuledOutStays ==
  ASSUME JobsType, JobsMove, NEW ids, NEW url, RuledOut(ids, url)
  PROVE  RuledOut(ids, url)'
  BY DEF RuledOut, JobsMove, Keeps, Finished, RowOf

LEMMA CallStands ==
  ASSUME JobsType, JobsMove, NEW c \in Call, CallOK(c), call'[c] = call[c],
         call[c].pc \in {"register", "publish"}
            => Untouched(jobs[call[c].job], jobs'[call[c].job])
  PROVE  CallOK(c)'
  <1>1. Serving(c)' = Serving(c) /\ CurrentUrl(c)' = CurrentUrl(c)
    BY DEF Serving, CurrentUrl
  <1>2. Serving(c) => RuledOut(call[c].checked, CurrentUrl(c))
    BY DEF CallOK
  <1>3. Serving(c)' => RuledOut(call[c].checked, CurrentUrl(c))'
    BY <1>1, <1>2 DEF RuledOut, JobsMove, Keeps, Finished, RowOf
  <1> QED BY <1>1, <1>3 DEF CallOK, At, AtWork, JobsMove, Keeps, Untouched, RowOf

LEMMA FailsStand ==
  ASSUME JobsType, JobsMove, NEW c \in Call, FailsOK(c), call'[c] = call[c]
  PROVE  FailsOK(c)'
  BY DEF FailsOK, JobsMove, Keeps, Finished, RowOf, At

-----------------------------------------------------------------------------
(* Rows that fit their job                                                   *)

RowFits(job, r) ==
    /\ r \in Row
    /\ job.row.status \in FinishedStatus => r.status \in FinishedStatus
    /\ r.status = "running" => job.sent
    /\ r.status = "paused" => /\ r.resume_status \in ActiveStatus
                              /\ r.resume_status = "running" => job.sent
    /\ r.active_tasks <= job.row.active_tasks
    /\ ~job.sent => r.active_tasks = job.row.active_tasks

LEMMA SameFits == ASSUME NEW job \in Job, JobOK(job) PROVE RowFits(job, job.row)
  BY JobFields DEF RowFits, JobOK

LEMMA FailedFits ==
  ASSUME NEW job \in Job, JobOK(job) PROVE RowFits(job, update_job_status(job.row, "failed"))
  BY JobFields, StatusWritten DEF RowFits, JobOK

LEMMA RunningFits ==
  ASSUME NEW job \in Job, JobOK(job), job.sent
  PROVE  RowFits(job, update_job_status(job.row, "running"))
  BY JobFields, StatusWritten DEF RowFits, JobOK

LEMMA PausedFits ==
  ASSUME NEW job \in Job, JobOK(job) PROVE RowFits(job, pause_job(job.row))
  BY JobFields, Paused DEF RowFits, JobOK, ActiveStatus, FinishedStatus

LEMMA ResumedFits ==
  ASSUME NEW job \in Job, JobOK(job), job.row.status = "paused"
  PROVE  RowFits(job, resume_job(job.row))
  BY JobFields, Resumed DEF RowFits, JobOK, ActiveStatus, FinishedStatus

LEMMA SettledFits ==
  ASSUME NEW job \in Job, JobOK(job), job.sent, NEW failed, NEW any
  PROVE  RowFits(job, complete_job_task(job.row, failed, any))
  BY JobFields, CompletedOne DEF RowFits, JobOK

(* A step of a job that fits, as seen by everybody else.                     *)
Moves(j, new) ==
    /\ new \in Job /\ jobs' = [jobs EXCEPT ![j] = new]
    /\ new.url = jobs[j].url /\ new.checked = jobs[j].checked /\ new.sent = jobs[j].sent
    /\ RowFits(jobs[j], new.row)
    /\ ~new.sent => new.work = 0 /\ new.search = "none"
    /\ new.search = "send" => new.rest \in 1..MaxSeeds
    /\ new.search \in {"queued", "gate", "discover"}
         => jobs[j].search \in {"queued", "gate", "discover"}

JobsKept ==
    /\ JobsMove /\ JobId' = JobId
    /\ \A i \in JobId : Untouched(jobs[i], jobs'[i])

LEMMA MoveKept ==
  ASSUME JobsType, JobsOK, NEW j \in JobId, NEW new, Moves(j, new)
  PROVE  JobsKept
  <1>1. jobs[j] \in Job /\ JobOK(jobs[j]) /\ new \in Job
    BY DEF JobsType, JobsOK, JobId, Moves
  <1>2. jobs[j].row.active_tasks \in Nat /\ new.row.active_tasks \in Nat
    BY <1>1, JobFields
  <1>3. JobOK(new)
    BY <1>1, <1>2 DEF Moves, JobOK, RowFits
  <1>4. Keeps(jobs[j], new) /\ Untouched(jobs[j], new)
    BY <1>1, <1>2 DEF Moves, RowFits, Keeps, Untouched
  <1>5. jobs' = [jobs EXCEPT ![j] = new]
    BY DEF Moves
  <1> HIDE DEF Moves
  <1> QED BY <1>1, <1>3, <1>4, <1>5, OneJob DEF JobsKept

LEMMA RowMove ==
  ASSUME JobsType, JobsOK, NEW j \in JobId, NEW r, WriteRow(j, r), RowFits(jobs[j], r)
  PROVE  Moves(j, [jobs[j] EXCEPT !.row = r])
  <1>1. jobs[j] \in Job /\ JobOK(jobs[j])
    BY DEF JobsType, JobsOK, JobId
  <1>2. jobs' = [jobs EXCEPT ![j] = [jobs[j] EXCEPT !.row = r]]
    BY DEF WriteRow
  <1>3. r \in Row
    BY DEF RowFits
  <1> DEFINE new == [jobs[j] EXCEPT !.row = r]
  <1>4. /\ new \in Job /\ new.row = r /\ new.url = jobs[j].url /\ new.checked = jobs[j].checked
        /\ new.sent = jobs[j].sent /\ new.work = jobs[j].work /\ new.rest = jobs[j].rest
        /\ new.search = jobs[j].search
    BY <1>1, <1>3, WithRow
  <1> HIDE DEF new
  <1>5. Moves(j, new)
    BY <1>1, <1>2, <1>4 DEF Moves, JobOK, new
  <1> QED BY <1>5 DEF new

Waits == {"gate", "skipped", "discover", "raised", "failed", "done", "lost"}

LEMMA SearchMove ==
  ASSUME JobsType, JobsOK, NEW j \in JobId, NEW pc \in Waits, NEW r,
         SearchStep(j, pc, r), RowFits(jobs[j], r), jobs[j].search # "none",
         pc \in {"gate", "discover"} => jobs[j].search \in {"queued", "gate"}
  PROVE  \E new : Moves(j, new)
  <1>1. jobs[j] \in Job /\ JobOK(jobs[j]) /\ r \in Row
    BY DEF JobsType, JobsOK, JobId, RowFits
  <1> DEFINE new == [jobs[j] EXCEPT !.search = pc, !.row = r]
  <1>2. jobs' = [jobs EXCEPT ![j] = new]
    BY DEF SearchStep, JobId
  <1>3. /\ new \in Job /\ new.row = r /\ new.url = jobs[j].url /\ new.checked = jobs[j].checked
        /\ new.sent = jobs[j].sent /\ new.search = pc
    BY <1>1 DEF Job, Waits
  <1> HIDE DEF new
  <1>4. jobs[j].sent
    BY <1>1 DEF JobOK
  <1>5. Moves(j, new)
    BY <1>1, <1>2, <1>3, <1>4 DEF Moves, Waits
  <1> QED BY <1>5

-----------------------------------------------------------------------------
(* The workers                                                               *)

Steady == JobsType /\ JobsOK /\ FaultsType

(* What every action of the workers comes down to.                           *)
WorkerStep == JobsKept /\ UNCHANGED call /\ FaultsType'

LEMMA JobIs ==
  ASSUME Steady, NEW j \in JobId
  PROVE  jobs[j] \in Job /\ JobOK(jobs[j]) /\ RowOf(j) = jobs[j].row
  BY DEF Steady, JobsType, JobsOK, JobId, RowOf

LEMMA SearchKept ==
  ASSUME Steady, NEW j \in JobId, NEW pc \in Waits, NEW r,
         SearchStep(j, pc, r), RowFits(jobs[j], r), jobs[j].search # "none",
         pc \in {"gate", "discover"} => jobs[j].search \in {"queued", "gate"}
  PROVE  JobsKept
  BY SearchMove, MoveKept DEF Steady

LEMMA RowKept ==
  ASSUME Steady, NEW j \in JobId, NEW r, WriteRow(j, r), RowFits(jobs[j], r)
  PROVE  JobsKept
  BY RowMove, MoveKept DEF Steady

LEMMA FaultsKept ==
  ASSUME Steady, UNCHANGED faults \/ \E kind \in FaultKind : Fault(kind)
  PROVE  FaultsType'
  BY FaultTyped DEF Steady

LEMMA ReceiveKept ==
  ASSUME Steady, NEW j \in JobId, ReceiveSearch(j) PROVE WorkerStep
  <1>1. RowFits(jobs[j], RowOf(j))
    BY JobIs, SameFits
  <1>2. PICK pc \in {"gate", "skipped"} : SearchStep(j, pc, RowOf(j)) /\ jobs[j].search = "queued"
    BY DEF ReceiveSearch, Searching
  <1>3. UNCHANGED <<call, faults>>
    BY DEF ReceiveSearch, Others
  <1> QED BY <1>1, <1>2, <1>3, SearchKept, FaultsKept DEF WorkerStep, Waits

LEMMA GateKept ==
  ASSUME Steady, NEW j \in JobId, PassPauseGate(j) PROVE WorkerStep
  <1>1. RowFits(jobs[j], RowOf(j))
    BY JobIs, SameFits
  <1>2. SearchStep(j, "discover", RowOf(j)) /\ jobs[j].search = "gate" /\ UNCHANGED call
        /\ (UNCHANGED faults \/ Fault("database"))
    BY DEF PassPauseGate, Searching
  <1> QED BY <1>1, <1>2, SearchKept, FaultsKept DEF WorkerStep, Waits, FaultKind

LEMMA SettleSearchKept ==
  ASSUME Steady, NEW j \in JobId, SettleSearch(j) PROVE WorkerStep
  <1>1. jobs[j].search = "settle"
        /\ SearchStep(j, "done", complete_job_task(RowOf(j), FALSE, jobs[j].logged))
        /\ UNCHANGED <<call, faults>>
    BY DEF SettleSearch, Searching, Others
  <1>2. RowFits(jobs[j], complete_job_task(RowOf(j), FALSE, jobs[j].logged))
    <2>1. jobs[j].sent
      BY <1>1, JobIs DEF JobOK
    <2> QED BY <2>1, JobIs, SettledFits
  <1> QED BY <1>1, <1>2, SearchKept, FaultsKept DEF WorkerStep, Waits

LEMMA RaisesKept ==
  ASSUME Steady, NEW j \in JobId, SearchRaises(j) PROVE WorkerStep
  <1>1. RowFits(jobs[j], RowOf(j))
    BY JobIs, SameFits
  <1>2. SearchStep(j, "raised", RowOf(j)) /\ jobs[j].search # "none" /\ UNCHANGED call
        /\ Fault("database")
    BY DEF SearchRaises
  <1> QED BY <1>1, <1>2, SearchKept, FaultsKept DEF WorkerStep, Waits, FaultKind

LEMMA FailSearchKept ==
  ASSUME Steady, NEW j \in JobId, FailSearch(j) PROVE WorkerStep
  <1>1. RowFits(jobs[j], RowOf(j)) /\ RowFits(jobs[j], update_job_status(RowOf(j), "failed"))
    BY JobIs, SameFits, FailedFits
  <1>2. PICK r \in {RowOf(j), update_job_status(RowOf(j), "failed")} :
           SearchStep(j, "failed", r) /\ jobs[j].search # "none" /\ UNCHANGED call
           /\ (UNCHANGED faults \/ Fault("swallowed"))
    BY DEF FailSearch, Searching
  <1>3. JobsKept
    BY <1>1, <1>2, SearchKept DEF Waits
  <1> QED BY <1>2, <1>3, FaultsKept DEF WorkerStep, FaultKind

LEMMA CrawlStartsKept ==
  ASSUME Steady, NEW j \in JobId, CrawlStarts(j) PROVE WorkerStep
  <1>1. WriteRow(j, update_job_status(RowOf(j), "running")) /\ UNCHANGED <<call, faults>>
        /\ jobs[j].work > 0
    BY DEF CrawlStarts, Others
  <1>2. jobs[j].sent
    BY <1>1, JobIs DEF JobOK
  <1> QED BY <1>1, <1>2, JobIs, RunningFits, RowKept, FaultsKept DEF WorkerStep

LEMMA WatchdogKept ==
  ASSUME Steady, NEW j \in JobId, WatchdogFails(j) PROVE WorkerStep
  BY JobIs, FailedFits, RowKept, FaultsKept DEF WorkerStep, WatchdogFails, FaultKind

LEMMA PauseKept ==
  ASSUME Steady, NEW j \in JobId, PauseRoute(j) PROVE WorkerStep
  BY JobIs, PausedFits, RowKept, FaultsKept DEF WorkerStep, PauseRoute, FaultKind

LEMMA ResumeKept ==
  ASSUME Steady, NEW j \in JobId, ResumeRoute(j) PROVE WorkerStep
  BY JobIs, ResumedFits, RowKept, FaultsKept DEF WorkerStep, ResumeRoute

LEMMA LogsKept ==
  ASSUME Steady, NEW j \in JobId, CrawlLogs(j) PROVE WorkerStep
  <1>1. jobs' = [jobs EXCEPT ![j] = [jobs[j] EXCEPT !.logged = TRUE]] /\ UNCHANGED <<call, faults>>
    BY DEF CrawlLogs, Others
  <1> DEFINE new == [jobs[j] EXCEPT !.logged = TRUE]
  <1>2. /\ new \in Job /\ new.row = jobs[j].row /\ new.url = jobs[j].url
        /\ new.checked = jobs[j].checked /\ new.sent = jobs[j].sent /\ new.work = jobs[j].work
        /\ new.rest = jobs[j].rest /\ new.search = jobs[j].search
    BY JobIs DEF Job
  <1> HIDE DEF new
  <1>3. Moves(j, new)
    BY <1>1, <1>2, JobIs, SameFits DEF Moves, JobOK, new
  <1> QED BY <1>1, <1>3, MoveKept, FaultsKept DEF WorkerStep, Steady

LEMMA SettlesKept ==
  ASSUME Steady, NEW j \in JobId, CrawlSettles(j) PROVE WorkerStep
  <1>1. PICK failed \in BOOLEAN :
          jobs' = [jobs EXCEPT ![j] = [jobs[j] EXCEPT
                     !.row = complete_job_task(jobs[j].row, failed, jobs[j].logged),
                     !.work = jobs[j].work - 1]]
    BY DEF CrawlSettles
  <1>2. jobs[j].work > 0 /\ UNCHANGED <<call, faults>>
    BY DEF CrawlSettles, Others
  <1> DEFINE r == complete_job_task(jobs[j].row, failed, jobs[j].logged)
             new == [jobs[j] EXCEPT !.row = r, !.work = jobs[j].work - 1]
  <1>3. jobs[j].sent /\ jobs[j].work - 1 \in Nat
    BY <1>2, JobIs, JobFields DEF JobOK
  <1>4. RowFits(jobs[j], r)
    BY <1>3, JobIs, SettledFits
  <1> HIDE DEF r
  <1>5. /\ new \in Job /\ new.row = r /\ new.url = jobs[j].url
        /\ new.checked = jobs[j].checked /\ new.sent = jobs[j].sent
        /\ new.rest = jobs[j].rest /\ new.search = jobs[j].search
    BY <1>3, <1>4, JobIs DEF Job, RowFits
  <1>6. jobs' = [jobs EXCEPT ![j] = new]
    BY <1>1 DEF r
  <1> HIDE DEF new
  <1>7. Moves(j, new)
    BY <1>3, <1>4, <1>5, <1>6, JobIs DEF Moves, JobOK
  <1> QED BY <1>2, <1>7, MoveKept, FaultsKept DEF WorkerStep, Steady

LEMMA DiscoverKept ==
  ASSUME Steady, NEW j \in JobId, DiscoverSeeds(j) PROVE WorkerStep
  <1>1. PICK n \in 0..MaxSeeds :
          jobs' = [jobs EXCEPT ![j].row = register_job_tasks(@, n), ![j].rest = n,
                               ![j].search = IF n = 0 THEN "settle" ELSE "send"]
    BY DEF DiscoverSeeds
  <1>2. jobs[j].search = "discover" /\ UNCHANGED <<call, faults>> /\ n \in Nat
    BY SeedsAssumption DEF DiscoverSeeds, Searching, Others
  <1> DEFINE r == register_job_tasks(jobs[j].row, n)
             pc == IF n = 0 THEN "settle" ELSE "send"
             new == [jobs[j] EXCEPT !.row = r, !.rest = n, !.search = pc]
  <1>3. /\ r \in Row /\ r.status = jobs[j].row.status /\ r.resume_status = jobs[j].row.resume_status
        /\ pc \in {"settle", "send"} /\ (pc = "send" => n \in 1..MaxSeeds)
    BY <1>2, JobIs, JobFields, Registered, SeedsAssumption
  <1>4. jobs' = [jobs EXCEPT ![j] = new]
    BY <1>1
  <1> HIDE DEF r, pc
  <1>5. /\ new \in Job /\ new.row = r /\ new.url = jobs[j].url /\ new.checked = jobs[j].checked
        /\ new.sent = jobs[j].sent /\ new.rest = n /\ new.search = pc
    BY <1>2, <1>3, JobIs DEF Job
  <1> HIDE DEF new
  <1>6. jobs[j].sent /\ JobOK(jobs[j])
    BY <1>2, JobIs DEF JobOK
  <1>7. JobOK(new) /\ Keeps(jobs[j], new) /\ Untouched(jobs[j], new)
    BY <1>3, <1>5, <1>6 DEF JobOK, Keeps, Untouched
  <1>8. JobsKept
    BY <1>4, <1>5, <1>7, OneJob DEF JobsKept, Steady
  <1> QED BY <1>2, <1>8, FaultsKept DEF WorkerStep

(* One seed less: published, or settled because it could not be.             *)
LEMMA SeedMove ==
  ASSUME Steady, NEW j \in JobId, jobs[j].search = "send",
         NEW new \in Job, jobs' = [jobs EXCEPT ![j] = new], RowFits(jobs[j], new.row),
         new.url = jobs[j].url, new.checked = jobs[j].checked, new.sent = jobs[j].sent,
         new.rest = jobs[j].rest - 1, new.search = Rest(j)
  PROVE  JobsKept
  <1>1. /\ Rest(j) \in {"settle", "send"} /\ (Rest(j) = "send" => jobs[j].rest - 1 \in 1..MaxSeeds)
        /\ jobs[j].sent
    BY JobIs, SeedsAssumption DEF JobOK, Rest
  <1>2. Moves(j, new)
    BY <1>1 DEF Moves
  <1> QED BY <1>2, MoveKept DEF Steady

LEMMA RestIs ==
  ASSUME Steady, NEW j \in JobId, jobs[j].search = "send"
  PROVE  jobs[j].rest - 1 \in Nat /\ Rest(j) \in {"settle", "send"} /\ jobs[j].sent
  BY JobIs, SeedsAssumption DEF JobOK, Rest

LEMMA SendSeedKept ==
  ASSUME Steady, NEW j \in JobId, SendSeed(j) PROVE WorkerStep
  <1> DEFINE n == jobs[j].rest - 1
             pc == Rest(j)
             w == jobs[j].work + 1
             new == [jobs[j] EXCEPT !.rest = n, !.search = pc, !.work = w]
  <1>1. /\ jobs[j].search = "send" /\ UNCHANGED <<call, faults>>
        /\ jobs' = [jobs EXCEPT ![j] = new]
    BY DEF SendSeed, Searching, Others
  <1>2. w \in Nat /\ n \in Nat /\ pc \in {"settle", "send"}
    BY <1>1, JobIs, JobFields, RestIs
  <1> HIDE DEF n, pc, w
  <1>3. /\ new \in Job /\ new.row = jobs[j].row /\ new.url = jobs[j].url
        /\ new.checked = jobs[j].checked /\ new.sent = jobs[j].sent /\ new.rest = n /\ new.search = pc
    BY <1>2, JobIs DEF Job
  <1>4. RowFits(jobs[j], new.row)
    <2>1. RowFits(jobs[j], jobs[j].row)
      BY JobIs, SameFits
    <2> QED BY <1>3, <2>1
  <1> HIDE DEF new
  <1>5. JobsKept
    BY <1>1, <1>3, <1>4, SeedMove DEF n, pc
  <1> QED BY <1>1, <1>5, FaultsKept DEF WorkerStep

LEMMA SendFailsKept ==
  ASSUME Steady, NEW j \in JobId, SendSeedFails(j) PROVE WorkerStep
  <1> DEFINE n == jobs[j].rest - 1
             pc == Rest(j)
             r == complete_job_task(jobs[j].row, FALSE, jobs[j].logged)
             new == [jobs[j] EXCEPT !.rest = n, !.search = pc, !.row = r]
  <1>1. /\ jobs[j].search = "send" /\ UNCHANGED call /\ Fault("send")
        /\ jobs' = [jobs EXCEPT ![j] = new]
    BY DEF SendSeedFails, Searching
  <1>2. n \in Nat /\ pc \in {"settle", "send"} /\ jobs[j].sent
    BY <1>1, RestIs
  <1>3. RowFits(jobs[j], r) /\ r \in Row
    BY <1>2, JobIs, SettledFits DEF RowFits
  <1> HIDE DEF n, pc, r
  <1>4. /\ new \in Job /\ new.row = r /\ new.url = jobs[j].url
        /\ new.checked = jobs[j].checked /\ new.sent = jobs[j].sent /\ new.rest = n /\ new.search = pc
    BY ZenonT(40), <1>2, <1>3, JobIs DEF Job
  <1> HIDE DEF new
  <1>5. JobsKept
    BY <1>1, <1>3, <1>4, SeedMove DEF n, pc
  <1> QED BY <1>1, <1>5, FaultsKept DEF WorkerStep, FaultKind

LEMMA CrashDiscoveryKept ==
  ASSUME Steady, CrashDiscovery PROVE WorkerStep
  <1>1. /\ UNCHANGED call /\ Fault("crash")
        /\ jobs' = [j \in JobId |-> IF jobs[j].search \in InHand
                                    THEN [jobs[j] EXCEPT !.search = "lost"] ELSE jobs[j]]
    BY DEF CrashDiscovery
  <1>2. ASSUME NEW j \in JobId
        PROVE  /\ jobs'[j] \in Job /\ JobOK(jobs'[j]) /\ Keeps(jobs[j], jobs'[j])
               /\ Untouched(jobs[j], jobs'[j])
    <2>1. CASE jobs[j].search \in InHand
      <3> DEFINE new == [jobs[j] EXCEPT !.search = "lost"]
      <3>1. jobs'[j] = new
        BY <1>1, <2>1
      <3>2. /\ new \in Job /\ new.row = jobs[j].row /\ new.url = jobs[j].url
            /\ new.checked = jobs[j].checked /\ new.sent = jobs[j].sent /\ new.search = "lost"
        BY JobIs DEF Job
      <3>3. jobs[j].sent
        BY <2>1, JobIs DEF JobOK, InHand
      <3> HIDE DEF new
      <3> QED BY <3>1, <3>2, <3>3, JobIs DEF JobOK, Keeps, Untouched
    <2>2. CASE jobs[j].search \notin InHand
      <3>1. jobs'[j] = jobs[j]
        BY <1>1, <2>2
      <3> QED BY <3>1, JobIs DEF Keeps, Untouched
    <2> QED BY <2>1, <2>2
  <1>3. JobsType' /\ JobId' = JobId
    <2>1. jobs \in Seq(Job) /\ JobId = 1..Len(jobs) /\ Len(jobs) \in Nat /\ Len(jobs) <= MaxJobs
      BY DEF Steady, JobsType, JobId
    <2>2. DOMAIN jobs' = 1..Len(jobs) /\ \A j \in 1..Len(jobs) : jobs'[j] \in Job
      BY <1>1, <1>2, <2>1
    <2>3. jobs' = [j \in 1..Len(jobs) |-> jobs'[j]]
      BY <1>1, <2>1
    <2>4. jobs' \in Seq(Job) /\ Len(jobs') = Len(jobs)
      BY <2>1, <2>2, <2>3
    <2> QED BY <2>1, <2>2, <2>4 DEF JobsType, JobId
  <1>4. JobsKept
    BY <1>2, <1>3 DEF JobsKept, JobsMove, JobsOK
  <1> QED BY <1>1, <1>4, FaultsKept DEF WorkerStep, FaultKind

LEMMA WorkersKept ==
  ASSUME Steady, WorkersNext \/ \E j \in JobId : PauseRoute(j) \/ ResumeRoute(j)
  PROVE  WorkerStep
  BY ReceiveKept, GateKept, DiscoverKept, SendSeedKept, SendFailsKept, SettleSearchKept, RaisesKept,
     FailSearchKept, CrawlStartsKept, LogsKept, SettlesKept, WatchdogKept, CrashDiscoveryKept,
     PauseKept, ResumeKept
     DEF WorkersNext

-----------------------------------------------------------------------------
(* The calls                                                                 *)

CallType == call \in [Call -> CallState]

Inv == SubmissionInv /\ FailsInv

LEMMA InvParts ==
  ASSUME Inv
  PROVE  Steady /\ CallType /\ OneCall /\ (\A c \in Call : CallOK(c))
         /\ (NeverSwallowed => \A c \in Call : FailsOK(c))
         /\ (\A j \in JobId : RuledOut(jobs[j].checked, jobs[j].url))
  BY DEF Inv, SubmissionInv, FailsInv, TypeOK, Steady, JobsType, JobsOK, FaultsType, CallType

PC == {"idle", "fail_old", "kafka", "guard", "create", "register", "publish",
       "publish_failed", "mark", "done", "refused", "error", "gone"}

LEMMA CallFields ==
  ASSUME CallType, NEW c \in Call
  PROVE  /\ call[c] \in CallState /\ call[c].todo \subseteq Url \cup Query
         /\ call[c].job \in 0..MaxJobs /\ call[c].checked \subseteq 1..MaxJobs
         /\ call[c].retry_of \in 0..MaxJobs /\ call[c].answer \subseteq 1..MaxJobs
         /\ call[c].kind \in Kind /\ call[c].pc \in PC
  BY DEF CallType, CallState, PC

LEMMA IdleTyped == Idle \in CallState
  BY SubmissionAssumption DEF Idle, CallState, Kind

(* What every step of call c comes down to.                                  *)
CallStep(c) ==
    /\ JobsMove /\ FaultsType' /\ CallType'
    /\ \A d \in Call : d # c => call'[d] = call[d]
    /\ CallOK(c)' /\ (NeverSwallowed => FailsOK(c)')
    /\ \A i \in JobId : ~(call[c].pc \in AtWork /\ i = call[c].job) => Untouched(jobs[i], jobs'[i])
    /\ call'[c].pc \in AtWork => \/ call[c].pc \in AtWork /\ call'[c].job = call[c].job
                                 \/ call'[c].job \notin JobId
    /\ \A j \in JobId' : j \notin JobId => RuledOut(jobs[j].checked, jobs[j].url)'

LEMMA CallStepKeeps ==
  ASSUME Inv, NEW c \in Call, CallStep(c)
  PROVE  Inv'
  <1>1. JobsType /\ JobsMove /\ OneCall
    BY InvParts DEF CallStep, Steady
  <1>2. ASSUME NEW d \in Call PROVE CallOK(d)' /\ (NeverSwallowed => FailsOK(d)')
    <2>1. CASE d = c
      BY <2>1 DEF CallStep
    <2>2. CASE d # c
      <3>1. call'[d] = call[d] /\ CallOK(d) /\ (NeverSwallowed => FailsOK(d))
        BY <2>2, InvParts DEF CallStep
      <3>2. call[d].pc \in {"register", "publish"} => Untouched(jobs[call[d].job], jobs'[call[d].job])
        BY <1>1, <2>2, <3>1 DEF CallStep, OneCall, CallOK, AtWork
      <3> QED BY <1>1, <3>1, <3>2, CallStands, FailsStand
    <2> QED BY <2>1, <2>2
  <1>3. ASSUME NEW d \in Call, NEW e \in Call, call'[d].pc \in AtWork, call'[e].pc \in AtWork,
               call'[d].job = call'[e].job
        PROVE  d = e
    <2>1. \A x \in Call : x # c /\ call[x].pc \in AtWork => call[x].job \in JobId
      BY InvParts DEF CallOK
    <2> QED BY <1>1, <1>3, <2>1 DEF CallStep, OneCall
  <1>4. ASSUME NEW j \in JobId' PROVE JobOK(jobs[j])' /\ RuledOut(jobs[j].checked, jobs[j].url)'
    <2>1. CASE j \in JobId
      <3>1. RuledOut(jobs[j].checked, jobs[j].url)
        BY <2>1, InvParts
      <3>2. jobs'[j].checked = jobs[j].checked /\ jobs'[j].url = jobs[j].url
        BY <1>1, <2>1 DEF JobsMove, Keeps
      <3> QED BY <1>1, <1>4, <3>1, <3>2 DEF JobsMove, JobsOK, RuledOut, Keeps, Finished, RowOf
    <2>2. CASE j \notin JobId
      BY <1>1, <1>4, <2>2 DEF CallStep, JobsMove, JobsOK
    <2> QED BY <2>1, <2>2
  <1>5. TypeOK'
    BY DEF CallStep, JobsMove, JobsType, FaultsType, CallType, TypeOK
  <1>6. OneCall'
    BY <1>3 DEF OneCall
  <1> QED BY <1>2, <1>4, <1>5, <1>6 DEF Inv, SubmissionInv, FailsInv

LEMMA WorkersKeep ==
  ASSUME Inv, WorkerStep
  PROVE  Inv'
  <1>1. JobsType /\ JobsMove /\ OneCall /\ UNCHANGED call /\ JobId' = JobId /\ FaultsType'
        /\ (\A i \in JobId : Untouched(jobs[i], jobs'[i]))
    BY InvParts DEF WorkerStep, JobsKept, Steady
  <1>2. ASSUME NEW d \in Call PROVE CallOK(d)' /\ (NeverSwallowed => FailsOK(d)')
    <2>1. call'[d] = call[d] /\ CallOK(d) /\ (NeverSwallowed => FailsOK(d))
      BY <1>1, InvParts
    <2>2. call[d].pc \in {"register", "publish"} => Untouched(jobs[call[d].job], jobs'[call[d].job])
      BY <1>1, <2>1 DEF CallOK, AtWork
    <2> QED BY <1>1, <2>1, <2>2, CallStands, FailsStand
  <1>3. ASSUME NEW j \in JobId' PROVE JobOK(jobs[j])' /\ RuledOut(jobs[j].checked, jobs[j].url)'
    <2>1. RuledOut(jobs[j].checked, jobs[j].url)
      BY <1>1, InvParts
    <2>2. jobs'[j].checked = jobs[j].checked /\ jobs'[j].url = jobs[j].url
      BY <1>1 DEF JobsMove, Keeps
    <2> QED BY <1>1, <1>3, <2>1, <2>2 DEF JobsMove, JobsOK, RuledOut, Keeps, Finished, RowOf
  <1>4. TypeOK'
    BY <1>1, InvParts DEF JobsMove, JobsType, FaultsType, CallType, TypeOK
  <1>5. OneCall'
    BY <1>1 DEF OneCall
  <1> QED BY <1>2, <1>3, <1>4, <1>5 DEF Inv, SubmissionInv, FailsInv

\* Call c writes nothing but the job it is at work on.
OwnMove(c) ==
    /\ JobsMove /\ JobId' = JobId /\ FaultsType'
    /\ \A i \in JobId : ~(call[c].pc \in AtWork /\ i = call[c].job) => Untouched(jobs[i], jobs'[i])

LEMMA KeptIsOwn ==
  ASSUME NEW c, JobsKept, FaultsType' PROVE OwnMove(c)
  BY DEF JobsKept, OwnMove

LEMMA StillIsOwn ==
  ASSUME Inv, NEW c, UNCHANGED jobs, UNCHANGED faults \/ \E kind \in FaultKind : Fault(kind)
  PROVE  OwnMove(c)
  <1>1. JobsKept
    BY NoJob, InvParts DEF JobsKept, Steady
  <1>2. FaultsType'
    BY InvParts, FaultsKept
  <1> QED BY <1>1, <1>2, KeptIsOwn

(* The call goes on with the job it has.                                     *)
LEMMA GotoStep ==
  ASSUME Inv, NEW c \in Call, NEW pc \in PC, Serving(c), Goto(c, pc), OwnMove(c),
         pc \in {"kafka", "guard", "create", "publish", "publish_failed", "mark"},
         pc \in AtWork <=> call[c].pc \in AtWork,
         pc = "publish" => /\ ~jobs'[call[c].job].sent
                           /\ jobs'[call[c].job].row.active_tasks = 1,
         pc = "mark" => jobs'[call[c].job].sent,
         call[c].pc = "fail_old" /\ NeverSwallowed =>
            jobs'[call[c].retry_of].row.status \in FinishedStatus
  PROVE  CallStep(c)
  <1>1. /\ call[c] \in CallState /\ CallOK(c) /\ (NeverSwallowed => FailsOK(c)) /\ CallType
        /\ JobsType /\ JobsMove /\ JobId' = JobId
    BY InvParts, CallFields DEF OwnMove, Steady
  <1> DEFINE n == [call[c] EXCEPT !.pc = pc]
  <1>2. call' = [call EXCEPT ![c] = n]
    BY DEF Goto
  <1>3. /\ n \in CallState /\ n.pc = pc /\ n.todo = call[c].todo /\ n.job = call[c].job
        /\ n.checked = call[c].checked /\ n.retry_of = call[c].retry_of /\ n.answer = call[c].answer
    BY <1>1 DEF CallState, PC
  <1> HIDE DEF n
  <1>4. CallType' /\ call'[c] = n /\ \A d \in Call : d # c => call'[d] = call[d]
    BY <1>1, <1>2, <1>3 DEF CallType
  <1>5. RuledOut(call[c].checked, CurrentUrl(c))'
    <2>1. RuledOut(call[c].checked, CurrentUrl(c))
      BY <1>1 DEF CallOK
    <2>2. CurrentUrl(c)' = CurrentUrl(c) /\ call'[c].checked = call[c].checked
      BY <1>3, <1>4 DEF CurrentUrl
    <2> QED BY <1>1, <2>1, <2>2 DEF RuledOut, JobsMove, Keeps, Finished, RowOf
  <1>6. CallOK(c)'
    <2>1. call'[c].todo # {} /\ call'[c].answer \subseteq JobId'
      BY <1>1, <1>3, <1>4 DEF CallOK
    <2>2. /\ pc \in {"kafka", "guard", "create"} => call'[c].job = 0
          /\ pc \in AtWork => call'[c].job \in JobId'
      <3>1. call[c].pc \in AtWork \/ call[c].pc \in {"fail_old", "kafka", "guard", "create"}
        BY <1>1, CallFields DEF PC, AtWork, Serving
      <3>2. call'[c].job = call[c].job
        BY <1>3, <1>4
      <3> QED BY <1>1, <3>1, <3>2 DEF CallOK, AtWork
    <2> QED BY <1>3, <1>4, <1>5, <2>1, <2>2 DEF CallOK, At, RowOf
  <1>7. ASSUME NeverSwallowed PROVE FailsOK(c)'
    BY <1>1, <1>3, <1>4, <1>7 DEF FailsOK, At, Finished, RowOf, JobsMove, Keeps
  <1> QED BY <1>1, <1>3, <1>4, <1>6, <1>7 DEF CallStep, OwnMove

(* The call leaves its job, for the next URL or for good.                    *)
LEMMA NextUrlStep ==
  ASSUME Inv, NEW c \in Call, Serving(c), ~At(c, "fail_old"), OwnMove(c),
         NEW a, a \subseteq JobId, NEW stop \in {"no", "refused", "error"}, NextUrl(c, a, stop),
         NeverSwallowed /\ stop = "refused" /\ call[c].job # 0 =>
            call[c].job \in JobId /\ jobs'[call[c].job].row.status \in FinishedStatus,
         NeverSwallowed /\ call[c].retry_of # 0 => call[c].retry_of \notin a
  PROVE  CallStep(c)
  <1>1. /\ call[c] \in CallState /\ CallOK(c) /\ (NeverSwallowed => FailsOK(c)) /\ CallType
        /\ JobsType /\ JobsMove /\ JobId' = JobId
    BY InvParts, CallFields DEF OwnMove, Steady
  <1> DEFINE rest == call[c].todo \ {CurrentUrl(c)}
             ans == call[c].answer \cup a
             on == [call[c] EXCEPT !.todo = rest, !.answer = ans, !.checked = {}, !.pc = "kafka", !.job = 0]
             pc == IF stop = "no" THEN "done" ELSE stop
             job == IF stop = "refused" THEN call[c].job ELSE 0
             off == [Idle EXCEPT !.pc = pc, !.answer = ans, !.retry_of = call[c].retry_of, !.job = job]
             n == IF stop = "no" /\ rest # {} THEN on ELSE off
  <1>2. call' = [call EXCEPT ![c] = n]
    BY DEF NextUrl
  <1>3. /\ ans \subseteq JobId /\ ans \subseteq 1..MaxJobs /\ rest \subseteq Url \cup Query
        /\ pc \in {"done", "refused", "error"} /\ job \in 0..MaxJobs
        /\ (pc = "refused" => stop = "refused" /\ job = call[c].job) /\ (pc # "refused" => job = 0)
    <2>1. JobId \subseteq 1..MaxJobs
      BY <1>1, SubmissionAssumption DEF JobsType, JobId
    <2>2. ans \subseteq JobId /\ ans \subseteq 1..MaxJobs
      BY <1>1, <2>1 DEF CallOK
    <2>3. rest \subseteq Url \cup Query /\ job \in 0..MaxJobs
      BY <1>1, CallFields, SubmissionAssumption
    <2> QED BY <2>2, <2>3
  <1> HIDE DEF ans, pc, job
  <1>4. /\ on \in CallState /\ on.pc = "kafka" /\ on.todo = rest /\ on.job = 0
        /\ on.checked = {} /\ on.retry_of = call[c].retry_of /\ on.answer = ans
    <2>1. /\ rest \in SUBSET (Url \cup Query) /\ ans \in SUBSET (1..MaxJobs) /\ {} \in SUBSET (1..MaxJobs)
          /\ 0 \in 0..MaxJobs
      BY <1>3, SubmissionAssumption
    <2> HIDE DEF rest
    <2> QED BY <1>1, <2>1 DEF CallState
  <1>5. /\ off \in CallState /\ off.pc = pc /\ off.job = job
        /\ off.checked = {} /\ off.retry_of = call[c].retry_of /\ off.answer = ans
    BY <1>1, <1>3, IdleTyped, CallFields DEF CallState, Idle, Kind
  <1> HIDE DEF on, off
  <1>6. /\ n \in CallState /\ n.retry_of = call[c].retry_of /\ n.answer = ans /\ n.checked = {}
        /\ \/ n.pc = "kafka" /\ n.todo # {} /\ n.job = 0
           \/ n.pc = "refused" /\ n.job = call[c].job /\ stop = "refused"
           \/ n.pc \in {"done", "error"} /\ n.job = 0
    BY <1>3, <1>4, <1>5
  <1> HIDE DEF n
  <1>7. CallType' /\ call'[c] = n /\ \A d \in Call : d # c => call'[d] = call[d]
    BY <1>1, <1>2, <1>6 DEF CallType
  <1>8. CallOK(c)'
    BY <1>1, <1>3, <1>6, <1>7 DEF CallOK, Serving, At, AtWork, RuledOut
  <1>9. ASSUME NeverSwallowed PROVE FailsOK(c)'
    <2>1. /\ FailsOK(c) /\ call'[c].retry_of = call[c].retry_of /\ call'[c].answer = call[c].answer \cup a
      BY <1>1, <1>6, <1>7, <1>9 DEF ans
    <2>2. At(c, "refused")' /\ call'[c].job # 0 => (call[c].job \in JobId /\ Finished(call[c].job))'
      BY <1>1, <1>6, <1>7, <1>9 DEF At, Finished, RowOf
    <2>3. call'[c].job \in {0, call[c].job}
      BY <1>6, <1>7
    <2>4. call[c].retry_of # 0 =>
             /\ call[c].retry_of \in JobId' /\ jobs'[call[c].retry_of].row.status \in FinishedStatus
             /\ call[c].retry_of \notin call'[c].answer /\ call'[c].job # call[c].retry_of
      BY <1>1, <1>9, <2>1, <2>3 DEF FailsOK, At, Finished, RowOf, JobsMove, Keeps
    <2> QED BY <2>1, <2>2, <2>4 DEF FailsOK, Finished, RowOf
  <1> QED BY <1>1, <1>6, <1>7, <1>8, <1>9 DEF CallStep, OwnMove, AtWork

LEMMA FailJobKept ==
  ASSUME Inv, NEW j \in JobId, fail_job(j)
  PROVE  /\ JobsKept /\ FaultsType'
         /\ NeverSwallowed => jobs'[j].row.status \in FinishedStatus
  <1>1. Steady /\ jobs[j] \in Job /\ JobOK(jobs[j]) /\ RowOf(j) = jobs[j].row /\ JobsType /\ JobsOK
    BY InvParts, JobIs DEF Steady
  <1>2. CASE WriteRow(j, update_job_status(RowOf(j), "failed")) /\ UNCHANGED faults
    <2> DEFINE r == update_job_status(jobs[j].row, "failed")
               new == [jobs[j] EXCEPT !.row = r]
    <2>1. RowFits(jobs[j], r) /\ r \in Row /\ r.status \in FinishedStatus
      BY <1>1, FailedFits, JobFields, StatusWritten
    <2>2. new \in Job /\ new.row = r
      BY <1>1, <2>1, WithRow
    <2>3. jobs' = [jobs EXCEPT ![j] = new]
      BY <1>1, <1>2 DEF WriteRow
    <2>4. JobsKept
      BY <1>1, <1>2, <2>1, RowKept
    <2> HIDE DEF new, r
    <2>5. jobs'[j] = new
      BY <1>1, <2>2, <2>3, Written
    <2> QED BY <1>1, <1>2, <2>1, <2>2, <2>4, <2>5, FaultsKept
  <1>3. CASE Fault("swallowed") /\ UNCHANGED jobs
    <2>1. ~NeverSwallowed
      BY <1>3 DEF Fault, NeverSwallowed
    <2>2. FaultsType'
      BY <1>1, <1>3, FaultsKept DEF FaultKind
    <2> QED BY <1>1, <1>3, <2>1, <2>2, NoJob DEF JobsKept
  <1> QED BY <1>2, <1>3 DEF fail_job

(* A request arrives.                                                        *)
LEMMA ArriveStep ==
  ASSUME Inv, NEW c \in Call, At(c, "idle"), NEW n \in CallState, call' = [call EXCEPT ![c] = n],
         UNCHANGED <<jobs, faults>>,
         n.pc \in {"kafka", "fail_old"}, n.todo # {}, n.job = 0, n.checked = {}, n.answer = {},
         \/ n.retry_of = 0 /\ n.pc = "kafka"
         \/ n.retry_of \in JobId /\ (n.pc = "fail_old" \/ Finished(n.retry_of))
  PROVE  CallStep(c)
  <1>1. OwnMove(c) /\ CallType
    BY StillIsOwn, InvParts
  <1>2. CallType' /\ call'[c] = n /\ (\A d \in Call : d # c => call'[d] = call[d]) /\ JobId' = JobId
    BY <1>1 DEF CallType, OwnMove
  <1>3. CallOK(c)'
    BY <1>2 DEF CallOK, At, AtWork, RuledOut
  <1>4. FailsOK(c)'
    <2>1. JobId \subseteq Nat \ {0}
      BY InvParts DEF Steady, JobsType, JobId
    <2> QED BY <1>2, <2>1 DEF FailsOK, At, Finished, RowOf
  <1> QED BY <1>1, <1>2, <1>3, <1>4 DEF CallStep, OwnMove, AtWork

LEMMA ArriveKept ==
  ASSUME Inv, NEW c \in Call, NEW kind \in Kind, NEW todo, todo # {}, todo \subseteq Url \cup Query,
         Arrive(c, kind, todo)
  PROVE  CallStep(c)
  <1> DEFINE n == [Idle EXCEPT !.kind = kind, !.todo = todo, !.pc = "kafka"]
  <1>1. n \in CallState /\ n.pc = "kafka" /\ n.todo = todo /\ n.job = 0 /\ n.checked = {}
        /\ n.answer = {} /\ n.retry_of = 0
    <2>1. todo \in SUBSET (Url \cup Query) /\ {} \in SUBSET (1..MaxJobs) /\ 0 \in 0..MaxJobs
      BY SubmissionAssumption
    <2> QED BY <2>1 DEF Idle, CallState, Kind
  <1>2. At(c, "idle") /\ call' = [call EXCEPT ![c] = n] /\ UNCHANGED <<jobs, faults>>
    BY DEF Arrive
  <1> HIDE DEF n
  <1> QED BY <1>1, <1>2, ArriveStep

LEMMA RetryKept ==
  ASSUME Inv, NEW c \in Call, RetryJob(c)
  PROVE  CallStep(c)
  <1>1. At(c, "idle") /\ UNCHANGED <<jobs, faults>>
    BY DEF RetryJob
  <1>2. PICK j \in JobId :
           call' = [call EXCEPT ![c] =
              [Idle EXCEPT !.kind = "retry", !.todo = {jobs[j].url}, !.retry_of = j,
                           !.pc = IF RowOf(j).status = "failed" THEN "kafka" ELSE "fail_old"]]
    BY DEF RetryJob
  <1> DEFINE pc == IF RowOf(j).status = "failed" THEN "kafka" ELSE "fail_old"
             todo == {jobs[j].url}
             n == [Idle EXCEPT !.kind = "retry", !.todo = todo, !.retry_of = j, !.pc = pc]
  <1>3. /\ pc \in {"kafka", "fail_old"} /\ (pc = "fail_old" \/ Finished(j)) /\ j \in 0..MaxJobs
        /\ todo \subseteq Url \cup Query /\ todo # {}
    <2>1. JobId \subseteq 0..MaxJobs
      BY InvParts, SubmissionAssumption DEF Steady, JobsType, JobId
    <2> QED BY <2>1, InvParts, JobIs, JobFields DEF Finished, FinishedStatus
  <1>4. call' = [call EXCEPT ![c] = n]
    BY <1>2
  <1> HIDE DEF pc, todo
  <1>5. n \in CallState /\ n.pc = pc /\ n.todo = todo /\ n.job = 0 /\ n.checked = {}
        /\ n.answer = {} /\ n.retry_of = j
    <2>1. todo \in SUBSET (Url \cup Query) /\ {} \in SUBSET (1..MaxJobs) /\ 0 \in 0..MaxJobs
      BY <1>3, SubmissionAssumption
    <2> QED BY <1>3, <2>1 DEF Idle, CallState, Kind
  <1> HIDE DEF n
  <1> QED BY <1>1, <1>3, <1>4, <1>5, ArriveStep

LEMMA FailOldKept ==
  ASSUME Inv, NEW c \in Call, FailOld(c)
  PROVE  CallStep(c)
  <1>1. At(c, "fail_old") /\ fail_job(call[c].retry_of) /\ Goto(c, "kafka")
    BY DEF FailOld
  <1>2. call[c].retry_of \in JobId
    BY <1>1, InvParts DEF CallOK
  <1>3. JobsKept /\ FaultsType' /\ (NeverSwallowed => jobs'[call[c].retry_of].row.status \in FinishedStatus)
    BY <1>1, <1>2, FailJobKept
  <1>4. OwnMove(c)
    BY <1>3, KeptIsOwn
  <1> QED BY <1>1, <1>3, <1>4, GotoStep DEF At, Serving, AtWork, PC

LEMMA RequireKafkaKept ==
  ASSUME Inv, NEW c \in Call, RequireKafka(c)
  PROVE  CallStep(c)
  <1>1. At(c, "kafka") /\ UNCHANGED jobs
    BY DEF RequireKafka
  <1>2. CASE Goto(c, IF call[c].kind = "discover" THEN "create" ELSE "guard") /\ UNCHANGED faults
    <2>1. PICK pc \in {"create", "guard"} : Goto(c, pc)
      BY <1>2
    <2>2. OwnMove(c)
      BY <1>1, <1>2, StillIsOwn
    <2> QED BY <1>1, <2>1, <2>2, GotoStep DEF At, Serving, AtWork, PC
  <1>3. CASE Fault("kafka") /\ Refuse(c)
    <2>1. OwnMove(c)
      BY <1>1, <1>3, StillIsOwn DEF FaultKind
    <2>2. call[c].job = 0
      BY <1>1, InvParts DEF CallOK, At
    <2>3. NextUrl(c, {}, "refused")
      BY <1>3 DEF Refuse
    <2> QED BY <1>1, <2>1, <2>2, <2>3, NextUrlStep DEF At, Serving
  <1> QED BY <1>2, <1>3 DEF RequireKafka

(* What the guard lets through is free of what it saw.                       *)
LEMMA GuardPassed ==
  ASSUME Inv, NEW c \in Call, At(c, "guard"), ActiveJobs(CurrentUrl(c)) = {}, UNCHANGED <<jobs, faults>>,
         call' = [call EXCEPT ![c].pc = "create",
                              ![c].checked = {j \in JobId : RowOf(j).status \notin {"paused", "needs_review"}}]
  PROVE  CallStep(c)
  <1> DEFINE ids == {j \in JobId : RowOf(j).status \notin {"paused", "needs_review"}}
             n == [call[c] EXCEPT !.pc = "create", !.checked = ids]
  <1>1. OwnMove(c) /\ CallType /\ JobId' = JobId /\ call[c] \in CallState /\ CallOK(c)
        /\ (NeverSwallowed => FailsOK(c))
    BY StillIsOwn, InvParts, CallFields DEF OwnMove
  <1>2. ids \in SUBSET (1..MaxJobs)
    BY InvParts, SubmissionAssumption DEF Steady, JobsType, JobId
  <1>3. call' = [call EXCEPT ![c] = n]
    BY <1>1
  <1>4. RuledOut(ids, CurrentUrl(c))
    BY InvParts, JobIs, JobFields DEF RuledOut, Finished, FinishedStatus, ActiveJobs, JobStatus
  <1> HIDE DEF ids
  <1>5. /\ n \in CallState /\ n.pc = "create" /\ n.todo = call[c].todo /\ n.job = call[c].job
        /\ n.checked = ids /\ n.retry_of = call[c].retry_of /\ n.answer = call[c].answer
    BY <1>1, <1>2 DEF CallState
  <1> HIDE DEF n
  <1>6. CallType' /\ call'[c] = n /\ \A d \in Call : d # c => call'[d] = call[d]
    BY <1>1, <1>3, <1>5 DEF CallType
  <1>7. RuledOut(call[c].checked, CurrentUrl(c))'
    <2>1. CurrentUrl(c)' = CurrentUrl(c)
      BY <1>5, <1>6 DEF CurrentUrl
    <2> QED BY <1>1, <1>4, <1>5, <1>6, <2>1 DEF RuledOut, Finished, RowOf
  <1>8. CallOK(c)'
    BY <1>1, <1>5, <1>6, <1>7 DEF CallOK, At, AtWork, Serving
  <1>9. ASSUME NeverSwallowed PROVE FailsOK(c)'
    BY <1>1, <1>5, <1>6, <1>9 DEF FailsOK, At, Finished, RowOf
  <1> QED BY <1>1, <1>5, <1>6, <1>8, <1>9 DEF CallStep, OwnMove, AtWork

LEMMA GuardKept ==
  ASSUME Inv, NEW c \in Call, DuplicateGuard(c)
  PROVE  CallStep(c)
  <1>1. At(c, "guard") /\ UNCHANGED jobs
    BY DEF DuplicateGuard
  <1>2. CASE ActiveJobs(CurrentUrl(c)) # {} /\ UNCHANGED faults
             /\ NextUrl(c, Newest(ActiveJobs(CurrentUrl(c))), "no")
    <2> DEFINE a == Newest(ActiveJobs(CurrentUrl(c)))
    <2>1. OwnMove(c)
      BY <1>1, <1>2, StillIsOwn
    <2>2. a \subseteq JobId /\ \A j \in a : RowOf(j).status \in {"pending", "running"}
      BY DEF Newest, ActiveJobs
    <2>3. NeverSwallowed /\ call[c].retry_of # 0 => call[c].retry_of \notin a
      BY <1>1, <2>2, InvParts DEF FailsOK, Finished, FinishedStatus, At
    <2> HIDE DEF a
    <2>4. NextUrl(c, a, "no")
      BY <1>2 DEF a
    <2> QED BY <1>1, <2>1, <2>2, <2>3, <2>4, NextUrlStep DEF At, Serving
  <1>3. CASE ActiveJobs(CurrentUrl(c)) = {} /\ UNCHANGED faults /\
             call' = [call EXCEPT ![c].pc = "create",
                        ![c].checked = {j \in JobId : RowOf(j).status \notin {"paused", "needs_review"}}]
    BY <1>1, <1>3, GuardPassed
  <1>4. CASE Fault("database") /\ Goto(c, "create")
    <2>1. OwnMove(c)
      BY <1>1, <1>4, StillIsOwn DEF FaultKind
    <2> QED BY <1>1, <1>4, <2>1, GotoStep DEF At, Serving, AtWork, PC
  <1> QED BY <1>2, <1>3, <1>4 DEF DuplicateGuard

LEMMA CreateKept ==
  ASSUME Inv, NEW c \in Call, CreateJob(c)
  PROVE  CallStep(c)
  <1>1. At(c, "create") /\ Len(jobs) < MaxJobs
    BY DEF CreateJob
  <1>2. CASE Fault("database") /\ Raise(c) /\ UNCHANGED jobs
    <2>1. OwnMove(c)
      BY <1>2, StillIsOwn DEF FaultKind
    <2>2. PICK stop \in {"no", "error"} : NextUrl(c, {}, stop)
      BY <1>2 DEF Raise
    <2> QED BY <1>1, <2>1, <2>2, NextUrlStep DEF At, Serving
  <1>3. CASE /\ jobs' = Append(jobs, [url |-> CurrentUrl(c), row |-> create_job, logged |-> FALSE,
                                      topic |-> TopicOf(c), sent |-> FALSE,
                                      checked |-> call[c].checked, search |-> "none",
                                      rest |-> 0, work |-> 0])
             /\ call' = [call EXCEPT ![c].pc = "register", ![c].job = Len(jobs) + 1]
             /\ UNCHANGED faults
    <2>0. PICK k : k = Len(jobs) + 1
      OBVIOUS
    <2> DEFINE new == [url |-> CurrentUrl(c), row |-> create_job, logged |-> FALSE, topic |-> TopicOf(c),
                       sent |-> FALSE, checked |-> call[c].checked, search |-> "none",
                       rest |-> 0, work |-> 0]
               n == [call[c] EXCEPT !.pc = "register", !.job = k]
    <2>1. /\ Steady /\ CallType /\ call[c] \in CallState /\ CallOK(c) /\ (NeverSwallowed => FailsOK(c))
          /\ JobsType /\ JobsOK
      BY InvParts, CallFields DEF Steady
    <2>2. new \in Job
      <3>1. CurrentUrl(c) \in Url \cup Query
        BY <1>1, <2>1, CallFields DEF CallOK, At, Serving, CurrentUrl
      <3>2. TopicOf(c) \in {"crawl.requests", "search.requests"}
        BY DEF TopicOf
      <3>3. call[c].checked \in SUBSET (1..MaxJobs)
        BY <2>1, CallFields
      <3> QED BY <3>1, <3>2, <3>3, CreatedRow DEF Job
    <2>3. /\ new.url = CurrentUrl(c) /\ new.row = create_job /\ ~new.sent /\ new.checked = call[c].checked
          /\ new.search = "none" /\ new.work = 0
      OBVIOUS
    <2>4. jobs' = Append(jobs, new)
      BY <1>3
    <2> HIDE DEF new
    <2>5. /\ JobsType' /\ JobId = 1..Len(jobs) /\ JobId' = 1..k
          /\ jobs'[k] = new /\ \A i \in JobId : jobs'[i] = jobs[i]
      BY <1>1, <2>0, <2>1, <2>2, <2>4, Appended
    <2>6. JobOK(new)
      BY <2>3, CreatedRow DEF JobOK
    <2>7. k \in 0..MaxJobs /\ Len(jobs) \in Nat /\ k = Len(jobs) + 1
      BY <1>1, <2>0, <2>1, SubmissionAssumption DEF JobsType
    <2>8. \A i \in JobId' : i \in JobId \/ i = k
      BY <2>5, <2>7
    <2>9. k \notin JobId /\ k \in JobId' /\ JobId \subseteq JobId'
      BY <2>5, <2>7
    <2>10. call' = [call EXCEPT ![c] = n]
      BY <1>3, <2>0
    <2>11. /\ n \in CallState /\ n.pc = "register" /\ n.todo = call[c].todo /\ n.job = k
           /\ n.checked = call[c].checked /\ n.retry_of = call[c].retry_of /\ n.answer = call[c].answer
      BY <2>1, <2>7 DEF CallState
    <2> HIDE DEF n
    <2>12. CallType' /\ call'[c] = n /\ \A d \in Call : d # c => call'[d] = call[d]
      BY <2>1, <2>10, <2>11 DEF CallType
    <2>13. JobsMove
      BY <2>1, <2>5, <2>6, <2>8, <2>9 DEF JobsMove, JobsOK, Keeps
    <2>14. FaultsType'
      BY <1>3, <2>1, FaultsKept
    <2>15. RuledOut(call[c].checked, CurrentUrl(c))
      BY <1>1, <2>1 DEF CallOK, At, Serving
    <2>16. RuledOut(call[c].checked, CurrentUrl(c))'
      <3>1. CurrentUrl(c)' = CurrentUrl(c)
        BY <2>11, <2>12 DEF CurrentUrl
      <3> QED BY <2>5, <2>9, <2>11, <2>12, <2>15, <3>1 DEF RuledOut, Finished, RowOf
    <2>17. RuledOut(jobs[k].checked, jobs[k].url)'
      BY <2>3, <2>5, <2>9, <2>15 DEF RuledOut, Finished, RowOf
    <2>18. CallOK(c)'
      <3>1. /\ call'[c].pc = "register" /\ call'[c].job = k /\ call'[c].todo # {}
            /\ call'[c].answer \subseteq JobId'
        BY <1>1, <2>1, <2>9, <2>11, <2>12 DEF CallOK, At, Serving
      <3>2. jobs'[k].sent = FALSE /\ jobs'[k].row.active_tasks = 0
        BY <2>2, <2>3, <2>5, JobFields, CreatedRow
      <3> QED BY <2>9, <2>16, <3>1, <3>2 DEF CallOK, At, AtWork, RowOf
    <2>19. ASSUME NeverSwallowed PROVE FailsOK(c)'
      BY <1>1, <2>1, <2>5, <2>9, <2>11, <2>12, <2>19 DEF FailsOK, At, Finished, RowOf
    <2>20. \A i \in JobId : Untouched(jobs[i], jobs'[i])
      BY <2>5 DEF Untouched
    <2>21. \A j \in JobId' : j \notin JobId => RuledOut(jobs[j].checked, jobs[j].url)'
      BY <2>8, <2>17
    <2> QED BY <2>9, <2>11, <2>12, <2>13, <2>14, <2>18, <2>19, <2>20, <2>21 DEF CallStep
  <1> QED BY <1>1, <1>2, <1>3 DEF CreateJob

LEMMA OwnJob ==
  ASSUME Inv, NEW c \in Call, call[c].pc \in AtWork
  PROVE  /\ Steady /\ CallOK(c) /\ JobsType /\ JobsOK /\ call[c].job \in JobId
         /\ jobs[call[c].job] \in Job /\ JobOK(jobs[call[c].job])
         /\ RowOf(call[c].job) = jobs[call[c].job].row
         /\ (NeverSwallowed => FailsOK(c))
  BY InvParts, JobIs DEF CallOK, Steady

LEMMA RaiseStep ==
  ASSUME Inv, NEW c \in Call, call[c].pc \in AtWork, Fault("database"), Raise(c), UNCHANGED jobs
  PROVE  CallStep(c)
  <1>1. OwnMove(c)
    BY StillIsOwn DEF FaultKind
  <1>2. PICK stop \in {"no", "error"} : NextUrl(c, {}, stop)
    BY DEF Raise
  <1> QED BY <1>1, <1>2, NextUrlStep DEF At, Serving, AtWork

LEMMA RegisterKept ==
  ASSUME Inv, NEW c \in Call, RegisterRoot(c)
  PROVE  CallStep(c)
  <1> DEFINE j == call[c].job
  <1>1. At(c, "register") /\ call[c].pc \in AtWork
    BY DEF RegisterRoot, At, AtWork
  <1>2. CASE Fault("database") /\ Raise(c) /\ UNCHANGED jobs
    BY <1>1, <1>2, RaiseStep
  <1>3. CASE WriteRow(j, register_job_tasks(RowOf(j), 1)) /\ Goto(c, "publish") /\ UNCHANGED faults
    <2>1. /\ Steady /\ CallOK(c) /\ JobsType /\ JobsOK /\ j \in JobId /\ jobs[j] \in Job /\ JobOK(jobs[j])
          /\ RowOf(j) = jobs[j].row
      BY <1>1, OwnJob
    <2> HIDE DEF j
    <2>2. ~jobs[j].sent /\ jobs[j].row.active_tasks = 0
      BY <1>1, <2>1 DEF CallOK, j
    <2> DEFINE r == register_job_tasks(jobs[j].row, 1)
               new == [jobs[j] EXCEPT !.row = r]
    <2>3. /\ r \in Row /\ r.active_tasks = 1 /\ r.status = jobs[j].row.status
          /\ r.resume_status = jobs[j].row.resume_status
      <3>1. jobs[j].row \in Row /\ 1 \in Nat
        BY <2>1, JobFields
      <3>2. /\ r \in Row /\ r.active_tasks = jobs[j].row.active_tasks + 1
            /\ r.status = jobs[j].row.status /\ r.resume_status = jobs[j].row.resume_status
        BY <3>1, Registered
      <3> HIDE DEF r
      <3> QED BY <2>2, <3>2
    <2>4. jobs' = [jobs EXCEPT ![j] = new]
      BY <1>3, <2>1 DEF WriteRow
    <2> HIDE DEF r
    <2>5. /\ new \in Job /\ new.row = r /\ new.url = jobs[j].url /\ new.checked = jobs[j].checked
          /\ new.sent = jobs[j].sent /\ new.work = jobs[j].work /\ new.search = jobs[j].search
      BY <2>1, <2>3, WithRow
    <2> HIDE DEF new
    <2>6. JobOK(new) /\ Keeps(jobs[j], new)
      BY <2>1, <2>2, <2>3, <2>5 DEF JobOK, Keeps
    <2>7. JobsMove /\ JobId' = JobId /\ jobs'[j] = new /\ \A i \in JobId : i # j => jobs'[i] = jobs[i]
      BY <2>1, <2>4, <2>5, <2>6, OneJob, Written
    <2>8. OwnMove(c)
      BY <1>1, <1>3, <2>1, <2>7, FaultsKept DEF OwnMove, Untouched, j
    <2>9. ~jobs'[j].sent /\ jobs'[j].row.active_tasks = 1
      BY <2>2, <2>3, <2>5, <2>7
    <2> QED BY <1>1, <1>3, <2>8, <2>9, GotoStep DEF At, Serving, AtWork, PC, j
  <1> QED BY <1>2, <1>3 DEF RegisterRoot

(* The root message of the call's job reaches its topic.                     *)
LEMMA InTopicMove ==
  ASSUME Inv, NEW c \in Call, At(c, "publish"), FaultsType',
         jobs' = [jobs EXCEPT ![call[c].job] = InTopic(@)]
  PROVE  OwnMove(c) /\ jobs'[call[c].job].sent
  <1> DEFINE j == call[c].job
             new == InTopic(jobs[j])
  <1>1. /\ CallOK(c) /\ JobsType /\ JobsOK /\ j \in JobId /\ jobs[j] \in Job /\ JobOK(jobs[j])
    BY OwnJob DEF At, AtWork
  <1>2. ~jobs[j].sent /\ jobs[j].row.active_tasks = 1
    BY <1>1 DEF CallOK, RowOf
  <1>3. jobs' = [jobs EXCEPT ![j] = new]
    OBVIOUS
  <1> HIDE DEF j
  <1>4. /\ new \in Job /\ new.row = jobs[j].row /\ new.url = jobs[j].url /\ new.checked = jobs[j].checked
        /\ new.sent /\ new.search \in {"queued", jobs[j].search}
    BY <1>1 DEF InTopic, Job
  <1> HIDE DEF new
  <1>5. JobOK(new) /\ Keeps(jobs[j], new)
    BY <1>1, <1>2, <1>4 DEF JobOK, Keeps
  <1>6. JobsMove /\ JobId' = JobId /\ jobs'[j] = new /\ \A i \in JobId : i # j => jobs'[i] = jobs[i]
    BY <1>1, <1>3, <1>4, <1>5, OneJob, Written
  <1> QED BY <1>4, <1>6 DEF OwnMove, Untouched, At, AtWork, j

LEMMA PublishKept ==
  ASSUME Inv, NEW c \in Call, Publish(c)
  PROVE  CallStep(c)
  <1>1. At(c, "publish") /\ Goto(c, "mark") /\ UNCHANGED faults
        /\ jobs' = [jobs EXCEPT ![call[c].job] = InTopic(@)]
    BY DEF Publish
  <1>2. FaultsType'
    BY <1>1, InvParts, FaultsKept
  <1>3. OwnMove(c) /\ jobs'[call[c].job].sent
    BY <1>1, <1>2, InTopicMove
  <1> QED BY <1>1, <1>3, GotoStep DEF At, Serving, AtWork, PC

LEMMA PublishFailsKept ==
  ASSUME Inv, NEW c \in Call, PublishFails(c)
  PROVE  CallStep(c)
  <1>1. At(c, "publish") /\ Goto(c, "publish_failed")
    BY DEF PublishFails
  <1>2. OwnMove(c)
    <2>1. CASE Fault("send") /\ UNCHANGED jobs
      BY <2>1, StillIsOwn DEF FaultKind
    <2>2. CASE Fault("ambiguous") /\ jobs' = [jobs EXCEPT ![call[c].job] = InTopic(@)]
      <3>1. FaultsType'
        BY <2>2, InvParts, FaultsKept DEF FaultKind
      <3> QED BY <1>1, <2>2, <3>1, InTopicMove
    <2> QED BY <2>1, <2>2 DEF PublishFails
  <1> QED BY <1>1, <1>2, GotoStep DEF At, Serving, AtWork, PC

LEMMA RefusePublishKept ==
  ASSUME Inv, NEW c \in Call, RefusePublish(c)
  PROVE  CallStep(c)
  <1>1. At(c, "publish_failed") /\ fail_job(call[c].job) /\ NextUrl(c, {}, "refused")
    BY DEF RefusePublish, Refuse
  <1>2. call[c].job \in JobId
    BY <1>1, OwnJob DEF At, AtWork
  <1>3. JobsKept /\ FaultsType' /\ (NeverSwallowed => jobs'[call[c].job].row.status \in FinishedStatus)
    BY <1>1, <1>2, FailJobKept
  <1>4. OwnMove(c)
    BY <1>3, KeptIsOwn
  <1> QED BY <1>1, <1>2, <1>3, <1>4, NextUrlStep DEF At, Serving

LEMMA MarkKept ==
  ASSUME Inv, NEW c \in Call, MarkSubmitted(c)
  PROVE  CallStep(c)
  <1> DEFINE j == call[c].job
  <1>1. At(c, "mark") /\ call[c].pc \in AtWork
    BY DEF MarkSubmitted, At, AtWork
  <1>2. CASE Fault("database") /\ Raise(c) /\ UNCHANGED jobs
    BY <1>1, <1>2, RaiseStep
  <1>3. CASE WriteRow(j, update_job_status(RowOf(j), "running")) /\ NextUrl(c, {j}, "no") /\ UNCHANGED faults
    <2>1. /\ Steady /\ CallOK(c) /\ j \in JobId /\ jobs[j] \in Job /\ JobOK(jobs[j])
          /\ RowOf(j) = jobs[j].row /\ (NeverSwallowed => FailsOK(c))
      BY <1>1, OwnJob
    <2>2. jobs[j].sent
      BY <1>1, <2>1 DEF CallOK
    <2>3. JobsKept
      BY <1>3, <2>1, <2>2, RunningFits, RowKept
    <2>4. OwnMove(c)
      BY <1>3, <2>1, <2>3, FaultsKept, KeptIsOwn
    <2>5. NeverSwallowed /\ call[c].retry_of # 0 => call[c].retry_of \notin {j}
      BY <2>1 DEF FailsOK
    <2> HIDE DEF j
    <2> DEFINE a == {j}
    <2>6. a \subseteq JobId /\ NextUrl(c, a, "no") /\ (NeverSwallowed /\ call[c].retry_of # 0 => call[c].retry_of \notin a)
      BY <1>3, <2>1, <2>5
    <2> HIDE DEF a
    <2> QED BY <1>1, <2>4, <2>6, NextUrlStep DEF At, Serving
  <1> QED BY <1>2, <1>3 DEF MarkSubmitted

LEMMA CrashApiKept ==
  ASSUME Inv, CrashApi
  PROVE  Inv'
  <1> DEFINE gone == [Idle EXCEPT !.pc = "gone"]
  <1>1. /\ call' = [c \in Call |-> IF Serving(c) THEN gone ELSE call[c]]
        /\ Fault("crash") /\ UNCHANGED jobs
    BY DEF CrashApi
  <1>2. /\ gone \in CallState /\ gone.pc = "gone" /\ gone.retry_of = 0 /\ gone.answer = {}
    <2>1. {} \in SUBSET (Url \cup Query) /\ {} \in SUBSET (1..MaxJobs) /\ 0 \in 0..MaxJobs
      BY SubmissionAssumption
    <2> QED BY <2>1 DEF Idle, CallState, Kind
  <1> HIDE DEF gone
  <1>3. /\ CallType /\ JobsType /\ JobId' = JobId /\ JobsMove
        /\ (\A i \in JobId : Untouched(jobs[i], jobs'[i]))
    BY <1>1, InvParts, NoJob DEF Steady
  <1>4. FaultsType'
    BY <1>1, InvParts, FaultsKept DEF FaultKind
  <1>5. ASSUME NEW c \in Call PROVE /\ call'[c] \in CallState
                                    /\ call'[c].pc \in AtWork => call'[c] = call[c]
                                    /\ CallOK(c)' /\ (NeverSwallowed => FailsOK(c)')
    <2>1. CASE Serving(c)
      <3>1. call'[c] = gone
        BY <1>1, <2>1
      <3> QED BY <1>2, <3>1 DEF CallOK, FailsOK, At, AtWork, Serving
    <2>2. CASE ~Serving(c)
      <3>1. call'[c] = call[c] /\ call[c] \in CallState
        BY <1>1, <1>3, <2>2 DEF CallType
      <3>2. call[c].pc \notin {"register", "publish"}
        BY <2>2 DEF Serving
      <3> QED BY <1>3, <3>1, <3>2, CallStands, FailsStand, InvParts
    <2> QED BY <2>1, <2>2
  <1>6. CallType'
    <2>1. DOMAIN call' = Call /\ call' = [c \in Call |-> call'[c]]
      BY <1>1
    <2> QED BY <1>5, <2>1 DEF CallType
  <1>7. OneCall'
    BY <1>5, InvParts DEF OneCall
  <1>8. ASSUME NEW j \in JobId' PROVE JobOK(jobs[j])' /\ RuledOut(jobs[j].checked, jobs[j].url)'
    BY <1>1, <1>3, InvParts DEF RuledOut, Finished, RowOf, Steady, JobsOK
  <1>9. TypeOK'
    BY <1>3, <1>4, <1>6 DEF JobsMove, JobsType, FaultsType, CallType, TypeOK
  <1> QED BY <1>5, <1>7, <1>8, <1>9 DEF Inv, SubmissionInv, FailsInv

LEMMA InitInv == Init => Inv
  <1> SUFFICES ASSUME Init PROVE Inv
    OBVIOUS
  <1>1. jobs = <<>> /\ call = [c \in Call |-> Idle] /\ faults = 0
    BY DEF Init
  <1>2. JobId = {} /\ jobs \in Seq(Job) /\ Len(jobs) = 0
    BY <1>1 DEF JobId
  <1>3. TypeOK
    BY <1>1, <1>2, IdleTyped, SubmissionAssumption DEF TypeOK
  <1>4. ASSUME NEW c \in Call PROVE CallOK(c) /\ FailsOK(c) /\ call[c].pc \notin AtWork
    <2>1. call[c] = Idle /\ Idle.pc = "idle" /\ Idle.job = 0 /\ Idle.retry_of = 0 /\ Idle.answer = {}
      BY <1>1 DEF Idle
    <2> QED BY <2>1 DEF CallOK, FailsOK, At, AtWork, Serving
  <1> QED BY <1>2, <1>3, <1>4 DEF Inv, SubmissionInv, FailsInv, OneCall

LEMMA CallsKept ==
  ASSUME Inv, NEW c \in Call,
         Trigger(c) \/ Discover(c) \/ TriggerBatch(c) \/ RetryJob(c) \/ Submit(c)
  PROVE  CallStep(c)
  <1>1. ASSUME Trigger(c) \/ Discover(c) \/ TriggerBatch(c)
        PROVE  CallStep(c)
    <2>1. PICK kind \in Kind, todo \in SUBSET (Url \cup Query) : todo # {} /\ Arrive(c, kind, todo)
      <3>1. CASE Trigger(c)
        <4>1. PICK url \in Url : Arrive(c, "trigger", {url})
          BY <3>1 DEF Trigger
        <4> QED BY <4>1 DEF Kind
      <3>2. CASE Discover(c)
        <4>1. PICK query \in Query : Arrive(c, "discover", {query})
          BY <3>2 DEF Discover
        <4> QED BY <4>1 DEF Kind
      <3>3. CASE TriggerBatch(c)
        BY <3>3 DEF TriggerBatch, Kind
      <3> QED BY <1>1, <3>1, <3>2, <3>3
    <2> QED BY <2>1, ArriveKept
  <1> QED BY <1>1, RetryKept, FailOldKept, RequireKafkaKept, GuardKept, CreateKept, RegisterKept,
             PublishKept, PublishFailsKept, RefusePublishKept, MarkKept DEF Submit

LEMMA StepInv == Inv /\ [ApiNext \/ WorkersNext]_vars => Inv'
  <1> SUFFICES ASSUME Inv, [ApiNext \/ WorkersNext]_vars PROVE Inv'
    OBVIOUS
  <1>1. ASSUME NEW c \in Call,
               Trigger(c) \/ Discover(c) \/ TriggerBatch(c) \/ RetryJob(c) \/ Submit(c)
        PROVE  Inv'
    BY <1>1, CallsKept, CallStepKeeps
  <1>2. CASE WorkersNext \/ \E j \in JobId : PauseRoute(j) \/ ResumeRoute(j)
    BY <1>2, InvParts, WorkersKept, WorkersKeep
  <1>3. CASE CrashApi
    BY <1>3, CrashApiKept
  <1>4. CASE UNCHANGED vars
    <2>1. WorkerStep
      <3>1. UNCHANGED jobs /\ UNCHANGED call /\ UNCHANGED faults
        BY <1>4 DEF vars
      <3> QED BY <3>1, InvParts, NoJob, FaultsKept DEF WorkerStep, JobsKept, Steady
    <2> QED BY <2>1, WorkersKeep
  <1> QED BY <1>1, <1>2, <1>3, <1>4 DEF ApiNext

-----------------------------------------------------------------------------
(* What follows                                                              *)

(* The submission's invariant, inductive as it stands.                       *)
LEMMA SubmissionInvariant == Spec => []Inv
  <1>1. Init => Inv
    BY InitInv
  <1>2. Inv /\ [ApiNext \/ WorkersNext]_vars => Inv'
    BY StepInv
  <1> QED BY <1>1, <1>2, PTL DEF Spec

(* Type correctness of jobs, calls and faults, for any number of them.       *)
THEOREM SubmissionTypeCorrect == Spec => []TypeOK
  <1>1. Inv => TypeOK
    BY DEF Inv, SubmissionInv
  <1> QED BY <1>1, SubmissionInvariant, PTL

(* A job is never 'running' without its message in the topic, whatever is    *)
(* paused, resumed, retried or killed between publish_crawl_request and the  *)
(* status write (pipeline/main.py:257).                                      *)
THEOREM RunningWasSentTheorem == Spec => []RunningWasSent
  <1>1. Inv => RunningWasSent
    BY DEF Inv, SubmissionInv, JobOK, RunningWasSent, RowOf
  <1> QED BY <1>1, SubmissionInvariant, PTL

(* Of the jobs the duplicate guard had before it (pipeline/main.py:214),     *)
(* none crawls the same URL beside the job it let through.                   *)
THEOREM DuplicateSuppressedTheorem == Spec => []DuplicateSuppressed
  <1>1. Inv => DuplicateSuppressed
    BY DEF Inv, SubmissionInv, RuledOut, Finished, DuplicateSuppressed, Active, FinishedStatus
  <1> QED BY <1>1, SubmissionInvariant, PTL

(* A refused submission leaves no job that blocks the next one, unless the   *)
(* UPDATE of fail_job itself fails, which is only logged.                    *)
THEOREM RefusedUnblocksTheorem ==
  ASSUME NeverSwallowed PROVE Spec => []RefusedUnblocks
  <1>1. Inv => RefusedUnblocks
    BY DEF Inv, FailsInv, FailsOK, RefusedUnblocks, Finished
  <1> QED BY <1>1, SubmissionInvariant, PTL

(* A retry never answers with the job it was meant to replace (jobs.py:679), *)
(* under the same condition.                                                 *)
THEOREM RetryIsFreshTheorem ==
  ASSUME NeverSwallowed PROVE Spec => []RetryIsFresh
  <1>1. Inv => RetryIsFresh
    BY DEF Inv, FailsInv, FailsOK, RetryIsFresh, Finished, At
  <1> QED BY <1>1, SubmissionInvariant, PTL

-----------------------------------------------------------------------------
(* Every job of DiscoveryWorker implements TaskLedger: whatever calls,       *)
(* searches, pages, users and faults do, each step of the system is, for     *)
(* each job, a step of the ledger or a stutter.                              *)

(* The ledger's variables, and its actions in terms of them                  *)

LRow(j) == IF Exists(j) THEN LedgerRow(j) ELSE register_job_tasks(create_job, 1)
LOut(j) == IF Exists(j) THEN Outstanding(j) ELSE 1
LLog(j) == IF Exists(j) /\ jobs[j].logged THEN {"completed"} ELSE {}

LEMMA SameStatements ==
  ASSUME NEW j, NEW r, NEW n, NEW s, NEW f, NEW a
  PROVE  /\ Ledger(j)!register_job_tasks(r, n) = register_job_tasks(r, n)
         /\ Ledger(j)!update_job_status(r, s) = update_job_status(r, s)
         /\ Ledger(j)!pause_job(r) = pause_job(r)
         /\ Ledger(j)!resume_job(r) = resume_job(r)
         /\ Ledger(j)!complete_job_task(r, f, a) = complete_job_task(r, f, a)
         /\ Ledger(j)!create_job = create_job
  BY DEF Ledger!register_job_tasks, register_job_tasks, Ledger!update_job_status, update_job_status,
         Ledger!pause_job, pause_job, Ledger!resume_job, resume_job, Ledger!complete_job_task,
         complete_job_task, Ledger!Settled, Settled, Ledger!Decremented, Decremented,
         Ledger!create_job, create_job, Ledger!NULL, NULL, Ledger!ActiveStatus, ActiveStatus

Stutters(j) == LRow(j)' = LRow(j) /\ LOut(j)' = LOut(j) /\ LLog(j)' = LLog(j)

LEMMA StutterStep == ASSUME NEW j, Stutters(j) PROVE UNCHANGED Ledger(j)!vars
  BY DEF Stutters, LRow, LOut, LLog, Ledger!vars

LEMMA RegisterStep ==
  ASSUME NEW j, NEW n \in 1..(1 + MaxSeeds), LOut(j) > 0, LRow(j).active_tasks + n <= 1 + MaxSeeds,
         LRow(j)' = register_job_tasks(LRow(j), n), LOut(j)' = LOut(j) + n, LLog(j)' = LLog(j)
  PROVE  Ledger(j)!Next
  BY SameStatements DEF LRow, LOut, LLog, Ledger!Register, Ledger!Next

LEMMA SettleStep ==
  ASSUME NEW j, NEW failed \in BOOLEAN, LOut(j) > 0,
         LRow(j)' = complete_job_task(LRow(j), failed, LLog(j) # {}),
         LOut(j)' = LOut(j) - 1, LLog(j)' = LLog(j)
  PROVE  Ledger(j)!Next
  BY SameStatements DEF LRow, LOut, LLog, Ledger!Settle, Ledger!Next

LEMMA LoseStep ==
  ASSUME NEW j, NEW n \in 1..(1 + MaxSeeds), n <= LOut(j),
         LRow(j)' = LRow(j), LOut(j)' = LOut(j) - n, LLog(j)' = LLog(j)
  PROVE  Ledger(j)!Next
  BY DEF LRow, LOut, LLog, Ledger!Lose, Ledger!Next

LEMMA LogStep ==
  ASSUME NEW j, LOut(j) > 0, LRow(j)' = LRow(j), LOut(j)' = LOut(j),
         LLog(j)' = LLog(j) \cup {"completed"}
  PROVE  Ledger(j)!Next
  BY DEF LRow, LOut, LLog, Ledger!Log, Ledger!LogStatus, Ledger!Next

LEMMA MarkRunningStep ==
  ASSUME NEW j, LRow(j)' = update_job_status(LRow(j), "running"), LOut(j)' = LOut(j), LLog(j)' = LLog(j)
  PROVE  Ledger(j)!Next
  BY SameStatements DEF LRow, LOut, LLog, Ledger!MarkRunning, Ledger!Next

LEMMA FailStep ==
  ASSUME NEW j, NEW lost \in {0, 1}, lost <= LOut(j),
         LRow(j)' = update_job_status(LRow(j), "failed"), LOut(j)' = LOut(j) - lost, LLog(j)' = LLog(j)
  PROVE  Ledger(j)!Next
  BY SameStatements DEF LRow, LOut, LLog, Ledger!Fail, Ledger!Next

LEMMA PauseStep ==
  ASSUME NEW j, LRow(j)' = pause_job(LRow(j)), LOut(j)' = LOut(j), LLog(j)' = LLog(j)
  PROVE  Ledger(j)!Next
  BY SameStatements DEF LRow, LOut, LLog, Ledger!Pause, Ledger!Next

LEMMA ResumeStep ==
  ASSUME NEW j, LRow(j)' = resume_job(LRow(j)), LOut(j)' = LOut(j), LLog(j)' = LLog(j)
  PROVE  Ledger(j)!Next
  BY SameStatements DEF LRow, LOut, LLog, Ledger!Resume, Ledger!Next

-----------------------------------------------------------------------------
(* The view of one job                                                       *)

LedgerOf(row, sent) == IF ~sent /\ row.active_tasks = 0 THEN register_job_tasks(row, 1) ELSE row

OutOf(job, held) ==
    job.work
    + (IF held THEN 1 ELSE 0)
    + (IF job.search \in {"queued", "gate", "discover", "settle"} THEN 1 ELSE 0)
    + (IF job.search = "send" THEN job.rest + 1 ELSE 0)

LogOf(job) == IF job.logged THEN {"completed"} ELSE {}

\* Somebody is still to publish the root of job j.
Held(j) == ~jobs[j].sent /\ Submitting(j) # {}

LEMMA ViewNow ==
  ASSUME Inv, NEW j \in JobId
  PROVE  /\ LRow(j) = LedgerOf(jobs[j].row, jobs[j].sent)
         /\ LOut(j) = OutOf(jobs[j], Held(j)) /\ LLog(j) = LogOf(jobs[j])
         /\ jobs[j] \in Job /\ JobOK(jobs[j]) /\ RowOf(j) = jobs[j].row
         /\ jobs[j].sent => ~Held(j)
  BY InvParts, JobIs DEF LRow, LOut, LLog, LedgerOf, OutOf, LogOf, Held, Exists, LedgerRow, Outstanding, RowOf

LEMMA ViewThen ==
  ASSUME NEW j \in JobId'
  PROVE  /\ LRow(j)' = LedgerOf(jobs'[j].row, jobs'[j].sent)
         /\ LOut(j)' = OutOf(jobs'[j], Held(j)') /\ LLog(j)' = LogOf(jobs'[j])
  BY DEF LRow, LOut, LLog, LedgerOf, OutOf, LogOf, Held, Exists, LedgerRow, Outstanding, RowOf

LEMMA ViewNone ==
  ASSUME NEW j, j \notin JobId, j \notin JobId'
  PROVE  Stutters(j)
  BY DEF Stutters, LRow, LOut, LLog, Exists

LEMMA OutTyped ==
  ASSUME NEW job \in Job, NEW held
  PROVE  OutOf(job, held) \in Nat
  <1>1. job.work \in Nat /\ job.rest \in Nat
    BY JobFields
  <1> DEFINE a == IF held THEN 1 ELSE 0
             b == IF job.search \in {"queued", "gate", "discover", "settle"} THEN 1 ELSE 0
             d == IF job.search = "send" THEN job.rest + 1 ELSE 0
  <1>2. a \in Nat /\ b \in Nat /\ d \in Nat
    BY <1>1
  <1>3. OutOf(job, held) = job.work + a + b + d
    BY DEF OutOf
  <1> HIDE DEF a, b, d
  <1> QED BY <1>1, <1>2, <1>3

\* The writes that leave the counter alone commute with the root's slot.
LEMMA Commute ==
  ASSUME NEW r \in Row, NEW sent, NEW s \in {"running", "failed"}
  PROVE  /\ LedgerOf(update_job_status(r, s), sent) = update_job_status(LedgerOf(r, sent), s)
         /\ LedgerOf(pause_job(r), sent) = pause_job(LedgerOf(r, sent))
         /\ LedgerOf(resume_job(r), sent) = resume_job(LedgerOf(r, sent))
  <1> DEFINE q == register_job_tasks(r, 1)
  <1>0. r.active_tasks \in Nat
    BY DEF Row
  <1>1. q = [status |-> r.status, active_tasks |-> r.active_tasks + 1, resume_status |-> r.resume_status]
    BY DEF register_job_tasks, Row
  <1>2. update_job_status(r, s).active_tasks = r.active_tasks /\ pause_job(r).active_tasks = r.active_tasks
        /\ resume_job(r).active_tasks = r.active_tasks
    BY DEF update_job_status, pause_job, resume_job, Row
  <1>3. update_job_status(q, s) = register_job_tasks(update_job_status(r, s), 1)
    BY <1>0, <1>1 DEF update_job_status, register_job_tasks, Row
  <1>4. pause_job(q) = register_job_tasks(pause_job(r), 1)
    BY <1>0, <1>1 DEF pause_job, register_job_tasks, Row
  <1>5. resume_job(q) = register_job_tasks(resume_job(r), 1)
    BY <1>0, <1>1 DEF resume_job, register_job_tasks, Row
  <1> QED BY <1>2, <1>3, <1>4, <1>5 DEF LedgerOf

-----------------------------------------------------------------------------
(* Steps of a worker, the watchdog or the user on one job                    *)

Implements(j) == Ledger(j)!Next \/ UNCHANGED Ledger(j)!vars

(* One job is written, no call moves.                                        *)
LEMMA OneView ==
  ASSUME Inv, NEW j \in JobId, NEW new \in Job, jobs' = [jobs EXCEPT ![j] = new], UNCHANGED call,
         new.sent = jobs[j].sent
  PROVE  /\ LRow(j)' = LedgerOf(new.row, new.sent)
         /\ LOut(j)' = OutOf(new, Held(j)) /\ LLog(j)' = LogOf(new)
         /\ \A i : i # j => Implements(i)
  <1>1. /\ JobId' = JobId /\ jobs'[j] = new /\ \A i \in JobId : i # j => jobs'[i] = jobs[i]
    BY InvParts, Written DEF Steady
  <1>2. \A i : Submitting(i)' = Submitting(i)
    BY DEF Submitting, Serving
  <1>3. Held(j)' = Held(j)
    BY <1>1, <1>2 DEF Held
  <1>4. ASSUME NEW i, i # j PROVE Implements(i)
    <2>1. CASE i \in JobId
      <3>1. jobs'[i] = jobs[i] /\ i \in JobId'
        BY <1>1, <1>4, <2>1
      <3>2. Held(i)' = Held(i)
        BY <1>2, <3>1 DEF Held
      <3>3. Stutters(i)
        BY <2>1, <3>1, <3>2, ViewNow, ViewThen DEF Stutters
      <3> QED BY <3>3, StutterStep DEF Implements
    <2>2. CASE i \notin JobId
      BY <1>1, <2>2, ViewNone, StutterStep DEF Implements
    <2> QED BY <2>1, <2>2
  <1> QED BY <1>1, <1>3, <1>4, ViewThen

(* A statement on the row of job j.                                          *)
LEMMA RowView ==
  ASSUME Inv, NEW j \in JobId, NEW r \in Row, WriteRow(j, r), UNCHANGED call
  PROVE  /\ LRow(j)' = LedgerOf(r, jobs[j].sent) /\ LOut(j)' = LOut(j) /\ LLog(j)' = LLog(j)
         /\ \A i : i # j => Implements(i)
  <1> DEFINE new == [jobs[j] EXCEPT !.row = r]
  <1>1. jobs[j] \in Job
    BY ViewNow
  <1>2. /\ new \in Job /\ new.row = r /\ new.sent = jobs[j].sent /\ new.work = jobs[j].work
        /\ new.rest = jobs[j].rest /\ new.search = jobs[j].search /\ new.logged = jobs[j].logged
    BY <1>1, WithRow
  <1>3. jobs' = [jobs EXCEPT ![j] = new]
    BY DEF WriteRow
  <1> HIDE DEF new
  <1>4. OutOf(new, Held(j)) = OutOf(jobs[j], Held(j)) /\ LogOf(new) = LogOf(jobs[j])
    BY <1>2 DEF OutOf, LogOf
  <1> QED BY <1>2, <1>3, <1>4, ViewNow, OneView

(* The search of job j goes on.                                              *)
LEMMA SearchView ==
  ASSUME Inv, NEW j \in JobId, NEW pc \in Waits, NEW r \in Row, SearchStep(j, pc, r), UNCHANGED call,
         jobs[j].search # "none"
  PROVE  /\ LRow(j) = jobs[j].row /\ LRow(j)' = r /\ LLog(j)' = LLog(j)
         /\ LOut(j) = jobs[j].work
                      + (IF jobs[j].search \in {"queued", "gate", "discover", "settle"} THEN 1 ELSE 0)
                      + (IF jobs[j].search = "send" THEN jobs[j].rest + 1 ELSE 0)
         /\ LOut(j)' = jobs[j].work + (IF pc \in {"gate", "discover"} THEN 1 ELSE 0)
         /\ \A i : i # j => Implements(i)
  <1> DEFINE new == [jobs[j] EXCEPT !.search = pc, !.row = r]
  <1>1. jobs[j] \in Job /\ jobs[j].sent /\ ~Held(j) /\ jobs[j].work \in Nat /\ jobs[j].rest \in Nat
    BY ViewNow, JobFields DEF JobOK
  <1>2. /\ new \in Job /\ new.row = r /\ new.sent = jobs[j].sent /\ new.work = jobs[j].work
        /\ new.rest = jobs[j].rest /\ new.search = pc /\ new.logged = jobs[j].logged
    BY <1>1 DEF Job, Waits
  <1>3. jobs' = [jobs EXCEPT ![j] = new]
    BY DEF SearchStep
  <1> HIDE DEF new
  <1>4. /\ LRow(j)' = LedgerOf(new.row, new.sent) /\ LOut(j)' = OutOf(new, Held(j)) /\ LLog(j)' = LogOf(new)
        /\ \A i : i # j => Implements(i)
    BY <1>2, <1>3, OneView
  <1>5. OutOf(new, Held(j)) = jobs[j].work + (IF pc \in {"gate", "discover"} THEN 1 ELSE 0)
    BY <1>1, <1>2 DEF OutOf, Waits
  <1>6. LOut(j) = jobs[j].work
                  + (IF jobs[j].search \in {"queued", "gate", "discover", "settle"} THEN 1 ELSE 0)
                  + (IF jobs[j].search = "send" THEN jobs[j].rest + 1 ELSE 0)
    BY <1>1, ViewNow DEF OutOf
  <1> QED BY <1>1, <1>2, <1>4, <1>5, <1>6, ViewNow DEF LedgerOf, LogOf

\* Only whether the log has an entry matters to the finalizer.
LEMMA LoggedIs ==
  ASSUME Inv, NEW j \in JobId, NEW r, NEW failed
  PROVE  complete_job_task(r, failed, LLog(j) # {}) = complete_job_task(r, failed, jobs[j].logged)
  <1>1. LLog(j) = LogOf(jobs[j])
    BY ViewNow
  <1>2. (LLog(j) # {}) <=> jobs[j].logged
    BY <1>1 DEF LogOf
  <1> QED BY <1>2 DEF complete_job_task, Settled

LEMMA ImpliesAll ==
  ASSUME NEW j, \A i : i # j => Implements(i), Implements(j) PROVE \A i : Implements(i)
  OBVIOUS

LEMMA CrawlStartsView ==
  ASSUME Inv, NEW j \in JobId, CrawlStarts(j) PROVE \A i : Implements(i)
  <1>1. WriteRow(j, update_job_status(RowOf(j), "running")) /\ UNCHANGED call
    BY DEF CrawlStarts, Others
  <1>2. jobs[j].row \in Row /\ RowOf(j) = jobs[j].row /\ update_job_status(jobs[j].row, "running") \in Row
        /\ LRow(j) = LedgerOf(jobs[j].row, jobs[j].sent)
    BY ViewNow, JobFields, StatusWritten
  <1>3. /\ LRow(j)' = LedgerOf(update_job_status(jobs[j].row, "running"), jobs[j].sent)
        /\ LOut(j)' = LOut(j) /\ LLog(j)' = LLog(j)
        /\ \A i : i # j => Implements(i)
    BY <1>1, <1>2, RowView
  <1>4. LRow(j)' = update_job_status(LRow(j), "running")
    BY <1>2, <1>3, Commute
  <1> QED BY <1>3, <1>4, MarkRunningStep DEF Implements

(* The row turns 'failed'; whoever writes it.                                *)
LEMMA FailedView ==
  ASSUME Inv, NEW j \in JobId, WriteRow(j, update_job_status(RowOf(j), "failed")), UNCHANGED call
  PROVE  \A i : Implements(i)
  <1>2. jobs[j].row \in Row /\ RowOf(j) = jobs[j].row /\ update_job_status(jobs[j].row, "failed") \in Row
        /\ LRow(j) = LedgerOf(jobs[j].row, jobs[j].sent)
    BY ViewNow, JobFields, StatusWritten
  <1>3. /\ LRow(j)' = LedgerOf(update_job_status(jobs[j].row, "failed"), jobs[j].sent)
        /\ LOut(j)' = LOut(j) /\ LLog(j)' = LLog(j)
        /\ \A i : i # j => Implements(i)
    BY <1>2, RowView
  <1>4. LRow(j)' = update_job_status(LRow(j), "failed")
    BY <1>2, <1>3, Commute
  <1>5. 0 <= LOut(j) /\ 0 \in {0, 1} /\ LOut(j)' = LOut(j) - 0
    BY <1>3, ViewNow, OutTyped
  <1>6. Ledger(j)!Next
    BY <1>3, <1>4, <1>5, FailStep
  <1> QED BY <1>3, <1>6 DEF Implements

LEMMA PauseView ==
  ASSUME Inv, NEW j \in JobId, PauseRoute(j) PROVE \A i : Implements(i)
  <1>1. WriteRow(j, pause_job(RowOf(j))) /\ UNCHANGED call
    BY DEF PauseRoute
  <1>2. jobs[j].row \in Row /\ RowOf(j) = jobs[j].row /\ pause_job(jobs[j].row) \in Row
        /\ LRow(j) = LedgerOf(jobs[j].row, jobs[j].sent)
    BY ViewNow, JobFields, Paused
  <1>3. /\ LRow(j)' = LedgerOf(pause_job(jobs[j].row), jobs[j].sent)
        /\ LOut(j)' = LOut(j) /\ LLog(j)' = LLog(j)
        /\ \A i : i # j => Implements(i)
    BY <1>1, <1>2, RowView
  <1>4. LRow(j)' = pause_job(LRow(j))
    BY <1>2, <1>3, Commute
  <1> QED BY <1>3, <1>4, PauseStep DEF Implements

LEMMA ResumeView ==
  ASSUME Inv, NEW j \in JobId, ResumeRoute(j) PROVE \A i : Implements(i)
  <1>1. WriteRow(j, resume_job(RowOf(j))) /\ UNCHANGED call /\ RowOf(j).status = "paused"
    BY DEF ResumeRoute
  <1>2. jobs[j].row \in Row /\ RowOf(j) = jobs[j].row /\ resume_job(jobs[j].row) \in Row
        /\ LRow(j) = LedgerOf(jobs[j].row, jobs[j].sent)
    BY <1>1, ViewNow, JobFields, Resumed
  <1>3. /\ LRow(j)' = LedgerOf(resume_job(jobs[j].row), jobs[j].sent)
        /\ LOut(j)' = LOut(j) /\ LLog(j)' = LLog(j)
        /\ \A i : i # j => Implements(i)
    BY <1>1, <1>2, RowView
  <1>4. LRow(j)' = resume_job(LRow(j))
    BY <1>2, <1>3, Commute
  <1> QED BY <1>3, <1>4, ResumeStep DEF Implements

LEMMA JobHas ==
  ASSUME Inv, NEW j \in JobId
  PROVE  /\ jobs[j] \in Job /\ jobs[j].row \in Row /\ RowOf(j) = jobs[j].row /\ JobOK(jobs[j])
         /\ jobs[j].work \in Nat /\ jobs[j].rest \in Nat
         /\ update_job_status(jobs[j].row, "failed") \in Row
         /\ complete_job_task(jobs[j].row, FALSE, jobs[j].logged) \in Row
  BY ViewNow, JobFields, StatusWritten, CompletedOne

LEMMA ReceiveView ==
  ASSUME Inv, NEW j \in JobId, ReceiveSearch(j) PROVE \A i : Implements(i)
  <1>1. PICK pc \in {"gate", "skipped"} : SearchStep(j, pc, RowOf(j))
    BY DEF ReceiveSearch
  <1>2. jobs[j].search = "queued" /\ UNCHANGED call
    BY DEF ReceiveSearch, Searching, Others
  <1>3. pc \in Waits /\ jobs[j].row \in Row /\ RowOf(j) = jobs[j].row /\ jobs[j].work \in Nat
    BY JobHas DEF Waits
  <1>4. /\ LRow(j)' = LRow(j) /\ LLog(j)' = LLog(j) /\ LOut(j) = jobs[j].work + 1
        /\ LOut(j)' = jobs[j].work + (IF pc \in {"gate", "discover"} THEN 1 ELSE 0)
        /\ \A i : i # j => Implements(i)
    BY <1>1, <1>2, <1>3, SearchView
  <1>5. CASE pc = "gate"
    BY <1>4, <1>5, StutterStep DEF Stutters, Implements
  <1>6. CASE pc = "skipped"
    <2>1. LOut(j)' = LOut(j) - 1 /\ 1 <= LOut(j) /\ 1 \in 1..(1 + MaxSeeds)
      BY <1>3, <1>4, <1>6, SeedsAssumption
    <2>2. Ledger(j)!Next
      BY <1>4, <2>1, LoseStep
    <2> QED BY <1>4, <2>2 DEF Implements
  <1> QED BY <1>5, <1>6

LEMMA GateView ==
  ASSUME Inv, NEW j \in JobId, PassPauseGate(j) PROVE \A i : Implements(i)
  <1>1. SearchStep(j, "discover", RowOf(j)) /\ jobs[j].search = "gate" /\ UNCHANGED call
    BY DEF PassPauseGate, Searching
  <1>2. jobs[j].row \in Row /\ RowOf(j) = jobs[j].row /\ jobs[j].work \in Nat /\ "discover" \in Waits
    BY JobHas DEF Waits
  <1>3. /\ LRow(j)' = LRow(j) /\ LLog(j)' = LLog(j) /\ LOut(j)' = LOut(j)
        /\ \A i : i # j => Implements(i)
    BY <1>1, <1>2, SearchView
  <1> QED BY <1>3, StutterStep DEF Stutters, Implements

LEMMA SettleSearchView ==
  ASSUME Inv, NEW j \in JobId, SettleSearch(j) PROVE \A i : Implements(i)
  <1> DEFINE r == complete_job_task(jobs[j].row, FALSE, jobs[j].logged)
  <1>1. SearchStep(j, "done", complete_job_task(RowOf(j), FALSE, jobs[j].logged))
        /\ jobs[j].search = "settle" /\ UNCHANGED call
    BY DEF SettleSearch, Searching, Others
  <1>2. r \in Row /\ SearchStep(j, "done", r) /\ jobs[j].work \in Nat /\ "done" \in Waits
    BY <1>1, JobHas DEF Waits
  <1> HIDE DEF r
  <1>3. /\ LRow(j) = jobs[j].row /\ LRow(j)' = r /\ LLog(j)' = LLog(j)
        /\ LOut(j) = jobs[j].work + 1 /\ LOut(j)' = jobs[j].work
        /\ \A i : i # j => Implements(i)
    BY <1>1, <1>2, SearchView
  <1>4. LRow(j)' = complete_job_task(LRow(j), FALSE, LLog(j) # {})
    BY <1>3, LoggedIs DEF r
  <1>5. LOut(j)' = LOut(j) - 1 /\ LOut(j) > 0
    BY <1>2, <1>3
  <1>6. Ledger(j)!Next
    BY <1>3, <1>4, <1>5, SettleStep
  <1> QED BY <1>3, <1>6 DEF Implements

(* What the search held is lost.                                             *)
LEMMA LostView ==
  ASSUME Inv, NEW j \in JobId, NEW pc \in {"raised", "lost"}, SearchStep(j, pc, RowOf(j)),
         UNCHANGED call, jobs[j].search # "none"
  PROVE  \A i : Implements(i)
  <1> DEFINE h == (IF jobs[j].search \in {"queued", "gate", "discover", "settle"} THEN 1 ELSE 0)
                  + (IF jobs[j].search = "send" THEN jobs[j].rest + 1 ELSE 0)
  <1>1. jobs[j].row \in Row /\ RowOf(j) = jobs[j].row /\ jobs[j].work \in Nat /\ pc \in Waits /\ JobOK(jobs[j])
    BY JobHas DEF Waits
  <1>2. h \in 0..(1 + MaxSeeds)
    BY <1>1, SeedsAssumption DEF JobOK
  <1>3. /\ LRow(j)' = LRow(j) /\ LLog(j)' = LLog(j) /\ LOut(j) = jobs[j].work + h
        /\ LOut(j)' = jobs[j].work /\ \A i : i # j => Implements(i)
    <2>1. /\ LRow(j)' = LRow(j) /\ LLog(j)' = LLog(j)
          /\ LOut(j)' = jobs[j].work + (IF pc \in {"gate", "discover"} THEN 1 ELSE 0)
          /\ \A i : i # j => Implements(i)
      BY <1>1, SearchView
    <2>2. LOut(j) = jobs[j].work
                  + (IF jobs[j].search \in {"queued", "gate", "discover", "settle"} THEN 1 ELSE 0)
                  + (IF jobs[j].search = "send" THEN jobs[j].rest + 1 ELSE 0)
      BY <1>1, SearchView
    <2>3. jobs[j].work + (IF pc \in {"gate", "discover"} THEN 1 ELSE 0) = jobs[j].work
      BY <1>1
    <2>4. jobs[j].work + h = LOut(j)
      <3> DEFINE a == IF jobs[j].search \in {"queued", "gate", "discover", "settle"} THEN 1 ELSE 0
                 b == IF jobs[j].search = "send" THEN jobs[j].rest + 1 ELSE 0
      <3>0. jobs[j].rest \in Nat
        BY JobHas
      <3>1. a \in Nat /\ b \in Nat
        BY <3>0
      <3>2. h = a + b /\ LOut(j) = jobs[j].work + a + b
        BY <2>2
      <3> HIDE DEF a, b, h
      <3> QED BY <1>1, <3>1, <3>2
    <2> HIDE DEF h
    <2> QED BY <2>1, <2>3, <2>4
  <1> HIDE DEF h
  <1>4. CASE h = 0
    BY <1>1, <1>3, <1>4, StutterStep DEF Stutters, Implements
  <1>5. CASE h # 0
    <2>1. h \in 1..(1 + MaxSeeds) /\ h <= LOut(j) /\ LOut(j)' = LOut(j) - h
      BY <1>1, <1>2, <1>3, <1>5, SeedsAssumption
    <2>2. Ledger(j)!Next
      BY <1>3, <2>1, LoseStep
    <2> QED BY <1>3, <2>2 DEF Implements
  <1> QED BY <1>4, <1>5

LEMMA RaisesView ==
  ASSUME Inv, NEW j \in JobId, SearchRaises(j) PROVE \A i : Implements(i)
  BY LostView DEF SearchRaises

LEMMA FailSearchView ==
  ASSUME Inv, NEW j \in JobId, FailSearch(j) PROVE \A i : Implements(i)
  <1>1. jobs[j].search = "raised" /\ UNCHANGED call
        /\ (\/ SearchStep(j, "failed", update_job_status(RowOf(j), "failed"))
            \/ SearchStep(j, "failed", RowOf(j)))
    BY DEF FailSearch, Searching
  <1>2. /\ jobs[j].row \in Row /\ RowOf(j) = jobs[j].row /\ jobs[j].work \in Nat /\ "failed" \in Waits
        /\ update_job_status(jobs[j].row, "failed") \in Row
    BY JobHas DEF Waits
  <1>3. PICK r \in Row : SearchStep(j, "failed", r) /\ r \in {jobs[j].row, update_job_status(jobs[j].row, "failed")}
    BY <1>1, <1>2
  <1>4. /\ LRow(j) = jobs[j].row /\ LRow(j)' = r /\ LLog(j)' = LLog(j) /\ LOut(j)' = LOut(j)
        /\ LOut(j) \in Nat /\ \A i : i # j => Implements(i)
    BY <1>1, <1>2, <1>3, SearchView
  <1>5. CASE r = jobs[j].row
    BY <1>4, <1>5, StutterStep DEF Stutters, Implements
  <1>6. CASE r = update_job_status(jobs[j].row, "failed")
    <2>1. LRow(j)' = update_job_status(LRow(j), "failed") /\ LOut(j)' = LOut(j) - 0 /\ 0 <= LOut(j)
          /\ 0 \in {0, 1}
      BY <1>4, <1>6
    <2>2. Ledger(j)!Next
      BY <1>4, <2>1, FailStep
    <2> QED BY <1>4, <2>2 DEF Implements
  <1> QED BY <1>3, <1>5, <1>6

LEMMA DiscoverView ==
  ASSUME Inv, NEW j \in JobId, DiscoverSeeds(j) PROVE \A i : Implements(i)
  <1>1. PICK n \in 0..MaxSeeds :
          jobs' = [jobs EXCEPT ![j].row = register_job_tasks(@, n), ![j].rest = n,
                               ![j].search = IF n = 0 THEN "settle" ELSE "send"]
    BY DEF DiscoverSeeds
  <1>2. jobs[j].search = "discover" /\ UNCHANGED call /\ n \in Nat
    BY SeedsAssumption DEF DiscoverSeeds, Searching, Others
  <1> DEFINE r == register_job_tasks(jobs[j].row, n)
             pc == IF n = 0 THEN "settle" ELSE "send"
             new == [jobs[j] EXCEPT !.row = r, !.rest = n, !.search = pc]
  <1>3. /\ jobs[j] \in Job /\ jobs[j].row \in Row /\ jobs[j].sent /\ jobs[j].row.active_tasks <= 1
        /\ jobs[j].work \in Nat /\ ~Held(j)
    BY <1>2, ViewNow, JobHas DEF JobOK
  <1>4. r \in Row /\ pc \in {"settle", "send"} /\ (pc = "send" <=> n # 0)
    BY <1>2, <1>3, Registered
  <1>5. jobs' = [jobs EXCEPT ![j] = new]
    BY <1>1
  <1> HIDE DEF r, pc
  <1>6. /\ new \in Job /\ new.row = r /\ new.sent = jobs[j].sent /\ new.work = jobs[j].work
        /\ new.rest = n /\ new.search = pc /\ new.logged = jobs[j].logged
    BY <1>2, <1>3, <1>4 DEF Job
  <1> HIDE DEF new
  <1>7. /\ LRow(j)' = LedgerOf(new.row, new.sent) /\ LOut(j)' = OutOf(new, Held(j)) /\ LLog(j)' = LogOf(new)
        /\ \A i : i # j => Implements(i)
    BY <1>2, <1>5, <1>6, OneView
  <1>8. LRow(j) = jobs[j].row /\ LRow(j)' = r /\ LLog(j)' = LLog(j)
    BY <1>3, <1>6, <1>7, ViewNow DEF LedgerOf, LogOf
  <1>9. LOut(j) = jobs[j].work + 1 /\ LOut(j)' = jobs[j].work + 1 + n
    <2>1. LOut(j) = jobs[j].work + 1
      BY <1>2, <1>3, ViewNow DEF OutOf
    <2>2. OutOf(new, Held(j)) = jobs[j].work + 1 + n
      BY <1>2, <1>3, <1>4, <1>6 DEF OutOf
    <2> QED BY <1>7, <2>1, <2>2
  <1>10. CASE n = 0
    <2>1. LRow(j)' = LRow(j)
      BY <1>8, <1>10 DEF r, register_job_tasks
    <2>2. LOut(j)' = LOut(j)
      BY <1>3, <1>9, <1>10
    <2> QED BY <1>7, <1>8, <2>1, <2>2, StutterStep DEF Stutters, Implements
  <1>11. CASE n # 0
    <2>1. n \in 1..(1 + MaxSeeds) /\ LOut(j) > 0 /\ LOut(j)' = LOut(j) + n
      BY <1>2, <1>3, <1>9, <1>11, SeedsAssumption
    <2>2. LRow(j).active_tasks + n <= 1 + MaxSeeds
      BY <1>2, <1>3, <1>8, JobFields, SeedsAssumption
    <2>3. LRow(j)' = register_job_tasks(LRow(j), n)
      BY <1>8 DEF r
    <2>4. Ledger(j)!Next
      BY <1>8, <2>1, <2>2, <2>3, RegisterStep
    <2> QED BY <1>7, <2>4 DEF Implements
  <1> QED BY <1>10, <1>11

LEMMA SendSeedView ==
  ASSUME Inv, NEW j \in JobId, SendSeed(j) PROVE \A i : Implements(i)
  <1> DEFINE n == jobs[j].rest - 1
             pc == Rest(j)
             w == jobs[j].work + 1
             new == [jobs[j] EXCEPT !.rest = n, !.search = pc, !.work = w]
  <1>1. jobs[j].search = "send" /\ UNCHANGED call /\ jobs' = [jobs EXCEPT ![j] = new]
    BY DEF SendSeed, Searching, Others
  <1>2. /\ jobs[j] \in Job /\ jobs[j].sent /\ jobs[j].work \in Nat /\ ~Held(j) /\ jobs[j].rest \in Nat
    BY <1>1, ViewNow, JobHas DEF JobOK
  <1>3. /\ n \in Nat /\ w \in Nat /\ pc \in {"settle", "send"} /\ (pc = "settle" => n = 0)
    BY <1>1, <1>2, InvParts, RestIs DEF Rest
  <1> HIDE DEF n, pc, w
  <1>4. /\ new \in Job /\ new.row = jobs[j].row /\ new.sent = jobs[j].sent /\ new.work = w
        /\ new.rest = n /\ new.search = pc /\ new.logged = jobs[j].logged
    BY <1>2, <1>3 DEF Job
  <1> HIDE DEF new
  <1>5. /\ LRow(j)' = LedgerOf(new.row, new.sent) /\ LOut(j)' = OutOf(new, Held(j)) /\ LLog(j)' = LogOf(new)
        /\ \A i : i # j => Implements(i)
    BY <1>1, <1>4, OneView
  <1>6. LOut(j) = jobs[j].work + jobs[j].rest + 1
    BY <1>1, <1>2, ViewNow DEF OutOf
  <1>7. OutOf(new, Held(j)) = w + n + 1
    BY <1>2, <1>3, <1>4 DEF OutOf
  <1>8. LOut(j)' = LOut(j)
    BY <1>2, <1>5, <1>6, <1>7 DEF n, w
  <1>9. Stutters(j)
    BY <1>4, <1>5, <1>8, ViewNow DEF Stutters, LedgerOf, LogOf
  <1> QED BY <1>5, <1>9, StutterStep DEF Implements

LEMMA SendFailsView ==
  ASSUME Inv, NEW j \in JobId, SendSeedFails(j) PROVE \A i : Implements(i)
  <1> DEFINE n == jobs[j].rest - 1
             pc == Rest(j)
             r == complete_job_task(jobs[j].row, FALSE, jobs[j].logged)
             new == [jobs[j] EXCEPT !.rest = n, !.search = pc, !.row = r]
  <1>1. jobs[j].search = "send" /\ UNCHANGED call /\ jobs' = [jobs EXCEPT ![j] = new]
    BY DEF SendSeedFails, Searching
  <1>2. /\ jobs[j] \in Job /\ jobs[j].sent /\ jobs[j].work \in Nat /\ ~Held(j) /\ jobs[j].rest \in Nat
        /\ r \in Row
    BY <1>1, ViewNow, JobHas DEF JobOK
  <1>3. /\ n \in Nat /\ pc \in {"settle", "send"} /\ (pc = "settle" => n = 0)
    BY <1>1, <1>2, InvParts, RestIs DEF Rest
  <1> HIDE DEF n, pc, r
  <1>4. /\ new \in Job /\ new.row = r /\ new.sent = jobs[j].sent /\ new.work = jobs[j].work
        /\ new.rest = n /\ new.search = pc /\ new.logged = jobs[j].logged
    BY <1>2, <1>3 DEF Job
  <1> HIDE DEF new
  <1>5. /\ LRow(j)' = LedgerOf(new.row, new.sent) /\ LOut(j)' = OutOf(new, Held(j)) /\ LLog(j)' = LogOf(new)
        /\ \A i : i # j => Implements(i)
    BY <1>1, <1>4, OneView
  <1>6. LOut(j) = jobs[j].work + jobs[j].rest + 1
    BY <1>1, <1>2, ViewNow DEF OutOf
  <1>7. OutOf(new, Held(j)) = jobs[j].work + n + 1
    BY <1>2, <1>3, <1>4 DEF OutOf
  <1>8. LOut(j)' = LOut(j) - 1 /\ LOut(j) > 0
    BY <1>2, <1>5, <1>6, <1>7 DEF n
  <1>9. LRow(j) = jobs[j].row /\ LRow(j)' = r /\ LLog(j)' = LLog(j)
    BY <1>2, <1>4, <1>5, ViewNow DEF LedgerOf, LogOf
  <1>10. LRow(j)' = complete_job_task(LRow(j), FALSE, LLog(j) # {})
    BY <1>9, LoggedIs DEF r
  <1>11. Ledger(j)!Next
    BY <1>8, <1>9, <1>10, SettleStep
  <1> QED BY <1>5, <1>11 DEF Implements

LEMMA LogsView ==
  ASSUME Inv, NEW j \in JobId, CrawlLogs(j) PROVE \A i : Implements(i)
  <1> DEFINE new == [jobs[j] EXCEPT !.logged = TRUE]
  <1>1. jobs[j].work > 0 /\ UNCHANGED call /\ jobs' = [jobs EXCEPT ![j] = new]
    BY DEF CrawlLogs, Others
  <1>2. jobs[j] \in Job /\ jobs[j].work \in Nat /\ jobs[j].rest \in Nat
    BY JobHas
  <1>3. /\ new \in Job /\ new.row = jobs[j].row /\ new.sent = jobs[j].sent /\ new.work = jobs[j].work
        /\ new.rest = jobs[j].rest /\ new.search = jobs[j].search /\ new.logged
    BY <1>2 DEF Job
  <1> HIDE DEF new
  <1>4. /\ LRow(j)' = LedgerOf(new.row, new.sent) /\ LOut(j)' = OutOf(new, Held(j)) /\ LLog(j)' = LogOf(new)
        /\ \A i : i # j => Implements(i)
    BY <1>1, <1>3, OneView
  <1>5. OutOf(new, Held(j)) = OutOf(jobs[j], Held(j)) /\ LogOf(new) = LogOf(jobs[j]) \cup {"completed"}
    BY <1>3 DEF OutOf, LogOf
  <1>6. OutOf(jobs[j], Held(j)) > 0
    <2> DEFINE a == IF Held(j) THEN 1 ELSE 0
               b == IF jobs[j].search \in {"queued", "gate", "discover", "settle"} THEN 1 ELSE 0
               d == IF jobs[j].search = "send" THEN jobs[j].rest + 1 ELSE 0
    <2>1. a \in Nat /\ b \in Nat /\ d \in Nat
      BY <1>2
    <2>2. OutOf(jobs[j], Held(j)) = jobs[j].work + a + b + d
      BY DEF OutOf
    <2> HIDE DEF a, b, d
    <2> QED BY <1>1, <1>2, <2>1, <2>2
  <1>7. /\ LRow(j)' = LRow(j) /\ LOut(j)' = LOut(j) /\ LOut(j) > 0 /\ LLog(j)' = LLog(j) \cup {"completed"}
    BY <1>3, <1>4, <1>5, <1>6, ViewNow
  <1>8. Ledger(j)!Next
    BY <1>7, LogStep
  <1> QED BY <1>4, <1>8 DEF Implements

LEMMA SettlesView ==
  ASSUME Inv, NEW j \in JobId, CrawlSettles(j) PROVE \A i : Implements(i)
  <1>1. PICK failed \in BOOLEAN :
          jobs' = [jobs EXCEPT ![j] = [jobs[j] EXCEPT
                     !.row = complete_job_task(jobs[j].row, failed, jobs[j].logged),
                     !.work = jobs[j].work - 1]]
    BY DEF CrawlSettles
  <1>2. jobs[j].work > 0 /\ UNCHANGED call
    BY DEF CrawlSettles, Others
  <1> DEFINE r == complete_job_task(jobs[j].row, failed, jobs[j].logged)
             w == jobs[j].work - 1
             new == [jobs[j] EXCEPT !.row = r, !.work = w]
  <1>3. /\ jobs[j] \in Job /\ jobs[j].sent /\ jobs[j].work \in Nat /\ jobs[j].rest \in Nat
        /\ ~Held(j) /\ r \in Row
    <2>1. /\ jobs[j] \in Job /\ jobs[j].work \in Nat /\ jobs[j].rest \in Nat /\ jobs[j].row \in Row
          /\ JobOK(jobs[j])
      BY JobHas
    <2>2. jobs[j].sent
      BY <1>2, <2>1 DEF JobOK
    <2> QED BY <2>1, <2>2, ViewNow, CompletedOne
  <1>4. w \in Nat
    BY <1>2, <1>3
  <1>5. jobs' = [jobs EXCEPT ![j] = new]
    BY <1>1
  <1> HIDE DEF r, w
  <1>6. /\ new \in Job /\ new.row = r /\ new.sent = jobs[j].sent /\ new.work = w
        /\ new.rest = jobs[j].rest /\ new.search = jobs[j].search /\ new.logged = jobs[j].logged
    BY <1>3, <1>4 DEF Job
  <1> HIDE DEF new
  <1>7. /\ LRow(j)' = LedgerOf(new.row, new.sent) /\ LOut(j)' = OutOf(new, Held(j)) /\ LLog(j)' = LogOf(new)
        /\ \A i : i # j => Implements(i)
    BY <1>2, <1>5, <1>6, OneView
  <1>8. LOut(j)' = LOut(j) - 1 /\ LOut(j) > 0
    <2> DEFINE a == IF Held(j) THEN 1 ELSE 0
               b == IF jobs[j].search \in {"queued", "gate", "discover", "settle"} THEN 1 ELSE 0
               d == IF jobs[j].search = "send" THEN jobs[j].rest + 1 ELSE 0
    <2>1. a \in Nat /\ b \in Nat /\ d \in Nat
      BY <1>3
    <2>2. OutOf(jobs[j], Held(j)) = jobs[j].work + a + b + d
      BY DEF OutOf
    <2>3. OutOf(new, Held(j)) = w + a + b + d
      BY <1>6 DEF OutOf
    <2>4. LOut(j) = jobs[j].work + a + b + d /\ LOut(j)' = w + a + b + d
      BY <1>7, <2>2, <2>3, ViewNow
    <2> HIDE DEF a, b, d
    <2> QED BY <1>2, <1>3, <2>1, <2>4 DEF w
  <1>9. LRow(j) = jobs[j].row /\ LRow(j)' = r /\ LLog(j)' = LLog(j)
    BY <1>3, <1>6, <1>7, ViewNow DEF LedgerOf, LogOf
  <1>10. LRow(j)' = complete_job_task(LRow(j), failed, LLog(j) # {})
    BY <1>9, LoggedIs DEF r
  <1>11. Ledger(j)!Next
    BY <1>8, <1>9, <1>10, SettleStep
  <1> QED BY <1>7, <1>11 DEF Implements

LEMMA CrashDiscoveryView ==
  ASSUME Inv, CrashDiscovery PROVE \A i : Implements(i)
  <1>1. /\ UNCHANGED call
        /\ jobs' = [j \in JobId |-> IF jobs[j].search \in InHand
                                    THEN [jobs[j] EXCEPT !.search = "lost"] ELSE jobs[j]]
    BY DEF CrashDiscovery
  <1>2. JobId' = JobId
    BY <1>1 DEF JobId
  <1>3. \A i : Submitting(i)' = Submitting(i)
    BY <1>1 DEF Submitting, Serving
  <1>4. ASSUME NEW j \in JobId PROVE Implements(j)
    <2>1. CASE jobs[j].search \in InHand
      <3> DEFINE new == [jobs[j] EXCEPT !.search = "lost"]
      <3>1. jobs'[j] = new
        BY <1>1, <2>1
      <3>2. /\ jobs[j] \in Job /\ jobs[j].sent /\ ~Held(j) /\ jobs[j].work \in Nat /\ jobs[j].rest \in Nat
            /\ (jobs[j].search = "send" => jobs[j].rest \in 1..MaxSeeds)
        BY <2>1, ViewNow, JobHas DEF JobOK, InHand
      <3>3. /\ new.row = jobs[j].row /\ new.sent = jobs[j].sent /\ new.work = jobs[j].work
            /\ new.rest = jobs[j].rest /\ new.search = "lost" /\ new.logged = jobs[j].logged
        BY <3>2 DEF Job
      <3> HIDE DEF new
      <3>4. ~Held(j)'
        BY <3>1, <3>2, <3>3 DEF Held
      <3>5. LRow(j)' = LRow(j) /\ LLog(j)' = LLog(j)
        BY <1>2, <3>1, <3>3, ViewNow, ViewThen DEF LogOf
      <3>6. LOut(j)' = jobs[j].work
        <4>1. LOut(j)' = OutOf(new, Held(j)')
          BY <1>2, <3>1, ViewThen
        <4>2. OutOf(new, Held(j)') = jobs[j].work
          BY <3>2, <3>3, <3>4 DEF OutOf
        <4> QED BY <4>1, <4>2
      <3>7. PICK h \in 0..(1 + MaxSeeds) : LOut(j) = jobs[j].work + h
        <4>1. LOut(j) = OutOf(jobs[j], Held(j))
          BY ViewNow
        <4>2. CASE jobs[j].search = "send"
          <5>1. OutOf(jobs[j], Held(j)) = jobs[j].work + (jobs[j].rest + 1)
            BY <3>2, <4>2 DEF OutOf
          <5> QED BY <3>2, <4>1, <4>2, <5>1, SeedsAssumption
        <4>3. CASE jobs[j].search \in {"gate", "discover", "settle"}
          <5>1. OutOf(jobs[j], Held(j)) = jobs[j].work + 1
            BY <3>2, <4>3 DEF OutOf
          <5> QED BY <3>2, <4>1, <5>1, SeedsAssumption
        <4>4. CASE jobs[j].search = "raised"
          <5>1. OutOf(jobs[j], Held(j)) = jobs[j].work + 0
            BY <3>2, <4>4 DEF OutOf
          <5> QED BY <3>2, <4>1, <5>1, SeedsAssumption
        <4> QED BY <2>1, <4>2, <4>3, <4>4 DEF InHand
      <3>8. CASE h = 0
        BY <3>2, <3>5, <3>6, <3>7, <3>8, StutterStep DEF Stutters, Implements
      <3>9. CASE h # 0
        <4>1. h \in 1..(1 + MaxSeeds) /\ h <= LOut(j) /\ LOut(j)' = LOut(j) - h
          BY <3>2, <3>6, <3>7, <3>9, SeedsAssumption
        <4>2. Ledger(j)!Next
          BY <3>5, <4>1, LoseStep
        <4> QED BY <4>2 DEF Implements
      <3> QED BY <3>8, <3>9
    <2>2. CASE jobs[j].search \notin InHand
      <3>1. jobs'[j] = jobs[j] /\ j \in JobId'
        BY <1>1, <1>2, <2>2
      <3>2. Held(j)' = Held(j)
        BY <1>3, <3>1 DEF Held
      <3>3. Stutters(j)
        BY <3>1, <3>2, ViewNow, ViewThen DEF Stutters
      <3> QED BY <3>3, StutterStep DEF Implements
    <2> QED BY <2>1, <2>2
  <1>5. ASSUME NEW i, i \notin JobId PROVE Implements(i)
    BY <1>2, <1>5, ViewNone, StutterStep DEF Implements
  <1> QED BY <1>4, <1>5

LEMMA WorkersImplement ==
  ASSUME Inv, WorkersNext \/ \E j \in JobId : PauseRoute(j) \/ ResumeRoute(j)
  PROVE  \A i : Implements(i)
  <1>1. ASSUME NEW j \in JobId, WatchdogFails(j) PROVE \A i : Implements(i)
    BY <1>1, FailedView DEF WatchdogFails
  <1> QED BY <1>1, ReceiveView, GateView, DiscoverView, SendSeedView, SendFailsView, SettleSearchView, RaisesView,
             FailSearchView, CrawlStartsView, LogsView, SettlesView, CrashDiscoveryView, PauseView, ResumeView
             DEF WorkersNext
-----------------------------------------------------------------------------
(* Steps of a call                                                           *)

LEMMA NotZero == ASSUME Inv PROVE 0 \notin JobId
  <1>1. jobs \in Seq(Job)
    BY InvParts DEF Steady, JobsType
  <1> QED BY <1>1 DEF JobId

(* A call moves the slot of no job but the one it is at work on.             *)
LEMMA SlotsElsewhere ==
  ASSUME Inv, NEW c \in Call, CallStep(c), NEW i \in JobId, i # call[c].job
  PROVE  Submitting(i)' = Submitting(i)
  <1>1. ASSUME NEW d \in Call, d # c PROVE d \in Submitting(i)' <=> d \in Submitting(i)
    BY <1>1 DEF CallStep, Submitting, Serving
  <1>2. c \notin Submitting(i)
    BY DEF Submitting
  <1>3. c \notin Submitting(i)'
    <2>1. i # 0
      BY NotZero
    <2>2. Serving(c)' /\ call'[c].pc \notin AtWork => call'[c].job = 0
      <3>1. CallType' /\ CallOK(c)'
        BY DEF CallStep
      <3>2. call'[c].pc \in PC
        BY <3>1 DEF CallType, CallState, PC
      <3> QED BY <3>1, <3>2 DEF CallOK, Serving, PC, AtWork
    <2> QED BY <2>1, <2>2 DEF CallStep, Submitting
  <1>4. Submitting(i) \subseteq Call /\ Submitting(i)' \subseteq Call
    BY DEF Submitting
  <1> QED BY <1>1, <1>2, <1>3, <1>4

(* The call at work on a job is the only one; its slot is free when it left. *)
LEMMA OwnSlot ==
  ASSUME Inv, NEW c \in Call, CallStep(c), call[c].pc \in AtWork, NEW j, j = call[c].job
  PROVE  /\ j \in JobId /\ (Held(j) <=> ~jobs[j].sent)
         /\ call'[c].pc \in AtWork /\ call'[c].job = j => Submitting(j)' # {}
         /\ call'[c].pc \notin AtWork => Submitting(j)' = {}
  <1>1. j \in JobId /\ j # 0
    BY OwnJob, NotZero
  <1>2. c \in Submitting(j)
    BY DEF Submitting, Serving, AtWork
  <1>3. ASSUME call'[c].pc \in AtWork, call'[c].job = j
        PROVE  c \in Submitting(j)'
    BY <1>3 DEF Submitting, Serving, AtWork
  <1>4. ASSUME call'[c].pc \notin AtWork, NEW d \in Submitting(j)' PROVE FALSE
    <2>1. d \in Call /\ call'[d].job = j /\ Serving(d)'
      BY <1>4 DEF Submitting
    <2>2. CASE d = c
      <3>1. CallType' /\ CallOK(c)' /\ call'[c].pc \in PC
        BY DEF CallStep, CallType, CallState, PC
      <3>2. call'[c].job = 0
        BY <1>4, <2>1, <2>2, <3>1 DEF CallOK, Serving, PC, AtWork
      <3> QED BY <1>1, <2>1, <2>2, <3>2
    <2>3. CASE d # c
      <3>1. call[d].job = j /\ Serving(d) /\ call[d].pc \in PC /\ CallOK(d)
        BY <2>1, <2>3, InvParts, CallFields DEF CallStep, Serving
      <3>2. call[d].pc \in AtWork
        BY <1>1, <3>1 DEF CallOK, Serving, PC, AtWork
      <3> QED BY <2>1, <2>3, <3>1, <3>2, InvParts DEF OneCall
    <2> QED BY <2>2, <2>3
  <1> QED BY <1>1, <1>2, <1>3, <1>4 DEF Held

(* A call writes one job: the one it is at work on, or while it has none.    *)
LEMMA CallView ==
  ASSUME Inv, NEW c \in Call, CallStep(c), NEW j \in JobId, NEW new \in Job,
         jobs' = [jobs EXCEPT ![j] = new], call[c].job \in {0, j}
  PROVE  /\ jobs'[j] = new
         /\ LRow(j)' = LedgerOf(new.row, new.sent)
         /\ LOut(j)' = OutOf(new, Held(j)') /\ LLog(j)' = LogOf(new)
         /\ \A i : i # j => Implements(i)
  <1>1. /\ JobId' = JobId /\ jobs'[j] = new /\ \A i \in JobId : i # j => jobs'[i] = jobs[i]
    BY InvParts, Written DEF Steady
  <1>2. ASSUME NEW i, i # j PROVE Implements(i)
    <2>1. CASE i \in JobId
      <3>1. jobs'[i] = jobs[i] /\ i \in JobId' /\ i # 0
        BY <1>1, <1>2, <2>1, NotZero
      <3>2. Held(i)' = Held(i)
        BY <1>2, <2>1, <3>1, SlotsElsewhere DEF Held
      <3>3. Stutters(i)
        BY <2>1, <3>1, <3>2, ViewNow, ViewThen DEF Stutters
      <3> QED BY <3>3, StutterStep DEF Implements
    <2>2. CASE i \notin JobId
      BY <1>1, <2>2, ViewNone, StutterStep DEF Implements
    <2> QED BY <2>1, <2>2
  <1> QED BY <1>1, <1>2, ViewThen

LEMMA SameJob == ASSUME Inv, NEW j \in JobId, UNCHANGED jobs PROVE jobs' = [jobs EXCEPT ![j] = jobs[j]]
  BY InvParts DEF Steady, JobsType

(* A call that has no job writes no job.                                     *)
LEMMA NoJobView ==
  ASSUME Inv, NEW c \in Call, CallStep(c), UNCHANGED jobs, call[c].job = 0
  PROVE  \A i : Implements(i)
  <1> SUFFICES ASSUME NEW i PROVE Implements(i)
    OBVIOUS
  <1>1. JobId' = JobId
    BY DEF JobId
  <1>2. CASE i \in JobId
    <2>1. i # call[c].job /\ jobs'[i] = jobs[i] /\ i \in JobId'
      BY <1>1, <1>2, NotZero
    <2>2. Held(i)' = Held(i)
      BY <1>2, <2>1, SlotsElsewhere DEF Held
    <2>3. Stutters(i)
      BY <1>2, <2>1, <2>2, ViewNow, ViewThen DEF Stutters
    <2> QED BY <2>3, StutterStep DEF Implements
  <1>3. CASE i \notin JobId
    BY <1>1, <1>3, ViewNone, StutterStep DEF Implements
  <1> QED BY <1>2, <1>3

\* What a job has outstanding with and without the root's slot.
LEMMA WithoutSlot ==
  ASSUME NEW job \in Job, NEW held
  PROVE  /\ OutOf(job, FALSE) = OutOf(job, held) - (IF held THEN 1 ELSE 0)
         /\ (IF held THEN 1 ELSE 0) <= OutOf(job, held)
  <1> DEFINE a == IF held THEN 1 ELSE 0
             b == IF job.search \in {"queued", "gate", "discover", "settle"} THEN 1 ELSE 0
             d == IF job.search = "send" THEN job.rest + 1 ELSE 0
  <1>1. job.work \in Nat /\ a \in Nat /\ b \in Nat /\ d \in Nat
    BY JobFields
  <1>2. OutOf(job, held) = job.work + a + b + d /\ OutOf(job, FALSE) = job.work + 0 + b + d
    BY DEF OutOf
  <1>3. \A w, x, y, z \in Nat : w + 0 + y + z = (w + x + y + z) - x /\ x <= w + x + y + z
    OBVIOUS
  <1> HIDE DEF a, b, d
  <1>4. OutOf(job, FALSE) = OutOf(job, held) - a
    <2>1. job.work + 0 + b + d = (job.work + a + b + d) - a
      BY <1>1
    <2> QED BY <1>2, <2>1
  <1>5. a <= OutOf(job, held)
    BY <1>1, <1>2, <1>3
  <1> QED BY <1>4, <1>5 DEF a

(* A call leaves its job as it is: its slot, if it still has it, is lost.    *)
LEMMA LeaveView ==
  ASSUME Inv, NEW c \in Call, CallStep(c), call[c].pc \in AtWork, call'[c].pc \notin AtWork,
         UNCHANGED jobs
  PROVE  \A i : Implements(i)
  <1>0. PICK j : j = call[c].job
    OBVIOUS
  <1>1. /\ j \in JobId /\ (Held(j) <=> ~jobs[j].sent) /\ Submitting(j)' = {}
    BY <1>0, OwnSlot
  <1>2. jobs' = [jobs EXCEPT ![j] = jobs[j]] /\ jobs[j] \in Job
    BY <1>1, SameJob, ViewNow
  <1>3. /\ LRow(j)' = LRow(j) /\ LOut(j)' = OutOf(jobs[j], Held(j)') /\ LLog(j)' = LLog(j)
        /\ \A i : i # j => Implements(i)
    <2>1. call[c].job \in {0, j}
      BY <1>0
    <2>2. /\ LRow(j)' = LedgerOf(jobs[j].row, jobs[j].sent) /\ LOut(j)' = OutOf(jobs[j], Held(j)')
          /\ LLog(j)' = LogOf(jobs[j]) /\ \A i : i # j => Implements(i)
      BY <1>1, <1>2, <2>1, CallView
    <2>3. LRow(j) = LedgerOf(jobs[j].row, jobs[j].sent) /\ LLog(j) = LogOf(jobs[j])
      BY <1>1, ViewNow
    <2> QED BY <2>2, <2>3
  <1>4. ~Held(j)' /\ LOut(j)' = OutOf(jobs[j], FALSE)
    BY <1>1, <1>3 DEF Held, OutOf
  <1>5. LOut(j) = OutOf(jobs[j], Held(j)) /\ LOut(j) \in Nat
    BY <1>1, <1>2, ViewNow, OutTyped
  <1>6. CASE Held(j)
    <2>1. LOut(j)' = LOut(j) - 1 /\ 1 <= LOut(j) /\ 1 \in 1..(1 + MaxSeeds)
      <3>1. LOut(j)' = LOut(j) - 1 /\ 1 <= LOut(j)
        BY <1>2, <1>4, <1>5, <1>6, WithoutSlot
      <3> QED BY <3>1, SeedsAssumption
    <2>2. Ledger(j)!Next
      BY <1>3, <2>1, LoseStep
    <2> QED BY <1>3, <2>2 DEF Implements
  <1>7. CASE ~Held(j)
    <2>1. LOut(j)' = LOut(j)
      BY <1>4, <1>5, <1>7 DEF OutOf
    <2> QED BY <1>3, <2>1, StutterStep DEF Stutters, Implements
  <1> QED BY <1>6, <1>7
\* After Goto the call has the job it had.
LEMMA GoesOn ==
  ASSUME Inv, NEW c \in Call, NEW pc, Goto(c, pc)
  PROVE  call'[c].pc = pc /\ call'[c].job = call[c].job
  <1>1. call \in [Call -> CallState] /\ call[c] \in CallState
    BY InvParts DEF CallType
  <1> DEFINE n == [call[c] EXCEPT !.pc = pc]
  <1>2. n.pc = pc /\ n.job = call[c].job
    BY <1>1 DEF CallState
  <1>3. call' = [call EXCEPT ![c] = n]
    BY DEF Goto
  <1> HIDE DEF n
  <1>4. call'[c] = n
    BY <1>1, <1>3
  <1> QED BY <1>2, <1>4

\* After NextUrl it is at work on none.
LEMMA GoesAway ==
  ASSUME Inv, NEW c \in Call, NEW a, NEW stop \in {"no", "refused", "error"}, NextUrl(c, a, stop)
  PROVE  call'[c].pc \notin AtWork
  <1>1. call \in [Call -> CallState] /\ call[c] \in CallState
    BY InvParts DEF CallType
  <1> DEFINE rest == call[c].todo \ {CurrentUrl(c)}
             on == [call[c] EXCEPT !.todo = rest, !.answer = call[c].answer \cup a, !.checked = {},
                                   !.pc = "kafka", !.job = 0]
             off == [Idle EXCEPT !.pc = IF stop = "no" THEN "done" ELSE stop,
                                 !.answer = call[c].answer \cup a, !.retry_of = call[c].retry_of,
                                 !.job = IF stop = "refused" THEN call[c].job ELSE 0]
             n == IF stop = "no" /\ rest # {} THEN on ELSE off
  <1>2. call' = [call EXCEPT ![c] = n]
    BY DEF NextUrl
  <1>3. on.pc = "kafka"
    BY <1>1 DEF CallState
  <1>4. off.pc = IF stop = "no" THEN "done" ELSE stop
    BY DEF Idle
  <1> HIDE DEF rest, on, off
  <1>5. n.pc \notin AtWork
    BY <1>3, <1>4 DEF AtWork
  <1> HIDE DEF n
  <1>6. call'[c] = n
    BY <1>1, <1>2
  <1> QED BY <1>5, <1>6

LEMMA RaiseView ==
  ASSUME Inv, NEW c \in Call, CallStep(c), call[c].pc \in AtWork, Raise(c), UNCHANGED jobs
  PROVE  \A i : Implements(i)
  <1>1. PICK stop \in {"no", "error"} : NextUrl(c, {}, stop)
    BY DEF Raise
  <1>2. call'[c].pc \notin AtWork
    BY <1>1, GoesAway
  <1> QED BY <1>2, LeaveView

LEMMA RegisterView ==
  ASSUME Inv, NEW c \in Call, CallStep(c), RegisterRoot(c)
  PROVE  \A i : Implements(i)
  <1>0. PICK j : j = call[c].job
    OBVIOUS
  <1>1. At(c, "register") /\ call[c].pc \in AtWork
    BY DEF RegisterRoot, At, AtWork
  <1>2. CASE Raise(c) /\ UNCHANGED jobs
    BY <1>1, <1>2, RaiseView
  <1>3. CASE WriteRow(j, register_job_tasks(RowOf(j), 1)) /\ Goto(c, "publish")
    <2>1. /\ j \in JobId /\ Held(j) /\ Held(j)' = ~jobs'[j].sent /\ jobs[j] \in Job
          /\ ~jobs[j].sent /\ jobs[j].row.active_tasks = 0 /\ jobs[j].row \in Row /\ RowOf(j) = jobs[j].row
      <3>1. call'[c].pc \in AtWork /\ call'[c].job = call[c].job
        BY <1>3, GoesOn DEF AtWork
      <3>2. j \in JobId /\ (Held(j) <=> ~jobs[j].sent) /\ Submitting(j)' # {}
        BY <1>0, <1>1, <3>1, OwnSlot
      <3>3. ~jobs[j].sent /\ RowOf(j).active_tasks = 0
        BY <1>0, <1>1, OwnJob DEF CallOK
      <3> QED BY <3>2, <3>3, JobHas DEF Held
    <2> DEFINE r == register_job_tasks(jobs[j].row, 1)
               new == [jobs[j] EXCEPT !.row = r]
    <2>2. r \in Row /\ r.active_tasks = 1
      <3>1. r \in Row /\ r.active_tasks = jobs[j].row.active_tasks + 1
        BY <2>1, Registered
      <3> HIDE DEF r
      <3> QED BY <2>1, <3>1
    <2>3. jobs' = [jobs EXCEPT ![j] = new]
      BY <1>3, <2>1 DEF WriteRow
    <2> HIDE DEF r
    <2>4. /\ new \in Job /\ new.row = r /\ new.sent = jobs[j].sent /\ new.work = jobs[j].work
          /\ new.rest = jobs[j].rest /\ new.search = jobs[j].search /\ new.logged = jobs[j].logged
      BY <2>1, <2>2, WithRow
    <2> HIDE DEF new
    <2>5. /\ jobs'[j] = new /\ LRow(j)' = LedgerOf(new.row, new.sent)
          /\ LOut(j)' = OutOf(new, Held(j)') /\ LLog(j)' = LogOf(new)
          /\ \A i : i # j => Implements(i)
      BY <1>0, <2>1, <2>3, <2>4, CallView
    <2>6. LRow(j)' = LRow(j)
      <3>1. LRow(j) = r
        BY <2>1, ViewNow DEF LedgerOf, r
      <3>2. LRow(j)' = r
        BY <2>1, <2>2, <2>4, <2>5 DEF LedgerOf
      <3> QED BY <3>1, <3>2
    <2>7. LOut(j)' = LOut(j) /\ LLog(j)' = LLog(j)
      BY <2>1, <2>4, <2>5, ViewNow DEF OutOf, LogOf
    <2> QED BY <2>5, <2>6, <2>7, StutterStep DEF Stutters, Implements
  <1> QED BY <1>0, <1>2, <1>3 DEF RegisterRoot

Delivers(c) == jobs' = [jobs EXCEPT ![call[c].job] = InTopic(@)]

(* The root message is in its topic: its unit of work is now there.          *)
LEMMA InTopicView ==
  ASSUME Inv, NEW c \in Call, CallStep(c), At(c, "publish"), Delivers(c)
  PROVE  \A i : Implements(i)
  <1>0. PICK j : j = call[c].job
    OBVIOUS
  <1>1. /\ j \in JobId /\ Held(j) /\ jobs[j] \in Job /\ jobs[j].row \in Row
        /\ ~jobs[j].sent /\ jobs[j].row.active_tasks = 1 /\ jobs[j].work = 0 /\ jobs[j].search = "none"
    <2>1. call[c].pc \in AtWork
      BY DEF At, AtWork
    <2>2. j \in JobId /\ (Held(j) <=> ~jobs[j].sent)
      BY <1>0, <2>1, OwnSlot
    <2>3. ~jobs[j].sent /\ RowOf(j).active_tasks = 1
      BY <1>0, <2>1, OwnJob DEF CallOK
    <2> QED BY <2>2, <2>3, JobHas DEF JobOK
  <1>2. PICK new : new = InTopic(jobs[j])
    OBVIOUS
  <1>3. /\ new \in Job /\ new.row = jobs[j].row /\ new.sent /\ new.logged = jobs[j].logged
        /\ \/ new.search = "queued" /\ new.work = 0
           \/ new.search = "none" /\ new.work = 1
    BY <1>1, <1>2 DEF InTopic, Job
  <1>4. /\ jobs'[j] = new /\ LRow(j)' = LedgerOf(new.row, new.sent)
        /\ LOut(j)' = OutOf(new, Held(j)') /\ LLog(j)' = LogOf(new)
        /\ \A i : i # j => Implements(i)
    <2>1. jobs' = [jobs EXCEPT ![j] = new] /\ call[c].job \in {0, j}
      BY <1>0, <1>2 DEF Delivers
    <2>2. j \in JobId /\ new \in Job
      BY <1>1, <1>3
    <2> QED BY <2>1, <2>2, CallView
  <1>5. ~Held(j)'
    BY <1>3, <1>4 DEF Held
  <1>6. LOut(j)' = 1
    BY <1>3, <1>4, <1>5 DEF OutOf
  <1>7. LOut(j) = 1
    BY <1>1, ViewNow DEF OutOf
  <1>8. LRow(j)' = LRow(j) /\ LLog(j)' = LLog(j)
    BY <1>1, <1>3, <1>4, ViewNow DEF LedgerOf, LogOf
  <1> QED BY <1>4, <1>6, <1>7, <1>8, StutterStep DEF Stutters, Implements

LEMMA PublishFailsView ==
  ASSUME Inv, NEW c \in Call, CallStep(c), PublishFails(c)
  PROVE  \A i : Implements(i)
  <1>0. PICK j : j = call[c].job
    OBVIOUS
  <1>1. At(c, "publish") /\ call[c].pc \in AtWork /\ Goto(c, "publish_failed")
    BY DEF PublishFails, At, AtWork
  <1>2. CASE UNCHANGED jobs
    <2>1. call'[c].pc \in AtWork /\ call'[c].job = call[c].job
      BY <1>1, GoesOn DEF AtWork
    <2>2. j \in JobId /\ (Held(j) <=> ~jobs[j].sent) /\ Submitting(j)' # {}
      BY <1>0, <1>1, <2>1, OwnSlot
    <2>3. jobs' = [jobs EXCEPT ![j] = jobs[j]] /\ jobs[j] \in Job
      BY <1>2, <2>2, SameJob, ViewNow
    <2>4. call[c].job \in {0, j}
      BY <1>0
    <2>5. /\ LRow(j)' = LedgerOf(jobs[j].row, jobs[j].sent) /\ LOut(j)' = OutOf(jobs[j], Held(j)')
          /\ LLog(j)' = LogOf(jobs[j]) /\ \A i : i # j => Implements(i)
      BY ZenonT(40), <2>2, <2>3, <2>4, CallView
    <2>6. Held(j)' = Held(j)
      BY <1>2, <2>2 DEF Held
    <2>7. Stutters(j)
      BY <2>2, <2>5, <2>6, ViewNow DEF Stutters
    <2> QED BY <2>5, <2>7, StutterStep DEF Implements
  <1>3. CASE jobs' = [jobs EXCEPT ![call[c].job] = InTopic(@)]
    BY <1>1, <1>3, InTopicView DEF Delivers
  <1> QED BY <1>2, <1>3 DEF PublishFails

(* fail_job, by a call that has no job or leaves the one it has.             *)
LEMMA FailJobView ==
  ASSUME Inv, NEW c \in Call, CallStep(c), NEW j \in JobId, fail_job(j),
         \/ call[c].job = 0
         \/ call[c].job = j /\ call[c].pc \in AtWork /\ call'[c].pc \notin AtWork
  PROVE  \A i : Implements(i)
  <1>1. CASE UNCHANGED jobs
    BY <1>1, NoJobView, LeaveView
  <1>2. CASE WriteRow(j, update_job_status(RowOf(j), "failed"))
    <2> DEFINE r == update_job_status(jobs[j].row, "failed")
               new == [jobs[j] EXCEPT !.row = r]
    <2>1. jobs[j] \in Job /\ jobs[j].row \in Row /\ RowOf(j) = jobs[j].row /\ r \in Row
      BY JobHas
    <2>2. jobs' = [jobs EXCEPT ![j] = new]
      BY <1>2, <2>1 DEF WriteRow
    <2> HIDE DEF r
    <2>3. /\ new \in Job /\ new.row = r /\ new.sent = jobs[j].sent /\ new.work = jobs[j].work
          /\ new.rest = jobs[j].rest /\ new.search = jobs[j].search /\ new.logged = jobs[j].logged
      BY <2>1, WithRow
    <2> HIDE DEF new
    <2>4. /\ jobs'[j] = new /\ LRow(j)' = LedgerOf(new.row, new.sent)
          /\ LOut(j)' = OutOf(new, Held(j)') /\ LLog(j)' = LogOf(new)
          /\ \A i : i # j => Implements(i)
      <3>1. call[c].job \in {0, j}
        OBVIOUS
      <3> QED BY ZenonT(40), <2>2, <2>3, <3>1, CallView
    <2>5. LRow(j)' = update_job_status(LRow(j), "failed") /\ LLog(j)' = LLog(j)
      <3>1. LedgerOf(r, jobs[j].sent) = update_job_status(LedgerOf(jobs[j].row, jobs[j].sent), "failed")
        BY <2>1, Commute DEF r
      <3> QED BY <2>3, <2>4, <3>1, ViewNow DEF LogOf
    <2>6. OutOf(new, Held(j)') = OutOf(jobs[j], Held(j)')
      BY <2>3 DEF OutOf
    <2>7. (Held(j)' <=> Held(j)) \/ (Held(j) /\ ~Held(j)')
      <3>1. CASE call[c].job = 0
        <4>1. Submitting(j)' = Submitting(j)
          BY <3>1, NotZero, SlotsElsewhere
        <4> QED BY <2>3, <2>4, <4>1 DEF Held
      <3>2. CASE call[c].job = j /\ call[c].pc \in AtWork /\ call'[c].pc \notin AtWork
        <4>1. (Held(j) <=> ~jobs[j].sent) /\ Submitting(j)' = {}
          BY <3>2, OwnSlot
        <4> QED BY <4>1 DEF Held
      <3> QED BY <3>1, <3>2
    <2>8. \E lost \in {0, 1} : lost <= LOut(j) /\ LOut(j)' = LOut(j) - lost
      <3>1. LOut(j) = OutOf(jobs[j], Held(j)) /\ LOut(j) \in Nat
        BY <2>1, ViewNow, OutTyped
      <3>2. CASE Held(j)' <=> Held(j)
        <4>1. LOut(j)' = LOut(j) - 0 /\ 0 <= LOut(j)
          <5>1. OutOf(jobs[j], Held(j)') = OutOf(jobs[j], Held(j))
            BY <3>2 DEF OutOf
          <5> QED BY <2>4, <2>6, <3>1, <5>1
        <4> QED BY <4>1
      <3>3. CASE Held(j) /\ ~Held(j)'
        <4>1. OutOf(jobs[j], Held(j)') = OutOf(jobs[j], FALSE)
          BY <3>3 DEF OutOf
        <4>2. LOut(j)' = LOut(j) - 1 /\ 1 <= LOut(j)
          BY <2>1, <2>4, <2>6, <3>1, <3>3, <4>1, WithoutSlot
        <4> QED BY <4>2
      <3> QED BY <2>7, <3>2, <3>3
    <2>9. Ledger(j)!Next
      BY <2>5, <2>8, FailStep
    <2> QED BY <2>4, <2>9 DEF Implements
  <1> QED BY <1>1, <1>2 DEF fail_job

LEMMA MarkView ==
  ASSUME Inv, NEW c \in Call, CallStep(c), MarkSubmitted(c)
  PROVE  \A i : Implements(i)
  <1>0. PICK j : j = call[c].job
    OBVIOUS
  <1>1. At(c, "mark") /\ call[c].pc \in AtWork
    BY DEF MarkSubmitted, At, AtWork
  <1>2. CASE Raise(c) /\ UNCHANGED jobs
    BY <1>1, <1>2, RaiseView
  <1>3. CASE WriteRow(j, update_job_status(RowOf(j), "running"))
    <2> DEFINE r == update_job_status(jobs[j].row, "running")
               new == [jobs[j] EXCEPT !.row = r]
    <2>1. j \in JobId /\ jobs[j] \in Job /\ jobs[j].row \in Row /\ RowOf(j) = jobs[j].row /\ jobs[j].sent
      BY <1>0, <1>1, OwnJob, JobFields DEF CallOK
    <2>2. r \in Row
      BY <2>1, StatusWritten
    <2>3. jobs' = [jobs EXCEPT ![j] = new]
      BY <1>3, <2>1 DEF WriteRow
    <2> HIDE DEF r
    <2>4. /\ new \in Job /\ new.row = r /\ new.sent = jobs[j].sent /\ new.work = jobs[j].work
          /\ new.rest = jobs[j].rest /\ new.search = jobs[j].search /\ new.logged = jobs[j].logged
      BY <2>1, <2>2, WithRow
    <2> HIDE DEF new
    <2>5. /\ jobs'[j] = new /\ LRow(j)' = LedgerOf(new.row, new.sent)
          /\ LOut(j)' = OutOf(new, Held(j)') /\ LLog(j)' = LogOf(new)
          /\ \A i : i # j => Implements(i)
      <3>1. call[c].job \in {0, j}
        BY <1>0
      <3> QED BY <2>1, <2>3, <2>4, <3>1, CallView
    <2>6. ~Held(j) /\ ~Held(j)'
      BY <2>1, <2>4, <2>5 DEF Held
    <2>7. OutOf(new, Held(j)') = OutOf(jobs[j], Held(j))
      BY <2>4, <2>6 DEF OutOf
    <2>8. LRow(j) = jobs[j].row /\ LRow(j)' = r
      BY <2>1, <2>4, <2>5, ViewNow DEF LedgerOf
    <2>9. LRow(j)' = update_job_status(LRow(j), "running") /\ LOut(j)' = LOut(j) /\ LLog(j)' = LLog(j)
      BY <2>1, <2>4, <2>5, <2>7, <2>8, ViewNow DEF LogOf, r
    <2> QED BY <2>5, <2>9, MarkRunningStep DEF Implements
  <1> QED BY <1>0, <1>2, <1>3 DEF MarkSubmitted

LEMMA CreateView ==
  ASSUME Inv, NEW c \in Call, CallStep(c), CreateJob(c)
  PROVE  \A i : Implements(i)
  <1>1. At(c, "create") /\ Len(jobs) < MaxJobs /\ call[c].job = 0
    BY InvParts DEF CreateJob, CallOK, At
  <1>2. CASE UNCHANGED jobs
    BY <1>1, <1>2, NoJobView
  <1>3. CASE /\ jobs' = Append(jobs, [url |-> CurrentUrl(c), row |-> create_job, logged |-> FALSE,
                                      topic |-> TopicOf(c), sent |-> FALSE,
                                      checked |-> call[c].checked, search |-> "none",
                                      rest |-> 0, work |-> 0])
             /\ call' = [call EXCEPT ![c].pc = "register", ![c].job = Len(jobs) + 1]
    <2>0. PICK k : k = Len(jobs) + 1
      OBVIOUS
    <2> DEFINE new == [url |-> CurrentUrl(c), row |-> create_job, logged |-> FALSE, topic |-> TopicOf(c),
                       sent |-> FALSE, checked |-> call[c].checked, search |-> "none",
                       rest |-> 0, work |-> 0]
               n == [call[c] EXCEPT !.pc = "register", !.job = k]
    <2>1. /\ new.row = create_job /\ ~new.sent /\ ~new.logged /\ new.search = "none" /\ new.work = 0
          /\ jobs' = Append(jobs, new)
      BY <1>3
    <2> HIDE DEF new
    <2>2. jobs \in Seq(Job)
      BY InvParts DEF Steady, JobsType
    <2>3. /\ JobId = 1..Len(jobs) /\ JobId' = 1..k
          /\ jobs'[k] = new /\ \A i \in JobId : jobs'[i] = jobs[i]
      <3>1. JobsType' /\ jobs' \in Seq(Job)
        BY DEF CallStep, JobsMove, JobsType
      <3>2. JobId = 1..Len(jobs) /\ Len(jobs) \in Nat
        BY <2>2 DEF JobId
      <3>3. Len(jobs') = Len(jobs) + 1 /\ jobs'[Len(jobs) + 1] = new /\ DOMAIN jobs' = 1..(Len(jobs) + 1)
            /\ \A i \in 1..Len(jobs) : jobs'[i] = jobs[i]
        BY <2>1, <2>2
      <3> QED BY <2>0, <3>2, <3>3 DEF JobId
    <2>4. k \notin JobId /\ k \in JobId' /\ \A i \in JobId' : i \in JobId \/ i = k
      BY <2>0, <2>2, <2>3
    <2>5. call'[c].pc = "register" /\ call'[c].job = k
      <3>1. call \in [Call -> CallState] /\ call[c] \in CallState
        BY InvParts DEF CallType
      <3>2. call' = [call EXCEPT ![c] = n]
        BY <1>3, <2>0
      <3>3. n.pc = "register" /\ n.job = k
        BY <3>1 DEF CallState
      <3> HIDE DEF n
      <3> QED BY <3>1, <3>2, <3>3
    <2>6. c \in Submitting(k)'
      BY <2>5 DEF Submitting, Serving
    <2>7. Stutters(k)
      <3>1. /\ LRow(k)' = LedgerOf(new.row, new.sent) /\ LOut(k)' = OutOf(new, Held(k)')
            /\ LLog(k)' = LogOf(new)
        BY <2>3, <2>4, ViewThen
      <3>2. Held(k)'
        BY <2>1, <2>3, <2>6 DEF Held
      <3>3. LOut(k)' = 1 /\ LRow(k)' = register_job_tasks(create_job, 1) /\ LLog(k)' = {}
        BY <2>1, <3>1, <3>2, CreatedRow DEF OutOf, LedgerOf, LogOf
      <3>4. LOut(k) = 1 /\ LRow(k) = register_job_tasks(create_job, 1) /\ LLog(k) = {}
        BY <2>4 DEF LOut, LRow, LLog, Exists
      <3> QED BY <3>3, <3>4 DEF Stutters
    <2>8. ASSUME NEW i, i # k PROVE Stutters(i)
      <3>1. CASE i \in JobId
        <4>1. jobs'[i] = jobs[i] /\ i \in JobId' /\ i # call[c].job
          BY <1>1, <2>0, <2>2, <2>3, <3>1, NotZero
        <4>2. Held(i)' = Held(i)
          BY <3>1, <4>1, SlotsElsewhere DEF Held
        <4> QED BY <3>1, <4>1, <4>2, ViewNow, ViewThen DEF Stutters
      <3>2. CASE i \notin JobId
        BY <2>4, <2>8, <3>2, ViewNone
      <3> QED BY <3>1, <3>2
    <2> QED BY <2>7, <2>8, StutterStep DEF Implements
  <1> QED BY <1>2, <1>3 DEF CreateJob

LEMMA CrashApiView ==
  ASSUME Inv, CrashApi
  PROVE  \A i : Implements(i)
  <1>1. /\ call' = [c \in Call |-> IF Serving(c) THEN [Idle EXCEPT !.pc = "gone"] ELSE call[c]]
        /\ UNCHANGED jobs /\ JobId' = JobId
    BY DEF CrashApi, JobId
  <1>2. ASSUME NEW c \in Call PROVE ~Serving(c)'
    <2>1. CASE Serving(c)
      BY <1>1, <2>1 DEF Serving, Idle
    <2>2. CASE ~Serving(c)
      BY <1>1, <2>2 DEF Serving
    <2> QED BY <2>1, <2>2
  <1> SUFFICES ASSUME NEW j PROVE Implements(j)
    OBVIOUS
  <1>3. CASE j \in JobId
    <2>1. ~Held(j)'
      BY <1>2 DEF Held, Submitting
    <2>2. /\ LRow(j)' = LRow(j) /\ LOut(j)' = OutOf(jobs[j], FALSE) /\ LLog(j)' = LLog(j)
      <3>1. /\ LRow(j)' = LedgerOf(jobs[j].row, jobs[j].sent) /\ LOut(j)' = OutOf(jobs[j], Held(j)')
            /\ LLog(j)' = LogOf(jobs[j])
        BY <1>1, <1>3, ViewThen
      <3>2. OutOf(jobs[j], Held(j)') = OutOf(jobs[j], FALSE)
        BY <2>1 DEF OutOf
      <3> QED BY <1>3, <3>1, <3>2, ViewNow
    <2>3. LOut(j) = OutOf(jobs[j], Held(j)) /\ LOut(j) \in Nat /\ jobs[j] \in Job
      BY <1>3, ViewNow, OutTyped
    <2>4. CASE Held(j)
      <3>1. LOut(j)' = LOut(j) - 1 /\ 1 <= LOut(j)
        BY <2>2, <2>3, <2>4, WithoutSlot
      <3>2. 1 \in 1..(1 + MaxSeeds)
        BY SeedsAssumption
      <3>3. Ledger(j)!Next
        BY <2>2, <3>1, <3>2, LoseStep
      <3> QED BY <3>3 DEF Implements
    <2>5. CASE ~Held(j)
      <3>1. LOut(j)' = LOut(j)
        BY <2>2, <2>3, <2>5 DEF OutOf
      <3> QED BY <2>2, <3>1, StutterStep DEF Stutters, Implements
    <2> QED BY <2>4, <2>5
  <1>4. CASE j \notin JobId
    BY <1>1, <1>4, ViewNone, StutterStep DEF Implements
  <1> QED BY <1>3, <1>4

LEMMA CallsImplement ==
  ASSUME Inv, NEW c \in Call,
         Trigger(c) \/ Discover(c) \/ TriggerBatch(c) \/ RetryJob(c) \/ Submit(c)
  PROVE  \A i : Implements(i)
  <1>1. CallStep(c) /\ CallOK(c)
    BY CallsKept, InvParts
  <1>2. ASSUME Trigger(c) \/ Discover(c) \/ TriggerBatch(c) \/ RetryJob(c) \/ RequireKafka(c) \/ DuplicateGuard(c)
        PROVE  \A i : Implements(i)
    <2>1. UNCHANGED jobs /\ call[c].pc \in {"idle", "kafka", "guard"}
      BY <1>2 DEF Trigger, Discover, TriggerBatch, Arrive, RetryJob, RequireKafka, DuplicateGuard, At
    <2>2. call[c].job = 0
      BY <1>1, <2>1 DEF CallOK
    <2> QED BY <1>1, <2>1, <2>2, NoJobView
  <1>3. ASSUME FailOld(c) PROVE \A i : Implements(i)
    <2>1. call[c].job = 0 /\ call[c].retry_of \in JobId /\ fail_job(call[c].retry_of)
      BY <1>1, <1>3 DEF FailOld, CallOK, At
    <2> QED BY <1>1, <2>1, FailJobView
  <1>4. ASSUME Publish(c) PROVE \A i : Implements(i)
    <2>1. At(c, "publish") /\ Delivers(c)
      BY <1>4 DEF Publish, Delivers
    <2> QED BY <1>1, <2>1, InTopicView
  <1>5. ASSUME RefusePublish(c) PROVE \A i : Implements(i)
    <2>1. call[c].pc \in AtWork /\ fail_job(call[c].job) /\ NextUrl(c, {}, "refused")
      BY <1>5 DEF RefusePublish, Refuse, At, AtWork
    <2>2. call'[c].pc \notin AtWork /\ call[c].job \in JobId
      BY <1>1, <2>1, GoesAway DEF CallOK
    <2> QED BY <1>1, <2>1, <2>2, FailJobView
  <1> QED BY <1>1, <1>2, <1>3, <1>4, <1>5, CreateView, RegisterView, PublishFailsView, MarkView DEF Submit

-----------------------------------------------------------------------------
(* The refinement                                                            *)

LEMMA LedgerInit == Init => \A j \in 1..MaxJobs : Ledger(j)!Init
  <1> SUFFICES ASSUME Init, NEW j \in 1..MaxJobs PROVE Ledger(j)!Init
    OBVIOUS
  <1>1. ~Exists(j)
    BY DEF Init, Exists, JobId
  <1>2. LRow(j) = register_job_tasks(create_job, 1) /\ LOut(j) = 1 /\ LLog(j) = {}
    BY <1>1 DEF LRow, LOut, LLog
  <1> QED BY <1>2, SameStatements DEF LRow, LOut, LLog, Ledger!Init

LEMMA LedgerStep ==
  Inv /\ [ApiNext \/ WorkersNext]_vars => \A j \in 1..MaxJobs : Implements(j)
  <1> SUFFICES ASSUME Inv, [ApiNext \/ WorkersNext]_vars PROVE \A j : Implements(j)
    OBVIOUS
  <1>1. ASSUME NEW c \in Call, Trigger(c) \/ Discover(c) \/ TriggerBatch(c) \/ RetryJob(c) \/ Submit(c)
        PROVE  \A j : Implements(j)
    BY <1>1, CallsImplement
  <1>2. CASE WorkersNext \/ \E j \in JobId : PauseRoute(j) \/ ResumeRoute(j)
    BY <1>2, WorkersImplement
  <1>3. CASE CrashApi
    BY <1>3, CrashApiView
  <1>4. ASSUME UNCHANGED vars, NEW j PROVE Implements(j)
    <2>1. UNCHANGED jobs /\ UNCHANGED call
      BY <1>4 DEF vars
    <2>2. Stutters(j)
      BY <2>1 DEF Stutters, LRow, LOut, LLog, Exists, JobId, LedgerRow, RowOf, Outstanding, Submitting, Serving
    <2> QED BY <2>2, StutterStep DEF Implements
  <1> QED BY <1>1, <1>2, <1>3, <1>4 DEF ApiNext

(* Every job, crawl or discovery, from its submission on, keeps to the       *)
(* ledger: register_job_tasks and complete_job_task are called in the order  *)
(* that TaskLedgerProofs needs, by the routes and by the discovery worker,   *)
(* whatever fails in between.                                                *)
THEOREM DiscoveryImplementsLedger == Spec => LedgerSpec
  <1>1. Init => \A j \in 1..MaxJobs : Ledger(j)!Init
    BY LedgerInit
  <1>2. Inv /\ [ApiNext \/ WorkersNext]_vars
          => [\A j \in 1..MaxJobs : UNCHANGED Ledger(j)!vars \/ Ledger(j)!Next]_vars
    BY LedgerStep DEF Implements
  <1> QED BY <1>1, <1>2, SubmissionInvariant, PTL DEF Spec, LedgerSpec
=============================================================================
