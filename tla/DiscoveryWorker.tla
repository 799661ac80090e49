-------------------------- MODULE DiscoveryWorker --------------------------
(***************************************************************************)
(* The other half of a submission: the discovery worker, which turns the   *)
(* message of a topic into seeds on crawl.requests, and, reduced to what   *)
(* they do to a job row and its counter, the crawl workers and the         *)
(* watchdog (CrawlJob has them in detail).  Together with JobSubmission    *)
(* every job implements TaskLedger.                                        *)
(***************************************************************************)
EXTENDS JobSubmission

CONSTANT MaxSeeds    \* request.max_results

ASSUME SeedsAssumption == MaxSeeds \in Nat

Searching(j, pc) == jobs[j].search = pc

\* The search of job j goes on at pc; r is the row it leaves behind.
SearchStep(j, pc, r) == jobs' = [jobs EXCEPT ![j].search = pc, ![j].row = r]

Others == UNCHANGED <<call, faults>>

-----------------------------------------------------------------------------
(* process_request of the discovery worker, one task per message. *)

\* A message is delivered; the job must be pending or running.
ReceiveSearch(j) ==
    /\ Searching(j, "queued")
    /\ SearchStep(j, IF RowOf(j).status \in {"pending", "running"} THEN "gate" ELSE "skipped",
                  RowOf(j))
    /\ Others

\* wait_while_paused; it fails open.
PassPauseGate(j) ==
    /\ Searching(j, "gate")
    /\ \/ RowOf(j).status # "paused" /\ UNCHANGED faults
       \/ RowOf(j).status = "paused" /\ Fault("database")
    /\ SearchStep(j, "discover", RowOf(j))
    /\ UNCHANGED call

\* (Mutant) the slots are registered by whoever processes the seeds.
DiscoverSeeds_unregistered(j) ==
    /\ Searching(j, "discover")
    /\ \E n \in 0..MaxSeeds :
          jobs' = [jobs EXCEPT ![j].rest = n, ![j].search = IF n = 0 THEN "settle" ELSE "send"]
    /\ Others

\* The engines answer; all the seeds are registered with one statement.
DiscoverSeeds(j) ==
    /\ Searching(j, "discover")
    /\ \E n \in 0..MaxSeeds :
          jobs' = [jobs EXCEPT ![j].row = register_job_tasks(@, n), ![j].rest = n,
                               ![j].search = IF n = 0 THEN "settle" ELSE "send"]
    /\ Others

\* The rest of the loop over the seeds.
Rest(j) == IF jobs[j].rest = 1 THEN "settle" ELSE "send"

SendSeed(j) ==
    /\ Searching(j, "send")
    /\ jobs' = [jobs EXCEPT ![j].rest = @ - 1, ![j].search = Rest(j), ![j].work = @ + 1]
    /\ Others

\* A seed that can not be queued gives its slot back.
SendSeedFails(j) ==
    /\ Searching(j, "send")
    /\ Fault("send")
    /\ jobs' = [jobs EXCEPT ![j].rest = @ - 1, ![j].search = Rest(j),
                            ![j].row = complete_job_task(@, FALSE, jobs[j].logged)]
    /\ UNCHANGED call

\* The worker's own task is settled last.
SettleSearch(j) ==
    /\ Searching(j, "settle")
    /\ SearchStep(j, "done", complete_job_task(RowOf(j), FALSE, jobs[j].logged))
    /\ Others

\* A statement raises: process_message_safely fails the job and settles nothing.
SearchRaises(j) ==
    /\ jobs[j].search \in {"queued", "discover", "send", "settle"}
    /\ Fault("database")
    /\ SearchStep(j, "raised", RowOf(j))
    /\ UNCHANGED call

FailSearch(j) ==
    /\ Searching(j, "raised")
    /\ \/ SearchStep(j, "failed", update_job_status(RowOf(j), "failed")) /\ UNCHANGED faults
       \/ SearchStep(j, "failed", RowOf(j)) /\ Fault("swallowed")
    /\ UNCHANGED call

\* The worker is killed after the offsets of what it holds were committed; a graceful
\* stop waits for its tasks and loses nothing.
InHand == {"gate", "discover", "send", "settle", "raised"}

CrashDiscovery ==
    /\ \E j \in JobId : jobs[j].search \in InHand
    /\ Fault("crash")
    /\ jobs' = [j \in JobId |-> IF jobs[j].search \in InHand
                                THEN [jobs[j] EXCEPT !.search = "lost"] ELSE jobs[j]]
    /\ UNCHANGED call

-----------------------------------------------------------------------------
(* The crawl workers and the watchdog. *)

\* A page of job j is started, logged as 'completed', settled.
CrawlStarts(j) ==
    /\ jobs[j].work > 0
    /\ WriteRow(j, update_job_status(RowOf(j), "running"))
    /\ Others

CrawlLogs(j) ==
    /\ jobs[j].work > 0
    /\ jobs' = [jobs EXCEPT ![j].logged = TRUE]
    /\ Others

CrawlSettles(j) ==
    /\ jobs[j].work > 0
    /\ \E failed \in BOOLEAN :
          jobs' = [jobs EXCEPT ![j].row = complete_job_task(@, failed, jobs[j].logged),
                               ![j].work = @ - 1]
    /\ Others

\* No crawl_log entry for JOB_STALE_JOB_SECONDS.
WatchdogFails(j) ==
    /\ RowOf(j).status \in {"pending", "running"}
    /\ Fault("timeout")
    /\ WriteRow(j, update_job_status(RowOf(j), "failed"))
    /\ UNCHANGED call

WorkersNext ==
    \/ \E j \in JobId :
          \/ ReceiveSearch(j) \/ PassPauseGate(j) \/ DiscoverSeeds(j) \/ SendSeed(j)
          \/ SendSeedFails(j) \/ SettleSearch(j) \/ SearchRaises(j) \/ FailSearch(j)
          \/ CrawlStarts(j) \/ CrawlLogs(j) \/ CrawlSettles(j) \/ WatchdogFails(j)
    \/ CrashDiscovery

Spec == Init /\ [][ApiNext \/ WorkersNext]_vars

-----------------------------------------------------------------------------
(* The calls that are at work on the submission of job j. *)
Submitting(j) == {c \in Call : call[c].job = j /\ Serving(c)}

\* What is outstanding of job j: its root message, unless nobody will publish
\* or read it any more, the seeds to come, and the pages.
Outstanding(j) ==
    jobs[j].work
    + (IF ~jobs[j].sent /\ Submitting(j) # {} THEN 1 ELSE 0)
    + (IF jobs[j].search \in {"queued", "gate", "discover", "settle"} THEN 1 ELSE 0)
    + (IF jobs[j].search = "send" THEN jobs[j].rest + 1 ELSE 0)

\* Until its root message is registered, TaskLedger has the job already.
LedgerRow(j) ==
    IF ~jobs[j].sent /\ RowOf(j).active_tasks = 0
    THEN register_job_tasks(RowOf(j), 1) ELSE RowOf(j)

Exists(j) == j \in JobId

Ledger(j) == INSTANCE TaskLedger WITH
    MaxTasks <- 1 + MaxSeeds,
    row <- IF Exists(j) THEN LedgerRow(j) ELSE register_job_tasks(create_job, 1),
    outstanding <- IF Exists(j) THEN Outstanding(j) ELSE 1,
    crawl_log <- IF Exists(j) /\ jobs[j].logged THEN {"completed"} ELSE {}

(* Type invariant. *)
TypeOK ==
    /\ jobs \in Seq(Job) /\ Len(jobs) <= MaxJobs
    /\ call \in [Call -> CallState]
    /\ faults \in 0..MaxFaults

(* submit_discovery_job, fan_out and the routes around them: every job,    *)
(* crawl or discovery, submitted, retried, paused or abandoned at any      *)
(* point, keeps to the ledger; its counter covers what is outstanding.     *)
LedgerSpec ==
    /\ \A j \in 1..MaxJobs : Ledger(j)!Init
    /\ [][\A j \in 1..MaxJobs : UNCHANGED Ledger(j)!vars \/ Ledger(j)!Next]_vars

(* pipeline/main.py:257: publish first, then mark running.  A job never    *)
(* says 'running' without a message in the topic, whatever is paused,      *)
(* resumed, retried or killed in between.                                  *)
RunningWasSent == \A j \in JobId : RowOf(j).status = "running" => jobs[j].sent

(* The 503 of a failed publish says that the crawl was not queued: its job *)
(* never blocks the resubmission, even if it was paused meanwhile or the   *)
(* broker did store the message.                                           *)
RefusedUnblocks ==
    \A c \in Call : At(c, "refused") /\ call[c].job # 0
                      => RowOf(call[c].job).status \in FinishedStatus

(* jobs.py:679: a retry creates a new crawl instead of returning the stuck *)
(* job: the old one has finished for good before the guard looks.          *)
RetryIsFresh ==
    \A c \in Call : call[c].retry_of # 0 =>
        /\ call[c].retry_of \notin call[c].answer
        /\ At(c, "done") => RowOf(call[c].retry_of).status \in FinishedStatus

Active(j) == RowOf(j).status \in {"pending", "running"}

(* pipeline/main.py:214: of the jobs there were when the guard let a       *)
(* submission through, none crawls the same URL later.  (Jobs it does not  *)
(* see - paused ones, and those of a call between guard and INSERT - may.) *)
DuplicateSuppressed ==
    \A k \in JobId : \A j \in jobs[k].checked :
        jobs[j].url = jobs[k].url =>
            ~(Active(j) /\ Active(k))

(* resume_job answers 'Resumed where it left off.' (jobs.py:659): a job    *)
(* that says it is running again has something left to do.                 *)
ResumeContinues ==
    [][\A j \in JobId : ResumeRoute(j) /\ RowOf(j)'.status = "running" => Outstanding(j) > 0]_vars
=============================================================================
