--------------------------- MODULE JobSubmission ---------------------------
(***************************************************************************)
(* The API routes that create jobs: trigger, discover, batch and retry.    *)
(* They run concurrently with each other and with the user who pauses and  *)
(* resumes; DiscoveryWorker adds the workers and the watchdog.  All calls  *)
(* are of one user.  An action is what happens between two awaits.         *)
(***************************************************************************)
EXTENDS JobRow, Sequences, FiniteSets

CONSTANTS
    Call,       \* the requests of the user, each sent once
    Url,        \* URLs that are submitted
    Query,      \* topics; the job of a topic has the url search://<network>/<query>
    Faults,     \* the environment events that may happen
    MaxFaults,  \* bound on how many of them happen
    MaxJobs     \* bound on the jobs created

FaultKind == {"kafka",      \* no connection to the broker
              "send",       \* the publish fails
              "ambiguous",  \* it fails, yet the broker has stored the message
              "database",   \* a statement raises
              "swallowed",  \* the UPDATE of fail_job raises, which is only logged
              "crash",      \* a process is killed
              "pause", "timeout"}

ASSUME SubmissionAssumption ==
    /\ Url \cap Query = {}
    /\ Faults \subseteq FaultKind /\ MaxFaults \in Nat /\ MaxJobs \in Nat

VARIABLES
    jobs,    \* the jobs table, in the order of created_at
    call,    \* call[c]: the coroutine that handles request c
    faults   \* how many environment events happened

vars == <<jobs, call, faults>>

\* A row of the table, and what there is of the job elsewhere.
Job == [url : Url \cup Query,
        row : Row,
        logged : BOOLEAN,              \* crawl_log has a 'completed' entry
        topic : {"crawl.requests", "search.requests"},
        sent : BOOLEAN,                \* the root message reached Kafka
        checked : SUBSET (1..MaxJobs), \* jobs the duplicate guard had ruled out
        search : {"none", "queued", "gate", "discover", "send", "settle", "raised",
                  "done", "skipped", "failed", "lost"},
        rest : Nat,                    \* seeds the search has yet to publish
        work : Nat]                    \* messages on crawl.requests not yet settled

Kind == {"trigger", "discover", "batch", "retry"}

CallState == [kind : Kind,
              pc : {"idle", "fail_old", "kafka", "guard", "create", "register", "publish",
                    "publish_failed", "mark", "done", "refused", "error", "gone"},
              todo : SUBSET (Url \cup Query),  \* what is still to be submitted
              job : 0..MaxJobs,                \* the job being submitted
              checked : SUBSET (1..MaxJobs),
              retry_of : 0..MaxJobs,
              answer : SUBSET (1..MaxJobs)]    \* the job_ids of the response

Idle == [kind |-> "trigger", pc |-> "idle", todo |-> {}, job |-> 0, checked |-> {},
         retry_of |-> 0, answer |-> {}]

JobId == DOMAIN jobs
RowOf(j) == jobs[j].row
At(c, pc) == call[c].pc = pc

Fault(kind) ==
    /\ kind \in Faults
    /\ faults < MaxFaults
    /\ faults' = faults + 1

\* One statement writes the row of job j.
WriteRow(j, r) == jobs' = [jobs EXCEPT ![j].row = r]

\* fail_job never raises.
fail_job(j) ==
    \/ WriteRow(j, update_job_status(RowOf(j), "failed")) /\ UNCHANGED faults
    \/ Fault("swallowed") /\ UNCHANGED jobs

Goto(c, pc) == call' = [call EXCEPT ![c].pc = pc]

Init ==
    /\ jobs = <<>>
    /\ call = [c \in Call |-> Idle]
    /\ faults = 0

-----------------------------------------------------------------------------
(* Requests arrive. *)

Arrive(c, kind, todo) ==
    /\ At(c, "idle")
    /\ call' = [call EXCEPT ![c] = [Idle EXCEPT !.kind = kind, !.todo = todo, !.pc = "kafka"]]
    /\ UNCHANGED <<jobs, faults>>

Trigger(c) == \E url \in Url : Arrive(c, "trigger", {url})
Discover(c) == \E query \in Query : Arrive(c, "discover", {query})
TriggerBatch(c) == Url # {} /\ Arrive(c, "batch", Url)

\* The retry route reads the job; it fails one that is not finished first.
RetryJob(c) ==
    /\ At(c, "idle")
    /\ \E j \in JobId :
          /\ RowOf(j).status \in {"running", "pending", "failed"}
          /\ call' = [call EXCEPT ![c] =
                [Idle EXCEPT !.kind = "retry", !.todo = {jobs[j].url}, !.retry_of = j,
                             !.pc = IF RowOf(j).status = "failed" THEN "kafka"
                                    ELSE "fail_old"]]
    /\ UNCHANGED <<jobs, faults>>

\* (Mutant) the old job is left alone.
FailOld_skipped(c) ==
    /\ At(c, "fail_old")
    /\ Goto(c, "kafka")
    /\ UNCHANGED <<jobs, faults>>

FailOld(c) ==
    /\ At(c, "fail_old")
    /\ fail_job(call[c].retry_of)
    /\ Goto(c, "kafka")

-----------------------------------------------------------------------------
(* submit_crawl_job and submit_discovery_job, for one URL after the other. *)

CurrentUrl(c) == CHOOSE url \in call[c].todo : TRUE

\* The submission of one URL is over: the answer has one more job, or none.
\* Of a call that ended only what the properties ask for is kept.
NextUrl(c, answer, stop) ==
    LET rest == call[c].todo \ {CurrentUrl(c)}
        answers == call[c].answer \cup answer
    IN call' = [call EXCEPT ![c] =
         IF stop = "no" /\ rest # {}
         THEN [@ EXCEPT !.todo = rest, !.answer = answers, !.checked = {}, !.pc = "kafka", !.job = 0]
         ELSE [Idle EXCEPT !.pc = IF stop = "no" THEN "done" ELSE stop, !.answer = answers,
                           !.retry_of = call[c].retry_of,
                           !.job = IF stop = "refused" THEN call[c].job ELSE 0]]

\* An HTTPException ends the request, another exception ends it but for a batch.
Refuse(c) == NextUrl(c, {}, "refused")

Raise(c) == NextUrl(c, {}, IF call[c].kind = "batch" THEN "no" ELSE "error")

\* _require_kafka; a discovery job has no duplicate guard.
RequireKafka(c) ==
    /\ At(c, "kafka")
    /\ \/ /\ Goto(c, IF call[c].kind = "discover" THEN "create" ELSE "guard")
          /\ UNCHANGED faults
       \/ Fault("kafka") /\ Refuse(c)
    /\ UNCHANGED jobs

\* (Mutant) the guard looks at running jobs only.
ActiveJobs_running(url) == {j \in JobId : jobs[j].url = url /\ RowOf(j).status = "running"}

\* get_active_job_for_url: neither 'paused' nor 'needs_review' counts.
ActiveJobs(url) ==
    {j \in JobId : jobs[j].url = url /\ RowOf(j).status \in {"pending", "running"}}

\* ORDER BY created_at DESC, the first that matches.
Newest(ids) == {j \in ids : \A k \in ids : k <= j}

\* The duplicate guard answers with the active job; if it fails it is ignored.
DuplicateGuard(c) ==
    /\ At(c, "guard")
    /\ \/ /\ IF ActiveJobs(CurrentUrl(c)) # {}
             THEN NextUrl(c, Newest(ActiveJobs(CurrentUrl(c))), "no")
             ELSE call' = [call EXCEPT ![c].pc = "create",
                              ![c].checked = {j \in JobId : RowOf(j).status \notin
                                                              {"paused", "needs_review"}}]
          /\ UNCHANGED faults
       \/ Fault("database") /\ Goto(c, "create")
    /\ UNCHANGED jobs

\* A retry is a crawl, whatever the url of the old job is.
TopicOf(c) == IF call[c].kind = "discover" THEN "search.requests" ELSE "crawl.requests"

CreateJob(c) ==
    /\ At(c, "create")
    /\ Len(jobs) < MaxJobs
    /\ \/ /\ jobs' = Append(jobs, [url |-> CurrentUrl(c), row |-> create_job, logged |-> FALSE,
                                   topic |-> TopicOf(c), sent |-> FALSE,
                                   checked |-> call[c].checked, search |-> "none",
                                   rest |-> 0, work |-> 0])
          /\ call' = [call EXCEPT ![c].pc = "register", ![c].job = Len(jobs) + 1]
          /\ UNCHANGED faults
       \/ Fault("database") /\ Raise(c) /\ UNCHANGED jobs

\* (Mutant) the job is marked running before its message is published.
RegisterRoot_running(c) ==
    /\ At(c, "register")
    /\ LET j == call[c].job IN
       WriteRow(j, update_job_status(register_job_tasks(RowOf(j), 1), "running"))
    /\ Goto(c, "publish")
    /\ UNCHANGED faults

\* One outstanding task stands for the root message.
RegisterRoot(c) ==
    /\ At(c, "register")
    /\ LET j == call[c].job IN
       \/ /\ WriteRow(j, register_job_tasks(RowOf(j), 1))
          /\ Goto(c, "publish")
          /\ UNCHANGED faults
       \/ Fault("database") /\ Raise(c) /\ UNCHANGED jobs

\* The root message of job j is in its topic.
InTopic(job) ==
    IF job.topic = "search.requests" THEN [job EXCEPT !.sent = TRUE, !.search = "queued"]
    ELSE [job EXCEPT !.sent = TRUE, !.work = 1]

\* publish_crawl_request, publish_search_request.
Publish(c) ==
    /\ At(c, "publish")
    /\ jobs' = [jobs EXCEPT ![call[c].job] = InTopic(@)]
    /\ Goto(c, "mark")
    /\ UNCHANGED faults

\* The publish raises: the handler goes on to fail the job.
PublishFails(c) ==
    /\ At(c, "publish")
    /\ \/ Fault("send") /\ UNCHANGED jobs
       \/ Fault("ambiguous") /\ jobs' = [jobs EXCEPT ![call[c].job] = InTopic(@)]
    /\ Goto(c, "publish_failed")

\* (Mutant) the job is left as it is.
RefusePublish_pending(c) ==
    /\ At(c, "publish_failed")
    /\ Refuse(c)
    /\ UNCHANGED <<jobs, faults>>

\* The job fails, the caller gets a 503.
RefusePublish(c) ==
    /\ At(c, "publish_failed")
    /\ fail_job(call[c].job)
    /\ Refuse(c)

MarkSubmitted(c) ==
    /\ At(c, "mark")
    /\ LET j == call[c].job IN
       \/ /\ WriteRow(j, update_job_status(RowOf(j), "running"))
          /\ NextUrl(c, {j}, "no")
          /\ UNCHANGED faults
       \/ Fault("database") /\ Raise(c) /\ UNCHANGED jobs

Submit(c) ==
    \/ FailOld(c) \/ RequireKafka(c) \/ DuplicateGuard(c) \/ CreateJob(c)
    \/ RegisterRoot(c) \/ Publish(c) \/ PublishFails(c) \/ RefusePublish(c)
    \/ MarkSubmitted(c)

-----------------------------------------------------------------------------
(* The user pauses and resumes; the API is killed. *)

PauseRoute(j) ==
    /\ RowOf(j).status \in ActiveStatus
    /\ Fault("pause")
    /\ WriteRow(j, pause_job(RowOf(j)))
    /\ UNCHANGED call

ResumeRoute(j) ==
    /\ RowOf(j).status = "paused"
    /\ WriteRow(j, resume_job(RowOf(j)))
    /\ UNCHANGED <<call, faults>>

Serving(c) == call[c].pc \notin {"idle", "done", "refused", "error", "gone"}

\* The API is killed: the calls it was serving end where they are.
CrashApi ==
    /\ \E c \in Call : Serving(c)
    /\ Fault("crash")
    /\ call' = [c \in Call |-> IF Serving(c) THEN [Idle EXCEPT !.pc = "gone"] ELSE call[c]]
    /\ UNCHANGED jobs

ApiNext ==
    \/ \E c \in Call : Trigger(c) \/ Discover(c) \/ TriggerBatch(c) \/ RetryJob(c) \/ Submit(c)
    \/ \E j \in JobId : PauseRoute(j) \/ ResumeRoute(j)
    \/ CrashApi
=============================================================================
