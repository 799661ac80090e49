------------------------------ MODULE CrawlJob ------------------------------
(***************************************************************************)
(* One crawl job from submission to its final status: the API that submits *)
(* it, the surface, deep and dark workers that share the topic             *)
(* crawl.requests (one consumer group each, every group receives every     *)
(* message), the transcribe worker, pause / resume / retry, and the        *)
(* watchdog.  All statements and messages carry the job_id, which is also  *)
(* the Kafka key, so a job is one partition and jobs do not interact here. *)
(*                                                                         *)
(* An await is where another actor may step in: between two awaits that    *)
(* change shared state a task has a control point of its own (task[o].pc). *)
(***************************************************************************)
EXTENDS JobRow, Sequences, FiniteSets

CONSTANTS
    Page,          \* URLs of the crawl, up to normalize_url
    seed_url,      \* the submitted URL
    Links,         \* Links[p]: the links of p that survive filter_links
    Audio,         \* the URLs that classify_url calls audio
    assign_worker, \* assign_worker[p]: the owner the rules engine picks
    Group,         \* the consumer groups that are running
    max_depth,
    Faults,        \* the environment events that may happen
    MaxFaults,     \* bound on how many of them happen
    MaxTasks       \* bound of TaskLedger: the slots a job may have registered at once

Worker == {"surface", "deep", "dark"}

MAX_RETRY_COUNT == 3

FaultKind == {"raise",      \* an exception escapes the processing of a page
              "send",       \* a Kafka publish fails
              "ambiguous",  \* it fails, yet the broker has stored the message
              "crash",      \* a worker or the API is killed
              "lag",        \* ... before its last offsets were committed
              "stop",       \* a worker receives SIGTERM
              "budget",     \* a deep page exceeds DEEP_MESSAGE_BUDGET_SECONDS
              "browser",    \* the deep worker has no browser
              "signup",     \* a requested auto-signup fails
              "pause", "retry", "timeout"}

ASSUME CrawlAssumption ==
    /\ seed_url \in Page /\ Audio \subseteq Page
    /\ Links \in [Page -> SUBSET Page] /\ \A p \in Page : IsFiniteSet(Links[p])
    /\ assign_worker \in [Page -> Worker]
    /\ Group \subseteq Worker \cup {"transcribe"}
    /\ max_depth \in Nat /\ MaxFaults \in Nat /\ MaxTasks \in Nat \ {0}
    /\ Faults \subseteq FaultKind

VARIABLES
    row,             \* the jobs row
    crawl_log,       \* {"completed"} once a page of the job was logged so
    failure_reason,  \* event type of the newest entry get_job_failure_reason sees
    stale,           \* no crawl_log entry for JOB_STALE_JOB_SECONDS
    submit,          \* control point of submit_crawl_job
    crawl_requests,  \* the messages of the job; the audio topic's are among them
    task,            \* task[o]: processing of message o by its owner
    position,        \* position[g]: messages delivered to group g
    committed,       \* committed[g]: the offset g restarts from after a crash
    visited,         \* the Redis dedup set
    published,       \* offsets whose content reached crawl.raw / crawl.parsed
    raised,          \* workers in which the processing of a page raised
    failing,         \* actors that read the status and are about to fail_job
    faults           \* how many environment events happened

vars == <<row, crawl_log, failure_reason, stale, submit, crawl_requests, task,
          position, committed, visited, published, raised, failing, faults>>

logVars == <<crawl_log, failure_reason, stale>>
topicVars == <<crawl_requests, position, committed>>
apiVars == <<submit, failing>>

\* One step of a task touches the row, the log, its own state and little else.
taskFrame == <<apiVars, position, committed>>

CrawlRequest == [url : Page, depth : Nat, worker_type : Worker \cup {"transcribe"},
                 retry_count : Nat]

-----------------------------------------------------------------------------
(* Messages, tasks, logging. *)

Request(u, d, w, n) ==
    [url |-> u, depth |-> d, worker_type |-> w, retry_count |-> n]

\* A published message is not yet delivered to its owner.
Queued == [pc |-> "queued", todo |-> {}]

Processing == {"start", "fetch", "escalating", "handoff", "handed_off", "children", "mark",
               "send", "publish", "log"}

Live == {"queued", "gate", "raised", "settle", "settle_failed"} \cup Processing

Task == [pc : Live \cup {"done", "lost"}, todo : SUBSET Page]

MsgAt(o) == crawl_requests[o]
Owner(o) == MsgAt(o).worker_type
At(o, pc) == task[o].pc = pc
Offset == DOMAIN task

Fault(kind) ==
    /\ kind \in Faults
    /\ faults < MaxFaults
    /\ faults' = faults + 1

Goto(o, pc) == task' = [task EXCEPT ![o] = [pc |-> pc, todo |-> {}]]

\* INSERT INTO crawl_log: activity, and a reason when the entry has details
\* and counts as an error.
LogCompleted ==
    /\ crawl_log' = {"completed"}
    /\ stale' = FALSE
    /\ UNCHANGED failure_reason

LogOther == stale' = FALSE /\ UNCHANGED <<crawl_log, failure_reason>>

LogError(event_type) ==
    /\ stale' = FALSE
    /\ failure_reason' = event_type
    /\ UNCHANGED crawl_log

\* pg_client.fail_job: log the reason, then the status.
fail_job(event_type) ==
    /\ LogError(event_type)
    /\ row' = update_job_status(row, "failed")

\* pg_client.complete_job_task with the entry it logs for a failed job.
Complete(failed) ==
    LET r == complete_job_task(row, failed, "completed" \in crawl_log) IN
    /\ row' = r
    /\ IF failed THEN LogError("task_failed")
       ELSE IF r.status = "failed" THEN LogError("all_sites_failed")
       ELSE UNCHANGED logVars

\* (Mutant) every group settles the message it receives.
owns_message_any(m, w) == TRUE

\* Only the assigned worker may settle the slot.
owns_message(m, w) == m.worker_type = w

complete_job_task_from_message(m, w, failed) ==
    IF owns_message(m, w) THEN Complete(failed) ELSE UNCHANGED <<row, logVars>>

\* (Mutant) every worker swallows the exception.
Escaped_swallowed(w) == "settle"

\* Where an exception that escapes the processing of a page ends up: process_request
\* of surface and transcribe catches it, in the deep and dark workers
\* process_message_safely fails the job.
Escaped(w) == IF w \in {"surface", "transcribe"} THEN "settle" ELSE "raised"

\* No links are extracted at max_depth.
Children(o) ==
    IF MsgAt(o).depth < max_depth THEN Links[MsgAt(o).url] ELSE {}

\* The crawl workers queue children before publishing, the deep worker after.
AfterChildren(w) == IF w = "deep" THEN "log" ELSE "publish"

Init ==
    /\ row = register_job_tasks(create_job, 1)
    /\ crawl_log = {}
    /\ failure_reason = NULL
    /\ stale = FALSE
    /\ submit = "publish"
    /\ crawl_requests = <<>>
    /\ task = <<>>
    /\ position = [g \in Group |-> 0]
    /\ committed = [g \in Group |-> 0]
    /\ visited = {}
    /\ published = {}
    /\ raised = {}
    /\ failing = {}
    /\ faults = 0

-----------------------------------------------------------------------------
(* The API: submit, pause, resume, retry, watchdog. *)

Publish(m) ==
    /\ crawl_requests' = Append(crawl_requests, m)
    /\ UNCHANGED <<position, committed>>

SeedRequest == Request(seed_url, 0, assign_worker[seed_url], 0)

\* publish_crawl_request succeeds.
PublishSeed ==
    /\ submit = "publish"
    /\ submit' = "mark"
    /\ Publish(SeedRequest)
    /\ task' = Append(task, Queued)
    /\ UNCHANGED <<row, logVars, visited, published, raised, failing, faults>>

\* It fails, and the job with it; an ambiguous failure leaves the message behind.
PublishSeedFails ==
    /\ submit = "publish"
    /\ submit' = "done"
    /\ fail_job("publish_failed")
    /\ \/ Fault("send") /\ UNCHANGED <<topicVars, task>>
       \/ Fault("ambiguous") /\ Publish(SeedRequest) /\ task' = Append(task, Queued)
    /\ UNCHANGED <<visited, published, raised, failing>>

\* update_job_status(job_id, "running") after the publish.
MarkSubmitted ==
    /\ submit = "mark"
    /\ submit' = "done"
    /\ row' = update_job_status(row, "running")
    /\ UNCHANGED <<logVars, topicVars, task, visited, published, raised, failing, faults>>

Untouched == UNCHANGED <<topicVars, task, visited, published, raised>>

\* The pause route refuses a finished job; pausing twice changes nothing.
PauseRoute ==
    /\ row.status \in ActiveStatus
    /\ Fault("pause")
    /\ row' = pause_job(row)
    /\ Untouched /\ UNCHANGED <<logVars, apiVars>>

ResumeRoute ==
    /\ row.status = "paused"
    /\ row' = resume_job(row)
    /\ Untouched /\ UNCHANGED <<logVars, apiVars, faults>>

\* The retry route reads the status, later fails the old job (and submits a
\* new one, which is another job).
RetryRoute ==
    /\ row.status \in {"running", "pending"}
    /\ Fault("retry")
    /\ failing' = failing \cup {"retry_requested"}
    /\ Untouched /\ UNCHANGED <<row, logVars, submit>>

\* JOB_STALE_JOB_SECONDS pass without a crawl_log entry.
TimePasses ==
    /\ "timeout" \in Faults
    /\ ~stale /\ row.status \notin FinishedStatus
    /\ stale' = TRUE
    /\ Untouched /\ UNCHANGED <<row, crawl_log, failure_reason, apiVars, faults>>

\* (Mutant) the scan forgets jobs that never started.
WatchdogScan_running ==
    /\ stale
    /\ row.status = "running"
    /\ failing' = failing \cup {"watchdog_timeout"}
    /\ Untouched /\ UNCHANGED <<row, logVars, submit, faults>>

\* get_stale_running_jobs lists the job; the loop fails it later.
WatchdogScan ==
    /\ stale
    /\ row.status \in {"pending", "running"}
    /\ failing' = failing \cup {"watchdog_timeout"}
    /\ Untouched /\ UNCHANGED <<row, logVars, submit, faults>>

FailListed(event_type) ==
    /\ event_type \in failing
    /\ failing' = failing \ {event_type}
    /\ fail_job(event_type)
    /\ Untouched /\ UNCHANGED <<submit, faults>>

\* The API process is killed: what it was about to do never happens.
CrashApi ==
    /\ submit # "done" \/ failing # {}
    /\ Fault("crash")
    /\ submit' = "done"
    /\ failing' = {}
    /\ Untouched /\ UNCHANGED <<row, logVars>>

-----------------------------------------------------------------------------
(* Delivery. *)

\* The transcribe worker reads its own topic, the crawl workers theirs.
Subscribed(g, m) == (g = "transcribe") <=> (m.worker_type = "transcribe")

\* Every group gets every message; the offset is committed at once unless the
\* auto-commit may lag behind.
Advance(g) ==
    /\ position[g] < Len(crawl_requests)
    /\ position' = [position EXCEPT ![g] = @ + 1]
    /\ committed' = IF "lag" \in Faults THEN committed
                    ELSE [committed EXCEPT ![g] = position[g] + 1]
    /\ UNCHANGED <<crawl_requests, apiVars, visited, published, raised, faults>>

DeliverToOwner(g) ==
    /\ Advance(g)
    /\ LET o == position[g] + 1 IN
       /\ Owner(o) = g
       /\ Goto(o, IF g = "transcribe" THEN "fetch" ELSE "gate")
    /\ UNCHANGED <<row, logVars>>

\* process_request returns at once for a message of another worker, and the
\* finally clause must not settle it.
DeliverForeign(g) ==
    /\ Advance(g)
    /\ LET m == crawl_requests[position[g] + 1] IN
       /\ m.worker_type # g
       /\ IF Subscribed(g, m) THEN complete_job_task_from_message(m, g, FALSE)
          ELSE UNCHANGED <<row, logVars>>
    /\ UNCHANGED task

AutoCommit(g) ==
    /\ "lag" \in Faults
    /\ committed[g] < position[g]
    /\ committed' = [committed EXCEPT ![g] = position[g]]
    /\ UNCHANGED <<row, logVars, apiVars, crawl_requests, task, position, visited,
                   published, raised, faults>>

Owned(g) == {o \in Offset : Owner(o) = g /\ o <= position[g]}

\* The process is killed.  Messages after the committed offset come again, the
\* ones already settled too; the others in flight are gone.
CrashWorker(g) ==
    /\ Fault("crash")
    /\ Owned(g) # {}
    /\ position' = [position EXCEPT ![g] = committed[g]]
    /\ task' = [o \in Offset |->
                  IF o \notin Owned(g) THEN task[o]
                  ELSE IF o > committed[g] THEN Queued
                  ELSE IF task[o].pc \in Live THEN [pc |-> "lost", todo |-> {}]
                  ELSE task[o]]
    /\ UNCHANGED <<row, logVars, apiVars, crawl_requests, committed, visited,
                   published, raised>>

\* SIGTERM on the surface or deep worker cancels the tasks and commits the
\* offsets; the finally clause of a cancelled task settles its message.  A deep
\* task still waiting for the semaphore, and a task cancelled while it settles,
\* may not get there.  (The dark worker waits for its tasks instead.)
MayMissFinally(o) ==
    \/ task[o].pc \in {"settle", "settle_failed"}
    \/ At(o, "gate") /\ Owner(o) = "deep"

StopWorker(w) ==
    /\ w \in {"surface", "deep"}
    /\ Fault("stop")
    /\ LET cancelled == {o \in Owned(w) : task[o].pc \in Live} IN
       /\ cancelled # {}
       /\ \E missed \in SUBSET {o \in cancelled : MayMissFinally(o)} :
             task' = [o \in Offset |->
                        IF o \notin cancelled THEN task[o]
                        ELSE [todo |-> {},
                              pc |-> IF o \in missed THEN "lost"
                                     ELSE IF task[o].pc \in {"raised", "settle_failed"}
                                     THEN "settle_failed" ELSE "settle"]]
    /\ committed' = [committed EXCEPT ![w] = position[w]]
    /\ UNCHANGED <<row, logVars, apiVars, crawl_requests, position, visited,
                   published, raised>>

-----------------------------------------------------------------------------
(* A crawl worker processes a message it owns. *)

\* wait_while_paused, then skip the page of a job that has finished.
PassGate(o) ==
    /\ At(o, "gate")
    /\ row.status # "paused"
    /\ Goto(o, IF row.status \in FinishedStatus THEN "settle" ELSE "start")
    /\ UNCHANGED <<row, logVars, crawl_requests, visited, published, raised, faults>>

\* The surface and deep workers mark the job running, the dark worker does not.
StartPage(o) ==
    /\ At(o, "start")
    /\ Goto(o, "fetch")
    /\ row' = IF Owner(o) = "dark" THEN row ELSE update_job_status(row, "running")
    /\ UNCHANGED <<logVars, crawl_requests, visited, published, raised, faults>>

BrowserUnavailable(o) ==
    /\ At(o, "start") /\ Owner(o) = "deep"
    /\ Fault("browser")
    /\ fail_job("browser_unavailable")
    /\ Goto(o, "settle")
    /\ UNCHANGED <<crawl_requests, visited, published, raised>>

IsAudio(o) == MsgAt(o).url \in Audio

\* robots.txt, a failed validation, a failed ingestion, a render error: the
\* page is logged 'skipped' or 'failed', with or without details, and the job goes on.
RejectPage(o) ==
    /\ At(o, "fetch") /\ Owner(o) \in Worker
    /\ ~(IsAudio(o) /\ Owner(o) = "deep")
    /\ LogOther \/ (~IsAudio(o) /\ LogError("page_failed"))
    /\ Goto(o, "settle")
    /\ UNCHANGED <<row, crawl_requests, visited, published, raised, faults>>

\* A requested signup that fails takes the job down.
SignupFails(o) ==
    /\ At(o, "fetch") /\ Owner(o) = "deep" /\ ~IsAudio(o)
    /\ Fault("signup")
    /\ LogError("auto_signup")
    /\ row' = update_job_status(row, "failed")
    /\ Goto(o, "settle")
    /\ UNCHANGED <<crawl_requests, visited, published, raised>>

\* escalate_to_deep registers the deep message; dark logs 'escalated' first.
Escalate(o) ==
    /\ At(o, "fetch") /\ Owner(o) \in {"surface", "dark"} /\ ~IsAudio(o)
    /\ MsgAt(o).retry_count < MAX_RETRY_COUNT
    /\ row' = register_job_tasks(row, 1)
    /\ IF Owner(o) = "dark" THEN LogOther ELSE UNCHANGED logVars
    /\ Goto(o, "escalating")
    /\ UNCHANGED <<crawl_requests, visited, published, raised, faults>>

Escalated(o) ==
    [MsgAt(o) EXCEPT !.worker_type = "deep", !.retry_count = @ + 1]

SendTo(o, m, pc) ==
    /\ crawl_requests' = Append(crawl_requests, m)
    /\ task' = Append([task EXCEPT ![o] = [pc |-> pc, todo |-> {}]], Queued)

\* ... and publishes it; nothing gives the slot back when that raises.
SendEscalated(o) ==
    /\ At(o, "escalating")
    /\ \/ SendTo(o, Escalated(o), "settle") /\ UNCHANGED <<raised, faults>>
       \/ /\ raised' = raised \cup {Owner(o)}
          /\ \/ /\ Fault("send")
                /\ Goto(o, Escaped(Owner(o))) /\ UNCHANGED crawl_requests
             \/ Fault("ambiguous") /\ SendTo(o, Escalated(o), Escaped(Owner(o)))
    /\ UNCHANGED <<row, logVars, visited, published>>

\* hand_off_audio reserves the transcription's slot ...
HandOffAudio(o) ==
    /\ At(o, "fetch") /\ Owner(o) \in Worker /\ IsAudio(o)
    /\ row' = register_job_tasks(row, 1)
    /\ Goto(o, "handoff")
    /\ UNCHANGED <<logVars, crawl_requests, visited, published, raised, faults>>

AudioRequest(o) == Request(MsgAt(o).url, MsgAt(o).depth, "transcribe", 0)

\* ... publishes the request, and gives the slot back if that fails.
SendAudio(o) ==
    /\ At(o, "handoff")
    /\ \/ SendTo(o, AudioRequest(o), "handed_off") /\ UNCHANGED <<row, logVars, faults>>
       \/ /\ Complete(FALSE)
          /\ \/ Fault("send") /\ Goto(o, "handed_off") /\ UNCHANGED crawl_requests
             \/ Fault("ambiguous") /\ SendTo(o, AudioRequest(o), "handed_off")
    /\ UNCHANGED <<visited, published, raised>>

\* 'audio_handoff' is logged 'passed' or 'failed', without details.
LogHandOff(o) ==
    /\ At(o, "handed_off")
    /\ LogOther
    /\ Goto(o, "settle")
    /\ UNCHANGED <<row, crawl_requests, visited, published, raised, faults>>

\* register_job_tasks for every link, duplicates included.
ReserveChildren(o) ==
    /\ row' = register_job_tasks(row, Cardinality(Children(o)))
    /\ task' = [task EXCEPT ![o] =
                  [pc |-> IF Children(o) = {} THEN AfterChildren(Owner(o)) ELSE "children",
                   todo |-> Children(o)]]

\* An HTML page was fetched and accepted: surface and dark extract its links.
ExtractChildren(o) ==
    /\ At(o, "fetch") /\ Owner(o) \in {"surface", "dark"} /\ ~IsAudio(o)
    /\ ReserveChildren(o)
    /\ UNCHANGED <<logVars, crawl_requests, visited, published, raised, faults>>

NextLink(o) == CHOOSE link \in task[o].todo : TRUE

ToNextLink(o) ==
    LET rest == task[o].todo \ {NextLink(o)} IN
    [task EXCEPT ![o] = [pc |-> IF rest = {} THEN AfterChildren(Owner(o)) ELSE "children",
                         todo |-> rest]]

\* (Mutant) a duplicate link keeps its slot.
CheckLink_leaks(o) ==
    /\ At(o, "children")
    /\ task' = IF NextLink(o) \in visited THEN ToNextLink(o)
               ELSE [task EXCEPT ![o].pc = "mark"]
    /\ UNCHANGED <<row, logVars, crawl_requests, visited, published, raised, faults>>

\* is_visited: a link queued before gives its slot back.
CheckLink(o) ==
    /\ At(o, "children")
    /\ IF NextLink(o) \in visited
       THEN Complete(FALSE) /\ task' = ToNextLink(o)
       ELSE /\ task' = [task EXCEPT ![o].pc = "mark"]
            /\ UNCHANGED <<row, logVars>>
    /\ UNCHANGED <<crawl_requests, visited, published, raised, faults>>

\* (Mutant) all the links of the page are marked before the first is sent.
MarkLink_all(o) ==
    /\ At(o, "mark")
    /\ visited' = visited \cup task[o].todo
    /\ task' = [task EXCEPT ![o].pc = "send"]
    /\ UNCHANGED <<row, logVars, crawl_requests, published, raised, faults>>

\* mark_visited, not atomic with the check.
MarkLink(o) ==
    /\ At(o, "mark")
    /\ visited' = visited \cup {NextLink(o)}
    /\ task' = [task EXCEPT ![o].pc = "send"]
    /\ UNCHANGED <<row, logVars, crawl_requests, published, raised, faults>>

ChildRequest(o) ==
    Request(NextLink(o), MsgAt(o).depth + 1, assign_worker[NextLink(o)], 0)

\* Publish the child; a failed publish gives its slot back.
SendChild(o) ==
    /\ At(o, "send")
    /\ \/ /\ crawl_requests' = Append(crawl_requests, ChildRequest(o))
          /\ task' = Append(ToNextLink(o), Queued)
          /\ UNCHANGED <<row, logVars, faults>>
       \/ /\ Complete(FALSE)
          /\ \/ Fault("send") /\ task' = ToNextLink(o) /\ UNCHANGED crawl_requests
             \/ /\ Fault("ambiguous")
                /\ crawl_requests' = Append(crawl_requests, ChildRequest(o))
                /\ task' = Append(ToNextLink(o), Queued)
    /\ UNCHANGED <<visited, published, raised>>

\* Surface and dark publish the page to crawl.raw after its children.
PublishPage(o) ==
    /\ At(o, "publish")
    /\ published' = published \cup {o}
    /\ Goto(o, "log")
    /\ UNCHANGED <<row, logVars, crawl_requests, visited, raised, faults>>

\* The deep worker parses inline, publishes to crawl.parsed, then extracts links.
PublishParsed(o) ==
    /\ At(o, "fetch") /\ Owner(o) = "deep" /\ ~IsAudio(o)
    /\ published' = published \cup {o}
    /\ ReserveChildren(o)
    /\ UNCHANGED <<logVars, crawl_requests, visited, raised, faults>>

\* Surface and dark log validation.status, which is 'completed', or 'skipped'
\* (a homepage), or 'needs_review' (thin content); deep logs 'completed'.
LogPage(o) ==
    /\ At(o, "log")
    /\ LogCompleted \/ (Owner(o) \in {"surface", "dark"} /\ LogOther)
    /\ Goto(o, "settle")
    /\ UNCHANGED <<row, crawl_requests, visited, published, raised, faults>>

\* An exception escapes while the page is processed.
PageRaises(o) ==
    /\ task[o].pc \in {"fetch", "publish", "log"}
    /\ Fault("raise")
    /\ raised' = raised \cup {Owner(o)}
    /\ Goto(o, Escaped(Owner(o)))
    /\ UNCHANGED <<row, logVars, crawl_requests, visited, published>>

\* fail_job_from_message, then the finally clause settles with failed=True.
FailPage(o) ==
    /\ At(o, "raised")
    /\ fail_job("worker_error")
    /\ Goto(o, "settle_failed")
    /\ UNCHANGED <<crawl_requests, visited, published, raised, faults>>

\* wait_for cancels a deep page after DEEP_MESSAGE_BUDGET_SECONDS, the time it
\* waited at the pause gate included; the children it had reserved are dropped.
BudgetExceeded(o) ==
    /\ task[o].pc \in Processing \cup {"gate"} /\ Owner(o) = "deep"
    /\ Fault("budget")
    /\ LogError("browser_render")
    /\ Goto(o, "settle")
    /\ UNCHANGED <<row, crawl_requests, visited, published, raised>>

\* The finally clause of process_message_safely.
SettlePage(o) ==
    /\ task[o].pc \in {"settle", "settle_failed"}
    /\ complete_job_task_from_message(MsgAt(o), Owner(o), At(o, "settle_failed"))
    /\ Goto(o, "done")
    /\ UNCHANGED <<crawl_requests, visited, published, raised, faults>>

\* (Mutant) a failed transcription is not settled.
Transcribe_unsettled(o) ==
    /\ At(o, "fetch") /\ Owner(o) = "transcribe"
    /\ \/ published' = published \cup {o} /\ Goto(o, "log")
       \/ UNCHANGED published /\ Goto(o, "done")
    /\ UNCHANGED <<row, logVars, crawl_requests, visited, raised, faults>>

\* The transcribe worker publishes the transcript and logs it, or fails
\* without a log entry; both ways the finally clause settles.
Transcribe(o) ==
    /\ At(o, "fetch") /\ Owner(o) = "transcribe"
    /\ \/ published' = published \cup {o} /\ Goto(o, "log")
       \/ UNCHANGED published /\ Goto(o, "settle")
    /\ UNCHANGED <<row, logVars, crawl_requests, visited, raised, faults>>

TaskStep(o) ==
    /\ \/ PassGate(o) \/ StartPage(o) \/ RejectPage(o) \/ Escalate(o)
       \/ SendEscalated(o) \/ HandOffAudio(o) \/ SendAudio(o) \/ LogHandOff(o)
       \/ ExtractChildren(o) \/ CheckLink(o) \/ MarkLink(o) \/ SendChild(o)
       \/ PublishPage(o) \/ PublishParsed(o) \/ LogPage(o) \/ FailPage(o)
       \/ SettlePage(o) \/ Transcribe(o)
    /\ UNCHANGED taskFrame

TaskFault(o) ==
    /\ BrowserUnavailable(o) \/ SignupFails(o) \/ PageRaises(o) \/ BudgetExceeded(o)
    /\ UNCHANGED taskFrame

-----------------------------------------------------------------------------

Deliver(g) == DeliverToOwner(g) \/ DeliverForeign(g)

\* What the running processes do by themselves.
Progress ==
    \/ PublishSeed \/ MarkSubmitted
    \/ \E g \in Group : Deliver(g)
    \/ \E o \in Offset : TaskStep(o)

Environment ==
    \/ PublishSeedFails
    \/ PauseRoute \/ ResumeRoute \/ RetryRoute
    \/ CrashApi
    \/ \E g \in Group : CrashWorker(g) \/ StopWorker(g) \/ AutoCommit(g)
    \/ \E o \in Offset : TaskFault(o)

Watchdog ==
    \/ TimePasses
    \/ WatchdogScan
    \/ \E event_type \in {"watchdog_timeout", "retry_requested"} : FailListed(event_type)

Next == Progress \/ Environment \/ Watchdog

Spec == Init /\ [][Next]_vars

\* Event loops, brokers and the database keep serving; time passes and the
\* watchdog keeps scanning.  Nothing obliges the user or the environment.
FairSpec == Spec /\ WF_vars(Progress) /\ WF_vars(Watchdog)

-----------------------------------------------------------------------------
(* What is outstanding: the root message until it is published, every      *)
(* message until it is settled, and every slot reserved for a message that *)
(* is about to be published.                                               *)
Unsettled == {o \in Offset : task[o].pc \in Live}
Unsent    == UNION {{o} \X task[o].todo : o \in Offset}
Reserved  == {o \in Offset : task[o].pc \in {"escalating", "handoff"}}

Outstanding == Cardinality(Unsettled) + Cardinality(Unsent) + Cardinality(Reserved)
                 + (IF submit = "publish" THEN 1 ELSE 0)

Ledger == INSTANCE TaskLedger WITH outstanding <- Outstanding

Finished == row.status \in FinishedStatus

(* Type invariant. *)
TypeOK ==
    /\ row \in Row
    /\ crawl_log \subseteq {"completed"}
    /\ failure_reason \in {NULL, "publish_failed", "worker_error", "browser_unavailable",
                           "page_failed", "browser_render", "auto_signup", "task_failed",
                           "all_sites_failed", "watchdog_timeout", "retry_requested"}
    /\ stale \in BOOLEAN
    /\ submit \in {"publish", "mark", "done"}
    /\ crawl_requests \in Seq(CrawlRequest)
    /\ task \in Seq(Task) /\ Len(task) = Len(crawl_requests)
    /\ position \in [Group -> Nat] /\ committed \in [Group -> Nat]
    /\ \A g \in Group : committed[g] <= position[g] /\ position[g] <= Len(crawl_requests)
    /\ visited \subseteq Page
    /\ published \subseteq Offset
    /\ raised \subseteq Worker \cup {"transcribe"}
    /\ failing \subseteq {"watchdog_timeout", "retry_requested"}
    /\ faults \in 0..MaxFaults

(* The workers implement the task ledger: they register before they        *)
(* publish, and settle only what they hold (workers/common.py,             *)
(* recursive_crawl_service.py, client.py:825-929).                         *)
LedgerSpec == Ledger!Spec

(* Every slot that was registered is given back exactly once: duplicate    *)
(* links, failed child publishes, hand-offs and escalations do not leak    *)
(* one (recursive_crawl_service.py:107-151, hand_off_audio).               *)
ExactCounter == row.active_tasks = Outstanding

(* A running job has work left, so it is not waiting for nothing: whoever  *)
(* settles the last slot finishes the job.                                 *)
RunningHasWork == row.status = "running" /\ submit = "done" => Outstanding > 0

(* When the job is completed, the links of every page that was published   *)
(* within the depth limit were queued, whichever worker found them first.  *)
LinksFollowed ==
    row.status = "completed" =>
        \A o \in published :
            Owner(o) # "transcribe" /\ MsgAt(o).depth < max_depth
              => \A link \in Links[MsgAt(o).url] : \E p \in Offset : MsgAt(p).url = link

(* A page whose processing raised in the deep or dark worker fails the     *)
(* job: it never turns green afterwards (deep-worker/main.py:3478-3577,     *)
(* dark-worker/main.py:756-788).                                           *)
CrashFailsJob == row.status = "completed" => raised \cap {"deep", "dark"} = {}

(* A finished job keeps its status, even when messages are redelivered to  *)
(* a restarted worker, a stale worker settles late, or the user pauses.    *)
FinishedIsFinal == [][Finished => row'.status = row.status]_vars

(* A green job has content downstream: some page reached crawl.raw or      *)
(* crawl.parsed before it was logged.                                      *)
GreenHasContent == row.status = "completed" => published # {}

(* Liveness of the crawl itself: without outside trouble every job         *)
(* finishes, with no help from the watchdog.                               *)
EventuallyFinished == <>Finished

(* Whatever is lost, the watchdog sees to it that a job does not stay      *)
(* active for ever: it finishes or the user keeps it paused.               *)
NeverStuck == []<>(Finished \/ row.status = "paused")

=============================================================================
