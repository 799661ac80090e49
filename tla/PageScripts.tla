---------------------------- MODULE PageScripts ----------------------------
(* What the surface worker and the dark worker do to a page, from its        *)
(* delivery to the crawl log, the timeline and the parser: robots,           *)
(* classification by URL and by answer, escalation, validation, documents    *)
(* and their originals. Each branch of the code is a script, the awaits it   *)
(* has still to make.                                                        *)
EXTENDS LiveUpdates, WorkerAssignment

MAX_RETRY_COUNT == 3
ContentKind == {"html", "pdf", "audio", "other"}

\* A step of a script.
Do(step)      == [do |-> step, event |-> JobEvent, say |-> None]
Log(state)    == [do |-> "log", event |-> JobEvent, say |-> state]
Publish(e)    == [do |-> "publish", event |-> e, say |-> None]
Tell(p, stage, state) == Publish(StageEvent(p, stage, state))

-----------------------------------------------------------------------------
(* What the surface worker does after each of its decisions                  *)

Started(p)    == <<Tell(p, "site_started", "active"), Do("robots")>>
Disallowed(p) == <<Log("skipped"), Tell(p, "site_finished", "failed")>>
Fetching(p)   == <<Tell(p, "fetching", "active"), Do("fetch")>>

process_non_html_content(p, kind) ==
  <<Tell(p, "fetching", "active"), Do(IF kind = "audio" THEN "hand_off" ELSE "ingest")>>

HandedOff(p, done) ==
  LET state == IF done THEN "passed" ELSE "failed" IN <<Log(state), Tell(p, "site_finished", state)>>
IngestFailed(p) == <<Log("failed"), Tell(p, "site_finished", "failed")>>
Ingested(p) ==
  <<Do("archive"), Do("send"), Log("completed"), Tell(p, "parsing", "passed"), Tell(p, "site_finished", "passed")>>

Escalating(p) == <<Tell(p, "challenge_detected", "active"), Do("escalate")>>
Exhausted(p)  == <<Log("failed"), Tell(p, "site_finished", "failed")>>

\* Mutant: the timeline is closed before the log is written.
HardFailure_early(p) == <<Tell(p, "parsing", "failed"), Tell(p, "site_finished", "failed"), Log("failed"), Do("dead_letter")>>
HardFailure(p) == <<Log("failed"), Do("dead_letter"), Tell(p, "parsing", "failed"), Tell(p, "site_finished", "failed")>>

Page_published(p, verdict) ==
  <<Do("children"), Do("send"), Log(verdict), Tell(p, "parsing", "passed"), Tell(p, "site_finished", "passed")>>

\* PageValidationService.validate, of an answer below 400.
validate(a) ==
  IF "blocked" \in a.finds THEN "needs_review"
  ELSE IF a.finds \cap {"login", "registration"} # {} THEN "skipped"
  ELSE IF "short" \in a.finds THEN "needs_review"
  ELSE IF "home" \in a.finds THEN "skipped"
  ELSE IF "foreign" \in a.finds THEN "needs_review" ELSE "completed"

\* A URL that looked like a page and is a document.
Reroutes(a) == a.kind \in {"pdf", "audio"} /\ a.status < 400

\* After the HTML fetch. An exception counts as 599, which is told as a failed fetch.
Fetched(p, a) ==
  IF Reroutes(a) THEN process_non_html_content(p, a.kind)
  ELSE <<Tell(p, "fetching", IF a.status = 599 THEN "failed" ELSE "passed")>> \o
       (IF should_escalate_to_deep(a, "surface") THEN Escalating(p)
        ELSE IF a.status >= 400 THEN HardFailure(p) ELSE Page_published(p, validate(a)))

-----------------------------------------------------------------------------
(* The dark worker: its own copies of the code above do the same, until the  *)
(* answer is there                                                           *)

DarkStarted(p)    == Started(p)
DarkDisallowed(p) == Disallowed(p)
DarkFetching(p)   == Fetching(p)
DarkNonHtml(p, kind)   == process_non_html_content(p, kind)
DarkHandedOff(p, done) == HandedOff(p, done)
DarkIngestFailed(p)    == IngestFailed(p)
DarkIngested(p)        == Ingested(p)

\* fetch_url never raises: what it could not fetch is a 599, told as passed.
fetch_url(p) == <<Tell(p, "fetching", "passed")>>

detect_challenge(a) == a.status \in Refusal \/ "challenge" \in a.finds

DarkChallenged(p) == <<Log("escalated"), Tell(p, "challenge_detected", "active"), Do("escalate")>>
DarkRejected(p)   == <<Log("escalated"), Do("escalate")>>
DarkExhausted(p)  == <<Tell(p, "site_finished", "failed")>>

\* A page that is only short goes on.
NeedsDeep(a) ==
  a.status >= 400 \/ (validate(a) = "needs_review" /\ ("short" \notin a.finds \/ "blocked" \in a.finds))

DarkPublished(p, verdict) ==
  <<Do("children"), Do("save"), Do("send"), Log(verdict), Tell(p, "parsing", "passed"),
    Tell(p, "site_finished", "passed")>>

DarkFetched(p, a) ==
  fetch_url(p) \o (IF detect_challenge(a) THEN DarkChallenged(p)
                   ELSE IF NeedsDeep(a) THEN DarkRejected(p) ELSE DarkPublished(p, validate(a)))

\* An exception leaves process_request: the site is told to have failed, then the job fails.
DarkCrashed(p) == <<Tell(p, "site_finished", "failed"), Log("failed"), Do("fail_job")>>
=============================================================================
