----------------------------- MODULE CrawlPage -----------------------------
(* A page of a job in the surface or the dark worker, as a coroutine between *)
(* crawl.requests and the parser: the step at the head of its script runs,   *)
(* fails, or dies with the process. Other pages of the job only show in how  *)
(* the job ends.                                                             *)
EXTENDS PageScripts

\* Of a situation also: the worker, what the extension of the URLs says, the retry_count of the
\* requests, and what a server may answer.
ASSUME PageAssumption ==
  \A s \in Situations :
    /\ s.worker \in {"surface", "dark"} /\ s.urlKind \in ContentKind /\ s.retry_count \in Nat
    /\ \A a \in s.answers :
         /\ a.status \in Nat                \* 599: no answer
         /\ a.finds \subseteq {"auth", "shell", "login", "registration", "blocked", "short", "home", "foreign", "challenge"}
         /\ a.kind \in ContentKind          \* kind_from_response, classify_payload

VARIABLES
  crawl,     \* [Page -> the task of its message]
  crawl_log, \* [Page -> the statuses logged for it]
  raw,       \* crawl.raw: messages the parser has not finished
  objects,   \* the raw bucket
  parser     \* the message the parser is at, or was at last

crawlVars == <<crawl, crawl_log, raw, objects, parser>>
vars == <<situation, liveVars, crawlVars>>

Queued == [at |-> "queued", script |-> <<>>, rerouted |-> FALSE, item |-> 0, kind |-> "html",
           path |-> <<>>, said |-> None, crashed |-> FALSE]

-----------------------------------------------------------------------------
(* The steps of the worker                                                   *)

At(p, step)  == crawl[p].at = "working" /\ crawl[p].script # <<>> /\ Head(crawl[p].script).do = step
Rest(p)      == Tail(crawl[p].script)
Goes(p, s)   == crawl' = [crawl EXCEPT ![p].script = s]
Unseen       == UNCHANGED <<status, parsed, listener, conns, server, pageVars>>
Silently     == Unseen /\ UNCHANGED redisVars
IsDark       == situation.worker = "dark"
Of(surface, dark) == IF IsDark THEN dark ELSE surface

\* process_request: a finished job is not crawled again; every run has an item_id of its own.
Deliver(p) ==
  /\ crawl[p].at = "queued"
  /\ crawl' = [crawl EXCEPT ![p] =
       IF status \in TERMINAL_STATUSES THEN [Queued EXCEPT !.at = "settled", !.crashed = crawl[p].crashed]
       ELSE [Queued EXCEPT !.at = "working", !.script = Of(Started(p), DarkStarted(p)), !.item = crawl[p].item + 1,
                           !.crashed = crawl[p].crashed]]
  /\ Silently /\ UNCHANGED <<crawl_log, raw, objects, parser, faults>>

\* publish_job_stage: publish, then keep; an error ends it, and nobody hears of it.
publish_job_stage(p) ==
  /\ \/ /\ At(p, "publish")
        /\ \/ /\ Len(channel) < MaxLag
              /\ channel' = Published(Head(crawl[p].script).event)
              /\ Goes(p, <<[Head(crawl[p].script) EXCEPT !.do = "push"]>> \o Rest(p))
              /\ UNCHANGED faults
           \/ Fault("redis") /\ Goes(p, Rest(p)) /\ UNCHANGED channel
        /\ UNCHANGED history
     \/ /\ At(p, "push")
        /\ history' = Pushed(Head(crawl[p].script).event)
        /\ Goes(p, Rest(p))
        /\ UNCHANGED <<channel, faults>>
  /\ Unseen /\ UNCHANGED <<crawl_log, raw, objects, parser>>

Continues(p, s) == Goes(p, s) /\ Silently /\ UNCHANGED <<crawl_log, raw, objects, parser, faults>>

\* By its extension.
classify_url(p) == situation.urlKind

\* robots.txt and the turn of the domain.
PolitenessService(p) ==
  /\ At(p, "robots")
  /\ \/ Continues(p, Of(Disallowed(p), DarkDisallowed(p)))
     \/ /\ classify_url(p) = "html" /\ Continues(p, Of(Fetching(p), DarkFetching(p)))
     \/ /\ classify_url(p) # "html"
        /\ Continues(p, Of(process_non_html_content(p, classify_url(p)), DarkNonHtml(p, classify_url(p))))

\* Whatever the attempts of fetch_with_retry ended with.
fetch_with_agent_rotation(p) ==
  /\ At(p, "fetch")
  /\ \E a \in situation.answers :
       crawl' = [crawl EXCEPT ![p].script = Of(Fetched(p, a), DarkFetched(p, a)),
                              ![p].rerouted = ~IsDark /\ Reroutes(a)]
  /\ Silently /\ UNCHANGED <<crawl_log, raw, objects, parser, faults>>

hand_off_audio(p) == At(p, "hand_off") /\ \E done \in BOOLEAN : Continues(p, Of(HandedOff(p, done), DarkHandedOff(p, done)))

escalate_to_deep(p) ==
  /\ At(p, "escalate")
  /\ \/ situation.retry_count >= MAX_RETRY_COUNT /\ Goes(p, Of(Exhausted(p), DarkExhausted(p)))
     \/ /\ situation.retry_count < MAX_RETRY_COUNT
        /\ crawl' = [crawl EXCEPT ![p].at = "escalated", ![p].script = <<>>]
  /\ Silently /\ UNCHANGED <<crawl_log, raw, objects, parser, faults>>

\* A refusal, audio and what nobody can read raise.
fetch_and_extract(p) ==
  /\ At(p, "ingest")
  /\ \/ Goes(p, Of(IngestFailed(p), DarkIngestFailed(p)))
     \/ \E a \in situation.answers :
          /\ a.status < 400 /\ a.kind \in {"pdf", "html"}
          /\ crawl' = [crawl EXCEPT ![p].script = Of(Ingested(p), DarkIngested(p)), ![p].kind = a.kind]
  /\ Silently /\ UNCHANGED <<crawl_log, raw, objects, parser, faults>>

record_crawl_log(p) ==
  /\ At(p, "log")
  /\ LET state == Head(crawl[p].script).say IN
       /\ crawl_log' = [crawl_log EXCEPT ![p] = @ \cup {state}]
       /\ crawl' = [crawl EXCEPT ![p].script = Tail(@), ![p].said = state]
  /\ Silently /\ UNCHANGED <<raw, objects, parser, faults>>

\* Children and dead letters go to topics of their own.
Elsewhere(p) ==
  (At(p, "children") \/ At(p, "dead_letter")) /\ Continues(p, Rest(p))

\* Names: the item and the extension. An upload replaces the object of that name.
Put(object) == objects' = {o \in objects : o.name # object.name} \cup {object}
raw_name(item, p, kind) == <<p, item, kind>>

\* RAW_STORE.store: a failed upload is only logged, and the message says nothing.
Archive(p) ==
  /\ At(p, "archive")
  /\ LET name == raw_name(crawl[p].item, p, crawl[p].kind) IN
       \/ /\ Put([name |-> name, holds |-> "original"])
          /\ crawl' = [crawl EXCEPT ![p].script = Tail(@), ![p].path = name]
          /\ UNCHANGED faults
       \/ /\ Fault("archive") /\ UNCHANGED objects
          /\ crawl' = [crawl EXCEPT ![p].script = Tail(@), ![p].path = <<>>]
  /\ Silently /\ UNCHANGED <<crawl_log, raw, parser>>

\* save_to_minio: the dark worker keeps its last result of a job, under the job's name.
save_to_minio(p) ==
  /\ At(p, "save")
  /\ Put([name |-> <<"result">>, holds |-> "result"])
  /\ Goes(p, Rest(p))
  /\ Silently /\ UNCHANGED <<crawl_log, raw, parser, faults>>

Send(p) ==
  /\ At(p, "send")
  /\ raw' = Append(raw, [page |-> p, item |-> crawl[p].item, kind |-> crawl[p].kind,
                         path |-> crawl[p].path])
  /\ Goes(p, Rest(p))
  /\ Silently /\ UNCHANGED <<crawl_log, objects, parser, faults>>

\* The surface worker swallows the PageProcessingError, and the message is settled. What a
\* rerouted document raises is taken for a failed fetch, whatever was already sent.
SurfaceRaised(p) ==
  IF crawl[p].rerouted THEN [crawl[p] EXCEPT !.script = <<Tell(p, "fetching", "failed")>> \o HardFailure(p),
                                             !.rerouted = FALSE]
  ELSE [crawl[p] EXCEPT !.at = "raised", !.script = <<>>]

Raise(p) ==
  /\ \E step \in {"robots", "hand_off", "escalate", "log", "children", "dead_letter", "send"} :
       At(p, step) /\ ~(IsDark /\ step = "children")
  /\ Fault("raise")
  /\ crawl' = [crawl EXCEPT ![p] =
       IF IsDark THEN [crawl[p] EXCEPT !.script = DarkCrashed(p), !.crashed = TRUE] ELSE SurfaceRaised(p)]
  /\ Silently /\ UNCHANGED <<crawl_log, raw, objects, parser>>

\* A finished job keeps its status.
Fail_job(p) ==
  /\ At(p, "fail_job")
  /\ Len(channel) < MaxLag /\ channel' = Published(JobEvent)
  /\ status' = IF status = "running" THEN "failed" ELSE status
  /\ Goes(p, Rest(p))
  /\ UNCHANGED <<parsed, history, listener, conns, server, pageVars, crawl_log, raw, objects, parser, faults>>

Settle(p) ==
  /\ crawl[p].at = "working" /\ crawl[p].script = <<>>
  /\ crawl' = [crawl EXCEPT ![p].at = "settled"]
  /\ Silently /\ UNCHANGED <<crawl_log, raw, objects, parser, faults>>

\* The process dies; the message comes again if its offset was not committed.
Kill(p) ==
  /\ crawl[p].at = "working" /\ Fault("kill")
  /\ \E at \in {"queued", "lost"} : crawl' = [crawl EXCEPT ![p].at = at, ![p].script = <<>>]
  /\ Silently /\ UNCHANGED <<crawl_log, raw, objects, parser>>

-----------------------------------------------------------------------------
(* The parser                                                                *)

NoMessage == [page |-> None, item |-> 0, kind |-> "html", path |-> <<>>]

\* create_parsed_item keeps the item_id of the row that is there, and tells.
ParseCreate ==
  /\ parser.at = "idle" /\ raw # <<>>
  /\ LET m == Head(raw) IN
       /\ parser' = [at |-> "created", message |-> m]
       /\ parsed' = IF parsed[m.page] = NoRow
                    THEN [parsed EXCEPT ![m.page] = [item |-> m.item, path |-> <<>>, kind |-> None]]
                    ELSE parsed
  /\ Len(channel) < MaxLag /\ channel' = Published(JobEvent)
  /\ UNCHANGED <<status, history, listener, conns, server, pageVars, faults, crawl, crawl_log, raw, objects>>

\* The original that a crawler archived is left alone; otherwise the markup is stored.
StoresMarkup_always(m) == TRUE
StoresMarkup(m) == m.path = <<>>

ParseStore ==
  /\ parser.at = "created"
  /\ LET m == parser.message
         name == raw_name(parsed[m.page].item, m.page, "html")
     IN IF StoresMarkup(m)
        THEN /\ parsed' = [parsed EXCEPT ![m.page].path = name, ![m.page].kind = "html"]
             /\ \/ Put([name |-> name, holds |-> "markup"]) /\ UNCHANGED faults
                \/ Fault("archive") /\ UNCHANGED objects
        ELSE /\ parsed' = [parsed EXCEPT ![m.page].path = m.path, ![m.page].kind = m.kind]
             /\ UNCHANGED <<objects, faults>>
  /\ parser' = [parser EXCEPT !.at = "idle"]
  /\ raw' = Tail(raw)
  /\ UNCHANGED <<status, redisVars, listener, conns, server, pageVars, crawl, crawl_log>>

\* The parser dies and gets the message again.
Reparse ==
  /\ parser.at = "created" /\ Fault("reparse")
  /\ parser' = [at |-> "idle", message |-> NoMessage]
  /\ Silently /\ UNCHANGED <<crawl, crawl_log, raw, objects>>

-----------------------------------------------------------------------------

AtRest(p) == crawl[p].at \in {"settled", "escalated", "raised", "lost"}

\* The other pages, or the watchdog, decide when the job ends and how.
EndJob ==
  /\ status = "running"
  /\ \E s \in TERMINAL_STATUSES :
       /\ s = "completed" => \A p \in Page : AtRest(p)
       /\ status' = s
  /\ \/ Len(channel) < MaxLag /\ channel' = Published(JobEvent) /\ UNCHANGED faults
     \/ Fault("redis") /\ UNCHANGED channel
  /\ UNCHANGED <<parsed, history, listener, conns, server, pageVars, crawlVars>>

Quiet == status \in TERMINAL_STATUSES /\ (\A p \in Page : AtRest(p)) /\ raw = <<>>

Init ==
  /\ LiveInit
  /\ crawl = [p \in Page |-> Queued] /\ crawl_log = [p \in Page |-> {}]
  /\ raw = <<>> /\ objects = {}
  /\ parser = [at |-> "idle", message |-> NoMessage]

Crawl(p) == \/ Deliver(p) \/ PolitenessService(p) \/ fetch_with_agent_rotation(p) \/ escalate_to_deep(p)
            \/ hand_off_audio(p) \/ fetch_and_extract(p) \/ Archive(p) \/ Send(p) \/ Elsewhere(p)
            \/ save_to_minio(p) \/ publish_job_stage(p) \/ record_crawl_log(p) \/ Raise(p)
            \/ Fail_job(p) \/ Settle(p) \/ Kill(p)

Next ==
  /\ UNCHANGED situation
  /\ \/ \E p \in Page : Crawl(p)
     \/ ParseCreate \/ ParseStore \/ Reparse \/ EndJob
     \/ LiveStep(Quiet) /\ UNCHANGED crawlVars

Spec == Init /\ [][Next]_vars

\* The browser is open on the page: its timers and its requests go on.
FairSpec ==
  /\ Spec
  /\ WF_vars(Poll /\ UNCHANGED <<situation, crawlVars>>)
  /\ \A part \in {"job", "items"} :
       WF_vars((\E l \in loads : l.part = part /\ Arrive(l)) /\ UNCHANGED <<situation, crawlVars>>)

-----------------------------------------------------------------------------

Says(p) == crawl[p].said

\* What the browser shows is logged, for every order in which the events of two
\* connections and a replay reach it: record_crawl_log comes before site_finished. A
\* site the dark worker gave up is logged as escalated; only its crash is told first.
ShownIsLogged ==
  \A p \in Page :
    /\ view.sites[p] = "failed" => crawl_log[p] \cap {"failed", "skipped", "escalated"} # {} \/ crawl[p].crashed
    /\ view.sites[p] = "passed" => crawl_log[p] \ {"failed", "escalated"} # {}

\* A browser that opens the job after everything was told - also after a redelivery,
\* and whatever of the history had to go - sees every site the worker closed as the
\* crawl log has it ("still gets the full picture", job_status.py:146).
FullPicture ==
  view.late /\ view.conn = 1 /\ view.up /\ server[1].at = "open" /\ "redis" \notin faults =>
    \A p \in Page : crawl[p].at = "settled" /\ Says(p) # None =>
      view.sites[p] \in (CASE Says(p) \in {"failed", "escalated"} -> {"failed"}
                           [] Says(p) = "skipped" -> {"failed", "passed"}
                           [] OTHER -> {"passed"})

\* Once the parser is done with the message of a document, the row points at the bytes
\* the server sent, whatever was delivered or parsed twice and whichever uploads of this or
\* another delivery failed. A message names no original only if an upload failed.
OriginalKept ==
  LET m == parser.message
      row == parsed[m.page] IN
  parser.at = "idle" /\ m.kind = "pdf" /\ row.path # <<>> =>
    IF m.path = <<>> THEN "archive" \in faults
    ELSE row.path = m.path /\ row.kind = "pdf" /\ [name |-> m.path, holds |-> "original"] \in objects

\* A page that loaded once ends up with the status of the finished job, and with its
\* items unless it never got a list of them, whatever events and answers were lost or
\* late (JobDetail.tsx:900).
Converged == view.status = status /\ (view.items = "none" => Items = "none")
PageConverges == (status \in TERMINAL_STATUSES /\ view.status # None) ~> []Converged
=============================================================================
