---------------------------- MODULE MCCrawlPage ----------------------------
(* A small instance of CrawlPage for TLC. *)
EXTENDS CrawlPage
CONSTANT p
Answer(s, f, k) == [status |-> s, finds |-> f, kind |-> k]
\* A page, one without text, one that asks to sign in, a refusal, no answer, documents.
Html     == Answer(200, {}, "html")
Login    == Answer(200, {"login"}, "html")
Refused  == Answer(403, {}, "html")
NoAnswer == Answer(599, {}, "html")
Pdf      == Answer(200, {}, "pdf")
Robot    == Answer(200, {"challenge"}, "html")
Short    == Answer(200, {"short"}, "html")
Audio    == Answer(200, {}, "audio")

Alone == [worker |-> "surface", conns |-> 0, joins |-> "late", loads |-> 0, faults |-> {}, maxFaults |-> 2,
          urlKind |-> "html", retry_count |-> 0, answers |-> {}]

SmallSituations ==
  { \* a page is crawled, and then looked at
    [Alone EXCEPT !.conns = 1, !.faults = {"redis", "raise", "kill", "archive"}, !.maxFaults = 1,
                  !.answers = {Html, Login, Refused, NoAnswer, Pdf, Audio}],
    \* one escalated three times
    [Alone EXCEPT !.conns = 1, !.retry_count = MAX_RETRY_COUNT, !.faults = {"kill"}, !.answers = {Refused}],
    \* a document, whose server may send a page
    [Alone EXCEPT !.urlKind = "pdf", !.faults = FaultKind, !.answers = {Html, Pdf}],
    \* a page of the dark web
    [Alone EXCEPT !.worker = "dark", !.conns = 1, !.faults = {"raise", "kill"}, !.maxFaults = 1,
                  !.answers = {Short, Robot, NoAnswer}],
    [Alone EXCEPT !.worker = "dark", !.conns = 1, !.faults = {"raise", "kill"}],
    [Alone EXCEPT !.worker = "dark", !.conns = 1, !.retry_count = MAX_RETRY_COUNT, !.answers = {Robot, NoAnswer}],
    [Alone EXCEPT !.worker = "dark", !.urlKind = "pdf", !.faults = {"archive", "raise"}, !.answers = {Html, Pdf}],
    [Alone EXCEPT !.worker = "dark", !.urlKind = "audio", !.conns = 1],
    \* a page is watched while it is crawled, and the connection breaks
    [Alone EXCEPT !.conns = 2, !.joins = "any", !.faults = {"drop"}, !.maxFaults = 1,
                  !.answers = {NoAnswer}],
    \* the browser asks over REST as well
    [Alone EXCEPT !.conns = 1, !.joins = "first", !.loads = 1, !.urlKind = "pdf", !.answers = {Pdf}],
    \* and only over REST
    [Alone EXCEPT !.joins = "any", !.loads = 2, !.faults = {"load", "reparse"},
                  !.answers = {Html}] }
=============================================================================
