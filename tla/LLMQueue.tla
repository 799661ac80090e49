------------------------------ MODULE LLMQueue ------------------------------
(***************************************************************************)
(* The durable queue of the llm-worker: a table of items in PostgreSQL,    *)
(* filled from crawl.parsed and drained in batches by any number of        *)
(* llm-worker processes.  A process runs two tasks, the Kafka consumer     *)
(* loop and run_analysis_batches; the analyses of a batch run             *)
(* concurrently.  A step is what happens between two awaits.               *)
(***************************************************************************)
EXTENDS Integers, FiniteSets

CONSTANTS
    Item,                     \* parsed items, one crawl.parsed message each
    Process,                  \* llm-worker processes
    LLM_BATCH_SIZE,
    MAX_CONCURRENT_TASKS,
    LLM_QUEUE_MAX_ATTEMPTS,
    Faults,                   \* the environment events that may happen
    MaxFaults                 \* bound on how many of them happen

FaultKind == {"crash",        \* a process dies or is told to stop
              "slow",         \* an analysis outlives its lease
              "enqueue", "settle", "mark",  \* PostgreSQL fails at that statement
              "clickhouse",   \* the insert into ClickHouse fails
              "alert", "mail"} \* the statement of an alert fails, or its mail

ASSUME QueueAssumption ==
    /\ LLM_BATCH_SIZE \in Nat \ {0}
    /\ MAX_CONCURRENT_TASKS \in Nat \ {0}
    /\ LLM_QUEUE_MAX_ATTEMPTS \in Nat \ {0}
    /\ Faults \subseteq FaultKind /\ MaxFaults \in Nat

VARIABLES
    row,        \* row[i]: the row of item i in llm_analysis_queue
    reader,     \* reader[i]: the process that read i's message and has yet to commit it
    committed,  \* items whose Kafka offset is committed
    committing, \* committing[p]: the consumer loop of p is about to commit
    task,       \* task[p][i]: the analysis of i in the current batch of p
    answered,   \* items the model has answered for
    analytics,  \* items with a row in ClickHouse (one per item_id)
    flagged,    \* items with parsed_items.intelligence_processed
    faults,     \* how many environment events happened
    hit         \* hit[i]: those of them that cost item i something (no code reads it)

vars == <<row, reader, committed, committing, task, answered, analytics, flagged, faults, hit>>

kafkaVars == <<reader, committed, committing>>
resultVars == <<answered, analytics, flagged>>

-----------------------------------------------------------------------------
(* Rows.  'expired': claimed_at is older than the lease; 'due': next_attempt_at *)
(* has come.  Finished rows are deleted.                                    *)

NoRow == [status |-> "none", attempts |-> 0, due |-> TRUE, expired |-> FALSE]

QueueRow == [status : {"none", "pending", "processing", "failed"}, attempts : Nat,
             due : BOOLEAN, expired : BOOLEAN]

\* (Mutant) a second delivery starts the item afresh.
enqueue_upsert(r) == [NoRow EXCEPT !.status = "pending"]

\* INSERT ... ON CONFLICT DO NOTHING
enqueue(r) == IF r.status = "none" THEN [NoRow EXCEPT !.status = "pending"] ELSE r

Claimable(r) == r.status = "pending" /\ r.due

claim(r) == [r EXCEPT !.status = "processing", !.attempts = @ + 1, !.expired = FALSE]

settle_success(r) == NoRow

\* The statements of fail() name the item only: they hit whatever the row is now.
fail_permanently(r) == IF r.status = "none" THEN r ELSE [r EXCEPT !.status = "failed"]

fail_retry(r) ==
    IF r.status = "none" THEN r
    ELSE [r EXCEPT !.status = "pending", !.due = FALSE, !.expired = FALSE]

\* (Mutants) the scan takes rows back whatever their lease says, or never does.
Stalled_any(r) == r.status = "processing"
Stalled_never(r) == FALSE

Stalled(r) == r.status = "processing" /\ r.expired

reclaim_stalled(r) ==
    IF Stalled(r) THEN [r EXCEPT !.status = "pending", !.expired = FALSE] ELSE r

-----------------------------------------------------------------------------

NoTask == [pc |-> "none", attempts |-> 0]
InFlight == {"calling", "answered", "ingested"}
Outcome == {"done", "retry", "failed"}

TaskState == [pc : {"none", "claimed", "settled"} \cup InFlight \cup Outcome,
              attempts : Nat]

Held(p) == {i \in Item : task[p][i].pc # "none"}
Pc(p, i) == task[p][i].pc

Goto(p, i, pc) == task' = [task EXCEPT ![p][i].pc = pc]

\* A fault, and the items it costs something
Fault(kind, items) ==
    /\ kind \in Faults
    /\ faults < MaxFaults
    /\ faults' = faults + 1
    /\ hit' = [i \in Item |-> IF i \in items THEN hit[i] \cup {kind} ELSE hit[i]]

NoFault == UNCHANGED <<faults, hit>>

Init ==
    /\ row = [i \in Item |-> NoRow]
    /\ reader = [i \in Item |-> {}]
    /\ committed = {}
    /\ committing = [p \in Process |-> FALSE]
    /\ task = [p \in Process |-> [i \in Item |-> NoTask]]
    /\ answered = {}
    /\ analytics = {}
    /\ flagged = {}
    /\ faults = 0
    /\ hit = [i \in Item |-> {}]

-----------------------------------------------------------------------------
(* The consumer loop: enqueue, commit. *)

\* The pre-check of enqueue_parsed_item and the re-check of analyze_parsed_item.
\* get_parsed_item returns an asyncpg Record, which is no dict: the answer is
\* always "not processed".
is_intelligence_processed(i) == FALSE

\* A message is read and its item enqueued (the pre-check has no effect, so there
\* is nothing to interleave between the two).  A database error is logged and the
\* consumer goes on to commit.
Consume(p, i) ==
    /\ ~committing[p]
    /\ reader[i] = {} /\ i \notin committed
    /\ reader' = [reader EXCEPT ![i] = {p}]
    /\ committing' = [committing EXCEPT ![p] = TRUE]
    /\ \/ /\ row' = IF is_intelligence_processed(i) THEN row
                    ELSE [row EXCEPT ![i] = enqueue(@)]
          /\ NoFault
       \/ Fault("enqueue", {i}) /\ UNCHANGED row
    /\ UNCHANGED <<committed, task, resultVars>>

\* consumer.commit() commits every message p has read; when it fails the next one
\* catches up.
Commit(p) ==
    /\ committing[p]
    /\ committing' = [committing EXCEPT ![p] = FALSE]
    /\ committed' = committed \cup {i \in Item : reader[i] = {p}}
    /\ reader' = [i \in Item |-> reader[i] \ {p}]
    /\ UNCHANGED <<row, task, resultVars, faults, hit>>

-----------------------------------------------------------------------------
(* run_analysis_batches. *)

ReclaimStalled(p) ==
    /\ Held(p) = {}
    /\ \E i \in Item : Stalled(row[i])
    /\ row' = [i \in Item |-> reclaim_stalled(row[i])]
    /\ UNCHANGED <<kafkaVars, task, resultVars, faults, hit>>

Claim(p) ==
    /\ Held(p) = {}
    /\ \E batch \in SUBSET {i \in Item : Claimable(row[i])} :
          /\ batch # {} /\ Cardinality(batch) <= LLM_BATCH_SIZE
          /\ row' = [i \in Item |-> IF i \in batch THEN claim(row[i]) ELSE row[i]]
          /\ task' = [task EXCEPT ![p] =
                        [i \in Item |-> IF i \in batch
                                        THEN [pc |-> "claimed", attempts |-> row[i].attempts + 1]
                                        ELSE NoTask]]
    /\ UNCHANGED <<kafkaVars, resultVars, faults, hit>>

\* One task takes the semaphore, checks the flag and calls the model.
Analyze(p, i) ==
    /\ Pc(p, i) = "claimed"
    /\ Cardinality({j \in Item : Pc(p, j) \in InFlight}) < MAX_CONCURRENT_TASKS
    /\ Goto(p, i, IF is_intelligence_processed(i) THEN "done" ELSE "calling")
    /\ UNCHANGED <<row, kafkaVars, resultVars, faults, hit>>

\* A usable answer (or the rule-based fallback) arrives.
ModelAnswers(p, i) ==
    /\ Pc(p, i) = "calling"
    /\ Goto(p, i, "answered")
    /\ answered' = answered \cup {i}
    /\ UNCHANGED <<row, kafkaVars, analytics, flagged, faults, hit>>

\* A transient or a permanent error of the model, or an exception while the
\* result is written, ends the analysis.
AnalysisFails(p, i) ==
    /\ Pc(p, i) \in {"calling", "ingested"}
    /\ \/ Goto(p, i, "retry")
       \/ Pc(p, i) = "calling" /\ Goto(p, i, "failed")
    /\ UNCHANGED <<row, kafkaVars, resultVars, faults, hit>>

\* ingest_intelligence_to_clickhouse logs its errors and returns.
Ingest(p, i) ==
    /\ Pc(p, i) = "answered"
    /\ Goto(p, i, "ingested")
    /\ \/ analytics' = analytics \cup {i} /\ NoFault
       \/ Fault("clickhouse", {i}) /\ UNCHANGED analytics
    /\ UNCHANGED <<row, kafkaVars, answered, flagged>>

\* (Mutant) the flag is written before the analysis.
MarkProcessed_early(p, i) ==
    /\ Pc(p, i) = "answered"
    /\ Goto(p, i, "done")
    /\ flagged' = flagged \cup {i}
    /\ UNCHANGED <<row, kafkaVars, answered, analytics, faults, hit>>

\* _pg_call(mark_item_intelligence_processed) swallows its errors too.
MarkProcessed(p, i) ==
    /\ Pc(p, i) = "ingested"
    /\ Goto(p, i, "done")
    /\ \/ flagged' = flagged \cup {i} /\ NoFault
       \/ Fault("mark", {}) /\ UNCHANGED flagged
    /\ UNCHANGED <<row, kafkaVars, answered, analytics>>

\* (Mutant) the item gets one attempt more.
Exhausted_late(attempts) == attempts > LLM_QUEUE_MAX_ATTEMPTS

Exhausted(attempts) == attempts >= LLM_QUEUE_MAX_ATTEMPTS

\* _settle_queued_item: back with a delay, or parked.
Settle(p, i) ==
    /\ Pc(p, i) \in {"retry", "failed"}
    /\ task' = [task EXCEPT ![p][i] = [pc |-> "settled", attempts |-> 0]]
    /\ \/ /\ row' = [row EXCEPT ![i] =
                      IF Pc(p, i) = "failed" \/ Exhausted(task[p][i].attempts)
                      THEN fail_permanently(@) ELSE fail_retry(@)]
          /\ NoFault
       \/ Fault("settle", {}) /\ UNCHANGED row
    /\ UNCHANGED <<kafkaVars, resultVars>>

\* (Mutant) the whole batch is cleared.
Cleared_all(p) == Held(p)

Cleared(p) == {i \in Held(p) : Pc(p, i) = "done"}

\* gather returned: one DELETE for the analysed items.
EndBatch(p) ==
    /\ Held(p) # {}
    /\ \A i \in Held(p) : Pc(p, i) \in {"done", "settled"}
    /\ task' = [task EXCEPT ![p] = [i \in Item |-> NoTask]]
    /\ \/ /\ row' = [i \in Item |-> IF i \in Cleared(p) THEN settle_success(row[i]) ELSE row[i]]
          /\ NoFault
       \/ Cleared(p) # {} /\ Fault("settle", {}) /\ UNCHANGED row
    /\ UNCHANGED <<kafkaVars, resultVars>>

-----------------------------------------------------------------------------
(* Time and failures. *)

DelayPasses(i) ==
    /\ row[i].status = "pending" /\ ~row[i].due
    /\ row' = [row EXCEPT ![i].due = TRUE]
    /\ UNCHANGED <<kafkaVars, task, resultVars, faults, hit>>

\* LLM_QUEUE_LEASE_SECONDS exceed the worst-case analysis, unless it is slow.
LeaseExpires(i) ==
    /\ row[i].status = "processing" /\ ~row[i].expired
    /\ IF \E p \in Process : i \in Held(p) THEN Fault("slow", {i}) ELSE NoFault
    /\ row' = [row EXCEPT ![i].expired = TRUE]
    /\ UNCHANGED <<kafkaVars, task, resultVars>>

\* A crash, or SIGTERM, which cancels both tasks: claims stay in the table,
\* uncommitted messages are read again.
Crash(p) ==
    /\ Fault("crash", {})
    /\ task' = [task EXCEPT ![p] = [i \in Item |-> NoTask]]
    /\ committing' = [committing EXCEPT ![p] = FALSE]
    /\ reader' = [i \in Item |-> reader[i] \ {p}]
    /\ UNCHANGED <<row, committed, resultVars>>

Work(p) ==
    \/ Commit(p) \/ ReclaimStalled(p) \/ Claim(p) \/ EndBatch(p)
    \/ \E i \in Item :
          \/ Consume(p, i) \/ Analyze(p, i) \/ ModelAnswers(p, i)
          \/ AnalysisFails(p, i) \/ Ingest(p, i) \/ MarkProcessed(p, i) \/ Settle(p, i)

Time == \E i \in Item : DelayPasses(i) \/ LeaseExpires(i)

Next ==
    \/ \E p \in Process : Work(p)
    \/ Time
    \/ \E p \in Process : Crash(p)

-----------------------------------------------------------------------------
(* Type invariant. *)
TypeOK ==
    /\ row \in [Item -> QueueRow]
    /\ reader \in [Item -> {{}} \cup {{p} : p \in Process}]
    /\ committed \subseteq Item
    /\ committing \in [Process -> BOOLEAN]
    /\ task \in [Process -> [Item -> TaskState]]
    /\ answered \subseteq Item /\ analytics \subseteq Item /\ flagged \subseteq Item
    /\ faults \in 0..MaxFaults
    /\ hit \in [Item -> SUBSET FaultKind]

(* llm_analysis_queue.py:25: N workers drain the queue without ever handing *)
(* the same item to two of them, as long as no analysis of it outlives its  *)
(* lease, and what a worker holds is 'processing' until it settles it.      *)
OneHolder ==
    \A p \in Process : \A i \in Held(p) :
        "slow" \notin hit[i] /\ Pc(p, i) # "settled" =>
            /\ row[i].status = "processing"
            /\ \A q \in Process \ {p} : Pc(q, i) \in {"none", "settled"}

(* llm-worker/main.py:2021: once the offset is committed the queue owns the  *)
(* work: no crash, no failed statement of the batch loop and no failed      *)
(* analysis makes an item disappear before the model has answered for it.   *)
(* (Consume shows the one statement whose failure does: the INSERT itself.) *)
NothingDropped ==
    \A i \in committed : row[i].status # "none" \/ i \in answered \/ "enqueue" \in hit[i]

(* _settle_queued_item: an item that keeps failing is parked; only a crash  *)
(* or a failed statement costs an attempt beyond the limit.                 *)
AttemptsBounded == \A i \in Item : row[i].attempts <= LLM_QUEUE_MAX_ATTEMPTS + faults

(* A parked item is never taken up again: not by the reclaim scan, not by a *)
(* redelivered message, not by another worker's settlement, as long as no   *)
(* analysis of it outlives its lease.                                       *)
ParkedStays ==
    [][\A i \in Item : row[i].status = "failed" /\ "slow" \notin hit[i] => row'[i].status = "failed"]_vars

(* Every item is answered for or parked in the end, whichever worker dies,  *)
(* once its INSERT went through.                                            *)
EventuallySettled ==
    \A i \in Item : <>(i \in answered \/ row[i].status = "failed" \/ "enqueue" \in hit[i])

(* llm-worker/main.py:1484: the item keeps intelligence_processed = false   *)
(* until an analysis really lands: the flag follows the row in ClickHouse,  *)
(* for every crash, lease and retry.  (An insert that fails is logged and   *)
(* taken for one that landed: such an item is left out.)                    *)
FlaggedLanded == \A i \in flagged : i \in analytics \/ "clickhouse" \in hit[i]

=============================================================================
