------------------------------ MODULE Exporter ------------------------------
(***************************************************************************)
(* The exporter-worker and the export routes.  One coroutine reads          *)
(* crawl.parsed, writes every item to three stores and puts it into a        *)
(* buffer; the buffer is exported by that coroutine when it is full and by a *)
(* second one on a timer, one file per item and one row of exports per       *)
(* batch.  A step is what happens between two awaits.                        *)
(***************************************************************************)
EXTENDS Integers, Sequences, FiniteSets, SequencesExt

CONSTANTS
    Item, Job, Site,
    None,
    job,               \* job[i], site[i]: the job and the folder of item i
    site,
    Sorted,            \* the sites in the order of sorted()
    export_batch_size,
    Faults,            \* the environment events that may happen
    MaxFaults,         \* bound on how many of them happen
    MaxRequests        \* bound on the exports users ask for or delete

FaultKind == {"sink",   \* a call of Elasticsearch, PostgreSQL or ClickHouse raises
              "export", \* a call of _export_batch raises
              "stop",   \* SIGTERM
              "kill"}

\* What the constants must be; assumed by the module that instantiates this one.
ExporterConstants ==
    /\ job \in [Item -> Job] /\ site \in [Item -> Site]
    /\ Sorted \in Seq(Site) /\ Range(Sorted) = Site
    /\ export_batch_size \in Nat \ {0}
    /\ Faults \subseteq FaultKind /\ MaxFaults \in Nat /\ MaxRequests \in Nat

VARIABLES
    topic,     \* crawl.parsed: the item_ids, in the order of their offsets
    position,  \* messages the consumer has been given
    committed, \* the offset of exporter-group, None before the first commit
    sinks,     \* sinks[i]: the stores that have item i
    buffer,    \* _buffer: offsets of the messages whose items wait for a batch
    task,      \* the coroutines: task["loop"] reads, task["timer"] flushes
    exports,   \* the table exports; .items is the batch behind item_count
    objects,   \* the items that have a file in duka-exports
    stopping,  \* stop_event
    given,     \* given[k]: how often the message at offset k was delivered
    wrong,     \* how many environment events happened
    requests   \* how many exports users asked for or deleted

store == <<exports, objects>>
vars == <<topic, position, committed, sinks, buffer, task, store, stopping, given, wrong, requests>>

Coroutine == {"loop", "timer"}
Sink == {"elasticsearch", "postgres", "clickhouse"}
Exporting == {"create", "upload", "path", "finish"}

\* A coroutine: its next step, the batch it has in hand, the row, the files written.
Stopped == [at |-> "down", batch |-> <<>>, row |-> 0, written |-> 0]
Idle(t) == [Stopped EXCEPT !.at = IF t = "loop" THEN "poll" ELSE "wait"]

\* UPDATE exports: nothing for a row that has been deleted.
Updated(e, row) == IF exports[e].status = "deleted" THEN exports ELSE [exports EXCEPT ![e] = row]

Up == task["loop"].at # "down"
Current == topic[position]
ItemOf(k) == topic[k]

Fault(kind) ==
    /\ kind \in Faults
    /\ wrong < MaxFaults
    /\ wrong' = wrong + 1

Go(t, step) == task' = [task EXCEPT ![t].at = step]
At(step) == task["loop"].at = step

Init ==
    /\ topic = <<>> /\ position = 0 /\ committed = None
    /\ sinks = [i \in Item |-> {}]
    /\ buffer = <<>>
    /\ task = [t \in Coroutine |-> Stopped]
    /\ exports = <<>> /\ objects = {}
    /\ stopping = FALSE /\ given = <<>> /\ wrong = 0 /\ requests = 0

-----------------------------------------------------------------------------
(* The consumer.  The offset is committed on a timer, whatever became of the *)
(* message; a group without an offset starts at the end of the topic.        *)

Publish(i) ==
    /\ topic' = Append(topic, i) /\ given' = Append(given, 0)
    /\ UNCHANGED <<position, committed, sinks, buffer, task, store, stopping, wrong, requests>>

Start ==
    /\ ~ Up
    /\ task' = [t \in Coroutine |-> Idle(t)]
    /\ position' = IF committed = None THEN Len(topic) ELSE committed
    /\ stopping' = FALSE
    /\ UNCHANGED <<topic, committed, sinks, buffer, store, given, wrong, requests>>

Commit ==
    /\ Up /\ position # committed
    /\ committed' = position
    /\ UNCHANGED <<topic, position, sinks, buffer, task, store, stopping, given, wrong, requests>>

Poll ==
    /\ At("poll") /\ position < Len(topic)
    /\ position' = position + 1
    /\ given' = [given EXCEPT ![position'] = @ + 1]
    /\ Go("loop", "elasticsearch")
    /\ UNCHANGED <<topic, committed, sinks, buffer, store, stopping, wrong, requests>>

\* One store of store_single_item; its error is logged and the next one is tried.
Write(s, next) ==
    /\ At(s) /\ Go("loop", next)
    /\ \/ /\ sinks' = [sinks EXCEPT ![Current] = @ \cup {s}]
          /\ UNCHANGED wrong
       \/ Fault("sink") /\ UNCHANGED sinks
    /\ UNCHANGED <<topic, position, committed, buffer, store, stopping, given, requests>>

store_single_item ==
    \/ Write("elasticsearch", "postgres")
    \/ Write("postgres", "clickhouse")
    \/ Write("clickhouse", "add")

-----------------------------------------------------------------------------
(* BatchExportManager.  The lock is never held over an await, so that adding *)
(* an item and taking the batch are a step each.                             *)

\* (Mutant) the buffer is emptied only by the next batch.
Taken_kept(t, items) ==
    /\ task' = [task EXCEPT ![t] = [at |-> "create", batch |-> items, row |-> 0, written |-> 0]]
    /\ buffer' = items

\* flush: the batch leaves the buffer before the first await of _export_batch.
Taken(t, items) ==
    /\ task' = [task EXCEPT ![t] = [at |-> "create", batch |-> items, row |-> 0, written |-> 0]]
    /\ buffer' = <<>>

add ==
    /\ At("add")
    /\ LET items == Append(buffer, position)
       IN  IF Len(items) >= export_batch_size
           THEN Taken("loop", items)
           ELSE buffer' = items /\ Go("loop", "poll")
    /\ UNCHANGED <<topic, position, committed, sinks, store, stopping, given, wrong, requests>>

\* (Mutant) the timer flushes only when the worker stops.
periodic_flush_last ==
    /\ task["timer"].at = "wait" /\ stopping
    /\ IF buffer = <<>> THEN Go("timer", "done") /\ UNCHANGED buffer
                        ELSE Taken("timer", buffer)
    /\ UNCHANGED <<topic, position, committed, sinks, store, stopping, given, wrong, requests>>

\* The interval has passed, or the stop event is set: then this flush is the last.
periodic_flush ==
    /\ task["timer"].at = "wait"
    /\ IF buffer = <<>> THEN stopping /\ Go("timer", "done") /\ UNCHANGED buffer
                        ELSE Taken("timer", buffer)
    /\ UNCHANGED <<topic, position, committed, sinks, store, stopping, given, wrong, requests>>

\* Where a coroutine goes on after _export_batch.
After(t) == IF t = "timer" THEN Idle(t) ELSE [Idle(t) EXCEPT !.at = IF stopping THEN "close" ELSE "poll"]

create_export(t) ==
    /\ task[t].at = "create"
    /\ exports' = Append(exports, [job |-> job[ItemOf(task[t].batch[1])], items |-> task[t].batch,
                                   path |-> None, status |-> "pending"])
    /\ task' = [task EXCEPT ![t].at = "upload", ![t].row = Len(exports')]
    /\ UNCHANGED <<topic, position, committed, sinks, buffer, objects, stopping, given, wrong, requests>>

\* One file per item.
upload(t) ==
    LET k == task[t].written + 1
    IN  /\ task[t].at = "upload"
        /\ objects' = objects \cup {ItemOf(task[t].batch[k])}
        /\ task' = [task EXCEPT ![t].written = k,
                                ![t].at = IF k = Len(task[t].batch) THEN "path" ELSE "upload"]
        /\ UNCHANGED <<topic, position, committed, sinks, buffer, exports, stopping, given, wrong, requests>>

\* The folders a batch went to; the row gets the first of them.
Folders(items) == {site[ItemOf(k)] : k \in Range(items)}
FirstFolder(items) == Sorted[Min({n \in DOMAIN Sorted : Sorted[n] \in Folders(items)})]

update_export_file_path(t) ==
    /\ task[t].at = "path" /\ Go(t, "finish")
    /\ exports' = Updated(task[t].row, [exports[task[t].row] EXCEPT !.path = FirstFolder(task[t].batch)])
    /\ UNCHANGED <<topic, position, committed, sinks, buffer, objects, stopping, given, wrong, requests>>

update_export_status(t) ==
    /\ task[t].at = "finish"
    /\ exports' = Updated(task[t].row, [exports[task[t].row] EXCEPT !.status = "completed"])
    /\ task' = [task EXCEPT ![t] = After(t)]
    /\ UNCHANGED <<topic, position, committed, sinks, buffer, objects, stopping, given, wrong, requests>>

\* (Mutant) an export that fails on a file goes on to the next step.
ExportFails_ignored(t) ==
    /\ task[t].at \in Exporting
    /\ Fault("export")
    /\ task' = [task EXCEPT ![t] = IF @.at = "upload" THEN [@ EXCEPT !.at = "path"] ELSE After(t)]
    /\ UNCHANGED <<topic, position, committed, sinks, buffer, store, stopping, given, requests>>

\* The row, if there is one, is marked failed, unless that fails too; the batch is given up.
ExportFails(t) ==
    /\ task[t].at \in Exporting
    /\ Fault("export")
    /\ exports' \in {exports} \cup
         IF task[t].row = 0 THEN {}
         ELSE {Updated(task[t].row, [exports[task[t].row] EXCEPT !.status = "failed"])}
    /\ task' = [task EXCEPT ![t] = After(t)]
    /\ UNCHANGED <<topic, position, committed, sinks, buffer, objects, stopping, given, requests>>

_export_batch(t) ==
    \/ create_export(t) \/ upload(t) \/ update_export_file_path(t) \/ update_export_status(t)
    \/ ExportFails(t)

-----------------------------------------------------------------------------
(* The end of the worker.                                                    *)

\* The loop is cancelled at its await: an item or a batch it has in hand is gone.
_stop ==
    /\ Up /\ ~ stopping
    /\ Fault("stop")
    /\ stopping' = TRUE
    /\ task' = [task EXCEPT !["loop"] = [Stopped EXCEPT !.at = "cancelled"]]
    /\ UNCHANGED <<topic, position, committed, sinks, buffer, store, given, requests>>

\* flush_task.cancel() and await: a timer that is still exporting is cancelled, and its
\* CancelledError, which is no Exception, ends the worker without a flush or a commit.
\* The timer has been woken by the stop event before.
CancelTimer ==
    /\ At("cancelled") /\ task["timer"].at # "wait"
    /\ IF task["timer"].at = "done"
       THEN IF buffer = <<>> THEN Go("loop", "close") /\ UNCHANGED buffer
                             ELSE Taken("loop", buffer)
       ELSE task' = [t \in Coroutine |-> Stopped] /\ buffer' = <<>>
    /\ UNCHANGED <<topic, position, committed, sinks, store, stopping, given, wrong, requests>>

\* consumer.stop() commits.
Close ==
    /\ At("close")
    /\ committed' = position
    /\ task' = [t \in Coroutine |-> Stopped]
    /\ UNCHANGED <<topic, position, sinks, buffer, store, stopping, given, wrong, requests>>

Kill ==
    /\ Up
    /\ Fault("kill")
    /\ task' = [t \in Coroutine |-> Stopped] /\ buffer' = <<>>
    /\ UNCHANGED <<topic, position, committed, sinks, store, stopping, given, requests>>

-----------------------------------------------------------------------------
(* The export routes.                                                        *)

Asked == requests < MaxRequests /\ requests' = requests + 1

\* POST /exports/: a pending row, for a job that has items.
trigger_export(j) ==
    /\ Asked
    /\ exports' = Append(exports, [job |-> j, items |-> <<>>, path |-> None, status |-> "pending"])
    /\ UNCHANGED <<topic, position, committed, sinks, buffer, task, objects, stopping, given, wrong>>

\* DELETE: the row; the name it removes from the bucket is that of the folder, no file.
delete_export(e) ==
    /\ Asked
    /\ exports[e].status # "deleted"
    /\ exports' = [exports EXCEPT ![e].status = "deleted"]
    /\ UNCHANGED <<topic, position, committed, sinks, buffer, task, objects, stopping, given, wrong>>

\* GET .../download: the files under the folder of a completed export.
download_export(e) ==
    IF exports[e].status = "completed" THEN {i \in objects : site[i] = exports[e].path} ELSE {}

-----------------------------------------------------------------------------

Work ==
    \/ Poll \/ store_single_item \/ add \/ CancelTimer \/ Close
    \/ _export_batch("loop")

Timer == periodic_flush \/ _export_batch("timer")

Routes(jobs) ==
    \/ \E j \in jobs : trigger_export(j)
    \/ \E e \in DOMAIN exports : delete_export(e)

Next(jobs) == Start \/ Commit \/ Work \/ Timer \/ _stop \/ Kill \/ Routes(jobs)

-----------------------------------------------------------------------------

TypeOK ==
    /\ topic \in Seq(Item) /\ DOMAIN given = DOMAIN topic /\ Range(given) \subseteq Nat
    /\ position \in 0..Len(topic) /\ committed \in 0..Len(topic) \cup {None}
    /\ sinks \in [Item -> SUBSET Sink]
    /\ Range(buffer) \subseteq DOMAIN topic /\ Len(buffer) < export_batch_size
    /\ \A t \in Coroutine : /\ Range(task[t].batch) \subseteq DOMAIN topic
                            /\ task[t].at \in Exporting => task[t].batch # <<>>
                            /\ task[t].at \in Exporting \ {"create"} => task[t].row \in DOMAIN exports
    /\ task["loop"].at \in Sink \cup Exporting \cup {"poll", "add", "cancelled", "close", "down"}
    /\ task["timer"].at \in Exporting \cup {"wait", "done", "down"}
    /\ \A e \in DOMAIN exports : exports[e].status \in {"pending", "completed", "failed", "deleted"}
    /\ objects \subseteq Item

\* How often message k is in the buffer, in a batch without a row, or in the batch of a row.
Held(k) ==
    LET in(items) == Cardinality({n \in DOMAIN items : items[n] = k})
        fresh == {t \in Coroutine : task[t].at = "create" /\ k \in Range(task[t].batch)}
        rows == {e \in DOMAIN exports : k \in Range(exports[e].items)}
    IN  in(buffer) + Cardinality(fresh) + Cardinality(rows)

InHand(k) == k = position /\ task["loop"].at \in Sink \cup {"add"}

(* The two coroutines flush one buffer: no delivery of a message is in two   *)
(* batches or twice in the buffer, and as long as nothing fails each is in   *)
(* one of them (exporter-worker/main.py:314-329).                            *)
BatchAccounted ==
    \A k \in DOMAIN topic :
        /\ Held(k) <= given[k]
        /\ wrong = 0 => Held(k) = given[k] - (IF InHand(k) THEN 1 ELSE 0)

(* An export that users may download is whole, whatever failed on the way:   *)
(* every item of its batch has a file, and the archive holds those of the    *)
(* folder its row names, at least one (exporter-worker/main.py:350-386,      *)
(* exports.py:294-304).                                                      *)
CompletedIsWhole ==
    \A e \in DOMAIN exports : exports[e].status = "completed" =>
        LET items == {ItemOf(k) : k \in Range(exports[e].items)}
        IN  /\ items \subseteq objects
            /\ {i \in items : site[i] = exports[e].path} \subseteq download_export(e)
            /\ download_export(e) # {}

Exported(k) == \E e \in DOMAIN exports :
    exports[e].status \in {"completed", "deleted"} /\ k \in Range(exports[e].items)

(* Every message the worker has been given is in all stores and in a         *)
(* finished export some time, also the last one before a pause in the        *)
(* traffic, which the timer exports, unless something failed.                *)
EventuallyExported(Messages) ==
    \A k \in Messages :
        k \in DOMAIN topic /\ given[k] > 0 ~>
            wrong > 0 \/ (k \in DOMAIN topic /\ sinks[ItemOf(k)] = Sink /\ Exported(k))

=============================================================================
