--------------------------- MODULE ContentPipeline ---------------------------
(***************************************************************************)
(* The way of the pages from the crawlers to the stores: ContentDedup       *)
(* composed with the Exporter through crawl.parsed.  The deep worker and    *)
(* the parser publish under the item_id of the row they created.            *)
(***************************************************************************)
EXTENDS ContentDedup

CONSTANTS Site, site, Sorted, export_batch_size, ExporterFaults, MaxExporterFaults, MaxRequests,
          MaxEvents \* bound on the failures and requests of both parts together

VARIABLES topic, position, committed, sinks, buffer, task, exports, objects,
          stopping, given, wrong, requests

X == INSTANCE Exporter WITH Faults <- ExporterFaults, MaxFaults <- MaxExporterFaults

ASSUME PipelineAssumption == X!ExporterConstants /\ MaxEvents \in Nat

exporterVars == <<topic, position, committed, sinks, buffer, task, exports, objects,
                  stopping, given, wrong, requests>>
pipelineVars == <<vars, exporterVars>>

Publishes(i) == pc'[i] = "done" /\ pc[i] \in {"publish", "crawl_publish"}

\* send_and_wait: the message is in the topic when the page is done.
Sent == IF \E i \in Item : Publishes(i)
        THEN X!Publish(item_id(CHOOSE i \in Item : Publishes(i)))
        ELSE UNCHANGED exporterVars

PipelineInit == Init /\ X!Init

\* The export routes know the jobs that have a row.
HaveItems == {j \in Job : \E u \in Url : parsed_items[j][u] # None}

PipelineNext ==
    /\ (Next /\ Sent) \/ (X!Next(HaveItems) /\ UNCHANGED vars)
    /\ faults' + wrong' + requests' <= MaxEvents

PipelineSpec == PipelineInit /\ [][PipelineNext]_pipelineVars

\* The coroutines of the worker go on as long as it runs.
PipelineFair ==
    /\ PipelineSpec
    /\ WF_pipelineVars(X!Work /\ UNCHANGED vars)
    /\ WF_pipelineVars(X!Timer /\ UNCHANGED vars)

TypesOK == TypeOK /\ X!TypeOK
BatchAccounted == X!BatchAccounted
CompletedIsWhole == X!CompletedIsWhole
EventuallyExported == X!EventuallyExported(1..(Cardinality(Item) + MaxFaults))
=============================================================================
