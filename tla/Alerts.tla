-------------------------------- MODULE Alerts --------------------------------
(* The alert feed of the llm-worker: what _persist_analysis does between the   *)
(* insert into ClickHouse and the flag, for the analyses that LLMQueue runs,   *)
(* repeats and loses. Each answer of the model has a severity; ClickHouse and  *)
(* the alert keep the last one that was written, and the owner of the job gets *)
(* a mail for each analysis that is severe.                                    *)
EXTENDS LLMQueue

CONSTANTS
    Severity,              \* threat_severity of the answers, of 1..5
    ALERT_EMAILS_ENABLED

MIN_ALERT_SEVERITY == 4
MAX_SEVERITY == 5
ASSUME AlertAssumption == Severity \subseteq 1..MAX_SEVERITY /\ ALERT_EMAILS_ENABLED \in BOOLEAN

VARIABLES
    verdict,   \* verdict[p][i]: severity of the answer p has for i, 0 without one
    alerting,  \* alerting[p][i]: how far _maybe_raise_alert is
    severity,  \* severity[i] of the row in ClickHouse, 0 without one
    alerts,    \* alerts[i]: severity of i's row in alerts, 0 without one
    mailed     \* mailed[i]: severity in the last mail to the owner, 0 without one

feedVars == <<verdict, alerting, severity, alerts, mailed>>
allVars == <<vars, feedVars>>
queueVars == <<row, kafkaVars, task, resultVars>>

-----------------------------------------------------------------------------

qualifies_as_alert(s) == s \in MIN_ALERT_SEVERITY..MAX_SEVERITY

\* (Mutant) the first alert of an item stays as it is.
upsert_alert_once(i, s) == IF alerts[i] = 0 THEN s ELSE alerts[i]

\* ON CONFLICT (item_id) DO UPDATE
upsert_alert(i, s) == s

\* The answer is parsed, its severity clamped to 1..5.
Answered(p, i) ==
    /\ ModelAnswers(p, i)
    /\ \E s \in Severity : verdict' = [verdict EXCEPT ![p][i] = s]
    /\ UNCHANGED <<alerting, severity, alerts, mailed>>

\* A later row for the same item_id replaces the former.
Ingested(p, i) ==
    /\ Ingest(p, i)
    /\ severity' = IF faults' = faults THEN [severity EXCEPT ![i] = verdict[p][i]] ELSE severity
    /\ alerting' = [alerting EXCEPT ![p][i] = "raise"]
    /\ UNCHANGED <<verdict, alerts, mailed>>

\* (Mutant) a mail for the first analysis only.
NotifiedAfter_first(i) == IF alerts[i] = 0 THEN "mail" ELSE "done"

\* RETURNING alert_id, of a new row and of an updated one.
NotifiedAfter(i) == "mail"

\* _maybe_raise_alert swallows what record_alert raises.
record_alert(p, i) ==
    /\ alerting[p][i] = "raise"
    /\ LET s == verdict[p][i] IN
       \/ /\ qualifies_as_alert(s)
          /\ alerts' = [alerts EXCEPT ![i] = upsert_alert(i, s)]
          /\ alerting' = [alerting EXCEPT ![p][i] = NotifiedAfter(i)]
          /\ NoFault
       \/ /\ ~qualifies_as_alert(s)
          /\ alerting' = [alerting EXCEPT ![p][i] = "done"]
          /\ UNCHANGED alerts /\ NoFault
       \/ /\ Fault("alert", {i})
          /\ alerting' = [alerting EXCEPT ![p][i] = "done"]
          /\ UNCHANGED alerts
    /\ UNCHANGED <<queueVars, verdict, severity, mailed>>

\* The mail tells what the row says now; a failed delivery is logged.
notify_alert_email(p, i) ==
    /\ alerting[p][i] = "mail"
    /\ alerting' = [alerting EXCEPT ![p][i] = "done"]
    /\ \/ /\ mailed' = IF ALERT_EMAILS_ENABLED THEN [mailed EXCEPT ![i] = alerts[i]] ELSE mailed
          /\ NoFault
       \/ Fault("mail", {i}) /\ UNCHANGED mailed
    /\ UNCHANGED <<queueVars, verdict, severity, alerts>>

\* What follows _maybe_raise_alert waits for it.
Alerted(p, i) == alerting[p][i] \in {"none", "done"}

\* The analysis of i in p is over.
Forget(p, i) ==
    /\ verdict' = [verdict EXCEPT ![p][i] = 0]
    /\ alerting' = [alerting EXCEPT ![p][i] = "none"]
    /\ UNCHANGED <<severity, alerts, mailed>>

Ends(p, i) == Alerted(p, i) /\ (MarkProcessed(p, i) \/ AnalysisFails(p, i)) /\ Forget(p, i)

Dies(p) ==
    /\ Crash(p)
    /\ verdict' = [verdict EXCEPT ![p] = [i \in Item |-> 0]]
    /\ alerting' = [alerting EXCEPT ![p] = [i \in Item |-> "none"]]
    /\ UNCHANGED <<severity, alerts, mailed>>

AlertInit ==
    /\ Init
    /\ verdict = [p \in Process |-> [i \in Item |-> 0]]
    /\ alerting = [p \in Process |-> [i \in Item |-> "none"]]
    /\ severity = [i \in Item |-> 0] /\ alerts = [i \in Item |-> 0]
    /\ mailed = [i \in Item |-> 0]

Works(p) ==
    \/ (Commit(p) \/ ReclaimStalled(p) \/ Claim(p) \/ EndBatch(p)) /\ UNCHANGED feedVars
    \/ \E i \in Item :
          \/ (Consume(p, i) \/ Analyze(p, i) \/ Settle(p, i)) /\ UNCHANGED feedVars
          \/ Answered(p, i) \/ Ingested(p, i) \/ Ends(p, i)
          \/ record_alert(p, i) \/ notify_alert_email(p, i)

Passes == \E i \in Item : (LeaseExpires(i) \/ DelayPasses(i)) /\ UNCHANGED feedVars

AlertNext == (\E p \in Process : Works(p) \/ Dies(p)) \/ Passes

AlertSpec == AlertInit /\ [][AlertNext]_allVars

\* A crashed container is restarted, so some process keeps working; leases and
\* delays run out.
FairAlertSpec == AlertSpec /\ WF_allVars(\E p \in Process : Works(p)) /\ WF_allVars(Passes)

-----------------------------------------------------------------------------

\* The queue is done with an item, however often it was analysed and with whatever
\* results. What outlived a lease may still be at work; an insert or an alert that failed
\* is not made good.
Analysed(i) ==
    severity[i] # 0 /\ row[i].status = "none" /\ hit[i] \cap {"slow", "clickhouse", "alert"} = {}

\* alert_service.py:217, client.py:1146: the feed shows a severe finding as ClickHouse
\* has it, also when a crash or a redelivery had the item analysed again.
AlertMirrors ==
    \A i \in Item : Analysed(i) /\ qualifies_as_alert(severity[i]) => alerts[i] = severity[i]

\* llm-worker/main.py:1614: a finding is not the one nobody is paged for: its owner has
\* a mail with its severity, also when a crash came between the alert and the mail,
\* unless a mail about it failed.
OwnerTold ==
    ALERT_EMAILS_ENABLED =>
      \A i \in Item : Analysed(i) /\ qualifies_as_alert(severity[i]) /\ "mail" \notin hit[i]
                        => mailed[i] = severity[i]
===============================================================================
