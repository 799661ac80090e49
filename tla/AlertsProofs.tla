----------------------------- MODULE AlertsProofs -----------------------------
(* Theorems about the queue of analyses, LLMQueue, and the alert feed on top   *)
(* of it, Alerts: for any number of items and processes, any batch size,       *)
(* concurrency and attempt limit, and any kinds and number of faults.          *)
EXTENDS Alerts, TLAPS

-----------------------------------------------------------------------------
(* The queue. *)

(* The statements of the queue return rows. *)
LEMMA RowTypes ==
    ASSUME NEW r \in QueueRow
    PROVE  /\ enqueue(r) \in QueueRow /\ claim(r) \in QueueRow
           /\ settle_success(r) \in QueueRow /\ reclaim_stalled(r) \in QueueRow
           /\ fail_permanently(r) \in QueueRow /\ fail_retry(r) \in QueueRow
  <1> USE DEF QueueRow
  <1>1. NoRow \in QueueRow
    BY DEF NoRow
  <1>2. enqueue(r) \in QueueRow
    BY DEF enqueue, NoRow
  <1>3. claim(r) \in QueueRow
    <2>1. r.attempts \in Nat
        OBVIOUS
    <2>2. r.attempts + 1 \in Nat
        BY <2>1
    <2> QED BY <2>2 DEF claim
  <1>4. settle_success(r) \in QueueRow
    BY <1>1 DEF settle_success
  <1>5. reclaim_stalled(r) \in QueueRow
    BY DEF reclaim_stalled
  <1>6. fail_permanently(r) \in QueueRow
    BY DEF fail_permanently
  <1>7. fail_retry(r) \in QueueRow
    BY DEF fail_retry
  <1> QED BY <1>2, <1>3, <1>4, <1>5, <1>6, <1>7

(* One analysis moves to another control point. *)
LEMMA GotoType ==
    ASSUME NEW p \in Process, NEW i \in Item, TypeOK, NEW pc, Goto(p, i, pc),
           pc \in {"calling", "done", "answered", "ingested", "retry", "failed"}
    PROVE  task' \in [Process -> [Item -> TaskState]]
  <1>1. task[p][i] \in TaskState
    BY DEF TypeOK
  <1>2. [task[p][i] EXCEPT !.pc = pc] \in TaskState
    BY <1>1 DEF TaskState, InFlight, Outcome
  <1>3. [task[p] EXCEPT ![i] = [@ EXCEPT !.pc = pc]] \in [Item -> TaskState]
    BY <1>2 DEF TypeOK
  <1> QED BY <1>3 DEF TypeOK, Goto

(* A fault is counted within the bound, and at the items it hits. *)
LEMMA FaultType ==
    ASSUME NEW kind, NEW items, Fault(kind, items), TypeOK
    PROVE  /\ faults' \in 0..MaxFaults /\ faults' > faults
           /\ hit' \in [Item -> SUBSET FaultKind]
           /\ \A i \in Item : hit[i] \subseteq hit'[i] /\ hit'[i] \subseteq hit[i] \cup {kind}
  <1>1. kind \in FaultKind
    BY QueueAssumption DEF Fault
  <1>2. hit' = [i \in Item |-> IF i \in items THEN hit[i] \cup {kind} ELSE hit[i]]
    BY DEF Fault
  <1>3. hit' \in [Item -> SUBSET FaultKind]
    BY <1>1, <1>2 DEF TypeOK
  <1>4. faults' \in 0..MaxFaults /\ faults' > faults
    BY QueueAssumption DEF TypeOK, Fault
  <1> QED BY <1>2, <1>3, <1>4

Counts == NoFault \/ \E kind, items : Fault(kind, items)

LEMMA StepCounts == ASSUME [Next]_vars PROVE Counts
  <1>1. ASSUME NEW p \in Process, Work(p) PROVE Counts
    BY <1>1 DEF Work, Commit, ReclaimStalled, Claim, EndBatch, Consume, Analyze, ModelAnswers, AnalysisFails,
         Ingest, MarkProcessed, Settle, Counts, NoFault
  <1>2. ASSUME Time PROVE Counts
    BY <1>2 DEF Time, DelayPasses, LeaseExpires, Counts, NoFault
  <1>3. ASSUME NEW p \in Process, Crash(p) PROVE Counts
    BY <1>3 DEF Crash, Counts
  <1>4. CASE UNCHANGED vars
    BY <1>4 DEF vars, Counts, NoFault
  <1> QED BY <1>1, <1>2, <1>3, <1>4 DEF Next

LEMMA CountsGrow ==
    ASSUME TypeOK, Counts
    PROVE  /\ faults' \in 0..MaxFaults /\ faults' >= faults
           /\ hit' \in [Item -> SUBSET FaultKind] /\ \A i \in Item : hit[i] \subseteq hit'[i]
  <1>1. CASE NoFault
    BY <1>1, QueueAssumption DEF NoFault, TypeOK
  <1>2. CASE \E kind, items : Fault(kind, items)
    <2>1. PICK kind, items : Fault(kind, items)
        BY <1>2
    <2>2. /\ faults' \in 0..MaxFaults /\ faults' > faults /\ hit' \in [Item -> SUBSET FaultKind]
          /\ \A i \in Item : hit[i] \subseteq hit'[i]
        BY <2>1, FaultType
    <2>3. faults' >= faults
        BY <2>2, QueueAssumption DEF TypeOK
    <2> QED BY <2>2, <2>3
  <1> QED BY <1>1, <1>2 DEF Counts

LEMMA TypeStep == TypeOK /\ [Next]_vars => TypeOK'
  <1> SUFFICES ASSUME TypeOK, [Next]_vars PROVE TypeOK'
      OBVIOUS
  <1>0. faults' \in 0..MaxFaults /\ hit' \in [Item -> SUBSET FaultKind]
    BY StepCounts, CountsGrow
  <1>1. ASSUME NEW p \in Process, NEW i \in Item, Consume(p, i) PROVE TypeOK'
    <2>1. enqueue(row[i]) \in QueueRow
        BY RowTypes DEF TypeOK
    <2>2. row' \in [Item -> QueueRow]
        BY <1>1, <2>1 DEF TypeOK, Consume
    <2>3. reader' \in [Item -> {{}} \cup {{q} : q \in Process}]
        BY <1>1 DEF TypeOK, Consume
    <2>5. committing' \in [Process -> BOOLEAN]
        BY <1>1 DEF TypeOK, Consume
    <2> QED BY <1>0, <1>1, <2>2, <2>3, <2>5 DEF TypeOK, Consume, resultVars
  <1>2. ASSUME NEW p \in Process, Commit(p) PROVE TypeOK'
    <2>1. \A i \in Item : reader[i] \ {p} \in {{}} \cup {{q} : q \in Process}
        BY DEF TypeOK
    <2>2. reader' \in [Item -> {{}} \cup {{q} : q \in Process}]
        BY <1>2, <2>1 DEF Commit
    <2> QED BY <1>0, <1>2, <2>2 DEF TypeOK, Commit, resultVars
  <1>3. ASSUME NEW p \in Process, ReclaimStalled(p) PROVE TypeOK'
    <2>1. \A i \in Item : reclaim_stalled(row[i]) \in QueueRow
        BY RowTypes DEF TypeOK
    <2> QED BY <1>0, <1>3, <2>1 DEF TypeOK, ReclaimStalled, kafkaVars, resultVars
  <1>4. ASSUME NEW p \in Process, Claim(p) PROVE TypeOK'
    <2>1. \A i \in Item : claim(row[i]) \in QueueRow /\ row[i] \in QueueRow
        BY RowTypes DEF TypeOK
    <2>2. row' \in [Item -> QueueRow]
        BY <1>4, <2>1 DEF Claim
    <2>3. \A i \in Item : [pc |-> "claimed", attempts |-> row[i].attempts + 1] \in TaskState
        BY DEF TypeOK, TaskState, QueueRow
    <2>4. NoTask \in TaskState
        BY DEF NoTask, TaskState
    <2>5. task' \in [Process -> [Item -> TaskState]]
        BY <1>4, <2>3, <2>4 DEF TypeOK, Claim
    <2> QED BY <1>0, <1>4, <2>2, <2>5 DEF TypeOK, Claim, kafkaVars, resultVars
  <1>5. ASSUME NEW p \in Process, NEW i \in Item, Analyze(p, i) PROVE TypeOK'
    <2>1. task' \in [Process -> [Item -> TaskState]]
        BY <1>5, GotoType DEF Analyze, is_intelligence_processed
    <2> QED BY <1>0, <1>5, <2>1 DEF TypeOK, Analyze, kafkaVars, resultVars
  <1>6. ASSUME NEW p \in Process, NEW i \in Item, ModelAnswers(p, i) PROVE TypeOK'
    <2>1. task' \in [Process -> [Item -> TaskState]]
        BY <1>6, GotoType DEF ModelAnswers
    <2> QED BY <1>0, <1>6, <2>1 DEF TypeOK, ModelAnswers, kafkaVars
  <1>7. ASSUME NEW p \in Process, NEW i \in Item, AnalysisFails(p, i) PROVE TypeOK'
    <2>1. task' \in [Process -> [Item -> TaskState]]
        BY <1>7, GotoType DEF AnalysisFails
    <2> QED BY <1>0, <1>7, <2>1 DEF TypeOK, AnalysisFails, kafkaVars, resultVars
  <1>8. ASSUME NEW p \in Process, NEW i \in Item, Ingest(p, i) PROVE TypeOK'
    <2>1. task' \in [Process -> [Item -> TaskState]]
        BY <1>8, GotoType DEF Ingest
    <2> QED BY <1>0, <1>8, <2>1 DEF TypeOK, Ingest, kafkaVars
  <1>9. ASSUME NEW p \in Process, NEW i \in Item, MarkProcessed(p, i) PROVE TypeOK'
    <2>1. task' \in [Process -> [Item -> TaskState]]
        BY <1>9, GotoType DEF MarkProcessed
    <2> QED BY <1>0, <1>9, <2>1 DEF TypeOK, MarkProcessed, kafkaVars
  <1>10. ASSUME NEW p \in Process, NEW i \in Item, Settle(p, i) PROVE TypeOK'
    <2>1. fail_permanently(row[i]) \in QueueRow /\ fail_retry(row[i]) \in QueueRow
        BY RowTypes DEF TypeOK
    <2>2. row' \in [Item -> QueueRow]
        BY <1>10, <2>1 DEF TypeOK, Settle
    <2>3. task' \in [Process -> [Item -> TaskState]]
        BY <1>10 DEF TypeOK, Settle, TaskState
    <2> QED BY <1>0, <1>10, <2>2, <2>3 DEF TypeOK, Settle, kafkaVars, resultVars
  <1>11. ASSUME NEW p \in Process, EndBatch(p) PROVE TypeOK'
    <2>1. \A i \in Item : settle_success(row[i]) \in QueueRow /\ row[i] \in QueueRow
        BY RowTypes DEF TypeOK
    <2>2. row' \in [Item -> QueueRow]
        BY <1>11, <2>1 DEF TypeOK, EndBatch
    <2>3. NoTask \in TaskState
        BY DEF NoTask, TaskState
    <2>4. task' \in [Process -> [Item -> TaskState]]
        BY <1>11, <2>3 DEF TypeOK, EndBatch
    <2> QED BY <1>0, <1>11, <2>2, <2>4 DEF TypeOK, EndBatch, kafkaVars, resultVars
  <1>12. ASSUME NEW i \in Item, DelayPasses(i) PROVE TypeOK'
    <2>1. row' \in [Item -> QueueRow]
        BY <1>12 DEF TypeOK, DelayPasses, QueueRow
    <2> QED BY <1>0, <1>12, <2>1 DEF TypeOK, DelayPasses, kafkaVars, resultVars
  <1>13. ASSUME NEW i \in Item, LeaseExpires(i) PROVE TypeOK'
    <2>1. row' \in [Item -> QueueRow]
        BY <1>13 DEF TypeOK, LeaseExpires, QueueRow
    <2> QED BY <1>0, <1>13, <2>1 DEF TypeOK, LeaseExpires, kafkaVars, resultVars
  <1>14. ASSUME NEW p \in Process, Crash(p) PROVE TypeOK'
    <2>1. NoTask \in TaskState
        BY DEF NoTask, TaskState
    <2>2. task' \in [Process -> [Item -> TaskState]]
        BY <1>14, <2>1 DEF TypeOK, Crash
    <2>3. \A i \in Item : reader[i] \ {p} \in {{}} \cup {{q} : q \in Process}
        BY DEF TypeOK
    <2>4. reader' \in [Item -> {{}} \cup {{q} : q \in Process}]
        BY <1>14, <2>3 DEF Crash
    <2>6. committing' \in [Process -> BOOLEAN]
        BY <1>14 DEF TypeOK, Crash
    <2> QED BY <1>0, <1>14, <2>2, <2>4, <2>6 DEF TypeOK, Crash, resultVars
  <1>15. CASE UNCHANGED vars
    BY <1>15 DEF TypeOK, vars
  <1> QED BY <1>1, <1>2, <1>3, <1>4, <1>5, <1>6, <1>7, <1>8, <1>9, <1>10, <1>11, <1>12, <1>13,
             <1>14, <1>15 DEF Next, Work, Time

-----------------------------------------------------------------------------
(* One holder.  An unsettled analysis owns its row, unless it outlived a     *)
(* lease: the row is 'processing', its lease has not run out, and no other    *)
(* process works on it.                                                      *)

Working(p, i) == Pc(p, i) \notin {"none", "settled"}

SoleHolder(i) ==
    \A p \in Process : Working(p, i) =>
        /\ row[i].status = "processing" /\ ~row[i].expired
        /\ \A q \in Process \ {p} : ~Working(q, i)

HolderInv == \A i \in Item : "slow" \notin hit[i] => SoleHolder(i)

(* When no one starts to work on the item, and its row did not change where  *)
(* someone still does, its holder stays alone.                               *)
LEMMA HolderFrame ==
    ASSUME NEW i \in Item, SoleHolder(i),
           \A p \in Process : Working(p, i)' => Working(p, i) /\ row'[i] = row[i]
    PROVE  SoleHolder(i)'
  BY DEF SoleHolder

(* A step from one control point to the next starts no work of another.      *)
LEMMA GotoWorking ==
    ASSUME NEW p \in Process, NEW j \in Item, TypeOK, NEW pc, Goto(p, j, pc), Working(p, j)
    PROVE  \A q \in Process, i \in Item : Working(q, i)' => Working(q, i)
  BY DEF TypeOK, Goto, Working, Pc

(* Every step of the queue keeps the holder of an item alone, but for a lease *)
(* that is outlived.                                                         *)
LEMMA AloneStep ==
    ASSUME TypeOK, NEW i \in Item, SoleHolder(i), "slow" \notin hit'[i], [Next]_vars
    PROVE  SoleHolder(i)'
  <1>1. ASSUME NEW p \in Process, NEW j \in Item, Consume(p, j) PROVE SoleHolder(i)'
    <2>1. \A q \in Process : Working(q, i)' => Working(q, i)
        BY <1>1 DEF Consume, Working, Pc
    <2>2. ASSUME NEW q \in Process, Working(q, i) PROVE row'[i] = row[i]
        BY <1>1, <2>2 DEF Consume, SoleHolder, TypeOK, enqueue
    <2> QED BY <2>1, <2>2, HolderFrame
  <1>2. ASSUME NEW p \in Process, Commit(p) PROVE SoleHolder(i)'
    BY <1>2, HolderFrame DEF Commit, Working, Pc
  <1>3. ASSUME NEW p \in Process, ReclaimStalled(p) PROVE SoleHolder(i)'
    <2>1. \A q \in Process : Working(q, i)' => Working(q, i)
        BY <1>3 DEF ReclaimStalled, Working, Pc
    <2>2. ASSUME NEW q \in Process, Working(q, i) PROVE row'[i] = row[i]
        BY <1>3, <2>2 DEF ReclaimStalled, SoleHolder, reclaim_stalled, Stalled
    <2> QED BY <2>1, <2>2, HolderFrame
  <1>4. ASSUME NEW p \in Process, Claim(p) PROVE SoleHolder(i)'
    <2>1. PICK batch \in SUBSET {j \in Item : Claimable(row[j])} :
            /\ row' = [j \in Item |-> IF j \in batch THEN claim(row[j]) ELSE row[j]]
            /\ task' = [task EXCEPT ![p] =
                          [j \in Item |-> IF j \in batch
                                          THEN [pc |-> "claimed", attempts |-> row[j].attempts + 1]
                                          ELSE NoTask]]
        BY <1>4 DEF Claim
    <2>2. \A q \in Process \ {p} : Working(q, i)' <=> Working(q, i)
        BY <2>1 DEF TypeOK, Working, Pc
    <2>3. CASE i \in batch
        <3>1. \A q \in Process : ~Working(q, i)
            BY <2>3 DEF Claimable, SoleHolder
        <3>2. row'[i] = claim(row[i]) /\ row[i] \in QueueRow
            BY <2>1, <2>3 DEF TypeOK
        <3>3. row'[i].status = "processing" /\ ~row'[i].expired
            BY <3>2 DEF claim, QueueRow
        <3> QED BY <2>2, <3>1, <3>3 DEF SoleHolder
    <2>4. CASE i \notin batch
        <3>1. row'[i] = row[i] /\ ~Working(p, i)'
            BY <2>1, <2>4 DEF TypeOK, Working, Pc, NoTask
        <3> QED BY <2>2, <3>1, HolderFrame
    <2> QED BY <2>3, <2>4
  <1>5. ASSUME NEW p \in Process, NEW j \in Item, NEW pc, Goto(p, j, pc), Working(p, j),
               UNCHANGED row
        PROVE  SoleHolder(i)'
    BY <1>5, GotoWorking, HolderFrame
  <1>6. ASSUME NEW p \in Process, NEW j \in Item, Analyze(p, j) PROVE SoleHolder(i)'
    BY <1>5, <1>6 DEF Analyze, Working
  <1>7. ASSUME NEW p \in Process, NEW j \in Item, ModelAnswers(p, j) PROVE SoleHolder(i)'
    BY <1>5, <1>7 DEF ModelAnswers, Working
  <1>8. ASSUME NEW p \in Process, NEW j \in Item, AnalysisFails(p, j) PROVE SoleHolder(i)'
    BY <1>5, <1>8 DEF AnalysisFails, Working
  <1>9. ASSUME NEW p \in Process, NEW j \in Item, Ingest(p, j) PROVE SoleHolder(i)'
    BY <1>5, <1>9 DEF Ingest, Working
  <1>10. ASSUME NEW p \in Process, NEW j \in Item, MarkProcessed(p, j) PROVE SoleHolder(i)'
    BY <1>5, <1>10 DEF MarkProcessed, Working
  <1>11. ASSUME NEW p \in Process, NEW j \in Item, Settle(p, j) PROVE SoleHolder(i)'
    <2>1. CASE i = j
        <3>1. \A q \in Process \ {p} : ~Working(q, i)
            BY <1>11, <2>1 DEF Settle, SoleHolder, Working
        <3>2. \A q \in Process : ~Working(q, i)'
            BY <1>11, <2>1, <3>1 DEF Settle, Working, Pc, TypeOK
        <3> QED BY <3>2 DEF SoleHolder
    <2>2. CASE i # j
        <3>1. row'[i] = row[i] /\ \A q \in Process : Working(q, i)' => Working(q, i)
            BY <1>11, <2>2 DEF Settle, Working, Pc, TypeOK
        <3> QED BY <3>1, HolderFrame
    <2> QED BY <2>1, <2>2
  <1>12. ASSUME NEW p \in Process, EndBatch(p) PROVE SoleHolder(i)'
    <2>1. \A q \in Process : Working(q, i)' => Working(q, i) /\ q # p
        BY <1>12 DEF EndBatch, Working, Pc, TypeOK, NoTask
    <2>2. ASSUME NEW q \in Process, Working(q, i)' PROVE row'[i] = row[i]
        <3>1. ~Working(p, i)
            BY <2>1, <2>2 DEF SoleHolder
        <3>2. i \notin Cleared(p)
            BY <3>1 DEF Cleared, Working
        <3> QED BY <1>12, <3>2 DEF EndBatch
    <2> QED BY <2>1, <2>2, HolderFrame
  <1>13. ASSUME NEW j \in Item, DelayPasses(j) PROVE SoleHolder(i)'
    <2>1. \A q \in Process : Working(q, i)' => Working(q, i)
        BY <1>13 DEF DelayPasses, Working, Pc
    <2>2. ASSUME NEW q \in Process, Working(q, i) PROVE row'[i] = row[i]
        BY <1>13, <2>2 DEF DelayPasses, SoleHolder, TypeOK
    <2> QED BY <2>1, <2>2, HolderFrame
  <1>14. ASSUME NEW j \in Item, LeaseExpires(j) PROVE SoleHolder(i)'
    <2>1. \A q \in Process : Working(q, i)' => Working(q, i)
        BY <1>14 DEF LeaseExpires, Working, Pc
    <2>2. ASSUME NEW q \in Process, Working(q, i) PROVE row'[i] = row[i]
        <3>1. i \in Held(q)
            BY <2>2 DEF Held, Working, Pc
        <3>2. j # i
            BY <1>14, <3>1 DEF LeaseExpires, Fault
        <3> QED BY <1>14, <3>2 DEF LeaseExpires, TypeOK
    <2> QED BY <2>1, <2>2, HolderFrame
  <1>15. ASSUME NEW p \in Process, Crash(p) PROVE SoleHolder(i)'
    <2>1. \A q \in Process : Working(q, i)' => Working(q, i)
        BY <1>15 DEF Crash, Working, Pc, TypeOK, NoTask
    <2> QED BY <1>15, <2>1, HolderFrame DEF Crash
  <1>16. CASE UNCHANGED vars
    BY <1>16, HolderFrame DEF vars, Working, Pc
  <1> QED BY <1>1, <1>2, <1>3, <1>4, <1>6, <1>7, <1>8, <1>9, <1>10, <1>11, <1>12, <1>13,
             <1>14, <1>15, <1>16 DEF Next, Work, Time

LEMMA HolderStep == TypeOK /\ HolderInv /\ [Next]_vars => HolderInv'
  <1> SUFFICES ASSUME TypeOK, HolderInv, [Next]_vars, NEW i \in Item, "slow" \notin hit'[i]
               PROVE  SoleHolder(i)'
      BY DEF HolderInv
  <1>1. "slow" \notin hit[i]
    BY StepCounts, CountsGrow
  <1> QED BY <1>1, AloneStep DEF HolderInv

(* Where leases are never outlived everyone works alone.                     *)
NoSlow   == \A i \in Item : "slow" \notin hit[i]
AllAlone == \A i \in Item : SoleHolder(i)

LEMMA NoSlowStep == ASSUME "slow" \notin Faults, TypeOK, NoSlow, Counts PROVE NoSlow'
  <1>1. CASE NoFault
    BY <1>1 DEF NoFault, NoSlow
  <1>2. CASE \E kind, items : Fault(kind, items)
    <2>1. PICK kind, items : Fault(kind, items)
        BY <1>2
    <2>2. kind # "slow" /\ \A i \in Item : hit'[i] \subseteq hit[i] \cup {kind}
        BY <2>1, FaultType DEF Fault
    <2> QED BY <2>2 DEF NoSlow
  <1> QED BY <1>1, <1>2 DEF Counts

(* A parked row stays parked: whoever settles an item works on it, so its row *)
(* is 'processing' and not a row another process has parked.                *)
LEMMA ParkedStep ==
    ASSUME TypeOK, NEW i \in Item, SoleHolder(i), [Next]_vars, row[i].status = "failed"
    PROVE  row'[i].status = "failed"
  <1>1. \A p \in Process : ~Working(p, i)
    BY DEF SoleHolder
  <1>2. ASSUME NEW p \in Process, NEW j \in Item, Consume(p, j) PROVE row'[i].status = "failed"
    BY <1>2 DEF Consume, enqueue, TypeOK
  <1>3. ASSUME NEW p \in Process, ReclaimStalled(p) PROVE row'[i].status = "failed"
    BY <1>3 DEF ReclaimStalled, reclaim_stalled, Stalled
  <1>4. ASSUME NEW p \in Process, Claim(p) PROVE row'[i].status = "failed"
    BY <1>4 DEF Claim, Claimable
  <1>5. ASSUME NEW p \in Process, NEW j \in Item, Settle(p, j) PROVE row'[i].status = "failed"
    <2>1. j # i
        BY <1>1, <1>5 DEF Settle, Working
    <2> QED BY <2>1, <1>5 DEF Settle, TypeOK
  <1>6. ASSUME NEW p \in Process, EndBatch(p) PROVE row'[i].status = "failed"
    <2>1. i \notin Cleared(p)
        BY <1>1 DEF Cleared, Working
    <2> QED BY <2>1, <1>6 DEF EndBatch
  <1>7. ASSUME NEW j \in Item, DelayPasses(j) \/ LeaseExpires(j) PROVE row'[i].status = "failed"
    <2>1. row[i] \in QueueRow
        BY DEF TypeOK
    <2> QED BY <1>7, <2>1 DEF DelayPasses, LeaseExpires, TypeOK, QueueRow
  <1>8. ASSUME NEW p \in Process, NEW j \in Item,
               \/ Commit(p) \/ Crash(p) \/ Analyze(p, j) \/ ModelAnswers(p, j)
               \/ AnalysisFails(p, j) \/ Ingest(p, j) \/ MarkProcessed(p, j)
        PROVE  row'[i].status = "failed"
    BY <1>8 DEF Commit, Crash, Analyze, ModelAnswers, AnalysisFails, Ingest, MarkProcessed
  <1>9. CASE UNCHANGED vars
    BY <1>9 DEF vars
  <1> QED BY <1>2, <1>3, <1>4, <1>5, <1>6, <1>7, <1>8, <1>9 DEF Next, Work, Time

-----------------------------------------------------------------------------
(* Nothing is dropped.  An item whose message was read has a row until the   *)
(* model has answered; a batch clears only items it has an answer for.      *)

OwnedInv ==
    /\ \A i \in Item : reader[i] # {} \/ i \in committed
                         => row[i].status # "none" \/ i \in answered \/ "enqueue" \in hit[i]
    /\ \A p \in Process, i \in Item :
          Pc(p, i) \in {"answered", "ingested", "done"} => i \in answered

(* A row that exists stays, unless the model has answered for its item.      *)
LEMMA RowStays ==
    ASSUME TypeOK, OwnedInv, [Next]_vars, NEW i \in Item, row[i].status # "none"
    PROVE  row'[i].status # "none" \/ i \in answered
  <1>0. row[i] \in QueueRow
    BY DEF TypeOK
  <1>1. ASSUME NEW p \in Process, NEW j \in Item, Consume(p, j) PROVE row'[i].status # "none"
    BY <1>1 DEF Consume, enqueue, TypeOK
  <1>2. ASSUME NEW p \in Process, ReclaimStalled(p) PROVE row'[i].status # "none"
    BY <1>0, <1>2 DEF ReclaimStalled, reclaim_stalled, QueueRow
  <1>3. ASSUME NEW p \in Process, Claim(p) PROVE row'[i].status # "none"
    <2>1. claim(row[i]).status = "processing"
        BY <1>0 DEF claim, QueueRow
    <2>2. row'[i] = row[i] \/ row'[i] = claim(row[i])
        BY <1>3 DEF Claim
    <2> QED BY <2>1, <2>2
  <1>4. ASSUME NEW p \in Process, NEW j \in Item, Settle(p, j) PROVE row'[i].status # "none"
    <2>1. fail_permanently(row[i]).status # "none" /\ fail_retry(row[i]).status # "none"
        BY <1>0 DEF fail_permanently, fail_retry, QueueRow
    <2>2. row'[i] \in {row[i], fail_permanently(row[i]), fail_retry(row[i])}
        BY <1>4 DEF Settle, TypeOK
    <2> QED BY <2>1, <2>2
  <1>5. ASSUME NEW p \in Process, EndBatch(p), i \notin answered PROVE row'[i].status # "none"
    <2>1. i \notin Cleared(p)
        BY <1>5 DEF OwnedInv, Cleared
    <2> QED BY <2>1, <1>5 DEF EndBatch
  <1>6. ASSUME NEW j \in Item, DelayPasses(j) \/ LeaseExpires(j) PROVE row'[i].status # "none"
    BY <1>0, <1>6 DEF DelayPasses, LeaseExpires, TypeOK, QueueRow
  <1>7. ASSUME NEW p \in Process, NEW j \in Item,
               \/ Commit(p) \/ Crash(p) \/ Analyze(p, j) \/ ModelAnswers(p, j)
               \/ AnalysisFails(p, j) \/ Ingest(p, j) \/ MarkProcessed(p, j)
        PROVE  row'[i].status # "none"
    BY <1>7 DEF Commit, Crash, Analyze, ModelAnswers, AnalysisFails, Ingest, MarkProcessed
  <1>8. CASE UNCHANGED vars
    BY <1>8 DEF vars
  <1> QED BY <1>1, <1>2, <1>3, <1>4, <1>5, <1>6, <1>7, <1>8 DEF Next, Work, Time

(* Answers are never taken back.                                             *)
LEMMA AnsweredGrows == [Next]_vars => answered \subseteq answered'
  BY ZenonT(40) DEF Next, Work, Time, Consume, Commit, ReclaimStalled, Claim, Analyze, ModelAnswers,
         AnalysisFails, Ingest, MarkProcessed, Settle, EndBatch, DelayPasses, LeaseExpires,
         Crash, vars, resultVars

(* An analysis that is past the model's answer has one.                      *)
LEMMA AnsweredStep ==
    ASSUME TypeOK, OwnedInv, [Next]_vars, NEW p \in Process, NEW i \in Item,
           (Pc(p, i) \in {"answered", "ingested", "done"})'
    PROVE  i \in answered'
  <1>1. CASE Pc(p, i) \in {"answered", "ingested", "done"}
    BY <1>1, AnsweredGrows DEF OwnedInv
  <1>2. CASE Pc(p, i) \notin {"answered", "ingested", "done"}
    <2>1. ASSUME NEW q \in Process, Claim(q) PROVE FALSE
        BY <2>1, <1>2 DEF Claim, TypeOK, Pc, NoTask
    <2>2. ASSUME NEW q \in Process, NEW j \in Item, NEW pc,
                 Goto(q, j, pc), pc \in {"calling", "retry", "failed"}
          PROVE  FALSE
        BY <2>2, <1>2 DEF Goto, TypeOK, Pc
    <2>8. ASSUME NEW q \in Process, NEW j \in Item,
                 Analyze(q, j) \/ AnalysisFails(q, j)
          PROVE  FALSE
        BY <2>8, <2>2 DEF Analyze, AnalysisFails, is_intelligence_processed
    <2>3. ASSUME NEW q \in Process, NEW j \in Item, Ingest(q, j) \/ MarkProcessed(q, j)
          PROVE  FALSE
        BY <2>3, <1>2 DEF Ingest, MarkProcessed, Goto, TypeOK, Pc
    <2>4. ASSUME NEW q \in Process, NEW j \in Item, ModelAnswers(q, j) PROVE i \in answered'
        BY <2>4, <1>2 DEF ModelAnswers, Goto, TypeOK, Pc
    <2>5. ASSUME NEW q \in Process, NEW j \in Item, Settle(q, j) PROVE FALSE
        BY <2>5, <1>2 DEF Settle, TypeOK, Pc
    <2>6. ASSUME NEW q \in Process, EndBatch(q) \/ Crash(q) PROVE FALSE
        BY <2>6, <1>2 DEF EndBatch, Crash, TypeOK, Pc, NoTask
    <2>7. ASSUME NEW q \in Process, NEW j \in Item,
                 \/ Consume(q, j) \/ Commit(q) \/ ReclaimStalled(q)
                 \/ DelayPasses(j) \/ LeaseExpires(j) \/ UNCHANGED vars
          PROVE  FALSE
        BY <2>7, <1>2 DEF Consume, Commit, ReclaimStalled, DelayPasses, LeaseExpires, vars, Pc
    <2> QED BY <2>1, <2>3, <2>4, <2>5, <2>6, <2>7, <2>8 DEF Next, Work, Time
  <1> QED BY <1>1, <1>2

(* What was read and is not owned by the queue was in the table before.      *)
LEMMA ReadStep ==
    ASSUME TypeOK, [Next]_vars, NEW i \in Item, "enqueue" \notin hit'[i],
           (reader[i] # {} \/ i \in committed)',
           ~ (reader[i] # {} \/ i \in committed)
    PROVE  row'[i].status # "none"
  <1>1. ASSUME NEW p \in Process, NEW j \in Item, Consume(p, j) PROVE row'[i].status # "none"
    <2>1. j = i
        BY <1>1 DEF Consume, TypeOK
    <2>2. row' = [row EXCEPT ![i] = enqueue(@)]
        BY <1>1, <2>1 DEF Consume, Fault, is_intelligence_processed, TypeOK
    <2>3. row'[i] = enqueue(row[i])
        BY <2>2 DEF TypeOK
    <2> QED BY <2>3 DEF enqueue, NoRow
  <1>2. ASSUME NEW p \in Process, Commit(p) PROVE FALSE
    BY <1>2 DEF Commit
  <1>3. ASSUME NEW p \in Process, Crash(p) PROVE FALSE
    BY <1>3 DEF Crash
  <1>4. ASSUME NEW p \in Process, NEW j \in Item,
               \/ ReclaimStalled(p) \/ Claim(p) \/ EndBatch(p) \/ Analyze(p, j)
               \/ ModelAnswers(p, j) \/ AnalysisFails(p, j) \/ Ingest(p, j)
               \/ MarkProcessed(p, j) \/ Settle(p, j)
        PROVE  FALSE
    BY <1>4 DEF ReclaimStalled, Claim, EndBatch, Analyze, ModelAnswers, AnalysisFails, Ingest,
                MarkProcessed, Settle, kafkaVars
  <1>5. ASSUME NEW j \in Item, DelayPasses(j) \/ LeaseExpires(j) PROVE FALSE
    BY <1>5 DEF DelayPasses, LeaseExpires, kafkaVars
  <1>6. CASE UNCHANGED vars
    BY <1>6 DEF vars
  <1> QED BY <1>1, <1>2, <1>3, <1>4, <1>5, <1>6 DEF Next, Work, Time

LEMMA OwnedStep == TypeOK /\ OwnedInv /\ [Next]_vars => OwnedInv'
  <1> SUFFICES ASSUME TypeOK, OwnedInv, [Next]_vars PROVE OwnedInv'
      OBVIOUS
  <1>1. ASSUME NEW i \in Item, (reader[i] # {} \/ i \in committed)', "enqueue" \notin hit'[i]
        PROVE  (row[i].status # "none" \/ i \in answered)'
    <2>1. CASE reader[i] # {} \/ i \in committed
        <3>1. "enqueue" \notin hit[i]
            BY <1>1, StepCounts, CountsGrow
        <3> QED BY <2>1, <3>1, RowStays, AnsweredGrows DEF OwnedInv
    <2>2. CASE ~ (reader[i] # {} \/ i \in committed)
        BY <1>1, <2>2, ReadStep
    <2> QED BY <2>1, <2>2
  <1> QED BY <1>1, AnsweredStep DEF OwnedInv

-----------------------------------------------------------------------------
(* Attempts.  A row that may be claimed again has an attempt left, and an     *)
(* analysis knows the number its row has.  A fault may return a row whose last *)
(* attempt is used up, and costs one.                                        *)

Limit == LLM_QUEUE_MAX_ATTEMPTS + faults

AttemptsOK(i) ==
    /\ row[i].attempts <= Limit
    /\ row[i].status = "pending" => row[i].attempts < Limit
    /\ row[i].status = "processing" /\ (\A p \in Process : ~Working(p, i))
          => row[i].attempts < Limit
    /\ \A p \in Process : Working(p, i) => task[p][i].attempts = row[i].attempts

AttemptsInv == \A i \in Item : AttemptsOK(i)

LEMMA LimitGrows ==
    ASSUME TypeOK, TypeOK'
    PROVE  /\ Limit \in Nat \ {0} /\ Limit' \in Nat \ {0}
           /\ faults' >= faults => Limit' >= Limit
           /\ faults' > faults => Limit' > Limit
  <1>1. ASSUME NEW n \in Nat \ {0}, NEW f \in Nat, NEW g \in Nat
        PROVE  /\ n + f \in Nat \ {0}
               /\ g >= f => n + g >= n + f
               /\ g > f => n + g > n + f
    OBVIOUS
  <1>2. LLM_QUEUE_MAX_ATTEMPTS \in Nat \ {0} /\ faults \in Nat /\ faults' \in Nat
    BY QueueAssumption DEF TypeOK
  <1> QED BY <1>1, <1>2 DEF Limit

(* The row keeps its status and count, and either nobody stops working on it  *)
(* or a fault is counted.                                                    *)
LEMMA AttemptsFrame ==
    ASSUME TypeOK, TypeOK', NEW i \in Item, AttemptsOK(i),
           row'[i].status = row[i].status, row'[i].attempts = row[i].attempts,
           faults' >= faults,
           \A p \in Process :
               Working(p, i)' => Working(p, i) /\ task'[p][i].attempts = task[p][i].attempts,
           (\A p \in Process : Working(p, i) => Working(p, i)') \/ faults' > faults
    PROVE  AttemptsOK(i)'
  <1>1. row[i].attempts \in Nat /\ faults \in Nat /\ faults' \in Nat
    BY QueueAssumption DEF TypeOK, QueueRow
  <1>2. row[i].attempts <= Limit /\ Limit \in Nat /\ Limit' \in Nat /\ Limit' >= Limit
    BY LimitGrows DEF AttemptsOK
  <1>3. row'[i].attempts <= Limit'
    BY <1>1, <1>2
  <1>4. row'[i].status = "pending" => row'[i].attempts < Limit'
    BY <1>1, <1>2 DEF AttemptsOK
  <1>5. row'[i].status = "processing" /\ (\A p \in Process : ~Working(p, i)')
          => row'[i].attempts < Limit'
    <2>1. CASE \A p \in Process : Working(p, i) => Working(p, i)'
        BY <1>1, <1>2, <2>1 DEF AttemptsOK
    <2>2. CASE faults' > faults
        <3>1. Limit' > Limit
            BY <2>2, LimitGrows
        <3> QED BY <1>1, <1>2, <3>1
    <2> QED BY <2>1, <2>2
  <1>6. \A p \in Process : Working(p, i)' => task'[p][i].attempts = row'[i].attempts
    BY DEF AttemptsOK
  <1> QED BY <1>3, <1>4, <1>5, <1>6 DEF AttemptsOK

(* A step from one control point to the next keeps the analysis at work.     *)
LEMMA GotoKeeps ==
    ASSUME NEW p \in Process, NEW i \in Item, TypeOK, NEW pc, Goto(p, i, pc), Working(p, i),
           pc \notin {"none", "settled"}, NEW q \in Process, NEW j \in Item
    PROVE  /\ Working(q, j)' <=> Working(q, j)
           /\ task'[q][j].attempts = task[q][j].attempts
  <1>1. CASE q = p /\ j = i
    <2>1. task[p][i] \in TaskState
        BY DEF TypeOK
    <2>2. task'[p][i] = [task[p][i] EXCEPT !.pc = pc]
        BY DEF Goto, TypeOK
    <2>3. task'[p][i].pc = pc /\ task'[p][i].attempts = task[p][i].attempts
        BY <2>1, <2>2 DEF TaskState
    <2> QED BY <1>1, <2>3 DEF Working, Pc
  <1>2. CASE ~ (q = p /\ j = i)
    <2>1. task'[q][j] = task[q][j]
        BY <1>2 DEF Goto, TypeOK
    <2> QED BY <2>1 DEF Working, Pc
  <1> QED BY <1>1, <1>2

LEMMA AttemptsStep ==
    ASSUME TypeOK, TypeOK', AllAlone, AttemptsInv, [Next]_vars
    PROVE  AttemptsInv'
  <1> SUFFICES ASSUME NEW i \in Item PROVE AttemptsOK(i)'
      BY DEF AttemptsInv
  <1>0. /\ AttemptsOK(i) /\ row[i] \in QueueRow /\ faults \in Nat
        /\ LLM_QUEUE_MAX_ATTEMPTS \in Nat \ {0}
    BY QueueAssumption DEF AttemptsInv, TypeOK
  <1>f. ASSUME NEW kind, NEW items, Fault(kind, items) PROVE faults' = faults + 1 /\ faults' > faults
    BY <1>0, <1>f DEF Fault
  <1>1. ASSUME NEW p \in Process, NEW j \in Item, Consume(p, j) PROVE AttemptsOK(i)'
    <2>1. task' = task /\ faults' >= faults /\ faults' \in Nat
        BY <1>1, <1>f, <1>0 DEF Consume, NoFault
    <2>2. \A q \in Process : Working(q, i)' <=> Working(q, i)
        BY <2>1 DEF Working, Pc
    <2>3. CASE row'[i] = row[i]
        BY <1>0, <2>1, <2>2, <2>3, AttemptsFrame
    <2>4. CASE row'[i] # row[i]
        <3>1. row[i].status = "none" /\ row'[i] = [NoRow EXCEPT !.status = "pending"]
            BY <1>1, <2>4 DEF Consume, enqueue, TypeOK
        <3>2. row'[i].status = "pending" /\ row'[i].attempts = 0
            BY <3>1 DEF NoRow
        <3>3. \A q \in Process : ~Working(q, i)'
            BY <3>1, <2>2 DEF AllAlone, SoleHolder
        <3> QED BY <3>2, <3>3, LimitGrows DEF AttemptsOK
    <2> QED BY <2>3, <2>4
  <1>2. ASSUME NEW p \in Process, Commit(p) PROVE AttemptsOK(i)'
    BY <1>2, <1>0, AttemptsFrame DEF Commit, Working, Pc
  <1>3. ASSUME NEW p \in Process, ReclaimStalled(p) PROVE AttemptsOK(i)'
    <2>1. task' = task /\ faults' = faults /\ row'[i] = reclaim_stalled(row[i])
        BY <1>3 DEF ReclaimStalled
    <2>2. \A q \in Process : Working(q, i)' <=> Working(q, i)
        BY <2>1 DEF Working, Pc
    <2>3. CASE Stalled(row[i])
        <3>1. \A q \in Process : ~Working(q, i)
            BY <2>3 DEF Stalled, AllAlone, SoleHolder
        <3>2. row'[i].status = "pending" /\ row'[i].attempts = row[i].attempts
            BY <1>0, <2>1, <2>3 DEF reclaim_stalled, QueueRow
        <3>3. row[i].attempts < Limit
            BY <1>0, <2>3, <3>1 DEF AttemptsOK, Stalled
        <3> QED BY <1>0, <2>1, <2>2, <3>1, <3>2, <3>3 DEF AttemptsOK, Limit, NoFault
    <2>4. CASE ~Stalled(row[i])
        BY <1>0, <2>1, <2>2, <2>4, AttemptsFrame DEF reclaim_stalled
    <2> QED BY <2>3, <2>4
  <1>4. ASSUME NEW p \in Process, Claim(p) PROVE AttemptsOK(i)'
    <2>1. PICK batch \in SUBSET {j \in Item : Claimable(row[j])} :
            /\ row' = [j \in Item |-> IF j \in batch THEN claim(row[j]) ELSE row[j]]
            /\ task' = [task EXCEPT ![p] =
                          [j \in Item |-> IF j \in batch
                                          THEN [pc |-> "claimed", attempts |-> row[j].attempts + 1]
                                          ELSE NoTask]]
        BY <1>4 DEF Claim
    <2>2. faults' = faults
        BY <1>4 DEF Claim
    <2>3. CASE i \in batch
        <3>1. row[i].status = "pending" /\ row[i].attempts < Limit
            BY <1>0, <2>3 DEF Claimable, AttemptsOK
        <3>2. row'[i].status = "processing" /\ row'[i].attempts = row[i].attempts + 1
            BY <1>0, <2>1, <2>3 DEF claim, QueueRow
        <3>3. Working(p, i)' /\ task'[p][i].attempts = row[i].attempts + 1
            BY <2>1, <2>3 DEF Working, Pc, TypeOK
        <3>4. \A q \in Process \ {p} : ~Working(q, i)'
            BY <2>1, <3>1 DEF AllAlone, SoleHolder, Working, Pc, TypeOK
        <3>5. row[i].attempts + 1 <= Limit'
            BY <1>0, <2>2, <3>1 DEF Limit, QueueRow
        <3> QED BY <3>2, <3>3, <3>4, <3>5 DEF AttemptsOK
    <2>4. CASE i \notin batch
        <3>1. row'[i] = row[i]
            BY <2>1, <2>4
        <3>2. ~Working(p, i) /\ ~Working(p, i)'
            BY <1>4, <2>1, <2>4 DEF Claim, Held, Working, Pc, TypeOK, NoTask
        <3>3. \A q \in Process \ {p} : task'[q][i] = task[q][i]
            BY <2>1 DEF TypeOK
        <3>4. \A q \in Process : /\ Working(q, i)' <=> Working(q, i)
                                 /\ Working(q, i) => task'[q][i].attempts = task[q][i].attempts
            BY <3>2, <3>3 DEF Working, Pc
        <3> QED BY <1>0, <2>2, <3>1, <3>4, AttemptsFrame
    <2> QED BY <2>3, <2>4
  <1>5. ASSUME NEW p \in Process, NEW j \in Item, NEW pc, Goto(p, j, pc), Working(p, j),
               pc \notin {"none", "settled"}, UNCHANGED row, faults' >= faults
        PROVE  AttemptsOK(i)'
    <2>1. \A q \in Process : /\ Working(q, i)' <=> Working(q, i)
                             /\ task'[q][i].attempts = task[q][i].attempts
        BY <1>5, GotoKeeps
    <2> QED BY <1>0, <1>5, <2>1, AttemptsFrame
  <1>6. ASSUME NEW p \in Process, NEW j \in Item,
               Analyze(p, j) \/ ModelAnswers(p, j) \/ AnalysisFails(p, j)
        PROVE  AttemptsOK(i)'
    <2>1. PICK pc \in {"calling", "answered", "done", "retry", "failed"} : Goto(p, j, pc)
        BY <1>6 DEF Analyze, ModelAnswers, AnalysisFails
    <2>2. Working(p, j) /\ UNCHANGED <<row, faults>>
        BY <1>6 DEF Analyze, ModelAnswers, AnalysisFails, Working
    <2> QED BY <1>0, <1>5, <2>1, <2>2
  <1>7. ASSUME NEW p \in Process, NEW j \in Item, Ingest(p, j) \/ MarkProcessed(p, j)
        PROVE  AttemptsOK(i)'
    <2>1. PICK pc \in {"ingested", "done"} : Goto(p, j, pc)
        BY <1>7 DEF Ingest, MarkProcessed
    <2>2. Working(p, j) /\ UNCHANGED row
        BY <1>7 DEF Ingest, MarkProcessed, Working
    <2>3. faults' >= faults
        BY <1>0, <1>7, <1>f DEF Ingest, MarkProcessed, NoFault
    <2> QED BY <1>5, <2>1, <2>2, <2>3
  <1>8. ASSUME NEW p \in Process, NEW j \in Item, Settle(p, j) PROVE AttemptsOK(i)'
    <2>1. faults' >= faults /\ faults' \in Nat
        BY <1>0, <1>8, <1>f DEF Settle, NoFault
    <2>2. CASE i # j
        <3>1. row'[i] = row[i] /\ \A q \in Process : task'[q][i] = task[q][i]
            BY <1>8, <2>2 DEF Settle, TypeOK
        <3> QED BY <1>0, <2>1, <3>1, AttemptsFrame DEF Working, Pc
    <2>3. CASE i = j
        <3>1. Working(p, i) /\ task[p][i].attempts = row[i].attempts
            BY <1>0, <1>8, <2>3 DEF Settle, Working, AttemptsOK
        <3>2. row[i].status = "processing" /\ \A q \in Process \ {p} : ~Working(q, i)
            BY <3>1 DEF AllAlone, SoleHolder
        <3>3. \A q \in Process : ~Working(q, i)'
            BY <1>8, <2>3, <3>2 DEF Settle, Working, Pc, TypeOK
        <3>4. row[i].attempts \in Nat /\ row[i].attempts <= Limit
            BY <1>0 DEF AttemptsOK, QueueRow
        <3>5. CASE Fault("settle", {}) /\ UNCHANGED row
            BY <1>0, <1>f, <3>3, <3>4, <3>5 DEF AttemptsOK, Limit, NoFault
        <3>6. CASE row'[i] = fail_permanently(row[i])
            <4>1. row'[i].status = "failed" /\ row'[i].attempts = row[i].attempts
                BY <1>0, <3>2, <3>6 DEF fail_permanently, QueueRow
            <4> QED BY <1>0, <2>1, <3>3, <3>4, <4>1 DEF AttemptsOK, Limit, NoFault
        <3>7. CASE row'[i] = fail_retry(row[i]) /\ ~Exhausted(task[p][i].attempts)
            <4>1. row'[i].status = "pending" /\ row'[i].attempts = row[i].attempts
                BY <1>0, <3>2, <3>7 DEF fail_retry, QueueRow
            <4>2. row[i].attempts < LLM_QUEUE_MAX_ATTEMPTS
                BY <1>0, <3>1, <3>4, <3>7 DEF Exhausted
            <4> QED BY <1>0, <2>1, <3>3, <3>4, <4>1, <4>2 DEF AttemptsOK, Limit, NoFault
        <3> QED BY <1>8, <2>3, <3>5, <3>6, <3>7 DEF Settle, TypeOK
    <2> QED BY <2>2, <2>3
  <1>9. ASSUME NEW p \in Process, EndBatch(p) PROVE AttemptsOK(i)'
    <2>1. /\ \A q \in Process \ {p} : task'[q][i] = task[q][i]
          /\ task'[p][i] = NoTask
        BY <1>9 DEF EndBatch, TypeOK
    <2>2. \A q \in Process : Working(q, i)' => q # p /\ Working(q, i)
        BY <2>1 DEF Working, Pc, NoTask
    <2>3. CASE Fault("settle", {}) /\ UNCHANGED row
        BY <1>0, <1>f, <2>1, <2>2, <2>3, AttemptsFrame
    <2>4. CASE NoFault /\ i \in Cleared(p) /\ row'[i] = NoRow
        <3>1. \A q \in Process : ~Working(q, i)'
            BY <2>2, <2>4 DEF AllAlone, SoleHolder, Cleared, Working
        <3>2. row'[i].status = "none" /\ row'[i].attempts = 0
            BY <2>4 DEF NoRow
        <3> QED BY <1>0, <2>4, <3>1, <3>2 DEF AttemptsOK, Limit, NoFault
    <2>5. CASE NoFault /\ i \notin Cleared(p) /\ row'[i] = row[i]
        <3>1. ~Working(p, i)
            BY <1>9, <2>5 DEF EndBatch, Cleared, Working, Held, Pc
        <3>2. \A q \in Process : Working(q, i) => Working(q, i)'
            BY <2>1, <3>1 DEF Working, Pc
        <3> QED BY <1>0, <2>1, <2>2, <2>5, <3>2, AttemptsFrame DEF NoFault
    <2> QED BY <1>9, <2>3, <2>4, <2>5 DEF EndBatch, settle_success
  <1>10. ASSUME NEW j \in Item, DelayPasses(j) \/ LeaseExpires(j) PROVE AttemptsOK(i)'
    <2>1. task' = task
        BY <1>10 DEF DelayPasses, LeaseExpires
    <2>2. faults' >= faults
        BY <1>0, <1>10, <1>f DEF DelayPasses, LeaseExpires, NoFault
    <2>3. row'[i].status = row[i].status /\ row'[i].attempts = row[i].attempts
        BY <1>0, <1>10 DEF DelayPasses, LeaseExpires, TypeOK, QueueRow
    <2> QED BY <1>0, <2>1, <2>2, <2>3, AttemptsFrame DEF Working, Pc
  <1>11. ASSUME NEW p \in Process, Crash(p) PROVE AttemptsOK(i)'
    <2>1. faults' > faults /\ row' = row
        BY <1>11, <1>f DEF Crash
    <2>2. /\ \A q \in Process \ {p} : task'[q][i] = task[q][i]
          /\ task'[p][i] = NoTask
        BY <1>11 DEF Crash, TypeOK
    <2>3. \A q \in Process : Working(q, i)' => q # p /\ Working(q, i)
        BY <2>2 DEF Working, Pc, NoTask
    <2>4. faults' >= faults
        BY <1>0, <1>11, <1>f DEF Crash
    <2> QED BY <1>0, <2>1, <2>2, <2>3, <2>4, AttemptsFrame
  <1>12. CASE UNCHANGED vars
    BY <1>0, <1>12, AttemptsFrame DEF vars, Working, Pc
  <1> QED BY <1>1, <1>2, <1>3, <1>4, <1>6, <1>7, <1>8, <1>9, <1>10, <1>11, <1>12
          DEF Next, Work, Time

-----------------------------------------------------------------------------
(* Flags.  An analysis past the ClickHouse insert has its row there.         *)

IngestedInv ==
    \A p \in Process, i \in Item : Pc(p, i) = "ingested" => i \in analytics \/ "clickhouse" \in hit[i]

LEMMA FlagStep ==
    TypeOK /\ IngestedInv /\ FlaggedLanded /\ [Next]_vars => IngestedInv' /\ FlaggedLanded'
  <1> SUFFICES ASSUME TypeOK, IngestedInv, FlaggedLanded, [Next]_vars
               PROVE  IngestedInv' /\ FlaggedLanded'
      OBVIOUS
  <1>0. \A i \in Item : hit[i] \subseteq hit'[i]
    BY StepCounts, CountsGrow
  <1>a. flagged \subseteq Item /\ analytics \subseteq Item
    BY DEF TypeOK
  <1>1. ASSUME NEW p \in Process, NEW i \in Item, NEW pc, Goto(p, i, pc), pc # "ingested",
               UNCHANGED analytics
        PROVE  IngestedInv'
    BY <1>0, <1>1 DEF Goto, IngestedInv, Pc, TypeOK
  <1>2. ASSUME NEW p \in Process, NEW i \in Item,
               Analyze(p, i) \/ ModelAnswers(p, i) \/ AnalysisFails(p, i)
        PROVE  IngestedInv' /\ FlaggedLanded'
    <2>1. UNCHANGED <<analytics, flagged>>
        BY <1>2 DEF Analyze, ModelAnswers, AnalysisFails, resultVars
    <2>2. PICK pc \in {"calling", "answered", "done", "retry", "failed"} : Goto(p, i, pc)
        BY <1>2 DEF Analyze, ModelAnswers, AnalysisFails
    <2> QED BY <1>0, <1>a, <1>1, <2>1, <2>2 DEF FlaggedLanded
  <1>3. ASSUME NEW p \in Process, NEW i \in Item, Ingest(p, i)
        PROVE  IngestedInv' /\ FlaggedLanded'
    <2>1. analytics \subseteq analytics' /\ (i \in analytics' \/ "clickhouse" \in hit'[i]) /\ UNCHANGED flagged
        BY <1>3 DEF Ingest, Fault
    <2>2. \A q \in Process, j \in Item : Pc(q, j)' = "ingested" => j = i \/ Pc(q, j) = "ingested"
        BY <1>3 DEF Ingest, Goto, Pc, TypeOK
    <2> QED BY <1>0, <1>a, <2>1, <2>2 DEF IngestedInv, FlaggedLanded
  <1>4. ASSUME NEW p \in Process, NEW i \in Item, MarkProcessed(p, i)
        PROVE  IngestedInv' /\ FlaggedLanded'
    <2>1. UNCHANGED analytics /\ Goto(p, i, "done") /\ flagged' \subseteq flagged \cup {i}
        BY <1>4 DEF MarkProcessed
    <2>2. i \in analytics \/ "clickhouse" \in hit[i]
        BY <1>4 DEF MarkProcessed, IngestedInv
    <2> QED BY <1>0, <1>a, <1>1, <2>1, <2>2 DEF FlaggedLanded
  <1>5. ASSUME UNCHANGED <<analytics, flagged>>,
               \A p \in Process, i \in Item : Pc(p, i)' = "ingested" => Pc(p, i) = "ingested"
        PROVE  IngestedInv' /\ FlaggedLanded'
    BY <1>0, <1>a, <1>5 DEF IngestedInv, FlaggedLanded
  <1>6. ASSUME NEW p \in Process, Claim(p) \/ EndBatch(p) \/ Crash(p)
        PROVE  IngestedInv' /\ FlaggedLanded'
    <2>1. UNCHANGED <<analytics, flagged>>
        BY <1>6 DEF Claim, EndBatch, Crash, resultVars
    <2>2. \A q \in Process \ {p}, i \in Item : Pc(q, i)' = Pc(q, i)
        BY <1>6 DEF Claim, EndBatch, Crash, Pc, TypeOK
    <2>3. \A i \in Item : Pc(p, i)' \in {"none", "claimed"}
        <3>1. CASE Claim(p)
            BY <3>1 DEF Claim, Pc, TypeOK, NoTask
        <3>2. CASE EndBatch(p) \/ Crash(p)
            BY <3>2 DEF EndBatch, Crash, Pc, TypeOK, NoTask
        <3> QED BY <1>6, <3>1, <3>2
    <2> QED BY <1>5, <2>1, <2>2, <2>3
  <1>7. ASSUME NEW p \in Process, NEW i \in Item, Settle(p, i)
        PROVE  IngestedInv' /\ FlaggedLanded'
    BY <1>5, <1>7 DEF Settle, Pc, TypeOK, resultVars
  <1>8. ASSUME NEW p \in Process, NEW i \in Item, Consume(p, i)
        PROVE  IngestedInv' /\ FlaggedLanded'
    BY <1>5, <1>8 DEF Consume, Pc, resultVars
  <1>9. ASSUME NEW p \in Process, Commit(p) \/ ReclaimStalled(p)
        PROVE  IngestedInv' /\ FlaggedLanded'
    BY <1>5, <1>9 DEF Commit, ReclaimStalled, Pc, resultVars
  <1>10. ASSUME NEW i \in Item, DelayPasses(i) \/ LeaseExpires(i)
         PROVE  IngestedInv' /\ FlaggedLanded'
    BY <1>5, <1>10 DEF DelayPasses, LeaseExpires, Pc, resultVars
  <1>11. CASE UNCHANGED vars
    BY <1>5, <1>11 DEF vars, Pc
  <1> QED BY <1>2, <1>3, <1>4, <1>6, <1>7, <1>8, <1>9, <1>10, <1>11 DEF Next, Work, Time

-----------------------------------------------------------------------------
(* The feed. *)

FeedTypeOK ==
    /\ verdict \in [Process -> [Item -> Nat]]
    /\ alerting \in [Process -> [Item -> {"none", "raise", "mail", "done"}]]
    /\ severity \in [Item -> Nat] /\ alerts \in [Item -> Nat] /\ mailed \in [Item -> Nat]

(* Two steps of the feed leave the queue alone, all others are steps of it.    *)
FeedOnly == UNCHANGED queueVars /\ Counts

LEMMA QueueSteps ==
    ASSUME [AlertNext]_allVars PROVE [Next]_vars \/ FeedOnly
  <1>1. ASSUME NEW p \in Process, NEW i \in Item, record_alert(p, i) \/ notify_alert_email(p, i)
        PROVE  FeedOnly
    BY <1>1 DEF record_alert, notify_alert_email, FeedOnly, Counts
  <1>2. ASSUME NEW p \in Process, Works(p), ~FeedOnly PROVE Next
    BY <1>1, <1>2 DEF Works, Answered, Ingested, Ends, Next, Work
  <1>3. ASSUME NEW p \in Process, Dies(p) PROVE Next
    BY <1>3 DEF Dies, Next
  <1>4. ASSUME Passes PROVE Next
    BY <1>4 DEF Passes, Next, Time
  <1>5. CASE UNCHANGED allVars
    BY <1>5 DEF allVars
  <1> QED BY <1>2, <1>3, <1>4, <1>5 DEF AlertNext

LEMMA AlertQueueType ==
    ASSUME TypeOK, [AlertNext]_allVars PROVE TypeOK'
  <1>1. CASE [Next]_vars
    BY <1>1, TypeStep
  <1>2. CASE FeedOnly
    <2>1. faults' \in 0..MaxFaults /\ hit' \in [Item -> SUBSET FaultKind]
        BY <1>2, CountsGrow DEF FeedOnly
    <2>2. UNCHANGED <<row, reader, committed, committing, task, answered, analytics, flagged>>
        BY <1>2 DEF FeedOnly, queueVars, kafkaVars, resultVars
    <2> QED BY <2>1, <2>2 DEF TypeOK
  <1> QED BY <1>1, <1>2, QueueSteps

LEMMA AlertCounts == ASSUME [AlertNext]_allVars PROVE Counts
  BY QueueSteps, StepCounts DEF FeedOnly

(* The variables of the feed keep their types.                                 *)
LEMMA FeedTypeStep ==
    ASSUME FeedTypeOK, [AlertNext]_allVars PROVE FeedTypeOK'
  <1> USE DEF FeedTypeOK
  <1>1. ASSUME NEW p \in Process, NEW i \in Item, Answered(p, i) PROVE FeedTypeOK'
    <2>1. PICK s \in Severity : verdict' = [verdict EXCEPT ![p][i] = s]
        BY <1>1 DEF Answered
    <2>2. s \in Nat
        BY AlertAssumption DEF MAX_SEVERITY
    <2>3. verdict' \in [Process -> [Item -> Nat]]
        BY <2>1, <2>2
    <2> QED BY <1>1, <2>3 DEF Answered
  <1>2. ASSUME NEW p \in Process, NEW i \in Item, Ingested(p, i) PROVE FeedTypeOK'
    <2>1. alerting' \in [Process -> [Item -> {"none", "raise", "mail", "done"}]]
        BY <1>2 DEF Ingested
    <2>2. severity' \in [Item -> Nat]
        BY <1>2 DEF Ingested
    <2> QED BY <1>2, <2>1, <2>2 DEF Ingested
  <1>3. ASSUME NEW p \in Process, NEW i \in Item, record_alert(p, i) PROVE FeedTypeOK'
    <2>0. PICK a \in {"mail", "done"} : alerting' = [alerting EXCEPT ![p][i] = a]
        BY <1>3 DEF record_alert, NotifiedAfter
    <2>1. alerting' \in [Process -> [Item -> {"none", "raise", "mail", "done"}]]
        BY <2>0
    <2>2. alerts' \in [Item -> Nat]
        BY <1>3 DEF record_alert, upsert_alert
    <2> QED BY <1>3, <2>1, <2>2 DEF record_alert
  <1>4. ASSUME NEW p \in Process, NEW i \in Item, notify_alert_email(p, i) PROVE FeedTypeOK'
    <2>1. alerting' \in [Process -> [Item -> {"none", "raise", "mail", "done"}]]
        BY <1>4 DEF notify_alert_email
    <2>2. mailed' \in [Item -> Nat]
        BY <1>4 DEF notify_alert_email
    <2> QED BY <1>4, <2>1, <2>2 DEF notify_alert_email
  <1>5. ASSUME NEW p \in Process, NEW i \in Item, Ends(p, i) PROVE FeedTypeOK'
    BY <1>5 DEF Ends, Forget
  <1>6. ASSUME NEW p \in Process, Dies(p) PROVE FeedTypeOK'
    BY <1>6 DEF Dies
  <1>8. CASE UNCHANGED feedVars
    BY <1>8 DEF feedVars
  <1> QED BY <1>1, <1>2, <1>3, <1>4, <1>5, <1>6, <1>8
          DEF AlertNext, Works, Passes, allVars

-----------------------------------------------------------------------------
(* What is known of an item that outlived no lease and lost no insert or alert: *)
(* its analysis is the only one at work on it, ClickHouse has its verdict while *)
(* the alert is being raised, and alert and mail (unless one failed) agree with *)
(* it from then until the row is cleared.                                      *)

Excused(i) == hit[i] \cap {"slow", "clickhouse", "alert"} # {}
Mirrored(i) == qualifies_as_alert(severity[i]) => alerts[i] = severity[i]
Told(i) == ALERT_EMAILS_ENABLED /\ "mail" \notin hit[i] /\ qualifies_as_alert(severity[i]) => mailed[i] = severity[i]

RaisingOK(p, i) ==
    /\ alerting[p][i] = "none" <=> Pc(p, i) # "ingested"
    /\ Pc(p, i) = "ingested" => severity[i] = verdict[p][i]
    /\ Pc(p, i) = "ingested" /\ alerting[p][i] \in {"mail", "done"} => Mirrored(i)
    /\ Pc(p, i) = "ingested" /\ alerting[p][i] = "done" => Told(i)
    /\ Pc(p, i) = "done" => Mirrored(i) /\ Told(i)

FeedOK(i) ==
    ~Excused(i) =>
      /\ SoleHolder(i)
      /\ \A p \in Process : RaisingOK(p, i)
      /\ row[i].status = "none" => Mirrored(i) /\ Told(i)

FeedInv == \A i \in Item : FeedOK(i)

(* A step that changes nothing of an item, or excuses it.                      *)
LEMMA FeedFrame ==
    ASSUME NEW i \in Item, FeedOK(i), hit[i] \subseteq hit'[i],
           ~Excused(i)' =>
             /\ row'[i].status = row[i].status /\ row'[i].expired = row[i].expired
             /\ \A p \in Process : /\ Pc(p, i)' = Pc(p, i)
                                   /\ alerting'[p][i] = alerting[p][i]
                                   /\ verdict'[p][i] = verdict[p][i]
             /\ severity'[i] = severity[i] /\ alerts'[i] = alerts[i] /\ mailed'[i] = mailed[i]
    PROVE  FeedOK(i)'
  <1> SUFFICES ASSUME ~Excused(i)' PROVE FeedOK(i)'
      BY DEF FeedOK
  <1>0. ~Excused(i)
    BY DEF Excused
  <1>1. Mirrored(i) => Mirrored(i)'
    BY DEF Mirrored
  <1>2. Told(i) => Told(i)'
    BY DEF Told
  <1>3. SoleHolder(i)'
    BY <1>0 DEF FeedOK, SoleHolder, Working
  <1>4. ASSUME NEW p \in Process PROVE RaisingOK(p, i)'
    BY <1>0, <1>1, <1>2 DEF FeedOK, RaisingOK
  <1> QED BY <1>0, <1>1, <1>2, <1>3, <1>4 DEF FeedOK

(* A step of p that ends or begins an analysis of i, or moves it between       *)
(* control points that know nothing of the alert.                              *)
LEMMA FeedMove ==
    ASSUME NEW p \in Process, NEW i \in Item, FeedTypeOK, FeedOK(i), ~Excused(i), hit[i] \subseteq hit'[i],
           UNCHANGED <<severity, alerts, mailed>>,
           \A q \in Process \ {p} : /\ Pc(q, i)' = Pc(q, i)
                                    /\ alerting'[q][i] = alerting[q][i]
                                    /\ verdict'[q][i] = verdict[q][i],
           Pc(p, i)' \notin {"ingested", "done"}, alerting'[p][i] = "none",
           SoleHolder(i)', row'[i].status = "none" => Mirrored(i) /\ Told(i)
    PROVE  FeedOK(i)'
  <1>1. (Mirrored(i) => Mirrored(i)') /\ (Told(i) => Told(i)')
    BY DEF Mirrored, Told
  <1>2. ASSUME NEW q \in Process \ {p} PROVE RaisingOK(q, i)'
    BY <1>1, <1>2 DEF FeedOK, RaisingOK
  <1>3. RaisingOK(p, i)'
    BY DEF RaisingOK
  <1> QED BY <1>1, <1>2, <1>3 DEF FeedOK

(* Who works on an item that is not excused works on it alone.                 *)
LEMMA Alone ==
    ASSUME NEW p \in Process, NEW i \in Item, FeedOK(i), ~Excused(i), Working(p, i)
    PROVE  /\ row[i].status = "processing" /\ ~row[i].expired
           /\ \A q \in Process \ {p} : ~Working(q, i)
  BY DEF FeedOK, SoleHolder

(* Nothing but p's own control point changed for the item, or less work is     *)
(* done on it than before.                                                     *)
LEMMA StillAlone ==
    ASSUME NEW i \in Item, FeedOK(i), ~Excused(i),
           \A q \in Process : Working(q, i)' => Working(q, i),
           (\E q \in Process : Working(q, i)') =>
               row'[i].status = row[i].status /\ row'[i].expired = row[i].expired
    PROVE  SoleHolder(i)'
  BY DEF FeedOK, SoleHolder
LEMMA GotoPc ==
    ASSUME NEW p \in Process, NEW i \in Item, TypeOK, NEW pc, Goto(p, i, pc)
    PROVE  /\ Pc(p, i)' = pc
           /\ \A q \in Process, j \in Item : q # p \/ j # i => Pc(q, j)' = Pc(q, j)
  <1>1. task[p][i] \in TaskState
    BY DEF TypeOK
  <1> QED BY <1>1 DEF Goto, Pc, TypeOK, TaskState

-----------------------------------------------------------------------------
(* The steps of the queue that do not touch the feed.                          *)

LEMMA QueueKeepsFeed ==
    ASSUME TypeOK, FeedTypeOK, FeedInv, NEW i \in Item, hit[i] \subseteq hit'[i], NEW p \in Process, UNCHANGED feedVars,
           Commit(p) \/ ReclaimStalled(p) \/ Claim(p) \/ EndBatch(p)
    PROVE  FeedOK(i)'
  <1> SUFFICES ASSUME ~Excused(i)' PROVE FeedOK(i)'
      BY DEF FeedOK
  <1>e. ~Excused(i)
    BY DEF Excused
  <1>0. FeedOK(i) /\ row[i] \in QueueRow
    BY DEF FeedInv, TypeOK
  <1>f. UNCHANGED <<verdict, alerting, severity, alerts, mailed>>
    BY DEF feedVars
  <1>1. CASE Commit(p)
    BY <1>e, <1>0, <1>f, <1>1, FeedFrame DEF Commit, Pc
  <1>2. CASE ReclaimStalled(p)
    <2>1. task' = task /\ row'[i] = reclaim_stalled(row[i])
        BY <1>e, <1>2 DEF ReclaimStalled
    <2>2. CASE Stalled(row[i])
        <3>1. \A q \in Process : ~Working(q, i) /\ Pc(q, i)' = Pc(q, i)
            BY <1>e, <1>0, <2>1, <2>2 DEF Stalled, FeedOK, SoleHolder, Pc
        <3>2. row'[i].status = "pending"
            BY <1>e, <1>0, <2>1, <2>2 DEF reclaim_stalled, QueueRow
        <3>3. SoleHolder(i)'
            BY <3>1 DEF SoleHolder, Working
        <3>4. Pc(p, i)' \notin {"ingested", "done"} /\ alerting'[p][i] = "none"
            BY <1>e, <1>0, <1>f, <3>1 DEF Working, FeedOK, RaisingOK
        <3> QED BY <1>e, <1>0, <1>f, <3>1, <3>2, <3>3, <3>4, FeedMove
    <2>3. CASE ~Stalled(row[i])
        BY <1>e, <1>0, <1>f, <2>1, <2>3, FeedFrame DEF reclaim_stalled, Pc
    <2> QED BY <2>2, <2>3
  <1>3. CASE Claim(p)
    <2>1. PICK batch \in SUBSET {j \in Item : Claimable(row[j])} :
            /\ row' = [j \in Item |-> IF j \in batch THEN claim(row[j]) ELSE row[j]]
            /\ task' = [task EXCEPT ![p] =
                          [j \in Item |-> IF j \in batch
                                          THEN [pc |-> "claimed", attempts |-> row[j].attempts + 1]
                                          ELSE NoTask]]
        BY <1>3 DEF Claim
    <2>2. Pc(p, i) = "none" /\ alerting[p][i] = "none"
        BY <1>e, <1>0, <1>3 DEF Claim, Held, Pc, FeedOK, RaisingOK
    <2>3. \A q \in Process \ {p} : Pc(q, i)' = Pc(q, i)
        BY <2>1 DEF Pc, TypeOK
    <2>4. CASE i \in batch
        <3>1. Pc(p, i)' = "claimed" /\ row'[i] = claim(row[i])
            BY <2>1, <2>4 DEF Pc, TypeOK
        <3>2. row'[i].status = "processing" /\ ~row'[i].expired
            BY <1>e, <1>0, <3>1 DEF claim, QueueRow
        <3>3. \A q \in Process : ~Working(q, i)
            BY <1>e, <1>0, <2>4 DEF Claimable, FeedOK, SoleHolder
        <3>4. SoleHolder(i)'
            BY <2>3, <3>2, <3>3 DEF SoleHolder, Working
        <3> QED BY <1>e, <1>0, <1>f, <2>2, <2>3, <3>1, <3>2, <3>4, FeedMove
    <2>5. CASE i \notin batch
        <3>1. Pc(p, i)' = "none" /\ row'[i] = row[i]
            BY <2>1, <2>5 DEF Pc, TypeOK, NoTask
        <3>2. \A q \in Process : Pc(q, i)' = Pc(q, i)
            BY <2>2, <2>3, <3>1
        <3> QED BY <1>e, <1>0, <1>f, <3>1, <3>2, FeedFrame
    <2> QED BY <2>4, <2>5
  <1>4. CASE EndBatch(p)
    <2>1. Pc(p, i) \in {"none", "done", "settled"} /\ alerting[p][i] = "none"
        BY <1>e, <1>0, <1>4 DEF EndBatch, Held, Pc, FeedOK, RaisingOK
    <2>2. Pc(p, i)' = "none" /\ \A q \in Process \ {p} : Pc(q, i)' = Pc(q, i)
        BY <1>e, <1>4 DEF EndBatch, Pc, TypeOK, NoTask
    <2>3. row'[i] = row[i] \/ (Pc(p, i) = "done" /\ row'[i] = NoRow)
        BY <1>e, <1>4 DEF EndBatch, Cleared, settle_success
    <2>4. row'[i].status = "none" => Mirrored(i) /\ Told(i)
        BY <1>e, <1>0, <2>3 DEF FeedOK, RaisingOK
    <2>5. \A q \in Process : Working(q, i)' => q # p /\ Working(q, i)
        BY <2>2 DEF Working
    <2>6. (\E q \in Process : Working(q, i)') => row'[i] = row[i]
        BY <1>e, <1>0, <2>3, <2>5 DEF FeedOK, SoleHolder, Working
    <2>7. SoleHolder(i)'
        BY <1>e, <1>0, <2>5, <2>6, StillAlone
    <2> QED BY <1>e, <1>0, <1>f, <2>1, <2>2, <2>4, <2>7, FeedMove
  <1> QED BY <1>e, <1>1, <1>2, <1>3, <1>4

LEMMA TaskKeepsFeed ==
    ASSUME TypeOK, FeedTypeOK, FeedInv, NEW i \in Item, hit[i] \subseteq hit'[i], NEW p \in Process, NEW j \in Item,
           UNCHANGED feedVars, Consume(p, j) \/ Analyze(p, j) \/ Settle(p, j)
    PROVE  FeedOK(i)'
  <1> SUFFICES ASSUME ~Excused(i)' PROVE FeedOK(i)'
      BY DEF FeedOK
  <1>e. ~Excused(i)
    BY DEF Excused
  <1>0. FeedOK(i) /\ row[i] \in QueueRow
    BY DEF FeedInv, TypeOK
  <1>f. UNCHANGED <<verdict, alerting, severity, alerts, mailed>>
    BY DEF feedVars
  <1>1. CASE Consume(p, j)
    <2>1. task' = task
        BY <1>e, <1>1 DEF Consume
    <2>2. CASE row'[i] = row[i]
        BY <1>e, <1>0, <1>f, <2>1, <2>2, FeedFrame DEF Pc
    <2>3. CASE row'[i] # row[i]
        <3>1. row[i].status = "none" /\ row'[i] = [NoRow EXCEPT !.status = "pending"]
            BY <1>e, <1>1, <2>3 DEF Consume, enqueue, TypeOK
        <3>2. \A q \in Process : ~Working(q, i) /\ Pc(q, i)' = Pc(q, i)
            BY <1>e, <1>0, <2>1, <3>1 DEF FeedOK, SoleHolder, Pc
        <3>3. SoleHolder(i)'
            BY <3>2 DEF SoleHolder, Working
        <3>4. Pc(p, i)' \notin {"ingested", "done"} /\ alerting'[p][i] = "none"
            BY <1>e, <1>0, <1>f, <3>2 DEF Working, FeedOK, RaisingOK
        <3>5. row'[i].status = "pending"
            BY <3>1 DEF NoRow
        <3> QED BY <1>e, <1>0, <1>f, <3>2, <3>3, <3>4, <3>5, FeedMove
    <2> QED BY <2>2, <2>3
  <1>2. CASE Analyze(p, j)
    <2>1. Goto(p, j, "calling") /\ Pc(p, j) = "claimed" /\ UNCHANGED row
        BY <1>e, <1>2 DEF Analyze, is_intelligence_processed
    <2>2. CASE i # j
        BY <1>e, <1>0, <1>f, <2>1, <2>2, GotoPc, FeedFrame
    <2>3. CASE i = j
        <3>1. Pc(p, i)' = "calling" /\ \A q \in Process \ {p} : Pc(q, i)' = Pc(q, i)
            BY <2>1, <2>3, GotoPc
        <3>2. alerting[p][i] = "none"
            BY <1>e, <1>0, <2>1, <2>3 DEF FeedOK, RaisingOK
        <3>3. \A q \in Process : Working(q, i)' => Working(q, i)
            BY <2>1, <2>3, <3>1 DEF Working
        <3>4. SoleHolder(i)'
            BY <1>e, <1>0, <2>1, <3>3, StillAlone
        <3>5. row'[i].status = "none" => Mirrored(i) /\ Told(i)
            BY <1>e, <1>0, <2>1 DEF FeedOK
        <3> QED BY <1>e, <1>0, <1>f, <3>1, <3>2, <3>4, <3>5, FeedMove
    <2> QED BY <2>2, <2>3
  <1>3. CASE Settle(p, j)
    <2>2. CASE i # j
        <3>1. row'[i] = row[i] /\ \A q \in Process : Pc(q, i)' = Pc(q, i)
            BY <1>3, <2>2 DEF Settle, Pc, TypeOK
        <3> QED BY <1>e, <1>0, <1>f, <3>1, FeedFrame
    <2>3. CASE i = j
        <3>1. Pc(p, i)' = "settled" /\ \A q \in Process \ {p} : Pc(q, i)' = Pc(q, i)
            BY <1>3, <2>3 DEF Settle, Pc, TypeOK
        <3>2. Pc(p, i) \in {"retry", "failed"} /\ Working(p, i)
            BY <1>3, <2>3 DEF Settle, Working
        <3>3. alerting[p][i] = "none"
            BY <1>e, <1>0, <3>2 DEF FeedOK, RaisingOK
        <3>4. row[i].status = "processing" /\ \A q \in Process \ {p} : ~Working(q, i)
            BY <1>e, <1>0, <3>2, Alone
        <3>5. row'[i] \in {row[i], fail_permanently(row[i]), fail_retry(row[i])}
            BY <1>3, <2>3 DEF Settle, TypeOK
        <3>6. row'[i].status # "none"
            BY <1>e, <1>0, <3>4, <3>5 DEF fail_permanently, fail_retry, QueueRow
        <3>7. SoleHolder(i)'
            BY <3>1, <3>4 DEF SoleHolder, Working
        <3> QED BY <1>e, <1>0, <1>f, <3>1, <3>3, <3>6, <3>7, FeedMove
    <2> QED BY <2>2, <2>3
  <1> QED BY <1>e, <1>1, <1>2, <1>3
-----------------------------------------------------------------------------
(* The steps of an analysis that touch the feed.                               *)

LEMMA AnsweredKeepsFeed ==
    ASSUME TypeOK, FeedTypeOK, FeedInv, NEW i \in Item, hit[i] \subseteq hit'[i], NEW p \in Process, NEW j \in Item,
           Answered(p, j)
    PROVE  FeedOK(i)'
  <1> SUFFICES ASSUME ~Excused(i)' PROVE FeedOK(i)'
      BY DEF FeedOK
  <1>e. ~Excused(i)
    BY DEF Excused
  <1>0. FeedOK(i)
    BY DEF FeedInv
  <1>1. /\ Goto(p, j, "answered") /\ Pc(p, j) = "calling" /\ UNCHANGED row
        /\ UNCHANGED <<alerting, severity, alerts, mailed>>
    BY DEF Answered, ModelAnswers
  <1>2. \A q \in Process : q # p \/ i # j => verdict'[q][i] = verdict[q][i]
    BY DEF Answered, FeedTypeOK
  <1>3. CASE i # j
    BY <1>e, <1>0, <1>1, <1>2, <1>3, GotoPc, FeedFrame
  <1>4. CASE i = j
    <2>1. Pc(p, i)' = "answered" /\ \A q \in Process \ {p} : Pc(q, i)' = Pc(q, i)
        BY <1>e, <1>1, <1>4, GotoPc
    <2>2. alerting[p][i] = "none"
        BY <1>e, <1>0, <1>1, <1>4 DEF FeedOK, RaisingOK
    <2>3. \A q \in Process : Working(q, i)' => Working(q, i)
        BY <1>e, <1>1, <1>4, <2>1 DEF Working
    <2>4. SoleHolder(i)'
        BY <1>e, <1>0, <1>1, <2>3, StillAlone
    <2>5. row'[i].status = "none" => Mirrored(i) /\ Told(i)
        BY <1>e, <1>0, <1>1 DEF FeedOK
    <2> QED BY <1>e, <1>0, <1>1, <1>2, <2>1, <2>2, <2>4, <2>5, FeedMove
  <1> QED BY <1>3, <1>4

LEMMA IngestedKeepsFeed ==
    ASSUME TypeOK, FeedTypeOK, FeedInv, NEW i \in Item, hit[i] \subseteq hit'[i], NEW p \in Process, NEW j \in Item,
           Ingested(p, j)
    PROVE  FeedOK(i)'
  <1> SUFFICES ASSUME ~Excused(i)' PROVE FeedOK(i)'
      BY DEF FeedOK
  <1>e. ~Excused(i)
    BY DEF Excused
  <1>0. FeedOK(i)
    BY DEF FeedInv
  <1>1. /\ Goto(p, j, "ingested") /\ Pc(p, j) = "answered" /\ UNCHANGED row
        /\ UNCHANGED <<verdict, alerts, mailed>>
        /\ alerting' = [alerting EXCEPT ![p][j] = "raise"]
    BY DEF Ingested, Ingest
  <1>2. CASE i # j
    <2>1. severity'[i] = severity[i] /\ \A q \in Process : alerting'[q][i] = alerting[q][i]
        BY <1>e, <1>2 DEF Ingested, FeedTypeOK
    <2> QED BY <1>e, <1>0, <1>1, <1>2, <2>1, GotoPc, FeedFrame
  <1>3. CASE i = j
    <2>1. Pc(p, i)' = "ingested" /\ \A q \in Process \ {p} : Pc(q, i)' = Pc(q, i)
        BY <1>e, <1>1, <1>3, GotoPc
    <2>2. faults' = faults
        BY <1>3 DEF Ingested, Ingest, Fault, NoFault, Excused
    <2>3. severity'[i] = verdict'[p][i] /\ alerting'[p][i] = "raise"
        BY <1>e, <1>1, <1>3, <2>2 DEF Ingested, FeedTypeOK
    <2>4. \A q \in Process \ {p} : alerting'[q][i] = alerting[q][i]
        BY <1>e, <1>1 DEF FeedTypeOK
    <2>5. /\ row[i].status = "processing" /\ ~row[i].expired
          /\ \A q \in Process \ {p} : ~Working(q, i)
        BY <1>e, <1>0, <1>1, <1>3, Alone DEF Working
    <2>6. SoleHolder(i)'
        BY <1>e, <1>1, <2>1, <2>5 DEF SoleHolder, Working
    <2>7. RaisingOK(p, i)'
        BY <2>1, <2>3 DEF RaisingOK
    <2>8. ASSUME NEW q \in Process \ {p} PROVE RaisingOK(q, i)'
        BY <1>e, <1>0, <2>1, <2>4, <2>5 DEF FeedOK, RaisingOK, Working
    <2> QED BY <1>e, <1>1, <2>5, <2>6, <2>7, <2>8 DEF FeedOK
  <1> QED BY <1>e, <1>2, <1>3

(* The alert, then the mail.                                                   *)
LEMMA RaisingKeepsFeed ==
    ASSUME TypeOK, FeedTypeOK, FeedInv, NEW i \in Item, hit[i] \subseteq hit'[i], NEW p \in Process, NEW j \in Item,
           record_alert(p, j) \/ notify_alert_email(p, j)
    PROVE  FeedOK(i)'
  <1> SUFFICES ASSUME ~Excused(i)' PROVE FeedOK(i)'
      BY DEF FeedOK
  <1>e. ~Excused(i)
    BY DEF Excused
  <1>1. /\ UNCHANGED <<row, task, verdict, severity>>
        /\ alerting[p][j] \in {"raise", "mail"}
    BY DEF record_alert, notify_alert_email, queueVars
  <1>a. \E a : alerting' = [alerting EXCEPT ![p][j] = a]
    BY DEF record_alert, notify_alert_email
  <1>2. FeedOK(i) /\ \A q \in Process : Pc(q, i)' = Pc(q, i)
    BY <1>e, <1>1 DEF FeedInv, Pc
  <1>3. CASE i # j
    <2>1. \A q \in Process : alerting'[q][i] = alerting[q][i]
        BY <1>3, <1>a DEF FeedTypeOK
    <2>2. alerts'[i] = alerts[i] /\ mailed'[i] = mailed[i]
        BY <1>3 DEF record_alert, notify_alert_email, FeedTypeOK
    <2> QED BY <1>e, <1>1, <1>2, <2>1, <2>2, FeedFrame
  <1>4. CASE i = j
    <2>1. Pc(p, i) = "ingested" /\ severity[i] = verdict[p][i]
        BY <1>e, <1>1, <1>2, <1>4 DEF FeedOK, RaisingOK
    <2>2. row[i].status = "processing" /\ \A q \in Process \ {p} : ~Working(q, i)
        BY <1>e, <1>2, <2>1, Alone DEF Working
    <2>3. SoleHolder(i)'
        BY <1>e, <1>1, <1>2 DEF FeedOK, SoleHolder, Working
    <2>4. \A q \in Process \ {p} : alerting'[q][i] = alerting[q][i]
        BY <1>a DEF FeedTypeOK
    <2>5. ASSUME NEW q \in Process \ {p} PROVE RaisingOK(q, i)'
        BY <1>e, <1>2, <2>2, <2>4 DEF FeedOK, RaisingOK, Working
    <2>9. ~Fault("alert", {j})
        BY <1>4 DEF Fault, Excused
    <2>6. ASSUME record_alert(p, j) PROVE RaisingOK(p, i)'
        <3>1. CASE qualifies_as_alert(severity[i])
            <4>1. alerting'[p][i] = "mail" /\ alerts'[i] = severity[i]
                BY <1>4, <2>1, <2>6, <2>9, <3>1 DEF record_alert, NotifiedAfter, upsert_alert, FeedTypeOK
            <4> QED BY <1>e, <1>1, <1>2, <2>1, <4>1 DEF RaisingOK, Mirrored
        <3>2. CASE ~qualifies_as_alert(severity[i])
            <4>1. alerting'[p][i] = "done"
                BY <1>e, <1>4, <2>1, <2>6, <3>2 DEF record_alert, FeedTypeOK
            <4> QED BY <1>e, <1>1, <1>2, <2>1, <3>2, <4>1 DEF RaisingOK, Mirrored, Told
        <3> QED BY <3>1, <3>2
    <2>7. ASSUME notify_alert_email(p, j) PROVE RaisingOK(p, i)'
        <3>1. alerting'[p][i] = "done" /\ alerts' = alerts
            BY <1>e, <1>4, <2>7 DEF notify_alert_email, FeedTypeOK
        <3>2. Mirrored(i)
            BY <1>e, <1>2, <1>4, <2>1, <2>7 DEF notify_alert_email, FeedOK, RaisingOK
        <3>3. ALERT_EMAILS_ENABLED /\ "mail" \notin hit'[i] => mailed'[i] = alerts[i]
            <4>1. "mail" \notin hit'[i] => ~Fault("mail", {j})
                BY <1>4 DEF Fault
            <4> QED BY <1>4, <2>7, <4>1 DEF notify_alert_email, FeedTypeOK
        <3> QED BY <1>e, <1>1, <1>2, <2>1, <3>1, <3>2, <3>3 DEF RaisingOK, Mirrored, Told
    <2>8. RaisingOK(p, i)'
        BY <2>6, <2>7
    <2> QED BY <1>e, <1>1, <2>2, <2>3, <2>5, <2>8 DEF FeedOK
  <1> QED BY <1>3, <1>4
LEMMA EndKeepsFeed ==
    ASSUME TypeOK, FeedTypeOK, FeedInv, NEW i \in Item, hit[i] \subseteq hit'[i], NEW p \in Process, NEW j \in Item,
           Ends(p, j)
    PROVE  FeedOK(i)'
  <1> SUFFICES ASSUME ~Excused(i)' PROVE FeedOK(i)'
      BY DEF FeedOK
  <1>e. ~Excused(i)
    BY DEF Excused
  <1>0. FeedOK(i)
    BY DEF FeedInv
  <1>1. /\ UNCHANGED <<row, severity, alerts, mailed>>
        /\ Pc(p, j) \in {"calling", "ingested"} /\ alerting[p][j] \in {"none", "done"}
    BY DEF Ends, Forget, Alerted, MarkProcessed, AnalysisFails
  <1>2. PICK pc \in {"done", "retry", "failed"} :
            Goto(p, j, pc) /\ (pc = "done" => Pc(p, j) = "ingested")
    BY DEF Ends, MarkProcessed, AnalysisFails
  <1>3. \A q \in Process : q # p \/ i # j =>
            alerting'[q][i] = alerting[q][i] /\ verdict'[q][i] = verdict[q][i]
    BY DEF Ends, Forget, FeedTypeOK
  <1>4. CASE i # j
    BY <1>e, <1>0, <1>1, <1>2, <1>3, <1>4, GotoPc, FeedFrame
  <1>5. CASE i = j
    <2>1. Pc(p, i)' = pc /\ \A q \in Process \ {p} : Pc(q, i)' = Pc(q, i)
        BY <1>e, <1>2, <1>5, GotoPc
    <2>2. alerting'[p][i] = "none"
        BY <1>5 DEF Ends, Forget, FeedTypeOK
    <2>3. \A q \in Process : Working(q, i)' => Working(q, i)
        BY <1>e, <1>1, <1>5, <2>1 DEF Working
    <2>4. SoleHolder(i)'
        BY <1>e, <1>0, <1>1, <2>3, StillAlone
    <2>5. row'[i].status = "none" => Mirrored(i) /\ Told(i)
        BY <1>e, <1>0, <1>1 DEF FeedOK
    <2>6. CASE pc # "done"
        BY <1>e, <1>0, <1>1, <1>2, <1>3, <2>1, <2>2, <2>4, <2>5, <2>6, FeedMove
    <2>7. CASE pc = "done"
        <3>1. Mirrored(i) /\ Told(i)
            BY <1>e, <1>0, <1>1, <1>2, <1>5, <2>7 DEF FeedOK, RaisingOK
        <3>2. Mirrored(i)' /\ Told(i)'
            BY <1>e, <1>1, <3>1 DEF Mirrored, Told
        <3>3. RaisingOK(p, i)'
            BY <2>1, <2>2, <2>7, <3>2 DEF RaisingOK
        <3>4. /\ row[i].status = "processing"
              /\ \A q \in Process \ {p} : ~Working(q, i)
            BY <1>e, <1>0, <1>1, <1>5, Alone DEF Working
        <3>5. ASSUME NEW q \in Process \ {p} PROVE RaisingOK(q, i)'
            BY <1>e, <1>0, <1>3, <2>1, <3>4 DEF FeedOK, RaisingOK, Working
        <3> QED BY <1>e, <1>1, <2>4, <3>3, <3>4, <3>5 DEF FeedOK
    <2> QED BY <2>6, <2>7
  <1> QED BY <1>e, <1>4, <1>5

(* A process dies: its claims stay in the table, so what it did is done again. *)
LEMMA DeathKeepsFeed ==
    ASSUME TypeOK, FeedTypeOK, FeedInv, NEW i \in Item, hit[i] \subseteq hit'[i], NEW p \in Process, Dies(p)
    PROVE  FeedOK(i)'
  <1> SUFFICES ASSUME ~Excused(i)' PROVE FeedOK(i)'
      BY DEF FeedOK
  <1>e. ~Excused(i)
    BY DEF Excused
  <1>0. FeedOK(i)
    BY DEF FeedInv
  <1>1. UNCHANGED <<row, severity, alerts, mailed>>
    BY DEF Dies, Crash
  <1>2. Pc(p, i)' = "none" /\ \A q \in Process \ {p} : Pc(q, i)' = Pc(q, i)
    BY DEF Dies, Crash, Pc, TypeOK, NoTask
  <1>3. /\ alerting'[p][i] = "none"
        /\ \A q \in Process \ {p} : alerting'[q][i] = alerting[q][i] /\ verdict'[q][i] = verdict[q][i]
    BY DEF Dies, FeedTypeOK
  <1>4. SoleHolder(i)'
    BY <1>e, <1>0, <1>1, <1>2, StillAlone DEF Working
  <1>5. row'[i].status = "none" => Mirrored(i) /\ Told(i)
    BY <1>e, <1>0, <1>1 DEF FeedOK
  <1> QED BY <1>e, <1>0, <1>1, <1>2, <1>3, <1>4, <1>5, FeedMove

LEMMA TimeKeepsFeed ==
    ASSUME TypeOK, FeedTypeOK, FeedInv, NEW i \in Item, hit[i] \subseteq hit'[i], Passes
    PROVE  FeedOK(i)'
  <1> SUFFICES ASSUME ~Excused(i)' PROVE FeedOK(i)'
      BY DEF FeedOK
  <1>e. ~Excused(i)
    BY DEF Excused
  <1>0. FeedOK(i) /\ row[i] \in QueueRow
    BY DEF FeedInv, TypeOK
  <1>f. UNCHANGED <<verdict, alerting, severity, alerts, mailed>>
    BY DEF Passes, feedVars
  <1>1. ASSUME NEW j \in Item, DelayPasses(j) PROVE FeedOK(i)'
    <2>1. row'[i].status = row[i].status /\ row'[i].expired = row[i].expired /\ task' = task
        BY <1>0, <1>1 DEF DelayPasses, TypeOK, QueueRow
    <2> QED BY <1>0, <1>f, <2>1, FeedFrame DEF Pc
  <1>2. ASSUME NEW j \in Item, LeaseExpires(j) PROVE FeedOK(i)'
    <2>1. task' = task
        BY <1>2 DEF LeaseExpires
    <2>2. CASE i # j
        <3>1. row'[i] = row[i]
            BY <1>2, <2>2 DEF LeaseExpires, TypeOK
        <3> QED BY <1>0, <1>f, <2>1, <3>1, FeedFrame DEF Pc
    <2>3. CASE i = j
        <3>1. ~Fault("slow", {j})
            BY <2>3 DEF Fault, Excused
        <3>2. \A q \in Process : Pc(q, i) = "none"
            BY <1>2, <2>3, <3>1 DEF LeaseExpires, Held, Pc
        <3>3. \A q \in Process : Pc(q, i)' = "none" /\ ~Working(q, i)'
            BY <2>1, <3>2 DEF Pc, Working
        <3>4. SoleHolder(i)'
            BY <3>3 DEF SoleHolder
        <3>5. row'[i].status = row[i].status
            BY <1>0, <1>2, <2>3 DEF LeaseExpires, TypeOK, QueueRow
        <3>6. (Mirrored(i) => Mirrored(i)') /\ (Told(i) => Told(i)')
            BY <1>f DEF Mirrored, Told
        <3>7. ASSUME NEW q \in Process PROVE RaisingOK(q, i)'
            BY <1>e, <1>0, <1>f, <3>2, <3>3 DEF FeedOK, RaisingOK
        <3> QED BY <1>e, <1>0, <3>4, <3>5, <3>6, <3>7 DEF FeedOK
    <2> QED BY <2>2, <2>3
  <1> QED BY <1>1, <1>2 DEF Passes

LEMMA FeedStep ==
    ASSUME TypeOK, FeedTypeOK, FeedInv, [AlertNext]_allVars PROVE FeedInv'
  <1> SUFFICES ASSUME NEW i \in Item PROVE FeedOK(i)'
      BY DEF FeedInv
  <1>0. hit[i] \subseteq hit'[i]
    BY AlertCounts, CountsGrow
  <1>1. CASE UNCHANGED allVars
    BY <1>0, <1>1, FeedFrame DEF allVars, vars, feedVars, FeedInv, Pc
  <1>2. ASSUME NEW p \in Process, Works(p) PROVE FeedOK(i)'
    BY <1>0, <1>2, QueueKeepsFeed, TaskKeepsFeed, AnsweredKeepsFeed, IngestedKeepsFeed,
       RaisingKeepsFeed, EndKeepsFeed DEF Works
  <1> QED BY <1>0, <1>1, <1>2, DeathKeepsFeed, TimeKeepsFeed DEF AlertNext

-----------------------------------------------------------------------------
(* What the queue keeps, the feed keeps: its two steps change no row.          *)

LEMMA FeedOnlyFrame ==
    ASSUME TypeOK, FeedOnly
    PROVE  /\ UNCHANGED <<row, reader, committed, committing, task, answered, analytics, flagged>>
           /\ faults' >= faults /\ \A i \in Item : hit[i] \subseteq hit'[i]
           /\ \A p \in Process, i \in Item : Pc(p, i)' = Pc(p, i) /\ (Working(p, i)' <=> Working(p, i))
  <1>1. UNCHANGED <<row, reader, committed, committing, task, answered, analytics, flagged>>
    BY DEF FeedOnly, queueVars, kafkaVars, resultVars
  <1> QED BY <1>1, CountsGrow DEF FeedOnly, Pc, Working

LEMMA AlertHolder == ASSUME TypeOK, HolderInv, [AlertNext]_allVars PROVE HolderInv'
  <1>1. CASE FeedOnly
    BY <1>1, FeedOnlyFrame DEF HolderInv, SoleHolder
  <1> QED BY <1>1, HolderStep, QueueSteps

LEMMA AlertOwned == ASSUME TypeOK, OwnedInv, [AlertNext]_allVars PROVE OwnedInv'
  <1>1. CASE FeedOnly
    BY <1>1, FeedOnlyFrame DEF OwnedInv
  <1> QED BY <1>1, OwnedStep, QueueSteps

LEMMA AlertFlags ==
    ASSUME TypeOK, IngestedInv, FlaggedLanded, [AlertNext]_allVars PROVE IngestedInv' /\ FlaggedLanded'
  <1>1. CASE FeedOnly
    <2>1. flagged \subseteq Item
        BY DEF TypeOK
    <2> QED BY <1>1, <2>1, FeedOnlyFrame DEF IngestedInv, FlaggedLanded
  <1> QED BY <1>1, FlagStep, QueueSteps

LEMMA AlertAttempts ==
    ASSUME "slow" \notin Faults, TypeOK, TypeOK', HolderInv, NoSlow, AttemptsInv, [AlertNext]_allVars
    PROVE  AttemptsInv' /\ NoSlow'
  <1>1. CASE FeedOnly
    <2> SUFFICES ASSUME NEW i \in Item PROVE AttemptsOK(i)'
        BY AlertCounts, NoSlowStep DEF AttemptsInv
    <2>1. AttemptsOK(i) /\ row' = row /\ task' = task /\ faults' >= faults
        BY <1>1, FeedOnlyFrame DEF AttemptsInv
    <2> QED BY <2>1, AttemptsFrame DEF Working, Pc
  <1>2. CASE [Next]_vars
    <2>1. AllAlone
        BY DEF HolderInv, NoSlow, AllAlone
    <2> QED BY <1>2, <2>1, AttemptsStep, AlertCounts, NoSlowStep
  <1> QED BY <1>1, <1>2, QueueSteps

-----------------------------------------------------------------------------
(* The theorems.                                                               *)

(* The queue is type correct. *)
THEOREM QueueTypeCorrect == AlertSpec => []TypeOK
  <1>1. AlertInit => TypeOK
    BY QueueAssumption DEF AlertInit, Init, TypeOK, NoRow, QueueRow, NoTask, TaskState
  <1> QED BY <1>1, AlertQueueType, PTL DEF AlertSpec

LEMMA HolderInvariant == AlertSpec => []HolderInv
  <1>1. AlertInit => HolderInv
    BY DEF AlertInit, Init, HolderInv, SoleHolder, Working, Pc, NoTask
  <1> QED BY <1>1, AlertHolder, QueueTypeCorrect, PTL DEF AlertSpec

(* Two processes never work on the same item at the same time, as long as no  *)
(* analysis of that item outlives its lease; what happens to others is no     *)
(* matter.                                                                    *)
THEOREM OneHolderTheorem == AlertSpec => []OneHolder
  <1>1. HolderInv => OneHolder
    <2> SUFFICES ASSUME HolderInv, NEW p \in Process, NEW i \in Item, i \in Held(p),
                        "slow" \notin hit[i], Pc(p, i) # "settled"
                 PROVE  /\ row[i].status = "processing"
                        /\ \A q \in Process \ {p} : Pc(q, i) \in {"none", "settled"}
        BY DEF OneHolder, Held
    <2>1. Working(p, i)
        BY DEF Working, Held, Pc
    <2> QED BY <2>1 DEF HolderInv, SoleHolder, Working
  <1> QED BY <1>1, HolderInvariant, PTL

(* No redelivery, scan or settlement of another worker revives a parked item. *)
THEOREM ParkedStaysTheorem == AlertSpec => ParkedStays
  <1>1. TypeOK /\ HolderInv /\ [AlertNext]_allVars
          => [\A i \in Item : row[i].status = "failed" /\ "slow" \notin hit[i] => row'[i].status = "failed"]_vars
    <2> SUFFICES ASSUME TypeOK, HolderInv, [AlertNext]_allVars, NEW i \in Item,
                        row[i].status = "failed", "slow" \notin hit[i]
                 PROVE  row'[i].status = "failed"
        OBVIOUS
    <2>1. CASE FeedOnly
        BY <2>1, FeedOnlyFrame
    <2>2. CASE [Next]_vars
        BY <2>2, ParkedStep DEF HolderInv
    <2> QED BY <2>1, <2>2, QueueSteps
  <1> QED BY <1>1, HolderInvariant, QueueTypeCorrect, PTL DEF AlertSpec, ParkedStays

(* Once its offset is committed, no item leaves the queue unanswered, unless   *)
(* it never came there because its INSERT failed.                             *)
THEOREM NothingDroppedTheorem == AlertSpec => []NothingDropped
  <1>1. AlertInit => OwnedInv
    BY DEF AlertInit, Init, OwnedInv, Pc, NoTask
  <1>2. TypeOK /\ OwnedInv => NothingDropped
    BY DEF TypeOK, OwnedInv, NothingDropped
  <1> QED BY <1>1, <1>2, AlertOwned, QueueTypeCorrect, PTL DEF AlertSpec

(* No item gets more attempts than the limit, plus one for each fault, where no *)
(* analysis outlives its lease.                                               *)
THEOREM AttemptsBoundedTheorem ==
    ASSUME "slow" \notin Faults PROVE AlertSpec => []AttemptsBounded
  <1>1. AlertInit => AttemptsInv /\ NoSlow
    <2> SUFFICES ASSUME AlertInit, NEW i \in Item PROVE AttemptsOK(i) /\ "slow" \notin hit[i]
        BY DEF AttemptsInv, NoSlow
    <2>1. row[i].status = "none" /\ row[i].attempts = 0 /\ faults = 0 /\ hit[i] = {}
        BY DEF AlertInit, Init, NoRow
    <2>2. \A p \in Process : ~Working(p, i)
        BY DEF AlertInit, Init, Working, Pc, NoTask
    <2> QED BY <2>1, <2>2, QueueAssumption DEF AttemptsOK, Limit
  <1>2. AttemptsInv => AttemptsBounded
    BY DEF AttemptsInv, AttemptsOK, AttemptsBounded, Limit
  <1> QED BY <1>1, <1>2, AlertAttempts, HolderInvariant, QueueTypeCorrect, PTL DEF AlertSpec

(* Whatever dies or is repeated, an item flagged as processed has its analysis *)
(* in ClickHouse, but for one whose insert failed.                            *)
THEOREM FlaggedLandedTheorem == AlertSpec => []FlaggedLanded
  <1>1. AlertInit => IngestedInv /\ FlaggedLanded
    BY DEF AlertInit, Init, IngestedInv, FlaggedLanded, Pc, NoTask
  <1> QED BY <1>1, AlertFlags, QueueTypeCorrect, PTL DEF AlertSpec

LEMMA FeedInvariant == AlertSpec => [](TypeOK /\ FeedTypeOK /\ FeedInv)
  <1>1. AlertInit => TypeOK
    BY QueueAssumption DEF AlertInit, Init, TypeOK, NoRow, QueueRow, NoTask, TaskState
  <1>2. AlertInit => FeedTypeOK
    BY DEF AlertInit, FeedTypeOK
  <1>3. ASSUME AlertInit, NEW i \in Item PROVE FeedOK(i)
    <2>1. \A p \in Process : Pc(p, i) = "none" /\ alerting[p][i] = "none"
        BY <1>3 DEF AlertInit, Init, Pc, NoTask
    <2>2. Mirrored(i) /\ Told(i)
        BY <1>3 DEF AlertInit, Mirrored, Told, qualifies_as_alert, MIN_ALERT_SEVERITY, MAX_SEVERITY
    <2> QED BY <2>1, <2>2 DEF FeedOK, SoleHolder, RaisingOK, Working
  <1>4. AlertInit => TypeOK /\ FeedTypeOK /\ FeedInv
    BY <1>1, <1>2, <1>3 DEF FeedInv
  <1>5. TypeOK /\ FeedTypeOK /\ FeedInv /\ [AlertNext]_allVars
          => TypeOK' /\ FeedTypeOK' /\ FeedInv'
    BY AlertQueueType, FeedTypeStep, FeedStep
  <1> QED BY <1>4, <1>5, PTL DEF AlertSpec

(* Whatever crashes, repeats or is parked, an item the queue is done with has  *)
(* the alert its last analysis calls for, but for one whose own insert or alert *)
(* statement failed, or whose analysis outlived its lease.                     *)
THEOREM AlertMirrorsTheorem == AlertSpec => []AlertMirrors
  <1>1. FeedInv => AlertMirrors
    BY DEF FeedInv, FeedOK, Excused, Mirrored, AlertMirrors, Analysed
  <1> QED BY <1>1, FeedInvariant, PTL

(* ... and its owner has the mail, where mails are enabled.                    *)
THEOREM OwnerToldTheorem == AlertSpec => []OwnerTold
  <1>1. FeedInv => OwnerTold
    BY DEF FeedInv, FeedOK, Excused, Told, OwnerTold, Analysed
  <1> QED BY <1>1, FeedInvariant, PTL
===============================================================================
