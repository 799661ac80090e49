------------------------ MODULE ContentPipelineProofs ------------------------
(***************************************************************************)
(* Theorems about ContentPipeline, for any pages, jobs, texts, sites and   *)
(* batch size, and any kinds and number of faults.                         *)
(***************************************************************************)
EXTENDS ContentPipeline, TLAPS, FiniteSetTheorems, WellFoundedInduction

-----------------------------------------------------------------------------
(* Counting. *)

Times(s, k) == Cardinality({n \in DOMAIN s : s[n] = k})

LEMMA TimesNat ==
    ASSUME NEW s \in Seq(Nat), NEW k
    PROVE  Times(s, k) \in Nat /\ (Times(s, k) = 0 <=> k \notin {s[n] : n \in DOMAIN s})
  <1> DEFINE S == {n \in DOMAIN s : s[n] = k}
  <1>1. IsFiniteSet(S)
    <2>1. DOMAIN s = 1..Len(s) /\ Len(s) \in Nat
      OBVIOUS
    <2>2. IsFiniteSet(1..Len(s))
      BY <2>1, FS_Interval
    <2> QED BY <2>1, <2>2, FS_Subset
  <1>2. Cardinality(S) \in Nat /\ (Cardinality(S) = 0 <=> S = {})
    <2> HIDE DEF S
    <2> QED BY <1>1, FS_CardinalityType, FS_EmptySet
  <1>3. S = {} <=> k \notin {s[n] : n \in DOMAIN s}
    OBVIOUS
  <1> QED BY <1>2, <1>3 DEF Times

LEMMA TimesEmpty == ASSUME NEW k PROVE Times(<<>>, k) = 0
  <1>1. {n \in DOMAIN <<>> : <<>>[n] = k} = {}
    OBVIOUS
  <1> QED BY <1>1, FS_EmptySet DEF Times

LEMMA TimesAppend ==
    ASSUME NEW s \in Seq(Nat), NEW x \in Nat, NEW k
    PROVE  Times(Append(s, x), k) = Times(s, k) + (IF x = k THEN 1 ELSE 0)
  <1> DEFINE a == Append(s, x)
             S == {n \in DOMAIN s : s[n] = k}
             A == {n \in DOMAIN a : a[n] = k}
  <1>1. DOMAIN s = 1..Len(s) /\ Len(s) \in Nat /\ DOMAIN a = 1..(Len(s) + 1)
        /\ a[Len(s) + 1] = x /\ \A n \in 1..Len(s) : a[n] = s[n]
    OBVIOUS
  <1>2. IsFiniteSet(S) /\ Len(s) + 1 \notin S
    <2>1. IsFiniteSet(1..Len(s))
      BY <1>1, FS_Interval
    <2> QED BY <1>1, <2>1, FS_Subset
  <1> HIDE DEF a
  <1>3. A = IF x = k THEN S \cup {Len(s) + 1} ELSE S
    BY <1>1
  <1> HIDE DEF A, S
  <1>4. Cardinality(S \cup {Len(s) + 1}) = Cardinality(S) + 1 /\ Cardinality(S) \in Nat
    BY <1>2, FS_AddElement, FS_CardinalityType
  <1>5. Cardinality(A) = Cardinality(S) + (IF x = k THEN 1 ELSE 0)
    BY <1>3, <1>4
  <1> QED BY <1>5 DEF Times, A, S, a

Elems(s) == {s[n] : n \in DOMAIN s}

LEMMA RangeIs == ASSUME NEW s PROVE X!Range(s) = Elems(s)
  BY DEF X!Range, Elems

FreshIn(tk, k) == {t \in X!Coroutine : tk[t].at = "create" /\ k \in Elems(tk[t].batch)}
RowsIn(ex, k)  == {e \in DOMAIN ex : k \in Elems(ex[e].items)}
HeldIn(b, tk, ex, k) == Times(b, k) + Cardinality(FreshIn(tk, k)) + Cardinality(RowsIn(ex, k))

LEMMA CardinalityIs == ASSUME NEW S PROVE X!Cardinality(S) = Cardinality(S)
  BY DEF X!Cardinality, Cardinality

LEMMA HeldIs == ASSUME NEW k PROVE X!Held(k) = HeldIn(buffer, task, exports, k)
  <1> DEFINE B == {n \in DOMAIN buffer : buffer[n] = k}
             F == {t \in X!Coroutine : task[t].at = "create" /\ k \in X!Range(task[t].batch)}
             R == {e \in DOMAIN exports : k \in X!Range(exports[e].items)}
  <1>1. X!Held(k) = X!Cardinality(B) + X!Cardinality(F) + X!Cardinality(R)
    BY DEF X!Held
  <1>2. F = FreshIn(task, k) /\ R = RowsIn(exports, k)
    BY RangeIs DEF FreshIn, RowsIn
  <1>3. X!Cardinality(B) = Times(buffer, k)
    BY CardinalityIs DEF Times
  <1> HIDE DEF B, F, R
  <1> QED BY <1>1, <1>2, <1>3, CardinalityIs DEF HeldIn

-----------------------------------------------------------------------------
(* Types of the exporter. *)

Coroutines == {"loop", "timer"}
LEMMA CoroutinesAre == X!Coroutine = Coroutines
  BY DEF X!Coroutine, Coroutines

Places == X!Sink \cup X!Exporting \cup {"poll", "add", "cancelled", "close", "down", "wait", "done"}
CoroutineState == [at : Places, batch : Seq(Nat), row : Nat, written : Nat]
ExportRow == [job : Job, items : Seq(Nat), path : Site \cup {None},
              status : {"pending", "completed", "failed", "deleted"}]
Offsets == 1..Len(topic)

TopicTyped == topic \in Seq(Item) /\ given \in Seq(Nat) /\ Len(given) = Len(topic)
PositionTyped ==
    /\ position \in 0..Len(topic) /\ (committed = None \/ committed \in 0..Len(topic))
    /\ task["loop"].at \in X!Sink \cup {"add"} => position >= 1
BufferTyped == buffer \in Seq(Nat) /\ \A n \in DOMAIN buffer : buffer[n] \in Offsets
TasksTyped ==
    /\ task \in [Coroutines -> CoroutineState]
    /\ \A t \in Coroutines : /\ \A n \in DOMAIN task[t].batch : task[t].batch[n] \in Offsets
                             /\ task[t].at \in X!Exporting => task[t].batch # <<>>
                             /\ task[t].at = "create" => task[t].row = 0 /\ task[t].written = 0
ExportsTyped ==
    /\ exports \in Seq(ExportRow) /\ objects \subseteq Item
    /\ \A e \in DOMAIN exports : \A n \in DOMAIN exports[e].items : exports[e].items[n] \in Offsets
FaultsTyped == wrong \in Nat /\ requests \in Nat

ExporterTyped == /\ TopicTyped /\ PositionTyped /\ BufferTyped
                 /\ TasksTyped /\ ExportsTyped /\ FaultsTyped

-----------------------------------------------------------------------------
(* What a step does to one coroutine: r is its new record. *)
Moves(t, r) ==
    /\ task' \in [Coroutines -> CoroutineState] /\ task'[t] = r
    /\ \A u \in Coroutines : u # t => task'[u] = task[u]

LEMMA MovesTask ==
    ASSUME TasksTyped, NEW t \in Coroutines, NEW r \in CoroutineState, task' = [task EXCEPT ![t] = r]
    PROVE  Moves(t, r)
  BY DEF TasksTyped, Moves

LEMMA Going ==
    ASSUME TasksTyped, NEW t \in Coroutines, NEW step \in Places, X!Go(t, step)
    PROVE  \E r \in CoroutineState : /\ Moves(t, r) /\ r.at = step /\ r.batch = task[t].batch
                                     /\ r.row = task[t].row /\ r.written = task[t].written
  <1> DEFINE r == [task[t] EXCEPT !.at = step]
  <1>1. task[t] \in CoroutineState
    BY DEF TasksTyped
  <1>2. r \in CoroutineState /\ r.at = step /\ r.batch = task[t].batch
        /\ r.row = task[t].row /\ r.written = task[t].written
    BY <1>1 DEF CoroutineState
  <1>3. task' = [task EXCEPT ![t] = r]
    BY DEF X!Go
  <1> HIDE DEF r
  <1> QED BY <1>2, <1>3, MovesTask

LEMMA Taking ==
    ASSUME TasksTyped, NEW t \in Coroutines, NEW items \in Seq(Nat), X!Taken(t, items)
    PROVE  /\ buffer' = <<>>
           /\ \E r \in CoroutineState : /\ Moves(t, r) /\ r.at = "create" /\ r.batch = items
                                        /\ r.row = 0 /\ r.written = 0
  <1> DEFINE r == [at |-> "create", batch |-> items, row |-> 0, written |-> 0]
  <1>1. r \in CoroutineState
    BY DEF CoroutineState, Places, X!Exporting
  <1>2. task' = [task EXCEPT ![t] = r] /\ buffer' = <<>>
    BY DEF X!Taken
  <1>3. r.at = "create" /\ r.batch = items /\ r.row = 0 /\ r.written = 0
    OBVIOUS
  <1> HIDE DEF r
  <1> QED BY <1>1, <1>2, <1>3, MovesTask

(* The records of coroutines that have no batch in hand. *)
LEMMA RestingStates ==
    /\ X!Stopped \in CoroutineState /\ X!Stopped.at = "down" /\ X!Stopped.batch = <<>>
    /\ \A t \in Coroutines : X!Idle(t) \in CoroutineState /\ X!Idle(t).batch = <<>> /\ X!Idle(t).at \in {"poll", "wait"}
    /\ \A t \in Coroutines : X!After(t) \in CoroutineState /\ X!After(t).batch = <<>> /\ X!After(t).at \in {"poll", "wait", "close"}
  <1> DEFINE S(at) == [at |-> at, batch |-> <<>>, row |-> 0, written |-> 0]
  <1>1. X!Stopped = S("down")
    BY DEF X!Stopped
  <1>2. \A t \in Coroutines : X!Idle(t) = S(IF t = "loop" THEN "poll" ELSE "wait")
    BY DEF X!Idle, X!Stopped
  <1>3. \A t \in Coroutines : X!After(t) = S(IF t = "timer" THEN "wait" ELSE IF stopping THEN "close" ELSE "poll")
    BY <1>2 DEF X!After, Coroutines
  <1>4. ASSUME NEW at \in Places
        PROVE  S(at) \in CoroutineState /\ S(at).at = at /\ S(at).batch = <<>>
    BY DEF CoroutineState
  <1>5. {"poll", "wait", "close", "down"} \subseteq Places
    BY DEF Places
  <1> HIDE DEF S
  <1> QED BY <1>1, <1>2, <1>3, <1>4, <1>5

-----------------------------------------------------------------------------
(* Each part of the typing, from what a step does to it. *)

LEMMA SameOffsets == ASSUME topic' = topic PROVE Offsets' = Offsets
  BY DEF Offsets

LEMMA TasksKept ==
    ASSUME TasksTyped, NEW t \in Coroutines, NEW r \in CoroutineState, Moves(t, r), topic' = topic,
           r.batch = task[t].batch \/ r.batch = <<>> \/ \A n \in DOMAIN r.batch : r.batch[n] \in Offsets,
           r.at \in X!Exporting => r.batch # <<>>,
           r.at = "create" => r.row = 0 /\ r.written = 0
    PROVE  TasksTyped'
  <1>1. \A n \in DOMAIN r.batch : r.batch[n] \in Offsets
    BY DEF TasksTyped
  <1> QED BY <1>1, SameOffsets DEF TasksTyped, Moves

LEMMA TasksReset ==
    ASSUME topic' = topic, task' \in [Coroutines -> CoroutineState],
           \A t \in Coroutines : task'[t].batch = <<>> /\ task'[t].at \notin X!Exporting
    PROVE  TasksTyped'
  BY DEF TasksTyped, X!Exporting

LEMMA ExportsKept ==
    ASSUME ExportsTyped, topic' = topic, exports' = exports, objects' \subseteq Item PROVE ExportsTyped'
  BY SameOffsets DEF ExportsTyped

LEMMA FunctionIsSeq == ASSUME NEW S, NEW n \in Nat, NEW f \in [1..n -> S] PROVE f \in Seq(S)
  OBVIOUS

LEMMA RowAppended ==
    ASSUME ExportsTyped, topic' = topic, objects' = objects,
           NEW r \in ExportRow, exports' = Append(exports, r), \A n \in DOMAIN r.items : r.items[n] \in Offsets
    PROVE  /\ ExportsTyped' /\ Len(exports') = Len(exports) + 1 /\ exports'[Len(exports) + 1] = r
           /\ \A e \in DOMAIN exports : exports'[e] = exports[e]
  <1>1. /\ exports' \in Seq(ExportRow) /\ Len(exports') = Len(exports) + 1 /\ exports'[Len(exports) + 1] = r
        /\ \A e \in DOMAIN exports : exports'[e] = exports[e]
        /\ DOMAIN exports' = DOMAIN exports \cup {Len(exports) + 1}
    BY DEF ExportsTyped
  <1> QED BY <1>1, SameOffsets DEF ExportsTyped

LEMMA RowReplaced ==
    ASSUME ExportsTyped, topic' = topic, objects' = objects, NEW e,
           NEW r, e \in DOMAIN exports => r \in ExportRow /\ r.items = exports[e].items,
           exports' = [exports EXCEPT ![e] = r]
    PROVE  /\ ExportsTyped' /\ DOMAIN exports' = DOMAIN exports
           /\ \A x \in DOMAIN exports : exports'[x] = IF x = e THEN r ELSE exports[x]
  <1>0. exports \in Seq(ExportRow) /\ DOMAIN exports = 1..Len(exports) /\ Len(exports) \in Nat
        /\ \A x \in DOMAIN exports : exports[x] \in ExportRow
    BY DEF ExportsTyped
  <1>1. /\ exports' \in Seq(ExportRow) /\ DOMAIN exports' = DOMAIN exports
        /\ \A x \in DOMAIN exports : exports'[x] = IF x = e THEN r ELSE exports[x]
    <2>1. DOMAIN exports' = DOMAIN exports
          /\ \A x \in DOMAIN exports : exports'[x] = IF x = e THEN r ELSE exports[x]
      BY <1>0
    <2>2. \A x \in DOMAIN exports : exports'[x] \in ExportRow
      BY <1>0, <2>1
    <2>3. exports' = [x \in 1..Len(exports) |-> exports'[x]]
      BY <1>0
    <2>4. exports' \in [1..Len(exports) -> ExportRow]
      BY <1>0, <2>2, <2>3
    <2>5. exports' \in Seq(ExportRow)
      BY <1>0, <2>4, FunctionIsSeq
    <2> QED BY <2>1, <2>5
  <1>2. \A x \in DOMAIN exports : exports'[x].items = exports[x].items
    BY <1>1
  <1> QED BY <1>1, <1>2, SameOffsets DEF ExportsTyped

LEMMA FaultCounts ==
    ASSUME FaultsTyped, NEW kind, X!Fault(kind)
    PROVE  wrong' \in Nat /\ wrong' > 0
  BY DEF FaultsTyped, X!Fault

-----------------------------------------------------------------------------
(* How often message k is held, as a sum. *)

OneIf(b) == IF b THEN 1 ELSE 0
FreshOne(r, k) == OneIf(r.at = "create" /\ k \in Elems(r.batch))
Rows(ex, k) == Cardinality(RowsIn(ex, k))
HandOf(k, pos, at) == OneIf(k = pos /\ at \in X!Sink \cup {"add"})
\* The deliveries of message k that are in a row, a batch, the buffer or in hand.
Kept(k) == Times(buffer, k) + FreshOne(task["loop"], k) + FreshOne(task["timer"], k) + Rows(exports, k)
             + HandOf(k, position, task["loop"].at)

LEMMA OneIfNat == ASSUME NEW b \in BOOLEAN PROVE OneIf(b) \in {0, 1}
  BY DEF OneIf

LEMMA FreshSum ==
    ASSUME NEW tk, NEW k
    PROVE  Cardinality(FreshIn(tk, k)) = FreshOne(tk["loop"], k) + FreshOne(tk["timer"], k)
  <1> DEFINE f(t) == tk[t].at = "create" /\ k \in Elems(tk[t].batch)
             F == FreshIn(tk, k)
  <1>1. F = {t \in {"loop", "timer"} : f(t)}
    BY CoroutinesAre DEF FreshIn, Coroutines
  <1>2. FreshOne(tk["loop"], k) = OneIf(f("loop")) /\ FreshOne(tk["timer"], k) = OneIf(f("timer"))
    BY DEF FreshOne
  <1>3. Cardinality({}) = 0 /\ Cardinality({"loop"}) = 1 /\ Cardinality({"timer"}) = 1
    BY FS_EmptySet, FS_Singleton
  <1>4. Cardinality({"loop", "timer"}) = 2
    <2>1. IsFiniteSet({"loop"}) /\ "timer" \notin {"loop"} /\ {"loop"} \cup {"timer"} = {"loop", "timer"}
      BY FS_Singleton
    <2> QED BY <1>3, <2>1, FS_AddElement
  <1> HIDE DEF f, F
  <1>5. CASE f("loop") /\ f("timer")
    <2>1. F = {"loop", "timer"}
      BY <1>1, <1>5
    <2> QED BY <1>2, <1>4, <1>5, <2>1 DEF OneIf, F
  <1>6. CASE f("loop") /\ ~f("timer")
    <2>1. F = {"loop"}
      BY <1>1, <1>6
    <2> QED BY <1>2, <1>3, <1>6, <2>1 DEF OneIf, F
  <1>7. CASE ~f("loop") /\ f("timer")
    <2>1. F = {"timer"}
      BY <1>1, <1>7
    <2> QED BY <1>2, <1>3, <1>7, <2>1 DEF OneIf, F
  <1>8. CASE ~f("loop") /\ ~f("timer")
    <2>1. F = {}
      BY <1>1, <1>8
    <2> QED BY <1>2, <1>3, <1>8, <2>1 DEF OneIf, F
  <1> QED BY <1>5, <1>6, <1>7, <1>8

LEMMA RowsFinite ==
    ASSUME NEW ex, NEW n \in Nat, DOMAIN ex = 1..n, NEW k
    PROVE  IsFiniteSet(RowsIn(ex, k)) /\ Rows(ex, k) \in Nat
  <1>1. IsFiniteSet(1..n) /\ RowsIn(ex, k) \subseteq 1..n
    BY FS_Interval DEF RowsIn
  <1>2. IsFiniteSet(RowsIn(ex, k))
    BY <1>1, FS_Subset
  <1> QED BY <1>2, FS_CardinalityType DEF Rows

LEMMA RowsSame ==
    ASSUME NEW ex, NEW fx, NEW k, DOMAIN fx = DOMAIN ex, \A e \in DOMAIN ex : fx[e].items = ex[e].items
    PROVE  Rows(fx, k) = Rows(ex, k)
  <1>1. RowsIn(fx, k) = RowsIn(ex, k)
    BY DEF RowsIn
  <1> QED BY <1>1 DEF Rows

LEMMA RowsAppend ==
    ASSUME NEW ex, NEW fx, NEW n \in Nat, DOMAIN ex = 1..n, DOMAIN fx = 1..(n + 1), NEW k,
           \A e \in DOMAIN ex : fx[e].items = ex[e].items
    PROVE  Rows(fx, k) = Rows(ex, k) + OneIf(k \in Elems(fx[n + 1].items))
  <1>1. RowsIn(fx, k) = IF k \in Elems(fx[n + 1].items) THEN RowsIn(ex, k) \cup {n + 1} ELSE RowsIn(ex, k)
    BY DEF RowsIn
  <1>2. IsFiniteSet(RowsIn(ex, k)) /\ Rows(ex, k) \in Nat /\ n + 1 \notin RowsIn(ex, k)
    <2>1. n + 1 \notin RowsIn(ex, k)
      BY DEF RowsIn
    <2> QED BY <2>1, RowsFinite
  <1>3. Cardinality(RowsIn(ex, k) \cup {n + 1}) = Cardinality(RowsIn(ex, k)) + 1
    BY <1>2, FS_AddElement
  <1> QED BY <1>1, <1>2, <1>3 DEF Rows, OneIf

LEMMA KeptParts ==
    ASSUME BufferTyped, ExportsTyped, NEW k
    PROVE  /\ Times(buffer, k) \in Nat /\ Rows(exports, k) \in Nat
           /\ FreshOne(task["loop"], k) \in {0, 1} /\ FreshOne(task["timer"], k) \in {0, 1}
           /\ HandOf(k, position, task["loop"].at) \in {0, 1}
  <1>1. Times(buffer, k) \in Nat
    BY TimesNat DEF BufferTyped
  <1>2. Rows(exports, k) \in Nat
    <2>1. DOMAIN exports = 1..Len(exports) /\ Len(exports) \in Nat
      BY DEF ExportsTyped
    <2> QED BY <2>1, RowsFinite
  <1> QED BY <1>1, <1>2 DEF FreshOne, HandOf, OneIf

LEMMA KeptIsHeld ==
    ASSUME BufferTyped, ExportsTyped, NEW k
    PROVE  Kept(k) = X!Held(k) + HandOf(k, position, task["loop"].at) /\ X!Held(k) \in Nat
  <1>1. X!Held(k) = Times(buffer, k) + FreshOne(task["loop"], k) + FreshOne(task["timer"], k) + Rows(exports, k)
    <2>1. Times(buffer, k) \in Nat /\ Rows(exports, k) \in Nat
          /\ FreshOne(task["loop"], k) \in Nat /\ FreshOne(task["timer"], k) \in Nat
      BY KeptParts
    <2>2. Cardinality(FreshIn(task, k)) = FreshOne(task["loop"], k) + FreshOne(task["timer"], k)
      BY FreshSum
    <2> QED BY <2>1, <2>2, HeldIs DEF HeldIn, Rows
  <1> QED BY <1>1, KeptParts DEF Kept

\* No delivery is kept twice, and while nothing failed each is kept.
BatchInv == \A k \in Offsets : Kept(k) <= given[k] /\ (wrong = 0 => Kept(k) = given[k] /\ given[k] <= 1)
\* While nothing failed the worker was started once at most and has not been stopped.
ReadInv == wrong = 0 =>
    /\ ~stopping /\ task["loop"].at \notin {"cancelled", "close"}
    /\ \A k \in Offsets : k > position \/ task["loop"].at = "down" => given[k] = 0

LEMMA BatchKept ==
    ASSUME BatchInv, ReadInv, topic' = topic, given' = given, stopping' = stopping, position' = position,
           BufferTyped, ExportsTyped, BufferTyped', ExportsTyped',
           wrong' = 0 => wrong = 0,
           \A k \in Offsets : Kept(k)' <= Kept(k) /\ (wrong = 0 /\ wrong' = 0 /\ Kept(k) <= 1 => Kept(k)' = Kept(k)),
           wrong' = 0 /\ task'["loop"].at \in {"down", "cancelled", "close"} => task["loop"].at = task'["loop"].at,
           given \in Seq(Nat), Len(given) = Len(topic)
    PROVE  BatchInv' /\ ReadInv'
  <1>1. \A k \in Offsets : Kept(k) \in Nat /\ Kept(k)' \in Nat /\ given[k] \in Nat
    <2>1. \A k \in Offsets : Kept(k) \in Nat
      BY KeptParts DEF Kept
    <2>2. BufferTyped' /\ ExportsTyped' => \A k \in Offsets : Kept(k)' \in Nat
      <3> SUFFICES ASSUME BufferTyped', ExportsTyped', NEW k \in Offsets PROVE Kept(k)' \in Nat
        OBVIOUS
      <3>1. Times(buffer', k) \in Nat
        BY TimesNat DEF BufferTyped
      <3>2. Rows(exports', k) \in Nat
        <4>1. DOMAIN exports' = 1..Len(exports') /\ Len(exports') \in Nat
          BY DEF ExportsTyped
        <4> QED BY <4>1, RowsFinite
      <3> QED BY <3>1, <3>2 DEF Kept, FreshOne, HandOf, OneIf
    <2> QED BY <2>1, <2>2 DEF Offsets
  <1>2. BatchInv'
    BY <1>1, SameOffsets DEF BatchInv
  <1>3. ReadInv'
    BY SameOffsets DEF ReadInv
  <1> QED BY <1>2, <1>3

-----------------------------------------------------------------------------
(* Batches that have a row, and rows that are completed. *)

FolderIn(top, items) == Sorted[X!Min({n \in DOMAIN Sorted : Sorted[n] \in {site[top[k]] : k \in Elems(items)}})]

LEMMA FolderIs == ASSUME NEW items PROVE X!FirstFolder(items) = FolderIn(topic, items)
  <1>1. X!Folders(items) = {site[topic[k]] : k \in Elems(items)}
    BY RangeIs DEF X!Folders, X!ItemOf
  <1> QED BY <1>1 DEF X!FirstFolder, FolderIn

LEMMA FirstOf ==
    ASSUME NEW S, S \subseteq Nat, S # {} PROVE \E i \in S : \A j \in S : i <= j
  <1>1. PICK i \in S : \A j \in S : ~(<<j, i>> \in OpToRel(<, Nat))
    BY NatLessThanWellFounded, WFMin
  <1>2. \A j \in S : ~(j < i)
    BY <1>1 DEF OpToRel
  <1> QED BY <1>2

\* The folder of a row is one its batch went to.
LEMMA FolderHas ==
    ASSUME X!ExporterConstants, topic \in Seq(Item), NEW items \in Seq(Nat), items # <<>>,
           \A n \in DOMAIN items : items[n] \in Offsets
    PROVE  \E n \in DOMAIN items : site[topic[items[n]]] = FolderIn(topic, items)
  <1> DEFINE F == {site[topic[k]] : k \in Elems(items)}
             S == {n \in DOMAIN Sorted : Sorted[n] \in F}
  <1>1. Sorted \in Seq(Site) /\ X!Range(Sorted) = Site /\ site \in [Item -> Site]
    BY DEF X!ExporterConstants
  <1>2. 1 \in DOMAIN items /\ items[1] \in Offsets /\ topic[items[1]] \in Item
    BY DEF Offsets
  <1>3. site[topic[items[1]]] \in F /\ site[topic[items[1]]] \in Elems(Sorted)
    <2>1. items[1] \in Elems(items)
      BY <1>2 DEF Elems
    <2>2. site[topic[items[1]]] \in Site
      BY <1>1, <1>2
    <2> QED BY <1>1, <2>1, <2>2, RangeIs
  <1>4. S # {} /\ S \subseteq Nat
    <2> HIDE DEF F
    <2>1. PICK n \in DOMAIN Sorted : Sorted[n] = site[topic[items[1]]]
      BY <1>3 DEF Elems
    <2> QED BY <1>1, <1>3, <2>1
  <1>5. \E m \in S : \A n \in S : m <= n
    <2> HIDE DEF S
    <2> QED BY <1>4, FirstOf
  <1>6. X!Min(S) \in S
    <2> HIDE DEF S
    <2> QED BY <1>5 DEF X!Min
  <1>7. FolderIn(topic, items) \in F
    BY <1>6 DEF FolderIn
  <1> QED BY <1>7 DEF Elems

Rowed == {"upload", "path", "finish"}
Uploaded(items, m) == \A n \in DOMAIN items : n <= m => topic[items[n]] \in objects
\* A coroutine at work on a row of exports
Owns(r) ==
    /\ r.row \in DOMAIN exports /\ exports[r.row].items = r.batch
    /\ exports[r.row].status \in {"pending", "deleted"}
    /\ IF r.at = "upload" THEN r.written < Len(r.batch) /\ Uploaded(r.batch, r.written)
                          ELSE Uploaded(r.batch, Len(r.batch))
    /\ r.at = "finish" => exports[r.row].status = "deleted" \/ exports[r.row].path = FolderIn(topic, r.batch)
WholeRow(e) ==
    /\ exports[e].items # <<>> /\ Uploaded(exports[e].items, Len(exports[e].items))
    /\ exports[e].path = FolderIn(topic, exports[e].items)
OwnersApart == task["loop"].at \in Rowed /\ task["timer"].at \in Rowed => task["loop"].row # task["timer"].row
WholeInv ==
    /\ \A t \in Coroutines : task[t].at \in Rowed => Owns(task[t])
    /\ OwnersApart
    /\ \A e \in DOMAIN exports : exports[e].status = "completed" => WholeRow(e)

\* What a step may do to the rows no coroutine is at: mark one as failed or deleted.
LEMMA WholeKept ==
    ASSUME WholeInv, topic' = topic, objects \subseteq objects', DOMAIN exports \subseteq DOMAIN exports',
           \A e \in DOMAIN exports :
             /\ exports'[e].items = exports[e].items
             /\ exports'[e].status \in {exports[e].status, "failed", "deleted"}
             /\ exports'[e].path = exports[e].path \/ exports'[e].status # "completed",
           \A e \in DOMAIN exports' \ DOMAIN exports : exports'[e].status # "completed",
           \A t \in Coroutines : task'[t].at \in Rowed =>
             /\ task'[t] = task[t]
             /\ exports'[task[t].row].status # "failed"
             /\ exports'[task[t].row].path = exports[task[t].row].path
    PROVE  WholeInv'
  <1>1. ASSUME NEW t \in Coroutines, task'[t].at \in Rowed PROVE Owns(task[t])'
    <2>1. task'[t] = task[t] /\ Owns(task[t])
      BY <1>1 DEF WholeInv
    <2>2. (task[t].row \in DOMAIN exports)
      BY <2>1 DEF Owns
    <2>3. /\ task[t].row \in DOMAIN exports' /\ exports'[task[t].row].items = task[t].batch
          /\ exports'[task[t].row].status \in {"pending", "deleted"}
          /\ exports'[task[t].row].status = exports[task[t].row].status \/ exports'[task[t].row].status = "deleted"
          /\ exports'[task[t].row].path = exports[task[t].row].path
      BY <1>1, <2>1, <2>2 DEF Owns
    <2>4. \A items, m : Uploaded(items, m) => Uploaded(items, m)'
      BY DEF Uploaded
    <2> DEFINE r == task'[t]
    <2>5. r = task[t]
      BY <2>1
    <2>6. \A n : FolderIn(topic', n) = FolderIn(topic, n)
      OBVIOUS
    <2> QED BY <1>1, <2>1, <2>3, <2>4, <2>6 DEF Owns
  <1>2. OwnersApart'
    BY DEF WholeInv, OwnersApart, Coroutines
  <1>3. ASSUME NEW e \in DOMAIN exports', exports'[e].status = "completed" PROVE WholeRow(e)'
    <2>1. e \in DOMAIN exports /\ exports[e].status = "completed"
      BY <1>3
    <2> QED BY <1>3, <2>1 DEF WholeInv, WholeRow, Uploaded
  <1> QED BY <1>1, <1>2, <1>3 DEF WholeInv

-----------------------------------------------------------------------------
(* The steps of the exporter. *)

ExporterInv == ExporterTyped /\ BatchInv /\ ReadInv /\ WholeInv

Unread == UNCHANGED <<topic, given, position, stopping>>

\* Only the control of a coroutine moves on.
LEMMA ControlStep ==
    ASSUME ExporterInv, Unread, UNCHANGED <<buffer, exports>>, committed' = committed,
           objects' = objects, FaultsTyped', wrong' = 0 => wrong = 0,
           NEW t \in Coroutines, NEW r \in CoroutineState, Moves(t, r),
           r.at \notin {"create", "down", "cancelled"} \cup Rowed, task[t].at \notin Rowed \cup {"create"},
           r.at = "close" => wrong > 0,
           t = "timer" => r.at \notin X!Sink \cup {"add"}, r.batch = task[t].batch,
           t = "loop" => (r.at \in X!Sink \cup {"add"} <=> task["loop"].at \in X!Sink \cup {"add"})
    PROVE  ExporterInv'
  <1> USE DEF ExporterInv, ExporterTyped
  <1>1. TopicTyped' /\ BufferTyped'
    BY SameOffsets DEF TopicTyped, BufferTyped, Unread
  <1>2. TasksTyped'
    BY TasksKept DEF X!Exporting, Rowed, Unread
  <1>3. ExportsTyped'
    BY ExportsKept DEF ExportsTyped, Unread
  <1>4. PositionTyped'
    BY DEF PositionTyped, Unread, Moves, Coroutines
  <1>5. \A k \in Offsets : Kept(k)' = Kept(k)
    <2> SUFFICES ASSUME NEW k \in Offsets PROVE Kept(k)' = Kept(k)
      OBVIOUS
    <2>1. FreshOne(r, k) = FreshOne(task[t], k)
      BY DEF FreshOne
    <2>2. HandOf(k, position', task'["loop"].at) = HandOf(k, position, task["loop"].at)
      BY DEF HandOf, Moves, Coroutines, Unread
    <2> QED BY <2>1, <2>2 DEF Kept, Moves, Coroutines
  <1>6. BatchInv' /\ ReadInv'
    <2>1. \A k \in Offsets : Kept(k) \in Nat
      BY KeptParts DEF Kept
    <2>2. wrong' = 0 /\ task'["loop"].at \in {"down", "cancelled", "close"} => task["loop"].at = task'["loop"].at
      BY DEF Moves, Coroutines, FaultsTyped
    <2> QED BY <1>1, <1>3, <1>5, <2>1, <2>2, BatchKept DEF Unread, TopicTyped
  <1>7. WholeInv'
    <2>1. \A u \in Coroutines : task'[u].at \in Rowed => task'[u] = task[u] /\ Owns(task[u])
      BY DEF Moves, WholeInv
    <2> QED BY <2>1, WholeKept DEF Unread, Owns
  <1> QED BY <1>1, <1>2, <1>3, <1>4, <1>6, <1>7

LEMMA WriteStep ==
    ASSUME ExporterInv, NEW s \in X!Sink, NEW next \in X!Sink \cup {"add"}, X!Write(s, next)
    PROVE  ExporterInv'
  <1>1. PICK r \in CoroutineState : Moves("loop", r) /\ r.at = next /\ r.batch = task["loop"].batch
    <2>1. X!Go("loop", next) /\ next \in Places /\ "loop" \in Coroutines
      BY DEF X!Write, Places, Coroutines
    <2> QED BY <2>1, Going DEF ExporterInv, ExporterTyped
  <1>2. task["loop"].at = s /\ Unread /\ UNCHANGED <<buffer, exports, objects, committed, requests>>
    BY DEF X!Write, X!At, Unread, X!store
  <1>3. FaultsTyped' /\ (wrong' = 0 => wrong = 0)
    BY FaultCounts, <1>2 DEF X!Write, ExporterInv, ExporterTyped, FaultsTyped
  <1>4. \A x \in X!Sink \cup {"add"} : x \notin {"create", "down", "cancelled", "close"} \cup Rowed
    BY DEF X!Sink, Rowed
  <1> QED BY <1>1, <1>2, <1>3, <1>4, ControlStep DEF Coroutines

\* Both coroutines lose what they have in hand.
LEMMA ResetStep ==
    ASSUME ExporterInv, UNCHANGED <<topic, given, exports, objects>>, buffer' \in {buffer, <<>>},
           position' \in 0..Len(topic), committed' = None \/ committed' \in 0..Len(topic),
           FaultsTyped', task' \in [Coroutines -> CoroutineState],
           \A t \in Coroutines : task'[t].batch = <<>> /\ task'[t].at \in {"down", "poll", "wait"},
           \/ wrong' > 0
           \/ wrong' = wrong /\ task["loop"].at = "down" /\ ~stopping' /\ task'["loop"].at = "poll" /\ buffer' = buffer
    PROVE  ExporterInv'
  <1> USE DEF ExporterInv, ExporterTyped
  <1>1. TopicTyped' /\ BufferTyped'
    <2>1. CASE buffer' = buffer
      BY <2>1, SameOffsets DEF TopicTyped, BufferTyped
    <2>2. CASE buffer' = <<>>
      BY <2>2 DEF TopicTyped, BufferTyped
    <2> QED BY <2>1, <2>2
  <1>2. TasksTyped'
    BY TasksReset DEF X!Exporting
  <1>3. ExportsTyped'
    BY ExportsKept DEF ExportsTyped
  <1>4. PositionTyped'
    BY DEF PositionTyped, X!Sink, Coroutines
  <1>5. \A k \in Offsets : Kept(k)' \in Nat /\ Kept(k) \in Nat /\ Kept(k)' <= Kept(k)
    <2> SUFFICES ASSUME NEW k \in Offsets PROVE Kept(k)' \in Nat /\ Kept(k) \in Nat /\ Kept(k)' <= Kept(k)
      OBVIOUS
    <2>1. FreshOne(task'["loop"], k) = 0 /\ FreshOne(task'["timer"], k) = 0 /\ HandOf(k, position', task'["loop"].at) = 0
      BY DEF FreshOne, HandOf, OneIf, Coroutines, X!Sink
    <2>2. Times(buffer', k) <= Times(buffer, k) /\ Times(buffer', k) \in Nat
      BY TimesEmpty, KeptParts
    <2> QED BY SMTT(20), <2>1, <2>2, KeptParts DEF Kept
  <1>6. \A k \in Offsets : given[k] \in Nat
    BY DEF TopicTyped, Offsets
  <1>7. BatchInv'
    <2>1. ASSUME wrong' = 0 PROVE \A k \in Offsets : given[k] = 0
      BY <2>1 DEF ReadInv, FaultsTyped
    <2> QED BY <1>5, <1>6, <2>1, SameOffsets DEF BatchInv
  <1>8. ReadInv'
    <2>1. ASSUME wrong' = 0 PROVE \A k \in Offsets : given[k] = 0
      BY <2>1 DEF ReadInv, FaultsTyped
    <2> QED BY <2>1, SameOffsets DEF ReadInv, Coroutines
  <1>9. WholeInv'
    BY WholeKept DEF WholeInv, Rowed
  <1> QED BY <1>1, <1>2, <1>3, <1>4, <1>7, <1>8, <1>9

LEMMA StartStep == ASSUME ExporterInv, X!Start PROVE ExporterInv'
  <1>1. /\ UNCHANGED <<topic, given, exports, objects, committed, buffer, wrong, requests>> /\ ~stopping'
        /\ task["loop"].at = "down" /\ position' = IF committed = None THEN Len(topic) ELSE committed
    BY DEF X!Start, X!store, X!Up
  <1>2. task' = [t \in Coroutines |-> X!Idle(t)] /\ X!Idle("loop").at = "poll"
    BY CoroutinesAre DEF X!Start, X!Idle, X!Stopped
  <1>3. position' \in 0..Len(topic) /\ (committed' = None \/ committed' \in 0..Len(topic)) /\ FaultsTyped'
    <2>1. Len(topic) \in Nat /\ FaultsTyped /\ (committed = None \/ committed \in 0..Len(topic))
      BY DEF ExporterInv, ExporterTyped, TopicTyped, PositionTyped
    <2> QED BY <1>1, <2>1 DEF FaultsTyped
  <1>4. task' \in [Coroutines -> CoroutineState]
        /\ \A t \in Coroutines : task'[t].batch = <<>> /\ task'[t].at \in {"down", "poll", "wait"}
    BY <1>2, RestingStates
  <1>5. task'["loop"].at = "poll"
    BY <1>2 DEF Coroutines
  <1> QED BY <1>1, <1>3, <1>4, <1>5, ResetStep

LEMMA StoppedTasks ==
    ASSUME task' = [t \in X!Coroutine |-> X!Stopped]
    PROVE  /\ task' \in [Coroutines -> CoroutineState]
           /\ \A t \in Coroutines : task'[t].batch = <<>> /\ task'[t].at \in {"down", "poll", "wait"}
  BY CoroutinesAre, RestingStates

LEMMA KillStep == ASSUME ExporterInv, X!Kill PROVE ExporterInv'
  <1>1. UNCHANGED <<topic, given, exports, objects, committed, position, requests>> /\ buffer' = <<>>
    BY DEF X!Kill, X!store
  <1>2. position' \in 0..Len(topic) /\ (committed' = None \/ committed' \in 0..Len(topic))
    BY <1>1 DEF ExporterInv, ExporterTyped, PositionTyped
  <1>3. FaultsTyped' /\ wrong' > 0
    BY <1>1, FaultCounts DEF X!Kill, ExporterInv, ExporterTyped, FaultsTyped
  <1>4. task' = [t \in X!Coroutine |-> X!Stopped]
    BY DEF X!Kill
  <1> QED BY <1>1, <1>2, <1>3, <1>4, StoppedTasks, ResetStep

\* What is wrong when the worker ends is that somebody stopped it.
LEMMA StoppedWrong ==
    ASSUME ExporterInv, task["loop"].at \in {"cancelled", "close"} \/ stopping PROVE wrong > 0
  BY DEF ExporterInv, ExporterTyped, ReadInv, FaultsTyped

LEMMA CloseStep == ASSUME ExporterInv, X!Close PROVE ExporterInv'
  <1>1. /\ UNCHANGED <<topic, given, exports, objects, position, buffer, requests, wrong>>
        /\ committed' = position /\ task["loop"].at = "close"
    BY DEF X!Close, X!store, X!At
  <1>2. position' \in 0..Len(topic) /\ committed' \in 0..Len(topic)
    BY <1>1 DEF ExporterInv, ExporterTyped, PositionTyped
  <1>3. FaultsTyped' /\ wrong' > 0
    BY <1>1, StoppedWrong DEF ExporterInv, ExporterTyped, FaultsTyped
  <1>4. task' = [t \in X!Coroutine |-> X!Stopped]
    BY DEF X!Close
  <1> QED BY <1>1, <1>2, <1>3, <1>4, StoppedTasks, ResetStep

LEMMA CommitStep == ASSUME ExporterInv, X!Commit PROVE ExporterInv'
  <1>1. UNCHANGED <<topic, position, sinks, buffer, task, exports, objects, stopping, given, wrong, requests>>
        /\ committed' = position
    BY DEF X!Commit, X!store
  <1>2. ExporterTyped'
    BY <1>1, SameOffsets DEF ExporterInv, ExporterTyped, TopicTyped, PositionTyped, BufferTyped, TasksTyped,
       ExportsTyped, FaultsTyped
  <1>3. BatchInv' /\ ReadInv'
    BY <1>1, SameOffsets DEF ExporterInv, BatchInv, ReadInv, Kept
  <1>4. WholeInv'
    BY <1>1 DEF ExporterInv, WholeInv, OwnersApart, Owns, WholeRow, Uploaded
  <1> QED BY <1>2, <1>3, <1>4 DEF ExporterInv

LEMMA StopStep == ASSUME ExporterInv, X!_stop PROVE ExporterInv'
  <1> USE DEF ExporterInv, ExporterTyped
  <1> DEFINE r == [X!Stopped EXCEPT !.at = "cancelled"]
  <1>1. r \in CoroutineState /\ r.at = "cancelled" /\ r.batch = <<>>
    BY RestingStates DEF X!Stopped, CoroutineState, Places
  <1>2. /\ UNCHANGED <<topic, given, exports, objects, position, committed, buffer, requests>>
        /\ task' = [task EXCEPT !["loop"] = r]
    BY DEF X!_stop, X!store
  <1> HIDE DEF r
  <1>3. Moves("loop", r)
    BY <1>1, <1>2, MovesTask DEF Coroutines
  <1>4. FaultsTyped' /\ wrong' > 0
    BY <1>2, FaultCounts DEF X!_stop, FaultsTyped
  <1>5. TopicTyped' /\ BufferTyped' /\ ExportsTyped'
    BY <1>2, SameOffsets, ExportsKept DEF TopicTyped, BufferTyped, ExportsTyped
  <1>6. TasksTyped'
    BY <1>1, <1>2, <1>3, TasksKept DEF X!Exporting, Coroutines
  <1>7. PositionTyped'
    BY <1>1, <1>2, <1>3 DEF PositionTyped, Moves, X!Sink
  <1>8. BatchInv'
    <2>1. ASSUME NEW k \in Offsets PROVE Kept(k)' <= Kept(k) /\ Kept(k)' \in Nat /\ Kept(k) \in Nat /\ given[k] \in Nat
      <3>1. FreshOne(r, k) = 0 /\ HandOf(k, position', r.at) = 0
        BY <1>1 DEF FreshOne, HandOf, OneIf, X!Sink
      <3>2. given[k] \in Nat
        BY DEF TopicTyped, Offsets
      <3> QED BY <1>2, <1>3, <3>1, <3>2, KeptParts DEF Kept, Moves, Coroutines
    <2> QED BY <1>2, <1>4, <2>1, SameOffsets DEF BatchInv
  <1>9. ReadInv'
    BY <1>4 DEF ReadInv
  <1>10. WholeInv'
    <2>1. \A u \in Coroutines : task'[u].at \in Rowed => task'[u] = task[u] /\ Owns(task[u])
      BY <1>1, <1>3 DEF Moves, WholeInv, Rowed
    <2> QED BY <1>2, <2>1, WholeKept DEF Owns
  <1> QED BY <1>4, <1>5, <1>6, <1>7, <1>8, <1>9, <1>10

LEMMA PollStep == ASSUME ExporterInv, X!Poll PROVE ExporterInv'
  <1> USE DEF ExporterInv, ExporterTyped
  <1>1. PICK r \in CoroutineState : Moves("loop", r) /\ r.at = "elasticsearch" /\ r.batch = task["loop"].batch
    BY Going DEF X!Poll, Places, X!Sink, Coroutines
  <1>2. /\ UNCHANGED <<topic, committed, buffer, exports, objects, stopping, wrong, requests>>
        /\ task["loop"].at = "poll" /\ position < Len(topic) /\ position' = position + 1
        /\ given' = [given EXCEPT ![position'] = @ + 1]
    BY DEF X!Poll, X!store, X!At
  <1>3. /\ given' \in Seq(Nat) /\ Len(given') = Len(topic) /\ position' \in Offsets
        /\ \A k \in Offsets : given'[k] = given[k] + OneIf(k = position + 1) /\ given[k] \in Nat
    BY SMTT(20), <1>2 DEF TopicTyped, PositionTyped, Offsets, OneIf
  <1>4. TopicTyped' /\ BufferTyped' /\ ExportsTyped' /\ FaultsTyped'
    BY <1>2, <1>3, SameOffsets, ExportsKept DEF TopicTyped, BufferTyped, ExportsTyped, FaultsTyped
  <1>5. TasksTyped'
    BY <1>1, <1>2, TasksKept DEF X!Exporting, Coroutines
  <1>6. PositionTyped'
    BY <1>2, <1>3 DEF PositionTyped, Offsets
  <1>7. ASSUME NEW k \in Offsets
        PROVE  Kept(k)' = Kept(k) + OneIf(k = position + 1) /\ Kept(k) \in Nat
    <2>1. FreshOne(r, k) = 0 /\ FreshOne(task["loop"], k) = 0
      BY <1>1, <1>2 DEF FreshOne, OneIf
    <2>2. HandOf(k, position', r.at) = OneIf(k = position + 1) /\ HandOf(k, position, task["loop"].at) = 0
      BY <1>1, <1>2 DEF HandOf, OneIf, X!Sink
    <2>3. OneIf(k = position + 1) \in {0, 1}
      BY DEF OneIf
    <2> QED BY <1>1, <1>2, <2>1, <2>2, <2>3, KeptParts DEF Kept, Moves, Coroutines
  <1>8. BatchInv'
    <2> SUFFICES ASSUME NEW k \in Offsets
                 PROVE  Kept(k)' <= given'[k] /\ (wrong = 0 => Kept(k)' = given'[k] /\ given'[k] <= 1)
      BY <1>2, SameOffsets DEF BatchInv
    <2>1. wrong = 0 /\ k = position + 1 => given[k] = 0
      BY DEF ReadInv, PositionTyped
    <2>2. OneIf(k = position + 1) = IF k = position + 1 THEN 1 ELSE 0
      BY DEF OneIf
    <2> QED BY <1>3, <1>7, <2>1, <2>2 DEF BatchInv
  <1>9. ReadInv'
    <2> SUFFICES ASSUME wrong = 0 PROVE ReadInv'
      BY <1>2 DEF ReadInv
    <2>1. ~stopping' /\ task'["loop"].at = "elasticsearch"
      BY <1>1, <1>2 DEF ReadInv, Moves
    <2>2. \A k \in Offsets : k > position' => given'[k] = 0
      BY <1>2, <1>3 DEF ReadInv, OneIf, PositionTyped, Offsets
    <2> QED BY <1>2, <2>1, <2>2, SameOffsets DEF ReadInv
  <1>10. WholeInv'
    <2>1. \A u \in Coroutines : task'[u].at \in Rowed => task'[u] = task[u] /\ Owns(task[u])
      BY <1>1 DEF Moves, WholeInv, Rowed
    <2> QED BY <1>2, <2>1, WholeKept DEF Owns
  <1> QED BY <1>4, <1>5, <1>6, <1>8, <1>9, <1>10

LEMMA TimesOnce ==
    ASSUME NEW items \in Seq(Nat), NEW k
    PROVE  /\ OneIf(k \in Elems(items)) <= Times(items, k) /\ Times(items, k) \in Nat
           /\ Times(items, k) <= 1 => OneIf(k \in Elems(items)) = Times(items, k)
  <1>1. Times(items, k) \in Nat /\ (Times(items, k) = 0 <=> k \notin Elems(items))
    BY TimesNat DEF Elems
  <1> QED BY <1>1 DEF OneIf

\* A coroutine without a batch takes the items of the buffer, and the one in hand.
LEMMA TakeStep ==
    ASSUME ExporterInv, Unread, UNCHANGED <<committed, exports, objects, wrong, requests>>,
           NEW t \in Coroutines, NEW items \in Seq(Nat), X!Taken(t, items), items # <<>>,
           \A n \in DOMAIN items : items[n] \in Offsets,
           task[t].at \notin Rowed \cup {"create", "down"},
           \A k \in Offsets : Times(items, k) <= Times(buffer, k)
                                + (IF t = "loop" THEN HandOf(k, position, task["loop"].at) ELSE 0),
           wrong = 0 => \A k \in Offsets : Times(items, k) = Times(buffer, k)
                                + (IF t = "loop" THEN HandOf(k, position, task["loop"].at) ELSE 0)
    PROVE  ExporterInv'
  <1> USE DEF ExporterInv, ExporterTyped
  <1>1. buffer' = <<>>
    BY Taking
  <1>2. PICK r \in CoroutineState : Moves(t, r) /\ r.at = "create" /\ r.batch = items /\ r.row = 0 /\ r.written = 0
    BY Taking
  <1>3. TopicTyped' /\ BufferTyped' /\ ExportsTyped' /\ FaultsTyped'
    BY <1>1, SameOffsets, ExportsKept DEF TopicTyped, BufferTyped, ExportsTyped, FaultsTyped, Unread
  <1>4. TasksTyped'
    BY <1>2, TasksKept DEF Unread
  <1>5. PositionTyped'
    BY <1>2 DEF PositionTyped, Unread, Moves, Coroutines, X!Sink
  <1>6. ASSUME NEW k \in Offsets
        PROVE  /\ Kept(k) \in Nat /\ Kept(k)' \in Nat /\ Kept(k)' <= Kept(k)
               /\ wrong = 0 /\ Kept(k) <= 1 => Kept(k)' = Kept(k)
    <2>1. FreshOne(r, k) = OneIf(k \in Elems(items)) /\ FreshOne(task[t], k) = 0
      BY <1>2 DEF FreshOne, OneIf
    <2>2. Times(buffer', k) = 0
      BY <1>1, TimesEmpty
    <2>3. HandOf(k, position', "create") = 0
      BY DEF HandOf, OneIf, X!Sink
    <2>4. /\ OneIf(k \in Elems(items)) <= Times(items, k) /\ Times(items, k) \in Nat
          /\ Times(items, k) <= 1 => OneIf(k \in Elems(items)) = Times(items, k)
          /\ OneIf(k \in Elems(items)) \in {0, 1}
      BY TimesOnce DEF OneIf
    <2>5. /\ Times(buffer, k) \in Nat /\ Rows(exports, k) \in Nat
          /\ FreshOne(task["loop"], k) \in {0, 1} /\ FreshOne(task["timer"], k) \in {0, 1}
          /\ HandOf(k, position, task["loop"].at) \in {0, 1}
      BY KeptParts
    <2>6. CASE t = "loop"
      <3>1. Kept(k)' = OneIf(k \in Elems(items)) + FreshOne(task["timer"], k) + Rows(exports, k)
        BY <1>2, <2>1, <2>2, <2>3, <2>4, <2>5, <2>6 DEF Kept, Moves, Coroutines
      <3>2. Kept(k) = Times(buffer, k) + FreshOne(task["timer"], k) + Rows(exports, k)
                        + HandOf(k, position, task["loop"].at)
        BY <2>1, <2>5, <2>6 DEF Kept
      <3> QED BY SMTT(20), <2>4, <2>5, <2>6, <3>1, <3>2
    <2>7. CASE t = "timer"
      <3>1. Kept(k)' = FreshOne(task["loop"], k) + OneIf(k \in Elems(items)) + Rows(exports, k)
                         + HandOf(k, position, task["loop"].at)
        BY <1>2, <2>1, <2>2, <2>4, <2>5, <2>7 DEF Kept, Moves, Coroutines, Unread
      <3>2. Kept(k) = Times(buffer, k) + FreshOne(task["loop"], k) + Rows(exports, k)
                        + HandOf(k, position, task["loop"].at)
        BY <2>1, <2>5, <2>7 DEF Kept
      <3> QED BY <2>4, <2>5, <2>7, <3>1, <3>2
    <2> QED BY <2>6, <2>7 DEF Coroutines
  <1>7. BatchInv' /\ ReadInv'
    <2>1. wrong' = 0 /\ task'["loop"].at \in {"down", "cancelled", "close"} => task["loop"].at = task'["loop"].at
      BY <1>2 DEF Moves, Coroutines
    <2> QED BY <1>3, <1>6, <2>1, BatchKept DEF Unread, TopicTyped
  <1>8. WholeInv'
    <2>1. \A u \in Coroutines : task'[u].at \in Rowed => task'[u] = task[u] /\ Owns(task[u])
      BY <1>2 DEF Moves, WholeInv, Rowed
    <2> QED BY <2>1, WholeKept DEF Owns, Unread
  <1> QED BY <1>3, <1>4, <1>5, <1>7, <1>8

LEMMA AddStep == ASSUME ExporterInv, X!add PROVE ExporterInv'
  <1> USE DEF ExporterInv, ExporterTyped
  <1> DEFINE items == Append(buffer, position)
  <1>1. Unread /\ UNCHANGED <<committed, exports, objects, wrong, requests>> /\ task["loop"].at = "add"
    BY DEF X!add, X!store, X!At, Unread
  <1>2. position \in Offsets
    BY <1>1 DEF PositionTyped, Offsets
  <1>3. items \in Seq(Nat) /\ items # <<>> /\ \A n \in DOMAIN items : items[n] \in Offsets
    BY <1>2 DEF BufferTyped, Offsets
  <1>4. \A k \in Offsets : Times(items, k) = Times(buffer, k) + HandOf(k, position, task["loop"].at)
                             /\ Times(items, k) \in Nat
    <2> SUFFICES ASSUME NEW k \in Offsets
                 PROVE  Times(items, k) = Times(buffer, k) + HandOf(k, position, task["loop"].at)
                        /\ Times(items, k) \in Nat
      OBVIOUS
    <2>1. Times(items, k) = Times(buffer, k) + (IF position = k THEN 1 ELSE 0)
      BY <1>2, TimesAppend DEF BufferTyped, Offsets
    <2>2. HandOf(k, position, task["loop"].at) = IF position = k THEN 1 ELSE 0
      BY <1>1 DEF HandOf, OneIf
    <2> QED BY <1>3, <2>1, <2>2, TimesNat
  <1> HIDE DEF items
  <1>5. CASE X!Taken("loop", items)
    <2>1. "loop" \in Coroutines /\ task["loop"].at \notin Rowed \cup {"create", "down"}
      BY <1>1 DEF Coroutines, Rowed
    <2> QED BY <1>1, <1>3, <1>4, <1>5, <2>1, TakeStep
  <1>6. CASE buffer' = items /\ X!Go("loop", "poll")
    <2>1. PICK r \in CoroutineState : Moves("loop", r) /\ r.at = "poll" /\ r.batch = task["loop"].batch
      BY <1>6, Going DEF Places, Coroutines
    <2>2. TopicTyped' /\ BufferTyped' /\ ExportsTyped' /\ FaultsTyped'
      BY <1>1, <1>3, <1>6, SameOffsets, ExportsKept DEF TopicTyped, BufferTyped, ExportsTyped, FaultsTyped, Unread
    <2>3. TasksTyped'
      BY <1>1, <2>1, TasksKept DEF Unread, X!Exporting, Coroutines
    <2>4. PositionTyped'
      BY <1>1, <2>1 DEF PositionTyped, Unread, Moves, X!Sink
    <2>5. ASSUME NEW k \in Offsets PROVE Kept(k)' = Kept(k) /\ Kept(k) \in Nat
      <3>1. FreshOne(r, k) = 0 /\ FreshOne(task["loop"], k) = 0 /\ HandOf(k, position', r.at) = 0
        BY <1>1, <2>1 DEF FreshOne, HandOf, OneIf, X!Sink
      <3> QED BY <1>1, <1>4, <1>6, <2>1, <3>1, KeptParts DEF Kept, Moves, Coroutines
    <2>6. BatchInv' /\ ReadInv'
      <3>1. wrong' = 0 /\ task'["loop"].at \in {"down", "cancelled", "close"} => task["loop"].at = task'["loop"].at
        BY <2>1 DEF Moves
      <3> QED BY <1>1, <2>2, <2>5, <3>1, BatchKept DEF Unread, TopicTyped
    <2>7. WholeInv'
      <3>1. \A u \in Coroutines : task'[u].at \in Rowed => task'[u] = task[u] /\ Owns(task[u])
        BY <2>1 DEF Moves, WholeInv, Rowed
      <3> QED BY <1>1, <3>1, WholeKept DEF Owns, Unread
    <2> QED BY <2>2, <2>3, <2>4, <2>6, <2>7
  <1> QED BY <1>5, <1>6 DEF X!add, items

LEMMA FlushStep == ASSUME ExporterInv, X!periodic_flush PROVE ExporterInv'
  <1> USE DEF ExporterInv, ExporterTyped
  <1>1. /\ Unread /\ UNCHANGED <<committed, exports, objects, wrong, requests>>
        /\ task["timer"].at = "wait" /\ "timer" \in Coroutines
    BY DEF X!periodic_flush, X!store, Unread, Coroutines
  <1>2. CASE buffer = <<>>
    <2>1. stopping /\ X!Go("timer", "done") /\ buffer' = buffer
      BY <1>2 DEF X!periodic_flush
    <2>2. PICK r \in CoroutineState : Moves("timer", r) /\ r.at = "done" /\ r.batch = task["timer"].batch
      BY <1>1, <2>1, Going DEF Places
    <2>3. FaultsTyped'
      BY <1>1 DEF FaultsTyped
    <2> QED BY <1>1, <2>1, <2>2, <2>3, ControlStep DEF Rowed, X!Sink
  <1>3. CASE buffer # <<>>
    <2>1. X!Taken("timer", buffer)
      BY <1>3 DEF X!periodic_flush
    <2>2. \A k \in Offsets : Times(buffer, k) \in Nat
      BY KeptParts
    <2>3. task["timer"].at \notin Rowed \cup {"create", "down"}
      BY <1>1 DEF Rowed
    <2> QED BY <1>1, <1>3, <2>1, <2>2, <2>3, TakeStep DEF BufferTyped
  <1> QED BY <1>2, <1>3

LEMMA CancelStep == ASSUME ExporterInv, X!CancelTimer PROVE ExporterInv'
  <1> USE DEF ExporterInv, ExporterTyped
  <1>1. /\ Unread /\ UNCHANGED <<committed, exports, objects, wrong, requests>>
        /\ task["loop"].at = "cancelled" /\ "loop" \in Coroutines
    BY DEF X!CancelTimer, X!store, X!At, Unread, Coroutines
  <1>2. wrong > 0 /\ FaultsTyped'
    BY <1>1, StoppedWrong DEF FaultsTyped
  <1>3. CASE task["timer"].at = "done" /\ buffer = <<>>
    <2>1. X!Go("loop", "close") /\ buffer' = buffer
      BY <1>3 DEF X!CancelTimer
    <2>2. PICK r \in CoroutineState : Moves("loop", r) /\ r.at = "close" /\ r.batch = task["loop"].batch
      BY <1>1, <2>1, Going DEF Places
    <2> QED BY <1>1, <1>2, <2>1, <2>2, ControlStep DEF Rowed, X!Sink
  <1>4. CASE task["timer"].at = "done" /\ buffer # <<>>
    <2>1. X!Taken("loop", buffer)
      BY <1>4 DEF X!CancelTimer
    <2>2. \A k \in Offsets : Times(buffer, k) \in Nat /\ HandOf(k, position, task["loop"].at) \in Nat
      BY KeptParts
    <2>3. task["loop"].at \notin Rowed \cup {"create", "down"}
      BY <1>1 DEF Rowed
    <2>4. wrong # 0
      BY <1>2 DEF FaultsTyped
    <2> QED BY <1>1, <1>4, <2>1, <2>2, <2>3, <2>4, TakeStep DEF BufferTyped
  <1>5. CASE task["timer"].at # "done"
    <2>1. task' = [t \in X!Coroutine |-> X!Stopped] /\ buffer' = <<>>
      BY <1>5 DEF X!CancelTimer
    <2>2. position' \in 0..Len(topic) /\ (committed' = None \/ committed' \in 0..Len(topic))
      BY <1>1 DEF PositionTyped, Unread
    <2> QED BY <1>1, <1>2, <2>1, <2>2, StoppedTasks, ResetStep DEF Unread
  <1> QED BY <1>3, <1>4, <1>5

(* The steps on the rows of exports. *)

\* The coroutine t goes on to r and keeps its batch, or comes to rest.
LEMMA RowStep ==
    ASSUME ExporterInv, Unread, UNCHANGED <<committed, buffer>>, FaultsTyped', ExportsTyped',
           wrong' = 0 => wrong = 0,
           NEW t \in Coroutines, NEW r \in CoroutineState, Moves(t, r), task[t].at \in X!Exporting,
           \/ r.batch = task[t].batch /\ r.at \in Rowed
           \/ r.batch = <<>> /\ r.at \in {"poll", "wait"}
           \/ r.batch = <<>> /\ r.at = "close" /\ stopping,
           \A k \in Offsets : LET gone == Rows(exports, k) + FreshOne(task[t], k)
                              IN  Rows(exports', k) <= gone /\ (wrong' = 0 => Rows(exports', k) = gone),
           WholeInv'
    PROVE  ExporterInv'
  <1> USE DEF ExporterInv, ExporterTyped
  <1>1. TopicTyped' /\ BufferTyped'
    BY SameOffsets DEF TopicTyped, BufferTyped, Unread
  <1>2. r.at \notin X!Sink \cup {"add", "create", "down", "cancelled"} /\ (r.at \in X!Exporting => r.at \in Rowed)
        /\ task[t].at \notin X!Sink \cup {"add", "down", "cancelled", "close"}
    BY DEF X!Sink, Rowed, X!Exporting
  <1>3. TasksTyped'
    <2>1. r.at \in X!Exporting => r.batch # <<>>
      BY <1>2 DEF TasksTyped, Rowed
    <2> QED BY <1>2, <2>1, TasksKept DEF Unread
  <1>4. PositionTyped'
    BY <1>2 DEF PositionTyped, Unread, Moves, Coroutines
  <1>5. ASSUME NEW k \in Offsets
        PROVE  Kept(k) \in Nat /\ Kept(k)' <= Kept(k) /\ (wrong' = 0 => Kept(k)' = Kept(k))
    <2>1. FreshOne(r, k) = 0
      BY <1>2 DEF FreshOne, OneIf
    <2>2. HandOf(k, position', task'["loop"].at) = HandOf(k, position, task["loop"].at)
      BY <1>2 DEF HandOf, Moves, Coroutines, Unread
    <2>3. Rows(exports', k) \in Nat
      <3>1. DOMAIN exports' = 1..Len(exports') /\ Len(exports') \in Nat
        BY DEF ExportsTyped
      <3> QED BY <3>1, RowsFinite
    <2>4. /\ Times(buffer, k) \in Nat /\ Rows(exports, k) \in Nat
          /\ FreshOne(task["loop"], k) \in {0, 1} /\ FreshOne(task["timer"], k) \in {0, 1}
          /\ HandOf(k, position, task["loop"].at) \in {0, 1}
      BY KeptParts
    <2>5. CASE t = "loop"
      <3>1. Kept(k)' = Times(buffer, k) + FreshOne(task["timer"], k) + Rows(exports', k)
                         + HandOf(k, position, task["loop"].at)
        BY <2>1, <2>2, <2>3, <2>4, <2>5 DEF Kept, Moves, Coroutines
      <3> QED BY <2>3, <2>4, <2>5, <3>1 DEF Kept
    <2>6. CASE t = "timer"
      <3>1. Kept(k)' = Times(buffer, k) + FreshOne(task["loop"], k) + Rows(exports', k)
                         + HandOf(k, position, task["loop"].at)
        BY <2>1, <2>2, <2>3, <2>4, <2>6 DEF Kept, Moves, Coroutines
      <3> QED BY <2>3, <2>4, <2>6, <3>1 DEF Kept
    <2> QED BY <2>5, <2>6 DEF Coroutines
  <1>6. BatchInv' /\ ReadInv'
    <2>1. wrong' = 0 /\ task'["loop"].at \in {"down", "cancelled", "close"} => task["loop"].at = task'["loop"].at
      <3>1. wrong' = 0 => ~stopping
        BY DEF ReadInv
      <3> QED BY <1>2, <3>1 DEF Moves, Coroutines, Rowed
    <2> QED BY <1>1, <1>5, <2>1, BatchKept DEF Unread, TopicTyped
  <1> QED BY <1>1, <1>3, <1>4, <1>6

LEMMA CreateStep ==
    ASSUME X!ExporterConstants, ExporterInv, NEW t \in Coroutines, X!create_export(t)
    PROVE  ExporterInv'
  <1> USE DEF ExporterInv, ExporterTyped
  <1>1. /\ Unread /\ UNCHANGED <<committed, buffer, objects, wrong, requests>> /\ task[t].at = "create"
        /\ exports' = Append(exports, [job |-> job[topic[task[t].batch[1]]], items |-> task[t].batch,
                                       path |-> None, status |-> "pending"])
        /\ task' = [task EXCEPT ![t].at = "upload", ![t].row = Len(exports')]
    BY DEF X!create_export, X!ItemOf, Unread
  <1>2. /\ task[t] \in CoroutineState /\ task[t].batch \in Seq(Nat) /\ task[t].batch # <<>> /\ task[t].written = 0
        /\ \A n \in DOMAIN task[t].batch : task[t].batch[n] \in Offsets
    BY <1>1 DEF TasksTyped, CoroutineState, X!Exporting
  <1> DEFINE e == [job |-> job[topic[task[t].batch[1]]], items |-> task[t].batch, path |-> None, status |-> "pending"]
  <1>3. e \in ExportRow
    <2>1. topic[task[t].batch[1]] \in Item
      BY <1>2 DEF TopicTyped, Offsets
    <2>2. job[topic[task[t].batch[1]]] \in Job
      BY <2>1 DEF X!ExporterConstants
    <2> QED BY <1>2, <2>2 DEF ExportRow
  <1>4. e.items = task[t].batch /\ e.status = "pending"
    OBVIOUS
  <1>5. exports' = Append(exports, e)
    BY <1>1
  <1> HIDE DEF e
  <1>6. /\ ExportsTyped' /\ Len(exports') = Len(exports) + 1 /\ exports'[Len(exports) + 1] = e
        /\ \A x \in DOMAIN exports : exports'[x] = exports[x]
    BY <1>1, <1>2, <1>3, <1>4, <1>5, RowAppended DEF Unread
  <1>7. PICK r \in CoroutineState : /\ r.at = "upload" /\ r.row = Len(exports) + 1 /\ r.batch = task[t].batch
                                   /\ r.written = 0 /\ task' = [task EXCEPT ![t] = r]
    <2> DEFINE q == [task[t] EXCEPT !.at = "upload", !.row = Len(exports')]
    <2>1. Len(exports') \in Nat /\ "upload" \in Places
      BY <1>6 DEF ExportsTyped, Places, X!Exporting
    <2>2. /\ q \in CoroutineState /\ q.at = "upload" /\ q.row = Len(exports') /\ q.batch = task[t].batch
          /\ q.written = 0
      BY <1>2, <2>1 DEF CoroutineState
    <2>3. task' = [task EXCEPT ![t] = q]
      BY <1>1
    <2> HIDE DEF q
    <2> QED BY <1>6, <2>2, <2>3
  <1>8. Moves(t, r)
    BY <1>7, MovesTask
  <1>9. /\ Len(exports) \in Nat /\ DOMAIN exports = 1..Len(exports) /\ DOMAIN exports' = 1..(Len(exports) + 1)
    BY <1>6 DEF ExportsTyped
  <1>10. \A k \in Offsets : Rows(exports', k) = Rows(exports, k) + FreshOne(task[t], k)
    <2>1. \A k : Rows(exports', k) = Rows(exports, k) + OneIf(k \in Elems(exports'[Len(exports) + 1].items))
      BY <1>6, <1>9, RowsAppend
    <2>2. \A k : FreshOne(task[t], k) = OneIf(k \in Elems(task[t].batch))
      BY <1>1 DEF FreshOne
    <2> QED BY <1>4, <1>6, <2>1, <2>2
  <1>11. WholeInv'
    <2>1. Owns(task[t])'
      <3>1. task'[t] = r /\ r.row \in DOMAIN exports' /\ exports'[r.row] = e
        BY <1>6, <1>7, <1>8, <1>9 DEF Moves
      <3>2. r.written < Len(r.batch)
        BY <1>2, <1>7
      <3>3. Uploaded(task[t].batch, 0)'
        <4>1. \A n \in DOMAIN r.batch : ~(n <= 0)
          BY <1>2, <1>7
        <4> QED BY <1>7, <1>8, <4>1 DEF Uploaded, Moves
      <3> QED BY <1>4, <1>7, <3>1, <3>2, <3>3 DEF Owns
    <2>2. ASSUME NEW u \in Coroutines, u # t, task[u].at \in Rowed PROVE Owns(task[u])' /\ task[u].row # r.row
      <3>1. Owns(task[u]) /\ task'[u] = task[u]
        BY <1>8, <2>2 DEF WholeInv, Moves
      <3>2. task[u].row \in DOMAIN exports /\ task[u].row \in DOMAIN exports' /\ exports'[task[u].row] = exports[task[u].row]
        BY <1>6, <1>9, <3>1 DEF Owns
      <3>3. \A items, m : Uploaded(items, m) => Uploaded(items, m)'
        BY <1>1 DEF Uploaded, Unread
      <3>4. \A items : FolderIn(topic', items) = FolderIn(topic, items)
        BY <1>1 DEF Unread
      <3>5. task[u].row # r.row
        BY <1>7, <1>9, <3>2
      <3> QED BY <3>1, <3>2, <3>3, <3>4, <3>5 DEF Owns
    <2>3. \A u \in Coroutines : task'[u].at \in Rowed => Owns(task[u])'
      BY <1>8, <2>1, <2>2 DEF Moves
    <2>4. OwnersApart'
      BY <1>8, <2>2 DEF OwnersApart, Moves, Coroutines
    <2>5. ASSUME NEW x \in DOMAIN exports', exports'[x].status = "completed" PROVE WholeRow(x)'
      <3>1. x \in DOMAIN exports /\ exports'[x] = exports[x]
        BY <1>4, <1>6, <1>9, <2>5
      <3>2. WholeRow(x)
        BY <2>5, <3>1 DEF WholeInv
      <3> QED BY <1>1, <3>1, <3>2 DEF WholeRow, Uploaded, Unread
    <2> QED BY <2>3, <2>4, <2>5 DEF WholeInv
  <1>12. FaultsTyped' /\ task[t].at \in X!Exporting /\ r.at \in Rowed
    BY <1>1, <1>7 DEF FaultsTyped, X!Exporting, Rowed
  <1>13. \A k \in Offsets : Rows(exports, k) + FreshOne(task[t], k) \in Nat
    BY KeptParts DEF Coroutines
  <1> QED BY <1>1, <1>6, <1>7, <1>8, <1>10, <1>11, <1>12, <1>13, RowStep

\* A step of coroutine t on its own row, or on none, leaves the other and its row alone.
LEMMA OwnRowStep ==
    ASSUME WholeInv, topic' = topic, objects \subseteq objects',
           NEW t \in Coroutines, task[t].at \in Rowed, NEW r, Moves(t, r),
           NEW e, e = task[t].row, DOMAIN exports' = DOMAIN exports,
           \A x \in DOMAIN exports : x # e => exports'[x] = exports[x],
           r.at \in Rowed => r.row = e /\ Owns(task[t])',
           exports'[e].status = "completed" => WholeRow(e)'
    PROVE  WholeInv'
  <1>1. \A items, m : Uploaded(items, m) => Uploaded(items, m)'
    BY DEF Uploaded
  <1>2. \A items : FolderIn(topic', items) = FolderIn(topic, items)
    OBVIOUS
  <1>3. ASSUME NEW u \in Coroutines, u # t, task[u].at \in Rowed
        PROVE  Owns(task[u])' /\ task[u].row # task[t].row
    <2>1. task'[u] = task[u] /\ Owns(task[u]) /\ task[u].row # task[t].row
      BY <1>3 DEF WholeInv, Moves, OwnersApart, Coroutines
    <2>2. task[u].row \in DOMAIN exports' /\ exports'[task[u].row] = exports[task[u].row]
      BY <2>1 DEF Owns
    <2> QED BY <1>1, <1>2, <2>1, <2>2 DEF Owns
  <1>4. \A u \in Coroutines : task'[u].at \in Rowed => Owns(task[u])'
    BY <1>3 DEF Moves
  <1>5. OwnersApart'
    BY <1>3 DEF OwnersApart, Moves, Coroutines
  <1>6. ASSUME NEW x \in DOMAIN exports', exports'[x].status = "completed" PROVE WholeRow(x)'
    <2>1. CASE x # e
      <3>1. x \in DOMAIN exports /\ exports'[x] = exports[x]
        BY <2>1
      <3>2. WholeRow(x)
        BY <1>6, <3>1 DEF WholeInv
      <3> QED BY <1>1, <1>2, <3>1, <3>2 DEF WholeRow
    <2> QED BY <1>6, <2>1
  <1> QED BY <1>4, <1>5, <1>6 DEF WholeInv

LEMMA OwnRow ==
    ASSUME ExporterInv, NEW t \in Coroutines, task[t].at \in Rowed
    PROVE  /\ Owns(task[t]) /\ task[t] \in CoroutineState /\ task[t].row \in DOMAIN exports
           /\ task[t].batch \in Seq(Nat) /\ task[t].batch # <<>>
           /\ \A n \in DOMAIN task[t].batch : task[t].batch[n] \in Offsets
           /\ exports[task[t].row] \in ExportRow /\ task[t].at \in X!Exporting
           /\ \A k : FreshOne(task[t], k) = 0
           /\ DOMAIN exports = 1..Len(exports) /\ Len(exports) \in Nat
  <1>1. Owns(task[t]) /\ task[t] \in CoroutineState /\ task[t].at \in X!Exporting
    BY DEF ExporterInv, ExporterTyped, WholeInv, TasksTyped, Rowed, X!Exporting
  <1>2. task[t].batch \in Seq(Nat) /\ task[t].batch # <<>> /\ \A n \in DOMAIN task[t].batch : task[t].batch[n] \in Offsets
    BY <1>1 DEF ExporterInv, ExporterTyped, TasksTyped, CoroutineState
  <1>3. task[t].row \in DOMAIN exports /\ exports[task[t].row] \in ExportRow
        /\ DOMAIN exports = 1..Len(exports) /\ Len(exports) \in Nat
    BY <1>1 DEF Owns, ExporterInv, ExporterTyped, ExportsTyped
  <1>4. \A k : FreshOne(task[t], k) = 0
    BY DEF FreshOne, OneIf, Rowed
  <1> QED BY <1>1, <1>2, <1>3, <1>4

LEMMA UploadStep ==
    ASSUME ExporterInv, NEW t \in Coroutines, X!upload(t)
    PROVE  ExporterInv'
  <1> USE DEF ExporterInv, ExporterTyped
  <1>0. PICK k : k = task[t].written + 1
    OBVIOUS
  <1> DEFINE next == IF k = Len(task[t].batch) THEN "path" ELSE "upload"
  <1>1. /\ Unread /\ UNCHANGED <<committed, buffer, exports, wrong, requests>> /\ task[t].at = "upload"
        /\ objects' = objects \cup {topic[task[t].batch[k]]}
        /\ task' = [task EXCEPT ![t].written = k, ![t].at = next]
    BY <1>0 DEF X!upload, X!ItemOf, Unread
  <1>2. task[t].at \in Rowed
    BY <1>1 DEF Rowed
  <1>3. /\ Owns(task[t]) /\ task[t] \in CoroutineState /\ task[t].batch \in Seq(Nat)
        /\ \A n \in DOMAIN task[t].batch : task[t].batch[n] \in Offsets
        /\ \A x : FreshOne(task[t], x) = 0
    BY <1>2, OwnRow
  <1>4. task[t].written \in Nat /\ k \in DOMAIN task[t].batch /\ Uploaded(task[t].batch, task[t].written)
    BY <1>0, <1>1, <1>3 DEF Owns, CoroutineState
  <1>5. PICK r \in CoroutineState : /\ r.at = next /\ r.row = task[t].row /\ r.batch = task[t].batch
                                   /\ r.written = k /\ task' = [task EXCEPT ![t] = r]
    <2> DEFINE q == [task[t] EXCEPT !.written = k, !.at = next]
    <2>1. k \in Nat /\ next \in Places
      BY <1>0, <1>4 DEF Places, X!Exporting
    <2> HIDE DEF next
    <2>2. /\ q \in CoroutineState /\ q.at = next /\ q.row = task[t].row /\ q.batch = task[t].batch /\ q.written = k
      BY <1>3, <2>1 DEF CoroutineState
    <2>3. task' = [task EXCEPT ![t] = q]
      BY <1>1
    <2> HIDE DEF q
    <2> QED BY <2>2, <2>3
  <1>6. Moves(t, r)
    BY <1>5, MovesTask
  <1>7. topic[task[t].batch[k]] \in Item
    BY <1>3, <1>4 DEF TopicTyped, Offsets
  <1>8. ExportsTyped' /\ FaultsTyped'
    BY <1>1, <1>7, ExportsKept DEF ExportsTyped, FaultsTyped, Unread
  <1>9. Uploaded(task[t].batch, k)'
    <2>1. \A n \in DOMAIN task[t].batch : n <= k => n <= task[t].written \/ n = k
      BY <1>0, <1>3, <1>4
    <2> QED BY <1>1, <1>4, <1>5, <1>6, <2>1 DEF Uploaded, Moves, Unread
  <1>10. Owns(task[t])'
    <2>1. next = "upload" => k < Len(task[t].batch)
      BY <1>3, <1>4
    <2>2. next \in {"upload", "path"} /\ (next = "path" => k = Len(task[t].batch))
      OBVIOUS
    <2>3. task'[t] = r
      BY <1>6 DEF Moves
    <2> HIDE DEF next
    <2> QED BY <1>1, <1>3, <1>5, <1>9, <2>1, <2>2, <2>3 DEF Owns
  <1>11. WholeInv'
    <2>1. ~(exports[task[t].row].status = "completed")
      BY <1>3 DEF Owns
    <2> QED BY <1>1, <1>2, <1>5, <1>6, <1>10, <2>1, OwnRowStep DEF Unread
  <1>12. r.at \in Rowed /\ task[t].at \in X!Exporting
    BY <1>1, <1>5 DEF Rowed, X!Exporting
  <1>13. \A x \in Offsets : Rows(exports, x) \in Nat
    BY KeptParts
  <1> QED BY <1>1, <1>3, <1>5, <1>6, <1>8, <1>11, <1>12, <1>13, RowStep

LEMMA PathStep ==
    ASSUME X!ExporterConstants, ExporterInv, NEW t \in Coroutines, X!update_export_file_path(t)
    PROVE  ExporterInv'
  <1> USE DEF ExporterInv, ExporterTyped
  <1>0. PICK e : e = task[t].row
    OBVIOUS
  <1> DEFINE folder == FolderIn(topic, task[t].batch)
             row == [exports[e] EXCEPT !.path = folder]
  <1>1. /\ Unread /\ UNCHANGED <<committed, buffer, objects, wrong, requests>> /\ task[t].at = "path"
        /\ X!Go(t, "finish")
        /\ exports' = IF exports[e].status = "deleted" THEN exports ELSE [exports EXCEPT ![e] = row]
    BY <1>0, FolderIs DEF X!update_export_file_path, X!Updated, Unread
  <1>2. task[t].at \in Rowed
    BY <1>1 DEF Rowed
  <1>3. /\ Owns(task[t]) /\ e \in DOMAIN exports /\ exports[e] \in ExportRow /\ task[t].batch \in Seq(Nat)
        /\ task[t].batch # <<>> /\ \A n \in DOMAIN task[t].batch : task[t].batch[n] \in Offsets
        /\ task[t].at \in X!Exporting /\ \A x : FreshOne(task[t], x) = 0
    BY <1>0, <1>2, OwnRow
  <1>4. folder \in Site
    <2>1. \E n \in DOMAIN task[t].batch : site[topic[task[t].batch[n]]] = folder
      BY <1>3, FolderHas DEF TopicTyped
    <2>2. \A n \in DOMAIN task[t].batch : topic[task[t].batch[n]] \in Item
      BY <1>3 DEF TopicTyped, Offsets
    <2> HIDE DEF folder
    <2> QED BY <2>1, <2>2 DEF X!ExporterConstants
  <1> HIDE DEF folder
  <1>5. /\ row \in ExportRow /\ row.items = exports[e].items /\ row.status = exports[e].status /\ row.path = folder
    BY <1>3, <1>4 DEF ExportRow
  <1> HIDE DEF row
  <1>6. PICK r \in CoroutineState : Moves(t, r) /\ r.at = "finish" /\ r.batch = task[t].batch /\ r.row = e
    BY <1>0, <1>1, Going DEF Places, X!Exporting
  <1>7. /\ ExportsTyped' /\ DOMAIN exports' = DOMAIN exports
        /\ \A x \in DOMAIN exports : x # e => exports'[x] = exports[x]
        /\ exports'[e].items = exports[e].items /\ exports'[e].status = exports[e].status
        /\ exports[e].status = "deleted" \/ exports'[e].path = folder
    <2>1. CASE exports[e].status = "deleted"
      BY <1>1, <2>1, ExportsKept DEF Unread, ExportsTyped
    <2>2. CASE exports[e].status # "deleted"
      <3>1. exports' = [exports EXCEPT ![e] = row]
        BY <1>1, <2>2
      <3>2. ExportsTyped' /\ DOMAIN exports' = DOMAIN exports
            /\ \A x \in DOMAIN exports : exports'[x] = IF x = e THEN row ELSE exports[x]
        BY <1>1, <1>5, <3>1, RowReplaced DEF Unread
      <3> QED BY <1>3, <1>5, <3>2
    <2> QED BY <2>1, <2>2
  <1>8. Owns(task[t])'
    <2>1. task'[t] = r
      BY <1>6 DEF Moves
    <2>2. Uploaded(task[t].batch, Len(task[t].batch))
      BY <1>1, <1>3 DEF Owns
    <2>3. Uploaded(task[t].batch, Len(task[t].batch))'
      BY <1>1, <1>6, <2>1, <2>2 DEF Uploaded, Unread
    <2>4. FolderIn(topic', task'[t].batch) = folder
      BY <1>1, <1>6, <2>1 DEF Unread, folder
    <2> QED BY <1>0, <1>3, <1>6, <1>7, <2>1, <2>3, <2>4 DEF Owns
  <1>9. WholeInv'
    <2>1. exports'[e].status # "completed"
      BY <1>0, <1>3, <1>7 DEF Owns
    <2> QED BY <1>0, <1>1, <1>2, <1>6, <1>7, <1>8, <2>1, OwnRowStep DEF Unread
  <1>10. FaultsTyped' /\ r.at \in Rowed
    BY <1>1, <1>6 DEF FaultsTyped, Rowed
  <1>11. \A x \in Offsets : Rows(exports', x) = Rows(exports, x) /\ Rows(exports, x) \in Nat
    <2>1. \A x \in DOMAIN exports : exports'[x].items = exports[x].items
      BY <1>7
    <2> QED BY <1>7, <2>1, RowsSame, KeptParts
  <1>12. Unread /\ UNCHANGED <<committed, buffer>> /\ (wrong' = 0 => wrong = 0)
    BY <1>1
  <1>13. \A k \in Offsets : LET gone == Rows(exports, k) + FreshOne(task[t], k)
                            IN  Rows(exports', k) <= gone /\ (wrong' = 0 => Rows(exports', k) = gone)
    BY <1>3, <1>11
  <1> QED BY <1>3, <1>6, <1>7, <1>9, <1>10, <1>12, <1>13, RowStep

LEMMA FinishStep ==
    ASSUME ExporterInv, NEW t \in Coroutines, X!update_export_status(t)
    PROVE  ExporterInv'
  <1> USE DEF ExporterInv, ExporterTyped
  <1>0. PICK e : e = task[t].row
    OBVIOUS
  <1> DEFINE row == [exports[e] EXCEPT !.status = "completed"]
  <1>1. /\ Unread /\ UNCHANGED <<committed, buffer, objects, wrong, requests>> /\ task[t].at = "finish"
        /\ task' = [task EXCEPT ![t] = X!After(t)]
        /\ exports' = IF exports[e].status = "deleted" THEN exports ELSE [exports EXCEPT ![e] = row]
    BY <1>0 DEF X!update_export_status, X!Updated, Unread
  <1>2. task[t].at \in Rowed
    BY <1>1 DEF Rowed
  <1>3. /\ Owns(task[t]) /\ e \in DOMAIN exports /\ exports[e] \in ExportRow /\ task[t].batch # <<>>
        /\ task[t].at \in X!Exporting /\ \A x : FreshOne(task[t], x) = 0
    BY <1>0, <1>2, OwnRow
  <1>4. row \in ExportRow /\ row.items = exports[e].items /\ row.path = exports[e].path /\ row.status = "completed"
    BY <1>3 DEF ExportRow
  <1> HIDE DEF row
  <1>5. PICK r \in CoroutineState : Moves(t, r) /\ r.batch = <<>> /\ r = X!After(t)
    BY <1>1, RestingStates, MovesTask
  <1>6. r.at \in {"poll", "wait"} \/ (r.at = "close" /\ stopping)
    BY <1>5 DEF X!After, X!Idle, X!Stopped
  <1>7. /\ ExportsTyped' /\ DOMAIN exports' = DOMAIN exports
        /\ \A x \in DOMAIN exports : x # e => exports'[x] = exports[x]
        /\ exports'[e].items = exports[e].items /\ exports'[e].path = exports[e].path
        /\ exports[e].status # "deleted" \/ exports'[e].status = "deleted"
    <2>1. CASE exports[e].status = "deleted"
      BY <1>1, <2>1, ExportsKept DEF Unread, ExportsTyped
    <2>2. CASE exports[e].status # "deleted"
      <3>1. exports' = [exports EXCEPT ![e] = row]
        BY <1>1, <2>2
      <3>2. ExportsTyped' /\ DOMAIN exports' = DOMAIN exports
            /\ \A x \in DOMAIN exports : exports'[x] = IF x = e THEN row ELSE exports[x]
        BY <1>1, <1>4, <3>1, RowReplaced DEF Unread
      <3> QED BY <1>3, <1>4, <2>2, <3>2
    <2> QED BY <2>1, <2>2
  <1>8. WholeInv'
    <2>1. ASSUME exports'[e].status = "completed" PROVE WholeRow(e)'
      <3>1. exports[e].status # "deleted"
        BY <1>7, <2>1
      <3>2. /\ exports[e].items = task[t].batch /\ Uploaded(task[t].batch, Len(task[t].batch))
            /\ exports[e].path = FolderIn(topic, task[t].batch)
        BY <1>0, <1>1, <1>3, <3>1 DEF Owns
      <3>3. Uploaded(exports[e].items, Len(exports[e].items))
        BY <3>2
      <3> QED BY <1>1, <1>3, <1>7, <3>2, <3>3 DEF WholeRow, Uploaded, Unread
    <2>2. r.at \notin Rowed
      BY <1>6 DEF Rowed
    <2> QED BY <1>0, <1>1, <1>2, <1>5, <1>7, <2>1, <2>2, OwnRowStep DEF Unread
  <1>9. FaultsTyped'
    BY <1>1 DEF FaultsTyped
  <1>10. \A x \in Offsets : Rows(exports', x) = Rows(exports, x) /\ Rows(exports, x) \in Nat
    <2>1. \A x \in DOMAIN exports : exports'[x].items = exports[x].items
      BY <1>7
    <2> QED BY <1>7, <2>1, RowsSame, KeptParts
  <1>11. Unread /\ UNCHANGED <<committed, buffer>> /\ (wrong' = 0 => wrong = 0)
    BY <1>1
  <1>12. \A k \in Offsets : LET gone == Rows(exports, k) + FreshOne(task[t], k)
                            IN  Rows(exports', k) <= gone /\ (wrong' = 0 => Rows(exports', k) = gone)
    BY <1>3, <1>10
  <1> QED BY <1>3, <1>5, <1>6, <1>7, <1>8, <1>9, <1>11, <1>12, RowStep

LEMMA FailStep ==
    ASSUME ExporterInv, NEW t \in Coroutines, X!ExportFails(t)
    PROVE  ExporterInv'
  <1> USE DEF ExporterInv, ExporterTyped
  <1>0. PICK e : e = task[t].row
    OBVIOUS
  <1> DEFINE row == [exports[e] EXCEPT !.status = "failed"]
  <1>1. /\ Unread /\ UNCHANGED <<committed, buffer, objects, requests>> /\ task[t].at \in X!Exporting
        /\ task' = [task EXCEPT ![t] = X!After(t)] /\ X!Fault("export")
        /\ \/ exports' = exports
           \/ e # 0 /\ exports[e].status # "deleted" /\ exports' = [exports EXCEPT ![e] = row]
    BY <1>0 DEF X!ExportFails, X!Updated, Unread
  <1>2. FaultsTyped' /\ wrong' > 0
    BY <1>1, FaultCounts DEF FaultsTyped
  <1>3. PICK r \in CoroutineState : Moves(t, r) /\ r.batch = <<>> /\ r = X!After(t)
    BY <1>1, RestingStates, MovesTask
  <1>4. r.at \in {"poll", "wait"} \/ (r.at = "close" /\ stopping)
    BY <1>3 DEF X!After, X!Idle, X!Stopped
  <1>5. r.at \notin Rowed
    BY <1>4 DEF Rowed
  <1>6. \A x \in Offsets : Rows(exports, x) \in Nat /\ FreshOne(task[t], x) \in {0, 1}
    BY KeptParts DEF Coroutines
  <1>7. CASE exports' = exports
    <2>1. ExportsTyped'
      BY <1>1, <1>7, ExportsKept DEF Unread, ExportsTyped
    <2>2. WholeInv'
      <3>1. \A u \in Coroutines : task'[u].at \in Rowed => task'[u] = task[u] /\ Owns(task[u])
        BY <1>3, <1>5 DEF Moves, WholeInv
      <3> QED BY <1>1, <1>7, <3>1, WholeKept DEF Owns, Unread
    <2>3. wrong' # 0
      BY <1>2 DEF FaultsTyped
    <2> QED BY <1>1, <1>2, <1>3, <1>4, <1>6, <1>7, <2>1, <2>2, <2>3, RowStep
  <1>8. CASE e # 0 /\ exports[e].status # "deleted" /\ exports' = [exports EXCEPT ![e] = row]
    <2>1. task[t].at \in Rowed
      BY <1>0, <1>1, <1>8 DEF Rowed, X!Exporting, TasksTyped
    <2>2. /\ Owns(task[t]) /\ e \in DOMAIN exports /\ exports[e] \in ExportRow /\ \A x : FreshOne(task[t], x) = 0
      BY <1>0, <2>1, OwnRow
    <2>3. row \in ExportRow /\ row.items = exports[e].items /\ row.status = "failed"
      BY <2>2 DEF ExportRow
    <2>4. exports' = [exports EXCEPT ![e] = row]
      BY <1>8
    <2> HIDE DEF row
    <2>5. /\ ExportsTyped' /\ DOMAIN exports' = DOMAIN exports
          /\ \A x \in DOMAIN exports : exports'[x] = IF x = e THEN row ELSE exports[x]
      BY <1>1, <2>3, <2>4, RowReplaced DEF Unread
    <2>6. WholeInv'
      <3>1. exports'[e].status # "completed" /\ \A x \in DOMAIN exports : x # e => exports'[x] = exports[x]
        BY <2>2, <2>3, <2>5
      <3> QED BY <1>0, <1>1, <1>3, <1>5, <2>1, <2>5, <3>1, OwnRowStep DEF Unread
    <2>7. \A x \in Offsets : Rows(exports', x) = Rows(exports, x)
      <3>1. \A x \in DOMAIN exports : exports'[x].items = exports[x].items
        BY <2>3, <2>5
      <3> QED BY <2>5, <3>1, RowsSame
    <2>8. wrong' # 0
      BY <1>2 DEF FaultsTyped
    <2>9. \A k \in Offsets : LET gone == Rows(exports, k) + FreshOne(task[t], k)
                             IN  Rows(exports', k) <= gone /\ (wrong' = 0 => Rows(exports', k) = gone)
      BY <1>6, <2>2, <2>7, <2>8
    <2>10. Unread /\ UNCHANGED <<committed, buffer>> /\ task[t].at \in X!Exporting
      BY <1>1
    <2> QED BY <1>2, <1>3, <1>4, <2>5, <2>6, <2>8, <2>9, <2>10, RowStep
  <1> QED BY <1>1, <1>7, <1>8

\* The routes add a row without a batch, or mark one as deleted.
LEMMA RouteStep ==
    ASSUME ExporterInv, Unread, UNCHANGED <<committed, buffer, task, objects, wrong>>, requests' \in Nat,
           ExportsTyped', DOMAIN exports \subseteq DOMAIN exports',
           \A k : Rows(exports', k) = Rows(exports, k),
           \A e \in DOMAIN exports : /\ exports'[e].items = exports[e].items /\ exports'[e].path = exports[e].path
                                     /\ exports'[e].status \in {exports[e].status, "deleted"},
           \A e \in DOMAIN exports' \ DOMAIN exports : exports'[e].status # "completed"
    PROVE  ExporterInv'
  <1> USE DEF ExporterInv, ExporterTyped
  <1>1. TopicTyped' /\ BufferTyped' /\ TasksTyped' /\ PositionTyped' /\ FaultsTyped'
    BY SameOffsets DEF TopicTyped, BufferTyped, TasksTyped, PositionTyped, FaultsTyped, Unread
  <1>2. BatchInv' /\ ReadInv'
    <2>1. \A k : Kept(k)' = Kept(k)
      BY DEF Kept, HandOf, Unread
    <2> QED BY <2>1, SameOffsets DEF BatchInv, ReadInv, Unread
  <1>3. WholeInv'
    <2>1. \A t \in Coroutines : task'[t].at \in Rowed =>
            task[t].row \in DOMAIN exports /\ exports[task[t].row].status # "failed"
      BY DEF WholeInv, Owns
    <2> QED BY <2>1, WholeKept DEF Unread
  <1> QED BY <1>1, <1>2, <1>3

LEMMA TriggerStep ==
    ASSUME ExporterInv, NEW j \in Job, X!trigger_export(j)
    PROVE  ExporterInv'
  <1> USE DEF ExporterInv, ExporterTyped
  <1> DEFINE r == [job |-> j, items |-> <<>>, path |-> None, status |-> "pending"]
  <1>1. /\ Unread /\ UNCHANGED <<committed, buffer, task, objects, wrong>> /\ requests' = requests + 1
        /\ exports' = Append(exports, r)
    BY DEF X!trigger_export, X!Asked, Unread
  <1>2. r \in ExportRow /\ r.items = <<>> /\ r.status = "pending"
    BY DEF ExportRow
  <1> HIDE DEF r
  <1>3. /\ ExportsTyped' /\ Len(exports') = Len(exports) + 1 /\ exports'[Len(exports) + 1] = r
        /\ \A e \in DOMAIN exports : exports'[e] = exports[e]
    BY <1>1, <1>2, RowAppended DEF Unread
  <1>4. Len(exports) \in Nat /\ DOMAIN exports = 1..Len(exports) /\ DOMAIN exports' = 1..(Len(exports) + 1)
    BY <1>3 DEF ExportsTyped
  <1>5. \A k : Rows(exports', k) = Rows(exports, k)
    <2>1. \A k : Rows(exports', k) = Rows(exports, k) + OneIf(k \in Elems(exports'[Len(exports) + 1].items))
      BY <1>3, <1>4, RowsAppend
    <2>2. \A k : OneIf(k \in Elems(exports'[Len(exports) + 1].items)) = 0
      BY <1>2, <1>3 DEF Elems, OneIf
    <2>3. \A k : Rows(exports, k) \in Nat
      BY KeptParts
    <2> QED BY <2>1, <2>2, <2>3
  <1>6. requests' \in Nat
    BY <1>1 DEF FaultsTyped
  <1>7. \A e \in DOMAIN exports' \ DOMAIN exports : exports'[e].status # "completed"
    BY <1>2, <1>3, <1>4
  <1>8. DOMAIN exports \subseteq DOMAIN exports'
    BY <1>4
  <1> QED BY <1>1, <1>3, <1>5, <1>6, <1>7, <1>8, RouteStep

LEMMA DeleteStep ==
    ASSUME ExporterInv, NEW e \in DOMAIN exports, X!delete_export(e)
    PROVE  ExporterInv'
  <1> USE DEF ExporterInv, ExporterTyped
  <1> DEFINE r == [exports[e] EXCEPT !.status = "deleted"]
  <1>1. /\ Unread /\ UNCHANGED <<committed, buffer, task, objects, wrong>> /\ requests' = requests + 1
        /\ exports' = [exports EXCEPT ![e] = r]
    BY DEF X!delete_export, X!Asked, Unread
  <1>2. /\ r \in ExportRow /\ r.items = exports[e].items /\ r.path = exports[e].path /\ r.status = "deleted"
    <2>1. exports[e] \in ExportRow
      BY DEF ExportsTyped
    <2> QED BY <2>1 DEF ExportRow
  <1> HIDE DEF r
  <1>3. /\ ExportsTyped' /\ DOMAIN exports' = DOMAIN exports
        /\ \A x \in DOMAIN exports : exports'[x] = IF x = e THEN r ELSE exports[x]
    BY <1>1, <1>2, RowReplaced DEF Unread
  <1>4. \A x \in DOMAIN exports : /\ exports'[x].items = exports[x].items /\ exports'[x].path = exports[x].path
                                  /\ exports'[x].status \in {exports[x].status, "deleted"}
    BY <1>2, <1>3
  <1>5. \A k : Rows(exports', k) = Rows(exports, k)
    BY <1>3, <1>4, RowsSame
  <1>6. requests' \in Nat
    BY <1>1 DEF FaultsTyped
  <1> QED BY <1>1, <1>3, <1>4, <1>5, <1>6, RouteStep

\* A new message has been given to nobody; the offsets before it keep their items.
LEMMA PublishStep ==
    ASSUME ExporterInv, NEW i \in Item, X!Publish(i)
    PROVE  ExporterInv'
  <1> USE DEF ExporterInv, ExporterTyped
  <1>1. /\ UNCHANGED <<position, committed, buffer, task, exports, objects, stopping, wrong, requests>>
        /\ topic' = Append(topic, i) /\ given' = Append(given, 0)
    BY DEF X!Publish, X!store
  <1>2. PICK n \in Nat : n = Len(topic) /\ n = Len(given)
    BY DEF TopicTyped
  <1>3. /\ topic' \in Seq(Item) /\ given' \in Seq(Nat) /\ Len(topic') = n + 1 /\ Len(given') = n + 1
        /\ given'[n + 1] = 0 /\ \A k \in 1..n : topic'[k] = topic[k] /\ given'[k] = given[k]
    BY <1>1, <1>2 DEF TopicTyped
  <1>4. Offsets = 1..n /\ Offsets' = 1..(n + 1) /\ Offsets \subseteq Offsets' /\ n + 1 \notin Offsets
    BY <1>2, <1>3 DEF Offsets
  <1>5. TopicTyped' /\ PositionTyped' /\ FaultsTyped'
    BY <1>1, <1>2, <1>3 DEF TopicTyped, PositionTyped, FaultsTyped
  <1>6. BufferTyped' /\ TasksTyped' /\ ExportsTyped'
    BY <1>1, <1>4 DEF BufferTyped, TasksTyped, ExportsTyped
  <1>7. \A k : Kept(k)' = Kept(k)
    BY <1>1 DEF Kept
  <1>8. Kept(n + 1) = 0
    <2>1. n + 1 \notin {buffer[m] : m \in DOMAIN buffer}
      BY <1>4 DEF BufferTyped
    <2>2. Times(buffer, n + 1) = 0
      BY <2>1, TimesNat DEF BufferTyped
    <2>3. FreshOne(task["loop"], n + 1) = 0 /\ FreshOne(task["timer"], n + 1) = 0
      BY <1>4 DEF FreshOne, OneIf, Elems, TasksTyped, Coroutines
    <2>4. RowsIn(exports, n + 1) = {}
      BY <1>4 DEF RowsIn, Elems, ExportsTyped
    <2>5. HandOf(n + 1, position, task["loop"].at) = 0
      BY <1>2 DEF HandOf, OneIf, PositionTyped
    <2> QED BY <2>2, <2>3, <2>4, <2>5, FS_EmptySet DEF Kept, Rows
  <1>9. BatchInv'
    <2> SUFFICES ASSUME NEW k \in 1..(n + 1)
                 PROVE  Kept(k)' <= given'[k] /\ (wrong' = 0 => Kept(k)' = given'[k] /\ given'[k] <= 1)
      BY <1>4 DEF BatchInv
    <2>1. CASE k = n + 1
      BY <1>3, <1>7, <1>8, <2>1
    <2>2. CASE k # n + 1
      BY <1>1, <1>3, <1>4, <1>7, <2>2 DEF BatchInv
    <2> QED BY <2>1, <2>2
  <1>10. ReadInv'
    <2> SUFFICES ASSUME wrong = 0, NEW k \in 1..(n + 1), k > position \/ task["loop"].at = "down"
                 PROVE  given'[k] = 0
      BY <1>1, <1>4 DEF ReadInv
    <2> QED BY <1>3, <1>4 DEF ReadInv
  <1>11. ASSUME NEW items \in Seq(Nat), \A m \in DOMAIN items : items[m] \in Offsets
         PROVE  /\ FolderIn(topic', items) = FolderIn(topic, items)
                /\ \A m : Uploaded(items, m) => Uploaded(items, m)'
    <2>1. \A m \in DOMAIN items : topic'[items[m]] = topic[items[m]]
      BY <1>3, <1>4, <1>11
    <2>2. {site[topic'[k]] : k \in Elems(items)} = {site[topic[k]] : k \in Elems(items)}
      BY <2>1 DEF Elems
    <2> QED BY <1>1, <2>1, <2>2 DEF FolderIn, Uploaded
  <1>12. WholeInv'
    <2>1. ASSUME NEW t \in Coroutines, task[t].at \in Rowed PROVE Owns(task[t])'
      <3>1. task[t].batch \in Seq(Nat) /\ \A m \in DOMAIN task[t].batch : task[t].batch[m] \in Offsets
        BY DEF TasksTyped, CoroutineState
      <3>2. Owns(task[t])
        BY <2>1 DEF WholeInv
      <3> QED BY <1>1, <1>11, <3>1, <3>2 DEF Owns
    <2>2. ASSUME NEW e \in DOMAIN exports, exports[e].status = "completed" PROVE WholeRow(e)'
      <3>0. exports[e] \in ExportRow
        BY DEF ExportsTyped
      <3>1. exports[e].items \in Seq(Nat) /\ \A m \in DOMAIN exports[e].items : exports[e].items[m] \in Offsets
        BY <3>0 DEF ExportsTyped, ExportRow
      <3>2. WholeRow(e)
        BY <2>2 DEF WholeInv
      <3> QED BY <1>1, <1>11, <3>1, <3>2 DEF WholeRow
    <2> QED BY <1>1, <2>1, <2>2 DEF WholeInv, OwnersApart
  <1> QED BY <1>5, <1>6, <1>9, <1>10, <1>12

LEMMA ExporterStays == ASSUME ExporterInv, UNCHANGED exporterVars PROVE ExporterInv'
  <1>1. /\ UNCHANGED <<topic, given, position, committed, buffer, task, exports, objects, stopping, wrong, requests>>
        /\ Offsets' = Offsets
    BY DEF exporterVars, Offsets
  <1>2. ExporterTyped'
    BY <1>1 DEF ExporterInv, ExporterTyped, TopicTyped, PositionTyped, BufferTyped, TasksTyped, ExportsTyped, FaultsTyped
  <1>3. BatchInv' /\ ReadInv'
    BY <1>1 DEF ExporterInv, BatchInv, ReadInv, Kept
  <1>4. WholeInv'
    BY <1>1 DEF ExporterInv, WholeInv, OwnersApart, Owns, WholeRow, Uploaded
  <1> QED BY <1>2, <1>3, <1>4 DEF ExporterInv

LEMMA ExporterSteps ==
    ASSUME X!ExporterConstants, ExporterInv, NEW jobs \in SUBSET Job, X!Next(jobs) PROVE ExporterInv'
  <1>1. ASSUME NEW t \in Coroutines, X!_export_batch(t) PROVE ExporterInv'
    BY <1>1, CreateStep, UploadStep, PathStep, FinishStep, FailStep DEF X!_export_batch
  <1>2. CASE X!store_single_item
    <2>1. {"elasticsearch", "postgres", "clickhouse"} = X!Sink
      BY DEF X!Sink
    <2> QED BY <1>2, <2>1, WriteStep DEF X!store_single_item
  <1>3. CASE X!Work
    BY <1>1, <1>2, <1>3, PollStep, AddStep, CancelStep, CloseStep DEF X!Work, Coroutines
  <1>4. CASE X!Timer
    BY <1>1, <1>4, FlushStep DEF X!Timer, Coroutines
  <1>5. CASE X!Routes(jobs)
    BY <1>5, TriggerStep, DeleteStep DEF X!Routes
  <1> QED BY <1>3, <1>4, <1>5, StartStep, CommitStep, StopStep, KillStep DEF X!Next

LEMMA ExporterStarts == ASSUME X!Init PROVE ExporterInv
  <1>1. /\ topic = <<>> /\ given = <<>> /\ position = 0 /\ committed = None /\ buffer = <<>>
        /\ task = [t \in Coroutines |-> X!Stopped] /\ exports = <<>> /\ objects = {}
        /\ stopping = FALSE /\ wrong = 0 /\ requests = 0
    BY CoroutinesAre DEF X!Init
  <1>2. \A t \in Coroutines : /\ task[t] \in CoroutineState /\ task[t].at = "down" /\ task[t].batch = <<>>
    BY <1>1, RestingStates
  <1>3. Offsets = {}
    BY <1>1 DEF Offsets
  <1>4. ExporterTyped
    <2>1. "down" \notin X!Exporting \cup X!Sink \cup {"add"}
      BY DEF X!Exporting, X!Sink
    <2> QED BY <1>1, <1>2, <2>1 DEF ExporterTyped, TopicTyped, PositionTyped, BufferTyped, TasksTyped, ExportsTyped,
           FaultsTyped, Coroutines
  <1>5. BatchInv /\ ReadInv
    BY <1>1, <1>2, <1>3 DEF BatchInv, ReadInv, Coroutines
  <1>6. WholeInv
    BY <1>1, <1>2 DEF WholeInv, OwnersApart, Rowed, Coroutines
  <1> QED BY <1>4, <1>5, <1>6 DEF ExporterInv

-----------------------------------------------------------------------------
(* Types of the deduplication. *)

Steps == {"idle", "raw", "done", "dropped", "lost"} \cup Crawling \cup Parsing
RowsTyped ==
    /\ fingerprints \in Seq(Row) /\ stale \in 0..Len(fingerprints)
    /\ parsed_items \in [Job -> [Url -> Item \cup {None}]]
PagesTyped ==
    /\ pc \in [Item -> Steps] /\ dup_of \in [Item -> Item \cup {None}]
    /\ known \in [Item -> Nat] /\ \A i \in Item : known[i] <= Len(fingerprints)
OneRowPerUrl == \A k, l \in DOMAIN fingerprints : fingerprints[k].url = fingerprints[l].url => k = l
CountsTyped == parsed \subseteq Item /\ faults \in 0..MaxFaults
DedupTyped == RowsTyped /\ PagesTyped /\ OneRowPerUrl /\ CountsTyped

LEMMA ItemIdTyped ==
    ASSUME RowsTyped, NEW i \in Item
    PROVE  item_id(i) \in Item /\ job[i] \in Job /\ url[i] \in Url
  BY DedupAssumption DEF RowsTyped, item_id

LEMMA CreateTyped ==
    ASSUME RowsTyped, NEW i \in Item
    PROVE  create_parsed_item(i) \in [Job -> [Url -> Item \cup {None}]]
  BY ItemIdTyped DEF RowsTyped, create_parsed_item

LEMMA StoreTyped ==
    ASSUME DedupTyped, NEW i \in Item, NEW id \in Item, NEW c \in Content,
           fingerprints' = store_fingerprint(i, id, c)
    PROVE  /\ fingerprints' \in Seq(Row) /\ Len(fingerprints') >= Len(fingerprints)
           /\ \A k \in DOMAIN fingerprints : k \in DOMAIN fingerprints' /\ fingerprints'[k] = fingerprints[k]
           /\ OneRowPerUrl'
           /\ \A k \in DOMAIN fingerprints' \ DOMAIN fingerprints :
                 /\ k = Len(fingerprints) + 1
                 /\ fingerprints'[k] = [item |-> id, url |-> url[i], content |-> c, duplicate_of |-> dup_of[i]]
  <1> USE DEF DedupTyped
  <1> DEFINE r == [item |-> id, url |-> url[i], content |-> c, duplicate_of |-> dup_of[i]]
  <1>1. r \in Row /\ r.url = url[i]
    BY DedupAssumption DEF Row, PagesTyped
  <1>2. fingerprints \in Seq(Row)
    BY DEF RowsTyped
  <1>3. CASE \E k \in DOMAIN fingerprints : fingerprints[k].url = url[i]
    <2>1. fingerprints' = fingerprints
      BY <1>3 DEF store_fingerprint
    <2> QED BY <1>2, <2>1 DEF OneRowPerUrl
  <1>4. CASE ~ \E k \in DOMAIN fingerprints : fingerprints[k].url = url[i]
    <2>1. fingerprints' = Append(fingerprints, r)
      BY <1>4 DEF store_fingerprint
    <2> HIDE DEF r
    <2>2. /\ fingerprints' \in Seq(Row) /\ Len(fingerprints') = Len(fingerprints) + 1
          /\ DOMAIN fingerprints' = DOMAIN fingerprints \cup {Len(fingerprints) + 1}
          /\ fingerprints'[Len(fingerprints) + 1] = r
          /\ \A k \in DOMAIN fingerprints : fingerprints'[k] = fingerprints[k]
          /\ Len(fingerprints) \in Nat
      BY <1>1, <1>2, <2>1
    <2>3. OneRowPerUrl'
      BY <1>1, <1>4, <2>2 DEF OneRowPerUrl
    <2> QED BY <2>2, <2>3 DEF r
  <1> QED BY <1>3, <1>4

\* The table of fingerprints is only added to, and rows only grow older.
Grows ==
    /\ Len(fingerprints') >= Len(fingerprints) /\ stale' >= stale
    /\ \A k \in DOMAIN fingerprints : k \in DOMAIN fingerprints' /\ fingerprints'[k] = fingerprints[k]

LEMMA SameRowsGrow ==
    ASSUME DedupTyped, fingerprints' = fingerprints, stale' = stale
    PROVE  Grows /\ OneRowPerUrl' /\ (parsed_items' = parsed_items => RowsTyped')
  <1>1. Len(fingerprints) \in Nat /\ stale \in Nat
    BY DEF DedupTyped, RowsTyped
  <1> QED BY <1>1 DEF Grows, OneRowPerUrl, DedupTyped, RowsTyped

\* The step of one page that leaves the tables alone.
LEMMA PageStep ==
    ASSUME DedupTyped, NEW i \in Item, NEW to \in Steps, pc' = [pc EXCEPT ![i] = to],
           UNCHANGED <<tables, known>>, dup_of' \in [Item -> Item \cup {None}], CountsTyped'
    PROVE  DedupTyped' /\ Grows
  <1>1. UNCHANGED <<fingerprints, stale, parsed_items>>
    BY DEF tables
  <1>2. PagesTyped'
    BY <1>1 DEF DedupTyped, PagesTyped
  <1> QED BY <1>1, <1>2, SameRowsGrow DEF DedupTyped

LEMMA FoundTyped ==
    ASSUME DedupTyped, NEW i \in Item, NEW id \in Item \cup {None}, Found(i, id)
    PROVE  dup_of' \in [Item -> Item \cup {None}]
  BY DEF DedupTyped, PagesTyped, Found, Other

LEMMA NewestIs ==
    ASSUME DedupTyped, NEW rows \in SUBSET DOMAIN fingerprints, rows # {}
    PROVE  Newest(rows) \in rows /\ \A l \in rows : l <= Newest(rows)
  <1>1. PICK n \in Nat : DOMAIN fingerprints = 1..n
    BY DEF DedupTyped, RowsTyped
  <1> DEFINE S == {n - k : k \in rows}
  <1>2. S \subseteq Nat /\ S # {}
    BY <1>1
  <1>3. PICK m \in S : \A j \in S : m <= j
    <2> HIDE DEF S
    <2> QED BY <1>2, FirstOf
  <1>4. PICK k \in rows : m = n - k
    BY <1>3
  <1>5. \A l \in rows : l <= k
    <2> SUFFICES ASSUME NEW l \in rows PROVE l <= k
      OBVIOUS
    <2>1. n - l \in S
      OBVIOUS
    <2>2. m <= n - l
      BY <1>3, <2>1
    <2> QED BY <1>1, <1>4, <2>2
  <1>6. \E x \in rows : \A l \in rows : l <= x
    BY <1>5
  <1> QED BY <1>6 DEF Newest

LEMMA ClosestIs ==
    ASSUME NEW rows, rows # {}, NEW d, \A k \in rows : d[k] \in Nat
    PROVE  {k \in rows : \A l \in rows : d[k] <= d[l]} # {}
  <1> DEFINE D == {d[k] : k \in rows}
  <1>1. D \subseteq Nat /\ D # {}
    OBVIOUS
  <1>2. PICK m \in D : \A x \in D : m <= x
    <2> HIDE DEF D
    <2> QED BY <1>1, FirstOf
  <1>3. PICK k \in rows : d[k] = m
    BY <1>2
  <1>4. \A l \in rows : d[k] <= d[l]
    BY <1>2, <1>3
  <1> QED BY <1>4

\* Whatever is found is the item of a row.
LEMMA ChecksTyped ==
    ASSUME DedupTyped, NEW c \in Content
    PROVE  check_content_duplicate(c) \in Item \cup {None} /\ check_near_duplicate(c) \in Item \cup {None}
  <1>1. \A k \in DOMAIN fingerprints : fingerprints[k] \in Row
    BY DEF DedupTyped, RowsTyped
  <1>2. \A k \in DOMAIN fingerprints : fingerprints[k].item \in Item /\ fingerprints[k].content \in Content
    BY <1>1 DEF Row
  <1>3. \A rows \in SUBSET Originals : rows # {} => fingerprints[Newest(rows)].item \in Item
    <2> SUFFICES ASSUME NEW rows \in SUBSET Originals, rows # {} PROVE fingerprints[Newest(rows)].item \in Item
      OBVIOUS
    <2>1. rows \in SUBSET DOMAIN fingerprints
      BY DEF Originals
    <2>2. Newest(rows) \in DOMAIN fingerprints
      BY <2>1, NewestIs
    <2> QED BY <1>2, <2>2
  <1>4. check_content_duplicate(c) \in Item \cup {None}
    <2> DEFINE same == {k \in Originals : fingerprints[k].content = c}
    <2>1. same # {} => fingerprints[Newest(same)].item \in Item
      BY <1>3
    <2> QED BY <2>1 DEF check_content_duplicate
  <1>5. check_near_duplicate(c) \in Item \cup {None}
    <2> DEFINE d(k) == Distance[c][fingerprints[k].content]
               close == {k \in Originals : Fresh(k) /\ d(k) <= DEDUP_SIMHASH_THRESHOLD}
               closest == {k \in close : \A l \in close : d(k) <= d(l)}
    <2>1. \A k \in close : d(k) \in Nat
      BY <1>2, DedupAssumption DEF Originals
    <2>2. close # {} => closest # {}
      <3> DEFINE f == [k \in close |-> d(k)]
      <3>1. \A k \in close : f[k] = d(k)
        OBVIOUS
      <3>2. closest = {k \in close : \A l \in close : f[k] <= f[l]}
        BY <3>1
      <3> HIDE DEF f, closest
      <3>3. \A k \in close : f[k] \in Nat
        BY <2>1, <3>1
      <3> HIDE DEF close
      <3> QED BY <3>2, <3>3, ClosestIs
    <2>3. closest # {} => fingerprints[Newest(closest)].item \in Item
      BY <1>3
    <2> QED BY <2>2, <2>3 DEF check_near_duplicate
  <1> QED BY <1>4, <1>5

HasItem(i) == \E j \in Job, u \in Url : parsed_items[j][u] = i

\* What the step of page i does to the other pages and under which names it writes.
PageOf(i) ==
    /\ \A x \in Item : x # i => pc'[x] = pc[x] /\ dup_of'[x] = dup_of[x] /\ known'[x] = known[x]
    /\ \A k \in DOMAIN fingerprints' \ DOMAIN fingerprints : fingerprints'[k].item = i \/ HasItem(fingerprints'[k].item)
    /\ \A x \in Item : x # i /\ HasItem(x)' => HasItem(x)

LEMMA QuietStep ==
    ASSUME DedupTyped, NEW i \in Item, NEW to \in Steps, pc' = [pc EXCEPT ![i] = to],
           UNCHANGED <<tables, known>>, CountsTyped',
           dup_of' = dup_of \/ (\E id \in Item \cup {None} : dup_of' = [dup_of EXCEPT ![i] = id])
    PROVE  DedupTyped' /\ Grows /\ PageOf(i)
  <1>1. dup_of' \in [Item -> Item \cup {None}] /\ \A x \in Item : x # i => pc'[x] = pc[x] /\ dup_of'[x] = dup_of[x]
    BY DEF DedupTyped, PagesTyped
  <1>2. DedupTyped' /\ Grows
    BY <1>1, PageStep
  <1> QED BY <1>1, <1>2 DEF PageOf, HasItem, tables

LEMMA CreateRowStep ==
    ASSUME DedupTyped, NEW i \in Item, NEW to \in Steps, pc' = [pc EXCEPT ![i] = to],
           parsed_items' = create_parsed_item(i), UNCHANGED <<fingerprints, stale, dup_of, known, parsed, faults>>
    PROVE  DedupTyped' /\ Grows /\ PageOf(i)
  <1>1. DedupTyped'
    <2>1. RowsTyped'
      BY CreateTyped DEF DedupTyped, RowsTyped
    <2>2. PagesTyped' /\ OneRowPerUrl' /\ CountsTyped'
      BY DEF DedupTyped, PagesTyped, OneRowPerUrl, CountsTyped
    <2> QED BY <2>1, <2>2 DEF DedupTyped
  <1>2. \A j \in Job, u \in Url : parsed_items'[j][u] = parsed_items[j][u] \/ parsed_items'[j][u] = i
    BY DEF DedupTyped, RowsTyped, create_parsed_item
  <1> QED BY <1>1, <1>2, SameRowsGrow DEF PageOf, HasItem, DedupTyped, PagesTyped

LEMMA StoreRowStep ==
    ASSUME DedupTyped, NEW i \in Item, NEW to \in Steps, pc' = [pc EXCEPT ![i] = to],
           NEW id \in {i, item_id(i)}, NEW c \in Content, fingerprints' = store_fingerprint(i, id, c),
           UNCHANGED <<stale, parsed_items, dup_of, known, parsed, faults>>
    PROVE  DedupTyped' /\ Grows /\ PageOf(i)
  <1>1. id \in Item /\ (id = i \/ HasItem(id))
    BY ItemIdTyped DEF DedupTyped, RowsTyped, HasItem, item_id
  <1>2. /\ fingerprints' \in Seq(Row) /\ Len(fingerprints') >= Len(fingerprints)
        /\ \A k \in DOMAIN fingerprints : k \in DOMAIN fingerprints' /\ fingerprints'[k] = fingerprints[k]
        /\ OneRowPerUrl'
        /\ \A k \in DOMAIN fingerprints' \ DOMAIN fingerprints : fingerprints'[k].item = id
    BY <1>1, StoreTyped
  <1>3. Len(fingerprints) \in Nat /\ Len(fingerprints') \in Nat /\ stale \in Nat
    BY <1>2 DEF DedupTyped, RowsTyped
  <1>4. RowsTyped' /\ PagesTyped' /\ CountsTyped'
    BY <1>2, <1>3 DEF DedupTyped, RowsTyped, PagesTyped, CountsTyped
  <1> QED BY <1>1, <1>2, <1>3, <1>4 DEF DedupTyped, Grows, PageOf, HasItem, PagesTyped

LEMMA FaultTyped == ASSUME CountsTyped, NEW kind, Fault(kind) PROVE faults' \in 0..MaxFaults
  BY DedupAssumption DEF CountsTyped, Fault

LEMMA CrawlSteps ==
    ASSUME DedupTyped, NEW i \in Item, Fetch(i) \/ Crawl(i)
    PROVE  DedupTyped' /\ Grows /\ PageOf(i)
  <1>1. CASE Fetch(i)
    <2>1. UNCHANGED <<fingerprints, stale, parsed_items, dup_of, parsed, faults>>
      BY <1>1 DEF Fetch, tables
    <2>2. PagesTyped' /\ CountsTyped'
      <3>1. Len(fingerprints) \in Nat
        BY DEF DedupTyped, RowsTyped
      <3>2. {"crawl_create"} \cup Extracted \subseteq Steps
        BY DEF Steps, Crawling, Extracted
      <3> QED BY <1>1, <2>1, <3>1, <3>2 DEF Fetch, Step, DedupTyped, PagesTyped, CountsTyped
    <2>3. \A x \in Item : x # i => pc'[x] = pc[x] /\ known'[x] = known[x]
      BY <1>1 DEF Fetch, Step, DedupTyped, PagesTyped
    <2> QED BY <2>1, <2>2, <2>3, SameRowsGrow DEF PageOf, HasItem, DedupTyped
  <1>2. CASE CreateDeep(i)
    BY <1>2, CreateRowStep DEF CreateDeep, Extracted, Step, Steps, Crawling
  <1>3. crawled[i] \in Content
    BY DedupAssumption
  <1>4. CASE CrawlExact(i)
    <2>1. "crawl_near" \in Steps /\ CountsTyped' /\ UNCHANGED <<tables, known>>
      BY <1>4 DEF CrawlExact, Steps, Crawling, DedupTyped, CountsTyped
    <2>2. \E id \in Item \cup {None} : dup_of' = [dup_of EXCEPT ![i] = id]
      BY <1>3, <1>4, ChecksTyped DEF CrawlExact, Found, Other
    <2> QED BY <1>4, <2>1, <2>2, QuietStep DEF CrawlExact, Step
  <1>5. CASE CrawlNear(i)
    <2>1. "crawl_store" \in Steps /\ CountsTyped' /\ UNCHANGED <<tables, known>>
      BY <1>5 DEF CrawlNear, Steps, Crawling, DedupTyped, CountsTyped
    <2>2. dup_of' = dup_of \/ (\E id \in Item \cup {None} : dup_of' = [dup_of EXCEPT ![i] = id])
      BY <1>3, <1>5, ChecksTyped DEF CrawlNear, Found, Other
    <2> QED BY <1>5, <2>1, <2>2, QuietStep DEF CrawlNear, Step
  <1>6. CASE CrawlStore(i)
    <2>1. "crawl_publish" \in Steps
      BY DEF Steps, Crawling
    <2> QED BY <1>3, <1>6, <2>1, StoreRowStep DEF CrawlStore, Step
  <1>7. CASE CrawlPublish(i)
    <2>1. {"done", "raw"} \subseteq Steps /\ CountsTyped' /\ UNCHANGED <<tables, known>> /\ dup_of' = dup_of
      BY <1>7 DEF CrawlPublish, Steps, DedupTyped, CountsTyped
    <2> QED BY <1>7, <2>1, QuietStep DEF CrawlPublish, Step
  <1> QED BY <1>1, <1>2, <1>4, <1>5, <1>6, <1>7 DEF Crawl

LEMMA ParseSteps ==
    ASSUME DedupTyped, NEW i \in Item, Parse(i)
    PROVE  DedupTyped' /\ Grows /\ PageOf(i)
  <1>1. extracted[i] \in Content
    BY DedupAssumption
  <1>2. CASE Receive(i)
    <2>1. "exact" \in Steps /\ CountsTyped' /\ UNCHANGED <<tables, known>>
      BY <1>2 DEF Receive, Steps, Parsing, DedupTyped, CountsTyped
    <2> QED BY <1>2, <2>1, QuietStep DEF Receive, Step
  <1>3. CASE ParseExact(i)
    <2>1. "near" \in Steps /\ CountsTyped' /\ UNCHANGED <<tables, known>>
      BY <1>3 DEF ParseExact, Steps, Parsing, DedupTyped, CountsTyped
    <2>2. \E id \in Item \cup {None} : dup_of' = [dup_of EXCEPT ![i] = id]
      BY <1>1, <1>3, ChecksTyped DEF ParseExact, Found, Other
    <2> QED BY <1>3, <2>1, <2>2, QuietStep DEF ParseExact, Step
  <1>4. CASE ParseNear(i)
    <2>1. {"create", "dropped"} \subseteq Steps /\ CountsTyped' /\ UNCHANGED <<tables, known>>
      BY <1>4 DEF ParseNear, Steps, Parsing, DedupTyped, CountsTyped
    <2>2. dup_of' = dup_of \/ (\E id \in Item \cup {None} : dup_of' = [dup_of EXCEPT ![i] = id])
      BY <1>1, <1>4, ChecksTyped DEF ParseNear, Found, Other
    <2> QED BY <1>4, <2>1, <2>2, QuietStep DEF ParseNear, Step
  <1>5. CASE ParseCreate(i)
    BY <1>5, CreateRowStep DEF ParseCreate, Step, Steps, Parsing
  <1>6. CASE ParseStore(i)
    <2>1. "publish" \in Steps
      BY DEF Steps, Parsing
    <2>2. CASE fingerprints' = store_fingerprint(i, item_id(i), extracted[i]) /\ UNCHANGED faults
      BY <1>1, <1>6, <2>1, <2>2, StoreRowStep DEF ParseStore, Step
    <2>3. CASE Fault("fingerprint") /\ UNCHANGED fingerprints
      <3>1. CountsTyped' /\ UNCHANGED <<tables, known>> /\ dup_of' = dup_of
        BY <1>6, <2>3, FaultTyped DEF ParseStore, DedupTyped, CountsTyped, tables
      <3> QED BY <1>6, <2>1, <3>1, QuietStep DEF ParseStore, Step
    <2> QED BY <1>6, <2>2, <2>3 DEF ParseStore
  <1>7. CASE ParsePublish(i)
    <2>1. "done" \in Steps /\ CountsTyped' /\ UNCHANGED <<tables, known>> /\ dup_of' = dup_of
      BY <1>7 DEF ParsePublish, Steps, DedupTyped, CountsTyped
    <2> QED BY <1>7, <2>1, QuietStep DEF ParsePublish, Step
  <1> QED BY <1>2, <1>3, <1>4, <1>5, <1>6, <1>7 DEF Parse

LEMMA FailSteps ==
    ASSUME DedupTyped, NEW i \in Item, FingerprintFails(i) \/ CrawlFails(i) \/ ParseFails(i)
    PROVE  DedupTyped' /\ Grows /\ PageOf(i)
  <1>1. PICK to \in {"crawl_publish", "lost", "raw"} : pc' = [pc EXCEPT ![i] = to]
    BY DEF FingerprintFails, CrawlFails, ParseFails
  <1>2. CountsTyped' /\ UNCHANGED <<tables, known>> /\ dup_of' = dup_of
    BY FaultTyped DEF FingerprintFails, CrawlFails, ParseFails, DedupTyped, CountsTyped
  <1>3. to \in Steps
    BY DEF Steps, Crawling
  <1> QED BY <1>1, <1>2, <1>3, QuietStep

LEMMA AgeStep ==
    ASSUME DedupTyped, RowAges
    PROVE  DedupTyped' /\ Grows /\ UNCHANGED <<fingerprints, parsed_items, pc, dup_of, known>>
  <1>1. UNCHANGED <<fingerprints, parsed_items, pc, dup_of, known, parsed, faults>> /\ stale' = stale + 1
        /\ stale < Len(fingerprints)
    BY DEF RowAges
  <1>2. RowsTyped' /\ PagesTyped' /\ OneRowPerUrl' /\ CountsTyped'
    BY <1>1 DEF DedupTyped, RowsTyped, PagesTyped, OneRowPerUrl, CountsTyped
  <1> QED BY <1>1, <1>2 DEF DedupTyped, Grows, RowsTyped

-----------------------------------------------------------------------------
(* Copies of a page. *)

\* No page that had a fresh fingerprint with this text when the crawl of i began is another one's.
NoCopy(i, c) ==
    \A k \in DOMAIN fingerprints :
        k <= known[i] /\ k > stale /\ fingerprints[k].duplicate_of = None /\ fingerprints[k].content = c
          => fingerprints[k].item = i
\* Item i is past the check of the parser, or a row of it is.
Passed(i) ==
    \/ pc[i] \in {"create", "store"} \/ (pc[i] = "near" /\ dup_of[i] = None) \/ HasItem(i)
    \/ \E k \in DOMAIN fingerprints : /\ fingerprints[k].duplicate_of = None /\ fingerprints[k].item = i
                                      /\ fingerprints[k].content = extracted[i]
Unmatched(i) == pc[i] \in {"crawl_near", "crawl_store"} /\ dup_of[i] = None
Early == {"idle", "crawl_exact", "crawl_near", "crawl_store"}
Unseen(i) == ~HasItem(i) /\ \A k \in DOMAIN fingerprints : fingerprints[k].item # i
CopyOf(i) ==
    /\ Passed(i) => NoCopy(i, extracted[i])
    /\ Unmatched(i) => NoCopy(i, crawled[i])
    /\ pc[i] \in Early => Unseen(i)
    /\ pc[i] # "crawl_create"
CopyInv == \A i \in Item \ Deep : CopyOf(i)

LEMMA NoCopyStays ==
    ASSUME DedupTyped, DedupTyped', Grows, NEW i \in Item, NEW c, NoCopy(i, c), known'[i] = known[i]
    PROVE  NoCopy(i, c)'
  <1> SUFFICES ASSUME NEW k \in DOMAIN fingerprints', k <= known[i], k > stale',
                      fingerprints'[k].duplicate_of = None, fingerprints'[k].content = c
               PROVE  fingerprints'[k].item = i
    BY DEF NoCopy
  <1>1. /\ Len(fingerprints) \in Nat /\ known[i] \in Nat /\ known[i] <= Len(fingerprints) /\ k \in Nat /\ k >= 1
        /\ stale \in Nat /\ stale' \in Nat /\ DOMAIN fingerprints = 1..Len(fingerprints)
    BY DEF DedupTyped, RowsTyped, PagesTyped
  <1>2. k \in DOMAIN fingerprints /\ k > stale
    BY <1>1 DEF Grows
  <1> QED BY <1>2 DEF Grows, NoCopy

\* The exact tier finds nothing, or the page itself, only when there is no copy.
LEMMA NothingFound ==
    ASSUME DedupTyped, NEW i \in Item, NEW c, check_content_duplicate(c) = None
    PROVE  NoCopy(i, c)
  <1> DEFINE same == {k \in Originals : fingerprints[k].content = c}
  <1> SUFFICES ASSUME NEW k \in same PROVE ~(k > stale)
    BY DEF NoCopy, Originals
  <1>1. same \in SUBSET DOMAIN fingerprints /\ same # {}
    BY DEF Originals
  <1> HIDE DEF same
  <1>2. Newest(same) \in same /\ k <= Newest(same)
    BY <1>1, NewestIs
  <1>3. fingerprints[Newest(same)] \in Row
    BY <1>1, <1>2 DEF DedupTyped, RowsTyped
  <1>4. fingerprints[Newest(same)].item # None
    BY <1>3, DedupAssumption DEF Row
  <1>5. ~Fresh(Newest(same))
    BY <1>1, <1>4 DEF check_content_duplicate, same
  <1>6. k \in Nat /\ Newest(same) \in Nat /\ stale \in Nat
    BY <1>1, <1>2 DEF DedupTyped, RowsTyped
  <1> QED BY <1>2, <1>5, <1>6 DEF Fresh

LEMMA ItselfFound ==
    ASSUME DedupTyped, NEW i \in Item, NEW c, check_content_duplicate(c) = i
    PROVE  \E k \in DOMAIN fingerprints : /\ fingerprints[k].duplicate_of = None /\ fingerprints[k].item = i
                                          /\ fingerprints[k].content = c
  <1> DEFINE same == {k \in Originals : fingerprints[k].content = c}
  <1>1. same # {} /\ fingerprints[Newest(same)].item = i
    BY DedupAssumption DEF check_content_duplicate
  <1>2. same \in SUBSET DOMAIN fingerprints
    BY DEF Originals
  <1>3. Newest(same) \in same
    <2> HIDE DEF same
    <2> QED BY <1>1, <1>2, NewestIs
  <1> QED BY <1>1, <1>2, <1>3 DEF Originals

\* A step that takes page i itself no further than it was.
LEMMA CopyKept ==
    ASSUME DedupTyped, DedupTyped', Grows, NEW i \in Item, CopyOf(i), known'[i] = known[i],
           Passed(i)' => NoCopy(i, extracted[i]),
           Unmatched(i)' => NoCopy(i, crawled[i]),
           pc'[i] \in Early => Unseen(i)',
           pc'[i] # "crawl_create"
    PROVE  CopyOf(i)'
  BY NoCopyStays DEF CopyOf

LEMMA OtherCopies ==
    ASSUME DedupTyped, DedupTyped', Grows, NEW x \in Item, PageOf(x), NEW i \in Item, i # x, CopyOf(i)
    PROVE  CopyOf(i)'
  <1>1. pc'[i] = pc[i] /\ dup_of'[i] = dup_of[i] /\ known'[i] = known[i] /\ (HasItem(i)' => HasItem(i))
    BY DEF PageOf
  <1>2. ASSUME NEW k \in DOMAIN fingerprints', fingerprints'[k].item = i
        PROVE  HasItem(i) \/ (k \in DOMAIN fingerprints /\ fingerprints'[k] = fingerprints[k])
    BY <1>2 DEF PageOf, Grows
  <1>3. Passed(i)' => Passed(i)
    BY <1>1, <1>2 DEF Passed
  <1>4. Unmatched(i)' => Unmatched(i)
    BY <1>1 DEF Unmatched
  <1>5. Unseen(i) => Unseen(i)'
    BY <1>1, <1>2 DEF Unseen
  <1> QED BY <1>1, <1>3, <1>4, <1>5, CopyKept DEF CopyOf

\* A step that writes nothing under i, and leaves what the checks of i found.
LEMMA PastCopies ==
    ASSUME DedupTyped, DedupTyped', Grows, NEW i \in Item, CopyOf(i),
           UNCHANGED <<fingerprints, parsed_items, known>>,
           pc'[i] \notin {"create", "store", "near", "crawl_create"} \cup Early
    PROVE  CopyOf(i)'
  <1>1. Passed(i)' => Passed(i)
    BY DEF Passed, HasItem
  <1>2. ~Unmatched(i)'
    BY DEF Unmatched, Early
  <1> QED BY <1>1, <1>2, CopyKept DEF CopyOf

LEMMA UnseenIsNotPassed ==
    ASSUME NEW i, Unseen(i), Passed(i)
    PROVE  pc[i] \in {"create", "store"} \/ (pc[i] = "near" /\ dup_of[i] = None)
  BY DEF Unseen, Passed

LEMMA OwnCrawl ==
    ASSUME DedupTyped, DedupTyped', Grows, NEW i \in Item \ Deep, CopyOf(i), Fetch(i) \/ Crawl(i)
    PROVE  CopyOf(i)'
  <1>1. DOMAIN pc = Item /\ DOMAIN dup_of = Item
    BY DEF DedupTyped, PagesTyped
  <1>2. CASE Fetch(i)
    <2>1. pc[i] = "idle" /\ pc'[i] \in Extracted /\ UNCHANGED <<fingerprints, parsed_items>>
      BY <1>1, <1>2 DEF Fetch, Step, tables
    <2>2. Unseen(i)'
      BY <2>1 DEF CopyOf, Early, Unseen, HasItem
    <2>3. ~Passed(i)' /\ ~Unmatched(i)'
      BY <2>1, <2>2 DEF Unseen, Passed, Unmatched, Extracted
    <2> QED BY <2>1, <2>2, <2>3 DEF CopyOf, Extracted
  <1>3. CASE CreateDeep(i)
    BY <1>3 DEF CreateDeep, Step, CopyOf
  <1>4. CASE CrawlExact(i)
    <2>1. /\ pc[i] = "crawl_exact" /\ pc'[i] = "crawl_near" /\ UNCHANGED <<fingerprints, stale, parsed_items, known>>
          /\ dup_of'[i] = Other(check_content_duplicate(crawled[i]), i)
      BY <1>1, <1>4 DEF CrawlExact, Step, Found, tables
    <2>2. Unseen(i) /\ Unseen(i)'
      BY <2>1 DEF CopyOf, Early, Unseen, HasItem
    <2>3. ~Passed(i)'
      BY <2>1, <2>2 DEF Unseen, Passed
    <2>4. check_content_duplicate(crawled[i]) # i
      BY <2>2, ItselfFound DEF Unseen
    <2>5. dup_of'[i] = None => NoCopy(i, crawled[i])
      BY <2>1, <2>4, NothingFound DEF Other
    <2> QED BY <2>1, <2>2, <2>3, <2>5, NoCopyStays DEF CopyOf, Unmatched
  <1>5. CASE CrawlNear(i)
    <2>1. /\ pc[i] = "crawl_near" /\ pc'[i] = "crawl_store" /\ UNCHANGED <<fingerprints, stale, parsed_items, known>>
          /\ dup_of[i] # None => dup_of' = dup_of
      BY <1>1, <1>5 DEF CrawlNear, Step, tables
    <2>2. Unseen(i)'
      BY <2>1 DEF CopyOf, Early, Unseen, HasItem
    <2>3. ~Passed(i)'
      BY <2>1, <2>2 DEF Unseen, Passed
    <2>4. Unmatched(i)' => NoCopy(i, crawled[i])
      BY <2>1 DEF Unmatched, CopyOf
    <2> QED BY <2>1, <2>2, <2>3, <2>4, NoCopyStays DEF CopyOf
  <1>6. CASE CrawlStore(i)
    <2>1. /\ pc[i] = "crawl_store" /\ pc'[i] = "crawl_publish" /\ UNCHANGED <<stale, parsed_items, dup_of, known>>
          /\ fingerprints' = store_fingerprint(i, i, crawled[i])
      BY <1>1, <1>6 DEF CrawlStore, Step
    <2>2. Unseen(i) /\ (dup_of[i] = None => NoCopy(i, crawled[i]))
      BY <2>1 DEF CopyOf, Early, Unmatched
    <2>3. ~HasItem(i)'
      BY <2>1, <2>2 DEF Unseen, HasItem
    <2>4. ASSUME NEW k \in DOMAIN fingerprints', fingerprints'[k].item = i
          PROVE  fingerprints'[k].duplicate_of = dup_of[i] /\ fingerprints'[k].content = crawled[i]
      <3>1. k \notin DOMAIN fingerprints
        BY <2>2, <2>4 DEF Unseen, Grows
      <3>2. crawled[i] \in Content /\ i \in Item
        BY DedupAssumption
      <3>3. fingerprints'[k] = [item |-> i, url |-> url[i], content |-> crawled[i], duplicate_of |-> dup_of[i]]
        BY <2>1, <2>4, <3>1, <3>2, StoreTyped
      <3> QED BY <3>3
    <2>5. Passed(i)' => NoCopy(i, extracted[i])
      BY <2>1, <2>2, <2>3, <2>4 DEF Passed
    <2>6. ~Unmatched(i)' /\ pc'[i] \notin Early
      BY <2>1 DEF Unmatched, Early
    <2> QED BY <2>1, <2>5, <2>6, CopyKept
  <1>7. CASE CrawlPublish(i)
    BY <1>1, <1>7, PastCopies DEF CrawlPublish, Step, tables, Early
  <1> QED BY <1>2, <1>3, <1>4, <1>5, <1>6, <1>7 DEF Crawl

LEMMA OwnParse ==
    ASSUME DedupTyped, DedupTyped', Grows, NEW i \in Item \ Deep, CopyOf(i), Parse(i)
    PROVE  CopyOf(i)'
  <1>1. DOMAIN pc = Item /\ DOMAIN dup_of = Item
    BY DEF DedupTyped, PagesTyped
  <1>2. CASE Receive(i)
    BY <1>1, <1>2, PastCopies DEF Receive, Step, tables, Early
  <1>3. CASE ParseExact(i)
    <2>1. /\ pc[i] = "exact" /\ pc'[i] = "near" /\ UNCHANGED <<fingerprints, stale, parsed_items, known>>
          /\ dup_of'[i] = Other(check_content_duplicate(extracted[i]), i)
      BY <1>1, <1>3 DEF ParseExact, Step, Found, tables
    <2>2. CASE check_content_duplicate(extracted[i]) = i
      <3>1. Passed(i)
        BY <2>2, ItselfFound DEF Passed
      <3> QED BY <2>1, <3>1, CopyKept DEF CopyOf, Unmatched, Early
    <2>3. CASE check_content_duplicate(extracted[i]) = None
      <3>1. NoCopy(i, extracted[i])
        BY <2>3, NothingFound
      <3> QED BY <2>1, <3>1, CopyKept DEF Unmatched, Early
    <2>4. CASE check_content_duplicate(extracted[i]) \notin {i, None}
      <3>1. Passed(i)' => Passed(i)
        BY <2>1, <2>4 DEF Passed, HasItem, Other
      <3> QED BY <2>1, <3>1, CopyKept DEF CopyOf, Unmatched, Early
    <2> QED BY <2>2, <2>3, <2>4
  <1>4. CASE ParseNear(i)
    <2>1. /\ pc[i] = "near" /\ pc'[i] \in {"create", "dropped"} /\ UNCHANGED <<fingerprints, stale, parsed_items, known>>
          /\ pc'[i] = "create" => dup_of'[i] = None
          /\ dup_of[i] # None => dup_of' = dup_of
      BY <1>1, <1>4 DEF ParseNear, Step, tables
    <2>2. Passed(i)' => Passed(i)
      BY <2>1 DEF Passed, HasItem
    <2> QED BY <2>1, <2>2, CopyKept DEF CopyOf, Unmatched, Early
  <1>5. CASE ParseCreate(i)
    <2>1. pc[i] = "create" /\ pc'[i] = "store" /\ known' = known
      BY <1>1, <1>5 DEF ParseCreate, Step
    <2> QED BY <2>1, CopyKept DEF CopyOf, Passed, Unmatched, Early
  <1>6. CASE ParseStore(i)
    <2>1. pc[i] = "store" /\ pc'[i] = "publish" /\ known' = known
      BY <1>1, <1>6 DEF ParseStore, Step
    <2> QED BY <2>1, CopyKept DEF CopyOf, Passed, Unmatched, Early
  <1>7. CASE ParsePublish(i)
    BY <1>1, <1>7, PastCopies DEF ParsePublish, Step, tables, Early
  <1> QED BY <1>2, <1>3, <1>4, <1>5, <1>6, <1>7 DEF Parse

LEMMA OwnFail ==
    ASSUME DedupTyped, DedupTyped', Grows, NEW i \in Item \ Deep, CopyOf(i),
           FingerprintFails(i) \/ CrawlFails(i) \/ ParseFails(i)
    PROVE  CopyOf(i)'
  <1>1. DOMAIN pc = Item
    BY DEF DedupTyped, PagesTyped
  <1>2. pc'[i] \in {"crawl_publish", "lost", "raw"} /\ UNCHANGED <<fingerprints, parsed_items, known>>
    BY <1>1 DEF FingerprintFails, CrawlFails, ParseFails, tables
  <1> QED BY <1>2, PastCopies DEF Early

-----------------------------------------------------------------------------
(* The theorems. *)

DedupInv == DedupTyped /\ CopyInv
PipelineInv == DedupInv /\ ExporterInv

LEMMA DedupStarts == ASSUME Init PROVE DedupInv
  <1>1. DedupTyped
    BY DedupAssumption DEF Init, DedupTyped, RowsTyped, PagesTyped, OneRowPerUrl, CountsTyped, Steps
  <1>2. \A i \in Item : ~HasItem(i) /\ pc[i] = "idle"
    BY DedupAssumption DEF Init, HasItem
  <1>3. fingerprints = <<>>
    BY DEF Init
  <1>4. \A i \in Item : Unseen(i)
    BY <1>2, <1>3 DEF Unseen
  <1>5. CopyInv
    BY <1>2, <1>4 DEF CopyInv, CopyOf, Passed, Unseen, Unmatched
  <1> QED BY <1>1, <1>5 DEF DedupInv

LEMMA DedupSteps == ASSUME DedupInv, Next PROVE DedupInv'
  <1> USE DEF DedupInv
  <1>1. ASSUME NEW x \in Item, Fetch(x) \/ Crawl(x) \/ Parse(x) \/ FingerprintFails(x) \/ CrawlFails(x) \/ ParseFails(x)
        PROVE  DedupInv'
    <2>1. DedupTyped' /\ Grows /\ PageOf(x)
      BY <1>1, CrawlSteps, ParseSteps, FailSteps
    <2>2. ASSUME NEW i \in Item \ Deep PROVE CopyOf(i)'
      <3>1. CopyOf(i)
        BY DEF CopyInv
      <3>2. CASE i # x
        BY <2>1, <3>1, <3>2, OtherCopies
      <3>3. CASE i = x
        BY <1>1, <2>1, <3>1, <3>3, OwnCrawl, OwnParse, OwnFail
      <3> QED BY <3>2, <3>3
    <2> QED BY <2>1, <2>2 DEF CopyInv
  <1>2. CASE RowAges
    <2>1. DedupTyped' /\ Grows /\ UNCHANGED <<fingerprints, parsed_items, pc, dup_of, known>>
      BY <1>2, AgeStep
    <2>2. ASSUME NEW i \in Item \ Deep PROVE CopyOf(i)'
      <3>1. CopyOf(i)
        BY DEF CopyInv
      <3>2. (Passed(i)' <=> Passed(i)) /\ (Unmatched(i)' <=> Unmatched(i)) /\ (Unseen(i)' <=> Unseen(i))
        BY <2>1 DEF Passed, Unmatched, Unseen, HasItem
      <3> QED BY <2>1, <3>1, <3>2, CopyKept DEF CopyOf
    <2> QED BY <2>1, <2>2 DEF CopyInv
  <1> QED BY <1>1, <1>2 DEF Next

LEMMA DedupStays == ASSUME DedupInv, UNCHANGED vars PROVE DedupInv'
  <1>1. UNCHANGED <<fingerprints, stale, parsed_items, pc, dup_of, known, parsed, faults>>
    BY DEF vars
  <1>2. DedupTyped'
    BY <1>1 DEF DedupInv, DedupTyped, RowsTyped, PagesTyped, OneRowPerUrl, CountsTyped
  <1>3. CopyInv'
    BY <1>1 DEF DedupInv, CopyInv, CopyOf, Passed, Unmatched, Unseen, HasItem, NoCopy
  <1> QED BY <1>2, <1>3 DEF DedupInv

LEMMA SentStep == ASSUME X!ExporterConstants, DedupInv, ExporterInv, Sent PROVE ExporterInv'
  <1>1. CASE \E i \in Item : Publishes(i)
    <2>1. PICK i \in Item : X!Publish(item_id(i))
      BY <1>1 DEF Sent
    <2>2. item_id(i) \in Item
      BY ItemIdTyped DEF DedupInv, DedupTyped
    <2> QED BY <2>1, <2>2, PublishStep
  <1>2. CASE ~ \E i \in Item : Publishes(i)
    BY <1>2, ExporterStays DEF Sent
  <1> QED BY <1>1, <1>2

THEOREM PipelineInvariant == PipelineSpec => []PipelineInv
  <1>1. PipelineInit => PipelineInv
    BY DedupStarts, ExporterStarts DEF PipelineInit, PipelineInv
  <1>2. PipelineInv /\ [PipelineNext]_pipelineVars => PipelineInv'
    <2> SUFFICES ASSUME PipelineInv, [PipelineNext]_pipelineVars PROVE PipelineInv'
      OBVIOUS
    <2>1. X!ExporterConstants
      BY PipelineAssumption
    <2>2. CASE Next /\ Sent
      BY <2>1, <2>2, DedupSteps, SentStep DEF PipelineInv
    <2>3. CASE X!Next(HaveItems) /\ UNCHANGED vars
      <3>1. HaveItems \in SUBSET Job
        BY DEF HaveItems
      <3> QED BY <2>1, <2>3, <3>1, ExporterSteps, DedupStays DEF PipelineInv
    <2>4. CASE UNCHANGED pipelineVars
      BY <2>4, DedupStays, ExporterStays DEF PipelineInv, pipelineVars
    <2> QED BY <2>2, <2>3, <2>4 DEF PipelineNext
  <1> QED BY <1>1, <1>2, PTL DEF PipelineSpec


(* Where the coroutines are, and how full the buffer is. *)
LoopPlaces == X!Sink \cup X!Exporting \cup {"poll", "add", "cancelled", "close", "down"}
TimerPlaces == X!Exporting \cup {"wait", "done", "down"}
PlacesTyped ==
    /\ task["loop"].at \in LoopPlaces /\ task["timer"].at \in TimerPlaces
    /\ Len(buffer) < export_batch_size /\ sinks \in [Item -> SUBSET X!Sink]

\* The step of one coroutine that takes nothing into the buffer.
LEMMA PlacesKept ==
    ASSUME PlacesTyped, TasksTyped, NEW t \in Coroutines, NEW r \in CoroutineState, Moves(t, r),
           t = "loop" => r.at \in LoopPlaces, t = "timer" => r.at \in TimerPlaces,
           Len(buffer') < export_batch_size, sinks' \in [Item -> SUBSET X!Sink]
    PROVE  PlacesTyped'
  BY DEF PlacesTyped, Moves, Coroutines

LEMMA PlacesReset ==
    ASSUME X!ExporterConstants, PlacesTyped, buffer' \in {buffer, <<>>}, sinks' = sinks,
           \/ task' = [t \in X!Coroutine |-> X!Stopped] \/ task' = [t \in X!Coroutine |-> X!Idle(t)]
    PROVE  PlacesTyped'
  <1>1. export_batch_size > 0 /\ Len(buffer') < export_batch_size
    BY DEF X!ExporterConstants, PlacesTyped
  <1>2. task'["loop"].at \in {"down", "poll"} /\ task'["timer"].at \in {"down", "wait"}
    BY DEF X!Coroutine, X!Idle, X!Stopped
  <1> QED BY <1>1, <1>2 DEF PlacesTyped, LoopPlaces, TimerPlaces

LEMMA PlacesExport ==
    ASSUME X!ExporterConstants, PlacesTyped, TasksTyped, NEW t \in Coroutines, X!_export_batch(t)
    PROVE  PlacesTyped'
  <1>1. buffer' = buffer /\ sinks' = sinks /\ \A u \in Coroutines : u # t => task'[u] = task[u]
    BY DEF X!_export_batch, X!create_export, X!upload, X!update_export_file_path, X!update_export_status,
       X!ExportFails, X!Go, TasksTyped
  <1>2. task'[t].at \in X!Exporting \/ task'[t] = X!After(t)
    BY DEF X!_export_batch, X!create_export, X!upload, X!update_export_file_path, X!update_export_status,
       X!ExportFails, X!Go, X!Exporting, TasksTyped, CoroutineState
  <1>3. X!After("loop").at \in {"poll", "close"} /\ X!After("timer").at = "wait"
    BY DEF X!After, X!Idle, X!Stopped
  <1>4. CASE t = "loop"
    BY <1>1, <1>2, <1>3, <1>4 DEF PlacesTyped, LoopPlaces, Coroutines
  <1>5. CASE t = "timer"
    BY <1>1, <1>2, <1>3, <1>5 DEF PlacesTyped, TimerPlaces, Coroutines
  <1> QED BY <1>4, <1>5 DEF Coroutines

LEMMA PlacesTake ==
    ASSUME X!ExporterConstants, PlacesTyped, TasksTyped, NEW t \in Coroutines, NEW items \in Seq(Nat),
           X!Taken(t, items), sinks' = sinks
    PROVE  PlacesTyped'
  <1>1. PICK r \in CoroutineState : Moves(t, r) /\ r.at = "create"
    BY Taking
  <1>2. Len(buffer') < export_batch_size
    BY Taking DEF X!ExporterConstants
  <1> QED BY <1>1, <1>2, PlacesKept DEF LoopPlaces, TimerPlaces, X!Exporting, PlacesTyped

LEMMA PlacesStep ==
    ASSUME X!ExporterConstants, PlacesTyped, ExporterInv, NEW jobs, X!Next(jobs) PROVE PlacesTyped'
  <1> USE DEF ExporterInv, ExporterTyped
  <1>1. ASSUME UNCHANGED <<task, buffer, sinks>> PROVE PlacesTyped'
    BY <1>1 DEF PlacesTyped
  <1>2. ASSUME NEW step \in LoopPlaces, X!Go("loop", step), Len(buffer') < export_batch_size,
               sinks' \in [Item -> SUBSET X!Sink]
        PROVE  PlacesTyped'
    <2>1. step \in Places /\ "loop" \in Coroutines
      BY DEF LoopPlaces, Places, Coroutines
    <2> QED BY <1>2, <2>1, Going, PlacesKept
  <1>3. CASE X!Start \/ X!Kill \/ X!Close
    BY <1>3, PlacesReset DEF X!Start, X!Kill, X!Close
  <1>4. CASE X!Commit \/ X!Routes(jobs)
    BY <1>1, <1>4 DEF X!Commit, X!Routes, X!trigger_export, X!delete_export
  <1>5. CASE X!Poll
    BY <1>2, <1>5 DEF X!Poll, PlacesTyped, LoopPlaces, X!Sink
  <1>6. ASSUME NEW s \in X!Sink, NEW next \in X!Sink \cup {"add"}, X!Write(s, next) PROVE PlacesTyped'
    BY <1>2, <1>6 DEF X!Write, PlacesTyped, LoopPlaces
  <1>7. CASE X!store_single_item
    BY <1>6, <1>7 DEF X!store_single_item, X!Sink
  <1>8. CASE X!add
    <2>1. position \in Nat /\ Append(buffer, position) \in Seq(Nat)
      BY DEF PositionTyped, BufferTyped
    <2>2. CASE X!Taken("loop", Append(buffer, position))
      BY <1>8, <2>1, <2>2, PlacesTake DEF X!add, Coroutines
    <2>3. CASE Len(Append(buffer, position)) < export_batch_size /\ buffer' = Append(buffer, position) /\ X!Go("loop", "poll")
      BY <1>2, <1>8, <2>3 DEF X!add, LoopPlaces, PlacesTyped
    <2>4. Len(Append(buffer, position)) \in Nat /\ export_batch_size \in Nat
      BY <2>1 DEF X!ExporterConstants
    <2> QED BY <1>8, <2>2, <2>3, <2>4 DEF X!add
  <1>9. CASE X!periodic_flush
    <2>1. CASE X!Taken("timer", buffer)
      BY <1>9, <2>1, PlacesTake DEF X!periodic_flush, Coroutines, BufferTyped
    <2>2. CASE X!Go("timer", "done") /\ UNCHANGED buffer
      <3>1. PICK r \in CoroutineState : Moves("timer", r) /\ r.at = "done"
        BY <2>2, Going DEF Places, Coroutines
      <3> QED BY <1>9, <2>2, <3>1, PlacesKept DEF X!periodic_flush, PlacesTyped, TimerPlaces, Coroutines
    <2> QED BY <1>9, <2>1, <2>2 DEF X!periodic_flush
  <1>10. ASSUME NEW t \in Coroutines, X!_export_batch(t) PROVE PlacesTyped'
    BY <1>10, PlacesExport
  <1>11. CASE X!_stop
    <2> DEFINE r == [X!Stopped EXCEPT !.at = "cancelled"]
    <2>1. r \in CoroutineState /\ r.at = "cancelled"
      BY RestingStates DEF X!Stopped, CoroutineState, Places
    <2>2. task' = [task EXCEPT !["loop"] = r] /\ buffer' = buffer /\ sinks' = sinks
      BY <1>11 DEF X!_stop
    <2> HIDE DEF r
    <2>3. Moves("loop", r)
      BY <2>1, <2>2, MovesTask DEF Coroutines
    <2> QED BY <2>1, <2>2, <2>3, PlacesKept DEF PlacesTyped, LoopPlaces, Coroutines
  <1>12. CASE X!CancelTimer
    <2>1. CASE X!Taken("loop", buffer)
      BY <1>12, <2>1, PlacesTake DEF X!CancelTimer, Coroutines, BufferTyped
    <2>2. CASE X!Go("loop", "close") /\ UNCHANGED buffer
      BY <1>2, <1>12, <2>2 DEF X!CancelTimer, PlacesTyped, LoopPlaces
    <2>3. CASE task' = [t \in X!Coroutine |-> X!Stopped] /\ buffer' = <<>>
      BY <1>12, <2>3, PlacesReset DEF X!CancelTimer
    <2> QED BY <1>12, <2>1, <2>2, <2>3 DEF X!CancelTimer
  <1> QED BY <1>3, <1>4, <1>5, <1>7, <1>8, <1>9, <1>10, <1>11, <1>12 DEF X!Next, X!Work, X!Timer, Coroutines

LEMMA PlacesSent == ASSUME PlacesTyped, Sent PROVE PlacesTyped'
  <1>1. UNCHANGED <<task, buffer, sinks>>
    BY DEF Sent, X!Publish, exporterVars
  <1> QED BY <1>1 DEF PlacesTyped

(* TypesOK: every variable of the two parts keeps its type. *)
THEOREM TypesTheorem == PipelineSpec => []TypesOK
  <1>1. PipelineInit => PlacesTyped
    <2> SUFFICES ASSUME X!Init PROVE PlacesTyped
      BY DEF PipelineInit
    <2>1. X!ExporterConstants
      BY PipelineAssumption
    <2> QED BY <2>1 DEF X!Init, PlacesTyped, LoopPlaces, TimerPlaces, X!Coroutine, X!Stopped, X!ExporterConstants, X!Sink
  <1>2. PipelineInv /\ PlacesTyped /\ [PipelineNext]_pipelineVars => PlacesTyped'
    <2> SUFFICES ASSUME PipelineInv, PlacesTyped, [PipelineNext]_pipelineVars PROVE PlacesTyped'
      OBVIOUS
    <2>1. X!ExporterConstants
      BY PipelineAssumption
    <2>2. CASE UNCHANGED pipelineVars
      BY <2>2 DEF PlacesTyped, pipelineVars, exporterVars
    <2> QED BY <2>1, <2>2, PlacesSent, PlacesStep DEF PipelineInv, PipelineNext
  <1>3. PipelineInv /\ PlacesTyped => TypesOK
    <2> SUFFICES ASSUME PipelineInv, PlacesTyped PROVE TypeOK /\ X!TypeOK
      BY DEF TypesOK
    <2> USE DEF PipelineInv, DedupInv, ExporterInv, ExporterTyped
    <2>1. TypeOK
      BY DEF DedupTyped, RowsTyped, PagesTyped, OneRowPerUrl, CountsTyped, Steps, TypeOK
    <2>2. X!TypeOK
      <3>1. topic \in Seq(Item) /\ DOMAIN given = DOMAIN topic /\ X!Range(given) \subseteq Nat /\ DOMAIN topic = Offsets
        BY RangeIs DEF TopicTyped, Elems, Offsets
      <3>2. position \in 0..Len(topic) /\ committed \in 0..Len(topic) \cup {None}
        BY DEF PositionTyped
      <3>3. sinks \in [Item -> SUBSET X!Sink] /\ Len(buffer) < export_batch_size /\ objects \subseteq Item
        BY DEF PlacesTyped, ExportsTyped
      <3>4. X!Range(buffer) \subseteq Offsets
        BY RangeIs DEF BufferTyped, Elems
      <3>5. ASSUME NEW t \in Coroutines
            PROVE  /\ X!Range(task[t].batch) \subseteq Offsets
                   /\ task[t].at \in X!Exporting => task[t].batch # <<>>
                   /\ task[t].at \in X!Exporting \ {"create"} => task[t].row \in DOMAIN exports
        <4>1. task[t].at \in X!Exporting \ {"create"} => task[t].at \in Rowed
          BY DEF X!Exporting, Rowed
        <4> QED BY <4>1, RangeIs DEF TasksTyped, Elems, WholeInv, Owns
      <3>6. ASSUME NEW e \in DOMAIN exports PROVE exports[e].status \in {"pending", "completed", "failed", "deleted"}
        <4>1. exports[e] \in ExportRow
          BY DEF ExportsTyped
        <4> QED BY <4>1 DEF ExportRow
      <3> QED BY <3>1, <3>2, <3>3, <3>4, <3>5, <3>6, CoroutinesAre DEF X!TypeOK, PlacesTyped, LoopPlaces, TimerPlaces
    <2> QED BY <2>1, <2>2
  <1> QED BY <1>1, <1>2, <1>3, PipelineInvariant, PTL DEF PipelineSpec

(* BatchAccounted: whatever the two coroutines interleave and whatever     *)
(* fails, no delivery of a message is in two batches or twice in the       *)
(* buffer; while nothing has failed each is in exactly one of them         *)
(* (exporter-worker/main.py:314-329).                                      *)
THEOREM BatchAccountedTheorem == PipelineSpec => []BatchAccounted
  <1>1. PipelineInv => BatchAccounted
    <2> SUFFICES ASSUME PipelineInv, NEW k \in DOMAIN topic
                 PROVE  /\ X!Held(k) <= given[k]
                        /\ wrong = 0 => X!Held(k) = given[k] - (IF X!InHand(k) THEN 1 ELSE 0)
      BY DEF BatchAccounted, X!BatchAccounted
    <2>1. BufferTyped /\ ExportsTyped /\ TopicTyped /\ BatchInv
      BY DEF PipelineInv, ExporterInv, ExporterTyped
    <2>2. k \in Offsets /\ given[k] \in Nat
      BY <2>1 DEF TopicTyped, Offsets
    <2>3. Kept(k) = X!Held(k) + HandOf(k, position, task["loop"].at) /\ X!Held(k) \in Nat
      BY <2>1, KeptIsHeld
    <2>4. HandOf(k, position, task["loop"].at) = IF X!InHand(k) THEN 1 ELSE 0
      BY DEF HandOf, OneIf, X!InHand
    <2> QED BY <2>1, <2>2, <2>3, <2>4 DEF BatchInv
  <1> QED BY <1>1, PipelineInvariant, PTL

(* CompletedIsWhole: every item of a completed export has a file, and the  *)
(* archive of the folder its row names is not empty                        *)
(* (exporter-worker/main.py:350-386, exports.py:294-304).                  *)
THEOREM CompletedIsWholeTheorem == PipelineSpec => []CompletedIsWhole
  <1>1. PipelineInv => CompletedIsWhole
    <2> SUFFICES ASSUME PipelineInv, NEW e \in DOMAIN exports, exports[e].status = "completed"
                 PROVE  LET items == {X!ItemOf(k) : k \in X!Range(exports[e].items)}
                        IN  /\ items \subseteq objects
                            /\ {i \in items : site[i] = exports[e].path} \subseteq X!download_export(e)
                            /\ X!download_export(e) # {}
      BY DEF CompletedIsWhole, X!CompletedIsWhole
    <2>1. ExportsTyped /\ TopicTyped /\ WholeRow(e)
      BY DEF PipelineInv, ExporterInv, ExporterTyped, WholeInv
    <2>2. exports[e] \in ExportRow
      BY <2>1 DEF ExportsTyped
    <2>3. /\ exports[e].items \in Seq(Nat) /\ exports[e].items # <<>>
          /\ \A n \in DOMAIN exports[e].items : exports[e].items[n] \in Offsets /\ topic[exports[e].items[n]] \in objects
      <3>1. exports[e].items \in Seq(Nat) /\ exports[e].items # <<>>
        BY <2>1, <2>2 DEF ExportRow, WholeRow
      <3>2. \A n \in DOMAIN exports[e].items : n <= Len(exports[e].items)
        BY <3>1
      <3> QED BY <2>1, <3>1, <3>2 DEF ExportsTyped, WholeRow, Uploaded
    <2> DEFINE items == {X!ItemOf(k) : k \in X!Range(exports[e].items)}
    <2>4. items = {topic[exports[e].items[n]] : n \in DOMAIN exports[e].items}
      BY RangeIs DEF Elems, X!ItemOf
    <2>5. X!download_export(e) = {i \in objects : site[i] = exports[e].path}
      BY DEF X!download_export
    <2>6. PICK n \in DOMAIN exports[e].items : site[topic[exports[e].items[n]]] = exports[e].path
      <3>1. exports[e].path = FolderIn(topic, exports[e].items) /\ topic \in Seq(Item)
        BY <2>1 DEF WholeRow, TopicTyped
      <3> QED BY <2>3, <3>1, FolderHas, PipelineAssumption
    <2> QED BY <2>3, <2>4, <2>5, <2>6
  <1> QED BY <1>1, PipelineInvariant, PTL

(* CopyDropped: the parser stores no page whose text had a fresh           *)
(* fingerprint of another item when the crawl of the page began            *)
(* (parser-worker/main.py:67).                                             *)
THEOREM CopyDroppedTheorem == PipelineSpec => CopyDropped
  <1>1. PipelineInv =>
          \A i \in Item \ Deep :
            pc[i] = "create" /\ pc'[i] = "store" =>
              ~ \E k \in Originals : /\ k <= known[i] /\ Fresh(k)
                                     /\ fingerprints[k].content = extracted[i]
                                     /\ fingerprints[k].item # i
    BY DEF PipelineInv, DedupInv, CopyInv, CopyOf, Passed, NoCopy, Originals, Fresh
  <1> QED BY <1>1, PipelineInvariant, PTL DEF CopyDropped

-----------------------------------------------------------------------------
(* What is dropped is accounted for.                                         *)

\* A newer original close to row k
Later(k) == \E l \in Originals : l > k /\ Near(fingerprints[k].content, fingerprints[l].content)
\* Page i is dropped, or about to be.
Doomed(i) == pc[i] = "dropped" \/ (pc[i] = "near" /\ dup_of[i] # None)

\* Page i stored row k, and is not dropped as long as no newer row is found instead.
Author(i, k) ==
    /\ fingerprints[k].content = extracted[i]
    /\ \/ i \in Deep /\ pc[i] \in {"crawl_publish", "done", "lost"}
       \/ /\ i \notin Deep /\ fingerprints[k].item = i
          /\ pc[i] \in {"crawl_publish", "raw", "lost", "done", "dropped"} \cup Parsing
          /\ Doomed(i) => Later(k)
       \/ i \notin Deep /\ "redeliver" \notin Faults /\ pc[i] \in {"publish", "done", "lost"}

\* A page: the deep worker drops none, what is done is published, and whoever is dropped has seen
\* a row it is near to.
PageFacts(i) ==
    /\ i \in Deep => pc[i] \in {"idle", "done", "lost"} \cup Crawling
    /\ pc[i] = "done" => i \in parsed
    /\ Doomed(i) => \E k \in Originals : Near(extracted[i], fingerprints[k].content)
\* The row of a page bears the item_id of a crawl of that page.
RowIsOf(j, u) == LET id == parsed_items[j][u] IN id # None => job[id] = j /\ url[id] = u
DropInv ==
    /\ \A j \in Job, u \in Url : RowIsOf(j, u)
    /\ \A i \in Item : PageFacts(i)
    /\ \A k \in Originals : Misread(k) \/ \E i \in Item : Author(i, k)

\* No two items are crawls of the same page in the same job.
Distinct == \A i, j \in Item : job[i] = job[j] /\ url[i] = url[j] => i = j
\* No message comes again, or each item keeps its own item_id.
OwnIds == "redeliver" \notin Faults \/ Distinct

LEMMA OwnItemId ==
    ASSUME Distinct, DedupTyped, NEW i \in Item, RowIsOf(job[i], url[i])
    PROVE  item_id(i) = i
  <1>1. parsed_items[job[i]][url[i]] \in Item \cup {None}
    BY DedupAssumption DEF DedupTyped, RowsTyped
  <1> QED BY <1>1 DEF Distinct, RowIsOf, item_id

LEMMA RowsOwned ==
    ASSUME DedupTyped, \A j \in Job, u \in Url : RowIsOf(j, u), NEW i \in Item, parsed_items' = create_parsed_item(i)
    PROVE  \A j \in Job, u \in Url : RowIsOf(j, u)'
  <1> SUFFICES ASSUME NEW j \in Job, NEW u \in Url PROVE RowIsOf(j, u)'
    OBVIOUS
  <1>1. parsed_items'[j][u] = parsed_items[j][u] \/ (parsed_items'[j][u] = i /\ j = job[i] /\ u = url[i])
    BY DedupAssumption DEF create_parsed_item, DedupTyped, RowsTyped
  <1> QED BY <1>1 DEF RowIsOf

LEMMA OriginalsGrow ==
    ASSUME DedupTyped, Grows
    PROVE  /\ \A k \in Originals : k \in Originals' /\ fingerprints'[k] = fingerprints[k]
           /\ \A k \in Originals : (Later(k) => Later(k)') /\ (Misread(k) => Misread(k)')
  <1>1. \A k \in Originals : k \in Originals' /\ fingerprints'[k] = fingerprints[k]
    BY DEF Grows, Originals
  <1>2. \A k \in Originals : Later(k) => Later(k)'
    BY <1>1 DEF Later, Near
  <1>3. \A k \in Originals : Misread(k) => Misread(k)'
    BY <1>1 DEF Misread
  <1> QED BY <1>1, <1>2, <1>3

LEMMA OriginalIs ==
    ASSUME DedupTyped, NEW k \in Originals
    PROVE  /\ k \in DOMAIN fingerprints /\ k \in Nat /\ k >= 1
           /\ fingerprints[k].item \in Item /\ fingerprints[k].content \in Content
  <1>1. k \in DOMAIN fingerprints /\ fingerprints[k] \in Row
    BY DEF DedupTyped, RowsTyped, Originals
  <1> QED BY <1>1 DEF Row, DedupTyped, RowsTyped

\* What the exact tier finds is an original with this text, and never older than another one.
LEMMA ExactFinds ==
    ASSUME DedupTyped, NEW c \in Content, check_content_duplicate(c) # None
    PROVE  \E l \in Originals : /\ fingerprints[l].content = c /\ fingerprints[l].item = check_content_duplicate(c)
                                /\ \A k \in Originals : fingerprints[k].content = c => k <= l
  <1> DEFINE same == {k \in Originals : fingerprints[k].content = c}
  <1>1. same # {} /\ check_content_duplicate(c) = fingerprints[Newest(same)].item
    BY DEF check_content_duplicate
  <1>2. same \in SUBSET DOMAIN fingerprints
    BY DEF Originals
  <1>3. Newest(same) \in same /\ \A k \in same : k <= Newest(same)
    <2> HIDE DEF same
    <2> QED BY <1>1, <1>2, NewestIs
  <1> QED BY <1>1, <1>3

\* What the near tier finds is a fresh original near to the text; if a fresh one has the very hash, so
\* has the one that is found, and it is not older.
LEMMA NearFinds ==
    ASSUME DedupTyped, NEW c \in Content, check_near_duplicate(c) # None
    PROVE  \E l \in Originals : /\ fingerprints[l].item = check_near_duplicate(c)
                                /\ Fresh(l) /\ Near(c, fingerprints[l].content)
                                /\ \A k \in Originals : Fresh(k) /\ Distance[c][fingerprints[k].content] = 0 =>
                                      Distance[c][fingerprints[l].content] = 0 /\ k <= l
  <1> DEFINE d(k) == Distance[c][fingerprints[k].content]
             close == {k \in Originals : Fresh(k) /\ d(k) <= DEDUP_SIMHASH_THRESHOLD}
             closest == {k \in close : \A l \in close : d(k) <= d(l)}
  <1>1. close # {} /\ check_near_duplicate(c) = fingerprints[Newest(closest)].item
    BY DEF check_near_duplicate
  <1>2. \A k \in close : d(k) \in Nat
    BY OriginalIs, DedupAssumption
  <1>3. closest # {}
    <2> DEFINE f == [k \in close |-> d(k)]
    <2>1. \A k \in close : f[k] = d(k)
      OBVIOUS
    <2>2. closest = {k \in close : \A l \in close : f[k] <= f[l]}
      BY <2>1
    <2> HIDE DEF f, closest
    <2>3. \A k \in close : f[k] \in Nat
      BY <1>2, <2>1
    <2> HIDE DEF close
    <2> QED BY <1>1, <2>2, <2>3, ClosestIs
  <1>4. closest \in SUBSET DOMAIN fingerprints
    BY DEF Originals
  <1>5. Newest(closest) \in closest /\ \A k \in closest : k <= Newest(closest)
    <2> HIDE DEF closest
    <2> QED BY <1>3, <1>4, NewestIs
  <1> DEFINE l == Newest(closest)
  <1>6. l \in Originals /\ Fresh(l) /\ d(l) <= DEDUP_SIMHASH_THRESHOLD /\ \A k \in close : d(l) <= d(k)
    BY <1>5
  <1>7. ASSUME NEW k \in Originals, Fresh(k), d(k) = 0 PROVE d(l) = 0 /\ k <= l
    <2>1. k \in close
      BY <1>7, DedupAssumption
    <2>2. d(l) = 0
      <3>1. d(l) \in Nat /\ d(l) <= d(k) /\ d(k) = 0
        BY <1>2, <1>5, <1>6, <1>7, <2>1
      <3> HIDE DEF d
      <3> QED BY <3>1
    <2>3. k \in closest
      BY <1>2, <1>7, <2>1
    <2> QED BY <1>5, <2>2, <2>3
  <1> HIDE DEF l
  <1>8. fingerprints[l].item = check_near_duplicate(c)
    BY <1>1 DEF l
  <1> QED BY <1>6, <1>7, <1>8 DEF Near

\* The checks of the parser find nothing else for the author of a row, or a later row close to it.
LEMMA ExactSpares ==
    ASSUME DedupTyped, NEW i \in Item, NEW k \in Originals,
           fingerprints[k].content = extracted[i], fingerprints[k].item = i,
           check_content_duplicate(extracted[i]) \notin {i, None}
    PROVE  Later(k)
  <1>1. extracted[i] \in Content
    BY DedupAssumption
  <1>2. PICK l \in Originals : /\ fingerprints[l].content = extracted[i]
                               /\ fingerprints[l].item = check_content_duplicate(extracted[i]) /\ k <= l
    BY <1>1, ExactFinds
  <1>3. l # k /\ k \in Nat /\ l \in Nat
    BY <1>2, OriginalIs
  <1>4. Near(extracted[i], extracted[i])
    BY <1>1, DedupAssumption DEF Near
  <1> QED BY <1>2, <1>3, <1>4 DEF Later

LEMMA NearSpares ==
    ASSUME DedupTyped, NEW i \in Item, NEW k \in Originals,
           fingerprints[k].content = extracted[i], fingerprints[k].item = i,
           check_near_duplicate(extracted[i]) \notin {i, None}
    PROVE  Later(k)
  <1>1. extracted[i] \in Content /\ Distance[extracted[i]][extracted[i]] = 0
    BY DedupAssumption
  <1>2. PICK l \in Originals :
               /\ fingerprints[l].item = check_near_duplicate(extracted[i])
               /\ Fresh(l) /\ Near(extracted[i], fingerprints[l].content)
               /\ Fresh(k) => k <= l
    BY <1>1, NearFinds
  <1>3. l # k /\ k \in Nat /\ l \in Nat /\ stale \in Nat
    BY <1>2, OriginalIs DEF DedupTyped, RowsTyped
  <1>4. l > k
    BY <1>2, <1>3 DEF Fresh
  <1> QED BY <1>2, <1>4 DEF Later

LEMMA FoundNear ==
    ASSUME DedupTyped, NEW i \in Item,
           check_content_duplicate(extracted[i]) # None \/ check_near_duplicate(extracted[i]) # None
    PROVE  \E k \in Originals : Near(extracted[i], fingerprints[k].content)
  <1>1. extracted[i] \in Content /\ Near(extracted[i], extracted[i])
    BY DedupAssumption DEF Near
  <1> QED BY <1>1, ExactFinds, NearFinds

-----------------------------------------------------------------------------
(* The facts about a page. *)

LEMMA FactsStay ==
    ASSUME DedupTyped, Grows,
           NEW i \in Item, PageFacts(i), parsed \subseteq parsed',
           pc'[i] = pc[i], dup_of'[i] = dup_of[i]
    PROVE  PageFacts(i)'
  <1>1. Doomed(i)' <=> Doomed(i)
    BY DEF Doomed
  <1>2. (\E k \in Originals : Near(extracted[i], fingerprints[k].content))
          => \E k \in Originals' : Near(extracted[i], fingerprints'[k].content)
    BY OriginalsGrow
  <1> QED BY <1>1, <1>2, OriginalsGrow DEF PageFacts, Near

\* A step that dooms nobody
LEMMA FactsMove ==
    ASSUME DedupTyped, Grows, NEW i \in Item, PageFacts(i), ~Doomed(i)',
           i \in Deep => pc'[i] \in {"idle", "done", "lost"} \cup Crawling,
           pc'[i] = "done" => i \in parsed'
    PROVE  PageFacts(i)'
  BY DEF PageFacts

\* A step of the checks may doom the page, which has then seen a row.
LEMMA FactsChecked ==
    ASSUME DedupTyped, Grows, NEW i \in Item \ Deep, UNCHANGED fingerprints,
           pc'[i] \in {"near", "create", "dropped"},
           Doomed(i)' => \E k \in Originals : Near(extracted[i], fingerprints[k].content)
    PROVE  PageFacts(i)'
  <1>1. Doomed(i)' => \E k \in Originals' : Near(extracted[i], fingerprints'[k].content)
    BY OriginalsGrow
  <1> QED BY <1>1 DEF PageFacts, Near

LEMMA CrawlFacts ==
    ASSUME DedupTyped, Grows, NEW i \in Item, PageFacts(i), Fetch(i) \/ Crawl(i)
    PROVE  PageFacts(i)'
  <1> USE DEF Step
  <1>1. DOMAIN pc = Item
    BY DEF DedupTyped, PagesTyped
  <1>2. CASE Fetch(i) \/ CreateDeep(i) \/ CrawlExact(i) \/ CrawlNear(i) \/ CrawlStore(i)
    <2>1. pc'[i] \in {"crawl_create", "crawl_exact", "crawl_near", "crawl_store", "crawl_publish"}
      BY <1>1, <1>2 DEF Fetch, CreateDeep, CrawlExact, CrawlNear, CrawlStore, Extracted
    <2> QED BY <2>1, FactsMove DEF Doomed, Crawling
  <1>3. CASE CrawlPublish(i)
    <2>1. /\ pc'[i] = (IF i \in Deep THEN "done" ELSE "raw")
          /\ parsed' = IF i \in Deep THEN parsed \cup {i} ELSE parsed
      BY <1>1, <1>3 DEF CrawlPublish
    <2> QED BY <2>1, FactsMove DEF Doomed
  <1> QED BY <1>2, <1>3 DEF Crawl

LEMMA ParseFacts ==
    ASSUME DedupTyped, Grows,
           NEW i \in Item, PageFacts(i), Parse(i)
    PROVE  PageFacts(i)' /\ i \notin Deep
  <1> USE DEF Step
  <1>1. DOMAIN pc = Item /\ DOMAIN dup_of = Item
    BY DEF DedupTyped, PagesTyped
  <1>2. pc[i] \in {"raw"} \cup Parsing
    BY DEF Parse, Receive, ParseExact, ParseNear, ParseCreate, ParseStore, ParsePublish, Parsing
  <1>3. i \notin Deep
    BY <1>2 DEF PageFacts, Parsing, Crawling
  <1>5. CASE Receive(i) \/ ParseCreate(i) \/ ParseStore(i) \/ ParsePublish(i)
    <2>1. pc'[i] \in {"exact", "store", "publish"} \/ (pc'[i] = "done" /\ i \in parsed')
      BY <1>1, <1>5 DEF Receive, ParseCreate, ParseStore, ParsePublish
    <2> QED BY <1>3, <2>1, FactsMove DEF Doomed
  <1>7. CASE ParseExact(i)
    <2>1. /\ pc'[i] = "near" /\ UNCHANGED <<fingerprints, stale>>
          /\ dup_of'[i] = Other(check_content_duplicate(extracted[i]), i)
      BY <1>1, <1>3, <1>7 DEF ParseExact, Found, tables
    <2>2. Doomed(i)' => check_content_duplicate(extracted[i]) # None
      BY <2>1 DEF Doomed, Other
    <2>3. Doomed(i)' => \E k \in Originals : Near(extracted[i], fingerprints[k].content)
      BY <2>2, FoundNear
    <2>4. pc'[i] \in {"near", "create", "dropped"}
      BY <2>1
    <2> QED BY <1>3, <2>1, <2>3, <2>4, FactsChecked
  <1>8. CASE ParseNear(i)
    <2>1. /\ pc[i] = "near" /\ UNCHANGED <<fingerprints, stale>>
          /\ pc'[i] = IF dup_of'[i] = None THEN "create" ELSE "dropped"
          /\ dup_of[i] = None => dup_of'[i] = Other(check_near_duplicate(extracted[i]), i)
      BY <1>1, <1>3, <1>8 DEF ParseNear, Found, tables
    <2>2. Doomed(i)' => dup_of[i] # None \/ check_near_duplicate(extracted[i]) # None
      BY <2>1 DEF Doomed, Other
    <2>3. Doomed(i)' => \E k \in Originals : Near(extracted[i], fingerprints[k].content)
      BY <2>1, <2>2, FoundNear DEF PageFacts, Doomed
    <2>4. pc'[i] \in {"near", "create", "dropped"}
      BY <2>1
    <2> QED BY <1>3, <2>1, <2>3, <2>4, FactsChecked
  <1> QED BY <1>3, <1>5, <1>7, <1>8 DEF Parse

LEMMA FailFacts ==
    ASSUME DedupTyped, Grows, NEW i \in Item, PageFacts(i), FingerprintFails(i) \/ CrawlFails(i) \/ ParseFails(i)
    PROVE  PageFacts(i)'
  <1>1. DOMAIN pc = Item
    BY DEF DedupTyped, PagesTyped
  <1>2. \/ pc[i] \in Crawling /\ pc'[i] \in {"crawl_publish", "lost"}
        \/ pc[i] \in Parsing /\ pc'[i] \in {"raw", "lost"}
    BY <1>1 DEF FingerprintFails, CrawlFails, ParseFails, Crawling
  <1>3. i \in Deep => pc'[i] \in {"crawl_publish", "lost"}
    BY <1>2 DEF PageFacts, Parsing, Crawling
  <1> QED BY <1>2, <1>3, FactsMove DEF Doomed, Crawling

-----------------------------------------------------------------------------
(* The authors of the rows. *)

LEMMA AuthorStays ==
    ASSUME DedupTyped, Grows, NEW k \in Originals, NEW i \in Item, Author(i, k),
           pc'[i] = pc[i], dup_of'[i] = dup_of[i]
    PROVE  Author(i, k)'
  <1>1. fingerprints'[k] = fingerprints[k] /\ (Later(k) => Later(k)')
    BY OriginalsGrow
  <1>2. Doomed(i)' <=> Doomed(i)
    BY DEF Doomed
  <1> QED BY <1>1, <1>2 DEF Author

\* A step that dooms the author only where a newer row is found
LEMMA AuthorMoves ==
    ASSUME DedupTyped, Grows, NEW k \in Originals, NEW i \in Item \ Deep, Author(i, k),
           fingerprints[k].item = i,
           pc'[i] \in {"crawl_publish", "raw", "lost", "done", "dropped"} \cup Parsing,
           Doomed(i)' => Later(k)
    PROVE  Author(i, k)'
  <1>1. fingerprints'[k] = fingerprints[k] /\ (Later(k) => Later(k)')
    BY OriginalsGrow
  <1> QED BY <1>1 DEF Author

\* The author of a row that bears another item_id
LEMMA AuthorEnds ==
    ASSUME DedupTyped, Grows, NEW k \in Originals, NEW i \in Item, Author(i, k),
           \/ i \in Deep /\ pc'[i] \in {"crawl_publish", "done", "lost"}
           \/ i \notin Deep /\ "redeliver" \notin Faults /\ pc'[i] \in {"publish", "done", "lost"}
    PROVE  Author(i, k)'
  <1>1. fingerprints'[k] = fingerprints[k]
    BY OriginalsGrow
  <1> QED BY <1>1 DEF Author

LEMMA AuthorCrawls ==
    ASSUME DedupTyped, Grows, NEW k \in Originals, NEW i \in Item, Author(i, k), Fetch(i) \/ Crawl(i)
    PROVE  Author(i, k)'
  <1>1. DOMAIN pc = Item
    BY DEF DedupTyped, PagesTyped
  <1>2. pc[i] \in {"crawl_publish", "raw", "lost", "done", "dropped"} \cup Parsing
    BY DEF Author, Parsing
  <1>3. CrawlPublish(i)
    BY <1>2 DEF Fetch, Crawl, CreateDeep, CrawlExact, CrawlNear, CrawlStore, Step, Parsing
  <1>4. pc[i] = "crawl_publish" /\ pc'[i] = IF i \in Deep THEN "done" ELSE "raw"
    BY <1>1, <1>3 DEF CrawlPublish, Step
  <1>5. CASE i \in Deep
    BY <1>4, <1>5, AuthorEnds
  <1>6. CASE i \notin Deep
    <2>1. fingerprints[k].item = i /\ ~Doomed(i)'
      BY <1>4, <1>6 DEF Author, Doomed
    <2> QED BY <1>4, <1>6, <2>1, AuthorMoves
  <1> QED BY <1>5, <1>6

LEMMA AuthorParses ==
    ASSUME DedupTyped, Grows, NEW k \in Originals,
           NEW i \in Item \ Deep, Author(i, k), Parse(i)
    PROVE  Author(i, k)'
  <1>1. DOMAIN pc = Item /\ DOMAIN dup_of = Item
    BY DEF DedupTyped, PagesTyped
  <1>2. CASE fingerprints[k].item # i
    <2>1. "redeliver" \notin Faults /\ pc[i] = "publish"
      BY <1>2 DEF Author, Parse, Receive, ParseExact, ParseNear, ParseCreate, ParseStore, ParsePublish, Step
    <2>2. pc'[i] = "done"
      BY <1>1, <2>1 DEF Parse, Receive, ParseExact, ParseNear, ParseCreate, ParseStore, ParsePublish, Step
    <2> QED BY <2>1, <2>2, AuthorEnds
  <1>3. CASE fingerprints[k].item = i /\ (Receive(i) \/ ParseCreate(i) \/ ParseStore(i) \/ ParsePublish(i))
    <2>1. pc'[i] \in {"exact", "store", "publish", "done"}
      BY <1>1, <1>3 DEF Receive, ParseCreate, ParseStore, ParsePublish, Step
    <2> QED BY <1>3, <2>1, AuthorMoves DEF Doomed, Parsing
  <1>4. CASE fingerprints[k].item = i /\ ParseExact(i)
    <2>1. pc'[i] = "near" /\ dup_of'[i] = Other(check_content_duplicate(extracted[i]), i)
      BY <1>1, <1>4 DEF ParseExact, Found, Step
    <2>2. Doomed(i)' => check_content_duplicate(extracted[i]) \notin {i, None}
      BY <2>1 DEF Doomed, Other
    <2>3. Doomed(i)' => Later(k)
      BY <1>4, <2>2, ExactSpares DEF Author
    <2> QED BY <1>4, <2>1, <2>3, AuthorMoves DEF Parsing
  <1>5. CASE fingerprints[k].item = i /\ ParseNear(i)
    <2>1. /\ pc[i] = "near" /\ pc'[i] = IF dup_of'[i] = None THEN "create" ELSE "dropped"
          /\ dup_of[i] = None => dup_of'[i] = Other(check_near_duplicate(extracted[i]), i)
      BY <1>1, <1>5 DEF ParseNear, Found, Step
    <2>2. CASE dup_of[i] # None
      <3>1. Later(k)
        BY <1>5, <2>1, <2>2 DEF Author, Doomed
      <3> QED BY <1>5, <2>1, <3>1, AuthorMoves DEF Parsing
    <2>3. CASE dup_of[i] = None
      <3>1. Doomed(i)' => check_near_duplicate(extracted[i]) \notin {i, None}
        BY <2>1, <2>3 DEF Doomed, Other
      <3>2. Doomed(i)' => Later(k)
        BY <1>5, <3>1, NearSpares DEF Author
      <3> QED BY <1>5, <2>1, <3>2, AuthorMoves DEF Parsing
    <2> QED BY <2>2, <2>3
  <1> QED BY <1>2, <1>3, <1>4, <1>5 DEF Parse

LEMMA AuthorFails ==
    ASSUME DedupTyped, Grows, NEW k \in Originals, NEW i \in Item, Author(i, k),
           FingerprintFails(i) \/ CrawlFails(i) \/ ParseFails(i)
    PROVE  Author(i, k)'
  <1>1. DOMAIN pc = Item
    BY DEF DedupTyped, PagesTyped
  <1>2. ~FingerprintFails(i)
    BY DEF Author, FingerprintFails, Parsing
  <1>3. pc'[i] = "lost" \/ (pc'[i] = "raw" /\ "redeliver" \in Faults /\ i \notin Deep)
    BY <1>1, <1>2 DEF Author, CrawlFails, ParseFails, Fault, Parsing
  <1>4. CASE i \notin Deep /\ fingerprints[k].item = i
    BY <1>3, <1>4, AuthorMoves DEF Doomed
  <1>5. CASE i \in Deep \/ fingerprints[k].item # i
    <2>1. pc'[i] = "lost" /\ (i \in Deep \/ "redeliver" \notin Faults)
      BY <1>3, <1>5 DEF Author
    <2> QED BY <2>1, AuthorEnds
  <1> QED BY <1>4, <1>5

\* The row a step adds
LEMMA NewRow ==
    ASSUME DedupTyped, Grows, NEW i \in Item, NEW id \in Item, NEW c \in Content,
           fingerprints' = store_fingerprint(i, id, c), NEW k \in Originals' \ Originals
    PROVE  fingerprints'[k].item = id /\ fingerprints'[k].content = c
  <1>1. k \in DOMAIN fingerprints' /\ k \notin DOMAIN fingerprints
    BY DEF Grows, Originals
  <1> DEFINE r == [item |-> id, url |-> url[i], content |-> c, duplicate_of |-> dup_of[i]]
  <1>2. fingerprints' = Append(fingerprints, r)
    BY <1>1 DEF store_fingerprint
  <1>3. r.item = id /\ r.content = c /\ r \in Row
    BY DedupAssumption DEF DedupTyped, PagesTyped, Row
  <1>4. fingerprints \in Seq(Row)
    BY DEF DedupTyped, RowsTyped
  <1> HIDE DEF r
  <1>5. fingerprints'[k] = r
    BY <1>1, <1>2, <1>3, <1>4
  <1> QED BY <1>3, <1>5

LEMMA RowsFrom ==
    ASSUME OwnIds, DedupTyped, Grows, NEW i \in Item, RowIsOf(job[i], url[i]), PageFacts(i),
           Fetch(i) \/ Crawl(i) \/ Parse(i) \/ FingerprintFails(i) \/ CrawlFails(i) \/ ParseFails(i),
           NEW k \in Originals' \ Originals
    PROVE  Misread(k)' \/ Author(i, k)'
  <1>1. DOMAIN pc = Item /\ item_id(i) \in Item /\ extracted[i] \in Content /\ crawled[i] \in Content
    BY DedupAssumption, ItemIdTyped DEF DedupTyped, PagesTyped
  <1>2. CASE CrawlStore(i)
    <2>1. pc'[i] = "crawl_publish" /\ ~Doomed(i)'
      BY <1>1, <1>2 DEF CrawlStore, Step, Doomed
    <2>2. fingerprints'[k].content = crawled[i] /\ (i \notin Deep => fingerprints'[k].item = i)
      BY <1>1, <1>2, NewRow DEF CrawlStore
    <2>3. CASE crawled[i] = extracted[i]
      BY <2>1, <2>2, <2>3 DEF Author
    <2>4. CASE crawled[i] # extracted[i]
      BY <2>2, <2>4, DedupAssumption DEF Misread
    <2> QED BY <2>3, <2>4
  <1>3. CASE ParseStore(i)
    <2>1. pc[i] = "store" /\ pc'[i] = "publish" /\ ~Doomed(i)'
      BY <1>1, <1>3 DEF ParseStore, Step, Doomed
    <2>2. fingerprints' # fingerprints
      BY DEF Originals
    <2>3. fingerprints'[k].item = item_id(i) /\ fingerprints'[k].content = extracted[i]
      BY <1>1, <1>3, <2>2, NewRow DEF ParseStore
    <2>4. i \notin Deep
      BY <2>1 DEF PageFacts, Crawling
    <2>5. item_id(i) = i \/ "redeliver" \notin Faults
      BY OwnItemId DEF OwnIds
    <2> QED BY <2>1, <2>3, <2>4, <2>5 DEF Author, Parsing
  <1>4. CASE ~CrawlStore(i) /\ ~ParseStore(i)
    <2>1. fingerprints' = fingerprints
      BY <1>4 DEF Fetch, Crawl, Parse, CreateDeep, CrawlExact, CrawlNear, CrawlPublish, Receive, ParseExact,
         ParseNear, ParseCreate, ParsePublish, FingerprintFails, CrawlFails, ParseFails, tables
    <2> QED BY <2>1 DEF Originals
  <1> QED BY <1>2, <1>3, <1>4

-----------------------------------------------------------------------------

LEMMA DropStarts == ASSUME Init PROVE DropInv
  <1>1. fingerprints = <<>> /\ (\A i \in Item : pc[i] = "idle") /\ \A j \in Job, u \in Url : parsed_items[j][u] = None
    BY DEF Init
  <1>2. Originals = {}
    BY <1>1 DEF Originals
  <1> QED BY <1>1, <1>2 DEF DropInv, PageFacts, RowIsOf, Doomed

LEMMA DropSteps ==
    ASSUME OwnIds, DedupTyped, DropInv, Next
    PROVE  DropInv'
  <1>1. parsed \subseteq parsed'
    BY DEF Next, Fetch, Crawl, Parse, CreateDeep, CrawlExact, CrawlNear, CrawlStore, CrawlPublish, Receive, ParseExact,
       ParseNear, ParseCreate, ParseStore, ParsePublish, FingerprintFails, CrawlFails, ParseFails, RowAges
  <1>2. ASSUME NEW x \in Item,
               Fetch(x) \/ Crawl(x) \/ Parse(x) \/ FingerprintFails(x) \/ CrawlFails(x) \/ ParseFails(x)
        PROVE  DropInv'
    <2>1. Grows /\ PageOf(x)
      BY <1>2, CrawlSteps, ParseSteps, FailSteps
    <2>2. PageFacts(x) /\ PageFacts(x)' /\ (Parse(x) => x \notin Deep)
      BY <1>2, <2>1, CrawlFacts, ParseFacts, FailFacts DEF DropInv
    <2>3. ASSUME NEW i \in Item PROVE PageFacts(i)'
      BY <1>1, <2>1, <2>2, FactsStay DEF DropInv, PageOf
    <2>4. ASSUME NEW k \in Originals' PROVE Misread(k)' \/ \E i \in Item : Author(i, k)'
      <3>1. CASE k \notin Originals
        <4>1. RowIsOf(job[x], url[x])
          BY DedupAssumption DEF DropInv
        <4> QED BY <1>2, <2>1, <2>2, <3>1, <4>1, RowsFrom
      <3>2. CASE k \in Originals /\ Misread(k)
        BY <2>1, <3>2, OriginalsGrow
      <3>3. CASE k \in Originals /\ ~Misread(k)
        <4>1. PICK i \in Item : Author(i, k)
          BY <3>3 DEF DropInv
        <4>2. CASE i # x
          BY <2>1, <3>3, <4>1, <4>2, AuthorStays DEF PageOf
        <4>3. CASE i = x
          BY <1>2, <2>1, <2>2, <3>3, <4>1, <4>3, AuthorCrawls, AuthorParses, AuthorFails
        <4> QED BY <4>2, <4>3
      <3> QED BY <3>1, <3>2, <3>3
    <2>5. \A j \in Job, u \in Url : RowIsOf(j, u)'
      <3>1. parsed_items' = parsed_items \/ parsed_items' = create_parsed_item(x)
        BY <1>2 DEF Fetch, Crawl, Parse, CreateDeep, CrawlExact, CrawlNear, CrawlStore, CrawlPublish, Receive,
           ParseExact, ParseNear, ParseCreate, ParseStore, ParsePublish, FingerprintFails, CrawlFails, ParseFails,
           tables
      <3>2. CASE parsed_items' = parsed_items
        BY <3>2 DEF DropInv, RowIsOf
      <3> QED BY <3>1, <3>2, RowsOwned DEF DropInv
    <2> QED BY <2>3, <2>4, <2>5 DEF DropInv
  <1>3. CASE RowAges
    <2>1. Grows /\ UNCHANGED <<fingerprints, parsed_items, pc, dup_of>>
      BY <1>3, AgeStep
    <2>2. ASSUME NEW i \in Item PROVE PageFacts(i)'
      BY <1>1, <2>1, FactsStay DEF DropInv
    <2>3. ASSUME NEW k \in Originals' PROVE Misread(k)' \/ \E i \in Item : Author(i, k)'
      <3>1. k \in Originals
        BY <2>1 DEF Originals
      <3>2. CASE Misread(k)
        BY <2>1, <3>1, <3>2, OriginalsGrow
      <3>3. CASE ~Misread(k)
        <4>1. PICK i \in Item : Author(i, k)
          BY <3>1, <3>3 DEF DropInv
        <4> QED BY <2>1, <3>1, <4>1, AuthorStays
      <3> QED BY <3>2, <3>3
    <2>4. \A j \in Job, u \in Url : RowIsOf(j, u)'
      BY <2>1 DEF DropInv, RowIsOf
    <2> QED BY <2>2, <2>3, <2>4 DEF DropInv
  <1> QED BY <1>2, <1>3 DEF Next

LEMMA DropStays == ASSUME DropInv, UNCHANGED vars PROVE DropInv'
  <1>1. UNCHANGED <<fingerprints, stale, parsed_items, pc, dup_of, parsed>>
    BY DEF vars
  <1> QED BY <1>1 DEF DropInv, PageFacts, RowIsOf, Author, Misread, Later, Doomed, Originals, Near

\* Of the rows the dropped pages S are near to, the newest has an author outside of S.
LEMMA DropsAreAccounted == ASSUME DedupTyped, DropInv PROVE DropsAccounted
  <1> SUFFICES ASSUME NEW S \in SUBSET {i \in Item : pc[i] = "dropped"}, S # {}
               PROVE  \E i \in S :
                         \/ \E j \in Item \ S :
                               Alike(i, j) /\ (j \in parsed \/ OnItsWay(j) \/ pc[j] \in {"lost", "dropped"})
                         \/ \E k \in Originals : Misread(k) /\ Near(extracted[i], fingerprints[k].content)
    BY DEF DropsAccounted
  <1> DEFINE seen == {k \in Originals : \E i \in S : Near(extracted[i], fingerprints[k].content)}
  <1>1. seen # {} /\ seen \in SUBSET DOMAIN fingerprints
    <2>1. PICK i \in S : TRUE
      OBVIOUS
    <2>2. \E k \in Originals : Near(extracted[i], fingerprints[k].content)
      BY DEF DropInv, PageFacts, Doomed
    <2> QED BY <2>2 DEF Originals
  <1>2. PICK n \in seen : \A l \in seen : l <= n
    <2> HIDE DEF seen
    <2> QED BY <1>1, NewestIs
  <1>3. PICK i \in S : Near(extracted[i], fingerprints[n].content)
    OBVIOUS
  <1>4. CASE Misread(n)
    BY <1>3, <1>4
  <1>5. CASE ~Misread(n)
    <2>1. PICK j \in Item : Author(j, n)
      BY <1>5 DEF DropInv
    <2>2. Alike(i, j)
      BY <1>3, <2>1 DEF Author, Alike
    <2>3. j \notin S
      <3> SUFFICES ASSUME j \in S PROVE FALSE
        OBVIOUS
      <3>1. PICK l \in Originals : l > n /\ Near(fingerprints[n].content, fingerprints[l].content)
        BY <2>1 DEF Author, Doomed, Later
      <3>2. l \in seen
        BY <2>1, <3>1 DEF Author
      <3>3. l \in Nat /\ n \in Nat
        BY OriginalIs
      <3> QED BY <1>2, <3>1, <3>2, <3>3
    <2>4. pc[j] \in {"crawl_publish", "raw", "lost", "done", "dropped"} \cup Parsing
      BY <2>1 DEF Author, Parsing
    <2>5. j \in parsed \/ OnItsWay(j) \/ pc[j] \in {"lost", "dropped"}
      BY <2>4 DEF DropInv, PageFacts, OnItsWay
    <2> QED BY <2>2, <2>3, <2>5
  <1> QED BY <1>4, <1>5

(* DropsAccounted: whichever pages are crawled and parsed at the same      *)
(* time, whichever fingerprints are missing, misread or stale and          *)
(* whichever workers die, no pages are dropped for each other in a circle  *)
(* (parser-worker/main.py:338-374).  Of two crawls of one page in one job, *)
(* the second goes on under the item_id of the first (client.py:1739), and *)
(* when its message comes again it may be dropped for its own fingerprint: *)
(* therefore OwnIds.                                                       *)
THEOREM DropsAccountedTheorem == ASSUME OwnIds PROVE PipelineSpec => []DropsAccounted
  <1>1. PipelineInit => DropInv
    BY DropStarts DEF PipelineInit
  <1>2. PipelineInv /\ DropInv /\ [PipelineNext]_pipelineVars => DropInv'
    BY DropSteps, DropStays DEF PipelineInv, DedupInv, PipelineNext, pipelineVars
  <1>3. PipelineInv /\ DropInv => DropsAccounted
    BY DropsAreAccounted DEF PipelineInv, DedupInv
  <1> QED BY <1>1, <1>2, <1>3, PipelineInvariant, PTL DEF PipelineSpec
==============================================================================
