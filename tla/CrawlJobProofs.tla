---------------------------- MODULE CrawlJobProofs ----------------------------
(* Theorems about CrawlJob, for any site, any rules of the worker assignment, *)
(* any depth and any number of environment events; and, at the end, about the *)
(* links that become its requests (LinkExtraction).                           *)
EXTENDS CrawlJob, LinkExtraction, TLAPS, FiniteSetTheorems

-----------------------------------------------------------------------------
(* Counting the slots that a sequence of tasks holds                           *)

Reserving == {"escalating", "handoff"}
Queuing   == {"children", "mark", "send"}

UnsettledIn(tk) == {o \in DOMAIN tk : tk[o].pc \in Live}
UnsentIn(tk)    == UNION {{o} \X tk[o].todo : o \in DOMAIN tk}
ReservedIn(tk)  == {o \in DOMAIN tk : tk[o].pc \in Reserving}
Size(tk) == Cardinality(UnsettledIn(tk)) + Cardinality(UnsentIn(tk)) + Cardinality(ReservedIn(tk))

Sized(tk) == tk \in Seq(Task) /\ IsFiniteSet(UnsentIn(tk))

\* What one task holds.
One(b)   == IF b THEN 1 ELSE 0
Units(t) == One(t.pc \in Live) + Cardinality(t.todo) + One(t.pc \in Reserving)

LEMMA SeqFacts ==
  ASSUME NEW S, NEW s \in Seq(S)
  PROVE  /\ Len(s) \in Nat /\ DOMAIN s = 1..Len(s)
         /\ \A i \in DOMAIN s : s[i] \in S
         /\ \A i \in DOMAIN s, e \in S :
              /\ [s EXCEPT ![i] = e] \in Seq(S)
              /\ Len([s EXCEPT ![i] = e]) = Len(s)
              /\ \A k \in DOMAIN s : [s EXCEPT ![i] = e][k] = IF k = i THEN e ELSE s[k]
         /\ \A e \in S :
              /\ Append(s, e) \in Seq(S) /\ Len(Append(s, e)) = Len(s) + 1
              /\ DOMAIN Append(s, e) = 1..(Len(s) + 1)
              /\ \A k \in 1..Len(s) : Append(s, e)[k] = s[k]
              /\ Append(s, e)[Len(s) + 1] = e
  OBVIOUS

LEMMA SizedFinite ==
  ASSUME NEW tk, Sized(tk)
  PROVE  /\ IsFiniteSet(UnsettledIn(tk)) /\ IsFiniteSet(UnsentIn(tk)) /\ IsFiniteSet(ReservedIn(tk))
         /\ Cardinality(UnsettledIn(tk)) \in Nat /\ Cardinality(UnsentIn(tk)) \in Nat
         /\ Cardinality(ReservedIn(tk)) \in Nat /\ Size(tk) \in Nat
  <1>1. Len(tk) \in Nat /\ DOMAIN tk = 1..Len(tk)
    BY SeqFacts DEF Sized
  <1>2. IsFiniteSet(DOMAIN tk)
    BY <1>1, FS_Interval
  <1>3. UnsettledIn(tk) \in SUBSET DOMAIN tk /\ ReservedIn(tk) \in SUBSET DOMAIN tk
    BY DEF UnsettledIn, ReservedIn
  <1>4. IsFiniteSet(UnsettledIn(tk)) /\ IsFiniteSet(ReservedIn(tk))
    BY <1>2, <1>3, FS_Subset
  <1>5. IsFiniteSet(UnsentIn(tk))
    BY DEF Sized
  <1>6. /\ Cardinality(UnsettledIn(tk)) \in Nat /\ Cardinality(UnsentIn(tk)) \in Nat
        /\ Cardinality(ReservedIn(tk)) \in Nat
    BY <1>4, <1>5, FS_CardinalityType
  <1> QED BY <1>4, <1>5, <1>6 DEF Size

\* One element of a finite set comes, goes or stays.
LEMMA OneMember ==
  ASSUME NEW S, IsFiniteSet(S), NEW o, NEW T, T \ {o} = S \ {o}
  PROVE  /\ IsFiniteSet(T)
         /\ Cardinality(T) = Cardinality(S) - One(o \in S) + One(o \in T)
  <1>1. /\ IsFiniteSet(S \ {o})
        /\ Cardinality(S \ {o}) = IF o \in S THEN Cardinality(S) - 1 ELSE Cardinality(S)
    BY FS_RemoveElement
  <1>2. /\ IsFiniteSet((S \ {o}) \cup {o})
        /\ Cardinality((S \ {o}) \cup {o}) = Cardinality(S \ {o}) + 1
    BY <1>1, FS_AddElement
  <1>3. Cardinality(S) \in Nat
    BY FS_CardinalityType
  <1>4. CASE o \in T
    <2>1. T = (S \ {o}) \cup {o}
      BY <1>4
    <2> QED BY <1>1, <1>2, <1>3, <1>4, <2>1 DEF One
  <1>5. CASE o \notin T
    <2>1. T = S \ {o}
      BY <1>5
    <2> QED BY <1>1, <1>3, <1>5, <2>1 DEF One
  <1> QED BY <1>4, <1>5

LEMMA PairsOf ==
  ASSUME NEW o, NEW T, IsFiniteSet(T)
  PROVE  IsFiniteSet({o} \X T) /\ Cardinality({o} \X T) = Cardinality(T) /\ Cardinality(T) \in Nat
  <1>1. IsFiniteSet({o}) /\ Cardinality({o}) = 1
    BY FS_Singleton
  <1>2. IsFiniteSet({o} \X T) /\ Cardinality({o} \X T) = Cardinality({o}) * Cardinality(T)
    BY <1>1, FS_Product
  <1>3. Cardinality(T) \in Nat
    BY FS_CardinalityType
  <1> QED BY <1>1, <1>2, <1>3

\* The part of a finite set that belongs to one task is replaced.
LEMMA OnePart ==
  ASSUME NEW S, IsFiniteSet(S), NEW P, P \subseteq S, NEW Q, IsFiniteSet(Q), (S \ P) \cap Q = {}
  PROVE  /\ IsFiniteSet((S \ P) \cup Q) /\ IsFiniteSet(P)
         /\ Cardinality((S \ P) \cup Q) = Cardinality(S) - Cardinality(P) + Cardinality(Q)
         /\ Cardinality(P) \in Nat /\ Cardinality(P) <= Cardinality(S)
  <1>1. IsFiniteSet(P) /\ Cardinality(P) <= Cardinality(S)
    BY FS_Subset
  <1>2. IsFiniteSet(S \ P) /\ Cardinality(S \ P) = Cardinality(S) - Cardinality(S \cap P)
    BY FS_Difference
  <1>3. S \cap P = P
    OBVIOUS
  <1>4. /\ IsFiniteSet((S \ P) \cup Q)
        /\ Cardinality((S \ P) \cup Q)
             = Cardinality(S \ P) + Cardinality(Q) - Cardinality((S \ P) \cap Q)
    BY <1>2, FS_Union
  <1>5. Cardinality((S \ P) \cap Q) = 0
    BY FS_EmptySet
  <1>6. /\ Cardinality(S) \in Nat /\ Cardinality(P) \in Nat /\ Cardinality(Q) \in Nat
        /\ Cardinality(S \ P) \in Nat
    BY <1>1, <1>2, FS_CardinalityType
  <1> QED BY <1>1, <1>2, <1>3, <1>4, <1>5, <1>6

LEMMA UnitsNat ==
  ASSUME NEW t \in Task, IsFiniteSet(t.todo)
  PROVE  Units(t) \in Nat /\ Cardinality(t.todo) \in Nat
  BY FS_CardinalityType DEF Units, One

\* A task changes its state.
LEMMA SetTask ==
  ASSUME NEW tk, Sized(tk), NEW o \in DOMAIN tk, IsFiniteSet(tk[o].todo),
         NEW t \in Task, IsFiniteSet(t.todo)
  PROVE  /\ Sized([tk EXCEPT ![o] = t])
         /\ Size([tk EXCEPT ![o] = t]) = Size(tk) - Units(tk[o]) + Units(t)
         /\ Units(tk[o]) <= Size(tk) /\ Units(tk[o]) \in Nat
  <1> DEFINE new == [tk EXCEPT ![o] = t]
             P   == {o} \X tk[o].todo
             Q   == {o} \X t.todo
  <1>1. /\ new \in Seq(Task) /\ DOMAIN new = DOMAIN tk /\ tk[o] \in Task
        /\ \A k \in DOMAIN tk : new[k] = IF k = o THEN t ELSE tk[k]
    BY SeqFacts DEF Sized
  <1> HIDE DEF new
  <1>2. UnsettledIn(new) \ {o} = UnsettledIn(tk) \ {o}
    BY <1>1 DEF UnsettledIn
  <1>3. ReservedIn(new) \ {o} = ReservedIn(tk) \ {o}
    BY <1>1 DEF ReservedIn
  <1>4. P \subseteq UnsentIn(tk)
    BY DEF UnsentIn
  <1>5. UnsentIn(new) = (UnsentIn(tk) \ P) \cup Q
    <2>1. \A k, l : <<k, l>> \in UnsentIn(tk) <=> k \in DOMAIN tk /\ l \in tk[k].todo
      BY DEF UnsentIn
    <2>2. \A k, l : <<k, l>> \in UnsentIn(new) <=> k \in DOMAIN tk /\ l \in new[k].todo
      BY <1>1 DEF UnsentIn
    <2>3. \A x \in UnsentIn(tk) : x = <<x[1], x[2]>>
      BY DEF UnsentIn
    <2>4. \A x \in UnsentIn(new) : x = <<x[1], x[2]>>
      BY DEF UnsentIn
    <2>5. \A k, l : /\ <<k, l>> \in P <=> k = o /\ l \in tk[o].todo
                    /\ <<k, l>> \in Q <=> k = o /\ l \in t.todo
      OBVIOUS
    <2>6. \A x \in P \cup Q : x = <<x[1], x[2]>>
      OBVIOUS
    <2> HIDE DEF P, Q
    <2>7. ASSUME NEW x PROVE x \in UnsentIn(new) <=> x \in (UnsentIn(tk) \ P) \cup Q
      <3>1. CASE \E k, l : x = <<k, l>>
        <4>1. PICK k, l : x = <<k, l>>
          BY <3>1
        <4>2. CASE k = o
          BY <1>1, <2>1, <2>2, <2>5, <4>1, <4>2
        <4>3. CASE k # o
          BY <1>1, <2>1, <2>2, <2>5, <4>1, <4>3
        <4> QED BY <4>2, <4>3
      <3>2. CASE ~\E k, l : x = <<k, l>>
        BY <2>3, <2>4, <2>6, <3>2
      <3> QED BY <3>1, <3>2
    <2> QED BY <2>7
  <1>6. (UnsentIn(tk) \ P) \cap Q = {}
    BY DEF UnsentIn
  <1>7. /\ IsFiniteSet(P) /\ Cardinality(P) = Cardinality(tk[o].todo)
        /\ IsFiniteSet(Q) /\ Cardinality(Q) = Cardinality(t.todo)
        /\ Cardinality(tk[o].todo) \in Nat /\ Cardinality(t.todo) \in Nat
    BY PairsOf
  <1> HIDE DEF P, Q
  <1>8. /\ IsFiniteSet(UnsettledIn(tk)) /\ IsFiniteSet(UnsentIn(tk)) /\ IsFiniteSet(ReservedIn(tk))
        /\ Cardinality(UnsettledIn(tk)) \in Nat /\ Cardinality(UnsentIn(tk)) \in Nat
        /\ Cardinality(ReservedIn(tk)) \in Nat
    BY SizedFinite
  <1>9. /\ IsFiniteSet(UnsentIn(new))
        /\ Cardinality(UnsentIn(new)) = Cardinality(UnsentIn(tk)) - Cardinality(tk[o].todo) + Cardinality(t.todo)
        /\ Cardinality(tk[o].todo) <= Cardinality(UnsentIn(tk))
    <2>1. /\ IsFiniteSet((UnsentIn(tk) \ P) \cup Q)
          /\ Cardinality((UnsentIn(tk) \ P) \cup Q) = Cardinality(UnsentIn(tk)) - Cardinality(P) + Cardinality(Q)
          /\ Cardinality(P) <= Cardinality(UnsentIn(tk))
      BY <1>4, <1>6, <1>7, <1>8, OnePart
    <2> QED BY <1>5, <1>7, <2>1
  <1>10. Cardinality(UnsettledIn(new))
           = Cardinality(UnsettledIn(tk)) - One(o \in UnsettledIn(tk)) + One(o \in UnsettledIn(new))
    BY <1>2, <1>8, OneMember
  <1>11. Cardinality(ReservedIn(new))
           = Cardinality(ReservedIn(tk)) - One(o \in ReservedIn(tk)) + One(o \in ReservedIn(new))
    BY <1>3, <1>8, OneMember
  <1>12. /\ o \in UnsettledIn(tk) <=> tk[o].pc \in Live
         /\ o \in UnsettledIn(new) <=> t.pc \in Live
         /\ o \in ReservedIn(tk) <=> tk[o].pc \in Reserving
         /\ o \in ReservedIn(new) <=> t.pc \in Reserving
    BY <1>1 DEF UnsettledIn, ReservedIn
  <1>13. /\ One(o \in UnsettledIn(tk)) <= Cardinality(UnsettledIn(tk))
         /\ One(o \in ReservedIn(tk)) <= Cardinality(ReservedIn(tk))
    <2>1. /\ o \in UnsettledIn(tk) => Cardinality(UnsettledIn(tk)) # 0
          /\ o \in ReservedIn(tk) => Cardinality(ReservedIn(tk)) # 0
      BY <1>8, FS_EmptySet
    <2> QED BY <1>8, <2>1 DEF One
  <1>14. \A b : One(b) \in {0, 1}
    BY DEF One
  <1>15. /\ One(o \in UnsettledIn(tk)) = One(tk[o].pc \in Live)
         /\ One(o \in UnsettledIn(new)) = One(t.pc \in Live)
         /\ One(o \in ReservedIn(tk)) = One(tk[o].pc \in Reserving)
         /\ One(o \in ReservedIn(new)) = One(t.pc \in Reserving)
    BY <1>12 DEF One
  <1>16. Size(new) = Size(tk) - Units(tk[o]) + Units(t)
    BY <1>7, <1>8, <1>9, <1>10, <1>11, <1>14, <1>15 DEF Size, Units
  <1>17. Units(tk[o]) <= Size(tk) /\ Units(tk[o]) \in Nat
    BY <1>7, <1>8, <1>9, <1>13, <1>14, <1>15 DEF Size, Units
  <1>18. Sized(new)
    BY <1>1, <1>9 DEF Sized
  <1> QED BY <1>16, <1>17, <1>18 DEF new

LEMMA QueuedFits == Queued \in Task /\ Queued.pc = "queued" /\ Queued.todo = {}
  BY DEF Queued, Task, Live

\* A message is published: one more slot.
LEMMA AddTask ==
  ASSUME NEW tk, Sized(tk)
  PROVE  /\ Sized(Append(tk, Queued))
         /\ Size(Append(tk, Queued)) = Size(tk) + 1
  <1> DEFINE new == Append(tk, Queued)
             o   == Len(tk) + 1
  <1>1. /\ new \in Seq(Task) /\ DOMAIN new = DOMAIN tk \cup {o} /\ o \notin DOMAIN tk
        /\ \A k \in DOMAIN tk : new[k] = tk[k]
        /\ new[o] = Queued
    BY SeqFacts, QueuedFits DEF Sized
  <1> HIDE DEF new, o
  <1>2. UnsettledIn(new) \ {o} = UnsettledIn(tk) \ {o} /\ o \in UnsettledIn(new) /\ o \notin UnsettledIn(tk)
    BY <1>1, QueuedFits DEF UnsettledIn, Live
  <1>3. ReservedIn(new) = ReservedIn(tk)
    BY <1>1, QueuedFits DEF ReservedIn, Reserving
  <1>4. UnsentIn(new) = UnsentIn(tk)
    <2>1. {o} \X new[o].todo = {}
      BY <1>1, QueuedFits
    <2>2. UnsentIn(new) = UnsentIn(tk) \cup ({o} \X new[o].todo)
      BY <1>1 DEF UnsentIn
    <2> QED BY <2>1, <2>2
  <1>5. /\ IsFiniteSet(UnsettledIn(tk)) /\ Cardinality(UnsettledIn(tk)) \in Nat
        /\ Cardinality(UnsentIn(tk)) \in Nat /\ Cardinality(ReservedIn(tk)) \in Nat
    BY SizedFinite
  <1>6. Cardinality(UnsettledIn(new)) = Cardinality(UnsettledIn(tk)) + 1
    <2>1. Cardinality(UnsettledIn(new))
            = Cardinality(UnsettledIn(tk)) - One(o \in UnsettledIn(tk)) + One(o \in UnsettledIn(new))
      BY <1>2, <1>5, OneMember
    <2>2. One(o \in UnsettledIn(tk)) = 0 /\ One(o \in UnsettledIn(new)) = 1
      BY <1>2 DEF One
    <2> QED BY <1>5, <2>1, <2>2
  <1> QED BY <1>1, <1>3, <1>4, <1>5, <1>6 DEF Size, Sized, new

\* Tasks end without anybody settling them: the slots can only become fewer.
LEMMA DropTasks ==
  ASSUME NEW tk, Sized(tk), NEW new \in Seq(Task), DOMAIN new = DOMAIN tk,
         \A k \in DOMAIN tk : /\ new[k].pc \in Live => tk[k].pc \in Live
                              /\ new[k].pc \in Reserving => tk[k].pc \in Reserving
                              /\ new[k].todo \subseteq tk[k].todo
  PROVE  /\ Sized(new) /\ Size(new) <= Size(tk)
         /\ (\E k \in DOMAIN tk : tk[k].pc \in Live /\ new[k].pc \notin Live) => Size(new) < Size(tk)
  <1>1. /\ IsFiniteSet(UnsettledIn(tk)) /\ IsFiniteSet(UnsentIn(tk)) /\ IsFiniteSet(ReservedIn(tk))
        /\ Cardinality(UnsettledIn(tk)) \in Nat /\ Cardinality(UnsentIn(tk)) \in Nat
        /\ Cardinality(ReservedIn(tk)) \in Nat
    BY SizedFinite
  <1>2. /\ UnsettledIn(new) \in SUBSET UnsettledIn(tk) /\ UnsentIn(new) \in SUBSET UnsentIn(tk)
        /\ ReservedIn(new) \in SUBSET ReservedIn(tk)
    BY DEF UnsettledIn, UnsentIn, ReservedIn
  <1>3. /\ IsFiniteSet(UnsettledIn(new)) /\ IsFiniteSet(UnsentIn(new)) /\ IsFiniteSet(ReservedIn(new))
        /\ Cardinality(UnsettledIn(new)) <= Cardinality(UnsettledIn(tk))
        /\ Cardinality(UnsettledIn(tk)) = Cardinality(UnsettledIn(new)) => UnsettledIn(tk) = UnsettledIn(new)
        /\ Cardinality(UnsentIn(new)) <= Cardinality(UnsentIn(tk))
        /\ Cardinality(ReservedIn(new)) <= Cardinality(ReservedIn(tk))
    BY <1>1, <1>2, FS_Subset
  <1>4. /\ Cardinality(UnsettledIn(new)) \in Nat /\ Cardinality(UnsentIn(new)) \in Nat
        /\ Cardinality(ReservedIn(new)) \in Nat
    BY <1>3, FS_CardinalityType
  <1>5. (\E k \in DOMAIN tk : tk[k].pc \in Live /\ new[k].pc \notin Live)
           => Cardinality(UnsettledIn(new)) < Cardinality(UnsettledIn(tk))
    <2>1. (\E k \in DOMAIN tk : tk[k].pc \in Live /\ new[k].pc \notin Live) => UnsettledIn(tk) # UnsettledIn(new)
      BY DEF UnsettledIn
    <2> QED BY <1>1, <1>3, <1>4, <2>1
  <1> QED BY <1>1, <1>3, <1>4, <1>5 DEF Size, Sized

-----------------------------------------------------------------------------
(* One step of one task                                                        *)

\* Links wait in a task exactly while it queues them.
Fit == {t \in Task : IsFiniteSet(t.todo) /\ (t.todo # {} <=> t.pc \in Queuing)}

TaskInv ==
  /\ Sized(task) /\ \A o \in Offset : task[o] \in Fit
  /\ crawl_requests \in Seq(CrawlRequest) /\ Len(task) = Len(crawl_requests)

Becomes(o, t)  == task' = [task EXCEPT ![o] = t] /\ UNCHANGED crawl_requests
Sends(o, t, m) == /\ task' = Append([task EXCEPT ![o] = t], Queued)
                  /\ crawl_requests' = Append(crawl_requests, m)

\* Task o moves on, and the slots held by the tasks change by d.
Changes(o, d) ==
  \E t \in Fit : \/ Becomes(o, t) /\ Units(t) = Units(task[o]) + d
                 \/ \E m \in CrawlRequest : Sends(o, t, m) /\ Units(t) + 1 = Units(task[o]) + d

\* What is left of the others, and of the messages.
Apart(o) ==
  /\ Offset \subseteq Offset'
  /\ \A k \in Offset : task'[k] \in Fit /\ (k # o => task'[k] = task[k])
                                      /\ crawl_requests'[k] = crawl_requests[k]
  /\ \A k \in Offset' \ Offset : task'[k] = Queued
  /\ Len(crawl_requests) <= Len(crawl_requests')

\* The sets of control points, opened once.
LEMMA Points ==
  /\ Live = {"queued", "gate", "raised", "settle", "settle_failed", "start", "fetch", "escalating",
             "handoff", "handed_off", "children", "mark", "send", "publish", "log"}
  /\ Reserving \subseteq Live /\ Queuing \subseteq Live /\ Reserving \cap Queuing = {}
  /\ "done" \notin Live /\ "lost" \notin Live
  BY DEF Live, Processing, Reserving, Queuing

LEMMA ChangesSize ==
  ASSUME TaskInv, NEW o \in Offset, NEW d \in Int, Changes(o, d)
  PROVE  TaskInv' /\ Size(task') = Size(task) + d /\ Apart(o)
  <1>1. PICK t \in Fit : \/ Becomes(o, t) /\ Units(t) = Units(task[o]) + d
                         \/ \E m \in CrawlRequest : Sends(o, t, m) /\ Units(t) + 1 = Units(task[o]) + d
    BY DEF Changes
  <1>2. /\ Sized(task) /\ task \in Seq(Task) /\ o \in DOMAIN task /\ IsFiniteSet(task[o].todo)
        /\ t \in Task /\ IsFiniteSet(t.todo)
    BY DEF TaskInv, Fit, Offset, Sized
  <1> DEFINE one == [task EXCEPT ![o] = t]
  <1>3. /\ Sized(one) /\ Size(one) = Size(task) - Units(task[o]) + Units(t) /\ Size(task) \in Nat
        /\ Units(task[o]) \in Nat /\ Units(t) \in Nat
    BY <1>2, SetTask, UnitsNat, SizedFinite
  <1>4. /\ one \in Seq(Task) /\ Len(one) = Len(task) /\ DOMAIN one = DOMAIN task /\ DOMAIN task = 1..Len(task)
        /\ Len(task) \in Nat
        /\ \A k \in DOMAIN task : one[k] = IF k = o THEN t ELSE task[k]
    BY <1>2, SeqFacts
  <1>5. \A k \in DOMAIN task : one[k] \in Fit
    BY <1>4 DEF TaskInv, Offset
  <1> HIDE DEF one
  <1>6. CASE Becomes(o, t) /\ Units(t) = Units(task[o]) + d
    <2>1. task' = one /\ crawl_requests' = crawl_requests /\ Size(one) = Size(task) + d
      BY <1>3, <1>6 DEF Becomes, one
    <2>2. TaskInv'
      BY <1>3, <1>4, <1>5, <2>1 DEF TaskInv, Offset, Sized
    <2>3. Apart(o)
      BY <1>4, <1>5, <2>1 DEF Apart, Offset, TaskInv
    <2> QED BY <2>1, <2>2, <2>3
  <1>7. ASSUME NEW m \in CrawlRequest, Sends(o, t, m), Units(t) + 1 = Units(task[o]) + d
        PROVE  TaskInv' /\ Size(task') = Size(task) + d /\ Apart(o)
    <2>1. task' = Append(one, Queued) /\ crawl_requests' = Append(crawl_requests, m)
      BY <1>7 DEF Sends, one
    <2>2. Sized(task') /\ Size(task') = Size(one) + 1
      BY <1>3, <2>1, AddTask
    <2>3. Size(one) \in Nat
      BY <1>3, SizedFinite
    <2>4. Size(task') = Size(task) + d
      BY <1>3, <1>7, <2>2, <2>3
    <2>5. /\ task' \in Seq(Task) /\ Len(task') = Len(task) + 1 /\ DOMAIN task' = 1..(Len(task) + 1)
          /\ \A k \in 1..Len(task) : task'[k] = one[k]
          /\ task'[Len(task) + 1] = Queued
      BY <1>4, <2>1, SeqFacts, QueuedFits
    <2>6. /\ crawl_requests' \in Seq(CrawlRequest) /\ Len(crawl_requests') = Len(crawl_requests) + 1
          /\ \A k \in 1..Len(crawl_requests) : crawl_requests'[k] = crawl_requests[k]
      BY <2>1, SeqFacts DEF TaskInv
    <2>7. Queued \in Fit
      BY QueuedFits, Points, FS_EmptySet DEF Fit, Queuing
    <2>8. TaskInv'
      BY <1>4, <1>5, <2>2, <2>5, <2>6, <2>7 DEF TaskInv, Offset
    <2>9. Apart(o)
      BY <1>4, <1>5, <2>5, <2>6 DEF Apart, Offset, TaskInv
    <2> QED BY <2>4, <2>8, <2>9
  <1> QED BY <1>1, <1>6, <1>7

\* What a task holds that has no links left, by its control point.
Held(pc) == IF pc \in Reserving THEN 2 ELSE IF pc \in Live THEN 1 ELSE 0

LEMMA HeldUnits ==
  ASSUME NEW t \in Fit, t.pc \notin Queuing
  PROVE  t.todo = {} /\ Units(t) = Held(t.pc)
  <1>1. t.todo = {} /\ Cardinality(t.todo) = 0
    BY FS_EmptySet DEF Fit
  <1>2. Reserving \subseteq Live
    BY Points
  <1>3. /\ One(t.pc \in Live) = (IF t.pc \in Live THEN 1 ELSE 0)
        /\ One(t.pc \in Reserving) = (IF t.pc \in Reserving THEN 1 ELSE 0)
    BY DEF One
  <1> QED BY <1>1, <1>2, <1>3 DEF Units, Held

LEMMA RestFits ==
  ASSUME NEW pc \in Live \cup {"done", "lost"}, pc \notin Queuing
  PROVE  [pc |-> pc, todo |-> {}] \in Fit /\ Units([pc |-> pc, todo |-> {}]) = Held(pc)
  <1>1. [pc |-> pc, todo |-> {}] \in Fit
    BY FS_EmptySet DEF Fit, Task
  <1> QED BY <1>1, HeldUnits

LEMMA GotoChanges ==
  ASSUME TaskInv, NEW o \in Offset, task[o].pc \notin Queuing,
         NEW pc \in Live \cup {"done", "lost"}, pc \notin Queuing, Goto(o, pc), UNCHANGED crawl_requests
  PROVE  Changes(o, Held(pc) - Held(task[o].pc))
  <1>1. Units(task[o]) = Held(task[o].pc)
    BY HeldUnits DEF TaskInv
  <1>2. Held(pc) \in Nat /\ Held(task[o].pc) \in Nat
    BY DEF Held
  <1>3. /\ Becomes(o, [pc |-> pc, todo |-> {}])
        /\ Units([pc |-> pc, todo |-> {}]) = Units(task[o]) + (Held(pc) - Held(task[o].pc))
    BY <1>1, <1>2, RestFits DEF Goto, Becomes
  <1> QED BY <1>3, RestFits DEF Changes

LEMMA SendToChanges ==
  ASSUME TaskInv, NEW o \in Offset, task[o].pc \notin Queuing,
         NEW pc \in Live \cup {"done", "lost"}, pc \notin Queuing, NEW m \in CrawlRequest, SendTo(o, m, pc)
  PROVE  Changes(o, Held(pc) + 1 - Held(task[o].pc))
  <1>1. Units(task[o]) = Held(task[o].pc)
    BY HeldUnits DEF TaskInv
  <1>2. Held(pc) \in Nat /\ Held(task[o].pc) \in Nat
    BY DEF Held
  <1>3. /\ Sends(o, [pc |-> pc, todo |-> {}], m)
        /\ Units([pc |-> pc, todo |-> {}]) + 1 = Units(task[o]) + (Held(pc) + 1 - Held(task[o].pc))
    BY <1>1, <1>2, RestFits DEF SendTo, Sends
  <1> QED BY <1>3, RestFits DEF Changes

-----------------------------------------------------------------------------
(* What a step of a task does to the row and to the slots                      *)

SameLog == crawl_log' = crawl_log

Idle          == row' = row /\ SameLog
RegisterRow(n) == n \in Nat \ {0} /\ row' = register_job_tasks(row, n) /\ SameLog
Failing       == \E k \in Offset : At(k, "settle_failed")
CompleteRow   == /\ \E failed \in BOOLEAN : /\ failed => Failing
                                            /\ row' = complete_job_task(row, failed, "completed" \in crawl_log)
                 /\ SameLog
LogRow        == row' = row /\ crawl_log' = {"completed"}
StatusRow(s)  == row' = update_job_status(row, s) /\ SameLog

\* The environment events after which slots are lost.
LossKind == {"send", "crash", "stop", "budget"}
Lossy == Faults \cap LossKind # {}

\* d is what the slots change by.
Kind(d) ==
  \/ d = 0 /\ Idle
  \/ RegisterRow(d)
  \/ d = -1 /\ CompleteRow
  \/ d < 0 /\ Idle /\ Lossy
  \/ d = 0 /\ LogRow
  \/ d = 0 /\ \E s \in {"running", "failed"} : StatusRow(s)
  \/ d = 0 /\ CompleteRow /\ "ambiguous" \in Faults

Effect(o) == \E d \in Int : Changes(o, d) /\ Kind(d)

LEMMA MessageTyped ==
  ASSUME TaskInv, NEW o \in Offset
  PROVE  /\ MsgAt(o) \in CrawlRequest /\ MsgAt(o).url \in Page /\ Owner(o) \in Worker \cup {"transcribe"}
         /\ MsgAt(o).depth \in Nat /\ MsgAt(o).retry_count \in Nat /\ task[o] \in Task
         /\ task[o].todo \subseteq Page
  <1>1. /\ o \in DOMAIN task /\ task \in Seq(Task) /\ crawl_requests \in Seq(CrawlRequest)
        /\ Len(task) = Len(crawl_requests)
    BY DEF TaskInv, Offset, Sized
  <1>2. task[o] \in Task /\ crawl_requests[o] \in CrawlRequest
    BY <1>1, SeqFacts
  <1> QED BY <1>2 DEF MsgAt, Owner, CrawlRequest, Task

LEMMA LogOtherSame == ASSUME LogOther \/ (\E e : LogError(e)) PROVE SameLog
  BY DEF LogOther, LogError, SameLog

LEMMA CompleteIs == ASSUME NEW f \in BOOLEAN, f => Failing, Complete(f) PROVE CompleteRow
  BY DEF Complete, CompleteRow, LogError, SameLog, logVars

LEMMA GateEffect == ASSUME TaskInv, NEW o \in Offset, PassGate(o) PROVE Effect(o)
  <1>1. PICK pc \in {"settle", "start"} : Goto(o, pc)
    BY DEF PassGate
  <1>2. /\ task[o].pc = "gate" /\ UNCHANGED crawl_requests /\ Idle
    BY DEF PassGate, At, Idle, SameLog, logVars
  <1>3. Changes(o, Held(pc) - Held(task[o].pc)) /\ Held(pc) = 1 /\ Held("gate") = 1
    BY <1>1, <1>2, GotoChanges, Points DEF Held, Queuing, Reserving
  <1> QED BY <1>2, <1>3 DEF Effect, Kind

LEMMA StartEffect == ASSUME TaskInv, NEW o \in Offset, StartPage(o) PROVE Effect(o)
  <1>1. /\ Goto(o, "fetch") /\ task[o].pc = "start" /\ UNCHANGED crawl_requests
        /\ Idle \/ StatusRow("running")
    BY DEF StartPage, At, Idle, StatusRow, SameLog, logVars
  <1>2. Changes(o, Held("fetch") - Held(task[o].pc)) /\ Held("fetch") = 1 /\ Held("start") = 1
    BY <1>1, GotoChanges, Points DEF Held, Queuing, Reserving
  <1> QED BY <1>1, <1>2 DEF Effect, Kind

LEMMA FailsEffect ==
  ASSUME TaskInv, NEW o \in Offset, BrowserUnavailable(o) \/ SignupFails(o) \/ FailPage(o) PROVE Effect(o)
  <1>1. PICK pc \in {"settle", "settle_failed"} : Goto(o, pc)
    BY DEF BrowserUnavailable, SignupFails, FailPage
  <1>2. /\ task[o].pc \in {"start", "fetch", "raised"} /\ UNCHANGED crawl_requests /\ StatusRow("failed")
    BY DEF BrowserUnavailable, SignupFails, FailPage, At, StatusRow, fail_job, LogError, SameLog
  <1>3. /\ Changes(o, Held(pc) - Held(task[o].pc)) /\ Held(pc) = 1 /\ Held(task[o].pc) = 1
    BY <1>1, <1>2, GotoChanges, Points DEF Held, Queuing, Reserving
  <1> QED BY <1>2, <1>3 DEF Effect, Kind

LEMMA QuietEffect ==
  ASSUME TaskInv, NEW o \in Offset,
         RejectPage(o) \/ LogHandOff(o) \/ PublishPage(o) \/ PageRaises(o) \/ Transcribe(o)
  PROVE  Effect(o)
  <1>1. PICK pc \in {"settle", "log", "raised"} : Goto(o, pc)
    BY DEF RejectPage, LogHandOff, PublishPage, PageRaises, Transcribe, Escaped
  <1>2. /\ task[o].pc \in {"fetch", "handed_off", "publish", "log"} /\ UNCHANGED crawl_requests /\ Idle
    BY LogOtherSame DEF RejectPage, LogHandOff, PublishPage, PageRaises, Transcribe, At, Idle, SameLog, logVars
  <1>3. /\ Changes(o, Held(pc) - Held(task[o].pc)) /\ Held(pc) = 1 /\ Held(task[o].pc) = 1
    BY <1>1, <1>2, GotoChanges, Points DEF Held, Queuing, Reserving
  <1> QED BY <1>2, <1>3 DEF Effect, Kind

LEMMA LogPageEffect == ASSUME TaskInv, NEW o \in Offset, LogPage(o) PROVE Effect(o)
  <1>1. /\ Goto(o, "settle") /\ task[o].pc = "log" /\ UNCHANGED crawl_requests
        /\ Idle \/ LogRow
    BY LogOtherSame DEF LogPage, At, Idle, LogRow, LogCompleted
  <1>2. Changes(o, Held("settle") - Held(task[o].pc)) /\ Held("settle") = 1 /\ Held("log") = 1
    BY <1>1, GotoChanges, Points DEF Held, Queuing, Reserving
  <1> QED BY <1>1, <1>2 DEF Effect, Kind

\* Escalation and the audio hand-off: a second slot is registered ...
LEMMA ReservesEffect ==
  ASSUME TaskInv, NEW o \in Offset, Escalate(o) \/ HandOffAudio(o) PROVE Effect(o)
  <1>1. PICK pc \in {"escalating", "handoff"} : Goto(o, pc)
    BY DEF Escalate, HandOffAudio
  <1>2. /\ task[o].pc = "fetch" /\ UNCHANGED crawl_requests /\ RegisterRow(1)
    BY LogOtherSame DEF Escalate, HandOffAudio, At, RegisterRow, SameLog, logVars
  <1>3. /\ Changes(o, Held(pc) - Held(task[o].pc)) /\ Held(pc) = 2 /\ Held("fetch") = 1
    BY <1>1, <1>2, GotoChanges, Points DEF Held, Queuing, Reserving
  <1> QED BY <1>2, <1>3 DEF Effect, Kind

\* ... and passes to the message, is given back, or is lost.
LEMMA SendEscalatedEffect == ASSUME TaskInv, NEW o \in Offset, SendEscalated(o) PROVE Effect(o)
  <1>1. task[o].pc = "escalating" /\ Held("escalating") = 2 /\ Idle
    BY DEF SendEscalated, At, Held, Reserving, Idle, SameLog, logVars
  <1>2. Escalated(o) \in CrawlRequest
    <2> DEFINE m == MsgAt(o)
    <2>1. m \in CrawlRequest /\ m.retry_count + 1 \in Nat /\ "deep" \in Worker \cup {"transcribe"}
      BY MessageTyped DEF Worker
    <2> HIDE DEF m
    <2>2. [m EXCEPT !.worker_type = "deep", !.retry_count = m.retry_count + 1] \in CrawlRequest
      BY <2>1 DEF CrawlRequest
    <2> QED BY <2>2 DEF Escalated, m
  <1>3. \/ \E pc \in {"settle", "raised"} : SendTo(o, Escalated(o), pc)
        \/ \E pc \in {"settle", "raised"} : Goto(o, pc) /\ UNCHANGED crawl_requests /\ "send" \in Faults
    BY DEF SendEscalated, Escaped, Fault
  <1>4. ASSUME NEW pc \in {"settle", "raised"}, SendTo(o, Escalated(o), pc) PROVE Effect(o)
    <2>1. Changes(o, Held(pc) + 1 - Held(task[o].pc)) /\ Held(pc) = 1
      BY <1>1, <1>2, <1>4, SendToChanges, Points DEF Held, Queuing, Reserving
    <2> QED BY <1>1, <2>1 DEF Effect, Kind
  <1>5. ASSUME NEW pc \in {"settle", "raised"}, Goto(o, pc), UNCHANGED crawl_requests, "send" \in Faults
        PROVE  Effect(o)
    <2>1. Changes(o, Held(pc) - Held(task[o].pc)) /\ Held(pc) = 1
      BY <1>1, <1>5, GotoChanges, Points DEF Held, Queuing, Reserving
    <2>2. Lossy
      BY <1>5 DEF Lossy, LossKind
    <2> QED BY <1>1, <2>1, <2>2 DEF Effect, Kind
  <1> QED BY <1>3, <1>4, <1>5

LEMMA SendAudioEffect == ASSUME TaskInv, NEW o \in Offset, SendAudio(o) PROVE Effect(o)
  <1>1. task[o].pc = "handoff" /\ Held("handoff") = 2 /\ Held("handed_off") = 1
    BY Points DEF SendAudio, At, Held, Reserving
  <1>2. AudioRequest(o) \in CrawlRequest
    BY MessageTyped DEF AudioRequest, Request, CrawlRequest
  <1>3. \/ SendTo(o, AudioRequest(o), "handed_off") /\ Idle
        \/ Goto(o, "handed_off") /\ UNCHANGED crawl_requests /\ CompleteRow
        \/ SendTo(o, AudioRequest(o), "handed_off") /\ CompleteRow /\ "ambiguous" \in Faults
    BY CompleteIs DEF SendAudio, Fault, Idle, SameLog, logVars
  <1>4. CASE SendTo(o, AudioRequest(o), "handed_off")
    <2>1. Changes(o, Held("handed_off") + 1 - Held(task[o].pc))
      BY <1>1, <1>2, <1>4, SendToChanges, Points DEF Queuing
    <2>2. Idle \/ (CompleteRow /\ "ambiguous" \in Faults) \/ (Goto(o, "handed_off") /\ CompleteRow /\ UNCHANGED crawl_requests)
      BY <1>3
    <2>3. ~UNCHANGED crawl_requests
      BY <1>4, <1>2, SeqFacts DEF SendTo, TaskInv
    <2> QED BY <1>1, <2>1, <2>2, <2>3 DEF Effect, Kind
  <1>5. CASE Goto(o, "handed_off") /\ UNCHANGED crawl_requests /\ CompleteRow
    <2>1. Changes(o, Held("handed_off") - Held(task[o].pc))
      BY <1>1, <1>5, GotoChanges, Points DEF Queuing
    <2> QED BY <1>1, <1>5, <2>1 DEF Effect, Kind
  <1> QED BY <1>3, <1>4, <1>5

LEMMA SettleEffect == ASSUME TaskInv, NEW o \in Offset, SettlePage(o) PROVE Effect(o)
  <1>1. /\ Goto(o, "done") /\ task[o].pc \in {"settle", "settle_failed"} /\ UNCHANGED crawl_requests
        /\ CompleteRow
    <2> DEFINE f == At(o, "settle_failed")
    <2>1. f \in BOOLEAN /\ (f => Failing)
      BY DEF Failing, At
    <2>2. /\ Goto(o, "done") /\ task[o].pc \in {"settle", "settle_failed"} /\ UNCHANGED crawl_requests
          /\ Complete(f)
      BY DEF SettlePage, complete_job_task_from_message, owns_message, Owner
    <2> HIDE DEF f
    <2> QED BY <2>1, <2>2, CompleteIs
  <1>2. Changes(o, Held("done") - Held(task[o].pc)) /\ Held("done") = 0 /\ Held(task[o].pc) = 1
    BY <1>1, GotoChanges, Points DEF Held, Queuing, Reserving
  <1> QED BY <1>1, <1>2 DEF Effect, Kind

\* A task that queues links, or has queued the last one.
LEMMA QueuingFits ==
  ASSUME NEW T \in SUBSET Page, IsFiniteSet(T), NEW w,
         NEW pc, pc = IF T = {} THEN AfterChildren(w) ELSE "children"
  PROVE  [pc |-> pc, todo |-> T] \in Fit /\ Units([pc |-> pc, todo |-> T]) = 1 + Cardinality(T)
  <1> DEFINE t == [pc |-> pc, todo |-> T]
  <1>1. /\ pc \in Live /\ pc \notin Reserving /\ (T # {} <=> pc \in Queuing)
    BY Points DEF AfterChildren, Queuing, Reserving
  <1>2. t \in Fit
    BY <1>1 DEF Fit, Task
  <1>3. Cardinality(T) \in Nat
    BY FS_CardinalityType
  <1> QED BY <1>1, <1>2, <1>3 DEF Units, One

LEMMA QueuingUnits ==
  ASSUME NEW t \in Fit, t.pc \in Queuing
  PROVE  /\ Units(t) = 1 + Cardinality(t.todo) /\ Cardinality(t.todo) \in Nat /\ t.todo # {}
         /\ \A pc \in Queuing : /\ [pc |-> pc, todo |-> t.todo] \in Fit
                                /\ Units([pc |-> pc, todo |-> t.todo]) = Units(t)
                                /\ [t EXCEPT !.pc = pc] = [pc |-> pc, todo |-> t.todo]
  <1>1. Cardinality(t.todo) \in Nat /\ t.todo # {} /\ t \in Task
    BY FS_CardinalityType DEF Fit
  <1>2. t.pc \in Live /\ t.pc \notin Reserving
    BY Points
  <1>3. Units(t) = 1 + Cardinality(t.todo)
    BY <1>1, <1>2 DEF Units, One
  <1>4. ASSUME NEW pc \in Queuing
        PROVE  /\ [pc |-> pc, todo |-> t.todo] \in Fit
               /\ Units([pc |-> pc, todo |-> t.todo]) = Units(t)
               /\ [t EXCEPT !.pc = pc] = [pc |-> pc, todo |-> t.todo]
    <2>1. pc \in Live /\ pc \notin Reserving
      BY Points
    <2>2. [pc |-> pc, todo |-> t.todo] \in Fit
      BY <1>1, <2>1 DEF Fit, Task
    <2>3. Units([pc |-> pc, todo |-> t.todo]) = 1 + Cardinality(t.todo)
      BY <1>1, <2>1 DEF Units, One
    <2> QED BY <1>1, <1>3, <2>2, <2>3 DEF Task
  <1> QED BY <1>1, <1>3, <1>4

LEMMA ChildrenFinite ==
  ASSUME TaskInv, NEW o \in Offset
  PROVE  Children(o) \in SUBSET Page /\ IsFiniteSet(Children(o)) /\ Cardinality(Children(o)) \in Nat
  <1>1. Children(o) \in SUBSET Page /\ IsFiniteSet(Children(o))
    BY MessageTyped, CrawlAssumption, FS_EmptySet DEF Children
  <1> QED BY <1>1, FS_CardinalityType

LEMMA BecomesChanges ==
  ASSUME NEW o, NEW t \in Fit, Becomes(o, t), NEW d \in Int, Units(t) \in Nat, Units(task[o]) \in Nat,
         d = Units(t) - Units(task[o])
  PROVE  Changes(o, d)
  <1>1. Units(t) = Units(task[o]) + d
    OBVIOUS
  <1> QED BY <1>1 DEF Changes

LEMMA SendsChanges ==
  ASSUME NEW o, NEW t \in Fit, NEW m \in CrawlRequest, Sends(o, t, m), NEW d \in Int,
         Units(t) \in Nat, Units(task[o]) \in Nat, d = Units(t) + 1 - Units(task[o])
  PROVE  Changes(o, d)
  <1>1. Units(t) + 1 = Units(task[o]) + d
    OBVIOUS
  <1> QED BY <1>1 DEF Changes

LEMMA ReserveEffect ==
  ASSUME TaskInv, NEW o \in Offset, ExtractChildren(o) \/ PublishParsed(o) PROVE Effect(o)
  <1> DEFINE pc == IF Children(o) = {} THEN AfterChildren(Owner(o)) ELSE "children"
             t == [pc |-> pc, todo |-> Children(o)]
             d == Cardinality(Children(o))
  <1>1. /\ task' = [task EXCEPT ![o] = t] /\ UNCHANGED crawl_requests /\ task[o].pc = "fetch"
        /\ row' = register_job_tasks(row, d) /\ SameLog
    BY DEF ExtractChildren, PublishParsed, ReserveChildren, At, SameLog, logVars
  <1>2. t \in Fit /\ Units(t) = 1 + d /\ d \in Nat
    BY ChildrenFinite, QueuingFits
  <1>3. Units(task[o]) = 1
    BY <1>1, HeldUnits, Points DEF TaskInv, Held, Queuing, Reserving
  <1> HIDE DEF t, d
  <1>4. Changes(o, d)
    BY <1>1, <1>2, <1>3 DEF Changes, Becomes
  <1>5. CASE d = 0
    BY <1>1, <1>2, <1>4, <1>5 DEF Effect, Kind, Idle, register_job_tasks
  <1>6. CASE d # 0
    BY <1>1, <1>2, <1>4, <1>6 DEF Effect, Kind, RegisterRow
  <1> QED BY <1>5, <1>6

LEMMA NextLinkIs ==
  ASSUME TaskInv, NEW o \in Offset, task[o].pc \in Queuing
  PROVE  /\ NextLink(o) \in task[o].todo /\ NextLink(o) \in Page /\ task[o] \in Fit
         /\ task[o].todo \in SUBSET Page /\ IsFiniteSet(task[o].todo)
  <1>1. task[o] \in Fit /\ task[o].todo # {} /\ task[o].todo \in SUBSET Page /\ IsFiniteSet(task[o].todo)
    BY DEF TaskInv, Fit, Task
  <1>2. NextLink(o) \in task[o].todo
    BY <1>1 DEF NextLink
  <1> QED BY <1>1, <1>2

\* One link less to queue.
LEMMA ToNextLinkIs ==
  ASSUME TaskInv, NEW o \in Offset, task[o].pc \in Queuing
  PROVE  \E t \in Fit : ToNextLink(o) = [task EXCEPT ![o] = t] /\ Units(t) = Units(task[o]) - 1
                        /\ t.todo = task[o].todo \ {NextLink(o)} /\ Units(task[o]) \in Nat
  <1> DEFINE rest == task[o].todo \ {NextLink(o)}
             pc == IF rest = {} THEN AfterChildren(Owner(o)) ELSE "children"
             t == [pc |-> pc, todo |-> rest]
  <1>1. /\ IsFiniteSet(rest) /\ Cardinality(rest) = Cardinality(task[o].todo) - 1
        /\ rest \in SUBSET Page
    BY NextLinkIs, FS_RemoveElement
  <1>2. Units(task[o]) = 1 + Cardinality(task[o].todo) /\ Cardinality(task[o].todo) \in Nat
    BY NextLinkIs, QueuingUnits
  <1>3. ToNextLink(o) = [task EXCEPT ![o] = t]
    BY DEF ToNextLink
  <1> HIDE DEF rest
  <1>4. t \in Fit /\ Units(t) = 1 + Cardinality(rest)
    BY <1>1, QueuingFits
  <1>5. t.todo = rest
    OBVIOUS
  <1> HIDE DEF t
  <1>6. Units(t) = Units(task[o]) - 1 /\ Units(task[o]) \in Nat
    BY <1>1, <1>2, <1>4
  <1> QED BY <1>3, <1>4, <1>5, <1>6 DEF rest

LEMMA CheckEffect ==
  ASSUME TaskInv, NEW o \in Offset, CheckLink(o) \/ MarkLink(o) PROVE Effect(o)
  <1>1. /\ task[o].pc \in Queuing /\ UNCHANGED crawl_requests
        /\ \/ task' = ToNextLink(o) /\ CompleteRow
           \/ \E pc \in Queuing : task' = [task EXCEPT ![o].pc = pc] /\ Idle
    BY CompleteIs DEF CheckLink, MarkLink, At, Queuing, Idle, SameLog, logVars
  <1>2. CASE task' = ToNextLink(o) /\ CompleteRow
    <2>1. PICK t \in Fit : ToNextLink(o) = [task EXCEPT ![o] = t] /\ Units(t) = Units(task[o]) - 1
                           /\ Units(task[o]) \in Nat
      BY <1>1, ToNextLinkIs
    <2>2. Changes(o, -1)
      BY <1>1, <1>2, <2>1 DEF Changes, Becomes
    <2> QED BY <1>2, <2>2 DEF Effect, Kind
  <1>3. ASSUME NEW pc \in Queuing, task' = [task EXCEPT ![o].pc = pc], Idle PROVE Effect(o)
    <2>1. task[o] \in Fit
      BY DEF TaskInv
    <2> DEFINE t == [pc |-> pc, todo |-> task[o].todo]
    <2>2. t \in Fit /\ Units(t) = Units(task[o]) /\ [task[o] EXCEPT !.pc = pc] = t
          /\ Units(task[o]) \in Nat
      BY <1>1, <2>1, QueuingUnits
    <2>3. task' = [task EXCEPT ![o] = t]
      BY <1>3, <2>2
    <2> HIDE DEF t
    <2>4. Changes(o, 0)
      <3>1. Becomes(o, t) /\ 0 = Units(t) - Units(task[o])
        BY <1>1, <2>2, <2>3 DEF Becomes
      <3> QED BY <2>2, <3>1, BecomesChanges
    <2> QED BY <1>3, <2>4 DEF Effect, Kind
  <1> QED BY <1>1, <1>2, <1>3

LEMMA SendChildEffect ==
  ASSUME TaskInv, NEW o \in Offset, SendChild(o) PROVE Effect(o)
  <1>1. /\ task[o].pc \in Queuing
        /\ \/ crawl_requests' = Append(crawl_requests, ChildRequest(o)) /\ task' = Append(ToNextLink(o), Queued)
              /\ (Idle \/ (CompleteRow /\ "ambiguous" \in Faults))
           \/ task' = ToNextLink(o) /\ UNCHANGED crawl_requests /\ CompleteRow
    BY CompleteIs DEF SendChild, At, Queuing, Idle, SameLog, logVars, Fault
  <1>2. PICK t \in Fit : ToNextLink(o) = [task EXCEPT ![o] = t] /\ Units(t) = Units(task[o]) - 1
                         /\ Units(task[o]) \in Nat
    BY <1>1, ToNextLinkIs
  <1>3. ChildRequest(o) \in CrawlRequest
    <2>1. NextLink(o) \in Page /\ assign_worker[NextLink(o)] \in Worker
      BY <1>1, NextLinkIs, CrawlAssumption
    <2> QED BY <2>1, MessageTyped DEF ChildRequest, Request, CrawlRequest
  <1>4. CASE crawl_requests' = Append(crawl_requests, ChildRequest(o)) /\ task' = Append(ToNextLink(o), Queued)
             /\ (Idle \/ (CompleteRow /\ "ambiguous" \in Faults))
    <2>1. Changes(o, 0)
      <3>1. Sends(o, t, ChildRequest(o)) /\ 0 = Units(t) + 1 - Units(task[o]) /\ Units(t) \in Nat
        BY <1>2, <1>4, UnitsNat DEF Sends, Fit
      <3> DEFINE m == ChildRequest(o)
      <3>2. m \in CrawlRequest /\ Sends(o, t, m) /\ Units(task[o]) \in Nat /\ 0 = Units(t) + 1 - Units(task[o])
        BY <1>2, <1>3, <3>1
      <3> HIDE DEF m
      <3> QED BY <3>1, <3>2, SendsChanges
    <2> QED BY <1>4, <2>1 DEF Effect, Kind
  <1>5. CASE task' = ToNextLink(o) /\ UNCHANGED crawl_requests /\ CompleteRow
    <2>1. Changes(o, -1)
      BY <1>2, <1>5 DEF Changes, Becomes
    <2> QED BY <1>5, <2>1 DEF Effect, Kind
  <1> QED BY <1>1, <1>4, <1>5

LEMMA BudgetEffect ==
  ASSUME TaskInv, NEW o \in Offset, BudgetExceeded(o) PROVE Effect(o)
  <1>1. /\ task[o].pc \in Processing \cup {"gate"} /\ Goto(o, "settle") /\ UNCHANGED crawl_requests
        /\ Idle /\ Lossy
    BY LogOtherSame DEF BudgetExceeded, Idle, Fault, Lossy, LossKind
  <1> DEFINE t == [pc |-> "settle", todo |-> {}]
             d == 1 - Units(task[o])
  <1>2. t \in Fit /\ Units(t) = 1
    BY RestFits, Points DEF Held, Queuing, Reserving
  <1>3. Units(task[o]) \in Nat /\ Units(task[o]) >= 1
    <2>1. task[o] \in Fit /\ task[o].pc \in Live
      BY <1>1, Points DEF TaskInv, Live
    <2>2. Cardinality(task[o].todo) \in Nat
      BY <2>1, FS_CardinalityType DEF Fit
    <2> QED BY <2>1, <2>2 DEF Units, One
  <1>4. task' = [task EXCEPT ![o] = t]
    BY <1>1 DEF Goto
  <1> HIDE DEF t
  <1>5. Changes(o, d) /\ d <= 0 /\ d \in Int
    <2>1. Becomes(o, t) /\ d = Units(t) - Units(task[o]) /\ d \in Int /\ d <= 0
      BY <1>1, <1>2, <1>3, <1>4 DEF Becomes
    <2> QED BY <1>2, <1>3, <2>1, BecomesChanges
  <1> HIDE DEF d
  <1> QED BY <1>1, <1>5 DEF Effect, Kind

\* Every step of a task: its slots and the row change together.
LEMMA TaskEffect ==
  ASSUME TaskInv, NEW o \in Offset, TaskStep(o) \/ TaskFault(o) PROVE Effect(o)
  BY GateEffect, StartEffect, FailsEffect, QuietEffect, LogPageEffect, ReservesEffect, SendEscalatedEffect,
     SendAudioEffect, SettleEffect, ReserveEffect, CheckEffect, SendChildEffect, BudgetEffect
  DEF TaskStep, TaskFault

-----------------------------------------------------------------------------
(* The statements on the row                                                   *)

RowWrite ==
  \/ row' = row
  \/ \E n \in Nat : row' = register_job_tasks(row, n)
  \/ \E failed \in BOOLEAN : row' = complete_job_task(row, failed, "completed" \in crawl_log)
  \/ \E s \in {"running", "failed"} : row' = update_job_status(row, s)
  \/ row' = pause_job(row)
  \/ row' = resume_job(row)

\* No statement writes 'skipped' on the row of a crawl job.
NeverSkipped == row.status # "skipped"

LEMMA Decrements == ASSUME NEW n \in Nat
                    PROVE  Decremented(n) \in Nat /\ (n > 0 => Decremented(n) = n - 1) /\ (n = 0 => Decremented(n) = 0)
  BY DEF Decremented

\* complete_job_task, its three cases.
LEMMA Completes ==
  ASSUME NEW r \in Row, NEW f \in BOOLEAN, NEW a \in BOOLEAN
  PROVE  LET q == complete_job_task(r, f, a) IN
         /\ q \in Row /\ (r.status # "skipped" => q.status # "skipped")
         /\ r.status \in {"completed", "failed"} => q.status = r.status
         /\ \/ f /\ r.status \in {"completed", "paused"} /\ q = r
            \/ /\ f /\ r.status \notin {"completed", "paused"} /\ q.status = "failed"
               /\ q.active_tasks = Decremented(r.active_tasks)
            \/ /\ ~f /\ q.active_tasks = Decremented(r.active_tasks)
               /\ q.status = IF r.active_tasks <= 1 /\ r.status \in ActiveStatus
                             THEN IF a THEN "completed" ELSE "failed" ELSE r.status
  <1> DEFINE q == complete_job_task(r, f, a)
  <1>1. Decremented(r.active_tasks) \in Nat
    BY Decrements DEF Row
  <1>2. CASE f /\ r.status \in {"completed", "paused"}
    BY <1>2 DEF complete_job_task
  <1>3. CASE f /\ r.status \notin {"completed", "paused"}
    <2>1. q = [r EXCEPT !.status = "failed", !.active_tasks = Decremented(r.active_tasks)]
      BY <1>3 DEF complete_job_task
    <2>2. q \in Row /\ q.status = "failed" /\ q.active_tasks = Decremented(r.active_tasks)
      BY <1>1, <2>1 DEF Row, JobStatus
    <2> HIDE DEF q
    <2> QED BY <1>3, <2>2 DEF q
  <1>4. CASE ~f
    <2> DEFINE s == IF r.active_tasks <= 1 /\ r.status \in ActiveStatus
                    THEN IF a THEN "completed" ELSE "failed" ELSE r.status
    <2>1. q = [r EXCEPT !.active_tasks = Decremented(r.active_tasks), !.status = s]
      BY <1>4 DEF complete_job_task, Settled
    <2>2. s \in JobStatus /\ (r.status # "skipped" => s # "skipped")
          /\ (r.status \in {"completed", "failed"} => s = r.status)
      BY DEF Row, JobStatus, ActiveStatus
    <2> HIDE DEF s, q
    <2>3. q \in Row /\ q.status = s /\ q.active_tasks = Decremented(r.active_tasks)
      BY <1>1, <2>1, <2>2 DEF Row
    <2> QED BY <1>4, <2>2, <2>3 DEF q, s
  <1> QED BY <1>2, <1>3, <1>4

LEMMA Updates ==
  ASSUME NEW r \in Row, NEW s \in {"running", "failed"}
  PROVE  LET q == update_job_status(r, s) IN
         /\ q \in Row /\ q.active_tasks = r.active_tasks /\ (q.status = r.status \/ q.status = s)
         /\ r.status \in {"completed", "failed"} => q.status = r.status
         /\ s = "failed" /\ r.status # "completed" => q.status = "failed"
         /\ q.status = "completed" => r.status = "completed"
  BY DEF update_job_status, Row, JobStatus, ActiveStatus

LEMMA Pauses ==
  ASSUME NEW r \in Row
  PROVE  /\ pause_job(r) \in Row /\ pause_job(r).active_tasks = r.active_tasks
         /\ pause_job(r).status \in {r.status, "paused"}
         /\ r.status \in {"completed", "failed"} => pause_job(r).status = r.status
         /\ resume_job(r) \in Row /\ resume_job(r).active_tasks = r.active_tasks
         /\ resume_job(r).status \in {r.status} \cup ActiveStatus
         /\ r.status \in {"completed", "failed"} => resume_job(r).status = r.status
  <1>1. /\ pause_job(r) \in Row /\ pause_job(r).active_tasks = r.active_tasks
        /\ pause_job(r).status \in {r.status, "paused"}
        /\ r.status \in {"completed", "failed"} => pause_job(r).status = r.status
    BY DEF pause_job, Row, JobStatus, ActiveStatus
  <1>2. /\ resume_job(r) \in Row /\ resume_job(r).active_tasks = r.active_tasks
        /\ resume_job(r).status \in {r.status} \cup ActiveStatus
        /\ r.status \in {"completed", "failed"} => resume_job(r).status = r.status
    BY DEF resume_job, Row, JobStatus, ActiveStatus, NULL
  <1> QED BY <1>1, <1>2

LEMMA Registers ==
  ASSUME NEW r \in Row, NEW n \in Nat
  PROVE  LET q == register_job_tasks(r, n) IN
         q \in Row /\ q.status = r.status /\ q.active_tasks = r.active_tasks + n
  BY DEF register_job_tasks, Row

LEMMA RowWriteKeeps ==
  ASSUME row \in Row, NeverSkipped, RowWrite
  PROVE  row' \in Row /\ NeverSkipped' /\ (Finished => row'.status = row.status)
  <1>1. ("completed" \in crawl_log) \in BOOLEAN /\ (Finished => row.status \in {"completed", "failed"})
    BY DEF Finished, FinishedStatus, NeverSkipped
  <1>2. ASSUME NEW n \in Nat, row' = register_job_tasks(row, n)
        PROVE  row' \in Row /\ row'.status = row.status
    BY <1>2, Registers
  <1>3. ASSUME NEW f \in BOOLEAN, row' = complete_job_task(row, f, "completed" \in crawl_log)
        PROVE  row' \in Row /\ NeverSkipped' /\ (Finished => row'.status = row.status)
    <2> DEFINE a == "completed" \in crawl_log
    <2>1. a \in BOOLEAN /\ row' = complete_job_task(row, f, a)
      BY <1>3
    <2> HIDE DEF a
    <2>2. /\ row' \in Row /\ (row.status # "skipped" => row'.status # "skipped")
          /\ row.status \in {"completed", "failed"} => row'.status = row.status
      BY <2>1, Completes
    <2> QED BY <1>1, <2>2 DEF NeverSkipped
  <1>4. ASSUME NEW s \in {"running", "failed"}, row' = update_job_status(row, s)
        PROVE  row' \in Row /\ NeverSkipped' /\ (Finished => row'.status = row.status)
    BY <1>1, <1>4, Updates DEF NeverSkipped
  <1>5. ASSUME row' = pause_job(row) \/ row' = resume_job(row)
        PROVE  row' \in Row /\ NeverSkipped' /\ (Finished => row'.status = row.status)
    BY <1>1, <1>5, Pauses DEF NeverSkipped, ActiveStatus
  <1> QED BY <1>2, <1>3, <1>4, <1>5 DEF RowWrite, NeverSkipped

LEMMA KindWrites == ASSUME NEW d, Kind(d) PROVE RowWrite
  BY DEF Kind, RowWrite, Idle, RegisterRow, CompleteRow, LogRow, StatusRow

-----------------------------------------------------------------------------
(* The type invariant, whatever the environment does                           *)

Reasons == {NULL, "publish_failed", "worker_error", "browser_unavailable", "page_failed", "browser_render",
            "auto_signup", "task_failed", "all_sites_failed", "watchdog_timeout", "retry_requested"}

\* The variables that are neither the row nor the topic nor the tasks.
LogsOK == crawl_log \subseteq {"completed"} /\ failure_reason \in Reasons /\ stale \in BOOLEAN
ApiOK  == submit \in {"publish", "mark", "done"} /\ failing \subseteq {"watchdog_timeout", "retry_requested"}
PagesOK == /\ visited \subseteq Page /\ published \subseteq Offset
           /\ raised \subseteq Worker \cup {"transcribe"} /\ faults \in 0..MaxFaults

Positions ==
  /\ position \in [Group -> Nat] /\ committed \in [Group -> Nat]
  /\ \A g \in Group : committed[g] <= position[g] /\ position[g] <= Len(crawl_requests)

\* A message is not processed before its group received it.
Delivered == \A o \in Offset : Owner(o) \in Group /\ o > position[Owner(o)] => task[o] = Queued

RowOK == row \in Row /\ NeverSkipped

TypeInv == RowOK /\ TaskInv /\ LogsOK /\ ApiOK /\ PagesOK /\ Positions /\ Delivered

LEMMA TypeInvTyped == TypeInv => TypeOK
  BY DEF TypeInv, RowOK, TaskInv, Sized, LogsOK, ApiOK, PagesOK, Positions, TypeOK, Reasons

LEMMA FaultCounts == ASSUME PagesOK, NEW k, Fault(k) PROVE faults' \in 0..MaxFaults /\ k \in Faults
  BY CrawlAssumption DEF PagesOK, Fault

LEMMA LogsKept ==
  ASSUME LogsOK, \/ LogOther \/ LogCompleted \/ UNCHANGED logVars \/ (\E e \in Reasons : LogError(e))
                 \/ (\E f \in BOOLEAN : Complete(f)) \/ (\E e \in Reasons : fail_job(e))
  PROVE  LogsOK'
  BY DEF LogsOK, LogOther, LogCompleted, LogError, Complete, fail_job, logVars, Reasons

LEMMA TaskLogs ==
  ASSUME TypeInv, NEW o \in Offset, TaskStep(o) \/ TaskFault(o) PROVE LogsOK'
  <1>1. LogsOK
    BY DEF TypeInv
  <1>2. CASE PassGate(o) \/ StartPage(o) \/ Escalate(o) \/ SendEscalated(o) \/ ExtractChildren(o) \/ MarkLink(o)
             \/ PublishPage(o) \/ PublishParsed(o) \/ Transcribe(o) \/ HandOffAudio(o) \/ LogHandOff(o) \/ PageRaises(o)
    <2>1. UNCHANGED logVars \/ LogOther
      BY <1>2 DEF PassGate, StartPage, Escalate, SendEscalated, ExtractChildren, MarkLink, PublishPage,
                  PublishParsed, Transcribe, HandOffAudio, LogHandOff, PageRaises
    <2> QED BY <1>1, <2>1, LogsKept
  <1>3. CASE RejectPage(o) \/ LogPage(o)
    <2>1. LogOther \/ LogCompleted \/ LogError("page_failed")
      BY <1>3 DEF RejectPage, LogPage
    <2> QED BY <1>1, <2>1, LogsKept DEF Reasons
  <1>4. CASE SendAudio(o) \/ CheckLink(o) \/ SendChild(o) \/ SettlePage(o)
    <2>1. CASE SendAudio(o) \/ CheckLink(o) \/ SendChild(o)
      <3>1. UNCHANGED logVars \/ Complete(FALSE)
        BY <2>1 DEF SendAudio, CheckLink, SendChild
      <3> QED BY <1>1, <3>1, LogsKept
    <2>2. CASE SettlePage(o)
      <3> DEFINE f == At(o, "settle_failed")
      <3>1. f \in BOOLEAN
        BY DEF At
      <3>2. UNCHANGED logVars \/ Complete(f)
        BY <2>2 DEF SettlePage, complete_job_task_from_message
      <3> HIDE DEF f
      <3> QED BY <1>1, <3>1, <3>2, LogsKept
    <2> QED BY <1>4, <2>1, <2>2
  <1>5. CASE BrowserUnavailable(o) \/ SignupFails(o) \/ BudgetExceeded(o) \/ FailPage(o)
    <2>1. \/ \E e \in {"browser_unavailable", "worker_error"} : fail_job(e)
          \/ \E e \in {"auto_signup", "browser_render"} : LogError(e)
      BY <1>5 DEF BrowserUnavailable, SignupFails, BudgetExceeded, FailPage
    <2> QED BY <1>1, <2>1, LogsKept DEF Reasons
  <1> QED BY <1>2, <1>3, <1>4, <1>5 DEF TaskStep, TaskFault

LEMMA TaskPages ==
  ASSUME TypeInv, NEW o \in Offset, TaskStep(o) \/ TaskFault(o), Offset \subseteq Offset' PROVE PagesOK'
  <1>1. /\ PagesOK /\ Owner(o) \in Worker \cup {"transcribe"} /\ o \in Offset'
        /\ task[o].pc \in Queuing => NextLink(o) \in Page
    BY MessageTyped, NextLinkIs DEF TypeInv
  <1>2. visited' \subseteq Page
    <2>1. visited' = visited \/ (task[o].pc \in Queuing /\ visited' = visited \cup {NextLink(o)})
      BY DEF TaskStep, TaskFault, PassGate, StartPage, RejectPage, Escalate, SendEscalated, HandOffAudio, SendAudio,
             LogHandOff, ExtractChildren, CheckLink, MarkLink, SendChild, PublishPage, PublishParsed, LogPage, FailPage,
             SettlePage, Transcribe, BrowserUnavailable, SignupFails, PageRaises, BudgetExceeded, At, Queuing
    <2> QED BY <1>1, <2>1 DEF PagesOK
  <1>3. published' \subseteq published \cup {o} /\ raised' \subseteq raised \cup {Owner(o)}
    BY DEF TaskStep, TaskFault, PassGate, StartPage, RejectPage, Escalate, SendEscalated, HandOffAudio, SendAudio,
           LogHandOff, ExtractChildren, CheckLink, MarkLink, SendChild, PublishPage, PublishParsed, LogPage, FailPage,
           SettlePage, Transcribe, BrowserUnavailable, SignupFails, PageRaises, BudgetExceeded
  <1>4. faults' = faults \/ \E k \in FaultKind : Fault(k)
    BY DEF TaskStep, TaskFault, PassGate, StartPage, RejectPage, Escalate, SendEscalated, HandOffAudio, SendAudio,
           LogHandOff, ExtractChildren, CheckLink, MarkLink, SendChild, PublishPage, PublishParsed, LogPage, FailPage,
           SettlePage, Transcribe, BrowserUnavailable, SignupFails, PageRaises, BudgetExceeded, FaultKind
  <1>5. faults' \in 0..MaxFaults
    BY <1>1, <1>4, FaultCounts DEF PagesOK
  <1> QED BY <1>1, <1>2, <1>3, <1>5 DEF PagesOK

LEMMA TaskRunning ==
  ASSUME NEW o, TaskStep(o) \/ TaskFault(o) PROVE task[o].pc \in Live \ {"queued"} /\ UNCHANGED taskFrame
  BY Points
  DEF TaskStep, TaskFault, PassGate, StartPage, RejectPage, Escalate, SendEscalated, HandOffAudio, SendAudio,
      LogHandOff, ExtractChildren, CheckLink, MarkLink, SendChild, PublishPage, PublishParsed, LogPage, FailPage,
      SettlePage, Transcribe, BrowserUnavailable, SignupFails, PageRaises, BudgetExceeded, At, Processing

\* Messages keep their owner, new ones are not delivered.
LEMMA ApartDelivered ==
  ASSUME TypeInv, TaskInv', NEW o \in Offset, Apart(o),
         \/ position' = position /\ task[o].pc # "queued"
         \/ \E g \in Group : Owner(o) = g /\ position' = [position EXCEPT ![g] = @ + 1] /\ o = position[g] + 1
  PROVE  Delivered' /\ Offset \subseteq Offset'
  <1>1. /\ Delivered /\ Positions /\ TaskInv
    BY DEF TypeInv
  <1>2. ASSUME NEW k \in Offset', Owner(k)' \in Group, k > position'[Owner(k)'] PROVE task'[k] = Queued
    <2>1. CASE k \notin Offset
      BY <2>1 DEF Apart
    <2>2. CASE k \in Offset
      <3>1. /\ Owner(k)' = Owner(k) /\ (k # o => task'[k] = task[k])
            /\ k \in Nat /\ position[Owner(k)] \in Nat
        <4>1. k \in 1..Len(task) /\ Len(task) \in Nat
          BY <1>1, <2>2, SeqFacts DEF TaskInv, Sized, Offset
        <4>2. Owner(k)' = Owner(k)
          BY <2>2 DEF Apart, Owner, MsgAt
        <4>3. position[Owner(k)] \in Nat
          BY <1>1, <1>2, <4>2 DEF Positions
        <4> QED BY <2>2, <4>1, <4>2, <4>3 DEF Apart
      <3>2. k > position[Owner(k)]
        BY <1>1, <1>2, <3>1 DEF Positions
      <3>3. task[k] = Queued
        BY <1>1, <1>2, <2>2, <3>1, <3>2 DEF Delivered
      <3>4. k # o
        BY <1>1, <1>2, <3>1, <3>2, <3>3, QueuedFits DEF Positions
      <3> QED BY <3>1, <3>3, <3>4
    <2> QED BY <2>1, <2>2
  <1>3. Delivered'
    BY <1>2 DEF Delivered
  <1> QED BY <1>3 DEF Apart

LEMMA TaskTyped ==
  ASSUME TypeInv, NEW o \in Offset, TaskStep(o) \/ TaskFault(o)
  PROVE  TypeInv' /\ RowWrite
  <1>1. PICK d \in Int : Changes(o, d) /\ Kind(d)
    BY TaskEffect DEF TypeInv, Effect
  <1>2. TaskInv' /\ Apart(o)
    BY <1>1, ChangesSize DEF TypeInv
  <1>3. RowWrite
    BY <1>1, KindWrites
  <1>4. RowOK'
    BY <1>3, RowWriteKeeps DEF TypeInv, RowOK
  <1>5. /\ task[o].pc # "queued" /\ UNCHANGED taskFrame
    BY TaskRunning
  <1>6. Delivered' /\ Offset \subseteq Offset'
    BY <1>2, <1>5, ApartDelivered DEF taskFrame
  <1>7. ApiOK'
    BY <1>5 DEF TypeInv, ApiOK, taskFrame, apiVars
  <1>8. Positions'
    <2>1. Len(crawl_requests) <= Len(crawl_requests') /\ Len(crawl_requests) \in Nat /\ Len(crawl_requests') \in Nat
      BY <1>2, SeqFacts DEF Apart, TaskInv, TypeInv
    <2> QED BY <1>5, <2>1 DEF TypeInv, Positions, taskFrame
  <1>9. LogsOK' /\ PagesOK'
    BY <1>6, TaskLogs, TaskPages
  <1> QED BY <1>2, <1>3, <1>4, <1>6, <1>7, <1>8, <1>9 DEF TypeInv

-----------------------------------------------------------------------------
(* The other actions                                                           *)

SameTasks == UNCHANGED <<task, crawl_requests>>

LEMMA SameTasksKeep ==
  ASSUME TypeInv, SameTasks, UNCHANGED position PROVE TaskInv' /\ Delivered' /\ Offset' = Offset
  BY DEF TypeInv, TaskInv, Delivered, SameTasks, Offset, Sized, Owner, MsgAt

LEMMA SeedTyped == SeedRequest \in CrawlRequest
  <1>1. assign_worker[seed_url] \in Worker /\ seed_url \in Page
    BY CrawlAssumption
  <1> QED BY <1>1 DEF SeedRequest, Request, CrawlRequest

LEMMA SeedPublished ==
  ASSUME TypeInv, Publish(SeedRequest), task' = Append(task, Queued)
  PROVE  /\ TaskInv' /\ Delivered' /\ Positions' /\ Offset \subseteq Offset'
         /\ Size(task') = Size(task) + 1 /\ (\A k \in Offset : task'[k] = task[k])
  <1>1. /\ TaskInv /\ Sized(task) /\ task \in Seq(Task) /\ crawl_requests \in Seq(CrawlRequest)
        /\ Len(task) = Len(crawl_requests) /\ Delivered /\ Positions
    BY DEF TypeInv, TaskInv, Sized
  <1>2. crawl_requests' = Append(crawl_requests, SeedRequest) /\ UNCHANGED <<position, committed>>
    BY DEF Publish
  <1>3. /\ Len(task) \in Nat /\ Offset = 1..Len(task) /\ Offset' = 1..(Len(task) + 1)
        /\ \A k \in Offset : task'[k] = task[k]
        /\ task'[Len(task) + 1] = Queued /\ Len(task') = Len(task) + 1
    BY <1>1, SeqFacts, QueuedFits DEF Offset
  <1>4. /\ crawl_requests' \in Seq(CrawlRequest) /\ Len(crawl_requests') = Len(crawl_requests) + 1
        /\ \A k \in Offset : crawl_requests'[k] = crawl_requests[k]
    BY <1>1, <1>2, <1>3, SeqFacts, SeedTyped
  <1>5. Sized(task') /\ Size(task') = Size(task) + 1
    BY <1>1, AddTask
  <1>6. Queued \in Fit
    BY QueuedFits, FS_EmptySet DEF Fit, Queuing
  <1>7. TaskInv'
    <2>1. \A k \in Offset' : task'[k] \in Fit
      BY <1>1, <1>3, <1>6 DEF TaskInv
    <2> QED BY <1>1, <1>3, <1>4, <1>5, <2>1 DEF TaskInv
  <1>8. Delivered'
    <2>1. ASSUME NEW k \in Offset', Owner(k)' \in Group, k > position'[Owner(k)'] PROVE task'[k] = Queued
      <3>1. CASE k \in Offset
        <4>1. Owner(k)' = Owner(k)
          BY <1>4, <3>1 DEF Owner, MsgAt
        <4> QED BY <1>1, <1>2, <1>3, <2>1, <3>1, <4>1 DEF Delivered
      <3>2. CASE k \notin Offset
        BY <1>3, <3>2
      <3> QED BY <3>1, <3>2
    <2> QED BY <2>1 DEF Delivered
  <1>9. Positions'
    BY <1>1, <1>2, <1>3, <1>4 DEF Positions
  <1> QED BY <1>3, <1>5, <1>7, <1>8, <1>9

\* Routes, watchdog and the API that is killed.
ApiStep ==
  \/ PublishSeed \/ MarkSubmitted \/ PublishSeedFails \/ PauseRoute \/ ResumeRoute \/ RetryRoute
  \/ CrashApi \/ TimePasses \/ WatchdogScan
  \/ \E event_type \in {"watchdog_timeout", "retry_requested"} : FailListed(event_type)

LEMMA ApiWrites == ASSUME ApiStep PROVE RowWrite
  BY DEF ApiStep, RowWrite, PublishSeed, MarkSubmitted, PublishSeedFails, PauseRoute, ResumeRoute, RetryRoute,
         CrashApi, TimePasses, WatchdogScan, FailListed, fail_job

LEMMA ApiTyped ==
  ASSUME TypeInv, ApiStep PROVE TypeInv' /\ RowWrite
  <1>1. RowWrite /\ RowOK'
    BY ApiWrites, RowWriteKeeps DEF TypeInv, RowOK
  <1>2. LogsOK /\ ApiOK /\ PagesOK /\ Positions
    BY DEF TypeInv
  <1>3. LogsOK'
    <2>1. \/ UNCHANGED logVars \/ (stale' \in BOOLEAN /\ UNCHANGED <<crawl_log, failure_reason>>)
          \/ \E e \in {"publish_failed", "watchdog_timeout", "retry_requested"} : fail_job(e)
      BY DEF ApiStep, PublishSeed, MarkSubmitted, PublishSeedFails, PauseRoute, ResumeRoute, RetryRoute,
             CrashApi, TimePasses, WatchdogScan, FailListed, Untouched
    <2> QED BY <1>2, <2>1 DEF LogsOK, logVars, fail_job, LogError, Reasons
  <1>4. ApiOK'
    BY <1>2 DEF ApiOK, apiVars, ApiStep, PublishSeed, MarkSubmitted, PublishSeedFails, PauseRoute, ResumeRoute, RetryRoute,
           CrashApi, TimePasses, WatchdogScan, FailListed
  <1>5. /\ faults' \in 0..MaxFaults /\ UNCHANGED <<visited, published, raised>>
    <2>1. faults' = faults \/ \E k \in FaultKind : Fault(k)
      BY DEF FaultKind, ApiStep, PublishSeed, MarkSubmitted, PublishSeedFails, PauseRoute, ResumeRoute, RetryRoute,
             CrashApi, TimePasses, WatchdogScan, FailListed
    <2>2. UNCHANGED <<visited, published, raised>>
      BY DEF ApiStep, PublishSeed, MarkSubmitted, PublishSeedFails, PauseRoute, ResumeRoute, RetryRoute,
             CrashApi, TimePasses, WatchdogScan, FailListed, Untouched
    <2> QED BY <1>2, <2>1, <2>2, FaultCounts DEF PagesOK
  <1>6. TaskInv' /\ Delivered' /\ Positions' /\ Offset \subseteq Offset'
    <2>1. CASE Publish(SeedRequest) /\ task' = Append(task, Queued)
      BY <2>1, SeedPublished
    <2>2. CASE SameTasks /\ UNCHANGED <<position, committed>>
      BY <1>2, <2>2, SameTasksKeep DEF Positions, SameTasks
    <2>3. \/ Publish(SeedRequest) /\ task' = Append(task, Queued)
          \/ SameTasks /\ UNCHANGED <<position, committed>>
      BY DEF ApiStep, PublishSeed, MarkSubmitted, PublishSeedFails, PauseRoute, ResumeRoute, RetryRoute,
             CrashApi, TimePasses, WatchdogScan, FailListed, Untouched, topicVars, SameTasks
    <2> QED BY <2>1, <2>2, <2>3
  <1>7. PagesOK'
    BY <1>2, <1>5, <1>6 DEF PagesOK
  <1> QED BY <1>1, <1>3, <1>4, <1>6, <1>7 DEF TypeInv

LEMMA NextOffset ==
  ASSUME TypeInv, NEW g \in Group, Advance(g)
  PROVE  /\ position[g] + 1 \in Offset /\ position[g] \in Nat /\ position' = [position EXCEPT ![g] = @ + 1]
         /\ Positions' /\ UNCHANGED <<crawl_requests, apiVars, visited, published, raised, faults>>
         /\ ("lag" \notin Faults => committed' = [committed EXCEPT ![g] = position[g] + 1])
  <1>1. /\ Positions /\ position[g] \in Nat /\ Len(crawl_requests) \in Nat /\ Offset = 1..Len(crawl_requests)
        /\ position[g] < Len(crawl_requests)
    BY SeqFacts DEF TypeInv, TaskInv, Sized, Positions, Offset, Advance
  <1>2. /\ position' = [position EXCEPT ![g] = @ + 1] /\ crawl_requests' = crawl_requests
        /\ committed' = IF "lag" \in Faults THEN committed ELSE [committed EXCEPT ![g] = position[g] + 1]
    BY DEF Advance
  <1>3. Positions'
    <2>1. /\ position' \in [Group -> Nat] /\ committed' \in [Group -> Nat]
          /\ position'[g] = position[g] + 1 /\ committed'[g] \in {committed[g], position[g] + 1}
          /\ \A h \in Group \ {g} : position'[h] = position[h] /\ committed'[h] = committed[h]
      BY <1>1, <1>2 DEF Positions
    <2>2. committed[g] \in Nat /\ committed[g] <= position[g]
      BY <1>1 DEF Positions
    <2>3. ASSUME NEW h \in Group
          PROVE  committed'[h] <= position'[h] /\ position'[h] <= Len(crawl_requests')
      <3>1. CASE h = g
        BY <1>1, <1>2, <2>1, <2>2, <3>1
      <3>2. CASE h # g
        BY <1>1, <1>2, <2>1, <3>2 DEF Positions
      <3> QED BY <3>1, <3>2
    <2> QED BY <2>1, <2>3 DEF Positions
  <1> QED BY <1>1, <1>2, <1>3 DEF Advance

LEMMA OwnerDeliveryEffect ==
  ASSUME TypeInv, NEW g \in Group, DeliverToOwner(g)
  PROVE  /\ Effect(position[g] + 1) /\ Owner(position[g] + 1) = g /\ Idle /\ task[position[g] + 1] = Queued
         /\ Changes(position[g] + 1, 0) /\ UNCHANGED logVars
  <1> DEFINE o == position[g] + 1
  <1>1. o \in Offset /\ position[g] \in Nat /\ Owner(o) = g /\ UNCHANGED <<crawl_requests, row, logVars>>
    BY NextOffset DEF DeliverToOwner, Advance
  <1>2. PICK pc \in {"fetch", "gate"} : Goto(o, pc)
    BY DEF DeliverToOwner
  <1>3. task[o] = Queued
    BY <1>1 DEF TypeInv, Delivered
  <1> HIDE DEF o
  <1>4. Changes(o, Held(pc) - Held(task[o].pc)) /\ Held(pc) = 1 /\ Held(task[o].pc) = 1
    BY <1>1, <1>2, <1>3, QueuedFits, GotoChanges, Points DEF Held, Queuing, Reserving, TypeInv
  <1>5. Changes(o, 0)
    BY <1>4
  <1>6. Idle
    BY <1>1 DEF Idle, SameLog, logVars
  <1>7. Effect(o)
    BY <1>5, <1>6 DEF Effect, Kind
  <1> QED BY <1>1, <1>3, <1>5, <1>6, <1>7 DEF o

LEMMA OwnerDeliveryTyped ==
  ASSUME TypeInv, NEW g \in Group, DeliverToOwner(g) PROVE TypeInv' /\ RowWrite
  <1> DEFINE o == position[g] + 1
  <1>1. Advance(g)
    BY DEF DeliverToOwner
  <1>2. /\ o \in Offset /\ position' = [position EXCEPT ![g] = @ + 1] /\ Positions'
        /\ UNCHANGED <<crawl_requests, apiVars, visited, published, raised, faults>>
    BY <1>1, NextOffset
  <1>3. Owner(o) = g /\ Idle /\ Changes(o, 0) /\ UNCHANGED logVars
    BY OwnerDeliveryEffect
  <1>4. TaskInv' /\ Apart(o)
    BY <1>2, <1>3, ChangesSize DEF TypeInv
  <1>5. Delivered' /\ Offset \subseteq Offset'
    BY <1>2, <1>3, <1>4, ApartDelivered
  <1>6. RowOK' /\ LogsOK' /\ ApiOK' /\ PagesOK' /\ RowWrite
    BY <1>2, <1>3, <1>5 DEF TypeInv, RowOK, LogsOK, ApiOK, PagesOK, Idle, logVars, apiVars, NeverSkipped, RowWrite
  <1> QED BY <1>2, <1>4, <1>5, <1>6 DEF TypeInv

\* A group that does not own the message settles nothing.
LEMMA ForeignDeliverySame ==
  ASSUME NEW g, DeliverForeign(g) PROVE UNCHANGED <<row, logVars, task>>
  BY DEF DeliverForeign, complete_job_task_from_message, owns_message

LEMMA ForeignDeliveryTyped ==
  ASSUME TypeInv, NEW g \in Group, DeliverForeign(g) PROVE TypeInv' /\ RowWrite
  <1>1. Advance(g)
    BY DEF DeliverForeign
  <1>2. /\ position' = [position EXCEPT ![g] = @ + 1] /\ Positions' /\ position[g] \in Nat
        /\ UNCHANGED <<crawl_requests, apiVars, visited, published, raised, faults>>
    BY <1>1, NextOffset
  <1>3. UNCHANGED <<row, logVars, task>>
    BY ForeignDeliverySame
  <1>4. TaskInv' /\ Offset' = Offset
    BY <1>2, <1>3 DEF TypeInv, TaskInv, Offset, Sized
  <1>5. Delivered'
    <2>1. ASSUME NEW k \in Offset, Owner(k)' \in Group, k > position'[Owner(k)'] PROVE task'[k] = Queued
      <3>1. Owner(k)' = Owner(k) /\ Delivered /\ Positions /\ k \in Nat
        BY <1>2, SeqFacts DEF TypeInv, Owner, MsgAt, TaskInv, Sized, Offset
      <3>2. position[Owner(k)] \in Nat /\ position'[Owner(k)] \in Nat /\ position'[Owner(k)] >= position[Owner(k)]
        BY <1>2, <2>1, <3>1 DEF Positions
      <3>3. k > position[Owner(k)]
        BY <2>1, <3>1, <3>2
      <3> QED BY <1>3, <2>1, <3>1, <3>3 DEF Delivered
    <2> QED BY <1>4, <2>1 DEF Delivered
  <1>6. RowOK' /\ LogsOK' /\ ApiOK' /\ PagesOK' /\ RowWrite
    BY <1>2, <1>3, <1>4 DEF TypeInv, RowOK, LogsOK, ApiOK, PagesOK, logVars, apiVars, NeverSkipped, RowWrite
  <1> QED BY <1>2, <1>4, <1>5, <1>6 DEF TypeInv

LEMMA AutoCommitTyped ==
  ASSUME TypeInv, NEW g \in Group, AutoCommit(g) PROVE TypeInv' /\ RowWrite
  <1>1. /\ committed' = [committed EXCEPT ![g] = position[g]] /\ UNCHANGED position /\ SameTasks
        /\ UNCHANGED <<row, logVars, apiVars, visited, published, raised, faults>>
    BY DEF AutoCommit, SameTasks
  <1>2. TaskInv' /\ Delivered' /\ Offset' = Offset
    BY <1>1, SameTasksKeep
  <1>3. Positions'
    BY <1>1 DEF TypeInv, Positions, SameTasks
  <1>4. RowOK' /\ LogsOK' /\ ApiOK' /\ PagesOK' /\ RowWrite
    BY <1>1, <1>2 DEF TypeInv, RowOK, LogsOK, ApiOK, PagesOK, logVars, apiVars, NeverSkipped, RowWrite
  <1> QED BY <1>2, <1>3, <1>4 DEF TypeInv

-----------------------------------------------------------------------------
(* Workers that are killed or stopped                                          *)

\* Many tasks end or start again at once; nobody finds new links.
LEMMA ManyTasks ==
  ASSUME TaskInv, task' = [k \in Offset |-> task'[k]], UNCHANGED crawl_requests,
         \A k \in Offset : task'[k] \in Fit /\ task'[k].todo \subseteq task[k].todo
  PROVE  TaskInv' /\ Offset' = Offset /\ task' \in Seq(Task)
  <1>1. /\ task \in Seq(Task) /\ Len(task) \in Nat /\ Offset = 1..Len(task) /\ IsFiniteSet(UnsentIn(task))
    BY SeqFacts DEF TaskInv, Sized, Offset
  <1>2. \A k \in Offset : task'[k] \in Task
    BY DEF Fit
  <1>3. /\ task' \in Seq(Task) /\ Len(task') = Len(task) /\ Offset' = Offset
    <2> DEFINE new == task'
    <2>1. new = [k \in 1..Len(task) |-> new[k]] /\ \A k \in 1..Len(task) : new[k] \in Task
      BY <1>1, <1>2
    <2> HIDE DEF new
    <2>2. new \in Seq(Task) /\ DOMAIN new = 1..Len(task)
      BY <1>1, <2>1
    <2>3. Len(new) = Len(task)
      BY <1>1, <2>2, SeqFacts
    <2> QED BY <1>1, <2>2, <2>3 DEF new, Offset
  <1>4. UnsentIn(task') \in SUBSET UnsentIn(task)
    BY <1>3 DEF UnsentIn, Offset
  <1>5. IsFiniteSet(UnsentIn(task'))
    BY <1>1, <1>4, FS_Subset
  <1> QED BY <1>3, <1>5 DEF TaskInv, Sized

LEMMA LostFits ==
  ASSUME NEW pc \in {"lost", "settle", "settle_failed"}
  PROVE  [pc |-> pc, todo |-> {}] \in Fit /\ Queued \in Fit
  <1>1. pc \in Live \cup {"done", "lost"} /\ pc \notin Queuing
    BY Points DEF Queuing
  <1>2. Queued \in Fit
    BY QueuedFits, FS_EmptySet DEF Fit, Queuing
  <1> QED BY <1>1, <1>2, RestFits

\* Where the tasks of a killed worker end up.
LEMMA CrashTasks ==
  ASSUME TypeInv, NEW g \in Group, CrashWorker(g)
  PROVE  /\ task' = [k \in Offset |-> task'[k]] /\ UNCHANGED crawl_requests
         /\ \A k \in Offset :
              /\ task'[k] \in Fit /\ task'[k].todo \subseteq task[k].todo
              /\ k \notin Owned(g) => task'[k] = task[k]
              /\ k \in Owned(g) /\ k > committed[g] => task'[k] = Queued
              /\ k \in Owned(g) /\ ~(k > committed[g]) =>
                   IF task[k].pc \in Live THEN task'[k] = [pc |-> "lost", todo |-> {}] ELSE task'[k] = task[k]
  <1> DEFINE F(k) == IF k \notin Owned(g) THEN task[k]
                     ELSE IF k > committed[g] THEN Queued
                     ELSE IF task[k].pc \in Live THEN [pc |-> "lost", todo |-> {}]
                     ELSE task[k]
  <1>1. task' = [k \in Offset |-> F(k)] /\ UNCHANGED crawl_requests
    BY DEF CrashWorker
  <1>2. \A k \in Offset : F(k) \in Fit /\ F(k).todo \subseteq task[k].todo
    BY LostFits, QueuedFits DEF TypeInv, TaskInv
  <1> QED BY <1>1, <1>2

\* Where the tasks of a stopped worker end up.
LEMMA StopTasks ==
  ASSUME TypeInv, NEW w \in Group, StopWorker(w)
  PROVE  /\ task' = [k \in Offset |-> task'[k]] /\ UNCHANGED crawl_requests
         /\ \A k \in Offset :
              /\ task'[k] \in Fit /\ task'[k].todo \subseteq task[k].todo
              /\ k \in Owned(w) /\ task[k].pc \in Live =>
                   /\ task'[k].pc \in {"lost", "settle", "settle_failed"} /\ task'[k].todo = {}
                   /\ task[k].pc \in {"raised", "settle_failed"} => task'[k].pc \in {"lost", "settle_failed"}
                   /\ task[k].pc \notin {"raised", "settle_failed"} => task'[k].pc \in {"lost", "settle"}
              /\ ~(k \in Owned(w) /\ task[k].pc \in Live) => task'[k] = task[k]
  <1> DEFINE cancelled == {o \in Owned(w) : task[o].pc \in Live}
  <1>1. PICK missed \in SUBSET {o \in cancelled : MayMissFinally(o)} :
             task' = [o \in Offset |->
                        IF o \notin cancelled THEN task[o]
                        ELSE [todo |-> {},
                              pc |-> IF o \in missed THEN "lost"
                                     ELSE IF task[o].pc \in {"raised", "settle_failed"}
                                     THEN "settle_failed" ELSE "settle"]]
    BY DEF StopWorker
  <1> DEFINE P(k) == IF k \in missed THEN "lost"
                     ELSE IF task[k].pc \in {"raised", "settle_failed"} THEN "settle_failed" ELSE "settle"
             F(k) == IF k \notin cancelled THEN task[k] ELSE [todo |-> {}, pc |-> P(k)]
  <1>2. task' = [k \in Offset |-> F(k)]
    BY <1>1
  <1>3. \A k \in Offset : /\ P(k) \in {"lost", "settle", "settle_failed"}
                          /\ task[k].pc \in {"raised", "settle_failed"} => P(k) \in {"lost", "settle_failed"}
                          /\ task[k].pc \notin {"raised", "settle_failed"} => P(k) \in {"lost", "settle"}
    OBVIOUS
  <1> HIDE DEF P
  <1>4. \A k \in Offset : /\ k \in cancelled => F(k) = [pc |-> P(k), todo |-> {}]
                          /\ k \notin cancelled => F(k) = task[k]
    OBVIOUS
  <1>5. \A k \in Offset : F(k) \in Fit /\ F(k).todo \subseteq task[k].todo
    BY <1>3, <1>4, LostFits DEF TypeInv, TaskInv
  <1>6. UNCHANGED crawl_requests
    BY DEF StopWorker
  <1> HIDE DEF F
  <1>7. \A k \in Offset : task'[k] = F(k)
    BY <1>2
  <1>8. task' = [k \in Offset |-> task'[k]]
    BY <1>2
  <1>9. \A k \in Offset : k \in Owned(w) /\ task[k].pc \in Live <=> k \in cancelled
    BY DEF Owned
  <1> HIDE DEF cancelled
  <1> QED BY <1>3, <1>4, <1>5, <1>6, <1>7, <1>8, <1>9

LEMMA HaltTyped ==
  ASSUME TypeInv, NEW g \in Group, CrashWorker(g) \/ StopWorker(g) PROVE TypeInv' /\ RowWrite
  <1>1. /\ UNCHANGED <<row, logVars, apiVars, crawl_requests, visited, published, raised>>
        /\ \E k \in FaultKind : Fault(k)
    BY DEF CrashWorker, StopWorker, FaultKind
  <1>2. TaskInv' /\ Offset' = Offset
    <2>1. TaskInv
      BY DEF TypeInv
    <2>2. CASE CrashWorker(g)
      BY <2>1, <2>2, CrashTasks, ManyTasks
    <2>3. CASE StopWorker(g)
      BY <2>1, <2>3, StopTasks, ManyTasks
    <2> QED BY <2>2, <2>3
  <1>3. Positions'
    <2>1. Positions /\ (\A h \in Group : position[h] \in Nat /\ committed[h] \in Nat)
          /\ Len(crawl_requests) \in Nat
      BY SeqFacts DEF TypeInv, Positions, TaskInv
    <2>2. CASE CrashWorker(g)
      <3>1. position' = [position EXCEPT ![g] = committed[g]] /\ UNCHANGED <<committed, crawl_requests>>
        BY <2>2 DEF CrashWorker
      <3>2. \A h \in Group : committed'[h] <= position'[h] /\ position'[h] <= position[h]
        BY <2>1, <3>1 DEF Positions
      <3>3. position' \in [Group -> Nat]
        BY <2>1, <3>1 DEF Positions
      <3>4. \A h \in Group : position'[h] \in Nat
        BY <3>3
      <3>5. \A h \in Group : position'[h] <= Len(crawl_requests)
        BY <2>1, <3>2, <3>4 DEF Positions
      <3> QED BY <2>1, <3>1, <3>2, <3>3, <3>5 DEF Positions
    <2>3. CASE StopWorker(g)
      <3>1. committed' = [committed EXCEPT ![g] = position[g]] /\ UNCHANGED <<position, crawl_requests>>
        BY <2>3 DEF StopWorker
      <3> QED BY <2>1, <3>1 DEF Positions
    <2> QED BY <2>2, <2>3
  <1>4. Delivered'
    <2>1. ASSUME NEW k \in Offset, Owner(k)' \in Group, k > position'[Owner(k)'] PROVE task'[k] = Queued
      <3>1. Owner(k)' = Owner(k) /\ Delivered /\ Positions /\ k \in Nat /\ position[Owner(k)] \in Nat
        BY <1>1, <2>1, SeqFacts DEF TypeInv, Owner, MsgAt, TaskInv, Sized, Offset, Positions
      <3>2. k > position[Owner(k)] => k \notin Owned(g) /\ task[k] = Queued
        BY <2>1, <3>1 DEF Owned, Delivered
      <3>3. CASE CrashWorker(g)
        <4>1. position' = [position EXCEPT ![g] = committed[g]]
          BY <3>3 DEF CrashWorker
        <4>2. CASE k > position[Owner(k)]
          BY <3>2, <3>3, <4>2, CrashTasks
        <4>3. CASE ~(k > position[Owner(k)])
          <5>1. Owner(k) = g /\ k > committed[g]
            BY <2>1, <3>1, <4>1, <4>3 DEF Positions
          <5>2. k \in Owned(g)
            BY <3>1, <4>3, <5>1 DEF Owned
          <5> QED BY <3>3, <5>1, <5>2, CrashTasks
        <4> QED BY <4>2, <4>3
      <3>4. CASE StopWorker(g)
        <4>1. k > position[Owner(k)]
          BY <2>1, <3>1, <3>4 DEF StopWorker
        <4> QED BY <3>2, <3>4, <4>1, StopTasks
      <3> QED BY <3>3, <3>4
    <2> QED BY <1>2, <2>1 DEF Delivered
  <1>5. PagesOK'
    <2>1. PagesOK
      BY DEF TypeInv
    <2> QED BY <1>1, <1>2, <2>1, FaultCounts DEF PagesOK
  <1>6. RowOK' /\ LogsOK' /\ ApiOK' /\ RowWrite
    BY <1>1 DEF TypeInv, RowOK, LogsOK, ApiOK, logVars, apiVars, NeverSkipped, RowWrite
  <1> QED BY <1>2, <1>3, <1>4, <1>5, <1>6 DEF TypeInv

-----------------------------------------------------------------------------
(* Every step                                                                  *)

Unchanged == UNCHANGED vars

\* Next, sorted by what its actions have in common.
LEMMA NextCases ==
  ASSUME Next
  PROVE  \/ ApiStep
         \/ \E o \in Offset : TaskStep(o) \/ TaskFault(o)
         \/ \E g \in Group : \/ DeliverToOwner(g) \/ DeliverForeign(g) \/ AutoCommit(g)
                             \/ CrashWorker(g) \/ StopWorker(g)
  BY DEF Next, Progress, Environment, Watchdog, ApiStep, Deliver

LEMMA TypeInvStep ==
  ASSUME TypeInv, [Next]_vars PROVE TypeInv' /\ RowWrite
  <1>1. CASE Next
    BY <1>1, NextCases, ApiTyped, TaskTyped, OwnerDeliveryTyped, ForeignDeliveryTyped, AutoCommitTyped, HaltTyped
  <1>2. CASE Unchanged
    BY <1>2 DEF Unchanged, vars, TypeInv, RowOK, TaskInv, LogsOK, ApiOK, PagesOK, Positions, Delivered, NeverSkipped,
                Offset, Sized, Owner, MsgAt, RowWrite
  <1> QED BY <1>1, <1>2 DEF Unchanged

LEMMA InitTyped == Init => TypeInv
  <1> SUFFICES ASSUME Init PROVE TypeInv
    OBVIOUS
  <1>1. row = [status |-> "pending", active_tasks |-> 1, resume_status |-> NULL]
    BY DEF Init, create_job, register_job_tasks
  <1>2. RowOK
    BY <1>1 DEF RowOK, NeverSkipped, Row, JobStatus
  <1>3. task = <<>> /\ crawl_requests = <<>> /\ Offset = {}
    BY DEF Init, Offset
  <1>4. TaskInv
    <2>1. UnsentIn(task) = {}
      BY <1>3 DEF UnsentIn, Offset
    <2>2. Sized(task)
      BY <1>3, <2>1, FS_EmptySet DEF Sized
    <2> QED BY <1>3, <2>2 DEF TaskInv
  <1>5. LogsOK /\ ApiOK
    BY DEF Init, LogsOK, ApiOK, Reasons
  <1>6. PagesOK
    BY CrawlAssumption DEF Init, PagesOK
  <1>7. Positions /\ Delivered
    BY <1>3 DEF Init, Positions, Delivered
  <1> QED BY <1>2, <1>4, <1>5, <1>6, <1>7 DEF TypeInv

LEMMA TypeInvariant == Spec => []TypeInv
  BY InitTyped, TypeInvStep, PTL DEF Spec

\* The types of the job row, the messages and the tasks of one crawl hold whatever the
\* environment does: a task has links to queue exactly while it queues them, and the
\* offsets never pass the end of the topic.
THEOREM CrawlTyped == Spec => []TypeOK
  BY TypeInvariant, TypeInvTyped, PTL

\* client.py:721-929: a finished job keeps its status, whatever workers that settle late,
\* redelivered messages, routes and the watchdog write.
THEOREM FinishedIsFinalTheorem == Spec => FinishedIsFinal
  <1>1. ASSUME TypeInv, [Next]_vars PROVE [Finished => row'.status = row.status]_vars
    BY <1>1, TypeInvStep, RowWriteKeeps DEF TypeInv, RowOK
  <1> QED BY <1>1, TypeInvariant, PTL DEF Spec, FinishedIsFinal

-----------------------------------------------------------------------------
(* The work that is outstanding                                                *)

Root == IF submit = "publish" THEN 1 ELSE 0

LEMMA OutstandingIs == Outstanding = Size(task) + Root /\ Outstanding' = Size(task') + Root'
  BY DEF Outstanding, Unsettled, Unsent, Reserved, Size, UnsettledIn, UnsentIn, ReservedIn, Reserving, Offset, Root

LEMMA OutstandingNat ==
  ASSUME TaskInv
  PROVE  /\ Outstanding \in Nat /\ Size(task) \in Nat /\ Root \in {0, 1}
         /\ \A o \in Offset : task[o].pc \in Live => Size(task) > 0
  <1>1. Size(task) \in Nat
    BY SizedFinite DEF TaskInv
  <1>2. Root \in {0, 1}
    BY DEF Root
  <1>3. ASSUME NEW o \in Offset, task[o].pc \in Live PROVE Size(task) > 0
    <2>1. Sized(task) /\ task[o] \in Task /\ IsFiniteSet(task[o].todo) /\ o \in DOMAIN task
      BY DEF TaskInv, Fit, Offset
    <2>2. Units(task[o]) <= Size(task) /\ Units(task[o]) \in Nat
      BY <2>1, SetTask
    <2>3. Units(task[o]) >= 1
      <3>1. Cardinality(task[o].todo) \in Nat
        BY <2>1, FS_CardinalityType
      <3> QED BY <1>3, <3>1 DEF Units, One
    <2> QED BY <1>1, <2>2, <2>3
  <1> QED BY <1>1, <1>2, <1>3, OutstandingIs

\* Without lagging commits every delivered offset is a committed one.
Caught == committed = position

\* A step of a task that holds a slot, or a step of somebody else.
Worked(d) == Outstanding > 0 /\ Kind(d)
PauseRow  == (("pause" \in Faults /\ row' = pause_job(row)) \/ row' = resume_job(row)) /\ SameLog
Outer(d)  ==
  \/ d = 0 /\ Idle
  \/ d < 0 /\ Idle /\ Lossy
  \/ d = 0 /\ \E s \in {"running", "failed"} : StatusRow(s)
  \/ d = -1 /\ StatusRow("failed") /\ Lossy
  \/ d = 0 /\ PauseRow
Move == \E d \in Int : Outstanding' = Outstanding + d /\ (Worked(d) \/ Outer(d))

LEMMA TaskMove ==
  ASSUME TypeInv, NEW o \in Offset, TaskStep(o) \/ TaskFault(o) PROVE Move
  <1>1. PICK d \in Int : Changes(o, d) /\ Kind(d)
    BY TaskEffect DEF TypeInv, Effect
  <1>2. Size(task') = Size(task) + d /\ TaskInv
    BY <1>1, ChangesSize DEF TypeInv
  <1>3. Root' = Root
    BY TaskRunning DEF Root, taskFrame, apiVars
  <1>4. Outstanding' = Outstanding + d /\ Outstanding > 0
    <2>1. Size(task) > 0 /\ Size(task) \in Nat /\ Root \in {0, 1}
      BY <1>2, TaskRunning, OutstandingNat
    <2> QED BY <1>2, <1>3, <2>1, OutstandingIs
  <1> QED BY <1>1, <1>4 DEF Move, Worked

LEMMA StillMove ==
  ASSUME TaskInv, NEW d \in Int, Size(task') = Size(task), Root' = Root + d, Outer(d) PROVE Move
  <1>1. Outstanding' = Outstanding + d
    BY OutstandingIs, OutstandingNat
  <1> QED BY <1>1 DEF Move

LEMMA ApiMove ==
  ASSUME TypeInv, ApiStep PROVE Move
  <1>1. TaskInv /\ Size(task) \in Nat /\ Root \in {0, 1}
    BY OutstandingNat DEF TypeInv
  <1>2. CASE PublishSeed
    <2>1. Size(task') = Size(task) + 1 /\ Root = 1 /\ Root' = 0 /\ Idle
      BY <1>2, SeedPublished DEF PublishSeed, Root, Idle, SameLog, logVars
    <2>2. Outstanding' = Outstanding + 0
      BY <1>1, <2>1, OutstandingIs
    <2> QED BY <2>1, <2>2 DEF Move, Outer
  <1>3. CASE PublishSeedFails
    <2>1. /\ Root = 1 /\ Root' = 0 /\ StatusRow("failed")
          /\ \/ UNCHANGED task /\ Lossy
             \/ Publish(SeedRequest) /\ task' = Append(task, Queued)
      BY <1>3 DEF PublishSeedFails, Root, StatusRow, fail_job, LogError, SameLog, Lossy, LossKind, Fault
    <2>2. CASE UNCHANGED task /\ Lossy
      <3>1. Outstanding' = Outstanding + (-1)
        BY <1>1, <2>1, <2>2, OutstandingIs
      <3> QED BY <2>1, <2>2, <3>1 DEF Move, Outer
    <2>3. CASE Publish(SeedRequest) /\ task' = Append(task, Queued)
      <3>1. Outstanding' = Outstanding + 0
        BY <1>1, <2>1, <2>3, SeedPublished, OutstandingIs
      <3> QED BY <2>1, <3>1 DEF Move, Outer
    <2> QED BY <2>1, <2>2, <2>3
  <1>4. CASE CrashApi
    <2>1. /\ UNCHANGED task /\ Root' = 0 /\ Idle /\ Lossy
      BY <1>4 DEF CrashApi, Untouched, Root, Idle, SameLog, logVars, Lossy, LossKind, Fault
    <2>2. CASE Root = 1
      BY <1>1, <2>1, <2>2, StillMove DEF Outer
    <2>3. CASE Root = 0
      BY <1>1, <2>1, <2>3, StillMove DEF Outer
    <2> QED BY <1>1, <2>2, <2>3
  <1>5. CASE ApiStep /\ ~PublishSeed /\ ~PublishSeedFails /\ ~CrashApi
    <2>1. UNCHANGED task /\ Root' = Root
      BY <1>5 DEF ApiStep, MarkSubmitted, PauseRoute, ResumeRoute, RetryRoute, TimePasses, WatchdogScan, FailListed,
                  Untouched, apiVars, Root
    <2>2. Idle \/ PauseRow \/ StatusRow("running") \/ StatusRow("failed")
      BY <1>5 DEF ApiStep, MarkSubmitted, PauseRoute, ResumeRoute, RetryRoute, TimePasses, WatchdogScan, FailListed,
                  fail_job, LogError, Idle, PauseRow, StatusRow, SameLog, logVars, Fault
    <2>3. Outer(0)
      BY <2>2 DEF Outer
    <2> QED BY <1>1, <2>1, <2>3, StillMove
  <1> QED BY <1>2, <1>3, <1>4, <1>5

LEMMA DeliveryMove ==
  ASSUME TypeInv, NEW g \in Group, DeliverToOwner(g) \/ DeliverForeign(g) \/ AutoCommit(g) PROVE Move
  <1>1. TaskInv /\ Size(task) \in Nat /\ Root \in {0, 1}
    BY OutstandingNat DEF TypeInv
  <1>2. Root' = Root
    BY DEF DeliverToOwner, DeliverForeign, Advance, AutoCommit, apiVars, Root
  <1>3. CASE DeliverToOwner(g)
    <2>1. position[g] + 1 \in Offset /\ Changes(position[g] + 1, 0) /\ Idle
      BY <1>3, NextOffset, OwnerDeliveryEffect DEF DeliverToOwner
    <2>2. Size(task') = Size(task)
      BY <1>1, <2>1, ChangesSize
    <2> QED BY <1>1, <1>2, <2>1, <2>2, StillMove DEF Outer
  <1>4. CASE DeliverForeign(g) \/ AutoCommit(g)
    <2>1. UNCHANGED task /\ Idle
      BY <1>4, ForeignDeliverySame DEF AutoCommit, Idle, SameLog, logVars
    <2> QED BY <1>1, <1>2, <2>1, StillMove DEF Outer
  <1> QED BY <1>3, <1>4

\* A killed or stopped worker gives back no slot it does not hold.
LEMMA HaltDrops ==
  ASSUME TypeInv, Caught, NEW g \in Group, CrashWorker(g) \/ StopWorker(g)
  PROVE  /\ Sized(task) /\ task' \in Seq(Task) /\ Offset' = Offset /\ Idle /\ Lossy /\ Root' = Root
         /\ \A k \in Offset : /\ task'[k].pc \in Live => task[k].pc \in Live
                              /\ task'[k].pc \in Reserving => task[k].pc \in Reserving
                              /\ task'[k].todo \subseteq task[k].todo
  <1>1. TaskInv /\ Sized(task)
    BY DEF TypeInv, TaskInv
  <1>2. task' \in Seq(Task) /\ Offset' = Offset
    BY <1>1, CrashTasks, StopTasks, ManyTasks
  <1>3. Idle /\ Lossy /\ Root' = Root
    BY DEF CrashWorker, StopWorker, Idle, SameLog, logVars, apiVars, Root, Lossy, LossKind, Fault
  <1>4. ASSUME NEW k \in Offset
        PROVE  /\ task'[k].pc \in Live => task[k].pc \in Live
               /\ task'[k].pc \in Reserving => task[k].pc \in Reserving
               /\ task'[k].todo \subseteq task[k].todo
    <2>1. CASE CrashWorker(g)
      <3>1. k \in Owned(g) => ~(k > committed[g])
        <4>1. k \in Nat /\ committed[g] \in Nat /\ committed[g] = position[g]
          BY SeqFacts DEF TypeInv, TaskInv, Sized, Offset, Positions, Caught
        <4> QED BY <4>1 DEF Owned
      <3>2. \/ task'[k] = task[k]
            \/ task'[k] = [pc |-> "lost", todo |-> {}]
        BY <2>1, <3>1, CrashTasks
      <3> QED BY <3>2, Points DEF Reserving
    <2>2. CASE StopWorker(g)
      <3>1. \/ task'[k] = task[k]
            \/ /\ task[k].pc \in Live /\ task'[k].pc \in {"lost", "settle", "settle_failed"}
               /\ task'[k].todo = {}
        BY <2>2, StopTasks
      <3> QED BY <3>1, Points DEF Reserving
    <2> QED BY <2>1, <2>2
  <1> QED BY <1>1, <1>2, <1>3, <1>4

LEMMA HaltMove ==
  ASSUME TypeInv, Caught, NEW g \in Group, CrashWorker(g) \/ StopWorker(g) PROVE Move
  <1>1. /\ Sized(task) /\ task' \in Seq(Task) /\ Offset' = Offset /\ Idle /\ Lossy /\ Root' = Root
        /\ \A k \in Offset : /\ task'[k].pc \in Live => task[k].pc \in Live
                             /\ task'[k].pc \in Reserving => task[k].pc \in Reserving
                             /\ task'[k].todo \subseteq task[k].todo
    BY HaltDrops
  <1>2. Sized(task') /\ Size(task') <= Size(task)
    BY <1>1, DropTasks DEF Offset
  <1>3. Size(task') \in Nat /\ Size(task) \in Nat /\ Root \in {0, 1}
    BY <1>1, <1>2, SizedFinite DEF Root
  <1> DEFINE d == Size(task') - Size(task)
  <1>4. d \in Int /\ Outstanding' = Outstanding + d /\ (d < 0 \/ d = 0)
    BY <1>1, <1>2, <1>3, OutstandingIs
  <1> HIDE DEF d
  <1>5. Outer(d)
    BY <1>1, <1>4 DEF Outer
  <1> QED BY <1>4, <1>5 DEF Move

LEMMA NextMove ==
  ASSUME TypeInv, Caught, [Next]_vars PROVE Move
  <1>1. CASE Next
    BY <1>1, NextCases, ApiMove, TaskMove, DeliveryMove, HaltMove
  <1>2. CASE Unchanged
    <2>1. Size(task') = Size(task) /\ Root' = Root /\ Idle
      BY <1>2 DEF Unchanged, vars, Root, Idle, SameLog
    <2>2. TaskInv /\ Root' = Root + 0
      BY <2>1, OutstandingNat DEF TypeInv
    <2> QED BY <2>1, <2>2, StillMove DEF Outer
  <1> QED BY <1>1, <1>2 DEF Unchanged

-----------------------------------------------------------------------------
(* No job completes early: the tasks implement the ledger                      *)

LEMMA CaughtStep ==
  ASSUME "lag" \notin Faults, TypeInv, Caught, [Next]_vars PROVE Caught'
  <1>1. Positions
    BY DEF TypeInv
  <1>2. CASE UNCHANGED <<position, committed>>
    BY <1>2 DEF Caught
  <1>3. ASSUME NEW g \in Group, Advance(g) PROVE Caught'
    <2>1. position' = [position EXCEPT ![g] = position[g] + 1] /\ committed' = [committed EXCEPT ![g] = position[g] + 1]
      BY <1>3 DEF Advance
    <2> QED BY <2>1 DEF Caught
  <1>4. ASSUME NEW g \in Group, CrashWorker(g) PROVE Caught'
    <2>1. position' = [position EXCEPT ![g] = committed[g]] /\ committed' = committed
      BY <1>4 DEF CrashWorker
    <2> QED BY <1>1, <2>1 DEF Caught, Positions
  <1>5. ASSUME NEW g \in Group, StopWorker(g) PROVE Caught'
    <2>1. committed' = [committed EXCEPT ![g] = position[g]] /\ position' = position
      BY <1>5 DEF StopWorker
    <2> QED BY <1>1, <2>1 DEF Caught, Positions
  <1>6. CASE ApiStep
    BY <1>2, <1>6 DEF ApiStep, PublishSeed, MarkSubmitted, PublishSeedFails, PauseRoute, ResumeRoute, RetryRoute,
                      CrashApi, TimePasses, WatchdogScan, FailListed, Untouched, topicVars, Publish
  <1>7. ASSUME NEW o, TaskStep(o) \/ TaskFault(o) PROVE Caught'
    BY <1>2, <1>7, TaskRunning DEF taskFrame
  <1>8. CASE Unchanged
    BY <1>2, <1>8 DEF Unchanged, vars
  <1>9. ASSUME NEW g \in Group, DeliverToOwner(g) \/ DeliverForeign(g) \/ AutoCommit(g) PROVE Caught'
    BY <1>3, <1>9 DEF DeliverToOwner, DeliverForeign, AutoCommit
  <1>10. CASE Next
    BY <1>4, <1>5, <1>6, <1>7, <1>9, <1>10, NextCases
  <1> QED BY <1>8, <1>10 DEF Unchanged

LEMMA InitCaught == Init => Caught
  BY DEF Init, Caught

\* No slot is handed out twice, and a publish that fails leaves no message behind.
Sound == Faults \cap {"lag", "ambiguous"} = {}

Covered == Outstanding <= row.active_tasks
Early   == row.status = "completed" => Outstanding = 0
Green   == row.status = "completed" => "completed" \in crawl_log

LedgerInv == TypeInv /\ Caught /\ Covered /\ Early /\ Green

\* What complete_job_task does to a row that covers the work.
LEMMA CompleteRowIs ==
  ASSUME TypeInv, CompleteRow
  PROVE  /\ row \in Row /\ row' \in Row /\ row.active_tasks \in Nat /\ row'.active_tasks \in Nat
         /\ row.status \in {"completed", "failed"} => row'.status = row.status
         /\ row.active_tasks = 0 => row'.active_tasks = 0
         /\ row.active_tasks > 0 => row'.active_tasks \in {row.active_tasks, row.active_tasks - 1}
         /\ row'.status = "completed" =>
              row.status = "completed" \/ (row.active_tasks <= 1 /\ row.status \in ActiveStatus /\ "completed" \in crawl_log)
         /\ crawl_log' = crawl_log
  <1> DEFINE a == "completed" \in crawl_log
  <1>1. PICK f \in BOOLEAN : row' = complete_job_task(row, f, a)
    BY DEF CompleteRow
  <1>2. a \in BOOLEAN /\ row \in Row
    BY DEF TypeInv, RowOK
  <1> HIDE DEF a
  <1>3. /\ row' \in Row
        /\ row.status \in {"completed", "failed"} => row'.status = row.status
        /\ \/ f /\ row.status \in {"completed", "paused"} /\ row' = row
           \/ /\ f /\ row.status \notin {"completed", "paused"} /\ row'.status = "failed"
              /\ row'.active_tasks = Decremented(row.active_tasks)
           \/ /\ ~f /\ row'.active_tasks = Decremented(row.active_tasks)
              /\ row'.status = IF row.active_tasks <= 1 /\ row.status \in ActiveStatus
                               THEN IF a THEN "completed" ELSE "failed" ELSE row.status
    BY <1>1, <1>2, Completes
  <1>4. row.active_tasks \in Nat /\ row'.active_tasks \in Nat
    BY <1>2, <1>3 DEF Row
  <1>5. row'.active_tasks \in {row.active_tasks, Decremented(row.active_tasks)}
    BY <1>3
  <1>6. crawl_log' = crawl_log
    BY DEF CompleteRow, SameLog
  <1>7. row'.status = "completed" =>
          row.status = "completed" \/ (row.active_tasks <= 1 /\ row.status \in ActiveStatus /\ a)
    BY <1>3
  <1>8. /\ row.active_tasks = 0 => row'.active_tasks = 0
        /\ row.active_tasks > 0 => row'.active_tasks \in {row.active_tasks, row.active_tasks - 1}
    BY <1>4, <1>5, Decrements
  <1> QED BY <1>2, <1>3, <1>4, <1>6, <1>7, <1>8 DEF a

LEMMA StatusRowIs ==
  ASSUME TypeInv, NEW s \in {"running", "failed"}, StatusRow(s)
  PROVE  /\ row'.active_tasks = row.active_tasks /\ crawl_log' = crawl_log
         /\ row'.status = "completed" => row.status = "completed"
  BY Updates DEF TypeInv, RowOK, StatusRow, SameLog

LEMMA PauseRowIs ==
  ASSUME TypeInv, PauseRow
  PROVE  /\ row'.active_tasks = row.active_tasks /\ crawl_log' = crawl_log
         /\ row'.status = "completed" => row.status = "completed"
  BY Pauses DEF TypeInv, RowOK, PauseRow, SameLog, ActiveStatus

LEMMA LedgerInvMove ==
  ASSUME Sound, LedgerInv, Move, TypeInv' PROVE Covered' /\ Early' /\ Green'
  <1>1. /\ TypeInv /\ Outstanding \in Nat /\ Outstanding' \in Nat /\ row.active_tasks \in Nat /\ row'.active_tasks \in Nat
    <2>1. TaskInv /\ TaskInv' /\ row \in Row /\ row' \in Row
      BY DEF LedgerInv, TypeInv, RowOK
    <2>2. Outstanding \in Nat
      BY <2>1, OutstandingNat
    <2>3. Outstanding' \in Nat
      <3>1. Size(task') \in Nat /\ Root' \in {0, 1}
        BY <2>1, SizedFinite DEF TaskInv, Root
      <3> QED BY <3>1, OutstandingIs
    <2> QED BY <2>1, <2>2, <2>3 DEF Row, LedgerInv
  <1>2. PICK d \in Int : Outstanding' = Outstanding + d /\ (Worked(d) \/ Outer(d))
    BY DEF Move
  <1>3. Outstanding <= row.active_tasks /\ (row.status = "completed" => Outstanding = 0 /\ "completed" \in crawl_log)
    BY DEF LedgerInv, Covered, Early, Green
  <1>4. CASE row' = row /\ d <= 0 /\ (SameLog \/ crawl_log' = {"completed"})
    BY <1>1, <1>2, <1>3, <1>4 DEF Covered, Early, Green, SameLog
  <1>5. CASE Outstanding > 0 /\ RegisterRow(d)
    <2>1. d \in Nat /\ row'.active_tasks = row.active_tasks + d /\ row'.status = row.status /\ SameLog
      BY <1>1, <1>5, Registers DEF RegisterRow, TypeInv, RowOK
    <2> QED BY <1>1, <1>2, <1>3, <1>5, <2>1 DEF Covered, Early, Green, SameLog
  <1>6. CASE Outstanding > 0 /\ d = -1 /\ CompleteRow
    <2>1. /\ row.active_tasks > 0 /\ row'.active_tasks \in {row.active_tasks, row.active_tasks - 1}
          /\ row'.status = "completed" => row.active_tasks <= 1 /\ "completed" \in crawl_log
          /\ crawl_log' = crawl_log
      BY <1>1, <1>3, <1>6, CompleteRowIs
    <2> QED BY <1>1, <1>2, <1>3, <1>6, <2>1 DEF Covered, Early, Green
  <1>7. CASE d \in {0, -1} /\ (PauseRow \/ \E s \in {"running", "failed"} : StatusRow(s))
    <2>1. /\ row'.active_tasks = row.active_tasks /\ crawl_log' = crawl_log
          /\ row'.status = "completed" => row.status = "completed"
      BY <1>1, <1>7, StatusRowIs, PauseRowIs
    <2> QED BY <1>1, <1>2, <1>3, <1>7, <2>1 DEF Covered, Early, Green
  <1>8. \/ row' = row /\ d <= 0 /\ (SameLog \/ crawl_log' = {"completed"})
        \/ Outstanding > 0 /\ RegisterRow(d)
        \/ Outstanding > 0 /\ d = -1 /\ CompleteRow
        \/ d \in {0, -1} /\ (PauseRow \/ \E s \in {"running", "failed"} : StatusRow(s))
    BY <1>2 DEF Worked, Outer, Kind, Idle, LogRow, Sound
  <1> QED BY <1>4, <1>5, <1>6, <1>7, <1>8

LEMMA InitOutstanding == ASSUME Init PROVE Outstanding = 1
  <1>1. Size(task) = 0
    <2>1. task = <<>> /\ DOMAIN task = {}
      BY DEF Init
    <2>2. UnsettledIn(task) = {} /\ UnsentIn(task) = {} /\ ReservedIn(task) = {}
      BY <2>1 DEF UnsettledIn, UnsentIn, ReservedIn
    <2> QED BY <2>2, FS_EmptySet DEF Size
  <1>2. Root = 1
    BY DEF Init, Root
  <1> QED BY <1>1, <1>2, OutstandingIs

LEMMA LedgerInvariant == ASSUME Sound PROVE Spec => []LedgerInv
  <1>1. Init => LedgerInv
    <2> SUFFICES ASSUME Init PROVE LedgerInv
      OBVIOUS
    <2>1. TypeInv /\ Caught
      BY InitTyped, InitCaught
    <2>2. row = [status |-> "pending", active_tasks |-> 1, resume_status |-> NULL]
      BY DEF Init, create_job, register_job_tasks
    <2>3. Outstanding = 1
      BY InitOutstanding
    <2> QED BY <2>1, <2>2, <2>3 DEF LedgerInv, Covered, Early, Green
  <1>2. LedgerInv /\ [Next]_vars => LedgerInv'
    <2> SUFFICES ASSUME LedgerInv, [Next]_vars PROVE LedgerInv'
      OBVIOUS
    <2>1. TypeInv' /\ Caught' /\ Move
      BY TypeInvStep, CaughtStep, NextMove DEF LedgerInv, Sound
    <2> QED BY <2>1, LedgerInvMove DEF LedgerInv
  <1> QED BY <1>1, <1>2, PTL DEF Spec

LEMMA SameStatements ==
  ASSUME NEW r, NEW n, NEW s, NEW f, NEW a
  PROVE  /\ Ledger!register_job_tasks(r, n) = register_job_tasks(r, n)
         /\ Ledger!update_job_status(r, s) = update_job_status(r, s)
         /\ Ledger!pause_job(r) = pause_job(r)
         /\ Ledger!resume_job(r) = resume_job(r)
         /\ Ledger!complete_job_task(r, f, a) = complete_job_task(r, f, a)
         /\ Ledger!create_job = create_job
  BY DEF Ledger!register_job_tasks, register_job_tasks, Ledger!update_job_status, update_job_status,
         Ledger!pause_job, pause_job, Ledger!resume_job, resume_job, Ledger!complete_job_task,
         complete_job_task, Ledger!Settled, Settled, Ledger!Decremented, Decremented,
         Ledger!create_job, create_job, Ledger!NULL, NULL, Ledger!ActiveStatus, ActiveStatus

\* TLC's bound on the tasks a job may have registered at once.
Bounded == row.active_tasks <= MaxTasks

LEMMA RegisterStep ==
  ASSUME TypeInv, Bounded', Outstanding > 0, NEW n \in Int, RegisterRow(n), Outstanding' = Outstanding + n
  PROVE  Ledger!Next
  <1>1. /\ n \in Nat \ {0} /\ row' = register_job_tasks(row, n) /\ UNCHANGED crawl_log
        /\ row'.active_tasks = row.active_tasks + n /\ row.active_tasks \in Nat /\ MaxTasks \in Nat
    BY Registers, CrawlAssumption DEF RegisterRow, SameLog, TypeInv, RowOK, Row
  <1>2. row.active_tasks + n <= MaxTasks /\ n \in 1..MaxTasks
    BY <1>1 DEF Bounded
  <1>3. Ledger!Register(n)
    BY <1>1, <1>2, SameStatements DEF Ledger!Register
  <1> QED BY <1>2, <1>3 DEF Ledger!Next

LEMMA SettleStep ==
  ASSUME TypeInv, Outstanding > 0, CompleteRow, Outstanding' = Outstanding - 1
  PROVE  Ledger!Next
  <1>1. PICK f \in BOOLEAN : row' = complete_job_task(row, f, "completed" \in crawl_log)
    BY DEF CompleteRow
  <1>2. ("completed" \in crawl_log) = (crawl_log # {})
    <2>1. crawl_log \subseteq {"completed"}
      BY DEF TypeInv, LogsOK
    <2>2. crawl_log = {} \/ crawl_log = {"completed"}
      BY <2>1
    <2> QED BY <2>2
  <1>3. Ledger!Settle(f)
    BY <1>1, <1>2, SameStatements DEF Ledger!Settle, CompleteRow, SameLog
  <1> QED BY <1>3 DEF Ledger!Next

LEMMA LoseStep ==
  ASSUME LedgerInv, TypeInv', Bounded, NEW d \in Int, d < 0, Idle, Outstanding' = Outstanding + d
  PROVE  Ledger!Next
  <1>1. /\ Outstanding \in Nat /\ Outstanding' \in Nat /\ Outstanding <= row.active_tasks
        /\ row.active_tasks \in Nat /\ MaxTasks \in Nat
    <2>1. TaskInv /\ TaskInv' /\ row \in Row
      BY DEF LedgerInv, TypeInv, RowOK
    <2>2. Size(task') \in Nat /\ Root' \in {0, 1}
      BY <2>1, SizedFinite DEF TaskInv, Root
    <2> QED BY <2>1, <2>2, OutstandingNat, OutstandingIs, CrawlAssumption DEF LedgerInv, Covered, Row
  <1>2. -d \in 1..MaxTasks /\ -d <= Outstanding /\ Outstanding' = Outstanding - (-d)
    BY <1>1 DEF Bounded
  <1>3. Ledger!Lose(-d)
    BY <1>2 DEF Ledger!Lose, Idle, SameLog
  <1> QED BY <1>2, <1>3 DEF Ledger!Next

LEMMA OtherSteps ==
  ASSUME NEW d \in {0, -1}, Outstanding \in Nat, Outstanding' \in Nat, Outstanding' = Outstanding + d,
         \/ d = 0 /\ Outstanding > 0 /\ LogRow /\ LogsOK
         \/ d = 0 /\ StatusRow("running")
         \/ StatusRow("failed")
         \/ d = 0 /\ PauseRow
  PROVE  Ledger!Next
  <1>1. CASE d = 0 /\ Outstanding > 0 /\ LogRow /\ LogsOK
    <2>1. crawl_log \subseteq {"completed"} /\ crawl_log' = {"completed"} /\ row' = row /\ Outstanding' = Outstanding
      BY <1>1 DEF LogRow, LogsOK
    <2>2. crawl_log' = crawl_log \cup {"completed"}
      BY <2>1
    <2>3. Ledger!Log("completed")
      BY <1>1, <2>1, <2>2 DEF Ledger!Log
    <2> QED BY <2>3 DEF Ledger!Next, Ledger!LogStatus
  <1>2. CASE d = 0 /\ StatusRow("running")
    BY <1>2, SameStatements DEF StatusRow, SameLog, Ledger!MarkRunning, Ledger!Next
  <1>3. CASE StatusRow("failed")
    <2>1. PICK lost \in {0, 1} : d = -lost
      OBVIOUS
    <2>2. lost <= Outstanding /\ Outstanding' = Outstanding - lost
      BY <2>1
    <2>3. Ledger!Fail(lost)
      BY <1>3, <2>2, SameStatements DEF StatusRow, SameLog, Ledger!Fail
    <2> QED BY <2>3 DEF Ledger!Next
  <1>4. CASE d = 0 /\ PauseRow
    BY <1>4, SameStatements DEF PauseRow, SameLog, Ledger!Pause, Ledger!Resume, Ledger!Next
  <1> QED BY <1>1, <1>2, <1>3, <1>4

LEMMA MoveImplements ==
  ASSUME Sound, LedgerInv, TypeInv', Move, Bounded, Bounded'
  PROVE  [Ledger!Next]_Ledger!vars
  <1>1. PICK d \in Int : Outstanding' = Outstanding + d /\ (Worked(d) \/ Outer(d))
    BY DEF Move
  <1>2. /\ TypeInv /\ LogsOK /\ Outstanding \in Nat /\ Outstanding' \in Nat
    <2>1. TaskInv /\ TaskInv' /\ TypeInv /\ LogsOK
      BY DEF LedgerInv, TypeInv
    <2>2. Size(task') \in Nat /\ Root' \in {0, 1}
      BY <2>1, SizedFinite DEF TaskInv, Root
    <2> QED BY <2>1, <2>2, OutstandingNat, OutstandingIs
  <1>3. CASE d = 0 /\ Idle
    BY <1>1, <1>2, <1>3 DEF Idle, SameLog, Ledger!vars
  <1>4. CASE Outstanding > 0 /\ RegisterRow(d)
    BY <1>1, <1>2, <1>4, RegisterStep
  <1>5. CASE Outstanding > 0 /\ d = -1 /\ CompleteRow
    <2>1. Outstanding' = Outstanding - 1
      BY <1>1, <1>2, <1>5
    <2> QED BY <1>2, <1>5, <2>1, SettleStep
  <1>6. CASE d < 0 /\ Idle
    BY <1>1, <1>6, LoseStep
  <1>7. CASE \/ d = 0 /\ Outstanding > 0 /\ LogRow
             \/ d = 0 /\ StatusRow("running")
             \/ d \in {0, -1} /\ StatusRow("failed")
             \/ d = 0 /\ PauseRow
    BY <1>1, <1>2, <1>7, OtherSteps
  <1>8. \/ d = 0 /\ Idle
        \/ Outstanding > 0 /\ RegisterRow(d)
        \/ Outstanding > 0 /\ d = -1 /\ CompleteRow
        \/ d < 0 /\ Idle
        \/ d = 0 /\ Outstanding > 0 /\ LogRow
        \/ d = 0 /\ StatusRow("running")
        \/ d \in {0, -1} /\ StatusRow("failed")
        \/ d = 0 /\ PauseRow
    BY <1>1 DEF Worked, Outer, Kind, Sound
  <1> QED BY <1>3, <1>4, <1>5, <1>6, <1>7, <1>8

\* workers/common.py, recursive_crawl_service.py, client.py:825-929: the workers, the routes
\* and the watchdog keep to the task ledger. They register before they publish and settle only
\* what they hold, whatever is raised, cancelled, paused or killed, as long as no offset is
\* handed out twice and no failed publish leaves its message behind.
THEOREM CrawlImplementsLedger ==
  ASSUME Sound PROVE Spec /\ []Bounded => LedgerSpec
  <1>1. Init => Ledger!Init
    <2> SUFFICES ASSUME Init PROVE Ledger!Init
      OBVIOUS
    <2>1. Outstanding = 1 /\ crawl_log = {} /\ row = register_job_tasks(create_job, 1)
      BY InitOutstanding DEF Init
    <2> QED BY <2>1, SameStatements DEF Ledger!Init
  <1>2. LedgerInv /\ LedgerInv' /\ [Next]_vars /\ Bounded /\ Bounded' => [Ledger!Next]_Ledger!vars
    <2>1. LedgerInv /\ LedgerInv' => TypeInv /\ TypeInv' /\ Caught
      BY DEF LedgerInv
    <2> QED BY <2>1, NextMove, MoveImplements
  <1> QED BY <1>1, <1>2, LedgerInvariant, PTL DEF Spec, LedgerSpec, Ledger!Spec

\* client.py:838: a job is never completed while one of its messages is queued or processed,
\* or a slot is reserved for one.
THEOREM NoEarlyCompletion ==
  ASSUME Sound PROVE Spec => [](row.status = "completed" => Outstanding = 0)
  <1>1. LedgerInv => (row.status = "completed" => Outstanding = 0)
    BY DEF LedgerInv, Early
  <1> QED BY <1>1, LedgerInvariant, PTL

-----------------------------------------------------------------------------
(* Where a step takes a task                                                   *)

LEMMA AfterSet ==
  ASSUME TaskInv, NEW o \in Offset, NEW t \in Task,
         task' = [task EXCEPT ![o] = t] \/ task' = Append([task EXCEPT ![o] = t], Queued)
  PROVE  task'[o] = t
  <1>1. /\ task \in Seq(Task) /\ o \in DOMAIN task /\ Queued \in Task
        /\ DOMAIN task = 1..Len(task) /\ Len(task) \in Nat
    BY SeqFacts, QueuedFits DEF TaskInv, Sized, Offset
  <1> DEFINE one == [task EXCEPT ![o] = t]
  <1>2. one \in Seq(Task) /\ Len(one) = Len(task) /\ one[o] = t
    BY <1>1, SeqFacts
  <1> HIDE DEF one
  <1>3. Append(one, Queued)[o] = one[o]
    BY <1>1, <1>2, SeqFacts
  <1> QED BY <1>2, <1>3 DEF one

LEMMA AfterGoto ==
  ASSUME TaskInv, NEW o \in Offset, NEW pc \in Live \cup {"done", "lost"},
         Goto(o, pc) \/ \E m : SendTo(o, m, pc)
  PROVE  task'[o] = [pc |-> pc, todo |-> {}]
  <1>1. [pc |-> pc, todo |-> {}] \in Task
    BY DEF Task
  <1> QED BY <1>1, AfterSet DEF Goto, SendTo

LEMMA AfterNextLink ==
  ASSUME TaskInv, NEW o \in Offset, task[o].pc \in Queuing,
         task' = ToNextLink(o) \/ task' = Append(ToNextLink(o), Queued)
  PROVE  /\ task'[o].todo = task[o].todo \ {NextLink(o)}
         /\ task'[o].pc = IF task'[o].todo = {} THEN AfterChildren(Owner(o)) ELSE "children"
  <1> DEFINE rest == task[o].todo \ {NextLink(o)}
             pc == IF rest = {} THEN AfterChildren(Owner(o)) ELSE "children"
             t == [pc |-> pc, todo |-> rest]
  <1>1. rest \in SUBSET Page /\ pc \in Live
    BY NextLinkIs, Points DEF AfterChildren
  <1>2. t \in Task
    BY <1>1 DEF Task
  <1>3. task'[o] = t
    BY <1>2, AfterSet DEF ToNextLink
  <1> QED BY <1>3

LEMMA AfterReserve ==
  ASSUME TaskInv, NEW o \in Offset, ReserveChildren(o)
  PROVE  /\ task'[o].todo = Children(o)
         /\ task'[o].pc = IF Children(o) = {} THEN AfterChildren(Owner(o)) ELSE "children"
  <1> DEFINE pc == IF Children(o) = {} THEN AfterChildren(Owner(o)) ELSE "children"
             t == [pc |-> pc, todo |-> Children(o)]
  <1>1. Children(o) \in SUBSET Page /\ pc \in Live
    BY ChildrenFinite, Points DEF AfterChildren
  <1>2. t \in Task
    BY <1>1 DEF Task
  <1>3. task'[o] = t
    BY <1>2, AfterSet DEF ReserveChildren
  <1> QED BY <1>3

LEMMA AfterCheck ==
  ASSUME TaskInv, NEW o \in Offset, task[o].pc \in Queuing, NEW pc \in Queuing, task' = [task EXCEPT ![o].pc = pc]
  PROVE  task'[o].todo = task[o].todo /\ task'[o].pc = pc
  <1>1. task[o] \in Fit
    BY DEF TaskInv
  <1>2. [task[o] EXCEPT !.pc = pc] = [pc |-> pc, todo |-> task[o].todo] /\ [pc |-> pc, todo |-> task[o].todo] \in Task
    BY <1>1, QueuingUnits DEF Fit
  <1>3. task' = [task EXCEPT ![o] = [pc |-> pc, todo |-> task[o].todo]]
    BY <1>2
  <1>4. task'[o] = [pc |-> pc, todo |-> task[o].todo]
    BY <1>2, <1>3, AfterSet
  <1> QED BY <1>4

\* A task fails its job before it settles as failed.
LEMMA OnlyFailPage ==
  ASSUME TaskInv, NEW o \in Offset, TaskStep(o) \/ TaskFault(o), task'[o].pc = "settle_failed"
  PROVE  FailPage(o)
  <1>1. CASE CheckLink(o) \/ SendChild(o) \/ MarkLink(o)
    <2>1. /\ task[o].pc \in Queuing
          /\ \/ task' = ToNextLink(o) \/ task' = Append(ToNextLink(o), Queued)
             \/ \E pc \in Queuing : task' = [task EXCEPT ![o].pc = pc]
      BY <1>1 DEF CheckLink, SendChild, MarkLink, At, Queuing
    <2>2. task'[o].pc \in Queuing \cup {"log", "publish"}
      BY <2>1, AfterNextLink, AfterCheck DEF AfterChildren, Queuing
    <2> QED BY <2>2 DEF Queuing
  <1>2. CASE ExtractChildren(o) \/ PublishParsed(o)
    BY <1>2, AfterReserve DEF ExtractChildren, PublishParsed, AfterChildren
  <1>3. ASSUME NEW pc \in {"settle", "start", "fetch", "escalating", "handoff", "handed_off", "log", "raised", "done"},
               Goto(o, pc) \/ \E m : SendTo(o, m, pc)
        PROVE  FALSE
    <2>1. pc \in Live \cup {"done", "lost"}
      BY Points
    <2>2. task'[o] = [pc |-> pc, todo |-> {}]
      BY <1>3, <2>1, AfterGoto
    <2> QED BY <2>2
  <1>4. CASE ~(CheckLink(o) \/ SendChild(o) \/ MarkLink(o) \/ ExtractChildren(o) \/ PublishParsed(o) \/ FailPage(o))
    <2>1. \E pc \in {"settle", "start", "fetch", "escalating", "handoff", "handed_off", "log", "raised", "done"} :
              Goto(o, pc) \/ \E m : SendTo(o, m, pc)
      BY <1>4 DEF TaskStep, TaskFault, PassGate, StartPage, RejectPage, Escalate, SendEscalated, HandOffAudio, SendAudio,
           LogHandOff, PublishPage, LogPage, SettlePage, Transcribe, BrowserUnavailable, SignupFails, PageRaises,
           BudgetExceeded, Escaped
    <2> QED BY <1>3, <2>1
  <1> QED BY <1>1, <1>2, <1>4

-----------------------------------------------------------------------------
(* Without losses the counter is exact                                         *)

Exact == Sound /\ ~Lossy

FailedFirst == Failing => row.status = "failed"

ExactInv == LedgerInv /\ ExactCounter /\ FailedFirst

\* The job of a message in work is not completed.
LEMMA LiveUnfinished ==
  ASSUME LedgerInv, NEW o \in Offset, task[o].pc \in Live
  PROVE  Outstanding > 0 /\ row.status # "completed"
  <1>1. Size(task) > 0 /\ Size(task) \in Nat /\ Root \in {0, 1}
    BY OutstandingNat DEF LedgerInv, TypeInv
  <1> QED BY <1>1, OutstandingIs DEF LedgerInv, Early

LEMMA FailedStays == ASSUME TypeInv, RowWrite, row.status = "failed" PROVE row'.status = "failed"
  BY RowWriteKeeps DEF TypeInv, RowOK, Finished, FinishedStatus

LEMMA TaskFailedFirst ==
  ASSUME LedgerInv, FailedFirst, NEW o \in Offset, TaskStep(o) \/ TaskFault(o) PROVE FailedFirst'
  <1>1. TypeInv /\ TaskInv /\ RowWrite /\ task[o].pc \in Live
    BY TaskTyped, TaskRunning DEF LedgerInv, TypeInv
  <1>2. PICK d \in Int : Changes(o, d)
    BY <1>1, TaskEffect DEF Effect
  <1>3. Apart(o)
    BY <1>1, <1>2, ChangesSize
  <1>4. ASSUME NEW k \in Offset', task'[k].pc = "settle_failed" PROVE row'.status = "failed"
    <2>1. CASE k \notin Offset
      BY <1>3, <1>4, <2>1, QueuedFits DEF Apart
    <2>2. CASE k = o
      <3>1. FailPage(o)
        BY <1>1, <1>4, <2>2, OnlyFailPage
      <3>2. row' = update_job_status(row, "failed") /\ row.status # "completed" /\ row \in Row
        BY <1>1, <3>1, LiveUnfinished DEF FailPage, fail_job, TypeInv, RowOK
      <3> QED BY <3>2, Updates
    <2>3. CASE k \in Offset /\ k # o
      <3>1. row.status = "failed"
        BY <1>3, <1>4, <2>3 DEF Apart, FailedFirst, Failing, At
      <3> QED BY <1>1, <3>1, FailedStays
    <2> QED BY <2>1, <2>2, <2>3
  <1> QED BY <1>4 DEF FailedFirst, Failing, At

\* No other step makes a task settle as failed, stopped workers apart.
LEMMA OthersFailedFirst ==
  ASSUME TypeInv, FailedFirst, RowWrite, \A k \in Offset' : task'[k].pc = "settle_failed" => k \in Offset /\ task[k].pc = "settle_failed"
  PROVE  FailedFirst'
  BY FailedStays DEF FailedFirst, Failing, At

LEMMA FailedFirstStep ==
  ASSUME Exact, LedgerInv, FailedFirst, [Next]_vars PROVE FailedFirst'
  <1>1. TypeInv /\ TaskInv /\ RowWrite /\ TypeInv'
    BY TypeInvStep DEF LedgerInv, TypeInv
  <1>2. CASE UNCHANGED task
    BY <1>1, <1>2, OthersFailedFirst DEF Offset
  <1>3. CASE task' = Append(task, Queued)
    <2>1. task \in Seq(Task) /\ Offset = 1..Len(task) /\ Len(task) \in Nat
      BY <1>1, SeqFacts DEF TaskInv, Sized, Offset
    <2>2. /\ Offset' = 1..(Len(task) + 1) /\ task'[Len(task) + 1] = Queued
          /\ \A k \in Offset : task'[k] = task[k]
      BY <1>3, <2>1, SeqFacts, QueuedFits DEF Offset
    <2>3. \A k \in Offset' : k \in Offset \/ k = Len(task) + 1
      BY <2>1, <2>2
    <2> QED BY <1>1, <2>2, <2>3, OthersFailedFirst, QueuedFits
  <1>4. CASE ApiStep
    BY <1>2, <1>3, <1>4 DEF ApiStep, PublishSeed, MarkSubmitted, PublishSeedFails, PauseRoute, ResumeRoute, RetryRoute,
                            CrashApi, TimePasses, WatchdogScan, FailListed, Untouched
  <1>5. ASSUME NEW g \in Group, DeliverToOwner(g) PROVE FailedFirst'
    <2> DEFINE o == position[g] + 1
    <2>1. o \in Offset /\ Changes(o, 0)
      BY <1>1, <1>5, NextOffset, OwnerDeliveryEffect DEF DeliverToOwner
    <2>2. Apart(o)
      BY <1>1, <2>1, ChangesSize
    <2>3. PICK pc \in {"fetch", "gate"} : Goto(o, pc)
      BY <1>5 DEF DeliverToOwner
    <2> HIDE DEF o
    <2>4. task'[o] = [pc |-> pc, todo |-> {}]
      BY <1>1, <2>1, <2>3, AfterGoto, Points
    <2>5. \A k \in Offset' : task'[k].pc = "settle_failed" => k \in Offset /\ task[k].pc = "settle_failed"
      BY <2>2, <2>4, QueuedFits DEF Apart
    <2> QED BY <1>1, <2>5, OthersFailedFirst
  <1>6. ASSUME NEW g \in Group, DeliverForeign(g) \/ AutoCommit(g) PROVE FailedFirst'
    BY <1>2, <1>6, ForeignDeliverySame DEF AutoCommit
  <1>7. ASSUME NEW g \in Group, CrashWorker(g) \/ StopWorker(g) PROVE FALSE
    BY <1>7 DEF CrashWorker, StopWorker, Fault, Exact, Lossy, LossKind
  <1>8. CASE Unchanged
    BY <1>2, <1>8 DEF Unchanged, vars
  <1>9. CASE Next
    BY <1>4, <1>5, <1>6, <1>7, <1>9, NextCases, TaskFailedFirst
  <1> QED BY <1>8, <1>9 DEF Unchanged

\* complete_job_task takes exactly one slot off, unless the job it is to fail is paused or completed.
LEMMA CompleteRowExact ==
  ASSUME TypeInv, FailedFirst, CompleteRow, row.active_tasks > 0
  PROVE  row'.active_tasks = row.active_tasks - 1
  <1> DEFINE a == "completed" \in crawl_log
  <1>1. PICK f \in BOOLEAN : (f => Failing) /\ row' = complete_job_task(row, f, a)
    BY DEF CompleteRow
  <1>2. a \in BOOLEAN /\ row \in Row /\ row.active_tasks \in Nat
    BY DEF TypeInv, RowOK, Row
  <1> HIDE DEF a
  <1>3. f => row.status = "failed"
    BY <1>1 DEF FailedFirst
  <1>4. row'.active_tasks = Decremented(row.active_tasks)
    BY <1>1, <1>2, <1>3, Completes
  <1> QED BY <1>2, <1>4, Decrements

LEMMA ExactMove ==
  ASSUME Exact, ExactInv, Move, TypeInv' PROVE ExactCounter'
  <1>1. /\ TypeInv /\ row.active_tasks \in Nat /\ row.active_tasks = Outstanding
    BY DEF ExactInv, LedgerInv, TypeInv, RowOK, Row, ExactCounter
  <1>2. PICK d \in Int : Outstanding' = Outstanding + d /\ (Worked(d) \/ Outer(d))
    BY DEF Move
  <1>3. CASE d = 0 /\ row' = row
    BY <1>1, <1>2, <1>3 DEF ExactCounter
  <1>4. CASE RegisterRow(d)
    <2>1. row'.active_tasks = row.active_tasks + d
      BY <1>1, <1>4, Registers DEF RegisterRow, TypeInv, RowOK
    <2> QED BY <1>1, <1>2, <2>1 DEF ExactCounter
  <1>5. CASE Outstanding > 0 /\ d = -1 /\ CompleteRow
    BY <1>1, <1>2, <1>5, CompleteRowExact DEF ExactCounter, ExactInv
  <1>6. CASE d = 0 /\ (PauseRow \/ \E s \in {"running", "failed"} : StatusRow(s))
    <2>1. row'.active_tasks = row.active_tasks
      BY <1>1, <1>6, StatusRowIs, PauseRowIs
    <2> QED BY <1>1, <1>2, <1>6, <2>1 DEF ExactCounter
  <1>7. \/ d = 0 /\ row' = row
        \/ RegisterRow(d)
        \/ Outstanding > 0 /\ d = -1 /\ CompleteRow
        \/ d = 0 /\ (PauseRow \/ \E s \in {"running", "failed"} : StatusRow(s))
    BY <1>2 DEF Worked, Outer, Kind, Exact, Sound, Idle, LogRow
  <1> QED BY <1>3, <1>4, <1>5, <1>6, <1>7

LEMMA ExactStep ==
  ASSUME Exact, ExactInv, [Next]_vars, LedgerInv' PROVE ExactInv'
  <1>1. LedgerInv /\ FailedFirst /\ TypeInv /\ Caught /\ TypeInv'
    BY DEF ExactInv, LedgerInv
  <1> QED BY <1>1, FailedFirstStep, NextMove, ExactMove DEF ExactInv

LEMMA ExactInvariant == ASSUME Exact PROVE Spec => []ExactInv
  <1>1. Init /\ LedgerInv => ExactInv
    <2> SUFFICES ASSUME Init, LedgerInv PROVE ExactInv
      OBVIOUS
    <2>1. Outstanding = 1 /\ row.active_tasks = 1 /\ Offset = {}
      <3>1. row = [status |-> "pending", active_tasks |-> 1, resume_status |-> NULL]
        BY DEF Init, create_job, register_job_tasks
      <3>2. task = <<>>
        BY DEF Init
      <3> QED BY <3>1, <3>2, InitOutstanding DEF Offset
    <2> QED BY <2>1 DEF ExactInv, ExactCounter, FailedFirst, Failing
  <1>2. ExactInv /\ LedgerInv' /\ [Next]_vars => ExactInv'
    BY ExactStep
  <1>3. Sound
    BY DEF Exact
  <1> QED BY <1>1, <1>2, <1>3, LedgerInvariant, PTL DEF Spec

\* Every slot that was registered is given back exactly once, also when pages raise, the browser is
\* missing, a signup fails or the job is paused, failed or retried meanwhile (client.py:825-929):
\* only a publish that fails, a page over its budget and a worker that is stopped or killed can
\* leave the counter too high.
THEOREM ExactCounterTheorem == ASSUME Exact PROVE Spec => []ExactCounter
  <1>1. ExactInv => ExactCounter
    BY DEF ExactInv
  <1> QED BY <1>1, ExactInvariant, PTL

-----------------------------------------------------------------------------
(* Whoever settles the last slot finishes the job                              *)

NeverPaused == row.status # "paused"
LastEnds    == row.active_tasks = 0 => row.status \in {"completed", "failed"}

LEMMA NoPauseStep ==
  ASSUME Exact, "pause" \notin Faults, ExactInv, NeverPaused, LastEnds, [Next]_vars, TypeInv'
  PROVE  NeverPaused' /\ LastEnds'
  <1>1. /\ TypeInv /\ FailedFirst /\ row \in Row /\ row.status \in JobStatus /\ row.status # "skipped"
        /\ row' \in Row /\ row'.status # "skipped" /\ row.active_tasks \in Nat /\ row.active_tasks = Outstanding
    BY DEF ExactInv, LedgerInv, TypeInv, RowOK, Row, ExactCounter, NeverSkipped
  <1>2. PICK d \in Int : Outstanding' = Outstanding + d /\ (Worked(d) \/ Outer(d))
    BY NextMove DEF ExactInv, LedgerInv, Move
  <1>3. CASE row' = row
    BY <1>3 DEF NeverPaused, LastEnds
  <1>4. CASE PauseRow
    BY <1>3, <1>4 DEF PauseRow, NeverPaused, resume_job
  <1>5. CASE RegisterRow(d)
    <2>1. d \in Nat \ {0} /\ row'.active_tasks = row.active_tasks + d /\ row'.status = row.status
      BY <1>1, <1>5, Registers DEF RegisterRow
    <2> QED BY <1>1, <2>1 DEF NeverPaused, LastEnds
  <1>6. CASE Outstanding > 0 /\ CompleteRow
    <2> DEFINE a == "completed" \in crawl_log
    <2>1. PICK f \in BOOLEAN : (f => Failing) /\ row' = complete_job_task(row, f, a)
      BY <1>6 DEF CompleteRow
    <2>2. a \in BOOLEAN
      OBVIOUS
    <2> HIDE DEF a
    <2>3. /\ row.status \in {"completed", "failed"} => row'.status = row.status
          /\ \/ f /\ row.status \in {"completed", "paused"} /\ row' = row
             \/ f /\ row'.status = "failed"
             \/ ~f /\ row'.status = IF row.active_tasks <= 1 /\ row.status \in ActiveStatus
                                    THEN IF a THEN "completed" ELSE "failed" ELSE row.status
      BY <1>1, <2>1, <2>2, Completes
    <2>4. row'.active_tasks = row.active_tasks - 1
      BY <1>1, <1>6, CompleteRowExact
    <2>5. row.status \in ActiveStatus \/ row.status \in {"completed", "failed"}
      BY <1>1 DEF NeverPaused, JobStatus, ActiveStatus
    <2>6. NeverPaused'
      BY <2>3 DEF NeverPaused
    <2>7. LastEnds'
      <3> SUFFICES ASSUME row'.active_tasks = 0 PROVE row'.status \in {"completed", "failed"}
        BY DEF LastEnds
      <3>1. row.active_tasks <= 1
        BY <1>1, <2>4
      <3>2. f => row.status = "failed"
        BY <1>1, <2>1 DEF FailedFirst
      <3> QED BY <2>3, <2>5, <3>1, <3>2
    <2> QED BY <2>6, <2>7
  <1>7. ASSUME NEW s \in {"running", "failed"}, StatusRow(s) PROVE NeverPaused' /\ LastEnds'
    <2>1. /\ row'.active_tasks = row.active_tasks /\ (row'.status = row.status \/ row'.status = s)
          /\ row.status \in {"completed", "failed"} => row'.status = row.status
      BY <1>1, <1>7, Updates DEF StatusRow
    <2> QED BY <2>1 DEF NeverPaused, LastEnds
  <1> QED BY <1>2, <1>3, <1>4, <1>5, <1>6, <1>7 DEF Worked, Outer, Kind, Idle, LogRow

\* recursive_crawl_service.py:107-151, client.py:838-929: a running job still has work, so it waits for
\* something: whoever settles the last slot finishes it. (A job that is paused while its last
\* slot is settled stays unfinished when it is resumed.)
THEOREM RunningHasWorkTheorem ==
  ASSUME Exact, "pause" \notin Faults PROVE Spec => []RunningHasWork
  <1>1. Init => NeverPaused /\ LastEnds
    BY DEF Init, create_job, register_job_tasks, NeverPaused, LastEnds
  <1>2. ExactInv /\ ExactInv' /\ [Next]_vars /\ NeverPaused /\ LastEnds => NeverPaused' /\ LastEnds'
    BY NoPauseStep DEF ExactInv, LedgerInv
  <1>3. ExactInv /\ LastEnds => RunningHasWork
    BY DEF ExactInv, ExactCounter, LedgerInv, TypeInv, RowOK, Row, LastEnds, RunningHasWork
  <1> QED BY <1>1, <1>2, <1>3, ExactInvariant, PTL DEF Spec

-----------------------------------------------------------------------------
(* The links of a published page                                               *)

Sent(link)    == \E p \in Offset : MsgAt(p).url = link
Waiting(link) == \E p \in Offset : link \in task[p].todo

\* Only a link that was sent, or whose task is about to send it, is marked.
VisitedSent ==
  \A link \in visited : Sent(link) \/ \E p \in Offset : At(p, "send") /\ NextLink(p) = link

\* Crawl workers whose page is published, or which are past the extraction of its links.
Past == Queuing \cup {"publish"}
Extracted == {o \in Offset : Owner(o) # "transcribe" /\ (o \in published \/ task[o].pc \in Past)}

LinksKept == \A o \in Extracted : \A link \in Children(o) : Sent(link) \/ Waiting(link)

LEMMA VisitedIs ==
  ASSUME TaskInv, VisitedSent, NEW link \in visited
  PROVE  Sent(link) \/ \E p \in Offset : At(p, "send") /\ link \in task[p].todo
  <1>1. ASSUME NEW p \in Offset, At(p, "send"), NextLink(p) = link PROVE link \in task[p].todo
    BY <1>1, NextLinkIs DEF At, Queuing
  <1> QED BY <1>1 DEF VisitedSent

\* What a step of one task does to links and marks, when nothing is lost.
Gains(o) == Owner(o) = "transcribe" \/ o \in Extracted \/ task'[o].todo = Children(o)
LinkStep(o) ==
  \/ UNCHANGED visited /\ task'[o].todo = task[o].todo /\ ~At(o, "send")
  \/ visited' = visited \cup {NextLink(o)} /\ At(o, "mark") /\ task'[o].todo = task[o].todo /\ task'[o].pc = "send"
  \/ UNCHANGED visited /\ At(o, "children") /\ NextLink(o) \in visited /\ task'[o].todo = task[o].todo \ {NextLink(o)}
  \/ UNCHANGED visited /\ At(o, "send") /\ (\E link : link = NextLink(o) /\ task'[o].todo = task[o].todo \ {link} /\ Sent(link)')
  \/ UNCHANGED visited /\ task[o].todo = {} /\ ~At(o, "send")
KeepsLinks(o) ==
  /\ Apart(o) /\ LinkStep(o)
  /\ published' \subseteq published \cup {o}
  /\ (published' # published \/ task'[o].pc \in Past) => Gains(o)

LEMMA TaskApart ==
  ASSUME TypeInv, NEW o \in Offset, TaskStep(o) \/ TaskFault(o)
  PROVE  TaskInv /\ TaskInv' /\ Apart(o) /\ o \in Offset'
  <1>1. PICK d \in Int : Changes(o, d)
    BY TaskEffect DEF TypeInv, Effect
  <1> QED BY <1>1, ChangesSize DEF TypeInv, Apart

LEMMA CheckLinks ==
  ASSUME TypeInv, NEW o \in Offset, TaskStep(o) \/ TaskFault(o), CheckLink(o) \/ MarkLink(o) PROVE KeepsLinks(o)
  <1>1. TaskInv /\ Apart(o) /\ task[o].pc \in Queuing /\ UNCHANGED published
    BY TaskApart DEF CheckLink, MarkLink, At, Queuing
  <1>2. Gains(o)
    BY <1>1 DEF Gains, Extracted, Past
  <1>3. CASE CheckLink(o) /\ NextLink(o) \in visited
    <2>1. At(o, "children") /\ task' = ToNextLink(o) /\ UNCHANGED visited
      BY <1>3 DEF CheckLink
    <2>2. task'[o].todo = task[o].todo \ {NextLink(o)}
      BY <1>1, <2>1, AfterNextLink
    <2> QED BY <1>1, <1>2, <1>3, <2>1, <2>2 DEF KeepsLinks, LinkStep
  <1>4. CASE CheckLink(o) /\ NextLink(o) \notin visited
    <2>1. At(o, "children") /\ task' = [task EXCEPT ![o].pc = "mark"] /\ UNCHANGED visited
      BY <1>4 DEF CheckLink
    <2>2. task'[o].todo = task[o].todo
      BY <1>1, <2>1, AfterCheck DEF Queuing
    <2> QED BY <1>1, <1>2, <2>1, <2>2 DEF KeepsLinks, LinkStep, At
  <1>5. CASE MarkLink(o)
    <2>1. At(o, "mark") /\ task' = [task EXCEPT ![o].pc = "send"] /\ visited' = visited \cup {NextLink(o)}
      BY <1>5 DEF MarkLink
    <2>2. task'[o].todo = task[o].todo /\ task'[o].pc = "send"
      BY <1>1, <2>1, AfterCheck DEF Queuing
    <2> QED BY <1>1, <1>2, <2>1, <2>2 DEF KeepsLinks, LinkStep
  <1> QED BY <1>3, <1>4, <1>5

LEMMA SendLinks ==
  ASSUME Exact, TypeInv, NEW o \in Offset, TaskStep(o) \/ TaskFault(o), SendChild(o) PROVE KeepsLinks(o)
  <1>1. TaskInv /\ TaskInv' /\ Apart(o) /\ task[o].pc \in Queuing /\ UNCHANGED <<published, visited>> /\ At(o, "send")
    BY TaskApart DEF SendChild, At, Queuing
  <1>2. Gains(o)
    BY <1>1 DEF Gains, Extracted, Past
  <1>3. crawl_requests' = Append(crawl_requests, ChildRequest(o)) /\ task' = Append(ToNextLink(o), Queued)
    BY DEF SendChild, Fault, Exact, Sound, Lossy, LossKind
  <1>4. task'[o].todo = task[o].todo \ {NextLink(o)}
    BY <1>1, <1>3, AfterNextLink
  <1>5. PICK link : link = NextLink(o)
    OBVIOUS
  <1>6. Sent(link)'
    <2> DEFINE p == Len(crawl_requests) + 1
               m == ChildRequest(o)
    <2>1. /\ crawl_requests \in Seq(CrawlRequest) /\ Len(task') = Len(crawl_requests') /\ task' \in Seq(Task)
      BY <1>1 DEF TaskInv, Sized
    <2>2. m \in CrawlRequest
      <3>1. NextLink(o) \in Page /\ assign_worker[NextLink(o)] \in Worker
        BY <1>1, NextLinkIs, CrawlAssumption
      <3> QED BY <1>1, <3>1, MessageTyped DEF ChildRequest, Request, CrawlRequest
    <2>3. m.url = link
      BY <1>5 DEF ChildRequest, Request
    <2> HIDE DEF m
    <2>4. crawl_requests'[p] = m /\ Len(crawl_requests') = p /\ p \in Nat \ {0}
      BY <1>3, <2>1, <2>2, SeqFacts DEF m
    <2>5. p \in Offset'
      BY <2>1, <2>4, SeqFacts DEF Offset
    <2>6. crawl_requests'[p].url = link
      BY <2>3, <2>4
    <2> HIDE DEF p
    <2> QED BY <2>5, <2>6 DEF Sent, MsgAt
  <1> QED BY <1>1, <1>2, <1>4, <1>5, <1>6 DEF KeepsLinks, LinkStep

LEMMA ReserveLinks ==
  ASSUME TypeInv, NEW o \in Offset, TaskStep(o) \/ TaskFault(o), ExtractChildren(o) \/ PublishParsed(o) PROVE KeepsLinks(o)
  <1>1. /\ TaskInv /\ Apart(o) /\ task[o].pc = "fetch" /\ ReserveChildren(o) /\ UNCHANGED visited
        /\ published' \subseteq published \cup {o}
    BY TaskApart DEF ExtractChildren, PublishParsed, At
  <1>2. task[o].todo = {}
    BY <1>1 DEF TaskInv, Fit, Queuing
  <1>3. Gains(o)
    BY <1>1, AfterReserve DEF Gains
  <1> QED BY <1>1, <1>2, <1>3 DEF KeepsLinks, LinkStep, At

LEMMA OtherLinks ==
  ASSUME Exact, TypeInv, NEW o \in Offset, TaskStep(o) \/ TaskFault(o),
         ~(CheckLink(o) \/ MarkLink(o) \/ SendChild(o) \/ ExtractChildren(o) \/ PublishParsed(o))
  PROVE  KeepsLinks(o)
  <1>1. TaskInv /\ Apart(o)
    BY TaskApart
  <1>2. \E pc \in (Live \cup {"done", "lost"}) \ Past : Goto(o, pc) \/ \E m : SendTo(o, m, pc)
    <2>1. {"settle", "start", "fetch", "escalating", "handoff", "handed_off", "log", "raised", "done", "settle_failed"}
             \subseteq (Live \cup {"done", "lost"}) \ Past
      BY Points DEF Past, Queuing
    <2>2. \E pc \in {"settle", "start", "fetch", "escalating", "handoff", "handed_off", "log", "raised", "done", "settle_failed"} :
             Goto(o, pc) \/ \E m : SendTo(o, m, pc)
      BY DEF TaskStep, TaskFault, PassGate, StartPage, RejectPage, Escalate, SendEscalated, HandOffAudio, SendAudio,
           LogHandOff, PublishPage, LogPage, SettlePage, Transcribe, BrowserUnavailable, SignupFails, PageRaises,
           BudgetExceeded, FailPage, Escaped
    <2> QED BY <2>1, <2>2
  <1>3. task'[o].pc \notin Past /\ task'[o].todo = {}
    <2>1. PICK pc \in (Live \cup {"done", "lost"}) \ Past : Goto(o, pc) \/ \E m : SendTo(o, m, pc)
      BY <1>2
    <2>2. task'[o] = [pc |-> pc, todo |-> {}]
      BY <1>1, <2>1, AfterGoto
    <2> QED BY <2>1, <2>2
  <1>4. /\ task[o].pc \notin Queuing /\ UNCHANGED visited /\ published' \subseteq published \cup {o}
        /\ published' # published => task[o].pc = "publish" \/ Owner(o) = "transcribe"
    <2>1. ~BudgetExceeded(o)
      BY DEF BudgetExceeded, Fault, Exact, Lossy, LossKind
    <2> QED BY <2>1
      DEF TaskStep, TaskFault, PassGate, StartPage, RejectPage, Escalate, SendEscalated, HandOffAudio, SendAudio,
           LogHandOff, PublishPage, LogPage, SettlePage, Transcribe, BrowserUnavailable, SignupFails, PageRaises,
           FailPage, At, Queuing
  <1>5. task[o].todo = {}
    BY <1>1, <1>4 DEF TaskInv, Fit
  <1>6. task[o].pc = "publish" \/ Owner(o) = "transcribe" => Gains(o)
    BY DEF Gains, Extracted, Past
  <1> QED BY <1>1, <1>3, <1>4, <1>5, <1>6 DEF KeepsLinks, LinkStep, At, Queuing

LEMMA DeliveryLinks ==
  ASSUME TypeInv, NEW g \in Group, DeliverToOwner(g) PROVE position[g] + 1 \in Offset /\ KeepsLinks(position[g] + 1)
  <1> DEFINE o == position[g] + 1
  <1>1. o \in Offset /\ Changes(o, 0) /\ task[o] = Queued /\ UNCHANGED <<visited, published>> /\ TaskInv
    BY NextOffset, OwnerDeliveryEffect DEF DeliverToOwner, TypeInv
  <1>2. PICK pc \in {"fetch", "gate"} : Goto(o, pc)
    BY DEF DeliverToOwner
  <1> HIDE DEF o
  <1>3. Apart(o)
    BY <1>1, ChangesSize
  <1>4. task'[o] = [pc |-> pc, todo |-> {}]
    BY <1>1, <1>2, AfterGoto, Points
  <1>5. KeepsLinks(o)
    BY <1>1, <1>3, <1>4, QueuedFits DEF KeepsLinks, LinkStep, Past, Queuing, At
  <1> QED BY <1>1, <1>5 DEF o

\* A step of one task keeps every link of a published page sent or waiting.
LEMMA LinksStep ==
  ASSUME TaskInv, VisitedSent, LinksKept, PagesOK, NEW o \in Offset, KeepsLinks(o)
  PROVE  VisitedSent' /\ LinksKept'
  <1>1. /\ Offset \subseteq Offset' /\ o \in Offset'
        /\ \A k \in Offset : (k # o => task'[k] = task[k]) /\ MsgAt(k)' = MsgAt(k)
        /\ \A k \in Offset' \ Offset : task'[k] = Queued
    BY DEF KeepsLinks, Apart, MsgAt
  <1>2. ASSUME NEW link, Sent(link) PROVE Sent(link)'
    BY <1>1, <1>2 DEF Sent
  <1>3. ASSUME NEW p \in Offset, NEW link \in task[p].todo, p # o PROVE Waiting(link)'
    BY <1>1, <1>3 DEF Waiting
  <1>4. LinkStep(o)
    BY DEF KeepsLinks
  <1>5. ASSUME NEW link \in visited' PROVE (Sent(link) \/ \E p \in Offset : At(p, "send") /\ NextLink(p) = link)'
    <2>1. CASE link \in visited /\ Sent(link)
      BY <1>2, <2>1
    <2>2. ASSUME NEW p \in Offset, At(p, "send"), NextLink(p) = link, p # o PROVE At(p, "send")' /\ NextLink(p)' = link
      BY <1>1, <2>2 DEF At, NextLink
    <2>3. CASE link \in visited /\ At(o, "send") /\ NextLink(o) = link
      BY <1>4, <2>3 DEF LinkStep, At
    <2>4. CASE link \notin visited
      <3>1. task'[o].todo = task[o].todo /\ task'[o].pc = "send" /\ NextLink(o) = link
        BY <1>4, <1>5, <2>4 DEF LinkStep
      <3>2. NextLink(o)' = link /\ At(o, "send")'
        BY <3>1 DEF NextLink, At
      <3> QED BY <1>1, <3>2
    <2> QED BY <1>1, <2>1, <2>2, <2>3, <2>4 DEF VisitedSent
  <1>6. VisitedSent'
    BY <1>5 DEF VisitedSent
  <1>7. ASSUME NEW link \in task[o].todo PROVE Sent(link)' \/ Waiting(link)'
    <2>1. CASE link \in task'[o].todo
      BY <1>1, <2>1 DEF Waiting
    <2>2. CASE link \notin task'[o].todo
      <3>1. /\ link = NextLink(o)
            /\ (At(o, "children") /\ link \in visited) \/ Sent(link)'
        BY <1>4, <1>7, <2>2 DEF LinkStep
      <3>2. CASE At(o, "children") /\ link \in visited
        <4>1. Sent(link) \/ \E p \in Offset : At(p, "send") /\ link \in task[p].todo
          BY <3>2, VisitedIs
        <4>2. ASSUME NEW p \in Offset, At(p, "send") PROVE p # o
          BY <3>2, <4>2 DEF At
        <4> QED BY <1>2, <1>3, <4>1, <4>2
      <3> QED BY <3>1, <3>2
    <2> QED BY <2>1, <2>2
  <1>8. ASSUME NEW k \in Extracted', NEW link \in Children(k)' PROVE Sent(link)' \/ Waiting(link)'
    <2>1. k \in Offset
      <3>1. CASE k \notin Offset
        <4>1. k \in Offset' /\ task'[k] = Queued
          BY <1>1, <1>8, <3>1 DEF Extracted
        <4>2. k \notin published'
          BY <3>1 DEF KeepsLinks, PagesOK
        <4> QED BY <1>8, <4>1, <4>2, QueuedFits DEF Extracted, Past, Queuing
      <3> QED BY <3>1
    <2>2. Children(k)' = Children(k) /\ Owner(k)' = Owner(k)
      BY <1>1, <2>1 DEF Children, Owner
    <2>3. CASE k \in Extracted
      <3>1. Sent(link) \/ Waiting(link)
        BY <1>8, <2>2, <2>3 DEF LinksKept
      <3>2. CASE Waiting(link)
        <4>1. PICK p \in Offset : link \in task[p].todo
          BY <3>2 DEF Waiting
        <4> QED BY <1>3, <1>7, <4>1
      <3> QED BY <1>2, <3>1, <3>2
    <2>4. CASE k \notin Extracted
      <3>1. k = o
        BY <1>1, <1>8, <2>1, <2>2, <2>4 DEF Extracted, KeepsLinks
      <3>2. Gains(o) /\ Owner(o) # "transcribe"
        BY <1>8, <2>1, <2>2, <2>4, <3>1 DEF Extracted, KeepsLinks
      <3>3. link \in task'[o].todo
        BY <1>8, <2>2, <2>4, <3>1, <3>2 DEF Gains
      <3> QED BY <1>1, <3>3 DEF Waiting
    <2> QED BY <2>3, <2>4
  <1>9. LinksKept'
    BY <1>8 DEF LinksKept
  <1> QED BY <1>6, <1>9

\* Nobody's task changes, except that the seed may be published.
LEMMA SameLinks ==
  ASSUME TaskInv, VisitedSent, LinksKept, PagesOK, UNCHANGED <<visited, published>>,
         \/ UNCHANGED <<task, crawl_requests>>
         \/ task' = Append(task, Queued) /\ crawl_requests' = Append(crawl_requests, SeedRequest)
  PROVE  VisitedSent' /\ LinksKept'
  <1>1. /\ Offset \subseteq Offset'
        /\ \A k \in Offset : task'[k] = task[k] /\ MsgAt(k)' = MsgAt(k)
        /\ \A k \in Offset' \ Offset : task'[k] = Queued
    <2>1. CASE UNCHANGED <<task, crawl_requests>>
      BY <2>1 DEF Offset, MsgAt
    <2>2. CASE task' = Append(task, Queued) /\ crawl_requests' = Append(crawl_requests, SeedRequest)
      <3>1. /\ task \in Seq(Task) /\ crawl_requests \in Seq(CrawlRequest) /\ Len(task) = Len(crawl_requests)
            /\ Offset = 1..Len(task) /\ Len(task) \in Nat
        BY SeqFacts DEF TaskInv, Sized, Offset
      <3>2. /\ Offset' = 1..(Len(task) + 1) /\ task'[Len(task) + 1] = Queued
            /\ \A k \in Offset : task'[k] = task[k]
        BY <2>2, <3>1, SeqFacts, QueuedFits DEF Offset
      <3>3. \A k \in Offset : crawl_requests'[k] = crawl_requests[k]
        BY <2>2, <3>1, SeqFacts, SeedTyped
      <3> QED BY <3>1, <3>2, <3>3 DEF MsgAt
    <2> QED BY <2>1, <2>2
  <1>2. ASSUME NEW link PROVE (Sent(link) => Sent(link)') /\ (Waiting(link) => Waiting(link)')
    BY <1>1 DEF Sent, Waiting
  <1>3. ASSUME NEW p \in Offset PROVE (At(p, "send") => At(p, "send")') /\ NextLink(p)' = NextLink(p)
    BY <1>1 DEF At, NextLink
  <1>4. VisitedSent'
    <2>1. ASSUME NEW link \in visited' PROVE Sent(link)' \/ \E p \in Offset' : At(p, "send")' /\ NextLink(p)' = link
      BY <1>1, <1>2, <1>3, <2>1 DEF VisitedSent
    <2> QED BY <2>1 DEF VisitedSent
  <1>5. ASSUME NEW k \in Extracted' PROVE k \in Extracted /\ Children(k)' = Children(k)
    <2>1. k \in Offset
      BY <1>1, <1>5, QueuedFits DEF Extracted, PagesOK, Past, Queuing
    <2> QED BY <1>1, <1>5, <2>1 DEF Extracted, Children, Owner
  <1>6. LinksKept'
    BY <1>2, <1>5 DEF LinksKept
  <1> QED BY <1>4, <1>6

LEMMA LinksKeptStep ==
  ASSUME Exact, TypeInv, VisitedSent, LinksKept, [Next]_vars
  PROVE  VisitedSent' /\ LinksKept'
  <1>1. TaskInv /\ PagesOK
    BY DEF TypeInv
  <1>2. CASE ApiStep
    <2>1. /\ UNCHANGED <<visited, published>>
          /\ \/ UNCHANGED <<task, crawl_requests>>
             \/ task' = Append(task, Queued) /\ crawl_requests' = Append(crawl_requests, SeedRequest)
      BY <1>2 DEF ApiStep, PublishSeed, MarkSubmitted, PublishSeedFails, PauseRoute, ResumeRoute, RetryRoute,
                  CrashApi, TimePasses, WatchdogScan, FailListed, Untouched, topicVars, Publish
    <2> QED BY <1>1, <2>1, SameLinks
  <1>3. ASSUME NEW o \in Offset, TaskStep(o) \/ TaskFault(o) PROVE VisitedSent' /\ LinksKept'
    <2>1. KeepsLinks(o)
      BY <1>3, CheckLinks, SendLinks, ReserveLinks, OtherLinks
    <2> QED BY <1>1, <2>1, LinksStep
  <1>4. ASSUME NEW g \in Group, DeliverToOwner(g) PROVE VisitedSent' /\ LinksKept'
    BY <1>1, <1>4, DeliveryLinks, LinksStep
  <1>5. ASSUME NEW g \in Group, DeliverForeign(g) \/ AutoCommit(g) PROVE VisitedSent' /\ LinksKept'
    <2>1. UNCHANGED <<visited, published, task, crawl_requests>>
      BY <1>5, ForeignDeliverySame DEF AutoCommit, DeliverForeign, Advance
    <2> QED BY <1>1, <2>1, SameLinks
  <1>6. ASSUME NEW g \in Group, CrashWorker(g) \/ StopWorker(g) PROVE FALSE
    BY <1>6 DEF CrashWorker, StopWorker, Fault, Exact, Lossy, LossKind
  <1>7. CASE Unchanged
    BY <1>1, <1>7, SameLinks DEF Unchanged, vars
  <1>8. CASE Next
    BY <1>2, <1>3, <1>4, <1>5, <1>6, <1>8, NextCases
  <1> QED BY <1>7, <1>8 DEF Unchanged

\* Nothing is outstanding, so no link waits.
LEMMA NothingWaits == ASSUME TaskInv, Outstanding = 0, NEW link PROVE ~Waiting(link)
  <1>1. Size(task) = 0
    BY OutstandingIs, OutstandingNat
  <1>2. ASSUME NEW p \in Offset, link \in task[p].todo PROVE FALSE
    <2>1. task[p].pc \in Live
      BY <1>2, Points DEF TaskInv, Fit
    <2> QED BY <1>1, <2>1, OutstandingNat
  <1> QED BY <1>2 DEF Waiting

\* recursive_crawl_service.py:96-151: when a job is completed, the links of every page that was
\* published within the depth limit were queued, although is_visited and mark_visited are two calls
\* and two pages may check the same link between them. (A publish that fails leaves its link marked,
\* and a page that is cancelled or killed leaves its links, so those are excluded.)
THEOREM LinksFollowedTheorem == ASSUME Exact PROVE Spec => []LinksFollowed
  <1>1. Init => VisitedSent /\ LinksKept
    BY DEF Init, VisitedSent, LinksKept, Extracted, Offset
  <1>2. LedgerInv /\ VisitedSent /\ LinksKept /\ [Next]_vars => VisitedSent' /\ LinksKept'
    BY LinksKeptStep DEF LedgerInv
  <1>3. LedgerInv /\ LinksKept => LinksFollowed
    <2> SUFFICES ASSUME LedgerInv, LinksKept, row.status = "completed", NEW o \in published,
                        Owner(o) # "transcribe", MsgAt(o).depth < max_depth, NEW link \in Links[MsgAt(o).url]
                 PROVE  \E p \in Offset : MsgAt(p).url = link
      BY DEF LinksFollowed
    <2>1. TaskInv /\ Outstanding = 0 /\ o \in Offset
      BY DEF LedgerInv, TypeInv, Early, PagesOK
    <2>2. o \in Extracted /\ link \in Children(o)
      BY <2>1 DEF Extracted, Children
    <2> QED BY <2>1, <2>2, NothingWaits DEF LinksKept, Sent
  <1>4. Sound
    BY DEF Exact
  <1> QED BY <1>1, <1>2, <1>3, <1>4, LedgerInvariant, PTL DEF Spec

-----------------------------------------------------------------------------
(* A page that raised in the deep or dark worker fails its job                 *)

\* The task that raised has failed the job, or is going to; or it was stopped before it could, and its
\* slot is never given back.
Unwinding == {o \in Offset : task[o].pc \in {"raised", "settle_failed"}}
Gap       == row.active_tasks > Outstanding
Doomed    == row.status # "completed" /\ (row.status = "failed" \/ Unwinding # {} \/ Gap)
CrashInv  == raised \cap {"deep", "dark"} # {} => Doomed

\* The last slot decides: a job with others left is not completed by a step.
LEMMA StaysOpen ==
  ASSUME Sound, LedgerInv, Move, TypeInv', row.status # "completed", Outstanding > 1 \/ Gap
  PROVE  row'.status # "completed" /\ (Gap => Gap')
  <1>1. /\ TypeInv /\ row \in Row /\ row.active_tasks \in Nat /\ Outstanding \in Nat /\ Outstanding <= row.active_tasks
        /\ TaskInv' /\ row' \in Row /\ row'.active_tasks \in Nat
    BY OutstandingNat DEF LedgerInv, TypeInv, RowOK, Row, Covered
  <1>2. PICK d \in Int : Outstanding' = Outstanding + d /\ (Worked(d) \/ Outer(d))
    BY DEF Move
  <1>3. CASE row' = row /\ d <= 0
    BY <1>1, <1>2, <1>3 DEF Gap
  <1>4. CASE RegisterRow(d)
    <2>1. row'.status = row.status /\ row'.active_tasks = row.active_tasks + d /\ d \in Nat
      BY <1>1, <1>4, Registers DEF RegisterRow
    <2> QED BY <1>1, <1>2, <2>1 DEF Gap
  <1>5. CASE Outstanding > 0 /\ d = -1 /\ CompleteRow
    <2>1. row.active_tasks > 1
      BY <1>1, <1>5 DEF Gap
    <2>2. row'.status # "completed" /\ row'.active_tasks \in {row.active_tasks, row.active_tasks - 1}
      BY <1>1, <1>5, <2>1, CompleteRowIs
    <2> QED BY <1>1, <1>2, <1>5, <2>2 DEF Gap
  <1>6. CASE d \in {0, -1} /\ (PauseRow \/ \E s \in {"running", "failed"} : StatusRow(s))
    <2>1. row'.active_tasks = row.active_tasks /\ row'.status # "completed"
      BY <1>1, <1>6, StatusRowIs, PauseRowIs
    <2> QED BY <1>1, <1>2, <1>6, <2>1 DEF Gap
  <1>7. \/ row' = row /\ d <= 0
        \/ RegisterRow(d)
        \/ Outstanding > 0 /\ d = -1 /\ CompleteRow
        \/ d \in {0, -1} /\ (PauseRow \/ \E s \in {"running", "failed"} : StatusRow(s))
    BY <1>2 DEF Worked, Outer, Kind, Sound, Idle, LogRow
  <1> QED BY <1>3, <1>4, <1>5, <1>6, <1>7

LEMMA TwoTasks ==
  ASSUME TypeInv, NEW o \in Offset, NEW k \in Offset, o # k, task[o].pc \in Live, task[k].pc \in Live
  PROVE  Outstanding > 1
  <1>1. /\ Sized(task) /\ o \in DOMAIN task /\ k \in DOMAIN task /\ task[o] \in Task /\ task[k] \in Task
        /\ IsFiniteSet(task[o].todo) /\ IsFiniteSet(task[k].todo)
    BY DEF TypeInv, TaskInv, Fit, Offset
  <1> DEFINE t == [pc |-> "lost", todo |-> {}]
             new == [task EXCEPT ![o] = t]
  <1>2. t \in Task /\ IsFiniteSet(t.todo) /\ Units(t) = 0
    BY RestFits, Points DEF Fit, Held, Queuing, Reserving
  <1>3. /\ Sized(new) /\ Size(new) = Size(task) - Units(task[o]) + Units(t)
        /\ Units(task[o]) \in Nat /\ Units(task[o]) <= Size(task)
    BY <1>1, <1>2, SetTask
  <1>4. new[k] = task[k] /\ k \in DOMAIN new
    BY <1>1
  <1> HIDE DEF new, t
  <1>5. Units(new[k]) <= Size(new)
    BY <1>1, <1>2, <1>3, <1>4, SetTask
  <1>6. Units(task[o]) >= 1 /\ Units(task[k]) >= 1 /\ Units(task[k]) \in Nat
    <2>1. Cardinality(task[o].todo) \in Nat /\ Cardinality(task[k].todo) \in Nat
      BY <1>1, FS_CardinalityType
    <2> QED BY <2>1 DEF Units, One
  <1>7. Size(task) \in Nat /\ Root \in {0, 1}
    BY OutstandingNat DEF TypeInv
  <1> QED BY <1>2, <1>3, <1>4, <1>5, <1>6, <1>7, OutstandingIs

LEMMA RaisesIs ==
  ASSUME TypeInv, NEW o \in Offset, TaskStep(o) \/ TaskFault(o), raised' # raised
  PROVE  row' = row /\ raised' = raised \cup {Owner(o)} /\ (Owner(o) \in {"deep", "dark"} => task'[o].pc = "raised")
  <1>1. (SendEscalated(o) \/ PageRaises(o)) /\ TaskInv
    BY DEF TaskStep, TaskFault, PassGate, StartPage, RejectPage, Escalate, HandOffAudio, SendAudio,
           LogHandOff, ExtractChildren, CheckLink, MarkLink, SendChild, PublishPage, PublishParsed, LogPage, FailPage,
           SettlePage, Transcribe, BrowserUnavailable, SignupFails, BudgetExceeded, TypeInv
  <1>2. /\ row' = row /\ raised' = raised \cup {Owner(o)}
        /\ Goto(o, Escaped(Owner(o))) \/ \E m : SendTo(o, m, Escaped(Owner(o)))
    BY <1>1 DEF SendEscalated, PageRaises
  <1>3. Owner(o) \in {"deep", "dark"} => Escaped(Owner(o)) = "raised"
    BY DEF Escaped
  <1>4. CASE Owner(o) \in {"deep", "dark"}
    <2>1. task'[o] = [pc |-> "raised", todo |-> {}]
      BY <1>1, <1>2, <1>3, <1>4, AfterGoto, Points
    <2> QED BY <1>2, <2>1
  <1> QED BY <1>2, <1>4

\* What the task that raised does next.
LEMMA Unwinds ==
  ASSUME TypeInv, NEW o \in Offset, TaskStep(o) \/ TaskFault(o), task[o].pc \in {"raised", "settle_failed"},
         row.status # "completed", Outstanding <= row.active_tasks, Outstanding' = Outstanding - 1 \/ FailPage(o)
  PROVE  row'.status = "failed" \/ (row' = row /\ Gap')
  <1>1. FailPage(o) \/ (SettlePage(o) /\ At(o, "settle_failed"))
    BY DEF TaskStep, TaskFault, PassGate, StartPage, RejectPage, Escalate, SendEscalated, HandOffAudio, SendAudio,
           LogHandOff, ExtractChildren, CheckLink, MarkLink, SendChild, PublishPage, PublishParsed, LogPage, FailPage,
           SettlePage, Transcribe, BrowserUnavailable, SignupFails, PageRaises, BudgetExceeded, At, Processing
  <1>2. row \in Row /\ row.active_tasks \in Nat /\ Outstanding \in Nat
    BY OutstandingNat DEF TypeInv, RowOK, Row
  <1>3. CASE FailPage(o)
    BY <1>2, <1>3, Updates DEF FailPage, fail_job
  <1>4. CASE SettlePage(o) /\ At(o, "settle_failed") /\ ~FailPage(o)
    <2> DEFINE a == "completed" \in crawl_log
    <2>1. row' = complete_job_task(row, TRUE, a) /\ a \in BOOLEAN
      <3> DEFINE f == At(o, "settle_failed")
      <3>1. Complete(f)
        BY <1>4 DEF SettlePage, complete_job_task_from_message, owns_message, Owner
      <3>2. f = TRUE
        BY <1>4 DEF At
      <3> HIDE DEF f
      <3>3. Complete(TRUE)
        BY <3>1, <3>2
      <3> QED BY <3>3 DEF Complete
    <2> HIDE DEF a
    <2>2. row' = row \/ row'.status = "failed"
      BY ZenonT(40), <1>2, <2>1, Completes
    <2> QED BY <1>2, <1>4, <2>2 DEF Gap
  <1> QED BY <1>1, <1>3, <1>4

LEMMA SettlesOne ==
  ASSUME TypeInv, NEW o \in Offset, SettlePage(o), TaskStep(o) PROVE Outstanding' = Outstanding - 1
  <1>1. /\ Goto(o, "done") /\ task[o].pc \in {"settle", "settle_failed"} /\ UNCHANGED crawl_requests /\ TaskInv
    BY DEF SettlePage, TypeInv
  <1>2. Changes(o, Held("done") - Held(task[o].pc)) /\ Held("done") = 0 /\ Held(task[o].pc) = 1
    BY <1>1, GotoChanges, Points DEF Held, Queuing, Reserving
  <1>3. Changes(o, -1)
    BY <1>2
  <1>4. Size(task') = Size(task) - 1 /\ Root' = Root /\ Size(task) \in Nat /\ Root \in {0, 1}
    BY <1>1, <1>3, ChangesSize, TaskRunning, OutstandingNat DEF Root, taskFrame, apiVars
  <1> QED BY <1>4, OutstandingIs

LEMMA TaskCrash ==
  ASSUME Sound, LedgerInv, CrashInv, NEW o \in Offset, TaskStep(o) \/ TaskFault(o) PROVE CrashInv'
  <1>1. /\ TypeInv /\ TypeInv' /\ RowWrite /\ Move /\ TaskInv /\ Apart(o) /\ task[o].pc \in Live
        /\ Outstanding <= row.active_tasks /\ row.status # "completed" /\ o \in Offset'
    BY TaskTyped, TaskMove, TaskApart, TaskRunning, LiveUnfinished DEF LedgerInv, Covered
  <1>2. CASE raised' # raised
    <2>1. CASE Owner(o) \in {"deep", "dark"}
      BY <1>1, <1>2, <2>1, RaisesIs DEF CrashInv, Doomed, Unwinding
    <2>2. CASE Owner(o) \notin {"deep", "dark"} /\ raised \cap {"deep", "dark"} = {}
      BY <1>1, <1>2, <2>2, RaisesIs DEF CrashInv
    <2>3. CASE Owner(o) \notin {"deep", "dark"} /\ Doomed
      <3>1. row' = row
        BY <1>1, <1>2, RaisesIs
      <3>2. CASE row.status = "failed"
        BY <3>1, <3>2 DEF CrashInv, Doomed
      <3>3. CASE Gap
        BY <1>1, <3>1, <3>3, StaysOpen DEF CrashInv, Doomed
      <3>4. ASSUME NEW k \in Unwinding PROVE Doomed'
        <4>1. k # o
          BY <1>2, <3>4 DEF Unwinding, TaskStep, TaskFault, PassGate, StartPage, RejectPage, Escalate, SendEscalated,
             HandOffAudio, SendAudio, LogHandOff, ExtractChildren, CheckLink, MarkLink, SendChild, PublishPage,
             PublishParsed, LogPage, FailPage, SettlePage, Transcribe, BrowserUnavailable, SignupFails, PageRaises,
             BudgetExceeded, At
        <4> QED BY <1>1, <3>1, <3>4, <4>1 DEF Unwinding, Apart, Doomed
      <3> QED BY <2>3, <3>2, <3>3, <3>4 DEF Doomed, CrashInv
    <2> QED BY <2>1, <2>2, <2>3 DEF CrashInv
  <1>3. CASE raised' = raised /\ Doomed
    <2>1. CASE row.status = "failed"
      BY <1>1, <2>1, FailedStays DEF CrashInv, Doomed
    <2>2. CASE Gap
      BY <1>1, <2>2, StaysOpen DEF CrashInv, Doomed
    <2>3. ASSUME NEW k \in Unwinding, k # o PROVE Doomed'
      <3>1. k \in Offset /\ task[k].pc \in Live /\ k \in Unwinding'
        BY <1>1, <2>3, Points DEF Unwinding, Apart
      <3>2. Outstanding > 1
        BY <1>1, <2>3, <3>1, TwoTasks
      <3> QED BY <1>1, <3>1, <3>2, StaysOpen DEF Doomed
    <2>4. CASE o \in Unwinding
      <3>1. FailPage(o) \/ SettlePage(o)
        BY <2>4 DEF Unwinding, TaskStep, TaskFault, PassGate, StartPage, RejectPage, Escalate, SendEscalated, HandOffAudio, SendAudio,
           LogHandOff, ExtractChildren, CheckLink, MarkLink, SendChild, PublishPage, PublishParsed, LogPage,
           Transcribe, BrowserUnavailable, SignupFails, PageRaises, BudgetExceeded, At, Processing
      <3>2. FailPage(o) \/ Outstanding' = Outstanding - 1
        <4>1. SettlePage(o) => TaskStep(o)
          BY DEF TaskStep, TaskFault, taskFrame
        <4> QED BY <1>1, <3>1, <4>1, SettlesOne
      <3>3. row'.status = "failed" \/ (row' = row /\ Gap')
        BY <1>1, <2>4, <3>2, Unwinds DEF Unwinding
      <3> QED BY <1>1, <3>3 DEF CrashInv, Doomed
    <2> QED BY <1>3, <2>1, <2>2, <2>3, <2>4 DEF Doomed, CrashInv
  <1> QED BY <1>2, <1>3 DEF CrashInv

\* A worker that is killed or stopped takes the slots of its tasks along, or leaves them as they were.
LEMMA HaltCrash ==
  ASSUME Sound, LedgerInv, CrashInv, NEW g \in Group, CrashWorker(g) \/ StopWorker(g) PROVE CrashInv'
  <1>1. /\ TypeInv /\ Caught /\ TypeInv' /\ TaskInv /\ raised' = raised /\ row' = row
        /\ Outstanding <= row.active_tasks /\ row.active_tasks \in Nat
    BY HaltTyped DEF LedgerInv, Covered, CrashWorker, StopWorker, TypeInv, RowOK, Row
  <1>2. /\ Sized(task) /\ task' \in Seq(Task) /\ Offset' = Offset /\ Root' = Root
        /\ \A k \in Offset : /\ task'[k].pc \in Live => task[k].pc \in Live
                             /\ task'[k].pc \in Reserving => task[k].pc \in Reserving
                             /\ task'[k].todo \subseteq task[k].todo
    BY <1>1, HaltDrops
  <1>3. /\ Sized(task') /\ Size(task') <= Size(task)
        /\ (\E k \in Offset : task[k].pc \in Live /\ task'[k].pc \notin Live) => Size(task') < Size(task)
    BY <1>2, DropTasks DEF Offset
  <1>4. Size(task') \in Nat /\ Size(task) \in Nat /\ Root \in {0, 1}
    BY <1>2, <1>3, SizedFinite DEF Root
  <1>5. Outstanding' <= Outstanding /\ (Size(task') < Size(task) => Outstanding' < Outstanding)
        /\ Outstanding \in Nat /\ Outstanding' \in Nat
    BY <1>2, <1>3, <1>4, OutstandingIs
  <1>6. ASSUME NEW k \in Unwinding PROVE k \in Unwinding' \/ Gap'
    <2>1. k \in Offset /\ task[k].pc \in Live
      BY Points DEF Unwinding
    <2>2. task'[k] = task[k] \/ task'[k].pc \in {"lost", "settle_failed"} \/ ~(task'[k].pc \in Live)
      <3>1. CASE CrashWorker(g)
        <4>1. k \in Owned(g) => ~(k > committed[g])
          <5>1. k \in Nat /\ committed[g] \in Nat /\ committed[g] = position[g]
            BY <1>1, <2>1, SeqFacts DEF TypeInv, TaskInv, Sized, Offset, Positions, Caught
          <5> QED BY <5>1 DEF Owned
        <4> QED BY <1>1, <2>1, <3>1, <4>1, CrashTasks
      <3>2. CASE StopWorker(g)
        BY <1>1, <2>1, <3>2, <1>6, StopTasks DEF Unwinding
      <3> QED BY <3>1, <3>2
    <2>3. CASE task'[k].pc \in {"raised", "settle_failed"}
      BY <1>2, <2>1, <2>3 DEF Unwinding
    <2>4. CASE task'[k].pc \notin {"raised", "settle_failed"}
      <3>1. task'[k].pc \notin Live
        BY <1>6, <2>2, <2>4, Points DEF Unwinding
      <3> QED BY <1>1, <1>3, <1>5, <2>1, <3>1 DEF Gap
    <2> QED BY <2>3, <2>4
  <1>7. CASE Doomed
    <2>1. Gap => Gap'
      BY <1>1, <1>5 DEF Gap
    <2> QED BY <1>1, <1>6, <1>7, <2>1 DEF Doomed, CrashInv
  <1> QED BY <1>1, <1>7 DEF CrashInv

\* Routes, the watchdog and the delivery leave tasks that unwind alone.
LEMMA OtherCrash ==
  ASSUME Sound, LedgerInv, CrashInv, Move, TypeInv', RowWrite, raised' = raised,
         row' = row \/ PauseRow \/ StatusRow("running") \/ StatusRow("failed"),
         \A k \in Unwinding : k \in Unwinding'
  PROVE  CrashInv'
  <1>1. TypeInv
    BY DEF LedgerInv
  <1>2. row.status # "completed" => row'.status # "completed"
    BY <1>1, StatusRowIs, PauseRowIs
  <1>3. row.status = "failed" => row'.status = "failed"
    BY <1>1, FailedStays
  <1>4. row.status # "completed" /\ Gap => Gap'
    BY StaysOpen
  <1> QED BY <1>2, <1>3, <1>4 DEF CrashInv, Doomed

LEMMA CrashStep ==
  ASSUME Sound, LedgerInv, CrashInv, [Next]_vars PROVE CrashInv'
  <1>1. TypeInv /\ TaskInv /\ RowWrite /\ TypeInv' /\ Move
    BY TypeInvStep, NextMove DEF LedgerInv, TypeInv
  <1>2. CASE ApiStep
    <2>1. /\ raised' = raised /\ (task' = task \/ (Publish(SeedRequest) /\ task' = Append(task, Queued)))
          /\ row' = row \/ PauseRow \/ StatusRow("running") \/ StatusRow("failed")
      BY <1>2 DEF ApiStep, PublishSeed, MarkSubmitted, PublishSeedFails, PauseRoute, ResumeRoute, RetryRoute, CrashApi,
                  TimePasses, WatchdogScan, FailListed, Untouched, fail_job, LogError, PauseRow, StatusRow, SameLog,
                  logVars, Fault
    <2>2. Offset \subseteq Offset' /\ \A k \in Offset : task'[k] = task[k]
      BY <1>1, <2>1, SeedPublished DEF Offset
    <2>3. \A k \in Unwinding : k \in Unwinding'
      BY <2>2 DEF Unwinding
    <2> QED BY <1>1, <2>1, <2>3, OtherCrash
  <1>3. ASSUME NEW g \in Group, DeliverToOwner(g) PROVE CrashInv'
    <2> DEFINE o == position[g] + 1
    <2>1. o \in Offset /\ task[o] = Queued /\ Idle /\ Changes(o, 0) /\ raised' = raised
      BY <1>1, <1>3, NextOffset, OwnerDeliveryEffect DEF DeliverToOwner, Advance
    <2>2. Apart(o)
      BY <1>1, <2>1, ChangesSize
    <2> HIDE DEF o
    <2>3. \A k \in Unwinding : k \in Unwinding'
      BY <2>1, <2>2, QueuedFits DEF Unwinding, Apart
    <2> QED BY <1>1, <2>1, <2>3, OtherCrash DEF Idle
  <1>4. ASSUME NEW g \in Group, DeliverForeign(g) \/ AutoCommit(g) PROVE CrashInv'
    <2>1. UNCHANGED <<row, task, raised>>
      BY <1>4, ForeignDeliverySame DEF AutoCommit, DeliverForeign, Advance
    <2>2. \A k \in Unwinding : k \in Unwinding'
      BY <2>1 DEF Unwinding, Offset
    <2> QED BY <1>1, <2>1, <2>2, OtherCrash
  <1>5. CASE Unchanged
    <2>1. UNCHANGED <<row, task, raised>>
      BY <1>5 DEF Unchanged, vars
    <2>2. \A k \in Unwinding : k \in Unwinding'
      BY <2>1 DEF Unwinding, Offset
    <2> QED BY <1>1, <2>1, <2>2, OtherCrash
  <1>6. CASE Next
    BY <1>2, <1>3, <1>4, <1>6, NextCases, TaskCrash, HaltCrash
  <1> QED BY <1>5, <1>6 DEF Unchanged

\* deep-worker/main.py:3478-3577, dark-worker/main.py:756-788: when the processing of a page raised in
\* one of these workers, its job never turns green afterwards, also when the worker is stopped or killed
\* before it could fail the job, and when the job is paused while the task unwinds: the slot that is
\* not given back then keeps complete_job_task from completing the job.
THEOREM CrashFailsJobTheorem == ASSUME Sound PROVE Spec => []CrashFailsJob
  <1>1. Init => CrashInv
    BY DEF Init, CrashInv
  <1>2. LedgerInv /\ CrashInv /\ [Next]_vars => CrashInv'
    BY CrashStep
  <1>3. CrashInv => CrashFailsJob
    BY DEF CrashInv, Doomed, CrashFailsJob
  <1> QED BY <1>1, <1>2, <1>3, LedgerInvariant, PTL DEF Spec

-----------------------------------------------------------------------------
(* A green job has content, whatever the environment does                      *)

\* Past its publication: about to be logged, or queuing links after it.
Downstream(o) == At(o, "log") \/ (Owner(o) = "deep" /\ task[o].pc \in Queuing)

GreenInv ==
  /\ \A o \in Offset : Downstream(o) => o \in published
  /\ crawl_log # {} => published # {}
  /\ Green

LEMMA TaskDownstream ==
  ASSUME TypeInv, GreenInv, NEW o \in Offset, TaskStep(o) \/ TaskFault(o), Downstream(o)' PROVE o \in published'
  <1>1. TaskInv /\ Owner(o)' = Owner(o) /\ published \subseteq published'
    <2>1. published \subseteq published'
      BY DEF TaskStep, TaskFault, PassGate, StartPage, RejectPage, Escalate, SendEscalated, HandOffAudio, SendAudio,
           LogHandOff, ExtractChildren, CheckLink, MarkLink, SendChild, PublishPage, PublishParsed, LogPage, FailPage,
           SettlePage, Transcribe, BrowserUnavailable, SignupFails, PageRaises, BudgetExceeded
    <2> QED BY <2>1, TaskApart DEF Apart, Owner, MsgAt
  <1>2. CASE o \in published
    BY <1>1, <1>2
  <1>3. CASE CheckLink(o) \/ MarkLink(o) \/ SendChild(o)
    <2>1. /\ task[o].pc \in Queuing
          /\ \/ task' = ToNextLink(o) \/ task' = Append(ToNextLink(o), Queued)
             \/ \E pc \in Queuing : task' = [task EXCEPT ![o].pc = pc]
      BY <1>3 DEF CheckLink, SendChild, MarkLink, At, Queuing
    <2>2. task'[o].pc \in Queuing \cup {AfterChildren(Owner(o))}
      BY <1>1, <2>1, AfterNextLink, AfterCheck DEF Queuing
    <2>3. Owner(o) = "deep"
      BY <1>1, <2>2 DEF Downstream, At, AfterChildren, Queuing
    <2> QED BY <1>1, <2>1, <2>3 DEF GreenInv, Downstream
  <1>4. CASE ExtractChildren(o)
    BY <1>1, <1>4, AfterReserve DEF ExtractChildren, Downstream, At, AfterChildren, Queuing
  <1>5. CASE PublishParsed(o) \/ PublishPage(o)
    BY <1>5 DEF PublishParsed, PublishPage
  <1>6. CASE o \notin published'
             /\ ~(CheckLink(o) \/ MarkLink(o) \/ SendChild(o) \/ ExtractChildren(o) \/ PublishParsed(o) \/ PublishPage(o))
    <2>1. \E pc \in {"settle", "start", "fetch", "escalating", "handoff", "handed_off", "raised", "done", "settle_failed"} :
             Goto(o, pc) \/ \E m : SendTo(o, m, pc)
      BY <1>6 DEF TaskStep, TaskFault, PassGate, StartPage, RejectPage, Escalate, SendEscalated, HandOffAudio, SendAudio,
           LogHandOff, LogPage, SettlePage, Transcribe, BrowserUnavailable, SignupFails, PageRaises,
           BudgetExceeded, FailPage, Escaped
    <2>2. PICK pc \in {"settle", "start", "fetch", "escalating", "handoff", "handed_off", "raised", "done", "settle_failed"} :
             Goto(o, pc) \/ \E m : SendTo(o, m, pc)
      BY <2>1
    <2>3. task'[o] = [pc |-> pc, todo |-> {}]
      BY <1>1, <2>2, AfterGoto, Points
    <2> QED BY <2>3 DEF Downstream, At, Queuing
  <1> QED BY <1>2, <1>3, <1>4, <1>5, <1>6

\* Only a page that was published is logged 'completed'.
LEMMA TaskContent ==
  ASSUME TypeInv, GreenInv, NEW o \in Offset, TaskStep(o) \/ TaskFault(o)
  PROVE  published \subseteq published' /\ (crawl_log' = crawl_log \/ (crawl_log' = {"completed"} /\ o \in published))
  <1>1. published \subseteq published'
    BY DEF TaskStep, TaskFault, PassGate, StartPage, RejectPage, Escalate, SendEscalated, HandOffAudio, SendAudio,
           LogHandOff, ExtractChildren, CheckLink, MarkLink, SendChild, PublishPage, PublishParsed, LogPage, FailPage,
           SettlePage, Transcribe, BrowserUnavailable, SignupFails, PageRaises, BudgetExceeded
  <1>2. CASE LogPage(o)
    BY <1>1, <1>2, LogOtherSame DEF LogPage, LogCompleted, SameLog, GreenInv, Downstream
  <1>3. CASE ~LogPage(o)
    <2>1. \/ UNCHANGED logVars \/ LogOther \/ (\E e : LogError(e)) \/ (\E f : Complete(f))
      BY <1>3 DEF TaskStep, TaskFault, PassGate, StartPage, RejectPage, Escalate, SendEscalated, HandOffAudio, SendAudio,
           LogHandOff, ExtractChildren, CheckLink, MarkLink, SendChild, PublishPage, PublishParsed, FailPage, fail_job,
           SettlePage, complete_job_task_from_message, Transcribe, BrowserUnavailable, SignupFails, PageRaises,
           BudgetExceeded
    <2> QED BY <1>1, <2>1 DEF logVars, LogOther, LogError, Complete
  <1> QED BY <1>2, <1>3

\* A job is completed by complete_job_task alone, which reads crawl_log.
LEMMA GreenWrite ==
  ASSUME TypeInv, Green, RowWrite, crawl_log \subseteq crawl_log' PROVE Green'
  <1>1. row \in Row
    BY DEF TypeInv, RowOK
  <1>2. ASSUME NEW n \in Nat, row' = register_job_tasks(row, n) PROVE row'.status = row.status
    BY <1>1, <1>2, Registers
  <1>3. ASSUME NEW f \in BOOLEAN, row' = complete_job_task(row, f, "completed" \in crawl_log)
        PROVE  row'.status = "completed" => row.status = "completed" \/ "completed" \in crawl_log
    <2> DEFINE a == "completed" \in crawl_log
    <2>1. a \in BOOLEAN /\ row' = complete_job_task(row, f, a)
      BY <1>3
    <2> HIDE DEF a
    <2>2. row'.status = "completed" => row.status = "completed" \/ a
      BY <1>1, <2>1, Completes
    <2> QED BY <2>2 DEF a
  <1>4. ASSUME NEW s \in {"running", "failed"}, row' = update_job_status(row, s)
        PROVE  row'.status = "completed" => row.status = "completed"
    BY <1>1, <1>4, Updates
  <1>5. ASSUME row' = pause_job(row) \/ row' = resume_job(row)
        PROVE  row'.status = "completed" => row.status = "completed"
    BY <1>1, <1>5, Pauses DEF ActiveStatus
  <1>6. row'.status = "completed" => row.status = "completed" \/ "completed" \in crawl_log
    BY <1>2, <1>3, <1>4, <1>5 DEF RowWrite
  <1> QED BY <1>6 DEF Green

\* Any other step: no task gets past its publication.
LEMMA OtherContent ==
  ASSUME TypeInv, GreenInv, RowWrite, UNCHANGED <<published, crawl_log>>,
         \A k \in Offset' : Downstream(k)' => k \in Offset /\ Downstream(k)
  PROVE  GreenInv'
  <1>1. Green'
    BY GreenWrite DEF GreenInv
  <1> QED BY <1>1 DEF GreenInv

LEMMA GreenStep ==
  ASSUME TypeInv, GreenInv, [Next]_vars PROVE GreenInv'
  <1>1. TaskInv /\ RowWrite /\ TypeInv' /\ LogsOK
    BY TypeInvStep DEF TypeInv
  <1>2. ASSUME NEW o \in Offset, TaskStep(o) \/ TaskFault(o) PROVE GreenInv'
    <2>1. /\ published \subseteq published' /\ (crawl_log' = crawl_log \/ (crawl_log' = {"completed"} /\ o \in published))
          /\ Apart(o)
      BY <1>2, TaskContent, TaskApart
    <2>2. ASSUME NEW k \in Offset', Downstream(k)' PROVE k \in published'
      <3>1. CASE k = o
        BY <1>2, <2>2, <3>1, TaskDownstream
      <3>2. CASE k \in Offset /\ k # o
        <4>1. task'[k] = task[k] /\ Owner(k)' = Owner(k)
          BY <2>1, <3>2 DEF Apart, Owner, MsgAt
        <4> QED BY <2>1, <2>2, <3>2, <4>1 DEF GreenInv, Downstream, At
      <3>3. CASE k \notin Offset
        BY <2>1, <2>2, <3>3, QueuedFits DEF Apart, Downstream, At, Queuing
      <3> QED BY <3>1, <3>2, <3>3
    <2>3. crawl_log \subseteq crawl_log' /\ (crawl_log' # {} => published' # {})
      BY <1>1, <2>1 DEF GreenInv, LogsOK
    <2>4. Green'
      BY <1>1, <2>3, GreenWrite DEF GreenInv
    <2> QED BY <2>2, <2>3, <2>4 DEF GreenInv
  <1>3. CASE ApiStep
    <2>1. UNCHANGED <<published, crawl_log>>
      BY <1>3 DEF ApiStep, PublishSeed, MarkSubmitted, PublishSeedFails, PauseRoute, ResumeRoute, RetryRoute, CrashApi,
                  TimePasses, WatchdogScan, FailListed, Untouched, fail_job, LogError, logVars
    <2>2. CASE UNCHANGED <<task, crawl_requests>>
      <3>1. \A k \in Offset' : Downstream(k)' => k \in Offset /\ Downstream(k)
        BY <2>2 DEF Downstream, At, Owner, MsgAt, Offset
      <3> QED BY <1>1, <2>1, <3>1, OtherContent
    <2>3. CASE Publish(SeedRequest) /\ task' = Append(task, Queued)
      <3>1. /\ task \in Seq(Task) /\ crawl_requests \in Seq(CrawlRequest) /\ Len(task) = Len(crawl_requests)
            /\ Offset = 1..Len(task) /\ Len(task) \in Nat /\ crawl_requests' = Append(crawl_requests, SeedRequest)
        BY <1>1, <2>3, SeqFacts DEF TaskInv, Sized, Offset, Publish
      <3>2. /\ Offset' = 1..(Len(task) + 1) /\ task'[Len(task) + 1] = Queued
            /\ \A k \in Offset : task'[k] = task[k]
        BY <2>3, <3>1, SeqFacts, QueuedFits DEF Offset
      <3>3. \A k \in Offset : crawl_requests'[k] = crawl_requests[k]
        BY <3>1, SeqFacts, SeedTyped
      <3>4. \A k \in Offset' : Downstream(k)' => k \in Offset /\ Downstream(k)
        <4>1. \A k \in Offset' : k \in Offset \/ task'[k] = Queued
          BY <3>1, <3>2
        <4> QED BY <3>2, <3>3, <4>1, QueuedFits DEF Downstream, At, Owner, MsgAt, Queuing
      <3> QED BY <1>1, <2>1, <3>4, OtherContent
    <2>4. UNCHANGED <<task, crawl_requests>> \/ (Publish(SeedRequest) /\ task' = Append(task, Queued))
      BY <1>3 DEF ApiStep, PublishSeed, MarkSubmitted, PublishSeedFails, PauseRoute, ResumeRoute, RetryRoute, CrashApi,
                  TimePasses, WatchdogScan, FailListed, Untouched, topicVars
    <2> QED BY <2>2, <2>3, <2>4
  <1>4. ASSUME NEW g \in Group, DeliverToOwner(g) PROVE GreenInv'
    <2> DEFINE o == position[g] + 1
    <2>1. /\ o \in Offset /\ Changes(o, 0) /\ UNCHANGED <<published, crawl_log, crawl_requests>>
      BY <1>1, <1>4, NextOffset, OwnerDeliveryEffect DEF DeliverToOwner, Advance, logVars
    <2>2. PICK pc \in {"fetch", "gate"} : Goto(o, pc)
      BY <1>4 DEF DeliverToOwner
    <2> HIDE DEF o
    <2>3. Apart(o)
      BY <1>1, <2>1, ChangesSize
    <2>4. task'[o] = [pc |-> pc, todo |-> {}]
      BY <1>1, <2>1, <2>2, AfterGoto, Points
    <2>5. \A k \in Offset' : Downstream(k)' => k \in Offset /\ Downstream(k)
      BY <2>1, <2>4, <2>3, QueuedFits DEF Downstream, At, Owner, MsgAt, Apart, Queuing
    <2> QED BY <1>1, <2>1, <2>5, OtherContent
  <1>5. ASSUME NEW g \in Group, DeliverForeign(g) \/ AutoCommit(g) PROVE GreenInv'
    <2>1. UNCHANGED <<task, crawl_requests, published, crawl_log>>
      BY <1>5, ForeignDeliverySame DEF AutoCommit, DeliverForeign, Advance, logVars
    <2>2. \A k \in Offset' : Downstream(k)' => k \in Offset /\ Downstream(k)
      BY <2>1 DEF Downstream, At, Owner, MsgAt, Offset
    <2> QED BY <1>1, <2>1, <2>2, OtherContent
  <1>6. ASSUME NEW g \in Group, CrashWorker(g) \/ StopWorker(g) PROVE GreenInv'
    <2>1. UNCHANGED <<crawl_requests, published, crawl_log>>
      BY <1>6 DEF CrashWorker, StopWorker, logVars
    <2>2. Offset' = Offset
      BY <1>1, <1>6, CrashTasks, StopTasks, ManyTasks
    <2>3. ASSUME NEW k \in Offset
          PROVE  task'[k] = task[k] \/ task'[k].pc \in {"queued", "lost", "settle", "settle_failed"}
      <3>1. CASE CrashWorker(g)
        <4>1. \/ task'[k] = task[k]
              \/ task'[k] = Queued
              \/ task'[k] = [pc |-> "lost", todo |-> {}]
          BY <3>1, CrashTasks
        <4> QED BY <4>1, QueuedFits
      <3>2. CASE StopWorker(g)
        BY <3>2, StopTasks
      <3> QED BY <1>6, <3>1, <3>2
    <2>4. \A k \in Offset' : Downstream(k)' => k \in Offset /\ Downstream(k)
      BY <2>1, <2>2, <2>3 DEF Downstream, At, Owner, MsgAt, Queuing
    <2> QED BY <1>1, <2>1, <2>4, OtherContent
  <1>7. CASE Unchanged
    <2>1. UNCHANGED <<task, crawl_requests, published, crawl_log>>
      BY <1>7 DEF Unchanged, vars
    <2>2. \A k \in Offset' : Downstream(k)' => k \in Offset /\ Downstream(k)
      BY <2>1 DEF Downstream, At, Owner, MsgAt, Offset
    <2> QED BY <1>1, <2>1, <2>2, OtherContent
  <1>8. CASE Next
    BY <1>2, <1>3, <1>4, <1>5, <1>6, <1>8, NextCases
  <1> QED BY <1>7, <1>8 DEF Unchanged

\* complete_job_task's EXISTS subquery (client.py:883-888) and the order of publishing and logging in the
\* workers: a job turns green only if some page of it reached crawl.raw or crawl.parsed, also when messages
\* are redelivered, lost or settled late.
THEOREM GreenHasContentTheorem == Spec => []GreenHasContent
  <1>1. Init => GreenInv
    BY DEF Init, GreenInv, Green, Offset, create_job, register_job_tasks
  <1>2. TypeInv /\ GreenInv /\ [Next]_vars => GreenInv'
    BY GreenStep
  <1>3. GreenInv => GreenHasContent
    BY DEF GreenInv, Green, GreenHasContent
  <1> QED BY <1>1, <1>2, <1>3, TypeInvariant, PTL DEF Spec
-----------------------------------------------------------------------------
(* What the URL of a child is (LinkExtraction), for every markup and every    *)
(* table: one for all spellings of a resource and for nothing else, in the    *)
(* scope of the seed, and a fixed point of normalize_url where the page       *)
(* parses.                                                                    *)

\* What remains of a path: its segments in their canonical spelling.
Canonical(u) == [k \in DOMAIN u.path |-> canonical[u.path[k]]]
EffectivePort(u) == IF u.port = default_port(u.scheme) THEN "none" ELSE u.port

\* Two spellings of one resource, as the crawler sees it.
SameResource(u, v) ==
  /\ u.scheme = v.scheme /\ u.host = v.host /\ EffectivePort(u) = EffectivePort(v)
  /\ Canonical(u) = Canonical(v) /\ u.params \ JUNK_PARAMS = v.params \ JUNK_PARAMS

LEMMA CanonicalPath ==
  ASSUME NEW u \in Url
  PROVE  Canonical(u) \in Seq(Segment) /\ Len(Canonical(u)) = Len(u.path) /\ DOMAIN Canonical(u) = DOMAIN u.path
<1>1. u.path \in Seq(Segment)
  BY DEF Url
<1>2. \A k \in DOMAIN u.path : canonical[u.path[k]] \in Segment
  BY <1>1, CanonicalAssumption
<1>3. DOMAIN u.path = 1..Len(u.path) /\ Len(u.path) \in Nat
  BY <1>1
<1>4. Canonical(u) \in [1..Len(u.path) -> Segment]
  BY <1>2, <1>3 DEF Canonical
<1>5. QED
  BY <1>3, <1>4

\* The fields of a normalized URL.
LEMMA Normalized ==
  ASSUME NEW u \in Url, u.host # NoHost
  PROVE  normalize_url(u) = [scheme |-> u.scheme, host |-> u.host, port |-> EffectivePort(u), path |-> Canonical(u),
                             slash |-> FALSE, params |-> u.params \ JUNK_PARAMS, fragment |-> FALSE]
BY DEF Url, normalize_url, EffectivePort, Canonical

LEMMA NormalizedTyped ==
  ASSUME NEW u \in Url
  PROVE  normalize_url(u) \in Url
<1>1. CASE u.host = NoHost
  BY <1>1 DEF normalize_url
<1>2. CASE u.host # NoHost
  <2>1. EffectivePort(u) \in Port
    BY DEF EffectivePort, Url, Port
  <2>2. Canonical(u) \in Seq(Segment)
    BY CanonicalPath
  <2>3. /\ u.scheme \in FetchScheme \cup {"other"} /\ u.host \in Host \cup {NoHost}
        /\ u.params \ JUNK_PARAMS \in SUBSET Param
    BY DEF Url
  <2>4. [scheme |-> u.scheme, host |-> u.host, port |-> EffectivePort(u), path |-> Canonical(u),
         slash |-> FALSE, params |-> u.params \ JUNK_PARAMS, fragment |-> FALSE] \in Url
    BY <2>1, <2>2, <2>3 DEF Url
  <2>5. QED
    BY <1>2, <2>4, Normalized
<1>3. QED
  BY <1>1, <1>2

-----------------------------------------------------------------------------

\* A link of a page that parses is queued under the key it is looked up under: normalizing it
\* once more, as extract_and_queue_children does before is_visited, changes nothing.
THEOREM KeyIsFinal ==
  ASSUME NEW u \in Url
  PROVE  normalize_url(normalize_url(u)) = normalize_url(u)
<1>1. CASE u.host = NoHost
  BY <1>1 DEF normalize_url
<1>2. CASE u.host # NoHost
  <2> DEFINE n == normalize_url(u)
  <2>1. n \in Url /\ n.host # NoHost /\ n.scheme = u.scheme /\ n.port = EffectivePort(u) /\ n.path = Canonical(u)
        /\ n.params = u.params \ JUNK_PARAMS
    BY <1>2, Normalized, NormalizedTyped
  <2>2. EffectivePort(n) = EffectivePort(u)
    BY <2>1 DEF EffectivePort
  <2>3. Canonical(n) = Canonical(u)
    <3>1. \A k \in DOMAIN u.path : u.path[k] \in Segment
      BY DEF Url
    <3>2. \A k \in DOMAIN u.path : canonical[canonical[u.path[k]]] = canonical[u.path[k]]
      BY <3>1, CanonicalAssumption
    <3>3. DOMAIN n.path = DOMAIN u.path /\ \A k \in DOMAIN u.path : n.path[k] = canonical[u.path[k]]
      BY <2>1 DEF Canonical
    <3>4. QED
      BY <3>2, <3>3 DEF Canonical
  <2>4. n.params \ JUNK_PARAMS = u.params \ JUNK_PARAMS
    BY <2>1
  <2>5. normalize_url(n) = normalize_url(u)
    BY ZenonT(40), <1>2, <2>1, <2>2, <2>3, <2>4, Normalized
  <2>6. QED
    BY <2>5
<1>3. QED
  BY <1>1, <1>2

\* Deduplication by the key takes spellings of one resource for one, and loses no other:
\* equal keys are exactly the same resource.
THEOREM KeyIdentifies ==
  ASSUME NEW u \in Url, NEW v \in Url, u.host # NoHost, v.host # NoHost
  PROVE  normalize_url(u) = normalize_url(v) <=> SameResource(u, v)
<1>1. SameResource(u, v) => normalize_url(u) = normalize_url(v)
  BY Normalized DEF SameResource
<1>2. normalize_url(u) = normalize_url(v) => SameResource(u, v)
  <2> DEFINE n(w) == normalize_url(w)
  <2>1. \A w \in {u, v} : n(w).scheme = w.scheme /\ n(w).host = w.host /\ n(w).port = EffectivePort(w)
                          /\ n(w).path = Canonical(w) /\ n(w).params = w.params \ JUNK_PARAMS
    BY Normalized
  <2>2. QED
    BY <2>1 DEF SameResource
<1>3. QED
  BY <1>1, <1>2

-----------------------------------------------------------------------------

\* The markup of a page: typed hrefs.
IsMarkup(markup) ==
  markup.base \subseteq Url /\ \A h \in markup.hrefs : h.url \in Url

LEMMA Joined ==
  ASSUME NEW base \in Url, NEW href, href.url \in Url
  PROVE  urljoin(base, href) \in Url
BY DEF urljoin, Url

\* Where a link comes from: a target of the page, taken as it is when the page does not parse.
LEMMA LinkFrom ==
  ASSUME NEW markup, IsMarkup(markup), NEW page_url \in Url, NEW c \in extract_links(markup, page_url)
  PROVE  \E u \in Url : u.host # NoHost /\ c = IF markup.tree THEN normalize_url(u) ELSE u
<1>1. CASE markup.tree
  <2> DEFINE base == resolve_base(markup, page_url)
  <2>1. base \in Url
    BY DEF resolve_base, IsMarkup
  <2>2. PICK h \in markup.hrefs : c = normalize_url(urljoin(base, h)) /\ urljoin(base, h).host # NoHost
    BY <1>1 DEF extract_links, links_of_tree, Targets
  <2>3. urljoin(base, h) \in Url
    BY <2>1, Joined DEF IsMarkup
  <2>4. QED
    BY <1>1, <2>2, <2>3
<1>2. CASE ~markup.tree
  <2> DEFINE found == Targets(markup.hrefs, page_url)
  <2>1. c \in found
    <3> HIDE DEF found
    <3>1. PICK u \in found : c = CHOOSE v \in found : normalize_url(v) = normalize_url(u)
      BY <1>2 DEF extract_links, extract_hrefs_regex, found
    <3>2. QED
      BY <3>1
  <2>2. PICK h \in markup.hrefs : c = urljoin(page_url, h) /\ c.host # NoHost
    BY <2>1 DEF Targets
  <2>3. c \in Url
    BY <2>2, Joined DEF IsMarkup
  <2>4. QED
    BY <1>2, <2>2, <2>3
<1>3. QED
  BY <1>1, <1>2

\* No page has two links with the same key.
LEMMA OneSpelling ==
  ASSUME NEW markup, IsMarkup(markup), NEW page_url \in Url,
         NEW c \in extract_links(markup, page_url), NEW d \in extract_links(markup, page_url),
         normalize_url(c) = normalize_url(d)
  PROVE  c = d
<1>1. CASE markup.tree
  <2>1. normalize_url(c) = c /\ normalize_url(d) = d
    BY <1>1, LinkFrom, KeyIsFinal
  <2>2. QED
    BY <2>1
<1>2. CASE ~markup.tree
  <2> DEFINE found == Targets(markup.hrefs, page_url)
             spelling(key) == CHOOSE u \in found : normalize_url(u) = key
  <2>1. \A e \in extract_links(markup, page_url) : e = spelling(normalize_url(e))
    <3> SUFFICES ASSUME NEW e \in extract_links(markup, page_url) PROVE e = spelling(normalize_url(e))
      OBVIOUS
    <3>1. PICK u \in found : e = spelling(normalize_url(u))
      BY <1>2 DEF extract_links, extract_hrefs_regex
    <3>2. normalize_url(e) = normalize_url(u)
      <4> HIDE DEF found
      <4>1. QED
        BY <3>1
    <3>3. QED
      BY <3>1, <3>2
  <2> HIDE DEF found, spelling
  <2>2. QED
    BY <2>1
<1>3. QED
  BY <1>1, <1>2

\* Whatever a page links to, and whether it parses or not: its child requests lie under the seed, in
\* its domain and within the limits of a trap, no two of them have the same key, and those of a page
\* that parses carry their key (link_extraction_service.py:386-522, recursive_crawl_service.py:99-128).
THEOREM ChildrenInScope ==
  ASSUME NEW markup, IsMarkup(markup), NEW page_url \in Url, NEW config \in RecursiveConfig,
         NEW c \in children_of(page_url, markup, config)
  PROVE  /\ UnderPrefix(c, config.seed_url)
         /\ config.same_domain_only => registrable_domain[c.host] = registrable_domain[config.seed_url.host]
         /\ Len(c.path) <= MAX_PATH_SEGMENTS
         /\ \A d \in children_of(page_url, markup, config) : normalize_url(c) = normalize_url(d) => c = d
         /\ markup.tree => normalize_url(c) = c
<1>1. /\ c \in extract_links(markup, page_url) /\ c \in filter_links(extract_links(markup, page_url), config)
      /\ children_of(page_url, markup, config) \subseteq extract_links(markup, page_url)
  BY DEF children_of, filter_links
<1>2. PICK u \in Url : u.host # NoHost /\ c = IF markup.tree THEN normalize_url(u) ELSE u
  BY <1>1, LinkFrom
<1>3. markup.tree => normalize_url(c) = c
  BY <1>2, KeyIsFinal
<1>4. UnderPrefix(c, config.seed_url)
      /\ (config.same_domain_only => registrable_domain[c.host] = registrable_domain[config.seed_url.host])
      /\ ~is_crawler_trap(c)
  BY <1>1 DEF filter_links, is_same_domain, Crawlable
<1>5. Len(c.path) <= MAX_PATH_SEGMENTS
  <2>1. c \in Url
    BY <1>2, NormalizedTyped
  <2>2. Len(c.path) \in Nat
    BY <2>1 DEF Url
  <2>3. ~(Len(c.path) > MAX_PATH_SEGMENTS)
    BY <1>4 DEF is_crawler_trap
  <2>4. QED
    BY <2>2, <2>3, LinkAssumption
<1>6. \A d \in children_of(page_url, markup, config) : normalize_url(c) = normalize_url(d) => c = d
  BY <1>1, OneSpelling
<1>7. QED
  BY <1>3, <1>4, <1>5, <1>6

\* The prefix of the seed is compared as it was submitted with links that are normalized where the
\* page parses: below a seed with one segment that is not in canonical spelling, an unquoted Amharic
\* name for instance, such a page has no children at all, whatever it links to. (One that does not
\* parse may have some.)
THEOREM RawSeedHasNoChildren ==
  ASSUME NEW markup, IsMarkup(markup), markup.tree, NEW page_url \in Url, NEW config \in RecursiveConfig,
         NEW k \in DOMAIN config.seed_url.path,
         canonical[config.seed_url.path[k]] # config.seed_url.path[k]
  PROVE  children_of(page_url, markup, config) = {}
<1>1. SUFFICES ASSUME NEW c \in children_of(page_url, markup, config) PROVE FALSE
  OBVIOUS
<1>2. c \in extract_links(markup, page_url) /\ UnderPrefix(c, config.seed_url)
  BY <1>1 DEF children_of, filter_links
<1>3. PICK u \in Url : u.host # NoHost /\ c = normalize_url(u)
  BY <1>2, LinkFrom
<1>4. c.path = Canonical(u)
  BY <1>3, Normalized
<1>5. k \in DOMAIN u.path /\ config.seed_url.path[k] = canonical[u.path[k]]
  BY <1>2, <1>4, <1>3, CanonicalPath DEF UnderPrefix, Canonical
<1>6. u.path[k] \in Segment
  BY <1>3, <1>5 DEF Url
<1>7. QED
  BY <1>5, <1>6, CanonicalAssumption
=============================================================================
