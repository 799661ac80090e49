------------------------------ MODULE PageProofs ------------------------------
(***************************************************************************)
(* Theorems about CrawlPage, for any pages, situations, answers of servers *)
(* and length of the history, and any bounds on connections and messages.  *)
(***************************************************************************)
EXTENDS CrawlPage, TLAPS, SequenceTheorems, FiniteSetTheorems

-----------------------------------------------------------------------------
(* Scripts. *)

Event == [url : Page \cup {None},
          stage : {"site_started", "fetching", "parsing", "site_finished", "challenge_detected", "event"},
          state : {"active", "failed", "passed", "info"}]
ScriptStep == [do : {"log", "publish", "push", "robots", "fetch", "hand_off", "ingest", "archive", "send",
                     "children", "dead_letter", "escalate", "save", "fail_job"},
               event : Event,
               say : {None, "failed", "skipped", "completed", "passed", "escalated", "needs_review"}]

\* Facts: the log has the page as failed, as anything else; its original is archived, or need not
\* be; the worker is not the dark one. What a step establishes:
LogsFailed(x) == x.do = "log" /\ x.say \in {"failed", "skipped", "escalated"}
LogsPassed(x) == x.do = "log" /\ x.say \notin {"failed", "escalated"}
TellsEnd(x)   == x.do \in {"publish", "push"} /\ x.event.stage = "site_finished" /\ x.event.url # None

Gives(x) == (IF LogsFailed(x) THEN {"failed"} ELSE {}) \cup (IF LogsPassed(x) THEN {"passed"} ELSE {})
            \cup (IF x.do = "archive" THEN {"kept"} ELSE {})

\* What it needs, among the facts K:
Ready(p, x, K) ==
    /\ TellsEnd(x) => x.event.url = p /\ (IF x.event.state = "failed" THEN "failed" \in K ELSE "passed" \in K)
    /\ x.do = "escalate" => "failed" \in K \/ "surface" \in K
    /\ x.do \in {"robots", "fetch", "send"} => "kept" \in K

\* Every step of a script is ready when its turn comes, if K holds when it begins.
Before(s, n) == UNION {Gives(s[m]) : m \in 1..(n - 1)}
Fine(p, s, K) == \A n \in DOMAIN s : Ready(p, s[n], K \cup Before(s, n))
Sound(p, s, K) == s \in Seq(ScriptStep) /\ Fine(p, s, K)

LEMMA ReadyMonotone ==
    ASSUME NEW p, NEW x, NEW K, NEW L, Ready(p, x, K), K \subseteq L
    PROVE  Ready(p, x, L)
  BY DEF Ready

LEMMA SoundMonotone ==
    ASSUME NEW p, NEW s, NEW K, NEW L, Sound(p, s, K), K \subseteq L
    PROVE  Sound(p, s, L)
  <1> SUFFICES ASSUME NEW n \in DOMAIN s PROVE Ready(p, s[n], L \cup Before(s, n))
    BY DEF Sound, Fine
  <1>1. Ready(p, s[n], K \cup Before(s, n))
    BY DEF Sound, Fine
  <1> QED BY <1>1 DEF Ready

LEMMA SoundNil == ASSUME NEW p, NEW K PROVE Sound(p, <<>>, K)
  BY DEF Sound, Fine

LEMMA SoundHead == ASSUME NEW p, NEW s, NEW K, Sound(p, s, K), s # <<>> PROVE Head(s) \in ScriptStep /\ Ready(p, Head(s), K)
  <1>1. 1 \in DOMAIN s /\ s[1] = Head(s) /\ Head(s) \in ScriptStep
    BY DEF Sound
  <1>2. 1..(1 - 1) = {}
    OBVIOUS
  <1>3. Before(s, 1) = {}
    BY <1>2 DEF Before
  <1> QED BY <1>1, <1>3 DEF Sound, Fine

LEMMA SoundTail ==
    ASSUME NEW p, NEW s, NEW K, Sound(p, s, K), s # <<>>
    PROVE  Sound(p, Tail(s), K \cup Gives(Head(s)))
  <1> DEFINE t == Tail(s)
  <1>1. /\ t \in Seq(ScriptStep) /\ Len(s) \in Nat /\ Len(t) = Len(s) - 1 /\ s[1] = Head(s)
        /\ \A n \in 1..Len(t) : t[n] = s[n + 1]
        /\ DOMAIN t = 1..Len(t) /\ DOMAIN s = 1..Len(s)
    BY DEF Sound
  <1>0. t = Tail(s)
    OBVIOUS
  <1> HIDE DEF t
  <1> SUFFICES ASSUME NEW n \in 1..Len(t) PROVE Ready(p, t[n], K \cup Gives(Head(s)) \cup Before(t, n))
    BY <1>0, <1>1 DEF Sound, Fine
  <1>2. n + 1 \in DOMAIN s /\ (n + 1) - 1 = n
    BY <1>1
  <1>3. Ready(p, s[n + 1], K \cup Before(s, n + 1))
    BY <1>2 DEF Sound, Fine
  <1>4. \A m \in 1..n : m = 1 \/ (m - 1 \in 1..(n - 1) /\ s[m] = t[m - 1])
    <2> SUFFICES ASSUME NEW m \in 1..n, m # 1 PROVE m - 1 \in 1..(n - 1) /\ s[m] = t[m - 1]
      OBVIOUS
    <2>1. m - 1 \in 1..(n - 1) /\ m - 1 \in 1..Len(t) /\ (m - 1) + 1 = m
      BY <1>1
    <2> QED BY <1>1, <2>1
  <1>5. Before(s, n + 1) \subseteq Gives(Head(s)) \cup Before(t, n)
    BY <1>1, <1>2, <1>4 DEF Before
  <1>6. t[n] = s[n + 1]
    BY <1>1
  <1>7. K \cup Before(s, n + 1) \subseteq K \cup Gives(Head(s)) \cup Before(t, n)
    BY <1>5
  <1> QED BY <1>3, <1>6, <1>7, ReadyMonotone

LEMMA SoundCons ==
    ASSUME NEW p, NEW s, NEW x \in ScriptStep, NEW K, NEW L, Ready(p, x, K), Sound(p, s, L), L \subseteq K \cup Gives(x)
    PROVE  Sound(p, <<x>> \o s, K)
  <1> DEFINE t == <<x>> \o s
  <1>1. /\ t \in Seq(ScriptStep) /\ Len(t) = Len(s) + 1 /\ Len(s) \in Nat /\ t[1] = x
        /\ \A n \in 1..Len(s) : t[n + 1] = s[n]
        /\ DOMAIN t = 1..(Len(s) + 1) /\ DOMAIN s = 1..Len(s)
    BY DEF Sound
  <1>0. t = <<x>> \o s
    OBVIOUS
  <1> HIDE DEF t
  <1> SUFFICES ASSUME NEW n \in 1..(Len(s) + 1) PROVE Ready(p, t[n], K \cup Before(t, n))
    BY <1>0, <1>1 DEF Sound, Fine
  <1>2. CASE n = 1
    <2>1. K \subseteq K \cup Before(t, n)
      OBVIOUS
    <2> QED BY <1>1, <1>2, <2>1, ReadyMonotone
  <1>3. CASE n # 1
    <2>0. PICK l \in 1..Len(s) : n = l + 1
      <3>1. n - 1 \in 1..Len(s) /\ n = (n - 1) + 1
        BY <1>1, <1>3
      <3> QED BY <3>1
    <2>1. l \in DOMAIN s /\ t[n] = s[l]
      BY <1>1, <2>0
    <2>2. Ready(p, s[l], L \cup Before(s, l))
      BY <2>1 DEF Sound, Fine
    <2>3. 1 \in 1..(n - 1)
      BY <1>1, <2>0
    <2>4. \A m \in 1..(l - 1) : m + 1 \in 1..(n - 1) /\ t[m + 1] = s[m]
      <3> SUFFICES ASSUME NEW m \in 1..(l - 1) PROVE m + 1 \in 1..(n - 1) /\ t[m + 1] = s[m]
        OBVIOUS
      <3>1. m \in 1..Len(s) /\ m + 1 <= l /\ n - 1 = l /\ l \in Nat /\ m \in Nat
        BY <1>1, <2>0
      <3> QED BY <1>1, <3>1
    <2>5. Gives(x) \cup Before(s, l) \subseteq Before(t, n)
      BY <1>1, <2>3, <2>4 DEF Before
    <2>6. L \cup Before(s, l) \subseteq K \cup Before(t, n)
      BY <2>5
    <2> QED BY <2>1, <2>2, <2>6, ReadyMonotone
  <1> QED BY <1>2, <1>3

\* The steps that scripts are made of.
LEMMA ToldStep ==
    ASSUME NEW p \in Page, NEW stage, NEW state, StageEvent(p, stage, state) \in Event
    PROVE  /\ Tell(p, stage, state) \in ScriptStep /\ Tell(p, stage, state).do = "publish"
           /\ Tell(p, stage, state).event.url = p /\ Tell(p, stage, state).event.stage = stage
           /\ Tell(p, stage, state).event.state = state
  BY DEF Tell, Publish, StageEvent, ScriptStep

LEMMA StepsTyped ==
    ASSUME NEW p \in Page
    PROVE  /\ JobEvent \in Event
           /\ \A stage \in {"site_started", "fetching", "parsing", "site_finished", "challenge_detected"},
                 state \in {"active", "failed", "passed"} : Tell(p, stage, state) \in ScriptStep
           /\ \A step \in {"robots", "fetch", "hand_off", "ingest", "archive", "send", "children", "dead_letter",
                           "escalate", "save", "fail_job"} : Do(step) \in ScriptStep /\ Do(step).do = step
           /\ \A state \in {"failed", "skipped", "completed", "passed", "escalated", "needs_review"} :
                 Log(state) \in ScriptStep /\ Log(state).do = "log" /\ Log(state).say = state
  <1>1. JobEvent \in Event
    BY DEF JobEvent, Event
  <1>2. ASSUME NEW stage \in {"site_started", "fetching", "parsing", "site_finished", "challenge_detected"},
               NEW state \in {"active", "failed", "passed"}
        PROVE  Tell(p, stage, state) \in ScriptStep
    BY ToldStep DEF StageEvent, Event
  <1>3. ASSUME NEW step \in {"robots", "fetch", "hand_off", "ingest", "archive", "send", "children", "dead_letter",
                             "escalate", "save", "fail_job"}
        PROVE  Do(step) \in ScriptStep /\ Do(step).do = step
    BY <1>1 DEF Do, ScriptStep
  <1>4. ASSUME NEW state \in {"failed", "skipped", "completed", "passed", "escalated", "needs_review"}
        PROVE  Log(state) \in ScriptStep /\ Log(state).do = "log" /\ Log(state).say = state
    BY <1>1 DEF Log, ScriptStep
  <1> QED BY <1>1, <1>2, <1>3, <1>4

\* When the steps of the scripts are ready.
LEMMA StepsReady ==
    ASSUME NEW p \in Page, NEW K
    PROVE  /\ \A stage \in {"site_started", "fetching", "parsing", "challenge_detected"},
                 state \in {"active", "failed", "passed"} : Ready(p, Tell(p, stage, state), K)
           /\ "failed" \in K => Ready(p, Tell(p, "site_finished", "failed"), K)
           /\ "passed" \in K => Ready(p, Tell(p, "site_finished", "passed"), K)
           /\ \A step \in {"hand_off", "ingest", "archive", "children", "dead_letter", "save", "fail_job"} :
                 Ready(p, Do(step), K)
           /\ "failed" \in K \/ "surface" \in K => Ready(p, Do("escalate"), K)
           /\ "kept" \in K => \A step \in {"robots", "fetch", "send"} : Ready(p, Do(step), K)
           /\ \A state : Ready(p, Log(state), K)
  BY DEF Ready, TellsEnd, Tell, Publish, StageEvent, Do, Log, JobEvent

\* One step before a script.
LEMMA TellFirst ==
    ASSUME NEW p \in Page, NEW K, NEW s, Sound(p, s, K)
    PROVE  /\ \A stage \in {"site_started", "fetching", "parsing", "challenge_detected"},
                 state \in {"active", "failed", "passed"} : Sound(p, <<Tell(p, stage, state)>> \o s, K)
           /\ "failed" \in K => Sound(p, <<Tell(p, "site_finished", "failed")>> \o s, K)
           /\ "passed" \in K => Sound(p, <<Tell(p, "site_finished", "passed")>> \o s, K)
  <1>1. ASSUME NEW x \in ScriptStep, Ready(p, x, K) PROVE Sound(p, <<x>> \o s, K)
    BY <1>1, SoundCons
  <1> QED BY <1>1, StepsTyped, StepsReady

LEMMA DoFirst ==
    ASSUME NEW p \in Page, NEW K, NEW s, Sound(p, s, K)
    PROVE  /\ \A step \in {"hand_off", "ingest", "children", "dead_letter", "save", "fail_job"} :
                 Sound(p, <<Do(step)>> \o s, K)
           /\ "failed" \in K \/ "surface" \in K => Sound(p, <<Do("escalate")>> \o s, K)
           /\ "kept" \in K => \A step \in {"robots", "fetch", "send"} : Sound(p, <<Do(step)>> \o s, K)
  <1>1. ASSUME NEW x \in ScriptStep, Ready(p, x, K) PROVE Sound(p, <<x>> \o s, K)
    BY <1>1, SoundCons
  <1> QED BY <1>1, StepsTyped, StepsReady

LEMMA ArchiveFirst ==
    ASSUME NEW p \in Page, NEW K, NEW s, Sound(p, s, K \cup {"kept"})
    PROVE  Sound(p, <<Do("archive")>> \o s, K)
  <1>1. Do("archive") \in ScriptStep /\ "kept" \in Gives(Do("archive")) /\ Ready(p, Do("archive"), K)
    BY StepsTyped, StepsReady DEF Gives
  <1> QED BY <1>1, SoundCons

LEMMA FailedFirst ==
    ASSUME NEW p \in Page, NEW K, NEW s, Sound(p, s, K \cup {"failed"})
    PROVE  \A state \in {"failed", "skipped", "escalated"} : Sound(p, <<Log(state)>> \o s, K)
  <1>1. ASSUME NEW x \in ScriptStep, LogsFailed(x), Ready(p, x, K) PROVE Sound(p, <<x>> \o s, K)
    BY <1>1, SoundCons DEF Gives
  <1>2. \A state \in {"failed", "skipped", "escalated"} :
            Log(state) \in ScriptStep /\ LogsFailed(Log(state)) /\ Ready(p, Log(state), K)
    BY StepsTyped, StepsReady DEF LogsFailed
  <1> QED BY <1>1, <1>2

LEMMA PassedFirst ==
    ASSUME NEW p \in Page, NEW K, NEW s, Sound(p, s, K \cup {"passed"})
    PROVE  \A state \in {"skipped", "completed", "passed", "needs_review"} : Sound(p, <<Log(state)>> \o s, K)
  <1>1. ASSUME NEW x \in ScriptStep, LogsPassed(x), Ready(p, x, K) PROVE Sound(p, <<x>> \o s, K)
    BY <1>1, SoundCons DEF Gives
  <1>2. \A state \in {"skipped", "completed", "passed", "needs_review"} :
            Log(state) \in ScriptStep /\ LogsPassed(Log(state)) /\ Ready(p, Log(state), K)
    BY StepsTyped, StepsReady DEF LogsPassed
  <1> QED BY <1>1, <1>2

-----------------------------------------------------------------------------
(* Tuples, taken apart at their first element. *)

LEMMA ConsIs ==
    ASSUME NEW S, NEW a \in S, NEW s \in Seq(S), NEW t \in Seq(S), Len(t) = Len(s) + 1, t[1] = a,
           \A n \in 1..Len(s) : t[n + 1] = s[n]
    PROVE  t = <<a>> \o s
  <1> DEFINE u == <<a>> \o s
  <1>1. u \in Seq(S) /\ Len(u) = Len(s) + 1 /\ u[1] = a /\ (\A n \in 1..Len(s) : u[n + 1] = s[n]) /\ Len(s) \in Nat
    OBVIOUS
  <1> HIDE DEF u
  <1>2. ASSUME NEW n \in 1..Len(t) PROVE t[n] = u[n]
    <2>1. n = 1 \/ (n - 1 \in 1..Len(s) /\ (n - 1) + 1 = n)
      BY <1>1
    <2> QED BY <1>1, <2>1
  <1>3. t = u
    BY <1>1, <1>2, SeqEqual
  <1> QED BY <1>3 DEF u

LEMMA Tuple1 == ASSUME NEW a PROVE <<a>> = <<a>> \o <<>>
  OBVIOUS

LEMMA Tuple2 ==
    ASSUME NEW a, NEW b
    PROVE  <<a, b>> = <<a>> \o (<<b>> \o <<>>)
  <1> DEFINE S == {a, b}
             s == <<b>>
             t == <<a, b>>
  <1>1. /\ s \in Seq(S) /\ t \in Seq(S) /\ Len(s) = 1 /\ Len(t) = 2 /\ a \in S /\ t[1] = a
        /\ t[2] = s[1]
    OBVIOUS
  <1> HIDE DEF s, t, S
  <1>2. \A n \in 1..Len(s) : n = 1
    BY <1>1
  <1>3. \A n \in 1..Len(s) : t[n + 1] = s[n]
    BY <1>1, <1>2
  <1>4. Len(t) = Len(s) + 1
    BY <1>1
  <1>5. t = <<a>> \o s
    BY <1>1, <1>3, <1>4, ConsIs, Zenon
  <1>6. s = <<b>> \o <<>>
    BY Tuple1 DEF s
  <1>7. t = <<a>> \o (<<b>> \o <<>>)
    BY <1>5, <1>6
  <1> QED BY <1>7 DEF t

LEMMA Tuple3 ==
    ASSUME NEW a, NEW b, NEW c
    PROVE  <<a, b, c>> = <<a>> \o (<<b>> \o (<<c>> \o <<>>))
  <1> DEFINE S == {a, b, c}
             s == <<b, c>>
             t == <<a, b, c>>
  <1>1. /\ s \in Seq(S) /\ t \in Seq(S) /\ Len(s) = 2 /\ Len(t) = 3 /\ a \in S /\ t[1] = a
        /\ t[2] = s[1] /\ t[3] = s[2]
    OBVIOUS
  <1> HIDE DEF s, t, S
  <1>2. \A n \in 1..Len(s) : n = 1 \/ n = 2
    BY <1>1
  <1>3. \A n \in 1..Len(s) : t[n + 1] = s[n]
    BY <1>1, <1>2
  <1>4. Len(t) = Len(s) + 1
    BY <1>1
  <1>5. t = <<a>> \o s
    BY <1>1, <1>3, <1>4, ConsIs, Zenon
  <1>6. s = <<b>> \o (<<c>> \o <<>>)
    BY Tuple2 DEF s
  <1>7. t = <<a>> \o (<<b>> \o (<<c>> \o <<>>))
    BY <1>5, <1>6
  <1> QED BY <1>7 DEF t

LEMMA Tuple4 ==
    ASSUME NEW a, NEW b, NEW c, NEW d
    PROVE  <<a, b, c, d>> = <<a>> \o (<<b>> \o (<<c>> \o (<<d>> \o <<>>)))
  <1> DEFINE S == {a, b, c, d}
             s == <<b, c, d>>
             t == <<a, b, c, d>>
  <1>1. /\ s \in Seq(S) /\ t \in Seq(S) /\ Len(s) = 3 /\ Len(t) = 4 /\ a \in S /\ t[1] = a
        /\ t[2] = s[1] /\ t[3] = s[2] /\ t[4] = s[3]
    OBVIOUS
  <1> HIDE DEF s, t, S
  <1>2. \A n \in 1..Len(s) : n = 1 \/ n = 2 \/ n = 3
    BY <1>1
  <1>3. \A n \in 1..Len(s) : t[n + 1] = s[n]
    BY <1>1, <1>2
  <1>4. Len(t) = Len(s) + 1
    BY <1>1
  <1>5. t = <<a>> \o s
    BY <1>1, <1>3, <1>4, ConsIs, Zenon
  <1>6. s = <<b>> \o (<<c>> \o (<<d>> \o <<>>))
    BY Tuple3 DEF s
  <1>7. t = <<a>> \o (<<b>> \o (<<c>> \o (<<d>> \o <<>>)))
    BY <1>5, <1>6
  <1> QED BY <1>7 DEF t

LEMMA Tuple5 ==
    ASSUME NEW a, NEW b, NEW c, NEW d, NEW e
    PROVE  <<a, b, c, d, e>> = <<a>> \o (<<b>> \o (<<c>> \o (<<d>> \o (<<e>> \o <<>>))))
  <1> DEFINE S == {a, b, c, d, e}
             s == <<b, c, d, e>>
             t == <<a, b, c, d, e>>
  <1>1. /\ s \in Seq(S) /\ t \in Seq(S) /\ Len(s) = 4 /\ Len(t) = 5 /\ a \in S /\ t[1] = a
        /\ t[2] = s[1] /\ t[3] = s[2] /\ t[4] = s[3] /\ t[5] = s[4]
    OBVIOUS
  <1> HIDE DEF s, t, S
  <1>2. \A n \in 1..Len(s) : n = 1 \/ n = 2 \/ n = 3 \/ n = 4
    BY <1>1
  <1>3. \A n \in 1..Len(s) : t[n + 1] = s[n]
    BY <1>1, <1>2
  <1>4. Len(t) = Len(s) + 1
    BY <1>1
  <1>5. t = <<a>> \o s
    BY <1>1, <1>3, <1>4, ConsIs, Zenon
  <1>6. s = <<b>> \o (<<c>> \o (<<d>> \o (<<e>> \o <<>>)))
    BY Tuple4 DEF s
  <1>7. t = <<a>> \o (<<b>> \o (<<c>> \o (<<d>> \o (<<e>> \o <<>>))))
    BY <1>5, <1>6
  <1> QED BY <1>7 DEF t

LEMMA Tuple6 ==
    ASSUME NEW a, NEW b, NEW c, NEW d, NEW e, NEW x
    PROVE  <<a, b, c, d, e, x>> = <<a>> \o (<<b>> \o (<<c>> \o (<<d>> \o (<<e>> \o (<<x>> \o <<>>)))))
  <1> DEFINE S == {a, b, c, d, e, x}
             s == <<b, c, d, e, x>>
             t == <<a, b, c, d, e, x>>
  <1>1. /\ s \in Seq(S) /\ t \in Seq(S) /\ Len(s) = 5 /\ Len(t) = 6 /\ a \in S /\ t[1] = a
        /\ t[2] = s[1] /\ t[3] = s[2] /\ t[4] = s[3] /\ t[5] = s[4] /\ t[6] = s[5]
    OBVIOUS
  <1> HIDE DEF s, t, S
  <1>2. \A n \in 1..Len(s) : n = 1 \/ n = 2 \/ n = 3 \/ n = 4 \/ n = 5
    BY <1>1
  <1>3. \A n \in 1..Len(s) : t[n + 1] = s[n]
    BY <1>1, <1>2
  <1>4. Len(t) = Len(s) + 1
    BY <1>1
  <1>5. t = <<a>> \o s
    BY <1>1, <1>3, <1>4, ConsIs, Zenon
  <1>6. s = <<b>> \o (<<c>> \o (<<d>> \o (<<e>> \o (<<x>> \o <<>>))))
    BY Tuple5 DEF s
  <1>7. t = <<a>> \o (<<b>> \o (<<c>> \o (<<d>> \o (<<e>> \o (<<x>> \o <<>>)))))
    BY <1>5, <1>6
  <1> QED BY <1>7 DEF t

-----------------------------------------------------------------------------
(* The scripts of the workers, in what is known when they begin. *)

LEMMA StartedSound ==
    ASSUME NEW p \in Page, NEW K, "kept" \in K
    PROVE  Sound(p, Started(p), K)
  <1>1. Sound(p, <<>>, K)
    BY SoundNil
  <1>2. Sound(p, <<Do("robots")>> \o <<>>, K)
    BY <1>1, DoFirst
  <1>3. Sound(p, <<Tell(p, "site_started", "active")>> \o (<<Do("robots")>> \o <<>>), K)
    BY <1>2, TellFirst
  <1>4. Started(p) = <<Tell(p, "site_started", "active")>> \o (<<Do("robots")>> \o <<>>)
    BY Tuple2, Zenon DEF Started
  <1> QED BY <1>3, <1>4, Zenon

LEMMA DisallowedSound ==
    ASSUME NEW p \in Page, NEW K
    PROVE  Sound(p, Disallowed(p), K)
  <1>1. Sound(p, <<>>, K \cup {"failed"})
    BY SoundNil
  <1>2. Sound(p, <<Tell(p, "site_finished", "failed")>> \o <<>>, K \cup {"failed"})
    BY <1>1, TellFirst
  <1>3. Sound(p, <<Log("skipped")>> \o (<<Tell(p, "site_finished", "failed")>> \o <<>>), K)
    BY <1>2, FailedFirst
  <1>4. Disallowed(p) = <<Log("skipped")>> \o (<<Tell(p, "site_finished", "failed")>> \o <<>>)
    BY Tuple2, Zenon DEF Disallowed
  <1> QED BY <1>3, <1>4, Zenon

LEMMA FetchingSound ==
    ASSUME NEW p \in Page, NEW K, "kept" \in K
    PROVE  Sound(p, Fetching(p), K)
  <1>1. Sound(p, <<>>, K)
    BY SoundNil
  <1>2. Sound(p, <<Do("fetch")>> \o <<>>, K)
    BY <1>1, DoFirst
  <1>3. Sound(p, <<Tell(p, "fetching", "active")>> \o (<<Do("fetch")>> \o <<>>), K)
    BY <1>2, TellFirst
  <1>4. Fetching(p) = <<Tell(p, "fetching", "active")>> \o (<<Do("fetch")>> \o <<>>)
    BY Tuple2, Zenon DEF Fetching
  <1> QED BY <1>3, <1>4, Zenon

LEMMA IngestFailedSound ==
    ASSUME NEW p \in Page, NEW K
    PROVE  Sound(p, IngestFailed(p), K)
  <1>1. Sound(p, <<>>, K \cup {"failed"})
    BY SoundNil
  <1>2. Sound(p, <<Tell(p, "site_finished", "failed")>> \o <<>>, K \cup {"failed"})
    BY <1>1, TellFirst
  <1>3. Sound(p, <<Log("failed")>> \o (<<Tell(p, "site_finished", "failed")>> \o <<>>), K)
    BY <1>2, FailedFirst
  <1>4. IngestFailed(p) = <<Log("failed")>> \o (<<Tell(p, "site_finished", "failed")>> \o <<>>)
    BY Tuple2, Zenon DEF IngestFailed
  <1> QED BY <1>3, <1>4, Zenon

LEMMA IngestedSound ==
    ASSUME NEW p \in Page, NEW K
    PROVE  Sound(p, Ingested(p), K)
  <1>1. Sound(p, <<>>, K \cup {"kept"} \cup {"passed"})
    BY SoundNil
  <1>2. Sound(p, <<Tell(p, "site_finished", "passed")>> \o <<>>, K \cup {"kept"} \cup {"passed"})
    BY <1>1, TellFirst
  <1>3. Sound(p, <<Tell(p, "parsing", "passed")>> \o (<<Tell(p, "site_finished", "passed")>> \o <<>>), K \cup {"kept"} \cup {"passed"})
    BY <1>2, TellFirst
  <1>4. Sound(p, <<Log("completed")>> \o (<<Tell(p, "parsing", "passed")>> \o (<<Tell(p, "site_finished", "passed")>> \o <<>>)), K \cup {"kept"})
    BY <1>3, PassedFirst
  <1>5. Sound(p, <<Do("send")>> \o (<<Log("completed")>> \o (<<Tell(p, "parsing", "passed")>> \o (<<Tell(p, "site_finished", "passed")>> \o <<>>))), K \cup {"kept"})
    BY <1>4, DoFirst
  <1>6. Sound(p, <<Do("archive")>> \o (<<Do("send")>> \o (<<Log("completed")>> \o (<<Tell(p, "parsing", "passed")>> \o (<<Tell(p, "site_finished", "passed")>> \o <<>>)))), K)
    BY <1>5, ArchiveFirst
  <1>7. Ingested(p) = <<Do("archive")>> \o (<<Do("send")>> \o (<<Log("completed")>> \o (<<Tell(p, "parsing", "passed")>> \o (<<Tell(p, "site_finished", "passed")>> \o <<>>))))
    BY Tuple5 DEF Ingested
  <1> QED BY <1>6, <1>7, Zenon

LEMMA EscalatingSound ==
    ASSUME NEW p \in Page, NEW K, "surface" \in K
    PROVE  Sound(p, Escalating(p), K)
  <1>1. Sound(p, <<>>, K)
    BY SoundNil
  <1>2. Sound(p, <<Do("escalate")>> \o <<>>, K)
    BY <1>1, DoFirst
  <1>3. Sound(p, <<Tell(p, "challenge_detected", "active")>> \o (<<Do("escalate")>> \o <<>>), K)
    BY <1>2, TellFirst
  <1>4. Escalating(p) = <<Tell(p, "challenge_detected", "active")>> \o (<<Do("escalate")>> \o <<>>)
    BY Tuple2, Zenon DEF Escalating
  <1> QED BY <1>3, <1>4, Zenon

LEMMA ExhaustedSound ==
    ASSUME NEW p \in Page, NEW K
    PROVE  Sound(p, Exhausted(p), K)
  <1>1. Sound(p, <<>>, K \cup {"failed"})
    BY SoundNil
  <1>2. Sound(p, <<Tell(p, "site_finished", "failed")>> \o <<>>, K \cup {"failed"})
    BY <1>1, TellFirst
  <1>3. Sound(p, <<Log("failed")>> \o (<<Tell(p, "site_finished", "failed")>> \o <<>>), K)
    BY <1>2, FailedFirst
  <1>4. Exhausted(p) = <<Log("failed")>> \o (<<Tell(p, "site_finished", "failed")>> \o <<>>)
    BY Tuple2, Zenon DEF Exhausted
  <1> QED BY <1>3, <1>4, Zenon

LEMMA HardFailureSound ==
    ASSUME NEW p \in Page, NEW K
    PROVE  Sound(p, HardFailure(p), K)
  <1>1. Sound(p, <<>>, K \cup {"failed"})
    BY SoundNil
  <1>2. Sound(p, <<Tell(p, "site_finished", "failed")>> \o <<>>, K \cup {"failed"})
    BY <1>1, TellFirst
  <1>3. Sound(p, <<Tell(p, "parsing", "failed")>> \o (<<Tell(p, "site_finished", "failed")>> \o <<>>), K \cup {"failed"})
    BY <1>2, TellFirst
  <1>4. Sound(p, <<Do("dead_letter")>> \o (<<Tell(p, "parsing", "failed")>> \o (<<Tell(p, "site_finished", "failed")>> \o <<>>)), K \cup {"failed"})
    BY <1>3, DoFirst
  <1>5. Sound(p, <<Log("failed")>> \o (<<Do("dead_letter")>> \o (<<Tell(p, "parsing", "failed")>> \o (<<Tell(p, "site_finished", "failed")>> \o <<>>))), K)
    BY <1>4, FailedFirst
  <1>6. HardFailure(p) = <<Log("failed")>> \o (<<Do("dead_letter")>> \o (<<Tell(p, "parsing", "failed")>> \o (<<Tell(p, "site_finished", "failed")>> \o <<>>)))
    BY Tuple4, Zenon DEF HardFailure
  <1> QED BY <1>5, <1>6, Zenon

LEMMA PublishedSound ==
    ASSUME NEW p \in Page, NEW K, NEW verdict \in {"needs_review", "skipped", "completed"}, "kept" \in K
    PROVE  Sound(p, Page_published(p, verdict), K)
  <1>1. Sound(p, <<>>, K \cup {"passed"})
    BY SoundNil
  <1>2. Sound(p, <<Tell(p, "site_finished", "passed")>> \o <<>>, K \cup {"passed"})
    BY <1>1, TellFirst
  <1>3. Sound(p, <<Tell(p, "parsing", "passed")>> \o (<<Tell(p, "site_finished", "passed")>> \o <<>>), K \cup {"passed"})
    BY <1>2, TellFirst
  <1>4. Sound(p, <<Log(verdict)>> \o (<<Tell(p, "parsing", "passed")>> \o (<<Tell(p, "site_finished", "passed")>> \o <<>>)), K)
    BY <1>3, PassedFirst
  <1>5. Sound(p, <<Do("send")>> \o (<<Log(verdict)>> \o (<<Tell(p, "parsing", "passed")>> \o (<<Tell(p, "site_finished", "passed")>> \o <<>>))), K)
    BY <1>4, DoFirst
  <1>6. Sound(p, <<Do("children")>> \o (<<Do("send")>> \o (<<Log(verdict)>> \o (<<Tell(p, "parsing", "passed")>> \o (<<Tell(p, "site_finished", "passed")>> \o <<>>)))), K)
    BY <1>5, DoFirst
  <1>7. Page_published(p, verdict) = <<Do("children")>> \o (<<Do("send")>> \o (<<Log(verdict)>> \o (<<Tell(p, "parsing", "passed")>> \o (<<Tell(p, "site_finished", "passed")>> \o <<>>))))
    BY Tuple5 DEF Page_published
  <1> QED BY <1>6, <1>7, Zenon

LEMMA DarkChallengedSound ==
    ASSUME NEW p \in Page, NEW K
    PROVE  Sound(p, DarkChallenged(p), K)
  <1>1. Sound(p, <<>>, K \cup {"failed"})
    BY SoundNil
  <1>2. Sound(p, <<Do("escalate")>> \o <<>>, K \cup {"failed"})
    BY <1>1, DoFirst
  <1>3. Sound(p, <<Tell(p, "challenge_detected", "active")>> \o (<<Do("escalate")>> \o <<>>), K \cup {"failed"})
    BY <1>2, TellFirst
  <1>4. Sound(p, <<Log("escalated")>> \o (<<Tell(p, "challenge_detected", "active")>> \o (<<Do("escalate")>> \o <<>>)), K)
    BY <1>3, FailedFirst
  <1>5. DarkChallenged(p) = <<Log("escalated")>> \o (<<Tell(p, "challenge_detected", "active")>> \o (<<Do("escalate")>> \o <<>>))
    BY Tuple3, Zenon DEF DarkChallenged
  <1> QED BY <1>4, <1>5, Zenon

LEMMA DarkRejectedSound ==
    ASSUME NEW p \in Page, NEW K
    PROVE  Sound(p, DarkRejected(p), K)
  <1>1. Sound(p, <<>>, K \cup {"failed"})
    BY SoundNil
  <1>2. Sound(p, <<Do("escalate")>> \o <<>>, K \cup {"failed"})
    BY <1>1, DoFirst
  <1>3. Sound(p, <<Log("escalated")>> \o (<<Do("escalate")>> \o <<>>), K)
    BY <1>2, FailedFirst
  <1>4. DarkRejected(p) = <<Log("escalated")>> \o (<<Do("escalate")>> \o <<>>)
    BY Tuple2, Zenon DEF DarkRejected
  <1> QED BY <1>3, <1>4, Zenon

LEMMA DarkExhaustedSound ==
    ASSUME NEW p \in Page, NEW K, "failed" \in K
    PROVE  Sound(p, DarkExhausted(p), K)
  <1>1. Sound(p, <<>>, K)
    BY SoundNil
  <1>2. Sound(p, <<Tell(p, "site_finished", "failed")>> \o <<>>, K)
    BY <1>1, TellFirst
  <1>3. DarkExhausted(p) = <<Tell(p, "site_finished", "failed")>> \o <<>>
    BY Tuple1, Zenon DEF DarkExhausted
  <1> QED BY <1>2, <1>3, Zenon

LEMMA DarkPublishedSound ==
    ASSUME NEW p \in Page, NEW K, NEW verdict \in {"needs_review", "skipped", "completed"}, "kept" \in K
    PROVE  Sound(p, DarkPublished(p, verdict), K)
  <1>1. Sound(p, <<>>, K \cup {"passed"})
    BY SoundNil
  <1>2. Sound(p, <<Tell(p, "site_finished", "passed")>> \o <<>>, K \cup {"passed"})
    BY <1>1, TellFirst
  <1>3. Sound(p, <<Tell(p, "parsing", "passed")>> \o (<<Tell(p, "site_finished", "passed")>> \o <<>>), K \cup {"passed"})
    BY <1>2, TellFirst
  <1>4. Sound(p, <<Log(verdict)>> \o (<<Tell(p, "parsing", "passed")>> \o (<<Tell(p, "site_finished", "passed")>> \o <<>>)), K)
    BY <1>3, PassedFirst
  <1>5. Sound(p, <<Do("send")>> \o (<<Log(verdict)>> \o (<<Tell(p, "parsing", "passed")>> \o (<<Tell(p, "site_finished", "passed")>> \o <<>>))), K)
    BY <1>4, DoFirst
  <1>6. Sound(p, <<Do("save")>> \o (<<Do("send")>> \o (<<Log(verdict)>> \o (<<Tell(p, "parsing", "passed")>> \o (<<Tell(p, "site_finished", "passed")>> \o <<>>)))), K)
    BY <1>5, DoFirst
  <1>7. Sound(p, <<Do("children")>> \o (<<Do("save")>> \o (<<Do("send")>> \o (<<Log(verdict)>> \o (<<Tell(p, "parsing", "passed")>> \o (<<Tell(p, "site_finished", "passed")>> \o <<>>))))), K)
    BY <1>6, DoFirst
  <1>8. DarkPublished(p, verdict) = <<Do("children")>> \o (<<Do("save")>> \o (<<Do("send")>> \o (<<Log(verdict)>> \o (<<Tell(p, "parsing", "passed")>> \o (<<Tell(p, "site_finished", "passed")>> \o <<>>)))))
    BY Tuple6 DEF DarkPublished
  <1> QED BY <1>7, <1>8, Zenon

LEMMA DarkCrashedSound ==
    ASSUME NEW p \in Page, NEW K, "failed" \in K
    PROVE  Sound(p, DarkCrashed(p), K)
  <1>1. Sound(p, <<>>, K \cup {"failed"})
    BY SoundNil
  <1>2. Sound(p, <<Do("fail_job")>> \o <<>>, K \cup {"failed"})
    BY <1>1, DoFirst
  <1>3. Sound(p, <<Log("failed")>> \o (<<Do("fail_job")>> \o <<>>), K)
    BY <1>2, FailedFirst
  <1>4. Sound(p, <<Tell(p, "site_finished", "failed")>> \o (<<Log("failed")>> \o (<<Do("fail_job")>> \o <<>>)), K)
    BY <1>3, TellFirst
  <1>5. DarkCrashed(p) = <<Tell(p, "site_finished", "failed")>> \o (<<Log("failed")>> \o (<<Do("fail_job")>> \o <<>>))
    BY Tuple3, Zenon DEF DarkCrashed
  <1> QED BY <1>4, <1>5, Zenon

\* The scripts made of others.
LEMMA NonHtmlSound ==
    ASSUME NEW p \in Page, NEW K, NEW kind
    PROVE  Sound(p, process_non_html_content(p, kind), K)
  <1>1. Sound(p, <<>>, K)
    BY SoundNil
  <1>2. \A step \in {"hand_off", "ingest"} : Sound(p, <<Do(step)>> \o <<>>, K)
    BY <1>1, DoFirst
  <1>3. PICK step \in {"hand_off", "ingest"} : process_non_html_content(p, kind) = <<Tell(p, "fetching", "active"), Do(step)>>
    BY DEF process_non_html_content
  <1>4. Sound(p, <<Do(step)>> \o <<>>, K)
    BY <1>2
  <1>5. Sound(p, <<Tell(p, "fetching", "active")>> \o (<<Do(step)>> \o <<>>), K)
    BY <1>4, TellFirst
  <1>6. process_non_html_content(p, kind) = <<Tell(p, "fetching", "active")>> \o (<<Do(step)>> \o <<>>)
    BY <1>3, Tuple2, Zenon
  <1> QED BY <1>5, <1>6, Zenon

LEMMA HandedOffSound ==
    ASSUME NEW p \in Page, NEW K, NEW done \in BOOLEAN
    PROVE  Sound(p, HandedOff(p, done), K)
  <1>1. CASE done
    <2>1. Sound(p, <<>>, K \cup {"passed"})
      BY SoundNil
    <2>2. Sound(p, <<Tell(p, "site_finished", "passed")>> \o <<>>, K \cup {"passed"})
      BY <2>1, TellFirst
    <2>3. Sound(p, <<Log("passed")>> \o (<<Tell(p, "site_finished", "passed")>> \o <<>>), K)
      BY <2>2, PassedFirst
    <2>4. HandedOff(p, done) = <<Log("passed"), Tell(p, "site_finished", "passed")>>
      BY <1>1 DEF HandedOff
    <2>5. HandedOff(p, done) = <<Log("passed")>> \o (<<Tell(p, "site_finished", "passed")>> \o <<>>)
      BY <2>4, Tuple2, Zenon
    <2> QED BY <2>3, <2>5, Zenon
  <1>2. CASE ~done
    <2>1. Sound(p, <<>>, K \cup {"failed"})
      BY SoundNil
    <2>2. Sound(p, <<Tell(p, "site_finished", "failed")>> \o <<>>, K \cup {"failed"})
      BY <2>1, TellFirst
    <2>3. Sound(p, <<Log("failed")>> \o (<<Tell(p, "site_finished", "failed")>> \o <<>>), K)
      BY <2>2, FailedFirst
    <2>4. HandedOff(p, done) = <<Log("failed"), Tell(p, "site_finished", "failed")>>
      BY <1>2 DEF HandedOff
    <2>5. HandedOff(p, done) = <<Log("failed")>> \o (<<Tell(p, "site_finished", "failed")>> \o <<>>)
      BY <2>4, Tuple2, Zenon
    <2> QED BY <2>3, <2>5, Zenon
  <1> QED BY <1>1, <1>2

LEMMA Verdicts == ASSUME NEW a PROVE validate(a) \in {"needs_review", "skipped", "completed"}
  BY DEF validate

LEMMA FetchedSound ==
    ASSUME NEW p \in Page, NEW K, "kept" \in K, "surface" \in K, NEW a
    PROVE  Sound(p, Fetched(p, a), K)
  <1>1. CASE Reroutes(a)
    BY <1>1, NonHtmlSound DEF Fetched
  <1>2. CASE ~Reroutes(a)
    <2>0. PICK state \in {"active", "failed", "passed"} :
             \E s \in {Escalating(p), HardFailure(p), Page_published(p, validate(a))} :
                Fetched(p, a) = <<Tell(p, "fetching", state)>> \o s
      BY SMTT(20), <1>2 DEF Fetched
    <2>1. PICK s \in {Escalating(p), HardFailure(p), Page_published(p, validate(a))} :
             Fetched(p, a) = <<Tell(p, "fetching", state)>> \o s
      BY <2>0
    <2>2. Sound(p, s, K)
      BY <2>1, EscalatingSound, HardFailureSound, PublishedSound, Verdicts
    <2> QED BY <2>1, <2>2, TellFirst
  <1> QED BY <1>1, <1>2

LEMMA DarkFetchedSound ==
    ASSUME NEW p \in Page, NEW K, "kept" \in K, NEW a
    PROVE  Sound(p, DarkFetched(p, a), K)
  <1>1. PICK s : /\ DarkFetched(p, a) = <<Tell(p, "fetching", "passed")>> \o s
                 /\ s \in {DarkChallenged(p), DarkRejected(p), DarkPublished(p, validate(a))}
    BY DEF DarkFetched, fetch_url
  <1>2. Sound(p, s, K)
    BY <1>1, DarkChallengedSound, DarkRejectedSound, DarkPublishedSound, Verdicts
  <1> QED BY <1>1, <1>2, TellFirst

\* What a rerouted document raises.
LEMMA RaisedSound == ASSUME NEW p \in Page, NEW K PROVE Sound(p, <<Tell(p, "fetching", "failed")>> \o HardFailure(p), K)
  BY HardFailureSound, TellFirst

-----------------------------------------------------------------------------
(* The invariant. *)

IsOriginal(name) == [name |-> name, holds |-> "original"] \in objects
FailOK(q) == crawl_log[q] \cap {"failed", "skipped", "escalated"} # {} \/ crawl[q].crashed
PassOK(q) == crawl_log[q] \ {"failed", "escalated"} # {}
Kept(q)   == crawl[q].kind = "pdf" =>
                IF crawl[q].path = <<>> THEN "archive" \in faults
                ELSE crawl[q].path = raw_name(crawl[q].item, q, "pdf") /\ IsOriginal(crawl[q].path)
Facts(q)  == (IF FailOK(q) THEN {"failed"} ELSE {}) \cup (IF PassOK(q) THEN {"passed"} ELSE {})
             \cup (IF Kept(q) THEN {"kept"} ELSE {}) \cup (IF IsDark THEN {} ELSE {"surface"})

Path == {<<>>} \cup {raw_name(item, q, kind) : item \in Nat, q \in Page, kind \in ContentKind}
Task == [at : {"queued", "working", "settled", "escalated", "raised", "lost"}, script : Seq(ScriptStep),
         rerouted : BOOLEAN, item : Nat, kind : ContentKind, path : Path,
         said : {None, "failed", "skipped", "completed", "passed", "escalated", "needs_review"}, crashed : BOOLEAN]

\* Every page is written by a script whose steps are ready.
CrawlInv ==
    /\ situation \in Situations
    /\ crawl \in [Page -> Task]
    /\ crawl_log \in [Page -> SUBSET {None, "failed", "skipped", "completed", "passed", "escalated", "needs_review"}]
    /\ \A q \in Page : Fine(q, crawl[q].script, Facts(q))

\* What is told, kept, buffered, replayed or shown has been logged.
LoggedEvent == {e \in Event : e.stage = "site_finished" /\ e.url # None =>
                                 IF e.state = "failed" THEN FailOK(e.url) ELSE PassOK(e.url)}
Server == [at : {"none", "accepted", "replay", "open"}, alive : BOOLEAN, replay : Seq(Event)]
Listener == [at : {"off", "connecting", "listening", "sending"}, event : Event, to : SUBSET Conn,
             sent : SUBSET Conn, size : Nat, dead : SUBSET Conn]
Status == {"running"} \cup TERMINAL_STATUSES
View == [opened : BOOLEAN, conn : 0..MaxConns, up : BOOLEAN, refresh : BOOLEAN, status : {None} \cup Status,
         items : {None, "some"}, sites : [Page -> {None, "active", "failed", "passed"}], late : BOOLEAN]
Load == [part : {"job"}, answer : Status] \cup [part : {"items"}, answer : {None, "some"}]
LiveTyped ==
    /\ status \in Status /\ conns \subseteq Conn /\ listener \in Listener
    /\ server \in [Conn -> Server] /\ view \in View /\ loads \subseteq Load
ToldInv ==
    /\ LiveTyped
    /\ history \in Seq(LoggedEvent) /\ channel \in Seq(LoggedEvent)
    /\ listener.event \in LoggedEvent /\ \A c \in Conn : server[c].replay \in Seq(LoggedEvent)
    /\ \A q \in Page : /\ view.sites[q] = "failed" => FailOK(q)
                       /\ view.sites[q] = "passed" => PassOK(q)

\* A message about a document names its original, or its upload failed.
Message == [page : Page, item : Nat, kind : ContentKind, path : Path]
GoodMessage == {m \in Message : m.kind = "pdf" =>
                   IF m.path = <<>> THEN "archive" \in faults
                   ELSE IsOriginal(m.path) /\ \E item \in Nat : m.path = raw_name(item, m.page, "pdf")}
Row == [item : Nat, path : Path, kind : ContentKind \cup {None}]
ParserInv ==
    /\ raw \in Seq(GoodMessage)
    /\ parsed \in [Page -> Row]
    /\ parser \in [at : {"idle", "created"}, message : GoodMessage \cup {NoMessage}]
    /\ parser.at = "created" => parser.message \in GoodMessage /\ raw # <<>>
    /\ parser.at = "idle" /\ parser.message.kind = "pdf" /\ parser.message.path # <<>> =>
          parsed[parser.message.page].path = parser.message.path /\ parsed[parser.message.page].kind = "pdf"

PageInv == CrawlInv /\ ToldInv /\ ParserInv

-----------------------------------------------------------------------------
(* What every step keeps. *)

Said == {None, "failed", "skipped", "completed", "passed", "escalated", "needs_review"}

Grow ==
    /\ situation' = situation /\ faults \subseteq faults'
    /\ \A q \in Page : crawl_log[q] \subseteq crawl_log'[q] /\ (crawl[q].crashed => crawl'[q].crashed)
    /\ \A item \in Nat, q \in Page : IsOriginal(raw_name(item, q, "pdf")) => IsOriginal(raw_name(item, q, "pdf"))'

LEMMA OkGrows ==
    ASSUME Grow, NEW q \in Page
    PROVE  (FailOK(q) => FailOK(q)') /\ (PassOK(q) => PassOK(q)')
  BY DEF Grow, FailOK, PassOK

LEMMA FactsKept ==
    ASSUME CrawlInv, Grow, NEW q \in Page,
           \/ crawl'[q].kind # "pdf"
           \/ crawl'[q].kind = crawl[q].kind /\ crawl'[q].path = crawl[q].path /\ crawl'[q].item = crawl[q].item
    PROVE  Facts(q) \subseteq Facts(q)'
  <1>1. Kept(q) => Kept(q)'
    <2>1. crawl[q].item \in Nat
      BY DEF CrawlInv, Task
    <2> QED BY <2>1 DEF Grow, Kept
  <1>2. IsDark = IsDark'
    BY DEF Grow, IsDark
  <1> QED BY <1>1, <1>2, OkGrows DEF Facts

LEMMA EventsKept == ASSUME Grow PROVE LoggedEvent \subseteq LoggedEvent'
  <1> SUFFICES ASSUME NEW e \in Event, e.stage = "site_finished", e.url # None,
                      IF e.state = "failed" THEN FailOK(e.url) ELSE PassOK(e.url)
               PROVE  IF e.state = "failed" THEN FailOK(e.url)' ELSE PassOK(e.url)'
    BY DEF LoggedEvent
  <1>1. e.url \in Page
    BY DEF Event
  <1> QED BY <1>1, OkGrows

LEMMA MessagesKept == ASSUME Grow PROVE GoodMessage \subseteq GoodMessage'
  BY DEF Grow, GoodMessage, Message

LEMMA SeqGrows == ASSUME NEW S, NEW T, S \subseteq T, NEW s \in Seq(S) PROVE s \in Seq(T)
  OBVIOUS

-----------------------------------------------------------------------------
(* A step of a page. *)

LEMMA TaskStep ==
    ASSUME CrawlInv, Grow, NEW p \in Page, NEW t \in Task, crawl' = [crawl EXCEPT ![p] = t],
           crawl_log' \in [Page -> SUBSET Said], NEW K, K = Facts(p)', Sound(p, t.script, K)
    PROVE  CrawlInv'
  <1>1. crawl' \in [Page -> Task] /\ crawl'[p] = t /\ \A q \in Page : q # p => crawl'[q] = crawl[q]
    BY DEF CrawlInv
  <1>2. ASSUME NEW q \in Page PROVE Fine(q, crawl'[q].script, Facts(q)')
    <2>1. CASE q = p
      BY <1>1, <2>1 DEF Sound
    <2>2. CASE q # p
      <3>0. PICK s : s = crawl[q].script
        OBVIOUS
      <3>1. crawl'[q].script = s /\ Fine(q, s, Facts(q)) /\ s \in Seq(ScriptStep)
        BY <1>1, <2>2, <3>0 DEF CrawlInv, Task
      <3>2. Facts(q) \subseteq Facts(q)'
        BY <1>1, <2>2, FactsKept
      <3>3. PICK L, M : L = Facts(q) /\ M = Facts(q)'
        OBVIOUS
      <3>4. Sound(q, s, L) /\ L \subseteq M
        BY <3>1, <3>2, <3>3 DEF Sound
      <3>5. Sound(q, s, M)
        BY <3>4, SoundMonotone
      <3> QED BY <3>1, <3>3, <3>5 DEF Sound
    <2> QED BY <2>1, <2>2
  <1>3. situation' \in Situations
    BY DEF Grow, CrawlInv
  <1> QED BY <1>1, <1>2, <1>3 DEF CrawlInv, Said

LEMMA AtStep ==
    ASSUME CrawlInv, NEW p \in Page, NEW step, At(p, step)
    PROVE  /\ crawl[p] \in Task /\ Head(crawl[p].script) \in ScriptStep /\ Head(crawl[p].script).do = step
           /\ Ready(p, Head(crawl[p].script), Facts(p))
           /\ Sound(p, Rest(p), Facts(p) \cup Gives(Head(crawl[p].script)))
  <1>1. PICK s, K : s = crawl[p].script /\ K = Facts(p)
    OBVIOUS
  <1>2. crawl[p] \in Task /\ s # <<>> /\ Head(s).do = step /\ Sound(p, s, K)
    BY <1>1 DEF CrawlInv, Task, Sound, At
  <1>3. Head(s) \in ScriptStep /\ Ready(p, Head(s), K) /\ Sound(p, Tail(s), K \cup Gives(Head(s)))
    BY <1>2, SoundHead, SoundTail
  <1> QED BY <1>1, <1>2, <1>3 DEF Rest

\* Only the script changes.
LEMMA GoesStep ==
    ASSUME CrawlInv, Grow, NEW p \in Page, NEW s, Goes(p, s), UNCHANGED crawl_log, NEW K, K \subseteq Facts(p), Sound(p, s, K)
    PROVE  CrawlInv'
  <1>1. PICK t : t = [crawl[p] EXCEPT !.script = s]
    OBVIOUS
  <1>2. t \in Task /\ t.script = s /\ crawl' = [crawl EXCEPT ![p] = t] /\ crawl'[p] = t
    BY <1>1 DEF CrawlInv, Task, Sound, Goes
  <1>3. Facts(p) \subseteq Facts(p)'
    BY <1>1, <1>2, FactsKept DEF CrawlInv, Task
  <1>4. PICK L : L = Facts(p)'
    OBVIOUS
  <1>5. Sound(p, s, L)
    BY <1>3, <1>4, SoundMonotone
  <1>6. crawl_log' \in [Page -> SUBSET Said]
    BY DEF CrawlInv, Said
  <1> QED BY <1>2, <1>4, <1>5, <1>6, TaskStep

LEMMA EmptyScript == <<>> \in Seq(ScriptStep)
  OBVIOUS

LEMMA QueuedTyped == Queued \in Task /\ Queued.kind = "html" /\ Queued.script = <<>>
  <1>1. <<>> \in Path /\ "html" \in ContentKind /\ 0 \in Nat
    BY DEF Path, ContentKind
  <1> QED BY <1>1, EmptyScript DEF Queued, Task

LEMMA DeliverKeeps == ASSUME CrawlInv, Grow, NEW p \in Page, Deliver(p) PROVE CrawlInv'
  <1>1. PICK t : crawl' = [crawl EXCEPT ![p] = t]
                 /\ t = IF status \in TERMINAL_STATUSES THEN [Queued EXCEPT !.at = "settled", !.crashed = crawl[p].crashed]
                        ELSE [Queued EXCEPT !.at = "working", !.script = Started(p), !.item = crawl[p].item + 1,
                                            !.crashed = crawl[p].crashed]
    BY DEF Deliver, Of, DarkStarted
  <1>2. PICK K : K = Facts(p)'
    OBVIOUS
  <1>3. crawl'[p] = t
    BY <1>1 DEF CrawlInv
  <1>4. crawl[p] \in Task /\ crawl[p].item + 1 \in Nat /\ crawl[p].crashed \in BOOLEAN
    BY DEF CrawlInv, Task
  <1>5. t.kind = "html"
    BY <1>1 DEF Queued
  <1>6. "kept" \in K
    BY <1>2, <1>3, <1>5 DEF Facts, Kept
  <1>7. Sound(p, Started(p), K) /\ Sound(p, <<>>, K)
    BY <1>6, StartedSound, SoundNil
  <1>8. t \in Task /\ Sound(p, t.script, K)
    <2>1. Started(p) \in Seq(ScriptStep)
      BY <1>7 DEF Sound
    <2>2. CASE status \in TERMINAL_STATUSES
      <3>1. t = [Queued EXCEPT !.at = "settled", !.crashed = crawl[p].crashed]
        BY <1>1, <2>2
      <3>2. t \in Task /\ t.script = <<>>
        BY <1>4, <3>1, QueuedTyped DEF Task
      <3> QED BY <1>7, <3>2
    <2>3. CASE status \notin TERMINAL_STATUSES
      <3>1. t = [Queued EXCEPT !.at = "working", !.script = Started(p), !.item = crawl[p].item + 1,
                               !.crashed = crawl[p].crashed]
        BY <1>1, <2>3
      <3>2. t \in Task /\ t.script = Started(p)
        BY <1>4, <2>1, <3>1, QueuedTyped DEF Task
      <3> QED BY <1>7, <3>2
    <2> QED BY <2>2, <2>3
  <1>9. crawl_log' \in [Page -> SUBSET Said]
    BY DEF Deliver, CrawlInv, Said
  <1> QED BY <1>1, <1>2, <1>8, <1>9, TaskStep

LEMMA TellingKeeps == ASSUME CrawlInv, Grow, NEW p \in Page, publish_job_stage(p) PROVE CrawlInv'
  <1>1. PICK K, h, s : K = Facts(p) /\ h = Head(crawl[p].script) /\ s = Rest(p)
    OBVIOUS
  <1>2. crawl_log' = crawl_log
    BY DEF publish_job_stage
  <1>3. CASE At(p, "publish")
    <2>1. h \in ScriptStep /\ h.do = "publish" /\ Ready(p, h, K) /\ Sound(p, s, K \cup Gives(h))
      BY <1>1, <1>3, AtStep
    <2>2. Gives(h) = {}
      BY <2>1 DEF Gives, LogsFailed, LogsPassed
    <2>3. Sound(p, s, K)
      BY <2>1, <2>2
    <2>4. [h EXCEPT !.do = "push"] \in ScriptStep /\ Ready(p, [h EXCEPT !.do = "push"], K)
      BY <2>1 DEF ScriptStep, Ready, TellsEnd
    <2>5. Sound(p, <<[h EXCEPT !.do = "push"]>> \o s, K)
      BY <2>3, <2>4, SoundCons
    <2>6. Goes(p, <<[h EXCEPT !.do = "push"]>> \o s) \/ Goes(p, s)
      BY <1>1, <1>3, <2>1 DEF publish_job_stage, At
    <2> QED BY <1>1, <1>2, <2>3, <2>5, <2>6, GoesStep
  <1>4. CASE At(p, "push")
    <2>1. h \in ScriptStep /\ h.do = "push" /\ Sound(p, s, K \cup Gives(h))
      BY <1>1, <1>4, AtStep
    <2>2. Gives(h) = {}
      BY <2>1 DEF Gives, LogsFailed, LogsPassed
    <2>3. Sound(p, s, K)
      BY <2>1, <2>2
    <2>4. Goes(p, s)
      BY <1>1, <1>4, <2>1 DEF publish_job_stage, At
    <2> QED BY <1>1, <1>2, <2>3, <2>4, GoesStep
  <1> QED BY <1>3, <1>4 DEF publish_job_stage

\* A step of another kind leaves a script that is sound without it.
LEMMA RestSound ==
    ASSUME CrawlInv, NEW p \in Page, NEW step \in {"children", "dead_letter", "save", "fail_job", "send"}, At(p, step),
           NEW s, s = Rest(p), NEW K, K = Facts(p)
    PROVE  Sound(p, s, K)
  <1>1. PICK h : h = Head(crawl[p].script)
    OBVIOUS
  <1>2. h \in ScriptStep /\ h.do = step /\ Sound(p, s, K \cup Gives(h))
    BY <1>1, AtStep
  <1>3. Gives(h) = {}
    BY <1>2 DEF Gives, LogsFailed, LogsPassed
  <1> QED BY <1>2, <1>3

LEMMA PolitenessKeeps == ASSUME CrawlInv, Grow, NEW p \in Page, PolitenessService(p) PROVE CrawlInv'
  <1>1. PICK K : K = Facts(p)
    OBVIOUS
  <1>2. Ready(p, Head(crawl[p].script), K) /\ Head(crawl[p].script).do = "robots"
    BY <1>1, AtStep DEF PolitenessService
  <1>3. "kept" \in K
    BY <1>2 DEF Ready
  <1>4. PICK kind : kind = classify_url(p)
    OBVIOUS
  <1>5. /\ Sound(p, Disallowed(p), K) /\ Sound(p, Fetching(p), K) /\ Sound(p, process_non_html_content(p, kind), K)
        /\ Sound(p, DarkDisallowed(p), K) /\ Sound(p, DarkFetching(p), K) /\ Sound(p, DarkNonHtml(p, kind), K)
    BY <1>3, DisallowedSound, FetchingSound, NonHtmlSound DEF DarkDisallowed, DarkFetching, DarkNonHtml
  <1>6. PICK s \in {Disallowed(p), Fetching(p), process_non_html_content(p, kind),
                    DarkDisallowed(p), DarkFetching(p), DarkNonHtml(p, kind)} : Goes(p, s) /\ crawl_log' = crawl_log
    BY <1>4 DEF PolitenessService, Continues, Of
  <1>7. Sound(p, s, K)
    BY <1>5, <1>6
  <1> QED BY <1>1, <1>6, <1>7, GoesStep

LEMMA FetchKeeps == ASSUME CrawlInv, Grow, NEW p \in Page, fetch_with_agent_rotation(p) PROVE CrawlInv'
  <1>1. PICK K, L : K = Facts(p) /\ L = Facts(p)'
    OBVIOUS
  <1>2. Ready(p, Head(crawl[p].script), K) /\ Head(crawl[p].script).do = "fetch"
    BY <1>1, AtStep DEF fetch_with_agent_rotation
  <1>3. "kept" \in K /\ (~IsDark => "surface" \in K)
    BY <1>1, <1>2 DEF Ready, Facts
  <1>4. PICK a, s, r : /\ r \in BOOLEAN /\ s = Of(Fetched(p, a), DarkFetched(p, a))
                       /\ crawl' = [crawl EXCEPT ![p].script = s, ![p].rerouted = r]
    <2>1. PICK a \in situation.answers :
             crawl' = [crawl EXCEPT ![p].script = Of(Fetched(p, a), DarkFetched(p, a)),
                                    ![p].rerouted = ~IsDark /\ Reroutes(a)]
      BY DEF fetch_with_agent_rotation
    <2>2. PICK s : s = Of(Fetched(p, a), DarkFetched(p, a))
      OBVIOUS
    <2>3. PICK r \in BOOLEAN : r = (~IsDark /\ Reroutes(a))
      OBVIOUS
    <2> QED BY <2>1, <2>2, <2>3
  <1>5. Sound(p, s, K)
    BY <1>3, <1>4, FetchedSound, DarkFetchedSound DEF Of
  <1>6. PICK t : t = [crawl[p] EXCEPT !.script = s, !.rerouted = r]
    OBVIOUS
  <1>7. crawl' = [crawl EXCEPT ![p] = t] /\ t \in Task /\ crawl'[p] = t
    BY ZenonT(40), <1>4, <1>5, <1>6 DEF CrawlInv, Task, Sound
  <1>8. t.kind = crawl[p].kind /\ t.path = crawl[p].path /\ t.item = crawl[p].item /\ t.script = s
    BY <1>6 DEF CrawlInv, Task
  <1>9. K \subseteq L
    BY <1>1, <1>7, <1>8, FactsKept
  <1>10. Sound(p, t.script, L)
    BY <1>5, <1>8, <1>9, SoundMonotone
  <1>11. crawl_log' \in [Page -> SUBSET Said]
    BY DEF fetch_with_agent_rotation, CrawlInv, Said
  <1> QED BY <1>1, <1>7, <1>10, <1>11, TaskStep

LEMMA HandOffKeeps == ASSUME CrawlInv, Grow, NEW p \in Page, hand_off_audio(p) PROVE CrawlInv'
  <1>1. PICK K : K = Facts(p)
    OBVIOUS
  <1>2. PICK done \in BOOLEAN : Goes(p, HandedOff(p, done)) /\ crawl_log' = crawl_log
    BY DEF hand_off_audio, Continues, Of, DarkHandedOff
  <1>3. Sound(p, HandedOff(p, done), K)
    BY HandedOffSound
  <1> QED BY <1>1, <1>2, <1>3, GoesStep

LEMMA EscalateKeeps == ASSUME CrawlInv, Grow, NEW p \in Page, escalate_to_deep(p) PROVE CrawlInv'
  <1>1. PICK K, L : K = Facts(p) /\ L = Facts(p)'
    OBVIOUS
  <1>2. crawl_log' = crawl_log
    BY DEF escalate_to_deep
  <1>3. CASE Goes(p, Of(Exhausted(p), DarkExhausted(p)))
    <2>1. Ready(p, Head(crawl[p].script), K) /\ Head(crawl[p].script).do = "escalate"
      BY <1>1, AtStep DEF escalate_to_deep
    <2>2. IsDark => "failed" \in K
      BY <1>1, <2>1 DEF Ready, Facts
    <2>3. PICK s : s = Of(Exhausted(p), DarkExhausted(p)) /\ Goes(p, s)
      BY <1>3
    <2>4. Sound(p, s, K)
      BY <2>2, <2>3, ExhaustedSound, DarkExhaustedSound DEF Of
    <2> QED BY <1>1, <1>2, <2>3, <2>4, GoesStep
  <1>4. CASE crawl' = [crawl EXCEPT ![p].at = "escalated", ![p].script = <<>>]
    <2>1. PICK t : t = [crawl[p] EXCEPT !.at = "escalated", !.script = <<>>]
      OBVIOUS
    <2>2. t \in Task /\ t.script = <<>> /\ crawl' = [crawl EXCEPT ![p] = t]
      BY <1>4, <2>1, EmptyScript DEF CrawlInv, Task
    <2>3. Sound(p, t.script, L)
      BY <2>2, SoundNil
    <2>4. crawl_log' \in [Page -> SUBSET Said]
      BY <1>2 DEF CrawlInv, Said
    <2> QED BY <1>1, <2>2, <2>3, <2>4, TaskStep
  <1> QED BY <1>3, <1>4 DEF escalate_to_deep

LEMMA IngestKeeps == ASSUME CrawlInv, Grow, NEW p \in Page, fetch_and_extract(p) PROVE CrawlInv'
  <1>1. PICK K, L : K = Facts(p) /\ L = Facts(p)'
    OBVIOUS
  <1>2. crawl_log' = crawl_log
    BY DEF fetch_and_extract
  <1>3. CASE Goes(p, Of(IngestFailed(p), DarkIngestFailed(p)))
    <2>1. Goes(p, IngestFailed(p)) /\ Sound(p, IngestFailed(p), K)
      BY <1>3, IngestFailedSound DEF Of, DarkIngestFailed
    <2> QED BY <1>1, <1>2, <2>1, GoesStep
  <1>4. ASSUME NEW a \in situation.answers, a.kind \in {"pdf", "html"},
               crawl' = [crawl EXCEPT ![p].script = Of(Ingested(p), DarkIngested(p)), ![p].kind = a.kind]
        PROVE  CrawlInv'
    <2>1. PICK t : t = [crawl[p] EXCEPT !.script = Ingested(p), !.kind = a.kind]
      OBVIOUS
    <2>2. Sound(p, Ingested(p), L)
      BY IngestedSound
    <2>3. t \in Task /\ t.script = Ingested(p) /\ crawl' = [crawl EXCEPT ![p] = t]
      BY ZenonT(40), <1>4, <2>1, <2>2 DEF CrawlInv, Task, Of, DarkIngested, ContentKind, Sound
    <2>4. crawl_log' \in [Page -> SUBSET Said]
      BY <1>2 DEF CrawlInv, Said
    <2> QED BY <1>1, <2>2, <2>3, <2>4, TaskStep
  <1> QED BY <1>3, <1>4 DEF fetch_and_extract

LEMMA LoggingKeeps == ASSUME CrawlInv, Grow, NEW p \in Page, record_crawl_log(p) PROVE CrawlInv'
  <1>1. PICK K, L, h, s : K = Facts(p) /\ L = Facts(p)' /\ h = Head(crawl[p].script) /\ s = Rest(p)
    OBVIOUS
  <1>2. h \in ScriptStep /\ h.do = "log" /\ Sound(p, s, K \cup Gives(h)) /\ h.say \in Said
    BY <1>1, AtStep DEF record_crawl_log, ScriptStep, Said
  <1>3. PICK t : t = [crawl[p] EXCEPT !.script = s, !.said = h.say]
    OBVIOUS
  <1>4. t \in Task /\ t.script = s /\ crawl' = [crawl EXCEPT ![p] = t] /\ crawl'[p] = t
    BY ZenonT(40), <1>1, <1>2, <1>3 DEF CrawlInv, Task, record_crawl_log, Said, Sound, Rest
  <1>5. crawl_log' \in [Page -> SUBSET Said] /\ h.say \in crawl_log'[p]
    BY <1>1, <1>2 DEF CrawlInv, record_crawl_log, Said
  <1>6. K \subseteq L
    BY <1>1, <1>3, <1>4, FactsKept DEF CrawlInv, Task
  <1>7. Gives(h) \subseteq L
    <2>1. LogsFailed(h) => FailOK(p)'
      BY <1>5 DEF LogsFailed, FailOK
    <2>2. LogsPassed(h) => PassOK(p)'
      BY <1>5 DEF LogsPassed, PassOK
    <2> QED BY <1>1, <1>2, <2>1, <2>2 DEF Gives, Facts
  <1>8. Sound(p, t.script, L)
    BY <1>2, <1>4, <1>6, <1>7, SoundMonotone
  <1> QED BY <1>1, <1>4, <1>5, <1>8, TaskStep

LEMMA ElsewhereKeeps == ASSUME CrawlInv, Grow, NEW p \in Page, Elsewhere(p) PROVE CrawlInv'
  <1>1. PICK K, s : K = Facts(p) /\ s = Rest(p)
    OBVIOUS
  <1>2. Goes(p, s) /\ crawl_log' = crawl_log
    BY <1>1 DEF Elsewhere, Continues
  <1>3. Sound(p, s, K)
    BY <1>1, RestSound DEF Elsewhere
  <1> QED BY <1>1, <1>2, <1>3, GoesStep

LEMMA SaveKeeps == ASSUME CrawlInv, Grow, NEW p \in Page, save_to_minio(p) PROVE CrawlInv'
  <1>1. PICK K, s : K = Facts(p) /\ s = Rest(p)
    OBVIOUS
  <1>2. Goes(p, s) /\ crawl_log' = crawl_log
    BY <1>1 DEF save_to_minio
  <1>3. Sound(p, s, K)
    BY <1>1, RestSound DEF save_to_minio
  <1> QED BY <1>1, <1>2, <1>3, GoesStep

LEMMA SendKeeps == ASSUME CrawlInv, Grow, NEW p \in Page, Send(p) PROVE CrawlInv'
  <1>1. PICK K, s : K = Facts(p) /\ s = Rest(p)
    OBVIOUS
  <1>2. Goes(p, s) /\ crawl_log' = crawl_log
    BY <1>1 DEF Send
  <1>3. Sound(p, s, K)
    BY <1>1, RestSound DEF Send
  <1> QED BY <1>1, <1>2, <1>3, GoesStep

LEMMA FailJobKeeps == ASSUME CrawlInv, Grow, NEW p \in Page, Fail_job(p) PROVE CrawlInv'
  <1>1. PICK K, s : K = Facts(p) /\ s = Rest(p)
    OBVIOUS
  <1>2. Goes(p, s) /\ crawl_log' = crawl_log
    BY <1>1 DEF Fail_job
  <1>3. Sound(p, s, K)
    BY <1>1, RestSound DEF Fail_job
  <1> QED BY <1>1, <1>2, <1>3, GoesStep

LEMMA ArchiveKeeps == ASSUME CrawlInv, Grow, NEW p \in Page, Archive(p) PROVE CrawlInv'
  <1>1. PICK K, L, h, s : K = Facts(p) /\ L = Facts(p)' /\ h = Head(crawl[p].script) /\ s = Rest(p)
    OBVIOUS
  <1>2. h \in ScriptStep /\ h.do = "archive" /\ Sound(p, s, K \cup Gives(h))
    BY <1>1, AtStep DEF Archive
  <1>3. Gives(h) = {"kept"}
    BY <1>2 DEF Gives, LogsFailed, LogsPassed
  <1>4. PICK name, t :
           /\ name \in Path /\ name = raw_name(crawl[p].item, p, crawl[p].kind)
           /\ \/ t = [crawl[p] EXCEPT !.script = s, !.path = name] /\ Put([name |-> name, holds |-> "original"])
              \/ t = [crawl[p] EXCEPT !.script = s, !.path = <<>>] /\ "archive" \in faults'
           /\ crawl' = [crawl EXCEPT ![p] = t]
    <2>1. PICK name : name = raw_name(crawl[p].item, p, crawl[p].kind)
      OBVIOUS
    <2>2. name \in Path
      BY <2>1 DEF CrawlInv, Task, Path
    <2>3. CASE Put([name |-> name, holds |-> "original"]) /\ crawl' = [crawl EXCEPT ![p].script = Tail(@), ![p].path = name]
      BY <1>1, <2>1, <2>2, <2>3 DEF Rest, CrawlInv
    <2>4. CASE Fault("archive") /\ crawl' = [crawl EXCEPT ![p].script = Tail(@), ![p].path = <<>>]
      BY <1>1, <2>1, <2>2, <2>4 DEF Fault, Rest, CrawlInv
    <2> QED BY <2>1, <2>2, <2>3, <2>4 DEF Archive
  <1>5. t \in Task /\ t.script = s /\ t.kind = crawl[p].kind /\ t.item = crawl[p].item /\ crawl'[p] = t
    <2>1. crawl[p] \in Task /\ crawl'[p] = t /\ s \in Seq(ScriptStep) /\ name \in Path
      BY <1>2, <1>4 DEF CrawlInv, Sound
    <2>2. <<>> \in Path
      BY DEF Path
    <2>3. CASE t = [crawl[p] EXCEPT !.script = s, !.path = name]
      BY <2>1, <2>3 DEF Task
    <2>4. CASE t = [crawl[p] EXCEPT !.script = s, !.path = <<>>]
      BY <2>1, <2>2, <2>4 DEF Task
    <2> QED BY <1>4, <2>3, <2>4
  <1>6. "kept" \in L
    <2>1. Kept(p)'
      <3>1. CASE t = [crawl[p] EXCEPT !.script = s, !.path = name] /\ Put([name |-> name, holds |-> "original"])
        <4>1. t.path = name /\ [name |-> name, holds |-> "original"] \in objects'
          BY <3>1 DEF CrawlInv, Task, Put
        <4>2. t.path = raw_name(t.item, p, t.kind)
          BY <1>4, <1>5, <4>1
        <4>3. crawl'[p].path # <<>>
          BY <1>5, <4>2 DEF raw_name
        <4>4. crawl'[p].kind = "pdf" => crawl'[p].path = raw_name(crawl'[p].item, p, "pdf")
          BY <1>5, <4>2
        <4> QED BY <1>5, <4>1, <4>3, <4>4 DEF Kept, IsOriginal
      <3>2. CASE t = [crawl[p] EXCEPT !.script = s, !.path = <<>>] /\ "archive" \in faults'
        <4>1. crawl'[p].path = <<>>
          BY <1>5, <3>2 DEF CrawlInv, Task
        <4> QED BY <3>2, <4>1 DEF Kept
      <3> QED BY <1>4, <3>1, <3>2
    <2> QED BY <1>1, <2>1 DEF Facts
  <1>7. K \ {"kept"} \subseteq L
    <2>1. IsDark = IsDark'
      BY DEF Grow, IsDark
    <2> QED BY <1>1, <2>1, OkGrows DEF Facts
  <1>8. Sound(p, t.script, L)
    <2>1. K \cup Gives(h) \subseteq L
      BY <1>3, <1>6, <1>7
    <2> QED BY <1>2, <1>5, <2>1, SoundMonotone
  <1>9. crawl_log' \in [Page -> SUBSET Said]
    BY DEF Archive, CrawlInv, Said
  <1> QED BY <1>1, <1>4, <1>5, <1>8, <1>9, TaskStep

LEMMA RaiseKeeps == ASSUME CrawlInv, Grow, NEW p \in Page, Raise(p) PROVE CrawlInv'
  <1>1. PICK L : L = Facts(p)'
    OBVIOUS
  <1>2. crawl_log' \in [Page -> SUBSET Said]
    BY DEF Raise, CrawlInv, Said
  <1>3. crawl[p] \in Task
    BY DEF CrawlInv
  <1>4. CASE IsDark
    <2>1. PICK t : t = [crawl[p] EXCEPT !.script = DarkCrashed(p), !.crashed = TRUE]
      OBVIOUS
    <2>2. crawl' = [crawl EXCEPT ![p] = t] /\ crawl'[p] = t /\ t.crashed /\ t.script = DarkCrashed(p)
      BY <1>3, <1>4, <2>1 DEF Raise, CrawlInv, Task
    <2>3. "failed" \in L
      BY <1>1, <2>2 DEF Facts, FailOK
    <2>4. Sound(p, DarkCrashed(p), L)
      BY <2>3, DarkCrashedSound
    <2>5. t \in Task
      BY <1>3, <2>1, <2>4 DEF Task, Sound
    <2> QED BY <1>1, <1>2, <2>2, <2>4, <2>5, TaskStep
  <1>5. CASE ~IsDark
    <2>1. PICK t : t = SurfaceRaised(p)
      OBVIOUS
    <2>2. Sound(p, <<Tell(p, "fetching", "failed")>> \o HardFailure(p), L) /\ Sound(p, <<>>, L)
      BY RaisedSound, SoundNil
    <2>3. crawl' = [crawl EXCEPT ![p] = t]
      BY <1>5, <2>1 DEF Raise
    <2>4. t \in Task /\ Sound(p, t.script, L)
      BY <1>3, <2>1, <2>2 DEF SurfaceRaised, Task, Sound
    <2> QED BY <1>1, <1>2, <2>3, <2>4, TaskStep
  <1> QED BY <1>4, <1>5

LEMMA SettleKeeps == ASSUME CrawlInv, Grow, NEW p \in Page, Settle(p) \/ Kill(p) PROVE CrawlInv'
  <1>1. PICK L : L = Facts(p)'
    OBVIOUS
  <1>2. PICK at \in {"settled", "queued", "lost"} : crawl' = [crawl EXCEPT ![p].at = at, ![p].script = <<>>]
    <2>1. CASE Settle(p)
      <3>1. crawl' = [crawl EXCEPT ![p].at = "settled", ![p].script = <<>>]
        BY <2>1 DEF Settle, CrawlInv, Task
      <3> QED BY <3>1
    <2>2. CASE Kill(p)
      BY <2>2 DEF Kill
    <2> QED BY <2>1, <2>2
  <1>3. PICK t : t = [crawl[p] EXCEPT !.at = at, !.script = <<>>]
    OBVIOUS
  <1>4. t \in Task /\ t.script = <<>> /\ crawl' = [crawl EXCEPT ![p] = t]
    BY <1>2, <1>3, EmptyScript DEF CrawlInv, Task
  <1>5. Sound(p, t.script, L)
    BY <1>4, SoundNil
  <1>6. crawl_log' \in [Page -> SUBSET Said]
    BY DEF Settle, Kill, CrawlInv, Said
  <1> QED BY <1>1, <1>4, <1>5, <1>6, TaskStep

-----------------------------------------------------------------------------
(* What is told. *)

LEMMA ToldStays ==
    ASSUME ToldInv, Grow, LiveTyped', UNCHANGED <<history, channel, listener, server, view>>
    PROVE  ToldInv'
  <1>1. LoggedEvent \subseteq LoggedEvent'
    BY EventsKept
  <1>2. /\ history' \in Seq(LoggedEvent') /\ channel' \in Seq(LoggedEvent')
        /\ \A c \in Conn : server'[c].replay \in Seq(LoggedEvent')
    BY <1>1, SeqGrows DEF ToldInv
  <1>3. \A q \in Page : /\ view'.sites[q] = "failed" => FailOK(q)'
                        /\ view'.sites[q] = "passed" => PassOK(q)'
    BY OkGrows DEF ToldInv
  <1> QED BY <1>1, <1>2, <1>3 DEF ToldInv

LEMMA JobEventLogged == JobEvent \in LoggedEvent
  BY DEF JobEvent, LoggedEvent, Event

LEMMA PublishedLogged ==
    ASSUME NEW S, channel \in Seq(S), NEW e \in S
    PROVE  Published(e) \in Seq(S)
  BY DEF Published

LEMMA PushedLogged ==
    ASSUME NEW S, history \in Seq(S), NEW e \in S
    PROVE  Pushed(e) \in Seq(S)
  <1> DEFINE s == Append(history, e)
  <1>1. s \in Seq(S) /\ Len(s) \in Nat
    OBVIOUS
  <1> HIDE DEF s
  <1>2. JOB_HISTORY_MAX_LINES \in Nat \ {0}
    BY LiveAssumption
  <1>3. Len(s) > JOB_HISTORY_MAX_LINES =>
          /\ Len(s) - JOB_HISTORY_MAX_LINES + 1 \in 1..Len(s) + 1
          /\ \A n \in (Len(s) - JOB_HISTORY_MAX_LINES + 1)..Len(s) : n \in 1..Len(s) /\ s[n] \in S
    BY <1>1, <1>2
  <1>4. Trim(s) \in Seq(S)
    BY <1>1, <1>2, <1>3, SubSeqProperties DEF Trim
  <1> QED BY <1>4 DEF Pushed, s

\* Redis is told one event.
LEMMA ToldMore ==
    ASSUME ToldInv, Grow, LiveTyped', NEW e \in LoggedEvent, UNCHANGED <<listener, server, view>>,
           channel' \in {channel, Published(e)}, history' \in {history, Pushed(e)}
    PROVE  ToldInv'
  <1>1. LoggedEvent \subseteq LoggedEvent'
    BY EventsKept
  <1>2. Published(e) \in Seq(LoggedEvent) /\ Pushed(e) \in Seq(LoggedEvent)
    BY PublishedLogged, PushedLogged DEF ToldInv
  <1>3. /\ history' \in Seq(LoggedEvent') /\ channel' \in Seq(LoggedEvent')
        /\ \A c \in Conn : server'[c].replay \in Seq(LoggedEvent')
    BY <1>1, <1>2, SeqGrows DEF ToldInv
  <1>4. \A q \in Page : /\ view'.sites[q] = "failed" => FailOK(q)'
                        /\ view'.sites[q] = "passed" => PassOK(q)'
    BY OkGrows DEF ToldInv
  <1> QED BY <1>1, <1>3, <1>4 DEF ToldInv

LEMMA TellingTold == ASSUME CrawlInv, ToldInv, Grow, LiveTyped', NEW p \in Page, publish_job_stage(p) PROVE ToldInv'
  <1>1. PICK K, h : K = Facts(p) /\ h = Head(crawl[p].script)
    OBVIOUS
  <1>2. h \in ScriptStep /\ h.do \in {"publish", "push"} /\ Ready(p, h, K)
    BY <1>1, AtStep DEF publish_job_stage
  <1>3. h.event \in LoggedEvent
    <2>1. h.event \in Event
      BY <1>2 DEF ScriptStep
    <2>2. ("failed" \in K => FailOK(p)) /\ ("passed" \in K => PassOK(p))
      BY <1>1 DEF Facts
    <2> QED BY <1>2, <2>1, <2>2 DEF LoggedEvent, Ready, TellsEnd
  <1>4. /\ UNCHANGED <<listener, server, view>>
        /\ channel' \in {channel, Published(h.event)} /\ history' \in {history, Pushed(h.event)}
    BY <1>1 DEF publish_job_stage, Unseen, pageVars
  <1> QED BY <1>3, <1>4, ToldMore

\* The page is shown an event that has been logged.
LEMMA ShownLogged ==
    ASSUME ToldInv, Grow, NEW e \in LoggedEvent, onEvent(e)
    PROVE  /\ view' \in View
           /\ \A q \in Page : /\ view'.sites[q] = "failed" => FailOK(q)'
                              /\ view'.sites[q] = "passed" => PassOK(q)'
  <1>1. PICK sites : sites = Shown(view.sites, e)
    OBVIOUS
  <1>2. PICK refresh \in BOOLEAN : refresh = (view.refresh \/ (situation.loads > 0 /\ e.stage \in {"parsing", "event"}))
    BY DEF ToldInv, LiveTyped, View
  <1>3. view' = [view EXCEPT !.sites = sites, !.refresh = refresh]
    BY <1>1, <1>2 DEF onEvent
  <1>4. /\ sites \in [Page -> {None, "active", "failed", "passed"}]
        /\ \A q \in Page : /\ sites[q] = "failed" => FailOK(q)
                           /\ sites[q] = "passed" => PassOK(q)
    BY <1>1 DEF ToldInv, LiveTyped, View, Shown, LoggedEvent, Event
  <1>5. view' \in View /\ view'.sites = sites
    BY <1>3, <1>4 DEF ToldInv, LiveTyped, View
  <1> QED BY <1>4, <1>5, OkGrows

\* What a step of the API or of the browser has to show.
LEMMA LiveTold ==
    ASSUME ToldInv, Grow, LiveTyped', UNCHANGED history, channel' \in Seq(LoggedEvent), listener'.event \in LoggedEvent,
           \A c \in Conn : server'[c].replay \in Seq(LoggedEvent),
           (\E e \in LoggedEvent : onEvent(e)) \/ view'.sites = view.sites
    PROVE  ToldInv'
  <1>1. LoggedEvent \subseteq LoggedEvent'
    BY EventsKept
  <1>2. /\ history' \in Seq(LoggedEvent') /\ channel' \in Seq(LoggedEvent')
        /\ \A c \in Conn : server'[c].replay \in Seq(LoggedEvent')
    BY <1>1, SeqGrows DEF ToldInv
  <1>3. \A q \in Page : /\ view'.sites[q] = "failed" => FailOK(q)'
                        /\ view'.sites[q] = "passed" => PassOK(q)'
    BY OkGrows, ShownLogged DEF ToldInv
  <1> QED BY <1>1, <1>2, <1>3 DEF ToldInv

-----------------------------------------------------------------------------
(* The listener, the sockets and the browser. *)

LEMMA ConnsFinite == ASSUME conns \subseteq Conn PROVE Cardinality(conns) \in Nat
  <1>1. IsFiniteSet(Conn)
    BY FS_Interval, LiveAssumption DEF Conn
  <1> QED BY <1>1, FS_Subset, FS_CardinalityType

LEMMA OffTyped == Off \in Listener /\ Off.event = JobEvent
  BY JobEventLogged DEF Off, Listener, LoggedEvent

LEMMA SubscribeTold == ASSUME ToldInv, Grow, Subscribe \/ RedisDrops PROVE ToldInv'
  <1>1. PICK at \in {"listening", "connecting"} : listener' = [listener EXCEPT !.at = at]
    BY DEF Subscribe, RedisDrops
  <1>2. listener' \in Listener /\ listener'.event = listener.event
    BY <1>1 DEF ToldInv, LiveTyped, Listener
  <1>3. LiveTyped' /\ UNCHANGED <<history, server, view>> /\ channel' = <<>>
    BY <1>2 DEF ToldInv, LiveTyped, Subscribe, RedisDrops, pageVars
  <1> QED BY <1>2, <1>3, LiveTold DEF ToldInv

LEMMA ReceiveTold == ASSUME ToldInv, Grow, Receive PROVE ToldInv'
  <1>1. Head(channel) \in LoggedEvent /\ Tail(channel) \in Seq(LoggedEvent)
    BY DEF ToldInv, Receive
  <1>2. Head(channel) \in Event
    BY <1>1 DEF LoggedEvent
  <1>3. listener' \in Listener /\ listener'.event \in LoggedEvent
    BY <1>1, <1>2, ConnsFinite DEF ToldInv, LiveTyped, Receive, Listener
  <1>4. LiveTyped' /\ UNCHANGED <<history, server, view>> /\ channel' \in Seq(LoggedEvent)
    BY <1>1, <1>3 DEF ToldInv, LiveTyped, Receive, pageVars
  <1> QED BY <1>3, <1>4, LiveTold DEF ToldInv

LEMMA BroadcastTold == ASSUME ToldInv, Grow, broadcast_job_update PROVE ToldInv'
  <1>0. UNCHANGED <<status, history, server, loads>>
    BY DEF broadcast_job_update
  <1>1. CASE listener' = Off /\ channel' = <<>> /\ UNCHANGED <<conns, view>>
    <2>1. LiveTyped'
      BY <1>0, <1>1, OffTyped DEF ToldInv, LiveTyped
    <2> QED BY <1>0, <1>1, <2>1, OffTyped, JobEventLogged, LiveTold DEF ToldInv
  <1>2. ASSUME NEW c \in conns, UNCHANGED <<channel, conns>>, Send_json(c, listener.event),
               listener' = [listener EXCEPT !.sent = @ \cup {c},
                                            !.dead = IF server[c].alive THEN @ ELSE @ \cup {c}]
        PROVE  ToldInv'
    <2>1. listener' \in Listener /\ listener'.event = listener.event
      BY <1>2 DEF ToldInv, LiveTyped, Listener
    <2>2. onEvent(listener.event) \/ UNCHANGED view
      BY <1>2 DEF Send_json
    <2>3. view' \in View
      BY <2>2, ShownLogged DEF ToldInv, LiveTyped
    <2>4. LiveTyped'
      BY <1>0, <1>2, <2>1, <2>3 DEF ToldInv, LiveTyped
    <2> QED BY <1>0, <1>2, <2>1, <2>2, <2>4, LiveTold DEF ToldInv
  <1>3. CASE listener' = [Off EXCEPT !.at = "listening"] /\ conns' = conns \ listener.dead /\ UNCHANGED <<channel, view>>
    <2>1. listener' \in Listener /\ listener'.event = JobEvent
      BY <1>3, OffTyped DEF Listener
    <2>2. LiveTyped'
      BY <1>0, <1>3, <2>1 DEF ToldInv, LiveTyped
    <2> QED BY <1>0, <1>3, <2>1, <2>2, JobEventLogged, LiveTold DEF ToldInv
  <1> QED BY <1>1, <1>2, <1>3 DEF broadcast_job_update

LEMMA ServeTold == ASSUME ToldInv, Grow, NEW c \in Conn, ReadHistory(c) \/ Replay(c) \/ Disconnect(c) PROVE ToldInv'
  <1>0. server[c] \in Server /\ server \in [Conn -> Server]
    BY DEF ToldInv, LiveTyped
  <1>1. LoggedEvent \subseteq Event
    BY DEF LoggedEvent
  <1>2. CASE ReadHistory(c)
    <2>1. history \in Seq(Event) /\ history \in Seq(LoggedEvent)
      BY <1>1, SeqGrows DEF ToldInv
    <2>2. PICK t : t = [server[c] EXCEPT !.at = "replay", !.replay = history]
      OBVIOUS
    <2>3. t \in Server /\ t.replay = history /\ server' = [server EXCEPT ![c] = t]
      BY <1>0, <1>2, <2>1, <2>2 DEF ReadHistory, Server
    <2>4. LiveTyped' /\ UNCHANGED <<history, channel, listener, view>>
      BY <1>0, <1>2, <2>3 DEF ReadHistory, ToldInv, LiveTyped, redisVars, pageVars
    <2>5. \A d \in Conn : server'[d].replay \in Seq(LoggedEvent)
      BY <1>0, <2>1, <2>3 DEF ToldInv
    <2> QED BY <2>4, <2>5, LiveTold DEF ToldInv
  <1>3. CASE Replay(c)
    <2>0. UNCHANGED <<status, history, channel, listener, conns, loads>>
      BY <1>3 DEF Replay, redisVars
    <2>1. CASE server[c].replay = <<>>
      <3>1. PICK t : t = [server[c] EXCEPT !.at = "open"]
        OBVIOUS
      <3>2. t \in Server /\ t.replay = server[c].replay /\ server' = [server EXCEPT ![c] = t] /\ UNCHANGED view
        BY <1>0, <1>3, <2>1, <3>1 DEF Replay, Server
      <3>3. LiveTyped'
        BY <1>0, <2>0, <3>2 DEF ToldInv, LiveTyped
      <3>4. \A d \in Conn : server'[d].replay \in Seq(LoggedEvent)
        BY <1>0, <3>2 DEF ToldInv
      <3> QED BY <2>0, <3>2, <3>3, <3>4, LiveTold DEF ToldInv
    <2>2. CASE server[c].replay # <<>>
      <3>1. PICK r, e : r = Tail(server[c].replay) /\ e = Head(server[c].replay)
        OBVIOUS
      <3>2. e \in LoggedEvent /\ r \in Seq(LoggedEvent) /\ r \in Seq(Event)
        <4>1. server[c].replay \in Seq(LoggedEvent)
          BY DEF ToldInv
        <4>2. e \in LoggedEvent /\ r \in Seq(LoggedEvent)
          BY <2>2, <3>1, <4>1
        <4> QED BY <1>1, <4>2, SeqGrows
      <3>3. PICK t : t = [server[c] EXCEPT !.replay = r]
        OBVIOUS
      <3>4. t \in Server /\ t.replay = r /\ server' = [server EXCEPT ![c] = t] /\ (onEvent(e) \/ UNCHANGED view)
        BY <1>0, <1>3, <2>2, <3>1, <3>2, <3>3 DEF Replay, Server, Send_json
      <3>5. view' \in View
        BY <3>2, <3>4, ShownLogged DEF ToldInv, LiveTyped
      <3>6. LiveTyped'
        BY <1>0, <2>0, <3>4, <3>5 DEF ToldInv, LiveTyped
      <3>7. \A d \in Conn : server'[d].replay \in Seq(LoggedEvent)
        BY <1>0, <3>2, <3>4 DEF ToldInv
      <3> QED BY <2>0, <3>2, <3>4, <3>6, <3>7, LiveTold DEF ToldInv
    <2> QED BY <2>1, <2>2
  <1>4. CASE Disconnect(c)
    <2>1. NoServer \in Server /\ NoServer.replay = <<>>
      <3>1. <<>> \in Seq(Event)
        OBVIOUS
      <3> QED BY <3>1 DEF NoServer, Server
    <2>2. listener' \in Listener /\ listener'.event = listener.event
      <3>1. Gone \in Nat
        BY LiveAssumption DEF Gone
      <3>2. listener' = listener \/ listener' = [listener EXCEPT !.size = Gone]
        BY <1>4 DEF Disconnect
      <3> QED BY <3>1, <3>2 DEF ToldInv, LiveTyped, Listener
    <2>3. server' = [server EXCEPT ![c] = NoServer] /\ UNCHANGED <<status, history, channel, view, loads>> /\ conns' = conns \ {c}
      BY <1>4 DEF Disconnect, redisVars, pageVars
    <2>4. LiveTyped'
      BY <1>0, <2>1, <2>2, <2>3 DEF ToldInv, LiveTyped
    <2>5. \A d \in Conn : server'[d].replay \in Seq(LoggedEvent)
      <3>1. <<>> \in Seq(LoggedEvent)
        OBVIOUS
      <3>2. \A d \in Conn : server'[d] = NoServer \/ server'[d] = server[d]
        BY <1>0, <2>3
      <3> QED BY <2>1, <3>1, <3>2 DEF ToldInv
    <2> QED BY <2>2, <2>3, <2>4, <2>5, LiveTold DEF ToldInv
  <1> QED BY <1>2, <1>3, <1>4

LEMMA SituationTyped ==
    ASSUME CrawlInv
    PROVE  /\ situation.conns \in 0..MaxConns /\ situation.loads \in Nat /\ situation.faults \subseteq FaultKind
           /\ situation.worker \in {"surface", "dark"}
  BY LiveAssumption, PageAssumption DEF CrawlInv

LEMMA BrowseTold == ASSUME CrawlInv, ToldInv, Grow, NEW quiet \in BOOLEAN, Browse(quiet) \/ Drop PROVE ToldInv'
  <1>1. situation.loads \in Nat /\ situation.conns \in 0..MaxConns
    BY SituationTyped
  <1>2. Ask \subseteq Load /\ [part |-> "items", answer |-> Items] \in Load
    BY DEF ToldInv, LiveTyped, Ask, Load, Items, None
  <1>3. CASE Open(quiet)
    <2>1. view' = [view EXCEPT !.opened = TRUE, !.late = quiet] /\ loads' \subseteq Load
      BY <1>2, <1>3 DEF Open, ToldInv, LiveTyped
    <2>2. view' \in View /\ view'.sites = view.sites
      BY <2>1 DEF ToldInv, LiveTyped, View
    <2>3. LiveTyped' /\ UNCHANGED <<history, channel, listener, server>>
      BY <1>3, <2>1, <2>2 DEF Open, ToldInv, LiveTyped, redisVars, apiVars
    <2> QED BY <2>2, <2>3, LiveTold DEF ToldInv
  <1>4. CASE Connect
    <2>1. PICK c, r, t : /\ c = view.conn + 1 /\ r = (situation.loads > 0)
                         /\ t = [at |-> "accepted", alive |-> TRUE, replay |-> <<>>]
      OBVIOUS
    <2>2. c \in Conn /\ r \in BOOLEAN /\ c \in 0..MaxConns
      BY <1>1, <1>4, <2>1, LiveAssumption DEF Connect, ToldInv, LiveTyped, View, Conn
    <2>3. view' = [view EXCEPT !.conn = c, !.up = TRUE, !.refresh = r]
      BY <1>4, <2>1 DEF Connect, ToldInv, LiveTyped, View
    <2>4. view' \in View /\ view'.sites = view.sites
      BY <2>2, <2>3 DEF ToldInv, LiveTyped, View
    <2>5. t \in Server /\ t.replay = <<>> /\ <<>> \in Seq(LoggedEvent)
      <3>1. <<>> \in Seq(Event) /\ <<>> \in Seq(LoggedEvent)
        OBVIOUS
      <3> QED BY <2>1, <3>1 DEF Server
    <2>6. server' = [server EXCEPT ![c] = t] /\ conns' = conns \cup {c} /\ UNCHANGED <<status, history, channel, loads>>
      BY <1>4, <2>1 DEF Connect, Accept, redisVars
    <2>7. listener' \in Listener /\ listener'.event \in LoggedEvent
      <3>1. listener' = listener \/ listener' = [Off EXCEPT !.at = "connecting"]
        BY <1>4 DEF Connect, Accept, start_job_updates_listener
      <3> QED BY <3>1, OffTyped, JobEventLogged DEF ToldInv, LiveTyped, Listener
    <2>8. LiveTyped'
      BY <2>2, <2>4, <2>5, <2>6, <2>7 DEF ToldInv, LiveTyped
    <2>9. \A d \in Conn : server'[d].replay \in Seq(LoggedEvent)
      <3>1. \A d \in Conn : server'[d] = t \/ server'[d] = server[d]
        BY <2>6 DEF ToldInv, LiveTyped
      <3> QED BY <2>5, <3>1 DEF ToldInv
    <2> QED BY <2>4, <2>6, <2>7, <2>8, <2>9, LiveTold DEF ToldInv
  <1>5. CASE Refresh
    <2>1. view' = [view EXCEPT !.refresh = FALSE] /\ loads' = Ask
      BY <1>5 DEF Refresh, load
    <2>2. view' \in View /\ view'.sites = view.sites
      BY <2>1 DEF ToldInv, LiveTyped, View
    <2>3. LiveTyped' /\ UNCHANGED <<history, channel, listener, server>>
      BY <1>2, <1>5, <2>1, <2>2 DEF Refresh, ToldInv, LiveTyped, redisVars, apiVars
    <2> QED BY <2>2, <2>3, LiveTold DEF ToldInv
  <1>6. CASE Poll
    <2>1. LiveTyped' /\ UNCHANGED <<history, channel, listener, server, view>>
      BY <1>2, <1>6 DEF Poll, load, ToldInv, LiveTyped, redisVars, apiVars
    <2> QED BY <2>1, LiveTold DEF ToldInv
  <1>7. ASSUME NEW l \in loads, Arrive(l) PROVE ToldInv'
    <2>1. l \in Load
      BY DEF ToldInv, LiveTyped
    <2>2. view' \in View /\ view'.sites = view.sites
      <3>1. CASE l.part = "job" /\ view' = [view EXCEPT !.status = l.answer]
        <4>1. l.answer \in Status
          BY <2>1, <3>1 DEF Load
        <4> QED BY <3>1, <4>1 DEF ToldInv, LiveTyped, View
      <3>2. CASE l.part = "items" /\ view' = [view EXCEPT !.items = l.answer]
        <4>1. l.answer \in {None, "some"}
          BY <2>1, <3>2 DEF Load
        <4> QED BY <3>2, <4>1 DEF ToldInv, LiveTyped, View
      <3>3. CASE view' = view
        BY <3>3 DEF ToldInv, LiveTyped
      <3> QED BY <1>7, <3>1, <3>2, <3>3 DEF Arrive
    <2>3. LiveTyped' /\ UNCHANGED <<history, channel, listener, server>>
      BY <1>2, <1>7, <2>2 DEF Arrive, ToldInv, LiveTyped, redisVars, apiVars
    <2> QED BY <2>2, <2>3, LiveTold DEF ToldInv
  <1>8. CASE Drop
    <2>1. view' = [view EXCEPT !.up = FALSE] /\ server' = [server EXCEPT ![view.conn].alive = FALSE]
          /\ UNCHANGED <<status, history, channel, listener, conns, loads>>
      BY <1>8 DEF Drop, redisVars
    <2>2. view' \in View /\ view'.sites = view.sites
      BY <2>1 DEF ToldInv, LiveTyped, View
    <2>3. server' \in [Conn -> Server] /\ \A d \in Conn : server'[d].replay = server[d].replay
      BY <2>1 DEF ToldInv, LiveTyped, Server
    <2>4. LiveTyped'
      BY <2>1, <2>2, <2>3 DEF ToldInv, LiveTyped
    <2>5. \A d \in Conn : server'[d].replay \in Seq(LoggedEvent)
      BY <2>3 DEF ToldInv
    <2> QED BY <2>1, <2>2, <2>4, <2>5, LiveTold DEF ToldInv
  <1> QED BY <1>3, <1>4, <1>5, <1>6, <1>7, <1>8 DEF Browse

LEMMA LiveTypedStays == ASSUME ToldInv, Unseen PROVE LiveTyped'
  BY DEF ToldInv, LiveTyped, Unseen, pageVars

\* The page's own steps tell something only in publish_job_stage and fail_job.
LEMMA CrawlTold == ASSUME CrawlInv, ToldInv, Grow, NEW p \in Page, Crawl(p) PROVE ToldInv'
  <1>1. CASE Silently
    <2>1. LiveTyped'
      BY <1>1, LiveTypedStays DEF Silently
    <2> QED BY <1>1, <2>1, ToldStays DEF Silently, Unseen, redisVars, pageVars
  <1>2. CASE publish_job_stage(p)
    <2>1. LiveTyped'
      BY <1>2, LiveTypedStays DEF publish_job_stage
    <2> QED BY <1>2, <2>1, TellingTold
  <1>3. CASE Fail_job(p)
    <2>1. LiveTyped'
      BY <1>3 DEF Fail_job, ToldInv, LiveTyped, Status, TERMINAL_STATUSES, pageVars
    <2>2. UNCHANGED <<listener, server, view>> /\ channel' = Published(JobEvent) /\ history' = history
      BY <1>3 DEF Fail_job, pageVars
    <2> QED BY <2>1, <2>2, JobEventLogged, ToldMore
  <1> QED BY <1>1, <1>2, <1>3 DEF Crawl, Deliver, PolitenessService, Continues, fetch_with_agent_rotation,
             hand_off_audio, escalate_to_deep, fetch_and_extract, record_crawl_log, Elsewhere, Archive, save_to_minio,
             Send, Raise, Settle, Kill

LEMMA CrawlKeeps == ASSUME CrawlInv, Grow, NEW p \in Page, Crawl(p) PROVE CrawlInv'
  BY DeliverKeeps, PolitenessKeeps, FetchKeeps, EscalateKeeps, HandOffKeeps, IngestKeeps, ArchiveKeeps, SendKeeps,
     ElsewhereKeeps, SaveKeeps, TellingKeeps, LoggingKeeps, RaiseKeeps, FailJobKeeps, SettleKeeps DEF Crawl

\* A step that leaves the pages alone.
LEMMA CrawlStays == ASSUME CrawlInv, Grow, UNCHANGED <<crawl, crawl_log>> PROVE CrawlInv'
  <1>1. ASSUME NEW q \in Page PROVE Fine(q, crawl'[q].script, Facts(q)')
    <2>1. PICK s, L, M : s = crawl[q].script /\ L = Facts(q) /\ M = Facts(q)'
      OBVIOUS
    <2>2. Sound(q, s, L) /\ L \subseteq M
      BY <2>1, FactsKept DEF CrawlInv, Task, Sound
    <2>3. Sound(q, s, M)
      BY <2>2, SoundMonotone
    <2> QED BY <2>1, <2>3 DEF Sound
  <1> QED BY <1>1 DEF CrawlInv, Grow

-----------------------------------------------------------------------------
(* The parser. *)

LEMMA ParserStays == ASSUME ParserInv, Grow, UNCHANGED <<raw, parsed, parser>> PROVE ParserInv'
  <1>1. raw' \in Seq(GoodMessage')
    BY MessagesKept, SeqGrows DEF ParserInv
  <1> QED BY <1>1, MessagesKept DEF ParserInv, Grow

LEMMA SendParsed == ASSUME CrawlInv, ParserInv, Grow, NEW p \in Page, Send(p) PROVE ParserInv'
  <1>1. PICK m : m = [page |-> p, item |-> crawl[p].item, kind |-> crawl[p].kind, path |-> crawl[p].path]
    OBVIOUS
  <1>2. crawl[p] \in Task /\ Kept(p)
    BY AtStep DEF Send, Ready, Facts
  <1>3. m \in GoodMessage
    BY <1>1, <1>2 DEF Task, Kept, GoodMessage, Message
  <1>4. raw' = Append(raw, m) /\ UNCHANGED <<parsed, parser>>
    BY <1>1 DEF Send, Silently, Unseen
  <1>5. raw' \in Seq(GoodMessage) /\ raw' # <<>>
    BY <1>3, <1>4 DEF ParserInv
  <1>6. raw' \in Seq(GoodMessage')
    BY <1>5, MessagesKept, SeqGrows
  <1> QED BY <1>4, <1>5, <1>6, MessagesKept DEF ParserInv, Grow

LEMMA CreateParsed == ASSUME ParserInv, Grow, ParseCreate PROVE ParserInv'
  <1>1. PICK m : m = Head(raw)
    OBVIOUS
  <1>2. m \in GoodMessage /\ raw # <<>>
    BY <1>1 DEF ParserInv, ParseCreate
  <1>3. parser' = [at |-> "created", message |-> m] /\ raw' = raw
    BY <1>1 DEF ParseCreate
  <1>4. parsed' \in [Page -> Row]
    <2>1. [item |-> m.item, path |-> <<>>, kind |-> None] \in Row
      BY <1>2 DEF GoodMessage, Message, Row, Path
    <2> QED BY <1>1, <2>1 DEF ParserInv, ParseCreate
  <1>5. raw' \in Seq(GoodMessage')
    BY <1>3, MessagesKept, SeqGrows DEF ParserInv
  <1> QED BY <1>2, <1>3, <1>4, <1>5, MessagesKept DEF ParserInv

LEMMA StoreParsed == ASSUME ParserInv, Grow, ParseStore PROVE ParserInv'
  <1>1. PICK m : m = parser.message
    OBVIOUS
  <1>2. m \in GoodMessage /\ raw # <<>> /\ m.page \in Page /\ m.path \in Path /\ m.kind \in ContentKind
    BY <1>1 DEF ParserInv, ParseStore, GoodMessage, Message
  <1>3. raw' = Tail(raw) /\ parser' = [parser EXCEPT !.at = "idle"]
    BY DEF ParseStore
  <1>4. raw' \in Seq(GoodMessage) /\ parser'.at = "idle" /\ parser'.message = m
        /\ parser' \in [at : {"idle", "created"}, message : GoodMessage \cup {NoMessage}]
    BY <1>1, <1>2, <1>3 DEF ParserInv
  <1>5. PICK name \in Path, kind \in ContentKind :
          /\ parsed' = [parsed EXCEPT ![m.page].path = name, ![m.page].kind = kind]
          /\ m.path # <<>> => name = m.path /\ kind = m.kind
    <2>1. "html" \in ContentKind /\ raw_name(parsed[m.page].item, m.page, "html") \in Path
      BY <1>2 DEF ParserInv, Row, Path, ContentKind
    <2>2. CASE StoresMarkup(m)
      BY <1>1, <2>1, <2>2 DEF ParseStore, StoresMarkup
    <2>3. CASE ~StoresMarkup(m)
      BY <1>1, <1>2, <2>3 DEF ParseStore
    <2> QED BY <2>2, <2>3
  <1>6. parsed' \in [Page -> Row] /\ parsed'[m.page].path = name /\ parsed'[m.page].kind = kind
    BY <1>2, <1>5 DEF ParserInv, Row
  <1>7. m.kind = "pdf" /\ m.path # <<>> => parsed'[m.page].path = m.path /\ parsed'[m.page].kind = "pdf"
    BY <1>5, <1>6
  <1>8. raw' \in Seq(GoodMessage')
    BY <1>4, MessagesKept, SeqGrows
  <1> QED BY <1>4, <1>5, <1>6, <1>7, <1>8, MessagesKept DEF ParserInv, Grow

LEMMA ReparseParsed == ASSUME ParserInv, Grow, Reparse PROVE ParserInv'
  <1>1. parser' = [at |-> "idle", message |-> NoMessage] /\ UNCHANGED <<raw, parsed>> /\ NoMessage.kind = "html"
    BY DEF Reparse, Silently, Unseen, NoMessage
  <1>2. raw' \in Seq(GoodMessage')
    BY <1>1, MessagesKept, SeqGrows DEF ParserInv
  <1> QED BY <1>1, <1>2 DEF ParserInv

LEMMA CrawlParsed == ASSUME CrawlInv, ParserInv, Grow, NEW p \in Page, Crawl(p) PROVE ParserInv'
  <1>1. CASE UNCHANGED <<raw, parsed, parser>>
    BY <1>1, ParserStays
  <1>2. CASE Send(p)
    BY <1>2, SendParsed
  <1> QED BY <1>1, <1>2 DEF Crawl, Deliver, PolitenessService, Continues, fetch_with_agent_rotation,
             hand_off_audio, escalate_to_deep, fetch_and_extract, record_crawl_log, Elsewhere, Archive, save_to_minio,
             Raise, Settle, Kill, publish_job_stage, Fail_job, Silently, Unseen

-----------------------------------------------------------------------------
(* Every step keeps what Grow says. *)

\* Whatever else is uploaded, no original of a document is replaced: its name is of its own.
LEMMA PutKeeps ==
    ASSUME NEW object, Put(object), NEW item \in Nat, NEW q \in Page, IsOriginal(raw_name(item, q, "pdf")),
           object.name # raw_name(item, q, "pdf") \/ object = [name |-> object.name, holds |-> "original"]
    PROVE  IsOriginal(raw_name(item, q, "pdf"))'
  BY DEF Put, IsOriginal

LEMMA SameGrows ==
    ASSUME UNCHANGED situation, faults \subseteq faults', UNCHANGED <<crawl, crawl_log, objects>>
    PROVE  Grow
  BY DEF Grow, IsOriginal

LEMMA CrawlGrows == ASSUME CrawlInv, NEW p \in Page, Crawl(p), UNCHANGED situation PROVE Grow
  <1>0. crawl \in [Page -> Task] /\ crawl_log \in [Page -> SUBSET Said]
    BY DEF CrawlInv, Said
  <1>1. faults \subseteq faults'
    BY DEF Crawl, Deliver, PolitenessService, Continues, fetch_with_agent_rotation, hand_off_audio, escalate_to_deep,
           fetch_and_extract, record_crawl_log, Elsewhere, Archive, save_to_minio, Send, Raise, Settle, Kill,
           publish_job_stage, Fail_job, Fault
  <1>2. \A q \in Page : crawl_log[q] \subseteq crawl_log'[q]
    <2>1. CASE record_crawl_log(p)
      BY <1>0, <2>1 DEF record_crawl_log
    <2>2. CASE crawl_log' = crawl_log
      BY <2>2
    <2> QED BY <2>1, <2>2 DEF Crawl, Deliver, PolitenessService, Continues, fetch_with_agent_rotation, hand_off_audio,
               escalate_to_deep, fetch_and_extract, Elsewhere, Archive, save_to_minio, Send, Raise, Settle, Kill,
               publish_job_stage, Fail_job
  <1>3. \A q \in Page : crawl[q].crashed => crawl'[q].crashed
    <2>1. CASE Deliver(p)
      <3>1. crawl'[p].crashed = crawl[p].crashed /\ \A q \in Page : q # p => crawl'[q] = crawl[q]
        BY <1>0, <2>1, QueuedTyped DEF Deliver, Task
      <3> QED BY <3>1
    <2>2. CASE Raise(p)
      BY <1>0, <2>2 DEF Raise, SurfaceRaised, Task
    <2>3. CASE \E s : Goes(p, s)
      BY <1>0, <2>3 DEF Goes, Task
    <2>4. CASE fetch_with_agent_rotation(p)
      BY <1>0, <2>4 DEF fetch_with_agent_rotation, Task
    <2>5. CASE escalate_to_deep(p)
      BY ZenonT(40), <1>0, <2>5 DEF escalate_to_deep, Goes, Task
    <2>6. CASE fetch_and_extract(p)
      BY ZenonT(40), <1>0, <2>6 DEF fetch_and_extract, Goes, Task
    <2>7. CASE record_crawl_log(p)
      BY <1>0, <2>7 DEF record_crawl_log, Task
    <2>8. CASE Archive(p)
      BY ZenonT(40), <1>0, <2>8 DEF Archive, Goes, Task
    <2>9. CASE Settle(p) \/ Kill(p)
      BY ZenonT(40), <1>0, <2>9 DEF Settle, Kill, Task
    <2> QED BY <2>1, <2>2, <2>3, <2>4, <2>5, <2>6, <2>7, <2>8, <2>9 DEF Crawl, PolitenessService, Continues, hand_off_audio,
               Elsewhere, save_to_minio, Send, publish_job_stage, Fail_job
  <1>4. ASSUME NEW item \in Nat, NEW q \in Page, IsOriginal(raw_name(item, q, "pdf"))
        PROVE  IsOriginal(raw_name(item, q, "pdf"))'
    <2>1. CASE objects' = objects
      BY <1>4, <2>1 DEF IsOriginal
    <2>2. CASE Archive(p)
      <3>1. PICK object : /\ object = [name |-> raw_name(crawl[p].item, p, crawl[p].kind), holds |-> "original"]
        OBVIOUS
      <3>2. Put(object) \/ objects' = objects
        BY <2>2, <3>1 DEF Archive
      <3> QED BY <1>4, <2>1, <3>1, <3>2, PutKeeps
    <2>3. CASE save_to_minio(p)
      <3>1. PICK object : object = [name |-> <<"result">>, holds |-> "result"]
        OBVIOUS
      <3>2. Put(object)
        BY <2>3, <3>1 DEF save_to_minio
      <3>3. object.name # raw_name(item, q, "pdf")
        <4>1. Len(<<"result">>) = 1 /\ Len(raw_name(item, q, "pdf")) = 3
          BY DEF raw_name
        <4> QED BY <3>1, <4>1
      <3> QED BY <1>4, <3>2, <3>3, PutKeeps
    <2> QED BY <2>1, <2>2, <2>3 DEF Crawl, Deliver, PolitenessService, Continues, fetch_with_agent_rotation, hand_off_audio,
               escalate_to_deep, fetch_and_extract, record_crawl_log, Elsewhere, Send, Raise, Settle, Kill,
               publish_job_stage, Fail_job
  <1> QED BY <1>1, <1>2, <1>3, <1>4 DEF Grow

LEMMA StoreGrows == ASSUME ParserInv, ParseStore, UNCHANGED situation PROVE Grow
  <1>1. faults \subseteq faults' /\ UNCHANGED <<crawl, crawl_log>>
    BY DEF ParseStore, Fault
  <1>2. ASSUME NEW item \in Nat, NEW q \in Page, IsOriginal(raw_name(item, q, "pdf"))
        PROVE  IsOriginal(raw_name(item, q, "pdf"))'
    <2>1. PICK m, object : /\ m = parser.message
                           /\ object = [name |-> raw_name(parsed[m.page].item, m.page, "html"), holds |-> "markup"]
      OBVIOUS
    <2>2. objects' = objects \/ Put(object)
      BY <2>1 DEF ParseStore
    <2>3. object.name # raw_name(item, q, "pdf")
      BY <2>1 DEF raw_name
    <2> QED BY <1>2, <2>2, <2>3, PutKeeps DEF IsOriginal
  <1> QED BY <1>1, <1>2 DEF Grow

LEMMA LiveGrows == ASSUME NEW quiet, LiveStep(quiet), UNCHANGED crawlVars, UNCHANGED situation PROVE Grow
  <1>1. faults \subseteq faults'
    BY DEF LiveStep, Serve, Browse, RedisDrops, Drop, Fault, Subscribe, Receive, broadcast_job_update, ReadHistory,
           Replay, Disconnect, Open, Connect, Refresh, Poll, Arrive
  <1> QED BY <1>1, SameGrows DEF crawlVars

-----------------------------------------------------------------------------
(* The theorems. *)

\* The steps of parser and job tell JobEvent only.
LEMMA OtherTold ==
    ASSUME CrawlInv, ToldInv, Grow, ParseCreate \/ ParseStore \/ Reparse \/ EndJob
    PROVE  ToldInv'
  <1>1. LiveTyped' /\ UNCHANGED <<history, listener, server, view>>
    BY DEF ToldInv, LiveTyped, Status, ParseCreate, ParseStore, Reparse, EndJob, Silently, Unseen, redisVars, pageVars
  <1>2. channel' \in {channel, Published(JobEvent)}
    BY DEF ParseCreate, ParseStore, Reparse, EndJob, Silently, redisVars
  <1> QED BY <1>1, <1>2, JobEventLogged, ToldMore

\* The invariant is inductive.
THEOREM PageInvariant == Spec => []PageInv
  <1>1. Init => PageInv
    <2> SUFFICES ASSUME Init PROVE PageInv
      OBVIOUS
    <2>1. CrawlInv
      <3>1. \A q \in Page : crawl[q] = Queued
        BY DEF Init
      <3>2. \A q \in Page : Fine(q, <<>>, Facts(q))
        BY SoundNil DEF Sound
      <3> QED BY <3>1, <3>2, QueuedTyped DEF Init, LiveInit, CrawlInv
    <2>2. ToldInv
      <3>1. <<>> \in Seq(Event) /\ <<>> \in Seq(LoggedEvent)
        OBVIOUS
      <3>2. NoServer \in Server /\ NoServer.replay = <<>>
        BY <3>1 DEF NoServer, Server
      <3>3. NoView \in View /\ \A q \in Page : NoView.sites[q] = None
        BY LiveAssumption DEF NoView, View
      <3>4. LiveTyped
        BY <3>2, <3>3, OffTyped DEF Init, LiveInit, LiveTyped, Status
      <3> QED BY <3>1, <3>2, <3>3, <3>4, OffTyped, JobEventLogged DEF Init, LiveInit, ToldInv, None
    <2>3. ParserInv
      <3>1. NoRow \in Row
        BY DEF NoRow, Row, Path
      <3> QED BY <3>1 DEF Init, LiveInit, ParserInv, NoMessage
    <2> QED BY <2>1, <2>2, <2>3 DEF PageInv
  <1>2. PageInv /\ [Next]_vars => PageInv'
    <2> SUFFICES ASSUME PageInv, [Next]_vars PROVE PageInv'
      OBVIOUS
    <2>0. CrawlInv /\ ToldInv /\ ParserInv
      BY DEF PageInv
    <2>1. ASSUME NEW p \in Page, Crawl(p), UNCHANGED situation PROVE PageInv'
      <3>1. Grow
        BY <2>0, <2>1, CrawlGrows
      <3> QED BY <2>0, <2>1, <3>1, CrawlKeeps, CrawlTold, CrawlParsed DEF PageInv
    <2>2. CASE ParseCreate /\ UNCHANGED situation
      <3>1. Grow
        BY <2>2, SameGrows DEF ParseCreate
      <3> QED BY <2>0, <2>2, <3>1, CrawlStays, OtherTold, CreateParsed DEF PageInv, ParseCreate
    <2>3. CASE ParseStore /\ UNCHANGED situation
      <3>1. Grow
        BY <2>0, <2>3, StoreGrows
      <3> QED BY <2>0, <2>3, <3>1, CrawlStays, OtherTold, StoreParsed DEF PageInv, ParseStore
    <2>4. CASE Reparse /\ UNCHANGED situation
      <3>1. Grow
        BY <2>4, SameGrows DEF Reparse, Fault
      <3> QED BY <2>0, <2>4, <3>1, CrawlStays, OtherTold, ReparseParsed DEF PageInv, Reparse
    <2>5. CASE EndJob /\ UNCHANGED situation
      <3>1. UNCHANGED <<crawl, crawl_log, objects, raw, parsed, parser>> /\ faults \subseteq faults'
        BY <2>5 DEF EndJob, Fault, crawlVars
      <3>2. Grow
        BY <2>5, <3>1, SameGrows
      <3> QED BY <2>0, <2>5, <3>1, <3>2, CrawlStays, OtherTold, ParserStays DEF PageInv
    <2>6. CASE LiveStep(Quiet) /\ UNCHANGED crawlVars /\ UNCHANGED situation
      <3>1. PICK quiet \in BOOLEAN : LiveStep(quiet)
        BY <2>6 DEF Quiet
      <3>2. Grow
        BY <2>6, <3>1, LiveGrows
      <3>3. ToldInv'
        BY <2>0, <3>1, <3>2, SubscribeTold, ReceiveTold, BroadcastTold, ServeTold, BrowseTold DEF LiveStep, Serve
      <3>4. UNCHANGED parsed
        BY <3>1 DEF LiveStep, Serve, Browse, RedisDrops, Drop, Subscribe, Receive, broadcast_job_update, ReadHistory,
                    Replay, Disconnect, Open, Connect, Refresh, Poll, Arrive
      <3> QED BY <2>0, <2>6, <3>2, <3>3, <3>4, CrawlStays, ParserStays DEF PageInv, crawlVars
    <2>7. CASE UNCHANGED vars
      <3>1. UNCHANGED <<situation, status, parsed, history, channel, listener, conns, server, view, loads, faults,
                        crawl, crawl_log, raw, objects, parser>>
        BY <2>7 DEF vars, liveVars, redisVars, apiVars, pageVars, crawlVars
      <3>2. Grow
        BY <3>1, SameGrows
      <3>3. LiveTyped'
        BY <2>0, <3>1 DEF ToldInv, LiveTyped
      <3> QED BY <2>0, <3>1, <3>2, <3>3, CrawlStays, ToldStays, ParserStays DEF PageInv
    <2> QED BY <2>1, <2>2, <2>3, <2>4, <2>5, <2>6, <2>7 DEF Next
  <1> QED BY <1>1, <1>2, PTL DEF Spec

\* For any situations, pages, bounds and orders of events: what the browser shows of a site
\* is in the crawl log, except for the site of a page the dark worker crashed on.
THEOREM ShownIsLoggedTheorem == Spec => []ShownIsLogged
  <1>1. PageInv => ShownIsLogged
    BY DEF PageInv, ToldInv, FailOK, PassOK, ShownIsLogged
  <1> QED BY <1>1, PageInvariant, PTL

\* Once the parser is done with the message of a document, the row points at the bytes the
\* server sent, whatever is redelivered, crashed or parsed twice and whichever other uploads
\* failed; the message names no original only if an upload failed.
THEOREM OriginalKeptTheorem == Spec => []OriginalKept
  <1>1. PageInv => OriginalKept
    <2> SUFFICES ASSUME ParserInv, NEW m, m = parser.message, parser.at = "idle", m.kind = "pdf"
                 PROVE  IF m.path = <<>> THEN "archive" \in faults
                        ELSE /\ parsed[m.page].path = m.path /\ parsed[m.page].kind = "pdf"
                             /\ [name |-> m.path, holds |-> "original"] \in objects
      BY DEF PageInv, OriginalKept
    <2>1. m \in GoodMessage
      BY DEF ParserInv, NoMessage
    <2>2. CASE m.path = <<>>
      BY <2>1, <2>2 DEF GoodMessage
    <2>3. CASE m.path # <<>>
      BY <2>1, <2>3 DEF GoodMessage, ParserInv, IsOriginal
    <2> QED BY <2>2, <2>3
  <1> QED BY <1>1, PageInvariant, PTL

-----------------------------------------------------------------------------
(* What a script tells of its page. *)

\* Where a delivery of a page is: whether its site is open or closed - "asked" when what follows
\* depends on an answer -, the lines it has given to the history, what it logged last, and what
\* does not change until then.
Marks  == {"surface", "rerouted", "crashed"}
Points == [told : {"none", "active", "failed", "passed", "asked"}, lines : Nat, said : Said, marks : SUBSET Marks]
Point(told, lines, said, marks) == [told |-> told, lines |-> lines, said |-> said, marks |-> marks]

Tells(x)    == x.do \in {"publish", "push"}
Finishes(x) == Tells(x) /\ x.event.stage = "site_finished"
Deciding    == {"robots", "fetch", "hand_off", "ingest", "escalate"}
Raising     == {"robots", "hand_off", "escalate", "log", "children", "dead_letter", "send"}

\* An exception is told too, once; the lines of a delivery are at most six.
CanRaise(told, lines, marks) == "crashed" \in marks \/ (told = "active" /\ lines <= 5 /\ ("rerouted" \in marks => lines <= 3))

Allowed(p, x, q) ==
    /\ Tells(x) => x.event.url = p /\ q.lines < 6
    /\ Finishes(x) => q.told = "active" /\ x.event.state \in {"failed", "passed"}
    /\ x.do = "robots" => q.told = "active" /\ q.lines <= 1
    /\ x.do = "fetch" => q.told = "active" /\ q.lines <= 2
    /\ x.do \in {"hand_off", "ingest"} => q.told = "active" /\ q.lines <= 3
    /\ x.do = "escalate" => q.told = "active" /\ q.lines <= 4 /\ ("surface" \in q.marks \/ q.said = "escalated")
    /\ x.do \in Raising => CanRaise(q.told, q.lines, q.marks)

After(x, q) ==
    Point(IF Finishes(x) THEN x.event.state ELSE IF Tells(x) THEN "active"
            ELSE IF x.do \in Deciding THEN "asked" ELSE q.told,
          IF Tells(x) THEN q.lines + 1 ELSE q.lines,
          IF x.do = "log" THEN x.say ELSE q.said, q.marks)

\* The colour of a closed site and the log.
Matches(said, told) ==
    told \in (CASE said \in {"failed", "escalated"} -> {"failed"}
                [] said = "skipped" -> {"failed", "passed"}
                [] OTHER -> {"passed"})
Final(q) == q.told = "asked" \/ Matches(q.said, q.told)

\* The script leads from q to the end of the delivery, or to its next question.
Leads(p, s, q) ==
    /\ s \in Seq(ScriptStep)
    /\ \E at \in [1..(Len(s) + 1) -> Points] :
          /\ at[1] = q /\ Final(at[Len(s) + 1])
          /\ \A n \in DOMAIN s : Allowed(p, s[n], at[n]) /\ at[n + 1] = After(s[n], at[n])

LEMMA NilLeads ==
    ASSUME NEW p, NEW q \in Points, Final(q)
    PROVE  Leads(p, <<>>, q)
  <1>1. PICK s : s = <<>>
    OBVIOUS
  <1>2. s \in Seq(ScriptStep) /\ Len(s) = 0 /\ DOMAIN s = {} /\ 1 \in 1..(Len(s) + 1)
    BY <1>1
  <1>3. PICK at : at = [n \in 1..(Len(s) + 1) |-> q]
    OBVIOUS
  <1>4. at \in [1..(Len(s) + 1) -> Points] /\ at[1] = q /\ at[Len(s) + 1] = q
    BY <1>2, <1>3
  <1>5. Leads(p, s, q)
    BY <1>2, <1>4 DEF Leads
  <1> QED BY <1>1, <1>5

LEMMA NilEnds == ASSUME NEW p, NEW q, Leads(p, <<>>, q) PROVE Final(q)
  BY DEF Leads

LEMMA ConsLeads ==
    ASSUME NEW p \in Page, NEW x \in ScriptStep, NEW s, NEW q \in Points, Allowed(p, x, q), Leads(p, s, After(x, q))
    PROVE  Leads(p, <<x>> \o s, q)
  <1> DEFINE t == <<x>> \o s
  <1>1. /\ t \in Seq(ScriptStep) /\ Len(t) = Len(s) + 1 /\ Len(s) \in Nat /\ t[1] = x
        /\ \A n \in 1..Len(s) : t[n + 1] = s[n]
        /\ DOMAIN t = 1..(Len(s) + 1) /\ DOMAIN s = 1..Len(s)
    BY DEF Leads
  <1>0. t = <<x>> \o s
    OBVIOUS
  <1> HIDE DEF t
  <1>2. PICK at \in [1..(Len(s) + 1) -> Points] :
          /\ at[1] = After(x, q) /\ Final(at[Len(s) + 1])
          /\ \A n \in DOMAIN s : Allowed(p, s[n], at[n]) /\ at[n + 1] = After(s[n], at[n])
    BY DEF Leads
  <1>3. PICK bt : bt = [n \in 1..(Len(t) + 1) |-> IF n = 1 THEN q ELSE at[n - 1]]
    OBVIOUS
  <1>4. bt \in [1..(Len(t) + 1) -> Points]
    <2> SUFFICES ASSUME NEW n \in 1..(Len(t) + 1), n # 1 PROVE at[n - 1] \in Points
      BY <1>3
    <2>1. n - 1 \in 1..(Len(s) + 1)
      BY <1>1
    <2> QED BY <1>2, <2>1
  <1>5. bt[1] = q /\ \A n \in 1..(Len(s) + 1) : bt[n + 1] = at[n]
    <2>1. 1 \in 1..(Len(t) + 1)
      BY <1>1
    <2>2. ASSUME NEW n \in 1..(Len(s) + 1) PROVE n + 1 \in 1..(Len(t) + 1) /\ n + 1 # 1 /\ (n + 1) - 1 = n
      BY <1>1
    <2> QED BY <1>3, <2>1, <2>2
  <1>6. Final(bt[Len(t) + 1])
    <2>1. Len(s) + 1 \in 1..(Len(s) + 1)
      BY <1>1
    <2> QED BY <1>1, <1>2, <1>5, <2>1
  <1>7. ASSUME NEW n \in 1..(Len(s) + 1) PROVE Allowed(p, t[n], bt[n]) /\ bt[n + 1] = After(t[n], bt[n])
    <2>1. CASE n = 1
      <3>1. bt[n + 1] = at[1] /\ bt[n] = q /\ t[n] = x
        BY <1>1, <1>5, <2>1
      <3> QED BY <1>2, <3>1
    <2>2. CASE n # 1
      <3>1. PICK l \in 1..Len(s) : n = l + 1
        <4>1. n - 1 \in 1..Len(s) /\ n = (n - 1) + 1
          BY <1>1, <2>2
        <4> QED BY <4>1
      <3>2. l \in 1..(Len(s) + 1) /\ l + 1 \in 1..(Len(s) + 1)
        BY <1>1
      <3>3. t[n] = s[l] /\ bt[n] = at[l] /\ bt[n + 1] = at[l + 1]
        BY <1>1, <1>5, <3>1, <3>2
      <3> QED BY <1>1, <1>2, <3>3
    <2> QED BY <2>1, <2>2
  <1>8. Leads(p, t, q)
    BY <1>1, <1>4, <1>5, <1>6, <1>7 DEF Leads
  <1> QED BY <1>0, <1>8

\* What the head of the script is allowed, and what is left leads on.
LEMMA HeadLeads ==
    ASSUME NEW p \in Page, NEW s, NEW q, Leads(p, s, q), s # <<>>
    PROVE  /\ q \in Points /\ Allowed(p, Head(s), q)
           /\ Leads(p, Tail(s), After(Head(s), q))
  <1> DEFINE t == Tail(s)
  <1>1. /\ t \in Seq(ScriptStep) /\ Len(s) \in Nat /\ Len(t) = Len(s) - 1 /\ s[1] = Head(s)
        /\ \A n \in 1..Len(t) : t[n] = s[n + 1]
        /\ DOMAIN t = 1..Len(t) /\ DOMAIN s = 1..Len(s) /\ 1 \in DOMAIN s
    BY DEF Leads
  <1>0. t = Tail(s)
    OBVIOUS
  <1> HIDE DEF t
  <1>2. PICK at \in [1..(Len(s) + 1) -> Points] :
          /\ at[1] = q /\ Final(at[Len(s) + 1])
          /\ \A n \in DOMAIN s : Allowed(p, s[n], at[n]) /\ at[n + 1] = After(s[n], at[n])
    BY DEF Leads
  <1>3. PICK bt : bt = [n \in 1..(Len(t) + 1) |-> at[n + 1]]
    OBVIOUS
  <1>4. \A n \in 1..(Len(t) + 1) : n + 1 \in 1..(Len(s) + 1) /\ bt[n] = at[n + 1]
    BY <1>1, <1>3
  <1>5. bt \in [1..(Len(t) + 1) -> Points]
    BY <1>2, <1>3, <1>4
  <1>6. bt[1] = After(Head(s), q) /\ Allowed(p, Head(s), q)
    <2>1. bt[1] = at[1 + 1]
      BY <1>1, <1>4
    <2>2. Allowed(p, s[1], at[1]) /\ at[1 + 1] = After(s[1], at[1])
      BY <1>1, <1>2
    <2> QED BY <1>1, <1>2, <2>1, <2>2
  <1>7. Final(bt[Len(t) + 1])
    <2>1. bt[Len(t) + 1] = at[(Len(t) + 1) + 1] /\ (Len(t) + 1) + 1 = Len(s) + 1
      BY <1>1, <1>4
    <2> QED BY <1>2, <2>1
  <1>8. ASSUME NEW n \in 1..Len(t) PROVE Allowed(p, t[n], bt[n]) /\ bt[n + 1] = After(t[n], bt[n])
    <2>1. n + 1 \in 1..Len(s) /\ n \in 1..(Len(t) + 1) /\ n + 1 \in 1..(Len(t) + 1) /\ t[n] = s[n + 1]
      BY <1>1
    <2>2. bt[n] = at[n + 1] /\ bt[n + 1] = at[(n + 1) + 1]
      BY <1>4, <2>1
    <2> QED BY <1>1, <1>2, <2>1, <2>2
  <1>9. Leads(p, t, After(Head(s), q))
    BY <1>1, <1>5, <1>6, <1>7, <1>8 DEF Leads
  <1>10. q \in Points
    BY <1>1, <1>2
  <1> QED BY <1>0, <1>6, <1>9, <1>10

\* One step before a script.
LEMMA PointTyped ==
    ASSUME NEW told \in {"none", "active", "failed", "passed", "asked"}, NEW n \in Nat, NEW said \in Said,
           NEW marks \in SUBSET Marks
    PROVE  /\ Point(told, n, said, marks) \in Points
           /\ Point(told, n, said, marks).told = told /\ Point(told, n, said, marks).lines = n
           /\ Point(told, n, said, marks).said = said /\ Point(told, n, said, marks).marks = marks
  BY DEF Point, Points

LEMMA TellLeads ==
    ASSUME NEW p \in Page, NEW told \in {"none", "active"}, NEW n \in 0..5, NEW m, m = n + 1, NEW said \in Said,
           NEW marks \in SUBSET Marks, NEW s, Leads(p, s, Point("active", m, said, marks))
    PROVE  \A stage \in {"site_started", "fetching", "parsing", "challenge_detected"},
              state \in {"active", "failed", "passed"} :
                 Leads(p, <<Tell(p, stage, state)>> \o s, Point(told, n, said, marks))
  <1> SUFFICES ASSUME NEW stage \in {"site_started", "fetching", "parsing", "challenge_detected"},
                      NEW state \in {"active", "failed", "passed"}
               PROVE  Leads(p, <<Tell(p, stage, state)>> \o s, Point(told, n, said, marks))
    OBVIOUS
  <1>1. PICK x, q : x = Tell(p, stage, state) /\ q = Point(told, n, said, marks)
    OBVIOUS
  <1>2. x \in ScriptStep /\ x.do = "publish" /\ x.event.url = p /\ x.event.stage # "site_finished"
    BY <1>1, StepsTyped DEF Tell, Publish, StageEvent
  <1>3. q \in Points /\ q.told = told /\ q.lines = n /\ q.said = said /\ q.marks = marks
    BY <1>1, PointTyped
  <1>4. Tells(x) /\ ~Finishes(x)
    BY <1>2 DEF Tells, Finishes
  <1>5. Allowed(p, x, q)
    BY <1>2, <1>3, <1>4 DEF Allowed, Raising
  <1>6. After(x, q) = Point("active", m, said, marks)
    BY <1>2, <1>3, <1>4 DEF After
  <1> QED BY <1>1, <1>2, <1>3, <1>5, <1>6, ConsLeads

LEMMA FinishLeads ==
    ASSUME NEW p \in Page, NEW n \in 0..5, NEW m, m = n + 1, NEW said \in Said, NEW marks \in SUBSET Marks, NEW s,
           NEW state \in {"failed", "passed"}, Leads(p, s, Point(state, m, said, marks))
    PROVE  Leads(p, <<Tell(p, "site_finished", state)>> \o s, Point("active", n, said, marks))
  <1>1. PICK x, q : x = Tell(p, "site_finished", state) /\ q = Point("active", n, said, marks)
    OBVIOUS
  <1>2. /\ x \in ScriptStep /\ x.do = "publish" /\ x.event.url = p /\ x.event.stage = "site_finished"
        /\ x.event.state = state
    BY <1>1, StepsTyped DEF Tell, Publish, StageEvent
  <1>0. n \in Nat
    OBVIOUS
  <1>3. q \in Points /\ q.told = "active" /\ q.lines = n /\ q.said = said /\ q.marks = marks
    BY <1>0, <1>1 DEF Point, Points
  <1>4. Tells(x) /\ Finishes(x)
    BY <1>2 DEF Tells, Finishes
  <1>5. Allowed(p, x, q)
    BY <1>2, <1>3, <1>4 DEF Allowed, Raising
  <1>6. After(x, q) = Point(state, m, said, marks)
    BY <1>2, <1>3, <1>4 DEF After
  <1> QED BY <1>1, <1>2, <1>3, <1>5, <1>6, ConsLeads

LEMMA LogLeads ==
    ASSUME NEW p \in Page, NEW told \in {"active", "failed", "passed"}, NEW n \in Nat, NEW said \in Said,
           NEW marks \in SUBSET Marks, NEW s, CanRaise(told, n, marks),
           NEW state \in {"failed", "skipped", "completed", "passed", "escalated", "needs_review"},
           Leads(p, s, Point(told, n, state, marks))
    PROVE  Leads(p, <<Log(state)>> \o s, Point(told, n, said, marks))
  <1>1. PICK x, q : x = Log(state) /\ q = Point(told, n, said, marks)
    OBVIOUS
  <1>2. x \in ScriptStep /\ x.do = "log" /\ x.say = state
    BY <1>1, StepsTyped
  <1>3. q \in Points /\ q.told = told /\ q.lines = n /\ q.said = said /\ q.marks = marks
    BY <1>1, PointTyped
  <1>4. ~Tells(x) /\ ~Finishes(x)
    BY <1>2 DEF Tells, Finishes
  <1>5. Allowed(p, x, q)
    BY <1>1, <1>2, <1>3, <1>4 DEF Allowed
  <1>6. After(x, q) = Point(told, n, state, marks)
    BY <1>2, <1>3, <1>4 DEF After, Deciding
  <1> QED BY <1>1, <1>2, <1>3, <1>5, <1>6, ConsLeads

\* The other steps: what raises, and what does not.
LEMMA DoLeads ==
    ASSUME NEW p \in Page, NEW told \in {"active", "failed", "passed"}, NEW n \in Nat, NEW said \in Said,
           NEW marks \in SUBSET Marks, NEW s, Leads(p, s, Point(told, n, said, marks))
    PROVE  /\ \A step \in {"archive", "save", "fail_job"} : Leads(p, <<Do(step)>> \o s, Point(told, n, said, marks))
           /\ CanRaise(told, n, marks) => \A step \in {"send", "children", "dead_letter"} :
                 Leads(p, <<Do(step)>> \o s, Point(told, n, said, marks))
  <1> SUFFICES ASSUME NEW step \in {"archive", "save", "fail_job", "send", "children", "dead_letter"},
                      step \in {"send", "children", "dead_letter"} => CanRaise(told, n, marks)
               PROVE  Leads(p, <<Do(step)>> \o s, Point(told, n, said, marks))
    OBVIOUS
  <1>1. PICK x, q : x = Do(step) /\ q = Point(told, n, said, marks)
    OBVIOUS
  <1>2. x \in ScriptStep /\ x.do = step
    BY <1>1, StepsTyped
  <1>3. q \in Points /\ q.told = told /\ q.lines = n /\ q.said = said /\ q.marks = marks
    BY <1>1, PointTyped
  <1>4. ~Tells(x) /\ ~Finishes(x)
    BY <1>2 DEF Tells, Finishes
  <1>5. Allowed(p, x, q)
    BY <1>1, <1>2, <1>3, <1>4 DEF Allowed, Raising
  <1>6. After(x, q) = Point(told, n, said, marks)
    BY <1>2, <1>3, <1>4 DEF After, Deciding
  <1> QED BY <1>1, <1>2, <1>3, <1>5, <1>6, ConsLeads

\* A script ends with a question.
LEMMA AskLeads ==
    ASSUME NEW p \in Page, NEW n \in Nat, NEW said \in Said, NEW marks \in SUBSET Marks, NEW step \in Deciding,
           n <= (CASE step = "robots" -> 1 [] step = "fetch" -> 2 [] step = "escalate" -> 4 [] OTHER -> 3),
           step = "escalate" => "surface" \in marks \/ said = "escalated",
           CanRaise("active", n, marks)
    PROVE  Leads(p, <<Do(step)>> \o <<>>, Point("active", n, said, marks))
  <1>1. PICK x, q, r : x = Do(step) /\ q = Point("active", n, said, marks) /\ r = Point("asked", n, said, marks)
    OBVIOUS
  <1>2. x \in ScriptStep /\ x.do = step
    BY <1>1, StepsTyped DEF Deciding
  <1>3. /\ q \in Points /\ q.told = "active" /\ q.lines = n /\ q.said = said /\ q.marks = marks
        /\ r \in Points /\ r.told = "asked"
    BY <1>1, PointTyped
  <1>4. ~Tells(x) /\ ~Finishes(x)
    BY <1>2 DEF Tells, Finishes, Deciding
  <1>5. Allowed(p, x, q)
    BY <1>1, <1>2, <1>3, <1>4 DEF Allowed, Deciding
  <1>6. After(x, q) = r
    BY <1>1, <1>2, <1>3, <1>4 DEF After, Deciding
  <1>7. Leads(p, <<>>, r)
    BY <1>3, NilLeads DEF Final
  <1> QED BY <1>1, <1>2, <1>3, <1>5, <1>6, <1>7, ConsLeads

\* The end.
LEMMA EndLeads ==
    ASSUME NEW p \in Page, NEW told \in {"failed", "passed"}, NEW n \in Nat, NEW said \in Said, NEW marks \in SUBSET Marks,
           Matches(said, told)
    PROVE  Leads(p, <<>>, Point(told, n, said, marks))
  BY PointTyped, NilLeads DEF Final

\* The scripts of the workers, from where a delivery is when they begin.
LEMMA StartedLeads ==
    ASSUME NEW p \in Page, NEW n \in Nat, NEW marks \in SUBSET Marks, n = 0
    PROVE  Leads(p, Started(p), Point("none", n, None, marks))
  <1>0. n \in 0..5 /\ n + 1 \in Nat /\ None \in Said /\ CanRaise("active", n + 1, marks) /\ n + 1 <= 1
    BY DEF CanRaise, Said
  <1>1. Leads(p, <<Do("robots")>> \o <<>>, Point("active", n + 1, None, marks))
    BY <1>0, AskLeads DEF Deciding
  <1>2. Leads(p, <<Tell(p, "site_started", "active")>> \o (<<Do("robots")>> \o <<>>), Point("none", n, None, marks))
    BY <1>0, <1>1, TellLeads
  <1>3. Started(p) = <<Tell(p, "site_started", "active")>> \o (<<Do("robots")>> \o <<>>)
    BY Tuple2 DEF Started
  <1> QED BY <1>2, <1>3, Zenon

LEMMA DisallowedLeads ==
    ASSUME NEW p \in Page, NEW n \in Nat, NEW marks \in SUBSET Marks, n <= 3, NEW said \in Said
    PROVE  Leads(p, Disallowed(p), Point("active", n, said, marks))
  <1>0. n \in 0..5 /\ n + 1 \in Nat /\ "skipped" \in Said /\ CanRaise("active", n, marks)
    BY DEF CanRaise, Said
  <1>1. Leads(p, <<>>, Point("failed", n + 1, "skipped", marks))
    BY <1>0, EndLeads DEF Matches
  <1>2. Leads(p, <<Tell(p, "site_finished", "failed")>> \o <<>>, Point("active", n, "skipped", marks))
    BY <1>0, <1>1, FinishLeads
  <1>3. Leads(p, <<Log("skipped")>> \o (<<Tell(p, "site_finished", "failed")>> \o <<>>), Point("active", n, said, marks))
    BY <1>0, <1>2, LogLeads
  <1>4. Disallowed(p) = <<Log("skipped")>> \o (<<Tell(p, "site_finished", "failed")>> \o <<>>)
    BY Tuple2 DEF Disallowed
  <1> QED BY <1>3, <1>4, Zenon

LEMMA FetchingLeads ==
    ASSUME NEW p \in Page, NEW n \in Nat, NEW marks \in SUBSET Marks, n <= 1, NEW said \in Said
    PROVE  Leads(p, Fetching(p), Point("active", n, said, marks))
  <1>0. n \in 0..5 /\ n + 1 \in Nat /\ CanRaise("active", n + 1, marks) /\ n + 1 <= 2
    BY DEF CanRaise, Said
  <1>1. Leads(p, <<Do("fetch")>> \o <<>>, Point("active", n + 1, said, marks))
    BY <1>0, AskLeads DEF Deciding
  <1>2. Leads(p, <<Tell(p, "fetching", "active")>> \o (<<Do("fetch")>> \o <<>>), Point("active", n, said, marks))
    BY <1>0, <1>1, TellLeads
  <1>3. Fetching(p) = <<Tell(p, "fetching", "active")>> \o (<<Do("fetch")>> \o <<>>)
    BY Tuple2 DEF Fetching
  <1> QED BY <1>2, <1>3, Zenon

LEMMA IngestFailedLeads ==
    ASSUME NEW p \in Page, NEW n \in Nat, NEW marks \in SUBSET Marks, n <= 3, NEW said \in Said
    PROVE  Leads(p, IngestFailed(p), Point("active", n, said, marks))
  <1>0. n \in 0..5 /\ n + 1 \in Nat /\ "failed" \in Said /\ CanRaise("active", n, marks)
    BY DEF CanRaise, Said
  <1>1. Leads(p, <<>>, Point("failed", n + 1, "failed", marks))
    BY <1>0, EndLeads DEF Matches
  <1>2. Leads(p, <<Tell(p, "site_finished", "failed")>> \o <<>>, Point("active", n, "failed", marks))
    BY <1>0, <1>1, FinishLeads
  <1>3. Leads(p, <<Log("failed")>> \o (<<Tell(p, "site_finished", "failed")>> \o <<>>), Point("active", n, said, marks))
    BY <1>0, <1>2, LogLeads
  <1>4. IngestFailed(p) = <<Log("failed")>> \o (<<Tell(p, "site_finished", "failed")>> \o <<>>)
    BY Tuple2 DEF IngestFailed
  <1> QED BY <1>3, <1>4, Zenon

LEMMA IngestedLeads ==
    ASSUME NEW p \in Page, NEW n \in Nat, NEW marks \in SUBSET Marks, n <= 3, NEW said \in Said
    PROVE  Leads(p, Ingested(p), Point("active", n, said, marks))
  <1> DEFINE s1 == <<Tell(p, "site_finished", "passed")>> \o <<>>
             s2 == <<Tell(p, "parsing", "passed")>> \o s1
             s3 == <<Log("completed")>> \o s2
             s4 == <<Do("send")>> \o s3
             s5 == <<Do("archive")>> \o s4
  <1>0. /\ n \in 0..5 /\ n + 1 \in Nat /\ n + 1 \in 0..5 /\ n + 2 \in Nat /\ n + 2 = (n + 1) + 1
        /\ "completed" \in Said /\ CanRaise("active", n, marks)
    BY DEF CanRaise, Said
  <1>1. Leads(p, <<>>, Point("passed", n + 2, "completed", marks))
    BY <1>0, EndLeads DEF Matches
  <1>2. Leads(p, s1, Point("active", n + 1, "completed", marks))
    BY <1>0, <1>1, FinishLeads
  <1>3. Leads(p, s2, Point("active", n, "completed", marks))
    BY <1>0, <1>2, TellLeads
  <1>4. Leads(p, s3, Point("active", n, said, marks))
    BY <1>0, <1>3, LogLeads
  <1>5. Leads(p, s4, Point("active", n, said, marks))
    BY <1>0, <1>4, DoLeads
  <1>6. Leads(p, s5, Point("active", n, said, marks))
    BY <1>0, <1>5, DoLeads
  <1>7. Ingested(p) = s5
    BY Tuple5 DEF Ingested
  <1> QED BY <1>6, <1>7, Zenon

LEMMA EscalatingLeads ==
    ASSUME NEW p \in Page, NEW n \in Nat, NEW marks \in SUBSET Marks, n <= 3,
           NEW said \in Said, "surface" \in marks, "rerouted" \notin marks
    PROVE  Leads(p, Escalating(p), Point("active", n, said, marks))
  <1> DEFINE s1 == <<Do("escalate")>> \o <<>>
             s2 == <<Tell(p, "challenge_detected", "active")>> \o s1
  <1>0. n \in 0..5 /\ n + 1 \in Nat /\ CanRaise("active", n, marks) /\ CanRaise("active", n + 1, marks) /\ n + 1 <= 4
    BY DEF CanRaise, Said
  <1>1. Leads(p, s1, Point("active", n + 1, said, marks))
    BY <1>0, AskLeads DEF Deciding
  <1>2. Leads(p, s2, Point("active", n, said, marks))
    BY <1>0, <1>1, TellLeads
  <1>3. Escalating(p) = s2
    BY Tuple2 DEF Escalating
  <1> QED BY <1>2, <1>3, Zenon

LEMMA ExhaustedLeads ==
    ASSUME NEW p \in Page, NEW n \in Nat, NEW marks \in SUBSET Marks, n <= 4, NEW said \in Said, CanRaise("active", n, marks)
    PROVE  Leads(p, Exhausted(p), Point("active", n, said, marks))
  <1>0. n \in 0..5 /\ n + 1 \in Nat /\ "failed" \in Said /\ CanRaise("active", n, marks)
    BY DEF CanRaise, Said
  <1>1. Leads(p, <<>>, Point("failed", n + 1, "failed", marks))
    BY <1>0, EndLeads DEF Matches
  <1>2. Leads(p, <<Tell(p, "site_finished", "failed")>> \o <<>>, Point("active", n, "failed", marks))
    BY <1>0, <1>1, FinishLeads
  <1>3. Leads(p, <<Log("failed")>> \o (<<Tell(p, "site_finished", "failed")>> \o <<>>), Point("active", n, said, marks))
    BY <1>0, <1>2, LogLeads
  <1>4. Exhausted(p) = <<Log("failed")>> \o (<<Tell(p, "site_finished", "failed")>> \o <<>>)
    BY Tuple2 DEF Exhausted
  <1> QED BY <1>3, <1>4, Zenon

LEMMA HardFailureLeads ==
    ASSUME NEW p \in Page, NEW n \in Nat, NEW marks \in SUBSET Marks, n <= 4, NEW said \in Said, CanRaise("active", n, marks)
    PROVE  Leads(p, HardFailure(p), Point("active", n, said, marks))
  <1> DEFINE s1 == <<Tell(p, "site_finished", "failed")>> \o <<>>
             s2 == <<Tell(p, "parsing", "failed")>> \o s1
             s3 == <<Do("dead_letter")>> \o s2
             s4 == <<Log("failed")>> \o s3
  <1>0. /\ n \in 0..5 /\ n + 1 \in Nat /\ n + 1 \in 0..5 /\ n + 2 \in Nat /\ n + 2 = (n + 1) + 1 /\ "failed" \in Said
        /\ CanRaise("active", n, marks)
    BY DEF CanRaise, Said
  <1>1. Leads(p, <<>>, Point("failed", n + 2, "failed", marks))
    BY <1>0, EndLeads DEF Matches
  <1>2. Leads(p, s1, Point("active", n + 1, "failed", marks))
    BY <1>0, <1>1, FinishLeads
  <1>3. Leads(p, s2, Point("active", n, "failed", marks))
    BY <1>0, <1>2, TellLeads
  <1>4. Leads(p, s3, Point("active", n, "failed", marks))
    BY <1>0, <1>3, DoLeads
  <1>5. Leads(p, s4, Point("active", n, said, marks))
    BY <1>0, <1>4, LogLeads
  <1>6. HardFailure(p) = s4
    BY Tuple4 DEF HardFailure
  <1> QED BY <1>5, <1>6, Zenon

LEMMA PublishedLeads ==
    ASSUME NEW p \in Page, NEW n \in Nat, NEW marks \in SUBSET Marks, n <= 3,
           NEW said \in Said, NEW verdict \in {"needs_review", "skipped", "completed"}
    PROVE  Leads(p, Page_published(p, verdict), Point("active", n, said, marks))
  <1> DEFINE s1 == <<Tell(p, "site_finished", "passed")>> \o <<>>
             s2 == <<Tell(p, "parsing", "passed")>> \o s1
             s3 == <<Log(verdict)>> \o s2
             s4 == <<Do("send")>> \o s3
             s5 == <<Do("children")>> \o s4
  <1>0. /\ n \in 0..5 /\ n + 1 \in Nat /\ n + 1 \in 0..5 /\ n + 2 \in Nat /\ n + 2 = (n + 1) + 1 /\ verdict \in Said
        /\ CanRaise("active", n, marks)
    BY DEF CanRaise, Said
  <1>1. Leads(p, <<>>, Point("passed", n + 2, verdict, marks))
    BY <1>0, EndLeads DEF Matches
  <1>2. Leads(p, s1, Point("active", n + 1, verdict, marks))
    BY <1>0, <1>1, FinishLeads
  <1>3. Leads(p, s2, Point("active", n, verdict, marks))
    BY <1>0, <1>2, TellLeads
  <1>4. Leads(p, s3, Point("active", n, said, marks))
    BY <1>0, <1>3, LogLeads
  <1>5. Leads(p, s4, Point("active", n, said, marks))
    BY <1>0, <1>4, DoLeads
  <1>6. Leads(p, s5, Point("active", n, said, marks))
    BY <1>0, <1>5, DoLeads
  <1>7. Page_published(p, verdict) = s5
    BY Tuple5 DEF Page_published
  <1> QED BY <1>6, <1>7, Zenon

LEMMA DarkChallengedLeads ==
    ASSUME NEW p \in Page, NEW n \in Nat, NEW marks \in SUBSET Marks, n <= 3, NEW said \in Said, "rerouted" \notin marks
    PROVE  Leads(p, DarkChallenged(p), Point("active", n, said, marks))
  <1> DEFINE s1 == <<Do("escalate")>> \o <<>>
             s2 == <<Tell(p, "challenge_detected", "active")>> \o s1
             s3 == <<Log("escalated")>> \o s2
  <1>0. /\ n \in 0..5 /\ n + 1 \in Nat /\ "escalated" \in Said /\ CanRaise("active", n, marks)
        /\ CanRaise("active", n + 1, marks) /\ n + 1 <= 4
    BY DEF CanRaise, Said
  <1>1. Leads(p, s1, Point("active", n + 1, "escalated", marks))
    BY <1>0, AskLeads DEF Deciding
  <1>2. Leads(p, s2, Point("active", n, "escalated", marks))
    BY <1>0, <1>1, TellLeads
  <1>3. Leads(p, s3, Point("active", n, said, marks))
    BY <1>0, <1>2, LogLeads
  <1>4. DarkChallenged(p) = s3
    BY Tuple3 DEF DarkChallenged
  <1> QED BY <1>3, <1>4, Zenon

LEMMA DarkRejectedLeads ==
    ASSUME NEW p \in Page, NEW n \in Nat, NEW marks \in SUBSET Marks, n <= 3, NEW said \in Said
    PROVE  Leads(p, DarkRejected(p), Point("active", n, said, marks))
  <1>0. n \in 0..5 /\ "escalated" \in Said /\ CanRaise("active", n, marks)
    BY DEF CanRaise, Said
  <1>1. Leads(p, <<Do("escalate")>> \o <<>>, Point("active", n, "escalated", marks))
    BY <1>0, AskLeads DEF Deciding
  <1>2. Leads(p, <<Log("escalated")>> \o (<<Do("escalate")>> \o <<>>), Point("active", n, said, marks))
    BY <1>0, <1>1, LogLeads
  <1>3. DarkRejected(p) = <<Log("escalated")>> \o (<<Do("escalate")>> \o <<>>)
    BY Tuple2 DEF DarkRejected
  <1> QED BY <1>2, <1>3, Zenon

LEMMA DarkExhaustedLeads ==
    ASSUME NEW p \in Page, NEW n \in Nat, NEW marks \in SUBSET Marks, n <= 4
    PROVE  Leads(p, DarkExhausted(p), Point("active", n, "escalated", marks))
  <1>0. n \in 0..5 /\ n + 1 \in Nat /\ "escalated" \in Said
    BY DEF CanRaise, Said
  <1>1. Leads(p, <<>>, Point("failed", n + 1, "escalated", marks))
    BY <1>0, EndLeads DEF Matches
  <1>2. Leads(p, <<Tell(p, "site_finished", "failed")>> \o <<>>, Point("active", n, "escalated", marks))
    BY <1>0, <1>1, FinishLeads
  <1>3. DarkExhausted(p) = <<Tell(p, "site_finished", "failed")>> \o <<>>
    BY Tuple1 DEF DarkExhausted
  <1> QED BY <1>2, <1>3, Zenon

LEMMA DarkPublishedLeads ==
    ASSUME NEW p \in Page, NEW n \in Nat, NEW marks \in SUBSET Marks, n <= 3,
           NEW said \in Said, NEW verdict \in {"needs_review", "skipped", "completed"}
    PROVE  Leads(p, DarkPublished(p, verdict), Point("active", n, said, marks))
  <1> DEFINE s1 == <<Tell(p, "site_finished", "passed")>> \o <<>>
             s2 == <<Tell(p, "parsing", "passed")>> \o s1
             s3 == <<Log(verdict)>> \o s2
             s4 == <<Do("send")>> \o s3
             s5 == <<Do("save")>> \o s4
             s6 == <<Do("children")>> \o s5
  <1>0. /\ n \in 0..5 /\ n + 1 \in Nat /\ n + 1 \in 0..5 /\ n + 2 \in Nat /\ n + 2 = (n + 1) + 1 /\ verdict \in Said
        /\ CanRaise("active", n, marks)
    BY DEF CanRaise, Said
  <1>1. Leads(p, <<>>, Point("passed", n + 2, verdict, marks))
    BY <1>0, EndLeads DEF Matches
  <1>2. Leads(p, s1, Point("active", n + 1, verdict, marks))
    BY <1>0, <1>1, FinishLeads
  <1>3. Leads(p, s2, Point("active", n, verdict, marks))
    BY <1>0, <1>2, TellLeads
  <1>4. Leads(p, s3, Point("active", n, said, marks))
    BY <1>0, <1>3, LogLeads
  <1>5. Leads(p, s4, Point("active", n, said, marks))
    BY <1>0, <1>4, DoLeads
  <1>6. Leads(p, s5, Point("active", n, said, marks))
    BY <1>0, <1>5, DoLeads
  <1>7. Leads(p, s6, Point("active", n, said, marks))
    BY <1>0, <1>6, DoLeads
  <1>8. DarkPublished(p, verdict) = s6
    BY Tuple6 DEF DarkPublished
  <1> QED BY <1>7, <1>8, Zenon

LEMMA DarkCrashedLeads ==
    ASSUME NEW p \in Page, NEW n \in Nat, NEW marks \in SUBSET Marks, n <= 5, NEW said \in Said, "crashed" \in marks
    PROVE  Leads(p, DarkCrashed(p), Point("active", n, said, marks))
  <1> DEFINE s1 == <<Do("fail_job")>> \o <<>>
             s2 == <<Log("failed")>> \o s1
             s3 == <<Tell(p, "site_finished", "failed")>> \o s2
  <1>0. n \in 0..5 /\ n + 1 \in Nat /\ "failed" \in Said /\ CanRaise("failed", n + 1, marks)
    BY DEF CanRaise, Said
  <1>1. Leads(p, <<>>, Point("failed", n + 1, "failed", marks))
    BY <1>0, EndLeads DEF Matches
  <1>2. Leads(p, s1, Point("failed", n + 1, "failed", marks))
    BY <1>0, <1>1, DoLeads
  <1>3. Leads(p, s2, Point("failed", n + 1, said, marks))
    BY <1>0, <1>2, LogLeads
  <1>4. Leads(p, s3, Point("active", n, said, marks))
    BY <1>0, <1>3, FinishLeads
  <1>5. DarkCrashed(p) = s3
    BY Tuple3 DEF DarkCrashed
  <1> QED BY <1>4, <1>5, Zenon

LEMMA NonHtmlLeads ==
    ASSUME NEW p \in Page, NEW n \in Nat, NEW marks \in SUBSET Marks, n <= 2, NEW said \in Said, NEW kind
    PROVE  Leads(p, process_non_html_content(p, kind), Point("active", n, said, marks))
  <1>0. n \in 0..5 /\ n + 1 \in Nat /\ n + 1 <= 3 /\ CanRaise("active", n + 1, marks)
    BY DEF CanRaise
  <1>1. PICK step \in {"hand_off", "ingest"} : process_non_html_content(p, kind) = <<Tell(p, "fetching", "active"), Do(step)>>
    BY DEF process_non_html_content
  <1>2. Leads(p, <<Do(step)>> \o <<>>, Point("active", n + 1, said, marks))
    BY <1>0, AskLeads DEF Deciding
  <1>3. Leads(p, <<Tell(p, "fetching", "active")>> \o (<<Do(step)>> \o <<>>), Point("active", n, said, marks))
    BY <1>0, <1>2, TellLeads
  <1>4. process_non_html_content(p, kind) = <<Tell(p, "fetching", "active")>> \o (<<Do(step)>> \o <<>>)
    BY <1>1, Tuple2, Zenon
  <1> QED BY <1>3, <1>4, Zenon

LEMMA HandedOffLeads ==
    ASSUME NEW p \in Page, NEW n \in Nat, NEW marks \in SUBSET Marks, n <= 3, NEW said \in Said, NEW done \in BOOLEAN
    PROVE  Leads(p, HandedOff(p, done), Point("active", n, said, marks))
  <1>0. n \in 0..5 /\ n + 1 \in Nat /\ CanRaise("active", n, marks)
    BY DEF CanRaise
  <1>1. PICK state \in {"passed", "failed"} : HandedOff(p, done) = <<Log(state), Tell(p, "site_finished", state)>>
    BY DEF HandedOff
  <1>2. state \in Said /\ Matches(state, state)
    BY DEF Said, Matches
  <1>3. Leads(p, <<>>, Point(state, n + 1, state, marks))
    BY <1>0, <1>2, EndLeads
  <1>4. Leads(p, <<Tell(p, "site_finished", state)>> \o <<>>, Point("active", n, state, marks))
    BY <1>0, <1>2, <1>3, FinishLeads
  <1>5. Leads(p, <<Log(state)>> \o (<<Tell(p, "site_finished", state)>> \o <<>>), Point("active", n, said, marks))
    BY <1>0, <1>4, LogLeads
  <1>6. HandedOff(p, done) = <<Log(state)>> \o (<<Tell(p, "site_finished", state)>> \o <<>>)
    BY <1>1, Tuple2, Zenon
  <1> QED BY <1>5, <1>6, Zenon

LEMMA FetchedLeads ==
    ASSUME NEW p \in Page, NEW n \in Nat, NEW marks \in SUBSET Marks, n <= 2, NEW said \in Said, NEW a,
           "surface" \in marks, ~Reroutes(a) => "rerouted" \notin marks
    PROVE  Leads(p, Fetched(p, a), Point("active", n, said, marks))
  <1>1. CASE Reroutes(a)
    BY <1>1, NonHtmlLeads DEF Fetched
  <1>2. CASE ~Reroutes(a)
    <2>0. PICK state \in {"active", "failed", "passed"} :
             \E s \in {Escalating(p), HardFailure(p), Page_published(p, validate(a))} :
                Fetched(p, a) = <<Tell(p, "fetching", state)>> \o s
      BY SMTT(20), <1>2 DEF Fetched
    <2>1. PICK s \in {Escalating(p), HardFailure(p), Page_published(p, validate(a))} :
             Fetched(p, a) = <<Tell(p, "fetching", state)>> \o s
      BY <2>0
    <2>2. n \in 0..5 /\ n + 1 \in Nat /\ n + 1 <= 3 /\ n + 1 <= 4 /\ CanRaise("active", n + 1, marks)
      BY DEF CanRaise
    <2>3. Leads(p, s, Point("active", n + 1, said, marks))
      BY <1>2, <2>1, <2>2, EscalatingLeads, HardFailureLeads, PublishedLeads, Verdicts
    <2> QED BY <2>1, <2>2, <2>3, TellLeads
  <1> QED BY <1>1, <1>2

LEMMA DarkFetchedLeads ==
    ASSUME NEW p \in Page, NEW n \in Nat, NEW marks \in SUBSET Marks, n <= 2, NEW said \in Said, NEW a, "rerouted" \notin marks
    PROVE  Leads(p, DarkFetched(p, a), Point("active", n, said, marks))
  <1>1. PICK s : /\ DarkFetched(p, a) = <<Tell(p, "fetching", "passed")>> \o s
                 /\ s \in {DarkChallenged(p), DarkRejected(p), DarkPublished(p, validate(a))}
    BY DEF DarkFetched, fetch_url
  <1>2. n \in 0..5 /\ n + 1 \in Nat /\ n + 1 <= 3
    OBVIOUS
  <1>3. Leads(p, s, Point("active", n + 1, said, marks))
    BY <1>1, <1>2, DarkChallengedLeads, DarkRejectedLeads, DarkPublishedLeads, Verdicts
  <1> QED BY <1>1, <1>2, <1>3, TellLeads

\* What a rerouted document raises.
LEMMA RaisedLeads ==
    ASSUME NEW p \in Page, NEW n \in Nat, NEW marks \in SUBSET Marks, n <= 3, NEW said \in Said, "rerouted" \notin marks
    PROVE  Leads(p, <<Tell(p, "fetching", "failed")>> \o HardFailure(p), Point("active", n, said, marks))
  <1>1. n \in 0..5 /\ n + 1 \in Nat /\ n + 1 <= 4 /\ CanRaise("active", n + 1, marks)
    BY DEF CanRaise
  <1>2. Leads(p, HardFailure(p), Point("active", n + 1, said, marks))
    BY <1>1, HardFailureLeads
  <1> QED BY <1>1, <1>2, TellLeads

-----------------------------------------------------------------------------
(* The history. *)

\* The lines of a page are no more than b.
Lines(h, p)  == {n \in DOMAIN h : h[n].url = p}
Few(h, p, b) == \E r \in [Lines(h, p) -> 1..b] : \A m, n \in Lines(h, p) : r[m] = r[n] => m = n

\* The last line of a site that is open; the last two of one that is closed.
Working(h, p, m) == m \in Lines(h, p) /\ h[m].stage # "site_finished"
Opened(h, p, m)  == Working(h, p, m) /\ \A k \in Lines(h, p) : k <= m
Closed(h, p, m, n, told) ==
    /\ Working(h, p, m)
    /\ n \in Lines(h, p) /\ m < n /\ h[n].stage = "site_finished" /\ h[n].state = told
    /\ \A k \in Lines(h, p) : k <= m \/ k = n
Holds(h, p, told) ==
    /\ told = "active" => \E m \in DOMAIN h : Opened(h, p, m)
    /\ told \in {"failed", "passed"} => \E m, n \in DOMAIN h : Closed(h, p, m, n, told)

\* g is h and one more line.
More(g, h, e) == g = Append(h, e)

LEMMA AppendIs ==
    ASSUME NEW S, NEW h \in Seq(S), NEW e \in S, NEW g, More(g, h, e)
    PROVE  /\ g \in Seq(S) /\ Len(h) \in Nat /\ Len(g) = Len(h) + 1 /\ g[Len(h) + 1] = e
           /\ \A n \in 1..Len(h) : g[n] = h[n]
           /\ DOMAIN g = 1..(Len(h) + 1) /\ DOMAIN h = 1..Len(h)
  BY DEF More

LEMMA LinesIff ==
    ASSUME NEW h \in Seq(Event), NEW e \in Event, NEW g, More(g, h, e), NEW p
    PROVE  /\ \A n : n \in Lines(g, p) <=> n \in Lines(h, p) \/ (n = Len(h) + 1 /\ e.url = p)
           /\ Lines(h, p) \subseteq 1..Len(h) /\ Len(h) \in Nat /\ Len(h) + 1 \notin Lines(h, p)
  <1>1. /\ Len(h) \in Nat /\ g[Len(h) + 1] = e /\ DOMAIN g = 1..(Len(h) + 1) /\ DOMAIN h = 1..Len(h)
        /\ \A n \in 1..Len(h) : g[n] = h[n]
    BY AppendIs
  <1>2. \A n : n \in 1..(Len(h) + 1) <=> n \in 1..Len(h) \/ n = Len(h) + 1
    BY <1>1
  <1>3. \A n : n \in Lines(h, p) <=> n \in 1..Len(h) /\ h[n].url = p
    BY <1>1 DEF Lines
  <1>4. \A n : n \in Lines(g, p) <=> n \in 1..(Len(h) + 1) /\ g[n].url = p
    BY <1>1 DEF Lines
  <1>5. Len(h) + 1 \notin 1..Len(h)
    BY <1>1
  <1>6. ASSUME NEW n PROVE n \in Lines(g, p) <=> n \in Lines(h, p) \/ (n = Len(h) + 1 /\ e.url = p)
    <2>1. CASE n \in 1..Len(h)
      BY <1>1, <1>2, <1>3, <1>4, <1>5, <2>1
    <2>2. CASE n = Len(h) + 1
      BY <1>1, <1>2, <1>3, <1>4, <1>5, <2>2
    <2>3. CASE n \notin 1..(Len(h) + 1)
      BY <1>2, <1>3, <1>4, <2>3
    <2> QED BY <1>2, <2>1, <2>2, <2>3
  <1> QED BY <1>1, <1>3, <1>5, <1>6

LEMMA LinesOf ==
    ASSUME NEW h \in Seq(Event), NEW e \in Event, NEW g, More(g, h, e), NEW p, e.url = p
    PROVE  /\ Lines(g, p) = Lines(h, p) \cup {Len(h) + 1}
           /\ Lines(h, p) \subseteq 1..Len(h) /\ Len(h) \in Nat /\ Len(h) + 1 \notin Lines(h, p)
  BY LinesIff

LEMMA LinesOther ==
    ASSUME NEW h \in Seq(Event), NEW e \in Event, NEW g, More(g, h, e), NEW p, e.url # p
    PROVE  Lines(g, p) = Lines(h, p) /\ Lines(h, p) \subseteq 1..Len(h) /\ Len(h) \in Nat
  <1>1. ASSUME NEW n PROVE n \in Lines(g, p) <=> n \in Lines(h, p)
    BY LinesIff
  <1>2. Lines(h, p) \subseteq 1..Len(h) /\ Len(h) \in Nat
    BY LinesIff
  <1> QED BY <1>1, <1>2

\* A line of another page changes nothing for this one.
LEMMA AppendOther ==
    ASSUME NEW h \in Seq(Event), NEW e \in Event, NEW g, More(g, h, e), NEW p, e.url # p
    PROVE  /\ \A b : Few(h, p, b) => Few(g, p, b)
           /\ \A told : Holds(h, p, told) => Holds(g, p, told)
  <1>1. Lines(g, p) = Lines(h, p) /\ Lines(h, p) \subseteq 1..Len(h) /\ Len(h) \in Nat
    BY LinesOther
  <1>2. DOMAIN h \subseteq DOMAIN g /\ \A n \in Lines(h, p) : g[n] = h[n]
    BY <1>1, AppendIs
  <1>3. \A m : Working(h, p, m) => Working(g, p, m)
    BY <1>1, <1>2 DEF Working
  <1>4. \A m : Opened(h, p, m) => Opened(g, p, m)
    BY <1>1, <1>3 DEF Opened
  <1>5. \A m, n, told : Closed(h, p, m, n, told) => Closed(g, p, m, n, told)
    BY <1>1, <1>2, <1>3 DEF Closed
  <1> QED BY <1>1, <1>2, <1>4, <1>5 DEF Few, Holds

LEMMA AppendFew ==
    ASSUME NEW h \in Seq(Event), NEW e \in Event, NEW g, More(g, h, e), NEW p, NEW b \in Nat, Few(h, p, b)
    PROVE  Few(g, p, b + 1)
  <1>1. Lines(g, p) \subseteq Lines(h, p) \cup {Len(h) + 1} /\ Len(h) + 1 \notin Lines(h, p)
    BY LinesIff
  <1>2. PICK r \in [Lines(h, p) -> 1..b] : \A m, n \in Lines(h, p) : r[m] = r[n] => m = n
    BY DEF Few
  <1>3. PICK t : t = [n \in Lines(g, p) |-> IF n \in Lines(h, p) THEN r[n] ELSE b + 1]
    OBVIOUS
  <1>4. t \in [Lines(g, p) -> 1..(b + 1)]
    <2>1. b + 1 \in 1..(b + 1) /\ 1..b \subseteq 1..(b + 1)
      OBVIOUS
    <2> QED BY <1>2, <1>3, <2>1
  <1>5. ASSUME NEW m \in Lines(g, p), NEW n \in Lines(g, p), t[m] = t[n] PROVE m = n
    <2>1. \A k \in Lines(h, p) : r[k] # b + 1
      BY <1>2
    <2> QED BY <1>1, <1>2, <1>3, <1>5, <2>1
  <1> QED BY <1>4, <1>5 DEF Few

LEMMA FewGrows ==
    ASSUME NEW h, NEW p, NEW b \in Nat, NEW c \in Nat, b <= c, Few(h, p, b)
    PROVE  Few(h, p, c)
  <1>1. 1..b \subseteq 1..c
    OBVIOUS
  <1> QED BY <1>1 DEF Few

LEMMA AppendTells ==
    ASSUME NEW h \in Seq(Event), NEW e \in Event, NEW g, More(g, h, e), NEW p, e.url = p, e.stage # "site_finished"
    PROVE  Holds(g, p, "active")
  <1>1. /\ Lines(g, p) = Lines(h, p) \cup {Len(h) + 1} /\ Lines(h, p) \subseteq 1..Len(h) /\ Len(h) \in Nat
    BY LinesOf
  <1>2. Len(h) + 1 \in DOMAIN g /\ g[Len(h) + 1] = e
    BY <1>1, AppendIs
  <1>3. \A k \in Lines(g, p) : k <= Len(h) + 1
    BY <1>1
  <1>4. Opened(g, p, Len(h) + 1)
    BY <1>1, <1>2, <1>3 DEF Opened, Working
  <1> QED BY <1>2, <1>4 DEF Holds

LEMMA AppendFinishes ==
    ASSUME NEW h \in Seq(Event), NEW e \in Event, NEW g, More(g, h, e), NEW p, e.url = p, e.stage = "site_finished",
           e.state \in {"failed", "passed"}, Holds(h, p, "active")
    PROVE  Holds(g, p, e.state)
  <1>1. PICK m \in DOMAIN h : Opened(h, p, m)
    BY DEF Holds
  <1>2. /\ Lines(g, p) = Lines(h, p) \cup {Len(h) + 1}
        /\ Lines(h, p) \subseteq 1..Len(h) /\ Len(h) \in Nat /\ Len(h) + 1 \notin Lines(h, p)
    BY LinesOf
  <1>3. Len(h) + 1 \in DOMAIN g /\ g[Len(h) + 1] = e /\ m \in DOMAIN g /\ g[m] = h[m] /\ m \in Lines(h, p) /\ m < Len(h) + 1
    BY <1>1, <1>2, AppendIs DEF Opened, Working
  <1>4. Working(g, p, m)
    BY <1>1, <1>2, <1>3 DEF Working, Opened
  <1>5. Closed(g, p, m, Len(h) + 1, e.state)
    BY <1>1, <1>2, <1>3, <1>4 DEF Opened, Closed
  <1> QED BY <1>3, <1>5 DEF Holds

\* The history has room for two lines besides those that all other pages can leave there, twelve
\* each: six of a delivery, and six of the one before a kill.
Roomy == IsFiniteSet(Page) /\ JOB_HISTORY_MAX_LINES >= 2 + 12 * (Cardinality(Page) - 1)

\* When the list is full, a line of the page itself is among those that stay, whichever other is
\* left out of account.
LEMMA RoomForTwo ==
    ASSUME Roomy, NEW g \in Seq(Event), Len(g) = JOB_HISTORY_MAX_LINES + 1, \A n \in DOMAIN g : g[n].url \in Page,
           NEW p \in Page, \A q \in Page \ {p} : Few(g, q, 12), NEW k
    PROVE  \E n \in Lines(g, p) : n > 1 /\ n # k
  <1>0. JOB_HISTORY_MAX_LINES \in Nat \ {0} /\ DOMAIN g = 1..(JOB_HISTORY_MAX_LINES + 1)
    BY LiveAssumption
  <1> DEFINE L == JOB_HISTORY_MAX_LINES
             Others == Page \ {p}
             S == (2..(L + 1)) \ {k}
             T == Others \X (1..12)
             One(q, r) == r \in [Lines(g, q) -> 1..12] /\ \A m, n \in Lines(g, q) : r[m] = r[n] => m = n
  <1> SUFFICES ASSUME \A n \in S : g[n].url # p PROVE FALSE
    <2>1. \A n \in S : n \in DOMAIN g /\ n > 1 /\ n # k
      BY <1>0
    <2> QED BY <2>1 DEF Lines
  <1>1. PICK R : \A q \in Others : One(q, R[q])
    <2>1. \A q \in Others : \E r : One(q, r)
      BY DEF Few
    <2>2. \A q \in Others : One(q, [x \in Others |-> CHOOSE r : One(x, r)][q])
      BY <2>1
    <2> QED BY <2>2
  <1>2. \A n \in S : g[n].url \in Others /\ n \in Lines(g, g[n].url)
    <2>1. \A n \in S : n \in DOMAIN g
      BY <1>0
    <2> QED BY <2>1 DEF Lines
  <1>3. \A n \in S : R[g[n].url][n] \in 1..12
    <2> SUFFICES ASSUME NEW n \in S PROVE R[g[n].url][n] \in 1..12
      OBVIOUS
    <2>1. PICK q \in Others : q = g[n].url /\ n \in Lines(g, q)
      BY <1>2
    <2>2. R[q] \in [Lines(g, q) -> 1..12]
      BY <1>1
    <2> QED BY <2>1, <2>2
  <1>4. PICK f : f = [n \in S |-> <<g[n].url, R[g[n].url][n]>>]
    OBVIOUS
  <1>5. f \in [S -> T]
    BY <1>2, <1>3, <1>4
  <1>6. IsFiniteSet(S) /\ Cardinality(S) >= L - 1
    <2>1. PICK I : I = 2..(L + 1)
      OBVIOUS
    <2>2. 2 \in Int /\ L + 1 \in Int /\ ~(2 > L + 1) /\ (L + 1) - 2 + 1 = L
      BY <1>0
    <2>3. IsFiniteSet(I) /\ Cardinality(I) = L
      BY <2>1, <2>2, FS_Interval
    <2>4. IsFiniteSet(I \ {k}) /\ Cardinality(I \ {k}) \in {L, L - 1}
      BY <2>3, FS_RemoveElement
    <2> QED BY <1>0, <2>1, <2>4
  <1>7. IsFiniteSet(T) /\ Cardinality(T) <= L - 2
    <2>1. IsFiniteSet(Others) /\ Cardinality(Others) = Cardinality(Page) - 1
      BY FS_RemoveElement DEF Roomy
    <2>2. 1 \in Int /\ 12 \in Int /\ ~(1 > 12) /\ 12 - 1 + 1 = 12
      OBVIOUS
    <2>3. IsFiniteSet(1..12) /\ Cardinality(1..12) = 12
      BY <2>2, FS_Interval
    <2>4. IsFiniteSet(T) /\ Cardinality(T) = Cardinality(Others) * Cardinality(1..12)
      BY <2>1, <2>3, FS_Product
    <2>5. Cardinality(Page) \in Nat /\ Cardinality(Others) \in Nat
      BY <2>1, FS_CardinalityType DEF Roomy
    <2> QED BY <1>0, <2>1, <2>3, <2>4, <2>5 DEF Roomy
  <1>8. Cardinality(T) < Cardinality(S)
    BY <1>0, <1>6, <1>7, FS_CardinalityType
  <1>9. PICK x \in S, y \in S : x # y /\ f[x] = f[y]
    <2> HIDE DEF S, T
    <2> QED BY <1>5, <1>6, <1>7, <1>8, FS_PigeonHole
  <1>10. g[x].url = g[y].url /\ R[g[x].url][x] = R[g[y].url][y]
    <2>1. \A n \in S : f[n][1] = g[n].url /\ f[n][2] = R[g[n].url][n]
      BY <1>4
    <2>2. f[x][1] = f[y][1] /\ f[x][2] = f[y][2]
      BY <1>9
    <2> QED BY <1>9, <2>1, <2>2
  <1>11. PICK q \in Others : q = g[x].url /\ x \in Lines(g, q) /\ y \in Lines(g, q)
    BY <1>2, <1>10
  <1>12. R[q][x] = R[q][y]
    BY <1>10, <1>11
  <1> QED BY <1>1, <1>9, <1>11, <1>12

\* What is trimmed is the oldest line.
LEMMA TrimIs ==
    ASSUME NEW g \in Seq(Event), Len(g) <= JOB_HISTORY_MAX_LINES + 1, NEW t, t = Trim(g)
    PROVE  /\ t \in Seq(Event) /\ Len(t) <= JOB_HISTORY_MAX_LINES
           /\ \E d \in {0, 1} : /\ d = 1 => Len(g) = JOB_HISTORY_MAX_LINES + 1
                                /\ Len(t) = Len(g) - d /\ \A n \in 1..Len(t) : t[n] = g[n + d]
  <1>0. JOB_HISTORY_MAX_LINES \in Nat \ {0} /\ Len(g) \in Nat
    BY LiveAssumption
  <1>1. CASE Len(g) <= JOB_HISTORY_MAX_LINES
    <2>1. t = g
      BY <1>1 DEF Trim
    <2>2. \A n \in 1..Len(t) : t[n] = g[n + 0]
      BY <2>1
    <2> QED BY <1>0, <1>1, <2>1, <2>2
  <1>2. CASE Len(g) = JOB_HISTORY_MAX_LINES + 1
    <2>1. t = SubSeq(g, 2, Len(g))
      BY <1>0, <1>2 DEF Trim
    <2>2. t \in Seq(Event) /\ Len(t) = Len(g) - 1 /\ \A n \in 1..Len(t) : t[n] = g[n + 1]
      BY <1>0, <1>2, <2>1
    <2> QED BY <1>0, <1>2, <2>2
  <1> QED BY <1>0, <1>1, <1>2

\* t is g without its first d lines.
Shifted(g, t, d) == t \in Seq(Event) /\ Len(t) = Len(g) - d /\ \A n \in 1..Len(t) : t[n] = g[n + d]

LEMMA TrimLines ==
    ASSUME NEW g \in Seq(Event), NEW t, NEW d \in {0, 1}, Shifted(g, t, d), NEW p
    PROVE  /\ \A n : n \in Lines(t, p) <=> n \in 1..Len(t) /\ n + d \in Lines(g, p)
           /\ \A n \in Lines(g, p) : n > d => n - d \in Lines(t, p) /\ t[n - d] = g[n]
  <1>0. t \in Seq(Event) /\ Len(t) = Len(g) - d /\ \A n \in 1..Len(t) : t[n] = g[n + d]
    BY DEF Shifted
  <1>1. Len(g) \in Nat /\ Len(t) \in Nat /\ DOMAIN g = 1..Len(g) /\ DOMAIN t = 1..Len(t)
    BY <1>0
  <1>2. \A n \in 1..Len(t) : n + d \in DOMAIN g
    BY <1>0, <1>1
  <1>3. ASSUME NEW n PROVE n \in Lines(t, p) <=> n \in 1..Len(t) /\ n + d \in Lines(g, p)
    BY <1>0, <1>1, <1>2 DEF Lines
  <1>4. ASSUME NEW n \in Lines(g, p), n > d PROVE n - d \in Lines(t, p) /\ t[n - d] = g[n]
    <2>1. n \in 1..Len(g) /\ n - d \in 1..Len(t) /\ (n - d) + d = n
      BY <1>0, <1>1, <1>4 DEF Lines
    <2> QED BY <1>0, <1>3, <2>1
  <1> QED BY <1>3, <1>4

LEMMA ShiftFew ==
    ASSUME NEW g \in Seq(Event), NEW t \in Seq(Event), NEW d \in {0, 1}, Len(t) = Len(g) - d,
           \A n \in 1..Len(t) : t[n] = g[n + d], NEW p, NEW b \in Nat, Few(g, p, b)
    PROVE  Few(t, p, b)
  <1>2. \A n \in Lines(t, p) : n \in Nat /\ n + d \in Lines(g, p)
    <2>1. Len(g) \in Nat /\ Len(t) \in Nat /\ DOMAIN g = 1..Len(g) /\ DOMAIN t = 1..Len(t)
      OBVIOUS
    <2>2. \A n \in 1..Len(t) : n + d \in DOMAIN g
      BY <2>1
    <2> QED BY <2>1, <2>2 DEF Lines
  <1>3. PICK r \in [Lines(g, p) -> 1..b] : \A m, n \in Lines(g, p) : r[m] = r[n] => m = n
    BY DEF Few
  <1>4. PICK u : u = [n \in Lines(t, p) |-> r[n + d]]
    OBVIOUS
  <1>5. u \in [Lines(t, p) -> 1..b]
    BY <1>2, <1>3, <1>4
  <1>6. ASSUME NEW m \in Lines(t, p), NEW n \in Lines(t, p), u[m] = u[n] PROVE m = n
    <2>1. m + d \in Lines(g, p) /\ n + d \in Lines(g, p) /\ r[m + d] = r[n + d]
      BY <1>2, <1>4, <1>6
    <2>2. m + d = n + d
      BY <1>3, <2>1
    <2> QED BY <1>2, <2>2
  <1> QED BY <1>5, <1>6 DEF Few

LEMMA TrimFew ==
    ASSUME NEW g \in Seq(Event), Len(g) <= JOB_HISTORY_MAX_LINES + 1, NEW t, t = Trim(g), NEW p, NEW b \in Nat, Few(g, p, b)
    PROVE  Few(t, p, b)
  <1>1. PICK d \in {0, 1} : t \in Seq(Event) /\ Len(t) = Len(g) - d /\ \A n \in 1..Len(t) : t[n] = g[n + d]
    BY TrimIs
  <1> QED BY <1>1, ShiftFew

\* The line that goes is not one of the last two of a site.
LEMMA TrimHolds ==
    ASSUME Roomy, NEW g \in Seq(Event), Len(g) <= JOB_HISTORY_MAX_LINES + 1, NEW t, t = Trim(g),
           \A n \in DOMAIN g : g[n].url \in Page, NEW p \in Page, \A q \in Page \ {p} : Few(g, q, 12),
           NEW told, Holds(g, p, told)
    PROVE  Holds(t, p, told)
  <1>1. PICK d \in {0, 1} : /\ t \in Seq(Event) /\ Len(t) = Len(g) - d /\ \A n \in 1..Len(t) : t[n] = g[n + d]
                            /\ d = 1 => Len(g) = JOB_HISTORY_MAX_LINES + 1
    BY TrimIs
  <1>2. /\ \A n \in Lines(t, p) : n \in Nat /\ n + d \in Lines(g, p)
        /\ \A n \in Lines(g, p) : n \in Nat \ {0} /\ (n > d => n - d \in Lines(t, p) /\ t[n - d] = g[n])
    <2>1. Lines(g, p) \subseteq Nat \ {0}
      BY DEF Lines
    <2>2. Shifted(g, t, d)
      BY <1>1 DEF Shifted
    <2>3. \A n : n \in Lines(t, p) <=> n \in 1..Len(t) /\ n + d \in Lines(g, p)
      BY <2>2, TrimLines
    <2>4. \A n \in Lines(g, p) : n > d => n - d \in Lines(t, p) /\ t[n - d] = g[n]
      BY <2>2, TrimLines
    <2> QED BY <1>1, <2>1, <2>3, <2>4
  <1>3. Lines(t, p) \subseteq DOMAIN t
    BY DEF Lines
  <1>4. ASSUME NEW m, Opened(g, p, m) PROVE \E k \in DOMAIN t : Opened(t, p, k)
    <2>1. m \in Lines(g, p) /\ m \in Nat \ {0}
      BY <1>2, <1>4 DEF Opened, Working
    <2>2. m > d
      <3>1. d = 1 => \E n \in Lines(g, p) : n > 1
        BY <1>1, RoomForTwo
      <3> QED BY <1>2, <1>4, <2>1, <3>1 DEF Opened
    <2>3. m - d \in Lines(t, p) /\ t[m - d] = g[m]
      BY <1>2, <2>1, <2>2
    <2>4. ASSUME NEW k \in Lines(t, p) PROVE k <= m - d
      <3>1. k + d <= m
        BY <1>2, <1>4 DEF Opened
      <3> QED BY <1>2, <2>1, <3>1
    <2>5. Opened(t, p, m - d)
      BY <1>4, <2>3, <2>4 DEF Opened, Working
    <2> QED BY <1>3, <2>3, <2>5
  <1>5. ASSUME NEW m, NEW n, Closed(g, p, m, n, told) PROVE \E k, l \in DOMAIN t : Closed(t, p, k, l, told)
    <2>1. m \in Lines(g, p) /\ m \in Nat \ {0} /\ n \in Lines(g, p) /\ n \in Nat \ {0} /\ m < n
      BY <1>2, <1>5 DEF Closed, Working
    <2>2. m > d
      <3>1. d = 1 => \E k \in Lines(g, p) : k > 1 /\ k # n
        BY <1>1, RoomForTwo
      <3> QED BY <1>2, <1>5, <2>1, <3>1 DEF Closed
    <2>3. m - d \in Lines(t, p) /\ t[m - d] = g[m] /\ n - d \in Lines(t, p) /\ t[n - d] = g[n] /\ m - d < n - d
      BY <1>2, <2>1, <2>2
    <2>4. ASSUME NEW k \in Lines(t, p) PROVE k <= m - d \/ k = n - d
      <3>1. k + d <= m \/ k + d = n
        BY <1>2, <1>5 DEF Closed
      <3> QED BY <1>2, <2>1, <3>1
    <2>5. Closed(t, p, m - d, n - d, told)
      BY <1>5, <2>3, <2>4 DEF Closed, Working
    <2> QED BY <1>3, <2>3, <2>5
  <1> QED BY <1>4, <1>5 DEF Holds

-----------------------------------------------------------------------------
(* What the history keeps when a line is pushed. *)

\* t is g, which is h and a line of p, without what had to go.
PushKeeps(h, g, t, p) ==
    /\ t \in Seq(Event) /\ Len(t) <= JOB_HISTORY_MAX_LINES /\ \A n \in DOMAIN t : t[n].url \in Page
    /\ \A b \in Nat : Few(h, p, b) => Few(t, p, b + 1)
    /\ \A told : Holds(g, p, told) => Holds(t, p, told)
    /\ \A q \in Page \ {p} : /\ \A b \in Nat : Few(h, q, b) => Few(t, q, b)
                             /\ \A told : Holds(h, q, told) => Holds(t, q, told)

LEMMA PushIs ==
    ASSUME Roomy, NEW h \in Seq(Event), Len(h) <= JOB_HISTORY_MAX_LINES, \A n \in DOMAIN h : h[n].url \in Page,
           NEW p \in Page, NEW e \in Event, e.url = p, NEW g, More(g, h, e), NEW t, t = Trim(g),
           Few(h, p, 11), \A q \in Page \ {p} : Few(h, q, 12)
    PROVE  PushKeeps(h, g, t, p)
  <1>1. /\ g \in Seq(Event) /\ Len(g) = Len(h) + 1 /\ Len(h) \in Nat /\ g[Len(h) + 1] = e
        /\ \A n \in 1..Len(h) : g[n] = h[n]
        /\ DOMAIN g = 1..(Len(h) + 1) /\ DOMAIN h = 1..Len(h)
    BY AppendIs
  <1>2. \A n \in DOMAIN g : g[n].url \in Page
    <2>1. \A n \in DOMAIN g : n \in 1..Len(h) \/ n = Len(h) + 1
      BY <1>1
    <2> QED BY <1>1, <2>1
  <1>3. Len(g) <= JOB_HISTORY_MAX_LINES + 1
    BY <1>1, LiveAssumption
  <1>4. PICK d \in {0, 1} : t \in Seq(Event) /\ Len(t) = Len(g) - d /\ (\A n \in 1..Len(t) : t[n] = g[n + d])
                            /\ Len(t) <= JOB_HISTORY_MAX_LINES
    BY <1>1, <1>3, TrimIs
  <1>5. \A n \in DOMAIN t : t[n].url \in Page
    <2>1. \A n \in DOMAIN t : n \in 1..Len(t) /\ n + d \in DOMAIN g
      BY <1>1, <1>4
    <2> QED BY <1>2, <1>4, <2>1
  <1>6. \A b \in Nat : Few(h, p, b) => Few(g, p, b + 1)
    BY AppendFew
  <1>7. \A q \in Page \ {p} : /\ \A b : Few(h, q, b) => Few(g, q, b)
                              /\ \A told : Holds(h, q, told) => Holds(g, q, told)
    BY AppendOther
  <1>8. \A q \in Page : Few(g, q, 12)
    <2>1. 11 \in Nat /\ 11 + 1 = 12
      OBVIOUS
    <2>2. Few(g, p, 12)
      BY <1>6, <2>1
    <2> QED BY <1>7, <2>2
  <1>9. \A q \in Page, b \in Nat : Few(g, q, b) => Few(t, q, b)
    BY <1>1, <1>3, TrimFew
  <1>10. \A q \in Page : \A told : Holds(g, q, told) => Holds(t, q, told)
    BY <1>1, <1>2, <1>3, <1>8, TrimHolds
  <1>11. \A b \in Nat : b + 1 \in Nat
    OBVIOUS
  <1>12. \A b \in Nat : Few(h, p, b) => Few(t, p, b + 1)
    BY <1>6, <1>9, <1>11
  <1>13. \A q \in Page \ {p} : /\ \A b \in Nat : Few(h, q, b) => Few(t, q, b)
                               /\ \A told : Holds(h, q, told) => Holds(t, q, told)
    BY <1>7, <1>9, <1>10
  <1> QED BY <1>4, <1>5, <1>10, <1>12, <1>13 DEF PushKeeps

-----------------------------------------------------------------------------
(* Where every page is in the history. *)

\* A killed delivery may have left its lines. The process dies once.
Again(f) == IF "kill" \in f THEN 6 ELSE 0
Marked(t) == (IF IsDark THEN {} ELSE {"surface"}) \cup (IF t.rerouted THEN {"rerouted"} ELSE {})
             \cup (IF t.crashed THEN {"crashed"} ELSE {})

Going(h, p, t, c) ==
    \E told \in {"none", "active", "failed", "passed"}, n \in 0..6 :
       Holds(h, p, told) /\ Few(h, p, n + c) /\ Leads(p, t.script, Point(told, n, t.said, Marked(t)))
Settled(h, p, t) ==
    t.at = "settled" /\ t.said # None => \E told \in {"failed", "passed"} : Matches(t.said, told) /\ Holds(h, p, told)
TaskTold(h, p, t, c) ==
    /\ t.at = "queued" => Few(h, p, c)
    /\ t.at = "working" => Going(h, p, t, c)
    /\ t.at \notin {"queued", "working"} => Few(h, p, 6 + c) /\ Settled(h, p, t)

Told ==
    /\ Len(history) <= JOB_HISTORY_MAX_LINES
    /\ \A n \in DOMAIN history : history[n].url \in Page
    /\ \A p \in Page : TaskTold(history, p, crawl[p], Again(faults))
TellInv ==
    /\ \A p \in Page : crawl[p].crashed => "raise" \in faults
    /\ "redis" \notin faults => Told

LEMMA MarkedTyped == ASSUME NEW t PROVE Marked(t) \in SUBSET Marks
  BY DEF Marked, Marks

LEMMA AgainTyped == ASSUME NEW f PROVE Again(f) \in {0, 6}
  BY DEF Again

\* The step at the head of a script, and the point it is at.
Stands(h, p, c, step, told, n, q) ==
    /\ Holds(h, p, told) /\ Few(h, p, n + c) /\ q = Point(told, n, crawl[p].said, Marked(crawl[p]))
    /\ q.told = told /\ q.lines = n /\ q.said = crawl[p].said /\ q.marks = Marked(crawl[p])
    /\ Allowed(p, Head(crawl[p].script), q) /\ Leads(p, Rest(p), After(Head(crawl[p].script), q))
    /\ Head(crawl[p].script) \in ScriptStep /\ Head(crawl[p].script).do = step /\ crawl[p].said \in Said

LEMMA AtTells ==
    ASSUME CrawlInv, NEW p \in Page, NEW step, At(p, step), NEW h, NEW c \in Nat, Going(h, p, crawl[p], c)
    PROVE  \E told \in {"none", "active", "failed", "passed"}, n \in 0..6, q \in Points : Stands(h, p, c, step, told, n, q)
  <1>1. PICK told \in {"none", "active", "failed", "passed"}, n \in 0..6 :
           Holds(h, p, told) /\ Few(h, p, n + c) /\ Leads(p, crawl[p].script, Point(told, n, crawl[p].said, Marked(crawl[p])))
    BY DEF Going
  <1>2. PICK s, q : s = crawl[p].script /\ q = Point(told, n, crawl[p].said, Marked(crawl[p]))
    OBVIOUS
  <1>3. Leads(p, s, q) /\ s # <<>>
    BY <1>1, <1>2 DEF At
  <1>4. q \in Points /\ Allowed(p, Head(s), q) /\ Leads(p, Tail(s), After(Head(s), q))
    BY <1>3, HeadLeads
  <1>5. crawl[p].said \in Said
    BY DEF CrawlInv, Task, Said
  <1>6. n \in Nat /\ Marked(crawl[p]) \in SUBSET Marks
    BY MarkedTyped
  <1>7. q.told = told /\ q.lines = n /\ q.said = crawl[p].said /\ q.marks = Marked(crawl[p])
    BY <1>2, <1>5, <1>6, PointTyped
  <1>8. Head(s) \in ScriptStep /\ Head(s).do = step
    BY <1>2, AtStep
  <1>9. Stands(h, p, c, step, told, n, q)
    BY <1>1, <1>2, <1>4, <1>5, <1>7, <1>8 DEF Rest, Stands
  <1> QED BY <1>4, <1>9

\* Another script, from the same point.
LEMMA ScriptTells ==
    ASSUME CrawlInv, NEW p \in Page, crawl[p].at = "working", NEW s, Goes(p, s), NEW h, NEW c \in Nat,
           NEW told \in {"none", "active", "failed", "passed"}, NEW n \in 0..6,
           Holds(h, p, told), Few(h, p, n + c), Leads(p, s, Point(told, n, crawl[p].said, Marked(crawl[p])))
    PROVE  TaskTold(h, p, crawl'[p], c)
  <1>1. PICK t : t = crawl'[p]
    OBVIOUS
  <1>2. t = [crawl[p] EXCEPT !.script = s]
    BY <1>1 DEF Goes, CrawlInv
  <1>3. /\ t.script = s /\ t.at = "working" /\ t.said = crawl[p].said /\ t.rerouted = crawl[p].rerouted
        /\ t.crashed = crawl[p].crashed
    BY <1>2 DEF CrawlInv, Task
  <1>4. Marked(t) = Marked(crawl[p])
    BY <1>3 DEF Marked
  <1>5. Going(h, p, t, c)
    BY <1>3, <1>4 DEF Going
  <1>6. TaskTold(h, p, t, c)
    BY <1>3, <1>5 DEF TaskTold
  <1> QED BY <1>1, <1>6

-----------------------------------------------------------------------------
(* The steps of a page, for any history h that it leaves alone. *)

LEMMA PolitenessTells ==
    ASSUME CrawlInv, NEW p \in Page, PolitenessService(p), NEW h, NEW c \in Nat, Going(h, p, crawl[p], c)
    PROVE  TaskTold(h, p, crawl'[p], c)
  <1>1. At(p, "robots") /\ crawl[p].at = "working"
    BY DEF PolitenessService, At
  <1>2. PICK told \in {"none", "active", "failed", "passed"}, n \in 0..6, q \in Points :
           Stands(h, p, c, "robots", told, n, q)
    BY <1>1, AtTells
  <1>3. /\ Holds(h, p, told) /\ Few(h, p, n + c) /\ q.told = told /\ q.lines = n
        /\ Allowed(p, Head(crawl[p].script), q) /\ Head(crawl[p].script).do = "robots" /\ crawl[p].said \in Said
    BY <1>2, <1>1 DEF Stands
  <1>4. told = "active" /\ n <= 1 /\ n <= 2 /\ n <= 3 /\ n \in Nat
    BY <1>3 DEF Allowed
  <1>5. PICK kind, said, marks : kind = classify_url(p) /\ said = crawl[p].said /\ marks = Marked(crawl[p])
    OBVIOUS
  <1>6. marks \in SUBSET Marks /\ said \in Said
    BY <1>3, <1>5, MarkedTyped
  <1>7. PICK s \in {Disallowed(p), Fetching(p), process_non_html_content(p, kind)} : Goes(p, s)
    BY <1>5 DEF PolitenessService, Continues, Of, DarkDisallowed, DarkFetching, DarkNonHtml
  <1>8. Leads(p, s, Point("active", n, said, marks))
    BY <1>4, <1>6, <1>7, DisallowedLeads, FetchingLeads, NonHtmlLeads
  <1> QED BY <1>1, <1>3, <1>4, <1>5, <1>7, <1>8, ScriptTells

LEMMA FetchTells ==
    ASSUME CrawlInv, NEW p \in Page, fetch_with_agent_rotation(p), NEW h, NEW c \in Nat, Going(h, p, crawl[p], c)
    PROVE  TaskTold(h, p, crawl'[p], c)
  <1>1. At(p, "fetch") /\ crawl[p].at = "working"
    BY DEF fetch_with_agent_rotation, At
  <1>2. PICK told \in {"none", "active", "failed", "passed"}, n \in 0..6, q \in Points :
           Stands(h, p, c, "fetch", told, n, q)
    BY <1>1, AtTells
  <1>3. /\ Holds(h, p, told) /\ Few(h, p, n + c) /\ q.told = told /\ q.lines = n
        /\ Allowed(p, Head(crawl[p].script), q) /\ Head(crawl[p].script).do = "fetch" /\ crawl[p].said \in Said
    BY <1>2, <1>1 DEF Stands
  <1>4. told = "active" /\ n <= 2 /\ n \in Nat
    BY <1>3 DEF Allowed
  <1>5. PICK a : crawl' = [crawl EXCEPT ![p].script = Of(Fetched(p, a), DarkFetched(p, a)),
                                        ![p].rerouted = ~IsDark /\ Reroutes(a)]
    BY DEF fetch_with_agent_rotation
  <1>6. PICK t, s, said, marks : /\ t = crawl'[p] /\ s = Of(Fetched(p, a), DarkFetched(p, a))
                                 /\ said = crawl[p].said /\ marks = Marked(t)
    OBVIOUS
  <1>7. /\ t.script = s /\ t.at = "working" /\ t.said = said /\ t.rerouted = (~IsDark /\ Reroutes(a))
        /\ t.crashed = crawl[p].crashed
    BY <1>1, <1>5, <1>6 DEF CrawlInv, Task
  <1>8. marks \in SUBSET Marks /\ said \in Said
    BY <1>3, <1>6, MarkedTyped
  <1>9. /\ ~IsDark => "surface" \in marks /\ (~Reroutes(a) => "rerouted" \notin marks)
        /\ IsDark => "rerouted" \notin marks
    BY <1>6, <1>7 DEF Marked
  <1>10. Leads(p, s, Point("active", n, said, marks))
    <2>1. CASE IsDark
      <3>1. Leads(p, DarkFetched(p, a), Point("active", n, said, marks))
        BY <1>4, <1>8, <1>9, <2>1, DarkFetchedLeads
      <3> QED BY <1>6, <2>1, <3>1 DEF Of
    <2>2. CASE ~IsDark
      <3>1. Leads(p, Fetched(p, a), Point("active", n, said, marks))
        BY <1>4, <1>8, <1>9, <2>2, FetchedLeads
      <3> QED BY <1>6, <2>2, <3>1 DEF Of
    <2> QED BY <2>1, <2>2
  <1>11. Going(h, p, t, c)
    BY <1>3, <1>4, <1>6, <1>7, <1>10 DEF Going
  <1>12. TaskTold(h, p, t, c)
    BY <1>7, <1>11 DEF TaskTold
  <1> QED BY <1>6, <1>12

LEMMA HandOffTells ==
    ASSUME CrawlInv, NEW p \in Page, hand_off_audio(p), NEW h, NEW c \in Nat, Going(h, p, crawl[p], c)
    PROVE  TaskTold(h, p, crawl'[p], c)
  <1>1. At(p, "hand_off") /\ crawl[p].at = "working"
    BY DEF hand_off_audio, At
  <1>2. PICK told \in {"none", "active", "failed", "passed"}, n \in 0..6, q \in Points :
           Stands(h, p, c, "hand_off", told, n, q)
    BY <1>1, AtTells
  <1>3. /\ Holds(h, p, told) /\ Few(h, p, n + c) /\ q.told = told /\ q.lines = n
        /\ Allowed(p, Head(crawl[p].script), q) /\ Head(crawl[p].script).do = "hand_off" /\ crawl[p].said \in Said
    BY <1>2, <1>1 DEF Stands
  <1>4. told = "active" /\ n <= 3 /\ n \in Nat
    BY <1>3 DEF Allowed
  <1>5. PICK done \in BOOLEAN : Goes(p, HandedOff(p, done))
    BY DEF hand_off_audio, Continues, Of, DarkHandedOff
  <1>6. PICK s, said, marks : s = HandedOff(p, done) /\ said = crawl[p].said /\ marks = Marked(crawl[p])
    OBVIOUS
  <1>7. marks \in SUBSET Marks /\ said \in Said
    BY <1>3, <1>6, MarkedTyped
  <1>8. Leads(p, s, Point("active", n, said, marks))
    BY <1>4, <1>6, <1>7, HandedOffLeads
  <1> QED BY <1>1, <1>3, <1>4, <1>5, <1>6, <1>8, ScriptTells

LEMMA IngestTells ==
    ASSUME CrawlInv, NEW p \in Page, fetch_and_extract(p), NEW h, NEW c \in Nat, Going(h, p, crawl[p], c)
    PROVE  TaskTold(h, p, crawl'[p], c)
  <1>1. At(p, "ingest") /\ crawl[p].at = "working"
    BY DEF fetch_and_extract, At
  <1>2. PICK told \in {"none", "active", "failed", "passed"}, n \in 0..6, q \in Points :
           Stands(h, p, c, "ingest", told, n, q)
    BY <1>1, AtTells
  <1>3. /\ Holds(h, p, told) /\ Few(h, p, n + c) /\ q.told = told /\ q.lines = n
        /\ Allowed(p, Head(crawl[p].script), q) /\ Head(crawl[p].script).do = "ingest" /\ crawl[p].said \in Said
    BY <1>2, <1>1 DEF Stands
  <1>4. told = "active" /\ n <= 3 /\ n \in Nat
    BY <1>3 DEF Allowed
  <1>5. PICK t, said, marks : t = crawl'[p] /\ said = crawl[p].said /\ marks = Marked(crawl[p])
    OBVIOUS
  <1>6. marks \in SUBSET Marks /\ said \in Said
    BY <1>3, <1>5, MarkedTyped
  <1>7. Leads(p, IngestFailed(p), Point("active", n, said, marks)) /\ Leads(p, Ingested(p), Point("active", n, said, marks))
    BY <1>4, <1>6, IngestFailedLeads, IngestedLeads
  <1>8. CASE Goes(p, Of(IngestFailed(p), DarkIngestFailed(p)))
    <2>1. Goes(p, IngestFailed(p))
      BY <1>8 DEF Of, DarkIngestFailed
    <2> QED BY <1>1, <1>3, <1>4, <1>5, <1>7, <2>1, ScriptTells
  <1>9. ASSUME NEW a, crawl' = [crawl EXCEPT ![p].script = Of(Ingested(p), DarkIngested(p)), ![p].kind = a.kind]
        PROVE  TaskTold(h, p, t, c)
    <2>1. Of(Ingested(p), DarkIngested(p)) = Ingested(p)
      BY DEF Of, DarkIngested
    <2>2. /\ t.script = Ingested(p) /\ t.at = "working" /\ t.said = said /\ t.rerouted = crawl[p].rerouted
          /\ t.crashed = crawl[p].crashed
      BY <1>1, <1>5, <1>9, <2>1 DEF CrawlInv, Task
    <2>3. Marked(t) = marks
      BY <1>5, <2>2 DEF Marked
    <2>4. Going(h, p, t, c)
      BY <1>3, <1>4, <1>7, <2>2, <2>3 DEF Going
    <2> QED BY <2>2, <2>4 DEF TaskTold
  <1> QED BY <1>5, <1>8, <1>9 DEF fetch_and_extract

LEMMA EscalateTells ==
    ASSUME CrawlInv, NEW p \in Page, escalate_to_deep(p), NEW h, NEW c \in Nat, Going(h, p, crawl[p], c)
    PROVE  TaskTold(h, p, crawl'[p], c)
  <1>1. At(p, "escalate") /\ crawl[p].at = "working"
    BY DEF escalate_to_deep, At
  <1>2. PICK told \in {"none", "active", "failed", "passed"}, n \in 0..6, q \in Points :
           Stands(h, p, c, "escalate", told, n, q)
    BY <1>1, AtTells
  <1>3. /\ Holds(h, p, told) /\ Few(h, p, n + c) /\ q.told = told /\ q.lines = n
        /\ q.said = crawl[p].said /\ q.marks = Marked(crawl[p])
        /\ Allowed(p, Head(crawl[p].script), q) /\ Head(crawl[p].script).do = "escalate" /\ crawl[p].said \in Said
    BY <1>2, <1>1 DEF Stands
  <1>4. PICK said, marks : said = crawl[p].said /\ marks = Marked(crawl[p])
    OBVIOUS
  <1>5. marks \in SUBSET Marks /\ said \in Said
    BY <1>3, <1>4, MarkedTyped
  <1>6. /\ told = "active" /\ n <= 4 /\ n \in Nat /\ CanRaise("active", n, marks)
        /\ "surface" \in marks \/ said = "escalated"
    BY <1>3, <1>4 DEF Allowed, Raising
  <1>7. CASE Goes(p, Of(Exhausted(p), DarkExhausted(p)))
    <2>1. CASE IsDark
      <3>1. said = "escalated"
        BY <1>4, <1>6, <2>1 DEF Marked
      <3>2. Leads(p, DarkExhausted(p), Point("active", n, said, marks))
        BY <1>5, <1>6, <3>1, DarkExhaustedLeads
      <3>3. Goes(p, DarkExhausted(p))
        BY <1>7, <2>1 DEF Of
      <3> QED BY <1>1, <1>3, <1>4, <1>6, <3>2, <3>3, ScriptTells
    <2>2. CASE ~IsDark
      <3>1. Leads(p, Exhausted(p), Point("active", n, said, marks))
        BY <1>5, <1>6, ExhaustedLeads
      <3>2. Goes(p, Exhausted(p))
        BY <1>7, <2>2 DEF Of
      <3> QED BY <1>1, <1>3, <1>4, <1>6, <3>1, <3>2, ScriptTells
    <2> QED BY <2>1, <2>2
  <1>8. CASE crawl' = [crawl EXCEPT ![p].at = "escalated", ![p].script = <<>>]
    <2>1. PICK t : t = crawl'[p]
      OBVIOUS
    <2>2. t.at = "escalated"
      BY <1>8, <2>1 DEF CrawlInv, Task
    <2>3. n + c \in Nat /\ 6 + c \in Nat /\ n + c <= 6 + c
      OBVIOUS
    <2>4. Few(h, p, 6 + c)
      BY <1>3, <2>3, FewGrows
    <2>5. TaskTold(h, p, t, c)
      BY <2>2, <2>4 DEF TaskTold, Settled
    <2> QED BY <2>1, <2>5
  <1> QED BY <1>7, <1>8 DEF escalate_to_deep

\* A step that tells nothing and asks nothing.
LEMMA RestTells ==
    ASSUME CrawlInv, NEW p \in Page, NEW step \in {"children", "dead_letter", "save", "fail_job", "send", "archive"},
           At(p, step), NEW h, NEW c \in Nat, Going(h, p, crawl[p], c),
           NEW t, t.at = "working", t.script = Rest(p), t.said = crawl[p].said, t.rerouted = crawl[p].rerouted,
           t.crashed = crawl[p].crashed
    PROVE  TaskTold(h, p, t, c)
  <1>0. PICK x : x = Head(crawl[p].script)
    OBVIOUS
  <1>1. PICK told \in {"none", "active", "failed", "passed"}, n \in 0..6, q \in Points :
           Stands(h, p, c, step, told, n, q)
    BY <1>0, AtTells
  <1>2. /\ Holds(h, p, told) /\ Few(h, p, n + c) /\ q = Point(told, n, crawl[p].said, Marked(crawl[p]))
        /\ q.told = told /\ q.lines = n /\ q.said = crawl[p].said /\ q.marks = Marked(crawl[p])
        /\ Leads(p, Rest(p), After(x, q)) /\ x.do = step
    BY <1>1, <1>0 DEF Stands
  <1>3. ~Tells(x) /\ ~Finishes(x)
    BY <1>2 DEF Tells, Finishes
  <1>4. After(x, q) = q
    BY <1>2, <1>3 DEF After, Deciding
  <1>5. Marked(t) = Marked(crawl[p])
    BY DEF Marked
  <1>6. Going(h, p, t, c)
    BY <1>2, <1>4, <1>5 DEF Going
  <1> QED BY <1>6 DEF TaskTold

LEMMA WorkTells ==
    ASSUME CrawlInv, NEW p \in Page, Archive(p) \/ Send(p) \/ Elsewhere(p) \/ save_to_minio(p) \/ Fail_job(p),
           NEW h, NEW c \in Nat, Going(h, p, crawl[p], c)
    PROVE  TaskTold(h, p, crawl'[p], c)
  <1>1. PICK step \in {"children", "dead_letter", "save", "fail_job", "send", "archive"} : At(p, step)
    BY DEF Archive, Send, Elsewhere, save_to_minio, Fail_job
  <1>2. crawl[p].at = "working"
    BY <1>1 DEF At
  <1>3. PICK t : t = crawl'[p]
    OBVIOUS
  <1>4. Goes(p, Rest(p)) \/ \E name : crawl' = [crawl EXCEPT ![p].script = Tail(@), ![p].path = name]
    BY DEF Archive, Send, Elsewhere, Continues, save_to_minio, Fail_job
  <1>5. /\ t.at = "working" /\ t.script = Rest(p) /\ t.said = crawl[p].said /\ t.rerouted = crawl[p].rerouted
        /\ t.crashed = crawl[p].crashed
    <2>1. CASE Goes(p, Rest(p))
      BY <1>2, <1>3, <2>1 DEF CrawlInv, Task, Goes
    <2>2. ASSUME NEW name, crawl' = [crawl EXCEPT ![p].script = Tail(@), ![p].path = name]
          PROVE  /\ t.at = "working" /\ t.script = Tail(crawl[p].script) /\ t.said = crawl[p].said
                 /\ t.rerouted = crawl[p].rerouted /\ t.crashed = crawl[p].crashed
      BY <1>2, <1>3, <2>2 DEF CrawlInv, Task
    <2> QED BY <1>4, <2>1, <2>2 DEF Rest
  <1>6. TaskTold(h, p, t, c)
    BY <1>1, <1>5, RestTells
  <1> QED BY <1>3, <1>6

LEMMA LoggingTells ==
    ASSUME CrawlInv, NEW p \in Page, record_crawl_log(p), NEW h, NEW c \in Nat, Going(h, p, crawl[p], c)
    PROVE  TaskTold(h, p, crawl'[p], c)
  <1>1. At(p, "log") /\ crawl[p].at = "working"
    BY DEF record_crawl_log, At
  <1>2. PICK x, t : x = Head(crawl[p].script) /\ t = crawl'[p]
    OBVIOUS
  <1>3. PICK told \in {"none", "active", "failed", "passed"}, n \in 0..6, q \in Points :
           Stands(h, p, c, "log", told, n, q)
    BY <1>1, <1>2, AtTells
  <1>4. /\ Holds(h, p, told) /\ Few(h, p, n + c) /\ q = Point(told, n, crawl[p].said, Marked(crawl[p]))
        /\ q.told = told /\ q.lines = n /\ q.said = crawl[p].said /\ q.marks = Marked(crawl[p])
        /\ Leads(p, Rest(p), After(x, q)) /\ x.do = "log"
    BY <1>3, <1>1, <1>2 DEF Stands
  <1>5. crawl' = [crawl EXCEPT ![p].script = Tail(@), ![p].said = x.say]
    BY <1>2 DEF record_crawl_log
  <1>6. /\ t.at = "working" /\ t.script = Rest(p) /\ t.said = x.say /\ t.rerouted = crawl[p].rerouted
        /\ t.crashed = crawl[p].crashed
    BY <1>1, <1>2, <1>5 DEF CrawlInv, Task, Rest
  <1>7. Marked(t) = Marked(crawl[p])
    BY <1>6 DEF Marked
  <1>8. ~Tells(x) /\ ~Finishes(x)
    BY <1>4 DEF Tells, Finishes
  <1>9. After(x, q) = Point(told, n, t.said, Marked(t))
    BY <1>4, <1>6, <1>7, <1>8 DEF After, Deciding
  <1>10. Going(h, p, t, c)
    BY <1>4, <1>6, <1>9 DEF Going
  <1>11. TaskTold(h, p, t, c)
    BY <1>6, <1>10 DEF TaskTold
  <1> QED BY <1>2, <1>11

\* What is published is kept next.
LEMMA PublishTells ==
    ASSUME CrawlInv, NEW p \in Page, At(p, "publish"), NEW h, NEW c \in Nat, Going(h, p, crawl[p], c),
           Goes(p, <<[Head(crawl[p].script) EXCEPT !.do = "push"]>> \o Rest(p))
    PROVE  TaskTold(h, p, crawl'[p], c)
  <1>1. crawl[p].at = "working"
    BY DEF At
  <1>2. PICK x, y : x = Head(crawl[p].script) /\ y = [x EXCEPT !.do = "push"]
    OBVIOUS
  <1>3. PICK told \in {"none", "active", "failed", "passed"}, n \in 0..6, q \in Points :
           Stands(h, p, c, "publish", told, n, q)
    BY <1>2, AtTells
  <1>4. /\ Holds(h, p, told) /\ Few(h, p, n + c) /\ q = Point(told, n, crawl[p].said, Marked(crawl[p]))
        /\ Allowed(p, x, q) /\ Leads(p, Rest(p), After(x, q)) /\ x.do = "publish" /\ x \in ScriptStep
    BY <1>3, <1>2 DEF Stands
  <1>5. y \in ScriptStep /\ y.do = "push" /\ y.event = x.event /\ y.say = x.say
    BY <1>2, <1>4 DEF ScriptStep
  <1>6. Tells(x) /\ Tells(y) /\ (Finishes(x) <=> Finishes(y))
    BY <1>4, <1>5 DEF Tells, Finishes
  <1>7. After(y, q) = After(x, q)
    BY <1>4, <1>5, <1>6 DEF After
  <1>8. Allowed(p, y, q)
    BY <1>4, <1>5, <1>6 DEF Allowed, Raising
  <1>9. PICK s, r : s = Rest(p) /\ r = After(y, q)
    OBVIOUS
  <1>10. Leads(p, s, After(y, q))
    BY <1>4, <1>7, <1>9
  <1>11. Leads(p, <<y>> \o s, q)
    BY <1>5, <1>8, <1>10, ConsLeads
  <1>12. Goes(p, <<y>> \o s)
    BY <1>2, <1>9
  <1> QED BY <1>1, <1>4, <1>11, <1>12, ScriptTells

\* What an exception leaves: the page is not yet closed.
LEMMA RaiseTells ==
    ASSUME CrawlInv, NEW p \in Page, Raise(p), ~crawl[p].crashed, NEW h, NEW c \in Nat, Going(h, p, crawl[p], c)
    PROVE  TaskTold(h, p, crawl'[p], c)
  <1>1. PICK step \in Raising : At(p, step)
    BY DEF Raise, Raising
  <1>2. PICK t, said, marks : t = crawl'[p] /\ said = crawl[p].said /\ marks = Marked(crawl[p])
    OBVIOUS
  <1>3. PICK told \in {"none", "active", "failed", "passed"}, n \in 0..6, q \in Points :
           Stands(h, p, c, step, told, n, q)
    BY <1>1, <1>2, AtTells
  <1>4. /\ Holds(h, p, told) /\ Few(h, p, n + c) /\ q.told = told /\ q.lines = n /\ q.marks = marks
        /\ Allowed(p, Head(crawl[p].script), q) /\ Head(crawl[p].script).do = step /\ said \in Said
    BY <1>3, <1>1, <1>2 DEF Stands
  <1>5. CanRaise(told, n, marks) /\ "crashed" \notin marks
    BY <1>2, <1>4 DEF Allowed, Marked
  <1>6. told = "active" /\ n <= 5 /\ n \in Nat /\ ("rerouted" \in marks => n <= 3)
    BY <1>5 DEF CanRaise
  <1>7. PICK m : m = Marked(t)
    OBVIOUS
  <1>8. m \in SUBSET Marks
    BY <1>7, MarkedTyped
  <1>9. crawl[p] \in Task /\ crawl[p].at = "working"
    BY <1>1 DEF CrawlInv, At
  <1>10. CASE IsDark
    <2>1. /\ t.script = DarkCrashed(p) /\ t.at = "working" /\ t.said = said /\ t.crashed
      BY <1>2, <1>9, <1>10 DEF Raise, CrawlInv, Task
    <2>2. "crashed" \in m
      BY <1>7, <2>1 DEF Marked
    <2>3. Leads(p, DarkCrashed(p), Point("active", n, said, m))
      BY <1>4, <1>6, <1>8, <2>2, DarkCrashedLeads
    <2>4. Going(h, p, t, c)
      BY <1>4, <1>6, <1>7, <2>1, <2>3 DEF Going
    <2>5. TaskTold(h, p, t, c)
      BY <2>1, <2>4 DEF TaskTold
    <2> QED BY <1>2, <2>5
  <1>11. CASE ~IsDark
    <2>0. t = SurfaceRaised(p)
      BY <1>2, <1>11 DEF Raise, CrawlInv
    <2>1. CASE crawl[p].rerouted
      <3>1. PICK s : s = <<Tell(p, "fetching", "failed")>> \o HardFailure(p)
        OBVIOUS
      <3>2. t.script = s /\ t.at = "working" /\ t.said = said /\ ~t.rerouted
        BY <1>2, <1>9, <2>0, <2>1, <3>1 DEF SurfaceRaised, Task
      <3>3. "rerouted" \notin m /\ n <= 3
        BY <1>2, <1>6, <1>7, <2>1, <3>2 DEF Marked
      <3>4. Leads(p, s, Point("active", n, said, m))
        BY <1>4, <1>6, <1>8, <3>1, <3>3, RaisedLeads
      <3>5. Going(h, p, t, c)
        BY <1>4, <1>6, <1>7, <3>2, <3>4 DEF Going
      <3>6. TaskTold(h, p, t, c)
        BY <3>2, <3>5 DEF TaskTold
      <3> QED BY <1>2, <3>6
    <2>2. CASE ~crawl[p].rerouted
      <3>1. t.at = "raised"
        BY <1>9, <2>0, <2>2 DEF SurfaceRaised, Task
      <3>2. n + c \in Nat /\ 6 + c \in Nat /\ n + c <= 6 + c
        OBVIOUS
      <3>3. Few(h, p, 6 + c)
        BY <1>4, <3>2, FewGrows
      <3>4. TaskTold(h, p, t, c)
        BY <3>1, <3>3 DEF TaskTold, Settled
      <3> QED BY <1>2, <3>4
    <2> QED BY <2>1, <2>2
  <1> QED BY <1>10, <1>11

\* The end of a script.
LEMMA SettleTells ==
    ASSUME CrawlInv, NEW p \in Page, Settle(p), NEW h, NEW c \in Nat, Going(h, p, crawl[p], c)
    PROVE  TaskTold(h, p, crawl'[p], c)
  <1>1. PICK t : t = crawl'[p]
    OBVIOUS
  <1>2. t.at = "settled" /\ t.said = crawl[p].said
    BY <1>1 DEF Settle, CrawlInv, Task
  <1>3. PICK told \in {"none", "active", "failed", "passed"}, n \in 0..6 :
           Holds(h, p, told) /\ Few(h, p, n + c) /\ Leads(p, <<>>, Point(told, n, crawl[p].said, Marked(crawl[p])))
    BY DEF Going, Settle
  <1>0. PICK q : q = Point(told, n, crawl[p].said, Marked(crawl[p]))
    OBVIOUS
  <1>4. Final(q) /\ q.told = told /\ q.said = t.said
    BY <1>0, <1>2, <1>3, NilEnds DEF Point
  <1>5. Matches(t.said, told) /\ told \in {"failed", "passed"}
    BY <1>4 DEF Final, Matches
  <1>6. n + c \in Nat /\ 6 + c \in Nat /\ n + c <= 6 + c
    OBVIOUS
  <1>7. Few(h, p, 6 + c)
    BY <1>3, <1>6, FewGrows
  <1>8. TaskTold(h, p, t, c)
    BY <1>2, <1>3, <1>5, <1>7 DEF TaskTold, Settled
  <1> QED BY <1>1, <1>8

\* A delivery that dies leaves its lines.
LEMMA KillTells ==
    ASSUME CrawlInv, NEW p \in Page, Kill(p), NEW h, Going(h, p, crawl[p], 0)
    PROVE  TaskTold(h, p, crawl'[p], 6)
  <1>1. PICK t : t = crawl'[p]
    OBVIOUS
  <1>2. t.at \in {"queued", "lost"}
    BY <1>1 DEF Kill, CrawlInv, Task
  <1>3. PICK n \in 0..6 : Few(h, p, n + 0)
    BY DEF Going
  <1>4. n + 0 \in Nat /\ n + 0 <= 6 /\ n + 0 <= 6 + 6 /\ 6 + 6 \in Nat
    OBVIOUS
  <1>5. Few(h, p, 6) /\ Few(h, p, 6 + 6)
    BY <1>3, <1>4, FewGrows
  <1>6. TaskTold(h, p, t, 6)
    BY <1>2, <1>5 DEF TaskTold, Settled
  <1> QED BY <1>1, <1>6

\* A delivery begins.
LEMMA DeliverTells ==
    ASSUME CrawlInv, NEW p \in Page, Deliver(p), NEW h, NEW c \in Nat, TaskTold(h, p, crawl[p], c)
    PROVE  TaskTold(h, p, crawl'[p], c)
  <1>1. PICK t : t = crawl'[p]
    OBVIOUS
  <1>2. Few(h, p, c)
    BY DEF Deliver, TaskTold
  <1>3. /\ t.said = None
        /\ t.at = "settled" \/ (t.at = "working" /\ t.script = Started(p))
    BY <1>1 DEF Deliver, CrawlInv, Queued, Of, DarkStarted
  <1>4. CASE t.at = "settled"
    <2>1. c <= 6 + c /\ 6 + c \in Nat
      OBVIOUS
    <2>2. Few(h, p, 6 + c)
      BY <1>2, <2>1, FewGrows
    <2>3. TaskTold(h, p, t, c)
      BY <1>3, <1>4, <2>2 DEF TaskTold, Settled
    <2> QED BY <1>1, <2>3
  <1>5. CASE t.at = "working" /\ t.script = Started(p)
    <2>1. PICK m, n : m = Marked(t) /\ n = 0
      OBVIOUS
    <2>2. m \in SUBSET Marks
      BY <2>1, MarkedTyped
    <2>3. Leads(p, t.script, Point("none", n, t.said, m))
      BY <1>3, <1>5, <2>1, <2>2, StartedLeads
    <2>4. Holds(h, p, "none") /\ n + c = c /\ n \in 0..6
      BY <2>1 DEF Holds
    <2>5. Going(h, p, t, c)
      BY <1>2, <2>1, <2>3, <2>4 DEF Going
    <2>6. TaskTold(h, p, t, c)
      BY <1>5, <2>5 DEF TaskTold
    <2> QED BY <1>1, <2>6
  <1> QED BY <1>3, <1>4, <1>5

-----------------------------------------------------------------------------
(* Every step keeps TellInv. *)

LEMMA TaskFew ==
    ASSUME NEW h, NEW p, NEW t, NEW c \in {0, 6}, TaskTold(h, p, t, c)
    PROVE  Few(h, p, 12)
  <1>1. \A n \in 0..6 : n + c \in Nat /\ n + c <= 12
    OBVIOUS
  <1>2. c \in Nat /\ c <= 12 /\ 6 + c \in Nat /\ 6 + c <= 12 /\ 12 \in Nat
    OBVIOUS
  <1>3. CASE t.at = "queued"
    BY <1>2, <1>3, FewGrows DEF TaskTold
  <1>4. CASE t.at = "working"
    <2>1. PICK n \in 0..6 : Few(h, p, n + c)
      BY <1>4 DEF TaskTold, Going
    <2> QED BY <1>1, <1>2, <2>1, FewGrows
  <1>5. CASE t.at \notin {"queued", "working"}
    <2>1. Few(h, p, 6 + c)
      BY <1>5 DEF TaskTold
    <2> QED BY <1>2, <2>1, FewGrows
  <1> QED BY <1>3, <1>4, <1>5

LEMMA TaskGrows ==
    ASSUME NEW h, NEW p, NEW t, NEW c \in Nat, NEW d \in Nat, c <= d, TaskTold(h, p, t, c)
    PROVE  TaskTold(h, p, t, d)
  <1>1. Few(h, p, c) => Few(h, p, d)
    BY FewGrows
  <1>2. Few(h, p, 6 + c) => Few(h, p, 6 + d)
    <2>1. 6 + c \in Nat /\ 6 + d \in Nat /\ 6 + c <= 6 + d
      OBVIOUS
    <2> QED BY <2>1, FewGrows
  <1>3. \A n \in 0..6 : Few(h, p, n + c) => Few(h, p, n + d)
    <2> SUFFICES ASSUME NEW n \in 0..6, Few(h, p, n + c) PROVE Few(h, p, n + d)
      OBVIOUS
    <2>1. n + c \in Nat /\ n + d \in Nat /\ n + c <= n + d
      OBVIOUS
    <2> QED BY <2>1, FewGrows
  <1>4. Going(h, p, t, c) => Going(h, p, t, d)
    BY <1>3 DEF Going
  <1> QED BY <1>1, <1>2, <1>4 DEF TaskTold

\* A history that holds what this one does.
LEMMA TaskMoves ==
    ASSUME NEW h, NEW k, NEW p, NEW t, NEW c \in Nat, TaskTold(h, p, t, c),
           \A b \in Nat : Few(h, p, b) => Few(k, p, b), \A told : Holds(h, p, told) => Holds(k, p, told)
    PROVE  TaskTold(k, p, t, c)
  <1>1. 6 + c \in Nat /\ \A n \in 0..6 : n + c \in Nat
    OBVIOUS
  <1>2. Going(h, p, t, c) => Going(k, p, t, c)
    BY <1>1 DEF Going
  <1>3. Settled(h, p, t) => Settled(k, p, t)
    BY DEF Settled
  <1> QED BY <1>1, <1>2, <1>3 DEF TaskTold

LEMMA TaskPrimed ==
    ASSUME UNCHANGED situation, NEW p \in Page, NEW h, h = history', NEW t, t = crawl'[p], NEW c, c = Again(faults'),
           TaskTold(h, p, t, c)
    PROVE  TaskTold(history, p, crawl[p], Again(faults))'
  <1>1. Marked(t) = Marked(crawl[p])'
    BY DEF Marked, IsDark
  <1>2. Again(faults)' = c
    BY DEF Again
  <1>3. Going(h, p, t, c) => Going(history, p, crawl[p], Again(faults))'
    BY <1>1, <1>2 DEF Going
  <1>4. Settled(h, p, t) => Settled(history, p, crawl[p])'
    BY DEF Settled
  <1> QED BY <1>2, <1>3, <1>4 DEF TaskTold

\* A step that leaves the history alone.
LEMMA StepTold ==
    ASSUME Told, UNCHANGED <<situation, history>>, NEW p \in Page, \A q \in Page : q # p => crawl'[q] = crawl[q],
           faults \subseteq faults', TaskTold(history, p, crawl'[p], Again(faults'))
    PROVE  Told'
  <1>1. PICK h, c, d : h = history /\ c = Again(faults) /\ d = Again(faults')
    OBVIOUS
  <1>2. c \in Nat /\ d \in Nat /\ c <= d /\ h = history' /\ d = Again(faults')
    BY <1>1 DEF Again
  <1>3. ASSUME NEW q \in Page PROVE TaskTold(history, q, crawl[q], Again(faults))'
    <2>1. PICK t : t = crawl'[q]
      OBVIOUS
    <2>2. TaskTold(h, q, t, d)
      <3>1. CASE q = p
        BY <1>1, <2>1, <3>1
      <3>2. CASE q # p
        <4>1. t = crawl[q]
          BY <2>1, <3>2
        <4>2. TaskTold(h, q, t, c)
          BY <1>1, <4>1 DEF Told
        <4> QED BY <1>2, <4>2, TaskGrows
      <3> QED BY <3>1, <3>2
    <2> QED BY <1>2, <2>1, <2>2, TaskPrimed
  <1> QED BY <1>3 DEF Told

\* A line is pushed.
LEMMA PushTold ==
    ASSUME Roomy, CrawlInv, ToldInv, Told, UNCHANGED <<situation, faults>>, NEW p \in Page, At(p, "push"),
           history' = Pushed(Head(crawl[p].script).event), Goes(p, Rest(p))
    PROVE  Told'
  <1>1. PICK h, c, x, e, g, k : /\ h = history /\ c = Again(faults) /\ x = Head(crawl[p].script) /\ e = x.event
                                /\ g = Append(h, e) /\ k = Trim(g)
    OBVIOUS
  <1>2. /\ k = history' /\ c = Again(faults') /\ c \in {0, 6} /\ c \in Nat /\ crawl[p].at = "working"
        /\ TaskTold(h, p, crawl[p], c) /\ Going(h, p, crawl[p], c)
    BY <1>1, AgainTyped DEF Pushed, Told, TaskTold, At
  <1>3. PICK told \in {"none", "active", "failed", "passed"}, n \in 0..6, q \in Points : Stands(h, p, c, "push", told, n, q)
    BY <1>2, AtTells
  <1>4. /\ Holds(h, p, told) /\ Few(h, p, n + c) /\ q = Point(told, n, crawl[p].said, Marked(crawl[p]))
        /\ q.told = told /\ q.lines = n /\ q.said = crawl[p].said /\ q.marks = Marked(crawl[p])
        /\ Allowed(p, x, q) /\ Leads(p, Rest(p), After(x, q)) /\ x.do = "push" /\ x \in ScriptStep
    BY <1>1, <1>3 DEF Stands
  <1>5. e \in Event /\ e.url = p /\ n \in 0..5 /\ Tells(x) /\ (Finishes(x) <=> e.stage = "site_finished")
    <2>1. e \in Event
      BY <1>1, <1>4 DEF ScriptStep
    <2>2. Tells(x) /\ (Finishes(x) <=> e.stage = "site_finished")
      BY <1>1, <1>4 DEF Tells, Finishes
    <2>3. e.url = p /\ q.lines < 6 /\ q.lines = n
      BY <1>1, <1>4, <2>2 DEF Allowed
    <2> QED BY <2>1, <2>2, <2>3
  <1>6. h \in Seq(Event) /\ Len(h) <= JOB_HISTORY_MAX_LINES /\ (\A m \in DOMAIN h : h[m].url \in Page) /\ More(g, h, e)
    <2>1. LoggedEvent \subseteq Event
      BY DEF LoggedEvent
    <2>2. h \in Seq(Event)
      BY <1>1, <2>1, SeqGrows DEF ToldInv
    <2> QED BY <1>1, <2>2 DEF Told, More
  <1>7. Few(h, p, 11) /\ \A r \in Page \ {p} : Few(h, r, 12)
    <2>1. n + c \in Nat /\ n + c <= 11 /\ 11 \in Nat
      BY <1>2, <1>5
    <2>2. Few(h, p, 11)
      BY <1>4, <2>1, FewGrows
    <2>3. \A r \in Page : TaskTold(h, r, crawl[r], c)
      BY <1>1 DEF Told
    <2> QED BY <1>2, <2>2, <2>3, TaskFew
  <1>8. PushKeeps(h, g, k, p)
    BY <1>1, <1>5, <1>6, <1>7, PushIs
  <1>9. /\ k \in Seq(Event) /\ Len(k) <= JOB_HISTORY_MAX_LINES /\ \A m \in DOMAIN k : k[m].url \in Page
        /\ \A b \in Nat : Few(h, p, b) => Few(k, p, b + 1)
        /\ \A s : Holds(g, p, s) => Holds(k, p, s)
        /\ \A r \in Page \ {p} : /\ \A b \in Nat : Few(h, r, b) => Few(k, r, b)
                                 /\ \A s : Holds(h, r, s) => Holds(k, r, s)
    BY <1>8 DEF PushKeeps
  <1>10. PICK s : s = IF Finishes(x) THEN e.state ELSE "active"
    OBVIOUS
  <1>11. s \in {"active", "failed", "passed"} /\ Holds(k, p, s)
    <2>1. CASE Finishes(x)
      <3>1. told = "active" /\ e.state \in {"failed", "passed"}
        BY <1>1, <1>4, <2>1 DEF Allowed
      <3>2. Holds(g, p, e.state)
        BY <1>4, <1>5, <1>6, <2>1, <3>1, AppendFinishes
      <3> QED BY <1>9, <1>10, <2>1, <3>1, <3>2
    <2>2. CASE ~Finishes(x)
      <3>1. Holds(g, p, "active")
        BY <1>5, <1>6, <2>2, AppendTells
      <3> QED BY <1>9, <1>10, <2>2, <3>1
    <2> QED BY <2>1, <2>2
  <1>12. PICK m : m = n + 1
    OBVIOUS
  <1>13. m \in 0..6 /\ Few(k, p, m + c)
    <2>1. m \in 0..6 /\ n + c \in Nat /\ (n + c) + 1 = m + c
      BY <1>2, <1>5, <1>12
    <2>2. Few(k, p, (n + c) + 1)
      BY <1>4, <1>9, <2>1
    <2> QED BY <2>1, <2>2
  <1>14. After(x, q) = Point(s, m, crawl[p].said, Marked(crawl[p]))
    BY <1>1, <1>4, <1>5, <1>10, <1>12 DEF After
  <1>15. TaskTold(k, p, crawl'[p], c)
    BY <1>2, <1>4, <1>11, <1>13, <1>14, ScriptTells
  <1>16. ASSUME NEW r \in Page PROVE TaskTold(history, r, crawl[r], Again(faults))'
    <2>1. PICK t : t = crawl'[r]
      OBVIOUS
    <2>2. TaskTold(k, r, t, c)
      <3>1. CASE r = p
        BY <1>15, <2>1, <3>1
      <3>2. CASE r # p
        <4>1. t = crawl[r]
          BY <2>1, <3>2 DEF Goes, CrawlInv
        <4>2. TaskTold(h, r, t, c)
          BY <1>1, <4>1 DEF Told
        <4>3. (\A b \in Nat : Few(h, r, b) => Few(k, r, b)) /\ \A u : Holds(h, r, u) => Holds(k, r, u)
          BY <1>9, <3>2
        <4> QED BY <1>2, <4>2, <4>3, TaskMoves
      <3> QED BY <3>1, <3>2
    <2> QED BY <1>2, <2>1, <2>2, TaskPrimed
  <1> QED BY <1>2, <1>9, <1>16 DEF Told

LEMMA CrashedRaised ==
    ASSUME CrawlInv, TellInv, NEW p \in Page, Crawl(p), faults \subseteq faults'
    PROVE  \A q \in Page : crawl'[q].crashed => "raise" \in faults'
  <1>0. crawl \in [Page -> Task]
    BY DEF CrawlInv
  <1>1. CASE Raise(p)
    BY <1>1 DEF Raise, Fault
  <1>2. CASE \A q \in Page : crawl'[q].crashed => crawl[q].crashed
    BY <1>2 DEF TellInv
  <1>3. CASE Deliver(p)
    <2>1. crawl'[p].crashed = crawl[p].crashed /\ \A q \in Page : q # p => crawl'[q] = crawl[q]
      BY <1>0, <1>3, QueuedTyped DEF Deliver, Task
    <2> QED BY <1>2, <2>1
  <1>4. CASE \E s : Goes(p, s)
    <2>1. \A q \in Page : crawl'[q].crashed => crawl[q].crashed
      BY <1>0, <1>4 DEF Goes, Task
    <2> QED BY <1>2, <2>1
  <1>5. CASE fetch_with_agent_rotation(p)
    <2>1. \A q \in Page : crawl'[q].crashed => crawl[q].crashed
      BY <1>0, <1>5 DEF fetch_with_agent_rotation, Task
    <2> QED BY <1>2, <2>1
  <1>6. CASE escalate_to_deep(p)
    <2>1. (\E s : Goes(p, s)) \/ crawl' = [crawl EXCEPT ![p].at = "escalated", ![p].script = <<>>]
      BY <1>6 DEF escalate_to_deep
    <2>2. CASE crawl' = [crawl EXCEPT ![p].at = "escalated", ![p].script = <<>>]
      <3>1. \A q \in Page : crawl'[q].crashed => crawl[q].crashed
        BY <1>0, <2>2 DEF Task
      <3> QED BY <1>2, <3>1
    <2> QED BY <1>4, <2>1, <2>2
  <1>7. CASE fetch_and_extract(p)
    <2>1. (\E s : Goes(p, s)) \/ \E s, a : crawl' = [crawl EXCEPT ![p].script = s, ![p].kind = a]
      BY <1>7 DEF fetch_and_extract
    <2>2. ASSUME NEW s, NEW a, crawl' = [crawl EXCEPT ![p].script = s, ![p].kind = a]
          PROVE  \A q \in Page : crawl'[q].crashed => crawl[q].crashed
      BY <1>0, <2>2 DEF Task
    <2> QED BY <1>2, <1>4, <2>1, <2>2
  <1>8. CASE record_crawl_log(p)
    <2>1. \A q \in Page : crawl'[q].crashed => crawl[q].crashed
      BY <1>0, <1>8 DEF record_crawl_log, Task
    <2> QED BY <1>2, <2>1
  <1>9. CASE Archive(p)
    <2>1. \A q \in Page : crawl'[q].crashed => crawl[q].crashed
      BY <1>0, <1>9 DEF Archive, Goes, Task
    <2> QED BY <1>2, <2>1
  <1>10. CASE Settle(p) \/ Kill(p)
    <2>1. \A q \in Page : crawl'[q].crashed => crawl[q].crashed
      BY ZenonT(40), <1>0, <1>10 DEF Settle, Kill, Task
    <2> QED BY <1>2, <2>1
  <1> QED BY <1>1, <1>3, <1>4, <1>5, <1>6, <1>7, <1>8, <1>9, <1>10 DEF Crawl, PolitenessService, Continues, hand_off_audio,
             Elsewhere, save_to_minio, Send, publish_job_stage, Fail_job

\* The other pages.
LEMMA OthersStay ==
    ASSUME CrawlInv, NEW p \in Page, Crawl(p)
    PROVE  \A q \in Page : q # p => crawl'[q] = crawl[q]
  BY DEF Crawl, Deliver, PolitenessService, Continues, fetch_with_agent_rotation, hand_off_audio, escalate_to_deep,
         fetch_and_extract, record_crawl_log, Elsewhere, Archive, save_to_minio, Send, Raise, Settle, Kill,
         publish_job_stage, Fail_job, Goes, CrawlInv

LEMMA CrawlTells ==
    ASSUME Roomy, CrawlInv, ToldInv, TellInv, Grow, NEW p \in Page, Crawl(p)
    PROVE  TellInv'
  <1>0. faults \subseteq faults' /\ situation' = situation
    BY DEF Grow
  <1>1. \A q \in Page : crawl'[q].crashed => "raise" \in faults'
    BY <1>0, CrashedRaised
  <1> SUFFICES ASSUME "redis" \notin faults' PROVE Told'
    BY <1>1 DEF TellInv
  <1>2. "redis" \notin faults /\ Told
    BY <1>0 DEF TellInv
  <1>3. PICK c, d : c = Again(faults) /\ d = Again(faults')
    OBVIOUS
  <1>4. c \in Nat /\ d \in Nat /\ c <= d
    BY <1>0, <1>3 DEF Again
  <1>5. TaskTold(history, p, crawl[p], c)
    BY <1>2, <1>3 DEF Told
  <1>6. crawl[p].at = "working" => Going(history, p, crawl[p], c)
    BY <1>5 DEF TaskTold
  <1>7. ASSUME history' = history, TaskTold(history, p, crawl'[p], c) \/ TaskTold(history, p, crawl'[p], d)
        PROVE  Told'
    <2>1. TaskTold(history, p, crawl'[p], d)
      BY <1>4, <1>7, TaskGrows
    <2> QED BY <1>0, <1>2, <1>3, <1>7, <2>1, OthersStay, StepTold
  <1>8. CASE Deliver(p)
    BY <1>4, <1>5, <1>7, <1>8, DeliverTells DEF Deliver, Silently, redisVars
  <1>9. CASE PolitenessService(p)
    BY <1>4, <1>6, <1>7, <1>9, PolitenessTells DEF PolitenessService, Continues, Silently, redisVars, At
  <1>10. CASE fetch_with_agent_rotation(p)
    BY <1>4, <1>6, <1>7, <1>10, FetchTells DEF fetch_with_agent_rotation, Silently, redisVars, At
  <1>11. CASE hand_off_audio(p)
    BY <1>4, <1>6, <1>7, <1>11, HandOffTells DEF hand_off_audio, Continues, Silently, redisVars, At
  <1>12. CASE escalate_to_deep(p)
    BY <1>4, <1>6, <1>7, <1>12, EscalateTells DEF escalate_to_deep, Silently, redisVars, At
  <1>13. CASE fetch_and_extract(p)
    BY <1>4, <1>6, <1>7, <1>13, IngestTells DEF fetch_and_extract, Silently, redisVars, At
  <1>14. CASE record_crawl_log(p)
    BY <1>4, <1>6, <1>7, <1>14, LoggingTells DEF record_crawl_log, Silently, redisVars, At
  <1>15. CASE Archive(p) \/ Send(p) \/ Elsewhere(p) \/ save_to_minio(p) \/ Fail_job(p)
    <2>1. history' = history /\ crawl[p].at = "working"
      BY <1>15 DEF Archive, Send, Elsewhere, Continues, save_to_minio, Fail_job, Silently, redisVars, At
    <2> QED BY <1>4, <1>6, <1>7, <1>15, <2>1, WorkTells
  <1>16. CASE publish_job_stage(p)
    <2>1. CASE At(p, "publish")
      <3>1. /\ history' = history /\ crawl[p].at = "working"
            /\ Goes(p, <<[Head(crawl[p].script) EXCEPT !.do = "push"]>> \o Rest(p))
        BY <1>16, <2>1 DEF publish_job_stage, Fault, At
      <3> QED BY <1>4, <1>6, <1>7, <2>1, <3>1, PublishTells
    <2>2. CASE At(p, "push")
      <3>1. /\ history' = Pushed(Head(crawl[p].script).event) /\ Goes(p, Rest(p)) /\ faults' = faults
        BY <1>16, <2>2 DEF publish_job_stage, At
      <3> QED BY <1>0, <1>2, <2>2, <3>1, PushTold
    <2> QED BY <1>16, <2>1, <2>2 DEF publish_job_stage
  <1>17. CASE Raise(p)
    <2>1. ~crawl[p].crashed /\ crawl[p].at = "working"
      BY <1>17 DEF Raise, Fault, TellInv, At
    <2> QED BY <1>4, <1>6, <1>7, <1>17, <2>1, RaiseTells DEF Raise, Silently, redisVars
  <1>18. CASE Settle(p)
    BY <1>4, <1>6, <1>7, <1>18, SettleTells DEF Settle, Silently, redisVars
  <1>19. CASE Kill(p)
    <2>1. c = 0 /\ d = 6 /\ crawl[p].at = "working" /\ history' = history
      BY <1>3, <1>19 DEF Kill, Fault, Again, Silently, redisVars
    <2>2. Going(history, p, crawl[p], 0)
      BY <1>6, <2>1
    <2>3. TaskTold(history, p, crawl'[p], 6)
      BY <1>19, <2>2, KillTells
    <2> QED BY <1>7, <2>1, <2>3
  <1> QED BY <1>8, <1>9, <1>10, <1>11, <1>12, <1>13, <1>14, <1>15, <1>16, <1>17, <1>18, <1>19 DEF Crawl

\* No other step tells of a page.
LEMMA TellStays ==
    ASSUME TellInv, UNCHANGED <<situation, crawl, history>>, faults \subseteq faults'
    PROVE  TellInv'
  <1>1. \A p \in Page : crawl'[p].crashed => "raise" \in faults'
    BY DEF TellInv
  <1> SUFFICES ASSUME "redis" \notin faults' PROVE Told'
    BY <1>1 DEF TellInv
  <1>2. Told
    BY DEF TellInv
  <1>3. PICK h, c, d : h = history /\ c = Again(faults) /\ d = Again(faults')
    OBVIOUS
  <1>4. c \in Nat /\ d \in Nat /\ c <= d
    BY <1>3 DEF Again
  <1>5. ASSUME NEW p \in Page PROVE TaskTold(history, p, crawl[p], Again(faults))'
    <2>1. PICK t : t = crawl[p]
      OBVIOUS
    <2>2. TaskTold(h, p, t, c)
      BY <1>2, <1>3, <2>1 DEF Told
    <2>3. TaskTold(h, p, t, d)
      BY <1>4, <2>2, TaskGrows
    <2>4. h = history' /\ t = crawl'[p] /\ d = Again(faults')
      BY <1>3, <2>1
    <2> QED BY <2>3, <2>4, TaskPrimed
  <1> QED BY <1>2, <1>5 DEF Told

LEMMA TellInit == ASSUME Init PROVE TellInv
  <1>1. history = <<>> /\ faults = {} /\ crawl = [p \in Page |-> Queued]
    BY DEF Init, LiveInit
  <1>2. Len(history) <= JOB_HISTORY_MAX_LINES /\ DOMAIN history = {}
    BY <1>1, LiveAssumption
  <1>3. ASSUME NEW p \in Page PROVE TaskTold(history, p, crawl[p], Again(faults))
    <2>1. Lines(history, p) = {}
      BY <1>2 DEF Lines
    <2>2. Few(history, p, Again(faults))
      <3>1. [n \in {} |-> 1] \in [{} -> 1..Again(faults)]
        OBVIOUS
      <3> QED BY <2>1, <3>1 DEF Few
    <2>3. crawl[p].at = "queued"
      BY <1>1 DEF Queued
    <2> QED BY <2>2, <2>3 DEF TaskTold
  <1>4. \A p \in Page : ~crawl[p].crashed
    BY <1>1 DEF Queued
  <1> QED BY <1>2, <1>3, <1>4 DEF TellInv, Told

-----------------------------------------------------------------------------
(* A browser that opens the job when all is over. *)

\* What is left of the replay after j lines, and what these have shown.
Left(r, h, j) == Len(r) = Len(h) - j /\ \A i \in 1..Len(r) : r[i] = h[j + i]
Seen(sites, h, j) ==
    \A p \in Page, m, n \in DOMAIN h, told \in {"failed", "passed"} : Closed(h, p, m, n, told) =>
       (j >= n => sites[p] = told) /\ (j >= m => sites[p] # None)
Replayed == \E j \in 0..Len(history) : Left(server[1].replay, history, j) /\ Seen(view.sites, history, j)

LateInv ==
    /\ view.conn = 0 \/ view.opened
    /\ view.conn = 0 => listener.at = "off" /\ channel = <<>> /\ ~view.up
    /\ \A c \in Conn : c > view.conn => server[c] = NoServer
    /\ view.late => Quiet
    /\ view.late /\ view.conn <= 1 => channel = <<>> /\ listener.at # "sending"
    /\ view.late /\ view.conn = 1 /\ view.up =>
          /\ server[1].alive
          /\ server[1].at \in {"replay", "open"} => Replayed
          /\ server[1].at = "open" => server[1].replay = <<>>

LEMMA SeenNothing == ASSUME NEW h \in Seq(Event), NEW sites PROVE Seen(sites, h, 0)
  <1>1. \A n \in DOMAIN h : ~(0 >= n)
    OBVIOUS
  <1> QED BY <1>1 DEF Seen

LEMMA SeenMore ==
    ASSUME NEW h \in Seq(Event), NEW j \in 0..Len(h), j < Len(h), NEW sites \in [Page -> {None, "active", "failed", "passed"}],
           Seen(sites, h, j), NEW e, e = h[j + 1], NEW seen, seen = Shown(sites, e)
    PROVE  Seen(seen, h, j + 1)
  <1>0. e \in Event /\ e.url \in Page \cup {None} /\ None \notin Page
    <2>1. j + 1 \in 1..Len(h)
      OBVIOUS
    <2>2. e \in Event
      BY <2>1
    <2> QED BY <2>2, LiveAssumption DEF Event
  <1>1. \A p \in Page : p # e.url => seen[p] = sites[p]
    BY DEF Shown
  <1>2. \A p \in Page : sites[p] # None => seen[p] # None
    BY <1>0 DEF Shown, None
  <1>3. e.url \in Page /\ e.stage # "site_finished" => seen[e.url] = "active"
    BY <1>0 DEF Shown
  <1>4. e.url \in Page /\ e.stage = "site_finished" /\ sites[e.url] # None /\ e.state \in {"failed", "passed"}
          => seen[e.url] = e.state
    BY <1>0 DEF Shown
  <1> SUFFICES ASSUME NEW p \in Page, NEW m \in DOMAIN h, NEW n \in DOMAIN h, NEW told \in {"failed", "passed"},
                      Closed(h, p, m, n, told)
               PROVE  (j + 1 >= n => seen[p] = told) /\ (j + 1 >= m => seen[p] # None)
    BY DEF Seen
  <1>5. (j >= n => sites[p] = told) /\ (j >= m => sites[p] # None)
    BY DEF Seen
  <1>6. /\ h[m].url = p /\ h[m].stage # "site_finished" /\ h[n].url = p /\ h[n].stage = "site_finished" /\ h[n].state = told
        /\ m < n /\ m \in Nat /\ n \in Nat
        /\ \A k \in DOMAIN h : h[k].url = p => k <= m \/ k = n
    BY DEF Closed, Working, Lines
  <1>7. j + 1 >= n => seen[p] = told
    <2>1. CASE j >= n
      <3>1. j + 1 \in DOMAIN h /\ ~(j + 1 <= m) /\ j + 1 # n
        BY <1>6, <2>1
      <3>2. e.url # p
        BY <1>6, <3>1
      <3> QED BY <1>1, <1>5, <2>1, <3>2
    <2>2. CASE j + 1 = n
      <3>1. j >= m
        BY <1>6, <2>2
      <3>2. sites[p] # None /\ e.url = p /\ e.stage = "site_finished" /\ e.state = told
        BY <1>5, <1>6, <2>2, <3>1
      <3> QED BY <1>4, <3>2
    <2> QED BY <1>6, <2>1, <2>2
  <1>8. j + 1 >= m => seen[p] # None
    <2>1. CASE j >= m
      BY <1>2, <1>5, <2>1
    <2>2. CASE j + 1 = m
      <3>1. e.url = p /\ e.stage # "site_finished"
        BY <1>6, <2>2
      <3> QED BY <1>3, <3>1 DEF None
    <2> QED BY <1>6, <2>1, <2>2
  <1> QED BY <1>7, <1>8

\* After everything was told no page, no message and no job has a step left.
LEMMA QuietStays ==
    ASSUME CrawlInv, ParserInv, Quiet
    PROVE  /\ \A p \in Page : ~Crawl(p)
           /\ ~ParseCreate /\ ~ParseStore /\ ~Reparse /\ ~EndJob
  <1>1. ASSUME NEW p \in Page, crawl[p].at \in {"queued", "working"} PROVE FALSE
    BY <1>1 DEF Quiet, AtRest
  <1>2. ASSUME NEW p \in Page, Crawl(p) PROVE crawl[p].at \in {"queued", "working"}
    BY <1>2 DEF Crawl, Deliver, PolitenessService, fetch_with_agent_rotation, hand_off_audio, escalate_to_deep,
         fetch_and_extract, record_crawl_log, Elsewhere, Archive, save_to_minio, Send, Raise, Settle, Kill,
         publish_job_stage, Fail_job, At
  <1>3. ~ParseCreate /\ ~ParseStore /\ ~Reparse
    BY DEF Quiet, ParserInv, ParseCreate, ParseStore, Reparse
  <1>4. ~EndJob
    BY DEF Quiet, EndJob, TERMINAL_STATUSES
  <1> QED BY <1>1, <1>2, <1>3, <1>4

\* The other steps, before that.
LEMMA EarlierLate ==
    ASSUME LateInv, ~view.late, UNCHANGED <<view, listener, server>>, channel' = channel \/ \E e : channel' = Published(e)
    PROVE  LateInv'
  <1>1. view.conn = 0 => channel' = <<>>
    BY DEF LateInv, Published
  <1> QED BY <1>1 DEF LateInv

LEMMA CrawlLate == ASSUME LateInv, CrawlInv, ParserInv, NEW p \in Page, Crawl(p) PROVE LateInv'
  <1>1. ~view.late
    BY QuietStays DEF LateInv
  <1>2. UNCHANGED <<view, listener, server>> /\ (channel' = channel \/ \E e : channel' = Published(e))
    BY DEF Crawl, Deliver, PolitenessService, Continues, fetch_with_agent_rotation, hand_off_audio, escalate_to_deep,
         fetch_and_extract, record_crawl_log, Elsewhere, Archive, save_to_minio, Send, Raise, Settle, Kill,
         publish_job_stage, Fail_job, Silently, Unseen, redisVars, pageVars
  <1> QED BY <1>1, <1>2, EarlierLate

LEMMA OtherLate == ASSUME LateInv, CrawlInv, ParserInv, ParseCreate \/ ParseStore \/ Reparse \/ EndJob PROVE LateInv'
  <1>1. ~view.late
    BY QuietStays DEF LateInv
  <1>2. UNCHANGED <<view, listener, server>> /\ (channel' = channel \/ \E e : channel' = Published(e))
    BY DEF ParseCreate, ParseStore, Reparse, EndJob, Silently, Unseen, redisVars, pageVars
  <1> QED BY <1>1, <1>2, EarlierLate

LEMMA QuietKept == ASSUME Quiet, UNCHANGED <<status, crawl, raw>> PROVE Quiet'
  BY DEF Quiet, AtRest

\* The listener.
LEMMA ListenerLate ==
    ASSUME LateInv, LiveTyped, UNCHANGED <<status, crawl, raw>>, Subscribe \/ RedisDrops \/ Receive \/ broadcast_job_update
    PROVE  LateInv'
  <1>1. UNCHANGED <<server, history>>
    BY DEF Subscribe, RedisDrops, Receive, broadcast_job_update
  <1>2. view.conn # 0
    BY DEF LateInv, Subscribe, RedisDrops, Receive, broadcast_job_update
  <1>3. CASE Subscribe \/ RedisDrops
    <2>1. UNCHANGED view /\ channel' = <<>> /\ listener'.at # "sending"
      BY <1>3 DEF Subscribe, RedisDrops, pageVars, LiveTyped, Listener
    <2> QED BY <1>1, <1>2, <2>1, QuietKept DEF LateInv, Replayed
  <1>4. CASE Receive \/ broadcast_job_update
    <2>1. ~(view.late /\ view.conn <= 1)
      BY <1>4 DEF LateInv, Receive, broadcast_job_update
    <2>2. view'.late = view.late /\ view'.conn = view.conn /\ view'.opened = view.opened
      <3>1. view' = view \/ \E sites, refresh : view' = [view EXCEPT !.sites = sites, !.refresh = refresh]
        BY <1>4 DEF Receive, broadcast_job_update, pageVars, Send_json, onEvent
      <3> QED BY <3>1 DEF LiveTyped, View
    <2>3. ~(view'.late /\ view'.conn <= 1) /\ ~(view'.late /\ view'.conn = 1)
      BY <2>1, <2>2
    <2> QED BY <1>1, <1>2, <2>2, <2>3, QuietKept DEF LateInv
  <1> QED BY <1>3, <1>4

LEMMA FirstConn == 1 \in Conn
  BY LiveAssumption DEF Conn

\* The sockets.
LEMMA ServerLate ==
    ASSUME LateInv, ToldInv, UNCHANGED <<status, crawl, raw>>, NEW c \in Conn, ReadHistory(c) \/ Replay(c) \/ Disconnect(c)
    PROVE  LateInv'
  <1>0. /\ server \in [Conn -> Server] /\ view \in View /\ listener \in Listener /\ history \in Seq(Event)
        /\ view.conn \in Nat /\ 1 \in Conn
    <2>1. LoggedEvent \subseteq Event
      BY DEF LoggedEvent
    <2>2. history \in Seq(Event)
      BY <2>1, SeqGrows DEF ToldInv
    <2> QED BY <2>2, FirstConn, LiveAssumption DEF ToldInv, LiveTyped, View
  <1>1. server[c] # NoServer
    BY DEF ReadHistory, Replay, Disconnect, NoServer
  <1>2. c <= view.conn /\ view.conn # 0 /\ c \in Nat
    BY <1>0, <1>1 DEF LateInv, Conn
  <1>3. view.conn = 1 => c = 1
    BY <1>0, <1>2 DEF Conn
  <1>4. UNCHANGED history
    BY DEF ReadHistory, Replay, Disconnect, redisVars
  <1>5. \A d \in Conn : d # c => server'[d] = server[d]
    BY <1>0 DEF ReadHistory, Replay, Disconnect
  <1>6. CASE ReadHistory(c)
    <2>1. PICK t : t = server'[c]
      OBVIOUS
    <2>2. /\ t.at = "replay" /\ t.alive = server[c].alive /\ t.replay = history /\ UNCHANGED <<view, listener, channel>>
      BY <1>0, <1>6, <2>1 DEF ReadHistory, Server, redisVars, pageVars
    <2>3. Left(t.replay, history, 0) /\ Seen(view.sites, history, 0) /\ 0 \in 0..Len(history)
      <3>1. Len(history) \in Nat /\ Len(history) - 0 = Len(history) /\ \A i \in 1..Len(history) : 0 + i = i
        BY <1>0
      <3> QED BY <1>0, <2>2, <3>1, SeenNothing DEF Left
    <2>4. view.conn = 1 => server'[1] = t
      BY <1>3, <2>1
    <2>5. view.conn = 1 => Replayed'
      BY <1>4, <2>2, <2>3, <2>4 DEF Replayed
    <2>6. view.conn = 1 => server'[1].alive = server[1].alive /\ server'[1].at = "replay"
      BY <1>3, <2>2, <2>4
    <2>7. \A d \in Conn : d > view.conn => server'[d] = NoServer
      BY <1>0, <1>2, <1>5 DEF LateInv, Conn
    <2> QED BY <1>2, <2>2, <2>5, <2>6, <2>7, QuietKept DEF LateInv
  <1>7. CASE Disconnect(c)
    <2>1. UNCHANGED <<view, channel>> /\ server'[c] = NoServer /\ ~server[c].alive
      BY <1>0, <1>7 DEF Disconnect, redisVars, pageVars
    <2>2. listener'.at = listener.at
      <3>1. listener' = listener \/ \E size : listener' = [listener EXCEPT !.size = size]
        BY <1>7 DEF Disconnect
      <3> QED BY <1>0, <3>1 DEF Listener
    <2>3. ~(view.late /\ view.conn = 1 /\ view.up)
      BY <1>3, <2>1 DEF LateInv
    <2>4. \A d \in Conn : d > view.conn => server'[d] = NoServer
      BY <1>5, <2>1 DEF LateInv
    <2> QED BY <1>2, <2>1, <2>2, <2>3, <2>4, QuietKept DEF LateInv
  <1>8. CASE Replay(c)
    <2>1. UNCHANGED <<listener, channel>> /\ server[c].at = "replay"
      BY <1>8 DEF Replay, redisVars
    <2>2. \A d \in Conn : d > view.conn => server'[d] = NoServer
      BY <1>0, <1>2, <1>5 DEF LateInv, Conn
    <2>3. PICK t, r : t = server'[c] /\ r = server[c].replay
      OBVIOUS
    <2>4. CASE r = <<>>
      <3>1. t.at = "open" /\ t.alive = server[c].alive /\ t.replay = r /\ UNCHANGED view
        <4>1. server' = [server EXCEPT ![c].at = "open"] /\ UNCHANGED view
          BY <1>8, <2>3, <2>4 DEF Replay, pageVars
        <4> QED BY <1>0, <2>3, <4>1 DEF Server
      <3>2. view.conn = 1 => server'[1] = t /\ server[1].replay = r /\ server[1].alive = server[c].alive
        BY <1>3, <2>3
      <3>3. view.late /\ view.conn = 1 /\ view.up => Replayed'
        <4>1. view.late /\ view.conn = 1 /\ view.up => Replayed
          BY <1>3, <2>1 DEF LateInv
        <4> QED BY <1>4, <3>1, <3>2, <4>1 DEF Replayed
      <3>4. view.late /\ view.conn = 1 /\ view.up => server[1].alive
        BY DEF LateInv
      <3> QED BY <1>2, <2>1, <2>2, <2>4, <3>1, <3>2, <3>3, <3>4, QuietKept DEF LateInv
    <2>5. CASE r # <<>>
      <3>1. PICK e : e = Head(r)
        OBVIOUS
      <3>2. t.at = "replay" /\ t.alive = server[c].alive /\ t.replay = Tail(r) /\ Send_json(c, e)
        BY <1>0, <1>8, <2>1, <2>3, <2>5, <3>1 DEF Replay, Server
      <3>3. view' = view \/ \E sites, refresh : view' = [view EXCEPT !.sites = sites, !.refresh = refresh]
        BY <3>2 DEF Send_json, onEvent
      <3>4. view'.late = view.late /\ view'.conn = view.conn /\ view'.opened = view.opened /\ view'.up = view.up
        BY <1>0, <3>3 DEF View
      <3>5. ASSUME view.late, view.conn = 1, view.up
            PROVE  Replayed' /\ server'[1].alive /\ server'[1].at = "replay"
        <4>1. c = 1 /\ server[1].alive /\ server'[1] = t /\ server[1].replay = r
          BY <1>3, <2>3, <3>5 DEF LateInv
        <4>2. PICK h, j : h = history /\ j \in 0..Len(h) /\ Left(r, h, j) /\ Seen(view.sites, h, j)
          BY <2>1, <3>5, <4>1 DEF LateInv, Replayed
        <4>3. r \in Seq(Event) /\ Len(r) # 0 /\ h \in Seq(Event)
          BY <1>0, <2>3, <2>5, <4>2 DEF Server
        <4>4. j + 1 \in 0..Len(h) /\ j < Len(h) /\ e = h[j + 1]
          <5>1. Len(r) \in Nat /\ Len(h) \in Nat /\ Len(r) = Len(h) - j /\ 1 \in 1..Len(r) /\ r[1] = h[j + 1]
            BY <4>2, <4>3 DEF Left
          <5> QED BY <3>1, <4>2, <4>3, <5>1
        <4>5. Left(Tail(r), h, j + 1)
          <5>1. PICK s : s = Tail(r)
            OBVIOUS
          <5>2. Len(s) = Len(r) - 1 /\ Len(r) \in Nat /\ Len(h) \in Nat /\ \A i \in 1..Len(s) : s[i] = r[i + 1]
            BY <4>3, <5>1
          <5>3. Len(s) = Len(h) - (j + 1)
            BY <4>2, <5>2 DEF Left
          <5>4. \A i \in 1..Len(s) : i + 1 \in 1..Len(r) /\ j + (i + 1) = (j + 1) + i
            BY <4>2, <5>2
          <5>5. \A i \in 1..Len(s) : s[i] = h[(j + 1) + i]
            BY <4>2, <5>2, <5>4 DEF Left
          <5> QED BY <5>1, <5>3, <5>5 DEF Left
        <4>6. view'.sites = Shown(view.sites, e)
          <5>1. onEvent(e)
            BY <3>2, <4>1 DEF Send_json
          <5>2. PICK sites : sites = Shown(view.sites, e)
            OBVIOUS
          <5>3. view'.sites = sites
            BY <1>0, <5>1, <5>2 DEF onEvent, View
          <5> QED BY <5>2, <5>3
        <4>7. Seen(view'.sites, h, j + 1)
          <5>1. view.sites \in [Page -> {None, "active", "failed", "passed"}]
            BY <1>0 DEF View
          <5>2. PICK seen : seen = view'.sites
            OBVIOUS
          <5> QED BY <4>2, <4>3, <4>4, <4>6, <5>1, <5>2, SeenMore
        <4> QED BY <1>4, <3>2, <4>1, <4>2, <4>4, <4>5, <4>7 DEF Replayed
      <3> QED BY <1>2, <2>1, <2>2, <3>4, <3>5, QuietKept DEF LateInv
    <2> QED BY <2>4, <2>5
  <1> QED BY <1>6, <1>7, <1>8

\* The browser.
LEMMA BrowseLate ==
    ASSUME LateInv, ToldInv, CrawlInv, UNCHANGED <<status, crawl, raw>>, Browse(Quiet) \/ Drop
    PROVE  LateInv'
  <1>0. /\ server \in [Conn -> Server] /\ view \in View /\ listener \in Listener /\ view.conn \in Nat /\ 1 \in Conn
    BY FirstConn, LiveAssumption DEF ToldInv, LiveTyped, View
  <1>1. CASE Open(Quiet)
    <2>1. /\ view'.opened /\ view'.conn = view.conn /\ view'.up = view.up /\ view'.late = Quiet /\ view'.sites = view.sites
          /\ view.conn = 0
      BY <1>0, <1>1 DEF Open, View, LateInv
    <2>2. UNCHANGED <<listener, channel, server>>
      BY <1>1 DEF Open, redisVars, apiVars
    <2>3. view'.late => Quiet'
      BY <2>1, QuietKept
    <2> QED BY <2>1, <2>2, <2>3 DEF LateInv
  <1>2. CASE Connect
    <2>1. PICK d, t : d = view.conn + 1 /\ t = server'[d]
      OBVIOUS
    <2>2. d \in Conn
      <3>1. situation.conns \in 0..MaxConns
        BY SituationTyped
      <3> QED BY <1>0, <1>2, <2>1, <3>1, LiveAssumption DEF Connect, Conn
    <2>3. /\ view'.opened = view.opened /\ view'.conn = d /\ view'.late = view.late /\ view.opened
          /\ UNCHANGED <<history, channel>>
      BY <1>0, <1>2, <2>1 DEF Connect, View, redisVars
    <2>4. t.at = "accepted" /\ t.alive /\ \A c \in Conn : c # d => server'[c] = server[c]
      BY <1>0, <1>2, <2>1, <2>2 DEF Connect, Accept
    <2>5. listener' = listener \/ listener'.at = "connecting"
      BY <1>2 DEF Connect, Accept, start_job_updates_listener, Off
    <2>6. \A c \in Conn : c > d => server'[c] = NoServer
      BY <1>0, <2>1, <2>4 DEF LateInv, Conn
    <2>7. d # 0 /\ (d <= 1 => d = 1 /\ view.conn <= 1)
      BY <1>0, <2>1
    <2>8. d = 1 => server'[1] = t
      BY <2>1
    <2> QED BY <2>3, <2>4, <2>5, <2>6, <2>7, <2>8, QuietKept DEF LateInv
  <1>3. CASE Refresh
    <2>1. /\ view'.opened = view.opened /\ view'.conn = view.conn /\ view'.up = view.up /\ view'.late = view.late
          /\ view'.sites = view.sites
      BY <1>0, <1>3 DEF Refresh, View
    <2>2. UNCHANGED <<listener, channel, server, history>>
      BY <1>3 DEF Refresh, redisVars, apiVars
    <2> QED BY <2>1, <2>2, QuietKept DEF LateInv, Replayed
  <1>4. CASE Poll
    <2>1. UNCHANGED <<view, listener, channel, server, history>>
      BY <1>4 DEF Poll, redisVars, apiVars
    <2> QED BY <2>1, QuietKept DEF LateInv, Replayed
  <1>5. ASSUME NEW l \in loads, Arrive(l) PROVE LateInv'
    <2>1. view' = view \/ (\E s : view' = [view EXCEPT !.status = s]) \/ \E i : view' = [view EXCEPT !.items = i]
      BY <1>5 DEF Arrive
    <2>2. /\ view'.opened = view.opened /\ view'.conn = view.conn /\ view'.up = view.up /\ view'.late = view.late
          /\ view'.sites = view.sites
      BY <1>0, <2>1 DEF View
    <2>3. UNCHANGED <<listener, channel, server, history>>
      BY <1>5 DEF Arrive, redisVars, apiVars
    <2> QED BY <2>2, <2>3, QuietKept DEF LateInv, Replayed
  <1>6. CASE Drop
    <2>1. view'.opened = view.opened /\ view'.conn = view.conn /\ ~view'.up /\ view'.late = view.late /\ view.up
      BY <1>0, <1>6 DEF Drop, View
    <2>2. UNCHANGED <<listener, channel>> /\ \A c \in Conn : c # view.conn => server'[c] = server[c]
      BY <1>0, <1>6 DEF Drop, redisVars
    <2>3. \A c \in Conn : c > view.conn => server'[c] = NoServer
      BY <1>0, <2>2 DEF LateInv, Conn
    <2>4. view.conn # 0
      BY <2>1 DEF LateInv
    <2> QED BY <2>1, <2>2, <2>3, <2>4, QuietKept DEF LateInv
  <1> QED BY <1>1, <1>2, <1>3, <1>4, <1>5, <1>6 DEF Browse

LEMMA LateInit == ASSUME Init PROVE LateInv
  <1>1. /\ view = NoView /\ listener = Off /\ channel = <<>>
        /\ server = [c \in Conn |-> NoServer]
    BY DEF Init, LiveInit
  <1>2. view.conn = 0 /\ ~view.up /\ ~view.late /\ listener.at = "off"
    BY <1>1 DEF NoView, Off
  <1> QED BY <1>1, <1>2 DEF LateInv

LEMMA StutterLate ==
    ASSUME LateInv, UNCHANGED <<status, history, channel, listener, server, view, crawl, raw>>
    PROVE  LateInv'
  <1>1. Replayed => Replayed'
    BY DEF Replayed
  <1>2. Quiet => Quiet'
    BY QuietKept
  <1> QED BY <1>1, <1>2 DEF LateInv

\* Every step but a page's leaves the tasks and the history alone.
LEMMA LiveSame ==
    ASSUME NEW quiet, LiveStep(quiet), UNCHANGED crawlVars
    PROVE  UNCHANGED <<status, history, crawl, raw>>
  BY DEF LiveStep, Serve, Browse, RedisDrops, Drop, Subscribe, Receive, broadcast_job_update, ReadHistory,
         Replay, Disconnect, Open, Connect, Refresh, Poll, Arrive, redisVars, crawlVars

\* A step of the system.
PictureInv == TellInv /\ LateInv

LEMMA PictureStep ==
    ASSUME Roomy, PageInv, PictureInv, [Next]_vars
    PROVE  PictureInv'
  <1>0. CrawlInv /\ ToldInv /\ ParserInv /\ TellInv /\ LateInv /\ LiveTyped
    BY DEF PageInv, PictureInv, ToldInv
  <1>1. ASSUME NEW p \in Page, Crawl(p), UNCHANGED situation PROVE PictureInv'
    <2>1. Grow
      BY <1>0, <1>1, CrawlGrows
    <2> QED BY <1>0, <1>1, <2>1, CrawlTells, CrawlLate DEF PictureInv
  <1>2. CASE (ParseCreate \/ ParseStore \/ Reparse \/ EndJob) /\ UNCHANGED situation
    <2>1. UNCHANGED <<crawl, history>> /\ faults \subseteq faults'
      BY <1>2 DEF ParseCreate, ParseStore, Reparse, EndJob, Fault, Silently, redisVars, crawlVars
    <2> QED BY <1>0, <1>2, <2>1, TellStays, OtherLate DEF PictureInv
  <1>3. CASE LiveStep(Quiet) /\ UNCHANGED crawlVars /\ UNCHANGED situation
    <2>1. UNCHANGED <<status, history, crawl, raw>>
      BY <1>3, LiveSame
    <2>2. faults \subseteq faults'
      <3>1. Grow
        BY <1>3, LiveGrows
      <3> QED BY <3>1 DEF Grow
    <2>3. TellInv'
      BY <1>0, <1>3, <2>1, <2>2, TellStays
    <2>4. LateInv'
      BY <1>0, <1>3, <2>1, ListenerLate, ServerLate, BrowseLate DEF LiveStep, Serve
    <2> QED BY <2>3, <2>4 DEF PictureInv
  <1>4. CASE UNCHANGED vars
    <2>1. UNCHANGED <<situation, status, history, channel, listener, server, view, faults, crawl, raw>>
      BY <1>4 DEF vars, liveVars, redisVars, apiVars, pageVars, crawlVars
    <2> QED BY <1>0, <2>1, TellStays, StutterLate DEF PictureInv
  <1> QED BY <1>1, <1>2, <1>3, <1>4 DEF Next

\* At the end of the replay nothing of the history is left, and the history has each closed site.
LEMMA PictureShown ==
    ASSUME PageInv, PictureInv
    PROVE  FullPicture
  <1> SUFFICES ASSUME view.late, view.conn = 1, view.up, server[1].at = "open", "redis" \notin faults,
                      NEW p \in Page, crawl[p].at = "settled", Says(p) # None
               PROVE  view.sites[p] \in (CASE Says(p) \in {"failed", "escalated"} -> {"failed"}
                                           [] Says(p) = "skipped" -> {"failed", "passed"}
                                           [] OTHER -> {"passed"})
    BY DEF FullPicture
  <1>1. Replayed /\ server[1].replay = <<>>
    BY DEF PictureInv, LateInv
  <1>2. PICK h, t : h = history /\ t = crawl[p]
    OBVIOUS
  <1>3. h \in Seq(LoggedEvent) /\ Len(h) \in Nat
    BY <1>2 DEF PageInv, ToldInv
  <1>4. PICK j \in 0..Len(h) : Left(<<>>, h, j) /\ Seen(view.sites, h, j)
    BY <1>1, <1>2 DEF Replayed
  <1>5. j = Len(h)
    <2>1. 0 = Len(h) - j
      BY <1>4 DEF Left
    <2> QED BY <1>3, <2>1
  <1>6. TaskTold(h, p, t, Again(faults))
    BY <1>2 DEF PictureInv, TellInv, Told
  <1>7. PICK told \in {"failed", "passed"} : Matches(t.said, told) /\ Holds(h, p, told)
    BY <1>2, <1>6 DEF TaskTold, Settled, Says
  <1>8. PICK m \in DOMAIN h, n \in DOMAIN h : Closed(h, p, m, n, told)
    BY <1>7 DEF Holds
  <1>9. j >= n
    BY <1>3, <1>5, <1>8
  <1>10. view.sites[p] = told
    BY <1>4, <1>8, <1>9 DEF Seen
  <1>11. t.said = Says(p)
    BY <1>2 DEF Says
  <1> QED BY <1>7, <1>10, <1>11 DEF Matches

\* A browser that opens the job after everything was told sees every site the worker closed as the
\* crawl log has it, whatever of the history was trimmed, for both workers, after a kill and
\* whatever raised - as long as the history has room for the lines of all other pages and two more.
\* With 500 lines (job_events.py:31) this is so for any job of up to 42 pages; of more pages the
\* first may be missing.
THEOREM FullPictureTheorem == Roomy => (Spec => []FullPicture)
  <1> SUFFICES ASSUME Roomy PROVE Spec => []FullPicture
    OBVIOUS
  <1>1. Init => PictureInv
    BY TellInit, LateInit DEF PictureInv
  <1>2. PageInv /\ PictureInv /\ [Next]_vars => PictureInv'
    BY PictureStep
  <1>3. PageInv /\ PictureInv => FullPicture
    BY PictureShown
  <1> QED BY <1>1, <1>2, <1>3, PageInvariant, PTL DEF Spec
==============================================================================
