---------------------------- MODULE LiveUpdates ----------------------------
(* The live picture of one job: its events on the way through Redis, the     *)
(* listener and the WebSockets of the API process, and the job page of a     *)
(* browser, which also asks over REST. Redis pub/sub keeps nothing for who   *)
(* is not subscribed, every await may let another coroutine in, and what is  *)
(* read before one is sent after it.                                         *)
EXTENDS Naturals, Sequences, FiniteSets

CONSTANTS
  Page,                  \* the sites of the job, by request URL
  JOB_HISTORY_MAX_LINES,
  MaxConns,              \* bound on the connections of a browser
  MaxLag,                \* bound on the messages the listener is behind
  Situations             \* what is explored together, see LiveAssumption

None == "none"
NoRow == [item |-> 0, path |-> <<>>, kind |-> None]

FaultKind == {"redis", "drop", "load", "raise", "kill", "archive", "reparse"}

\* A situation bounds the connections the browser opens, when it opens the page - before
\* anything is told, when all is over, or at any time -, the REST requests under way, the
\* failures, each at most once, and the answers of the servers.
ASSUME LiveAssumption ==
  /\ JOB_HISTORY_MAX_LINES \in Nat \ {0} /\ MaxConns \in Nat \ {0} /\ MaxLag \in Nat \ {0}
  /\ \A s \in Situations :
       /\ s.conns \in 0..MaxConns /\ s.joins \in {"first", "late", "any"} /\ s.loads \in Nat
       /\ s.faults \subseteq FaultKind /\ s.maxFaults \in Nat
  /\ None \notin Page

Conn == 1..MaxConns

VARIABLES
  situation, \* a member of Situations
  status,   \* jobs.status
  parsed,   \* [Page -> the row of parsed_items, see SurfacePage, or NoRow]
  history,  \* the Redis list of the job's stages
  channel,  \* the buffer of the listener's subscription
  listener, \* _listener_task
  conns,    \* _connections[job_id]
  server,   \* [Conn -> the coroutine that serves the socket]
  view,     \* what the job page of the browser holds
  loads,    \* answers to its REST requests, on their way
  faults

redisVars == <<history, channel>>
apiVars   == <<listener, conns, server>>
pageVars  == <<view, loads>>
liveVars  == <<status, parsed, redisVars, apiVars, pageVars, faults>>

Fault(f) ==
  /\ f \in situation.faults \ faults /\ Cardinality(faults) < situation.maxFaults
  /\ faults' = faults \cup {f}

TERMINAL_STATUSES == {"completed", "failed"}
StageEvent(p, stage, state) == [url |-> p, stage |-> stage, state |-> state]
\* job_status and item_parsed: to the page they are reasons to ask again.
JobEvent == [url |-> None, stage |-> "event", state |-> "info"]

-----------------------------------------------------------------------------
(* Redis                                                                     *)

\* A subscription that is not there misses the message.
Published(e) == IF listener.at \in {"listening", "sending"} THEN Append(channel, e) ELSE channel

\* Mutant: the list keeps its oldest lines.
Trim_oldest(s) == IF Len(s) <= JOB_HISTORY_MAX_LINES THEN s ELSE SubSeq(s, 1, JOB_HISTORY_MAX_LINES)
Trim(s) == IF Len(s) <= JOB_HISTORY_MAX_LINES THEN s
           ELSE SubSeq(s, Len(s) - JOB_HISTORY_MAX_LINES + 1, Len(s))

Pushed(e) == Trim(Append(history, e))

-----------------------------------------------------------------------------
(* What the job page holds, and what an event makes of it                    *)

\* status and items: job and items, None until they were loaded.
NoView == [opened |-> FALSE, conn |-> 0, up |-> FALSE, refresh |-> FALSE, status |-> None,
           items |-> None, sites |-> [p \in Page |-> None], late |-> FALSE]

\* onEvent: the sites' part.
Shown(sites, e) ==
  IF e.url = None THEN sites
  ELSE IF e.stage # "site_finished" THEN [sites EXCEPT ![e.url] = "active"]
  ELSE IF sites[e.url] = None THEN sites
  ELSE [sites EXCEPT ![e.url] = IF e.state = "failed" THEN "failed" ELSE "passed"]

\* A socket keeps the order of what it carries, and what the browser had not handled
\* when it broke is lost: the handler of a message runs when the message is sent.
onEvent(e) ==
  view' = [view EXCEPT !.sites = Shown(@, e), !.refresh = @ \/ (situation.loads > 0 /\ e.stage \in {"parsing", "event"})]

\* _send_json: a dead socket swallows what it is sent.
Send_json(c, e) == IF server[c].alive THEN onEvent(e) ELSE UNCHANGED view

-----------------------------------------------------------------------------
(* The listener and the sockets of the API process                           *)

Off == [at |-> "off", event |-> JobEvent, to |-> {}, sent |-> {}, size |-> 0, dead |-> {}]
Gone == MaxConns + 1 \* the size of a set that left _connections while it was iterated

start_job_updates_listener ==
  listener' = IF listener.at = "off" THEN [Off EXCEPT !.at = "connecting"] ELSE listener

Subscribe ==
  /\ listener.at = "connecting"
  /\ listener' = [listener EXCEPT !.at = "listening"] /\ channel' = <<>>
  /\ UNCHANGED <<status, parsed, history, conns, server, pageVars, faults>>

\* iter_job_events closes the subscription and makes a new one five seconds later.
RedisDrops ==
  /\ listener.at = "listening" /\ Fault("redis")
  /\ listener' = [listener EXCEPT !.at = "connecting"] /\ channel' = <<>>
  /\ UNCHANGED <<status, parsed, history, conns, server, pageVars>>

Receive ==
  /\ listener.at = "listening" /\ channel # <<>>
  /\ channel' = Tail(channel)
  /\ listener' = IF conns = {} THEN listener
                 ELSE [at |-> "sending", event |-> Head(channel), to |-> conns,
                       sent |-> {}, size |-> Cardinality(conns), dead |-> {}]
  /\ UNCHANGED <<status, parsed, history, conns, server, pageVars, faults>>

\* The loop of broadcast_job_update goes over the set itself: when its size has
\* changed during an await the next step raises, and the task ends.
broadcast_job_update ==
  /\ listener.at = "sending"
  /\ LET left == conns \ listener.sent
     IN \/ /\ Cardinality(conns) # listener.size
           /\ listener' = Off /\ channel' = <<>> /\ UNCHANGED <<conns, view>>
        \/ /\ Cardinality(conns) = listener.size
           /\ \E c \in left :
                /\ listener' = [listener EXCEPT !.sent = @ \cup {c},
                                                !.dead = IF server[c].alive THEN @ ELSE @ \cup {c}]
                /\ Send_json(c, listener.event)
           /\ UNCHANGED <<channel, conns>>
        \/ /\ Cardinality(conns) = listener.size
           /\ left \cap listener.to = {}
           /\ listener' = [Off EXCEPT !.at = "listening"]
           /\ conns' = conns \ listener.dead
           /\ UNCHANGED <<channel, view>>
  /\ UNCHANGED <<status, parsed, history, server, loads, faults>>

NoServer == [at |-> "none", alive |-> FALSE, replay |-> <<>>]

\* accept, register, start the listener; the page ignores "connected" and
\* "initial_status", which carry no event.
Accept(c) ==
  /\ conns' = conns \cup {c}
  /\ server' = [server EXCEPT ![c] = [at |-> "accepted", alive |-> TRUE, replay |-> <<>>]]
  /\ start_job_updates_listener

ReadHistory(c) ==
  /\ server[c].at = "accepted"
  /\ server' = [server EXCEPT ![c].at = "replay", ![c].replay = history]
  /\ UNCHANGED <<status, parsed, redisVars, listener, conns, pageVars, faults>>

Replay(c) ==
  /\ server[c].at = "replay"
  /\ IF server[c].replay = <<>>
     THEN server' = [server EXCEPT ![c].at = "open"] /\ UNCHANGED view
     ELSE /\ server' = [server EXCEPT ![c].replay = Tail(@)]
          /\ Send_json(c, Head(server[c].replay))
  /\ UNCHANGED <<status, parsed, redisVars, listener, conns, loads, faults>>

\* receive_text or the ping raises; the last one takes the set out of _connections.
Disconnect(c) ==
  /\ server[c].at = "open" /\ ~server[c].alive
  /\ server' = [server EXCEPT ![c] = NoServer]
  /\ conns' = conns \ {c}
  /\ listener' = IF conns' = {} /\ listener.at = "sending" THEN [listener EXCEPT !.size = Gone] ELSE listener
  /\ UNCHANGED <<status, parsed, redisVars, pageVars, faults>>

-----------------------------------------------------------------------------
(* The job page                                                              *)

\* load: getJob, and once it is there getJobArticles.
Ask == loads \cup {[part |-> "job", answer |-> status]}
Items == IF \E p \in Page : parsed[p] # NoRow THEN "some" ELSE "none"

load == Cardinality(loads) < situation.loads /\ loads' = Ask

\* quiet: nothing more will be told about the job.
Open(quiet) ==
  /\ ~view.opened
  /\ CASE situation.joins = "first" -> history = <<>>
       [] situation.joins = "late"  -> quiet
       [] OTHER -> TRUE
  /\ view' = [view EXCEPT !.opened = TRUE, !.late = quiet]
  /\ loads' = IF situation.loads > 0 THEN Ask ELSE loads
  /\ UNCHANGED <<status, parsed, redisVars, apiVars, faults>>

\* Also after a drop; onOpen asks for a refresh.
Connect ==
  /\ view.opened /\ ~view.up /\ view.conn < situation.conns
  /\ view' = [view EXCEPT !.conn = @ + 1, !.up = TRUE, !.refresh = situation.loads > 0]
  /\ Accept(view.conn + 1)
  /\ UNCHANGED <<status, parsed, redisVars, loads, faults>>

\* The browser knows at once, the server when it next reads from or pings the socket.
Drop ==
  /\ view.up /\ Fault("drop")
  /\ view' = [view EXCEPT !.up = FALSE]
  /\ server' = [server EXCEPT ![view.conn].alive = FALSE]
  /\ UNCHANGED <<status, parsed, redisVars, listener, conns, loads>>

Refresh ==
  /\ view.refresh /\ load
  /\ view' = [view EXCEPT !.refresh = FALSE]
  /\ UNCHANGED <<status, parsed, redisVars, apiVars, faults>>

\* Every five seconds while the job is active, or is finished and its list of items
\* came back empty. Mutant: a finished job is not asked for again.
Active == view.status \notin {None} \cup TERMINAL_STATUSES
Polls_active == Active
Polls == Active \/ (view.status \in TERMINAL_STATUSES /\ view.items = "none")

\* The timer of the poll, and the one of onFallback while the socket is down.
Poll ==
  /\ Polls \/ (view.opened /\ ~view.up /\ view.status \notin TERMINAL_STATUSES)
  /\ load
  /\ UNCHANGED <<status, parsed, redisVars, apiVars, view, faults>>

Arrive(l) ==
  /\ l \in loads
  /\ \/ /\ l.part = "job"
        /\ view' = [view EXCEPT !.status = l.answer]
        /\ loads' = (loads \ {l}) \cup {[part |-> "items", answer |-> Items]}
        /\ UNCHANGED faults
     \/ /\ l.part = "items"
        /\ view' = [view EXCEPT !.items = l.answer]
        /\ loads' = loads \ {l} /\ UNCHANGED faults
     \/ /\ Fault("load") /\ loads' = loads \ {l} /\ UNCHANGED view
  /\ UNCHANGED <<status, parsed, redisVars, apiVars>>

-----------------------------------------------------------------------------

LiveInit ==
  /\ situation \in Situations
  /\ status = "running" /\ parsed = [p \in Page |-> NoRow]
  /\ history = <<>> /\ channel = <<>>
  /\ listener = Off /\ conns = {} /\ server = [c \in Conn |-> NoServer]
  /\ view = NoView /\ loads = {} /\ faults = {}

Serve == Subscribe \/ Receive \/ broadcast_job_update
         \/ \E c \in Conn : ReadHistory(c) \/ Replay(c) \/ Disconnect(c)
Browse(quiet) == Open(quiet) \/ Connect \/ Refresh \/ Poll \/ \E l \in loads : Arrive(l)
LiveStep(quiet) == Serve \/ Browse(quiet) \/ RedisDrops \/ Drop
=============================================================================
