---------------------------- MODULE ContentDedup ----------------------------
(***************************************************************************)
(* Content deduplication from the crawlers to crawl.parsed.  The surface   *)
(* and the deep worker fingerprint the pages they crawl, before they       *)
(* publish them, in content_fingerprints; pages of the dark worker,        *)
(* documents and transcripts are published without.  The parser-worker     *)
(* fingerprints whatever comes through crawl.raw, from its own extraction  *)
(* of the text, and drops a page that repeats another one.  A step is what *)
(* happens between two awaits; crawlers and parsers run concurrently.      *)
(***************************************************************************)
EXTENDS Integers, Sequences, FiniteSets

CONSTANTS
    Item,         \* item_ids, one per crawl of a page; a page crawled again gets a new one
    Job, Url, Content,
    None,
    job,          \* job[i], url[i]: what item i is a crawl of
    url,
    crawled,      \* crawled[i]: the normalized text the crawler extracts from the page
    extracted,    \* extracted[i]: the one that is stored; the parser extracts it anew
    Deep,         \* items crawled by the deep worker, which stores the text it extracted
    Distance,     \* Distance[c][d]: Hamming distance of the SimHashes
    DEDUP_SIMHASH_THRESHOLD,
    Faults,       \* the environment events that may happen
    MaxFaults,    \* bound on how many of them happen
    MaxStale      \* bound on how many rows become stale

FaultKind == {"crash",      \* a crawler dies, or a step of a page raises
              "fingerprint",\* PostgreSQL fails in the fingerprint block
              "redeliver",  \* a parser dies before the offset is committed
              "lose"}       \* a parser dies after it, or a record raises

ASSUME DedupAssumption ==
    /\ None \notin Item
    /\ job \in [Item -> Job] /\ url \in [Item -> Url]
    /\ crawled \in [Item -> Content] /\ extracted \in [Item -> Content]
    /\ Deep \subseteq Item /\ \A i \in Deep : crawled[i] = extracted[i]
    /\ Distance \in [Content -> [Content -> Nat]]
    /\ \A c, d \in Content : /\ Distance[c][d] = Distance[d][c]
                             /\ Distance[c][c] = 0
                             /\ Distance[c][d] = 0 => Distance[c] = Distance[d] \* equal hashes
    /\ DEDUP_SIMHASH_THRESHOLD \in Nat
    /\ Faults \subseteq FaultKind /\ MaxFaults \in Nat /\ MaxStale \in Nat

VARIABLES
    fingerprints, \* content_fingerprints, in the order of created_at
    stale,        \* rows 1..stale are older than DEDUP_STALE_HOURS
    parsed_items, \* parsed_items[j][u]: the item_id of the row (j, u), or None
    pc,           \* pc[i]: the next step of item i
    dup_of,       \* dup_of[i]: the duplicate found so far
    known,        \* known[i]: how many rows there were when the crawl of i began
    parsed,       \* items published to crawl.parsed
    faults        \* how many environment events happened

vars == <<fingerprints, stale, parsed_items, pc, dup_of, known, parsed, faults>>

tables == <<fingerprints, stale, parsed_items>>

Crawling == {"crawl_create", "crawl_exact", "crawl_near", "crawl_store", "crawl_publish"}
Parsing == {"exact", "near", "create", "store", "publish"}

Row == [item : Item, url : Url, content : Content, duplicate_of : Item \cup {None}]

-----------------------------------------------------------------------------
(* The table of fingerprints. *)

Fresh(k) == k > stale

Originals == {k \in DOMAIN fingerprints : fingerprints[k].duplicate_of = None}

Newest(rows) == CHOOSE k \in rows : \A l \in rows : l <= k

\* The item of the newest original with this content, unless that one is stale.
check_content_duplicate(c) ==
    LET same == {k \in Originals : fingerprints[k].content = c}
    IN  IF same # {} /\ Fresh(Newest(same)) THEN fingerprints[Newest(same)].item ELSE None

\* The item of the closest fresh original within the threshold, the newest of them.
check_near_duplicate(c) ==
    LET d(k) == Distance[c][fingerprints[k].content]
        close == {k \in Originals : Fresh(k) /\ d(k) <= DEDUP_SIMHASH_THRESHOLD}
        closest == {k \in close : \A l \in close : d(k) <= d(l)}
    IN  IF close # {} THEN fingerprints[Newest(closest)].item ELSE None

\* INSERT ... ON CONFLICT (url_fingerprint) DO NOTHING
store_fingerprint(i, id, c) ==
    IF \E k \in DOMAIN fingerprints : fingerprints[k].url = url[i]
    THEN fingerprints
    ELSE Append(fingerprints,
                [item |-> id, url |-> url[i], content |-> c, duplicate_of |-> dup_of[i]])

\* INSERT ... ON CONFLICT (job_id, source_url) DO UPDATE ... RETURNING item_id
create_parsed_item(i) ==
    IF parsed_items[job[i]][url[i]] = None
    THEN [parsed_items EXCEPT ![job[i]][url[i]] = i]
    ELSE parsed_items

\* The id under which item i goes on once its row exists.
item_id(i) == IF parsed_items[job[i]][url[i]] = None THEN i ELSE parsed_items[job[i]][url[i]]

\* (Mutant) an item's own fingerprint counts as a duplicate.
Other_any(found, id) == found

\* (Mutant) the jobs are compared, not the items.
Other_job(found, id) ==
    IF found # None /\ job[found] = job[id] THEN None ELSE found

Other(found, id) == IF found = id THEN None ELSE found

-----------------------------------------------------------------------------

Fault(kind) ==
    /\ kind \in Faults
    /\ faults < MaxFaults
    /\ faults' = faults + 1

Step(i, from, to) == pc[i] = from /\ pc' = [pc EXCEPT ![i] = to]

Found(i, id) == dup_of' = [dup_of EXCEPT ![i] = Other(id, IF i \in Deep THEN item_id(i) ELSE i)]

Init ==
    /\ fingerprints = <<>>
    /\ stale = 0
    /\ parsed_items = [j \in Job |-> [u \in Url |-> None]]
    /\ pc = [i \in Item |-> "idle"]
    /\ dup_of = [i \in Item |-> None]
    /\ known = [i \in Item |-> 0]
    /\ parsed = {}
    /\ faults = 0

-----------------------------------------------------------------------------
(* The crawlers. *)

\* Markup is fingerprinted; what the dark worker reads, a document or a transcript is not.
Extracted == {"crawl_exact", "crawl_publish"}

\* The page has been fetched; it has an item_id.
Fetch(i) ==
    /\ \E to \in (IF i \in Deep THEN {"crawl_create"} ELSE Extracted) : Step(i, "idle", to)
    /\ known' = [known EXCEPT ![i] = Len(fingerprints)]
    /\ UNCHANGED <<tables, dup_of, parsed, faults>>

\* The deep worker creates the row of the item itself.
CreateDeep(i) ==
    /\ \E to \in Extracted : Step(i, "crawl_create", to)
    /\ parsed_items' = create_parsed_item(i)
    /\ UNCHANGED <<fingerprints, stale, dup_of, known, parsed, faults>>

CrawlExact(i) ==
    /\ Step(i, "crawl_exact", "crawl_near")
    /\ Found(i, check_content_duplicate(crawled[i]))
    /\ UNCHANGED <<tables, known, parsed, faults>>

\* The near tier is asked only when the exact one found nothing.
CrawlNear(i) ==
    /\ Step(i, "crawl_near", "crawl_store")
    /\ IF dup_of[i] = None THEN Found(i, check_near_duplicate(crawled[i])) ELSE UNCHANGED dup_of
    /\ UNCHANGED <<tables, known, parsed, faults>>

CrawlStore(i) ==
    /\ Step(i, "crawl_store", "crawl_publish")
    /\ fingerprints' = store_fingerprint(i, IF i \in Deep THEN item_id(i) ELSE i, crawled[i])
    /\ UNCHANGED <<stale, parsed_items, dup_of, known, parsed, faults>>

\* An error in the fingerprint block is logged; the page is published without.
FingerprintFails(i) ==
    /\ pc[i] \in {"crawl_exact", "crawl_near", "crawl_store"}
    /\ Fault("fingerprint")
    /\ pc' = [pc EXCEPT ![i] = "crawl_publish"]
    /\ UNCHANGED <<tables, dup_of, known, parsed>>

\* To crawl.raw, duplicate or not; the deep worker publishes to crawl.parsed.
CrawlPublish(i) ==
    /\ Step(i, "crawl_publish", IF i \in Deep THEN "done" ELSE "raw")
    /\ parsed' = IF i \in Deep THEN parsed \cup {i} ELSE parsed
    /\ UNCHANGED <<tables, dup_of, known, faults>>

CrawlFails(i) ==
    /\ pc[i] \in Crawling
    /\ Fault("crash")
    /\ pc' = [pc EXCEPT ![i] = "lost"]
    /\ UNCHANGED <<tables, dup_of, known, parsed>>

-----------------------------------------------------------------------------
(* parse_message and the loop of the parser around it. *)

Receive(i) ==
    /\ Step(i, "raw", "exact")
    /\ dup_of' = [dup_of EXCEPT ![i] = None]
    /\ UNCHANGED <<tables, known, parsed, faults>>

ParseExact(i) ==
    /\ Step(i, "exact", "near")
    /\ Found(i, check_content_duplicate(extracted[i]))
    /\ UNCHANGED <<tables, known, parsed, faults>>

\* DuplicateContentError: the page is dropped.
ParseNear(i) ==
    /\ IF dup_of[i] = None THEN Found(i, check_near_duplicate(extracted[i])) ELSE UNCHANGED dup_of
    /\ Step(i, "near", IF dup_of'[i] = None THEN "create" ELSE "dropped")
    /\ UNCHANGED <<tables, known, parsed, faults>>

ParseCreate(i) ==
    /\ Step(i, "create", "store")
    /\ parsed_items' = create_parsed_item(i)
    /\ UNCHANGED <<fingerprints, stale, dup_of, known, parsed, faults>>

\* The fingerprint of the item, unless the crawler left one; errors are logged.
ParseStore(i) ==
    /\ Step(i, "store", "publish")
    /\ \/ /\ fingerprints' = store_fingerprint(i, item_id(i), extracted[i])
          /\ UNCHANGED faults
       \/ Fault("fingerprint") /\ UNCHANGED fingerprints
    /\ UNCHANGED <<stale, parsed_items, dup_of, known, parsed>>

ParsePublish(i) ==
    /\ Step(i, "publish", "done")
    /\ parsed' = parsed \cup {i}
    /\ UNCHANGED <<tables, dup_of, known, faults>>

\* The offset is committed on a timer: a parser that dies reads the message
\* again, or has lost it.  A record that raises is logged and skipped.
ParseFails(i) ==
    /\ pc[i] \in Parsing
    /\ \/ Fault("redeliver") /\ pc' = [pc EXCEPT ![i] = "raw"]
       \/ Fault("lose") /\ pc' = [pc EXCEPT ![i] = "lost"]
    /\ UNCHANGED <<tables, dup_of, known, parsed>>

-----------------------------------------------------------------------------

\* DEDUP_STALE_HOURS pass for the oldest row that was fresh.
RowAges ==
    /\ stale < Len(fingerprints) /\ stale < MaxStale
    /\ stale' = stale + 1
    /\ UNCHANGED <<fingerprints, parsed_items, pc, dup_of, known, parsed, faults>>

Crawl(i) == \/ CreateDeep(i) \/ CrawlExact(i) \/ CrawlNear(i) \/ CrawlStore(i) \/ CrawlPublish(i)
Parse(i) == \/ Receive(i) \/ ParseExact(i) \/ ParseNear(i)
            \/ ParseCreate(i) \/ ParseStore(i) \/ ParsePublish(i)

Next ==
    \/ \E i \in Item : Fetch(i) \/ Crawl(i) \/ Parse(i)
    \/ \E i \in Item : FingerprintFails(i) \/ CrawlFails(i) \/ ParseFails(i)
    \/ RowAges

Spec == Init /\ [][Next]_vars

-----------------------------------------------------------------------------
(* Type invariant; a URL has one fingerprint. *)
TypeOK ==
    /\ fingerprints \in Seq(Row)
    /\ \A k, l \in DOMAIN fingerprints : fingerprints[k].url = fingerprints[l].url => k = l
    /\ stale \in 0..Len(fingerprints)
    /\ parsed_items \in [Job -> [Url -> Item \cup {None}]]
    /\ pc \in [Item -> {"idle", "raw", "done", "dropped", "lost"} \cup Crawling \cup Parsing]
    /\ dup_of \in [Item -> Item \cup {None}]
    /\ known \in [Item -> Nat]
    /\ parsed \subseteq Item
    /\ faults \in 0..MaxFaults

Near(c, d) == Distance[c][d] <= DEDUP_SIMHASH_THRESHOLD

\* The texts are the same, or within the threshold.
Alike(i, j) == Near(extracted[i], extracted[j])

OnItsWay(j) == pc[j] \in {"raw", "crawl_publish"} \cup Parsing

\* Row k holds a text that its crawler read otherwise than the parser does.
Misread(k) ==
    \E j \in Item \ Deep : /\ crawled[j] # extracted[j]
                           /\ fingerprints[k].item = j /\ fingerprints[k].content = crawled[j]

(* Two pages that are crawled at the same time do not drop each other, no  *)
(* circle of pages does, and a redelivered page is not dropped for itself: *)
(* among any pages the parser dropped is one that is like a page outside   *)
(* of them, which is published, on its way, lost to a failure, or dropped  *)
(* for yet another; or like what a crawler misread                         *)
(* (parser-worker/main.py:338-374).                                        *)
DropsAccounted ==
    \A S \in SUBSET {i \in Item : pc[i] = "dropped"} : S # {} =>
        \E i \in S :
           \/ \E j \in Item \ S :
                 Alike(i, j) /\ (j \in parsed \/ OnItsWay(j) \/ pc[j] \in {"lost", "dropped"})
           \/ \E k \in Originals : Misread(k) /\ Near(extracted[i], fingerprints[k].content)

(* parser-worker/main.py:67: a page is not stored when the same content    *)
(* had a fresh fingerprint before its crawl began.                         *)
CopyDropped ==
    [][\A i \in Item \ Deep :
          pc[i] = "create" /\ pc'[i] = "store" =>
            ~ \E k \in Originals : /\ k <= known[i] /\ Fresh(k)
                                   /\ fingerprints[k].content = extracted[i]
                                   /\ fingerprints[k].item # i]_vars

=============================================================================
