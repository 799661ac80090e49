----------------------------- MODULE MCCrawlJob -----------------------------
(***************************************************************************)
(* A small site for CrawlJob: the seed links to a child and to a clip, the *)
(* child links to the clip too, so the same link may be found by two pages *)
(* at the same time. The links are what the extraction leaves of a markup  *)
(* in which they are spelled in several ways, between others that are not  *)
(* to be followed. The child does not parse, and so links to itself.       *)
(***************************************************************************)
EXTENDS CrawlJob, LinkExtraction

CONSTANTS home, child, clip

MCHost    == {"site", "cdn", "short", "elsewhere"}
MCSegment == {"news", "a", "%61", "clip.mp3", "photo.png", "search", "tag", "watch", "go"}
MCDomain  == [h \in MCHost |-> IF h = "elsewhere" THEN h ELSE "site"]
MCHostFinds == [h \in MCHost |-> CASE h = "cdn" -> {"junk"} [] h = "short" -> {"shortlink"} [] OTHER -> {}]
MCFinds == [s \in MCSegment |-> CASE s = "photo.png" -> {"asset"} [] s = "search" -> {"page"}
                                  [] s = "tag" -> {"directory"} [] s = "watch" -> {"page", "video"}
                                  [] s = "go" -> {"directory", "redirect_directory"} [] OTHER -> {}]
MCCanonical == [s \in MCSegment |-> IF s = "%61" THEN "a" ELSE s]
MCParam == {"id", "page", "utm_source", "sid"}
MCJunk  == {"utm_source", "sid"}

To(host, path) == [scheme |-> "https", host |-> host, port |-> "none", path |-> path, slash |-> FALSE,
                   params |-> {}, fragment |-> FALSE]
Site(path) == To("site", path)
UrlOf(p) == CASE p = home -> Site(<<"news">>)
              [] p = child -> [Site(<<"news", "a", "a">>) EXCEPT !.params = {"id"}]
              [] OTHER -> Site(<<"news", "a", "a", "clip.mp3">>)

\* Other spellings of the URL of a page.
Spellings(u) ==
  {[u EXCEPT !.path = [k \in DOMAIN @ |-> IF @[k] = "a" THEN "%61" ELSE @[k]]],
   [u EXCEPT !.slash = TRUE, !.port = "443"], [u EXCEPT !.params = @ \cup MCJunk, !.fragment = TRUE]}

\* Every reason not to follow a link once.
Dropped ==
  {To("cdn", <<"news", "a">>), To("short", <<"news", "a">>), To("elsewhere", <<"news", "a">>),
   Site(<<"a">>), Site(<<>>), Site(<<"news", "photo.png">>), Site(<<"news", "search">>),
   [Site(<<"news", "search">>) EXCEPT !.slash = TRUE], Site(<<"news", "tag", "a">>),
   Site(<<"news", "watch", "a">>), Site(<<"news", "go", "a">>), Site(<<"news", "a", "a", "a">>),
   Site(<<"news", "a", "news", "a", "news", "a", "news">>), [Site(<<"news">>) EXCEPT !.params = MCParam],
   [Site(<<"news", "a">>) EXCEPT !.scheme = "other"]}

LinksTo(pages) == UNION {Spellings(UrlOf(q)) : q \in pages}
LinkedBy(p) == CASE p = home -> Page \ {home} [] p = child -> Page \ {home, child} [] OTHER -> {}

\* The page of the child does not parse: its links are taken from the text, its anchors among them.
Parses(p) == p # child
Found(p) == LinkedBy(p) \cup IF Parses(p) THEN {} ELSE {p}
Link(kind, u) == [element |-> "link", kind |-> kind, url |-> u]
Markup(p) ==
  [tree |-> Parses(p), base |-> {},
   hrefs |-> {Link("absolute", u) : u \in LinksTo(LinkedBy(p)) \cup IF p = home THEN Dropped ELSE {}}
             \cup {Link("relative", [UrlOf(q) EXCEPT !.host = NoHost]) : q \in LinkedBy(p)}
             \cup {Link("anchor", UrlOf(p)), [Link("absolute", UrlOf(p)) EXCEPT !.element = "other"]}]

MCConfig == [enable_extraction |-> TRUE, seed_url |-> UrlOf(seed_url), same_domain_only |-> TRUE,
             skip_domains |-> {}, link_filter_patterns |-> {}]
Followed(p) == children_of(UrlOf(p), Markup(p), MCConfig)

MCLinks == [p \in Page |-> {q \in Page : \E u \in Followed(p) : normalize_url(u) = UrlOf(q)}]

\* Each link is followed under one URL, and nothing else is; under its key, where the page parses.
ASSUME MarkupAssumption ==
  \A p \in Page : /\ {normalize_url(u) : u \in Followed(p)} = {UrlOf(q) : q \in Found(p)}
                  /\ Cardinality(Followed(p)) = Cardinality(Found(p))
                  /\ Parses(p) => Followed(p) = {UrlOf(q) : q \in Found(p)}

\* What the rules of the worker assignment find in the URLs.
Rules == INSTANCE WorkerAssignment
Assigned(signals) == [p \in Page |-> Rules!initial_assignment(signals[p], "none")]

DeepSignals  == [p \in Page |-> {"waf_cdn_protected_domain"}]
DarkSignals  == [p \in Page |-> {"dark_web_tld"}]
MixedSignals == [p \in Page |-> IF p = child THEN {"url_path_heuristic"} ELSE {}]
ASSUME SignalAssumption ==
  \A signals \in {DeepSignals, DarkSignals, MixedSignals} : signals \in [Page -> SUBSET Rules!Signal]

MCDeep == Assigned(DeepSignals)
MCDark == Assigned(DarkSignals)
MCMixed == Assigned(MixedSignals)
=============================================================================
