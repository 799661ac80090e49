--------------------------- MODULE LinkExtraction ---------------------------
(* Which links of a page become crawl requests, and under which URL. A host  *)
(* or a path segment is a value with the signals the tables and regular      *)
(* expressions find in it; seen makes sets of the lists of links.            *)
EXTENDS Naturals, Sequences, FiniteSets

CONSTANTS
  Host, NoHost, Segment, Param,
  registrable_domain, \* [Host -> its registrable domain]
  host_finds,         \* [Host -> what the tables of hosts find in it]
  finds,              \* [Segment -> what the extensions and path patterns find in it]
  canonical,          \* [Segment -> the segment, its escapes decoded and quoted again]
  JUNK_PARAMS,
  MAX_PATH_SEGMENTS, MAX_SEGMENT_REPEAT, MAX_QUERY_PARAMS

HostSignal    == {"junk", "shortlink"}
\* asset: an excluded extension; page: the last segment of a page without content;
\* directory: a segment with only such pages below it.
SegmentSignal == {"asset", "page", "directory", "video", "redirect", "redirect_directory"}

ASSUME LinkAssumption ==
  /\ NoHost \notin Host
  /\ host_finds \in [Host -> SUBSET HostSignal] /\ finds \in [Segment -> SUBSET SegmentSignal]
  /\ DOMAIN registrable_domain = Host
  /\ MAX_PATH_SEGMENTS \in Nat /\ MAX_SEGMENT_REPEAT \in Nat /\ MAX_QUERY_PARAMS \in Nat

\* quote(unquote(quote(unquote(s)))) = quote(unquote(s))
ASSUME CanonicalAssumption ==
  canonical \in [Segment -> Segment] /\ \A s \in Segment : canonical[canonical[s]] = canonical[s]

FetchScheme == {"http", "https"}
Port == {"none", "80", "443", "other"}
Url == [scheme: FetchScheme \cup {"other"}, host: Host \cup {NoHost}, port: Port, path: Seq(Segment),
        slash: BOOLEAN, params: SUBSET Param, fragment: BOOLEAN]

-----------------------------------------------------------------------------

default_port(scheme) == IF scheme = "http" THEN "80" ELSE IF scheme = "https" THEN "443" ELSE "none"

normalize_url(u) ==
  IF u.host = NoHost THEN u
  ELSE [u EXCEPT !.port = IF @ = default_port(u.scheme) THEN "none" ELSE @,
                 !.path = [k \in DOMAIN @ |-> canonical[@[k]]],
                 !.slash = FALSE, !.params = @ \ JUNK_PARAMS, !.fragment = FALSE]

Ends(u, signal) == u.path # <<>> /\ ~u.slash /\ signal \in finds[u.path[Len(u.path)]]
\* A segment with a slash after it.
Below(u, signal) == \E k \in DOMAIN u.path : (k < Len(u.path) \/ u.slash) /\ signal \in finds[u.path[k]]
Holds(u, signal) == \E k \in DOMAIN u.path : signal \in finds[u.path[k]]

is_static_asset(u)     == Ends(u, "asset")
is_non_content_page(u) == Ends(u, "page") \/ Below(u, "directory")
is_junk_domain(u)      == "junk" \in host_finds[u.host]

is_crawler_trap(u) ==
  \/ Len(u.path) > MAX_PATH_SEGMENTS
  \/ \E k \in DOMAIN u.path : k + 2 <= Len(u.path) /\ u.path[k] = u.path[k + 1] /\ u.path[k] = u.path[k + 2]
  \/ /\ Len(u.path) >= 6
     /\ \E s \in Segment : Cardinality({k \in DOMAIN u.path : u.path[k] = s}) >= MAX_SEGMENT_REPEAT
  \/ Cardinality(u.params) > MAX_QUERY_PARAMS

Crawlable(u) ==
  ~is_static_asset(u) /\ ~is_junk_domain(u) /\ ~is_crawler_trap(u) /\ ~is_non_content_page(u)

\* The markup of a page: whether it parses to a tree, its base, if it names one, and the hrefs of its
\* elements. An href is an anchor of the page, a relative reference, or absolute.
urljoin(base, href) ==
  CASE href.kind = "anchor"   -> [base EXCEPT !.fragment = TRUE]
    [] href.kind = "relative" -> [href.url EXCEPT !.scheme = base.scheme, !.host = base.host, !.port = base.port]
    [] OTHER                  -> href.url

resolve_base(markup, page_url) == IF markup.base = {} THEN page_url ELSE CHOOSE b \in markup.base : TRUE

Targets(hrefs, base) ==
  {u \in {urljoin(base, h) : h \in hrefs} : u.scheme \in FetchScheme /\ u.host # NoHost /\ Crawlable(u)}

\* The links of the tree, each under its key.
links_of_tree(markup, page_url) ==
  {normalize_url(u) : u \in Targets({h \in markup.hrefs : h.element = "link" /\ h.kind # "anchor"},
                                    resolve_base(markup, page_url))}

\* Without a tree every href counts, and of the spellings of a key one is taken as it is (the first).
extract_hrefs_regex(markup, page_url) ==
  LET found == Targets(markup.hrefs, page_url)
      spelling(key) == CHOOSE u \in found : normalize_url(u) = key
  IN {spelling(normalize_url(u)) : u \in found}

extract_links(markup, page_url) ==
  IF markup.tree THEN links_of_tree(markup, page_url) ELSE extract_hrefs_regex(markup, page_url)

is_same_domain(u, v) == registrable_domain[u.host] = registrable_domain[v.host]

\* The path of the seed is compared as it was submitted.
UnderPrefix(u, seed) ==
  \A k \in DOMAIN seed.path : k \in DOMAIN u.path /\ u.path[k] = seed.path[k]

filter_links(links, config) ==
  {u \in links :
     /\ u.scheme \in FetchScheme /\ Crawlable(u)
     /\ "shortlink" \notin host_finds[u.host]
     /\ ~Holds(u, "video") /\ ~Holds(u, "redirect") /\ ~Below(u, "redirect_directory")
     /\ u.host \notin config.skip_domains
     /\ config.same_domain_only => is_same_domain(u, config.seed_url)
     /\ UnderPrefix(u, config.seed_url)
     /\ config.link_filter_patterns # {} => u \in UNION config.link_filter_patterns}

\* recursive_config and its defaults.
RecursiveConfig == [enable_extraction: BOOLEAN, seed_url: Url, same_domain_only: BOOLEAN,
                    skip_domains: SUBSET Host, link_filter_patterns: SUBSET SUBSET Url]

children_of(page_url, markup, config) ==
  IF config.enable_extraction THEN filter_links(extract_links(markup, page_url), config) ELSE {}
=============================================================================
