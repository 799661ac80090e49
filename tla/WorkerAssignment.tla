-------------------------- MODULE WorkerAssignment --------------------------
(* The rules that pick the worker of a URL before it is fetched, and the one *)
(* that gives a fetched page to the deep worker. A URL or a page is the set  *)
(* of signals its tables and regular expressions find in it.                 *)
EXTENDS Naturals, Sequences

WorkerType == {"surface", "deep", "dark"}

\* The priority chain: the first signal a URL shows decides.
Rule == <<[signal |-> "dark_web_tld", worker |-> "dark"],
          [signal |-> "waf_cdn_protected_domain", worker |-> "deep"],
          [signal |-> "deep_domain_whitelist", worker |-> "deep"],
          [signal |-> "ethiopian_gov_telecom_domain", worker |-> "deep"],
          [signal |-> "ethiopian_surface_domain", worker |-> "surface"],
          [signal |-> "url_path_heuristic", worker |-> "deep"],
          [signal |-> "query_param_heuristic", worker |-> "deep"],
          [signal |-> "ethiopian_tld_default", worker |-> "surface"]>>

Signal == {Rule[k].signal : k \in DOMAIN Rule}

Hits(signals) == {k \in DOMAIN Rule : Rule[k].signal \in signals}
FirstHit(signals) == CHOOSE k \in Hits(signals) : \A l \in Hits(signals) : k <= l

\* A user_override that names no worker is ignored.
initial_assignment(signals, user_override) ==
  IF user_override \in WorkerType THEN user_override
  ELSE IF Hits(signals) = {} THEN "surface"
  ELSE Rule[FirstHit(signals)].worker

\* ESCALATION_STATUS_CODES
Refusal == {401, 403, 407, 429, 451}

\* An answer is its status and what AUTH_REGEX_PATTERNS ("auth") and EMPTY_HTML_REGEX
\* ("shell") find in it.
Challenged(answer) == answer.finds \cap {"auth", "shell"} # {}

should_escalate_to_deep(answer, current_worker) ==
  current_worker = "surface" /\ (answer.status \in Refusal \/ Challenged(answer))
=============================================================================
