------------------------------ MODULE DeepPage ------------------------------
(* Pages in the deep worker's browsers: process_job, the challenge solver,   *)
(* the Camoufox fallback with its slots and its environment variables, the   *)
(* login or sign-up, and what process_request then makes of the capture. The *)
(* pages of one process run as coroutines: everything between two awaits     *)
(* that another page can see is one step.                                    *)
(*                                                                           *)
(* A page is what its kind tells the code: see Signals. Timeouts of the      *)
(* browsers are answers it may give.                                         *)
EXTENDS SiteAccounts

CONSTANTS
  Slots,     \* DEEP_MAX_CONCURRENT_CAMOUFOX
  Retries,   \* Camoufox attempts: min(len(CAMOUFOX_FINGERPRINT_PROFILES), 3)
  Situations \* what a site may be like at the start: see DeepAssumption

ASSUME DeepAssumption ==
  /\ IsFiniteSet(Page) /\ Slots \in Nat \ {0} /\ Retries \in Nat \ {0}
  /\ \A s \in Situations :
       /\ s.form \in Form \* its registration form
       /\ s.served \subseteq {"challenge", "localized", "foreign", "gate", "form", "quoting", "continue", "plain"}
       /\ s.wants \subseteq {"login", "signup"} \* allow_login, allow_signup of the crawl
       /\ s.accounts \subseteq Email /\ s.saved \subseteq s.accounts /\ s.base \subseteq Email

VARIABLES
  served,  \* the kinds of page this site serves
  wants,   \* what the crawl of this site may do
  page,    \* [Page -> page]
  slots,   \* _camoufox_slots: free permits
  environ  \* os.environ["MOZ_DISABLE_CONTENT_SANDBOX"], of the whole process

deepVars == <<served, wants, page, slots, environ>>
vars     == <<siteVars, deepVars>>

-----------------------------------------------------------------------------
(* Pages and what the code looks for in them                                 *)

\* "challenge", "localized" and "foreign" are interstitials in English, in a language
\* whose title is known, and in any other; "gate" is a form
\* behind an unsolved Turnstile widget, "solved" a page that still embeds the widget's
\* script; "quoting" is an article about challenges; "continue" a warning to click
\* through; "member" the page behind a login.
Signals == [
  challenge |-> {"title", "text", "runtime"},
  localized |-> {"title", "runtime"},
  foreign   |-> {"runtime"},
  gate      |-> {"widget", "form"},
  form      |-> {"form"},
  solved    |-> {"script"},
  quoting   |-> {"text"},
  continue  |-> {"warning"},
  plain     |-> {},
  member    |-> {}]

Interstitial == {"challenge", "localized", "foreign"}

is_cloudflare_challenge(k) == k # "none" /\ Signals[k] \cap {"title", "text"} # {}
has_unsolved_turnstile(k)  == k # "none" /\ "widget" \in Signals[k]
has_auth_form(k)           == k # "none" /\ "form" \in Signals[k]

\* Mutant: only the English text counts.
html_is_challenge_text(k) == k # "none" /\ {"title", "text"} \subseteq Signals[k]

\* The challenge runtime in the HTML, in whatever language; the text only with the title.
html_is_challenge(k) ==
  k # "none" /\ ("runtime" \in Signals[k] \/ {"title", "text"} \subseteq Signals[k])

NoPage == [pc |-> "idle", live |-> "none", html |-> "none", status |-> "none",
           gate |-> FALSE, try |-> 0, saved |-> "nothing", auth |-> FALSE, creds |-> FALSE]

Html == DOMAIN Signals \cup {"none"}
PageRecord ==
  [pc: {"idle", "navigate", "attempt", "display", "launch", "browse", "thin", "page", "visit", "login", "finish", "stored", "failed"},
   live: Html, html: Html,         \* the Chromium page; the captured HTML
   status: {"none", "ok", "bad", "error"}, \* no response, one below 400, one above; navigation_error
   gate: BOOLEAN,                  \* turnstile_gate
   try: 0..(Retries + 1),
   saved: {"nothing", "unset", "off"}, \* _orig_environ
   auth: BOOLEAN,                  \* camoufox_authenticated
   creds: BOOLEAN]                 \* the job has credentials

Live(p)    == page[p].pc \notin {"idle", "stored", "failed"}
Holding(p) == page[p].pc \in {"display", "launch", "browse"}
On(p, pc)  == page[p].pc = pc
Sets(p, r) == page' = [page EXCEPT ![p] = r] /\ UNCHANGED <<served, wants>>

-----------------------------------------------------------------------------
(* The first navigation                                                      *)

\* Whether the job has credentials: those stored for the site, or new ones.
ResolveCredentials ==
  "signup" \in wants \/ ("login" \in wants /\ StoredCredentials # {})

StartPage(p) ==
  /\ On(p, "idle")
  /\ Sets(p, [page[p] EXCEPT !.pc = "navigate", !.creds = ResolveCredentials])
  /\ UNCHANGED <<siteVars, slots, environ>>

\* What the solver, the wait and the reload make of a page: a challenge may be over.
Solved(k) == {k} \cup IF is_cloudflare_challenge(k) /\ k \in Interstitial THEN {"solved"} ELSE {}

Loaded == UNION {Solved(k) : k \in served} \cup {"none"}

\* Both navigations fail, or there is a page. A challenge that is still there and a gate
\* are Camoufox's affair.
navigate_and_solve(p) ==
  /\ On(p, "navigate")
  /\ \/ Sets(p, [page[p] EXCEPT !.pc = "thin", !.status = "error"])
     \/ \E k \in Loaded, status \in {"ok", "bad"} :
          LET r == [page[p] EXCEPT !.live = k, !.html = k]
              gated == ~is_cloudflare_challenge(k) /\ has_unsolved_turnstile(k)
          IN Sets(p, IF is_cloudflare_challenge(k) \/ gated
                     THEN [r EXCEPT !.gate = gated, !.try = 1, !.pc = "attempt"]
                     ELSE [r EXCEPT !.status = status, !.pc = "thin"])
  /\ UNCHANGED <<siteVars, slots, environ>>

-----------------------------------------------------------------------------
(* The Camoufox fallback                                                     *)

\* process_job reads the outcome: content without a response counts as a success.
Captured(r) == [r EXCEPT !.pc = "thin", !.status = IF @ = "none" THEN "ok" ELSE @,
                         !.try = 0, !.saved = "nothing", !.gate = FALSE]

\* Too little of the page budget is left, or the attempts are used up, or no slot is
\* free within 30 seconds.
GiveUpCamoufox(p) ==
  /\ On(p, "attempt")
  /\ Sets(p, Captured(page[p]))
  /\ UNCHANGED <<siteVars, slots, environ>>

AcquireSlot(p) ==
  /\ On(p, "attempt") /\ page[p].try <= Retries /\ slots > 0
  /\ slots' = slots - 1
  /\ Sets(p, [page[p] EXCEPT !.pc = "display"])
  /\ UNCHANGED <<siteVars, environ>>

\* The display is there, or has been waited for.
SetEnviron(p) ==
  /\ On(p, "display")
  /\ environ' = "off"
  /\ Sets(p, [page[p] EXCEPT !.pc = "launch", !.saved = environ])
  /\ UNCHANGED <<siteVars, slots>>

Restored(p) == IF page[p].saved = "nothing" THEN environ ELSE page[p].saved

\* The finally block of an attempt
Release(p) ==
  /\ environ' = Restored(p)
  /\ slots' = slots + 1

\* Mutant: a page cancelled by its budget keeps its slot.
ReleaseEnviron(p) ==
  /\ environ' = Restored(p)
  /\ UNCHANGED slots

\* What the finally block does to a page that is cancelled
ReleaseCancelled(p) ==
  IF Holding(p) THEN Release(p) ELSE UNCHANGED <<slots, environ>>

NextAttempt(p, r) == Release(p) /\ Sets(p, [r EXCEPT !.pc = "attempt", !.try = @ + 1])

\* Firefox is spawned with the environment of the process as it is now. It dies with
\* its sandbox on, or for want of a display or of the binary.
LaunchCamoufox(p) ==
  /\ On(p, "launch")
  /\ \/ /\ environ = "off"
        /\ Sets(p, [page[p] EXCEPT !.pc = "browse"]) /\ UNCHANGED <<slots, environ>>
     \/ NextAttempt(p, page[p])
     \/ Release(p) /\ Sets(p, Captured(page[p]))
  /\ UNCHANGED siteVars

\* The attempt fails, or its challenge does: its HTML may be kept if it is longer.
CamoufoxBlocked(p) ==
  /\ On(p, "browse")
  /\ \/ NextAttempt(p, page[p])
     \/ \E k \in {k \in served : is_cloudflare_challenge(k)}, status \in {"ok", "bad"} :
          NextAttempt(p, [page[p] EXCEPT !.html = k, !.status = status])
  /\ UNCHANGED siteVars

\* Behind a login, a registration or the steps of a portal, whose failure is not looked
\* at: the member's page, the form as before, or a challenge
AfterLogin == {"member", "form"} \cup (served \cap Interstitial)

\* Behind the challenge or at the gate. With a clearance cookie a challenge counts as
\* cleared though the page still shows it; words that only look like one never go away.
\* With credentials the form is submitted here: always at a gate, else where a portal
\* is configured.
Cleared(p) ==
  {[html |-> h, auth |-> FALSE] :
      h \in CASE page[p].gate -> {"form"}
              [] ~page[p].gate /\ served \cap Interstitial # {} -> {"solved"} \cup (served \cap Interstitial)
              [] OTHER -> {}}
  \cup {[html |-> h, auth |-> TRUE] : h \in IF page[p].creds THEN AfterLogin ELSE {}}

\* What Chromium shows with the clearance cookie and takes for the page
Through == {"solved"} \cup {k \in served : ~is_cloudflare_challenge(k)}

\* Without a clearance cookie, or when Chromium does not get through with it, the
\* capture is used; when it does, Chromium's page is; when the cookie cannot be moved,
\* the next attempt is made with the capture in hand.
CamoufoxCleared(p) ==
  /\ On(p, "browse")
  /\ \E c \in Cleared(p) :
       LET r == [page[p] EXCEPT !.html = c.html, !.auth = @ \/ c.auth]
       IN \/ Release(p) /\ Sets(p, Captured([r EXCEPT !.status = "none"]))
          \/ \E status \in {"ok", "bad"} :
               \/ NextAttempt(p, [r EXCEPT !.status = status])
               \/ \E k \in Through :
                    Release(p) /\ Sets(p, Captured([r EXCEPT !.status = status, !.live = k, !.html = k]))
  /\ UNCHANGED siteVars

-----------------------------------------------------------------------------
(* The rest of process_job                                                   *)

\* Thin HTML is fetched twice more; an error of the first navigation stays, one of
\* these fetches is not looked at.
RetryThin(p) ==
  /\ On(p, "thin")
  /\ IF page[p].html # "none" THEN Sets(p, [page[p] EXCEPT !.pc = "page"])
     ELSE \/ Sets(p, [page[p] EXCEPT !.pc = "page", !.live = "none"])
          \/ \E k \in Loaded, status \in {"ok", "bad"} :
               Sets(p, [page[p] EXCEPT !.pc = "page", !.live = k, !.html = k,
                                       !.status = IF @ = "error" THEN @ ELSE status])
  /\ UNCHANGED <<siteVars, slots, environ>>

\* A warning page is clicked through.
handle_http_interstitial(r) ==
  IF r.live # "continue" THEN r
  ELSE [r EXCEPT !.live = "plain", !.html = "plain", !.status = IF @ = "error" THEN @ ELSE "ok"]

\* A form is filled in by the sign-up handler if the crawl signs up, else by the login,
\* never when Camoufox has done it already.
HandlePage(p) ==
  /\ On(p, "page")
  /\ LET r == handle_http_interstitial(page[p])
         asks   == has_auth_form(r.live) /\ ~r.auth
         signup == asks /\ "signup" \in wants
         login  == asks /\ ~signup /\ r.creds
     IN /\ Sets(p, [NoPage EXCEPT !.html = r.html, !.status = r.status,
                                  !.pc = IF signup THEN "visit" ELSE IF login THEN "login" ELSE "finish"])
        /\ visit' = [visit EXCEPT ![p].pc = IF signup THEN "check" ELSE @]
  /\ UNCHANGED <<credential, base, site, form, outside, slots, environ>>

\* A form without a password or a button is not sent.
handle_login(p) == AfterLogin \cup {page[p].html}

AfterVisit(p) ==
  /\ On(p, "visit") /\ visit[p].pc \in {"end", "broken"}
  /\ IF visit[p].pc = "broken" THEN Sets(p, [page[p] EXCEPT !.pc = "login"])
     ELSE \E k \in IF visit[p].success THEN AfterLogin ELSE {page[p].html} :
            Sets(p, [page[p] EXCEPT !.pc = "finish", !.html = k])
  /\ UNCHANGED <<siteVars, slots, environ>>

HandleLogin(p) ==
  /\ On(p, "login")
  /\ \E k \in handle_login(p) : Sets(p, [page[p] EXCEPT !.pc = "finish", !.html = k])
  /\ UNCHANGED <<siteVars, slots, environ>>

\* A sign-up that found no form to fill in is no failure of the page.
SignupFailed(p) ==
  visit[p].pc = "end" /\ ~visit[p].success /\ visit[p].send # "noform"

FinishPage(p) ==
  /\ On(p, "finish")
  /\ LET failed == \/ page[p].status # "ok"
                   \/ SignupFailed(p) \/ html_is_challenge(page[p].html)
     IN Sets(p, [NoPage EXCEPT !.pc = IF failed THEN "failed" ELSE "stored",
                               !.html = IF failed THEN "none" ELSE page[p].html])
  /\ UNCHANGED <<siteVars, slots, environ>>

\* DEEP_MESSAGE_BUDGET_SECONDS are over: the page is cancelled wherever it waits.
AbandonPage(p) ==
  /\ Live(p)
  /\ ReleaseCancelled(p)
  /\ Sets(p, [NoPage EXCEPT !.pc = "failed"])
  /\ visit' = [visit EXCEPT ![p] = IF Running(p) THEN [NoVisit EXCEPT !.pc = "broken", !.send = visit[p].send] ELSE @]
  /\ UNCHANGED <<credential, base, site, form, outside>>

-----------------------------------------------------------------------------
Init ==
  /\ \E s \in Situations : /\ SiteInit(s) /\ served = s.served /\ wants = s.wants
  /\ page = [p \in Page |-> NoPage] /\ slots = Slots /\ environ = "unset"

PageStep(p) ==
  \/ StartPage(p) \/ navigate_and_solve(p) \/ GiveUpCamoufox(p) \/ AcquireSlot(p) \/ SetEnviron(p) \/ LaunchCamoufox(p)
  \/ CamoufoxBlocked(p) \/ CamoufoxCleared(p) \/ RetryThin(p) \/ HandlePage(p) \/ AfterVisit(p)
  \/ HandleLogin(p) \/ FinishPage(p) \/ AbandonPage(p)

SiteStep == ((\E p \in Page : VisitStep(p)) \/ OperatorStep) /\ UNCHANGED deepVars

Next == SiteStep \/ \E p \in Page : PageStep(p)

Spec == Init /\ [][Next]_vars

TypeOK ==
  /\ SiteTypeOK
  /\ \E s \in Situations : served = s.served /\ wants = s.wants
  /\ page \in [Page -> PageRecord]
  /\ slots \in 0..Slots /\ environ \in {"unset", "off"}

\* However an attempt ends - blocked, failed, given up, cancelled by the page budget -
\* its slot is handed back, once.
SlotsReturned ==
  slots + Cardinality({p \in Page : Holding(p)}) = Slots

\* A challenge is never stored as the page, whatever its language and however the
\* browsers got to it.
ChallengeNeverStored ==
  \A p \in Page : On(p, "stored") => page[p].html \notin Interstitial
=============================================================================
