---------------------------- MODULE SiteAccounts ----------------------------
(* The accounts the deep worker keeps at one web site: the rows of           *)
(* credential_usage for that domain, the registration form, and the visits   *)
(* (AutoSignupHandler.handle) that log in or sign up, one step per statement *)
(* of the database or answer of the site. Pages of one site are visited at   *)
(* the same time, with one inbox.                                            *)
(*                                                                           *)
(* A form is a sequence of pages, each the set of inputs the site requires on *)
(* it. Of a page's text only the markers count that the code looks for, and a *)
(* site may say anything: whether there is an account is another matter.      *)
EXTENDS Naturals, FiniteSets, SequencesExt

CONSTANTS
  Page,         \* the pages being processed
  Email,        \* e-mail addresses; a generated user name goes with each attempt
  inbox,        \* [Page -> Email]: the address a page signs up with
  Form,         \* the registration forms a site may have
  FormWords,    \* what the pages of a form may say, a page shown again included
  Answers,      \* what the site may make of a whole form: see Answer
  verification, \* BOOLEAN: the crawl asked for e-mail verification
  MaxOutside    \* bound on requests of operators and failed statements together

\* What an input asks for: "country" is a select whose name is known, "dropdown" one of
\* another name, "choice" a radio group and "other" a text input of that kind.
Input == {"email", "username", "password", "confirm", "fullname", "firstname", "lastname",
          "agree", "question", "country", "dropdown", "gender", "birth", "phone",
          "choice", "number", "puzzle", "other"}

\* The markers of the two procedures, by the lists that hold them: "invalid" is in the
\* error lists of both, "required" and "taken" (a name that is) in that of the single
\* page, "captcha" in that of the wizard; "created" in the success lists of both,
\* "welcome" in that of the single page.
Word    == {"phone", "verify", "invalid", "required", "taken", "captcha", "created", "welcome"}
Account == {"none", "unverified", "phone", "open"}
\* The words of the page, the inputs on it, and the account there is then
Answer  == [words: SUBSET Word, shows: SUBSET Input, account: Account]

ASSUME SiteAssumption ==
  /\ inbox \in [Page -> Email]
  /\ \A f \in Form : f \in Seq(SUBSET Input) /\ Len(f) > 0
  /\ FormWords \subseteq SUBSET Word /\ Answers \subseteq Answer
  /\ verification \in BOOLEAN /\ MaxOutside \in Nat

VARIABLES
  credential, \* [Email -> row]: credential_usage, the rows of this domain
  base,       \* the e-mail addresses with a base row (domain NULL)
  site,       \* [Email -> Account]: what the site knows
  form,       \* the site's registration form
  visit,      \* [Page -> visit]: the calls of AutoSignupHandler.handle
  outside     \* requests of operators and failed statements so far

siteVars == <<credential, base, site, form, visit, outside>>

Action == {"signup", "login", "verification_sent"}
Status == {"success", "failed", "pending"}
NoRow  == [action |-> "none", status |-> "none", password |-> FALSE]
Row    == [action: Action, status: Status, password: BOOLEAN] \cup {NoRow}

NoVisit == [pc |-> "none", send |-> "no", needs |-> FALSE, rec |-> "none", success |-> FALSE]
Visit   == [pc: {"none", "check", "login", "signup", "again", "record", "store", "verify", "end", "broken"},
            send: {"no", "sent", "refused", "noform"},      \* what became of the registration form
            needs: BOOLEAN,                                 \* result["needs_verification"]
            rec: {"none", "signup", "signupfailed", "login", "loginfailed", "sent"},
            success: BOOLEAN]

Running(p) == visit[p].pc \notin {"none", "end", "broken"}
At(p, pc)  == visit[p].pc = pc

-----------------------------------------------------------------------------
(* The registration form                                                     *)

Passwords    == {"password", "confirm"}                \* type=password
Registration == {"email", "username"} \cup Passwords   \* what makes a page one to register at
Names        == {"fullname", "firstname", "lastname"}
Typed        == Registration \cup Names \cup {"question", "other"} \* type email, password or text

\* The one pass over the inputs: one of username, e-mail, password and names each.
ByHeuristics(step) ==
  (step \cap {"email", "username", "password"})
    \cup {n \in Names \cap step : \A o \in Names \cap step : o = n \/ n = "firstname" \/ o = "lastname"}

\* The second password, known by its name or its position
handle_confirm_password_by_position(step) == step \cap {"confirm"}

\* Mutant: only what the first pass recognises is filled.
FillNothing(step) == {}

\* Required text inputs and selects that are still empty; inputs that would have to
\* be invented are left alone.
FillMissing(step) == step \ {"agree", "gender", "choice", "phone", "birth", "number", "puzzle"}

\* The helpers, each for one sort of input
tick_agreement_checkboxes(step) == step \cap {"agree"}
answer_bot_qa_fields(step)      == step \cap {"question"}
fill_dropdowns(step)            == step \cap {"country"}
fill_radio_buttons(step)        == step \cap {"gender"}
fill_date_of_birth(step)        == step \cap {"birth"}
\* Not on a page without an e-mail address or a password: that is no registration.
fill_phone_number(step)         == IF step \cap ({"email"} \cup Passwords) # {} THEN step \cap {"phone"} ELSE {}

Helpers(step) ==
  tick_agreement_checkboxes(step) \cup answer_bot_qa_fields(step) \cup fill_dropdowns(step)
    \cup fill_radio_buttons(step) \cup fill_date_of_birth(step) \cup fill_phone_number(step)

\* The first page has been swept before the wizard takes over; on the later ones
\* there is no sweep over what is missing.
FirstPass(step) == ByHeuristics(step) \cup FillMissing(step) \cup handle_confirm_password_by_position(step) \cup Helpers(step)
WizardFills(k)  == (form[k] \cap (Registration \cup Names)) \cup Helpers(form[k])
                     \cup IF k = 1 THEN FillMissing(form[k]) ELSE {}

SinglePage == "email" \in form[1] /\ form[1] \cap Passwords # {}

-----------------------------------------------------------------------------
(* What the code makes of the page that a submit leads to                    *)

\* The markers are looked for in this order; the last test is whether a form is left.
Judged(words, errors, successes, formless) ==
  IF "phone" \in words THEN "failed"
  ELSE IF "verify" \in words THEN "wanted"
  ELSE IF words \cap errors # {} THEN "failed"
  ELSE IF words \cap successes # {} \/ formless THEN "believed" ELSE "undecided"

Settled(verdict) == IF verdict = "undecided" THEN "failed" ELSE verdict

FormErrors == {"invalid", "required", "taken"}

OnSinglePage(words, shows) ==
  Settled(Judged(words, FormErrors, {"created", "welcome"}, shows \cap Registration = {}))

InWizard(words, shows) == Judged(words, {"invalid", "captcha"}, {"created"}, shows \cap Typed = {})

Outcome(send, verdict, account) == [send |-> send, verdict |-> verdict, account |-> account]

\* A user name that is taken is changed and sent again; the page after that is only
\* searched for errors and for a verification.
Collides(a) ==
  "taken" \in a.words /\ "username" \in a.shows /\ a.words \cap {"phone", "verify"} = {}

AfterCollision(words) ==
  IF words \cap FormErrors # {} THEN "failed" ELSE IF "verify" \in words THEN "wanted" ELSE "believed"

\* Of a form with more pages the second, or the first again, is taken for the answer.
Responses ==
  IF Len(form) = 1 THEN Answers
  ELSE {[words |-> w, shows |-> form[i], account |-> "none"] : w \in FormWords, i \in 1..2}

\* A page that the browser refuses to send stays where it is and is judged as well.
try_single_page ==
  IF ~(form[1] \subseteq FirstPass(form[1]))
  THEN {Outcome("refused", OnSinglePage(w, form[1]), "none") : w \in FormWords}
  ELSE {Outcome("sent", OnSinglePage(a.words, a.shows), a.account) : a \in Responses}
         \cup {Outcome("sent", AfterCollision(b.words), IF a.account # "none" THEN a.account ELSE b.account) :
                  a \in {a \in Responses : Collides(a)}, b \in Responses}

RegistersOn(k) == form[k] \cap Registration # {}
Sendable(k)    == form[k] \subseteq WizardFills(k)

max_steps == 5

\* The pages of the form a wizard may come to
Reached == {k \in 1..Len(form) : k <= max_steps + 1 /\ \A j \in 1..(k - 1) : RegistersOn(j) /\ Sendable(j)}

\* The last page was sent. What the site shows then is tried as a further page: one
\* without registration fields is "no form".
LastAnswer(k, a) ==
  LET j == InWizard(a.words, a.shows)
  IN Outcome(IF j = "undecided" /\ a.shows \cap Registration = {} /\ k < max_steps THEN "noform" ELSE "sent",
             Settled(j), a.account)

\* How the wizard may end at page k: what the submit before led to is judged first. A
\* page that is not sent, or shown again by the site, is tried until the steps are over.
EndsAt(k) ==
  LET led == IF k = 1 THEN {"undecided"} ELSE {InWizard(w, form[k]) : w \in FormWords}
  IN {Outcome("sent", Settled(v), "none") : v \in IF k > max_steps THEN led ELSE led \ {"undecided"}}
     \cup
     IF k > max_steps \/ "undecided" \notin led THEN {}
     ELSE IF ~RegistersOn(k) THEN {Outcome("noform", "failed", "none")}
     ELSE {Outcome(IF Sendable(k) THEN "sent" ELSE "refused", Settled(InWizard(w, form[k])), "none") : w \in FormWords}
            \cup {o \in {LastAnswer(k, a) : a \in Answers} : Sendable(k) /\ k = Len(form)}

handle_multi_step_registration == UNION {EndsAt(k) : k \in Reached}

\* A puzzle on the page is not tried. Besides, a challenge may be in the way, the button
\* be missing, or a statement of the browser fail.
Outcomes ==
  {Outcome("no", "failed", "none")}
    \cup IF "puzzle" \in form[1] THEN {}
         ELSE IF SinglePage THEN try_single_page ELSE handle_multi_step_registration

-----------------------------------------------------------------------------
(* CredentialService                                                         *)

is_domain_registered ==
  \E e \in Email : credential[e].action \in {"signup", "login"} /\ credential[e].status = "success"

\* record_usage: a row is made from the base row when there is none, then updated;
\* with neither, nothing happens.
record_usage(e, action, status) ==
  IF credential[e] # NoRow
  THEN credential' = [credential EXCEPT ![e].action = action, ![e].status = status]
  ELSE IF e \in base
  THEN credential' = [credential EXCEPT ![e] = [NoRow EXCEPT !.action = action, !.status = status]]
  ELSE UNCHANGED credential

store_site_credential(e, action) ==
  credential' = [credential EXCEPT ![e] =
                   [action |-> action, status |-> "success", password |-> TRUE]]

\* The rows get_stored_credential_for_domain may answer: those with a password first,
\* then those whose password is the default one.
StoredCredentials ==
  LET good == {e \in Email : credential[e].status = "success"}
      kept == {e \in good : credential[e].password}
  IN IF kept # {} THEN kept ELSE {e \in good : credential[e].action = "signup"}

-----------------------------------------------------------------------------
(* Requests of operators                                                     *)

create_credential(e) ==
  /\ outside < MaxOutside /\ e \notin base
  /\ base' = base \cup {e} /\ outside' = outside + 1
  /\ UNCHANGED <<credential, site, form, visit>>

RecordRoute(e, action, status) ==
  /\ outside < MaxOutside /\ e \in base
  /\ record_usage(e, action, status) /\ outside' = outside + 1
  /\ UNCHANGED <<base, site, form, visit>>

\* Operators save accounts they have.
save_site_credential(e) ==
  /\ outside < MaxOutside /\ site[e] = "open"
  /\ store_site_credential(e, "login") /\ outside' = outside + 1
  /\ UNCHANGED <<base, site, form, visit>>

-----------------------------------------------------------------------------
(* A visit                                                                   *)

Visits(p, v) == visit' = [visit EXCEPT ![p] = v]
Stay         == UNCHANGED <<base, form>>
\* the visit p at its end: what is left of it is its result
Ended(p)     == [NoVisit EXCEPT !.pc = "end", !.send = visit[p].send, !.success = visit[p].success]

CheckDomain(p) ==
  /\ At(p, "check")
  /\ Visits(p, [visit[p] EXCEPT !.pc = IF is_domain_registered THEN "login" ELSE "signup"])
  /\ Stay /\ UNCHANGED <<credential, site, outside>>

\* The answer to a login is the site's own affair: only an error text counts as a
\* failure, and a challenge or a form that is not there is one too. Its message takes
\* the place of that of a sign-up without a form.
try_login(p) ==
  /\ visit[p].pc \in {"login", "again"}
  /\ \E ok \in BOOLEAN :
       Visits(p, [visit[p] EXCEPT !.pc = "record", !.success = ok,
                                  !.send = IF @ = "noform" THEN "no" ELSE @,
                                  !.rec = IF ok THEN "login" ELSE "loginfailed"])
  /\ Stay /\ UNCHANGED <<credential, site, outside>>

\* The form is looked for, filled and sent. An address the site knows gets no second
\* account. A page after a failure may say that there is one already.
try_signup(p) ==
  /\ At(p, "signup")
  /\ \E o \in Outcomes, known \in BOOLEAN :
       LET ok == o.verdict \in {"believed", "wanted"}
       IN /\ site' = [site EXCEPT ![inbox[p]] = IF @ = "none" THEN o.account ELSE @]
          /\ Visits(p, [visit[p] EXCEPT
                 !.send = o.send,
                 !.pc = IF ~ok /\ known THEN "again" ELSE "record",
                 !.needs = o.verdict = "wanted",
                 !.success = ok,
                 !.rec = IF ok THEN "signup" ELSE "signupfailed"])
  /\ Stay /\ UNCHANGED <<credential, outside>>

\* Usage is recorded; after a sign-up the credential is stored next.
RecordVisit(p) ==
  /\ At(p, "record")
  /\ LET r == visit[p].rec
         action == CASE r \in {"signup", "signupfailed"} -> "signup"
                     [] r \in {"login", "loginfailed"} -> "login"
                     [] OTHER -> "verification_sent"
         status == CASE r \in {"signup", "login"} -> "success" [] r = "sent" -> "pending" [] OTHER -> "failed"
     IN /\ record_usage(inbox[p], action, status)
        /\ Visits(p, IF r = "signup" THEN [visit[p] EXCEPT !.pc = "store"] ELSE Ended(p))
  /\ Stay /\ UNCHANGED <<site, outside>>

AfterStore(p) ==
  Visits(p, IF ~visit[p].needs THEN Ended(p)
            ELSE IF verification THEN [visit[p] EXCEPT !.pc = "verify"]
            ELSE [visit[p] EXCEPT !.pc = "record", !.rec = "sent"])

StoreVisit(p) ==
  /\ At(p, "store")
  /\ store_site_credential(inbox[p], "signup")
  /\ AfterStore(p)
  /\ Stay /\ UNCHANGED <<site, outside>>

\* A mail is found (through Gmail or IMAP) and its link or code used, or it is not.
handle_verification(p) ==
  /\ At(p, "verify")
  /\ \E found \in BOOLEAN :
       site' = [site EXCEPT ![inbox[p]] = IF found /\ @ = "unverified" THEN "open" ELSE @]
  /\ Visits(p, Ended(p))
  /\ Stay /\ UNCHANGED <<credential, outside>>

\* A statement fails: storing goes on without it, anything else ends the visit, and the
\* page goes on as if nobody had tried to sign up.
StatementFails(p) ==
  /\ visit[p].pc \in {"check", "record", "store"} /\ outside < MaxOutside
  /\ outside' = outside + 1
  /\ IF At(p, "store") THEN AfterStore(p) ELSE Visits(p, [Ended(p) EXCEPT !.pc = "broken"])
  /\ Stay /\ UNCHANGED <<credential, site>>

VisitStep(p) == CheckDomain(p) \/ try_login(p) \/ try_signup(p) \/ RecordVisit(p)
                  \/ StoreVisit(p) \/ handle_verification(p) \/ StatementFails(p)

OperatorStep == \E e \in Email :
  create_credential(e) \/ save_site_credential(e)
    \/ \E action \in {"signup", "login"}, status \in {"success", "failed"} : RecordRoute(e, action, status)

-----------------------------------------------------------------------------
\* Operators may have made a base row before, or an account of their own, and saved it.
SiteInit(s) ==
  /\ credential = [e \in Email |-> IF e \in s.saved
                     THEN [action |-> "login", status |-> "success", password |-> TRUE] ELSE NoRow]
  /\ base = s.base
  /\ site = [e \in Email |-> IF e \in s.accounts THEN "open" ELSE "none"]
  /\ form = s.form
  /\ visit = [p \in Page |-> NoVisit]
  /\ outside = 0

SiteTypeOK ==
  /\ credential \in [Email -> Row] /\ base \subseteq Email
  /\ site \in [Email -> Account] /\ form \in Form
  /\ visit \in [Page -> Visit]
  /\ outside \in 0..MaxOutside

\* What an operator or a sign-up stores is an account the site has, so that later crawls
\* can log in with it. The code does not keep to it: a page of a form that has no input
\* to type into is taken for the end of the registration.
StoredExists ==
  \A e \in Email : credential[e].password => site[e] # "none"

\* Inputs that nobody here knows how to fill in: always, and on a later page, where
\* nothing is swept.
Unfillable(k) ==
  {"choice", "number", "puzzle"} \cup (IF k = 1 THEN {} ELSE {"dropdown", "other"})
    \cup (IF form[k] \cap ({"email"} \cup Passwords) = {} THEN {"phone"} ELSE {})

\* A page of the form is left unsent only because it asks for something that nobody
\* here knows how to fill in, not because two helpers each left it to the other.
KnownFormsAreSent ==
  \A p \in Page : visit[p].send = "refused" =>
    \E k \in 1..Len(form) : (SinglePage => k = 1) /\ form[k] \cap Unfillable(k) # {}
=============================================================================
