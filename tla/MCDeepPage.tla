----------------------------- MODULE MCDeepPage -----------------------------
(* Small instances of DeepPage for TLC: two pages of one site, one inbox.    *)
EXTENDS DeepPage, TLC
CONSTANTS p1, p2, seed
OneInbox == [p \in Page |-> seed]
Plain == <<{"email", "password"}>>
\* The wizard of the docstring of _handle_multi_step_registration
Wizard == <<{"email", "username"}, {"password", "confirm"}, {"birth", "country"}, {"agree"}>>
Forms ==
  {Plain, Wizard, <<{}>>,
   <<{"username", "email", "password", "confirm", "firstname", "lastname", "agree", "phone", "country"}>>,
   <<{"email", "password", "number"}>>,
   <<{"email", "password", "dropdown"}, {"other"}>>,
   <<{"email", "puzzle"}>>,
   <<{"username", "phone"}, {"email", "password"}>>,
   <<{"email", "other"}, {"password", "phone", "dropdown"}>>,
   <<{"email"}, {"question", "lastname"}>>,
   <<{"email"}, {"password"}, {"username"}, {"confirm"}, {"email", "question"}, {"password"}>>}

\* Every marker by itself and two pairs, on a page without an input, with a search box,
\* or with a form, whatever became of the account
SomeWords == {{}} \cup {{w} : w \in Word} \cup {{"welcome", "captcha"}, {"created", "required"}}
Anything  == [words: SomeWords, shows: {{}, {"other"}, {"email", "username", "password"}}, account: Account]
SomeFormWords == {{}, {"taken"}, {"created"}}

\* A site that tells the truth: without an account it never says that there is one, nor
\* that a mail was sent, and it shows the form again.
Honest ==
  {a \in Anything : a.account = "none" =>
     /\ a.words \cap {"created", "welcome", "verify", "phone"} = {}
     /\ a.shows \cap Registration # {}}

Site(f, kinds, can, known) ==
  [form |-> f, served |-> kinds, wants |-> can, base |-> {}, accounts |-> known, saved |-> known]
\* Articles; challenges; challenges and gates for a crawl that only logs in; every form
\* for one that signs up, at a site where an operator may be known, or with challenges.
Sites ==
  {Site(<<{}>>, {"continue", "quoting"}, {}, {}),
   Site(<<{}>>, {"challenge", "localized", "foreign"}, {}, {}),
   Site(Plain, {"challenge", "form"}, {"login"}, {seed}),
   Site(Plain, {"form", "foreign"}, {"signup"}, {}),
   Site(Plain, {"gate"}, {"login"}, {seed}), Site(Plain, {"gate"}, {}, {})}
  \cup {Site(f, {"form"}, {"login", "signup"}, {}) : f \in Forms}
  \cup {[Site(Plain, {"form"}, {"login", "signup"}, {}) EXCEPT !.accounts = a, !.base = b] :
           a \in SUBSET Email, b \in SUBSET Email}
\* The wizard alone
WizardSite == {Site(Wizard, {"form"}, {"signup"}, {})}
Alike == Permutations(Page)
=============================================================================
