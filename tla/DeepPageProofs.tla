---------------------------- MODULE DeepPageProofs ----------------------------
(* Theorems about DeepPage and SiteAccounts, for any number of pages, slots,   *)
(* addresses and sites. Nothing but DeepAssumption and SiteAssumption is       *)
(* assumed.                                                                    *)
EXTENDS DeepPage, TLAPS, FiniteSetTheorems

-----------------------------------------------------------------------------
(* Pages, slots and the environment                                            *)

Fields == DOMAIN NoPage
LEMMA FieldsAre == Fields = {"pc", "live", "html", "status", "gate", "try", "saved", "auth", "creds"}
  BY DEF Fields, NoPage

PagesOK == /\ page = [p \in Page |-> page[p]]
           /\ \A p \in Page : DOMAIN page[p] = Fields

LEMMA SetsPage ==
  ASSUME PagesOK, NEW p \in Page, NEW r, DOMAIN r = Fields, Sets(p, r)
  PROVE  PagesOK' /\ page'[p] = r /\ \A x \in Page : x # p => page'[x] = page[x]
  BY DEF PagesOK, Sets

HoldingPc == {"display", "launch", "browse"}

LEMMA HoldingIs == ASSUME NEW p PROVE Holding(p) <=> page[p].pc \in HoldingPc
  BY DEF Holding, HoldingPc

(* The five things a step of a page may do to the slots and the environment.   *)
Apart(p)    == page[p].pc \notin HoldingPc /\ page'[p].pc \notin HoldingPc /\ UNCHANGED <<slots, environ>>
Acquires(p) == /\ page[p].pc \notin HoldingPc /\ page'[p].pc = "display"
               /\ slots > 0 /\ slots' = slots - 1 /\ UNCHANGED environ
Prepares(p) == page[p].pc = "display" /\ page'[p].pc = "launch" /\ UNCHANGED slots /\ environ' = "off"
Launches(p) == page[p].pc = "launch" /\ page'[p].pc = "browse" /\ UNCHANGED <<slots, environ>>
Releases(p) == page[p].pc \in HoldingPc /\ page'[p].pc \notin HoldingPc /\ slots' = slots + 1
Kinds(p)    == Apart(p) \/ Acquires(p) \/ Prepares(p) \/ Launches(p) \/ Releases(p)
(* What a step may make of a page that is stored.                              *)
Stores(p)   == page'[p].pc = "stored" => page'[p].html \notin Interstitial
Others(p)   == PagesOK' /\ \A x \in Page : x # p => page'[x] = page[x]

LEMMA CapturedThin ==
  ASSUME NEW r, DOMAIN r = Fields PROVE Captured(r).pc = "thin" /\ DOMAIN Captured(r) = Fields
  BY FieldsAre DEF Captured

LEMMA ThinStep ==
  ASSUME PagesOK, NEW p \in Page, NEW r, DOMAIN r = Fields, Sets(p, r),
         r.pc \notin HoldingPc \cup {"stored"},
         \/ page[p].pc \notin HoldingPc /\ UNCHANGED <<slots, environ>>
         \/ page[p].pc \in HoldingPc /\ Release(p)
  PROVE  Others(p) /\ Kinds(p) /\ Stores(p)
  <1>1. PagesOK' /\ page'[p] = r /\ \A x \in Page : x # p => page'[x] = page[x]
    BY SetsPage
  <1> QED BY <1>1 DEF Others, Kinds, Apart, Releases, Release, Stores

LEMMA NextAttemptStep ==
  ASSUME PagesOK, NEW p \in Page, NEW r, DOMAIN r = Fields, NextAttempt(p, r), page[p].pc \in HoldingPc
  PROVE  Others(p) /\ Kinds(p) /\ Stores(p)
  <1> DEFINE n == [r EXCEPT !.pc = "attempt", !.try = @ + 1]
  <1>1. DOMAIN n = Fields /\ n.pc = "attempt"
    BY FieldsAre
  <1>2. Sets(p, n) /\ Release(p)
    BY DEF NextAttempt
  <1>3. n.pc \notin HoldingPc \cup {"stored"}
    BY <1>1 DEF HoldingPc
  <1> HIDE DEF n
  <1> QED BY <1>1, <1>2, <1>3, ThinStep

LEMMA CapturedStep ==
  ASSUME PagesOK, NEW p \in Page, NEW r, DOMAIN r = Fields, Sets(p, Captured(r)),
         \/ page[p].pc \notin HoldingPc /\ UNCHANGED <<slots, environ>>
         \/ page[p].pc \in HoldingPc /\ Release(p)
  PROVE  Others(p) /\ Kinds(p) /\ Stores(p)
  <1>1. Captured(r).pc \notin HoldingPc \cup {"stored"} /\ DOMAIN Captured(r) = Fields
    BY CapturedThin DEF HoldingPc
  <1> QED BY <1>1, ThinStep

LEMMA StartPageStep ==
  ASSUME PagesOK, NEW p \in Page, StartPage(p)
  PROVE  Others(p) /\ Kinds(p) /\ Stores(p)
  <1> DEFINE r == [page[p] EXCEPT !.pc = "navigate", !.creds = ResolveCredentials]
  <1>1. DOMAIN r = Fields /\ r.pc = "navigate"
    BY FieldsAre DEF PagesOK
  <1>2. Sets(p, r) /\ page[p].pc = "idle" /\ UNCHANGED <<slots, environ>>
    BY DEF StartPage, On
  <1> HIDE DEF r
  <1> QED BY <1>1, <1>2, ThinStep DEF HoldingPc

LEMMA NavigateStep ==
  ASSUME PagesOK, NEW p \in Page, navigate_and_solve(p)
  PROVE  Others(p) /\ Kinds(p) /\ Stores(p)
  <1>1. page[p].pc \notin HoldingPc /\ UNCHANGED <<slots, environ>> /\ DOMAIN page[p] = Fields
    BY DEF navigate_and_solve, On, HoldingPc, PagesOK
  <1>2. PICK r : Sets(p, r) /\ DOMAIN r = Fields /\ r.pc \in {"thin", "attempt"}
    <2>1. CASE Sets(p, [page[p] EXCEPT !.pc = "thin", !.status = "error"])
      <3> DEFINE e == [page[p] EXCEPT !.pc = "thin", !.status = "error"]
      <3>1. DOMAIN e = Fields /\ e.pc = "thin"
        BY <1>1, FieldsAre
      <3>2. Sets(p, e)
        BY <2>1
      <3> HIDE DEF e
      <3> QED BY <3>1, <3>2
    <2>2. CASE ~Sets(p, [page[p] EXCEPT !.pc = "thin", !.status = "error"])
      <3>1. PICK k \in Loaded, status \in {"ok", "bad"} :
              LET r == [page[p] EXCEPT !.live = k, !.html = k]
                  gated == ~is_cloudflare_challenge(k) /\ has_unsolved_turnstile(k)
              IN Sets(p, IF is_cloudflare_challenge(k) \/ gated
                         THEN [r EXCEPT !.gate = gated, !.try = 1, !.pc = "attempt"]
                         ELSE [r EXCEPT !.status = status, !.pc = "thin"])
        BY <2>2 DEF navigate_and_solve
      <3> DEFINE q == [page[p] EXCEPT !.live = k, !.html = k]
                 gated == ~is_cloudflare_challenge(k) /\ has_unsolved_turnstile(k)
      <3>2. DOMAIN q = Fields
        BY <1>1, FieldsAre
      <3>3. ASSUME NEW b PROVE /\ DOMAIN [q EXCEPT !.gate = b, !.try = 1, !.pc = "attempt"] = Fields
                               /\ [q EXCEPT !.gate = b, !.try = 1, !.pc = "attempt"].pc = "attempt"
                               /\ DOMAIN [q EXCEPT !.status = status, !.pc = "thin"] = Fields
                               /\ [q EXCEPT !.status = status, !.pc = "thin"].pc = "thin"
        <4> HIDE DEF q
        <4> QED BY <3>2, FieldsAre
      <3>4. \/ Sets(p, [q EXCEPT !.gate = gated, !.try = 1, !.pc = "attempt"])
            \/ Sets(p, [q EXCEPT !.status = status, !.pc = "thin"])
        BY <3>1
      <3> HIDE DEF q, gated
      <3> QED BY <3>3, <3>4
    <2> QED BY <2>1, <2>2
  <1> QED BY <1>1, <1>2, ThinStep DEF HoldingPc

LEMMA GiveUpStep ==
  ASSUME PagesOK, NEW p \in Page, GiveUpCamoufox(p)
  PROVE  Others(p) /\ Kinds(p) /\ Stores(p)
  <1>1. page[p].pc \notin HoldingPc /\ UNCHANGED <<slots, environ>> /\ DOMAIN page[p] = Fields
        /\ Sets(p, Captured(page[p]))
    BY DEF GiveUpCamoufox, On, HoldingPc, PagesOK
  <1> QED BY <1>1, CapturedStep

LEMMA AcquireStep ==
  ASSUME PagesOK, NEW p \in Page, AcquireSlot(p)
  PROVE  Others(p) /\ Kinds(p) /\ Stores(p)
  <1> DEFINE r == [page[p] EXCEPT !.pc = "display"]
  <1>1. DOMAIN r = Fields /\ r.pc = "display"
    BY FieldsAre DEF PagesOK
  <1>2. Sets(p, r) /\ page[p].pc = "attempt" /\ slots > 0 /\ slots' = slots - 1 /\ UNCHANGED environ
    BY DEF AcquireSlot, On
  <1> HIDE DEF r
  <1>3. PagesOK' /\ page'[p] = r /\ \A x \in Page : x # p => page'[x] = page[x]
    BY <1>1, <1>2, SetsPage
  <1> QED BY <1>1, <1>2, <1>3 DEF Others, Kinds, Acquires, Stores, HoldingPc

LEMMA SetEnvironStep ==
  ASSUME PagesOK, NEW p \in Page, SetEnviron(p)
  PROVE  Others(p) /\ Kinds(p) /\ Stores(p)
  <1> DEFINE r == [page[p] EXCEPT !.pc = "launch", !.saved = environ]
  <1>1. DOMAIN r = Fields /\ r.pc = "launch"
    BY FieldsAre DEF PagesOK
  <1>2. Sets(p, r) /\ page[p].pc = "display" /\ UNCHANGED slots /\ environ' = "off"
    BY DEF SetEnviron, On
  <1> HIDE DEF r
  <1>3. PagesOK' /\ page'[p] = r /\ \A x \in Page : x # p => page'[x] = page[x]
    BY <1>1, <1>2, SetsPage
  <1> QED BY <1>1, <1>2, <1>3 DEF Others, Kinds, Prepares, Stores

LEMMA LaunchStep ==
  ASSUME PagesOK, NEW p \in Page, LaunchCamoufox(p)
  PROVE  Others(p) /\ Kinds(p) /\ Stores(p)
  <1> DEFINE r == [page[p] EXCEPT !.pc = "browse"]
  <1>1. page[p].pc = "launch" /\ DOMAIN page[p] = Fields /\ "launch" \in HoldingPc
    BY DEF LaunchCamoufox, On, PagesOK, HoldingPc
  <1>2. CASE Sets(p, r) /\ UNCHANGED <<slots, environ>>
    <2>1. DOMAIN r = Fields /\ r.pc = "browse"
      BY <1>1, FieldsAre
    <2> HIDE DEF r
    <2>2. PagesOK' /\ page'[p] = r /\ \A x \in Page : x # p => page'[x] = page[x]
      BY <1>2, <2>1, SetsPage
    <2> QED BY <1>1, <1>2, <2>1, <2>2 DEF Others, Kinds, Launches, Stores
  <1>3. CASE NextAttempt(p, page[p])
    BY <1>1, <1>3, NextAttemptStep
  <1>4. CASE Release(p) /\ Sets(p, Captured(page[p]))
    BY <1>1, <1>4, CapturedStep
  <1> QED BY <1>2, <1>3, <1>4 DEF LaunchCamoufox

LEMMA BlockedStep ==
  ASSUME PagesOK, NEW p \in Page, CamoufoxBlocked(p)
  PROVE  Others(p) /\ Kinds(p) /\ Stores(p)
  <1>1. page[p].pc \in HoldingPc /\ DOMAIN page[p] = Fields
    BY DEF CamoufoxBlocked, On, PagesOK, HoldingPc
  <1>2. \A k, status : DOMAIN [page[p] EXCEPT !.html = k, !.status = status] = Fields
    BY <1>1
  <1>3. PICK r : NextAttempt(p, r) /\ DOMAIN r = Fields
    BY <1>1, <1>2 DEF CamoufoxBlocked
  <1> QED BY <1>1, <1>3, NextAttemptStep

LEMMA ClearedStep ==
  ASSUME PagesOK, NEW p \in Page, CamoufoxCleared(p)
  PROVE  Others(p) /\ Kinds(p) /\ Stores(p)
  <1>1. page[p].pc \in HoldingPc /\ DOMAIN page[p] = Fields
    BY DEF CamoufoxCleared, On, PagesOK, HoldingPc
  <1>2. PICK c \in Cleared(p) :
          LET r == [page[p] EXCEPT !.html = c.html, !.auth = @ \/ c.auth]
          IN \/ Release(p) /\ Sets(p, Captured([r EXCEPT !.status = "none"]))
             \/ \E status \in {"ok", "bad"} :
                  \/ NextAttempt(p, [r EXCEPT !.status = status])
                  \/ \E k \in Through :
                       Release(p) /\ Sets(p, Captured([r EXCEPT !.status = status, !.live = k, !.html = k]))
    BY DEF CamoufoxCleared
  <1> DEFINE r == [page[p] EXCEPT !.html = c.html, !.auth = @ \/ c.auth]
  <1>3. DOMAIN r = Fields
    BY <1>1
  <1>4. /\ \A s : DOMAIN [r EXCEPT !.status = s] = Fields
        /\ \A s, k : DOMAIN [r EXCEPT !.status = s, !.live = k, !.html = k] = Fields
    <2> HIDE DEF r
    <2> QED BY <1>3
  <1>5. \E q : DOMAIN q = Fields /\ (NextAttempt(p, q) \/ (Release(p) /\ Sets(p, Captured(q))))
    <2>1. \/ Release(p) /\ Sets(p, Captured([r EXCEPT !.status = "none"]))
          \/ \E status \in {"ok", "bad"} :
               \/ NextAttempt(p, [r EXCEPT !.status = status])
               \/ \E k \in Through :
                    Release(p) /\ Sets(p, Captured([r EXCEPT !.status = status, !.live = k, !.html = k]))
      BY <1>2
    <2> HIDE DEF r
    <2> QED BY <1>4, <2>1
  <1> HIDE DEF r
  <1> QED BY <1>1, <1>5, NextAttemptStep, CapturedStep

LEMMA RetryThinStep ==
  ASSUME PagesOK, NEW p \in Page, RetryThin(p)
  PROVE  Others(p) /\ Kinds(p) /\ Stores(p)
  <1>1. page[p].pc \notin HoldingPc /\ UNCHANGED <<slots, environ>> /\ DOMAIN page[p] = Fields
    BY DEF RetryThin, On, HoldingPc, PagesOK
  <1>2. /\ DOMAIN [page[p] EXCEPT !.pc = "page"] = Fields /\ [page[p] EXCEPT !.pc = "page"].pc = "page"
        /\ DOMAIN [page[p] EXCEPT !.pc = "page", !.live = "none"] = Fields
        /\ [page[p] EXCEPT !.pc = "page", !.live = "none"].pc = "page"
    BY <1>1, FieldsAre
  <1> DEFINE again(k, status) == [page[p] EXCEPT !.pc = "page", !.live = k, !.html = k,
                                                 !.status = IF @ = "error" THEN @ ELSE status]
  <1>3. \A k, status : DOMAIN again(k, status) = Fields /\ again(k, status).pc = "page"
    BY <1>1, FieldsAre
  <1>4. \/ Sets(p, [page[p] EXCEPT !.pc = "page"])
        \/ Sets(p, [page[p] EXCEPT !.pc = "page", !.live = "none"])
        \/ \E k, status : Sets(p, again(k, status))
    BY DEF RetryThin
  <1> HIDE DEF again
  <1>5. PICK r : Sets(p, r) /\ DOMAIN r = Fields /\ r.pc = "page"
    BY <1>2, <1>3, <1>4
  <1> QED BY <1>1, <1>5, ThinStep DEF HoldingPc

LEMMA FreshPage ==
  ASSUME NEW h, NEW s, NEW c
  PROVE  /\ DOMAIN [NoPage EXCEPT !.html = h, !.status = s, !.pc = c] = Fields
         /\ [NoPage EXCEPT !.html = h, !.status = s, !.pc = c].pc = c
         /\ DOMAIN [NoPage EXCEPT !.pc = c, !.html = h] = Fields
         /\ [NoPage EXCEPT !.pc = c, !.html = h].pc = c
         /\ [NoPage EXCEPT !.pc = c, !.html = h].html = h
         /\ DOMAIN [NoPage EXCEPT !.pc = c] = Fields
         /\ [NoPage EXCEPT !.pc = c].pc = c
  BY FieldsAre DEF NoPage

LEMMA HandlePageStep ==
  ASSUME PagesOK, NEW p \in Page, HandlePage(p)
  PROVE  Others(p) /\ Kinds(p) /\ Stores(p)
  <1>1. page[p].pc \notin HoldingPc /\ UNCHANGED <<slots, environ>>
    BY DEF HandlePage, On, HoldingPc
  <1>2. \E h, s, c : /\ Sets(p, [NoPage EXCEPT !.html = h, !.status = s, !.pc = c])
                     /\ c \in {"visit", "login", "finish"}
    BY DEF HandlePage
  <1>3. PICK r : Sets(p, r) /\ DOMAIN r = Fields /\ r.pc \in {"visit", "login", "finish"}
    <2>1. PICK h, s, c : /\ Sets(p, [NoPage EXCEPT !.html = h, !.status = s, !.pc = c])
                         /\ c \in {"visit", "login", "finish"}
      BY <1>2
    <2> DEFINE e == [NoPage EXCEPT !.html = h, !.status = s, !.pc = c]
    <2>2. Sets(p, e)
      BY <2>1
    <2>3. DOMAIN e = Fields /\ e.pc = c
      BY FreshPage
    <2> HIDE DEF e
    <2> QED BY <2>1, <2>2, <2>3
  <1> QED BY <1>1, <1>3, ThinStep DEF HoldingPc

LEMMA LoginStep ==
  ASSUME PagesOK, NEW p \in Page, AfterVisit(p) \/ HandleLogin(p)
  PROVE  Others(p) /\ Kinds(p) /\ Stores(p)
  <1>1. page[p].pc \notin HoldingPc /\ UNCHANGED <<slots, environ>> /\ DOMAIN page[p] = Fields
    BY DEF AfterVisit, HandleLogin, On, HoldingPc, PagesOK
  <1>2. DOMAIN [page[p] EXCEPT !.pc = "login"] = Fields /\ [page[p] EXCEPT !.pc = "login"].pc = "login"
    BY <1>1, FieldsAre
  <1>3. ASSUME NEW k PROVE LET e == [page[p] EXCEPT !.pc = "finish", !.html = k]
                           IN DOMAIN e = Fields /\ e.pc = "finish"
    BY <1>1, FieldsAre
  <1>4. PICK r : Sets(p, r) /\ DOMAIN r = Fields /\ r.pc \in {"login", "finish"}
    BY <1>2, <1>3 DEF AfterVisit, HandleLogin
  <1> QED BY <1>1, <1>4, ThinStep DEF HoldingPc

(* The challenge runtime is in an interstitial of any language.                *)
LEMMA InterstitialIsChallenge ==
  ASSUME NEW k \in Interstitial PROVE html_is_challenge(k)
  BY DEF Interstitial, html_is_challenge, Signals

LEMMA FinishStep ==
  ASSUME PagesOK, NEW p \in Page, FinishPage(p)
  PROVE  Others(p) /\ Kinds(p) /\ Stores(p)
  <1>1. page[p].pc \notin HoldingPc /\ UNCHANGED <<slots, environ>>
    BY DEF FinishPage, On, HoldingPc
  <1> DEFINE failed == \/ page[p].status # "ok"
                       \/ SignupFailed(p) \/ html_is_challenge(page[p].html)
             c == IF failed THEN "failed" ELSE "stored"
             h == IF failed THEN "none" ELSE page[p].html
             r == [NoPage EXCEPT !.pc = c, !.html = h]
  <1>2. Sets(p, r)
    BY DEF FinishPage
  <1>3. c = "failed" \/ (c = "stored" /\ h \notin Interstitial)
    BY InterstitialIsChallenge
  <1> HIDE DEF c, h
  <1>4. DOMAIN r = Fields /\ r.pc = c /\ r.html = h
    BY FreshPage
  <1> HIDE DEF r
  <1>5. PagesOK' /\ page'[p] = r /\ \A x \in Page : x # p => page'[x] = page[x]
    BY <1>2, <1>4, SetsPage
  <1> QED BY <1>1, <1>3, <1>4, <1>5 DEF Others, Kinds, Apart, Stores, HoldingPc

LEMMA AbandonStep ==
  ASSUME PagesOK, NEW p \in Page, AbandonPage(p)
  PROVE  Others(p) /\ Kinds(p) /\ Stores(p)
  <1>1. PICK r : Sets(p, r) /\ DOMAIN r = Fields /\ r.pc = "failed"
    BY FreshPage DEF AbandonPage
  <1>2. \/ page[p].pc \notin HoldingPc /\ UNCHANGED <<slots, environ>>
        \/ page[p].pc \in HoldingPc /\ Release(p)
    BY HoldingIs DEF AbandonPage, ReleaseCancelled
  <1> QED BY <1>1, <1>2, ThinStep DEF HoldingPc

LEMMA PageKinds ==
  ASSUME PagesOK, NEW p \in Page, PageStep(p)
  PROVE  Others(p) /\ Kinds(p) /\ Stores(p)
  BY StartPageStep, NavigateStep, GiveUpStep, AcquireStep, SetEnvironStep, LaunchStep, BlockedStep,
     ClearedStep, RetryThinStep, HandlePageStep, LoginStep, FinishStep, AbandonStep DEF PageStep

-----------------------------------------------------------------------------
(* Slots                                                                       *)

Holders == {p \in Page : Holding(p)}

SlotsInv == /\ PagesOK /\ SlotsReturned /\ slots \in Nat
            /\ ChallengeNeverStored

LEMMA HoldersFinite == DeepAssumption => IsFiniteSet(Holders) /\ Cardinality(Holders) \in Nat
  BY FS_Subset, FS_CardinalityType DEF DeepAssumption, Holders

LEMMA HoldersChange ==
  ASSUME NEW p \in Page, Others(p)
  PROVE  /\ page'[p].pc \in HoldingPc    => Holders' = Holders \cup {p}
         /\ page'[p].pc \notin HoldingPc => Holders' = Holders \ {p}
         /\ p \in Holders <=> page[p].pc \in HoldingPc
  <1>1. \A x \in Page : (Holding(x) <=> page[x].pc \in HoldingPc) /\ (Holding(x)' <=> page'[x].pc \in HoldingPc)
    BY DEF Holding, HoldingPc
  <1> QED BY <1>1 DEF Holders, Others

LEMMA SlotsNext ==
  ASSUME DeepAssumption, SlotsInv, NEW p \in Page, PageStep(p)
  PROVE  SlotsInv'
  <1>1. Others(p) /\ Kinds(p) /\ Stores(p)
    BY PageKinds DEF SlotsInv
  <1>2. IsFiniteSet(Holders) /\ Cardinality(Holders) \in Nat /\ slots + Cardinality(Holders) = Slots
        /\ slots \in Nat
    BY HoldersFinite DEF SlotsInv, SlotsReturned, Holders
  <1>3. /\ Cardinality(Holders \cup {p}) = IF p \in Holders THEN Cardinality(Holders) ELSE Cardinality(Holders) + 1
        /\ Cardinality(Holders \ {p}) = IF p \in Holders THEN Cardinality(Holders) - 1 ELSE Cardinality(Holders)
    BY <1>2, FS_AddElement, FS_RemoveElement
  <1>4. slots' + Cardinality(Holders') = Slots /\ slots' \in Nat
    <2>1. CASE Apart(p)
      BY <1>1, <1>2, <1>3, <2>1, HoldersChange DEF Apart
    <2>2. CASE Acquires(p)
      <3>1. p \notin Holders /\ Holders' = Holders \cup {p} /\ slots > 0 /\ slots' = slots - 1
        BY <1>1, <2>2, HoldersChange DEF Acquires, HoldingPc
      <3>2. Cardinality(Holders') = Cardinality(Holders) + 1
        BY <1>3, <3>1
      <3> QED BY <1>2, <3>1, <3>2 DEF DeepAssumption
    <2>3. CASE Prepares(p) \/ Launches(p)
      BY <1>1, <1>2, <1>3, <2>3, HoldersChange DEF Prepares, Launches, HoldingPc
    <2>4. CASE Releases(p)
      <3>1. p \in Holders /\ Holders' = Holders \ {p} /\ slots' = slots + 1
        BY <1>1, <2>4, HoldersChange DEF Releases
      <3>2. Cardinality(Holders') = Cardinality(Holders) - 1
        BY <1>3, <3>1
      <3> QED BY <1>2, <3>1, <3>2 DEF DeepAssumption
    <2> QED BY <1>1, <2>1, <2>2, <2>3, <2>4 DEF Kinds
  <1>5. ChallengeNeverStored'
    BY <1>1 DEF SlotsInv, ChallengeNeverStored, Others, Stores, On
  <1> QED BY <1>1, <1>4, <1>5 DEF SlotsInv, SlotsReturned, Holders, Others

LEMMA SlotsStutter == ASSUME SlotsInv, UNCHANGED <<page, slots, environ>> PROVE SlotsInv'
  BY DEF SlotsInv, PagesOK, SlotsReturned, ChallengeNeverStored, Holding, On

LEMMA SlotsInit == ASSUME DeepAssumption, Init PROVE SlotsInv
  <1>1. page = [p \in Page |-> NoPage] /\ slots = Slots
    BY DEF Init
  <1>2. \A p \in Page : page[p].pc = "idle"
    BY <1>1 DEF NoPage
  <1>3. {p \in Page : Holding(p)} = {}
    BY <1>2 DEF Holding
  <1>4. slots + Cardinality({p \in Page : Holding(p)}) = Slots /\ slots \in Nat
    BY <1>1, <1>3, FS_EmptySet DEF DeepAssumption
  <1> QED BY <1>1, <1>2, <1>4 DEF SlotsInv, PagesOK, SlotsReturned, ChallengeNeverStored, On, Fields

LEMMA SlotsInvariant == Spec => []SlotsInv
  <1> USE DeepAssumption
  <1>1. SlotsInv /\ [Next]_vars => SlotsInv'
    <2> SUFFICES ASSUME SlotsInv, [Next]_vars PROVE SlotsInv'
      OBVIOUS
    <2>1. CASE SiteStep \/ UNCHANGED vars
      BY <2>1, SlotsStutter DEF SiteStep, vars, deepVars
    <2> QED BY <2>1, SlotsNext DEF Next
  <1> QED BY <1>1, SlotsInit, PTL DEF Spec

(* However an attempt ends, and whichever pages are cancelled, every slot of   *)
(* the Camoufox pool is either free or held by one page.                       *)
THEOREM SlotsReturnedTheorem == Spec => []SlotsReturned
  <1>1. SlotsInv => SlotsReturned
    BY DEF SlotsInv
  <1> QED BY <1>1, SlotsInvariant, PTL

(* No interstitial is stored as the page, in whatever language and however     *)
(* many browsers, retries and logins came before.                              *)
THEOREM ChallengeNeverStoredTheorem == Spec => []ChallengeNeverStored
  <1>1. SlotsInv => ChallengeNeverStored
    BY DEF SlotsInv
  <1> QED BY <1>1, SlotsInvariant, PTL

-----------------------------------------------------------------------------
(* The registration form                                                       *)

VisitFields == DOMAIN NoVisit

LEMMA VisitFieldsAre == VisitFields = {"pc", "send", "needs", "rec", "success"}
  BY DEF VisitFields, NoVisit

(* What KnownFormsAreSent demands of the site's form when a page is left unsent *)
Explained == \E k \in 1..Len(form) : (SinglePage => k = 1) /\ form[k] \cap Unfillable(k) # {}

FormInv == /\ form \in Form
           /\ visit = [p \in Page |-> visit[p]] /\ \A p \in Page : DOMAIN visit[p] = VisitFields
           /\ KnownFormsAreSent

LEMMA FormPages ==
  ASSUME SiteAssumption, form \in Form
  PROVE  /\ Len(form) \in Nat \ {0} /\ 1 \in 1..Len(form)
         /\ \A k \in 1..Len(form) : form[k] \subseteq Input
  <1>1. form \in Seq(SUBSET Input) /\ Len(form) \in Nat \ {0}
    BY DEF SiteAssumption
  <1> QED BY <1>1

(* On a single page nothing but the kinds nobody knows is left empty: it asks  *)
(* for an e-mail address, so the phone number is filled too.                   *)
LEMMA SinglePageFilled ==
  ASSUME SinglePage, form[1] \cap Unfillable(1) = {}
  PROVE  form[1] \subseteq FirstPass(form[1])
  <1>1. "email" \in form[1] /\ form[1] \cap {"choice", "number", "puzzle"} = {}
    BY DEF SinglePage, Unfillable
  <1>2. ASSUME NEW i \in form[1] PROVE i \in FirstPass(form[1])
    BY <1>1, <1>2 DEF FirstPass, FillMissing, Helpers, tick_agreement_checkboxes, fill_radio_buttons,
         fill_date_of_birth, fill_phone_number, Passwords
  <1> QED BY <1>2

(* In a wizard, where later pages are not swept, inputs of other sorts are left *)
(* too.                                                                        *)
LEMMA WizardFilled ==
  ASSUME NEW k, form[k] \subseteq Input, form[k] \cap Unfillable(k) = {}
  PROVE  Sendable(k)
  <1>1. ASSUME NEW i \in form[k] PROVE i \in WizardFills(k)
    <2>1. i \in Input /\ i \notin {"choice", "number", "puzzle"}
      BY <1>1 DEF Unfillable
    <2>2. CASE i = "phone"
      <3>1. form[k] \cap ({"email"} \cup Passwords) # {}
        BY <1>1, <2>2 DEF Unfillable
      <3> QED BY <1>1, <2>2, <3>1 DEF WizardFills, Helpers, fill_phone_number
    <2>3. CASE i \in {"dropdown", "other"}
      <3>1. k = 1
        BY <1>1, <2>3 DEF Unfillable
      <3> QED BY <1>1, <2>3, <3>1 DEF WizardFills, FillMissing
    <2>4. CASE i \in {"email", "username", "password", "confirm", "fullname", "firstname", "lastname"}
      BY <1>1, <2>4 DEF WizardFills, Registration, Passwords, Names
    <2>5. CASE i \in {"agree", "question", "country", "gender", "birth"}
      BY <1>1, <2>5 DEF WizardFills, Helpers, tick_agreement_checkboxes, answer_bot_qa_fields, fill_dropdowns,
           fill_radio_buttons, fill_date_of_birth
    <2> QED BY <2>1, <2>2, <2>3, <2>4, <2>5 DEF Input
  <1> QED BY <1>1 DEF Sendable

LEMMA SinglePageRefused ==
  ASSUME SiteAssumption, form \in Form, SinglePage, NEW o \in try_single_page, o.send = "refused"
  PROVE  Explained
  <1>1. CASE form[1] \subseteq FirstPass(form[1])
    BY <1>1 DEF try_single_page, Outcome
  <1>2. CASE ~(form[1] \subseteq FirstPass(form[1]))
    <2>1. form[1] \cap Unfillable(1) # {}
      BY <1>2, SinglePageFilled
    <2> QED BY <2>1, FormPages DEF Explained
  <1> QED BY <1>1, <1>2

LEMMA WizardRefused ==
  ASSUME SiteAssumption, form \in Form, ~SinglePage, NEW o \in handle_multi_step_registration, o.send = "refused"
  PROVE  Explained
  <1>1. PICK k \in Reached : o \in EndsAt(k)
    BY DEF handle_multi_step_registration
  <1>2. k \in 1..Len(form)
    BY <1>1 DEF Reached
  <1>3. ~Sendable(k)
    BY <1>1 DEF EndsAt, LastAnswer, Outcome
  <1>4. form[k] \cap Unfillable(k) # {}
    BY <1>2, <1>3, FormPages, WizardFilled
  <1> QED BY <1>2, <1>4 DEF Explained

LEMMA RefusedIsExplained ==
  ASSUME SiteAssumption, form \in Form, NEW o \in Outcomes, o.send = "refused"
  PROVE  Explained
  <1>1. o # Outcome("no", "failed", "none")
    BY DEF Outcome
  <1>2. CASE SinglePage /\ o \in try_single_page
    BY <1>2, SinglePageRefused
  <1>3. CASE ~SinglePage /\ o \in handle_multi_step_registration
    BY <1>3, WizardRefused
  <1> QED BY <1>1, <1>2, <1>3 DEF Outcomes

LEMMA FormKept == ASSUME FormInv, UNCHANGED <<form, visit>> PROVE FormInv'
  BY DEF FormInv, KnownFormsAreSent, SinglePage, Unfillable

(* A step of a visit keeps what became of the form, or finds it out.           *)
LEMMA SendMoves ==
  ASSUME FormInv, UNCHANGED form, NEW p \in Page, NEW v, Visits(p, v), DOMAIN v = VisitFields,
         v.send = "refused" => visit[p].send = "refused" \/ Explained
  PROVE  FormInv'
  <1>1. visit'[p] = v /\ (\A x \in Page : x # p => visit'[x] = visit[x]) /\ visit' = [x \in Page |-> visit'[x]]
    BY DEF Visits, FormInv
  <1>2. \A x \in Page : visit'[x].send = "refused" => Explained
    BY <1>1 DEF FormInv, KnownFormsAreSent, Explained
  <1>3. Explained' = Explained
    BY DEF Explained, SinglePage, Unfillable
  <1>4. \A x \in Page : DOMAIN visit'[x] = VisitFields
    BY <1>1 DEF FormInv
  <1>5. KnownFormsAreSent'
    BY <1>2, <1>3 DEF KnownFormsAreSent, Explained
  <1> QED BY <1>1, <1>4, <1>5 DEF FormInv

LEMMA EndedSends ==
  ASSUME NEW p
  PROVE  /\ Ended(p).send = visit[p].send /\ DOMAIN Ended(p) = VisitFields
         /\ [Ended(p) EXCEPT !.pc = "broken"].send = visit[p].send
         /\ DOMAIN [Ended(p) EXCEPT !.pc = "broken"] = VisitFields
  BY DEF Ended, NoVisit, VisitFields

LEMMA AfterStoreSends ==
  ASSUME FormInv, UNCHANGED form, NEW p \in Page, AfterStore(p)
  PROVE  FormInv'
  <1> DEFINE w == [visit[p] EXCEPT !.pc = "verify"]
             r == [visit[p] EXCEPT !.pc = "record", !.rec = "sent"]
  <1>1. w.send = visit[p].send /\ r.send = visit[p].send /\ DOMAIN w = VisitFields /\ DOMAIN r = VisitFields
    BY VisitFieldsAre DEF FormInv
  <1>2. Visits(p, Ended(p)) \/ Visits(p, w) \/ Visits(p, r)
    BY DEF AfterStore
  <1> HIDE DEF w, r
  <1> QED BY <1>1, <1>2, EndedSends, SendMoves

LEMMA TryLoginSends ==
  ASSUME FormInv, NEW p \in Page, try_login(p)
  PROVE  FormInv'
  <1>1. PICK ok \in BOOLEAN :
          Visits(p, [visit[p] EXCEPT !.pc = "record", !.success = ok,
                                     !.send = IF @ = "noform" THEN "no" ELSE @,
                                     !.rec = IF ok THEN "login" ELSE "loginfailed"])
    BY DEF try_login
  <1> DEFINE v == [visit[p] EXCEPT !.pc = "record", !.success = ok,
                                   !.send = IF @ = "noform" THEN "no" ELSE @,
                                   !.rec = IF ok THEN "login" ELSE "loginfailed"]
  <1>2. DOMAIN v = VisitFields /\ v.send = IF visit[p].send = "noform" THEN "no" ELSE visit[p].send
    BY VisitFieldsAre DEF FormInv
  <1>3. Visits(p, v) /\ UNCHANGED form
    BY <1>1 DEF try_login, Stay
  <1> HIDE DEF v
  <1> QED BY <1>2, <1>3, SendMoves

LEMMA TrySignupSends ==
  ASSUME SiteAssumption, FormInv, NEW p \in Page, try_signup(p)
  PROVE  FormInv'
  <1> DEFINE new(o, again, ok) == [visit[p] EXCEPT
                 !.send = o.send,
                 !.pc = IF again THEN "again" ELSE "record",
                 !.needs = o.verdict = "wanted",
                 !.success = ok,
                 !.rec = IF ok THEN "signup" ELSE "signupfailed"]
  <1>1. \E o \in Outcomes : \E again, ok : Visits(p, new(o, again, ok))
    BY DEF try_signup
  <1>2. PICK o \in Outcomes : \E again, ok : Visits(p, new(o, again, ok))
    BY <1>1
  <1>3. PICK again, ok : Visits(p, new(o, again, ok))
    BY <1>2
  <1> DEFINE v == new(o, again, ok)
  <1>4. DOMAIN v = VisitFields /\ v.send = o.send
    BY VisitFieldsAre DEF FormInv
  <1>5. Visits(p, v) /\ UNCHANGED form
    BY <1>3 DEF try_signup, Stay
  <1>6. o.send = "refused" => Explained
    BY RefusedIsExplained DEF FormInv
  <1> HIDE DEF v, new
  <1> QED BY <1>4, <1>5, <1>6, SendMoves

LEMMA VisitStepSends ==
  ASSUME SiteAssumption, FormInv, NEW p \in Page, VisitStep(p)
  PROVE  FormInv'
  <1>1. CASE CheckDomain(p)
    <2> DEFINE v == [visit[p] EXCEPT !.pc = IF is_domain_registered THEN "login" ELSE "signup"]
    <2>1. v.send = visit[p].send /\ DOMAIN v = VisitFields /\ Visits(p, v) /\ UNCHANGED form
      BY <1>1, VisitFieldsAre DEF FormInv, CheckDomain, Stay
    <2> HIDE DEF v
    <2> QED BY <2>1, SendMoves
  <1>2. CASE try_login(p)
    BY <1>2, TryLoginSends
  <1>3. CASE try_signup(p)
    BY <1>3, TrySignupSends
  <1>4. CASE RecordVisit(p)
    <2> DEFINE v == [visit[p] EXCEPT !.pc = "store"]
    <2>1. v.send = visit[p].send /\ DOMAIN v = VisitFields
      BY VisitFieldsAre DEF FormInv
    <2>2. (Visits(p, v) \/ Visits(p, Ended(p))) /\ UNCHANGED form
      BY <1>4 DEF RecordVisit, Stay
    <2> HIDE DEF v
    <2> QED BY <2>1, <2>2, EndedSends, SendMoves
  <1>5. CASE StoreVisit(p)
    BY <1>5, AfterStoreSends DEF StoreVisit, Stay
  <1>6. CASE handle_verification(p)
    BY <1>6, EndedSends, SendMoves DEF handle_verification, Stay
  <1>7. CASE StatementFails(p)
    <2>1. UNCHANGED form /\ (AfterStore(p) \/ Visits(p, [Ended(p) EXCEPT !.pc = "broken"]))
      BY <1>7 DEF StatementFails, Stay
    <2> QED BY <2>1, EndedSends, AfterStoreSends, SendMoves
  <1> QED BY <1>1, <1>2, <1>3, <1>4, <1>5, <1>6, <1>7 DEF VisitStep

LEMMA PageStepSends ==
  ASSUME FormInv, NEW p \in Page, PageStep(p)
  PROVE  FormInv'
  <1>1. CASE UNCHANGED siteVars
    BY <1>1, FormKept DEF siteVars
  <1>2. CASE HandlePage(p)
    <2>1. UNCHANGED form /\ \E c : visit' = [visit EXCEPT ![p].pc = c]
      BY <1>2 DEF HandlePage
    <2>2. PICK c : visit' = [visit EXCEPT ![p].pc = c]
      BY <2>1
    <2> DEFINE v == [visit[p] EXCEPT !.pc = c]
    <2>3. v.send = visit[p].send /\ DOMAIN v = VisitFields
      BY VisitFieldsAre DEF FormInv
    <2>4. Visits(p, v)
      BY <2>2 DEF Visits
    <2> HIDE DEF v
    <2> QED BY <2>1, <2>3, <2>4, SendMoves
  <1>3. CASE AbandonPage(p)
    <2> DEFINE b == [NoVisit EXCEPT !.pc = "broken", !.send = visit[p].send]
    <2>1. UNCHANGED form /\ (Visits(p, b) \/ Visits(p, visit[p]))
      BY <1>3 DEF AbandonPage, Visits
    <2>2. b.send = visit[p].send /\ DOMAIN b = VisitFields
      BY DEF NoVisit, VisitFields
    <2>3. DOMAIN visit[p] = VisitFields
      BY DEF FormInv
    <2> HIDE DEF b
    <2> QED BY <2>1, <2>2, <2>3, SendMoves
  <1> QED BY <1>1, <1>2, <1>3 DEF PageStep, StartPage, navigate_and_solve, GiveUpCamoufox, AcquireSlot, SetEnviron,
        LaunchCamoufox, CamoufoxBlocked, CamoufoxCleared, RetryThin, AfterVisit, HandleLogin, FinishPage

LEMMA FormStart == ASSUME DeepAssumption, Init PROVE FormInv
  <1>1. PICK s \in Situations : SiteInit(s)
    BY DEF Init
  <1>2. form = s.form /\ visit = [p \in Page |-> NoVisit]
    BY <1>1 DEF SiteInit
  <1>3. NoVisit.send = "no"
    BY DEF NoVisit
  <1> QED BY <1>2, <1>3 DEF FormInv, KnownFormsAreSent, DeepAssumption, VisitFields

(* Every page of a form that is left unsent asks for something nobody here can *)
(* fill in, for any form a site may have and whatever its pages say: between   *)
(* the first pass, the sweep over what is missing and the helpers nothing else *)
(* falls through. A phone number on a page with neither an e-mail address nor  *)
(* a password is such a thing.                                                 *)
THEOREM KnownFormsAreSentTheorem == Spec => []KnownFormsAreSent
  <1> USE DeepAssumption, SiteAssumption
  <1>1. Init => FormInv
    BY FormStart
  <1>2. FormInv /\ [Next]_vars => FormInv'
    <2> SUFFICES ASSUME FormInv, [Next]_vars PROVE FormInv'
      OBVIOUS
    <2>1. CASE UNCHANGED vars
      BY <2>1, FormKept DEF vars, siteVars
    <2>2. CASE SiteStep
      <3>1. CASE OperatorStep
        BY <3>1, FormKept DEF OperatorStep, create_credential, save_site_credential, RecordRoute
      <3> QED BY <2>2, <3>1, VisitStepSends DEF SiteStep
    <2>3. CASE \E p \in Page : PageStep(p)
      BY <2>3, PageStepSends
    <2> QED BY <2>1, <2>2, <2>3 DEF Next
  <1>3. FormInv => KnownFormsAreSent
    BY DEF FormInv
  <1> QED BY <1>1, <1>2, <1>3, PTL DEF Spec
===============================================================================
