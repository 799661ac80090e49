SPECIFICATION Spec
CONSTANTS
  p1 = p1  p2 = p2  seed = seed
  Page = {p1, p2}
  Email = {seed}
  inbox <- OneInbox
  Form <- Forms
  FormWords = {{}}
  Answers <- Honest
  verification = TRUE
  MaxOutside = 0
  Slots = 2
  Retries = 1
  Situations <- WizardSite
SYMMETRY Alike
INVARIANT StoredExists
CHECK_DEADLOCK FALSE
