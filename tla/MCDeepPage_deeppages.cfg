SPECIFICATION Spec
CONSTANTS
  p1 = p1  p2 = p2  seed = seed
  Page = {p1, p2}
  Email = {seed}
  inbox <- OneInbox
  Form <- Forms
  FormWords <- SomeFormWords
  Answers <- Anything
  verification = TRUE
  MaxOutside = 1
  Slots = 2
  Retries = 1
  Situations <- Sites
SYMMETRY Alike
INVARIANT SlotsReturned
INVARIANT ChallengeNeverStored
 
CHECK_DEADLOCK FALSE
