SPECIFICATION FairSpec
CONSTANTS
  p = p
  Page = {p}
  JOB_HISTORY_MAX_LINES = 5
  MaxConns = 2
  MaxLag = 1
  Situations <- SmallSituations
INVARIANT ShownIsLogged
INVARIANT FullPicture
INVARIANT OriginalKept
PROPERTY PageConverges
CHECK_DEADLOCK FALSE
