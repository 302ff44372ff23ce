SPECIFICATION FairSpec
CONSTANTS
  Requests = {r1, r2, r3}
  Texts = {good, better, bad}
  Blank = blank
  NoFile = nofile
  Loadable = {good, better}
  Initial = good
  Faults = {"unit"}
  Exclusive = TRUE
INVARIANT BackupsMatchVersions
PROPERTY ImplementsHistory
PROPERTY FailedApplyRestores
PROPERTY OutcomesAreServed
PROPERTY ServiceConverges
\* every request is made once: when all have ended nothing more happens
CHECK_DEADLOCK FALSE
