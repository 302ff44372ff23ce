SPECIFICATION Spec
CONSTANTS
  Requests = {r1, r2}
  Texts = {good, better, bad}
  Blank = blank
  NoFile = nofile
  Loadable = {good, better}
  Initial = good
  Faults = {}
  Exclusive = FALSE
SYMMETRY Symmetry
INVARIANT NoCollision
\* every request is made once: when all have ended nothing more happens
CHECK_DEADLOCK FALSE
