SPECIFICATION Spec
CONSTANTS
  Requests = {r1, r2}
  Texts = {good, bad}
  Blank = blank
  NoFile = nofile
  Loadable = {good}
  Initial = good
  Faults = {"crash", "timeout", "sudo", "slow", "unit", "handedit"}
  Exclusive = FALSE
SYMMETRY Symmetry
INVARIANT TypeOK
INVARIANT NumbersDense
\* every request is made once: when all have ended nothing more happens
CHECK_DEADLOCK FALSE
