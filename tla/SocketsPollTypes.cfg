\* One object on one description.
SPECIFICATION Spec
CONSTANTS
  Completes = {TRUE, FALSE}
  Fds = {f1}
  Objects = {h1}
  Tasks = {t1}
  None = None
SYMMETRY Symmetry
CHECK_DEADLOCK FALSE
INVARIANT PollTypesUsePoll
