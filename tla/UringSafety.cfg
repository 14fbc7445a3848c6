\* Two descriptors that take turns on one token, so that completions of a closed
\* handle meet its successor; rings of two that fill up.
SPECIFICATION Spec
CONSTANTS
  Fds = {f1, f2}
  Tokens = {k1}
  Slots = {s1, s2}
  Tasks = {t1, t2}
  None = None
  SqSize = 2
  CqSize = 2
  MaxGen = 1
  MaxEntries = 4
SYMMETRY Symmetry
INVARIANT SlotsOutliveEntries
INVARIANT NoOneIsStranded
