\* Two descriptors that take turns on one token, a reader and a writer.
SPECIFICATION FairSpec
CONSTANTS
  Handles = {h1, h2}
  Tokens = {k1}
  Tasks = {t1, t2}
  None = None
  Interests <- MCInterests
  Events = 1
INVARIANT RegistrationsAreSound
PROPERTY ReadyIsServed
