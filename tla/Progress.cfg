\* One task and two joiners, two child processes; the bounds of the other parts
\* are in the module.
SPECIFICATION SumSpec
CONSTANTS
  Spawned = {t1}
  Joiners = {j1, j2}
  NoOne = NoOne
  Children = {c1, c2}
INVARIANTS
  JoinedIsWoken
  
  CopiesAll
  SendfileIsExact
PROPERTIES
  PollsRespectHandle
  JoinIsAnswered
  
  
  EndedIsCopied
  
