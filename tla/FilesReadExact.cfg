\* One call on a file of at most two bytes.
SPECIFICATION Spec
CONSTANTS
  Size = 2
  MaxCalls = 1
  Ios = {"completion", "pool", "blocking"}
  Buffers = {"vec", "array"}
  NoCall = NoCall
CHECK_DEADLOCK FALSE
INVARIANT ReadExactFills
