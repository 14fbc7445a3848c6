\* Buffers of two bytes, ends that take one, and two bytes from each peer.
SPECIFICATION Spec
CONSTANTS
  Chunk = 2
  Room = 1
  MaxBytes = 2
  Nobody = Nobody
CHECK_DEADLOCK FALSE
PROPERTY DataIsForwarded
