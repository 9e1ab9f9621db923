CONSTANTS
  Channels = {c1}
  Seqs = {1, 2}
  Frames <- MCWellFormed
  Garbage = {0, 1}
  MaxFrames = 5
SPECIFICATION Spec
INVARIANT NoneUnreported
\* The input may fall silent; the readers then wait.
CHECK_DEADLOCK FALSE
