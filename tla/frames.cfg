CONSTANTS
  Channels = {c1}
  Seqs = {1, 2}
  Frames <- MCFrames
  Products <- MCProducts
  Garbage = {0, 1}
  MaxFrames = 6
  MaxCauses = 3
SPECIFICATION ReadersSpec
INVARIANTS TypeOK HandedOverIntact ProductsAccounted MissesExplained
\* The input may fall silent; the readers then wait.
CHECK_DEADLOCK FALSE
