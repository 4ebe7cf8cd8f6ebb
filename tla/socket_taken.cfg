SPECIFICATION SharedSpec
CHECK_DEADLOCK FALSE
CONSTANTS
  Nil = Nil
  Main = Main
  Loop = Loop
  Conns = {c1}
  Workers = {c1, Main, Loop}
  Contexts = {k1, k2}
  MaxConcurrent = 2
PROPERTIES RemovesOnlyStale
