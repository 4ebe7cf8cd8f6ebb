SPECIFICATION DaemonFairSpec
CHECK_DEADLOCK FALSE
CONSTANTS
  Nil = Nil
  Main = Main
  Loop = Loop
  Conns = {c1, c2}
  Workers = {c1, c2, Main, Loop}
  Contexts = {k1, k2, k3}
  MaxConcurrent = 2
INVARIANTS DaemonTypeOK ContextsExclusive PoolBounded ReleaseNeverBlocks CloseWaits LoopStopsBeforeClose CleanExit
PROPERTIES ImplementsService ExitsAfterSignal
