SPECIFICATION Spec
SYMMETRY Symmetry
CHECK_DEADLOCK FALSE
CONSTANTS
  Nil = Nil
  MinLife = 2
  FileCheckInterval = 2
  MinBackoff = 1
  MaxBackoff = 2
  MaxSleep = 2
  Second = 1
  Procs = {p1}
  Background = {loop}
  Ptrs = {a1, a2, a3}
  Names <- names
  Clients <- oneUser
  MatchClients <- noClient
  MatchServers <- anyServer
  StoreServers <- oneService
  TGTLives = {4, 8}
  RenewLives = {12}
  TGTFlags <- renewableOnly
  SvcLives = {3}
  Ops = {"entry", "remove", "kinit"}
  FileRaces = TRUE
  Damage = TRUE
  Prompt = TRUE
  FileTimes = {4}
  SkipTimes = {2, 3}
  MaxTime = 6
INVARIANTS TypeOK RenewedInTime
PROPERTIES HeldTGTCached
