SPECIFICATION Spec
SYMMETRY Symmetry
CONSTANTS
  Nil = Nil
  MinLife = 2
  FileCheckInterval = 2
  MinBackoff = 1
  MaxBackoff = 2
  MaxSleep = 3
  Second = 1
  Procs = {p1, p2}
  Background = {}
  Ptrs = {a1, a2, a3}
  Names <- names
  Clients <- oneUser
  MatchClients <- noClient
  MatchServers <- oneService
  StoreServers <- none
  TGTLives = {4}
  RenewLives = {6}
  TGTFlags <- renewableOnly
  SvcLives = {3}
  Ops = {"retrieve"}
  FileRaces = FALSE
  Damage = FALSE
  Prompt = FALSE
  FileTimes = {1, 3}
  SkipTimes = {}
  MaxTime = 4
INVARIANTS HandedOutFresh
