SPECIFICATION FairSpec
CONSTANTS
  Nil = Nil
  MinLife = 1
  FileCheckInterval = 2
  MinBackoff = 1
  MaxBackoff = 2
  MaxSleep = 3
  Second = 1
  Procs = {p1, p2}
  Background = {}
  Ptrs = {a1, a2}
  Names <- names
  Clients <- oneUser
  MatchClients <- noClient
  MatchServers <- hostOrConf
  StoreServers <- none
  TGTLives = {2}
  RenewLives = {3}
  TGTFlags <- renewableOnly
  SvcLives = {2}
  Ops = {"retrieve", "destroy"}
  FileRaces = FALSE
  Damage = FALSE
  Prompt = FALSE
  FileTimes = {}
  SkipTimes = {}
  MaxTime = 1
PROPERTIES OperationsReturn RenewalEnds
