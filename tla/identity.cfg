SPECIFICATION Spec
SYMMETRY Symmetry
CONSTANTS
  Nil = Nil
  MinLife = 1
  FileCheckInterval = 1
  MinBackoff = 1
  MaxBackoff = 2
  MaxSleep = 3
  Second = 1
  Procs = {p1, p2}
  Background = {}
  Ptrs = {a1, a2, a3}
  Names <- names
  Clients <- twoUsers
  MatchClients <- noClient
  MatchServers <- farOrTGT
  StoreServers <- none
  TGTLives = {2}
  RenewLives = {4}
  TGTFlags <- renewableOnly
  SvcLives = {1}
  Ops = {"retrieve", "list", "initialize", "store"}
  FileRaces = FALSE
  Damage = FALSE
  Prompt = FALSE
  FileTimes = {1}
  SkipTimes = {}
  MaxTime = 1
INVARIANTS TGTMatchesPrincipal OneTGTCached AnswerForCurrentPrincipal TicketsNotRenewable ListingShowsHeldTGT NoTGTKeyInReplies
PROPERTIES HeldTGTCached
