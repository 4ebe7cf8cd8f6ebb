SPECIFICATION CallsSpec
CONSTANTS
  Nil = Nil
  Callers = {c1, c2, c3}
  Symbols <- MCSymbols
  MatchCreds <- MCMatchCreds
  DefaultRealm <- MCDefaultRealm
  Keys <- MCKeys
  Flights = {f1, f2, f3}
  Values = {v1, v2}
SYMMETRY Symmetry
INVARIANTS TypeOK OneRunPerKey AnswersAreComplete WaitersHaveALeader NoChangeInFlight SharedAnswerFits NoWaitCycle
