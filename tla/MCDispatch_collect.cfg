\* A private question; a pool of two and an outsider, who push and reconnect.
SPECIFICATION FairSpec
CONSTANTS
  w1 = w1
  w2 = w2
  w3 = w3
  None = None
  Workers = {w1, w2, w3}
  Questions = {q}
  Private = {q}
  Pool = {w1, w2}
  Subscribers = {w3}
  QuorumSize = 2
  q = q
  Connections <- OneReconnects
  StoreFaults = TRUE
  Crashes = TRUE
INVARIANTS DispatchInv AllOrNothing QuorumCloses PrivateAnswersFromPool
PROPERTIES ResolvedIsFinal EveryDispatchResolves
CHECK_DEADLOCK FALSE
