\* Nothing fails; the outsider has a push subscription.
SPECIFICATION Spec
CONSTANTS
  w1 = w1
  w2 = w2
  w3 = w3
  None = None
  Workers = {w1, w2, w3}
  Questions = {q}
  Private = {q}
  Pool = {w1, w2}
  Subscribers = {w3}
  QuorumSize = 2
  q = q
  Connections <- OneEach
  StoreFaults = FALSE
  Crashes = FALSE
INVARIANTS PrivateStaysPrivate
CHECK_DEADLOCK FALSE
