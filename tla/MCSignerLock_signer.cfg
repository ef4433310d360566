\* Two primaries, a canary, one endpoint; an attempt is waited for one tick, a lease
\* lasts three, and a call waits two for it, so that it may give up.
SPECIFICATION BusyFair
CONSTANTS
  p1 = p1
  p2 = p2
  canary = canary
  c1 = c1
  c2 = c2
  c3 = c3
  c4 = c4
  q1 = q1
  None = None
  Anyone = Anyone
  Mortal = {p1}
  Instances = {p1, p2, canary}
  Canaries = {canary}
  Calls = {c1, c2, c3, c4}
  Home <- CallsAtHome
  Questions = {q1}
  Target <- CallTargets
  Urls = 1
  AttemptTimeout = 1
  Backoff = 0
  LeaseTtl = 3
  LockWait = 2
INVARIANTS OneSigner SignerInv SharedSequenceIsAdrift SuccessIsOwnSettlement
PROPERTIES ComesToRest
CHECK_DEADLOCK FALSE
