\* Two calls, a checkout, a refund and a dispute or repeats of them; the store
\* and the process may fail.
SPECIFICATION Spec
CONSTANTS
  c1 = c1
  c2 = c2
  d1 = d1
  d2 = d2
  d3 = d3
  refund1 = refund1
  refund2 = refund2
  dispute1 = dispute1
  Deliveries = {d1, d2, d3}
  Prices = {1, 2}
  MaxPrice = 2
  Amount <- MCAmount
  Attempts = 2
  Refunds = {refund1}
  Disputes = {dispute1}
  Calls = {c1, c2}
  StoreFaults = TRUE
  Crashes = TRUE
INVARIANTS Accounted NeverNegative DebitedOnce LedgerInv
SYMMETRY Symmetry
CHECK_DEADLOCK FALSE
