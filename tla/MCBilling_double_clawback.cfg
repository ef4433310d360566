\* A checkout, refunded in two parts; nothing fails and nobody spends.
SPECIFICATION Spec
CONSTANTS
  c1 = c1
  c2 = c2
  d1 = d1
  d2 = d2
  d3 = d3
  refund1 = refund1
  refund2 = refund2
  dispute1 = dispute1
  Deliveries = {d1, d2, d3}
  Prices = {1, 2}
  MaxPrice = 2
  Amount <- MCAmount
  Attempts = 2
  Refunds = {refund1, refund2}
  Disputes = {}
  Calls = {}
  StoreFaults = FALSE
  Crashes = FALSE
INVARIANT ClawsBackWhatWasRefunded
CHECK_DEADLOCK FALSE
