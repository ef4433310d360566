\* An API customer's held question and a payer's instant one; everything may
\* fail: the store, the admin calls, the process.
SPECIFICATION FocusSpec
CONSTANTS
  api = api
  quick = quick
  Questions = {api, quick}
  a1 = a1
  a2 = a2
  c1 = c1
  Asks = {a1, a2}
  Cancels = {c1}
  Held = {api}
  Instant = {quick}
  Metered = {api}
  Api = {api}
  Referred = {}
  ChainFaults = TRUE
  StoreFaults = TRUE
  Crashes = TRUE
INVARIANTS IInv RestoredNeverPaidOut
PROPERTIES RefinesSettlement
CHECK_DEADLOCK FALSE
