\* An API customer's instant question, and nothing fails.
SPECIFICATION Spec
CONSTANTS
  api = api
  Questions = {api}
  a1 = a1
  Asks = {a1}
  Cancels = {}
  Held = {}
  Instant = {api}
  Metered = {api}
  Api = {api}
  Referred = {}
  ChainFaults = FALSE
  StoreFaults = FALSE
  Crashes = FALSE
INVARIANTS RefundedCustomerIsCredited
CHECK_DEADLOCK FALSE
