\* A held question whose payer came with a referral code, and nothing fails.
SPECIFICATION Spec
CONSTANTS
  held = held
  Questions = {held}
  a1 = a1
  Asks = {a1}
  Cancels = {}
  Held = {held}
  Instant = {}
  Metered = {}
  Api = {}
  Referred = {held}
  ChainFaults = FALSE
  StoreFaults = FALSE
  Crashes = FALSE
INVARIANTS HoldHasTimer
CHECK_DEADLOCK FALSE
