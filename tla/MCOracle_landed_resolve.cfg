\* The store fails once resolve() has landed.
SPECIFICATION Spec
CONSTANTS
  held = held
  Questions = {held}
  a1 = a1
  Asks = {a1}
  Cancels = {}
  Held = {}
  Instant = {}
  Metered = {}
  Api = {}
  Referred = {}
  ChainFaults = FALSE
  StoreFaults = TRUE
  Crashes = FALSE
INVARIANTS LandedResolveStaysResolved
CHECK_DEADLOCK FALSE
