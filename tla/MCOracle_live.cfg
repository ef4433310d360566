\* A held question that two POSTs and a cancel fight over and an instant one;
\* admin calls may all fail, the store and the process do not.
SPECIFICATION FocusFair
CONSTANTS
  held = held
  quick = quick
  Questions = {held, quick}
  a1 = a1
  a2 = a2
  c1 = c1
  Asks = {a1, a2}
  Cancels = {c1}
  Held = {held}
  Instant = {quick}
  Metered = {}
  Api = {}
  Referred = {}
  ChainFaults = TRUE
  StoreFaults = FALSE
  Crashes = FALSE
PROPERTIES ClaimedSettles
CHECK_DEADLOCK FALSE
