\* A payer's held question, one without an undo window and an API customer's:
\* duplicate POSTs, two cancels and the hold timer; admin calls and the process
\* may fail, the store does not.
SPECIFICATION FocusSpec
CONSTANTS
  held = held
  prompt = prompt
  api = api
  Questions = {held, prompt, api}
  a1 = a1
  a2 = a2
  c1 = c1
  c2 = c2
  Asks = {a1, a2}
  Cancels = {c1, c2}
  Held = {held, api}
  Instant = {}
  Metered = {api}
  Api = {api}
  Referred = {}
  ChainFaults = TRUE
  StoreFaults = FALSE
  Crashes = TRUE
SYMMETRY Interchangeable
INVARIANTS OnceInv OneDriver CancelledNeverAnswered OutcomeMatchesChain PayoutWasCommitted ReputationOnce RestoredOnce
PROPERTIES SettledIsFinal
CHECK_DEADLOCK FALSE
