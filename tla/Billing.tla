------------------------------- MODULE Billing -------------------------------
(***************************************************************************)
(* The credit of one API-key customer (billing.js, the API-key branch of   *)
(* POST /oracle and POST /billing/webhook).  Every checkout makes a fresh  *)
(* account, so accounts share nothing and an account has one payment.      *)
(*                                                                         *)
(* Calls of the customer and deliveries of Stripe events run side by side  *)
(* on one counter, each a chain of awaits.  What a call spends is decided  *)
(* on chain between its reservation and its settlement.  Amounts are in    *)
(* one unit of credit: the conversion from cents is exact (billing.js:549).*)
(***************************************************************************)
EXTENDS Integers, FiniteSets, Functions

CONSTANTS
  Calls,        \* POST /oracle requests with the account's key
  Prices,       \* what charge() may turn out to cost
  MaxPrice,     \* the surge-capped price reserved up front
  Deliveries,   \* POST /billing/webhook requests
  Refunds,      \* charge.refunded events of the payment
  Disputes,     \* charge.dispute.created events of the payment
  Amount,       \* event -> its amount in credit
  Attempts,     \* of debitCreditFloored(): 5
  StoreFaults,  \* may a store operation throw?
  Crashes       \* may the process running a request die?

Checkout  == "checkout"
Reversals == Refunds \cup Disputes
Events    == Reversals \cup {Checkout}

ASSUME PricesAssumption ==
  MaxPrice \in Nat /\ Prices \subseteq 1..MaxPrice
ASSUME EventsAssumption ==
  Checkout \notin Reversals /\ Amount \in [Events -> Nat \ {0}]
ASSUME AttemptsAssumption == Attempts \in Nat \ {0}
ASSUME RequestsAssumption ==
  Calls \cap Deliveries = {} /\ IsFiniteSet(Calls) /\ IsFiniteSet(Deliveries)
ASSUME FaultsAssumption == {StoreFaults, Crashes} \subseteq BOOLEAN

VARIABLES
  credit,       \* credit:<accountId>
  seen,         \* stripe-event:<id>
  mapped,       \* stripe-pi:<payment intent>
  reversals,    \* payment-reversals:<accountId>: the deliveries recorded
  pc,           \* the next await of each request
  charged,      \* what charge() took for the call's question
  asked,        \* the question has a job, which its owner may cancel
  returned,     \* its refund gave its price back
  of,           \* the event a delivery delivers
  balance,      \* the balance a reversal is about to take from
  attempt,      \* its attempts so far
  debited,      \* what it took in the end
  listed        \* the list of reversals it is about to write back

storeVars    == <<credit, seen, mapped, reversals>>
callVars     == <<charged, asked, returned>>
deliveryVars == <<balance, attempt, debited, listed>>
vars == <<credit, seen, mapped, reversals, pc, charged, asked, returned,
          of, balance, attempt, debited, listed>>

Requests == Calls \cup Deliveries

CallSteps     == {"charge", "create", "settle", "give_back"}
DeliverySteps == {"map", "credit", "lookup", "read", "take", "list", "record"}
Active        == CallSteps \cup DeliverySteps

TypeOK ==
  /\ credit \in Int
  /\ seen \subseteq Events
  /\ mapped \in BOOLEAN
  /\ reversals \subseteq Deliveries
  /\ pc \in [Requests -> Active \cup {"idle", "refused", "answered", "failed",
                                      "applied", "ignored", "dead"}]
  /\ charged \in [Calls -> Prices \cup {0}]
  /\ asked \in [Calls -> BOOLEAN]
  /\ returned \in [Calls -> BOOLEAN]
  /\ of \in [Deliveries -> Events]
  /\ balance \in [Deliveries -> Int]
  /\ attempt \in [Deliveries -> 0..Attempts]
  /\ debited \in [Deliveries -> Nat]
  /\ listed \in [Deliveries -> SUBSET Deliveries]

Init ==
  /\ credit = 0
  /\ seen = {}
  /\ mapped = FALSE
  /\ reversals = {}
  /\ pc = [r \in Requests |-> "idle"]
  /\ charged = [c \in Calls |-> 0]
  /\ asked = [c \in Calls |-> FALSE]
  /\ returned = [c \in Calls |-> FALSE]
  /\ of \in [Deliveries -> Events]
  /\ balance = [d \in Deliveries |-> 0]
  /\ attempt = [d \in Deliveries |-> 0]
  /\ debited = [d \in Deliveries |-> 0]
  /\ listed = [d \in Deliveries |-> {}]

Goto(r, step) == pc' = [pc EXCEPT ![r] = step]
At(r, step)   == pc[r] = step

-----------------------------------------------------------------------------
(* An API call *)

\* Mutant: the balance is looked at in one step and lowered unconditionally.
ReserveUnconditionally(c) ==
  /\ At(c, "idle")
  /\ IF credit > 0
       THEN credit' = credit - MaxPrice /\ Goto(c, "charge")
       ELSE UNCHANGED credit /\ Goto(c, "refused")
  /\ UNCHANGED <<seen, mapped, reversals, callVars, of, deliveryVars>>

\* reserveCredit(): decrIfAtLeast() is atomic in the store.
ReserveCredit(c) ==
  /\ At(c, "idle")
  /\ IF credit >= MaxPrice
       THEN credit' = credit - MaxPrice /\ Goto(c, "charge")
       ELSE UNCHANGED credit /\ Goto(c, "refused")
  /\ UNCHANGED <<seen, mapped, reversals, callVars, of, deliveryVars>>

\* chargeBalance() succeeds, fails, or is given up on and lands all the same.
Charge(c) ==
  /\ At(c, "charge")
  /\ \/ \E price \in Prices :
          /\ charged' = [charged EXCEPT ![c] = price]
          /\ Goto(c, "create") \/ Goto(c, "give_back")
     \/ UNCHANGED charged /\ Goto(c, "give_back")
  /\ UNCHANGED <<storeVars, asked, returned, of, deliveryVars>>

\* stashQuestion() and startFulfillment(): the question is on its way, or one of
\* their store operations throws, before or after the job record was written.
CreateQuestion(c) ==
  /\ At(c, "create")
  /\ \/ Goto(c, "settle") /\ asked' = [asked EXCEPT ![c] = TRUE]
     \/ /\ StoreFaults
        /\ Goto(c, "give_back")
        /\ \E created \in BOOLEAN : asked' = [asked EXCEPT ![c] = created]
  /\ UNCHANGED <<storeVars, charged, returned, of, deliveryVars>>

\* Mutant: the price is given back instead of what is left of the reservation.
SettleWithPrice(c) ==
  /\ At(c, "settle")
  /\ credit' = credit + charged[c]
  /\ Goto(c, "answered")
  /\ UNCHANGED <<seen, mapped, reversals, callVars, of, deliveryVars>>

\* settleReservation() with the actual price, in the handler's try: when it
\* throws, the catch gives the whole reservation back.
SettleReservation(c) ==
  /\ At(c, "settle")
  /\ \/ credit' = credit + (MaxPrice - charged[c]) /\ Goto(c, "answered")
     \/ StoreFaults /\ UNCHANGED credit /\ Goto(c, "give_back")
  /\ UNCHANGED <<seen, mapped, reversals, callVars, of, deliveryVars>>

\* settleReservation(..., 0) in the catch.  If this one throws there is nobody
\* left to catch it, and Node ends the process.
GiveBack(c) ==
  /\ At(c, "give_back")
  /\ \/ credit' = credit + MaxPrice /\ Goto(c, "failed")
     \/ StoreFaults /\ UNCHANGED credit /\ Goto(c, "dead")
  /\ UNCHANGED <<seen, mapped, reversals, callVars, of, deliveryVars>>

\* restoreCredit(): the question is cancelled or refused dispatch, once
\* (RestoredOnce of Oracle), perhaps before its call has settled.
RestoreCredit(c) ==
  /\ asked[c] /\ ~returned[c]
  /\ credit' = credit + charged[c]
  /\ returned' = [returned EXCEPT ![c] = TRUE]
  /\ UNCHANGED <<seen, mapped, reversals, pc, charged, asked, of, deliveryVars>>

-----------------------------------------------------------------------------
(* A delivery of a Stripe event *)

\* Mutant: a plain existence check, with the mark written after the event.
ReceiveUnmarked(d) ==
  /\ At(d, "idle")
  /\ IF of[d] \in seen
       THEN Goto(d, "ignored")
       ELSE Goto(d, IF of[d] = Checkout THEN "map" ELSE "lookup")
  /\ UNCHANGED <<storeVars, callVars, of, deliveryVars>>

\* handleStripeWebhook(): setNX() lets the first delivery through.
Receive(d) ==
  /\ At(d, "idle")
  /\ IF of[d] \in seen
       THEN Goto(d, "ignored") /\ UNCHANGED seen
       ELSE /\ seen' = seen \cup {of[d]}
            /\ Goto(d, IF of[d] = Checkout THEN "map" ELSE "lookup")
  /\ UNCHANGED <<credit, mapped, reversals, callVars, of, deliveryVars>>

\* creditCheckout()
MapPayment(d) ==
  /\ At(d, "map")
  /\ mapped' = TRUE
  /\ Goto(d, "credit")
  /\ UNCHANGED <<credit, seen, reversals, callVars, of, deliveryVars>>

CreditCheckout(d) ==
  /\ At(d, "credit")
  /\ credit' = credit + Amount[Checkout]
  /\ Goto(d, "applied")
  /\ UNCHANGED <<seen, mapped, reversals, callVars, of, deliveryVars>>

\* reverseCharge(): an event that overtook its checkout is logged and dropped.
Lookup(d) ==
  /\ At(d, "lookup")
  /\ Goto(d, IF mapped THEN "read" ELSE "ignored")
  /\ UNCHANGED <<storeVars, callVars, of, deliveryVars>>

Take(d) == IF balance[d] < Amount[of[d]] THEN balance[d] ELSE Amount[of[d]]

\* debitCreditFloored(): read, then take what is there if it still is.
ReadBalance(d) ==
  /\ At(d, "read")
  /\ balance' = [balance EXCEPT ![d] = credit]
  /\ Goto(d, IF credit > 0 THEN "take" ELSE "list")
  /\ UNCHANGED <<storeVars, callVars, of, attempt, debited, listed>>

\* Mutants: the race is run until it is won; what was read is taken without asking
\* whether it is still there.
TakeForever(d) ==
  /\ At(d, "take")
  /\ IF credit >= Take(d)
       THEN credit' = credit - Take(d) /\ Goto(d, "list") /\ UNCHANGED attempt
       ELSE /\ attempt' = [attempt EXCEPT ![d] = @ + 1]
            /\ Goto(d, "read") /\ UNCHANGED credit
  /\ UNCHANGED <<seen, mapped, reversals, callVars, of, balance, debited, listed>>

TakeStale(d) ==
  /\ At(d, "take")
  /\ credit' = credit - Take(d)
  /\ debited' = [debited EXCEPT ![d] = Take(d)]
  /\ Goto(d, "list")
  /\ UNCHANGED <<seen, mapped, reversals, callVars, of, balance, attempt, listed>>

TakeCredit(d) ==
  /\ At(d, "take")
  /\ IF credit >= Take(d)
       THEN /\ credit' = credit - Take(d)
            /\ debited' = [debited EXCEPT ![d] = Take(d)]
            /\ Goto(d, "list")
            /\ UNCHANGED attempt
       ELSE /\ attempt' = [attempt EXCEPT ![d] = @ + 1]
            /\ Goto(d, IF attempt[d] + 1 < Attempts THEN "read" ELSE "list")
            /\ UNCHANGED <<credit, debited>>
  /\ balance' = [balance EXCEPT ![d] = 0]
  /\ UNCHANGED <<seen, mapped, reversals, callVars, of, listed>>

\* recordPaymentReversal(): the list is read, then written with one more entry.
ListReversals(d) ==
  /\ At(d, "list")
  /\ listed' = [listed EXCEPT ![d] = reversals]
  /\ Goto(d, "record")
  /\ UNCHANGED <<storeVars, callVars, of, balance, attempt, debited>>

RecordReversal(d) ==
  /\ At(d, "record")
  /\ reversals' = listed[d] \cup {d}
  /\ listed' = [listed EXCEPT ![d] = {}]
  /\ Goto(d, "applied")
  /\ UNCHANGED <<credit, seen, mapped, callVars, of, balance, attempt, debited>>

-----------------------------------------------------------------------------
\* The local variables of a request that ends.
Forget(r) ==
  /\ balance' = [balance EXCEPT ![r] = 0]
  /\ listed' = [listed EXCEPT ![r] = {}]

\* A store operation of a delivery throws: it is answered 400, and Stripe will
\* deliver the event again.
DeliveryThrows(d) ==
  /\ StoreFaults
  /\ pc[d] \in DeliverySteps
  /\ Goto(d, "failed")
  /\ Forget(d)
  /\ UNCHANGED <<storeVars, callVars, of, attempt, debited>>

Crash(r) ==
  /\ Crashes
  /\ pc[r] \in Active
  /\ Goto(r, "dead")
  /\ Forget(r)
  /\ UNCHANGED <<storeVars, callVars, of, attempt, debited>>

Next ==
  \/ \E c \in Calls :
       \/ ReserveCredit(c) \/ Charge(c) \/ CreateQuestion(c)
       \/ SettleReservation(c) \/ GiveBack(c) \/ RestoreCredit(c)
  \/ \E d \in Deliveries :
       \/ Receive(d) \/ MapPayment(d) \/ CreditCheckout(d) \/ Lookup(d)
       \/ ReadBalance(d) \/ TakeCredit(d) \/ ListReversals(d) \/ RecordReversal(d)
       \/ DeliveryThrows(d)
  \/ \E r \in Requests : Crash(r)

Spec == Init /\ [][Next]_vars

-----------------------------------------------------------------------------
(* Properties *)

\* What a call costs the account: its reservation until it is settled or given
\* back, less what a refund of its question returned.
Cost(c) ==
  LET kept == CASE pc[c] \in {"idle", "refused", "failed"} -> 0
                [] pc[c] = "answered"                      -> charged[c]
                [] OTHER                                   -> MaxPrice
  IN  kept - (IF returned[c] THEN charged[c] ELSE 0)
Costs == [c \in Calls |-> Cost(c)]

PaidIn == IF \E d \in Deliveries : of[d] = Checkout /\ At(d, "applied")
            THEN Amount[Checkout] ELSE 0

\* Safety: the books balance.  The credit is the payment, once however often and
\* concurrently it is delivered, less what every call costs and every reversal
\* took (billing.js:119-150, 521-616).
Accounted == credit = PaidIn - SumFunction(Costs) - SumFunction(debited)

\* Safety: "the ledger can never go negative" (billing.js:127), with calls,
\* refunds of questions and reversals all at work on it.
NeverNegative == credit >= 0

\* Safety: a reversal debits once, however Stripe repeats it (billing.js:526-529).
DebitedOnce ==
  \A d, e \in Deliveries :
    d # e /\ of[d] = of[e] /\ debited[d] > 0 => debited[e] = 0

\* A delivery that is, or was, the one its event let through.
Processing(d) == pc[d] \in DeliverySteps \cup {"applied"} \/ debited[d] > 0

\* Safety: the inductive invariant of the properties above.  Processing an event
\* marks it first, only a checkout is paid in, a race is entered only with an
\* attempt left, and a question is refunded only after it was asked.
LedgerInv ==
  /\ TypeOK
  /\ NeverNegative
  /\ \A d \in Deliveries :
       /\ balance[d] >= 0
       /\ pc[d] \in {"idle", "lookup", "read", "take"} => attempt[d] < Attempts
       /\ pc[d] \in {"idle", "lookup", "read", "take"} => debited[d] = 0
       /\ Processing(d) => of[d] \in seen
       /\ pc[d] \in {"map", "credit"} => of[d] = Checkout
       /\ pc[d] \in {"lookup", "read", "take", "list", "record"} => of[d] # Checkout
  /\ \A d, e \in Deliveries :
       Processing(d) /\ Processing(e) /\ of[d] = of[e] => d = e
  /\ \A c \in Calls :
       /\ returned[c] => asked[c]
       /\ pc[c] \in {"idle", "refused", "charge", "create"} => ~asked[c]

\* Refuted by double_clawback: billing.js:570, a reversal "claws back credit for
\* a refunded or disputed charge".  Each event of a charge refunded in parts
\* carries the cumulative amount (billing.js:585); the last is all that was
\* refunded, so together they should never take more.
ClawsBackWhatWasRefunded ==
  LET refunds == {d \in Deliveries : of[d] \in Refunds}
  IN  \A last \in Refunds :
        (\A d \in refunds : debited[d] > 0 => Amount[of[d]] <= Amount[last])
          => SumFunctionOnSet(debited, refunds) <= Amount[last]
=============================================================================
