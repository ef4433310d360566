------------------------------- MODULE Sponsor -------------------------------
(***************************************************************************)
(* Gas sponsorship (sponsor.js, its routes in server.js, withRetry() of    *)
(* retry.js): the platform pays the fee of a transaction that a payer or a *)
(* worker has signed, after comparing it with what the request declares;   *)
(* a withdrawal that it relayed goes to the earnings ledger.  And the      *)
(* sponsored creation of a worker's account, limited per address.          *)
(***************************************************************************)
EXTENDS Integers, FiniteSets

CONSTANTS Signers, Txs, Requests, None,
          Amounts, Price,              \* Price: what was quoted for the question
          SubmitAttempts,              \* HORIZON_RETRY_OPTS.attempts
          OnboardWindow, OnboardMax,   \* ONBOARD_WINDOW_MS, ONBOARD_MAX_PER_WINDOW
          MaxTime, MaxPlatformTxs

SponsorAssumption == {SubmitAttempts, OnboardWindow, OnboardMax, MaxTime} \subseteq Nat

VARIABLES tx,        \* [call, seq] that a signer has signed, or None
          used,      \* the sequence number of a signer's account
          network,   \* transactions handed to Horizon that may still land
          landed,
          stashed,   \* whether the question asked about is still stashed
          request,   \* [tx, call, left, at] of a relay, or None
          ledger,    \* the withdrawals in the earnings ledger, [tx, call]
          now, platformSeq,
          attempts,  \* onboardAttempts: an address's builds, [n, at], the n-th and when
          built,     \* [seq, at] of the onboarding handed out, or None
          onboarded,
          history    \* all builds of an address, for the properties

relayVars == <<tx, used, network, landed, stashed, request, ledger>>
onboardVars == <<now, platformSeq, attempts, built, onboarded, history>>
vars == <<relayVars, onboardVars>>

Call(name, by, amount, to) == [name |-> name, by |-> by, amount |-> amount, to |-> to]
Calls == {Call(n, s, a, None) : n \in {"submit", "stake", "withdraw"}, s \in Signers, a \in Amounts}
         \cup {Call("withdraw_to", s, a, t) : s, t \in Signers, a \in Amounts}
Withdraws(call) == call.name \in {"withdraw", "withdraw_to"}

Init == /\ tx = [x \in Txs |-> None] /\ used = [s \in Signers |-> 0]
        /\ network = {} /\ landed = {} /\ stashed = TRUE
        /\ request = [r \in Requests |-> None] /\ ledger = {}
        /\ now = 0 /\ platformSeq = 0 /\ onboarded = {}
        /\ attempts = [s \in Signers |-> {}] /\ history = [s \in Signers |-> {}]
        /\ built = [s \in Signers |-> None]

----------------------------------------------------------------------------
\* A signer signs one call, or something else, under the next number.
Sign(x, call) ==
  /\ tx' = [tx EXCEPT ![x] = [call |-> call, seq |-> used[call.by] + 1]]
  /\ UNCHANGED <<used, network, landed, stashed, request, ledger>>

\* assertSingleMatchingInvocation().  The mutant forgets the beneficiary.
MutantMatches(x, call) == [tx[x].call EXCEPT !.to = None] = [call EXCEPT !.to = None]
Matches(x, call) == tx[x].call = call

\* A question that is stashed is paid at the price it was quoted.
Quoted(call) == call.name = "submit" => stashed /\ call.amount = Price

Relay(r, x, call) ==
  /\ request[r] = None /\ Matches(x, call) /\ Quoted(call)
  /\ request' = [request EXCEPT ![r] = [tx |-> x, call |-> call, left |-> SubmitAttempts, at |-> "send"]]
  /\ UNCHANGED <<tx, used, network, landed, stashed, ledger>>

\* The stash of a question is dropped when the question settles.
StashDropped == stashed /\ stashed' = FALSE /\ UNCHANGED <<tx, used, network, landed, request, ledger>>

\* One attempt of withRetry(): the call to Horizon is not aborted by its timeout.
Submit(r) ==
  /\ request[r] # None /\ request[r].at = "send"
  /\ network' = network \cup {request[r].tx}
  /\ request' = [request EXCEPT ![r].at = "sent", ![r].left = request[r].left - 1]
  /\ UNCHANGED <<tx, used, landed, stashed, ledger>>

Lands(x) ==
  /\ x \in network \ landed /\ tx[x].seq = used[tx[x].call.by] + 1
  /\ landed' = landed \cup {x} /\ used' = [used EXCEPT ![tx[x].call.by] = used[tx[x].call.by] + 1]
  /\ UNCHANGED <<tx, network, stashed, request, ledger>>

Answered(r, at) == /\ request[r] # None /\ request[r].at = "sent"
                   /\ request' = [request EXCEPT ![r] =
                        [request[r] EXCEPT !.at = at, !.left = IF at = "send" THEN request[r].left ELSE 0]]
                   /\ UNCHANGED <<tx, used, network, landed, stashed, ledger>>

Accepted(r) == Answered(r, IF Withdraws(request[r].call) THEN "record" ELSE "done")
               /\ request[r].tx \in landed

\* A definitive rejection, as when an earlier attempt has landed after all: a
\* 400, which is not tried again.
Rejected(r) == /\ Answered(r, "failed")
               /\ tx[request[r].tx].seq <= used[tx[request[r].tx].call.by]

\* No answer in time, or a status that defaultIsRetryable() lets try again.
Fails(r) == Answered(r, IF request[r].left > 0 THEN "send" ELSE "failed")

\* recordWorkerWithdrawal() under the hash of the fee bump, which is the same
\* for the same inner transaction; its failure is logged only.
RecordWithdrawal(r) ==
  /\ request[r] # None /\ request[r].at = "record"
  /\ \/ ledger' = ledger \cup {[tx |-> request[r].tx, call |-> request[r].call]}
     \/ ledger' = ledger
  /\ request' = [request EXCEPT ![r].at = "done"]
  /\ UNCHANGED <<tx, used, network, landed, stashed>>

RelayNext ==
  /\ \/ StashDropped
     \/ \E x \in Txs : Lands(x) \/ (tx[x] = None /\ \E c \in Calls : Sign(x, c))
     \/ \E r \in Requests : \/ Submit(r) \/ Accepted(r) \/ Rejected(r) \/ Fails(r) \/ RecordWithdrawal(r)
                            \/ \E x \in Txs : tx[x] # None /\ \E c \in Calls : Relay(r, x, c)
  /\ UNCHANGED onboardVars

----------------------------------------------------------------------------
\* assertOnboardRateLimit(): the builds that the window still counts.
Recent(s) == {b \in attempts[s] : now - b.at < OnboardWindow}

\* buildSponsoredOnboardTx(): a transaction of the platform's own account, built
\* outside the signer lock.
BuildSponsoredOnboardTx(s) ==
  LET build == [n |-> Cardinality(history[s]), at |-> now] IN
  /\ Cardinality(Recent(s)) < OnboardMax
  /\ attempts' = [attempts EXCEPT ![s] = Recent(s) \cup {build}]
  /\ history' = [history EXCEPT ![s] = @ \cup {build}]
  /\ built' = [built EXCEPT ![s] = [seq |-> platformSeq + 1, at |-> now]]
  /\ UNCHANGED <<now, platformSeq, onboarded>>

\* finalizeSponsoredOnboardTx(): lands under its sequence number or never.
FinalizeSponsoredOnboardTx(s) ==
  /\ built[s] # None /\ s \notin onboarded /\ built[s].seq = platformSeq + 1
  /\ platformSeq' = platformSeq + 1 /\ onboarded' = onboarded \cup {s}
  /\ UNCHANGED <<now, attempts, built, history>>

\* invokeAsAdmin() and the rest of what the platform signs.
PlatformTx == /\ platformSeq < MaxPlatformTxs /\ platformSeq' = platformSeq + 1
              /\ UNCHANGED <<now, attempts, built, onboarded, history>>

Tick == now < MaxTime /\ now' = now + 1
        /\ UNCHANGED <<platformSeq, attempts, built, onboarded, history>>

OnboardNext ==
  /\ \/ PlatformTx \/ Tick
     \/ \E s \in Signers : BuildSponsoredOnboardTx(s) \/ FinalizeSponsoredOnboardTx(s)
  /\ UNCHANGED relayVars

Next == RelayNext \/ OnboardNext
Spec == Init /\ [][Next]_vars

----------------------------------------------------------------------------
\* The ledger holds a withdrawal only if it landed, once, with the amount and
\* the beneficiary that moved; a payment the platform paid the fee for was of
\* the quoted price.
RelayHolds ==
  /\ \A e \in ledger : e.tx \in landed /\ e.call = tx[e.tx].call
  /\ \A e, f \in ledger : e.tx = f.tx => e = f
  /\ \A x \in landed : tx[x].call.name = "submit" => tx[x].call.amount = Price

\* No stretch of a window's length, wherever it begins, holds more builds of
\* an onboarding transaction for an address than the limit.
Within(s, start) == {b \in history[s] : b.at \in start .. start + OnboardWindow - 1}
OnboardHolds == \A s \in Signers, start \in 0 .. MaxTime : Cardinality(Within(s, start)) <= OnboardMax

\* The inductive invariant: what was built is of the past, and what the window
\* still counts of it is in the map.
OnboardInv ==
  /\ now \in Int /\ OnboardHolds
  /\ DOMAIN attempts = Signers /\ DOMAIN history = Signers
  /\ \A s \in Signers : /\ IsFiniteSet(history[s]) /\ attempts[s] \subseteq history[s]
                        /\ \A b \in history[s] : b.at \in Int /\ b.at <= now
                        /\ \A b \in history[s] : now - b.at < OnboardWindow => b \in attempts[s]

\* The inductive invariant: a request relays the call that its transaction was
\* signed for, whatever is signed next, and Horizon is handed payments of the
\* quoted price alone.
FairPrice(call) == call.name = "submit" => call.amount = Price
Steps == {"send", "sent", "record", "done", "failed"}
SignedTxs == [call : Calls, seq : Int]
RelayTypeOK ==
  /\ tx \in [Txs -> SignedTxs \cup {None}] /\ used \in [Signers -> Int]
  /\ network \subseteq Txs /\ landed \subseteq network /\ stashed \in BOOLEAN
  /\ request \in [Requests -> [tx : Txs, call : Calls, left : Int, at : Steps] \cup {None}]
  /\ ledger \subseteq [tx : Txs, call : Calls]
RelayInv ==
  /\ RelayTypeOK /\ RelayHolds
  /\ \A x \in network : tx[x] # None /\ FairPrice(tx[x].call)
  /\ \A r \in Requests : request[r] # None =>
       /\ tx[request[r].tx] # None /\ tx[request[r].tx].call = request[r].call
       /\ FairPrice(request[r].call)
       /\ request[r].at = "record" => request[r].tx \in landed

\* A withdrawal that landed is in the earnings ledger once its relay is over.
\* Not so when Horizon's answer was lost: the route answers 400 and records
\* nothing (server.js:891-909).
EveryWithdrawalIsRecorded ==
  \A x \in landed : Withdraws(tx[x].call) /\ (\A r \in Requests : request[r] # None => request[r].at \in {"done", "failed"})
                    => \E e \in ledger : e.tx = x
=============================================================================
