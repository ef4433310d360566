# A verification of the Arbiter backend

Arbiter is a paid question-and-answer oracle. A customer puts USDC into the escrow of a
Soroban contract, online workers (or, on the instant tier, an LLM) answer, the backend
reconciles the answers and either `resolve()`s the escrow to the workers or `refund()`s
it. This directory models what the backend does about money, questions, workers and
records: TLA+ modules translated from `src/src/*.js` and the client libraries, TLC
configurations that check them on small instances, and TLAPS proofs of the most
important properties for every instance. Source references below are relative to
`src/src/`.

    tlc -workers 2 -config MCOracle_races.cfg MCOracle     # one run
    tlapm OracleProofs.tla                                 # proofs

## The system

| Component | State | Operations | Correct when |
|---|---|---|---|
| Question lifecycle (`oracle.js`, `undoWindow.js`, `metered.js`, `pendingQuestions.js`) | stash, claim and undo-decision counters, hold timers, the promise chain of a fulfilment | quote, verify, claim, hold, cancel, dispatch or maintenance refund, reconcile, settle | one driver per question; a cancel excludes a dispatch; the record says what the chain did; credit goes back once, and only for returned escrow |
| Job records (`jobs.js`) | job record, bounded indexes, review queue, escalations | create, update, claim, mark/approve review | no lost transition; terminal is final; counted once |
| Dispatch (`dispatch.js`, `push.js`) | live SSE connections, presence hash, supply samples, answer collectors, push subscriptions | connect, close, select, broadcast, answer, time out, sample | a dispatch resolves once, with all accepted answers; private stays private; routed to somebody fit if anybody is online |
| API-key billing (`billing.js`, `paymentReversals.js`) | credit balance, event marks, payment mapping, reversals, keys | reserve, settle, restore, checkout, refund, dispute, rotate | balance never negative; books balance; events apply once; one live key |
| Contract access (`stellarClient.js`, `canary.js`, `retry.js`) | signer lease, serial queue, drain counters | sign and send, retry, fail over, drain | one signer at a time; nothing abandoned by a drain |
| Gas sponsorship (`sponsor.js`, routes in `server.js`) | onboarding attempts, relayed transactions | match, relay, onboard | lands what was signed for, once; within the limit |
| Recovery (`disasterRecovery.js`) | none of its own | page through pending questions, classify, refund | never refunds a question a live process drives |
| Stores (`store.js`, `replicaStore.js`, `rateLimit.js`) | keys with TTLs, counters | get, set, incr, setNX, decrIfAtLeast, hsetnx, replica reads | the documented atomicity in both stores; how far a limit can be exceeded is known |
| Maintenance windows | list of windows | add, remove, current pause | the pause told is the pause kept; the limit holds |
| Consensus, votes, screen (`consensus.js`, `vote.js`, `answerFilter.js`, `reconcile.js`) | none (pure) | verdict, confidence, fast path | no other answer had more backers |
| Pricing (`pricing.js`) | supply history | surge, discount, escalation, timeout | monotone in supply; a timeout leaves half of the rounds time |
| Reputation, badges, leaderboard | a record per worker | settle, rank, award | nothing earned is lost unless settlements overlap |
| Collusion (`collusion.js`) | counters, flags, suspensions | observe, score, flag, review | a pair under review stays out of routing |
| Payouts to workers (`autoWithdraw.js`, `earnings.js`, `taxReport.js`) | settings, lock, prepared transaction, ledger lists | configure, check, record, report | one preparer; each payout counted once and reportable |
| Teams, webhooks, referrals, pools, payer index | a record or list per owner and an index of owners | read-modify-write | ownership, limits and indexes survive concurrent edits |
| Sessions, keys, gates (`workerAuth.js`, `apiKeyAuth.js`, `adminAuth.js`, `canary.js`, `securityPosture.js`, `faultInjection.js`) | challenges, revocations, key records | log in, revoke, rotate, refuse | one session per challenge; revoked stays revoked; a canary only reads |
| Provenance | record and hash per question | commit, serve, verify | what verifies is what was committed and landed |
| Statistics, probes, alerts | counters, caches, gauges | settle, read, scan, poll | totals count each paid question once; an alert per fall |
| Client libraries (`sdk/`, `mcp-server/`) | attempts of a call | send, time out, retry, poll | one ask is charged once |

`PROJECT.json` lists every component with its status.

They interact by function calls inside one Node process, through a store that
several processes may share, and through the contract, which anyone can call.
`POST /oracle` verifies the payment and calls `startFulfillment()`; the winner
of `claimJob()` arms a hold timer or dispatches; `dispatchAndCollect()` returns
the answers; `settleResolved()`/`settleRefunded()` send admin calls and write the
job record, and reputation, earnings, collusion, webhooks and statistics are told
afterwards; API-key calls reserve and settle credit around all of that, and
refunds restore it; Stripe events change the same balance from outside. Each of the
components that are told keeps keys of its own.

What is hard about it: JavaScript interleaves at every `await`, so each handler
is a chain of atomic steps, and nearly every record is read, changed and written
back with an await in between; a process may die between two steps and its timers
die with it; admin calls time out and land later; third parties may
`refund_timeout()` at any moment; a store operation may throw in places whose
`catch` was written for something else; Stripe repeats and reorders events; clients
give up and send again what is still being worked on.

## Modules

| Module | What it is |
|---|---|
| `Settlement` | the promise about one payment: escrow goes once, to one side; withdrawn questions are never asked; the record never lies |
| `Oracle` | the lifecycle of questions as the code runs it, with its properties |
| `OracleInv` | the inductive invariants of `Oracle` |
| `OracleProofs` | proofs: invariance, safety, refinement of `Settlement` |
| `Dispatch` | one instance's registry, broadcast and answer collection |
| `DispatchProofs` | proofs: all answers or none, the quorum, the pool, resolved is final |
| `Billing` | one API-key account's ledger under calls and Stripe events |
| `BillingProofs` | sums over finite sets; proofs: the ledger never goes negative, debits once and balances |
| `SignerLock` | the serial queue, the signer lease, and the attempts of an admin call |
| `SignerLockProofs` | proofs: one signer, who may share a sequence number, success is one's own |
| `Teams` | a team's record, the lists of memberships and their in-process lock |
| `Webhooks` | registrations, deliveries and their retries |
| `Referrals` | minting, redeeming and crediting codes |
| `Withdraw` | automatic withdrawals: settings, lease, the prepared transaction |
| `Earnings` | the earnings ledger and what tax reports read of it |
| `Sponsor` | the relay of signed transactions and sponsored onboarding |
| `Verdict` | payers' rules, the screen and the votes |
| `Windows` | maintenance windows and the pause |
| `Pricing` | prices, reservations and timeouts |
| `Reputation` | outcomes, activity, badges and ranks |
| `Collusion` | pair counters, flags, suspensions and reviews |
| `Supply` | presence across instances, supply samples, target selection |
| `Indexes` | the six families of "one list per address, one index of addresses" |
| `Jobs` | patches, reviews and escalations of one job record |
| `Reports` | the totals, a payer's spend, the sandbox |
| `Stores` | both key-value stores, the limits on them, replica reads |
| `Access` | challenges, sessions, secret and key rotation |
| `Gates` | start-up checks, canary gate, fault drills, admin and session guards |
| `Recovery` | the sweep next to a live, draining or dead instance |
| `Probes` | the job scan, dependency probes, the treasury watch |
| `Clients` | the three client libraries against the two routes they use |
| `Provenance` | the record of a verdict and its verifier |
| `MCOracle`, `MCDispatch`, `MCBilling`, `MCSignerLock`, `MCRecords` | instances for TLC |
| `AccountsProofs` | proofs about `Teams`, `Access`, `Gates`, `Clients`, `Stores`, `Windows` and `Indexes` |
| `PayoutsProofs` | proofs about `Referrals`, `Withdraw`, `Sponsor`, `Provenance`, `Reputation`, `Reports` and `Earnings` |
| `BackgroundProofs` | proofs about `Webhooks`, `Jobs`, `Recovery`, `Supply`, `Collusion` and `Probes` |
| `RecordsProofs` | proofs: what is proved of the components holds in `MCRecords` |

An action is the code between two awaits, with everything it changes; `pc`, `at`
or `step` of a request is its next await. `IF` in an action is the code's early return.
Where the data does not matter (the text, the verdict, the price) the model takes any
value the code could produce. Variables said to be *history* are read by properties
only. Definitions named *Mutant* are plausible bugs next to the code they break;
each property is violated by one.

**Oracle.** An `Asks` request is a `POST /oracle` (first the metered charge, or
the check of the payer's own `submit()`), then the hold timer, then the
fulfilment it starts; a `Cancels` request is a cancel. `chain` and `mempool` are
the contract's view of a question and the admin calls that were given up on but
may still land; `stash`, `claimed`, `decision`, `status`, `outcome` are the
store's; `dispatched` says the question was put to workers; `provenance`,
`reputation` and `restored` count the side effects. `RefundTimeout`,
`LandAbandoned`, `StashExpires`, `Crash` and `StoreThrows` are the environment;
`SettleReservation` is the write of the meter after the handler has started the
question (`server.js:397`); if it throws the handler gives the price of a running
question back, and `metering` tells the properties that it did.
The `catch` blocks are `CatchOf`: an exception in the `try` of `settleResolved()`
goes to `Recheck`, one in a fulfilment to `RecordCrash`, any other ends the request.

**Dispatch.** A connection is a worker and a number; the registry maps a worker
to its newest connection, and `Close` deletes by worker as the code does. The route
awaits before it registers a response and listens for its end only then
(`server.js:1240-1272`): a connection first arrives (`Connect`), and one that is
dropped before `Register` stays registered and unheard. One collector per question;
`Finish` is the `finish()` closure with its `done` flag. `NotifySubscribers` is the
push stage and `BroadcastFails` its exceptions.

**Billing.** `Calls` reserve, charge and settle; `Deliveries` are webhook requests,
each for one event, so a repeated event is two deliveries of it. Amounts are in
one unit of credit: the code's conversion from cents is exact.

**SignerLock.** A call goes from its instance's queue to the lease and through
attempts `<<c, u, t>>`, the `t`-th at endpoint `u`. `Current` is the attempt the
call waits for; one that timed out is `adrift` and runs on, since the function given
to `withTimeout()` ignores its signal. Time is in ticks: timers are due before the
next one (`Quiet`), the network answers whenever it likes. `Land`, `RefundTimeout`,
`Crash` and a `ReleaseLease` that does nothing are the environment. Two things are
assumed: `setNX` answers within the tick, and the event loop is not blocked for one.
`AdminCall` of `Oracle` is one such call, seen from the question.

**The records.** The modules from `Teams` to `Provenance` follow one pattern: a
record per variable, named after its key in the store, and a function from requests
to where each one is and what it read. A request that wrote a record back after
another one had (a lost update) is visible in a history variable (`raced`, `torn`,
`cut`, `overlapped`, `crossed`, `outlived`, `lost`), and the property says that only
then something may be missing. The code has these races, and such a property does not
catch them: it shows that nothing is lost in any other way, and that the race is
what it takes. A few modules need more than that.

- `Teams`: `EnterLock` and the writes that follow are the promise queue of
  `withMembershipLock()`; the team's own record has no such guard. With Redis every
  call has its own copy, and a stale one may overwrite the record. The memory store
  hands out the object it stores (`store.js:28-36`), so all calls read and change one
  object before any of them writes (`shared`). `OneOwner` says that every copy has one
  owner, unless the object is shared and a call that was its owner's when it was
  checked changed roles after it no longer was (`crossed`).
- `Webhooks`: the address is looked up when the connection is made
  (`GuardedLookup`), and the answer may differ from the one at registration.
- `Verdict`: a text is the features the code looks at, numbers count tenths;
  `IsLargest` is the reference definition the recursive or sorted choices of the code
  are compared with, over every multiset of submissions of four workers.
- `Provenance`: `reconcile()` counts answers as one if they are worded alike, or if a
  payer's tolerance takes them for one; which answers those are is any merging of
  them (`Merges`). The LLM may be the first provider or its stand-in, and says what it
  likes. The verifier knows only exact votes (`Underivable` are the records it
  cannot re-derive). What is served is any record with one field changed.
- `Stores`: `Memory*` and `Redis*` are the same commands in the two stores; the
  Redis counter gets its expiry by a second command, and a client may die before it.
  `reserved` counts what each grants of an hour's budget.
- `Supply`: `queue` holds the commands an instance has sent to Redis without
  waiting; a crash may leave them to run. `selectTargets()` asks about one worker
  after the other while they come, go and are suspended.
- `Recovery`: the instance the sweep runs beside starts a question in the steps of the
  code (`ReadStash`, `VerifyPayment` or `ChargeBalance` and `StashQuestion`, then
  `ClaimJob`, `CreateJob`, `Track`), drains or dies. The sweep reads the contract's list
  by offset while it shrinks and grows, and a question's job and stash one after the
  other (`GetJob`, `GetStash`). A stash may expire at any moment.
- `Clients`: the handler goes on when its client has given up.

## Runs

| Run | What it shows | Instance |
|---|---|---|
| `oracle_races` | one driver; undo means undo; record = chain; payouts committed first; reputation and credit once; settled is final | a payer's held question, one without an undo window and an API customer's, 2 asks, 2 cancels, chain faults and crashes |
| `oracle_faults` | inductive invariant; restored credit is returned escrow, unless the meter's own write threw; refinement of `Settlement` | an API held question and an instant one, 2 asks, 1 cancel, every fault |
| `oracle_live` | claimed questions settle | a held and an instant question, 2 asks, 1 cancel, failing admin calls |
| `dispatch_collect` | a dispatch resolves once and always, with all answers or none; quorum closes; pool answers only | a private question, 3 workers (one reconnecting, one outsider), quorum 2, every fault |
| `billing_ledger` | books balance; never negative; one debit per event; inductive invariant | 2 calls, 3 deliveries over a checkout, a refund and a dispute, 2 attempts, every fault |
| `signer_lock` | one signer; the lease covers a call; sequence numbers are shared only with abandoned attempts; success is one's own; all comes to rest | 2 primaries for one question, a canary with 2 queued calls, 1 endpoint, every fault, one primary may die |
| `records` | what each component that keeps records of its own promises; see below | one component at a time, see below |
| `landed_resolve`, `uncredited_refund`, `stuck_referral`, `private_push`, `double_clawback` | a comment of the code that the code does not keep; see Findings | the smallest instance that shows it |

`IInv`, `OnceInv`, `DispatchInv`, `LedgerInv` and `SignerInv` are the inductive
invariants of the proofs, contain the type invariants, and are checked by the runs of
their modules. So are, inside the properties of `records`, those of its components:
`TeamsInv`, `WebhooksInv`, `ReferralsInv`, `AccessInv`, `GatesInv`, `ClientsInv`,
`WithdrawInv`, `RelayInv`, `OnboardInv`, `StoresInv`, `WindowsInv`, `ProvenanceInv`,
`RecoveryInv`, `JobsInv`, `PresenceInv`, `RoutingInv`, `CollusionInv`, `ReputationInv`,
`ProbesInv`, `IndexesInv`, `ReportsInv` and `EarningsInv`.

**`records`.** No two of these components share a key, so a behaviour of the backend
is, key by key, one behaviour of each, and `MCRecords` takes them one at a time:
`focus` picks the component, `v1` to `v15` are its variables in the order it declares
them. Its properties group the components by what is at stake, the instances being
those of the `INSTANCE` lines of the module:

| Property | Component: instance | What holds |
|---|---|---|
| `TeamsHold` | Teams: 3 addresses, 2 ids, either store, 3 calls from nothing or 2 on a founded team | one owner in every copy of a team, but for a shared one that a former owner changed |
| `WebhooksHold` | Webhooks: one registered, 2 edits, 2 events, 1 retry each | a deleted webhook gets no later event; no post to a private address |
| `ReferralsHold` | Referrals: 3 workers, 1 payer, 3 requests, a code of one use | uses are accounted for; one credit; one code per owner |
| `PayoutsHold` | Withdraw: 1 worker, 3 checks, 1 edit. Sponsor's relay: 2 transactions, 2 submissions, 2 attempts, 2 signers, 2 amounts. Provenance: a quorum of 2, 2 answers, all single edits | one preparer but after a lease ran out; what was signed lands, once, at its price; a record verifies but for the votes the verifier does not know |
| `ScoresHold` | Collusion: two pairs with a common worker, 2 quorums, 1 review. Supply: 2 instances, 2 workers, 2 to 3 connections, 2 changes of standing. Reputation: 2 workers, 3 settlements, 3 days of which 2 are kept | an open review keeps its pair suspended; the presence hash says who is there; routing reaches somebody, and only the fit and allowed; a lost outcome needs an overlap |
| `IndexesHold` | Indexes: 2 addresses, 3 requests, an index of 2. Earnings: 2 workers, 2 questions, 2 drives. Reports: 2 jobs, 2 payers. Probes: 3 jobs of which 2 are kept, 2 polls, 1 restart | listed if stored; one credit of a question, its earner in the year's index; paid questions counted once; scans count what was in flight; one alert per fall |
| `LimitsHold` | Stores: 2 clients, limit 2, a budget of 3 and calls of 2, windows of 2 ticks in 5. Sponsor's onboarding: 2 per 2 ticks. Windows: 3 requests, at most 2 windows | memory admits the limit and Redis at most twice as many; reservations (counted in calls) and builds within theirs; the list of windows within its bound |
| `SessionsHold` | Access: 3 logins or rotations, 2 ticks. Gates: 2 instances, 3 starts | one session per challenge; one live key; a canary reads |
| `SweepHolds` | Recovery: 2 questions of which one is abandoned and pending from the start, 1 refund and 1 scan per sweep, 2 ticks. Jobs: 3 requests | consistent snapshots miss nothing; nobody's question is swept; no patch lost without an overlap |
| `AskedOnce` | Clients: one call, 1 retry, 1 poll, each library, each kind of call | charged and fulfilled once; the answer is what the backend has |
| `VerdictsHold` | Verdict: up to 4 submissions, 6 texts, 6 tolerances. Pricing: 3 tiers, histories up to 5 rounds. Collusion with a referral. Windows, Reputation, Supply, Earnings and Reports as above | the largest group; monotone prices; the pause is the union; the rank is the place shown; supply is averaged; credits and spend add up |
| `RecordSteps` | Teams, Reputation, Recovery, Jobs | what no step takes back |

The bounds. Requests about different questions share no state in `Oracle`, so
`MCOracle` lets a behaviour's requests be about one question (`FocusInit`), of each
kind in turn; two asks and two cancels are the smallest set in which every claim
is contested on both sides, and the proofs cover any number. Two of three workers
reach the quorum of 2, so an answer can come late, early and from outside the
pool, and one worker's stale close can race its reconnection. Three deliveries
hold a checkout and two reversals, or one reversal and its repeat; `Attempts = 2`
(5 in the code) is exhausted by two concurrent calls. `charged` prices 1 and 2
against a reservation of 2 cover a partial and a full use.

`signer_lock` starts with the calls of the first primary and of the canary in their
queues (`BusyInit`, a state three `Enqueue`s reach). A tick stands for the 10 s of an
attempt; the back-off of 0.3 s rounds to 0, and a lease of 3 ticks is the smallest
that outlasts two attempts (60 s and 20.3 s in the code). The wait is 2 ticks instead
of 9, so that with two contenders it can run out. With a second endpoint the states
are too many for a run; the proofs cover any number.

`ReputationOnce`, `RestoredOnce` and `SettledIsFinal` are checked without store
failures, because they do not hold with them (an answer counted before a throw is
counted again by the refund path; a `POST` that throws late gives its
reservation back and leaves a cancellable job; `restoreCredit()` throwing after a
private-pool refund rewrites a settled record).

Deadlock is not checked: requests end, and every model may come to rest.

The bounds of `records` are the smallest in which its races happen: two requests that
overlap on one key and a third that sees the result; one more address, window, job or
registration than the limit; a lease or window one tick longer than the wait. In
`Recovery` a tick is what a live process takes at most to touch its record (`Driven`),
and a record is stale, and a question old, after two: so the clock advances once while a
question is driven, and then the process has to have acted. Requests
of a kind are interchangeable, and so are addresses the module does not name apart:
`Symmetry` permutes them, and every property treats them alike (a permutation keeps
`focus` and the focus' constants, or maps them to an instance of the same shape).

Fairness. `FairSpec` of `Oracle` is weak fairness of each live request's own next
step: a settled promise runs its continuation, and every call is bounded by
`withTimeout()` (`retry.js:29`). Payers, cancels and the chain owe nothing.
`FairSpec` of `Dispatch` is weak fairness of the timer alone, since a broadcast
may hang for good. `Fairness` of `SignerLock` is that the program goes on: timers
fire, a free lease is polled, a release ends well or badly (the Redis client gives
up after its retries). No answer of the network is fair.
`MCRecords` has none: it checks safety only, and a request may stop anywhere, which
is a crash.

## Proofs

Assumptions: the named `ASSUME`s on the constants of each module, nothing else.

*Oracle.* `OneDriver` is not inductive: it says nothing about who may enter the
deciding steps. `IInv` (in `OracleInv`) adds why nobody else can: a claim counter
has one winner and nothing happens to a question before it (`OneClaimant`); an
undo decision has one winner, and a held question's fulfilment needs it to be
`dispatch` (`OneDecision`); a metered question's id is known to one ask until its
claim (`MeteredOnce`). For the records: nothing is committed or on its way before
the reconciliation (`Uncommitted`), what is paid was dispatched and never
committed as a refund (`PayoutsArePayable`), and each recording step has seen on
chain what it records (`Witnessed`, with `Unreported` and `Escrowed`); the contract
settles a question once, so it stays true. `Restoration` adds that nobody is on
the way to pay for a question whose price went back, unless the write of the meter threw after
it had started. `OracleProofs` shows
`Init => IInv`, one lemma per kind of step, and the theorems `Invariance`,
`Typing`, `OneDriverTheorem`, `UndoMeansUndo`, `RecordsAreTrue`,
`PayoutsAreCommitted` and `RestoredCreditIsReturnedEscrow`, all with every fault on.
`Refinement` maps `chain`, `dispatched`/`decision` and `outcome` to
`Settlement` and shows that each step is one of its steps or a stutter.

What happens once is another invariant, `OnceInv`, and another premise, a store that
does not throw (`~StoreFaults`): a reputation is counted, a price restored and a record
settled by the one driver of a question at one place of its program, so that whoever
has passed the place has done it, and whoever has not, has not; a driver that was moved
back by an exception would do it again, which is why the premise is needed
(`ReputationIsCountedOnce`, `CreditIsRestoredOnce`, `SettledRecordsAreFinal`).

*Dispatch.* `DispatchInv` says of each state of a question where its answers are (an
open collector has the accepted ones and fewer than the quorum, a resolved question has
the collector's or none) and of each connection that the registry names it only once the
route has registered it and while its end has not been heard of. Nothing is claimed of
connections that ended `unheard`: the code keeps them until the worker comes back.

*Billing.* `LedgerInv` adds to `NeverNegative` and `DebitedOnce` that what a
reversal read is not negative, that an event is marked before it is processed and
by one delivery, and that attempts are left while they are needed. `BooksBalance`
is about a sum over all calls and deliveries, a recursive function on finite
sets. The library's induction theorems cannot be cited, but the least element of a
set of naturals (`WFMin`) is a first-order fact, and from it `BillingProofs` derives
that the function exists, what it is at the empty set, and what a sum gains when one
term changes; each step of the ledger changes the balance and one term alike.

*SignerLock.* `OneSigner` is not inductive: mutual exclusion by lease needs time.
`SignerInv` adds that a signing call owns the lease and that what it may still take
(`Remaining`: this attempt, the retry, the endpoints to come) is less than what is
left of the lease. A tick takes one from both; a retry or failover spends only what
was in the budget. The one premise is the rule of `config.js:311-315`, as
`LeaseOutlastsCall`. With the defaults (60 s, 10 s, 0.3 s) it holds for one and two
endpoints; with three, a call may take 60.9 s and the rule is broken.
`SequencesAreSafe` goes on from there (`SequenceInv`): a pending transaction is adrift
or the one the signing call polls for, and a number that landed is used up. The
converse is why the property is no stronger: an attempt that was abandoned, or whose
poll found nothing, can submit next to its successor with the same number, which
the comments at `canary.js:22-23` and `stellarClient.js:67-72` do not mention.
`SuccessIsTrue` needs that a transaction that landed has settled its question as it was
told to, that its number is below the account's, and that a call is told only of the
transaction it polls for.

*Accounts.* A stale copy of a team can be written over a newer one, so `TeamsInv` holds
of every copy: each has one owner, and whoever changes the roles of its copy is that
owner, who can only hand it on. With one shared object the last part needs `crossed`:
the copy may have changed between the check and the change. Memberships are behind the
promise queue of `withMembershipLock()`: who is between its read and its write has the
lock, and what it read is what is stored. `AccessInv`: a challenge that was answered is
not outstanding again, and while no rotation overlapped another or died, the keys are
those of one of five moments. `GatesInv` is what an instance checked when it started;
`ClientsInv` what is known of a request at each of its steps, and that a call which may
be charged sends one. `StoresInv` says that a counter outlives the window it counts and
has counted everything admitted in it (a length of time touches two windows of Redis, and
one of memory, which begins anew with every request), and the budget's every reservation
of its hour. `WindowsInv` bounds the
list, whichever stale one is written back, and `IndexesInv` says that of every address
which has a list and is not in the index, somebody is about to put it there, or a write
was cut off or crossed.

*Payouts.* In `Referrals` a code under way is its request's alone and nobody's yet; one
that was told is its owner's for good. A use is counted before it is granted and given
back if it is not, so `LimitHolds` bounds the granted uses by those whose count came in
time. `WithdrawInv` says that whoever works on a worker's withdrawal holds its lease,
unless one ran out, so that giving it up takes it from nobody; `RelayInv` that a request
relays the call its transaction was signed for, and payments at the quoted price alone;
`OnboardInv` that the map still has every build which the window counts.
`ProvenanceInv`: a vote over merged answers is the exact vote, if those it favours all
gave one text, and then it verifies; the other kinds are `Underivable`, and the verifier
refuses them. `ReputationInv` relates each record to the settlements counted so far and
to those a lane has still to fold in, and what is kept of the days to the latest of
them. `ReportsInv`: only paid questions are tracked, and the set that was counted grows
by the one that is settled. `EarningsInv`: what a drive is about to write has no record
of that question yet, and who has a credit is in the year's index or about to be.

*Background.* A late 410 writes back a record that was deleted. `WebhooksInv` says that
such a record is not active, that the id of a registration under way belongs to its
request alone, and that a delivery was taken from a registration that was stored; so
what was deleted is never again a target, whichever stale list names it. A literal
address is refused at registration, a name when it is looked up, and every url is one or
the other. `JobsInv`: whoever wrote after what it read was written over is torn, so that
without those what was read is what is there. `RecoveryInv`: what is being started is
stashed, what is driven has a fresh record, what the sweep read and would refund for is
still so, and what it is about to refund (`Doomed`) is neither driven nor can be
started, since a claim without a stash keeps the payer out; all but for what was `lost`.
It rests on `Driven < StaleInflight` and `Driven < MinAge`: a live process touches its
job (timeouts of seconds) long before the sweep takes it for dead (minutes).
`PresenceInv`: of a worker whose connections never overlapped one instance at most has
commands queued, the last of which says what it knows; `RoutingInv` follows a selection
through the workers it has looked at. `CollusionInv`: of a pair on which nothing
overlaps one task at most is at work, which knows the flag there is, and a review under
way has accepted its score. `ProbesInv`: a scan has read, or has still to read, every
job that is in the index and was there throughout; and a balance that is low and not
told of has fallen more often than alerts were raised.

`RecordsProofs` carries all of these to `MCRecords`: it instances the proof modules as the
model instances the components, shows that its start satisfies their invariants, and
takes the steps from them. Its theorems are about the small instance; those of
`AccountsProofs`, `PayoutsProofs` and `BackgroundProofs` are about every one.

Only model-checked: the liveness properties (`ClaimedSettles`, `EveryDispatchResolves`,
`ComesToRest`), which are out of the prover's reach, and `VerdictsHold`: `Verdict` and
`Pricing` compare algorithms with reference definitions, and the pause, the rank, the
averaged supply and the sums of earnings and spend are folds or recursions over data.

## Findings

- `landed_resolve`: bookkeeping that throws after `resolve()` landed
  (`oracle.js:661-697`) records a paid question as `refund_pending_timeout`,
  against `oracle.js:680-681`.
- `uncredited_refund`: refunds of unanswered or low-confidence API questions never
  call `restoreCredit()` (`oracle.js:610`), against `oracle.js:586-588`.
- `stuck_referral`: `getPayerQuestionIds` is not imported (`oracle.js:228`), so a
  referral code strands a paid question, against `oracle.js:260-262`.
- `private_push`: target ids are passed as a category (`dispatch.js:511`), so a
  private question is pushed outside its pool, against `dispatch.js:434-442`.
- `double_clawback`: cumulative refund events are debited in full (`billing.js:587`).

Disagreements that have no run of their own. Those with a name are stated in their
module; put it in place of the properties of the module's run to see the
counterexample.

- `Dispatch!FailedPushLosesNothing`: a store failure in `notifyWorker()`
  (`push.js:145`) drops accepted answers, against `push.js:140-142`.
- `Withdraw!PendingIsUnderCurrentTerms`: a check that read the settings before an edit
  prepares a transaction under the old terms after it (`autoWithdraw.js:119-123`).
- `Pricing!ReservationCoversThePrice`: the reservation is the surge-capped price
  without the priority tier's queue-jump factor (`server.js:377`), so such a call may cost
  more, against `server.js:371-375`.
- `Stores!FleetBudgetHolds`: `incr` ignores the amount, so the shared budget counts calls
  (`rateLimit.js:83-84`), against `rateLimit.js:22-24`.
- `Clients!RetryIsSafe`: a report of a payment that was taken up is refused when it is
  sent again after a lost answer, against `client.py:198` and `http.ts:29`.
- `Gates!RevokedIsRefused`: `server.js:627`, `988` and `1149` verify a token without the
  list of revoked ones, against `workerAuth.js:172-180`.
- `Sponsor!EveryWithdrawalIsRecorded`: a relay whose answer from Horizon was lost
  (`server.js:891-909`) leaves a withdrawal out of the ledger.
- `Reports!TotalsNeverGoBack`: of two readers the slower one caches older totals
  (`stats.js:45`).
- `Dispatch!ConnectedIsRegistered`: the late close of a worker's older connection takes
  the newer one out of the registry (`dispatch.js:307-308`). A stream that ends while its
  route awaits (`server.js:1240-1272`) stays in it, and a question written to it reaches nobody.
- A store that throws in `settleReservation()` (`server.js:397`) makes the handler give
  back the price of a question that is running and will be paid for (`server.js:399-405`),
  against the comment at `server.js:400-403`, which takes it for a failed charge
  (`Oracle`, `metering`).
- With the memory store two transfers of ownership that overlap change one object and
  leave two owners, or none (`teams.js:236-240`), against "exactly one owner"
  (`teams.js:17`; `Teams`, `crossed`).
- A record of a numeric verdict within a payer's tolerance, or of a question the second
  LLM provider left unanswered, fails verification though it is genuine
  (`provenanceVerify.js:78-91`; `Provenance!Underivable`).
- A stash that expires while its question is started, or while the sweep classifies
  it, lets the sweep refund what a live process drives (`oracle.js:138-203`;
  `Recovery`, `lost`).

Other places where code and comment differ, met while reading: presence of a
crashed instance's workers never expires, since the expiry is set on a key nobody
writes and `refreshPresence()` has no caller (`dispatch.js:284-288`);
`everyNoOverlap()` of `healthProbes.js` has no caller, so scans and treasury polls
may overlap and an older one shows last; sponsored onboarding sends
platform transactions outside the lock of `config.js:311`; the grace period of a rotated
session secret never applies (`config.js:513`); two overlapping answers to one
challenge both get sessions (`workerAuth.js:80`); `MemoryStore.incr` and Redis'
`hsetnx` renew an expiry, against `rateLimit.js:4` and `store.js:84-88`; a claim can
outlive its job, against `jobs.js:266`; `updateJob()` never notifies the
listeners of `jobs.js:57-63`; a provenance record is not committed on a cancel or a
maintenance refund; a worker in two suspended pairs is freed by clearing one
(`collusion.js`); a payout recorded across a year's end may be counted in both years
(`earnings.js:60-61`); equal counts pass for a consistent snapshot
(`disasterRecovery.js`); two overlapping key rotations leave two live keys; `escalated`
stays null (`oracle.js:441`), so the cap of `oracle.js:497-499` never
applies.

## What is not modelled

The tree is committed with gaps, and the models take the interface its callers assume:
`invokeAsAdmin()` does not parse (`stellarClient.js:234-244`) and `getQuestionOnChain`,
`chargeBalance` and others are not defined there; `reconcile.js` (which also calls
`assertMatchingWorkerIdsAreReal()`, defined nowhere), `webhookDelivery.js` and
`disasterRecovery.js` end in the middle of a function; `anchorClient.js` exports one
name twice; `admin.js` calls functions it does not import; `submitAutoWithdraw` and
`dispatchEscalating` do not exist; nothing calls `subscribeToAnswers()`, so an answer
reaches a collector only on its own instance; `config.js` has no `jobResultTtlMs`,
`pendingQuestionTtlMs`, `undoWindowMs` or `minConfidence`, so the claim and decision
counters never expire; only the root `server.js` serves the cancel route.

Code without a caller, or that cannot load, is left out: certification, fraud scores,
question templates, support, pub/sub, the PayPal and Coinbase checkouts, loyalty tiers,
usage analytics, experiments, the post-mortem helpers of `consensus.js`, shadow
agreement. So is pure input and output: routes that show one record, configuration
parsing, logs, headers, signatures and CSV formatting, and the scripts and alternative
servers around the HTTP surface. The contract, the LLM, Stripe and the push service are
external and modelled by what their callers handle.

`updateJob()` is one step in `Oracle` although it reads and then writes: with one
driver per job there is no second writer to lose; `Jobs` has both steps, for the
reviews that do write next to the driver. The time between sending and landing of an
admin call is one step when it succeeds. Clocks and TTLs are ticks where a property is
about them and left out elsewhere.

## Plan

1. Proofs about the sums of `Earnings` and `Reports` and the order of ranks, which need
   lemmas about folds like those of `BillingProofs`.
2. Liveness of a retried delivery of `Billing`; `Dispatch` shown to implement an
   abstract collector.
