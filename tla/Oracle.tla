-------------------------------- MODULE Oracle --------------------------------
(***************************************************************************)
(* The life of a paid question: the step-2 POST that verifies the payment  *)
(* and claims the job, the undo window in which its payer may cancel, the  *)
(* fulfilment that puts it to workers and reconciles what they say, and    *)
(* the settlement of its escrow on chain (oracle.js, undoWindow.js,        *)
(* jobs.js, metered.js and the admin calls of stellarClient.js).           *)
(*                                                                         *)
(* A request is one chain of async continuations: an Ask is a POST /oracle *)
(* that, if it wins the claim, goes on to be the hold timer and then the   *)
(* fulfilment it started; a Cancel is a POST /oracle/:jobId/cancel.  Every *)
(* await is a place where any other request may run, in this process or in *)
(* another one that shares the store, and where the process may die.       *)
(***************************************************************************)
EXTENDS Naturals

CONSTANTS
  Questions,
  Asks, Cancels,   \* requests, each handled once
  Held,            \* questions with an undo window (non-instant, holdMs > 0)
  Instant,         \* questions of the instant tier: answered by the LLM
  Metered,         \* questions charge()d to a prepaid balance
  Api,             \* metered questions of API-key customers, on the fiat pool
  Referred,        \* questions whose payer gave a referral code
  ChainFaults,     \* may an admin call fail, or land after it was given up on?
  StoreFaults,     \* may a store operation throw?
  Crashes          \* may the process running a request die?

ASSUME TiersAssumption ==
  /\ Held \subseteq Questions /\ Instant \subseteq Questions
  /\ Held \cap Instant = {}
ASSUME FundingAssumption ==
  /\ Metered \subseteq Questions /\ Api \subseteq Metered
  /\ Referred \subseteq Questions \ Metered
ASSUME RequestsAssumption == Asks \cap Cancels = {}
ASSUME FaultsAssumption == {ChainFaults, StoreFaults, Crashes} \subseteq BOOLEAN

VARIABLES
  (* the contract *)
  chain,        \* status of the on-chain Question
  mempool,      \* admin calls given up on that may still land
  (* the store *)
  stash,        \* pending:<id>, the quoted question
  claimed,      \* job:claim:<id> has been incremented
  decision,     \* undo-decision:<id>
  status,       \* job:<id>.status, "none" before createJob()
  outcome,      \* job:<id>.outcome
  provenance,   \* the action of the committed provenance record
  reputation,   \* times this question's answers were counted for reputation
  restored,     \* times an API customer got this question's price back
  metering,     \* an API customer's POST that has its answer still settles the
                \* reservation, has, threw, or died
  (* the workers *)
  dispatched,   \* the question was put to workers (or to the LLM)
  (* the requests *)
  pc, on, why

contractVars == <<chain, mempool>>
jobVars      == <<status, outcome>>
ledgerVars   == <<provenance, reputation, restored, metering>>
requestVars  == <<pc, on, why>>
vars == <<chain, mempool, stash, claimed, decision, status, outcome,
          provenance, reputation, restored, metering, dispatched, pc, on, why>>

Requests == Asks \cup Cancels

(* Where a request is: its next await. *)
AskSteps    == {"stash", "claim", "create", "index", "hold", "pause", "collect",
                "reconcile", "resolve", "reputation", "record", "recheck",
                "lost", "crashed"}
CancelSteps == {"claim_cancel", "cancelling"}
RefundSteps == {"refund", "refunded", "unrefunded", "restore"}
Active      == AskSteps \cup CancelSteps \cup RefundSteps

(* result.method of a refund *)
Reasons == {"none", "cancelled-by-payer", "dispatch-paused",
            "no-private-pool-workers", "low-confidence", "resolve-failed"}

Statuses == {"none", "holding", "awaiting_workers", "reconciling",
             "cancelling", "settled"}
Outcomes == {"none", "resolved", "refunded", "lost_race_to_timeout_refund",
             "refund_pending_timeout"}

TypeOK ==
  /\ chain \in [Questions -> {"none", "pending", "resolved", "refunded"}]
  /\ mempool \in [Questions -> SUBSET {"resolve", "refund"}]
  /\ stash \in [Questions -> {"unissued", "live", "gone"}]
  /\ claimed \in [Questions -> BOOLEAN]
  /\ decision \in [Questions -> {"open", "dispatch", "cancel"}]
  /\ status \in [Questions -> Statuses]
  /\ outcome \in [Questions -> Outcomes]
  /\ provenance \in [Questions -> {"none", "resolve", "refund"}]
  /\ reputation \in [Questions -> Nat]
  /\ restored \in [Questions -> Nat]
  /\ metering \in [Questions -> {"none", "due", "settled", "thrown", "lost"}]
  /\ dispatched \in [Questions -> BOOLEAN]
  /\ pc \in [Requests -> Active \cup {"idle", "done", "dead"}]
  /\ on \in [Requests -> Questions]
  /\ why \in [Requests -> Reasons]

Init ==
  /\ chain = [q \in Questions |-> "none"]
  /\ mempool = [q \in Questions |-> {}]
  /\ stash = [q \in Questions |-> "unissued"]
  /\ claimed = [q \in Questions |-> FALSE]
  /\ decision = [q \in Questions |-> "open"]
  /\ status = [q \in Questions |-> "none"]
  /\ outcome = [q \in Questions |-> "none"]
  /\ provenance = [q \in Questions |-> "none"]
  /\ reputation = [q \in Questions |-> 0]
  /\ restored = [q \in Questions |-> 0]
  /\ metering = [q \in Questions |-> "none"]
  /\ dispatched = [q \in Questions |-> FALSE]
  /\ pc = [r \in Requests |-> "idle"]
  /\ on \in [Requests -> Questions]
  /\ why = [r \in Requests |-> "none"]

Goto(r, step) == pc' = [pc EXCEPT ![r] = step]
At(r, step)   == pc[r] = step

-----------------------------------------------------------------------------
(* Opening the escrow *)

\* issueChallenge(): the 402 quote of a question its payer will submit().
IssueChallenge(q) ==
  /\ q \notin Metered
  /\ stash[q] = "unissued"
  /\ stash' = [stash EXCEPT ![q] = "live"]
  /\ UNCHANGED <<contractVars, claimed, decision, jobVars, ledgerVars, dispatched, requestVars>>

\* The payer's own submit() transaction.
Submit(q) ==
  /\ q \notin Metered
  /\ stash[q] # "unissued"
  /\ chain[q] = "none"
  /\ chain' = [chain EXCEPT ![q] = "pending"]
  /\ UNCHANGED <<mempool, stash, claimed, decision, jobVars, ledgerVars, dispatched, requestVars>>

\* The stash's TTL.
StashExpires(q) ==
  /\ stash[q] = "live"
  /\ stash' = [stash EXCEPT ![q] = "gone"]
  /\ UNCHANGED <<contractVars, claimed, decision, jobVars, ledgerVars, dispatched, requestVars>>

\* askMetered() and chargeBalance(): a fresh id, opened by charge().  A charge
\* given up on (ChainFaults) may have landed; an API customer then gets the
\* whole reservation back and nobody goes on with the question.
ChargeBalance(a) ==
  LET q == on[a] IN
  /\ At(a, "idle")
  /\ q \in Metered
  /\ chain[q] = "none"
  /\ chain' = [chain EXCEPT ![q] = "pending"]
  /\ \/ Goto(a, "stash") /\ UNCHANGED restored
     \/ /\ ChainFaults
        /\ Goto(a, "done")
        /\ \/ q \in Api /\ restored' = [restored EXCEPT ![q] = @ + 1]
           \/ (q \in Api => StoreFaults) /\ UNCHANGED restored
  /\ UNCHANGED <<mempool, stash, claimed, decision, jobVars, provenance,
                 reputation, metering, dispatched, on, why>>

StashQuestion(a) ==
  /\ At(a, "stash")
  /\ stash' = [stash EXCEPT ![on[a]] = "live"]
  /\ Goto(a, "claim")
  /\ UNCHANGED <<contractVars, claimed, decision, jobVars, ledgerVars, dispatched, on, why>>

\* verifyPayment(), passed: the quote is still stashed and the escrow pending.
\* A metered question's id is not given out before it is claimed.
VerifyPayment(a) ==
  /\ At(a, "idle")
  /\ on[a] \notin Metered
  /\ stash[on[a]] = "live"
  /\ chain[on[a]] = "pending"
  /\ Goto(a, "claim")
  /\ UNCHANGED <<contractVars, stash, claimed, decision, jobVars, ledgerVars, dispatched, on, why>>

-----------------------------------------------------------------------------
(* startFulfillment() *)

\* Mutant: a plain existence check of the job record instead of the counter.
ClaimJobByExistence(a) ==
  /\ At(a, "claim")
  /\ claimed' = [claimed EXCEPT ![on[a]] = TRUE]
  /\ Goto(a, IF status[on[a]] # "none" THEN "done" ELSE "create")
  /\ UNCHANGED <<contractVars, stash, decision, jobVars, ledgerVars, dispatched, on, why>>

\* claimJob(): store.incr() answers 1 to the first caller only.
ClaimJob(a) ==
  /\ At(a, "claim")
  /\ claimed' = [claimed EXCEPT ![on[a]] = TRUE]
  /\ Goto(a, IF claimed[on[a]] THEN "done" ELSE "create")
  /\ UNCHANGED <<contractVars, stash, decision, jobVars, ledgerVars, dispatched, on, why>>

CreateJob(a) ==
  /\ At(a, "create")
  /\ status' = [status EXCEPT ![on[a]] =
                  IF on[a] \in Held THEN "holding" ELSE "awaiting_workers"]
  /\ outcome' = [outcome EXCEPT ![on[a]] = "none"]
  /\ Goto(a, "index")
  /\ UNCHANGED <<contractVars, stash, claimed, decision, ledgerVars, dispatched, on, why>>

\* The owner, payer and webhook records.  A referral code makes oracle.js:228
\* call getPayerQuestionIds(), which the module does not import: the handler
\* throws, and neither the timer nor the dispatch is ever started.  Otherwise
\* askMetered() returns to its caller, beside which the question goes on.
IndexJob(a) ==
  /\ At(a, "index")
  /\ Goto(a, IF on[a] \in Referred THEN "done"
             ELSE IF on[a] \in Held THEN "hold" ELSE "pause")
  /\ metering' = [metering EXCEPT ![on[a]] = IF on[a] \in Api THEN "due" ELSE @]
  /\ UNCHANGED <<contractVars, stash, claimed, decision, jobVars, provenance,
                 reputation, restored, dispatched, on, why>>

\* settleReservation() of an API customer's POST gives back what surge did not
\* cost (not part of `restored`).  If that write throws, the catch (server.js:399)
\* takes it for a failed charge and gives the whole price back, of a question
\* that is running.
SettleReservation(q) ==
  /\ metering[q] = "due"
  /\ \/ metering' = [metering EXCEPT ![q] = "settled"] /\ UNCHANGED restored
     \/ /\ StoreFaults
        /\ metering' = [metering EXCEPT ![q] = "thrown"]
        /\ restored' = [restored EXCEPT ![q] = @ + 1]
  /\ UNCHANGED <<contractVars, stash, claimed, decision, jobVars, provenance,
                 reputation, dispatched, requestVars>>

\* Mutant: the timer trusts clearTimeout() and never asks whose decision it was.
TimerFiresUnclaimed(a) ==
  /\ At(a, "hold")
  /\ Goto(a, "pause")
  /\ UNCHANGED <<contractVars, stash, claimed, decision, jobVars, ledgerVars, dispatched, on, why>>

\* holdThenDispatch()'s timer: claimUndoDecision(jobId, 'dispatch').
TimerFires(a) ==
  LET q == on[a] IN
  /\ At(a, "hold")
  /\ IF decision[q] = "open"
       THEN decision' = [decision EXCEPT ![q] = "dispatch"] /\ Goto(a, "pause")
       ELSE UNCHANGED decision /\ Goto(a, "done")
  /\ UNCHANGED <<contractVars, stash, claimed, jobVars, ledgerVars, dispatched, on, why>>

\* getDispatchPause() finds a maintenance window: refundForDispatchPause().
RefundForDispatchPause(a) ==
  /\ At(a, "pause")
  /\ status' = [status EXCEPT ![on[a]] = "reconciling"]
  /\ why' = [why EXCEPT ![a] = "dispatch-paused"]
  /\ Goto(a, "refund")
  /\ UNCHANGED <<contractVars, stash, claimed, decision, outcome, ledgerVars, dispatched, on>>

\* No window: the job is marked and runFulfillment() broadcasts the question.
RunFulfillment(a) ==
  /\ At(a, "pause")
  /\ status' = [status EXCEPT ![on[a]] = "awaiting_workers"]
  /\ dispatched' = [dispatched EXCEPT ![on[a]] = TRUE]
  /\ Goto(a, "collect")
  /\ UNCHANGED <<contractVars, stash, claimed, decision, outcome, ledgerVars, on, why>>

-----------------------------------------------------------------------------
(* fulfillOracleCall() and fulfillInstant() *)

\* The answers are in, or time is up, or the draft is ready.  A private pool
\* with nobody online is refunded at once; anything else is reconciled.
Collect(a) ==
  /\ At(a, "collect")
  /\ status' = [status EXCEPT ![on[a]] = "reconciling"]
  /\ \/ Goto(a, "reconcile") /\ UNCHANGED why
     \/ /\ on[a] \notin Instant
        /\ Goto(a, "refund")
        /\ why' = [why EXCEPT ![a] = "no-private-pool-workers"]
  /\ UNCHANGED <<contractVars, stash, claimed, decision, outcome, ledgerVars, dispatched, on>>

\* Mutant: the committed action is the wrong arm of the conditional.
ReconcileSwapped(a) ==
  /\ At(a, "reconcile")
  /\ \E action \in {"resolve", "refund"} :
       /\ provenance' = [provenance EXCEPT ![on[a]] =
                           IF action = "resolve" THEN "refund" ELSE "resolve"]
       /\ Goto(a, action)
       /\ why' = IF action = "refund"
                   THEN [why EXCEPT ![a] = "low-confidence"] ELSE why
  /\ UNCHANGED <<contractVars, stash, claimed, decision, jobVars, reputation,
                 restored, metering, dispatched, on>>

\* shouldResolve, and commitProvenance() before anything is sent: the record
\* holds the action, unless writing it failed, which is logged and ignored.
Reconcile(a) ==
  /\ At(a, "reconcile")
  /\ \E action \in {"resolve", "refund"} :
       /\ \/ provenance' = [provenance EXCEPT ![on[a]] = action]
          \/ StoreFaults /\ UNCHANGED provenance
       /\ Goto(a, action)
       /\ why' = IF action = "refund"
                   THEN [why EXCEPT ![a] = "low-confidence"] ELSE why
  /\ UNCHANGED <<contractVars, stash, claimed, decision, jobVars, reputation,
                 restored, metering, dispatched, on>>

-----------------------------------------------------------------------------
(* Settlement *)

\* One admin call: `landed` moves a pending question to `final`; a call that
\* is reported failed either never will, or was given up on and still may.
AdminCall(q, method, final, landed) ==
  \/ /\ landed
     /\ chain[q] = "pending"
     /\ chain' = [chain EXCEPT ![q] = final]
     /\ UNCHANGED mempool
  \/ /\ ~landed
     /\ chain[q] = "pending" => ChainFaults
     /\ \/ UNCHANGED mempool
        \/ /\ chain[q] = "pending"
           /\ mempool' = [mempool EXCEPT ![q] = @ \cup {method}]
     /\ UNCHANGED chain

\* Mutant: reputation is counted before resolve() is known to have landed.
ResolveCountingFirst(a) ==
  /\ At(a, "resolve")
  /\ \E landed \in BOOLEAN :
       /\ AdminCall(on[a], "resolve", "resolved", landed)
       /\ Goto(a, IF ~landed THEN "recheck" ELSE "record")
  /\ reputation' = [reputation EXCEPT ![on[a]] = @ + 1]
  /\ UNCHANGED <<stash, claimed, decision, jobVars, provenance, restored, metering,
                 dispatched, on, why>>

\* resolveQuestion() in settleResolved() and settleInstantResolved().
Resolve(a) ==
  /\ At(a, "resolve")
  /\ \E landed \in BOOLEAN :
       /\ AdminCall(on[a], "resolve", "resolved", landed)
       /\ Goto(a, IF ~landed THEN "recheck"
                  ELSE IF on[a] \in Instant THEN "record" ELSE "reputation")
  /\ UNCHANGED <<stash, claimed, decision, jobVars, ledgerVars, dispatched, on, why>>

RecordReputation(a) ==
  /\ At(a, "reputation")
  /\ reputation' = [reputation EXCEPT ![on[a]] = @ + 1]
  /\ Goto(a, "record")
  /\ UNCHANGED <<contractVars, stash, claimed, decision, jobVars, provenance,
                 restored, metering, dispatched, on, why>>

\* Mutant: the two fields of the final record are swapped.
SettleSwapped(q, result) ==
  /\ status' = [status EXCEPT ![q] = result]
  /\ outcome' = [outcome EXCEPT ![q] = "settled"]

Settle(q, result) ==
  /\ status' = [status EXCEPT ![q] = "settled"]
  /\ outcome' = [outcome EXCEPT ![q] = result]

DropStash(q) == stash' = [stash EXCEPT ![q] = "gone"]

RecordResolved(a) ==
  /\ At(a, "record")
  /\ DropStash(on[a])
  /\ Settle(on[a], "resolved")
  /\ Goto(a, "done")
  /\ UNCHANGED <<contractVars, claimed, decision, ledgerVars, dispatched, on, why>>

\* Mutant: any failed resolve() is taken for a lost race.
RecheckTrusting(a) ==
  /\ At(a, "recheck")
  /\ Goto(a, "lost")
  /\ UNCHANGED <<contractVars, stash, claimed, decision, jobVars, ledgerVars, dispatched, on, why>>

\* The catch of settleResolved(): ask the chain why, and refund unless it says
\* that somebody else already has (the read itself may fail and answer null).
Recheck(a) ==
  /\ At(a, "recheck")
  /\ \/ /\ chain[on[a]] = "refunded"
        /\ Goto(a, "lost")
        /\ UNCHANGED why
     \/ /\ chain[on[a]] = "refunded" => ChainFaults
        /\ Goto(a, "refund")
        /\ why' = [why EXCEPT ![a] = "resolve-failed"]
  /\ UNCHANGED <<contractVars, stash, claimed, decision, jobVars, ledgerVars, dispatched, on>>

\* Workers' answers are counted after a refund of a question they answered.
Counted(q) == [reputation EXCEPT ![q] = IF q \in Instant THEN @ ELSE @ + 1]

SettleLostRace(a) ==
  /\ At(a, "lost")
  /\ reputation' = Counted(on[a])
  /\ Settle(on[a], "lost_race_to_timeout_refund")
  /\ Goto(a, "done")
  /\ UNCHANGED <<contractVars, stash, claimed, decision, provenance, restored,
                 metering, dispatched, on, why>>

\* refundQuestion() in settleRefunded().
Refund(r) ==
  /\ At(r, "refund")
  /\ \E landed \in BOOLEAN :
       /\ AdminCall(on[r], "refund", "refunded", landed)
       /\ Goto(r, IF landed THEN "refunded" ELSE "unrefunded")
  /\ UNCHANGED <<stash, claimed, decision, jobVars, ledgerVars, dispatched, on, why>>

\* Mutant: the price is given back after every kind of refund.
RestoringAlways == Reasons

\* The refunds of an API customer's question that give the price back.
RestoringReasons == {"cancelled-by-payer", "dispatch-paused", "no-private-pool-workers"}
AnsweredReasons  == {"low-confidence", "resolve-failed"}

AfterRefund(r) ==
  Goto(r, IF why[r] \in RestoringReasons /\ on[r] \in Api THEN "restore" ELSE "done")

\* Mutants: the job is settled only if the refund landed, and as refunded even
\* if it did not.
RecordLandedRefund(r) ==
  /\ pc[r] \in {"refunded", "unrefunded"}
  /\ IF At(r, "refunded") THEN Settle(on[r], "refunded") ELSE UNCHANGED jobVars
  /\ AfterRefund(r)
  /\ UNCHANGED <<contractVars, stash, claimed, decision, ledgerVars, dispatched, on, why>>

RecordRefundedAnyway(r) ==
  /\ pc[r] \in {"refunded", "unrefunded"}
  /\ Settle(on[r], "refunded")
  /\ AfterRefund(r)
  /\ UNCHANGED <<contractVars, stash, claimed, decision, ledgerVars, dispatched, on, why>>

\* The rest of settleRefunded().
RecordRefunded(r) ==
  /\ pc[r] \in {"refunded", "unrefunded"}
  /\ reputation' = IF why[r] \in AnsweredReasons THEN Counted(on[r]) ELSE reputation
  /\ IF At(r, "refunded") THEN DropStash(on[r]) ELSE UNCHANGED stash
  /\ Settle(on[r], IF At(r, "refunded") THEN "refunded" ELSE "refund_pending_timeout")
  /\ AfterRefund(r)
  /\ UNCHANGED <<contractVars, claimed, decision, provenance, restored, metering,
                 dispatched, on, why>>

RestoreCredit(r) ==
  /\ At(r, "restore")
  /\ restored' = [restored EXCEPT ![on[r]] = @ + 1]
  /\ Goto(r, "done")
  /\ UNCHANGED <<contractVars, stash, claimed, decision, jobVars, provenance,
                 reputation, metering, dispatched, on, why>>

\* The last-resort catch of runFulfillment().
RecordCrash(a) ==
  /\ At(a, "crashed")
  /\ Settle(on[a], "refund_pending_timeout")
  /\ Goto(a, "done")
  /\ UNCHANGED <<contractVars, stash, claimed, decision, ledgerVars, dispatched, on, why>>

-----------------------------------------------------------------------------
(* cancelJob() *)

\* Authorized, and the job was read as holding.
CancelJob(c) ==
  /\ At(c, "idle")
  /\ status[on[c]] = "holding"
  /\ Goto(c, "claim_cancel")
  /\ UNCHANGED <<contractVars, stash, claimed, decision, jobVars, ledgerVars, dispatched, on, why>>

\* Mutant: "status is holding" is all the permission a cancel needs.
ClaimCancelUnclaimed(c) ==
  /\ At(c, "claim_cancel")
  /\ decision' = [decision EXCEPT ![on[c]] = "cancel"]
  /\ Goto(c, "cancelling")
  /\ UNCHANGED <<contractVars, stash, claimed, jobVars, ledgerVars, dispatched, on, why>>

\* claimUndoDecision(jobId, 'cancel'), and clearTimeout() when the hold timer
\* lives in the process that serves the cancel.
ClaimCancel(c) ==
  LET q == on[c] IN
  /\ At(c, "claim_cancel")
  /\ IF decision[q] = "open"
       THEN /\ decision' = [decision EXCEPT ![q] = "cancel"]
            /\ \E cleared \in SUBSET {a \in Asks : on[a] = q /\ At(a, "hold")} :
                 pc' = [r \in Requests |-> IF r = c THEN "cancelling"
                                           ELSE IF r \in cleared THEN "done"
                                           ELSE pc[r]]
       ELSE UNCHANGED decision /\ Goto(c, "done")
  /\ UNCHANGED <<contractVars, stash, claimed, jobVars, ledgerVars, dispatched, on, why>>

MarkCancelling(c) ==
  /\ At(c, "cancelling")
  /\ status' = [status EXCEPT ![on[c]] = "cancelling"]
  /\ why' = [why EXCEPT ![c] = "cancelled-by-payer"]
  /\ Goto(c, "refund")
  /\ UNCHANGED <<contractVars, stash, claimed, decision, outcome, ledgerVars, dispatched, on>>

-----------------------------------------------------------------------------
(* What can go wrong, and other people *)

\* Anyone may refund_timeout() a pending question; so does the recovery sweep.
RefundTimeout(q) ==
  /\ chain[q] = "pending"
  /\ chain' = [chain EXCEPT ![q] = "refunded"]
  /\ UNCHANGED <<mempool, stash, claimed, decision, jobVars, ledgerVars, dispatched, requestVars>>

\* A call that was given up on lands after all; the contract refuses it if the
\* question is settled by then.
LandAbandoned(q, method) ==
  /\ method \in mempool[q]
  /\ chain[q] = "pending"
  /\ chain' = [chain EXCEPT ![q] = IF method = "resolve" THEN "resolved" ELSE "refunded"]
  /\ mempool' = [mempool EXCEPT ![q] = @ \ {method}]
  /\ UNCHANGED <<stash, claimed, decision, jobVars, ledgerVars, dispatched, requestVars>>

\* The steps whose await is a store operation, and where the exception lands.
StoreSteps == Active \ {"resolve", "recheck", "refund"}

CatchOf(r) ==
  CASE pc[r] \in {"reputation", "record"} -> "recheck"
    [] pc[r] \in {"collect", "reconcile", "lost"} -> "crashed"
    [] /\ pc[r] \in {"refunded", "unrefunded", "restore"}
       /\ why[r] \notin {"cancelled-by-payer", "dispatch-paused"} -> "crashed"
    [] OTHER -> "done"

\* What came before the throw in the same step stands: a decision counted but
\* not written down, answers counted.  An API customer's POST that fails before
\* it is answered gives the whole reservation back, if that does not throw too
\* (server.js:404).  An instant question's
\* reconciling step has no store operation outside commitProvenance().
StoreThrows(r) ==
  LET q == on[r] IN
  /\ StoreFaults
  /\ pc[r] \in StoreSteps
  /\ At(r, "reconcile") => q \notin Instant
  /\ Goto(r, CatchOf(r))
  /\ \/ UNCHANGED decision
     \/ /\ pc[r] \in {"hold", "claim_cancel"}
        /\ decision[q] = "open"
        /\ decision' = [decision EXCEPT ![q] = IF r \in Asks THEN "dispatch" ELSE "cancel"]
  /\ \/ UNCHANGED reputation
     \/ /\ \/ pc[r] \in {"reputation", "lost"}
           \/ pc[r] \in {"refunded", "unrefunded"} /\ why[r] \in AnsweredReasons
        /\ reputation' = Counted(q)
  /\ \/ UNCHANGED restored
     \/ /\ pc[r] \in {"stash", "claim", "create", "index"}
        /\ q \in Api
        /\ restored' = [restored EXCEPT ![q] = @ + 1]
  /\ UNCHANGED <<contractVars, stash, claimed, jobVars, provenance, metering,
                 dispatched, on, why>>

\* The process dies, and this continuation with it, and its POST's if that is
\* not answered yet.
Crash(r) ==
  /\ Crashes
  /\ pc[r] \in Active
  /\ Goto(r, "dead")
  /\ metering' = [metering EXCEPT ![on[r]] =
                    IF r \in Asks /\ @ = "due" THEN "lost" ELSE @]
  /\ UNCHANGED <<contractVars, stash, claimed, decision, jobVars, provenance,
                 reputation, restored, dispatched, on, why>>

-----------------------------------------------------------------------------
Begin(r) ==
  \/ r \in Asks /\ (ChargeBalance(r) \/ VerifyPayment(r))
  \/ r \in Cancels /\ CancelJob(r)

AskStep(a) ==
  \/ StashQuestion(a) \/ ClaimJob(a) \/ CreateJob(a) \/ IndexJob(a)
  \/ TimerFires(a) \/ RefundForDispatchPause(a) \/ RunFulfillment(a)
  \/ Collect(a) \/ Reconcile(a) \/ Resolve(a) \/ RecordReputation(a)
  \/ RecordResolved(a) \/ Recheck(a) \/ SettleLostRace(a) \/ RecordCrash(a)

CancelStep(c) == ClaimCancel(c) \/ MarkCancelling(c)

RefundStep(r) == Refund(r) \/ RecordRefunded(r) \/ RestoreCredit(r)

\* What a live process goes on to do by itself.
Continue(r) ==
  \/ r \in Asks /\ AskStep(r)
  \/ r \in Cancels /\ CancelStep(r)
  \/ RefundStep(r)

Environment(q) ==
  \/ IssueChallenge(q) \/ Submit(q) \/ StashExpires(q) \/ RefundTimeout(q)
  \/ \E method \in {"resolve", "refund"} : LandAbandoned(q, method)

Next ==
  \/ \E q \in Questions : Environment(q) \/ SettleReservation(q)
  \/ \E r \in Requests : Begin(r) \/ Continue(r) \/ StoreThrows(r) \/ Crash(r)

Spec == Init /\ [][Next]_vars

\* A promise that settles runs its continuation: the event loop is fair to
\* every await of a process that lives.  Payers and clients owe nothing.
FairSpec == Spec /\ \A r \in Requests : WF_vars(Continue(r))

-----------------------------------------------------------------------------
(* Properties *)

\* From here on a request decides about the question's money.
Deciding == Active \ {"stash", "claim", "create", "index", "hold", "claim_cancel"}

\* Safety: one driver.  However duplicate POSTs, cancels and the hold timer
\* interleave, no two of them ever fulfil, refund or settle the same question
\* at once (claimJob() and claimUndoDecision() together; jobs.js:260-266).
OneDriver ==
  \A r, s \in Requests :
    (r # s /\ pc[r] \in Deciding /\ pc[s] \in Deciding) => on[r] # on[s]

\* Safety: undo means undo.  A question whose cancel won is never put to
\* workers and its escrow never goes to them (undoWindow.js:14-22).
CancelledNeverAnswered ==
  \A q \in Questions :
    decision[q] = "cancel" => ~dispatched[q] /\ chain[q] # "resolved"

\* Safety: the job record tells the truth.  A job recorded as resolved was
\* paid out on chain, and one recorded as refunded or as lost to the timeout
\* was refunded on chain, whatever raced with it (oracle.js:655-771).
OutcomeMatchesChain ==
  \A q \in Questions :
    /\ outcome[q] = "resolved" => chain[q] = "resolved"
    /\ outcome[q] \in {"refunded", "lost_race_to_timeout_refund"} => chain[q] = "refunded"

\* Safety: the audit trail precedes the money.  Workers are paid only for a
\* question that was put to them, and never against a committed record that
\* says refund (oracle.js:514-519).
PayoutWasCommitted ==
  \A q \in Questions :
    chain[q] = "resolved" => dispatched[q] /\ provenance[q] # "refund"

\* Safety: credit goes back only for escrow that goes back.  The price is
\* restored to an API customer only if the question is not, and will not be,
\* paid out to workers (oracle.js:341-346), by a POST that fails before the
\* question is started, a cancel, a pause or a pool nobody is in.  Not so when
\* settleReservation() threw after the question was started (server.js:397-405).
RestoredNeverPaidOut ==
  \A q \in Questions :
    restored[q] > 0 /\ metering[q] # "thrown"
      => chain[q] # "resolved" /\ "resolve" \notin mempool[q]

\* Safety: credit goes back once.  Holds while the store does not throw: a POST
\* that throws after the owner record is written restores the reservation and
\* leaves a job its owner can still cancel for a second credit.
RestoredOnce == \A q \in Questions : restored[q] <= 1

\* Safety: a worker's record counts a question once, whichever of the payout,
\* the lost race or the refund it ends in, while the store does not throw
\* (oracle.js:790-796 from the three settlement paths).
ReputationOnce == \A q \in Questions : reputation[q] <= 1

\* Action property: settled is final.  A settled job record is never rewritten
\* by a late cancel, timer or retry, while the store does not throw
\* (jobs.js:50-52).
SettledIsFinal ==
  [][\A q \in Questions :
       status[q] = "settled" => status'[q] = "settled" /\ outcome'[q] = outcome[q]]_vars

\* Liveness: a claimed question gets settled.  With no crash and no store
\* failure the job record reaches `settled` even if every admin call fails
\* (oracle.js:311-330, 734-771).
ClaimedSettles ==
  \A q \in Questions : claimed[q] ~> status[q] = "settled"

\* Refuted by landed_resolve: oracle.js:680-681, "a bookkeeping or RPC hiccup
\* here must never turn a landed resolve() into a refund".
LandedResolveStaysResolved ==
  \A q \in Questions :
    chain[q] = "resolved" /\ status[q] = "settled" => outcome[q] = "resolved"

\* Refuted by uncredited_refund: oracle.js:586-588, an instant question that gets
\* no answer "fails closed exactly like the human path: refund, never charge for
\* nothing".  An API customer's refund goes to the fiat pool; only restoreCredit()
\* gives it to the customer (billing.js:168-171).
RefundedCustomerIsCredited ==
  \A q \in Api :
    /\ outcome[q] \in {"refunded", "lost_race_to_timeout_refund"}
    /\ \A r \in Requests : on[r] = q => pc[r] \notin Active
    => restored[q] = 1

\* Refuted by stuck_referral: oracle.js:260-262, a referral is recorded
\* "without ever failing the payment it rides on".  A held job always has its
\* timer, the request about to arm it, or a decision already taken.
HoldHasTimer ==
  \A q \in Questions :
    status[q] = "holding" /\ decision[q] = "open"
      => \E a \in Asks : on[a] = q /\ pc[a] \in {"index", "hold"}

(* The detailed specification implements the promise. *)
Money == [q \in Questions |->
  CASE chain[q] = "none"     -> "unpaid"
    [] chain[q] = "pending"  -> "escrowed"
    [] chain[q] = "resolved" -> "paid_out"
    [] chain[q] = "refunded" -> "returned"]

Fate == [q \in Questions |->
  IF dispatched[q] THEN "asked"
  ELSE IF decision[q] = "cancel" THEN "withdrawn" ELSE "open"]

Report == [q \in Questions |->
  CASE outcome[q] = "none"                   -> "none"
    [] outcome[q] = "resolved"               -> "paid_out"
    [] outcome[q] = "refund_pending_timeout" -> "unknown"
    [] OTHER                                 -> "returned"]

Abstract == INSTANCE Settlement WITH money <- Money, fate <- Fate, report <- Report

\* Refinement: every step of the backend, the chain and the clients is a step
\* of Settlement or leaves the promise's view unchanged.
RefinesSettlement == Abstract!SSpec
=============================================================================
