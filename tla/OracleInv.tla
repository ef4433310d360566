------------------------------- MODULE OracleInv ------------------------------
(***************************************************************************)
(* The inductive invariant behind the safety properties of Oracle: what    *)
(* has to be true between any two awaits for no interleaving, lost call or *)
(* crash to break them.  OracleProofs proves it for every instance;        *)
(* MCOracle checks it on small ones.                                       *)
(***************************************************************************)
EXTENDS Oracle

\* An ask that has won claimJob() and not finished.
Claimant == Active \ {"stash", "claim"}

\* A cancel that has won claimUndoDecision().
Canceller == {"cancelling"} \cup RefundSteps

\* An ask that may still put its question to workers or pay for it.
Forward == {"stash", "claim", "create", "index", "hold", "pause", "collect",
            "reconcile", "resolve"}

Unresolved(q) == chain[q] # "resolved" /\ "resolve" \notin mempool[q]

\* Asks and cancels each follow their own handler.
Roles ==
  /\ \A a \in Asks : pc[a] \notin CancelSteps
  /\ \A c \in Cancels :
       /\ pc[c] \in {"idle", "done", "dead"} \cup CancelSteps \cup RefundSteps
       /\ pc[c] \in RefundSteps => why[c] = "cancelled-by-payer"

\* Nobody works on a question that is not paid for.
Escrowed ==
  /\ \A r \in Requests : pc[r] \in Active => chain[on[r]] # "none"
  /\ \A q \in Questions : claimed[q] \/ status[q] # "none" => chain[q] # "none"

\* claimJob() has one winner, and nothing happens to a question before it.
OneClaimant ==
  /\ \A a \in Asks : pc[a] \in Claimant => claimed[on[a]]
  /\ \A a, b \in Asks :
       (pc[a] \in Claimant /\ pc[b] \in Claimant /\ on[a] = on[b]) => a = b
  /\ \A q \in Questions :
       ~claimed[q] => Unresolved(q) /\ provenance[q] = "none" /\ status[q] = "none"

\* claimUndoDecision() has one winner: a cancel, or the held question's timer.
OneDecision ==
  /\ \A q \in Questions :
       /\ status[q] = "holding" => q \in Held
       /\ decision[q] = "cancel" => q \in Held
       /\ dispatched[q] /\ q \in Held => decision[q] = "dispatch"
  /\ \A a \in Asks : pc[a] \in Deciding /\ on[a] \in Held => decision[on[a]] = "dispatch"
  /\ \A c \in Cancels :
       /\ pc[c] = "claim_cancel" => on[c] \in Held
       /\ pc[c] \in Canceller => decision[on[c]] = "cancel"
  /\ \A c, d \in Cancels :
       (pc[c] \in Canceller /\ pc[d] \in Canceller /\ on[c] = on[d]) => c = d

\* Until its claimant has reconciled it, a question has neither a committed
\* action nor a payout under way; nor has one refunded for any reason but a
\* failed resolve().
Uncommitted ==
  /\ \A a \in Asks :
       pc[a] \in {"create", "index", "hold", "pause", "collect", "reconcile"}
         => Unresolved(on[a]) /\ provenance[on[a]] = "none"
  /\ \A a \in Asks :
       pc[a] \in RefundSteps /\ why[a] # "resolve-failed" => Unresolved(on[a])

\* A payout, done, sent or about to be sent, is of a question that was asked.
Payable(q) == dispatched[q] /\ provenance[q] # "refund"

PayoutsArePayable ==
  /\ \A a \in Asks : pc[a] \in {"collect", "reconcile"} => dispatched[on[a]]
  /\ \A a \in Asks : pc[a] = "resolve" => Payable(on[a])
  /\ \A q \in Questions : ~Unresolved(q) => Payable(q)

\* What a settlement step is about to record is what the chain says.
Witnessed ==
  \A r \in Requests :
    /\ pc[r] \in {"reputation", "record"} => chain[on[r]] = "resolved"
    /\ pc[r] \in {"lost", "refunded"} => chain[on[r]] = "refunded"

\* Nobody has reported on a question somebody is still to report on.
Unreported ==
  /\ \A q \in Questions :
       /\ status[q] = "none" => outcome[q] = "none"
       /\ q \in Held /\ decision[q] = "open" => outcome[q] = "none"
  /\ \A a \in Asks :
       /\ pc[a] = "create" => status[on[a]] = "none"
       /\ pc[a] \in Claimant \ {"restore", "crashed"}
            => outcome[on[a]] = "none" \/ decision[on[a]] = "cancel"
  /\ \A c \in Cancels :
       /\ pc[c] \in Active => status[on[c]] # "none"
       /\ pc[c] \in Canceller \ {"restore"} => outcome[on[c]] = "none"

\* A question charged to a balance has the one ask that charged it.
MeteredOnce ==
  /\ \A a \in Asks : pc[a] # "idle" => chain[on[a]] # "none"
  /\ \A a, b \in Asks :
       (pc[a] # "idle" /\ pc[b] # "idle" /\ on[a] = on[b] /\ on[a] \in Metered) => a = b
  /\ \A a \in Asks : pc[a] \in {"stash", "claim"} /\ on[a] \in Metered => ~claimed[on[a]]

\* A restored question is API-funded, and nobody is on the way to pay for it
\* unless the price came back because settling the reservation threw, which it
\* does once the question is started.
Restoration ==
  /\ \A q \in Questions : ~claimed[q] => metering[q] = "none"
  /\ \A a \in Asks : pc[a] \in {"create", "index"} => metering[on[a]] = "none"
  /\ \A r \in Requests :
       pc[r] = "restore" => on[r] \in Api /\ why[r] \in RestoringReasons
  /\ \A q \in Questions :
       restored[q] > 0 \/ metering[q] # "none" => q \in Api /\ chain[q] # "none"
  /\ \A q \in Questions :
       restored[q] > 0 /\ metering[q] # "thrown" =>
         /\ Unresolved(q)
         /\ \A a \in Asks : on[a] = q /\ pc[a] \in Forward => decision[q] = "cancel"

\* Invariant: the conjunction that every step preserves (Init, every handler of
\* oracle.js:192-771, undoWindow.js:45-85 and every fault of the model).
IInv ==
  /\ TypeOK
  /\ Roles
  /\ Escrowed
  /\ OneClaimant
  /\ OneDecision
  /\ Uncommitted
  /\ PayoutsArePayable
  /\ Witnessed
  /\ OutcomeMatchesChain
  /\ CancelledNeverAnswered
  /\ Unreported
  /\ MeteredOnce
  /\ Restoration

(* While the store does not throw, nothing is settled, counted or given back *)
(* twice.                                                                    *)

\* The answers of a question whose claimant still has to count them are not
\* counted.
CountedOnce ==
  /\ \A q \in Questions :
       /\ reputation[q] <= 1
       /\ ~claimed[q] => reputation[q] = 0
  /\ \A a \in Asks : pc[a] \in Claimant \ {"record"} => reputation[on[a]] = 0

\* Credit that a live ask, a cancel or a held question's undecided undo window
\* may still restore has not been restored.
CreditedOnce ==
  /\ \A q \in Questions :
       /\ restored[q] <= 1
       /\ claimed[q] /\ q \in Held /\ decision[q] = "open" => restored[q] = 0
  /\ \A a \in Asks :
       pc[a] \in Active /\ on[a] \in Api
         => restored[on[a]] = 0 \/ decision[on[a]] = "cancel"
  /\ \A c \in Cancels : pc[c] \in Canceller => restored[on[c]] = 0

\* A question that somebody is still to settle is not settled.
SettledOnce ==
  /\ \A q \in Questions :
       q \in Held /\ decision[q] = "open" => status[q] \in {"none", "holding"}
  /\ \A a \in Asks :
       pc[a] \in Claimant \ {"restore"}
         => status[on[a]] # "settled" \/ decision[on[a]] = "cancel"
  /\ \A c \in Cancels :
       pc[c] \in Canceller \ {"restore"} => status[on[c]] # "settled"

\* Invariant: what the steps of oracle.js:192-771 preserve on top of IInv as
\* long as every store operation succeeds.
OnceInv == IInv /\ CountedOnce /\ CreditedOnce /\ SettledOnce
=============================================================================
