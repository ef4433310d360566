----------------------------- MODULE OracleProofs -----------------------------
(***************************************************************************)
(* Machine-checked proofs about Oracle, for every set of questions and     *)
(* requests and with every fault the model knows: the inductive invariant  *)
(* IInv (see OracleInv), the safety properties that follow from it, and    *)
(* that Oracle implements Settlement.  A step of Oracle moves at most one  *)
(* of the three things that promise talks of (the escrow, the question's   *)
(* fate, the record), so every handler is one of its step lemmas or a      *)
(* stutter.                                                                *)
(***************************************************************************)
EXTENDS OracleInv, TLAPS

\* The step theorems below split a step into the handlers it can be.
LEMMA NextCases ==
  ASSUME Next
  PROVE  \/ \E a \in Asks : ChargeBalance(a)
         \/ \E a \in Asks : VerifyPayment(a)
         \/ \E a \in Asks : StashQuestion(a)
         \/ \E a \in Asks : ClaimJob(a)
         \/ \E a \in Asks : CreateJob(a)
         \/ \E a \in Asks : IndexJob(a)
         \/ \E a \in Asks : TimerFires(a)
         \/ \E a \in Asks : RefundForDispatchPause(a)
         \/ \E a \in Asks : RunFulfillment(a)
         \/ \E a \in Asks : Collect(a)
         \/ \E a \in Asks : Reconcile(a)
         \/ \E a \in Asks : Resolve(a)
         \/ \E a \in Asks : RecordReputation(a)
         \/ \E a \in Asks : RecordResolved(a)
         \/ \E a \in Asks : Recheck(a)
         \/ \E a \in Asks : SettleLostRace(a)
         \/ \E a \in Asks : RecordCrash(a)
         \/ \E c \in Cancels : CancelJob(c)
         \/ \E c \in Cancels : ClaimCancel(c)
         \/ \E c \in Cancels : MarkCancelling(c)
         \/ \E r \in Requests : Refund(r)
         \/ \E r \in Requests : RecordRefunded(r)
         \/ \E r \in Requests : RestoreCredit(r)
         \/ \E r \in Requests : StoreThrows(r)
         \/ \E r \in Requests : Crash(r)
         \/ \E q \in Questions : SettleReservation(q)
         \/ \E q \in Questions : IssueChallenge(q)
         \/ \E q \in Questions : Submit(q)
         \/ \E q \in Questions : StashExpires(q)
         \/ \E q \in Questions : RefundTimeout(q)
         \/ \E q \in Questions, method \in {"resolve", "refund"} : LandAbandoned(q, method)
BY DEF Next, Environment, Begin, Continue, AskStep, CancelStep, RefundStep, Requests

-----------------------------------------------------------------------------
(* Every handler preserves every part of the invariant *)

\* Types.
LEMMA TypeOKStep ==
  ASSUME IInv, Next
  PROVE  TypeOK'
<1> USE RequestsAssumption DEF IInv, TypeOK, Reasons, Statuses, Outcomes,
        contractVars, jobVars, ledgerVars, requestVars, Goto, At, Requests,
        AdminCall, Settle, DropStash, AfterRefund, Counted, StoreSteps,
        CatchOf, Active, AskSteps, CancelSteps, RefundSteps
<1>1. CASE \E a \in Asks : ChargeBalance(a) BY <1>1 DEF ChargeBalance
<1>2. CASE \E a \in Asks : VerifyPayment(a) BY <1>2 DEF VerifyPayment
<1>3. CASE \E a \in Asks : StashQuestion(a) BY <1>3 DEF StashQuestion
<1>4. CASE \E a \in Asks : ClaimJob(a) BY <1>4 DEF ClaimJob
<1>5. CASE \E a \in Asks : CreateJob(a) BY <1>5 DEF CreateJob
<1>6. CASE \E a \in Asks : IndexJob(a) BY <1>6 DEF IndexJob
<1>7. CASE \E a \in Asks : TimerFires(a) BY <1>7 DEF TimerFires
<1>8. CASE \E a \in Asks : RefundForDispatchPause(a) BY <1>8 DEF RefundForDispatchPause
<1>9. CASE \E a \in Asks : RunFulfillment(a) BY <1>9 DEF RunFulfillment
<1>10. CASE \E a \in Asks : Collect(a) BY <1>10 DEF Collect
<1>11. CASE \E a \in Asks : Reconcile(a) BY <1>11 DEF Reconcile
<1>12. CASE \E a \in Asks : Resolve(a) BY <1>12 DEF Resolve
<1>13. CASE \E a \in Asks : RecordReputation(a) BY <1>13 DEF RecordReputation
<1>14. CASE \E a \in Asks : RecordResolved(a) BY <1>14 DEF RecordResolved
<1>15. CASE \E a \in Asks : Recheck(a) BY <1>15 DEF Recheck
<1>16. CASE \E a \in Asks : SettleLostRace(a) BY <1>16 DEF SettleLostRace
<1>17. CASE \E a \in Asks : RecordCrash(a) BY <1>17 DEF RecordCrash
<1>18. CASE \E c \in Cancels : CancelJob(c) BY <1>18 DEF CancelJob
<1>19. CASE \E c \in Cancels : ClaimCancel(c) BY <1>19 DEF ClaimCancel
<1>20. CASE \E c \in Cancels : MarkCancelling(c) BY <1>20 DEF MarkCancelling
<1>21. CASE \E r \in Requests : Refund(r) BY <1>21 DEF Refund
<1>22. CASE \E r \in Requests : RecordRefunded(r) BY <1>22 DEF RecordRefunded
<1>23. CASE \E r \in Requests : RestoreCredit(r) BY <1>23 DEF RestoreCredit
<1>24. CASE \E r \in Requests : StoreThrows(r) BY <1>24 DEF StoreThrows
<1>25. CASE \E r \in Requests : Crash(r) BY <1>25 DEF Crash
<1>26. CASE \E q \in Questions : IssueChallenge(q) BY <1>26 DEF IssueChallenge
<1>27. CASE \E q \in Questions : Submit(q) BY <1>27 DEF Submit
<1>28. CASE \E q \in Questions : StashExpires(q) BY <1>28 DEF StashExpires
<1>29. CASE \E q \in Questions : RefundTimeout(q) BY <1>29 DEF RefundTimeout
<1>30. CASE \E q \in Questions, method \in {"resolve", "refund"} : LandAbandoned(q, method)
       BY <1>30 DEF LandAbandoned
<1>31. CASE \E q \in Questions : SettleReservation(q) BY <1>31 DEF SettleReservation
<1> QED
  BY NextCases, <1>1, <1>2, <1>3, <1>4, <1>5, <1>6, <1>7, <1>8, <1>9, <1>10,
     <1>11, <1>12, <1>13, <1>14, <1>15, <1>16, <1>17, <1>18, <1>19, <1>20,
     <1>21, <1>22, <1>23, <1>24, <1>25, <1>26, <1>27, <1>28, <1>29, <1>30,
     <1>31

\* An ask stays an ask and a cancel a cancel: an exception in a cancel's
\* settlement goes to its caller, never to runFulfillment()'s catch.
LEMMA RolesStep ==
  ASSUME IInv, Next
  PROVE  Roles'
<1> USE RequestsAssumption DEF IInv, TypeOK, Roles, RestoringReasons,
        contractVars, jobVars, ledgerVars, requestVars, Goto, At, Requests,
        AdminCall, Settle, DropStash, AfterRefund, Counted, StoreSteps,
        CatchOf, Active, AskSteps, CancelSteps, RefundSteps
<1>1. CASE \E a \in Asks : ChargeBalance(a) BY <1>1 DEF ChargeBalance
<1>2. CASE \E a \in Asks : VerifyPayment(a) BY <1>2 DEF VerifyPayment
<1>3. CASE \E a \in Asks : StashQuestion(a) BY <1>3 DEF StashQuestion
<1>4. CASE \E a \in Asks : ClaimJob(a) BY <1>4 DEF ClaimJob
<1>5. CASE \E a \in Asks : CreateJob(a) BY <1>5 DEF CreateJob
<1>6. CASE \E a \in Asks : IndexJob(a) BY <1>6 DEF IndexJob
<1>7. CASE \E a \in Asks : TimerFires(a) BY <1>7 DEF TimerFires
<1>8. CASE \E a \in Asks : RefundForDispatchPause(a) BY <1>8 DEF RefundForDispatchPause
<1>9. CASE \E a \in Asks : RunFulfillment(a) BY <1>9 DEF RunFulfillment
<1>10. CASE \E a \in Asks : Collect(a) BY <1>10 DEF Collect
<1>11. CASE \E a \in Asks : Reconcile(a) BY <1>11 DEF Reconcile
<1>12. CASE \E a \in Asks : Resolve(a) BY <1>12 DEF Resolve
<1>13. CASE \E a \in Asks : RecordReputation(a) BY <1>13 DEF RecordReputation
<1>14. CASE \E a \in Asks : RecordResolved(a) BY <1>14 DEF RecordResolved
<1>15. CASE \E a \in Asks : Recheck(a) BY <1>15 DEF Recheck
<1>16. CASE \E a \in Asks : SettleLostRace(a) BY <1>16 DEF SettleLostRace
<1>17. CASE \E a \in Asks : RecordCrash(a) BY <1>17 DEF RecordCrash
<1>18. CASE \E c \in Cancels : CancelJob(c) BY <1>18 DEF CancelJob
<1>19. CASE \E c \in Cancels : ClaimCancel(c) BY <1>19 DEF ClaimCancel
<1>20. CASE \E c \in Cancels : MarkCancelling(c) BY <1>20 DEF MarkCancelling
<1>21. CASE \E r \in Requests : Refund(r) BY <1>21 DEF Refund
<1>22. CASE \E r \in Requests : RecordRefunded(r) BY <1>22 DEF RecordRefunded
<1>23. CASE \E r \in Requests : RestoreCredit(r) BY <1>23 DEF RestoreCredit
<1>24. CASE \E r \in Requests : StoreThrows(r) BY <1>24 DEF StoreThrows
<1>25. CASE \E r \in Requests : Crash(r) BY <1>25 DEF Crash
<1>26. CASE \E q \in Questions : IssueChallenge(q) BY <1>26 DEF IssueChallenge
<1>27. CASE \E q \in Questions : Submit(q) BY <1>27 DEF Submit
<1>28. CASE \E q \in Questions : StashExpires(q) BY <1>28 DEF StashExpires
<1>29. CASE \E q \in Questions : RefundTimeout(q) BY <1>29 DEF RefundTimeout
<1>30. CASE \E q \in Questions, method \in {"resolve", "refund"} : LandAbandoned(q, method)
       BY <1>30 DEF LandAbandoned
<1>31. CASE \E q \in Questions : SettleReservation(q) BY <1>31 DEF SettleReservation
<1> QED
  BY NextCases, <1>1, <1>2, <1>3, <1>4, <1>5, <1>6, <1>7, <1>8, <1>9, <1>10,
     <1>11, <1>12, <1>13, <1>14, <1>15, <1>16, <1>17, <1>18, <1>19, <1>20,
     <1>21, <1>22, <1>23, <1>24, <1>25, <1>26, <1>27, <1>28, <1>29, <1>30,
     <1>31

\* A request becomes active by finding the question paid for, and money that
\* has arrived never un-arrives.
LEMMA EscrowedStep ==
  ASSUME IInv, Next
  PROVE  Escrowed'
<1> USE DEF IInv, TypeOK, Escrowed, contractVars, jobVars, ledgerVars,
        requestVars, Goto, At, Requests, AdminCall, Settle, DropStash,
        AfterRefund, Counted, StoreSteps, CatchOf, Active, AskSteps,
        CancelSteps, RefundSteps
<1>1. CASE \E a \in Asks : ChargeBalance(a) BY <1>1 DEF ChargeBalance
<1>2. CASE \E a \in Asks : VerifyPayment(a) BY <1>2 DEF VerifyPayment
<1>3. CASE \E a \in Asks : StashQuestion(a) BY <1>3 DEF StashQuestion
<1>4. CASE \E a \in Asks : ClaimJob(a) BY <1>4 DEF ClaimJob
<1>5. CASE \E a \in Asks : CreateJob(a) BY <1>5 DEF CreateJob
<1>6. CASE \E a \in Asks : IndexJob(a) BY <1>6 DEF IndexJob
<1>7. CASE \E a \in Asks : TimerFires(a) BY <1>7 DEF TimerFires
<1>8. CASE \E a \in Asks : RefundForDispatchPause(a) BY <1>8 DEF RefundForDispatchPause
<1>9. CASE \E a \in Asks : RunFulfillment(a) BY <1>9 DEF RunFulfillment
<1>10. CASE \E a \in Asks : Collect(a) BY <1>10 DEF Collect
<1>11. CASE \E a \in Asks : Reconcile(a) BY <1>11 DEF Reconcile
<1>12. CASE \E a \in Asks : Resolve(a) BY <1>12 DEF Resolve
<1>13. CASE \E a \in Asks : RecordReputation(a) BY <1>13 DEF RecordReputation
<1>14. CASE \E a \in Asks : RecordResolved(a) BY <1>14 DEF RecordResolved
<1>15. CASE \E a \in Asks : Recheck(a) BY <1>15 DEF Recheck
<1>16. CASE \E a \in Asks : SettleLostRace(a) BY <1>16 DEF SettleLostRace
<1>17. CASE \E a \in Asks : RecordCrash(a) BY <1>17 DEF RecordCrash
<1>18. CASE \E c \in Cancels : CancelJob(c) BY <1>18 DEF CancelJob
<1>19. CASE \E c \in Cancels : ClaimCancel(c) BY <1>19 DEF ClaimCancel
<1>20. CASE \E c \in Cancels : MarkCancelling(c) BY <1>20 DEF MarkCancelling
<1>21. CASE \E r \in Requests : Refund(r) BY <1>21 DEF Refund
<1>22. CASE \E r \in Requests : RecordRefunded(r) BY <1>22 DEF RecordRefunded
<1>23. CASE \E r \in Requests : RestoreCredit(r) BY <1>23 DEF RestoreCredit
<1>24. CASE \E r \in Requests : StoreThrows(r) BY <1>24 DEF StoreThrows
<1>25. CASE \E r \in Requests : Crash(r) BY <1>25 DEF Crash
<1>26. CASE \E q \in Questions : IssueChallenge(q) BY <1>26 DEF IssueChallenge
<1>27. CASE \E q \in Questions : Submit(q) BY <1>27 DEF Submit
<1>28. CASE \E q \in Questions : StashExpires(q) BY <1>28 DEF StashExpires
<1>29. CASE \E q \in Questions : RefundTimeout(q) BY <1>29 DEF RefundTimeout
<1>30. CASE \E q \in Questions, method \in {"resolve", "refund"} : LandAbandoned(q, method)
       BY <1>30 DEF LandAbandoned
<1>31. CASE \E q \in Questions : SettleReservation(q) BY <1>31 DEF SettleReservation
<1> QED
  BY NextCases, <1>1, <1>2, <1>3, <1>4, <1>5, <1>6, <1>7, <1>8, <1>9, <1>10,
     <1>11, <1>12, <1>13, <1>14, <1>15, <1>16, <1>17, <1>18, <1>19, <1>20,
     <1>21, <1>22, <1>23, <1>24, <1>25, <1>26, <1>27, <1>28, <1>29, <1>30,
     <1>31

\* claimJob(): only ClaimJob makes a claimant, and only of an unclaimed question.
\* Nothing moves an unclaimed question: payouts and jobs belong to claimants,
\* and a cancel needs a job.
LEMMA OneClaimantStep ==
  ASSUME IInv, Next
  PROVE  OneClaimant'
<1> USE RequestsAssumption DEF IInv, TypeOK, OneClaimant, Roles, Uncommitted,
        Unreported, Claimant, Canceller, Unresolved, contractVars, jobVars,
        ledgerVars, requestVars, Goto, At, Requests, AdminCall, Settle,
        DropStash, AfterRefund, Counted, StoreSteps, CatchOf, Active,
        AskSteps, CancelSteps, RefundSteps
<1>1. CASE \E a \in Asks : ChargeBalance(a) BY <1>1 DEF ChargeBalance
<1>2. CASE \E a \in Asks : VerifyPayment(a) BY <1>2 DEF VerifyPayment
<1>3. CASE \E a \in Asks : StashQuestion(a) BY <1>3 DEF StashQuestion
<1>4. CASE \E a \in Asks : ClaimJob(a) BY <1>4 DEF ClaimJob
<1>5. CASE \E a \in Asks : CreateJob(a) BY <1>5 DEF CreateJob
<1>6. CASE \E a \in Asks : IndexJob(a) BY <1>6 DEF IndexJob
<1>7. CASE \E a \in Asks : TimerFires(a) BY <1>7 DEF TimerFires
<1>8. CASE \E a \in Asks : RefundForDispatchPause(a) BY <1>8 DEF RefundForDispatchPause
<1>9. CASE \E a \in Asks : RunFulfillment(a) BY <1>9 DEF RunFulfillment
<1>10. CASE \E a \in Asks : Collect(a) BY <1>10 DEF Collect
<1>11. CASE \E a \in Asks : Reconcile(a) BY <1>11 DEF Reconcile
<1>12. CASE \E a \in Asks : Resolve(a) BY <1>12 DEF Resolve
<1>13. CASE \E a \in Asks : RecordReputation(a) BY <1>13 DEF RecordReputation
<1>14. CASE \E a \in Asks : RecordResolved(a) BY <1>14 DEF RecordResolved
<1>15. CASE \E a \in Asks : Recheck(a) BY <1>15 DEF Recheck
<1>16. CASE \E a \in Asks : SettleLostRace(a) BY <1>16 DEF SettleLostRace
<1>17. CASE \E a \in Asks : RecordCrash(a) BY <1>17 DEF RecordCrash
<1>18. CASE \E c \in Cancels : CancelJob(c) BY <1>18 DEF CancelJob
<1>19. CASE \E c \in Cancels : ClaimCancel(c) BY <1>19 DEF ClaimCancel
<1>20. CASE \E c \in Cancels : MarkCancelling(c) BY <1>20 DEF MarkCancelling
<1>21. CASE \E r \in Requests : Refund(r) BY <1>21 DEF Refund
<1>22. CASE \E r \in Requests : RecordRefunded(r) BY <1>22 DEF RecordRefunded
<1>23. CASE \E r \in Requests : RestoreCredit(r) BY <1>23 DEF RestoreCredit
<1>24. CASE \E r \in Requests : StoreThrows(r) BY <1>24 DEF StoreThrows
<1>25. CASE \E r \in Requests : Crash(r) BY <1>25 DEF Crash
<1>26. CASE \E q \in Questions : IssueChallenge(q) BY <1>26 DEF IssueChallenge
<1>27. CASE \E q \in Questions : Submit(q) BY <1>27 DEF Submit
<1>28. CASE \E q \in Questions : StashExpires(q) BY <1>28 DEF StashExpires
<1>29. CASE \E q \in Questions : RefundTimeout(q) BY <1>29 DEF RefundTimeout
<1>30. CASE \E q \in Questions, method \in {"resolve", "refund"} : LandAbandoned(q, method)
       BY <1>30 DEF LandAbandoned
<1>31. CASE \E q \in Questions : SettleReservation(q) BY <1>31 DEF SettleReservation
<1> QED
  BY NextCases, <1>1, <1>2, <1>3, <1>4, <1>5, <1>6, <1>7, <1>8, <1>9, <1>10,
     <1>11, <1>12, <1>13, <1>14, <1>15, <1>16, <1>17, <1>18, <1>19, <1>20,
     <1>21, <1>22, <1>23, <1>24, <1>25, <1>26, <1>27, <1>28, <1>29, <1>30,
     <1>31

\* claimUndoDecision(): only the timer and a cancel decide, an open question
\* only, and each goes on only with the decision it took.
LEMMA OneDecisionStep ==
  ASSUME IInv, Next
  PROVE  OneDecision'
<1> USE RequestsAssumption, TiersAssumption DEF IInv, TypeOK, OneDecision,
        Roles, OneClaimant, CancelledNeverAnswered, PayoutsArePayable,
        Claimant, Deciding, Canceller, contractVars, jobVars, ledgerVars,
        requestVars, Goto, At, Requests, AdminCall, Settle, DropStash,
        AfterRefund, Counted, StoreSteps, CatchOf, Active, AskSteps,
        CancelSteps, RefundSteps
<1>1. CASE \E a \in Asks : ChargeBalance(a) BY <1>1 DEF ChargeBalance
<1>2. CASE \E a \in Asks : VerifyPayment(a) BY <1>2 DEF VerifyPayment
<1>3. CASE \E a \in Asks : StashQuestion(a) BY <1>3 DEF StashQuestion
<1>4. CASE \E a \in Asks : ClaimJob(a) BY <1>4 DEF ClaimJob
<1>5. CASE \E a \in Asks : CreateJob(a) BY <1>5 DEF CreateJob
<1>6. CASE \E a \in Asks : IndexJob(a) BY <1>6 DEF IndexJob
<1>7. CASE \E a \in Asks : TimerFires(a) BY <1>7 DEF TimerFires
<1>8. CASE \E a \in Asks : RefundForDispatchPause(a) BY <1>8 DEF RefundForDispatchPause
<1>9. CASE \E a \in Asks : RunFulfillment(a) BY <1>9 DEF RunFulfillment
<1>10. CASE \E a \in Asks : Collect(a) BY <1>10 DEF Collect
<1>11. CASE \E a \in Asks : Reconcile(a) BY <1>11 DEF Reconcile
<1>12. CASE \E a \in Asks : Resolve(a) BY <1>12 DEF Resolve
<1>13. CASE \E a \in Asks : RecordReputation(a) BY <1>13 DEF RecordReputation
<1>14. CASE \E a \in Asks : RecordResolved(a) BY <1>14 DEF RecordResolved
<1>15. CASE \E a \in Asks : Recheck(a) BY <1>15 DEF Recheck
<1>16. CASE \E a \in Asks : SettleLostRace(a) BY <1>16 DEF SettleLostRace
<1>17. CASE \E a \in Asks : RecordCrash(a) BY <1>17 DEF RecordCrash
<1>18. CASE \E c \in Cancels : CancelJob(c) BY <1>18 DEF CancelJob
<1>19. CASE \E c \in Cancels : ClaimCancel(c) BY <1>19 DEF ClaimCancel
<1>20. CASE \E c \in Cancels : MarkCancelling(c) BY <1>20 DEF MarkCancelling
<1>21. CASE \E r \in Requests : Refund(r) BY <1>21 DEF Refund
<1>22. CASE \E r \in Requests : RecordRefunded(r) BY <1>22 DEF RecordRefunded
<1>23. CASE \E r \in Requests : RestoreCredit(r) BY <1>23 DEF RestoreCredit
<1>24. CASE \E r \in Requests : StoreThrows(r) BY <1>24 DEF StoreThrows
<1>25. CASE \E r \in Requests : Crash(r) BY <1>25 DEF Crash
<1>26. CASE \E q \in Questions : IssueChallenge(q) BY <1>26 DEF IssueChallenge
<1>27. CASE \E q \in Questions : Submit(q) BY <1>27 DEF Submit
<1>28. CASE \E q \in Questions : StashExpires(q) BY <1>28 DEF StashExpires
<1>29. CASE \E q \in Questions : RefundTimeout(q) BY <1>29 DEF RefundTimeout
<1>30. CASE \E q \in Questions, method \in {"resolve", "refund"} : LandAbandoned(q, method)
       BY <1>30 DEF LandAbandoned
<1>31. CASE \E q \in Questions : SettleReservation(q) BY <1>31 DEF SettleReservation
<1> QED
  BY NextCases, <1>1, <1>2, <1>3, <1>4, <1>5, <1>6, <1>7, <1>8, <1>9, <1>10,
     <1>11, <1>12, <1>13, <1>14, <1>15, <1>16, <1>17, <1>18, <1>19, <1>20,
     <1>21, <1>22, <1>23, <1>24, <1>25, <1>26, <1>27, <1>28, <1>29, <1>30,
     <1>31

\* While the claimant has not reconciled, no other claimant can have sent a
\* payout or committed an action.
LEMMA UncommittedStep ==
  ASSUME IInv, Next
  PROVE  Uncommitted'
<1> USE RequestsAssumption DEF IInv, TypeOK, Uncommitted, Roles, OneClaimant,
        Claimant, Unresolved, RestoringReasons, AnsweredReasons, contractVars,
        jobVars, ledgerVars, requestVars, Goto, At, Requests, AdminCall,
        Settle, DropStash, AfterRefund, Counted, StoreSteps, CatchOf, Active,
        AskSteps, CancelSteps, RefundSteps
<1>1. CASE \E a \in Asks : ChargeBalance(a) BY <1>1 DEF ChargeBalance
<1>2. CASE \E a \in Asks : VerifyPayment(a) BY <1>2 DEF VerifyPayment
<1>3. CASE \E a \in Asks : StashQuestion(a) BY <1>3 DEF StashQuestion
<1>4. CASE \E a \in Asks : ClaimJob(a) BY <1>4 DEF ClaimJob
<1>5. CASE \E a \in Asks : CreateJob(a) BY <1>5 DEF CreateJob
<1>6. CASE \E a \in Asks : IndexJob(a) BY <1>6 DEF IndexJob
<1>7. CASE \E a \in Asks : TimerFires(a) BY <1>7 DEF TimerFires
<1>8. CASE \E a \in Asks : RefundForDispatchPause(a) BY <1>8 DEF RefundForDispatchPause
<1>9. CASE \E a \in Asks : RunFulfillment(a) BY <1>9 DEF RunFulfillment
<1>10. CASE \E a \in Asks : Collect(a) BY <1>10 DEF Collect
<1>11. CASE \E a \in Asks : Reconcile(a) BY <1>11 DEF Reconcile
<1>12. CASE \E a \in Asks : Resolve(a) BY <1>12 DEF Resolve
<1>13. CASE \E a \in Asks : RecordReputation(a) BY <1>13 DEF RecordReputation
<1>14. CASE \E a \in Asks : RecordResolved(a) BY <1>14 DEF RecordResolved
<1>15. CASE \E a \in Asks : Recheck(a) BY <1>15 DEF Recheck
<1>16. CASE \E a \in Asks : SettleLostRace(a) BY <1>16 DEF SettleLostRace
<1>17. CASE \E a \in Asks : RecordCrash(a) BY <1>17 DEF RecordCrash
<1>18. CASE \E c \in Cancels : CancelJob(c) BY <1>18 DEF CancelJob
<1>19. CASE \E c \in Cancels : ClaimCancel(c) BY <1>19 DEF ClaimCancel
<1>20. CASE \E c \in Cancels : MarkCancelling(c) BY <1>20 DEF MarkCancelling
<1>21. CASE \E r \in Requests : Refund(r) BY <1>21 DEF Refund
<1>22. CASE \E r \in Requests : RecordRefunded(r) BY <1>22 DEF RecordRefunded
<1>23. CASE \E r \in Requests : RestoreCredit(r) BY <1>23 DEF RestoreCredit
<1>24. CASE \E r \in Requests : StoreThrows(r) BY <1>24 DEF StoreThrows
<1>25. CASE \E r \in Requests : Crash(r) BY <1>25 DEF Crash
<1>26. CASE \E q \in Questions : IssueChallenge(q) BY <1>26 DEF IssueChallenge
<1>27. CASE \E q \in Questions : Submit(q) BY <1>27 DEF Submit
<1>28. CASE \E q \in Questions : StashExpires(q) BY <1>28 DEF StashExpires
<1>29. CASE \E q \in Questions : RefundTimeout(q) BY <1>29 DEF RefundTimeout
<1>30. CASE \E q \in Questions, method \in {"resolve", "refund"} : LandAbandoned(q, method)
       BY <1>30 DEF LandAbandoned
<1>31. CASE \E q \in Questions : SettleReservation(q) BY <1>31 DEF SettleReservation
<1> QED
  BY NextCases, <1>1, <1>2, <1>3, <1>4, <1>5, <1>6, <1>7, <1>8, <1>9, <1>10,
     <1>11, <1>12, <1>13, <1>14, <1>15, <1>16, <1>17, <1>18, <1>19, <1>20,
     <1>21, <1>22, <1>23, <1>24, <1>25, <1>26, <1>27, <1>28, <1>29, <1>30,
     <1>31

\* A payout is sent by the claimant that dispatched the question and committed
\* its action, and nobody else commits one after it.
LEMMA PayoutsArePayableStep ==
  ASSUME IInv, Next
  PROVE  PayoutsArePayable'
<1> USE RequestsAssumption DEF IInv, TypeOK, PayoutsArePayable, Roles,
        OneClaimant, Uncommitted, Claimant, Unresolved, Payable, contractVars,
        jobVars, ledgerVars, requestVars, Goto, At, Requests, AdminCall,
        Settle, DropStash, AfterRefund, Counted, StoreSteps, CatchOf, Active,
        AskSteps, CancelSteps, RefundSteps
<1>1. CASE \E a \in Asks : ChargeBalance(a) BY <1>1 DEF ChargeBalance
<1>2. CASE \E a \in Asks : VerifyPayment(a) BY <1>2 DEF VerifyPayment
<1>3. CASE \E a \in Asks : StashQuestion(a) BY <1>3 DEF StashQuestion
<1>4. CASE \E a \in Asks : ClaimJob(a) BY <1>4 DEF ClaimJob
<1>5. CASE \E a \in Asks : CreateJob(a) BY <1>5 DEF CreateJob
<1>6. CASE \E a \in Asks : IndexJob(a) BY <1>6 DEF IndexJob
<1>7. CASE \E a \in Asks : TimerFires(a) BY <1>7 DEF TimerFires
<1>8. CASE \E a \in Asks : RefundForDispatchPause(a) BY <1>8 DEF RefundForDispatchPause
<1>9. CASE \E a \in Asks : RunFulfillment(a) BY <1>9 DEF RunFulfillment
<1>10. CASE \E a \in Asks : Collect(a) BY <1>10 DEF Collect
<1>11. CASE \E a \in Asks : Reconcile(a) BY <1>11 DEF Reconcile
<1>12. CASE \E a \in Asks : Resolve(a) BY <1>12 DEF Resolve
<1>13. CASE \E a \in Asks : RecordReputation(a) BY <1>13 DEF RecordReputation
<1>14. CASE \E a \in Asks : RecordResolved(a) BY <1>14 DEF RecordResolved
<1>15. CASE \E a \in Asks : Recheck(a) BY <1>15 DEF Recheck
<1>16. CASE \E a \in Asks : SettleLostRace(a) BY <1>16 DEF SettleLostRace
<1>17. CASE \E a \in Asks : RecordCrash(a) BY <1>17 DEF RecordCrash
<1>18. CASE \E c \in Cancels : CancelJob(c) BY <1>18 DEF CancelJob
<1>19. CASE \E c \in Cancels : ClaimCancel(c) BY <1>19 DEF ClaimCancel
<1>20. CASE \E c \in Cancels : MarkCancelling(c) BY <1>20 DEF MarkCancelling
<1>21. CASE \E r \in Requests : Refund(r) BY <1>21 DEF Refund
<1>22. CASE \E r \in Requests : RecordRefunded(r) BY <1>22 DEF RecordRefunded
<1>23. CASE \E r \in Requests : RestoreCredit(r) BY <1>23 DEF RestoreCredit
<1>24. CASE \E r \in Requests : StoreThrows(r) BY <1>24 DEF StoreThrows
<1>25. CASE \E r \in Requests : Crash(r) BY <1>25 DEF Crash
<1>26. CASE \E q \in Questions : IssueChallenge(q) BY <1>26 DEF IssueChallenge
<1>27. CASE \E q \in Questions : Submit(q) BY <1>27 DEF Submit
<1>28. CASE \E q \in Questions : StashExpires(q) BY <1>28 DEF StashExpires
<1>29. CASE \E q \in Questions : RefundTimeout(q) BY <1>29 DEF RefundTimeout
<1>30. CASE \E q \in Questions, method \in {"resolve", "refund"} : LandAbandoned(q, method)
       BY <1>30 DEF LandAbandoned
<1>31. CASE \E q \in Questions : SettleReservation(q) BY <1>31 DEF SettleReservation
<1> QED
  BY NextCases, <1>1, <1>2, <1>3, <1>4, <1>5, <1>6, <1>7, <1>8, <1>9, <1>10,
     <1>11, <1>12, <1>13, <1>14, <1>15, <1>16, <1>17, <1>18, <1>19, <1>20,
     <1>21, <1>22, <1>23, <1>24, <1>25, <1>26, <1>27, <1>28, <1>29, <1>30,
     <1>31

\* Settled escrow stays settled, so what a step saw it land is still true when
\* the next one records it.
LEMMA WitnessedStep ==
  ASSUME IInv, Next
  PROVE  Witnessed'
<1> USE RequestsAssumption DEF IInv, TypeOK, Witnessed, Roles, contractVars,
        jobVars, ledgerVars, requestVars, Goto, At, Requests, AdminCall,
        Settle, DropStash, AfterRefund, Counted, StoreSteps, CatchOf, Active,
        AskSteps, CancelSteps, RefundSteps
<1>1. CASE \E a \in Asks : ChargeBalance(a) BY <1>1 DEF ChargeBalance
<1>2. CASE \E a \in Asks : VerifyPayment(a) BY <1>2 DEF VerifyPayment
<1>3. CASE \E a \in Asks : StashQuestion(a) BY <1>3 DEF StashQuestion
<1>4. CASE \E a \in Asks : ClaimJob(a) BY <1>4 DEF ClaimJob
<1>5. CASE \E a \in Asks : CreateJob(a) BY <1>5 DEF CreateJob
<1>6. CASE \E a \in Asks : IndexJob(a) BY <1>6 DEF IndexJob
<1>7. CASE \E a \in Asks : TimerFires(a) BY <1>7 DEF TimerFires
<1>8. CASE \E a \in Asks : RefundForDispatchPause(a) BY <1>8 DEF RefundForDispatchPause
<1>9. CASE \E a \in Asks : RunFulfillment(a) BY <1>9 DEF RunFulfillment
<1>10. CASE \E a \in Asks : Collect(a) BY <1>10 DEF Collect
<1>11. CASE \E a \in Asks : Reconcile(a) BY <1>11 DEF Reconcile
<1>12. CASE \E a \in Asks : Resolve(a) BY <1>12 DEF Resolve
<1>13. CASE \E a \in Asks : RecordReputation(a) BY <1>13 DEF RecordReputation
<1>14. CASE \E a \in Asks : RecordResolved(a) BY <1>14 DEF RecordResolved
<1>15. CASE \E a \in Asks : Recheck(a) BY <1>15 DEF Recheck
<1>16. CASE \E a \in Asks : SettleLostRace(a) BY <1>16 DEF SettleLostRace
<1>17. CASE \E a \in Asks : RecordCrash(a) BY <1>17 DEF RecordCrash
<1>18. CASE \E c \in Cancels : CancelJob(c) BY <1>18 DEF CancelJob
<1>19. CASE \E c \in Cancels : ClaimCancel(c) BY <1>19 DEF ClaimCancel
<1>20. CASE \E c \in Cancels : MarkCancelling(c) BY <1>20 DEF MarkCancelling
<1>21. CASE \E r \in Requests : Refund(r) BY <1>21 DEF Refund
<1>22. CASE \E r \in Requests : RecordRefunded(r) BY <1>22 DEF RecordRefunded
<1>23. CASE \E r \in Requests : RestoreCredit(r) BY <1>23 DEF RestoreCredit
<1>24. CASE \E r \in Requests : StoreThrows(r) BY <1>24 DEF StoreThrows
<1>25. CASE \E r \in Requests : Crash(r) BY <1>25 DEF Crash
<1>26. CASE \E q \in Questions : IssueChallenge(q) BY <1>26 DEF IssueChallenge
<1>27. CASE \E q \in Questions : Submit(q) BY <1>27 DEF Submit
<1>28. CASE \E q \in Questions : StashExpires(q) BY <1>28 DEF StashExpires
<1>29. CASE \E q \in Questions : RefundTimeout(q) BY <1>29 DEF RefundTimeout
<1>30. CASE \E q \in Questions, method \in {"resolve", "refund"} : LandAbandoned(q, method)
       BY <1>30 DEF LandAbandoned
<1>31. CASE \E q \in Questions : SettleReservation(q) BY <1>31 DEF SettleReservation
<1> QED
  BY NextCases, <1>1, <1>2, <1>3, <1>4, <1>5, <1>6, <1>7, <1>8, <1>9, <1>10,
     <1>11, <1>12, <1>13, <1>14, <1>15, <1>16, <1>17, <1>18, <1>19, <1>20,
     <1>21, <1>22, <1>23, <1>24, <1>25, <1>26, <1>27, <1>28, <1>29, <1>30,
     <1>31

\* The record is written from what was witnessed.
LEMMA OutcomeMatchesChainStep ==
  ASSUME IInv, Next
  PROVE  OutcomeMatchesChain'
<1> USE DEF IInv, TypeOK, OutcomeMatchesChain, Witnessed, contractVars,
        jobVars, ledgerVars, requestVars, Goto, At, Requests, AdminCall,
        Settle, DropStash, AfterRefund, Counted, StoreSteps, CatchOf, Active,
        AskSteps, CancelSteps, RefundSteps
<1>1. CASE \E a \in Asks : ChargeBalance(a) BY <1>1 DEF ChargeBalance
<1>2. CASE \E a \in Asks : VerifyPayment(a) BY <1>2 DEF VerifyPayment
<1>3. CASE \E a \in Asks : StashQuestion(a) BY <1>3 DEF StashQuestion
<1>4. CASE \E a \in Asks : ClaimJob(a) BY <1>4 DEF ClaimJob
<1>5. CASE \E a \in Asks : CreateJob(a) BY <1>5 DEF CreateJob
<1>6. CASE \E a \in Asks : IndexJob(a) BY <1>6 DEF IndexJob
<1>7. CASE \E a \in Asks : TimerFires(a) BY <1>7 DEF TimerFires
<1>8. CASE \E a \in Asks : RefundForDispatchPause(a) BY <1>8 DEF RefundForDispatchPause
<1>9. CASE \E a \in Asks : RunFulfillment(a) BY <1>9 DEF RunFulfillment
<1>10. CASE \E a \in Asks : Collect(a) BY <1>10 DEF Collect
<1>11. CASE \E a \in Asks : Reconcile(a) BY <1>11 DEF Reconcile
<1>12. CASE \E a \in Asks : Resolve(a) BY <1>12 DEF Resolve
<1>13. CASE \E a \in Asks : RecordReputation(a) BY <1>13 DEF RecordReputation
<1>14. CASE \E a \in Asks : RecordResolved(a) BY <1>14 DEF RecordResolved
<1>15. CASE \E a \in Asks : Recheck(a) BY <1>15 DEF Recheck
<1>16. CASE \E a \in Asks : SettleLostRace(a) BY <1>16 DEF SettleLostRace
<1>17. CASE \E a \in Asks : RecordCrash(a) BY <1>17 DEF RecordCrash
<1>18. CASE \E c \in Cancels : CancelJob(c) BY <1>18 DEF CancelJob
<1>19. CASE \E c \in Cancels : ClaimCancel(c) BY <1>19 DEF ClaimCancel
<1>20. CASE \E c \in Cancels : MarkCancelling(c) BY <1>20 DEF MarkCancelling
<1>21. CASE \E r \in Requests : Refund(r) BY <1>21 DEF Refund
<1>22. CASE \E r \in Requests : RecordRefunded(r) BY <1>22 DEF RecordRefunded
<1>23. CASE \E r \in Requests : RestoreCredit(r) BY <1>23 DEF RestoreCredit
<1>24. CASE \E r \in Requests : StoreThrows(r) BY <1>24 DEF StoreThrows
<1>25. CASE \E r \in Requests : Crash(r) BY <1>25 DEF Crash
<1>26. CASE \E q \in Questions : IssueChallenge(q) BY <1>26 DEF IssueChallenge
<1>27. CASE \E q \in Questions : Submit(q) BY <1>27 DEF Submit
<1>28. CASE \E q \in Questions : StashExpires(q) BY <1>28 DEF StashExpires
<1>29. CASE \E q \in Questions : RefundTimeout(q) BY <1>29 DEF RefundTimeout
<1>30. CASE \E q \in Questions, method \in {"resolve", "refund"} : LandAbandoned(q, method)
       BY <1>30 DEF LandAbandoned
<1>31. CASE \E q \in Questions : SettleReservation(q) BY <1>31 DEF SettleReservation
<1> QED
  BY NextCases, <1>1, <1>2, <1>3, <1>4, <1>5, <1>6, <1>7, <1>8, <1>9, <1>10,
     <1>11, <1>12, <1>13, <1>14, <1>15, <1>16, <1>17, <1>18, <1>19, <1>20,
     <1>21, <1>22, <1>23, <1>24, <1>25, <1>26, <1>27, <1>28, <1>29, <1>30,
     <1>31

\* A dispatched held question has the decision `dispatch`, and decisions are
\* taken once.
LEMMA CancelledNeverAnsweredStep ==
  ASSUME IInv, Next
  PROVE  CancelledNeverAnswered'
<1> USE RequestsAssumption DEF IInv, TypeOK, CancelledNeverAnswered, Roles,
        OneDecision, PayoutsArePayable, Deciding, Canceller, Unresolved,
        Payable, contractVars, jobVars, ledgerVars, requestVars, Goto, At,
        Requests, AdminCall, Settle, DropStash, AfterRefund, Counted,
        StoreSteps, CatchOf, Active, AskSteps, CancelSteps, RefundSteps
<1>1. CASE \E a \in Asks : ChargeBalance(a) BY <1>1 DEF ChargeBalance
<1>2. CASE \E a \in Asks : VerifyPayment(a) BY <1>2 DEF VerifyPayment
<1>3. CASE \E a \in Asks : StashQuestion(a) BY <1>3 DEF StashQuestion
<1>4. CASE \E a \in Asks : ClaimJob(a) BY <1>4 DEF ClaimJob
<1>5. CASE \E a \in Asks : CreateJob(a) BY <1>5 DEF CreateJob
<1>6. CASE \E a \in Asks : IndexJob(a) BY <1>6 DEF IndexJob
<1>7. CASE \E a \in Asks : TimerFires(a) BY <1>7 DEF TimerFires
<1>8. CASE \E a \in Asks : RefundForDispatchPause(a) BY <1>8 DEF RefundForDispatchPause
<1>9. CASE \E a \in Asks : RunFulfillment(a) BY <1>9 DEF RunFulfillment
<1>10. CASE \E a \in Asks : Collect(a) BY <1>10 DEF Collect
<1>11. CASE \E a \in Asks : Reconcile(a) BY <1>11 DEF Reconcile
<1>12. CASE \E a \in Asks : Resolve(a) BY <1>12 DEF Resolve
<1>13. CASE \E a \in Asks : RecordReputation(a) BY <1>13 DEF RecordReputation
<1>14. CASE \E a \in Asks : RecordResolved(a) BY <1>14 DEF RecordResolved
<1>15. CASE \E a \in Asks : Recheck(a) BY <1>15 DEF Recheck
<1>16. CASE \E a \in Asks : SettleLostRace(a) BY <1>16 DEF SettleLostRace
<1>17. CASE \E a \in Asks : RecordCrash(a) BY <1>17 DEF RecordCrash
<1>18. CASE \E c \in Cancels : CancelJob(c) BY <1>18 DEF CancelJob
<1>19. CASE \E c \in Cancels : ClaimCancel(c) BY <1>19 DEF ClaimCancel
<1>20. CASE \E c \in Cancels : MarkCancelling(c) BY <1>20 DEF MarkCancelling
<1>21. CASE \E r \in Requests : Refund(r) BY <1>21 DEF Refund
<1>22. CASE \E r \in Requests : RecordRefunded(r) BY <1>22 DEF RecordRefunded
<1>23. CASE \E r \in Requests : RestoreCredit(r) BY <1>23 DEF RestoreCredit
<1>24. CASE \E r \in Requests : StoreThrows(r) BY <1>24 DEF StoreThrows
<1>25. CASE \E r \in Requests : Crash(r) BY <1>25 DEF Crash
<1>26. CASE \E q \in Questions : IssueChallenge(q) BY <1>26 DEF IssueChallenge
<1>27. CASE \E q \in Questions : Submit(q) BY <1>27 DEF Submit
<1>28. CASE \E q \in Questions : StashExpires(q) BY <1>28 DEF StashExpires
<1>29. CASE \E q \in Questions : RefundTimeout(q) BY <1>29 DEF RefundTimeout
<1>30. CASE \E q \in Questions, method \in {"resolve", "refund"} : LandAbandoned(q, method)
       BY <1>30 DEF LandAbandoned
<1>31. CASE \E q \in Questions : SettleReservation(q) BY <1>31 DEF SettleReservation
<1> QED
  BY NextCases, <1>1, <1>2, <1>3, <1>4, <1>5, <1>6, <1>7, <1>8, <1>9, <1>10,
     <1>11, <1>12, <1>13, <1>14, <1>15, <1>16, <1>17, <1>18, <1>19, <1>20,
     <1>21, <1>22, <1>23, <1>24, <1>25, <1>26, <1>27, <1>28, <1>29, <1>30,
     <1>31

\* Only drivers report, one report each, and there is one driver.
LEMMA UnreportedStep ==
  ASSUME IInv, Next
  PROVE  Unreported'
<1> USE RequestsAssumption DEF IInv, TypeOK, Unreported, Roles, OneClaimant,
        OneDecision, Claimant, Canceller, Deciding, contractVars, jobVars,
        ledgerVars, requestVars, Goto, At, Requests, AdminCall, Settle,
        DropStash, AfterRefund, Counted, StoreSteps, CatchOf, Active,
        AskSteps, CancelSteps, RefundSteps
<1>1. CASE \E a \in Asks : ChargeBalance(a) BY <1>1 DEF ChargeBalance
<1>2. CASE \E a \in Asks : VerifyPayment(a) BY <1>2 DEF VerifyPayment
<1>3. CASE \E a \in Asks : StashQuestion(a) BY <1>3 DEF StashQuestion
<1>4. CASE \E a \in Asks : ClaimJob(a) BY <1>4 DEF ClaimJob
<1>5. CASE \E a \in Asks : CreateJob(a) BY <1>5 DEF CreateJob
<1>6. CASE \E a \in Asks : IndexJob(a) BY <1>6 DEF IndexJob
<1>7. CASE \E a \in Asks : TimerFires(a) BY <1>7 DEF TimerFires
<1>8. CASE \E a \in Asks : RefundForDispatchPause(a) BY <1>8 DEF RefundForDispatchPause
<1>9. CASE \E a \in Asks : RunFulfillment(a) BY <1>9 DEF RunFulfillment
<1>10. CASE \E a \in Asks : Collect(a) BY <1>10 DEF Collect
<1>11. CASE \E a \in Asks : Reconcile(a) BY <1>11 DEF Reconcile
<1>12. CASE \E a \in Asks : Resolve(a) BY <1>12 DEF Resolve
<1>13. CASE \E a \in Asks : RecordReputation(a) BY <1>13 DEF RecordReputation
<1>14. CASE \E a \in Asks : RecordResolved(a) BY <1>14 DEF RecordResolved
<1>15. CASE \E a \in Asks : Recheck(a) BY <1>15 DEF Recheck
<1>16. CASE \E a \in Asks : SettleLostRace(a) BY <1>16 DEF SettleLostRace
<1>17. CASE \E a \in Asks : RecordCrash(a) BY <1>17 DEF RecordCrash
<1>18. CASE \E c \in Cancels : CancelJob(c) BY <1>18 DEF CancelJob
<1>19. CASE \E c \in Cancels : ClaimCancel(c) BY <1>19 DEF ClaimCancel
<1>20. CASE \E c \in Cancels : MarkCancelling(c) BY <1>20 DEF MarkCancelling
<1>21. CASE \E r \in Requests : Refund(r) BY <1>21 DEF Refund
<1>22. CASE \E r \in Requests : RecordRefunded(r) BY <1>22 DEF RecordRefunded
<1>23. CASE \E r \in Requests : RestoreCredit(r) BY <1>23 DEF RestoreCredit
<1>24. CASE \E r \in Requests : StoreThrows(r) BY <1>24 DEF StoreThrows
<1>25. CASE \E r \in Requests : Crash(r) BY <1>25 DEF Crash
<1>26. CASE \E q \in Questions : IssueChallenge(q) BY <1>26 DEF IssueChallenge
<1>27. CASE \E q \in Questions : Submit(q) BY <1>27 DEF Submit
<1>28. CASE \E q \in Questions : StashExpires(q) BY <1>28 DEF StashExpires
<1>29. CASE \E q \in Questions : RefundTimeout(q) BY <1>29 DEF RefundTimeout
<1>30. CASE \E q \in Questions, method \in {"resolve", "refund"} : LandAbandoned(q, method)
       BY <1>30 DEF LandAbandoned
<1>31. CASE \E q \in Questions : SettleReservation(q) BY <1>31 DEF SettleReservation
<1> QED
  BY NextCases, <1>1, <1>2, <1>3, <1>4, <1>5, <1>6, <1>7, <1>8, <1>9, <1>10,
     <1>11, <1>12, <1>13, <1>14, <1>15, <1>16, <1>17, <1>18, <1>19, <1>20,
     <1>21, <1>22, <1>23, <1>24, <1>25, <1>26, <1>27, <1>28, <1>29, <1>30,
     <1>31

\* charge() opens each metered question once, for the ask that called it.
LEMMA MeteredOnceStep ==
  ASSUME IInv, Next
  PROVE  MeteredOnce'
<1> USE RequestsAssumption DEF IInv, TypeOK, MeteredOnce, Roles, Escrowed,
        OneClaimant, Claimant, contractVars, jobVars, ledgerVars, requestVars,
        Goto, At, Requests, AdminCall, Settle, DropStash, AfterRefund,
        Counted, StoreSteps, CatchOf, Active, AskSteps, CancelSteps,
        RefundSteps
<1>1. CASE \E a \in Asks : ChargeBalance(a) BY <1>1 DEF ChargeBalance
<1>2. CASE \E a \in Asks : VerifyPayment(a) BY <1>2 DEF VerifyPayment
<1>3. CASE \E a \in Asks : StashQuestion(a) BY <1>3 DEF StashQuestion
<1>4. CASE \E a \in Asks : ClaimJob(a) BY <1>4 DEF ClaimJob
<1>5. CASE \E a \in Asks : CreateJob(a) BY <1>5 DEF CreateJob
<1>6. CASE \E a \in Asks : IndexJob(a) BY <1>6 DEF IndexJob
<1>7. CASE \E a \in Asks : TimerFires(a) BY <1>7 DEF TimerFires
<1>8. CASE \E a \in Asks : RefundForDispatchPause(a) BY <1>8 DEF RefundForDispatchPause
<1>9. CASE \E a \in Asks : RunFulfillment(a) BY <1>9 DEF RunFulfillment
<1>10. CASE \E a \in Asks : Collect(a) BY <1>10 DEF Collect
<1>11. CASE \E a \in Asks : Reconcile(a) BY <1>11 DEF Reconcile
<1>12. CASE \E a \in Asks : Resolve(a) BY <1>12 DEF Resolve
<1>13. CASE \E a \in Asks : RecordReputation(a) BY <1>13 DEF RecordReputation
<1>14. CASE \E a \in Asks : RecordResolved(a) BY <1>14 DEF RecordResolved
<1>15. CASE \E a \in Asks : Recheck(a) BY <1>15 DEF Recheck
<1>16. CASE \E a \in Asks : SettleLostRace(a) BY <1>16 DEF SettleLostRace
<1>17. CASE \E a \in Asks : RecordCrash(a) BY <1>17 DEF RecordCrash
<1>18. CASE \E c \in Cancels : CancelJob(c) BY <1>18 DEF CancelJob
<1>19. CASE \E c \in Cancels : ClaimCancel(c) BY <1>19 DEF ClaimCancel
<1>20. CASE \E c \in Cancels : MarkCancelling(c) BY <1>20 DEF MarkCancelling
<1>21. CASE \E r \in Requests : Refund(r) BY <1>21 DEF Refund
<1>22. CASE \E r \in Requests : RecordRefunded(r) BY <1>22 DEF RecordRefunded
<1>23. CASE \E r \in Requests : RestoreCredit(r) BY <1>23 DEF RestoreCredit
<1>24. CASE \E r \in Requests : StoreThrows(r) BY <1>24 DEF StoreThrows
<1>25. CASE \E r \in Requests : Crash(r) BY <1>25 DEF Crash
<1>26. CASE \E q \in Questions : IssueChallenge(q) BY <1>26 DEF IssueChallenge
<1>27. CASE \E q \in Questions : Submit(q) BY <1>27 DEF Submit
<1>28. CASE \E q \in Questions : StashExpires(q) BY <1>28 DEF StashExpires
<1>29. CASE \E q \in Questions : RefundTimeout(q) BY <1>29 DEF RefundTimeout
<1>30. CASE \E q \in Questions, method \in {"resolve", "refund"} : LandAbandoned(q, method)
       BY <1>30 DEF LandAbandoned
<1>31. CASE \E q \in Questions : SettleReservation(q) BY <1>31 DEF SettleReservation
<1> QED
  BY NextCases, <1>1, <1>2, <1>3, <1>4, <1>5, <1>6, <1>7, <1>8, <1>9, <1>10,
     <1>11, <1>12, <1>13, <1>14, <1>15, <1>16, <1>17, <1>18, <1>19, <1>20,
     <1>21, <1>22, <1>23, <1>24, <1>25, <1>26, <1>27, <1>28, <1>29, <1>30,
     <1>31

\* Credit is restored by the question's only ask, at its end, or by a cancel
\* whose decision keeps that ask from going on.
LEMMA RestorationStep ==
  ASSUME IInv, Next
  PROVE  Restoration'
<1> USE RequestsAssumption, FundingAssumption DEF IInv, TypeOK, Restoration,
        Roles, Escrowed, OneClaimant, OneDecision, Uncommitted,
        PayoutsArePayable, CancelledNeverAnswered, MeteredOnce, Claimant,
        Canceller, Deciding, Forward, Unresolved, Payable, RestoringReasons,
        AnsweredReasons, contractVars, jobVars, ledgerVars, requestVars, Goto,
        At, Requests, AdminCall, Settle, DropStash, AfterRefund, Counted,
        StoreSteps, CatchOf, Active, AskSteps, CancelSteps, RefundSteps
<1>1. CASE \E a \in Asks : ChargeBalance(a) BY <1>1 DEF ChargeBalance
<1>2. CASE \E a \in Asks : VerifyPayment(a) BY <1>2 DEF VerifyPayment
<1>3. CASE \E a \in Asks : StashQuestion(a) BY <1>3 DEF StashQuestion
<1>4. CASE \E a \in Asks : ClaimJob(a) BY <1>4 DEF ClaimJob
<1>5. CASE \E a \in Asks : CreateJob(a) BY <1>5 DEF CreateJob
<1>6. CASE \E a \in Asks : IndexJob(a)
  <2>1. PICK a \in Asks : IndexJob(a)
    BY <1>6
  <2>2. /\ pc[a] = "index" /\ on' = on /\ why' = why /\ restored' = restored /\ decision' = decision
        /\ pc' = [pc EXCEPT ![a] = pc'[a]] /\ pc'[a] \in {"done", "hold", "pause"}
        /\ chain' = chain /\ mempool' = mempool /\ claimed' = claimed
        /\ \A q \in Questions : metering'[q] = IF q = on[a] /\ q \in Api THEN "due" ELSE metering[q]
    BY <2>1 DEF IndexJob
  <2>3. chain[on[a]] # "none" /\ metering[on[a]] = "none" /\ claimed[on[a]]
    BY <2>2
  <2>4. \A r \in Requests : pc'[r] = "restore" => pc[r] = "restore"
    BY <2>2
  <2>5. \A q \in Questions : restored'[q] > 0 \/ metering'[q] # "none" => q \in Api /\ chain'[q] # "none"
    BY <2>2, <2>3
  <2>6. ASSUME NEW q \in Questions, restored'[q] > 0, metering'[q] # "thrown"
        PROVE  /\ Unresolved(q)'
               /\ \A b \in Asks : on'[b] = q /\ pc'[b] \in Forward => decision'[q] = "cancel"
    <3>1. metering[q] # "thrown"
      BY <2>2, <2>3, <2>6
    <3> QED
      BY <2>2, <2>6, <3>1
  <2>7. ASSUME NEW b \in Asks, pc'[b] \in {"create", "index"} PROVE metering'[on'[b]] = "none"
    <3>1. b # a /\ pc[b] \in {"create", "index"} /\ on[b] # on[a] /\ metering[on[b]] = "none"
      BY <2>2, <2>7
    <3> QED
      BY <2>2, <3>1
  <2>8. \A q \in Questions : ~claimed'[q] => metering'[q] = "none"
    BY <2>2, <2>3
  <2> QED
    BY <2>2, <2>4, <2>5, <2>6, <2>7, <2>8
<1>7. CASE \E a \in Asks : TimerFires(a) BY <1>7 DEF TimerFires
<1>8. CASE \E a \in Asks : RefundForDispatchPause(a) BY <1>8 DEF RefundForDispatchPause
<1>9. CASE \E a \in Asks : RunFulfillment(a) BY <1>9 DEF RunFulfillment
<1>10. CASE \E a \in Asks : Collect(a) BY <1>10 DEF Collect
<1>11. CASE \E a \in Asks : Reconcile(a) BY <1>11 DEF Reconcile
<1>12. CASE \E a \in Asks : Resolve(a) BY <1>12 DEF Resolve
<1>13. CASE \E a \in Asks : RecordReputation(a) BY <1>13 DEF RecordReputation
<1>14. CASE \E a \in Asks : RecordResolved(a) BY <1>14 DEF RecordResolved
<1>15. CASE \E a \in Asks : Recheck(a) BY <1>15 DEF Recheck
<1>16. CASE \E a \in Asks : SettleLostRace(a) BY <1>16 DEF SettleLostRace
<1>17. CASE \E a \in Asks : RecordCrash(a) BY <1>17 DEF RecordCrash
<1>18. CASE \E c \in Cancels : CancelJob(c) BY <1>18 DEF CancelJob
<1>19. CASE \E c \in Cancels : ClaimCancel(c) BY <1>19 DEF ClaimCancel
<1>20. CASE \E c \in Cancels : MarkCancelling(c) BY <1>20 DEF MarkCancelling
<1>21. CASE \E r \in Requests : Refund(r) BY <1>21 DEF Refund
<1>22. CASE \E r \in Requests : RecordRefunded(r) BY <1>22 DEF RecordRefunded
<1>23. CASE \E r \in Requests : RestoreCredit(r) BY <1>23 DEF RestoreCredit
<1>24. CASE \E r \in Requests : StoreThrows(r) BY <1>24 DEF StoreThrows
<1>25. CASE \E r \in Requests : Crash(r) BY <1>25 DEF Crash
<1>26. CASE \E q \in Questions : IssueChallenge(q) BY <1>26 DEF IssueChallenge
<1>27. CASE \E q \in Questions : Submit(q) BY <1>27 DEF Submit
<1>28. CASE \E q \in Questions : StashExpires(q) BY <1>28 DEF StashExpires
<1>29. CASE \E q \in Questions : RefundTimeout(q) BY <1>29 DEF RefundTimeout
<1>30. CASE \E q \in Questions, method \in {"resolve", "refund"} : LandAbandoned(q, method)
       BY <1>30 DEF LandAbandoned
<1>31. CASE \E q \in Questions : SettleReservation(q) BY <1>31 DEF SettleReservation
<1> QED
  BY NextCases, <1>1, <1>2, <1>3, <1>4, <1>5, <1>6, <1>7, <1>8, <1>9, <1>10,
     <1>11, <1>12, <1>13, <1>14, <1>15, <1>16, <1>17, <1>18, <1>19, <1>20,
     <1>21, <1>22, <1>23, <1>24, <1>25, <1>26, <1>27, <1>28, <1>29, <1>30,
     <1>31
-----------------------------------------------------------------------------
(* The invariant *)

LEMMA InitIInv ==
  ASSUME Init
  PROVE  IInv
<1> USE RequestsAssumption
    DEF Init, Requests, Active, AskSteps, CancelSteps, RefundSteps, Reasons,
        Statuses, Outcomes
<1>1. TypeOK BY DEF TypeOK
<1>2. Roles BY DEF Roles
<1>3. Escrowed BY DEF Escrowed
<1>4. OneClaimant BY DEF OneClaimant, Claimant, Unresolved
<1>5. OneDecision BY DEF OneDecision, Deciding, Canceller
<1>6. Uncommitted BY DEF Uncommitted
<1>7. PayoutsArePayable BY DEF PayoutsArePayable, Unresolved
<1>8. Witnessed BY DEF Witnessed
<1>9. OutcomeMatchesChain BY DEF OutcomeMatchesChain
<1>10. CancelledNeverAnswered BY DEF CancelledNeverAnswered
<1>11. Unreported BY DEF Unreported, Claimant, Canceller
<1>12. MeteredOnce BY DEF MeteredOnce
<1>13. Restoration BY DEF Restoration, Forward
<1> QED
  BY <1>1, <1>2, <1>3, <1>4, <1>5, <1>6, <1>7, <1>8, <1>9, <1>10, <1>11, <1>12,
     <1>13 DEF IInv

LEMMA StutterIInv ==
  ASSUME IInv, UNCHANGED vars
  PROVE  IInv'
<1> USE DEF IInv, vars
<1>1. TypeOK' BY DEF TypeOK
<1>2. Roles' BY DEF Roles
<1>3. Escrowed' BY DEF Escrowed
<1>4. OneClaimant' BY DEF OneClaimant, Unresolved
<1>5. OneDecision' BY DEF OneDecision
<1>6. Uncommitted' BY DEF Uncommitted, Unresolved
<1>7. PayoutsArePayable' BY DEF PayoutsArePayable, Payable, Unresolved
<1>8. Witnessed' BY DEF Witnessed
<1>9. OutcomeMatchesChain' BY DEF OutcomeMatchesChain
<1>10. CancelledNeverAnswered' BY DEF CancelledNeverAnswered
<1>11. Unreported' BY DEF Unreported
<1>12. MeteredOnce' BY DEF MeteredOnce
<1>13. Restoration' BY DEF Restoration, Unresolved
<1> QED
  BY <1>1, <1>2, <1>3, <1>4, <1>5, <1>6, <1>7, <1>8, <1>9, <1>10, <1>11, <1>12,
     <1>13 DEF IInv

LEMMA NextIInv ==
  ASSUME IInv, Next
  PROVE  IInv'
BY TypeOKStep, RolesStep, EscrowedStep, OneClaimantStep, OneDecisionStep,
   UncommittedStep, PayoutsArePayableStep, WitnessedStep, OutcomeMatchesChainStep,
   CancelledNeverAnsweredStep, UnreportedStep, MeteredOnceStep, RestorationStep
   DEF IInv

\* IInv holds in every reachable state of every instance: the invariant behind
\* everything below (oracle.js:192-771, undoWindow.js:45-85).
THEOREM Invariance == Spec => []IInv
<1>1. Init => IInv
  BY InitIInv
<1>2. IInv /\ [Next]_vars => IInv'
  BY NextIInv, StutterIInv
<1> QED
  BY <1>1, <1>2, PTL DEF Spec

-----------------------------------------------------------------------------
(* Safety *)

\* Every variable keeps its type (the records of jobs.js, undoWindow.js and of
\* the contract).
THEOREM Typing == Spec => []TypeOK
<1>1. IInv => TypeOK
  BY DEF IInv
<1> QED
  BY <1>1, Invariance, PTL

\* No two requests ever decide about the same question at once: claimants are
\* unique by claimJob(), and a claimant past the undo window and a cancel would
\* both have won claimUndoDecision() (jobs.js:268-271, undoWindow.js:45-50).
THEOREM OneDriverTheorem == Spec => []OneDriver
<1>1. ASSUME IInv PROVE OneDriver
  <2> SUFFICES ASSUME NEW r \in Requests, NEW s \in Requests, r # s,
                      pc[r] \in Deciding, pc[s] \in Deciding, on[r] = on[s]
               PROVE  FALSE
    BY DEF OneDriver
  <2> USE <1>1 DEF IInv, TypeOK, OneDecision, Canceller, Deciding, Active,
                   AskSteps, CancelSteps, RefundSteps, Requests
  <2>1. CASE r \in Asks /\ s \in Asks
    BY <2>1 DEF OneClaimant, Claimant
  <2>2. CASE r \in Cancels /\ s \in Cancels
    BY <2>2 DEF Roles
  <2>3. CASE r \in Asks /\ s \in Cancels
    BY <2>3 DEF Roles
  <2>4. CASE r \in Cancels /\ s \in Asks
    BY <2>4 DEF Roles
  <2> QED
    BY <2>1, <2>2, <2>3, <2>4 DEF Requests
<1> QED
  BY <1>1, Invariance, PTL

\* A question whose cancel won is never put to workers, and never paid out,
\* whatever the timer, other instances and lost calls do (undoWindow.js:14-22).
THEOREM UndoMeansUndo == Spec => []CancelledNeverAnswered
<1>1. IInv => CancelledNeverAnswered
  BY DEF IInv
<1> QED
  BY <1>1, Invariance, PTL

\* A job recorded as resolved was paid out, and one recorded as refunded or as
\* lost to the timeout was refunded, even where the store throws in between
\* (oracle.js:655-771).
THEOREM RecordsAreTrue == Spec => []OutcomeMatchesChain
<1>1. IInv => OutcomeMatchesChain
  BY DEF IInv
<1> QED
  BY <1>1, Invariance, PTL

\* Workers are paid only for a question that was put to them, and never against
\* a committed record that says refund, even by a call that was given up on
\* (oracle.js:504-519).
THEOREM PayoutsAreCommitted == Spec => []PayoutWasCommitted
<1>1. IInv => PayoutWasCommitted
  BY DEF IInv, PayoutsArePayable, Payable, Unresolved, PayoutWasCommitted
<1> QED
  BY <1>1, Invariance, PTL

\* An API customer gets credit back only for a question that is not paid out and
\* never will be (oracle.js:341-350).
THEOREM RestoredCreditIsReturnedEscrow == Spec => []RestoredNeverPaidOut
<1>1. ASSUME IInv PROVE RestoredNeverPaidOut
  BY <1>1 DEF IInv, Restoration, Unresolved, RestoredNeverPaidOut
<1> QED
  BY <1>1, Invariance, PTL

-----------------------------------------------------------------------------
(* Once each, while the store does not throw *)

\* Only the claimant counts answers, on one of three paths that do not meet again.
LEMMA CountedOnceStep ==
  ASSUME IInv, OnceInv, ~StoreFaults, Next
  PROVE  CountedOnce'
<1> USE RequestsAssumption, FundingAssumption DEF OnceInv, IInv, TypeOK,
        CountedOnce, Roles, OneClaimant, RestoringReasons, AnsweredReasons,
        Claimant, Canceller, Deciding, contractVars, jobVars, ledgerVars,
        requestVars, Goto, At, Requests, AdminCall, Settle, DropStash, AfterRefund,
        Counted, StoreSteps, CatchOf, Active, AskSteps, CancelSteps, RefundSteps
<1>1. CASE \E a \in Asks : ChargeBalance(a) BY <1>1 DEF ChargeBalance
<1>2. CASE \E a \in Asks : VerifyPayment(a) BY <1>2 DEF VerifyPayment
<1>3. CASE \E a \in Asks : StashQuestion(a) BY <1>3 DEF StashQuestion
<1>4. CASE \E a \in Asks : ClaimJob(a) BY <1>4 DEF ClaimJob
<1>5. CASE \E a \in Asks : CreateJob(a) BY <1>5 DEF CreateJob
<1>6. CASE \E a \in Asks : IndexJob(a) BY <1>6 DEF IndexJob
<1>7. CASE \E a \in Asks : TimerFires(a) BY <1>7 DEF TimerFires
<1>8. CASE \E a \in Asks : RefundForDispatchPause(a) BY <1>8 DEF RefundForDispatchPause
<1>9. CASE \E a \in Asks : RunFulfillment(a) BY <1>9 DEF RunFulfillment
<1>10. CASE \E a \in Asks : Collect(a) BY <1>10 DEF Collect
<1>11. CASE \E a \in Asks : Reconcile(a) BY <1>11 DEF Reconcile
<1>12. CASE \E a \in Asks : Resolve(a) BY <1>12 DEF Resolve
<1>13. CASE \E a \in Asks : RecordReputation(a) BY <1>13 DEF RecordReputation
<1>14. CASE \E a \in Asks : RecordResolved(a) BY <1>14 DEF RecordResolved
<1>15. CASE \E a \in Asks : Recheck(a) BY <1>15 DEF Recheck
<1>16. CASE \E a \in Asks : SettleLostRace(a) BY <1>16 DEF SettleLostRace
<1>17. CASE \E a \in Asks : RecordCrash(a) BY <1>17 DEF RecordCrash
<1>18. CASE \E c \in Cancels : CancelJob(c) BY <1>18 DEF CancelJob
<1>19. CASE \E c \in Cancels : ClaimCancel(c) BY <1>19 DEF ClaimCancel
<1>20. CASE \E c \in Cancels : MarkCancelling(c) BY <1>20 DEF MarkCancelling
<1>21. CASE \E r \in Requests : Refund(r) BY <1>21 DEF Refund
<1>22. CASE \E r \in Requests : RecordRefunded(r) BY <1>22 DEF RecordRefunded
<1>23. CASE \E r \in Requests : RestoreCredit(r) BY <1>23 DEF RestoreCredit
<1>24. CASE \E r \in Requests : StoreThrows(r) BY <1>24 DEF StoreThrows
<1>25. CASE \E r \in Requests : Crash(r) BY <1>25 DEF Crash
<1>26. CASE \/ \E q \in Questions : IssueChallenge(q) \/ Submit(q) \/ StashExpires(q) \/ RefundTimeout(q)
         \/ \E q \in Questions, method \in {"resolve", "refund"} : LandAbandoned(q, method)
  BY <1>26 DEF IssueChallenge, Submit, StashExpires, RefundTimeout, LandAbandoned
<1>27. CASE \E q \in Questions : SettleReservation(q) BY <1>27 DEF SettleReservation
<1> QED
  BY NextCases, <1>1, <1>2, <1>3, <1>4, <1>5, <1>6, <1>7, <1>8, <1>9, <1>10, <1>11, <1>12, <1>13, <1>14,
     <1>15, <1>16, <1>17, <1>18, <1>19, <1>20, <1>21, <1>22, <1>23, <1>24, <1>25, <1>26, <1>27

\* A charge that failed, an ask that gives up and a cancel exclude one another.
LEMMA CreditedOnceStep ==
  ASSUME IInv, OnceInv, ~StoreFaults, Next
  PROVE  CreditedOnce'
<1> USE RequestsAssumption, FundingAssumption DEF OnceInv, IInv, TypeOK,
        CreditedOnce, Roles, Escrowed, OneClaimant, OneDecision, Unreported,
        MeteredOnce, Restoration, RestoringReasons, Claimant, Canceller, Deciding,
        contractVars, jobVars, ledgerVars, requestVars, Goto, At, Requests,
        AdminCall, Settle, DropStash, AfterRefund, Counted, StoreSteps, CatchOf,
        Active, AskSteps, CancelSteps, RefundSteps
<1>1. CASE \E a \in Asks : ChargeBalance(a) BY <1>1 DEF ChargeBalance
<1>2. CASE \E a \in Asks : VerifyPayment(a) BY <1>2 DEF VerifyPayment
<1>3. CASE \E a \in Asks : StashQuestion(a) BY <1>3 DEF StashQuestion
<1>4. CASE \E a \in Asks : ClaimJob(a) BY <1>4 DEF ClaimJob
<1>5. CASE \E a \in Asks : CreateJob(a) BY <1>5 DEF CreateJob
<1>6. CASE \E a \in Asks : IndexJob(a) BY <1>6 DEF IndexJob
<1>7. CASE \E a \in Asks : TimerFires(a) BY <1>7 DEF TimerFires
<1>8. CASE \E a \in Asks : RefundForDispatchPause(a) BY <1>8 DEF RefundForDispatchPause
<1>9. CASE \E a \in Asks : RunFulfillment(a) BY <1>9 DEF RunFulfillment
<1>10. CASE \E a \in Asks : Collect(a) BY <1>10 DEF Collect
<1>11. CASE \E a \in Asks : Reconcile(a) BY <1>11 DEF Reconcile
<1>12. CASE \E a \in Asks : Resolve(a) BY <1>12 DEF Resolve
<1>13. CASE \E a \in Asks : RecordReputation(a) BY <1>13 DEF RecordReputation
<1>14. CASE \E a \in Asks : RecordResolved(a) BY <1>14 DEF RecordResolved
<1>15. CASE \E a \in Asks : Recheck(a) BY <1>15 DEF Recheck
<1>16. CASE \E a \in Asks : SettleLostRace(a) BY <1>16 DEF SettleLostRace
<1>17. CASE \E a \in Asks : RecordCrash(a) BY <1>17 DEF RecordCrash
<1>18. CASE \E c \in Cancels : CancelJob(c) BY <1>18 DEF CancelJob
<1>19. CASE \E c \in Cancels : ClaimCancel(c) BY <1>19 DEF ClaimCancel
<1>20. CASE \E c \in Cancels : MarkCancelling(c) BY <1>20 DEF MarkCancelling
<1>21. CASE \E r \in Requests : Refund(r) BY <1>21 DEF Refund
<1>22. CASE \E r \in Requests : RecordRefunded(r) BY <1>22 DEF RecordRefunded
<1>23. CASE \E r \in Requests : RestoreCredit(r) BY <1>23 DEF RestoreCredit
<1>24. CASE \E r \in Requests : StoreThrows(r) BY <1>24 DEF StoreThrows
<1>25. CASE \E r \in Requests : Crash(r) BY <1>25 DEF Crash
<1>26. CASE \/ \E q \in Questions : IssueChallenge(q) \/ Submit(q) \/ StashExpires(q) \/ RefundTimeout(q)
         \/ \E q \in Questions, method \in {"resolve", "refund"} : LandAbandoned(q, method)
  BY <1>26 DEF IssueChallenge, Submit, StashExpires, RefundTimeout, LandAbandoned
<1>27. CASE \E q \in Questions : SettleReservation(q) BY <1>27 DEF SettleReservation
<1> QED
  BY NextCases, <1>1, <1>2, <1>3, <1>4, <1>5, <1>6, <1>7, <1>8, <1>9, <1>10, <1>11, <1>12, <1>13, <1>14,
     <1>15, <1>16, <1>17, <1>18, <1>19, <1>20, <1>21, <1>22, <1>23, <1>24, <1>25, <1>26, <1>27

\* Only a driver settles, and it is not a driver any more when it has.
LEMMA SettledOnceStep ==
  ASSUME IInv, OnceInv, ~StoreFaults, Next
  PROVE  SettledOnce'
<1> USE RequestsAssumption, FundingAssumption DEF OnceInv, IInv, TypeOK,
        SettledOnce, Roles, OneClaimant, OneDecision, Unreported, RestoringReasons,
        Claimant, Canceller, Deciding, contractVars, jobVars, ledgerVars,
        requestVars, Goto, At, Requests, AdminCall, Settle, DropStash, AfterRefund,
        Counted, StoreSteps, CatchOf, Active, AskSteps, CancelSteps, RefundSteps
<1>1. CASE \E a \in Asks : ChargeBalance(a) BY <1>1 DEF ChargeBalance
<1>2. CASE \E a \in Asks : VerifyPayment(a) BY <1>2 DEF VerifyPayment
<1>3. CASE \E a \in Asks : StashQuestion(a) BY <1>3 DEF StashQuestion
<1>4. CASE \E a \in Asks : ClaimJob(a) BY <1>4 DEF ClaimJob
<1>5. CASE \E a \in Asks : CreateJob(a) BY <1>5 DEF CreateJob
<1>6. CASE \E a \in Asks : IndexJob(a) BY <1>6 DEF IndexJob
<1>7. CASE \E a \in Asks : TimerFires(a) BY <1>7 DEF TimerFires
<1>8. CASE \E a \in Asks : RefundForDispatchPause(a) BY <1>8 DEF RefundForDispatchPause
<1>9. CASE \E a \in Asks : RunFulfillment(a) BY <1>9 DEF RunFulfillment
<1>10. CASE \E a \in Asks : Collect(a) BY <1>10 DEF Collect
<1>11. CASE \E a \in Asks : Reconcile(a) BY <1>11 DEF Reconcile
<1>12. CASE \E a \in Asks : Resolve(a) BY <1>12 DEF Resolve
<1>13. CASE \E a \in Asks : RecordReputation(a) BY <1>13 DEF RecordReputation
<1>14. CASE \E a \in Asks : RecordResolved(a) BY <1>14 DEF RecordResolved
<1>15. CASE \E a \in Asks : Recheck(a) BY <1>15 DEF Recheck
<1>16. CASE \E a \in Asks : SettleLostRace(a) BY <1>16 DEF SettleLostRace
<1>17. CASE \E a \in Asks : RecordCrash(a) BY <1>17 DEF RecordCrash
<1>18. CASE \E c \in Cancels : CancelJob(c) BY <1>18 DEF CancelJob
<1>19. CASE \E c \in Cancels : ClaimCancel(c) BY <1>19 DEF ClaimCancel
<1>20. CASE \E c \in Cancels : MarkCancelling(c) BY <1>20 DEF MarkCancelling
<1>21. CASE \E r \in Requests : Refund(r) BY <1>21 DEF Refund
<1>22. CASE \E r \in Requests : RecordRefunded(r) BY <1>22 DEF RecordRefunded
<1>23. CASE \E r \in Requests : RestoreCredit(r) BY <1>23 DEF RestoreCredit
<1>24. CASE \E r \in Requests : StoreThrows(r) BY <1>24 DEF StoreThrows
<1>25. CASE \E r \in Requests : Crash(r) BY <1>25 DEF Crash
<1>26. CASE \/ \E q \in Questions : IssueChallenge(q) \/ Submit(q) \/ StashExpires(q) \/ RefundTimeout(q)
         \/ \E q \in Questions, method \in {"resolve", "refund"} : LandAbandoned(q, method)
  BY <1>26 DEF IssueChallenge, Submit, StashExpires, RefundTimeout, LandAbandoned
<1>27. CASE \E q \in Questions : SettleReservation(q) BY <1>27 DEF SettleReservation
<1> QED
  BY NextCases, <1>1, <1>2, <1>3, <1>4, <1>5, <1>6, <1>7, <1>8, <1>9, <1>10, <1>11, <1>12, <1>13, <1>14,
     <1>15, <1>16, <1>17, <1>18, <1>19, <1>20, <1>21, <1>22, <1>23, <1>24, <1>25, <1>26, <1>27

\* OnceInv holds of every instance whose store does not throw: each of its parts
\* is preserved by every step of oracle.js:192-771 and undoWindow.js:45-85.
THEOREM OnceInvariance ==
  ASSUME ~StoreFaults
  PROVE  Spec => []OnceInv
<1>1. ASSUME Init PROVE OnceInv
  <2>1. IInv
    BY <1>1, InitIInv
  <2> USE <1>1, RequestsAssumption
      DEF Init, Requests, Active, AskSteps, CancelSteps, RefundSteps, Claimant, Canceller
  <2>2. CountedOnce BY DEF CountedOnce
  <2>3. CreditedOnce BY DEF CreditedOnce
  <2>4. SettledOnce BY DEF SettledOnce
  <2> QED
    BY <2>1, <2>2, <2>3, <2>4 DEF OnceInv
<1>2. ASSUME OnceInv, [Next]_vars PROVE OnceInv'
  <2>1. CASE Next
    <3>1. IInv
      BY <1>2 DEF OnceInv
    <3> QED
      BY <1>2, <2>1, <3>1, NextIInv, CountedOnceStep, CreditedOnceStep, SettledOnceStep DEF OnceInv
  <2>2. CASE UNCHANGED vars
    <3>1. IInv'
      BY <1>2, <2>2, StutterIInv DEF OnceInv
    <3> QED
      BY <1>2, <2>2, <3>1 DEF OnceInv, CountedOnce, CreditedOnce, SettledOnce, vars
  <2> QED
    BY <1>2, <2>1, <2>2
<1> QED
  BY <1>1, <1>2, PTL DEF Spec

\* A worker's record counts a question once, whether it ends in the payout, in
\* the lost race or in the refund (oracle.js:790-796), if no store call throws.
THEOREM ReputationIsCountedOnce ==
  ASSUME ~StoreFaults
  PROVE  Spec => []ReputationOnce
<1>1. OnceInv => ReputationOnce
  BY DEF OnceInv, CountedOnce, ReputationOnce
<1> QED
  BY <1>1, OnceInvariance, PTL

\* An API customer gets a question's price back once: a failed charge, a cancel
\* and a refund by the fulfilment never all restore it (oracle.js:341-350,
\* server.js:371-408), if no store call throws.
THEOREM CreditIsRestoredOnce ==
  ASSUME ~StoreFaults
  PROVE  Spec => []RestoredOnce
<1>1. OnceInv => RestoredOnce
  BY DEF OnceInv, CreditedOnce, RestoredOnce
<1> QED
  BY <1>1, OnceInvariance, PTL

\* A step that writes a job's record finds it unsettled.
LEMMA SettledStays ==
  ASSUME OnceInv, ~StoreFaults, Next, NEW q \in Questions, status[q] = "settled"
  PROVE  status'[q] = "settled" /\ outcome'[q] = outcome[q]
<1> USE RequestsAssumption DEF OnceInv, IInv, TypeOK, SettledOnce, Roles, OneDecision,
        Unreported, Claimant, Canceller, Deciding, jobVars, At, Requests, Settle, Active,
        AskSteps, CancelSteps, RefundSteps
<1>1. CASE UNCHANGED jobVars
  BY <1>1
<1>2. CASE \E a \in Asks : CreateJob(a) BY <1>2 DEF CreateJob
<1>3. CASE \E a \in Asks : RefundForDispatchPause(a) BY <1>3 DEF RefundForDispatchPause
<1>4. CASE \E a \in Asks : RunFulfillment(a) BY <1>4 DEF RunFulfillment
<1>5. CASE \E a \in Asks : Collect(a) BY <1>5 DEF Collect
<1>6. CASE \E a \in Asks : RecordResolved(a) BY <1>6 DEF RecordResolved
<1>7. CASE \E a \in Asks : SettleLostRace(a) BY <1>7 DEF SettleLostRace
<1>8. CASE \E a \in Asks : RecordCrash(a) BY <1>8 DEF RecordCrash
<1>9. CASE \E c \in Cancels : MarkCancelling(c) BY <1>9 DEF MarkCancelling
<1>10. CASE \E r \in Requests : RecordRefunded(r) BY <1>10 DEF RecordRefunded
<1> QED
  BY NextCases, <1>1, <1>2, <1>3, <1>4, <1>5, <1>6, <1>7, <1>8, <1>9, <1>10 DEF
     ChargeBalance, VerifyPayment, StashQuestion, ClaimJob, IndexJob, TimerFires,
     Reconcile, Resolve, RecordReputation, Recheck, CancelJob, ClaimCancel, Refund,
     RestoreCredit, StoreThrows, Crash, IssueChallenge, Submit, StashExpires,
     RefundTimeout, LandAbandoned, SettleReservation

\* A settled job record is never rewritten, by a late cancel, a timer or a retry
\* (jobs.js:50-52), if no store call throws.
THEOREM SettledRecordsAreFinal ==
  ASSUME ~StoreFaults
  PROVE  Spec => SettledIsFinal
<1>1. OnceInv /\ [Next]_vars =>
        [\A q \in Questions :
           status[q] = "settled" => status'[q] = "settled" /\ outcome'[q] = outcome[q]]_vars
  BY SettledStays
<1> QED
  BY <1>1, OnceInvariance, PTL DEF Spec, SettledIsFinal

-----------------------------------------------------------------------------
(* Refinement: what each kind of write does to the promise's view *)

LEMMA MoneyMoves ==
  ASSUME TypeOK, NEW q \in Questions,
         NEW s \in {"pending", "resolved", "refunded"}, chain' = [chain EXCEPT ![q] = s]
  PROVE  Money' = [Money EXCEPT ![q] = CASE s = "pending"  -> "escrowed"
                                         [] s = "resolved" -> "paid_out"
                                         [] s = "refunded" -> "returned"]
  BY DEF Money, TypeOK

LEMMA ReportMoves ==
  ASSUME TypeOK, NEW q \in Questions, NEW s \in Outcomes, outcome' = [outcome EXCEPT ![q] = s]
  PROVE  Report' = [Report EXCEPT ![q] = CASE s = "none"                   -> "none"
                                           [] s = "resolved"               -> "paid_out"
                                           [] s = "refund_pending_timeout" -> "unknown"
                                           [] OTHER                        -> "returned"]
  BY DEF Report, TypeOK, Outcomes

LEMMA Asked ==
  ASSUME TypeOK, NEW q \in Questions, dispatched' = [dispatched EXCEPT ![q] = TRUE],
         UNCHANGED decision
  PROVE  Fate' = [Fate EXCEPT ![q] = "asked"]
  BY DEF Fate, TypeOK

LEMMA Withdrawn ==
  ASSUME TypeOK, NEW q \in Questions, decision' = [decision EXCEPT ![q] = "cancel"],
         UNCHANGED dispatched, ~dispatched[q]
  PROVE  Fate' = [Fate EXCEPT ![q] = "withdrawn"]
  BY DEF Fate, TypeOK

LEMMA Dispatched ==
  ASSUME TypeOK, NEW q \in Questions, decision' = [decision EXCEPT ![q] = "dispatch"],
         UNCHANGED dispatched, decision[q] = "open"
  PROVE  Fate' = Fate
  BY DEF Fate, TypeOK

LEMMA Views ==
  ASSUME NEW q \in Questions
  PROVE  /\ chain[q] = "none" => Money[q] = "unpaid"
         /\ chain[q] = "pending" => Money[q] = "escrowed"
         /\ chain[q] = "resolved" => Money[q] = "paid_out"
         /\ chain[q] = "refunded" => Money[q] = "returned"
         /\ dispatched[q] => Fate[q] = "asked"
         /\ ~dispatched[q] /\ decision[q] # "cancel" => Fate[q] = "open"
         /\ outcome[q] = "none" => Report[q] = "none"
<1>1. chain[q] = "none" => Money[q] = "unpaid"
  BY DEF Money
<1>2. chain[q] = "pending" => Money[q] = "escrowed"
  BY DEF Money
<1>3. chain[q] = "resolved" => Money[q] = "paid_out"
  BY DEF Money
<1>4. chain[q] = "refunded" => Money[q] = "returned"
  BY DEF Money
<1>5. dispatched[q] => Fate[q] = "asked"
  BY DEF Fate
<1>6. ~dispatched[q] /\ decision[q] # "cancel" => Fate[q] = "open"
  BY DEF Fate
<1>7. outcome[q] = "none" => Report[q] = "none"
  BY DEF Report
<1> QED
  BY <1>1, <1>2, <1>3, <1>4, <1>5, <1>6, <1>7

LEMMA SameMoney == ASSUME UNCHANGED chain PROVE Money' = Money
  BY DEF Money

LEMMA SameReport == ASSUME UNCHANGED outcome PROVE Report' = Report
  BY DEF Report

LEMMA SameFate == ASSUME UNCHANGED dispatched, UNCHANGED decision PROVE Fate' = Fate
  BY DEF Fate

\* The steps of Settlement, told by the variables of Oracle they are read from.

LEMMA PayStep ==
  ASSUME TypeOK, NEW q \in Questions,
         chain[q] = "none", chain' = [chain EXCEPT ![q] = "pending"],
         UNCHANGED outcome, UNCHANGED dispatched, UNCHANGED decision
  PROVE  Abstract!SNext
<1>1. Money[q] = "unpaid" /\ Money' = [Money EXCEPT ![q] = "escrowed"]
  BY Views, MoneyMoves
<1>2. Abstract!Pay(q)
  BY <1>1, SameFate, SameReport DEF Abstract!Pay
<1> QED
  BY <1>2 DEF Abstract!SNext

LEMMA ReturnStep ==
  ASSUME TypeOK, NEW q \in Questions,
         chain[q] = "pending", chain' = [chain EXCEPT ![q] = "refunded"],
         UNCHANGED outcome, UNCHANGED dispatched, UNCHANGED decision
  PROVE  Abstract!SNext
<1>1. Money[q] = "escrowed" /\ Money' = [Money EXCEPT ![q] = "returned"]
  BY Views, MoneyMoves
<1>2. Abstract!Return(q)
  BY <1>1, SameFate, SameReport DEF Abstract!Return
<1> QED
  BY <1>2 DEF Abstract!SNext

LEMMA PayOutStep ==
  ASSUME TypeOK, NEW q \in Questions, dispatched[q],
         chain[q] = "pending", chain' = [chain EXCEPT ![q] = "resolved"],
         UNCHANGED outcome, UNCHANGED dispatched, UNCHANGED decision
  PROVE  Abstract!SNext
<1>1. Money[q] = "escrowed" /\ Money' = [Money EXCEPT ![q] = "paid_out"]
  BY Views, MoneyMoves
<1>2. Fate[q] = "asked"
  BY Views
<1>3. Abstract!PayOut(q)
  BY <1>1, <1>2, SameFate, SameReport DEF Abstract!PayOut
<1> QED
  BY <1>3 DEF Abstract!SNext

LEMMA AskedStep ==
  ASSUME TypeOK, NEW q \in Questions,
         chain[q] # "none", decision[q] # "cancel",
         dispatched' = [dispatched EXCEPT ![q] = TRUE],
         UNCHANGED chain, UNCHANGED outcome, UNCHANGED decision
  PROVE  [Abstract!SNext]_Abstract!svars
<1>1. Fate' = [Fate EXCEPT ![q] = "asked"]
  BY Asked
<1>2. CASE dispatched[q]
  <2>1. Fate' = Fate
    BY <1>1, <1>2, Views DEF Fate
  <2> QED
    BY <2>1, SameMoney, SameReport DEF Abstract!svars
<1>3. CASE ~dispatched[q]
  <2>1. Fate[q] = "open" /\ Money[q] # "unpaid"
    BY <1>3, Views DEF TypeOK
  <2>2. Abstract!Ask(q)
    BY <1>1, <2>1, SameMoney, SameReport DEF Abstract!Ask
  <2> QED
    BY <2>2 DEF Abstract!SNext
<1> QED
  BY <1>2, <1>3

LEMMA WithdrawStep ==
  ASSUME TypeOK, NEW q \in Questions,
         chain[q] # "none", decision[q] = "open", ~dispatched[q],
         decision' = [decision EXCEPT ![q] = "cancel"],
         UNCHANGED chain, UNCHANGED outcome, UNCHANGED dispatched
  PROVE  Abstract!SNext
<1>1. Fate[q] = "open" /\ Money[q] # "unpaid"
  BY Views DEF TypeOK
<1>2. Fate' = [Fate EXCEPT ![q] = "withdrawn"]
  BY Withdrawn
<1>3. Abstract!Withdraw(q)
  BY <1>1, <1>2, SameMoney, SameReport DEF Abstract!Withdraw
<1> QED
  BY <1>3 DEF Abstract!SNext

\* A report is definite and true, or "unknown".
LEMMA ReportStep ==
  ASSUME TypeOK, NEW q \in Questions, chain[q] # "none",
         NEW s \in Outcomes, outcome' = [outcome EXCEPT ![q] = s],
         \/ s = "refund_pending_timeout"
         \/ outcome[q] = "none" /\ s = "resolved" /\ chain[q] = "resolved"
         \/ outcome[q] = "none" /\ chain[q] = "refunded"
            /\ s \in {"refunded", "lost_race_to_timeout_refund"},
         UNCHANGED chain, UNCHANGED dispatched, UNCHANGED decision
  PROVE  Abstract!SNext
<1>1. Money[q] # "unpaid"
  BY Views DEF TypeOK
<1>2. CASE s = "refund_pending_timeout"
  <2>1. Report' = [Report EXCEPT ![q] = "unknown"]
    BY <1>2, ReportMoves
  <2>2. Abstract!Report(q, "unknown")
    BY <1>1, <2>1, SameMoney, SameFate DEF Abstract!Report
  <2> QED
    BY <2>2 DEF Abstract!SNext
<1>3. CASE outcome[q] = "none" /\ s = "resolved" /\ chain[q] = "resolved"
  <2>1. Report[q] = "none" /\ Report' = [Report EXCEPT ![q] = "paid_out"]
    BY <1>3, ReportMoves, Views
  <2>2. Abstract!Report(q, "paid_out")
    BY <1>1, <1>3, <2>1, Views, SameMoney, SameFate DEF Abstract!Report
  <2> QED
    BY <2>2 DEF Abstract!SNext
<1>4. CASE outcome[q] = "none" /\ chain[q] = "refunded"
           /\ s \in {"refunded", "lost_race_to_timeout_refund"}
  <2>1. Report[q] = "none" /\ Report' = [Report EXCEPT ![q] = "returned"]
    BY <1>4, ReportMoves, Views
  <2>2. Abstract!Report(q, "returned")
    BY <1>1, <1>4, <2>1, Views, SameMoney, SameFate DEF Abstract!Report
  <2> QED
    BY <2>2 DEF Abstract!SNext
<1> QED
  BY <1>2, <1>3, <1>4

LEMMA QuietStep ==
  ASSUME UNCHANGED chain, UNCHANGED outcome, Fate' = Fate
  PROVE  UNCHANGED Abstract!svars
BY SameMoney, SameReport DEF Abstract!svars

-----------------------------------------------------------------------------
(* Every handler is a step of the promise, or none *)

LEMMA RefinementStep ==
  ASSUME IInv, Next
  PROVE  [Abstract!SNext]_Abstract!svars
<1> DEFINE Refines == [Abstract!SNext]_Abstract!svars
<1> SUFFICES Refines
  OBVIOUS
<1>0. TypeOK /\ Requests = Asks \cup Cancels
  BY DEF IInv, Requests
<1>quiet. ASSUME UNCHANGED <<chain, outcome, dispatched, decision>> PROVE Refines
  BY <1>quiet, QuietStep, SameFate
<1>pay. ASSUME Abstract!SNext PROVE Refines
  BY <1>pay
<1> HIDE DEF Refines
<1> USE <1>0 DEF contractVars, jobVars, ledgerVars, requestVars, At, Goto
<1>1. CASE \E a \in Asks : ChargeBalance(a)
  <2> PICK a \in Asks : ChargeBalance(a)
    BY <1>1
  <2> QED
    BY PayStep, <1>pay DEF ChargeBalance, TypeOK
<1>2. CASE \E a \in Asks : VerifyPayment(a)
  BY <1>2, <1>quiet DEF VerifyPayment
<1>3. CASE \E a \in Asks : StashQuestion(a)
  BY <1>3, <1>quiet DEF StashQuestion
<1>4. CASE \E a \in Asks : ClaimJob(a)
  BY <1>4, <1>quiet DEF ClaimJob
<1>5. CASE \E a \in Asks : CreateJob(a)
  <2> PICK a \in Asks : CreateJob(a)
    BY <1>5
  <2>1. outcome[on[a]] = "none"
    BY DEF CreateJob, IInv, Unreported, TypeOK
  <2> QED
    BY <2>1, <1>quiet DEF CreateJob, TypeOK
<1>6. CASE \E a \in Asks : IndexJob(a)
  BY <1>6, <1>quiet DEF IndexJob
<1>7. CASE \E a \in Asks : TimerFires(a)
  <2> PICK a \in Asks : TimerFires(a)
    BY <1>7
  <2>1. Fate' = Fate
    BY Dispatched, SameFate DEF TimerFires, TypeOK
  <2> QED
    BY <2>1, QuietStep DEF TimerFires, Refines
<1>8. CASE \E a \in Asks : RefundForDispatchPause(a)
  BY <1>8, <1>quiet DEF RefundForDispatchPause
<1>9. CASE \E a \in Asks : RunFulfillment(a)
  <2> PICK a \in Asks : RunFulfillment(a)
    BY <1>9
  <2>1. chain[on[a]] # "none" /\ decision[on[a]] # "cancel"
    BY DEF RunFulfillment, IInv, TypeOK, Escrowed, OneDecision, Deciding, Active,
           AskSteps
  <2> QED
    BY <2>1, AskedStep DEF RunFulfillment, Refines, TypeOK
<1>10. CASE \E a \in Asks : Collect(a)
  BY <1>10, <1>quiet DEF Collect
<1>11. CASE \E a \in Asks : Reconcile(a)
  BY <1>11, <1>quiet DEF Reconcile
<1>12. CASE \E a \in Asks : Resolve(a)
  <2> PICK a \in Asks : Resolve(a)
    BY <1>12
  <2>1. dispatched[on[a]]
    BY DEF Resolve, IInv, PayoutsArePayable, Payable
  <2>2. CASE chain' = chain
    BY <2>2, <1>quiet DEF Resolve
  <2>3. CASE chain' # chain
    BY <2>1, <2>3, PayOutStep, <1>pay DEF Resolve, AdminCall, TypeOK
  <2> QED
    BY <2>2, <2>3
<1>13. CASE \E a \in Asks : RecordReputation(a)
  BY <1>13, <1>quiet DEF RecordReputation
<1>14. CASE \E a \in Asks : RecordResolved(a)
  <2> PICK a \in Asks : RecordResolved(a)
    BY <1>14
  <2>1. chain[on[a]] = "resolved" /\ outcome[on[a]] = "none"
    BY DEF RecordResolved, IInv, TypeOK, Witnessed, Unreported, Claimant, Active,
           AskSteps, CancelledNeverAnswered
  <2> QED
    BY <2>1, ReportStep, <1>pay DEF RecordResolved, Settle, Outcomes, TypeOK
<1>15. CASE \E a \in Asks : Recheck(a)
  BY <1>15, <1>quiet DEF Recheck
<1>16. CASE \E a \in Asks : SettleLostRace(a)
  <2> PICK a \in Asks : SettleLostRace(a)
    BY <1>16
  <2>1. chain[on[a]] = "refunded"
    BY DEF SettleLostRace, IInv, Witnessed
  <2>2. outcome[on[a]] = "none"
    BY DEF SettleLostRace, IInv, TypeOK, Unreported, Claimant, Active, AskSteps,
           OneDecision, Deciding
  <2> QED
    BY <2>1, <2>2, ReportStep, <1>pay DEF SettleLostRace, Settle, Outcomes, TypeOK
<1>17. CASE \E a \in Asks : RecordCrash(a)
  <2> PICK a \in Asks : RecordCrash(a)
    BY <1>17
  <2>1. chain[on[a]] # "none"
    BY DEF RecordCrash, IInv, Escrowed, Active, AskSteps
  <2> QED
    BY <2>1, ReportStep, <1>pay DEF RecordCrash, Settle, Outcomes, TypeOK
<1>18. CASE \E c \in Cancels : CancelJob(c)
  BY <1>18, <1>quiet DEF CancelJob
<1>19. CASE \E c \in Cancels : ClaimCancel(c)
  <2> PICK c \in Cancels : ClaimCancel(c)
    BY <1>19
  <2>1. CASE decision[on[c]] = "open"
    <3>1. chain[on[c]] # "none" /\ ~dispatched[on[c]]
      BY <2>1 DEF ClaimCancel, IInv, Escrowed, OneDecision, Active, CancelSteps, TypeOK
    <3> QED
      BY <2>1, <3>1, WithdrawStep, <1>pay DEF ClaimCancel, TypeOK
  <2>2. CASE decision[on[c]] # "open"
    BY <2>2, <1>quiet DEF ClaimCancel
  <2> QED
    BY <2>1, <2>2
<1>20. CASE \E c \in Cancels : MarkCancelling(c)
  BY <1>20, <1>quiet DEF MarkCancelling
<1>21. CASE \E r \in Requests : Refund(r)
  <2> PICK r \in Requests : Refund(r)
    BY <1>21
  <2>1. CASE chain' = chain
    BY <2>1, <1>quiet DEF Refund
  <2>2. CASE chain' # chain
    BY <2>2, ReturnStep, <1>pay DEF Refund, AdminCall, TypeOK
  <2> QED
    BY <2>1, <2>2
<1>22. CASE \E r \in Requests : RecordRefunded(r)
  <2> PICK r \in Requests : RecordRefunded(r)
    BY <1>22
  <2>1. chain[on[r]] # "none"
    BY DEF RecordRefunded, IInv, Escrowed, Active, RefundSteps
  <2>2. CASE At(r, "unrefunded")
    BY <2>1, <2>2, ReportStep, <1>pay DEF RecordRefunded, Settle, Outcomes, TypeOK
  <2>3. CASE At(r, "refunded")
    <3>1. chain[on[r]] = "refunded"
      BY <2>3 DEF IInv, Witnessed
    <3>2. outcome[on[r]] = "none"
      BY <2>3 DEF IInv, TypeOK, Unreported, Claimant, Canceller, Active,
                  RefundSteps, OneDecision, Deciding
    <3> QED
      BY <2>3, <3>1, <3>2, ReportStep, <1>pay DEF RecordRefunded, Settle, Outcomes, TypeOK
  <2> QED
    BY <2>2, <2>3 DEF RecordRefunded
<1>23. CASE \E r \in Requests : RestoreCredit(r)
  BY <1>23, <1>quiet DEF RestoreCredit
<1>24. CASE \E r \in Requests : StoreThrows(r)
  <2> PICK r \in Requests : StoreThrows(r)
    BY <1>24
  <2>1. CASE UNCHANGED decision
    BY <2>1, <1>quiet DEF StoreThrows
  <2>2. CASE decision[on[r]] = "open" /\ r \in Asks
             /\ decision' = [decision EXCEPT ![on[r]] = "dispatch"]
    <3>1. Fate' = Fate
      BY <2>2, Dispatched DEF StoreThrows, TypeOK
    <3> QED
      BY <3>1, QuietStep DEF StoreThrows, Refines
  <2>3. CASE decision[on[r]] = "open" /\ r \in Cancels /\ At(r, "claim_cancel")
             /\ decision' = [decision EXCEPT ![on[r]] = "cancel"]
    <3>1. chain[on[r]] # "none" /\ ~dispatched[on[r]]
      BY <2>3 DEF IInv, Escrowed, OneDecision, Active, CancelSteps, TypeOK
    <3> QED
      BY <2>3, <3>1, WithdrawStep, <1>pay DEF StoreThrows, TypeOK
  <2> QED
    BY <2>1, <2>2, <2>3 DEF StoreThrows, IInv, Roles, CancelSteps, RefundSteps
<1>25. CASE \E r \in Requests : Crash(r)
  BY <1>25, <1>quiet DEF Crash
<1>26. CASE \E q \in Questions : IssueChallenge(q)
  BY <1>26, <1>quiet DEF IssueChallenge
<1>27. CASE \E q \in Questions : Submit(q)
  <2> PICK q \in Questions : Submit(q)
    BY <1>27
  <2> QED
    BY PayStep, <1>pay DEF Submit
<1>28. CASE \E q \in Questions : StashExpires(q)
  BY <1>28, <1>quiet DEF StashExpires
<1>29. CASE \E q \in Questions : RefundTimeout(q)
  <2> PICK q \in Questions : RefundTimeout(q)
    BY <1>29
  <2> QED
    BY ReturnStep, <1>pay DEF RefundTimeout
<1>30. CASE \E q \in Questions, method \in {"resolve", "refund"} : LandAbandoned(q, method)
  <2> PICK q \in Questions, method \in {"resolve", "refund"} : LandAbandoned(q, method)
    BY <1>30
  <2>1. CASE method = "resolve"
    <3>1. dispatched[q]
      BY <2>1 DEF LandAbandoned, IInv, PayoutsArePayable, Payable, Unresolved
    <3> QED
      BY <2>1, <3>1, PayOutStep, <1>pay DEF LandAbandoned
  <2>2. CASE method = "refund"
    BY <2>2, ReturnStep, <1>pay DEF LandAbandoned
  <2> QED
    BY <2>1, <2>2
<1>31. CASE \E q \in Questions : SettleReservation(q)
  BY <1>31, <1>quiet DEF SettleReservation
<1> QED
  BY NextCases, <1>1, <1>2, <1>3, <1>4, <1>5, <1>6, <1>7, <1>8, <1>9, <1>10,
     <1>11, <1>12, <1>13, <1>14, <1>15, <1>16, <1>17, <1>18, <1>19, <1>20,
     <1>21, <1>22, <1>23, <1>24, <1>25, <1>26, <1>27, <1>28, <1>29, <1>30,
     <1>31

\* Oracle implements Settlement: for every instance, and whatever fails, no
\* behaviour of the handlers, the chain and the clients moves money, asks or
\* reports in a way the promise forbids (oracle.js, undoWindow.js, jobs.js).
THEOREM Refinement == Spec => RefinesSettlement
<1>1. Init => Abstract!SInit
  BY DEF Init, Abstract!SInit, Money, Fate, Report
<1>2. IInv /\ [Next]_vars => [Abstract!SNext]_Abstract!svars
  <2>1. ASSUME UNCHANGED vars PROVE UNCHANGED Abstract!svars
    BY <2>1, QuietStep, SameFate DEF vars
  <2> QED
    BY <2>1, RefinementStep
<1> QED
  BY <1>1, <1>2, Invariance, PTL DEF Spec, RefinesSettlement, Abstract!SSpec
=============================================================================
