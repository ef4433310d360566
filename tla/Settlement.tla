------------------------------ MODULE Settlement ------------------------------
(***************************************************************************)
(* What the backend promises about one paid question, with none of the     *)
(* machinery that keeps the promise: the money leaves escrow once, to one  *)
(* side; a question withdrawn by its payer is never put to anybody; only a *)
(* question that was put to somebody can be paid out; and the job record   *)
(* never claims a payout or a refund that did not happen.                  *)
(*                                                                         *)
(* Oracle.tla implements this module (RefinesSettlement, and the theorem   *)
(* Refinement of OracleProofs).                                            *)
(***************************************************************************)
CONSTANT Questions

VARIABLES
  money,    \* where the payment is
  fate,     \* whether the question was put to workers or withdrawn first
  report    \* what the job record says became of the money

svars == <<money, fate, report>>

Money   == {"unpaid", "escrowed", "returned", "paid_out"}
Fates   == {"open", "asked", "withdrawn"}
Reports == {"none", "returned", "paid_out", "unknown"}

STypeOK ==
  /\ money \in [Questions -> Money]
  /\ fate \in [Questions -> Fates]
  /\ report \in [Questions -> Reports]

SInit ==
  /\ money = [q \in Questions |-> "unpaid"]
  /\ fate = [q \in Questions |-> "open"]
  /\ report = [q \in Questions |-> "none"]

Pay(q) ==
  /\ money[q] = "unpaid"
  /\ money' = [money EXCEPT ![q] = "escrowed"]
  /\ UNCHANGED <<fate, report>>

Ask(q) ==
  /\ money[q] # "unpaid"
  /\ fate[q] = "open"
  /\ fate' = [fate EXCEPT ![q] = "asked"]
  /\ UNCHANGED <<money, report>>

Withdraw(q) ==
  /\ money[q] # "unpaid"
  /\ fate[q] = "open"
  /\ fate' = [fate EXCEPT ![q] = "withdrawn"]
  /\ UNCHANGED <<money, report>>

Return(q) ==
  /\ money[q] = "escrowed"
  /\ money' = [money EXCEPT ![q] = "returned"]
  /\ UNCHANGED <<fate, report>>

PayOut(q) ==
  /\ money[q] = "escrowed"
  /\ fate[q] = "asked"
  /\ money' = [money EXCEPT ![q] = "paid_out"]
  /\ UNCHANGED <<fate, report>>

\* A definite report is made once and is true when it is made. "unknown" (the
\* escrow is left to the contract's timeout) may be reported at any time.
Report(q, what) ==
  /\ money[q] # "unpaid"
  /\ \/ what = "unknown"
     \/ what = money[q] /\ report[q] = "none"
  /\ report' = [report EXCEPT ![q] = what]
  /\ UNCHANGED <<money, fate>>

SNext ==
  \E q \in Questions :
    \/ Pay(q) \/ Ask(q) \/ Withdraw(q) \/ Return(q) \/ PayOut(q)
    \/ \E what \in {"returned", "paid_out", "unknown"} : Report(q, what)

SSpec == SInit /\ [][SNext]_svars
=============================================================================
