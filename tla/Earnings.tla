------------------------------- MODULE Earnings -------------------------------
(***************************************************************************)
(* The earnings ledger (earnings.js) and the tax summaries read from it    *)
(* (taxReport.js).  A settlement appends one credit per matching worker,   *)
(* each to a list read before it is written, then indexes the year and the *)
(* earner the same way.  Settlements overlap, are re-driven and crash.     *)
(***************************************************************************)
EXTENDS Integers, FiniteSets, Sequences, SequencesExt, FiniteSetsExt

CONSTANTS Workers, Questions, Drives,  \* Drives record a settlement or a withdrawal
          Years, Matching, Amount,     \* of each question: who is paid, of what price
          StroopsPerCent, ThresholdCents, None

EarningsAssumption == /\ StroopsPerCent \in Nat \ {0} /\ IsFiniteSet(Workers)
                      /\ Matching \in [Questions -> SUBSET Workers]

VARIABLES lists,    \* the stored lists, by key
          profile,  \* the tax profile of a worker
          drive,    \* what a recording has left to do and what it last read
          torn      \* keys written under another's read, or not written by a crash

vars == <<lists, profile, drive, torn>>

PlatformFeeBps == 2000
\* workerShareStroops(): what the contract credits, the remainder stays there.
WorkerShare(amount, matching) ==
  IF matching = 0 THEN 0 ELSE (amount - (amount * PlatformFeeBps) \div 10000) \div matching

Keys == {"credits", "withdrawals"} \X Workers \X Years \cup {"years"} \X Workers \cup {"earners"} \X Years
Profiles == {[us |-> FALSE, tin |-> FALSE], [us |-> TRUE, tin |-> TRUE]}  \* a US person's has a TIN
Idle == [at |-> "idle", of |-> None, year |-> None, todo |-> <<>>, stage |-> 1, read |-> {}]
Running(d) == drive[d].at \in {"read", "write"}

\* The lists a recording goes through for the worker at its head, and what it
\* adds to each: the record itself, the year, the earner.
KeyOf(d) == LET w == Head(drive[d].todo)
  IN << <<drive[d].of.kind, w, drive[d].year>>, <<"years", w>>, <<"earners", drive[d].year>> >>[drive[d].stage]
Item(d) == LET w == Head(drive[d].todo)
  IN << [id |-> drive[d].of.id, by |-> d, amount |-> drive[d].of.amount], drive[d].year, w >>[drive[d].stage]

Has(d) == IF drive[d].stage = 1 THEN \E r \in lists[KeyOf(d)] : r.id = drive[d].of.id
                                ELSE Item(d) \in lists[KeyOf(d)]

\* After a list: the next one, or the next worker, or the end.  A record that
\* was there already is not indexed again.
After(d, skipped) ==
  LET me == drive[d]
      next == Tail(me.todo)
  IN IF me.stage < 3 /\ ~(me.stage = 1 /\ skipped) THEN [me EXCEPT !.at = "read", !.stage = @ + 1, !.read = {}]
     ELSE IF next = <<>> THEN [Idle EXCEPT !.at = "done"]
     ELSE [me EXCEPT !.at = "read", !.stage = 1, !.todo = next, !.read = {}]

----------------------------------------------------------------------------
Init == /\ lists = [k \in Keys |-> {}] /\ profile = [w \in Workers |-> None]
        /\ drive = [d \in Drives |-> Idle] /\ torn = {}

\* recordWorkerCredits(): of a first settlement or of one driven again.
RecordWorkerCredits(d, q, year) ==
  LET share == WorkerShare(Amount[q], Cardinality(Matching[q]))
  IN /\ drive[d].at = "idle"
     /\ drive' = [drive EXCEPT ![d] = IF share <= 0 THEN [Idle EXCEPT !.at = "done"]
          ELSE [Idle EXCEPT !.at = "read", !.year = year, !.todo = SetToSeq(Matching[q]),
                            !.of = [kind |-> "credits", id |-> q, amount |-> share]]]
     /\ UNCHANGED <<lists, profile, torn>>

\* recordWorkerWithdrawal(): a payout the backend relayed.
RecordWorkerWithdrawal(d, w, year) ==
  /\ drive[d].at = "idle"
  /\ drive' = [drive EXCEPT ![d] = [Idle EXCEPT !.at = "read", !.year = year, !.todo = <<w>>,
                                       !.of = [kind |-> "withdrawals", id |-> d, amount |-> 1]]]
  /\ UNCHANGED <<lists, profile, torn>>

\* appendUnique() and indexWorkerYear(): read, look, write.
ReadList(d) ==
  /\ drive[d].at = "read"
  /\ drive' = [drive EXCEPT ![d] = IF Has(d) THEN After(d, TRUE)
                                   ELSE [@ EXCEPT !.at = "write", !.read = lists[KeyOf(d)]]]
  /\ UNCHANGED <<lists, profile, torn>>

WriteList(d) ==
  /\ drive[d].at = "write"
  /\ lists' = [lists EXCEPT ![KeyOf(d)] = drive[d].read \cup {Item(d)}]
  /\ torn' = IF lists[KeyOf(d)] = drive[d].read THEN torn ELSE torn \cup {KeyOf(d)}
  /\ drive' = [drive EXCEPT ![d] = After(d, FALSE)]
  /\ UNCHANGED profile

\* The store throws and the settlement's catch drops the rest, or the process dies.
RecordingFails(d) ==
  LET w == Head(drive[d].todo)
  IN /\ Running(d)
     /\ torn' = torn \cup {<<drive[d].of.kind, v, drive[d].year>> : v \in ToSet(drive[d].todo)}
                     \cup {<<"years", w>>, <<"earners", drive[d].year>>}
     /\ drive' = [drive EXCEPT ![d] = [Idle EXCEPT !.at = "done"]]
     /\ UNCHANGED <<lists, profile>>

SaveTaxProfile(w, p) == profile' = [profile EXCEPT ![w] = p] /\ UNCHANGED <<lists, drive, torn>>

Next == \/ \E w \in Workers, p \in Profiles : profile[w] # p /\ SaveTaxProfile(w, p)
        \/ \E d \in Drives : \/ \E q \in Questions, y \in Years : RecordWorkerCredits(d, q, y)
                             \/ \E w \in Workers, y \in Years : RecordWorkerWithdrawal(d, w, y)
                             \/ ReadList(d) \/ WriteList(d) \/ RecordingFails(d)

Spec == Init /\ [][Next]_vars

----------------------------------------------------------------------------
\* stroopsToUsd(): cents, rounded half up.
ToCents(stroops) == (stroops + StroopsPerCent \div 2) \div StroopsPerCent
Gross(records) == MapThenSumSet(LAMBDA r : r.amount, records)
TaxSummary(w, y) ==
  LET gross == Gross(lists[<<"credits", w, y>>])
  IN [worker |-> w, cents |-> ToCents(gross), meets |-> ToCents(gross) >= ThresholdCents,
      us |-> profile[w] # None /\ profile[w].us, missing |-> profile[w] = None]
AllTaxSummaries(y, usOnly, reportableOnly) ==
  {s \in {TaxSummary(w, y) : w \in lists[<<"earners", y>>]} : (usOnly => s.us) /\ (reportableOnly => s.meets)}

\* Of one year, a question is credited to a worker once however often and however
\* concurrently its settlement is driven; and once all is recorded, a worker with a credit
\* is among the earners of the year, and the year among the worker's, unless two recordings
\* of its lists overlapped or one failed half-way.
CreditedOnceAYear == \A y \in Years, w \in Workers : \A r, s \in lists[<<"credits", w, y>>] : r.id = s.id => r = s
Whole(w, y) == torn \cap {<<"credits", w, y>>, <<"earners", y>>, <<"years", w>>} = {}
EarnersIndexed == (\A d \in Drives : ~Running(d)) => \A w \in Workers, y \in Years :
  Whole(w, y) /\ lists[<<"credits", w, y>>] # {} => w \in lists[<<"earners", y>>] /\ y \in lists[<<"years", w>>]
LedgerHolds == CreditedOnceAYear /\ EarnersIndexed

\* The credits for a question never exceed what is left of its price after the fee, and a
\* worker whose credits reach the threshold is in the export of the year.
CreditsAddUp ==
  /\ \A y \in Years, q \in Questions : 10000 * MapThenSumSet(LAMBDA w :
       Gross({r \in lists[<<"credits", w, y>>] : r.id = q}), Workers) <= 8000 * Amount[q] + 9999
  /\ (\A d \in Drives : ~Running(d)) => \A w \in Workers, y \in Years :
       LET s == TaxSummary(w, y)
       IN s.meets /\ Whole(w, y) => s \in AllTaxSummaries(y, FALSE, TRUE)

\* The inductive invariant: what is about to be written adds no second record of an id, and
\* whoever has a credit is in the index or about to be put there.
Once(records) == \A r, s \in records : r.id = s.id => r = s
Shaped(me) ==
  /\ me = [at |-> me.at, of |-> me.of, year |-> me.year, todo |-> me.todo, stage |-> me.stage, read |-> me.read]
  /\ me.at \in {"idle", "read", "write", "done"} /\ me.stage \in 1..3
  /\ me.at \in {"read", "write"} =>
       /\ me.of = [kind |-> me.of.kind, id |-> me.of.id, amount |-> me.of.amount] /\ me.of.kind \in {"credits", "withdrawals"}
       /\ me.year \in Years /\ me.todo \in Seq(Workers) /\ me.todo # <<>>
  /\ me.at = "write" /\ me.stage = 1 => Once(me.read) /\ \A r \in me.read : r.id # me.of.id
About(me, w, y) == me.at \in {"read", "write"} /\ Head(me.todo) = w /\ me.year = y
EarningsInv ==
  /\ DOMAIN lists = Keys /\ DOMAIN drive = Drives /\ torn \subseteq Keys
  /\ \A d \in Drives : Shaped(drive[d])
  /\ \A k \in {"credits", "withdrawals"}, w \in Workers, y \in Years : Once(lists[<<k, w, y>>])
  /\ \A w \in Workers, y \in Years : Whole(w, y) /\ lists[<<"credits", w, y>>] # {} =>
       /\ y \in lists[<<"years", w>>] \/ \E d \in Drives : About(drive[d], w, y) /\ drive[d].stage = 2
       /\ w \in lists[<<"earners", y>>] \/ \E d \in Drives : About(drive[d], w, y) /\ drive[d].stage \in {2, 3}
=============================================================================
