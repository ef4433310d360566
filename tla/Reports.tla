------------------------------- MODULE Reports -------------------------------
(***************************************************************************)
(* What is reported of the questions: the counters and the cached totals   *)
(* of GET /stats (stats.js), the spend of a payer and of a team of payers  *)
(* from their job records (payerIndex.js, server.js), and the jobs of the  *)
(* sandbox (sandbox.js), which must stay out of both.                      *)
(***************************************************************************)
EXTENDS Integers, FiniteSets, FiniteSetsExt

CONSTANTS Jobs, Payers, Readers, None,
          Amounts, Categories, Days,
          StatsCacheTtl, MaxTime

ReportsAssumption == /\ IsFiniteSet(Jobs) /\ StatsCacheTtl \in Nat /\ MaxTime \in Nat
                     /\ "sandbox" \notin Payers \cup {None} /\ None \notin {"resolved", "refunded"}

VARIABLES job,      \* [by, status, outcome, amount, category, day], by = "sandbox" or a payer
          tracked,  \* the questions in a payer's index
          stage,    \* how far the run behind a job has come, [at, outcome]
          stats,    \* the durable counters
          cache,    \* [totals, until] of STATS_CACHE_KEY, or None
          reader,   \* [at, totals] of a GET /stats under way
          now

vars == <<job, tracked, stage, stats, cache, reader, now>>

Outcomes == {"resolved", "refunded"}
Idle == [at |-> "idle", totals |-> None]
NoTotals == [o \in Outcomes |-> 0]

Init == /\ job = [j \in Jobs |-> None] /\ tracked = [p \in Payers |-> {}]
        /\ stage = [j \in Jobs |-> [at |-> "none", outcome |-> None]]
        /\ stats = NoTotals /\ cache = None /\ reader = [r \in Readers |-> Idle]
        /\ now = 0

Goes(j, at, outcome) == stage' = [stage EXCEPT ![j] = [at |-> at, outcome |-> outcome]]

\* updateJob() starts from nothing when the record is gone.
Gone == [by |-> None, status |-> "awaiting_workers", outcome |-> None,
         amount |-> 0, category |-> None, day |-> None]
Patched(j, status, outcome) ==
  job' = [job EXCEPT ![j] = [(IF @ = None THEN Gone ELSE @) EXCEPT !.status = status, !.outcome = outcome]]

----------------------------------------------------------------------------
\* A paid question, from its job record to its settlement: settleResolved() and
\* settleRefunded() count before they update the record.
AskPaid(j, p, amount, category, day) ==
  /\ stage[j].at = "none" /\ Goes(j, "paid", None)
  /\ job' = [job EXCEPT ![j] = [Gone EXCEPT !.by = p, !.amount = amount,
                                             !.category = category, !.day = day]]
  /\ tracked' = [tracked EXCEPT ![p] = @ \cup {j}]
  /\ UNCHANGED <<stats, cache, reader, now>>

IncrementStat(j, outcome) ==
  /\ stage[j].at = "paid" /\ Goes(j, "counted", outcome)
  /\ stats' = [stats EXCEPT ![outcome] = @ + 1]
  /\ UNCHANGED <<job, tracked, cache, reader, now>>

SettleJob(j) ==
  /\ stage[j].at = "counted" /\ Goes(j, "done", stage[j].outcome)
  /\ Patched(j, "settled", stage[j].outcome)
  /\ UNCHANGED <<tracked, stats, cache, reader, now>>

----------------------------------------------------------------------------
\* startSandboxFulfillment(): a free job in the mode asked for.
AskSandbox(j, mode) ==
  /\ stage[j].at = "none" /\ Goes(j, "sandbox", mode)
  /\ job' = [job EXCEPT ![j] = [Gone EXCEPT !.by = "sandbox"]]
  /\ UNCHANGED <<tracked, stats, cache, reader, now>>

\* runSandboxFulfillment(): a draft by Claude, or canned answers when the mode
\* asks for them, the budget has no room or the draft fails; either ends alike.
RunSandbox(j) ==
  /\ stage[j].at = "sandbox" /\ Goes(j, "canned", stage[j].outcome)
  /\ Patched(j, "reconciling", None)
  /\ UNCHANGED <<tracked, stats, cache, reader, now>>

\* The draft, or the vote of the canned answers, resolves two of the three modes.
SettleSandbox(j) ==
  LET outcome == IF stage[j].outcome = "no-answers" THEN "refunded" ELSE "resolved"
  IN /\ stage[j].at = "canned" /\ Goes(j, "done", outcome) /\ Patched(j, "settled", outcome)
     /\ UNCHANGED <<tracked, stats, cache, reader, now>>

\* A sandbox run that throws is settled as refunded.
SandboxCrashes(j) ==
  /\ stage[j].at \in {"sandbox", "canned"} /\ Goes(j, "done", "refunded") /\ Patched(j, "settled", "refunded")
  /\ UNCHANGED <<tracked, stats, cache, reader, now>>

\* The record's time to live; the next updateJob() starts from an empty one.
JobExpires(j) == /\ job[j] # None /\ job' = [job EXCEPT ![j] = None]
                 /\ UNCHANGED <<tracked, stage, stats, cache, reader, now>>

----------------------------------------------------------------------------
\* getStats(): the cache, else the two counters read one by one, which are
\* then cached, if the cache can be written.
Cached == IF cache # None /\ now <= cache.until THEN cache.totals ELSE None

BeginRead(r) ==
  /\ reader[r].at = "idle" /\ Cached = None
  /\ reader' = [reader EXCEPT ![r] = [at |-> "reading",
                totals |-> [NoTotals EXCEPT !["resolved"] = stats["resolved"]]]]
  /\ UNCHANGED <<job, tracked, stage, stats, cache, now>>

EndRead(r) ==
  /\ reader[r].at = "reading"
  /\ reader' = [reader EXCEPT ![r].at = "read", ![r].totals["refunded"] = stats["refunded"]]
  /\ UNCHANGED <<job, tracked, stage, stats, cache, now>>

WriteCache(r) ==
  /\ reader[r].at = "read" /\ reader' = [reader EXCEPT ![r] = Idle]
  /\ cache' \in {cache, [totals |-> reader[r].totals, until |-> now + StatsCacheTtl]}
  /\ UNCHANGED <<job, tracked, stage, stats, now>>

Tick == now < MaxTime /\ now' = now + 1 /\ UNCHANGED <<job, tracked, stage, stats, cache, reader>>

Next ==
  \/ Tick
  \/ \E j \in Jobs :
       \/ \E p \in Payers, a \in Amounts, c \in Categories \cup {None}, d \in Days : AskPaid(j, p, a, c, d)
       \/ \E o \in Outcomes : IncrementStat(j, o)
       \/ \E m \in {"resolved", "disagreement", "no-answers"} : AskSandbox(j, m)
       \/ SettleJob(j) \/ RunSandbox(j) \/ SettleSandbox(j) \/ SandboxCrashes(j) \/ JobExpires(j)
  \/ \E r \in Readers : BeginRead(r) \/ EndRead(r) \/ WriteCache(r)

Spec == Init /\ [][Next]_vars

----------------------------------------------------------------------------
\* summarizePayerQuestions() of the jobs that still have a record, and
\* bucketPayerSpend() by a field of theirs.
Questions(p) == {j \in tracked[p] : job[j] # None}
Spend(js) == MapThenSumSet(LAMBDA j : job[j].amount, js)
Resolved(js) == {j \in js : job[j].outcome = "resolved"}
Settled(js) == {j \in js : job[j].status = "settled"}
ByCategory(js) == [c \in {job[j].category : j \in js} |-> Spend({j \in js : job[j].category = c})]
\* A record that expired and was patched again has no createdAt.
ByDay(js) == [d \in {job[j].day : j \in js} \ {None} |-> Spend({j \in js : job[j].day = d})]
Total(buckets) == MapThenSumSet(LAMBDA k : buckets[k], DOMAIN buckets)

\* A team's page: the summaries of its members, merged.
TeamQuestions(members) == UNION {Questions(p) : p \in members}
SpendByMember(members) == [p \in members |-> Spend(Questions(p))]

----------------------------------------------------------------------------
\* The totals of GET /stats count settlements of paid questions only, each once, also while
\* one settles and its record expires; what a reader or the cache holds was never more than
\* that; whatever has expired or settles, no payer is shown a sandbox job, nor a question as
\* resolved that is not settled.
Counts(o, j) == /\ stage[j].at \in {"counted", "done"} /\ stage[j].outcome = o
                /\ \E p \in Payers : j \in tracked[p]
ReportsHold ==
  /\ \A o \in Outcomes : stats[o] = Cardinality({j \in Jobs : Counts(o, j)})
  /\ \A o \in Outcomes : /\ cache # None => cache.totals[o] <= stats[o]
                         /\ \A r \in Readers : reader[r].at # "idle" => reader[r].totals[o] <= stats[o]
  /\ \A members \in SUBSET Payers :
       LET js == TeamQuestions(members)
       IN Resolved(js) \subseteq Settled(js) /\ \A j \in js : job[j].by # "sandbox"

\* A payer's spend is the same by category, by day and by member.
SpendAddsUp == \A members \in SUBSET Payers :
  LET js == TeamQuestions(members)
  IN /\ Total(ByCategory(js)) = Spend(js) /\ Total(ByDay(js)) = Spend(js)
     /\ Total(SpendByMember(members)) = Spend(js)

\* The inductive invariant: only paid questions are tracked, and what their records say.
Stages == {"none", "paid", "counted", "done", "sandbox", "canned"}
JobOK(j) ==
  LET s == stage[j] IN
  /\ s = [at |-> s.at, outcome |-> s.outcome] /\ s.at \in Stages
  /\ s.at = "counted" => s.outcome \in Outcomes
  /\ \A p \in Payers : j \in tracked[p] => s.at \in {"paid", "counted", "done"}
  /\ s.at \in {"paid", "counted"} => \E p \in Payers : j \in tracked[p]
  /\ job[j] # None => LET r == job[j] IN
       /\ r = [by |-> r.by, status |-> r.status, outcome |-> r.outcome,
               amount |-> r.amount, category |-> r.category, day |-> r.day]
       /\ \A p \in Payers : j \in tracked[p] => r.by # "sandbox" /\ (r.outcome = "resolved" => r.status = "settled")
Totals(t) == DOMAIN t = Outcomes /\ \A o \in Outcomes : t[o] \in Nat /\ t[o] <= stats[o]
ReportsInv ==
  /\ tracked \in [Payers -> SUBSET Jobs] /\ DOMAIN job = Jobs /\ DOMAIN stage = Jobs /\ DOMAIN reader = Readers
  /\ stats \in [Outcomes -> Nat] /\ \A o \in Outcomes : stats[o] = Cardinality({j \in Jobs : Counts(o, j)})
  /\ \A j \in Jobs : JobOK(j)
  /\ cache # None => Totals(cache.totals)
  /\ \A r \in Readers : LET me == reader[r] IN
       /\ me = [at |-> me.at, totals |-> me.totals] /\ me.at \in {"idle", "reading", "read"}
       /\ me.at # "idle" => Totals(me.totals)

\* "Staleness is bounded by this window" (stats.js:45), and totals that count
\* settlements never go back.  They do: a slow reader overwrites a newer cache.
TotalsNeverGoBack ==
  [][Cached # None /\ Cached' # None
       => \A o \in Outcomes : Cached[o] <= Cached'[o]]_vars
=============================================================================
