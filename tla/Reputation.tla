----------------------------- MODULE Reputation -----------------------------
(***************************************************************************)
(* What is written about a worker after a settlement: recordOutcome()      *)
(* (dispatch.js), the daily activity (workerAnalytics.js) and the badges   *)
(* (gamification.js), and what is shown of it.  Every record is read,      *)
(* changed and written back; a settlement does so for all its workers at   *)
(* once (Promise.all), and settlements overlap.                            *)
(***************************************************************************)
EXTENDS Integers, Sequences, SequencesExt, FiniteSets

CONSTANTS Workers, Settlements,
          Rounds,           \* who matched and who did not, in what may be settled
          MaxDay,           \* bound: days are 0..MaxDay
          DaysRetained,     \* MAX_DAYS_RETAINED
          MaxKnown,         \* MAX_TRACKED_WORKERS
          Gate,             \* minAnswersBeforeReputationGate
          Sharp             \* answers a sharpshooter needs, 50 in the code

ReputationAssumption == DaysRetained \in Nat /\ MaxDay \in Nat

VARIABLES rep,          \* rep:<worker>
          known,        \* the worker index, newest first
          activity,     \* wact:<worker>
          badges,       \* wbadges:<worker>, with the day each was earned
          today,
          lane,         \* a settlement's next await about a worker, what it read
          outcomes,     \* the outcomes of a worker, history for the properties
          raced         \* workers two settlements wrote about at the same time

stored == <<rep, known, activity, badges>>
vars == <<stored, today, lane, outcomes, raced>>

Day == 0..MaxDay
Larger(a, b) == IF a > b THEN a ELSE b
Top(S) == CHOOSE x \in S \cup {0} : \A y \in S : y <= x
Unanswered == [answered |-> 0, matched |-> 0]
Busy(w) == {s \in Settlements : lane[s][w].at \notin {"idle", "done"}}

----------------------------------------------------------------------------
\* computeStreak(): days in a row up to d, today not being missed yet; and the
\* longest run.
Active(days) == {d \in Day : days[d].answered > 0}
RunBefore(active, d) == Top({n \in 1..(d + 1) : d - n + 1 .. d \subseteq active})
Streak(days, d) ==
  LET active == Active(days)
      current == RunBefore(active, IF d \in active THEN d ELSE d - 1)
  IN [current |-> current, longest |-> Top({RunBefore(active, e) : e \in Day} \cup {current})]

Retained(active, d) == Cardinality({e \in active : e >= d}) <= DaysRetained

\* applyOutcome(): the oldest days are trimmed, the longest streak is carried.
ApplyOutcome(act, matched) ==
  LET days == [act.days EXCEPT ![today] = [answered |-> @.answered + 1, matched |-> @.matched + matched]]
      kept == [d \in Day |-> IF Retained(Active(days), d) THEN days[d] ELSE Unanswered]
  IN [days |-> kept, longest |-> Larger(act.longest, Streak(kept, today).current)]

\* buildContext() and evaluateBadges(), with one badge of each sort.
Earned(r, act) ==
  LET longest == Larger(act.longest, Streak(act.days, today).longest)
  IN (IF r.total >= 1 THEN {"first-answer"} ELSE {}) \cup (IF r.total >= Gate THEN {"established"} ELSE {})
     \cup (IF r.total >= Sharp /\ 10 * r.matched >= 9 * r.total THEN {"sharpshooter"} ELSE {})
     \cup (IF longest >= 2 THEN {"streak"} ELSE {})

\* computeXp(), which levelForXp() maps to a level.
Xp(r, act, d) == 2 * r.total + 10 * r.matched + 5 * Larger(act.longest, Streak(act.days, d).longest)

\* rankLeaderboard() and computeRank(): established workers, by accuracy, then
\* by answers, then in the order of the index.
Better(v, w) == LET a == rep[v].matched * rep[w].total
                    b == rep[w].matched * rep[v].total
                IN a > b \/ (a = b /\ rep[v].total > rep[w].total)
Established(w) == rep[w].total >= Gate
RankLeaderboard(limit) ==
  LET rows == SelectSeq(known, Established)
      Before(i, j) == Better(rows[i], rows[j]) \/ (~Better(rows[j], rows[i]) /\ i < j)
      order == SortSeq([i \in DOMAIN rows |-> i], Before)
  IN [i \in 1..Larger(0, IF Len(order) < limit THEN Len(order) ELSE limit) |-> rows[order[i]]]
ComputeRank(w) ==
  IF w \notin ToSet(known) \/ ~Established(w) THEN 0
  ELSE LET rows == SelectSeq(known, Established)
           i == CHOOSE i \in DOMAIN rows : rows[i] = w
       IN 1 + Cardinality({j \in DOMAIN rows : Better(rows[j], w) \/ (~Better(w, rows[j]) /\ j < i)})

----------------------------------------------------------------------------
Idle == [at |-> "idle", matched |-> 0, rep |-> [matched |-> 0, total |-> 0],
         act |-> [days |-> [d \in Day |-> Unanswered], longest |-> 0], known |-> <<>>, had |-> {}]
Init == /\ rep = [w \in Workers |-> Idle.rep] /\ known = <<>> /\ activity = [w \in Workers |-> Idle.act]
        /\ badges = [w \in Workers |-> {}] /\ today = 0 /\ raced = {}
        /\ lane = [s \in Settlements |-> [w \in Workers |-> Idle]]
        /\ outcomes = [w \in Workers |-> {}]

Put(s, w, record) == lane' = [lane EXCEPT ![s] = [lane[s] EXCEPT ![w] = record]]
To(s, w, step) == Put(s, w, [Idle EXCEPT !.at = step, !.matched = lane[s][w].matched])

\* recordReputationOutcomes(): every worker who answered, at once.
Settle(s, matching, missed) ==
  /\ \A w \in Workers : lane[s][w].at = "idle"
  /\ lane' = [lane EXCEPT ![s] = [w \in Workers |-> IF w \in matching \cup missed
       THEN [Idle EXCEPT !.at = "rep", !.matched = IF w \in matching THEN 1 ELSE 0] ELSE [Idle EXCEPT !.at = "done"]]]
  /\ raced' = raced \cup {w \in matching \cup missed : Busy(w) # {}}
  /\ outcomes' = [w \in Workers |-> outcomes[w] \cup
       IF w \in matching \cup missed THEN {[of |-> s, on |-> today, matched |-> w \in matching]} ELSE {}]
  /\ UNCHANGED <<stored, today>>

ReadReputation(s, w) ==
  /\ lane[s][w].at = "rep"
  /\ Put(s, w, [lane[s][w] EXCEPT !.at = "count", !.rep = rep[w]])
  /\ UNCHANGED <<stored, today, outcomes, raced>>

WriteReputation(s, w) ==
  LET read == lane[s][w].rep
  IN /\ lane[s][w].at = "count"
     /\ rep' = [rep EXCEPT ![w] = [matched |-> read.matched + lane[s][w].matched, total |-> read.total + 1]]
     /\ To(s, w, IF read.total = 0 THEN "known" ELSE "activity")
     /\ UNCHANGED <<known, activity, badges, today, outcomes, raced>>

\* A worker is indexed after its first outcome.
ReadKnown(s, w) ==
  /\ lane[s][w].at = "known"
  /\ Put(s, w, [lane[s][w] EXCEPT !.at = IF w \in ToSet(known) THEN "activity" ELSE "index", !.known = known])
  /\ UNCHANGED <<stored, today, outcomes, raced>>

WriteKnown(s, w) ==
  LET next == <<w>> \o lane[s][w].known
  IN /\ lane[s][w].at = "index" /\ To(s, w, "activity")
     /\ known' = IF Len(next) > MaxKnown THEN SubSeq(next, 1, MaxKnown) ELSE next
     /\ UNCHANGED <<rep, activity, badges, today, outcomes, raced>>

\* recordWorkerActivity() and syncBadges(); an exception ends both.
ReadActivity(s, w) ==
  /\ lane[s][w].at = "activity"
  /\ Put(s, w, [lane[s][w] EXCEPT !.at = "fold", !.act = activity[w]])
  /\ UNCHANGED <<stored, today, outcomes, raced>>

WriteActivity(s, w) ==
  /\ lane[s][w].at = "fold" /\ To(s, w, "badges")
  /\ activity' = [activity EXCEPT ![w] = ApplyOutcome(lane[s][w].act, lane[s][w].matched)]
  /\ UNCHANGED <<rep, known, badges, today, outcomes, raced>>

ReadForBadges(s, w) ==
  LET new == {b \in Earned(rep[w], activity[w]) : \A had \in badges[w] : had.id # b}
  IN /\ lane[s][w].at = "badges"
     /\ Put(s, w, [lane[s][w] EXCEPT !.at = IF new = {} THEN "done" ELSE "award",
                                     !.had = badges[w] \cup {[id |-> b, on |-> today] : b \in new}])
     /\ UNCHANGED <<stored, today, outcomes, raced>>

WriteBadges(s, w) ==
  /\ lane[s][w].at = "award" /\ To(s, w, "done")
  /\ badges' = [badges EXCEPT ![w] = lane[s][w].had]
  /\ UNCHANGED <<rep, known, activity, today, outcomes, raced>>

\* A day ends when nothing is being written: days are long.
NextDay ==
  /\ today < MaxDay /\ \A w \in Workers : Busy(w) = {}
  /\ today' = today + 1 /\ UNCHANGED <<stored, lane, outcomes, raced>>

Next == \/ NextDay
        \/ \E s \in Settlements, r \in Rounds : Settle(s, r[1], r[2])
        \/ \E s \in Settlements, w \in Workers :
             \/ ReadReputation(s, w) \/ WriteReputation(s, w) \/ ReadKnown(s, w) \/ WriteKnown(s, w)
             \/ ReadActivity(s, w) \/ WriteActivity(s, w) \/ ReadForBadges(s, w) \/ WriteBadges(s, w)

Spec == Init /\ [][Next]_vars

----------------------------------------------------------------------------
\* An outcome is lost only by a worker about whom two settlements were written
\* at once, and never counted twice; once all is written, reputation, activity
\* and the longest streak of anybody else tell what happened.
LostOnlyInARace == \A w \in Workers :
  LET days == {o.on : o \in outcomes[w]}
      matched == Cardinality({o \in outcomes[w] : o.matched})
      runs == {RunBefore(days, d) : d \in Day}
  IN /\ rep[w].matched <= rep[w].total /\ rep[w].total <= Cardinality(outcomes[w])
     /\ Busy(w) = {} /\ w \notin raced =>
          /\ rep[w] = [matched |-> matched, total |-> Cardinality(outcomes[w])]
          /\ outcomes[w] # {} /\ Cardinality(days) <= DaysRetained => Active(activity[w].days) = days
          /\ \A r \in runs : r <= DaysRetained => activity[w].longest >= r

\* A worker's own rank is the place the leaderboard shows.
RankIsThePlaceShown == \A w \in Workers :
  LET board == RankLeaderboard(Cardinality(Workers))
  IN ComputeRank(w) = Top({i \in DOMAIN board : board[i] = w})

\* Nobody loses a badge, the day it was earned, or points, unless settlements
\* that are about the same worker overlapped (syncBadges, computeXp).
KeepsWhatWasEarned == \A w \in Workers \ raced :
  badges[w] \subseteq badges'[w] /\ Xp(rep[w], activity[w], today) <= Xp(rep'[w], activity'[w], today')
EarnedStays == [][KeepsWhatWasEarned]_<<stored, today>>

\* The inductive invariant.  What is written so far tells of the outcomes that have come
\* so far, and a worker who was never raced about has one settlement under way at most,
\* which has read what there is; the days kept are the latest.
Acts == [days : [Day -> [answered : Nat, matched : Nat]], longest : Nat]
Records == [matched : Nat, total : Nat]
Unfolded == {"rep", "count", "known", "index", "activity", "fold"}
LaneHolds(r) ==
  /\ r = [at |-> r.at, matched |-> r.matched, rep |-> r.rep, act |-> r.act, known |-> r.known, had |-> r.had]
  /\ r.at \in Unfolded \cup {"idle", "badges", "award", "done"} /\ r.matched \in 0..1 /\ r.rep \in Records /\ r.act \in Acts
Shapes ==
  /\ rep = [w \in Workers |-> rep[w]] /\ activity = [w \in Workers |-> activity[w]] /\ badges = [w \in Workers |-> badges[w]]
  /\ lane = [s \in Settlements |-> [w \in Workers |-> lane[s][w]]] /\ today \in Day

Counted(w) == {o \in outcomes[w] : lane[o.of][w].at \notin {"rep", "count"}}
Folded(w) == {o.on : o \in {p \in outcomes[w] : lane[p.of][w].at \notin Unfolded}}
Latest(days) == {d \in days : Retained(days, d)}

OutcomesHold(w) ==
  /\ IsFiniteSet(outcomes[w]) /\ outcomes[w] \subseteq [of : Settlements, on : 0..today, matched : BOOLEAN]
  /\ \A o, p \in outcomes[w] : o.of = p.of => o = p
  /\ \A s \in Settlements : /\ LaneHolds(lane[s][w])
                            /\ lane[s][w].at = "idle" => \A o \in outcomes[w] : o.of # s
                            /\ s \in Busy(w) => \E o \in outcomes[w] : o.of = s /\ o.on = today /\ (o.matched <=> lane[s][w].matched = 1)
CountsHold(w) ==
  /\ rep[w] \in Records /\ rep[w].matched <= rep[w].total /\ rep[w].total <= Cardinality(Counted(w))
  /\ \A s \in Settlements : lane[s][w].at = "count" =>
       lane[s][w].rep.matched <= lane[s][w].rep.total /\ lane[s][w].rep.total <= Cardinality(Counted(w))
Alone(w) ==
  /\ \A s, u \in Busy(w) : s = u
  /\ \A s \in Settlements : /\ lane[s][w].at = "count" => lane[s][w].rep = rep[w]
                            /\ lane[s][w].at = "fold" => lane[s][w].act = activity[w]
                            /\ lane[s][w].at = "award" => badges[w] \subseteq lane[s][w].had
  /\ rep[w] = [matched |-> Cardinality({o \in Counted(w) : o.matched}), total |-> Cardinality(Counted(w))]
Carried(act, days) ==
  /\ Active(act.days) = Latest(days)
  /\ \A d \in Day : /\ RunBefore(Active(act.days), d) <= act.longest
                    /\ RunBefore(days, d) <= DaysRetained => RunBefore(days, d) <= act.longest
Tells(w) == /\ OutcomesHold(w) /\ CountsHold(w) /\ activity[w] \in Acts
            /\ w \notin raced => Alone(w) /\ Carried(activity[w], Folded(w))
ReputationInv == Shapes /\ \A w \in Workers : Tells(w)
=============================================================================
