------------------------------ MODULE Collusion ------------------------------
(***************************************************************************)
(* The collusion heuristic (collusion.js): every settled quorum adds to    *)
(* the counters of each pair in it and rescores the pair; a high score     *)
(* flags the pair and takes both workers out of routing until an operator  *)
(* reviews it.  Counters, flags and suspensions are read and written back  *)
(* with awaits in between; observations and reviews overlap.               *)
(***************************************************************************)
EXTENDS Integers, FiniteSets, FiniteSetsExt

CONSTANTS Workers, Pairs,      \* <<a, b>>, in the order of pairKey()
          Quorums, Reviews,    \* settlements observed, POST /admin/collusion/clear
          Start,               \* the counters of earlier quorums
          Expected,            \* of a pair: ratioA * ratioB, in percent
          SharedIp, Referring, \* pairs seen behind one address, one may refer the other
          Rounds,              \* quorums: who answered, the same, and matched; who was quick
          MinShared, FlagScore, SuspendScore, None

Counted == {"shared", "sameAnswer", "sameWrong", "synced"}
Suspensions == [pair : Pairs, score : Int]
CollusionAssumption ==
  /\ Pairs \subseteq Workers \X Workers /\ \A p \in Pairs : p[1] # p[2]
  /\ Quorums \cap Reviews = {} /\ IsFiniteSet(Quorums) /\ None \notin Pairs \cup Suspensions
  /\ Start \in [Pairs -> [Counted -> Nat]] /\ \A p \in Pairs : /\ Expected[p] \in Int
                                                              /\ \A c \in Counted : Start[p][c] <= Start[p].shared
  /\ Referring \subseteq Pairs /\ {MinShared, FlagScore, SuspendScore} \subseteq Nat

VARIABLES counters,   \* collusion:pair:<pair>
          linked,     \* pairs one of whom referred the other
          flag,       \* collusion:flag:<pair>, or None
          suspended,  \* collusion:suspended:<worker>, or None
          task,       \* observations and reviews under way
          observed,   \* how many quorums were to be counted, history
          raced       \* pairs two tasks worked on at once, or one gave up on

vars == <<counters, linked, flag, suspended, task, observed, raced>>

----------------------------------------------------------------------------
\* pairObservations(): what a quorum adds to the counters of a pair.
PairObservation(p, same, matched, quick) ==
  LET both == {p[1], p[2]}
      One(b) == IF b THEN 1 ELSE 0
  IN [shared |-> 1, sameAnswer |-> One(both \subseteq same), synced |-> One(both \subseteq quick),
      sameWrong |-> One(both \subseteq same /\ both \cap matched = {})]

\* scorePair(), in thousandths: a noisy or of the weighted signals (percent).
Clamp(x) == Max({0, Min({x, 100})})
Damp(clean, weight, signal) == (clean * (10000 - weight * signal)) \div 10000
ScorePair(p, c) ==
  LET wrong == IF c.sameWrong >= 2 THEN Clamp((200 * c.sameWrong) \div c.shared + 25) ELSE 0
      lift == IF c.shared >= MinShared /\ Expected[p] < 100
              THEN Clamp((100 * ((100 * c.sameAnswer) \div c.shared - Expected[p])) \div (100 - Expected[p])) ELSE 0
      sync == IF c.shared >= MinShared THEN Clamp((100 * c.synced) \div c.shared) ELSE 0
      referral == IF p \in linked THEN 100 ELSE 0
      ip == IF p \in SharedIp THEN 100 ELSE 0
  IN 1000 - Damp(Damp(Damp(Damp(Damp(1000, 70, wrong), 50, lift), 35, sync), 20, referral), 40, ip)

----------------------------------------------------------------------------
NoFlag == [score |-> -1, reviewed |-> -1]
NoCount == [c \in Counted |-> 0]
Idle == [at |-> "idle", todo |-> {}, pair |-> None, delta |-> [p \in Pairs |-> NoCount],
         counters |-> NoCount, flag |-> NoFlag, score |-> 0]
Tasks == Quorums \cup Reviews
On(p) == {t \in Tasks : task[t].pair = p}

Init == /\ counters = Start /\ linked = {} /\ observed = [p \in Pairs |-> Start[p].shared] /\ raced = {}
        /\ flag = [p \in Pairs |-> NoFlag] /\ suspended = [w \in Workers |-> None]
        /\ task = [t \in Tasks |-> Idle]

At(t, step) == task[t].at = step
Go(t, step) == task' = [task EXCEPT ![t] = [task[t] EXCEPT !.at = step]]
TakesUp(p) == raced' = raced \cup (IF On(p) = {} THEN {} ELSE {p})

\* The loop of recordQuorumObservation() turns to its next pair.
NextPair(t) == IF task[t].todo = {} THEN [Idle EXCEPT !.at = "done"]
               ELSE [Idle EXCEPT !.at = "next", !.todo = task[t].todo, !.delta = task[t].delta]

RecordReferralLink(p) ==
  /\ p \notin linked /\ linked' = linked \cup {p}
  /\ UNCHANGED <<counters, flag, suspended, task, observed, raced>>

RecordQuorumObservation(t, r) ==
  LET pairs == {p \in Pairs : {p[1], p[2]} \subseteq r.of}
  IN /\ At(t, "idle") /\ pairs # {}
     /\ task' = [task EXCEPT ![t] = [Idle EXCEPT !.at = "next", !.todo = pairs,
                   !.delta = [p \in Pairs |-> PairObservation(p, r.same, r.matched, r.quick)]]]
     /\ observed' = [p \in Pairs |-> observed[p] + IF p \in pairs THEN 1 ELSE 0]
     /\ UNCHANGED <<counters, linked, flag, suspended, raced>>

ReadCounters(t, p) ==
  /\ At(t, "next") /\ p \in task[t].todo
  /\ task' = [task EXCEPT ![t] = [task[t] EXCEPT !.at = "count", !.pair = p, !.todo = @ \ {p}, !.counters = counters[p]]]
  /\ TakesUp(p)
  /\ UNCHANGED <<counters, linked, flag, suspended, observed>>

WriteCounters(t) ==
  LET p == task[t].pair
  IN /\ At(t, "count") /\ Go(t, "score")
     /\ counters' = [counters EXCEPT ![p] = [c \in Counted |-> task[t].counters[c] + task[t].delta[p][c]]]
     /\ UNCHANGED <<linked, flag, suspended, observed, raced>>

\* evaluatePair(), and what is flagged already; below the threshold a pair is
\* rewritten only then.
EvaluatePair(t) ==
  /\ At(t, "score")
  /\ task' = [task EXCEPT ![t] = [task[t] EXCEPT !.at = "previous", !.score = ScorePair(task[t].pair, counters[task[t].pair])]]
  /\ UNCHANGED <<counters, linked, flag, suspended, observed, raced>>
ReadFlag(t) ==
  LET previous == flag[task[t].pair]
  IN /\ At(t, "previous")
     /\ task' = [task EXCEPT ![t] = IF task[t].score < FlagScore /\ previous = NoFlag THEN NextPair(t)
                                     ELSE [task[t] EXCEPT !.at = "flag", !.flag = previous]]
     /\ UNCHANGED <<counters, linked, flag, suspended, observed, raced>>

MutantSuspends(score, reviewed) == score >= SuspendScore
Suspends(score, reviewed) == score >= SuspendScore /\ score > reviewed

WriteFlag(t) ==
  LET now == [score |-> task[t].score, reviewed |-> task[t].flag.reviewed]
  IN /\ At(t, "flag") /\ flag' = [flag EXCEPT ![task[t].pair] = now]
     /\ task' = [task EXCEPT ![t] = IF Suspends(now.score, now.reviewed) THEN [task[t] EXCEPT !.at = "first"]
                                     ELSE NextPair(t)]
     /\ UNCHANGED <<counters, linked, suspended, observed, raced>>

Suspend(t) ==
  LET p == task[t].pair
      first == At(t, "first")
  IN /\ At(t, "first") \/ At(t, "second")
     /\ suspended' = [suspended EXCEPT ![p[IF first THEN 1 ELSE 2]] = [pair |-> p, score |-> task[t].score]]
     /\ task' = [task EXCEPT ![t] = IF first THEN [task[t] EXCEPT !.at = "second"] ELSE NextPair(t)]
     /\ UNCHANGED <<counters, linked, flag, observed, raced>>

\* clearPairFlag(): accepts the score there is, then lifts the suspension of
\* each worker that is still for this pair.
ClearPairFlag(t, p) ==
  /\ At(t, "idle") /\ flag[p] # NoFlag
  /\ task' = [task EXCEPT ![t] = [Idle EXCEPT !.at = "review", !.pair = p, !.flag = flag[p]]]
  /\ TakesUp(p)
  /\ UNCHANGED <<counters, linked, flag, suspended, observed>>
WriteReview(t) ==
  /\ At(t, "review") /\ Go(t, "look1")
  /\ flag' = [flag EXCEPT ![task[t].pair] = [task[t].flag EXCEPT !.reviewed = task[t].flag.score]]
  /\ UNCHANGED <<counters, linked, suspended, observed, raced>>
Lift(t) == \E n \in {1, 2} :
  LET p == task[t].pair
      over == IF n = 1 THEN [task[t] EXCEPT !.at = "look2"] ELSE [Idle EXCEPT !.at = "done"]
      is == suspended[p[n]] # None /\ suspended[p[n]].pair = p
  IN \/ /\ At(t, IF n = 1 THEN "look1" ELSE "look2")
        /\ task' = [task EXCEPT ![t] = IF is THEN [task[t] EXCEPT !.at = IF n = 1 THEN "lift1" ELSE "lift2"] ELSE over]
        /\ UNCHANGED <<counters, linked, flag, suspended, observed, raced>>
     \/ /\ At(t, IF n = 1 THEN "lift1" ELSE "lift2")
        /\ suspended' = [suspended EXCEPT ![p[n]] = None] /\ task' = [task EXCEPT ![t] = over]
        /\ UNCHANGED <<counters, linked, flag, observed, raced>>

\* A call of the store fails: the observation is given up, with a warning.
GiveUp(t) ==
  /\ t \in Quorums /\ task[t].at \notin {"idle", "done"}
  /\ task' = [task EXCEPT ![t] = [Idle EXCEPT !.at = "done"]]
  /\ raced' = raced \cup task[t].todo \cup ({task[t].pair} \ {None})
  /\ UNCHANGED <<counters, linked, flag, suspended, observed>>

Next == \/ \E p \in Referring : RecordReferralLink(p)
        \/ \E p \in Pairs, t \in Quorums : ReadCounters(t, p)
        \/ \E t \in Reviews, p \in Pairs : ClearPairFlag(t, p)
        \/ \E t \in Quorums, r \in Rounds : RecordQuorumObservation(t, r)
        \/ \E t \in Tasks : \/ WriteCounters(t) \/ EvaluatePair(t) \/ ReadFlag(t) \/ WriteFlag(t) \/ Suspend(t)
                            \/ WriteReview(t) \/ Lift(t) \/ GiveUp(t)

Spec == Init /\ [][Next]_vars

----------------------------------------------------------------------------
\* A suspension is for a flagged pair the worker is of and for a score that
\* justified it.  Of a pair on which nothing overlapped and no observation was
\* given up, every quorum is counted once nothing is under way; nobody is
\* suspended for a score an operator has accepted (collusion.js:355-357); and
\* a pair that is bad enough is suspended, unless a review of another pair of
\* the worker's lifted what was recorded last, or that pair was raced about.
ReviewStands ==
  /\ \A w \in Workers : suspended[w] # None =>
       /\ w \in {suspended[w].pair[1], suspended[w].pair[2]}
       /\ flag[suspended[w].pair] # NoFlag /\ suspended[w].score >= SuspendScore
  /\ \A p \in Pairs : counters[p].shared <= observed[p]
  /\ \A p \in Pairs \ raced : On(p) = {} =>
       /\ (\A t \in Quorums : p \notin task[t].todo) => counters[p].shared = observed[p]
       /\ \A i \in {1, 2} : LET s == suspended[p[i]] IN
            /\ s # None /\ s.pair = p => s.score > flag[p].reviewed
            /\ Suspends(flag[p].score, flag[p].reviewed) =>
                 s # None \/ \E q \in Pairs \ {p} : p[i] \in {q[1], q[2]} /\ (q \in raced \/ flag[q].reviewed >= 0)

\* The inductive invariant.  Of a pair on which nothing overlaps one task at most is at
\* work, which knows the flag there is; a review under way has accepted its score.
Scores == 0..1000
Counts == {c \in [Counted -> Nat] : \A n \in Counted : c[n] <= c.shared}
Marks == Scores \cup {-1}
Flags == {f \in [score : Marks, reviewed : Marks] : f.score = -1 => f = NoFlag}
Steps == {"idle", "next", "count", "score", "previous", "flag", "first", "second", "done"}
ReviewSteps == {"idle", "review", "look1", "lift1", "look2", "lift2", "done"}
TaskRecords == [at : Steps \cup ReviewSteps, todo : SUBSET Pairs, pair : Pairs \cup {None}, delta : [Pairs -> [Counted -> 0..1]],
                counters : Counts, flag : Flags, score : Scores]
Placed(t, r) ==
  /\ r \in TaskRecords /\ (t \in Quorums => r.at \in Steps)
  /\ t \in Reviews => r.at \in ReviewSteps /\ r.todo = {}
  /\ r.pair = None <=> r.at \in {"idle", "next", "done"}
  /\ r.at \in {"idle", "done"} => r.todo = {}
  /\ r.todo # {} \/ r.at = "count" => \A p \in Pairs : r.delta[p].shared = 1
  /\ \A p \in Pairs : p \in r.todo => p # r.pair
TasksOK == task \in [Tasks -> TaskRecords] /\ \A t \in Tasks : Placed(t, task[t])
StoredOK ==
  /\ counters \in [Pairs -> Counts] /\ observed \in [Pairs -> Nat] /\ flag \in [Pairs -> Flags]
  /\ suspended \in [Workers -> Suspensions \cup {None}] /\ linked \subseteq Pairs /\ raced \subseteq Pairs

\* Quorums that are not counted yet.
Waiting(p) == {t \in Quorums : p \in task[t].todo \/ (task[t].at = "count" /\ task[t].pair = p)}
Uncounted(p) == Cardinality(Waiting(p))
CountsHold ==
  /\ \A p \in Pairs : /\ counters[p].shared + Uncounted(p) <= observed[p]
                      /\ p \notin raced => counters[p].shared + Uncounted(p) = observed[p]
  /\ \A p \in Pairs, t \in Quorums : task[t].pair = p =>
       /\ task[t].at = "count" => task[t].counters.shared + Uncounted(p) <= observed[p]
       /\ task[t].at = "count" /\ p \notin raced => task[t].counters = counters[p]
       /\ task[t].at \in {"score", "previous", "flag", "first", "second"} => counters[p].shared > 0

SuspensionsStand ==
  /\ \A w \in Workers : suspended[w] # None =>
       /\ w \in {suspended[w].pair[1], suspended[w].pair[2]}
       /\ flag[suspended[w].pair] # NoFlag /\ suspended[w].score >= SuspendScore
  /\ \A t \in Tasks : /\ task[t].at \in {"first", "second"} => flag[task[t].pair] # NoFlag /\ task[t].score >= SuspendScore
                      /\ task[t].at = "review" => task[t].flag # NoFlag

LiftsLater(at, i) == at \in {"look1", "lift1"} \/ (i = 2 /\ at \in {"look2", "lift2"})
SuspendsLater(at, i) == at = "first" \/ (i = 2 /\ at = "second")
Lifting(p, i) == \E t \in On(p) : LiftsLater(task[t].at, i)
Suspending(p, i) == \E t \in On(p) : SuspendsLater(task[t].at, i)
Excused(p, w) == \E q \in Pairs \ {p} : w \in {q[1], q[2]} /\ (q \in raced \/ flag[q].reviewed >= 0)
Alone(p) ==
  /\ \A t, u \in On(p) : t = u
  /\ \A t \in On(p) : /\ task[t].at \in {"flag", "review"} => task[t].flag = flag[p]
                      /\ task[t].at \in {"first", "second"} => flag[p].score = task[t].score /\ task[t].score > flag[p].reviewed
                      /\ task[t].at \in {"look1", "lift1", "look2", "lift2"} => flag[p].reviewed = flag[p].score /\ flag[p] # NoFlag
  /\ \A i \in {1, 2} : LET s == suspended[p[i]] IN
       /\ s # None /\ s.pair = p => s.score > flag[p].reviewed \/ Lifting(p, i)
       /\ Suspends(flag[p].score, flag[p].reviewed) => s # None \/ Excused(p, p[i]) \/ Suspending(p, i)

CollusionInv == /\ TasksOK /\ StoredOK /\ CountsHold /\ SuspensionsStand /\ \A p \in Pairs \ raced : Alone(p)
=============================================================================
