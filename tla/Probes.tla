-------------------------------- MODULE Probes --------------------------------
(***************************************************************************)
(* What operators are shown and told: the scan of the job index, the       *)
(* probes of Redis and of the chain (healthProbes.js, metrics.js), and the *)
(* watch on the treasury's balances (alerting.js, admin.js).  All of them  *)
(* read one thing after the other while what they read changes.            *)
(***************************************************************************)
EXTENDS Integers, Sequences, FiniteSets, SequencesExt

CONSTANTS Jobs, MaxTracked,  \* the index holds the newest
          Scans, Polls,      \* how many run at a time, overlapping ones included
          MaxFlips,          \* bound on changes of a balance or a dependency
          MaxRestarts, None

VARIABLES topic,     \* what is exercised: jobs, treasury or dependency
          job,       \* [status, createdAt], or None
          index,     \* known job ids, newest first
          scan,      \* of the job index, under way
          gauge,     \* what /metrics shows of the jobs, with the scan behind it
          low,       \* whether a balance is below its threshold, by label
          flips,     \* of low or up, counted
          crossed,   \* how often a balance fell below, history
          poll,      \* of the treasury, under way
          lowBalanceState, raised, current, restarts,
          overlapped, \* whether two polls did, history
          link       \* a dependency, its probe and its gauge

vars == <<topic, job, index, scan, gauge, low, flips, crossed, poll, lowBalanceState, raised, current, restarts,
          overlapped, link>>
jobVars == <<job, index, scan, gauge>>
treasuryVars == <<low, crossed, poll, lowBalanceState, raised, current, restarts, overlapped>>

\* A job record, as far as it matters here.
Records == [status : {"awaiting_workers", "reconciling", "settled", "gone"}, createdAt : Nat]
ProbesAssumption == IsFiniteSet(Jobs) /\ MaxTracked \in Nat /\ None \notin Nat \cup BOOLEAN \cup Records

Labels == {"platform", "fiat_pool"}
\* A record whose time to live ran out is gone; its id stays in the index.
InFlight(j) == job[j] # None /\ job[j].status \notin {"settled", "gone"}
NoScan == [at |-> "idle", todo |-> {}, found |-> {}, before |-> {}, throughout |-> {}]
NoPoll == [at |-> "idle", reading |-> [l \in Labels |-> None], changed |-> {}]
No == [l \in Labels |-> FALSE]

Init == /\ topic \in {"jobs", "treasury", "dependency"}
        /\ job = [j \in Jobs |-> None] /\ index = <<>> /\ scan = [s \in Scans |-> NoScan] /\ gauge = None
        /\ low = No /\ flips = 0 /\ crossed = [l \in Labels |-> 0] /\ poll = [p \in Polls |-> NoPoll]
        /\ lowBalanceState = No /\ raised = crossed /\ current = No /\ restarts = 0 /\ overlapped = FALSE
        /\ link = [up |-> TRUE, probe |-> "idle", late |-> FALSE, wasUp |-> TRUE, shown |-> TRUE, answered |-> TRUE]

----------------------------------------------------------------------------
\* Questions are indexed, progress, settle and expire.
CreateJob(j) ==
  /\ topic = "jobs" /\ job[j] = None /\ j \notin {index[n] : n \in DOMAIN index}
  /\ job' = [job EXCEPT ![j] = [status |-> "awaiting_workers", createdAt |-> Cardinality({k \in Jobs : job[k] # None})]]
  /\ index' = SubSeq(<<j>> \o index, 1, IF Len(index) < MaxTracked THEN Len(index) + 1 ELSE MaxTracked)
  /\ UNCHANGED <<topic, scan, gauge, flips, treasuryVars, link>>

UpdateJob(j, status) ==
  /\ job[j] # None /\ job[j].status \notin {status, "gone"} /\ (job[j].status = "settled" => status = "gone")
  /\ job' = [job EXCEPT ![j].status = status]
  /\ scan' = IF status \in {"settled", "gone"} THEN [s \in Scans |-> [scan[s] EXCEPT !.throughout = @ \ {j}]] ELSE scan
  /\ UNCHANGED <<topic, index, gauge, flips, treasuryVars, link>>

\* probeJobs(): the index, then every job of it, 32 at a time in any order.
ReadIndex(s) ==
  LET known == {index[n] : n \in DOMAIN index}
      flying == {j \in known : InFlight(j)}
  IN /\ topic = "jobs" /\ scan[s].at = "idle" /\ known # {}
     /\ scan' = [scan EXCEPT ![s] = [NoScan EXCEPT !.at = "reading", !.todo = known, !.before = flying, !.throughout = flying]]
     /\ UNCHANGED <<topic, job, index, gauge, flips, treasuryVars, link>>

ReadJob(s, j) ==
  /\ scan[s].at = "reading" /\ j \in scan[s].todo
  /\ scan' = [scan EXCEPT ![s].todo = @ \ {j}, ![s].found = @ \cup {[id |-> j, job |-> job[j]]}]
  /\ UNCHANGED <<topic, job, index, gauge, flips, treasuryVars, link>>

\* One read that fails is the end of the scan, and the gauges keep their values.
ReadFails(s) ==
  /\ scan[s].at = "reading" /\ scan' = [scan EXCEPT ![s] = NoScan]
  /\ UNCHANGED <<topic, job, index, gauge, flips, treasuryVars, link>>

\* Jobs by status, and the creation time of the oldest, of those not settled.
Unsettled(found) == {f \in found : f.job.status \notin {"settled", "gone"}}
ByStatus(found) ==
  [status \in {f.job.status : f \in Unsettled(found)} |-> Cardinality({f \in Unsettled(found) : f.job.status = status})]
OldestCreatedAt(found) ==
  IF Unsettled(found) = {} THEN None
  ELSE CHOOSE t \in {f.job.createdAt : f \in Unsettled(found)} : \A f \in Unsettled(found) : t <= f.job.createdAt
RecordJobScan(s) ==
  LET found == scan[s].found
  IN /\ scan[s].at = "reading" /\ scan[s].todo = {}
     /\ gauge' = [byStatus |-> ByStatus(found), oldest |-> OldestCreatedAt(found),
                  before |-> scan[s].before, throughout |-> scan[s].throughout]
     /\ scan' = [scan EXCEPT ![s] = NoScan]
     /\ UNCHANGED <<topic, job, index, flips, treasuryVars, link>>

----------------------------------------------------------------------------
\* A balance falls below its threshold or recovers.
Flip(l) ==
  /\ topic = "treasury" /\ flips < MaxFlips /\ flips' = flips + 1
  /\ low' = [low EXCEPT ![l] = ~@] /\ crossed' = [crossed EXCEPT ![l] = IF low[l] THEN @ ELSE @ + 1]
  /\ poll' = [p \in Polls |-> [poll[p] EXCEPT !.changed = @ \cup {l}]] /\ current' = [current EXCEPT ![l] = FALSE]
  /\ UNCHANGED <<topic, jobVars, lowBalanceState, raised, restarts, overlapped, link>>

\* checkTreasuryBalance(): a tick that no earlier poll holds back.
CheckTreasuryBalance(p) ==
  /\ topic = "treasury" /\ poll[p].at = "idle"
  /\ poll' = [poll EXCEPT ![p] = [NoPoll EXCEPT !.at = "platform"]]
  /\ overlapped' = (overlapped \/ \E o \in Polls : poll[o].at # "idle")
  /\ UNCHANGED <<topic, jobVars, flips, low, crossed, lowBalanceState, raised, current, restarts, link>>

\* getTreasury(): no platform balance is a failed poll, no pool balance is none.
LoadPlatform(p, fails) ==
  /\ poll[p].at = "platform"
  /\ poll' = [poll EXCEPT ![p] = IF fails THEN NoPoll ELSE [@ EXCEPT !.at = "pool", !.reading["platform"] = low["platform"]]]
  /\ UNCHANGED <<topic, jobVars, flips, low, crossed, lowBalanceState, raised, current, restarts, overlapped, link>>

LoadPool(p, fails) ==
  /\ poll[p].at = "pool"
  /\ poll' = [poll EXCEPT ![p] = [@ EXCEPT !.at = "evaluate", !.reading["fiat_pool"] = IF fails THEN None ELSE low["fiat_pool"]]]
  /\ UNCHANGED <<topic, jobVars, flips, low, crossed, lowBalanceState, raised, current, restarts, overlapped, link>>

\* evaluateBalance() of what was read: an alert on the way down only.
Alerts(p, l) == poll[p].reading[l] = TRUE /\ ~lowBalanceState[l]
EvaluateBalance(p) ==
  LET read == {l \in Labels : poll[p].reading[l] # None}
  IN /\ poll[p].at = "evaluate"
     /\ raised' = [l \in Labels |-> IF Alerts(p, l) THEN raised[l] + 1 ELSE raised[l]]
     /\ lowBalanceState' = [l \in Labels |-> IF l \in read THEN poll[p].reading[l] ELSE lowBalanceState[l]]
     /\ current' = [l \in Labels |-> IF l \in read THEN l \notin poll[p].changed ELSE current[l]]
     /\ poll' = [poll EXCEPT ![p] = NoPoll]
     /\ UNCHANGED <<topic, jobVars, flips, low, crossed, restarts, overlapped, link>>

\* A restart forgets which alerts were raised.
Restart ==
  /\ topic = "treasury" /\ restarts < MaxRestarts /\ restarts' = restarts + 1
  /\ lowBalanceState' = No /\ current' = No /\ poll' = [p \in Polls |-> NoPoll]
  /\ UNCHANGED <<topic, jobVars, flips, low, crossed, raised, overlapped, link>>

----------------------------------------------------------------------------
\* A dependency comes and goes under its probe, which has a time limit shorter
\* than the interval; an answer that comes after it is not looked at.
Probing == topic = "dependency" /\ UNCHANGED <<topic, jobVars, treasuryVars>>
Finish(up) == [link EXCEPT !.probe = "idle", !.shown = up, !.answered = link.wasUp]

FlipLink == /\ Probing /\ flips < MaxFlips /\ flips' = flips + 1
            /\ link' = [link EXCEPT !.up = ~@, !.wasUp = @ \/ ~link.up]
Probe == /\ Probing /\ link.probe = "idle" /\ UNCHANGED flips
         /\ link' = [link EXCEPT !.probe = "asked", !.wasUp = link.up]
Answer == Probing /\ link.probe = "asked" /\ link.up /\ link' = Finish(TRUE) /\ UNCHANGED flips
Refuse == Probing /\ link.probe = "asked" /\ ~link.up /\ link' = Finish(FALSE) /\ UNCHANGED flips
TimeOut == /\ Probing /\ link.probe = "asked" /\ UNCHANGED flips
           /\ link' = [Finish(FALSE) EXCEPT !.late = TRUE]
LateAnswer == Probing /\ link.late /\ link' = [link EXCEPT !.late = FALSE] /\ UNCHANGED flips

Next == \/ \E j \in Jobs : CreateJob(j) \/ \E status \in {"reconciling", "settled", "gone"} : UpdateJob(j, status)
        \/ \E s \in Scans : ReadIndex(s) \/ ReadFails(s) \/ RecordJobScan(s) \/ \E j \in Jobs : ReadJob(s, j)
        \/ \E l \in Labels : Flip(l)
        \/ \E p \in Polls : \/ CheckTreasuryBalance(p) \/ EvaluateBalance(p)
                            \/ \E fails \in BOOLEAN : LoadPlatform(p, fails) \/ LoadPool(p, fails)
        \/ Restart \/ FlipLink \/ Probe \/ Answer \/ Refuse \/ TimeOut \/ LateAnswer

Spec == Init /\ [][Next]_vars

----------------------------------------------------------------------------
\* The gauges count every indexed job that was in flight throughout the scan,
\* and none that was not when it began, whatever settled meanwhile; and a job
\* stuck throughout shows in the age of the oldest.
Shown(status) == IF status \in DOMAIN gauge.byStatus THEN gauge.byStatus[status] ELSE 0
ScanCounts ==
  gauge # None =>
    /\ DOMAIN gauge.byStatus \subseteq {"awaiting_workers", "reconciling"}
    /\ Shown("awaiting_workers") + Shown("reconciling") \in Cardinality(gauge.throughout)..Cardinality(gauge.before)
    /\ \A j \in gauge.throughout : gauge.oldest # None /\ gauge.oldest <= job[j].createdAt

\* A balance that did not change during a poll is held to be what it is; and
\* unless polls overlapped, there is one alert at most for each time it fell
\* and each restart.
AlertsFollowTheBalance ==
  \A l \in Labels : /\ current[l] => lowBalanceState[l] = low[l]
                    /\ ~overlapped => raised[l] <= crossed[l] + restarts

\* A dependency that was down all through its last probe is shown as down,
\* late answers to earlier probes or not.
DownIsShown == link.shown => link.answered

\* The inductive invariant: a scan has read, or has yet to read, every job that it found in
\* the index, and what it read of one in flight then is of one that was when it began; a
\* balance that is low and not held to be has fallen more often than was told.
Known == {index[n] : n \in DOMAIN index}
Flies(record) == record.status \notin {"settled", "gone"}
\* What was found of a job, with what is known of it now.
FoundHolds(sc, f) ==
  /\ f.id \notin sc.todo /\ job[f.id] # None /\ job[f.id].createdAt = f.job.createdAt
  /\ Flies(f.job) => f.id \in sc.before
  /\ f.id \in sc.throughout => Flies(f.job)
ScanHolds(sc) ==
  /\ sc \in [at : {"idle", "reading"}, todo : SUBSET Jobs, before : SUBSET Jobs, throughout : SUBSET sc.before,
            found : SUBSET [id : Jobs, job : Records]]
  /\ IsFiniteSet(sc.found)
  /\ \A j \in sc.todo : job[j] # None /\ (InFlight(j) => j \in sc.before)
  /\ \A f, g \in sc.found : f.id = g.id => f = g
  /\ \A f \in sc.found : FoundHolds(sc, f)
  /\ \A j \in sc.throughout : InFlight(j) /\ (j \in sc.todo \/ \E f \in sc.found : f.id = j)
JobsHold ==
  /\ job \in [Jobs -> Records \cup {None}] /\ index \in Seq(Jobs) /\ \A j \in Known : job[j] # None
  /\ DOMAIN scan = Scans /\ \A s \in Scans : ScanHolds(scan[s])
  /\ gauge # None => gauge.throughout \subseteq {j \in Jobs : job[j] # None}
  /\ ScanCounts

Behind(l) == raised[l] < crossed[l] + restarts
\* A poll and one label.
PollHolds(p, l) ==
  /\ poll[p].at = "idle" => poll[p].reading[l] = None
  /\ poll[p].reading[l] # None /\ l \notin poll[p].changed => poll[p].reading[l] = low[l]
  /\ ~overlapped =>
       /\ poll[p].reading[l] = TRUE /\ ~lowBalanceState[l] => Behind(l)
       /\ poll[p].reading[l] = FALSE /\ low[l] => Behind(l)
TreasuryHolds ==
  /\ low \in [Labels -> BOOLEAN] /\ lowBalanceState \in [Labels -> BOOLEAN] /\ current \in [Labels -> BOOLEAN]
  /\ crossed \in [Labels -> Nat] /\ raised \in [Labels -> Nat] /\ restarts \in Nat /\ overlapped \in BOOLEAN
  /\ poll \in [Polls -> [at : {"idle", "platform", "pool", "evaluate"}, reading : [Labels -> BOOLEAN \cup {None}], changed : SUBSET Labels]]
  /\ ~overlapped => \A p, o \in Polls : poll[p].at # "idle" /\ poll[o].at # "idle" => p = o
  /\ ~overlapped => \A l \in Labels : low[l] /\ ~lowBalanceState[l] => Behind(l)
  /\ \A p \in Polls, l \in Labels : PollHolds(p, l)
  /\ AlertsFollowTheBalance

\* What an answer says is so of a dependency that was up at some time of its probe.
LinkHolds == link \in [up : BOOLEAN, probe : {"idle", "asked"}, late : BOOLEAN, wasUp : BOOLEAN, shown : BOOLEAN, answered : BOOLEAN]
             /\ (link.probe = "asked" /\ link.up => link.wasUp) /\ DownIsShown
ProbesInv == JobsHold /\ TreasuryHolds /\ LinkHolds

ProbesHold == ScanCounts /\ AlertsFollowTheBalance /\ DownIsShown
=============================================================================
