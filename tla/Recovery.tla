------------------------------- MODULE Recovery -------------------------------
(***************************************************************************)
(* The recovery sweep (disasterRecovery.js) beside what it recovers from:  *)
(* an instance that drives questions, is drained (canary.js, server.js) or *)
(* dies, and a store that may be lost.  The sweep pages through the        *)
(* contract's list of pending questions while it changes, classifies each  *)
(* by what the store says, reads the chain again and refunds.              *)
(***************************************************************************)
EXTENDS Integers, Sequences, SequencesExt, FiniteSets

CONSTANTS Questions,
          Abandoned,   \* of these, the ones whose payer never comes back
          MaxTime,     \* bound on the clock
          MaxRefunds,  \* maxRefundsPerSweep
          Scans,       \* attempts of snapshotPendingIds()
          Driven,      \* ticks in which a live process touches the job or is done,
                       \* or has stashed what it charged
          MinAge, StaleInflight, None

JobRecords == [status : {"holding", "awaiting_workers", "settled"},
               outcome : {"none", "settled", "refund_pending_timeout"}, updatedAt : Int]
RecoveryAssumption ==
  /\ IsFiniteSet(Questions) /\ None \notin Questions \cup JobRecords /\ MaxRefunds \in Nat
  /\ Abandoned \subseteq Questions /\ Driven \in Nat /\ StaleInflight \in Nat /\ Driven < StaleInflight
  /\ MinAge \in Nat /\ Driven < MinAge

VARIABLES now,
          pending,   \* the contract's index of pending questions
          settled,   \* questions that were resolved or refunded
          created,   \* when it was submitted
          job, stash, claims,
          live,      \* what the instance does with a question: how far a request has
                     \* come, or that it is in its hold, or tracked
          inFlight,  \* of createDrainController()
          mode,      \* the instance: up, draining or down
          sweep,
          throughout, grown,  \* pending since the scan began; some came since: history
          lost,      \* live questions whose records went: with the store, or with a
                     \* stash that expired while they were started or classified: history
          wronged    \* questions the sweep refunded while they were driven: history

chain == <<pending, settled, created>>
records == <<job, stash, claims>>
process == <<live, inFlight, mode>>
history == <<throughout, grown, lost, wronged>>
vars == <<now, chain, records, process, sweep, history>>

Idle == [at |-> "idle", attempt |-> 0, before |-> 0, start |-> 0, ids |-> {}, q |-> None,
         read |-> {}, job |-> None, stashed |-> FALSE, refunds |-> 0]
Init == /\ now = 0 /\ pending = <<>> /\ settled = {} /\ created = [q \in Questions |-> 0]
        /\ job = [q \in Questions |-> None] /\ stash = {} /\ claims = {} /\ live = [q \in Questions |-> "no"]
        /\ inFlight = 0 /\ mode = "up" /\ sweep = Idle
        /\ throughout = {} /\ grown = FALSE /\ lost = {} /\ wronged = {}

Pending(q) == q \in ToSet(pending)
Job(status, outcome) == [status |-> status, outcome |-> outcome, updatedAt |-> IF status = "settled" THEN 0 ELSE now]
SetJob(q, status, outcome) == job' = [job EXCEPT ![q] = Job(status, outcome)]

\* list_pending keeps its index dense: the last takes the place of the settled.
SwapRemove(s, q) ==
  LET last == Len(s)
      i == CHOOSE i \in 1..last : s[i] = q
  IN SubSeq([s EXCEPT ![i] = s[last]], 1, last - 1)
Settle(q) ==
  /\ Pending(q) /\ pending' = SwapRemove(pending, q) /\ settled' = settled \cup {q}
  /\ created' = [created EXCEPT ![q] = 0] /\ throughout' = throughout \ {q}

----------------------------------------------------------------------------
\* The payer submits what was stashed for it; the stash may expire.
Submit(q) ==
  /\ q \notin settled /\ ~Pending(q) /\ pending' = Append(pending, q) /\ created' = [created EXCEPT ![q] = now]
  /\ stash' = stash \cup {q} /\ grown' = (grown \/ sweep.at = "scan")
  /\ UNCHANGED <<now, settled, job, claims, process, sweep, throughout, lost, wronged>>
Starting == {"asked", "charged", "paid", "claimed"}
Reading(q) == sweep.at = "read" /\ sweep.q = q
StashExpires(q) ==
  /\ q \in stash /\ stash' = stash \ {q}
  /\ lost' = lost \cup IF live[q] \in Starting \/ (live[q] # "no" /\ Reading(q)) THEN {q} ELSE {}
  /\ UNCHANGED <<now, chain, job, claims, process, sweep, throughout, grown, wronged>>

\* POST /oracle, refused while draining.  verifyPayment() reads the stash and then
\* the chain; askMetered() charges a new question and then stashes it.
Goes(q, how) == live' = [live EXCEPT ![q] = how]
Drop(q) == Goes(q, "no") /\ lost' = lost \ {q}
ReadStash(q) ==
  /\ mode = "up" /\ live[q] = "no" /\ q \in stash \ Abandoned /\ Goes(q, "asked")
  /\ UNCHANGED <<now, chain, records, inFlight, mode, sweep, history>>
VerifyPayment(q) ==
  /\ live[q] = "asked"
  /\ \/ Pending(q) /\ Goes(q, "paid") /\ UNCHANGED lost
     \/ ~Pending(q) /\ Drop(q)
  /\ UNCHANGED <<now, chain, records, inFlight, mode, sweep, throughout, grown, wronged>>
ChargeBalance(q) ==
  /\ mode = "up" /\ q \notin settled \cup Abandoned /\ ~Pending(q) /\ Goes(q, "charged")
  /\ pending' = Append(pending, q) /\ created' = [created EXCEPT ![q] = now]
  /\ grown' = (grown \/ sweep.at = "scan")
  /\ UNCHANGED <<now, settled, records, inFlight, mode, sweep, throughout, lost, wronged>>
StashQuestion(q) ==
  /\ live[q] = "charged" /\ Goes(q, "paid") /\ stash' = stash \cup {q}
  /\ UNCHANGED <<now, chain, job, claims, inFlight, mode, sweep, history>>

\* startFulfillment(): a claim, the read of the payer's pool, the record of the job
\* and a hold that is not tracked.
ClaimJob(q) ==
  /\ live[q] = "paid" /\ claims' = claims \cup {q}
  /\ \/ q \notin claims /\ Goes(q, "claimed") /\ UNCHANGED lost
     \/ q \in claims /\ Drop(q)
  /\ UNCHANGED <<now, chain, job, stash, inFlight, mode, sweep, throughout, grown, wronged>>
CreateJob(q) ==
  /\ live[q] = "claimed" /\ SetJob(q, "holding", "none") /\ Goes(q, "holding")
  /\ UNCHANGED <<now, chain, stash, claims, inFlight, mode, sweep, history>>

Track(q) ==
  /\ live[q] = "holding" /\ Goes(q, "tracked") /\ inFlight' = inFlight + 1
  /\ SetJob(q, "awaiting_workers", "none")
  /\ UNCHANGED <<now, chain, stash, claims, mode, sweep, history>>
Resolve(q) ==
  /\ live[q] = "tracked" /\ Settle(q) /\ UNCHANGED <<now, records, process, sweep, grown, lost, wronged>>

\* The promise is settled either way, with the job recorded by what landed.
Done(q) ==
  /\ live[q] = "tracked" /\ Drop(q) /\ inFlight' = inFlight - 1
  /\ SetJob(q, "settled", IF Pending(q) THEN "refund_pending_timeout" ELSE "settled") /\ stash' = stash \ {q}
  /\ UNCHANGED <<now, chain, claims, mode, sweep, throughout, grown, wronged>>

RefundTimeout(q) ==
  /\ created[q] < now /\ Settle(q) /\ UNCHANGED <<now, records, process, sweep, grown, lost, wronged>>

\* drainAndExit(): undoWindowMs is not in the configuration, so that holds are
\* not waited for; the drain may also time out.
BeginDrain == mode = "up" /\ mode' = "draining" /\ UNCHANGED <<now, chain, records, live, inFlight, sweep, history>>
Down == /\ mode' = "down" /\ live' = [q \in Questions |-> "no"] /\ inFlight' = 0
        /\ sweep' = Idle /\ lost' = {} /\ throughout' = {} /\ grown' = FALSE /\ UNCHANGED <<now, chain, wronged>>
Drained == mode = "draining" /\ inFlight = 0
Exit == Drained /\ Down /\ UNCHANGED records
Crash == mode # "down" /\ Down /\ UNCHANGED records
Restart == mode = "down" /\ mode' = "up" /\ UNCHANGED <<now, chain, records, live, inFlight, sweep, history>>
LoseStore == /\ job' = [q \in Questions |-> None] /\ stash' = {} /\ claims' = {}
             /\ lost' = lost \cup {q \in Questions : live[q] # "no"}
             /\ UNCHANGED <<now, chain, process, sweep, throughout, grown, wronged>>

----------------------------------------------------------------------------
\* snapshotPendingIds(), a page of one id at a time.
BeginScan ==
  /\ sweep.at = "rescan" \/ (sweep.at = "idle" /\ mode = "up")
  /\ sweep' = [Idle EXCEPT !.at = "scan", !.attempt = sweep.attempt + 1, !.before = Len(pending)]
  /\ throughout' = ToSet(pending) /\ grown' = FALSE
  /\ UNCHANGED <<now, chain, records, process, lost, wronged>>
ListPending ==
  /\ sweep.at = "scan" /\ sweep.start < sweep.before
  /\ sweep' = [sweep EXCEPT !.start = sweep.start + 1,
       !.ids = sweep.ids \cup IF sweep.start < Len(pending) THEN {pending[sweep.start + 1]} ELSE {}]
  /\ UNCHANGED <<now, chain, records, process, history>>

Scanned(before) == Len(pending) = before

\* An inconsistent snapshot is not acted on.
EndScan ==
  /\ sweep.at = "scan" /\ sweep.start >= sweep.before
  /\ \/ /\ Scanned(sweep.before)
        /\ sweep' = [sweep EXCEPT !.at = "next", !.start = 0, !.before = 0, !.attempt = 0]
     \/ /\ ~Scanned(sweep.before) /\ sweep.attempt < Scans /\ sweep' = [sweep EXCEPT !.at = "rescan"]
     \/ ~Scanned(sweep.before) /\ sweep.attempt >= Scans /\ sweep' = Idle
  /\ UNCHANGED <<now, chain, records, process, history>>

\* The question is read and then, both at once, its job and its stash.
ReadQuestion(q) ==
  /\ sweep.at = "next" /\ q \in sweep.ids
  /\ sweep' = [sweep EXCEPT !.ids = sweep.ids \ {q}, !.q = q, !.at = IF Pending(q) THEN "read" ELSE "next"]
  /\ throughout' = {} /\ grown' = FALSE
  /\ UNCHANGED <<now, chain, records, process, lost, wronged>>

\* classifyPendingQuestion(), of what was read of the store.
Inflight == {"holding", "awaiting_workers", "reconciling", "cancelling"}
MutantClassifyPendingQuestion(q, j, stashed) ==   \* forgets the stash of a question that has no job yet
  IF j # None THEN IF j.outcome = "refund_pending_timeout" THEN "refund" ELSE "skip"
  ELSE IF now - created[q] < MinAge THEN "skip" ELSE "refund"
ClassifyPendingQuestion(q, j, stashed) ==
  LET known(statuses) == j # None /\ j.status \in statuses
  IN CASE known(Inflight)    -> IF now - j.updatedAt >= StaleInflight THEN "refund" ELSE "skip"
       [] known({"settled"}) -> IF j.outcome = "refund_pending_timeout" THEN "refund" ELSE "flag"
       [] OTHER              -> IF stashed \/ now - created[q] < MinAge THEN "skip" ELSE "refund"

Read(what, j, stashed) ==
  LET both == sweep.read # {}
      refunded == ClassifyPendingQuestion(sweep.q, j, stashed) = "refund" /\ sweep.refunds < MaxRefunds
  IN /\ sweep.at = "read" /\ what \notin sweep.read
     /\ sweep' = IF both THEN [sweep EXCEPT !.read = {}, !.job = None, !.stashed = FALSE,
                                 !.at = IF refunded THEN "fresh" ELSE "next",
                                 !.refunds = sweep.refunds + IF refunded THEN 1 ELSE 0]
                 ELSE [sweep EXCEPT !.read = {what}, !.job = j, !.stashed = stashed]
     /\ UNCHANGED <<now, chain, records, process, history>>
GetJob == sweep.at = "read" /\ Read("job", job[sweep.q], sweep.stashed)
GetStash == sweep.at = "read" /\ Read("stash", sweep.job, sweep.q \in stash)

ReadAgain ==
  /\ sweep.at = "fresh" /\ sweep' = [sweep EXCEPT !.at = IF Pending(sweep.q) THEN "refund" ELSE "next"]
  /\ UNCHANGED <<now, chain, records, process, history>>

\* A question that a live process fulfils, or will once its steps are done.
Drives(q) == live[q] \in {"claimed", "holding", "tracked"} \/ (live[q] \in {"charged", "paid"} /\ q \notin claims)

\* The refund lands, or fails and is left to the next sweep.
SweepRefund ==
  LET q == sweep.q
  IN /\ sweep.at = "refund"
     /\ \/ /\ Settle(q) /\ sweep' = [sweep EXCEPT !.at = "record"]
           /\ wronged' = wronged \cup IF Drives(q) THEN {q} \ lost ELSE {}
        \/ /\ sweep' = [sweep EXCEPT !.at = "next"] /\ UNCHANGED <<chain, throughout, wronged>>
     /\ UNCHANGED <<now, records, process, grown, lost>>
RecordRefund ==
  /\ sweep.at = "record" /\ SetJob(sweep.q, "settled", "settled") /\ sweep' = [sweep EXCEPT !.at = "next"]
  /\ UNCHANGED <<now, chain, stash, claims, process, history>>
EndSweep == sweep.at = "next" /\ sweep.ids = {} /\ sweep' = Idle /\ UNCHANGED <<now, chain, records, process, history>>

\* The timeouts of a fulfilment are far shorter than StaleInflight, and what is
\* charged is stashed, and what is being classified read, within a tick or two.
Tick == /\ now < MaxTime /\ now' = now + 1 /\ sweep.at # "read"
        /\ \A q \in Questions :
             /\ live[q] \in {"holding", "tracked"} /\ job[q] # None => now - job[q].updatedAt < Driven
             /\ live[q] = "charged" => now - created[q] < Driven
        /\ UNCHANGED <<chain, records, process, sweep, history>>

Next == \/ BeginDrain \/ Exit \/ Crash \/ Restart \/ LoseStore \/ Tick
        \/ BeginScan \/ ListPending \/ EndScan \/ GetJob \/ GetStash \/ ReadAgain \/ SweepRefund \/ RecordRefund \/ EndSweep
        \/ \E q \in Questions :
             \/ Submit(q) \/ StashExpires(q) \/ ReadStash(q) \/ VerifyPayment(q) \/ ChargeBalance(q) \/ StashQuestion(q)
             \/ ClaimJob(q) \/ CreateJob(q) \/ Track(q) \/ Resolve(q) \/ Done(q) \/ RefundTimeout(q) \/ ReadQuestion(q)

Spec == Init /\ [][Next]_vars

----------------------------------------------------------------------------
TypeOK == /\ stash \cup sweep.ids \cup lost \cup wronged \subseteq Questions
          /\ ToSet(pending) \cap settled = {} /\ Len(pending) = Cardinality(ToSet(pending))
          /\ mode \in {"up", "draining", "down"} /\ sweep.refunds \in 0..MaxRefunds

\* A snapshot held to be consistent has every question that was pending all the
\* while, unless others were submitted meanwhile; the sweep refunds no question
\* that an instance fulfils or is about to, unless the store was lost under it or
\* its stash expired while it was started or being classified; and the drain counts
\* every fulfilment that runs, and nothing else.
RecoveryHolds ==
  /\ sweep.at = "next" /\ sweep.q = None => throughout \subseteq sweep.ids \/ grown
  /\ wronged = {}
  /\ inFlight = Cardinality({q \in Questions : live[q] = "tracked"})

\* The inductive invariant: what an instance starts is stashed and what it drives
\* has a fresh record, unless that was lost; what the sweep is about to refund is
\* not driven and can not be started; and as long as nothing came or went during
\* a scan, what was listed is the beginning of the list.
Kept(q) == Pending(q) /\ q \notin lost
SweepRecords == [at : {"idle", "scan", "rescan", "next", "read", "fresh", "refund", "record"}, attempt : Nat, before : Nat,
                 start : Nat, ids : SUBSET Questions, q : Questions \cup {None},
                 read : {{}, {"job"}, {"stash"}}, job : JobRecords \cup {None}, stashed : BOOLEAN, refunds : 0..MaxRefunds]
RecoveryTypeOK ==
  /\ now \in Int /\ settled \subseteq Questions /\ created \in [Questions -> Int]
  /\ pending \in Seq(Questions) /\ \A i, j \in 1..Len(pending) : pending[i] = pending[j] => i = j
  /\ job \in [Questions -> JobRecords \cup {None}] /\ stash \subseteq Questions /\ claims \subseteq Questions
  /\ live \in [Questions -> {"no", "holding", "tracked"} \cup Starting] /\ inFlight \in Int
  /\ sweep \in SweepRecords /\ throughout \subseteq Questions /\ grown \in BOOLEAN /\ lost \subseteq Questions
Fresh(q) == job[q] # None /\ job[q].status \in Inflight /\ now - job[q].updatedAt <= Driven
QuestionHolds(q) ==
  /\ q \in stash \cup claims \/ live[q] # "no" \/ job[q] # None => Pending(q) \/ q \in settled
  /\ live[q] = "no" => q \notin lost
  /\ live[q] = "charged" => q \notin stash \cup claims
  /\ live[q] \in {"asked", "paid"} /\ q \in claims \cap lost => q \notin stash
  /\ live[q] \in {"claimed", "holding", "tracked"} /\ q \in stash => q \in claims
  /\ Pending(q) => (q \in stash /\ job[q] # None => q \in claims) /\ (live[q] = "charged" => job[q] = None)
  /\ Kept(q) => /\ live[q] \in {"holding", "tracked"} => Fresh(q)
                /\ live[q] \in {"asked", "paid", "claimed"} => q \in stash
                /\ live[q] = "claimed" => job[q] = None
                /\ live[q] = "charged" => now - created[q] <= Driven
DrivenHold == \A q \in Questions : QuestionHolds(q)
Doomed(q) == /\ q \in Questions /\ (Pending(q) \/ q \in settled)
             /\ Kept(q) => ~Drives(q) /\ (q \in stash => q \in claims)
Dooming(j) == j # None /\ IF j.status \in Inflight THEN now - j.updatedAt >= StaleInflight
                          ELSE j.outcome = "refund_pending_timeout"
ReadHolds(q) ==
  /\ Pending(q) \/ q \in settled
  /\ sweep.read = {"job"} => /\ Dooming(sweep.job) => Doomed(q)
                             /\ sweep.job = None /\ Kept(q) /\ live[q] \in {"holding", "tracked"} => q \in stash
  /\ sweep.read = {"stash"} /\ ~sweep.stashed /\ Kept(q) => q \notin stash \/ now - created[q] < MinAge
ReadHold == /\ sweep.at = "read" => sweep.q \in Questions /\ ReadHolds(sweep.q)
            /\ sweep.at # "read" => sweep.read = {}
SweepHold ==
  /\ sweep.at \in {"fresh", "refund"} => Doomed(sweep.q)
  /\ sweep.at = "record" => Doomed(sweep.q) /\ sweep.q \in settled
  /\ sweep.at = "scan" => throughout \subseteq ToSet(pending)
  /\ sweep.at = "scan" /\ ~grown =>
       /\ Len(pending) <= sweep.before
       /\ Len(pending) = sweep.before => \A i \in 1..Len(pending) : i <= sweep.start => pending[i] \in sweep.ids
RecoveryInv == RecoveryTypeOK /\ TypeOK /\ DrivenHold /\ ReadHold /\ SweepHold /\ RecoveryHolds

\* An instance that leaves by its drain drops no fulfilment that had started.
DropsNothing == Exit => \A q \in Questions : live[q] # "tracked"
DrainDropsNothing == [][DropsNothing]_vars
=============================================================================
