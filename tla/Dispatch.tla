------------------------------- MODULE Dispatch -------------------------------
(***************************************************************************)
(* Putting questions to workers and collecting their answers in one        *)
(* instance (dispatch.js, the SSE and answer routes of server.js, and the  *)
(* push notifications of push.js).  A question has three ends racing each  *)
(* other: its quorum, its timer and its broadcast, which goes on across    *)
(* awaits while answers already come in.                                   *)
(***************************************************************************)
EXTENDS Naturals, FiniteSets

CONSTANTS
  Workers,
  Questions,
  Private,      \* questions of payers with a private pool
  Pool,         \* the workers of that pool
  Subscribers,  \* workers with a push subscription
  QuorumSize,
  Connections,  \* SSE responses: <<w, n>> is the n-th connection of worker w
  None,
  StoreFaults,  \* may a store operation throw?
  Crashes       \* may the instance die and come back?

ASSUME PoolAssumption ==
  Private \subseteq Questions /\ Pool \subseteq Workers /\ Subscribers \subseteq Workers
ASSUME QuorumAssumption == QuorumSize \in Nat \ {0}
ASSUME ConnectionsAssumption == Connections \subseteq Workers \X Nat /\ None \notin Connections
ASSUME FaultsAssumption == {StoreFaults, Crashes} \subseteq BOOLEAN

VARIABLES
  conn,        \* state of each connection: "arriving" until the route has
               \* awaited its checks, "gone" if the client left before they
               \* were over, "unheard" if its response was registered even so
  workers,     \* the registry: workerId -> res
  collecting,  \* is there a collector for the question?
  accepted,    \* its submissions: whose answers handleAnswer() took
  done,        \* the promise of dispatchAndCollect() has resolved...
  result,      \* ...with the answers of these workers
  broadcast,   \* how far broadcast() has come
  candidates,  \* the workers it found connected
  targets,     \* the ones it wrote to
  shown        \* everyone the question text was sent to

connVars      == <<conn, workers>>
collectorVars == <<collecting, accepted, done, result>>
broadcastVars == <<broadcast, candidates, targets, shown>>
vars == <<conn, workers, collecting, accepted, done, result,
          broadcast, candidates, targets, shown>>

TypeOK ==
  /\ conn \in [Connections -> {"new", "arriving", "gone", "open", "unheard", "dropped", "closed"}]
  /\ workers \in [Workers -> Connections \cup {None}]
  /\ collecting \in [Questions -> BOOLEAN]
  /\ accepted \in [Questions -> SUBSET Workers]
  /\ done \in [Questions -> BOOLEAN]
  /\ result \in [Questions -> SUBSET Workers]
  /\ broadcast \in [Questions -> {"idle", "selecting", "pushing", "over", "dead"}]
  /\ candidates \in [Questions -> SUBSET Workers]
  /\ targets \in [Questions -> SUBSET Workers]
  /\ shown \in [Questions -> SUBSET Workers]

Init ==
  /\ conn = [k \in Connections |-> "new"]
  /\ workers = [w \in Workers |-> None]
  /\ collecting = [q \in Questions |-> FALSE]
  /\ accepted = [q \in Questions |-> {}]
  /\ done = [q \in Questions |-> FALSE]
  /\ result = [q \in Questions |-> {}]
  /\ broadcast = [q \in Questions |-> "idle"]
  /\ candidates = [q \in Questions |-> {}]
  /\ targets = [q \in Questions |-> {}]
  /\ shown = [q \in Questions |-> {}]

-----------------------------------------------------------------------------
(* The registry of live workers *)

\* GET /app/events comes in and awaits its session and its rate limit.
Connect(k) ==
  /\ conn[k] = "new"
  /\ conn' = [conn EXCEPT ![k] = "arriving"]
  /\ UNCHANGED <<workers, collectorVars, broadcastVars>>

\* The socket goes away before the server is told, or before it listens.
Drop(k) ==
  /\ conn[k] \in {"arriving", "open"}
  /\ conn' = [conn EXCEPT ![k] = IF @ = "open" THEN "dropped" ELSE "gone"]
  /\ UNCHANGED <<workers, collectorVars, broadcastVars>>

\* The route refuses (401, 429), or registerWorker() keeps the newest response
\* of a worker and the close handler is attached: too late for a socket that
\* is gone, whose dead response stays in the registry.
Register(k) ==
  /\ conn[k] \in {"arriving", "gone"}
  /\ \/ conn' = [conn EXCEPT ![k] = "closed"] /\ UNCHANGED workers
     \/ /\ conn' = [conn EXCEPT ![k] = IF @ = "gone" THEN "unheard" ELSE "open"]
        /\ workers' = [workers EXCEPT ![k[1]] = k]
  /\ UNCHANGED <<collectorVars, broadcastVars>>

\* req.on('close'): unregisterWorker() deletes by worker id, whichever
\* connection the registry holds by then.
Close(k) ==
  /\ conn[k] = "dropped"
  /\ conn' = [conn EXCEPT ![k] = "closed"]
  /\ workers' = [workers EXCEPT ![k[1]] = None]
  /\ UNCHANGED <<collectorVars, broadcastVars>>

-----------------------------------------------------------------------------
(* The collector *)

\* Mutants: the collector outlives its promise, or resolves it over again.
FinishKeepingCollector(q, answers) ==
  /\ done' = [done EXCEPT ![q] = TRUE]
  /\ result' = [result EXCEPT ![q] = IF done[q] THEN @ ELSE answers]
  /\ UNCHANGED collecting

FinishAgain(q, answers) ==
  /\ done' = [done EXCEPT ![q] = TRUE]
  /\ result' = [result EXCEPT ![q] = answers]
  /\ collecting' = [collecting EXCEPT ![q] = FALSE]

\* finish(): the first of quorum, timer and broadcast resolves the promise and
\* clears the collector (and the timer); the others find `done`.
Finish(q, answers) ==
  IF done[q]
    THEN UNCHANGED <<done, result, collecting>>
    ELSE /\ done' = [done EXCEPT ![q] = TRUE]
         /\ result' = [result EXCEPT ![q] = answers]
         /\ collecting' = [collecting EXCEPT ![q] = FALSE]

\* Mutant: the registry's responses are copied where its worker ids were meant.
DispatchToResponses(q) ==
  /\ broadcast[q] = "idle"
  /\ broadcast' = [broadcast EXCEPT ![q] = "selecting"]
  /\ candidates' = [candidates EXCEPT ![q] = {workers[w] : w \in Workers} \ {None}]
  /\ collecting' = [collecting EXCEPT ![q] = TRUE]
  /\ UNCHANGED <<connVars, accepted, done, result, targets, shown>>

\* dispatchAndCollect(): the collector is registered and broadcast() starts;
\* selectTargets() copies the registry, within the whitelist, before it awaits.
DispatchAndCollect(q) ==
  /\ broadcast[q] = "idle"
  /\ broadcast' = [broadcast EXCEPT ![q] = "selecting"]
  /\ candidates' = [candidates EXCEPT ![q] =
                      {w \in Workers : workers[w] # None /\ (q \in Private => w \in Pool)}]
  /\ collecting' = [collecting EXCEPT ![q] = TRUE]
  /\ UNCHANGED <<connVars, accepted, done, result, targets, shown>>

\* Mutant: a whitelist is only a routing preference.
MayAnswerAnything(q, w) == collecting[q] /\ w \notin accepted[q]

\* handleAnswer()'s checks.
MayAnswer(q, w) ==
  /\ collecting[q]
  /\ w \notin accepted[q]
  /\ q \in Private => w \in Pool

\* Mutant: the quorum is noticed one answer late.
QuorumReachedLate(answers) == Cardinality(answers) > QuorumSize

QuorumReached(answers) == Cardinality(answers) >= QuorumSize

\* POST /app/answer, accepted: submitAnswer() finds the collector here (an
\* answer for any other question is refused, the store having no publish()).
SubmitAnswer(q, w) ==
  LET answers == accepted[q] \cup {w} IN
  /\ MayAnswer(q, w)
  /\ accepted' = [accepted EXCEPT ![q] = answers]
  /\ IF QuorumReached(answers)
       THEN Finish(q, answers) ELSE UNCHANGED <<done, result, collecting>>
  /\ UNCHANGED <<connVars, broadcastVars>>

\* Mutant: the timer is only armed once somebody has answered.
TimeoutIfAnswered(q) ==
  /\ broadcast[q] \notin {"idle", "dead"} /\ ~done[q]
  /\ accepted[q] # {}
  /\ Finish(q, accepted[q])
  /\ UNCHANGED <<connVars, accepted, broadcastVars>>

\* The timer, which Finish clears.
Timeout(q) ==
  /\ broadcast[q] \notin {"idle", "dead"} /\ ~done[q]
  /\ Finish(q, accepted[q])
  /\ UNCHANGED <<connVars, accepted, broadcastVars>>

-----------------------------------------------------------------------------
(* broadcast() *)

\* The soft filters (category, reputation, stake, track record) never empty
\* the list; then a frame is written to everybody left.
SendFrames(q) ==
  /\ broadcast[q] = "selecting"
  /\ \E chosen \in SUBSET candidates[q] :
       /\ chosen = {} => candidates[q] = {}
       /\ targets' = [targets EXCEPT ![q] = chosen]
       /\ shown' = [shown EXCEPT ![q] = @ \cup chosen]
  /\ broadcast' = [broadcast EXCEPT ![q] = "pushing"]
  /\ UNCHANGED <<connVars, collectorVars, candidates>>

\* getPushEligibleWorkerIds() is passed the targets' ids as if they were a
\* category, so it answers with every subscriber that named no category; then
\* the broadcast is over, and if it reached nobody over SSE so is the question.
NotifySubscribers(q) ==
  /\ broadcast[q] = "pushing"
  /\ broadcast' = [broadcast EXCEPT ![q] = "over"]
  /\ shown' = [shown EXCEPT ![q] = @ \cup Subscribers]
  /\ IF targets[q] = {} THEN Finish(q, {}) ELSE UNCHANGED <<done, result, collecting>>
  /\ UNCHANGED <<connVars, accepted, candidates, targets>>

\* A store operation of isEligible() or of notifyWorker() throws: the question
\* is finished with nothing, whatever has been answered meanwhile.
BroadcastFails(q) ==
  /\ StoreFaults
  /\ broadcast[q] \in {"selecting", "pushing"}
  /\ broadcast' = [broadcast EXCEPT ![q] = "over"]
  /\ \E some \in SUBSET Subscribers :
       /\ some # {} => broadcast[q] = "pushing"
       /\ shown' = [shown EXCEPT ![q] = @ \cup some]
  /\ Finish(q, {})
  /\ UNCHANGED <<connVars, accepted, candidates, targets>>

\* The process dies and comes back: registry, collectors and timers were its.
Crash ==
  /\ Crashes
  /\ conn' = [k \in Connections |-> IF conn[k] = "new" THEN "new" ELSE "closed"]
  /\ workers' = [w \in Workers |-> None]
  /\ collecting' = [q \in Questions |-> FALSE]
  /\ broadcast' = [q \in Questions |-> IF broadcast[q] = "idle" THEN "idle" ELSE "dead"]
  /\ UNCHANGED <<accepted, done, result, candidates, targets, shown>>

-----------------------------------------------------------------------------
Next ==
  \/ \E k \in Connections : Connect(k) \/ Drop(k) \/ Register(k) \/ Close(k)
  \/ \E q \in Questions :
       \/ DispatchAndCollect(q) \/ Timeout(q)
       \/ SendFrames(q) \/ NotifySubscribers(q) \/ BroadcastFails(q)
       \/ \E w \in Workers : SubmitAnswer(q, w)
  \/ Crash

Spec == Init /\ [][Next]_vars

\* setTimeout() fires; nothing else is owed.
FairSpec == Spec /\ \A q \in Questions : WF_vars(Timeout(q))

-----------------------------------------------------------------------------
(* Properties *)

\* Safety: an answer taken from a worker is counted unless all of them are
\* dropped.  However quorum, timer and broadcast race, the promise resolves with
\* every accepted answer or with none (dispatch.js:164-171, 658-683).
AllOrNothing ==
  \A q \in Questions : done[q] => result[q] \in {{}, accepted[q]}

\* Safety: a quorum closes the question with the answer that completes it, so
\* that nobody works on it for nothing and no payout is split further
\* (dispatch.js:167-170).
QuorumCloses ==
  \A q \in Questions :
    /\ Cardinality(accepted[q]) <= QuorumSize
    /\ Cardinality(accepted[q]) = QuorumSize => ~collecting[q]

\* Safety: a private pool's answers come from the pool alone, even when nobody
\* of it is online (dispatch.js:151-157).
PrivateAnswersFromPool ==
  \A q \in Private : result[q] \subseteq Pool /\ targets[q] \subseteq Pool

\* Action property: a resolved question is closed.  No late answer, timer or
\* failed broadcast changes what it resolved with or takes another answer
\* (dispatch.js:656-664).
ResolvedIsFinal ==
  [][\A q \in Questions :
       done[q] => done'[q] /\ result'[q] = result[q] /\ accepted'[q] = accepted[q]]_vars

\* The registry holds a worker's own connection, whose close has not been
\* handled or never will be.
Registered ==
  \A w \in Workers : workers[w] # None =>
    workers[w][1] = w /\ conn[workers[w]] \in {"open", "dropped", "unheard"}

\* A collector lives from the broadcast's start to the promise's end at most;
\* nothing is accepted before, and nothing is answered until then.
CollectorLives ==
  \A q \in Questions :
    /\ collecting[q] => ~done[q] /\ broadcast[q] \notin {"idle", "dead"}
    /\ broadcast[q] = "idle" => accepted[q] = {} /\ ~done[q]
    /\ ~done[q] => result[q] = {}

\* There is room for another answer while the collector lives.
QuorumOpen ==
  \A q \in Questions :
    /\ IsFiniteSet(accepted[q])
    /\ Cardinality(accepted[q]) <= QuorumSize
    /\ collecting[q] => Cardinality(accepted[q]) < QuorumSize

\* Whoever a private question is put to, or is answered by, is of the pool.
PrivatelyHandled ==
  \A q \in Private : candidates[q] \cup targets[q] \cup accepted[q] \subseteq Pool

\* Invariant: the conjunction that every step preserves (dispatch.js:111-183,
\* 278-302, 444-508 and 640-690), with every fault on.
DispatchInv ==
  /\ TypeOK
  /\ Registered
  /\ CollectorLives
  /\ QuorumOpen
  /\ PrivatelyHandled
  /\ AllOrNothing

\* Liveness: while the instance lives, every dispatched question resolves
\* (dispatch.js:636-645).
EveryDispatchResolves ==
  \A q \in Questions : broadcast[q] = "selecting" ~> done[q] \/ broadcast[q] = "dead"

\* Refuted by private_push: dispatch.js:434-442, a private question must not go
\* to "exactly the workers they excluded".
PrivateStaysPrivate ==
  \A q \in Private : shown[q] \subseteq Pool

\* A worker with an open connection is in the registry.  The code does not keep
\* this: the close handler of an older connection deletes the worker by id
\* (dispatch.js:307-308).
ConnectedIsRegistered ==
  \A k \in Connections : conn[k] = "open" => workers[k[1]] # None

\* push.js:140-142, "a failed *notification* must never be the reason dispatch
\* itself fails".  With a quorum's worth of targets written to, a question is not
\* resolved as unanswered over accepted answers.  The code does not keep this:
\* push.js:145 reads the subscriptions outside the try, and dispatchAndCollect()
\* answers a rejection with no answers at all (dispatch.js:677-683).
FailedPushLosesNothing ==
  \A q \in Questions :
    done[q] /\ targets[q] # {} => result[q] = accepted[q]
=============================================================================
