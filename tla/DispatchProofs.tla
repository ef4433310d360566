---------------------------- MODULE DispatchProofs ----------------------------
(***************************************************************************)
(* Dispatch for any number of workers, connections, questions and answers: *)
(* the invariant that its safety properties rest on, and the properties.   *)
(***************************************************************************)
EXTENDS Dispatch, FiniteSetTheorems, TLAPS

\* An instance that has just started satisfies the invariant.
LEMMA DispatchInit == Init => DispatchInv
<1> SUFFICES ASSUME Init PROVE DispatchInv
  OBVIOUS
<1>1. TypeOK
  BY DEF Init, TypeOK
<1>2. Registered /\ CollectorLives /\ AllOrNothing
  BY DEF Init, Registered, CollectorLives, AllOrNothing
<1>3. QuorumOpen
  <2>1. IsFiniteSet({}) /\ Cardinality({}) = 0 /\ QuorumSize \in Nat /\ QuorumSize > 0
    BY FS_EmptySet, QuorumAssumption
  <2> QED
    BY <2>1 DEF Init, QuorumOpen
<1>4. PrivatelyHandled
  BY PoolAssumption DEF Init, PrivatelyHandled
<1> QED
  BY <1>1, <1>2, <1>3, <1>4 DEF DispatchInv

\* The steps of a connection leave every question alone, and the registry
\* holds no connection whose close was handled.
LEMMA ConnectionStep ==
  ASSUME DispatchInv, NEW k \in Connections, Connect(k) \/ Drop(k) \/ Register(k) \/ Close(k)
  PROVE  DispatchInv'
<1>1. UNCHANGED <<collectorVars, broadcastVars>>
  BY DEF Connect, Drop, Register, Close
<1>2. k[1] \in Workers
  BY ConnectionsAssumption
<1>3. TypeOK'
  BY <1>1, <1>2 DEF DispatchInv, TypeOK, Connect, Drop, Register, Close,
                  collectorVars, broadcastVars
<1>4. Registered'
  <2> SUFFICES ASSUME NEW w \in Workers, workers'[w] # None
               PROVE  workers'[w][1] = w /\ conn'[workers'[w]] \in {"open", "dropped", "unheard"}
    BY DEF Registered
  <2>1. workers[w] # None => workers[w] \in Connections /\ workers[w][1] = w
                             /\ conn[workers[w]] \in {"open", "dropped", "unheard"}
    BY DEF DispatchInv, TypeOK, Registered
  <2>2. CASE Connect(k)
    BY <2>1, <2>2, <1>2 DEF Connect, DispatchInv, TypeOK
  <2>3. CASE Drop(k)
    BY <2>1, <2>3 DEF Drop, DispatchInv, TypeOK
  <2>4. CASE Close(k)
    <3>1. w # k[1] /\ workers'[w] = workers[w]
      BY <2>4, <1>2 DEF Close, DispatchInv, TypeOK
    <3> QED
      BY <3>1, <2>1, <2>4 DEF Close, DispatchInv, TypeOK
  <2>5. CASE Register(k)
    BY <2>1, <2>5, <1>2 DEF Register, DispatchInv, TypeOK
  <2> QED
    BY <2>2, <2>3, <2>4, <2>5
<1>5. (CollectorLives /\ QuorumOpen /\ PrivatelyHandled /\ AllOrNothing)'
  BY <1>1 DEF DispatchInv, CollectorLives, QuorumOpen, PrivatelyHandled, AllOrNothing,
              collectorVars, broadcastVars
<1> QED
  BY <1>3, <1>4, <1>5 DEF DispatchInv

\* Every other step but a crash leaves the connections alone.
LEMMA RegistryKept ==
  ASSUME Registered, UNCHANGED connVars
  PROVE  Registered'
BY DEF Registered, connVars

\* finish() ends a collector for good, and for its own question only.
LEMMA FinishEnds ==
  ASSUME TypeOK, NEW q \in Questions, NEW answers \in SUBSET Workers, Finish(q, answers)
  PROVE  /\ done' \in [Questions -> BOOLEAN] /\ done'[q]
         /\ result' \in [Questions -> SUBSET Workers]
         /\ collecting' \in [Questions -> BOOLEAN]
         /\ ~done[q] => result'[q] = answers /\ ~collecting'[q]
         /\ done[q] => result'[q] = result[q] /\ collecting'[q] = collecting[q]
         /\ \A p \in Questions \ {q} : /\ done'[p] = done[p] /\ result'[p] = result[p]
                                      /\ collecting'[p] = collecting[p]
<1>1. CASE done[q]
  BY <1>1 DEF Finish, TypeOK
<1>2. CASE ~done[q]
  BY <1>2 DEF Finish, TypeOK
<1> QED
  BY <1>1, <1>2

\* A new question has no answers yet, and a private one no candidate outside
\* its pool.
LEMMA DispatchStarts ==
  ASSUME DispatchInv, NEW q \in Questions, DispatchAndCollect(q)
  PROVE  DispatchInv'
<1>1. /\ UNCHANGED <<connVars, accepted, done, result, targets, shown>>
      /\ accepted[q] = {} /\ ~done[q]
  BY DEF DispatchAndCollect, DispatchInv, CollectorLives
<1>2. TypeOK'
  BY <1>1 DEF DispatchAndCollect, DispatchInv, TypeOK, connVars
<1>3. Registered'
  BY <1>1, RegistryKept DEF DispatchInv
<1>4. CollectorLives' /\ AllOrNothing'
  BY <1>1 DEF DispatchAndCollect, DispatchInv, TypeOK, CollectorLives, AllOrNothing
<1>5. QuorumOpen'
  <2>1. Cardinality({}) = 0 /\ QuorumSize \in Nat /\ QuorumSize > 0
    BY FS_EmptySet, QuorumAssumption
  <2>2. \A p \in Questions \ {q} : collecting'[p] = collecting[p]
    BY DEF DispatchAndCollect, DispatchInv, TypeOK
  <2> QED
    BY <1>1, <2>1, <2>2 DEF DispatchInv, QuorumOpen
<1>6. PrivatelyHandled'
  BY <1>1, PoolAssumption DEF DispatchAndCollect, DispatchInv, TypeOK, PrivatelyHandled
<1> QED
  BY <1>2, <1>3, <1>4, <1>5, <1>6 DEF DispatchInv

\* An answer is taken while there is room for it; the one that fills the
\* quorum resolves the question with all of them.
LEMMA AnswerStep ==
  ASSUME DispatchInv, NEW q \in Questions, NEW w \in Workers, SubmitAnswer(q, w)
  PROVE  DispatchInv'
<1> DEFINE answers == accepted[q] \cup {w}
<1>1. /\ collecting[q] /\ ~done[q] /\ broadcast[q] \notin {"idle", "dead"}
      /\ w \notin accepted[q] /\ (q \in Private => w \in Pool)
      /\ accepted' = [accepted EXCEPT ![q] = answers]
      /\ UNCHANGED <<connVars, broadcastVars>>
  BY DEF SubmitAnswer, MayAnswer, DispatchInv, CollectorLives
<1>2. answers \in SUBSET Workers
  BY DEF DispatchInv, TypeOK
<1>3. /\ accepted' \in [Questions -> SUBSET Workers] /\ accepted'[q] = answers
      /\ \A p \in Questions \ {q} : accepted'[p] = accepted[p]
  BY <1>1, <1>2 DEF DispatchInv, TypeOK
<1>4. /\ IsFiniteSet(answers) /\ Cardinality(answers) \in Nat
      /\ Cardinality(answers) = Cardinality(accepted[q]) + 1
      /\ Cardinality(answers) <= QuorumSize
  <2>1. IsFiniteSet(accepted[q]) /\ Cardinality(accepted[q]) < QuorumSize
    BY <1>1 DEF DispatchInv, QuorumOpen
  <2>2. Cardinality(accepted[q]) \in Nat /\ QuorumSize \in Nat
    BY <2>1, FS_CardinalityType, QuorumAssumption
  <2>3. IsFiniteSet(answers) /\ Cardinality(answers) = Cardinality(accepted[q]) + 1
    BY <1>1, <2>1, FS_AddElement
  <2> QED
    BY <2>1, <2>2, <2>3
<1>5. Registered'
  BY <1>1, RegistryKept DEF DispatchInv
<1>6. PrivatelyHandled'
  BY <1>1, <1>3 DEF DispatchInv, PrivatelyHandled, broadcastVars
<1>7. CASE QuorumReached(answers)
  <2>1. /\ done' \in [Questions -> BOOLEAN] /\ done'[q]
        /\ result' \in [Questions -> SUBSET Workers] /\ result'[q] = answers
        /\ collecting' \in [Questions -> BOOLEAN] /\ ~collecting'[q]
        /\ \A p \in Questions \ {q} : /\ done'[p] = done[p] /\ result'[p] = result[p]
                                     /\ collecting'[p] = collecting[p]
    <3>1. Finish(q, answers)
      BY <1>7 DEF SubmitAnswer
    <3> HIDE DEF answers
    <3> QED
      BY <1>1, <1>2, <3>1, FinishEnds DEF DispatchInv
  <2> HIDE DEF answers
  <2>2. TypeOK'
    BY <2>1, <1>1, <1>3 DEF DispatchInv, TypeOK, connVars, broadcastVars
  <2>3. CollectorLives' /\ AllOrNothing'
    BY <2>1, <1>1, <1>3 DEF DispatchInv, CollectorLives, AllOrNothing, broadcastVars
  <2>4. QuorumOpen'
    BY <2>1, <1>3, <1>4 DEF DispatchInv, QuorumOpen
  <2> QED
    BY <1>5, <1>6, <2>2, <2>3, <2>4 DEF DispatchInv
<1>8. CASE ~QuorumReached(answers)
  <2>1. UNCHANGED <<done, result, collecting>>
    BY <1>8 DEF SubmitAnswer
  <2>2. Cardinality(answers) < QuorumSize
    BY <1>4, <1>8, QuorumAssumption DEF QuorumReached
  <2> HIDE DEF answers
  <2>3. TypeOK'
    BY <2>1, <1>1, <1>3 DEF DispatchInv, TypeOK, connVars, broadcastVars
  <2>4. CollectorLives' /\ AllOrNothing'
    BY <2>1, <1>1, <1>3 DEF DispatchInv, CollectorLives, AllOrNothing, broadcastVars
  <2>5. QuorumOpen'
    BY <2>1, <2>2, <1>3, <1>4 DEF DispatchInv, QuorumOpen
  <2> QED
    BY <1>5, <1>6, <2>3, <2>4, <2>5 DEF DispatchInv
<1> QED
  BY <1>7, <1>8

\* Whatever else a step does to the broadcast, ending the question with its
\* accepted answers or with none keeps the invariant of the collector.
LEMMA EndsWhole ==
  ASSUME DispatchInv, NEW q \in Questions, NEW answers \in {{}, accepted[q]},
         Finish(q, answers), UNCHANGED <<connVars, accepted, candidates>>,
         broadcast' \in [Questions -> {"idle", "selecting", "pushing", "over", "dead"}],
         broadcast'[q] \notin {"idle", "dead"},
         \A p \in Questions \ {q} : broadcast'[p] = broadcast[p],
         targets' \in [Questions -> SUBSET Workers],
         shown' \in [Questions -> SUBSET Workers],
         \A p \in Private : targets'[p] \subseteq Pool
  PROVE  DispatchInv'
<1>1. answers \in SUBSET Workers
  BY DEF DispatchInv, TypeOK
<1>2. /\ done' \in [Questions -> BOOLEAN] /\ done'[q]
      /\ result' \in [Questions -> SUBSET Workers]
      /\ collecting' \in [Questions -> BOOLEAN]
      /\ ~done[q] => result'[q] = answers /\ ~collecting'[q]
      /\ done[q] => result'[q] = result[q] /\ collecting'[q] = collecting[q]
      /\ \A p \in Questions \ {q} : /\ done'[p] = done[p] /\ result'[p] = result[p]
                                   /\ collecting'[p] = collecting[p]
  BY <1>1, FinishEnds DEF DispatchInv
<1>3. TypeOK'
  BY <1>2 DEF DispatchInv, TypeOK, connVars
<1>4. Registered'
  BY RegistryKept DEF DispatchInv
<1>5. CollectorLives' /\ AllOrNothing'
  BY <1>2 DEF DispatchInv, CollectorLives, AllOrNothing
<1>6. QuorumOpen'
  BY <1>2 DEF DispatchInv, QuorumOpen
<1>7. PrivatelyHandled'
  BY DEF DispatchInv, PrivatelyHandled
<1> QED
  BY <1>3, <1>4, <1>5, <1>6, <1>7 DEF DispatchInv

\* The timer resolves with what there is.
LEMMA TimeoutStep ==
  ASSUME DispatchInv, NEW q \in Questions, Timeout(q)
  PROVE  DispatchInv'
<1>1. /\ Finish(q, accepted[q]) /\ UNCHANGED <<connVars, accepted, broadcastVars>>
      /\ broadcast[q] \notin {"idle", "dead"}
  BY DEF Timeout
<1>2. /\ broadcast' \in [Questions -> {"idle", "selecting", "pushing", "over", "dead"}]
      /\ targets' \in [Questions -> SUBSET Workers] /\ shown' \in [Questions -> SUBSET Workers]
      /\ \A p \in Private : targets'[p] \subseteq Pool
  BY <1>1 DEF DispatchInv, TypeOK, PrivatelyHandled, broadcastVars
<1> QED
  BY <1>1, <1>2, EndsWhole DEF broadcastVars

\* Frames go to candidates, and to no other.
LEMMA FramesStep ==
  ASSUME DispatchInv, NEW q \in Questions, SendFrames(q)
  PROVE  DispatchInv'
<1>1. /\ broadcast[q] = "selecting" /\ broadcast' = [broadcast EXCEPT ![q] = "pushing"]
      /\ UNCHANGED <<connVars, collectorVars, candidates>>
  BY DEF SendFrames
<1>2. PICK chosen \in SUBSET candidates[q] :
        /\ targets' = [targets EXCEPT ![q] = chosen]
        /\ shown' = [shown EXCEPT ![q] = @ \cup chosen]
  BY DEF SendFrames
<1>3. TypeOK'
  BY <1>1, <1>2 DEF DispatchInv, TypeOK, connVars, collectorVars
<1>4. Registered'
  BY <1>1, RegistryKept DEF DispatchInv
<1>5. CollectorLives' /\ QuorumOpen' /\ AllOrNothing'
  BY <1>1 DEF DispatchInv, TypeOK, CollectorLives, QuorumOpen, AllOrNothing, collectorVars
<1>6. PrivatelyHandled'
  BY <1>1, <1>2 DEF DispatchInv, TypeOK, PrivatelyHandled, collectorVars
<1> QED
  BY <1>3, <1>4, <1>5, <1>6 DEF DispatchInv

\* The push step ends a question that reached nobody with no answers, and
\* leaves the collector of any other running.
LEMMA NotifyStep ==
  ASSUME DispatchInv, NEW q \in Questions, NotifySubscribers(q)
  PROVE  DispatchInv'
<1>1. /\ broadcast[q] = "pushing" /\ broadcast' = [broadcast EXCEPT ![q] = "over"]
      /\ shown' = [shown EXCEPT ![q] = @ \cup Subscribers]
      /\ UNCHANGED <<connVars, accepted, candidates, targets>>
  BY DEF NotifySubscribers
<1>2. /\ broadcast' \in [Questions -> {"idle", "selecting", "pushing", "over", "dead"}]
      /\ broadcast'[q] = "over" /\ \A p \in Questions \ {q} : broadcast'[p] = broadcast[p]
      /\ targets' \in [Questions -> SUBSET Workers] /\ shown' \in [Questions -> SUBSET Workers]
      /\ \A p \in Private : targets'[p] \subseteq Pool
  BY <1>1, PoolAssumption DEF DispatchInv, TypeOK, PrivatelyHandled
<1>3. CASE targets[q] = {}
  <2>1. Finish(q, {})
    BY <1>3 DEF NotifySubscribers
  <2> QED
    BY <1>1, <1>2, <2>1, EndsWhole
<1>4. CASE targets[q] # {}
  <2>1. UNCHANGED <<done, result, collecting>>
    BY <1>4 DEF NotifySubscribers
  <2>2. TypeOK'
    BY <1>1, <1>2, <2>1 DEF DispatchInv, TypeOK, connVars
  <2>3. Registered'
    BY <1>1, RegistryKept DEF DispatchInv
  <2>4. CollectorLives' /\ QuorumOpen' /\ PrivatelyHandled' /\ AllOrNothing'
    BY <1>1, <1>2, <2>1 DEF DispatchInv, CollectorLives, QuorumOpen, PrivatelyHandled, AllOrNothing
  <2> QED
    BY <2>2, <2>3, <2>4 DEF DispatchInv
<1> QED
  BY <1>3, <1>4

\* A failed broadcast resolves the question with none of the answers taken.
LEMMA FailureStep ==
  ASSUME DispatchInv, NEW q \in Questions, BroadcastFails(q)
  PROVE  DispatchInv'
<1>1. /\ broadcast[q] \in {"selecting", "pushing"}
      /\ broadcast' = [broadcast EXCEPT ![q] = "over"] /\ Finish(q, {})
      /\ UNCHANGED <<connVars, accepted, candidates, targets>>
  BY DEF BroadcastFails
<1>2. PICK some \in SUBSET Subscribers : shown' = [shown EXCEPT ![q] = @ \cup some]
  BY DEF BroadcastFails
<1>3. /\ broadcast' \in [Questions -> {"idle", "selecting", "pushing", "over", "dead"}]
      /\ broadcast'[q] = "over" /\ \A p \in Questions \ {q} : broadcast'[p] = broadcast[p]
      /\ targets' \in [Questions -> SUBSET Workers] /\ shown' \in [Questions -> SUBSET Workers]
      /\ \A p \in Private : targets'[p] \subseteq Pool
  BY <1>1, <1>2, PoolAssumption DEF DispatchInv, TypeOK, PrivatelyHandled
<1> QED
  BY <1>1, <1>3, EndsWhole

\* A restart forgets the registry and every collector.
LEMMA CrashStep ==
  ASSUME DispatchInv, Crash
  PROVE  DispatchInv'
<1>1. TypeOK'
  BY DEF Crash, DispatchInv, TypeOK
<1>2. Registered'
  BY DEF Crash, Registered
<1>3. CollectorLives' /\ QuorumOpen' /\ PrivatelyHandled' /\ AllOrNothing'
  BY DEF Crash, DispatchInv, CollectorLives, QuorumOpen, PrivatelyHandled, AllOrNothing
<1> QED
  BY <1>1, <1>2, <1>3 DEF DispatchInv

\* Every step preserves the invariant.
LEMMA DispatchStep == DispatchInv /\ [Next]_vars => DispatchInv'
<1> SUFFICES ASSUME DispatchInv, [Next]_vars PROVE DispatchInv'
  OBVIOUS
<1>1. CASE \E k \in Connections : Connect(k) \/ Drop(k) \/ Register(k) \/ Close(k)
  BY <1>1, ConnectionStep
<1>2. CASE \E q \in Questions : DispatchAndCollect(q)
  BY <1>2, DispatchStarts
<1>3. CASE \E q \in Questions : Timeout(q)
  BY <1>3, TimeoutStep
<1>4. CASE \E q \in Questions : SendFrames(q)
  BY <1>4, FramesStep
<1>5. CASE \E q \in Questions : NotifySubscribers(q)
  BY <1>5, NotifyStep
<1>6. CASE \E q \in Questions : BroadcastFails(q)
  BY <1>6, FailureStep
<1>7. CASE \E q \in Questions : \E w \in Workers : SubmitAnswer(q, w)
  BY <1>7, AnswerStep
<1>8. CASE Crash
  BY <1>8, CrashStep
<1>9. CASE UNCHANGED vars
  <2>1. UNCHANGED <<conn, workers, collecting, accepted, done, result,
                    broadcast, candidates, targets, shown>>
    BY <1>9 DEF vars
  <2> QED
    BY <2>1 DEF DispatchInv, TypeOK, Registered, CollectorLives, QuorumOpen,
                PrivatelyHandled, AllOrNothing
<1> QED
  BY <1>1, <1>2, <1>3, <1>4, <1>5, <1>6, <1>7, <1>8, <1>9 DEF Next

-----------------------------------------------------------------------------
(* The theorems *)

\* The invariant holds in every reachable state (dispatch.js:111-183, 278-302,
\* 444-508, 640-690), whatever dies, throws, drops or reconnects.
THEOREM DispatchInvariant == Spec => []DispatchInv
<1>1. Init => DispatchInv
  BY DispatchInit
<1>2. DispatchInv /\ [Next]_vars => DispatchInv'
  BY DispatchStep
<1> QED
  BY <1>1, <1>2, PTL DEF Spec

\* A question resolves with every answer it accepted, or with none
\* (dispatch.js:164-171, 658-683).
THEOREM AnswersStayTogether == Spec => []AllOrNothing
<1>1. DispatchInv => AllOrNothing
  BY DEF DispatchInv
<1> QED
  BY <1>1, DispatchInvariant, PTL

\* The answer that completes the quorum closes the question: nobody's answer is
\* accepted beyond it (dispatch.js:167-170).
THEOREM QuorumIsNeverExceeded == Spec => []QuorumCloses
<1>1. DispatchInv => QuorumCloses
  <2> SUFFICES ASSUME DispatchInv, NEW q \in Questions
               PROVE  /\ Cardinality(accepted[q]) <= QuorumSize
                      /\ Cardinality(accepted[q]) = QuorumSize => ~collecting[q]
    BY DEF QuorumCloses
  <2>1. Cardinality(accepted[q]) \in Nat /\ QuorumSize \in Nat
    BY FS_CardinalityType, QuorumAssumption DEF DispatchInv, QuorumOpen
  <2> QED
    BY <2>1 DEF DispatchInv, QuorumOpen
<1> QED
  BY <1>1, DispatchInvariant, PTL

\* Only workers of a private pool have their answers counted for its questions,
\* and only they are written to over SSE (dispatch.js:151-157).
THEOREM PoolAnswersAlone == Spec => []PrivateAnswersFromPool
<1>1. DispatchInv => PrivateAnswersFromPool
  <2> SUFFICES ASSUME DispatchInv, NEW q \in Private
               PROVE  result[q] \subseteq Pool /\ targets[q] \subseteq Pool
    BY DEF PrivateAnswersFromPool
  <2>1. q \in Questions
    BY PoolAssumption
  <2>2. result[q] = {} \/ result[q] = accepted[q]
    BY <2>1 DEF DispatchInv, CollectorLives, AllOrNothing, TypeOK
  <2> QED
    BY <2>2 DEF DispatchInv, PrivatelyHandled
<1> QED
  BY <1>1, DispatchInvariant, PTL

\* What a step can do to a resolved question: nothing.
LEMMA ResolvedStays ==
  ASSUME DispatchInv, NEW q \in Questions, done[q], [Next]_vars
  PROVE  done'[q] /\ result'[q] = result[q] /\ accepted'[q] = accepted[q]
<1>1. ~collecting[q] /\ broadcast[q] # "idle"
  BY DEF DispatchInv, CollectorLives
<1>2. CASE \E k \in Connections : Connect(k) \/ Drop(k) \/ Register(k) \/ Close(k)
  BY <1>2 DEF Connect, Drop, Register, Close, collectorVars
<1>3. CASE \E p \in Questions : DispatchAndCollect(p) \/ SendFrames(p)
  BY <1>3 DEF DispatchAndCollect, SendFrames, collectorVars
<1>4. CASE \E p \in Questions :
             /\ Finish(p, {}) \/ Finish(p, accepted[p]) \/ UNCHANGED <<done, result, collecting>>
             /\ UNCHANGED accepted
  <2> PICK p \in Questions :
             /\ Finish(p, {}) \/ Finish(p, accepted[p]) \/ UNCHANGED <<done, result, collecting>>
             /\ UNCHANGED accepted
    BY <1>4
  <2>1. {} \in SUBSET Workers /\ accepted[p] \in SUBSET Workers
    BY DEF DispatchInv, TypeOK
  <2>2. CASE UNCHANGED <<done, result, collecting>>
    BY <2>2
  <2>3. CASE Finish(p, {})
    BY <2>1, <2>3, FinishEnds DEF DispatchInv
  <2>4. CASE Finish(p, accepted[p])
    BY <2>1, <2>4, FinishEnds DEF DispatchInv
  <2> QED
    BY <2>2, <2>3, <2>4
<1>5. CASE \E p \in Questions : Timeout(p) \/ NotifySubscribers(p) \/ BroadcastFails(p)
  BY <1>4, <1>5 DEF Timeout, NotifySubscribers, BroadcastFails
<1>6. CASE \E p \in Questions : \E w \in Workers : SubmitAnswer(p, w)
  <2> PICK p \in Questions, w \in Workers : SubmitAnswer(p, w)
    BY <1>6
  <2>1. p # q
    BY <1>1 DEF SubmitAnswer, MayAnswer
  <2>2. accepted'[q] = accepted[q]
    BY <2>1 DEF SubmitAnswer, DispatchInv, TypeOK
  <2>3. UNCHANGED <<done, result, collecting>> \/ Finish(p, accepted[p] \cup {w})
    BY DEF SubmitAnswer
  <2>4. accepted[p] \cup {w} \in SUBSET Workers
    BY DEF DispatchInv, TypeOK
  <2>5. done'[q] = done[q] /\ result'[q] = result[q]
    BY <2>1, <2>3, <2>4, FinishEnds DEF DispatchInv
  <2> QED
    BY <2>2, <2>5
<1>7. CASE Crash
  BY <1>7 DEF Crash
<1>8. CASE UNCHANGED vars
  BY <1>8 DEF vars
<1> QED
  BY <1>2, <1>3, <1>5, <1>6, <1>7, <1>8 DEF Next

\* A late answer, a timer or a failed push never reopens or changes a resolved
\* question (dispatch.js:656-664).
THEOREM ResolutionIsFinal == Spec => ResolvedIsFinal
<1>1. DispatchInv /\ [Next]_vars =>
        [\A q \in Questions :
           done[q] => done'[q] /\ result'[q] = result[q] /\ accepted'[q] = accepted[q]]_vars
  BY ResolvedStays
<1> QED
  BY <1>1, DispatchInvariant, PTL DEF Spec, ResolvedIsFinal
=============================================================================
