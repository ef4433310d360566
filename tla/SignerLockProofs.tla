--------------------------- MODULE SignerLockProofs ---------------------------
(***************************************************************************)
(* One signer at a time, for any instances, calls, endpoints and times in  *)
(* which the lease outlasts a call.                                        *)
(***************************************************************************)
EXTENDS SignerLock, TLAPS

\* The budget of the endpoints still to come.
LEMMA LaterFacts ==
  /\ UrlBudget \in Nat
  /\ \A u \in 1..Urls : Later(u) \in Nat
  /\ \A u \in 1..Urls : u < Urls => Later(u + 1) + UrlBudget = Later(u)
  /\ UrlBudget + Later(1) < LeaseTtl
<1>1. /\ Urls \in Nat \ {0} /\ AttemptTimeout \in Nat /\ Backoff \in Nat
      /\ LeaseTtl \in Nat
  BY TimesAssumption
<1>2. UrlBudget \in Nat
  BY <1>1 DEF UrlBudget
<1>3. ASSUME NEW m \in Nat, NEW b \in Nat PROVE m * b \in Nat /\ (m + 1) * b = m * b + b
  OBVIOUS
<1>4. \A u \in 1..Urls : Later(u) \in Nat
  BY <1>1, <1>2, <1>3 DEF Later
<1>5. ASSUME NEW u \in 1..Urls, u < Urls PROVE Later(u + 1) + UrlBudget = Later(u)
  <2>1. Urls - (u + 1) \in Nat /\ Urls - u = (Urls - (u + 1)) + 1
    BY <1>1, <1>5
  <2> QED
    BY <2>1, <1>2, <1>3 DEF Later
<1>6. UrlBudget + Later(1) = Urls * UrlBudget
  <2>1. Urls - 1 \in Nat /\ Urls = (Urls - 1) + 1
    BY <1>1
  <2>2. Urls * UrlBudget = (Urls - 1) * UrlBudget + UrlBudget
    BY <2>1, <1>2, <1>3
  <2>3. (Urls - 1) * UrlBudget \in Nat
    BY <2>1, <1>2, <1>3
  <2> QED
    BY <2>2, <2>3, <1>2 DEF Later
<1> QED
  BY <1>2, <1>4, <1>5, <1>6, LeaseOutlastsCall

LEMMA SignerInit == Init => SignerInv
<1> SUFFICES ASSUME Init PROVE SignerInv
  OBVIOUS
<1>1. CallTypes
  BY TimesAssumption DEF Init, CallTypes
<1>2. LeaseTypes
  BY TimesAssumption DEF Init, LeaseTypes
<1>3. \A c \in Calls : phase[c] = "new"
  BY DEF Init
<1> QED
  BY <1>1, <1>2, <1>3 DEF SignerInv, Signing

\* A step that keeps the lease, and after which only calls sign that did before, with no
\* more to do than before, keeps the invariant.
LEMMA SameLease ==
  ASSUME SignerInv, CallTypes', UNCHANGED leaseVars,
         NEW c \in Calls,
         \A d \in Calls \ {c} : /\ phase'[d] = phase[d] /\ url'[d] = url[d]
                                /\ try'[d] = try[d] /\ timer'[d] = timer[d],
         Signing(c)' => /\ Signing(c) /\ Remaining(c)' <= Remaining(c)
                        /\ phase'[c] = "backoff" => try'[c] = 1
  PROVE  SignerInv'
<1>1. LeaseTypes'
  BY DEF SignerInv, LeaseTypes, leaseVars
<1>2. ASSUME NEW d \in Calls PROVE phase'[d] = "backoff" => try'[d] = 1
  BY DEF SignerInv, Signing
<1>3. ASSUME NEW d \in Calls, Signing(d)' PROVE LeaseCovers(d)'
  <2>1. CASE d = c
    <3>1. LeaseCovers(c) /\ Remaining(c)' <= Remaining(c)
      BY <1>3, <2>1 DEF SignerInv
    <3>2. Remaining(c) \in Nat /\ Remaining(c)' \in Nat
      <4>1. Later(url[c]) \in Nat /\ Later(url'[c]) \in Nat
        BY LaterFacts DEF SignerInv, CallTypes
      <4> QED
        BY <4>1, TimesAssumption DEF SignerInv, CallTypes, Remaining, Later
    <3>3. leaseLeft \in Nat /\ leaseLeft' = leaseLeft /\ leaseOwner' = leaseOwner
      BY TimesAssumption DEF SignerInv, LeaseTypes, leaseVars
    <3> QED
      BY <3>1, <3>2, <3>3, <2>1 DEF LeaseCovers
  <2>2. CASE d # c
    <3>1. Remaining(d)' = Remaining(d) /\ Signing(d)
      BY <1>3, <2>2 DEF Remaining, Signing, Later
    <3> QED
      BY <3>1 DEF SignerInv, LeaseCovers, leaseVars
  <2> QED
    BY <2>1, <2>2
<1> QED
  BY <1>1, <1>2, <1>3 DEF SignerInv

\* Enqueueing, starting, and ending without the lease: nobody begins to sign.
LEMMA QueueStepKeeps ==
  ASSUME SignerInv, NEW c \in Calls,
         Enqueue(c) \/ RefuseCanary(c) \/ Start(c) \/ GiveUpWaiting(c)
  PROVE  SignerInv'
<1>1. phase'[c] \in {"queued", "waiting", "settled"}
  BY DEF SignerInv, CallTypes, Enqueue, RefuseCanary, Start, GiveUpWaiting, Leave
<1>2. ~Signing(c)'
  BY <1>1 DEF Signing
<1>3. CallTypes'
  BY TimesAssumption
  DEF SignerInv, CallTypes, Enqueue, RefuseCanary, Start, GiveUpWaiting, Leave, Forget
<1>4. UNCHANGED leaseVars
  BY DEF Enqueue, RefuseCanary, Start, GiveUpWaiting
<1>5. \A d \in Calls \ {c} : /\ phase'[d] = phase[d] /\ url'[d] = url[d]
                             /\ try'[d] = try[d] /\ timer'[d] = timer[d]
  BY DEF SignerInv, CallTypes, Enqueue, RefuseCanary, Start, GiveUpWaiting, Leave, Forget
<1> QED
  BY <1>2, <1>3, <1>4, <1>5, SameLease

\* A fresh lease lasts longer than a whole call, and no other call was signing.
LEMMA AcquireKeeps ==
  ASSUME SignerInv, NEW c \in Calls, Acquire(c)
  PROVE  SignerInv'
<1>1. CallTypes' /\ LeaseTypes'
  BY TimesAssumption DEF SignerInv, CallTypes, LeaseTypes, Acquire, Begin
<1>2. \A d \in Calls : ~Signing(d)
  BY NoneAssumption DEF SignerInv, LeaseCovers, Acquire
<1>3. \A d \in Calls \ {c} : phase'[d] = phase[d]
  BY DEF SignerInv, CallTypes, Acquire, Begin
<1>4. /\ phase'[c] = "attempt" /\ url'[c] = 1 /\ try'[c] = 1
      /\ timer'[c] = AttemptTimeout /\ leaseOwner' = c /\ leaseLeft' = LeaseTtl
  BY DEF SignerInv, CallTypes, Acquire, Begin
<1>5. LeaseCovers(c)'
  <2>1. Remaining(c)' = AttemptTimeout + Later(1) + (Backoff + AttemptTimeout)
    BY <1>4 DEF Remaining, Later
  <2>2. 1 \in 1..Urls
    BY TimesAssumption
  <2>3. Later(1) \in Nat /\ UrlBudget + Later(1) < LeaseTtl
    BY <2>2, LaterFacts
  <2>4. Remaining(c)' < LeaseTtl
    BY <2>1, <2>3, TimesAssumption DEF UrlBudget
  <2> QED
    BY <1>4, <2>4 DEF LeaseCovers
<1> QED
  BY <1>1, <1>2, <1>3, <1>4, <1>5 DEF SignerInv, Signing

\* The lease given back is the releasing call's own, so no other call was signing under it.
LEMMA ReleaseKeeps ==
  ASSUME SignerInv, NEW c \in Calls, Release(c)
  PROVE  SignerInv'
<1>1. CallTypes' /\ LeaseTypes'
  BY TimesAssumption
  DEF SignerInv, CallTypes, LeaseTypes, Release, ReleaseLease, leaseVars, Leave, Forget
<1>2. phase'[c] = "settled"
  BY DEF SignerInv, CallTypes, Release, Leave
<1>3. \A d \in Calls \ {c} : /\ phase'[d] = phase[d] /\ url'[d] = url[d]
                             /\ try'[d] = try[d] /\ timer'[d] = timer[d]
  BY DEF SignerInv, CallTypes, Release, Leave, Forget
<1>4. CASE UNCHANGED leaseVars
  BY <1>1, <1>2, <1>3, <1>4, SameLease DEF Signing
<1>5. CASE leaseOwner = c
  <2>1. \A d \in Calls : ~Signing(d)'
    <3>1. ~Signing(c)'
      BY <1>2 DEF Signing
    <3>2. \A d \in Calls \ {c} : ~Signing(d)
      BY <1>5 DEF SignerInv, LeaseCovers
    <3> QED
      BY <3>1, <3>2, <1>3 DEF Signing
  <2> QED
    BY <1>1, <2>1 DEF SignerInv, Signing
<1> QED
  BY <1>4, <1>5 DEF Release, ReleaseLease

\* What follows a failed attempt was in the budget of the call already.
LEMMA AdvanceKeeps ==
  ASSUME SignerInv, NEW c \in Calls, NEW r \in BOOLEAN, phase[c] = "attempt",
         Advance(c, r), UNCHANGED leaseVars
  PROVE  SignerInv'
<1>1. /\ url[c] \in 1..Urls /\ try[c] \in 1..2 /\ timer[c] \in Nat
      /\ Urls \in Nat /\ AttemptTimeout \in Nat /\ Backoff \in Nat
  BY TimesAssumption DEF SignerInv, CallTypes
<1>2. Later(url[c]) \in Nat
  BY <1>1, LaterFacts
<1>3. Signing(c)
  BY DEF Signing
<1>4. CASE /\ Retries(c, r)
           /\ phase' = [phase EXCEPT ![c] = "backoff"]
           /\ timer' = [timer EXCEPT ![c] = Backoff]
           /\ UNCHANGED <<url, try, outcome>>
  <2>1. CallTypes'
    BY <1>1, <1>4 DEF SignerInv, CallTypes
  <2>2. /\ phase'[c] = "backoff" /\ timer'[c] = Backoff /\ url'[c] = url[c]
        /\ try[c] = 1 /\ try'[c] = 1
    BY <1>4 DEF SignerInv, CallTypes, Retries
  <2>3. Remaining(c)' = Backoff + Later(url[c]) + AttemptTimeout
    BY <2>2 DEF Remaining, Later
  <2>4. Remaining(c) = timer[c] + Later(url[c]) + (Backoff + AttemptTimeout)
    BY <2>2 DEF Remaining
  <2>5. Remaining(c)' <= Remaining(c)
    BY <2>3, <2>4, <1>1, <1>2
  <2>6. \A d \in Calls \ {c} : /\ phase'[d] = phase[d] /\ url'[d] = url[d]
                               /\ try'[d] = try[d] /\ timer'[d] = timer[d]
    BY <1>4 DEF SignerInv, CallTypes
  <2> QED
    BY <1>3, <2>1, <2>2, <2>5, <2>6, SameLease
<1>5. CASE HasUrl(c) /\ Begin(c, url[c] + 1, 1)
  <2>1. url[c] + 1 \in 1..Urls /\ url[c] < Urls
    BY <1>1, <1>5 DEF HasUrl
  <2>2. CallTypes'
    BY <2>1, <1>1, <1>5 DEF SignerInv, CallTypes, Begin
  <2>3. /\ phase'[c] = "attempt" /\ timer'[c] = AttemptTimeout
        /\ url'[c] = url[c] + 1 /\ try'[c] = 1
    BY <1>5 DEF SignerInv, CallTypes, Begin
  <2>4. Remaining(c)' = AttemptTimeout + Later(url[c] + 1) + (Backoff + AttemptTimeout)
    BY <2>3 DEF Remaining, Later
  <2>5. Later(url[c] + 1) \in Nat /\ Later(url[c] + 1) + UrlBudget = Later(url[c])
    BY <1>1, <2>1, LaterFacts
  <2>6. Remaining(c)' = Later(url[c])
    BY <2>4, <2>5, <1>1, <1>2 DEF UrlBudget
  <2>7. Later(url[c]) <= Remaining(c)
    BY <1>1, <1>2 DEF Remaining
  <2>8. \A d \in Calls \ {c} : /\ phase'[d] = phase[d] /\ url'[d] = url[d]
                               /\ try'[d] = try[d] /\ timer'[d] = timer[d]
    BY <1>5 DEF SignerInv, CallTypes, Begin
  <2> QED
    BY <1>3, <2>2, <2>3, <2>6, <2>7, <2>8, SameLease
<1>6. CASE Finish(c, "failed")
  <2>1. CallTypes' /\ ~Signing(c)'
    BY <1>6 DEF SignerInv, CallTypes, Finish, Signing
  <2>2. \A d \in Calls \ {c} : /\ phase'[d] = phase[d] /\ url'[d] = url[d]
                               /\ try'[d] = try[d] /\ timer'[d] = timer[d]
    BY <1>6 DEF SignerInv, CallTypes, Finish
  <2> QED
    BY <2>1, <2>2, SameLease
<1> QED
  BY <1>4, <1>5, <1>6 DEF Advance

\* The retry begins with the ticks the back-off kept for it.
LEMMA BackoffKeeps ==
  ASSUME SignerInv, NEW c \in Calls, BackoffOver(c)
  PROVE  SignerInv'
<1>1. /\ url[c] \in 1..Urls /\ timer[c] \in Nat /\ AttemptTimeout \in Nat
      /\ phase[c] = "backoff" /\ try[c] = 1
  BY TimesAssumption DEF SignerInv, CallTypes, BackoffOver
<1>2. /\ phase'[c] = "attempt" /\ timer'[c] = AttemptTimeout
      /\ url'[c] = url[c] /\ try'[c] = 2
  BY DEF SignerInv, CallTypes, BackoffOver, Begin
<1>3. CallTypes'
  BY <1>1 DEF SignerInv, CallTypes, BackoffOver, Begin
<1>4. Later(url[c]) \in Nat
  BY <1>1, LaterFacts
<1>5. Remaining(c)' = AttemptTimeout + Later(url[c]) + 0
  BY <1>2 DEF Remaining, Later
<1>6. Remaining(c) = timer[c] + Later(url[c]) + AttemptTimeout
  BY <1>1 DEF Remaining
<1>7. Remaining(c)' <= Remaining(c)
  BY <1>1, <1>4, <1>5, <1>6
<1>8. \A d \in Calls \ {c} : /\ phase'[d] = phase[d] /\ url'[d] = url[d]
                             /\ try'[d] = try[d] /\ timer'[d] = timer[d]
  BY DEF SignerInv, CallTypes, BackoffOver, Begin
<1> QED
  BY <1>1, <1>2, <1>3, <1>7, <1>8, SameLease DEF Signing, BackoffOver

\* The clock takes a tick from the lease, and one from every call that signs.
LEMMA TickKeeps ==
  ASSUME SignerInv, Tick
  PROVE  SignerInv'
<1>1. UNCHANGED <<phase, url, try>>
  BY DEF Tick
<1>2. \A c \in Calls : Timed(c) => timer[c] \in Nat \ {0}
  BY DEF SignerInv, CallTypes, Tick, Quiet
<1>3. CallTypes'
  BY <1>1, <1>2 DEF SignerInv, CallTypes, Tick, RunTimers
<1>4. LeaseTypes'
  BY TimesAssumption DEF SignerInv, LeaseTypes, Tick
<1>5. ASSUME NEW c \in Calls, Signing(c)' PROVE LeaseCovers(c)'
  <2>1. Signing(c) /\ Timed(c)
    BY <1>1, <1>5 DEF Signing, Timed
  <2>2. leaseOwner = c /\ Remaining(c) < leaseLeft
    BY <2>1 DEF SignerInv, LeaseCovers
  <2>3. timer[c] \in Nat \ {0} /\ timer'[c] = timer[c] - 1
    BY <2>1, <1>2 DEF Tick, RunTimers
  <2>4. Later(url[c]) \in Nat /\ leaseLeft \in Nat /\ Backoff \in Nat /\ AttemptTimeout \in Nat
    BY LaterFacts, TimesAssumption DEF SignerInv, CallTypes, LeaseTypes
  <2>5. Remaining(c)' = Remaining(c) - 1 /\ Remaining(c) \in Nat \ {0}
    BY <2>3, <2>4, <1>1 DEF Remaining, Later
  <2>6. leaseLeft > 1
    BY <2>2, <2>4, <2>5
  <2>7. leaseOwner' = c /\ leaseLeft' = leaseLeft - 1
    BY <2>2, <2>4, <2>6 DEF Tick
  <2> QED
    BY <2>2, <2>4, <2>5, <2>7 DEF LeaseCovers
<1>6. \A c \in Calls : phase'[c] = "backoff" => try'[c] = 1
  BY <1>1 DEF SignerInv
<1> QED
  BY <1>3, <1>4, <1>5, <1>6 DEF SignerInv

\* The calls of a dead instance sign no more, and the others go on as before.
LEMMA CrashKeeps ==
  ASSUME SignerInv, NEW i \in Instances, Crash(i)
  PROVE  SignerInv'
<1> DEFINE gone == {c \in Calls : Home[c] = i /\ phase[c] \notin {"new", "settled"}}
<1>1. /\ phase' = [c \in Calls |-> IF c \in gone THEN "lost" ELSE phase[c]]
      /\ Forget(gone) /\ UNCHANGED leaseVars
  BY DEF Crash
<1> HIDE DEF gone
<1>2. CallTypes'
  BY <1>1, TimesAssumption DEF SignerInv, CallTypes, Forget
<1>3. LeaseTypes'
  BY <1>1 DEF SignerInv, LeaseTypes, leaseVars
<1>4. \A d \in Calls : d \in gone => ~Signing(d)' /\ phase'[d] # "backoff"
  BY <1>1 DEF Signing
<1>5. \A d \in Calls : d \notin gone => /\ phase'[d] = phase[d] /\ url'[d] = url[d]
                                        /\ try'[d] = try[d] /\ timer'[d] = timer[d]
  BY <1>1 DEF Forget
<1>6. ASSUME NEW d \in Calls, Signing(d)' PROVE LeaseCovers(d)'
  <2>1. Signing(d) /\ Remaining(d)' = Remaining(d)
    BY <1>4, <1>5, <1>6 DEF Signing, Remaining, Later
  <2> QED
    BY <2>1, <1>1 DEF SignerInv, LeaseCovers, leaseVars
<1>7. \A d \in Calls : phase'[d] = "backoff" => try'[d] = 1
  BY <1>4, <1>5 DEF SignerInv
<1> QED
  BY <1>2, <1>3, <1>6, <1>7 DEF SignerInv

\* Every step keeps the invariant.
LEMMA SignerStep == SignerInv /\ [Next]_vars => SignerInv'
<1> SUFFICES ASSUME SignerInv, [Next]_vars PROVE SignerInv'
  OBVIOUS
<1>1. CASE UNCHANGED <<callVars, leaseVars>>
  BY <1>1 DEF SignerInv, CallTypes, LeaseTypes, callVars, leaseVars, Signing, LeaseCovers,
              Remaining, Later
<1>2. ASSUME NEW c \in Calls, CallStep(c) PROVE SignerInv'
  <2>1. CASE Enqueue(c) \/ RefuseCanary(c) \/ Start(c) \/ GiveUpWaiting(c)
    BY <2>1, QueueStepKeeps
  <2>2. CASE Acquire(c)
    BY <2>2, AcquireKeeps
  <2>3. CASE Release(c)
    BY <2>3, ReleaseKeeps
  <2>4. CASE TimeOut(c)
    BY <2>4, AdvanceKeeps DEF TimeOut
  <2>5. CASE BackoffOver(c)
    BY <2>5, BackoffKeeps
  <2> QED
    BY <1>2, <2>1, <2>2, <2>3, <2>4, <2>5 DEF CallStep
<1>3. ASSUME NEW a \in Attempts, AttemptStep(a) PROVE SignerInv'
  <2>1. a[1] \in Calls
    BY DEF Attempts
  <2>2. CASE GetAccount(a) \/ Submit(a) \/ Land(a)
    BY <2>2, <1>1 DEF GetAccount, Submit, Land
  <2>3. CASE Poll(a)
    <3>1. Finish(a[1], "ok") /\ UNCHANGED leaseVars
      BY <2>3 DEF Poll
    <3>2. CallTypes' /\ ~Signing(a[1])'
      BY <3>1, <2>1 DEF SignerInv, CallTypes, Finish, Signing
    <3>3. \A d \in Calls \ {a[1]} : /\ phase'[d] = phase[d] /\ url'[d] = url[d]
                                    /\ try'[d] = try[d] /\ timer'[d] = timer[d]
      BY <3>1 DEF SignerInv, CallTypes, Finish
    <3> QED
      BY <2>1, <3>1, <3>2, <3>3, SameLease
  <2>4. CASE AttemptFails(a)
    <3>1. phase[a[1]] = "attempt" /\ UNCHANGED leaseVars
      BY <2>4 DEF AttemptFails, Current
    <3>2. PICK r \in BOOLEAN : Advance(a[1], r)
      BY <2>4 DEF AttemptFails
    <3> QED
      BY <2>1, <3>1, <3>2, AdvanceKeeps
  <2> QED
    BY <1>3, <2>2, <2>3, <2>4 DEF AttemptStep
<1>4. CASE UNCHANGED vars \/ \E q \in Questions : RefundTimeout(q)
  BY <1>4, <1>1 DEF vars, RefundTimeout, callVars, leaseVars
<1> QED
  BY <1>2, <1>3, <1>4, CrashKeeps, TickKeeps DEF Next

\* The lease covers whatever a signing call may still do (canary.js, config.js: the TTL
\* must outlast one call including its retries).
THEOREM SignerInvariance == Spec => []SignerInv
<1> QED
  BY SignerInit, SignerStep, PTL DEF Spec

\* No two calls sign at the same moment, in one instance or in two.
THEOREM OneSignerTheorem == Spec => []OneSigner
<1>1. SignerInv => OneSigner
  BY DEF SignerInv, LeaseCovers, OneSigner
<1> QED
  BY <1>1, SignerInvariance, PTL

-----------------------------------------------------------------------------
(* Sequence numbers *)

AttemptTypes ==
  /\ pc \in [Attempts -> {"account", "submit", "poll", "over"}]
  /\ seq \in [Attempts -> Nat] /\ ledgerSeq \in Nat
  /\ adrift \subseteq Attempts
  /\ tx \in [Attempts -> {"none", "pending", "applied", "rejected"}]

\* A number that landed is used up, and a pending transaction is either adrift or the
\* one the signing call is polling for.
Awaited(a) == tx[a] = "pending" => Current(a) \/ a \in adrift
Used(a)    == tx[a] \in {"applied", "rejected"} => seq[a] <= ledgerSeq
Unsent(a)  == pc[a] \in {"account", "submit"} => tx[a] = "none"
SequenceInv ==
  /\ AttemptTypes
  /\ \A a \in Attempts : Awaited(a) /\ Used(a) /\ Unsent(a)
  /\ SharedSequenceIsAdrift

\* One call signs, and it polls for one attempt.
LEMMA OneCurrent ==
  ASSUME SignerInv, NEW a \in Attempts, NEW b \in Attempts, Current(a), Current(b)
  PROVE  a = b
<1>1. a[1] \in Calls /\ b[1] \in Calls
  BY DEF Attempts
<1>2. a[1] = b[1]
  BY <1>1 DEF SignerInv, LeaseCovers, Current, Signing
<1> QED
  BY <1>2 DEF Current, Attempts

LEMMA SequenceInit == Init => SequenceInv
<1> SUFFICES ASSUME Init PROVE SequenceInv
  OBVIOUS
<1>1. AttemptTypes
  BY DEF Init, AttemptTypes
<1>2. \A a \in Attempts : tx[a] = "none"
  BY DEF Init
<1> QED
  BY <1>1, <1>2 DEF SequenceInv, Awaited, Used, Unsent, SharedSequenceIsAdrift

\* A step on calls alone: attempts it stops waiting for are set adrift.
LEMMA CallsOnlyKeeps ==
  ASSUME SequenceInv, AttemptTypes', UNCHANGED <<seq, tx, ledgerSeq>>,
         adrift \subseteq adrift',
         \A a \in Attempts : pc'[a] \in {pc[a], "over"},
         \A a \in Attempts : tx[a] = "pending" /\ Current(a) => Current(a)' \/ a \in adrift'
  PROVE  SequenceInv'
<1>1. ASSUME NEW a \in Attempts PROVE (Awaited(a) /\ Used(a) /\ Unsent(a))'
  BY DEF SequenceInv, Awaited, Used, Unsent
<1>2. SharedSequenceIsAdrift'
  BY DEF SequenceInv, SharedSequenceIsAdrift
<1> QED
  BY <1>1, <1>2 DEF SequenceInv

\* Only a call in an attempt has a current attempt to lose.
LEMMA CallStepKeepsSequence ==
  ASSUME SignerInv, SequenceInv, NEW c \in Calls, CallStep(c)
  PROVE  SequenceInv'
<1>1. UNCHANGED <<pc, seq, tx, ledgerSeq>>
  BY DEF CallStep, Enqueue, RefuseCanary, Start, Acquire, GiveUpWaiting, Release, TimeOut,
         BackoffOver, chainVars
<1>2. CASE TimeOut(c)
  <2>1. <<c, url[c], try[c]>> \in Attempts
    BY DEF SignerInv, CallTypes, Attempts
  <2>2. adrift' = adrift \cup {<<c, url[c], try[c]>>}
    BY <1>2 DEF TimeOut
  <2>3. AttemptTypes'
    BY <1>1, <2>1, <2>2 DEF SequenceInv, AttemptTypes
  <2>4. ASSUME NEW a \in Attempts, Current(a) PROVE a \in adrift'
    <3>1. Current(<<c, url[c], try[c]>>)
      BY <1>2 DEF TimeOut, Current
    <3> QED
      BY <2>1, <2>2, <2>4, <3>1, OneCurrent
  <2> QED
    BY <1>1, <2>2, <2>3, <2>4, CallsOnlyKeeps
<1>3. CASE ~TimeOut(c)
  <2>1. adrift' = adrift /\ phase[c] # "attempt"
    BY <1>3 DEF CallStep, Enqueue, RefuseCanary, Start, Acquire, GiveUpWaiting, Release,
                BackoffOver, CanStart
  <2>2. \A d \in Calls \ {c} : phase'[d] = phase[d] /\ url'[d] = url[d] /\ try'[d] = try[d]
    BY <1>3 DEF SignerInv, CallTypes, CallStep, Enqueue, RefuseCanary, Start, Acquire,
                GiveUpWaiting, Release, BackoffOver, Leave, Forget, Begin
  <2>3. ASSUME NEW a \in Attempts, Current(a) PROVE Current(a)'
    <3>1. a[1] \in Calls \ {c}
      BY <2>1, <2>3 DEF Attempts, Current
    <3> QED
      BY <2>2, <2>3, <3>1 DEF Current
  <2>4. AttemptTypes'
    BY <1>1, <2>1 DEF SequenceInv, AttemptTypes
  <2> QED
    BY <1>1, <2>1, <2>3, <2>4, CallsOnlyKeeps
<1> QED
  BY <1>2, <1>3

\* A new transaction has a number no transaction landed with; if another one is pending
\* with it, one of the two is adrift.
LEMMA SubmitKeeps ==
  ASSUME SignerInv, SequenceInv, NEW a \in Attempts, Submit(a)
  PROVE  SequenceInv'
<1>1. /\ tx' = [tx EXCEPT ![a] = "pending"] /\ pc' = [pc EXCEPT ![a] = "poll"]
      /\ seq[a] = ledgerSeq + 1
      /\ UNCHANGED <<phase, url, try, seq, adrift, ledgerSeq>>
  BY DEF Submit, callVars, chainVars
<1>2. AttemptTypes'
  BY <1>1 DEF SequenceInv, AttemptTypes
<1>3. Current(a) \/ a \in adrift
  BY DEF Submit, Running
<1>4. ASSUME NEW b \in Attempts PROVE (Awaited(b) /\ Used(b) /\ Unsent(b))'
  BY <1>1, <1>3 DEF SequenceInv, AttemptTypes, Awaited, Used, Unsent, Current
<1>5. ASSUME NEW b \in Attempts, b # a, tx[b] # "none", seq[b] = seq[a]
      PROVE  {a, b} \cap adrift # {}
  <2>1. tx[b] = "pending"
    BY <1>1, <1>5 DEF SequenceInv, AttemptTypes, Used
  <2>2. Current(b) \/ b \in adrift
    BY <2>1 DEF SequenceInv, Awaited
  <2> QED
    BY <1>3, <1>5, <2>2, OneCurrent
<1>6. SharedSequenceIsAdrift'
  <2> SUFFICES ASSUME NEW b \in Attempts, NEW d \in Attempts, b # d,
                      tx'[b] # "none", tx'[d] # "none", seq[b] = seq[d]
               PROVE  {b, d} \cap adrift # {}
    BY <1>1 DEF SharedSequenceIsAdrift
  <2>1. CASE b = a
    BY <2>1, <1>1, <1>5 DEF SequenceInv, AttemptTypes
  <2>2. CASE d = a
    BY <2>2, <1>1, <1>5 DEF SequenceInv, AttemptTypes
  <2>3. CASE b # a /\ d # a
    BY <2>3, <1>1 DEF SequenceInv, AttemptTypes, SharedSequenceIsAdrift
  <2> QED
    BY <2>1, <2>2, <2>3
<1> QED
  BY <1>2, <1>4, <1>6 DEF SequenceInv

LEMMA GetAccountKeeps ==
  ASSUME SequenceInv, NEW a \in Attempts, GetAccount(a)
  PROVE  SequenceInv'
<1>1. /\ pc[a] = "account" /\ pc' = [pc EXCEPT ![a] = "submit"]
      /\ seq' = [seq EXCEPT ![a] = ledgerSeq + 1]
      /\ UNCHANGED <<phase, url, try, tx, adrift, ledgerSeq>>
  BY DEF GetAccount, callVars, chainVars
<1>2. tx[a] = "none"
  BY <1>1 DEF SequenceInv, Unsent
<1>3. AttemptTypes'
  BY <1>1 DEF SequenceInv, AttemptTypes
<1>4. ASSUME NEW b \in Attempts PROVE (Awaited(b) /\ Used(b) /\ Unsent(b))'
  BY <1>1, <1>2 DEF SequenceInv, AttemptTypes, Awaited, Used, Unsent, Current
<1>5. SharedSequenceIsAdrift'
  BY <1>1, <1>2 DEF SequenceInv, AttemptTypes, SharedSequenceIsAdrift
<1> QED
  BY <1>3, <1>4, <1>5 DEF SequenceInv

LEMMA LandKeeps ==
  ASSUME SequenceInv, NEW a \in Attempts, Land(a)
  PROVE  SequenceInv'
<1>1. /\ tx[a] = "pending" /\ seq[a] = ledgerSeq + 1 /\ ledgerSeq' = ledgerSeq + 1
      /\ UNCHANGED <<phase, url, try, pc, seq, adrift>>
  BY DEF Land, callVars
<1>2. PICK v \in {"applied", "rejected"} : tx' = [tx EXCEPT ![a] = v]
  BY DEF Land
<1>3. AttemptTypes'
  BY <1>1, <1>2 DEF SequenceInv, AttemptTypes
<1>4. ASSUME NEW b \in Attempts PROVE (Awaited(b) /\ Used(b) /\ Unsent(b))'
  BY <1>1, <1>2 DEF SequenceInv, AttemptTypes, Awaited, Used, Unsent, Current
<1>5. SharedSequenceIsAdrift'
  BY <1>1, <1>2 DEF SequenceInv, AttemptTypes, SharedSequenceIsAdrift
<1> QED
  BY <1>3, <1>4, <1>5 DEF SequenceInv

\* An attempt that ends without a verdict on its pending transaction is set adrift.
LEMMA EndKeeps ==
  ASSUME SignerInv, SequenceInv, NEW a \in Attempts, Poll(a) \/ AttemptFails(a)
  PROVE  SequenceInv'
<1>1. /\ Current(a) /\ pc' = [pc EXCEPT ![a] = "over"]
      /\ UNCHANGED <<seq, tx, ledgerSeq>>
  BY DEF Poll, AttemptFails, chainVars
<1>2. adrift \subseteq adrift' /\ adrift' \subseteq Attempts
  BY DEF SequenceInv, AttemptTypes, Poll, AttemptFails
<1>3. AttemptTypes'
  BY <1>1, <1>2 DEF SequenceInv, AttemptTypes
<1>4. \A b \in Attempts : tx[b] = "pending" /\ Current(b) => b \in adrift'
  <2>1. tx[a] = "pending" => a \in adrift'
    BY DEF Poll, AttemptFails
  <2> QED
    BY <1>1, <2>1, OneCurrent
<1>5. \A b \in Attempts : pc'[b] \in {pc[b], "over"}
  BY <1>1 DEF SequenceInv, AttemptTypes
<1> QED
  BY <1>1, <1>2, <1>3, <1>4, <1>5, CallsOnlyKeeps

LEMMA CrashKeepsSequence ==
  ASSUME SequenceInv, SignerInv, NEW i \in Instances, Crash(i)
  PROVE  SequenceInv'
<1>1. /\ adrift' = adrift \cup {a \in Attempts : Home[a[1]] = i /\ tx[a] = "pending"}
      /\ pc' = [a \in Attempts |-> IF Home[a[1]] = i THEN "over" ELSE pc[a]]
      /\ UNCHANGED <<seq, tx, ledgerSeq>>
  BY DEF Crash, chainVars
<1>2. AttemptTypes'
  BY <1>1 DEF SequenceInv, AttemptTypes
<1>3. \A c \in Calls : Home[c] # i =>
        phase'[c] = phase[c] /\ url'[c] = url[c] /\ try'[c] = try[c]
  BY DEF SignerInv, CallTypes, Crash, Forget
<1>4. \A a \in Attempts : a[1] \in Calls
  BY DEF Attempts
<1>5. \A a \in Attempts : tx[a] = "pending" /\ Current(a) => Current(a)' \/ a \in adrift'
  BY <1>1, <1>3, <1>4 DEF Current
<1> QED
  BY <1>1, <1>2, <1>5, CallsOnlyKeeps

LEMMA SequenceStep == SignerInv /\ SequenceInv /\ [Next]_vars => SequenceInv'
<1> SUFFICES ASSUME SignerInv, SequenceInv, [Next]_vars PROVE SequenceInv'
  OBVIOUS
<1>1. ASSUME NEW a \in Attempts, AttemptStep(a) PROVE SequenceInv'
  BY <1>1, GetAccountKeeps, SubmitKeeps, LandKeeps, EndKeeps DEF AttemptStep
<1>2. CASE UNCHANGED <<phase, url, try, pc, seq, adrift, tx, ledgerSeq>>
  <2>1. AttemptTypes'
    BY <1>2 DEF SequenceInv, AttemptTypes
  <2>2. \A a \in Attempts : Current(a) => Current(a)'
    BY <1>2 DEF Current
  <2> QED
    BY <1>2, <2>1, <2>2, CallsOnlyKeeps
<1>3. CASE Tick
  BY <1>3, <1>2 DEF Tick, chainVars
<1>4. CASE UNCHANGED vars \/ \E q \in Questions : RefundTimeout(q)
  BY <1>4, <1>2 DEF vars, RefundTimeout, callVars
<1> QED
  BY <1>1, <1>3, <1>4, CallStepKeepsSequence, CrashKeepsSequence DEF Next

\* Transactions race for a sequence number only with one that was given up
\* (stellarClient.js: retries, failovers and queued calls).
THEOREM SequencesAreSafe == Spec => []SharedSequenceIsAdrift
<1>1. SequenceInv => SharedSequenceIsAdrift
  BY DEF SequenceInv
<1> QED
  BY <1>1, SequenceInit, SequenceStep, SignerInvariance, PTL DEF Spec

-----------------------------------------------------------------------------
(* What a success says *)

\* The network applies a transaction only by settling its question with it, and a
\* settled question stays as it is; a call that says ok has such a transaction.
OwnSettlementInv ==
  /\ outcome \in [Calls -> {"none", "ok", "failed"}]
  /\ tx \in [Attempts -> {"none", "pending", "applied", "rejected"}]
  /\ settledBy \in [Questions -> Attempts \cup {None, Anyone}]
  /\ \A a \in Attempts : tx[a] = "applied" => settledBy[Target[a[1]]] = a
  /\ SuccessIsOwnSettlement

LEMMA OwnSettlementInit == Init => OwnSettlementInv
<1> SUFFICES ASSUME Init PROVE OwnSettlementInv
  OBVIOUS
<1>1. /\ \A c \in Calls : outcome[c] = "none"
      /\ \A a \in Attempts : tx[a] = "none"
  BY DEF Init
<1> QED
  BY <1>1 DEF Init, OwnSettlementInv, SuccessIsOwnSettlement

\* Every step but three leaves the network alone and lets no call succeed.
LEMMA NobodySucceeds ==
  ASSUME OwnSettlementInv, UNCHANGED <<tx, settledBy>>,
         outcome' \in [Calls -> {"none", "ok", "failed"}],
         \A c \in Calls : outcome'[c] = "ok" => outcome[c] = "ok"
  PROVE  OwnSettlementInv'
BY DEF OwnSettlementInv, SuccessIsOwnSettlement

\* The steps of a call end it, if at all, in failure.
LEMMA CallFails ==
  ASSUME OwnSettlementInv, NEW c \in Calls, CallStep(c)
  PROVE  OwnSettlementInv'
<1>1. UNCHANGED outcome \/ outcome' = [outcome EXCEPT ![c] = "failed"]
  BY DEF CallStep, Enqueue, RefuseCanary, Start, Acquire, GiveUpWaiting, Release, TimeOut,
         BackoffOver, Advance, Finish
<1>2. UNCHANGED <<tx, settledBy>>
  BY DEF CallStep, Enqueue, RefuseCanary, Start, Acquire, GiveUpWaiting, Release, TimeOut,
         BackoffOver, chainVars
<1> QED
  BY <1>1, <1>2, NobodySucceeds DEF OwnSettlementInv

\* Polling well needs a transaction of the call that was applied.
LEMMA PollSucceeds ==
  ASSUME OwnSettlementInv, NEW a \in Attempts, Poll(a)
  PROVE  OwnSettlementInv'
<1>1. a[1] \in Calls
  BY DEF Attempts
<1>2. /\ tx[a] = "applied" /\ UNCHANGED <<tx, settledBy>>
      /\ outcome' = [outcome EXCEPT ![a[1]] = "ok"]
  BY DEF Poll, Finish, chainVars
<1>3. settledBy[Target[a[1]]] = a
  BY <1>2 DEF OwnSettlementInv
<1>4. ASSUME NEW c \in Calls, outcome'[c] = "ok"
      PROVE  settledBy'[Target[c]] \in {b \in Attempts : b[1] = c}
  BY <1>1, <1>2, <1>3, <1>4 DEF OwnSettlementInv, SuccessIsOwnSettlement
<1> QED
  BY <1>1, <1>2, <1>4 DEF OwnSettlementInv, SuccessIsOwnSettlement

\* Only an open question is settled.
LEMMA LandSettles ==
  ASSUME OwnSettlementInv, NEW a \in Attempts, Land(a)
  PROVE  OwnSettlementInv'
<1>1. a[1] \in Calls /\ Target[a[1]] \in Questions
  BY TargetAssumption DEF Attempts
<1>2. UNCHANGED outcome /\ None \notin Attempts
  BY NoneAssumption DEF Land, callVars, Attempts
<1>3. CASE /\ settledBy[Target[a[1]]] = None
           /\ tx' = [tx EXCEPT ![a] = "applied"]
           /\ settledBy' = [settledBy EXCEPT ![Target[a[1]]] = a]
  <2>1. \A q \in Questions : settledBy[q] \in Attempts => settledBy'[q] = settledBy[q]
    BY <1>1, <1>2, <1>3 DEF OwnSettlementInv
  <2>2. ASSUME NEW b \in Attempts, tx'[b] = "applied" PROVE settledBy'[Target[b[1]]] = b
    <3>1. Target[b[1]] \in Questions
      BY TargetAssumption DEF Attempts
    <3> QED
      BY <1>1, <1>3, <2>1, <2>2, <3>1 DEF OwnSettlementInv
  <2>3. SuccessIsOwnSettlement'
    BY <1>2, <2>1, TargetAssumption DEF OwnSettlementInv, SuccessIsOwnSettlement
  <2> QED
    BY <1>1, <1>2, <1>3, <2>2, <2>3 DEF OwnSettlementInv
<1>4. CASE tx' = [tx EXCEPT ![a] = "rejected"] /\ UNCHANGED settledBy
  BY <1>2, <1>4 DEF OwnSettlementInv, SuccessIsOwnSettlement
<1> QED
  BY <1>3, <1>4 DEF Land

LEMMA OwnSettlementStep == OwnSettlementInv /\ [Next]_vars => OwnSettlementInv'
<1> SUFFICES ASSUME OwnSettlementInv, [Next]_vars PROVE OwnSettlementInv'
  OBVIOUS
<1>1. ASSUME NEW a \in Attempts, GetAccount(a) PROVE OwnSettlementInv'
  BY <1>1, NobodySucceeds DEF GetAccount, callVars, chainVars, OwnSettlementInv
<1>2. ASSUME NEW a \in Attempts, Submit(a) PROVE OwnSettlementInv'
  BY <1>2 DEF Submit, callVars, chainVars, OwnSettlementInv, SuccessIsOwnSettlement
<1>3. ASSUME NEW a \in Attempts, AttemptFails(a) PROVE OwnSettlementInv'
  <2>1. UNCHANGED outcome \/ outcome' = [outcome EXCEPT ![a[1]] = "failed"]
    BY <1>3 DEF AttemptFails, Advance, Finish
  <2>2. UNCHANGED <<tx, settledBy>> /\ a[1] \in Calls
    BY <1>3 DEF AttemptFails, chainVars, Attempts
  <2> QED
    BY <2>1, <2>2, NobodySucceeds DEF OwnSettlementInv
<1>4. ASSUME NEW q \in Questions, RefundTimeout(q) PROVE OwnSettlementInv'
  <2>1. settledBy[q] = None /\ settledBy' = [settledBy EXCEPT ![q] = Anyone]
        /\ UNCHANGED <<outcome, tx>>
    BY <1>4 DEF RefundTimeout, callVars
  <2>2. \A p \in Questions : settledBy[p] \in Attempts => settledBy'[p] = settledBy[p]
    BY <2>1, NoneAssumption DEF OwnSettlementInv, Attempts
  <2>3. \A a \in Attempts : Target[a[1]] \in Questions
    BY TargetAssumption DEF Attempts
  <2>4. SuccessIsOwnSettlement'
    BY <2>1, <2>2, TargetAssumption DEF OwnSettlementInv, SuccessIsOwnSettlement
  <2> QED
    BY <2>1, <2>2, <2>3, <2>4 DEF OwnSettlementInv
<1>5. ASSUME NEW i \in Instances, Crash(i) PROVE OwnSettlementInv'
  BY <1>5, NobodySucceeds DEF Crash, chainVars, OwnSettlementInv
<1>6. CASE Tick
  BY <1>6, NobodySucceeds DEF Tick, chainVars, OwnSettlementInv
<1>7. CASE UNCHANGED vars
  BY <1>7, NobodySucceeds DEF vars, OwnSettlementInv
<1> QED
  BY <1>1, <1>2, <1>3, <1>4, <1>5, <1>6, <1>7, CallFails, PollSucceeds, LandSettles
  DEF Next, AttemptStep

\* A resolve() or refund() that reports success settled the question itself, whatever
\* else raced for it (stellarClient.js: the loser of a double-send fails).
THEOREM SuccessIsTrue == Spec => []SuccessIsOwnSettlement
<1>1. OwnSettlementInv => SuccessIsOwnSettlement
  BY DEF OwnSettlementInv
<1> QED
  BY <1>1, OwnSettlementInit, OwnSettlementStep, PTL DEF Spec
=============================================================================
