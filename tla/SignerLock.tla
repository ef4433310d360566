------------------------------ MODULE SignerLock ------------------------------
(***************************************************************************)
(* Signing as the platform account.  Every resolve() and refund() goes     *)
(* through a serial queue of its instance, then through a lease in the     *)
(* shared store that all instances compete for, then through attempts that *)
(* time out, are retried once, and fail over to the next RPC endpoint.  A  *)
(* timeout ends the waiting for an attempt, never the attempt: what the    *)
(* network owes it may still arrive, and then it goes on and submits.      *)
(*                                                                         *)
(* Time passes in ticks.  What the program does at once (start a task,     *)
(* poll a free lease, react to a timer) happens before the next tick; the  *)
(* network may answer at any moment or never, and a release may be slow.   *)
(***************************************************************************)
EXTENDS Naturals, Sequences

CONSTANTS
  Instances,
  Canaries,        \* instances that never sign
  Calls,           \* invocations of resolve() or refund()
  Home,            \* the instance that makes the call
  Questions,
  Target,          \* the question it settles
  Urls,            \* configured RPC endpoints, tried in order
  AttemptTimeout,  \* ticks an attempt is waited for
  Backoff,         \* ticks between the two attempts at an endpoint
  LeaseTtl,        \* ticks a lease lasts
  LockWait,        \* ticks a call waits for the lease
  Anyone,          \* whoever calls refund_timeout() of the contract
  Mortal,          \* bound: the instances that may die
  None

ASSUME HomeAssumption == Home \in [Calls -> Instances] /\ Canaries \cup Mortal \subseteq Instances
ASSUME TargetAssumption == Target \in [Calls -> Questions]
ASSUME NoneAssumption == None \notin Calls /\ None # Anyone /\ {None, Anyone} \cap (Calls \X (1..Urls) \X (1..2)) = {}
ASSUME TimesAssumption ==
  /\ Urls \in Nat \ {0} /\ AttemptTimeout \in Nat \ {0}
  /\ {Backoff, LeaseTtl, LockWait} \subseteq Nat

\* Ticks one endpoint can take, and what config.js asks of the TTL: that it outlast a
\* whole call.  The defaults (60 s, 10 s, 0.3 s) satisfy it for one and two endpoints.
UrlBudget == AttemptTimeout + Backoff + AttemptTimeout
ASSUME LeaseOutlastsCall == LeaseTtl > Urls * UrlBudget

Attempts == Calls \X (1..Urls) \X (1..2)

VARIABLES
  up,         \* instances running
  queue,      \* calls enqueued and not finished, per instance
  phase,      \* where a call is
  url, try,   \* the endpoint it is at, and the attempt there
  timer,      \* ticks it still waits in this phase
  outcome,    \* how it ends
  leaseOwner, \* whose token the store holds...
  leaseLeft,  \* ...and for how long
  pc,         \* what an attempt waits for
  seq,        \* the sequence number it builds its transaction with
  adrift,     \* attempts given up although they or their transactions live on
  tx,         \* the transaction of an attempt, on the network
  ledgerSeq,  \* sequence number of the platform account
  settledBy   \* the attempt that settled a question, or Anyone

callVars  == <<phase, url, try, timer, outcome>>
leaseVars == <<leaseOwner, leaseLeft>>
chainVars == <<ledgerSeq, settledBy>>
vars == <<up, queue, phase, url, try, timer, outcome, leaseOwner, leaseLeft,
          pc, seq, adrift, tx, ledgerSeq, settledBy>>

Signing(c) == phase[c] \in {"attempt", "backoff"}
Current(a) == phase[a[1]] = "attempt" /\ url[a[1]] = a[2] /\ try[a[1]] = a[3]
Running(a) == pc[a] # "over" /\ (Current(a) \/ a \in adrift)

CallTypes ==
  /\ phase \in [Calls -> {"new", "queued", "waiting", "attempt", "backoff",
                          "releasing", "settled", "lost"}]
  /\ url \in [Calls -> 1..Urls] /\ try \in [Calls -> 1..2]
  /\ timer \in [Calls -> Nat]

LeaseTypes == leaseOwner \in Calls \cup {None} /\ leaseLeft \in 0..LeaseTtl

TypeOK ==
  /\ CallTypes /\ LeaseTypes
  /\ up \subseteq Instances
  /\ queue \in [Instances -> Seq(Calls)]
  /\ outcome \in [Calls -> {"none", "ok", "failed"}]
  /\ pc \in [Attempts -> {"account", "submit", "poll", "over"}]
  /\ seq \in [Attempts -> Nat] /\ ledgerSeq \in Nat
  /\ adrift \subseteq Attempts
  /\ tx \in [Attempts -> {"none", "pending", "applied", "rejected"}]
  /\ settledBy \in [Questions -> Attempts \cup {None, Anyone}]

Init ==
  /\ up = Instances
  /\ queue = [i \in Instances |-> <<>>]
  /\ phase = [c \in Calls |-> "new"]
  /\ url = [c \in Calls |-> 1] /\ try = [c \in Calls |-> 1]
  /\ timer = [c \in Calls |-> 0]
  /\ outcome = [c \in Calls |-> "none"]
  /\ leaseOwner = None /\ leaseLeft = 0
  /\ pc = [a \in Attempts |-> "account"]
  /\ seq = [a \in Attempts |-> 0] /\ ledgerSeq = 0
  /\ adrift = {}
  /\ tx = [a \in Attempts |-> "none"]
  /\ settledBy = [q \in Questions |-> None]

-----------------------------------------------------------------------------
(* The serial queue and the lease *)

\* invokeAsAdmin(): the task runs once every earlier one of its instance has ended.
Enqueue(c) ==
  /\ phase[c] = "new" /\ Home[c] \in up
  /\ phase' = [phase EXCEPT ![c] = "queued"]
  /\ queue' = [queue EXCEPT ![Home[c]] = Append(@, c)]
  /\ UNCHANGED <<up, url, try, timer, outcome, leaseVars, pc, seq, adrift, tx, chainVars>>

\* The locals of a call go with it.
Forget(gone) ==
  /\ url' = [c \in Calls |-> IF c \in gone THEN 1 ELSE url[c]]
  /\ try' = [c \in Calls |-> IF c \in gone THEN 1 ELSE try[c]]
  /\ timer' = [c \in Calls |-> IF c \in gone THEN 0 ELSE timer[c]]

\* Mutant: the rejection of a task stays in the chain.
LeavePoisoned(c) ==
  /\ phase' = [phase EXCEPT ![c] = "settled"]
  /\ queue' = [queue EXCEPT ![Home[c]] = IF outcome[c] = "ok" THEN Tail(@) ELSE @]
  /\ Forget({c})

\* However a call ends, the next task of its instance may start.
Leave(c) ==
  /\ phase' = [phase EXCEPT ![c] = "settled"]
  /\ queue' = [queue EXCEPT ![Home[c]] = Tail(@)]
  /\ Forget({c})

CanStart(c) == phase[c] = "queued" /\ Head(queue[Home[c]]) = c

\* signerLock.run() on a canary refuses before it asks for the lease.
RefuseCanary(c) ==
  /\ CanStart(c) /\ Home[c] \in Canaries
  /\ Leave(c)
  /\ outcome' = [outcome EXCEPT ![c] = "failed"]
  /\ UNCHANGED <<up, leaseVars, pc, seq, adrift, tx, chainVars>>

Start(c) ==
  /\ CanStart(c) /\ Home[c] \notin Canaries
  /\ phase' = [phase EXCEPT ![c] = "waiting"]
  /\ timer' = [timer EXCEPT ![c] = LockWait]
  /\ UNCHANGED <<up, queue, url, try, outcome, leaseVars, pc, seq, adrift, tx, chainVars>>

\* An attempt begins with getAccount(); its pc is "account" from the beginning.
Begin(c, u, t) ==
  /\ phase' = [phase EXCEPT ![c] = "attempt"]
  /\ timer' = [timer EXCEPT ![c] = AttemptTimeout]
  /\ url' = [url EXCEPT ![c] = u]
  /\ try' = [try EXCEPT ![c] = t]

\* Mutant: SET without NX.
AcquireRegardless(c) ==
  /\ phase[c] = "waiting"
  /\ leaseOwner' = c /\ leaseLeft' = LeaseTtl
  /\ Begin(c, 1, 1)
  /\ UNCHANGED <<up, queue, outcome, pc, seq, adrift, tx, chainVars>>

\* setNX finds no lease.
Acquire(c) ==
  /\ phase[c] = "waiting" /\ leaseOwner = None
  /\ leaseOwner' = c /\ leaseLeft' = LeaseTtl
  /\ Begin(c, 1, 1)
  /\ UNCHANGED <<up, queue, outcome, pc, seq, adrift, tx, chainVars>>

\* The lease is still taken at the deadline.
GiveUpWaiting(c) ==
  /\ phase[c] = "waiting" /\ timer[c] = 0 /\ leaseOwner # None
  /\ Leave(c)
  /\ outcome' = [outcome EXCEPT ![c] = "failed"]
  /\ UNCHANGED <<up, leaseVars, pc, seq, adrift, tx, chainVars>>

\* Mutant: GET left out, DEL unconditional.
DeleteLease(c) == leaseOwner' = None /\ leaseLeft' = 0

\* Compare and delete, which the store may also fail to do.
ReleaseLease(c) ==
  \/ leaseOwner = c /\ leaseOwner' = None /\ leaseLeft' = 0
  \/ UNCHANGED leaseVars

\* The finally of run(): the call is over whatever becomes of the release.
Release(c) ==
  /\ phase[c] = "releasing"
  /\ ReleaseLease(c)
  /\ Leave(c)
  /\ UNCHANGED <<up, outcome, pc, seq, adrift, tx, chainVars>>

-----------------------------------------------------------------------------
(* Attempts, retries and failover *)

Retries(c, retryable) == try[c] = 1 /\ retryable

\* Mutant: one endpoint too many.
HasUrlOffByOne(c) == url[c] <= Urls
HasUrl(c) == url[c] < Urls

Finish(c, o) ==
  /\ phase' = [phase EXCEPT ![c] = "releasing"]
  /\ outcome' = [outcome EXCEPT ![c] = o]
  /\ UNCHANGED <<url, try, timer>>

\* What withRetry() and withServerFailover() make of a failed attempt.
Advance(c, retryable) ==
  \/ /\ Retries(c, retryable)
     /\ phase' = [phase EXCEPT ![c] = "backoff"]
     /\ timer' = [timer EXCEPT ![c] = Backoff]
     /\ UNCHANGED <<url, try, outcome>>
  \/ /\ ~Retries(c, retryable) /\ HasUrl(c)
     /\ Begin(c, url[c] + 1, 1)
     /\ UNCHANGED outcome
  \/ ~Retries(c, retryable) /\ ~HasUrl(c) /\ Finish(c, "failed")

\* withTimeout() rejects; the attempt does not look at its abort signal.
TimeOut(c) ==
  /\ phase[c] = "attempt" /\ timer[c] = 0
  /\ adrift' = adrift \cup {<<c, url[c], try[c]>>}
  /\ Advance(c, TRUE)
  /\ UNCHANGED <<up, queue, leaseVars, pc, seq, tx, chainVars>>

BackoffOver(c) ==
  /\ phase[c] = "backoff" /\ timer[c] = 0
  /\ Begin(c, url[c], 2)
  /\ UNCHANGED <<up, queue, outcome, leaseVars, pc, seq, adrift, tx, chainVars>>

\* getAccount() answers and the transaction is built.
GetAccount(a) ==
  /\ Running(a) /\ pc[a] = "account"
  /\ pc' = [pc EXCEPT ![a] = "submit"]
  /\ seq' = [seq EXCEPT ![a] = ledgerSeq + 1]
  /\ UNCHANGED <<up, queue, callVars, leaseVars, adrift, tx, chainVars>>

\* prepareTransaction() succeeds while the question is open, and sendTransaction() with
\* the next sequence number of the account.  (A submission answered TRY_AGAIN_LATER is
\* polled for too: like one that expires, it is pending and never lands.)
Submit(a) ==
  /\ Running(a) /\ pc[a] = "submit"
  /\ settledBy[Target[a[1]]] = None /\ seq[a] = ledgerSeq + 1
  /\ tx' = [tx EXCEPT ![a] = "pending"]
  /\ pc' = [pc EXCEPT ![a] = "poll"]
  /\ UNCHANGED <<up, queue, callVars, leaseVars, seq, adrift, chainVars>>

\* Mutant: any verdict ends the polling well.
PollAnyVerdict(a) ==
  /\ Current(a) /\ pc[a] = "poll" /\ tx[a] \in {"applied", "rejected"}
  /\ pc' = [pc EXCEPT ![a] = "over"]
  /\ Finish(a[1], "ok")
  /\ UNCHANGED <<up, queue, leaseVars, seq, adrift, tx, chainVars>>

\* The network confirms.  (What an attempt given up is told, nobody hears.)
Poll(a) ==
  /\ Current(a) /\ pc[a] = "poll" /\ tx[a] = "applied"
  /\ pc' = [pc EXCEPT ![a] = "over"]
  /\ Finish(a[1], "ok")
  /\ UNCHANGED <<up, queue, leaseVars, seq, adrift, tx, chainVars>>

\* Any step of an attempt may fail: no connection, a refused simulation or submission,
\* a poll that finds nothing, or a failed transaction.  A transaction nobody polls for
\* any more may still be pending.
AttemptFails(a) ==
  /\ Current(a) /\ pc[a] # "over"
  /\ pc' = [pc EXCEPT ![a] = "over"]
  /\ adrift' = IF tx[a] = "pending" THEN adrift \cup {a} ELSE adrift
  /\ \E retryable \in BOOLEAN : Advance(a[1], retryable)
  /\ UNCHANGED <<up, queue, leaseVars, seq, tx, chainVars>>

-----------------------------------------------------------------------------
(* The network, the clock, and the end of an instance *)

\* The contract settles an open question and refuses any other; either way the
\* transaction uses up its sequence number.
Land(a) ==
  /\ tx[a] = "pending" /\ seq[a] = ledgerSeq + 1
  /\ ledgerSeq' = ledgerSeq + 1
  /\ \/ /\ settledBy[Target[a[1]]] = None
        /\ tx' = [tx EXCEPT ![a] = "applied"]
        /\ settledBy' = [settledBy EXCEPT ![Target[a[1]]] = a]
     \/ /\ settledBy[Target[a[1]]] # None
        /\ tx' = [tx EXCEPT ![a] = "rejected"]
        /\ UNCHANGED settledBy
  /\ UNCHANGED <<up, queue, callVars, leaseVars, pc, seq, adrift>>

\* The escape hatch of the contract needs no platform key.
RefundTimeout(q) ==
  /\ settledBy[q] = None
  /\ settledBy' = [settledBy EXCEPT ![q] = Anyone]
  /\ UNCHANGED <<up, queue, callVars, leaseVars, pc, seq, adrift, tx, ledgerSeq>>

Timed(c) == phase[c] \in {"waiting", "attempt", "backoff"}

\* Nothing the program does at once is left to do.
Quiet ==
  \A c \in Calls :
    /\ ~CanStart(c)
    /\ Timed(c) => timer[c] > 0
    /\ phase[c] = "waiting" => leaseOwner # None

RunTimers == timer' = [c \in Calls |-> IF Timed(c) THEN timer[c] - 1 ELSE timer[c]]

\* Mutant: a lease without a TTL.
TickForever ==
  /\ Quiet /\ (leaseOwner # None \/ \E c \in Calls : Timed(c))
  /\ RunTimers
  /\ UNCHANGED <<up, queue, phase, url, try, outcome, leaseVars, pc, seq, adrift, tx, chainVars>>

Tick ==
  /\ Quiet /\ (leaseOwner # None \/ \E c \in Calls : Timed(c))
  /\ RunTimers
  /\ leaseOwner' = IF leaseLeft <= 1 THEN None ELSE leaseOwner
  /\ leaseLeft' = IF leaseLeft <= 1 THEN 0 ELSE leaseLeft - 1
  /\ UNCHANGED <<up, queue, phase, url, try, outcome, pc, seq, adrift, tx, chainVars>>

\* The process dies with its queue and its attempts.  Its lease stays, and so does
\* what it submitted.  (A process started in its place is another instance.)
Crash(i) ==
  /\ i \in up \cap Mortal
  /\ up' = up \ {i}
  /\ queue' = [queue EXCEPT ![i] = <<>>]
  /\ LET gone == {c \in Calls : Home[c] = i /\ phase[c] \notin {"new", "settled"}}
     IN  phase' = [c \in Calls |-> IF c \in gone THEN "lost" ELSE phase[c]] /\ Forget(gone)
  /\ pc' = [a \in Attempts |-> IF Home[a[1]] = i THEN "over" ELSE pc[a]]
  /\ adrift' = adrift \cup {a \in Attempts : Home[a[1]] = i /\ tx[a] = "pending"}
  /\ UNCHANGED <<outcome, leaseVars, seq, tx, chainVars>>

-----------------------------------------------------------------------------
CallStep(c) ==
  \/ Enqueue(c) \/ RefuseCanary(c) \/ Start(c) \/ Acquire(c) \/ GiveUpWaiting(c)
  \/ Release(c) \/ TimeOut(c) \/ BackoffOver(c)

AttemptStep(a) ==
  \/ GetAccount(a) \/ Submit(a) \/ Poll(a) \/ AttemptFails(a) \/ Land(a)

Next ==
  \/ \E c \in Calls : CallStep(c)
  \/ \E a \in Attempts : AttemptStep(a)
  \/ \E q \in Questions : RefundTimeout(q)
  \/ \E i \in Instances : Crash(i)
  \/ Tick

Spec == Init /\ [][Next]_vars

\* Timers fire and the store answers; the network owes nothing to an attempt.
Program ==
  \/ \E c \in Calls :
       \/ RefuseCanary(c) \/ Start(c) \/ Acquire(c) \/ GiveUpWaiting(c)
       \/ Release(c) \/ TimeOut(c) \/ BackoffOver(c)
  \/ Tick

Fairness == WF_vars(Program)

FairSpec == Spec /\ Fairness

-----------------------------------------------------------------------------
(* Properties *)

\* No two calls are between acquiring and releasing the lease at once, whatever is
\* retried, crashes, or releases late (config.js: the lock around every platform-key
\* transaction and its TTL).
OneSigner == \A c, d \in Calls : Signing(c) /\ Signing(d) => c = d

\* The ticks a signing call may still take: this attempt, the retry if it has one left,
\* and the endpoints not tried yet.
Later(u) == (Urls - u) * UrlBudget
Remaining(c) ==
  timer[c] + Later(url[c])
  + (IF try[c] = 2 THEN 0
     ELSE IF phase[c] = "attempt" THEN Backoff + AttemptTimeout ELSE AttemptTimeout)

\* Why there is one signer: a signing call owns the lease, and the lease outlasts all
\* that the call may still do, at every step of its retries and failovers.
LeaseCovers(c) == leaseOwner = c /\ Remaining(c) < leaseLeft
SignerInv ==
  /\ CallTypes /\ LeaseTypes
  /\ \A c \in Calls : phase[c] = "backoff" => try[c] = 1
  /\ \A c \in Calls : Signing(c) => LeaseCovers(c)

\* Two submitted transactions have one sequence number only if one of them belongs to
\* an attempt somebody stopped waiting for: retries, failovers and calls that wait for
\* their attempts never race for the number (stellarClient.js: withServerFailover() and
\* createSerialQueue()).
SharedSequenceIsAdrift ==
  \A a, b \in Attempts :
    a # b /\ tx[a] # "none" /\ tx[b] # "none" /\ seq[a] = seq[b] => {a, b} \cap adrift # {}

\* A call reports success only when one of its own attempts settled the question: of a
\* resolve() and a refund() that race for it, their late duplicates, and a stranger's
\* refund_timeout(), one succeeds (stellarClient.js: a double-send fails harmlessly).
SuccessIsOwnSettlement ==
  \A c \in Calls : outcome[c] = "ok" =>
    settledBy[Target[c]] \in {a \in Attempts : a[1] = c}

\* Every enqueued call ends and the lease is free again, although the network may never
\* answer, other calls fail first, and a lease may be lost with its owner or not given
\* back (createSerialQueue(): one failed call can't poison every subsequent call; run():
\* a failed release just waits out the TTL).
AtRest ==
  /\ \A c \in Calls : phase[c] \in {"new", "settled", "lost"}
  /\ leaseOwner = None
ComesToRest == <>[]AtRest
=============================================================================
