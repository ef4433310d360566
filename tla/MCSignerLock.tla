----------------------------- MODULE MCSignerLock -----------------------------
(***************************************************************************)
(* Two primaries that settle one question, as after a takeover of its job, *)
(* and a canary with two calls in its queue.                               *)
(***************************************************************************)
EXTENDS SignerLock, TLC

CONSTANTS p1, p2, canary, c1, c2, c3, c4, q1

CallsAtHome == (c1 :> p1) @@ (c2 :> p2) @@ (c3 :> canary) @@ (c4 :> canary)
CallTargets == (c1 :> q1) @@ (c2 :> q1) @@ (c3 :> q1) @@ (c4 :> q1)

\* The first primary and the canary have their calls in their queues already.
BusyInit ==
  /\ up = Instances
  /\ queue = (p1 :> <<c1>>) @@ (p2 :> <<>>) @@ (canary :> <<c3, c4>>)
  /\ phase = [c \in Calls |-> IF c = c2 THEN "new" ELSE "queued"]
  /\ url = [c \in Calls |-> 1] /\ try = [c \in Calls |-> 1]
  /\ timer = [c \in Calls |-> 0]
  /\ outcome = [c \in Calls |-> "none"]
  /\ leaseOwner = None /\ leaseLeft = 0
  /\ pc = [a \in Attempts |-> "account"]
  /\ seq = [a \in Attempts |-> 0] /\ ledgerSeq = 0
  /\ adrift = {}
  /\ tx = [a \in Attempts |-> "none"]
  /\ settledBy = [q \in Questions |-> None]

BusySpec == BusyInit /\ [][Next]_vars
BusyFair == BusySpec /\ Fairness
=============================================================================
