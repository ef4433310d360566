------------------------------- MODULE Windows -------------------------------
(***************************************************************************)
(* Maintenance windows (maintenanceWindows.js): one stored list that       *)
(* requests read, change and write back, and the pause it stands for.      *)
(* The list is kept as a set: its order is only the order of insertion.    *)
(***************************************************************************)
EXTENDS Integers, Sequences, SequencesExt, FiniteSets

CONSTANTS Requests,
          MaxTime,      \* bound: instants are 0..MaxTime
          MaxWindows,   \* MAX_WINDOWS
          MaxLength,    \* MAX_WINDOW_MS
          Retention,    \* EXPIRED_RETENTION_MS
          None

WindowsAssumption == MaxTime \in Nat /\ MaxWindows \in Nat /\ Retention \in Nat

VARIABLES windows, now,
          req           \* what a request adds or drops, then the list it will write

vars == <<windows, now, req>>

Instants == 0..MaxTime
Window == [id : Requests, startsAt : Instants, endsAt : Instants]

\* parseWindowInput()
Acceptable(start, end) == start < end /\ now < end /\ end - start <= MaxLength

ActiveAt(ws, t) == {w \in ws : w.startsAt <= t /\ t < w.endsAt}
LatestEnd(ws) == (CHOOSE w \in ws : \A v \in ws : v.endsAt <= w.endsAt).endsAt

\* computePause(): windows that overlap or touch are one pause.  Past the
\* first window that starts after the end so far, nothing extends it.
ComputePause(ws, t) ==
  IF ActiveAt(ws, t) = {} THEN None
  ELSE [resumesAt |-> FoldLeft(LAMBDA end, w : IF w.startsAt > end \/ w.endsAt <= end THEN end ELSE w.endsAt,
          LatestEnd(ActiveAt(ws, t)), SetToSortSeq(ws, LAMBDA v, w : v.startsAt < w.startsAt))]

\* prune(), for a call made at time t
Prune(ws, t) == {w \in ws : w.endsAt > t - Retention}

----------------------------------------------------------------------------
Idle == [at |-> "idle"]
Init == windows = {} /\ now = 0 /\ req = [r \in Requests |-> Idle]

\* A call takes the time once, when it begins.
Call(r, adds, drops) ==
  /\ req[r] = Idle
  /\ req' = [req EXCEPT ![r] = [at |-> "read", adds |-> adds, drops |-> drops, now |-> now]]
  /\ UNCHANGED <<windows, now>>

AddWindow(r, start, end) ==
  Acceptable(start, end) /\ Call(r, {[id |-> r, startsAt |-> start, endsAt |-> end]}, None)

RemoveWindow(r, i) == Call(r, {}, i)

\* readWindows().  Whether there is room, and whether there is such a window,
\* is answered from the list that was read; so is what will be written.
Read(r) ==
  LET c == req[r]
      kept == {w \in windows : w.id # c.drops}
      refused == IF c.adds = {} THEN kept = windows
                 ELSE Cardinality(Prune(windows, c.now)) >= MaxWindows
  IN /\ c.at = "read"
     /\ req' = [req EXCEPT ![r] = IF refused THEN [at |-> "done"]
                  ELSE [at |-> "write", next |-> Prune(kept, c.now) \cup c.adds]]
     /\ UNCHANGED <<windows, now>>

Write(r) ==
  /\ req[r].at = "write"
  /\ windows' = req[r].next
  /\ req' = [req EXCEPT ![r] = [at |-> "done"]]
  /\ UNCHANGED now

Tick == now < MaxTime /\ now' = now + 1 /\ UNCHANGED <<windows, req>>

Next == \/ Tick
        \/ \E r \in Requests : \/ Read(r) \/ Write(r)
                               \/ \E i \in Requests : RemoveWindow(r, i)
                               \/ \E s, e \in Instants : AddWindow(r, s, e)

Spec == Init /\ [][Next]_vars

----------------------------------------------------------------------------
\* However the requests interleave, there are never more windows than may be.
TypeOK == windows \subseteq Window /\ now \in Instants /\ Cardinality(windows) <= MaxWindows

\* The inductive invariant: nor in any list that is about to be written.
Bounded(ws) == ws \subseteq Window /\ IsFiniteSet(ws) /\ Cardinality(ws) <= MaxWindows
WindowsInv ==
  /\ now \in Instants /\ Bounded(windows)
  /\ \A r \in Requests : /\ req[r].at = "read" => req[r].adds = {} \/ \E w \in Window : req[r].adds = {w}
                         /\ req[r].at = "write" => Bounded(req[r].next)

\* The pause that callers are told ends when dispatch really resumes: every
\* instant until then lies in a window, the end lies in none.
PauseIsTheUnion ==
  LET pause == ComputePause(windows, now)
  IN IF pause = None THEN ActiveAt(windows, now) = {}
     ELSE /\ ActiveAt(windows, pause.resumesAt) = {}
          /\ \A t \in now..(pause.resumesAt - 1) : ActiveAt(windows, t) # {}
=============================================================================
