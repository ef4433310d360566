-------------------------------- MODULE Supply --------------------------------
(***************************************************************************)
(* Who is online, and who of them is asked (dispatch.js): the workers of   *)
(* each instance, the presence hash they share in Redis, the samples that  *)
(* surge pricing averages, and selectTargets(), which asks the store about *)
(* one worker after the other while workers come, go and change standing.  *)
(***************************************************************************)
EXTENDS Integers, Sequences, FiniteSets, FiniteSetsExt

CONSTANTS Workers, Instances, Categories,
          MaxConns,     \* how many SSE connections are opened, by topic
          MaxChanges,   \* bound on changes of a worker's standing
          SupplyWindow, \* SUPPLY_WINDOW_SAMPLES
          Quorum, None

Connections == [worker : Workers, at : Instances, open : BOOLEAN]
SupplyAssumption == /\ {SupplyWindow, Quorum} \subseteq Nat \ {0} /\ IsFiniteSet(Workers)
                    /\ None \notin Connections /\ \A s \in SUBSET Categories : s # None

VARIABLES topic,      \* what is exercised: presence, routing or supply
          conn,       \* [worker, at, open] of an SSE connection, or None
          workers,    \* of each instance: a worker's categories, or None
          queue,      \* commands an instance has sent and Redis not yet run
          presence,   \* the shared hash: a worker's categories, or None
          seen,       \* the workers at each sample of an instance
          standing,   \* [rep, suspended] of a worker
          changes,    \* of standing, counted
          task,       \* a selectTargets() under way
          overlapped, \* workers of whom two connections overlapped, history
          orphaned    \* workers whose instance crashed, history

vars == <<topic, conn, workers, queue, presence, seen, standing, changes, task, overlapped, orphaned>>
presenceVars == <<queue, presence, overlapped, orphaned>>
routingVars == <<standing, changes, task>>

Conns == 1..MaxConns[topic]
Online(i) == {w \in Workers : workers[i][w] # None}
Pending(w) == {i \in Instances : \E n \in DOMAIN queue[i] : queue[i][n].worker = w}
OpenOf(w) == {c \in Conns : conn[c] # None /\ conn[c].open /\ conn[c].worker = w}
NoTask == [at |-> "idle", todo |-> {}, whitelist |-> {}, prefer |-> FALSE, candidates |-> {}, asked |-> None,
           kept |-> {}, pool |-> {}, targets |-> {}, fine |-> {}, barred |-> {}, poor |-> {}, known |-> {}]

Init == /\ topic \in {"presence", "routing", "supply"}
        /\ conn = [c \in Conns |-> None] /\ workers = [i \in Instances |-> [w \in Workers |-> None]]
        /\ queue = [i \in Instances |-> <<>>] /\ presence = [w \in Workers |-> None]
        /\ seen = [i \in Instances |-> <<>>]
        /\ standing = [w \in Workers |-> [rep |-> "new", suspended |-> FALSE]] /\ changes = 0
        /\ task = NoTask /\ overlapped = {} /\ orphaned = {}

----------------------------------------------------------------------------
\* writePresence() and the hdel of unregisterWorker(): an instance's commands
\* run in the order it sends them.
Send(i, w, categories) ==
  queue' = IF topic = "presence" THEN [queue EXCEPT ![i] = Append(@, [worker |-> w, put |-> categories])] ELSE queue

\* registerWorker(): by worker, so a second connection replaces the first.
RegisterWorker(i, w, c, categories) ==
  /\ conn[c] = None /\ \A b \in Conns : b < c => conn[b] # None
  /\ conn' = [conn EXCEPT ![c] = [worker |-> w, at |-> i, open |-> TRUE]]
  /\ workers' = [workers EXCEPT ![i][w] = categories]
  /\ Send(i, w, categories)
  /\ overlapped' = IF OpenOf(w) # {} \/ Pending(w) \ {i} # {} THEN overlapped \cup {w} ELSE overlapped
  /\ UNCHANGED <<topic, presence, seen, routingVars, orphaned>>

\* The close event of a connection, whichever connection registered last.
UnregisterWorker(c) ==
  /\ conn[c] # None /\ conn[c].open
  /\ conn' = [conn EXCEPT ![c].open = FALSE]
  /\ workers' = [workers EXCEPT ![conn[c].at][conn[c].worker] = None]
  /\ Send(conn[c].at, conn[c].worker, None)
  /\ UNCHANGED <<topic, presence, seen, routingVars, overlapped, orphaned>>

\* Redis runs a command: hset or hdel of the hash.  The expiry that follows an
\* hset is given to another key, so an entry of the hash never expires.
RunCommand(i) ==
  /\ queue[i] # <<>>
  /\ presence' = [presence EXCEPT ![Head(queue[i]).worker] = Head(queue[i]).put]
  /\ queue' = [queue EXCEPT ![i] = Tail(@)]
  /\ UNCHANGED <<topic, conn, workers, seen, routingVars, overlapped, orphaned>>

Crash(i) ==
  /\ topic # "routing" /\ Online(i) # {}
  /\ conn' = [c \in Conns |-> IF conn[c] # None /\ conn[c].at = i THEN [conn[c] EXCEPT !.open = FALSE] ELSE conn[c]]
  /\ workers' = [workers EXCEPT ![i] = [w \in Workers |-> None]]
  /\ queue' = [queue EXCEPT ![i] = <<>>] /\ seen' = [seen EXCEPT ![i] = <<>>]
  /\ orphaned' = orphaned \cup Online(i) \cup {w \in Workers : i \in Pending(w)}
  /\ UNCHANGED <<topic, presence, routingVars, overlapped>>

\* readPresence(): the hash, or this instance's workers without Redis.
ReadPresence(i, redis) == IF redis THEN {w \in Workers : presence[w] # None} ELSE Online(i)

----------------------------------------------------------------------------
\* The sampler of each instance, and computeSmoothedCount() of its samples.
SampleSupply(i) ==
  /\ topic = "supply"
  /\ seen' = [seen EXCEPT ![i] = IF Len(@) = SupplyWindow THEN Append(Tail(@), Online(i)) ELSE Append(@, Online(i))]
  /\ UNCHANGED <<topic, conn, workers, presenceVars, routingVars>>

Samples(i) == [n \in DOMAIN seen[i] |-> Cardinality(seen[i][n])]
ComputeSmoothedCount(samples, current) ==
  LET sum == MapThenSumSet(LAMBDA n : samples[n], DOMAIN samples)
  IN IF samples = <<>> THEN current ELSE (2 * sum + Len(samples)) \div (2 * Len(samples))
Smoothed(i) == ComputeSmoothedCount(Samples(i), Cardinality(Online(i)))

----------------------------------------------------------------------------
\* isEligible() reads the suspension, then the reputation; nothing fills the
\* cache of stakes, so the gate on stake lets everyone pass.
Poor(w) == standing[w].rep = "poor"
IsEstablished(w) == standing[w].rep # "new"

\* A settlement or an operator changes a worker's standing meanwhile.
ChangeStanding(w, rep, suspended) ==
  LET new == [rep |-> rep, suspended |-> suspended]
  IN /\ topic = "routing" /\ changes < MaxChanges /\ new # standing[w]
     /\ (rep = "new" => standing[w].rep = "new") /\ (rep = standing[w].rep \/ suspended = standing[w].suspended)
     /\ standing' = [standing EXCEPT ![w] = new] /\ changes' = changes + 1
     /\ task' = [task EXCEPT !.fine   = IF suspended \/ rep = "poor" THEN @ \ {w} ELSE @,
                             !.barred = IF suspended THEN @ ELSE @ \ {w},
                             !.poor   = IF rep = "poor" THEN @ ELSE @ \ {w}]
     /\ UNCHANGED <<topic, conn, workers, presenceVars, seen>>

\* selectTargets(): who is allowed, and of them who declared the category, if
\* anyone did.
InCategory(i, w, category) == workers[i][w] = {} \/ category \in workers[i][w]
Candidates(i, category, whitelist) ==
  LET allowed == Online(i) \cap whitelist
      matching == {w \in allowed : InCategory(i, w, category)}
  IN IF category = None \/ matching = {} THEN allowed ELSE matching

SelectTargets(i, category, whitelist, prefer) ==
  LET candidates == Candidates(i, category, whitelist)
  IN /\ topic = "routing" /\ task.at = "idle"
     /\ task' = [NoTask EXCEPT !.at = IF candidates = {} THEN "done" ELSE "eligible", !.prefer = prefer,
                   !.whitelist = whitelist, !.todo = candidates, !.candidates = candidates,
                   !.fine   = {w \in Workers : ~standing[w].suspended /\ ~Poor(w)},
                   !.barred = {w \in Workers : standing[w].suspended},
                   !.poor   = {w \in Workers : Poor(w)},
                   !.known  = {w \in Workers : IsEstablished(w)}]
     /\ UNCHANGED <<topic, conn, workers, presenceVars, seen, standing, changes>>

Asks == topic = "routing" /\ UNCHANGED <<topic, conn, workers, presenceVars, seen, standing, changes>>

AskSuspended(w) ==
  /\ task.at = "eligible" /\ task.asked = None /\ w \in task.todo /\ Asks
  /\ task' = IF standing[w].suspended THEN [task EXCEPT !.todo = @ \ {w}] ELSE [task EXCEPT !.asked = w]

AskReputation ==
  /\ task.at = "eligible" /\ task.asked # None /\ Asks
  /\ task' = [task EXCEPT !.asked = None, !.todo = @ \ {task.asked},
                          !.kept = IF Poor(task.asked) THEN @ ELSE @ \cup {task.asked}]

\* Nobody eligible is no reason to ask nobody.
PoolOf(kept, candidates) == IF kept # {} THEN kept ELSE candidates
Narrow ==
  LET pool == PoolOf(task.kept, task.candidates)
  IN /\ task.at = "eligible" /\ task.todo = {} /\ task.asked = None /\ Asks
     /\ task' = IF task.prefer THEN [task EXCEPT !.at = "established", !.pool = pool, !.todo = pool, !.kept = {}]
                ELSE [task EXCEPT !.at = "done", !.targets = pool]

AskEstablished(w) ==
  /\ task.at = "established" /\ w \in task.todo /\ Asks
  /\ task' = [task EXCEPT !.todo = @ \ {w}, !.kept = IF IsEstablished(w) THEN @ \cup {w} ELSE @]

Prefer ==
  /\ task.at = "established" /\ task.todo = {} /\ Asks
  /\ task' = [task EXCEPT !.at = "done", !.targets = IF Cardinality(task.kept) >= Quorum THEN task.kept ELSE task.pool]

Next == \/ \E i \in Instances : \/ \E w \in Workers, c \in Conns, categories \in SUBSET Categories : RegisterWorker(i, w, c, categories)
                                \/ RunCommand(i) \/ Crash(i) \/ SampleSupply(i)
                                \/ /\ topic = "routing" /\ task.at = "idle"
                                   /\ \E category \in Categories \cup {None}, whitelist \in SUBSET Workers, prefer \in BOOLEAN :
                                        SelectTargets(i, category, whitelist, prefer)
        \/ \E c \in Conns : UnregisterWorker(c)
        \/ \E w \in Workers : \/ AskSuspended(w) \/ AskEstablished(w)
                              \/ \E rep \in {"new", "trusted", "poor"}, s \in BOOLEAN : ChangeStanding(w, rep, s)
        \/ AskReputation \/ Narrow \/ Prefer

Spec == Init /\ [][Next]_vars

----------------------------------------------------------------------------
\* Once Redis has run what concerns a worker, the fleet is seen as it is, but
\* for workers whose connections overlapped or whose instance died: those can
\* stay in the hash for good, or be missing from it while they are connected.
PresenceAgrees ==
  topic = "presence" =>
    \A w \in Workers \ overlapped, i \in Instances : Pending(w) = {} =>
      LET online == \E j \in Instances : w \in Online(j)
      IN /\ online => w \in ReadPresence(i, TRUE)
         /\ w \in ReadPresence(i, TRUE) \ orphaned => online

\* The supply that prices are made of counts whoever was there at every sample
\* of the window, and nobody who was there at none.
SupplyIsAveraged ==
  \A i \in Instances : seen[i] # <<>> =>
    LET at == {seen[i][n] : n \in DOMAIN seen[i]}
    IN Smoothed(i) \in Cardinality({w \in Workers : \A s \in at : w \in s})..Cardinality(UNION at)

\* Whatever changes while the workers are asked about: an allowed worker online
\* means somebody is asked, nobody outside the pool is, a worker suspended or
\* of poor record throughout is asked only if none was fine throughout, and a
\* question that prefers known workers goes to no new one if enough were known.
RoutingHolds ==
  task.at = "done" =>
    /\ task.targets \subseteq task.whitelist /\ (task.targets = {} <=> task.candidates = {})
    /\ task.candidates \cap task.fine # {} => task.targets \cap (task.barred \cup task.poor) = {}
    /\ task.prefer /\ Cardinality(task.candidates \cap task.fine \cap task.known) >= Quorum
         => \A w \in task.targets : IsEstablished(w)

\* The inductive invariants.  Of a worker whose connections never overlapped, one
\* instance at most has commands to run, the last of which says what it knows.
Sets == (SUBSET Categories) \cup {None}
Commands == [worker : Workers, put : Sets]
TypeOK == /\ topic \in {"presence", "routing", "supply"} /\ conn \in [Conns -> Connections \cup {None}]
          /\ workers \in [Instances -> [Workers -> Sets]] /\ presence \in [Workers -> Sets]
          /\ queue \in [Instances -> Seq(Commands)]
          /\ standing \in [Workers -> [rep : {"new", "trusted", "poor"}, suspended : BOOLEAN]]

LastOf(w, i, n) == queue[i][n].worker = w /\ \A m \in DOMAIN queue[i] : m > n => queue[i][m].worker # w
Connected(w) == \E j \in Instances : w \in Online(j)
Tracked(w) ==
  /\ \A c, d \in OpenOf(w) : c = d
  /\ \A i \in Instances : w \in Online(i) <=> \E c \in OpenOf(w) : conn[c].at = i
  /\ \A i \in Pending(w), j \in Instances : j \in Pending(w) \/ w \in Online(j) => i = j
  /\ \A i \in Instances : \A n \in DOMAIN queue[i] : LastOf(w, i, n) => queue[i][n].put = workers[i][w]
  /\ Pending(w) = {} => /\ Connected(w) => presence[w] # None
                        /\ presence[w] # None /\ w \notin orphaned => Connected(w)
PresenceInv == TypeOK /\ (topic = "presence" => \A w \in Workers \ overlapped : Tracked(w))

\* What is remembered of the workers' standing is so still; nobody fine is passed over,
\* and nobody suspended or poor gets through.
Remembered ==
  /\ UNION {task.todo, task.candidates, task.kept, task.pool, task.targets, task.fine, task.barred, task.poor, task.known}
       \subseteq Workers
  /\ \A w \in task.fine : ~standing[w].suspended /\ ~Poor(w)
  /\ \A w \in task.barred : standing[w].suspended
  /\ \A w \in task.poor : Poor(w)
  /\ \A w \in task.known : IsEstablished(w)
RoutingInv ==
  /\ TypeOK /\ DOMAIN task = DOMAIN NoTask /\ Remembered /\ task.candidates \subseteq task.whitelist
  /\ task.at \in {"idle", "eligible", "established", "done"}
  /\ task.at = "eligible" =>
       /\ task.candidates # {} /\ task.todo \cup task.kept \subseteq task.candidates
       /\ task.asked # None => task.asked \in task.candidates \ task.barred
       /\ task.candidates \cap task.fine \subseteq task.todo \cup task.kept
       /\ task.kept \cap (task.barred \cup task.poor) = {}
  /\ task.at = "established" =>
       /\ task.prefer /\ task.pool # {} /\ task.pool \subseteq task.candidates
       /\ task.kept \cup task.todo \subseteq task.pool /\ \A w \in task.kept : IsEstablished(w)
       /\ task.candidates \cap task.fine # {} => task.pool \cap (task.barred \cup task.poor) = {}
       /\ task.candidates \cap task.fine \subseteq task.pool
       /\ task.candidates \cap task.fine \cap task.known \subseteq task.todo \cup task.kept
  /\ RoutingHolds
=============================================================================
