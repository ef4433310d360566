-------------------------------- MODULE Stores --------------------------------
(***************************************************************************)
(* MemoryStore and RedisStore (store.js) put through the same calls, with  *)
(* what is built on them: the request limits and the cost cap of           *)
(* rateLimit.js, and the reads of replicaStore.js.  A command is atomic in *)
(* both, but Redis needs a second one to give a counter its expiry.        *)
(***************************************************************************)
EXTENDS Integers, FiniteSets

CONSTANTS Clients,       \* instances, each with a connection to Redis
          MaxTime, Ttl,  \* bound on the clock; the window of every limit
          MaxHits,       \* bound on a counter
          Limit,         \* requests a window admits
          Budget, Cost,  \* budgetCents(), and what one call is estimated at
          Fields,        \* of the hash
          RetryAfter, None

VARIABLES topic,         \* the calls exercised: different keys do not interact
          now,
          mem, redis,    \* the value and expiry under each key, in each store
          pending,       \* the key a client has still to give its expiry
          orphaned,      \* keys that will never get theirs
          admitted,      \* when each store's limiter admitted, history
          reserved,      \* reservations each store granted in a budget bucket, history
          downUntil, from  \* replica reads: skipped until, answered by

vars == <<topic, now, mem, redis, pending, orphaned, admitted, reserved, downUntil, from>>
limits == <<admitted, reserved>>
replica == <<downUntil, from>>

Never == MaxTime + Ttl + 1
Buckets == 0..(MaxTime \div Ttl)
Topics == {"requests", "budget", "lock", "credit", "answers", "replica"}
Bucket(b) == <<"budget", b>>
Requests == <<"requests", 0>>
Keys == {<<t, 0>> : t \in Topics} \cup {Bucket(b) : b \in Buckets}
Counters == [value : Nat, expires : Int]
StoresAssumption == /\ Ttl \in Nat \ {0} /\ {Limit, Budget, Cost, RetryAfter, MaxTime} \subseteq Nat
                    /\ None \notin Counters \cup Keys

Live(e) == e # None /\ e.expires >= now
Count(store, k) == IF Live(store[k]) THEN store[k].value ELSE 0
Entry(value, expires) == [value |-> value, expires |-> expires]

MutantMemoryIncr(k) == [mem EXCEPT ![k] = Entry(Count(mem, k) + 1, IF Live(mem[k]) THEN mem[k].expires ELSE now + Ttl - 1)]
\* MemoryStore.incr() renews the expiry; RedisStore.incr() leaves it to be set
\* by whoever made the key.
MemoryIncr(k) == [mem EXCEPT ![k] = Entry(Count(mem, k) + 1, now + Ttl)]
RedisIncr(k) == [redis EXCEPT ![k] = Entry(Count(redis, k) + 1, IF Live(redis[k]) THEN redis[k].expires ELSE Never)]
ToExpire(c, k) == IF Live(redis[k]) THEN pending ELSE [pending EXCEPT ![c] = k]

----------------------------------------------------------------------------
Init == /\ topic \in Topics /\ now = 0 /\ mem = [k \in Keys |-> None] /\ redis = mem
        /\ pending = [c \in Clients |-> None] /\ orphaned = {}
        /\ admitted = [memory |-> {}, redis |-> {}]
        /\ reserved = [memory |-> [b \in Buckets |-> 0], redis |-> [b \in Buckets |-> 0]]
        /\ downUntil = 0 /\ from = None

\* checkRateLimit(): by both stores, the n-th admission kept with its time.
CheckRateLimit(c) ==
  LET k == Requests
      Admit(times, count) == IF count <= Limit THEN times \cup {<<now, Cardinality(times)>>} ELSE times
  IN /\ topic = "requests" /\ pending[c] = None /\ Count(redis, k) < MaxHits /\ Count(mem, k) < MaxHits
     /\ mem' = MemoryIncr(k) /\ redis' = RedisIncr(k) /\ pending' = ToExpire(c, k)
     /\ admitted' = [memory |-> Admit(admitted.memory, mem'[k].value),
                     redis  |-> Admit(admitted.redis, redis'[k].value)]
     /\ UNCHANGED <<topic, now, orphaned, reserved, replica>>

\* reserveClaudeBudget(): the cents are passed to incr(), which takes none.
ReserveClaudeBudget(c) ==
  LET b == now \div Ttl
      k == Bucket(b)
      Granted(n, count) == IF count <= Budget THEN [n EXCEPT ![b] = @ + 1] ELSE n
  IN /\ topic = "budget" /\ pending[c] = None /\ Count(redis, k) < MaxHits /\ Count(mem, k) < MaxHits
     /\ mem' = MemoryIncr(k) /\ redis' = RedisIncr(k) /\ pending' = ToExpire(c, k)
     /\ reserved' = [memory |-> Granted(reserved.memory, mem'[k].value),
                     redis  |-> Granted(reserved.redis, redis'[k].value)]
     /\ UNCHANGED <<topic, now, orphaned, admitted, replica>>

\* The second command of RedisStore.incr().
PExpire(c) ==
  /\ pending[c] # None
  /\ redis' = [redis EXCEPT ![pending[c]] = Entry(redis[pending[c]].value, now + Ttl)]
  /\ pending' = [pending EXCEPT ![c] = None]
  /\ UNCHANGED <<topic, now, mem, orphaned, limits, replica>>

Crash(c) == /\ pending[c] # None
            /\ orphaned' = orphaned \cup {pending[c]} /\ pending' = [pending EXCEPT ![c] = None]
            /\ UNCHANGED <<topic, now, mem, redis, limits, replica>>

\* setNX(), hsetnx(), incrBy() and decrIfAtLeast(), each by both stores.
MemorySetNX(k) == IF Live(mem[k]) THEN mem ELSE [mem EXCEPT ![k] = Entry(1, now + Ttl)]
RedisSetNX(k) == IF Live(redis[k]) THEN redis ELSE [redis EXCEPT ![k] = Entry(1, now + Ttl)]
SetNX(k) == /\ topic = "lock" /\ mem' = MemorySetNX(k) /\ redis' = RedisSetNX(k)
            /\ UNCHANGED <<topic, now, pending, orphaned, limits, replica>>

\* A new field renews the expiry of the hash in Redis only.
FieldsOf(store, k) == IF Live(store[k]) THEN store[k].value ELSE {}
MemoryHSetNX(k, f) ==
  IF f \in FieldsOf(mem, k) THEN mem
  ELSE [mem EXCEPT ![k] = Entry(FieldsOf(mem, k) \cup {f}, IF Live(@) THEN @.expires ELSE now + Ttl)]
RedisHSetNX(k, f) ==
  IF f \in FieldsOf(redis, k) THEN redis ELSE [redis EXCEPT ![k] = Entry(FieldsOf(redis, k) \cup {f}, now + Ttl)]
HSetNX(k, f) == /\ topic = "answers" /\ mem' = MemoryHSetNX(k, f) /\ redis' = RedisHSetNX(k, f)
                /\ UNCHANGED <<topic, now, pending, orphaned, limits, replica>>

Added(store, k, n) == [store EXCEPT ![k] = Entry(Count(store, k) + n, Never)]
MemoryIncrBy(k, n) == Added(mem, k, n)
RedisIncrBy(k, n) == Added(redis, k, n)
IncrBy(k, n) == /\ topic = "credit" /\ Count(redis, k) < Limit
                /\ mem' = MemoryIncrBy(k, n) /\ redis' = RedisIncrBy(k, n)
                /\ UNCHANGED <<topic, now, pending, orphaned, limits, replica>>

MemoryDecrIfAtLeast(k, n) == IF Count(mem, k) < n THEN mem ELSE Added(mem, k, 0 - n)
RedisDecrIfAtLeast(k, n) == IF Count(redis, k) < n THEN redis ELSE Added(redis, k, 0 - n)
DecrIfAtLeast(k, n) == /\ topic = "credit"
                       /\ mem' = MemoryDecrIfAtLeast(k, n) /\ redis' = RedisDecrIfAtLeast(k, n)
                       /\ UNCHANGED <<topic, now, pending, orphaned, limits, replica>>

\* A read of createReplicaReadStore(): a replica that fails is left alone.
ReplicaRead(fails) ==
  LET tried == now >= downUntil
  IN /\ topic = "replica" /\ from' = IF tried /\ ~fails THEN "replica" ELSE "primary"
     /\ downUntil' = IF tried /\ fails THEN now + RetryAfter ELSE downUntil
     /\ UNCHANGED <<topic, now, mem, redis, pending, orphaned, limits>>

\* Both commands of an incr() are over before a tick of the clock.
Tick == /\ now < MaxTime /\ \A c \in Clients : pending[c] = None
        /\ now' = now + 1 /\ from' = None
        /\ UNCHANGED <<topic, mem, redis, pending, orphaned, limits, downUntil>>

Next == \/ \E c \in Clients : CheckRateLimit(c) \/ ReserveClaudeBudget(c) \/ PExpire(c) \/ Crash(c)
        \/ SetNX(<<"lock", 0>>) \/ IncrBy(<<"credit", 0>>, 1) \/ DecrIfAtLeast(<<"credit", 0>>, 1) \/ Tick
        \/ \E f \in Fields : HSetNX(<<"answers", 0>>, f)
        \/ \E fails \in BOOLEAN : ReplicaRead(fails)

Spec == Init /\ [][Next]_vars

----------------------------------------------------------------------------
TypeOK == /\ topic \in Topics /\ now \in 0..MaxTime /\ DOMAIN mem = Keys /\ DOMAIN redis = Keys
          /\ pending \in [Clients -> Keys \cup {None}]
          /\ orphaned \subseteq Keys /\ from \in {"replica", "primary", None}

\* However the calls interleave, any Ttl of the clock sees at most Limit
\* admissions by memory, whose window starts again with every request, and at
\* most twice as many by Redis, whose window does not; either grants at most
\* Budget reservations in an hour, as calls and not as cents.  And memory never
\* counts less than Redis does.
Counting == topic \in {"requests", "budget"}
Within(times, t) == {a \in times : a[1] \in t..(t + Ttl)}
LimitsHold ==
  /\ \A t \in 0..MaxTime : /\ Cardinality(Within(admitted.memory, t)) <= Limit
                           /\ Cardinality(Within(admitted.redis, t)) <= 2 * Limit
  /\ \A b \in Buckets : reserved.memory[b] <= Budget /\ reserved.redis[b] <= Budget
  /\ Counting => \A k \in Keys \ orphaned : Count(mem, k) >= Count(redis, k)
  /\ topic \in {"lock", "credit"} => mem = redis

\* The inductive invariant.  A counter lives in memory at least as long as in
\* Redis, whose expiry is owed at once or never given.  In memory the last
\* request was a Ttl before the expiry, and the value counts all since a Ttl
\* before that; in Redis the value counts all since the window began, and
\* little was admitted in the Ttl before.  The counter of an hour outlives it.
Owed(k) == \E c \in Clients : pending[c] = k
CountersHold ==
  /\ {mem, redis} \subseteq [Keys -> Counters \cup {None}]
  /\ \A k \in Keys : Owed(k) => redis[k] # None
  /\ \A k \in Keys \ orphaned : redis[k] # None =>
       /\ mem[k] # None /\ redis[k].value <= mem[k].value /\ mem[k].expires <= now + Ttl
       /\ Owed(k) \/ redis[k].expires <= mem[k].expires
       /\ Owed(k) => mem[k].expires = now + Ttl

Since(times, t) == {a \in times : a[1] >= t}
Times(times) == IsFiniteSet(times) /\ \A a \in times : a[1] \in Int /\ a[1] <= now
MemoryLimits ==
  LET times == admitted.memory
      e == mem[Requests]
  IN /\ Times(times) /\ (e = None => times = {})
     /\ e # None => /\ e.expires - Ttl <= now /\ \A a \in times : a[1] <= e.expires - Ttl
                    /\ \A t \in 0..MaxTime : t >= e.expires - 2 * Ttl => Cardinality(Since(times, t)) <= e.value
RedisLimits ==
  LET times == admitted.redis
      e == redis[Requests]
  IN /\ Times(times) /\ (e = None => times = {})
     /\ e # None => /\ \A a \in times : a[1] <= e.expires
                    /\ \E s \in 0..now : /\ s + Ttl <= e.expires
                         /\ Cardinality(Since(times, s)) <= e.value /\ Cardinality(Since(times, s)) <= Limit
                         /\ Cardinality(Since(times, s - Ttl) \ Since(times, s)) <= Limit

Reserved(store, granted) ==
  \A b \in Buckets :
    LET e == store[Bucket(b)]
    IN /\ granted[b] <= Budget /\ (e = None => granted[b] = 0)
       /\ e # None => /\ granted[b] <= e.value
                      /\ \E t \in 0..now : t \div Ttl = b /\ t + Ttl <= e.expires
ReservationsHold ==
  /\ {reserved.memory, reserved.redis} \subseteq [Buckets -> Nat]
  /\ IF topic = "budget" THEN Reserved(mem, reserved.memory) /\ Reserved(redis, reserved.redis)
     ELSE \A b \in Buckets : reserved.memory[b] = 0 /\ reserved.redis[b] = 0

StoresInv ==
  /\ TypeOK /\ LimitsHold
  /\ Counting \/ \A k \in Keys : ~Owed(k)
  /\ Counting => CountersHold
  /\ IF topic = "requests" THEN MemoryLimits /\ RedisLimits ELSE admitted = [memory |-> {}, redis |-> {}]
  /\ ReservationsHold

\* What rateLimit.js promises and the code does not keep: the fleet never
\* spends more than its budget and one reservation.
FleetBudgetHolds == \A b \in Buckets : reserved.redis[b] * Cost <= Budget + Cost

=============================================================================
