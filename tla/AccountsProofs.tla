---------------------------- MODULE AccountsProofs ----------------------------
(***************************************************************************)
(* Who asks, and in whose name, for any number of them: teams, which have  *)
(* one owner each; challenges, sessions and API keys, of which none is     *)
(* good for more than was granted; the gates of an instance; the client    *)
(* libraries, which never have an ask charged twice; the limits on         *)
(* requests and reservations in either store; the number of maintenance    *)
(* windows; and the lists kept per address, with the index of them.        *)
(***************************************************************************)
EXTENDS Integers, Sequences, FiniteSets, FiniteSetTheorems, TLAPS

CONSTANTS None,
          Addresses, TeamIds, Calls, MaxMembers, MaxTeams,    \* Teams
          Instances, Sessions, MaxBoots, MaxFaults,           \* Gates
          Logins, Rotations, MaxTime, ChallengeTtl, SessionTtl, \* Access
          Asks, MaxRetries, MaxPolls,                         \* Clients
          Clients, LastTick, Ttl, MaxHits, Limit, Budget, Cost, Fields, RetryAfter, \* Stores
          Requests, LastInstant, MaxWindows, MaxLength, Retention, \* Windows
          Owners, Items, MaxTracked, MaxPool                  \* Indexes

VARIABLES shared, team, memberships, locked, known, minted, call, crossed \* Teams
VARIABLES subject, now, nonce, login, session, revoked, secret, keys, accountKey, rotation, shown,
          overlapped, signedOut                               \* Access
VARIABLES inst, gateSession, gateRevoked, boots               \* Gates
VARIABLES kind, sdk, ask, handler, server                     \* Clients
VARIABLES topic, mem, redis, pending, orphaned, admitted, reserved, downUntil, from  \* Stores
VARIABLES windows, req                                        \* Windows
VARIABLES family, lists, editing, cut                         \* Indexes

T == INSTANCE Teams
A == INSTANCE Access
G == INSTANCE Gates WITH session <- gateSession, revoked <- gateRevoked
C == INSTANCE Clients WITH Calls <- Asks, call <- ask
St == INSTANCE Stores WITH MaxTime <- LastTick
Wi == INSTANCE Windows WITH MaxTime <- LastInstant
Ix == INSTANCE Indexes WITH Addresses <- Owners, call <- editing

\* What is known of finite sets is known of those of Teams.
LEMMA TeamCardinality == \A S : /\ T!Cardinality(S) = Cardinality(S)
                                /\ T!IsFiniteSet(S) <=> IsFiniteSet(S)
<1>1. \A S : T!Cardinality(S) = Cardinality(S)
  BY Zenon DEF T!Cardinality, Cardinality
<1>2. \A S : T!IsFiniteSet(S) <=> IsFiniteSet(S)
  BY Zenon DEF T!IsFiniteSet, IsFiniteSet
<1> QED
  BY <1>1, <1>2

\* A record has one owner when some address is its owner and no other is.
LEMMA OneOwnerIs ==
  ASSUME T!TeamsAssumption, NEW r
  PROVE  T!HasOneOwner(r) <=> \E x \in Addresses :
           r[x] = "owner" /\ \A a \in Addresses : r[a] = "owner" => a = x
<1> DEFINE S == {a \in Addresses : r[a] = "owner"}
<1>1. IsFiniteSet(S)
  BY FS_Subset, TeamCardinality DEF T!TeamsAssumption
<1>2. Cardinality(S) = 1 <=> \E x : S = {x}
  BY <1>1, FS_Singleton
<1>3. (\E x : S = {x}) <=> \E x \in Addresses :
           r[x] = "owner" /\ \A a \in Addresses : r[a] = "owner" => a = x
  <2>1. ASSUME NEW x, S = {x}
        PROVE  x \in Addresses /\ r[x] = "owner" /\ \A a \in Addresses : r[a] = "owner" => a = x
    BY <2>1
  <2>2. ASSUME NEW x \in Addresses, r[x] = "owner", \A a \in Addresses : r[a] = "owner" => a = x
        PROVE  S = {x}
    BY <2>2
  <2> QED
    BY <2>1, <2>2
<1> QED
  <2>1. T!HasOneOwner(r) <=> T!Cardinality(S) = 1
    BY DEF T!HasOneOwner
  <2>2. T!Cardinality(S) = Cardinality(S)
    BY TeamCardinality
  <2> QED
    BY <1>2, <1>3, <2>1, <2>2

\* A call that is under way keeps a whole record, and the others nothing.
LEMMA TeamCallsAre ==
  ASSUME T!TypeOK, NEW c \in Calls
  PROVE  /\ T!UnderWay(c) <=> call[c] \in T!Begun
         /\ ~T!UnderWay(c) => call[c].at \in {"idle", "gone"}
<1>1. T!Idle.at = "idle" /\ T!Gone.at = "gone"
  BY DEF T!Idle, T!Gone
<1>2. \A k \in T!Begun : k.at \notin {"idle", "gone"}
  BY DEF T!Begun
<1>3. call[c] \in {T!Idle, T!Gone} \cup T!Begun
  BY DEF T!TypeOK
<1> QED
  BY <1>1, <1>2, <1>3 DEF T!UnderWay

\* Nobody has asked for anything yet.
LEMMA TeamsInit ==
  ASSUME T!TeamsAssumption, T!Init
  PROVE  T!TeamsInv
<1>1. T!TypeOK
  <2>1. /\ team \in [TeamIds -> T!Records \cup {None}] /\ memberships \in [Addresses -> SUBSET minted]
        /\ known \subseteq minted /\ minted \subseteq TeamIds
    BY DEF T!Init
  <2>2. locked \in [Addresses -> Calls \cup {None}] /\ call \in [Calls -> {T!Idle, T!Gone} \cup T!Begun]
    BY DEF T!Init
  <2>3. shared \in BOOLEAN /\ crossed \subseteq TeamIds
    BY DEF T!Init
  <2> QED
    BY <2>1, <2>2, <2>3 DEF T!TypeOK
<1>2. \A c \in Calls : ~T!UnderWay(c)
  BY DEF T!Init, T!UnderWay
<1>3. T!OneOwner /\ T!StoredAreMinted
  BY DEF T!Init, T!OneOwner, T!StoredAreMinted
<1> QED
  BY <1>1, <1>2, <1>3 DEF T!TeamsInv, T!CopiesHold, T!LocksHold

\* What a step leaves of the call it is a step of, of the record it edits, of the
\* stores and of the locks is all that has to be said of it.
LEMMA TeamsKeep ==
  ASSUME T!TeamsAssumption, T!TeamsInv, NEW c \in Calls, NEW l \in T!Begun' \cup {T!Gone},
         call' \in [Calls -> {T!Idle, T!Gone} \cup T!Begun'], call'[c] = l,
         \A d \in Calls \ {c} :
           \/ call'[d] = call[d]
           \/ /\ shared /\ call[d] \in T!Begun /\ call'[d] \in T!Begun'
              /\ T!HasOneOwner(call'[d].copy) \/ call'[d].id \in crossed'
              /\ call'[d].id = call[d].id /\ call'[d].at = call[d].at
              /\ call'[d].op = call[d].op /\ call'[d].role = call[d].role
              /\ call'[d].actor = call[d].actor /\ call'[d].todo = call[d].todo
              /\ call'[d].turn = call[d].turn /\ call'[d].read = call[d].read,
         shared' = shared, crossed \subseteq crossed', crossed' \subseteq TeamIds,
         minted \subseteq minted', minted' \subseteq TeamIds, known' \subseteq minted',
         team' \in [TeamIds -> T!Records \cup {None}],
         memberships' \in [Addresses -> SUBSET minted'],
         locked' \in [Addresses -> Calls \cup {None}],
         l # T!Gone =>
           /\ T!HasOneOwner(l.copy) \/ (shared /\ l.id \in crossed')
           /\ (l.at = "apply" /\ l.op = "role") => shared \/ l.copy[l.actor] = "owner"
           /\ l.op = "add" => l.role \in {"admin", "member"}
           /\ l.op = "role" => l.role \in T!Roles /\ l.actor \notin l.todo
           /\ l.at = "caps" => l.op = "add"
           /\ l.at \in {"lock", "write"} => l.op \notin {"save", "role"}
           /\ l.at = "write" => /\ l.turn \in l.todo /\ locked'[l.turn] = c
                                /\ l.read = memberships'[l.turn],
         \A b \in Calls \ {c} : T!UnderWay(b) /\ call[b].at = "write" =>
           /\ locked'[call[b].turn] = b
           /\ memberships'[call[b].turn] = memberships[call[b].turn],
         \A s \in TeamIds : team'[s] # None =>
           /\ T!HasOneOwner(team'[s]) \/ (shared /\ s \in crossed')
           /\ s \in minted'
  PROVE  T!TeamsInv'
<1>1. T!Gone \notin T!Begun /\ T!Gone \notin T!Begun' /\ T!Idle \notin T!Begun /\ T!Idle \notin T!Begun'
  BY DEF T!Gone, T!Idle, T!Begun
<1>2. call'[c] = l
  OBVIOUS
<1>3. ASSUME NEW d \in Calls, d # c
      PROVE  \/ call'[d] = call[d]
             \/ /\ shared
                /\ T!HasOneOwner(call'[d].copy) \/ call'[d].id \in crossed'
                /\ call'[d].at = call[d].at
                /\ call'[d].op = call[d].op /\ call'[d].role = call[d].role
                /\ call'[d].actor = call[d].actor /\ call'[d].todo = call[d].todo
                /\ call'[d].turn = call[d].turn /\ call'[d].read = call[d].read
  BY <1>3
<1>4. ASSUME NEW d \in Calls \ {c} PROVE T!UnderWay(d)' <=> T!UnderWay(d)
  <2>1. CASE call'[d] = call[d]
    BY <2>1 DEF T!UnderWay
  <2>2. CASE call[d] \in T!Begun /\ call'[d] \in T!Begun'
    BY <1>1, <2>2 DEF T!UnderWay
  <2> QED
    BY <2>1, <2>2
<1>6. T!TypeOK'
  BY DEF T!TeamsInv, T!TypeOK
<1>7. T!UnderWay(c)' => l # T!Gone
  BY <1>2 DEF T!UnderWay
<1>8. \A d \in Calls \ {c} : T!UnderWay(d)' <=> T!UnderWay(d)
  BY <1>4
<1> HIDE <1>2, <1>3, <1>4
<1>9. T!CopiesHold'
  <2> SUFFICES ASSUME NEW d \in Calls, T!UnderWay(d)'
               PROVE  /\ T!HasOneOwner(call'[d].copy) \/ (shared /\ call'[d].id \in crossed')
                      /\ (call'[d].at = "apply" /\ call'[d].op = "role") =>
                           shared \/ call'[d].copy[call'[d].actor] = "owner"
    BY DEF T!CopiesHold, T!Excused
  <2>1. CASE d = c
    BY <1>2, <1>7, <2>1
  <2>2. CASE d # c /\ call'[d] = call[d]
    BY <1>8, <2>2 DEF T!TeamsInv, T!CopiesHold, T!Excused
  <2>3. CASE d # c /\ call'[d] # call[d]
    BY <1>3, <2>3
  <2> QED
    BY <2>1, <2>2, <2>3
<1>10. T!LocksHold'
  <2> SUFFICES ASSUME NEW d \in Calls, T!UnderWay(d)'
               PROVE  /\ call'[d].op = "add" => call'[d].role \in {"admin", "member"}
                      /\ call'[d].op = "role" => call'[d].role \in T!Roles /\ call'[d].actor \notin call'[d].todo
                      /\ call'[d].at = "caps" => call'[d].op = "add"
                      /\ call'[d].at \in {"lock", "write"} => call'[d].op \notin {"save", "role"}
                      /\ call'[d].at = "write" => /\ call'[d].turn \in call'[d].todo
                                                  /\ locked'[call'[d].turn] = d
                                                  /\ call'[d].read = memberships'[call'[d].turn]
    BY DEF T!LocksHold
  <2>1. CASE d = c
    BY <1>2, <1>7, <2>1
  <2>2. CASE d # c
    <3>1. /\ call'[d].op = call[d].op /\ call'[d].role = call[d].role /\ call'[d].at = call[d].at
          /\ call'[d].actor = call[d].actor /\ call'[d].todo = call[d].todo
          /\ call'[d].turn = call[d].turn /\ call'[d].read = call[d].read
      BY <1>3, <2>2
    <3> QED
      BY <1>8, <2>2, <3>1 DEF T!TeamsInv, T!LocksHold
  <2> QED
    BY <2>1, <2>2
<1>11. T!OneOwner' /\ T!StoredAreMinted'
  BY DEF T!OneOwner, T!StoredAreMinted, T!Excused
<1> QED
  BY <1>6, <1>9, <1>10, <1>11 DEF T!TeamsInv

\* A call that goes on by itself leaves the others as they are.
LEMMA TeamsKeepOne ==
  ASSUME NEW c \in Calls, NEW l \in T!Begun' \cup {T!Gone}, T!TypeOK, minted \subseteq minted',
         call' = [call EXCEPT ![c] = l]
  PROVE  /\ call' \in [Calls -> {T!Idle, T!Gone} \cup T!Begun'] /\ call'[c] = l
         /\ \A d \in Calls \ {c} : call'[d] = call[d]
<1>1. T!Begun \subseteq T!Begun'
  BY DEF T!Begun
<1> QED
  BY <1>1 DEF T!TypeOK

\* One that edits its record edits that of the others, if it is theirs.
LEMMA TeamsEdited ==
  ASSUME T!TeamsAssumption, T!TypeOK, NEW c \in Calls, NEW l \in T!Begun, NEW copy \in T!Records,
         call[c].id \in TeamIds, minted' = minted, T!Edit(c, copy, l),
         T!HasOneOwner(copy) \/ (shared /\ call[c].id \in crossed')
  PROVE  /\ call' \in [Calls -> {T!Idle, T!Gone} \cup T!Begun'] /\ call'[c] = l
         /\ \A d \in Calls \ {c} :
              \/ call'[d] = call[d]
              \/ /\ shared /\ call[d] \in T!Begun /\ call'[d] \in T!Begun'
                 /\ T!HasOneOwner(call'[d].copy) \/ call'[d].id \in crossed'
                 /\ call'[d].id = call[d].id /\ call'[d].at = call[d].at
                 /\ call'[d].op = call[d].op /\ call'[d].role = call[d].role
                 /\ call'[d].actor = call[d].actor /\ call'[d].todo = call[d].todo
                 /\ call'[d].turn = call[d].turn /\ call'[d].read = call[d].read
<1> DEFINE t == call[c].id
<1>1. call' = [d \in Calls |-> IF d = c THEN l
                               ELSE IF shared /\ call[d].id = t
                                    THEN [call[d] EXCEPT !.copy = copy] ELSE call[d]]
  BY DEF T!Edit
<1> HIDE DEF t
<1>2. T!Begun' = T!Begun
  BY DEF T!Begun
<1>3. call'[c] = l
  BY <1>1
<1>4. ASSUME NEW d \in Calls \ {c}, shared, call[d].id = t
      PROVE  /\ call[d] \in T!Begun /\ call'[d] \in T!Begun'
             /\ call'[d].copy = copy
             /\ call'[d].id = call[d].id /\ call'[d].at = call[d].at
             /\ call'[d].op = call[d].op /\ call'[d].role = call[d].role
             /\ call'[d].actor = call[d].actor /\ call'[d].todo = call[d].todo
             /\ call'[d].turn = call[d].turn /\ call'[d].read = call[d].read
  <2>1. call'[d] = [call[d] EXCEPT !.copy = copy] /\ t \in TeamIds
    BY <1>1, <1>4 DEF t
  <2>2. T!Idle.id = None /\ T!Gone.id = None
    BY DEF T!Idle, T!Gone
  <2>3. call[d] \in {T!Idle, T!Gone} \cup T!Begun /\ None \notin TeamIds
    BY DEF T!TypeOK, T!TeamsAssumption
  <2>4. call[d] \in T!Begun
    BY <1>4, <2>1, <2>2, <2>3
  <2> QED
    BY <1>2, <2>1, <2>4 DEF T!Begun
<1>5. ASSUME NEW d \in Calls \ {c}, ~(shared /\ call[d].id = t) PROVE call'[d] = call[d]
  BY <1>1, <1>5
<1>6. call' \in [Calls -> {T!Idle, T!Gone} \cup T!Begun']
  <2>1. call' = [d \in Calls |-> call'[d]]
    BY <1>1
  <2>2. ASSUME NEW d \in Calls PROVE call'[d] \in {T!Idle, T!Gone} \cup T!Begun'
    BY <1>2, <1>3, <1>4, <1>5 DEF T!TypeOK
  <2> QED
    BY <2>1, <2>2
<1>7. T!HasOneOwner(copy) \/ t \in crossed'
  BY DEF t
<1> QED
  BY <1>3, <1>4, <1>5, <1>6, <1>7

\* What is kept of a call that has just begun, whatever it is about to do.
LEMMA TeamCallBegins ==
  ASSUME T!TeamsAssumption, T!TeamsInv, NEW c \in Calls, NEW t \in minted', NEW actor \in Addresses,
         NEW op \in {"create", "save", "add", "role", "remove", "delete"},
         NEW role \in T!Roles \cup {None}, NEW copy \in T!Records, NEW todo \in SUBSET Addresses,
         NEW step \in {"apply", "lock", "save"},
         T!HasOneOwner(copy) \/ T!Excused(t),
         op = "role" => step = "apply" /\ copy[actor] = "owner" /\ role \in T!Roles /\ actor \notin todo,
         op = "add" => role \in {"admin", "member"},
         step = "lock" => op = "create",
         T!Started(c, t, actor, op, role, copy, todo, step),
         minted \subseteq minted', minted' \subseteq TeamIds,
         UNCHANGED <<shared, team, memberships, locked, known, crossed>>
  PROVE  T!TeamsInv'
<1> DEFINE k == [at |-> step, op |-> op, id |-> t, actor |-> actor, role |-> role,
                 copy |-> copy, todo |-> todo, turn |-> None, read |-> {}]
<1>1. k \in T!Begun'
  BY DEF T!Begun
<1>2. /\ k.at = step /\ k.op = op /\ k.id = t /\ k.actor = actor /\ k.role = role
      /\ k.copy = copy /\ k.todo = todo
  OBVIOUS
<1>3. call' = [call EXCEPT ![c] = k]
  BY DEF T!Started
<1> HIDE DEF k
<1>4. /\ call' \in [Calls -> {T!Idle, T!Gone} \cup T!Begun'] /\ call'[c] = k
      /\ \A d \in Calls \ {c} : call'[d] = call[d]
  BY <1>1, <1>3, TeamsKeepOne DEF T!TeamsInv
<1>5. \A b \in Calls : T!UnderWay(b) /\ call[b].at = "write" => locked[call[b].turn] = b
  BY DEF T!TeamsInv, T!LocksHold
<1>6. \A s \in TeamIds : team'[s] # None =>
           /\ T!HasOneOwner(team'[s]) \/ (shared /\ s \in crossed')
           /\ s \in minted'
  BY DEF T!TeamsInv, T!OneOwner, T!StoredAreMinted, T!Excused
<1>7. /\ known' \subseteq minted' /\ team' \in [TeamIds -> T!Records \cup {None}]
      /\ memberships' \in [Addresses -> SUBSET minted'] /\ locked' \in [Addresses -> Calls \cup {None}]
      /\ crossed \subseteq crossed' /\ crossed' \subseteq TeamIds /\ shared' = shared
  BY DEF T!TeamsInv, T!TypeOK
<1>8. /\ T!HasOneOwner(k.copy) \/ (shared /\ k.id \in crossed')
      /\ (k.at = "apply" /\ k.op = "role") => shared \/ k.copy[k.actor] = "owner"
      /\ k.op = "add" => k.role \in {"admin", "member"}
      /\ k.op = "role" => k.role \in T!Roles /\ k.actor \notin k.todo
      /\ k.at = "caps" => k.op = "add"
      /\ k.at \in {"lock", "write"} => k.op \notin {"save", "role"}
      /\ k.at # "write"
  BY <1>2 DEF T!Excused
<1>9. k \in T!Begun' \cup {T!Gone}
  BY <1>1
<1> QED
  BY <1>4, <1>5, <1>6, <1>7, <1>8, <1>9, TeamsKeep

\* Every request keeps the invariant: it reads a record that has one owner.
LEMMA TeamRequestKeeps ==
  ASSUME T!TeamsAssumption, T!TeamsInv, NEW c \in Calls, T!Request(c)
  PROVE  T!TeamsInv'
<1>1. ASSUME NEW t \in TeamIds, NEW a \in Addresses, T!CreateTeam(c, a, t)
      PROVE  T!TeamsInv'
  <2> DEFINE r == [x \in Addresses |-> IF x = a THEN "owner" ELSE None]
  <2>1. r \in T!Records /\ T!HasOneOwner(r)
    BY OneOwnerIs DEF T!Records, T!Roles, T!TeamsAssumption
  <2>2. t \in minted' /\ minted \subseteq minted' /\ minted' \subseteq TeamIds
    BY <1>1 DEF T!CreateTeam, T!TeamsInv, T!TypeOK
  <2> HIDE DEF r
  <2>3. /\ T!Started(c, t, a, "create", None, r, {a}, "lock")
        /\ UNCHANGED <<shared, team, memberships, locked, known, crossed>>
    BY <1>1 DEF T!CreateTeam, r
  <2> QED
    BY <2>1, <2>2, <2>3, TeamCallBegins
<1>2. ASSUME NEW t \in TeamIds, NEW actor \in Addresses, NEW min,
             NEW op \in {"save", "add", "role", "remove", "delete"}, NEW role \in T!Roles \cup {None},
             NEW todo \in SUBSET Addresses, NEW step \in {"apply", "save"},
             T!Begin(c, t, actor, min, op, role, todo, step),
             op = "role" => step = "apply" /\ min = "owner" /\ role \in T!Roles /\ actor \notin todo,
             op = "add" => role \in {"admin", "member"}
      PROVE  T!TeamsInv'
  <2>1. /\ team[t] # None /\ T!HasRole(team[t], actor, min)
        /\ T!Started(c, t, actor, op, role, team[t], todo, step)
        /\ UNCHANGED <<shared, team, memberships, locked, known, minted, crossed>>
    BY <1>2 DEF T!Begin
  <2>2. /\ team[t] \in T!Records /\ t \in minted /\ minted' \subseteq TeamIds
        /\ T!HasOneOwner(team[t]) \/ T!Excused(t)
    BY <2>1 DEF T!TeamsInv, T!TypeOK, T!OneOwner, T!StoredAreMinted
  <2>3. min = "owner" => team[t][actor] = "owner"
    <3>1. T!Rank["owner"] = 3 /\ T!Rank["admin"] = 2 /\ T!Rank["member"] = 1
      BY DEF T!Rank, T!Roles
    <3>2. team[t][actor] \in T!Roles /\ T!Rank[team[t][actor]] >= T!Rank[min]
      BY <2>1, <2>2 DEF T!HasRole, T!Records
    <3> QED
      BY <3>1, <3>2 DEF T!Roles
  <2> DEFINE r == team[t]
  <2>4. /\ r \in T!Records
        /\ T!HasOneOwner(r) \/ T!Excused(t)
        /\ op = "role" => step = "apply" /\ r[actor] = "owner" /\ role \in T!Roles /\ actor \notin todo
        /\ T!Started(c, t, actor, op, role, r, todo, step)
    BY <1>2, <2>1, <2>2, <2>3
  <2> HIDE DEF r
  <2>5. /\ t \in minted' /\ minted \subseteq minted' /\ step # "lock"
        /\ op \in {"create", "save", "add", "role", "remove", "delete"}
        /\ step \in {"apply", "lock", "save"}
    BY <2>1, <2>2
  <2> QED
    BY <1>2, <2>1, <2>2, <2>4, <2>5, TeamCallBegins
<1>3. ASSUME NEW t \in TeamIds, NEW a \in Addresses, T!RenameTeam(c, t, a) \/ T!DeleteTeam(c, t, a)
      PROVE  T!TeamsInv'
  <2>1. {} \in SUBSET Addresses
    OBVIOUS
  <2> QED
    BY <1>2, <1>3, <2>1 DEF T!RenameTeam, T!DeleteTeam
<1>4. ASSUME NEW t \in TeamIds, NEW actor \in Addresses, NEW a \in Addresses,
             T!RemoveMember(c, t, actor, a)
      PROVE  T!TeamsInv'
  <2>1. {a} \in SUBSET Addresses
    OBVIOUS
  <2> QED
    BY <1>2, <1>4, <2>1 DEF T!RemoveMember
<1>5. ASSUME NEW t \in TeamIds, NEW actor \in Addresses, NEW a \in Addresses, NEW role \in T!Roles,
             T!SetMemberRole(c, t, actor, a, role)
      PROVE  T!TeamsInv'
  <2>1. /\ {a} \in SUBSET Addresses /\ actor \notin {a}
        /\ T!Begin(c, t, actor, "owner", "role", role, {a}, "apply")
    BY <1>5 DEF T!SetMemberRole
  <2> QED
    BY <1>2, <2>1
<1>6. ASSUME NEW t \in TeamIds, NEW actor \in Addresses, NEW addresses \in SUBSET Addresses,
             NEW role \in {"admin", "member"}, T!AddMembers(c, t, actor, addresses, role)
      PROVE  T!TeamsInv'
  <2>1. role \in T!Roles \cup {None}
    BY DEF T!Roles
  <2> QED
    BY <1>2, <1>6, <2>1 DEF T!AddMembers
<1> QED
  BY <1>1, <1>3, <1>4, <1>5, <1>6 DEF T!Request

\* With a change that an owner's call makes of its record there is one owner again.
LEMMA NewRolesHaveOneOwner ==
  ASSUME T!TeamsAssumption, NEW k \in T!Begun, NEW target \in Addresses, target # k.actor,
         k.role \in T!Roles, k.copy[k.actor] = "owner", T!HasOneOwner(k.copy)
  PROVE  T!HasOneOwner(T!NewRoles(k, target))
<1> DEFINE r == T!NewRoles(k, target)
<1>1. k.copy \in [Addresses -> T!Roles \cup {None}] /\ k.actor \in Addresses
  BY DEF T!Begun, T!Records
<1>2. \A x \in Addresses : k.copy[x] = "owner" => x = k.actor
  BY <1>1, OneOwnerIs
<1>3. CASE k.role = "owner"
  <2>1. r = [k.copy EXCEPT ![k.actor] = "admin", ![target] = "owner"]
    BY <1>3 DEF T!NewRoles
  <2>2. r[target] = "owner" /\ \A x \in Addresses : r[x] = "owner" => x = target
    BY <1>1, <1>2, <2>1
  <2> HIDE DEF r
  <2>3. T!HasOneOwner(r)
    BY <2>2, OneOwnerIs
  <2> QED
    BY <2>3 DEF r
<1>4. CASE k.role # "owner"
  <2>1. r = [k.copy EXCEPT ![target] = k.role]
    BY <1>4 DEF T!NewRoles
  <2>2. r[k.actor] = "owner" /\ \A x \in Addresses : r[x] = "owner" => x = k.actor
    BY <1>1, <1>2, <1>4, <2>1
  <2> HIDE DEF r
  <2>3. T!HasOneOwner(r)
    BY <1>1, <2>2, OneOwnerIs
  <2> QED
    BY <2>3 DEF r
<1> QED
  BY <1>3, <1>4

\* The steps of a call, which change its own record of itself, and with a store
\* that hands out the object the record of the team that the others have.
LEMMA TeamStepKeeps ==
  ASSUME T!TeamsAssumption, T!TeamsInv, NEW c \in Calls, T!Step(c)
  PROVE  T!TeamsInv'
<1> DEFINE k == call[c]
<1>1. k \in T!Begun /\ T!UnderWay(c)
  <2>1. k.at \notin {"idle", "gone"}
    BY DEF T!Step, T!ChangeRole, T!TakeOut, T!ListMembers, T!CheckCaps, T!SaveTeam, T!ReadIndex,
           T!WriteIndex, T!Respond, T!EnterLock, T!WriteMembership
  <2> QED
    BY <2>1, TeamCallsAre DEF T!TeamsInv
<1>2. minted' = minted /\ shared' = shared /\ T!Begun' = T!Begun
  <2>1. minted' = minted /\ shared' = shared
    BY DEF T!Step, T!ChangeRole, T!TakeOut, T!ListMembers, T!CheckCaps, T!SaveTeam, T!ReadIndex,
           T!WriteIndex, T!Respond, T!EnterLock, T!WriteMembership
  <2> QED
    BY <2>1 DEF T!Begun
<1>3. /\ k.at \in {"apply", "caps", "lock", "write", "save", "index", "reindex", "answer"}
      /\ k.op \in {"create", "save", "add", "role", "remove", "delete"} /\ k.id \in minted
      /\ k.actor \in Addresses /\ k.role \in T!Roles \cup {None} /\ k.copy \in T!Records
      /\ k.todo \subseteq Addresses /\ k.turn \in Addresses \cup {None} /\ k.read \subseteq minted
      /\ k = [at |-> k.at, op |-> k.op, id |-> k.id, actor |-> k.actor, role |-> k.role,
              copy |-> k.copy, todo |-> k.todo, turn |-> k.turn, read |-> k.read]
  BY <1>1 DEF T!Begun
<1>4. /\ T!HasOneOwner(k.copy) \/ (shared /\ k.id \in crossed)
      /\ (k.at = "apply" /\ k.op = "role") => shared \/ k.copy[k.actor] = "owner"
      /\ k.op = "add" => k.role \in {"admin", "member"}
      /\ k.op = "role" => k.role \in T!Roles /\ k.actor \notin k.todo
      /\ k.at = "caps" => k.op = "add"
      /\ k.at \in {"lock", "write"} => k.op \notin {"save", "role"}
      /\ k.at = "write" => /\ k.turn \in k.todo /\ locked[k.turn] = c
                           /\ k.read = memberships[k.turn]
  BY <1>1 DEF T!TeamsInv, T!CopiesHold, T!LocksHold, T!Excused
<1>5. /\ team \in [TeamIds -> T!Records \cup {None}] /\ known \subseteq minted
      /\ memberships \in [Addresses -> SUBSET minted] /\ minted \subseteq TeamIds
      /\ locked \in [Addresses -> Calls \cup {None}] /\ crossed \subseteq TeamIds
      /\ call \in [Calls -> {T!Idle, T!Gone} \cup T!Begun]
  BY DEF T!TeamsInv, T!TypeOK
<1>6. \A b \in Calls : T!UnderWay(b) /\ call[b].at = "write" =>
        call[b].turn \in Addresses /\ locked[call[b].turn] = b
  BY TeamCallsAre DEF T!TeamsInv, T!LocksHold, T!Begun
<1>7. \A t \in TeamIds : team[t] # None =>
        (T!HasOneOwner(team[t]) \/ (shared /\ t \in crossed)) /\ t \in minted
  BY DEF T!TeamsInv, T!OneOwner, T!StoredAreMinted, T!Excused
<1>8. T!Gone \notin T!Begun
  BY DEF T!Gone, T!Idle, T!Begun
<1> HIDE DEF k
\* A call that has come to its end.
<1>9. ASSUME T!Answer(c), known' \subseteq minted, UNCHANGED <<team, memberships, crossed>>,
             locked' = locked \/ \E a \in Addresses :
                                   locked[a] = c /\ locked' = [locked EXCEPT ![a] = None]
      PROVE  T!TeamsInv'
  <2>1. /\ call' \in [Calls -> {T!Idle, T!Gone} \cup T!Begun'] /\ call'[c] = T!Gone
        /\ \A d \in Calls \ {c} : call'[d] = call[d]
    BY <1>2, <1>5, <1>9 DEF T!Answer
  <2>2. locked' \in [Addresses -> Calls \cup {None}]
    BY <1>5, <1>9
  <2>3. \A b \in Calls \ {c} : T!UnderWay(b) /\ call[b].at = "write" => locked'[call[b].turn] = b
    BY <1>5, <1>6, <1>9
  <2>4. T!Gone \in T!Begun' \cup {T!Gone}
    OBVIOUS
  <2> QED
    BY <1>2, <1>5, <1>7, <1>9, <2>1, <2>2, <2>3, <2>4, TeamsKeep
\* A call that goes on without a change of its record.
<1>10. ASSUME NEW l \in T!Begun, call' = [call EXCEPT ![c] = l],
              l.copy = k.copy, l.id = k.id, l.op = k.op, l.role = k.role, l.actor = k.actor,
              l.at \notin {"apply", "write"} \/ (l.at = "apply" /\ l.op = "delete"),
              l.op = "role" => l.todo = k.todo,
              l.at = "caps" => l.op = "add", l.at = "lock" => l.op \notin {"save", "role"},
              team' \in [TeamIds -> T!Records \cup {None}],
              \A t \in TeamIds : team'[t] # None =>
                (T!HasOneOwner(team'[t]) \/ (shared /\ t \in crossed)) /\ t \in minted,
              UNCHANGED <<memberships, locked, known, crossed>>
       PROVE  T!TeamsInv'
  <2>1. /\ call' \in [Calls -> {T!Idle, T!Gone} \cup T!Begun'] /\ call'[c] = l
        /\ \A d \in Calls \ {c} : call'[d] = call[d]
    BY <1>2, <1>5, <1>10
  <2>2. l \in T!Begun' \cup {T!Gone}
    BY <1>2
  <2>3. /\ T!HasOneOwner(l.copy) \/ (shared /\ l.id \in crossed')
        /\ (l.at = "apply" /\ l.op = "role") => shared \/ l.copy[l.actor] = "owner"
        /\ l.op = "add" => l.role \in {"admin", "member"}
        /\ l.op = "role" => l.role \in T!Roles /\ l.actor \notin l.todo
        /\ l.at = "caps" => l.op = "add"
        /\ l.at \in {"lock", "write"} => l.op \notin {"save", "role"}
        /\ l.at # "write"
    BY <1>4, <1>10
  <2>4. \A b \in Calls \ {c} : T!UnderWay(b) /\ call[b].at = "write" => locked'[call[b].turn] = b
    BY <1>6, <1>10
  <2>5. \A t \in TeamIds : team'[t] # None =>
          (T!HasOneOwner(team'[t]) \/ (shared /\ t \in crossed')) /\ t \in minted'
    BY <1>2, <1>10
  <2> QED
    BY <1>2, <1>5, <1>10, <2>1, <2>2, <2>3, <2>4, <2>5, TeamsKeep
\* A call that goes on with a record it has changed.
<1>11. ASSUME NEW copy \in T!Records, NEW l \in T!Begun, T!Edit(c, copy, l),
              T!HasOneOwner(copy) \/ (shared /\ k.id \in crossed'),
              l.copy = copy, l.id = k.id, l.op = k.op, l.role = k.role, l.actor = k.actor,
              l.at \notin {"apply", "caps", "write"},
              l.op = "role" => l.todo = k.todo, l.at = "lock" => l.op \notin {"save", "role"},
              crossed \subseteq crossed', crossed' \subseteq TeamIds, known' = known,
              memberships' \in [Addresses -> SUBSET minted],
              locked' \in [Addresses -> Calls \cup {None}],
              \A b \in Calls \ {c} : T!UnderWay(b) /\ call[b].at = "write" =>
                /\ locked'[call[b].turn] = b
                /\ memberships'[call[b].turn] = memberships[call[b].turn]
       PROVE  T!TeamsInv'
  <2>1. /\ team' = IF shared /\ team[k.id] # None THEN [team EXCEPT ![k.id] = copy] ELSE team
        /\ call' \in [Calls -> {T!Idle, T!Gone} \cup T!Begun'] /\ call'[c] = l
        /\ \A d \in Calls \ {c} :
             \/ call'[d] = call[d]
             \/ /\ shared /\ call[d] \in T!Begun /\ call'[d] \in T!Begun'
                /\ T!HasOneOwner(call'[d].copy) \/ call'[d].id \in crossed'
                /\ call'[d].id = call[d].id /\ call'[d].at = call[d].at
                /\ call'[d].op = call[d].op /\ call'[d].role = call[d].role
                /\ call'[d].actor = call[d].actor /\ call'[d].todo = call[d].todo
                /\ call'[d].turn = call[d].turn /\ call'[d].read = call[d].read
    <3>1. /\ k.id \in TeamIds /\ T!TypeOK /\ T!Edit(c, copy, l)
          /\ T!HasOneOwner(copy) \/ (shared /\ k.id \in crossed')
      BY <1>3, <1>5, <1>11 DEF T!TeamsInv
    <3>2. team' = IF shared /\ team[k.id] # None THEN [team EXCEPT ![k.id] = copy] ELSE team
      BY <3>1 DEF T!Edit, k
    <3> QED
      BY <1>2, <3>1, <3>2, TeamsEdited DEF k
  <2>2. l \in T!Begun' \cup {T!Gone} /\ k.id \in TeamIds
    BY <1>2, <1>3, <1>5
  <2>3. /\ T!HasOneOwner(l.copy) \/ (shared /\ l.id \in crossed')
        /\ l.at # "apply" /\ l.at # "caps" /\ l.at # "write"
        /\ l.op = "add" => l.role \in {"admin", "member"}
        /\ l.op = "role" => l.role \in T!Roles /\ l.actor \notin l.todo
        /\ l.at \in {"lock", "write"} => l.op \notin {"save", "role"}
    BY <1>4, <1>11
  <2>4. team' \in [TeamIds -> T!Records \cup {None}]
    BY <1>5, <2>1
  <2>5. \A t \in TeamIds : team'[t] # None =>
          (T!HasOneOwner(team'[t]) \/ (shared /\ t \in crossed')) /\ t \in minted'
    <3>1. \A t \in TeamIds : team'[t] = team[t] \/ (t = k.id /\ team'[t] = copy)
      BY <1>5, <2>1
    <3> QED
      BY <1>2, <1>3, <1>7, <1>11, <3>1
  <2>6. known' \subseteq minted' /\ memberships' \in [Addresses -> SUBSET minted']
    BY <1>2, <1>5, <1>11
  <2> QED
    BY <1>2, <1>5, <1>11, <2>1, <2>2, <2>3, <2>4, <2>5, <2>6, TeamsKeep
<1>12. ASSUME T!ChangeRole(c) PROVE T!TeamsInv'
  <2>1. PICK target \in k.todo :
          \/ T!Answer(c) /\ UNCHANGED <<team, crossed>>
          \/ /\ k.copy[target] # None
             /\ T!Edit(c, T!NewRoles(k, target), [k EXCEPT !.at = "save", !.copy = T!NewRoles(k, target)])
             /\ crossed' = IF k.copy[k.actor] # "owner" THEN crossed \cup {k.id} ELSE crossed
    BY <1>12 DEF T!ChangeRole, k
  <2>2. k.at = "apply" /\ k.op = "role" /\ UNCHANGED <<memberships, locked, known>>
    BY <1>12 DEF T!ChangeRole, k
  <2>3. CASE T!Answer(c) /\ UNCHANGED <<team, crossed>>
    BY <1>5, <1>9, <2>2, <2>3
  <2>4. CASE /\ T!Edit(c, T!NewRoles(k, target), [k EXCEPT !.at = "save", !.copy = T!NewRoles(k, target)])
             /\ crossed' = IF k.copy[k.actor] # "owner" THEN crossed \cup {k.id} ELSE crossed
    <3> DEFINE copy == T!NewRoles(k, target)
               l == [k EXCEPT !.at = "save", !.copy = copy]
    <3>1. k.role \in T!Roles /\ target # k.actor /\ target \in Addresses
      BY <1>3, <1>4, <2>2
    <3>2. copy \in T!Records
      BY <1>3, <3>1 DEF T!NewRoles, T!Records, T!Roles
    <3>3. T!HasOneOwner(copy) \/ (shared /\ k.id \in crossed')
      BY <1>1, <1>4, <2>2, <2>4, <3>1, NewRolesHaveOneOwner
    <3>4. T!Edit(c, copy, l) /\ crossed \subseteq crossed' /\ crossed' \subseteq TeamIds
      BY <1>3, <1>5, <2>4
    <3> HIDE DEF copy
    <3>6. /\ l \in T!Begun /\ l.copy = copy /\ l.id = k.id /\ l.op = k.op /\ l.role = k.role
          /\ l.actor = k.actor /\ l.at = "save" /\ l.todo = k.todo
      BY <1>1, <3>2 DEF T!Begun
    <3> HIDE DEF l
    <3> QED
      BY <1>5, <1>6, <1>11, <2>2, <3>2, <3>3, <3>4, <3>6
  <2> QED
    BY <2>1, <2>3, <2>4
<1>13. ASSUME T!TakeOut(c) PROVE T!TeamsInv'
  <2>1. PICK target \in k.todo :
          \/ T!Answer(c) /\ UNCHANGED team
          \/ /\ T!MayRemove(k, target)
             /\ T!Edit(c, [k.copy EXCEPT ![target] = None],
                       [k EXCEPT !.at = "save", !.copy = [k.copy EXCEPT ![target] = None]])
    BY <1>13 DEF T!TakeOut, k
  <2>2. k.at = "apply" /\ k.op = "remove" /\ UNCHANGED <<memberships, locked, known, crossed>>
    BY <1>13 DEF T!TakeOut, k
  <2>3. CASE T!Answer(c) /\ UNCHANGED team
    BY <1>5, <1>9, <2>2, <2>3
  <2>4. CASE /\ T!MayRemove(k, target)
             /\ T!Edit(c, [k.copy EXCEPT ![target] = None],
                       [k EXCEPT !.at = "save", !.copy = [k.copy EXCEPT ![target] = None]])
    <3> DEFINE copy == [k.copy EXCEPT ![target] = None]
               l == [k EXCEPT !.at = "save", !.copy = copy]
    <3>1. k.copy[target] # "owner" /\ k.copy \in [Addresses -> T!Roles \cup {None}] /\ target \in Addresses
      BY <1>3, <2>4 DEF T!MayRemove, T!Records
    <3>2. copy \in T!Records
      BY <3>1 DEF T!Records
    <3>3. \A x \in Addresses : copy[x] = "owner" <=> k.copy[x] = "owner"
      BY <3>1 DEF T!TeamsAssumption, T!Roles
    <3>4. T!Edit(c, copy, l)
      BY <2>4
    <3> HIDE DEF copy
    <3>5. T!HasOneOwner(copy) \/ (shared /\ k.id \in crossed')
      BY <1>4, <2>2, <3>3, OneOwnerIs
    <3>7. /\ l \in T!Begun /\ l.copy = copy /\ l.id = k.id /\ l.op = k.op /\ l.role = k.role
          /\ l.actor = k.actor /\ l.at = "save" /\ l.todo = k.todo
      BY <1>1, <3>2 DEF T!Begun
    <3> HIDE DEF l
    <3> QED
      BY <1>5, <1>6, <1>11, <2>2, <3>2, <3>4, <3>5, <3>7
  <2> QED
    BY <2>1, <2>3, <2>4
<1>14. ASSUME T!ListMembers(c) PROVE T!TeamsInv'
  <2>1. PICK todo \in SUBSET Addresses, step \in {"caps", "index", "lock"} :
          /\ T!Answer(c) \/ call' = [call EXCEPT ![c].todo = todo, ![c].at = step]
          /\ k.op = "add" => step = "caps"
          /\ k.op # "add" => step \in {"index", "lock"}
          /\ k.op \in {"add", "delete"}
    <3>1. /\ \/ /\ k.op = "add"
                /\ \/ T!Answer(c)
                   \/ call' = [call EXCEPT ![c].todo = k.todo \ T!MembersOf(k.copy), ![c].at = "caps"]
             \/ /\ k.op = "delete"
                /\ call' = [call EXCEPT ![c].todo = T!MembersOf(k.copy),
                             ![c].at = IF T!MembersOf(k.copy) = {} THEN "index" ELSE "lock"]
      BY <1>14 DEF T!ListMembers, k
    <3>2. T!MembersOf(k.copy) \subseteq Addresses
      BY DEF T!MembersOf
    <3>3. CASE k.op = "add"
      BY <1>3, <3>1, <3>3
    <3>4. CASE k.op # "add" /\ T!MembersOf(k.copy) = {}
      BY <3>1, <3>2, <3>4
    <3>5. CASE k.op # "add" /\ T!MembersOf(k.copy) # {}
      BY <3>1, <3>2, <3>5
    <3> QED
      BY <3>3, <3>4, <3>5
  <2>2. UNCHANGED <<team, memberships, locked, known, crossed>>
    BY <1>14 DEF T!ListMembers
  <2>3. CASE T!Answer(c)
    BY <1>5, <1>9, <2>2, <2>3
  <2>4. CASE call' = [call EXCEPT ![c].todo = todo, ![c].at = step]
    <3> DEFINE l == [k EXCEPT !.todo = todo, !.at = step]
    <3>1. call' = [call EXCEPT ![c] = l]
      BY <1>5, <2>4 DEF k
    <3>3. /\ l \in T!Begun /\ l.copy = k.copy /\ l.id = k.id /\ l.op = k.op /\ l.role = k.role
          /\ l.actor = k.actor /\ l.at = step
      BY <1>1 DEF T!Begun
    <3> HIDE DEF l
    <3> QED
      BY <1>5, <1>7, <1>10, <2>1, <2>2, <3>1, <3>3
  <2> QED
    BY <2>1, <2>3, <2>4
<1>15. ASSUME T!CheckCaps(c) PROVE T!TeamsInv'
  <2>1. k.at = "caps" /\ UNCHANGED <<team, memberships, locked, known, crossed>>
    BY <1>15 DEF T!CheckCaps, k
  <2>2. CASE T!Answer(c)
    BY <1>5, <1>9, <2>1, <2>2
  <2>3. CASE ~T!Answer(c)
    <3> DEFINE l == [k EXCEPT !.at = "lock"]
    <3>1. call' = [call EXCEPT ![c] = l]
      BY <1>5, <1>15, <2>3 DEF T!CheckCaps, T!Goto, k
    <3>2. /\ l \in T!Begun /\ l.copy = k.copy /\ l.id = k.id /\ l.op = k.op /\ l.role = k.role
          /\ l.actor = k.actor /\ l.at = "lock"
      BY <1>1 DEF T!Begun
    <3> HIDE DEF l
    <3> QED
      BY <1>4, <1>5, <1>7, <1>10, <2>1, <3>1, <3>2
  <2> QED
    BY <2>2, <2>3
<1>16. ASSUME NEW a \in Addresses, T!EnterLock(c, a) PROVE T!TeamsInv'
  <2> DEFINE l == [k EXCEPT !.at = "write", !.turn = a, !.read = memberships[a]]
  <2>1. /\ call' = [call EXCEPT ![c] = l]
        /\ k.at = "lock" /\ a \in k.todo /\ locked[a] = None
        /\ locked' = [locked EXCEPT ![a] = c]
        /\ UNCHANGED <<team, memberships, known, crossed>>
    BY <1>5, <1>16 DEF T!EnterLock, k
  <2>3. /\ l \in T!Begun /\ l.copy = k.copy /\ l.id = k.id /\ l.op = k.op /\ l.role = k.role
        /\ l.actor = k.actor /\ l.at = "write" /\ l.todo = k.todo /\ l.turn = a
        /\ l.read = memberships[a]
    BY <1>1, <1>5 DEF T!Begun
  <2> HIDE DEF l
  <2>4. /\ call' \in [Calls -> {T!Idle, T!Gone} \cup T!Begun'] /\ call'[c] = l
        /\ \A d \in Calls \ {c} : call'[d] = call[d]
    BY <1>2, <1>5, <2>1, <2>3
  <2>5. locked' \in [Addresses -> Calls \cup {None}] /\ locked'[a] = c
    BY <1>5, <2>1
  <2>6. \A b \in Calls \ {c} : T!UnderWay(b) /\ call[b].at = "write" => locked'[call[b].turn] = b
    BY <1>5, <1>6, <2>1 DEF T!TeamsAssumption
  <2>7. l \in T!Begun' \cup {T!Gone}
    BY <1>2, <2>3
  <2>8. /\ T!HasOneOwner(l.copy) \/ (shared /\ l.id \in crossed')
        /\ l.op = "add" => l.role \in {"admin", "member"}
        /\ l.op = "role" => l.role \in T!Roles /\ l.actor \notin l.todo
        /\ l.op \notin {"save", "role"}
        /\ l.turn \in l.todo /\ locked'[l.turn] = c /\ l.read = memberships'[l.turn]
    BY <1>4, <2>1, <2>3, <2>5
  <2> QED
    BY <1>2, <1>5, <1>7, <2>1, <2>3, <2>4, <2>5, <2>6, <2>7, <2>8, TeamsKeep
<1>17. ASSUME NEW a \in Addresses, T!WriteMembership(c, a) PROVE T!TeamsInv'
  <2> DEFINE full == T!Adds(c) /\ k.id \notin k.read /\ T!Cardinality(k.read) >= MaxTeams
             new == IF T!Adds(c) THEN k.read \cup {k.id} ELSE k.read \ {k.id}
             more == k.todo \ {a}
             copy == IF k.op = "add" /\ k.copy[a] = None THEN [k.copy EXCEPT ![a] = k.role] ELSE k.copy
             next == IF more # {} THEN "lock" ELSE IF T!Adds(c) THEN "save"
                     ELSE IF k.op = "delete" THEN "index" ELSE "answer"
             l == [k EXCEPT !.todo = more, !.copy = copy, !.at = next]
  <2>1. /\ k.at = "write" /\ k.turn = a
        /\ locked' = [locked EXCEPT ![a] = None]
        /\ memberships' = IF full THEN memberships ELSE [memberships EXCEPT ![a] = new]
        /\ UNCHANGED <<known, crossed>>
    BY <1>17 DEF T!WriteMembership, k
  <2>2. IF full THEN T!Answer(c) /\ UNCHANGED team ELSE T!Edit(c, copy, l)
    BY <1>17 DEF T!WriteMembership, k
  <2>3. memberships' \in [Addresses -> SUBSET minted]
    BY <1>3, <1>5, <2>1
  <2>4. copy \in T!Records
    BY <1>3, <1>4 DEF T!Records, T!Roles
  <2>5. T!HasOneOwner(copy) \/ (shared /\ k.id \in crossed)
    <3>1. CASE k.op = "add" /\ k.copy[a] = None
      <4>1. copy = [k.copy EXCEPT ![a] = k.role] /\ k.role \in {"admin", "member"}
        BY <1>4, <3>1
      <4>2. k.copy \in [Addresses -> T!Roles \cup {None}] /\ None # "owner"
        BY <1>3 DEF T!Records, T!TeamsAssumption, T!Roles
      <4>3. \A x \in Addresses : copy[x] = "owner" <=> k.copy[x] = "owner"
        BY <3>1, <4>1, <4>2
      <4> HIDE DEF copy
      <4> QED
        BY <1>4, <4>3, OneOwnerIs
    <3>2. CASE ~(k.op = "add" /\ k.copy[a] = None)
      BY <1>4, <3>2
    <3> QED
      BY <3>1, <3>2
  <2>6. /\ next \in {"lock", "save", "index", "answer"}
        /\ next = "lock" => k.op \notin {"save", "role"}
    BY <1>4, <2>1
  <2> HIDE DEF full, new, more, copy, next
  <2>8. more \subseteq Addresses
    BY <1>3 DEF more
  <2>9. /\ l \in T!Begun /\ l.copy = copy /\ l.id = k.id /\ l.op = k.op /\ l.role = k.role
        /\ l.actor = k.actor /\ l.at = next
    BY <1>1, <2>4, <2>6, <2>8 DEF T!Begun
  <2> HIDE DEF l
  <2>10. locked' \in [Addresses -> Calls \cup {None}] /\ locked[a] = c
    BY <1>4, <1>5, <2>1
  <2>11. \A b \in Calls \ {c} : T!UnderWay(b) /\ call[b].at = "write" =>
           /\ locked'[call[b].turn] = b
           /\ memberships'[call[b].turn] = memberships[call[b].turn]
    <3> SUFFICES ASSUME NEW b \in Calls \ {c}, T!UnderWay(b), call[b].at = "write"
                 PROVE  /\ locked'[call[b].turn] = b
                        /\ memberships'[call[b].turn] = memberships[call[b].turn]
      OBVIOUS
    <3>1. call[b].turn \in Addresses /\ locked[call[b].turn] = b /\ call[b].turn # a
      BY <1>6, <2>10
    <3> QED
      BY <1>5, <2>1, <3>1
  <2>12. k.op # "role" /\ (next = "lock" => l.op \notin {"save", "role"})
    BY <1>4, <2>1, <2>6, <2>9
  <2>13. CASE full
    BY <1>5, <1>9, <2>1, <2>2, <2>10, <2>13
  <2>14. CASE ~full
    <3>1. T!Edit(c, copy, l)
      BY <2>2, <2>14
    <3> QED
      BY <1>5, <1>11, <2>1, <2>3, <2>4, <2>5, <2>6, <2>9, <2>10, <2>11, <2>12, <3>1
  <2> QED
    BY <2>13, <2>14
<1>18. ASSUME T!SaveTeam(c) PROVE T!TeamsInv'
  <2> DEFINE next == CASE k.op = "remove" -> "lock" [] k.op = "delete" -> "apply"
                       [] k.op = "create" -> "index" [] OTHER -> "answer"
             l == [k EXCEPT !.at = next]
  <2>1. /\ team' = [team EXCEPT ![k.id] = IF k.op = "delete" THEN None ELSE k.copy]
        /\ call' = [call EXCEPT ![c] = l]
        /\ UNCHANGED <<memberships, locked, known, crossed>>
    BY <1>5, <1>18 DEF T!SaveTeam, T!Goto, k
  <2>2. /\ next \in {"lock", "apply", "index", "answer"}
        /\ next = "lock" => k.op = "remove"
        /\ next = "apply" => k.op = "delete"
    OBVIOUS
  <2> HIDE DEF next
  <2>3. /\ l \in T!Begun /\ l.copy = k.copy /\ l.id = k.id /\ l.op = k.op /\ l.role = k.role
        /\ l.actor = k.actor /\ l.at = next /\ l.todo = k.todo
    BY <1>1, <2>2 DEF T!Begun
  <2> HIDE DEF l
  <2>4. k.id \in minted /\ k.copy \in T!Records
    BY <1>3
  <2>5. /\ team' \in [TeamIds -> T!Records \cup {None}]
        /\ \A t \in TeamIds : team'[t] # None =>
             (T!HasOneOwner(team'[t]) \/ (shared /\ t \in crossed)) /\ t \in minted
    BY <1>4, <1>5, <1>7, <2>1, <2>4
  <2> QED
    BY <1>10, <2>1, <2>2, <2>3, <2>5
<1>19. ASSUME T!ReadIndex(c) PROVE T!TeamsInv'
  <2> DEFINE l == [k EXCEPT !.at = "reindex", !.read = known]
  <2>1. call' = [call EXCEPT ![c] = l] /\ UNCHANGED <<team, memberships, locked, known, crossed>>
    BY <1>5, <1>19 DEF T!ReadIndex, k
  <2>3. /\ l \in T!Begun /\ l.copy = k.copy /\ l.id = k.id /\ l.op = k.op /\ l.role = k.role
        /\ l.actor = k.actor /\ l.at = "reindex" /\ l.todo = k.todo
    BY <1>1, <1>5 DEF T!Begun
  <2> HIDE DEF l
  <2> QED
    BY <1>5, <1>7, <1>10, <2>1, <2>3
<1>20. ASSUME T!WriteIndex(c) \/ T!Respond(c) PROVE T!TeamsInv'
  <2>1. T!Answer(c) /\ known' \subseteq minted /\ UNCHANGED <<team, memberships, locked, crossed>>
    BY <1>3, <1>5, <1>20 DEF T!WriteIndex, T!Respond, k
  <2> QED
    BY <1>9, <2>1
<1> QED
  BY <1>12, <1>13, <1>14, <1>15, <1>16, <1>17, <1>18, <1>19, <1>20 DEF T!Step

\* Every step keeps the invariant.
LEMMA TeamsStep ==
  ASSUME T!TeamsAssumption, T!TeamsInv, [T!Next]_(T!vars)
  PROVE  T!TeamsInv'
<1>1. CASE UNCHANGED T!vars
  BY <1>1 DEF T!vars, T!TeamsInv, T!TypeOK, T!Begun, T!OneOwner, T!CopiesHold, T!LocksHold, T!UnderWay,
              T!StoredAreMinted, T!Excused
<1>2. ASSUME NEW c \in Calls, T!Request(c) \/ T!Step(c) PROVE T!TeamsInv'
  BY <1>2, TeamRequestKeeps, TeamStepKeeps
<1> QED
  BY <1>1, <1>2 DEF T!Next

\* Every reachable state of the teams satisfies the invariant.
THEOREM TeamsInvariance ==
  ASSUME T!TeamsAssumption
  PROVE  T!Spec => []T!TeamsInv
<1>1. T!Init => T!TeamsInv
  BY TeamsInit
<1>2. T!TeamsInv /\ [T!Next]_(T!vars) => T!TeamsInv'
  BY TeamsStep
<1> QED
  BY <1>1, <1>2, PTL DEF T!Spec

\* "exactly one per team" (teams.js:17): no team is without an owner or has two,
\* whatever stale copies of its record are written over each other, but for a team
\* whose one object the memory store has handed to two owners' calls.
THEOREM TeamsHaveOneOwner ==
  ASSUME T!TeamsAssumption
  PROVE  T!Spec => []T!OneOwner
<1>1. T!TeamsInv => T!OneOwner
  BY DEF T!TeamsInv
<1> QED
  BY <1>1, TeamsInvariance, PTL

\* withMembershipLock(): what is written back under the lock is what was read under
\* it, so a membership is lost to its own removal only.
LEMMA MembershipsStay ==
  ASSUME T!TeamsInv, [T!Next]_(T!vars)
  PROVE  T!KeepsMemberships
<1> SUFFICES ASSUME NEW a \in Addresses, NEW t \in memberships[a] \ memberships'[a]
             PROVE  \E c \in Calls : call[c].id = t /\ call[c].op \in {"remove", "delete"}
  BY DEF T!KeepsMemberships
<1>1. PICK c \in Calls, b \in Addresses : T!WriteMembership(c, b)
  <2>1. memberships' # memberships
    OBVIOUS
  <2>2. ASSUME NEW d \in Calls, T!Request(d) PROVE memberships' = memberships
    <3>1. \A id, actor, min, op, role, todo, step :
            T!Begin(d, id, actor, min, op, role, todo, step) => memberships' = memberships
      BY DEF T!Begin
    <3>2. ASSUME NEW id \in TeamIds, NEW x \in Addresses,
                 T!CreateTeam(d, x, id) \/ T!RenameTeam(d, id, x) \/ T!DeleteTeam(d, id, x)
          PROVE  memberships' = memberships
      BY <3>1, <3>2 DEF T!CreateTeam, T!RenameTeam, T!DeleteTeam
    <3> QED
      BY <2>2, <3>1, <3>2 DEF T!Request, T!RemoveMember, T!SetMemberRole, T!AddMembers
  <2>3. ASSUME NEW d \in Calls, T!Step(d), \A x \in Addresses : ~T!WriteMembership(d, x)
        PROVE  memberships' = memberships
    BY <2>3 DEF T!Step, T!ChangeRole, T!TakeOut, T!ListMembers, T!CheckCaps, T!EnterLock, T!SaveTeam,
                T!ReadIndex, T!WriteIndex, T!Respond
  <2>4. PICK d \in Calls : T!Request(d) \/ T!Step(d)
    BY <2>1 DEF T!Next, T!vars
  <2> QED
    BY <2>1, <2>2, <2>3, <2>4
<1>2. call[c].at = "write" /\ call[c].turn = b
  BY <1>1 DEF T!WriteMembership
<1>3. T!UnderWay(c) /\ call[c] \in T!Begun
  BY <1>2, TeamCallsAre DEF T!TeamsInv
<1>4. call[c].read = memberships[b] /\ call[c].op \notin {"save", "role"}
  BY <1>2, <1>3 DEF T!TeamsInv, T!LocksHold
<1>5. CASE T!Adds(c)
  <2>1. memberships' = memberships
        \/ memberships' = [memberships EXCEPT ![b] = memberships[b] \cup {call[c].id}]
    BY <1>1, <1>4, <1>5 DEF T!WriteMembership
  <2> QED
    BY <2>1 DEF T!TeamsInv, T!TypeOK
<1>6. CASE ~T!Adds(c)
  <2>1. memberships' = [memberships EXCEPT ![b] = memberships[b] \ {call[c].id}]
    BY <1>1, <1>4, <1>6 DEF T!WriteMembership
  <2>2. t = call[c].id
    BY <2>1 DEF T!TeamsInv, T!TypeOK
  <2>3. call[c].op \in {"remove", "delete"}
    BY <1>3, <1>4, <1>6 DEF T!Begun, T!Adds
  <2> QED
    BY <2>2, <2>3
<1> QED
  BY <1>5, <1>6

\* However many calls change an address's list at the same moment, none loses what
\* another added (teams.js, withMembershipLock()).
THEOREM MembershipsAreKeptAlways ==
  ASSUME T!TeamsAssumption
  PROVE  T!Spec => T!MembershipsAreKept
<1>1. T!TeamsInv /\ [T!Next]_(T!vars) => [T!KeepsMemberships]_(T!vars)
  BY MembershipsStay
<1> QED
  BY <1>1, TeamsInvariance, PTL DEF T!Spec, T!MembershipsAreKept

------------------------------------------------------------------------------
\* Nothing has been sent.
LEMMA ClientsInit ==
  ASSUME C!ClientsAssumption, C!Init
  PROVE  C!ClientsInv
<1>1. C!Shapes
  BY DEF C!Init, C!Shapes
<1>2. C!CallsHold
  BY DEF C!Init, C!CallsHold, C!ClientsAssumption
<1>3. C!RequestsHold
  BY DEF C!Init, C!RequestsHold
<1>4. C!ServerHolds
  BY DEF C!Init, C!ServerHolds, C!ClientsAssumption
<1>5. C!AskedOnce
  BY DEF C!Init, C!AskedOnce, C!Returned
<1> QED
  BY <1>1, <1>2, <1>3, <1>4, <1>5 DEF C!ClientsInv

\* What a client does with its call leaves the invariant to what it heard.
LEMMA CallKeeps ==
  ASSUME C!ClientsAssumption, C!ClientsInv, NEW c \in Asks, NEW k,
         ask[c].step = "waiting",
         ask' = [ask EXCEPT ![c] = k],
         UNCHANGED <<kind, sdk, handler, server>>,
         NEW h, h = handler[c][C!Now(c)],
         \/ \E s, g : /\ k = C!Ends(c, s, g) /\ s \in {"raised", "returned"}
                      /\ s = "returned" => g = h.id /\ (h.reply = "ok" \/ (kind = "wait" /\ sdk = "mcp"))
         \/ k = C!PollAgain(c) /\ h.reply \in {"not_visible", "running"} /\ ask[c].polls < MaxPolls
         \/ k = [ask[c] EXCEPT !.step = "sleeping"] /\ ask[c].attempt < C!Attempts(c)
  PROVE  C!ClientsInv'
<1>1. /\ ask'[c] = k /\ DOMAIN ask' = Asks
      /\ \A d \in Asks : d # c => ask'[d] = ask[d]
      /\ ask[c] = [step |-> ask[c].step, attempt |-> ask[c].attempt, polls |-> ask[c].polls, got |-> ask[c].got]
      /\ ask[c].polls \in 0..MaxPolls /\ ask[c].attempt \in 0..(MaxRetries + 1) /\ ask[c].attempt >= 1
      /\ C!Now(c) \in DOMAIN handler[c]
  BY DEF C!ClientsInv, C!Shapes, C!CallsHold
<1>2. C!Under(c, C!Now(c))
  BY <1>1 DEF C!ClientsInv, C!RequestsHold
<1>3. /\ MaxRetries \in Nat /\ MaxPolls \in Nat
  BY DEF C!ClientsAssumption
<1>4. /\ k.polls \in 0..MaxPolls /\ k.attempt \in 0..(MaxRetries + 1)
      /\ k = [step |-> k.step, attempt |-> k.attempt, polls |-> k.polls, got |-> k.got]
      /\ \/ k.polls = ask[c].polls /\ k.attempt = ask[c].attempt /\ k.step \in {"raised", "returned", "sleeping"}
            /\ (k.step = "sleeping" => k.attempt < C!Attempts(c))
         \/ k.polls = ask[c].polls + 1 /\ k.attempt = 0 /\ k.step = "start" /\ kind # "charge"
      /\ k.step = "returned" => k.got = h.id /\ (h.reply = "ok" \/ (kind = "wait" /\ sdk = "mcp"))
  <2>1. CASE \E s, g : /\ k = C!Ends(c, s, g) /\ s \in {"raised", "returned"}
                       /\ s = "returned" => g = h.id /\ (h.reply = "ok" \/ (kind = "wait" /\ sdk = "mcp"))
    <3>1. PICK s, g : /\ k = C!Ends(c, s, g) /\ s \in {"raised", "returned"}
                      /\ s = "returned" => g = h.id /\ (h.reply = "ok" \/ (kind = "wait" /\ sdk = "mcp"))
      BY <2>1
    <3>2. k = [step |-> s, attempt |-> ask[c].attempt, polls |-> ask[c].polls, got |-> g]
      BY <1>1, <3>1 DEF C!Ends
    <3> QED
      BY <1>1, <3>1, <3>2
  <2>2. CASE k = C!PollAgain(c) /\ h.reply \in {"not_visible", "running"} /\ ask[c].polls < MaxPolls
    <3>1. k = [step |-> "start", attempt |-> 0, polls |-> ask[c].polls + 1, got |-> ask[c].got]
      BY <1>1, <2>2 DEF C!PollAgain
    <3>2. kind # "charge"
      BY <1>2, <2>2 DEF C!Under
    <3> QED
      BY <1>1, <1>3, <2>2, <3>1, <3>2
  <2>3. CASE k = [ask[c] EXCEPT !.step = "sleeping"] /\ ask[c].attempt < C!Attempts(c)
    <3>1. k = [step |-> "sleeping", attempt |-> ask[c].attempt, polls |-> ask[c].polls, got |-> ask[c].got]
      BY <1>1, <2>3
    <3> QED
      BY <1>1, <2>3, <3>1
  <2> QED
    BY <2>1, <2>2, <2>3
<1>5. C!Shapes'
  BY <1>1 DEF C!ClientsInv, C!Shapes
<1>6. C!CallsHold'
  BY <1>1, <1>4 DEF C!ClientsInv, C!CallsHold, C!Attempts, C!Now
<1>7. C!RequestsHold'
  <2> SUFFICES ASSUME NEW d \in Asks, NEW i \in DOMAIN handler[d]
               PROVE  C!Under(d, i)'
    BY DEF C!RequestsHold
  <2>1. C!Under(d, i)
    BY DEF C!ClientsInv, C!RequestsHold
  <2>2. C!SentBefore(d, i)'
    BY <1>1, <1>4, <2>1 DEF C!Under, C!SentBefore
  <2> QED
    BY <2>1, <2>2 DEF C!Under
<1>8. C!ServerHolds'
  BY DEF C!ClientsInv, C!ServerHolds, C!Saving
<1>9. C!AskedOnce'
  <2>1. \A d \in Asks : d # c => (C!Returned(d)' <=> C!Returned(d)) /\ ask'[d] = ask[d]
    BY <1>1 DEF C!Returned
  <2>2. k.step = "returned" => /\ kind = "charge" => server.charges[c] = 1
                               /\ kind = "challenge" => k.got \in 1..server.minted
                               /\ kind = "submit" => server.claims = 1
                               /\ kind = "wait" /\ sdk # "mcp" => k.got = "settled"
    BY <1>2, <1>4 DEF C!Under
  <2> QED
    BY <1>1, <2>1, <2>2 DEF C!ClientsInv, C!AskedOnce, C!Returned
<1> QED
  BY <1>5, <1>6, <1>7, <1>8, <1>9 DEF C!ClientsInv
\* A client sends an attempt: the requests of the earlier ones go on as they are.
LEMMA RequestKeeps ==
  ASSUME C!ClientsAssumption, C!ClientsInv, NEW c \in Asks, C!Request(c)
  PROVE  C!ClientsInv'
<1> DEFINE sent == <<ask[c].polls, ask[c].attempt + 1>>
           working == {i \in DOMAIN handler[c] : handler[c][i].reply = None}
           new == [i \in working \cup {sent} |->
                     IF i = sent THEN [step |-> "arrived", id |-> None, reply |-> None] ELSE handler[c][i]]
<1>1. /\ ask[c].step \in {"start", "sleeping"}
      /\ ask' = [ask EXCEPT ![c].step = "waiting", ![c].attempt = ask[c].attempt + 1]
      /\ handler' = [handler EXCEPT ![c] = new]
      /\ UNCHANGED <<kind, sdk, server>>
  BY DEF C!Request
<1>2. /\ ask'[c] = [step |-> "waiting", attempt |-> ask[c].attempt + 1, polls |-> ask[c].polls, got |-> ask[c].got]
      /\ DOMAIN ask' = Asks /\ \A d \in Asks : d # c => ask'[d] = ask[d]
  BY <1>1 DEF C!ClientsInv, C!Shapes, C!CallsHold
<1>3. /\ DOMAIN handler' = Asks /\ handler'[c] = new
      /\ \A d \in Asks : d # c => handler'[d] = handler[d]
  BY <1>1 DEF C!ClientsInv, C!Shapes
<1>4. /\ ask[c].polls \in 0..MaxPolls /\ ask[c].attempt \in 0..(MaxRetries + 1)
      /\ ask[c].attempt < C!Attempts(c) /\ MaxRetries \in Nat /\ MaxPolls \in Nat
      /\ kind = "charge" => /\ ask[c].polls = 0 /\ ask[c].attempt = 0 /\ DOMAIN handler[c] = {} /\ server.charges[c] = 0
      /\ ask[c].attempt + 1 \in 1..(MaxRetries + 1)
  <2>1. /\ ask[c].polls \in 0..MaxPolls /\ ask[c].attempt \in 0..(MaxRetries + 1)
        /\ MaxRetries \in Nat /\ MaxPolls \in Nat
        /\ ask[c].attempt = 0 \/ ask[c].attempt < C!Attempts(c)
        /\ kind = "charge" => /\ ask[c].polls = 0
                              /\ ask[c].attempt = 0 => DOMAIN handler[c] = {} /\ server.charges[c] = 0
    BY <1>1 DEF C!ClientsInv, C!CallsHold, C!ClientsAssumption, C!ServerHolds
  <2>2. C!Attempts(c) \in 1..(MaxRetries + 1) /\ (kind = "charge" => C!Attempts(c) = 1)
    BY <2>1 DEF C!Attempts
  <2> QED
    BY <2>1, <2>2
<1>5. /\ DOMAIN new = working \cup {sent} /\ new[sent] = [step |-> "arrived", id |-> None, reply |-> None]
      /\ sent \notin DOMAIN handler[c]
      /\ \A i \in working : i # sent /\ new[i] = handler[c][i]
  <2>1. sent \notin DOMAIN handler[c]
    <3>1. ASSUME sent \in DOMAIN handler[c] PROVE FALSE
      <4>1. C!Under(c, sent)
        BY <3>1 DEF C!ClientsInv, C!RequestsHold
      <4> QED
        BY <1>4, <4>1 DEF C!Under, C!SentBefore
    <3> QED
      BY <3>1
  <2> QED
    BY <2>1
<1>6. \A d \in Asks : \A i \in DOMAIN handler[d] : C!Under(d, i)
  BY DEF C!ClientsInv, C!RequestsHold
<1> HIDE DEF new
<1>7. C!Shapes'
  BY <1>1, <1>2, <1>3 DEF C!ClientsInv, C!Shapes
<1>8. C!CallsHold'
  <2>1. C!Attempts(c) <= MaxRetries + 1
    BY <1>4 DEF C!Attempts
  <2>2. C!Now(c)' = sent /\ sent \in DOMAIN handler'[c]
    BY <1>2, <1>3, <1>5 DEF C!Now
  <2>3. \A d \in Asks : d # c => C!Now(d)' = C!Now(d)
    BY <1>2 DEF C!Now
  <2> QED
    BY <1>1, <1>2, <1>3, <1>4, <2>1, <2>2, <2>3 DEF C!ClientsInv, C!CallsHold, C!Attempts
<1>9. C!RequestsHold'
  <2> SUFFICES ASSUME NEW d \in Asks, NEW i \in DOMAIN handler'[d]
               PROVE  C!Under(d, i)'
    BY DEF C!RequestsHold
  <2>1. CASE d # c
    BY <1>1, <1>2, <1>3, <1>6, <2>1 DEF C!Under, C!SentBefore
  <2>2. CASE d = c /\ i = sent
    <3>1. C!SentBefore(c, i)'
      BY <1>2, <1>4, <2>2 DEF C!SentBefore
    <3>2. handler'[d][i] = [step |-> "arrived", id |-> None, reply |-> None]
      BY <1>3, <1>5, <2>2
    <3> QED
      BY <1>1, <1>4, <2>2, <3>1, <3>2 DEF C!Under, C!ClientsAssumption, C!Replies
  <2>3. CASE d = c /\ i # sent
    <3>1. i \in working /\ handler'[c][i] = handler[c][i]
      BY <1>3, <1>5, <2>3
    <3>2. C!Under(c, i)
      BY <1>6, <3>1
    <3>3. C!SentBefore(c, i)'
      BY <1>2, <1>4, <3>2 DEF C!Under, C!SentBefore
    <3>4. kind # "charge"
      BY <1>4, <3>1
    <3> QED
      BY <1>1, <2>3, <3>1, <3>2, <3>3, <3>4 DEF C!Under
  <2> QED
    BY <2>1, <2>2, <2>3
<1>10. C!ServerHolds'
  <2>1. ASSUME C!Saving PROVE C!Saving'
    <3>1. PICK d \in Asks : \E i \in DOMAIN handler[d] : handler[d][i].step = "saving"
      BY <2>1 DEF C!Saving
    <3>2. PICK i \in DOMAIN handler[d] : handler[d][i].step = "saving"
      BY <3>1
    <3>3. handler[d][i].reply = None
      BY <1>6, <3>2 DEF C!Under
    <3>4. i \in DOMAIN handler'[d] /\ handler'[d][i].step = "saving"
      BY <1>3, <1>5, <3>2, <3>3
    <3> QED
      BY <3>4 DEF C!Saving
  <2>2. \A d \in Asks : DOMAIN handler'[d] = {} => DOMAIN handler[d] = {}
    BY <1>3, <1>5
  <2> QED
    BY <1>1, <2>1, <2>2 DEF C!ClientsInv, C!ServerHolds
<1>11. C!AskedOnce'
  BY <1>1, <1>2 DEF C!ClientsInv, C!AskedOnce, C!Returned
<1> QED
  BY <1>7, <1>8, <1>9, <1>10, <1>11 DEF C!ClientsInv

\* Whatever the library, what a client hears ends its call, starts its next poll
\* or leaves it to another attempt.
LEMMA ReplyKeeps ==
  ASSUME C!ClientsAssumption, C!ClientsInv, NEW c \in Asks,
         C!TypescriptReply(c) \/ C!PythonReply(c) \/ C!McpReply(c)
  PROVE  C!ClientsInv'
<1> DEFINE h == handler[c][C!Now(c)]
<1>1. ASSUME NEW r \in C!Heard(c)
      PROVE  r = "network" \/ r = h.reply
  BY DEF C!Heard
<1>2. ASSUME C!PollingReply(c) PROVE C!ClientsInv'
  <2>1. PICK r \in C!Heard(c) : ask' = [ask EXCEPT ![c] =
          IF r = "ok" THEN C!Ends(c, "returned", h.id)
          ELSE IF r \in {"not_visible", "running"} /\ ask[c].polls < MaxPolls THEN C!PollAgain(c)
          ELSE C!AfterAttempt(c, r)]
    BY <1>2 DEF C!PollingReply
  <2> DEFINE k == IF r = "ok" THEN C!Ends(c, "returned", h.id)
                  ELSE IF r \in {"not_visible", "running"} /\ ask[c].polls < MaxPolls THEN C!PollAgain(c)
                  ELSE C!AfterAttempt(c, r)
  <2>2. \/ k = C!Ends(c, "returned", h.id) /\ h.reply = "ok"
        \/ k = C!PollAgain(c) /\ h.reply \in {"not_visible", "running"} /\ ask[c].polls < MaxPolls
        \/ k = C!Ends(c, "raised", r)
        \/ k = [ask[c] EXCEPT !.step = "sleeping"] /\ ask[c].attempt < C!Attempts(c)
    BY <1>1 DEF C!AfterAttempt
  <2>3. ask[c].step = "waiting" /\ UNCHANGED <<kind, sdk, handler, server>>
    BY <1>2 DEF C!PollingReply
  <2>4. ask' = [ask EXCEPT ![c] = k]
    BY <2>1
  <2>6. PICK l, g : l = k /\ g = h
    OBVIOUS
  <2> HIDE DEF k
  <2>7. \/ \E s, id : /\ l = C!Ends(c, s, id) /\ s \in {"raised", "returned"}
                      /\ s = "returned" => id = g.id /\ (g.reply = "ok" \/ (kind = "wait" /\ sdk = "mcp"))
        \/ l = C!PollAgain(c) /\ g.reply \in {"not_visible", "running"} /\ ask[c].polls < MaxPolls
        \/ l = [ask[c] EXCEPT !.step = "sleeping"] /\ ask[c].attempt < C!Attempts(c)
    BY <2>2, <2>6
  <2> QED
    BY <2>3, <2>4, <2>6, <2>7, CallKeeps
<1>3. ASSUME C!McpReply(c) PROVE C!ClientsInv'
  <2>1. PICK r \in C!Heard(c) : ask' = [ask EXCEPT ![c] =
          IF r = "running" /\ ask[c].polls < MaxPolls THEN C!PollAgain(c)
          ELSE IF r \in {"ok", "running"} THEN C!Ends(c, "returned", h.id)
          ELSE C!AfterAttempt(c, r)]
    BY <1>3 DEF C!McpReply
  <2> DEFINE k == IF r = "running" /\ ask[c].polls < MaxPolls THEN C!PollAgain(c)
                  ELSE IF r \in {"ok", "running"} THEN C!Ends(c, "returned", h.id)
                  ELSE C!AfterAttempt(c, r)
  <2>2. ask[c].step = "waiting" /\ sdk = "mcp" /\ UNCHANGED <<kind, sdk, handler, server>>
    BY <1>3 DEF C!McpReply
  <2>3. h.reply = "running" => kind = "wait"
    BY <2>2 DEF C!ClientsInv, C!CallsHold, C!RequestsHold, C!Under
  <2>4. \/ k = C!Ends(c, "returned", h.id) /\ (h.reply = "ok" \/ (kind = "wait" /\ sdk = "mcp"))
        \/ k = C!PollAgain(c) /\ h.reply \in {"not_visible", "running"} /\ ask[c].polls < MaxPolls
        \/ k = C!Ends(c, "raised", r)
        \/ k = [ask[c] EXCEPT !.step = "sleeping"] /\ ask[c].attempt < C!Attempts(c)
    BY <1>1, <2>2, <2>3 DEF C!AfterAttempt
  <2>5. ask' = [ask EXCEPT ![c] = k]
    BY <2>1
  <2>6. PICK l, g : l = k /\ g = h
    OBVIOUS
  <2> HIDE DEF k
  <2>7. \/ \E s, id : /\ l = C!Ends(c, s, id) /\ s \in {"raised", "returned"}
                      /\ s = "returned" => id = g.id /\ (g.reply = "ok" \/ (kind = "wait" /\ sdk = "mcp"))
        \/ l = C!PollAgain(c) /\ g.reply \in {"not_visible", "running"} /\ ask[c].polls < MaxPolls
        \/ l = [ask[c] EXCEPT !.step = "sleeping"] /\ ask[c].attempt < C!Attempts(c)
    BY <2>4, <2>6
  <2> QED
    BY <2>2, <2>5, <2>6, <2>7, CallKeeps
<1> QED
  BY <1>2, <1>3 DEF C!TypescriptReply, C!PythonReply

\* A handler's step on one request: what it answers has to be true, and so has
\* what it leaves of the others.
LEMMA HandlerKeeps ==
  ASSUME C!ClientsAssumption, C!ClientsInv, NEW c \in Asks, NEW i \in DOMAIN handler[c], NEW h,
         handler' = [handler EXCEPT ![c][i] = h],
         UNCHANGED <<kind, sdk, ask>>,
         C!ServerHolds', DOMAIN server'.charges = Asks,
         server' = [cached |-> server'.cached, minted |-> server'.minted, overlapped |-> server'.overlapped,
                    charges |-> server'.charges, visible |-> server'.visible, stashed |-> server'.stashed,
                    claims |-> server'.claims, job |-> server'.job],
         server'.minted \in Nat, server.minted <= server'.minted,
         server'.claims = server.claims \/ server'.claims = 1,
         \A d \in Asks : server'.charges[d] = server.charges[d] \/ (d = c /\ server'.charges[d] = 1 /\ server.charges[d] = 0),
         C!Under(c, i)'
  PROVE  C!ClientsInv'
<1>1. /\ DOMAIN handler' = Asks /\ DOMAIN handler'[c] = DOMAIN handler[c] /\ handler'[c][i] = h
      /\ \A d \in Asks : d # c => handler'[d] = handler[d]
      /\ \A j \in DOMAIN handler[c] : j # i => handler'[c][j] = handler[c][j]
  BY DEF C!ClientsInv, C!Shapes
<1>2. \A d \in Asks : DOMAIN handler'[d] = DOMAIN handler[d] /\ C!Now(d)' = C!Now(d)
  BY <1>1 DEF C!Now
<1>3. C!Shapes'
  BY <1>1 DEF C!ClientsInv, C!Shapes
<1>4. C!CallsHold'
  BY <1>2 DEF C!ClientsInv, C!CallsHold, C!Attempts
<1>5. C!RequestsHold'
  <2> SUFFICES ASSUME NEW d \in Asks, NEW j \in DOMAIN handler[d], d # c \/ j # i
               PROVE  C!Under(d, j)'
    BY <1>2 DEF C!RequestsHold
  <2>1. C!Under(d, j) /\ handler'[d][j] = handler[d][j]
    BY <1>1 DEF C!ClientsInv, C!RequestsHold
  <2>2. C!SentBefore(d, j)'
    BY <2>1 DEF C!Under, C!SentBefore
  <2>3. kind = "charge" => d # c
    <3>1. ASSUME kind = "charge", d = c PROVE FALSE
      <4>1. C!SentBefore(c, i) /\ C!SentBefore(c, j)
        BY <2>1, <3>1 DEF C!ClientsInv, C!RequestsHold, C!Under
      <4>2. ask[c].polls = 0 /\ ask[c].attempt <= 1 /\ ask[c].attempt \in 0..(MaxRetries + 1) /\ MaxRetries \in Nat
        BY <3>1 DEF C!ClientsInv, C!CallsHold, C!ClientsAssumption
      <4>3. i = <<0, 1>> /\ j = <<0, 1>>
        BY <4>1, <4>2 DEF C!SentBefore
      <4> QED
        BY <3>1, <4>3
    <3> QED
      BY <3>1
  <2>4. \A id \in 1..server.minted : id \in 1..server'.minted
    BY DEF C!ClientsInv, C!ServerHolds
  <2> QED
    BY <2>1, <2>2, <2>3, <2>4 DEF C!Under
<1>6. C!AskedOnce'
  <2>1. \A d \in Asks : C!Returned(d)' <=> C!Returned(d)
    BY DEF C!Returned
  <2>2. \A id \in 1..server.minted : id \in 1..server'.minted
    BY DEF C!ClientsInv, C!ServerHolds
  <2>3. \A d \in Asks : server.charges[d] \in 0..1 /\ server'.charges[d] \in 0..1
    BY DEF C!ClientsInv, C!ServerHolds
  <2> QED
    BY <2>1, <2>2, <2>3 DEF C!ClientsInv, C!AskedOnce, C!ServerHolds
<1> QED
  BY <1>3, <1>4, <1>5, <1>6 DEF C!ClientsInv

\* The actions of the backend on one request, each with what it answers.
LEMMA BackendKeeps ==
  ASSUME C!ClientsAssumption, C!ClientsInv, NEW c \in Asks, NEW i \in DOMAIN handler[c],
         \/ C!Busy(c, i) \/ C!LookUpKey(c, i) \/ C!SaveKey(c, i) \/ C!Charge(c, i) \/ C!Started(c, i)
         \/ C!Verify(c, i) \/ C!Claim(c, i) \/ C!GetJob(c, i)
  PROVE  C!ClientsInv'
<1> DEFINE Answer(id, reply) == [step |-> "answered", id |-> id, reply |-> reply]
           Going(step, id) == [step |-> step, id |-> id, reply |-> None]
<1>1. /\ C!Under(c, i) /\ DOMAIN server.charges = Asks /\ server.charges[c] \in 0..1
      /\ server = [cached |-> server.cached, minted |-> server.minted, overlapped |-> server.overlapped,
                   charges |-> server.charges, visible |-> server.visible, stashed |-> server.stashed,
                   claims |-> server.claims, job |-> server.job]
      /\ server.minted \in Nat /\ DOMAIN handler = Asks
  BY DEF C!ClientsInv, C!RequestsHold, C!Shapes, C!ServerHolds
<1>2. ASSUME NEW h, handler' = [handler EXCEPT ![c][i] = h]
      PROVE  /\ handler'[c][i] = h /\ DOMAIN handler'[c] = DOMAIN handler[c]
             /\ \A d \in Asks : DOMAIN handler'[d] = DOMAIN handler[d]
             /\ \A d \in Asks : \A j \in DOMAIN handler[d] : d # c \/ j # i => handler'[d][j] = handler[d][j]
  BY <1>1, <1>2
<1>3. ASSUME NEW h, handler' = [handler EXCEPT ![c][i] = h], UNCHANGED <<kind, server>>,
             handler[c][i].step = "saving" => h.step = "saving"
      PROVE  C!ServerHolds'
  <2>1. ASSUME C!Saving PROVE C!Saving'
    <3>1. PICK d \in Asks : \E j \in DOMAIN handler[d] : handler[d][j].step = "saving"
      BY <2>1 DEF C!Saving
    <3>2. PICK j \in DOMAIN handler[d] : handler[d][j].step = "saving"
      BY <3>1
    <3>3. j \in DOMAIN handler'[d] /\ handler'[d][j].step = "saving"
      BY <1>2, <1>3, <3>2
    <3> QED
      BY <3>3 DEF C!Saving
  <2> QED
    BY <1>2, <1>3, <2>1 DEF C!ClientsInv, C!ServerHolds
<1>4. ASSUME NEW h, handler' = [handler EXCEPT ![c][i] = h], UNCHANGED <<kind, sdk, ask, server>>,
             handler[c][i].step # "saving", C!Under(c, i)'
      PROVE  C!ClientsInv'
  <2>1. C!ServerHolds'
    BY <1>3, <1>4
  <2>2. /\ DOMAIN server'.charges = Asks /\ server'.minted \in Nat /\ server.minted <= server'.minted
        /\ server'.claims = server.claims /\ \A d \in Asks : server'.charges[d] = server.charges[d]
        /\ server' = [cached |-> server'.cached, minted |-> server'.minted, overlapped |-> server'.overlapped,
                      charges |-> server'.charges, visible |-> server'.visible, stashed |-> server'.stashed,
                      claims |-> server'.claims, job |-> server'.job]
    BY <1>1, <1>4
  <2> QED
    BY <1>4, <2>1, <2>2, HandlerKeeps
<1>5. \A r \in C!Replies : r # None
  BY DEF C!ClientsAssumption
<1>6. ASSUME NEW h, handler' = [handler EXCEPT ![c][i] = h]
      PROVE  C!SentBefore(c, i)' <=> /\ i = <<i[1], i[2]>> /\ i[1] \in 0..ask'[c].polls /\ i[2] \in 1..(MaxRetries + 1)
                                     /\ i[1] = ask'[c].polls => i[2] <= ask'[c].attempt
  BY DEF C!SentBefore
<1>7. UNCHANGED ask => (C!SentBefore(c, i)' <=> C!SentBefore(c, i))
  BY DEF C!SentBefore
<1>8. ASSUME C!Busy(c, i) PROVE C!ClientsInv'
  <2>1. /\ handler' = [handler EXCEPT ![c][i] = Answer(None, "busy")] /\ UNCHANGED <<kind, sdk, ask, server>>
        /\ handler[c][i].step = "arrived"
    BY <1>8 DEF C!Busy, C!Answers, C!Working, C!Clients
  <2>2. C!Under(c, i)'
    BY <1>1, <1>2, <1>5, <1>7, <2>1 DEF C!Under, C!Replies
  <2> QED
    BY <1>4, <2>1, <2>2
<1>9. ASSUME C!SaveKey(c, i) PROVE C!ClientsInv'
  <2>1. /\ handler' = [handler EXCEPT ![c][i] = Answer(handler[c][i].id, "ok")] /\ UNCHANGED <<kind, sdk, ask>>
        /\ handler[c][i].step = "saving" /\ server' = [server EXCEPT !.cached = handler[c][i].id]
    BY <1>9 DEF C!SaveKey, C!Answers, C!Working, C!Clients
  <2>2. kind = "challenge" /\ handler[c][i].id \in 1..server.minted /\ handler[c][i].id # None
    BY <1>1, <2>1 DEF C!Under, C!ClientsAssumption
  <2>3. PICK h : h = Answer(handler[c][i].id, "ok")
    OBVIOUS
  <2>4. /\ server'.cached = handler[c][i].id /\ server'.minted = server.minted /\ server'.overlapped = server.overlapped
        /\ server'.charges = server.charges /\ server'.claims = server.claims /\ server'.job = server.job
        /\ server' = [cached |-> server'.cached, minted |-> server'.minted, overlapped |-> server'.overlapped,
                      charges |-> server'.charges, visible |-> server'.visible, stashed |-> server'.stashed,
                      claims |-> server'.claims, job |-> server'.job]
    BY <1>1, <2>1
  <2>5. handler' = [handler EXCEPT ![c][i] = h]
    BY <2>1, <2>3
  <2>6. C!ServerHolds'
    BY <1>2, <2>1, <2>2, <2>4, <2>5 DEF C!ClientsInv, C!ServerHolds
  <2>7. C!Under(c, i)'
    BY <1>1, <1>2, <1>5, <1>7, <2>1, <2>2, <2>3, <2>4, <2>5 DEF C!Under, C!Replies
  <2>8. server'.minted \in Nat /\ server.minted <= server'.minted
    BY <1>1, <2>4
  <2> QED
    BY <1>1, <2>1, <2>4, <2>5, <2>6, <2>7, <2>8, HandlerKeeps
<1>10. ASSUME C!LookUpKey(c, i) PROVE C!ClientsInv'
  <2>1. /\ kind = "challenge" /\ handler[c][i].step = "arrived" /\ UNCHANGED <<kind, sdk, ask>>
    BY <1>10 DEF C!LookUpKey, C!Working, C!Clients
  <2>2. CASE server.cached # None
    <3>1. handler' = [handler EXCEPT ![c][i] = Answer(server.cached, "ok")] /\ UNCHANGED server
      BY <1>10, <2>2 DEF C!LookUpKey, C!Answers
    <3>2. PICK h : h = Answer(server.cached, "ok")
      OBVIOUS
    <3>3. handler' = [handler EXCEPT ![c][i] = h] /\ handler'[c][i] = h
      BY <1>2, <3>1, <3>2
    <3>4. server.cached \in 1..server.minted
      BY <2>2 DEF C!ClientsInv, C!ServerHolds
    <3>5. C!Under(c, i)'
      BY <1>1, <1>5, <1>7, <2>1, <3>1, <3>2, <3>3, <3>4 DEF C!Under, C!Replies
    <3> QED
      BY <1>4, <2>1, <3>1, <3>3, <3>5
  <2>3. CASE server.cached = None
    <3> DEFINE new == [server EXCEPT !.minted = @ + 1, !.overlapped = server.overlapped \/ C!Saving]
    <3>1. /\ handler' = [handler EXCEPT ![c][i] = Going("saving", server.minted + 1)]
          /\ server' = new
      BY <1>10, <2>3 DEF C!LookUpKey, C!Moves, C!Saving
    <3>2. PICK h : h = Going("saving", server.minted + 1)
      OBVIOUS
    <3>3. handler' = [handler EXCEPT ![c][i] = h] /\ handler'[c][i] = h
      BY <1>2, <3>1, <3>2
    <3>4. /\ server'.cached = None /\ server'.minted = server.minted + 1
          /\ server'.overlapped = (server.overlapped \/ C!Saving)
          /\ server'.charges = server.charges /\ server'.claims = server.claims /\ server'.job = server.job
          /\ server' = [cached |-> server'.cached, minted |-> server'.minted, overlapped |-> server'.overlapped,
                        charges |-> server'.charges, visible |-> server'.visible, stashed |-> server'.stashed,
                        claims |-> server'.claims, job |-> server'.job]
      BY <1>1, <2>3, <3>1
    <3> HIDE DEF new
    <3>5. C!Saving'
      BY <1>2, <3>2, <3>3 DEF C!Saving
    <3>6. C!ServerHolds'
      <4>1. server.minted >= 1 => server.overlapped \/ C!Saving
        BY <1>1, <2>3 DEF C!ClientsInv, C!ServerHolds
      <4>2. server'.overlapped \in BOOLEAN
        BY <3>4 DEF C!ClientsInv, C!ServerHolds, C!Saving
      <4>3. server'.minted > 1 => server'.overlapped
        <5>1. server'.minted > 1 => server.overlapped \/ C!Saving
          BY <1>1, <3>4, <4>1
        <5> QED
          BY <3>4, <5>1, Zenon
      <4>4. server'.claims = IF kind' = "submit" /\ server'.job # None THEN 1 ELSE 0
        BY <2>1, <3>4 DEF C!ClientsInv, C!ServerHolds
      <4> QED
        BY <1>1, <1>2, <2>1, <3>3, <3>4, <3>5, <4>2, <4>3, <4>4 DEF C!ClientsInv, C!ServerHolds
    <3>7. C!Under(c, i)'
      BY <1>1, <1>5, <1>7, <2>1, <3>2, <3>3, <3>4 DEF C!Under
    <3>8. /\ DOMAIN server'.charges = Asks /\ server'.minted \in Nat /\ server.minted <= server'.minted
          /\ \A d \in Asks : server'.charges[d] = server.charges[d]
      BY <1>1, <3>4
    <3> QED
      BY <2>1, <3>3, <3>4, <3>6, <3>7, <3>8, HandlerKeeps
  <2> QED
    BY <2>2, <2>3
<1>11. ASSUME C!Charge(c, i) PROVE C!ClientsInv'
  <2>1. /\ kind = "charge" /\ handler[c][i].step = "arrived" /\ UNCHANGED <<kind, sdk, ask>>
        /\ server.charges[c] = 0
    BY <1>1, <1>11 DEF C!Charge, C!Working, C!Clients, C!Under
  <2>2. CASE handler' = [handler EXCEPT ![c][i] = Answer(None, "refused")] /\ UNCHANGED server
    <3>1. C!Under(c, i)'
      BY <1>1, <1>2, <1>5, <1>7, <2>1, <2>2 DEF C!Under, C!Replies
    <3> QED
      BY <1>4, <2>1, <2>2, <3>1
  <2>3. CASE /\ handler' = [handler EXCEPT ![c][i] = Going("charged", c)]
             /\ server' = [server EXCEPT !.charges[c] = @ + 1]
    <3>1. /\ server'.charges = [server.charges EXCEPT ![c] = 1]
          /\ server'.minted = server.minted /\ server'.overlapped = server.overlapped
          /\ server'.cached = server.cached /\ server'.claims = server.claims /\ server'.job = server.job
          /\ server' = [cached |-> server'.cached, minted |-> server'.minted, overlapped |-> server'.overlapped,
                        charges |-> server'.charges, visible |-> server'.visible, stashed |-> server'.stashed,
                        claims |-> server'.claims, job |-> server'.job]
      BY <1>1, <2>1, <2>3
    <3>2. handler'[c][i] = Going("charged", c)
      BY <1>2, <2>3
    <3>3. C!ServerHolds'
      <4>1. ~C!Saving
        BY <2>1 DEF C!ClientsInv, C!RequestsHold, C!Under, C!Saving
      <4> QED
        BY <1>1, <1>2, <2>1, <2>3, <3>1, <4>1 DEF C!ClientsInv, C!ServerHolds
    <3>4. C!Under(c, i)'
      BY <1>1, <1>5, <1>7, <2>1, <3>1, <3>2 DEF C!Under
    <3>5. DOMAIN server'.charges = Asks /\ server'.minted \in Nat /\ server.minted <= server'.minted
      BY <1>1, <3>1
    <3> QED
      BY <1>1, <2>1, <2>3, <3>1, <3>3, <3>4, <3>5, HandlerKeeps
  <2> QED
    BY <1>11, <2>2, <2>3 DEF C!Charge, C!Answers, C!Moves
<1>12. ASSUME C!Started(c, i) PROVE C!ClientsInv'
  <2>1. handler[c][i].step = "charged" /\ UNCHANGED <<kind, sdk, ask, server>>
    BY <1>12 DEF C!Started, C!Working, C!Clients
  <2>2. PICK r \in {"ok", "busy"} : handler' = [handler EXCEPT ![c][i] = Answer(c, r)]
    BY <1>12 DEF C!Started, C!Answers
  <2>3. C!Under(c, i)'
    BY <1>1, <1>2, <1>5, <1>7, <2>1, <2>2 DEF C!Under, C!Replies
  <2> QED
    BY <1>4, <2>1, <2>2, <2>3
<1>13. ASSUME C!Verify(c, i) PROVE C!ClientsInv'
  <2>1. /\ kind = "submit" /\ handler[c][i].step = "arrived" /\ UNCHANGED <<kind, sdk, ask, server>>
    BY <1>13 DEF C!Verify, C!Working, C!Clients
  <2>2. PICK h \in {Answer(None, "refused"), Answer(None, "not_visible"), Going("verified", None)} :
          handler' = [handler EXCEPT ![c][i] = h]
    BY <1>13 DEF C!Verify, C!Answers, C!Moves
  <2>3. C!Under(c, i)'
    BY <1>1, <1>2, <1>5, <1>7, <2>1, <2>2 DEF C!Under, C!Replies
  <2> QED
    BY <1>4, <2>1, <2>2, <2>3
<1>14. ASSUME C!Claim(c, i) PROVE C!ClientsInv'
  <2>1. /\ handler[c][i].step = "verified" /\ UNCHANGED <<kind, sdk, ask>> /\ kind = "submit"
        /\ handler' = [handler EXCEPT ![c][i] = Answer("job", "ok")]
        /\ server' = IF server.job # None THEN server ELSE [server EXCEPT !.job = "running", !.claims = server.claims + 1]
    BY <1>1, <1>14 DEF C!Claim, C!Working, C!Clients, C!Answers, C!Under
  <2>2. /\ server'.claims = 1 /\ server'.job # None /\ server'.charges = server.charges
        /\ server'.minted = server.minted /\ server'.overlapped = server.overlapped /\ server'.cached = server.cached
        /\ server' = [cached |-> server'.cached, minted |-> server'.minted, overlapped |-> server'.overlapped,
                      charges |-> server'.charges, visible |-> server'.visible, stashed |-> server'.stashed,
                      claims |-> server'.claims, job |-> server'.job]
    <3>1. CASE server.job # None
      BY <1>1, <2>1, <3>1 DEF C!ClientsInv, C!ServerHolds
    <3>2. CASE server.job = None
      <4>1. server' = [server EXCEPT !.job = "running", !.claims = server.claims + 1] /\ server.claims = 0
        BY <2>1, <3>2 DEF C!ClientsInv, C!ServerHolds
      <4>2. "running" # None
        BY <1>5 DEF C!Replies
      <4>3. server' = [cached |-> server.cached, minted |-> server.minted, overlapped |-> server.overlapped,
                       charges |-> server.charges, visible |-> server.visible, stashed |-> server.stashed,
                       claims |-> 1, job |-> "running"]
        <5>1. server = [cached |-> server.cached, minted |-> server.minted, overlapped |-> server.overlapped,
                        charges |-> server.charges, visible |-> server.visible, stashed |-> server.stashed,
                        claims |-> server.claims, job |-> server.job]
          BY <1>1
        <5>2. server' = [[server EXCEPT !.job = "running"] EXCEPT !.claims = 1]
          BY <4>1
        <5> QED
          BY <5>1, <5>2
      <4> QED
        BY <4>2, <4>3
    <3> QED
      BY <3>1, <3>2
  <2>3. C!ServerHolds'
    <3>1. ~C!Saving
      BY <2>1 DEF C!ClientsInv, C!RequestsHold, C!Under, C!Saving
    <3> QED
      BY <1>1, <1>2, <2>1, <2>2, <3>1 DEF C!ClientsInv, C!ServerHolds
  <2>4. C!Under(c, i)'
    BY <1>1, <1>2, <1>5, <1>7, <2>1, <2>2 DEF C!Under, C!Replies
  <2>5. server'.minted \in Nat /\ server.minted <= server'.minted
    BY <1>1, <2>2
  <2> QED
    BY <1>1, <2>1, <2>2, <2>3, <2>4, <2>5, HandlerKeeps
<1>15. ASSUME C!GetJob(c, i) PROVE C!ClientsInv'
  <2>1. /\ kind = "wait" /\ handler[c][i].step = "arrived" /\ UNCHANGED <<kind, sdk, ask, server>>
    BY <1>15 DEF C!GetJob, C!Working, C!Clients
  <2>2. PICK h \in {Answer("settled", "ok"), Answer(server.job, "running")} :
          handler' = [handler EXCEPT ![c][i] = h]
    BY <1>15 DEF C!GetJob, C!Answers
  <2>3. C!Under(c, i)'
    BY <1>1, <1>2, <1>5, <1>7, <2>1, <2>2 DEF C!Under, C!Replies
  <2> QED
    BY <1>4, <2>1, <2>2, <2>3
<1> QED
  BY <1>8, <1>9, <1>10, <1>11, <1>12, <1>13, <1>14, <1>15

\* What happens to the payment and the job by itself.
LEMMA ChainKeeps ==
  ASSUME C!ClientsAssumption, C!ClientsInv, C!PaymentLands \/ C!SettleJob
  PROVE  C!ClientsInv'
<1>1. /\ UNCHANGED <<kind, sdk, ask, handler>>
      /\ server'.cached = server.cached /\ server'.minted = server.minted
      /\ server'.overlapped = server.overlapped /\ server'.charges = server.charges
      /\ server'.claims = server.claims /\ (server'.job = None <=> server.job = None)
      /\ server' = [cached |-> server'.cached, minted |-> server'.minted, overlapped |-> server'.overlapped,
                    charges |-> server'.charges, visible |-> server'.visible, stashed |-> server'.stashed,
                    claims |-> server'.claims, job |-> server'.job]
  <2>1. server = [cached |-> server.cached, minted |-> server.minted, overlapped |-> server.overlapped,
                  charges |-> server.charges, visible |-> server.visible, stashed |-> server.stashed,
                  claims |-> server.claims, job |-> server.job]
    BY DEF C!ClientsInv, C!Shapes
  <2>2. UNCHANGED <<kind, sdk, ask, handler>>
    BY DEF C!PaymentLands, C!SettleJob, C!Clients
  <2>3. CASE server' = [server EXCEPT !.visible = TRUE]
    BY <2>1, <2>2, <2>3
  <2>4. CASE server.job = "running" /\ server' = [server EXCEPT !.job = "settled", !.stashed = FALSE]
    <3>1. server.job # None /\ server'.job # None
      <4>1. server'.job = "settled"
        BY <2>1, <2>4
      <4> QED
        BY <2>4, <4>1 DEF C!ClientsAssumption, C!Replies
    <3> QED
      BY <2>1, <2>2, <2>4, <3>1
  <2> QED
    BY <2>3, <2>4 DEF C!PaymentLands, C!SettleJob
<1>2. C!Shapes' /\ C!CallsHold'
  BY <1>1 DEF C!ClientsInv, C!Shapes, C!CallsHold, C!Attempts, C!Now
<1>3. C!RequestsHold' /\ C!ServerHolds' /\ C!AskedOnce'
  BY <1>1 DEF C!ClientsInv, C!RequestsHold, C!Under, C!SentBefore, C!ServerHolds, C!Saving, C!AskedOnce, C!Returned
<1> QED
  BY <1>2, <1>3 DEF C!ClientsInv

\* Every step of the clients and of the backend.
LEMMA ClientsStep ==
  ASSUME C!ClientsAssumption, C!ClientsInv, [C!Next]_(C!vars)
  PROVE  C!ClientsInv'
<1>1. CASE C!PaymentLands \/ C!SettleJob
  BY <1>1, ChainKeeps
<1>2. ASSUME NEW c \in Asks, C!Request(c) \/ C!TypescriptReply(c) \/ C!PythonReply(c) \/ C!McpReply(c)
      PROVE  C!ClientsInv'
  BY <1>2, RequestKeeps, ReplyKeeps
<1>3. ASSUME NEW c \in Asks, NEW i \in DOMAIN handler[c],
             \/ C!Busy(c, i) \/ C!LookUpKey(c, i) \/ C!SaveKey(c, i) \/ C!Charge(c, i) \/ C!Started(c, i)
             \/ C!Verify(c, i) \/ C!Claim(c, i) \/ C!GetJob(c, i)
      PROVE  C!ClientsInv'
  BY <1>3, BackendKeeps
<1>4. CASE UNCHANGED C!vars
  BY <1>4 DEF C!vars, C!ClientsInv, C!Shapes, C!CallsHold, C!Attempts, C!Now, C!RequestsHold, C!Under,
              C!SentBefore, C!ServerHolds, C!Saving, C!AskedOnce, C!Returned
<1> QED
  BY <1>1, <1>2, <1>3, <1>4 DEF C!Next

\* Whatever the clients give up and send again, however many they are: an ask is
\* charged at most once, a question is fulfilled at most once, and who was
\* answered holds what the backend has (sdk/, mcp-server/).
THEOREM ClientsAskOnce == ASSUME C!ClientsAssumption PROVE C!Spec => []C!AskedOnce
<1>1. C!Init => C!ClientsInv
  BY ClientsInit
<1>2. C!ClientsInv /\ [C!Next]_(C!vars) => C!ClientsInv'
  BY ClientsStep
<1>3. C!ClientsInv => C!AskedOnce
  BY DEF C!ClientsInv
<1> QED
  BY <1>1, <1>2, <1>3, PTL DEF C!Spec

------------------------------------------------------------------------------
\* The parts of the invariant say what there is to say of sessions and of keys.
LEMMA AccessFollows == A!TypeOK /\ A!LoginsHold /\ A!TokensHold /\ A!KeysHold => A!AccessHolds
<1> SUFFICES ASSUME A!TypeOK, A!LoginsHold, A!TokensHold, A!KeysHold
             PROVE  A!AccessHolds
  OBVIOUS
<1>1. ASSUME NEW l \in Logins, NEW m \in Logins, l # m, login[l].nonce = login[m].nonce,
             session[l].exp >= 0, session[m].exp >= 0
      PROVE  {l, m} \subseteq overlapped
  <2>1. A!In(l) /\ A!In(m)
    BY <1>1 DEF A!TokensHold
  <2> QED
    BY <1>1, <2>1 DEF A!LoginsHold, A!Passed
<1>2. ASSUME NEW l \in signedOut, A!VerifySession(l)
      PROVE  now = session[l].exp /\ revoked[l] = -1
  <2>1. l \in Logins
    BY <1>2 DEF A!TokensHold
  <2> QED
    BY <1>2, <2>1 DEF A!VerifySession, A!ParseSessionToken, A!TokensHold, A!In, A!LoginAt, A!TypeOK
<1>3. ASSUME Rotations \cap overlapped = {}, A!UnderWay = {}, accountKey # None
      PROVE  keys = {accountKey}
  BY <1>3 DEF A!KeysHold, A!Moments, A!UnderWay, A!RotationAt
<1> QED
  BY <1>1, <1>2, <1>3 DEF A!AccessHolds, A!KeysHold, A!OldAreDead

\* Nobody has asked for anything.
LEMMA AccessInit ==
  ASSUME A!AccessAssumption, A!Init
  PROVE  A!AccessInv
<1>1. A!Shapes /\ A!TypeOK
  BY DEF A!Init, A!Shapes, A!TypeOK, A!None0, A!AccessAssumption
<1>2. A!LoginsHold
  BY DEF A!Init, A!LoginsHold, A!LoginAt, A!Passed, A!In, A!None0, A!AccessAssumption
<1>3. A!TokensHold
  BY DEF A!Init, A!TokensHold, A!LoginAt, A!In
<1>4. A!KeysHold
  BY DEF A!Init, A!KeysHold, A!RotationAt, A!Moments, A!Others, A!OldAreDead
<1> QED
  BY <1>1, <1>2, <1>3, <1>4, AccessFollows DEF A!AccessInv

\* Keys are nothing to a step of a session, but for a request of the same name.
LEMMA SessionsLeaveKeys ==
  ASSUME A!AccessAssumption, A!AccessInv, UNCHANGED A!account, overlapped \subseteq overlapped'
  PROVE  A!KeysHold'
<1>1. /\ UNCHANGED <<keys, accountKey, rotation, shown>>
      /\ Rotations \cap overlapped' = {} => Rotations \cap overlapped = {}
  BY DEF A!account
<1> QED
  BY <1>1 DEF A!AccessInv, A!KeysHold, A!RotationAt, A!Moments, A!Others, A!AccountIs, A!OldAreDead

LEMMA KeysLeaveSessions ==
  ASSUME A!AccessAssumption, A!AccessInv, UNCHANGED <<now, A!auth>>, overlapped \subseteq overlapped'
  PROVE  A!LoginsHold' /\ A!TokensHold'
<1>1. UNCHANGED <<now, nonce, login, session, revoked, secret, signedOut>>
  BY DEF A!auth
<1>2. A!LoginsHold'
  BY <1>1 DEF A!AccessInv, A!LoginsHold, A!LoginAt, A!Passed, A!In
<1>3. A!TokensHold'
  BY <1>1 DEF A!AccessInv, A!TokensHold, A!LoginAt, A!In
<1> QED
  BY <1>2, <1>3

\* A challenge is outstanding, to be answered by its own login or with its signature.
LEMMA ChallengeKeeps ==
  ASSUME A!AccessAssumption, A!AccessInv, NEW l \in Logins,
         A!BuildChallenge(l) \/ \E other \in Logins \ {l} : A!SignAgain(l, other)
  PROVE  A!AccessInv'
<1>1. /\ UNCHANGED <<now, session, revoked, secret, signedOut, keys, accountKey, rotation, shown, overlapped>>
      /\ UNCHANGED A!account /\ A!LoginAt(l, "idle")
  BY DEF A!BuildChallenge, A!SignAgain, A!account
<1>2. PICK n \in Logins : /\ login' = [login EXCEPT ![l] = [at |-> "signed", nonce |-> n]]
                          /\ \/ n = l /\ nonce'.of = l
                             \/ n # l /\ login[n].nonce = n /\ UNCHANGED nonce
  BY DEF A!BuildChallenge, A!SignAgain
<1>3. /\ DOMAIN login' = Logins /\ login'[l] = [at |-> "signed", nonce |-> n]
      /\ \A m \in Logins : m # l => login'[m] = login[m]
  BY <1>2 DEF A!AccessInv, A!Shapes
<1>4. ~A!LoginAt(n, "idle")'
  <2>1. n # l => ~A!LoginAt(n, "idle")
    BY <1>2 DEF A!AccessInv, A!LoginsHold, A!AccessAssumption
  <2> QED
    BY <1>3, <2>1 DEF A!LoginAt
<1>5. A!Shapes'
  BY <1>1, <1>3 DEF A!AccessInv, A!Shapes, A!BuildChallenge, A!SignAgain
<1>6. A!TypeOK'
  BY <1>1, <1>2 DEF A!AccessInv, A!TypeOK
<1>7. A!LoginsHold'
  <2>1. \A m \in Logins : m # l => (A!In(m)' <=> A!In(m)) /\ (A!Passed(m)' <=> A!Passed(m))
    BY <1>3 DEF A!In, A!Passed, A!LoginAt
  <2>2. ~A!In(l)' /\ ~A!Passed(l)' /\ ~A!LoginAt(l, "idle")'
    BY <1>3 DEF A!In, A!Passed, A!LoginAt
  <2>3. ASSUME NEW m \in Logins, m # l
        PROVE  /\ IF A!LoginAt(m, "idle")' THEN login'[m].nonce = None
                  ELSE login'[m].nonce \in Logins /\ ~A!LoginAt(login[m].nonce, "idle")'
               /\ nonce'.of = m => ~A!LoginAt(m, "idle")'
               /\ A!In(m)' => login'[m].nonce # nonce'.of
    <3>1. \A x \in Logins : A!LoginAt(x, "idle")' => A!LoginAt(x, "idle")
      BY <1>1, <1>3 DEF A!LoginAt
    <3>2. A!In(m) => login[m].nonce # l
      BY <1>1 DEF A!AccessInv, A!LoginsHold, A!In, A!LoginAt
    <3> QED
      BY <1>2, <1>3, <2>1, <2>3, <3>1, <3>2 DEF A!AccessInv, A!LoginsHold, A!LoginAt
  <2>4. ASSUME NEW m \in Logins, NEW o \in Logins \ {m}, A!Passed(m)', A!Passed(o)', login'[m].nonce = login'[o].nonce
        PROVE  {m, o} \subseteq overlapped'
    BY <1>1, <1>3, <2>1, <2>2, <2>4 DEF A!AccessInv, A!LoginsHold
  <2>5. nonce'.of = l => ~A!LoginAt(l, "idle")'
    BY <2>2
  <2> QED
    BY <1>3, <1>4, <2>2, <2>3, <2>4, <2>5 DEF A!LoginsHold
<1>8. A!TokensHold'
  <2>1. \A m \in Logins : m # l => (A!In(m)' <=> A!In(m)) /\ (A!LoginAt(m, "out")' <=> A!LoginAt(m, "out"))
    BY <1>3 DEF A!In, A!LoginAt
  <2>2. ~A!In(l)' /\ ~A!In(l) /\ ~A!LoginAt(l, "out")' /\ ~A!LoginAt(l, "out")
    BY <1>1, <1>3 DEF A!In, A!LoginAt
  <2> QED
    BY <1>1, <2>1, <2>2 DEF A!AccessInv, A!TokensHold
<1>9. A!KeysHold'
  BY <1>1, SessionsLeaveKeys
<1>10. A!AccessHolds'
  BY <1>6, <1>7, <1>8, <1>9, AccessFollows, PTL
<1> QED
  BY <1>5, <1>6, <1>7, <1>8, <1>9, <1>10 DEF A!AccessInv

\* A challenge is verified while others of it may be: whoever is verified at the
\* same time is among those that overlapped.
LEMMA VerifyKeeps ==
  ASSUME A!AccessAssumption, A!AccessInv, NEW l \in Logins, A!VerifyChallenge(l)
  PROVE  A!AccessInv'
<1> DEFINE outstanding == nonce.of # None /\ now <= nonce.until
           others == {o \in Logins : A!LoginAt(o, "verified")}
           ok == outstanding /\ login[l].nonce = nonce.of
<1>1. /\ A!LoginAt(l, "signed")
      /\ login' = [login EXCEPT ![l].at = IF ok THEN "verified" ELSE "refused"]
      /\ overlapped' = overlapped \cup IF ok /\ others # {} THEN {l} \cup others ELSE {}
      /\ UNCHANGED <<now, nonce, session, revoked, secret, signedOut, A!account>>
      /\ UNCHANGED <<keys, accountKey, rotation, shown>>
  BY DEF A!VerifyChallenge, A!LoginTo, A!account
<1>2. /\ DOMAIN login' = Logins
      /\ login'[l] = [at |-> IF ok THEN "verified" ELSE "refused", nonce |-> login[l].nonce]
      /\ \A m \in Logins : m # l => login'[m] = login[m]
  BY <1>1 DEF A!AccessInv, A!Shapes
<1>3. /\ overlapped \subseteq overlapped' /\ overlapped' \subseteq Logins \cup Rotations
      /\ ok /\ others # {} => {l} \cup others \subseteq overlapped'
  BY <1>1 DEF A!AccessInv, A!TypeOK
<1>4. \A m \in Logins : m # l => /\ A!In(m)' <=> A!In(m)
                                 /\ A!Passed(m)' <=> A!Passed(m)
                                 /\ A!LoginAt(m, "idle")' <=> A!LoginAt(m, "idle")
                                 /\ A!LoginAt(m, "out")' <=> A!LoginAt(m, "out")
  BY <1>2 DEF A!In, A!Passed, A!LoginAt
<1>5. /\ ~A!In(l) /\ ~A!In(l)' /\ ~A!LoginAt(l, "out") /\ ~A!LoginAt(l, "out")'
      /\ ~A!LoginAt(l, "idle") /\ ~A!LoginAt(l, "idle")' /\ (A!Passed(l)' => ok)
  BY <1>1, <1>2 DEF A!In, A!Passed, A!LoginAt
<1> HIDE DEF ok, others
<1>6. A!Shapes'
  BY <1>1, <1>2 DEF A!AccessInv, A!Shapes, A!VerifyChallenge
<1>7. A!TypeOK'
  BY <1>1, <1>3 DEF A!AccessInv, A!TypeOK
<1>8. A!LoginsHold'
  <2>1. \A m \in Logins : A!LoginAt(m, "idle")' <=> A!LoginAt(m, "idle")
    BY <1>4, <1>5
  <2>2. \A m \in Logins : login'[m].nonce = login[m].nonce
    BY <1>2
  <2>3. ASSUME NEW m \in Logins
        PROVE  /\ IF A!LoginAt(m, "idle")' THEN login'[m].nonce = None
                  ELSE login'[m].nonce \in Logins /\ ~A!LoginAt(login[m].nonce, "idle")'
               /\ nonce'.of = m => ~A!LoginAt(m, "idle")'
               /\ A!In(m)' => login'[m].nonce # nonce'.of
    BY <1>1, <1>4, <1>5, <2>1, <2>2 DEF A!AccessInv, A!LoginsHold
  <2>4. ASSUME NEW m \in Logins, m # l, A!Passed(l)', A!Passed(m)', login'[m].nonce = login'[l].nonce
        PROVE  {l, m} \subseteq overlapped'
    <3>1. ok /\ A!Passed(m) /\ login[m].nonce = nonce.of
      BY <1>4, <1>5, <2>2, <2>4 DEF ok
    <3>2. ~A!In(m)
      BY <3>1 DEF A!AccessInv, A!LoginsHold
    <3>3. m \in others
      BY <3>1, <3>2 DEF A!Passed, others
    <3> QED
      BY <1>3, <3>1, <3>3
  <2>5. ASSUME NEW m \in Logins, NEW o \in Logins \ {m}, A!Passed(m)', A!Passed(o)', login'[m].nonce = login'[o].nonce
        PROVE  {m, o} \subseteq overlapped'
    <3>1. CASE m = l \/ o = l
      BY <2>4, <2>5, <3>1
    <3>2. CASE m # l /\ o # l
      BY <1>3, <1>4, <2>2, <2>5, <3>2 DEF A!AccessInv, A!LoginsHold
    <3> QED
      BY <3>1, <3>2
  <2> QED
    BY <2>2, <2>3, <2>5 DEF A!LoginsHold
<1>9. A!TokensHold'
  BY <1>1, <1>4, <1>5 DEF A!AccessInv, A!TokensHold
<1>10. A!KeysHold'
  BY <1>1, <1>3, SessionsLeaveKeys
<1>11. A!AccessHolds'
  BY <1>7, <1>8, <1>9, <1>10, AccessFollows, PTL
<1> QED
  BY <1>6, <1>7, <1>8, <1>9, <1>10, <1>11 DEF A!AccessInv

\* What is done with a session: it is issued, its revocation is asked for and kept.
LEMMA SessionKeeps ==
  ASSUME A!AccessAssumption, A!AccessInv, NEW l \in Logins,
         A!IssueSession(l) \/ A!Revoke(l) \/ A!RevokeSession(l)
  PROVE  A!AccessInv'
<1>1. /\ UNCHANGED <<now, secret, A!account, overlapped>> /\ UNCHANGED <<keys, accountKey, rotation, shown>>
      /\ A!Passed(l) /\ ~A!LoginAt(l, "idle") /\ ~A!LoginAt(l, "out")
  BY DEF A!IssueSession, A!Revoke, A!RevokeSession, A!account, A!LoginAt, A!Passed, A!In
<1>2. PICK step \in {"in", "revoking", "out"} :
        /\ login' = [login EXCEPT ![l].at = step]
        /\ \/ step = "in" /\ A!IssueSession(l)
           \/ step = "revoking" /\ A!Revoke(l)
           \/ step = "out" /\ A!RevokeSession(l)
  BY DEF A!IssueSession, A!Revoke, A!RevokeSession, A!LoginTo
<1>3. /\ DOMAIN login' = Logins /\ login'[l] = [at |-> step, nonce |-> login[l].nonce]
      /\ \A m \in Logins : m # l => login'[m] = login[m]
  BY <1>2 DEF A!AccessInv, A!Shapes
<1>4. /\ \A m \in Logins : /\ A!Passed(m)' <=> A!Passed(m)
                           /\ A!LoginAt(m, "idle")' <=> A!LoginAt(m, "idle")
                           /\ m # l => (A!In(m)' <=> A!In(m)) /\ (A!LoginAt(m, "out")' <=> A!LoginAt(m, "out"))
      /\ A!In(l)' /\ (A!LoginAt(l, "out")' <=> step = "out")
      /\ \A m \in Logins : login'[m].nonce = login[m].nonce
  BY <1>1, <1>3 DEF A!In, A!Passed, A!LoginAt
<1>5. login[l].nonce \in Logins /\ login[l].nonce # None
  BY <1>1 DEF A!AccessInv, A!LoginsHold, A!AccessAssumption
<1>6. nonce' = A!None0 \/ (nonce' = nonce /\ A!In(l))
  BY <1>2 DEF A!IssueSession, A!Revoke, A!RevokeSession, A!In, A!LoginAt
<1>7. A!LoginsHold'
  <2>1. nonce'.of = None \/ (nonce'.of = nonce.of /\ A!In(l))
    BY <1>6 DEF A!None0
  <2>2. ASSUME NEW m \in Logins
        PROVE  /\ IF A!LoginAt(m, "idle")' THEN login'[m].nonce = None
                  ELSE login'[m].nonce \in Logins /\ ~A!LoginAt(login[m].nonce, "idle")'
               /\ nonce'.of = m => ~A!LoginAt(m, "idle")'
               /\ A!In(m)' => login'[m].nonce # nonce'.of
    <3>1. None \notin Logins
      BY DEF A!AccessAssumption
    <3>2. A!In(m)' => ~A!LoginAt(m, "idle")'
      BY DEF A!In, A!LoginAt
    <3> QED
      BY <1>4, <2>1, <3>1, <3>2 DEF A!AccessInv, A!LoginsHold
  <2>3. ASSUME NEW m \in Logins, NEW o \in Logins \ {m}, A!Passed(m)', A!Passed(o)', login'[m].nonce = login'[o].nonce
        PROVE  {m, o} \subseteq overlapped'
    BY <1>1, <1>4, <2>3 DEF A!AccessInv, A!LoginsHold
  <2> QED
    BY <1>4, <2>2, <2>3 DEF A!LoginsHold
<1>8. session' \in [Logins -> [exp : Int, secret : {0, 1}]] /\ revoked' \in [Logins -> Int] => A!Shapes'
  BY <1>1, <1>2 DEF A!AccessInv, A!Shapes, A!account
<1>9. A!Shapes' /\ A!TokensHold' /\ A!TypeOK'
  <2>1. /\ now \in Nat /\ secret \in {0, 1} /\ SessionTtl \in Nat /\ revoked[l] = -1 /\ l \notin signedOut
        /\ session[l].exp \in Int /\ session[l].secret \in 0..secret
    <3>1. now \in Nat /\ SessionTtl \in Nat
      BY DEF A!AccessInv, A!TypeOK, A!AccessAssumption
    <3>2. secret \in {0, 1} /\ session[l].exp \in Int
      BY DEF A!AccessInv, A!Shapes
    <3>3. revoked[l] = -1 /\ l \notin signedOut /\ session[l].secret \in 0..secret
      BY <1>1 DEF A!AccessInv, A!TokensHold
    <3> QED
      BY <3>1, <3>2, <3>3
  <2>2. CASE step = "in"
    <3>1. /\ session' = [session EXCEPT ![l] = [exp |-> now + SessionTtl, secret |-> secret]]
          /\ nonce' = A!None0 /\ UNCHANGED <<revoked, signedOut>>
      BY <1>2, <2>2 DEF A!IssueSession
    <3>2. /\ session'[l] = [exp |-> now + SessionTtl, secret |-> secret] /\ DOMAIN session' = Logins
          /\ \A m \in Logins : m # l => session'[m] = session[m]
      BY <3>1 DEF A!AccessInv, A!Shapes
    <3>3. /\ \A m \in Logins : revoked'[m] <= session'[m].exp /\ nonce'.of = None
      BY <2>1, <3>1, <3>2 DEF A!AccessInv, A!TypeOK, A!None0
    <3>4. A!TypeOK'
      BY <1>1, <3>1, <3>3 DEF A!AccessInv, A!TypeOK
    <3>5. A!TokensHold'
      BY <1>1, <1>4, <2>1, <2>2, <3>1, <3>2 DEF A!AccessInv, A!TokensHold
    <3> QED
      BY <1>8, <2>1, <3>1, <3>4, <3>5 DEF A!AccessInv, A!Shapes
  <2>3. CASE step = "revoking"
    <3>1. UNCHANGED <<nonce, session, revoked, signedOut>> /\ A!In(l)
      BY <1>2, <2>3 DEF A!Revoke, A!In, A!LoginAt
    <3>2. A!TokensHold'
      BY <1>1, <1>4, <2>3, <3>1 DEF A!AccessInv, A!TokensHold
    <3> QED
      BY <1>1, <1>8, <3>1, <3>2 DEF A!AccessInv, A!Shapes, A!TypeOK
  <2>4. CASE step = "out"
    <3> DEFINE remaining == session[l].exp - now
    <3>1. /\ UNCHANGED <<nonce, session>> /\ A!In(l) /\ signedOut' = signedOut \cup {l}
          /\ \/ /\ A!ParseSessionToken(l) /\ remaining > 0
                /\ revoked' = [revoked EXCEPT ![l] = now + remaining]
             \/ ~(A!ParseSessionToken(l) /\ remaining > 0) /\ revoked' = revoked
      BY <1>2, <2>4 DEF A!RevokeSession, A!In, A!LoginAt
    <3>2. /\ DOMAIN revoked' = Logins /\ \A m \in Logins : m # l => revoked'[m] = revoked[m]
          /\ \/ revoked'[l] = session[l].exp
             \/ revoked'[l] = -1 /\ (session[l].secret < secret \/ session[l].exp <= now)
      BY <2>1, <3>1 DEF A!AccessInv, A!Shapes, A!ParseSessionToken
    <3>3. A!TokensHold'
      BY <1>1, <1>4, <2>4, <3>1, <3>2 DEF A!AccessInv, A!TokensHold
    <3>4. \A m \in Logins : revoked'[m] <= session'[m].exp
      BY <2>1, <3>1, <3>2 DEF A!AccessInv, A!TypeOK
    <3>5. A!TypeOK'
      BY <1>1, <3>1, <3>4 DEF A!AccessInv, A!TypeOK
    <3> QED
      BY <1>8, <2>1, <3>1, <3>3, <3>5 DEF A!AccessInv, A!Shapes
  <2> QED
    BY <2>2, <2>3, <2>4
<1>10. A!KeysHold'
  BY <1>1, SessionsLeaveKeys
<1>11. A!AccessHolds'
  BY <1>7, <1>9, <1>10, AccessFollows, PTL
<1> QED
  BY <1>7, <1>9, <1>10, <1>11 DEF A!AccessInv

\* Time passes, or the secret is changed: neither brings a session back.
LEMMA ClockKeeps ==
  ASSUME A!AccessAssumption, A!AccessInv, A!RotateSecret \/ A!Tick
  PROVE  A!AccessInv'
<1>1. /\ UNCHANGED <<nonce, login, session, revoked, signedOut, overlapped>>
      /\ UNCHANGED A!account /\ UNCHANGED <<keys, accountKey, rotation, shown>>
      /\ \/ UNCHANGED now /\ secret = 0 /\ secret' = 1
         \/ UNCHANGED secret /\ now < MaxTime /\ now' = now + 1
  BY DEF A!RotateSecret, A!Tick, A!auth, A!account
<1>2. A!Shapes' /\ A!TypeOK'
  BY <1>1 DEF A!AccessInv, A!Shapes, A!TypeOK, A!AccessAssumption
<1>3. A!LoginsHold'
  BY <1>1 DEF A!AccessInv, A!LoginsHold, A!LoginAt, A!Passed, A!In
<1>4. A!TokensHold'
  <2>1. /\ secret \in 0..secret' /\ secret \in {0, 1} /\ now \in Int /\ now <= now'
        /\ \A l \in Logins : session[l].secret \in {0, 1} /\ session[l].exp \in Int
    BY <1>1 DEF A!AccessInv, A!Shapes, A!TypeOK, A!AccessAssumption
  <2>2. \A l \in Logins : (A!In(l)' <=> A!In(l)) /\ (A!LoginAt(l, "out")' <=> A!LoginAt(l, "out"))
    BY <1>1 DEF A!In, A!LoginAt
  <2> QED
    BY <1>1, <2>1, <2>2 DEF A!AccessInv, A!TokensHold
<1>5. A!KeysHold'
  BY <1>1, SessionsLeaveKeys
<1>6. A!AccessHolds'
  BY <1>2, <1>3, <1>4, <1>5, AccessFollows, PTL
<1> QED
  BY <1>2, <1>3, <1>4, <1>5, <1>6 DEF A!AccessInv

\* While no rotation overlapped another or died, a step of one of them takes the
\* keys from one moment to the next.
LEMMA MomentsPass ==
  ASSUME A!AccessAssumption, A!AccessInv, A!Moments, A!OldAreDead, NEW r \in Rotations,
         \A s \in Rotations : s # r => rotation'[s] = rotation[s],
         \/ A!CreateAccount(r) /\ rotation'[r].at = "created" /\ rotation'[r].old = rotation[r].old
         \/ A!FinishAccount(r) /\ rotation'[r].at = "done" /\ rotation'[r].old = rotation[r].old
         \/ /\ \E old \in Rotations : A!MintKey(r, old) /\ rotation'[r].old = old
            /\ A!UnderWay = {} /\ rotation'[r].at = "minted"
         \/ A!DeleteOldKey(r) /\ rotation'[r].at = "swapped" /\ rotation'[r].old = rotation[r].old
         \/ A!RevealKey(r) /\ rotation'[r].at = "done" /\ rotation'[r].old = rotation[r].old
  PROVE  A!Moments' /\ A!OldAreDead'
<1>1. None \notin Rotations
  BY DEF A!AccessAssumption
<1>2. \A s \in Rotations : rotation[s].old # None => rotation[s].old \in Rotations /\ rotation[rotation[s].old].at # "idle"
  BY DEF A!AccessInv, A!KeysHold, A!RotationAt
<1>3. CASE A!CreateAccount(r) /\ rotation'[r].at = "created" /\ rotation'[r].old = rotation[r].old
  <2>1. accountKey = None /\ keys = {} /\ keys' = {r} /\ UNCHANGED <<accountKey, shown>>
    BY <1>3 DEF A!CreateAccount
  <2>2. shown = {} /\ \A s \in Rotations : rotation[s].at = "idle"
    BY <1>1, <2>1 DEF A!Moments, A!Others, A!AccountIs, A!RotationAt
  <2> QED
    BY <1>3, <2>1, <2>2 DEF A!Moments, A!Others, A!OldAreDead, A!RotationAt
<1>4. CASE A!FinishAccount(r) /\ rotation'[r].at = "done" /\ rotation'[r].old = rotation[r].old
  <2>1. rotation[r].at = "created" /\ accountKey' = r /\ UNCHANGED keys
    BY <1>4 DEF A!FinishAccount, A!RotationAt
  <2>2. keys = {r} /\ \A s \in Rotations \ {r} : rotation[s].at = "idle"
    BY <1>1, <2>1 DEF A!Moments, A!Others, A!RotationAt
  <2>3. rotation[r].old = None
    BY <2>1 DEF A!AccessInv, A!KeysHold, A!RotationAt
  <2> QED
    BY <1>1, <1>4, <2>1, <2>2, <2>3 DEF A!Moments, A!Others, A!AccountIs, A!OldAreDead, A!RotationAt
<1>5. CASE /\ \E old \in Rotations : A!MintKey(r, old) /\ rotation'[r].old = old
           /\ A!UnderWay = {} /\ rotation'[r].at = "minted"
  <2>1. PICK old \in Rotations : /\ old \in keys /\ old \in shown /\ rotation'[r].old = old
                                 /\ keys' = keys \cup {r} /\ rotation[r].at = "idle" /\ UNCHANGED accountKey
    BY <1>5 DEF A!MintKey, A!RotationAt
  <2>2. /\ accountKey = old /\ keys = {old} /\ rotation[old].at = "done"
        /\ \A s \in Rotations : rotation[s].at \in {"idle", "done"}
    BY <1>1, <1>5, <2>1 DEF A!Moments, A!Others, A!AccountIs, A!RotationAt, A!UnderWay
  <2>3. old # r /\ \A s \in Rotations : rotation[s].at = "done" => s # r /\ rotation[s].old # r
    BY <1>1, <1>2, <2>1, <2>2
  <2>4. A!Moments'
    BY <1>5, <2>1, <2>2, <2>3 DEF A!Moments, A!Others, A!AccountIs, A!RotationAt
  <2>5. A!OldAreDead'
    BY <1>5, <2>1, <2>3 DEF A!OldAreDead, A!RotationAt
  <2> QED
    BY <2>4, <2>5
<1>6. CASE A!DeleteOldKey(r) /\ rotation'[r].at = "swapped" /\ rotation'[r].old = rotation[r].old
  <2>1. rotation[r].at = "minted" /\ keys' = keys \ {rotation[r].old} /\ UNCHANGED accountKey
    BY <1>6 DEF A!DeleteOldKey, A!RotationAt
  <2>2. /\ accountKey = rotation[r].old /\ keys = {accountKey, r} /\ accountKey \in Rotations
        /\ rotation[accountKey].at = "done" /\ \A s \in Rotations \ {r} : rotation[s].at \in {"idle", "done"}
    BY <1>1, <2>1 DEF A!Moments, A!Others, A!AccountIs, A!RotationAt
  <2>3. keys' = {r} /\ accountKey # r
    BY <2>1, <2>2
  <2> QED
    BY <1>6, <2>1, <2>2, <2>3 DEF A!Moments, A!Others, A!AccountIs, A!OldAreDead, A!RotationAt
<1>7. CASE A!RevealKey(r) /\ rotation'[r].at = "done" /\ rotation'[r].old = rotation[r].old
  <2>1. rotation[r].at = "swapped" /\ accountKey' = r /\ UNCHANGED keys
    BY <1>7 DEF A!RevealKey, A!RotationAt
  <2>2. /\ keys = {r} /\ accountKey = rotation[r].old /\ rotation[accountKey].at = "done"
        /\ \A s \in Rotations \ {r} : rotation[s].at \in {"idle", "done"}
    BY <1>1, <2>1 DEF A!Moments, A!Others, A!AccountIs, A!RotationAt
  <2> QED
    BY <1>1, <1>7, <2>1, <2>2 DEF A!Moments, A!Others, A!AccountIs, A!OldAreDead, A!RotationAt
<1> QED
  BY <1>3, <1>4, <1>5, <1>6, <1>7

\* A step of a rotation.
LEMMA RotationKeeps ==
  ASSUME A!AccessAssumption, A!AccessInv, NEW r \in Rotations,
         \/ A!CreateAccount(r) \/ A!FinishAccount(r) \/ \E old \in Rotations : A!MintKey(r, old)
         \/ A!DeleteOldKey(r) \/ A!RevealKey(r) \/ A!Die(r)
  PROVE  A!AccessInv'
<1> DEFINE Moves(step) == rotation' = [rotation EXCEPT ![r].at = step]
           Mints == \E old \in Rotations : /\ A!MintKey(r, old)
                                            /\ rotation' = [rotation EXCEPT ![r] = [at |-> "minted", old |-> old]]
<1>1. \/ A!CreateAccount(r) /\ Moves("created")
      \/ A!FinishAccount(r) /\ Moves("done")
      \/ Mints
      \/ A!DeleteOldKey(r) /\ Moves("swapped")
      \/ A!RevealKey(r) /\ Moves("done")
      \/ A!Die(r) /\ Moves("died")
  BY DEF A!CreateAccount, A!FinishAccount, A!MintKey, A!DeleteOldKey, A!RevealKey, A!Die, A!RotationTo
<1>2. /\ UNCHANGED <<now, A!auth>> /\ UNCHANGED <<now, nonce, login, session, revoked, secret, signedOut>>
      /\ overlapped \subseteq overlapped'
  BY DEF A!CreateAccount, A!FinishAccount, A!MintKey, A!DeleteOldKey, A!RevealKey, A!Die, A!auth
<1>3. /\ rotation' \in [Rotations -> [at : {"idle", "created", "minted", "swapped", "done", "died"},
                                      old : Rotations \cup {None}]]
      /\ \A s \in Rotations : s # r => rotation'[s] = rotation[s]
      /\ rotation'[r].at # "idle"
  BY <1>1 DEF A!AccessInv, A!Shapes
<1>4. A!LoginsHold' /\ A!TokensHold'
  BY <1>2, KeysLeaveSessions
<1>5. A!Shapes'
  BY <1>2, <1>3 DEF A!AccessInv, A!Shapes
<1>6. A!TypeOK'
  <2>1. overlapped' \subseteq Logins \cup Rotations
    BY DEF A!AccessInv, A!TypeOK, A!UnderWay, A!CreateAccount, A!FinishAccount, A!MintKey, A!DeleteOldKey, A!RevealKey, A!Die
  <2>2. keys' \subseteq Logins \cup Rotations
    BY DEF A!AccessInv, A!TypeOK, A!CreateAccount, A!FinishAccount, A!MintKey, A!DeleteOldKey, A!RevealKey, A!Die
  <2>3. shown' \subseteq Logins \cup Rotations /\ accountKey' \in Rotations \cup {None}
    BY DEF A!AccessInv, A!TypeOK, A!CreateAccount, A!FinishAccount, A!MintKey, A!DeleteOldKey, A!RevealKey, A!Die
  <2> QED
    BY <1>2, <2>1, <2>2, <2>3 DEF A!AccessInv, A!TypeOK
<1>7. A!KeysHold'
  <2>1. \A k \in keys' \cup shown' : k \in keys \cup shown \cup {r}
    BY DEF A!CreateAccount, A!FinishAccount, A!MintKey, A!DeleteOldKey, A!RevealKey, A!Die
  <2>2. \A k \in keys' \cup shown' : k \in Rotations /\ ~A!RotationAt(k, "idle")'
    BY <1>3, <2>1 DEF A!AccessInv, A!KeysHold, A!RotationAt
  <2>3. /\ rotation'[r].at = "created" => rotation'[r].old = None
        /\ rotation'[r].old = rotation[r].old \/ rotation'[r].old \in keys
    <3>1. CASE Mints
      BY <3>1 DEF A!AccessInv, A!Shapes, A!MintKey
    <3>2. CASE \E step \in {"done", "swapped", "died"} : Moves(step)
      BY <3>2 DEF A!AccessInv, A!Shapes
    <3>3. CASE A!CreateAccount(r) /\ Moves("created")
      BY <3>3 DEF A!AccessInv, A!Shapes, A!KeysHold, A!RotationAt, A!CreateAccount
    <3> QED
      BY <1>1, <3>1, <3>2, <3>3
  <2>4. ASSUME NEW s \in Rotations
        PROVE  /\ A!RotationAt(s, "idle")' \/ A!RotationAt(s, "created")' => rotation'[s].old = None
               /\ rotation'[s].old # None => rotation'[s].old \in Rotations /\ rotation'[rotation'[s].old].at # "idle"
    <3>1. \A k \in Rotations : rotation[k].at # "idle" => rotation'[k].at # "idle"
      BY <1>3
    <3>2. rotation'[s].old # None => rotation'[s].old \in Rotations /\ rotation[rotation'[s].old].at # "idle"
      BY <1>3, <2>3 DEF A!AccessInv, A!KeysHold, A!RotationAt
    <3>3. A!RotationAt(s, "idle")' \/ A!RotationAt(s, "created")' => rotation'[s].old = None
      BY <1>3, <2>3 DEF A!AccessInv, A!KeysHold, A!RotationAt
    <3> QED
      BY <3>1, <3>2, <3>3
  <2>5. ASSUME Rotations \cap overlapped' = {}
        PROVE  A!Moments' /\ A!OldAreDead'
    <3>1. A!Moments /\ A!OldAreDead /\ ~A!Die(r)
      BY <1>2, <2>5 DEF A!AccessInv, A!KeysHold, A!Die
    <3>2. CASE Mints
      <4>1. A!UnderWay = {}
        BY <2>5, <3>2 DEF A!MintKey
      <4> QED
        BY <1>3, <3>1, <3>2, <4>1, MomentsPass DEF A!AccessInv, A!Shapes
    <3>3. ASSUME ~Mints
          PROVE  A!Moments' /\ A!OldAreDead'
      <4>1. /\ \A step : Moves(step) => rotation'[r].at = step
            /\ \A step : Moves(step) => rotation'[r].old = rotation[r].old
        BY DEF A!AccessInv, A!Shapes
      <4> HIDE DEF Moves
      <4>2. \/ A!CreateAccount(r) /\ rotation'[r].at = "created" /\ rotation'[r].old = rotation[r].old
            \/ A!FinishAccount(r) /\ rotation'[r].at = "done" /\ rotation'[r].old = rotation[r].old
            \/ A!DeleteOldKey(r) /\ rotation'[r].at = "swapped" /\ rotation'[r].old = rotation[r].old
            \/ A!RevealKey(r) /\ rotation'[r].at = "done" /\ rotation'[r].old = rotation[r].old
        BY <1>1, <3>1, <3>3, <4>1
      <4> QED
        BY <1>3, <3>1, <4>2, MomentsPass
    <3> QED
      BY <1>1, <3>1, <3>2, <3>3
  <2> QED
    BY <2>2, <2>4, <2>5 DEF A!KeysHold, A!RotationAt
<1>8. A!AccessHolds'
  BY <1>4, <1>6, <1>7, AccessFollows, PTL
<1> QED
  BY <1>4, <1>5, <1>6, <1>7, <1>8 DEF A!AccessInv

\* Every step of whoever signs in or changes a key.
LEMMA AccessStep ==
  ASSUME A!AccessAssumption, A!AccessInv, [A!Next]_(A!vars)
  PROVE  A!AccessInv'
<1>1. CASE A!RotateSecret \/ A!Tick
  BY <1>1, ClockKeeps
<1>2. ASSUME NEW l \in Logins, A!BuildChallenge(l) \/ \E other \in Logins \ {l} : A!SignAgain(l, other)
      PROVE  A!AccessInv'
  BY <1>2, ChallengeKeeps
<1>3. ASSUME NEW l \in Logins, A!VerifyChallenge(l)
      PROVE  A!AccessInv'
  BY <1>3, VerifyKeeps
<1>4. ASSUME NEW l \in Logins, A!IssueSession(l) \/ A!Revoke(l) \/ A!RevokeSession(l)
      PROVE  A!AccessInv'
  BY <1>4, SessionKeeps
<1>5. ASSUME NEW r \in Rotations,
             \/ A!CreateAccount(r) \/ A!FinishAccount(r) \/ \E old \in Rotations : A!MintKey(r, old)
             \/ A!DeleteOldKey(r) \/ A!RevealKey(r) \/ A!Die(r)
      PROVE  A!AccessInv'
  BY <1>5, RotationKeeps
<1>6. CASE UNCHANGED A!vars
  <2>1. /\ UNCHANGED <<now, A!auth>> /\ UNCHANGED A!account
        /\ UNCHANGED <<now, nonce, login, session, revoked, secret, signedOut, keys, accountKey, rotation, shown, overlapped>>
    BY <1>6 DEF A!vars, A!auth, A!account
  <2>2. A!KeysHold' /\ A!LoginsHold' /\ A!TokensHold'
    BY <2>1, SessionsLeaveKeys, KeysLeaveSessions
  <2>3. A!Shapes' /\ A!TypeOK'
    BY <2>1 DEF A!AccessInv, A!Shapes, A!TypeOK
  <2>4. A!AccessHolds'
    BY <2>2, <2>3, AccessFollows, PTL
  <2> QED
    BY <2>2, <2>3, <2>4 DEF A!AccessInv
<1> QED
  BY <1>1, <1>2, <1>3, <1>4, <1>5, <1>6 DEF A!Next

\* However many sign in and rotate keys: a challenge is one session but for those
\* verified together, a session answered as revoked stays revoked, and who rotated
\* alone holds the one key that resolves (workerAuth.js, billing.js).
THEOREM SessionsAndKeys == ASSUME A!AccessAssumption PROVE A!Spec => []A!AccessHolds
<1>1. A!Init => A!AccessInv
  BY AccessInit
<1>2. A!AccessInv /\ [A!Next]_(A!vars) => A!AccessInv'
  BY AccessStep
<1>3. A!AccessInv => A!AccessHolds
  BY DEF A!AccessInv
<1> QED
  BY <1>1, <1>2, <1>3, PTL DEF A!Spec

------------------------------------------------------------------------------
\* What was checked when an instance started and when its faults were added is
\* all the gates need.
LEMMA GatesFollow == G!InstancesHold /\ G!SignedHold => G!GatesHold
<1> SUFFICES ASSUME G!InstancesHold, G!SignedHold
             PROVE  G!GatesHold
  OBVIOUS
<1>1. ASSUME NEW i \in G!Up, NEW s \in Sessions, inst[i].env.production, gateSession[s] # None,
             s \notin gateRevoked, gateSession[s].production
      PROVE  G!VerifySession(i, s)
  <2>1. inst[i].env.secret /\ inst[i].secret = 0
    BY <1>1 DEF G!InstancesHold, G!EnforceSecurityPosture, G!Fatal, G!Environments
  <2> QED
    BY <1>1, <2>1 DEF G!SignedHold, G!VerifySession, G!VerifySessionToken
<1>2. ASSUME NEW i \in G!Up, NEW r \in G!Routes, "injected" \in G!Replies(i, r, None)
      PROVE  ~inst[i].env.production /\ r # G!Scrape /\ r \notin G!EditFaults
  <2>1. PICK f \in inst[i].faults : ~G!IsProtected(r.path)
    <3>1. G!Injected(i, r) # {}
      BY <1>2 DEF G!Replies
    <3> QED
      BY <3>1 DEF G!Injected
  <2>2. ~inst[i].env.production
    BY <1>2, <2>1 DEF G!InstancesHold, G!EnforceSecurityPosture, G!Fatal
  <2>3. r # G!Scrape /\ r \notin G!EditFaults
    BY <2>1 DEF G!IsProtected, G!Protected, G!Scrape, G!EditFaults, G!Route
  <2> QED
    BY <2>2, <2>3
<1>3. ASSUME NEW i \in G!Up, inst[i].faults # {}, NEW r \in G!EditFaults
      PROVE  G!Replies(i, r, "admin") = {"handled"}
  <2>1. G!IsProtected(r.path) /\ r.guard = "admin"
    BY <1>3 DEF G!EditFaults, G!Route, G!IsProtected, G!Protected
  <2>2. G!Injected(i, r) = {}
    BY <2>1 DEF G!Injected
  <2>3. G!ReadOnlyGate(i, r) /\ G!Guard(i, r, "admin")
    BY <1>3, <2>1 DEF G!InstancesHold, G!ReadOnlyGate, G!Guard, G!RequireAdmin
  <2> QED
    BY <2>2, <2>3 DEF G!Replies
<1>4. ASSUME NEW i \in G!Up, NEW r \in G!Routes, NEW t \in Sessions \cup {"admin"},
             inst[i].env.canary, G!Handled(i, r, t)
      PROVE  r.read
  BY <1>4 DEF G!Handled, G!Replies, G!ReadOnlyGate
<1> QED
  BY <1>1, <1>2, <1>3, <1>4 DEF G!GatesHold

\* No instance is up.
LEMMA GatesInit ==
  ASSUME G!Init
  PROVE  G!GatesInv
<1>1. G!InstancesHold /\ G!SignedHold
  BY DEF G!Init, G!InstancesHold, G!Up, G!SignedHold
<1> QED
  BY <1>1, GatesFollow DEF G!GatesInv, G!Init

\* Every step of an instance, and of whoever is let in by it.
LEMMA GatesStep ==
  ASSUME G!GatesInv, [G!Next]_(G!vars)
  PROVE  G!GatesInv'
<1> DEFINE Good(k) == /\ k \in [env : G!Environments, faults : SUBSET G!Faults, secret : Nat]
                      /\ G!EnforceSecurityPosture(k.env) /\ (k.env.secret => k.secret = 0)
                      /\ k.faults # {} => k.env.faultInjection /\ k.env.admin /\ ~k.env.canary
           AllGood == /\ DOMAIN inst' = Instances /\ boots' \in Nat
                      /\ \A i \in Instances : inst'[i] # None => Good(inst'[i])
<1>1. \A i \in Instances : inst[i] # None => Good(inst[i])
  BY DEF G!GatesInv, G!InstancesHold, G!Up
<1>2. AllGood
  <2>1. ASSUME NEW i \in Instances, NEW env \in G!Environments, G!Boot(i, env)
        PROVE  AllGood
    <3>1. /\ G!EnforceSecurityPosture(env) /\ boots \in Nat /\ boots' = boots + 1 /\ DOMAIN inst = Instances
          /\ inst' = [inst EXCEPT ![i] = [env |-> env, faults |-> {}, secret |-> G!SessionSecret(env)]]
      BY <2>1 DEF G!Boot, G!GatesInv
    <3>2. Good([env |-> env, faults |-> {}, secret |-> G!SessionSecret(env)])
      BY <3>1 DEF G!SessionSecret
    <3> QED
      BY <1>1, <3>1, <3>2
  <2>2. ASSUME NEW i \in Instances, inst[i] # None,
               \/ G!Stop(i)
               \/ G!ClearFaults(i)
               \/ \E f \in G!Faults : G!AddFault(i, f)
        PROVE  AllGood
    <3>1. DOMAIN inst = Instances /\ boots' \in Nat
      BY <2>2 DEF G!GatesInv, G!Stop, G!ClearFaults, G!AddFault
    <3>2. CASE G!Stop(i)
      BY <1>1, <3>1, <3>2 DEF G!Stop
    <3>3. CASE G!ClearFaults(i)
      <4>1. inst' = [inst EXCEPT ![i].faults = {}]
        BY <3>3 DEF G!ClearFaults
      <4> QED
        BY <1>1, <2>2, <3>1, <4>1
    <3>4. ASSUME NEW f \in G!Faults, G!AddFault(i, f)
          PROVE  AllGood
      <4>1. PICK r \in G!EditFaults : G!Handled(i, r, "admin")
        BY <3>4 DEF G!AddFault
      <4>2. r.guard = "admin" /\ ~r.read
        BY DEF G!EditFaults, G!Route
      <4>3. ~inst[i].env.canary /\ inst[i].env.admin
        BY <4>1, <4>2 DEF G!Handled, G!Replies, G!ReadOnlyGate, G!Guard, G!RequireAdmin
      <4>4. inst' = [inst EXCEPT ![i].faults = inst[i].faults \cup {f}] /\ inst[i].env.faultInjection
        BY <3>4 DEF G!AddFault
      <4> QED
        BY <1>1, <2>2, <3>1, <4>3, <4>4
    <3> QED
      BY <2>2, <3>2, <3>3, <3>4
  <2>3. CASE UNCHANGED <<inst, boots>>
    BY <1>1, <2>3 DEF G!GatesInv
  <2>4. \A i \in Instances : G!ClearFaults(i) \/ G!Stop(i) \/ (\E f \in G!Faults : G!AddFault(i, f)) => inst[i] # None
    BY DEF G!ClearFaults, G!Stop, G!AddFault, G!Handled
  <2> QED
    BY <2>1, <2>2, <2>3, <2>4 DEF G!Next, G!IssueSession, G!RevokeSession, G!vars
<1>3. DOMAIN gateSession' = Sessions /\ G!SignedHold'
  <2>1. ASSUME NEW i \in Instances, NEW s \in Sessions, G!IssueSession(i, s)
        PROVE  DOMAIN gateSession' = Sessions /\ G!SignedHold'
    <3>1. /\ DOMAIN gateSession = Sessions /\ inst[i] # None
          /\ gateSession' = [gateSession EXCEPT ![s] = [secret |-> inst[i].secret, production |-> inst[i].env.production]]
      BY <2>1 DEF G!IssueSession, G!GatesInv, G!Handled
    <3>2. inst[i].env.production => inst[i].secret = 0
      BY <1>1, <3>1 DEF G!EnforceSecurityPosture, G!Fatal
    <3> QED
      BY <3>1, <3>2 DEF G!GatesInv, G!SignedHold
  <2>2. CASE UNCHANGED gateSession
    BY <2>2 DEF G!GatesInv, G!SignedHold
  <2> QED
    BY <2>1, <2>2 DEF G!Next, G!Boot, G!Stop, G!AddFault, G!ClearFaults, G!RevokeSession, G!vars
<1>4. G!InstancesHold'
  BY <1>2 DEF G!InstancesHold, G!Up
<1>5. G!GatesHold'
  BY <1>3, <1>4, GatesFollow, PTL
<1> QED
  BY <1>2, <1>3, <1>4, <1>5 DEF G!GatesInv

\* On every instance of any fleet: a session of production holds until it is revoked,
\* no injected fault answers a request of production, a drill can always be ended,
\* and a canary handles reads only (securityPosture.js, faultInjection.js, canary.js).
THEOREM GatesKeepTheirWord == G!Spec => []G!GatesHold
<1>1. G!Init => G!GatesInv
  BY GatesInit
<1>2. G!GatesInv /\ [G!Next]_(G!vars) => G!GatesInv'
  BY GatesStep
<1>3. G!GatesInv => G!GatesHold
  BY DEF G!GatesInv
<1> QED
  BY <1>1, <1>2, <1>3, PTL DEF G!Spec


-----------------------------------------------------------------------------
(* Request limits, in both stores *)

\* What is known of finite sets is known of those of Stores.
LEMMA StoreCardinality == \A S : /\ St!Cardinality(S) = Cardinality(S)
                                 /\ St!IsFiniteSet(S) <=> IsFiniteSet(S)
<1>1. \A S : St!Cardinality(S) = Cardinality(S)
  BY Zenon DEF St!Cardinality, Cardinality
<1>2. \A S : St!IsFiniteSet(S) <=> IsFiniteSet(S)
  BY Zenon DEF St!IsFiniteSet, IsFiniteSet
<1> QED
  BY <1>1, <1>2

\* Who counts less finds less.
LEMMA FewerIn ==
  ASSUME NEW S, St!IsFiniteSet(S)
  PROVE  /\ St!Cardinality(S) \in Nat
         /\ \A U \in SUBSET S : St!IsFiniteSet(U) /\ St!Cardinality(U) \in Nat /\ St!Cardinality(U) <= St!Cardinality(S)
<1>1. IsFiniteSet(S) /\ Cardinality(S) \in Nat
  BY StoreCardinality, FS_CardinalityType
<1>2. ASSUME NEW U \in SUBSET S
      PROVE  IsFiniteSet(U) /\ Cardinality(U) \in Nat /\ Cardinality(U) <= Cardinality(S)
  <2>1. IsFiniteSet(U) /\ Cardinality(U) <= Cardinality(S)
    BY <1>1, FS_Subset
  <2> QED
    BY <2>1, FS_CardinalityType
<1> QED
  BY <1>1, <1>2, StoreCardinality

\* One more than before is one more at most.
LEMMA OneMoreIn ==
  ASSUME NEW S, NEW x, St!IsFiniteSet(S)
  PROVE  /\ St!IsFiniteSet(S \cup {x}) /\ St!Cardinality(S \cup {x}) \in Nat
         /\ St!Cardinality(S \cup {x}) <= St!Cardinality(S) + 1
<1>1. IsFiniteSet(S) /\ Cardinality(S) \in Nat
  BY StoreCardinality, FS_CardinalityType
<1>2. /\ IsFiniteSet(S \cup {x})
      /\ Cardinality(S \cup {x}) = IF x \in S THEN Cardinality(S) ELSE Cardinality(S) + 1
  BY <1>1, FS_AddElement
<1>3. Cardinality(S \cup {x}) \in Nat
  BY <1>2, FS_CardinalityType
<1> QED
  BY <1>1, <1>2, <1>3, StoreCardinality

\* Two sets together.
LEMMA TogetherIn ==
  ASSUME NEW S, NEW U, St!IsFiniteSet(S), St!IsFiniteSet(U)
  PROVE  St!Cardinality(S \cup U) <= St!Cardinality(S) + St!Cardinality(U)
<1>1. /\ IsFiniteSet(S) /\ IsFiniteSet(U) /\ IsFiniteSet(S \cap U)
  BY StoreCardinality, FS_Subset
<1>2. Cardinality(S \cup U) = Cardinality(S) + Cardinality(U) - Cardinality(S \cap U)
  BY <1>1, FS_Union
<1>3. Cardinality(S) \in Nat /\ Cardinality(U) \in Nat /\ Cardinality(S \cap U) \in Nat
  BY <1>1, FS_CardinalityType
<1>4. Cardinality(S \cup U) <= Cardinality(S) + Cardinality(U)
  BY <1>2, <1>3
<1> QED
  BY <1>4, StoreCardinality

\* The counters of a store are numbers, and only what lives counts.
LEMMA CountIs ==
  ASSUME St!StoresAssumption, NEW store \in [St!Keys -> St!Counters \cup {None}], NEW k \in St!Keys
  PROVE  /\ St!Live(store[k]) => store[k] \in St!Counters /\ St!Count(store, k) = store[k].value
         /\ St!Count(store, k) \in Nat
<1>1. store[k] # None => store[k] \in St!Counters /\ store[k].value \in Nat
  BY DEF St!Counters
<1> QED
  BY <1>1 DEF St!Live, St!Count

\* The keys the lemmas are about.
LEMMA StoreKeys ==
  ASSUME St!StoresAssumption, St!TypeOK
  PROVE  /\ St!Requests \in St!Keys /\ <<"lock", 0>> \in St!Keys /\ <<"credit", 0>> \in St!Keys
         /\ now \in Int /\ now >= 0 /\ now <= LastTick /\ LastTick \in Nat
         /\ Ttl \in Nat /\ Ttl >= 1 /\ Limit \in Nat
BY DEF St!StoresAssumption, St!TypeOK, St!Requests, St!Keys, St!Topics

\* A request is admitted by memory only while the counter, which has every request of the
\* last Ttl, has room.
LEMMA MemoryAdmits ==
  ASSUME St!StoresAssumption, St!StoresInv, NEW c \in Clients, St!CheckRateLimit(c)
  PROVE  /\ St!MemoryLimits'
         /\ \A t \in 0..LastTick : St!Cardinality(St!Within(admitted'.memory, t)) <= Limit
<1> DEFINE e == mem[St!Requests]
           times == admitted.memory
           n == St!Count(mem, St!Requests) + 1
           new == <<now, St!Cardinality(times)>>
           later == IF n <= Limit THEN times \cup {new} ELSE times
<1>1. /\ now \in Int /\ now >= 0 /\ now <= LastTick /\ LastTick \in Nat
      /\ Ttl \in Nat /\ Ttl >= 1 /\ Limit \in Nat /\ St!Requests \in St!Keys
  BY StoreKeys DEF St!StoresInv
<1>2. /\ topic = "requests" /\ mem \in [St!Keys -> St!Counters \cup {None}] /\ St!MemoryLimits
      /\ \A t \in 0..LastTick : St!Cardinality(St!Within(times, t)) <= Limit
  BY DEF St!CheckRateLimit, St!StoresInv, St!LimitsHold, St!Counting, St!CountersHold
<1>3. n \in Nat /\ n >= 1 /\ (St!Live(e) => e \in St!Counters /\ n = e.value + 1)
  BY <1>1, <1>2, CountIs
<1>4. mem'[St!Requests] = St!Entry(n, now + Ttl)
  BY <1>1, <1>2 DEF St!CheckRateLimit, St!MemoryIncr
<1>5. St!Entry(n, now + Ttl).value = n /\ St!Entry(n, now + Ttl).expires = now + Ttl
      /\ St!Entry(n, now + Ttl) \in St!Counters /\ St!Entry(n, now + Ttl) # None
  BY <1>1, <1>3 DEF St!Entry, St!Counters, St!StoresAssumption
<1>6. admitted'.memory = later /\ now' = now
  BY <1>4, <1>5 DEF St!CheckRateLimit
<1>7. /\ St!IsFiniteSet(times) /\ \A a \in times : a[1] \in Int /\ a[1] <= now
      /\ e = None => times = {}
      /\ e # None => /\ e.expires - Ttl <= now /\ \A a \in times : a[1] <= e.expires - Ttl
                     /\ \A t \in 0..LastTick : t >= e.expires - 2 * Ttl => St!Cardinality(St!Since(times, t)) <= e.value
                     /\ e.expires \in Int
  BY <1>1, <1>2 DEF St!MemoryLimits, St!Times, St!Counters
<1>8. new[1] = now
  OBVIOUS
<1> HIDE DEF e, times, n, new
<1>9. St!IsFiniteSet(later) /\ later \subseteq times \cup {new} /\ \A a \in later : a[1] \in Int /\ a[1] <= now
  <2>1. St!IsFiniteSet(times) /\ St!IsFiniteSet(times \cup {new})
    BY <1>7, OneMoreIn
  <2>2. later = times \/ later = times \cup {new}
    OBVIOUS
  <2>3. \A a \in times \cup {new} : a[1] \in Int /\ a[1] <= now
    BY <1>1, <1>7, <1>8
  <2> QED
    BY <2>1, <2>2, <2>3
<1>10. ASSUME NEW t \in 0..LastTick, t >= now - Ttl
       PROVE  St!Cardinality(St!Since(times, t)) <= n - 1
  <2>1. CASE St!Live(e)
    <3>1. e # None /\ e.expires >= now
      BY <2>1 DEF St!Live
    <3>2. t >= e.expires - 2 * Ttl
      BY <1>1, <1>7, <1>10, <3>1
    <3>3. e.value \in Nat
      BY <1>3, <2>1 DEF St!Counters
    <3> QED
      BY <1>3, <1>7, <2>1, <3>1, <3>2, <3>3
  <2>2. CASE ~St!Live(e)
    <3>1. \A a \in times : a[1] < t
      BY <1>1, <1>7, <1>10, <2>2 DEF St!Live
    <3>2. St!Since(times, t) = {}
      BY <1>1, <1>7, <3>1 DEF St!Since
    <3>3. St!Cardinality({}) = 0
      BY FS_EmptySet, StoreCardinality
    <3> QED
      BY <1>3, <3>2, <3>3
  <2> QED
    BY <2>1, <2>2
<1>11. ASSUME NEW t \in 0..LastTick, t >= now - Ttl
       PROVE  /\ St!Cardinality(St!Since(later, t)) <= n
              /\ St!IsFiniteSet(St!Since(later, t))
  <2>1. /\ St!IsFiniteSet(St!Since(times, t)) /\ St!Cardinality(St!Since(times, t)) \in Nat
    BY <1>7, FewerIn DEF St!Since
  <2>2. /\ St!IsFiniteSet(St!Since(times, t) \cup {new})
        /\ St!Cardinality(St!Since(times, t) \cup {new}) \in Nat
        /\ St!Cardinality(St!Since(times, t) \cup {new}) <= St!Cardinality(St!Since(times, t)) + 1
    BY <2>1, OneMoreIn
  <2>3. St!Since(later, t) \subseteq St!Since(times, t) \cup {new}
    BY <1>9 DEF St!Since
  <2>4. /\ St!IsFiniteSet(St!Since(later, t)) /\ St!Cardinality(St!Since(later, t)) \in Nat
        /\ St!Cardinality(St!Since(later, t)) <= St!Cardinality(St!Since(times, t) \cup {new})
    BY <2>2, <2>3, FewerIn
  <2> QED
    BY <1>3, <1>10, <1>11, <2>1, <2>2, <2>4
<1>12. St!MemoryLimits'
  <2> DEFINE x == St!Entry(n, now + Ttl)
  <2> HIDE DEF later
  <2>1. x # None /\ x.value = n /\ x.expires = now + Ttl
    BY <1>5
  <2> HIDE DEF x
  <2>2. ASSUME NEW t \in 0..LastTick, t >= x.expires - 2 * Ttl
        PROVE  St!Cardinality(St!Since(later, t)) <= x.value
    <3>1. t >= now - Ttl
      BY <1>1, <2>1, <2>2
    <3> QED
      BY <1>11, <2>1, <3>1
  <2>3. x.expires - Ttl <= now /\ \A a \in later : a[1] <= x.expires - Ttl
    BY <1>1, <1>9, <2>1
  <2>4. mem'[St!Requests] = x /\ admitted'.memory = later /\ now' = now
    BY <1>4, <1>6 DEF x
  <2> QED
    BY <1>9, <2>1, <2>2, <2>3, <2>4 DEF St!MemoryLimits, St!Times, St!Since
<1>13. ASSUME NEW t \in 0..LastTick
       PROVE  St!Cardinality(St!Within(later, t)) <= Limit
  <2>1. CASE n > Limit
    BY <1>1, <1>2, <1>3, <2>1
  <2>2. CASE n <= Limit /\ now \in t..(t + Ttl)
    <3>1. t >= now - Ttl
      BY <1>1, <2>2
    <3>2. St!Within(later, t) \subseteq St!Since(later, t)
      BY <1>1 DEF St!Within, St!Since
    <3>3. /\ St!Cardinality(St!Within(later, t)) \in Nat /\ St!Cardinality(St!Since(later, t)) \in Nat
          /\ St!Cardinality(St!Within(later, t)) <= St!Cardinality(St!Since(later, t))
      BY <1>11, <3>1, <3>2, FewerIn
    <3> QED
      BY <1>1, <1>3, <1>11, <2>2, <3>1, <3>3
  <2>3. CASE n <= Limit /\ now \notin t..(t + Ttl)
    <3>1. St!Within(later, t) = St!Within(times, t)
      BY <1>8, <2>3 DEF St!Within
    <3> QED
      BY <1>2, <3>1
  <2> QED
    BY <1>1, <1>3, <2>1, <2>2, <2>3
<1> QED
  BY <1>6, <1>12, <1>13

\* In Redis a window begins with the first request that finds no counter: what is admitted
\* since is no more than the limit, and neither is what was admitted in the Ttl before.
LEMMA RedisAdmits ==
  ASSUME St!StoresAssumption, St!StoresInv, NEW c \in Clients, St!CheckRateLimit(c)
  PROVE  /\ St!RedisLimits'
         /\ \A t \in 0..LastTick : St!Cardinality(St!Within(admitted'.redis, t)) <= 2 * Limit
<1> DEFINE e == redis[St!Requests]
           times == admitted.redis
           n == St!Count(redis, St!Requests) + 1
           end == IF St!Live(e) THEN e.expires ELSE St!Never
           new == <<now, St!Cardinality(times)>>
           later == IF n <= Limit THEN times \cup {new} ELSE times
           Before(X, s) == St!Since(X, s - Ttl) \ St!Since(X, s)
<1>1. /\ now \in Int /\ now >= 0 /\ now <= LastTick /\ LastTick \in Nat
      /\ Ttl \in Nat /\ Ttl >= 1 /\ Limit \in Nat /\ St!Requests \in St!Keys
      /\ St!Never = LastTick + Ttl + 1
  BY StoreKeys DEF St!StoresInv, St!Never
<1>2. /\ topic = "requests" /\ redis \in [St!Keys -> St!Counters \cup {None}] /\ St!RedisLimits
      /\ \A t \in 0..LastTick : St!Cardinality(St!Within(times, t)) <= 2 * Limit
  BY DEF St!CheckRateLimit, St!StoresInv, St!LimitsHold, St!Counting, St!CountersHold
<1>3. n \in Nat /\ n >= 1 /\ (St!Live(e) => e \in St!Counters /\ n = e.value + 1)
      /\ (~St!Live(e) => n = 1)
  BY <1>1, <1>2, CountIs DEF St!Count
<1>4. end \in Int
  BY <1>1, <1>3 DEF St!Counters
<1>5. redis'[St!Requests] = St!Entry(n, end)
  BY <1>1, <1>2 DEF St!CheckRateLimit, St!RedisIncr
<1>6. St!Entry(n, end).value = n /\ St!Entry(n, end).expires = end /\ St!Entry(n, end) # None
  <2>1. St!Entry(n, end) \in St!Counters
    BY <1>3, <1>4 DEF St!Entry, St!Counters
  <2> QED
    BY <2>1 DEF St!Entry, St!StoresAssumption
<1>7. admitted'.redis = later /\ now' = now
  BY <1>5, <1>6 DEF St!CheckRateLimit
<1>8. /\ St!IsFiniteSet(times) /\ \A a \in times : a[1] \in Int /\ a[1] <= now
      /\ e = None => times = {}
      /\ e # None => /\ \A a \in times : a[1] <= e.expires
                     /\ e.expires \in Int /\ e.value \in Nat
                     /\ \E s \in 0..now : /\ s + Ttl <= e.expires
                          /\ St!Cardinality(St!Since(times, s)) <= e.value
                          /\ St!Cardinality(St!Since(times, s)) <= Limit
                          /\ St!Cardinality(Before(times, s)) <= Limit
  BY <1>1, <1>2 DEF St!RedisLimits, St!Times, St!Counters
<1>9. new[1] = now /\ (St!Live(e) => e # None /\ now <= e.expires /\ end = e.expires)
      /\ (~St!Live(e) => end = St!Never /\ (e # None => e.expires < now))
  BY <1>1, <1>8 DEF St!Live
<1>10. later = times \/ (later = times \cup {new} /\ n <= Limit)
  OBVIOUS
<1> HIDE DEF e, times, n, new, end, later
<1>11. St!IsFiniteSet(later) /\ later \subseteq times \cup {new} /\ \A a \in later : a[1] \in Int /\ a[1] <= now
  <2>1. St!IsFiniteSet(times) /\ St!IsFiniteSet(times \cup {new})
    BY <1>8, OneMoreIn
  <2>3. \A a \in times \cup {new} : a[1] \in Int /\ a[1] <= now
    BY <1>1, <1>8, <1>9
  <2> QED
    BY <1>10, <2>1, <2>3
<1>12. \A X : St!IsFiniteSet(X) => \A s : /\ St!IsFiniteSet(St!Since(X, s)) /\ St!Cardinality(St!Since(X, s)) \in Nat
                                          /\ St!IsFiniteSet(Before(X, s)) /\ St!Cardinality(Before(X, s)) \in Nat
  <2> SUFFICES ASSUME NEW X, St!IsFiniteSet(X), NEW s
               PROVE  /\ St!IsFiniteSet(St!Since(X, s)) /\ St!Cardinality(St!Since(X, s)) \in Nat
                      /\ St!IsFiniteSet(Before(X, s)) /\ St!Cardinality(Before(X, s)) \in Nat
    OBVIOUS
  <2>1. St!Since(X, s) \subseteq X /\ Before(X, s) \subseteq X
    BY DEF St!Since
  <2> QED
    BY <2>1, FewerIn
<1>13. \E s \in 0..now : /\ s + Ttl <= end
                         /\ St!Cardinality(St!Since(later, s)) <= n /\ St!Cardinality(St!Since(later, s)) <= Limit
                         /\ St!Cardinality(Before(later, s)) <= Limit
  <2>1. CASE St!Live(e)
    <3>1. PICK s \in 0..now : /\ s + Ttl <= e.expires
                              /\ St!Cardinality(St!Since(times, s)) <= e.value
                              /\ St!Cardinality(St!Since(times, s)) <= Limit
                              /\ St!Cardinality(Before(times, s)) <= Limit
      BY <1>8, <1>9, <2>1
    <3>2. s \in Int /\ s <= now
      BY <1>1
    <3>3. Before(later, s) = Before(times, s)
      BY <1>1, <1>9, <1>10, <3>2 DEF St!Since
    <3>4. St!Cardinality(St!Since(later, s)) <= n /\ St!Cardinality(St!Since(later, s)) <= Limit
      <4> DEFINE some == St!Cardinality(St!Since(times, s))
                 more == St!Cardinality(St!Since(times, s) \cup {new})
      <4>3. some \in Nat /\ more \in Nat /\ more <= some + 1
        BY <1>8, <1>12, OneMoreIn
      <4>4. n = e.value + 1 /\ e.value \in Nat /\ some <= e.value /\ some <= Limit
        BY <1>3, <1>8, <1>9, <2>1, <3>1
      <4>1. CASE later = times
        <5>1. St!Cardinality(St!Since(later, s)) = some
          BY <4>1
        <5> HIDE DEF some
        <5> QED
          BY <4>3, <4>4, <5>1
      <4>2. CASE later = times \cup {new} /\ n <= Limit
        <5>1. St!Since(later, s) = St!Since(times, s) \cup {new}
          BY <1>9, <3>2, <4>2 DEF St!Since
        <5>2. St!Cardinality(St!Since(later, s)) = more
          BY <5>1
        <5> HIDE DEF some, more
        <5> QED
          BY <1>1, <4>2, <4>3, <4>4, <5>2
      <4> QED
        BY <1>10, <4>1, <4>2
    <3> QED
      BY <1>9, <2>1, <3>1, <3>3, <3>4
  <2>2. CASE ~St!Live(e)
    <3>1. St!Since(times, now) = {}
      BY <1>1, <1>8, <1>9, <2>2 DEF St!Since
    <3>2. St!Cardinality({}) = 0 /\ St!Cardinality({new}) = 1
      BY FS_EmptySet, FS_Singleton, StoreCardinality
    <3>3. St!Cardinality(St!Since(later, now)) <= n /\ St!Cardinality(St!Since(later, now)) <= Limit
      <4>1. CASE later = times
        BY <1>1, <1>3, <3>1, <3>2, <4>1
      <4>2. CASE later = times \cup {new} /\ n <= Limit
        <5>1. St!Since(later, now) = {new}
          BY <1>1, <1>9, <3>1, <4>2 DEF St!Since
        <5> QED
          BY <1>1, <1>3, <2>2, <3>2, <4>2, <5>1
      <4> QED
        BY <1>10, <4>1, <4>2
    <3>4. St!Cardinality(Before(later, now)) <= Limit
      <4>1. new \notin Before(later, now)
        BY <1>1, <1>9 DEF St!Since
      <4>2. CASE e = None
        <5>1. Before(later, now) = {}
          BY <1>8, <1>11, <4>1, <4>2 DEF St!Since
        <5> QED
          BY <1>1, <3>2, <5>1
      <4>3. CASE e # None
        <5>1. PICK s \in 0..now : /\ s + Ttl <= e.expires
                                  /\ St!Cardinality(St!Since(times, s)) <= Limit
          BY <1>8, <4>3
        <5>2. s \in Int /\ s < now - Ttl
          BY <1>1, <1>8, <1>9, <2>2, <4>3, <5>1
        <5>3. \A a \in Before(later, now) : a \in times /\ a[1] >= now - Ttl /\ a[1] \in Int
          BY <1>8, <1>11, <4>1 DEF St!Since
        <5>4. Before(later, now) \subseteq St!Since(times, s)
          <6> SUFFICES ASSUME NEW a \in Before(later, now) PROVE a \in St!Since(times, s)
            OBVIOUS
          <6>1. a \in times /\ a[1] >= now - Ttl /\ a[1] \in Int
            BY <5>3
          <6>2. a[1] >= s
            BY <1>1, <5>2, <6>1
          <6> QED
            BY <6>1, <6>2 DEF St!Since
        <5>5. /\ St!Cardinality(Before(later, now)) <= St!Cardinality(St!Since(times, s))
              /\ St!Cardinality(Before(later, now)) \in Nat /\ St!Cardinality(St!Since(times, s)) \in Nat
          BY <1>8, <1>12, <5>4, FewerIn
        <5> QED
          BY <1>1, <5>1, <5>5
      <4> QED
        BY <4>2, <4>3
    <3>5. now \in 0..now /\ now + Ttl <= end
      BY <1>1, <1>9, <2>2
    <3> QED
      BY <3>3, <3>4, <3>5
  <2> QED
    BY <2>1, <2>2
<1>14. \A a \in later : a[1] <= end
  <2>1. now <= end
    BY <1>1, <1>9
  <2> QED
    BY <1>1, <1>4, <1>11, <2>1
<1>15. St!RedisLimits'
  <2> DEFINE x == St!Entry(n, end)
  <2>1. x # None /\ x.value = n /\ x.expires = end
    BY <1>6
  <2> HIDE DEF x
  <2>2. redis'[St!Requests] = x /\ admitted'.redis = later /\ now' = now
    BY <1>5, <1>7 DEF x
  <2> QED
    BY <1>11, <1>13, <1>14, <2>1, <2>2 DEF St!RedisLimits, St!Times, St!Since
<1>16. ASSUME NEW t \in 0..LastTick
       PROVE  St!Cardinality(St!Within(later, t)) <= 2 * Limit
  <2>1. CASE later = times
    BY <1>2, <2>1
  <2>2. CASE later = times \cup {new} /\ now \notin t..(t + Ttl)
    <3>1. St!Within(later, t) = St!Within(times, t)
      BY <1>9, <2>2 DEF St!Within
    <3> QED
      BY <1>2, <3>1
  <2>3. CASE now \in t..(t + Ttl)
    <3>1. PICK s \in 0..now : /\ St!Cardinality(St!Since(later, s)) <= Limit
                              /\ St!Cardinality(Before(later, s)) <= Limit
      BY <1>13
    <3>2. s \in Int /\ s - Ttl <= t
      BY <1>1, <2>3
    <3>3. St!Within(later, t) \subseteq St!Since(later, s) \cup Before(later, s)
      <4> SUFFICES ASSUME NEW a \in St!Within(later, t) PROVE a \in St!Since(later, s - Ttl)
        BY DEF St!Within, St!Since
      <4>1. a \in later /\ a[1] \in Int /\ a[1] >= t
        BY <1>1, <1>11 DEF St!Within
      <4>2. a[1] >= s - Ttl
        BY <1>1, <3>2, <4>1
      <4> QED
        BY <4>1, <4>2 DEF St!Since
    <3>4. /\ St!IsFiniteSet(St!Since(later, s)) /\ St!IsFiniteSet(Before(later, s))
          /\ St!Cardinality(St!Since(later, s)) \in Nat /\ St!Cardinality(Before(later, s)) \in Nat
      BY <1>11, <1>12
    <3> DEFINE U == St!Since(later, s) \cup Before(later, s)
    <3>5. /\ St!Cardinality(U) <= St!Cardinality(St!Since(later, s)) + St!Cardinality(Before(later, s))
      BY <3>4, TogetherIn
    <3>6. St!IsFiniteSet(U)
      BY <1>11, FewerIn DEF St!Since
    <3>7. /\ St!Cardinality(St!Within(later, t)) <= St!Cardinality(U)
          /\ St!Cardinality(St!Within(later, t)) \in Nat /\ St!Cardinality(U) \in Nat
      BY <3>3, <3>6, FewerIn
    <3> QED
      BY <1>1, <3>1, <3>4, <3>5, <3>7
  <2> QED
    BY <1>10, <2>1, <2>2, <2>3
<1> QED
  BY <1>7, <1>15, <1>16

\* Memory forgets a counter no earlier than Redis.
LEMMA MemoryCountsMore ==
  ASSUME St!StoresAssumption
  PROVE  St!TypeOK /\ St!CountersHold => \A k \in St!Keys \ orphaned : St!Count(mem, k) >= St!Count(redis, k)
<1> SUFFICES ASSUME St!TypeOK, St!CountersHold, NEW k \in St!Keys \ orphaned
             PROVE  St!Count(mem, k) >= St!Count(redis, k)
  OBVIOUS
<1>1. /\ mem \in [St!Keys -> St!Counters \cup {None}] /\ redis \in [St!Keys -> St!Counters \cup {None}]
      /\ now \in Int /\ Ttl \in Nat
  BY StoreKeys DEF St!CountersHold
<1>2. St!Count(mem, k) \in Nat /\ St!Count(redis, k) \in Nat
  BY <1>1, CountIs
<1>3. CASE ~St!Live(redis[k])
  BY <1>2, <1>3 DEF St!Count
<1>4. CASE St!Live(redis[k])
  <2>1. redis[k] # None /\ redis[k].expires >= now /\ redis[k] \in St!Counters
    BY <1>1, <1>4 DEF St!Live
  <2>2. /\ mem[k] # None /\ mem[k] \in St!Counters /\ redis[k].value <= mem[k].value
        /\ (redis[k].expires <= mem[k].expires \/ mem[k].expires = now + Ttl)
    BY <1>1, <2>1 DEF St!CountersHold
  <2>3. redis[k].expires \in Int /\ mem[k].expires \in Int
    BY <2>1, <2>2 DEF St!Counters
  <2>4. mem[k].expires >= now
    BY <1>1, <2>1, <2>2, <2>3
  <2>5. St!Live(mem[k])
    BY <2>2, <2>4 DEF St!Live
  <2> QED
    BY <1>4, <2>2, <2>5 DEF St!Count
<1> QED
  BY <1>3, <1>4

\* A request is counted by both, and memory keeps it longer.
LEMMA CountersIncr ==
  ASSUME St!StoresAssumption, St!TypeOK, St!CountersHold, NEW c \in Clients, NEW k \in St!Keys,
         pending[c] = None, mem' = St!MemoryIncr(k), redis' = St!RedisIncr(k), pending' = St!ToExpire(c, k),
         UNCHANGED <<now, orphaned>>
  PROVE  St!CountersHold' /\ pending' \in [Clients -> St!Keys \cup {None}]
         /\ DOMAIN mem' = St!Keys /\ DOMAIN redis' = St!Keys
<1> DEFINE m == St!Entry(St!Count(mem, k) + 1, now + Ttl)
           x == St!Entry(St!Count(redis, k) + 1, IF St!Live(redis[k]) THEN redis[k].expires ELSE St!Never)
<1>1. /\ mem \in [St!Keys -> St!Counters \cup {None}] /\ redis \in [St!Keys -> St!Counters \cup {None}]
      /\ pending \in [Clients -> St!Keys \cup {None}]
      /\ now \in Int /\ Ttl \in Nat /\ LastTick \in Nat /\ None \notin St!Counters /\ None \notin St!Keys
  BY StoreKeys DEF St!CountersHold, St!TypeOK, St!StoresAssumption
<1>2. /\ St!Count(mem, k) \in Nat /\ St!Count(redis, k) \in Nat
      /\ St!Live(redis[k]) => redis[k] \in St!Counters
  BY <1>1, CountIs
<1>3. (IF St!Live(redis[k]) THEN redis[k].expires ELSE St!Never) \in Int
  BY <1>1, <1>2 DEF St!Never, St!Counters
<1>4. /\ m \in St!Counters /\ m.value = St!Count(mem, k) + 1 /\ m.expires = now + Ttl
      /\ x \in St!Counters /\ x.value = St!Count(redis, k) + 1
      /\ (St!Live(redis[k]) => x.expires = redis[k].expires)
  BY <1>1, <1>2, <1>3 DEF St!Entry, St!Counters
<1>5. mem' = [mem EXCEPT ![k] = m] /\ redis' = [redis EXCEPT ![k] = x]
  BY DEF St!MemoryIncr, St!RedisIncr
<1> HIDE DEF m, x
<1>6. /\ mem' \in [St!Keys -> St!Counters \cup {None}] /\ redis' \in [St!Keys -> St!Counters \cup {None}]
      /\ mem'[k] = m /\ redis'[k] = x
      /\ \A j \in St!Keys : j # k => mem'[j] = mem[j] /\ redis'[j] = redis[j]
  BY <1>1, <1>4, <1>5
<1>7. pending' = pending \/ pending' = [pending EXCEPT ![c] = k]
  BY DEF St!ToExpire
<1>8. \A j \in St!Keys : j # k => (St!Owed(j)' <=> St!Owed(j))
  BY <1>1, <1>7 DEF St!Owed
<1>9. St!Owed(k)' \/ (pending' = pending /\ St!Live(redis[k]))
  BY <1>1 DEF St!ToExpire, St!Owed
<1>10. \A j \in St!Keys : St!Owed(j)' => redis'[j] # None
  BY <1>1, <1>4, <1>6, <1>8 DEF St!CountersHold
<1>11. ASSUME NEW j \in St!Keys \ orphaned, redis'[j] # None
       PROVE  /\ mem'[j] # None /\ redis'[j].value <= mem'[j].value /\ mem'[j].expires <= now + Ttl
              /\ St!Owed(j)' \/ redis'[j].expires <= mem'[j].expires
              /\ St!Owed(j)' => mem'[j].expires = now + Ttl
  <2>1. CASE j # k
    BY <1>6, <1>8, <1>11, <2>1 DEF St!CountersHold
  <2>2. CASE j = k
    <3>1. St!Count(mem, k) >= St!Count(redis, k)
      BY <2>2, MemoryCountsMore
    <3>2. mem'[k] = m /\ redis'[k] = x /\ m # None /\ x.value <= m.value
      BY <1>1, <1>2, <1>4, <1>6, <3>1
    <3>3. CASE St!Owed(k)'
      BY <1>1, <1>4, <2>2, <3>2, <3>3
    <3>4. CASE ~St!Owed(k)'
      <4>1. St!Live(redis[k]) /\ ~St!Owed(k) /\ redis[k] # None
        BY <1>9, <3>4 DEF St!Owed, St!Live
      <4>2. mem[k] # None /\ redis[k].expires <= mem[k].expires /\ mem[k].expires <= now + Ttl
        BY <2>2, <4>1 DEF St!CountersHold
      <4>3. mem[k].expires \in Int /\ redis[k].expires \in Int
        BY <1>1, <4>1, <4>2 DEF St!Counters
      <4>4. x.expires <= m.expires
        BY <1>1, <1>4, <4>1, <4>2, <4>3
      <4> QED
        BY <1>1, <1>4, <2>2, <3>2, <3>4, <4>4
    <3> QED
      BY <3>3, <3>4
  <2> QED
    BY <2>1, <2>2
<1>12. St!CountersHold'
  BY <1>6, <1>10, <1>11 DEF St!CountersHold
<1>13. pending' \in [Clients -> St!Keys \cup {None}]
  BY <1>1, <1>7
<1> QED
  BY <1>6, <1>12, <1>13

\* The bucket of an instant is one of those there are.
LEMMA DivisionIsMonotone ==
  ASSUME NEW a \in Nat, NEW b \in Nat, NEW n \in Nat, n >= 1, a <= b
  PROVE  a \div n \in 0..(b \div n)
<1> DEFINE q == a \div n
           r == b \div n
<1>1. q \in Int /\ n * q <= a /\ a < n * q + n
  OBVIOUS
<1>2. r \in Int /\ n * r <= b /\ b < n * r + n
  OBVIOUS
<1> HIDE DEF q, r
<1>3. ASSUME q > r PROVE FALSE
  <2>1. n * q >= n * (r + 1)
    BY <1>1, <1>2, <1>3
  <2>2. n * (r + 1) = n * r + n
    BY <1>2
  <2>3. n * q \in Int /\ n * r \in Int
    BY <1>1, <1>2
  <2> QED
    BY <1>1, <1>2, <2>1, <2>2, <2>3
<1>4. q >= 0
  BY <1>1
<1>5. q \in 0..r
  BY <1>1, <1>2, <1>3, <1>4
<1> QED
  BY <1>5 DEF q, r

LEMMA BucketsAreKeys ==
  ASSUME St!StoresAssumption, St!TypeOK
  PROVE  St!Bucket(now \div Ttl) \in St!Keys /\ now \div Ttl \in St!Buckets
<1>1. now \in Nat /\ LastTick \in Nat /\ Ttl \in Nat /\ Ttl >= 1 /\ now <= LastTick
  BY StoreKeys
<1>2. now \div Ttl \in 0..(LastTick \div Ttl)
  BY <1>1, DivisionIsMonotone
<1> QED
  BY <1>2 DEF St!Keys, St!Buckets

LEMMA MemoryCountsMoreNext ==
  ASSUME St!StoresAssumption
  PROVE  (St!TypeOK /\ St!CountersHold => \A j \in St!Keys \ orphaned : St!Count(mem, j) >= St!Count(redis, j))'
<1>1. St!TypeOK /\ St!CountersHold => \A j \in St!Keys \ orphaned : St!Count(mem, j) >= St!Count(redis, j)
  BY MemoryCountsMore
<1> QED
  BY <1>1, PTL

\* An hour is over a Ttl after any instant of it.
LEMMA HourIsShort ==
  ASSUME NEW t \in Nat, NEW n \in Nat, NEW d \in Nat, d >= 1, t \div d = n \div d
  PROVE  n < t + d
<1> DEFINE q == n \div d
           r == t \div d
<1>1. q \in Int /\ n < d * q + d
  OBVIOUS
<1>2. r \in Int /\ d * r <= t
  OBVIOUS
<1>3. q = r
  OBVIOUS
<1> HIDE DEF q, r
<1>4. d * q \in Int /\ d * q = d * r
  BY <1>1, <1>3
<1> QED
  BY <1>1, <1>2, <1>4

\* A counter that has every reservation of its hour is counted on and outlives the hour.
LEMMA ReservationCounts ==
  ASSUME St!StoresAssumption, St!TypeOK, NEW store \in [St!Keys -> St!Counters \cup {None}],
         NEW granted \in [St!Buckets -> Nat], St!Reserved(store, granted), NEW end \in Int,
         end >= now + Ttl \/ (St!Live(store[St!Bucket(now \div Ttl)]) /\ end = store[St!Bucket(now \div Ttl)].expires)
  PROVE  LET b == now \div Ttl
             k == St!Bucket(b)
             n == St!Count(store, k) + 1
             g == IF n <= Budget THEN [granted EXCEPT ![b] = @ + 1] ELSE granted
         IN g \in [St!Buckets -> Nat] /\ St!Reserved([store EXCEPT ![k] = St!Entry(n, end)], g)
<1> DEFINE b == now \div Ttl
           k == St!Bucket(b)
           e == store[k]
           n == St!Count(store, k) + 1
           g == IF n <= Budget THEN [granted EXCEPT ![b] = @ + 1] ELSE granted
           x == St!Entry(n, end)
           later == [store EXCEPT ![k] = x]
<1>1. b \in St!Buckets /\ k \in St!Keys
  BY BucketsAreKeys
<1>2. now \in Nat /\ Ttl \in Nat /\ Ttl >= 1 /\ Budget \in Nat /\ None \notin St!Counters
  BY StoreKeys DEF St!StoresAssumption
<1>3. n \in Nat /\ n >= 1 /\ (St!Live(e) => e \in St!Counters /\ n = e.value + 1)
  BY <1>1, CountIs
<1>4. x # None /\ x.value = n /\ x.expires = end
  <2>1. x \in St!Counters /\ x.value = n /\ x.expires = end
    BY <1>3 DEF St!Entry, St!Counters
  <2> QED
    BY <1>2, <2>1
<1>5. /\ granted[b] \in Nat /\ granted[b] <= Budget /\ (e = None => granted[b] = 0)
      /\ e # None => /\ granted[b] <= e.value /\ e \in St!Counters
                     /\ \E t \in 0..now : t \div Ttl = b /\ t + Ttl <= e.expires
  BY <1>1 DEF St!Reserved
<1>6. e # None => St!Live(e) /\ n = e.value + 1 /\ e.value \in Nat
  <2> SUFFICES ASSUME e # None PROVE St!Live(e) /\ n = e.value + 1 /\ e.value \in Nat
    OBVIOUS
  <2>1. PICK t \in 0..now : t \div Ttl = b /\ t + Ttl <= e.expires
    BY <1>5
  <2>2. t \in Nat /\ now < t + Ttl
    <3>1. t \in Nat
      BY <1>2
    <3>2. t \div Ttl = now \div Ttl
      BY <2>1
    <3> QED
      BY <1>2, <3>1, <3>2, HourIsShort
  <2>3. e \in St!Counters /\ e.expires \in Int /\ e.value \in Nat
    BY <1>5 DEF St!Counters
  <2>4. e.expires >= now
    BY <1>2, <2>1, <2>2, <2>3
  <2>5. St!Live(e)
    BY <2>4 DEF St!Live
  <2> QED
    BY <1>3, <2>3, <2>5
<1>7. \E t \in 0..now : t \div Ttl = b /\ t + Ttl <= end
  <2>1. CASE end >= now + Ttl
    BY <1>2, <2>1
  <2>2. CASE St!Live(e) /\ end = e.expires
    BY <1>5, <2>2 DEF St!Live
  <2> QED
    BY <2>1, <2>2
<1>8. \A c \in St!Buckets : (c # b => later[St!Bucket(c)] = store[St!Bucket(c)]) /\ (c = b => later[St!Bucket(c)] = x)
  BY <1>1 DEF St!Bucket, St!Keys
<1>9. g \in [St!Buckets -> Nat] /\ \A c \in St!Buckets : c # b => g[c] = granted[c]
  BY <1>1
<1>10. g[b] <= Budget /\ g[b] <= n
  BY <1>1, <1>2, <1>3, <1>5, <1>6
<1> HIDE DEF b, k, n, g, x, later
<1>11. St!Reserved(later, g)
  <2> SUFFICES ASSUME NEW c \in St!Buckets
               PROVE  LET f == later[St!Bucket(c)]
                      IN /\ g[c] <= Budget /\ (f = None => g[c] = 0)
                         /\ f # None => /\ g[c] <= f.value
                                        /\ \E t \in 0..now : t \div Ttl = c /\ t + Ttl <= f.expires
    BY DEF St!Reserved
  <2>1. CASE c = b
    BY <1>4, <1>7, <1>8, <1>10, <2>1
  <2>2. CASE c # b
    BY <1>8, <1>9, <2>2 DEF St!Reserved
  <2> QED
    BY <2>1, <2>2
<1> QED
  BY <1>9, <1>11 DEF b, k, n, g, x, later

\* No hour's reservations are more than the budget.
LEMMA BudgetIsKept ==
  ASSUME St!StoresAssumption, St!ReservationsHold
  PROVE  \A b \in St!Buckets : reserved.memory[b] <= Budget /\ reserved.redis[b] <= Budget
BY DEF St!ReservationsHold, St!Reserved, St!StoresAssumption

LEMMA BudgetIsKeptNext ==
  ASSUME St!StoresAssumption
  PROVE  (St!ReservationsHold => \A b \in St!Buckets : reserved.memory[b] <= Budget /\ reserved.redis[b] <= Budget)'
<1>1. St!ReservationsHold => \A b \in St!Buckets : reserved.memory[b] <= Budget /\ reserved.redis[b] <= Budget
  BY BudgetIsKept
<1> QED
  BY <1>1, PTL

\* What is granted is counted by each store.
LEMMA ReservationsStep ==
  ASSUME St!StoresAssumption, St!StoresInv, NEW c \in Clients, St!ReserveClaudeBudget(c)
  PROVE  St!ReservationsHold'
<1> DEFINE b == now \div Ttl
           k == St!Bucket(b)
           m == St!Count(mem, k) + 1
           r == St!Count(redis, k) + 1
           end == IF St!Live(redis[k]) THEN redis[k].expires ELSE St!Never
           gm == IF m <= Budget THEN [reserved.memory EXCEPT ![b] = @ + 1] ELSE reserved.memory
           gr == IF r <= Budget THEN [reserved.redis EXCEPT ![b] = @ + 1] ELSE reserved.redis
<1>1. /\ topic = "budget" /\ topic' = topic /\ now' = now /\ St!TypeOK
      /\ mem \in [St!Keys -> St!Counters \cup {None}] /\ redis \in [St!Keys -> St!Counters \cup {None}]
      /\ reserved.memory \in [St!Buckets -> Nat] /\ reserved.redis \in [St!Buckets -> Nat]
      /\ St!Reserved(mem, reserved.memory) /\ St!Reserved(redis, reserved.redis)
  BY DEF St!ReserveClaudeBudget, St!StoresInv, St!ReservationsHold, St!Counting, St!CountersHold
<1>2. now \in Int /\ now <= LastTick /\ LastTick \in Nat /\ Ttl \in Nat /\ k \in St!Keys
  BY <1>1, StoreKeys, BucketsAreKeys
<1>3. end \in Int /\ (end >= now + Ttl \/ (St!Live(redis[k]) /\ end = redis[k].expires))
  BY <1>1, <1>2, CountIs DEF St!Never, St!Counters
<1>4. mem' = [mem EXCEPT ![k] = St!Entry(m, now + Ttl)] /\ redis' = [redis EXCEPT ![k] = St!Entry(r, end)]
  BY DEF St!ReserveClaudeBudget, St!MemoryIncr, St!RedisIncr
<1>5. mem'[k].value = m /\ redis'[k].value = r
  BY <1>1, <1>2, <1>4 DEF St!Entry
<1>6. reserved'.memory = gm /\ reserved'.redis = gr
  BY <1>5 DEF St!ReserveClaudeBudget
<1>7. now + Ttl \in Int /\ now + Ttl >= now + Ttl
  BY <1>2
<1>8. gm \in [St!Buckets -> Nat] /\ St!Reserved([mem EXCEPT ![k] = St!Entry(m, now + Ttl)], gm)
  BY <1>1, <1>7, ReservationCounts
<1>9. gr \in [St!Buckets -> Nat] /\ St!Reserved([redis EXCEPT ![k] = St!Entry(r, end)], gr)
  BY <1>1, <1>3, ReservationCounts
<1> HIDE DEF gm, gr, m, r, end, k, b
<1>10. St!Reserved(mem', gm) /\ St!Reserved(redis', gr)
  BY <1>4, <1>8, <1>9
<1>11. St!Reserved(mem, reserved.memory)' /\ St!Reserved(redis, reserved.redis)'
  BY <1>1, <1>6, <1>10 DEF St!Reserved
<1> QED
  BY <1>1, <1>6, <1>8, <1>9, <1>11 DEF St!ReservationsHold

\* What steps do that reserve nothing: no counter is lost, or cut shorter than a Ttl.
LEMMA ReservationsStand ==
  ASSUME St!StoresAssumption, St!StoresInv, UNCHANGED <<topic, reserved>>, now' \in Int, now <= now',
         topic # "budget" \/ (mem' = mem /\ \A k \in St!Keys :
           \/ redis'[k] = redis[k]
           \/ /\ redis[k] # None /\ redis'[k] # None
              /\ redis'[k].value = redis[k].value /\ redis'[k].expires = now + Ttl)
  PROVE  St!ReservationsHold'
<1>1. /\ reserved.memory \in [St!Buckets -> Nat] /\ reserved.redis \in [St!Buckets -> Nat]
      /\ now \in Int /\ Ttl \in Nat
  BY StoreKeys DEF St!StoresInv, St!ReservationsHold
<1>2. CASE topic # "budget"
  BY <1>1, <1>2 DEF St!StoresInv, St!ReservationsHold
<1>3. CASE topic = "budget"
  <2>1. St!Reserved(mem, reserved.memory) /\ St!Reserved(redis, reserved.redis)
    BY <1>3 DEF St!StoresInv, St!ReservationsHold
  <2>2. 0..now \subseteq 0..now'
    BY <1>1
  <2>3. St!Reserved(mem, reserved.memory)'
    BY <1>3, <2>1, <2>2 DEF St!Reserved
  <2>4. ASSUME NEW b \in St!Buckets
        PROVE  LET e == redis'[St!Bucket(b)]
               IN /\ reserved.redis[b] <= Budget /\ (e = None => reserved.redis[b] = 0)
                  /\ e # None => /\ reserved.redis[b] <= e.value
                                 /\ \E t \in 0..now' : t \div Ttl = b /\ t + Ttl <= e.expires
    <3>1. St!Bucket(b) \in St!Keys
      BY DEF St!Keys
    <3>2. CASE redis'[St!Bucket(b)] = redis[St!Bucket(b)]
      BY <2>1, <2>2, <3>2 DEF St!Reserved
    <3>3. CASE redis'[St!Bucket(b)] # redis[St!Bucket(b)]
      <4> DEFINE e == redis[St!Bucket(b)]
                 f == redis'[St!Bucket(b)]
      <4>1. e # None /\ f # None /\ f.value = e.value /\ f.expires = now + Ttl
        BY <1>3, <3>1, <3>3
      <4>2. /\ reserved.redis[b] <= Budget /\ reserved.redis[b] <= e.value
            /\ \E t \in 0..now : t \div Ttl = b
        BY <2>1, <4>1 DEF St!Reserved
      <4> HIDE DEF e, f
      <4>3. PICK t \in 0..now : t \div Ttl = b
        BY <4>2
      <4>4. t + Ttl <= f.expires /\ t \in 0..now'
        BY <1>1, <2>2, <4>1
      <4> QED
        BY <4>1, <4>2, <4>3, <4>4 DEF f
    <3> QED
      BY <3>2, <3>3
  <2>5. St!Reserved(redis, reserved.redis)'
    BY <2>4 DEF St!Reserved
  <2> QED
    BY <1>1, <1>3, <2>3, <2>5 DEF St!ReservationsHold
<1> QED
  BY <1>2, <1>3

\* Nothing is counted and nothing was admitted.
LEMMA StoresInit ==
  ASSUME St!StoresAssumption, St!Init
  PROVE  St!StoresInv
<1>1. St!Cardinality({}) = 0 /\ St!IsFiniteSet({})
  BY FS_EmptySet, StoreCardinality
<1>2. LastTick \in Nat /\ Ttl \in Nat /\ Limit \in Nat /\ None \notin St!Counters /\ None \notin St!Keys
  BY DEF St!StoresAssumption
<1>3. St!TypeOK
  BY <1>2 DEF St!Init, St!TypeOK
<1>4. St!Requests \in St!Keys
  BY <1>3, StoreKeys
<1>5. \A k \in St!Keys : mem[k] = None /\ redis[k] = None /\ ~St!Owed(k)
  BY <1>2 DEF St!Init, St!Owed
<1>6. St!CountersHold
  BY <1>5 DEF St!Init, St!CountersHold
<1>7. /\ admitted = [memory |-> {}, redis |-> {}] /\ admitted.memory = {} /\ admitted.redis = {}
      /\ mem = redis /\ topic \in St!Topics
  BY DEF St!Init
<1>10. St!ReservationsHold
  <2>1. 0 <= Budget /\ \A b \in St!Buckets : St!Bucket(b) \in St!Keys
    BY DEF St!StoresAssumption, St!Keys
  <2>2. /\ reserved.memory = [b \in St!Buckets |-> 0] /\ reserved.redis = [b \in St!Buckets |-> 0]
    BY DEF St!Init
  <2> QED
    BY <1>5, <2>1, <2>2 DEF St!ReservationsHold, St!Reserved
<1>8. St!LimitsHold
  <2>1. \A t : St!Within({}, t) = {}
    BY DEF St!Within
  <2>2. \A k \in St!Keys \ orphaned : St!Count(mem, k) >= St!Count(redis, k)
    BY <1>2, <1>3, <1>6, MemoryCountsMore
  <2>3. \A t \in 0..LastTick : /\ St!Cardinality(St!Within(admitted.memory, t)) <= Limit
                               /\ St!Cardinality(St!Within(admitted.redis, t)) <= 2 * Limit
    <3>1. 0 <= Limit /\ 0 <= 2 * Limit
      BY <1>2
    <3> QED
      BY <1>1, <1>7, <2>1, <3>1
  <2> QED
    BY <1>7, <1>10, <2>2, <2>3, BudgetIsKept DEF St!LimitsHold
<1>9. St!MemoryLimits /\ St!RedisLimits
  BY <1>1, <1>4, <1>5, <1>7 DEF St!MemoryLimits, St!RedisLimits, St!Times
<1> QED
  BY <1>3, <1>5, <1>6, <1>7, <1>8, <1>9, <1>10 DEF St!StoresInv

\* What a step does that admits nothing.
LEMMA LimitsStand ==
  ASSUME St!StoresInv, UNCHANGED admitted
  PROVE  \A t \in 0..LastTick : /\ St!Cardinality(St!Within(admitted'.memory, t)) <= Limit
                                /\ St!Cardinality(St!Within(admitted'.redis, t)) <= 2 * Limit
BY DEF St!StoresInv, St!LimitsHold

\* Counters that are counted on.
LEMMA CountingKeeps ==
  ASSUME St!StoresAssumption, St!StoresInv, NEW c \in Clients, St!CheckRateLimit(c) \/ St!ReserveClaudeBudget(c)
  PROVE  St!StoresInv'
<1> DEFINE k == IF topic = "requests" THEN St!Requests ELSE St!Bucket(now \div Ttl)
<1>1. St!TypeOK /\ St!Requests \in St!Keys /\ St!Bucket(now \div Ttl) \in St!Keys
  BY StoreKeys, BucketsAreKeys DEF St!StoresInv
<1>2. /\ St!Counting /\ UNCHANGED <<topic, now, orphaned, from>> /\ pending[c] = None
      /\ mem' = St!MemoryIncr(k) /\ redis' = St!RedisIncr(k) /\ pending' = St!ToExpire(c, k)
      /\ topic # "requests" => UNCHANGED admitted
      /\ topic = "requests" => St!CheckRateLimit(c)
  BY DEF St!CheckRateLimit, St!ReserveClaudeBudget, St!Counting, St!limits, St!replica
<1>3. St!CountersHold
  BY <1>2 DEF St!StoresInv
<1>4. k \in St!Keys
  BY <1>1
<1> HIDE DEF k
<1>5. /\ St!CountersHold' /\ pending' \in [Clients -> St!Keys \cup {None}]
      /\ DOMAIN mem' = St!Keys /\ DOMAIN redis' = St!Keys
  BY <1>1, <1>2, <1>3, <1>4, CountersIncr
<1>6. St!TypeOK'
  BY <1>1, <1>2, <1>5 DEF St!TypeOK
<1>7. \A j \in St!Keys \ orphaned' : St!Count(mem, j)' >= St!Count(redis, j)'
  BY <1>5, <1>6, MemoryCountsMoreNext
<1>10. St!ReservationsHold'
  <2>1. CASE St!CheckRateLimit(c)
    <3>1. topic # "budget" /\ UNCHANGED <<topic, reserved, now>> /\ now \in Int
      BY <1>1, <2>1, StoreKeys DEF St!CheckRateLimit
    <3> QED
      BY <3>1, ReservationsStand
  <2> QED
    BY <2>1, ReservationsStep
<1>8. CASE topic = "requests"
  <2>1. /\ St!MemoryLimits' /\ St!RedisLimits'
        /\ \A t \in 0..LastTick : /\ St!Cardinality(St!Within(admitted'.memory, t)) <= Limit
                                  /\ St!Cardinality(St!Within(admitted'.redis, t)) <= 2 * Limit
    BY <1>2, <1>8, MemoryAdmits, RedisAdmits
  <2> QED
    BY <1>2, <1>5, <1>6, <1>7, <1>8, <1>10, <2>1, BudgetIsKeptNext DEF St!StoresInv, St!LimitsHold, St!Counting
<1>9. CASE topic # "requests"
  <2>1. \A t \in 0..LastTick : /\ St!Cardinality(St!Within(admitted'.memory, t)) <= Limit
                               /\ St!Cardinality(St!Within(admitted'.redis, t)) <= 2 * Limit
    BY <1>2, <1>9, LimitsStand
  <2> QED
    BY <1>2, <1>5, <1>6, <1>7, <1>9, <1>10, <2>1, BudgetIsKeptNext DEF St!StoresInv, St!LimitsHold, St!Counting
<1> QED
  BY <1>8, <1>9

\* The second command is given at once, or never.
LEMMA ExpiryKeeps ==
  ASSUME St!StoresAssumption, St!StoresInv, NEW c \in Clients, St!PExpire(c) \/ St!Crash(c)
  PROVE  St!StoresInv'
<1> DEFINE k == pending[c]
           x == St!Entry(redis[k].value, now + Ttl)
<1>1. /\ St!TypeOK /\ St!Requests \in St!Keys /\ now \in Int /\ now >= 0 /\ now <= LastTick /\ Ttl \in Nat
      /\ pending \in [Clients -> St!Keys \cup {None}] /\ None \notin St!Keys /\ None \notin St!Counters
  BY StoreKeys DEF St!StoresInv, St!StoresAssumption, St!TypeOK
<1>2. /\ k # None /\ k \in St!Keys /\ St!Owed(k) /\ UNCHANGED <<topic, now, mem, admitted, from>>
      /\ pending' = [pending EXCEPT ![c] = None]
      /\ \/ redis' = [redis EXCEPT ![k] = x] /\ orphaned' = orphaned
         \/ redis' = redis /\ orphaned' = orphaned \cup {k}
  BY <1>1 DEF St!PExpire, St!Crash, St!limits, St!replica, St!Owed
<1>3. St!Counting /\ St!CountersHold
  BY <1>2 DEF St!StoresInv
<1>4. /\ mem \in [St!Keys -> St!Counters \cup {None}] /\ redis \in [St!Keys -> St!Counters \cup {None}]
      /\ redis[k] # None /\ redis[k] \in St!Counters
  BY <1>2, <1>3 DEF St!CountersHold
<1>5. x \in St!Counters /\ x # None /\ x.value = redis[k].value /\ x.expires = now + Ttl
  BY <1>1, <1>4 DEF St!Entry, St!Counters
<1> HIDE DEF x, k
<1>6. /\ redis' \in [St!Keys -> St!Counters \cup {None}]
      /\ \A j \in St!Keys : redis'[j] = redis[j] \/ (j = k /\ redis'[j] = x /\ orphaned' = orphaned)
  BY <1>2, <1>4, <1>5
<1>7. \A j \in St!Keys : St!Owed(j)' => St!Owed(j)
  BY <1>1, <1>2 DEF St!Owed
<1>8. \A j \in St!Keys : j # k => (St!Owed(j) => St!Owed(j)')
  BY <1>1, <1>2 DEF St!Owed, k
<1>9. ASSUME NEW j \in St!Keys \ orphaned', redis'[j] # None
      PROVE  /\ mem'[j] # None /\ redis'[j].value <= mem'[j].value /\ mem'[j].expires <= now' + Ttl
             /\ St!Owed(j)' \/ redis'[j].expires <= mem'[j].expires
             /\ St!Owed(j)' => mem'[j].expires = now' + Ttl
  <2>1. j \in St!Keys \ orphaned
    BY <1>2
  <2>2. CASE redis'[j] = redis[j] /\ j # k
    BY <1>2, <1>3, <1>7, <1>8, <1>9, <2>1, <2>2 DEF St!CountersHold
  <2>3. CASE j = k /\ redis'[j] = x
    <3>1. mem[k] # None /\ redis[k].value <= mem[k].value /\ mem[k].expires = now + Ttl
      BY <1>2, <1>3, <1>4, <2>1, <2>3 DEF St!CountersHold
    <3> QED
      BY <1>1, <1>2, <1>5, <2>3, <3>1
  <2>4. CASE j = k /\ redis'[j] # x
    BY <1>2, <1>4, <1>9, <2>4
  <2> QED
    BY <1>6, <2>2, <2>3, <2>4
<1>10. St!CountersHold'
  <2>1. \A j \in St!Keys : St!Owed(j)' => redis'[j] # None
    BY <1>3, <1>4, <1>5, <1>6, <1>7 DEF St!CountersHold
  <2> QED
    BY <1>2, <1>4, <1>6, <1>9, <2>1 DEF St!CountersHold
<1>11. St!TypeOK'
  <2>1. pending' \in [Clients -> St!Keys \cup {None}]
    BY <1>1, <1>2
  <2> QED
    BY <1>1, <1>2, <1>6, <2>1 DEF St!TypeOK
<1>12. \A j \in St!Keys \ orphaned' : St!Count(mem, j)' >= St!Count(redis, j)'
  BY <1>10, <1>11, MemoryCountsMoreNext
<1>13. \A t \in 0..LastTick : /\ St!Cardinality(St!Within(admitted'.memory, t)) <= Limit
                              /\ St!Cardinality(St!Within(admitted'.redis, t)) <= 2 * Limit
  BY <1>2, LimitsStand
<1>14. ASSUME topic = "requests" PROVE St!MemoryLimits' /\ St!RedisLimits'
  <2>1. St!MemoryLimits /\ St!RedisLimits
    BY <1>14 DEF St!StoresInv
  <2>2. St!MemoryLimits'
    BY <1>2, <2>1 DEF St!MemoryLimits, St!Times, St!Since
  <2>3. CASE redis'[St!Requests] = redis[St!Requests]
    <3> DEFINE e == redis[St!Requests]
    <3>1. /\ St!Times(admitted.redis) /\ (e = None => admitted.redis = {})
          /\ e # None => /\ \A a \in admitted.redis : a[1] <= e.expires
                         /\ \E s \in 0..now : /\ s + Ttl <= e.expires
                              /\ St!Cardinality(St!Since(admitted.redis, s)) <= e.value
                              /\ St!Cardinality(St!Since(admitted.redis, s)) <= Limit
                              /\ St!Cardinality(St!Since(admitted.redis, s - Ttl) \ St!Since(admitted.redis, s)) <= Limit
      BY <2>1 DEF St!RedisLimits
    <3>2. redis'[St!Requests] = e
      BY <2>3
    <3> HIDE DEF e
    <3>3. now' = now /\ admitted'.redis = admitted.redis
      BY <1>2
    <3>4. St!Times(admitted.redis)'
      BY <3>1, <3>3 DEF St!Times
    <3>5. \A s : St!Since(admitted.redis, s)' = St!Since(admitted.redis, s)
      BY <3>3 DEF St!Since
    <3> QED
      BY <2>2, <3>1, <3>2, <3>3, <3>4, <3>5 DEF St!RedisLimits
  <2>4. CASE redis'[St!Requests] = x /\ St!Requests = k
    <3>1. /\ \A a \in admitted.redis : a[1] <= now + Ttl
          /\ \E s \in 0..now : /\ s + Ttl <= now + Ttl
                               /\ St!Cardinality(St!Since(admitted.redis, s)) <= redis[k].value
                               /\ St!Cardinality(St!Since(admitted.redis, s)) <= Limit
                               /\ St!Cardinality(St!Since(admitted.redis, s - Ttl) \ St!Since(admitted.redis, s)) <= Limit
      <4>1. \A a \in admitted.redis : a[1] \in Int /\ a[1] <= now
        BY <2>1 DEF St!RedisLimits, St!Times
      <4>2. PICK s \in 0..now : /\ St!Cardinality(St!Since(admitted.redis, s)) <= redis[k].value
                                /\ St!Cardinality(St!Since(admitted.redis, s)) <= Limit
                                /\ St!Cardinality(St!Since(admitted.redis, s - Ttl) \ St!Since(admitted.redis, s)) <= Limit
        BY <1>4, <2>1, <2>4 DEF St!RedisLimits
      <4>3. s + Ttl <= now + Ttl
        BY <1>1
      <4>4. \A a \in admitted.redis : a[1] <= now + Ttl
        BY <1>1, <4>1
      <4> QED
        BY <4>2, <4>3, <4>4
    <3>2. St!Times(admitted.redis)
      BY <2>1 DEF St!RedisLimits
    <3> DEFINE e == redis'[St!Requests]
    <3>3. e # None /\ e.value = redis[k].value /\ e.expires = now + Ttl
      BY <1>5, <2>4
    <3> HIDE DEF e
    <3>4. /\ e # None /\ \A a \in admitted.redis : a[1] <= e.expires
          /\ \E s \in 0..now : /\ s + Ttl <= e.expires
               /\ St!Cardinality(St!Since(admitted.redis, s)) <= e.value
               /\ St!Cardinality(St!Since(admitted.redis, s)) <= Limit
               /\ St!Cardinality(St!Since(admitted.redis, s - Ttl) \ St!Since(admitted.redis, s)) <= Limit
      BY <3>1, <3>3
    <3>5. now' = now /\ admitted'.redis = admitted.redis
      BY <1>2
    <3>6. St!Times(admitted.redis)'
      BY <3>2, <3>5 DEF St!Times
    <3>7. \A s : St!Since(admitted.redis, s)' = St!Since(admitted.redis, s)
      BY <3>5 DEF St!Since
    <3> QED
      BY <2>2, <3>4, <3>5, <3>6, <3>7 DEF St!RedisLimits, e
  <2> QED
    BY <1>1, <1>6, <2>2, <2>3, <2>4
<1>15. St!ReservationsHold'
  <2>1. UNCHANGED <<topic, reserved, now>> /\ mem' = mem
    BY <1>2 DEF St!PExpire, St!Crash, St!limits
  <2>2. \A j \in St!Keys : \/ redis'[j] = redis[j]
                            \/ /\ redis[j] # None /\ redis'[j] # None
                               /\ redis'[j].value = redis[j].value /\ redis'[j].expires = now + Ttl
    BY <1>4, <1>5, <1>6
  <2> QED
    BY <1>1, <2>1, <2>2, ReservationsStand
<1> QED
  BY <1>2, <1>3, <1>10, <1>11, <1>12, <1>13, <1>14, <1>15, BudgetIsKeptNext DEF St!StoresInv, St!LimitsHold, St!Counting

\* The other commands do the same in both stores, or promise nothing here; the clock waits
\* for what is owed.
LEMMA OthersKeep ==
  ASSUME St!StoresAssumption, St!StoresInv,
         \/ St!SetNX(<<"lock", 0>>) \/ St!IncrBy(<<"credit", 0>>, 1) \/ St!DecrIfAtLeast(<<"credit", 0>>, 1)
         \/ \E f \in Fields : St!HSetNX(<<"answers", 0>>, f)
         \/ \E fails \in BOOLEAN : St!ReplicaRead(fails)
  PROVE  St!StoresInv'
<1>1. /\ ~St!Counting /\ UNCHANGED <<topic, now, pending, orphaned, admitted, reserved>>
      /\ from' \in {"replica", "primary", None}
      /\ topic \in {"lock", "credit"} => mem' = redis'
      /\ DOMAIN mem' = St!Keys /\ DOMAIN redis' = St!Keys
  <2>1. DOMAIN mem = St!Keys /\ DOMAIN redis = St!Keys /\ from \in {"replica", "primary", None}
    BY DEF St!StoresInv, St!TypeOK
  <2>2. topic \in {"lock", "credit"} => mem = redis
    BY DEF St!StoresInv, St!LimitsHold
  <2>3. CASE St!SetNX(<<"lock", 0>>)
    BY <2>1, <2>2, <2>3 DEF St!SetNX, St!MemorySetNX, St!RedisSetNX, St!Counting, St!limits, St!replica
  <2>4. CASE St!IncrBy(<<"credit", 0>>, 1)
    BY <2>1, <2>2, <2>4 DEF St!IncrBy, St!MemoryIncrBy, St!RedisIncrBy, St!Added, St!Counting, St!limits, St!replica
  <2>5. CASE St!DecrIfAtLeast(<<"credit", 0>>, 1)
    BY <2>1, <2>2, <2>5
    DEF St!DecrIfAtLeast, St!MemoryDecrIfAtLeast, St!RedisDecrIfAtLeast, St!Added, St!Counting, St!limits, St!replica
  <2>6. CASE \E f \in Fields : St!HSetNX(<<"answers", 0>>, f)
    BY <2>1, <2>2, <2>6 DEF St!HSetNX, St!MemoryHSetNX, St!RedisHSetNX, St!Counting, St!limits, St!replica
  <2>7. CASE \E fails \in BOOLEAN : St!ReplicaRead(fails)
    BY <2>1, <2>2, <2>7 DEF St!ReplicaRead, St!Counting, St!limits, St!replica
  <2> QED
    BY <2>3, <2>4, <2>5, <2>6, <2>7
<1>2. \A k \in St!Keys : St!Owed(k)' <=> St!Owed(k)
  BY <1>1 DEF St!Owed
<1>3. St!TypeOK'
  BY <1>1 DEF St!StoresInv, St!TypeOK
<1>5. St!ReservationsHold'
  <2>1. topic # "budget" /\ now \in Int /\ now <= now'
    BY <1>1, StoreKeys DEF St!Counting, St!StoresInv
  <2> QED
    BY <1>1, <2>1, ReservationsStand
<1>4. St!LimitsHold'
  BY <1>1, <1>5, LimitsStand, BudgetIsKeptNext DEF St!LimitsHold, St!Counting
<1> QED
  BY <1>1, <1>2, <1>3, <1>4, <1>5 DEF St!StoresInv, St!Counting

LEMMA TickKeeps ==
  ASSUME St!StoresAssumption, St!StoresInv, St!Tick
  PROVE  St!StoresInv'
<1>1. /\ now \in Int /\ now >= 0 /\ now <= LastTick /\ LastTick \in Nat /\ Ttl \in Nat /\ None \notin St!Keys
  BY StoreKeys DEF St!StoresInv, St!StoresAssumption
<1>2. /\ UNCHANGED <<topic, mem, redis, pending, orphaned, admitted, reserved>> /\ now' = now + 1 /\ now < LastTick
      /\ from' = None /\ \A k \in St!Keys : ~St!Owed(k)
  BY <1>1 DEF St!Tick, St!limits, St!Owed
<1>3. St!TypeOK'
  BY <1>1, <1>2 DEF St!StoresInv, St!TypeOK
<1>4. ASSUME St!Counting PROVE St!CountersHold'
  <2>1. St!CountersHold
    BY <1>4 DEF St!StoresInv
  <2>2. ASSUME NEW k \in St!Keys \ orphaned, redis[k] # None
        PROVE  /\ mem[k] # None /\ redis[k].value <= mem[k].value /\ mem[k].expires <= now' + Ttl
               /\ redis[k].expires <= mem[k].expires
    <3>1. /\ mem[k] # None /\ redis[k].value <= mem[k].value /\ mem[k].expires <= now + Ttl
          /\ redis[k].expires <= mem[k].expires /\ mem[k] \in St!Counters
      BY <1>2, <2>1, <2>2 DEF St!CountersHold
    <3> QED
      BY <1>1, <1>2, <3>1 DEF St!Counters
  <2>3. \A k \in St!Keys : ~St!Owed(k)'
    BY <1>2 DEF St!Owed
  <2> QED
    BY <1>2, <2>1, <2>2, <2>3 DEF St!CountersHold
<1>5. ASSUME St!Counting PROVE \A j \in St!Keys \ orphaned' : St!Count(mem, j)' >= St!Count(redis, j)'
  BY <1>3, <1>4, <1>5, MemoryCountsMoreNext
<1>6. ASSUME topic = "requests" PROVE St!MemoryLimits' /\ St!RedisLimits'
  <2>1. St!MemoryLimits /\ St!RedisLimits
    BY <1>6 DEF St!StoresInv
  <2>2. \A X : St!Times(X) => St!Times(X)'
    BY <1>1, <1>2 DEF St!Times
  <2>3. mem[St!Requests] # None => mem[St!Requests].expires - Ttl <= now'
    <3>1. mem[St!Requests] # None => mem[St!Requests] \in St!Counters
      BY <1>6, StoreKeys DEF St!StoresInv, St!Counting, St!CountersHold
    <3> QED
      BY <1>1, <1>2, <2>1, <3>1 DEF St!MemoryLimits, St!Counters
  <2>4. 0..now \subseteq 0..now'
    BY <1>1, <1>2
  <2>5. St!Times(admitted.memory)' /\ St!Times(admitted.redis)'
    BY <1>1, <1>2, <2>1 DEF St!Times, St!MemoryLimits, St!RedisLimits
  <2>6. St!MemoryLimits'
    BY <1>2, <2>1, <2>3, <2>5 DEF St!MemoryLimits, St!Since
  <2>7. St!RedisLimits'
    BY <1>2, <2>1, <2>4, <2>5 DEF St!RedisLimits, St!Since
  <2> QED
    BY <2>6, <2>7
<1>9. St!ReservationsHold'
  <2>1. now' \in Int /\ now <= now'
    BY <1>1, <1>2
  <2> QED
    BY <1>2, <2>1, ReservationsStand
<1>7. St!LimitsHold'
  BY <1>2, <1>5, <1>9, LimitsStand, BudgetIsKeptNext DEF St!StoresInv, St!LimitsHold, St!Counting
<1>8. \A k \in St!Keys : ~St!Owed(k)'
  BY <1>2 DEF St!Owed
<1> QED
  BY <1>2, <1>3, <1>4, <1>6, <1>7, <1>8, <1>9 DEF St!StoresInv, St!Counting

LEMMA StoresStep ==
  ASSUME St!StoresAssumption, St!StoresInv, [St!Next]_(St!vars)
  PROVE  St!StoresInv'
<1>1. CASE UNCHANGED St!vars
  BY <1>1 DEF St!vars, St!StoresInv, St!TypeOK, St!LimitsHold, St!Counting, St!CountersHold, St!Owed, St!Count,
    St!Live, St!MemoryLimits, St!RedisLimits, St!Times, St!Since, St!Within, St!ReservationsHold, St!Reserved
<1> QED
  BY <1>1, CountingKeeps, ExpiryKeeps, OthersKeep, TickKeeps DEF St!Next

\* However requests interleave, and whatever clients die between the two commands of a
\* counter: in any Ttl memory admits no more than the limit and Redis at most twice as
\* many, either grants no more reservations in an hour than the budget has cents, memory
\* counts no less than Redis, and locks and credit agree (store.js, rateLimit.js).
THEOREM WindowsAreLimited == ASSUME St!StoresAssumption PROVE St!Spec => []St!LimitsHold
<1>1. St!Init => St!StoresInv
  BY StoresInit
<1>2. St!StoresInv /\ [St!Next]_(St!vars) => St!StoresInv'
  BY StoresStep
<1>3. St!StoresInv => St!LimitsHold
  BY DEF St!StoresInv
<1> QED
  BY <1>1, <1>2, <1>3, PTL DEF St!Spec
----------------------------------------------------------------------------
(* Maintenance windows.                                                    *)

LEMMA WindowsCardinality == ASSUME NEW X PROVE Wi!Cardinality(X) = Cardinality(X) /\ (Wi!IsFiniteSet(X) <=> IsFiniteSet(X))
BY DEF Wi!Cardinality, Cardinality, Wi!IsFiniteSet, IsFiniteSet

\* What a list that has room becomes, and one that loses a window.
LEMMA PruningKeeps ==
  ASSUME Wi!WindowsAssumption, NEW ws, Wi!Bounded(ws), NEW i, NEW t
  PROVE  LET kept == {w \in ws : w.id # i}
         IN /\ Wi!Bounded(Wi!Prune(kept, t) \cup {})
            /\ \A w \in Wi!Window : Wi!Cardinality(Wi!Prune(ws, t)) < MaxWindows => Wi!Bounded(Wi!Prune(kept, t) \cup {w})
<1> DEFINE kept == {w \in ws : w.id # i}
           left == Wi!Prune(kept, t)
           room == Wi!Prune(ws, t)
<1>1. /\ IsFiniteSet(ws) /\ Cardinality(ws) <= MaxWindows /\ ws \subseteq Wi!Window /\ MaxWindows \in Nat
  BY WindowsCardinality DEF Wi!Bounded, Wi!WindowsAssumption
<1>2. left \subseteq room /\ room \subseteq ws
  BY DEF Wi!Prune
<1> HIDE DEF left, room
<1>3. /\ IsFiniteSet(room) /\ IsFiniteSet(left) /\ Cardinality(left) <= Cardinality(room) /\ Cardinality(room) <= Cardinality(ws)
      /\ Cardinality(left) \in Nat /\ Cardinality(room) \in Nat /\ Cardinality(ws) \in Nat
  BY <1>1, <1>2, FS_Subset, FS_CardinalityType
<1>4. Wi!Bounded(left)
  BY <1>1, <1>2, <1>3, WindowsCardinality DEF Wi!Bounded
<1>5. ASSUME NEW w \in Wi!Window, Cardinality(room) < MaxWindows PROVE Wi!Bounded(left \cup {w})
  <2>1. IsFiniteSet(left \cup {w}) /\ Cardinality(left \cup {w}) <= Cardinality(left) + 1
    <3>1. IsFiniteSet(left \cup {w})
      BY <1>3, FS_AddElement
    <3>2. CASE w \in left
      <4>1. left \cup {w} = left
        BY <3>2
      <4> QED
        BY <1>3, <3>1, <4>1
    <3>3. CASE w \notin left
      <4>1. Cardinality(left \cup {w}) = Cardinality(left) + 1
        BY <1>3, <3>3, FS_AddElement
      <4> QED
        BY <1>3, <3>1, <4>1
    <3> QED
      BY <3>2, <3>3
  <2>2. Cardinality(left \cup {w}) \in Nat
    BY <2>1, FS_CardinalityType
  <2> QED
    BY <1>1, <1>2, <1>3, <1>5, <2>1, <2>2, WindowsCardinality DEF Wi!Bounded
<1>6. left \cup {} = left
  OBVIOUS
<1> QED
  BY <1>4, <1>5, <1>6, WindowsCardinality DEF left, room

LEMMA WindowsInit ==
  ASSUME Wi!WindowsAssumption, Wi!Init
  PROVE  Wi!WindowsInv
<1>1. Wi!Bounded({})
  BY WindowsCardinality, FS_EmptySet DEF Wi!Bounded, Wi!WindowsAssumption
<1> QED
  BY <1>1 DEF Wi!Init, Wi!WindowsInv, Wi!Idle, Wi!Instants, Wi!WindowsAssumption

LEMMA WindowsStep ==
  ASSUME Wi!WindowsAssumption, Wi!WindowsInv, [Wi!Next]_(Wi!vars)
  PROVE  Wi!WindowsInv'
<1>1. CASE UNCHANGED Wi!vars
  BY <1>1 DEF Wi!vars, Wi!WindowsInv
<1>2. CASE Wi!Tick
  BY <1>2 DEF Wi!Tick, Wi!WindowsInv, Wi!Instants, Wi!WindowsAssumption
<1>3. ASSUME NEW r \in Requests, NEW s \in Wi!Instants, NEW e \in Wi!Instants, Wi!AddWindow(r, s, e)
      PROVE  Wi!WindowsInv'
  <2> DEFINE w == [id |-> r, startsAt |-> s, endsAt |-> e]
  <2>1. w \in Wi!Window
    BY DEF Wi!Window
  <2>2. Wi!Call(r, {w}, None)
    BY <1>3 DEF Wi!AddWindow
  <2> HIDE DEF w
  <2> QED
    BY <2>1, <2>2 DEF Wi!Call, Wi!WindowsInv
<1>4. ASSUME NEW r \in Requests, NEW i \in Requests, Wi!RemoveWindow(r, i) PROVE Wi!WindowsInv'
  BY <1>4 DEF Wi!RemoveWindow, Wi!Call, Wi!WindowsInv
<1>5. ASSUME NEW r \in Requests, Wi!Read(r) PROVE Wi!WindowsInv'
  <2> DEFINE c == req[r]
             kept == {w \in windows : w.id # c.drops}
             next == Wi!Prune(kept, c.now) \cup c.adds
             refused == IF c.adds = {} THEN kept = windows ELSE Wi!Cardinality(Wi!Prune(windows, c.now)) >= MaxWindows
  <2>1. /\ c.at = "read" /\ UNCHANGED <<windows, now>>
        /\ req' = [req EXCEPT ![r] = IF refused THEN [at |-> "done"] ELSE [at |-> "write", next |-> next]]
    BY <1>5 DEF Wi!Read
  <2>2. c.adds = {} \/ \E w \in Wi!Window : c.adds = {w}
    BY <2>1 DEF Wi!WindowsInv
  <2>3. Wi!Bounded(windows)
    BY DEF Wi!WindowsInv
  <2>4. ~refused => Wi!Bounded(next)
    <3>1. CASE c.adds = {}
      BY <2>3, <3>1, PruningKeeps
    <3>2. ASSUME NEW w \in Wi!Window, c.adds = {w} PROVE ~refused => Wi!Bounded(next)
      <4>1. ~refused => Wi!Cardinality(Wi!Prune(windows, c.now)) < MaxWindows
        <5>1. IsFiniteSet(Wi!Prune(windows, c.now))
          BY <2>3, WindowsCardinality, FS_Subset DEF Wi!Bounded, Wi!Prune
        <5>2. Wi!Cardinality(Wi!Prune(windows, c.now)) \in Nat
          BY <5>1, WindowsCardinality, FS_CardinalityType
        <5> QED
          BY <3>2, <5>2 DEF Wi!WindowsAssumption
      <4>2. Wi!Cardinality(Wi!Prune(windows, c.now)) < MaxWindows => Wi!Bounded(Wi!Prune(kept, c.now) \cup {w})
        BY <2>3, PruningKeeps
      <4> QED
        BY <3>2, <4>1, <4>2
    <3> QED
      BY <2>2, <3>1, <3>2
  <2> HIDE DEF next, refused, kept
  <2> QED
    BY <2>1, <2>4 DEF Wi!WindowsInv
<1>6. ASSUME NEW r \in Requests, Wi!Write(r) PROVE Wi!WindowsInv'
  BY <1>6 DEF Wi!Write, Wi!WindowsInv
<1> QED
  BY <1>1, <1>2, <1>3, <1>4, <1>5, <1>6 DEF Wi!Next

\* However the requests that read, change and write back the list interleave, there are
\* never more windows than the limit they were all checked against (maintenanceWindows.js).
THEOREM WindowsAreBounded == ASSUME Wi!WindowsAssumption PROVE Wi!Spec => []Wi!TypeOK
<1>1. Wi!Init => Wi!WindowsInv
  BY WindowsInit
<1>2. Wi!WindowsInv /\ [Wi!Next]_(Wi!vars) => Wi!WindowsInv'
  BY WindowsStep
<1>3. Wi!WindowsInv => Wi!TypeOK
  BY DEF Wi!WindowsInv, Wi!TypeOK, Wi!Bounded
<1> QED
  BY <1>1, <1>2, <1>3, PTL DEF Wi!Spec


-----------------------------------------------------------------------------
(* One list per address and one index of addresses *)

LEMMA IndexesCardinality == \A S : Ix!Cardinality(S) = Cardinality(S) /\ (Ix!IsFiniteSet(S) <=> IsFiniteSet(S))
BY DEF Ix!Cardinality, Cardinality, Ix!IsFiniteSet, IsFiniteSet

\* What a list without an element is.
LEMMA WithoutIs ==
  ASSUME NEW S, NEW list \in Seq(S), Ix!IsInjective(list), NEW x
  PROVE  /\ Ix!Without(list, x) \in Seq(S) /\ Len(Ix!Without(list, x)) <= Len(list) /\ Ix!IsInjective(Ix!Without(list, x))
         /\ Ix!ToSet(Ix!Without(list, x)) = Ix!ToSet(list) \ {x}
<1> DEFINE found == {i \in DOMAIN list : list[i] = x}
           n == CHOOSE i \in found : TRUE
           rest == [i \in 1..(Len(list) - 1) |-> IF i < n THEN list[i] ELSE list[i + 1]]
<1>1. Ix!Without(list, x) = IF found = {} THEN list ELSE rest
  BY DEF Ix!Without
<1>2. CASE found = {}
  <2>1. \A i \in DOMAIN list : list[i] # x
    BY <1>2
  <2> QED
    BY <1>1, <1>2, <2>1 DEF Ix!ToSet
<1>3. CASE found # {}
  <2>1. n \in DOMAIN list /\ list[n] = x
    BY <1>3
  <2>2. Len(list) \in Nat /\ DOMAIN list = 1..Len(list) /\ \A i \in 1..Len(list) : list[i] \in S
    OBVIOUS
  <2> HIDE DEF n
  <2>3. rest \in Seq(S) /\ Len(rest) = Len(list) - 1 /\ DOMAIN rest = 1..(Len(list) - 1)
    BY <2>1, <2>2
  <2>4. \A i \in DOMAIN rest : rest[i] = list[IF i < n THEN i ELSE i + 1]
    BY <2>1, <2>2
  <2>5. \A i, j \in DOMAIN list : list[i] = list[j] => i = j
    BY DEF Ix!IsInjective
  <2>6. Ix!IsInjective(rest)
    <3> SUFFICES ASSUME NEW i \in DOMAIN rest, NEW j \in DOMAIN rest, rest[i] = rest[j] PROVE i = j
      BY DEF Ix!IsInjective
    <3>1. (IF i < n THEN i ELSE i + 1) = (IF j < n THEN j ELSE j + 1)
      BY <2>1, <2>2, <2>3, <2>4, <2>5
    <3> QED
      BY <2>1, <2>2, <2>3, <3>1
  <2>7. Ix!ToSet(rest) \subseteq Ix!ToSet(list) \ {x}
    <3> SUFFICES ASSUME NEW i \in DOMAIN rest PROVE rest[i] \in {list[k] : k \in DOMAIN list} /\ rest[i] # x
      BY DEF Ix!ToSet
    <3>1. (IF i < n THEN i ELSE i + 1) \in DOMAIN list \ {n}
      BY <2>1, <2>2, <2>3
    <3> QED
      BY <2>1, <2>4, <2>5, <3>1
  <2>8. Ix!ToSet(list) \ {x} \subseteq Ix!ToSet(rest)
    <3> SUFFICES ASSUME NEW i \in DOMAIN list, list[i] # x PROVE \E k \in DOMAIN rest : rest[k] = list[i]
      BY DEF Ix!ToSet
    <3>0. i # n
      BY <2>1
    <3>1. i # n /\ (i < n => i \in DOMAIN rest) /\ (i > n => i - 1 \in DOMAIN rest /\ ~(i - 1 < n) /\ (i - 1) + 1 = i)
      <4> HIDE DEF rest
      <4> QED
        BY <2>1, <2>2, <2>3, <3>0
    <3>2. CASE i < n
      BY <2>4, <3>1, <3>2
    <3>3. CASE i > n
      <4>1. rest[i - 1] = list[i]
        BY <2>4, <3>1, <3>3
      <4> QED
        BY <3>1, <3>3, <4>1
    <3> QED
      BY <2>1, <2>2, <3>1, <3>2, <3>3
  <2> QED
    BY <1>1, <1>3, <2>2, <2>3, <2>6, <2>7, <2>8
<1> QED
  BY <1>2, <1>3

\* A new element in front, of a list that grows no longer than it may.
LEMMA Fronted ==
  ASSUME NEW S, NEW list \in Seq(S), NEW x \in S
  PROVE  /\ <<x>> \o list \in Seq(S) /\ Len(<<x>> \o list) = Len(list) + 1 /\ (<<x>> \o list)[1] = x
         /\ Ix!ToSet(<<x>> \o list) = Ix!ToSet(list) \cup {x}
         /\ Ix!IsInjective(list) /\ x \notin Ix!ToSet(list) => Ix!IsInjective(<<x>> \o list)
<1> DEFINE new == <<x>> \o list
<1>1. new \in Seq(S) /\ Len(new) = Len(list) + 1 /\ new[1] = x /\ DOMAIN new = 1..(Len(list) + 1) /\ DOMAIN list = 1..Len(list)
      /\ Len(list) \in Nat
  OBVIOUS
<1>2. \A i \in 1..Len(list) : new[i + 1] = list[i]
  OBVIOUS
<1> HIDE DEF new
<1>3. \A i \in DOMAIN new : i # 1 => i - 1 \in DOMAIN list /\ new[i] = list[i - 1]
  <2> SUFFICES ASSUME NEW i \in DOMAIN new, i # 1 PROVE i - 1 \in DOMAIN list /\ new[i] = list[i - 1]
    OBVIOUS
  <2>1. i - 1 \in 1..Len(list) /\ (i - 1) + 1 = i
    BY <1>1
  <2> QED
    BY <1>1, <1>2, <2>1
<1>4. Ix!ToSet(new) = Ix!ToSet(list) \cup {x}
  <2>1. \A i \in DOMAIN new : new[i] = x \/ \E k \in DOMAIN list : new[i] = list[k]
    BY <1>1, <1>3
  <2>2. \A k \in DOMAIN list : k + 1 \in DOMAIN new /\ new[k + 1] = list[k]
    BY <1>1, <1>2
  <2>3. 1 \in DOMAIN new
    BY <1>1
  <2>4. \A y \in Ix!ToSet(new) : y \in Ix!ToSet(list) \cup {x}
    BY <2>1 DEF Ix!ToSet
  <2>5. \A y \in Ix!ToSet(list) : y \in Ix!ToSet(new)
    <3> SUFFICES ASSUME NEW k \in DOMAIN list PROVE \E i \in DOMAIN new : list[k] = new[i]
      BY DEF Ix!ToSet
    <3> QED
      BY <2>2
  <2>6. x \in Ix!ToSet(new)
    BY <1>1, <2>3 DEF Ix!ToSet
  <2> QED
    BY <2>4, <2>5, <2>6
<1>5. ASSUME Ix!IsInjective(list), x \notin Ix!ToSet(list) PROVE Ix!IsInjective(new)
  <2>1. \A i, j \in DOMAIN list : list[i] = list[j] => i = j
    BY <1>5 DEF Ix!IsInjective
  <2>2. \A i \in DOMAIN list : list[i] # x
    BY <1>5 DEF Ix!ToSet
  <2> SUFFICES ASSUME NEW i \in DOMAIN new, NEW j \in DOMAIN new, new[i] = new[j] PROVE i = j
    BY DEF Ix!IsInjective
  <2>3. i = 1 \/ j = 1 => i = 1 /\ j = 1
    BY <1>1, <1>3, <2>2
  <2>4. ASSUME i # 1, j # 1 PROVE i - 1 = j - 1
    <3>1. i - 1 \in DOMAIN list /\ j - 1 \in DOMAIN list /\ new[i] = list[i - 1] /\ new[j] = list[j - 1]
      BY <1>3, <2>4
    <3> QED
      BY <2>1, <3>1
  <2> QED
    BY <1>1, <2>3, <2>4
<1> QED
  BY <1>1, <1>4, <1>5 DEF new

LEMMA BoundedIs ==
  ASSUME Ix!IndexesAssumption, NEW S, NEW list \in Seq(S)
  PROVE  /\ Ix!Bounded(list) \in Seq(S) /\ Len(Ix!Bounded(list)) <= MaxTracked /\ Len(Ix!Bounded(list)) <= Len(list)
         /\ list # <<>> => list[1] \in Ix!ToSet(Ix!Bounded(list))
         /\ Ix!IsInjective(list) => Ix!IsInjective(Ix!Bounded(list))
<1> DEFINE n == IF Len(list) < MaxTracked THEN Len(list) ELSE MaxTracked
<1>1. n \in Nat /\ n <= Len(list) /\ n <= MaxTracked /\ (list # <<>> => n >= 1) /\ Len(list) \in Nat
  BY DEF Ix!IndexesAssumption
<1>2. Ix!Bounded(list) = SubSeq(list, 1, n)
  BY DEF Ix!Bounded
<1> HIDE DEF n
<1>3. SubSeq(list, 1, n) \in Seq(S) /\ Len(SubSeq(list, 1, n)) = n /\ \A i \in 1..n : SubSeq(list, 1, n)[i] = list[i]
  BY <1>1
<1>4. DOMAIN SubSeq(list, 1, n) = 1..n /\ DOMAIN list = 1..Len(list)
  BY <1>3
<1>5. list # <<>> => list[1] \in Ix!ToSet(Ix!Bounded(list))
  <2> SUFFICES ASSUME list # <<>> PROVE \E i \in DOMAIN SubSeq(list, 1, n) : SubSeq(list, 1, n)[i] = list[1]
    BY <1>2 DEF Ix!ToSet
  <2>1. 1 \in 1..n
    BY <1>1
  <2> QED
    BY <1>3, <1>4, <2>1
<1>6. Ix!IsInjective(list) => Ix!IsInjective(Ix!Bounded(list))
  <2>1. 1..n \subseteq 1..Len(list)
    BY <1>1
  <2> QED
    BY <1>2, <1>3, <1>4, <2>1 DEF Ix!IsInjective
<1> QED
  BY <1>1, <1>2, <1>3, <1>5, <1>6

\* The edits of a request, first and next.
Puts(how) ==
  \/ how = "front" /\ family \in {"questions", "transactions"}
  \/ how = "push" /\ family = "reversals"
  \/ how = "pool" /\ family = "pool"
  \/ how = "set" /\ family \in {"subscription", "job"}
Started(todo, a, x) ==
  \/ \E how \in {"front", "push", "pool", "set"} : x \in Items /\ Puts(how) /\ todo = <<Ix!Edit(a, how, x), Ix!Edit("index", Ix!Adds, a)>>
  \/ family \notin {"reversals", "pool"} /\ todo = <<Ix!Edit(a, "clear", None), Ix!Edit("index", "drop", a)>>
  \/ x \in Items /\ family = "pool" /\ todo = <<Ix!Edit(a, "drop", x)>>
Shape(todo, a, x) ==
  \/ Started(todo, a, x)
  \/ todo = <<Ix!Edit("index", Ix!Adds, a)>>
  \/ family # "reversals" /\ todo = <<Ix!Edit("index", "drop", a)>>

LEMMA RequestShapes ==
  ASSUME family \in Ix!Families, NEW a \in Owners, NEW x \in Items, NEW todo \in Ix!Requests(a, x)
  PROVE  Started(todo, a, x)
<1>1. CASE family = "questions"
  BY <1>1 DEF Ix!Requests, Ix!RecordPayerQuestion, Ix!ErasePayerRecords, Started, Puts, Ix!Adds, Ix!Index
<1>2. CASE family = "reversals"
  BY <1>2 DEF Ix!Requests, Ix!RecordPaymentReversal, Started, Puts, Ix!Adds, Ix!Index
<1>3. CASE family = "transactions"
  <2>1. Ix!Requests(a, x) = {Ix!RecordAnchorTransaction(a, x), Ix!EraseAnchorRecords(a)}
    BY <1>3 DEF Ix!Requests
  <2> QED
    BY <1>3, <2>1 DEF Ix!RecordAnchorTransaction, Ix!EraseAnchorRecords, Started, Puts, Ix!Adds, Ix!Index
<1>4. CASE family = "pool"
  <2>1. Ix!Requests(a, x) = {Ix!AddPoolWorkers(a, x), Ix!RemovePoolWorkers(a, x)}
    BY <1>4 DEF Ix!Requests
  <2> QED
    BY <1>4, <2>1 DEF Ix!AddPoolWorkers, Ix!RemovePoolWorkers, Started, Puts, Ix!Adds, Ix!Index
<1>5. CASE family = "subscription"
  <2>1. Ix!Requests(a, x) = {Ix!SaveSubscription(a, x), Ix!RemoveSubscription(a)}
    BY <1>5 DEF Ix!Requests
  <2> QED
    BY <1>5, <2>1 DEF Ix!SaveSubscription, Ix!RemoveSubscription, Started, Puts, Ix!Adds, Ix!Index
<1>6. CASE family = "job"
  <2>1. Ix!Requests(a, x) = {Ix!CreateJob(a, x)}
    BY <1>6 DEF Ix!Requests
  <2> QED
    BY <1>6, <2>1 DEF Ix!CreateJob, Started, Puts, Ix!Adds, Ix!Index
<1> QED
  BY <1>1, <1>2, <1>3, <1>4, <1>5, <1>6 DEF Ix!Families

LEMMA LeftShapes ==
  ASSUME family \in Ix!Families, NEW todo, Ix!Left(todo)
  PROVE  \E a \in Owners, x \in Items \cup {None} : Shape(todo, a, x)
<1>1. PICK a \in Owners : \/ \E x \in Items : todo \in Ix!Requests(a, x)
                          \/ todo = <<Ix!Edit("index", Ix!Adds, a)>>
                          \/ family # "reversals" /\ todo = <<Ix!Edit("index", "drop", a)>>
  BY DEF Ix!Left, Ix!Index
<1>2. CASE \E x \in Items : todo \in Ix!Requests(a, x)
  BY <1>2, RequestShapes DEF Shape
<1>3. CASE ~\E x \in Items : todo \in Ix!Requests(a, x)
  BY <1>1, <1>3 DEF Shape
<1> QED
  BY <1>2, <1>3

\* An edit that some request makes of the list it names.
Sound(edit) ==
  \/ edit.key \in Owners /\ edit.item \in Items /\ Puts(edit.how)
  \/ edit.key \in Owners /\ edit.how = "clear"
  \/ edit.key \in Owners /\ edit.item \in Items /\ edit.how = "drop" /\ family = "pool"
  \/ edit.key = "index" /\ edit.item \in Owners /\ edit.how = Ix!Adds
  \/ edit.key = "index" /\ edit.item \in Owners /\ edit.how = "drop" /\ family # "reversals"

\* Nobody is listed twice, so no index is longer than there are addresses.
LEMMA IndexFits ==
  ASSUME Ix!IndexesAssumption, NEW list \in Seq(Owners), Ix!IsInjective(list)
  PROVE  Len(list) <= Ix!Cardinality(Owners)
<1>1. IsFiniteSet(Owners)
  BY IndexesCardinality DEF Ix!IndexesAssumption
<1>2. Len(list) \in Nat /\ DOMAIN list = 1..Len(list) /\ list \in [1..Len(list) -> Owners]
  OBVIOUS
<1>3. \A i, j \in 1..Len(list) : list[i] = list[j] => i = j
  BY <1>2 DEF Ix!IsInjective
<1>4. IsFiniteSet(1..Len(list)) /\ Cardinality(1..Len(list)) = Len(list)
  BY <1>2, FS_Interval
<1>5. list \in Injection(1..Len(list), Owners)
  BY <1>2, <1>3 DEF Injection, IsInjective
<1>6. Cardinality(1..Len(list)) <= Cardinality(Owners)
  BY <1>1, <1>5, FS_Injection
<1> QED
  BY <1>4, <1>6, IndexesCardinality

LEMMA EditedKeeps ==
  ASSUME Ix!IndexesAssumption, family \in Ix!Families, NEW edit, Sound(edit), NEW list, Ix!ListOK(edit.key, list)
  PROVE  Ix!ListOK(edit.key, Ix!Edited(list, edit))
<1> DEFINE S == IF edit.key = "index" THEN Owners ELSE Items
<1>1. list \in Seq(S) /\ Len(list) \in Nat /\ MaxTracked \in Nat /\ MaxTracked >= 1 /\ MaxPool \in Nat /\ MaxPool >= 1
  BY DEF Ix!ListOK, Ix!Index, Ix!IndexesAssumption
<1>2. edit.key = "index" \/ (edit.key \in Owners /\ edit.key # "index")
  BY DEF Sound, Ix!IndexesAssumption
<1>3. CASE edit.how = "front"
  <2>0. edit.key \in Owners /\ edit.item \in Items /\ Puts(edit.how)
    BY <1>3 DEF Sound, Ix!Adds
  <2>1. edit.key # "index" /\ edit.item \in S /\ family \in {"questions", "transactions"}
    <3>1. edit.key # "index"
      BY <2>0 DEF Ix!IndexesAssumption
    <3>2. family \in {"questions", "transactions"}
      BY <1>3, <2>0 DEF Puts
    <3> QED
      BY <2>0, <3>1, <3>2
  <2>2. Ix!IsInjective(list)
    BY <2>1 DEF Ix!ListOK
  <2> DEFINE rest == Ix!Without(list, edit.item)
  <2>3. rest \in Seq(S) /\ Ix!IsInjective(rest) /\ edit.item \notin Ix!ToSet(rest)
    BY <1>1, <2>2, WithoutIs
  <2> HIDE DEF rest
  <2>4. <<edit.item>> \o rest \in Seq(S) /\ Ix!IsInjective(<<edit.item>> \o rest)
    BY <2>1, <2>3, Fronted
  <2>5. Ix!Edited(list, edit) = Ix!Bounded(<<edit.item>> \o rest)
    BY <1>3 DEF Ix!Edited, rest
  <2>6. Ix!Edited(list, edit) \in Seq(S) /\ Len(Ix!Edited(list, edit)) <= MaxTracked /\ Ix!IsInjective(Ix!Edited(list, edit))
    BY <2>4, <2>5, BoundedIs
  <2> QED
    BY <2>1, <2>6 DEF Ix!ListOK, Ix!Index
<1>4. CASE edit.how = "push"
  <2>0. edit.key \in Owners /\ edit.item \in Items /\ Puts(edit.how)
    BY <1>4 DEF Sound, Ix!Adds
  <2>1. edit.key # "index" /\ edit.item \in S /\ family = "reversals"
    <3>1. edit.key # "index"
      BY <2>0 DEF Ix!IndexesAssumption
    <3>2. family = "reversals"
      BY <1>4, <2>0 DEF Puts
    <3> QED
      BY <2>0, <3>1, <3>2
  <2>2. <<edit.item>> \o list \in Seq(S)
    BY <1>1, <2>1, Fronted
  <2>3. Ix!Edited(list, edit) = Ix!Bounded(<<edit.item>> \o list)
    BY <1>4 DEF Ix!Edited
  <2>4. Ix!Edited(list, edit) \in Seq(S) /\ Len(Ix!Edited(list, edit)) <= MaxTracked
    BY <2>2, <2>3, BoundedIs
  <2> QED
    BY <2>1, <2>4 DEF Ix!ListOK, Ix!Index
<1>5. CASE edit.how = "add"
  <2>1. edit.key = "index" /\ edit.item \in S /\ family # "subscription"
    BY <1>2, <1>5 DEF Sound, Puts, Ix!Adds
  <2>2. CASE edit.item \in Ix!ToSet(list)
    BY <1>5, <2>2 DEF Ix!Edited
  <2>3. CASE edit.item \notin Ix!ToSet(list)
    <3> DEFINE new == <<edit.item>> \o list
    <3>1. new \in Seq(S) /\ (Ix!IsInjective(list) => Ix!IsInjective(new))
      BY <1>1, <2>1, <2>3, Fronted
    <3>2. Ix!Edited(list, edit) = Ix!Bounded(new)
      BY <1>5, <2>3 DEF Ix!Edited
    <3> HIDE DEF new
    <3>3. /\ Ix!Edited(list, edit) \in Seq(S) /\ Len(Ix!Edited(list, edit)) <= MaxTracked
          /\ Ix!IsInjective(new) => Ix!IsInjective(Ix!Edited(list, edit))
      BY <3>1, <3>2, BoundedIs
    <3> QED
      BY <2>1, <3>1, <3>3 DEF Ix!ListOK, Ix!Index
  <2> QED
    BY <2>2, <2>3
<1>6. CASE edit.how = "pool"
  <2>0. edit.key \in Owners /\ edit.item \in Items /\ Puts(edit.how)
    BY <1>6 DEF Sound, Ix!Adds
  <2>1. edit.key # "index" /\ edit.item \in S /\ family = "pool"
    <3>1. edit.key # "index"
      BY <2>0 DEF Ix!IndexesAssumption
    <3>2. family = "pool"
      BY <1>6, <2>0 DEF Puts
    <3> QED
      BY <2>0, <3>1, <3>2
  <2>2. CASE edit.item \in Ix!ToSet(list) \/ Len(list) >= MaxPool
    BY <1>6, <2>2 DEF Ix!Edited
  <2>3. CASE ~(edit.item \in Ix!ToSet(list) \/ Len(list) >= MaxPool)
    <3> DEFINE new == <<edit.item>> \o list
    <3>1. new \in Seq(S) /\ Len(new) = Len(list) + 1 /\ (Ix!IsInjective(list) => Ix!IsInjective(new))
      BY <1>1, <2>1, <2>3, Fronted
    <3>2. Ix!Edited(list, edit) = new
      BY <1>6, <2>3 DEF Ix!Edited
    <3> HIDE DEF new
    <3>3. Len(new) <= MaxPool
      BY <1>1, <2>3, <3>1
    <3> QED
      BY <2>1, <3>1, <3>2, <3>3 DEF Ix!ListOK, Ix!Index
  <2> QED
    BY <2>2, <2>3
<1>7. CASE edit.how = "append"
  <2>1. edit.key = "index" /\ edit.item \in Owners /\ family = "subscription"
    BY <1>2, <1>7 DEF Sound, Puts, Ix!Adds
  <2>2. CASE edit.item \in Ix!ToSet(list)
    BY <1>7, <2>2 DEF Ix!Edited
  <2>3. CASE edit.item \notin Ix!ToSet(list)
    <3> DEFINE new == Append(list, edit.item)
    <3>1. Ix!Edited(list, edit) = new
      BY <1>7, <2>3 DEF Ix!Edited
    <3>2. list \in Seq(Owners) /\ new \in Seq(Owners) /\ Len(new) = Len(list) + 1 /\ new[Len(list) + 1] = edit.item
          /\ DOMAIN new = 1..(Len(list) + 1) /\ DOMAIN list = 1..Len(list) /\ \A i \in 1..Len(list) : new[i] = list[i]
      BY <1>1, <2>1
    <3>3. \A i \in DOMAIN list : list[i] # edit.item
      BY <2>3 DEF Ix!ToSet
    <3>4. \A i, j \in DOMAIN list : list[i] = list[j] => i = j
      BY <2>1 DEF Ix!ListOK, Ix!IsInjective
    <3> HIDE DEF new
    <3>5. \A i, j \in DOMAIN new : new[i] = new[j] => i = j
      BY <1>1, <3>2, <3>3, <3>4
    <3>6. Ix!IsInjective(new)
      BY <3>5 DEF Ix!IsInjective
    <3> QED
      BY <2>1, <3>1, <3>2, <3>6, IndexFits DEF Ix!ListOK, Ix!Index
  <2> QED
    BY <2>2, <2>3
<1>8. CASE edit.how = "set"
  <2>0. edit.key \in Owners /\ edit.item \in Items /\ Puts(edit.how)
    BY <1>8 DEF Sound, Ix!Adds
  <2>1. edit.key # "index" /\ edit.item \in Items /\ family \in {"subscription", "job"}
    <3>1. edit.key # "index"
      BY <2>0 DEF Ix!IndexesAssumption
    <3>2. family \in {"subscription", "job"}
      BY <1>8, <2>0 DEF Puts
    <3> QED
      BY <2>0, <3>1, <3>2
  <2>2. Ix!Edited(list, edit) = <<edit.item>>
    BY <1>8 DEF Ix!Edited
  <2>3. <<edit.item>> \in Seq(Items) /\ Len(<<edit.item>>) = 1 /\ Ix!IsInjective(<<edit.item>>)
    BY <2>1 DEF Ix!IsInjective
  <2> QED
    BY <1>1, <2>1, <2>2, <2>3 DEF Ix!ListOK, Ix!Index
<1>9. CASE edit.how = "drop"
  <2>1. family # "reversals"
    BY <1>9 DEF Sound, Puts, Ix!Adds
  <2>2. Ix!IsInjective(list)
    BY <2>1 DEF Ix!ListOK
  <2> DEFINE new == Ix!Without(list, edit.item)
  <2>3. new \in Seq(S) /\ Len(new) <= Len(list) /\ Ix!IsInjective(new)
    BY <1>1, <2>2, WithoutIs
  <2>4. Ix!Edited(list, edit) = new
    BY <1>9 DEF Ix!Edited
  <2> HIDE DEF new
  <2>5. IsFiniteSet(Owners) /\ Ix!Cardinality(Owners) \in Nat
    BY IndexesCardinality, FS_CardinalityType DEF Ix!IndexesAssumption
  <2>6. Len(new) \in Nat
    BY <2>3
  <2> QED
    BY <1>1, <2>3, <2>4, <2>5, <2>6 DEF Ix!ListOK, Ix!Index
<1>10. CASE edit.how = "clear"
  <2>1. Ix!Edited(list, edit) = <<>>
    BY <1>10 DEF Ix!Edited
  <2>2. Ix!Cardinality(Owners) \in Nat
    BY IndexesCardinality, FS_CardinalityType DEF Ix!IndexesAssumption
  <2>3. Ix!IsInjective(<<>>) /\ Len(<<>>) = 0 /\ <<>> \in Seq(S)
    BY DEF Ix!IsInjective
  <2> QED
    BY <1>1, <2>1, <2>2, <2>3 DEF Ix!ListOK, Ix!Index
<1> QED
  BY <1>3, <1>4, <1>5, <1>6, <1>7, <1>8, <1>9, <1>10 DEF Sound, Puts, Ix!Adds

\* What an edit puts in an index is in it afterwards.
LEMMA AddsItem ==
  ASSUME Ix!IndexesAssumption, NEW S, NEW list \in Seq(S), NEW edit, edit.item \in S, edit.how \in {"add", "append"}
  PROVE  edit.item \in Ix!ToSet(Ix!Edited(list, edit))
<1>1. CASE edit.item \in Ix!ToSet(list)
  BY <1>1 DEF Ix!Edited
<1>2. CASE edit.item \notin Ix!ToSet(list) /\ edit.how = "add"
  <2> DEFINE new == <<edit.item>> \o list
  <2>1. new \in Seq(S) /\ new[1] = edit.item /\ new # <<>>
    BY Fronted
  <2>2. Ix!Edited(list, edit) = Ix!Bounded(new)
    BY <1>2 DEF Ix!Edited
  <2> HIDE DEF new
  <2> QED
    BY <2>1, <2>2, BoundedIs
<1>3. CASE edit.item \notin Ix!ToSet(list) /\ edit.how = "append"
  <2> DEFINE new == Append(list, edit.item)
  <2>1. Ix!Edited(list, edit) = new
    BY <1>3 DEF Ix!Edited
  <2>2. Len(list) + 1 \in DOMAIN new /\ new[Len(list) + 1] = edit.item
    OBVIOUS
  <2> HIDE DEF new
  <2> QED
    BY <2>1, <2>2 DEF Ix!ToSet
<1> QED
  BY <1>1, <1>2, <1>3

\* A request in two steps and in one.
LEMMA TwoSteps ==
  ASSUME NEW e, NEW f, NEW b
  PROVE  /\ <<e, f>> # <<>> /\ Head(<<e, f>>) = e /\ Tail(<<e, f>>) = <<f>>
         /\ Ix!About(b, <<e, f>>) <=> b \in {e.key, e.item, f.key, f.item}
         /\ Ix!Removes(<<e, f>>) <=> e.how \in {"drop", "clear"} \/ f.how \in {"drop", "clear"}
         /\ DOMAIN <<e, f>> = {1, 2} /\ <<e, f>>[1] = e /\ <<e, f>>[2] = f
<1>1. DOMAIN <<e, f>> = {1, 2} /\ <<e, f>>[1] = e /\ <<e, f>>[2] = f
  OBVIOUS
<1>2. <<e, f>> # <<>> /\ Head(<<e, f>>) = e /\ Tail(<<e, f>>) = <<f>>
  OBVIOUS
<1> DEFINE todo == <<e, f>>
<1> HIDE DEF todo
<1>3. DOMAIN todo = {1, 2} /\ todo[1] = e /\ todo[2] = f
  BY <1>1 DEF todo
<1>4. Ix!About(b, todo) <=> b \in {e.key, e.item, f.key, f.item}
  BY <1>3 DEF Ix!About
<1>5. Ix!Removes(todo) <=> e.how \in {"drop", "clear"} \/ f.how \in {"drop", "clear"}
  BY <1>3 DEF Ix!Removes
<1> QED
  BY <1>1, <1>2, <1>4, <1>5 DEF todo

LEMMA OneStep ==
  ASSUME NEW e, NEW b
  PROVE  /\ <<e>> # <<>> /\ Head(<<e>>) = e /\ Tail(<<e>>) = <<>>
         /\ Ix!About(b, <<e>>) <=> b \in {e.key, e.item}
         /\ Ix!Removes(<<e>>) <=> e.how \in {"drop", "clear"}
         /\ DOMAIN <<e>> = {1} /\ <<e>>[1] = e
<1>1. DOMAIN <<e>> = {1} /\ <<e>>[1] = e
  OBVIOUS
<1>2. <<e>> # <<>> /\ Head(<<e>>) = e /\ Tail(<<e>>) = <<>>
  OBVIOUS
<1> DEFINE todo == <<e>>
<1> HIDE DEF todo
<1>3. DOMAIN todo = {1} /\ todo[1] = e
  BY <1>1 DEF todo
<1>4. Ix!About(b, todo) <=> b \in {e.key, e.item}
  BY <1>3 DEF Ix!About
<1>5. Ix!Removes(todo) <=> e.how \in {"drop", "clear"}
  BY <1>3 DEF Ix!Removes
<1> QED
  BY <1>1, <1>2, <1>4, <1>5 DEF todo

\* What is left of a request about an address.
Follows(todo, a) ==
  LET edit == Head(todo)
  IN /\ todo # <<>> /\ Sound(edit)
     /\ \/ edit.key = "index" /\ edit.item = a /\ Tail(todo) = <<>> /\ todo = <<Ix!Edit("index", edit.how, a)>>
        \/ edit.key = a /\ Puts(edit.how) /\ Tail(todo) = <<Ix!Edit("index", Ix!Adds, a)>>
        \/ edit.key = a /\ edit.how = "clear" /\ Tail(todo) = <<Ix!Edit("index", "drop", a)>> /\ family # "reversals"
        \/ edit.key = a /\ edit.how = "drop" /\ Tail(todo) = <<>>
     /\ \A b \in Owners : Ix!About(b, todo) <=> b = a
     /\ Ix!Removes(todo) <=> edit.how \in {"drop", "clear"}
     /\ 1 \in DOMAIN todo /\ todo[1] = edit /\ \A i \in DOMAIN todo : todo[i].key \in {a, "index"}

LEMMA ShapeFollows ==
  ASSUME Ix!IndexesAssumption, family \in Ix!Families, NEW a \in Owners, NEW x, NEW todo, Shape(todo, a, x)
  PROVE  Follows(todo, a)
<1>0. /\ None \notin Owners /\ "index" \notin Owners /\ (x \in Items => x \notin Owners)
      /\ \A k, how, item : /\ Ix!Edit(k, how, item).key = k /\ Ix!Edit(k, how, item).how = how
                           /\ Ix!Edit(k, how, item).item = item
  BY DEF Ix!IndexesAssumption, Ix!Edit
<1>1. ASSUME NEW how \in {"front", "push", "pool", "set"}, x \in Items, Puts(how),
             todo = <<Ix!Edit(a, how, x), Ix!Edit("index", Ix!Adds, a)>>
      PROVE  Follows(todo, a)
  <2> DEFINE e == Ix!Edit(a, how, x)
             f == Ix!Edit("index", Ix!Adds, a)
  <2>1. /\ e.key = a /\ e.how = how /\ e.item = x /\ f.key = "index" /\ f.item = a /\ f.how = Ix!Adds
        /\ f = Ix!Edit("index", Ix!Adds, a) /\ todo = <<e, f>>
    BY <1>0, <1>1
  <2> HIDE DEF e, f
  <2>2. /\ DOMAIN todo = {1, 2} /\ todo[1] = e /\ todo[2] = f
        /\ todo # <<>> /\ Head(todo) = e /\ Tail(todo) = <<f>> /\ (Ix!Removes(todo) <=> FALSE)
        /\ \A b : Ix!About(b, todo) <=> b \in {a, x, "index"}
    BY <2>1, TwoSteps DEF Ix!Adds
  <2>3. Sound(e) /\ e.how \notin {"drop", "clear"}
    BY <1>1, <2>1 DEF Sound
  <2> QED
    BY <1>0, <1>1, <2>1, <2>2, <2>3 DEF Follows
<1>2. ASSUME family \notin {"reversals", "pool"}, todo = <<Ix!Edit(a, "clear", None), Ix!Edit("index", "drop", a)>>
      PROVE  Follows(todo, a)
  <2> DEFINE e == Ix!Edit(a, "clear", None)
             f == Ix!Edit("index", "drop", a)
  <2>1. /\ e.key = a /\ e.how = "clear" /\ e.item = None /\ f.key = "index" /\ f.item = a /\ f.how = "drop"
        /\ f = Ix!Edit("index", "drop", a) /\ todo = <<e, f>>
    BY <1>0, <1>2
  <2> HIDE DEF e, f
  <2>2. /\ DOMAIN todo = {1, 2} /\ todo[1] = e /\ todo[2] = f
        /\ todo # <<>> /\ Head(todo) = e /\ Tail(todo) = <<f>> /\ Ix!Removes(todo)
        /\ \A b : Ix!About(b, todo) <=> b \in {a, None, "index"}
    BY <2>1, TwoSteps
  <2>3. Sound(e)
    BY <2>1 DEF Sound
  <2> QED
    BY <1>0, <1>2, <2>1, <2>2, <2>3 DEF Follows
<1>3. ASSUME x \in Items, family = "pool", todo = <<Ix!Edit(a, "drop", x)>>
      PROVE  Follows(todo, a)
  <2> DEFINE e == Ix!Edit(a, "drop", x)
  <2>1. e.key = a /\ e.how = "drop" /\ e.item = x /\ todo = <<e>>
    BY <1>0, <1>3
  <2> HIDE DEF e
  <2>2. /\ DOMAIN todo = {1} /\ todo[1] = e
        /\ todo # <<>> /\ Head(todo) = e /\ Tail(todo) = <<>> /\ Ix!Removes(todo)
        /\ \A b : Ix!About(b, todo) <=> b \in {a, x}
    BY <2>1, OneStep
  <2>3. Sound(e)
    BY <1>3, <2>1 DEF Sound
  <2> QED
    BY <1>0, <1>3, <2>1, <2>2, <2>3 DEF Follows
<1>4. ASSUME NEW how, todo = <<Ix!Edit("index", how, a)>>, how = Ix!Adds \/ (how = "drop" /\ family # "reversals")
      PROVE  Follows(todo, a)
  <2> DEFINE e == Ix!Edit("index", how, a)
  <2>1. e.key = "index" /\ e.how = how /\ e.item = a /\ todo = <<e>> /\ e = Ix!Edit("index", how, a)
    BY <1>0, <1>4
  <2> HIDE DEF e
  <2>2. /\ DOMAIN todo = {1} /\ todo[1] = e
        /\ todo # <<>> /\ Head(todo) = e /\ Tail(todo) = <<>> /\ (Ix!Removes(todo) <=> how \in {"drop", "clear"})
        /\ \A b : Ix!About(b, todo) <=> b \in {"index", a}
    BY <2>1, OneStep
  <2>3. Sound(e)
    BY <1>4, <2>1 DEF Sound
  <2> QED
    BY <1>0, <1>4, <2>1, <2>2, <2>3 DEF Follows
<1> QED
  BY <1>1, <1>2, <1>3, <1>4 DEF Shape, Started

\* No request begins with an edit of the index.
LEMMA StartedAtAList ==
  ASSUME Ix!IndexesAssumption, NEW a \in Owners, NEW x, NEW todo, Started(todo, a, x), NEW how, NEW b
  PROVE  todo # <<Ix!Edit("index", how, b)>>
<1>1. PICK edit : edit.key = a /\ Head(todo) = edit
  <2>1. \A k, h, item : Ix!Edit(k, h, item).key = k
    BY DEF Ix!Edit
  <2>2. \A e, f : Head(<<e, f>>) = e /\ Head(<<e>>) = e
    OBVIOUS
  <2> QED
    BY <2>1, <2>2 DEF Started
<1>2. Head(<<Ix!Edit("index", how, b)>>).key = "index"
  BY DEF Ix!Edit
<1> QED
  BY <1>1, <1>2 DEF Ix!IndexesAssumption

LEMMA IndexesInit == ASSUME Ix!IndexesAssumption, Ix!Init PROVE Ix!IndexesInv
<1>1. Ix!Cardinality(Owners) \in Nat
  BY IndexesCardinality, FS_CardinalityType DEF Ix!IndexesAssumption
<1>2. \A k : Ix!ListOK(k, <<>>)
  <2>1. Ix!IsInjective(<<>>) /\ Len(<<>>) = 0 /\ \A S : <<>> \in Seq(S)
    BY DEF Ix!IsInjective
  <2> QED
    BY <1>1, <2>1 DEF Ix!ListOK, Ix!IndexesAssumption
<1>3. Ix!TypeOK
  BY <1>2 DEF Ix!Init, Ix!TypeOK
<1>4. \A c \in Calls : editing[c] = Ix!Idle /\ ~Ix!Running(c)
  BY DEF Ix!Init, Ix!Idle, Ix!Running
<1>5. Ix!CallsHold /\ Ix!RemovedAlone /\ Ix!EmptiedFirst
  BY <1>4 DEF Ix!CallsHold, Ix!RemovedAlone, Ix!EmptiedFirst, Ix!Idle
<1>6. Ix!Covered
  BY DEF Ix!Init, Ix!Covered, Ix!Keys
<1> QED
  BY <1>3, <1>5, <1>6 DEF Ix!IndexesInv

\* A request under way is about one address.
LEMMA RequestFollows ==
  ASSUME Ix!IndexesAssumption, Ix!IndexesInv, NEW c \in Calls, Ix!Running(c)
  PROVE  \E a \in Owners : Follows(editing[c].todo, a)
<1>1. Ix!Left(editing[c].todo) /\ family \in Ix!Families
  BY DEF Ix!IndexesInv, Ix!CallsHold, Ix!TypeOK
<1> QED
  BY <1>1, LeftShapes, ShapeFollows

\* What a request is after a step of it.
Moves(c, new) ==
  /\ new = [at |-> new.at, todo |-> new.todo, read |-> new.read]
  /\ \/ new.at = "done"
     \/ new.at = "read" /\ Tail(editing[c].todo) # <<>> /\ new.todo = Tail(editing[c].todo)
     \/ LET edit == Head(editing[c].todo)
        IN /\ new.at = "write" /\ new.todo = editing[c].todo /\ edit.how \notin {"set", "clear"}
           /\ Ix!ListOK(edit.key, new.read) /\ Ix!Edited(new.read, edit) # new.read

LEMMA SteppedMoves ==
  ASSUME NEW c \in Calls, NEW on
  PROVE  /\ Moves(c, Ix!Step(c, on))
         /\ on /\ Tail(editing[c].todo) # <<>> => Ix!Step(c, on).at = "read" /\ Ix!Step(c, on).todo = Tail(editing[c].todo)
         /\ Ix!Step(c, on).at = "read" => on
<1>1. CASE on /\ Tail(editing[c].todo) # <<>>
  <2>1. Ix!Step(c, on) = [at |-> "read", todo |-> Tail(editing[c].todo), read |-> <<>>]
    BY <1>1 DEF Ix!Step, Ix!Idle
  <2>2. PICK new : new = Ix!Step(c, on)
    OBVIOUS
  <2>3. new.at = "read" /\ new.todo = Tail(editing[c].todo) /\ new = [at |-> new.at, todo |-> new.todo, read |-> new.read]
    BY <2>1, <2>2
  <2>4. Moves(c, new)
    BY <1>1, <2>3 DEF Moves
  <2> QED
    BY <1>1, <2>2, <2>3, <2>4
<1>2. CASE ~(on /\ Tail(editing[c].todo) # <<>>)
  <2>1. Ix!Step(c, on) = [at |-> "done", todo |-> <<>>, read |-> <<>>]
    BY <1>2 DEF Ix!Step, Ix!Idle
  <2> QED
    BY <1>2, <2>1 DEF Moves
<1> QED
  BY <1>1, <1>2

\* The other requests stay as they are, and nobody comes to be about the address of one
\* that removes it.
LEMMA MovesKeep ==
  ASSUME Ix!IndexesAssumption, Ix!IndexesInv, NEW c \in Calls, Ix!Running(c), NEW new, Moves(c, new),
         editing' = [editing EXCEPT ![c] = new], family' = family, cut \subseteq cut'
  PROVE  /\ Ix!CallsHold' /\ Ix!RemovedAlone' /\ DOMAIN editing' = Calls
         /\ \A d \in Calls : editing'[d] = IF d = c THEN new ELSE editing[d]
<1>1. DOMAIN editing = Calls /\ family \in Ix!Families
  BY DEF Ix!IndexesInv, Ix!TypeOK
<1>2. DOMAIN editing' = Calls /\ \A d \in Calls : editing'[d] = IF d = c THEN new ELSE editing[d]
  BY <1>1
<1>3. PICK a \in Owners : Follows(editing[c].todo, a)
  BY RequestFollows
<1>4. \A todo : Ix!Left(todo)' <=> Ix!Left(todo)
  BY DEF Ix!Left, Ix!Requests, Ix!Adds
<1>5. \A k, list : Ix!ListOK(k, list)' <=> Ix!ListOK(k, list)
  BY DEF Ix!ListOK
<1>6. ASSUME new.at = "read", new.todo = Tail(editing[c].todo), Tail(editing[c].todo) # <<>>
      PROVE  Ix!Left(new.todo) /\ Follows(new.todo, a) /\ (Ix!Removes(new.todo) => Ix!Removes(editing[c].todo))
  <2>1. CASE new.todo = <<Ix!Edit("index", Ix!Adds, a)>>
    <3>1. Shape(new.todo, a, None) /\ Ix!Left(new.todo)
      BY <2>1 DEF Shape, Ix!Left, Ix!Index
    <3>2. ~Ix!Removes(new.todo)
      BY <2>1, OneStep DEF Ix!Edit, Ix!Adds
    <3> QED
      BY <1>1, <3>1, <3>2, ShapeFollows
  <2>2. CASE Head(editing[c].todo).how = "clear" /\ family # "reversals" /\ new.todo = <<Ix!Edit("index", "drop", a)>>
    <3>1. Shape(new.todo, a, None) /\ Ix!Left(new.todo)
      BY <2>2 DEF Shape, Ix!Left, Ix!Index
    <3>2. Ix!Removes(editing[c].todo)
      BY <1>3, <2>2 DEF Follows
    <3> QED
      BY <1>1, <3>1, <3>2, ShapeFollows
  <2> QED
    BY <1>3, <1>6, <2>1, <2>2 DEF Follows
<1>7. ASSUME new.at \in {"read", "write"}
      PROVE  Ix!Left(new.todo) /\ Follows(new.todo, a) /\ (Ix!Removes(new.todo) => Ix!Removes(editing[c].todo))
  <2>1. Ix!Left(editing[c].todo)
    BY DEF Ix!IndexesInv, Ix!CallsHold
  <2> QED
    BY <1>3, <1>6, <1>7, <2>1 DEF Moves
<1>8. Ix!CallsHold'
  <2> SUFFICES ASSUME NEW d \in Calls
               PROVE  /\ editing'[d] = [at |-> editing'[d].at, todo |-> editing'[d].todo, read |-> editing'[d].read]
                      /\ editing'[d].at \in {"idle", "read", "write", "done"}
                      /\ editing'[d].at \in {"read", "write"} => Ix!Left(editing'[d].todo)
                      /\ editing'[d].at = "write" => LET edit == Head(editing'[d].todo)
                                                  IN /\ edit.how \notin {"set", "clear"} /\ Ix!ListOK(edit.key, editing'[d].read)
                                                     /\ Ix!Edited(editing'[d].read, edit) # editing'[d].read
    BY <1>4, <1>5 DEF Ix!CallsHold, Ix!Running
  <2>1. CASE d = c
    BY <1>2, <1>7, <2>1 DEF Moves
  <2>2. CASE d # c
    <3>1. editing'[d] = editing[d]
      BY <1>2, <2>2
    <3> QED
      BY <3>1 DEF Ix!IndexesInv, Ix!CallsHold, Ix!Running
  <2> QED
    BY <2>1, <2>2
<1>9. Ix!RemovedAlone'
  <2> SUFFICES ASSUME NEW b \in Owners \ cut', NEW d \in Calls, NEW e \in Calls,
                      editing'[d].at \in {"read", "write"}, Ix!About(b, editing'[d].todo),
                      editing'[e].at \in {"read", "write"}, Ix!About(b, editing'[e].todo), Ix!Removes(editing'[d].todo)
               PROVE  d = e
    BY DEF Ix!RemovedAlone, Ix!Running
  <2>1. \A f \in {d, e} : /\ Ix!Running(f) /\ Ix!About(b, editing[f].todo)
                          /\ Ix!Removes(editing'[f].todo) => Ix!Removes(editing[f].todo)
    <3> SUFFICES ASSUME NEW f \in {d, e}
                 PROVE  /\ Ix!Running(f) /\ Ix!About(b, editing[f].todo)
                        /\ Ix!Removes(editing'[f].todo) => Ix!Removes(editing[f].todo)
      OBVIOUS
    <3>1. CASE f = c
      <4>1. editing'[f] = new /\ new.at \in {"read", "write"} /\ Ix!About(b, new.todo)
        BY <1>2, <3>1
      <4>2. b = a
        BY <1>7, <4>1 DEF Follows
      <4>3. Ix!About(b, editing[f].todo)
        BY <1>3, <3>1, <4>2 DEF Follows
      <4> QED
        BY <1>7, <3>1, <4>1, <4>3
    <3>2. CASE f # c
      BY <1>2, <3>2 DEF Ix!Running
    <3> QED
      BY <3>1, <3>2
  <2>2. b \in Owners \ cut
    OBVIOUS
  <2> QED
    BY <2>1, <2>2 DEF Ix!IndexesInv, Ix!RemovedAlone
<1> QED
  BY <1>2, <1>8, <1>9

LEMMA SameEdit ==
  ASSUME NEW k, NEW h, NEW x, NEW l, NEW i, NEW y, <<Ix!Edit(k, h, x)>> = <<Ix!Edit(l, i, y)>>
  PROVE  k = l /\ h = i /\ x = y
<1>1. Ix!Edit(k, h, x) = Ix!Edit(l, i, y)
  BY OneStep
<1>2. /\ Ix!Edit(k, h, x).key = k /\ Ix!Edit(k, h, x).how = h /\ Ix!Edit(k, h, x).item = x
      /\ Ix!Edit(l, i, y).key = l /\ Ix!Edit(l, i, y).how = i /\ Ix!Edit(l, i, y).item = y
  BY DEF Ix!Edit
<1> QED
  BY <1>1, <1>2

\* A list stays empty until its address is out of the index.
LEMMA EmptiedStays ==
  ASSUME Ix!IndexesAssumption, Ix!IndexesInv, NEW c \in Calls, Ix!Running(c), NEW new, Moves(c, new),
         editing' = [editing EXCEPT ![c] = new], family' = family, cut \subseteq cut',
         NEW a \in Owners, Follows(editing[c].todo, a), \A b \in Owners : b # a => lists'[b] = lists[b],
         new.at = "write" => lists'[a] = lists[a],
         Head(editing[c].todo).how = "clear" /\ new.at = "read" => lists'[a] = <<>>
  PROVE  Ix!EmptiedFirst'
<1> SUFFICES ASSUME NEW b \in Owners \ cut', NEW d \in Calls, editing'[d].at \in {"read", "write"},
                    editing'[d].todo = <<Ix!Edit("index", "drop", b)>>
             PROVE  lists'[b] = <<>>
  BY DEF Ix!EmptiedFirst, Ix!Running, Ix!Index
<1>1. \A e \in Calls : editing'[e] = IF e = c THEN new ELSE editing[e]
  BY MovesKeep
<1>2. b \in Owners \ cut
  OBVIOUS
<1>3. Ix!About(b, <<Ix!Edit("index", "drop", b)>>) /\ Ix!Removes(<<Ix!Edit("index", "drop", b)>>)
  BY OneStep DEF Ix!Edit
<1>4. CASE d # c
  <2>1. Ix!Running(d) /\ editing[d].todo = <<Ix!Edit("index", "drop", b)>>
    BY <1>1, <1>4 DEF Ix!Running
  <2>2. lists[b] = <<>>
    BY <1>2, <2>1 DEF Ix!IndexesInv, Ix!EmptiedFirst, Ix!Index
  <2>3. b # a
    <3> SUFFICES ASSUME b = a PROVE FALSE
      OBVIOUS
    <3>1. Ix!About(b, editing[c].todo)
      BY DEF Follows
    <3> QED
      BY <1>2, <1>3, <1>4, <2>1, <3>1 DEF Ix!IndexesInv, Ix!RemovedAlone
  <2> QED
    BY <2>2, <2>3
<1>5. CASE d = c /\ new.at = "write"
  <2>1. editing[c].todo = <<Ix!Edit("index", "drop", b)>>
    BY <1>1, <1>5 DEF Moves
  <2>2. lists[b] = <<>>
    BY <1>2, <2>1 DEF Ix!IndexesInv, Ix!EmptiedFirst, Ix!Index
  <2>3. b = a
    BY <1>3, <2>1 DEF Follows
  <2> QED
    BY <1>5, <2>2, <2>3
<1>6. CASE d = c /\ new.at = "read"
  <2>1. Tail(editing[c].todo) = <<Ix!Edit("index", "drop", b)>> /\ Tail(editing[c].todo) # <<>>
    BY <1>1, <1>6 DEF Moves
  <2>2. Ix!Adds # "drop"
    BY DEF Ix!Adds
  <2>3. Head(editing[c].todo).how = "clear" /\ Tail(editing[c].todo) = <<Ix!Edit("index", "drop", a)>>
    BY <2>1, <2>2, SameEdit DEF Follows
  <2>4. b = a
    BY <2>1, <2>3, SameEdit
  <2> QED
    BY <1>6, <2>3, <2>4
<1> QED
  BY <1>1, <1>4, <1>5, <1>6 DEF Moves

\* Who is about to index an address still is, unless it is this request.
LEMMA IndexingStays ==
  ASSUME Ix!IndexesAssumption, Ix!IndexesInv, NEW c \in Calls, Ix!Running(c), NEW new, Moves(c, new),
         editing' = [editing EXCEPT ![c] = new], family' = family, cut \subseteq cut'
  PROVE  /\ \A b : Ix!Indexing(b) =>
                Ix!Indexing(b)' \/ (new.at # "write" /\ editing[c].todo = <<Ix!Edit("index", Ix!Adds, b)>>)
         /\ \A b : new.at = "read" /\ Tail(editing[c].todo) = <<Ix!Edit("index", Ix!Adds, b)>> => Ix!Indexing(b)'
<1>1. \A e \in Calls : editing'[e] = IF e = c THEN new ELSE editing[e]
  BY MovesKeep
<1>2. Ix!Adds' = Ix!Adds
  BY DEF Ix!Adds
<1>3. \A b : Ix!Indexing(b)' <=> \E e \in Calls : editing'[e].at \in {"read", "write"} /\ editing'[e].todo = <<Ix!Edit("index", Ix!Adds, b)>>
  BY <1>2 DEF Ix!Indexing, Ix!Running, Ix!Index
<1>4. \A b : Ix!Indexing(b) <=> \E e \in Calls : editing[e].at \in {"read", "write"} /\ editing[e].todo = <<Ix!Edit("index", Ix!Adds, b)>>
  BY DEF Ix!Indexing, Ix!Running, Ix!Index
<1>5. ASSUME NEW b, Ix!Indexing(b)
      PROVE  Ix!Indexing(b)' \/ (new.at # "write" /\ editing[c].todo = <<Ix!Edit("index", Ix!Adds, b)>>)
  <2>1. PICK e \in Calls : editing[e].at \in {"read", "write"} /\ editing[e].todo = <<Ix!Edit("index", Ix!Adds, b)>>
    BY <1>4, <1>5
  <2>2. CASE e # c
    BY <1>1, <1>3, <2>1, <2>2
  <2>3. CASE e = c
    BY <1>1, <1>3, <2>1, <2>3 DEF Moves
  <2> QED
    BY <2>2, <2>3
<1>6. ASSUME NEW b, new.at = "read", Tail(editing[c].todo) = <<Ix!Edit("index", Ix!Adds, b)>>
      PROVE  Ix!Indexing(b)'
  <2>1. Tail(editing[c].todo) # <<>>
    BY <1>6, OneStep
  <2>2. new.todo = Tail(editing[c].todo)
    BY <1>6, <2>1 DEF Moves
  <2> QED
    BY <1>1, <1>3, <1>6, <2>2
<1> QED
  BY <1>5, <1>6

LEMMA Opened == ASSUME NEW todo PROVE [Ix!Idle EXCEPT !.at = "read", !.todo = todo] = [at |-> "read", todo |-> todo, read |-> <<>>]
<1>1. PICK r : r = [Ix!Idle EXCEPT !.at = "read"]
  OBVIOUS
<1>2. r = [at |-> "read", todo |-> <<>>, read |-> <<>>]
  BY <1>1 DEF Ix!Idle
<1>3. [r EXCEPT !.todo = todo] = [at |-> "read", todo |-> todo, read |-> <<>>]
  BY <1>2
<1> QED
  BY <1>1, <1>3, Zenon

LEMMA BeginKeeps ==
  ASSUME Ix!IndexesAssumption, Ix!IndexesInv, NEW c \in Calls, NEW a \in Owners, NEW x \in Items, Ix!Begin(c, a, x)
  PROVE  Ix!IndexesInv'
<1>1. PICK todo \in Ix!Requests(a, x) :
        /\ editing[c].at = "idle" /\ editing' = [editing EXCEPT ![c] = [Ix!Idle EXCEPT !.at = "read", !.todo = todo]]
        /\ cut' = IF \E d \in Calls : Ix!Running(d) /\ Ix!About(a, editing[d].todo) /\ (Ix!Removes(todo) \/ Ix!Removes(editing[d].todo))
                  THEN cut \cup {a} ELSE cut
        /\ family' = family /\ lists' = lists
  BY DEF Ix!Begin
<1> DEFINE new == [at |-> "read", todo |-> todo, read |-> <<>>]
<1>2. [Ix!Idle EXCEPT !.at = "read", !.todo = todo] = new
  BY Opened
<1>3. new.at = "read" /\ new.todo = todo /\ new = [at |-> new.at, todo |-> new.todo, read |-> new.read]
  OBVIOUS
<1> HIDE DEF new
<1>4. DOMAIN editing = Calls /\ family \in Ix!Families /\ cut \subseteq Ix!Keys
  BY DEF Ix!IndexesInv, Ix!TypeOK
<1>5. DOMAIN editing' = Calls /\ \A d \in Calls : editing'[d] = IF d = c THEN new ELSE editing[d]
  BY <1>1, <1>2, <1>4
<1>6. Started(todo, a, x) /\ Follows(todo, a) /\ ~Ix!Running(c)
  BY <1>1, <1>4, RequestShapes, ShapeFollows DEF Shape, Ix!Running
<1>7. \A k, list : Ix!ListOK(k, list)' <=> Ix!ListOK(k, list)
  BY <1>1 DEF Ix!ListOK
<1>8. cut \subseteq cut' /\ cut' \subseteq Ix!Keys
  BY <1>1, <1>4 DEF Ix!Keys
<1>9. Ix!TypeOK'
  BY <1>1, <1>5, <1>7, <1>8 DEF Ix!IndexesInv, Ix!TypeOK, Ix!Keys, Ix!Families
<1>10. Ix!CallsHold'
  <2>1. \A t : Ix!Left(t)' <=> Ix!Left(t)
    BY <1>1 DEF Ix!Left, Ix!Requests, Ix!Adds
  <2>2. Ix!Left(todo)
    BY DEF Ix!Left
  <2> SUFFICES ASSUME NEW d \in Calls
               PROVE  /\ editing'[d] = [at |-> editing'[d].at, todo |-> editing'[d].todo, read |-> editing'[d].read]
                      /\ editing'[d].at \in {"idle", "read", "write", "done"}
                      /\ editing'[d].at \in {"read", "write"} => Ix!Left(editing'[d].todo)
                      /\ editing'[d].at = "write" => LET edit == Head(editing'[d].todo)
                                                  IN /\ edit.how \notin {"set", "clear"} /\ Ix!ListOK(edit.key, editing'[d].read)
                                                     /\ Ix!Edited(editing'[d].read, edit) # editing'[d].read
    BY <1>7, <2>1 DEF Ix!CallsHold, Ix!Running
  <2>3. CASE d = c
    BY <1>3, <1>5, <2>2, <2>3
  <2>4. CASE d # c
    <3>1. editing'[d] = editing[d]
      BY <1>5, <2>4
    <3> QED
      BY <3>1 DEF Ix!IndexesInv, Ix!CallsHold, Ix!Running
  <2> QED
    BY <2>3, <2>4
<1>11. Ix!RemovedAlone'
  <2> SUFFICES ASSUME NEW b \in Owners \ cut', NEW d \in Calls, NEW e \in Calls,
                      editing'[d].at \in {"read", "write"}, Ix!About(b, editing'[d].todo),
                      editing'[e].at \in {"read", "write"}, Ix!About(b, editing'[e].todo), Ix!Removes(editing'[d].todo)
               PROVE  d = e
    BY DEF Ix!RemovedAlone, Ix!Running
  <2>1. \A f \in Calls \ {c} : editing'[f] = editing[f]
    BY <1>5
  <2>2. CASE d # c /\ e # c
    <3>1. editing'[d] = editing[d] /\ editing'[e] = editing[e] /\ b \in Owners \ cut
      BY <1>8, <2>1, <2>2
    <3> QED
      BY <3>1 DEF Ix!IndexesInv, Ix!RemovedAlone, Ix!Running
  <2>3. CASE d = c /\ e # c
    <3>1. editing'[d].todo = todo /\ editing'[e] = editing[e]
      BY <1>3, <1>5, <2>1, <2>3
    <3>2. b = a
      BY <1>6, <3>1 DEF Follows
    <3>3. a \in cut'
      BY <1>1, <3>1, <3>2 DEF Ix!Running
    <3> QED
      BY <3>2, <3>3
  <2>4. CASE d # c /\ e = c
    <3>1. editing'[e].todo = todo /\ editing'[d] = editing[d]
      BY <1>3, <1>5, <2>1, <2>4
    <3>2. b = a
      BY <1>6, <3>1 DEF Follows
    <3>3. a \in cut'
      BY <1>1, <3>1, <3>2 DEF Ix!Running
    <3> QED
      BY <3>2, <3>3
  <2> QED
    BY <2>2, <2>3, <2>4
<1>12. Ix!EmptiedFirst'
  <2> SUFFICES ASSUME NEW b \in Owners \ cut', NEW d \in Calls, editing'[d].at \in {"read", "write"},
                      editing'[d].todo = <<Ix!Edit("index", "drop", b)>>
               PROVE  lists[b] = <<>>
    BY <1>1 DEF Ix!EmptiedFirst, Ix!Running, Ix!Index
  <2>1. d # c
    BY <1>3, <1>5, <1>6, StartedAtAList
  <2>2. editing'[d] = editing[d] /\ b \in Owners \ cut
    BY <1>5, <1>8, <2>1
  <2> QED
    BY <2>2 DEF Ix!IndexesInv, Ix!EmptiedFirst, Ix!Running, Ix!Index
<1>13. Ix!Covered'
  <2>1. \A b : Ix!Indexing(b) => Ix!Indexing(b)'
    <3> SUFFICES ASSUME NEW b, NEW d \in Calls, Ix!Running(d), editing[d].todo = <<Ix!Edit("index", Ix!Adds, b)>>
                 PROVE  Ix!Indexing(b)'
      BY DEF Ix!Indexing, Ix!Index
    <3>1. editing'[d] = editing[d] /\ Ix!Adds' = Ix!Adds
      BY <1>1, <1>5, <1>6 DEF Ix!Adds
    <3>2. editing'[d].at \in {"read", "write"} /\ editing'[d].todo = <<Ix!Edit("index", Ix!Adds', b)>>
      BY <3>1 DEF Ix!Running
    <3> QED
      BY <3>2 DEF Ix!Indexing, Ix!Running, Ix!Index
  <2> QED
    BY <1>1, <1>8, <2>1 DEF Ix!IndexesInv, Ix!Covered
<1> QED
  BY <1>9, <1>10, <1>11, <1>12, <1>13 DEF Ix!IndexesInv

LEMMA ReadListKeeps ==
  ASSUME Ix!IndexesAssumption, Ix!IndexesInv, NEW c \in Calls, Ix!ReadList(c)
  PROVE  Ix!IndexesInv'
<1> DEFINE edit == Head(editing[c].todo)
           list == lists[edit.key]
<1>1. /\ editing[c].at = "read" /\ edit.how \notin {"set", "clear"}
      /\ editing' = [editing EXCEPT ![c] = IF Ix!Edited(list, edit) # list
                      THEN [@ EXCEPT !.at = "write", !.read = list] ELSE Ix!Step(c, Ix!GoesOn(list, edit))]
      /\ family' = family /\ lists' = lists /\ cut' = cut
  BY DEF Ix!ReadList
<1>2. Ix!Running(c) /\ Ix!TypeOK /\ Ix!CallsHold /\ Ix!Covered
  BY <1>1 DEF Ix!Running, Ix!IndexesInv
<1>3. PICK a \in Owners : Follows(editing[c].todo, a)
  BY <1>2, RequestFollows
<1>4. Sound(edit) /\ edit.key \in {a, "index"} /\ edit.key \in Ix!Keys
  BY <1>3 DEF Follows, Ix!Keys, Ix!Index
<1>5. Ix!ListOK(edit.key, list)
  BY <1>2, <1>4 DEF Ix!TypeOK
<1> HIDE DEF edit
<1>6. PICK new : /\ editing' = [editing EXCEPT ![c] = new] /\ Moves(c, new)
                 /\ Ix!Edited(list, edit) # list => new.at = "write"
                 /\ Ix!Edited(list, edit) = list => new.at # "write"
  <2>1. CASE Ix!Edited(list, edit) # list
    <3> DEFINE new == [at |-> "write", todo |-> editing[c].todo, read |-> list]
    <3>1. [editing[c] EXCEPT !.at = "write", !.read = list] = new
      <4>1. editing[c] = [at |-> editing[c].at, todo |-> editing[c].todo, read |-> editing[c].read]
        BY <1>2 DEF Ix!CallsHold
      <4>2. PICK r : r = [editing[c] EXCEPT !.at = "write"]
        OBVIOUS
      <4>3. r = [at |-> "write", todo |-> editing[c].todo, read |-> editing[c].read]
        BY <4>1, <4>2
      <4>4. [r EXCEPT !.read = list] = new
        BY <4>3
      <4> QED
        BY <4>2, <4>4, Zenon
    <3>2. editing' = [editing EXCEPT ![c] = new]
      BY <1>1, <2>1, <3>1
    <3>3. /\ new.at = "write" /\ new.todo = editing[c].todo /\ new.read = list
          /\ new = [at |-> new.at, todo |-> new.todo, read |-> new.read]
      OBVIOUS
    <3> HIDE DEF new
    <3>4. Moves(c, new)
      BY <1>1, <1>5, <2>1, <3>3 DEF Moves, edit
    <3> QED
      BY <2>1, <3>2, <3>3, <3>4
  <2>2. CASE Ix!Edited(list, edit) = list
    <3>1. PICK new : new = Ix!Step(c, Ix!GoesOn(list, edit))
      OBVIOUS
    <3>2. Moves(c, new) /\ new.at # "write"
      <4>1. new.at \in {"read", "done"}
        BY <3>1 DEF Ix!Step, Ix!Idle
      <4> QED
        BY <3>1, <4>1, SteppedMoves
    <3>3. editing' = [editing EXCEPT ![c] = new]
      BY <1>1, <2>2, <3>1
    <3> QED
      BY <2>2, <3>2, <3>3
  <2> QED
    BY <2>1, <2>2
<1>7. Ix!CallsHold' /\ Ix!RemovedAlone' /\ DOMAIN editing' = Calls
  BY <1>1, <1>2, <1>6, MovesKeep
<1>8. Ix!EmptiedFirst'
  <2>1. edit.how # "clear"
    BY <1>1
  <2> QED
    BY <1>1, <1>2, <1>3, <1>6, <2>1, EmptiedStays DEF edit
<1>9. Ix!TypeOK'
  <2>1. \A k, l : Ix!ListOK(k, l)' <=> Ix!ListOK(k, l)
    BY <1>1 DEF Ix!ListOK
  <2> QED
    BY <1>1, <1>2, <1>7, <2>1 DEF Ix!TypeOK, Ix!Keys, Ix!Families
<1>10. Ix!Covered'
  <2> SUFFICES ASSUME NEW b \in Owners, lists[b] # <<>>, cut \cap {b, "index"} = {}
               PROVE  b \in Ix!ToSet(lists["index"]) \/ Ix!Indexing(b)'
    BY <1>1 DEF Ix!Covered, Ix!Index
  <2>1. b \in Ix!ToSet(lists["index"]) \/ Ix!Indexing(b)
    BY <1>2 DEF Ix!Covered, Ix!Index
  <2>2. Ix!Indexing(b) => Ix!Indexing(b)' \/ (new.at # "write" /\ editing[c].todo = <<Ix!Edit("index", Ix!Adds, b)>>)
    BY <1>1, <1>2, <1>6, IndexingStays
  <2>3. ASSUME new.at # "write", editing[c].todo = <<Ix!Edit("index", Ix!Adds, b)>> PROVE b \in Ix!ToSet(lists["index"])
    <3>1. edit.key = "index" /\ edit.item = b /\ edit.how = Ix!Adds
      BY <2>3, OneStep DEF Ix!Edit, edit
    <3>2. list \in Seq(Owners) /\ Ix!Edited(list, edit) = list /\ edit.how \in {"add", "append"}
      BY <1>5, <1>6, <2>3, <3>1 DEF Ix!ListOK, Ix!Index, Ix!Adds
    <3>3. edit.item \in Ix!ToSet(Ix!Edited(list, edit))
      BY <3>1, <3>2, AddsItem
    <3> QED
      BY <3>1, <3>2, <3>3
  <2> QED
    BY <2>1, <2>2, <2>3
<1> QED
  BY <1>7, <1>8, <1>9, <1>10 DEF Ix!IndexesInv

LEMMA Closed == [Ix!Idle EXCEPT !.at = "done"] = [at |-> "done", todo |-> <<>>, read |-> <<>>]
BY DEF Ix!Idle

LEMMA FailKeeps ==
  ASSUME Ix!IndexesAssumption, Ix!IndexesInv, NEW c \in Calls, Ix!Fail(c)
  PROVE  Ix!IndexesInv'
<1> DEFINE new == [at |-> "done", todo |-> <<>>, read |-> <<>>]
<1>1. /\ Ix!Running(c) /\ editing' = [editing EXCEPT ![c] = new] /\ family' = family /\ lists' = lists
      /\ cut' = cut \cup {editing[c].todo[i].key : i \in DOMAIN editing[c].todo}
  BY Closed DEF Ix!Fail
<1>2. Moves(c, new) /\ new.at = "done"
  BY DEF Moves
<1> HIDE DEF new
<1>3. Ix!TypeOK /\ Ix!Covered
  BY DEF Ix!IndexesInv
<1>4. PICK a \in Owners : Follows(editing[c].todo, a)
  BY <1>1, RequestFollows
<1>5. cut \subseteq cut' /\ cut' \subseteq Ix!Keys
  BY <1>1, <1>3, <1>4 DEF Follows, Ix!TypeOK, Ix!Keys, Ix!Index
<1>6. Ix!CallsHold' /\ Ix!RemovedAlone' /\ DOMAIN editing' = Calls
  BY <1>1, <1>2, <1>5, MovesKeep
<1>7. Ix!EmptiedFirst'
  BY <1>1, <1>2, <1>4, <1>5, EmptiedStays
<1>8. Ix!TypeOK'
  <2>1. \A k, l : Ix!ListOK(k, l)' <=> Ix!ListOK(k, l)
    BY <1>1 DEF Ix!ListOK
  <2> QED
    BY <1>1, <1>3, <1>5, <1>6, <2>1 DEF Ix!TypeOK, Ix!Keys, Ix!Families
<1>9. Ix!Covered'
  <2> SUFFICES ASSUME NEW b \in Owners, lists[b] # <<>>, cut' \cap {b, "index"} = {}
               PROVE  b \in Ix!ToSet(lists["index"]) \/ Ix!Indexing(b)'
    BY <1>1 DEF Ix!Covered, Ix!Index
  <2>1. b \in Ix!ToSet(lists["index"]) \/ Ix!Indexing(b)
    BY <1>3, <1>5 DEF Ix!Covered, Ix!Index
  <2>2. editing[c].todo # <<Ix!Edit("index", Ix!Adds, b)>>
    <3> SUFFICES ASSUME editing[c].todo = <<Ix!Edit("index", Ix!Adds, b)>> PROVE "index" \in cut'
      OBVIOUS
    <3>1. 1 \in DOMAIN editing[c].todo /\ editing[c].todo[1].key = "index"
      BY OneStep DEF Ix!Edit
    <3> QED
      BY <1>1, <3>1
  <2>3. Ix!Indexing(b) => Ix!Indexing(b)'
    BY <1>1, <1>2, <1>5, <2>2, IndexingStays
  <2> QED
    BY <2>1, <2>3
<1> QED
  BY <1>6, <1>7, <1>8, <1>9 DEF Ix!IndexesInv

\* What is done to an index, and to the other lists.
LEMMA Named ==
  ASSUME NEW edit, Sound(edit)
  PROVE  edit.key = "index" /\ edit.key \notin Owners => edit.item \in Owners /\ edit.how \in {"add", "append", "drop"}
<1> SUFFICES ASSUME edit.key \notin Owners PROVE edit.item \in Owners /\ edit.how \in {"add", "append", "drop"}
  OBVIOUS
<1>1. edit.item \in Owners /\ (edit.how = Ix!Adds \/ edit.how = "drop")
  BY DEF Sound
<1>2. Ix!Adds \in {"add", "append"}
  BY DEF Ix!Adds
<1> QED
  BY <1>1, <1>2

\* A list is written, as read or unread.
Writes(c, a, edit, list, new) ==
  /\ edit = Head(editing[c].todo) /\ Follows(editing[c].todo, a) /\ Ix!ListOK(edit.key, list)
  /\ lists' = [lists EXCEPT ![edit.key] = Ix!Edited(list, edit)]
  /\ editing' = [editing EXCEPT ![c] = new] /\ Moves(c, new) /\ new.at # "write"
  /\ family' = family /\ cut \subseteq cut' /\ cut' \subseteq cut \cup {edit.key}

LEMMA WritingKeeps ==
  ASSUME Ix!IndexesAssumption, Ix!IndexesInv, NEW c \in Calls, Ix!Running(c), NEW a \in Owners, NEW edit,
         NEW list, NEW new, Writes(c, a, edit, list, new)
  PROVE  /\ Ix!TypeOK' /\ Ix!CallsHold' /\ Ix!RemovedAlone' /\ Ix!EmptiedFirst'
         /\ edit.key \in {a, "index"} /\ a # "index" /\ Sound(edit)
         /\ \A k \in Owners \cup {"index"} : lists'[k] = IF k = edit.key THEN Ix!Edited(list, edit) ELSE lists[k]
<1> USE DEF Writes
<1>1. Sound(edit) /\ edit.key \in {a, "index"} /\ edit.key \in Ix!Keys /\ a # "index"
  BY DEF Follows, Ix!Keys, Ix!Index, Ix!IndexesAssumption
<1>2. Ix!TypeOK
  BY DEF Ix!IndexesInv
<1>3. DOMAIN lists = Ix!Keys /\ \A k \in Ix!Keys : lists'[k] = IF k = edit.key THEN Ix!Edited(list, edit) ELSE lists[k]
  BY <1>2 DEF Ix!TypeOK
<1>4. Ix!CallsHold' /\ Ix!RemovedAlone' /\ DOMAIN editing' = Calls
  BY MovesKeep
<1>5. Ix!TypeOK'
  <2>1. Ix!ListOK(edit.key, Ix!Edited(list, edit))
    BY <1>1, <1>2, EditedKeeps DEF Ix!TypeOK
  <2>2. \A k, l : Ix!ListOK(k, l)' <=> Ix!ListOK(k, l)
    BY DEF Ix!ListOK
  <2>3. \A k \in Ix!Keys : Ix!ListOK(k, lists'[k])
    BY <1>2, <1>3, <2>1 DEF Ix!TypeOK
  <2>4. DOMAIN lists' = Ix!Keys /\ Ix!Keys' = Ix!Keys
    BY <1>3 DEF Ix!Keys
  <2> QED
    BY <1>1, <1>2, <1>4, <2>2, <2>3, <2>4 DEF Ix!TypeOK, Ix!Families
<1>6. Ix!EmptiedFirst'
  <2>1. \A b \in Owners : b # a => lists'[b] = lists[b]
    BY <1>1, <1>3 DEF Ix!Keys, Ix!Index, Ix!IndexesAssumption
  <2>2. edit.how = "clear" => lists'[a] = <<>>
    <3>1. edit.how = "clear" => edit.key = a
      BY <1>1, Named DEF Ix!IndexesAssumption
    <3>2. edit.how = "clear" => Ix!Edited(list, edit) = <<>>
      BY DEF Ix!Edited
    <3> QED
      BY <1>1, <1>3, <3>1, <3>2
  <2> QED
    BY <2>1, <2>2, EmptiedStays
<1> QED
  BY <1>1, <1>3, <1>4, <1>5, <1>6 DEF Ix!Keys, Ix!Index

LEMMA SetListKeeps ==
  ASSUME Ix!IndexesAssumption, Ix!IndexesInv, NEW c \in Calls, Ix!SetList(c)
  PROVE  Ix!IndexesInv'
<1>a. PICK edit : edit = Head(editing[c].todo)
  OBVIOUS
<1>b. PICK was : was = lists[edit.key]
  OBVIOUS
<1>c. PICK new : new = Ix!Step(c, TRUE)
  OBVIOUS
<1>1. /\ editing[c].at = "read" /\ edit.how \in {"set", "clear"} /\ editing' = [editing EXCEPT ![c] = new]
      /\ lists' = [lists EXCEPT ![edit.key] = Ix!Edited(was, edit)]
      /\ family' = family /\ cut' = cut
  BY <1>a, <1>b, <1>c DEF Ix!SetList
<1>2. Ix!Running(c) /\ Ix!TypeOK /\ Ix!Covered
  BY <1>1 DEF Ix!Running, Ix!IndexesInv
<1>3. PICK a \in Owners : Follows(editing[c].todo, a)
  BY <1>2, RequestFollows
<1>4. Moves(c, new) /\ new.at # "write"
  <2>1. new.at \in {"read", "done"}
    BY <1>c DEF Ix!Step, Ix!Idle
  <2> QED
    BY <1>c, <2>1, SteppedMoves
<1>5. edit.key = a
  <2>1. Sound(edit) /\ edit.key \in {a, "index"}
    BY <1>a, <1>3 DEF Follows
  <2> QED
    BY <1>1, <2>1, Named DEF Ix!IndexesAssumption
<1>6. Ix!ListOK(edit.key, was)
  BY <1>b, <1>2, <1>5 DEF Ix!TypeOK, Ix!Keys
<1>7. /\ Ix!TypeOK' /\ Ix!CallsHold' /\ Ix!RemovedAlone' /\ Ix!EmptiedFirst' /\ a # "index" /\ edit.key \in {a, "index"} /\ Sound(edit)
      /\ \A k \in Owners \cup {"index"} : lists'[k] = IF k = edit.key THEN Ix!Edited(was, edit) ELSE lists[k]
  <2>0. cut \subseteq cut' /\ cut' \subseteq cut \cup {edit.key}
    BY <1>1
  <2>1. Writes(c, a, edit, was, new)
    BY <1>a, <1>1, <1>3, <1>4, <1>6, <2>0 DEF Writes
  <2> QED
    BY <1>2, <2>1, WritingKeeps
<1>8. Ix!Covered'
  <2> SUFFICES ASSUME NEW b \in Owners, lists'[b] # <<>>, cut \cap {b, "index"} = {}
               PROVE  b \in Ix!ToSet(lists'["index"]) \/ Ix!Indexing(b)'
    BY <1>1 DEF Ix!Covered, Ix!Index
  <2>1. CASE b = a
    <3>1. edit.how # "clear"
      BY <1>5, <1>7, <2>1 DEF Ix!Edited
    <3>2. Tail(editing[c].todo) = <<Ix!Edit("index", Ix!Adds, a)>>
      BY <1>a, <1>1, <1>3, <1>5, <1>7, <3>1 DEF Follows
    <3>3. Tail(editing[c].todo) # <<>>
      BY <3>2, OneStep
    <3>4. new.at = "read"
      BY <1>c, <3>3, SteppedMoves
    <3> QED
      BY <1>1, <1>2, <1>4, <2>1, <3>2, <3>4, IndexingStays
  <2>2. CASE b # a
    <3>1. b \in Ix!ToSet(lists["index"]) \/ Ix!Indexing(b)
      BY <1>2, <1>5, <1>7, <2>2 DEF Ix!Covered, Ix!Index
    <3>2. editing[c].todo # <<Ix!Edit("index", Ix!Adds, b)>>
      BY <1>a, <1>5, <1>7, OneStep DEF Ix!Edit
    <3>3. Ix!Indexing(b) => Ix!Indexing(b)'
      BY <1>1, <1>2, <1>4, <3>2, IndexingStays
    <3> QED
      BY <1>5, <1>7, <3>1, <3>3
  <2> QED
    BY <2>1, <2>2
<1> QED
  BY <1>7, <1>8 DEF Ix!IndexesInv

LEMMA WriteListKeeps ==
  ASSUME Ix!IndexesAssumption, Ix!IndexesInv, NEW c \in Calls, Ix!WriteList(c)
  PROVE  Ix!IndexesInv'
<1> PICK edit : edit = Head(editing[c].todo)
  OBVIOUS
<1> PICK read : read = editing[c].read
  OBVIOUS
<1> PICK new : new = Ix!Step(c, Ix!GoesOn(read, edit))
  OBVIOUS
<1>1. /\ editing[c].at = "write" /\ editing' = [editing EXCEPT ![c] = new]
      /\ lists' = [lists EXCEPT ![edit.key] = Ix!Edited(read, edit)]
      /\ family' = family /\ cut' = IF Ix!Lost(c) THEN cut \cup {edit.key} ELSE cut
  BY DEF Ix!WriteList
<1>2. Ix!Running(c) /\ Ix!TypeOK /\ Ix!Covered /\ Ix!EmptiedFirst
  BY <1>1 DEF Ix!Running, Ix!IndexesInv
<1>3. PICK a \in Owners : Follows(editing[c].todo, a)
  BY <1>2, RequestFollows
<1>4. Moves(c, new) /\ new.at # "write"
  <2>1. new.at \in {"read", "done"}
    BY DEF Ix!Step, Ix!Idle
  <2> QED
    BY <2>1, SteppedMoves
<1>5. Ix!ListOK(edit.key, read) /\ edit.how \notin {"set", "clear"} /\ Ix!Edited(read, edit) # read
  BY <1>1 DEF Ix!IndexesInv, Ix!CallsHold
<1>6. cut \subseteq cut' /\ cut' \subseteq cut \cup {edit.key} /\ (edit.key \notin cut' => ~Ix!Lost(c))
  BY <1>1
<1>7. /\ Ix!TypeOK' /\ Ix!CallsHold' /\ Ix!RemovedAlone' /\ Ix!EmptiedFirst' /\ a # "index" /\ edit.key \in {a, "index"} /\ Sound(edit)
      /\ \A k \in Owners \cup {"index"} : lists'[k] = IF k = edit.key THEN Ix!Edited(read, edit) ELSE lists[k]
  <2>1. Writes(c, a, edit, read, new)
    BY <1>1, <1>3, <1>4, <1>5, <1>6 DEF Writes
  <2> QED
    BY <1>2, <2>1, WritingKeeps
<1>8. edit.key \notin cut' => lists[edit.key] = read /\ Ix!ToSet(read) \ {edit.item} \subseteq Ix!ToSet(Ix!Edited(read, edit))
  BY <1>6 DEF Ix!Lost
<1>9. Ix!Covered'
  <2> SUFFICES ASSUME NEW b \in Owners, lists'[b] # <<>>, cut' \cap {b, "index"} = {}
               PROVE  b \in Ix!ToSet(lists'["index"]) \/ Ix!Indexing(b)'
    BY DEF Ix!Covered, Ix!Index
  <2>0. b \notin cut /\ "index" \notin cut /\ b \notin cut' /\ "index" \notin cut' /\ b # "index"
    BY <1>6 DEF Ix!IndexesAssumption
  <2>1. Ix!Indexing(b) => Ix!Indexing(b)' \/ editing[c].todo = <<Ix!Edit("index", Ix!Adds, b)>>
    BY <1>1, <1>2, <1>4, <1>6, IndexingStays
  <2>2. editing[c].todo = <<Ix!Edit("index", Ix!Adds, b)>> => edit.key = "index" /\ edit.item = b /\ edit.how = Ix!Adds
    BY OneStep DEF Ix!Edit
  <2>3. CASE edit.key = "index"
    <3>1. lists["index"] = read /\ Ix!ToSet(read) \ {edit.item} \subseteq Ix!ToSet(lists'["index"]) /\ lists'[b] = lists[b]
      BY <1>7, <1>8, <2>0, <2>3
    <3>2. b \in Ix!ToSet(lists["index"]) \/ Ix!Indexing(b)
      BY <1>2, <2>0, <3>1 DEF Ix!Covered, Ix!Index
    <3>3. CASE edit.how = "drop"
      <4>1. edit.item = a /\ editing[c].todo = <<Ix!Edit("index", "drop", a)>>
        BY <1>3, <1>7, <2>3, <3>3 DEF Follows
      <4>2. b # a
        BY <1>2, <2>0, <3>1, <4>1 DEF Ix!EmptiedFirst, Ix!Index
      <4>3. edit.how # Ix!Adds
        BY <3>3 DEF Ix!Adds
      <4> QED
        BY <2>1, <2>2, <3>1, <3>2, <4>1, <4>2, <4>3
    <3>4. CASE edit.how # "drop"
      <4>1. edit.how \in {"add", "append"} /\ edit.item \in Owners
        BY <1>7, <2>3, <3>4, Named DEF Ix!IndexesAssumption
      <4>2. read \in Seq(Owners)
        BY <1>5, <2>3 DEF Ix!ListOK, Ix!Index
      <4>3. edit.item \in Ix!ToSet(lists'["index"])
        BY <1>7, <2>3, <4>1, <4>2, AddsItem
      <4> QED
        BY <2>1, <2>2, <3>1, <3>2, <4>3
    <3> QED
      BY <3>3, <3>4
  <2>4. CASE edit.key = a /\ b # a
    <3>1. b \in Ix!ToSet(lists["index"]) \/ Ix!Indexing(b)
      BY <1>2, <1>7, <2>0, <2>4 DEF Ix!Covered, Ix!Index
    <3> QED
      BY <1>7, <2>1, <2>2, <2>4, <3>1
  <2>5. CASE edit.key = a /\ b = a
    <3>1. lists[a] = read /\ lists'[a] = Ix!Edited(read, edit) /\ lists'["index"] = lists["index"]
      BY <1>7, <1>8, <2>0, <2>5
    <3>2. CASE Puts(edit.how) /\ Ix!GoesOn(read, edit)
      <4>1. edit.how # "drop"
        BY <3>2 DEF Puts
      <4>2. Tail(editing[c].todo) = <<Ix!Edit("index", Ix!Adds, a)>> /\ Tail(editing[c].todo) # <<>>
        BY <1>3, <1>5, <1>7, <2>5, <4>1, OneStep DEF Follows
      <4>3. new.at = "read"
        BY <3>2, <4>2, SteppedMoves
      <4> QED
        BY <1>1, <1>2, <1>4, <1>6, <2>5, <4>2, <4>3, IndexingStays
    <3>3. CASE read # <<>>
      <4>1. b \in Ix!ToSet(lists["index"]) \/ Ix!Indexing(b)
        BY <1>2, <2>0, <2>5, <3>1, <3>3 DEF Ix!Covered, Ix!Index
      <4> QED
        BY <1>7, <2>1, <2>2, <2>5, <3>1, <4>1
    <3>4. Puts(edit.how) /\ ~Ix!GoesOn(read, edit) => read # <<>>
      BY <1>5 DEF Ix!GoesOn
    <3>5. ~Puts(edit.how) => read # <<>>
      <4> SUFFICES ASSUME ~Puts(edit.how), read = <<>> PROVE FALSE
        OBVIOUS
      <4>1. edit.how = "drop"
        BY <1>3, <1>5, <1>7, <2>5 DEF Follows
      <4>2. Ix!Without(<<>>, edit.item) = <<>>
        BY DEF Ix!Without
      <4> QED
        BY <1>5, <4>1, <4>2 DEF Ix!Edited
    <3> QED
      BY <3>2, <3>3, <3>4, <3>5
  <2> QED
    BY <1>7, <2>3, <2>4, <2>5
<1> QED
  BY <1>7, <1>9 DEF Ix!IndexesInv

LEMMA IndexesStep == Ix!IndexesAssumption /\ Ix!IndexesInv /\ [Ix!Next]_(Ix!vars) => Ix!IndexesInv'
<1> SUFFICES ASSUME Ix!IndexesAssumption, Ix!IndexesInv, [Ix!Next]_(Ix!vars) PROVE Ix!IndexesInv'
  OBVIOUS
<1>1. CASE UNCHANGED Ix!vars
  <2>1. family' = family /\ lists' = lists /\ editing' = editing /\ cut' = cut
    BY <1>1 DEF Ix!vars
  <2>2. Ix!TypeOK'
    BY <2>1 DEF Ix!IndexesInv, Ix!TypeOK, Ix!ListOK, Ix!Keys, Ix!Families
  <2>3. Ix!CallsHold'
    BY <2>1 DEF Ix!IndexesInv, Ix!CallsHold, Ix!Running, Ix!Left, Ix!Requests, Ix!Adds, Ix!ListOK
  <2>4. Ix!RemovedAlone' /\ Ix!EmptiedFirst'
    BY <2>1 DEF Ix!IndexesInv, Ix!RemovedAlone, Ix!EmptiedFirst, Ix!Running
  <2>5. Ix!Covered'
    BY <2>1 DEF Ix!IndexesInv, Ix!Covered, Ix!Running, Ix!Indexing, Ix!Adds
  <2> QED
    BY <2>2, <2>3, <2>4, <2>5 DEF Ix!IndexesInv
<1>2. ASSUME NEW c \in Calls, NEW a \in Owners, NEW x \in Items, Ix!Begin(c, a, x) PROVE Ix!IndexesInv'
  BY <1>2, BeginKeeps
<1>3. ASSUME NEW c \in Calls, Ix!ReadList(c) \/ Ix!WriteList(c) \/ Ix!SetList(c) \/ Ix!Fail(c) PROVE Ix!IndexesInv'
  BY <1>3, ReadListKeeps, WriteListKeeps, SetListKeeps, FailKeeps
<1> QED
  BY <1>1, <1>2, <1>3 DEF Ix!Next

LEMMA ListsAreIndexed == Ix!IndexesInv => Ix!IndexedIfStored
BY DEF Ix!IndexesInv, Ix!Covered, Ix!Indexing, Ix!IndexedIfStored

\* An address with a stored list is in the index once its requests are done, unless a
\* removal overlapped another request, a write fell between a read and a write, the index
\* was full or a request failed half-way (payerIndex.js, privatePools.js,
\* paymentReversals.js, anchorRecords.js, push.js, jobs.js).
THEOREM StoredIsIndexed == ASSUME Ix!IndexesAssumption PROVE Ix!Spec => []Ix!IndexedIfStored
<1>1. Ix!Init => Ix!IndexesInv
  BY IndexesInit
<1>2. Ix!IndexesInv /\ [Ix!Next]_(Ix!vars) => Ix!IndexesInv'
  BY IndexesStep
<1>3. Ix!IndexesInv => Ix!IndexedIfStored
  BY ListsAreIndexed
<1> QED
  BY <1>1, <1>2, <1>3, PTL DEF Ix!Spec
===============================================================================
