-------------------------------- MODULE Teams --------------------------------
(***************************************************************************)
(* Teams of Stellar addresses (teams.js).  A team's record lists its       *)
(* members and their roles; each address has a list of the teams it is in. *)
(* Every operation reads the record, checks the caller's role, and changes *)
(* and writes back the record it read only after it has awaited: a copy of *)
(* its own with Redis (redisStore.js), and with the memory store the very  *)
(* object that is stored and that everybody else has read (store.js).      *)
(* Only the membership lists are guarded, by a promise queue per address.  *)
(* Lists are sets here, their order is only shown.  A call is one request, *)
(* gone once its handler has answered.                                     *)
(***************************************************************************)
EXTENDS Integers, FiniteSets

CONSTANTS Addresses, TeamIds, Calls,
          MaxMembers,   \* MAX_TEAM_MEMBERS
          MaxTeams,     \* MAX_TEAMS_PER_ADDRESS
          None          \* no record


VARIABLES shared,       \* does the store hand out the object it stores?
          team,         \* team:<id>, or None
          memberships,  \* team-memberships:<address>
          locked,       \* whose turn it is in membershipLocks, per address
          known,        \* known-team-ids
          minted,       \* the team ids handed out
          call,         \* the calls under way
          crossed       \* the teams whose roles were changed by a call that
                        \* was the owner's when it was checked, and no longer

vars == <<shared, team, memberships, locked, known, minted, call, crossed>>

Roles == {"owner", "admin", "member"}
Records == [Addresses -> Roles \cup {None}]

TeamsAssumption == /\ MaxMembers \in Nat \ {0} /\ MaxTeams \in Nat \ {0}
                   /\ IsFiniteSet(Addresses)
                   /\ None \notin Roles \cup Calls \cup TeamIds \cup Addresses
Rank == [r \in Roles |-> CASE r = "owner" -> 3 [] r = "admin" -> 2 [] r = "member" -> 1]
MembersOf(r) == {a \in Addresses : r[a] # None}
HasRole(r, a, min) == r[a] # None /\ Rank[r[a]] >= Rank[min]

\* What a call keeps across its awaits: what it does, for whom, with which role,
\* the record it read, the addresses it is about or still has to list or unlist,
\* and a list it read.
Idle == [at |-> "idle", op |-> None, id |-> None, actor |-> None, role |-> None,
         copy |-> None, todo |-> {}, turn |-> None, read |-> {}]
Gone == [Idle EXCEPT !.at = "gone"]

Init == /\ shared \in BOOLEAN /\ crossed = {}
        /\ team = [t \in TeamIds |-> None]
        /\ memberships = [a \in Addresses |-> {}]
        /\ locked = [a \in Addresses |-> None]
        /\ known = {} /\ minted = {}
        /\ call = [c \in Calls |-> Idle]

Goto(c, step) == call' = [call EXCEPT ![c].at = step]
Answer(c) == call' = [call EXCEPT ![c] = Gone]

\* What a call makes of the record it read, which with the memory store is the
\* stored one and everybody else's.
Edit(c, copy, rest) ==
  LET t == call[c].id IN
  /\ team' = IF shared /\ team[t] # None THEN [team EXCEPT ![t] = copy] ELSE team
  /\ call' = [d \in Calls |-> IF d = c THEN rest
                              ELSE IF shared /\ call[d].id = t THEN [call[d] EXCEPT !.copy = copy]
                              ELSE call[d]]

----------------------------------------------------------------------------
Started(c, t, actor, op, role, copy, todo, step) ==
  call' = [call EXCEPT ![c] = [at |-> step, op |-> op, id |-> t, actor |-> actor, role |-> role,
                               copy |-> copy, todo |-> todo, turn |-> None, read |-> {}]]

\* createTeam(): the record is made, and the owner's membership comes first.
CreateTeam(c, a, t) ==
  /\ call[c] = Idle /\ t \notin minted
  /\ minted' = minted \cup {t}
  /\ Started(c, t, a, "create", None, [x \in Addresses |-> IF x = a THEN "owner" ELSE None], {a}, "lock")
  /\ UNCHANGED <<shared, team, memberships, locked, known, crossed>>

\* requireTeamRole(), after which the caller awaits.  A request that is refused
\* here changes nothing and is left out.
Begin(c, t, actor, min, op, role, todo, step) ==
  /\ team[t] # None /\ HasRole(team[t], actor, min)
  /\ Started(c, t, actor, op, role, team[t], todo, step)
  /\ UNCHANGED <<shared, team, memberships, locked, known, minted, crossed>>

RenameTeam(c, t, actor) == Begin(c, t, actor, "admin", "save", None, {}, "save")

AddMembers(c, t, actor, addresses, role) ==
  Begin(c, t, actor, IF role = "admin" THEN "owner" ELSE "admin", "add", role, addresses, "apply")

SetMemberRole(c, t, actor, target, role) ==
  /\ target # actor
  /\ Begin(c, t, actor, "owner", "role", role, {target}, "apply")

RemoveMember(c, t, actor, target) == Begin(c, t, actor, "member", "remove", None, {target}, "apply")

DeleteTeam(c, t, actor) == Begin(c, t, actor, "owner", "delete", None, {}, "save")

----------------------------------------------------------------------------
MutantChangeRole(c) ==  \* the owner is not demoted
  LET k == call[c] IN
  /\ k.at = "apply" /\ k.op = "role"
  /\ \E target \in k.todo :
       IF k.copy[target] = None THEN Answer(c) /\ UNCHANGED <<team, crossed>>
       ELSE /\ Edit(c, [k.copy EXCEPT ![target] = k.role], [k EXCEPT !.at = "save", !.copy[target] = k.role])
            /\ UNCHANGED crossed
  /\ UNCHANGED <<shared, memberships, locked, known, minted>>

\* setMemberRole() goes on: who is to be the owner, and who is it no longer?  The
\* actor's own entry may be gone by now, at which a transfer throws.
NewRoles(k, target) ==
  IF k.role = "owner" THEN [k.copy EXCEPT ![k.actor] = "admin", ![target] = "owner"]
                      ELSE [k.copy EXCEPT ![target] = k.role]

ChangeRole(c) ==
  LET k == call[c] IN
  /\ k.at = "apply" /\ k.op = "role"
  /\ \E target \in k.todo :
       IF k.copy[target] = None \/ (k.role = "owner" /\ k.copy[k.actor] = None)
       THEN Answer(c) /\ UNCHANGED <<team, crossed>>
       ELSE /\ Edit(c, NewRoles(k, target), [k EXCEPT !.at = "save", !.copy = NewRoles(k, target)])
            /\ crossed' = IF k.copy[k.actor] # "owner" THEN crossed \cup {k.id} ELSE crossed
  /\ UNCHANGED <<shared, memberships, locked, known, minted>>

\* removeMember() goes on, if the roles it finds now allow it.
MayRemove(k, target) ==
  /\ k.copy[target] \notin {None, "owner"}
  /\ target # k.actor => HasRole(k.copy, k.actor, IF k.copy[target] = "admin" THEN "owner" ELSE "admin")

TakeOut(c) ==
  LET k == call[c] IN
  /\ k.at = "apply" /\ k.op = "remove"
  /\ \E target \in k.todo :
       IF ~MayRemove(k, target) THEN Answer(c) /\ UNCHANGED team
       ELSE LET copy == [k.copy EXCEPT ![target] = None]
            IN  Edit(c, copy, [k EXCEPT !.at = "save", !.copy = copy])
  /\ UNCHANGED <<shared, memberships, locked, known, minted, crossed>>

\* addMembers() goes on with the addresses that are not members now, if there is
\* room; deleteTeam(), which has deleted the record, with its members of now.
ListMembers(c) ==
  LET k == call[c]
      additions == k.todo \ MembersOf(k.copy)
      full == Cardinality(MembersOf(k.copy) \cup additions) > MaxMembers
  IN /\ k.at = "apply"
     /\ \/ /\ k.op = "add"
           /\ IF additions = {} \/ full THEN Answer(c)
              ELSE call' = [call EXCEPT ![c].todo = additions, ![c].at = "caps"]
        \/ /\ k.op = "delete"
           /\ call' = [call EXCEPT ![c].todo = MembersOf(k.copy),
                        ![c].at = IF MembersOf(k.copy) = {} THEN "index" ELSE "lock"]
     /\ UNCHANGED <<shared, team, memberships, locked, known, minted, crossed>>

----------------------------------------------------------------------------
\* addMembers() reads every list once, in one step here, before it changes any.
CheckCaps(c) ==
  /\ call[c].at = "caps"
  /\ IF \E a \in call[c].todo : Cardinality(memberships[a]) >= MaxTeams
     THEN Answer(c) ELSE Goto(c, "lock")
  /\ UNCHANGED <<shared, team, memberships, locked, known, minted, crossed>>

MutantEnterLock(c, a) ==  \* no queue
  /\ call[c].at = "lock" /\ a \in call[c].todo
  /\ call' = [call EXCEPT ![c].at = "write", ![c].turn = a, ![c].read = memberships[a]]
  /\ UNCHANGED <<shared, team, memberships, locked, known, minted, crossed>>

\* The next membership's turn has come: withMembershipLock() runs its function.
EnterLock(c, a) ==
  /\ call[c].at = "lock" /\ a \in call[c].todo /\ locked[a] = None
  /\ locked' = [locked EXCEPT ![a] = c]
  /\ call' = [call EXCEPT ![c].at = "write", ![c].turn = a, ![c].read = memberships[a]]
  /\ UNCHANGED <<shared, team, memberships, known, minted, crossed>>

Adds(c) == call[c].op \in {"create", "add"}

\* addMembership() and removeMembership(): write the list read under the lock.
\* An address at its cap makes the call fail, with what it did before kept.  A new
\* member is appended to the record, in which the first entry of an address counts.
WriteMembership(c, a) ==
  LET k == call[c]
      new == IF Adds(c) THEN k.read \cup {k.id} ELSE k.read \ {k.id}
      full == Adds(c) /\ k.id \notin k.read /\ Cardinality(k.read) >= MaxTeams
      more == k.todo \ {a}
      copy == IF k.op = "add" /\ k.copy[a] = None THEN [k.copy EXCEPT ![a] = k.role] ELSE k.copy
      next == IF more # {} THEN "lock" ELSE IF Adds(c) THEN "save"
              ELSE IF k.op = "delete" THEN "index" ELSE "answer"
  IN /\ k.at = "write" /\ k.turn = a
     /\ locked' = [locked EXCEPT ![a] = None]
     /\ memberships' = IF full THEN memberships ELSE [memberships EXCEPT ![a] = new]
     /\ IF full THEN Answer(c) /\ UNCHANGED team
        ELSE Edit(c, copy, [k EXCEPT !.todo = more, !.copy = copy, !.at = next])
     /\ UNCHANGED <<shared, known, minted, crossed>>

\* saveTeam(), or the deletion of the record.
SaveTeam(c) ==
  /\ call[c].at = "save"
  /\ team' = [team EXCEPT ![call[c].id] = IF call[c].op = "delete" THEN None ELSE call[c].copy]
  /\ Goto(c, CASE call[c].op = "remove" -> "lock" [] call[c].op = "delete" -> "apply"
               [] call[c].op = "create" -> "index" [] OTHER -> "answer")
  /\ UNCHANGED <<shared, memberships, locked, known, minted, crossed>>

\* The list of all teams is read, changed and written back.
ReadIndex(c) ==
  /\ call[c].at = "index"
  /\ call' = [call EXCEPT ![c].at = "reindex", ![c].read = known]
  /\ UNCHANGED <<shared, team, memberships, locked, known, minted, crossed>>

WriteIndex(c) ==
  /\ call[c].at = "reindex"
  /\ known' = IF Adds(c) THEN call[c].read \cup {call[c].id} ELSE call[c].read \ {call[c].id}
  /\ Answer(c)
  /\ UNCHANGED <<shared, team, memberships, locked, minted, crossed>>

Respond(c) ==
  /\ call[c].at = "answer" /\ Answer(c)
  /\ UNCHANGED <<shared, team, memberships, locked, known, minted, crossed>>

Step(c) ==
  \/ ChangeRole(c) \/ TakeOut(c) \/ ListMembers(c)
  \/ CheckCaps(c) \/ SaveTeam(c) \/ ReadIndex(c) \/ WriteIndex(c) \/ Respond(c)
  \/ \E a \in Addresses : EnterLock(c, a) \/ WriteMembership(c, a)

Request(c) ==
  /\ call[c] = Idle
  /\ \/ \E t \in TeamIds, a \in Addresses :
          CreateTeam(c, a, t) \/ RenameTeam(c, t, a) \/ DeleteTeam(c, t, a)
     \/ \E t \in TeamIds, actor, a \in Addresses :
          RemoveMember(c, t, actor, a) \/ \E r \in Roles : SetMemberRole(c, t, actor, a, r)
     \/ \E t \in TeamIds, actor \in Addresses, addresses \in SUBSET Addresses \ {{}},
          r \in {"admin", "member"} : AddMembers(c, t, actor, addresses, r)

Next == \E c \in Calls : Request(c) \/ Step(c)
Spec == Init /\ [][Next]_vars

----------------------------------------------------------------------------
Begun == [at : {"apply", "caps", "lock", "write", "save", "index", "reindex", "answer"},
          op : {"create", "save", "add", "role", "remove", "delete"},
          id : minted, actor : Addresses, role : Roles \cup {None}, copy : Records,
          todo : SUBSET Addresses, turn : Addresses \cup {None}, read : SUBSET minted]

TypeOK ==
  /\ shared \in BOOLEAN /\ crossed \subseteq TeamIds
  /\ team \in [TeamIds -> Records \cup {None}]
  /\ memberships \in [Addresses -> SUBSET minted]
  /\ locked \in [Addresses -> Calls \cup {None}]
  /\ known \subseteq minted /\ minted \subseteq TeamIds
  /\ call \in [Calls -> {Idle, Gone} \cup Begun]

\* A membership is lost to its own removal only, never to another write of the
\* same list, however many calls add the address to teams at the same moment.
KeepsMemberships == \A a \in Addresses : \A t \in memberships[a] \ memberships'[a] :
  \E c \in Calls : call[c].id = t /\ call[c].op \in {"remove", "delete"}
MembershipsAreKept == [][KeepsMemberships]_vars

\* Every stored team has exactly one owner, whatever stale copies are written
\* over each other: a transfer, a removal and a rename may all be under way.  Not
\* so with the memory store, if a call of the former owner that was checked before
\* a transfer changes a role after it: there is one object, in which nobody demotes
\* the new owner, or the former one does.
HasOneOwner(r) == Cardinality({a \in Addresses : r[a] = "owner"}) = 1
Excused(t) == shared /\ t \in crossed
OneOwner == \A t \in TeamIds : team[t] # None => HasOneOwner(team[t]) \/ Excused(t)

\* The inductive invariant of both: every copy that may yet be written has one
\* owner, who with copies is still the one it was checked to be, and who changes a
\* list of memberships holds its lock since it read it.
UnderWay(c) == call[c] \notin {Idle, Gone}
CopiesHold == \A c \in Calls : UnderWay(c) =>
  /\ HasOneOwner(call[c].copy) \/ Excused(call[c].id)
  /\ (call[c].at = "apply" /\ call[c].op = "role") =>
       shared \/ call[c].copy[call[c].actor] = "owner"
LocksHold == \A c \in Calls : UnderWay(c) =>
  /\ call[c].op = "add" => call[c].role \in {"admin", "member"}
  /\ call[c].op = "role" => call[c].role \in Roles /\ call[c].actor \notin call[c].todo
  /\ call[c].at = "caps" => call[c].op = "add"
  /\ call[c].at \in {"lock", "write"} => call[c].op \notin {"save", "role"}
  /\ call[c].at = "write" => /\ call[c].turn \in call[c].todo /\ locked[call[c].turn] = c
                             /\ call[c].read = memberships[call[c].turn]
StoredAreMinted == \A t \in TeamIds : team[t] # None => t \in minted

TeamsInv == TypeOK /\ OneOwner /\ CopiesHold /\ LocksHold /\ StoredAreMinted
=============================================================================
