-------------------------------- MODULE Gates --------------------------------
(***************************************************************************)
(* What stands between a request and its handler on every instance of the  *)
(* fleet: the check of the environment at the start (securityPosture.js),  *)
(* the fault injector of the alert drill (faultInjection.js), the          *)
(* read-only gate of a canary (canary.js), the shared admin token          *)
(* (adminAuth.js) and the session token of a route (workerAuth.js).        *)
(*                                                                         *)
(* A request is a path, whether it only reads, and the guard of its route. *)
(* Instances share the store, so a revoked session is revoked for all.     *)
(***************************************************************************)
EXTENDS Integers, FiniteSets

CONSTANTS Instances, Sessions, None,
          MaxBoots, MaxFaults

VARIABLES inst,      \* [env, secret, faults] of an instance that is up, or None
          session,   \* [secret, production] it was signed by and under, or None
          revoked,   \* sessions revoked in the store
          boots

vars == <<inst, session, revoked, boots>>

\* What the checks tell apart in an environment: whether anything in it looks
\* like a real deployment, and the settings that are looked at.
Environments == [production : BOOLEAN, secret : BOOLEAN, faultInjection : BOOLEAN,
                 canary : BOOLEAN, admin : BOOLEAN]

Init == /\ inst = [i \in Instances |-> None]
        /\ session = [s \in Sessions |-> None] /\ revoked = {} /\ boots = 0

----------------------------------------------------------------------------
\* evaluateSecurityPosture(): what is fatal in production; anything else is
\* logged.
Fatal(env) == ~env.secret \/ env.faultInjection

EnforceSecurityPosture(env) == ~env.production \/ ~Fatal(env)

\* Without a setting, random in every process.
SessionSecret(env) == IF env.secret THEN 0 ELSE boots + 1

Boot(i, env) ==
  /\ inst[i] = None /\ boots < MaxBoots /\ EnforceSecurityPosture(env)
  /\ inst' = [inst EXCEPT ![i] = [env |-> env, faults |-> {},
                                  secret |-> SessionSecret(env)]]
  /\ boots' = boots + 1 /\ UNCHANGED <<session, revoked>>

Stop(i) ==
  /\ inst[i] # None /\ inst' = [inst EXCEPT ![i] = None] /\ UNCHANGED <<session, revoked, boots>>

----------------------------------------------------------------------------
\* The routes, one of each kind; Express does not look at the case of a path.
Route(path, read, guard) == [path |-> path, read |-> read, guard |-> guard]
Scrape == Route("/metrics", TRUE, "none")
EditFaults == {Route(p, FALSE, "admin") : p \in {"/admin/faults", "/ADMIN/faults"}}
Revocation == Route("/payers/session/revoke", FALSE, "session")
Routes == {Scrape, Revocation, Route("/health", TRUE, "none"),
           Route("/oracle", FALSE, "none"), Route("/teams", FALSE, "token")} \cup EditFaults
Paths == {r.path : r \in Routes}

\* isProtectedPath() of a request; a fault is known by the paths its prefix
\* matches, and validateFault() refuses a prefix inside the protected ones.
Protected == {"/metrics", "/admin/faults", "/ADMIN/faults"}
IsProtected(path) == path \in Protected

Prefixes == {Paths,                        \* '/'
             {"/metrics"}, {"/ADMIN/faults"}, {"/oracle"}}
Faults == [matches : {p \in Prefixes : ~(p \subseteq Protected)}, always : BOOLEAN]

Injected(i, r) == {f \in inst[i].faults : r.path \in f.matches /\ ~IsProtected(r.path)}

\* createReadOnlyGate(): a canary serves the reads on its list.
ReadPaths == {"/health"}
ReadOnlyGate(i, r) == ~inst[i].env.canary \/ (r.read /\ r.path \in ReadPaths)

\* requireAdmin: without a configured token nobody is let in.
RequireAdmin(i, token) == inst[i].env.admin /\ token = "admin"

\* verifySessionToken() looks at the signature, verifySession() at the store.
VerifySessionToken(i, s) == s \in Sessions /\ session[s] # None /\ session[s].secret = inst[i].secret
VerifySession(i, s) == VerifySessionToken(i, s) /\ s \notin revoked

Guard(i, r, token) ==
  CASE r.guard = "admin" -> RequireAdmin(i, token)
    [] r.guard = "session" -> VerifySession(i, token)
    [] r.guard = "token" -> VerifySessionToken(i, token)
    [] OTHER -> TRUE

\* What a request may be answered, in the order of the middleware; an injected
\* fault hits all or a fraction of the requests it matches.
Replies(i, r, token) ==
  (IF Injected(i, r) # {} THEN {"injected"} ELSE {}) \cup
  (IF \E f \in Injected(i, r) : f.always THEN {}
   ELSE IF ~ReadOnlyGate(i, r) THEN {"canary"}
   ELSE IF Guard(i, r, token) THEN {"handled"} ELSE {"unauthorized"})

Handled(i, r, token) == inst[i] # None /\ "handled" \in Replies(i, r, token)

----------------------------------------------------------------------------
\* The handlers that change what the gates look at.
AddFault(i, f) ==
  /\ \E r \in EditFaults : Handled(i, r, "admin")
  /\ inst[i].env.faultInjection /\ Cardinality(inst[i].faults) < MaxFaults
  /\ inst' = [inst EXCEPT ![i].faults = @ \cup {f}] /\ UNCHANGED <<session, revoked, boots>>

ClearFaults(i) ==
  /\ \E r \in EditFaults : Handled(i, r, "admin")
  /\ inst[i].faults # {} /\ inst' = [inst EXCEPT ![i].faults = {}]
  /\ UNCHANGED <<session, revoked, boots>>

IssueSession(i, s) ==
  /\ session[s] = None /\ Handled(i, Route("/payers/session", FALSE, "none"), None)
  /\ session' = [session EXCEPT ![s] = [secret |-> inst[i].secret, production |-> inst[i].env.production]]
  /\ UNCHANGED <<inst, revoked, boots>>

RevokeSession(i, s) ==
  /\ Handled(i, Revocation, s) /\ revoked' = revoked \cup {s} /\ UNCHANGED <<inst, session, boots>>

Next == \E i \in Instances :
  \/ Stop(i) \/ ClearFaults(i)
  \/ \E env \in Environments : Boot(i, env)
  \/ \E f \in Faults : AddFault(i, f)
  \/ \E s \in Sessions : IssueSession(i, s) \/ RevokeSession(i, s)

Spec == Init /\ [][Next]_vars

----------------------------------------------------------------------------
Up == {i \in Instances : inst[i] # None}

\* In production a session holds on every instance and across restarts until
\* it is revoked, and no request is answered by an injected fault; elsewhere a
\* drill can always be ended and never blinds the scrape; no canary handles
\* what is not a read, so none has a fault or signed a session.
GatesHold ==
  /\ \A i \in Up, s \in Sessions : inst[i].env.production /\ session[s] # None /\ s \notin revoked
       => (session[s].production => VerifySession(i, s))
  /\ \A i \in Up, r \in Routes : "injected" \in Replies(i, r, None)
       => ~inst[i].env.production /\ r # Scrape /\ r \notin EditFaults
  /\ \A i \in Up : inst[i].faults # {} => \A r \in EditFaults : Replies(i, r, "admin") = {"handled"}
  /\ \A i \in Up, r \in Routes, t \in Sessions \cup {"admin"} :
       inst[i].env.canary /\ Handled(i, r, t) => r.read

\* "This is what every authenticated route should call" (workerAuth.js:180, of
\* verifySession()): a revoked session opens no route.
RevokedIsRefused ==
  \A i \in Up, r \in Routes, s \in revoked : r.guard # "none" => ~Handled(i, r, s)

\* The inductive invariant: what was checked when an instance started and when
\* its faults were added.
InstancesHold == \A i \in Up :
  /\ inst[i] \in [env : Environments, faults : SUBSET Faults, secret : Nat]
  /\ EnforceSecurityPosture(inst[i].env)
  /\ inst[i].env.secret => inst[i].secret = 0
  /\ inst[i].faults # {} => inst[i].env.faultInjection /\ inst[i].env.admin /\ ~inst[i].env.canary
SignedHold == \A s \in Sessions : session[s] # None /\ session[s].production => session[s].secret = 0

GatesInv == /\ DOMAIN inst = Instances /\ DOMAIN session = Sessions /\ boots \in Nat
            /\ InstancesHold /\ SignedHold /\ GatesHold
=============================================================================
