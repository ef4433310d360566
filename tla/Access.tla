-------------------------------- MODULE Access --------------------------------
(***************************************************************************)
(* Who may call: the challenges and sessions of workers and payers         *)
(* (workerAuth.js) and the API keys of customers (billing.js,              *)
(* apiKeyAuth.js, adminAuth.js).  A challenge is read, verified and only   *)
(* then deleted; a revocation is kept as long as the token would live; a   *)
(* key is rotated by three writes.  Requests overlap and may die with      *)
(* their instance.                                                         *)
(***************************************************************************)
EXTENDS Integers, FiniteSets

CONSTANTS Logins, Rotations,  \* requests: sessions, and changes of the account's key
          MaxTime,            \* bound on the clock
          ChallengeTtl, SessionTtl, None

AccessAssumption == /\ MaxTime \in Nat /\ ChallengeTtl \in Nat /\ SessionTtl \in Nat
                    /\ None \notin Logins \cup Rotations

VARIABLES subject,    \* what the requests are about: they share no key
          now,
          nonce,      \* auth-challenge:<address>: of whom, until when
          login,      \* a login: the nonce it was given, what it does next
          session,    \* the token a login got: its expiry, and the secret that signed it
          revoked,    \* revoked-session:<sid>, until when
          secret,     \* SESSION_SECRET, by generation
          keys,       \* apikey:<hash>: the keys that resolve
          accountKey, \* account-key:<accountId>
          rotation,   \* a rotation: the key it was asked with, what it does next
          shown,      \* keys the customer was given
          overlapped, \* logins, rotations that ran at once or died
          signedOut   \* logins whose session was answered as revoked

auth == <<nonce, login, session, revoked, secret, signedOut>>
account == <<keys, accountKey, rotation, shown>>
vars == <<subject, now, auth, account, overlapped>>

None0 == [of |-> None, until |-> 0]
Init == /\ subject \in {"sessions", "keys"} /\ now = 0 /\ nonce = None0 /\ secret = 0 /\ signedOut = {} /\ overlapped = {}
        /\ login = [l \in Logins |-> [at |-> "idle", nonce |-> None]]
        /\ session = [l \in Logins |-> [exp |-> -1, secret |-> 0]]
        /\ revoked = [l \in Logins |-> -1]
        /\ keys = {} /\ accountKey = None /\ shown = {}
        /\ rotation = [r \in Rotations |-> [at |-> "idle", old |-> None]]

LoginAt(l, step) == login[l].at = step
LoginTo(l, step) == login' = [login EXCEPT ![l].at = step]

----------------------------------------------------------------------------
\* buildChallengeXdr(): a new nonce replaces the one before it; the client
\* signs it, or sends what another of its tabs signed.
BuildChallenge(l) ==
  /\ LoginAt(l, "idle") /\ nonce' = [of |-> l, until |-> now + ChallengeTtl]
  /\ login' = [login EXCEPT ![l] = [at |-> "signed", nonce |-> l]]
  /\ UNCHANGED <<now, session, revoked, secret, signedOut, account, overlapped>>
SignAgain(l, other) ==
  /\ LoginAt(l, "idle") /\ login[other].nonce = other
  /\ login' = [login EXCEPT ![l] = [at |-> "signed", nonce |-> other]]
  /\ UNCHANGED <<now, nonce, session, revoked, secret, signedOut, account, overlapped>>

\* verifyChallengeAndIssueSession() up to the delete, then to the token.
VerifyChallenge(l) ==
  LET outstanding == nonce.of # None /\ now <= nonce.until
      others == {o \in Logins : LoginAt(o, "verified")}
      ok == outstanding /\ login[l].nonce = nonce.of
  IN /\ LoginAt(l, "signed") /\ LoginTo(l, IF ok THEN "verified" ELSE "refused")
     /\ overlapped' = overlapped \cup IF ok /\ others # {} THEN {l} \cup others ELSE {}
     /\ UNCHANGED <<now, nonce, session, revoked, secret, signedOut, account>>

MutantIssueSession(l) ==
  /\ LoginAt(l, "verified") /\ LoginTo(l, "in")
  /\ session' = [session EXCEPT ![l] = [exp |-> now + SessionTtl, secret |-> secret]]
  /\ UNCHANGED <<now, nonce, revoked, secret, signedOut, account, overlapped>>
IssueSession(l) ==
  /\ LoginAt(l, "verified") /\ nonce' = None0 /\ LoginTo(l, "in")
  /\ session' = [session EXCEPT ![l] = [exp |-> now + SessionTtl, secret |-> secret]]
  /\ UNCHANGED <<now, revoked, secret, signedOut, account, overlapped>>

\* acceptedSessionSecrets() finds a function where it expects a list, and no
\* previous secret in the configuration: the current one is all it accepts.
ParseSessionToken(l) == session[l].secret = secret /\ now <= session[l].exp
VerifySession(l) == ParseSessionToken(l) /\ revoked[l] < now

\* The revoke route verifies the token; revokeSession() looks again, then
\* keeps the revocation for what remains of the token's life.
Revoke(l) ==
  /\ LoginAt(l, "in") /\ VerifySession(l) /\ LoginTo(l, "revoking")
  /\ UNCHANGED <<now, nonce, session, revoked, secret, signedOut, account, overlapped>>
RevokeSession(l) ==
  LET remaining == session[l].exp - now
  IN /\ LoginAt(l, "revoking") /\ LoginTo(l, "out") /\ signedOut' = signedOut \cup {l}
     /\ revoked' = IF ParseSessionToken(l) /\ remaining > 0 THEN [revoked EXCEPT ![l] = now + remaining] ELSE revoked
     /\ UNCHANGED <<now, nonce, session, secret, account, overlapped>>

\* A deployment with a new secret.
RotateSecret ==
  /\ secret = 0 /\ secret' = 1 /\ UNCHANGED <<now, nonce, login, session, revoked, signedOut, account, overlapped>>

----------------------------------------------------------------------------
RotationAt(r, step) == rotation[r].at = step
RotationTo(r, step) == rotation' = [rotation EXCEPT ![r].at = step]
UnderWay == {r \in Rotations : rotation[r].at \in {"minted", "swapped"}}

\* createAccount(), by a request whose id stands for the key it makes; the key
\* is revealed with the answer, but not to an account billed by invoice, whose
\* answer is made of a field createAccount() does not return.
CreateAccount(r) ==
  /\ accountKey = None /\ keys = {} /\ RotationAt(r, "idle") /\ RotationTo(r, "created")
  /\ keys' = {r} /\ UNCHANGED <<now, auth, accountKey, shown, overlapped>>
FinishAccount(r) ==
  /\ RotationAt(r, "created") /\ accountKey' = r /\ RotationTo(r, "done")
  /\ shown' \in {shown, shown \cup {r}}
  /\ UNCHANGED <<now, auth, keys, overlapped>>

\* rotateApiKey(), after resolveApiKey() of a key the customer holds.
MintKey(r, old) ==
  /\ RotationAt(r, "idle") /\ old \in keys \cap shown
  /\ rotation' = [rotation EXCEPT ![r] = [at |-> "minted", old |-> old]]
  /\ keys' = keys \cup {r}
  /\ overlapped' = overlapped \cup IF UnderWay = {} THEN {} ELSE {r} \cup UnderWay
  /\ UNCHANGED <<now, auth, accountKey, shown>>
DeleteOldKey(r) ==
  /\ RotationAt(r, "minted") /\ keys' = keys \ {rotation[r].old} /\ RotationTo(r, "swapped")
  /\ UNCHANGED <<now, auth, accountKey, shown, overlapped>>
RevealKey(r) ==
  /\ RotationAt(r, "swapped") /\ accountKey' = r /\ shown' = shown \cup {r} /\ RotationTo(r, "done")
  /\ UNCHANGED <<now, auth, keys, overlapped>>

Die(r) ==
  /\ RotationAt(r, "created") \/ r \in UnderWay
  /\ RotationTo(r, "died") /\ overlapped' = overlapped \cup {r}
  /\ UNCHANGED <<now, auth, keys, accountKey, shown>>
Tick == now < MaxTime /\ now' = now + 1 /\ UNCHANGED <<auth, account, overlapped>>

Next == /\ UNCHANGED subject
        /\ \/ /\ subject = "sessions"
              /\ \/ RotateSecret \/ Tick
                 \/ \E l \in Logins : BuildChallenge(l) \/ VerifyChallenge(l) \/ IssueSession(l) \/ Revoke(l)
                                      \/ RevokeSession(l) \/ \E other \in Logins \ {l} : SignAgain(l, other)
           \/ /\ subject = "keys"
              /\ \E r \in Rotations : \/ CreateAccount(r) \/ FinishAccount(r) \/ \E old \in Rotations : MintKey(r, old)
                                       \/ DeleteOldKey(r) \/ RevealKey(r) \/ Die(r)

Spec == Init /\ [][Next]_vars

----------------------------------------------------------------------------
TypeOK == /\ keys \cup shown \cup signedOut \cup overlapped \subseteq Logins \cup Rotations
          /\ nonce.of \in Logins \cup {None} /\ accountKey \in Rotations \cup {None}
          /\ now \in 0..MaxTime /\ \A l \in Logins : revoked[l] <= session[l].exp

\* One session for a challenge, unless two submissions of it were verified
\* before either was consumed; a session that was answered as revoked is
\* accepted at no later time, up to and with the last of its life, except that
\* one revoked in its last instant still is in that instant; and a customer whose
\* rotations neither overlapped nor died has one key, the last it was shown,
\* and the one it gave for it is dead.
AccessHolds ==
  /\ \A l, m \in Logins : l # m /\ login[l].nonce = login[m].nonce /\ session[l].exp >= 0 /\ session[m].exp >= 0
       => {l, m} \subseteq overlapped
  /\ \A l \in signedOut : VerifySession(l) => now = session[l].exp /\ revoked[l] = -1
  /\ Rotations \cap overlapped = {} =>
       /\ \A r \in Rotations : RotationAt(r, "done") => rotation[r].old \notin keys
       /\ UnderWay = {} /\ accountKey # None => keys = {accountKey}

----------------------------------------------------------------------------
\* The inductive invariant.  A challenge that was answered is not outstanding
\* again, whoever else holds its signature; a token and its revocation are as the
\* login's step tells; and while no rotation overlapped another or died, the keys
\* are those of one of five moments.
In(l) == login[l].at \in {"in", "revoking", "out"}
Passed(l) == LoginAt(l, "verified") \/ In(l)
LoginsHold == \A l \in Logins :
  /\ IF LoginAt(l, "idle") THEN login[l].nonce = None
     ELSE login[l].nonce \in Logins /\ ~LoginAt(login[l].nonce, "idle")
  /\ nonce.of = l => ~LoginAt(l, "idle")
  /\ In(l) => login[l].nonce # nonce.of
  /\ \A m \in Logins \ {l} : Passed(l) /\ Passed(m) /\ login[l].nonce = login[m].nonce => {l, m} \subseteq overlapped

TokensHold == signedOut \subseteq Logins /\ \A l \in Logins :
  /\ session[l].secret \in 0..secret /\ IF In(l) THEN session[l].exp \in Nat ELSE session[l].exp = -1
  /\ ~LoginAt(l, "out") => revoked[l] = -1 /\ l \notin signedOut
  /\ LoginAt(l, "out") => \/ revoked[l] = session[l].exp
                          \/ revoked[l] = -1 /\ (session[l].secret < secret \/ session[l].exp <= now)

Others(r, step) == \A s \in Rotations \ {r} : rotation[s].at \in step
AccountIs(key) == accountKey = key /\ key \in Rotations /\ RotationAt(key, "done")
Moments ==
  \/ accountKey = None /\ keys = {} /\ shown = {} /\ Others(None, {"idle"})
  \/ \E r \in Rotations : /\ accountKey = None /\ keys = {r} /\ shown = {}
                          /\ RotationAt(r, "created") /\ Others(r, {"idle"})
  \/ AccountIs(accountKey) /\ keys = {accountKey} /\ Others(None, {"idle", "done"})
  \/ \E r \in Rotations : /\ AccountIs(rotation[r].old) /\ Others(r, {"idle", "done"})
                          /\ \/ RotationAt(r, "minted") /\ keys = {accountKey, r}
                             \/ RotationAt(r, "swapped") /\ keys = {r}
OldAreDead == \A r \in Rotations : RotationAt(r, "done") => rotation[r].old \notin keys
KeysHold ==
  /\ \A k \in keys \cup shown : k \in Rotations /\ ~RotationAt(k, "idle")
  /\ \A r \in Rotations :
       /\ RotationAt(r, "idle") \/ RotationAt(r, "created") => rotation[r].old = None
       /\ rotation[r].old # None => rotation[r].old \in Rotations /\ ~RotationAt(rotation[r].old, "idle")
  /\ Rotations \cap overlapped = {} => Moments /\ OldAreDead

Shapes ==
  /\ secret \in {0, 1} /\ revoked \in [Logins -> Int] /\ session \in [Logins -> [exp : Int, secret : {0, 1}]]
  /\ login \in [Logins -> [at : {"idle", "signed", "verified", "refused", "in", "revoking", "out"},
                           nonce : Logins \cup {None}]]
  /\ rotation \in [Rotations -> [at : {"idle", "created", "minted", "swapped", "done", "died"},
                                 old : Rotations \cup {None}]]

AccessInv == Shapes /\ TypeOK /\ LoginsHold /\ TokensHold /\ KeysHold /\ AccessHolds
=============================================================================
