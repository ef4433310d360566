----------------------------- MODULE RecordsProofs -----------------------------
(***************************************************************************)
(* The components that keep records of their own, side by side as          *)
(* MCRecords has them: what AccountsProofs, PayoutsProofs and              *)
(* BackgroundProofs prove of each for every value of its constants holds   *)
(* of the instances that TLC runs, whatever else there is to move.         *)
(***************************************************************************)
EXTENDS MCRecords, TLAPS

\* Teams, started with none or with one: one owner each, however their requests
\* interleave, but for a team whose object the memory store shares (teams.js).
THEOREM TeamsHoldTogether == Spec => []TeamsHold
<1> DEFINE Part == focus = "teams" => Ac!T!TeamsInv
<1>1. Ac!T!TeamsAssumption
  BY ComponentsAssumption
<1>2. Init => Part
  <2>1. Init /\ focus = "teams" => Ac!T!Init \/ Founded
    BY DEF Init
  <2>2. ASSUME Founded PROVE Ac!T!TeamsInv
    <3>1. PICK m \in SUBSET {a1, a2} :
            /\ v1 = [t \in {"t1", "t2"} |-> IF t = "t2" THEN None ELSE
                      [x \in {a1, a2, a3} |-> IF x = a3 THEN "owner" ELSE IF x \in m THEN "member" ELSE None]]
            /\ v2 = [x \in {a1, a2, a3} |-> IF x \in m \cup {a3} THEN {"t1"} ELSE {}]
      BY <2>2 DEF Founded
    <3>2. PICK d \in {d1, d2, d3} : v6 = [c \in {d1, d2, d3} |-> IF c = d THEN Ac!T!Gone ELSE Ac!T!Idle]
      BY <2>2 DEF Founded
    <3>3. /\ v7 \in BOOLEAN /\ v3 = [x \in {a1, a2, a3} |-> None]
          /\ v4 = {"t1"} /\ v5 = {"t1"} /\ v8 = {}
      BY <2>2 DEF Founded
    <3> DEFINE r == [x \in {a1, a2, a3} |-> IF x = a3 THEN "owner" ELSE IF x \in m THEN "member" ELSE None]
    <3>4. v1["t1"] = r /\ v1["t2"] = None /\ v1 \in [{"t1", "t2"} -> {r, None}]
      BY <3>1
    <3>5. r \in Ac!T!Records
      BY DEF Ac!T!Records, Ac!T!Roles
    <3>6. r[a3] = "owner" /\ \A x \in {a1, a2, a3} : r[x] = "owner" => x = a3
      BY <1>1 DEF Ac!T!TeamsAssumption, Ac!T!Roles
    <3> HIDE DEF r
    <3>7. Ac!T!HasOneOwner(r)
      BY <1>1, <3>6, Ac!OneOwnerIs
    <3>8. \A c \in {d1, d2, d3} : ~Ac!T!UnderWay(c)
      BY <3>2 DEF Ac!T!UnderWay
    <3>9. Ac!T!TypeOK
      <4>1. v1 \in [{"t1", "t2"} -> Ac!T!Records \cup {None}]
        BY <3>4, <3>5
      <4>2. v2 \in [{a1, a2, a3} -> SUBSET v5] /\ v3 \in [{a1, a2, a3} -> {d1, d2, d3} \cup {None}]
        BY <3>1, <3>3
      <4>3. v6 \in [{d1, d2, d3} -> {Ac!T!Idle, Ac!T!Gone} \cup Ac!T!Begun]
        BY <3>2
      <4> QED
        BY <3>3, <4>1, <4>2, <4>3 DEF Ac!T!TypeOK
    <3>10. Ac!T!OneOwner /\ Ac!T!StoredAreMinted
      BY <3>3, <3>4, <3>7 DEF Ac!T!OneOwner, Ac!T!StoredAreMinted
    <3> QED
      BY <3>8, <3>9, <3>10 DEF Ac!T!TeamsInv, Ac!T!CopiesHold, Ac!T!LocksHold
  <2> QED
    BY <1>1, <2>1, <2>2, Ac!TeamsInit
<1>3. Part /\ [Next]_vars => Part'
  <2>1. [Next]_vars /\ focus' = "teams" => focus = "teams" /\ [Ac!T!Next]_(Ac!T!vars)
    BY DEF Next, vars, Ac!T!vars
  <2> QED
    BY <1>1, <2>1, Ac!TeamsStep
<1>4. Part => TeamsHold
  BY DEF TeamsHold, Ac!T!TeamsInv, Ac!T!OneOwner
<1> HIDE DEF Part
<1> QED
  BY <1>2, <1>3, <1>4, PTL DEF Spec

\* Webhooks, started with one: no event announced after a deletion is sent to the
\* webhook that was deleted, and nothing is posted into the backend's own network
\* (webhooks.js, webhookDelivery.js).
THEOREM WebhooksHoldTogether == Spec => []WebhooksHold
<1> DEFINE Part == focus = "webhooks" => H!WebhooksInv
<1>1. H!WebhookAssumption
  BY ComponentsAssumption
<1>2. Init => Part
  <2> SUFFICES ASSUME Registered PROVE H!WebhooksInv
    BY DEF Init
  <2>1. \A i : /\ H!Cardinality({a1, a2}) \in Nat
               /\ H!Cardinality(H!Delivered(i)) \in Nat
    BY <1>1, H!DeliveredAreFew
  <2>2. H!TypeOK
    <3>1. /\ v1 \in [{"i1", "i2"} -> H!Registrations \cup {None}]
          /\ v2 \subseteq {"i1", "i2"} /\ v3 \subseteq {"i1", "i2"} /\ v8 \subseteq {"i1", "i2"}
          /\ v4 \in [{"i1", "i2"} -> 0..H!Cardinality({a1, a2})]
          /\ v9 \subseteq {"public", "blocked"}
      BY <2>1 DEF Registered, H!Registrations
    <3>2. /\ v5 \in [{d1, d2} -> H!EditRecords]
          /\ v6 \in [{a1, a2} -> H!EventRecords]
      BY DEF Registered, H!EditRecords, H!EventRecords
    <3>3. H!NoTask \in H!TaskRecords
      BY <2>1 DEF H!NoTask, H!TaskRecords
    <3> QED
      BY <3>1, <3>2, <3>3 DEF H!TypeOK, Registered
  <2>3. /\ \A e \in {d1, d2} : v5[e].at = "idle" /\ v5[e].id = None
        /\ \A n \in {a1, a2} : v6[n].at = "idle" /\ \A i \in {"i1", "i2"} : v7[n][i].at = "idle"
        /\ v8 = {} /\ v9 = {} /\ \A i \in {"i1", "i2"} : v4[i] = 0
    BY DEF Registered, H!NoTask
  <2>4. H!EditsHold
    BY <2>3 DEF H!EditsHold
  <2>5. H!TasksHold
    BY <2>3 DEF H!TasksHold
  <2> QED
    BY <2>1, <2>2, <2>3, <2>4, <2>5
    DEF H!WebhooksInv, H!DeletedStaysDead, H!CountsHold, H!DeletedGetsNoEvent, H!NeverToABlockedAddress
<1>3. Part /\ [Next]_vars => Part'
  <2>1. [Next]_vars /\ focus' = "webhooks" => focus = "webhooks" /\ [H!Next]_(H!vars)
    BY DEF Next, vars, H!vars
  <2> QED
    BY <1>1, <2>1, H!WebhooksStep
<1>4. Part => WebhooksHold
  BY DEF WebhooksHold, H!WebhooksInv
<1> HIDE DEF Part
<1> QED
  BY <1>2, <1>3, <1>4, PTL DEF Spec

\* Referrals, started with none: every use of a code is accounted for, a payer
\* brings one reward, and owners are told the code that is theirs (referrals.js,
\* payerReferrals.js).
THEOREM ReferralsHoldTogether == Spec => []ReferralsHold
<1> DEFINE Part == focus = "referrals" => R!ReferralsInv
<1>1. R!ReferralAssumption
  BY ComponentsAssumption
<1>2. Init => Part
  <2>1. Init /\ focus = "referrals" => R!Init
    BY DEF Init
  <2> QED
    BY <1>1, <2>1, R!ReferralsInit
<1>3. Part /\ [Next]_vars => Part'
  <2>1. [Next]_vars /\ focus' = "referrals" => focus = "referrals" /\ [R!Next]_(R!vars)
    BY DEF Next, vars, R!vars, R!stored
  <2> QED
    BY <1>1, <2>1, R!ReferralsStep
<1>4. Part => ReferralsHold
  BY DEF ReferralsHold, R!ReferralsInv, R!CodesHold, R!Standing, R!OneCodePerOwner
<1> HIDE DEF Part
<1> QED
  BY <1>2, <1>3, <1>4, PTL DEF Spec

\* Money on its way out: one check at a time prepares a worker's withdrawal unless a lease
\* ran out, the relay lands what was signed, at the price that was quoted, and the record a
\* payout is derived from verifies unless its vote is of a kind the verifier does not know
\* (autoWithdraw.js, sponsor.js, provenanceVerify.js).
THEOREM PayoutsHoldTogether == Spec => []PayoutsHold
<1> DEFINE Withdrawals == focus = "withdraw" => R!W!WithdrawInv
           Relay == focus = "relay" => R!Sp!RelayInv
           Records == focus = "provenance" => R!Pr!ProvenanceInv
<1>1. R!W!WithdrawAssumption /\ R!Sp!SponsorAssumption /\ R!Pr!ProvenanceAssumption
  BY ComponentsAssumption
<1>2. Init => Withdrawals /\ Relay /\ Records
  <2>1. Init /\ focus = "withdraw" => R!W!Init
    BY DEF Init
  <2>2. Init /\ focus = "relay" => R!Sp!Init
    BY DEF Init
  <2>3. Init /\ focus = "provenance" => R!Pr!Init
    BY DEF Init
  <2> QED
    BY <1>1, <2>1, <2>2, <2>3, R!WithdrawInit, R!RelayInit, R!ProvenanceInit
<1>3. Withdrawals /\ Relay /\ Records /\ [Next]_vars => Withdrawals' /\ Relay' /\ Records'
  <2>1. [Next]_vars /\ focus' = "withdraw" => focus = "withdraw" /\ [R!W!Next]_(R!W!vars)
    BY DEF Next, vars, R!W!vars, R!W!stored
  <2>2. [Next]_vars /\ focus' = "relay" => focus = "relay" /\ (R!Sp!RelayNext \/ UNCHANGED R!Sp!relayVars)
    BY DEF Next, vars, R!Sp!relayVars
  <2>3. [Next]_vars /\ focus' = "provenance" => focus = "provenance" /\ [R!Pr!Next]_(R!Pr!vars)
    BY DEF Next, vars, R!Pr!vars
  <2> QED
    BY <1>1, <2>1, <2>2, <2>3, R!WithdrawStep, R!RelayStep, R!ProvenanceStep
<1>4. Withdrawals /\ Relay /\ Records => PayoutsHold
  BY <1>1, R!RecordsOfThePayout DEF PayoutsHold, R!W!WithdrawInv
<1> HIDE DEF Withdrawals, Relay, Records
<1> QED
  BY <1>2, <1>3, <1>4, PTL DEF Spec

\* The clients: an ask is charged, and a question fulfilled, at most once, whatever they
\* give up and send again (sdk/, mcp-server/).
THEOREM ClientsHoldTogether == Spec => []AskedOnce
<1> DEFINE Part == focus = "clients" => Ac!C!ClientsInv
<1>1. Ac!C!ClientsAssumption
  BY ComponentsAssumption
<1>2. Init => Part
  <2>1. Init /\ focus = "clients" => Ac!C!Init
    BY DEF Init
  <2> QED
    BY <1>1, <2>1, Ac!ClientsInit
<1>3. Part /\ [Next]_vars => Part'
  <2>1. [Next]_vars /\ focus' = "clients" => focus = "clients" /\ [Ac!C!Next]_(Ac!C!vars)
    BY DEF Next, vars, Ac!C!vars
  <2> QED
    BY <1>1, <2>1, Ac!ClientsStep
<1>4. Part => AskedOnce
  BY DEF AskedOnce, Ac!C!ClientsInv
<1> HIDE DEF Part
<1> QED
  BY <1>2, <1>3, <1>4, PTL DEF Spec

\* Sessions, keys and gates: a session revoked stays revoked and a key given up is dead,
\* and in production no gate is opened by a fault or a canary (workerAuth.js,
\* adminAuth.js, canary.js, faultInjection.js, securityPosture.js).
THEOREM SessionsHoldTogether == Spec => []SessionsHold
<1> DEFINE Access == focus = "access" => Ac!A!AccessInv
           Gates == focus = "gates" => Ac!G!GatesInv
<1>1. Ac!A!AccessAssumption
  BY ComponentsAssumption
<1>2. Init => Access /\ Gates
  <2>1. Init /\ focus = "access" => Ac!A!Init
    BY DEF Init
  <2>2. Init /\ focus = "gates" => Ac!G!Init
    BY DEF Init
  <2> QED
    BY <1>1, <2>1, <2>2, Ac!AccessInit, Ac!GatesInit
<1>3. Access /\ Gates /\ [Next]_vars => Access' /\ Gates'
  <2>1. [Next]_vars /\ focus' = "access" => focus = "access" /\ [Ac!A!Next]_(Ac!A!vars)
    BY DEF Next, vars, Ac!A!vars, Ac!A!auth, Ac!A!account
  <2>2. [Next]_vars /\ focus' = "gates" => focus = "gates" /\ [Ac!G!Next]_(Ac!G!vars)
    BY DEF Next, vars, Ac!G!vars
  <2> QED
    BY <1>1, <2>1, <2>2, Ac!AccessStep, Ac!GatesStep
<1>4. Access /\ Gates => SessionsHold
  BY DEF SessionsHold, Ac!A!AccessInv, Ac!G!GatesInv
<1> HIDE DEF Access, Gates
<1> QED
  BY <1>2, <1>3, <1>4, PTL DEF Spec

\* What runs behind the requests: the sweep misses and wrongs no question, unless the store
\* was lost under it or the question's stash expired while it was started or classified,
\* and the record of a job is settled once and loses no patch, unless writes crossed
\* (disasterRecovery.js, canary.js, jobs.js).
THEOREM SweepHoldsTogether == Spec => []SweepHolds
<1> DEFINE Sweep == focus = "recovery" => H!Rc!RecoveryInv
           Jobs == focus = "jobs" => H!J!JobsInv
<1>1. H!Rc!RecoveryAssumption /\ H!J!JobsAssumption
  BY ComponentsAssumption
<1>2. Init => Sweep /\ Jobs
  <2>1. Init /\ focus = "recovery" => Submitted
    BY DEF Init
  <2>2. Init /\ focus = "jobs" => H!J!Init
    BY DEF Init
  <2>3. Submitted => H!Rc!RecoveryInv
    BY <1>1, H!RecoveryWaiting DEF Submitted
  <2> QED
    BY <1>1, <2>1, <2>2, <2>3, H!JobsInit
<1>3. Sweep /\ Jobs /\ [Next]_vars => Sweep' /\ Jobs'
  <2>1. [Next]_vars /\ focus' = "recovery" => focus = "recovery" /\ [H!Rc!Next]_(H!Rc!vars)
    BY DEF Next, vars, H!Rc!vars, H!Rc!chain, H!Rc!records, H!Rc!process, H!Rc!history
  <2>2. [Next]_vars /\ focus' = "jobs" => focus = "jobs" /\ [H!J!Next]_(H!J!vars)
    BY DEF Next, vars, H!J!vars
  <2> QED
    BY <1>1, <2>1, <2>2, H!RecoveryStep, H!JobsStep
<1>4. Sweep /\ Jobs => SweepHolds
  BY DEF SweepHolds, H!Rc!RecoveryInv, H!J!JobsInv
<1> HIDE DEF Sweep, Jobs
<1> QED
  BY <1>2, <1>3, <1>4, PTL DEF Spec

\* The limits: in any window's length of time memory admits the limit of requests at most
\* and Redis twice as many, neither grants more reservations in an hour than the budget
\* has cents, no window has more builds of an onboarding transaction than its limit, and the
\* list of maintenance windows stays within its bound (store.js, rateLimit.js, sponsor.js,
\* maintenanceWindows.js).
THEOREM LimitsHoldTogether == Spec => []LimitsHold
<1> DEFINE Stored == focus = "stores" => Ac!St!StoresInv
           Onboarded == focus = "onboard" => R!Sp!OnboardInv
           Listed == focus = "windows" => Ac!Wi!WindowsInv
<1>1. Ac!St!StoresAssumption /\ R!Sp!SponsorAssumption /\ Ac!Wi!WindowsAssumption
  BY ComponentsAssumption
<1>2. Init => Stored /\ Onboarded /\ Listed
  <2>1. Init /\ focus = "stores" => Ac!St!Init
    BY DEF Init
  <2>2. Init /\ focus = "onboard" => R!Sp!Init
    BY DEF Init
  <2>3. Init /\ focus = "windows" => Ac!Wi!Init
    BY DEF Init
  <2> QED
    BY <1>1, <2>1, <2>2, <2>3, Ac!StoresInit, R!OnboardInit, Ac!WindowsInit
<1>3. Stored /\ Onboarded /\ Listed /\ [Next]_vars => Stored' /\ Onboarded' /\ Listed'
  <2>1. [Next]_vars /\ focus' = "stores" => focus = "stores" /\ [Ac!St!Next]_(Ac!St!vars)
    BY DEF Next, vars, Ac!St!vars, Ac!St!limits, Ac!St!replica
  <2>2. [Next]_vars /\ focus' = "onboard" => focus = "onboard" /\ (R!Sp!OnboardNext \/ UNCHANGED R!Sp!onboardVars)
    BY DEF Next, vars, R!Sp!onboardVars
  <2>3. [Next]_vars /\ focus' = "windows" => focus = "windows" /\ [Ac!Wi!Next]_(Ac!Wi!vars)
    BY DEF Next, vars, Ac!Wi!vars
  <2> QED
    BY <1>1, <2>1, <2>2, <2>3, Ac!StoresStep, R!OnboardStep, Ac!WindowsStep
<1>4. Stored /\ Onboarded /\ Listed => LimitsHold
  BY DEF LimitsHold
<1> HIDE DEF Stored, Onboarded, Listed
<1> QED
  BY <1>2, <1>3, <1>4, PTL DEF Spec

\* The standing of workers: while a review of a pair is open its workers stay suspended,
\* and nobody is for a score that was accepted; the presence hash says who is there; and a
\* question goes to somebody if anybody is online, to nobody suspended or poor while others
\* are fine; and what is written of a worker tells of every settlement, unless two of them
\* crossed (collusion.js, dispatch.js, workerAnalytics.js).
THEOREM ScoresHoldTogether == Spec => []ScoresHold
<1> DEFINE Reviewed == focus = "collusion" => H!Co!CollusionInv
           Present == focus = "supply" => H!Su!PresenceInv
           Routed == focus = "supply" => H!Su!RoutingInv
           Told == focus = "reputation" => R!Re!ReputationInv
<1>1. H!Co!CollusionAssumption /\ H!Su!SupplyAssumption /\ R!Re!ReputationAssumption
  BY ComponentsAssumption
<1>2. Init => Reviewed /\ Present /\ Routed /\ Told
  <2>1. Init /\ focus = "collusion" => H!Co!Init
    BY DEF Init
  <2>2. Init /\ focus = "supply" => H!Su!Init
    BY DEF Init
  <2>3. Init /\ focus = "reputation" => R!Re!Init
    BY DEF Init
  <2> QED
    BY <1>1, <2>1, <2>2, <2>3, H!CollusionInit, H!SupplyInit, R!ReputationInit
<1>3. Reviewed /\ Present /\ Routed /\ Told /\ [Next]_vars => Reviewed' /\ Present' /\ Routed' /\ Told'
  <2>1. [Next]_vars /\ focus' = "collusion" => focus = "collusion" /\ [H!Co!Next]_(H!Co!vars)
    BY DEF Next, vars, H!Co!vars
  <2>2. [Next]_vars /\ focus' = "supply" => focus = "supply" /\ [H!Su!Next]_(H!Su!vars)
    BY DEF Next, vars, H!Su!vars
  <2>3. [Next]_vars /\ focus' = "reputation" => focus = "reputation" /\ [R!Re!Next]_(R!Re!vars)
    BY DEF Next, vars, R!Re!vars, R!Re!stored
  <2> QED
    BY <1>1, <2>1, <2>2, <2>3, H!CollusionStep, H!PresenceStep, H!RoutingStep, R!ReputationKept
<1>4. Reviewed /\ Present /\ Routed /\ Told => ScoresHold
  BY <1>1, H!ReviewsAreKept, H!PresenceAgreeing, R!NothingIsLost DEF ScoresHold
<1> HIDE DEF Reviewed, Present, Routed, Told
<1> QED
  BY <1>2, <1>3, <1>4, PTL DEF Spec

\* What is listed of the accounts, of the ledger, of the questions and of the instances is
\* what there is of them (payerIndex.js, privatePools.js, earnings.js, stats.js,
\* healthProbes.js, alerting.js).
THEOREM IndexesHoldTogether == Spec => []IndexesHold
<1> DEFINE Listed == focus = "indexes" => Ac!Ix!IndexesInv
           Recorded == focus = "earnings" => R!Ea!EarningsInv
           Reported == focus = "reports" => R!Rp!ReportsInv
           Probed == focus = "probes" => H!Pb!ProbesInv
<1>1. Ac!Ix!IndexesAssumption /\ R!Ea!EarningsAssumption /\ R!Rp!ReportsAssumption /\ H!Pb!ProbesAssumption
  BY ComponentsAssumption
<1>2. Init => Listed /\ Recorded /\ Reported /\ Probed
  <2>1. Init /\ focus = "indexes" => Ac!Ix!Init
    BY DEF Init
  <2>2. Init /\ focus = "earnings" => R!Ea!Init
    BY DEF Init
  <2>3. Init /\ focus = "reports" => R!Rp!Init
    BY DEF Init
  <2>4. Init /\ focus = "probes" => H!Pb!Init
    BY DEF Init
  <2> QED
    BY <1>1, <2>1, <2>2, <2>3, <2>4, Ac!IndexesInit, R!EarningsInit, R!ReportsInit, H!ProbesInit
<1>3. Listed /\ Recorded /\ Reported /\ Probed /\ [Next]_vars => Listed' /\ Recorded' /\ Reported' /\ Probed'
  <2>1. [Next]_vars /\ focus' = "indexes" => focus = "indexes" /\ [Ac!Ix!Next]_(Ac!Ix!vars)
    BY DEF Next, vars, Ac!Ix!vars
  <2>2. [Next]_vars /\ focus' = "earnings" => focus = "earnings" /\ [R!Ea!Next]_(R!Ea!vars)
    BY DEF Next, vars, R!Ea!vars
  <2>3. [Next]_vars /\ focus' = "reports" => focus = "reports" /\ [R!Rp!Next]_(R!Rp!vars)
    BY DEF Next, vars, R!Rp!vars
  <2>4. [Next]_vars /\ focus' = "probes" => focus = "probes" /\ [H!Pb!Next]_(H!Pb!vars)
    BY DEF Next, vars, H!Pb!vars
  <2> QED
    BY <1>1, <2>1, <2>2, <2>3, <2>4, Ac!IndexesStep, R!EarningsStep, R!ReportsStep, H!ProbesStep
<1>4. Listed /\ Recorded /\ Reported /\ Probed => IndexesHold
  BY <1>1, Ac!ListsAreIndexed, R!LedgerIsWhole, R!ReportsAreTrue, H!ProbesAreTrue DEF IndexesHold
<1> HIDE DEF Listed, Recorded, Reported, Probed
<1> QED
  BY <1>2, <1>3, <1>4, PTL DEF Spec

\* What no step takes back: a membership, but for its own removal; a badge or points, but
\* for settlements that overlapped; a fulfilment, when an instance leaves by its drain; a
\* settled job, when a review is queued (teams.js, gamification.js, canary.js, jobs.js).
THEOREM RecordStepsTogether == Spec => RecordSteps
<1> DEFINE Keeps == /\ focus = "teams" => Ac!T!KeepsMemberships
                    /\ focus = "reputation" => R!Re!KeepsWhatWasEarned
                    /\ focus = "recovery" => H!Rc!DropsNothing
                    /\ focus = "jobs" => H!J!StaysSettled
<1>1. TeamsHold /\ ScoresHold /\ SweepHolds /\ [Next]_vars => [Keeps]_vars
  <2> SUFFICES ASSUME TeamsHold, ScoresHold, SweepHolds, Next PROVE Keeps
    OBVIOUS
  <2>1. ASSUME focus = "teams" PROVE Ac!T!KeepsMemberships
    <3>1. Ac!T!TeamsInv /\ Ac!T!Next /\ Ac!T!TeamsAssumption
      BY <2>1, ComponentsAssumption DEF TeamsHold, Next
    <3> QED
      BY <3>1, Ac!MembershipsStay
  <2>2. ASSUME focus = "reputation" PROVE R!Re!KeepsWhatWasEarned
    <3>1. R!Re!ReputationInv /\ R!Re!Next /\ R!Re!ReputationAssumption
      BY <2>2, ComponentsAssumption DEF ScoresHold, Next
    <3> QED
      BY <3>1, R!EarnedStep
  <2>3. ASSUME focus = "recovery" PROVE H!Rc!DropsNothing
    <3>1. H!Rc!RecoveryInv /\ H!Rc!RecoveryAssumption
      BY <2>3, ComponentsAssumption DEF SweepHolds
    <3> QED
      BY <3>1, H!DrainedDropsNothing
  <2>4. ASSUME focus = "jobs" PROVE H!J!StaysSettled
    <3>1. H!J!JobsInv /\ H!J!Next /\ H!J!JobsAssumption
      BY <2>4, ComponentsAssumption DEF SweepHolds, Next
    <3> QED
      BY <3>1, H!JobsStep
  <2> QED
    BY <2>1, <2>2, <2>3, <2>4
<1>2. RecordSteps <=> [][Keeps]_vars
  BY DEF RecordSteps
<1> HIDE DEF Keeps
<1> QED
  BY <1>1, <1>2, TeamsHoldTogether, ScoresHoldTogether, SweepHoldsTogether, PTL DEF Spec
=============================================================================
