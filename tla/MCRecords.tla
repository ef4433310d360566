------------------------------ MODULE MCRecords ------------------------------
(***************************************************************************)
(* Small instances, for TLC, of the components that keep records of their  *)
(* own: no two of them share a key, so a behaviour of the backend is one   *)
(* of each, and this module takes them one at a time.  focus says which    *)
(* one moves; the variables are its own, in the order it declares them,    *)
(* and those it does not need stay None.                                   *)
(* Those of which something is proved come with it, for RecordsProofs to   *)
(* use.                                                                    *)
(***************************************************************************)
EXTENDS Integers, Sequences, TLC

CONSTANTS a1, a2, a3, d1, d2, d3, w1, w2, wordAbout, yes, None,
          Focuses

VARIABLES focus, v1, v2, v3, v4, v5, v6, v7, v8, v9, v10, v11, v12, v13, v14, v15

vars == <<focus, v1, v2, v3, v4, v5, v6, v7, v8, v9, v10, v11, v12, v13, v14, v15>>

Symmetry == Permutations({d1, d2, d3}) \cup Permutations({a1, a2})

\* What can be told of an answer: whether it has filler or "about" in it, its
\* number and its word.
Text(filler, about, n, word) == [filler |-> filler, about |-> about, n |-> n, word |-> word, spam |-> FALSE]
MCTexts == {Text(FALSE, FALSE, 420, None), Text(FALSE, TRUE, 420, None), Text(TRUE, FALSE, 420, None),
            Text(FALSE, FALSE, 42, None), Text(FALSE, FALSE, 430, None), Text(FALSE, FALSE, None, yes)}
MCTolerances == {[absolute |-> 0], [absolute |-> 1], [percent |-> 5], [percent |-> 101],
                 [absolute |-> 0 - 1], [percent |-> 5, absolute |-> 1]}

\* Two pairs with a worker in common, close to being suspicious.
MCPairs == {<<"w1", "w2">>, <<"w1", "w3">>}
MCStart == [p \in MCPairs |-> [shared |-> IF p[2] = "w2" THEN 6 ELSE 5, sameAnswer |-> 5, sameWrong |-> 2, synced |-> 0]]
MCRounds == {[of |-> {"w1", "w2", "w3"}, same |-> {"w1", "w2", "w3"}, matched |-> {}, quick |-> {"w1", "w2"}],
             [of |-> {"w1", "w2"}, same |-> {"w2"}, matched |-> {"w2"}, quick |-> {}]}
MCShortRounds == {[of |-> {"w1", w}, same |-> {"w1", w}, matched |-> {}, quick |-> {"w1", "w2"}] : w \in {"w2", "w3"}}

Ac == INSTANCE AccountsProofs WITH
  Addresses <- {a1, a2, a3}, TeamIds <- {"t1", "t2"}, Calls <- {d1, d2, d3}, MaxMembers <- 3, MaxTeams <- 1,
  shared <- v7, team <- v1, memberships <- v2, locked <- v3, known <- v4, minted <- v5, call <- v6, crossed <- v8,
  Logins <- {d1, d2, d3}, Rotations <- {d1, d2, d3}, MaxTime <- 2, ChallengeTtl <- 2, SessionTtl <- 2,
  subject <- v1, now <- v2, nonce <- v3, login <- v4, session <- v5, revoked <- v6, secret <- v7,
  keys <- v8, accountKey <- v9, rotation <- v10, shown <- v11, overlapped <- v12, signedOut <- v13,
  Instances <- {d1, d2}, Sessions <- {"s"}, MaxBoots <- 3, MaxFaults <- 1,
  inst <- v1, gateSession <- v2, gateRevoked <- v3, boots <- v4,
  Asks <- {"c"}, MaxRetries <- 1, MaxPolls <- 1,
  kind <- v1, sdk <- v2, ask <- v3, handler <- v4, server <- v5,
  Clients <- {"c1", "c2"}, Fields <- {"x1", "x2"}, LastTick <- 5, Ttl <- 2, Limit <- 2, MaxHits <- 4,
  Budget <- 3, Cost <- 2, RetryAfter <- 2,
  topic <- v1, mem <- v3, redis <- v4, pending <- v5, orphaned <- v6, admitted <- v7, reserved <- v8, downUntil <- v9, from <- v10,
  Requests <- {d1, d2, d3}, LastInstant <- 3, MaxWindows <- 2, MaxLength <- 2, Retention <- 1,
  windows <- v1, req <- v3,
  Owners <- {a1, a2}, Items <- {"x1", "x2"}, MaxTracked <- 2, MaxPool <- 1,
  family <- v1, lists <- v2, editing <- v3, cut <- v4
H == INSTANCE BackgroundProofs WITH Ids <- {"i1", "i2"}, Urls <- {"named", "private"}, Literal <- {"private"},
  Private <- {"private"}, Edits <- {d1, d2}, Events <- {a1, a2}, MaxPerOwner <- 2, MaxAttempts <- 1,
  reg <- v1, owned <- v2, index <- v3, counts <- v4, edit <- v5, event <- v6, task <- v7,
  deleted <- v8, contacted <- v9,
  Tasks <- {d1, d2, d3},
  record <- v1, request <- v2, escalated <- v3, settlements <- v4, onChain <- v5, writes <- v6, torn <- v7,
  Questions <- {"q1", "q2"}, Abandoned <- {"q2"}, MaxTime <- 2, MaxRefunds <- 1, Scans <- 1, Driven <- 1, MinAge <- 2, StaleInflight <- 2,
  now <- v1, pending <- v2, settled <- v3, created <- v4, job <- v5, stash <- v6, claims <- v15, live <- v7,
  inFlight <- v8, mode <- v9, sweep <- v10, throughout <- v11, grown <- v12, lost <- v13,
  wronged <- v14,
  Workers <- {d1, d2}, Instances <- {a1, a2}, Categories <- {"law"}, SupplyWindow <- 3, Quorum <- 1,
  MaxConns <- [presence |-> 3, routing |-> 2, supply |-> 2], MaxChanges <- 2,
  topic <- v1, conn <- v2, workers <- v3, queue <- v4, presence <- v5, seen <- v6, standing <- v7,
  changes <- v8, selection <- v9, overlapped <- v10, orphaned <- v11,
  Suspects <- {"w1", "w2", "w3"}, Pairs <- MCPairs, Quorums <- {d1, d2}, Reviews <- {"v1"}, Start <- MCStart,
  Expected <- [p \in MCPairs |-> 50], SharedIp <- {}, Referring <- {}, Rounds <- MCRounds,
  MinShared <- 5, FlagScore <- 600, SuspendScore <- 830,
  counters <- v1, linked <- v2, flag <- v3, suspended <- v4, inspection <- v5, observed <- v6, raced <- v7,
  Indexed <- {d1, d2, d3}, Readings <- {"s"}, Polls <- {a1, a2}, MaxTracked <- 2, MaxFlips <- 2, MaxRestarts <- 1,
  entry <- v2, newest <- v3, scan <- v4, gauge <- v5, low <- v6, flips <- v7, crossed <- v8, poll <- v9,
  lowBalanceState <- v10, raised <- v11, current <- v12, restarts <- v13, clashed <- v14, link <- v15
R == INSTANCE PayoutsProofs WITH
  Workers <- {"w1", "w2", "w3"}, Payers <- {"p"}, Codes <- {"k1", "k2"}, Requests <- {d1, d2, d3},
  Seasoned <- {}, MaxUses <- 1, Attempts <- 2, Reward <- 1,
  owner <- v1, codeOf <- v2, uses <- v3, redeemed <- v4, referees <- v5, payerOf <- v6, earned <- v7, req <- v8,
  Earners <- {"w1"}, Beneficiaries <- {}, Edits <- {"e"}, Checks <- {d1, d2, d3}, Lanes <- 2, Thresholds <- {1}, MaxOwed <- 1,
  settings <- v1, pending <- v2, lock <- v3, index <- v4, owed <- v5, edit <- v6, check <- v7, outlived <- v8,
  Signers <- {"s1", "s2"}, Txs <- {a1, a2}, Submissions <- {d1, d2}, Amounts <- {1, 2}, Price <- 2,
  SubmitAttempts <- 2, OnboardWindow <- 2, OnboardMax <- 2, MaxTime <- 3, MaxPlatformTxs <- 1,
  tx <- v1, used <- v2, network <- v3, landed <- v4, stashed <- v5, request <- v6, ledger <- v7,
  now <- v8, platformSeq <- v9, attempts <- v10, built <- v11, onboarded <- v12, history <- v13,
  Quorum <- <<"w1", "w2">>, Answers <- {"x1", "x2"}, MinConfidence <- 6, Confidences <- {5, 6}, Platform <- "platform",
  entry <- v1, provenanceHash <- v2, original <- v3, chain <- v4,
  Rated <- {"w1", "w2"}, Settlements <- {d1, d2, d3}, Rounds <- {<<{"w1"}, {}>>, <<{}, {"w2"}>>},
  MaxDay <- 2, DaysRetained <- 2, MaxKnown <- 2, Gate <- 1, Sharp <- 2,
  rep <- v1, known <- v2, activity <- v3, badges <- v4, today <- v5, lane <- v6, outcomes <- v7, raced <- v8,
  Asked <- {d1, d2}, Spenders <- {a1, a2}, Readers <- {"x"}, Prices <- {1, 2}, Topics <- {"c"}, Days <- {1, 2},
  StatsCacheTtl <- 1, LastMoment <- 1,
  jobOf <- v1, tracked <- v2, stage <- v3, stats <- v4, cache <- v5, reader <- v6, moment <- v7,
  Credited <- {w1, w2}, Questions <- {"q1", "q2"}, Drives <- {d1, d2}, Years <- {1},
  Matching <- [q1 |-> {w1, w2}, q2 |-> {w1}], Amount <- [q1 |-> 5, q2 |-> 4], StroopsPerCent <- 2, ThresholdCents <- 1,
  lists <- v1, profile <- v2, drive <- v3, torn <- v4
V == INSTANCE Verdict WITH Workers <- {d1, d2, d3, a1}, Texts <- MCTexts, Tolerances <- MCTolerances,
  Providers <- <<"claude", "openai">>, About <- wordAbout,
  rule <- v1, submissions <- v2, verdict <- v3
P == INSTANCE Pricing WITH TierKeys <- {"instant", "priority", "gold"}, Samples <- {4, 45},
  MaxSamples <- 5, Accounts <- {"a"},
  online <- v1, call <- v2, history <- v3
Cs == INSTANCE Collusion WITH Workers <- {"w1", "w2", "w3"}, Pairs <- MCPairs, Quorums <- {d1, d2}, Reviews <- {"v1"}, Start <- MCStart,
  Expected <- [p \in MCPairs |-> 50], SharedIp <- {}, Referring <- {<<"w1", "w2">>}, Rounds <- MCShortRounds,
  MinShared <- 5, FlagScore <- 600, SuspendScore <- 830,
  counters <- v1, linked <- v2, flag <- v3, suspended <- v4, task <- v5, observed <- v6, raced <- v7

From15 == v15 = None
From14 == v14 = None /\ From15
From13 == v13 = None /\ From14
From12 == v12 = None /\ From13
From11 == v11 = None /\ From12
From10 == v10 = None /\ From11
From9 == v9 = None /\ From10
From8 == v8 = None /\ From9
From7 == v7 = None /\ From8
From6 == v6 = None /\ From7
From5 == v5 = None /\ From6
From4 == v4 = None /\ From5

\* There is one team already, which a3 owns and perhaps others are in, and one
\* call has been answered.
Founded == /\ v7 \in BOOLEAN
           /\ \E m \in SUBSET {a1, a2} :
                /\ v1 = [t \in {"t1", "t2"} |-> IF t = "t2" THEN None ELSE
                          [x \in {a1, a2, a3} |-> IF x = a3 THEN "owner" ELSE IF x \in m THEN "member" ELSE None]]
                /\ v2 = [x \in {a1, a2, a3} |-> IF x \in m \cup {a3} THEN {"t1"} ELSE {}]
           /\ v3 = [x \in {a1, a2, a3} |-> None]
           /\ v4 = {"t1"} /\ v5 = {"t1"}
           /\ \E d \in {d1, d2, d3} : v6 = [c \in {d1, d2, d3} |-> IF c = d THEN Ac!T!Gone ELSE Ac!T!Idle]
           /\ v8 = {}

\* One webhook is registered already.
Registered == /\ v1 = [i \in {"i1", "i2"} |-> IF i = "i1" THEN [url |-> "named", active |-> TRUE] ELSE None]
              /\ v2 = {"i1"} /\ v3 = {"i1"}
              /\ v4 = [i \in {"i1", "i2"} |-> 0]
              /\ v5 = [e \in {d1, d2} |-> [at |-> "idle", id |-> None, url |-> None, ids |-> {}]]
              /\ v6 = [n \in {a1, a2} |-> [at |-> "idle", ids |-> {}, before |-> {}]]
              /\ v7 = [n \in {a1, a2} |-> [i \in {"i1", "i2"} |-> H!NoTask]]
              /\ v8 = {} /\ v9 = {}

\* A question is pending already whose payer never comes back.
Submitted == /\ v1 = 0 /\ v2 = <<"q2">> /\ v3 = {} /\ v4 = [q \in {"q1", "q2"} |-> 0]
             /\ v5 = [q \in {"q1", "q2"} |-> None] /\ v6 = {"q2"} /\ v15 = {}
             /\ v7 = [q \in {"q1", "q2"} |-> "no"] /\ v8 = 0 /\ v9 = "up" /\ v10 = H!Rc!Idle
             /\ v11 = {} /\ v12 = FALSE /\ v13 = {} /\ v14 = {}

Init ==
  focus \in Focuses /\ (
  \/ focus = "teams" /\ (Ac!T!Init \/ Founded) /\ From9
  \/ focus = "webhooks" /\ Registered /\ From10
  \/ focus = "referrals" /\ R!Init /\ From9
  \/ focus = "withdraw" /\ R!W!Init /\ From9
  \/ focus = "verdict" /\ V!Init /\ From4
  \/ focus = "windows" /\ Ac!Wi!Init /\ From4
  \/ focus = "pricing" /\ P!Init /\ From4
  \/ focus = "reputation" /\ R!Re!Init /\ From9
  \/ focus = "earnings" /\ R!Ea!Init /\ From5
  \/ focus = "indexes" /\ Ac!Ix!Init /\ From5
  \/ focus = "stores" /\ Ac!St!Init /\ From11
  \/ focus = "collusion" /\ H!Co!Init /\ From8
  \/ focus = "referred" /\ Cs!Init /\ From8
  \/ focus = "access" /\ Ac!A!Init /\ From14
  \/ focus = "recovery" /\ Submitted
  \/ focus = "jobs" /\ H!J!Init /\ From8
  \/ focus = "clients" /\ Ac!C!Init /\ From6
  \/ focus = "provenance" /\ R!Pr!Init /\ From5
  \/ focus = "gates" /\ Ac!G!Init /\ From5
  \/ focus = "relay" /\ R!Sp!Init /\ From14
  \/ focus = "onboard" /\ R!Sp!Init /\ From14
  \/ focus = "reports" /\ R!Rp!Init /\ From8
  \/ focus = "supply" /\ H!Su!Init /\ From12
  \/ focus = "probes" /\ H!Pb!Init)

Next == UNCHANGED focus /\ (
  \/ focus = "teams" /\ Ac!T!Next /\ UNCHANGED <<v9, v10, v11, v12, v13, v14, v15>>
  \/ focus = "webhooks" /\ H!Next /\ UNCHANGED <<v10, v11, v12, v13, v14, v15>>
  \/ focus = "referrals" /\ R!Next /\ UNCHANGED <<v9, v10, v11, v12, v13, v14, v15>>
  \/ focus = "withdraw" /\ R!W!Next /\ UNCHANGED <<v9, v10, v11, v12, v13, v14, v15>>
  \/ focus = "verdict" /\ V!Next /\ UNCHANGED <<v4, v5, v6, v7, v8, v9, v10, v11, v12, v13, v14, v15>>
  \/ focus = "windows" /\ Ac!Wi!Next /\ UNCHANGED <<v4, v5, v6, v7, v8, v9, v10, v11, v12, v13, v14, v15>>
  \/ focus = "pricing" /\ P!Next /\ UNCHANGED <<v4, v5, v6, v7, v8, v9, v10, v11, v12, v13, v14, v15>>
  \/ focus = "reputation" /\ R!Re!Next /\ UNCHANGED <<v9, v10, v11, v12, v13, v14, v15>>
  \/ focus = "earnings" /\ R!Ea!Next /\ UNCHANGED <<v5, v6, v7, v8, v9, v10, v11, v12, v13, v14, v15>>
  \/ focus = "indexes" /\ Ac!Ix!Next /\ UNCHANGED <<v5, v6, v7, v8, v9, v10, v11, v12, v13, v14, v15>>
  \/ focus = "stores" /\ Ac!St!Next /\ UNCHANGED <<v11, v12, v13, v14, v15>>
  \/ focus = "collusion" /\ H!Co!Next /\ UNCHANGED <<v8, v9, v10, v11, v12, v13, v14, v15>>
  \/ focus = "referred" /\ Cs!Next /\ UNCHANGED <<v8, v9, v10, v11, v12, v13, v14, v15>>
  \/ focus = "access" /\ Ac!A!Next /\ UNCHANGED <<v14, v15>>
  \/ focus = "recovery" /\ H!Rc!Next
  \/ focus = "jobs" /\ H!J!Next /\ UNCHANGED <<v8, v9, v10, v11, v12, v13, v14, v15>>
  \/ focus = "clients" /\ Ac!C!Next /\ UNCHANGED <<v6, v7, v8, v9, v10, v11, v12, v13, v14, v15>>
  \/ focus = "provenance" /\ R!Pr!Next /\ UNCHANGED <<v5, v6, v7, v8, v9, v10, v11, v12, v13, v14, v15>>
  \/ focus = "gates" /\ Ac!G!Next /\ UNCHANGED <<v5, v6, v7, v8, v9, v10, v11, v12, v13, v14, v15>>
  \/ focus = "relay" /\ R!Sp!RelayNext /\ UNCHANGED <<v14, v15>>
  \/ focus = "onboard" /\ R!Sp!OnboardNext /\ UNCHANGED <<v14, v15>>
  \/ focus = "reports" /\ R!Rp!Next /\ UNCHANGED <<v8, v9, v10, v11, v12, v13, v14, v15>>
  \/ focus = "supply" /\ H!Su!Next /\ UNCHANGED <<v12, v13, v14, v15>>
  \/ focus = "probes" /\ H!Pb!Next)

Spec == Init /\ [][Next]_vars

----------------------------------------------------------------------------
\* What the components ask of their constants.
ASSUME ComponentsAssumption ==
  /\ Ac!T!TeamsAssumption /\ H!WebhookAssumption /\ R!ReferralAssumption /\ R!W!WithdrawAssumption
  /\ Ac!Wi!WindowsAssumption /\ R!Ea!EarningsAssumption /\ Ac!Ix!IndexesAssumption /\ Ac!St!StoresAssumption
  /\ H!Su!SupplyAssumption /\ H!Co!CollusionAssumption /\ R!Pr!ProvenanceAssumption /\ Ac!C!ClientsAssumption /\ Ac!A!AccessAssumption /\ R!Sp!SponsorAssumption
  /\ H!J!JobsAssumption /\ H!Pb!ProbesAssumption /\ H!Rc!RecoveryAssumption /\ R!Re!ReputationAssumption /\ R!Rp!ReportsAssumption

\* However the requests about a team interleave, with stale copies of it written over each
\* other, it has exactly one owner; with the memory store, whose callers share one object,
\* unless a call of a former owner changed a role (teams.js, store.js).
TeamsHold == focus = "teams" => Ac!T!TeamsInv /\ Ac!T!OneOwner

\* A webhook its owner deleted before an event gets no delivery of it, and no attempt
\* goes to an address that is private when the connection is made (webhooks.js,
\* webhookDelivery.js).
WebhooksHold == focus = "webhooks" => H!WebhooksInv /\ H!DeletedGetsNoEvent /\ H!NeverToABlockedAddress

\* Concurrent redemptions and first payments use a code no more often than it allows,
\* reward a referral once, and leave an address one code (referrals.js).
ReferralsHold == focus = "referrals" => R!ReferralsInv /\ R!OneCodePerOwner

\* Money on its way out: one check at a time prepares a worker's withdrawal unless a
\* lease ran out (autoWithdraw.js); what the relay pays the fee of is what was signed, at
\* the price that was quoted, and goes to the earnings ledger once, if it landed
\* (sponsor.js, server.js); and the record a payout is derived from verifies, unless its
\* vote is of a kind the verifier does not know, against the chain exactly if what it
\* decided is what landed (provenance.js).
PayoutsHold ==
  /\ focus = "withdraw" => R!W!WithdrawInv /\ R!W!OnePreparer
  /\ focus = "relay" => R!Sp!RelayInv
  /\ focus = "provenance" => R!Pr!ProvenanceInv /\ R!Pr!RecordsVerify

\* While a review of a suspicious pair is open its workers stay suspended, and nobody is
\* for a score an operator has accepted (collusion.js); whatever changes while a question
\* is routed, it goes to nobody outside its pool, to nobody suspended while others are
\* fine, and to somebody if anybody is online (dispatch.js); and what is written of a
\* worker tells of every settlement, unless two of them crossed (dispatch.js,
\* workerAnalytics.js).
ScoresHold ==
  /\ focus = "collusion" => H!Co!CollusionInv /\ H!Co!ReviewStands
  /\ focus = "supply" => H!Su!PresenceInv /\ H!Su!PresenceAgrees /\ H!Su!RoutingInv
  /\ focus = "reputation" => R!Re!ReputationInv /\ R!Re!LostOnlyInARace

\* An address with a stored list is in the index, which is all that admins and exports go
\* by, unless a write crossed or failed (payerIndex.js, privatePools.js); the earnings
\* ledger has one credit of a question for a worker, and a worker with a credit is among
\* the year's earners, unless recordings crossed or failed (earnings.js); the totals count
\* settled paid questions only, each once, and no payer is shown a sandbox job (stats.js,
\* payerIndex.js); what operators are shown counts every indexed job that was in flight
\* throughout the scan, and one alert at most tells of each fall of a balance
\* (healthProbes.js, alerting.js).
IndexesHold ==
  /\ focus = "indexes" => Ac!Ix!IndexesInv /\ Ac!Ix!IndexedIfStored
  /\ focus = "earnings" => R!Ea!EarningsInv /\ R!Ea!LedgerHolds
  /\ focus = "reports" => R!Rp!ReportsInv /\ R!Rp!ReportsHold
  /\ focus = "probes" => H!Pb!ProbesInv /\ H!Pb!ProbesHold

\* In any window's length of time memory admits at most the limit of requests and Redis at
\* most twice as many, and either grants no more reservations in an hour than the budget
\* has cents (store.js, rateLimit.js); there are no more builds of an onboarding
\* transaction than its limit (sponsor.js), nor maintenance windows than may be
\* (maintenanceWindows.js).
LimitsHold ==
  /\ focus = "stores" => Ac!St!StoresInv
  /\ focus = "onboard" => R!Sp!OnboardInv
  /\ focus = "windows" => Ac!Wi!WindowsInv

\* A challenge is good for one session unless two answers to it overlapped, a revoked
\* session stays revoked, and a rotation that neither overlapped nor died leaves one key
\* (workerAuth.js, adminAuth.js); a canary handles only reads, and no injected fault
\* answers in production (canary.js, faultInjection.js, securityPosture.js).
SessionsHold ==
  /\ focus = "access" => Ac!A!AccessInv /\ Ac!A!AccessHolds
  /\ focus = "gates" => Ac!G!GatesInv /\ Ac!G!GatesHold

\* A snapshot of the pending questions that is held to be consistent misses none that was
\* pending throughout, unless others were submitted meanwhile, the sweep refunds no
\* question an instance is driving or has started to, unless the store was lost or its stash
\* expired meanwhile, and the drain counts what runs (disasterRecovery.js, canary.js); no
\* patch of a job is lost and it settles and is counted once unless writes crossed
\* (jobs.js).
SweepHolds ==
  /\ focus = "recovery" => H!Rc!RecoveryInv /\ H!Rc!RecoveryHolds
  /\ focus = "jobs" => H!J!JobsInv /\ H!J!JobsHold

\* Whatever the client libraries give up and send again, an ask is charged and a question
\* fulfilled at most once, and a client that was answered holds what the backend has
\* (sdk/, mcp-server/).
AskedOnce == focus = "clients" => Ac!C!ClientsInv /\ Ac!C!AskedOnce

\* No other answer had more backers than the verdict's (consensus.js, vote.js), more
\* workers never make a question dearer and a tuned timeout leaves half of the rounds time
\* to finish (pricing.js), the pause that callers are told ends where dispatch resumes
\* (maintenanceWindows.js), a worker's own rank is the place the leaderboard shows
\* (gamification.js), a referral between two workers counts against them
\* (collusion.js), the supply that callers are shown is that of its window (dispatch.js),
\* the credits of a question never exceed its price less the fee (earnings.js), and a
\* payer's spend is the same by category, by day and by member (payerIndex.js).
VerdictsHold ==
  /\ focus = "verdict" => V!VerdictIsTheLargestGroup
  /\ focus = "windows" => Ac!Wi!PauseIsTheUnion
  /\ focus = "pricing" => P!PricesAreMonotone /\ P!TunedTimeoutFitsMostRounds
  /\ focus = "reputation" => R!Re!RankIsThePlaceShown
  /\ focus = "referred" => Cs!CollusionInv /\ Cs!ReviewStands
  /\ focus = "supply" => H!Su!SupplyIsAveraged
  /\ focus = "earnings" => R!Ea!CreditsAddUp
  /\ focus = "reports" => R!Rp!SpendAddsUp

\* What no step takes back: a membership, but for its own removal; a badge or points, but
\* for settlements that overlapped; a fulfilment, when an instance leaves by its drain; a
\* settled job, when a review is queued.
RecordSteps ==
  [][/\ focus = "teams" => Ac!T!KeepsMemberships
     /\ focus = "reputation" => R!Re!KeepsWhatWasEarned
     /\ focus = "recovery" => H!Rc!DropsNothing
     /\ focus = "jobs" => H!J!StaysSettled]_vars
=============================================================================
