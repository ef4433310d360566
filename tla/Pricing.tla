------------------------------- MODULE Pricing -------------------------------
(***************************************************************************)
(* The price of a question (pricing.js) and what an API customer's call    *)
(* does with it (server.js, billing.js): reserve the most it may cost, ask *)
(* at the price of the moment, settle the difference.  Prices are in cents *)
(* and multipliers in percent, in which all of the code's are exact.       *)
(***************************************************************************)
EXTENDS Integers, Sequences, SequencesExt, FiniteSets

CONSTANTS TierKeys,         \* what clients send, known tiers or not
          Samples,          \* times to quorum that were recorded
          MaxSamples,       \* bound
          Accounts, None

VARIABLES online,           \* the smoothed number of workers online
          call,             \* per account: tier, what was reserved, the quote
          history           \* times to quorum of one category

vars == <<online, call, history>>

\* PRICING_TIERS and TIER_TIMEOUT_MS, in seconds.
PricingTiers ==
  [instant  |-> [quorumSize |-> 0, price |-> 5,  timeout |-> 45, jump |-> 100],
   standard |-> [quorumSize |-> 3, price |-> 25, timeout |-> 45, jump |-> 100],
   express  |-> [quorumSize |-> 2, price |-> 40, timeout |-> 12, jump |-> 100],
   priority |-> [quorumSize |-> 5, price |-> 60, timeout |-> 30, jump |-> 125]]

ResolveTier(key) == PricingTiers[IF key \in DOMAIN PricingTiers THEN key ELSE "standard"]

Round(a, b) == (2 * a + b) \div (2 * b)     \* Math.round(a / b)
Smaller(a, b) == IF a < b THEN a ELSE b
Bigger(a, b) == IF a > b THEN a ELSE b

MaxSurge == 200
SurgeMultiplier(tier, workers) ==
  LET comfortable == 3 * tier.quorumSize
  IN IF workers >= comfortable THEN 100 ELSE Round(200 * comfortable - 100 * workers, comfortable)

\* VOLUME_DISCOUNT_TIERS: from 1,000, 10,000 and 100,000 questions.
\* v counts hundreds of them.
VolumeDiscountMultiplier(v) ==
  CASE v < 10 -> 100 [] v \in 10..99 -> 90 [] v \in 100..999 -> 80 [] OTHER -> 70

\* In hundredths of a cent, so that a discount is exact, too.
PriceForTier(key, workers) ==
  LET tier == ResolveTier(key)
  IN Round(tier.price * SurgeMultiplier(tier, workers) * tier.jump, 100)

PriceWithVolumeDiscount(key, workers, v) ==
  Round(PriceForTier(key, workers) * VolumeDiscountMultiplier(v), 100)

\* A share of the ceiling for each worker that was recruited.
EffectiveEscalatedPrice(ceiling, maxQuorum, recruited) ==
  (ceiling * Smaller(Bigger(recruited, 1), maxQuorum)) \div maxQuorum

\* The median, padded by a quarter, once five samples are there.
TunedTimeout(key, samples) ==
  LET valid == SortSeq(SelectSeq(samples, LAMBDA n : n > 0), LAMBDA a, b : a < b)
      mid == Len(valid) \div 2
      twice == IF Len(valid) % 2 = 0 THEN valid[mid] + valid[mid + 1] ELSE 2 * valid[mid + 1]
  IN IF Len(valid) < 5 THEN ResolveTier(key).timeout ELSE Bigger(1, Round(5 * twice, 8))

----------------------------------------------------------------------------
Idle == [at |-> "idle", tier |-> None, reserved |-> 0, price |-> 0]
Init == /\ online \in 0..15 /\ call = [a \in Accounts |-> Idle] /\ history = <<>>

\* The most a call is expected to cost is reserved before it is priced.
ReserveCeiling(a, key) ==
  /\ call[a].at = "idle"
  /\ call' = [call EXCEPT ![a] = [at |-> "reserved", tier |-> key,
                                  reserved |-> ResolveTier(key).price * MaxSurge, price |-> 0]]
  /\ UNCHANGED <<online, history>>

\* askMetered() quotes at the supply of that moment and charges the pool.
Quote(a) ==
  /\ call[a].at = "reserved"
  /\ call' = [call EXCEPT ![a].at = "charged", ![a].price = PriceForTier(call[a].tier, online)]
  /\ UNCHANGED <<online, history>>

\* settleReservation() gives back what was not used.
Settle(a) ==
  /\ call[a].at = "charged" /\ call' = [call EXCEPT ![a] = Idle]
  /\ UNCHANGED <<online, history>>

WorkersComeAndGo == \E n \in {online - 1, online + 1} \cap 0..15 :
  online' = n /\ UNCHANGED <<call, history>>

RecordTimeToQuorum(s) ==
  /\ Len(history) < MaxSamples /\ history' = Append(history, s)
  /\ UNCHANGED <<online, call>>

Next == \/ WorkersComeAndGo \/ \E s \in Samples : RecordTimeToQuorum(s)
        \/ \E a \in Accounts : Quote(a) \/ Settle(a) \/ \E k \in TierKeys : ReserveCeiling(a, k)

Spec == Init /\ [][Next]_vars

----------------------------------------------------------------------------
\* The reservation covers the price that is charged afterwards, whatever the
\* supply does in between (server.js:371-375).
ReservationCoversThePrice == \A a \in Accounts : call[a].at = "charged" => call[a].price <= call[a].reserved

\* More workers never make a question dearer, nor does a longer custom; the
\* instant tier, which needs nobody, has one price.  An escalated question
\* costs more with each worker, and its ceiling with all of them.
PricesAreMonotone == \A k \in TierKeys :
  LET p == PriceForTier(k, online)
  IN /\ PriceForTier(k, online + 1) <= p /\ 100 * ResolveTier(k).price <= p
     /\ ResolveTier(k).quorumSize = 0 => p = 100 * ResolveTier(k).price
     /\ \A v \in {0, 9, 99, 999} : PriceWithVolumeDiscount(k, online, v + 1) <= PriceWithVolumeDiscount(k, online, v)
     /\ \A q \in {2, 5} : \A n \in 0..q :
          LET e == EffectiveEscalatedPrice(p, q, n)
          IN e <= EffectiveEscalatedPrice(p, q, n + 1) /\ e > 0 /\ (n >= q => e = p)

\* A tuned timeout leaves at least half of the recorded rounds time to finish.
TunedTimeoutFitsMostRounds == \A k \in TierKeys :
  LET t == TunedTimeout(k, history)
      slower == {i \in DOMAIN history : history[i] > t}
  IN t > 0 /\ (Len(history) >= 5 => 2 * Cardinality(slower) <= Len(history))
=============================================================================
