----------------------------- MODULE PayoutsProofs -----------------------------
(***************************************************************************)
(* Money on its way out, for any number of those who take part: referrals, *)
(* of which a code is used no more often than it may be, no use is lost, a *)
(* payer brings one reward and an address is told one code; automatic      *)
(* withdrawals, prepared by one check at a time; the relay, which pays the *)
(* fee of what was signed, at the price that was quoted, and for as many   *)
(* onboardings as it may; the provenance record, which verifies against    *)
(* what landed; what settlements leave of a worker's reputation; what is   *)
(* reported of the questions; and the earnings ledger.                     *)
(***************************************************************************)
EXTENDS Referrals, Sequences, FiniteSetTheorems, WellFoundedInduction, TLAPS

CONSTANTS Earners, Beneficiaries, Edits, Checks, Lanes, Thresholds, MaxOwed,      \* Withdraw
          Signers, Txs, Submissions, Amounts, Price, SubmitAttempts,              \* Sponsor
          OnboardWindow, OnboardMax, MaxTime, MaxPlatformTxs,
          Quorum, Answers, MinConfidence, Confidences, Platform,                  \* Provenance
          Rated, Settlements, Rounds, MaxDay, DaysRetained, MaxKnown, Gate, Sharp, \* Reputation
          Asked, Spenders, Readers, Prices, Topics, Days, StatsCacheTtl, LastMoment, \* Reports
          Credited, Questions, Drives, Years, Matching, Amount, StroopsPerCent, ThresholdCents \* Earnings

VARIABLES settings, pending, lock, index, owed, edit, check, outlived,            \* Withdraw
          tx, used, network, landed, stashed, request, ledger,                    \* Sponsor
          now, platformSeq, attempts, built, onboarded, history,
          entry, provenanceHash, original, chain,                                 \* Provenance
          rep, known, activity, badges, today, lane, outcomes, raced,             \* Reputation
          jobOf, tracked, stage, stats, cache, reader, moment,                    \* Reports
          lists, profile, drive, torn                                             \* Earnings

W == INSTANCE Withdraw WITH Workers <- Earners
Sp == INSTANCE Sponsor WITH Requests <- Submissions
Pr == INSTANCE Provenance
Re == INSTANCE Reputation WITH Workers <- Rated
Rp == INSTANCE Reports WITH Jobs <- Asked, Payers <- Spenders, Amounts <- Prices, Categories <- Topics,
                            MaxTime <- LastMoment, job <- jobOf, now <- moment
Ea == INSTANCE Earnings WITH Workers <- Credited

\* The sets that are counted.
Kept(k) == {w \in Workers : redeemed[w] = k}
Holding(k) == {r \in Requests : req[r].code = k /\ req[r].at \in {"attach", "return"}}
Brought(w) == {p \in Payers : payerOf[p] = w}
Owing(w) == {r \in Requests : req[r].at = "credit" /\ owner[req[r].code] = w}

\* What a step of a request leaves of the others, and what it makes of its own.
Moved(r) == /\ req' \in [Requests -> ReqRecords]
            /\ \A s \in Requests : s # r => req'[s] = req[s]
Sound(r) == LET x == req'[r] IN
  /\ x.at \in Minting => x.who \in Workers /\ x.left > 0 /\ x.answer = None
  /\ x.at # "claim"
  /\ x.at = "discard" => req[r].at = "claim" /\ x.code = req[r].code /\ x.who = req[r].who
  /\ x.at \in Redeeming \cup Paying => x.code \in Codes /\ Standing(x.code)
  /\ x.at \in Redeeming => x.who \in Workers
  /\ x.at \in Paying => x.who \in Payers
  /\ x.at = "answered" /\ x.answer # None => Standing(x.answer)
Steps == {"idle", "answered"} \cup Minting \cup Redeeming \cup Paying

-----------------------------------------------------------------------------
(* Counting *)

LEMMA SetsAreFinite ==
  ASSUME ReferralAssumption
  PROVE  /\ Cardinality(Requests) \in Nat
         /\ \A k : /\ IsFiniteSet(Kept(k)) /\ Cardinality(Kept(k)) \in Nat
                   /\ IsFiniteSet(Holding(k)) /\ Cardinality(Holding(k)) \in Nat
                   /\ IsFiniteSet(Granted(k)) /\ Cardinality(Granted(k)) \in Nat
                   /\ Cardinality(Granted(k)) <= Cardinality(Holding(k))
                   /\ Cardinality(Holding(k)) <= Cardinality(Requests)
         /\ \A w : /\ IsFiniteSet(Brought(w)) /\ Cardinality(Brought(w)) \in Nat
                   /\ IsFiniteSet(Owing(w)) /\ Cardinality(Owing(w)) \in Nat
<1>1. IsFiniteSet(Requests) /\ IsFiniteSet(Workers) /\ IsFiniteSet(Payers)
  BY DEF ReferralAssumption
<1>2. ASSUME NEW S, NEW U, IsFiniteSet(U), S \subseteq U
      PROVE  IsFiniteSet(S) /\ Cardinality(S) \in Nat /\ Cardinality(S) <= Cardinality(U)
  BY <1>2, FS_Subset, FS_CardinalityType
<1>3. \A k : Kept(k) \subseteq Workers
  BY DEF Kept
<1>4. \A k : Holding(k) \subseteq Requests
  BY DEF Holding
<1>5. \A k : Granted(k) \subseteq Holding(k)
  BY DEF Granted, Holding
<1>6. \A w : Brought(w) \subseteq Payers
  BY DEF Brought
<1>7. \A w : Owing(w) \subseteq Requests
  BY DEF Owing
<1>8. Cardinality(Requests) \in Nat
  BY <1>1, FS_CardinalityType
<1>9. \A k : /\ IsFiniteSet(Holding(k)) /\ Cardinality(Holding(k)) \in Nat
             /\ Cardinality(Holding(k)) <= Cardinality(Requests)
  BY <1>1, <1>2, <1>4
<1>10. \A k : /\ IsFiniteSet(Granted(k)) /\ Cardinality(Granted(k)) \in Nat
              /\ Cardinality(Granted(k)) <= Cardinality(Holding(k))
  BY <1>2, <1>5, <1>9
<1>11. \A k : IsFiniteSet(Kept(k)) /\ Cardinality(Kept(k)) \in Nat
  BY <1>1, <1>2, <1>3
<1>12. \A w : IsFiniteSet(Brought(w)) /\ Cardinality(Brought(w)) \in Nat
  BY <1>1, <1>2, <1>6
<1>13. \A w : IsFiniteSet(Owing(w)) /\ Cardinality(Owing(w)) \in Nat
  BY <1>1, <1>2, <1>7
<1> QED
  BY <1>8, <1>9, <1>10, <1>11, <1>12, <1>13

\* The counted properties, in these names.
LEMMA InTheseNames ==
  /\ UsesAreAccounted <=> \A k \in Codes :
       /\ uses[k] = Cardinality(Kept(k)) + Cardinality(Holding(k))
       /\ Cardinality(Kept(k)) <= MaxUses
  /\ LimitHolds <=> \A k \in Codes : Cardinality(Kept(k)) + Cardinality(Granted(k)) <= MaxUses
  /\ CreditedOnce <=> \A w \in Workers :
       earned[w] + Reward * Cardinality(Owing(w)) = Reward * Cardinality(Brought(w))
  BY DEF UsesAreAccounted, LimitHolds, CreditedOnce, Kept, Holding, Brought, Owing

\* A set that gains or loses one element.
LEMMA Gains ==
  ASSUME NEW S, NEW T, NEW x, IsFiniteSet(S), x \notin S, T = S \cup {x}
  PROVE  Cardinality(T) = Cardinality(S) + 1
  BY FS_AddElement

LEMMA Loses ==
  ASSUME NEW S, NEW T, NEW x, IsFiniteSet(S), x \in S, T = S \ {x}
  PROVE  Cardinality(T) = Cardinality(S) - 1
  BY FS_RemoveElement

-----------------------------------------------------------------------------
(* The ways a request moves *)

LEMMA ToMoves ==
  ASSUME TypeOK, NEW r \in Requests, NEW step \in Steps, To(r, step)
  PROVE  /\ Moved(r) /\ req[r] \in ReqRecords
         /\ req'[r].at = step /\ req'[r].who = req[r].who /\ req'[r].code = req[r].code
         /\ req'[r].left = req[r].left /\ req'[r].read = req[r].read
         /\ req'[r].answer = req[r].answer
<1> DEFINE x == [req[r] EXCEPT !.at = step]
<1>1. req \in [Requests -> ReqRecords] /\ req[r] \in ReqRecords
  BY DEF TypeOK
<1>2. req' = [req EXCEPT ![r] = x]
  BY <1>1 DEF To
<1>3. /\ x \in ReqRecords /\ x.at = step /\ x.who = req[r].who /\ x.code = req[r].code
      /\ x.left = req[r].left /\ x.read = req[r].read /\ x.answer = req[r].answer
  BY <1>1 DEF ReqRecords, Steps
<1> HIDE DEF x
<1> QED
  BY <1>1, <1>2, <1>3 DEF Moved

LEMMA EndMoves ==
  ASSUME TypeOK, NEW r \in Requests, NEW answer \in Codes \cup {None}, End(r, answer)
  PROVE  /\ Moved(r) /\ req[r] \in ReqRecords
         /\ req'[r].at = "answered" /\ req'[r].code = req[r].code /\ req'[r].answer = answer
<1> DEFINE x == [req[r] EXCEPT !.at = "answered", !.answer = answer]
<1>1. req \in [Requests -> ReqRecords] /\ req[r] \in ReqRecords
  BY DEF TypeOK
<1>2. req' = [req EXCEPT ![r] = x]
  BY <1>1 DEF End
<1>3. x \in ReqRecords /\ x.at = "answered" /\ x.code = req[r].code /\ x.answer = answer
  BY <1>1 DEF ReqRecords
<1> HIDE DEF x
<1> QED
  BY <1>1, <1>2, <1>3 DEF Moved

LEMMA StartMoves ==
  ASSUME ReferralAssumption, TypeOK, NEW r \in Requests, NEW step \in Steps,
         NEW who \in Workers \cup Payers, NEW code \in Codes \cup {None}, Start(r, step, who, code)
  PROVE  /\ Moved(r) /\ req[r].at = "idle" /\ UNCHANGED stored
         /\ req'[r].at = step /\ req'[r].who = who /\ req'[r].code = code
         /\ req'[r].left > 0 /\ req'[r].answer = None
<1> DEFINE x == [Idle EXCEPT !.at = step, !.who = who, !.code = code]
<1>1. req \in [Requests -> ReqRecords]
  BY DEF TypeOK
<1>2. req' = [req EXCEPT ![r] = x] /\ req[r].at = "idle" /\ UNCHANGED stored
  BY <1>1 DEF Start
<1>3. /\ Idle \in ReqRecords /\ Idle.left = Attempts /\ Idle.answer = None
      /\ Attempts > 0
  BY DEF Idle, ReqRecords, ReferralAssumption
<1>4. /\ x \in ReqRecords /\ x.at = step /\ x.who = who /\ x.code = code
      /\ x.left > 0 /\ x.answer = None
  BY <1>3 DEF ReqRecords, Steps
<1> HIDE DEF x
<1> QED
  BY <1>1, <1>2, <1>4 DEF Moved

-----------------------------------------------------------------------------
(* What a step that leaves a part of the stores alone keeps *)

LEMMA CodesKept ==
  ASSUME ReferralAssumption, ReferralsInv, NEW r \in Requests, Moved(r), Sound(r),
         UNCHANGED <<owner, codeOf>>
  PROVE  CodesHold' /\ RequestsHold'
<1>1. CodesHold /\ RequestsHold
  BY DEF ReferralsInv
<1>2. \A k : Standing(k)' = Standing(k)
  BY DEF Standing
<1>3. CodesHold'
  <2>1. ASSUME NEW s \in Requests, req'[s].at = "answered", req'[s].answer # None
        PROVE  Standing(req'[s].answer)
    BY <1>1, <2>1 DEF CodesHold, Moved, Sound
  <2>2. \A s \in Requests : req'[s].at = "answered" /\ req'[s].answer # None =>
          owner'[req'[s].answer] # None /\ codeOf'[owner'[req'[s].answer]] = req'[s].answer
    BY <2>1 DEF Standing
  <2>3. \A w \in Workers : codeOf'[w] # None => owner'[codeOf'[w]] = w
    BY <1>1 DEF CodesHold
  <2> QED
    BY <2>2, <2>3 DEF CodesHold, Standing
<1>4. RequestsHold'
  <2> SUFFICES ASSUME NEW s \in Requests
               PROVE  LET x == req'[s] IN
                      /\ x.at \in Minting => x.who \in Workers /\ x.left > 0 /\ x.answer = None
                      /\ x.at \in {"claim", "discard"} =>
                           /\ x.code \in Codes /\ owner[x.code] = x.who
                           /\ codeOf[x.who] # x.code
                           /\ \A t \in Requests \ {s} :
                                req'[t].at \in {"claim", "discard"} => req'[t].code # x.code
                      /\ x.at \in Redeeming \cup Paying => x.code \in Codes /\ Standing(x.code)
                      /\ x.at \in Redeeming => x.who \in Workers
                      /\ x.at \in Paying => x.who \in Payers
    BY <1>2 DEF RequestsHold
  <2>1. \A t \in Requests : req'[t].at \in {"claim", "discard"} =>
          req[t].at \in {"claim", "discard"} /\ req'[t].code = req[t].code /\ req'[t].who = req[t].who
    BY DEF Moved, Sound
  <2>2. req'[s].at \in {"claim", "discard"} =>
          /\ req'[s].code \in Codes /\ owner[req'[s].code] = req'[s].who
          /\ codeOf[req'[s].who] # req'[s].code
          /\ \A t \in Requests \ {s} :
               req'[t].at \in {"claim", "discard"} => req'[t].code # req'[s].code
    BY <1>1, <2>1 DEF RequestsHold
  <2>3. CASE s = r
    BY <2>2, <2>3 DEF Sound
  <2>4. CASE s # r
    <3>1. req'[s] = req[s]
      BY <2>4 DEF Moved
    <3> QED
      BY <1>1, <2>2, <3>1 DEF RequestsHold
  <2> QED
    BY <2>3, <2>4
<1> QED
  BY <1>3, <1>4

LEMMA UsesKept ==
  ASSUME ReferralAssumption, ReferralsInv, NEW r \in Requests, Moved(r),
         UNCHANGED <<uses, redeemed>>,
         req[r].at \notin {"attach", "return"}, req'[r].at \notin {"attach", "return"}
  PROVE  UsesAreAccounted' /\ LimitHolds'
<1>1. \A k : Kept(k)' = Kept(k) /\ Holding(k)' = Holding(k) /\ Granted(k)' = Granted(k)
  <2> SUFFICES ASSUME NEW k
               PROVE  Kept(k)' = Kept(k) /\ Holding(k)' = Holding(k) /\ Granted(k)' = Granted(k)
    OBVIOUS
  <2> QED
    BY DEF Kept, Holding, Granted, Moved
<1>2. UsesAreAccounted /\ LimitHolds
  BY DEF ReferralsInv
<1>3. \A k \in Codes :
        /\ uses'[k] = Cardinality(Kept(k)') + Cardinality(Holding(k)')
        /\ Cardinality(Kept(k)') <= MaxUses
        /\ Cardinality(Kept(k)') + Cardinality(Granted(k)') <= MaxUses
  BY <1>1, <1>2, InTheseNames
<1> QED
  BY <1>3 DEF UsesAreAccounted, LimitHolds, Kept, Holding

LEMMA CreditsKept ==
  ASSUME ReferralAssumption, ReferralsInv, NEW r \in Requests, Moved(r),
         UNCHANGED <<payerOf, earned>>, req[r].at # "credit", req'[r].at # "credit",
         \A k \in Codes : Standing(k) => owner'[k] = owner[k]
  PROVE  CreditedOnce'
<1>1. \A s \in Requests : req[s].at = "credit" => owner'[req[s].code] = owner[req[s].code]
  BY DEF ReferralsInv, RequestsHold, Paying
<1>2. \A w : Brought(w)' = Brought(w) /\ Owing(w)' = Owing(w)
  <2> SUFFICES ASSUME NEW w
               PROVE  Brought(w)' = Brought(w) /\ Owing(w)' = Owing(w)
    OBVIOUS
  <2> QED
    BY <1>1 DEF Brought, Owing, Moved
<1>3. \A w \in Workers :
        earned'[w] + Reward * Cardinality(Owing(w)') = Reward * Cardinality(Brought(w)')
  BY <1>2, InTheseNames DEF ReferralsInv
<1> QED
  BY <1>3 DEF CreditedOnce, Brought, Owing

\* The bound on the uses follows from what they are.
LEMMA TypeKept ==
  ASSUME ReferralAssumption, ReferralsInv, NEW r \in Requests, Moved(r),
         UsesAreAccounted', LimitHolds',
         owner' \in [Codes -> Workers \cup {None}], codeOf' \in [Workers -> Codes \cup {None}],
         uses' \in [Codes -> Int], redeemed' \in [Workers -> Codes \cup {None}],
         payerOf' \in [Payers -> Workers \cup {None}], referees' \in [Workers -> SUBSET Workers],
         earned' \in [Workers -> Nat]
  PROVE  TypeOK'
<1>1. \A k \in Codes : uses'[k] \in 0..MaxUses + Cardinality(Requests)
  <2> SUFFICES ASSUME NEW k \in Codes
               PROVE  uses'[k] \in 0..MaxUses + Cardinality(Requests)
    OBVIOUS
  <2>1. uses'[k] = Cardinality(Kept(k)') + Cardinality(Holding(k)') /\ Cardinality(Kept(k)') <= MaxUses
    BY DEF UsesAreAccounted, Kept, Holding
  <2>2. Holding(k)' \subseteq Requests /\ Kept(k)' \subseteq Workers
    BY DEF Holding, Kept
  <2>3. /\ Cardinality(Holding(k)') \in Nat /\ Cardinality(Holding(k)') <= Cardinality(Requests)
        /\ Cardinality(Kept(k)') \in Nat /\ Cardinality(Requests) \in Nat
    BY <2>2, FS_Subset, FS_CardinalityType DEF ReferralAssumption
  <2> QED
    BY <2>1, <2>3 DEF ReferralAssumption
<1>2. uses' \in [Codes -> 0..MaxUses + Cardinality(Requests)]
  BY <1>1
<1> QED
  BY <1>2 DEF TypeOK, Moved

-----------------------------------------------------------------------------
(* Steps *)

\* Those that read, decide or answer, and write none of the stores that count.
LEMMA QuietKeeps ==
  ASSUME ReferralAssumption, ReferralsInv, NEW r \in Requests,
         \/ Owned(r) \/ MayRedeem(r) \/ ReadList(r) \/ PushBounded(r) \/ Attributable(r)
         \/ \E w \in Workers : Mint(r, w) \/ \E k \in Codes : Redeem(r, w, k)
         \/ \E p \in Payers, k \in Codes : FirstPayment(r, p, k)
  PROVE  ReferralsInv'
<1> DEFINE Quiet == /\ Moved(r) /\ Sound(r) /\ UNCHANGED <<owner, codeOf, uses, redeemed, payerOf, earned>>
                    /\ referees' \in [Workers -> SUBSET Workers]
                    /\ req[r].at \notin {"attach", "return", "credit"}
                    /\ req'[r].at \notin {"attach", "return", "credit"}
<1>1. /\ TypeOK /\ CodesHold /\ RequestsHold /\ req[r] \in ReqRecords
      /\ referees \in [Workers -> SUBSET Workers]
  BY DEF ReferralsInv, TypeOK
<1> DEFINE x == req'[r]
<1>2. {"idle", "mint", "own?", "redeem", "reserve", "push", "pay", "attribute", "answered"} \subseteq Steps
  BY DEF Steps, Minting, Redeeming, Paying
<1>11. ASSUME Quiet
      PROVE  ReferralsInv'
  <2>1. UsesAreAccounted' /\ LimitHolds'
    BY <1>11, UsesKept
  <2>2. CreditedOnce'
    BY <1>11, CreditsKept
  <2>3. CodesHold' /\ RequestsHold'
    BY <1>11, CodesKept
  <2>4. TypeOK'
    BY <1>1, <1>11, <2>1, TypeKept DEF TypeOK
  <2> QED
    BY <2>1, <2>2, <2>3, <2>4 DEF ReferralsInv
<1> SUFFICES Quiet
  BY <1>11
<1>3. CASE Owned(r)
  <2>1. /\ req[r].at = "own?" /\ req[r].who \in Workers /\ req[r].left > 0
        /\ req[r].answer = None /\ UNCHANGED stored
    BY <1>1, <1>3 DEF Owned, RequestsHold, Minting
  <2>2. CASE codeOf[req[r].who] # None
    <3>1. End(r, codeOf[req[r].who]) /\ codeOf[req[r].who] \in Codes
      BY <1>1, <1>3, <2>1, <2>2 DEF Owned, TypeOK
    <3>2. Standing(codeOf[req[r].who])
      BY <1>1, <2>1, <2>2 DEF CodesHold, Standing, ReferralAssumption
    <3>3. Moved(r) /\ x.at = "answered" /\ x.answer = codeOf[req[r].who]
      BY <1>1, <3>1, EndMoves
    <3>4. Sound(r)
      BY <3>2, <3>3 DEF Sound, Minting, Redeeming, Paying
    <3> QED
      BY <1>1, <2>1, <3>3, <3>4 DEF stored
  <2>3. CASE codeOf[req[r].who] = None
    <3>1. To(r, "mint")
      BY <1>3, <2>3 DEF Owned
    <3>2. /\ Moved(r) /\ x.at = "mint" /\ x.who = req[r].who /\ x.left = req[r].left
          /\ x.answer = req[r].answer
      BY <1>1, <1>2, <3>1, ToMoves
    <3>3. Sound(r)
      BY <2>1, <3>2 DEF Sound, Minting, Redeeming, Paying
    <3> QED
      BY <1>1, <2>1, <3>2, <3>3 DEF stored
  <2> QED
    BY <2>2, <2>3
<1>4. CASE MayRedeem(r) \/ Attributable(r)
  <2>1. /\ req[r].at \in {"redeem", "pay"} /\ UNCHANGED stored
        /\ req[r].code \in Codes /\ Standing(req[r].code)
        /\ req[r].at = "redeem" => req[r].who \in Workers
        /\ req[r].at = "pay" => req[r].who \in Payers
    BY <1>1, <1>4 DEF MayRedeem, Attributable, RequestsHold, Redeeming, Paying
  <2>2. CASE End(r, None)
    <3>1. Moved(r) /\ x.at = "answered" /\ x.answer = None
      BY <1>1, <2>2, EndMoves
    <3>2. Sound(r)
      BY <3>1 DEF Sound, Minting, Redeeming, Paying
    <3> QED
      BY <1>1, <2>1, <3>1, <3>2 DEF stored
  <2>3. CASE To(r, "reserve") /\ req[r].at = "redeem"
    <3>1. Moved(r) /\ x.at = "reserve" /\ x.who = req[r].who /\ x.code = req[r].code
      BY <1>1, <1>2, <2>3, ToMoves
    <3>2. Sound(r)
      BY <2>1, <2>3, <3>1 DEF Sound, Minting, Redeeming, Paying
    <3> QED
      BY <1>1, <2>1, <3>1, <3>2 DEF stored
  <2>4. CASE To(r, "attribute") /\ req[r].at = "pay"
    <3>1. Moved(r) /\ x.at = "attribute" /\ x.who = req[r].who /\ x.code = req[r].code
      BY <1>1, <1>2, <2>4, ToMoves
    <3>2. Sound(r)
      BY <2>1, <2>4, <3>1 DEF Sound, Minting, Redeeming, Paying
    <3> QED
      BY <1>1, <2>1, <3>1, <3>2 DEF stored
  <2> QED
    BY <1>4, <2>2, <2>3, <2>4 DEF MayRedeem, Attributable
<1>5. CASE ReadList(r)
  <2> DEFINE new == [req[r] EXCEPT !.at = "push", !.read = referees[owner[req[r].code]]]
  <2>1. /\ req[r].at = "list" /\ req[r].code \in Codes /\ Standing(req[r].code)
        /\ req[r].who \in Workers /\ UNCHANGED stored
    BY <1>1, <1>5 DEF ReadList, RequestsHold, Redeeming
  <2>2. referees[owner[req[r].code]] \in SUBSET Workers
    BY <1>1, <2>1 DEF TypeOK, Standing
  <2>3. new \in ReqRecords /\ new.at = "push" /\ new.who = req[r].who /\ new.code = req[r].code
    BY <1>1, <2>2 DEF ReqRecords, Redeeming
  <2>4. req' = [req EXCEPT ![r] = new]
    BY <1>1, <1>5 DEF ReadList, TypeOK
  <2> HIDE DEF new
  <2>5. Moved(r) /\ x = new
    BY <1>1, <2>3, <2>4 DEF Moved, TypeOK
  <2>6. Sound(r)
    BY <2>1, <2>3, <2>5 DEF Sound, Minting, Redeeming, Paying
  <2> QED
    BY <1>1, <2>1, <2>3, <2>5, <2>6 DEF stored
<1>6. CASE PushBounded(r)
  <2>1. /\ req[r].at = "push" /\ req[r].code \in Codes /\ Standing(req[r].code)
        /\ req[r].who \in Workers /\ End(r, req[r].code)
        /\ UNCHANGED <<owner, codeOf, uses, redeemed, payerOf, earned>>
    BY <1>1, <1>6 DEF PushBounded, RequestsHold, Redeeming
  <2>2. req[r].read \cup {req[r].who} \in SUBSET Workers
    BY <1>1, <2>1 DEF ReqRecords
  <2>3. referees' \in [Workers -> SUBSET Workers]
    BY <1>1, <1>6, <2>2 DEF PushBounded, TypeOK
  <2>4. Moved(r) /\ x.at = "answered" /\ x.answer = req[r].code
    BY <1>1, <2>1, EndMoves
  <2>5. Sound(r)
    BY <2>1, <2>4 DEF Sound, Minting, Redeeming, Paying
  <2> QED
    BY <2>1, <2>3, <2>4, <2>5
<1>7. CASE \E w \in Workers : Mint(r, w)
  <2> PICK w \in Workers : Start(r, "own?", w, None)
    BY <1>7 DEF Mint
  <2>1. /\ Moved(r) /\ req[r].at = "idle" /\ UNCHANGED stored
        /\ x.at = "own?" /\ x.who = w /\ x.left > 0 /\ x.answer = None
    BY <1>1, <1>2, StartMoves
  <2>2. Sound(r)
    BY <2>1 DEF Sound, Minting, Redeeming, Paying
  <2> QED
    BY <1>1, <2>1, <2>2 DEF stored
<1>8. ASSUME NEW k \in Codes, Shared(k)
      PROVE  Standing(k)
  BY <1>1, <1>8 DEF Shared, CodesHold, ReferralAssumption
<1>9. CASE \E w \in Workers, k \in Codes : Redeem(r, w, k)
  <2> PICK w \in Workers, k \in Codes : Shared(k) /\ Start(r, "redeem", w, k)
    BY <1>9 DEF Redeem
  <2>1. /\ Moved(r) /\ req[r].at = "idle" /\ UNCHANGED stored
        /\ x.at = "redeem" /\ x.who = w /\ x.code = k
    BY <1>1, <1>2, StartMoves
  <2>2. Sound(r)
    BY <1>8, <2>1 DEF Sound, Minting, Redeeming, Paying
  <2> QED
    BY <1>1, <2>1, <2>2 DEF stored
<1>10. CASE \E p \in Payers, k \in Codes : FirstPayment(r, p, k)
  <2> PICK p \in Payers, k \in Codes : Shared(k) /\ Start(r, "pay", p, k)
    BY <1>10 DEF FirstPayment
  <2>1. /\ Moved(r) /\ req[r].at = "idle" /\ UNCHANGED stored
        /\ x.at = "pay" /\ x.who = p /\ x.code = k
    BY <1>1, <1>2, StartMoves
  <2>2. Sound(r)
    BY <1>8, <2>1 DEF Sound, Minting, Redeeming, Paying
  <2> QED
    BY <1>1, <2>1, <2>2 DEF stored
<1> QED
  BY <1>3, <1>4, <1>5, <1>6, <1>7, <1>9, <1>10

\* A request at the codes, beside which the others' codes stand as before.
LEMMA RequestsKept ==
  ASSUME RequestsHold, NEW r \in Requests, Moved(r), req'[r].at \in Minting \cup {"answered"},
         \A i \in Codes : Standing(i) => owner'[i] # None /\ codeOf'[owner'[i]] = i,
         \A s \in Requests \ {r} : req[s].at \in {"claim", "discard"} =>
           owner'[req[s].code] = req[s].who /\ codeOf'[req[s].who] # req[s].code,
         req'[r].at \in {"claim", "discard"} =>
           /\ req'[r].code \in Codes /\ owner'[req'[r].code] = req'[r].who
           /\ codeOf'[req'[r].who] # req'[r].code
           /\ \A s \in Requests \ {r} :
                req[s].at \in {"claim", "discard"} => req[s].code # req'[r].code,
         req'[r].at \in Minting => req'[r].who \in Workers /\ req'[r].left > 0 /\ req'[r].answer = None
  PROVE  RequestsHold'
<1> SUFFICES ASSUME NEW s \in Requests
             PROVE  LET y == req'[s] IN
                    /\ y.at \in Minting => y.who \in Workers /\ y.left > 0 /\ y.answer = None
                    /\ y.at \in {"claim", "discard"} =>
                         /\ y.code \in Codes /\ owner'[y.code] = y.who
                         /\ codeOf'[y.who] # y.code
                         /\ \A t \in Requests \ {s} :
                              req'[t].at \in {"claim", "discard"} => req'[t].code # y.code
                    /\ y.at \in Redeeming \cup Paying =>
                         y.code \in Codes /\ owner'[y.code] # None /\ codeOf'[owner'[y.code]] = y.code
                    /\ y.at \in Redeeming => y.who \in Workers
                    /\ y.at \in Paying => y.who \in Payers
  BY DEF RequestsHold, Standing
<1>1. \A t \in Requests : t # r => req'[t] = req[t]
  BY DEF Moved
<1>2. CASE s = r
  <2>1. req'[r].at \notin Redeeming \cup Paying
    BY DEF Minting, Redeeming, Paying
  <2> QED
    BY <1>1, <1>2, <2>1
<1>3. CASE s # r
  BY <1>1, <1>3 DEF RequestsHold
<1> QED
  BY <1>2, <1>3

\* Those that claim and release codes.  A code that is released was nobody's.
LEMMA CodesKeep ==
  ASSUME ReferralAssumption, ReferralsInv, NEW r \in Requests,
         ClaimOwner(r) \/ Discard(r) \/ \E k \in Codes : ClaimCode(r, k)
  PROVE  ReferralsInv'
<1> DEFINE x == req'[r]
           j == req[r].code
           v == req[r].who
<1>1. /\ TypeOK /\ CodesHold /\ RequestsHold /\ req[r] \in ReqRecords
      /\ owner \in [Codes -> Workers \cup {None}] /\ codeOf \in [Workers -> Codes \cup {None}]
  BY DEF ReferralsInv, TypeOK
<1>2. {"mint", "own?", "discard", "claim", "answered"} \subseteq Steps
  BY DEF Steps, Minting
<1>3. /\ req[r].at \in {"mint", "claim", "discard"} /\ v \in Workers /\ req[r].left > 0
      /\ req[r].answer = None /\ UNCHANGED <<uses, redeemed, referees, payerOf, earned>>
      /\ req[r].at \in {"claim", "discard"} =>
           /\ j \in Codes /\ owner[j] = v /\ codeOf[v] # j
           /\ \A s \in Requests \ {r} : req[s].at \in {"claim", "discard"} => req[s].code # j
  BY <1>1 DEF ClaimOwner, Discard, ClaimCode, RequestsHold, Minting
\* It is enough that the codes keep, and that the request moved on among them.
<1>4. ASSUME Moved(r), CodesHold', RequestsHold', x.at \in Minting \cup {"answered"},
             owner' \in [Codes -> Workers \cup {None}], codeOf' \in [Workers -> Codes \cup {None}],
             \A k \in Codes : Standing(k) => owner'[k] = owner[k]
      PROVE  ReferralsInv'
  <2>1. /\ req[r].at \notin {"attach", "return", "credit"}
        /\ x.at \notin {"attach", "return", "credit"}
    BY <1>3, <1>4 DEF Minting
  <2>2. UsesAreAccounted' /\ LimitHolds'
    BY <1>3, <1>4, <2>1, UsesKept
  <2>3. CreditedOnce'
    BY <1>3, <1>4, <2>1, CreditsKept
  <2>4. TypeOK'
    BY <1>1, <1>3, <1>4, <2>2, TypeKept DEF TypeOK
  <2> QED
    BY <1>4, <2>2, <2>3, <2>4 DEF ReferralsInv
<1>5. ASSUME Moved(r), Sound(r), UNCHANGED <<owner, codeOf>>, x.at \in Minting \cup {"answered"}
      PROVE  ReferralsInv'
  BY <1>1, <1>4, <1>5, CodesKept
\* A request that is not the one that moved.
<1>6. ASSUME Moved(r), NEW s \in Requests, s # r
      PROVE  req'[s] = req[s] /\ req[s] \in ReqRecords
  BY <1>1, <1>6 DEF Moved, TypeOK
<1>7. CASE \E k \in Codes : ClaimCode(r, k)
  <2> PICK k \in Codes : ClaimCode(r, k)
    BY <1>7
  <2>1. CASE owner[k] # None
    <3> DEFINE new == [req[r] EXCEPT !.left = req[r].left - 1,
                                     !.at = IF req[r].left > 1 THEN "mint" ELSE "answered"]
    <3>1. req' = [req EXCEPT ![r] = new] /\ UNCHANGED <<owner, codeOf>>
      BY <1>1, <2>1 DEF ClaimCode, SetNX, TypeOK
    <3>2. req[r].left \in 0..Attempts /\ req[r].left - 1 \in 0..Attempts
      <4>1. req[r].left \in 0..Attempts /\ req[r].left > 0
        BY <1>1, <1>3 DEF ReqRecords
      <4> QED
        BY <4>1 DEF ReferralAssumption
    <3>3. /\ new \in ReqRecords /\ new.who = v /\ new.answer = None
          /\ new.at = "answered" \/ (new.at = "mint" /\ new.left > 0)
      <4> DEFINE step == IF req[r].left > 1 THEN "mint" ELSE "answered"
                 left == req[r].left - 1
      <4>1. /\ step = "answered" \/ (step = "mint" /\ left > 0)
            /\ left \in 0..Attempts
        BY <3>2
      <4>2. new = [req[r] EXCEPT !.left = left, !.at = step]
        OBVIOUS
      <4> HIDE DEF step, left, new
      <4>3. /\ new \in ReqRecords /\ new.who = v /\ new.answer = None
            /\ new.at = step /\ new.left = left
        BY <1>1, <1>3, <4>1, <4>2 DEF ReqRecords, Minting
      <4> QED
        BY <4>1, <4>3
    <3> HIDE DEF new
    <3>4. Moved(r) /\ x = new
      BY <1>1, <3>1, <3>3 DEF Moved, TypeOK
    <3>5. Sound(r)
      BY <1>3, <3>3, <3>4 DEF Sound, Minting, Redeeming, Paying
    <3> QED
      BY <1>5, <3>1, <3>3, <3>4, <3>5 DEF Minting
  <2>2. CASE owner[k] = None
    <3> DEFINE new == [req[r] EXCEPT !.at = "claim", !.code = k]
    <3>1. req' = [req EXCEPT ![r] = new] /\ owner' = [owner EXCEPT ![k] = v] /\ UNCHANGED codeOf
      BY <1>1, <2>2 DEF ClaimCode, SetNX, TypeOK
    <3>2. /\ new \in ReqRecords /\ new.at = "claim" /\ new.who = v /\ new.code = k
          /\ new.left = req[r].left /\ new.answer = None
      BY <1>1, <1>3 DEF ReqRecords, Minting
    <3> HIDE DEF new
    <3>3. Moved(r) /\ x = new
      BY <1>1, <3>1, <3>2 DEF Moved, TypeOK
    <3>4. \A i \in Codes : Standing(i) => owner'[i] = owner[i] /\ Standing(i)'
      BY <1>1, <2>2, <3>1 DEF Standing
    <3>5. \A w \in Workers : codeOf[w] # k
      BY <1>1, <2>2 DEF CodesHold, ReferralAssumption
    <3>6. CodesHold'
      <4>1. \A s \in Requests : req'[s].at = "answered" /\ req'[s].answer # None =>
              req'[s].answer \in Codes /\ Standing(req'[s].answer)
        BY <1>1, <1>6, <3>2, <3>3 DEF CodesHold, ReqRecords
      <4>2. \A s \in Requests : req'[s].at = "answered" /\ req'[s].answer # None =>
              owner'[req'[s].answer] # None /\ codeOf'[owner'[req'[s].answer]] = req'[s].answer
        BY <3>4, <4>1 DEF Standing
      <4>3. \A w \in Workers : codeOf[w] # None => owner'[codeOf[w]] = w
        BY <1>1, <3>1, <3>5 DEF CodesHold
      <4> QED
        BY <3>1, <4>2, <4>3 DEF CodesHold, Standing
    <3>7. RequestsHold'
      <4>1. \A i \in Codes : Standing(i) => owner'[i] # None /\ codeOf'[owner'[i]] = i
        BY <3>4 DEF Standing
      <4>2. \A s \in Requests : req[s].at \in {"claim", "discard"} =>
              /\ req[s].code \in Codes /\ req[s].who \in Workers
              /\ owner[req[s].code] = req[s].who /\ codeOf[req[s].who] # req[s].code
        BY <1>1 DEF RequestsHold, Minting
      <4>3. \A s \in Requests : req[s].at \in {"claim", "discard"} => req[s].code # k
        BY <2>2, <4>2 DEF ReferralAssumption
      <4>4. \A s \in Requests : req[s].at \in {"claim", "discard"} =>
              owner'[req[s].code] = req[s].who /\ codeOf'[req[s].who] # req[s].code
        BY <1>1, <3>1, <4>2, <4>3
      <4>5. owner'[k] = v /\ codeOf'[v] # k
        BY <1>1, <1>3, <3>1, <3>5
      <4> QED
        BY <1>1, <1>3, <3>2, <3>3, <4>1, <4>3, <4>4, <4>5, RequestsKept DEF Minting
    <3> QED
      BY <1>1, <1>3, <1>4, <3>1, <3>2, <3>3, <3>4, <3>6, <3>7 DEF Minting
  <2> QED
    BY <2>1, <2>2
<1>8. CASE ClaimOwner(r)
  <2>1. req[r].at = "claim" /\ owner' = owner
    BY <1>8 DEF ClaimOwner
  <2>2. CASE codeOf[v] # None
    <3>1. To(r, "discard") /\ codeOf' = codeOf
      BY <1>8, <2>2 DEF ClaimOwner, SetNX
    <3>2. /\ Moved(r) /\ x.at = "discard" /\ x.who = v /\ x.code = j /\ x.left = req[r].left
          /\ x.answer = req[r].answer
      BY <1>1, <1>2, <3>1, ToMoves
    <3>3. Sound(r)
      BY <1>3, <2>1, <3>2 DEF Sound, Minting, Redeeming, Paying
    <3> QED
      BY <1>5, <2>1, <3>1, <3>2, <3>3 DEF Minting
  <2>3. CASE codeOf[v] = None
    <3>1. End(r, j) /\ codeOf' = [codeOf EXCEPT ![v] = j] /\ j \in Codes /\ owner[j] = v
      BY <1>3, <1>8, <2>1, <2>3 DEF ClaimOwner, SetNX
    <3>2. Moved(r) /\ x.at = "answered" /\ x.answer = j
      BY <1>1, <3>1, EndMoves
    <3>3. \A i \in Codes : Standing(i) => owner[i] \in Workers /\ owner[i] # v
      BY <1>1, <2>3 DEF Standing, ReferralAssumption
    <3>4. \A i \in Codes : Standing(i) => codeOf'[owner[i]] = i
      BY <1>1, <3>1, <3>3 DEF Standing
    <3>5. CodesHold'
      <4>1. \A s \in Requests : req'[s].at = "answered" /\ req'[s].answer # None =>
              req'[s].answer = j \/ (req'[s].answer \in Codes /\ Standing(req'[s].answer))
        BY <1>1, <1>6, <3>2 DEF CodesHold, ReqRecords
      <4>2. \A s \in Requests : req'[s].at = "answered" /\ req'[s].answer # None =>
              owner[req'[s].answer] # None /\ codeOf'[owner[req'[s].answer]] = req'[s].answer
        BY <1>1, <1>3, <3>1, <3>3, <3>4, <4>1 DEF ReferralAssumption
      <4>3. \A w \in Workers : codeOf'[w] # None => owner[codeOf'[w]] = w
        BY <1>1, <3>1 DEF CodesHold
      <4> QED
        BY <2>1, <4>2, <4>3 DEF CodesHold, Standing
    <3>6. RequestsHold'
      <4>1. \A i \in Codes : Standing(i) => owner'[i] # None /\ codeOf'[owner'[i]] = i
        BY <2>1, <3>4 DEF Standing
      <4>2. \A s \in Requests \ {r} : req[s].at \in {"claim", "discard"} =>
              /\ owner[req[s].code] = req[s].who /\ codeOf[req[s].who] # req[s].code
              /\ req[s].code # j /\ req[s].who \in Workers
        BY <1>1, <1>3, <2>1 DEF RequestsHold, Minting
      <4>3. \A s \in Requests \ {r} : req[s].at \in {"claim", "discard"} =>
              owner'[req[s].code] = req[s].who /\ codeOf'[req[s].who] # req[s].code
        BY <1>1, <2>1, <3>1, <4>2
      <4>4. x.at \in Minting \cup {"answered"} /\ x.at \notin Minting /\ x.at \notin {"claim", "discard"}
        BY <3>2 DEF Minting
      <4> QED
        BY <1>1, <3>2, <4>1, <4>3, <4>4, RequestsKept
    <3> QED
      BY <1>1, <1>3, <1>4, <2>1, <3>1, <3>2, <3>5, <3>6
  <2> QED
    BY <2>2, <2>3
<1>9. CASE Discard(r)
  <2>1. req[r].at = "discard" /\ To(r, "own?") /\ owner' = [owner EXCEPT ![j] = None] /\ codeOf' = codeOf
    BY <1>9 DEF Discard
  <2>2. /\ Moved(r) /\ x.at = "own?" /\ x.who = v /\ x.left = req[r].left /\ x.answer = req[r].answer
    BY <1>1, <1>2, <2>1, ToMoves
  <2>3. \A i \in Codes : Standing(i) => i # j /\ owner'[i] = owner[i]
    BY <1>1, <1>3, <2>1 DEF Standing
  <2>4. CodesHold'
    <3>1. \A s \in Requests : req'[s].at = "answered" /\ req'[s].answer # None =>
            req'[s].answer \in Codes /\ Standing(req'[s].answer)
      BY <1>1, <1>6, <2>2 DEF CodesHold, ReqRecords
    <3>2. \A s \in Requests : req'[s].at = "answered" /\ req'[s].answer # None =>
            owner'[req'[s].answer] # None /\ codeOf[owner'[req'[s].answer]] = req'[s].answer
      BY <2>3, <3>1 DEF Standing
    <3>3. \A w \in Workers : codeOf[w] # None => codeOf[w] # j /\ owner[codeOf[w]] = w
      BY <1>1, <1>3, <2>1 DEF CodesHold
    <3>4. \A w \in Workers : codeOf[w] # None => owner'[codeOf[w]] = w
      BY <1>1, <2>1, <3>3
    <3> QED
      BY <2>1, <3>2, <3>4 DEF CodesHold, Standing
  <2>5. RequestsHold'
    <3>1. \A i \in Codes : Standing(i) => owner'[i] # None /\ codeOf'[owner'[i]] = i
      BY <2>1, <2>3 DEF Standing
    <3>2. \A s \in Requests \ {r} : req[s].at \in {"claim", "discard"} =>
            /\ req[s].code \in Codes /\ owner[req[s].code] = req[s].who
            /\ codeOf[req[s].who] # req[s].code /\ req[s].code # j
      BY <1>1, <1>3, <2>1 DEF RequestsHold
    <3>3. \A s \in Requests \ {r} : req[s].at \in {"claim", "discard"} =>
            owner'[req[s].code] = req[s].who /\ codeOf'[req[s].who] # req[s].code
      BY <1>1, <2>1, <3>2
    <3>4. x.at \in Minting /\ x.at \notin {"claim", "discard"}
      BY <2>2 DEF Minting
    <3> QED
      BY <1>1, <1>3, <2>2, <3>1, <3>3, <3>4, RequestsKept
  <2> QED
    BY <1>1, <1>3, <1>4, <2>1, <2>2, <2>3, <2>4, <2>5 DEF Minting
<1> QED
  BY <1>7, <1>8, <1>9

\* Those that move the uses of a code: a use is reserved, kept or given back.
LEMMA UsesKeep ==
  ASSUME ReferralAssumption, ReferralsInv, NEW r \in Requests,
         ReserveUse(r) \/ Attach(r) \/ ReturnUse(r)
  PROVE  ReferralsInv'
<1> DEFINE x == req'[r]
           v == req[r].who
<1>1. /\ TypeOK /\ CodesHold /\ RequestsHold /\ req[r] \in ReqRecords
      /\ uses \in [Codes -> 0..MaxUses + Cardinality(Requests)]
      /\ redeemed \in [Workers -> Codes \cup {None}] /\ None \notin Codes
      /\ MaxUses \in Nat /\ Cardinality(Requests) \in Nat
      /\ \A s \in Requests : req[s] \in ReqRecords
  BY SetsAreFinite DEF ReferralsInv, TypeOK, ReferralAssumption
<1>2. {"attach", "return", "list", "answered"} \subseteq Steps
  BY DEF Steps, Redeeming
<1>3. /\ req[r].at \in {"reserve", "attach", "return"} /\ v \in Workers
      /\ req[r].code \in Codes /\ Standing(req[r].code)
      /\ UNCHANGED <<owner, codeOf, referees, payerOf, earned>>
  BY <1>1 DEF ReserveUse, Attach, ReturnUse, RequestsHold, Redeeming
<1> PICK j \in Codes : j = req[r].code
  BY <1>3
<1>4. \A k \in Codes :
        /\ IsFiniteSet(Kept(k)) /\ Cardinality(Kept(k)) \in Nat
        /\ IsFiniteSet(Holding(k)) /\ Cardinality(Holding(k)) \in Nat
        /\ IsFiniteSet(Granted(k)) /\ Cardinality(Granted(k)) \in Nat
        /\ Cardinality(Granted(k)) <= Cardinality(Holding(k))
        /\ uses[k] = Cardinality(Kept(k)) + Cardinality(Holding(k))
        /\ Cardinality(Kept(k)) + Cardinality(Granted(k)) <= MaxUses
  BY SetsAreFinite, InTheseNames DEF ReferralsInv
\* It is enough that the request moved on and the counts of its code agree.
<1>5. ASSUME Moved(r), x.code = j, x.at \in {"list", "attach", "return"} => x.who = v, x.at \in {"attach", "return", "list", "answered"},
             x.at = "answered" => x.answer = None,
             uses' \in [Codes -> Int], redeemed' \in [Workers -> Codes \cup {None}],
             \A k \in Codes : k # j => uses'[k] = uses[k] /\ Kept(k)' = Kept(k),
             uses'[j] = Cardinality(Kept(j)') + Cardinality(Holding(j)'),
             Cardinality(Kept(j)') + Cardinality(Granted(j)') <= MaxUses
      PROVE  ReferralsInv'
  <2>1. Sound(r)
    BY <1>3, <1>5 DEF Sound, Minting, Redeeming, Paying
  <2>2. CodesHold' /\ RequestsHold'
    BY <1>3, <1>5, <2>1, CodesKept
  <2>3. \A k \in Codes : k # j => Holding(k)' = Holding(k) /\ Granted(k)' = Granted(k)
    <3> SUFFICES ASSUME NEW k \in Codes, k # j
                 PROVE  Holding(k)' = Holding(k) /\ Granted(k)' = Granted(k)
      OBVIOUS
    <3> QED
      BY <1>5 DEF Holding, Granted, Moved
  <2>4. \A k \in Codes :
          /\ uses'[k] = Cardinality(Kept(k)') + Cardinality(Holding(k)')
          /\ Cardinality(Kept(k)') + Cardinality(Granted(k)') <= MaxUses
    BY <1>3, <1>4, <1>5, <2>3
  <2>5. \A k \in Codes : Cardinality(Granted(k)') \in Nat /\ Cardinality(Kept(k)') \in Nat
    <3> SUFFICES ASSUME NEW k \in Codes
                 PROVE  Cardinality(Granted(k)') \in Nat /\ Cardinality(Kept(k)') \in Nat
      OBVIOUS
    <3>1. Granted(k)' \subseteq Requests /\ Kept(k)' \subseteq Workers
      BY DEF Granted, Kept
    <3> QED
      BY <3>1, FS_Subset, FS_CardinalityType DEF ReferralAssumption
  <2>6. UsesAreAccounted' /\ LimitHolds'
    <3>1. \A k \in Codes : Cardinality(Kept(k)') <= MaxUses
      <4> SUFFICES ASSUME NEW k \in Codes PROVE Cardinality(Kept(k)') <= MaxUses
        OBVIOUS
      <4>1. /\ Cardinality(Granted(k)') \in Nat /\ Cardinality(Kept(k)') \in Nat
            /\ Cardinality(Kept(k)') + Cardinality(Granted(k)') <= MaxUses
        BY <2>4, <2>5
      <4> HIDE DEF Kept, Granted
      <4> QED
        BY <1>1, <4>1
    <3> QED
      BY <2>4, <3>1 DEF UsesAreAccounted, LimitHolds, Kept, Holding
  <2>7. CreditedOnce'
    BY <1>3, <1>5, CreditsKept
  <2>8. TypeOK'
    BY <1>1, <1>3, <1>5, <2>6, TypeKept DEF TypeOK
  <2> QED
    BY <2>2, <2>6, <2>7, <2>8 DEF ReferralsInv
\* What the move makes of the sets of its code.
<1>6. ASSUME Moved(r), x.code = j
      PROVE  /\ Holding(j)' = IF x.at \in {"attach", "return"} THEN Holding(j) \cup {r}
                              ELSE Holding(j) \ {r}
             /\ Granted(j)' = IF x.at = "attach" THEN Granted(j) \cup {r} ELSE Granted(j) \ {r}
  BY <1>6 DEF Holding, Granted, Moved
<1>7. /\ r \in Holding(j) <=> req[r].at \in {"attach", "return"}
      /\ r \in Granted(j) <=> req[r].at = "attach"
  BY DEF Holding, Granted
<1>8. CASE ReserveUse(r)
  <2>1. /\ req[r].at = "reserve" /\ redeemed' = redeemed
        /\ uses' = [uses EXCEPT ![j] = uses[j] + 1]
        /\ To(r, IF uses[j] < MaxUses THEN "attach" ELSE "return")
    BY <1>8 DEF ReserveUse
  <2>2. /\ Moved(r) /\ x.at = IF uses[j] < MaxUses THEN "attach" ELSE "return"
        /\ x.code = j /\ x.who = v
    BY <1>1, <1>2, <2>1, ToMoves
  <2>3. \A k \in Codes : Kept(k)' = Kept(k)
    BY <2>1 DEF Kept
  <2>4. Cardinality(Holding(j)') = Cardinality(Holding(j)) + 1
    BY <1>3, <1>4, <1>6, <1>7, <2>1, <2>2, Gains
  <2>5. /\ uses' \in [Codes -> Int] /\ uses'[j] = uses[j] + 1 /\ uses[j] \in Int
        /\ \A k \in Codes : k # j => uses'[k] = uses[k]
    BY <1>1, <1>3, <2>1
  <2>6. Cardinality(Kept(j)') + Cardinality(Granted(j)') <= MaxUses
    <3>1. CASE uses[j] < MaxUses
      <4>1. Cardinality(Granted(j)') = Cardinality(Granted(j)) + 1
        BY <1>3, <1>4, <1>6, <1>7, <2>1, <2>2, <3>1, Gains
      <4>2. Cardinality(Kept(j)) + Cardinality(Granted(j)) < MaxUses
        BY <1>1, <1>3, <1>4, <3>1
      <4> QED
        BY <1>1, <1>3, <1>4, <2>3, <4>1, <4>2
    <3>2. CASE ~(uses[j] < MaxUses)
      <4>1. Granted(j)' = Granted(j)
        BY <1>6, <1>7, <2>1, <2>2, <3>2
      <4> QED
        BY <1>3, <1>4, <2>3, <4>1
    <3> QED
      BY <3>1, <3>2
  <2>7. uses'[j] = Cardinality(Kept(j)') + Cardinality(Holding(j)')
    BY <1>3, <1>4, <2>3, <2>4, <2>5
  <2> QED
    BY <1>1, <1>5, <2>1, <2>2, <2>3, <2>5, <2>6, <2>7
<1>9. CASE Attach(r)
  <2>1. /\ req[r].at = "attach" /\ uses' = uses
        /\ redeemed' = IF redeemed[v] = None THEN [redeemed EXCEPT ![v] = j] ELSE redeemed
        /\ To(r, IF redeemed[v] = None THEN "list" ELSE "return")
    BY <1>9 DEF Attach, SetNX
  <2>2. /\ Moved(r) /\ x.at = IF redeemed[v] = None THEN "list" ELSE "return"
        /\ x.code = j /\ x.who = v
    BY <1>1, <1>2, <2>1, ToMoves
  <2>3. uses' \in [Codes -> Int]
    BY <1>1, <2>1
  <2>4. Cardinality(Granted(j)') = Cardinality(Granted(j)) - 1
    BY <1>3, <1>4, <1>6, <1>7, <2>1, <2>2, Loses
  <2>5. CASE redeemed[v] = None
    <3>1. redeemed' = [redeemed EXCEPT ![v] = j] /\ redeemed' \in [Workers -> Codes \cup {None}]
      BY <1>1, <1>3, <2>1, <2>5
    <3>2. Kept(j)' = Kept(j) \cup {v} /\ v \notin Kept(j)
      BY <1>1, <1>3, <2>5, <3>1 DEF Kept
    <3>3. \A k \in Codes : k # j => Kept(k)' = Kept(k)
      BY <1>1, <1>3, <2>5, <3>1 DEF Kept
    <3>4. Cardinality(Kept(j)') = Cardinality(Kept(j)) + 1
      BY <1>3, <1>4, <3>2, Gains
    <3>5. Cardinality(Holding(j)') = Cardinality(Holding(j)) - 1
      BY <1>3, <1>4, <1>6, <1>7, <2>1, <2>2, <2>5, Loses
    <3>6. /\ Cardinality(Kept(j)) \in Nat /\ Cardinality(Holding(j)) \in Nat
          /\ Cardinality(Granted(j)) \in Nat
          /\ uses'[j] = Cardinality(Kept(j)) + Cardinality(Holding(j))
          /\ Cardinality(Kept(j)) + Cardinality(Granted(j)) <= MaxUses
      BY <1>4, <2>1
    <3>7. /\ uses'[j] = Cardinality(Kept(j)') + Cardinality(Holding(j)')
          /\ Cardinality(Kept(j)') + Cardinality(Granted(j)') <= MaxUses
      BY <1>1, <2>4, <3>4, <3>5, <3>6
    <3> QED
      BY <1>5, <2>1, <2>2, <2>3, <2>5, <3>1, <3>3, <3>7
  <2>6. CASE redeemed[v] # None
    <3>1. redeemed' = redeemed /\ \A k \in Codes : Kept(k)' = Kept(k)
      BY <2>1, <2>6 DEF Kept
    <3>2. Holding(j)' = Holding(j)
      BY <1>6, <1>7, <2>1, <2>2, <2>6
    <3>3. /\ uses'[j] = Cardinality(Kept(j)') + Cardinality(Holding(j)')
          /\ Cardinality(Kept(j)') + Cardinality(Granted(j)') <= MaxUses
      BY <1>1, <1>3, <1>4, <2>1, <2>4, <3>1, <3>2
    <3> QED
      BY <1>1, <1>5, <2>1, <2>2, <2>3, <2>6, <3>1, <3>3
  <2> QED
    BY <2>5, <2>6
<1>10. CASE ReturnUse(r)
  <2>1. /\ req[r].at = "return" /\ End(r, None) /\ redeemed' = redeemed
        /\ uses' = [uses EXCEPT ![j] = uses[j] - 1]
    BY <1>10 DEF ReturnUse
  <2>2. Moved(r) /\ x.at = "answered" /\ x.code = j /\ x.answer = None
    BY <1>1, <2>1, EndMoves
  <2>3. /\ uses' \in [Codes -> Int] /\ uses'[j] = uses[j] - 1 /\ uses[j] \in Int
        /\ \A k \in Codes : k # j => uses'[k] = uses[k]
    BY <1>1, <1>3, <2>1
  <2>4. \A k \in Codes : Kept(k)' = Kept(k)
    BY <2>1 DEF Kept
  <2>5. Cardinality(Holding(j)') = Cardinality(Holding(j)) - 1
    BY <1>3, <1>4, <1>6, <1>7, <2>1, <2>2, Loses
  <2>6. Granted(j)' = Granted(j)
    BY <1>6, <1>7, <2>1, <2>2
  <2>7. /\ uses'[j] = Cardinality(Kept(j)') + Cardinality(Holding(j)')
        /\ Cardinality(Kept(j)') + Cardinality(Granted(j)') <= MaxUses
    BY <1>3, <1>4, <2>3, <2>4, <2>5, <2>6
  <2> QED
    BY <1>1, <1>5, <2>1, <2>2, <2>3, <2>4, <2>7
<1> QED
  BY <1>8, <1>9, <1>10

\* Those that attribute a payer and credit the worker: the reward is owed from
\* the one to the other.
LEMMA CreditsKeep ==
  ASSUME ReferralAssumption, ReferralsInv, NEW r \in Requests, Attribute(r) \/ CreditReferrer(r)
  PROVE  ReferralsInv'
<1> DEFINE x == req'[r]
<1>1. /\ TypeOK /\ CodesHold /\ RequestsHold /\ req[r] \in ReqRecords
      /\ owner \in [Codes -> Workers \cup {None}] /\ payerOf \in [Payers -> Workers \cup {None}]
      /\ earned \in [Workers -> Nat] /\ None \notin Workers /\ Reward \in Nat
  BY DEF ReferralsInv, TypeOK, ReferralAssumption
<1>2. {"credit", "answered"} \subseteq Steps
  BY DEF Steps, Paying
<1>3. /\ req[r].at \in {"attribute", "credit"} /\ req[r].code \in Codes /\ Standing(req[r].code)
      /\ req[r].who \in Payers /\ owner[req[r].code] \in Workers
      /\ UNCHANGED <<owner, codeOf, uses, redeemed, referees>>
  BY <1>1 DEF Attribute, CreditReferrer, RequestsHold, Paying, Standing
<1> PICK j \in Codes, p \in Payers, w \in Workers :
      j = req[r].code /\ p = req[r].who /\ w = owner[req[r].code]
  BY <1>3
<1>4. \A u \in Workers :
        /\ IsFiniteSet(Brought(u)) /\ Cardinality(Brought(u)) \in Nat
        /\ IsFiniteSet(Owing(u)) /\ Cardinality(Owing(u)) \in Nat
        /\ earned[u] + Reward * Cardinality(Owing(u)) = Reward * Cardinality(Brought(u))
  BY SetsAreFinite, InTheseNames DEF ReferralsInv
\* It is enough that the request moved on and the sums of its worker agree.
<1>5. ASSUME Moved(r), x.code = j, x.at \in {"credit", "answered"},
             x.at = "credit" => x.who = p, x.at = "answered" => x.answer \in {None, j},
             earned' \in [Workers -> Nat], payerOf' \in [Payers -> Workers \cup {None}],
             \A u \in Workers : u # w => earned'[u] = earned[u] /\ Brought(u)' = Brought(u),
             earned'[w] + Reward * Cardinality(Owing(w)') = Reward * Cardinality(Brought(w)')
      PROVE  ReferralsInv'
  <2>1. Sound(r)
    BY <1>3, <1>5 DEF Sound, Minting, Redeeming, Paying
  <2>2. CodesHold' /\ RequestsHold'
    BY <1>3, <1>5, <2>1, CodesKept
  <2>3. UsesAreAccounted' /\ LimitHolds'
    BY <1>3, <1>5, UsesKept
  <2>4. \A u \in Workers : u # w => Owing(u)' = Owing(u)
    <3> SUFFICES ASSUME NEW u \in Workers, u # w PROVE Owing(u)' = Owing(u)
      OBVIOUS
    <3> QED
      BY <1>3, <1>5 DEF Owing, Moved
  <2>5. \A u \in Workers :
          earned'[u] + Reward * Cardinality(Owing(u)') = Reward * Cardinality(Brought(u)')
    BY <1>4, <1>5, <2>4
  <2>6. CreditedOnce'
    BY <2>5 DEF CreditedOnce, Owing, Brought
  <2>7. TypeOK'
    BY <1>1, <1>3, <1>5, <2>3, TypeKept DEF TypeOK
  <2> QED
    BY <2>2, <2>3, <2>6, <2>7 DEF ReferralsInv
<1>6. ASSUME NEW n \in Nat
      PROVE  Reward * (n + 1) = Reward * n + Reward /\ Reward * (n - 1) = Reward * n - Reward
  BY <1>1
<1>7. CASE Attribute(r)
  <2>1. /\ req[r].at = "attribute" /\ earned' = earned
        /\ payerOf' = IF payerOf[p] = None THEN [payerOf EXCEPT ![p] = w] ELSE payerOf
        /\ IF payerOf[p] = None THEN To(r, "credit") ELSE End(r, None)
    BY <1>7 DEF Attribute, SetNX
  <2>2. r \notin Owing(w)
    BY <2>1 DEF Owing
  <2>3. CASE payerOf[p] = None
    <3>1. Moved(r) /\ x.at = "credit" /\ x.code = j /\ x.who = p
      BY <1>1, <1>2, <2>1, <2>3, ToMoves
    <3>2. payerOf' = [payerOf EXCEPT ![p] = w] /\ payerOf' \in [Payers -> Workers \cup {None}]
      BY <1>1, <2>1, <2>3
    <3>3. Brought(w)' = Brought(w) \cup {p} /\ p \notin Brought(w)
      BY <1>1, <2>3, <3>2 DEF Brought
    <3>4. \A u \in Workers : u # w => Brought(u)' = Brought(u)
      BY <1>1, <2>3, <3>2 DEF Brought
    <3>5. Owing(w)' = Owing(w) \cup {r}
      BY <1>3, <3>1 DEF Owing, Moved
    <3>6. /\ Cardinality(Brought(w)') = Cardinality(Brought(w)) + 1
          /\ Cardinality(Owing(w)') = Cardinality(Owing(w)) + 1
      BY <1>4, <2>2, <3>3, <3>5, Gains
    <3>7. earned'[w] + Reward * Cardinality(Owing(w)') = Reward * Cardinality(Brought(w)')
      <4>1. /\ Reward * Cardinality(Owing(w)') = Reward * Cardinality(Owing(w)) + Reward
            /\ Reward * Cardinality(Brought(w)') = Reward * Cardinality(Brought(w)) + Reward
        BY <1>4, <1>6, <3>6
      <4>2. /\ Reward * Cardinality(Owing(w)) \in Int /\ Reward * Cardinality(Brought(w)) \in Int
            /\ earned[w] \in Int
        BY <1>1, <1>4
      <4>3. earned[w] + Reward * Cardinality(Owing(w)) = Reward * Cardinality(Brought(w))
        BY <1>4
      <4> QED
        BY <1>1, <2>1, <4>1, <4>2, <4>3
    <3> QED
      BY <1>1, <1>5, <2>1, <3>1, <3>2, <3>4, <3>7
  <2>4. CASE payerOf[p] # None
    <3>1. Moved(r) /\ x.at = "answered" /\ x.code = j /\ x.answer = None
      BY <1>1, <2>1, <2>4, EndMoves
    <3>2. payerOf' = payerOf /\ \A u \in Workers : Brought(u)' = Brought(u)
      BY <2>1, <2>4 DEF Brought
    <3>3. Owing(w)' = Owing(w)
      BY <1>3, <2>2, <3>1 DEF Owing, Moved
    <3> QED
      BY <1>1, <1>4, <1>5, <2>1, <3>1, <3>2, <3>3
  <2> QED
    BY <2>3, <2>4
<1>8. CASE CreditReferrer(r)
  <2>1. /\ req[r].at = "credit" /\ End(r, j) /\ payerOf' = payerOf
        /\ earned' = [earned EXCEPT ![w] = earned[w] + Reward]
    BY <1>8 DEF CreditReferrer
  <2>2. Moved(r) /\ x.at = "answered" /\ x.code = j /\ x.answer = j
    BY <1>1, <2>1, EndMoves
  <2>3. earned' \in [Workers -> Nat] /\ earned'[w] = earned[w] + Reward
        /\ \A u \in Workers : u # w => earned'[u] = earned[u]
    BY <1>1, <2>1
  <2>4. \A u \in Workers : Brought(u)' = Brought(u)
    BY <2>1 DEF Brought
  <2>5. r \in Owing(w) /\ Owing(w)' = Owing(w) \ {r}
    BY <1>3, <2>1, <2>2 DEF Owing, Moved
  <2>6. Cardinality(Owing(w)') = Cardinality(Owing(w)) - 1
    BY <1>4, <2>5, Loses
  <2>7. earned'[w] + Reward * Cardinality(Owing(w)') = Reward * Cardinality(Brought(w)')
    <3>1. Reward * Cardinality(Owing(w)') = Reward * Cardinality(Owing(w)) - Reward
      BY <1>4, <1>6, <2>6
    <3>2. Reward * Cardinality(Owing(w)) \in Int /\ earned[w] \in Int
      BY <1>1, <1>4
    <3>3. earned[w] + Reward * Cardinality(Owing(w)) = Reward * Cardinality(Brought(w))
      BY <1>4
    <3> QED
      BY <1>1, <2>3, <2>4, <3>1, <3>2, <3>3
  <2> QED
    BY <1>1, <1>5, <2>1, <2>2, <2>3, <2>4, <2>7
<1> QED
  BY <1>7, <1>8

-----------------------------------------------------------------------------
(* The theorems *)

\* No code is minted, no use counted, no request begun.
LEMMA ReferralsInit ==
  ASSUME ReferralAssumption, Init
  PROVE  ReferralsInv
<1>1. TypeOK
  <2>1. Idle \in ReqRecords
    BY DEF Idle, ReqRecords, ReferralAssumption
  <2>2. 0 \in 0..MaxUses + Cardinality(Requests)
    BY SetsAreFinite DEF ReferralAssumption
  <2> QED
    BY <2>1, <2>2 DEF Init, TypeOK
<1>2. \A r \in Requests : req[r].at = "idle"
  BY DEF Init, Idle
<1>3. CodesHold /\ RequestsHold
  BY <1>2 DEF Init, CodesHold, RequestsHold, Minting, Redeeming, Paying
<1>4. \A k \in Codes : Kept(k) = {} /\ Holding(k) = {} /\ Granted(k) = {} /\ uses[k] = 0
  BY <1>2 DEF Init, Kept, Holding, Granted, ReferralAssumption
<1>5. \A w \in Workers : Brought(w) = {} /\ Owing(w) = {} /\ earned[w] = 0
  BY <1>2 DEF Init, Brought, Owing, ReferralAssumption
<1>6. Cardinality({}) = 0 /\ MaxUses \in Nat /\ Reward \in Nat
  BY FS_EmptySet DEF ReferralAssumption
<1>7. UsesAreAccounted /\ LimitHolds
  <2>1. \A k \in Codes : /\ Cardinality(Kept(k)) = 0 /\ Cardinality(Holding(k)) = 0
                         /\ Cardinality(Granted(k)) = 0 /\ uses[k] = 0
    BY <1>4, <1>6
  <2>2. \A k \in Codes : /\ uses[k] = Cardinality(Kept(k)) + Cardinality(Holding(k))
                         /\ Cardinality(Kept(k)) <= MaxUses
                         /\ Cardinality(Kept(k)) + Cardinality(Granted(k)) <= MaxUses
    BY <1>6, <2>1
  <2> QED
    BY <2>2, InTheseNames
<1>8. CreditedOnce
  BY <1>5, <1>6, InTheseNames
<1> QED
  BY <1>1, <1>3, <1>7, <1>8 DEF ReferralsInv

\* Every step keeps the invariant.
LEMMA ReferralsStep ==
  ASSUME ReferralAssumption, ReferralsInv, [Next]_vars
  PROVE  ReferralsInv'
<1>1. CASE UNCHANGED vars
  <2>1. UNCHANGED <<owner, codeOf, uses, redeemed, referees, payerOf, earned, req>>
    BY <1>1 DEF vars, stored
  <2>2. TypeOK' /\ CodesHold' /\ RequestsHold'
    BY <2>1 DEF ReferralsInv, TypeOK, CodesHold, RequestsHold, Standing
  <2>3. LimitHolds' /\ UsesAreAccounted' /\ CreditedOnce'
    BY <2>1 DEF ReferralsInv, LimitHolds, Granted, UsesAreAccounted, CreditedOnce
  <2> QED
    BY <2>2, <2>3 DEF ReferralsInv
<1>2. CASE Next
  BY <1>2, QuietKeeps, CodesKeep, UsesKeep, CreditsKeep DEF Next
<1> QED
  BY <1>1, <1>2

\* The inductive invariant holds throughout, however requests interleave between
\* the awaits of referrals.js and payerReferrals.js.
THEOREM ReferralsInvariance ==
  ASSUME ReferralAssumption
  PROVE  Spec => []ReferralsInv
<1>1. Init => ReferralsInv
  BY ReferralsInit
<1>2. ReferralsInv /\ [Next]_vars => ReferralsInv'
  BY ReferralsStep
<1> QED
  BY <1>1, <1>2, PTL DEF Spec

\* No use of a code is lost and none is granted above the limit, though
\* redeemReferralCode() counts a use before it knows that it may have it and
\* gives it back when it may not.
THEOREM NoUseIsLost ==
  ASSUME ReferralAssumption
  PROVE  Spec => []UsesAreAccounted
<1>1. ReferralsInv => UsesAreAccounted
  BY DEF ReferralsInv
<1> QED
  BY <1>1, ReferralsInvariance, PTL

\* recordFirstPaymentReferral() rewards a worker once for every payer they
\* brought, however many first payments race; the reward under way is the only
\* one that may be missing.
THEOREM PayersBringOneReward ==
  ASSUME ReferralAssumption
  PROVE  Spec => []CreditedOnce
<1>1. ReferralsInv => CreditedOnce
  BY DEF ReferralsInv
<1> QED
  BY <1>1, ReferralsInvariance, PTL

\* getOrCreateReferralCode() tells everybody the code that redemptions credit:
\* the candidate of a request that lost the race is handed to nobody.
THEOREM OwnersHaveOneCode ==
  ASSUME ReferralAssumption
  PROVE  Spec => []OneCodePerOwner
<1>1. ReferralsInv => OneCodePerOwner
  BY DEF ReferralsInv, CodesHold, Standing, OneCodePerOwner
<1> QED
  BY <1>1, ReferralsInvariance, PTL

-----------------------------------------------------------------------------
(* Automatic withdrawals *)

\* What is known of finite sets is known of those of the withdrawals.
LEMMA WithdrawCardinality == \A S : W!Cardinality(S) = Cardinality(S)
  BY Zenon DEF W!Cardinality, Cardinality

\* Whoever evaluates or prepares holds the lock, which one check does.
LEMMA LocksSuffice == W!LocksHold => W!OnePreparer
<1> SUFFICES ASSUME W!LocksHold, NEW w \in Earners \ outlived
             PROVE  Cardinality({k \in Checks : check[k][w].at \in {"owed", "pending", "prepare"}}) <= 1
  BY WithdrawCardinality DEF W!OnePreparer
<1> DEFINE S == {k \in Checks : check[k][w].at \in {"owed", "pending", "prepare"}}
<1>1. S \subseteq {lock[w]}
  BY DEF W!LocksHold, W!Locked
<1>2. IsFiniteSet({lock[w]}) /\ Cardinality({lock[w]}) = 1
  BY FS_Singleton
<1>3. Cardinality(S) <= Cardinality({lock[w]}) /\ Cardinality(S) \in Nat
  BY <1>1, <1>2, FS_Subset, FS_CardinalityType
<1> QED
  BY <1>2, <1>3

\* Nothing is set, prepared or locked, but what was opted into before.
LEMMA WithdrawInit ==
  ASSUME W!WithdrawAssumption, W!Init
  PROVE  W!WithdrawInv
<1>1. W!TypeOK
  BY DEF W!Init, W!TypeOK, W!WithdrawAssumption
<1>2. W!EditsHold /\ W!LocksHold
  BY DEF W!Init, W!EditsHold, W!LocksHold, W!Locked, W!Unasked
<1>3. W!ChecksHold
  <2>1. W!Unasked \in [at : {"idle", "queued", "lock", "owed", "pending", "prepare", "unlock", "done"},
                       terms : W!Terms \cup {None}, owed : 0..MaxOwed]
    BY DEF W!Unasked, W!WithdrawAssumption
  <2> QED
    BY <2>1 DEF W!Init, W!ChecksHold, W!Unasked
<1> QED
  BY <1>1, <1>2, <1>3, LocksSuffice DEF W!WithdrawInv

\* Setting and deleting the terms of a worker.
LEMMA EditKeeps ==
  ASSUME W!WithdrawAssumption, W!WithdrawInv, NEW e \in Edits,
         \/ W!SaveSettings(e) \/ W!DropPending(e) \/ W!ReadIndex(e) \/ W!WriteIndex(e)
         \/ \E w \in Earners : W!DeleteSettings(e, w) \/ \E t \in W!Terms : W!SetSettings(e, w, t)
  PROVE  W!WithdrawInv'
<1>1. UNCHANGED <<lock, owed, check, outlived>>
  BY DEF W!SaveSettings, W!DropPending, W!ReadIndex, W!WriteIndex, W!DeleteSettings, W!SetSettings, W!stored
<1>2. W!ChecksHold' /\ W!LocksHold'
  BY <1>1 DEF W!WithdrawInv, W!ChecksHold, W!LocksHold, W!Locked
<1>3. W!EditsHold' /\ W!TypeOK'
  <2>1. CASE \E w \in Earners : W!DeleteSettings(e, w) \/ \E t \in W!Terms : W!SetSettings(e, w, t)
    <3>1. PICK w \in Earners, t \in W!Terms \cup {None} : W!SetSettings(e, w, t)
      BY <2>1 DEF W!DeleteSettings
    <3>2. /\ edit' = [edit EXCEPT ![e] = [at |-> "save", who |-> w, old |-> settings[w], new |-> t, list |-> {}]]
          /\ UNCHANGED <<settings, pending, index>>
      BY <3>1 DEF W!SetSettings, W!stored
    <3>3. settings[w] \in W!Terms \cup {None}
      BY DEF W!WithdrawInv, W!TypeOK
    <3> QED
      BY <1>1, <3>2, <3>3 DEF W!WithdrawInv, W!TypeOK, W!EditsHold
  <2>2. CASE W!SaveSettings(e)
    BY <1>1, <2>2 DEF W!SaveSettings, W!WithdrawInv, W!TypeOK, W!EditsHold
  <2>3. CASE W!DropPending(e)
    <3>1. W!EditsHold'
      BY <1>1, <2>3 DEF W!DropPending, W!WithdrawInv, W!EditsHold
    <3>2. pending' \in [Earners -> W!Pending \cup {None}] /\ UNCHANGED <<settings, index>>
      BY <2>3 DEF W!DropPending, W!WithdrawInv, W!TypeOK
    <3> QED
      BY <1>1, <3>1, <3>2 DEF W!WithdrawInv, W!TypeOK
  <2>4. CASE W!ReadIndex(e)
    <3>1. UNCHANGED <<settings, pending, index>> /\ edit' = [edit EXCEPT ![e] = [edit[e] EXCEPT !.at = "list", !.list = index]]
      BY <2>4 DEF W!ReadIndex, W!stored, W!WithdrawInv, W!EditsHold
    <3>2. index \subseteq Earners /\ edit[e].who \in Earners
      BY <2>4 DEF W!ReadIndex, W!WithdrawInv, W!TypeOK, W!EditsHold
    <3>3. W!EditsHold'
      BY <3>1, <3>2 DEF W!WithdrawInv, W!EditsHold
    <3> QED
      BY <1>1, <3>1, <3>3 DEF W!WithdrawInv, W!TypeOK
  <2>5. CASE W!WriteIndex(e)
    <3>1. index' \subseteq Earners
      BY <2>5 DEF W!WriteIndex, W!WithdrawInv, W!TypeOK, W!EditsHold
    <3> QED
      BY <1>1, <2>5, <3>1 DEF W!WriteIndex, W!WithdrawInv, W!TypeOK, W!EditsHold
  <2> QED
    BY <2>1, <2>2, <2>3, <2>4, <2>5
<1> QED
  BY <1>2, <1>3, LocksSuffice, PTL DEF W!WithdrawInv

\* What a check may do next to what it knows, the lock and the prepared transaction.
Checked == [at : {"idle", "queued", "lock", "owed", "pending", "prepare", "unlock", "done"},
            terms : W!Terms \cup {None}, owed : 0..MaxOwed]
LEMMA CheckMoves ==
  ASSUME W!WithdrawAssumption, W!WithdrawInv, NEW k \in Checks, NEW w \in Earners, NEW r \in Checked,
         check' = [check EXCEPT ![k][w] = r],
         r.at \in {"lock", "owed", "pending", "prepare"} => r.terms \in W!Terms,
         r.at = "prepare" => r.owed >= r.terms.threshold,
         \/ UNCHANGED lock /\ r.at \in {"idle", "queued", "lock", "done"}
         \/ UNCHANGED lock /\ W!Locked(k, w)
         \/ lock[w] = None /\ lock' = [lock EXCEPT ![w] = k]
         \/ W!Locked(k, w) /\ lock' = [lock EXCEPT ![w] = None] /\ r.at = "done",
         pending' \in [Earners -> W!Pending \cup {None}],
         UNCHANGED <<settings, index, owed, edit, outlived>>
  PROVE  W!WithdrawInv'
<1>1. /\ check'[k][w] = r /\ check' \in [Checks -> [Earners -> Checked]]
      /\ \A j \in Checks, v \in Earners : <<j, v>> # <<k, w>> => check'[j][v] = check[j][v]
  BY DEF W!WithdrawInv, W!ChecksHold, Checked
<1>2. W!TypeOK' /\ W!EditsHold'
  BY DEF W!WithdrawInv, W!TypeOK, W!EditsHold
<1>3. W!ChecksHold'
  <2>1. ASSUME NEW j \in Checks, NEW v \in Earners
        PROVE  /\ check'[j][v].at \in {"lock", "owed", "pending", "prepare"} => check'[j][v].terms \in W!Terms
               /\ check'[j][v].at = "prepare" => check'[j][v].owed >= check'[j][v].terms.threshold
    <3>1. CASE <<j, v>> = <<k, w>>
      BY <1>1, <3>1
    <3>2. CASE <<j, v>> # <<k, w>>
      BY <1>1, <3>2 DEF W!WithdrawInv, W!ChecksHold
    <3> QED
      BY <3>1, <3>2
  <2> QED
    BY <1>1, <2>1 DEF W!ChecksHold, Checked
<1>4. W!LocksHold'
  <2> SUFFICES ASSUME NEW v \in Earners \ outlived, NEW j \in Checks, W!Locked(j, v)'
               PROVE  lock'[v] = j
    BY DEF W!LocksHold
  <2>1. CASE <<j, v>> # <<k, w>>
    <3>1. W!Locked(j, v) /\ lock[v] = j /\ j # None
      BY <1>1, <2>1 DEF W!Locked, W!WithdrawInv, W!LocksHold, W!WithdrawAssumption
    <3>2. v = w /\ W!Locked(k, w) => j = k
      BY <3>1 DEF W!WithdrawInv, W!LocksHold
    <3> QED
      BY <2>1, <3>1, <3>2 DEF W!WithdrawInv, W!TypeOK
  <2>2. CASE <<j, v>> = <<k, w>>
    <3>1. lock \in [Earners -> Checks \cup {None}] /\ (W!Locked(k, w) => lock[w] = k)
      BY <2>2 DEF W!WithdrawInv, W!TypeOK, W!LocksHold
    <3>2. r.at \in {"owed", "pending", "prepare", "unlock"} /\ j = k /\ v = w
      BY <1>1, <2>2 DEF W!Locked
    <3> QED
      BY <3>1, <3>2
  <2> QED
    BY <2>1, <2>2
<1> QED
  BY <1>2, <1>3, <1>4, LocksSuffice, PTL DEF W!WithdrawInv

\* A check of a worker: it is asked for, takes its turn and the lock, looks, prepares and
\* unlocks.
LEMMA CheckKeeps ==
  ASSUME W!WithdrawAssumption, W!WithdrawInv, NEW k \in Checks, NEW w \in Earners,
         \/ W!CheckOne(k, w) \/ W!ReadSettings(k, w) \/ W!TakeLock(k, w) \/ W!ReadOwed(k, w)
         \/ W!Evaluate(k, w) \/ W!Prepare(k, w) \/ W!Unlock(k, w)
  PROVE  W!WithdrawInv'
<1> DEFINE c == check[k][w]
<1>1. /\ UNCHANGED <<settings, index, owed, edit, outlived>>
      /\ check \in [Checks -> [Earners -> Checked]] /\ c \in Checked
      /\ pending \in [Earners -> W!Pending \cup {None}]
  BY DEF W!CheckOne, W!ReadSettings, W!TakeLock, W!ReadOwed, W!Evaluate, W!Prepare, W!Unlock, W!stored,
         W!WithdrawInv, W!ChecksHold, W!TypeOK, Checked
<1>2. ASSUME NEW step \in {"idle", "queued", "lock", "owed", "pending", "prepare", "unlock", "done"}, W!Put(k, w, step)
      PROVE  \E r \in Checked : /\ r.at = step /\ r.terms = c.terms /\ r.owed = c.owed
                                /\ check' = [check EXCEPT ![k][w] = r]
  <2> DEFINE r == [c EXCEPT !.at = step]
  <2>1. r \in Checked /\ r.at = step /\ r.terms = c.terms /\ r.owed = c.owed
    BY <1>1 DEF Checked
  <2>2. check' = [check EXCEPT ![k][w] = r]
    BY <1>1, <1>2 DEF W!Put
  <2> QED
    BY <2>1, <2>2
<1>3. /\ c.at \in {"lock", "owed", "pending", "prepare"} => c.terms \in W!Terms
      /\ c.at = "prepare" => c.owed >= c.terms.threshold
      /\ W!Locked(k, w) <=> c.at \in {"owed", "pending", "prepare", "unlock"}
  BY DEF W!WithdrawInv, W!ChecksHold, W!Locked
<1>4. CASE W!CheckOne(k, w)
  <2>1. W!Put(k, w, "queued") /\ UNCHANGED <<pending, lock>>
    BY <1>4 DEF W!CheckOne, W!stored
  <2>2. PICK r \in Checked : r.at = "queued" /\ check' = [check EXCEPT ![k][w] = r]
    BY <1>2, <2>1
  <2> QED
    BY <1>1, <2>1, <2>2, CheckMoves
<1>5. CASE W!ReadSettings(k, w)
  <2>1. /\ UNCHANGED <<pending, lock>>
        /\ \E step \in {"lock", "done"} :
             /\ check' = [check EXCEPT ![k][w] = [c EXCEPT !.terms = settings[w], !.at = step]]
             /\ step = "lock" => settings[w] # None
    BY <1>5 DEF W!ReadSettings, W!stored
  <2>2. PICK step \in {"lock", "done"} :
             /\ check' = [check EXCEPT ![k][w] = [c EXCEPT !.terms = settings[w], !.at = step]]
             /\ step = "lock" => settings[w] # None
    BY <2>1
  <2>3. settings[w] \in W!Terms \cup {None}
    BY DEF W!WithdrawInv, W!TypeOK
  <2> DEFINE r == [c EXCEPT !.terms = settings[w], !.at = step]
  <2>4. r \in Checked /\ r.at = step /\ r.terms = settings[w]
    BY <1>1, <2>3 DEF Checked
  <2>5. check' = [check EXCEPT ![k][w] = r]
    BY <2>2
  <2> HIDE DEF r
  <2>6. r.at \in {"lock", "done"} /\ (r.at = "lock" => r.terms \in W!Terms)
    BY <2>2, <2>3, <2>4
  <2> QED
    BY <1>1, <2>1, <2>4, <2>5, <2>6, CheckMoves
<1>6. CASE W!TakeLock(k, w)
  <2>1. /\ UNCHANGED pending /\ c.at = "lock"
        /\ \/ lock[w] = None /\ lock' = [lock EXCEPT ![w] = k] /\ W!Put(k, w, "owed")
           \/ UNCHANGED lock /\ W!Put(k, w, "done")
    BY <1>6 DEF W!TakeLock
  <2>2. CASE lock[w] = None /\ lock' = [lock EXCEPT ![w] = k] /\ W!Put(k, w, "owed")
    <3>1. PICK r \in Checked : r.at = "owed" /\ r.terms = c.terms /\ check' = [check EXCEPT ![k][w] = r]
      BY <1>2, <2>2
    <3> QED
      BY <1>1, <1>3, <2>1, <2>2, <3>1, CheckMoves
  <2>3. CASE UNCHANGED lock /\ W!Put(k, w, "done")
    <3>1. PICK r \in Checked : r.at = "done" /\ check' = [check EXCEPT ![k][w] = r]
      BY <1>2, <2>3
    <3> QED
      BY <1>1, <2>1, <2>3, <3>1, CheckMoves
  <2> QED
    BY <2>1, <2>2, <2>3
<1>7. CASE W!ReadOwed(k, w)
  <2>1. UNCHANGED <<pending, lock>> /\ c.at = "owed" /\ owed[w] \in 0..MaxOwed
    BY <1>7 DEF W!ReadOwed, W!stored, W!WithdrawInv, W!TypeOK
  <2>2. CASE W!Put(k, w, "unlock")
    <3>1. PICK r \in Checked : r.at = "unlock" /\ check' = [check EXCEPT ![k][w] = r]
      BY <1>2, <2>2
    <3> QED
      BY <1>1, <1>3, <2>1, <3>1, CheckMoves
  <2>3. CASE check' = [check EXCEPT ![k][w].at = "pending", ![k][w].owed = owed[w]]
    <3> DEFINE r == [c EXCEPT !.at = "pending", !.owed = owed[w]]
    <3>1. r \in Checked /\ r.at = "pending" /\ r.terms = c.terms
      BY <1>1, <2>1 DEF Checked
    <3>2. check' = [check EXCEPT ![k][w] = r]
      BY <1>1, <2>3
    <3> HIDE DEF r
    <3> QED
      BY <1>1, <1>3, <2>1, <3>1, <3>2, CheckMoves
  <2> QED
    BY <1>7, <2>2, <2>3 DEF W!ReadOwed
<1>8. CASE W!Evaluate(k, w)
  <2>1. /\ UNCHANGED lock /\ c.at = "pending" /\ pending' \in [Earners -> W!Pending \cup {None}]
        /\ W!Put(k, w, "unlock") \/ (W!Put(k, w, "prepare") /\ ~(c.owed < c.terms.threshold))
    BY <1>1, <1>8 DEF W!Evaluate
  <2>2. c.terms.threshold \in Int /\ c.owed \in Int
    BY <1>1, <1>3, <2>1 DEF Checked, W!Terms, W!WithdrawAssumption
  <2>3. CASE W!Put(k, w, "unlock")
    <3>1. PICK r \in Checked : r.at = "unlock" /\ check' = [check EXCEPT ![k][w] = r]
      BY <1>2, <2>3
    <3> QED
      BY <1>1, <1>3, <2>1, <3>1, CheckMoves
  <2>4. CASE W!Put(k, w, "prepare") /\ ~(c.owed < c.terms.threshold)
    <3>1. PICK r \in Checked : /\ r.at = "prepare" /\ r.terms = c.terms /\ r.owed = c.owed
                               /\ check' = [check EXCEPT ![k][w] = r]
      BY <1>2, <2>4
    <3>2. r.terms \in W!Terms /\ r.owed >= r.terms.threshold /\ W!Locked(k, w)
      BY <1>3, <2>1, <2>2, <2>4, <3>1
    <3> QED
      BY <1>1, <2>1, <3>1, <3>2, CheckMoves
  <2> QED
    BY <2>1, <2>3, <2>4
<1>9. CASE W!Prepare(k, w)
  <2>1. UNCHANGED lock /\ c.at = "prepare" /\ W!Put(k, w, "unlock")
    BY <1>9 DEF W!Prepare
  <2>2. c.terms.threshold \in 1..MaxOwed /\ c.owed \in 1..MaxOwed /\ c.terms.to \in Beneficiaries \cup {None}
    BY <1>1, <1>3, <2>1 DEF Checked, W!Terms, W!WithdrawAssumption
  <2>3. pending' \in [Earners -> W!Pending \cup {None}]
    BY <1>1, <1>9, <2>2 DEF W!Prepare, W!Pending
  <2>4. PICK r \in Checked : r.at = "unlock" /\ check' = [check EXCEPT ![k][w] = r]
    BY <1>2, <2>1
  <2> QED
    BY <1>1, <1>3, <2>1, <2>3, <2>4, CheckMoves
<1>10. CASE W!Unlock(k, w)
  <2>1. c.at = "unlock" /\ lock' = [lock EXCEPT ![w] = None] /\ W!Put(k, w, "done") /\ UNCHANGED pending
    BY <1>10 DEF W!Unlock
  <2>2. PICK r \in Checked : r.at = "done" /\ check' = [check EXCEPT ![k][w] = r]
    BY <1>2, <2>1
  <2> QED
    BY <1>1, <1>3, <2>1, <2>2, CheckMoves
<1> QED
  BY <1>4, <1>5, <1>6, <1>7, <1>8, <1>9, <1>10

\* A sweep queues the workers of the index, with whom nothing is under way.
LEMMA SweepKeeps ==
  ASSUME W!WithdrawAssumption, W!WithdrawInv, NEW k \in Checks, W!Sweep(k)
  PROVE  W!WithdrawInv'
<1>1. UNCHANGED <<settings, pending, lock, index, owed, edit, outlived>>
  BY DEF W!Sweep, W!stored
<1>2. PICK f : /\ check' = [check EXCEPT ![k] = f]
               /\ f = [w \in Earners |-> [W!Unasked EXCEPT !.at = IF w \in index THEN "queued" ELSE "done"]]
  BY DEF W!Sweep
<1>3. f \in [Earners -> Checked] /\ \A w \in Earners : f[w].at \in {"queued", "done"}
  BY <1>2 DEF Checked, W!Unasked, W!WithdrawAssumption
<1>4. /\ check' \in [Checks -> [Earners -> Checked]] /\ check'[k] = f
      /\ \A j \in Checks : j # k => check'[j] = check[j]
  BY <1>2, <1>3 DEF W!WithdrawInv, W!ChecksHold, Checked
<1>5. W!ChecksHold'
  <2>1. ASSUME NEW j \in Checks, NEW v \in Earners
        PROVE  /\ check'[j][v].at \in {"lock", "owed", "pending", "prepare"} => check'[j][v].terms \in W!Terms
               /\ check'[j][v].at = "prepare" => check'[j][v].owed >= check'[j][v].terms.threshold
    BY <1>3, <1>4 DEF W!WithdrawInv, W!ChecksHold
  <2> QED
    BY <1>4, <2>1 DEF W!ChecksHold, Checked
<1>6. W!LocksHold'
  BY <1>1, <1>3, <1>4 DEF W!LocksHold, W!Locked, W!WithdrawInv
<1>7. W!TypeOK' /\ W!EditsHold'
  BY <1>1 DEF W!WithdrawInv, W!TypeOK, W!EditsHold
<1> QED
  BY <1>5, <1>6, <1>7, LocksSuffice, PTL DEF W!WithdrawInv

\* Every step of the withdrawals.
LEMMA WithdrawStep ==
  ASSUME W!WithdrawAssumption, W!WithdrawInv, [W!Next]_(W!vars)
  PROVE  W!WithdrawInv'
<1>1. ASSUME NEW w \in Earners, W!LockExpires(w)
      PROVE  W!WithdrawInv'
  <2>1. /\ UNCHANGED <<settings, pending, index, owed, edit, check>>
        /\ lock' = [lock EXCEPT ![w] = None] /\ outlived' = outlived \cup {w}
    BY <1>1 DEF W!LockExpires
  <2>2. W!TypeOK' /\ W!EditsHold' /\ W!ChecksHold'
    BY <2>1 DEF W!WithdrawInv, W!TypeOK, W!EditsHold, W!ChecksHold
  <2>3. W!LocksHold'
    BY <2>1 DEF W!WithdrawInv, W!TypeOK, W!LocksHold, W!Locked
  <2> QED
    BY <2>2, <2>3, LocksSuffice, PTL DEF W!WithdrawInv
<1>2. CASE UNCHANGED <<settings, pending, lock, index, edit, check, outlived>> /\ owed' \in [Earners -> 0..MaxOwed]
  <2>1. W!TypeOK' /\ W!EditsHold' /\ W!ChecksHold' /\ W!LocksHold'
    BY <1>2 DEF W!WithdrawInv, W!TypeOK, W!EditsHold, W!ChecksHold, W!LocksHold, W!Locked
  <2> QED
    BY <2>1, LocksSuffice, PTL DEF W!WithdrawInv
<1>3. ASSUME NEW w \in Earners, W!OwedChanges(w)
      PROVE  W!WithdrawInv'
  <2>1. UNCHANGED <<settings, pending, lock, index, edit, check, outlived>> /\ owed' \in [Earners -> 0..MaxOwed]
    BY <1>3 DEF W!OwedChanges, W!stored, W!WithdrawInv, W!TypeOK, W!WithdrawAssumption
  <2> QED
    BY <1>2, <2>1
<1>4. CASE UNCHANGED W!vars
  <2>1. UNCHANGED <<settings, pending, lock, index, edit, check, outlived>> /\ owed' \in [Earners -> 0..MaxOwed]
    BY <1>4 DEF W!vars, W!stored, W!WithdrawInv, W!TypeOK
  <2> QED
    BY <1>2, <2>1
<1> QED
  BY <1>1, <1>3, <1>4, EditKeeps, CheckKeeps, SweepKeeps DEF W!Next

\* However many check a worker at once: unless a lease ran out, one of them at a time
\* evaluates and prepares the withdrawal (autoWithdraw.js).
THEOREM OnePreparerAtATime == ASSUME W!WithdrawAssumption PROVE W!Spec => []W!OnePreparer
<1>1. W!Init => W!WithdrawInv
  BY WithdrawInit
<1>2. W!WithdrawInv /\ [W!Next]_(W!vars) => W!WithdrawInv'
  BY WithdrawStep
<1>3. W!WithdrawInv => W!OnePreparer
  BY DEF W!WithdrawInv
<1> QED
  BY <1>1, <1>2, <1>3, PTL DEF W!Spec
-----------------------------------------------------------------------------
(* The relay of what payers and workers have signed *)

\* Nothing is signed and nothing relayed.
LEMMA RelayInit ==
  ASSUME Sp!Init
  PROVE  Sp!RelayInv
<1>1. Sp!RelayTypeOK
  BY DEF Sp!Init, Sp!RelayTypeOK
<1> QED
  BY <1>1 DEF Sp!Init, Sp!RelayInv, Sp!RelayHolds

\* A request goes on with the transaction it relays.
Relays == [tx : Txs, call : Sp!Calls, left : Int, at : Sp!Steps]
LEMMA RequestMoves ==
  ASSUME Sp!RelayInv, NEW r \in Submissions, request[r] # None, NEW q \in Relays,
         request' = [request EXCEPT ![r] = q], q.tx = request[r].tx, q.call = request[r].call,
         q.at = "record" => q.tx \in landed,
         UNCHANGED <<tx, used, landed, stashed>>,
         network' = network \/ network' = network \cup {request[r].tx},
         \/ ledger' = ledger
         \/ request[r].at = "record" /\ ledger' = ledger \cup {[tx |-> request[r].tx, call |-> request[r].call]}
  PROVE  Sp!RelayInv'
<1>1. /\ request[r] \in [tx : Txs, call : Sp!Calls, left : Int, at : Sp!Steps]
      /\ tx[request[r].tx] # None /\ tx[request[r].tx].call = request[r].call
      /\ Sp!FairPrice(request[r].call)
      /\ request[r].at = "record" => request[r].tx \in landed
  BY DEF Sp!RelayInv, Sp!RelayTypeOK
<1>2. request \in [Submissions -> Relays \cup {None}]
  BY DEF Sp!RelayInv, Sp!RelayTypeOK, Relays
<1>4. Sp!RelayTypeOK'
  <2>1. network' \subseteq Txs /\ landed' \subseteq network' /\ stashed' \in BOOLEAN
    BY <1>1 DEF Sp!RelayInv, Sp!RelayTypeOK
  <2>2. ledger' \subseteq [tx : Txs, call : Sp!Calls]
    BY <1>1 DEF Sp!RelayInv, Sp!RelayTypeOK
  <2>3. request' \in [Submissions -> Relays \cup {None}]
    BY <1>2
  <2>4. tx' \in [Txs -> Sp!SignedTxs \cup {None}] /\ used' \in [Signers -> Int]
    BY DEF Sp!RelayInv, Sp!RelayTypeOK
  <2> QED
    BY <2>1, <2>2, <2>3, <2>4 DEF Sp!RelayTypeOK, Relays
<1>5. \A e \in ledger' : e.tx \in landed' /\ e.call = tx'[e.tx].call
  BY <1>1 DEF Sp!RelayInv, Sp!RelayHolds
<1>6. Sp!RelayHolds'
  <2>1. ASSUME NEW e \in ledger', NEW f \in ledger', e.tx = f.tx
        PROVE  e = f
    <3>1. e \in [tx : Txs, call : Sp!Calls] /\ f \in [tx : Txs, call : Sp!Calls]
      BY <1>4 DEF Sp!RelayTypeOK
    <3>2. e.call = f.call
      BY <1>5, <2>1
    <3> QED
      BY <2>1, <3>1, <3>2
  <2>2. \A x \in landed' : tx'[x].call.name = "submit" => tx'[x].call.amount = Price
    BY DEF Sp!RelayInv, Sp!RelayHolds
  <2> QED
    BY <1>5, <2>1, <2>2 DEF Sp!RelayHolds
<1>7. \A x \in network' : tx'[x] # None /\ Sp!FairPrice(tx'[x].call)
  BY <1>1 DEF Sp!RelayInv
<1>8. ASSUME NEW p \in Submissions, request'[p] # None
      PROVE  /\ tx'[request'[p].tx] # None /\ tx'[request'[p].tx].call = request'[p].call
             /\ Sp!FairPrice(request'[p].call)
             /\ request'[p].at = "record" => request'[p].tx \in landed'
  <2>1. CASE p = r
    BY <1>1, <1>2, <2>1
  <2>2. CASE p # r
    BY <1>2, <1>8, <2>2 DEF Sp!RelayInv
  <2> QED
    BY <2>1, <2>2
<1> QED
  BY <1>4, <1>6, <1>7, <1>8 DEF Sp!RelayInv, Sp!FairPrice

\* What a request does after it was taken on.
LEMMA RequestKeeps ==
  ASSUME Sp!RelayInv, NEW r \in Submissions,
         Sp!Submit(r) \/ Sp!Accepted(r) \/ Sp!Rejected(r) \/ Sp!Fails(r) \/ Sp!RecordWithdrawal(r)
  PROVE  Sp!RelayInv'
<1>1. request[r] # None /\ request \in [Submissions -> Relays \cup {None}]
  BY DEF Sp!Submit, Sp!Accepted, Sp!Rejected, Sp!Fails, Sp!Answered, Sp!RecordWithdrawal, Sp!RelayInv, Sp!RelayTypeOK, Relays
<1>2. request[r] \in Relays
  BY <1>1
<1>3. ASSUME NEW step \in Sp!Steps
      PROVE  /\ [request[r] EXCEPT !.at = step] \in Relays /\ [request[r] EXCEPT !.at = step].at = step
             /\ [request[r] EXCEPT !.at = step].tx = request[r].tx
             /\ [request[r] EXCEPT !.at = step].call = request[r].call
  BY <1>2 DEF Relays
<1>4. ASSUME NEW step \in Sp!Steps, Sp!Answered(r, step), step = "record" => request[r].tx \in landed
      PROVE  Sp!RelayInv'
  <2> DEFINE n == IF step = "send" THEN request[r].left ELSE 0
             q == [request[r] EXCEPT !.at = step, !.left = n]
  <2>0. request' = [request EXCEPT ![r] = q]
    BY <1>4 DEF Sp!Answered
  <2>1. q \in Relays /\ q.tx = request[r].tx /\ q.call = request[r].call /\ q.at = step
    <3>1. n \in Int
      BY <1>2 DEF Relays
    <3> HIDE DEF n
    <3> QED
      BY <1>2, <1>4, <3>1 DEF Relays
  <2>2. UNCHANGED <<tx, used, network, landed, stashed, ledger>>
    BY <1>4 DEF Sp!Answered
  <2> HIDE DEF q
  <2> QED
    BY <1>1, <1>4, <2>0, <2>1, <2>2, RequestMoves
<1>5. CASE Sp!Submit(r)
  <2> DEFINE q == [request[r] EXCEPT !.at = "sent", !.left = request[r].left - 1]
  <2>1. /\ request' = [request EXCEPT ![r] = q]
        /\ UNCHANGED <<tx, used, landed, stashed, ledger>> /\ network' = network \cup {request[r].tx}
    BY <1>1, <1>2, <1>5 DEF Sp!Submit
  <2>2. q \in Relays /\ q.tx = request[r].tx /\ q.call = request[r].call /\ q.at = "sent"
    <3> DEFINE n == request[r].left - 1
    <3>1. n \in Int /\ "sent" \in Sp!Steps
      BY <1>2 DEF Sp!Steps, Relays
    <3> HIDE DEF n
    <3>2. q = [request[r] EXCEPT !.at = "sent", !.left = n]
      BY DEF n
    <3> QED
      BY <1>2, <3>1, <3>2 DEF Relays
  <2> HIDE DEF q
  <2> QED
    BY <1>1, <2>1, <2>2, RequestMoves
<1>6. CASE Sp!Accepted(r)
  <2>1. request[r].tx \in landed /\ (Sp!Answered(r, "record") \/ Sp!Answered(r, "done"))
    BY <1>6 DEF Sp!Accepted
  <2>2. {"record", "done"} \subseteq Sp!Steps
    BY DEF Sp!Steps
  <2> QED
    BY <1>4, <2>1, <2>2
<1>7. CASE Sp!Rejected(r) \/ Sp!Fails(r)
  <2>1. Sp!Answered(r, "failed") \/ Sp!Answered(r, "send")
    BY <1>7 DEF Sp!Rejected, Sp!Fails
  <2>2. {"failed", "send"} \subseteq Sp!Steps
    BY DEF Sp!Steps
  <2> QED
    BY <1>4, <2>1, <2>2
<1>8. CASE Sp!RecordWithdrawal(r)
  <2>1. "done" \in Sp!Steps
    BY DEF Sp!Steps
  <2>2. PICK q \in Relays : /\ request' = [request EXCEPT ![r] = q] /\ q.tx = request[r].tx
                            /\ q.call = request[r].call /\ q.at = "done"
    BY <1>1, <1>3, <1>8, <2>1 DEF Sp!RecordWithdrawal
  <2>3. /\ request[r].at = "record" /\ UNCHANGED <<tx, used, network, landed, stashed>>
        /\ \/ ledger' = ledger
           \/ ledger' = ledger \cup {[tx |-> request[r].tx, call |-> request[r].call]}
    BY <1>8 DEF Sp!RecordWithdrawal
  <2> QED
    BY <1>1, <2>2, <2>3, RequestMoves
<1> QED
  BY <1>5, <1>6, <1>7, <1>8

\* Every step of the relay: what is signed, taken on and lands, too.
LEMMA RelayStep ==
  ASSUME Sp!SponsorAssumption, Sp!RelayInv, Sp!RelayNext \/ UNCHANGED Sp!relayVars
  PROVE  Sp!RelayInv'
<1>1. ASSUME NEW x \in Txs, NEW call \in Sp!Calls, tx[x] = None, Sp!Sign(x, call)
      PROVE  Sp!RelayInv'
  <2> DEFINE s == [call |-> call, seq |-> used[call.by] + 1]
  <2>1. tx' = [tx EXCEPT ![x] = s] /\ UNCHANGED <<used, network, landed, stashed, request, ledger>>
    BY <1>1 DEF Sp!Sign
  <2>2. s \in Sp!SignedTxs
    <3>1. call.by \in Signers
      BY DEF Sp!Calls, Sp!Call
    <3>2. used[call.by] \in Int
      BY <3>1 DEF Sp!RelayInv, Sp!RelayTypeOK
    <3> QED
      BY <3>2 DEF Sp!SignedTxs
  <2> HIDE DEF s
  <2>3. \A y : tx[y] # None /\ y \in Txs => tx'[y] = tx[y]
    BY <1>1, <2>1 DEF Sp!RelayInv, Sp!RelayTypeOK
  <2>4. \A y \in network : tx'[y] = tx[y] /\ y \in Txs
    BY <2>3 DEF Sp!RelayInv, Sp!RelayTypeOK
  <2>5. \A r \in Submissions : request[r] # None => tx'[request[r].tx] = tx[request[r].tx]
    BY <2>3 DEF Sp!RelayInv, Sp!RelayTypeOK
  <2>6. \A e \in ledger : tx'[e.tx] = tx[e.tx]
    BY <2>4 DEF Sp!RelayInv, Sp!RelayTypeOK, Sp!RelayHolds
  <2>7. Sp!RelayTypeOK'
    BY <2>1, <2>2 DEF Sp!RelayInv, Sp!RelayTypeOK
  <2>8. Sp!RelayHolds'
    BY <2>1, <2>4, <2>6 DEF Sp!RelayInv, Sp!RelayTypeOK, Sp!RelayHolds
  <2> QED
    BY <2>1, <2>4, <2>5, <2>7, <2>8 DEF Sp!RelayInv, Sp!FairPrice
<1>2. ASSUME NEW x \in Txs, Sp!Lands(x)
      PROVE  Sp!RelayInv'
  <2>1. /\ x \in network /\ landed' = landed \cup {x} /\ UNCHANGED <<tx, network, stashed, request, ledger>>
        /\ used' = [used EXCEPT ![tx[x].call.by] = used[tx[x].call.by] + 1]
    BY <1>2 DEF Sp!Lands
  <2>2. used' \in [Signers -> Int]
    <3>1. used \in [Signers -> Int]
      BY DEF Sp!RelayInv, Sp!RelayTypeOK
    <3>2. CASE tx[x].call.by \in Signers
      BY <2>1, <3>1, <3>2
    <3>3. CASE tx[x].call.by \notin Signers
      BY <2>1, <3>1, <3>3
    <3> QED
      BY <3>2, <3>3
  <2>3. Sp!RelayTypeOK'
    BY <2>1, <2>2 DEF Sp!RelayInv, Sp!RelayTypeOK
  <2>4. Sp!RelayHolds'
    BY <2>1 DEF Sp!RelayInv, Sp!RelayHolds, Sp!FairPrice
  <2> QED
    BY <2>1, <2>3, <2>4 DEF Sp!RelayInv
<1>3. ASSUME NEW r \in Submissions, NEW x \in Txs, NEW call \in Sp!Calls, tx[x] # None, Sp!Relay(r, x, call)
      PROVE  Sp!RelayInv'
  <2> DEFINE q == [tx |-> x, call |-> call, left |-> SubmitAttempts, at |-> "send"]
  <2>1. /\ request' = [request EXCEPT ![r] = q] /\ UNCHANGED <<tx, used, network, landed, stashed, ledger>>
        /\ tx[x].call = call /\ Sp!FairPrice(call)
    BY <1>3 DEF Sp!Relay, Sp!Matches, Sp!Quoted, Sp!FairPrice
  <2>2. q \in [tx : Txs, call : Sp!Calls, left : Int, at : Sp!Steps] /\ q.tx = x /\ q.call = call /\ q.at = "send"
    BY DEF Sp!Steps, Sp!SponsorAssumption
  <2> HIDE DEF q
  <2>3. Sp!RelayTypeOK'
    BY <2>1, <2>2 DEF Sp!RelayInv, Sp!RelayTypeOK
  <2>4. Sp!RelayHolds'
    BY <2>1 DEF Sp!RelayInv, Sp!RelayHolds
  <2>5. ASSUME NEW p \in Submissions, request'[p] # None
        PROVE  /\ tx'[request'[p].tx] # None /\ tx'[request'[p].tx].call = request'[p].call
               /\ Sp!FairPrice(request'[p].call)
               /\ request'[p].at = "record" => request'[p].tx \in landed'
    <3>1. CASE p = r
      BY <1>3, <2>1, <2>2, <3>1 DEF Sp!RelayInv, Sp!RelayTypeOK
    <3>2. CASE p # r
      BY <2>1, <2>5, <3>2 DEF Sp!RelayInv, Sp!RelayTypeOK
    <3> QED
      BY <3>1, <3>2
  <2> QED
    BY <2>1, <2>3, <2>4, <2>5 DEF Sp!RelayInv, Sp!FairPrice
<1>4. CASE UNCHANGED <<tx, used, network, landed, request, ledger>> /\ stashed' \in BOOLEAN
  BY <1>4 DEF Sp!RelayInv, Sp!RelayTypeOK, Sp!RelayHolds, Sp!FairPrice
<1>5. CASE Sp!StashDropped \/ UNCHANGED Sp!relayVars
  <2>1. UNCHANGED <<tx, used, network, landed, request, ledger>> /\ stashed' \in BOOLEAN
    BY <1>5 DEF Sp!StashDropped, Sp!relayVars, Sp!RelayInv, Sp!RelayTypeOK
  <2> QED
    BY <1>4, <2>1
<1> QED
  BY <1>1, <1>2, <1>3, <1>5, RequestKeeps DEF Sp!RelayNext

\* However often Horizon's answers are lost and requests try again: what the platform paid
\* the fee of is what was signed, at the price that was quoted, and a withdrawal enters the
\* earnings ledger once, if it landed (sponsor.js, server.js).
THEOREM RelayedAsSigned == ASSUME Sp!SponsorAssumption PROVE Sp!Spec => []Sp!RelayHolds
<1>1. Sp!Init => Sp!RelayInv
  BY RelayInit
<1>2. Sp!RelayInv /\ [Sp!Next]_(Sp!vars) => Sp!RelayInv'
  <2>1. [Sp!Next]_(Sp!vars) => Sp!RelayNext \/ UNCHANGED Sp!relayVars
    BY DEF Sp!Next, Sp!OnboardNext, Sp!vars
  <2> QED
    BY <2>1, RelayStep
<1>3. Sp!RelayInv => Sp!RelayHolds
  BY DEF Sp!RelayInv
<1> QED
  BY <1>1, <1>2, <1>3, PTL DEF Sp!Spec

-----------------------------------------------------------------------------
(* The limit on sponsored onboarding *)

\* What is known of finite sets is known of those of Sponsor.
LEMMA SponsorCardinality == \A S : /\ Sp!Cardinality(S) = Cardinality(S)
                                   /\ Sp!IsFiniteSet(S) <=> IsFiniteSet(S)
<1>1. \A S : Sp!Cardinality(S) = Cardinality(S)
  BY Zenon DEF Sp!Cardinality, Cardinality
<1>2. \A S : Sp!IsFiniteSet(S) <=> IsFiniteSet(S)
  BY Zenon DEF Sp!IsFiniteSet, IsFiniteSet
<1> QED
  BY <1>1, <1>2

\* Nothing was built yet.
LEMMA OnboardInit ==
  ASSUME Sp!SponsorAssumption, Sp!Init
  PROVE  Sp!OnboardInv
<1>1. Sp!Cardinality({}) = 0 /\ Sp!IsFiniteSet({})
  BY SponsorCardinality, FS_EmptySet
<1>2. \A s \in Signers, start \in 0..MaxTime : Sp!Within(s, start) = {}
  BY DEF Sp!Init, Sp!Within
<1>3. Sp!OnboardHolds
  BY <1>1, <1>2 DEF Sp!OnboardHolds, Sp!SponsorAssumption
<1> QED
  BY <1>1, <1>3 DEF Sp!Init, Sp!OnboardInv

\* A build is one more of those the window counts; who has none to spare builds nothing.
LEMMA BuildKeeps ==
  ASSUME Sp!SponsorAssumption, Sp!OnboardInv, NEW s \in Signers, Sp!BuildSponsoredOnboardTx(s)
  PROVE  Sp!OnboardInv'
<1> DEFINE build == [n |-> Sp!Cardinality(history[s]), at |-> now]
           R == Sp!Recent(s)
<1>1. /\ Sp!Cardinality(R) < OnboardMax /\ now' = now
      /\ attempts' = [attempts EXCEPT ![s] = R \cup {build}]
      /\ history' = [history EXCEPT ![s] = history[s] \cup {build}]
  BY DEF Sp!BuildSponsoredOnboardTx
<1>2. /\ IsFiniteSet(history[s]) /\ attempts[s] \subseteq history[s] /\ now \in Int
      /\ \A b \in history[s] : b.at \in Int /\ b.at <= now
      /\ \A b \in history[s] : now - b.at < OnboardWindow => b \in attempts[s]
      /\ DOMAIN attempts = Signers /\ DOMAIN history = Signers
  BY SponsorCardinality DEF Sp!OnboardInv
<1>3. R \subseteq history[s] /\ \A b \in history[s] : now - b.at < OnboardWindow => b \in R
  BY <1>2 DEF Sp!Recent
<1>4. /\ attempts'[s] = R \cup {build} /\ history'[s] = history[s] \cup {build}
      /\ \A o \in Signers : o # s => attempts'[o] = attempts[o] /\ history'[o] = history[o]
      /\ DOMAIN attempts' = Signers /\ DOMAIN history' = Signers
  BY <1>1, <1>2
<1>5. build.at = now
  OBVIOUS
<1> HIDE DEF build, R
<1>6. IsFiniteSet(R) /\ IsFiniteSet(R \cup {build}) /\ IsFiniteSet(history[s] \cup {build})
      /\ Cardinality(R \cup {build}) <= OnboardMax
  <2>1. IsFiniteSet(R)
    BY <1>2, <1>3, FS_Subset
  <2>2. Cardinality(R) \in Nat /\ Cardinality(R) < OnboardMax
    BY <2>1, <1>1, FS_CardinalityType, SponsorCardinality
  <2>3. IsFiniteSet(R \cup {build}) /\ Cardinality(R \cup {build}) <= Cardinality(R) + 1
    <3>1. /\ IsFiniteSet(R \cup {build})
          /\ Cardinality(R \cup {build}) = IF build \in R THEN Cardinality(R) ELSE Cardinality(R) + 1
      BY <2>1, FS_AddElement
    <3> QED
      BY <2>2, <3>1
  <2>4. IsFiniteSet(history[s] \cup {build})
    BY <1>2, FS_AddElement
  <2>5. Cardinality(R \cup {build}) \in Nat
    BY <2>3, FS_CardinalityType
  <2> QED
    BY <2>1, <2>2, <2>3, <2>4, <2>5 DEF Sp!SponsorAssumption
<1>7. Sp!OnboardHolds'
  <2> SUFFICES ASSUME NEW o \in Signers, NEW start \in 0..MaxTime
               PROVE  Sp!Cardinality(Sp!Within(o, start)') <= OnboardMax
    BY DEF Sp!OnboardHolds
  <2>1. start \in Int
    BY DEF Sp!SponsorAssumption
  <2>2. Sp!Cardinality(Sp!Within(o, start)) <= OnboardMax
    BY DEF Sp!OnboardInv, Sp!OnboardHolds
  <2>3. CASE o # s
    BY <1>4, <2>2, <2>3 DEF Sp!Within
  <2>4. CASE o = s /\ now \notin start .. start + OnboardWindow - 1
    <3>1. Sp!Within(s, start)' = Sp!Within(s, start)
      BY <1>4, <1>5, <2>4 DEF Sp!Within
    <3> QED
      BY <2>2, <2>4, <3>1
  <2>5. CASE o = s /\ now \in start .. start + OnboardWindow - 1
    <3>1. \A b \in history[s] : b.at \in start .. start + OnboardWindow - 1 => b \in R
      BY <1>2, <1>3, <2>1, <2>5 DEF Sp!SponsorAssumption
    <3>2. Sp!Within(s, start)' \subseteq R \cup {build}
      BY <1>4, <3>1 DEF Sp!Within
    <3>3. Cardinality(Sp!Within(s, start)') <= Cardinality(R \cup {build})
      BY <1>6, <3>2, FS_Subset
    <3>4. IsFiniteSet(Sp!Within(s, start)')
      BY <1>6, <3>2, FS_Subset
    <3>5. Cardinality(Sp!Within(s, start)') \in Nat /\ Cardinality(R \cup {build}) \in Nat
      BY <1>6, <3>4, FS_CardinalityType
    <3> QED
      BY <1>6, <2>5, <3>3, <3>5, SponsorCardinality DEF Sp!SponsorAssumption
  <2> QED
    BY <2>3, <2>4, <2>5
<1>8. ASSUME NEW o \in Signers
      PROVE  /\ Sp!IsFiniteSet(history'[o]) /\ attempts'[o] \subseteq history'[o]
             /\ \A b \in history'[o] : b.at \in Int /\ b.at <= now
             /\ \A b \in history'[o] : now - b.at < OnboardWindow => b \in attempts'[o]
  <2>1. CASE o = s
    <3>1. Sp!IsFiniteSet(history[s] \cup {build})
      BY <1>6, SponsorCardinality
    <3>2. \A b \in history[s] \cup {build} : b.at \in Int /\ b.at <= now
      BY <1>2, <1>5
    <3>3. \A b \in history[s] \cup {build} : now - b.at < OnboardWindow => b \in R \cup {build}
      BY <1>3
    <3>4. R \cup {build} \subseteq history[s] \cup {build}
      BY <1>3
    <3> QED
      BY <1>4, <2>1, <3>1, <3>2, <3>3, <3>4
  <2>2. CASE o # s
    BY <1>4, <2>2 DEF Sp!OnboardInv
  <2> QED
    BY <2>1, <2>2
<1> QED
  BY <1>1, <1>2, <1>4, <1>7, <1>8 DEF Sp!OnboardInv

\* The clock runs; the rest is not about it.
LEMMA OnboardStep ==
  ASSUME Sp!SponsorAssumption, Sp!OnboardInv, Sp!OnboardNext \/ UNCHANGED Sp!onboardVars
  PROVE  Sp!OnboardInv'
<1>1. CASE \E s \in Signers : Sp!BuildSponsoredOnboardTx(s)
  BY <1>1, BuildKeeps
<1>2. CASE UNCHANGED <<attempts, history>> /\ now' \in {now, now + 1}
  <2>1. Sp!OnboardHolds'
    BY <1>2 DEF Sp!OnboardInv, Sp!OnboardHolds, Sp!Within
  <2>2. now' \in Int /\ now <= now'
    BY <1>2 DEF Sp!OnboardInv
  <2>3. ASSUME NEW s \in Signers, NEW b \in history[s]
        PROVE  b.at \in Int /\ b.at <= now' /\ (now' - b.at < OnboardWindow => b \in attempts[s])
    <3>1. now \in Int /\ b.at \in Int /\ b.at <= now /\ (now - b.at < OnboardWindow => b \in attempts[s])
      BY DEF Sp!OnboardInv
    <3> QED
      BY <1>2, <3>1 DEF Sp!SponsorAssumption
  <2> QED
    BY <1>2, <2>1, <2>2, <2>3 DEF Sp!OnboardInv
<1>3. (Sp!PlatformTx \/ Sp!Tick \/ UNCHANGED Sp!onboardVars \/ \E s \in Signers : Sp!FinalizeSponsoredOnboardTx(s))
      => UNCHANGED <<attempts, history>> /\ now' \in {now, now + 1}
  BY DEF Sp!PlatformTx, Sp!Tick, Sp!onboardVars, Sp!FinalizeSponsoredOnboardTx
<1> QED
  BY <1>1, <1>2, <1>3 DEF Sp!OnboardNext

\* Wherever a stretch of a window's length begins, it has no more builds of an onboarding
\* transaction for an address than the limit (sponsor.js).
THEOREM OnboardingIsLimited == ASSUME Sp!SponsorAssumption PROVE Sp!Spec => []Sp!OnboardHolds
<1>1. Sp!Init => Sp!OnboardInv
  BY OnboardInit
<1>2. Sp!OnboardInv /\ [Sp!Next]_(Sp!vars) => Sp!OnboardInv'
  <2>1. [Sp!Next]_(Sp!vars) => Sp!OnboardNext \/ UNCHANGED Sp!onboardVars
    BY DEF Sp!Next, Sp!RelayNext, Sp!vars
  <2> QED
    BY <2>1, OnboardStep
<1>3. Sp!OnboardInv => Sp!OnboardHolds
  BY DEF Sp!OnboardInv
<1> QED
  BY <1>1, <1>2, <1>3, PTL DEF Sp!Spec

----------------------------------------------------------------------------
LEMMA LeastOf ==
  ASSUME NEW S \in SUBSET Nat, S # {}
  PROVE  \E n \in S : \A k \in S : n <= k
<1> DEFINE R == OpToRel(<, Nat)
<1>1. \A m, n \in Nat : m < n => <<m, n>> \in R
  BY DEF OpToRel
<1>2. IsWellFoundedOn(R, Nat)
  BY NatLessThanWellFounded
<1> HIDE DEF R
<1>3. PICK n \in S : \A k \in S : <<k, n>> \notin R
  <2>1. S \subseteq Nat
    OBVIOUS
  <2> QED
    BY <1>2, <2>1, WFMin
<1>4. ASSUME NEW k \in S PROVE n <= k
  <2>1. n \in Nat /\ k \in Nat /\ <<k, n>> \notin R
    BY <1>3, <1>4
  <2>2. ~(k < n)
    BY <1>1, <2>1
  <2> QED
    BY <2>1, <2>2
<1> QED
  BY <1>4

(* The record a payout is derived from.                                    *)

LEMMA ProvenanceCardinality == \A S : Pr!Cardinality(S) = Cardinality(S)
BY DEF Pr!Cardinality, Cardinality

LEMMA ImagesAreFinite ==
  ASSUME NEW S, IsFiniteSet(S), NEW T, NEW f \in [S -> T], \A t \in T : \E x \in S : t = f[x]
  PROVE  IsFiniteSet(T)
<1>1. f \in Surjection(S, T)
  BY DEF Surjection
<1> QED
  BY <1>1, FS_Surjection

\* The workers of a quorum are all different.
LEMMA QuorumShape ==
  ASSUME Pr!ProvenanceAssumption, NEW subs \in Pr!Quorums
  PROVE  /\ \E n \in Nat : DOMAIN subs = 1..n /\ Len(subs) = n /\ (subs = <<>> <=> n = 0)
         /\ \A i \in DOMAIN subs : subs[i].answer \in Answers
         /\ \A i, j \in DOMAIN subs : subs[i].workerId = subs[j].workerId => i = j
<1>1. Quorum \in Seq(Pr!Range(Quorum)) /\ Len(Quorum) \in Nat /\ DOMAIN Quorum = 1..Len(Quorum)
  BY DEF Pr!ProvenanceAssumption
<1>2. PICK n \in 0..Len(Quorum) : subs \in [1..n -> Pr!Submitted]
  BY DEF Pr!Quorums
<1>3. n \in Nat /\ DOMAIN subs = 1..n /\ \A i \in 1..n : i \in DOMAIN Quorum
  BY <1>1, <1>2
<1>4. \A i \in 1..n : subs[i].workerId = Quorum[i] /\ subs[i].answer \in Answers
  BY <1>2, <1>3 DEF Pr!Quorums, Pr!Submitted
<1>5. \A i, j \in 1..n : Quorum[i] = Quorum[j] => i = j
  BY <1>3 DEF Pr!ProvenanceAssumption, Pr!IsInjective
<1>6. Len(subs) = n /\ (subs = <<>> <=> n = 0)
  <2>1. subs \in Seq(Pr!Range(subs))
    BY <1>2, <1>3 DEF Pr!Range
  <2> QED
    BY <1>3, <2>1
<1> QED
  BY <1>3, <1>4, <1>5, <1>6

LEMMA BackersAre ==
  ASSUME Pr!ProvenanceAssumption, NEW subs \in Pr!Quorums, NEW as, NEW i \in DOMAIN subs
  PROVE  /\ Pr!Backers(subs, as, i) \subseteq Pr!Ids(subs)
         /\ IsFiniteSet(Pr!Backers(subs, as, i)) /\ Cardinality(Pr!Backers(subs, as, i)) \in Nat
         /\ \A j \in DOMAIN subs :
              subs[j].workerId \in Pr!Backers(subs, as, i) <=> as[subs[j].answer] = as[subs[i].answer]
<1> DEFINE mine == {k \in DOMAIN subs : as[subs[k].answer] = as[subs[i].answer]}
<1>1. IsFiniteSet(mine)
  <2>1. IsFiniteSet(DOMAIN subs)
    BY QuorumShape, FS_Interval
  <2> QED
    BY <2>1, FS_Subset
<1>2. Pr!Backers(subs, as, i) = {subs[j].workerId : j \in mine}
  BY DEF Pr!Backers
<1>3. IsFiniteSet({subs[j].workerId : j \in mine})
  <2> DEFINE T == {subs[j].workerId : j \in mine}
             f == [j \in mine |-> subs[j].workerId]
  <2>1. f \in [mine -> T] /\ \A t \in T : \E x \in mine : t = f[x]
    OBVIOUS
  <2> HIDE DEF f, T, mine
  <2>2. IsFiniteSet(T)
    BY <1>1, <2>1, ImagesAreFinite
  <2> QED
    BY <2>2 DEF T
<1>4. \A j \in DOMAIN subs : subs[j].workerId \in {subs[k].workerId : k \in mine} <=> j \in mine
  BY QuorumShape
<1> QED
  BY <1>2, <1>3, <1>4, FS_CardinalityType DEF Pr!Ids

LEMMA LargestAreNat ==
  ASSUME Pr!ProvenanceAssumption, NEW subs \in Pr!Quorums, NEW as, NEW i \in Pr!Largest(subs, as)
  PROVE  i \in Nat
<1>1. PICK n \in Nat : DOMAIN subs = 1..n
  BY QuorumShape
<1>2. i \in 1..n
  BY <1>1 DEF Pr!Largest
<1> QED
  BY <1>2

\* There is a first one of the largest groups.
LEMMA FirstLargest ==
  ASSUME Pr!ProvenanceAssumption, NEW subs \in Pr!Quorums, subs # <<>>, NEW as
  PROVE  \E i \in Pr!Largest(subs, as) : \A j \in Pr!Largest(subs, as) : i <= j
<1> DEFINE size(i) == Cardinality(Pr!Backers(subs, as, i))
<1>1. PICK n \in Nat : DOMAIN subs = 1..n /\ n # 0
  BY QuorumShape
<1>2. \A i \in DOMAIN subs : size(i) \in Nat
  BY BackersAre
<1>3. \A i \in DOMAIN subs : size(i) <= Cardinality(Pr!Ids(subs)) /\ Cardinality(Pr!Ids(subs)) \in Nat
  <2>1. IsFiniteSet(DOMAIN subs)
    BY <1>1, FS_Interval
  <2>2. IsFiniteSet(Pr!Ids(subs))
    <3> DEFINE f == [i \in DOMAIN subs |-> subs[i].workerId]
    <3>1. f \in [DOMAIN subs -> Pr!Ids(subs)] /\ \A t \in Pr!Ids(subs) : \E x \in DOMAIN subs : t = f[x]
      BY DEF Pr!Ids
    <3> HIDE DEF f
    <3> QED
      BY <2>1, <3>1, ImagesAreFinite
  <2> QED
    BY <2>2, BackersAre, FS_Subset, FS_CardinalityType
<1> DEFINE all == Cardinality(Pr!Ids(subs))
           gaps == {all - size(i) : i \in DOMAIN subs}
<1>4. PICK i \in DOMAIN subs : \A j \in DOMAIN subs : all - size(i) <= all - size(j)
  <2>1. gaps # {}
    <3>1. 1 \in DOMAIN subs
      BY <1>1
    <3>2. all - size(1) \in gaps
      BY <3>1
    <3> QED
      BY <3>2
  <2>3. \A g \in gaps : g \in Nat
    <3>1. ASSUME NEW i \in DOMAIN subs PROVE all - size(i) \in Nat
      <4>1. all \in Nat /\ size(i) \in Nat /\ size(i) <= all
        BY <1>2, <1>3
      <4> HIDE DEF size, all
      <4> QED
        BY <4>1
    <3> QED
      BY <3>1
  <2>2. PICK g \in gaps : \A h \in gaps : g <= h
    BY <2>1, <2>3, LeastOf
  <2> QED
    BY <2>2
<1>5. ASSUME NEW j \in DOMAIN subs PROVE size(j) <= size(i)
  <2>1. all - size(i) <= all - size(j) /\ all \in Nat /\ size(i) \in Nat /\ size(j) \in Nat
    BY <1>2, <1>3, <1>4
  <2> HIDE DEF size, all
  <2> QED
    BY <2>1
<1>6. i \in Pr!Largest(subs, as)
  BY <1>5, ProvenanceCardinality DEF Pr!Largest
<1>7. \A j \in Pr!Largest(subs, as) : j \in Nat
  BY LargestAreNat
<1> QED
  <2>1. Pr!Largest(subs, as) \in SUBSET Nat /\ Pr!Largest(subs, as) # {}
    BY <1>6, <1>7
  <2> QED
    BY <2>1, LeastOf

\* It is the one that wins.
LEMMA FirstWins ==
  ASSUME Pr!ProvenanceAssumption, NEW subs \in Pr!Quorums, NEW as,
         NEW i \in Pr!Largest(subs, as), \A j \in Pr!Largest(subs, as) : i <= j
  PROVE  Pr!ClusterVote(subs, as) = Pr!Favouring(subs, as, i)
<1>1. \A j \in Pr!Largest(subs, as) : j \in Nat
  BY LargestAreNat
<1>2. ASSUME NEW k \in Pr!Largest(subs, as), \A j \in Pr!Largest(subs, as) : k <= j PROVE k = i
  <2>1. k <= i /\ i <= k
    BY <1>2
  <2>2. k \in Nat /\ i \in Nat
    BY <1>1
  <2> QED
    BY <2>1, <2>2
<1> DEFINE first(k) == \A j \in Pr!Largest(subs, as) : k <= j
           won == CHOOSE k \in Pr!Largest(subs, as) : first(k)
<1>3. won = i
  <2>1. first(i) /\ i \in Pr!Largest(subs, as)
    OBVIOUS
  <2>2. \A k \in Pr!Largest(subs, as) : first(k) => k = i
    BY <1>2
  <2> HIDE DEF first
  <2>3. won \in Pr!Largest(subs, as) /\ first(won)
    BY <2>1, Zenon
  <2> QED
    BY <2>2, <2>3, Zenon
<1> QED
  BY <1>3 DEF Pr!ClusterVote

\* Whatever counts as one, identical texts do, and then nothing is merged.
LEMMA ExactBackers ==
  ASSUME Pr!ProvenanceAssumption, NEW subs \in Pr!Quorums, NEW as, NEW i \in DOMAIN subs
  PROVE  /\ Pr!Backers(subs, Pr!Exactly, i) \subseteq Pr!Backers(subs, as, i)
         /\ \A j \in DOMAIN subs :
              subs[j].workerId \in Pr!Backers(subs, Pr!Exactly, i) <=> subs[j].answer = subs[i].answer
<1>1. \A j \in DOMAIN subs : Pr!Exactly[subs[j].answer] = subs[j].answer
  BY QuorumShape DEF Pr!Exactly
<1>2. \A j \in DOMAIN subs :
        subs[j].workerId \in Pr!Backers(subs, Pr!Exactly, i) <=> subs[j].answer = subs[i].answer
  BY <1>1, BackersAre
<1>3. Pr!Backers(subs, Pr!Exactly, i) \subseteq Pr!Ids(subs)
  BY BackersAre
<1> QED
  BY <1>2, <1>3, BackersAre DEF Pr!Ids

LEMMA UnmergedVotesDerive ==
  ASSUME Pr!ProvenanceAssumption, NEW subs \in Pr!Quorums, NEW as, NEW i \in Pr!Largest(subs, as),
         \A j \in Pr!Largest(subs, as) : i <= j,
         \A j \in DOMAIN subs : subs[j].workerId \in Pr!Backers(subs, as, i) => subs[j].answer = subs[i].answer
  PROVE  Pr!ClusterVote(subs, as) = Pr!ExactMatchVote(subs)
<1> DEFINE size(k) == Cardinality(Pr!Backers(subs, as, k))
           same(k) == Cardinality(Pr!Backers(subs, Pr!Exactly, k))
<1>1. i \in DOMAIN subs /\ \A k \in DOMAIN subs : size(k) \in Nat /\ same(k) \in Nat /\ same(k) <= size(k)
  <2>1. i \in DOMAIN subs
    BY DEF Pr!Largest
  <2>2. \A k \in DOMAIN subs : same(k) <= size(k)
    BY BackersAre, ExactBackers, FS_Subset
  <2> QED
    BY <2>1, <2>2, BackersAre
<1>2. Pr!Backers(subs, Pr!Exactly, i) = Pr!Backers(subs, as, i)
  <2>1. Pr!Backers(subs, as, i) \subseteq Pr!Ids(subs)
    BY <1>1, BackersAre
  <2>2. ASSUME NEW x \in Pr!Backers(subs, as, i) PROVE x \in Pr!Backers(subs, Pr!Exactly, i)
    <3>1. PICK j \in DOMAIN subs : x = subs[j].workerId
      BY <2>1, <2>2 DEF Pr!Ids
    <3>2. subs[j].answer = subs[i].answer
      BY <2>2, <3>1
    <3> QED
      BY <1>1, <3>1, <3>2, ExactBackers
  <2> QED
    BY <1>1, <2>2, ExactBackers
<1>3. \A k \in DOMAIN subs : k \in Pr!Largest(subs, as) <=> \A l \in DOMAIN subs : size(l) <= size(k)
  BY ProvenanceCardinality DEF Pr!Largest
<1>4. \A k \in DOMAIN subs : k \in Pr!Largest(subs, Pr!Exactly) <=> \A l \in DOMAIN subs : same(l) <= same(k)
  BY ProvenanceCardinality DEF Pr!Largest
<1>5. same(i) = size(i)
  BY <1>2
<1> HIDE DEF size, same
<1>6. i \in Pr!Largest(subs, Pr!Exactly)
  <2>1. ASSUME NEW l \in DOMAIN subs PROVE same(l) <= same(i)
    <3>1. size(l) <= size(i) /\ same(l) <= size(l)
      BY <1>1, <1>3
    <3>2. size(l) \in Nat /\ size(i) \in Nat /\ same(l) \in Nat
      BY <1>1
    <3> QED
      BY <1>5, <3>1, <3>2
  <2> QED
    BY <1>1, <1>4, <2>1
<1>7. ASSUME NEW k \in Pr!Largest(subs, Pr!Exactly) PROVE i <= k
  <2>1. k \in DOMAIN subs
    BY <1>7 DEF Pr!Largest
  <2>2. size(i) <= size(k)
    BY <1>1, <1>4, <1>5, <1>7, <2>1
  <2>3. ASSUME NEW l \in DOMAIN subs PROVE size(l) <= size(k)
    <3>1. size(l) <= size(i)
      BY <1>1, <1>3
    <3>2. size(l) \in Nat /\ size(i) \in Nat /\ size(k) \in Nat
      BY <1>1, <2>1
    <3> QED
      BY <2>2, <3>1, <3>2
  <2> QED
    BY <1>3, <2>1, <2>3
<1>8. Pr!ClusterVote(subs, as) = Pr!Favouring(subs, as, i)
  BY FirstWins
<1>9. Pr!ClusterVote(subs, Pr!Exactly) = Pr!Favouring(subs, Pr!Exactly, i)
  BY <1>6, <1>7, FirstWins
<1> QED
  BY <1>2, <1>8, <1>9 DEF Pr!ExactMatchVote, Pr!Favouring

\* Who an exact vote favours gave one text, the winner's.
LEMMA ExactVoteIs ==
  ASSUME Pr!ProvenanceAssumption, NEW subs \in Pr!Quorums, subs # <<>>
  PROVE  \E i \in DOMAIN subs :
           /\ Pr!ExactMatchVote(subs) = Pr!Favouring(subs, Pr!Exactly, i)
           /\ Pr!ExactMatchVote(subs).matching = Pr!Backers(subs, Pr!Exactly, i)
           /\ Pr!ExactMatchVote(subs).matching \subseteq Pr!Ids(subs)
           /\ DOMAIN Pr!ExactMatchVote(subs) = {"consensus", "matching", "confidence"}
<1>1. PICK i \in Pr!Largest(subs, Pr!Exactly) : \A j \in Pr!Largest(subs, Pr!Exactly) : i <= j
  BY FirstLargest
<1>2. Pr!ExactMatchVote(subs) = Pr!Favouring(subs, Pr!Exactly, i)
  BY <1>1, FirstWins DEF Pr!ExactMatchVote
<1>3. /\ Pr!Favouring(subs, Pr!Exactly, i).matching = Pr!Backers(subs, Pr!Exactly, i)
      /\ DOMAIN Pr!Favouring(subs, Pr!Exactly, i) = {"consensus", "matching", "confidence"}
  BY DEF Pr!Favouring
<1>4. i \in DOMAIN subs
  BY DEF Pr!Largest
<1> QED
  BY <1>2, <1>3, <1>4, BackersAre

LEMMA VotesAre ==
  ASSUME Pr!ProvenanceAssumption, NEW subs \in Pr!Quorums, subs # <<>>, NEW count \in Pr!Votes(subs)
  PROVE  \E as : \E i \in Pr!Largest(subs, as) :
           /\ count.vote = Pr!Favouring(subs, as, i)
           /\ \/ /\ count.fastpath = "exact-match-fastpath" /\ count.fallback = "exact-match-fallback"
                 /\ \A j \in Pr!Largest(subs, as) : i <= j
              \/ count.fastpath = "numeric-tolerance-fastpath" /\ count.fallback = "numeric-tolerance-fallback"
<1>1. CASE count \in [fastpath : {"exact-match-fastpath"}, fallback : {"exact-match-fallback"},
                      vote : {Pr!ClusterVote(subs, as) : as \in Pr!Merges}]
  <2>1. PICK as \in Pr!Merges : count.vote = Pr!ClusterVote(subs, as)
    BY <1>1
  <2>2. PICK i \in Pr!Largest(subs, as) : \A j \in Pr!Largest(subs, as) : i <= j
    BY FirstLargest
  <2>3. count.vote = Pr!Favouring(subs, as, i)
    BY <2>1, <2>2, FirstWins
  <2>4. count.fastpath = "exact-match-fastpath" /\ count.fallback = "exact-match-fallback"
    BY <1>1
  <2> QED
    BY <2>2, <2>3, <2>4
<1>2. CASE count \in [fastpath : {"numeric-tolerance-fastpath"}, fallback : {"numeric-tolerance-fallback"},
                      vote : UNION {{Pr!Favouring(subs, as, i) : i \in Pr!Largest(subs, as)} : as \in Pr!Merges}]
  <2>1. PICK as \in Pr!Merges : count.vote \in {Pr!Favouring(subs, as, i) : i \in Pr!Largest(subs, as)}
    BY <1>2
  <2>2. PICK i \in Pr!Largest(subs, as) : count.vote = Pr!Favouring(subs, as, i)
    BY <2>1
  <2>3. count.fastpath = "numeric-tolerance-fastpath" /\ count.fallback = "numeric-tolerance-fallback"
    BY <1>2
  <2> QED
    BY <2>2, <2>3
<1> QED
  BY <1>1, <1>2 DEF Pr!Votes

\* A vote over merged answers comes out as the exact one exactly if those it favours
\* gave one text, and agrees whenever the exact one does.
LEMMA VotesDerive ==
  ASSUME Pr!ProvenanceAssumption, NEW subs \in Pr!Quorums, subs # <<>>, NEW count \in Pr!Votes(subs)
  PROVE  /\ Pr!Fastpath(subs) => Pr!Agree(subs, count.vote)
         /\ DOMAIN count.vote = {"consensus", "matching", "confidence"} /\ count.vote.matching \subseteq Pr!Ids(subs)
         /\ \/ /\ count.fastpath = "exact-match-fastpath" /\ count.fallback = "exact-match-fallback"
               /\ ~Pr!Mixed(subs, count.vote.matching) => count.vote = Pr!ExactMatchVote(subs)
               /\ Pr!Mixed(subs, count.vote.matching) => count.vote.matching # Pr!ExactMatchVote(subs).matching
            \/ count.fastpath = "numeric-tolerance-fastpath" /\ count.fallback = "numeric-tolerance-fallback"
<1> DEFINE exact == Pr!ExactMatchVote(subs)
<1>1. PICK as : \E i \in Pr!Largest(subs, as) :
           /\ count.vote = Pr!Favouring(subs, as, i)
           /\ \/ /\ count.fastpath = "exact-match-fastpath" /\ count.fallback = "exact-match-fallback"
                 /\ \A j \in Pr!Largest(subs, as) : i <= j
              \/ count.fastpath = "numeric-tolerance-fastpath" /\ count.fallback = "numeric-tolerance-fallback"
  BY VotesAre
<1>2. PICK i \in Pr!Largest(subs, as) :
           /\ count.vote = Pr!Favouring(subs, as, i)
           /\ \/ /\ count.fastpath = "exact-match-fastpath" /\ count.fallback = "exact-match-fallback"
                 /\ \A j \in Pr!Largest(subs, as) : i <= j
              \/ count.fastpath = "numeric-tolerance-fastpath" /\ count.fallback = "numeric-tolerance-fallback"
  BY <1>1
<1>3. i \in DOMAIN subs
  BY DEF Pr!Largest
<1>4. DOMAIN count.vote = {"consensus", "matching", "confidence"} /\ count.vote.matching = Pr!Backers(subs, as, i)
  BY <1>2 DEF Pr!Favouring
<1>5. PICK k \in DOMAIN subs : exact.matching = Pr!Backers(subs, Pr!Exactly, k)
  BY ExactVoteIs
<1>6. \A j \in DOMAIN subs : subs[j].workerId \in exact.matching <=> subs[j].answer = subs[k].answer
  BY <1>5, ExactBackers
<1>a. /\ Pr!Backers(subs, as, i) \subseteq Pr!Ids(subs)
      /\ \A j \in DOMAIN subs : subs[j].workerId \in Pr!Backers(subs, as, i) <=> as[subs[j].answer] = as[subs[i].answer]
  BY <1>3, BackersAre
<1>7. \A j \in DOMAIN subs : subs[j].workerId \in count.vote.matching <=> as[subs[j].answer] = as[subs[i].answer]
  BY <1>4, <1>a
<1>8. count.vote.matching \subseteq Pr!Ids(subs)
  BY <1>4, <1>a
<1> HIDE DEF exact
<1>9. ASSUME Pr!Fastpath(subs) PROVE Pr!Agree(subs, count.vote)
  <2>1. exact.matching = Pr!Ids(subs) /\ \A j \in DOMAIN subs : subs[j].established
    BY <1>9, Zenon DEF Pr!Fastpath, Pr!Agree, exact
  <2>2. \A j \in DOMAIN subs : subs[j].answer = subs[k].answer
    BY <1>6, <2>1 DEF Pr!Ids
  <2>3. \A j \in DOMAIN subs : subs[j].workerId \in count.vote.matching
    BY <1>3, <1>7, <2>2
  <2>4. count.vote.matching = Pr!Ids(subs)
    BY <1>8, <2>3 DEF Pr!Ids
  <2> QED
    BY <2>1, <2>4, Zenon DEF Pr!Agree
<1>10. Pr!Mixed(subs, count.vote.matching) => count.vote.matching # exact.matching
  <2>1. ~Pr!Mixed(subs, exact.matching)
    BY <1>6 DEF Pr!Mixed
  <2> QED
    BY <2>1
<1>11. ASSUME ~Pr!Mixed(subs, count.vote.matching), \A j \in Pr!Largest(subs, as) : i <= j PROVE count.vote = exact
  <2>1. \A j \in DOMAIN subs : subs[j].workerId \in Pr!Backers(subs, as, i) => subs[j].answer = subs[i].answer
    <3>1. subs[i].workerId \in count.vote.matching
      BY <1>3, <1>7
    <3> QED
      BY <1>3, <1>4, <1>11, <3>1 DEF Pr!Mixed
  <2>2. Pr!ClusterVote(subs, as) = exact
    BY <1>11, <2>1, UnmergedVotesDerive DEF exact
  <2>3. Pr!ClusterVote(subs, as) = Pr!Favouring(subs, as, i)
    BY <1>11, FirstWins
  <2> QED
    BY <1>2, <2>2, <2>3
<1> QED
  BY <1>2, <1>4, <1>8, <1>9, <1>10, <1>11 DEF exact

\* The record of a verdict that people gave, whichever way it was reached.
LEMMA HumanRecordIsSound ==
  ASSUME Pr!ProvenanceAssumption, NEW subs \in Pr!Quorums, NEW report \in Pr!Reports(subs) \cup {None},
         NEW count, subs # <<>> => count \in Pr!Votes(subs)
  PROVE  LET how == Pr!Reconcile(subs, count, report)
         IN Pr!Sound(Pr!BuildProvenanceRecord(subs, how, Pr!ShouldResolve(subs, how.result)))
<1> DEFINE how == Pr!Reconcile(subs, count, report)
           r == Pr!BuildProvenanceRecord(subs, how, Pr!ShouldResolve(subs, how.result))
           exact == Pr!ExactMatchVote(subs)
<1>1. /\ DOMAIN r = {"submissions", "method", "llm", "result", "action"} /\ r.submissions = subs
      /\ r.method = how.method /\ r.llm = how.llm /\ r.result = how.result /\ r.action \in {"resolve", "refund"}
      /\ r.action = "resolve" <=> Pr!ShouldResolve(subs, how.result)
  BY DEF Pr!BuildProvenanceRecord
<1> HIDE DEF r
<1>2. \/ subs = <<>> /\ how.method = "no-answers" /\ how.result = Pr!NoResult
      \/ /\ subs # <<>> /\ Pr!Agree(subs, count.vote) /\ how.method = count.fastpath
         /\ how.result = [count.vote EXCEPT !.confidence = 10]
      \/ /\ subs # <<>> /\ ~Pr!Agree(subs, count.vote) /\ report # None /\ how.method = report.by
         /\ how.llm = [sent |-> subs, got |-> report] /\ how.result = Pr!Said(report)
      \/ subs # <<>> /\ ~Pr!Agree(subs, count.vote) /\ how.method = count.fallback /\ how.result = count.vote
  BY DEF Pr!Reconcile
<1>3. subs # <<>> =>
         /\ Pr!Fastpath(subs) => Pr!Agree(subs, count.vote)
         /\ DOMAIN count.vote = {"consensus", "matching", "confidence"} /\ count.vote.matching \subseteq Pr!Ids(subs)
         /\ \/ /\ count.fastpath = "exact-match-fastpath" /\ count.fallback = "exact-match-fallback"
               /\ ~Pr!Mixed(subs, count.vote.matching) => count.vote = exact
               /\ Pr!Mixed(subs, count.vote.matching) => count.vote.matching # exact.matching
            \/ count.fastpath = "numeric-tolerance-fastpath" /\ count.fallback = "numeric-tolerance-fallback"
  BY VotesDerive
<1>4. report # None =>
         /\ report.by \in {"claude", "openai"} /\ (report.by = "claude" => report.matching \subseteq Pr!Ids(subs))
         /\ Pr!Said(report).matching = report.matching
  BY DEF Pr!Reports, Pr!Said
<1>5. report # None => [sent |-> subs, got |-> report] # None
  <2>1. report # None => [sent |-> subs, got |-> report] \in [sent : {subs}, got : Pr!Reports(subs)]
    OBVIOUS
  <2> QED
    BY <2>1 DEF Pr!Received, Pr!ProvenanceAssumption
<1> HIDE DEF how, exact
<1>6. how.method \notin Pr!Instant
  BY <1>2, <1>3, <1>4 DEF Pr!Instant
<1>7. Pr!ExpectedAction(r) = r.action
  BY <1>1, <1>6 DEF Pr!ExpectedAction, Pr!ShouldResolve
<1> DEFINE Sounds == /\ Pr!Rederives(r) <=> ~Pr!Underivable(r)
                     /\ r.method \in {"claude", "openai"} => r.llm.sent = r.submissions
                     /\ r.method \in {"exact-match-fastpath", "exact-match-fallback"} =>
                          r.result.matching \subseteq Pr!Ids(r.submissions)
<1>8. ASSUME subs = <<>> /\ how.method = "no-answers" /\ how.result = Pr!NoResult
      PROVE  Sounds
  BY <1>1, <1>8 DEF Pr!Rederives, Pr!Underivable, Pr!NoResult
<1>9. ASSUME r.method \in {"numeric-tolerance-fastpath", "numeric-tolerance-fallback"}
      PROVE  Sounds
  BY <1>9 DEF Pr!Rederives, Pr!Underivable
<1>10. ASSUME /\ subs # <<>> /\ Pr!Agree(subs, count.vote) /\ how.method = count.fastpath
              /\ how.result = [count.vote EXCEPT !.confidence = 10] /\ count.fastpath = "exact-match-fastpath"
       PROVE  Sounds
  <2>1. r.method = "exact-match-fastpath" /\ r.result.matching = count.vote.matching /\ r.submissions = subs
    BY <1>1, <1>3, <1>10
  <2>2. Pr!Underivable(r) <=> Pr!Mixed(subs, count.vote.matching)
    BY <2>1 DEF Pr!Underivable
  <2>3. Pr!Rederives(r) <=> Pr!Fastpath(subs) /\ r.result = [exact EXCEPT !.confidence = 10]
    BY <1>10, <2>1 DEF Pr!Rederives, exact
  <2>4. ASSUME Pr!Mixed(subs, count.vote.matching) PROVE r.result # [exact EXCEPT !.confidence = 10]
    <3>1. DOMAIN exact = {"consensus", "matching", "confidence"}
      BY <1>10, ExactVoteIs DEF exact, Pr!Favouring
    <3> QED
      BY <1>3, <1>10, <2>1, <2>4, <3>1
  <2>5. ASSUME ~Pr!Mixed(subs, count.vote.matching)
        PROVE  Pr!Fastpath(subs) /\ r.result = [exact EXCEPT !.confidence = 10]
    <3>1. count.vote = exact
      BY <1>3, <1>10, <2>5
    <3> QED
      BY <1>1, <1>10, <3>1 DEF Pr!Fastpath, exact
  <2> QED
    BY <1>3, <1>10, <2>1, <2>2, <2>3, <2>4, <2>5
<1>11. ASSUME /\ subs # <<>> /\ ~Pr!Agree(subs, count.vote) /\ how.method = count.fallback
              /\ how.result = count.vote /\ count.fallback = "exact-match-fallback"
       PROVE  Sounds
  <2>1. r.method = "exact-match-fallback" /\ r.result = count.vote /\ r.submissions = subs
    BY <1>1, <1>11
  <2>2. Pr!Underivable(r) <=> Pr!Mixed(subs, count.vote.matching)
    BY <2>1 DEF Pr!Underivable
  <2>3. Pr!Rederives(r) <=> r.result = exact
    BY <1>3, <1>11, <2>1 DEF Pr!Rederives, exact
  <2>4. r.result = exact <=> ~Pr!Mixed(subs, count.vote.matching)
    BY <1>3, <1>11, <2>1
  <2> QED
    BY <1>3, <1>11, <2>1, <2>2, <2>3, <2>4
<1>12. ASSUME /\ subs # <<>> /\ ~Pr!Agree(subs, count.vote) /\ report # None /\ how.method = report.by
              /\ how.llm = [sent |-> subs, got |-> report] /\ how.result = Pr!Said(report)
       PROVE  Sounds
  <2>1. /\ r.method = report.by /\ r.result = Pr!Said(report) /\ r.submissions = subs
        /\ r.llm = [sent |-> subs, got |-> report] /\ r.llm # None /\ r.method \in {"claude", "openai"}
    BY <1>1, <1>4, <1>5, <1>12
  <2>2. Pr!Rederives(r) <=> report.matching \subseteq Pr!Ids(subs)
    BY <1>3, <1>4, <1>12, <2>1 DEF Pr!Rederives
  <2>3. Pr!Underivable(r) <=> ~(report.matching \subseteq Pr!Ids(subs))
    BY <1>4, <1>12, <2>1 DEF Pr!Underivable
  <2> QED
    BY <2>1, <2>2, <2>3
<1>13. Sounds
  BY <1>1, <1>2, <1>3, <1>8, <1>9, <1>10, <1>11, <1>12
<1> QED
  BY <1>1, <1>7, <1>13 DEF Pr!Sound, r, how

\* The record of an answer that was drafted, or could not be.
LEMMA InstantRecordIsSound ==
  ASSUME Pr!ProvenanceAssumption, NEW report \in Pr!Drafts \cup {None}
  PROVE  Pr!Sound(Pr!BuildProvenanceRecord(<<>>, Pr!Draft(report), report # None))
<1> DEFINE how == Pr!Draft(report)
           r == Pr!BuildProvenanceRecord(<<>>, how, report # None)
<1>1. /\ DOMAIN r = {"submissions", "method", "llm", "result", "action"} /\ r.submissions = <<>>
      /\ r.method = how.method /\ r.llm = how.llm /\ r.result = how.result /\ r.action \in {"resolve", "refund"}
      /\ r.action = "resolve" <=> report # None
  BY DEF Pr!BuildProvenanceRecord
<1>2. CASE report # None
  <2>1. /\ how.method = "llm-draft" /\ how.llm = [sent |-> <<>>, got |-> report]
        /\ how.result.consensus = report.consensus /\ how.result.confidence = report.confidence /\ how.result.matching = {}
        /\ report.matching = {} /\ report.consensus \in Answers /\ report \in Pr!Drafts
    BY <1>2 DEF Pr!Draft, Pr!Drafts, Pr!Said
  <2>2. how.llm # None /\ report.consensus # None
    <3>1. [sent |-> <<>>, got |-> report] \in [sent : {<<>>}, got : Pr!Drafts]
      BY <2>1
    <3> QED
      BY <2>1, <3>1 DEF Pr!Received, Pr!ProvenanceAssumption
  <2> HIDE DEF r, how
  <2> QED
    BY <1>1, <1>2, <2>1, <2>2 DEF Pr!Sound, Pr!Rederives, Pr!Underivable, Pr!ExpectedAction, Pr!Instant, r, how
<1>3. CASE report = None
  <2>1. how.method = "llm-draft-unavailable" /\ how.result.consensus = None /\ how.result.matching = {}
    BY <1>3 DEF Pr!Draft, Pr!NoResult
  <2> HIDE DEF r, how
  <2> QED
    BY <1>1, <1>3, <2>1 DEF Pr!Sound, Pr!Rederives, Pr!Underivable, Pr!ExpectedAction, Pr!Instant, r, how
<1> QED
  BY <1>2, <1>3

LEMMA ProvenanceStep ==
  ASSUME Pr!ProvenanceAssumption, Pr!ProvenanceInv, [Pr!Next]_(Pr!vars)
  PROVE  Pr!ProvenanceInv'
<1>1. CASE UNCHANGED Pr!vars
  BY <1>1 DEF Pr!vars, Pr!ProvenanceInv, Pr!Sound, Pr!Edits
<1>2. ASSUME original = None, NEW r, Pr!Sound(r), NEW copied \in BOOLEAN, Pr!Save(r, copied) PROVE Pr!ProvenanceInv'
  BY <1>2 DEF Pr!Save, Pr!ProvenanceInv
<1>3. ASSUME NEW lands \in BOOLEAN, Pr!Settle(lands) PROVE Pr!ProvenanceInv'
  BY <1>3 DEF Pr!Settle, Pr!ProvenanceInv
<1>4. CASE Pr!AttachSettlement
  BY <1>4 DEF Pr!AttachSettlement, Pr!ProvenanceInv
<1>5. ASSUME NEW rehash \in BOOLEAN, Pr!Alter(rehash) PROVE Pr!ProvenanceInv'
  BY <1>5 DEF Pr!Alter, Pr!ProvenanceInv
<1>6. ASSUME original = None, NEW copied \in BOOLEAN, NEW subs \in Pr!Quorums, NEW report \in Pr!Reports(subs) \cup {None},
             NEW count \in IF subs = <<>> THEN {None} ELSE Pr!Votes(subs), Pr!CommitHuman(subs, count, report, copied)
      PROVE  Pr!ProvenanceInv'
  BY <1>2, <1>6, HumanRecordIsSound DEF Pr!CommitHuman
<1>7. ASSUME original = None, NEW copied \in BOOLEAN, NEW report \in Pr!Drafts \cup {None}, Pr!CommitInstant(report, copied)
      PROVE  Pr!ProvenanceInv'
  BY <1>2, <1>7, InstantRecordIsSound DEF Pr!CommitInstant
<1> QED
  BY <1>1, <1>3, <1>4, <1>5, <1>6, <1>7 DEF Pr!Next

\* What a record that was edited says of who answered.
LEMMA EditsKeepTheQuorum ==
  ASSUME Pr!ProvenanceAssumption, Pr!Sound(original), NEW r \in Pr!Edits(original), Pr!Rederives(r), r.method \notin Pr!Instant,
         original.action = "resolve", Pr!VerifyPayout(r, Pr!Resolve(original))
  PROVE  Pr!Ids(r.submissions) = Pr!Ids(original.submissions)
<1>1. DOMAIN original = {"submissions", "method", "llm", "result", "action"}
  BY DEF Pr!Sound
<1>2. r.submissions = original.submissions
      \/ \E subs \in Pr!Quorums : r = [original EXCEPT !.submissions = subs]
  BY <1>1 DEF Pr!Edits
<1>3. ASSUME NEW subs \in Pr!Quorums, r = [original EXCEPT !.submissions = subs] PROVE Pr!Ids(subs) = Pr!Ids(original.submissions)
  <2>1. /\ r.submissions = subs /\ r.method = original.method /\ r.llm = original.llm /\ r.result = original.result
        /\ r.action = original.action
    BY <1>1, <1>3
  <2>2. Pr!ExpectedAction(original) = "resolve" /\ original.method \notin Pr!Instant /\ Pr!Rederives(r)
    BY <2>1 DEF Pr!Sound
  <2>3. original.submissions # <<>>
    BY <2>2 DEF Pr!ExpectedAction
  <2>4. Pr!Ids(subs) \ original.result.matching = Pr!Ids(original.submissions) \ original.result.matching
    BY <2>1, <2>2 DEF Pr!VerifyPayout, Pr!Resolve
  <2>5. original.method \in {"exact-match-fastpath", "exact-match-fallback", "claude", "openai"}
    <3>1. subs = <<>> => original.method = "no-answers"
      BY <2>1, <2>2 DEF Pr!Rederives, Pr!Instant
    <3>2. original.method # "no-answers"
      BY <2>3 DEF Pr!Sound, Pr!Rederives, Pr!Underivable
    <3> QED
      BY <2>1, <2>2, <3>1, <3>2 DEF Pr!Rederives, Pr!Instant
  <2>6. CASE original.method \in {"claude", "openai"}
    BY <2>1, <2>2, <2>6 DEF Pr!Rederives, Pr!Sound
  <2>7. CASE original.method \in {"exact-match-fastpath", "exact-match-fallback"}
    <3>a. /\ subs # <<>>
          /\ \/ original.result = [Pr!ExactMatchVote(subs) EXCEPT !.confidence = 10]
             \/ original.result = Pr!ExactMatchVote(subs)
      BY <2>1, <2>2, <2>7 DEF Pr!Rederives
    <3>1. subs # <<>> /\ original.result.matching = Pr!ExactMatchVote(subs).matching
      BY <3>a, ExactVoteIs
    <3>3. original.result.matching \subseteq Pr!Ids(subs)
      BY <3>1, ExactVoteIs
    <3> QED
      BY <2>4, <2>7, <3>3 DEF Pr!Sound
  <2> QED
    BY <2>5, <2>6, <2>7
<1> QED
  BY <1>1, <1>2, <1>3

LEMMA RecordsOfThePayout ==
  ASSUME Pr!ProvenanceAssumption, Pr!ProvenanceInv
  PROVE  Pr!RecordsVerify
<1> SUFFICES ASSUME entry # None PROVE Pr!RecordsVerify
  BY DEF Pr!RecordsVerify
<1>1. /\ Pr!Sound(original) /\ provenanceHash \in {None, original}
      /\ \/ entry.record = original /\ entry.hash = original
         \/ entry.record \in Pr!Edits(original) /\ entry.hash \in {original, entry.record}
      /\ chain # None => chain = Pr!Refund \/ (original.action = "resolve" /\ chain = Pr!Resolve(original))
  BY DEF Pr!ProvenanceInv
<1>2. entry.record = original => (Pr!VerifyProvenance(entry, provenanceHash) <=> ~Pr!Underivable(original))
  BY <1>1 DEF Pr!VerifyProvenance, Pr!Sound, Pr!Edits
<1>3. chain # None => (Pr!VerifyPayout(original, chain) <=> chain.function = original.action)
  <2>1. Pr!Cardinality({Platform}) = 1
    BY FS_Singleton DEF Pr!Cardinality, Cardinality
  <2>2. CASE chain = Pr!Refund
    BY <1>1, <2>2 DEF Pr!VerifyPayout, Pr!Refund
  <2>3. CASE original.action = "resolve" /\ chain = Pr!Resolve(original)
    BY <2>1, <2>3 DEF Pr!VerifyPayout, Pr!Resolve
  <2> QED
    BY <1>1, <2>2, <2>3
<1>4. entry.record # original /\ provenanceHash # None => ~Pr!VerifyProvenance(entry, provenanceHash)
  BY <1>1 DEF Pr!VerifyProvenance
<1>5. ASSUME Pr!VerifyProvenance(entry, None), chain # None, Pr!VerifyPayout(entry.record, chain),
             chain.function = "resolve", entry.record.method \notin Pr!Instant
      PROVE  Pr!Ids(entry.record.submissions) = Pr!Ids(original.submissions)
  <2>1. original.action = "resolve" /\ chain = Pr!Resolve(original)
    BY <1>1, <1>5 DEF Pr!Refund
  <2>2. Pr!Rederives(entry.record)
    BY <1>5 DEF Pr!VerifyProvenance
  <2> QED
    BY <1>1, <1>5, <2>1, <2>2, EditsKeepTheQuorum
<1> QED
  BY <1>2, <1>3, <1>4, <1>5 DEF Pr!RecordsVerify

LEMMA ProvenanceInit == ASSUME Pr!Init PROVE Pr!ProvenanceInv
BY DEF Pr!Init, Pr!ProvenanceInv

\* The record of a verdict verifies exactly if no vote over merged answers or by tolerance
\* decided it and it favours those who answered, and against the chain exactly if what it
\* decided is what landed; a record that was edited fails against the copy on the job, and
\* without that copy still names exactly those who answered (provenanceVerify.js).
THEOREM RecordsAlwaysVerify == ASSUME Pr!ProvenanceAssumption PROVE Pr!Spec => []Pr!RecordsVerify
<1>1. Pr!ProvenanceInv /\ [Pr!Next]_(Pr!vars) => Pr!ProvenanceInv'
  BY ProvenanceStep
<1>2. Pr!Init => Pr!ProvenanceInv
  BY ProvenanceInit
<1>3. Pr!ProvenanceInv => Pr!RecordsVerify
  BY RecordsOfThePayout
<1> QED
  BY <1>1, <1>2, <1>3, PTL DEF Pr!Spec

-----------------------------------------------------------------------------
(* Reputation: days and runs *)

LEMMA ReputationCardinality == \A S : Re!Cardinality(S) = Cardinality(S) /\ (Re!IsFiniteSet(S) <=> IsFiniteSet(S))
BY DEF Re!Cardinality, Cardinality, Re!IsFiniteSet, IsFiniteSet

\* The greatest of some numbers, or 0.
LEMMA TopIs ==
  ASSUME NEW m \in Nat, NEW S \in SUBSET (0..m)
  PROVE  Re!Top(S) \in S \cup {0} /\ (\A y \in S : y <= Re!Top(S)) /\ Re!Top(S) \in 0..m
<1> DEFINE gaps == {n \in Nat : m - n \in S}
<1>1. CASE S = {}
  <2>1. \A x \in S \cup {0} : x = 0
    BY <1>1
  <2>2. \E x \in S \cup {0} : \A y \in S : y <= x
    BY <1>1
  <2> QED
    BY <1>1, <2>1, <2>2 DEF Re!Top
<1>2. CASE S # {}
  <2>1. PICK k \in S : TRUE
    BY <1>2
  <2>2. m - k \in gaps
    BY <2>1
  <2>3. PICK n \in gaps : \A l \in gaps : n <= l
    BY <2>2, LeastOf
  <2>4. m - n \in S /\ \A x \in S : x <= m - n
    <3>1. \A x \in S : m - x \in gaps
      OBVIOUS
    <3> QED
      BY <2>3, <3>1
  <2>5. \E x \in S \cup {0} : \A z \in S : z <= x
    BY <2>4
  <2>6. Re!Top(S) \in S \cup {0} /\ \A y \in S : y <= Re!Top(S)
    BY <2>5, Zenon DEF Re!Top
  <2>7. \A x \in S \cup {0} : x \in 0..m
    OBVIOUS
  <2> QED
    BY <2>6, <2>7
<1> QED
  BY <1>1, <1>2

LEMMA RunIs ==
  ASSUME NEW S, NEW d \in Int, d >= 0 - 1
  PROVE  LET n == Re!RunBefore(S, d) IN
         /\ n \in 0..(d + 1) /\ (n > 0 => d - n + 1 .. d \subseteq S)
         /\ \A k \in 1..(d + 1) : d - k + 1 .. d \subseteq S => k <= n
<1> DEFINE runs == {n \in 1..(d + 1) : d - n + 1 .. d \subseteq S}
<1>1. runs \in SUBSET (0..(d + 1)) /\ d + 1 \in Nat
  OBVIOUS
<1>2. /\ Re!Top(runs) \in runs \cup {0} /\ (\A y \in runs : y <= Re!Top(runs)) /\ Re!Top(runs) \in 0..(d + 1)
  BY <1>1, TopIs
<1>3. Re!RunBefore(S, d) = Re!Top(runs)
  BY DEF Re!RunBefore
<1>4. \A k : k \in runs <=> k \in 1..(d + 1) /\ d - k + 1 .. d \subseteq S
  OBVIOUS
<1> HIDE DEF runs
<1> QED
  BY <1>2, <1>3, <1>4

\* A run is as long in a set that has the same days, and needs its last day.
LEMMA RunsCompare ==
  ASSUME NEW S, NEW T, NEW d \in Int, d >= 0 - 1, \A e \in 0..d : e \in S => e \in T
  PROVE  Re!RunBefore(S, d) <= Re!RunBefore(T, d) /\ (d \notin S => Re!RunBefore(S, d) = 0)
<1> DEFINE n == Re!RunBefore(S, d)
<1>1. n \in 0..(d + 1) /\ (n > 0 => d - n + 1 .. d \subseteq S)
  BY RunIs
<1>2. Re!RunBefore(T, d) \in 0..(d + 1) /\ \A k \in 1..(d + 1) : d - k + 1 .. d \subseteq T => k <= Re!RunBefore(T, d)
  BY RunIs
<1> HIDE DEF n
<1>3. n > 0 => d - n + 1 .. d \subseteq T /\ d \in S
  BY <1>1
<1> QED
  BY <1>1, <1>2, <1>3 DEF n

\* A streak is no longer than the longest run there is.
LEMMA StreakIs ==
  ASSUME Re!ReputationAssumption, NEW days, NEW d \in Re!Day, NEW most \in Nat,
         \A e \in Re!Day : Re!RunBefore(Re!Active(days), e) <= most
  PROVE  /\ Re!Streak(days, d).longest \in 0..most
         /\ Re!Streak(days, d).current = Re!RunBefore(Re!Active(days), IF d \in Re!Active(days) THEN d ELSE d - 1)
<1> DEFINE active == Re!Active(days)
           current == Re!RunBefore(active, IF d \in active THEN d ELSE d - 1)
           runs == {Re!RunBefore(active, e) : e \in Re!Day} \cup {current}
<1>1. \A e \in Re!Day : Re!RunBefore(active, e) \in 0..most
  BY RunIs DEF Re!Day
<1>2. Re!RunBefore(active, 0 - 1) = 0
  BY RunIs
<1>3. current \in 0..most
  BY <1>1, <1>2 DEF Re!Day, Re!ReputationAssumption
<1>4. runs \in SUBSET (0..most)
  BY <1>1, <1>3
<1>5. Re!Top(runs) \in 0..most
  BY <1>4, TopIs
<1>6. Re!Streak(days, d) = [current |-> current, longest |-> Re!Top(runs)]
  BY DEF Re!Streak
<1> QED
  BY <1>5, <1>6

-----------------------------------------------------------------------------
(* Reputation: the days that are kept *)

LEMMA DaysAreFew ==
  ASSUME Re!ReputationAssumption, NEW X, NEW Y, X \subseteq Y, Y \subseteq Re!Day
  PROVE  Re!Cardinality(X) \in Nat /\ Re!Cardinality(Y) \in Nat /\ Re!Cardinality(X) <= Re!Cardinality(Y)
<1>1. IsFiniteSet(Re!Day)
  BY FS_Interval DEF Re!Day, Re!ReputationAssumption
<1>2. IsFiniteSet(Y) /\ IsFiniteSet(X)
  BY <1>1, FS_Subset
<1> QED
  BY <1>2, FS_Subset, FS_CardinalityType, ReputationCardinality

LEMMA RetainedFromBelow ==
  ASSUME Re!ReputationAssumption, NEW X, NEW Y, X \subseteq Y, Y \subseteq Re!Day, NEW d \in Re!Day, NEW e \in Re!Day, d <= e,
         Re!Retained(Y, d)
  PROVE  Re!Retained(X, e)
<1>1. \A x \in Y : x \in Int
  BY DEF Re!Day
<1>2. d \in Int /\ e \in Int
  BY DEF Re!Day
<1>3. {x \in X : x >= e} \subseteq {x \in Y : x >= d}
  <2>1. ASSUME NEW x \in X, x >= e PROVE x \in Y /\ x >= d
    BY <1>1, <1>2, <2>1
  <2> QED
    BY <2>1
<1>4. {x \in Y : x >= d} \subseteq Re!Day
  OBVIOUS
<1>5. /\ Re!Cardinality({x \in X : x >= e}) \in Nat /\ Re!Cardinality({x \in Y : x >= d}) \in Nat
      /\ Re!Cardinality({x \in X : x >= e}) <= Re!Cardinality({x \in Y : x >= d})
  BY <1>3, <1>4, DaysAreFew
<1> QED
  BY <1>5 DEF Re!ReputationAssumption, Re!Retained

LEMMA InLatest ==
  ASSUME NEW days, NEW d
  PROVE  d \in Re!Latest(days) <=> d \in days /\ Re!Retained(days, d)
BY DEF Re!Latest

LEMMA LatestOfLatest ==
  ASSUME Re!ReputationAssumption, NEW t \in Re!Day, NEW F, F \subseteq 0..t
  PROVE  Re!Latest(Re!Latest(F) \cup {t}) = Re!Latest(F \cup {t})
<1> DEFINE A == Re!Latest(F) \cup {t}
           B == F \cup {t}
<1>1. /\ A \subseteq B /\ B \subseteq Re!Day /\ F \subseteq Re!Day
      /\ \A d \in B : d \in Int /\ d <= t
  <2>1. Re!Latest(F) \subseteq F
    BY InLatest
  <2>2. t \in Nat /\ t <= MaxDay /\ MaxDay \in Nat
    BY DEF Re!Day, Re!ReputationAssumption
  <2>3. \A d \in F : d \in 0..t
    OBVIOUS
  <2> QED
    BY <2>1, <2>2, <2>3 DEF Re!Day
<1>2. ASSUME NEW d \in A PROVE {e \in A : e >= d} = {e \in B : e >= d}
  <2>1. CASE d = t
    <3>1. \A e \in B : e >= d <=> e = t
      BY <1>1, <2>1
    <3> QED
      BY <1>1, <3>1
  <2>2. CASE d \in Re!Latest(F)
    <3>1. d \in F /\ Re!Retained(F, d)
      BY <2>2, InLatest
    <3>2. ASSUME NEW e \in F, e >= d PROVE e \in Re!Latest(F)
      <4>1. Re!Retained(F, e)
        <5>1. F \subseteq F /\ F \subseteq Re!Day /\ d \in Re!Day /\ e \in Re!Day /\ d <= e
          BY <1>1, <3>1, <3>2
        <5> HIDE DEF A, B
        <5> QED
          BY <3>1, <5>1, RetainedFromBelow
      <4> QED
        BY <4>1, InLatest
    <3> QED
      BY <1>1, <3>2
  <2> QED
    BY <2>1, <2>2
<1>3. ASSUME NEW d \in B, d \notin A PROVE ~Re!Retained(B, d)
  <2>1. d \in F /\ ~Re!Retained(F, d)
    BY <1>3, InLatest
  <2>2. F \subseteq B /\ B \subseteq Re!Day /\ d \in Re!Day /\ d <= d
    BY <1>1, <1>3
  <2> HIDE DEF B
  <2> QED
    BY <2>1, <2>2, RetainedFromBelow
<1>4. \A d \in A : Re!Retained(A, d) <=> Re!Retained(B, d)
  BY <1>2 DEF Re!Retained
<1>5. \A d : (d \in Re!Latest(A) <=> d \in A /\ Re!Retained(A, d)) /\ (d \in Re!Latest(B) <=> d \in B /\ Re!Retained(B, d))
  BY InLatest
<1>6. \A d : d \in Re!Latest(A) <=> d \in Re!Latest(B)
  <2> HIDE DEF A, B
  <2> QED
    BY <1>1, <1>3, <1>4, <1>5
<1> HIDE DEF A, B
<1>7. Re!Latest(A) = Re!Latest(B)
  BY <1>6, InLatest
<1> QED
  BY <1>7 DEF A, B
\* A settlement that folds its outcome into the days: the latest are kept, and the longest
\* run that is not longer than what is kept has been seen.
LEMMA Folding ==
  ASSUME Re!ReputationAssumption, today \in Re!Day, NEW act \in Re!Acts, NEW m \in 0..1, NEW F, F \subseteq 0..today,
         Re!Carried(act, F)
  PROVE  LET new == Re!ApplyOutcome(act, m) IN
         new \in Re!Acts /\ Re!Carried(new, F \cup {today}) /\ act.longest <= new.longest
<1> DEFINE B == F \cup {today}
           days == [act.days EXCEPT ![today] = [answered |-> @.answered + 1, matched |-> @.matched + m]]
           kept == [d \in Re!Day |-> IF Re!Retained(Re!Active(days), d) THEN days[d] ELSE Re!Unanswered]
           new == Re!ApplyOutcome(act, m)
           A == Re!Active(act.days)
           N == Re!Active(kept)
<1>1. /\ act.days \in [Re!Day -> [answered : Nat, matched : Nat]] /\ act.longest \in Nat
      /\ today \in Nat /\ MaxDay \in Nat /\ today <= MaxDay
  BY DEF Re!Acts, Re!Day, Re!ReputationAssumption
<1>2. /\ days \in [Re!Day -> [answered : Nat, matched : Nat]] /\ days[today].answered > 0
      /\ \A d \in Re!Day : d # today => days[d] = act.days[d]
  BY <1>1
<1> HIDE DEF days
<1>3. Re!Active(days) = A \cup {today}
  BY <1>1, <1>2 DEF Re!Active
<1>4. kept \in [Re!Day -> [answered : Nat, matched : Nat]]
  BY <1>2 DEF Re!Unanswered
<1>5. N = Re!Latest(Re!Active(days))
  <2>1. \A d \in Re!Day : kept[d].answered > 0 <=> Re!Retained(Re!Active(days), d) /\ days[d].answered > 0
    BY <1>2 DEF Re!Unanswered
  <2>2. \A d : d \in N <=> d \in Re!Latest(Re!Active(days))
    BY <2>1, InLatest DEF Re!Active
  <2> QED
    BY <2>2 DEF Re!Latest, Re!Active
<1>6. /\ A = Re!Latest(F) /\ \A d \in Re!Day : Re!RunBefore(A, d) <= act.longest
      /\ \A d \in Re!Day : Re!RunBefore(F, d) <= DaysRetained => Re!RunBefore(F, d) <= act.longest
  BY DEF Re!Carried
<1>7. N = Re!Latest(B)
  BY <1>3, <1>5, <1>6, LatestOfLatest
<1>8. /\ B \subseteq 0..today /\ N \subseteq B /\ B \subseteq Re!Day /\ A \subseteq F
      /\ \A d \in N : d = today \/ d \in A
  <2>1. B \subseteq 0..today /\ \A d \in B : d \in Int
    <3>1. today \in 0..today /\ \A d \in 0..today : d \in Int
      BY <1>1
    <3>2. \A d \in F : d \in 0..today
      OBVIOUS
    <3> QED
      BY <3>1, <3>2, Zenon
  <2>2. B \subseteq Re!Day
    BY <1>1, <2>1 DEF Re!Day
  <2>3. N \subseteq B /\ A \subseteq F
    <3> HIDE DEF N, A, B
    <3> QED
      BY <1>6, <1>7, InLatest
  <2>4. \A d \in N : d \in A \cup {today}
    <3> HIDE DEF N, A
    <3> QED
      BY <1>3, <1>5, InLatest
  <2> QED
    BY <2>1, <2>2, <2>3, <2>4
<1> HIDE DEF N, A, kept
<1>9. new = [days |-> kept, longest |-> Re!Larger(act.longest, Re!Streak(kept, today).current)]
  BY DEF Re!ApplyOutcome, kept, days
<1>10. /\ \A S, d : d \in Re!Day => Re!RunBefore(S, d) \in Nat
       /\ \A S : Re!RunBefore(S, today - 1) \in Nat
  <2>1. \A S, d : d \in Re!Day => Re!RunBefore(S, d) \in 0..(d + 1)
    BY RunIs DEF Re!Day
  <2>2. \A S : Re!RunBefore(S, today - 1) \in 0..today
    BY <1>1, RunIs
  <2> QED
    BY <2>1, <2>2 DEF Re!Day
<1>11. Re!Streak(kept, today).current = Re!RunBefore(N, IF today \in N THEN today ELSE today - 1)
  BY DEF Re!Streak, N
<1>12. /\ new.days = kept /\ new.longest \in Nat /\ act.longest <= new.longest
       /\ today \in N => Re!RunBefore(N, today) <= new.longest
  BY <1>1, <1>9, <1>10, <1>11 DEF Re!Larger
<1>13. new \in Re!Acts
  BY <1>4, <1>9, <1>12 DEF Re!Acts
<1>14. ASSUME NEW d \in Re!Day PROVE Re!RunBefore(N, d) <= new.longest
  <2>1. CASE d < today
    <3>1. \A e \in 0..d : e \in N => e \in A
      BY <1>1, <1>8, <2>1 DEF Re!Day
    <3>2. Re!RunBefore(N, d) <= Re!RunBefore(A, d)
      BY <3>1, RunsCompare DEF Re!Day
    <3> QED
      <4>1. Re!RunBefore(A, d) <= act.longest
        BY <1>6
      <4>2. Re!RunBefore(A, d) \in Nat /\ Re!RunBefore(N, d) \in Nat
        BY <1>10
      <4> HIDE DEF new
      <4> QED
        BY <1>1, <1>12, <3>2, <4>1, <4>2
  <2>2. CASE d \notin N
    <3>1. Re!RunBefore(N, d) = 0
      BY <2>2, RunsCompare DEF Re!Day
    <3> QED
      BY <1>12, <3>1
  <2>3. d \in N => d <= today
    BY <1>8
  <2> QED
    BY <1>1, <1>12, <2>1, <2>2, <2>3 DEF Re!Day
<1>15. ASSUME NEW d \in Re!Day, Re!RunBefore(B, d) <= DaysRetained PROVE Re!RunBefore(B, d) <= new.longest
  <2>1. CASE d < today
    <3>1. \A e \in 0..d : e \in B <=> e \in F
      BY <1>1, <2>1 DEF Re!Day
    <3>2. Re!RunBefore(B, d) <= Re!RunBefore(F, d) /\ Re!RunBefore(F, d) <= Re!RunBefore(B, d)
      BY <3>1, RunsCompare DEF Re!Day
    <3> QED
      <4>1. Re!RunBefore(F, d) \in Nat /\ Re!RunBefore(B, d) \in Nat
        BY <1>10
      <4>2. Re!RunBefore(F, d) <= DaysRetained
        BY <1>15, <3>2, <4>1 DEF Re!ReputationAssumption
      <4>3. Re!RunBefore(F, d) <= act.longest
        BY <1>6, <4>2
      <4> HIDE DEF new, B
      <4> QED
        BY <1>1, <1>12, <3>2, <4>1, <4>3
  <2>2. CASE d > today
    <3>1. d \notin B
      BY <1>1, <1>8, <2>2 DEF Re!Day
    <3>2. Re!RunBefore(B, d) = 0
      BY <3>1, RunsCompare DEF Re!Day
    <3> QED
      BY <1>12, <3>2
  <2>3. CASE d = today
    <3> DEFINE n == Re!RunBefore(B, today)
    <3>1. n \in 0..(today + 1) /\ (n > 0 => today - n + 1 .. today \subseteq B) /\ n <= DaysRetained
      BY <1>1, <1>15, <2>3, RunIs
    <3>2. \A k \in 1..(today + 1) : today - k + 1 .. today \subseteq N => k <= Re!RunBefore(N, today)
      BY <1>1, RunIs
    <3> HIDE DEF n
    <3>3. ASSUME n > 0, NEW e \in today - n + 1 .. today PROVE e \in N
      <4>1. e \in B /\ e \in Int /\ e >= 0 /\ e <= today /\ today - e + 1 <= n
        BY <1>1, <3>1, <3>3
      <4>2. {x \in B : x >= e} \subseteq e..today
        <5>1. \A x \in B : x \in 0..today
          BY <1>8
        <5>2. ASSUME NEW x \in B, x >= e PROVE x \in e..today
          BY <1>1, <4>1, <5>1, <5>2
        <5> HIDE DEF B
        <5> QED
          BY <5>2
      <4>3. Re!Cardinality(e..today) = today - e + 1 /\ IsFiniteSet(e..today)
        BY <1>1, <4>1, FS_Interval, ReputationCardinality
      <4>4. Re!Cardinality({x \in B : x >= e}) \in Nat /\ Re!Cardinality({x \in B : x >= e}) <= Re!Cardinality(e..today)
        BY <4>2, <4>3, FS_Subset, FS_CardinalityType, ReputationCardinality
      <4>5. Re!Retained(B, e)
        BY <1>1, <3>1, <4>1, <4>3, <4>4 DEF Re!Retained, Re!ReputationAssumption
      <4> QED
        BY <1>7, <4>1, <4>5, InLatest
    <3>4. CASE n > 0
      <4>1. today - n + 1 .. today \subseteq N /\ today \in today - n + 1 .. today
        BY <1>1, <3>1, <3>3, <3>4
      <4>2. n <= Re!RunBefore(N, today) /\ today \in N
        BY <3>1, <3>2, <3>4, <4>1
      <4> QED
        BY <1>10, <1>12, <2>3, <3>1, <4>2 DEF n
    <3> QED
      BY <1>12, <2>3, <3>1, <3>4 DEF n
  <2> QED
    BY <1>1, <2>1, <2>2, <2>3 DEF Re!Day
<1>16. Re!Carried(new, B)
  BY <1>7, <1>12, <1>14, <1>15 DEF Re!Carried, N
<1> QED
  BY <1>12, <1>13, <1>16

-----------------------------------------------------------------------------
(* Reputation: what a step leaves alone *)

LEMMA ReputationInit ==
  ASSUME Re!ReputationAssumption, Re!Init
  PROVE  Re!ReputationInv
<1>1. Re!Shapes
  BY DEF Re!Init, Re!Shapes, Re!Day, Re!ReputationAssumption
<1>2. ASSUME NEW w \in Rated PROVE Re!Tells(w)
  <2>1. /\ \A s \in Settlements : lane[s][w] = Re!Idle
        /\ outcomes[w] = {} /\ rep[w] = [matched |-> 0, total |-> 0] /\ badges[w] = {}
        /\ activity[w] = [days |-> [d \in Re!Day |-> Re!Unanswered], longest |-> 0]
    BY DEF Re!Init, Re!Idle
  <2>2. /\ Re!Idle.at = "idle" /\ Re!LaneHolds(Re!Idle)
        /\ activity[w] \in Re!Acts /\ rep[w] \in Re!Records
    BY <2>1 DEF Re!Idle, Re!LaneHolds, Re!Acts, Re!Records, Re!Unanswered
  <2>3. Re!OutcomesHold(w)
    BY <2>1, <2>2, FS_EmptySet, ReputationCardinality DEF Re!OutcomesHold, Re!Busy
  <2>4. Re!Counted(w) = {} /\ {o \in Re!Counted(w) : o.matched} = {} /\ Re!Folded(w) = {} /\ Re!Cardinality({}) = 0 /\ Re!Busy(w) = {}
    BY <2>1, <2>2, FS_EmptySet, ReputationCardinality DEF Re!Counted, Re!Folded, Re!Busy
  <2>5. Re!CountsHold(w) /\ Re!Alone(w)
    BY <2>1, <2>2, <2>4 DEF Re!CountsHold, Re!Alone
  <2>6. Re!Carried(activity[w], {})
    <3>1. Re!Active(activity[w].days) = {} /\ Re!Latest({}) = {} /\ activity[w].longest = 0
      BY <2>1 DEF Re!Active, Re!Latest, Re!Unanswered
    <3>2. \A d \in Re!Day : Re!RunBefore({}, d) = 0
      BY RunsCompare DEF Re!Day
    <3> QED
      BY <3>1, <3>2 DEF Re!Carried
  <2> QED
    BY <2>2, <2>3, <2>4, <2>5, <2>6 DEF Re!Tells
<1> QED
  BY <1>1, <1>2 DEF Re!ReputationInv

\* Nothing about a worker changes.
LEMMA ToldElsewhere ==
  ASSUME NEW w \in Rated, Re!Tells(w), rep[w]' = rep[w], activity[w]' = activity[w], badges[w]' = badges[w],
         outcomes[w]' = outcomes[w], today' = today, w \in raced' <=> w \in raced,
         \A s \in Settlements : lane[s][w]' = lane[s][w]
  PROVE  Re!Tells(w)'
<1>1. Re!OutcomesHold(w) /\ Re!CountsHold(w) /\ activity[w] \in Re!Acts
      /\ (w \notin raced => Re!Alone(w) /\ Re!Carried(activity[w], Re!Folded(w)))
  BY DEF Re!Tells
<1>2. \A o \in outcomes[w] : o.of \in Settlements
  BY <1>1 DEF Re!OutcomesHold
<1>3. (Re!Counted(w))' = Re!Counted(w) /\ (Re!Folded(w))' = Re!Folded(w) /\ (Re!Busy(w))' = Re!Busy(w)
  BY <1>2 DEF Re!Counted, Re!Folded, Re!Busy
<1>4. Re!OutcomesHold(w)'
  BY <1>1, <1>3 DEF Re!OutcomesHold, Re!LaneHolds
<1>5. Re!CountsHold(w)'
  BY <1>1, <1>3 DEF Re!CountsHold
<1>6. w \notin raced => Re!Alone(w)'
  BY <1>1, <1>3 DEF Re!Alone
<1> QED
  BY <1>1, <1>3, <1>4, <1>5, <1>6 DEF Re!Tells, Re!Carried

\* One await of a settlement about a worker: only that worker's records change.
LEMMA PutIs ==
  ASSUME Re!Shapes, NEW s \in Settlements, NEW w \in Rated, NEW r, Re!Put(s, w, r)
  PROVE  /\ lane'[s][w] = r
         /\ \A u \in Settlements, v \in Rated : u # s \/ v # w => lane'[u][v] = lane[u][v]
         /\ lane' = [u \in Settlements |-> [v \in Rated |-> lane'[u][v]]]
<1>1. /\ lane' = [lane EXCEPT ![s] = [lane[s] EXCEPT ![w] = r]]
      /\ lane = [u \in Settlements |-> [v \in Rated |-> lane[u][v]]]
  BY DEF Re!Put, Re!Shapes
<1>2. lane' = [u \in Settlements |-> IF u = s THEN [lane[s] EXCEPT ![w] = r] ELSE lane[u]]
  BY <1>1
<1>3. [lane[s] EXCEPT ![w] = r] = [v \in Rated |-> IF v = w THEN r ELSE lane[s][v]]
  BY <1>1
<1>4. \A u \in Settlements : lane[u] = [v \in Rated |-> lane[u][v]]
  BY <1>1
<1> QED
  BY <1>2, <1>3, <1>4

LEMMA OneAwait ==
  ASSUME Re!ReputationInv, NEW s \in Settlements, NEW w \in Rated, NEW r, Re!Put(s, w, r),
         today' = today, outcomes' = outcomes, raced' = raced,
         rep' = [rep EXCEPT ![w] = rep'[w]], activity' = [activity EXCEPT ![w] = activity'[w]],
         badges' = [badges EXCEPT ![w] = badges'[w]]
  PROVE  Re!Tells(w)' => Re!ReputationInv'
<1>1. Re!Shapes /\ \A v \in Rated : Re!Tells(v)
  BY DEF Re!ReputationInv
<1>2. /\ lane'[s][w] = r
      /\ \A u \in Settlements, v \in Rated : u # s \/ v # w => lane'[u][v] = lane[u][v]
      /\ lane' = [u \in Settlements |-> [v \in Rated |-> lane'[u][v]]]
  BY <1>1, PutIs
<1>3. /\ rep' = [v \in Rated |-> rep'[v]] /\ activity' = [v \in Rated |-> activity'[v]] /\ badges' = [v \in Rated |-> badges'[v]]
      /\ \A v \in Rated : v # w => rep'[v] = rep[v] /\ activity'[v] = activity[v] /\ badges'[v] = badges[v]
  BY <1>1 DEF Re!Shapes
<1>4. Re!Shapes'
  BY <1>1, <1>2, <1>3 DEF Re!Shapes
<1>5. ASSUME NEW v \in Rated, v # w PROVE Re!Tells(v)'
  <2>1. /\ rep[v]' = rep[v] /\ activity[v]' = activity[v] /\ badges[v]' = badges[v] /\ outcomes[v]' = outcomes[v]
        /\ v \in raced' <=> v \in raced
        /\ \A u \in Settlements : lane[u][v]' = lane[u][v]
    BY <1>2, <1>3, <1>5
  <2> QED
    BY <1>1, <2>1, ToldElsewhere
<1> QED
  BY <1>4, <1>5 DEF Re!ReputationInv

\* What is counted and what is folded after an await.
LEMMA AwaitTold ==
  ASSUME Re!ReputationInv, NEW s \in Settlements, NEW w \in Rated, NEW r, Re!Put(s, w, r), outcomes' = outcomes,
         today' = today, lane[s][w].at \notin {"idle", "done"}, r.at # "idle", r.matched = lane[s][w].matched, Re!LaneHolds(r)
  PROVE  /\ Re!OutcomesHold(w)' /\ Re!Busy(w)' \subseteq Re!Busy(w) /\ s \in Re!Busy(w)
         /\ (lane[s][w].at \in {"rep", "count"} <=> r.at \in {"rep", "count"}) => Re!Counted(w)' = Re!Counted(w)
         /\ (lane[s][w].at \in Re!Unfolded <=> r.at \in Re!Unfolded) => Re!Folded(w)' = Re!Folded(w)
         /\ lane[s][w].at \in Re!Unfolded /\ r.at \notin Re!Unfolded => Re!Folded(w)' = Re!Folded(w) \cup {today}
         /\ lane[s][w].at = "count" /\ r.at \notin {"rep", "count"} =>
              \E p : /\ p \in outcomes[w] /\ p \notin Re!Counted(w) /\ (p.matched <=> r.matched = 1)
                     /\ Re!Counted(w)' = Re!Counted(w) \cup {p}
<1>1. Re!Shapes /\ Re!OutcomesHold(w)
  BY DEF Re!ReputationInv, Re!Tells
<1>2. /\ lane'[s][w] = r
      /\ \A u \in Settlements : u # s => lane'[u][w] = lane[u][w]
  BY <1>1, PutIs
<1>3. s \in Re!Busy(w) /\ Re!Busy(w)' \subseteq Re!Busy(w)
  BY <1>2 DEF Re!Busy
<1>4. PICK p \in outcomes[w] : p.of = s /\ p.on = today /\ (p.matched <=> lane[s][w].matched = 1)
  BY <1>1, <1>3 DEF Re!OutcomesHold
<1>5. /\ \A o \in outcomes[w] : o.of \in Settlements /\ (o.of = s => o = p)
      /\ \A o \in outcomes[w] : o # p => lane'[o.of][w] = lane[o.of][w]
  BY <1>1, <1>2, <1>4 DEF Re!OutcomesHold
<1>6. Re!OutcomesHold(w)'
  <2>1. \A u \in Settlements : /\ Re!LaneHolds(lane'[u][w])
                               /\ lane'[u][w].at = "idle" => \A o \in outcomes[w] : o.of # u
    BY <1>1, <1>2 DEF Re!OutcomesHold
  <2>2. \A u \in Re!Busy(w)' : \E o \in outcomes[w] : o.of = u /\ o.on = today /\ (o.matched <=> lane'[u][w].matched = 1)
    <3> SUFFICES ASSUME NEW u \in Re!Busy(w)'
                 PROVE  \E o \in outcomes[w] : o.of = u /\ o.on = today /\ (o.matched <=> lane'[u][w].matched = 1)
      OBVIOUS
    <3>1. u \in Settlements /\ u \in Re!Busy(w)
      BY <1>3 DEF Re!Busy
    <3>2. PICK o \in outcomes[w] : o.of = u /\ o.on = today /\ (o.matched <=> lane[u][w].matched = 1)
      BY <1>1, <3>1 DEF Re!OutcomesHold
    <3>3. lane'[u][w].matched = lane[u][w].matched
      BY <1>2, <3>1
    <3> QED
      BY <3>2, <3>3
  <2>3. Re!Busy(w)' \subseteq Settlements
    BY DEF Re!Busy
  <2> QED
    BY <1>1, <2>1, <2>2, <2>3 DEF Re!OutcomesHold, Re!LaneHolds
<1>7. ASSUME NEW o PROVE /\ o \in Re!Counted(w) <=> o \in outcomes[w] /\ lane[o.of][w].at \notin {"rep", "count"}
                         /\ o \in Re!Counted(w)' <=> o \in outcomes[w] /\ lane'[o.of][w].at \notin {"rep", "count"}
  BY DEF Re!Counted
<1>8. (lane[s][w].at \in {"rep", "count"} <=> r.at \in {"rep", "count"}) => Re!Counted(w)' = Re!Counted(w)
  <2>1. ASSUME lane[s][w].at \in {"rep", "count"} <=> r.at \in {"rep", "count"} PROVE \A o : o \in Re!Counted(w)' <=> o \in Re!Counted(w)
    BY <1>2, <1>4, <1>5, <1>7, <2>1
  <2> QED
    BY <2>1 DEF Re!Counted
<1>9. lane[s][w].at = "count" /\ r.at \notin {"rep", "count"} =>
         p \notin Re!Counted(w) /\ Re!Counted(w)' = Re!Counted(w) \cup {p}
  <2>1. ASSUME lane[s][w].at = "count", r.at \notin {"rep", "count"}
        PROVE  p \notin Re!Counted(w) /\ \A o : o \in Re!Counted(w)' <=> o \in Re!Counted(w) \/ o = p
    BY <1>2, <1>4, <1>5, <1>7, <2>1
  <2> QED
    BY <2>1 DEF Re!Counted
<1>10. \A d : /\ d \in Re!Folded(w) <=> \E o \in outcomes[w] : lane[o.of][w].at \notin Re!Unfolded /\ o.on = d
              /\ d \in Re!Folded(w)' <=> \E o \in outcomes[w] : lane'[o.of][w].at \notin Re!Unfolded /\ o.on = d
  BY DEF Re!Folded, Re!Unfolded
<1>11. (lane[s][w].at \in Re!Unfolded <=> r.at \in Re!Unfolded) => Re!Folded(w)' = Re!Folded(w)
  <2>1. ASSUME lane[s][w].at \in Re!Unfolded <=> r.at \in Re!Unfolded PROVE \A d : d \in Re!Folded(w)' <=> d \in Re!Folded(w)
    <3>1. \A o \in outcomes[w] : lane[o.of][w].at \in Re!Unfolded <=> lane'[o.of][w].at \in Re!Unfolded
      BY <1>2, <1>4, <1>5, <2>1
    <3> QED
      BY <1>10, <3>1
  <2> QED
    BY <2>1 DEF Re!Folded
<1>12. lane[s][w].at \in Re!Unfolded /\ r.at \notin Re!Unfolded => Re!Folded(w)' = Re!Folded(w) \cup {today}
  <2>1. ASSUME lane[s][w].at \in Re!Unfolded, r.at \notin Re!Unfolded PROVE \A d : d \in Re!Folded(w)' <=> d \in Re!Folded(w) \/ d = today
    <3>1. /\ \A o \in outcomes[w] : o # p => (lane[o.of][w].at \in Re!Unfolded <=> lane'[o.of][w].at \in Re!Unfolded)
          /\ lane[p.of][w].at \in Re!Unfolded /\ lane'[p.of][w].at \notin Re!Unfolded
      BY <1>2, <1>4, <1>5, <2>1
    <3> QED
      BY <1>4, <1>10, <3>1
  <2> QED
    BY <2>1 DEF Re!Folded
<1> QED
  BY <1>3, <1>4, <1>6, <1>8, <1>9, <1>11, <1>12

-----------------------------------------------------------------------------
(* Reputation: what each step keeps *)

\* An await that reads, or that writes the index.
LEMMA ReadingKeeps ==
  ASSUME Re!ReputationInv, NEW s \in Settlements, NEW w \in Rated, NEW r, Re!Put(s, w, r),
         outcomes' = outcomes, today' = today, raced' = raced, rep' = rep, activity' = activity, badges' = badges,
         lane[s][w].at \notin {"idle", "done"}, r.at # "idle", r.matched = lane[s][w].matched, Re!LaneHolds(r),
         lane[s][w].at \in {"rep", "count"} <=> r.at \in {"rep", "count"},
         lane[s][w].at \in Re!Unfolded <=> r.at \in Re!Unfolded,
         r.at = "count" => r.rep = rep[w], r.at = "fold" => r.act = activity[w], r.at = "award" => badges[w] \subseteq r.had
  PROVE  Re!ReputationInv'
<1>1. Re!Shapes /\ Re!Tells(w)
  BY DEF Re!ReputationInv
<1>2. lane'[s][w] = r /\ \A u \in Settlements : u # s => lane'[u][w] = lane[u][w]
  BY <1>1, PutIs
<1>3. /\ Re!OutcomesHold(w)' /\ Re!Busy(w)' \subseteq Re!Busy(w)
      /\ Re!Counted(w)' = Re!Counted(w) /\ Re!Folded(w)' = Re!Folded(w)
  BY AwaitTold
<1>4. /\ rep' = [rep EXCEPT ![w] = rep'[w]] /\ activity' = [activity EXCEPT ![w] = activity'[w]]
      /\ badges' = [badges EXCEPT ![w] = badges'[w]]
  BY <1>1 DEF Re!Shapes
<1>5. Re!CountsHold(w) /\ activity[w] \in Re!Acts
      /\ (w \notin raced => Re!Alone(w) /\ Re!Carried(activity[w], Re!Folded(w)))
  BY <1>1 DEF Re!Tells
<1>6. Re!CountsHold(w)'
  BY <1>2, <1>3, <1>5 DEF Re!CountsHold
<1>7. ASSUME w \notin raced PROVE Re!Alone(w)'
  BY <1>2, <1>3, <1>5, <1>7 DEF Re!Alone
<1>8. w \notin raced => Re!Carried(activity[w], Re!Folded(w))'
  BY <1>3, <1>5 DEF Re!Carried
<1>9. Re!Tells(w)'
  BY <1>3, <1>5, <1>6, <1>7, <1>8 DEF Re!Tells
<1> QED
  BY <1>4, <1>9, OneAwait

LEMMA LaneIs ==
  ASSUME NEW q, Re!LaneHolds(q), NEW at \in Re!Unfolded \cup {"badges", "award", "done"}, NEW read \in Re!Records,
         NEW act \in Re!Acts, NEW list, NEW had
  PROVE  /\ Re!LaneHolds([at |-> at, matched |-> q.matched, rep |-> read, act |-> act, known |-> list, had |-> had])
         /\ q.rep \in Re!Records /\ q.act \in Re!Acts
BY DEF Re!LaneHolds

LEMMA LaneRep ==
  ASSUME NEW q, Re!LaneHolds(q), NEW at, NEW read
  PROVE  [q EXCEPT !.at = at, !.rep = read] = [at |-> at, matched |-> q.matched, rep |-> read, act |-> q.act, known |-> q.known, had |-> q.had]
<1>1. PICK p : p = [q EXCEPT !.at = at]
  OBVIOUS
<1>2. p = [at |-> at, matched |-> q.matched, rep |-> q.rep, act |-> q.act, known |-> q.known, had |-> q.had]
  BY <1>1 DEF Re!LaneHolds
<1>3. [p EXCEPT !.rep = read] = [at |-> at, matched |-> q.matched, rep |-> read, act |-> q.act, known |-> q.known, had |-> q.had]
  BY <1>2
<1> QED
  BY <1>1, <1>3, Zenon

LEMMA LaneAct ==
  ASSUME NEW q, Re!LaneHolds(q), NEW at, NEW act
  PROVE  [q EXCEPT !.at = at, !.act = act] = [at |-> at, matched |-> q.matched, rep |-> q.rep, act |-> act, known |-> q.known, had |-> q.had]
<1>1. PICK p : p = [q EXCEPT !.at = at]
  OBVIOUS
<1>2. p = [at |-> at, matched |-> q.matched, rep |-> q.rep, act |-> q.act, known |-> q.known, had |-> q.had]
  BY <1>1 DEF Re!LaneHolds
<1>3. [p EXCEPT !.act = act] = [at |-> at, matched |-> q.matched, rep |-> q.rep, act |-> act, known |-> q.known, had |-> q.had]
  BY <1>2
<1> QED
  BY <1>1, <1>3, Zenon

LEMMA LaneKnown ==
  ASSUME NEW q, Re!LaneHolds(q), NEW at, NEW list
  PROVE  [q EXCEPT !.at = at, !.known = list] = [at |-> at, matched |-> q.matched, rep |-> q.rep, act |-> q.act, known |-> list, had |-> q.had]
<1>1. PICK p : p = [q EXCEPT !.at = at]
  OBVIOUS
<1>2. p = [at |-> at, matched |-> q.matched, rep |-> q.rep, act |-> q.act, known |-> q.known, had |-> q.had]
  BY <1>1 DEF Re!LaneHolds
<1>3. [p EXCEPT !.known = list] = [at |-> at, matched |-> q.matched, rep |-> q.rep, act |-> q.act, known |-> list, had |-> q.had]
  BY <1>2
<1> QED
  BY <1>1, <1>3, Zenon

LEMMA LaneHad ==
  ASSUME NEW q, Re!LaneHolds(q), NEW at, NEW had
  PROVE  [q EXCEPT !.at = at, !.had = had] = [at |-> at, matched |-> q.matched, rep |-> q.rep, act |-> q.act, known |-> q.known, had |-> had]
<1>1. PICK p : p = [q EXCEPT !.at = at]
  OBVIOUS
<1>2. p = [at |-> at, matched |-> q.matched, rep |-> q.rep, act |-> q.act, known |-> q.known, had |-> q.had]
  BY <1>1 DEF Re!LaneHolds
<1>3. [p EXCEPT !.had = had] = [at |-> at, matched |-> q.matched, rep |-> q.rep, act |-> q.act, known |-> q.known, had |-> had]
  BY <1>2
<1> QED
  BY <1>1, <1>3, Zenon

LEMMA ReadReputationKeeps ==
  ASSUME Re!ReputationInv, NEW s \in Settlements, NEW w \in Rated, Re!ReadReputation(s, w)
  PROVE  Re!ReputationInv'
<1>0. PICK read, step : read = rep[w] /\ step = "count"
  OBVIOUS
<1> DEFINE r == [lane[s][w] EXCEPT !.at = step, !.rep = read]
<1>1. Re!LaneHolds(lane[s][w]) /\ rep[w] \in Re!Records
  BY DEF Re!ReputationInv, Re!Tells, Re!OutcomesHold, Re!CountsHold
<1>2. Re!LaneHolds(r) /\ r.at = "count" /\ r.rep = rep[w] /\ r.matched = lane[s][w].matched /\ lane[s][w].at = "rep"
  <2> DEFINE q == lane[s][w]
  <2>1. q.rep \in Re!Records /\ q.act \in Re!Acts
    BY <1>1 DEF Re!LaneHolds
  <2>2. r = [at |-> step, matched |-> q.matched, rep |-> read, act |-> q.act, known |-> q.known, had |-> q.had]
    BY <1>1, LaneRep, Zenon
  <2>3. step \in Re!Unfolded \cup {"badges", "award", "done"}
    BY <1>0 DEF Re!Unfolded
  <2>4. Re!LaneHolds(r)
    <3> HIDE DEF r, q
    <3> QED
      BY <1>0, <1>1, <2>1, <2>2, <2>3, LaneIs DEF q
  <2> QED
    BY <1>0, <1>1, <2>2, <2>4 DEF Re!ReadReputation
<1>3. Re!Put(s, w, r) /\ UNCHANGED <<rep, activity, badges, outcomes, today, raced>>
  BY <1>0 DEF Re!ReadReputation, Re!stored
<1> HIDE DEF r
<1> QED
  BY <1>2, <1>3, ReadingKeeps DEF Re!Unfolded

LEMMA ReadKnownKeeps ==
  ASSUME Re!ReputationInv, NEW s \in Settlements, NEW w \in Rated, Re!ReadKnown(s, w)
  PROVE  Re!ReputationInv'
<1> DEFINE r == [lane[s][w] EXCEPT !.at = IF w \in Re!ToSet(known) THEN "activity" ELSE "index", !.known = known]
<1>1. Re!LaneHolds(lane[s][w])
  BY DEF Re!ReputationInv, Re!Tells, Re!OutcomesHold
<1>0. (IF w \in Re!ToSet(known) THEN "activity" ELSE "index") \in {"activity", "index"}
  OBVIOUS
<1>2. Re!LaneHolds(r) /\ r.at \in {"activity", "index"} /\ r.matched = lane[s][w].matched /\ lane[s][w].at = "known"
  <2> DEFINE q == lane[s][w]
  <2>1. q.rep \in Re!Records /\ q.act \in Re!Acts
    BY <1>1 DEF Re!LaneHolds
  <2>2. r = [at |-> IF w \in Re!ToSet(known) THEN "activity" ELSE "index", matched |-> q.matched, rep |-> q.rep, act |-> q.act, known |-> known, had |-> q.had]
    BY <1>1, LaneKnown, Zenon
  <2>3. (IF w \in Re!ToSet(known) THEN "activity" ELSE "index") \in Re!Unfolded \cup {"badges", "award", "done"}
    BY DEF Re!Unfolded
  <2>4. Re!LaneHolds(r)
    <3> HIDE DEF r, q
    <3> QED
      BY <1>1, <2>1, <2>2, <2>3, LaneIs DEF q
  <2> QED
    BY <1>1, <2>2, <2>4 DEF Re!ReadKnown
<1>3. Re!Put(s, w, r) /\ UNCHANGED <<rep, activity, badges, outcomes, today, raced>>
  BY DEF Re!ReadKnown, Re!stored
<1> HIDE DEF r
<1> QED
  BY <1>2, <1>3, ReadingKeeps DEF Re!Unfolded

\* What a write leaves of a lane: the outcome that it is about.
LEMMA LaneMatched ==
  ASSUME NEW q, Re!LaneHolds(q), NEW at, NEW m
  PROVE  [q EXCEPT !.at = at, !.matched = m] = [at |-> at, matched |-> m, rep |-> q.rep, act |-> q.act, known |-> q.known, had |-> q.had]
<1>1. PICK p : p = [q EXCEPT !.at = at]
  OBVIOUS
<1>2. p = [at |-> at, matched |-> q.matched, rep |-> q.rep, act |-> q.act, known |-> q.known, had |-> q.had]
  BY <1>1 DEF Re!LaneHolds
<1>3. [p EXCEPT !.matched = m] = [at |-> at, matched |-> m, rep |-> q.rep, act |-> q.act, known |-> q.known, had |-> q.had]
  BY <1>2
<1> QED
  BY <1>1, <1>3, Zenon

LEMMA IdleHolds == Re!LaneHolds(Re!Idle)
BY DEF Re!Idle, Re!LaneHolds, Re!Acts, Re!Records, Re!Unanswered

LEMMA WrittenLane ==
  ASSUME NEW at \in Re!Unfolded \cup {"badges", "award", "done"}, NEW m \in 0..1, NEW r,
         r = [at |-> at, matched |-> m, rep |-> Re!Idle.rep, act |-> Re!Idle.act, known |-> Re!Idle.known, had |-> Re!Idle.had]
  PROVE  Re!LaneHolds(r) /\ r.at = at /\ r.matched = m
BY IdleHolds DEF Re!LaneHolds

LEMMA WriteKnownKeeps ==
  ASSUME Re!ReputationInv, NEW s \in Settlements, NEW w \in Rated, Re!WriteKnown(s, w)
  PROVE  Re!ReputationInv'
<1> DEFINE r == [Re!Idle EXCEPT !.at = "activity", !.matched = lane[s][w].matched]
<1>1. Re!LaneHolds(lane[s][w])
  BY DEF Re!ReputationInv, Re!Tells, Re!OutcomesHold
<1>2. Re!LaneHolds(r) /\ r.at = "activity" /\ r.matched = lane[s][w].matched /\ lane[s][w].at = "index"
  <2>1. "activity" \in Re!Unfolded \cup {"badges", "award", "done"} /\ lane[s][w].at = "index" /\ lane[s][w].matched \in 0..1
    BY <1>1 DEF Re!Unfolded, Re!WriteKnown, Re!LaneHolds
  <2>2. r = [at |-> "activity", matched |-> lane[s][w].matched, rep |-> Re!Idle.rep, act |-> Re!Idle.act,
            known |-> Re!Idle.known, had |-> Re!Idle.had]
    BY IdleHolds, LaneMatched, Zenon
  <2> HIDE DEF r
  <2> QED
    BY <2>1, <2>2, WrittenLane
<1>3. Re!Put(s, w, r) /\ UNCHANGED <<rep, activity, badges, outcomes, today, raced>>
  BY DEF Re!WriteKnown, Re!To
<1> HIDE DEF r
<1> QED
  BY <1>2, <1>3, ReadingKeeps DEF Re!Unfolded

LEMMA ReadActivityKeeps ==
  ASSUME Re!ReputationInv, NEW s \in Settlements, NEW w \in Rated, Re!ReadActivity(s, w)
  PROVE  Re!ReputationInv'
<1>0. PICK act, step : act = activity[w] /\ step = "fold"
  OBVIOUS
<1> DEFINE r == [lane[s][w] EXCEPT !.at = step, !.act = act]
<1>1. Re!LaneHolds(lane[s][w]) /\ activity[w] \in Re!Acts
  BY DEF Re!ReputationInv, Re!Tells, Re!OutcomesHold
<1>2. Re!LaneHolds(r) /\ r.at = "fold" /\ r.act = activity[w] /\ r.matched = lane[s][w].matched /\ lane[s][w].at = "activity"
  <2> DEFINE q == lane[s][w]
  <2>1. q.rep \in Re!Records /\ q.act \in Re!Acts
    BY <1>1 DEF Re!LaneHolds
  <2>2. r = [at |-> step, matched |-> q.matched, rep |-> q.rep, act |-> act, known |-> q.known, had |-> q.had]
    BY <1>1, LaneAct, Zenon
  <2>3. step \in Re!Unfolded \cup {"badges", "award", "done"}
    BY <1>0 DEF Re!Unfolded
  <2>4. Re!LaneHolds(r)
    <3> HIDE DEF r, q
    <3> QED
      BY <1>0, <1>1, <2>1, <2>2, <2>3, LaneIs DEF q
  <2> QED
    BY <1>0, <1>1, <2>2, <2>4 DEF Re!ReadActivity
<1>3. Re!Put(s, w, r) /\ UNCHANGED <<rep, activity, badges, outcomes, today, raced>>
  BY <1>0 DEF Re!ReadActivity, Re!stored
<1> HIDE DEF r
<1> QED
  BY <1>2, <1>3, ReadingKeeps DEF Re!Unfolded

LEMMA ReadForBadgesKeeps ==
  ASSUME Re!ReputationInv, NEW s \in Settlements, NEW w \in Rated, Re!ReadForBadges(s, w)
  PROVE  Re!ReputationInv'
<1>1. Re!LaneHolds(lane[s][w])
  BY DEF Re!ReputationInv, Re!Tells, Re!OutcomesHold
<1>2. PICK step, had : /\ Re!Put(s, w, [lane[s][w] EXCEPT !.at = step, !.had = had])
                       /\ step \in {"done", "award"} /\ badges[w] \subseteq had /\ lane[s][w].at = "badges"
                       /\ UNCHANGED <<rep, activity, badges, outcomes, today, raced>>
  BY DEF Re!ReadForBadges, Re!stored
<1> DEFINE r == [lane[s][w] EXCEPT !.at = step, !.had = had]
<1>3. Re!LaneHolds(r) /\ r.at \in {"done", "award"} /\ badges[w] \subseteq r.had /\ r.matched = lane[s][w].matched
  <2> DEFINE q == lane[s][w]
  <2>1. q.rep \in Re!Records /\ q.act \in Re!Acts
    BY <1>1 DEF Re!LaneHolds
  <2>2. r = [at |-> step, matched |-> q.matched, rep |-> q.rep, act |-> q.act, known |-> q.known, had |-> had]
    BY <1>1, LaneHad, Zenon
  <2>3. step \in Re!Unfolded \cup {"badges", "award", "done"}
    BY <1>2 DEF Re!Unfolded
  <2>4. Re!LaneHolds(r)
    <3> HIDE DEF r, q
    <3> QED
      BY <1>1, <2>1, <2>2, <2>3, LaneIs DEF q
  <2> QED
    BY <1>1, <1>2, <2>2, <2>4 DEF Re!ReadForBadges
<1>4. Re!Put(s, w, r) /\ UNCHANGED <<rep, activity, badges, outcomes, today, raced>>
  BY <1>2
<1> HIDE DEF r
<1> QED
  BY <1>2, <1>3, <1>4, ReadingKeeps DEF Re!Unfolded

LEMMA WriteBadgesKeeps ==
  ASSUME Re!ReputationInv, NEW s \in Settlements, NEW w \in Rated, Re!WriteBadges(s, w)
  PROVE  Re!ReputationInv' /\ (w \notin raced => badges[w] \subseteq badges'[w])
<1> DEFINE r == [Re!Idle EXCEPT !.at = "done", !.matched = lane[s][w].matched]
<1>1. Re!LaneHolds(lane[s][w]) /\ Re!Shapes /\ Re!Tells(w)
  BY DEF Re!ReputationInv, Re!Tells, Re!OutcomesHold
<1>2. Re!LaneHolds(r) /\ r.at = "done" /\ r.matched = lane[s][w].matched /\ lane[s][w].at = "award"
  <2>1. "done" \in Re!Unfolded \cup {"badges", "award", "done"} /\ lane[s][w].at = "award" /\ lane[s][w].matched \in 0..1
    BY <1>1 DEF Re!Unfolded, Re!WriteBadges, Re!LaneHolds
  <2>2. r = [at |-> "done", matched |-> lane[s][w].matched, rep |-> Re!Idle.rep, act |-> Re!Idle.act,
            known |-> Re!Idle.known, had |-> Re!Idle.had]
    BY IdleHolds, LaneMatched, Zenon
  <2> HIDE DEF r
  <2> QED
    BY <2>1, <2>2, WrittenLane
<1>3. /\ Re!Put(s, w, r) /\ UNCHANGED <<rep, activity, outcomes, today, raced>>
      /\ badges' = [badges EXCEPT ![w] = lane[s][w].had]
  BY DEF Re!WriteBadges, Re!To
<1> HIDE DEF r
<1>4. lane'[s][w] = r /\ \A u \in Settlements : u # s => lane'[u][w] = lane[u][w]
  BY <1>1, <1>3, PutIs
<1>5. /\ Re!OutcomesHold(w)' /\ Re!Busy(w)' \subseteq Re!Busy(w) /\ s \in Re!Busy(w)
      /\ Re!Counted(w)' = Re!Counted(w) /\ Re!Folded(w)' = Re!Folded(w)
  BY <1>2, <1>3, AwaitTold DEF Re!Unfolded
<1>6. /\ rep' = [rep EXCEPT ![w] = rep'[w]] /\ activity' = [activity EXCEPT ![w] = activity'[w]]
      /\ badges' = [badges EXCEPT ![w] = badges'[w]] /\ badges'[w] = lane[s][w].had
  BY <1>1, <1>3 DEF Re!Shapes
<1>7. Re!CountsHold(w) /\ activity[w] \in Re!Acts
      /\ (w \notin raced => Re!Alone(w) /\ Re!Carried(activity[w], Re!Folded(w)))
  BY <1>1 DEF Re!Tells
<1>8. Re!CountsHold(w)'
  BY <1>2, <1>3, <1>4, <1>5, <1>7 DEF Re!CountsHold
<1>9. ASSUME w \notin raced PROVE Re!Alone(w)' /\ badges[w] \subseteq badges'[w]
  <2>1. \A u \in Settlements : lane'[u][w].at = "award" => u \in Re!Busy(w)' /\ u # s
    BY <1>2, <1>4 DEF Re!Busy
  <2>2. \A u \in Settlements : lane'[u][w].at # "award"
    BY <1>5, <1>7, <1>9, <2>1 DEF Re!Alone
  <2> QED
    BY <1>2, <1>3, <1>4, <1>5, <1>6, <1>7, <1>9, <2>2 DEF Re!Alone
<1>10. w \notin raced => Re!Carried(activity[w], Re!Folded(w))'
  BY <1>3, <1>5, <1>7 DEF Re!Carried
<1>11. Re!Tells(w)'
  BY <1>3, <1>5, <1>7, <1>8, <1>9, <1>10 DEF Re!Tells
<1> QED
  BY <1>3, <1>6, <1>9, <1>11, OneAwait

LEMMA OneMoreCounted ==
  ASSUME NEW S, NEW p, IsFiniteSet(S), p \notin S
  PROVE  /\ Re!Cardinality(S \cup {p}) = Re!Cardinality(S) + 1 /\ Re!Cardinality(S) \in Nat
         /\ Re!Cardinality({o \in S \cup {p} : o.matched}) = Re!Cardinality({o \in S : o.matched}) + (IF p.matched THEN 1 ELSE 0)
         /\ Re!Cardinality({o \in S : o.matched}) \in Nat
<1>1. \A Z : IsFiniteSet(Z) /\ p \notin Z => Re!Cardinality(Z \cup {p}) = Re!Cardinality(Z) + 1 /\ Re!Cardinality(Z) \in Nat
  BY FS_AddElement, FS_CardinalityType, ReputationCardinality
<1> DEFINE M == {o \in S : o.matched}
<1>2. IsFiniteSet(M) /\ p \notin M
  BY FS_Subset
<1>3. {o \in S \cup {p} : o.matched} = IF p.matched THEN M \cup {p} ELSE M
  OBVIOUS
<1> HIDE DEF M
<1>4. /\ Re!Cardinality(S \cup {p}) = Re!Cardinality(S) + 1 /\ Re!Cardinality(S) \in Nat
      /\ Re!Cardinality(M \cup {p}) = Re!Cardinality(M) + 1 /\ Re!Cardinality(M) \in Nat
  BY <1>1, <1>2
<1>5. Re!Cardinality({o \in S \cup {p} : o.matched}) = Re!Cardinality(M) + (IF p.matched THEN 1 ELSE 0)
  BY <1>3, <1>4
<1> QED
  BY <1>4, <1>5 DEF M

\* The outcome is counted: reputation grows by no more than one outcome.
LEMMA WriteReputationKeeps ==
  ASSUME Re!ReputationInv, NEW s \in Settlements, NEW w \in Rated, Re!WriteReputation(s, w)
  PROVE  Re!ReputationInv' /\ (w \notin raced => rep'[w].total >= rep[w].total /\ rep'[w].matched >= rep[w].matched)
<1>1. Re!LaneHolds(lane[s][w]) /\ Re!Shapes /\ Re!Tells(w)
  BY DEF Re!ReputationInv, Re!Tells, Re!OutcomesHold
<1>2. PICK read, step : read = lane[s][w].rep /\ step = IF read.total = 0 THEN "known" ELSE "activity"
  OBVIOUS
<1> DEFINE r == [Re!Idle EXCEPT !.at = step, !.matched = lane[s][w].matched]
<1>3. /\ Re!Put(s, w, r) /\ UNCHANGED <<activity, badges, outcomes, today, raced>> /\ lane[s][w].at = "count"
      /\ rep' = [rep EXCEPT ![w] = [matched |-> read.matched + lane[s][w].matched, total |-> read.total + 1]]
  BY <1>2 DEF Re!WriteReputation, Re!To
<1>4. Re!LaneHolds(r) /\ r.at \in {"known", "activity"} /\ r.matched = lane[s][w].matched /\ r.matched \in 0..1
  <2>1. step \in {"known", "activity"} /\ lane[s][w].matched \in 0..1
    BY <1>1, <1>2 DEF Re!LaneHolds
  <2>2. step \in Re!Unfolded \cup {"badges", "award", "done"}
    BY <2>1 DEF Re!Unfolded
  <2>3. r = [at |-> step, matched |-> lane[s][w].matched, rep |-> Re!Idle.rep, act |-> Re!Idle.act,
            known |-> Re!Idle.known, had |-> Re!Idle.had]
    BY IdleHolds, LaneMatched, Zenon
  <2> HIDE DEF r
  <2> QED
    BY <2>1, <2>2, <2>3, WrittenLane
<1> HIDE DEF r
<1>5. lane'[s][w] = r /\ \A u \in Settlements : u # s => lane'[u][w] = lane[u][w]
  BY <1>1, <1>3, PutIs
<1>6. /\ Re!OutcomesHold(w)' /\ Re!Busy(w)' \subseteq Re!Busy(w) /\ s \in Re!Busy(w) /\ Re!Folded(w)' = Re!Folded(w)
      /\ \E p : /\ p \in outcomes[w] /\ p \notin Re!Counted(w) /\ (p.matched <=> r.matched = 1)
                /\ Re!Counted(w)' = Re!Counted(w) \cup {p}
  BY <1>3, <1>4, AwaitTold DEF Re!Unfolded
<1>7. PICK p : p \notin Re!Counted(w) /\ (p.matched <=> r.matched = 1) /\ Re!Counted(w)' = Re!Counted(w) \cup {p}
  BY <1>6
<1>8. /\ rep' = [rep EXCEPT ![w] = rep'[w]] /\ activity' = [activity EXCEPT ![w] = activity'[w]]
      /\ badges' = [badges EXCEPT ![w] = badges'[w]]
      /\ rep'[w] = [matched |-> read.matched + r.matched, total |-> read.total + 1]
  BY <1>1, <1>3, <1>4 DEF Re!Shapes
<1>9. /\ Re!CountsHold(w) /\ Re!OutcomesHold(w) /\ activity[w] \in Re!Acts
      /\ (w \notin raced => Re!Alone(w) /\ Re!Carried(activity[w], Re!Folded(w)))
  BY <1>1 DEF Re!Tells
<1>10. IsFiniteSet(Re!Counted(w))
  BY <1>9, FS_Subset, ReputationCardinality DEF Re!OutcomesHold, Re!Counted
<1>11. PICK n \in Nat, m \in Nat, step1 \in 0..1 :
         /\ n = Re!Cardinality(Re!Counted(w)) /\ m = Re!Cardinality({o \in Re!Counted(w) : o.matched})
         /\ Re!Cardinality(Re!Counted(w)') = n + 1 /\ step1 = r.matched
         /\ Re!Cardinality({o \in Re!Counted(w)' : o.matched}) = m + step1
  <2>1. /\ Re!Cardinality(Re!Counted(w) \cup {p}) = Re!Cardinality(Re!Counted(w)) + 1 /\ Re!Cardinality(Re!Counted(w)) \in Nat
        /\ Re!Cardinality({o \in Re!Counted(w) \cup {p} : o.matched})
             = Re!Cardinality({o \in Re!Counted(w) : o.matched}) + (IF p.matched THEN 1 ELSE 0)
        /\ Re!Cardinality({o \in Re!Counted(w) : o.matched}) \in Nat
    BY <1>7, <1>10, OneMoreCounted
  <2>2. r.matched \in 0..1 /\ r.matched = IF p.matched THEN 1 ELSE 0
    BY <1>4, <1>7
  <2> QED
    BY <1>7, <2>1, <2>2
<1>12. read.matched \in Nat /\ read.total \in Nat /\ read.matched <= read.total /\ read.total <= n
  BY <1>1, <1>2, <1>3, <1>9, <1>11 DEF Re!CountsHold, Re!LaneHolds, Re!Records
<1>13. Re!CountsHold(w)'
  <2>1. rep'[w] \in Re!Records /\ rep'[w].matched <= rep'[w].total /\ rep'[w].total <= Re!Cardinality(Re!Counted(w)')
    BY <1>8, <1>11, <1>12 DEF Re!Records
  <2>2. ASSUME NEW u \in Settlements, lane'[u][w].at = "count"
        PROVE  lane'[u][w].rep.matched <= lane'[u][w].rep.total /\ lane'[u][w].rep.total <= Re!Cardinality(Re!Counted(w)')
    <3>1. u # s /\ lane'[u][w] = lane[u][w]
      BY <1>4, <1>5, <2>2
    <3>2. lane[u][w].rep.matched <= lane[u][w].rep.total /\ lane[u][w].rep.total <= n /\ lane[u][w].rep \in Re!Records
      BY <1>9, <1>11, <2>2, <3>1 DEF Re!CountsHold, Re!OutcomesHold, Re!LaneHolds
    <3> QED
      BY <1>11, <3>1, <3>2 DEF Re!Records
  <2> QED
    BY <2>1, <2>2 DEF Re!CountsHold
<1>14. ASSUME w \notin raced PROVE Re!Alone(w)' /\ read = rep[w]
  <2>1. \A u \in Settlements : lane'[u][w].at \in {"count", "fold", "award"} => u \in Re!Busy(w)' /\ u # s
    BY <1>4, <1>5 DEF Re!Busy
  <2>2. \A u \in Settlements : lane'[u][w].at \notin {"count", "fold", "award"}
    BY <1>6, <1>9, <1>14, <2>1 DEF Re!Alone
  <2>3. read = rep[w]
    BY <1>2, <1>3, <1>9, <1>14 DEF Re!Alone
  <2>4. rep'[w] = [matched |-> m + r.matched, total |-> n + 1]
    <3>1. rep[w] = [matched |-> Re!Cardinality({o \in Re!Counted(w) : o.matched}), total |-> Re!Cardinality(Re!Counted(w))]
      BY <1>9, <1>14 DEF Re!Alone
    <3>2. read.matched = m /\ read.total = n
      BY <1>11, <2>3, <3>1
    <3> QED
      BY <1>8, <3>2
  <2>5. \A u, v \in Re!Busy(w)' : u = v
    BY <1>6, <1>9, <1>14 DEF Re!Alone
  <2> QED
    BY <1>11, <2>2, <2>3, <2>4, <2>5 DEF Re!Alone
<1>15. w \notin raced => Re!Carried(activity[w], Re!Folded(w))'
  BY <1>3, <1>6, <1>9 DEF Re!Carried
<1>16. Re!Tells(w)'
  BY <1>3, <1>6, <1>9, <1>13, <1>14, <1>15 DEF Re!Tells
<1>17. w \notin raced => rep'[w].total >= rep[w].total /\ rep'[w].matched >= rep[w].matched
  BY <1>4, <1>8, <1>12, <1>14
<1> QED
  BY <1>3, <1>8, <1>16, <1>17, OneAwait

LEMMA AppliedIs ==
  ASSUME Re!ReputationAssumption, today \in Re!Day, NEW act \in Re!Acts, NEW m \in 0..1
  PROVE  Re!ApplyOutcome(act, m) \in Re!Acts
<1> DEFINE days == [act.days EXCEPT ![today] = [answered |-> @.answered + 1, matched |-> @.matched + m]]
           kept == [d \in Re!Day |-> IF Re!Retained(Re!Active(days), d) THEN days[d] ELSE Re!Unanswered]
           N == Re!Active(kept)
<1>1. /\ act.days \in [Re!Day -> [answered : Nat, matched : Nat]] /\ act.longest \in Nat
      /\ today \in Nat
  BY DEF Re!Acts, Re!Day, Re!ReputationAssumption
<1>2. days \in [Re!Day -> [answered : Nat, matched : Nat]]
  BY <1>1
<1> HIDE DEF days
<1>3. kept \in [Re!Day -> [answered : Nat, matched : Nat]]
  BY <1>2 DEF Re!Unanswered
<1> HIDE DEF kept
<1>4. Re!RunBefore(N, today) \in 0..(today + 1) /\ Re!RunBefore(N, today - 1) \in 0..today
  BY <1>1, RunIs
<1> HIDE DEF N
<1>5. Re!Streak(kept, today).current = Re!RunBefore(N, IF today \in N THEN today ELSE today - 1)
  BY DEF Re!Streak, N
<1>6. Re!Larger(act.longest, Re!Streak(kept, today).current) \in Nat
  BY <1>1, <1>4, <1>5 DEF Re!Larger
<1>7. Re!ApplyOutcome(act, m) = [days |-> kept, longest |-> Re!Larger(act.longest, Re!Streak(kept, today).current)]
  BY DEF Re!ApplyOutcome, kept, days
<1> QED
  BY <1>3, <1>6, <1>7 DEF Re!Acts

\* The outcome is folded into the days.
LEMMA WriteActivityKeeps ==
  ASSUME Re!ReputationAssumption, Re!ReputationInv, NEW s \in Settlements, NEW w \in Rated, Re!WriteActivity(s, w)
  PROVE  Re!ReputationInv' /\ (w \notin raced => activity'[w].longest >= activity[w].longest)
<1>1. Re!LaneHolds(lane[s][w]) /\ Re!Shapes /\ Re!Tells(w)
  BY DEF Re!ReputationInv, Re!Tells, Re!OutcomesHold
<1> DEFINE r == [Re!Idle EXCEPT !.at = "badges", !.matched = lane[s][w].matched]
<1>2. PICK read, m : read = lane[s][w].act /\ m = lane[s][w].matched
  OBVIOUS
<1>3. /\ Re!Put(s, w, r) /\ UNCHANGED <<rep, badges, outcomes, today, raced>> /\ lane[s][w].at = "fold"
      /\ activity' = [activity EXCEPT ![w] = Re!ApplyOutcome(read, m)]
  BY <1>2 DEF Re!WriteActivity, Re!To
<1>4. Re!LaneHolds(r) /\ r.at = "badges" /\ r.matched = lane[s][w].matched /\ m \in 0..1 /\ read \in Re!Acts
  <2>1. lane[s][w].rep \in Re!Records /\ m \in 0..1 /\ read \in Re!Acts
    BY <1>1, <1>2 DEF Re!LaneHolds
  <2>2. "badges" \in Re!Unfolded \cup {"badges", "award", "done"} /\ lane[s][w].matched \in 0..1
    BY <1>1 DEF Re!LaneHolds
  <2>3. r = [at |-> "badges", matched |-> lane[s][w].matched, rep |-> Re!Idle.rep, act |-> Re!Idle.act,
            known |-> Re!Idle.known, had |-> Re!Idle.had]
    BY IdleHolds, LaneMatched, Zenon
  <2> HIDE DEF r
  <2> QED
    BY <2>1, <2>2, <2>3, WrittenLane
<1> HIDE DEF r
<1>5. lane'[s][w] = r /\ \A u \in Settlements : u # s => lane'[u][w] = lane[u][w]
  BY <1>1, <1>3, PutIs
<1>6. /\ Re!OutcomesHold(w)' /\ Re!Busy(w)' \subseteq Re!Busy(w) /\ s \in Re!Busy(w)
      /\ Re!Counted(w)' = Re!Counted(w) /\ Re!Folded(w)' = Re!Folded(w) \cup {today}
  BY <1>3, <1>4, AwaitTold DEF Re!Unfolded
<1>7. /\ rep' = [rep EXCEPT ![w] = rep'[w]] /\ activity' = [activity EXCEPT ![w] = activity'[w]]
      /\ badges' = [badges EXCEPT ![w] = badges'[w]] /\ activity'[w] = Re!ApplyOutcome(read, m)
  BY <1>1, <1>3 DEF Re!Shapes
<1>8. /\ Re!CountsHold(w) /\ Re!OutcomesHold(w) /\ activity[w] \in Re!Acts
      /\ (w \notin raced => Re!Alone(w) /\ Re!Carried(activity[w], Re!Folded(w)))
  BY <1>1 DEF Re!Tells
<1>9. today \in Re!Day /\ Re!Folded(w) \subseteq 0..today
  BY <1>1, <1>8 DEF Re!Shapes, Re!OutcomesHold, Re!Folded
<1>10. activity'[w] \in Re!Acts
  BY <1>4, <1>7, <1>9, AppliedIs
<1>11. Re!CountsHold(w)'
  BY <1>3, <1>4, <1>5, <1>6, <1>8 DEF Re!CountsHold
<1>12. ASSUME w \notin raced
       PROVE  Re!Alone(w)' /\ Re!Carried(activity'[w], Re!Folded(w) \cup {today}) /\ activity[w].longest <= activity'[w].longest
  <2>1. \A u \in Settlements : lane'[u][w].at \in {"count", "fold", "award"} => u \in Re!Busy(w)' /\ u # s
    BY <1>4, <1>5 DEF Re!Busy
  <2>2. \A u \in Settlements : lane'[u][w].at \notin {"count", "fold", "award"}
    BY <1>6, <1>8, <1>12, <2>1 DEF Re!Alone
  <2>3. read = activity[w] /\ Re!Carried(read, Re!Folded(w))
    BY <1>2, <1>3, <1>8, <1>12 DEF Re!Alone
  <2>4. /\ Re!Carried(Re!ApplyOutcome(read, m), Re!Folded(w) \cup {today})
        /\ read.longest <= Re!ApplyOutcome(read, m).longest
    BY <1>4, <1>9, <2>3, Folding
  <2>5. Re!Alone(w)'
    BY <1>3, <1>6, <1>8, <1>12, <2>2 DEF Re!Alone
  <2> QED
    BY <1>7, <2>3, <2>4, <2>5
<1>13. w \notin raced => Re!Carried(activity[w], Re!Folded(w))'
  <2>1. ASSUME w \notin raced PROVE Re!Carried(activity'[w], Re!Folded(w)')
    BY <1>6, <1>12, <2>1
  <2> QED
    BY <2>1 DEF Re!Carried
<1>14. Re!Tells(w)'
  BY <1>3, <1>6, <1>10, <1>11, <1>12, <1>13 DEF Re!Tells
<1>15. w \notin raced => activity'[w].longest >= activity[w].longest
  <2>1. activity[w].longest \in Nat /\ activity'[w].longest \in Nat
    BY <1>8, <1>10 DEF Re!Acts
  <2> QED
    BY <1>12, <2>1
<1> QED
  BY <1>3, <1>7, <1>14, <1>15, OneAwait

LEMMA LaneStarts ==
  ASSUME NEW m \in 0..1
  PROVE  LET r == [Re!Idle EXCEPT !.at = "rep", !.matched = m]
             e == [Re!Idle EXCEPT !.at = "done"]
         IN r.at = "rep" /\ r.matched = m /\ Re!LaneHolds(r) /\ e.at = "done" /\ Re!LaneHolds(e)
<1>1. PICK none, act, p, e : /\ none = [matched |-> 0, total |-> 0] /\ act = [days |-> [d \in Re!Day |-> Re!Unanswered], longest |-> 0]
                             /\ p = [Re!Idle EXCEPT !.at = "rep"] /\ e = [Re!Idle EXCEPT !.at = "done"]
  OBVIOUS
<1>2. Re!Idle = [at |-> "idle", matched |-> 0, rep |-> none, act |-> act, known |-> <<>>, had |-> {}]
  BY <1>1, Zenon DEF Re!Idle
<1>3. none \in Re!Records /\ act \in Re!Acts
  BY <1>1 DEF Re!Records, Re!Acts, Re!Unanswered
<1>4. /\ p = [at |-> "rep", matched |-> 0, rep |-> none, act |-> act, known |-> <<>>, had |-> {}]
      /\ e = [at |-> "done", matched |-> 0, rep |-> none, act |-> act, known |-> <<>>, had |-> {}]
  <2>1. PICK idle : idle = Re!Idle
    OBVIOUS
  <2>2. idle = [at |-> "idle", matched |-> 0, rep |-> none, act |-> act, known |-> <<>>, had |-> {}]
    BY <1>2, <2>1
  <2>3. p = [idle EXCEPT !.at = "rep"] /\ e = [idle EXCEPT !.at = "done"]
    BY <1>1, <2>1
  <2> QED
    BY <2>2, <2>3
<1>5. PICK r : r = [p EXCEPT !.matched = m]
  OBVIOUS
<1>6. r = [at |-> "rep", matched |-> m, rep |-> none, act |-> act, known |-> <<>>, had |-> {}]
  BY <1>4, <1>5
<1>7. Re!LaneHolds(r) /\ Re!LaneHolds(e)
  BY <1>3, <1>4, <1>6 DEF Re!LaneHolds, Re!Unfolded
<1>8. r.at = "rep" /\ r.matched = m /\ e.at = "done"
  BY <1>4, <1>6
<1>9. r = [Re!Idle EXCEPT !.at = "rep", !.matched = m] /\ e = [Re!Idle EXCEPT !.at = "done"]
  BY <1>1, <1>5, Zenon
<1> QED
  BY <1>7, <1>8, <1>9, Zenon

\* A settlement starts: whoever answered has an outcome that is not counted yet.
LEMMA SettleKeeps ==
  ASSUME Re!ReputationInv, NEW s \in Settlements, NEW matching, NEW missed, Re!Settle(s, matching, missed)
  PROVE  Re!ReputationInv'
<1>1. Re!Shapes /\ \A w \in Rated : Re!Tells(w)
  BY DEF Re!ReputationInv
<1>2. /\ \A w \in Rated : lane[s][w].at = "idle"
      /\ UNCHANGED <<rep, known, activity, badges, today>>
      /\ raced' = raced \cup {w \in matching \cup missed : Re!Busy(w) # {}}
      /\ outcomes' = [w \in Rated |-> outcomes[w] \cup
           IF w \in matching \cup missed THEN {[of |-> s, on |-> today, matched |-> w \in matching]} ELSE {}]
  BY DEF Re!Settle, Re!stored
<1>3. PICK put : /\ lane' = [lane EXCEPT ![s] = put]
                 /\ put = [w \in Rated |-> put[w]]
                 /\ \A w \in Rated : IF w \in matching \cup missed
                      THEN put[w].at = "rep" /\ put[w].matched = (IF w \in matching THEN 1 ELSE 0) /\ Re!LaneHolds(put[w])
                      ELSE put[w].at = "done" /\ Re!LaneHolds(put[w])
  <2> DEFINE put == [w \in Rated |-> IF w \in matching \cup missed
       THEN [Re!Idle EXCEPT !.at = "rep", !.matched = IF w \in matching THEN 1 ELSE 0] ELSE [Re!Idle EXCEPT !.at = "done"]]
  <2>1. lane' = [lane EXCEPT ![s] = put] /\ put = [w \in Rated |-> put[w]]
    BY DEF Re!Settle
  <2>2. ASSUME NEW m \in 0..1 PROVE LET r == [Re!Idle EXCEPT !.at = "rep", !.matched = m] IN r.at = "rep" /\ r.matched = m /\ Re!LaneHolds(r)
    BY LaneStarts
  <2>3. LET r == [Re!Idle EXCEPT !.at = "done"] IN r.at = "done" /\ Re!LaneHolds(r)
    BY LaneStarts
  <2>4. ASSUME NEW w \in Rated
        PROVE IF w \in matching \cup missed
              THEN put[w].at = "rep" /\ put[w].matched = (IF w \in matching THEN 1 ELSE 0) /\ Re!LaneHolds(put[w])
              ELSE put[w].at = "done" /\ Re!LaneHolds(put[w])
    <3>1. CASE w \in matching \cup missed
      <4>1. PICK m \in 0..1 : m = IF w \in matching THEN 1 ELSE 0
        OBVIOUS
      <4>2. put[w] = [Re!Idle EXCEPT !.at = "rep", !.matched = m]
        BY <3>1, <4>1
      <4> QED
        BY <2>2, <3>1, <4>1, <4>2
    <3>2. CASE w \notin matching \cup missed
      BY <2>3, <3>2
    <3> QED
      BY <3>1, <3>2
  <2> QED
    BY <2>1, <2>4
<1>4. /\ \A w \in Rated : lane'[s][w] = put[w]
      /\ \A u \in Settlements, w \in Rated : u # s => lane'[u][w] = lane[u][w]
      /\ lane' = [u \in Settlements |-> [w \in Rated |-> lane'[u][w]]]
  <2>1. lane = [u \in Settlements |-> [w \in Rated |-> lane[u][w]]]
    BY <1>1 DEF Re!Shapes
  <2>2. lane' = [u \in Settlements |-> IF u = s THEN put ELSE lane[u]]
    BY <1>3, <2>1
  <2>3. \A u \in Settlements : lane[u] = [w \in Rated |-> lane[u][w]]
    BY <2>1
  <2> QED
    BY <1>3, <2>2, <2>3
<1>5. Re!Shapes'
  BY <1>1, <1>2, <1>4 DEF Re!Shapes
<1>6. ASSUME NEW w \in Rated PROVE Re!Tells(w)'
  <2>1. /\ Re!OutcomesHold(w) /\ Re!CountsHold(w) /\ activity[w] \in Re!Acts
        /\ (w \notin raced => Re!Alone(w) /\ Re!Carried(activity[w], Re!Folded(w)))
    BY <1>1 DEF Re!Tells
  <2>2. \A o \in outcomes[w] : o.of \in Settlements /\ o.of # s /\ lane'[o.of][w] = lane[o.of][w]
    BY <1>2, <1>4, <2>1 DEF Re!OutcomesHold
  <2>3. PICK out : /\ out = IF w \in matching \cup missed THEN {[of |-> s, on |-> today, matched |-> w \in matching]} ELSE {}
                   /\ outcomes'[w] = outcomes[w] \cup out
    BY <1>2
  <2>4. \A o \in out : /\ o.of = s /\ o.on = today /\ (o.matched <=> w \in matching) /\ w \in matching \cup missed
                       /\ o \in [of : Settlements, on : 0..today, matched : BOOLEAN] /\ lane'[o.of][w].at = "rep"
    <3>1. today \in 0..today
      BY <1>1 DEF Re!Shapes, Re!Day
    <3>2. ASSUME w \in matching \cup missed PROVE lane'[s][w].at = "rep"
      BY <1>3, <1>4, <3>2
    <3>3. PICK b \in BOOLEAN : b <=> w \in matching
      OBVIOUS
    <3>4. [of |-> s, on |-> today, matched |-> w \in matching] = [of |-> s, on |-> today, matched |-> b]
      BY <3>3, Zenon
    <3>5. out = IF w \in matching \cup missed THEN {[of |-> s, on |-> today, matched |-> b]} ELSE {}
      BY <2>3, <3>4, Zenon
    <3> QED
      BY <3>1, <3>2, <3>3, <3>5
  <2>5. \A o, p \in out : o = p
    BY <2>3
  <2>6. Re!Counted(w)' = Re!Counted(w)
    <3>1. \A o : o \in Re!Counted(w)' <=> o \in Re!Counted(w)
      BY <2>2, <2>3, <2>4 DEF Re!Counted
    <3> QED
      BY <3>1 DEF Re!Counted
  <2>7. Re!Folded(w)' = Re!Folded(w)
    <3>1. \A o : o \in outcomes'[w] /\ lane'[o.of][w].at \notin Re!Unfolded <=> o \in outcomes[w] /\ lane[o.of][w].at \notin Re!Unfolded
      BY <2>2, <2>3, <2>4 DEF Re!Unfolded
    <3> QED
      BY <3>1 DEF Re!Folded, Re!Unfolded
  <2>8. Re!Busy(w)' = IF w \in matching \cup missed THEN Re!Busy(w) \cup {s} ELSE Re!Busy(w)
    <3>1. \A u : u \in Re!Busy(w)' <=> u \in Re!Busy(w) \/ (u = s /\ w \in matching \cup missed)
      BY <1>2, <1>3, <1>4 DEF Re!Busy
    <3> QED
      BY <3>1
  <2>9. Re!OutcomesHold(w)'
    <3>1. IsFiniteSet(out)
      BY <2>3, FS_EmptySet, FS_Singleton
    <3>2. Re!IsFiniteSet(outcomes'[w])
      <4>1. IsFiniteSet(outcomes[w])
        BY <2>1, ReputationCardinality DEF Re!OutcomesHold
      <4>2. IsFiniteSet(outcomes'[w])
        BY <2>3, <3>1, <4>1, FS_Union
      <4> QED
        BY <4>2, ReputationCardinality
    <3>3. outcomes'[w] \subseteq [of : Settlements, on : 0..today, matched : BOOLEAN]
      BY <2>1, <2>3, <2>4 DEF Re!OutcomesHold
    <3>4. \A o, p \in outcomes'[w] : o.of = p.of => o = p
      BY <2>1, <2>2, <2>3, <2>4, <2>5 DEF Re!OutcomesHold
    <3>5. \A u \in Settlements : /\ Re!LaneHolds(lane'[u][w])
                                 /\ lane'[u][w].at = "idle" => \A o \in outcomes'[w] : o.of # u
      <4> TAKE u \in Settlements
      <4>1. CASE u = s
        BY <1>3, <1>4, <4>1
      <4>2. CASE u # s
        BY <1>4, <2>1, <2>3, <2>4, <4>2 DEF Re!OutcomesHold
      <4> QED
        BY <4>1, <4>2
    <3>6. ASSUME NEW u \in Re!Busy(w)'
          PROVE  \E o \in outcomes'[w] : o.of = u /\ o.on = today /\ (o.matched <=> lane'[u][w].matched = 1)
      <4>1. CASE u = s /\ w \in matching \cup missed
        <5>1. \E o \in out : o.of = u /\ o.on = today /\ (o.matched <=> w \in matching)
          BY <2>3, <2>4, <4>1
        <5>2. lane'[u][w].matched = IF w \in matching THEN 1 ELSE 0
          BY <1>3, <1>4, <4>1
        <5> QED
          BY <2>3, <5>1, <5>2
      <4>2. CASE u \in Re!Busy(w)
        <5>1. u \in Settlements /\ u # s
          BY <1>2, <4>2 DEF Re!Busy
        <5>2. PICK o \in outcomes[w] : o.of = u /\ o.on = today /\ (o.matched <=> lane[u][w].matched = 1)
          BY <2>1, <4>2, <5>1 DEF Re!OutcomesHold
        <5> QED
          BY <1>4, <2>3, <5>1, <5>2
      <4> QED
        BY <2>8, <4>1, <4>2
    <3>7. Re!OutcomesHold(w)' <=>
            /\ Re!IsFiniteSet(outcomes'[w]) /\ outcomes'[w] \subseteq [of : Settlements, on : 0..today', matched : BOOLEAN]
            /\ \A o, p \in outcomes'[w] : o.of = p.of => o = p
            /\ \A u \in Settlements :
                 /\ Re!LaneHolds(lane'[u][w])
                 /\ lane'[u][w].at = "idle" => \A o \in outcomes'[w] : o.of # u
                 /\ u \in Re!Busy(w)' => \E o \in outcomes'[w] : o.of = u /\ o.on = today' /\ (o.matched <=> lane'[u][w].matched = 1)
      BY DEF Re!OutcomesHold, Re!LaneHolds
    <3> QED
      BY <1>2, <3>2, <3>3, <3>4, <3>5, <3>6, <3>7
  <2>10. \A u \in Settlements : lane'[u][w].at \in {"count", "fold", "award"} => lane'[u][w] = lane[u][w]
    BY <1>3, <1>4
  <2>11. Re!CountsHold(w)'
    BY <1>2, <2>1, <2>6, <2>10 DEF Re!CountsHold
  <2>12. ASSUME w \notin raced' PROVE Re!Alone(w)'
    <3>1. w \notin raced /\ (w \in matching \cup missed => Re!Busy(w) = {})
      BY <1>2, <2>12
    <3>2. \A u, v \in Re!Busy(w)' : u = v
      BY <2>1, <2>8, <3>1 DEF Re!Alone
    <3> QED
      BY <1>2, <2>1, <2>6, <2>10, <3>1, <3>2 DEF Re!Alone
  <2>13. w \notin raced' => Re!Carried(activity[w], Re!Folded(w))'
    BY <1>2, <2>1, <2>7 DEF Re!Carried
  <2> QED
    BY <1>2, <2>1, <2>9, <2>11, <2>12, <2>13 DEF Re!Tells
<1> QED
  BY <1>5, <1>6 DEF Re!ReputationInv

LEMMA NextDayKeeps ==
  ASSUME Re!ReputationAssumption, Re!ReputationInv, Re!NextDay
  PROVE  Re!ReputationInv'
<1>1. Re!Shapes /\ \A w \in Rated : Re!Tells(w)
  BY DEF Re!ReputationInv
<1>2. /\ today < MaxDay /\ today' = today + 1 /\ UNCHANGED <<rep, known, activity, badges, lane, outcomes, raced>>
      /\ \A w \in Rated : Re!Busy(w) = {}
  BY DEF Re!NextDay, Re!stored
<1>3. today \in Nat /\ today' \in Re!Day /\ 0..today \subseteq 0..today'
  BY <1>1, <1>2 DEF Re!Shapes, Re!Day, Re!ReputationAssumption
<1>4. Re!Shapes'
  BY <1>1, <1>2, <1>3 DEF Re!Shapes
<1>5. ASSUME NEW w \in Rated PROVE Re!Tells(w)'
  <2>1. /\ Re!OutcomesHold(w) /\ Re!CountsHold(w) /\ activity[w] \in Re!Acts /\ Re!Busy(w) = {}
        /\ (w \notin raced => Re!Alone(w) /\ Re!Carried(activity[w], Re!Folded(w)))
    BY <1>1, <1>2 DEF Re!Tells
  <2>2. Re!Counted(w)' = Re!Counted(w) /\ Re!Folded(w)' = Re!Folded(w) /\ Re!Busy(w)' = Re!Busy(w)
    BY <1>2 DEF Re!Counted, Re!Folded, Re!Busy
  <2>3. outcomes[w] \subseteq [of : Settlements, on : 0..today', matched : BOOLEAN]
    BY <1>3, <2>1 DEF Re!OutcomesHold
  <2>4. Re!OutcomesHold(w)'
    BY <1>2, <2>1, <2>2, <2>3 DEF Re!OutcomesHold, Re!LaneHolds
  <2>5. Re!CountsHold(w)' /\ (w \notin raced => Re!Alone(w)')
    BY <1>2, <2>1, <2>2 DEF Re!CountsHold, Re!Alone
  <2> QED
    BY <1>2, <2>1, <2>2, <2>4, <2>5 DEF Re!Tells, Re!Carried
<1> QED
  BY <1>4, <1>5 DEF Re!ReputationInv

-----------------------------------------------------------------------------
(* Reputation: the theorems *)

\* What a step may do to what a worker has earned.
LEMMA ReputationStep ==
  ASSUME Re!ReputationAssumption, Re!ReputationInv, Re!Next
  PROVE  /\ Re!ReputationInv'
         /\ \A w \in Rated \ raced :
              /\ rep'[w].total >= rep[w].total /\ rep'[w].matched >= rep[w].matched
              /\ activity'[w].longest >= activity[w].longest /\ badges[w] \subseteq badges'[w]
         /\ raced' = raced \/ UNCHANGED <<rep, activity, badges, today>>
<1>1. \A w \in Rated : rep[w] \in Re!Records /\ activity[w] \in Re!Acts
  BY DEF Re!ReputationInv, Re!Tells, Re!CountsHold
<1>2. \A w \in Rated : rep[w].total >= rep[w].total /\ rep[w].matched >= rep[w].matched
                       /\ activity[w].longest >= activity[w].longest
  BY <1>1 DEF Re!Records, Re!Acts
<1>3. CASE Re!NextDay
  <2>1. UNCHANGED <<rep, activity, badges, raced>>
    BY <1>3 DEF Re!NextDay, Re!stored
  <2> QED
    BY <1>2, <1>3, <2>1, NextDayKeeps
<1>4. CASE \E s \in Settlements, r \in Rounds : Re!Settle(s, r[1], r[2])
  <2>1. PICK s \in Settlements, r \in Rounds : Re!Settle(s, r[1], r[2])
    BY <1>4
  <2>2. UNCHANGED <<rep, activity, badges, today>>
    BY <2>1 DEF Re!Settle, Re!stored
  <2>3. Re!ReputationInv'
    BY <2>1, SettleKeeps
  <2> QED
    BY <1>2, <2>2, <2>3
<1>5. ASSUME NEW s \in Settlements, NEW v \in Rated,
             Re!ReadReputation(s, v) \/ Re!ReadKnown(s, v) \/ Re!WriteKnown(s, v) \/ Re!ReadActivity(s, v) \/ Re!ReadForBadges(s, v)
      PROVE  Re!ReputationInv' /\ UNCHANGED <<rep, activity, badges, today>>
  <2>1. Re!ReputationInv'
    BY <1>5, ReadReputationKeeps, ReadKnownKeeps, WriteKnownKeeps, ReadActivityKeeps, ReadForBadgesKeeps
  <2>2. UNCHANGED <<rep, activity, badges, today>>
    BY <1>5 DEF Re!ReadReputation, Re!ReadKnown, Re!WriteKnown, Re!ReadActivity, Re!ReadForBadges, Re!stored
  <2> QED
    BY <2>1, <2>2
<1>6. ASSUME NEW s \in Settlements, NEW v \in Rated, Re!WriteReputation(s, v)
      PROVE  /\ Re!ReputationInv' /\ raced' = raced /\ UNCHANGED <<activity, badges>>
             /\ \A w \in Rated \ raced : rep'[w].total >= rep[w].total /\ rep'[w].matched >= rep[w].matched
  <2>1. Re!ReputationInv' /\ (v \notin raced => rep'[v].total >= rep[v].total /\ rep'[v].matched >= rep[v].matched)
    BY <1>6, WriteReputationKeeps
  <2>2. raced' = raced /\ UNCHANGED <<activity, badges>> /\ \A w \in Rated : w # v => rep'[w] = rep[w]
    BY <1>6 DEF Re!WriteReputation, Re!ReputationInv, Re!Shapes
  <2> QED
    BY <1>2, <2>1, <2>2
<1>7. ASSUME NEW s \in Settlements, NEW v \in Rated, Re!WriteActivity(s, v)
      PROVE  /\ Re!ReputationInv' /\ raced' = raced /\ UNCHANGED <<rep, badges>>
             /\ \A w \in Rated \ raced : activity'[w].longest >= activity[w].longest
  <2>1. Re!ReputationInv' /\ (v \notin raced => activity'[v].longest >= activity[v].longest)
    BY <1>7, WriteActivityKeeps
  <2>2. raced' = raced /\ UNCHANGED <<rep, badges>> /\ \A w \in Rated : w # v => activity'[w] = activity[w]
    BY <1>7 DEF Re!WriteActivity, Re!ReputationInv, Re!Shapes
  <2> QED
    BY <1>2, <2>1, <2>2
<1>8. ASSUME NEW s \in Settlements, NEW v \in Rated, Re!WriteBadges(s, v)
      PROVE  /\ Re!ReputationInv' /\ raced' = raced /\ UNCHANGED <<rep, activity>>
             /\ \A w \in Rated \ raced : badges[w] \subseteq badges'[w]
  <2>1. Re!ReputationInv' /\ (v \notin raced => badges[v] \subseteq badges'[v])
    BY <1>8, WriteBadgesKeeps
  <2>2. raced' = raced /\ UNCHANGED <<rep, activity>> /\ \A w \in Rated : w # v => badges'[w] = badges[w]
    BY <1>8 DEF Re!WriteBadges, Re!ReputationInv, Re!Shapes
  <2> QED
    BY <2>1, <2>2
<1>9. CASE \E s \in Settlements, w \in Rated :
             \/ Re!ReadReputation(s, w) \/ Re!WriteReputation(s, w) \/ Re!ReadKnown(s, w) \/ Re!WriteKnown(s, w)
             \/ Re!ReadActivity(s, w) \/ Re!WriteActivity(s, w) \/ Re!ReadForBadges(s, w) \/ Re!WriteBadges(s, w)
  BY <1>2, <1>5, <1>6, <1>7, <1>8, <1>9
<1> QED
  BY <1>3, <1>4, <1>9 DEF Re!Next

LEMMA ReputationKept ==
  ASSUME Re!ReputationAssumption, Re!ReputationInv, [Re!Next]_(Re!vars)
  PROVE  Re!ReputationInv'
<1>1. CASE Re!Next
  BY <1>1, ReputationStep
<1>2. CASE UNCHANGED Re!vars
  <2>1. UNCHANGED <<rep, activity, badges, today, lane, outcomes, raced>>
    BY <1>2 DEF Re!vars, Re!stored
  <2>2. Re!Shapes /\ \A w \in Rated : Re!Tells(w)
    BY DEF Re!ReputationInv
  <2>3. \A w \in Rated : Re!Tells(w)'
    BY <2>1, <2>2, ToldElsewhere
  <2>4. Re!Shapes'
    BY <2>1, <2>2 DEF Re!Shapes
  <2> QED
    BY <2>3, <2>4 DEF Re!ReputationInv
<1> QED
  BY <1>1, <1>2

LEMMA NothingIsLost ==
  ASSUME Re!ReputationAssumption, Re!ReputationInv
  PROVE  Re!LostOnlyInARace
<1> SUFFICES ASSUME NEW w \in Rated
             PROVE  LET days == {o.on : o \in outcomes[w]}
                        matched == Re!Cardinality({o \in outcomes[w] : o.matched})
                        runs == {Re!RunBefore(days, d) : d \in Re!Day}
                    IN /\ rep[w].matched <= rep[w].total /\ rep[w].total <= Re!Cardinality(outcomes[w])
                       /\ Re!Busy(w) = {} /\ w \notin raced =>
                            /\ rep[w] = [matched |-> matched, total |-> Re!Cardinality(outcomes[w])]
                            /\ outcomes[w] # {} /\ Re!Cardinality(days) <= DaysRetained => Re!Active(activity[w].days) = days
                            /\ \A r \in runs : r <= DaysRetained => activity[w].longest >= r
  BY DEF Re!LostOnlyInARace
<1>1. /\ Re!OutcomesHold(w) /\ Re!CountsHold(w) /\ activity[w] \in Re!Acts
      /\ (w \notin raced => Re!Alone(w) /\ Re!Carried(activity[w], Re!Folded(w)))
  BY DEF Re!ReputationInv, Re!Tells
<1> DEFINE days == {o.on : o \in outcomes[w]}
<1>2. rep[w].matched <= rep[w].total /\ rep[w].total <= Re!Cardinality(outcomes[w])
  <2>1. Re!Counted(w) \subseteq outcomes[w] /\ IsFiniteSet(outcomes[w])
    BY <1>1, ReputationCardinality DEF Re!Counted, Re!OutcomesHold
  <2>2. Re!Cardinality(Re!Counted(w)) <= Re!Cardinality(outcomes[w]) /\ Re!Cardinality(Re!Counted(w)) \in Nat /\ Re!Cardinality(outcomes[w]) \in Nat
    BY <2>1, FS_Subset, FS_CardinalityType, ReputationCardinality
  <2>3. rep[w].matched \in Nat /\ rep[w].total \in Nat /\ rep[w].matched <= rep[w].total /\ rep[w].total <= Re!Cardinality(Re!Counted(w))
    BY <1>1 DEF Re!CountsHold, Re!Records
  <2> QED
    BY <2>2, <2>3
<1>3. ASSUME Re!Busy(w) = {}, w \notin raced
      PROVE  /\ rep[w] = [matched |-> Re!Cardinality({o \in outcomes[w] : o.matched}), total |-> Re!Cardinality(outcomes[w])]
             /\ Re!Cardinality(days) <= DaysRetained => Re!Active(activity[w].days) = days
             /\ \A d \in Re!Day : Re!RunBefore(days, d) <= DaysRetained => activity[w].longest >= Re!RunBefore(days, d)
  <2>1. \A o \in outcomes[w] : lane[o.of][w].at = "done"
    BY <1>1, <1>3 DEF Re!OutcomesHold, Re!Busy
  <2>2. Re!Counted(w) = outcomes[w]
    BY <2>1 DEF Re!Counted
  <2>3. Re!Folded(w) = days
    BY <2>1 DEF Re!Folded, Re!Unfolded
  <2>4. Re!Alone(w) /\ Re!Carried(activity[w], days)
    BY <1>1, <1>3, <2>3
  <2>5. days \subseteq Re!Day
    <3>1. today \in Nat /\ MaxDay \in Nat /\ today <= MaxDay
      BY DEF Re!Day, Re!ReputationInv, Re!Shapes, Re!ReputationAssumption
    <3>2. \A o \in outcomes[w] : o.on \in 0..today
      BY <1>1 DEF Re!OutcomesHold
    <3>3. \A o \in outcomes[w] : o.on \in Re!Day
      BY <3>1, <3>2 DEF Re!Day
    <3> QED
      BY <3>3
  <2> HIDE DEF days
  <2>6. ASSUME Re!Cardinality(days) <= DaysRetained PROVE Re!Latest(days) = days
    <3>1. ASSUME NEW d \in days PROVE Re!Retained(days, d)
      <4>1. /\ Re!Cardinality({e \in days : e >= d}) \in Nat /\ Re!Cardinality(days) \in Nat
            /\ Re!Cardinality({e \in days : e >= d}) <= Re!Cardinality(days)
        BY <2>5, DaysAreFew
      <4> QED
        BY <2>6, <4>1 DEF Re!Retained, Re!ReputationAssumption
    <3> QED
      BY <3>1 DEF Re!Latest
  <2>7. \A d \in Re!Day : Re!RunBefore(days, d) <= DaysRetained => activity[w].longest >= Re!RunBefore(days, d)
    <3> TAKE d \in Re!Day
    <3>1. Re!RunBefore(days, d) \in 0..(d + 1) /\ d \in Nat /\ activity[w].longest \in Nat
      BY <1>1, RunIs DEF Re!Day, Re!Acts
    <3>2. Re!RunBefore(days, d) <= DaysRetained => Re!RunBefore(days, d) <= activity[w].longest
      BY <2>4 DEF Re!Carried
    <3> QED
      BY <3>1, <3>2
  <2>8. Re!Cardinality(days) <= DaysRetained => Re!Active(activity[w].days) = days
    BY <2>4, <2>6 DEF Re!Carried
  <2>9. rep[w] = [matched |-> Re!Cardinality({o \in outcomes[w] : o.matched}), total |-> Re!Cardinality(outcomes[w])]
    BY <2>2, <2>4 DEF Re!Alone
  <2> QED
    BY <2>7, <2>8, <2>9
<1>4. ASSUME NEW r \in {Re!RunBefore(days, d) : d \in Re!Day}
      PROVE  Re!Busy(w) = {} /\ w \notin raced /\ r <= DaysRetained => activity[w].longest >= r
  BY <1>3
<1> QED
  BY <1>2, <1>3, <1>4

\* What is written about a worker tells of every settlement there has been, and none is
\* counted twice, unless two settlements that are about the worker crossed
\* (dispatch.js recordOutcome(), workerAnalytics.js).
THEOREM OutcomesAreLostOnlyInRaces ==
  ASSUME Re!ReputationAssumption
  PROVE  Re!Spec => [](Re!ReputationInv /\ Re!LostOnlyInARace)
<1>1. Re!Init => Re!ReputationInv
  BY ReputationInit
<1>2. Re!ReputationInv /\ [Re!Next]_(Re!vars) => Re!ReputationInv'
  BY ReputationKept
<1>3. Re!ReputationInv => Re!LostOnlyInARace
  BY NothingIsLost
<1> QED
  BY <1>1, <1>2, <1>3, PTL DEF Re!Spec

\* What a worker has earned, once the longest streak is carried (computeXp()).
LEMMA PointsAre ==
  ASSUME Re!ReputationAssumption, NEW r \in Re!Records, NEW act \in Re!Acts, NEW d \in Re!Day, NEW F, Re!Carried(act, F)
  PROVE  Re!Xp(r, act, d) = 2 * r.total + 10 * r.matched + 5 * act.longest
<1>1. act.longest \in Nat /\ \A e \in Re!Day : Re!RunBefore(Re!Active(act.days), e) <= act.longest
  BY DEF Re!Acts, Re!Carried
<1>2. Re!Streak(act.days, d).longest \in 0..act.longest
  BY <1>1, StreakIs
<1>3. Re!Larger(act.longest, Re!Streak(act.days, d).longest) = act.longest
  BY <1>1, <1>2 DEF Re!Larger
<1> QED
  BY <1>3 DEF Re!Xp

LEMMA EarnedStep ==
  ASSUME Re!ReputationAssumption, Re!ReputationInv, Re!Next
  PROVE  Re!KeepsWhatWasEarned
<1> SUFFICES ASSUME NEW w \in Rated \ raced
             PROVE  badges[w] \subseteq badges'[w]
                    /\ Re!Xp(rep[w], activity[w], today) <= Re!Xp(rep'[w], activity'[w], today')
  BY DEF Re!KeepsWhatWasEarned
<1>1. /\ Re!ReputationInv'
      /\ rep'[w].total >= rep[w].total /\ rep'[w].matched >= rep[w].matched
      /\ activity'[w].longest >= activity[w].longest /\ badges[w] \subseteq badges'[w]
      /\ raced' = raced \/ UNCHANGED <<rep, activity, badges, today>>
  BY ReputationStep
<1>2. PICK r, act, d, F : /\ r = rep[w] /\ act = activity[w] /\ d = today /\ r \in Re!Records /\ act \in Re!Acts /\ d \in Re!Day
                          /\ Re!Carried(act, F)
  BY DEF Re!ReputationInv, Re!Shapes, Re!Tells, Re!CountsHold
<1>3. Re!Xp(r, act, d) = 2 * r.total + 10 * r.matched + 5 * act.longest
  BY <1>2, PointsAre
<1>4. PICK r1, act1, day1 : r1 = rep'[w] /\ act1 = activity'[w] /\ day1 = today'
  OBVIOUS
<1>5. r1 \in Re!Records /\ act1 \in Re!Acts /\ day1 \in Re!Day
  BY <1>1, <1>4 DEF Re!ReputationInv, Re!Shapes, Re!Tells, Re!CountsHold, Re!Records, Re!Acts, Re!Day
<1>6. Re!Xp(r, act, d) <= Re!Xp(r1, act1, day1)
  <2>1. CASE raced' = raced
    <3>1. PICK G : Re!Carried(act1, G)
      <4>1. Re!Tells(w)' /\ w \notin raced'
        BY <1>1, <2>1 DEF Re!ReputationInv
      <4>2. Re!Carried(activity[w], Re!Folded(w))'
        BY <4>1 DEF Re!Tells
      <4>3. Re!Carried(activity'[w], Re!Folded(w)')
        BY <4>2 DEF Re!Carried
      <4> QED
        BY <1>4, <4>3
    <3>2. Re!Xp(r1, act1, day1) = 2 * r1.total + 10 * r1.matched + 5 * act1.longest
      BY <1>5, <3>1, PointsAre
    <3>3. /\ r.total \in Nat /\ r.matched \in Nat /\ act.longest \in Nat /\ r1.total \in Nat /\ r1.matched \in Nat
          /\ act1.longest \in Nat
      BY <1>2, <1>5 DEF Re!Records, Re!Acts
    <3> QED
      BY <1>1, <1>2, <1>3, <1>4, <3>2, <3>3
  <2>2. CASE UNCHANGED <<rep, activity, badges, today>>
    <3>1. r1 = r /\ act1 = act /\ day1 = d
      BY <1>2, <1>4, <2>2
    <3>2. Re!Xp(r, act, d) \in Nat
      BY <1>2, <1>3 DEF Re!Records, Re!Acts
    <3> QED
      BY <3>1, <3>2
  <2> QED
    BY <1>1, <2>1, <2>2
<1> QED
  BY <1>1, <1>2, <1>4, <1>6

\* No badge, no day a badge was earned on and no point is lost by a worker whom no two
\* settlements are about at once (syncBadges(), computeXp()).
THEOREM EarnedStaysAlways ==
  ASSUME Re!ReputationAssumption
  PROVE  Re!Spec => Re!EarnedStays
<1>1. Re!ReputationInv /\ [Re!Next]_(Re!vars) => [Re!KeepsWhatWasEarned]_<<Re!stored, today>>
  <2>1. ASSUME Re!ReputationInv, Re!Next PROVE Re!KeepsWhatWasEarned
    BY <2>1, EarnedStep
  <2>2. UNCHANGED Re!vars => UNCHANGED <<Re!stored, today>>
    BY DEF Re!vars
  <2> QED
    BY <2>1, <2>2
<1> QED
  BY <1>1, OutcomesAreLostOnlyInRaces, PTL DEF Re!Spec, Re!EarnedStays


-----------------------------------------------------------------------------
(* What is reported of the questions *)

LEMMA ReportCardinality == \A S : Rp!Cardinality(S) = Cardinality(S) /\ (Rp!IsFiniteSet(S) <=> IsFiniteSet(S))
BY DEF Rp!Cardinality, Cardinality, Rp!IsFiniteSet, IsFiniteSet

LEMMA ReportsInit == ASSUME Rp!ReportsAssumption, Rp!Init PROVE Rp!ReportsInv
<1>1. \A o \in Rp!Outcomes, j \in Asked : ~Rp!Counts(o, j)
  BY DEF Rp!Init, Rp!Counts
<1>2. \A o \in Rp!Outcomes : {j \in Asked : Rp!Counts(o, j)} = {}
  BY <1>1
<1>3. \A o \in Rp!Outcomes : Rp!Cardinality({j \in Asked : Rp!Counts(o, j)}) = 0
  BY <1>2, FS_EmptySet, ReportCardinality
<1>4. stats \in [Rp!Outcomes -> Nat] /\ \A o \in Rp!Outcomes : stats[o] = Rp!Cardinality({j \in Asked : Rp!Counts(o, j)})
  BY <1>3 DEF Rp!Init, Rp!NoTotals
<1>5. \A j \in Asked : Rp!JobOK(j)
  BY DEF Rp!Init, Rp!JobOK, Rp!Stages
<1>6. \A r \in Readers : reader[r] = [at |-> "idle", totals |-> None]
  BY DEF Rp!Init, Rp!Idle
<1> QED
  BY <1>4, <1>5, <1>6 DEF Rp!Init, Rp!ReportsInv

\* A step about one job leaves what is known of the others.
Apart(j) ==
  /\ \A k \in Asked \ {j} : /\ stage'[k] = stage[k] /\ jobOf'[k] = jobOf[k]
                            /\ \A p \in Spenders : k \in tracked'[p] <=> k \in tracked[p]
  /\ tracked' \in [Spenders -> SUBSET Asked] /\ DOMAIN jobOf' = Asked /\ DOMAIN stage' = Asked

LEMMA ApartKeeps ==
  ASSUME Rp!ReportsAssumption, Rp!ReportsInv, NEW j \in Asked, Apart(j), Rp!JobOK(j)',
         stats' = stats, cache' = cache, reader' = reader, \A o \in Rp!Outcomes : Rp!Counts(o, j)' <=> Rp!Counts(o, j)
  PROVE  Rp!ReportsInv'
<1>1. \A k \in Asked : Rp!JobOK(k)'
  <2> SUFFICES ASSUME NEW k \in Asked, k # j PROVE Rp!JobOK(k)'
    OBVIOUS
  <2>1. Rp!JobOK(k)
    BY DEF Rp!ReportsInv
  <2> QED
    BY <2>1 DEF Rp!JobOK, Apart, Rp!Stages, Rp!Outcomes
<1>2. \A o \in Rp!Outcomes : {k \in Asked : Rp!Counts(o, k)'} = {k \in Asked : Rp!Counts(o, k)}
  <2> SUFFICES ASSUME NEW o \in Rp!Outcomes, NEW k \in Asked, k # j PROVE Rp!Counts(o, k)' <=> Rp!Counts(o, k)
    OBVIOUS
  <2> QED
    BY DEF Rp!Counts, Apart
<1>3. \A o \in Rp!Outcomes : stats'[o] = Rp!Cardinality({k \in Asked : Rp!Counts(o, k)'})
  BY <1>2 DEF Rp!ReportsInv
<1>4. \A t : Rp!Totals(t)' <=> Rp!Totals(t)
  BY DEF Rp!Totals, Rp!Outcomes
<1> QED
  BY <1>1, <1>3, <1>4 DEF Rp!ReportsInv, Apart, Rp!Outcomes

\* The fields of a record that a job has, or starts again with.
LEMMA PatchedFields ==
  ASSUME Rp!ReportsInv, NEW j \in Asked, NEW status, NEW outcome, Rp!Patched(j, status, outcome)
  PROVE  /\ DOMAIN jobOf' = Asked /\ \A k \in Asked \ {j} : jobOf'[k] = jobOf[k]
         /\ LET r == jobOf'[j] IN
              /\ r = [by |-> r.by, status |-> status, outcome |-> outcome, amount |-> r.amount, category |-> r.category, day |-> r.day]
              /\ r.by = IF jobOf[j] = None THEN None ELSE jobOf[j].by
<1>1. PICK old : old = IF jobOf[j] = None THEN Rp!Gone ELSE jobOf[j]
  OBVIOUS
<1>2. /\ old = [by |-> old.by, status |-> old.status, outcome |-> old.outcome,
               amount |-> old.amount, category |-> old.category, day |-> old.day]
      /\ old.by = IF jobOf[j] = None THEN None ELSE jobOf[j].by
  BY <1>1 DEF Rp!ReportsInv, Rp!JobOK, Rp!Gone
<1>3. PICK r : r = [old EXCEPT !.status = status, !.outcome = outcome]
  OBVIOUS
<1>4. r = [by |-> old.by, status |-> status, outcome |-> outcome, amount |-> old.amount, category |-> old.category, day |-> old.day]
  <2>1. PICK q : q = [old EXCEPT !.status = status]
    OBVIOUS
  <2>2. q = [by |-> old.by, status |-> status, outcome |-> old.outcome, amount |-> old.amount, category |-> old.category, day |-> old.day]
    BY <1>2, <2>1
  <2>3. [q EXCEPT !.outcome = outcome] = [by |-> old.by, status |-> status, outcome |-> outcome,
                                          amount |-> old.amount, category |-> old.category, day |-> old.day]
    BY <2>2
  <2> QED
    BY <1>3, <2>1, <2>3, Zenon
<1>5. jobOf' = [jobOf EXCEPT ![j] = r]
  BY <1>1, <1>3, Zenon DEF Rp!Patched
<1>6. DOMAIN jobOf = Asked
  BY DEF Rp!ReportsInv
<1>7. DOMAIN jobOf' = Asked /\ jobOf'[j] = r /\ \A k \in Asked \ {j} : jobOf'[k] = jobOf[k]
  BY <1>5, <1>6
<1>8. /\ r = [by |-> r.by, status |-> status, outcome |-> outcome, amount |-> r.amount, category |-> r.category, day |-> r.day]
      /\ r.by = old.by
  BY <1>4
<1> QED
  BY <1>2, <1>7, <1>8

LEMMA GoesTo ==
  ASSUME Rp!ReportsInv, NEW j \in Asked, NEW at, NEW outcome, Rp!Goes(j, at, outcome)
  PROVE  /\ DOMAIN stage' = Asked /\ stage'[j] = [at |-> at, outcome |-> outcome] /\ stage'[j].at = at /\ stage'[j].outcome = outcome
         /\ \A k \in Asked \ {j} : stage'[k] = stage[k]
BY DEF Rp!ReportsInv, Rp!Goes

LEMMA AskPaidKeeps ==
  ASSUME Rp!ReportsAssumption, Rp!ReportsInv, NEW j \in Asked, NEW p \in Spenders, NEW amount, NEW category, NEW day,
         Rp!AskPaid(j, p, amount, category, day)
  PROVE  Rp!ReportsInv'
<1>1. /\ stage[j].at = "none" /\ Rp!Goes(j, "paid", None) /\ tracked' = [tracked EXCEPT ![p] = @ \cup {j}]
      /\ stats' = stats /\ cache' = cache /\ reader' = reader /\ tracked \in [Spenders -> SUBSET Asked] /\ DOMAIN jobOf = Asked
  BY DEF Rp!AskPaid, Rp!ReportsInv
<1>2. PICK r : r = [Rp!Gone EXCEPT !.by = p, !.amount = amount, !.category = category, !.day = day]
  OBVIOUS
<1>3. r = [by |-> p, status |-> "awaiting_workers", outcome |-> None, amount |-> amount, category |-> category, day |-> day]
  <2>1. PICK r1 : r1 = [Rp!Gone EXCEPT !.by = p]
    OBVIOUS
  <2>2. r1 = [by |-> p, status |-> "awaiting_workers", outcome |-> None, amount |-> 0, category |-> None, day |-> None]
    BY <2>1 DEF Rp!Gone
  <2>3. PICK r2 : r2 = [r1 EXCEPT !.amount = amount]
    OBVIOUS
  <2>4. r2 = [by |-> p, status |-> "awaiting_workers", outcome |-> None, amount |-> amount, category |-> None, day |-> None]
    BY <2>2, <2>3
  <2>5. PICK r3 : r3 = [r2 EXCEPT !.category = category]
    OBVIOUS
  <2>6. r3 = [by |-> p, status |-> "awaiting_workers", outcome |-> None, amount |-> amount, category |-> category, day |-> None]
    BY <2>4, <2>5
  <2>7. [r3 EXCEPT !.day = day] = [by |-> p, status |-> "awaiting_workers", outcome |-> None,
                                   amount |-> amount, category |-> category, day |-> day]
    BY <2>6
  <2> QED
    BY <1>2, <2>1, <2>3, <2>5, <2>7, Zenon
<1>4. jobOf' = [jobOf EXCEPT ![j] = r]
  BY <1>2, Zenon DEF Rp!AskPaid
<1>5. jobOf'[j] = r /\ DOMAIN jobOf' = Asked /\ \A k \in Asked \ {j} : jobOf'[k] = jobOf[k]
  BY <1>1, <1>4
<1>6. /\ tracked' \in [Spenders -> SUBSET Asked] /\ j \in tracked'[p]
      /\ \A k \in Asked \ {j}, q \in Spenders : k \in tracked'[q] <=> k \in tracked[q]
  BY <1>1
<1>7. Apart(j)
  BY <1>1, <1>5, <1>6, GoesTo DEF Apart
<1>8. /\ r.by = p /\ r.outcome = None /\ r = [by |-> r.by, status |-> r.status, outcome |-> r.outcome,
                                            amount |-> r.amount, category |-> r.category, day |-> r.day]
  BY <1>3
<1>9. p # "sandbox" /\ None # "resolved"
  BY DEF Rp!ReportsAssumption
<1>10. stage'[j] = [at |-> "paid", outcome |-> None] /\ stage'[j].at = "paid" /\ stage'[j].outcome = None
  BY <1>1, GoesTo
<1>11. \A q \in Spenders : j \notin tracked[q]
  BY <1>1 DEF Rp!ReportsInv, Rp!JobOK
<1>12. \A q \in Spenders : j \in tracked'[q] => q = p
  BY <1>1, <1>11
<1>13. Rp!JobOK(j)'
  BY <1>5, <1>6, <1>8, <1>9, <1>10 DEF Rp!JobOK, Rp!Stages
<1>14. \A o \in Rp!Outcomes : Rp!Counts(o, j)' <=> Rp!Counts(o, j)
  BY <1>1, <1>10 DEF Rp!Counts
<1> QED
  BY <1>1, <1>7, <1>13, <1>14, ApartKeeps

\* A settlement is counted as it is decided.
LEMMA IncrementKeeps ==
  ASSUME Rp!ReportsAssumption, Rp!ReportsInv, NEW j \in Asked, NEW outcome \in Rp!Outcomes, Rp!IncrementStat(j, outcome)
  PROVE  Rp!ReportsInv'
<1>1. /\ stage[j].at = "paid" /\ Rp!Goes(j, "counted", outcome) /\ stats' = [stats EXCEPT ![outcome] = @ + 1]
      /\ jobOf' = jobOf /\ tracked' = tracked /\ cache' = cache /\ reader' = reader
  BY DEF Rp!IncrementStat
<1>2. /\ stage'[j] = [at |-> "counted", outcome |-> outcome] /\ stage'[j].at = "counted" /\ stage'[j].outcome = outcome
      /\ DOMAIN stage' = Asked /\ \A k \in Asked \ {j} : stage'[k] = stage[k]
  BY <1>1, GoesTo
<1>3. PICK p \in Spenders : j \in tracked[p]
  BY <1>1 DEF Rp!ReportsInv, Rp!JobOK
<1>4. /\ stats \in [Rp!Outcomes -> Nat] /\ stats' \in [Rp!Outcomes -> Nat]
      /\ \A o \in Rp!Outcomes : stats'[o] = (IF o = outcome THEN stats[o] + 1 ELSE stats[o]) /\ stats[o] <= stats'[o]
  BY <1>1 DEF Rp!ReportsInv
<1>5. \A k \in Asked : Rp!JobOK(k)'
  <2> SUFFICES ASSUME NEW k \in Asked PROVE Rp!JobOK(k)'
    OBVIOUS
  <2>1. Rp!JobOK(k)
    BY DEF Rp!ReportsInv
  <2>2. CASE k = j
    BY <1>1, <1>2, <1>3, <2>1, <2>2 DEF Rp!JobOK, Rp!Stages, Rp!Outcomes
  <2>3. CASE k # j
    <3>1. stage'[k] = stage[k]
      BY <1>2, <2>3
    <3> QED
      BY <1>1, <2>1, <3>1 DEF Rp!JobOK, Rp!Stages, Rp!Outcomes
  <2> QED
    BY <2>2, <2>3
<1>6. \A o \in Rp!Outcomes : stats'[o] = Rp!Cardinality({k \in Asked : Rp!Counts(o, k)'})
  <2> SUFFICES ASSUME NEW o \in Rp!Outcomes PROVE stats'[o] = Cardinality({k \in Asked : Rp!Counts(o, k)'})
    BY ReportCardinality
  <2> DEFINE S == {k \in Asked : Rp!Counts(o, k)}
             T == {k \in Asked : Rp!Counts(o, k)'}
  <2>1. IsFiniteSet(S) /\ stats[o] = Cardinality(S)
    <3>1. S \in SUBSET Asked /\ IsFiniteSet(Asked)
      BY ReportCardinality DEF Rp!ReportsAssumption
    <3> QED
      BY <3>1, FS_Subset, ReportCardinality DEF Rp!ReportsInv
  <2>2. \A k \in Asked \ {j} : Rp!Counts(o, k)' <=> Rp!Counts(o, k)
    BY <1>1, <1>2 DEF Rp!Counts
  <2>3. ~Rp!Counts(o, j)
    BY <1>1 DEF Rp!Counts
  <2>4. Rp!Counts(o, j)' <=> o = outcome
    BY <1>1, <1>2, <1>3 DEF Rp!Counts
  <2>5. CASE o = outcome
    <3>1. T = S \cup {j} /\ j \notin S
      BY <2>2, <2>3, <2>4, <2>5
    <3>2. Cardinality(T) = Cardinality(S) + 1
      BY <2>1, <3>1, FS_AddElement
    <3> QED
      BY <1>4, <2>1, <2>5, <3>2
  <2>6. CASE o # outcome
    <3>1. T = S
      BY <2>2, <2>3, <2>4, <2>6
    <3> QED
      BY <1>4, <2>1, <2>6, <3>1
  <2> QED
    BY <2>5, <2>6
<1>7. \A t : Rp!Totals(t) => Rp!Totals(t)'
  <2> SUFFICES ASSUME NEW t, Rp!Totals(t), NEW o \in Rp!Outcomes PROVE t[o] <= stats'[o]
    BY DEF Rp!Totals, Rp!Outcomes
  <2>1. t[o] \in Nat /\ t[o] <= stats[o] /\ stats[o] \in Nat /\ stats'[o] \in Nat /\ stats[o] <= stats'[o]
    BY <1>4 DEF Rp!Totals
  <2> QED
    BY <2>1
<1> QED
  BY <1>1, <1>2, <1>4, <1>5, <1>6, <1>7 DEF Rp!ReportsInv, Rp!Outcomes

LEMMA PatchKeeps ==
  ASSUME Rp!ReportsAssumption, Rp!ReportsInv, NEW j \in Asked, NEW at \in {"canned", "done"}, NEW result, NEW status, NEW outcome,
         Rp!Goes(j, at, result), Rp!Patched(j, status, outcome),
         tracked' = tracked, stats' = stats, cache' = cache, reader' = reader,
         \/ stage[j].at = "counted" /\ at = "done" /\ result = stage[j].outcome /\ status = "settled"
         \/ \A p \in Spenders : j \notin tracked[p]
  PROVE  Rp!ReportsInv'
<1>1. /\ stage'[j] = [at |-> at, outcome |-> result] /\ stage'[j].at = at /\ stage'[j].outcome = result
      /\ DOMAIN stage' = Asked /\ \A k \in Asked \ {j} : stage'[k] = stage[k]
  BY GoesTo
<1>2. PICK r : r = jobOf'[j]
  OBVIOUS
<1>3. /\ DOMAIN jobOf' = Asked /\ \A k \in Asked \ {j} : jobOf'[k] = jobOf[k]
      /\ r = [by |-> r.by, status |-> status, outcome |-> outcome, amount |-> r.amount, category |-> r.category, day |-> r.day]
      /\ r.by = IF jobOf[j] = None THEN None ELSE jobOf[j].by
  BY <1>2, PatchedFields
<1>4. r.status = status /\ r = [by |-> r.by, status |-> r.status, outcome |-> r.outcome,
                                amount |-> r.amount, category |-> r.category, day |-> r.day]
  BY <1>3
<1>5. Apart(j)
  BY <1>1, <1>3 DEF Apart, Rp!ReportsInv
<1>6. Rp!JobOK(j) /\ None # "sandbox"
  BY DEF Rp!ReportsInv, Rp!ReportsAssumption
<1>7. \A p \in Spenders : j \in tracked[p] => r.by # "sandbox" /\ r.status = "settled"
  BY <1>3, <1>4, <1>6 DEF Rp!JobOK
<1>8. Rp!JobOK(j)'
  BY <1>1, <1>2, <1>4, <1>6, <1>7 DEF Rp!JobOK, Rp!Stages
<1>9. \A o \in Rp!Outcomes : Rp!Counts(o, j)' <=> Rp!Counts(o, j)
  BY <1>1 DEF Rp!Counts
<1> QED
  BY <1>5, <1>8, <1>9, ApartKeeps

LEMMA AskSandboxKeeps ==
  ASSUME Rp!ReportsAssumption, Rp!ReportsInv, NEW j \in Asked, NEW mode, Rp!AskSandbox(j, mode)
  PROVE  Rp!ReportsInv'
<1> PICK r : r = [Rp!Gone EXCEPT !.by = "sandbox"]
  OBVIOUS
<1>1. /\ stage[j].at = "none" /\ Rp!Goes(j, "sandbox", mode) /\ jobOf' = [jobOf EXCEPT ![j] = r]
      /\ tracked' = tracked /\ stats' = stats /\ cache' = cache /\ reader' = reader
  BY DEF Rp!AskSandbox
<1>2. r = [by |-> r.by, status |-> r.status, outcome |-> r.outcome, amount |-> r.amount, category |-> r.category, day |-> r.day]
  BY DEF Rp!Gone
<1>3. /\ stage'[j] = [at |-> "sandbox", outcome |-> mode] /\ stage'[j].at = "sandbox" /\ stage'[j].outcome = mode
      /\ DOMAIN stage' = Asked /\ \A k \in Asked \ {j} : stage'[k] = stage[k]
  BY <1>1, GoesTo
<1>4. jobOf'[j] = r /\ DOMAIN jobOf' = Asked /\ \A k \in Asked \ {j} : jobOf'[k] = jobOf[k]
  BY <1>1 DEF Rp!ReportsInv
<1>5. \A p \in Spenders : j \notin tracked[p]
  BY <1>1 DEF Rp!ReportsInv, Rp!JobOK
<1>6. Apart(j)
  BY <1>1, <1>3, <1>4 DEF Apart, Rp!ReportsInv
<1>7. Rp!JobOK(j)'
  BY <1>1, <1>2, <1>3, <1>4, <1>5 DEF Rp!JobOK, Rp!Stages
<1>8. \A o \in Rp!Outcomes : Rp!Counts(o, j)' <=> Rp!Counts(o, j)
  BY <1>1, <1>3 DEF Rp!Counts
<1> QED
  BY <1>1, <1>6, <1>7, <1>8, ApartKeeps

LEMMA JobExpiresKeeps ==
  ASSUME Rp!ReportsAssumption, Rp!ReportsInv, NEW j \in Asked, Rp!JobExpires(j)
  PROVE  Rp!ReportsInv'
<1>1. /\ jobOf' = [jobOf EXCEPT ![j] = None] /\ stage' = stage
      /\ tracked' = tracked /\ stats' = stats /\ cache' = cache /\ reader' = reader
  BY DEF Rp!JobExpires
<1>2. jobOf'[j] = None /\ DOMAIN jobOf' = Asked /\ \A k \in Asked \ {j} : jobOf'[k] = jobOf[k]
  BY <1>1 DEF Rp!ReportsInv
<1>3. Apart(j)
  BY <1>1, <1>2 DEF Apart, Rp!ReportsInv
<1>4. Rp!JobOK(j)
  BY DEF Rp!ReportsInv
<1>5. Rp!JobOK(j)'
  BY <1>1, <1>2, <1>4 DEF Rp!JobOK, Rp!Stages, Rp!Outcomes
<1>6. \A o \in Rp!Outcomes : Rp!Counts(o, j)' <=> Rp!Counts(o, j)
  BY <1>1 DEF Rp!Counts
<1> QED
  BY <1>1, <1>3, <1>5, <1>6, ApartKeeps

\* A reader holds what was counted when it read.
ReadersOK == \A r \in Readers :
  /\ reader[r] = [at |-> reader[r].at, totals |-> reader[r].totals] /\ reader[r].at \in {"idle", "reading", "read"}
  /\ reader[r].at # "idle" => Rp!Totals(reader[r].totals)

LEMMA ReadersKeep ==
  ASSUME Rp!ReportsInv, UNCHANGED <<jobOf, tracked, stage, stats>>,
         DOMAIN reader' = Readers, ReadersOK', cache' = cache \/ (cache' # None => Rp!Totals(cache'.totals))
  PROVE  Rp!ReportsInv'
<1>1. \A k \in Asked : Rp!JobOK(k)'
  BY DEF Rp!ReportsInv, Rp!JobOK, Rp!Stages, Rp!Outcomes
<1>2. \A o \in Rp!Outcomes : {k \in Asked : Rp!Counts(o, k)'} = {k \in Asked : Rp!Counts(o, k)}
  BY DEF Rp!Counts
<1>3. \A t : Rp!Totals(t)' <=> Rp!Totals(t)
  BY DEF Rp!Totals, Rp!Outcomes
<1>c. PICK c : c = cache'
  OBVIOUS
<1>4. c # None => Rp!Totals(c.totals)'
  BY <1>3, <1>c DEF Rp!ReportsInv
<1>5. stats' \in [Rp!Outcomes -> Nat] /\ \A o \in Rp!Outcomes : stats'[o] = Rp!Cardinality({k \in Asked : Rp!Counts(o, k)'})
  BY <1>2 DEF Rp!ReportsInv
<1>6. tracked' \in [Spenders -> SUBSET Asked] /\ DOMAIN jobOf' = Asked /\ DOMAIN stage' = Asked
  BY DEF Rp!ReportsInv
<1> QED
  <2>1. (cache # None => Rp!Totals(cache.totals))'
    BY <1>c, <1>4
  <2>2. ReadersOK' /\ DOMAIN reader' = Readers
    OBVIOUS
  <2> QED
    BY <1>1, <1>5, <1>6, <2>1, <2>2 DEF Rp!ReportsInv, ReadersOK, Rp!Outcomes

LEMMA ReadingKeepsReports ==
  ASSUME Rp!ReportsAssumption, Rp!ReportsInv, NEW r \in Readers,
         Rp!BeginRead(r) \/ Rp!EndRead(r) \/ Rp!WriteCache(r)
  PROVE  Rp!ReportsInv'
<1>1. /\ DOMAIN reader = Readers /\ ReadersOK /\ stats \in [Rp!Outcomes -> Nat] /\ Rp!Outcomes = {"resolved", "refunded"}
      /\ UNCHANGED <<jobOf, tracked, stage, stats>>
  BY DEF Rp!ReportsInv, ReadersOK, Rp!Outcomes, Rp!BeginRead, Rp!EndRead, Rp!WriteCache
<1>2. \A t : Rp!Totals(t)' <=> Rp!Totals(t)
  BY <1>1 DEF Rp!Totals, Rp!Outcomes
<1>3. ASSUME NEW new, reader' = [reader EXCEPT ![r] = new], new = [at |-> new.at, totals |-> new.totals],
             new.at \in {"idle", "reading", "read"}, new.at # "idle" => Rp!Totals(new.totals)
      PROVE  DOMAIN reader' = Readers /\ ReadersOK'
  <2>1. DOMAIN reader' = Readers /\ \A q \in Readers : reader'[q] = IF q = r THEN new ELSE reader[q]
    BY <1>1, <1>3
  <2> SUFFICES ASSUME NEW q \in Readers
               PROVE  /\ reader'[q] = [at |-> reader'[q].at, totals |-> reader'[q].totals] /\ reader'[q].at \in {"idle", "reading", "read"}
                      /\ reader'[q].at # "idle" => Rp!Totals(reader'[q].totals)
    BY <1>2, <2>1 DEF ReadersOK
  <2>2. CASE q = r
    BY <1>3, <2>1, <2>2
  <2>3. CASE q # r
    BY <1>1, <2>1, <2>3 DEF ReadersOK
  <2> QED
    BY <2>2, <2>3
<1>4. CASE Rp!BeginRead(r)
  <2> PICK totals : totals = [Rp!NoTotals EXCEPT !["resolved"] = stats["resolved"]]
    OBVIOUS
  <2> PICK new : new = [at |-> "reading", totals |-> totals]
    OBVIOUS
  <2>1. reader' = [reader EXCEPT ![r] = new] /\ cache' = cache
    BY <1>4 DEF Rp!BeginRead
  <2>2. Rp!Totals(totals)
    BY <1>1 DEF Rp!NoTotals, Rp!Totals
  <2>3. new.at = "reading" /\ new.totals = totals /\ new = [at |-> new.at, totals |-> new.totals]
    OBVIOUS
  <2>4. DOMAIN reader' = Readers /\ ReadersOK'
    BY <1>3, <2>1, <2>2, <2>3
  <2> QED
    BY <1>1, <2>1, <2>4, ReadersKeep
<1>5. CASE Rp!EndRead(r)
  <2> PICK me : me = reader[r]
    OBVIOUS
  <2>1. me = [at |-> me.at, totals |-> me.totals] /\ Rp!Totals(me.totals)
    BY <1>1, <1>5 DEF ReadersOK, Rp!EndRead
  <2> PICK totals : totals = [me.totals EXCEPT !["refunded"] = stats["refunded"]]
    OBVIOUS
  <2> PICK new : new = [at |-> "read", totals |-> totals]
    OBVIOUS
  <2>2. reader' = [reader EXCEPT ![r] = new] /\ cache' = cache
    <3>1. PICK half : half = [reader EXCEPT ![r].at = "read"]
      OBVIOUS
    <3>2. PICK mine : mine = [me EXCEPT !.at = "read"]
      OBVIOUS
    <3>3. mine = [at |-> "read", totals |-> me.totals]
      BY <2>1, <3>2
    <3>4. half = [reader EXCEPT ![r] = mine] /\ half[r] = mine /\ DOMAIN half = Readers
      BY <1>1, <3>1, <3>2
    <3>5. PICK done : done = [mine EXCEPT !.totals["refunded"] = stats["refunded"]]
      OBVIOUS
    <3>6. done = new
      BY <3>3, <3>5
    <3>7. [half EXCEPT ![r].totals["refunded"] = stats["refunded"]] = [half EXCEPT ![r] = done]
      BY <3>4, <3>5
    <3>8. reader' = [half EXCEPT ![r].totals["refunded"] = stats["refunded"]] /\ cache' = cache
      BY <1>5, <3>1, Zenon DEF Rp!EndRead
    <3>9. [half EXCEPT ![r] = done] = [reader EXCEPT ![r] = new]
      BY <1>1, <3>4, <3>6
    <3> QED
      BY <3>7, <3>8, <3>9
  <2>3. Rp!Totals(totals)
    BY <1>1, <2>1 DEF Rp!Totals
  <2>4. new.at = "read" /\ new.totals = totals /\ new = [at |-> new.at, totals |-> new.totals]
    OBVIOUS
  <2>5. DOMAIN reader' = Readers /\ ReadersOK'
    BY <1>3, <2>2, <2>3, <2>4
  <2> QED
    BY <1>1, <2>2, <2>5, ReadersKeep
<1>6. CASE Rp!WriteCache(r)
  <2> PICK new : new = Rp!Idle
    OBVIOUS
  <2>1. /\ reader[r].at = "read" /\ reader' = [reader EXCEPT ![r] = new]
        /\ cache' \in {cache, [totals |-> reader[r].totals, until |-> moment + StatsCacheTtl]}
    BY <1>6 DEF Rp!WriteCache
  <2>2. new.at = "idle" /\ new = [at |-> new.at, totals |-> new.totals]
    BY DEF Rp!Idle
  <2>3. DOMAIN reader' = Readers /\ ReadersOK'
    BY <1>3, <2>1, <2>2
  <2>4. Rp!Totals(reader[r].totals)
    BY <1>1, <2>1 DEF ReadersOK
  <2>5. cache' = cache \/ cache'.totals = reader[r].totals
    BY <2>1
  <2> QED
    BY <1>1, <2>3, <2>4, <2>5, ReadersKeep
<1> QED
  BY <1>4, <1>5, <1>6

LEMMA ReportsStep == Rp!ReportsAssumption /\ Rp!ReportsInv /\ [Rp!Next]_(Rp!vars) => Rp!ReportsInv'
<1> SUFFICES ASSUME Rp!ReportsAssumption, Rp!ReportsInv, [Rp!Next]_(Rp!vars) PROVE Rp!ReportsInv'
  OBVIOUS
<1>1. ReadersOK /\ DOMAIN reader = Readers
  BY DEF Rp!ReportsInv, ReadersOK
<1>2. ASSUME UNCHANGED <<jobOf, tracked, stage, stats, cache, reader>> PROVE Rp!ReportsInv'
  <2>1. \A t : Rp!Totals(t)' <=> Rp!Totals(t)
    BY <1>2 DEF Rp!Totals, Rp!Outcomes
  <2>2. ReadersOK' /\ DOMAIN reader' = Readers /\ cache' = cache
    BY <1>1, <1>2, <2>1 DEF ReadersOK
  <2> QED
    BY <1>2, <2>2, ReadersKeep
<1>3. UNCHANGED Rp!vars \/ Rp!Tick => Rp!ReportsInv'
  BY <1>2 DEF Rp!vars, Rp!Tick
<1>4. ASSUME NEW j \in Asked, NEW p \in Spenders, NEW a, NEW c, NEW d, Rp!AskPaid(j, p, a, c, d) PROVE Rp!ReportsInv'
  BY <1>4, AskPaidKeeps
<1>5. ASSUME NEW j \in Asked, NEW o \in Rp!Outcomes, Rp!IncrementStat(j, o) PROVE Rp!ReportsInv'
  BY <1>5, IncrementKeeps
<1>6. ASSUME NEW j \in Asked, NEW m, Rp!AskSandbox(j, m) PROVE Rp!ReportsInv'
  BY <1>6, AskSandboxKeeps
<1>7. ASSUME NEW j \in Asked, Rp!SettleJob(j) PROVE Rp!ReportsInv'
  <2>1. /\ stage[j].at = "counted" /\ Rp!Goes(j, "done", stage[j].outcome) /\ Rp!Patched(j, "settled", stage[j].outcome)
        /\ tracked' = tracked /\ stats' = stats /\ cache' = cache /\ reader' = reader
    BY <1>7 DEF Rp!SettleJob
  <2> QED
    BY <2>1, PatchKeeps
<1>8. ASSUME NEW j \in Asked, Rp!RunSandbox(j) \/ Rp!SettleSandbox(j) \/ Rp!SandboxCrashes(j) PROVE Rp!ReportsInv'
  <2>1. /\ stage[j].at \in {"sandbox", "canned"} /\ tracked' = tracked /\ stats' = stats /\ cache' = cache /\ reader' = reader
    BY <1>8 DEF Rp!RunSandbox, Rp!SettleSandbox, Rp!SandboxCrashes
  <2>2. \E at \in {"canned", "done"} : \E result, status, outcome : Rp!Goes(j, at, result) /\ Rp!Patched(j, status, outcome)
    BY <1>8 DEF Rp!RunSandbox, Rp!SettleSandbox, Rp!SandboxCrashes
  <2>3. \A p \in Spenders : j \notin tracked[p]
    BY <2>1 DEF Rp!ReportsInv, Rp!JobOK
  <2> QED
    BY <2>1, <2>2, <2>3, PatchKeeps
<1>9. ASSUME NEW j \in Asked, Rp!JobExpires(j) PROVE Rp!ReportsInv'
  BY <1>9, JobExpiresKeeps
<1>10. ASSUME NEW r \in Readers, Rp!BeginRead(r) \/ Rp!EndRead(r) \/ Rp!WriteCache(r) PROVE Rp!ReportsInv'
  BY <1>10, ReadingKeepsReports
<1> QED
  BY <1>3, <1>4, <1>5, <1>6, <1>7, <1>8, <1>9, <1>10 DEF Rp!Next

LEMMA ReportsAreTrue == ASSUME Rp!ReportsAssumption, Rp!ReportsInv PROVE Rp!ReportsHold
<1>1. \A o \in Rp!Outcomes : stats[o] = Rp!Cardinality({j \in Asked : Rp!Counts(o, j)})
  BY DEF Rp!ReportsInv
<1>2. \A o \in Rp!Outcomes : /\ cache # None => cache.totals[o] <= stats[o]
                             /\ \A r \in Readers : reader[r].at # "idle" => reader[r].totals[o] <= stats[o]
  BY DEF Rp!ReportsInv, Rp!Totals
<1>3. ASSUME NEW members \in SUBSET Spenders, NEW j \in Rp!TeamQuestions(members)
      PROVE  jobOf[j].by # "sandbox" /\ (jobOf[j].outcome = "resolved" => jobOf[j].status = "settled")
  <2>1. PICK p \in Spenders : j \in tracked[p] /\ jobOf[j] # None
    BY <1>3 DEF Rp!TeamQuestions, Rp!Questions
  <2>2. j \in Asked
    BY <2>1 DEF Rp!ReportsInv
  <2> QED
    BY <2>1, <2>2 DEF Rp!ReportsInv, Rp!JobOK
<1> QED
  BY <1>1, <1>2, <1>3 DEF Rp!ReportsHold, Rp!Resolved, Rp!Settled

\* The totals count the settlements of paid questions, each once, what is cached or read was
\* never more than that, and no payer is shown a job of the sandbox or a question resolved
\* before it is settled (stats.js, payerIndex.js, sandbox.js).
THEOREM TotalsCountSettlements == ASSUME Rp!ReportsAssumption PROVE Rp!Spec => []Rp!ReportsHold
<1>1. Rp!Init => Rp!ReportsInv
  BY ReportsInit
<1>2. Rp!ReportsInv /\ [Rp!Next]_(Rp!vars) => Rp!ReportsInv'
  BY ReportsStep
<1>3. Rp!ReportsInv => Rp!ReportsHold
  BY ReportsAreTrue
<1> QED
  BY <1>1, <1>2, <1>3, PTL DEF Rp!Spec

-----------------------------------------------------------------------------
(* The earnings ledger *)

\* The keys of the lists are different.
LEMMA LedgerKeys ==
  \A k, w, y, l, v, x :
    /\ <<k, w, y>> = <<l, v, x>> <=> k = l /\ w = v /\ y = x
    /\ <<"years", w>> # <<k, v, x>> /\ <<"earners", y>> # <<k, v, x>> /\ <<"years", w>> # <<"earners", y>>
    /\ (<<"years", w>> = <<"years", v>> <=> w = v) /\ (<<"earners", y>> = <<"earners", x>> <=> y = x)
OBVIOUS

LEMMA LedgerKeysAre ==
  \A w \in Credited, y \in Years :
    /\ \A k \in {"credits", "withdrawals"} : <<k, w, y>> \in Ea!Keys
    /\ <<"years", w>> \in Ea!Keys /\ <<"earners", y>> \in Ea!Keys
BY DEF Ea!Keys

LEMMA LedgerCardinality == \A S : Ea!Cardinality(S) = Cardinality(S) /\ (Ea!IsFiniteSet(S) <=> IsFiniteSet(S))
BY DEF Ea!Cardinality, Cardinality, Ea!IsFiniteSet, IsFiniteSet

LEMMA EarningsInit == ASSUME Ea!EarningsAssumption, Ea!Init PROVE Ea!EarningsInv
<1>1. \A d \in Drives : drive[d] = [at |-> "idle", of |-> None, year |-> None, todo |-> <<>>, stage |-> 1, read |-> {}]
  BY DEF Ea!Init, Ea!Idle
<1>2. \A d \in Drives : Ea!Shaped(drive[d])
  BY <1>1 DEF Ea!Shaped
<1>3. \A k \in Ea!Keys : lists[k] = {}
  BY DEF Ea!Init
<1>4. \A w \in Credited, y \in Years : /\ lists[<<"credits", w, y>>] = {} /\ lists[<<"withdrawals", w, y>>] = {}
  BY <1>3, LedgerKeysAre
<1> QED
  BY <1>2, <1>4 DEF Ea!Init, Ea!EarningsInv, Ea!Once

LEMMA DoneIsShaped ==
  ASSUME NEW new, new = [at |-> "done", of |-> None, year |-> None, todo |-> <<>>, stage |-> 1, read |-> {}]
  PROVE  Ea!Shaped(new)
BY DEF Ea!Shaped

\* What a recording does is about the worker and the year it is at.
LEMMA RecordingKeeps ==
  ASSUME Ea!EarningsInv, NEW d \in Drives, NEW new, drive' = [drive EXCEPT ![d] = new], Ea!Shaped(new),
         DOMAIN lists' = Ea!Keys, torn \subseteq torn', torn' \subseteq Ea!Keys,
         \A k \in {"credits", "withdrawals"}, w \in Credited, y \in Years : Ea!Once(lists'[<<k, w, y>>]),
         \A w \in Credited, y \in Years : Ea!Whole(w, y)' =>
           /\ lists[<<"years", w>>] \subseteq lists'[<<"years", w>>] /\ lists[<<"earners", y>>] \subseteq lists'[<<"earners", y>>]
           /\ \/ lists'[<<"credits", w, y>>] = {} \/ lists[<<"credits", w, y>>] # {}
              \/ Ea!About(new, w, y) /\ new.stage = 2
           /\ Ea!About(drive[d], w, y) =>
                /\ drive[d].stage = 2 => y \in lists'[<<"years", w>>] \/ (Ea!About(new, w, y) /\ new.stage = 2)
                /\ drive[d].stage \in {2, 3} => w \in lists'[<<"earners", y>>] \/ (Ea!About(new, w, y) /\ new.stage \in {2, 3})
  PROVE  Ea!EarningsInv'
<1>1. DOMAIN drive' = Drives /\ drive'[d] = new /\ \A e \in Drives \ {d} : drive'[e] = drive[e]
  BY DEF Ea!EarningsInv
<1>2. \A e \in Drives : Ea!Shaped(drive'[e])
  BY <1>1 DEF Ea!EarningsInv
<1>3. ASSUME NEW w \in Credited, NEW y \in Years, Ea!Whole(w, y)', lists'[<<"credits", w, y>>] # {}
      PROVE  /\ y \in lists'[<<"years", w>>] \/ \E e \in Drives : Ea!About(drive'[e], w, y) /\ drive'[e].stage = 2
             /\ w \in lists'[<<"earners", y>>] \/ \E e \in Drives : Ea!About(drive'[e], w, y) /\ drive'[e].stage \in {2, 3}
  <2>1. Ea!Whole(w, y)
    BY <1>3 DEF Ea!Whole
  <2>2. CASE Ea!About(new, w, y) /\ new.stage = 2
    BY <1>1, <2>2
  <2>3. CASE lists[<<"credits", w, y>>] # {}
    <3>1. /\ y \in lists[<<"years", w>>] \/ \E e \in Drives : Ea!About(drive[e], w, y) /\ drive[e].stage = 2
          /\ w \in lists[<<"earners", y>>] \/ \E e \in Drives : Ea!About(drive[e], w, y) /\ drive[e].stage \in {2, 3}
      BY <2>1, <2>3 DEF Ea!EarningsInv
    <3>2. y \in lists'[<<"years", w>>] \/ \E e \in Drives : Ea!About(drive'[e], w, y) /\ drive'[e].stage = 2
      <4>1. CASE y \in lists[<<"years", w>>]
        BY <1>3, <4>1
      <4>2. ASSUME NEW e \in Drives, Ea!About(drive[e], w, y), drive[e].stage = 2
            PROVE  y \in lists'[<<"years", w>>] \/ \E f \in Drives : Ea!About(drive'[f], w, y) /\ drive'[f].stage = 2
        <5>1. CASE e = d
          BY <1>1, <1>3, <4>2, <5>1
        <5>2. CASE e # d
          BY <1>1, <4>2, <5>2
        <5> QED
          BY <5>1, <5>2
      <4> QED
        BY <3>1, <4>1, <4>2
    <3>3. w \in lists'[<<"earners", y>>] \/ \E e \in Drives : Ea!About(drive'[e], w, y) /\ drive'[e].stage \in {2, 3}
      <4>1. CASE w \in lists[<<"earners", y>>]
        BY <1>3, <4>1
      <4>2. ASSUME NEW e \in Drives, Ea!About(drive[e], w, y), drive[e].stage \in {2, 3}
            PROVE  w \in lists'[<<"earners", y>>] \/ \E f \in Drives : Ea!About(drive'[f], w, y) /\ drive'[f].stage \in {2, 3}
        <5>1. CASE e = d
          BY <1>1, <1>3, <4>2, <5>1
        <5>2. CASE e # d
          BY <1>1, <4>2, <5>2
        <5> QED
          BY <5>1, <5>2
      <4> QED
        BY <3>1, <4>1, <4>2
    <3> QED
      BY <3>2, <3>3
  <2> QED
    BY <1>3, <2>2, <2>3
<1>4. \A e \in Drives : Ea!Shaped(drive[e])'
  BY <1>2 DEF Ea!Shaped
<1>5. ASSUME NEW w \in Credited, NEW y \in Years
      PROVE  (Ea!Whole(w, y) /\ lists[<<"credits", w, y>>] # {} =>
                /\ y \in lists[<<"years", w>>] \/ \E e \in Drives : Ea!About(drive[e], w, y) /\ drive[e].stage = 2
                /\ w \in lists[<<"earners", y>>] \/ \E e \in Drives : Ea!About(drive[e], w, y) /\ drive[e].stage \in {2, 3})'
  BY <1>3 DEF Ea!About
<1>6. \A k \in {"credits", "withdrawals"}, w \in Credited, y \in Years : Ea!Once(lists[<<k, w, y>>])'
  BY DEF Ea!Once
<1> QED
  BY <1>1, <1>4, <1>5, <1>6 DEF Ea!EarningsInv

\* After a list comes the next one, the next worker or the end.
LEMMA AfterAList ==
  ASSUME NEW d \in Drives, Ea!Shaped(drive[d]), Ea!Running(d), NEW skipped \in BOOLEAN, NEW me, me = drive[d]
  PROVE  \E new : /\ new = Ea!After(d, skipped) /\ Ea!Shaped(new)
                  /\ me.stage < 3 /\ ~(me.stage = 1 /\ skipped) =>
                       \A w, y : Ea!About(me, w, y) => Ea!About(new, w, y) /\ new.stage = me.stage + 1
<1>1. /\ me = [at |-> me.at, of |-> me.of, year |-> me.year, todo |-> me.todo, stage |-> me.stage, read |-> me.read]
      /\ me.of = [kind |-> me.of.kind, id |-> me.of.id, amount |-> me.of.amount] /\ me.of.kind \in {"credits", "withdrawals"}
      /\ me.year \in Years /\ me.todo \in Seq(Credited) /\ me.todo # <<>> /\ me.stage \in 1..3 /\ me.at \in {"read", "write"}
  BY DEF Ea!Shaped, Ea!Running
<1>2. CASE me.stage < 3 /\ ~(me.stage = 1 /\ skipped)
  <2>1. PICK r1 : r1 = [me EXCEPT !.at = "read"]
    OBVIOUS
  <2>2. r1 = [at |-> "read", of |-> me.of, year |-> me.year, todo |-> me.todo, stage |-> me.stage, read |-> me.read]
    BY <1>1, <2>1
  <2>3. PICK r2 : r2 = [r1 EXCEPT !.stage = @ + 1]
    OBVIOUS
  <2>4. r2 = [at |-> "read", of |-> me.of, year |-> me.year, todo |-> me.todo, stage |-> me.stage + 1, read |-> me.read]
    BY <2>2, <2>3
  <2>5. PICK new : new = [r2 EXCEPT !.read = {}]
    OBVIOUS
  <2>6. new = [at |-> "read", of |-> me.of, year |-> me.year, todo |-> me.todo, stage |-> me.stage + 1, read |-> {}]
    BY <2>4, <2>5
  <2>7. new = [me EXCEPT !.at = "read", !.stage = @ + 1, !.read = {}]
    BY <2>1, <2>3, <2>5, Zenon
  <2>8. new = Ea!After(d, skipped)
    BY <1>2, <2>7, Zenon DEF Ea!After
  <2>9. me.stage + 1 \in 1..3
    BY <1>1, <1>2
  <2>10. Ea!Shaped(new)
    BY <1>1, <2>6, <2>9 DEF Ea!Shaped
  <2>11. \A w, y : Ea!About(me, w, y) => Ea!About(new, w, y) /\ new.stage = me.stage + 1
    BY <2>6 DEF Ea!About
  <2> QED
    BY <2>8, <2>10, <2>11
<1>3. CASE ~(me.stage < 3 /\ ~(me.stage = 1 /\ skipped)) /\ Tail(me.todo) = <<>>
  <2>1. PICK new : new = [Ea!Idle EXCEPT !.at = "done"]
    OBVIOUS
  <2>2. new = [at |-> "done", of |-> None, year |-> None, todo |-> <<>>, stage |-> 1, read |-> {}]
    BY <2>1 DEF Ea!Idle
  <2>3. new = Ea!After(d, skipped)
    BY <1>3, <2>1, Zenon DEF Ea!After
  <2>4. Ea!Shaped(new)
    BY <2>2 DEF Ea!Shaped
  <2> QED
    BY <1>3, <2>3, <2>4
<1>4. CASE ~(me.stage < 3 /\ ~(me.stage = 1 /\ skipped)) /\ Tail(me.todo) # <<>>
  <2>1. PICK r1 : r1 = [me EXCEPT !.at = "read"]
    OBVIOUS
  <2>2. r1 = [at |-> "read", of |-> me.of, year |-> me.year, todo |-> me.todo, stage |-> me.stage, read |-> me.read]
    BY <1>1, <2>1
  <2>3. PICK r2 : r2 = [r1 EXCEPT !.stage = 1]
    OBVIOUS
  <2>4. r2 = [at |-> "read", of |-> me.of, year |-> me.year, todo |-> me.todo, stage |-> 1, read |-> me.read]
    BY <2>2, <2>3
  <2>5. PICK r3 : r3 = [r2 EXCEPT !.todo = Tail(me.todo)]
    OBVIOUS
  <2>6. r3 = [at |-> "read", of |-> me.of, year |-> me.year, todo |-> Tail(me.todo), stage |-> 1, read |-> me.read]
    BY <2>4, <2>5
  <2>7. PICK new : new = [r3 EXCEPT !.read = {}]
    OBVIOUS
  <2>8. new = [at |-> "read", of |-> me.of, year |-> me.year, todo |-> Tail(me.todo), stage |-> 1, read |-> {}]
    BY <2>6, <2>7
  <2>9. new = [me EXCEPT !.at = "read", !.stage = 1, !.todo = Tail(me.todo), !.read = {}]
    BY <2>1, <2>3, <2>5, <2>7, Zenon
  <2>10. new = Ea!After(d, skipped)
    BY <1>4, <2>9, Zenon DEF Ea!After
  <2>11. PICK rest : rest = Tail(me.todo) /\ rest \in Seq(Credited) /\ rest # <<>>
    <3>1. \A s \in Seq(Credited) : s # <<>> => Tail(s) \in Seq(Credited)
      OBVIOUS
    <3> QED
      BY <1>1, <1>4, <3>1
  <2>12. Ea!Shaped(new)
    BY <1>1, <2>8, <2>11 DEF Ea!Shaped
  <2> QED
    BY <1>4, <2>10, <2>12
<1> QED
  BY <1>2, <1>3, <1>4

\* The key and the record of the list a recording is at.
LEMMA ListAt ==
  ASSUME NEW d \in Drives, Ea!Shaped(drive[d]), Ea!Running(d), NEW me, me = drive[d]
  PROVE  \E w \in Credited, y \in Years, k \in {"credits", "withdrawals"} :
           /\ w = Head(me.todo) /\ y = me.year /\ k = me.of.kind
           /\ me.stage = 1 => Ea!KeyOf(d) = <<k, w, y>> /\ Ea!Item(d) = [id |-> me.of.id, by |-> d, amount |-> me.of.amount]
           /\ me.stage = 2 => Ea!KeyOf(d) = <<"years", w>> /\ Ea!Item(d) = y
           /\ me.stage = 3 => Ea!KeyOf(d) = <<"earners", y>> /\ Ea!Item(d) = w
           /\ Ea!KeyOf(d) \in Ea!Keys /\ me.stage \in 1..3
<1>1. /\ me.of.kind \in {"credits", "withdrawals"}
      /\ me.year \in Years /\ me.todo \in Seq(Credited) /\ me.todo # <<>> /\ me.stage \in 1..3
  BY DEF Ea!Shaped, Ea!Running
<1>2. PICK w, y, k : w = Head(me.todo) /\ y = me.year /\ k = me.of.kind
  OBVIOUS
<1>3. \A s \in Seq(Credited) : s # <<>> => Head(s) \in Credited
  OBVIOUS
<1>4. w \in Credited /\ y \in Years /\ k \in {"credits", "withdrawals"}
  BY <1>1, <1>2, <1>3
<1>5. me.stage = 1 => Ea!KeyOf(d) = <<k, w, y>> /\ Ea!Item(d) = [id |-> me.of.id, by |-> d, amount |-> me.of.amount]
  BY <1>2 DEF Ea!KeyOf, Ea!Item
<1>6. me.stage = 2 => Ea!KeyOf(d) = <<"years", w>> /\ Ea!Item(d) = y
  BY <1>2 DEF Ea!KeyOf, Ea!Item
<1>7. me.stage = 3 => Ea!KeyOf(d) = <<"earners", y>> /\ Ea!Item(d) = w
  BY <1>2 DEF Ea!KeyOf, Ea!Item
<1>8. me.stage = 1 \/ me.stage = 2 \/ me.stage = 3
  BY <1>1
<1>9. Ea!KeyOf(d) \in Ea!Keys
  BY <1>4, <1>5, <1>6, <1>7, <1>8, LedgerKeysAre
<1> QED
  BY <1>1, <1>2, <1>4, <1>5, <1>6, <1>7, <1>9

\* A recording that starts is at the first list of its first worker.
LEMMA StartKeeps ==
  ASSUME Ea!EarningsInv, NEW d \in Drives, drive[d].at = "idle", NEW new, drive' = [drive EXCEPT ![d] = new],
         Ea!Shaped(new), lists' = lists, torn' = torn
  PROVE  Ea!EarningsInv'
<1>1. DOMAIN lists' = Ea!Keys /\ torn \subseteq torn' /\ torn' \subseteq Ea!Keys
  BY DEF Ea!EarningsInv
<1>2. \A k \in {"credits", "withdrawals"}, w \in Credited, y \in Years : Ea!Once(lists'[<<k, w, y>>])
  BY DEF Ea!EarningsInv
<1>3. \A w, y : ~Ea!About(drive[d], w, y)
  BY DEF Ea!About
<1> QED
  BY <1>1, <1>2, <1>3, RecordingKeeps

LEMMA EarningsCreditsKeep ==
  ASSUME Ea!EarningsAssumption, Ea!EarningsInv, NEW d \in Drives, NEW q \in Questions, NEW year \in Years,
         Ea!RecordWorkerCredits(d, q, year)
  PROVE  Ea!EarningsInv'
<1> PICK share : share = Ea!WorkerShare(Amount[q], Ea!Cardinality(Matching[q]))
  OBVIOUS
<1> PICK todo : todo = Ea!SetToSeq(Matching[q])
  OBVIOUS
<1>1. /\ drive[d].at = "idle" /\ lists' = lists /\ torn' = torn
  BY DEF Ea!RecordWorkerCredits
<1>2. CASE share <= 0
  <2>1. PICK new : new = [Ea!Idle EXCEPT !.at = "done"]
    OBVIOUS
  <2>2. new = [at |-> "done", of |-> None, year |-> None, todo |-> <<>>, stage |-> 1, read |-> {}]
    BY <2>1 DEF Ea!Idle
  <2>3. drive' = [drive EXCEPT ![d] = new]
    BY <1>2, <2>1, Zenon DEF Ea!RecordWorkerCredits
  <2>4. Ea!Shaped(new)
    BY <2>2, DoneIsShaped
  <2> QED
    BY <1>1, <2>3, <2>4, StartKeeps
<1>3. CASE ~(share <= 0)
  <2>1. PICK of : of = [kind |-> "credits", id |-> q, amount |-> share]
    OBVIOUS
  <2>2. PICK r1 : r1 = [Ea!Idle EXCEPT !.at = "read"]
    OBVIOUS
  <2>3. r1 = [at |-> "read", of |-> None, year |-> None, todo |-> <<>>, stage |-> 1, read |-> {}]
    BY <2>2 DEF Ea!Idle
  <2>4. PICK r2 : r2 = [r1 EXCEPT !.year = year]
    OBVIOUS
  <2>5. r2 = [at |-> "read", of |-> None, year |-> year, todo |-> <<>>, stage |-> 1, read |-> {}]
    BY <2>3, <2>4
  <2>6. PICK r3 : r3 = [r2 EXCEPT !.todo = todo]
    OBVIOUS
  <2>7. r3 = [at |-> "read", of |-> None, year |-> year, todo |-> todo, stage |-> 1, read |-> {}]
    BY <2>5, <2>6
  <2>8. PICK new : new = [r3 EXCEPT !.of = of]
    OBVIOUS
  <2>9. new = [at |-> "read", of |-> of, year |-> year, todo |-> todo, stage |-> 1, read |-> {}]
    BY <2>7, <2>8
  <2>10. new = [Ea!Idle EXCEPT !.at = "read", !.year = year, !.todo = todo, !.of = of]
    BY <2>2, <2>4, <2>6, <2>8, Zenon
  <2>11. drive' = [drive EXCEPT ![d] = new]
    BY <1>3, <2>1, <2>10, Zenon DEF Ea!RecordWorkerCredits
  <2>12. todo \in Seq(Credited) /\ todo # <<>>
    <3>1. PICK n : n = Cardinality(Matching[q]) /\ n = Ea!Cardinality(Matching[q])
      BY LedgerCardinality
    <3>2. IsFiniteSet(Matching[q]) /\ Matching[q] \subseteq Credited
      <4>1. IsFiniteSet(Credited) /\ Matching[q] \subseteq Credited
        BY LedgerCardinality DEF Ea!EarningsAssumption
      <4> QED
        BY <4>1, FS_Subset
    <3>3. n \in Nat /\ n # 0
      <4>1. n \in Nat
        BY <3>1, <3>2, FS_CardinalityType
      <4>2. n = 0 => share = 0
        BY <3>1 DEF Ea!WorkerShare
      <4> QED
        BY <1>3, <4>1, <4>2
    <3>4. \E f \in [1..n -> Matching[q]] : Ea!IsInjective(f)
      <4>1. ExistsBijection(1..n, Matching[q])
        BY <3>1, <3>2, FS_CardinalityType
      <4> QED
        BY <4>1 DEF ExistsBijection, Bijection, Injection, IsInjective, Ea!IsInjective
    <3>5. todo \in [1..n -> Matching[q]]
      BY <3>1, <3>4 DEF Ea!SetToSeq
    <3>6. todo \in Seq(Credited) /\ Len(todo) = n
      BY <3>2, <3>3, <3>5
    <3> QED
      BY <3>3, <3>6
  <2>13. Ea!Shaped(new)
    BY <2>1, <2>9, <2>12 DEF Ea!Shaped
  <2> QED
    BY <1>1, <2>11, <2>13, StartKeeps
<1> QED
  BY <1>2, <1>3

LEMMA EarningsWithdrawalKeeps ==
  ASSUME Ea!EarningsInv, NEW d \in Drives, NEW w \in Credited, NEW year \in Years, Ea!RecordWorkerWithdrawal(d, w, year)
  PROVE  Ea!EarningsInv'
<1>1. drive[d].at = "idle" /\ lists' = lists /\ torn' = torn
  BY DEF Ea!RecordWorkerWithdrawal
<1>2. PICK of, todo : of = [kind |-> "withdrawals", id |-> d, amount |-> 1] /\ todo = <<w>>
  OBVIOUS
<1>3. PICK r1 : r1 = [Ea!Idle EXCEPT !.at = "read"]
  OBVIOUS
<1>4. r1 = [at |-> "read", of |-> None, year |-> None, todo |-> <<>>, stage |-> 1, read |-> {}]
  BY <1>3 DEF Ea!Idle
<1>5. PICK r2 : r2 = [r1 EXCEPT !.year = year]
  OBVIOUS
<1>6. r2 = [at |-> "read", of |-> None, year |-> year, todo |-> <<>>, stage |-> 1, read |-> {}]
  BY <1>4, <1>5
<1>7. PICK r3 : r3 = [r2 EXCEPT !.todo = todo]
  OBVIOUS
<1>8. r3 = [at |-> "read", of |-> None, year |-> year, todo |-> todo, stage |-> 1, read |-> {}]
  BY <1>6, <1>7
<1>9. PICK new : new = [r3 EXCEPT !.of = of]
  OBVIOUS
<1>10. new = [at |-> "read", of |-> of, year |-> year, todo |-> todo, stage |-> 1, read |-> {}]
  BY <1>8, <1>9
<1>11. new = [Ea!Idle EXCEPT !.at = "read", !.year = year, !.todo = todo, !.of = of]
  BY <1>3, <1>5, <1>7, <1>9, Zenon
<1>12. drive' = [drive EXCEPT ![d] = new]
  BY <1>2, <1>11, Zenon DEF Ea!RecordWorkerWithdrawal
<1>13. todo \in Seq(Credited) /\ todo # <<>>
  BY <1>2
<1>14. Ea!Shaped(new)
  BY <1>2, <1>10, <1>13 DEF Ea!Shaped
<1> QED
  BY <1>1, <1>12, <1>14, StartKeeps

\* What it has yet to put into the index, it has not after it looked.
LEMMA ReadListKeeps ==
  ASSUME Ea!EarningsInv, NEW d \in Drives, Ea!ReadList(d)
  PROVE  Ea!EarningsInv'
<1> PICK me : me = drive[d]
  OBVIOUS
<1>1. /\ me.at = "read" /\ Ea!Running(d) /\ Ea!Shaped(drive[d]) /\ lists' = lists /\ torn' = torn
      /\ drive' = [drive EXCEPT ![d] = IF Ea!Has(d) THEN Ea!After(d, TRUE) ELSE [@ EXCEPT !.at = "write", !.read = lists[Ea!KeyOf(d)]]]
  BY DEF Ea!ReadList, Ea!Running, Ea!EarningsInv
<1>a. PICK w \in Credited, y \in Years, k \in {"credits", "withdrawals"} :
           /\ w = Head(me.todo) /\ y = me.year /\ k = me.of.kind
           /\ me.stage = 1 => Ea!KeyOf(d) = <<k, w, y>> /\ Ea!Item(d) = [id |-> me.of.id, by |-> d, amount |-> me.of.amount]
           /\ me.stage = 2 => Ea!KeyOf(d) = <<"years", w>> /\ Ea!Item(d) = y
           /\ me.stage = 3 => Ea!KeyOf(d) = <<"earners", y>> /\ Ea!Item(d) = w
           /\ Ea!KeyOf(d) \in Ea!Keys /\ me.stage \in 1..3
  BY <1>1, ListAt
<1>2. DOMAIN lists' = Ea!Keys /\ torn \subseteq torn' /\ torn' \subseteq Ea!Keys
  BY <1>1 DEF Ea!EarningsInv
<1>3. \A l \in {"credits", "withdrawals"}, v \in Credited, x \in Years : Ea!Once(lists'[<<l, v, x>>])
  BY <1>1 DEF Ea!EarningsInv
<1>4. \A v, x : Ea!About(me, v, x) => v = w /\ x = y
  BY <1>a DEF Ea!About
<1>5. CASE Ea!Has(d)
  <2>1. PICK new : /\ new = Ea!After(d, TRUE) /\ Ea!Shaped(new)
                   /\ me.stage < 3 /\ ~(me.stage = 1 /\ TRUE) =>
                        \A v, x : Ea!About(me, v, x) => Ea!About(new, v, x) /\ new.stage = me.stage + 1
    BY <1>1, AfterAList
  <2>2. drive' = [drive EXCEPT ![d] = new]
    BY <1>1, <1>5, <2>1
  <2>3. me.stage = 2 => y \in lists[<<"years", w>>]
    BY <1>5, <1>a DEF Ea!Has
  <2>4. me.stage = 3 => w \in lists[<<"earners", y>>]
    BY <1>5, <1>a DEF Ea!Has
  <2>5. me.stage = 2 => \A v, x : Ea!About(me, v, x) => Ea!About(new, v, x) /\ new.stage = 3
    <3>1. ASSUME me.stage = 2, NEW v, NEW x, Ea!About(me, v, x) PROVE Ea!About(new, v, x) /\ new.stage = me.stage + 1
      <4>1. me.stage < 3 /\ me.stage # 1
        BY <3>1
      <4> QED
        BY <2>1, <3>1, <4>1
    <3> QED
      BY <3>1
  <2>6. \A v \in Credited, x \in Years : Ea!About(drive[d], v, x) =>
          /\ drive[d].stage = 2 => x \in lists'[<<"years", v>>] \/ (Ea!About(new, v, x) /\ new.stage = 2)
          /\ drive[d].stage \in {2, 3} => v \in lists'[<<"earners", x>>] \/ (Ea!About(new, v, x) /\ new.stage \in {2, 3})
    BY <1>1, <1>4, <2>3, <2>4, <2>5
  <2> HIDE <1>a
  <2> QED
    BY <1>1, <1>2, <1>3, <2>1, <2>2, <2>6, RecordingKeeps
<1>6. CASE ~Ea!Has(d)
  <2>1. PICK r1 : r1 = [me EXCEPT !.at = "write"]
    OBVIOUS
  <2>2. me = [at |-> me.at, of |-> me.of, year |-> me.year, todo |-> me.todo, stage |-> me.stage, read |-> me.read]
    BY <1>1 DEF Ea!Shaped
  <2>3. r1 = [at |-> "write", of |-> me.of, year |-> me.year, todo |-> me.todo, stage |-> me.stage, read |-> me.read]
    BY <2>1, <2>2
  <2>4. PICK new : new = [r1 EXCEPT !.read = lists[Ea!KeyOf(d)]]
    OBVIOUS
  <2>5. new = [at |-> "write", of |-> me.of, year |-> me.year, todo |-> me.todo, stage |-> me.stage, read |-> lists[Ea!KeyOf(d)]]
    BY <2>3, <2>4
  <2>6. new = [me EXCEPT !.at = "write", !.read = lists[Ea!KeyOf(d)]]
    BY <2>1, <2>4, Zenon
  <2>7. drive' = [drive EXCEPT ![d] = new]
    BY <1>1, <1>6, <2>6, Zenon
  <2>8. me.stage = 1 => Ea!Once(lists[Ea!KeyOf(d)]) /\ \A r \in lists[Ea!KeyOf(d)] : r.id # me.of.id
    BY <1>6, <1>a DEF Ea!Has, Ea!EarningsInv
  <2>9. Ea!Shaped(new)
    BY <1>1, <2>5, <2>8 DEF Ea!Shaped
  <2>10. \A v, x : Ea!About(me, v, x) <=> Ea!About(new, v, x)
    BY <1>1, <2>5 DEF Ea!About
  <2>11. new.stage = me.stage
    BY <2>5
  <2>12. \A v \in Credited, x \in Years : Ea!About(drive[d], v, x) =>
          /\ drive[d].stage = 2 => x \in lists'[<<"years", v>>] \/ (Ea!About(new, v, x) /\ new.stage = 2)
          /\ drive[d].stage \in {2, 3} => v \in lists'[<<"earners", x>>] \/ (Ea!About(new, v, x) /\ new.stage \in {2, 3})
    BY <2>10, <2>11
  <2> QED
    BY <1>1, <1>2, <1>3, <2>7, <2>9, <2>12, RecordingKeeps
<1> QED
  BY <1>5, <1>6

\* What is written adds no second record of an id, and grows a list unless another wrote it.
LEMMA WriteListKeeps ==
  ASSUME Ea!EarningsInv, NEW d \in Drives, Ea!WriteList(d)
  PROVE  Ea!EarningsInv'
<1> PICK me : me = drive[d]
  OBVIOUS
<1> PICK key, item : key = Ea!KeyOf(d) /\ item = Ea!Item(d)
  OBVIOUS
<1>1. /\ me.at = "write" /\ Ea!Running(d) /\ Ea!Shaped(drive[d])
      /\ lists' = [lists EXCEPT ![key] = me.read \cup {item}]
      /\ torn' = (IF lists[key] = me.read THEN torn ELSE torn \cup {key})
      /\ drive' = [drive EXCEPT ![d] = Ea!After(d, FALSE)]
  BY DEF Ea!WriteList, Ea!Running, Ea!EarningsInv
<1>a. PICK w \in Credited, y \in Years, k \in {"credits", "withdrawals"} :
           /\ w = Head(me.todo) /\ y = me.year /\ k = me.of.kind
           /\ me.stage = 1 => key = <<k, w, y>> /\ item = [id |-> me.of.id, by |-> d, amount |-> me.of.amount]
           /\ me.stage = 2 => key = <<"years", w>> /\ item = y
           /\ me.stage = 3 => key = <<"earners", y>> /\ item = w
           /\ key \in Ea!Keys /\ me.stage \in 1..3
  BY <1>1, ListAt
<1>2. /\ DOMAIN lists' = Ea!Keys /\ lists'[key] = me.read \cup {item} /\ \A l \in Ea!Keys \ {key} : lists'[l] = lists[l]
      /\ torn \subseteq torn' /\ torn' \subseteq Ea!Keys
  BY <1>1, <1>a DEF Ea!EarningsInv
<1>3. \A l \in Ea!Keys : l \notin torn' => lists[l] \subseteq lists'[l]
  BY <1>1, <1>2
<1>b. PICK new : /\ new = Ea!After(d, FALSE) /\ Ea!Shaped(new)
                 /\ me.stage < 3 /\ ~(me.stage = 1 /\ FALSE) =>
                      \A v, x : Ea!About(me, v, x) => Ea!About(new, v, x) /\ new.stage = me.stage + 1
  BY <1>1, AfterAList
<1>4. /\ me.stage = 1 => \A v, x : Ea!About(me, v, x) => Ea!About(new, v, x) /\ new.stage = 2
      /\ me.stage = 2 => \A v, x : Ea!About(me, v, x) => Ea!About(new, v, x) /\ new.stage = 3
  <2>1. ASSUME me.stage \in {1, 2}, NEW v, NEW x, Ea!About(me, v, x) PROVE Ea!About(new, v, x) /\ new.stage = me.stage + 1
    <3>1. me.stage < 3
      BY <2>1
    <3> QED
      BY <1>b, <2>1, <3>1
  <2> QED
    BY <2>1
<1>5. drive' = [drive EXCEPT ![d] = new]
  BY <1>1, <1>b
<1>6. (\A v, x : Ea!About(me, v, x) => v = w /\ x = y) /\ Ea!About(me, w, y)
  BY <1>1, <1>a DEF Ea!About
<1>7. \A l \in {"credits", "withdrawals"}, v \in Credited, x \in Years : Ea!Once(lists'[<<l, v, x>>])
  <2> SUFFICES ASSUME NEW l \in {"credits", "withdrawals"}, NEW v \in Credited, NEW x \in Years PROVE Ea!Once(lists'[<<l, v, x>>])
    OBVIOUS
  <2>1. Ea!Once(lists[<<l, v, x>>]) /\ <<l, v, x>> \in Ea!Keys
    BY LedgerKeysAre DEF Ea!EarningsInv
  <2>2. CASE <<l, v, x>> # key
    BY <1>2, <2>1, <2>2
  <2>3. CASE <<l, v, x>> = key
    <3>1. me.stage = 1
      BY <1>a, <2>3, LedgerKeys
    <3>2. Ea!Once(me.read) /\ \A r \in me.read : r.id # me.of.id
      BY <1>1, <3>1 DEF Ea!Shaped
    <3>3. item.id = me.of.id
      BY <1>a, <3>1
    <3>4. Ea!Once(me.read \cup {item})
      BY <3>2, <3>3 DEF Ea!Once
    <3> QED
      BY <1>2, <2>3, <3>4
  <2> QED
    BY <2>2, <2>3
<1>8. ASSUME NEW v \in Credited, NEW x \in Years, Ea!Whole(v, x)'
      PROVE  /\ lists[<<"years", v>>] \subseteq lists'[<<"years", v>>] /\ lists[<<"earners", x>>] \subseteq lists'[<<"earners", x>>]
             /\ \/ lists'[<<"credits", v, x>>] = {} \/ lists[<<"credits", v, x>>] # {}
                \/ Ea!About(new, v, x) /\ new.stage = 2
             /\ Ea!About(drive[d], v, x) =>
                  /\ drive[d].stage = 2 => x \in lists'[<<"years", v>>] \/ (Ea!About(new, v, x) /\ new.stage = 2)
                  /\ drive[d].stage \in {2, 3} => v \in lists'[<<"earners", x>>] \/ (Ea!About(new, v, x) /\ new.stage \in {2, 3})
  <2>1. <<"credits", v, x>> \in Ea!Keys /\ <<"years", v>> \in Ea!Keys /\ <<"earners", x>> \in Ea!Keys
    BY LedgerKeysAre
  <2>2. <<"years", v>> \notin torn' /\ <<"earners", x>> \notin torn'
    BY <1>8 DEF Ea!Whole
  <2>3. lists[<<"years", v>>] \subseteq lists'[<<"years", v>>] /\ lists[<<"earners", x>>] \subseteq lists'[<<"earners", x>>]
    BY <1>3, <2>1, <2>2
  <2>4. \/ lists'[<<"credits", v, x>>] = {} \/ lists[<<"credits", v, x>>] # {} \/ (Ea!About(new, v, x) /\ new.stage = 2)
    <3>1. CASE key # <<"credits", v, x>>
      BY <1>2, <2>1, <3>1
    <3>2. CASE key = <<"credits", v, x>>
      <4>1. me.stage = 1 /\ v = w /\ x = y
        BY <1>a, <3>2, LedgerKeys
      <4> QED
        BY <1>4, <1>6, <4>1
    <3> QED
      BY <3>1, <3>2
  <2>5. ASSUME Ea!About(me, v, x)
        PROVE  /\ me.stage = 2 => x \in lists'[<<"years", v>>]
               /\ me.stage = 3 => v \in lists'[<<"earners", x>>]
               /\ me.stage = 2 => Ea!About(new, v, x) /\ new.stage = 3
    <3>1. v = w /\ x = y
      BY <1>6, <2>5
    <3>2. me.stage = 2 => x \in lists'[<<"years", v>>]
      BY <1>2, <1>a, <3>1
    <3>3. me.stage = 3 => v \in lists'[<<"earners", x>>]
      BY <1>2, <1>a, <3>1
    <3> QED
      BY <1>4, <2>5, <3>2, <3>3
  <2> QED
    BY <2>3, <2>4, <2>5
<1> HIDE <1>a, <1>b
<1>9. Ea!Shaped(new)
  BY <1>b
<1> QED
  BY <1>2, <1>5, <1>7, <1>8, <1>9, RecordingKeeps

\* A recording that fails leaves the lists it had yet to write torn.
LEMMA FailsKeeps ==
  ASSUME Ea!EarningsInv, NEW d \in Drives, Ea!RecordingFails(d)
  PROVE  Ea!EarningsInv'
<1> PICK me : me = drive[d]
  OBVIOUS
<1> PICK new : new = [Ea!Idle EXCEPT !.at = "done"]
  OBVIOUS
<1>1. /\ Ea!Running(d) /\ Ea!Shaped(drive[d]) /\ lists' = lists /\ drive' = [drive EXCEPT ![d] = new]
      /\ torn' = torn \cup {<<me.of.kind, v, me.year>> : v \in Ea!ToSet(me.todo)}
                     \cup {<<"years", Head(me.todo)>>, <<"earners", me.year>>}
  BY Zenon DEF Ea!RecordingFails, Ea!EarningsInv
<1>2. new = [at |-> "done", of |-> None, year |-> None, todo |-> <<>>, stage |-> 1, read |-> {}]
  BY DEF Ea!Idle
<1>3. Ea!Shaped(new)
  BY <1>2, DoneIsShaped
<1>4. me.of.kind \in {"credits", "withdrawals"} /\ me.year \in Years /\ me.todo \in Seq(Credited) /\ me.todo # <<>>
  BY <1>1 DEF Ea!Shaped, Ea!Running
<1>5. DOMAIN lists' = Ea!Keys /\ torn \subseteq torn' /\ torn' \subseteq Ea!Keys
  <2>1. \A v \in Ea!ToSet(me.todo) : v \in Credited
    BY <1>4 DEF Ea!ToSet
  <2>2. \A s \in Seq(Credited) : s # <<>> => Head(s) \in Credited
    OBVIOUS
  <2>3. Head(me.todo) \in Credited
    BY <1>4, <2>2
  <2>4. \A v \in Ea!ToSet(me.todo) : <<me.of.kind, v, me.year>> \in Ea!Keys
    BY <1>4, <2>1, LedgerKeysAre
  <2>5. <<"years", Head(me.todo)>> \in Ea!Keys /\ <<"earners", me.year>> \in Ea!Keys
    BY <1>4, <2>3, LedgerKeysAre
  <2> QED
    BY <1>1, <2>4, <2>5 DEF Ea!EarningsInv
<1>6. \A l \in {"credits", "withdrawals"}, v \in Credited, x \in Years : Ea!Once(lists'[<<l, v, x>>])
  BY <1>1 DEF Ea!EarningsInv
<1>7. \A v, x : Ea!About(me, v, x) => ~Ea!Whole(v, x)'
  <2> SUFFICES ASSUME NEW v, NEW x, Ea!About(me, v, x) PROVE <<"earners", x>> \in torn'
    BY DEF Ea!Whole
  <2> QED
    BY <1>1 DEF Ea!About
<1> QED
  BY <1>1, <1>3, <1>5, <1>6, <1>7, RecordingKeeps

LEMMA EarningsStep == Ea!EarningsAssumption /\ Ea!EarningsInv /\ [Ea!Next]_(Ea!vars) => Ea!EarningsInv'
<1> SUFFICES ASSUME Ea!EarningsAssumption, Ea!EarningsInv, [Ea!Next]_(Ea!vars) PROVE Ea!EarningsInv'
  OBVIOUS
<1>1. ASSUME UNCHANGED <<lists, drive, torn>> PROVE Ea!EarningsInv'
  BY <1>1 DEF Ea!EarningsInv, Ea!Whole, Ea!Once, Ea!Shaped, Ea!About
<1>2. CASE UNCHANGED Ea!vars
  BY <1>1, <1>2 DEF Ea!vars
<1>3. ASSUME NEW w, NEW p, Ea!SaveTaxProfile(w, p) PROVE Ea!EarningsInv'
  BY <1>1, <1>3 DEF Ea!SaveTaxProfile
<1> QED
  BY <1>2, <1>3, EarningsCreditsKeep, EarningsWithdrawalKeeps, ReadListKeeps, WriteListKeeps, FailsKeeps DEF Ea!Next

LEMMA LedgerIsWhole == ASSUME Ea!EarningsInv PROVE Ea!LedgerHolds
<1>1. Ea!CreditedOnceAYear
  BY DEF Ea!EarningsInv, Ea!Once, Ea!CreditedOnceAYear
<1>2. Ea!EarnersIndexed
  BY DEF Ea!EarningsInv, Ea!EarnersIndexed, Ea!About, Ea!Running
<1> QED
  BY <1>1, <1>2 DEF Ea!LedgerHolds

\* The ledger has one credit of a question for a worker, and once all is recorded every worker
\* with a credit is among the year's earners, unless recordings crossed or failed (earnings.js).
THEOREM LedgerIsRight == ASSUME Ea!EarningsAssumption PROVE Ea!Spec => []Ea!LedgerHolds
<1>1. Ea!Init => Ea!EarningsInv
  BY EarningsInit
<1>2. Ea!EarningsInv /\ [Ea!Next]_(Ea!vars) => Ea!EarningsInv'
  BY EarningsStep
<1>3. Ea!EarningsInv => Ea!LedgerHolds
  BY LedgerIsWhole
<1> QED
  BY <1>1, <1>2, <1>3, PTL DEF Ea!Spec
===============================================================================
