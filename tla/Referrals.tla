------------------------------ MODULE Referrals ------------------------------
(***************************************************************************)
(* Referral codes: minting and redeeming them (referrals.js) and crediting *)
(* a worker for the first payment of a payer (payerReferrals.js).  Keys    *)
(* are claimed with setNX and uses counted with incrBy; a request stops at *)
(* every await in between.  The bounded lists of referees and payers are   *)
(* only shown, but written from a copy like every such list.               *)
(***************************************************************************)
EXTENDS Integers, FiniteSets

CONSTANTS Workers, Payers, Codes,
          Requests,
          Seasoned,     \* workers with answer history
          MaxUses,      \* config.referrals.maxUsesPerCode
          Attempts,     \* MAX_MINT_ATTEMPTS
          Reward, None

ReferralAssumption ==
  /\ MaxUses \in Nat /\ Attempts \in Nat \ {0} /\ Reward \in Nat
  /\ IsFiniteSet(Workers) /\ IsFiniteSet(Payers) /\ IsFiniteSet(Requests)
  /\ None \notin Workers \cup Codes

VARIABLES owner,        \* referral-code:<code>, the address it is of
          codeOf,       \* referral-owner:<address>
          uses,         \* referral-uses:<code>
          redeemed,     \* referral-by:<referee>, the code
          referees,     \* referral-referees:<owner>
          payerOf,      \* payer-referrer:<payer>, the worker
          earned,       \* payer-referral-earnings:<worker>
          req

stored == <<owner, codeOf, uses, redeemed, referees, payerOf, earned>>
vars == <<stored, req>>

Idle == [at |-> "idle", who |-> None, code |-> None, left |-> Attempts, read |-> {}, answer |-> None]
Init == /\ owner = [k \in Codes |-> None] /\ codeOf = [w \in Workers |-> None]
        /\ uses = [k \in Codes |-> 0] /\ redeemed = [w \in Workers |-> None]
        /\ referees = [w \in Workers |-> {}] /\ payerOf = [p \in Payers |-> None]
        /\ earned = [w \in Workers |-> 0] /\ req = [r \in Requests |-> Idle]

To(r, step) == req' = [req EXCEPT ![r].at = step]
End(r, answer) == req' = [req EXCEPT ![r].at = "answered", ![r].answer = answer]
SetNX(key, at, value) == IF key[at] = None THEN [key EXCEPT ![at] = value] ELSE key
Start(r, step, who, code) ==
  /\ req[r].at = "idle"
  /\ req' = [req EXCEPT ![r] = [Idle EXCEPT !.at = step, !.who = who, !.code = code]]
  /\ UNCHANGED stored

\* A code can be redeemed once somebody was told of it.
Shared(k) == \E r \in Requests : req[r].at = "answered" /\ req[r].answer = k

----------------------------------------------------------------------------
\* getOrCreateReferralCode()
Mint(r, w) == Start(r, "own?", w, None)

Owned(r) ==
  /\ req[r].at = "own?"
  /\ IF codeOf[req[r].who] # None THEN End(r, codeOf[req[r].who]) ELSE To(r, "mint")
  /\ UNCHANGED stored

\* A random candidate is claimed, and drawn again if it is taken.
ClaimCode(r, k) ==
  /\ req[r].at = "mint"
  /\ owner' = SetNX(owner, k, req[r].who)
  /\ req' = [req EXCEPT ![r] = IF owner[k] = None THEN [@ EXCEPT !.at = "claim", !.code = k]
             ELSE [@ EXCEPT !.left = req[r].left - 1, !.at = IF req[r].left > 1 THEN "mint" ELSE "answered"]]
  /\ UNCHANGED <<codeOf, uses, redeemed, referees, payerOf, earned>>

\* The owner's key decides; whoever loses drops its candidate.
ClaimOwner(r) ==
  /\ req[r].at = "claim"
  /\ codeOf' = SetNX(codeOf, req[r].who, req[r].code)
  /\ IF codeOf[req[r].who] = None THEN End(r, req[r].code) ELSE To(r, "discard")
  /\ UNCHANGED <<owner, uses, redeemed, referees, payerOf, earned>>

Discard(r) ==
  /\ req[r].at = "discard" /\ To(r, "own?")
  /\ owner' = [owner EXCEPT ![req[r].code] = None]
  /\ UNCHANGED <<codeOf, uses, redeemed, referees, payerOf, earned>>

----------------------------------------------------------------------------
\* redeemReferralCode(): who may redeem is read first, then a use is reserved.
Redeem(r, w, k) == Shared(k) /\ Start(r, "redeem", w, k)

MayRedeem(r) ==
  /\ req[r].at = "redeem"
  /\ IF \/ redeemed[req[r].who] # None \/ owner[req[r].code] \in {None, req[r].who}
        \/ req[r].who \in Seasoned
     THEN End(r, None) ELSE To(r, "reserve")
  /\ UNCHANGED stored

MutantReserveUse(r) ==  \* a refused use is not given back
  /\ req[r].at = "reserve"
  /\ uses' = [uses EXCEPT ![req[r].code] = @ + 1]
  /\ To(r, IF uses[req[r].code] < MaxUses THEN "attach" ELSE "answered")
  /\ UNCHANGED <<owner, codeOf, redeemed, referees, payerOf, earned>>

ReserveUse(r) ==
  /\ req[r].at = "reserve"
  /\ uses' = [uses EXCEPT ![req[r].code] = @ + 1]
  /\ To(r, IF uses[req[r].code] < MaxUses THEN "attach" ELSE "return")
  /\ UNCHANGED <<owner, codeOf, redeemed, referees, payerOf, earned>>

Attach(r) ==
  /\ req[r].at = "attach"
  /\ redeemed' = SetNX(redeemed, req[r].who, req[r].code)
  /\ To(r, IF redeemed[req[r].who] = None THEN "list" ELSE "return")
  /\ UNCHANGED <<owner, codeOf, uses, referees, payerOf, earned>>

ReturnUse(r) ==
  /\ req[r].at = "return" /\ End(r, None)
  /\ uses' = [uses EXCEPT ![req[r].code] = @ - 1]
  /\ UNCHANGED <<owner, codeOf, redeemed, referees, payerOf, earned>>

\* pushBounded()
ReadList(r) ==
  /\ req[r].at = "list" /\ UNCHANGED stored
  /\ req' = [req EXCEPT ![r].at = "push", ![r].read = referees[owner[req[r].code]]]

PushBounded(r) ==
  /\ req[r].at = "push" /\ End(r, req[r].code)
  /\ referees' = [referees EXCEPT ![owner[req[r].code]] = req[r].read \cup {req[r].who}]
  /\ UNCHANGED <<owner, codeOf, uses, redeemed, payerOf, earned>>

----------------------------------------------------------------------------
\* recordFirstPaymentReferral(): the caller says it is a first payment.
FirstPayment(r, p, k) == Shared(k) /\ Start(r, "pay", p, k)

Attributable(r) ==
  /\ req[r].at = "pay"
  /\ IF payerOf[req[r].who] # None \/ owner[req[r].code] \in {None, req[r].who}
     THEN End(r, None) ELSE To(r, "attribute")
  /\ UNCHANGED stored

Attribute(r) ==
  /\ req[r].at = "attribute"
  /\ payerOf' = SetNX(payerOf, req[r].who, owner[req[r].code])
  /\ IF payerOf[req[r].who] = None THEN To(r, "credit") ELSE End(r, None)
  /\ UNCHANGED <<owner, codeOf, uses, redeemed, referees, earned>>

CreditReferrer(r) ==
  /\ req[r].at = "credit" /\ End(r, req[r].code)
  /\ earned' = [earned EXCEPT ![owner[req[r].code]] = @ + Reward]
  /\ UNCHANGED <<owner, codeOf, uses, redeemed, referees, payerOf>>

Next == \E r \in Requests :
  \/ Owned(r) \/ ClaimOwner(r) \/ Discard(r) \/ MayRedeem(r) \/ ReserveUse(r) \/ Attach(r)
  \/ ReturnUse(r) \/ ReadList(r) \/ PushBounded(r) \/ Attributable(r) \/ Attribute(r) \/ CreditReferrer(r)
  \/ \E w \in Workers : Mint(r, w) \/ \E k \in Codes : Redeem(r, w, k)
  \/ \E k \in Codes : ClaimCode(r, k) \/ \E p \in Payers : FirstPayment(r, p, k)

Spec == Init /\ [][Next]_vars

----------------------------------------------------------------------------
Minting == {"own?", "mint", "claim", "discard"}
Redeeming == {"redeem", "reserve", "attach", "return", "list", "push"}
Paying == {"pay", "attribute", "credit"}
ReqRecords == [at : {"idle", "answered"} \cup Minting \cup Redeeming \cup Paying,
               who : Workers \cup Payers \cup {None}, code : Codes \cup {None},
               left : 0..Attempts, read : SUBSET Workers, answer : Codes \cup {None}]

TypeOK ==
  /\ owner \in [Codes -> Workers \cup {None}] /\ codeOf \in [Workers -> Codes \cup {None}]
  /\ uses \in [Codes -> 0..MaxUses + Cardinality(Requests)]
  /\ redeemed \in [Workers -> Codes \cup {None}] /\ payerOf \in [Payers -> Workers \cup {None}]
  /\ referees \in [Workers -> SUBSET Workers] /\ earned \in [Workers -> Nat]
  /\ req \in [Requests -> ReqRecords]

\* A use is counted for every redemption of a code and for every request that
\* still holds one, so the cap is never overshot and no use is lost.
UsesAreAccounted == \A k \in Codes :
  LET kept == {w \in Workers : redeemed[w] = k}
  IN /\ uses[k] = Cardinality(kept)
          + Cardinality({r \in Requests : req[r].code = k /\ req[r].at \in {"attach", "return"}})
     /\ Cardinality(kept) <= MaxUses

\* Each payer brings one worker one reward, however many first payments race.
CreditedOnce == \A w \in Workers :
  earned[w] + Reward * Cardinality({r \in Requests : req[r].at = "credit" /\ owner[req[r].code] = w})
    = Reward * Cardinality({p \in Payers : payerOf[p] = w})

\* Everybody who asked for an owner's code was told the same one, and it is the
\* owner's: a candidate that lost the race is never handed out.
OneCodePerOwner == \A r \in Requests :
  req[r].at = "answered" /\ req[r].answer # None => codeOf[owner[req[r].answer]] = req[r].answer

\* The inductive invariant of the three.  A code that anybody was told of is its
\* owner's for good; a candidate under way is its request's alone, and nobody's
\* code yet; and the uses that were granted never exceed the limit, so that no
\* redemption that holds one can be too many.
Standing(k) == owner[k] # None /\ codeOf[owner[k]] = k
CodesHold ==
  /\ \A w \in Workers : codeOf[w] # None => owner[codeOf[w]] = w
  /\ \A r \in Requests : req[r].at = "answered" /\ req[r].answer # None => Standing(req[r].answer)
RequestsHold == \A r \in Requests :
  /\ req[r].at \in Minting => req[r].who \in Workers /\ req[r].left > 0 /\ req[r].answer = None
  /\ req[r].at \in {"claim", "discard"} =>
       /\ req[r].code \in Codes /\ owner[req[r].code] = req[r].who
       /\ codeOf[req[r].who] # req[r].code
       /\ \A s \in Requests \ {r} : req[s].at \in {"claim", "discard"} => req[s].code # req[r].code
  /\ req[r].at \in Redeeming \cup Paying => req[r].code \in Codes /\ Standing(req[r].code)
  /\ req[r].at \in Redeeming => req[r].who \in Workers
  /\ req[r].at \in Paying => req[r].who \in Payers
Granted(k) == {r \in Requests : req[r].code = k /\ req[r].at = "attach"}
LimitHolds == \A k \in Codes :
  Cardinality({w \in Workers : redeemed[w] = k}) + Cardinality(Granted(k)) <= MaxUses

ReferralsInv == /\ TypeOK /\ CodesHold /\ RequestsHold /\ LimitHolds
                /\ UsesAreAccounted /\ CreditedOnce
=============================================================================
