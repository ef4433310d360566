---------------------------- MODULE BillingProofs ----------------------------
(***************************************************************************)
(* The credit ledger, for any number of calls, deliveries and events: the  *)
(* balance is never negative, a reversal never debits twice, and the books *)
(* balance after every step.                                               *)
(*                                                                         *)
(* The books are sums, and what a ledger needs to know of SumFunction      *)
(* (Functions of the community modules) comes first: that it is a number,  *)
(* zero for zeros, and changes by what one value of the function changes   *)
(* by.  The induction theorems of the library take an operator as          *)
(* parameter.  WFMin does not: it gives a least element of a set, and so   *)
(* an induction is stated here of the set T of numbers, or of subsets, it  *)
(* has reached.                                                            *)
(***************************************************************************)
EXTENDS Billing, FiniteSetTheorems, WellFoundedInduction, TLAPS

-----------------------------------------------------------------------------
(* Sums *)

\* Induction on the naturals, stated of the set of numbers it has reached.
LEMMA CountingUp ==
  ASSUME NEW T, 0 \in T, \A n \in Nat : n \in T => n + 1 \in T
  PROVE  Nat \subseteq T
<1> SUFFICES ASSUME Nat \ T # {} PROVE FALSE
  OBVIOUS
<1> DEFINE R == OpToRel(<, Nat)
<1>1. \A m, n \in Nat : m < n => <<m, n>> \in R
  BY DEF OpToRel
<1>2. PICK x \in Nat \ T : \A y \in Nat \ T : <<y, x>> \notin R
  <2> HIDE DEF R
  <2>1. IsWellFoundedOn(R, Nat)
    BY NatLessThanWellFounded DEF R
  <2> QED
    BY <2>1, WFMin
<1> HIDE DEF R
<1>3. x - 1 \in Nat /\ x - 1 < x
  BY <1>2
<1>4. x - 1 \in T
  BY <1>1, <1>2, <1>3
<1> QED
  BY <1>2, <1>3, <1>4

\* The element the library's folds take from a set next.
Pick(s) == CHOOSE x \in s : TRUE

\* The subsets of D with n elements or fewer, and what a sum of f is over each.
Small(D, n) == {s \in SUBSET D : Cardinality(s) <= n}
Sums(f, s, F) == IF s = {} THEN 0 ELSE f[Pick(s)] + F[s \ {Pick(s)}]

\* Taking that element away leaves a smaller subset.
LEMMA PickSmaller ==
  ASSUME NEW D, IsFiniteSet(D), NEW s \in SUBSET D, s # {}
  PROVE  /\ Pick(s) \in s /\ s \ {Pick(s)} \in SUBSET D
         /\ IsFiniteSet(s) /\ Cardinality(s) \in Nat
         /\ Cardinality(s \ {Pick(s)}) = Cardinality(s) - 1
<1>1. Pick(s) \in s
  BY DEF Pick
<1>2. IsFiniteSet(s)
  BY FS_Subset
<1> QED
  BY <1>1, <1>2, FS_RemoveElement, FS_CardinalityType

\* There are such sums: from those over small subsets to those over larger ones.
LEMMA SumsExist ==
  ASSUME NEW D, IsFiniteSet(D), NEW f \in [D -> Int]
  PROVE  \E F \in [SUBSET D -> Int] : \A s \in SUBSET D : F[s] = Sums(f, s, F)
<1> DEFINE Defined(n) == \E F \in [Small(D, n) -> Int] : \A s \in Small(D, n) : F[s] = Sums(f, s, F)
           T == {n \in Nat : Defined(n)}
<1>1. 0 \in T
  <2>1. ASSUME NEW s \in Small(D, 0) PROVE s = {}
    BY FS_Subset, FS_EmptySet, FS_CardinalityType DEF Small
  <2>2. [s \in Small(D, 0) |-> 0] \in [Small(D, 0) -> Int]
    OBVIOUS
  <2>3. \A s \in Small(D, 0) : [x \in Small(D, 0) |-> 0][s] = Sums(f, s, [x \in Small(D, 0) |-> 0])
    BY <2>1 DEF Sums
  <2> QED
    BY <2>2, <2>3
<1>2. ASSUME NEW n \in Nat, n \in T PROVE n + 1 \in T
  <2> PICK F \in [Small(D, n) -> Int] : \A s \in Small(D, n) : F[s] = Sums(f, s, F)
    BY <1>2
  <2> DEFINE G == [s \in Small(D, n + 1) |-> Sums(f, s, F)]
  <2>1. ASSUME NEW s \in Small(D, n + 1), s # {}
        PROVE  Pick(s) \in D /\ s \ {Pick(s)} \in Small(D, n)
    BY <2>1, PickSmaller DEF Small
  <2>2. G \in [Small(D, n + 1) -> Int]
    <3> SUFFICES ASSUME NEW s \in Small(D, n + 1) PROVE Sums(f, s, F) \in Int
      OBVIOUS
    <3>1. CASE s = {}
      BY <3>1 DEF Sums
    <3>2. CASE s # {}
      BY <3>2, <2>1 DEF Sums
    <3> QED
      BY <3>1, <3>2
  <2>3. ASSUME NEW s \in Small(D, n) PROVE s \in Small(D, n + 1) /\ G[s] = F[s]
    <3>1. s \in Small(D, n + 1)
      BY FS_Subset, FS_CardinalityType DEF Small
    <3> QED
      BY <3>1
  <2>4. ASSUME NEW s \in Small(D, n + 1) PROVE G[s] = Sums(f, s, G)
    <3>1. CASE s = {}
      BY <3>1 DEF Sums
    <3>2. CASE s # {}
      <4>1. G[s \ {Pick(s)}] = F[s \ {Pick(s)}]
        BY <3>2, <2>1, <2>3
      <4> QED
        BY <3>2, <4>1 DEF Sums
    <3> QED
      BY <3>1, <3>2
  <2> HIDE DEF G
  <2> QED
    BY <2>2, <2>4
<1>3. Nat \subseteq T
  <2> HIDE DEF T
  <2> QED
    BY <1>1, <1>2, CountingUp
<1>4. Cardinality(D) \in Nat /\ Small(D, Cardinality(D)) = SUBSET D
  BY FS_Subset, FS_CardinalityType DEF Small
<1> QED
  BY <1>3, <1>4

\* A fact of the empty set that adding an element keeps holds of every subset.
LEMMA BySize ==
  ASSUME NEW D, IsFiniteSet(D), NEW T, {} \in T,
         \A s \in SUBSET D : s # {} /\ s \ {Pick(s)} \in T => s \in T
  PROVE  SUBSET D \subseteq T
<1> DEFINE N == {n \in Nat : Small(D, n) \subseteq T}
<1>1. 0 \in N
  <2>1. ASSUME NEW s \in Small(D, 0) PROVE s = {}
    BY FS_Subset, FS_EmptySet, FS_CardinalityType DEF Small
  <2> QED
    BY <2>1
<1>2. ASSUME NEW n \in Nat, n \in N PROVE n + 1 \in N
  <2> SUFFICES ASSUME NEW s \in Small(D, n + 1), s # {} PROVE s \in T
    OBVIOUS
  <2>1. s \ {Pick(s)} \in Small(D, n)
    BY PickSmaller DEF Small
  <2> QED
    BY <2>1, <1>2 DEF Small
<1>3. Nat \subseteq N
  <2> HIDE DEF N
  <2> QED
    BY <1>1, <1>2, CountingUp
<1>4. Cardinality(D) \in Nat /\ Small(D, Cardinality(D)) = SUBSET D
  BY FS_Subset, FS_CardinalityType DEF Small
<1> QED
  BY <1>3, <1>4

\* What the library's fold over a function computes, by the equation that defines it.
FoldOf(f, D, F) ==
  F = [s \in SUBSET D |-> IF s = {} THEN 0
                          ELSE f[CHOOSE x \in s : TRUE] + F[s \ {CHOOSE x \in s : TRUE}]]

\* SumFunction is one of them, for all that it is defined with a CHOOSE.
LEMMA SumIsSums ==
  ASSUME NEW D, IsFiniteSet(D), NEW f \in [D -> Int]
  PROVE  \E F \in [SUBSET D -> Int] : /\ \A s \in SUBSET D : F[s] = Sums(f, s, F)
                                      /\ SumFunction(f) = F[D]
<1> DEFINE iter == CHOOSE F : FoldOf(f, D, F)
<1>1. SumFunction(f) = iter[D]
  BY DEF SumFunction, SumFunctionOnSet, FoldFunctionOnSet, MapThenFoldSet, FoldOf
<1>2. PICK F \in [SUBSET D -> Int] : \A s \in SUBSET D : F[s] = Sums(f, s, F)
  BY SumsExist
<1>3. FoldOf(f, D, F)
  <2>1. F = [s \in SUBSET D |-> F[s]]
    OBVIOUS
  <2> QED
    BY <1>2, <2>1 DEF FoldOf, Sums, Pick
<1>4. FoldOf(f, D, iter)
  <2>1. \E G : FoldOf(f, D, G)
    BY <1>3
  <2> QED
    BY <2>1, Zenon
<1> HIDE DEF iter
<1>5. \A s \in SUBSET D : iter[s] = Sums(f, s, iter)
  BY <1>4 DEF FoldOf, Sums, Pick
<1> DEFINE T == {s \in SUBSET D : iter[s] = F[s]}
<1>6. SUBSET D \subseteq T
  <2>1. {} \in T
    BY <1>2, <1>5 DEF Sums
  <2>2. ASSUME NEW s \in SUBSET D, s # {}, s \ {Pick(s)} \in T
        PROVE  s \in T
    BY <2>2, <1>2, <1>5 DEF Sums
  <2> HIDE DEF T
  <2> QED
    BY <2>1, <2>2, BySize
<1>7. iter[D] = F[D]
  BY <1>6
<1> QED
  BY <1>1, <1>2, <1>7

\* The sum of numbers is a number.
LEMMA SumIsNumber ==
  ASSUME NEW D, IsFiniteSet(D), NEW f \in [D -> Int]
  PROVE  SumFunction(f) \in Int
<1>1. PICK F \in [SUBSET D -> Int] : SumFunction(f) = F[D]
  BY SumIsSums
<1> QED
  BY <1>1

\* The sum of zeros.
LEMMA SumOfZeros ==
  ASSUME NEW D, IsFiniteSet(D), NEW f \in [D -> Int], \A x \in D : f[x] = 0
  PROVE  SumFunction(f) = 0
<1>1. PICK F \in [SUBSET D -> Int] : /\ \A s \in SUBSET D : F[s] = Sums(f, s, F)
                                     /\ SumFunction(f) = F[D]
  BY SumIsSums
<1> DEFINE T == {s \in SUBSET D : F[s] = 0}
<1>2. {} \in T
  BY <1>1 DEF Sums
<1>3. ASSUME NEW s \in SUBSET D, s # {}, s \ {Pick(s)} \in T
      PROVE  s \in T
  <2>1. Pick(s) \in D
    BY <1>3, PickSmaller
  <2> QED
    BY <1>1, <1>3, <2>1 DEF Sums
<1>4. SUBSET D \subseteq T
  <2> HIDE DEF T
  <2> QED
    BY <1>2, <1>3, BySize
<1> QED
  BY <1>1, <1>4

\* Changing a function at one point changes its sum by as much.
LEMMA SumChanges ==
  ASSUME NEW D, IsFiniteSet(D), NEW f \in [D -> Int], NEW g \in [D -> Int],
         NEW d \in D, \A x \in D : x # d => g[x] = f[x]
  PROVE  /\ SumFunction(f) \in Int /\ SumFunction(g) \in Int
         /\ SumFunction(g) = SumFunction(f) + (g[d] - f[d])
<1>1. PICK F \in [SUBSET D -> Int] : /\ \A s \in SUBSET D : F[s] = Sums(f, s, F)
                                     /\ SumFunction(f) = F[D]
  BY SumIsSums
<1>2. PICK G \in [SUBSET D -> Int] : /\ \A s \in SUBSET D : G[s] = Sums(g, s, G)
                                     /\ SumFunction(g) = G[D]
  BY SumIsSums
<1> DEFINE T == {s \in SUBSET D : G[s] = F[s] + (IF d \in s THEN g[d] - f[d] ELSE 0)}
<1>3. {} \in T
  <2>1. F[{}] = 0 /\ G[{}] = 0
    BY <1>1, <1>2 DEF Sums
  <2>2. {} \in SUBSET D /\ d \notin {}
    OBVIOUS
  <2>3. G[{}] = F[{}] + (IF d \in {} THEN g[d] - f[d] ELSE 0)
    BY <2>1, <2>2
  <2> QED
    BY <2>2, <2>3
<1>4. ASSUME NEW s \in SUBSET D, s # {}, s \ {Pick(s)} \in T
      PROVE  s \in T
  <2> DEFINE p == Pick(s)
             r == s \ {p}
  <2>1. p \in s /\ p \in D /\ r \in SUBSET D
    BY <1>4, PickSmaller
  <2>2. F[s] = f[p] + F[r] /\ G[s] = g[p] + G[r]
    BY <1>1, <1>2, <1>4 DEF Sums
  <2>3. /\ f[p] \in Int /\ g[p] \in Int /\ F[r] \in Int /\ G[r] \in Int
        /\ f[d] \in Int /\ g[d] \in Int
    BY <1>1, <1>2, <2>1
  <2>4. G[r] = F[r] + (IF d \in r THEN g[d] - f[d] ELSE 0)
    BY <1>4
  <2> HIDE DEF p
  <2>5. CASE p = d
    <3>1. d \notin r /\ d \in s
      BY <2>1, <2>5
    <3>2. G[r] = F[r]
      BY <2>3, <2>4, <3>1
    <3>3. G[s] = F[s] + (g[d] - f[d])
      <4>1. F[s] = f[d] + F[r] /\ G[s] = g[d] + F[r]
        BY <2>2, <2>5, <3>2
      <4> HIDE DEF r
      <4> QED
        BY <2>3, <4>1
    <3> QED
      BY <1>4, <3>1, <3>3
  <2>6. CASE p # d
    <3>1. g[p] = f[p] /\ (d \in s <=> d \in r)
      BY <2>1, <2>6
    <3> QED
      BY <2>2, <2>3, <2>4, <3>1
  <2> QED
    BY <2>5, <2>6
<1>5. SUBSET D \subseteq T
  <2> HIDE DEF T
  <2> QED
    BY <1>3, <1>4, BySize
<1>6. G[D] = F[D] + (g[d] - f[d]) /\ F[D] \in Int /\ G[D] \in Int
  BY <1>5
<1> QED
  BY <1>1, <1>2, <1>6

-----------------------------------------------------------------------------
(* The ledger *)

\* A fresh account satisfies the invariant.
LEMMA LedgerInit == Init => LedgerInv
<1> SUFFICES ASSUME Init PROVE LedgerInv
  OBVIOUS
<1>1. TypeOK
  <2>1. /\ pc \in [Requests -> Active \cup {"idle", "refused", "answered", "failed",
                                          "applied", "ignored", "dead"}]
        /\ attempt \in [Deliveries -> 0..Attempts]
        /\ debited \in [Deliveries -> Nat]
        /\ balance \in [Deliveries -> Int]
    BY AttemptsAssumption DEF Init
  <2>2. /\ credit \in Int /\ seen \subseteq Events
        /\ reversals \subseteq Deliveries
        /\ of \in [Deliveries -> Events]
    BY DEF Init
  <2>4. mapped \in BOOLEAN
    BY Zenon DEF Init
  <2>3. /\ charged \in [Calls -> Prices \cup {0}]
        /\ asked \in [Calls -> BOOLEAN] /\ returned \in [Calls -> BOOLEAN]
        /\ listed \in [Deliveries -> SUBSET Deliveries]
    BY DEF Init
  <2> QED
    BY <2>1, <2>2, <2>3, <2>4 DEF TypeOK
<1>2. NeverNegative
  BY DEF Init, NeverNegative
<1>3. \A d \in Deliveries :
        /\ pc[d] = "idle" /\ balance[d] = 0 /\ attempt[d] = 0 /\ debited[d] = 0
        /\ attempt[d] < Attempts
        /\ ~Processing(d)
  BY AttemptsAssumption DEF Init, Requests, Processing, DeliverySteps
<1>4. \A c \in Calls : ~returned[c] /\ ~asked[c]
  BY DEF Init
<1> QED
  BY <1>1, <1>2, <1>3, <1>4 DEF LedgerInv

\* The steps of a call leave the deliveries alone and keep the balance paid for.
LEMMA CallStepKeeps ==
  ASSUME LedgerInv, NEW c \in Calls,
         \/ ReserveCredit(c) \/ Charge(c) \/ CreateQuestion(c)
         \/ SettleReservation(c) \/ GiveBack(c) \/ RestoreCredit(c)
  PROVE  LedgerInv'
<1> DEFINE Ended == {"idle", "refused", "answered", "failed", "applied", "ignored", "dead"}
<1>1. credit' \in Int /\ credit' >= 0
  <2>1. credit \in Int /\ credit >= 0 /\ MaxPrice \in Nat
    BY PricesAssumption DEF LedgerInv, TypeOK, NeverNegative
  <2>2. charged[c] \in Int /\ 0 <= charged[c] /\ charged[c] <= MaxPrice
    <3>1. charged[c] \in Prices \cup {0}
      BY DEF LedgerInv, TypeOK
    <3>2. CASE charged[c] = 0
      BY <3>2, <2>1
    <3>3. CASE charged[c] \in 1..MaxPrice
      BY <3>3, <2>1
    <3> QED
      BY <3>1, <3>2, <3>3, PricesAssumption
  <2>3. \/ credit' = credit
        \/ credit >= MaxPrice /\ credit' = credit - MaxPrice
        \/ credit' = credit + (MaxPrice - charged[c])
        \/ credit' = credit + MaxPrice
        \/ credit' = credit + charged[c]
    BY DEF ReserveCredit, Charge, CreateQuestion, SettleReservation, GiveBack,
           RestoreCredit, storeVars
  <2> QED
    BY <2>1, <2>2, <2>3
<1>2. pc' \in [Requests -> Active \cup Ended]
  BY DEF LedgerInv, TypeOK, ReserveCredit, Charge, CreateQuestion, SettleReservation,
         GiveBack, RestoreCredit, Goto, Active, CallSteps, Requests
<1>3. \A d \in Deliveries : pc'[d] = pc[d]
  BY RequestsAssumption
  DEF LedgerInv, TypeOK, ReserveCredit, Charge, CreateQuestion, SettleReservation,
      GiveBack, RestoreCredit, Goto, Requests
<1>4. /\ charged' \in [Calls -> Prices \cup {0}]
      /\ asked' \in [Calls -> BOOLEAN]
      /\ returned' \in [Calls -> BOOLEAN]
  BY DEF LedgerInv, TypeOK, ReserveCredit, Charge, CreateQuestion, SettleReservation,
         GiveBack, RestoreCredit, callVars
<1>5. UNCHANGED <<seen, mapped, reversals, of, deliveryVars>>
  BY DEF ReserveCredit, Charge, CreateQuestion, SettleReservation, GiveBack,
         RestoreCredit, storeVars
<1>6. TypeOK'
  BY <1>1, <1>2, <1>4, <1>5 DEF LedgerInv, TypeOK, deliveryVars
<1>7. \A b \in Calls :
        /\ returned'[b] => asked'[b]
        /\ pc'[b] \in {"idle", "refused", "charge", "create"} => ~asked'[b]
  BY DEF LedgerInv, TypeOK, ReserveCredit, Charge, CreateQuestion, SettleReservation,
     GiveBack, RestoreCredit, Goto, At, callVars, Requests
<1> QED
  BY <1>1, <1>3, <1>5, <1>6, <1>7 DEF LedgerInv, NeverNegative, Processing, deliveryVars

\* The step of a delivery that lets its event through: nobody processed it yet.
LEMMA ReceiveKeeps ==
  ASSUME LedgerInv, NEW d \in Deliveries, Receive(d)
  PROVE  LedgerInv'
<1>1. TypeOK'
  BY DEF LedgerInv, TypeOK, Receive, Goto, At, Active, DeliverySteps, callVars,
         deliveryVars, Requests, Events
<1>2. \A e \in Deliveries : e # d => pc'[e] = pc[e]
  BY DEF LedgerInv, TypeOK, Receive, Goto, Requests
<1>3. ~Processing(d)
  BY DEF LedgerInv, TypeOK, Processing, Receive, At, DeliverySteps
<1>6. \A c \in Calls : pc'[c] = pc[c] /\ asked'[c] = asked[c] /\ returned'[c] = returned[c]
  BY RequestsAssumption DEF LedgerInv, TypeOK, Receive, Goto, Requests, callVars
<1>4. CASE of[d] \in seen
  <2>1. pc'[d] = "ignored" /\ seen' = seen
    BY <1>4 DEF LedgerInv, TypeOK, Receive, Goto, Requests
  <2> QED
    BY <1>1, <1>2, <1>3, <1>6, <2>1 DEF LedgerInv, NeverNegative, Processing, Receive,
       DeliverySteps, deliveryVars
<1>5. CASE of[d] \notin seen
  <2>1. /\ pc'[d] = (IF of[d] = Checkout THEN "map" ELSE "lookup")
        /\ seen' = seen \cup {of[d]}
    BY <1>5 DEF LedgerInv, TypeOK, Receive, Goto, Requests
  <2>2. \A e \in Deliveries : Processing(e) => of[e] # of[d]
    BY <1>5 DEF LedgerInv
  <2> QED
    BY <1>1, <1>2, <1>3, <1>6, <2>1, <2>2 DEF LedgerInv, NeverNegative, Processing,
       Receive, At, DeliverySteps, deliveryVars
<1> QED
  BY <1>4, <1>5

\* The later steps of a delivery: what is taken was there to be taken.
LEMMA DeliveryStepKeeps ==
  ASSUME LedgerInv, NEW d \in Deliveries,
         \/ MapPayment(d) \/ CreditCheckout(d) \/ Lookup(d) \/ ReadBalance(d)
         \/ TakeCredit(d) \/ ListReversals(d) \/ RecordReversal(d) \/ DeliveryThrows(d)
  PROVE  LedgerInv'
<1> USE EventsAssumption, AttemptsAssumption
<1>1. pc[d] \in DeliverySteps /\ Processing(d)
  BY DEF MapPayment, CreditCheckout, Lookup, ReadBalance, TakeCredit, ListReversals,
         RecordReversal, DeliveryThrows, At, DeliverySteps, Processing
<1>2. At(d, "take") => Take(d) \in Nat
  BY DEF LedgerInv, TypeOK, Take
<1>3. /\ credit' \in Int /\ credit' >= 0
      /\ debited' \in [Deliveries -> Nat]
      /\ balance' \in [Deliveries -> Int]
      /\ \A e \in Deliveries : balance'[e] >= 0
  BY <1>2 DEF LedgerInv, TypeOK, NeverNegative, MapPayment, CreditCheckout, Lookup,
     ReadBalance, TakeCredit, ListReversals, RecordReversal, DeliveryThrows, Forget,
     At, Events, storeVars, deliveryVars
<1>4. /\ pc' \in [Requests -> Active \cup {"idle", "refused", "answered", "failed",
                                          "applied", "ignored", "dead"}]
      /\ \A e \in Deliveries : e # d => pc'[e] = pc[e]
      /\ pc'[d] \notin {"idle", "lookup"}
  BY DEF LedgerInv, TypeOK, MapPayment, CreditCheckout, Lookup, ReadBalance, TakeCredit,
     ListReversals, RecordReversal, DeliveryThrows, Goto, Active, DeliverySteps, Requests
<1>5. /\ UNCHANGED <<seen, callVars, of>>
      /\ mapped' \in BOOLEAN
  BY DEF LedgerInv, TypeOK, MapPayment, CreditCheckout, Lookup, ReadBalance, TakeCredit,
     ListReversals, RecordReversal, DeliveryThrows, storeVars
<1>6. reversals' \subseteq Deliveries /\ listed' \in [Deliveries -> SUBSET Deliveries]
  BY DEF LedgerInv, TypeOK, MapPayment, CreditCheckout, Lookup, ReadBalance, TakeCredit,
     ListReversals, RecordReversal, DeliveryThrows, Forget, storeVars, deliveryVars
<1>7. /\ attempt' \in [Deliveries -> 0..Attempts]
      /\ \A e \in Deliveries : e # d => attempt'[e] = attempt[e] /\ debited'[e] = debited[e]
      /\ pc'[d] \in {"read", "take"} => attempt'[d] < Attempts /\ debited'[d] = 0
  BY DEF LedgerInv, TypeOK, MapPayment, CreditCheckout, Lookup, ReadBalance, TakeCredit,
     ListReversals, RecordReversal, DeliveryThrows, At, Goto, Requests, deliveryVars
<1>8. TypeOK'
  BY <1>3, <1>4, <1>5, <1>6, <1>7 DEF LedgerInv, TypeOK, callVars
<1>9. \A e \in Deliveries : Processing(e)' => Processing(e)
  BY <1>1, <1>4, <1>7 DEF Processing
<1>10. /\ pc'[d] \in {"map", "credit"} => of[d] = Checkout
       /\ pc'[d] \in {"lookup", "read", "take", "list", "record"} => of[d] # Checkout
  BY DEF LedgerInv, TypeOK, MapPayment, CreditCheckout, Lookup, ReadBalance, TakeCredit,
     ListReversals, RecordReversal, DeliveryThrows, At, Goto, Requests
<1>11. \A c \in Calls : pc'[c] = pc[c] /\ asked'[c] = asked[c] /\ returned'[c] = returned[c]
  BY <1>5, RequestsAssumption
  DEF LedgerInv, TypeOK, MapPayment, CreditCheckout, Lookup, ReadBalance, TakeCredit,
      ListReversals, RecordReversal, DeliveryThrows, Goto, Requests, callVars
<1> QED
  BY <1>3, <1>4, <1>5, <1>7, <1>8, <1>9, <1>10, <1>11 DEF LedgerInv, NeverNegative

\* A request that dies leaves the ledger as it is.
LEMMA CrashKeeps ==
  ASSUME LedgerInv, NEW r \in Requests, Crash(r)
  PROVE  LedgerInv'
<1>1. TypeOK'
  <2>1. pc' = [pc EXCEPT ![r] = "dead"]
    BY DEF Crash, Goto
  <2>2. pc' \in [Requests -> Active \cup {"idle", "refused", "answered", "failed",
                                        "applied", "ignored", "dead"}]
    BY <2>1 DEF LedgerInv, TypeOK
  <2>3. /\ balance' \in [Deliveries -> Int]
        /\ listed' \in [Deliveries -> SUBSET Deliveries]
    <3>1. /\ balance' = [balance EXCEPT ![r] = 0] /\ 0 \in Int
          /\ listed' = [listed EXCEPT ![r] = {}] /\ {} \in SUBSET Deliveries
      BY DEF Crash, Forget
    <3>2. balance \in [Deliveries -> Int] /\ listed \in [Deliveries -> SUBSET Deliveries]
      BY DEF LedgerInv, TypeOK
    <3>3. balance' \in [Deliveries -> Int]
      BY <3>1, <3>2
    <3>4. listed' \in [Deliveries -> SUBSET Deliveries]
      BY <3>1, <3>2, Zenon
    <3> QED
      BY <3>3, <3>4
  <2>4. UNCHANGED <<credit, seen, mapped, reversals, charged, asked, returned, of,
                    attempt, debited>>
    BY DEF Crash, callVars, storeVars
  <2> QED
    BY <2>2, <2>3, <2>4 DEF LedgerInv, TypeOK
<1>2. \A d \in Requests : pc'[d] = pc[d] \/ pc'[d] = "dead"
  BY DEF LedgerInv, TypeOK, Crash, Goto, Requests
<1>3. \A d \in Deliveries : balance'[d] >= 0
  BY DEF LedgerInv, TypeOK, Crash, Forget
<1>4. \A d \in Deliveries : Processing(d)' => Processing(d)
  BY <1>2 DEF Crash, Processing, DeliverySteps, Requests
<1> QED
  BY <1>1, <1>2, <1>3, <1>4
  DEF LedgerInv, NeverNegative, Crash, storeVars, callVars, Requests

LEMMA LedgerStep == LedgerInv /\ [Next]_vars => LedgerInv'
<1> SUFFICES ASSUME LedgerInv, [Next]_vars PROVE LedgerInv'
  OBVIOUS
<1>1. ASSUME NEW c \in Calls,
             \/ ReserveCredit(c) \/ Charge(c) \/ CreateQuestion(c)
             \/ SettleReservation(c) \/ GiveBack(c) \/ RestoreCredit(c)
      PROVE  LedgerInv'
  BY <1>1, CallStepKeeps
<1>2. ASSUME NEW d \in Deliveries, Receive(d) PROVE LedgerInv'
  BY <1>2, ReceiveKeeps
<1>3. ASSUME NEW d \in Deliveries,
             \/ MapPayment(d) \/ CreditCheckout(d) \/ Lookup(d) \/ ReadBalance(d)
             \/ TakeCredit(d) \/ ListReversals(d) \/ RecordReversal(d) \/ DeliveryThrows(d)
      PROVE  LedgerInv'
  BY <1>3, DeliveryStepKeeps
<1>4. ASSUME NEW r \in Requests, Crash(r) PROVE LedgerInv'
  BY <1>4, CrashKeeps
<1>5. CASE UNCHANGED vars
  BY <1>5 DEF vars, LedgerInv, TypeOK, NeverNegative, Processing
<1> QED
  BY <1>1, <1>2, <1>3, <1>4, <1>5 DEF Next

\* Every reachable ledger satisfies the invariant.
THEOREM LedgerInvariance == Spec => []LedgerInv
<1> QED
  BY LedgerInit, LedgerStep, PTL DEF Spec

\* The comment of reserveCredit(): the ledger never goes negative, with any mix
\* of calls, cancelled questions, top-ups and reversals on the account.
THEOREM LedgerNeverNegative == Spec => []NeverNegative
<1>1. LedgerInv => NeverNegative
  BY DEF LedgerInv
<1> QED
  BY <1>1, LedgerInvariance, PTL

\* A reversal that Stripe delivers again, even at the same time, debits once.
THEOREM ReversalDebitsOnce == Spec => []DebitedOnce
<1>1. LedgerInv => DebitedOnce
  <2> SUFFICES ASSUME LedgerInv, NEW d \in Deliveries, NEW e \in Deliveries,
                      d # e, of[d] = of[e], debited[d] > 0
               PROVE  debited[e] = 0
    BY DEF DebitedOnce
  <2>1. debited[e] \in Nat
    BY DEF LedgerInv, TypeOK
  <2>2. ~Processing(e)
    BY DEF LedgerInv, Processing
  <2> QED
    BY <2>1, <2>2 DEF Processing
<1> QED
  BY <1>1, LedgerInvariance, PTL

-----------------------------------------------------------------------------
(* The books *)

\* Both sums of the books are sums of numbers.
BooksType ==
  /\ \A c \in Calls : charged[c] \in Int /\ Cost(c) \in Int
  /\ Costs \in [Calls -> Int] /\ debited \in [Deliveries -> Int]
  /\ credit \in Int /\ PaidIn \in Int /\ MaxPrice \in Int

LEMMA BooksHaveType == LedgerInv => BooksType
<1> SUFFICES ASSUME LedgerInv PROVE BooksType
  OBVIOUS
<1>1. MaxPrice \in Int /\ \A c \in Calls : charged[c] \in Int
  <2>1. MaxPrice \in Int /\ Prices \cup {0} \subseteq Int
    BY PricesAssumption
  <2>2. \A c \in Calls : charged[c] \in Prices \cup {0}
    BY DEF LedgerInv, TypeOK
  <2> QED
    BY <2>1, <2>2
<1>2. \A c \in Calls : Cost(c) \in Int
  BY <1>1 DEF Cost
<1>3. PaidIn \in Int
  BY EventsAssumption DEF PaidIn, Events
<1>4. Costs \in [Calls -> Int]
  BY <1>2 DEF Costs
<1>5. debited \in [Deliveries -> Int] /\ credit \in Int
  BY DEF LedgerInv, TypeOK
<1> QED
  BY <1>1, <1>2, <1>3, <1>4, <1>5 DEF BooksType

\* So they are after the step.
LEMMA BooksKeepType == LedgerInv' => BooksType'
<1> QED
  BY BooksHaveType, PTL

\* What was paid in changes only when a checkout is applied.
LEMMA PaidInStays ==
  ASSUME LedgerInv, UNCHANGED of,
         \A d \in Deliveries :
           of[d] = Checkout => (pc'[d] = "applied" <=> pc[d] = "applied")
  PROVE  PaidIn' = PaidIn
<1>1. (\E d \in Deliveries : of[d] = Checkout /\ At(d, "applied"))'
        <=> \E d \in Deliveries : of[d] = Checkout /\ At(d, "applied")
  BY DEF At
<1> QED
  BY <1>1 DEF PaidIn

\* A step that moves the credit by what one call's cost falls keeps the books.
LEMMA CallKeepsBooks ==
  ASSUME LedgerInv, Accounted, LedgerInv', NEW c \in Calls,
         \A b \in Calls : b # c => Cost(b)' = Cost(b),
         credit' = credit + (Cost(c) - Cost(c)'),
         PaidIn' = PaidIn, debited' = debited
  PROVE  Accounted'
<1>1. /\ Costs \in [Calls -> Int] /\ Costs' \in [Calls -> Int]
      /\ Cost(c) \in Int /\ Cost(c)' \in Int /\ credit \in Int /\ PaidIn \in Int
      /\ debited \in [Deliveries -> Int]
  BY BooksHaveType, BooksKeepType DEF BooksType
<1>2. /\ \A b \in Calls : b # c => Costs'[b] = Costs[b]
      /\ Costs[c] = Cost(c) /\ Costs'[c] = Cost(c)'
  BY DEF Costs
<1>3. /\ SumFunction(Costs) \in Int
      /\ SumFunction(Costs') = SumFunction(Costs) + (Cost(c)' - Cost(c))
  BY <1>1, <1>2, SumChanges, RequestsAssumption
<1>4. SumFunction(debited) \in Int
  BY <1>1, RequestsAssumption, SumIsNumber
<1>5. credit = PaidIn - SumFunction(Costs) - SumFunction(debited)
  BY DEF Accounted
<1>6. credit' = PaidIn - SumFunction(Costs') - SumFunction(debited)
  BY <1>1, <1>3, <1>4, <1>5
<1> QED
  BY <1>6 DEF Accounted

\* A step that moves the credit by what one reversal takes keeps the books.
LEMMA DebitKeepsBooks ==
  ASSUME LedgerInv, Accounted, LedgerInv', NEW d \in Deliveries,
         \A e \in Deliveries : e # d => debited'[e] = debited[e],
         credit' = credit - (debited'[d] - debited[d]),
         PaidIn' = PaidIn, Costs' = Costs
  PROVE  Accounted'
<1>1. /\ Costs \in [Calls -> Int] /\ credit \in Int /\ PaidIn \in Int
      /\ debited \in [Deliveries -> Int] /\ debited' \in [Deliveries -> Int]
  BY BooksHaveType, BooksKeepType DEF BooksType
<1>2. /\ SumFunction(debited) \in Int
      /\ SumFunction(debited') = SumFunction(debited) + (debited'[d] - debited[d])
  BY <1>1, SumChanges, RequestsAssumption
<1>3. SumFunction(Costs) \in Int
  BY <1>1, RequestsAssumption, SumIsNumber
<1>4. debited[d] \in Int /\ debited'[d] \in Int
  BY <1>1
<1>5. credit = PaidIn - SumFunction(Costs) - SumFunction(debited)
  BY DEF Accounted
<1>6. credit' = PaidIn - SumFunction(Costs) - SumFunction(debited')
  BY <1>1, <1>2, <1>3, <1>4, <1>5
<1> QED
  BY <1>6 DEF Accounted

\* Each step of a call moves the credit by what its cost falls.
LEMMA CallAccounted ==
  ASSUME LedgerInv, Accounted, LedgerInv', NEW c \in Calls,
         \/ ReserveCredit(c) \/ Charge(c) \/ CreateQuestion(c)
         \/ SettleReservation(c) \/ GiveBack(c) \/ RestoreCredit(c)
  PROVE  Accounted'
<1>1. /\ \A d \in Deliveries : pc'[d] = pc[d]
      /\ \A b \in Calls : b # c => /\ pc'[b] = pc[b] /\ charged'[b] = charged[b]
                                   /\ returned'[b] = returned[b]
      /\ UNCHANGED <<of, debited>>
  BY RequestsAssumption
  DEF LedgerInv, TypeOK, ReserveCredit, Charge, CreateQuestion, SettleReservation,
      GiveBack, RestoreCredit, Goto, Requests, callVars, deliveryVars
<1>2. PaidIn' = PaidIn
  BY <1>1, PaidInStays
<1>3. \A b \in Calls : b # c => Cost(b)' = Cost(b)
  BY <1>1 DEF Cost, At
<1>4. credit' = credit + (Cost(c) - Cost(c)')
  <2>1. credit \in Int /\ MaxPrice \in Int /\ charged[c] \in Int /\ charged'[c] \in Int
    BY BooksHaveType, BooksKeepType DEF BooksType
  <2>2. CASE ReserveCredit(c)
    <3>1. /\ pc[c] = "idle" /\ pc'[c] \in {"charge", "refused"}
          /\ credit' = (IF pc'[c] = "charge" THEN credit - MaxPrice ELSE credit)
          /\ ~returned[c] /\ returned'[c] = returned[c] /\ charged'[c] = charged[c]
      BY <2>2 DEF LedgerInv, TypeOK, ReserveCredit, At, Goto, Requests, callVars
    <3> QED
      BY <2>1, <3>1 DEF Cost, At
  <2>3. CASE Charge(c)
    <3>1. /\ pc[c] = "charge" /\ pc'[c] \in {"create", "give_back"}
          /\ credit' = credit /\ ~returned[c] /\ returned'[c] = returned[c]
      BY <2>3 DEF LedgerInv, TypeOK, Charge, At, Goto, Requests, storeVars
    <3> QED
      BY <2>1, <3>1 DEF Cost, At
  <2>4. CASE CreateQuestion(c)
    <3>1. /\ pc[c] = "create" /\ pc'[c] \in {"settle", "give_back"}
          /\ credit' = credit /\ returned'[c] = returned[c] /\ charged'[c] = charged[c]
      BY <2>4 DEF LedgerInv, TypeOK, CreateQuestion, At, Goto, Requests, storeVars
    <3> QED
      BY <2>1, <3>1 DEF Cost, At
  <2>5. CASE SettleReservation(c)
    <3>1. /\ pc[c] = "settle" /\ pc'[c] \in {"answered", "give_back"}
          /\ credit' = (IF pc'[c] = "answered" THEN credit + (MaxPrice - charged[c])
                                               ELSE credit)
          /\ returned'[c] = returned[c] /\ charged'[c] = charged[c]
      BY <2>5 DEF LedgerInv, TypeOK, SettleReservation, At, Goto, Requests, callVars
    <3> QED
      BY <2>1, <3>1 DEF Cost, At
  <2>6. CASE GiveBack(c)
    <3>1. /\ pc[c] = "give_back" /\ pc'[c] \in {"failed", "dead"}
          /\ credit' = (IF pc'[c] = "failed" THEN credit + MaxPrice ELSE credit)
          /\ returned'[c] = returned[c] /\ charged'[c] = charged[c]
      BY <2>6 DEF LedgerInv, TypeOK, GiveBack, At, Goto, Requests, callVars
    <3> QED
      BY <2>1, <3>1 DEF Cost, At
  <2>7. CASE RestoreCredit(c)
    <3>1. /\ pc'[c] = pc[c] /\ credit' = credit + charged[c] /\ charged'[c] = charged[c]
          /\ ~returned[c] /\ returned'[c]
      BY <2>7 DEF LedgerInv, TypeOK, RestoreCredit
    <3> QED
      BY <2>1, <3>1 DEF Cost, At
  <2> QED
    BY <2>2, <2>3, <2>4, <2>5, <2>6, <2>7
<1> QED
  BY <1>1, <1>2, <1>3, <1>4, CallKeepsBooks

\* The steps of a delivery: a checkout is paid in once, what is taken is debited.
LEMMA DeliveryAccounted ==
  ASSUME LedgerInv, Accounted, LedgerInv', NEW d \in Deliveries,
         \/ Receive(d) \/ MapPayment(d) \/ CreditCheckout(d) \/ Lookup(d)
         \/ ReadBalance(d) \/ TakeCredit(d) \/ ListReversals(d) \/ RecordReversal(d)
         \/ DeliveryThrows(d)
  PROVE  Accounted'
<1>1. /\ \A r \in Requests : r # d => pc'[r] = pc[r]
      /\ UNCHANGED <<charged, asked, returned, of>>
      /\ \A e \in Deliveries : e # d => debited'[e] = debited[e]
  BY DEF LedgerInv, TypeOK, Receive, MapPayment, CreditCheckout, Lookup, ReadBalance,
     TakeCredit, ListReversals, RecordReversal, DeliveryThrows, Goto, Requests,
     callVars, deliveryVars, storeVars
<1>2. Costs' = Costs
  <2>1. \A c \in Calls : pc'[c] = pc[c]
    BY <1>1, RequestsAssumption DEF Requests
  <2>2. \A c \in Calls : Cost(c)' = Cost(c)
    BY <1>1, <2>1 DEF Cost, At
  <2> QED
    BY <2>2 DEF Costs
<1>3. CASE CreditCheckout(d)
  <2>1. /\ pc[d] = "credit" /\ pc'[d] = "applied" /\ of[d] = Checkout
        /\ credit' = credit + Amount[Checkout] /\ UNCHANGED <<of, debited>>
    BY <1>3 DEF LedgerInv, TypeOK, CreditCheckout, At, Goto, Requests, deliveryVars
  <2>2. \A e \in Deliveries : ~(of[e] = Checkout /\ At(e, "applied"))
    BY <2>1 DEF LedgerInv, Processing, DeliverySteps, At
  <2>3. PaidIn = 0
    BY <2>2 DEF PaidIn
  <2>4. PaidIn' = Amount[Checkout]
    BY <2>1 DEF PaidIn, At
  <2>5. /\ SumFunction(Costs) \in Int /\ SumFunction(debited) \in Int
        /\ credit \in Int /\ Amount[Checkout] \in Int
    BY BooksHaveType, SumIsNumber, RequestsAssumption, EventsAssumption
    DEF BooksType, Events
  <2>6. credit = 0 - SumFunction(Costs) - SumFunction(debited)
    BY <2>3 DEF Accounted
  <2>7. credit' = Amount[Checkout] - SumFunction(Costs) - SumFunction(debited)
    BY <2>1, <2>5, <2>6
  <2> QED
    BY <1>2, <2>1, <2>4, <2>7 DEF Accounted
<1>4. CASE ~CreditCheckout(d)
  <2>1. PaidIn' = PaidIn
    <3>1. of[d] = Checkout => (pc'[d] = "applied" <=> pc[d] = "applied")
      BY <1>4 DEF LedgerInv, TypeOK, Receive, MapPayment, Lookup, ReadBalance,
         TakeCredit, ListReversals, RecordReversal, DeliveryThrows, At, Goto, Requests,
         DeliverySteps
    <3> QED
      BY <1>1, <3>1, PaidInStays DEF Requests
  <2>2. credit' = credit - (debited'[d] - debited[d])
    <3>1. /\ credit \in Int /\ debited[d] \in Nat /\ Take(d) \in Int
          /\ debited \in [Deliveries -> Nat]
      BY EventsAssumption DEF LedgerInv, TypeOK, Take
    <3>2. CASE TakeCredit(d)
      <4>1. debited[d] = 0
        BY <3>2 DEF LedgerInv, TakeCredit, At
      <4>2. \/ credit' = credit - Take(d) /\ debited' = [debited EXCEPT ![d] = Take(d)]
            \/ UNCHANGED <<credit, debited>>
        BY <3>2 DEF TakeCredit
      <4>3. CASE credit' = credit - Take(d) /\ debited' = [debited EXCEPT ![d] = Take(d)]
        <5>1. debited'[d] = Take(d)
          BY <3>1, <4>3
        <5> QED
          BY <3>1, <4>1, <4>3, <5>1
      <4>4. CASE UNCHANGED <<credit, debited>>
        BY <3>1, <4>4
      <4> QED
        BY <4>2, <4>3, <4>4
    <3>3. CASE ~TakeCredit(d)
      <4>1. credit' = credit /\ debited' = debited
        BY <1>4, <3>3 DEF Receive, MapPayment, Lookup, ReadBalance, ListReversals,
           RecordReversal, DeliveryThrows, storeVars, deliveryVars
      <4> QED
        BY <3>1, <4>1
    <3> QED
      BY <3>2, <3>3
  <2> QED
    BY <1>1, <1>2, <2>1, <2>2, DebitKeepsBooks
<1> QED
  BY <1>3, <1>4

\* A request that dies after its reservation has cost the account all of it.
LEMMA CrashAccounted ==
  ASSUME LedgerInv, Accounted, NEW r \in Requests, Crash(r)
  PROVE  Accounted'
<1>1. /\ UNCHANGED <<credit, charged, returned, of, debited>>
      /\ pc[r] \in Active /\ pc' = [pc EXCEPT ![r] = "dead"]
      /\ pc \in [Requests -> Active \cup {"idle", "refused", "answered", "failed",
                                          "applied", "ignored", "dead"}]
  BY DEF Crash, Goto, callVars, storeVars, LedgerInv, TypeOK
<1>2. \A c \in Calls : Cost(c)' = Cost(c)
  <2> SUFFICES ASSUME NEW c \in Calls PROVE Cost(c)' = Cost(c)
    OBVIOUS
  <2>1. CASE c = r
    <3>1. /\ pc[c] \notin {"idle", "refused", "failed", "answered"}
          /\ pc'[c] \notin {"idle", "refused", "failed", "answered"}
      BY <1>1, <2>1 DEF Active, CallSteps, DeliverySteps, Requests
    <3> QED
      BY <1>1, <3>1 DEF Cost, At
  <2>2. CASE c # r
    <3>1. pc'[c] = pc[c]
      BY <1>1, <2>2 DEF Requests
    <3> QED
      BY <1>1, <3>1 DEF Cost, At
  <2> QED
    BY <2>1, <2>2
<1>3. Costs' = Costs
  BY <1>2 DEF Costs
<1>4. \A d \in Deliveries : pc'[d] = "applied" <=> pc[d] = "applied"
  BY <1>1 DEF Active, CallSteps, DeliverySteps, Requests
<1>5. PaidIn' = PaidIn
  BY <1>1, <1>4, PaidInStays
<1> QED
  BY <1>1, <1>3, <1>5 DEF Accounted

\* A fresh account has empty books.
LEMMA BooksInit == Init => Accounted
<1> SUFFICES ASSUME Init PROVE Accounted
  OBVIOUS
<1>1. LedgerInv
  BY LedgerInit
<1>2. PaidIn = 0 /\ credit = 0
  BY DEF PaidIn, At, Init, Requests
<1>3. \A d \in Deliveries : debited[d] = 0
  BY DEF Init
<1>4. \A c \in Calls : Costs[c] = 0
  <2> SUFFICES ASSUME NEW c \in Calls PROVE Cost(c) = 0
    BY DEF Costs
  <2>1. pc[c] = "idle" /\ ~returned[c]
    BY DEF Init, Requests
  <2> QED
    BY <2>1 DEF Cost, At
<1>5. SumFunction(Costs) = 0 /\ SumFunction(debited) = 0
  BY <1>1, <1>3, <1>4, BooksHaveType, SumOfZeros, RequestsAssumption DEF BooksType
<1> QED
  BY <1>2, <1>5 DEF Accounted

\* The credit is the payment, once, less what every call costs and every reversal
\* took, whatever is charged, cancelled, delivered again or dies on the way.
THEOREM BooksBalance == Spec => []Accounted
<1>1. LedgerInv /\ LedgerInv' /\ Accounted /\ [Next]_vars => Accounted'
  <2> SUFFICES ASSUME LedgerInv, LedgerInv', Accounted, [Next]_vars PROVE Accounted'
    OBVIOUS
  <2>1. ASSUME NEW c \in Calls,
               \/ ReserveCredit(c) \/ Charge(c) \/ CreateQuestion(c)
               \/ SettleReservation(c) \/ GiveBack(c) \/ RestoreCredit(c)
        PROVE  Accounted'
    BY <2>1, CallAccounted
  <2>2. ASSUME NEW d \in Deliveries,
               \/ Receive(d) \/ MapPayment(d) \/ CreditCheckout(d) \/ Lookup(d)
               \/ ReadBalance(d) \/ TakeCredit(d) \/ ListReversals(d)
               \/ RecordReversal(d) \/ DeliveryThrows(d)
        PROVE  Accounted'
    BY <2>2, DeliveryAccounted
  <2>3. ASSUME NEW r \in Requests, Crash(r) PROVE Accounted'
    BY <2>3, CrashAccounted
  <2>4. CASE UNCHANGED vars
    BY <2>4 DEF vars, Accounted, PaidIn, Costs, Cost, At
  <2> QED
    BY <2>1, <2>2, <2>3, <2>4 DEF Next
<1> QED
  BY <1>1, BooksInit, LedgerInvariance, PTL DEF Spec
=============================================================================
