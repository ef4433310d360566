------------------------------- MODULE Withdraw -------------------------------
(***************************************************************************)
(* Automatic withdrawals (autoWithdraw.js): a worker's settings, the one   *)
(* prepared transaction that waits for their signature, and the checks     *)
(* that prepare it, called by a route or by the sweep.  The lock is a key  *)
(* with a lease.  Submitting and starting the sweep are missing from the   *)
(* tree.  Owed is the contract's balance, which a settlement raises and a  *)
(* manual withdrawal empties.                                              *)
(***************************************************************************)
EXTENDS Integers, FiniteSets

CONSTANTS Workers, Beneficiaries,
          Edits, Checks,    \* requests that set, and that check
          Lanes,            \* SWEEP_CONCURRENCY
          Thresholds, MaxOwed,
          None

WithdrawAssumption ==
  /\ Lanes \in Nat \ {0} /\ MaxOwed \in Nat /\ Thresholds \subseteq 1..MaxOwed /\ None \notin Checks

VARIABLES settings,     \* auto-withdraw:<worker>
          pending,      \* auto-withdraw-pending:<worker>
          lock,         \* auto-withdraw-lock:<worker>, by whom it was taken
          index,        \* auto-withdraw-workers
          owed, edit, check,
          outlived      \* workers a check of whom outlived LOCK_TTL_MS, history

stored == <<settings, pending, lock, index>>
vars == <<stored, owed, edit, check, outlived>>

Terms == [enabled : BOOLEAN, threshold : Thresholds, to : Beneficiaries \cup {None}]
Pending == [amount : 1..MaxOwed, to : Beneficiaries \cup {None}]
Unasked == [at |-> "idle", terms |-> None, owed |-> 0]

\* Some workers have opted in before.
Init == /\ settings \in [Workers -> {t \in Terms : t.enabled} \cup {None}]
        /\ index = {w \in Workers : settings[w] # None}
        /\ pending = [w \in Workers |-> None] /\ lock = [w \in Workers |-> None]
        /\ owed \in [Workers -> {0, MaxOwed}]
        /\ edit = [e \in Edits |-> [at |-> "idle", who |-> None, old |-> None, new |-> None, list |-> {}]]
        /\ check = [k \in Checks |-> [w \in Workers |-> Unasked]] /\ outlived = {}

----------------------------------------------------------------------------
\* setAutoWithdrawSettings() reads the current settings, deleteAuto...() none.
SetSettings(e, w, t) ==
  /\ edit[e].at = "idle"
  /\ edit' = [edit EXCEPT ![e] =
       [at |-> "save", who |-> w, old |-> settings[w], new |-> t, list |-> {}]]
  /\ UNCHANGED <<stored, owed, check, outlived>>

DeleteSettings(e, w) == settings[w] # None /\ SetSettings(e, w, None)

TermsKept(old, new) == /\ old # None /\ new # None /\ new.enabled
                       /\ old.threshold = new.threshold /\ old.to = new.to

\* The awaits of both: save, drop what was prepared under other terms, then
\* read and write the list of opted-in workers.
SaveSettings(e) ==
  /\ edit[e].at = "save"
  /\ settings' = [settings EXCEPT ![edit[e].who] = edit[e].new]
  /\ edit' = [edit EXCEPT ![e].at = IF TermsKept(edit[e].old, edit[e].new) THEN "read" ELSE "drop"]
  /\ UNCHANGED <<pending, lock, index, owed, check, outlived>>

DropPending(e) ==
  /\ edit[e].at = "drop"
  /\ pending' = [pending EXCEPT ![edit[e].who] = None]
  /\ edit' = [edit EXCEPT ![e].at = "read"]
  /\ UNCHANGED <<settings, lock, index, owed, check, outlived>>

ReadIndex(e) ==
  /\ edit[e].at = "read"
  /\ edit' = [edit EXCEPT ![e].at = "list", ![e].list = index]
  /\ UNCHANGED <<stored, owed, check, outlived>>

WriteIndex(e) ==
  LET in == edit[e].new # None /\ edit[e].new.enabled
  IN /\ edit[e].at = "list"
     /\ index' = IF in = (edit[e].who \in edit[e].list) THEN index
                 ELSE IF in THEN edit[e].list \cup {edit[e].who} ELSE edit[e].list \ {edit[e].who}
     /\ edit' = [edit EXCEPT ![e].at = "answered"]
     /\ UNCHANGED <<settings, pending, lock, owed, check, outlived>>

----------------------------------------------------------------------------
Active(k) == {w \in Workers : check[k][w].at \notin {"idle", "queued", "done"}}
Put(k, w, step) == check' = [check EXCEPT ![k][w].at = step]
Unused(k) == \A w \in Workers : check[k][w].at = "idle"

\* POST /workers/:address/auto-withdraw/check, or the lanes of the sweep.
CheckOne(k, w) ==
  Unused(k) /\ Put(k, w, "queued") /\ UNCHANGED <<stored, owed, edit, outlived>>

Sweep(k) ==
  /\ Unused(k) /\ index # {}
  /\ check' = [check EXCEPT ![k] = [w \in Workers |->
       [Unasked EXCEPT !.at = IF w \in index THEN "queued" ELSE "done"]]]
  /\ UNCHANGED <<stored, owed, edit, outlived>>

\* checkAutoWithdraw(): settings are read before the lock is taken.
ReadSettings(k, w) ==
  /\ check[k][w].at = "queued" /\ Cardinality(Active(k)) < Lanes
  /\ check' = [check EXCEPT ![k][w] = [check[k][w] EXCEPT !.terms = settings[w],
       !.at = IF settings[w] # None /\ settings[w].enabled THEN "lock" ELSE "done"]]
  /\ UNCHANGED <<stored, owed, edit, outlived>>

TakeLock(k, w) ==
  /\ check[k][w].at = "lock"
  /\ lock' = IF lock[w] = None THEN [lock EXCEPT ![w] = k] ELSE lock
  /\ Put(k, w, IF lock[w] = None THEN "owed" ELSE "done")   \* busy
  /\ UNCHANGED <<settings, pending, index, owed, edit, outlived>>

\* getOwedOnChain(), which may fail and end the check.
ReadOwed(k, w) ==
  /\ check[k][w].at = "owed"
  /\ \/ check' = [check EXCEPT ![k][w].at = "pending", ![k][w].owed = owed[w]]
     \/ Put(k, w, "unlock")
  /\ UNCHANGED <<stored, owed, edit, outlived>>

\* A pending transaction that is still covered stays; one that is not is
\* dropped, and the balance is compared with the threshold that was read.
Evaluate(k, w) ==
  LET t == check[k][w]
      covered == pending[w] # None /\ t.owed >= pending[w].amount
  IN /\ t.at = "pending"
     /\ pending' = IF covered THEN pending ELSE [pending EXCEPT ![w] = None]
     /\ Put(k, w, IF covered \/ t.owed < t.terms.threshold THEN "unlock" ELSE "prepare")
     /\ UNCHANGED <<settings, lock, index, owed, edit, outlived>>

\* buildWorkerWithdrawTx() is awaited, then the record is written.
Prepare(k, w) ==
  /\ check[k][w].at = "prepare"
  /\ \/ pending' = [pending EXCEPT ![w] = [amount |-> check[k][w].owed, to |-> check[k][w].terms.to]]
     \/ UNCHANGED pending
  /\ Put(k, w, "unlock")
  /\ UNCHANGED <<settings, lock, index, owed, edit, outlived>>

\* The finally deletes the lock, whoever holds it by then.
Unlock(k, w) ==
  /\ check[k][w].at = "unlock" /\ Put(k, w, "done")
  /\ lock' = [lock EXCEPT ![w] = None]
  /\ UNCHANGED <<settings, pending, index, owed, edit, outlived>>

LockExpires(w) ==
  /\ lock[w] # None /\ lock' = [lock EXCEPT ![w] = None]
  /\ outlived' = outlived \cup {w}
  /\ UNCHANGED <<settings, pending, index, owed, edit, check>>

\* The contract: a settlement credits the worker, the worker withdraws.
OwedChanges(w) ==
  /\ owed' = [owed EXCEPT ![w] = IF owed[w] = 0 THEN MaxOwed ELSE 0]
  /\ UNCHANGED <<stored, edit, check, outlived>>

Next ==
  \/ \E e \in Edits : \/ SaveSettings(e) \/ DropPending(e) \/ ReadIndex(e) \/ WriteIndex(e)
                      \/ \E w \in Workers : DeleteSettings(e, w) \/ \E t \in Terms : SetSettings(e, w, t)
  \/ \E k \in Checks : \/ Sweep(k)
                       \/ \E w \in Workers : \/ CheckOne(k, w) \/ ReadSettings(k, w) \/ TakeLock(k, w)
                                             \/ ReadOwed(k, w) \/ Evaluate(k, w) \/ Prepare(k, w) \/ Unlock(k, w)
  \/ \E w \in Workers : LockExpires(w) \/ OwedChanges(w)

Spec == Init /\ [][Next]_vars

----------------------------------------------------------------------------
TypeOK ==
  /\ settings \in [Workers -> Terms \cup {None}] /\ pending \in [Workers -> Pending \cup {None}]
  /\ lock \in [Workers -> Checks \cup {None}] /\ index \subseteq Workers
  /\ owed \in [Workers -> 0..MaxOwed] /\ outlived \subseteq Workers

\* Two checks of a worker never evaluate and prepare at the same moment, unless
\* one outlived its lease: whoever finds the lock taken leaves it alone.
OnePreparer == \A w \in Workers \ outlived :
  Cardinality({k \in Checks : check[k][w].at \in {"owed", "pending", "prepare"}}) <= 1

\* The inductive invariant: who works on a worker's withdrawal holds its lock, so that
\* giving it up takes it from nobody; and what is prepared was worth preparing under
\* the terms that were read.
Locked(k, w) == check[k][w].at \in {"owed", "pending", "prepare", "unlock"}
LocksHold == \A w \in Workers \ outlived, k \in Checks : Locked(k, w) => lock[w] = k
EditsHold ==
  /\ edit \in [Edits -> [at : {"idle", "save", "drop", "read", "list", "answered"}, who : Workers \cup {None},
                         old : Terms \cup {None}, new : Terms \cup {None}, list : SUBSET Workers]]
  /\ \A e \in Edits : edit[e].at # "idle" => edit[e].who \in Workers
ChecksHold ==
  /\ check \in [Checks -> [Workers ->
       [at : {"idle", "queued", "lock", "owed", "pending", "prepare", "unlock", "done"},
        terms : Terms \cup {None}, owed : 0..MaxOwed]]]
  /\ \A k \in Checks, w \in Workers :
       /\ check[k][w].at \in {"lock", "owed", "pending", "prepare"} => check[k][w].terms \in Terms
       /\ check[k][w].at = "prepare" => check[k][w].owed >= check[k][w].terms.threshold
WithdrawInv == TypeOK /\ EditsHold /\ ChecksHold /\ LocksHold /\ OnePreparer

\* What the worker is asked to sign was prepared under the settings of today,
\* once their edits are answered (autoWithdraw.js:119-123).
PendingIsUnderCurrentTerms == \A w \in Workers :
  (\A e \in Edits : edit[e].at \in {"idle", "answered"}) /\ pending[w] # None =>
     settings[w] # None /\ settings[w].enabled /\ pending[w].to = settings[w].to
=============================================================================
