--------------------------------- MODULE Jobs ---------------------------------
(***************************************************************************)
(* One job record and the requests that write it (jobs.js).  updateJob(),  *)
(* markPendingReview() and approveReview() read the record, decide, and    *)
(* write it whole; so do the lists of reviews and of escalated items.      *)
(***************************************************************************)
EXTENDS Naturals, FiniteSets

CONSTANTS Tasks

JobsAssumption == IsFiniteSet(Tasks)

VARIABLES job,          \* job:<id>: its status, and the patches that are in it
          task,         \* a request, what it read, what it answered
          escalated,    \* ESCALATION_INDEX_KEY has the job
          settlements,  \* settlementsTotal
          onChain,      \* settle() of an approval landed
          writes,       \* bound by the tasks: how often each record was written
          torn          \* tasks that wrote over what they had not read, history

vars == <<job, task, escalated, settlements, onChain, writes, torn>>

Statuses == {"awaiting_workers", "reconciling", "pending_review", "settled"}
Idle == [at |-> "idle", kind |-> "none", status |-> "none", read |-> [status |-> "none", patches |-> {}],
         has |-> FALSE, base |-> 0]
Kept == {"job", "escalated"}

Init == /\ job = [status |-> "awaiting_workers", patches |-> {}]
        /\ task = [t \in Tasks |-> Idle] /\ escalated = FALSE /\ settlements = 0 /\ onChain = FALSE
        /\ writes = [k \in Kept |-> 0] /\ torn = {}

At(t, step) == task[t].at = step
End(t, answer) == task' = [task EXCEPT ![t].at = answer]
Reads(t, kind, status, key) ==
  /\ At(t, "idle")
  /\ task' = [task EXCEPT ![t] = [at |-> kind, kind |-> kind, status |-> status, read |-> job,
                                   has |-> escalated, base |-> writes[key]]]
Writes(t, key) ==
  /\ writes' = [writes EXCEPT ![key] = writes[key] + 1]
  /\ torn' = torn \cup IF task[t].base = writes[key] THEN {} ELSE {t}

----------------------------------------------------------------------------
\* updateJob(): some callers patch the status, some another field.
UpdateJob(t, status) == Reads(t, "update", status, "job") /\ UNCHANGED <<job, escalated, settlements, onChain, writes, torn>>

Merge(read, status, t) == [status |-> IF status = "none" THEN read.status ELSE status,
                           patches |-> read.patches \cup {t}]

WriteJob(t) ==
  LET next == Merge(task[t].read, task[t].status, t)
  IN /\ At(t, "update") /\ End(t, "done") /\ Writes(t, "job") /\ job' = next
     /\ settlements' = settlements + IF next.status = "settled" /\ task[t].read.status # "settled" THEN 1 ELSE 0
     /\ UNCHANGED <<escalated, onChain>>

\* markPendingReview(): TRUE for who moved the job there.
MarkPendingReview(t) == Reads(t, "review", "pending_review", "job") /\ UNCHANGED <<job, escalated, settlements, onChain, writes, torn>>
WriteReview(t) ==
  LET read == task[t].read
      refused == read.status \in {"settled", "pending_review"}
  IN /\ At(t, "review") /\ End(t, IF refused THEN "no" ELSE "yes")
     /\ IF refused THEN UNCHANGED <<job, writes, torn>>
        ELSE Writes(t, "job") /\ job' = Merge(read, "pending_review", t)
     /\ UNCHANGED <<escalated, settlements, onChain>>

\* approveReview(): settle() goes to the contract, which settles once, and then
\* writes the record; the escalation is lifted last.
ApproveReview(t) == /\ Reads(t, "approve", "settled", "job") /\ UNCHANGED <<job, escalated, settlements, onChain, writes, torn>>
SettleReview(t) ==
  /\ At(t, "approve")
  /\ IF task[t].read.status # "pending_review" \/ onChain THEN End(t, "no") /\ UNCHANGED onChain
     ELSE /\ onChain' = TRUE
          /\ task' = [task EXCEPT ![t].at = "update", ![t].read = job, ![t].base = writes["job"]]
  /\ UNCHANGED <<job, escalated, settlements, writes, torn>>

\* escalateItem() and unescalateItem(): TRUE for who changed the list.
Escalate(t, to) == Reads(t, IF to THEN "escalate" ELSE "lift", "none", "escalated")
                   /\ UNCHANGED <<job, escalated, settlements, onChain, writes, torn>>
WriteEscalation(t) ==
  LET to == At(t, "escalate")
  IN /\ At(t, "escalate") \/ At(t, "lift")
     /\ IF task[t].has = to THEN End(t, "no") /\ UNCHANGED <<escalated, writes, torn>>
        ELSE End(t, "yes") /\ escalated' = to /\ Writes(t, "escalated")
     /\ UNCHANGED <<job, settlements, onChain>>

Next == \E t \in Tasks : \/ \E s \in {"none", "reconciling", "settled"} : UpdateJob(t, s)
                         \/ WriteJob(t) \/ MarkPendingReview(t) \/ WriteReview(t) \/ ApproveReview(t)
                         \/ SettleReview(t) \/ WriteEscalation(t) \/ \E to \in BOOLEAN : Escalate(t, to)

Spec == Init /\ [][Next]_vars

----------------------------------------------------------------------------
TypeOK == /\ job.status \in Statuses /\ job.patches \subseteq Tasks /\ torn \subseteq Tasks
          /\ \A k \in Kept : writes[k] <= Cardinality(Tasks)

Said(answer, kinds) == {t \in Tasks : At(t, answer) /\ task[t].kind \in kinds}

\* Unless a write went over what it had not read: no patch is lost; the job
\* settles at most once and is counted so; exactly one caller is told that it
\* queued a review; and those told that they escalated the item and those told
\* that they lifted it alternate.
JobsHold == torn = {} =>
  /\ Said("done", {"update", "approve"}) \cup Said("yes", {"review"}) = job.patches
  /\ job.status = "pending_review" => Said("yes", {"review"}) # {}
  /\ onChain => Said("yes", {"review"}) # {}
  /\ Cardinality(Said("yes", {"escalate"})) =
       Cardinality(Said("yes", {"lift"})) + IF escalated THEN 1 ELSE 0
  /\ job.status = "settled" => settlements >= 1

\* The inductive invariant: a request that wrote after what it read was written
\* over is torn, so that without those what it read is what is there; and only a
\* request that queued a review lets others read that one is pending.
Steps == {"idle", "update", "review", "approve", "escalate", "lift", "done", "yes", "no"}
Kinds == {"none", "update", "review", "approve", "escalate", "lift"}
JobRecords == [status : Statuses, patches : SUBSET Tasks]
TaskRecords == [at : Steps, kind : Kinds, status : Statuses \cup {"none"},
                read : [status : Statuses \cup {"none"}, patches : SUBSET Tasks], has : BOOLEAN, base : Nat]
Reading == {"update", "review", "approve"}
Listing == {"escalate", "lift"}
Wrote(k) == IF k = "job" THEN Said("done", Kinds) \cup Said("yes", {"review"}) ELSE Said("yes", Listing)
JobsTypeOK ==
  /\ job \in JobRecords /\ task \in [Tasks -> TaskRecords] /\ writes \in [Kept -> Nat]
  /\ escalated \in BOOLEAN /\ settlements \in Nat /\ onChain \in BOOLEAN /\ torn \subseteq Tasks
TaskHolds(x) ==
  /\ x.at \in Reading => /\ x.base <= writes["job"] /\ (x.base = writes["job"] => x.read = job)
                         /\ x.kind = x.at \/ (x.at = "update" /\ x.kind = "approve")
                         /\ x.read \in JobRecords
  /\ x.at \in Listing => /\ x.base <= writes["escalated"] /\ (x.base = writes["escalated"] => x.has = escalated)
                         /\ x.kind = x.at
  /\ x.at \in {"update", "approve"} => x.status # "pending_review"
  /\ x.at = "done" => x.kind \in {"update", "approve"}
JobsInv ==
  /\ JobsTypeOK /\ TypeOK /\ JobsHold
  /\ \A t \in Tasks : TaskHolds(task[t])
  /\ \A k \in Kept : writes[k] = Cardinality(Wrote(k))
  /\ torn = {} => \A t \in Tasks : task[t].read.status = "pending_review" => Said("yes", {"review"}) # {}

\* A settled job is not reopened by a review.
StaysSettled == job.status = "settled" /\ torn' = {} => job'.status # "pending_review"
NoReviewReopens == [][StaysSettled]_vars
=============================================================================
