--------------------------- MODULE BackgroundProofs ---------------------------
(***************************************************************************)
(* What goes on behind the requests, for any number of those who take      *)
(* part: settlement webhooks, of which a deleted one gets no event that is *)
(* announced afterwards and none is posted into the backend's own network; *)
(* the record of a job, which is settled once and loses no patch unless    *)
(* requests write over what they have not read; the recovery sweep, which  *)
(* misses nothing that was pending throughout and refunds nothing that an  *)
(* instance is fulfilling; who is online, and to whom a question is        *)
(* routed; the workers who answer alike, suspended until an operator       *)
(* reviews them and not for a score he accepted; and what an operator is   *)
(* shown of jobs, of the treasury's balance and of the worker's link.      *)
(***************************************************************************)
EXTENDS Webhooks, Sequences, FiniteSetTheorems, TLAPS

CONSTANTS Tasks,                                                                  \* Jobs
          Questions, Abandoned, MaxTime, MaxRefunds, Scans, Driven, MinAge, StaleInflight, \* Recovery
          Workers, Instances, Categories, MaxConns, MaxChanges, SupplyWindow, Quorum, \* Supply
          Suspects, Pairs, Quorums, Reviews, Start, Expected, SharedIp, Referring,   \* Collusion
          Rounds, MinShared, FlagScore, SuspendScore,
          Indexed, MaxTracked, Readings, Polls, MaxFlips, MaxRestarts              \* Probes

VARIABLES record, request, escalated, settlements, onChain, writes, torn,         \* Jobs
          now, pending, settled, created, job, stash, claims, live, inFlight, mode,       \* Recovery
          sweep, throughout, grown, lost, wronged,
          topic, conn, workers, queue, presence, seen, standing, changes,         \* Supply
          selection, overlapped, orphaned,
          counters, linked, flag, suspended, inspection, observed, raced,         \* Collusion
          entry, newest, scan, gauge, low, flips, crossed, poll, lowBalanceState, raised, \* Probes
          current, restarts, clashed, link

J == INSTANCE Jobs WITH job <- record, task <- request
Rc == INSTANCE Recovery
Su == INSTANCE Supply WITH task <- selection
Co == INSTANCE Collusion WITH task <- inspection, Workers <- Suspects
Pb == INSTANCE Probes WITH Jobs <- Indexed, Scans <- Readings, job <- entry, index <- newest, overlapped <- clashed

-----------------------------------------------------------------------------
(* Settlement webhooks *)

\* The deliveries of a webhook can be counted.
LEMMA DeliveredAreFew ==
  ASSUME WebhookAssumption, NEW i
  PROVE  /\ IsFiniteSet(Delivered(i)) /\ Cardinality(Delivered(i)) \in Nat
         /\ Cardinality(Events) \in Nat /\ Cardinality(Delivered(i)) <= Cardinality(Events)
<1>1. Delivered(i) \in SUBSET Events
  BY DEF Delivered
<1> QED
  BY <1>1, FS_Subset, FS_CardinalityType DEF WebhookAssumption

\* Nothing is registered and nothing under way.
LEMMA WebhooksInit ==
  ASSUME WebhookAssumption, Init
  PROVE  WebhooksInv
<1>1. Cardinality(Events) \in Nat /\ \A i \in Ids : Cardinality(Delivered(i)) \in Nat
  BY DeliveredAreFew, FS_CardinalityType DEF WebhookAssumption
<1>2. TypeOK
  <2>1. /\ reg \in [Ids -> Registrations \cup {None}] /\ owned \subseteq Ids
        /\ index \subseteq Ids /\ deleted \subseteq Ids /\ contacted \subseteq {"public", "blocked"}
        /\ counts \in [Ids -> 0..Cardinality(Events)]
    BY <1>1 DEF Init
  <2>2. edit \in [Edits -> EditRecords] /\ event \in [Events -> EventRecords]
    BY DEF Init, EditRecords, EventRecords
  <2>3. NoTask \in TaskRecords
    BY <1>1 DEF NoTask, TaskRecords, WebhookAssumption
  <2>4. task = [n \in Events |-> [i \in Ids |-> NoTask]]
    BY DEF Init
  <2> QED
    BY <2>1, <2>2, <2>3, <2>4 DEF TypeOK
<1>3. \A e \in Edits : edit[e].at = "idle" /\ edit[e].id = None
  BY DEF Init
<1>4. \A n \in Events : event[n].at = "idle" /\ \A i \in Ids : task[n][i].at = "idle"
  BY DEF Init, NoTask
<1>5. EditsHold
  BY <1>3 DEF EditsHold
<1>6. TasksHold
  BY <1>4 DEF TasksHold
<1>7. deleted = {} /\ contacted = {} /\ \A i \in Ids : counts[i] = 0
  BY DEF Init
<1> QED
  BY <1>1, <1>2, <1>4, <1>5, <1>6, <1>7
  DEF WebhooksInv, DeletedStaysDead, CountsHold, DeletedGetsNoEvent, NeverToABlockedAddress

-----------------------------------------------------------------------------
(* Requests *)

\* The steps of a request that writes no record touch nothing a delivery holds.
LEMMA QuietEditKeeps ==
  ASSUME WebhookAssumption, WebhooksInv, NEW e \in Edits,
         \/ \E u \in Urls : RegisterWebhook(e, u)
         \/ \E i \in Ids : CheckExisting(e, i) \/ DeleteWebhook(e, i)
  PROVE  WebhooksInv'
<1>1. /\ UNCHANGED <<store, event, task, deleted, contacted>>
      /\ edit' = [edit EXCEPT ![e] = edit'[e]]
      /\ edit[e].at \in {"idle", "check"}
  BY DEF RegisterWebhook, CheckExisting, DeleteWebhook, Go, WebhooksInv, TypeOK
<1>2. \A f \in Edits : f # e => edit'[f] = edit[f]
  BY <1>1 DEF WebhooksInv, TypeOK
<1>3. edit[e].id = None
  BY <1>1 DEF WebhooksInv, EditsHold
<1> DEFINE Changed ==
  /\ edit'[e] \in EditRecords
  /\ \/ edit'[e].at = "check" /\ edit'[e].id = None /\ edit'[e].url \in Urls \ Private
     \/ edit'[e].at = "answered" /\ edit'[e].id = None
     \/ /\ edit'[e].at = "write" /\ edit'[e].url \in Urls \ Private
        /\ edit'[e].id \in Ids /\ Fresh(edit'[e].id)
     \/ edit'[e].at = "delete" /\ edit'[e].id \in Ids /\ reg[edit'[e].id] # None
<1>4. Changed
  <2>1. edit[e] \in EditRecords /\ owned \in SUBSET Ids
    BY DEF WebhooksInv, TypeOK
  <2>2. ASSUME NEW u \in Urls, RegisterWebhook(e, u) PROVE Changed
    <3>1. edit'[e] = [at |-> "check", id |-> None, url |-> u, ids |-> owned] /\ u \notin Private
      BY <2>2 DEF RegisterWebhook, ValidateWebhookUrl, Go, WebhooksInv, TypeOK
    <3> QED
      BY <2>1, <3>1 DEF EditRecords
  <2>3. ASSUME NEW i \in Ids, CheckExisting(e, i) PROVE Changed
    <3>1. edit[e].at = "check" /\ Fresh(i) /\ edit[e].url \in Urls \ Private
      BY <2>3 DEF CheckExisting, WebhooksInv, EditsHold
    <3>2. Stored(edit[e].ids) \in SUBSET Ids
      BY <2>1 DEF Stored, EditRecords
    <3>3. \/ edit'[e] = [edit[e] EXCEPT !.at = "answered"]
          \/ edit'[e] = [edit[e] EXCEPT !.at = "write", !.id = i, !.ids = Stored(edit[e].ids)]
      BY <2>3 DEF CheckExisting, Go, WebhooksInv, TypeOK
    <3>4. CASE edit'[e] = [edit[e] EXCEPT !.at = "answered"]
      BY <1>3, <2>1, <3>4 DEF EditRecords
    <3>5. CASE edit'[e] = [edit[e] EXCEPT !.at = "write", !.id = i, !.ids = Stored(edit[e].ids)]
      BY <2>1, <3>1, <3>2, <3>5 DEF EditRecords
    <3> QED
      BY <3>3, <3>4, <3>5
  <2>4. ASSUME NEW i \in Ids, DeleteWebhook(e, i) PROVE Changed
    <3>1. edit'[e] = [at |-> "delete", id |-> i, url |-> None, ids |-> {}] /\ reg[i] # None
      BY <2>4 DEF DeleteWebhook, Go, WebhooksInv, TypeOK
    <3> QED
      BY <3>1 DEF EditRecords
  <2> QED
    BY <2>2, <2>3, <2>4
<1>5. TypeOK'
  <2>1. edit' \in [Edits -> EditRecords]
    BY <1>1, <1>4 DEF WebhooksInv, TypeOK
  <2>2. EventRecords' = EventRecords
    BY <1>1 DEF EventRecords
  <2> QED
    BY <1>1, <2>1, <2>2 DEF WebhooksInv, TypeOK, store
<1>6. EditsHold'
  <2>1. \A f \in Edits : edit'[f].at = "write" =>
          /\ reg[edit'[f].id] = None
          /\ \A g \in Edits \ {f} : edit'[g].id # edit'[f].id
          /\ \A n \in Events : task[n][edit'[f].id].at = "deactivate" =>
               task[n][edit'[f].id].found = None
    <3>1. CASE edit'[e].at = "write"
      <4>1. edit'[e].id \in Ids /\ Fresh(edit'[e].id)
        BY <1>4, <3>1
      <4>2. \A n \in Events : task[n][edit'[e].id].at = "deactivate" =>
               task[n][edit'[e].id].found = None
        BY <4>1 DEF Fresh, WebhooksInv, TasksHold
      <4> QED
        BY <1>2, <1>3, <4>1, <4>2 DEF Fresh, WebhooksInv, EditsHold
    <3>2. CASE edit'[e].at # "write"
      <4>1. \A f \in Edits : edit[f].at = "write" => edit'[e].id # edit[f].id
        BY <1>4, <3>2 DEF WebhooksInv, EditsHold, WebhookAssumption
      <4> QED
        BY <1>2, <3>2, <4>1 DEF WebhooksInv, EditsHold
    <3> QED
      BY <3>1, <3>2
  <2>2. \A f \in Edits :
          /\ edit'[f].at \in {"idle", "check"} => edit'[f].id = None
          /\ edit'[f].at \notin {"idle", "check", "answered"} => edit'[f].id \in Ids
          /\ edit'[f].at \in {"check", "write"} => edit'[f].url \in Urls \ Private
          /\ edit'[f].at \in {"list", "disown", "all", "unindex"} => Dead(edit'[f].id)
    BY <1>2, <1>4 DEF WebhooksInv, EditsHold
  <2> QED
    BY <1>1, <2>1, <2>2 DEF EditsHold, Dead, store
<1>7. DeletedStaysDead'
  BY <1>1, <1>2, <1>3 DEF WebhooksInv, TypeOK, DeletedStaysDead, Dead, store, WebhookAssumption
<1>8. TasksHold'
  BY <1>1, <1>2, <1>3 DEF WebhooksInv, TasksHold, Delivered, store, WebhookAssumption
<1> QED
  BY <1>1, <1>5, <1>6, <1>7, <1>8
  DEF WebhooksInv, CountsHold, Delivered, DeletedGetsNoEvent, NeverToABlockedAddress, store

\* The steps of a request that registers or deletes: only the record of its own id
\* changes, which while it is being written is its own alone.
LEMMA EditStepKeeps ==
  ASSUME WebhookAssumption, WebhooksInv, NEW e \in Edits, EditStep(e)
  PROVE  WebhooksInv'
<1> DEFINE i == edit[e].id
<1>1. /\ edit \in [Edits -> EditRecords] /\ edit[e] \in EditRecords
      /\ reg \in [Ids -> Registrations \cup {None}]
      /\ counts \in [Ids -> 0..Cardinality(Events)] /\ Cardinality(Events) \in Nat
      /\ owned \subseteq Ids /\ index \subseteq Ids /\ deleted \subseteq Ids
  BY DeliveredAreFew DEF WebhooksInv, TypeOK
<1>2. /\ edit[e].at \in {"write", "own", "index", "reindex", "delete", "list", "disown", "all",
                         "unindex"}
      /\ UNCHANGED <<event, task, contacted>>
  BY DEF EditStep
<1>3. i \in Ids
  BY <1>2 DEF WebhooksInv, EditsHold
<1>4. ASSUME NEW to \in {"own", "index", "reindex", "list", "disown", "all", "unindex", "answered"},
             \/ edit' = [edit EXCEPT ![e] = [edit[e] EXCEPT !.at = to]]
             \/ \E ids \in SUBSET Ids :
                  edit' = [edit EXCEPT ![e] = [edit[e] EXCEPT !.at = to, !.ids = ids]]
      PROVE  /\ edit' \in [Edits -> EditRecords] /\ edit'[e].id = i /\ edit'[e].at = to
             /\ \A f \in Edits : f # e => edit'[f] = edit[f]
  <2> DEFINE r == [edit[e] EXCEPT !.at = to]
  <2>1. r \in EditRecords /\ r.id = i /\ r.at = to
    BY <1>1 DEF EditRecords
  <2>2. ASSUME NEW ids \in SUBSET Ids
        PROVE  LET q == [edit[e] EXCEPT !.at = to, !.ids = ids]
               IN  q \in EditRecords /\ q.id = i /\ q.at = to
    BY <1>1 DEF EditRecords
  <2> QED
    BY <1>1, <1>4, <2>1, <2>2
<1>5. /\ edit' \in [Edits -> EditRecords] /\ edit'[e].id = i
      /\ \A f \in Edits : f # e => edit'[f] = edit[f]
      /\ edit'[e].at \in {"own", "index", "reindex", "list", "disown", "all", "unindex", "answered"}
      /\ edit'[e].at \in {"disown", "all", "unindex"} =>
           edit[e].at \in {"list", "disown", "all", "unindex"}
      /\ edit'[e].at = "list" => edit[e].at = "delete"
  <2>1. CASE edit[e].at = "write"
    <3>1. edit' = [edit EXCEPT ![e] = [edit[e] EXCEPT !.at = "own"]]
      BY <2>1 DEF EditStep, Go
    <3> QED
      BY <1>1, <1>4, <2>1, <3>1
  <2>2. CASE edit[e].at = "own"
    <3>1. edit' = [edit EXCEPT ![e] = [edit[e] EXCEPT !.at = "index"]]
      BY <2>2 DEF EditStep, Go
    <3> QED
      BY <1>1, <1>4, <2>2, <3>1
  <2>3. CASE edit[e].at = "index"
    <3>1. edit' = [edit EXCEPT ![e] = [edit[e] EXCEPT !.at = "reindex", !.ids = index]]
      BY <2>3 DEF EditStep, Go
    <3> QED
      BY <1>1, <1>4, <2>3, <3>1
  <2>4. CASE edit[e].at = "reindex"
    <3>1. edit' = [edit EXCEPT ![e] = [edit[e] EXCEPT !.at = "answered"]]
      BY <2>4 DEF EditStep, Go
    <3> QED
      BY <1>1, <1>4, <2>4, <3>1
  <2>5. CASE edit[e].at = "delete"
    <3>1. edit' = [edit EXCEPT ![e] = [edit[e] EXCEPT !.at = "list"]]
      BY <2>5 DEF EditStep, Go
    <3> QED
      BY <1>1, <1>4, <2>5, <3>1
  <2>6. CASE edit[e].at = "list"
    <3>1. edit' = [edit EXCEPT ![e] = [edit[e] EXCEPT !.at = "disown", !.ids = owned]]
      BY <2>6 DEF EditStep, Go
    <3> QED
      BY <1>1, <1>4, <2>6, <3>1
  <2>7. CASE edit[e].at = "disown"
    <3>1. edit' = [edit EXCEPT ![e] = [edit[e] EXCEPT !.at = "all"]]
      BY <2>7 DEF EditStep, Go
    <3> QED
      BY <1>1, <1>4, <2>7, <3>1
  <2>8. CASE edit[e].at = "all"
    <3>1. edit' = [edit EXCEPT ![e] = [edit[e] EXCEPT !.at = "unindex", !.ids = index]]
      BY <2>8 DEF EditStep, Go
    <3> QED
      BY <1>1, <1>4, <2>8, <3>1
  <2>9. CASE edit[e].at = "unindex"
    <3>1. edit' = [edit EXCEPT ![e] = [edit[e] EXCEPT !.at = "answered"]]
      BY <2>9 DEF EditStep, Go
    <3> QED
      BY <1>1, <1>4, <2>9, <3>1
  <2> QED
    BY <1>2, <2>1, <2>2, <2>3, <2>4, <2>5, <2>6, <2>7, <2>8, <2>9
<1>6. /\ \A j \in Ids : j # i => reg'[j] = reg[j] /\ counts'[j] = counts[j]
      /\ reg' \in [Ids -> Registrations \cup {None}]
      /\ counts' \in [Ids -> 0..Cardinality(Events)]
      /\ counts'[i] \in {0, counts[i]}
      /\ edit[e].at # "write" => reg'[i] \in {reg[i], None}
      /\ edit[e].at = "delete" => reg'[i] = None
  <2>1. CASE edit[e].at = "write"
    <3>1. edit[e].url \in Urls \ Private
      BY <2>1 DEF WebhooksInv, EditsHold
    <3>2. reg' = [reg EXCEPT ![i] = [url |-> edit[e].url, active |-> TRUE]] /\ counts' = counts
      BY <2>1 DEF EditStep
    <3> QED
      BY <1>1, <1>3, <2>1, <3>1, <3>2 DEF Registrations
  <2>2. CASE edit[e].at = "delete"
    <3>1. reg' = [reg EXCEPT ![i] = None] /\ counts' = [counts EXCEPT ![i] = 0]
      BY <2>2 DEF EditStep
    <3> QED
      BY <1>1, <1>3, <2>2, <3>1
  <2>3. CASE edit[e].at \notin {"write", "delete"}
    <3>1. reg' = reg /\ counts' = counts
      BY <2>3 DEF EditStep, store
    <3> QED
      BY <1>1, <2>3, <3>1
  <2> QED
    BY <2>1, <2>2, <2>3
<1>7. /\ owned' \subseteq Ids /\ index' \subseteq Ids
      /\ deleted' = deleted \/ (deleted' = deleted \cup {i} /\ edit[e].at = "unindex")
  <2>1. edit[e].ids \subseteq Ids
    BY <1>1 DEF EditRecords
  <2>2. owned' \in {owned, edit[e].ids \cup {i}, edit[e].ids \ {i}}
    BY <1>2 DEF EditStep, store
  <2>3. index' \in {index, edit[e].ids \cup {i}, edit[e].ids \ {i}}
    BY <1>2 DEF EditStep, store
  <2>4. deleted' = deleted \/ (deleted' = deleted \cup {i} /\ edit[e].at = "unindex")
    BY <1>2 DEF EditStep
  <2> QED
    BY <1>1, <1>3, <2>1, <2>2, <2>3, <2>4
<1>8. TypeOK'
  <2>1. EventRecords \subseteq EventRecords'
    BY <1>7 DEF EventRecords
  <2>2. TaskRecords' = TaskRecords /\ EditRecords' = EditRecords
    BY DEF TaskRecords, EditRecords
  <2> QED
    BY <1>2, <1>3, <1>5, <1>6, <1>7, <2>1, <2>2 DEF WebhooksInv, TypeOK
\* Nothing comes back to life: a record is written by its only holder.
<1>9. \A j \in Ids : Dead(j) /\ (\E f \in Edits \ {e} : edit[f].id = j) => Dead(j)'
  BY <1>6 DEF Dead, WebhooksInv, EditsHold
<1>10. EditsHold'
  <2>1. ASSUME NEW f \in Edits, f # e, edit[f].at = "write"
        PROVE  /\ reg'[edit[f].id] = None /\ \A g \in Edits \ {f} : edit'[g].id # edit[f].id
               /\ \A n \in Events : task'[n][edit[f].id].at = "deactivate" =>
                    task'[n][edit[f].id].found = None
    BY <1>2, <1>3, <1>5, <1>6, <2>1 DEF WebhooksInv, EditsHold
  <2>2. ASSUME NEW f \in Edits, f # e, edit[f].at \in {"list", "disown", "all", "unindex"}
        PROVE  Dead(edit[f].id)'
    <3>1. Dead(edit[f].id) /\ edit[f].id \in Ids
      BY <2>2 DEF WebhooksInv, EditsHold
    <3>2. Dead(edit[f].id)' <=> reg'[edit'[f].id] = None \/ ~reg'[edit'[f].id].active
      BY DEF Dead
    <3>3. \A j \in Ids : Dead(j)' <=> reg'[j] = None \/ ~reg'[j].active
      BY DEF Dead
    <3> QED
      BY <1>5, <1>9, <2>2, <3>1, <3>2, <3>3
  <2>3. edit'[e].at \in {"list", "disown", "all", "unindex"} =>
          reg'[i] = None \/ ~reg'[i].active
    BY <1>3, <1>5, <1>6 DEF WebhooksInv, EditsHold, Dead
  <2>4. ASSUME NEW f \in Edits, f # e
        PROVE  /\ edit[f].at \in {"idle", "check"} => edit[f].id = None
               /\ edit[f].at \notin {"idle", "check", "answered"} => edit[f].id \in Ids
               /\ edit[f].at \in {"check", "write"} => edit[f].url \in Urls \ Private
    BY DEF WebhooksInv, EditsHold
  <2> QED
    BY <1>3, <1>5, <2>1, <2>2, <2>3, <2>4 DEF EditsHold, Dead
<1>11. DeletedStaysDead'
  <2> SUFFICES ASSUME NEW j \in deleted'
               PROVE  /\ reg'[j] = None \/ ~reg'[j].active
                      /\ \E f \in Edits : edit'[f].id = j /\ edit'[f].at # "write"
    BY DEF DeletedStaysDead, Dead
  <2>1. CASE j \in deleted
    <3>1. PICK f \in Edits : edit[f].id = j /\ edit[f].at # "write"
      BY <2>1 DEF WebhooksInv, DeletedStaysDead
    <3>2. Dead(j) /\ j \in Ids
      BY <1>1, <2>1 DEF WebhooksInv, DeletedStaysDead
    <3>3. reg'[j] = None \/ ~reg'[j].active
      BY <1>6, <3>1, <3>2 DEF WebhooksInv, EditsHold, Dead
    <3> QED
      BY <1>5, <3>1, <3>3
  <2>2. CASE j \notin deleted
    <3>1. j = i /\ edit[e].at = "unindex"
      BY <1>7, <2>2
    <3>2. Dead(i)
      BY <3>1 DEF WebhooksInv, EditsHold
    <3> QED
      BY <1>5, <1>6, <3>1, <3>2 DEF Dead
  <2> QED
    BY <2>1, <2>2
<1>12. TasksHold'
  <2>1. \A j \in Ids : Delivered(j)' = Delivered(j)
    BY <1>2 DEF Delivered
  <2>2. \A j \in Ids : reg[j] # None \/ (\E f \in Edits : edit[f].id = j) =>
                       reg'[j] # None \/ \E f \in Edits : edit'[f].id = j
    BY <1>5, <1>6
  <2> QED
    BY <1>2, <2>1, <2>2 DEF WebhooksInv, TasksHold
<1>13. CountsHold'
  <2>1. \A j \in Ids : Delivered(j)' = Delivered(j) /\ Cardinality(Delivered(j)) \in Nat
    BY <1>2, DeliveredAreFew DEF Delivered
  <2> QED
    BY <1>3, <1>6, <2>1 DEF WebhooksInv, CountsHold
<1> QED
  BY <1>2, <1>8, <1>10, <1>11, <1>12, <1>13
  DEF WebhooksInv, DeletedGetsNoEvent, NeverToABlockedAddress

-----------------------------------------------------------------------------
(* Deliveries *)

\* An announcement: what was deleted by then is dead, so it is no target.
LEMMA AnnounceKeeps ==
  ASSUME WebhookAssumption, WebhooksInv, NEW n \in Events, Announce(n) \/ GetDeliveryTargets(n)
  PROVE  WebhooksInv'
<1>1. /\ UNCHANGED <<store, edit, deleted, contacted>> /\ EventRecords' = EventRecords
      /\ event \in [Events -> EventRecords] /\ task \in [Events -> [Ids -> TaskRecords]]
      /\ reg \in [Ids -> Registrations \cup {None}] /\ owned \subseteq Ids
  BY DEF Announce, GetDeliveryTargets, WebhooksInv, TypeOK, EventRecords
<1>2. event[n].at \in {"idle", "targets"} /\ \A i \in Ids : task[n][i].at = "idle"
  BY DEF Announce, GetDeliveryTargets, WebhooksInv, TasksHold
<1>3. CASE Announce(n)
  <2>1. /\ event' = [event EXCEPT ![n] = [at |-> "targets", ids |-> owned, before |-> deleted]]
        /\ task' = task
    BY <1>3 DEF Announce
  <2>2. [at |-> "targets", ids |-> owned, before |-> deleted] \in EventRecords
    BY <1>1 DEF EventRecords
  <2>3. /\ event' \in [Events -> EventRecords] /\ event'[n].at = "targets"
        /\ \A m \in Events : m # n => event'[m] = event[m]
    BY <1>1, <2>1, <2>2
  <2>4. TypeOK'
    BY <1>1, <2>1, <2>3 DEF WebhooksInv, TypeOK, store, TaskRecords
  <2>5. DeletedGetsNoEvent'
    BY <2>3 DEF WebhooksInv, DeletedGetsNoEvent
  <2>6. /\ UNCHANGED <<reg, counts, edit, deleted, contacted, task>>
        /\ \A i \in Ids : Delivered(i)' = Delivered(i)
    BY <1>1, <2>1 DEF store, Delivered
  <2>7. TasksHold'
    <3>1. TasksHold
      BY DEF WebhooksInv
    <3>2. \A m \in Events, i \in Ids : event'[m].at \in {"idle", "targets"} => task[m][i].at = "idle"
      BY <1>2, <2>3, <3>1 DEF TasksHold
    <3> QED
      BY <2>6, <3>1, <3>2 DEF TasksHold
  <2>8. EditsHold' /\ DeletedStaysDead' /\ CountsHold' /\ NeverToABlockedAddress'
    <3>1. EditsHold /\ DeletedStaysDead /\ CountsHold /\ NeverToABlockedAddress
      BY DEF WebhooksInv
    <3> QED
      BY <2>6, <3>1 DEF EditsHold, DeletedStaysDead, CountsHold, Dead, NeverToABlockedAddress
  <2> QED
    BY <2>4, <2>5, <2>7, <2>8 DEF WebhooksInv
<1>4. CASE GetDeliveryTargets(n)
  <2> DEFINE targets == {i \in Stored(event[n].ids) : reg[i].active}
             Posting(i) == [at |-> "post", try |-> 1, url |-> reg[i].url, found |-> None, count |-> 0]
  <2>1. /\ event' = [event EXCEPT ![n].at = "sending", ![n].ids = targets]
        /\ task' = [task EXCEPT ![n] = [i \in Ids |-> IF i \in targets THEN Posting(i)
                                                       ELSE task[n][i]]]
    BY <1>4 DEF GetDeliveryTargets
  <2>2. targets \in SUBSET Ids /\ \A i \in targets : reg[i] \in Registrations /\ reg[i].active
    BY <1>1 DEF Stored, EventRecords
  <2>3. \A i \in targets : /\ Posting(i) \in TaskRecords /\ Posting(i).at = "post"
                           /\ Posting(i).url \in Urls \ Private
    <3> SUFFICES ASSUME NEW i \in targets
                 PROVE  /\ Posting(i) \in TaskRecords /\ Posting(i).at = "post"
                        /\ Posting(i).url \in Urls \ Private
      OBVIOUS
    <3>1. reg[i].url \in Urls \ Private
      BY <2>2 DEF Registrations
    <3>2. 1 \in 0..MaxAttempts /\ 0 \in 0..Cardinality(Events)
      BY DeliveredAreFew DEF WebhookAssumption
    <3> QED
      BY <3>1, <3>2 DEF TaskRecords
  <2> HIDE DEF Posting
  <2>4. targets \cap deleted = {}
    <3>1. \A i \in deleted : reg[i] = None \/ ~reg[i].active
      BY DEF WebhooksInv, DeletedStaysDead, Dead
    <3>2. \A i \in targets : reg[i] # None
      BY DEF Stored
    <3> QED
      BY <2>2, <3>1, <3>2
  <2>5. event[n] \in EventRecords
    BY <1>1
  <2> HIDE DEF targets
  <2>6. /\ event' \in [Events -> EventRecords]
        /\ event'[n].at = "sending" /\ event'[n].ids = targets /\ event'[n].before = event[n].before
        /\ \A m \in Events : m # n => event'[m] = event[m]
    BY <1>1, <2>1, <2>2, <2>5 DEF EventRecords
  <2>7. /\ task' \in [Events -> [Ids -> TaskRecords]]
        /\ \A m \in Events : m # n => task'[m] = task[m]
        /\ \A i \in Ids : \/ i \in targets /\ task'[n][i] = Posting(i)
                          \/ task'[n][i] = task[n][i]
    BY <1>1, <2>1, <2>2, <2>3
  <2>8. TypeOK'
    BY <1>1, <2>6, <2>7 DEF WebhooksInv, TypeOK, store, TaskRecords
  <2>9. DeletedGetsNoEvent'
    <3>1. event[n].before \subseteq deleted
      BY <2>5 DEF EventRecords
    <3> QED
      BY <2>4, <2>6, <3>1 DEF WebhooksInv, DeletedGetsNoEvent
  <2>10. \A i \in Ids : Delivered(i)' = Delivered(i)
    BY <1>2, <2>3, <2>7 DEF Delivered
  <2>11. TasksHold'
    BY <1>1, <1>2, <2>3, <2>6, <2>7, <2>10 DEF WebhooksInv, TasksHold, store
  <2>12. EditsHold'
    <3>1. \A e \in Edits : edit[e].at = "write" => edit[e].id \in Ids
      BY DEF WebhooksInv, EditsHold
    <3>2. \A m \in Events, i \in Ids : task'[m][i].at = "deactivate" => task'[m][i] = task[m][i]
      BY <2>3, <2>7
    <3> QED
      BY <1>1, <3>1, <3>2 DEF WebhooksInv, EditsHold, Dead, store
  <2> QED
    BY <1>1, <2>8, <2>9, <2>10, <2>11, <2>12
    DEF WebhooksInv, DeletedStaysDead, CountsHold, Dead, NeverToABlockedAddress, store
<1> QED
  BY <1>3, <1>4

\* The record of a delivery is replaced by another, and only that.
LEMMA TaskChanges ==
  ASSUME NEW n \in Events, NEW i \in Ids, task \in [Events -> [Ids -> TaskRecords]],
         NEW r \in TaskRecords, task' = [task EXCEPT ![n][i] = r]
  PROVE  /\ task' \in [Events -> [Ids -> TaskRecords]] /\ task'[n][i] = r
         /\ \A m \in Events, j \in Ids : m # n \/ j # i => task'[m][j] = task[m][j]
<1>1. task[n] \in [Ids -> TaskRecords]
  OBVIOUS
<1>2. task' = [task EXCEPT ![n] = [task[n] EXCEPT ![i] = r]]
  OBVIOUS
<1> QED
  BY <1>1, <1>2

\* A step of one delivery changes what it keeps, and the stores it writes.
LEMMA DeliveryKeeps ==
  ASSUME WebhookAssumption, WebhooksInv, NEW n \in Events, NEW i \in Ids,
         PostOnce(n, i) \/ DeactivateWebhook(n, i) \/ RecordDelivery(n, i)
  PROVE  WebhooksInv'
<1> DEFINE t == task[n][i]
           u == task'[n][i]
<1>1. /\ UNCHANGED <<owned, index, edit, event, deleted>>
      /\ EventRecords' = EventRecords
      /\ event[n].at \in {"idle", "targets", "sending"}
      /\ task \in [Events -> [Ids -> TaskRecords]] /\ t \in TaskRecords
      /\ reg \in [Ids -> Registrations \cup {None}]
      /\ counts \in [Ids -> 0..Cardinality(Events)]
      /\ contacted \subseteq {"public", "blocked"} /\ "blocked" \notin contacted
      /\ MaxAttempts \in Nat /\ Cardinality(Events) \in Nat
  <2>1. TypeOK /\ NeverToABlockedAddress /\ WebhookAssumption
    BY DEF WebhooksInv
  <2>2. UNCHANGED <<owned, index, edit, event, deleted>>
    BY DEF PostOnce, DeactivateWebhook, RecordDelivery, store
  <2>3. event[n].at \in {"idle", "targets", "sending"} /\ EventRecords' = EventRecords
    BY <2>1, <2>2 DEF TypeOK, EventRecords
  <2>4. Cardinality(Events) \in Nat
    BY DeliveredAreFew
  <2> QED
    BY <2>1, <2>2, <2>3, <2>4 DEF TypeOK, NeverToABlockedAddress, WebhookAssumption
<1>2. /\ EditsHold /\ TasksHold /\ CountsHold /\ DeletedStaysDead
      /\ \A j \in Ids : Cardinality(Delivered(j)) \in Nat
  BY DeliveredAreFew DEF WebhooksInv
<1>3. t.at \in {"post", "deactivate", "record"}
  BY DEF PostOnce, DeactivateWebhook, RecordDelivery
<1>4. ASSUME NEW r \in TaskRecords, task' = [task EXCEPT ![n][i] = r]
      PROVE  /\ task' \in [Events -> [Ids -> TaskRecords]] /\ u = r
             /\ \A m \in Events, j \in Ids : m # n \/ j # i => task'[m][j] = task[m][j]
  BY <1>1, <1>4, TaskChanges
\* What the step makes of the delivery.
<1>5. /\ u \in TaskRecords /\ u.at # "idle"
      /\ task' \in [Events -> [Ids -> TaskRecords]]
      /\ \A m \in Events, j \in Ids : m # n \/ j # i => task'[m][j] = task[m][j]
      /\ u.at = "post" => u.url = t.url /\ t.at = "post"
      /\ u.at = "deactivate" => u.found = reg[i] /\ reg' = reg
      /\ u.at = "record" => u.count = counts[i]
      /\ u.at = "delivered" => t.at = "record"
  <2>1. CASE DeactivateWebhook(n, i)
    <3> DEFINE r == [t EXCEPT !.at = "gone"]
    <3>1. task' = [task EXCEPT ![n][i] = r]
      BY <1>1, <2>1 DEF DeactivateWebhook
    <3>2. r \in TaskRecords /\ r.at = "gone"
      BY <1>1 DEF TaskRecords
    <3> HIDE DEF r
    <3> QED
      BY <1>4, <3>1, <3>2
  <2>2. CASE RecordDelivery(n, i)
    <3> DEFINE r == [t EXCEPT !.at = "delivered"]
    <3>1. task' = [task EXCEPT ![n][i] = r] /\ t.at = "record"
      BY <1>1, <2>2 DEF RecordDelivery
    <3>2. r \in TaskRecords /\ r.at = "delivered"
      BY <1>1 DEF TaskRecords
    <3> HIDE DEF r
    <3> QED
      BY <1>4, <3>1, <3>2
  <2>3. CASE PostOnce(n, i)
    <3>1. reg' = reg /\ t.at = "post"
      BY <2>3 DEF PostOnce, store
    <3>2. CASE task' = [task EXCEPT ![n][i] = [t EXCEPT !.at = "deactivate", !.found = reg[i]]]
      <4> DEFINE r == [t EXCEPT !.at = "deactivate", !.found = reg[i]]
      <4>1. task' = [task EXCEPT ![n][i] = r]
        BY <3>2
      <4>2. r \in TaskRecords /\ r.at = "deactivate" /\ r.found = reg[i]
        BY <1>1, <3>1 DEF TaskRecords
      <4> HIDE DEF r
      <4> QED
        BY <1>4, <3>1, <4>1, <4>2
    <3>3. CASE task' = [task EXCEPT ![n][i] = [t EXCEPT !.at = "record", !.count = counts[i]]]
      <4> DEFINE r == [t EXCEPT !.at = "record", !.count = counts[i]]
      <4>1. task' = [task EXCEPT ![n][i] = r]
        BY <3>3
      <4>2. r \in TaskRecords /\ r.at = "record" /\ r.count = counts[i]
        BY <1>1, <3>1 DEF TaskRecords
      <4> HIDE DEF r
      <4> QED
        BY <1>4, <3>1, <4>1, <4>2
    <3>4. CASE t.try < MaxAttempts /\ task' = [task EXCEPT ![n][i] = [t EXCEPT !.try = t.try + 1]]
      <4> DEFINE r == [t EXCEPT !.try = t.try + 1]
      <4>1. task' = [task EXCEPT ![n][i] = r]
        BY <3>4
      <4>2. r \in TaskRecords /\ r.at = "post" /\ r.url = t.url
        <5>1. t.try \in 0..MaxAttempts
          BY <1>1 DEF TaskRecords
        <5>2. t.try + 1 \in 0..MaxAttempts
          BY <1>1, <3>4, <5>1
        <5> QED
          BY <1>1, <3>1, <5>2 DEF TaskRecords
      <4> HIDE DEF r
      <4> QED
        BY <1>4, <3>1, <4>1, <4>2
    <3>5. CASE task' = [task EXCEPT ![n][i] = [t EXCEPT !.at = "abandoned"]]
      <4> DEFINE r == [t EXCEPT !.at = "abandoned"]
      <4>1. task' = [task EXCEPT ![n][i] = r]
        BY <3>5
      <4>2. r \in TaskRecords /\ r.at = "abandoned"
        BY <1>1, <3>1 DEF TaskRecords
      <4> HIDE DEF r
      <4> QED
        BY <1>4, <3>1, <4>1, <4>2
    <3>6. \/ task' = [task EXCEPT ![n][i] = [t EXCEPT !.at = "deactivate", !.found = reg[i]]]
          \/ task' = [task EXCEPT ![n][i] = [t EXCEPT !.at = "record", !.count = counts[i]]]
          \/ task' = [task EXCEPT ![n][i] = IF t.try < MaxAttempts
               THEN [t EXCEPT !.try = t.try + 1] ELSE [t EXCEPT !.at = "abandoned"]]
      BY <2>3 DEF PostOnce
    <3> QED
      BY <3>2, <3>3, <3>4, <3>5, <3>6
  <2> QED
    BY <2>1, <2>2, <2>3
\* What it makes of the registration: nothing, or one that is not active.
<1>6. /\ reg' \in [Ids -> Registrations \cup {None}]
      /\ \A j \in Ids : \/ reg'[j] = reg[j]
                        \/ /\ reg'[j] # None /\ ~reg'[j].active
                           /\ \A e \in Edits : edit[e].at = "write" => edit[e].id # j
                           /\ u.at = "gone"
  <2>1. CASE DeactivateWebhook(n, i) /\ t.found # None
    <3>1. t.at = "deactivate" /\ reg' = [reg EXCEPT ![i] = [t.found EXCEPT !.active = FALSE]]
      BY <2>1 DEF DeactivateWebhook
    <3>2. t.found \in Registrations
      BY <1>1, <2>1 DEF TaskRecords
    <3>3. /\ [t.found EXCEPT !.active = FALSE] \in Registrations
          /\ ~[t.found EXCEPT !.active = FALSE].active
      BY <3>2 DEF Registrations
    <3>4. None \notin Registrations
      BY DEF Registrations, WebhookAssumption
    <3>5. \A e \in Edits : edit[e].at = "write" => edit[e].id # i
      BY <1>2, <2>1, <3>1 DEF EditsHold
    <3>6. task' = [task EXCEPT ![n][i] = [t EXCEPT !.at = "gone"]]
      BY <2>1 DEF DeactivateWebhook
    <3>7. [t EXCEPT !.at = "gone"] \in TaskRecords /\ [t EXCEPT !.at = "gone"].at = "gone"
      BY <1>1 DEF TaskRecords
    <3>8. u.at = "gone"
      BY <1>4, <3>6, <3>7
    <3>9. ASSUME NEW r \in Registrations, ~r.active, reg' = [reg EXCEPT ![i] = r]
          PROVE  /\ reg' \in [Ids -> Registrations \cup {None}]
                 /\ reg'[i] # None /\ ~reg'[i].active
                 /\ \A j \in Ids : j # i => reg'[j] = reg[j]
      BY <1>1, <3>4, <3>9
    <3> QED
      BY <3>1, <3>3, <3>5, <3>8, <3>9
  <2>2. CASE ~(DeactivateWebhook(n, i) /\ t.found # None)
    <3>1. reg' = reg
      BY <2>2 DEF PostOnce, DeactivateWebhook, RecordDelivery, store
    <3> QED
      BY <1>1, <3>1
  <2> QED
    BY <2>1, <2>2
\* What it makes of the count: one more, of which it is one.
<1>7. \A j \in Ids : /\ Cardinality(Delivered(j)) <= Cardinality(Delivered(j)')
                     /\ Cardinality(Delivered(j)') \in Nat
                     /\ Cardinality(Delivered(j)') <= Cardinality(Events)
  <2> SUFFICES ASSUME NEW j \in Ids
               PROVE  /\ Cardinality(Delivered(j)) <= Cardinality(Delivered(j)')
                      /\ Cardinality(Delivered(j)') \in Nat
                      /\ Cardinality(Delivered(j)') <= Cardinality(Events)
    OBVIOUS
  <2>1. Delivered(j) \subseteq Delivered(j)'
    BY <1>3, <1>5 DEF Delivered
  <2>2. IsFiniteSet(Events) /\ Delivered(j)' \in SUBSET Events
    BY DEF Delivered, WebhookAssumption
  <2>3. IsFiniteSet(Delivered(j)')
    BY <2>2, FS_Subset
  <2> QED
    BY <2>1, <2>2, <2>3, FS_Subset, FS_CardinalityType
<1>8. /\ counts' \in [Ids -> 0..Cardinality(Events)]
      /\ \A j \in Ids : counts'[j] <= Cardinality(Delivered(j)')
  <2>1. CASE RecordDelivery(n, i)
    <3>1. counts' = [counts EXCEPT ![i] = t.count + 1] /\ t.at = "record"
      BY <2>1 DEF RecordDelivery
    <3>2. task' = [task EXCEPT ![n][i] = [t EXCEPT !.at = "delivered"]]
      BY <2>1 DEF RecordDelivery
    <3>3. [t EXCEPT !.at = "delivered"] \in TaskRecords
          /\ [t EXCEPT !.at = "delivered"].at = "delivered"
      BY <1>1 DEF TaskRecords
    <3>4. u.at = "delivered"
      BY <1>4, <3>2, <3>3
    <3>5. Delivered(i)' = Delivered(i) \cup {n} /\ n \notin Delivered(i)
      BY <1>5, <3>1, <3>4 DEF Delivered
    <3>6. Cardinality(Delivered(i)') = Cardinality(Delivered(i)) + 1
      BY <3>5, DeliveredAreFew, FS_AddElement
    <3>7. t.count \in Nat /\ t.count <= Cardinality(Delivered(i))
      BY <1>1, <1>2, <3>1 DEF TaskRecords, TasksHold
    <3>8. t.count + 1 \in 0..Cardinality(Events) /\ t.count + 1 <= Cardinality(Delivered(i)')
      BY <1>1, <1>2, <1>7, <3>6, <3>7
    <3> QED
      BY <1>1, <1>2, <1>7, <3>1, <3>8 DEF CountsHold
  <2>2. CASE ~RecordDelivery(n, i)
    <3>1. counts' = counts
      BY <2>2 DEF PostOnce, DeactivateWebhook, store
    <3> QED
      BY <1>1, <1>2, <1>7, <3>1 DEF CountsHold
  <2> QED
    BY <2>1, <2>2
\* What was registered is not in the backend's own network, and what is not an
\* address is looked up first.
<1>9. contacted' \subseteq {"public", "blocked"} /\ "blocked" \notin contacted'
  <2>1. CASE PostOnce(n, i)
    <3>1. t.url \in Urls \ Private
      BY <1>2, <2>1 DEF PostOnce, TasksHold
    <3>2. \A a \in Resolves(t.url) : GuardedLookup(t.url, a) => a = "public"
      BY <3>1 DEF Resolves, GuardedLookup
    <3>3. \/ contacted' = contacted
          \/ \E a \in Resolves(t.url) : GuardedLookup(t.url, a) /\ contacted' = contacted \cup {a}
      BY <2>1 DEF PostOnce
    <3> QED
      BY <1>1, <3>2, <3>3
  <2>2. CASE ~PostOnce(n, i)
    BY <1>1, <2>2 DEF DeactivateWebhook, RecordDelivery
  <2> QED
    BY <2>1, <2>2
<1>10. TypeOK'
  <2>1. TaskRecords' = TaskRecords
    BY DEF TaskRecords
  <2>2. TypeOK
    BY DEF WebhooksInv
  <2> QED
    BY <1>1, <1>5, <1>6, <1>8, <1>9, <2>1, <2>2 DEF TypeOK
<1>11. EditsHold'
  <2>1. ASSUME NEW e \in Edits, edit[e].at \in {"list", "disown", "all", "unindex"}
        PROVE  reg'[edit[e].id] = None \/ ~reg'[edit[e].id].active
    <3>1. Dead(edit[e].id) /\ edit[e].id \in Ids
      BY <1>2, <2>1 DEF EditsHold
    <3> QED
      BY <1>6, <3>1 DEF Dead
  <2>2. ASSUME NEW e \in Edits, edit[e].at = "write"
        PROVE  /\ reg'[edit[e].id] = None
               /\ \A m \in Events : task'[m][edit[e].id].at = "deactivate" =>
                    task'[m][edit[e].id].found = None
    <3>1. edit[e].id \in Ids /\ reg[edit[e].id] = None
      BY <1>2, <2>2 DEF EditsHold
    <3>2. \A m \in Events : task[m][edit[e].id].at = "deactivate" =>
            task[m][edit[e].id].found = None
      BY <1>2, <2>2 DEF EditsHold
    <3> QED
      BY <1>5, <1>6, <2>2, <3>1, <3>2
  <2> QED
    BY <1>1, <1>2, <2>1, <2>2 DEF EditsHold, Dead
<1>12. DeletedStaysDead'
  BY <1>1, <1>2, <1>6 DEF DeletedStaysDead, Dead, WebhooksInv, TypeOK
<1>13. TasksHold'
  <2> SUFFICES ASSUME NEW m \in Events, NEW j \in Ids
               PROVE  LET q == task'[m][j] IN
                      /\ event[m].at \in {"idle", "targets"} => q.at = "idle"
                      /\ q.at = "post" => q.url \in Urls \ Private
                      /\ q.at = "deactivate" /\ q.found # None =>
                           reg'[j] # None \/ \E e \in Edits : edit[e].id = j
                      /\ q.at = "record" => q.count <= Cardinality(Delivered(j)')
    BY <1>1 DEF TasksHold
  <2>1. reg[j] # None => reg'[j] # None
    BY <1>6
  <2>2. CASE m = n /\ j = i
    <3>1. event[n].at \notin {"idle", "targets"}
      BY <1>2, <1>3 DEF TasksHold
    <3>2. u.at = "post" => u.url \in Urls \ Private
      BY <1>2, <1>5 DEF TasksHold
    <3>3. u.at = "record" => u.count <= Cardinality(Delivered(i)')
      BY <1>1, <1>2, <1>5, <1>7 DEF CountsHold
    <3> QED
      BY <1>5, <2>1, <2>2, <3>1, <3>2, <3>3
  <2>3. CASE m # n \/ j # i
    <3>1. task'[m][j] = task[m][j] /\ task[m][j] \in TaskRecords
      BY <1>1, <1>5, <2>3
    <3>2. task[m][j].count \in Nat
      BY <1>1, <3>1 DEF TaskRecords
    <3>3. task[m][j].at = "record" => task[m][j].count <= Cardinality(Delivered(j)')
      BY <1>2, <1>7, <3>2 DEF TasksHold
    <3> QED
      BY <1>2, <2>1, <3>1, <3>3 DEF TasksHold
  <2> QED
    BY <2>2, <2>3
<1>14. DeletedGetsNoEvent'
  BY <1>1 DEF DeletedGetsNoEvent, WebhooksInv
<1> QED
  BY <1>8, <1>9, <1>10, <1>11, <1>12, <1>13, <1>14
  DEF WebhooksInv, CountsHold, NeverToABlockedAddress

-----------------------------------------------------------------------------
(* The theorems *)

\* Every step keeps the invariant.
LEMMA WebhooksStep ==
  ASSUME WebhookAssumption, WebhooksInv, [Next]_vars
  PROVE  WebhooksInv'
<1>1. CASE UNCHANGED vars
  <2>1. UNCHANGED <<reg, owned, index, counts, edit, event, task, deleted, contacted>>
    BY <1>1 DEF vars
  <2>2. EventRecords' = EventRecords /\ TaskRecords' = TaskRecords /\ EditRecords' = EditRecords
    BY <2>1 DEF EventRecords, TaskRecords, EditRecords
  <2>3. TypeOK' /\ \A i : Delivered(i)' = Delivered(i)
    BY <2>1, <2>2 DEF WebhooksInv, TypeOK, Delivered
  <2> QED
    BY <2>1, <2>3 DEF WebhooksInv, EditsHold, DeletedStaysDead, Dead, TasksHold, CountsHold,
                      DeletedGetsNoEvent, NeverToABlockedAddress
<1>2. CASE Next
  BY <1>2, QuietEditKeeps, EditStepKeeps, AnnounceKeeps, DeliveryKeeps DEF Next
<1> QED
  BY <1>1, <1>2

\* The inductive invariant holds throughout: who holds an id that is being
\* written, what a delivery took from a registration, and that no deleted webhook
\* is active again (registerWebhook(), deleteWebhook() and deactivateWebhook() of
\* webhooks.js, deliverWithRetry() of webhookDelivery.js).
THEOREM WebhooksInvariance ==
  ASSUME WebhookAssumption
  PROVE  Spec => []WebhooksInv
<1>1. Init => WebhooksInv
  BY WebhooksInit
<1>2. WebhooksInv /\ [Next]_vars => WebhooksInv'
  BY WebhooksStep
<1> QED
  BY <1>1, <1>2, PTL DEF Spec

\* A webhook whose deletion was answered is sent no event announced afterwards,
\* though lists are stale and deactivateWebhook() may write its record back.
THEOREM DeletedWebhooksGetNoEvent ==
  ASSUME WebhookAssumption
  PROVE  Spec => []DeletedGetsNoEvent
<1>1. WebhooksInv => DeletedGetsNoEvent
  BY DEF WebhooksInv
<1> QED
  BY <1>1, WebhooksInvariance, PTL

\* No delivery reaches an address of the backend's own network, whatever a name
\* resolves to by then: validateWebhookUrl() and guardedLookup() cover each other.
THEOREM NothingIsPostedInside ==
  ASSUME WebhookAssumption
  PROVE  Spec => []NeverToABlockedAddress
<1>1. WebhooksInv => NeverToABlockedAddress
  BY DEF WebhooksInv
<1> QED
  BY <1>1, WebhooksInvariance, PTL

-----------------------------------------------------------------------------
(* The record of a job *)

\* What is known of finite sets is known of those of the jobs.
LEMMA JobCardinality == \A S : J!Cardinality(S) = Cardinality(S) /\ (J!IsFiniteSet(S) <=> IsFiniteSet(S))
  BY Zenon DEF J!Cardinality, Cardinality, J!IsFiniteSet, IsFiniteSet

\* Nothing is read and nothing written.
LEMMA JobsInit ==
  ASSUME J!JobsAssumption, J!Init
  PROVE  J!JobsInv
<1>1. /\ \A t \in Tasks : request[t].at = "idle" /\ request[t].read.status = "none"
      /\ request \in [Tasks -> J!TaskRecords]
  BY DEF J!Init, J!Idle, J!TaskRecords, J!Steps, J!Kinds, J!Statuses
<1>2. \A a \in {"done", "yes"} : \A K : J!Said(a, K) = {}
  BY <1>1 DEF J!Said, J!At
<1>3. \A k \in J!Kept : J!Wrote(k) = {}
  BY <1>2 DEF J!Wrote
<1>4. Cardinality({}) = 0 /\ Cardinality(Tasks) \in Nat
  BY FS_EmptySet, FS_CardinalityType, JobCardinality DEF J!JobsAssumption
<1>5. J!JobsTypeOK
  <2>1. record \in J!JobRecords /\ escalated \in BOOLEAN /\ onChain \in BOOLEAN
    BY DEF J!Init, J!JobRecords, J!Statuses
  <2>2. settlements \in Nat /\ writes \in [J!Kept -> Nat] /\ torn \subseteq Tasks
    BY DEF J!Init
  <2> QED
    BY <1>1, <2>1, <2>2 DEF J!JobsTypeOK
<1>6. J!TypeOK
  BY <1>4, JobCardinality DEF J!Init, J!TypeOK, J!Statuses
<1>7. J!JobsHold
  <2>1. /\ record = [status |-> "awaiting_workers", patches |-> {}] /\ ~escalated /\ ~onChain
        /\ J!Cardinality({}) = 0
    BY <1>4, JobCardinality DEF J!Init
  <2>2. /\ J!Said("done", {"update", "approve"}) = {} /\ J!Said("yes", {"review"}) = {}
        /\ J!Said("yes", {"escalate"}) = {} /\ J!Said("yes", {"lift"}) = {}
    BY <1>2
  <2> QED
    BY <2>1, <2>2 DEF J!JobsHold
<1>8. \A k \in J!Kept : writes[k] = J!Cardinality(J!Wrote(k))
  BY <1>3, <1>4, JobCardinality DEF J!Init
<1>9. \A t \in Tasks : J!TaskHolds(request[t])
  BY <1>1 DEF J!TaskHolds, J!Reading, J!Listing
<1> QED
  BY <1>1, <1>5, <1>6, <1>7, <1>8, <1>9 DEF J!JobsInv

\* A request t goes on as x: who has said what, then.
Went(t, x) == /\ request' = [request EXCEPT ![t] = x] /\ x \in J!TaskRecords
              /\ request[t].at \notin {"done", "yes", "no"}
LEMMA WhatIsSaid ==
  ASSUME J!JobsInv, NEW t \in Tasks, NEW x, Went(t, x), NEW a \in {"done", "yes"}, NEW K
  PROVE  /\ t \notin J!Said(a, K)
         /\ J!Said(a, K)' = J!Said(a, K) \cup (IF x.at = a /\ x.kind \in K THEN {t} ELSE {})
<1>1. request \in [Tasks -> J!TaskRecords]
  BY DEF J!JobsInv, J!JobsTypeOK
<1> QED
  BY <1>1 DEF Went, J!Said, J!At

LEMMA NothingIsSaid ==
  ASSUME J!JobsInv, NEW t \in Tasks, NEW x, Went(t, x), x.at \notin {"done", "yes"}
  PROVE  \A a \in {"done", "yes"} : \A K : J!Said(a, K)' = J!Said(a, K)
<1> SUFFICES ASSUME NEW a \in {"done", "yes"}, NEW K
             PROVE  J!Said(a, K)' = J!Said(a, K)
  OBVIOUS
<1>1. J!Said(a, K)' = J!Said(a, K) \cup {}
  BY WhatIsSaid
<1> QED
  BY <1>1

\* How often a record was written is how many requests have written it.
LEMMA WritesAreCounted ==
  ASSUME J!JobsAssumption, J!JobsInv, NEW t \in Tasks, NEW x, Went(t, x),
         LET one == x.at = "done" \/ (x.at = "yes" /\ x.kind = "review")
             list == x.at = "yes" /\ x.kind \in J!Listing
         IN  \/ writes' = writes /\ ~one /\ ~list
             \/ writes' = [writes EXCEPT !["job"] = writes["job"] + 1] /\ one
             \/ writes' = [writes EXCEPT !["escalated"] = writes["escalated"] + 1] /\ list
  PROVE  /\ writes' \in [J!Kept -> Nat]
         /\ \A k \in J!Kept : writes'[k] = J!Cardinality(J!Wrote(k)') /\ writes'[k] <= J!Cardinality(Tasks)
<1>1. /\ writes \in [J!Kept -> Nat] /\ J!Kept = {"job", "escalated"} /\ J!Kinds \cap J!Listing = J!Listing
      /\ x.kind \in J!Kinds
  BY DEF J!JobsInv, J!JobsTypeOK, J!Kept, J!Kinds, J!Listing, Went, J!TaskRecords
<1>2. \A k \in J!Kept : writes[k] = Cardinality(J!Wrote(k)) /\ J!Wrote(k) \in SUBSET Tasks
  BY JobCardinality DEF J!JobsInv, J!Wrote, J!Said
<1>3. IsFiniteSet(Tasks)
  BY JobCardinality DEF J!JobsAssumption
<1>4. \A S \in SUBSET Tasks : /\ IsFiniteSet(S) /\ Cardinality(S) <= Cardinality(Tasks) /\ Cardinality(S) \in Nat
                              /\ t \notin S => Cardinality(S \cup {t}) = Cardinality(S) + 1
  BY <1>3, FS_Subset, FS_CardinalityType, FS_AddElement
<1>5. /\ t \notin J!Wrote("job") /\ t \notin J!Wrote("escalated")
      /\ J!Wrote("job")' = J!Wrote("job") \cup (IF x.at = "done" \/ (x.at = "yes" /\ x.kind = "review") THEN {t} ELSE {})
      /\ J!Wrote("escalated")' = J!Wrote("escalated") \cup (IF x.at = "yes" /\ x.kind \in J!Listing THEN {t} ELSE {})
  <2>1. /\ t \notin J!Said("done", J!Kinds) /\ t \notin J!Said("yes", {"review"}) /\ t \notin J!Said("yes", J!Listing)
        /\ J!Said("done", J!Kinds)' = J!Said("done", J!Kinds) \cup (IF x.at = "done" /\ x.kind \in J!Kinds THEN {t} ELSE {})
        /\ J!Said("yes", {"review"})' = J!Said("yes", {"review"}) \cup (IF x.at = "yes" /\ x.kind \in {"review"} THEN {t} ELSE {})
        /\ J!Said("yes", J!Listing)' = J!Said("yes", J!Listing) \cup (IF x.at = "yes" /\ x.kind \in J!Listing THEN {t} ELSE {})
    BY WhatIsSaid DEF J!Kinds, J!Listing
  <2> QED
    BY <1>1, <2>1 DEF J!Wrote
<1>6. \A k \in J!Kept : J!Wrote(k)' \in SUBSET Tasks
  BY <1>1, <1>2, <1>5
<1>7. \A k \in J!Kept : writes'[k] = Cardinality(J!Wrote(k)')
  BY <1>1, <1>2, <1>4, <1>5 DEF J!Listing
<1>8. writes' \in [J!Kept -> Nat]
  BY <1>1
<1> QED
  BY <1>4, <1>6, <1>7, <1>8, JobCardinality

\* What the requests have read is what is there, unless it was written over.
LEMMA ReadersHold ==
  ASSUME J!JobsInv, NEW t \in Tasks, NEW x, Went(t, x), J!TaskHolds(x)',
         \/ UNCHANGED <<writes, record, escalated>>
         \/ writes' = [writes EXCEPT !["job"] = writes["job"] + 1] /\ UNCHANGED escalated
         \/ writes' = [writes EXCEPT !["escalated"] = writes["escalated"] + 1] /\ UNCHANGED record
  PROVE  request' \in [Tasks -> J!TaskRecords] /\ \A p \in Tasks : J!TaskHolds(request[p])'
<1>1. request \in [Tasks -> J!TaskRecords] /\ writes \in [J!Kept -> Nat] /\ J!Kept = {"job", "escalated"}
  BY DEF J!JobsInv, J!JobsTypeOK, J!Kept
<1>2. request' \in [Tasks -> J!TaskRecords] /\ request'[t] = x /\ \A p \in Tasks : p # t => request'[p] = request[p]
  BY <1>1 DEF Went
<1>3. ASSUME NEW p \in Tasks, p # t
      PROVE  J!TaskHolds(request[p])'
  <2>1. J!TaskHolds(request[p]) /\ request'[p] = request[p] /\ request[p].base \in Nat
    BY <1>1, <1>2, <1>3 DEF J!JobsInv, J!TaskRecords
  <2>2. writes["job"] \in Nat /\ writes["escalated"] \in Nat
    BY <1>1
  <2>3. /\ writes'["job"] >= writes["job"] /\ (writes'["job"] = writes["job"] => record' = record)
        /\ writes'["escalated"] >= writes["escalated"]
        /\ writes'["escalated"] = writes["escalated"] => escalated' = escalated
        /\ writes'["job"] \in Nat /\ writes'["escalated"] \in Nat
    BY <1>1, <2>2
  <2> QED
    BY <2>1, <2>2, <2>3 DEF J!TaskHolds
<1> QED
  BY <1>2, <1>3

\* A request reads what it is going to write.
LEMMA ReadKeeps ==
  ASSUME J!JobsAssumption, J!JobsInv, NEW t \in Tasks,
         \/ \E s \in {"none", "reconciling", "settled"} : J!UpdateJob(t, s)
         \/ J!MarkPendingReview(t) \/ J!ApproveReview(t) \/ \E to \in BOOLEAN : J!Escalate(t, to)
  PROVE  J!JobsInv'
<1>1. /\ UNCHANGED <<record, escalated, settlements, onChain, writes, torn>>
      /\ \E kind \in J!Reading \cup J!Listing, s \in J!Statuses \cup {"none"} :
           /\ kind \in {"update", "approve"} => s # "pending_review"
           /\ J!Reads(t, kind, s, IF kind \in J!Reading THEN "job" ELSE "escalated")
  BY DEF J!UpdateJob, J!MarkPendingReview, J!ApproveReview, J!Escalate, J!Reading, J!Listing, J!Statuses
<1>2. PICK kind \in J!Reading \cup J!Listing, s \in J!Statuses \cup {"none"} :
           /\ kind \in {"update", "approve"} => s # "pending_review"
           /\ J!Reads(t, kind, s, IF kind \in J!Reading THEN "job" ELSE "escalated")
  BY <1>1
<1> DEFINE key == IF kind \in J!Reading THEN "job" ELSE "escalated"
           x == [at |-> kind, kind |-> kind, status |-> s, read |-> record, has |-> escalated, base |-> writes[key]]
<1>3. /\ record \in J!JobRecords /\ escalated \in BOOLEAN /\ writes \in [J!Kept -> Nat] /\ key \in J!Kept
      /\ request \in [Tasks -> J!TaskRecords]
  BY DEF J!JobsInv, J!JobsTypeOK, J!Kept
<1>4. PICK y : /\ Went(t, y) /\ y.at = kind /\ y.kind = kind /\ y.status = s /\ y.read = record
              /\ y.has = escalated /\ y.base = writes[key]
  <2>1. record \in [status : J!Statuses \cup {"none"}, patches : SUBSET Tasks] /\ writes[key] \in Nat
    BY <1>3 DEF J!JobRecords
  <2>2. kind \in J!Steps /\ kind \in J!Kinds
    BY DEF J!Steps, J!Kinds, J!Reading, J!Listing
  <2>3. x \in J!TaskRecords
    BY <1>3, <2>1, <2>2 DEF J!TaskRecords
  <2>4. Went(t, x)
    BY <1>2, <2>3 DEF Went, J!Reads, J!At
  <2> QED
    BY <2>4
<1>5. y.at \notin {"done", "yes"}
  BY <1>4 DEF J!Reading, J!Listing
<1>6. J!TaskHolds(y)'
  <2>1. /\ kind \in J!Reading => kind \notin J!Listing /\ key = "job"
        /\ kind \notin J!Reading => kind \in J!Listing /\ key = "escalated"
        /\ writes["job"] \in Nat /\ writes["escalated"] \in Nat
    BY <1>3 DEF J!Reading, J!Listing, J!Kept
  <2>2. writes[key] = IF kind \in J!Reading THEN writes["job"] ELSE writes["escalated"]
    OBVIOUS
  <2> HIDE DEF key
  <2>3. y.at \in {"update", "approve"} => y.status # "pending_review"
    BY <1>2, <1>4
  <2> QED
    BY <1>1, <1>3, <1>4, <1>5, <2>1, <2>2, <2>3 DEF J!TaskHolds
<1>7. \A a \in {"done", "yes"} : \A K : J!Said(a, K)' = J!Said(a, K)
  BY <1>4, <1>5, NothingIsSaid
<1>8. /\ request' \in [Tasks -> J!TaskRecords] /\ \A p \in Tasks : J!TaskHolds(request[p])'
      /\ \A k \in J!Kept : writes'[k] = J!Cardinality(J!Wrote(k)')
  BY <1>1, <1>4, <1>5, <1>6, ReadersHold, WritesAreCounted
<1>9. J!JobsTypeOK' /\ J!TypeOK'
  BY <1>1, <1>8 DEF J!JobsInv, J!JobsTypeOK, J!TypeOK
<1>10. J!JobsHold'
  BY <1>1, <1>7 DEF J!JobsInv, J!JobsHold
<1>11. ASSUME torn' = {}, NEW p \in Tasks, request'[p].read.status = "pending_review"
       PROVE  J!Said("yes", {"review"})' # {}
  <2>1. CASE p = t
    BY <1>1, <1>3, <1>4, <1>5, <1>7, <1>11, <2>1 DEF Went, J!JobsInv, J!JobsHold
  <2>2. CASE p # t
    BY <1>1, <1>3, <1>4, <1>7, <1>11, <2>2 DEF Went, J!JobsInv
  <2> QED
    BY <2>1, <2>2
<1> QED
  BY <1>8, <1>9, <1>10, <1>11 DEF J!JobsInv

\* What a request says, when it is none of the answers that count.
LEMMA SilentKeeps ==
  ASSUME J!JobsAssumption, J!JobsInv, NEW t \in Tasks, NEW x, Went(t, x), J!TaskHolds(x)',
         x.at \notin {"done", "yes"}, UNCHANGED <<record, escalated, settlements, writes, torn>>,
         onChain' \in BOOLEAN, onChain' # onChain => request[t].read.status = "pending_review",
         x.read = request[t].read \/ x.read = record
  PROVE  J!JobsInv'
<1>1. request \in [Tasks -> J!TaskRecords]
  BY DEF J!JobsInv, J!JobsTypeOK
<1>2. \A a \in {"done", "yes"} : \A K : J!Said(a, K)' = J!Said(a, K)
  BY NothingIsSaid
<1>3. /\ request' \in [Tasks -> J!TaskRecords] /\ \A p \in Tasks : J!TaskHolds(request[p])'
      /\ \A k \in J!Kept : writes'[k] = J!Cardinality(J!Wrote(k)')
  BY ReadersHold, WritesAreCounted
<1>4. J!JobsTypeOK' /\ J!TypeOK'
  BY <1>3 DEF J!JobsInv, J!JobsTypeOK, J!TypeOK
<1>5. J!JobsHold'
  BY <1>2 DEF J!JobsInv, J!JobsHold
<1>6. ASSUME torn' = {}, NEW p \in Tasks, request'[p].read.status = "pending_review"
      PROVE  J!Said("yes", {"review"})' # {}
  <2>1. CASE p = t
    BY <1>1, <1>2, <1>6, <2>1 DEF Went, J!JobsInv, J!JobsHold
  <2>2. CASE p # t
    BY <1>1, <1>2, <1>6, <2>2 DEF Went, J!JobsInv
  <2> QED
    BY <2>1, <2>2
<1> QED
  BY <1>3, <1>4, <1>5, <1>6 DEF J!JobsInv

\* A record is written over what was read of it: a patch, or a review that is queued.
LEMMA WriteKeeps ==
  ASSUME J!JobsAssumption, J!JobsInv, NEW t \in Tasks, NEW x, Went(t, x), NEW s \in J!Statuses,
         LET read == request[t].read
             next == [status |-> s, patches |-> read.patches \cup {t}]
         IN  /\ request[t].at \in J!Reading /\ record' = next
             /\ J!Writes(t, "job") /\ UNCHANGED <<escalated, onChain>>
             /\ \/ /\ x.at = "done" /\ x.kind \in {"update", "approve"}
                   /\ s = "pending_review" => read.status = "pending_review"
                   /\ settlements' = settlements + IF s = "settled" /\ read.status # "settled" THEN 1 ELSE 0
                \/ x.at = "yes" /\ x.kind = "review" /\ s = "pending_review" /\ UNCHANGED settlements
             /\ x.read = read
  PROVE  J!JobsInv'
<1> DEFINE read == request[t].read
<1>1. /\ request \in [Tasks -> J!TaskRecords] /\ writes \in [J!Kept -> Nat] /\ J!TaskHolds(request[t])
      /\ settlements \in Nat
  BY DEF J!JobsInv, J!JobsTypeOK
<1>2. read \in J!JobRecords /\ (request[t].base = writes["job"] => read = record)
  BY <1>1 DEF J!TaskHolds
<1>3. record' \in J!JobRecords /\ settlements' \in Nat /\ torn' \subseteq Tasks
  BY <1>1, <1>2 DEF J!JobRecords, J!Writes, J!JobsInv, J!JobsTypeOK
<1>4. writes' = [writes EXCEPT !["job"] = writes["job"] + 1] /\ (torn' = {} => torn = {} /\ read = record)
  BY <1>2 DEF J!Writes
<1>5. J!TaskHolds(x)'
  BY DEF J!TaskHolds, J!Reading, J!Listing
<1>6. request' \in [Tasks -> J!TaskRecords] /\ \A p \in Tasks : J!TaskHolds(request[p])'
  BY <1>4, <1>5, ReadersHold
<1>7. /\ writes' \in [J!Kept -> Nat]
      /\ \A k \in J!Kept : writes'[k] = J!Cardinality(J!Wrote(k)') /\ writes'[k] <= J!Cardinality(Tasks)
  BY <1>4, WritesAreCounted DEF J!Listing
<1>8. J!JobsTypeOK' /\ J!TypeOK'
  BY <1>3, <1>6, <1>7 DEF J!JobsInv, J!JobsTypeOK, J!TypeOK, J!JobRecords
<1> DEFINE done == J!Said("done", {"update", "approve"})
           queued == J!Said("yes", {"review"})
<1>9. /\ done' = done \cup (IF x.at = "done" THEN {t} ELSE {})
      /\ queued' = queued \cup (IF x.at = "yes" THEN {t} ELSE {})
      /\ J!Said("yes", {"escalate"})' = J!Said("yes", {"escalate"})
      /\ J!Said("yes", {"lift"})' = J!Said("yes", {"lift"})
  <2>1. done' = done \cup (IF x.at = "done" /\ x.kind \in {"update", "approve"} THEN {t} ELSE {})
    BY WhatIsSaid
  <2>2. queued' = queued \cup (IF x.at = "yes" /\ x.kind \in {"review"} THEN {t} ELSE {})
    BY WhatIsSaid
  <2>3. J!Said("yes", {"escalate"})' = J!Said("yes", {"escalate"}) \cup (IF x.at = "yes" /\ x.kind \in {"escalate"} THEN {t} ELSE {})
    BY WhatIsSaid
  <2>4. J!Said("yes", {"lift"})' = J!Said("yes", {"lift"}) \cup (IF x.at = "yes" /\ x.kind \in {"lift"} THEN {t} ELSE {})
    BY WhatIsSaid
  <2> HIDE DEF done, queued
  <2> QED
    BY <2>1, <2>2, <2>3, <2>4
<1>10. ASSUME torn' = {}
       PROVE  /\ J!JobsHold' /\ (queued # {} => queued' # {})
              /\ \A p \in Tasks : request'[p].read.status = "pending_review" => queued' # {}
  <2>1. /\ read = record /\ torn = {} /\ done \cup queued = record.patches
        /\ (record.status = "pending_review" => queued # {}) /\ (onChain => queued # {})
        /\ (record.status = "settled" => settlements >= 1)
        /\ J!Cardinality(J!Said("yes", {"escalate"})) = J!Cardinality(J!Said("yes", {"lift"})) + IF escalated THEN 1 ELSE 0
        /\ \A p \in Tasks : request[p].read.status = "pending_review" => queued # {}
    BY <1>4, <1>10 DEF J!JobsInv, J!JobsHold
  <2>2. record'.patches = read.patches \cup {t} /\ record'.status = s
    OBVIOUS
  <2>3. done' \cup queued' = record'.patches
    BY <1>9, <2>1, <2>2
  <2>4. (queued # {} => queued' # {}) /\ (record'.status = "pending_review" => queued' # {})
    BY <1>9, <2>1, <2>2
  <2>5. record'.status = "settled" => settlements' >= 1
    BY <1>1, <2>1, <2>2
  <2>6. J!Cardinality(J!Said("yes", {"escalate"})') = J!Cardinality(J!Said("yes", {"lift"})') + IF escalated' THEN 1 ELSE 0
    BY <1>9, <2>1
  <2>7. J!JobsHold'
    BY <2>1, <2>3, <2>4, <2>5, <2>6 DEF J!JobsHold
  <2>8. ASSUME NEW p \in Tasks, request'[p].read.status = "pending_review"
        PROVE  queued' # {}
    <3>1. request[p].read = request'[p].read
      BY <1>1 DEF Went
    <3> QED
      BY <2>1, <2>4, <2>8, <3>1
  <2> QED
    BY <2>4, <2>7, <2>8
<1>11. J!JobsHold'
  <2>1. torn' # {} => J!JobsHold'
    BY DEF J!JobsHold
  <2> QED
    BY <1>10, <2>1
<1> QED
  BY <1>6, <1>7, <1>8, <1>10, <1>11 DEF J!JobsInv

\* The list of escalated items is written over what was read of it.
LEMMA ListKeeps ==
  ASSUME J!JobsAssumption, J!JobsInv, NEW t \in Tasks, NEW x, Went(t, x), NEW to \in BOOLEAN,
         request[t].at = (IF to THEN "escalate" ELSE "lift"), request[t].has # to,
         x.at = "yes", x.kind = request[t].at, x.read = request[t].read,
         escalated' = to, J!Writes(t, "escalated"), UNCHANGED <<record, settlements, onChain>>
  PROVE  J!JobsInv'
<1>1. /\ request \in [Tasks -> J!TaskRecords] /\ writes \in [J!Kept -> Nat] /\ J!TaskHolds(request[t])
      /\ escalated \in BOOLEAN /\ torn' \subseteq Tasks
  BY DEF J!JobsInv, J!JobsTypeOK, J!Writes
<1>2. request[t].base = writes["escalated"] => request[t].has = escalated
  BY <1>1 DEF J!TaskHolds, J!Listing
<1>3. writes' = [writes EXCEPT !["escalated"] = writes["escalated"] + 1] /\ (torn' = {} => torn = {} /\ escalated # to)
  BY <1>2 DEF J!Writes
<1>4. J!TaskHolds(x)'
  BY DEF J!TaskHolds, J!Reading, J!Listing
<1>5. request' \in [Tasks -> J!TaskRecords] /\ \A p \in Tasks : J!TaskHolds(request[p])'
  BY <1>3, <1>4, ReadersHold
<1>6. /\ writes' \in [J!Kept -> Nat]
      /\ \A k \in J!Kept : writes'[k] = J!Cardinality(J!Wrote(k)') /\ writes'[k] <= J!Cardinality(Tasks)
  BY <1>3, WritesAreCounted DEF J!Listing
<1>7. J!JobsTypeOK' /\ J!TypeOK'
  BY <1>1, <1>5, <1>6 DEF J!JobsInv, J!JobsTypeOK, J!TypeOK
<1> DEFINE up == J!Said("yes", {"escalate"})
           down == J!Said("yes", {"lift"})
<1>8. /\ J!Said("done", {"update", "approve"})' = J!Said("done", {"update", "approve"})
      /\ J!Said("yes", {"review"})' = J!Said("yes", {"review"})
      /\ up' = up \cup (IF to THEN {t} ELSE {}) /\ down' = down \cup (IF to THEN {} ELSE {t})
      /\ t \notin up /\ t \notin down
  <2>1. J!Said("done", {"update", "approve"})' = J!Said("done", {"update", "approve"}) \cup (IF x.at = "done" /\ x.kind \in {"update", "approve"} THEN {t} ELSE {})
    BY WhatIsSaid
  <2>2. J!Said("yes", {"review"})' = J!Said("yes", {"review"}) \cup (IF x.at = "yes" /\ x.kind \in {"review"} THEN {t} ELSE {})
    BY WhatIsSaid
  <2>3. t \notin up /\ up' = up \cup (IF x.at = "yes" /\ x.kind \in {"escalate"} THEN {t} ELSE {})
    BY WhatIsSaid
  <2>4. t \notin down /\ down' = down \cup (IF x.at = "yes" /\ x.kind \in {"lift"} THEN {t} ELSE {})
    BY WhatIsSaid
  <2> HIDE DEF up, down
  <2> QED
    BY <2>1, <2>2, <2>3, <2>4
<1>9. /\ J!Cardinality(up') = J!Cardinality(up) + (IF to THEN 1 ELSE 0)
      /\ J!Cardinality(down') = J!Cardinality(down) + (IF to THEN 0 ELSE 1)
      /\ J!Cardinality(up) \in Nat /\ J!Cardinality(down) \in Nat
  <2>1. up \in SUBSET Tasks /\ down \in SUBSET Tasks
    BY DEF J!Said
  <2>2. IsFiniteSet(Tasks)
    BY JobCardinality DEF J!JobsAssumption
  <2>3. \A S \in SUBSET Tasks : Cardinality(S) \in Nat /\ (t \notin S => Cardinality(S \cup {t}) = Cardinality(S) + 1)
    BY <2>2, FS_Subset, FS_CardinalityType, FS_AddElement
  <2> HIDE DEF up, down
  <2>4. /\ J!Cardinality(up') = Cardinality(up') /\ J!Cardinality(up) = Cardinality(up)
        /\ J!Cardinality(down') = Cardinality(down') /\ J!Cardinality(down) = Cardinality(down)
    BY JobCardinality
  <2>5. CASE to
    <3>1. up' = up \cup {t} /\ down' = down
      BY <1>8, <2>5
    <3>2. Cardinality(up') = Cardinality(up) + 1 /\ Cardinality(up) \in Nat /\ Cardinality(down) \in Nat
      BY <1>8, <2>1, <2>3, <3>1
    <3> QED
      BY <2>5, <2>4, <3>1, <3>2
  <2>6. CASE ~to
    <3>1. up' = up /\ down' = down \cup {t}
      BY <1>8, <2>6
    <3>2. Cardinality(down') = Cardinality(down) + 1 /\ Cardinality(up) \in Nat /\ Cardinality(down) \in Nat
      BY <1>8, <2>1, <2>3, <3>1
    <3> QED
      BY <2>6, <2>4, <3>1, <3>2
  <2> QED
    BY <2>5, <2>6
<1>10. ASSUME torn' = {}
       PROVE  /\ J!JobsHold'
              /\ \A p \in Tasks : request'[p].read.status = "pending_review" => J!Said("yes", {"review"})' # {}
  <2>1. /\ escalated = ~to /\ torn = {}
        /\ J!Cardinality(up) = J!Cardinality(down) + IF escalated THEN 1 ELSE 0
    BY <1>1, <1>3, <1>10 DEF J!JobsInv, J!JobsHold
  <2>2. J!Cardinality(up') = J!Cardinality(down') + IF escalated' THEN 1 ELSE 0
    <3> HIDE DEF up, down
    <3> QED
      BY <1>9, <2>1
  <2>3. J!JobsHold'
    BY <1>8, <2>1, <2>2 DEF J!JobsInv, J!JobsHold
  <2>4. ASSUME NEW p \in Tasks, request'[p].read.status = "pending_review"
        PROVE  J!Said("yes", {"review"})' # {}
    <3>1. request[p].read = request'[p].read
      BY <1>1 DEF Went
    <3> QED
      BY <1>8, <2>1, <2>4, <3>1 DEF J!JobsInv
  <2> QED
    BY <2>3, <2>4
<1>11. J!JobsHold'
  <2>1. torn' # {} => J!JobsHold'
    BY DEF J!JobsHold
  <2> QED
    BY <1>10, <2>1
<1> QED
  BY <1>5, <1>6, <1>7, <1>10, <1>11 DEF J!JobsInv

\* Every step of the requests.
LEMMA JobsStep ==
  ASSUME J!JobsAssumption, J!JobsInv, [J!Next]_(J!vars)
  PROVE  J!JobsInv' /\ J!StaysSettled
<1>1. request \in [Tasks -> J!TaskRecords] /\ \A t \in Tasks : J!TaskHolds(request[t])
  BY DEF J!JobsInv, J!JobsTypeOK
<1>2. ASSUME record' = record
      PROVE  J!StaysSettled
  BY <1>2 DEF J!StaysSettled
<1>4. ASSUME NEW t \in Tasks, NEW answer \in {"done", "yes", "no"}, J!End(t, answer),
             request[t].at \in J!Reading \cup J!Listing
      PROVE  \E x : /\ Went(t, x) /\ x.at = answer /\ x.kind = request[t].kind /\ x.status = request[t].status
                    /\ x.read = request[t].read
  <2>1. answer \in J!Steps /\ request[t].at \notin {"done", "yes", "no"}
    BY <1>4 DEF J!Steps, J!Reading, J!Listing
  <2> DEFINE x == [request[t] EXCEPT !.at = answer]
  <2>2. x \in J!TaskRecords /\ x.at = answer /\ x.kind = request[t].kind /\ x.status = request[t].status
        /\ x.read = request[t].read
    BY <1>1, <2>1 DEF J!TaskRecords
  <2>3. request' = [request EXCEPT ![t] = x]
    BY <1>1, <1>4 DEF J!End
  <2> HIDE DEF x
  <2> QED
    BY <2>1, <2>2, <2>3 DEF Went
<1>5. ASSUME NEW t \in Tasks, J!WriteJob(t)
      PROVE  J!JobsInv' /\ J!StaysSettled
  <2> DEFINE read == request[t].read
             s == IF request[t].status = "none" THEN read.status ELSE request[t].status
  <2>1. /\ request[t].at = "update" /\ J!End(t, "done") /\ J!Writes(t, "job") /\ UNCHANGED <<escalated, onChain>>
        /\ record' = [status |-> s, patches |-> read.patches \cup {t}]
        /\ settlements' = settlements + IF s = "settled" /\ read.status # "settled" THEN 1 ELSE 0
    BY <1>5 DEF J!WriteJob, J!Merge, J!At
  <2>2. /\ request[t].at \in J!Reading /\ read \in J!JobRecords /\ request[t].kind \in {"update", "approve"}
        /\ request[t].status # "pending_review" /\ request[t].status \in J!Statuses \cup {"none"}
        /\ (request[t].base = writes["job"] => read = record)
    BY <1>1, <2>1 DEF J!TaskHolds, J!Reading, J!TaskRecords
  <2>3. PICK x : /\ Went(t, x) /\ x.at = "done" /\ x.kind = request[t].kind /\ x.status = request[t].status
                 /\ x.read = request[t].read
    BY <1>4, <2>1, <2>2
  <2>4. PICK y : y = s
    OBVIOUS
  <2>5. y \in J!Statuses /\ (y = "pending_review" => read.status = "pending_review")
    BY <2>2, <2>4 DEF J!JobRecords
  <2>6. J!StaysSettled
    <3>1. ASSUME torn' = {}, record.status = "settled"
          PROVE  record'.status # "pending_review"
      <4>1. read = record
        BY <2>1, <2>2, <3>1 DEF J!Writes
      <4> QED
        BY <2>1, <2>4, <2>5, <3>1, <4>1
    <3> QED
      BY <3>1 DEF J!StaysSettled
  <2>7. J!JobsInv'
    BY <2>1, <2>2, <2>3, <2>4, <2>5, WriteKeeps
  <2> QED
    BY <2>6, <2>7
<1>6. ASSUME NEW t \in Tasks, J!WriteReview(t)
      PROVE  J!JobsInv' /\ J!StaysSettled
  <2> DEFINE read == request[t].read
             refused == read.status \in {"settled", "pending_review"}
  <2>1. /\ request[t].at = "review" /\ UNCHANGED <<escalated, settlements, onChain>>
        /\ J!End(t, IF refused THEN "no" ELSE "yes")
        /\ refused => UNCHANGED <<record, writes, torn>>
        /\ ~refused => J!Writes(t, "job") /\ record' = [status |-> "pending_review", patches |-> read.patches \cup {t}]
    BY <1>6 DEF J!WriteReview, J!Merge, J!At
  <2>2. /\ request[t].at \in J!Reading /\ request[t].kind = "review"
        /\ (request[t].base = writes["job"] => read = record)
    BY <1>1, <2>1 DEF J!TaskHolds, J!Reading
  <2>3. CASE refused
    <3>1. PICK x : /\ Went(t, x) /\ x.at = "no" /\ x.kind = request[t].kind /\ x.status = request[t].status
                   /\ x.read = request[t].read
      BY <1>4, <2>1, <2>2, <2>3
    <3>2. J!TaskHolds(x)'
      BY <3>1 DEF J!TaskHolds, J!Reading, J!Listing
    <3>3. onChain \in BOOLEAN
      BY DEF J!JobsInv, J!JobsTypeOK
    <3>4. J!JobsInv'
      BY <2>1, <2>3, <3>1, <3>2, <3>3, SilentKeeps
    <3> QED
      BY <1>2, <2>1, <2>3, <3>4
  <2>4. CASE ~refused
    <3>1. PICK x : /\ Went(t, x) /\ x.at = "yes" /\ x.kind = request[t].kind /\ x.status = request[t].status
                   /\ x.read = request[t].read
      BY <1>4, <2>1, <2>2, <2>4
    <3>2. J!StaysSettled
      BY <2>1, <2>2, <2>4 DEF J!StaysSettled, J!Writes
    <3>3. "pending_review" \in J!Statuses
      BY DEF J!Statuses
    <3>4. J!JobsInv'
      BY <2>1, <2>2, <2>4, <3>1, <3>3, WriteKeeps
    <3> QED
      BY <3>2, <3>4
  <2> QED
    BY <2>3, <2>4
<1>7. ASSUME NEW t \in Tasks, J!SettleReview(t)
      PROVE  J!JobsInv' /\ J!StaysSettled
  <2>1. /\ request[t].at = "approve" /\ UNCHANGED <<record, escalated, settlements, writes, torn>>
        /\ onChain \in BOOLEAN /\ record \in J!JobRecords /\ writes \in [J!Kept -> Nat]
    BY <1>7 DEF J!SettleReview, J!At, J!JobsInv, J!JobsTypeOK
  <2>2. request[t].at \in J!Reading /\ request[t].kind = "approve"
    BY <1>1, <2>1 DEF J!TaskHolds, J!Reading
  <2>3. CASE J!End(t, "no") /\ UNCHANGED onChain
    <3>1. PICK x : /\ Went(t, x) /\ x.at = "no" /\ x.kind = request[t].kind /\ x.status = request[t].status
                   /\ x.read = request[t].read
      BY <1>4, <2>2, <2>3
    <3>2. J!TaskHolds(x)'
      BY <3>1 DEF J!TaskHolds, J!Reading, J!Listing
    <3> QED
      BY <1>2, <2>1, <2>3, <3>1, <3>2, SilentKeeps
  <2>4. CASE /\ request[t].read.status = "pending_review" /\ onChain' = TRUE
             /\ request' = [request EXCEPT ![t].at = "update", ![t].read = record, ![t].base = writes["job"]]
    <3>1. PICK n \in Nat, d \in J!JobRecords : n = writes["job"] /\ d = record
      BY <2>1 DEF J!Kept
    <3> DEFINE x == [request[t] EXCEPT !.at = "update", !.read = d, !.base = n]
    <3>2. /\ x \in J!TaskRecords /\ x.at = "update" /\ x.read = record /\ x.base = writes["job"] /\ x.kind = "approve"
          /\ x.status = request[t].status
      <4>1. "update" \in J!Steps /\ d \in [status : J!Statuses \cup {"none"}, patches : SUBSET Tasks]
        BY DEF J!Steps, J!JobRecords
      <4>2. request[t] \in J!TaskRecords
        BY <1>1
      <4>3. x \in J!TaskRecords
        BY <4>1, <4>2 DEF J!TaskRecords
      <4>4. /\ x.at = "update" /\ x.read = d /\ x.base = n /\ x.kind = request[t].kind
            /\ x.status = request[t].status
        BY <4>2 DEF J!TaskRecords
      <4> QED
        BY <2>2, <3>1, <4>3, <4>4
    <3>3. request' = [request EXCEPT ![t] = x]
      BY <1>1, <2>4, <3>1
    <3>4. Went(t, x)
      BY <2>1, <3>2, <3>3 DEF Went
    <3> HIDE DEF x
    <3>5. PICK y : y = x
      OBVIOUS
    <3>6. J!TaskHolds(y)'
      BY <1>1, <2>1, <3>1, <3>2, <3>5 DEF J!TaskHolds, J!Reading, J!Listing
    <3>7. J!JobsInv'
      BY <2>1, <2>4, <3>2, <3>4, <3>5, <3>6, SilentKeeps
    <3> QED
      BY <1>2, <2>1, <3>7
  <2> QED
    BY <1>7, <2>3, <2>4 DEF J!SettleReview
<1>8. ASSUME NEW t \in Tasks, J!WriteEscalation(t)
      PROVE  J!JobsInv' /\ J!StaysSettled
  <2>1. UNCHANGED <<record, settlements, onChain>> /\ request[t].at \in J!Listing
    BY <1>8 DEF J!WriteEscalation, J!At, J!Listing
  <2>2. PICK to \in BOOLEAN : /\ request[t].at = (IF to THEN "escalate" ELSE "lift")
                              /\ \/ request[t].has = to /\ J!End(t, "no") /\ UNCHANGED <<escalated, writes, torn>>
                                 \/ request[t].has # to /\ J!End(t, "yes") /\ escalated' = to /\ J!Writes(t, "escalated")
    BY <1>8 DEF J!WriteEscalation, J!At
  <2>3. request[t].kind = request[t].at /\ onChain \in BOOLEAN
    BY <1>1, <2>1 DEF J!TaskHolds, J!JobsInv, J!JobsTypeOK
  <2>4. CASE J!End(t, "no") /\ UNCHANGED <<escalated, writes, torn>>
    <3>1. PICK x : /\ Went(t, x) /\ x.at = "no" /\ x.kind = request[t].kind /\ x.status = request[t].status
                   /\ x.read = request[t].read
      BY <1>4, <2>1, <2>4
    <3>2. J!TaskHolds(x)'
      BY <3>1 DEF J!TaskHolds, J!Reading, J!Listing
    <3> QED
      BY <1>2, <2>1, <2>3, <2>4, <3>1, <3>2, SilentKeeps
  <2>5. CASE request[t].has # to /\ J!End(t, "yes") /\ escalated' = to /\ J!Writes(t, "escalated")
    <3>1. PICK x : /\ Went(t, x) /\ x.at = "yes" /\ x.kind = request[t].kind /\ x.status = request[t].status
                   /\ x.read = request[t].read
      BY <1>4, <2>1, <2>5
    <3> QED
      BY <1>2, <2>1, <2>2, <2>3, <2>5, <3>1, ListKeeps
  <2> QED
    BY <2>2, <2>4, <2>5
<1>9. CASE UNCHANGED J!vars
  <2>1. UNCHANGED <<record, request, escalated, settlements, onChain, writes, torn>>
    BY <1>9 DEF J!vars
  <2>2. \A a, K : J!Said(a, K)' = J!Said(a, K)
    BY <2>1 DEF J!Said, J!At
  <2>3. J!JobsTypeOK' /\ J!TypeOK' /\ J!JobsHold'
    BY <2>1, <2>2 DEF J!JobsInv, J!JobsTypeOK, J!TypeOK, J!JobsHold
  <2>4. \A t \in Tasks : J!TaskHolds(request[t])'
    BY <1>1, <2>1 DEF J!TaskHolds
  <2>5. \A k \in J!Kept : J!Wrote(k)' = J!Wrote(k)
    BY <2>2 DEF J!Wrote
  <2> QED
    BY <1>2, <2>1, <2>2, <2>3, <2>4, <2>5 DEF J!JobsInv
<1>10. ASSUME NEW t \in Tasks,
              \/ \E s \in {"none", "reconciling", "settled"} : J!UpdateJob(t, s)
              \/ J!MarkPendingReview(t) \/ J!ApproveReview(t) \/ \E to \in BOOLEAN : J!Escalate(t, to)
       PROVE  J!JobsInv' /\ J!StaysSettled
  <2>1. record' = record
    BY <1>10 DEF J!UpdateJob, J!MarkPendingReview, J!ApproveReview, J!Escalate
  <2> QED
    BY <1>2, <1>10, <2>1, ReadKeeps
<1> QED
  BY <1>5, <1>6, <1>7, <1>8, <1>9, <1>10 DEF J!Next

\* Unless a request writes over what it has not read: no patch of a job is lost, it settles
\* once and is counted so, one caller at most queues its review, and escalations and their
\* liftings alternate (jobs.js).
THEOREM PatchesAreKept == ASSUME J!JobsAssumption PROVE J!Spec => []J!JobsHold
<1>1. J!Init => J!JobsInv
  BY JobsInit
<1>2. J!JobsInv /\ [J!Next]_(J!vars) => J!JobsInv'
  BY JobsStep
<1>3. J!JobsInv => J!JobsHold
  BY DEF J!JobsInv
<1> QED
  BY <1>1, <1>2, <1>3, PTL DEF J!Spec

\* No review reopens a job that is settled, unless it writes over what it has not read.
THEOREM ReviewsReopenNothing == ASSUME J!JobsAssumption PROVE J!Spec => J!NoReviewReopens
<1>1. J!Init => J!JobsInv
  BY JobsInit
<1>2. J!JobsInv /\ [J!Next]_(J!vars) => J!JobsInv' /\ [J!StaysSettled]_(J!vars)
  BY JobsStep
<1> QED
  BY <1>1, <1>2, PTL DEF J!Spec, J!NoReviewReopens

-----------------------------------------------------------------------------
(* The recovery sweep *)

\* What is known of finite sets is known of those of the sweep.
LEMMA SweepCardinality == \A S : Rc!Cardinality(S) = Cardinality(S) /\ (Rc!IsFiniteSet(S) <=> IsFiniteSet(S))
  BY Zenon DEF Rc!Cardinality, Cardinality, Rc!IsFiniteSet, IsFiniteSet

\* Lists without repetition, which are as long as they have members.
Dense(s) == \A i, j \in 1..Len(s) : s[i] = s[j] => i = j
LEMMA MembersOf == \A S, s : s \in Seq(S) => Rc!ToSet(s) = {s[i] : i \in 1..Len(s)} /\ Rc!ToSet(s) \subseteq S
  BY DEF Rc!ToSet
LEMMA DenseLength ==
  ASSUME NEW S, NEW s \in Seq(S), Dense(s)
  PROVE  Len(s) = Rc!Cardinality(Rc!ToSet(s))
<1> DEFINE T == Rc!ToSet(s)
           f == [i \in 1..Len(s) |-> s[i]]
<1>1. Len(s) \in Nat /\ T = {s[i] : i \in 1..Len(s)}
  BY MembersOf
<1>2. IsFiniteSet(1..Len(s)) /\ Cardinality(1..Len(s)) = Len(s)
  BY <1>1, FS_Interval
<1>3. ExistsBijection(1..Len(s), T)
  <2>1. f \in Bijection(1..Len(s), T)
    BY <1>1 DEF Bijection, Injection, Surjection, IsInjective, Dense
  <2> QED
    BY <2>1 DEF ExistsBijection
<1>4. Cardinality(T) = Len(s)
  BY <1>2, <1>3, FS_Bijection
<1> QED
  BY <1>4, SweepCardinality

\* The last takes the place of the one that is removed.
LEMMA SwapRemoved ==
  ASSUME NEW S, NEW s \in Seq(S), Dense(s), NEW q \in Rc!ToSet(s)
  PROVE  /\ Rc!SwapRemove(s, q) \in Seq(S) /\ Dense(Rc!SwapRemove(s, q))
         /\ Len(Rc!SwapRemove(s, q)) = Len(s) - 1 /\ Rc!ToSet(Rc!SwapRemove(s, q)) = Rc!ToSet(s) \ {q}
<1> DEFINE n == Len(s)
           i == CHOOSE k \in 1..n : s[k] = q
           m == [s EXCEPT ![i] = s[n]]
           r == SubSeq(m, 1, n - 1)
<1>1. n \in Nat /\ Rc!ToSet(s) = {s[k] : k \in 1..n} /\ i \in 1..n /\ s[i] = q
  BY MembersOf
<1>2. r = Rc!SwapRemove(s, q)
  BY DEF Rc!SwapRemove
<1> HIDE DEF i
<1>3. m \in Seq(S) /\ Len(m) = n /\ \A k \in 1..n : m[k] = IF k = i THEN s[n] ELSE s[k]
  BY <1>1
<1> HIDE DEF m
<1>4. r \in Seq(S) /\ Len(r) = n - 1 /\ \A k \in 1..n - 1 : r[k] = m[k]
  BY <1>1, <1>3
<1> HIDE DEF r
<1>5. Dense(r)
  <2> SUFFICES ASSUME NEW a \in 1..n - 1, NEW b \in 1..n - 1, r[a] = r[b]
               PROVE  a = b
    BY <1>4 DEF Dense
  <2>1. a \in 1..n /\ b \in 1..n /\ a # n /\ b # n /\ m[a] = m[b]
    BY <1>1, <1>4
  <2>2. /\ m[a] = (IF a = i THEN s[n] ELSE s[a]) /\ m[b] = (IF b = i THEN s[n] ELSE s[b])
        /\ n \in 1..n
    BY <1>1, <1>3, <2>1
  <2> QED
    BY <2>1, <2>2 DEF Dense
<1>6. Rc!ToSet(r) = {r[k] : k \in 1..n - 1}
  BY <1>4, MembersOf
<1>7. Rc!ToSet(r) \subseteq Rc!ToSet(s) \ {q}
  <2> SUFFICES ASSUME NEW k \in 1..n - 1 PROVE r[k] \in {s[l] : l \in 1..n} /\ r[k] # q
    BY <1>1, <1>6
  <2>1. k \in 1..n /\ k # n /\ n \in 1..n
    BY <1>1
  <2>2. r[k] = IF k = i THEN s[n] ELSE s[k]
    BY <1>3, <1>4, <2>1
  <2>3. \A l \in 1..n : s[l] = q => l = i
    BY <1>1 DEF Dense
  <2> QED
    BY <2>1, <2>2, <2>3
<1>8. ASSUME NEW x \in Rc!ToSet(s), x # q
      PROVE  x \in Rc!ToSet(r)
  <2>1. PICK k \in 1..n : s[k] = x /\ k # i
    BY <1>1, <1>8
  <2>2. CASE k < n
    BY <1>1, <1>3, <1>4, <1>6, <2>1, <2>2
  <2>3. CASE k = n
    <3>1. i \in 1..n - 1 /\ r[i] = x
      BY <1>1, <1>3, <1>4, <2>1, <2>3
    <3> QED
      BY <1>6, <3>1
  <2> QED
    BY <1>1, <2>1, <2>2, <2>3
<1> QED
  BY <1>2, <1>4, <1>5, <1>7, <1>8

\* What is submitted comes last.
LEMMA Appended ==
  ASSUME NEW S, NEW s \in Seq(S), Dense(s), NEW q \in S, q \notin Rc!ToSet(s)
  PROVE  /\ Append(s, q) \in Seq(S) /\ Dense(Append(s, q))
         /\ Rc!ToSet(Append(s, q)) = Rc!ToSet(s) \cup {q}
<1>1. /\ Append(s, q) \in Seq(S) /\ Len(Append(s, q)) = Len(s) + 1 /\ Len(s) \in Nat
      /\ \A k \in 1..Len(s) : Append(s, q)[k] = s[k]
      /\ Append(s, q)[Len(s) + 1] = q
  OBVIOUS
<1> DEFINE r == Append(s, q)
<1> HIDE DEF r
<1>2. /\ Rc!ToSet(s) = {s[k] : k \in 1..Len(s)}
      /\ Rc!ToSet(r) = {r[k] : k \in 1..Len(s) + 1}
  BY <1>1, MembersOf DEF r
<1>3. Rc!ToSet(r) = Rc!ToSet(s) \cup {q}
  BY <1>1, <1>2 DEF r
<1>4. Dense(r)
  BY <1>1, <1>2 DEF r, Dense
<1> QED
  BY <1>1, <1>3, <1>4 DEF r

\* Of the conjuncts of the invariant, these are what is left to show after a step.
LEMMA RecoveryFollows ==
  /\ Rc!RecoveryTypeOK /\ Rc!DrivenHold /\ Rc!ReadHold /\ Rc!SweepHold /\ Rc!RecoveryHolds
  /\ Rc!ToSet(pending) \cap settled = {} /\ mode \in {"up", "draining", "down"}
  => Rc!RecoveryInv
<1> SUFFICES ASSUME /\ Rc!RecoveryTypeOK /\ Rc!DrivenHold /\ Rc!ReadHold /\ Rc!SweepHold /\ Rc!RecoveryHolds
                    /\ Rc!ToSet(pending) \cap settled = {} /\ mode \in {"up", "draining", "down"}
             PROVE  Rc!RecoveryInv
  OBVIOUS
<1>1. Len(pending) = Rc!Cardinality(Rc!ToSet(pending))
  BY DenseLength DEF Rc!RecoveryTypeOK, Dense
<1>2. sweep.ids \subseteq Questions /\ sweep.refunds \in 0..MaxRefunds
  BY DEF Rc!RecoveryTypeOK, Rc!SweepRecords
<1> QED
  BY <1>1, <1>2 DEF Rc!RecoveryInv, Rc!TypeOK, Rc!RecoveryTypeOK, Rc!RecoveryHolds

\* What the proofs below take from the invariant.
LEMMA RecoveryGives ==
  ASSUME Rc!RecoveryAssumption, Rc!RecoveryInv
  PROVE  /\ Rc!RecoveryTypeOK /\ Rc!DrivenHold /\ Rc!ReadHold /\ Rc!SweepHold /\ Rc!RecoveryHolds
         /\ Dense(pending) /\ Rc!ToSet(pending) \cap settled = {} /\ mode \in {"up", "draining", "down"}
         /\ Driven \in Nat /\ StaleInflight \in Nat /\ Driven < StaleInflight /\ MinAge \in Nat /\ Driven < MinAge
         /\ MaxRefunds \in Nat /\ None \notin Questions /\ None \notin Rc!JobRecords
BY DEF Rc!RecoveryInv, Rc!RecoveryTypeOK, Rc!TypeOK, Rc!RecoveryAssumption, Dense

\* Nothing is pending and nothing driven.
LEMMA RecoveryInit ==
  ASSUME Rc!RecoveryAssumption, Rc!Init
  PROVE  Rc!RecoveryInv
<1>1. Rc!ToSet(pending) = {} /\ Len(pending) = 0
  BY DEF Rc!Init, Rc!ToSet
<1>2. sweep \in Rc!SweepRecords /\ sweep.at = "idle" /\ sweep.read = {}
  BY DEF Rc!Init, Rc!Idle, Rc!SweepRecords, Rc!RecoveryAssumption
<1>3. Rc!RecoveryTypeOK
  <2>1. pending \in Seq(Questions) /\ \A i, j \in 1..Len(pending) : pending[i] = pending[j] => i = j
    BY <1>1 DEF Rc!Init
  <2>2. /\ created \in [Questions -> Int] /\ job \in [Questions -> Rc!JobRecords \cup {None}]
        /\ live \in [Questions -> {"no", "holding", "tracked"} \cup Rc!Starting]
    BY DEF Rc!Init
  <2>3. /\ now \in Int /\ settled \subseteq Questions /\ stash \subseteq Questions /\ claims \subseteq Questions
        /\ inFlight \in Int /\ throughout \subseteq Questions /\ lost \subseteq Questions
    BY DEF Rc!Init
  <2>4. grown \in BOOLEAN
    BY Zenon DEF Rc!Init
  <2> QED
    BY Zenon, <1>2, <2>1, <2>2, <2>3, <2>4 DEF Rc!RecoveryTypeOK
<1>4. Rc!DrivenHold
  BY <1>1 DEF Rc!Init, Rc!DrivenHold, Rc!QuestionHolds, Rc!Pending, Rc!Kept
<1>5. Rc!SweepHold /\ Rc!ReadHold
  BY <1>2 DEF Rc!SweepHold, Rc!ReadHold
<1>6. {q \in Questions : live[q] = "tracked"} = {} /\ Rc!Cardinality({}) = 0
  BY FS_EmptySet, SweepCardinality DEF Rc!Init
<1>7. Rc!RecoveryHolds
  BY <1>2, <1>6 DEF Rc!Init, Rc!RecoveryHolds
<1> QED
  BY <1>1, <1>3, <1>4, <1>5, <1>7, RecoveryFollows DEF Rc!Init

\* One question is pending that nothing drives.
LEMMA RecoveryWaiting ==
  ASSUME Rc!RecoveryAssumption, NEW w \in Questions,
         now = 0, pending = <<w>>, settled = {}, created = [q \in Questions |-> 0],
         job = [q \in Questions |-> None], stash = {w}, claims = {}, live = [q \in Questions |-> "no"],
         inFlight = 0, mode = "up", sweep = Rc!Idle, throughout = {}, grown = FALSE, lost = {}, wronged = {}
  PROVE  Rc!RecoveryInv
<1>1. pending \in Seq(Questions) /\ Len(pending) = 1 /\ pending[1] = w /\ DOMAIN pending = {1}
  OBVIOUS
<1>2. Rc!ToSet(pending) = {w}
  BY <1>1 DEF Rc!ToSet
<1>3. sweep \in Rc!SweepRecords /\ sweep.at = "idle" /\ sweep.read = {} /\ sweep.ids = {} /\ sweep.refunds = 0
  BY DEF Rc!Idle, Rc!SweepRecords, Rc!RecoveryAssumption
<1>4. Rc!RecoveryTypeOK
  <2>1. \A i, j \in 1..Len(pending) : pending[i] = pending[j] => i = j
    BY <1>1
  <2>2. /\ created \in [Questions -> Int] /\ job \in [Questions -> Rc!JobRecords \cup {None}]
        /\ live \in [Questions -> {"no", "holding", "tracked"} \cup Rc!Starting]
    OBVIOUS
  <2>3. /\ now \in Int /\ settled \subseteq Questions /\ stash \subseteq Questions /\ claims \subseteq Questions
        /\ inFlight \in Int /\ throughout \subseteq Questions /\ lost \subseteq Questions
    OBVIOUS
  <2>4. grown \in BOOLEAN
    BY Zenon
  <2> QED
    BY Zenon, <1>1, <1>3, <2>1, <2>2, <2>3, <2>4 DEF Rc!RecoveryTypeOK
<1>5. Rc!DrivenHold
  BY <1>2 DEF Rc!DrivenHold, Rc!QuestionHolds, Rc!Pending, Rc!Kept
<1>6. Rc!SweepHold /\ Rc!ReadHold
  BY <1>3 DEF Rc!SweepHold, Rc!ReadHold
<1>7. {q \in Questions : live[q] = "tracked"} = {} /\ Rc!Cardinality({}) = 0
  BY FS_EmptySet, SweepCardinality
<1>8. Rc!RecoveryHolds
  BY <1>3, <1>7 DEF Rc!RecoveryHolds
<1> QED
  BY <1>2, <1>4, <1>5, <1>6, <1>8, RecoveryFollows

\* What of a question is not touched is as it was.
Untouched(q) == /\ job'[q] = job[q] /\ live'[q] = live[q] /\ (q \in stash' <=> q \in stash)
                /\ (q \in claims' <=> q \in claims) /\ (q \in lost' <=> q \in lost)
LEMMA UntouchedKeeps ==
  ASSUME NEW q \in Questions, Untouched(q), UNCHANGED <<now, pending, settled, created>>
  PROVE  /\ Rc!Kept(q)' <=> Rc!Kept(q)
         /\ Rc!Doomed(q)' <=> Rc!Doomed(q)
         /\ Rc!QuestionHolds(q) => Rc!QuestionHolds(q)'
         /\ UNCHANGED sweep /\ Rc!ReadHolds(q) => Rc!ReadHolds(q)'
<1>1. Rc!Pending(q)' <=> Rc!Pending(q)
  BY DEF Rc!Pending
<1>2. Rc!Kept(q)' <=> Rc!Kept(q)
  BY <1>1 DEF Untouched, Rc!Kept
<1>3. Rc!Doomed(q)' <=> Rc!Doomed(q)
  BY <1>1, <1>2 DEF Untouched, Rc!Doomed, Rc!Drives
<1>4. Rc!Fresh(q)' <=> Rc!Fresh(q)
  BY DEF Untouched, Rc!Fresh, Rc!Inflight
<1>5. Rc!QuestionHolds(q) => Rc!QuestionHolds(q)'
  BY <1>1, <1>2, <1>4 DEF Untouched, Rc!QuestionHolds
<1>6. UNCHANGED sweep /\ Rc!ReadHolds(q) => Rc!ReadHolds(q)'
  BY <1>1, <1>2, <1>3 DEF Untouched, Rc!ReadHolds, Rc!Dooming, Rc!Inflight
<1> QED
  BY <1>2, <1>3, <1>5, <1>6

\* What an instance does with one question changes, or what the store has of it.
OfTheQuestion(q) ==
  /\ UNCHANGED <<now, pending, settled, created, mode, sweep, throughout, grown, wronged>>
  /\ job' \in [Questions -> Rc!JobRecords \cup {None}] /\ live' \in [Questions -> {"no", "holding", "tracked"} \cup Rc!Starting]
  /\ stash' \subseteq Questions /\ claims' \subseteq Questions /\ lost' \subseteq Questions
  /\ \A p \in Questions : p # q => Untouched(p)
LEMMA OneKeeps ==
  ASSUME Rc!RecoveryAssumption, Rc!RecoveryInv, NEW q \in Questions, OfTheQuestion(q), Rc!QuestionHolds(q)',
         Rc!Doomed(q) => Rc!Doomed(q)',
         sweep.at = "read" /\ sweep.q = q /\ Rc!ReadHolds(q) => Rc!ReadHolds(q)',
         inFlight' \in Int, inFlight' = Rc!Cardinality({p \in Questions : live'[p] = "tracked"})
  PROVE  Rc!RecoveryInv'
<1>1. /\ UNCHANGED <<now, pending, settled, created, mode, sweep, throughout, grown, wronged>>
      /\ \A p \in Questions : p # q => Untouched(p)
  BY DEF OfTheQuestion
<1>2. Rc!RecoveryTypeOK'
  BY <1>1, RecoveryGives DEF Rc!RecoveryTypeOK, OfTheQuestion
<1>3. Rc!DrivenHold'
  <2>1. \A p \in Questions : p # q => Rc!QuestionHolds(p)'
    BY <1>1, UntouchedKeeps, RecoveryGives DEF Rc!DrivenHold
  <2> QED
    BY <2>1 DEF Rc!DrivenHold
<1>4. \A p \in Questions : Rc!Doomed(p) => Rc!Doomed(p)'
  BY <1>1, UntouchedKeeps
<1>5. Rc!ReadHold'
  <2> SUFFICES ASSUME sweep.at = "read"
               PROVE  sweep.q \in Questions /\ Rc!ReadHolds(sweep.q)'
    BY <1>1, RecoveryGives DEF Rc!ReadHold
  <2>1. PICK p \in Questions : p = sweep.q /\ Rc!ReadHolds(p)
    BY RecoveryGives DEF Rc!ReadHold
  <2>2. Rc!ReadHolds(p)'
    BY <1>1, <2>1, UntouchedKeeps
  <2> QED
    BY <1>1, <2>1, <2>2
<1>6. Rc!SweepHold'
  <2>1. \A p : Rc!Doomed(p) => p \in Questions
    BY DEF Rc!Doomed
  <2>2. sweep.at \in {"fresh", "refund", "record"} => sweep.q \in Questions /\ Rc!Doomed(sweep.q)
    BY <2>1, RecoveryGives DEF Rc!SweepHold
  <2>3. sweep.at \in {"fresh", "refund", "record"} => Rc!Doomed(sweep.q)'
    <3> SUFFICES ASSUME sweep.at \in {"fresh", "refund", "record"} PROVE Rc!Doomed(sweep.q)'
      OBVIOUS
    <3>1. PICK p \in Questions : p = sweep.q /\ Rc!Doomed(p)
      BY <2>2
    <3>2. Rc!Doomed(p)'
      BY <1>4, <3>1
    <3>3. p = sweep'.q
      BY <1>1, <3>1
    <3> QED
      BY <3>1, <3>2, <3>3
  <2>4. Rc!ToSet(pending)' = Rc!ToSet(pending)
    BY <1>1
  <2> QED
    BY <1>1, <2>3, <2>4, RecoveryGives DEF Rc!SweepHold
<1>7. Rc!RecoveryHolds'
  BY <1>1, RecoveryGives DEF Rc!RecoveryHolds
<1>8. (Rc!ToSet(pending) \cap settled = {} /\ mode \in {"up", "draining", "down"})'
  BY <1>1, RecoveryGives
<1> QED
  BY <1>2, <1>3, <1>5, <1>6, <1>7, <1>8, RecoveryFollows, PTL

\* A record that is written is a record, and is there.
LEMMA JobIsWritten ==
  ASSUME Rc!RecoveryAssumption, Rc!RecoveryInv, NEW q \in Questions,
         NEW status \in {"holding", "awaiting_workers", "settled"},
         NEW outcome \in {"none", "settled", "refund_pending_timeout"}, Rc!SetJob(q, status, outcome)
  PROVE  /\ job' \in [Questions -> Rc!JobRecords \cup {None}]
         /\ job'[q] # None /\ job'[q].status = status /\ (status # "settled" => job'[q].updatedAt = now)
         /\ \A p \in Questions : p # q => job'[p] = job[p]
<1>1. Rc!Job(status, outcome) \in Rc!JobRecords /\ Rc!Job(status, outcome).status = status
      /\ (status # "settled" => Rc!Job(status, outcome).updatedAt = now)
  BY DEF Rc!Job, Rc!JobRecords, Rc!RecoveryInv, Rc!RecoveryTypeOK
<1>2. job \in [Questions -> Rc!JobRecords \cup {None}] /\ None \notin Rc!JobRecords
  BY DEF Rc!RecoveryInv, Rc!RecoveryTypeOK, Rc!RecoveryAssumption
<1> QED
  BY <1>1, <1>2 DEF Rc!SetJob

\* The fulfilments that are counted.
Tracked(l) == {p \in Questions : l[p] = "tracked"}
LEMMA TrackedCounts ==
  ASSUME Rc!RecoveryAssumption, Rc!RecoveryInv
  PROVE  /\ inFlight = Rc!Cardinality(Tracked(live)) /\ inFlight \in Nat
         /\ \A q \in Questions : live[q] # "tracked" =>
              Rc!Cardinality(Tracked(live) \cup {q}) = inFlight + 1
         /\ \A q \in Questions : live[q] = "tracked" =>
              Rc!Cardinality(Tracked(live) \ {q}) = inFlight - 1
         /\ inFlight = 0 => \A q \in Questions : live[q] # "tracked"
<1>1. IsFiniteSet(Questions) /\ Tracked(live) \subseteq Questions
  BY SweepCardinality DEF Rc!RecoveryAssumption, Tracked
<1>2. IsFiniteSet(Tracked(live)) /\ Cardinality(Tracked(live)) \in Nat
  BY <1>1, FS_Subset, FS_CardinalityType
<1>3. inFlight = Cardinality(Tracked(live))
  BY SweepCardinality DEF Rc!RecoveryInv, Rc!RecoveryHolds, Tracked
<1>4. \A q : q \notin Tracked(live) => Cardinality(Tracked(live) \cup {q}) = Cardinality(Tracked(live)) + 1
  BY <1>2, FS_AddElement
<1>5. \A q : q \in Tracked(live) => Cardinality(Tracked(live) \ {q}) = Cardinality(Tracked(live)) - 1
  BY <1>2, FS_RemoveElement
<1>6. Cardinality(Tracked(live)) = 0 => Tracked(live) = {}
  BY <1>2, FS_EmptySet
<1> QED
  BY <1>2, <1>3, <1>4, <1>5, <1>6, SweepCardinality DEF Tracked

LEMMA Goes ==
  ASSUME Rc!RecoveryAssumption, Rc!RecoveryInv, NEW q \in Questions,
         NEW how \in {"no", "holding", "tracked"} \cup Rc!Starting, Rc!Goes(q, how)
  PROVE  /\ live' \in [Questions -> {"no", "holding", "tracked"} \cup Rc!Starting] /\ live'[q] = how
         /\ \A p \in Questions : p # q => live'[p] = live[p]
         /\ Rc!Cardinality({p \in Questions : live'[p] = "tracked"})
            = inFlight + (IF how = "tracked" THEN 1 ELSE 0) - (IF live[q] = "tracked" THEN 1 ELSE 0)
<1>1. live \in [Questions -> {"no", "holding", "tracked"} \cup Rc!Starting] /\ live' = [live EXCEPT ![q] = how]
  BY RecoveryGives DEF Rc!RecoveryTypeOK, Rc!Goes
<1>2. live'[q] = how /\ \A p \in Questions : p # q => live'[p] = live[p]
  BY <1>1
<1> DEFINE T == {p \in Questions : live'[p] = "tracked"}
<1>3. T = IF how = "tracked" THEN Tracked(live) \cup {q} ELSE Tracked(live) \ {q}
  BY <1>2 DEF Tracked
<1>4. (live[q] = "tracked" => Tracked(live) \cup {q} = Tracked(live))
      /\ (live[q] # "tracked" => Tracked(live) \ {q} = Tracked(live))
  BY DEF Tracked
<1> HIDE DEF T
<1>5. Rc!Cardinality(T) = inFlight + (IF how = "tracked" THEN 1 ELSE 0) - (IF live[q] = "tracked" THEN 1 ELSE 0)
  <2>1. CASE live[q] = "tracked" /\ how = "tracked"
    BY <1>3, <1>4, <2>1, TrackedCounts
  <2>2. CASE live[q] # "tracked" /\ how = "tracked"
    BY <1>3, <2>2, TrackedCounts
  <2>3. CASE live[q] = "tracked" /\ how # "tracked"
    BY <1>3, <2>3, TrackedCounts
  <2>4. CASE live[q] # "tracked" /\ how # "tracked"
    BY <1>3, <1>4, <2>4, TrackedCounts
  <2> QED
    BY <2>1, <2>2, <2>3, <2>4
<1> QED
  BY <1>1, <1>2, <1>5 DEF T
LEMMA GoesUntracked ==
  ASSUME Rc!RecoveryAssumption, Rc!RecoveryInv, NEW q \in Questions, live[q] # "tracked",
         NEW how \in {"no", "holding"} \cup Rc!Starting, Rc!Goes(q, how), UNCHANGED inFlight
  PROVE  /\ live' \in [Questions -> {"no", "holding", "tracked"} \cup Rc!Starting] /\ live'[q] = how
         /\ \A p \in Questions : p # q => live'[p] = live[p]
         /\ inFlight' = Rc!Cardinality({p \in Questions : live'[p] = "tracked"}) /\ inFlight' \in Int
<1>1. how \in {"no", "holding", "tracked"} \cup Rc!Starting /\ how # "tracked" /\ inFlight \in Nat
  BY TrackedCounts DEF Rc!Starting
<1> QED
  BY <1>1, Goes

\* A request finds the stash, and then what was paid.
LEMMA ReadStashKeeps ==
  ASSUME Rc!RecoveryAssumption, Rc!RecoveryInv, NEW q \in Questions, Rc!ReadStash(q)
  PROVE  Rc!RecoveryInv'
<1>1. /\ live[q] = "no" /\ q \in stash /\ Rc!Goes(q, "asked")
      /\ UNCHANGED <<now, pending, settled, created, job, stash, claims, inFlight, mode, sweep, throughout, grown, lost, wronged>>
  BY DEF Rc!ReadStash, Rc!chain, Rc!records, Rc!history
<1>2. /\ live' \in [Questions -> {"no", "holding", "tracked"} \cup Rc!Starting] /\ live'[q] = "asked"
      /\ \A p \in Questions : p # q => live'[p] = live[p]
      /\ inFlight' = Rc!Cardinality({p \in Questions : live'[p] = "tracked"}) /\ inFlight' \in Int
  BY <1>1, GoesUntracked DEF Rc!Starting
<1>3. Rc!QuestionHolds(q) /\ q \notin lost
  BY <1>1, RecoveryGives DEF Rc!DrivenHold, Rc!QuestionHolds
<1>4. OfTheQuestion(q)
  BY <1>1, <1>2, RecoveryGives DEF OfTheQuestion, Untouched, Rc!RecoveryTypeOK
<1>5. Rc!QuestionHolds(q)'
  BY <1>1, <1>2, <1>3 DEF Rc!QuestionHolds, Rc!Kept, Rc!Pending, Rc!Fresh
<1>6. Rc!Doomed(q) => Rc!Doomed(q)'
  BY <1>1, <1>2, <1>3 DEF Rc!Doomed, Rc!Kept, Rc!Pending, Rc!Drives
<1>7. sweep.at = "read" /\ sweep.q = q /\ Rc!ReadHolds(q) => Rc!ReadHolds(q)'
  BY <1>1, <1>2, <1>3, <1>6 DEF Rc!ReadHolds, Rc!Kept, Rc!Pending, Rc!Dooming, Rc!Inflight
<1> QED
  BY <1>2, <1>4, <1>5, <1>6, <1>7, OneKeeps
LEMMA VerifyKeeps ==
  ASSUME Rc!RecoveryAssumption, Rc!RecoveryInv, NEW q \in Questions, Rc!VerifyPayment(q)
  PROVE  Rc!RecoveryInv'
<1>1. /\ live[q] = "asked"
      /\ \/ Rc!Pending(q) /\ Rc!Goes(q, "paid") /\ lost' = lost
         \/ ~Rc!Pending(q) /\ Rc!Goes(q, "no") /\ lost' = lost \ {q}
      /\ UNCHANGED <<now, pending, settled, created, job, stash, claims, inFlight, mode, sweep, throughout, grown, wronged>>
  BY DEF Rc!VerifyPayment, Rc!Drop, Rc!chain, Rc!records
<1>2. /\ live' \in [Questions -> {"no", "holding", "tracked"} \cup Rc!Starting]
      /\ live'[q] = IF Rc!Pending(q) THEN "paid" ELSE "no"
      /\ \A p \in Questions : p # q => live'[p] = live[p]
      /\ inFlight' = Rc!Cardinality({p \in Questions : live'[p] = "tracked"}) /\ inFlight' \in Int
  BY <1>1, GoesUntracked DEF Rc!Starting
<1>3. Rc!QuestionHolds(q)
  BY <1>1, RecoveryGives DEF Rc!DrivenHold
<1>4. OfTheQuestion(q)
  BY <1>1, <1>2, RecoveryGives DEF OfTheQuestion, Untouched, Rc!RecoveryTypeOK
<1>5. Rc!QuestionHolds(q)'
  BY <1>1, <1>2, <1>3 DEF Rc!QuestionHolds, Rc!Kept, Rc!Pending, Rc!Fresh
<1>6. Rc!Doomed(q) => Rc!Doomed(q)'
  BY <1>1, <1>2, <1>3 DEF Rc!Doomed, Rc!Kept, Rc!Pending, Rc!Drives, Rc!QuestionHolds
<1>7. sweep.at = "read" /\ sweep.q = q /\ Rc!ReadHolds(q) => Rc!ReadHolds(q)'
  BY <1>1, <1>2, <1>3, <1>6 DEF Rc!ReadHolds, Rc!Kept, Rc!Pending, Rc!Dooming, Rc!Inflight
<1> QED
  BY <1>2, <1>4, <1>5, <1>6, <1>7, OneKeeps
LEMMA StashKeeps ==
  ASSUME Rc!RecoveryAssumption, Rc!RecoveryInv, NEW q \in Questions, Rc!StashQuestion(q)
  PROVE  Rc!RecoveryInv'
<1>1. /\ live[q] = "charged" /\ Rc!Goes(q, "paid") /\ stash' = stash \cup {q}
      /\ UNCHANGED <<now, pending, settled, created, job, claims, inFlight, mode, sweep, throughout, grown, lost, wronged>>
  BY DEF Rc!StashQuestion, Rc!chain, Rc!history
<1>2. /\ live' \in [Questions -> {"no", "holding", "tracked"} \cup Rc!Starting] /\ live'[q] = "paid"
      /\ \A p \in Questions : p # q => live'[p] = live[p]
      /\ inFlight' = Rc!Cardinality({p \in Questions : live'[p] = "tracked"}) /\ inFlight' \in Int
  BY <1>1, GoesUntracked DEF Rc!Starting
<1>3. Rc!QuestionHolds(q)
  BY <1>1, RecoveryGives DEF Rc!DrivenHold
<1>4. OfTheQuestion(q)
  BY <1>1, <1>2, RecoveryGives DEF OfTheQuestion, Untouched, Rc!RecoveryTypeOK
<1>5. Rc!QuestionHolds(q)'
  BY <1>1, <1>2, <1>3 DEF Rc!QuestionHolds, Rc!Kept, Rc!Pending, Rc!Fresh
<1>6. Rc!Doomed(q) => Rc!Doomed(q)'
  BY <1>1, <1>2, <1>3 DEF Rc!Doomed, Rc!Kept, Rc!Pending, Rc!Drives, Rc!QuestionHolds
<1>7. Rc!Pending(q) /\ q \notin lost => now - created[q] < MinAge
  <2>1. now \in Int /\ created[q] \in Int
    BY RecoveryGives DEF Rc!RecoveryTypeOK
  <2> QED
    BY <1>1, <1>3, <2>1, RecoveryGives DEF Rc!QuestionHolds, Rc!Kept
<1>8. sweep.at = "read" /\ sweep.q = q /\ Rc!ReadHolds(q) => Rc!ReadHolds(q)'
  BY <1>1, <1>2, <1>3, <1>6, <1>7 DEF Rc!ReadHolds, Rc!Kept, Rc!Pending, Rc!Dooming, Rc!Inflight
<1> QED
  BY <1>2, <1>4, <1>5, <1>6, <1>8, OneKeeps

\* A claim is granted once; who has one writes the job's record, and tracks it
\* after its hold.
LEMMA ClaimKeeps ==
  ASSUME Rc!RecoveryAssumption, Rc!RecoveryInv, NEW q \in Questions, Rc!ClaimJob(q)
  PROVE  Rc!RecoveryInv'
<1>1. /\ live[q] = "paid" /\ claims' = claims \cup {q}
      /\ \/ q \notin claims /\ Rc!Goes(q, "claimed") /\ lost' = lost
         \/ q \in claims /\ Rc!Goes(q, "no") /\ lost' = lost \ {q}
      /\ UNCHANGED <<now, pending, settled, created, job, stash, inFlight, mode, sweep, throughout, grown, wronged>>
  BY DEF Rc!ClaimJob, Rc!Drop, Rc!chain
<1>2. /\ live' \in [Questions -> {"no", "holding", "tracked"} \cup Rc!Starting]
      /\ live'[q] = IF q \in claims THEN "no" ELSE "claimed"
      /\ \A p \in Questions : p # q => live'[p] = live[p]
      /\ inFlight' = Rc!Cardinality({p \in Questions : live'[p] = "tracked"}) /\ inFlight' \in Int
  BY <1>1, GoesUntracked DEF Rc!Starting
<1>3. Rc!QuestionHolds(q)
  BY <1>1, RecoveryGives DEF Rc!DrivenHold
<1>4. OfTheQuestion(q)
  BY <1>1, <1>2, RecoveryGives DEF OfTheQuestion, Untouched, Rc!RecoveryTypeOK
<1>5. Rc!QuestionHolds(q)'
  BY <1>1, <1>2, <1>3 DEF Rc!QuestionHolds, Rc!Kept, Rc!Pending, Rc!Fresh
<1>6. Rc!Doomed(q) => Rc!Doomed(q)'
  BY <1>1, <1>2, <1>3 DEF Rc!Doomed, Rc!Kept, Rc!Pending, Rc!Drives, Rc!QuestionHolds
<1>7. sweep.at = "read" /\ sweep.q = q /\ Rc!ReadHolds(q) => Rc!ReadHolds(q)'
  <2>1. q \in stash /\ q \in claims => q \notin lost
    BY <1>1, <1>3 DEF Rc!QuestionHolds
  <2>2. Rc!Kept(q)' => Rc!Kept(q) \/ q \notin stash
    BY <1>1, <2>1 DEF Rc!Kept, Rc!Pending
  <2> QED
    BY <1>1, <1>2, <1>3, <1>6, <2>2 DEF Rc!ReadHolds, Rc!Pending, Rc!Dooming, Rc!Inflight
<1> QED
  BY <1>2, <1>4, <1>5, <1>6, <1>7, OneKeeps
LEMMA CreateKeeps ==
  ASSUME Rc!RecoveryAssumption, Rc!RecoveryInv, NEW q \in Questions, Rc!CreateJob(q)
  PROVE  Rc!RecoveryInv'
<1>1. /\ live[q] = "claimed" /\ Rc!Goes(q, "holding") /\ Rc!SetJob(q, "holding", "none")
      /\ UNCHANGED <<now, pending, settled, created, stash, claims, inFlight, mode, sweep, throughout, grown, lost, wronged>>
  BY DEF Rc!CreateJob, Rc!chain, Rc!history
<1>2. /\ live' \in [Questions -> {"no", "holding", "tracked"} \cup Rc!Starting] /\ live'[q] = "holding"
      /\ \A p \in Questions : p # q => live'[p] = live[p]
      /\ inFlight' = Rc!Cardinality({p \in Questions : live'[p] = "tracked"}) /\ inFlight' \in Int
  BY <1>1, GoesUntracked
<1>3. Rc!QuestionHolds(q)
  BY <1>1, RecoveryGives DEF Rc!DrivenHold
<1>4. /\ job' \in [Questions -> Rc!JobRecords \cup {None}] /\ job'[q] # None
      /\ job'[q].status = "holding" /\ job'[q].updatedAt = now
      /\ \A p \in Questions : p # q => job'[p] = job[p]
  BY <1>1, JobIsWritten
<1>5. OfTheQuestion(q)
  BY <1>1, <1>2, <1>4, RecoveryGives DEF OfTheQuestion, Untouched, Rc!RecoveryTypeOK
<1>6. Rc!Fresh(q)'
  <2>1. now' = now /\ now - now <= Driven
    BY <1>1, RecoveryGives DEF Rc!RecoveryTypeOK
  <2> QED
    BY <1>4, <2>1 DEF Rc!Fresh, Rc!Inflight
<1>7. Rc!QuestionHolds(q)'
  BY <1>1, <1>2, <1>3, <1>6 DEF Rc!QuestionHolds, Rc!Kept, Rc!Pending
<1>8. Rc!Doomed(q) => Rc!Doomed(q)'
  BY <1>1, <1>2, <1>3 DEF Rc!Doomed, Rc!Kept, Rc!Pending, Rc!Drives, Rc!QuestionHolds
<1>9. sweep.at = "read" /\ sweep.q = q /\ Rc!ReadHolds(q) => Rc!ReadHolds(q)'
  BY <1>1, <1>2, <1>3, <1>8 DEF Rc!ReadHolds, Rc!Kept, Rc!Pending, Rc!Dooming, Rc!Inflight, Rc!QuestionHolds
<1> QED
  BY <1>2, <1>5, <1>7, <1>8, <1>9, OneKeeps
LEMMA TrackKeeps ==
  ASSUME Rc!RecoveryAssumption, Rc!RecoveryInv, NEW q \in Questions, Rc!Track(q)
  PROVE  Rc!RecoveryInv'
<1>1. /\ live[q] = "holding" /\ Rc!Goes(q, "tracked") /\ inFlight' = inFlight + 1
      /\ Rc!SetJob(q, "awaiting_workers", "none")
      /\ UNCHANGED <<now, pending, settled, created, stash, claims, mode, sweep, throughout, grown, lost, wronged>>
  BY DEF Rc!Track, Rc!chain, Rc!history
<1>2. /\ live' \in [Questions -> {"no", "holding", "tracked"} \cup Rc!Starting] /\ live'[q] = "tracked"
      /\ \A p \in Questions : p # q => live'[p] = live[p]
      /\ inFlight' = Rc!Cardinality({p \in Questions : live'[p] = "tracked"}) /\ inFlight' \in Int
  <2>1. /\ live' \in [Questions -> {"no", "holding", "tracked"} \cup Rc!Starting] /\ live'[q] = "tracked"
        /\ \A p \in Questions : p # q => live'[p] = live[p]
        /\ Rc!Cardinality({p \in Questions : live'[p] = "tracked"}) = inFlight + 1 - 0
    BY <1>1, Goes
  <2>2. inFlight \in Nat
    BY TrackedCounts
  <2> QED
    BY <1>1, <2>1, <2>2
<1>3. Rc!QuestionHolds(q)
  BY <1>1, RecoveryGives DEF Rc!DrivenHold
<1>4. /\ job' \in [Questions -> Rc!JobRecords \cup {None}] /\ job'[q] # None
      /\ job'[q].status = "awaiting_workers" /\ job'[q].updatedAt = now
      /\ \A p \in Questions : p # q => job'[p] = job[p]
  BY <1>1, JobIsWritten
<1>5. OfTheQuestion(q)
  BY <1>1, <1>2, <1>4, RecoveryGives DEF OfTheQuestion, Untouched, Rc!RecoveryTypeOK
<1>6. Rc!Fresh(q)'
  <2>1. now' = now /\ now - now <= Driven
    BY <1>1, RecoveryGives DEF Rc!RecoveryTypeOK
  <2> QED
    BY <1>4, <2>1 DEF Rc!Fresh, Rc!Inflight
<1>7. Rc!QuestionHolds(q)'
  BY <1>1, <1>2, <1>3, <1>6 DEF Rc!QuestionHolds, Rc!Kept, Rc!Pending
<1>8. Rc!Doomed(q) => Rc!Doomed(q)'
  BY <1>1, <1>2, <1>3 DEF Rc!Doomed, Rc!Kept, Rc!Pending, Rc!Drives, Rc!QuestionHolds
<1>9. sweep.at = "read" /\ sweep.q = q /\ Rc!ReadHolds(q) => Rc!ReadHolds(q)'
  BY <1>1, <1>2, <1>3, <1>8 DEF Rc!ReadHolds, Rc!Kept, Rc!Pending, Rc!Dooming, Rc!Inflight
<1> QED
  BY <1>2, <1>5, <1>7, <1>8, <1>9, OneKeeps

\* What is done is not driven, and not counted.
LEMMA DoneKeeps ==
  ASSUME Rc!RecoveryAssumption, Rc!RecoveryInv, NEW q \in Questions, Rc!Done(q)
  PROVE  Rc!RecoveryInv'
<1>1. /\ live[q] = "tracked" /\ Rc!Goes(q, "no") /\ inFlight' = inFlight - 1
      /\ stash' = stash \ {q} /\ lost' = lost \ {q}
      /\ Rc!SetJob(q, "settled", IF Rc!Pending(q) THEN "refund_pending_timeout" ELSE "settled")
      /\ UNCHANGED <<now, pending, settled, created, claims, mode, sweep, throughout, grown, wronged>>
  BY DEF Rc!Done, Rc!Drop, Rc!chain
<1>2. /\ live' \in [Questions -> {"no", "holding", "tracked"} \cup Rc!Starting] /\ live'[q] = "no"
      /\ \A p \in Questions : p # q => live'[p] = live[p]
      /\ inFlight' = Rc!Cardinality({p \in Questions : live'[p] = "tracked"}) /\ inFlight' \in Int
  <2>1. /\ live' \in [Questions -> {"no", "holding", "tracked"} \cup Rc!Starting] /\ live'[q] = "no"
        /\ \A p \in Questions : p # q => live'[p] = live[p]
        /\ Rc!Cardinality({p \in Questions : live'[p] = "tracked"}) = inFlight + 0 - 1
    <3> DEFINE how == "no"
    <3>1. how \in {"no", "holding", "tracked"} \cup Rc!Starting /\ how # "tracked" /\ Rc!Goes(q, how)
      BY <1>1
    <3> HIDE DEF how
    <3>2. /\ live' \in [Questions -> {"no", "holding", "tracked"} \cup Rc!Starting] /\ live'[q] = how
          /\ \A p \in Questions : p # q => live'[p] = live[p]
          /\ Rc!Cardinality({p \in Questions : live'[p] = "tracked"}) = inFlight + 0 - 1
      BY <1>1, <3>1, Goes
    <3> QED
      BY <3>2 DEF how
  <2>2. inFlight \in Nat
    BY TrackedCounts
  <2> QED
    BY <1>1, <2>1, <2>2
<1>3. Rc!QuestionHolds(q)
  BY <1>1, RecoveryGives DEF Rc!DrivenHold
<1>4. /\ job' \in [Questions -> Rc!JobRecords \cup {None}]
      /\ \A p \in Questions : p # q => job'[p] = job[p]
  BY <1>1, JobIsWritten
<1>5. OfTheQuestion(q)
  BY <1>1, <1>2, <1>4, RecoveryGives DEF OfTheQuestion, Untouched, Rc!RecoveryTypeOK
<1>6. Rc!QuestionHolds(q)'
  BY <1>1, <1>2, <1>3 DEF Rc!QuestionHolds, Rc!Kept, Rc!Pending
<1>7. Rc!Doomed(q) => Rc!Doomed(q)'
  BY <1>1, <1>2 DEF Rc!Doomed, Rc!Kept, Rc!Pending, Rc!Drives
<1>8. sweep.at = "read" /\ sweep.q = q /\ Rc!ReadHolds(q) => Rc!ReadHolds(q)'
  BY <1>1, <1>2, <1>7 DEF Rc!ReadHolds, Rc!Pending, Rc!Dooming, Rc!Inflight
<1> QED
  BY <1>2, <1>5, <1>6, <1>7, <1>8, OneKeeps

\* A stash expires: what was started with it is lost, or is being driven.
LEMMA ExpiryKeeps ==
  ASSUME Rc!RecoveryAssumption, Rc!RecoveryInv, NEW q \in Questions, Rc!StashExpires(q)
  PROVE  Rc!RecoveryInv'
<1>1. /\ q \in stash /\ stash' = stash \ {q}
      /\ lost' = lost \cup IF live[q] \in Rc!Starting \/ (live[q] # "no" /\ Rc!Reading(q)) THEN {q} ELSE {}
      /\ UNCHANGED <<now, pending, settled, created, job, claims, live, inFlight, mode, sweep, throughout, grown, wronged>>
  BY DEF Rc!StashExpires, Rc!chain, Rc!process
<1>2. Rc!QuestionHolds(q)
  BY RecoveryGives DEF Rc!DrivenHold
<1>3. OfTheQuestion(q)
  BY <1>1, RecoveryGives DEF OfTheQuestion, Untouched, Rc!RecoveryTypeOK
<1>4. Rc!Kept(q)' => Rc!Kept(q) /\ live[q] \notin Rc!Starting /\ (live[q] # "no" => ~Rc!Reading(q))
  BY <1>1 DEF Rc!Kept, Rc!Pending
<1>5. Rc!QuestionHolds(q)'
  BY <1>1, <1>2, <1>4 DEF Rc!QuestionHolds, Rc!Kept, Rc!Pending, Rc!Fresh, Rc!Starting
<1>6. Rc!Doomed(q) => Rc!Doomed(q)'
  BY <1>1, <1>4 DEF Rc!Doomed, Rc!Pending, Rc!Drives
<1>7. sweep.at = "read" /\ sweep.q = q /\ Rc!ReadHolds(q) => Rc!ReadHolds(q)'
  BY <1>1, <1>4, <1>6 DEF Rc!ReadHolds, Rc!Pending, Rc!Dooming, Rc!Inflight, Rc!Reading
<1>8. inFlight' \in Int /\ inFlight' = Rc!Cardinality({p \in Questions : live'[p] = "tracked"})
  BY <1>1, RecoveryGives DEF Rc!RecoveryTypeOK, Rc!RecoveryHolds
<1> QED
  BY <1>3, <1>5, <1>6, <1>7, <1>8, OneKeeps

\* The store is lost, and with it what it had of the questions that are driven.
LEMMA LosingKeeps ==
  ASSUME Rc!RecoveryAssumption, Rc!RecoveryInv, Rc!LoseStore
  PROVE  Rc!RecoveryInv'
<1>1. /\ job' = [q \in Questions |-> None] /\ stash' = {} /\ claims' = {}
      /\ lost' = lost \cup {q \in Questions : live[q] # "no"}
      /\ UNCHANGED <<now, pending, settled, created, live, inFlight, mode, sweep, throughout, grown, wronged>>
  BY DEF Rc!LoseStore, Rc!chain, Rc!process
<1>2. Rc!RecoveryTypeOK'
  <2>1. job' \in [Questions -> Rc!JobRecords \cup {None}] /\ lost' \subseteq Questions
    BY <1>1, RecoveryGives DEF Rc!RecoveryTypeOK
  <2> QED
    BY <1>1, <2>1, RecoveryGives DEF Rc!RecoveryTypeOK
<1>3. \A q \in Questions : Rc!Kept(q)' => Rc!Kept(q) /\ live[q] = "no"
  BY <1>1 DEF Rc!Kept, Rc!Pending
<1>4. Rc!DrivenHold'
  <2> SUFFICES ASSUME NEW q \in Questions PROVE Rc!QuestionHolds(q)'
    BY DEF Rc!DrivenHold
  <2>1. Rc!QuestionHolds(q)
    BY RecoveryGives DEF Rc!DrivenHold
  <2> QED
    BY <1>1, <1>3, <2>1 DEF Rc!QuestionHolds, Rc!Pending
<1>5. \A q : Rc!Doomed(q) => Rc!Doomed(q)'
  BY <1>1, <1>3 DEF Rc!Doomed, Rc!Pending, Rc!Drives
<1>6. Rc!ReadHold'
  <2> SUFFICES ASSUME sweep.at = "read"
               PROVE  sweep.q \in Questions /\ Rc!ReadHolds(sweep.q)'
    BY <1>1, RecoveryGives DEF Rc!ReadHold
  <2>1. PICK p \in Questions : p = sweep.q /\ Rc!ReadHolds(p)
    BY RecoveryGives DEF Rc!ReadHold
  <2>2. Rc!ReadHolds(p)'
    BY <1>1, <1>3, <1>5, <2>1 DEF Rc!ReadHolds, Rc!Pending, Rc!Dooming, Rc!Inflight
  <2> QED
    BY <1>1, <2>1, <2>2
<1>7. Rc!SweepHold'
  <2>1. sweep.at \in {"fresh", "refund", "record"} => Rc!Doomed(sweep.q)'
    <3> SUFFICES ASSUME sweep.at \in {"fresh", "refund", "record"} PROVE Rc!Doomed(sweep.q)'
      OBVIOUS
    <3>1. PICK p : p = sweep.q /\ Rc!Doomed(p)
      BY RecoveryGives DEF Rc!SweepHold
    <3>2. Rc!Doomed(p)' /\ p = sweep'.q
      BY <1>1, <1>5, <3>1
    <3> QED
      BY <3>2
  <2>2. Rc!ToSet(pending)' = Rc!ToSet(pending)
    BY <1>1
  <2> QED
    BY <1>1, <2>1, <2>2, RecoveryGives DEF Rc!SweepHold
<1>8. Rc!RecoveryHolds'
  BY <1>1, RecoveryGives DEF Rc!RecoveryHolds
<1>9. (Rc!ToSet(pending) \cap settled = {} /\ mode \in {"up", "draining", "down"})'
  BY <1>1, RecoveryGives
<1> QED
  BY <1>2, <1>4, <1>6, <1>7, <1>8, <1>9, RecoveryFollows, PTL

\* A question leaves the list when it settles.
LEMMA SettleKeeps ==
  ASSUME Rc!RecoveryAssumption, Rc!RecoveryInv, NEW q \in Questions, Rc!Settle(q),
         UNCHANGED <<now, job, stash, claims, live, inFlight, mode, lost, grown, wronged>>,
         \/ sweep' = sweep
         \/ sweep.at = "refund" /\ q = sweep.q /\ sweep' = [sweep EXCEPT !.at = "record"]
  PROVE  Rc!RecoveryInv'
<1>1. /\ pending \in Seq(Questions) /\ Dense(pending) /\ q \in Rc!ToSet(pending) /\ Rc!ToSet(pending) \cap settled = {}
      /\ pending' = Rc!SwapRemove(pending, q) /\ settled' = settled \cup {q} /\ created \in [Questions -> Int]
      /\ created' = [created EXCEPT ![q] = 0] /\ throughout' = throughout \ {q}
  BY RecoveryGives DEF Rc!RecoveryTypeOK, Rc!Settle, Rc!Pending
<1>2. /\ pending' \in Seq(Questions) /\ Dense(pending')
      /\ Len(pending') = Len(pending) - 1 /\ Rc!ToSet(pending') = Rc!ToSet(pending) \ {q}
  BY <1>1, SwapRemoved
<1>3. sweep \in Rc!SweepRecords
  BY RecoveryGives DEF Rc!RecoveryTypeOK
<1>4. /\ sweep' \in Rc!SweepRecords /\ sweep'.ids = sweep.ids /\ sweep'.q = sweep.q /\ sweep'.before = sweep.before
      /\ sweep'.at = "read" => sweep' = sweep
      /\ sweep'.at # "read" => sweep'.read = {}
  BY <1>3, RecoveryGives DEF Rc!SweepRecords, Rc!ReadHold
<1>5. Rc!RecoveryTypeOK'
  <2>1. created' \in [Questions -> Int] /\ settled' \subseteq Questions /\ throughout' \subseteq Questions
    BY <1>1, RecoveryGives DEF Rc!RecoveryTypeOK
  <2> QED
    BY <1>2, <1>4, <2>1, RecoveryGives DEF Rc!RecoveryTypeOK, Dense
<1>6. \A p : Rc!Pending(p) \/ p \in settled => (Rc!Pending(p) \/ p \in settled)'
  BY <1>1, <1>2 DEF Rc!Pending
<1>7. \A p : Rc!Pending(p)' => Rc!Pending(p) /\ p # q
  BY <1>1, <1>2 DEF Rc!Pending
<1>8. Rc!DrivenHold'
  <2> SUFFICES ASSUME NEW p \in Questions PROVE Rc!QuestionHolds(p)'
    BY DEF Rc!DrivenHold
  <2>1. Rc!QuestionHolds(p)
    BY RecoveryGives DEF Rc!DrivenHold
  <2>2. /\ Rc!Kept(p)' => Rc!Kept(p) /\ created'[p] = created[p] /\ (Rc!Fresh(p) => Rc!Fresh(p)')
    BY <1>1, <1>7 DEF Rc!Kept, Rc!Fresh, Rc!Inflight
  <2> QED
    BY <1>6, <1>7, <2>1, <2>2 DEF Rc!QuestionHolds
<1>9. \A p : Rc!Doomed(p) => Rc!Doomed(p)'
  BY <1>6, <1>7 DEF Rc!Doomed, Rc!Drives, Rc!Kept
<1>10. Rc!ReadHold'
  <2> SUFFICES ASSUME sweep'.at = "read"
               PROVE  sweep'.q \in Questions /\ Rc!ReadHolds(sweep.q)'
    BY <1>4 DEF Rc!ReadHold
  <2>1. PICK p \in Questions : p = sweep.q /\ Rc!ReadHolds(p)
    BY <1>4, RecoveryGives DEF Rc!ReadHold
  <2>2. sweep' = sweep
    BY <1>4
  <2>3. Rc!Kept(p)' => Rc!Kept(p) /\ created'[p] = created[p]
    BY <1>1, <1>7 DEF Rc!Kept
  <2>4. Rc!ReadHolds(p)'
    BY <1>6, <1>9, <2>1, <2>2, <2>3 DEF Rc!ReadHolds, Rc!Dooming, Rc!Inflight
  <2> QED
    BY <2>1, <2>2, <2>4
<1>11. Rc!SweepHold'
  <2>1. CASE sweep' = sweep
    <3>1. sweep.at = "scan" /\ ~grown => Len(pending') < sweep.before
      BY <1>1, <1>2, <1>3, RecoveryGives DEF Rc!SweepHold, Rc!SweepRecords
    <3>2. sweep.at = "scan" => throughout' \subseteq Rc!ToSet(pending')
      BY <1>1, <1>2, RecoveryGives DEF Rc!SweepHold
    <3>3. sweep.at \in {"fresh", "refund", "record"} => Rc!Doomed(sweep.q)'
      <4> SUFFICES ASSUME sweep.at \in {"fresh", "refund", "record"} PROVE Rc!Doomed(sweep.q)'
        OBVIOUS
      <4>1. PICK p : p = sweep.q /\ Rc!Doomed(p)
        BY RecoveryGives DEF Rc!SweepHold
      <4>2. Rc!Doomed(p)' /\ p = sweep'.q
        BY <1>9, <2>1, <4>1
      <4> QED
        BY <4>2
    <3>4. sweep.at = "record" => sweep.q \in settled'
      BY <1>1, RecoveryGives DEF Rc!SweepHold
    <3> QED
      BY <1>2, <1>3, <2>1, <3>1, <3>2, <3>3, <3>4 DEF Rc!SweepHold, Rc!SweepRecords
  <2>2. CASE sweep.at = "refund" /\ q = sweep.q /\ sweep' = [sweep EXCEPT !.at = "record"]
    <3>1. sweep'.at = "record" /\ sweep'.q = q /\ Rc!Doomed(q)
      BY <1>3, <2>2, RecoveryGives DEF Rc!SweepHold, Rc!SweepRecords
    <3> QED
      BY <1>1, <1>9, <3>1 DEF Rc!SweepHold
  <2> QED
    BY <2>1, <2>2
<1>12. Rc!RecoveryHolds'
  <2>1. sweep'.at = "next" => sweep' = sweep
    BY <1>3 DEF Rc!SweepRecords
  <2> QED
    BY <1>1, <2>1, RecoveryGives DEF Rc!RecoveryHolds
<1> QED
  <2>1. (Rc!ToSet(pending) \cap settled = {} /\ mode \in {"up", "draining", "down"})'
    BY <1>1, <1>2, RecoveryGives
  <2> QED
    BY <1>5, <1>8, <1>10, <1>11, <1>12, <2>1, RecoveryFollows, PTL

\* What is submitted or charged is fulfilled by nobody yet, and was not listed.
LEMMA OpenKeeps ==
  ASSUME Rc!RecoveryAssumption, Rc!RecoveryInv, NEW q \in Questions, Rc!Submit(q) \/ Rc!ChargeBalance(q)
  PROVE  Rc!RecoveryInv'
<1>1. /\ q \notin settled /\ q \notin Rc!ToSet(pending) /\ pending' = Append(pending, q)
      /\ created' = [created EXCEPT ![q] = now]
      /\ \/ stash' = stash \cup {q} /\ live' = live
         \/ stash' = stash /\ live' = [live EXCEPT ![q] = "charged"]
      /\ UNCHANGED <<now, settled, job, claims, inFlight, mode, sweep, throughout, lost, wronged>>
  BY DEF Rc!Submit, Rc!ChargeBalance, Rc!Pending, Rc!process, Rc!records, Rc!Goes
<1>2. grown' \in BOOLEAN /\ (sweep.at = "scan" => grown') /\ (grown => grown')
  BY Zenon DEF Rc!Submit, Rc!ChargeBalance
<1>3. /\ pending \in Seq(Questions) /\ created \in [Questions -> Int] /\ now \in Int
      /\ live \in [Questions -> {"no", "holding", "tracked"} \cup Rc!Starting]
  BY RecoveryGives DEF Rc!RecoveryTypeOK
<1>4. pending' \in Seq(Questions) /\ Dense(pending') /\ Rc!ToSet(pending') = Rc!ToSet(pending) \cup {q}
  BY <1>1, <1>3, Appended, RecoveryGives
<1>5. live[q] = "no" /\ q \notin stash \cup claims /\ job[q] = None /\ q \notin lost
  <2>1. Rc!QuestionHolds(q)
    BY RecoveryGives DEF Rc!DrivenHold
  <2> QED
    BY <1>1, <2>1 DEF Rc!QuestionHolds, Rc!Pending
<1>6. /\ live' \in [Questions -> {"no", "holding", "tracked"} \cup Rc!Starting] /\ live'[q] \in {"no", "charged"}
      /\ live'[q] = "charged" => stash' = stash
      /\ created' \in [Questions -> Int] /\ created'[q] = now /\ stash' \subseteq Questions
      /\ \A p \in Questions : p # q => live'[p] = live[p] /\ created'[p] = created[p] /\ (p \in stash' <=> p \in stash)
  BY <1>1, <1>3, <1>5, RecoveryGives DEF Rc!Starting, Rc!RecoveryTypeOK
<1>7. Rc!RecoveryTypeOK'
  BY <1>1, <1>2, <1>4, <1>6, RecoveryGives DEF Rc!RecoveryTypeOK, Dense
<1>8. \A p \in Questions : p # q => (Rc!Pending(p)' <=> Rc!Pending(p)) /\ (Rc!Kept(p)' <=> Rc!Kept(p))
  BY <1>1, <1>4 DEF Rc!Pending, Rc!Kept
<1>9. Rc!DrivenHold'
  <2>1. ASSUME NEW p \in Questions, p # q
        PROVE  Rc!QuestionHolds(p)'
    <3>1. Rc!QuestionHolds(p)
      BY RecoveryGives DEF Rc!DrivenHold
    <3>2. Rc!Fresh(p) => Rc!Fresh(p)'
      BY <1>1 DEF Rc!Fresh, Rc!Inflight
    <3> QED
      BY <1>1, <1>6, <1>8, <2>1, <3>1, <3>2 DEF Rc!QuestionHolds
  <2>2. Rc!QuestionHolds(q)'
    <3>1. Rc!Pending(q)' /\ now' = now /\ now - now <= Driven
      BY <1>1, <1>3, <1>4, RecoveryGives DEF Rc!Pending
    <3> QED
      BY <1>1, <1>5, <1>6, <3>1 DEF Rc!QuestionHolds
  <2> QED
    BY <2>1, <2>2 DEF Rc!DrivenHold
<1>10. \A p : Rc!Doomed(p) => Rc!Doomed(p)' /\ p # q
  <2> SUFFICES ASSUME NEW p, Rc!Doomed(p) PROVE Rc!Doomed(p)' /\ p # q
    OBVIOUS
  <2>1. p \in Questions /\ p # q
    BY <1>1 DEF Rc!Doomed, Rc!Pending
  <2> QED
    BY <1>1, <1>6, <1>8, <2>1 DEF Rc!Doomed, Rc!Drives
<1>11. Rc!ReadHold'
  <2> SUFFICES ASSUME sweep.at = "read"
               PROVE  sweep.q \in Questions /\ Rc!ReadHolds(sweep.q)'
    BY <1>1, RecoveryGives DEF Rc!ReadHold
  <2>1. PICK p \in Questions : p = sweep.q /\ Rc!ReadHolds(p)
    BY RecoveryGives DEF Rc!ReadHold
  <2>2. p # q
    BY <1>1, <2>1 DEF Rc!ReadHolds, Rc!Pending
  <2>3. Rc!ReadHolds(p)'
    BY <1>1, <1>6, <1>8, <1>10, <2>1, <2>2 DEF Rc!ReadHolds, Rc!Dooming, Rc!Inflight
  <2> QED
    BY <1>1, <2>1, <2>3
<1>12. Rc!SweepHold'
  <2>1. sweep.at \in {"fresh", "refund", "record"} => Rc!Doomed(sweep.q)'
    <3> SUFFICES ASSUME sweep.at \in {"fresh", "refund", "record"} PROVE Rc!Doomed(sweep.q)'
      OBVIOUS
    <3>1. PICK p : p = sweep.q /\ Rc!Doomed(p)
      BY RecoveryGives DEF Rc!SweepHold
    <3>2. Rc!Doomed(p)' /\ p = sweep'.q
      BY <1>1, <1>10, <3>1
    <3> QED
      BY <3>2
  <2> QED
    BY <1>1, <1>2, <1>4, <2>1, RecoveryGives DEF Rc!SweepHold
<1>13. Rc!RecoveryHolds'
  <2>1. {p \in Questions : live'[p] = "tracked"} = {p \in Questions : live[p] = "tracked"}
    BY <1>5, <1>6
  <2> QED
    BY <1>1, <1>2, <2>1, RecoveryGives DEF Rc!RecoveryHolds
<1>14. (Rc!ToSet(pending) \cap settled = {} /\ mode \in {"up", "draining", "down"})'
  BY <1>1, <1>4, RecoveryGives
<1> QED
  BY <1>7, <1>9, <1>11, <1>12, <1>13, <1>14, RecoveryFollows, PTL

\* The sweep goes on, and nothing else.
LEMMA SweepGoesOn ==
  ASSUME Rc!RecoveryAssumption, Rc!RecoveryInv,
         UNCHANGED <<now, pending, settled, created, job, stash, claims, live, inFlight, mode, lost, wronged>>,
         sweep' \in Rc!SweepRecords, throughout' \subseteq Questions, grown' \in BOOLEAN, Rc!ReadHold', Rc!SweepHold',
         sweep'.at = "next" /\ sweep'.q = None => throughout' \subseteq sweep'.ids \/ grown'
  PROVE  Rc!RecoveryInv'
<1>1. Rc!RecoveryTypeOK'
  BY RecoveryGives DEF Rc!RecoveryTypeOK
<1>2. Rc!DrivenHold'
  <2>1. \A q \in Questions : Untouched(q)
    BY DEF Untouched
  <2> QED
    BY <2>1, UntouchedKeeps, RecoveryGives DEF Rc!DrivenHold
<1>3. Rc!RecoveryHolds'
  BY RecoveryGives DEF Rc!RecoveryHolds
<1> QED
  <2>1. (Rc!ToSet(pending) \cap settled = {} /\ mode \in {"up", "draining", "down"})'
    BY RecoveryGives
  <2> QED
    <3>1. Rc!SweepHold' /\ Rc!ReadHold'
      OBVIOUS
    <3> QED
      BY <1>1, <1>2, <1>3, <2>1, <3>1, RecoveryFollows, PTL

\* The sweep records its refund, of a question that is settled.
LEMMA RecordKeeps ==
  ASSUME Rc!RecoveryAssumption, Rc!RecoveryInv, Rc!RecordRefund
  PROVE  Rc!RecoveryInv'
<1>1. /\ sweep.at = "record" /\ sweep' = [sweep EXCEPT !.at = "next"] /\ Rc!SetJob(sweep.q, "settled", "settled")
      /\ UNCHANGED <<now, pending, settled, created, stash, claims, live, inFlight, mode, throughout, grown, lost, wronged>>
  BY DEF Rc!RecordRefund, Rc!chain, Rc!process, Rc!history
<1>2. PICK q \in Questions : q = sweep.q /\ q \in settled /\ ~Rc!Pending(q)
  BY <1>1, RecoveryGives DEF Rc!SweepHold, Rc!Doomed, Rc!Pending
<1>3. job' \in [Questions -> Rc!JobRecords \cup {None}] /\ \A p \in Questions : p # q => job'[p] = job[p]
  BY <1>1, <1>2, JobIsWritten
<1>4. sweep' \in Rc!SweepRecords /\ sweep'.at = "next" /\ sweep'.q # None /\ sweep'.read = {}
  BY <1>1, <1>2, RecoveryGives DEF Rc!RecoveryTypeOK, Rc!SweepRecords, Rc!ReadHold
<1>5. Rc!RecoveryTypeOK'
  BY <1>1, <1>3, <1>4, RecoveryGives DEF Rc!RecoveryTypeOK
<1>6. Rc!DrivenHold'
  <2> SUFFICES ASSUME NEW p \in Questions PROVE Rc!QuestionHolds(p)'
    BY DEF Rc!DrivenHold
  <2>1. Rc!QuestionHolds(p)
    BY RecoveryGives DEF Rc!DrivenHold
  <2>2. CASE p # q
    BY <1>1, <1>3, <2>1, <2>2, UntouchedKeeps DEF Untouched
  <2>3. CASE p = q
    BY <1>1, <1>2, <2>1, <2>3 DEF Rc!QuestionHolds, Rc!Kept, Rc!Pending
  <2> QED
    BY <2>2, <2>3
<1>7. Rc!ReadHold' /\ Rc!SweepHold'
  BY <1>4 DEF Rc!ReadHold, Rc!SweepHold
<1>8. Rc!RecoveryHolds'
  BY <1>1, <1>4, RecoveryGives DEF Rc!RecoveryHolds
<1>9. (Rc!ToSet(pending) \cap settled = {} /\ mode \in {"up", "draining", "down"})'
  BY <1>1, RecoveryGives
<1> QED
  BY <1>5, <1>6, <1>7, <1>8, <1>9, RecoveryFollows, PTL

\* The sweep lists, reads, classifies and reads again.  What it is about to refund
\* is driven by nobody: a record of a fulfilment that is as old as that is nobody's,
\* and what is neither stashed nor recorded was started by nobody.
LEMMA TheDooming ==
  ASSUME Rc!RecoveryAssumption, Rc!RecoveryInv, NEW q \in Questions, Rc!Pending(q) \/ q \in settled, Rc!Dooming(job[q])
  PROVE  Rc!Doomed(q)
<1> SUFFICES ASSUME Rc!Kept(q) PROVE ~Rc!Drives(q) /\ (q \in stash => q \in claims)
  BY DEF Rc!Doomed
<1>1. Rc!QuestionHolds(q) /\ Rc!Pending(q) /\ job[q] # None /\ job[q] \in Rc!JobRecords /\ now \in Int
  BY RecoveryGives DEF Rc!DrivenHold, Rc!Kept, Rc!RecoveryTypeOK, Rc!Dooming
<1>2. q \in stash => q \in claims
  BY <1>1 DEF Rc!QuestionHolds
<1>3. live[q] \notin {"holding", "tracked"}
  <2> SUFFICES ASSUME live[q] \in {"holding", "tracked"} PROVE FALSE
    OBVIOUS
  <2>1. job[q].status \in Rc!Inflight /\ now - job[q].updatedAt <= Driven
    BY <1>1 DEF Rc!QuestionHolds, Rc!Fresh
  <2>2. now - job[q].updatedAt >= StaleInflight
    BY <2>1 DEF Rc!Dooming
  <2>3. job[q].updatedAt \in Int
    BY <1>1 DEF Rc!JobRecords
  <2> QED
    BY <1>1, <2>1, <2>2, <2>3, RecoveryGives
<1>4. live[q] \notin {"claimed", "charged"}
  BY <1>1 DEF Rc!QuestionHolds
<1>5. live[q] = "paid" => q \in claims
  BY <1>1, <1>2 DEF Rc!QuestionHolds
<1> QED
  BY <1>2, <1>3, <1>4, <1>5 DEF Rc!Drives
LEMMA TheOrphaned ==
  ASSUME Rc!RecoveryAssumption, Rc!RecoveryInv, NEW q \in Questions, Rc!Pending(q) \/ q \in settled,
         Rc!Kept(q) => q \notin stash /\ live[q] \notin {"holding", "tracked"}, now - created[q] >= MinAge
  PROVE  Rc!Doomed(q)
<1> SUFFICES ASSUME Rc!Kept(q) PROVE ~Rc!Drives(q) /\ (q \in stash => q \in claims)
  BY DEF Rc!Doomed
<1>1. Rc!QuestionHolds(q) /\ created[q] \in Int /\ now \in Int
  BY RecoveryGives DEF Rc!DrivenHold, Rc!RecoveryTypeOK
<1>2. live[q] # "charged"
  BY <1>1, RecoveryGives DEF Rc!QuestionHolds
<1> QED
  BY <1>1, <1>2 DEF Rc!Drives, Rc!QuestionHolds
LEMMA TheDoomed ==
  ASSUME Rc!RecoveryAssumption, Rc!RecoveryInv, sweep.at = "read",
         NEW j \in Rc!JobRecords \cup {None}, NEW stashed \in BOOLEAN,
         \/ sweep.read = {"job"} /\ j = sweep.job /\ stashed = (sweep.q \in stash)
         \/ sweep.read = {"stash"} /\ j = job[sweep.q] /\ stashed = sweep.stashed,
         Rc!ClassifyPendingQuestion(sweep.q, j, stashed) = "refund"
  PROVE  Rc!Doomed(sweep.q)
<1>1. PICK q \in Questions : q = sweep.q /\ Rc!ReadHolds(q)
  BY RecoveryGives DEF Rc!ReadHold
<1>2. Rc!Pending(q) \/ q \in settled
  BY <1>1 DEF Rc!ReadHolds
<1>3. CASE j # None
  <2>1. j.status \in {"holding", "awaiting_workers", "settled"} /\ (j.status = "settled" <=> j.status \notin Rc!Inflight)
    BY <1>3 DEF Rc!JobRecords, Rc!Inflight
  <2>2. Rc!Dooming(j)
    <3>1. CASE j.status \in Rc!Inflight
      <4>1. Rc!ClassifyPendingQuestion(q, j, stashed) = IF now - j.updatedAt >= StaleInflight THEN "refund" ELSE "skip"
        BY <1>3, <2>1, <3>1 DEF Rc!ClassifyPendingQuestion
      <4> QED
        BY <1>1, <1>3, <3>1, <4>1 DEF Rc!Dooming
    <3>2. CASE j.status \notin Rc!Inflight
      <4>1. Rc!ClassifyPendingQuestion(q, j, stashed) = IF j.outcome = "refund_pending_timeout" THEN "refund" ELSE "flag"
        BY <1>3, <2>1, <3>2 DEF Rc!ClassifyPendingQuestion
      <4> QED
        BY <1>1, <1>3, <3>2, <4>1 DEF Rc!Dooming
    <3> QED
      BY <3>1, <3>2
  <2>3. CASE sweep.read = {"job"}
    BY <1>1, <2>2, <2>3 DEF Rc!ReadHolds
  <2>4. CASE sweep.read = {"stash"}
    BY <1>1, <1>2, <2>2, <2>4, TheDooming
  <2> QED
    BY <2>3, <2>4
<1>4. CASE j = None
  <2>1. ~stashed /\ ~(now - created[q] < MinAge)
    <3>1. Rc!ClassifyPendingQuestion(q, j, stashed) = IF stashed \/ now - created[q] < MinAge THEN "skip" ELSE "refund"
      BY <1>4 DEF Rc!ClassifyPendingQuestion
    <3> QED
      BY <1>1, <3>1
  <2>2. now - created[q] >= MinAge
    BY <2>1, RecoveryGives DEF Rc!RecoveryTypeOK
  <2>3. Rc!Kept(q) => q \notin stash
    BY <1>1, <2>1 DEF Rc!ReadHolds
  <2>4. Rc!Kept(q) => live[q] \notin {"holding", "tracked"}
    <3>1. CASE sweep.read = {"job"}
      BY <1>1, <1>4, <2>3, <3>1 DEF Rc!ReadHolds
    <3>2. CASE sweep.read = {"stash"}
      BY <1>1, <1>4, <3>2, RecoveryGives DEF Rc!DrivenHold, Rc!QuestionHolds, Rc!Fresh
    <3> QED
      BY <3>1, <3>2
  <2> QED
    BY <1>1, <1>2, <2>2, <2>3, <2>4, TheOrphaned
<1> QED
  BY <1>3, <1>4

LEMMA IdleIs == Rc!RecoveryAssumption => Rc!Idle \in Rc!SweepRecords /\ Rc!Idle.at = "idle" /\ Rc!Idle.read = {}
  BY DEF Rc!RecoveryAssumption, Rc!SweepRecords, Rc!Idle

\* A step of the sweep after which what it holds is no more than it held.
LEMMA SweepRests ==
  ASSUME Rc!RecoveryAssumption, Rc!RecoveryInv,
         UNCHANGED <<now, pending, settled, created, job, stash, claims, live, inFlight, mode, lost, wronged, throughout, grown>>,
         \/ sweep' = Rc!Idle
         \/ sweep' = [sweep EXCEPT !.at = "rescan"]
         \/ sweep' = [sweep EXCEPT !.at = "next"] /\ sweep.q # None,
         sweep.at # "read"
  PROVE  Rc!RecoveryInv'
<1>1. /\ sweep \in Rc!SweepRecords /\ throughout \subseteq Questions /\ grown \in BOOLEAN /\ MaxRefunds \in Nat
      /\ sweep.read = {}
  BY RecoveryGives DEF Rc!RecoveryTypeOK, Rc!ReadHold
<1>2. /\ sweep' \in Rc!SweepRecords /\ sweep'.at \in {"idle", "rescan", "next"} /\ sweep'.read = {}
      /\ sweep'.at = "next" => sweep'.q # None
  <2>1. CASE sweep' = Rc!Idle
    BY <2>1, IdleIs
  <2>2. CASE sweep' = [sweep EXCEPT !.at = "rescan"]
    BY <1>1, <2>2 DEF Rc!SweepRecords
  <2>3. CASE sweep' = [sweep EXCEPT !.at = "next"] /\ sweep.q # None
    BY <1>1, <2>3 DEF Rc!SweepRecords
  <2> QED
    BY <2>1, <2>2, <2>3
<1>3. Rc!SweepHold' /\ Rc!ReadHold'
  BY <1>2 DEF Rc!SweepHold, Rc!ReadHold
<1> QED
  BY <1>1, <1>2, <1>3, SweepGoesOn
LEMMA BeginScanKeeps ==
  ASSUME Rc!RecoveryAssumption, Rc!RecoveryInv, Rc!BeginScan
  PROVE  Rc!RecoveryInv'
<1>1. /\ UNCHANGED <<now, pending, settled, created, job, stash, claims, live, inFlight, mode, lost, wronged>>
      /\ sweep' = [Rc!Idle EXCEPT !.at = "scan", !.attempt = sweep.attempt + 1, !.before = Len(pending)]
      /\ throughout' = Rc!ToSet(pending) /\ grown' = FALSE
  BY DEF Rc!BeginScan, Rc!chain, Rc!records, Rc!process
<1>2. /\ sweep \in Rc!SweepRecords /\ pending \in Seq(Questions) /\ MaxRefunds \in Nat
      /\ Rc!ToSet(pending) \subseteq Questions /\ Len(pending) \in Nat
  BY MembersOf DEF Rc!RecoveryInv, Rc!RecoveryTypeOK, Rc!RecoveryAssumption
<1>3. /\ sweep' \in Rc!SweepRecords /\ sweep'.at = "scan" /\ sweep'.before = Len(pending) /\ sweep'.read = {}
      /\ sweep'.start = 0 /\ sweep'.ids = {}
  <2>1. sweep.attempt + 1 \in Nat /\ Len(pending) \in Nat /\ 0 \in 0..MaxRefunds
    BY <1>2 DEF Rc!SweepRecords
  <2>2. sweep' = [at |-> "scan", attempt |-> sweep.attempt + 1, before |-> Len(pending), start |-> 0, ids |-> {},
                  q |-> None, read |-> {}, job |-> None, stashed |-> FALSE, refunds |-> 0]
    BY <1>1 DEF Rc!Idle
  <2> QED
    BY <2>1, <2>2 DEF Rc!SweepRecords
<1>4. Rc!SweepHold'
  <2>1. Rc!ToSet(pending)' = Rc!ToSet(pending)
    BY <1>1
  <2> QED
    BY <1>1, <1>2, <1>3, <2>1 DEF Rc!SweepHold
<1>5. Rc!ReadHold'
  BY <1>3 DEF Rc!ReadHold
<1> QED
  BY <1>1, <1>2, <1>3, <1>4, <1>5, SweepGoesOn

\* A page brings the next of the list, if there is one.
LEMMA PageKeeps ==
  ASSUME Rc!RecoveryAssumption, Rc!RecoveryInv, Rc!ListPending
  PROVE  Rc!RecoveryInv'
<1> DEFINE page == IF sweep.start < Len(pending) THEN {pending[sweep.start + 1]} ELSE {}
<1>1. /\ UNCHANGED <<now, pending, settled, created, job, stash, claims, live, inFlight, mode, lost, wronged, throughout, grown>>
      /\ sweep.at = "scan" /\ sweep' = [sweep EXCEPT !.start = sweep.start + 1, !.ids = sweep.ids \cup page]
  BY DEF Rc!ListPending, Rc!chain, Rc!records, Rc!process, Rc!history
<1>2. /\ sweep \in Rc!SweepRecords /\ pending \in Seq(Questions) /\ throughout \subseteq Questions
      /\ grown \in BOOLEAN /\ Len(pending) \in Nat
  BY DEF Rc!RecoveryInv, Rc!RecoveryTypeOK
<1>3. page \subseteq Questions
  BY <1>2 DEF Rc!SweepRecords
<1>4. sweep.start + 1 <= Len(pending) => pending[sweep.start + 1] \in page
  BY <1>2 DEF Rc!SweepRecords
<1> HIDE DEF page
<1>5. /\ sweep' \in Rc!SweepRecords /\ sweep'.at = "scan" /\ sweep'.before = sweep.before
      /\ sweep'.start = sweep.start + 1 /\ sweep'.ids = sweep.ids \cup page /\ sweep'.read = {}
  <2> DEFINE start == sweep.start + 1
             ids == sweep.ids \cup page
  <2>1. start \in Nat /\ ids \subseteq Questions
    BY <1>2, <1>3 DEF Rc!SweepRecords
  <2>2. sweep' = [sweep EXCEPT !.start = start, !.ids = ids]
    BY <1>1
  <2> HIDE DEF start, ids
  <2>3. sweep' \in Rc!SweepRecords /\ sweep'.at = sweep.at /\ sweep'.before = sweep.before
        /\ sweep'.start = start /\ sweep'.ids = ids /\ sweep'.read = sweep.read
    BY <1>2, <2>1, <2>2 DEF Rc!SweepRecords
  <2>4. sweep.read = {}
    BY <1>1, RecoveryGives DEF Rc!ReadHold
  <2> QED
    BY <1>1, <2>3, <2>4 DEF start, ids
<1>6. Rc!SweepHold'
  <2>1. /\ throughout' \subseteq Rc!ToSet(pending')
        /\ ~grown => Len(pending) <= sweep.before
    BY <1>1 DEF Rc!RecoveryInv, Rc!SweepHold
  <2>2. ASSUME ~grown, Len(pending) = sweep.before, NEW i \in 1..Len(pending), i <= sweep.start + 1
        PROVE  pending[i] \in sweep.ids \cup page
    <3>1. CASE i = sweep.start + 1
      BY <1>4, <2>2, <3>1
    <3>2. CASE i # sweep.start + 1
      <4>1. i <= sweep.start
        BY <1>2, <2>2, <3>2 DEF Rc!SweepRecords
      <4> QED
        BY <1>1, <2>2, <4>1 DEF Rc!RecoveryInv, Rc!SweepHold
    <3> QED
      BY <3>1, <3>2
  <2> QED
    BY <1>1, <1>5, <2>1, <2>2 DEF Rc!SweepHold
<1>7. Rc!ReadHold'
  BY <1>5 DEF Rc!ReadHold
<1> QED
  BY <1>1, <1>2, <1>5, <1>6, <1>7, SweepGoesOn

\* A snapshot as long as it began has everything that was pending all the while.
LEMMA EndScanKeeps ==
  ASSUME Rc!RecoveryAssumption, Rc!RecoveryInv, Rc!EndScan
  PROVE  Rc!RecoveryInv'
<1>1. /\ UNCHANGED <<now, pending, settled, created, job, stash, claims, live, inFlight, mode, lost, wronged, throughout, grown>>
      /\ sweep.at = "scan" /\ sweep.start >= sweep.before
  BY DEF Rc!EndScan, Rc!chain, Rc!records, Rc!process, Rc!history
<1>2. \/ /\ Len(pending) = sweep.before
         /\ sweep' = [sweep EXCEPT !.at = "next", !.start = 0, !.before = 0, !.attempt = 0]
      \/ sweep' = [sweep EXCEPT !.at = "rescan"]
      \/ sweep' = Rc!Idle
  BY DEF Rc!EndScan, Rc!Scanned
<1>3. CASE /\ Len(pending) = sweep.before
           /\ sweep' = [sweep EXCEPT !.at = "next", !.start = 0, !.before = 0, !.attempt = 0]
  <2>1. /\ sweep \in Rc!SweepRecords /\ pending \in Seq(Questions) /\ throughout \subseteq Questions
        /\ grown \in BOOLEAN /\ Len(pending) \in Nat
    BY DEF Rc!RecoveryInv, Rc!RecoveryTypeOK
  <2>2. sweep' \in Rc!SweepRecords /\ sweep'.at = "next" /\ sweep'.ids = sweep.ids /\ sweep'.read = {}
    BY <1>1, <1>3, <2>1, RecoveryGives DEF Rc!SweepRecords, Rc!ReadHold
  <2>3. Rc!SweepHold' /\ Rc!ReadHold'
    BY <2>2 DEF Rc!SweepHold, Rc!ReadHold
  <2>4. ~grown => Rc!ToSet(pending) \subseteq sweep.ids
    <3>1. ~grown => \A i \in 1..Len(pending) : pending[i] \in sweep.ids
      BY <1>1, <1>3, <2>1 DEF Rc!RecoveryInv, Rc!SweepHold, Rc!SweepRecords
    <3> QED
      BY <2>1, <3>1, MembersOf
  <2>5. throughout \subseteq Rc!ToSet(pending)
    BY <1>1 DEF Rc!RecoveryInv, Rc!SweepHold
  <2>6. throughout' \subseteq sweep'.ids \/ grown'
    BY <1>1, <2>2, <2>4, <2>5
  <2> QED
    BY <1>1, <2>1, <2>2, <2>3, <2>6, SweepGoesOn
<1> QED
  BY <1>1, <1>2, <1>3, SweepRests

\* It reads the question, and then its job and its stash, in either order.
LEMMA ReadQuestionKeeps ==
  ASSUME Rc!RecoveryAssumption, Rc!RecoveryInv, NEW q \in Questions, Rc!ReadQuestion(q)
  PROVE  Rc!RecoveryInv'
<1>1. /\ UNCHANGED <<now, pending, settled, created, job, stash, claims, live, inFlight, mode, lost, wronged>>
      /\ sweep' = [sweep EXCEPT !.ids = sweep.ids \ {q}, !.q = q, !.at = IF Rc!Pending(q) THEN "read" ELSE "next"]
      /\ throughout' = {} /\ grown' = FALSE /\ sweep.at = "next"
  BY DEF Rc!ReadQuestion, Rc!chain, Rc!records, Rc!process
<1>2. sweep \in Rc!SweepRecords
  BY RecoveryGives DEF Rc!RecoveryTypeOK
<1>3. /\ sweep' \in Rc!SweepRecords /\ sweep'.q = q /\ sweep'.read = sweep.read /\ sweep'.at \in {"read", "next"}
      /\ sweep'.at = "read" => Rc!Pending(q)
  <2> DEFINE at == IF Rc!Pending(q) THEN "read" ELSE "next"
  <2>1. at \in {"read", "next"} /\ (at = "read" => Rc!Pending(q))
    OBVIOUS
  <2>2. sweep' = [sweep EXCEPT !.ids = sweep.ids \ {q}, !.q = q, !.at = at]
    BY <1>1
  <2> HIDE DEF at
  <2> QED
    BY <1>2, <2>1, <2>2 DEF Rc!SweepRecords
<1>4. Rc!SweepHold'
  BY <1>3 DEF Rc!SweepHold
<1>5. sweep.read = {}
  BY <1>1, RecoveryGives DEF Rc!ReadHold
<1>6. Rc!ReadHold'
  BY <1>1, <1>3, <1>5 DEF Rc!ReadHold, Rc!ReadHolds, Rc!Pending
<1> QED
  BY <1>1, <1>3, <1>4, <1>6, RecoveryGives, SweepGoesOn
LEMMA FirstReadKeeps ==
  ASSUME Rc!RecoveryAssumption, Rc!RecoveryInv, sweep.at = "read", NEW what \in {"job", "stash"},
         NEW j \in Rc!JobRecords \cup {None}, NEW stashed \in BOOLEAN,
         sweep' = [sweep EXCEPT !.read = {what}, !.job = j, !.stashed = stashed],
         \/ what = "job" /\ j = job[sweep.q]
         \/ what = "stash" /\ stashed = (sweep.q \in stash),
         UNCHANGED <<now, pending, settled, created, job, stash, claims, live, inFlight, mode, lost, wronged, throughout, grown>>
  PROVE  Rc!RecoveryInv'
<1>1. sweep \in Rc!SweepRecords /\ throughout \subseteq Questions /\ grown \in BOOLEAN
  BY RecoveryGives DEF Rc!RecoveryTypeOK
<1>2. PICK q \in Questions : q = sweep.q /\ (Rc!Pending(q) \/ q \in settled)
  BY RecoveryGives DEF Rc!ReadHold, Rc!ReadHolds
<1>3. /\ sweep' \in Rc!SweepRecords /\ sweep'.at = "read" /\ sweep'.q = q
      /\ sweep'.read = {what} /\ sweep'.job = j /\ sweep'.stashed = stashed
  <2>1. {what} \in {{}, {"job"}, {"stash"}}
    OBVIOUS
  <2> DEFINE what_ == {what}
  <2>2. what_ \in {{}, {"job"}, {"stash"}} /\ sweep' = [sweep EXCEPT !.read = what_, !.job = j, !.stashed = stashed]
    BY <2>1
  <2> HIDE DEF what_
  <2>3. sweep' \in Rc!SweepRecords /\ sweep'.at = sweep.at /\ sweep'.q = sweep.q
        /\ sweep'.read = what_ /\ sweep'.job = j /\ sweep'.stashed = stashed
    BY <1>1, <2>2 DEF Rc!SweepRecords
  <2> QED
    BY <1>2, <2>3 DEF what_
<1>4. UNCHANGED <<now, pending, settled, created>> /\ Untouched(q)
  BY DEF Untouched
<1>5. Rc!Doomed(q)' <=> Rc!Doomed(q)
  BY <1>4, UntouchedKeeps
<1>6. Rc!QuestionHolds(q)
  BY RecoveryGives DEF Rc!DrivenHold
<1>7. Rc!ReadHolds(q)'
  <2>1. (Rc!Pending(q) \/ q \in settled)'
    BY <1>2, <1>4 DEF Rc!Pending
  <2>2. CASE what = "job"
    <3>1. sweep'.read = {"job"} /\ sweep'.read # {"stash"} /\ sweep'.job = job[q]
      BY <1>2, <1>3, <2>2
    <3>2. Rc!Dooming(job[q]) => Rc!Doomed(q)
      BY <1>2, TheDooming
    <3>3. Rc!Dooming(sweep.job)' => Rc!Dooming(job[q])
      BY <1>4, <3>1 DEF Rc!Dooming, Rc!Inflight
    <3>4. job[q] = None /\ Rc!Kept(q)' => live'[q] \notin {"holding", "tracked"}
      BY <1>4, <1>6, UntouchedKeeps DEF Untouched, Rc!QuestionHolds, Rc!Fresh
    <3> QED
      BY <1>5, <2>1, <3>1, <3>2, <3>3, <3>4 DEF Rc!ReadHolds
  <2>3. CASE what = "stash"
    <3>1. sweep'.read = {"stash"} /\ sweep'.read # {"job"} /\ sweep'.stashed = (q \in stash')
      BY <1>2, <1>3, <2>3
    <3> QED
      BY <2>1, <3>1 DEF Rc!ReadHolds
  <2> QED
    BY <2>2, <2>3
<1>8. Rc!ReadHold' /\ Rc!SweepHold'
  BY <1>3, <1>7 DEF Rc!ReadHold, Rc!SweepHold
<1> QED
  BY <1>1, <1>3, <1>8, SweepGoesOn
LEMMA BothReadKeeps ==
  ASSUME Rc!RecoveryAssumption, Rc!RecoveryInv, sweep.at = "read", NEW refunded \in BOOLEAN,
         sweep' = [sweep EXCEPT !.read = {}, !.job = None, !.stashed = FALSE, !.at = IF refunded THEN "fresh" ELSE "next",
                                !.refunds = sweep.refunds + IF refunded THEN 1 ELSE 0],
         refunded => Rc!Doomed(sweep.q) /\ sweep.refunds < MaxRefunds,
         UNCHANGED <<now, pending, settled, created, job, stash, claims, live, inFlight, mode, lost, wronged, throughout, grown>>
  PROVE  Rc!RecoveryInv'
<1>1. /\ sweep \in Rc!SweepRecords /\ throughout \subseteq Questions /\ grown \in BOOLEAN
  BY RecoveryGives DEF Rc!RecoveryTypeOK
<1>2. PICK q \in Questions : q = sweep.q
  BY RecoveryGives DEF Rc!ReadHold
<1>3. /\ sweep' \in Rc!SweepRecords /\ sweep'.q = q /\ sweep'.at \in {"fresh", "next"} /\ sweep'.read = {}
      /\ sweep'.at = "fresh" => refunded
  <2> DEFINE at == IF refunded THEN "fresh" ELSE "next"
             n == sweep.refunds + IF refunded THEN 1 ELSE 0
  <2>1. at \in {"fresh", "next"} /\ (at = "fresh" => refunded) /\ n \in 0..MaxRefunds
    BY <1>1, RecoveryGives DEF Rc!SweepRecords
  <2>2. sweep' = [sweep EXCEPT !.read = {}, !.job = None, !.stashed = FALSE, !.at = at, !.refunds = n]
    OBVIOUS
  <2> HIDE DEF at, n
  <2> QED
    BY <1>1, <1>2, <2>1, <2>2 DEF Rc!SweepRecords
<1>4. refunded => Rc!Doomed(q)'
  BY <1>2, UntouchedKeeps DEF Untouched
<1>5. Rc!ReadHold'
  BY <1>3 DEF Rc!ReadHold
<1>6. Rc!SweepHold'
  BY <1>3, <1>4 DEF Rc!SweepHold
<1> QED
  BY <1>1, <1>2, <1>3, <1>5, <1>6, RecoveryGives, SweepGoesOn
LEMMA StoreReadKeeps ==
  ASSUME Rc!RecoveryAssumption, Rc!RecoveryInv, Rc!GetJob \/ Rc!GetStash
  PROVE  Rc!RecoveryInv'
<1>1. /\ sweep \in Rc!SweepRecords /\ sweep.at = "read" /\ sweep.q \in Questions
      /\ job[sweep.q] \in Rc!JobRecords \cup {None} /\ sweep.job \in Rc!JobRecords \cup {None}
  <2>1. sweep.at = "read"
    BY DEF Rc!GetJob, Rc!GetStash
  <2>2. sweep.q \in Questions
    BY <2>1, RecoveryGives DEF Rc!ReadHold
  <2>3. sweep \in Rc!SweepRecords /\ job \in [Questions -> Rc!JobRecords \cup {None}]
    BY RecoveryGives DEF Rc!RecoveryTypeOK
  <2> QED
    BY <2>1, <2>2, <2>3 DEF Rc!SweepRecords
<1>2. sweep.read \in {{}, {"job"}, {"stash"}} /\ sweep.stashed \in BOOLEAN
  BY <1>1, Zenon DEF Rc!SweepRecords
<1>3. PICK what \in {"job", "stash"}, j \in Rc!JobRecords \cup {None}, stashed \in BOOLEAN :
        /\ Rc!Read(what, j, stashed)
        /\ \/ what = "job" /\ j = job[sweep.q] /\ stashed = sweep.stashed
           \/ what = "stash" /\ j = sweep.job /\ stashed = (sweep.q \in stash)
  <2>1. (sweep.q \in stash) \in BOOLEAN
    OBVIOUS
  <2>2. CASE Rc!GetJob
    BY <1>1, <1>2, <2>2 DEF Rc!GetJob
  <2>3. CASE Rc!GetStash
    BY <1>1, <2>1, <2>3 DEF Rc!GetStash
  <2> QED
    BY <2>2, <2>3
<1> DEFINE refunded == Rc!ClassifyPendingQuestion(sweep.q, j, stashed) = "refund" /\ sweep.refunds < MaxRefunds
<1>4. /\ what \notin sweep.read
      /\ UNCHANGED <<now, pending, settled, created, job, stash, claims, live, inFlight, mode, lost, wronged, throughout, grown>>
      /\ sweep' = IF sweep.read # {}
                  THEN [sweep EXCEPT !.read = {}, !.job = None, !.stashed = FALSE, !.at = IF refunded THEN "fresh" ELSE "next",
                                     !.refunds = sweep.refunds + IF refunded THEN 1 ELSE 0]
                  ELSE [sweep EXCEPT !.read = {what}, !.job = j, !.stashed = stashed]
  BY <1>3 DEF Rc!Read, Rc!chain, Rc!records, Rc!process, Rc!history
<1>5. CASE sweep.read = {}
  <2>1. sweep' = [sweep EXCEPT !.read = {what}, !.job = j, !.stashed = stashed]
    BY <1>4, <1>5
  <2>2. \/ what = "job" /\ j = job[sweep.q]
        \/ what = "stash" /\ stashed = (sweep.q \in stash)
    BY <1>3
  <2> QED
    BY <1>1, <1>4, <2>1, <2>2, FirstReadKeeps
<1>6. CASE sweep.read # {}
  <2>1. \/ sweep.read = {"job"} /\ j = sweep.job /\ stashed = (sweep.q \in stash)
        \/ sweep.read = {"stash"} /\ j = job[sweep.q] /\ stashed = sweep.stashed
    BY <1>2, <1>3, <1>4, <1>6
  <2>2. refunded => Rc!Doomed(sweep.q) /\ sweep.refunds < MaxRefunds
    BY <1>1, <2>1, TheDoomed
  <2>3. refunded \in BOOLEAN
    OBVIOUS
  <2>4. sweep' = [sweep EXCEPT !.read = {}, !.job = None, !.stashed = FALSE, !.at = IF refunded THEN "fresh" ELSE "next",
                               !.refunds = sweep.refunds + IF refunded THEN 1 ELSE 0]
    BY <1>4, <1>6
  <2> HIDE DEF refunded
  <2> QED
    BY <1>1, <1>4, <2>2, <2>3, <2>4, BothReadKeeps
<1> QED
  BY <1>5, <1>6
LEMMA ReadAgainKeeps ==
  ASSUME Rc!RecoveryAssumption, Rc!RecoveryInv, Rc!ReadAgain
  PROVE  Rc!RecoveryInv'
<1>1. /\ UNCHANGED <<now, pending, settled, created, job, stash, claims, live, inFlight, mode, lost, wronged, throughout, grown>>
      /\ sweep.at = "fresh" /\ sweep' = [sweep EXCEPT !.at = IF Rc!Pending(sweep.q) THEN "refund" ELSE "next"]
  BY DEF Rc!ReadAgain, Rc!chain, Rc!records, Rc!process, Rc!history
<1>2. /\ sweep \in Rc!SweepRecords /\ throughout \subseteq Questions /\ grown \in BOOLEAN /\ sweep.read = {}
  BY <1>1, RecoveryGives DEF Rc!RecoveryTypeOK, Rc!ReadHold
<1>3. PICK q \in Questions : q = sweep.q /\ Rc!Doomed(q)
  BY <1>1, RecoveryGives DEF Rc!SweepHold, Rc!Doomed
<1>4. sweep' \in Rc!SweepRecords /\ sweep'.q = q /\ sweep'.at \in {"refund", "next"} /\ sweep'.read = {}
  BY <1>1, <1>2, <1>3 DEF Rc!SweepRecords
<1>5. Rc!Doomed(q)'
  BY <1>1, <1>3, UntouchedKeeps DEF Untouched
<1>6. Rc!SweepHold' /\ Rc!ReadHold'
  BY <1>4, <1>5 DEF Rc!SweepHold, Rc!ReadHold
<1> QED
  BY <1>1, <1>2, <1>3, <1>4, <1>6, RecoveryGives, SweepGoesOn

\* The refund lands on a question that is not driven, or nothing changes.
LEMMA RefundKeeps ==
  ASSUME Rc!RecoveryAssumption, Rc!RecoveryInv, Rc!SweepRefund
  PROVE  Rc!RecoveryInv'
<1>1. /\ UNCHANGED <<now, job, stash, claims, live, inFlight, mode, grown, lost>> /\ sweep.at = "refund"
      /\ \/ /\ Rc!Settle(sweep.q) /\ sweep' = [sweep EXCEPT !.at = "record"]
            /\ wronged' = wronged \cup IF Rc!Drives(sweep.q) THEN {sweep.q} \ lost ELSE {}
         \/ /\ sweep' = [sweep EXCEPT !.at = "next"]
            /\ UNCHANGED <<pending, settled, created, throughout, wronged>>
  BY DEF Rc!SweepRefund, Rc!chain, Rc!records, Rc!process
<1>2. Rc!Doomed(sweep.q) /\ sweep.q \in Questions /\ sweep.q # None
  BY <1>1, RecoveryGives DEF Rc!SweepHold, Rc!Doomed
<1>3. CASE Rc!Settle(sweep.q) /\ sweep' = [sweep EXCEPT !.at = "record"]
  <2>1. Rc!Drives(sweep.q) => sweep.q \in lost
    BY <1>2, <1>3 DEF Rc!Doomed, Rc!Kept, Rc!Settle
  <2>2. wronged' = wronged
    BY <1>1, <1>3, <2>1, RecoveryGives DEF Rc!RecoveryHolds
  <2> QED
    BY <1>1, <1>2, <1>3, <2>2, SettleKeeps
<1>4. CASE /\ sweep' = [sweep EXCEPT !.at = "next"]
           /\ UNCHANGED <<pending, settled, created, throughout, wronged>>
  BY <1>1, <1>2, <1>4, SweepRests
<1> QED
  BY <1>1, <1>3, <1>4

\* The clock waits for what is driven, for what was charged and is not stashed yet,
\* and for what is being read.
LEMMA TickKeeps ==
  ASSUME Rc!RecoveryAssumption, Rc!RecoveryInv, Rc!Tick
  PROVE  Rc!RecoveryInv'
<1>1. /\ now \in Int /\ job \in [Questions -> Rc!JobRecords \cup {None}] /\ created \in [Questions -> Int]
  BY RecoveryGives DEF Rc!RecoveryTypeOK
<1>2. /\ UNCHANGED <<pending, settled, created, job, stash, claims, live, inFlight, mode, sweep, throughout, grown, lost, wronged>>
      /\ now' = now + 1 /\ sweep.at # "read"
      /\ \A q \in Questions : /\ live[q] \in {"holding", "tracked"} /\ job[q] # None => now - job[q].updatedAt < Driven
                              /\ live[q] = "charged" => now - created[q] < Driven
  BY DEF Rc!Tick, Rc!chain, Rc!records, Rc!process, Rc!history
<1>3. Rc!RecoveryTypeOK'
  BY <1>1, <1>2, RecoveryGives DEF Rc!RecoveryTypeOK
<1>4. \A q : (Rc!Pending(q)' <=> Rc!Pending(q)) /\ (Rc!Kept(q)' <=> Rc!Kept(q)) /\ (Rc!Drives(q)' <=> Rc!Drives(q))
  BY <1>2 DEF Rc!Pending, Rc!Kept, Rc!Drives
<1>5. Rc!DrivenHold'
  <2> SUFFICES ASSUME NEW q \in Questions PROVE Rc!QuestionHolds(q)'
    BY DEF Rc!DrivenHold
  <2>1. Rc!QuestionHolds(q)
    BY RecoveryGives DEF Rc!DrivenHold
  <2>2. Rc!Fresh(q) /\ live[q] \in {"holding", "tracked"} => Rc!Fresh(q)'
    <3> SUFFICES ASSUME Rc!Fresh(q), live[q] \in {"holding", "tracked"} PROVE Rc!Fresh(q)'
      OBVIOUS
    <3>1. job[q] # None /\ job[q].status \in Rc!Inflight /\ job[q].updatedAt \in Int
      BY <1>1 DEF Rc!Fresh, Rc!JobRecords
    <3>2. now' - job[q].updatedAt <= Driven
      <4>1. now - job[q].updatedAt < Driven /\ now' = now + 1
        BY <1>2, <3>1
      <4> QED
        BY <1>1, <3>1, <4>1, RecoveryGives
    <3> QED
      BY <1>2, <3>1, <3>2 DEF Rc!Fresh, Rc!Inflight
  <2>3. live[q] = "charged" => now' - created[q] <= Driven
    <3>1. live[q] = "charged" => now - created[q] < Driven
      BY <1>2
    <3>2. now' = now + 1 /\ created[q] \in Int
      BY <1>1, <1>2
    <3> QED
      BY <1>1, <3>1, <3>2, RecoveryGives
  <2> QED
    BY <1>2, <1>4, <2>1, <2>2, <2>3 DEF Rc!QuestionHolds
<1>6. \A q : Rc!Doomed(q)' <=> Rc!Doomed(q)
  BY <1>2, <1>4 DEF Rc!Doomed
<1>7. Rc!SweepHold'
  <2>1. sweep.at \in {"fresh", "refund", "record"} => Rc!Doomed(sweep.q)'
    <3> SUFFICES ASSUME sweep.at \in {"fresh", "refund", "record"} PROVE Rc!Doomed(sweep.q)'
      OBVIOUS
    <3>1. PICK p : p = sweep.q /\ Rc!Doomed(p)
      BY RecoveryGives DEF Rc!SweepHold
    <3>2. Rc!Doomed(p)' /\ p = sweep'.q
      BY <1>2, <1>6, <3>1
    <3> QED
      BY <3>2
  <2>2. Rc!ToSet(pending)' = Rc!ToSet(pending)
    BY <1>2
  <2> QED
    BY <1>2, <2>1, <2>2, RecoveryGives DEF Rc!SweepHold
<1>8. Rc!ReadHold'
  BY <1>2, RecoveryGives DEF Rc!ReadHold
<1>9. Rc!RecoveryHolds'
  BY <1>2, RecoveryGives DEF Rc!RecoveryHolds
<1>10. (Rc!ToSet(pending) \cap settled = {} /\ mode \in {"up", "draining", "down"})'
  BY <1>2, RecoveryGives
<1> QED
  BY <1>3, <1>5, <1>7, <1>8, <1>9, <1>10, RecoveryFollows, PTL

\* The instance drains, comes up or goes down.
LEMMA ModeKeeps ==
  ASSUME Rc!RecoveryAssumption, Rc!RecoveryInv, mode' \in {"up", "draining", "down"},
         UNCHANGED <<now, pending, settled, created, job, stash, claims, live, inFlight, sweep, throughout, grown, lost, wronged>>
  PROVE  Rc!RecoveryInv'
<1>1. Rc!RecoveryTypeOK'
  BY RecoveryGives DEF Rc!RecoveryTypeOK
<1>2. \A q \in Questions : Untouched(q)
  BY DEF Untouched
<1>3. Rc!DrivenHold'
  BY <1>2, UntouchedKeeps, RecoveryGives DEF Rc!DrivenHold
<1>4. Rc!SweepHold'
  <2>1. sweep.at \in {"fresh", "refund", "record"} => Rc!Doomed(sweep.q)'
    <3> SUFFICES ASSUME sweep.at \in {"fresh", "refund", "record"} PROVE Rc!Doomed(sweep.q)'
      OBVIOUS
    <3>1. PICK p \in Questions : p = sweep.q /\ Rc!Doomed(p)
      BY RecoveryGives DEF Rc!SweepHold, Rc!Doomed
    <3>2. Rc!Doomed(p)' /\ p = sweep'.q
      BY <1>2, <3>1, UntouchedKeeps
    <3> QED
      BY <3>2
  <2>2. Rc!ToSet(pending)' = Rc!ToSet(pending)
    OBVIOUS
  <2> QED
    BY <2>1, <2>2, RecoveryGives DEF Rc!SweepHold
<1>5. Rc!ReadHold'
  <2>1. CASE sweep.at = "read"
    <3>1. PICK p \in Questions : p = sweep.q /\ Rc!ReadHolds(p)
      BY <2>1, RecoveryGives DEF Rc!ReadHold
    <3>2. Rc!ReadHolds(p)' /\ p = sweep'.q
      BY <1>2, <3>1, UntouchedKeeps
    <3> QED
      BY <2>1, <3>1, <3>2 DEF Rc!ReadHold
  <2>2. CASE sweep.at # "read"
    BY <2>2, RecoveryGives DEF Rc!ReadHold
  <2> QED
    BY <2>1, <2>2
<1>6. Rc!RecoveryHolds'
  BY RecoveryGives DEF Rc!RecoveryHolds
<1>7. (Rc!ToSet(pending) \cap settled = {} /\ mode \in {"up", "draining", "down"})'
  BY RecoveryGives
<1> QED
  BY <1>1, <1>3, <1>4, <1>5, <1>6, <1>7, RecoveryFollows, PTL
LEMMA DownKeeps ==
  ASSUME Rc!RecoveryAssumption, Rc!RecoveryInv, Rc!Exit \/ Rc!Crash
  PROVE  Rc!RecoveryInv'
<1>1. /\ UNCHANGED <<now, pending, settled, created, job, stash, claims, wronged>>
      /\ mode' = "down" /\ live' = [q \in Questions |-> "no"] /\ inFlight' = 0
      /\ sweep' = Rc!Idle /\ lost' = {} /\ throughout' = {} /\ grown' = FALSE
  BY DEF Rc!Exit, Rc!Crash, Rc!Down, Rc!chain, Rc!records
<1>2. sweep' \in Rc!SweepRecords /\ sweep'.at = "idle" /\ sweep'.read = {}
  BY <1>1, IdleIs
<1>3. Rc!RecoveryTypeOK'
  <2>1. Rc!RecoveryTypeOK /\ grown' \in BOOLEAN
    BY <1>1, RecoveryGives
  <2>2. live' \in [Questions -> {"no", "holding", "tracked"} \cup Rc!Starting] /\ inFlight' \in Int
        /\ lost' \subseteq Questions /\ throughout' \subseteq Questions
    BY <1>1
  <2> QED
    BY <1>1, <1>2, <2>1, <2>2 DEF Rc!RecoveryTypeOK
<1>4. Rc!DrivenHold'
  <2> SUFFICES ASSUME NEW q \in Questions PROVE Rc!QuestionHolds(q)'
    BY DEF Rc!DrivenHold
  <2>1. Rc!QuestionHolds(q)
    BY RecoveryGives DEF Rc!DrivenHold
  <2> QED
    BY <1>1, <2>1 DEF Rc!QuestionHolds, Rc!Pending
<1>5. Rc!SweepHold' /\ Rc!ReadHold'
  BY <1>2 DEF Rc!SweepHold, Rc!ReadHold
<1>6. {q \in Questions : live'[q] = "tracked"} = {} /\ Rc!Cardinality({}) = 0
  BY <1>1, FS_EmptySet, SweepCardinality
<1>7. Rc!RecoveryHolds'
  BY <1>1, <1>2, <1>6, RecoveryGives DEF Rc!RecoveryHolds
<1>8. (Rc!ToSet(pending) \cap settled = {} /\ mode \in {"up", "draining", "down"})'
  BY <1>1, RecoveryGives
<1> QED
  BY <1>3, <1>4, <1>5, <1>7, <1>8, RecoveryFollows, PTL

\* The worker's answer is settled on the chain, or the timeout's refund lands.
LEMMA LandingKeeps ==
  ASSUME Rc!RecoveryAssumption, Rc!RecoveryInv, NEW q \in Questions, Rc!Resolve(q) \/ Rc!RefundTimeout(q)
  PROVE  Rc!RecoveryInv'
<1>1. Rc!Settle(q) /\ UNCHANGED <<now, job, stash, claims, live, inFlight, mode, sweep, grown, lost, wronged>>
  BY DEF Rc!Resolve, Rc!RefundTimeout, Rc!records, Rc!process
<1> QED
  BY <1>1, SettleKeeps

\* Every step keeps the invariant.
LEMMA RecoveryStep == Rc!RecoveryAssumption /\ Rc!RecoveryInv /\ [Rc!Next]_(Rc!vars) => Rc!RecoveryInv'
<1> SUFFICES ASSUME Rc!RecoveryAssumption, Rc!RecoveryInv, [Rc!Next]_(Rc!vars)
             PROVE  Rc!RecoveryInv'
  OBVIOUS
<1>1. CASE UNCHANGED Rc!vars
  <2>1. /\ UNCHANGED <<now, pending, settled, created, job, stash, claims, live, inFlight, sweep, throughout, grown, lost, wronged>>
        /\ mode' \in {"up", "draining", "down"}
    BY <1>1, RecoveryGives DEF Rc!vars, Rc!chain, Rc!records, Rc!process, Rc!history
  <2> QED
    BY <2>1, ModeKeeps
<1>2. CASE Rc!Next
  <2>1. CASE Rc!BeginDrain \/ Rc!Restart
    <3>1. /\ UNCHANGED <<now, pending, settled, created, job, stash, claims, live, inFlight, sweep, throughout, grown, lost, wronged>>
          /\ mode' \in {"up", "draining", "down"}
      BY <2>1 DEF Rc!BeginDrain, Rc!Restart, Rc!chain, Rc!records, Rc!history
    <3> QED
      BY <3>1, ModeKeeps
  <2>2. CASE Rc!Exit \/ Rc!Crash \/ Rc!LoseStore \/ Rc!Tick
    BY <2>2, DownKeeps, LosingKeeps, TickKeeps
  <2>3. CASE Rc!BeginScan \/ Rc!ListPending \/ Rc!EndScan
    BY <2>3, BeginScanKeeps, PageKeeps, EndScanKeeps
  <2>4. CASE Rc!GetJob \/ Rc!GetStash \/ Rc!ReadAgain \/ Rc!SweepRefund \/ Rc!RecordRefund
    BY <2>4, StoreReadKeeps, ReadAgainKeeps, RefundKeeps, RecordKeeps
  <2>5. CASE Rc!EndSweep
    <3>1. UNCHANGED <<now, pending, settled, created, job, stash, claims, live, inFlight, mode, lost, wronged, throughout, grown>>
          /\ sweep' = Rc!Idle /\ sweep.at # "read"
      BY <2>5 DEF Rc!EndSweep, Rc!chain, Rc!records, Rc!process, Rc!history
    <3> QED
      BY <3>1, SweepRests
  <2>6. ASSUME NEW q \in Questions, Rc!Submit(q) \/ Rc!StashExpires(q) \/ Rc!ReadStash(q) \/ Rc!VerifyPayment(q)
        PROVE  Rc!RecoveryInv'
    BY <2>6, OpenKeeps, ExpiryKeeps, ReadStashKeeps, VerifyKeeps
  <2>7. ASSUME NEW q \in Questions, Rc!ChargeBalance(q) \/ Rc!StashQuestion(q) \/ Rc!ClaimJob(q) \/ Rc!CreateJob(q)
        PROVE  Rc!RecoveryInv'
    BY <2>7, OpenKeeps, StashKeeps, ClaimKeeps, CreateKeeps
  <2>8. ASSUME NEW q \in Questions, Rc!Track(q) \/ Rc!Resolve(q) \/ Rc!Done(q) \/ Rc!RefundTimeout(q) \/ Rc!ReadQuestion(q)
        PROVE  Rc!RecoveryInv'
    BY <2>8, TrackKeeps, LandingKeeps, DoneKeeps, ReadQuestionKeeps
  <2> QED
    BY <1>2, <2>1, <2>2, <2>3, <2>4, <2>5, <2>6, <2>7, <2>8 DEF Rc!Next
<1> QED
  BY <1>1, <1>2

\* A sweep that holds its snapshot to be consistent has every question that was
\* pending all the while, unless others were submitted; it never refunds a question
\* that an instance fulfils or has started to, whatever steps that takes beside the
\* sweep's own reads, unless the store was lost under it or its stash expired
\* meanwhile; and the drain counts what runs (sweepPendingQuestions(),
\* createDrainController()).
THEOREM SweepsAreSafe == ASSUME Rc!RecoveryAssumption PROVE Rc!Spec => []Rc!RecoveryHolds
<1>1. Rc!Init => Rc!RecoveryInv
  BY RecoveryInit
<1>2. Rc!RecoveryInv /\ [Rc!Next]_(Rc!vars) => Rc!RecoveryInv'
  BY RecoveryStep
<1>3. Rc!RecoveryInv => Rc!RecoveryHolds
  BY RecoveryGives
<1> QED
  BY <1>1, <1>2, <1>3, PTL DEF Rc!Spec

LEMMA DrainedDropsNothing == ASSUME Rc!RecoveryAssumption, Rc!RecoveryInv PROVE Rc!DropsNothing
BY TrackedCounts DEF Rc!DropsNothing, Rc!Exit, Rc!Drained

\* An instance that leaves by its drain drops no fulfilment that had started
\* (drainAndExit()).
THEOREM DrainsDropNothing == ASSUME Rc!RecoveryAssumption PROVE Rc!Spec => Rc!DrainDropsNothing
<1>1. Rc!Init => Rc!RecoveryInv
  BY RecoveryInit
<1>2. Rc!RecoveryInv /\ [Rc!Next]_(Rc!vars) => Rc!RecoveryInv'
  BY RecoveryStep
<1>3. Rc!RecoveryInv => Rc!DropsNothing
  BY DrainedDropsNothing
<1> QED
  BY <1>1, <1>2, <1>3, PTL DEF Rc!Spec, Rc!DrainDropsNothing
-----------------------------------------------------------------------------
(* Who is online *)

LEMMA SupplyInit ==
  ASSUME Su!SupplyAssumption, Su!Init
  PROVE  Su!PresenceInv /\ Su!RoutingInv
<1>1. Su!TypeOK
  BY DEF Su!Init, Su!TypeOK, Su!Sets
<1>2. ASSUME NEW w \in Workers PROVE Su!Tracked(w)
  <2>1. Su!OpenOf(w) = {}
    BY DEF Su!Init, Su!OpenOf
  <2>2. \A i \in Instances : w \notin Su!Online(i) /\ DOMAIN queue[i] = {} /\ i \notin Su!Pending(w)
    BY DEF Su!Init, Su!Online, Su!Pending
  <2>3. presence[w] = None /\ ~Su!Connected(w) /\ Su!Pending(w) = {}
    BY <2>2 DEF Su!Init, Su!Connected, Su!Pending
  <2> QED
    BY <2>1, <2>2, <2>3 DEF Su!Tracked
<1>3. Su!RoutingInv
  BY <1>1 DEF Su!Init, Su!RoutingInv, Su!Remembered, Su!NoTask, Su!RoutingHolds
<1> QED
  BY <1>1, <1>2, <1>3 DEF Su!PresenceInv

\* A queue that is added to and taken from.
LEMMA QueueFacts ==
  ASSUME NEW S, NEW q \in Seq(S)
  PROVE  /\ Len(q) \in Nat /\ DOMAIN q = 1..Len(q)
         /\ \A e \in S : /\ Append(q, e) \in Seq(S) /\ DOMAIN Append(q, e) = 1..(Len(q) + 1)
                         /\ \A n \in 1..Len(q) : Append(q, e)[n] = q[n]
                         /\ Append(q, e)[Len(q) + 1] = e
         /\ q # <<>> => /\ Len(q) > 0 /\ Head(q) = q[1] /\ q[1] \in S
                        /\ Tail(q) \in Seq(S) /\ DOMAIN Tail(q) = 1..(Len(q) - 1)
                        /\ \A n \in 1..(Len(q) - 1) : Tail(q)[n] = q[n + 1]
  OBVIOUS

\* What no step does to the records.
LEMMA SupplyTypes ==
  ASSUME Su!SupplyAssumption, Su!TypeOK, [Su!Next]_(Su!vars)
  PROVE  Su!TypeOK' /\ topic' = topic
<1> USE DEF Su!TypeOK, Su!Conns
<1>1. CASE UNCHANGED Su!vars
  BY <1>1 DEF Su!vars
<1>2. ASSUME NEW i \in Instances, NEW w \in Workers, NEW c \in Su!Conns, NEW categories \in SUBSET Categories,
             Su!RegisterWorker(i, w, c, categories)
      PROVE  Su!TypeOK' /\ topic' = topic
  <2>1. categories \in Su!Sets
    BY DEF Su!Sets
  <2>2. topic' = topic /\ presence' = presence /\ standing' = standing
        /\ conn' = [conn EXCEPT ![c] = [worker |-> w, at |-> i, open |-> TRUE]]
        /\ workers' = [workers EXCEPT ![i][w] = categories] /\ Su!Send(i, w, categories)
    BY <1>2 DEF Su!RegisterWorker, Su!routingVars
  <2>3. conn' \in [Su!Conns -> Su!Connections \cup {None}]
    BY <2>2 DEF Su!Connections
  <2>4. workers' \in [Instances -> [Workers -> Su!Sets]]
    BY <2>1, <2>2
  <2>5. queue' \in [Instances -> Seq(Su!Commands)]
    <3>1. [worker |-> w, put |-> categories] \in Su!Commands
      BY <2>1 DEF Su!Commands
    <3>2. Append(queue[i], [worker |-> w, put |-> categories]) \in Seq(Su!Commands)
      BY <3>1, QueueFacts
    <3> QED
      BY <2>2, <3>2 DEF Su!Send
  <2> QED
    BY <2>2, <2>3, <2>4, <2>5
<1>3. ASSUME NEW c \in Su!Conns, Su!UnregisterWorker(c) PROVE Su!TypeOK' /\ topic' = topic
  <2>1. None \in Su!Sets /\ conn[c] \in Su!Connections
    BY <1>3 DEF Su!Sets, Su!UnregisterWorker
  <2>2. topic' = topic /\ presence' = presence /\ standing' = standing
        /\ conn' = [conn EXCEPT ![c].open = FALSE]
        /\ workers' = [workers EXCEPT ![conn[c].at][conn[c].worker] = None] /\ Su!Send(conn[c].at, conn[c].worker, None)
    BY <1>3 DEF Su!UnregisterWorker, Su!routingVars
  <2>3. conn' \in [Su!Conns -> Su!Connections \cup {None}]
    BY <2>1, <2>2 DEF Su!Connections
  <2>4. workers' \in [Instances -> [Workers -> Su!Sets]]
    BY <2>1, <2>2 DEF Su!Connections
  <2>5. queue' \in [Instances -> Seq(Su!Commands)]
    <3> DEFINE i == conn[c].at
    <3>1. i \in Instances /\ [worker |-> conn[c].worker, put |-> None] \in Su!Commands
      BY <2>1 DEF Su!Commands, Su!Connections
    <3> HIDE DEF i
    <3>2. Append(queue[i], [worker |-> conn[c].worker, put |-> None]) \in Seq(Su!Commands)
      BY <3>1, QueueFacts
    <3> QED
      BY <2>2, <3>2 DEF Su!Send, i
  <2> QED
    BY <2>2, <2>3, <2>4, <2>5
<1>4. ASSUME NEW i \in Instances, Su!RunCommand(i) PROVE Su!TypeOK' /\ topic' = topic
  <2>1. queue[i] \in Seq(Su!Commands) /\ queue[i] # <<>>
    BY <1>4 DEF Su!RunCommand
  <2>2. Head(queue[i]) \in Su!Commands /\ Tail(queue[i]) \in Seq(Su!Commands)
    BY <2>1, QueueFacts
  <2>3. Head(queue[i]).worker \in Workers /\ Head(queue[i]).put \in Su!Sets
    BY <2>2 DEF Su!Commands
  <2> QED
    BY <1>4, <2>2, <2>3 DEF Su!RunCommand, Su!routingVars
<1>5. ASSUME NEW i \in Instances, Su!Crash(i) PROVE Su!TypeOK' /\ topic' = topic
  <2>1. None \in Su!Sets /\ <<>> \in Seq(Su!Commands)
    BY DEF Su!Sets
  <2>2. topic' = topic /\ presence' = presence /\ standing' = standing
        /\ conn' = [c \in Su!Conns |-> IF conn[c] # None /\ conn[c].at = i THEN [conn[c] EXCEPT !.open = FALSE] ELSE conn[c]]
        /\ workers' = [workers EXCEPT ![i] = [w \in Workers |-> None]] /\ queue' = [queue EXCEPT ![i] = <<>>]
    BY <1>5 DEF Su!Crash, Su!routingVars
  <2>3. conn' \in [Su!Conns -> Su!Connections \cup {None}]
    BY <2>2 DEF Su!Connections
  <2> QED
    BY <2>1, <2>2, <2>3
<1>6. ASSUME NEW w \in Workers, NEW rep \in {"new", "trusted", "poor"}, NEW b \in BOOLEAN, Su!ChangeStanding(w, rep, b)
      PROVE  Su!TypeOK' /\ topic' = topic
  BY <1>6 DEF Su!ChangeStanding, Su!presenceVars
<1>7. ASSUME UNCHANGED <<topic, conn, workers, queue, presence, standing>> PROVE Su!TypeOK' /\ topic' = topic
  BY <1>7
<1>8. ASSUME NEW i \in Instances, \/ Su!SampleSupply(i)
                                  \/ \E category \in Categories \cup {None}, whitelist \in SUBSET Workers, prefer \in BOOLEAN :
                                       Su!SelectTargets(i, category, whitelist, prefer)
      PROVE  UNCHANGED <<topic, conn, workers, queue, presence, standing>>
  BY <1>8 DEF Su!SampleSupply, Su!SelectTargets, Su!presenceVars, Su!routingVars
<1>9. ASSUME \/ \E w \in Workers : Su!AskSuspended(w) \/ Su!AskEstablished(w)
             \/ Su!AskReputation \/ Su!Narrow \/ Su!Prefer
      PROVE  UNCHANGED <<topic, conn, workers, queue, presence, standing>>
  BY <1>9 DEF Su!AskSuspended, Su!AskEstablished, Su!AskReputation, Su!Narrow, Su!Prefer, Su!Asks, Su!presenceVars
<1> QED
  BY <1>1, <1>2, <1>3, <1>4, <1>5, <1>6, <1>7, <1>8, <1>9 DEF Su!Next

\* What a command at the end of a queue changes of which is a worker's last.
LEMMA SentLast ==
  ASSUME Su!TypeOK, topic = "presence", topic' = topic, NEW i \in Instances, NEW v \in Workers, NEW put \in Su!Sets,
         Su!Send(i, v, put)
  PROVE  /\ Su!Pending(v)' = Su!Pending(v) \cup {i}
         /\ \A w \in Workers \ {v} : Su!Pending(w)' = Su!Pending(w)
         /\ \A w \in Workers, j \in Instances : \A n \in DOMAIN queue'[j] : Su!LastOf(w, j, n)' =>
              IF w = v /\ j = i THEN queue'[j][n].put = put
              ELSE n \in DOMAIN queue[j] /\ Su!LastOf(w, j, n) /\ queue'[j][n] = queue[j][n]
<1> DEFINE e == [worker |-> v, put |-> put]
<1>1. e \in Su!Commands
  BY DEF Su!Commands
<1>2. queue' = [queue EXCEPT ![i] = Append(queue[i], e)] /\ queue[i] \in Seq(Su!Commands) /\ queue \in [Instances -> Seq(Su!Commands)]
  BY DEF Su!Send, Su!TypeOK
<1>3. /\ Len(queue[i]) \in Nat /\ DOMAIN queue[i] = 1..Len(queue[i])
      /\ DOMAIN queue'[i] = 1..(Len(queue[i]) + 1)
      /\ \A n \in 1..Len(queue[i]) : queue'[i][n] = queue[i][n]
      /\ queue'[i][Len(queue[i]) + 1] = e
  BY <1>1, <1>2, QueueFacts
<1>4. \A j \in Instances : j # i => queue'[j] = queue[j]
  BY <1>2
<1>5. e.worker = v /\ e.put = put
  OBVIOUS
<1> HIDE DEF e
<1> DEFINE N == Len(queue[i])
<1>6. N \in Nat /\ N + 1 \in DOMAIN queue'[i] /\ \A n \in DOMAIN queue[i] : n \in DOMAIN queue'[i] /\ n < N + 1 /\ n \in Int
  BY <1>3
<1>7. \A n \in DOMAIN queue'[i] : n = N + 1 \/ n \in DOMAIN queue[i]
  BY <1>3
<1>8. DOMAIN queue[i] = 1..N /\ queue'[i][N + 1] = e /\ \A n \in DOMAIN queue[i] : queue'[i][n] = queue[i][n]
  BY <1>3
<1> HIDE DEF N
<1>9. Su!Pending(v)' = Su!Pending(v) \cup {i}
  BY <1>4, <1>5, <1>6, <1>7, <1>8 DEF Su!Pending
<1>10. \A w \in Workers \ {v} : Su!Pending(w)' = Su!Pending(w)
  BY <1>4, <1>5, <1>6, <1>7, <1>8 DEF Su!Pending
<1>11. ASSUME NEW w \in Workers, NEW j \in Instances, NEW n \in DOMAIN queue'[j], Su!LastOf(w, j, n)'
       PROVE  IF w = v /\ j = i THEN queue'[j][n].put = put
              ELSE n \in DOMAIN queue[j] /\ Su!LastOf(w, j, n) /\ queue'[j][n] = queue[j][n]
  <2>1. CASE j # i
    BY <1>4, <1>11, <2>1 DEF Su!LastOf
  <2>2. CASE j = i /\ w = v
    <3>1. n = N + 1
      BY <1>5, <1>6, <1>7, <1>8, <1>11, <2>2 DEF Su!LastOf
    <3> QED
      BY <1>5, <1>8, <2>2, <3>1
  <2>3. CASE j = i /\ w # v
    <3>1. n \in DOMAIN queue[i] /\ queue'[i][n] = queue[i][n]
      BY <1>5, <1>7, <1>8, <1>11, <2>3 DEF Su!LastOf
    <3>2. \A m \in DOMAIN queue[i] : m > n => queue[i][m].worker # w
      BY <1>6, <1>8, <1>11, <2>3 DEF Su!LastOf
    <3> QED
      BY <1>11, <2>3, <3>1, <3>2 DEF Su!LastOf
  <2> QED
    BY <2>1, <2>2, <2>3
<1> QED
  BY <1>9, <1>10, <1>11

LEMMA RegisteringTracks ==
  ASSUME Su!SupplyAssumption, Su!PresenceInv, topic = "presence",
         NEW i \in Instances, NEW v \in Workers, NEW c \in Su!Conns, NEW categories \in SUBSET Categories,
         Su!RegisterWorker(i, v, c, categories), NEW w \in Workers \ overlapped'
  PROVE  Su!Tracked(w)'
<1>1. /\ Su!TypeOK /\ topic' = topic /\ conn[c] = None /\ presence' = presence /\ orphaned' = orphaned
      /\ conn' = [conn EXCEPT ![c] = [worker |-> v, at |-> i, open |-> TRUE]]
      /\ workers' = [workers EXCEPT ![i][v] = categories] /\ Su!Send(i, v, categories)
      /\ overlapped' = IF Su!OpenOf(v) # {} \/ Su!Pending(v) \ {i} # {} THEN overlapped \cup {v} ELSE overlapped
  BY DEF Su!RegisterWorker, Su!PresenceInv
<1>2. w \notin overlapped /\ Su!Tracked(w)
  BY <1>1 DEF Su!PresenceInv
<1>3. categories \in Su!Sets /\ categories # None
  BY DEF Su!Sets, Su!SupplyAssumption
<1>4. /\ Su!Pending(v)' = Su!Pending(v) \cup {i}
      /\ \A u \in Workers \ {v} : Su!Pending(u)' = Su!Pending(u)
      /\ \A j \in Instances : \A n \in DOMAIN queue'[j] : Su!LastOf(w, j, n)' =>
              IF w = v /\ j = i THEN queue'[j][n].put = categories
              ELSE n \in DOMAIN queue[j] /\ Su!LastOf(w, j, n) /\ queue'[j][n] = queue[j][n]
  BY <1>1, <1>3, SentLast
<1>5. /\ \A j \in Instances, u \in Workers : workers'[j][u] = IF j = i /\ u = v THEN categories ELSE workers[j][u]
      /\ \A d \in Su!Conns : conn'[d] = IF d = c THEN [worker |-> v, at |-> i, open |-> TRUE] ELSE conn[d]
      /\ Su!Conns' = Su!Conns
  BY <1>1 DEF Su!TypeOK, Su!Conns
<1>6. [worker |-> v, at |-> i, open |-> TRUE] # None
  <2>1. [worker |-> v, at |-> i, open |-> TRUE] \in Su!Connections
    BY DEF Su!Connections
  <2> QED
    BY <2>1 DEF Su!SupplyAssumption
<1>7. CASE w # v
  <2>1. Su!OpenOf(w)' = Su!OpenOf(w) /\ \A d \in Su!OpenOf(w) : conn'[d] = conn[d]
    BY <1>1, <1>5, <1>7 DEF Su!OpenOf
  <2>2. \A j \in Instances : w \in Su!Online(j)' <=> w \in Su!Online(j)
    BY <1>5, <1>7 DEF Su!Online
  <2>3. Su!Connected(w)' <=> Su!Connected(w)
    BY <2>2 DEF Su!Connected
  <2>4. \A j \in Instances : workers'[j][w] = workers[j][w]
    BY <1>5, <1>7
  <2>5. Su!Pending(w)' = Su!Pending(w)
    BY <1>4, <1>7
  <2> QED
    BY <1>1, <1>2, <1>4, <1>7, <2>1, <2>2, <2>3, <2>4, <2>5 DEF Su!Tracked
<1>8. CASE w = v
  <2>1. Su!OpenOf(v) = {} /\ Su!Pending(v) \subseteq {i}
    BY <1>1, <1>2, <1>8
  <2>2. Su!OpenOf(v)' = {c} /\ conn'[c].at = i
    BY <1>1, <1>5, <1>6, <2>1 DEF Su!OpenOf
  <2>3. Su!Pending(v)' = {i}
    BY <1>4, <2>1
  <2>4. \A j \in Instances : v \in Su!Online(j)' <=> j = i
    BY <1>2, <1>3, <1>5, <1>8, <2>1 DEF Su!Tracked, Su!Online
  <2>5. \A j \in Instances : \A n \in DOMAIN queue'[j] : Su!LastOf(v, j, n)' => queue'[j][n].put = workers'[j][v]
    BY <1>2, <1>4, <1>5, <1>8 DEF Su!Tracked
  <2> QED
    BY <1>8, <2>2, <2>3, <2>4, <2>5 DEF Su!Tracked
<1> QED
  BY <1>7, <1>8

LEMMA UnregisteringTracks ==
  ASSUME Su!SupplyAssumption, Su!PresenceInv, topic = "presence",
         NEW c \in Su!Conns, Su!UnregisterWorker(c), NEW w \in Workers \ overlapped'
  PROVE  Su!Tracked(w)'
<1>0. PICK i \in Instances, v \in Workers : i = conn[c].at /\ v = conn[c].worker
  BY DEF Su!UnregisterWorker, Su!PresenceInv, Su!TypeOK, Su!Connections
<1>1. /\ Su!TypeOK /\ topic' = topic /\ conn[c] # None /\ conn[c].open /\ presence' = presence /\ orphaned' = orphaned
      /\ conn' = [conn EXCEPT ![c].open = FALSE]
      /\ workers' = [workers EXCEPT ![i][v] = None] /\ Su!Send(i, v, None) /\ overlapped' = overlapped
  BY <1>0 DEF Su!UnregisterWorker, Su!PresenceInv
<1>2. w \notin overlapped /\ Su!Tracked(w)
  BY <1>1 DEF Su!PresenceInv
<1>3. None \in Su!Sets /\ conn[c] \in Su!Connections
  BY <1>1 DEF Su!Sets, Su!Connections, Su!TypeOK
<1>4. c \in Su!OpenOf(v)
  BY <1>0, <1>1 DEF Su!OpenOf
<1>5. /\ Su!Pending(v)' = Su!Pending(v) \cup {i}
      /\ \A u \in Workers \ {v} : Su!Pending(u)' = Su!Pending(u)
      /\ \A j \in Instances : \A n \in DOMAIN queue'[j] : Su!LastOf(w, j, n)' =>
              IF w = v /\ j = i THEN queue'[j][n].put = None
              ELSE n \in DOMAIN queue[j] /\ Su!LastOf(w, j, n) /\ queue'[j][n] = queue[j][n]
  <2>1. Su!TypeOK /\ topic' = topic /\ Su!Send(i, v, None) /\ w \in Workers
    BY <1>1
  <2>2. None \in Su!Sets /\ i \in Instances /\ v \in Workers
    BY <1>3
  <2> QED
    BY <2>1, <2>2, SentLast
<1>6. /\ \A j \in Instances, u \in Workers : workers'[j][u] = IF j = i /\ u = v THEN None ELSE workers[j][u]
      /\ \A d \in Su!Conns : d # c => conn'[d] = conn[d]
      /\ ~conn'[c].open /\ Su!Conns' = Su!Conns
  BY <1>1, <1>3 DEF Su!TypeOK, Su!Conns, Su!Connections
<1>7. CASE w # v
  <2>1. c \notin Su!OpenOf(w)
    BY <1>0, <1>7 DEF Su!OpenOf
  <2>2. Su!OpenOf(w)' = Su!OpenOf(w) /\ \A d \in Su!OpenOf(w) : conn'[d] = conn[d]
    BY <1>6, <2>1 DEF Su!OpenOf
  <2>3. \A j \in Instances : w \in Su!Online(j)' <=> w \in Su!Online(j)
    BY <1>6, <1>7 DEF Su!Online
  <2>4. Su!Connected(w)' <=> Su!Connected(w)
    BY <2>3 DEF Su!Connected
  <2>5. \A j \in Instances : workers'[j][w] = workers[j][w]
    BY <1>6, <1>7
  <2>6. Su!Pending(w)' = Su!Pending(w)
    BY <1>5, <1>7
  <2> QED
    BY <1>1, <1>2, <1>5, <1>7, <2>2, <2>3, <2>4, <2>5, <2>6 DEF Su!Tracked
<1>8. CASE w = v
  <2>1. /\ Su!OpenOf(v) = {c} /\ \A j \in Instances : v \in Su!Online(j) <=> j = i
    <3>1. Su!OpenOf(v) = {c}
      BY <1>2, <1>4, <1>8 DEF Su!Tracked
    <3>2. \A j \in Instances : v \in Su!Online(j) <=> \E d \in Su!OpenOf(v) : conn[d].at = j
      BY <1>2, <1>8 DEF Su!Tracked
    <3> QED
      BY <1>0, <3>1, <3>2
  <2>2. Su!OpenOf(v)' = {}
    BY <1>6, <2>1 DEF Su!OpenOf
  <2>3. Su!Pending(v)' = {i}
    <3>1. \A j \in Su!Pending(v) : j \in Instances
      BY DEF Su!Pending
    <3> QED
      BY <1>2, <1>3, <1>5, <1>8, <2>1, <3>1 DEF Su!Tracked
  <2>4. \A j \in Instances : v \notin Su!Online(j)'
    BY <1>3, <1>6, <2>1 DEF Su!Online
  <2>5. ASSUME NEW j \in Instances, NEW n \in DOMAIN queue'[j], Su!LastOf(v, j, n)' PROVE queue'[j][n].put = workers'[j][v]
    <3>1. CASE j = i
      BY <1>3, <1>5, <1>6, <1>8, <2>5, <3>1
    <3>2. CASE j # i
      <4>1. queue'[j][n] = queue[j][n] /\ n \in DOMAIN queue[j] /\ Su!LastOf(v, j, n) /\ workers'[j][v] = workers[j][v]
        BY <1>3, <1>5, <1>6, <1>8, <2>5, <3>2
      <4> QED
        BY <1>2, <1>8, <4>1 DEF Su!Tracked
    <3> QED
      BY <3>1, <3>2
  <2> QED
    BY <1>8, <2>2, <2>3, <2>4, <2>5 DEF Su!Tracked
<1> QED
  BY <1>7, <1>8

LEMMA RunningTracks ==
  ASSUME Su!SupplyAssumption, Su!PresenceInv, topic = "presence", NEW i \in Instances, Su!RunCommand(i),
         NEW w \in Workers \ overlapped'
  PROVE  Su!Tracked(w)'
<1>1. /\ Su!TypeOK /\ queue[i] # <<>> /\ topic' = topic /\ conn' = conn /\ workers' = workers
      /\ overlapped' = overlapped /\ orphaned' = orphaned
      /\ presence' = [presence EXCEPT ![Head(queue[i]).worker] = Head(queue[i]).put]
      /\ queue' = [queue EXCEPT ![i] = Tail(queue[i])]
  BY DEF Su!RunCommand, Su!PresenceInv
<1>2. w \notin overlapped /\ Su!Tracked(w)
  BY <1>1 DEF Su!PresenceInv
<1>3. queue[i] \in Seq(Su!Commands) /\ queue'[i] = Tail(queue[i]) /\ \A j \in Instances : j # i => queue'[j] = queue[j]
  BY <1>1 DEF Su!TypeOK
<1>4. PICK N \in Nat : N = Len(queue[i])
  BY <1>3, QueueFacts
<1>5. /\ N > 0 /\ DOMAIN queue[i] = 1..N /\ Head(queue[i]) = queue[i][1] /\ DOMAIN queue'[i] = 1..(N - 1)
      /\ \A n \in 1..(N - 1) : queue'[i][n] = queue[i][n + 1]
      /\ queue[i][1] \in Su!Commands
  <2> DEFINE q == queue[i]
  <2>1. q \in Seq(Su!Commands) /\ q # <<>>
    BY <1>1, <1>3
  <2> HIDE DEF q
  <2>2. /\ DOMAIN q = 1..Len(q) /\ Len(q) > 0 /\ Head(q) = q[1] /\ q[1] \in Su!Commands
        /\ DOMAIN Tail(q) = 1..(Len(q) - 1) /\ \A n \in 1..(Len(q) - 1) : Tail(q)[n] = q[n + 1]
    BY <2>1, QueueFacts
  <2> QED
    BY <1>3, <1>4, <2>2 DEF q
<1>6. PICK v \in Workers, put \in Su!Sets : queue[i][1].worker = v /\ queue[i][1].put = put
  BY <1>5 DEF Su!Commands
<1>7. presence' = [presence EXCEPT ![v] = put] /\ presence \in [Workers -> Su!Sets]
  BY <1>1, <1>5, <1>6 DEF Su!TypeOK
<1>8. /\ Su!OpenOf(w)' = Su!OpenOf(w) /\ \A j \in Instances : w \in Su!Online(j)' <=> w \in Su!Online(j)
      /\ Su!Connected(w)' <=> Su!Connected(w)
  BY <1>1 DEF Su!OpenOf, Su!Online, Su!Connected, Su!Conns
<1>9. Su!Pending(w)' \subseteq Su!Pending(w) /\ \A j \in Su!Pending(w) : j # i => j \in Su!Pending(w)'
  <2>1. ASSUME NEW j \in Instances, j \in Su!Pending(w)' PROVE j \in Su!Pending(w)
    <3>1. PICK n \in DOMAIN queue'[j] : queue'[j][n].worker = w
      BY <2>1 DEF Su!Pending
    <3>2. CASE j = i
      <4>1. n + 1 \in DOMAIN queue[i] /\ queue[i][n + 1].worker = w
        BY <1>5, <3>1, <3>2
      <4> QED
        BY <3>2, <4>1 DEF Su!Pending
    <3> QED
      BY <1>3, <3>1, <3>2 DEF Su!Pending
  <2>2. ASSUME NEW j \in Instances, j \in Su!Pending(w), j # i PROVE j \in Su!Pending(w)'
    BY <1>3, <2>2 DEF Su!Pending
  <2> QED
    BY <2>1, <2>2 DEF Su!Pending
<1>10. ASSUME NEW j \in Instances, NEW n \in DOMAIN queue'[j], Su!LastOf(w, j, n)' PROVE queue'[j][n].put = workers'[j][w]
  <2>1. CASE j # i
    BY <1>1, <1>2, <1>3, <1>10, <2>1 DEF Su!Tracked, Su!LastOf
  <2>2. CASE j = i
    <3>1. n \in Nat /\ n + 1 \in DOMAIN queue[i] /\ queue'[i][n] = queue[i][n + 1] /\ queue[i][n + 1].worker = w
      BY <1>5, <1>10, <2>2 DEF Su!LastOf
    <3>2. ASSUME NEW m \in DOMAIN queue[i], m > n + 1 PROVE queue[i][m].worker # w
      <4>1. m - 1 \in DOMAIN queue'[i] /\ m - 1 > n /\ queue'[i][m - 1] = queue[i][m]
        BY <1>5, <3>1, <3>2
      <4> QED
        BY <1>10, <2>2, <4>1 DEF Su!LastOf
    <3>3. Su!LastOf(w, i, n + 1)
      BY <3>1, <3>2 DEF Su!LastOf
    <3> QED
      BY <1>1, <1>2, <2>2, <3>1, <3>3 DEF Su!Tracked
  <2> QED
    BY <2>1, <2>2
<1>11. ASSUME Su!Pending(w)' = {}
       PROVE  /\ Su!Connected(w) => presence'[w] # None
              /\ presence'[w] # None /\ w \notin orphaned => Su!Connected(w)
  <2>1. CASE v = w
    <3>1. i \in Su!Pending(w) /\ \A j \in Instances : w \in Su!Online(j) => j = i
      <4>1. i \in Su!Pending(w)
        BY <1>5, <1>6, <2>1 DEF Su!Pending
      <4> QED
        BY <1>2, <4>1 DEF Su!Tracked
    <3>2. \A m \in DOMAIN queue[i] : m > 1 => queue[i][m].worker # w
      <4>1. ASSUME NEW m \in DOMAIN queue[i], m > 1, queue[i][m].worker = w PROVE FALSE
        <5>1. m - 1 \in DOMAIN queue'[i] /\ queue'[i][m - 1] = queue[i][m]
          BY <1>5, <4>1
        <5> QED
          BY <1>11, <4>1, <5>1 DEF Su!Pending
      <4> QED
        BY <4>1
    <3>3. 1 \in DOMAIN queue[i] /\ Su!LastOf(w, i, 1)
      BY <1>5, <1>6, <2>1, <3>2 DEF Su!LastOf
    <3>4. put = workers[i][w]
      BY <1>2, <1>6, <3>3 DEF Su!Tracked
    <3>5. presence'[w] = workers[i][w]
      BY <1>7, <2>1, <3>4
    <3>6. w \in Su!Online(i) <=> workers[i][w] # None
      BY DEF Su!Online
    <3> QED
      BY <3>1, <3>5, <3>6 DEF Su!Connected
  <2>2. CASE v # w
    <3>1. i \notin Su!Pending(w)
      <4>1. ASSUME NEW m \in DOMAIN queue[i], queue[i][m].worker = w PROVE FALSE
        <5>1. m # 1
          BY <1>6, <2>2, <4>1
        <5>2. m - 1 \in DOMAIN queue'[i] /\ queue'[i][m - 1] = queue[i][m]
          BY <1>5, <4>1, <5>1
        <5> QED
          BY <1>11, <4>1, <5>2 DEF Su!Pending
      <4> QED
        BY <4>1 DEF Su!Pending
    <3>2. Su!Pending(w) = {}
      BY <1>9, <1>11, <3>1
    <3> QED
      BY <1>2, <1>7, <2>2, <3>2 DEF Su!Tracked
  <2> QED
    BY <2>1, <2>2
<1>12. \A c \in Su!OpenOf(w) : conn'[c] = conn[c]
  BY <1>1
<1> QED
  BY <1>1, <1>2, <1>8, <1>9, <1>10, <1>11, <1>12 DEF Su!Tracked

LEMMA CrashingTracks ==
  ASSUME Su!SupplyAssumption, Su!PresenceInv, topic = "presence", NEW i \in Instances, Su!Crash(i),
         NEW w \in Workers \ overlapped'
  PROVE  Su!Tracked(w)'
<1>1. /\ Su!TypeOK /\ topic' = topic /\ overlapped' = overlapped /\ presence' = presence
      /\ conn' = [c \in Su!Conns |-> IF conn[c] # None /\ conn[c].at = i THEN [conn[c] EXCEPT !.open = FALSE] ELSE conn[c]]
      /\ workers' = [workers EXCEPT ![i] = [u \in Workers |-> None]] /\ queue' = [queue EXCEPT ![i] = <<>>]
      /\ orphaned' = orphaned \cup Su!Online(i) \cup {u \in Workers : i \in Su!Pending(u)}
  BY DEF Su!Crash, Su!PresenceInv
<1>2. w \notin overlapped /\ Su!Tracked(w)
  BY <1>1 DEF Su!PresenceInv
<1>3. /\ DOMAIN queue'[i] = {} /\ \A j \in Instances : j # i => queue'[j] = queue[j]
      /\ \A j \in Instances : workers'[j][w] = IF j = i THEN None ELSE workers[j][w]
  BY <1>1 DEF Su!TypeOK
<1>4. ASSUME NEW c \in Su!OpenOf(w)' PROVE c \in Su!OpenOf(w) /\ conn'[c] = conn[c] /\ conn[c].at # i
  <2>1. c \in Su!Conns /\ conn'[c] # None /\ conn'[c].open /\ conn'[c].worker = w
    BY <1>1, <1>4 DEF Su!OpenOf, Su!Conns
  <2>2. conn[c] # None /\ conn[c].at = i => ~conn'[c].open
    <3>1. conn[c] # None => conn[c] \in Su!Connections
      BY <1>1, <2>1 DEF Su!TypeOK
    <3> QED
      BY <1>1, <2>1, <3>1 DEF Su!Connections
  <2> QED
    BY <1>1, <2>1, <2>2 DEF Su!OpenOf
<1>5. ASSUME NEW c \in Su!OpenOf(w), conn[c].at # i PROVE c \in Su!OpenOf(w)' /\ conn'[c] = conn[c]
  BY <1>1, <1>5 DEF Su!OpenOf, Su!Conns
<1>6. \A j \in Instances : w \in Su!Online(j)' <=> w \in Su!Online(j) /\ j # i
  BY <1>3 DEF Su!Online
<1>7. Su!Pending(w)' = Su!Pending(w) \ {i}
  BY <1>3 DEF Su!Pending
<1>8. \A j \in Instances : w \in Su!Online(j)' <=> \E c \in Su!OpenOf(w)' : conn'[c].at = j
  BY <1>2, <1>4, <1>5, <1>6 DEF Su!Tracked
<1>9. \A j \in Instances : \A n \in DOMAIN queue'[j] : Su!LastOf(w, j, n)' => queue'[j][n].put = workers'[j][w]
  BY <1>2, <1>3 DEF Su!Tracked, Su!LastOf
<1>10. ASSUME Su!Pending(w)' = {}, Su!Connected(w)' PROVE presence'[w] # None
  <2>1. PICK j \in Instances : w \in Su!Online(j) /\ j # i
    BY <1>6, <1>10 DEF Su!Connected
  <2>2. Su!Pending(w) = {}
    BY <1>2, <1>7, <1>10, <2>1 DEF Su!Tracked
  <2> QED
    BY <1>1, <1>2, <2>1, <2>2 DEF Su!Tracked, Su!Connected
<1>11. ASSUME Su!Pending(w)' = {}, presence'[w] # None, w \notin orphaned' PROVE Su!Connected(w)'
  <2>1. w \notin Su!Online(i) /\ i \notin Su!Pending(w) /\ w \notin orphaned
    BY <1>1, <1>11
  <2>2. Su!Connected(w)
    BY <1>1, <1>2, <1>7, <1>11, <2>1 DEF Su!Tracked
  <2> QED
    BY <1>6, <2>1, <2>2 DEF Su!Connected
<1>12. /\ \A c, d \in Su!OpenOf(w)' : c = d
       /\ \A k \in Su!Pending(w)', j \in Instances : j \in Su!Pending(w)' \/ w \in Su!Online(j)' => k = j
  BY <1>2, <1>4, <1>6, <1>7 DEF Su!Tracked
<1> QED
  BY <1>8, <1>9, <1>10, <1>11, <1>12 DEF Su!Tracked

LEMMA PresenceStep ==
  ASSUME Su!SupplyAssumption, Su!PresenceInv, [Su!Next]_(Su!vars)
  PROVE  Su!PresenceInv'
<1>1. Su!TypeOK' /\ topic' = topic
  BY SupplyTypes DEF Su!PresenceInv
<1>2. ASSUME UNCHANGED <<topic, conn, workers, queue, presence, overlapped, orphaned>> PROVE Su!PresenceInv'
  BY <1>1, <1>2 DEF Su!PresenceInv, Su!Tracked, Su!OpenOf, Su!Online, Su!Pending, Su!LastOf, Su!Connected, Su!Conns
<1>3. CASE \E i \in Instances : \/ \E w \in Workers, c \in Su!Conns, categories \in SUBSET Categories : Su!RegisterWorker(i, w, c, categories)
                                \/ Su!RunCommand(i) \/ Su!Crash(i)
  BY <1>1, <1>3, RegisteringTracks, RunningTracks, CrashingTracks DEF Su!PresenceInv
<1>4. CASE \E c \in Su!Conns : Su!UnregisterWorker(c)
  BY <1>1, <1>4, UnregisteringTracks DEF Su!PresenceInv
<1>5. ASSUME NEW i \in Instances, \/ Su!SampleSupply(i)
                                  \/ \E category \in Categories \cup {None}, whitelist \in SUBSET Workers, prefer \in BOOLEAN :
                                       Su!SelectTargets(i, category, whitelist, prefer)
      PROVE  UNCHANGED <<topic, conn, workers, queue, presence, overlapped, orphaned>>
  BY <1>5 DEF Su!SampleSupply, Su!SelectTargets, Su!presenceVars, Su!routingVars
<1>6. ASSUME \/ \E w \in Workers : \/ Su!AskSuspended(w) \/ Su!AskEstablished(w)
                                   \/ \E rep \in {"new", "trusted", "poor"}, b \in BOOLEAN : Su!ChangeStanding(w, rep, b)
             \/ Su!AskReputation \/ Su!Narrow \/ Su!Prefer \/ UNCHANGED Su!vars
      PROVE  UNCHANGED <<topic, conn, workers, queue, presence, overlapped, orphaned>>
  BY <1>6 DEF Su!AskSuspended, Su!AskEstablished, Su!AskReputation, Su!Narrow, Su!Prefer, Su!Asks, Su!ChangeStanding,
    Su!presenceVars, Su!routingVars, Su!vars
<1> QED
  BY <1>2, <1>3, <1>4, <1>5, <1>6 DEF Su!Next

LEMMA PresenceAgreeing ==
  ASSUME Su!PresenceInv
  PROVE  Su!PresenceAgrees
BY DEF Su!PresenceInv, Su!PresenceAgrees, Su!ReadPresence, Su!Tracked, Su!Connected

-----------------------------------------------------------------------------
(* Who of them is asked *)

LEMMA SupplyCardinality == ASSUME NEW X PROVE Su!Cardinality(X) = Cardinality(X) /\ (Su!IsFiniteSet(X) <=> IsFiniteSet(X))
BY DEF Su!Cardinality, Cardinality, Su!IsFiniteSet, IsFiniteSet

LEMMA FewerWorkers ==
  ASSUME Su!SupplyAssumption, NEW X, NEW Y, X \subseteq Y, Y \subseteq Workers
  PROVE  Su!Cardinality(X) \in Nat /\ Su!Cardinality(Y) \in Nat /\ Su!Cardinality(X) <= Su!Cardinality(Y)
<1>1. IsFiniteSet(Workers) /\ X \subseteq Workers
  BY SupplyCardinality DEF Su!SupplyAssumption
<1>2. IsFiniteSet(X) /\ IsFiniteSet(Y)
  BY <1>1, FS_Subset
<1> QED
  BY <1>2, SupplyCardinality, FS_Subset, FS_CardinalityType

\* A change of standing corrects what is remembered of it.
LEMMA StandingKeeps ==
  ASSUME Su!SupplyAssumption, Su!RoutingInv, NEW v \in Workers, NEW rep \in {"new", "trusted", "poor"}, NEW b \in BOOLEAN,
         Su!ChangeStanding(v, rep, b)
  PROVE  Su!RoutingInv'
<1> DEFINE t == selection
<1>1. /\ topic' = topic /\ Su!TypeOK' /\ DOMAIN t = DOMAIN Su!NoTask /\ Su!Remembered
      /\ standing \in [Workers -> [rep : {"new", "trusted", "poor"}, suspended : BOOLEAN]]
  <2>1. [Su!Next]_(Su!vars)
    BY DEF Su!Next
  <2> QED
    BY <2>1, SupplyTypes DEF Su!RoutingInv, Su!TypeOK
<1>2. /\ standing' = [standing EXCEPT ![v] = [rep |-> rep, suspended |-> b]] /\ (rep = "new" => standing[v].rep = "new")
      /\ selection' = [t EXCEPT !.fine = IF b \/ rep = "poor" THEN t.fine \ {v} ELSE t.fine,
                                !.barred = IF b THEN t.barred ELSE t.barred \ {v},
                                !.poor = IF rep = "poor" THEN t.poor ELSE t.poor \ {v}]
  BY DEF Su!ChangeStanding
<1>3. \A w \in Workers : /\ w # v => standing'[w] = standing[w]
                         /\ w = v => standing'[w].rep = rep /\ standing'[w].suspended = b
  BY <1>1, <1>2
<1>4. /\ DOMAIN selection' = DOMAIN t /\ t.fine \cup t.barred \cup t.poor \subseteq Workers
      /\ \A f \in DOMAIN Su!NoTask : f \notin {"fine", "barred", "poor"} => selection'[f] = t[f]
      /\ selection'.fine = IF b \/ rep = "poor" THEN t.fine \ {v} ELSE t.fine
      /\ selection'.barred = IF b THEN t.barred ELSE t.barred \ {v}
      /\ selection'.poor = IF rep = "poor" THEN t.poor ELSE t.poor \ {v}
  BY <1>1, <1>2 DEF Su!NoTask, Su!Remembered
<1>5. /\ selection'.at = t.at /\ selection'.todo = t.todo /\ selection'.whitelist = t.whitelist /\ selection'.prefer = t.prefer
      /\ selection'.candidates = t.candidates /\ selection'.asked = t.asked /\ selection'.kept = t.kept
      /\ selection'.pool = t.pool /\ selection'.targets = t.targets /\ selection'.known = t.known
  BY <1>4 DEF Su!NoTask
<1>6. selection'.fine \subseteq t.fine /\ selection'.barred \subseteq t.barred /\ selection'.poor \subseteq t.poor
  BY <1>4
<1>7. \A w \in Workers : Su!IsEstablished(w) => Su!IsEstablished(w)'
  BY <1>2, <1>3 DEF Su!IsEstablished
<1>8. Su!Remembered'
  <2>1. \A w \in selection'.fine : ~standing'[w].suspended /\ ~Su!Poor(w)'
    BY <1>1, <1>3, <1>4 DEF Su!Remembered, Su!Poor
  <2>2. \A w \in selection'.barred : standing'[w].suspended
    BY <1>1, <1>3, <1>4 DEF Su!Remembered
  <2>3. \A w \in selection'.poor : Su!Poor(w)'
    BY <1>1, <1>3, <1>4 DEF Su!Remembered, Su!Poor
  <2>4. \A w \in selection'.known : Su!IsEstablished(w)'
    BY <1>1, <1>5, <1>7 DEF Su!Remembered
  <2>5. UNION {selection'.todo, selection'.candidates, selection'.kept, selection'.pool, selection'.targets, selection'.fine,
               selection'.barred, selection'.poor, selection'.known} \subseteq Workers
    BY <1>1, <1>5, <1>6 DEF Su!Remembered
  <2> QED
    BY <2>1, <2>2, <2>3, <2>4, <2>5 DEF Su!Remembered
<1>9. Su!RoutingHolds'
  <2>1. ASSUME t.at = "done"
        PROVE  /\ t.targets \subseteq t.whitelist /\ (t.targets = {} <=> t.candidates = {})
               /\ t.candidates \cap t.fine # {} => t.targets \cap (t.barred \cup t.poor) = {}
               /\ t.prefer /\ Su!Cardinality(t.candidates \cap t.fine \cap t.known) >= Quorum
                    => \A w \in t.targets : Su!IsEstablished(w)
    BY <2>1 DEF Su!RoutingInv, Su!RoutingHolds
  <2>2. Su!Cardinality(t.candidates \cap selection'.fine \cap t.known) <= Su!Cardinality(t.candidates \cap t.fine \cap t.known)
        /\ Su!Cardinality(t.candidates \cap selection'.fine \cap t.known) \in Nat
        /\ Su!Cardinality(t.candidates \cap t.fine \cap t.known) \in Nat
    <3>1. t.candidates \cap selection'.fine \cap t.known \subseteq t.candidates \cap t.fine \cap t.known
      BY <1>6
    <3>2. t.candidates \cap t.fine \cap t.known \subseteq Workers
      BY <1>4
    <3> QED
      BY <3>1, <3>2, FewerWorkers
  <2>3. t.targets \subseteq Workers /\ Quorum \in Nat
    BY <1>1 DEF Su!Remembered, Su!SupplyAssumption
  <2>4. ASSUME t.at = "done", t.prefer, Su!Cardinality(t.candidates \cap selection'.fine \cap t.known) >= Quorum
        PROVE  \A w \in t.targets : Su!IsEstablished(w)'
    <3>1. Su!Cardinality(t.candidates \cap t.fine \cap t.known) >= Quorum
      BY <2>2, <2>3, <2>4
    <3> QED
      BY <1>7, <2>1, <2>3, <2>4, <3>1
  <2> QED
    BY <1>5, <1>6, <2>1, <2>4 DEF Su!RoutingHolds
<1>10. t.kept \subseteq Workers
  BY <1>1 DEF Su!Remembered
<1> HIDE DEF t
<1>11. t = selection
  BY DEF t
<1> QED
  BY <1>1, <1>4, <1>5, <1>6, <1>7, <1>8, <1>9, <1>10, <1>11 DEF Su!RoutingInv

LEMMA SelectingKeeps ==
  ASSUME Su!SupplyAssumption, Su!RoutingInv, NEW i \in Instances, NEW category, NEW whitelist \in SUBSET Workers,
         NEW prefer \in BOOLEAN, Su!SelectTargets(i, category, whitelist, prefer), Su!TypeOK'
  PROVE  Su!RoutingInv'
<1> DEFINE C == Su!Candidates(i, category, whitelist)
           fine == {w \in Workers : ~standing[w].suspended /\ ~Su!Poor(w)}
           barred == {w \in Workers : standing[w].suspended}
           poor == {w \in Workers : Su!Poor(w)}
           known == {w \in Workers : Su!IsEstablished(w)}
           s == [Su!NoTask EXCEPT !.at = IF C = {} THEN "done" ELSE "eligible", !.prefer = prefer,
                   !.whitelist = whitelist, !.todo = C, !.candidates = C, !.fine = fine, !.barred = barred,
                   !.poor = poor, !.known = known]
<1>1. C \subseteq Workers /\ C \subseteq whitelist
  BY DEF Su!Candidates, Su!Online
<1>2. selection' = s /\ standing' = standing
  BY DEF Su!SelectTargets
<1>3. \A w \in Workers : (Su!Poor(w)' <=> Su!Poor(w)) /\ (Su!IsEstablished(w)' <=> Su!IsEstablished(w))
  BY <1>2 DEF Su!Poor, Su!IsEstablished
<1> HIDE DEF C
<1>4. /\ \A w \in fine : w \in Workers /\ ~standing[w].suspended /\ ~Su!Poor(w)
      /\ \A w \in barred : w \in Workers /\ standing[w].suspended
      /\ \A w \in poor : w \in Workers /\ Su!Poor(w)
      /\ \A w \in known : w \in Workers /\ Su!IsEstablished(w)
  OBVIOUS
<1> HIDE DEF fine, barred, poor, known
<1>5. /\ DOMAIN s = DOMAIN Su!NoTask /\ s.at = (IF C = {} THEN "done" ELSE "eligible")
      /\ s.todo = C /\ s.candidates = C /\ s.whitelist = whitelist /\ s.prefer = prefer /\ s.fine = fine
      /\ s.barred = barred /\ s.poor = poor /\ s.known = known /\ s.asked = None /\ s.kept = {} /\ s.pool = {} /\ s.targets = {}
  BY DEF Su!NoTask
<1> HIDE DEF s
<1>6. Su!Remembered'
  BY <1>1, <1>2, <1>3, <1>4, <1>5 DEF Su!Remembered
<1>7. Su!RoutingHolds'
  BY <1>2, <1>5 DEF Su!RoutingHolds
<1>8. DOMAIN Su!NoTask' = DOMAIN Su!NoTask
  BY DEF Su!NoTask
<1> QED
  BY <1>1, <1>2, <1>5, <1>6, <1>7, <1>8 DEF Su!RoutingInv

\* What asking about a worker leaves alone.
LEMMA AskingLeaves ==
  ASSUME Su!RoutingInv, UNCHANGED standing, DOMAIN selection' = DOMAIN selection,
         UNCHANGED <<selection.candidates, selection.fine, selection.barred, selection.poor, selection.known>>,
         selection'.todo \cup selection'.kept \cup selection'.pool \cup selection'.targets \subseteq Workers
  PROVE  Su!Remembered' /\ \A w \in Workers : Su!Poor(w)' = Su!Poor(w) /\ Su!IsEstablished(w)' = Su!IsEstablished(w)
BY DEF Su!RoutingInv, Su!Remembered, Su!Poor, Su!IsEstablished

LEMMA AskingKeeps ==
  ASSUME Su!SupplyAssumption, Su!RoutingInv, Su!TypeOK',
         \/ \E w \in Workers : Su!AskSuspended(w) \/ Su!AskEstablished(w)
         \/ Su!AskReputation
  PROVE  Su!RoutingInv'
<1> DEFINE t == selection
<1>1. /\ standing' = standing /\ DOMAIN t = DOMAIN Su!NoTask /\ Su!Remembered /\ t.candidates \subseteq t.whitelist
      /\ t.todo \cup t.candidates \cup t.kept \cup t.pool \cup t.targets \subseteq Workers
  BY DEF Su!RoutingInv, Su!Remembered, Su!AskSuspended, Su!AskEstablished, Su!AskReputation, Su!Asks
<1>2. ASSUME NEW w \in Workers, Su!AskSuspended(w) PROVE Su!RoutingInv'
  <2>1. /\ t.at = "eligible" /\ t.asked = None /\ w \in t.todo
        /\ selection' = IF standing[w].suspended THEN [t EXCEPT !.todo = t.todo \ {w}] ELSE [t EXCEPT !.asked = w]
    BY <1>2 DEF Su!AskSuspended
  <2>2. /\ DOMAIN selection' = DOMAIN t /\ selection'.at = "eligible" /\ selection'.whitelist = t.whitelist
        /\ selection'.candidates = t.candidates /\ selection'.kept = t.kept /\ selection'.pool = t.pool
        /\ selection'.targets = t.targets /\ selection'.fine = t.fine /\ selection'.barred = t.barred
        /\ selection'.poor = t.poor /\ selection'.known = t.known
        /\ \/ standing[w].suspended /\ selection'.todo = t.todo \ {w} /\ selection'.asked = None
           \/ ~standing[w].suspended /\ selection'.todo = t.todo /\ selection'.asked = w
    BY <1>1, <2>1 DEF Su!NoTask
  <2>3. Su!Remembered'
    BY <1>1, <2>2, AskingLeaves
  <2>4. /\ standing[w].suspended => w \notin t.fine
        /\ ~standing[w].suspended => w \notin t.barred
    BY <1>1 DEF Su!Remembered
  <2>5. /\ t.candidates # {} /\ t.todo \cup t.kept \subseteq t.candidates
        /\ t.candidates \cap t.fine \subseteq t.todo \cup t.kept
        /\ t.kept \cap (t.barred \cup t.poor) = {}
    BY <2>1 DEF Su!RoutingInv
  <2> HIDE DEF t
  <2> QED
    BY <1>1, <2>1, <2>2, <2>3, <2>4, <2>5 DEF Su!RoutingInv, Su!RoutingHolds
<1>3. ASSUME Su!AskReputation PROVE Su!RoutingInv'
  <2>1. PICK w : w = t.asked
    OBVIOUS
  <2>2. /\ t.at = "eligible" /\ w # None
        /\ selection' = [t EXCEPT !.asked = None, !.todo = t.todo \ {w}, !.kept = IF Su!Poor(w) THEN t.kept ELSE t.kept \cup {w}]
    BY <1>3, <2>1 DEF Su!AskReputation
  <2>3. /\ DOMAIN selection' = DOMAIN t /\ selection'.at = "eligible" /\ selection'.whitelist = t.whitelist
        /\ selection'.candidates = t.candidates /\ selection'.pool = t.pool
        /\ selection'.targets = t.targets /\ selection'.fine = t.fine /\ selection'.barred = t.barred
        /\ selection'.poor = t.poor /\ selection'.known = t.known /\ selection'.asked = None
        /\ selection'.todo = t.todo \ {w} /\ selection'.kept = IF Su!Poor(w) THEN t.kept ELSE t.kept \cup {w}
    BY <1>1, <2>2 DEF Su!NoTask
  <2>4. /\ t.candidates # {} /\ t.todo \cup t.kept \subseteq t.candidates
        /\ w \in t.candidates \ t.barred
        /\ t.candidates \cap t.fine \subseteq t.todo \cup t.kept
        /\ t.kept \cap (t.barred \cup t.poor) = {}
    BY <2>1, <2>2 DEF Su!RoutingInv
  <2>5. Su!Remembered'
    BY <1>1, <2>3, <2>4, AskingLeaves
  <2>6. /\ Su!Poor(w) => w \notin t.fine
        /\ ~Su!Poor(w) => w \notin t.poor
    BY <1>1 DEF Su!Remembered
  <2> HIDE DEF t
  <2> QED
    BY <1>1, <2>1, <2>3, <2>4, <2>5, <2>6 DEF Su!RoutingInv, Su!RoutingHolds
<1>4. ASSUME NEW w \in Workers, Su!AskEstablished(w) PROVE Su!RoutingInv'
  <2>1. /\ t.at = "established" /\ w \in t.todo
        /\ selection' = [t EXCEPT !.todo = t.todo \ {w}, !.kept = IF Su!IsEstablished(w) THEN t.kept \cup {w} ELSE t.kept]
    BY <1>4 DEF Su!AskEstablished
  <2>2. /\ DOMAIN selection' = DOMAIN t /\ selection'.at = "established" /\ selection'.whitelist = t.whitelist
        /\ selection'.candidates = t.candidates /\ selection'.pool = t.pool /\ selection'.prefer = t.prefer
        /\ selection'.targets = t.targets /\ selection'.fine = t.fine /\ selection'.barred = t.barred
        /\ selection'.poor = t.poor /\ selection'.known = t.known /\ selection'.asked = t.asked
        /\ selection'.todo = t.todo \ {w} /\ selection'.kept = IF Su!IsEstablished(w) THEN t.kept \cup {w} ELSE t.kept
    BY <1>1, <2>1 DEF Su!NoTask
  <2>3. /\ t.prefer /\ t.pool # {} /\ t.pool \subseteq t.candidates
        /\ t.kept \cup t.todo \subseteq t.pool /\ \A v \in t.kept : Su!IsEstablished(v)
        /\ t.candidates \cap t.fine # {} => t.pool \cap (t.barred \cup t.poor) = {}
        /\ t.candidates \cap t.fine \subseteq t.pool
        /\ t.candidates \cap t.fine \cap t.known \subseteq t.todo \cup t.kept
    BY <2>1 DEF Su!RoutingInv
  <2>4. Su!Remembered' /\ \A v \in Workers : Su!IsEstablished(v)' = Su!IsEstablished(v)
    BY <1>1, <2>2, AskingLeaves
  <2>5. w \in t.known => Su!IsEstablished(w)
    BY <1>1 DEF Su!Remembered
  <2>6. \A v \in selection'.kept : Su!IsEstablished(v)'
    BY <1>1, <2>2, <2>3, <2>4
  <2> HIDE DEF t
  <2> QED
    BY <1>1, <2>1, <2>2, <2>3, <2>4, <2>5, <2>6 DEF Su!RoutingInv, Su!RoutingHolds
<1> QED
  BY <1>2, <1>3, <1>4

\* Nobody eligible: everyone is asked.
LEMMA NarrowingKeeps ==
  ASSUME Su!SupplyAssumption, Su!RoutingInv, Su!TypeOK', Su!Narrow
  PROVE  Su!RoutingInv'
<1> DEFINE t == selection
           P == Su!PoolOf(t.kept, t.candidates)
<1>1. /\ standing' = standing /\ DOMAIN t = DOMAIN Su!NoTask /\ Su!Remembered /\ t.candidates \subseteq t.whitelist
      /\ t.todo \cup t.candidates \cup t.kept \cup t.pool \cup t.targets \cup t.fine \subseteq Workers
      /\ t.at = "eligible" /\ t.todo = {} /\ t.asked = None
  BY DEF Su!RoutingInv, Su!Remembered, Su!Narrow, Su!Asks
<1>2. /\ t.candidates # {} /\ t.kept \subseteq t.candidates
      /\ t.candidates \cap t.fine \subseteq t.kept
      /\ t.kept \cap (t.barred \cup t.poor) = {}
  BY <1>1 DEF Su!RoutingInv
<1>3. /\ P # {} /\ P \subseteq t.candidates /\ t.candidates \cap t.fine \subseteq P
      /\ t.candidates \cap t.fine # {} => P \cap (t.barred \cup t.poor) = {}
  BY <1>2 DEF Su!PoolOf
<1>4. /\ t.prefer => selection' = [t EXCEPT !.at = "established", !.pool = P, !.todo = P, !.kept = {}]
      /\ ~t.prefer => selection' = [t EXCEPT !.at = "done", !.targets = P]
  BY DEF Su!Narrow
<1> HIDE DEF P
<1>5. /\ DOMAIN selection' = DOMAIN t /\ selection'.whitelist = t.whitelist /\ selection'.prefer = t.prefer
      /\ selection'.candidates = t.candidates /\ selection'.fine = t.fine /\ selection'.barred = t.barred
      /\ selection'.poor = t.poor /\ selection'.known = t.known
      /\ \/ /\ t.prefer /\ selection'.at = "established" /\ selection'.pool = P /\ selection'.todo = P
            /\ selection'.kept = {} /\ selection'.targets = t.targets
         \/ /\ ~t.prefer /\ selection'.at = "done" /\ selection'.targets = P /\ selection'.todo = {}
            /\ selection'.kept = t.kept /\ selection'.pool = t.pool
  BY <1>1, <1>4 DEF Su!NoTask
<1>6. Su!Remembered'
  BY <1>1, <1>3, <1>5, AskingLeaves
<1> HIDE DEF t
<1>7. t = selection
  BY DEF t
<1> QED
  BY <1>1, <1>2, <1>3, <1>5, <1>6, <1>7 DEF Su!RoutingInv, Su!RoutingHolds

\* Those who are known are asked alone if they are enough.
LEMMA PreferringKeeps ==
  ASSUME Su!SupplyAssumption, Su!RoutingInv, Su!TypeOK', Su!Prefer
  PROVE  Su!RoutingInv'
<1> DEFINE t == selection
           Enough == Su!Cardinality(t.kept) >= Quorum
           Known == t.candidates \cap t.fine \cap t.known
<1>1. /\ standing' = standing /\ DOMAIN t = DOMAIN Su!NoTask /\ Su!Remembered /\ t.candidates \subseteq t.whitelist
      /\ t.todo \cup t.candidates \cup t.kept \cup t.pool \cup t.targets \subseteq Workers
      /\ t.at = "established" /\ t.todo = {}
  BY DEF Su!RoutingInv, Su!Remembered, Su!Prefer, Su!Asks
<1>2. /\ t.prefer /\ t.pool # {} /\ t.pool \subseteq t.candidates
      /\ t.kept \subseteq t.pool /\ \A v \in t.kept : Su!IsEstablished(v)
      /\ t.candidates \cap t.fine # {} => t.pool \cap (t.barred \cup t.poor) = {}
      /\ Known \subseteq t.kept
  BY <1>1 DEF Su!RoutingInv
<1>3. selection' = [t EXCEPT !.at = "done", !.targets = IF Enough THEN t.kept ELSE t.pool]
  BY DEF Su!Prefer
<1>4. /\ Enough => t.kept # {}
      /\ Su!Cardinality(Known) >= Quorum => Enough
  <2>1. /\ Su!Cardinality(Known) \in Nat /\ Su!Cardinality(t.kept) \in Nat /\ Quorum \in Nat \ {0}
        /\ Su!Cardinality(Known) <= Su!Cardinality(t.kept)
    BY <1>1, <1>2, FewerWorkers DEF Su!SupplyAssumption
  <2>2. Su!Cardinality({}) = 0
    BY SupplyCardinality, FS_EmptySet
  <2> HIDE DEF t, Known
  <2> QED
    BY <2>1, <2>2
<1> HIDE DEF Enough
<1>5. /\ DOMAIN selection' = DOMAIN t /\ selection'.whitelist = t.whitelist /\ selection'.prefer = t.prefer
      /\ selection'.candidates = t.candidates /\ selection'.fine = t.fine /\ selection'.barred = t.barred
      /\ selection'.poor = t.poor /\ selection'.known = t.known /\ selection'.at = "done" /\ selection'.todo = {}
      /\ selection'.kept = t.kept /\ selection'.pool = t.pool
      /\ selection'.targets = IF Enough THEN t.kept ELSE t.pool
  BY <1>1, <1>3 DEF Su!NoTask
<1>6. Su!Remembered' /\ \A v \in Workers : Su!IsEstablished(v)' = Su!IsEstablished(v)
  BY <1>1, <1>5, AskingLeaves
<1>7. Su!RoutingHolds'
  <2>1. selection'.targets \subseteq t.pool /\ (selection'.targets = {} <=> t.candidates = {})
    BY <1>2, <1>4, <1>5
  <2>2. Su!Cardinality(Known) >= Quorum => \A v \in selection'.targets : Su!IsEstablished(v)'
    BY <1>1, <1>2, <1>4, <1>5, <1>6
  <2> QED
    BY <1>1, <1>2, <1>5, <2>1, <2>2 DEF Su!RoutingHolds
<1> HIDE DEF t
<1>8. t = selection
  BY DEF t
<1> QED
  BY <1>1, <1>5, <1>6, <1>7, <1>8 DEF Su!RoutingInv

LEMMA RoutingInit ==
  ASSUME Su!SupplyAssumption, Su!Init
  PROVE  Su!RoutingInv
<1>1. Su!TypeOK
  BY SupplyInit DEF Su!PresenceInv
<1>2. selection = Su!NoTask
  BY DEF Su!Init
<1> QED
  BY <1>1, <1>2 DEF Su!RoutingInv, Su!Remembered, Su!RoutingHolds, Su!NoTask

LEMMA RoutingStep ==
  ASSUME Su!SupplyAssumption, Su!RoutingInv, [Su!Next]_(Su!vars)
  PROVE  Su!RoutingInv'
<1>1. Su!TypeOK'
  BY SupplyTypes DEF Su!RoutingInv
<1>2. ASSUME UNCHANGED <<standing, selection>> PROVE Su!RoutingInv'
  BY <1>1, <1>2 DEF Su!RoutingInv, Su!Remembered, Su!RoutingHolds, Su!NoTask, Su!Poor, Su!IsEstablished
<1>3. ASSUME NEW i \in Instances, \/ \E w \in Workers, c \in Su!Conns, categories \in SUBSET Categories :
                                       Su!RegisterWorker(i, w, c, categories)
                                  \/ Su!RunCommand(i) \/ Su!Crash(i) \/ Su!SampleSupply(i)
      PROVE  UNCHANGED <<standing, selection>>
  BY <1>3 DEF Su!RegisterWorker, Su!RunCommand, Su!Crash, Su!SampleSupply, Su!routingVars
<1>4. ASSUME NEW c \in Su!Conns, Su!UnregisterWorker(c) PROVE UNCHANGED <<standing, selection>>
  BY <1>4 DEF Su!UnregisterWorker, Su!routingVars
<1>5. ASSUME NEW i \in Instances, NEW category \in Categories \cup {None}, NEW whitelist \in SUBSET Workers,
             NEW prefer \in BOOLEAN, Su!SelectTargets(i, category, whitelist, prefer)
      PROVE  Su!RoutingInv'
  BY <1>1, <1>5, SelectingKeeps
<1>6. ASSUME NEW w \in Workers, NEW rep \in {"new", "trusted", "poor"}, NEW b \in BOOLEAN, Su!ChangeStanding(w, rep, b)
      PROVE  Su!RoutingInv'
  BY <1>6, StandingKeeps
<1>7. CASE \/ \E w \in Workers : Su!AskSuspended(w) \/ Su!AskEstablished(w)
           \/ Su!AskReputation
  BY <1>1, <1>7, AskingKeeps
<1>8. CASE Su!Narrow \/ Su!Prefer
  BY <1>1, <1>8, NarrowingKeeps, PreferringKeeps
<1>9. CASE UNCHANGED Su!vars
  BY <1>2, <1>9 DEF Su!vars
<1> QED
  BY <1>2, <1>3, <1>4, <1>5, <1>6, <1>7, <1>8, <1>9 DEF Su!Next

\* Whatever connects, closes and crashes, and in whatever order Redis runs what the
\* instances sent: of a worker of whom nothing is under way, the hash says what is so,
\* unless two of its connections overlapped or its instance died (registerWorker(),
\* unregisterWorker() and writePresence() of dispatch.js).
THEOREM PresenceIsTracked == ASSUME Su!SupplyAssumption PROVE Su!Spec => []Su!PresenceAgrees
<1>1. Su!Init => Su!PresenceInv
  BY SupplyInit
<1>2. Su!PresenceInv /\ [Su!Next]_(Su!vars) => Su!PresenceInv'
  BY PresenceStep
<1>3. Su!PresenceInv => Su!PresenceAgrees
  BY PresenceAgreeing
<1> QED
  BY <1>1, <1>2, <1>3, PTL DEF Su!Spec

\* Whatever changes of the workers' standing while they are asked about: somebody is
\* asked if anybody allowed is online, nobody suspended or poor throughout is if someone
\* was fine throughout, and a question that prefers known workers goes to no new one if
\* enough were known (selectTargets() of dispatch.js).
THEOREM RoutingIsFair == ASSUME Su!SupplyAssumption PROVE Su!Spec => []Su!RoutingHolds
<1>1. Su!Init => Su!RoutingInv
  BY RoutingInit
<1>2. Su!RoutingInv /\ [Su!Next]_(Su!vars) => Su!RoutingInv'
  BY RoutingStep
<1>3. Su!RoutingInv => Su!RoutingHolds
  BY DEF Su!RoutingInv
<1> QED
  BY <1>1, <1>2, <1>3, PTL DEF Su!Spec


-----------------------------------------------------------------------------
(* Workers who answer alike *)

LEMMA CollusionCardinality == \A S : Co!Cardinality(S) = Cardinality(S) /\ (Co!IsFiniteSet(S) <=> IsFiniteSet(S))
BY DEF Co!Cardinality, Cardinality, Co!IsFiniteSet, IsFiniteSet

\* A score is one: each signal takes a share off what is clean.
LEMMA Clamped == ASSUME NEW x \in Int PROVE Co!Clamp(x) \in 0..100
<1> DEFINE least == IF x <= 100 THEN x ELSE 100
           most == IF 0 >= least THEN 0 ELSE least
<1>1. /\ least \in {x, 100} /\ \A y \in {x, 100} : least <= y
      /\ most \in {0, least} /\ \A y \in {0, least} : most >= y
  OBVIOUS
<1>2. \A z \in {x, 100} : (\A y \in {x, 100} : z <= y) => z = least
  OBVIOUS
<1>3. \A z \in {0, least} : (\A y \in {0, least} : z >= y) => z = most
  BY <1>1
<1>4. most \in 0..100
  OBVIOUS
<1> HIDE DEF least, most
<1>5. Co!Min({x, 100}) = least
  BY <1>1, <1>2 DEF Co!Min
<1>6. Co!Max({0, least}) = most
  BY <1>1, <1>3 DEF Co!Max
<1> QED
  BY <1>4, <1>5, <1>6 DEF Co!Clamp

LEMMA Damped == \A clean \in Co!Scores, weight \in 0..100, signal \in 0..100 : Co!Damp(clean, weight, signal) \in Co!Scores
<1> USE DEF Co!Scores
<1> SUFFICES ASSUME NEW clean \in Co!Scores, NEW weight \in 0..100, NEW signal \in 0..100
             PROVE  Co!Damp(clean, weight, signal) \in Co!Scores
  OBVIOUS
<1>1. weight * signal \in Int /\ 0 <= weight * signal /\ weight * signal <= 10000
  <2>1. weight \in Int /\ signal \in Int /\ 0 <= weight /\ weight <= 100 /\ 0 <= signal /\ signal <= 100
    OBVIOUS
  <2>2. weight * signal <= 100 * signal
    BY <2>1
  <2> QED
    BY <2>1, <2>2
<1> DEFINE left == 10000 - weight * signal
           taken == clean * left
<1>2. left \in 0..10000
  BY <1>1
<1> HIDE DEF left
<1>3. taken \in Int /\ 0 <= taken /\ taken <= 10000 * 1000
  <2>1. clean * left <= clean * 10000
    BY <1>2
  <2> QED
    BY <1>2, <2>1
<1>4. Co!Damp(clean, weight, signal) = taken \div 10000
  BY DEF Co!Damp, left
<1> HIDE DEF taken
<1> QED
  BY <1>3, <1>4

LEMMA Scored ==
  ASSUME Co!CollusionAssumption, NEW p \in Pairs, NEW c \in Co!Counts, c.shared > 0
  PROVE  Co!ScorePair(p, c) \in Co!Scores
<1>1. /\ c.shared \in Nat /\ c.sameWrong \in Nat /\ c.sameAnswer \in Nat /\ c.synced \in Nat /\ Expected[p] \in Int
  BY DEF Co!Counts, Co!Counted, Co!CollusionAssumption
<1> DEFINE wrong == IF c.sameWrong >= 2 THEN Co!Clamp((200 * c.sameWrong) \div c.shared + 25) ELSE 0
           lift == IF c.shared >= MinShared /\ Expected[p] < 100
              THEN Co!Clamp((100 * ((100 * c.sameAnswer) \div c.shared - Expected[p])) \div (100 - Expected[p])) ELSE 0
           sync == IF c.shared >= MinShared THEN Co!Clamp((100 * c.synced) \div c.shared) ELSE 0
           referral == IF p \in linked THEN 100 ELSE 0
           ip == IF p \in SharedIp THEN 100 ELSE 0
           rest1 == Co!Damp(1000, 70, wrong)
           rest2 == Co!Damp(rest1, 50, lift)
           rest3 == Co!Damp(rest2, 35, sync)
           rest4 == Co!Damp(rest3, 20, referral)
           rest5 == Co!Damp(rest4, 40, ip)
<1>2. wrong \in 0..100
  <2>1. (200 * c.sameWrong) \div c.shared + 25 \in Int
    BY <1>1
  <2> QED
    BY <2>1, Clamped
<1>3. lift \in 0..100
  <2>1. CASE c.shared >= MinShared /\ Expected[p] < 100
    <3> DEFINE rate == (100 * c.sameAnswer) \div c.shared
               rest == 100 - Expected[p]
    <3>1. rate \in Int /\ rest \in Int /\ rest > 0
      BY <1>1, <2>1
    <3> HIDE DEF rate
    <3>2. 100 * (rate - Expected[p]) \in Int
      BY <1>1, <3>1
    <3>3. (100 * (rate - Expected[p])) \div rest \in Int
      BY <3>1, <3>2
    <3>4. lift = Co!Clamp((100 * (rate - Expected[p])) \div rest)
      BY <2>1 DEF rate
    <3> QED
      BY <3>3, <3>4, Clamped
  <2> QED
    BY <2>1
<1>4. sync \in 0..100
  <2>1. (100 * c.synced) \div c.shared \in Int
    BY <1>1
  <2> QED
    BY <2>1, Clamped
<1>5. referral \in 0..100 /\ ip \in 0..100
  OBVIOUS
<1>6. Co!ScorePair(p, c) = 1000 - rest5
  BY DEF Co!ScorePair
<1> HIDE DEF wrong, lift, sync, referral, ip
<1>7. rest1 \in Co!Scores
  <2>1. PICK clean : clean = 1000
    OBVIOUS
  <2>2. clean \in Co!Scores /\ 70 \in 0..100 /\ wrong \in 0..100
    BY <1>2, <2>1 DEF Co!Scores
  <2>3. Co!Damp(clean, 70, wrong) \in Co!Scores
    BY ONLY <2>2, Damped
  <2> QED
    BY ONLY <2>1, <2>3 DEF rest1
<1> HIDE DEF rest1
<1>8. rest2 \in Co!Scores
  <2>1. rest1 \in Co!Scores /\ 50 \in 0..100 /\ lift \in 0..100
    BY <1>3, <1>7
  <2>2. Co!Damp(rest1, 50, lift) \in Co!Scores
    BY ONLY <2>1, Damped
  <2> QED
    BY <2>2 DEF rest2
<1> HIDE DEF rest2
<1>9. rest3 \in Co!Scores
  <2>1. rest2 \in Co!Scores /\ 35 \in 0..100 /\ sync \in 0..100
    BY <1>4, <1>8
  <2>2. Co!Damp(rest2, 35, sync) \in Co!Scores
    BY ONLY <2>1, Damped
  <2> QED
    BY <2>2 DEF rest3
<1> HIDE DEF rest3
<1>10. rest4 \in Co!Scores
  <2>1. rest3 \in Co!Scores /\ 20 \in 0..100 /\ referral \in 0..100
    BY <1>5, <1>9
  <2>2. Co!Damp(rest3, 20, referral) \in Co!Scores
    BY ONLY <2>1, Damped
  <2> QED
    BY <2>2 DEF rest4
<1> HIDE DEF rest4
<1>11. rest5 \in Co!Scores
  <2>1. rest4 \in Co!Scores /\ 40 \in 0..100 /\ ip \in 0..100
    BY <1>5, <1>10
  <2>2. Co!Damp(rest4, 40, ip) \in Co!Scores
    BY ONLY <2>1, Damped
  <2> QED
    BY <2>2 DEF rest5
<1> HIDE DEF rest5
<1> QED
  BY <1>6, <1>11 DEF Co!Scores

LEMMA PairMembers ==
  ASSUME Co!CollusionAssumption, NEW p \in Pairs
  PROVE  p[1] \in Suspects /\ p[2] \in Suspects /\ p[1] # p[2] /\ \A i \in {1, 2} : p[i] \in Suspects
<1>1. p \in Suspects \X Suspects /\ p[1] # p[2]
  BY DEF Co!CollusionAssumption
<1> QED
  BY <1>1

\* A task goes on: the others stay where they are.
LEMMA TaskGoesOn ==
  ASSUME Co!TasksOK, NEW t \in Co!Tasks, NEW r, Co!Placed(t, r), inspection' = [inspection EXCEPT ![t] = r]
  PROVE  /\ Co!TasksOK' /\ inspection'[t] = r /\ \A u \in Co!Tasks : u # t => inspection'[u] = inspection[u]
         /\ \A p : Co!On(p)' = (Co!On(p) \ {t}) \cup (IF r.pair = p THEN {t} ELSE {})
<1>1. inspection \in [Co!Tasks -> Co!TaskRecords] /\ r \in Co!TaskRecords
  BY DEF Co!TasksOK, Co!Placed
<1>2. /\ inspection' \in [Co!Tasks -> Co!TaskRecords] /\ inspection'[t] = r
      /\ \A u \in Co!Tasks : u # t => inspection'[u] = inspection[u]
  BY <1>1
<1>3. \A u \in Co!Tasks : Co!Placed(u, inspection'[u])
  BY <1>2 DEF Co!TasksOK
<1>4. Co!Tasks' = Co!Tasks /\ Co!TaskRecords' = Co!TaskRecords
  BY DEF Co!Tasks, Co!TaskRecords, Co!Counts, Co!Flags, Co!Marks, Co!NoFlag, Co!Steps, Co!ReviewSteps, Co!Scores, Co!Counted
<1>5. Co!TasksOK'
  BY <1>2, <1>3, <1>4 DEF Co!TasksOK, Co!Placed
<1>6. \A p : Co!On(p)' = (Co!On(p) \ {t}) \cup (IF r.pair = p THEN {t} ELSE {})
  BY <1>2, <1>4 DEF Co!On
<1> QED
  BY <1>2, <1>5, <1>6

\* What the records hold.
LEMMA TaskFields ==
  ASSUME NEW t, NEW r, Co!Placed(t, r)
  PROVE  /\ r.todo \subseteq Pairs /\ r.pair \in Pairs \cup {None} /\ r.counters \in Co!Counts /\ r.flag \in Co!Flags
         /\ r.score \in Co!Scores /\ r.delta \in [Pairs -> [Co!Counted -> 0..1]]
         /\ (r.pair = None <=> r.at \in {"idle", "next", "done"})
         /\ DOMAIN r = {"at", "todo", "pair", "delta", "counters", "flag", "score"}
         /\ (t \in Quorums => r.at \in Co!Steps) /\ (t \in Reviews => r.at \in Co!ReviewSteps /\ r.todo = {})
<1>1. r \in Co!TaskRecords
  BY DEF Co!Placed
<1> QED
  BY <1>1 DEF Co!Placed, Co!TaskRecords

LEMMA CollusionValues ==
  /\ Co!NoCount \in Co!Counts /\ Co!NoFlag \in Co!Flags /\ 0 \in Co!Scores
  /\ \A c \in Co!Counts : c.shared \in Nat
  /\ \A f \in Co!Flags : /\ f.score \in Int /\ f.reviewed \in Int /\ (f # Co!NoFlag <=> f.score >= 0) /\ f.reviewed >= 0 - 1
  /\ \A s \in Co!Scores : s \in Int /\ s >= 0
<1>1. Co!NoCount \in Co!Counts /\ 0 \in Co!Scores
  BY DEF Co!NoCount, Co!Counts, Co!Counted, Co!Scores
<1>2. Co!NoFlag \in Co!Flags
  BY DEF Co!NoFlag, Co!Flags, Co!Marks
<1>3. \A c \in Co!Counts : c.shared \in Nat
  BY DEF Co!Counts, Co!Counted
<1>4. \A s \in Co!Scores : s \in Int /\ s >= 0
  BY DEF Co!Scores
<1>5. \A s \in Co!Marks : s \in Int /\ s >= 0 - 1 /\ (s >= 0 <=> s # 0 - 1)
  BY <1>4 DEF Co!Marks
<1>6. \A f \in Co!Flags : /\ f.score \in Co!Marks /\ f.reviewed \in Co!Marks /\ (f.score = 0 - 1 => f = Co!NoFlag)
  BY DEF Co!Flags
<1>7. Co!NoFlag.score = 0 - 1
  BY DEF Co!NoFlag
<1>8. \A f \in Co!Flags : f # Co!NoFlag <=> f.score >= 0
  BY <1>5, <1>6, <1>7
<1> QED
  BY <1>1, <1>2, <1>3, <1>4, <1>5, <1>6, <1>8

\* Of a pair that is not raced about, the one task at work.
LEMMA Solo ==
  ASSUME NEW p \in Pairs, Co!Alone(p), NEW t \in Co!Tasks, inspection[t].pair = p
  PROVE  /\ Co!On(p) = {t}
         /\ \A i : (Co!Lifting(p, i) <=> Co!LiftsLater(inspection[t].at, i)) /\ (Co!Suspending(p, i) <=> Co!SuspendsLater(inspection[t].at, i))
<1>1. t \in Co!On(p) /\ \A u \in Co!On(p) : u = t
  BY DEF Co!On, Co!Alone
<1> QED
  BY <1>1 DEF Co!Lifting, Co!Suspending

\* What is to be shown of it after a step.
LEMMA SoloAgain ==
  ASSUME NEW p \in Pairs, NEW t \in Co!Tasks, Co!On(p)' \subseteq {t},
         t \in Co!On(p)' =>
           /\ inspection'[t].at \in {"flag", "review"} => inspection'[t].flag = flag'[p]
           /\ inspection'[t].at \in {"first", "second"} => flag'[p].score = inspection'[t].score /\ inspection'[t].score > flag'[p].reviewed
           /\ inspection'[t].at \in {"look1", "lift1", "look2", "lift2"} => flag'[p].reviewed = flag'[p].score /\ flag'[p] # Co!NoFlag,
         \A i \in {1, 2} :
           /\ suspended'[p[i]] # None /\ suspended'[p[i]].pair = p =>
                suspended'[p[i]].score > flag'[p].reviewed \/ (t \in Co!On(p)' /\ Co!LiftsLater(inspection'[t].at, i))
           /\ Co!Suspends(flag'[p].score, flag'[p].reviewed) =>
                suspended'[p[i]] # None \/ Co!Excused(p, p[i])' \/ (t \in Co!On(p)' /\ Co!SuspendsLater(inspection'[t].at, i))
  PROVE  Co!Alone(p)'
<1>1. /\ \A i : (t \in Co!On(p)' /\ Co!LiftsLater(inspection'[t].at, i)) => Co!Lifting(p, i)'
      /\ \A i : (t \in Co!On(p)' /\ Co!SuspendsLater(inspection'[t].at, i)) => Co!Suspending(p, i)'
  BY DEF Co!Lifting, Co!Suspending, Co!LiftsLater, Co!SuspendsLater
<1>2. Co!NoFlag' = Co!NoFlag
  BY DEF Co!NoFlag
<1> QED
  BY <1>1, <1>2 DEF Co!Alone, Co!Suspends

\* An excuse stays one.
LEMMA ExcuseStays ==
  ASSUME raced \subseteq raced', \A q \in Pairs : flag[q].reviewed >= 0 => q \in raced' \/ flag'[q].reviewed >= 0
  PROVE  \A p, w : Co!Excused(p, w) => Co!Excused(p, w)'
BY DEF Co!Excused

\* Nothing changes for a pair, but for what others do to its workers.
LEMMA AloneElsewhere ==
  ASSUME NEW p \in Pairs, Co!Alone(p), flag'[p] = flag[p],
         Co!On(p)' = Co!On(p), \A u \in Co!On(p) : inspection'[u] = inspection[u],
         \A i \in {1, 2} : Co!Excused(p, p[i]) => Co!Excused(p, p[i])',
         \A i \in {1, 2} : \/ suspended'[p[i]] = suspended[p[i]]
                           \/ suspended'[p[i]] # None /\ suspended'[p[i]].pair # p
                           \/ suspended'[p[i]] = None /\ Co!Excused(p, p[i])'
  PROVE  Co!Alone(p)'
<1>1. \A i : (Co!Lifting(p, i)' <=> Co!Lifting(p, i)) /\ (Co!Suspending(p, i)' <=> Co!Suspending(p, i))
  BY DEF Co!Lifting, Co!Suspending, Co!LiftsLater, Co!SuspendsLater
<1>2. Co!NoFlag' = Co!NoFlag
  BY DEF Co!NoFlag
<1> QED
  BY <1>1, <1>2 DEF Co!Alone, Co!Suspends

LEMMA WaitingCounts ==
  ASSUME Co!CollusionAssumption, NEW S \in SUBSET Quorums
  PROVE  /\ Co!Cardinality(S) \in Nat
         /\ \A t \in S : Co!Cardinality(S \ {t}) = Co!Cardinality(S) - 1
         /\ \A t \in Quorums \ S : Co!Cardinality(S \cup {t}) = Co!Cardinality(S) + 1
         /\ \A R \in SUBSET S : Co!Cardinality(R) \in Nat /\ Co!Cardinality(R) <= Co!Cardinality(S)
<1>1. IsFiniteSet(Quorums)
  BY CollusionCardinality DEF Co!CollusionAssumption
<1>2. IsFiniteSet(S)
  BY <1>1, FS_Subset
<1> QED
  BY <1>2, CollusionCardinality, FS_CardinalityType, FS_AddElement, FS_RemoveElement, FS_Subset

\* A task that neither reads nor writes the counters of a pair.
LEMMA CountsStay ==
  ASSUME Co!TasksOK, Co!CountsHold, NEW t \in Co!Tasks, NEW r, Co!Placed(t, r), inspection' = [inspection EXCEPT ![t] = r],
         UNCHANGED <<counters, observed>>, raced \subseteq raced', r.todo = inspection[t].todo,
         inspection[t].at # "count", r.at # "count",
         r.at \in {"score", "previous", "flag", "first", "second"} =>
           inspection[t].at \in {"score", "previous", "flag", "first", "second"} /\ r.pair = inspection[t].pair
  PROVE  Co!CountsHold'
<1>1. inspection'[t] = r /\ \A u \in Co!Tasks : u # t => inspection'[u] = inspection[u]
  BY TaskGoesOn
<1>2. Quorums \subseteq Co!Tasks
  BY DEF Co!Tasks
<1>3. \A p : Co!Waiting(p)' = Co!Waiting(p) /\ Co!Uncounted(p)' = Co!Uncounted(p)
  BY <1>1, <1>2 DEF Co!Waiting, Co!Uncounted
<1>4. \A u \in Quorums : inspection'[u].at = "count" => inspection'[u] = inspection[u]
  BY <1>1, <1>2
<1>5. \A u \in Quorums : inspection'[u].at \in {"score", "previous", "flag", "first", "second"} =>
        inspection[u].at \in {"score", "previous", "flag", "first", "second"} /\ inspection'[u].pair = inspection[u].pair
  BY <1>1, <1>2
<1> QED
  BY <1>3, <1>4, <1>5 DEF Co!CountsHold

LEMMA SuspensionsStay ==
  ASSUME Co!TasksOK, Co!SuspensionsStand, NEW t \in Co!Tasks, NEW r, Co!Placed(t, r), inspection' = [inspection EXCEPT ![t] = r],
         UNCHANGED <<flag, suspended>>, r.at \notin {"first", "second"}, r.at = "review" => r.flag # Co!NoFlag
  PROVE  Co!SuspensionsStand'
<1>1. inspection'[t] = r /\ \A u \in Co!Tasks : u # t => inspection'[u] = inspection[u]
  BY TaskGoesOn
<1> QED
  BY <1>1 DEF Co!SuspensionsStand, Co!NoFlag, Co!Tasks

\* A task that writes nothing about the pair goes on, or is over.
LEMMA AloneStays ==
  ASSUME Co!CollusionAssumption, Co!CollusionInv, NEW t \in Co!Tasks, NEW r, Co!Placed(t, r), inspection' = [inspection EXCEPT ![t] = r],
         UNCHANGED <<flag, suspended, raced>>, r.pair \in {inspection[t].pair, None}, inspection[t].at \notin {"first", "second"},
         r.at \notin {"first", "second", "review"}, r.at = "flag" => r.flag = flag[inspection[t].pair],
         r.at \in {"look1", "lift1", "look2", "lift2"} => inspection[t].at \in {"look1", "lift1", "look2", "lift2"},
         \A i \in {1, 2} : Co!LiftsLater(inspection[t].at, i) =>
           \/ Co!LiftsLater(r.at, i) \/ suspended[inspection[t].pair[i]] = None
           \/ suspended[inspection[t].pair[i]].pair # inspection[t].pair
  PROVE  \A p \in Pairs \ raced' : Co!Alone(p)'
<1> SUFFICES ASSUME NEW p \in Pairs, p \notin raced PROVE Co!Alone(p)'
  OBVIOUS
<1>1. Co!Alone(p) /\ Co!TasksOK /\ p # None
  BY DEF Co!CollusionInv, Co!CollusionAssumption
<1>2. /\ inspection'[t] = r /\ \A u \in Co!Tasks : u # t => inspection'[u] = inspection[u]
      /\ Co!On(p)' = (Co!On(p) \ {t}) \cup (IF r.pair = p THEN {t} ELSE {})
  <2>1. Co!TasksOK
    BY <1>1
  <2>2. \A q : Co!On(q)' = (Co!On(q) \ {t}) \cup (IF r.pair = q THEN {t} ELSE {})
    BY ONLY <2>1, TaskGoesOn, t \in Co!Tasks, Co!Placed(t, r), inspection' = [inspection EXCEPT ![t] = r]
  <2> QED
    BY <2>1, <2>2, TaskGoesOn
<1>3. \A q, w : Co!Excused(q, w) => Co!Excused(q, w)'
  BY ExcuseStays
<1>4. CASE inspection[t].pair # p
  <2>1. r.pair # p /\ t \notin Co!On(p)
    BY <1>1, <1>4 DEF Co!On
  <2>2. Co!On(p)' = Co!On(p) /\ \A u \in Co!On(p) : inspection'[u] = inspection[u]
    BY <1>2, <2>1 DEF Co!On
  <2> QED
    BY <1>1, <1>3, <2>2, AloneElsewhere
<1>5. CASE inspection[t].pair = p
  <2>1. /\ Co!On(p) = {t}
        /\ \A i : (Co!Lifting(p, i) <=> Co!LiftsLater(inspection[t].at, i)) /\ (Co!Suspending(p, i) <=> Co!SuspendsLater(inspection[t].at, i))
    BY <1>1, <1>5, Solo
  <2>2. Co!On(p)' \subseteq {t} /\ (t \in Co!On(p)' => r.pair = p)
    BY <1>2, <2>1
  <2>3. \A i : ~Co!SuspendsLater(inspection[t].at, i)
    BY DEF Co!SuspendsLater
  <2>4. inspection[t].at \in {"look1", "lift1", "look2", "lift2"} => flag[p].reviewed = flag[p].score /\ flag[p] # Co!NoFlag
    BY <1>1, <2>1 DEF Co!Alone
  <2>5. \A i \in {1, 2} :
           /\ suspended[p[i]] # None /\ suspended[p[i]].pair = p =>
                suspended[p[i]].score > flag[p].reviewed \/ Co!LiftsLater(inspection[t].at, i)
           /\ Co!Suspends(flag[p].score, flag[p].reviewed) => suspended[p[i]] # None \/ Co!Excused(p, p[i])
    BY <1>1, <2>1, <2>3 DEF Co!Alone
  <2>6. r.at \in {"look1", "lift1", "look2", "lift2"} \/ (\A i : ~Co!LiftsLater(r.at, i))
    BY DEF Co!LiftsLater
  <2>7. \A i \in {1, 2} :
           /\ suspended[p[i]] # None /\ suspended[p[i]].pair = p =>
                suspended[p[i]].score > flag[p].reviewed \/ Co!LiftsLater(r.at, i)
    BY <1>5, <2>5
  <2>8. \A i \in {1, 2} :
           /\ suspended[p[i]] # None /\ suspended[p[i]].pair = p =>
                suspended[p[i]].score > flag[p].reviewed \/ (t \in Co!On(p)' /\ Co!LiftsLater(r.at, i))
    <3>1. CASE t \in Co!On(p)'
      BY <2>7, <3>1
    <3>2. CASE t \notin Co!On(p)'
      <4>1. r.pair = None
        BY <1>1, <1>2, <1>5, <3>2
      <4>2. r.at \in {"idle", "next", "done"}
        BY <4>1 DEF Co!Placed
      <4>3. \A i : ~Co!LiftsLater(r.at, i)
        BY <4>2 DEF Co!LiftsLater
      <4> QED
        BY <2>7, <4>3
    <3> QED
      BY <3>1, <3>2
  <2> QED
    BY <1>2, <1>3, <1>5, <2>2, <2>4, <2>5, <2>8, SoloAgain
<1> QED
  BY <1>4, <1>5

LEMMA IdleIsPlaced ==
  ASSUME NEW t, NEW at \in {"idle", "done"}
  PROVE  Co!Placed(t, [Co!Idle EXCEPT !.at = at]) /\ [Co!Idle EXCEPT !.at = at].at = at
         /\ [Co!Idle EXCEPT !.at = at].pair = None /\ [Co!Idle EXCEPT !.at = at].todo = {}
<1>1. [p \in Pairs |-> Co!NoCount] \in [Pairs -> [Co!Counted -> 0..1]]
  BY DEF Co!NoCount
<1> DEFINE r == [Co!Idle EXCEPT !.at = at]
<1>2. /\ r = [at |-> at, todo |-> {}, pair |-> None, delta |-> [p \in Pairs |-> Co!NoCount],
              counters |-> Co!NoCount, flag |-> Co!NoFlag, score |-> 0]
  BY DEF Co!Idle
<1>3. r \in Co!TaskRecords
  BY <1>1, <1>2, CollusionValues DEF Co!TaskRecords, Co!Steps, Co!ReviewSteps
<1>4. r.at = at /\ r.pair = None /\ r.todo = {}
  BY <1>2
<1> HIDE DEF r
<1>5. Co!Placed(t, r)
  BY <1>3, <1>4 DEF Co!Placed, Co!Steps, Co!ReviewSteps
<1> QED
  BY <1>4, <1>5 DEF r

LEMMA CollusionInit ==
  ASSUME Co!CollusionAssumption, Co!Init
  PROVE  Co!CollusionInv
<1>1. /\ counters = Start /\ linked = {} /\ observed = [p \in Pairs |-> Start[p].shared] /\ raced = {}
      /\ flag = [p \in Pairs |-> Co!NoFlag] /\ suspended = [w \in Suspects |-> None]
      /\ inspection = [t \in Co!Tasks |-> Co!Idle]
  BY DEF Co!Init
<1>2. \A t : Co!Placed(t, Co!Idle) /\ Co!Idle.at = "idle" /\ Co!Idle.pair = None /\ Co!Idle.todo = {}
  <2>1. Co!Idle = [Co!Idle EXCEPT !.at = "idle"]
    BY DEF Co!Idle
  <2> QED
    BY <2>1, IdleIsPlaced
<1>3. Co!Idle \in Co!TaskRecords
  BY <1>2 DEF Co!Placed
<1>4. Co!TasksOK
  BY <1>1, <1>2, <1>3 DEF Co!TasksOK
<1>5. \A p \in Pairs : Start[p] \in Co!Counts /\ p # None
  BY DEF Co!CollusionAssumption, Co!Counts
<1>6. Co!StoredOK
  <2>1. counters \in [Pairs -> Co!Counts]
    <3>1. Start = [p \in Pairs |-> Start[p]]
      BY DEF Co!CollusionAssumption
    <3> QED
      BY <1>1, <1>5, <3>1
  <2>2. \A p \in Pairs : Start[p].shared \in Nat
    BY <1>5, CollusionValues
  <2> QED
    BY <1>1, <2>1, <2>2, CollusionValues DEF Co!StoredOK
<1>7. Co!CountsHold
  <2>1. \A t \in Quorums : inspection[t] = Co!Idle
    BY <1>1 DEF Co!Tasks
  <2>2. \A p \in Pairs : Co!Waiting(p) = {}
    BY <1>2, <2>1 DEF Co!Waiting
  <2>3. Co!Cardinality({}) = 0
    BY CollusionCardinality, FS_EmptySet
  <2>4. \A p \in Pairs : counters[p].shared \in Nat /\ observed[p] = counters[p].shared
    BY <1>1, <1>5, CollusionValues
  <2>5. \A p \in Pairs : Co!Uncounted(p) = 0
    BY <2>2, <2>3 DEF Co!Uncounted
  <2> QED
    BY <1>2, <2>1, <2>4, <2>5 DEF Co!CountsHold
<1>8. Co!SuspensionsStand
  BY <1>1, <1>2 DEF Co!SuspensionsStand, Co!Tasks
<1>9. ASSUME NEW p \in Pairs PROVE Co!Alone(p)
  <2>1. Co!On(p) = {}
    BY <1>1, <1>2, <1>5 DEF Co!On
  <2>2. ~Co!Suspends(flag[p].score, flag[p].reviewed)
    BY <1>1 DEF Co!Suspends, Co!NoFlag
  <2>3. \A i \in {1, 2} : suspended[p[i]] = None
    BY <1>1, PairMembers
  <2> QED
    BY <2>1, <2>2, <2>3 DEF Co!Alone
<1> QED
  BY <1>4, <1>6, <1>7, <1>8, <1>9 DEF Co!CollusionInv

LEMMA LinkingKeeps ==
  ASSUME Co!CollusionInv, UNCHANGED <<counters, flag, suspended, inspection, observed, raced>>, linked' \subseteq Pairs
  PROVE  Co!CollusionInv'
<1>1. Co!TasksOK' /\ Co!StoredOK' /\ Co!CountsHold' /\ Co!SuspensionsStand'
  BY DEF Co!CollusionInv, Co!TasksOK, Co!StoredOK, Co!CountsHold, Co!SuspensionsStand, Co!Waiting, Co!Uncounted
<1>2. ASSUME NEW p \in Pairs, Co!Alone(p) PROVE Co!Alone(p)'
  <2>1. (Co!On(p)' = Co!On(p)) /\ (\A q, w : Co!Excused(q, w) => Co!Excused(q, w)')
    BY ExcuseStays DEF Co!On
  <2> QED
    BY <1>2, <2>1, AloneElsewhere
<1> QED
  BY <1>1, <1>2 DEF Co!CollusionInv

LEMMA PairIsObserved ==
  ASSUME NEW p, NEW same, NEW matched, NEW quick
  PROVE  /\ Co!PairObservation(p, same, matched, quick) \in [Co!Counted -> 0..1]
         /\ Co!PairObservation(p, same, matched, quick).shared = 1
BY DEF Co!PairObservation, Co!Counted

LEMMA ObservingKeeps ==
  ASSUME Co!CollusionAssumption, Co!CollusionInv, NEW t \in Quorums, NEW round, Co!RecordQuorumObservation(t, round)
  PROVE  Co!CollusionInv'
<1> DEFINE pairs == {p \in Pairs : {p[1], p[2]} \subseteq round.of}
           delta == [p \in Pairs |-> Co!PairObservation(p, round.same, round.matched, round.quick)]
           r == [Co!Idle EXCEPT !.at = "next", !.todo = pairs, !.delta = delta]
<1>1. /\ inspection[t].at = "idle" /\ inspection' = [inspection EXCEPT ![t] = r]
      /\ observed' = [p \in Pairs |-> observed[p] + IF p \in pairs THEN 1 ELSE 0]
      /\ UNCHANGED <<counters, linked, flag, suspended, raced>>
  BY DEF Co!RecordQuorumObservation, Co!At
<1>2. t \in Co!Tasks /\ t \notin Reviews /\ Quorums \subseteq Co!Tasks /\ Co!TasksOK /\ \A p \in Pairs : p # None
  BY DEF Co!Tasks, Co!CollusionAssumption, Co!CollusionInv
<1>3. /\ delta \in [Pairs -> [Co!Counted -> 0..1]] /\ \A p \in Pairs : delta[p].shared = 1
  BY PairIsObserved
<1>4. pairs \subseteq Pairs
  OBVIOUS
<1> HIDE DEF delta, pairs
<1>5. Co!Idle \in Co!TaskRecords /\ Co!Idle.pair = None
  <2>1. Co!Idle = [Co!Idle EXCEPT !.at = "idle"]
    BY DEF Co!Idle
  <2> QED
    BY <2>1, IdleIsPlaced DEF Co!Placed
<1>6. /\ r \in Co!TaskRecords /\ r.at = "next" /\ r.todo = pairs /\ r.pair = None /\ r.delta = delta
  BY <1>3, <1>4, <1>5 DEF Co!TaskRecords, Co!Steps
<1> HIDE DEF r
<1>7. Co!Placed(t, r)
  BY <1>2, <1>3, <1>6 DEF Co!Placed, Co!Steps
<1>8. /\ Co!TasksOK' /\ inspection'[t] = r /\ \A u \in Co!Tasks : u # t => inspection'[u] = inspection[u]
      /\ \A p : Co!On(p)' = (Co!On(p) \ {t}) \cup (IF r.pair = p THEN {t} ELSE {})
  BY <1>1, <1>2, <1>7, TaskGoesOn
<1>9. Co!Placed(t, inspection[t])
  BY <1>2 DEF Co!TasksOK
<1>10. inspection[t].pair = None /\ inspection[t].todo = {}
  BY <1>1, <1>9 DEF Co!Placed
<1>11. Co!StoredOK'
  BY <1>1 DEF Co!CollusionInv, Co!StoredOK
<1>12. Co!SuspensionsStand'
  BY <1>1, <1>2, <1>6, <1>7, SuspensionsStay DEF Co!CollusionInv
<1>13. Co!CountsHold'
  <2>1. \A p \in Pairs : t \notin Co!Waiting(p) /\ Co!Waiting(p) \subseteq Quorums
                         /\ Co!Waiting(p)' = IF p \in pairs THEN Co!Waiting(p) \cup {t} ELSE Co!Waiting(p)
    BY <1>1, <1>2, <1>6, <1>8, <1>10 DEF Co!Waiting
  <2>2. \A p \in Pairs : /\ Co!Uncounted(p) \in Nat
                         /\ Co!Uncounted(p)' = Co!Uncounted(p) + IF p \in pairs THEN 1 ELSE 0
    BY <1>2, <2>1, WaitingCounts DEF Co!Uncounted
  <2>3. \A p \in Pairs : observed[p] \in Nat /\ observed'[p] = observed[p] + IF p \in pairs THEN 1 ELSE 0
    BY <1>1 DEF Co!CollusionInv, Co!StoredOK
  <2>4. \A p \in Pairs : counters[p] \in Co!Counts /\ counters[p].shared \in Nat
    BY CollusionValues DEF Co!CollusionInv, Co!StoredOK
  <2>5. \A p \in Pairs : /\ counters'[p].shared + Co!Uncounted(p)' <= observed'[p]
                         /\ p \notin raced' => counters'[p].shared + Co!Uncounted(p)' = observed'[p]
    BY <1>1, <2>2, <2>3, <2>4 DEF Co!CollusionInv, Co!CountsHold
  <2>6. ASSUME NEW p \in Pairs, NEW u \in Quorums, inspection'[u].pair = p
        PROVE  /\ inspection'[u].at = "count" => inspection'[u].counters.shared + Co!Uncounted(p)' <= observed'[p]
               /\ inspection'[u].at = "count" /\ p \notin raced' => inspection'[u].counters = counters'[p]
               /\ inspection'[u].at \in {"score", "previous", "flag", "first", "second"} => counters'[p].shared > 0
    <3>1. inspection'[u] = inspection[u]
      BY <1>2, <1>6, <1>8, <2>6
    <3>2. inspection[u].counters.shared \in Nat
      <4>1. Co!Placed(u, inspection[u])
        BY <1>2 DEF Co!TasksOK
      <4> QED
        BY <4>1, TaskFields, CollusionValues
    <3>3. /\ inspection[u].at = "count" => inspection[u].counters.shared + Co!Uncounted(p) <= observed[p]
          /\ inspection[u].at = "count" /\ p \notin raced => inspection[u].counters = counters[p]
          /\ inspection[u].at \in {"score", "previous", "flag", "first", "second"} => counters[p].shared > 0
      BY <2>6, <3>1 DEF Co!CollusionInv, Co!CountsHold
    <3> QED
      BY <1>1, <2>2, <2>3, <3>1, <3>2, <3>3
  <2> QED
    BY <2>5, <2>6 DEF Co!CountsHold
<1>14. \A p \in Pairs \ raced' : Co!Alone(p)'
  BY <1>1, <1>2, <1>6, <1>7, <1>10, AloneStays DEF Co!LiftsLater
<1> QED
  BY <1>8, <1>11, <1>12, <1>13, <1>14 DEF Co!CollusionInv

\* What holds of any task.
LEMMA TaskContext ==
  ASSUME Co!CollusionAssumption, Co!CollusionInv, NEW t \in Co!Tasks
  PROVE  /\ Co!TasksOK /\ Co!Placed(t, inspection[t]) /\ Quorums \subseteq Co!Tasks /\ Reviews \subseteq Co!Tasks
         /\ (t \in Quorums <=> t \notin Reviews) /\ \A p \in Pairs : p # None
         /\ inspection[t].at \notin {"idle", "next", "done"} => inspection[t].pair \in Pairs
         /\ inspection[t].at \in {"next", "count", "score", "previous", "flag", "first", "second"} => t \in Quorums
         /\ inspection[t].at \in {"review", "look1", "lift1", "look2", "lift2"} => t \in Reviews
         /\ Co!StoredOK /\ Co!CountsHold /\ Co!SuspensionsStand /\ \A p \in Pairs \ raced : Co!Alone(p)
<1>1. Co!Placed(t, inspection[t])
  BY DEF Co!CollusionInv, Co!TasksOK
<1> QED
  BY <1>1, TaskFields DEF Co!CollusionInv, Co!Tasks, Co!CollusionAssumption, Co!Steps, Co!ReviewSteps

LEMMA NextIsPlaced ==
  ASSUME Co!CollusionAssumption, Co!CollusionInv, NEW t \in Quorums, inspection[t].at \notin {"idle", "done"}
  PROVE  /\ Co!Placed(t, Co!NextPair(t)) /\ Co!NextPair(t).pair = None /\ Co!NextPair(t).todo = inspection[t].todo
         /\ Co!NextPair(t).at \in {"next", "done"}
<1>1. t \in Co!Tasks
  BY DEF Co!Tasks
<1>2. Co!Placed(t, inspection[t]) /\ t \notin Reviews
  BY <1>1, TaskContext
<1>3. CASE inspection[t].todo = {}
  BY <1>3, IdleIsPlaced DEF Co!NextPair
<1>4. CASE inspection[t].todo # {}
  <2> DEFINE todo == inspection[t].todo
             delta == inspection[t].delta
             next(some, d) == [at |-> "next", todo |-> some, pair |-> None, delta |-> d,
                               counters |-> Co!NoCount, flag |-> Co!NoFlag, score |-> 0]
  <2>1. Co!NextPair(t) = next(todo, delta)
    <3>1. PICK p : p = [Co!Idle EXCEPT !.at = "next"]
      OBVIOUS
    <3>2. PICK nothing, none : nothing = {} /\ none = [q \in Pairs |-> Co!NoCount]
      OBVIOUS
    <3>3. p = next(nothing, none)
      BY <3>1, <3>2 DEF Co!Idle
    <3>4. PICK q : q = [p EXCEPT !.todo = todo]
      OBVIOUS
    <3>5. q = next(todo, none)
      BY <3>3, <3>4
    <3>6. [q EXCEPT !.delta = delta] = next(todo, delta)
      BY <3>5
    <3> QED
      BY <1>4, <3>1, <3>4, <3>6, Zenon DEF Co!NextPair
  <2>2. PICK r : r = next(todo, delta)
    OBVIOUS
  <2>3. /\ r \in Co!TaskRecords /\ r.at = "next" /\ r.pair = None /\ r.todo = inspection[t].todo /\ r.delta = inspection[t].delta
    <3>1. todo \in SUBSET Pairs /\ delta \in [Pairs -> [Co!Counted -> 0..1]]
      BY <1>2 DEF Co!Placed, Co!TaskRecords
    <3> HIDE DEF todo, delta
    <3>2. r \in Co!TaskRecords /\ r.at = "next" /\ r.pair = None /\ r.todo = todo /\ r.delta = delta
      BY <2>2, <3>1, CollusionValues DEF Co!TaskRecords, Co!Steps
    <3> QED
      BY <3>2 DEF todo, delta
  <2>4. Co!Placed(t, r)
    BY <1>2, <1>4, <2>3, TaskContext, <1>1 DEF Co!Placed, Co!Steps
  <2> QED
    BY <2>1, <2>2, <2>3, <2>4
<1> QED
  BY <1>3, <1>4

LEMMA ReadingKeeps ==
  ASSUME Co!CollusionAssumption, Co!CollusionInv, NEW t \in Quorums, NEW p \in Pairs, Co!ReadCounters(t, p)
  PROVE  Co!CollusionInv'
<1> DEFINE r == [inspection[t] EXCEPT !.at = "count", !.pair = p, !.todo = inspection[t].todo \ {p}, !.counters = counters[p]]
<1>1. /\ inspection[t].at = "next" /\ p \in inspection[t].todo /\ inspection' = [inspection EXCEPT ![t] = r]
      /\ raced' = raced \cup (IF Co!On(p) = {} THEN {} ELSE {p})
      /\ UNCHANGED <<counters, linked, flag, suspended, observed>>
  BY DEF Co!ReadCounters, Co!At, Co!TakesUp
<1>2. t \in Co!Tasks
  BY DEF Co!Tasks
<1>3. /\ Co!TasksOK /\ Co!Placed(t, inspection[t]) /\ Quorums \subseteq Co!Tasks /\ t \notin Reviews /\ (\A q \in Pairs : q # None)
      /\ Co!StoredOK /\ Co!CountsHold /\ Co!SuspensionsStand /\ \A q \in Pairs \ raced : Co!Alone(q)
  BY <1>2, TaskContext
<1>4. counters[p] \in Co!Counts
  BY <1>3 DEF Co!StoredOK
<1>5. /\ r \in Co!TaskRecords /\ r.at = "count" /\ r.pair = p /\ r.todo = inspection[t].todo \ {p}
      /\ r.counters = counters[p] /\ r.delta = inspection[t].delta
  BY <1>3, <1>4 DEF Co!Placed, Co!TaskRecords, Co!Steps
<1> HIDE DEF r
<1>6. inspection[t].pair = None
  BY <1>1, <1>3 DEF Co!Placed
<1>7. \A q \in Pairs : inspection[t].delta[q].shared = 1
  BY <1>1, <1>3 DEF Co!Placed
<1>8. \A q \in Pairs : r.delta[q].shared = 1
  BY <1>5, <1>7
<1>9. Co!Placed(t, r)
  BY <1>3, <1>5, <1>8 DEF Co!Placed, Co!Steps
<1>10. /\ Co!TasksOK' /\ inspection'[t] = r /\ \A u \in Co!Tasks : u # t => inspection'[u] = inspection[u]
       /\ \A q : Co!On(q)' = (Co!On(q) \ {t}) \cup (IF r.pair = q THEN {t} ELSE {})
  BY <1>1, <1>2, <1>3, <1>9, TaskGoesOn
<1>11. Co!StoredOK'
  BY <1>1, <1>3 DEF Co!StoredOK
<1>12. Co!SuspensionsStand'
  BY <1>1, <1>2, <1>3, <1>5, <1>9, SuspensionsStay
<1>13. \A q \in Pairs : Co!Uncounted(q)' = Co!Uncounted(q)
  <2>1. \A q \in Pairs : Co!Waiting(q)' = Co!Waiting(q)
    BY <1>1, <1>2, <1>3, <1>5, <1>6, <1>10 DEF Co!Waiting
  <2> QED
    BY <2>1 DEF Co!Uncounted
<1>14. Co!CountsHold'
  <2>1. \A q \in Pairs : counters[q].shared \in Nat
    BY <1>3, CollusionValues DEF Co!StoredOK
  <2>2. ASSUME NEW q \in Pairs, NEW u \in Quorums, inspection'[u].pair = q
        PROVE  /\ inspection'[u].at = "count" => inspection'[u].counters.shared + Co!Uncounted(q)' <= observed'[q]
               /\ inspection'[u].at = "count" /\ q \notin raced' => inspection'[u].counters = counters'[q]
               /\ inspection'[u].at \in {"score", "previous", "flag", "first", "second"} => counters'[q].shared > 0
    <3>1. CASE u = t
      BY <1>1, <1>3, <1>5, <1>10, <1>13, <2>2, <3>1 DEF Co!CountsHold
    <3>2. CASE u # t
      BY <1>1, <1>3, <1>10, <1>13, <2>2, <3>2 DEF Co!CountsHold
    <3> QED
      BY <3>1, <3>2
  <2> QED
    BY <1>1, <1>3, <1>13, <2>2 DEF Co!CountsHold
<1>15. ASSUME NEW q \in Pairs, q \notin raced' PROVE Co!Alone(q)'
  <2>1. Co!Alone(q) /\ \A x, w : Co!Excused(x, w) => Co!Excused(x, w)'
    <3>1. raced \subseteq raced' /\ q \notin raced
      BY <1>1, <1>15
    <3> QED
      BY <1>1, <1>3, <3>1, ExcuseStays
  <2>2. CASE q # p
    <3>1. t \notin Co!On(q)
      BY <1>3, <1>6 DEF Co!On
    <3>2. Co!On(q)' = Co!On(q) /\ \A u \in Co!On(q) : inspection'[u] = inspection[u]
      BY <1>5, <1>10, <2>2, <3>1 DEF Co!On
    <3> QED
      BY <1>1, <2>1, <3>2, AloneElsewhere
  <2>3. CASE q = p
    <3>1. Co!On(q) = {} /\ Co!On(q)' \subseteq {t}
      BY <1>1, <1>10, <1>15, <2>3
    <3>2. \A i : ~Co!Lifting(q, i) /\ ~Co!Suspending(q, i)
      BY <3>1 DEF Co!Lifting, Co!Suspending
    <3>3. \A i \in {1, 2} :
           /\ suspended[q[i]] # None /\ suspended[q[i]].pair = q => suspended[q[i]].score > flag[q].reviewed
           /\ Co!Suspends(flag[q].score, flag[q].reviewed) => suspended[q[i]] # None \/ Co!Excused(q, q[i])
      BY <2>1, <3>2 DEF Co!Alone
    <3> QED
      BY <1>1, <1>2, <1>5, <1>10, <2>1, <3>1, <3>3, SoloAgain
  <2> QED
    BY <2>2, <2>3
<1> QED
  BY <1>10, <1>11, <1>12, <1>14, <1>15 DEF Co!CollusionInv

LEMMA CountingKeeps ==
  ASSUME Co!CollusionAssumption, Co!CollusionInv, NEW t \in Co!Tasks, Co!WriteCounters(t)
  PROVE  Co!CollusionInv'
<1> DEFINE r == [inspection[t] EXCEPT !.at = "score"]
<1>1. PICK p : p = inspection[t].pair
  OBVIOUS
<1>2. PICK total : total = [c \in Co!Counted |-> inspection[t].counters[c] + inspection[t].delta[p][c]]
  OBVIOUS
<1>3. /\ inspection[t].at = "count" /\ inspection' = [inspection EXCEPT ![t] = r]
      /\ counters' = [counters EXCEPT ![p] = total] /\ UNCHANGED <<linked, flag, suspended, observed, raced>>
  BY <1>1, <1>2 DEF Co!WriteCounters, Co!At, Co!Go
<1>4. /\ Co!TasksOK /\ Co!Placed(t, inspection[t]) /\ Quorums \subseteq Co!Tasks /\ t \notin Reviews /\ t \in Quorums
      /\ Co!StoredOK /\ Co!CountsHold /\ Co!SuspensionsStand /\ (\A q \in Pairs \ raced : Co!Alone(q)) /\ p \in Pairs /\ p # None
  BY <1>1, <1>3, TaskContext
<1>5. /\ inspection[t].counters \in Co!Counts /\ inspection[t].delta \in [Pairs -> [Co!Counted -> 0..1]]
      /\ inspection[t].delta[p].shared = 1
  BY <1>3, <1>4, TaskFields DEF Co!Placed
<1>6. total \in Co!Counts /\ total.shared = inspection[t].counters.shared + 1
  <2>1. PICK d \in [Co!Counted -> 0..1] : d = inspection[t].delta[p]
    BY <1>4, <1>5
  <2>2. PICK c \in Co!Counts : c = inspection[t].counters
    BY <1>5
  <2>3. \A n \in Co!Counted : c[n] \in Nat /\ c[n] <= c.shared /\ d[n] \in Nat /\ d[n] <= d.shared
    BY <1>5, <2>1, <2>2 DEF Co!Counts, Co!Counted
  <2>4. \A n \in Co!Counted : total[n] = c[n] + d[n]
    BY <1>2, <2>1, <2>2
  <2>5. "shared" \in Co!Counted
    BY DEF Co!Counted
  <2>6. total \in [Co!Counted -> Nat]
    BY <1>2, <2>1, <2>2, <2>3
  <2>7. \A n \in Co!Counted : total[n] <= total.shared
    BY <2>3, <2>4, <2>5
  <2> QED
    BY <1>5, <2>1, <2>2, <2>4, <2>5, <2>6, <2>7 DEF Co!Counts
<1>7. r \in Co!TaskRecords /\ r.at = "score" /\ r.pair = p /\ r.todo = inspection[t].todo /\ r.delta = inspection[t].delta
  BY <1>1, <1>4 DEF Co!Placed, Co!TaskRecords, Co!Steps
<1> HIDE DEF r
<1>8. Co!Placed(t, r)
  BY <1>1, <1>3, <1>4, <1>7 DEF Co!Placed, Co!Steps
<1>9. /\ Co!TasksOK' /\ inspection'[t] = r /\ \A u \in Co!Tasks : u # t => inspection'[u] = inspection[u]
      /\ \A q : Co!On(q)' = (Co!On(q) \ {t}) \cup (IF r.pair = q THEN {t} ELSE {})
  BY <1>3, <1>4, <1>8, TaskGoesOn
<1>10. Co!StoredOK'
  BY <1>3, <1>4, <1>6 DEF Co!StoredOK
<1>11. Co!SuspensionsStand'
  BY <1>3, <1>4, <1>7, <1>8, SuspensionsStay
<1>12. \A q \in Pairs \ raced' : Co!Alone(q)'
  <2>1. \A i : ~Co!LiftsLater(inspection[t].at, i)
    BY <1>3 DEF Co!LiftsLater
  <2> QED
    BY <1>1, <1>3, <1>7, <1>8, <2>1, AloneStays
<1>13. p \notin inspection[t].todo
  BY <1>1, <1>4 DEF Co!Placed
<1>14. \A q \in Pairs : Co!Uncounted(q) \in Nat /\ Co!Uncounted(q)' = IF q = p THEN Co!Uncounted(q) - 1 ELSE Co!Uncounted(q)
  <2>1. t \in Co!Waiting(p) /\ \A q \in Pairs : /\ Co!Waiting(q) \subseteq Quorums
                                                /\ Co!Waiting(q)' = IF q = p THEN Co!Waiting(q) \ {t} ELSE Co!Waiting(q)
    BY <1>1, <1>3, <1>4, <1>7, <1>9, <1>13 DEF Co!Waiting
  <2>2. \A q \in Pairs : Co!Waiting(q) \in SUBSET Quorums
    BY <2>1
  <2>3. Co!Cardinality(Co!Waiting(p) \ {t}) = Co!Cardinality(Co!Waiting(p)) - 1
    BY <1>4, <2>1, <2>2, WaitingCounts
  <2>4. \A q \in Pairs : Co!Cardinality(Co!Waiting(q)) \in Nat
    BY <2>2, WaitingCounts
  <2> QED
    BY <2>1, <2>3, <2>4 DEF Co!Uncounted
<1>15. Co!CountsHold'
  <2>1. \A q \in Pairs : counters[q].shared \in Nat /\ observed[q] \in Nat /\ (q # p => counters'[q] = counters[q])
    BY <1>3, <1>4, CollusionValues DEF Co!StoredOK
  <2>2. counters'[p] = total /\ total.shared \in Nat /\ inspection[t].counters.shared \in Nat /\ total.shared > 0
    BY <1>3, <1>4, <1>5, <1>6, CollusionValues DEF Co!StoredOK
  <2>3. /\ inspection[t].counters.shared + Co!Uncounted(p) <= observed[p]
        /\ p \notin raced => inspection[t].counters = counters[p] /\ counters[p].shared + Co!Uncounted(p) = observed[p]
    BY <1>1, <1>3, <1>4 DEF Co!CountsHold
  <2>4. \A q \in Pairs : /\ counters'[q].shared + Co!Uncounted(q)' <= observed'[q]
                         /\ q \notin raced' => counters'[q].shared + Co!Uncounted(q)' = observed'[q]
    <3> SUFFICES ASSUME NEW q \in Pairs
                 PROVE  /\ counters'[q].shared + Co!Uncounted(q)' <= observed'[q]
                        /\ q \notin raced' => counters'[q].shared + Co!Uncounted(q)' = observed'[q]
      OBVIOUS
    <3>1. CASE q = p
      BY <1>3, <1>6, <1>14, <2>1, <2>2, <2>3, <3>1
    <3>2. CASE q # p
      BY <1>3, <1>4, <1>14, <2>1, <3>2 DEF Co!CountsHold
    <3> QED
      BY <3>1, <3>2
  <2>5. ASSUME NEW q \in Pairs, NEW u \in Quorums, inspection'[u].pair = q
        PROVE  /\ inspection'[u].at = "count" => inspection'[u].counters.shared + Co!Uncounted(q)' <= observed'[q]
               /\ inspection'[u].at = "count" /\ q \notin raced' => inspection'[u].counters = counters'[q]
               /\ inspection'[u].at \in {"score", "previous", "flag", "first", "second"} => counters'[q].shared > 0
    <3>1. CASE u = t
      BY <1>7, <1>9, <2>2, <2>5, <3>1
    <3>2. CASE u # t
      <4>1. inspection'[u] = inspection[u]
        BY <1>4, <1>9, <3>2
      <4>2. inspection[u].counters.shared \in Nat
        <5>1. Co!Placed(u, inspection[u])
          BY <1>4 DEF Co!TasksOK
        <5> QED
          BY <5>1, TaskFields, CollusionValues
      <4>3. q = p => q \in raced
        <5>1. ASSUME Co!Alone(p), q = p PROVE FALSE
          <6>1. Co!On(p) = {t}
            BY <1>1, <1>4, <5>1, Solo
          <6> QED
            BY <1>4, <2>5, <3>2, <4>1, <5>1, <6>1 DEF Co!On
        <5> QED
          BY <1>4, <5>1
      <4>4. /\ inspection[u].at = "count" => inspection[u].counters.shared + Co!Uncounted(q) <= observed[q]
            /\ inspection[u].at = "count" /\ q \notin raced => inspection[u].counters = counters[q]
            /\ inspection[u].at \in {"score", "previous", "flag", "first", "second"} => counters[q].shared > 0
        BY <1>4, <2>5, <4>1 DEF Co!CountsHold
      <4> QED
        BY <1>3, <1>14, <2>1, <2>2, <4>1, <4>2, <4>3, <4>4
    <3> QED
      BY <3>1, <3>2
  <2> QED
    BY <2>4, <2>5 DEF Co!CountsHold
<1> QED
  BY <1>9, <1>10, <1>11, <1>12, <1>15 DEF Co!CollusionInv

LEMMA EvaluatingKeeps ==
  ASSUME Co!CollusionAssumption, Co!CollusionInv, NEW t \in Co!Tasks, Co!EvaluatePair(t) \/ Co!ReadFlag(t)
  PROVE  Co!CollusionInv'
<1> SUFFICES ASSUME NEW r, inspection' = [inspection EXCEPT ![t] = r], Co!Placed(t, r), r.todo = inspection[t].todo,
                    inspection[t].at \in {"score", "previous"}, UNCHANGED <<counters, linked, flag, suspended, observed, raced>>,
                    \/ r.at = "previous" /\ r.pair = inspection[t].pair
                    \/ r.at \in {"next", "done"} /\ r.pair = None
                    \/ r.at = "flag" /\ r.pair = inspection[t].pair /\ r.flag = flag[inspection[t].pair]
             PROVE  Co!CollusionInv'
  <2>1. CASE Co!EvaluatePair(t)
    <3>1. PICK score : score = Co!ScorePair(inspection[t].pair, counters[inspection[t].pair])
      OBVIOUS
    <3>2. PICK r : r = [inspection[t] EXCEPT !.at = "previous", !.score = score]
      OBVIOUS
    <3>3. inspection[t].at = "score" /\ inspection' = [inspection EXCEPT ![t] = r] /\ UNCHANGED <<counters, linked, flag, suspended, observed, raced>>
      BY <2>1, <3>1, <3>2 DEF Co!EvaluatePair, Co!At
    <3>4. Co!Placed(t, inspection[t]) /\ t \in Quorums /\ t \notin Reviews /\ inspection[t].pair \in Pairs /\ Co!CountsHold /\ Co!StoredOK
      BY <3>3, TaskContext
    <3>5. score \in Co!Scores
      <4>1. counters[inspection[t].pair] \in Co!Counts /\ counters[inspection[t].pair].shared > 0
        BY <3>3, <3>4 DEF Co!CountsHold, Co!StoredOK
      <4> QED
        BY <3>1, <3>4, <4>1, Scored
    <3>6. r \in Co!TaskRecords /\ r.at = "previous" /\ r.pair = inspection[t].pair /\ r.todo = inspection[t].todo /\ r.delta = inspection[t].delta
      BY <3>2, <3>4, <3>5 DEF Co!Placed, Co!TaskRecords, Co!Steps
    <3>7. Co!Placed(t, r)
      BY <3>3, <3>4, <3>6 DEF Co!Placed, Co!Steps
    <3> QED
      BY <3>3, <3>6, <3>7
  <2>2. CASE Co!ReadFlag(t)
    <3>1. PICK previous : previous = flag[inspection[t].pair]
      OBVIOUS
    <3>2. PICK r : r = IF inspection[t].score < FlagScore /\ previous = Co!NoFlag THEN Co!NextPair(t)
                       ELSE [inspection[t] EXCEPT !.at = "flag", !.flag = previous]
      OBVIOUS
    <3>3. inspection[t].at = "previous" /\ inspection' = [inspection EXCEPT ![t] = r] /\ UNCHANGED <<counters, linked, flag, suspended, observed, raced>>
      BY <2>2, <3>1, <3>2 DEF Co!ReadFlag, Co!At
    <3>4. Co!Placed(t, inspection[t]) /\ t \in Quorums /\ t \notin Reviews /\ inspection[t].pair \in Pairs /\ Co!StoredOK
      BY <3>3, TaskContext
    <3>5. previous \in Co!Flags
      BY <3>1, <3>4 DEF Co!StoredOK
    <3>6. CASE r = Co!NextPair(t)
      BY <3>3, <3>4, <3>6, NextIsPlaced
    <3>7. CASE r = [inspection[t] EXCEPT !.at = "flag", !.flag = previous]
      <4>1. r \in Co!TaskRecords /\ r.at = "flag" /\ r.flag = previous /\ r.pair = inspection[t].pair /\ r.todo = inspection[t].todo
            /\ r.delta = inspection[t].delta
        BY <3>4, <3>5, <3>7 DEF Co!Placed, Co!TaskRecords, Co!Steps
      <4>2. Co!Placed(t, r)
        BY <3>3, <3>4, <4>1 DEF Co!Placed, Co!Steps
      <4> QED
        BY <3>1, <3>3, <4>1, <4>2
    <3> QED
      BY <3>2, <3>6, <3>7
  <2> QED
    BY <2>1, <2>2
<1>1. Co!TasksOK /\ Co!StoredOK /\ Co!CountsHold /\ Co!SuspensionsStand
  BY DEF Co!CollusionInv
<1>2. Co!TasksOK'
  BY <1>1, TaskGoesOn
<1>3. Co!StoredOK'
  BY <1>1 DEF Co!StoredOK
<1>4. Co!CountsHold'
  BY <1>1, CountsStay
<1>5. Co!SuspensionsStand'
  BY <1>1, SuspensionsStay
<1>6. \A p \in Pairs \ raced' : Co!Alone(p)'
  <2>1. \A i : ~Co!LiftsLater(inspection[t].at, i)
    BY DEF Co!LiftsLater
  <2> QED
    BY <2>1, AloneStays
<1> QED
  BY <1>2, <1>3, <1>4, <1>5, <1>6 DEF Co!CollusionInv

\* A task takes a pair up: if another is at work on it, they race.
LEMMA TakingUp ==
  ASSUME Co!CollusionAssumption, Co!CollusionInv, NEW t \in Co!Tasks, NEW p \in Pairs, NEW r, Co!Placed(t, r),
         inspection' = [inspection EXCEPT ![t] = r], inspection[t].pair = None, r.pair = p, r.at \in {"count", "review"},
         r.at = "review" => r.flag = flag[p], raced' = raced \cup (IF Co!On(p) = {} THEN {} ELSE {p}), UNCHANGED <<flag, suspended>>
  PROVE  \A q \in Pairs \ raced' : Co!Alone(q)'
<1> SUFFICES ASSUME NEW q \in Pairs, q \notin raced' PROVE Co!Alone(q)'
  OBVIOUS
<1>1. Co!TasksOK /\ Co!Alone(q) /\ q # None
  BY TaskContext
<1>2. /\ inspection'[t] = r /\ \A u \in Co!Tasks : u # t => inspection'[u] = inspection[u]
      /\ \A x : Co!On(x)' = (Co!On(x) \ {t}) \cup (IF r.pair = x THEN {t} ELSE {})
  BY <1>1, TaskGoesOn
<1>3. \A x, w : Co!Excused(x, w) => Co!Excused(x, w)'
  BY ExcuseStays
<1>4. CASE q # p
  <2>1. t \notin Co!On(q)
    BY <1>1 DEF Co!On
  <2>2. Co!On(q)' = Co!On(q) /\ \A u \in Co!On(q) : inspection'[u] = inspection[u]
    BY <1>2, <1>4, <2>1 DEF Co!On
  <2> QED
    BY <1>1, <1>3, <2>2, AloneElsewhere
<1>5. CASE q = p
  <2>1. Co!On(q) = {} /\ Co!On(q)' \subseteq {t}
    BY <1>2, <1>5
  <2>2. \A i : ~Co!Lifting(q, i) /\ ~Co!Suspending(q, i)
    BY <2>1 DEF Co!Lifting, Co!Suspending
  <2>3. \A i \in {1, 2} :
         /\ suspended[q[i]] # None /\ suspended[q[i]].pair = q => suspended[q[i]].score > flag[q].reviewed
         /\ Co!Suspends(flag[q].score, flag[q].reviewed) => suspended[q[i]] # None \/ Co!Excused(q, q[i])
    BY <1>1, <2>2 DEF Co!Alone
  <2> QED
    BY <1>2, <1>3, <1>5, <2>1, <2>3, SoloAgain
<1> QED
  BY <1>4, <1>5

LEMMA FlaggingKeeps ==
  ASSUME Co!CollusionAssumption, Co!CollusionInv, NEW t \in Co!Tasks, Co!WriteFlag(t)
  PROVE  Co!CollusionInv'
<1>1. PICK p, score, reviewed : p = inspection[t].pair /\ score = inspection[t].score /\ reviewed = inspection[t].flag.reviewed
  OBVIOUS
<1>2. PICK r : r = IF Co!Suspends(score, reviewed) THEN [inspection[t] EXCEPT !.at = "first"] ELSE Co!NextPair(t)
  OBVIOUS
<1>3. PICK new : new = [score |-> score, reviewed |-> reviewed]
  OBVIOUS
<1>4. /\ inspection[t].at = "flag" /\ inspection' = [inspection EXCEPT ![t] = r] /\ flag' = [flag EXCEPT ![p] = new]
      /\ UNCHANGED <<counters, linked, suspended, observed, raced>>
  BY <1>1, <1>2, <1>3 DEF Co!WriteFlag, Co!At
<1>5. /\ Co!TasksOK /\ Co!Placed(t, inspection[t]) /\ t \notin Reviews /\ t \in Quorums /\ (\A q \in Pairs : q # None)
      /\ Co!StoredOK /\ Co!CountsHold /\ Co!SuspensionsStand /\ (\A q \in Pairs \ raced : Co!Alone(q)) /\ p \in Pairs
  BY <1>1, <1>4, TaskContext
<1>6. new \in Co!Flags /\ new # Co!NoFlag /\ new.score = score /\ new.reviewed = reviewed /\ score \in Int /\ reviewed \in Int
  <2>1. inspection[t].score \in Co!Scores /\ inspection[t].flag \in Co!Flags
    BY <1>5, TaskFields
  <2>2. score \in Co!Scores /\ score \in Int /\ score >= 0 /\ reviewed \in Co!Marks /\ reviewed \in Int
    BY <1>1, <2>1, CollusionValues DEF Co!Flags
  <2>3. new \in [score : Co!Marks, reviewed : Co!Marks] /\ new.score = score /\ new.reviewed = reviewed
    BY <1>3, <2>2 DEF Co!Marks
  <2>4. new \in Co!Flags
    BY <2>2, <2>3 DEF Co!Flags
  <2> QED
    BY <2>2, <2>3, <2>4, CollusionValues
<1>7. /\ Co!Placed(t, r) /\ r.todo = inspection[t].todo
      /\ \/ Co!Suspends(score, reviewed) /\ r.at = "first" /\ r.pair = p /\ r.score = score
         \/ ~Co!Suspends(score, reviewed) /\ r.at \in {"next", "done"} /\ r.pair = None
  <2>1. CASE Co!Suspends(score, reviewed)
    <3>1. /\ r \in Co!TaskRecords /\ r.at = "first" /\ r.pair = p /\ r.score = score /\ r.todo = inspection[t].todo
          /\ r.delta = inspection[t].delta
      BY <1>1, <1>2, <1>5, <2>1 DEF Co!Placed, Co!TaskRecords, Co!Steps
    <3>2. Co!Placed(t, r)
      BY <1>1, <1>4, <1>5, <3>1 DEF Co!Placed, Co!Steps
    <3> QED
      BY <2>1, <3>1, <3>2
  <2>2. CASE ~Co!Suspends(score, reviewed)
    BY <1>2, <1>4, <1>5, <2>2, NextIsPlaced
  <2> QED
    BY <2>1, <2>2
<1>8. /\ Co!TasksOK' /\ inspection'[t] = r /\ \A u \in Co!Tasks : u # t => inspection'[u] = inspection[u]
      /\ \A q : Co!On(q)' = (Co!On(q) \ {t}) \cup (IF r.pair = q THEN {t} ELSE {})
  BY <1>4, <1>5, <1>7, TaskGoesOn
<1>9. flag'[p] = new /\ \A q \in Pairs : q # p => flag'[q] = flag[q]
  BY <1>4, <1>5 DEF Co!StoredOK
<1>10. Co!StoredOK'
  BY <1>4, <1>5, <1>6 DEF Co!StoredOK
<1>11. Co!CountsHold'
  <2>1. inspection[t].at # "count" /\ r.at # "count" /\ raced \subseteq raced'
        /\ (r.at \in {"score", "previous", "flag", "first", "second"} => r.pair = inspection[t].pair)
    BY <1>1, <1>4, <1>7
  <2> QED
    BY <1>4, <1>5, <1>7, <2>1, CountsStay
<1>12. Co!SuspensionsStand'
  <2>1. \A w \in Suspects : suspended[w] # None => suspended[w].pair \in Pairs
    BY <1>5 DEF Co!StoredOK, Co!Suspensions
  <2>2. \A q \in Pairs : flag[q] # Co!NoFlag => flag'[q] # Co!NoFlag
    BY <1>6, <1>9
  <2>3. \A u \in Co!Tasks : u # t /\ inspection[u].at \in {"first", "second"} => inspection[u].pair \in Pairs
    BY TaskContext
  <2>4. r.at = "first" => score >= SuspendScore
    BY <1>7 DEF Co!Suspends
  <2>5. \A u \in Co!Tasks : inspection'[u].at \in {"first", "second"} => flag'[inspection'[u].pair] # Co!NoFlag /\ inspection'[u].score >= SuspendScore
    BY <1>5, <1>6, <1>7, <1>8, <1>9, <2>2, <2>3, <2>4 DEF Co!SuspensionsStand
  <2>6. \A u \in Co!Tasks : inspection'[u].at = "review" => inspection'[u].flag # Co!NoFlag
    BY <1>5, <1>7, <1>8 DEF Co!SuspensionsStand
  <2>7. \A w \in Suspects : suspended'[w] # None =>
          /\ w \in {suspended'[w].pair[1], suspended'[w].pair[2]}
          /\ flag'[suspended'[w].pair] # Co!NoFlag /\ suspended'[w].score >= SuspendScore
    BY <1>4, <1>5, <2>1, <2>2 DEF Co!SuspensionsStand
  <2> QED
    BY <2>5, <2>6, <2>7 DEF Co!SuspensionsStand, Co!NoFlag, Co!Tasks
<1>13. p \notin raced => /\ reviewed = flag[p].reviewed /\ Co!On(p) = {t}
                         /\ \A i \in {1, 2} : suspended[p[i]] # None /\ suspended[p[i]].pair = p => suspended[p[i]].score > flag[p].reviewed
  <2> SUFFICES ASSUME p \notin raced, Co!Alone(p)
               PROVE  /\ reviewed = flag[p].reviewed /\ Co!On(p) = {t}
                      /\ \A i \in {1, 2} : suspended[p[i]] # None /\ suspended[p[i]].pair = p => suspended[p[i]].score > flag[p].reviewed
    BY <1>5
  <2>1. /\ Co!On(p) = {t}
        /\ \A i : Co!Lifting(p, i) <=> Co!LiftsLater(inspection[t].at, i)
    BY <1>1, <1>5, Solo
  <2>2. \A i : ~Co!Lifting(p, i)
    BY <1>4, <2>1 DEF Co!LiftsLater
  <2> QED
    BY <1>1, <1>4, <2>1, <2>2 DEF Co!Alone
<1>14. ASSUME NEW q \in Pairs, q \notin raced' PROVE Co!Alone(q)'
  <2>1. Co!Alone(q)
    BY <1>4, <1>5, <1>14
  <2>2. \A x, w : Co!Excused(x, w) => Co!Excused(x, w)'
    <3>1. raced \subseteq raced' /\ \A x \in Pairs : flag[x].reviewed >= 0 => x \in raced' \/ flag'[x].reviewed >= 0
      BY <1>4, <1>6, <1>9, <1>13
    <3> QED
      BY <3>1, ExcuseStays
  <2>3. CASE q # p
    <3>1. t \notin Co!On(q) /\ r.pair # q
      BY <1>1, <1>5, <1>7, <2>3 DEF Co!On
    <3>2. Co!On(q)' = Co!On(q) /\ \A u \in Co!On(q) : inspection'[u] = inspection[u]
      BY <1>8, <3>1 DEF Co!On
    <3> QED
      BY <1>4, <1>9, <2>1, <2>2, <2>3, <3>2, AloneElsewhere
  <2>4. CASE q = p
    <3>1. Co!On(p)' \subseteq {t} /\ (r.pair = p => t \in Co!On(p)') /\ (r.at = "first" => r.score > reviewed)
      BY <1>4, <1>7, <1>8, <1>13, <1>14, <2>4 DEF Co!Suspends
    <3>2. \A i \in {1, 2} : Co!Suspends(score, reviewed) => t \in Co!On(p)' /\ Co!SuspendsLater(r.at, i)
      BY <1>7, <3>1 DEF Co!SuspendsLater
    <3>3. \A i \in {1, 2} : suspended'[p[i]] # None /\ suspended'[p[i]].pair = p => suspended'[p[i]].score > flag'[p].reviewed
      BY <1>4, <1>6, <1>9, <1>13, <1>14, <2>4
    <3> QED
      BY <1>6, <1>7, <1>8, <1>9, <2>4, <3>1, <3>2, <3>3, SoloAgain
  <2> QED
    BY <2>3, <2>4
<1> QED
  BY <1>8, <1>10, <1>11, <1>12, <1>14 DEF Co!CollusionInv

LEMMA SuspendingKeeps ==
  ASSUME Co!CollusionAssumption, Co!CollusionInv, NEW t \in Co!Tasks, Co!Suspend(t)
  PROVE  Co!CollusionInv'
<1>1. PICK p, score, n : p = inspection[t].pair /\ score = inspection[t].score /\ n = IF Co!At(t, "first") THEN 1 ELSE 2
  OBVIOUS
<1>2. PICK r : r = IF n = 1 THEN [inspection[t] EXCEPT !.at = "second"] ELSE Co!NextPair(t)
  OBVIOUS
<1>3. PICK new : new = [pair |-> p, score |-> score]
  OBVIOUS
<1>4. /\ inspection[t].at = IF n = 1 THEN "first" ELSE "second"
      /\ n \in {1, 2} /\ inspection' = [inspection EXCEPT ![t] = r] /\ suspended' = [suspended EXCEPT ![p[n]] = new]
      /\ UNCHANGED <<counters, linked, flag, observed, raced>>
  <2>1. CASE Co!At(t, "first")
    <3>1. n = 1 /\ inspection[t].at = "first"
      BY <1>1, <2>1 DEF Co!At
    <3> QED
      BY <1>1, <1>2, <1>3, <2>1, <3>1 DEF Co!Suspend
  <2>2. CASE ~Co!At(t, "first")
    <3>1. n = 2 /\ inspection[t].at = "second"
      BY <1>1, <2>2 DEF Co!Suspend, Co!At
    <3> QED
      BY <1>1, <1>2, <1>3, <2>2, <3>1 DEF Co!Suspend
  <2> QED
    BY <2>1, <2>2
<1>5. /\ Co!TasksOK /\ Co!Placed(t, inspection[t]) /\ t \notin Reviews /\ t \in Quorums /\ (\A q \in Pairs : q # None)
      /\ Co!StoredOK /\ Co!CountsHold /\ Co!SuspensionsStand /\ (\A q \in Pairs \ raced : Co!Alone(q)) /\ p \in Pairs
  BY <1>1, <1>4, TaskContext
<1>6. new \in Co!Suspensions /\ new # None /\ new.pair = p /\ new.score = score
  <2>1. score \in Int
    BY <1>1, <1>5, TaskFields, CollusionValues
  <2> QED
    BY <1>3, <1>5, <2>1 DEF Co!Suspensions, Co!CollusionAssumption
<1>7. /\ Co!Placed(t, r) /\ r.todo = inspection[t].todo
      /\ n = 1 => r.at = "second" /\ r.pair = p /\ r.score = score
      /\ n = 2 => r.at \in {"next", "done"} /\ r.pair = None
  <2>1. CASE n = 1
    <3>1. /\ r \in Co!TaskRecords /\ r.at = "second" /\ r.pair = p /\ r.score = score /\ r.todo = inspection[t].todo
          /\ r.delta = inspection[t].delta
      BY <1>1, <1>2, <1>5, <2>1 DEF Co!Placed, Co!TaskRecords, Co!Steps
    <3>2. Co!Placed(t, r)
      BY <1>1, <1>4, <1>5, <3>1 DEF Co!Placed, Co!Steps
    <3> QED
      BY <2>1, <3>1, <3>2
  <2>2. CASE n = 2
    BY <1>2, <1>4, <1>5, <2>2, NextIsPlaced
  <2> QED
    BY <1>4, <2>1, <2>2
<1>8. /\ Co!TasksOK' /\ inspection'[t] = r /\ \A u \in Co!Tasks : u # t => inspection'[u] = inspection[u]
      /\ \A q : Co!On(q)' = (Co!On(q) \ {t}) \cup (IF r.pair = q THEN {t} ELSE {})
  BY <1>4, <1>5, <1>7, TaskGoesOn
<1>9. \A q \in Pairs : q[1] \in Suspects /\ q[2] \in Suspects /\ q[1] # q[2] /\ \A i \in {1, 2} : q[i] \in Suspects
  BY PairMembers
<1>10. suspended'[p[n]] = new /\ \A w \in Suspects : w # p[n] => suspended'[w] = suspended[w]
  BY <1>4, <1>5, <1>9 DEF Co!StoredOK
<1>11. Co!StoredOK'
  BY <1>4, <1>5, <1>6, <1>9 DEF Co!StoredOK
<1>12. Co!CountsHold'
  <2>1. inspection[t].at # "count" /\ r.at # "count" /\ raced \subseteq raced'
        /\ (r.at \in {"score", "previous", "flag", "first", "second"} =>
              inspection[t].at \in {"score", "previous", "flag", "first", "second"} /\ r.pair = inspection[t].pair)
    BY <1>1, <1>4, <1>7
  <2> QED
    BY <1>4, <1>5, <1>7, <2>1, CountsStay
<1>13. flag[p] # Co!NoFlag /\ score >= SuspendScore
  BY <1>1, <1>4, <1>5 DEF Co!SuspensionsStand
<1>14. Co!SuspensionsStand'
  <2>1. \A w \in Suspects : suspended'[w] # None =>
          /\ w \in {suspended'[w].pair[1], suspended'[w].pair[2]}
          /\ flag'[suspended'[w].pair] # Co!NoFlag /\ suspended'[w].score >= SuspendScore
    <3> SUFFICES ASSUME NEW w \in Suspects, suspended'[w] # None
                 PROVE  /\ w \in {suspended'[w].pair[1], suspended'[w].pair[2]}
                        /\ flag'[suspended'[w].pair] # Co!NoFlag /\ suspended'[w].score >= SuspendScore
      OBVIOUS
    <3>1. CASE w = p[n]
      BY <1>4, <1>6, <1>10, <1>13, <3>1
    <3>2. CASE w # p[n]
      BY <1>4, <1>5, <1>10, <3>2 DEF Co!SuspensionsStand
    <3> QED
      BY <3>1, <3>2
  <2>2. \A u \in Co!Tasks : /\ inspection'[u].at \in {"first", "second"} => flag'[inspection'[u].pair] # Co!NoFlag /\ inspection'[u].score >= SuspendScore
                            /\ inspection'[u].at = "review" => inspection'[u].flag # Co!NoFlag
    BY <1>4, <1>5, <1>7, <1>8, <1>13 DEF Co!SuspensionsStand
  <2> QED
    BY <2>1, <2>2 DEF Co!SuspensionsStand, Co!NoFlag, Co!Tasks
<1>15. ASSUME NEW q \in Pairs, q \notin raced' PROVE Co!Alone(q)'
  <2>1. Co!Alone(q) /\ q # None
    BY <1>4, <1>5, <1>15
  <2>2. \A x, w : Co!Excused(x, w) => Co!Excused(x, w)'
    BY <1>4, ExcuseStays
  <2>3. CASE q # p
    <3>1. t \notin Co!On(q) /\ r.pair # q
      BY <1>1, <1>4, <1>7, <2>1, <2>3 DEF Co!On
    <3>2. Co!On(q)' = Co!On(q) /\ \A u \in Co!On(q) : inspection'[u] = inspection[u]
      BY <1>8, <3>1 DEF Co!On
    <3>3. \A i \in {1, 2} : \/ suspended'[q[i]] = suspended[q[i]]
                            \/ suspended'[q[i]] # None /\ suspended'[q[i]].pair # q
      BY <1>6, <1>9, <1>10, <2>3
    <3> QED
      BY <1>4, <2>1, <2>2, <3>2, <3>3, AloneElsewhere
  <2>4. CASE q = p
    <3>1. /\ Co!On(p) = {t}
          /\ \A i : (Co!Lifting(p, i) <=> Co!LiftsLater(inspection[t].at, i)) /\ (Co!Suspending(p, i) <=> Co!SuspendsLater(inspection[t].at, i))
      BY <1>1, <2>1, <2>4, Solo
    <3>2. /\ Co!On(p)' \subseteq {t} /\ (n = 1 => t \in Co!On(p)') /\ flag[p].score = score /\ score > flag[p].reviewed
      BY <1>1, <1>4, <1>7, <1>8, <2>1, <2>4, <3>1 DEF Co!Alone
    <3>3. \A i : ~Co!Lifting(p, i)
      BY <1>4, <3>1 DEF Co!LiftsLater
    <3>4. \A i \in {1, 2} : suspended'[p[i]] # None /\ suspended'[p[i]].pair = p => suspended'[p[i]].score > flag[p].reviewed
      BY <1>6, <1>9, <1>10, <2>1, <2>4, <3>2, <3>3 DEF Co!Alone
    <3>5. \A i \in {1, 2} : Co!Suspends(flag[p].score, flag[p].reviewed) =>
            suspended'[p[i]] # None \/ Co!Excused(p, p[i])' \/ (t \in Co!On(p)' /\ Co!SuspendsLater(r.at, i))
      <4>1. CASE n = 1
        BY <1>6, <1>7, <1>10, <3>2, <4>1 DEF Co!SuspendsLater
      <4>2. CASE n = 2
        <5>1. ~Co!Suspending(p, 1)
          BY <1>4, <3>1, <4>2 DEF Co!SuspendsLater
        <5>2. Co!Suspends(flag[p].score, flag[p].reviewed) => suspended[p[1]] # None \/ Co!Excused(p, p[1])
          BY <2>1, <2>4, <5>1 DEF Co!Alone
        <5>3. suspended'[p[2]] = new /\ suspended'[p[1]] = suspended[p[1]]
          BY <1>5, <1>9, <1>10, <4>2
        <5> QED
          BY <1>6, <2>2, <5>2, <5>3
      <4> QED
        BY <1>4, <4>1, <4>2
    <3> QED
      BY <1>4, <1>7, <1>8, <2>4, <3>2, <3>4, <3>5, SoloAgain
  <2> QED
    BY <2>3, <2>4
<1> QED
  BY <1>8, <1>11, <1>12, <1>14, <1>15 DEF Co!CollusionInv

LEMMA ClearingKeeps ==
  ASSUME Co!CollusionAssumption, Co!CollusionInv, NEW t \in Reviews, NEW p \in Pairs, Co!ClearPairFlag(t, p)
  PROVE  Co!CollusionInv'
<1>1. PICK r : r = [Co!Idle EXCEPT !.at = "review", !.pair = p, !.flag = flag[p]]
  OBVIOUS
<1>2. /\ inspection[t].at = "idle" /\ flag[p] # Co!NoFlag /\ inspection' = [inspection EXCEPT ![t] = r]
      /\ raced' = raced \cup (IF Co!On(p) = {} THEN {} ELSE {p}) /\ UNCHANGED <<counters, linked, flag, suspended, observed>>
  BY <1>1 DEF Co!ClearPairFlag, Co!At, Co!TakesUp
<1>3. t \in Co!Tasks
  BY DEF Co!Tasks
<1>4. /\ Co!TasksOK /\ Co!Placed(t, inspection[t]) /\ t \notin Quorums /\ p # None
      /\ Co!StoredOK /\ Co!CountsHold /\ Co!SuspensionsStand
  BY <1>3, TaskContext
<1>5. Co!Idle \in Co!TaskRecords /\ Co!Idle.todo = {} /\ flag[p] \in Co!Flags
  <2>1. Co!Idle = [Co!Idle EXCEPT !.at = "idle"]
    BY DEF Co!Idle
  <2> QED
    BY <1>4, <2>1, IdleIsPlaced DEF Co!Placed, Co!StoredOK
<1>6. r \in Co!TaskRecords /\ r.at = "review" /\ r.pair = p /\ r.todo = {} /\ r.flag = flag[p]
  BY <1>1, <1>5 DEF Co!TaskRecords, Co!ReviewSteps
<1>7. Co!Placed(t, r)
  BY <1>4, <1>6 DEF Co!Placed, Co!ReviewSteps
<1>8. inspection[t].pair = None /\ inspection[t].todo = {}
  BY <1>2, <1>4 DEF Co!Placed
<1>9. Co!TasksOK'
  BY <1>2, <1>3, <1>4, <1>7, TaskGoesOn
<1>10. Co!StoredOK'
  BY <1>2, <1>4 DEF Co!StoredOK
<1>11. Co!CountsHold'
  BY <1>2, <1>3, <1>4, <1>6, <1>7, <1>8, CountsStay
<1>12. Co!SuspensionsStand'
  BY <1>2, <1>3, <1>4, <1>6, <1>7, SuspensionsStay
<1>13. \A q \in Pairs \ raced' : Co!Alone(q)'
  BY <1>2, <1>3, <1>6, <1>7, <1>8, TakingUp
<1> QED
  BY <1>9, <1>10, <1>11, <1>12, <1>13 DEF Co!CollusionInv

LEMMA ReviewingKeeps ==
  ASSUME Co!CollusionAssumption, Co!CollusionInv, NEW t \in Co!Tasks, Co!WriteReview(t)
  PROVE  Co!CollusionInv'
<1>1. PICK p, old : p = inspection[t].pair /\ old = inspection[t].flag
  OBVIOUS
<1>2. PICK r, new : r = [inspection[t] EXCEPT !.at = "look1"] /\ new = [old EXCEPT !.reviewed = old.score]
  OBVIOUS
<1>3. /\ inspection[t].at = "review" /\ inspection' = [inspection EXCEPT ![t] = r] /\ flag' = [flag EXCEPT ![p] = new]
      /\ UNCHANGED <<counters, linked, suspended, observed, raced>>
  BY <1>1, <1>2 DEF Co!WriteReview, Co!At, Co!Go
<1>4. /\ Co!TasksOK /\ Co!Placed(t, inspection[t]) /\ t \in Reviews /\ t \notin Quorums /\ (\A q \in Pairs : q # None)
      /\ Co!StoredOK /\ Co!CountsHold /\ Co!SuspensionsStand /\ (\A q \in Pairs \ raced : Co!Alone(q)) /\ p \in Pairs
  BY <1>1, <1>3, TaskContext
<1>5. /\ new \in Co!Flags /\ new # Co!NoFlag /\ new.reviewed = new.score /\ new.reviewed >= 0 /\ new.score \in Int
  <2>1. old \in Co!Flags /\ old # Co!NoFlag
    BY <1>1, <1>3, <1>4, TaskFields DEF Co!SuspensionsStand
  <2>2. old.score \in Int /\ old.score >= 0
    BY <2>1, CollusionValues
  <2>3. new.score = old.score /\ new.reviewed = old.score /\ new \in [score : Co!Marks, reviewed : Co!Marks]
    BY <1>2, <2>1 DEF Co!Flags
  <2>4. new \in Co!Flags
    BY <2>2, <2>3 DEF Co!Flags
  <2> QED
    BY <2>2, <2>3, <2>4, CollusionValues
<1>6. r \in Co!TaskRecords /\ r.at = "look1" /\ r.pair = p /\ r.todo = inspection[t].todo /\ r.delta = inspection[t].delta
  BY <1>1, <1>2, <1>4 DEF Co!Placed, Co!TaskRecords, Co!ReviewSteps
<1>7. Co!Placed(t, r)
  BY <1>1, <1>3, <1>4, <1>6 DEF Co!Placed, Co!ReviewSteps
<1>8. /\ Co!TasksOK' /\ inspection'[t] = r /\ \A u \in Co!Tasks : u # t => inspection'[u] = inspection[u]
      /\ \A q : Co!On(q)' = (Co!On(q) \ {t}) \cup (IF r.pair = q THEN {t} ELSE {})
  BY <1>3, <1>4, <1>7, TaskGoesOn
<1>9. flag'[p] = new /\ \A q \in Pairs : q # p => flag'[q] = flag[q]
  BY <1>3, <1>4 DEF Co!StoredOK
<1>10. Co!StoredOK'
  BY <1>3, <1>4, <1>5 DEF Co!StoredOK
<1>11. Co!CountsHold'
  <2>1. inspection[t].at # "count" /\ r.at # "count" /\ raced \subseteq raced'
        /\ r.at \notin {"score", "previous", "flag", "first", "second"}
    BY <1>3, <1>6
  <2> QED
    BY <1>3, <1>4, <1>6, <1>7, <2>1, CountsStay
<1>12. Co!SuspensionsStand'
  <2>1. \A w \in Suspects : suspended[w] # None => suspended[w].pair \in Pairs
    BY <1>4 DEF Co!StoredOK, Co!Suspensions
  <2>2. \A q \in Pairs : flag[q] # Co!NoFlag => flag'[q] # Co!NoFlag
    BY <1>5, <1>9
  <2>3. \A u \in Co!Tasks : inspection[u].at \in {"first", "second"} => inspection[u].pair \in Pairs
    BY TaskContext
  <2>4. \A u \in Co!Tasks : /\ inspection'[u].at \in {"first", "second"} => flag'[inspection'[u].pair] # Co!NoFlag /\ inspection'[u].score >= SuspendScore
                            /\ inspection'[u].at = "review" => inspection'[u].flag # Co!NoFlag
    BY <1>4, <1>6, <1>8, <2>2, <2>3 DEF Co!SuspensionsStand
  <2>5. \A w \in Suspects : suspended'[w] # None =>
          /\ w \in {suspended'[w].pair[1], suspended'[w].pair[2]}
          /\ flag'[suspended'[w].pair] # Co!NoFlag /\ suspended'[w].score >= SuspendScore
    BY <1>3, <1>4, <2>1, <2>2 DEF Co!SuspensionsStand
  <2> QED
    BY <2>4, <2>5 DEF Co!SuspensionsStand, Co!NoFlag, Co!Tasks
<1>13. ASSUME NEW q \in Pairs, q \notin raced' PROVE Co!Alone(q)'
  <2>1. Co!Alone(q)
    BY <1>3, <1>4, <1>13
  <2>2. \A x, w : Co!Excused(x, w) => Co!Excused(x, w)'
    <3>1. raced \subseteq raced' /\ \A x \in Pairs : flag[x].reviewed >= 0 => x \in raced' \/ flag'[x].reviewed >= 0
      BY <1>3, <1>5, <1>9
    <3> QED
      BY <3>1, ExcuseStays
  <2>3. CASE q # p
    <3>1. t \notin Co!On(q) /\ r.pair # q
      BY <1>1, <1>6, <2>3 DEF Co!On
    <3>2. Co!On(q)' = Co!On(q) /\ \A u \in Co!On(q) : inspection'[u] = inspection[u]
      BY <1>8, <3>1 DEF Co!On
    <3> QED
      BY <1>3, <1>9, <2>1, <2>2, <2>3, <3>2, AloneElsewhere
  <2>4. CASE q = p
    <3>1. Co!On(p) = {t}
      BY <1>1, <1>4, <2>1, <2>4, Solo
    <3>2. Co!On(p)' \subseteq {t} /\ t \in Co!On(p)'
      BY <1>6, <1>8, <3>1
    <3>3. /\ ~Co!Suspends(flag'[p].score, flag'[p].reviewed)
          /\ \A i \in {1, 2} : Co!LiftsLater(r.at, i)
      BY <1>5, <1>6, <1>9 DEF Co!Suspends, Co!LiftsLater
    <3> QED
      BY <1>5, <1>6, <1>8, <1>9, <2>4, <3>2, <3>3, SoloAgain
  <2> QED
    BY <2>3, <2>4
<1> QED
  BY <1>8, <1>10, <1>11, <1>12, <1>13 DEF Co!CollusionInv

LEMMA LiftingKeeps ==
  ASSUME Co!CollusionAssumption, Co!CollusionInv, NEW t \in Co!Tasks, Co!Lift(t)
  PROVE  Co!CollusionInv'
<1>1. PICK p, r : p = inspection[t].pair /\ r = inspection'[t]
  OBVIOUS
<1>2. PICK n \in {1, 2} :
        /\ \/ /\ inspection[t].at = IF n = 1 THEN "look1" ELSE "look2"
              /\ \/ /\ suspended[p[n]] # None /\ suspended[p[n]].pair = p
                    /\ r = [inspection[t] EXCEPT !.at = IF n = 1 THEN "lift1" ELSE "lift2"]
                 \/ /\ suspended[p[n]] = None \/ suspended[p[n]].pair # p
                    /\ r = IF n = 1 THEN [inspection[t] EXCEPT !.at = "look2"] ELSE [Co!Idle EXCEPT !.at = "done"]
              /\ suspended' = suspended
           \/ /\ inspection[t].at = IF n = 1 THEN "lift1" ELSE "lift2"
              /\ r = IF n = 1 THEN [inspection[t] EXCEPT !.at = "look2"] ELSE [Co!Idle EXCEPT !.at = "done"]
              /\ suspended' = [suspended EXCEPT ![p[n]] = None]
        /\ inspection' = [inspection EXCEPT ![t] = r] /\ UNCHANGED <<counters, linked, flag, observed, raced>>
  BY <1>1 DEF Co!Lift, Co!At, Co!CollusionInv, Co!TasksOK
<1>3. inspection[t].at \in {"look1", "lift1", "look2", "lift2"}
  BY <1>2
<1>4. /\ Co!TasksOK /\ Co!Placed(t, inspection[t]) /\ t \in Reviews /\ t \notin Quorums /\ (\A q \in Pairs : q # None)
      /\ Co!StoredOK /\ Co!CountsHold /\ Co!SuspensionsStand /\ (\A q \in Pairs \ raced : Co!Alone(q)) /\ p \in Pairs
  BY <1>1, <1>3, TaskContext
<1>5. inspection[t].todo = {}
  BY <1>4 DEF Co!Placed
<1>6. /\ Co!Placed(t, r) /\ r.todo = inspection[t].todo
      /\ \/ r.at \in {"lift1", "lift2", "look2"} /\ r.pair = p /\ r = [inspection[t] EXCEPT !.at = r.at]
         \/ r.at = "done" /\ r.pair = None /\ n = 2
  <2>1. CASE r = [Co!Idle EXCEPT !.at = "done"] /\ n = 2
    BY <1>5, <2>1, IdleIsPlaced
  <2>2. ASSUME NEW step \in {"lift1", "lift2", "look2"}, r = [inspection[t] EXCEPT !.at = step]
        PROVE  Co!Placed(t, r) /\ r.todo = inspection[t].todo /\ r.at = step /\ r.pair = p
    <3>1. r \in Co!TaskRecords /\ r.at = step /\ r.pair = p /\ r.todo = inspection[t].todo /\ r.delta = inspection[t].delta
      BY <1>1, <1>4, <2>2 DEF Co!Placed, Co!TaskRecords, Co!ReviewSteps
    <3>2. Co!Placed(t, r)
      BY <1>1, <1>3, <1>4, <3>1 DEF Co!Placed, Co!ReviewSteps
    <3> QED
      BY <3>1, <3>2
  <2> QED
    BY <1>2, <2>1, <2>2
<1>7. /\ Co!TasksOK' /\ inspection'[t] = r /\ \A u \in Co!Tasks : u # t => inspection'[u] = inspection[u]
      /\ \A q : Co!On(q)' = (Co!On(q) \ {t}) \cup (IF r.pair = q THEN {t} ELSE {})
  BY <1>2, <1>4, <1>6, TaskGoesOn
<1>8. \A q \in Pairs : q[1] \in Suspects /\ q[2] \in Suspects /\ q[1] # q[2] /\ \A i \in {1, 2} : q[i] \in Suspects
  BY PairMembers
<1>9. \A w \in Suspects : suspended'[w] = suspended[w] \/ (suspended'[w] = None /\ w = p[n] /\ suspended' # suspended)
  BY <1>2, <1>4, <1>8 DEF Co!StoredOK
<1>10. Co!StoredOK'
  BY <1>2, <1>4 DEF Co!StoredOK
<1>11. Co!CountsHold'
  <2>1. inspection[t].at # "count" /\ r.at # "count" /\ raced \subseteq raced'
        /\ r.at \notin {"score", "previous", "flag", "first", "second"}
    BY <1>2, <1>3, <1>6
  <2> QED
    BY <1>2, <1>4, <1>6, <2>1, CountsStay
<1>12. Co!SuspensionsStand'
  <2>1. \A u \in Co!Tasks : /\ inspection'[u].at \in {"first", "second"} => flag'[inspection'[u].pair] # Co!NoFlag /\ inspection'[u].score >= SuspendScore
                            /\ inspection'[u].at = "review" => inspection'[u].flag # Co!NoFlag
    BY <1>2, <1>4, <1>6, <1>7 DEF Co!SuspensionsStand
  <2>2. \A w \in Suspects : suspended'[w] # None =>
          /\ w \in {suspended'[w].pair[1], suspended'[w].pair[2]}
          /\ flag'[suspended'[w].pair] # Co!NoFlag /\ suspended'[w].score >= SuspendScore
    BY <1>2, <1>4, <1>9 DEF Co!SuspensionsStand
  <2> QED
    BY <2>1, <2>2 DEF Co!SuspensionsStand, Co!NoFlag, Co!Tasks
<1>13. CASE suspended' = suspended
  <2>1. \A i \in {1, 2} : Co!LiftsLater(inspection[t].at, i) =>
           \/ Co!LiftsLater(r.at, i) \/ suspended[p[i]] = None \/ suspended[p[i]].pair # p
    <3>1. /\ \A step : [inspection[t] EXCEPT !.at = step].at = step
          /\ [Co!Idle EXCEPT !.at = "done"].at = "done"
      BY <1>4, IdleIsPlaced DEF Co!Placed, Co!TaskRecords
    <3>2. CASE inspection[t].at \in {"lift1", "lift2"}
      <4>1. suspended' = [suspended EXCEPT ![p[n]] = None] /\ p[n] \in Suspects
        BY <1>2, <1>4, <1>8, <3>2
      <4>2. suspended[p[n]] = None
        BY <1>4, <1>13, <4>1 DEF Co!StoredOK
      <4>3. CASE n = 1
        BY <1>2, <3>1, <3>2, <4>2, <4>3 DEF Co!LiftsLater
      <4>4. CASE n = 2
        BY <1>2, <3>1, <3>2, <4>2, <4>4 DEF Co!LiftsLater
      <4> QED
        BY <1>2, <4>3, <4>4
    <3>3. CASE inspection[t].at \in {"look1", "look2"}
      <4>1. CASE n = 1
        BY <1>2, <3>1, <3>3, <4>1 DEF Co!LiftsLater
      <4>2. CASE n = 2
        BY <1>2, <3>1, <3>3, <4>2 DEF Co!LiftsLater
      <4> QED
        BY <1>2, <4>1, <4>2
    <3> QED
      BY <1>3, <3>2, <3>3
  <2>2. \A q \in Pairs \ raced' : Co!Alone(q)'
    BY <1>1, <1>2, <1>3, <1>6, <1>13, <2>1, AloneStays
  <2> QED
    BY <1>7, <1>10, <1>11, <1>12, <2>2 DEF Co!CollusionInv
<1>14. CASE suspended' # suspended
  <2>1. /\ inspection[t].at = IF n = 1 THEN "lift1" ELSE "lift2"
        /\ r.at = IF n = 1 THEN "look2" ELSE "done"
        /\ suspended' = [suspended EXCEPT ![p[n]] = None]
    <3>1. \A step : [inspection[t] EXCEPT !.at = step].at = step
      BY <1>4 DEF Co!Placed, Co!TaskRecords
    <3>2. [Co!Idle EXCEPT !.at = "done"].at = "done"
      BY IdleIsPlaced
    <3> QED
      BY <1>2, <1>14, <3>1, <3>2
  <2>2. suspended'[p[n]] = None /\ \A w \in Suspects : w # p[n] => suspended'[w] = suspended[w]
    BY <1>4, <1>8, <2>1 DEF Co!StoredOK
  <2>3. \A x, w : Co!Excused(x, w) => Co!Excused(x, w)'
    BY <1>2, ExcuseStays
  <2>4. p \notin raced => /\ Co!On(p) = {t} /\ flag[p].reviewed = flag[p].score /\ flag[p].reviewed >= 0 /\ flag[p] # Co!NoFlag
                          /\ \A i : Co!Lifting(p, i) <=> Co!LiftsLater(inspection[t].at, i)
    <3> SUFFICES ASSUME p \notin raced, Co!Alone(p)
                 PROVE  /\ Co!On(p) = {t} /\ flag[p].reviewed = flag[p].score /\ flag[p].reviewed >= 0 /\ flag[p] # Co!NoFlag
                        /\ \A i : Co!Lifting(p, i) <=> Co!LiftsLater(inspection[t].at, i)
      BY <1>4
    <3>1. Co!On(p) = {t} /\ \A i : Co!Lifting(p, i) <=> Co!LiftsLater(inspection[t].at, i)
      BY <1>1, <1>4, Solo
    <3>2. flag[p].reviewed = flag[p].score /\ flag[p] # Co!NoFlag
      BY <1>3, <3>1 DEF Co!Alone
    <3>3. flag[p] \in Co!Flags
      BY <1>4 DEF Co!StoredOK
    <3> QED
      BY <3>1, <3>2, <3>3, CollusionValues
  <2>5. ASSUME NEW q \in Pairs, q \notin raced' PROVE Co!Alone(q)'
    <3>1. Co!Alone(q)
      BY <1>2, <1>4, <2>5
    <3>2. CASE q # p
      <4>1. t \notin Co!On(q) /\ r.pair # q
        BY <1>1, <1>4, <1>6, <3>2 DEF Co!On
      <4>2. Co!On(q)' = Co!On(q) /\ \A u \in Co!On(q) : inspection'[u] = inspection[u]
        BY <1>7, <4>1 DEF Co!On
      <4>3. \A i \in {1, 2} : q[i] = p[n] => Co!Excused(q, q[i])'
        BY <1>2, <1>4, <2>4, <3>2 DEF Co!Excused
      <4>4. \A i \in {1, 2} : suspended'[q[i]] = suspended[q[i]] \/ (suspended'[q[i]] = None /\ Co!Excused(q, q[i])')
        BY <1>8, <2>2, <4>3
      <4> QED
        BY <1>2, <2>3, <3>1, <4>2, <4>4, AloneElsewhere
    <3>3. CASE q = p
      <4>1. Co!On(p)' \subseteq {t} /\ (n = 1 => t \in Co!On(p)')
        BY <1>2, <1>4, <1>6, <1>7, <2>1, <2>4, <2>5, <3>3
      <4>2. ~Co!Suspends(flag'[p].score, flag'[p].reviewed)
        <5>1. flag[p].score \in Int
          BY <1>4, CollusionValues DEF Co!StoredOK
        <5> QED
          BY <1>2, <2>4, <2>5, <3>3, <5>1 DEF Co!Suspends
      <4>3. \A i \in {1, 2} : suspended'[p[i]] # None /\ suspended'[p[i]].pair = p =>
              suspended'[p[i]].score > flag'[p].reviewed \/ (t \in Co!On(p)' /\ Co!LiftsLater(r.at, i))
        <5>1. CASE n = 1
          <6>1. Co!LiftsLater(r.at, 2) /\ t \in Co!On(p)' /\ suspended'[p[1]] = None
            BY <2>1, <2>2, <4>1, <5>1 DEF Co!LiftsLater
          <6> QED
            BY <6>1
        <5>2. CASE n = 2
          <6>1. ~Co!Lifting(p, 1) /\ suspended'[p[2]] = None /\ suspended'[p[1]] = suspended[p[1]]
            BY <1>2, <1>4, <1>8, <2>1, <2>2, <2>4, <2>5, <3>3, <5>2 DEF Co!LiftsLater
          <6>2. suspended[p[1]] # None /\ suspended[p[1]].pair = p => suspended[p[1]].score > flag[p].reviewed
            BY <3>1, <3>3, <6>1 DEF Co!Alone
          <6> QED
            BY <1>2, <6>1, <6>2
        <5> QED
          BY <1>2, <5>1, <5>2
      <4> QED
        BY <1>2, <1>6, <1>7, <2>1, <2>4, <2>5, <3>3, <4>1, <4>2, <4>3, SoloAgain
    <3> QED
      BY <3>2, <3>3
  <2> QED
    BY <1>7, <1>10, <1>11, <1>12, <2>5 DEF Co!CollusionInv
<1> QED
  BY <1>13, <1>14

LEMMA GivingUpKeeps ==
  ASSUME Co!CollusionAssumption, Co!CollusionInv, NEW t \in Co!Tasks, Co!GiveUp(t)
  PROVE  Co!CollusionInv'
<1>1. PICK r : r = [Co!Idle EXCEPT !.at = "done"]
  OBVIOUS
<1>2. /\ t \in Quorums /\ inspection' = [inspection EXCEPT ![t] = r]
      /\ raced' = raced \cup inspection[t].todo \cup ({inspection[t].pair} \ {None})
      /\ UNCHANGED <<counters, linked, flag, suspended, observed>>
  BY <1>1 DEF Co!GiveUp
<1>3. /\ Co!TasksOK /\ Co!Placed(t, inspection[t]) /\ Quorums \subseteq Co!Tasks /\ (\A q \in Pairs : q # None)
      /\ Co!StoredOK /\ Co!CountsHold /\ Co!SuspensionsStand /\ (\A q \in Pairs \ raced : Co!Alone(q))
  BY TaskContext
<1>4. Co!Placed(t, r) /\ r.at = "done" /\ r.pair = None /\ r.todo = {}
  BY <1>1, IdleIsPlaced
<1>5. /\ Co!TasksOK' /\ inspection'[t] = r /\ \A u \in Co!Tasks : u # t => inspection'[u] = inspection[u]
      /\ \A q : Co!On(q)' = (Co!On(q) \ {t}) \cup (IF r.pair = q THEN {t} ELSE {})
  BY <1>2, <1>3, <1>4, TaskGoesOn
<1>6. inspection[t].todo \subseteq Pairs /\ inspection[t].pair \in Pairs \cup {None}
  BY <1>3, TaskFields
<1>7. Co!StoredOK'
  BY <1>2, <1>3, <1>6 DEF Co!StoredOK
<1>8. Co!SuspensionsStand'
  BY <1>2, <1>3, <1>4, SuspensionsStay
<1>9. \A q \in Pairs : /\ Co!Uncounted(q) \in Nat /\ Co!Uncounted(q)' \in Nat /\ Co!Uncounted(q)' <= Co!Uncounted(q)
                       /\ q \notin raced' => Co!Uncounted(q)' = Co!Uncounted(q)
  <2>1. \A q \in Pairs : /\ Co!Waiting(q) \in SUBSET Quorums /\ Co!Waiting(q)' = Co!Waiting(q) \ {t}
                         /\ q \notin raced' => t \notin Co!Waiting(q)
    BY <1>2, <1>3, <1>4, <1>5 DEF Co!Waiting
  <2>2. \A q \in Pairs : Co!Waiting(q)' \in SUBSET Co!Waiting(q) /\ (q \notin raced' => Co!Waiting(q)' = Co!Waiting(q))
    BY <2>1
  <2>3. ASSUME NEW q \in Pairs PROVE /\ Co!Uncounted(q) \in Nat /\ Co!Uncounted(q)' \in Nat /\ Co!Uncounted(q)' <= Co!Uncounted(q)
                                     /\ q \notin raced' => Co!Uncounted(q)' = Co!Uncounted(q)
    <3>1. PICK S \in SUBSET Quorums : S = Co!Waiting(q)
      BY <2>1
    <3>2. PICK R \in SUBSET S : R = Co!Waiting(q)'
      BY <2>2, <3>1
    <3>3. Co!Cardinality(S) \in Nat /\ Co!Cardinality(R) \in Nat /\ Co!Cardinality(R) <= Co!Cardinality(S)
      BY WaitingCounts
    <3> QED
      BY <2>2, <3>1, <3>2, <3>3 DEF Co!Uncounted
  <2> QED
    BY <2>3
<1>10. raced \subseteq raced'
  BY <1>2
<1>11. Co!CountsHold'
  <2>1. \A q \in Pairs : counters[q].shared \in Nat /\ observed[q] \in Nat
    BY <1>3, CollusionValues DEF Co!StoredOK
  <2>2. ASSUME NEW q \in Pairs, NEW u \in Quorums, inspection'[u].pair = q
        PROVE  /\ inspection'[u].at = "count" => inspection'[u].counters.shared + Co!Uncounted(q)' <= observed'[q]
               /\ inspection'[u].at = "count" /\ q \notin raced' => inspection'[u].counters = counters'[q]
               /\ inspection'[u].at \in {"score", "previous", "flag", "first", "second"} => counters'[q].shared > 0
    <3>1. u # t /\ inspection'[u] = inspection[u]
      BY <1>3, <1>4, <1>5, <2>2
    <3>2. inspection[u].counters.shared \in Nat
      <4>1. Co!Placed(u, inspection[u])
        BY <1>3 DEF Co!TasksOK
      <4> QED
        BY <4>1, TaskFields, CollusionValues
    <3>3. /\ inspection[u].at = "count" => inspection[u].counters.shared + Co!Uncounted(q) <= observed[q]
          /\ inspection[u].at = "count" /\ q \notin raced => inspection[u].counters = counters[q]
          /\ inspection[u].at \in {"score", "previous", "flag", "first", "second"} => counters[q].shared > 0
      BY <1>3, <2>2, <3>1 DEF Co!CountsHold
    <3> QED
      BY <1>2, <1>9, <1>10, <2>1, <3>1, <3>2, <3>3
  <2>3. \A q \in Pairs : /\ counters'[q].shared + Co!Uncounted(q)' <= observed'[q]
                         /\ q \notin raced' => counters'[q].shared + Co!Uncounted(q)' = observed'[q]
    BY <1>2, <1>3, <1>9, <1>10, <2>1 DEF Co!CountsHold
  <2> QED
    BY <2>2, <2>3 DEF Co!CountsHold
<1>12. ASSUME NEW q \in Pairs, q \notin raced' PROVE Co!Alone(q)'
  <2>1. Co!Alone(q) /\ inspection[t].pair # q
    BY <1>2, <1>3, <1>12
  <2>2. \A x, w : Co!Excused(x, w) => Co!Excused(x, w)'
    BY <1>2, <1>10, ExcuseStays
  <2>3. Co!On(q)' = Co!On(q) /\ \A u \in Co!On(q) : inspection'[u] = inspection[u]
    BY <1>3, <1>4, <1>5, <2>1 DEF Co!On
  <2> QED
    BY <1>2, <2>1, <2>2, <2>3, AloneElsewhere
<1> QED
  BY <1>5, <1>7, <1>8, <1>11, <1>12 DEF Co!CollusionInv

LEMMA CollusionStep == Co!CollusionAssumption /\ Co!CollusionInv /\ [Co!Next]_(Co!vars) => Co!CollusionInv'
<1> SUFFICES ASSUME Co!CollusionAssumption, Co!CollusionInv, [Co!Next]_(Co!vars) PROVE Co!CollusionInv'
  OBVIOUS
<1>1. CASE UNCHANGED Co!vars
  BY <1>1, LinkingKeeps DEF Co!vars, Co!CollusionInv, Co!StoredOK
<1>2. ASSUME NEW p \in Referring, Co!RecordReferralLink(p) PROVE Co!CollusionInv'
  <2>1. p \in Pairs /\ linked \subseteq Pairs
    BY <1>2 DEF Co!CollusionAssumption, Co!CollusionInv, Co!StoredOK
  <2> QED
    BY <1>2, <2>1, LinkingKeeps DEF Co!RecordReferralLink
<1>3. ASSUME NEW p \in Pairs, NEW t \in Quorums, Co!ReadCounters(t, p) PROVE Co!CollusionInv'
  BY <1>3, ReadingKeeps
<1>4. ASSUME NEW t \in Reviews, NEW p \in Pairs, Co!ClearPairFlag(t, p) PROVE Co!CollusionInv'
  BY <1>4, ClearingKeeps
<1>5. ASSUME NEW t \in Quorums, NEW round, Co!RecordQuorumObservation(t, round) PROVE Co!CollusionInv'
  BY <1>5, ObservingKeeps
<1>6. ASSUME NEW t \in Co!Tasks, \/ Co!WriteCounters(t) \/ Co!EvaluatePair(t) \/ Co!ReadFlag(t) \/ Co!WriteFlag(t)
                                 \/ Co!Suspend(t) \/ Co!WriteReview(t) \/ Co!Lift(t) \/ Co!GiveUp(t)
      PROVE  Co!CollusionInv'
  BY <1>6, CountingKeeps, EvaluatingKeeps, FlaggingKeeps, SuspendingKeeps, ReviewingKeeps, LiftingKeeps, GivingUpKeeps
<1> QED
  BY <1>1, <1>2, <1>3, <1>4, <1>5, <1>6 DEF Co!Next

LEMMA ReviewsAreKept ==
  ASSUME Co!CollusionAssumption, Co!CollusionInv
  PROVE  Co!ReviewStands
<1>1. Co!StoredOK /\ Co!CountsHold /\ Co!SuspensionsStand
  BY DEF Co!CollusionInv
<1>2. \A p \in Pairs : Co!Uncounted(p) \in Nat /\ counters[p].shared \in Nat /\ observed[p] \in Nat
  <2>1. \A p \in Pairs : Co!Waiting(p) \in SUBSET Quorums
    BY DEF Co!Waiting
  <2> QED
    BY <1>1, <2>1, WaitingCounts, CollusionValues DEF Co!Uncounted, Co!StoredOK
<1>3. \A p \in Pairs : counters[p].shared <= observed[p]
  BY <1>1, <1>2 DEF Co!CountsHold
<1>4. ASSUME NEW p \in Pairs \ raced, Co!On(p) = {}
      PROVE  /\ (\A t \in Quorums : p \notin inspection[t].todo) => counters[p].shared = observed[p]
             /\ \A i \in {1, 2} : LET s == suspended[p[i]] IN
                  /\ s # None /\ s.pair = p => s.score > flag[p].reviewed
                  /\ Co!Suspends(flag[p].score, flag[p].reviewed) =>
                       s # None \/ \E q \in Pairs \ {p} : p[i] \in {q[1], q[2]} /\ (q \in raced \/ flag[q].reviewed >= 0)
  <2>1. ASSUME \A t \in Quorums : p \notin inspection[t].todo PROVE counters[p].shared = observed[p]
    <3>1. Co!Waiting(p) = {}
      BY <1>4, <2>1 DEF Co!Waiting, Co!On, Co!Tasks
    <3>2. Co!Uncounted(p) = 0
      BY <3>1, CollusionCardinality, FS_EmptySet DEF Co!Uncounted
    <3> QED
      BY <1>1, <1>2, <3>2 DEF Co!CountsHold
  <2>2. Co!Alone(p) /\ \A i : ~Co!Lifting(p, i) /\ ~Co!Suspending(p, i)
    BY <1>4 DEF Co!CollusionInv, Co!Lifting, Co!Suspending
  <2> QED
    BY <2>1, <2>2 DEF Co!Alone, Co!Excused
<1> QED
  BY <1>1, <1>3, <1>4 DEF Co!ReviewStands, Co!SuspensionsStand

\* Whatever observations and reviews overlap, and whichever observation is given up: a
\* suspension is for a flagged pair and a score that justified it; nobody is suspended for
\* a score an operator accepted, no quorum is lost or counted twice, and a pair that is bad
\* enough is suspended, unless two worked on the pair at once (recordQuorumObservation()
\* and clearPairFlag() of collusion.js).
THEOREM ReviewsStand == ASSUME Co!CollusionAssumption PROVE Co!Spec => []Co!ReviewStands
<1>1. Co!Init => Co!CollusionInv
  BY CollusionInit
<1>2. Co!CollusionInv /\ [Co!Next]_(Co!vars) => Co!CollusionInv'
  BY CollusionStep
<1>3. Co!CollusionInv => Co!ReviewStands
  BY ReviewsAreKept
<1> QED
  BY <1>1, <1>2, <1>3, PTL DEF Co!Spec

-----------------------------------------------------------------------------
(* What operators are shown *)

LEMMA ProbesCardinality == \A S : Pb!Cardinality(S) = Cardinality(S) /\ (Pb!IsFiniteSet(S) <=> IsFiniteSet(S))
BY DEF Pb!Cardinality, Cardinality, Pb!IsFiniteSet, IsFiniteSet

\* A scan that knows of no job yet.
LEMMA NoScanHolds == Pb!ScanHolds(Pb!NoScan)
BY ProbesCardinality, FS_EmptySet DEF Pb!ScanHolds, Pb!NoScan

LEMMA IndexedInit == ASSUME Pb!ProbesAssumption, Pb!Init PROVE Pb!JobsHold
BY NoScanHolds DEF Pb!Init, Pb!JobsHold, Pb!Known, Pb!ScanCounts

\* The fields of a record.
LEMMA RecordFields ==
  ASSUME Pb!ProbesAssumption, entry \in [Indexed -> Pb!Records \cup {None}], NEW j \in Indexed
  PROVE  entry[j] = None \/ (/\ entry[j] # None /\ entry[j] \in Pb!Records /\ entry[j].createdAt \in Nat
                             /\ entry[j].status \in {"awaiting_workers", "reconciling", "settled", "gone"})
BY DEF Pb!Records

LEMMA CreatingKeeps ==
  ASSUME Pb!ProbesAssumption, Pb!JobsHold, NEW j \in Indexed, Pb!CreateJob(j)
  PROVE  Pb!JobsHold'
<1> DEFINE new == [status |-> "awaiting_workers", createdAt |-> Pb!Cardinality({k \in Indexed : entry[k] # None})]
<1>1. new \in Pb!Records /\ new # None
  <2>1. {k \in Indexed : entry[k] # None} \in SUBSET Indexed
    OBVIOUS
  <2>2. IsFiniteSet(Indexed)
    BY ProbesCardinality DEF Pb!ProbesAssumption
  <2>3. IsFiniteSet({k \in Indexed : entry[k] # None})
    BY <2>1, <2>2, FS_Subset
  <2>4. Pb!Cardinality({k \in Indexed : entry[k] # None}) \in Nat
    BY <2>3, ProbesCardinality, FS_CardinalityType
  <2> QED
    BY <2>4 DEF Pb!Records, Pb!ProbesAssumption
<1>2. entry[j] = None /\ entry' = [entry EXCEPT ![j] = new] /\ UNCHANGED <<scan, gauge>>
  BY DEF Pb!CreateJob
<1> HIDE DEF new
<1>3. entry' \in [Indexed -> Pb!Records \cup {None}] /\ \A k \in Indexed : entry[k] # None => entry'[k] = entry[k]
  BY <1>1, <1>2 DEF Pb!JobsHold
<1>4. newest' \in Seq(Indexed) /\ \A n \in DOMAIN newest' : newest'[n] = j \/ \E m \in DOMAIN newest : newest'[n] = newest[m]
  <2>1. newest \in Seq(Indexed) /\ <<j>> \o newest \in Seq(Indexed)
    BY DEF Pb!JobsHold
  <2>2. PICK n \in Nat : n <= Len(<<j>> \o newest) /\ newest' = SubSeq(<<j>> \o newest, 1, n)
    BY <2>1 DEF Pb!CreateJob, Pb!ProbesAssumption
  <2> QED
    BY <2>1, <2>2
<1>5. \A k \in Pb!Known' : entry'[k] # None
  BY <1>1, <1>2, <1>3, <1>4 DEF Pb!JobsHold, Pb!Known
<1>6. ASSUME NEW s \in Readings PROVE Pb!ScanHolds(scan[s])'
  <2>1. Pb!ScanHolds(scan[s]) /\ scan'[s] = scan[s]
    BY <1>2 DEF Pb!JobsHold
  <2>2. \A f \in scan[s].found : f.id \in Indexed
    BY <2>1 DEF Pb!ScanHolds
  <2> QED
    BY <2>1, <2>2, <1>3 DEF Pb!ScanHolds, Pb!FoundHolds, Pb!InFlight
<1>7. (gauge # None => gauge.throughout \subseteq {k \in Indexed : entry[k] # None})' /\ Pb!ScanCounts'
  <2>1. gauge' = gauge /\ (gauge # None => gauge.throughout \subseteq {k \in Indexed : entry[k] # None}) /\ Pb!ScanCounts
    BY <1>2 DEF Pb!JobsHold
  <2> QED
    BY <2>1, <1>3 DEF Pb!ScanCounts, Pb!Shown
<1>8. DOMAIN scan' = Readings
  BY <1>2 DEF Pb!JobsHold
<1> QED
  BY <1>3, <1>4, <1>5, <1>6, <1>7, <1>8 DEF Pb!JobsHold

\* A job goes on; a scan stops owing it the count once it is not in flight.
LEMMA UpdatingKeeps ==
  ASSUME Pb!ProbesAssumption, Pb!JobsHold, NEW j \in Indexed, NEW status \in {"reconciling", "settled", "gone"}, Pb!UpdateJob(j, status)
  PROVE  Pb!JobsHold'
<1>1. /\ entry \in [Indexed -> Pb!Records \cup {None}] /\ newest \in Seq(Indexed) /\ \A k \in Pb!Known : entry[k] # None
      /\ entry[j] # None /\ newest' = newest /\ gauge' = gauge /\ entry[j].status \notin {status, "gone"}
      /\ entry[j].status = "settled" => status = "gone"
  BY DEF Pb!UpdateJob, Pb!JobsHold
<1>2. entry[j] \in Pb!Records
  BY <1>1
<1>3. entry' = [entry EXCEPT ![j] = [status |-> status, createdAt |-> entry[j].createdAt]]
  <2>1. entry' = [entry EXCEPT ![j] = [entry[j] EXCEPT !.status = status]]
    BY DEF Pb!UpdateJob
  <2>2. [entry[j] EXCEPT !.status = status] = [status |-> status, createdAt |-> entry[j].createdAt]
    BY <1>2 DEF Pb!Records
  <2> QED
    BY <2>1, <2>2
<1>4. [status |-> status, createdAt |-> entry[j].createdAt] \in Pb!Records
  BY <1>2 DEF Pb!Records
<1>5. entry' \in [Indexed -> Pb!Records \cup {None}] /\ \A k \in Indexed : k # j => entry'[k] = entry[k]
  BY <1>1, <1>3, <1>4
<1>6. entry'[j] # None /\ entry'[j].createdAt = entry[j].createdAt /\ entry'[j].status = status
  BY <1>1, <1>3, <1>4 DEF Pb!ProbesAssumption
<1>7. \A k \in Indexed : entry[k] # None => entry'[k] # None /\ entry'[k].createdAt = entry[k].createdAt
  BY <1>5, <1>6
<1>8. Pb!InFlight(j)' => Pb!InFlight(j) /\ status = "reconciling"
  BY <1>1, <1>2, <1>6 DEF Pb!InFlight, Pb!Records
<1>9. ASSUME NEW s \in Readings PROVE Pb!ScanHolds(scan[s])'
  <2>10. PICK before : before = scan[s]
    OBVIOUS
  <2>11. PICK after : after = scan'[s]
    OBVIOUS
  <2>1. Pb!ScanHolds(before)
    BY <2>10 DEF Pb!JobsHold
  <2>2. /\ after.at = before.at /\ after.todo = before.todo /\ after.before = before.before /\ after.found = before.found
        /\ after.throughout \subseteq before.throughout /\ (status # "reconciling" => j \notin after.throughout)
        /\ after = [at |-> after.at, todo |-> after.todo, before |-> after.before, throughout |-> after.throughout, found |-> after.found]
    <3>1. before = [at |-> before.at, todo |-> before.todo, before |-> before.before, throughout |-> before.throughout,
                    found |-> before.found]
      BY <2>1 DEF Pb!ScanHolds
    <3>2. CASE status = "reconciling"
      BY <3>1, <3>2, <2>10, <2>11 DEF Pb!UpdateJob
    <3>3. CASE status # "reconciling"
      <4>1. after = [before EXCEPT !.throughout = @ \ {j}]
        BY <3>3, <2>10, <2>11 DEF Pb!UpdateJob
      <4>2. after = [at |-> before.at, todo |-> before.todo, before |-> before.before,
                     throughout |-> before.throughout \ {j}, found |-> before.found]
        BY <3>1, <4>1
      <4> QED
        BY <4>2
    <3> QED
      BY <3>2, <3>3
  <2>3. \A f \in before.found : f.id \in Indexed
    BY <2>1 DEF Pb!ScanHolds
  <2>4. \A k \in before.todo : k \in Indexed /\ entry'[k] # None /\ (Pb!InFlight(k)' => k \in before.before)
    BY <2>1, <1>5, <1>6, <1>8 DEF Pb!ScanHolds, Pb!InFlight
  <2>5. \A k \in after.throughout : Pb!InFlight(k)'
    <3> SUFFICES ASSUME NEW k \in after.throughout PROVE Pb!InFlight(k)'
      OBVIOUS
    <3>1. k \in Indexed /\ Pb!InFlight(k)
      BY <2>1, <2>2 DEF Pb!ScanHolds
    <3> QED
      BY <3>1, <2>2, <1>5, <1>6 DEF Pb!InFlight
  <2>6. \A f \in after.found : Pb!FoundHolds(after, f)'
    BY <2>1, <2>2, <2>3, <1>7 DEF Pb!ScanHolds, Pb!FoundHolds
  <2>7. Pb!ScanHolds(after)'
    BY <2>1, <2>2, <2>4, <2>5, <2>6 DEF Pb!ScanHolds
  <2> QED
    BY <2>7, <2>11
<1>10. (gauge # None => gauge.throughout \subseteq {k \in Indexed : entry[k] # None})' /\ Pb!ScanCounts'
  <2>1. gauge' = gauge /\ (gauge # None => gauge.throughout \subseteq {k \in Indexed : entry[k] # None}) /\ Pb!ScanCounts
    BY <1>1 DEF Pb!JobsHold
  <2> QED
    BY <2>1, <1>7 DEF Pb!ScanCounts, Pb!Shown
<1>11. \A k \in Pb!Known' : entry'[k] # None
  BY <1>1, <1>7 DEF Pb!Known
<1>12. DOMAIN scan' = Readings
  BY DEF Pb!UpdateJob, Pb!JobsHold
<1> QED
  BY <1>1, <1>5, <1>9, <1>10, <1>11, <1>12 DEF Pb!JobsHold

\* A scan that begins, goes on or ends changes nothing but itself.
LEMMA ScanningKeeps ==
  ASSUME Pb!JobsHold, NEW s \in Readings, NEW sc, Pb!ScanHolds(sc), scan' = [scan EXCEPT ![s] = sc],
         UNCHANGED <<entry, newest, gauge>>
  PROVE  Pb!JobsHold'
<1>1. \A r \in Readings : Pb!ScanHolds(scan[r])
  BY DEF Pb!JobsHold
<1>2. \A r \in Readings : scan'[r] \in {sc, scan[r]}
  BY DEF Pb!JobsHold
<1>3. \A r \in Readings : Pb!ScanHolds(scan[r])'
  BY <1>1, <1>2 DEF Pb!ScanHolds, Pb!FoundHolds, Pb!InFlight
<1> QED
  BY <1>3 DEF Pb!JobsHold, Pb!Known, Pb!ScanCounts, Pb!Shown

\* What a scan starts from.
LEMMA Begun ==
  ASSUME NEW k, NEW f
  PROVE  [Pb!NoScan EXCEPT !.at = "reading", !.todo = k, !.before = f, !.throughout = f]
           = [at |-> "reading", todo |-> k, found |-> {}, before |-> f, throughout |-> f]
<1>1. PICK p : p = [Pb!NoScan EXCEPT !.at = "reading"]
  OBVIOUS
<1>2. p = [at |-> "reading", todo |-> {}, found |-> {}, before |-> {}, throughout |-> {}]
  BY <1>1 DEF Pb!NoScan
<1>3. PICK q : q = [p EXCEPT !.todo = k]
  OBVIOUS
<1>4. q = [at |-> "reading", todo |-> k, found |-> {}, before |-> {}, throughout |-> {}]
  BY <1>2, <1>3
<1>5. PICK r : r = [q EXCEPT !.before = f]
  OBVIOUS
<1>6. r = [at |-> "reading", todo |-> k, found |-> {}, before |-> f, throughout |-> {}]
  BY <1>4, <1>5
<1>7. [r EXCEPT !.throughout = f] = [at |-> "reading", todo |-> k, found |-> {}, before |-> f, throughout |-> f]
  BY <1>6
<1> QED
  BY <1>1, <1>3, <1>5, <1>7, Zenon

LEMMA BeginningKeeps ==
  ASSUME Pb!JobsHold, NEW s \in Readings, Pb!ReadIndex(s)
  PROVE  Pb!JobsHold'
<1> DEFINE flying == {j \in Pb!Known : Pb!InFlight(j)}
           sc == [at |-> "reading", todo |-> Pb!Known, found |-> {}, before |-> flying, throughout |-> flying]
<1>1. scan' = [scan EXCEPT ![s] = sc] /\ UNCHANGED <<entry, newest, gauge>>
  <2>1. /\ scan' = [scan EXCEPT ![s] = [Pb!NoScan EXCEPT !.at = "reading", !.todo = Pb!Known, !.before = flying, !.throughout = flying]]
        /\ UNCHANGED <<entry, newest, gauge>>
    BY Zenon DEF Pb!ReadIndex, Pb!Known
  <2>2. [Pb!NoScan EXCEPT !.at = "reading", !.todo = Pb!Known, !.before = flying, !.throughout = flying] = sc
    BY Begun
  <2> QED
    BY <2>1, <2>2
<1>2. Pb!Known \subseteq Indexed /\ \A j \in Pb!Known : entry[j] # None
  BY DEF Pb!JobsHold, Pb!Known
<1>3. Pb!IsFiniteSet({})
  BY ProbesCardinality, FS_EmptySet
<1>4. Pb!ScanHolds(sc)
  BY <1>2, <1>3 DEF Pb!ScanHolds
<1> HIDE DEF sc
<1> QED
  BY <1>1, <1>4, ScanningKeeps

LEMMA ReadingJobKeeps ==
  ASSUME Pb!JobsHold, NEW s \in Readings, NEW j \in Indexed, Pb!ReadJob(s, j)
  PROVE  Pb!JobsHold'
<1> DEFINE old == scan[s]
           new == [id |-> j, job |-> entry[j]]
           left == old.todo \ {j}
           read == old.found \cup {new}
           sc == [old EXCEPT !.todo = left, !.found = read]
<1>1. Pb!ScanHolds(old) /\ entry \in [Indexed -> Pb!Records \cup {None}]
  BY DEF Pb!JobsHold
<1>2. scan' = [scan EXCEPT ![s] = sc] /\ j \in old.todo /\ UNCHANGED <<entry, newest, gauge>>
  BY DEF Pb!ReadJob
<1>3. /\ sc.todo = old.todo \ {j} /\ sc.found = old.found \cup {new} /\ sc.before = old.before
      /\ sc.throughout = old.throughout
  BY DEF Pb!ReadJob
<1>4. new.id = j /\ new.job = entry[j]
  OBVIOUS
<1>5. entry[j] \in Pb!Records /\ (Pb!InFlight(j) => j \in old.before) /\ (j \in old.throughout => Pb!InFlight(j))
  BY <1>1, <1>2 DEF Pb!ScanHolds
<1>6. new \in [id : Indexed, job : Pb!Records]
  BY <1>5
<1> HIDE DEF new, sc, old
<1>7. IsFiniteSet(sc.found)
  BY <1>1, <1>3, ProbesCardinality, FS_AddElement DEF Pb!ScanHolds
<1>8. Pb!FoundHolds(sc, new)
  BY <1>1, <1>2, <1>3, <1>4, <1>5 DEF Pb!FoundHolds, Pb!Flies, Pb!InFlight, Pb!ScanHolds
<1>9. \A f \in old.found : Pb!FoundHolds(sc, f) /\ f.id # j
  BY <1>1, <1>2, <1>3 DEF Pb!FoundHolds, Pb!ScanHolds
<1>10. sc = [at |-> "reading", todo |-> sc.todo, before |-> sc.before, throughout |-> sc.throughout, found |-> sc.found]
  <2>1. old.at = "reading"
    BY DEF Pb!ReadJob, old
  <2>2. old = [at |-> old.at, todo |-> old.todo, before |-> old.before, throughout |-> old.throughout, found |-> old.found]
    BY <1>1 DEF Pb!ScanHolds
  <2>3. old = [at |-> "reading", todo |-> old.todo, before |-> old.before, throughout |-> old.throughout, found |-> old.found]
    BY <2>1, <2>2, Zenon
  <2> HIDE DEF left, read
  <2>4. sc = [at |-> "reading", todo |-> left, before |-> old.before, throughout |-> old.throughout, found |-> read]
    <3>1. PICK p : p = [old EXCEPT !.todo = left]
      OBVIOUS
    <3>2. p = [at |-> "reading", todo |-> left, before |-> old.before, throughout |-> old.throughout, found |-> old.found]
      BY <2>3, <3>1
    <3>3. [p EXCEPT !.found = read]
            = [at |-> "reading", todo |-> left, before |-> old.before, throughout |-> old.throughout, found |-> read]
      BY <3>2
    <3> QED
      BY <3>1, <3>3, Zenon DEF sc
  <2> QED
    BY <2>4
<1>11. /\ sc.found \subseteq [id : Indexed, job : Pb!Records] /\ sc.todo \subseteq Indexed /\ sc.before \subseteq Indexed
       /\ sc.throughout \subseteq sc.before
  BY <1>1, <1>3, <1>6 DEF Pb!ScanHolds
<1>12. \A f, g \in sc.found : f.id = g.id => f = g
  BY <1>1, <1>3, <1>4, <1>9 DEF Pb!ScanHolds
<1>13. \A k \in sc.throughout : Pb!InFlight(k) /\ (k \in sc.todo \/ \E f \in sc.found : f.id = k)
  BY <1>1, <1>3, <1>4 DEF Pb!ScanHolds
<1>14. \A k \in sc.todo : entry[k] # None /\ (Pb!InFlight(k) => k \in sc.before)
  BY <1>1, <1>3 DEF Pb!ScanHolds
<1>15. \A f \in sc.found : Pb!FoundHolds(sc, f)
  BY <1>3, <1>8, <1>9
<1>16. Pb!IsFiniteSet(sc.found)
  BY <1>7, ProbesCardinality
<1>17. Pb!ScanHolds(sc)
  BY <1>10, <1>11, <1>12, <1>13, <1>14, <1>15, <1>16 DEF Pb!ScanHolds
<1> QED
  BY <1>2, <1>17, ScanningKeeps

LEMMA FailingKeeps ==
  ASSUME Pb!JobsHold, NEW s \in Readings, Pb!ReadFails(s)
  PROVE  Pb!JobsHold'
BY NoScanHolds, ScanningKeeps DEF Pb!ReadFails

\* What was found in flight, counted by status: every job that was in flight throughout,
\* and none that was not when the scan began.
LEMMA Counted ==
  ASSUME Pb!ProbesAssumption, NEW sc, Pb!ScanHolds(sc), sc.todo = {}
  PROVE  LET A == {f \in Pb!Unsettled(sc.found) : f.job.status = "awaiting_workers"}
             B == {f \in Pb!Unsettled(sc.found) : f.job.status = "reconciling"}
         IN /\ Cardinality(A) \in Nat /\ Cardinality(B) \in Nat
            /\ Cardinality(A) + Cardinality(B) \in Cardinality(sc.throughout)..Cardinality(sc.before)
<1> DEFINE U == Pb!Unsettled(sc.found)
           A == {f \in U : f.job.status = "awaiting_workers"}
           B == {f \in U : f.job.status = "reconciling"}
           ids == [f \in U |-> f.id]
           I == {ids[f] : f \in U}
<1>1. /\ U \subseteq sc.found /\ IsFiniteSet(sc.found) /\ sc.before \subseteq Indexed /\ IsFiniteSet(Indexed)
      /\ sc.throughout \subseteq sc.before
  BY ProbesCardinality DEF Pb!Unsettled, Pb!ScanHolds, Pb!ProbesAssumption
<1>2. IsFiniteSet(U) /\ IsFiniteSet(sc.before) /\ IsFiniteSet(sc.throughout)
  BY <1>1, FS_Subset
<1>3. A \in SUBSET U /\ B \in SUBSET U /\ A \cap B = {}
  OBVIOUS
<1>4. U = A \cup B
  <2>1. \A f \in U : f \in sc.found /\ f.job \in Pb!Records /\ f.job.status \notin {"settled", "gone"}
    BY DEF Pb!Unsettled, Pb!ScanHolds
  <2> QED
    BY <2>1 DEF Pb!Records
<1> HIDE DEF A, B, U
<1>5. IsFiniteSet(A) /\ IsFiniteSet(B) /\ Cardinality(A) \in Nat /\ Cardinality(B) \in Nat /\ Cardinality(U) \in Nat
  BY <1>2, <1>3, FS_Subset, FS_CardinalityType
<1>6. Cardinality(U) = Cardinality(A) + Cardinality(B)
  <2>1. Cardinality(A \cup B) = Cardinality(A) + Cardinality(B) - Cardinality(A \cap B)
    BY <1>5, FS_Union
  <2>2. Cardinality(A \cap B) = 0
    BY <1>3, FS_EmptySet
  <2> QED
    BY <1>4, <1>5, <2>1, <2>2
<1>7. Cardinality(U) <= Cardinality(sc.before)
  <2>1. \A f \in U : f.id \in sc.before
    BY DEF U, Pb!Unsettled, Pb!ScanHolds, Pb!FoundHolds, Pb!Flies
  <2>2. \A f, g \in U : f.id = g.id => f = g
    BY <1>1 DEF Pb!ScanHolds
  <2>3. ids \in Injection(U, sc.before)
    BY <2>1, <2>2 DEF Injection, IsInjective
  <2> QED
    BY <2>3, <1>2, FS_Injection
<1>8. Cardinality(sc.throughout) <= Cardinality(U)
  <2>1. \A j \in sc.throughout : \E f \in U : f.id = j
    BY DEF U, Pb!Unsettled, Pb!ScanHolds, Pb!FoundHolds, Pb!Flies
  <2>2. ids \in Surjection(U, I)
    BY DEF Surjection
  <2>3. IsFiniteSet(I) /\ Cardinality(I) <= Cardinality(U)
    BY <2>2, <1>2, FS_Surjection
  <2>4. sc.throughout \in SUBSET I
    BY <2>1
  <2>5. Cardinality(sc.throughout) <= Cardinality(I) /\ Cardinality(I) \in Nat /\ Cardinality(sc.throughout) \in Nat
    BY <2>3, <2>4, <1>2, FS_Subset, FS_CardinalityType
  <2> QED
    BY <2>3, <2>5, <1>5
<1>9. Cardinality(sc.throughout) \in Nat /\ Cardinality(sc.before) \in Nat
  BY <1>2, FS_CardinalityType
<1>10. /\ Cardinality(A) \in Nat /\ Cardinality(B) \in Nat
       /\ Cardinality(A) + Cardinality(B) \in Cardinality(sc.throughout)..Cardinality(sc.before)
  BY <1>5, <1>6, <1>7, <1>8, <1>9
<1> QED
  BY <1>10 DEF A, B, U

\* A scan that is done shows what it found.
LEMMA RecordingKeeps ==
  ASSUME Pb!ProbesAssumption, Pb!JobsHold, NEW s \in Readings, Pb!RecordJobScan(s)
  PROVE  Pb!JobsHold'
<1> DEFINE sc == scan[s]
           U == Pb!Unsettled(sc.found)
           A == {f \in U : f.job.status = "awaiting_workers"}
           B == {f \in U : f.job.status = "reconciling"}
           old == Pb!OldestCreatedAt(sc.found)
           new == [byStatus |-> Pb!ByStatus(sc.found), oldest |-> old, before |-> sc.before, throughout |-> sc.throughout]
<1>1. Pb!ScanHolds(sc) /\ sc.todo = {} /\ gauge' = new /\ scan' = [scan EXCEPT ![s] = Pb!NoScan] /\ UNCHANGED <<entry, newest>>
  BY DEF Pb!RecordJobScan, Pb!JobsHold
<1>2. \A f \in U : f \in sc.found /\ f.job \in Pb!Records /\ f.job.status \in {"awaiting_workers", "reconciling"}
  BY <1>1 DEF Pb!Unsettled, Pb!ScanHolds, Pb!Records
<1>3. Pb!ByStatus(sc.found) = [status \in {f.job.status : f \in U} |-> Cardinality({f \in U : f.job.status = status})]
  BY ProbesCardinality DEF Pb!ByStatus
<1>4. DOMAIN new.byStatus \subseteq {"awaiting_workers", "reconciling"}
  BY <1>2, <1>3
<1>5. (IF "awaiting_workers" \in DOMAIN new.byStatus THEN new.byStatus["awaiting_workers"] ELSE 0) = Cardinality(A)
  <2>1. CASE A = {}
    <3>1. "awaiting_workers" \notin DOMAIN new.byStatus
      BY <1>3, <2>1
    <3> QED
      BY <2>1, <3>1, FS_EmptySet
  <2>2. CASE A # {}
    <3>1. "awaiting_workers" \in {f.job.status : f \in U}
      BY <2>2
    <3> QED
      BY <1>3, <3>1
  <2> QED
    BY <2>1, <2>2
<1>6. (IF "reconciling" \in DOMAIN new.byStatus THEN new.byStatus["reconciling"] ELSE 0) = Cardinality(B)
  <2>1. CASE B = {}
    <3>1. "reconciling" \notin DOMAIN new.byStatus
      BY <1>3, <2>1
    <3> QED
      BY <2>1, <3>1, FS_EmptySet
  <2>2. CASE B # {}
    <3>1. "reconciling" \in {f.job.status : f \in U}
      BY <2>2
    <3> QED
      BY <1>3, <3>1
  <2> QED
    BY <2>1, <2>2
<1>7. Cardinality(A) + Cardinality(B) \in Cardinality(sc.throughout)..Cardinality(sc.before)
  BY <1>1, Counted
<1>8. \A j \in sc.throughout : old # None /\ old <= entry[j].createdAt
  <2> SUFFICES ASSUME NEW j \in sc.throughout PROVE old # None /\ old <= entry[j].createdAt
    OBVIOUS
  <2>1. PICK f \in U : f.id = j /\ entry[j].createdAt = f.job.createdAt
    BY <1>1 DEF Pb!Unsettled, Pb!ScanHolds, Pb!FoundHolds, Pb!Flies
  <2> DEFINE times == {g.job.createdAt : g \in U}
  <2>2. times \in SUBSET Nat /\ f.job.createdAt \in times
    BY <1>2 DEF Pb!Records
  <2>3. PICK t \in times : \A u \in times : t <= u
    <3> DEFINE R == OpToRel(<, Nat)
    <3>1. \A m, n \in Nat : m < n => <<m, n>> \in R
      BY DEF OpToRel
    <3>2. IsWellFoundedOn(R, Nat)
      BY NatLessThanWellFounded
    <3> HIDE DEF R, times
    <3>3. PICK t \in times : \A u \in times : <<u, t>> \notin R
      BY <2>2, <3>2, WFMin
    <3>4. \A u \in times : ~(u < t)
      BY <2>2, <3>1, <3>3
    <3> QED
      BY <2>2, <3>3, <3>4
  <2>4. old \in times /\ \A g \in U : old <= g.job.createdAt
    <3>1. \E u \in times : \A g \in U : u <= g.job.createdAt
      BY <2>3
    <3>2. old = CHOOSE u \in times : \A g \in U : u <= g.job.createdAt
      BY DEF Pb!OldestCreatedAt
    <3> HIDE DEF times, old
    <3> QED
      BY <3>1, <3>2
  <2>5. old \in Nat /\ old <= f.job.createdAt
    BY <2>2, <2>4
  <2> QED
    BY <2>1, <2>5 DEF Pb!ProbesAssumption
<1>9. sc.throughout \subseteq {j \in Indexed : entry[j] # None}
  BY <1>1 DEF Pb!ScanHolds, Pb!InFlight
<1> HIDE DEF sc, A, B, old
<1>10. Pb!ScanCounts'
  <2>1. /\ new.throughout = sc.throughout /\ new.before = sc.before /\ new.oldest = old
    OBVIOUS
  <2> HIDE DEF new
  <2>2. Pb!Shown("awaiting_workers")' = Cardinality(A) /\ Pb!Shown("reconciling")' = Cardinality(B)
    BY <1>1, <1>5, <1>6 DEF Pb!Shown
  <2> QED
    BY <1>1, <1>4, <1>7, <1>8, <2>1, <2>2, ProbesCardinality DEF Pb!ScanCounts
<1>11. (gauge # None => gauge.throughout \subseteq {j \in Indexed : entry[j] # None})'
  BY <1>1, <1>9
<1>12. \A r \in Readings : Pb!ScanHolds(scan[r])'
  <2>1. \A r \in Readings : Pb!ScanHolds(scan[r]) /\ scan'[r] \in {Pb!NoScan, scan[r]}
    BY <1>1 DEF Pb!JobsHold
  <2> QED
    BY <1>1, <2>1, NoScanHolds DEF Pb!ScanHolds, Pb!FoundHolds, Pb!InFlight
<1> QED
  BY <1>1, <1>10, <1>11, <1>12 DEF Pb!JobsHold, Pb!Known

\* Nothing else touches the jobs.
LEMMA IndexedStep ==
  ASSUME Pb!ProbesAssumption, Pb!JobsHold, [Pb!Next]_(Pb!vars)
  PROVE  Pb!JobsHold'
<1>1. ASSUME UNCHANGED Pb!jobVars PROVE Pb!JobsHold'
  <2>1. \A s \in Readings : Pb!ScanHolds(scan[s])'
    BY <1>1 DEF Pb!JobsHold, Pb!jobVars, Pb!ScanHolds, Pb!FoundHolds, Pb!InFlight
  <2> QED
    BY <1>1, <2>1 DEF Pb!JobsHold, Pb!jobVars, Pb!Known, Pb!ScanCounts, Pb!Shown
<1>2. CASE UNCHANGED Pb!vars
  BY <1>1, <1>2 DEF Pb!vars, Pb!jobVars
<1>3. CASE \E l \in Pb!Labels : Pb!Flip(l)
  BY <1>1, <1>3 DEF Pb!Flip
<1>4. CASE \E p \in Polls : \/ Pb!CheckTreasuryBalance(p) \/ Pb!EvaluateBalance(p)
                            \/ \E fails \in BOOLEAN : Pb!LoadPlatform(p, fails) \/ Pb!LoadPool(p, fails)
  BY <1>1, <1>4 DEF Pb!CheckTreasuryBalance, Pb!EvaluateBalance, Pb!LoadPlatform, Pb!LoadPool
<1>5. CASE Pb!Restart \/ Pb!FlipLink \/ Pb!Probe \/ Pb!Answer \/ Pb!Refuse \/ Pb!TimeOut \/ Pb!LateAnswer
  BY <1>1, <1>5 DEF Pb!Restart, Pb!FlipLink, Pb!Probe, Pb!Answer, Pb!Refuse, Pb!TimeOut, Pb!LateAnswer, Pb!Probing
<1> QED
  BY <1>2, <1>3, <1>4, <1>5, CreatingKeeps, UpdatingKeeps, BeginningKeeps, FailingKeeps, RecordingKeeps, ReadingJobKeeps
  DEF Pb!Next

LEMMA TreasuryInit == ASSUME Pb!ProbesAssumption, Pb!Init PROVE Pb!TreasuryHolds
<1>1. Pb!NoPoll \in [at : {"idle", "platform", "pool", "evaluate"}, reading : [Pb!Labels -> BOOLEAN \cup {None}],
                     changed : SUBSET Pb!Labels]
  BY DEF Pb!NoPoll
<1>2. Pb!NoPoll.at = "idle" /\ \A l \in Pb!Labels : Pb!NoPoll.reading[l] = None
  BY DEF Pb!NoPoll
<1>3. /\ poll \in [Polls -> [at : {"idle", "platform", "pool", "evaluate"}, reading : [Pb!Labels -> BOOLEAN \cup {None}],
                             changed : SUBSET Pb!Labels]]
      /\ \A p \in Polls : poll[p] = Pb!NoPoll
  BY <1>1 DEF Pb!Init
<1>4. \A l \in Pb!Labels : low[l] = FALSE /\ current[l] = FALSE /\ crossed[l] = 0 /\ raised[l] = 0
  BY DEF Pb!Init, Pb!No
<1>5. \A p \in Polls, l \in Pb!Labels : Pb!PollHolds(p, l)
  BY <1>2, <1>3 DEF Pb!PollHolds, Pb!ProbesAssumption
<1>6. Pb!AlertsFollowTheBalance
  BY <1>4 DEF Pb!AlertsFollowTheBalance, Pb!Init
<1> QED
  BY <1>2, <1>3, <1>4, <1>5, <1>6 DEF Pb!TreasuryHolds, Pb!Init, Pb!No

\* A balance falls, or recovers.
LEMMA FlippingKeeps ==
  ASSUME Pb!ProbesAssumption, Pb!TreasuryHolds, NEW l \in Pb!Labels, Pb!Flip(l)
  PROVE  Pb!TreasuryHolds'
<1>1. /\ low' = [low EXCEPT ![l] = ~low[l]] /\ crossed' = [crossed EXCEPT ![l] = IF low[l] THEN crossed[l] ELSE crossed[l] + 1]
      /\ current' = [current EXCEPT ![l] = FALSE]
      /\ UNCHANGED <<lowBalanceState, raised, restarts, clashed>>
  BY DEF Pb!Flip
<1>2. /\ low' \in [Pb!Labels -> BOOLEAN] /\ crossed' \in [Pb!Labels -> Nat] /\ current' \in [Pb!Labels -> BOOLEAN]
      /\ \A k \in Pb!Labels : crossed'[k] >= crossed[k] /\ (k # l => low'[k] = low[k])
      /\ low'[l] => crossed'[l] = crossed[l] + 1
      /\ \A k \in Pb!Labels : current'[k] => k # l /\ current[k]
  <2>1. /\ low \in [Pb!Labels -> BOOLEAN] /\ crossed \in [Pb!Labels -> Nat] /\ current \in [Pb!Labels -> BOOLEAN]
    BY DEF Pb!TreasuryHolds
  <2>2. low' \in [Pb!Labels -> BOOLEAN] /\ (low'[l] => ~low[l]) /\ \A k \in Pb!Labels : k # l => low'[k] = low[k]
    BY <2>1, <1>1
  <2>3. current' \in [Pb!Labels -> BOOLEAN] /\ \A k \in Pb!Labels : current'[k] => k # l /\ current[k]
    BY <2>1, <1>1
  <2>4. CASE low[l]
    <3>1. crossed' = [crossed EXCEPT ![l] = crossed[l]]
      BY <1>1, <2>4
    <3> QED
      BY <2>1, <2>2, <2>3, <2>4, <3>1
  <2>5. CASE ~low[l]
    <3>1. crossed' = [crossed EXCEPT ![l] = crossed[l] + 1]
      BY <1>1, <2>5
    <3> QED
      BY <2>1, <2>2, <2>3, <3>1
  <2> QED
    BY <2>4, <2>5
<1>3. ASSUME NEW p \in Polls
      PROVE  /\ poll'[p].at = poll[p].at /\ poll'[p].reading = poll[p].reading /\ poll'[p].changed = poll[p].changed \cup {l}
             /\ poll'[p] \in [at : {"idle", "platform", "pool", "evaluate"}, reading : [Pb!Labels -> BOOLEAN \cup {None}],
                              changed : SUBSET Pb!Labels]
  <2>1. poll[p] \in [at : {"idle", "platform", "pool", "evaluate"}, reading : [Pb!Labels -> BOOLEAN \cup {None}],
                     changed : SUBSET Pb!Labels]
    BY DEF Pb!TreasuryHolds
  <2>2. poll'[p] = [poll[p] EXCEPT !.changed = poll[p].changed \cup {l}]
    BY DEF Pb!Flip
  <2> QED
    BY <2>1, <2>2
<1>4. DOMAIN poll' = Polls /\ poll' = [p \in Polls |-> poll'[p]]
  BY DEF Pb!Flip
<1>5. /\ raised \in [Pb!Labels -> Nat] /\ crossed \in [Pb!Labels -> Nat] /\ restarts \in Nat
      /\ ~clashed => \A k \in Pb!Labels : raised[k] <= crossed[k] + restarts
  BY DEF Pb!TreasuryHolds, Pb!AlertsFollowTheBalance
<1>6. \A k \in Pb!Labels : Pb!Behind(k) => Pb!Behind(k)'
  BY <1>1, <1>2, <1>5 DEF Pb!Behind
<1>7. ~clashed /\ low'[l] => Pb!Behind(l)'
  BY <1>1, <1>2, <1>5 DEF Pb!Behind
<1>8. ASSUME NEW p \in Polls, NEW k \in Pb!Labels PROVE Pb!PollHolds(p, k)'
  <2>1. Pb!PollHolds(p, k)
    BY DEF Pb!TreasuryHolds
  <2> QED
    BY <2>1, <1>1, <1>2, <1>3, <1>6, <1>7 DEF Pb!PollHolds
<1>9. Pb!AlertsFollowTheBalance'
  BY <1>1, <1>2, <1>5 DEF Pb!AlertsFollowTheBalance, Pb!TreasuryHolds
<1>10. ~clashed' => \A k \in Pb!Labels : low'[k] /\ ~lowBalanceState'[k] => Pb!Behind(k)'
  BY <1>1, <1>2, <1>6, <1>7 DEF Pb!TreasuryHolds
<1> QED
  BY <1>1, <1>2, <1>3, <1>4, <1>8, <1>9, <1>10 DEF Pb!TreasuryHolds

\* A poll that goes on changes nothing but itself, and reads what is so.
LEMMA PollingKeeps ==
  ASSUME Pb!ProbesAssumption, Pb!TreasuryHolds, NEW p \in Polls, NEW q, NEW b \in BOOLEAN,
         q \in [at : {"idle", "platform", "pool", "evaluate"}, reading : [Pb!Labels -> BOOLEAN \cup {None}], changed : SUBSET Pb!Labels],
         q.at = "idle" => \A l \in Pb!Labels : q.reading[l] = None,
         \A l \in Pb!Labels : \/ q.reading[l] = None \/ q.reading[l] = low[l]
                              \/ q.reading[l] = poll[p].reading[l] /\ q.changed = poll[p].changed,
         q.at # "idle" => poll[p].at # "idle" \/ b \/ \A o \in Polls : poll[o].at = "idle",
         clashed' = (clashed \/ b), poll' = [poll EXCEPT ![p] = q],
         UNCHANGED <<low, crossed, lowBalanceState, raised, current, restarts>>
  PROVE  Pb!TreasuryHolds'
<1>1. poll' \in [Polls -> [at : {"idle", "platform", "pool", "evaluate"}, reading : [Pb!Labels -> BOOLEAN \cup {None}],
                           changed : SUBSET Pb!Labels]]
  BY DEF Pb!TreasuryHolds
<1>2. \A o \in Polls : poll'[o] = IF o = p THEN q ELSE poll[o]
  BY DEF Pb!TreasuryHolds
<1>3. ~clashed' => ~clashed /\ ~b
  OBVIOUS
<1>4. ~clashed' => \A o, r \in Polls : poll'[o].at # "idle" /\ poll'[r].at # "idle" => o = r
  BY <1>2, <1>3 DEF Pb!TreasuryHolds
<1>5. ASSUME NEW o \in Polls, NEW l \in Pb!Labels PROVE Pb!PollHolds(o, l)'
  <2>1. Pb!PollHolds(o, l) /\ Pb!PollHolds(p, l) /\ (Pb!Behind(l)' <=> Pb!Behind(l))
    BY DEF Pb!TreasuryHolds, Pb!Behind
  <2>2. ~clashed => (low[l] /\ ~lowBalanceState[l] => Pb!Behind(l))
    BY DEF Pb!TreasuryHolds
  <2>3. CASE o # p
    BY <1>2, <1>3, <2>1, <2>3 DEF Pb!PollHolds
  <2>4. CASE o = p
    <3>1. poll'[o] = q
      BY <1>2, <2>4
    <3>2. q.at = "idle" => q.reading[l] = None
      OBVIOUS
    <3>3. CASE q.reading[l] = None
      BY <2>1, <3>1, <3>2, <3>3 DEF Pb!PollHolds, Pb!ProbesAssumption
    <3>4. CASE q.reading[l] = low[l]
      BY <1>3, <2>1, <2>2, <3>1, <3>2, <3>4 DEF Pb!PollHolds
    <3>5. CASE q.reading[l] = poll[p].reading[l] /\ q.changed = poll[p].changed
      BY <1>3, <2>1, <3>1, <3>2, <3>5 DEF Pb!PollHolds
    <3> QED
      BY <3>3, <3>4, <3>5
  <2> QED
    BY <2>3, <2>4
<1>6. Pb!AlertsFollowTheBalance' /\ (~clashed' => \A l \in Pb!Labels : low'[l] /\ ~lowBalanceState'[l] => Pb!Behind(l)')
  BY <1>3 DEF Pb!TreasuryHolds, Pb!AlertsFollowTheBalance, Pb!Behind
<1> QED
  BY <1>1, <1>4, <1>5, <1>6 DEF Pb!TreasuryHolds

LEMMA LoadingKeeps ==
  ASSUME Pb!ProbesAssumption, Pb!TreasuryHolds, NEW p \in Polls, NEW fails \in BOOLEAN,
         Pb!CheckTreasuryBalance(p) \/ Pb!LoadPlatform(p, fails) \/ Pb!LoadPool(p, fails)
  PROVE  Pb!TreasuryHolds'
<1> DEFINE Shape == [at : {"idle", "platform", "pool", "evaluate"}, reading : [Pb!Labels -> BOOLEAN \cup {None}],
                     changed : SUBSET Pb!Labels]
<1>1. Pb!NoPoll \in Shape /\ Pb!NoPoll.at = "idle" /\ \A l \in Pb!Labels : Pb!NoPoll.reading[l] = None
  BY DEF Pb!NoPoll
<1>3. poll[p] \in Shape /\ low \in [Pb!Labels -> BOOLEAN] /\ (poll[p].at = "idle" => \A l \in Pb!Labels : poll[p].reading[l] = None)
  BY DEF Pb!TreasuryHolds, Pb!PollHolds
<1>4. CASE Pb!CheckTreasuryBalance(p)
  <2> DEFINE q == [Pb!NoPoll EXCEPT !.at = "platform"]
  <2>1. q \in Shape /\ q.at = "platform" /\ \A l \in Pb!Labels : q.reading[l] = None
    BY <1>1 DEF Pb!NoPoll
  <2>2. PICK b \in BOOLEAN : b <=> \E o \in Polls : poll[o].at # "idle"
    OBVIOUS
  <2>3. /\ poll' = [poll EXCEPT ![p] = q] /\ clashed' = (clashed \/ \E o \in Polls : poll[o].at # "idle")
        /\ UNCHANGED <<low, crossed, lowBalanceState, raised, current, restarts>>
    BY <1>4 DEF Pb!CheckTreasuryBalance
  <2> HIDE DEF q
  <2>4. clashed' = (clashed \/ b)
    BY <2>2, <2>3
  <2>5. b \/ \A o \in Polls : poll[o].at = "idle"
    BY <2>2
  <2>6. (q.at = "idle" => \A l \in Pb!Labels : q.reading[l] = None)
        /\ (q.at # "idle" => poll[p].at # "idle" \/ b \/ \A o \in Polls : poll[o].at = "idle")
    BY <2>1, <2>5
  <2>7. \A l \in Pb!Labels : \/ q.reading[l] = None \/ q.reading[l] = low[l]
                             \/ q.reading[l] = poll[p].reading[l] /\ q.changed = poll[p].changed
    BY <2>1
  <2>8. q \in Shape
    BY <2>1
  <2> QED
    BY <2>3, <2>4, <2>6, <2>7, <2>8, PollingKeeps, Zenon
<1>5. ASSUME NEW q \in Shape, poll' = [poll EXCEPT ![p] = q], poll[p].at # "idle", q.at = "idle" => \A l \in Pb!Labels : q.reading[l] = None,
             \A l \in Pb!Labels : \/ q.reading[l] = None \/ q.reading[l] = low[l]
                                  \/ q.reading[l] = poll[p].reading[l] /\ q.changed = poll[p].changed,
             UNCHANGED <<low, crossed, lowBalanceState, raised, current, restarts, clashed>>
      PROVE  Pb!TreasuryHolds'
  <2>1. clashed' = (clashed \/ FALSE)
    BY <1>5 DEF Pb!TreasuryHolds
  <2> QED
    BY <1>5, <2>1, PollingKeeps
<1>6. CASE Pb!LoadPlatform(p, fails)
  <2>1. poll[p].at = "platform" /\ UNCHANGED <<low, crossed, lowBalanceState, raised, current, restarts, clashed>>
    BY <1>6 DEF Pb!LoadPlatform
  <2>2. CASE fails
    <3>1. poll' = [poll EXCEPT ![p] = Pb!NoPoll]
      BY <1>6, <2>2 DEF Pb!LoadPlatform
    <3> QED
      BY <1>1, <1>5, <2>1, <3>1
  <2>3. CASE ~fails
    <3> DEFINE reading == [poll[p].reading EXCEPT !["platform"] = low["platform"]]
               q == [at |-> "pool", reading |-> reading, changed |-> poll[p].changed]
    <3>1. poll' = [poll EXCEPT ![p] = [poll[p] EXCEPT !.at = "pool", !.reading["platform"] = low["platform"]]]
      BY <1>6, <2>3 DEF Pb!LoadPlatform
    <3>2. [poll[p] EXCEPT !.at = "pool", !.reading["platform"] = low["platform"]] = q
      <4>1. PICK r : r = [poll[p] EXCEPT !.at = "pool"]
        OBVIOUS
      <4>2. r = [at |-> "pool", reading |-> poll[p].reading, changed |-> poll[p].changed]
        BY <1>3, <4>1
      <4>3. [r EXCEPT !.reading["platform"] = low["platform"]] = q
        BY <4>2
      <4> QED
        BY <4>1, <4>3, Zenon
    <3>3. reading \in [Pb!Labels -> BOOLEAN \cup {None}] /\ \A l \in Pb!Labels : reading[l] \in {low[l], poll[p].reading[l]}
      BY <1>3 DEF Pb!Labels
    <3> HIDE DEF reading
    <3>4. q \in Shape /\ q.at = "pool" /\ q.changed = poll[p].changed /\ q.reading = reading
      BY <1>3, <3>3
    <3> HIDE DEF q
    <3> QED
      BY <1>5, <2>1, <3>1, <3>2, <3>3, <3>4
  <2> QED
    BY <2>2, <2>3
<1>7. CASE Pb!LoadPool(p, fails)
  <2>1. poll[p].at = "pool" /\ UNCHANGED <<low, crossed, lowBalanceState, raised, current, restarts, clashed>>
    BY <1>7 DEF Pb!LoadPool
  <2>2. PICK v \in BOOLEAN \cup {None} : v = IF fails THEN None ELSE low["fiat_pool"]
    BY <1>3, Zenon DEF Pb!Labels
  <2>3. v \in {None, low["fiat_pool"]}
    BY <2>2
  <2> DEFINE reading == [poll[p].reading EXCEPT !["fiat_pool"] = v]
             q == [at |-> "evaluate", reading |-> reading, changed |-> poll[p].changed]
  <2>4. poll' = [poll EXCEPT ![p] = [poll[p] EXCEPT !.at = "evaluate", !.reading["fiat_pool"] = v]]
    BY <1>7, <2>2, Zenon DEF Pb!LoadPool
  <2>5. [poll[p] EXCEPT !.at = "evaluate", !.reading["fiat_pool"] = v] = q
    <3>1. PICK r : r = [poll[p] EXCEPT !.at = "evaluate"]
      OBVIOUS
    <3>2. r = [at |-> "evaluate", reading |-> poll[p].reading, changed |-> poll[p].changed]
      BY <1>3, <3>1
    <3>3. [r EXCEPT !.reading["fiat_pool"] = v] = q
      BY <3>2
    <3> QED
      BY <3>1, <3>3, Zenon
  <2>6. reading \in [Pb!Labels -> BOOLEAN \cup {None}] /\ \A l \in Pb!Labels : reading[l] \in {None, low[l], poll[p].reading[l]}
    BY <1>3, <2>3 DEF Pb!Labels
  <2> HIDE DEF reading
  <2>7. q \in Shape /\ q.at = "evaluate" /\ q.changed = poll[p].changed /\ q.reading = reading
    BY <1>3, <2>6
  <2> HIDE DEF q
  <2> QED
    BY <1>5, <2>1, <2>4, <2>5, <2>6, <2>7
<1> QED
  BY <1>4, <1>6, <1>7

\* A process that starts again holds no balance to be low, and may alert once more.
LEMMA RestartingKeeps ==
  ASSUME Pb!ProbesAssumption, Pb!TreasuryHolds, Pb!Restart
  PROVE  Pb!TreasuryHolds'
<1>1. Pb!NoPoll \in [at : {"idle", "platform", "pool", "evaluate"}, reading : [Pb!Labels -> BOOLEAN \cup {None}],
                     changed : SUBSET Pb!Labels]
      /\ Pb!NoPoll.at = "idle" /\ \A l \in Pb!Labels : Pb!NoPoll.reading[l] = None
  BY DEF Pb!NoPoll
<1>2. /\ poll' \in [Polls -> [at : {"idle", "platform", "pool", "evaluate"}, reading : [Pb!Labels -> BOOLEAN \cup {None}],
                              changed : SUBSET Pb!Labels]]
      /\ \A p \in Polls : poll'[p] = Pb!NoPoll
  BY <1>1 DEF Pb!Restart
<1>3. /\ restarts' = restarts + 1 /\ restarts \in Nat /\ crossed \in [Pb!Labels -> Nat] /\ raised \in [Pb!Labels -> Nat]
      /\ lowBalanceState' \in [Pb!Labels -> BOOLEAN] /\ current' \in [Pb!Labels -> BOOLEAN]
      /\ \A l \in Pb!Labels : current'[l] = FALSE /\ lowBalanceState'[l] = FALSE
      /\ UNCHANGED <<low, crossed, raised, clashed>>
  BY DEF Pb!Restart, Pb!No, Pb!TreasuryHolds
<1>4. ~clashed => \A l \in Pb!Labels : raised[l] <= crossed[l] + restarts
  BY DEF Pb!TreasuryHolds, Pb!AlertsFollowTheBalance
<1>5. ~clashed => \A l \in Pb!Labels : Pb!Behind(l)'
  BY <1>3, <1>4 DEF Pb!Behind
<1>6. \A p \in Polls, l \in Pb!Labels : Pb!PollHolds(p, l)'
  BY <1>1, <1>2 DEF Pb!PollHolds, Pb!ProbesAssumption
<1>7. Pb!AlertsFollowTheBalance'
  BY <1>3, <1>4 DEF Pb!AlertsFollowTheBalance
<1> QED
  BY <1>1, <1>2, <1>3, <1>5, <1>6, <1>7 DEF Pb!TreasuryHolds

\* An alert for what was read low and not held to be: for a fall that was not told.
LEMMA EvaluatingBalanceKeeps ==
  ASSUME Pb!ProbesAssumption, Pb!TreasuryHolds, NEW p \in Polls, Pb!EvaluateBalance(p)
  PROVE  Pb!TreasuryHolds'
<1> DEFINE Shape == [at : {"idle", "platform", "pool", "evaluate"}, reading : [Pb!Labels -> BOOLEAN \cup {None}],
                     changed : SUBSET Pb!Labels]
           read == {l \in Pb!Labels : poll[p].reading[l] # None}
<1>1. Pb!NoPoll \in Shape /\ Pb!NoPoll.at = "idle" /\ \A l \in Pb!Labels : Pb!NoPoll.reading[l] = None
  BY DEF Pb!NoPoll
<1>2. /\ poll[p] \in Shape /\ poll[p].at # "idle" /\ poll' = [poll EXCEPT ![p] = Pb!NoPoll] /\ poll \in [Polls -> Shape]
      /\ UNCHANGED <<low, crossed, restarts, clashed>>
  BY DEF Pb!TreasuryHolds, Pb!EvaluateBalance
<1>3. /\ low \in [Pb!Labels -> BOOLEAN] /\ lowBalanceState \in [Pb!Labels -> BOOLEAN] /\ current \in [Pb!Labels -> BOOLEAN]
      /\ crossed \in [Pb!Labels -> Nat] /\ raised \in [Pb!Labels -> Nat] /\ restarts \in Nat
      /\ ~clashed => \A l \in Pb!Labels : raised[l] <= crossed[l] + restarts
  BY DEF Pb!TreasuryHolds, Pb!AlertsFollowTheBalance
<1>4. raised' = [l \in Pb!Labels |-> IF poll[p].reading[l] = TRUE /\ ~lowBalanceState[l] THEN raised[l] + 1 ELSE raised[l]]
  BY DEF Pb!EvaluateBalance, Pb!Alerts
<1>5. lowBalanceState' = [l \in Pb!Labels |-> IF l \in read THEN poll[p].reading[l] ELSE lowBalanceState[l]]
  BY DEF Pb!EvaluateBalance
<1>6. current' = [l \in Pb!Labels |-> IF l \in read THEN l \notin poll[p].changed ELSE current[l]]
  BY DEF Pb!EvaluateBalance
<1>7. lowBalanceState' \in [Pb!Labels -> BOOLEAN]
  <2>1. \A l \in Pb!Labels : poll[p].reading[l] \in BOOLEAN \cup {None}
    BY <1>2
  <2>2. \A l \in Pb!Labels : (IF l \in read THEN poll[p].reading[l] ELSE lowBalanceState[l]) \in BOOLEAN
    BY <1>3, <2>1, Zenon
  <2> QED
    BY <1>5, <2>2, Zenon
<1>8. current' \in [Pb!Labels -> BOOLEAN]
  <2>1. \A l \in Pb!Labels : (IF l \in read THEN l \notin poll[p].changed ELSE current[l]) \in BOOLEAN
    BY <1>3, Zenon
  <2> QED
    BY <1>6, <2>1, Zenon
<1>9. raised' \in [Pb!Labels -> Nat]
  BY <1>3, <1>4
<1>10. poll' \in [Polls -> Shape] /\ \A o \in Polls : poll'[o] = IF o = p THEN Pb!NoPoll ELSE poll[o]
  BY <1>1, <1>2
<1>11. ASSUME ~clashed PROVE \A o \in Polls : poll'[o].at = "idle" /\ \A l \in Pb!Labels : poll'[o].reading[l] = None
  <2>1. \A o \in Polls : o = p \/ poll[o].at = "idle"
    BY <1>2, <1>11 DEF Pb!TreasuryHolds
  <2>2. \A o \in Polls, l \in Pb!Labels : poll[o].at = "idle" => poll[o].reading[l] = None
    BY DEF Pb!TreasuryHolds, Pb!PollHolds
  <2> QED
    BY <1>1, <1>10, <2>1, <2>2
<1>12. ASSUME NEW o \in Polls, NEW l \in Pb!Labels PROVE Pb!PollHolds(o, l)'
  <2>1. Pb!PollHolds(o, l)
    BY DEF Pb!TreasuryHolds
  <2>2. clashed' = clashed /\ low' = low
    BY <1>2
  <2>3. poll'[o].at = "idle" => poll'[o].reading[l] = None
    BY <1>1, <1>10, <2>1 DEF Pb!PollHolds
  <2>4. poll'[o].reading[l] # None /\ l \notin poll'[o].changed => poll'[o].reading[l] = low'[l]
    BY <1>1, <1>10, <2>1, <2>2 DEF Pb!PollHolds
  <2>5. ~clashed => poll'[o].reading[l] # TRUE /\ poll'[o].reading[l] # FALSE
    BY <1>11 DEF Pb!ProbesAssumption
  <2> QED
    BY <2>2, <2>3, <2>4, <2>5 DEF Pb!PollHolds
\* One label after the other.
<1>13. ASSUME NEW l \in Pb!Labels
       PROVE  /\ current'[l] => lowBalanceState'[l] = low'[l]
              /\ ~clashed => raised'[l] <= crossed[l] + restarts
              /\ ~clashed /\ low[l] /\ ~lowBalanceState'[l] => raised'[l] < crossed[l] + restarts
  <2>1. Pb!PollHolds(p, l) /\ (~clashed => (low[l] /\ ~lowBalanceState[l] => Pb!Behind(l)))
        /\ (current[l] => lowBalanceState[l] = low[l])
    BY DEF Pb!TreasuryHolds, Pb!AlertsFollowTheBalance
  <2>2. low'[l] = low[l] /\ clashed' = clashed
    BY <1>2
  <2>3. poll[p].reading[l] \in BOOLEAN \cup {None}
    BY <1>2
  <2>4. CASE poll[p].reading[l] = None
    <3>1. l \notin read
      BY <2>4
    <3>2. current'[l] = current[l] /\ lowBalanceState'[l] = lowBalanceState[l]
      BY <1>5, <1>6, <3>1, Zenon
    <3>3. raised'[l] = raised[l]
      BY <1>4, <2>4 DEF Pb!ProbesAssumption
    <3>4. ~clashed => raised'[l] <= crossed[l] + restarts
      BY <1>3, <3>3
    <3>5. ~clashed /\ low[l] /\ ~lowBalanceState'[l] => raised'[l] < crossed[l] + restarts
      BY <2>1, <3>2, <3>3 DEF Pb!Behind
    <3> QED
      BY <2>1, <2>2, <3>2, <3>4, <3>5, Zenon
  <2>5. CASE poll[p].reading[l] \in BOOLEAN
    <3>1. l \in read
      BY <2>5 DEF Pb!ProbesAssumption
    <3>2. lowBalanceState'[l] = poll[p].reading[l]
      BY <1>5, <3>1, Zenon
    <3>3. current'[l] => l \notin poll[p].changed
      BY <1>6, <3>1, Zenon
    <3>4. current'[l] => lowBalanceState'[l] = low'[l]
      BY <2>1, <2>2, <2>5, <3>2, <3>3 DEF Pb!PollHolds, Pb!ProbesAssumption
    <3>5. CASE poll[p].reading[l] = TRUE
      <4>1. lowBalanceState'[l]
        BY <3>2, <3>5, Zenon
      <4>2. CASE lowBalanceState[l]
        <5>1. raised'[l] = raised[l]
          BY <1>4, <4>2
        <5> QED
          BY <1>3, <3>4, <4>1, <5>1
      <4>3. CASE ~lowBalanceState[l]
        <5>1. raised'[l] = raised[l] + 1
          BY <1>4, <3>5, <4>3
        <5>2. ~clashed => raised[l] < crossed[l] + restarts
          BY <2>1, <3>5, <4>3 DEF Pb!PollHolds, Pb!Behind
        <5>3. ~clashed => raised'[l] <= crossed[l] + restarts
          BY <1>3, <5>1, <5>2
        <5> QED
          BY <3>4, <4>1, <5>3, Zenon
      <4> QED
        BY <4>2, <4>3
    <3>6. CASE poll[p].reading[l] = FALSE
      <4>1. raised'[l] = raised[l]
        BY <1>4, <3>6
      <4>2. ~clashed /\ low[l] => raised[l] < crossed[l] + restarts
        BY <2>1, <3>6 DEF Pb!PollHolds, Pb!Behind
      <4> QED
        BY <1>3, <3>4, <4>1, <4>2
    <3> QED
      BY <2>5, <3>5, <3>6
  <2> QED
    BY <2>3, <2>4, <2>5
<1>14. Pb!AlertsFollowTheBalance'
  BY <1>2, <1>13 DEF Pb!AlertsFollowTheBalance
<1>15. ~clashed' => \A l \in Pb!Labels : low'[l] /\ ~lowBalanceState'[l] => Pb!Behind(l)'
  BY <1>2, <1>13 DEF Pb!Behind
<1>16. ~clashed' => \A o, r \in Polls : poll'[o].at # "idle" /\ poll'[r].at # "idle" => o = r
  BY <1>2, <1>11
<1>17. low' \in [Pb!Labels -> BOOLEAN] /\ crossed' \in [Pb!Labels -> Nat] /\ restarts' \in Nat /\ clashed' \in BOOLEAN
  BY <1>2, <1>3 DEF Pb!TreasuryHolds
<1> QED
  BY <1>7, <1>8, <1>9, <1>10, <1>12, <1>14, <1>15, <1>16, <1>17 DEF Pb!TreasuryHolds

\* Nothing else touches the treasury's balances and their watch.
LEMMA TreasuryStep ==
  ASSUME Pb!ProbesAssumption, Pb!TreasuryHolds, [Pb!Next]_(Pb!vars)
  PROVE  Pb!TreasuryHolds'
<1>1. ASSUME UNCHANGED Pb!treasuryVars PROVE Pb!TreasuryHolds'
  BY <1>1 DEF Pb!TreasuryHolds, Pb!treasuryVars, Pb!PollHolds, Pb!Behind, Pb!AlertsFollowTheBalance
<1>2. CASE UNCHANGED Pb!vars
  BY <1>1, <1>2 DEF Pb!vars, Pb!treasuryVars
<1>3. CASE \E j \in Indexed : Pb!CreateJob(j) \/ \E status \in {"reconciling", "settled", "gone"} : Pb!UpdateJob(j, status)
  BY <1>1, <1>3 DEF Pb!CreateJob, Pb!UpdateJob
<1>4. CASE \E s \in Readings : Pb!ReadIndex(s) \/ Pb!ReadFails(s) \/ Pb!RecordJobScan(s) \/ \E j \in Indexed : Pb!ReadJob(s, j)
  BY <1>1, <1>4 DEF Pb!ReadIndex, Pb!ReadFails, Pb!RecordJobScan, Pb!ReadJob
<1>5. CASE Pb!FlipLink \/ Pb!Probe \/ Pb!Answer \/ Pb!Refuse \/ Pb!TimeOut \/ Pb!LateAnswer
  BY <1>1, <1>5 DEF Pb!FlipLink, Pb!Probe, Pb!Answer, Pb!Refuse, Pb!TimeOut, Pb!LateAnswer, Pb!Probing
<1> QED
  BY <1>2, <1>3, <1>4, <1>5, FlippingKeeps, LoadingKeeps, EvaluatingBalanceKeeps, RestartingKeeps DEF Pb!Next

LEMMA ProbesInit == ASSUME Pb!ProbesAssumption, Pb!Init PROVE Pb!ProbesInv
BY IndexedInit, TreasuryInit DEF Pb!ProbesInv, Pb!LinkHolds, Pb!DownIsShown, Pb!Init

\* An answer to a probe is of a dependency that was up while it was asked.
LEMMA LinkStep ==
  ASSUME Pb!LinkHolds, [Pb!Next]_(Pb!vars)
  PROVE  Pb!LinkHolds'
<1>1. ASSUME UNCHANGED link PROVE Pb!LinkHolds'
  BY <1>1 DEF Pb!LinkHolds, Pb!DownIsShown
<1>2. CASE Pb!FlipLink \/ Pb!Probe \/ Pb!Answer \/ Pb!Refuse \/ Pb!TimeOut \/ Pb!LateAnswer
  BY <1>2 DEF Pb!FlipLink, Pb!Probe, Pb!Answer, Pb!Refuse, Pb!TimeOut, Pb!LateAnswer, Pb!Finish,
              Pb!LinkHolds, Pb!DownIsShown
<1>3. CASE UNCHANGED Pb!vars
  BY <1>1, <1>3 DEF Pb!vars
<1>4. CASE \E j \in Indexed : Pb!CreateJob(j) \/ \E status \in {"reconciling", "settled", "gone"} : Pb!UpdateJob(j, status)
  BY <1>1, <1>4 DEF Pb!CreateJob, Pb!UpdateJob
<1>5. CASE \E s \in Readings : Pb!ReadIndex(s) \/ Pb!ReadFails(s) \/ Pb!RecordJobScan(s) \/ \E j \in Indexed : Pb!ReadJob(s, j)
  BY <1>1, <1>5 DEF Pb!ReadIndex, Pb!ReadFails, Pb!RecordJobScan, Pb!ReadJob
<1>6. CASE (\E l \in Pb!Labels : Pb!Flip(l)) \/ Pb!Restart
  BY <1>1, <1>6 DEF Pb!Flip, Pb!Restart
<1>7. CASE \E p \in Polls : \/ Pb!CheckTreasuryBalance(p) \/ Pb!EvaluateBalance(p)
                            \/ \E fails \in BOOLEAN : Pb!LoadPlatform(p, fails) \/ Pb!LoadPool(p, fails)
  BY <1>1, <1>7 DEF Pb!CheckTreasuryBalance, Pb!EvaluateBalance, Pb!LoadPlatform, Pb!LoadPool
<1> QED
  BY <1>2, <1>3, <1>4, <1>5, <1>6, <1>7 DEF Pb!Next

LEMMA ProbesStep == Pb!ProbesAssumption /\ Pb!ProbesInv /\ [Pb!Next]_(Pb!vars) => Pb!ProbesInv'
BY IndexedStep, TreasuryStep, LinkStep DEF Pb!ProbesInv

LEMMA ProbesAreTrue == Pb!ProbesInv => Pb!ProbesHold
BY DEF Pb!ProbesInv, Pb!JobsHold, Pb!TreasuryHolds, Pb!LinkHolds, Pb!ProbesHold

\* What operators are shown counts every indexed job that was in flight throughout the
\* scan and none that was not when it began, tells of each fall of a balance once at most
\* unless polls overlapped, and shows a dependency that was down all through its probe as
\* down (healthProbes.js, metrics.js, alerting.js).
THEOREM ProbesShowWhatIs == ASSUME Pb!ProbesAssumption PROVE Pb!Spec => []Pb!ProbesHold
<1>1. Pb!Init => Pb!ProbesInv
  BY ProbesInit
<1>2. Pb!ProbesInv /\ [Pb!Next]_(Pb!vars) => Pb!ProbesInv'
  BY ProbesStep
<1>3. Pb!ProbesInv => Pb!ProbesHold
  BY ProbesAreTrue
<1> QED
  BY <1>1, <1>2, <1>3, PTL DEF Pb!Spec
===============================================================================
