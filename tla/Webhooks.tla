------------------------------- MODULE Webhooks -------------------------------
(***************************************************************************)
(* One owner's settlement webhooks: registrations (webhooks.js) and the    *)
(* signed deliveries to them (webhookDelivery.js).  A registration is a    *)
(* record, an entry of the owner's list and an entry of the list of all;   *)
(* each is read and written in separate steps.  The end of                *)
(* deliverWithRetry() is missing from the tree: 410 and giving up follow   *)
(* its header.                                                             *)
(***************************************************************************)
EXTENDS Integers, FiniteSets

CONSTANTS Ids, Urls,
          Literal,      \* urls whose host is an address, not a name
          Private,      \* those of them in the backend's own network
          Edits,        \* POST and DELETE /webhooks requests
          Events,       \* settlements announced
          MaxPerOwner, MaxAttempts, None

WebhookAssumption == /\ Private \subseteq Literal /\ Literal \subseteq Urls
                     /\ MaxPerOwner \in Nat /\ MaxAttempts \in Nat \ {0}
                     /\ IsFiniteSet(Events) /\ None \notin Ids \cup [url : Urls, active : BOOLEAN]

VARIABLES reg,          \* webhook:<id>
          owned,        \* webhooks-by-owner:<owner>
          index,        \* known-webhook-ids
          counts,       \* webhook-delivery:<id>, how many were delivered
          edit, event,  \* requests and announcements under way
          task,         \* deliverWithRetry() of an event to a registration
          deleted,      \* ids whose deletion was answered
          contacted     \* addresses that were posted to

vars == <<reg, owned, index, counts, edit, event, task, deleted, contacted>>
store == <<reg, owned, index, counts>>

\* What a delivery keeps: where it is posted, the registration and the count it read.
NoTask == [at |-> "idle", try |-> 0, url |-> None, found |-> None, count |-> 0]

Init == /\ reg = [i \in Ids |-> None] /\ owned = {} /\ index = {} /\ deleted = {}
        /\ counts = [i \in Ids |-> 0] /\ contacted = {}
        /\ edit = [e \in Edits |-> [at |-> "idle", id |-> None, url |-> None, ids |-> {}]]
        /\ event = [n \in Events |-> [at |-> "idle", ids |-> {}, before |-> {}]]
        /\ task = [n \in Events |-> [i \in Ids |-> NoTask]]

Go(e, r) == edit' = [edit EXCEPT ![e] = r]
Fresh(i) == reg[i] = None /\ \A e \in Edits : edit[e].id # i
Stored(ids) == {i \in ids : reg[i] # None}

----------------------------------------------------------------------------
\* A literal address is checked here and only here: it is never looked up.
ValidateWebhookUrl(u) == u \notin Private

RegisterWebhook(e, u) ==
  /\ edit[e].at = "idle" /\ ValidateWebhookUrl(u)
  /\ Go(e, [at |-> "check", id |-> None, url |-> u, ids |-> owned])
  /\ UNCHANGED <<store, event, task, deleted, contacted>>

\* The limit and the duplicate are checked on the list that was read.
CheckExisting(e, i) ==
  LET existing == Stored(edit[e].ids)
  IN /\ edit[e].at = "check" /\ Fresh(i)
     /\ IF Cardinality(existing) >= MaxPerOwner \/ \E x \in existing : reg[x].url = edit[e].url
        THEN Go(e, [edit[e] EXCEPT !.at = "answered"])
        ELSE Go(e, [edit[e] EXCEPT !.at = "write", !.id = i, !.ids = existing])
     /\ UNCHANGED <<store, event, task, deleted, contacted>>

DeleteWebhook(e, i) ==
  /\ edit[e].at = "idle" /\ reg[i] # None
  /\ Go(e, [at |-> "delete", id |-> i, url |-> None, ids |-> {}])
  /\ UNCHANGED <<store, event, task, deleted, contacted>>

\* The awaits of both, in order; the deletion of the record and of its counts
\* is one step, since nothing reads one after the other.
EditStep(e) ==
  LET i == edit[e].id
      At(from, to) == edit[e].at = from /\ Go(e, [edit[e] EXCEPT !.at = to])
      Reads(from, to, list) == edit[e].at = from /\ Go(e, [edit[e] EXCEPT !.at = to, !.ids = list])
  IN /\ \/ /\ At("write", "own")
           /\ reg' = [reg EXCEPT ![i] = [url |-> edit[e].url, active |-> TRUE]]
           /\ UNCHANGED <<owned, index, counts, deleted>>
        \/ /\ At("own", "index") /\ owned' = edit[e].ids \cup {i}
           /\ UNCHANGED <<reg, index, counts, deleted>>
        \/ Reads("index", "reindex", index) /\ UNCHANGED <<store, deleted>>
        \/ /\ At("reindex", "answered") /\ index' = edit[e].ids \cup {i}
           /\ UNCHANGED <<reg, owned, counts, deleted>>
        \/ /\ At("delete", "list") /\ reg' = [reg EXCEPT ![i] = None]
           /\ counts' = [counts EXCEPT ![i] = 0] /\ UNCHANGED <<owned, index, deleted>>
        \/ Reads("list", "disown", owned) /\ UNCHANGED <<store, deleted>>
        \/ /\ At("disown", "all") /\ owned' = edit[e].ids \ {i}
           /\ UNCHANGED <<reg, index, counts, deleted>>
        \/ Reads("all", "unindex", index) /\ UNCHANGED <<store, deleted>>
        \/ /\ At("unindex", "answered") /\ index' = edit[e].ids \ {i} /\ deleted' = deleted \cup {i}
           /\ UNCHANGED <<reg, owned, counts>>
     /\ UNCHANGED <<event, task, contacted>>

----------------------------------------------------------------------------
\* getDeliveryTargets(): the owner's list, then the records on it.
Announce(n) ==
  /\ event[n].at = "idle"
  /\ event' = [event EXCEPT ![n] = [at |-> "targets", ids |-> owned, before |-> deleted]]
  /\ UNCHANGED <<store, edit, task, deleted, contacted>>

GetDeliveryTargets(n) ==
  LET targets == {i \in Stored(event[n].ids) : reg[i].active}
  IN /\ event[n].at = "targets"
     /\ event' = [event EXCEPT ![n].at = "sending", ![n].ids = targets]
     /\ task' = [task EXCEPT ![n] = [i \in Ids |-> IF i \in targets
          THEN [at |-> "post", try |-> 1, url |-> reg[i].url, found |-> None, count |-> 0]
          ELSE task[n][i]]]
     /\ UNCHANGED <<store, edit, deleted, contacted>>

\* Where a host leads when it is looked up: a name may lead anywhere by then.
Resolves(u) == IF u \in Private THEN {"blocked"} ELSE IF u \in Literal THEN {"public"}
               ELSE {"public", "blocked"}

MutantGuardedLookup(u, a) == TRUE

\* guardedLookup() refuses a blocked address; a literal one is not looked up.
GuardedLookup(u, a) == u \in Literal \/ a = "public"

\* One attempt: answered 410 or 2xx, or failed and retried up to the limit.
PostOnce(n, i) ==
  LET t == task[n][i] IN
  /\ t.at = "post"
  /\ \/ \E a \in Resolves(t.url) :
          /\ GuardedLookup(t.url, a) /\ contacted' = contacted \cup {a}
          /\ \/ task' = [task EXCEPT ![n][i] = [t EXCEPT !.at = "deactivate", !.found = reg[i]]]
             \/ task' = [task EXCEPT ![n][i] = [t EXCEPT !.at = "record", !.count = counts[i]]]
     \/ /\ task' = [task EXCEPT ![n][i] = IF t.try < MaxAttempts
             THEN [t EXCEPT !.try = t.try + 1] ELSE [t EXCEPT !.at = "abandoned"]]
        /\ UNCHANGED contacted
  /\ UNCHANGED <<store, edit, event, deleted>>

\* deactivateWebhook() writes back what it read, so it may revive a record
\* that was deleted in between.
DeactivateWebhook(n, i) ==
  LET t == task[n][i] IN
  /\ t.at = "deactivate"
  /\ reg' = IF t.found = None THEN reg ELSE [reg EXCEPT ![i] = [t.found EXCEPT !.active = FALSE]]
  /\ task' = [task EXCEPT ![n][i].at = "gone"]
  /\ UNCHANGED <<owned, index, counts, edit, event, deleted, contacted>>

RecordDelivery(n, i) ==
  LET t == task[n][i] IN
  /\ t.at = "record"
  /\ counts' = [counts EXCEPT ![i] = t.count + 1]
  /\ task' = [task EXCEPT ![n][i].at = "delivered"]
  /\ UNCHANGED <<reg, owned, index, edit, event, deleted, contacted>>

Next ==
  \/ \E e \in Edits : \/ EditStep(e)
                      \/ \E u \in Urls : RegisterWebhook(e, u)
                      \/ \E i \in Ids : CheckExisting(e, i) \/ DeleteWebhook(e, i)
  \/ \E n \in Events : \/ Announce(n) \/ GetDeliveryTargets(n)
                       \/ \E i \in Ids : PostOnce(n, i) \/ DeactivateWebhook(n, i) \/ RecordDelivery(n, i)

Spec == Init /\ [][Next]_vars

----------------------------------------------------------------------------
Registrations == [url : Urls \ Private, active : BOOLEAN]
Delivered(i) == {n \in Events : task[n][i].at = "delivered"}

EditRecords == [at : {"idle", "check", "write", "own", "index", "reindex", "delete", "list",
                      "disown", "all", "unindex", "answered"},
                id : Ids \cup {None}, url : Urls \cup {None}, ids : SUBSET Ids]
EventRecords == [at : {"idle", "targets", "sending"}, ids : SUBSET Ids, before : SUBSET deleted]
TaskRecords == [at : {"idle", "post", "deactivate", "record", "abandoned", "gone", "delivered"},
                try : 0..MaxAttempts, url : Urls \cup {None},
                found : Registrations \cup {None}, count : 0..Cardinality(Events)]

TypeOK ==
  /\ reg \in [Ids -> Registrations \cup {None}]
  /\ owned \subseteq Ids /\ index \subseteq Ids /\ deleted \subseteq Ids
  /\ counts \in [Ids -> 0..Cardinality(Events)]
  /\ edit \in [Edits -> EditRecords]
  /\ event \in [Events -> EventRecords]
  /\ task \in [Events -> [Ids -> TaskRecords]]
  /\ contacted \subseteq {"public", "blocked"}

\* An event announced after a deletion was answered is not delivered to the
\* deleted webhook, though a stale list may name it and a late 410 revive it.
DeletedGetsNoEvent == \A n \in Events : event[n].at = "sending" => event[n].ids \cap event[n].before = {}

\* Nothing is ever posted to an address of the backend's own network: what
\* registration cannot see is caught when the name is looked up.
NeverToABlockedAddress == "blocked" \notin contacted

\* The inductive invariant of both.  An id that is being written is its writer's
\* alone, so that a webhook that is, or is about to be, deleted is never active
\* again; a delivery holds what it took from a registration that was stored; and
\* the deliveries of a webhook are no fewer than its count.
Dead(i) == reg[i] = None \/ ~reg[i].active
EditsHold == \A e \in Edits :
  /\ edit[e].at \in {"idle", "check"} => edit[e].id = None
  /\ edit[e].at \notin {"idle", "check", "answered"} => edit[e].id \in Ids
  /\ edit[e].at \in {"check", "write"} => edit[e].url \in Urls \ Private
  /\ edit[e].at \in {"list", "disown", "all", "unindex"} => Dead(edit[e].id)
  /\ edit[e].at = "write" =>
       /\ reg[edit[e].id] = None
       /\ \A f \in Edits \ {e} : edit[f].id # edit[e].id
       /\ \A n \in Events : task[n][edit[e].id].at = "deactivate" =>
            task[n][edit[e].id].found = None
DeletedStaysDead == \A i \in deleted :
  Dead(i) /\ \E e \in Edits : edit[e].id = i /\ edit[e].at # "write"
TasksHold == \A n \in Events, i \in Ids : LET t == task[n][i] IN
  /\ event[n].at \in {"idle", "targets"} => t.at = "idle"
  /\ t.at = "post" => t.url \in Urls \ Private
  /\ t.at = "deactivate" /\ t.found # None =>
       reg[i] # None \/ \E e \in Edits : edit[e].id = i
  /\ t.at = "record" => t.count <= Cardinality(Delivered(i))
CountsHold == \A i \in Ids : counts[i] <= Cardinality(Delivered(i))

WebhooksInv ==
  /\ TypeOK /\ EditsHold /\ DeletedStaysDead /\ TasksHold /\ CountsHold
  /\ DeletedGetsNoEvent /\ NeverToABlockedAddress
=============================================================================
