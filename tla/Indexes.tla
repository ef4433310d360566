------------------------------- MODULE Indexes -------------------------------
(***************************************************************************)
(* The durable lists of the backend.  Several components keep one list per *)
(* address (or job) and one bounded index of the addresses that have one:  *)
(* payer questions, payment reversals, anchor transactions, private pools, *)
(* push subscriptions, job records.  Every list is read, edited and        *)
(* written back with an await in between, and nothing makes two lists      *)
(* change together.                                                        *)
(***************************************************************************)
EXTENDS Naturals, FiniteSets, Sequences, SequencesExt

CONSTANTS Addresses, Items, Calls, None,
          MaxTracked,  \* MAX_TRACKED_*: the longest index, and list of one address
          MaxPool      \* MAX_POOL_SIZE

IndexesAssumption == /\ MaxTracked \in Nat \ {0} /\ MaxPool \in Nat \ {0} /\ IsFiniteSet(Addresses)
                     /\ "index" \notin Addresses /\ Items \cap Addresses = {} /\ None \notin Addresses

VARIABLES family,  \* which component's lists: they share no key
          lists,   \* the stored lists: of an address, or the index
          call,    \* a request's steps left, and what it read
          cut      \* lists a write lost something of, steps that never ran

vars == <<family, lists, call, cut>>

Families == {"questions", "reversals", "transactions", "pool", "subscription", "job"}
Index == "index"
Keys == Addresses \cup {Index}
Idle == [at |-> "idle", todo |-> <<>>, read |-> <<>>]
Running(c) == call[c].at \in {"read", "write"}
Edit(key, how, item) == [key |-> key, how |-> how, item |-> item]

\* filter() of a list that holds x once at most, as all do that are filtered.
Without(list, x) ==
  LET found == {i \in DOMAIN list : list[i] = x}
      n == CHOOSE i \in found : TRUE
  IN IF found = {} THEN list
     ELSE [i \in 1..(Len(list) - 1) |-> IF i < n THEN list[i] ELSE list[i + 1]]
Bounded(list) == SubSeq(list, 1, IF Len(list) < MaxTracked THEN Len(list) ELSE MaxTracked)
Edited(list, edit) ==
  LET x == edit.item
      known == x \in ToSet(list)
  IN CASE edit.how = "front"  -> Bounded(<<x>> \o Without(list, x))
       [] edit.how = "push"   -> Bounded(<<x>> \o list)
       [] edit.how = "add"    -> IF known THEN list ELSE Bounded(<<x>> \o list)
       [] edit.how = "pool"   -> IF known \/ Len(list) >= MaxPool THEN list ELSE <<x>> \o list
       [] edit.how = "append" -> IF known THEN list ELSE Append(list, x)
       [] edit.how = "set"    -> <<x>>
       [] edit.how = "drop"   -> Without(list, x)
       [] edit.how = "clear"  -> <<>>

----------------------------------------------------------------------------
\* What each request edits, in order.
RecordPayerQuestion(a, x) == <<Edit(a, "front", x), Edit(Index, "add", a)>>
ErasePayerRecords(a) == <<Edit(a, "clear", None), Edit(Index, "drop", a)>>
RecordPaymentReversal(a, x) == <<Edit(a, "push", x), Edit(Index, "add", a)>>
RecordAnchorTransaction(a, x) == <<Edit(a, "front", x), Edit(Index, "add", a)>>
EraseAnchorRecords(a) == <<Edit(a, "clear", None), Edit(Index, "drop", a)>>
AddPoolWorkers(a, x) == <<Edit(a, "pool", x), Edit(Index, "add", a)>>
RemovePoolWorkers(a, x) == <<Edit(a, "drop", x)>>
SaveSubscription(a, x) == <<Edit(a, "set", x), Edit(Index, "append", a)>>
RemoveSubscription(a) == <<Edit(a, "clear", None), Edit(Index, "drop", a)>>
CreateJob(a, x) == <<Edit(a, "set", x), Edit(Index, "add", a)>>

Requests(a, x) ==
  CASE family = "questions"    -> {RecordPayerQuestion(a, x), ErasePayerRecords(a)}
    [] family = "reversals"    -> {RecordPaymentReversal(a, x)}
    [] family = "transactions" -> {RecordAnchorTransaction(a, x), EraseAnchorRecords(a)}
    [] family = "pool"         -> {AddPoolWorkers(a, x), RemovePoolWorkers(a, x)}
    [] family = "subscription" -> {SaveSubscription(a, x), RemoveSubscription(a)}
    [] family = "job"          -> {CreateJob(a, x)}

\* A payer is indexed with the first question only; a pool with an addition
\* that was neither refused nor known.
MutantGoesOn(list, edit) ==
  CASE family = "questions" /\ edit.how = "front" -> list # <<>>
    [] family = "pool" -> Edited(list, edit) # list
    [] OTHER -> TRUE
GoesOn(list, edit) ==
  CASE family = "questions" /\ edit.how = "front" -> list = <<>>
    [] family = "pool" -> Edited(list, edit) # list
    [] OTHER -> TRUE

Init == /\ family \in Families /\ lists = [k \in Keys |-> <<>>]
        /\ call = [c \in Calls |-> Idle] /\ cut = {}

\* Requests about one address that overlap, one of them removing, are noted.
About(a, todo) == \E i \in DOMAIN todo : a \in {todo[i].key, todo[i].item}
Removes(todo) == \E i \in DOMAIN todo : todo[i].how \in {"drop", "clear"}
Begin(c, a, x) == \E todo \in Requests(a, x) :
  /\ call[c].at = "idle"
  /\ call' = [call EXCEPT ![c] = [Idle EXCEPT !.at = "read", !.todo = todo]]
  /\ cut' = IF \E d \in Calls : Running(d) /\ About(a, call[d].todo) /\ (Removes(todo) \/ Removes(call[d].todo))
            THEN cut \cup {a} ELSE cut
  /\ UNCHANGED <<family, lists>>

Step(c, on) ==
  LET rest == Tail(call[c].todo)
  IN IF on /\ rest # <<>> THEN [Idle EXCEPT !.at = "read", !.todo = rest] ELSE [Idle EXCEPT !.at = "done"]

\* Reads a list; an edit that would change nothing is not written, one that
\* needs no reading is.
ReadList(c) ==
  LET edit == Head(call[c].todo)
      list == lists[edit.key]
  IN /\ call[c].at = "read" /\ edit.how \notin {"set", "clear"}
     /\ call' = [call EXCEPT ![c] = IF Edited(list, edit) # list
          THEN [@ EXCEPT !.at = "write", !.read = list] ELSE Step(c, GoesOn(list, edit))]
     /\ UNCHANGED <<family, lists, cut>>

\* What the write loses: an edit since the read, or the oldest of a full list.
Lost(c) == LET edit == Head(call[c].todo)
               read == call[c].read
           IN lists[edit.key] # read \/ ~(ToSet(read) \ {edit.item} \subseteq ToSet(Edited(read, edit)))
WriteList(c) ==
  LET edit == Head(call[c].todo)
  IN /\ call[c].at = "write"
     /\ lists' = [lists EXCEPT ![edit.key] = Edited(call[c].read, edit)]
     /\ cut' = IF Lost(c) THEN cut \cup {edit.key} ELSE cut
     /\ call' = [call EXCEPT ![c] = Step(c, GoesOn(call[c].read, edit))]
     /\ UNCHANGED family

SetList(c) ==
  LET edit == Head(call[c].todo)
  IN /\ call[c].at = "read" /\ edit.how \in {"set", "clear"}
     /\ lists' = [lists EXCEPT ![edit.key] = Edited(@, edit)]
     /\ call' = [call EXCEPT ![c] = Step(c, TRUE)] /\ UNCHANGED <<family, cut>>

\* The store throws or the process dies: the steps left are never made.
Fail(c) == /\ Running(c)
           /\ cut' = cut \cup {call[c].todo[i].key : i \in DOMAIN call[c].todo}
           /\ call' = [call EXCEPT ![c] = [Idle EXCEPT !.at = "done"]] /\ UNCHANGED <<family, lists>>

Next == \E c \in Calls : \/ \E a \in Addresses, x \in Items : Begin(c, a, x)
                         \/ ReadList(c) \/ WriteList(c) \/ SetList(c) \/ Fail(c)

Spec == Init /\ [][Next]_vars

----------------------------------------------------------------------------
\* Lists stay bounded and, reversals apart, hold nothing twice.
ListOK(k, list) ==
  /\ list \in Seq(IF k = Index THEN Addresses ELSE Items)
  /\ Len(list) <= IF k # Index /\ family = "pool" THEN MaxPool
                  ELSE IF k = Index /\ family = "subscription" THEN Cardinality(Addresses) ELSE MaxTracked
  /\ family # "reversals" => IsInjective(list)
TypeOK == /\ family \in Families /\ cut \subseteq Keys /\ DOMAIN call = Calls /\ DOMAIN lists = Keys
          /\ \A k \in Keys : ListOK(k, lists[k])

\* An address with a list is in the index, which is all that admins, exports
\* and restarts go by, once its requests are done: unless a removal overlapped
\* another request, a write fell between another's read and write, the index
\* was full or a request failed half-way.
IndexedIfStored == (\A c \in Calls : ~Running(c)) => \A a \in Addresses :
  lists[a] # <<>> /\ cut \cap {a, Index} = {} => a \in ToSet(lists[Index])

\* The inductive invariant: what a request still has to do; that nobody else is about an
\* address while one removes it, so that its list is empty until it is out of the index; and
\* that somebody is about to index an address that is not and has a list.
Adds == IF family = "subscription" THEN "append" ELSE "add"
Left(todo) == \E a \in Addresses :
  \/ \E x \in Items : todo \in Requests(a, x)
  \/ todo = <<Edit(Index, Adds, a)>>
  \/ family # "reversals" /\ todo = <<Edit(Index, "drop", a)>>
CallsHold == \A c \in Calls :
  /\ call[c] = [at |-> call[c].at, todo |-> call[c].todo, read |-> call[c].read]
  /\ call[c].at \in {"idle", "read", "write", "done"}
  /\ Running(c) => Left(call[c].todo)
  /\ call[c].at = "write" => LET edit == Head(call[c].todo)
                            IN /\ edit.how \notin {"set", "clear"} /\ ListOK(edit.key, call[c].read)
                               /\ Edited(call[c].read, edit) # call[c].read
RemovedAlone == \A a \in Addresses \ cut, c, d \in Calls :
  Running(c) /\ About(a, call[c].todo) /\ Running(d) /\ About(a, call[d].todo) /\ Removes(call[c].todo) => c = d
EmptiedFirst == \A a \in Addresses \ cut, c \in Calls :
  Running(c) /\ call[c].todo = <<Edit(Index, "drop", a)>> => lists[a] = <<>>
Indexing(a) == \E c \in Calls : Running(c) /\ call[c].todo = <<Edit(Index, Adds, a)>>
Covered == \A a \in Addresses :
  lists[a] # <<>> /\ cut \cap {a, Index} = {} => a \in ToSet(lists[Index]) \/ Indexing(a)
IndexesInv == TypeOK /\ CallsHold /\ RemovedAlone /\ EmptiedFirst /\ Covered
=============================================================================
