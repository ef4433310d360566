------------------------------- MODULE Clients -------------------------------
(***************************************************************************)
(* The client libraries (sdk/typescript, sdk/python, mcp-server) against   *)
(* POST /oracle and GET /oracle/:jobId.  A client gives an attempt up on a *)
(* lost connection or after its own timeout and may send the request again *)
(* while the backend still works on the first one.                         *)
(*                                                                         *)
(* In one behaviour all clients use one library to do one thing: ask for a *)
(* challenge with one Idempotency-Key, ask and be charged, report the      *)
(* payment of one question, or wait for its job.                           *)
(***************************************************************************)
EXTENDS Integers, FiniteSets

CONSTANTS Calls, MaxRetries,
          MaxPolls,  \* polls until the deadline of submitPayment() and of a wait
          None

Replies == {"ok", "busy", "refused", "not_visible", "running"}
ClientsAssumption == MaxRetries \in Nat /\ MaxPolls \in Nat /\ None \notin Nat \cup Replies \cup {"settled"}

VARIABLES kind, sdk,
          call,      \* [step, attempt, polls, got] of each client's call
          handler,   \* of each request a client sent, [step, id, reply], by the poll and the
                     \* attempt it belongs to, unless it was answered and given up
          server     \* what the requests read and write

vars == <<kind, sdk, call, handler, server>>

Kinds == {"challenge", "charge", "submit", "wait"}
Sdks == {"typescript", "python", "mcp"}

Init ==
  /\ kind \in Kinds
  /\ sdk \in Sdks /\ (sdk = "mcp" => kind \in {"charge", "wait"})
  /\ call = [c \in Calls |-> [step |-> "start", attempt |-> 0, polls |-> 0, got |-> None]]
  /\ handler = [c \in Calls |-> [i \in {} |-> None]]
  /\ server = [cached |-> None, minted |-> 0, overlapped |-> FALSE, charges |-> [c \in Calls |-> 0],
               visible |-> FALSE, stashed |-> kind = "submit", claims |-> 0,
               job |-> IF kind = "wait" THEN "running" ELSE None]

----------------------------------------------------------------------------
\* RequestSpec.retry: never where a lost response may hide a charge.
MutantAttempts(c) == IF sdk = "mcp" THEN 1 ELSE MaxRetries + 1
Attempts(c) == IF sdk = "mcp" \/ kind = "charge" THEN 1 ELSE MaxRetries + 1

\* The attempt a call is at, or is waiting for.
Now(c) == <<call[c].polls, call[c].attempt>>

\* Another attempt: what works on the earlier ones goes on.
Request(c) ==
  LET sent == <<call[c].polls, call[c].attempt + 1>>
      working == {i \in DOMAIN handler[c] : handler[c][i].reply = None}
  IN /\ call[c].step \in {"start", "sleeping"}
     /\ call' = [call EXCEPT ![c].step = "waiting", ![c].attempt = call[c].attempt + 1]
     /\ handler' = [handler EXCEPT ![c] = [i \in working \cup {sent} |->
          IF i = sent THEN [step |-> "arrived", id |-> None, reply |-> None] ELSE handler[c][i]]]
     /\ UNCHANGED <<kind, sdk, server>>

\* The reply that arrives, or none: a timeout, a reset, a request never received.
Heard(c) == {"network", handler[c][Now(c)].reply} \ {None}

Ends(c, step, got) == [call[c] EXCEPT !.step = step, !.got = got]
PollAgain(c) == [call[c] EXCEPT !.step = "start", !.attempt = 0, !.polls = call[c].polls + 1]

\* One attempt of request(): network failures and RETRYABLE_STATUS are retried.
AfterAttempt(c, r) ==
  IF r \in {"network", "busy"} /\ call[c].attempt < Attempts(c)
  THEN [call[c] EXCEPT !.step = "sleeping"] ELSE Ends(c, "raised", r)

\* submitPayment() and waitForResult() poll until the deadline, then throw.
PollingReply(c) ==
  /\ call[c].step = "waiting"
  /\ \E r \in Heard(c) : call' = [call EXCEPT ![c] =
       IF r = "ok" THEN Ends(c, "returned", handler[c][Now(c)].id)
       ELSE IF r \in {"not_visible", "running"} /\ call[c].polls < MaxPolls THEN PollAgain(c)
       ELSE AfterAttempt(c, r)]
  /\ UNCHANGED <<kind, sdk, handler, server>>

TypescriptReply(c) == sdk = "typescript" /\ PollingReply(c)
PythonReply(c) == sdk = "python" /\ PollingReply(c)

\* awaitJob() returns the job as it is when its time is up.
McpReply(c) ==
  /\ sdk = "mcp" /\ call[c].step = "waiting"
  /\ \E r \in Heard(c) : call' = [call EXCEPT ![c] =
       IF r = "running" /\ call[c].polls < MaxPolls THEN PollAgain(c)
       ELSE IF r \in {"ok", "running"} THEN Ends(c, "returned", handler[c][Now(c)].id)
       ELSE AfterAttempt(c, r)]
  /\ UNCHANGED <<kind, sdk, handler, server>>

----------------------------------------------------------------------------
Working(c, i, step) == i \in DOMAIN handler[c] /\ handler[c][i].step = step
Moves(c, i, step, id) ==
  handler' = [handler EXCEPT ![c][i] = [step |-> step, id |-> id, reply |-> None]]
Answers(c, i, id, reply) ==
  handler' = [handler EXCEPT ![c][i] = [step |-> "answered", id |-> id, reply |-> reply]]
Clients == <<kind, sdk, call>>

\* 503 from a draining instance, 429 from the limiter, before anything is done.
Busy(c, i) ==
  /\ Working(c, i, "arrived") /\ Answers(c, i, None, "busy") /\ UNCHANGED <<Clients, server>>

\* issueChallengeIdempotent(): looked up, minted and saved in separate steps.
LookUpKey(c, i) ==
  /\ kind = "challenge" /\ Working(c, i, "arrived")
  /\ IF server.cached # None THEN Answers(c, i, server.cached, "ok") /\ UNCHANGED server
     ELSE /\ Moves(c, i, "saving", server.minted + 1)
          /\ server' = [server EXCEPT !.minted = @ + 1, !.overlapped = server.overlapped \/
               \E d \in Calls : \E j \in DOMAIN handler[d] : handler[d][j].step = "saving"]
  /\ UNCHANGED Clients

SaveKey(c, i) ==
  /\ Working(c, i, "saving") /\ Answers(c, i, handler[c][i].id, "ok")
  /\ server' = [server EXCEPT !.cached = handler[c][i].id] /\ UNCHANGED Clients

\* The metered and API-key paths: charged on chain, then stashed and started.
Charge(c, i) ==
  /\ kind = "charge" /\ Working(c, i, "arrived")
  /\ \/ Answers(c, i, None, "refused") /\ UNCHANGED server       \* no balance, no credit
     \/ Moves(c, i, "charged", c) /\ server' = [server EXCEPT !.charges[c] = @ + 1]
  /\ UNCHANGED Clients

Started(c, i) ==
  /\ Working(c, i, "charged") /\ \E r \in {"ok", "busy"} : Answers(c, i, c, r)  \* 202, or 500
  /\ UNCHANGED <<Clients, server>>

\* Step 2 of the classic flow: verifyPayment(), then claimJob().
Verify(c, i) ==
  /\ kind = "submit" /\ Working(c, i, "arrived")
  /\ IF ~server.stashed THEN Answers(c, i, None, "refused")
     ELSE IF ~server.visible THEN Answers(c, i, None, "not_visible") ELSE Moves(c, i, "verified", None)
  /\ UNCHANGED <<Clients, server>>

Claim(c, i) ==
  /\ Working(c, i, "verified") /\ Answers(c, i, "job", "ok")
  /\ server' = IF server.job # None THEN server
               ELSE [server EXCEPT !.job = "running", !.claims = server.claims + 1]
  /\ UNCHANGED Clients

\* 202 while the job runs, 200 once it is settled.
GetJob(c, i) ==
  /\ kind = "wait" /\ Working(c, i, "arrived")
  /\ Answers(c, i, server.job, IF server.job = "settled" THEN "ok" ELSE "running")
  /\ UNCHANGED <<Clients, server>>

PaymentLands ==
  /\ kind = "submit" /\ ~server.visible /\ server' = [server EXCEPT !.visible = TRUE]
  /\ UNCHANGED <<Clients, handler>>

SettleJob ==
  /\ server.job = "running" /\ server' = [server EXCEPT !.job = "settled", !.stashed = FALSE]
  /\ UNCHANGED <<Clients, handler>>

Next == \/ PaymentLands \/ SettleJob
        \/ \E c \in Calls : Request(c) \/ TypescriptReply(c) \/ PythonReply(c) \/ McpReply(c)
        \/ \E c \in Calls : \E i \in DOMAIN handler[c] :
             \/ Busy(c, i) \/ LookUpKey(c, i) \/ SaveKey(c, i) \/ Charge(c, i) \/ Started(c, i)
             \/ Verify(c, i) \/ Claim(c, i) \/ GetJob(c, i)

Spec == Init /\ [][Next]_vars

----------------------------------------------------------------------------
Returned(c) == call[c].step = "returned"

\* Whatever a client gives up and repeats, an ask is charged at most once and
\* one question is fulfilled at most once; a key names one question as long as
\* no two attempts under it overlapped; a client that was answered holds what
\* the backend has: a charge, a claimed job, a minted question, and - from a
\* library that promises it - a job that is settled.
AskedOnce ==
  /\ \A c \in Calls : server.charges[c] <= 1 /\ (kind = "charge" /\ Returned(c) => server.charges[c] = 1)
  /\ server.claims <= 1
  /\ server.minted > 1 => server.overlapped
  /\ \A c \in Calls : Returned(c) =>
       /\ kind = "challenge" => call[c].got \in 1..server.minted
       /\ kind = "submit" => server.claims = 1
       /\ kind = "wait" /\ sdk # "mcp" => call[c].got = "settled"

\* The inductive invariant: what is known of a request at each of its steps,
\* and that a call which may be charged sends one.
SentBefore(c, i) == /\ i = <<i[1], i[2]>> /\ i[1] \in 0..call[c].polls /\ i[2] \in 1..(MaxRetries + 1)
                    /\ i[1] = call[c].polls => i[2] <= call[c].attempt
CallsHold == \A c \in Calls :
  /\ call[c] = [step |-> call[c].step, attempt |-> call[c].attempt, polls |-> call[c].polls, got |-> call[c].got]
  /\ call[c].polls \in 0..MaxPolls /\ call[c].attempt \in 0..(MaxRetries + 1)
  /\ call[c].step = "start" => call[c].attempt = 0
  /\ call[c].step = "sleeping" => call[c].attempt < Attempts(c)
  /\ call[c].step = "waiting" => Now(c) \in DOMAIN handler[c] /\ call[c].attempt >= 1
  /\ kind = "charge" => /\ call[c].polls = 0 /\ call[c].attempt <= 1
                        /\ call[c].attempt = 0 => DOMAIN handler[c] = {}

Under(c, i) == LET h == handler[c][i] IN
  /\ SentBefore(c, i)
  /\ h.reply \in Replies \cup {None} /\ (h.reply = None <=> h.step # "answered")
  /\ h.reply = "running" => kind = "wait"
  /\ h.reply = "not_visible" => kind = "submit"
  /\ h.step = "saving" => kind = "challenge" /\ h.id \in 1..server.minted
  /\ h.step = "charged" \/ (h.reply = "ok" /\ kind = "charge") => kind = "charge" /\ server.charges[c] = 1
  /\ h.step = "verified" => kind = "submit"
  /\ kind = "charge" /\ h.step = "arrived" => server.charges[c] = 0
  /\ h.reply = "ok" => /\ kind = "challenge" => h.id \in 1..server.minted
                       /\ kind = "submit" => server.claims = 1
                       /\ kind = "wait" => h.id = "settled"
RequestsHold == \A c \in Calls : \A i \in DOMAIN handler[c] : Under(c, i)

Saving == \E c \in Calls : \E i \in DOMAIN handler[c] : handler[c][i].step = "saving"
ServerHolds ==
  /\ server.minted \in Nat /\ server.overlapped \in BOOLEAN
  /\ server.minted > 1 => server.overlapped
  /\ server.minted = 1 /\ server.cached = None => server.overlapped \/ Saving
  /\ server.cached # None => kind = "challenge" /\ server.cached \in 1..server.minted
  /\ \A c \in Calls : server.charges[c] \in 0..1 /\ (kind = "charge" /\ DOMAIN handler[c] = {} => server.charges[c] = 0)
  /\ server.claims = IF kind = "submit" /\ server.job # None THEN 1 ELSE 0

Shapes == /\ kind \in Kinds /\ sdk \in Sdks
          /\ DOMAIN call = Calls /\ DOMAIN handler = Calls /\ DOMAIN server.charges = Calls
          /\ server = [cached |-> server.cached, minted |-> server.minted, overlapped |-> server.overlapped,
                       charges |-> server.charges, visible |-> server.visible, stashed |-> server.stashed,
                       claims |-> server.claims, job |-> server.job]

ClientsInv == Shapes /\ CallsHold /\ RequestsHold /\ ServerHolds /\ AskedOnce

\* "Safe to retry: the backend treats this step as idempotent on the question
\* id" (client.py:198, http.ts:29): a payment that was taken up is not refused.
RetryIsSafe == kind = "submit" /\ server.claims = 1 => \A c \in Calls : call[c].got # "refused"
=============================================================================
