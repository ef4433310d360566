----------------------------- MODULE Provenance ------------------------------
(***************************************************************************)
(* The record of what a verdict was derived from (provenance.js), written  *)
(* before the money moves, and the verifier anybody can run over it        *)
(* (provenanceVerify.js, scripts/verify-provenance.js).  Whoever serves    *)
(* the record may have changed it.  A hash is what it is the hash of, a    *)
(* confidence counts tenths, the order of a quorum is the one it came in.  *)
(* Two answers are the same text if vote.js normalizes them to one.        *)
(***************************************************************************)
EXTENDS Integers, Sequences, SequencesExt, FiniteSets

CONSTANTS Quorum,          \* the workers of the question, in a sequence
          Answers, MinConfidence, Confidences, Platform, None

VARIABLES entry,           \* what is served: [record, hash, settled], or None
          provenanceHash,  \* the copy on the job record
          original,        \* the record as it was committed
          chain            \* the call that settled the question, or None

vars == <<entry, provenanceHash, original, chain>>

Ids(subs) == {subs[i].workerId : i \in DOMAIN subs}
Submitted == [workerId : Range(Quorum), answer : Answers, established : BOOLEAN]
Quorums == {subs \in UNION {[1..n -> Submitted] : n \in 0..Len(Quorum)} :
              \A i \in DOMAIN subs : subs[i].workerId = Quorum[i]}

\* A vote over groups of answers: those with the same text, or those that `as`
\* takes for one text.  The first of the largest groups wins.
Exactly == [x \in Answers |-> x]
Backers(subs, as, i) == {subs[j].workerId : j \in {k \in DOMAIN subs : as[subs[k].answer] = as[subs[i].answer]}}
Favouring(subs, as, i) == [consensus |-> subs[i].answer, matching |-> Backers(subs, as, i),
                           confidence |-> (10 * Cardinality(Backers(subs, as, i))) \div Len(subs)]
Largest(subs, as) ==
  {i \in DOMAIN subs : \A j \in DOMAIN subs : Cardinality(Backers(subs, as, j)) <= Cardinality(Backers(subs, as, i))}
ClusterVote(subs, as) ==
  Favouring(subs, as, CHOOSE i \in Largest(subs, as) : \A j \in Largest(subs, as) : i <= j)
ExactMatchVote(subs) == ClusterVote(subs, Exactly)

\* What a quorum may come to under its rule: answers are taken for one if they
\* are worded alike, or, where the payer asked for it, lie near each other; then
\* the consensus is the centre and a tie may go either way.
Merges == [Answers -> Answers]
Votes(subs) ==
       [fastpath : {"exact-match-fastpath"}, fallback : {"exact-match-fallback"},
        vote : {ClusterVote(subs, as) : as \in Merges}]
  \cup [fastpath : {"numeric-tolerance-fastpath"}, fallback : {"numeric-tolerance-fallback"},
        vote : UNION {{Favouring(subs, as, i) : i \in Largest(subs, as)} : as \in Merges}]
Agree(subs, vote) == vote.matching = Ids(subs) /\ \A i \in DOMAIN subs : subs[i].established
Fastpath(subs) == Agree(subs, ExactMatchVote(subs))

\* reportConsensus(), reportDraft(): the tool call, or a failure.  Claude's
\* workers are checked to be those who answered, OpenAI's are not.
Reports(subs) == [by : {"claude"}, consensus : Answers, confidence : Confidences, matching : SUBSET Ids(subs)]
            \cup [by : {"openai"}, consensus : Answers, confidence : Confidences, matching : SUBSET Range(Quorum)]
Drafts == [by : {"llm-draft"}, consensus : Answers, confidence : Confidences, matching : {{}}]
Received == [sent : {<<>>}, got : Drafts] \cup UNION {[sent : {subs}, got : Reports(subs)] : subs \in Quorums}
ProvenanceAssumption ==
  /\ None \notin Answers \cup Received
  /\ Quorum \in Seq(Range(Quorum)) /\ IsInjective(Quorum)

\* reconcile() and fulfillInstant(): the method that was used, and its result.
NoResult == [consensus |-> None, confidence |-> 0, matching |-> {}]
Said(report) == [consensus |-> report.consensus, confidence |-> report.confidence, matching |-> report.matching]
Reconcile(subs, count, report) ==
  IF subs = <<>> THEN [method |-> "no-answers", llm |-> None, result |-> NoResult]
  ELSE IF Agree(subs, count.vote)
       THEN [method |-> count.fastpath, llm |-> None, result |-> [count.vote EXCEPT !.confidence = 10]]
  ELSE IF report # None THEN [method |-> report.by, llm |-> [sent |-> subs, got |-> report], result |-> Said(report)]
  ELSE [method |-> count.fallback, llm |-> None, result |-> count.vote]
Draft(report) ==
  IF report # None THEN [method |-> "llm-draft", llm |-> [sent |-> <<>>, got |-> report], result |-> Said(report)]
  ELSE [method |-> "llm-draft-unavailable", llm |-> None, result |-> NoResult]

\* oracle.js, before it settles: resolve this verdict, or refund?
ShouldResolve(subs, result) ==
  subs # <<>> /\ result.matching # {} /\ result.confidence >= MinConfidence

BuildProvenanceRecord(subs, how, resolve) ==
  [submissions |-> subs, method |-> how.method, llm |-> how.llm, result |-> how.result,
   action |-> IF resolve THEN "resolve" ELSE "refund"]

----------------------------------------------------------------------------
\* rederive(): each method checks what it can work out from the inputs.
Rederives(r) ==
  LET subs == r.submissions
      vote == ExactMatchVote(subs)
  IN CASE r.method \in {"no-answers", "llm-draft-unavailable"} -> subs = <<>> /\ r.result.consensus = None
       [] r.method = "exact-match-fastpath" ->
            subs # <<>> /\ Fastpath(subs) /\ r.result = [vote EXCEPT !.confidence = 10]
       [] r.method = "exact-match-fallback" -> subs # <<>> /\ ~Fastpath(subs) /\ r.result = vote
       [] r.method \in {"claude", "openai"} ->
            /\ subs # <<>> /\ ~Fastpath(subs) /\ r.llm # None
            /\ r.llm.sent = subs /\ Said(r.llm.got) = r.result /\ r.result.matching \subseteq Ids(subs)
       [] r.method = "llm-draft" ->
            /\ subs = <<>> /\ r.llm # None /\ r.llm.got.consensus = r.result.consensus
            /\ r.llm.got.confidence = r.result.confidence
       [] OTHER -> FALSE

Instant == {"llm-draft", "llm-draft-unavailable"}
ExpectedAction(r) ==
  IF IF r.method \in Instant THEN r.result.consensus # None
     ELSE r.submissions # <<>> /\ r.result.matching # {} /\ r.result.confidence >= MinConfidence
  THEN "resolve" ELSE "refund"

VerifyProvenance(e, expected) ==
  e.hash = e.record /\ expected \in {None, e.hash} /\ Rederives(e.record) /\ ExpectedAction(e.record) = e.record.action

VerifyPayout(r, call) ==
  /\ call.function = r.action
  /\ call.function = "resolve" =>
       IF r.method \in Instant THEN Cardinality(call.workers) = 1 /\ call.losing = {}
       ELSE call.workers = r.result.matching /\ call.losing = Ids(r.submissions) \ r.result.matching

----------------------------------------------------------------------------
Init == entry = None /\ provenanceHash = None /\ original = None /\ chain = None

\* commitProvenance() in oracle.js: the entry is written, then the job record;
\* a failure in between is logged and the settlement goes on.
Save(r, copied) ==
  /\ original' = r
  /\ entry' = [record |-> r, hash |-> r, settled |-> FALSE]
  /\ provenanceHash' = IF copied THEN r ELSE None
  /\ UNCHANGED chain
CommitHuman(subs, count, report, copied) ==
  LET how == Reconcile(subs, count, report)
  IN Save(BuildProvenanceRecord(subs, how, ShouldResolve(subs, how.result)), copied)
CommitInstant(report, copied) ==
  Save(BuildProvenanceRecord(<<>>, Draft(report), report # None), copied)

\* settleResolved(), settleInstantResolved(), settleRefunded(): a resolve that
\* fails becomes a refund.
Resolve(r) == IF r.method \in Instant THEN [function |-> "resolve", workers |-> {Platform}, losing |-> {}]
              ELSE [function |-> "resolve", workers |-> r.result.matching, losing |-> Ids(r.submissions) \ r.result.matching]
Refund == [function |-> "refund", workers |-> {}, losing |-> {}]
Settle(lands) ==
  /\ original # None /\ chain = None
  /\ chain' = IF original.action = "resolve" /\ lands THEN Resolve(original) ELSE Refund
  /\ UNCHANGED <<entry, provenanceHash, original>>

AttachSettlement ==
  /\ chain # None /\ ~entry.settled /\ entry' = [entry EXCEPT !.settled = TRUE]
  /\ UNCHANGED <<provenanceHash, original, chain>>

\* The copy that is served is changed in one place, with its hash or without.
Edits(r) == {[r EXCEPT !.action = IF @ = "resolve" THEN "refund" ELSE "resolve"]}
  \cup {[r EXCEPT !.result.matching = m] : m \in SUBSET Range(Quorum)}
  \cup {[r EXCEPT !.result.consensus = c] : c \in Answers}
  \cup {[r EXCEPT !.submissions = subs] : subs \in Quorums}
Alter(rehash) ==
  /\ entry # None /\ entry.settled /\ entry.record = original
  /\ \E r \in Edits(original) \ {original} : entry' = [entry EXCEPT !.record = r, !.hash = IF rehash THEN r ELSE @]
  /\ UNCHANGED <<provenanceHash, original, chain>>

Next == \/ /\ original = None
           /\ \E copied \in BOOLEAN :
                \/ \E subs \in Quorums : \E count \in IF subs = <<>> THEN {None} ELSE Votes(subs) :
                     \E report \in Reports(subs) \cup {None} : CommitHuman(subs, count, report, copied)
                \/ \E report \in Drafts \cup {None} : CommitInstant(report, copied)
        \/ \E b \in BOOLEAN : Settle(b) \/ Alter(b)
        \/ AttachSettlement

Spec == Init /\ [][Next]_vars

----------------------------------------------------------------------------
\* Settlement and verifier each have their own copy of the rule, and disagree on
\* three kinds of records: a vote that counted differently worded answers as one,
\* a vote by tolerance, and workers that OpenAI named though they never answered.
Mixed(subs, matching) == \E i, j \in DOMAIN subs :
  subs[i].workerId \in matching /\ subs[j].workerId \in matching /\ subs[i].answer # subs[j].answer
Underivable(r) ==
  \/ r.method \in {"numeric-tolerance-fastpath", "numeric-tolerance-fallback"}
  \/ r.method \in {"exact-match-fastpath", "exact-match-fallback"} /\ Mixed(r.submissions, r.result.matching)
  \/ r.method = "openai" /\ ~(r.result.matching \subseteq Ids(r.submissions))

\* The record of a verdict verifies exactly if it is none of those, and against the
\* chain exactly if the decision is what landed.  A record that was changed never
\* passes against the copy on the job; without that copy, or for the consensus text
\* alone, a changed record that passes together with the chain still names exactly
\* the workers that answered the question.
RecordsVerify == entry # None =>
  /\ entry.record = original => /\ VerifyProvenance(entry, provenanceHash) <=> ~Underivable(original)
                                /\ chain # None => (VerifyPayout(original, chain) <=> chain.function = original.action)
  /\ entry.record # original /\ provenanceHash # None => ~VerifyProvenance(entry, provenanceHash)
  /\ VerifyProvenance(entry, None) /\ chain # None /\ VerifyPayout(entry.record, chain)
       /\ chain.function = "resolve" /\ entry.record.method \notin Instant =>
         Ids(entry.record.submissions) = Ids(original.submissions)

\* The inductive invariant: the committed record is derived from what it says
\* unless it is one of those kinds, what is served was edited in one place at most,
\* and what landed is what it decided, or the refund it became.
Sound(r) ==
  /\ DOMAIN r = {"submissions", "method", "llm", "result", "action"} /\ r.action \in {"resolve", "refund"}
  /\ Rederives(r) <=> ~Underivable(r)
  /\ ExpectedAction(r) = r.action
  /\ r.method \in {"claude", "openai"} => r.llm.sent = r.submissions
  /\ r.method \in {"exact-match-fastpath", "exact-match-fallback"} => r.result.matching \subseteq Ids(r.submissions)
ProvenanceInv ==
  /\ original = None => chain = None
  /\ \/ <<entry, original, provenanceHash>> = <<None, None, None>>
     \/ /\ DOMAIN entry = {"record", "hash", "settled"} /\ Sound(original) /\ provenanceHash \in {None, original}
        /\ \/ entry.record = original /\ entry.hash = original
           \/ entry.record \in Edits(original) /\ entry.hash \in {original, entry.record}
        /\ chain # None => chain = Refund \/ (original.action = "resolve" /\ chain = Resolve(original))
=============================================================================
