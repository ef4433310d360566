------------------------------- MODULE Verdict -------------------------------
(***************************************************************************)
(* How the answers to one question become a verdict: the rule a payer may  *)
(* pick (consensus.js), the screen each answer passes (answerFilter.js),   *)
(* the votes over answers in the order they came (vote.js, consensus.js,   *)
(* reconcile.js) and the chain of LLM providers behind a draft.            *)
(*                                                                         *)
(* A text is the features the code looks at.  "the answer is about 4.2" is *)
(* [filler |-> TRUE, about |-> TRUE, n |-> 42, word |-> None, spam |->     *)
(* FALSE]: n counts tenths, spam says that a rule of the screen fires.     *)
(***************************************************************************)
EXTENDS Integers, Sequences, SequencesExt, FiniteSets

CONSTANTS Workers, Texts,
          Tolerances,   \* what a client may send as tolerance
          Providers,    \* LLM providers, in fallback order
          About,        \* the word "about"
          None

VARIABLES rule,         \* the parsed rule, or [mode |-> "refused"]
          submissions,  \* [workerId, answer], in the order of the collector
          verdict

vars == <<rule, submissions, verdict>>

Modes == {"absent", "exact", "numeric-tolerance", "other"}
Abs(x) == IF x < 0 THEN -x ELSE x

\* parseConsensusRule(): tolerance is None, or the fields a client sent.
ParseConsensusRule(mode, tolerance) ==
  LET kind == CHOOSE k \in DOMAIN tolerance : TRUE
  IN IF mode \in {"absent", "exact"} THEN IF tolerance = None THEN [mode |-> "exact"] ELSE [mode |-> "refused"]
     ELSE IF mode = "other" THEN [mode |-> "refused"]
     ELSE IF tolerance = None THEN [mode |-> mode, kind |-> "absolute", by |-> 0]
     ELSE IF /\ Cardinality(DOMAIN tolerance) = 1 /\ kind \in {"percent", "absolute"}
             /\ tolerance[kind] >= 0 /\ (kind = "percent" => tolerance[kind] <= 100)
     THEN [mode |-> mode, kind |-> kind, by |-> tolerance[kind]] ELSE [mode |-> "refused"]

----------------------------------------------------------------------------
\* normalize() drops case, symbols and the decimal point, with it the scale.
Digits(n) == IF n % 10 = 0 THEN n \div 10 ELSE n
Content(t) == IF t.n = None THEN t.word ELSE Digits(t.n)
Normalize(t) == <<t.filler, t.about, Content(t)>>

\* A prefix like "about" or "$" is stripped, any other word is no number.
ParseNumericAnswer(t) == IF t.filler THEN None ELSE t.n

\* Jaccard similarity of the words that carry content, against 0.6.
Tokenize(t) == ({Content(t)} \cup IF t.about THEN {About} ELSE {}) \ {None}
Similar == [a, b \in Texts |->
  LET A == Tokenize(a)
      B == Tokenize(b)
  IN IF A = {} \/ B = {} THEN A = B ELSE 10 * Cardinality(A \cap B) >= 6 * Cardinality(A \cup B)]
SameText == [a, b \in Texts |-> Normalize(a) = Normalize(b)]

\* A submission joins the first group whose representative it matches.
MutantGroupBy(Same, subs) ==  \* compared with the latest group only
  FoldLeft(LAMBDA groups, s :
      IF groups # <<>> /\ Same[s.answer, Last(groups).representative]
      THEN [groups EXCEPT ![Len(groups)].workerIds = Append(@, s.workerId)]
      ELSE Append(groups, [representative |-> s.answer, workerIds |-> <<s.workerId>>]),
    <<>>, subs)

GroupBy(Same, subs) ==
  FoldLeft(LAMBDA groups, s :
      LET alike == {g \in DOMAIN groups : Same[s.answer, groups[g].representative]}
      IN IF alike = {}
         THEN Append(groups, [representative |-> s.answer, workerIds |-> <<s.workerId>>])
         ELSE [groups EXCEPT ![CHOOSE g \in alike : \A h \in alike : g <= h].workerIds
                               = Append(@, s.workerId)],
    <<>>, subs)

\* The first of the largest groups wins; so does start, if none is larger.
Largest(start, groups) ==
  FoldLeft(LAMBDA best, g : IF best = None \/ Len(g.workerIds) > Len(best.workerIds) THEN g ELSE best,
    start, groups)

ExactMatchVote(subs) == Largest(None, GroupBy(SameText, subs))
ClusterVote(subs) == Largest(None, GroupBy(Similar, subs))

----------------------------------------------------------------------------
WithinTolerance(value, center, tol) ==
  IF tol.kind = "percent" THEN 100 * Abs(value - center) <= Abs(center) * tol.by
  ELSE Abs(value - center) <= 10 * tol.by

\* Every value is tried as the centre; ties go to the tighter cluster, then to
\* the earlier answer.
LargestToleranceCluster(entries, tol) ==
  LET Value(e) == ParseNumericAnswer(e.answer)
      Around(c) ==
        LET members == SelectSeq(entries, LAMBDA e : WithinTolerance(Value(e), Value(c), tol))
        IN [representative |-> c.answer, workerIds |-> [i \in DOMAIN members |-> members[i].workerId],
            spread |-> FoldLeft(LAMBDA sum, e : sum + Abs(Value(e) - Value(c)), 0, members)]
      Better(x, y) == \/ Len(x.workerIds) > Len(y.workerIds)
                      \/ Len(x.workerIds) = Len(y.workerIds) /\ x.spread < y.spread
  IN FoldLeft(LAMBDA best, c : IF best = None THEN Around(c)
                               ELSE IF Better(Around(c), best) THEN Around(c) ELSE best, None, entries)

IsNumeric(s) == ParseNumericAnswer(s.answer) # None
NumericToleranceVote(subs, tol) ==
  Largest(LargestToleranceCluster(SelectSeq(subs, IsNumeric), tol),
          GroupBy(SameText, SelectSeq(subs, LAMBDA s : ~IsNumeric(s))))

\* An unconfigured provider is skipped, one that fails hands over to the next.
DraftAnswer(configured, working) ==
  LET able == SelectSeq(Providers, LAMBDA p : p \in configured \cap working)
  IN IF able = <<>> THEN None ELSE Head(able)

----------------------------------------------------------------------------
Init == rule = None /\ submissions = <<>> /\ verdict = None

Ask(mode, tolerance) ==
  /\ rule = None /\ rule' = ParseConsensusRule(mode, tolerance)
  /\ UNCHANGED <<submissions, verdict>>

\* screenAnswer(), then the collector: one answer per worker.
Answer(w, t) ==
  /\ rule # None /\ rule.mode # "refused" /\ verdict = None /\ ~t.spam
  /\ \A i \in DOMAIN submissions : submissions[i].workerId # w
  /\ submissions' = Append(submissions, [workerId |-> w, answer |-> t])
  /\ UNCHANGED <<rule, verdict>>

\* confidence is Len(workerIds) of Len(submissions), which both count tenths.
Decide ==
  /\ submissions # <<>> /\ verdict = None
  /\ verdict' = IF rule.mode = "exact"
       THEN [exact |-> ExactMatchVote(submissions), cluster |-> ClusterVote(submissions)]
       ELSE [numeric |-> NumericToleranceVote(submissions, rule)]
  /\ UNCHANGED <<rule, submissions>>

Draft(configured, working) ==
  /\ rule = [mode |-> "exact"] /\ submissions = <<>> /\ verdict = None
  /\ verdict' = [draft |-> DraftAnswer(configured, working)]
  /\ UNCHANGED <<rule, submissions>>

Next == \/ \E m \in Modes, t \in Tolerances \cup {None} : Ask(m, t)
        \/ \E w \in Workers, t \in Texts : Answer(w, t)
        \/ Decide
        \/ \E c, k \in SUBSET Range(Providers) : Draft(c, k)

Spec == Init /\ [][Next]_vars

----------------------------------------------------------------------------
Supporters(Same, text) ==
  {submissions[i].workerId : i \in {j \in DOMAIN submissions : Same[submissions[j].answer, text]}}
IsLargest(group, Same) ==
  /\ ToSet(group.workerIds) = Supporters(Same, group.representative)
  /\ \A s \in ToSet(submissions) : Cardinality(Supporters(Same, s.answer)) <= Len(group.workerIds)
  /\ Len(group.workerIds) = Cardinality(ToSet(group.workerIds))

\* A verdict does not depend on the order of the answers beyond ties: an exact
\* one is backed by everybody who gave that text, a numeric one by everybody
\* near its centre (or of one text), and no other answer had more backers.
\* Comparing words instead of texts never loses agreement.
VerdictIsTheLargestGroup ==
  verdict # None /\ submissions # <<>> =>
    IF rule.mode = "exact"
    THEN /\ IsLargest(verdict.exact, SameText)
         /\ Len(verdict.cluster.workerIds) >= Len(verdict.exact.workerIds)
    ELSE IsLargest(verdict.numeric, [t, c \in Texts |->
           IF ParseNumericAnswer(t) = None \/ ParseNumericAnswer(c) = None
           THEN ParseNumericAnswer(t) = ParseNumericAnswer(c) /\ SameText[t, c]
           ELSE WithinTolerance(ParseNumericAnswer(t), ParseNumericAnswer(c), rule)])
=============================================================================
