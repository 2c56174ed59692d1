----------------------------- MODULE Evaluation -----------------------------
(***************************************************************************)
(* score_evaluation (evaluation.py): the scores of a run of a benchmark.   *)
(* Observations are collected one after the other, in any order, some      *)
(* twice, some of cases the benchmark does not have; then the cases are    *)
(* scored one after the other, in any order.                               *)
(*                                                                         *)
(* A share is a whole number of parts, Whole of them when it is 1; Whole   *)
(* is a multiple of every number of concepts, so no share is rounded.  A   *)
(* mean is the sum over the cases.  Latency is in time or not.             *)
(* Bound: MaxObservations.                                                 *)
(***************************************************************************)
EXTENDS Naturals, FiniteSets, Sequences

CONSTANTS
  CaseIds,
  ConceptUids,
  Benchmarks,         \* benchmarks that are tried: cases by their id
  Whole,
  MaxObservations     \* bound

(* validate_expectations *)
BenchmarkCase ==
  {c \in [behavior : {"answer", "refuse"}, expected : SUBSET ConceptUids,
          forbidden : SUBSET ConceptUids, reviewRequired : BOOLEAN] :
     /\ c.expected \cap c.forbidden = {}
     /\ c.behavior = "answer" => c.expected # {}}

(* require_consistent_human_review: both scores and a role, or no score.   *)
CaseObservation ==
  [case : CaseIds, retrieved : SUBSET ConceptUids, cited : SUBSET ConceptUids,
   refused : BOOLEAN, inTime : BOOLEAN, reviewed : BOOLEAN]

ASSUME EvaluationAssumption ==
  /\ IsFiniteSet(CaseIds) /\ IsFiniteSet(ConceptUids)
  /\ Benchmarks \subseteq UNION {[ids -> BenchmarkCase] : ids \in SUBSET CaseIds \ {{}}}
  /\ Whole \in Nat \ {0}
  /\ \A n \in 1 .. Cardinality(ConceptUids) : Whole % n = 0
  /\ MaxObservations \in Nat

VARIABLES
  benchmark,
  run,         \* the observations, in order
  scoring,     \* how far score_evaluation is
  scored,      \* the cases of its scores
  totals       \* of its scores, by metric

evaluationVars == <<benchmark, run, scoring, scored, totals>>

Metrics == {"citationRecall", "citationPrecision", "retrievalRecall", "behavior",
            "entitlement", "latency", "humanReview"}

EvaluationInit ==
  /\ benchmark \in Benchmarks
  /\ run = <<>>
  /\ scoring = "before"
  /\ scored = {}
  /\ totals = [m \in Metrics |-> 0]

Observe(observation) ==
  /\ scoring = "before"
  /\ Len(run) < MaxObservations
  /\ run' = Append(run, observation)
  /\ UNCHANGED <<benchmark, scoring, scored, totals>>

-----------------------------------------------------------------------------
ObservedCases == {run[i].case : i \in DOMAIN run}

(* Mutant: the last observation of a case counts, and the others do not.   *)
CoversByName == ObservedCases = DOMAIN benchmark

(* No duplicates, none missing, none of another case.                      *)
Covers ==
  /\ \A i, j \in DOMAIN run : run[i].case = run[j].case => i = j
  /\ ObservedCases = DOMAIN benchmark

(* A run that does not cover the benchmark is refused.                     *)
StartScoring ==
  /\ scoring = "before"
  /\ Covers
  /\ scoring' = "cases"
  /\ UNCHANGED <<benchmark, run, scored, totals>>

Observation(id) == run[CHOOSE i \in DOMAIN run : run[i].case = id]

Share(part, of) == (Whole * Cardinality(part)) \div Cardinality(of)

Recall(expected, found) ==
  IF expected = {} THEN Whole ELSE Share(expected \cap found, expected)

Precision(expected, cited) ==
  IF cited # {} THEN Share(expected \cap cited, cited)
  ELSE IF expected = {} THEN Whole ELSE 0

Rate(holds) == IF holds THEN Whole ELSE 0

CaseScore(c, o) ==
  [citationRecall    |-> Recall(c.expected, o.cited),
   citationPrecision |-> Precision(c.expected, o.cited),
   retrievalRecall   |-> Recall(c.expected, o.retrieved),
   behavior          |-> Rate(o.refused = (c.behavior = "refuse")),
   entitlement       |-> Rate(c.forbidden \cap (o.retrieved \cup o.cited) = {}),
   latency           |-> Rate(o.inTime),
   humanReview       |-> Rate(~c.reviewRequired \/ o.reviewed)]

(* One turn of the loop over the cases.                                    *)
Score(id) ==
  /\ scoring = "cases"
  /\ id \notin scored
  /\ LET score == CaseScore(benchmark[id], Observation(id))
     IN  totals' = [m \in Metrics |-> totals[m] + score[m]]
  /\ scored' = scored \cup {id}
  /\ UNCHANGED <<benchmark, run, scoring>>

Report ==
  /\ scoring = "cases"
  /\ scored = DOMAIN benchmark
  /\ scoring' = "reported"
  /\ UNCHANGED <<benchmark, run, scored, totals>>

EvaluationNext ==
  \/ \E observation \in CaseObservation : Observe(observation)
  \/ StartScoring
  \/ \E id \in DOMAIN benchmark : Score(id)
  \/ Report

EvaluationSpec == EvaluationInit /\ [][EvaluationNext]_evaluationVars

-----------------------------------------------------------------------------
(* What the documentation wants of an answer.                              *)
Flawless(c, o) ==
  /\ o.cited = c.expected
  /\ c.expected \subseteq o.retrieved
  /\ o.refused <=> c.behavior = "refuse"
  /\ o.retrieved \cap c.forbidden = {}
  /\ o.inTime
  /\ c.reviewRequired => o.reviewed

NothingForbidden(c, o) == c.forbidden \cap (o.retrieved \cup o.cited) = {}

(* The total of a metric whose mean is 1.                                  *)
Full == Whole * Cardinality(DOMAIN benchmark)

(* A report is full in every metric exactly when every observation of the  *)
(* run is flawless, whatever is observed twice or of no case; an answer    *)
(* without citations and a case that expects nothing included.  And one    *)
(* flawed case shows: the entitlement rate is full only if nothing         *)
(* forbidden was retrieved or cited in any observation.                    *)
FullReportMeansFlawlessRun ==
  scoring = "reported" =>
    /\ (\A m \in Metrics : totals[m] = Full) <=>
         \A i \in DOMAIN run : Flawless(benchmark[run[i].case], run[i])
    /\ totals["entitlement"] = Full <=>
         \A i \in DOMAIN run : NothingForbidden(benchmark[run[i].case], run[i])
    /\ \A m \in Metrics : totals[m] \in 0 .. Full
=============================================================================
