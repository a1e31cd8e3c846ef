---------------------------------- MODULE Eval ---------------------------------
(***************************************************************************)
(* Evaluation runs (sidecar/eval/runner.py) over one bounded EvalStore     *)
(* (eval/store.py): evaluators run beside each other, each the cases of a  *)
(* stored suite under a run id of its own, again and again; the store      *)
(* keeps the suites and the runs that were used last.                      *)
(*                                                                         *)
(* Cases have ids.  What an agent answers, and what a judge or the         *)
(* automatic match makes of it, is a score.                                *)
(***************************************************************************)
EXTENDS Integers, FiniteSets, SequencesExt, KeptItems

CONSTANTS
  Evaluators,      (* each with a run id and a suite of its own            *)
  Cases,           (* the cases of every suite, in order                   *)
  Scores,
  MaxSuites,       (* max_suites                                           *)
  MaxEvalRuns,     (* max_runs                                             *)
  MaxReruns        (* bound: how often an evaluator starts                 *)

ASSUME EvalAssumption ==
  /\ IsFiniteSet(Evaluators) /\ Cases \in Seq(ToSet(Cases)) /\ IsInjective(Cases)
  /\ {MaxSuites, MaxEvalRuns} \subseteq Nat \ {0} /\ MaxReruns \in Nat

VARIABLES
  evalPhase,       (* idle, saving (the dataset's cases), ready or running *)
  starts,
  todo,            (* the cases that are still to be saved, or to be run   *)
  results,         (* what run_cases has gathered and will return          *)
  suites,          (* _cases: pairs of a suite and its cases               *)
  runs             (* _results: pairs of a run and its results             *)

evalVars == <<evalPhase, starts, todo, results, suites, runs>>

EvalInit ==
  /\ evalPhase = [e \in Evaluators |-> "idle"]
  /\ starts = [e \in Evaluators |-> 0]
  /\ todo = [e \in Evaluators |-> <<>>] /\ results = [e \in Evaluators |-> <<>>]
  /\ suites = <<>> /\ runs = <<>>

(* An OrderedDict as a sequence of keys with their values.                 *)
Under(dict, key) == {i \in DOMAIN dict : dict[i][1] = key}
Others(dict, key) == Keeping(dict, DOMAIN dict \ Under(dict, key))
ValueOf(dict, key) ==
  IF Under(dict, key) = {} THEN <<>> ELSE dict[CHOOSE i \in Under(dict, key) : TRUE][2]
(* A value is set and moved to the end, and the first entries over the     *)
(* limit go.                                                               *)
StoredLast(dict, key, value, max) ==
  LET all == Append(Others(dict, key), <<key, value>>)
  IN  Keeping(all, {i \in DOMAIN all : i > Len(all) - max})
MovedLast(dict, key) == Others(dict, key) \o Keeping(dict, Under(dict, key))

(* The cases of a suite, and the results of a run, with one more, which    *)
(* takes the place of an older one.  Defect: the older result stays.       *)
WithCase(cs, c) == Append(Keeping(cs, {i \in DOMAIN cs : cs[i] # c}), c)
WithResultTwice(rs, r) == Append(rs, r)
WithResult(rs, r) == Append(Keeping(rs, {i \in DOMAIN rs : rs[i].case # r.case}), r)

(* run_dataset saves the cases of its dataset first.                       *)
StartDataset(e) ==
  /\ evalPhase[e] = "idle" /\ starts[e] < MaxReruns
  /\ evalPhase' = [evalPhase EXCEPT ![e] = "saving"]
  /\ starts' = [starts EXCEPT ![e] = @ + 1]
  /\ todo' = [todo EXCEPT ![e] = Cases]
  /\ UNCHANGED <<results, suites, runs>>

SaveCase(e) ==
  /\ evalPhase[e] = "saving"
  /\ IF todo[e] = <<>>
       THEN /\ evalPhase' = [evalPhase EXCEPT ![e] = "running"]
            /\ todo' = [todo EXCEPT ![e] = Cases]
            /\ UNCHANGED suites
       ELSE /\ suites' = StoredLast(suites, e, WithCase(ValueOf(suites, e), Head(todo[e])), MaxSuites)
            /\ todo' = [todo EXCEPT ![e] = Tail(@)]
            /\ UNCHANGED evalPhase
  /\ UNCHANGED <<starts, results, runs>>

(* run_suite runs the cases the store has.                                 *)
StartSuite(e) ==
  /\ evalPhase[e] = "idle" /\ starts[e] < MaxReruns
  /\ evalPhase' = [evalPhase EXCEPT ![e] = "running"]
  /\ starts' = [starts EXCEPT ![e] = @ + 1]
  /\ todo' = [todo EXCEPT ![e] = ValueOf(suites, e)]
  /\ suites' = MovedLast(suites, e)
  /\ UNCHANGED <<results, runs>>

(* run_cases: a case is run, scored and its result saved; what its agent   *)
(* raises is part of the result.                                           *)
RunCase(e, score) ==
  /\ evalPhase[e] = "running" /\ todo[e] # <<>>
  /\ LET r == [case |-> Head(todo[e]), score |-> score] IN
     /\ results' = [results EXCEPT ![e] = Append(@, r)]
     /\ runs' = StoredLast(runs, e, WithResult(ValueOf(runs, e), r), MaxEvalRuns)
  /\ todo' = [todo EXCEPT ![e] = Tail(@)]
  /\ UNCHANGED <<evalPhase, starts, suites>>

(* It returns, or raises what the judge or the store raised.               *)
RunCasesEnds(e, raises) ==
  /\ evalPhase[e] = "running" /\ (raises \/ todo[e] = <<>>)
  /\ evalPhase' = [evalPhase EXCEPT ![e] = "idle"]
  /\ todo' = [todo EXCEPT ![e] = <<>>] /\ results' = [results EXCEPT ![e] = <<>>]
  /\ UNCHANGED <<starts, suites, runs>>

(* The host reads or deletes a run.                                        *)
ListResults(e) ==
  /\ runs' = MovedLast(runs, e)
  /\ UNCHANGED <<evalPhase, starts, todo, results, suites>>
DeleteEvalRun(e) ==
  /\ runs' = Others(runs, e)
  /\ UNCHANGED <<evalPhase, starts, todo, results, suites>>

EvalNext ==
  \E e \in Evaluators :
    \/ StartDataset(e) \/ SaveCase(e) \/ StartSuite(e)
    \/ \E score \in Scores : RunCase(e, score)
    \/ \E raises \in BOOLEAN : RunCasesEnds(e, raises)
    \/ ListResults(e) \/ DeleteEvalRun(e)

EvalSpec == EvalInit /\ [][EvalNext]_evalVars

--------------------------------------------------------------------------------
EvalTypeOK ==
  /\ evalPhase \in [Evaluators -> {"idle", "saving", "running"}]
  /\ Len(suites) <= MaxSuites /\ Len(runs) <= MaxEvalRuns
  /\ \A i \in DOMAIN suites : suites[i][1] \in Evaluators /\ ToSet(suites[i][2]) \subseteq ToSet(Cases)
  /\ \A i \in DOMAIN runs : runs[i][1] \in Evaluators

(* What the store has of a run are the results of this evaluation, up to a *)
(* point where the run was given up for others or deleted; of the cases    *)
(* this evaluation has not reached there may be older results, each once.  *)
ResultsAreLatest ==
  \A e \in Evaluators :
    LET stored == ValueOf(runs, e)
        ran == {results[e][i].case : i \in DOMAIN results[e]}
        latest == Keeping(stored, {i \in DOMAIN stored : stored[i].case \in ran})
    IN  /\ \E from \in 1..Len(results[e]) + 1 : latest = SubSeq(results[e], from, Len(results[e]))
        /\ IsInjective([i \in DOMAIN stored |-> stored[i].case])
================================================================================
