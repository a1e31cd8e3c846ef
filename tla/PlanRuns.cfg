\* Plans of three and four steps without a utility model, of two steps that
\* an LLM observes and replans; interrupted and resumed.
CONSTANTS
  Setups <- SmallSetups
  Replans <- SmallReplans
  MaxReplanCount = 2
  MaxRounds = 3
  MinStepRounds = 2
  MaxResumes = 2
SPECIFICATION FairSpec
INVARIANTS BuiltOnSuccess WholePlanDone
PROPERTIES  ResultsSurviveReplan RunEnds
\* The run stops once it is finished or lost.
CHECK_DEADLOCK FALSE
