--------------------------------- MODULE Guards ---------------------------------
(***************************************************************************)
(* The guards of the tool calls of an agent: hooks, repetition_guard,      *)
(* risk_guard and human_in_the_loop, called in the order of their          *)
(* priorities, each with the arguments the one before returned, until one  *)
(* rejects (PluginHookRunner of core/plugin_manager.py).  Plugins belong   *)
(* to the agent: the runs it serves at the same time, and one after the    *)
(* other, share the history and the stop flag of repetition_guard.  Only   *)
(* human_in_the_loop awaits, so what comes before it is one step.          *)
(*                                                                         *)
(* Names and patterns are abstract: a rule says which calls it matches.    *)
(***************************************************************************)
EXTENDS Integers, SequencesExt, FiniteSetsExt

CONSTANTS
  GuardedRuns,    (* runs of the agent                                     *)
  Tools, Args,    (* what a call may be                                    *)
  HookRules,      (* rules of event pre_tool_call, in order: the calls     *)
                  (* each matches, its action and what it sets             *)
  RiskRules,      (* risk rules and shell patterns: calls and level        *)
  AskLevel,       (* risk_threshold of human_in_the_loop                   *)
  SameCall, SameTool, TotalTool,          (* limits of repetition_guard    *)
  MaxTurns        (* max_rounds; bound: the rounds of a run and of those   *)
                  (* that follow it                                        *)

Blocked == 3

GuardedCall == [tool : Tools, args : Args]

ASSUME GuardAssumption ==
  /\ IsFiniteSet(GuardedRuns)
  /\ \A i \in DOMAIN HookRules : HookRules[i].action = "reject" \/ HookRules[i].args \in Args
  /\ \A r \in RiskRules : r.level \in 0..Blocked
  /\ {AskLevel, SameCall, SameTool, TotalTool, MaxTurns} \subseteq Nat

VARIABLES
  toolHistory,    (* _tool_history                                         *)
  shouldStop,     (* _should_stop                                          *)
  turn,           (* phase of a run: check, think, ask, execute, ended     *)
  asked,          (* the call a run waits for or executes, with the        *)
                  (* history variable judged: what risk_guard classified   *)
  rounds,         (* current_round                                         *)
  executed        (* history: the calls executed, in order                 *)

guardVars == <<toolHistory, shouldStop, turn, asked, rounds, executed>>

GuardsInit ==
  /\ toolHistory = <<>> /\ executed = <<>> /\ shouldStop = FALSE
  /\ turn = [r \in GuardedRuns |-> "check"]
  /\ asked = [r \in GuardedRuns |-> {}]
  /\ rounds = [r \in GuardedRuns |-> 0]

(* HooksPlugin.pre_tool_call: the arguments, or none when a rule rejects.  *)
Transformed(call, rule) == [call EXCEPT !.args = rule.args]
Hooked(call) ==
  GuardedCall \cap
  FoldLeft(LAMBDA calls, rule :
             IF calls = {} \/ calls \cap rule.matches = {} THEN calls
             ELSE IF rule.action = "reject" THEN {}
             ELSE {Transformed(c, rule) : c \in calls},
           {call}, HookRules)

(* RiskRuleEngine.classify: the highest level of what matches.             *)
RiskOf(call) == Max({0} \cup {r.level : r \in {q \in RiskRules : call \in q.matches}})

TailCount(history, same) ==
  Len(history) - SelectLastInSeq(history, LAMBDA h : h \notin same)
OfTool(tool) == {h \in GuardedCall : h.tool = tool}
CallsOf(tool, calls) == {i \in DOMAIN calls : calls[i].tool = tool}

(* For the mutants: a limit reached is let through once more; the guards   *)
(* after the first are given the arguments of the caller.                  *)
RepeatedLate(call) ==
  \/ TailCount(toolHistory, {call}) > SameCall
  \/ TailCount(toolHistory, OfTool(call.tool)) > SameTool
  \/ Cardinality(CallsOf(call.tool, toolHistory)) > TotalTool

(* RepetitionGuardPlugin._check_tool_rules                                 *)
Repeated(call) ==
  \/ TailCount(toolHistory, {call}) >= SameCall
  \/ TailCount(toolHistory, OfTool(call.tool)) >= SameTool
  \/ Cardinality(CallsOf(call.tool, toolHistory)) >= TotalTool

(* The loop of a run: max_rounds, then check_should_stop.                  *)
StartTurn(r) ==
  /\ turn[r] = "check"
  /\ \/ /\ shouldStop \/ rounds[r] = MaxTurns
        /\ turn' = [turn EXCEPT ![r] = "ended"]
        /\ UNCHANGED rounds
     \/ /\ ~shouldStop /\ rounds[r] < MaxTurns
        /\ turn' = [turn EXCEPT ![r] = "think"]
        /\ rounds' = [rounds EXCEPT ![r] = @ + 1]
  /\ UNCHANGED <<toolHistory, shouldStop, asked, executed>>

JudgedBefore(passed, call) == call
Judged(passed, call) == passed

(* apply_pre_tool_call up to human_in_the_loop.                            *)
GuardCall(r, call) ==
  /\ turn[r] = "think"
  /\ \/ /\ Hooked(call) = {}
        /\ turn' = [turn EXCEPT ![r] = "round_end"]
        /\ UNCHANGED <<toolHistory, shouldStop, asked>>
     \/ \E passed \in Hooked(call) :
          IF Repeated(passed)
          THEN /\ shouldStop' = TRUE
               /\ turn' = [turn EXCEPT ![r] = "round_end"]
               /\ UNCHANGED <<toolHistory, asked>>
          ELSE LET judged == Judged(passed, call) IN
               /\ toolHistory' = Append(toolHistory, passed)
               /\ turn' = [turn EXCEPT ![r] =
                             IF RiskOf(judged) = Blocked THEN "round_end"
                             ELSE IF RiskOf(judged) >= AskLevel THEN "ask"
                             ELSE "execute"]
               /\ asked' = [asked EXCEPT ![r] = {passed}]
               /\ UNCHANGED shouldStop
  /\ UNCHANGED <<rounds, executed>>

(* The answer of the human, the time running out, or no approval queue.    *)
HumanDecides(r) ==
  /\ turn[r] = "ask"
  /\ \E next \in {"approved", "round_end"} : turn' = [turn EXCEPT ![r] = next]
  /\ UNCHANGED <<toolHistory, shouldStop, asked, rounds, executed>>

(* post_tool_call: a pattern of results may stop the run too.              *)
ExecuteCall(r) ==
  /\ turn[r] \in {"execute", "approved"}
  /\ \E call \in asked[r] :
       executed' = Append(executed,
                          [call |-> call, approved |-> turn[r] = "approved"])
  /\ turn' = [turn EXCEPT ![r] = "round_end"]
  /\ shouldStop' \in {shouldStop, TRUE}
  /\ UNCHANGED <<toolHistory, asked, rounds>>

(* on_round_end: a pattern of answers may stop the run; then the check     *)
(* that ends the round.                                                    *)
GuardRoundEnds(r) ==
  /\ turn[r] = "round_end"
  /\ shouldStop' \in {shouldStop, TRUE}
  /\ turn' = [turn EXCEPT ![r] = IF shouldStop' THEN "ended" ELSE "check"]
  /\ asked' = [asked EXCEPT ![r] = {}]
  /\ UNCHANGED <<toolHistory, rounds, executed>>

AnswerEnds(r) ==
  /\ turn[r] = "think" /\ turn' = [turn EXCEPT ![r] = "ended"]
  /\ shouldStop' \in {shouldStop, TRUE}
  /\ UNCHANGED <<toolHistory, asked, rounds, executed>>

(* The next run of the agent: nothing of the guard is reset.               *)
NextRun(r) ==
  /\ turn[r] = "ended" /\ rounds[r] < MaxTurns
  /\ turn' = [turn EXCEPT ![r] = "check"]
  /\ UNCHANGED <<toolHistory, shouldStop, asked, rounds, executed>>

GuardsNext ==
  \E r \in GuardedRuns :
    \/ StartTurn(r) \/ HumanDecides(r) \/ ExecuteCall(r) \/ GuardRoundEnds(r)
    \/ AnswerEnds(r) \/ NextRun(r)
    \/ \E call \in GuardedCall : GuardCall(r, call)

GuardsSpec == GuardsInit /\ [][GuardsNext]_guardVars

--------------------------------------------------------------------------------
(* The variables have their types.                                         *)
GuardsTypeOK ==
  /\ toolHistory \in Seq(GuardedCall) /\ shouldStop \in BOOLEAN
  /\ turn \in [GuardedRuns -> {"check", "think", "ask", "approved", "execute",
                               "round_end", "ended"}]
  /\ asked \in [GuardedRuns -> SUBSET GuardedCall] /\ rounds \in [GuardedRuns -> 0..MaxTurns]
  /\ executed \in Seq([call : GuardedCall, approved : BOOLEAN])

ExecutedOf(tool) == {i \in DOMAIN executed : executed[i].call.tool = tool}

(* What is executed is what was judged, after every change of the          *)
(* arguments: never a blocked call, none at or above the threshold without *)
(* an approval, and over all runs no more of a tool than its limit.        *)
ExecutedAsJudged ==
  /\ \A i \in DOMAIN executed :
       LET risk == RiskOf(executed[i].call) IN
       risk < Blocked /\ (risk >= AskLevel => executed[i].approved)
  /\ \A t \in Tools : Cardinality(ExecutedOf(t)) <= TotalTool
================================================================================
