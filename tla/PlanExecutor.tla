---------------------------- MODULE PlanExecutor ----------------------------
(***************************************************************************)
(* StepExecutor.run_plan (agent_runtime/executor.py) with the ToolRunner,  *)
(* the verifier and the terminal approval prompt it calls.                 *)
(*                                                                         *)
(* What a step says about itself (its tool, approval, attempts, fallback)  *)
(* is chosen when the code first reads it, each step being read once.  The *)
(* handler of a tool, the operator at the prompt and the sink of events    *)
(* are outside the module.                                                 *)
(***************************************************************************)
EXTENDS PlanGraph

CONSTANTS
    NoStep, NoTool,
    Tools,             \* registered tools
    Accepting,         \* tools whose parameters accept a plan step's arguments
    Writing,           \* tools that are not read_only
    HighRisk,          \* tools of risk_level "high"
    ApprovedWrite,     \* approved_write_tools of the context
    ApprovedHighRisk,  \* approved_high_risk_tools of the context
    MaxAttempts        \* bound: largest max_attempts of a retry_policy

ASSUME ToolsAssumption ==
    /\ Accepting \cup Writing \cup HighRisk \cup ApprovedWrite \cup ApprovedHighRisk
          \subseteq Tools
    /\ NoTool \notin Tools /\ NoStep \notin Steps /\ MaxAttempts \in Nat

VARIABLES
    pc,        \* the step run_plan and what it calls are at
    callback,  \* whether run_plan was given an approval callback
    next,      \* position in the queue of the step that is executed
    aborted,   \* aborted_by
    result,    \* results_by_id
    needs,     \* needs[s]: requires_approval
    answer,    \* answer[s]: what the approval callback returned
    tool,      \* the tool of the current step
    limit,     \* attempts of the current call
    outcome,   \* state of its ToolResult
    tries,     \* tries[s]: handler calls made for s
    calls,     \* history: <<step, tool>> of every handler call
    audit      \* <<step, event>> of every tool event recorded

callVars == <<tool, limit, outcome, tries, calls>>
execVars == <<callback, next, aborted, result, needs, answer>>
vars == <<planVars, pc, callVars, execVars, audit>>

Step == queue[next]

Fallbacks == {"retry", "skip", "clarify", "abort"}

NoResult == [state |-> "none", attempts |-> 0, skipped |-> FALSE, error |-> "none"]

Init ==
    /\ GraphInit
    /\ pc = "sort" /\ callback \in BOOLEAN /\ next = 1 /\ aborted = NoStep
    /\ result = [s \in Steps |-> NoResult]
    /\ needs = [s \in Steps |-> FALSE] /\ answer = [s \in Steps |-> "none"]
    /\ tool = NoTool /\ limit = 0 /\ outcome = "none"
    /\ tries = [s \in Steps |-> 0] /\ calls = {} /\ audit = {}

Goto(here, there) == pc = here /\ pc' = there

-----------------------------------------------------------------------------
SortVisit ==
    /\ pc = "sort" /\ Visit
    /\ UNCHANGED <<pc, callVars, execVars, audit>>

SortEnds ==
    /\ Sorted /\ Goto("sort", "step")
    /\ UNCHANGED <<planVars, callVars, execVars, audit>>

(* Mutation: an abort ends the loop.                                       *)
ReturnOnAbort ==
    /\ next > Len(queue) \/ aborted # NoStep
    /\ Goto("step", "returned")
    /\ UNCHANGED <<planVars, callVars, execVars, audit>>

Return ==
    /\ next > Len(queue) /\ Goto("step", "returned")
    /\ UNCHANGED <<planVars, callVars, execVars, audit>>

(* The step's result is stored under its id, and the loop goes on.         *)
Store(r) ==
    /\ result' = [result EXCEPT ![Step] = r]
    /\ next' = next + 1

Skipped(error) == [state |-> "none", attempts |-> 0, skipped |-> TRUE, error |-> error]

(* Mutation: the skipped step is not passed over.                          *)
SkipInPlace ==
    /\ next <= Len(queue) /\ aborted # NoStep /\ Goto("step", "step")
    /\ result' = [result EXCEPT ![Step] = Skipped("aborted_by_step")]
    /\ UNCHANGED <<planVars, callVars, callback, next, aborted, needs, answer, audit>>

SkipAborted ==
    /\ next <= Len(queue) /\ aborted # NoStep /\ Goto("step", "step")
    /\ Store(Skipped("aborted_by_step"))
    /\ UNCHANGED <<planVars, callVars, callback, aborted, needs, answer, audit>>

(* Mutation: a step is begun whatever an earlier one ordered.              *)
BeginAnyway ==
    /\ next <= Len(queue)
    /\ \E required \in BOOLEAN :
          /\ needs' = [needs EXCEPT ![Step] = required]
          /\ Goto("step", IF required THEN "approval" ELSE "lookup")
    /\ UNCHANGED <<planVars, callVars, callback, next, aborted, result, answer, audit>>

BeginStep ==
    /\ next <= Len(queue) /\ aborted = NoStep
    /\ \E required \in BOOLEAN :
          /\ needs' = [needs EXCEPT ![Step] = required]
          /\ Goto("step", IF required THEN "approval" ELSE "lookup")
    /\ UNCHANGED <<planVars, callVars, callback, next, aborted, result, answer, audit>>

SkipWithoutCallback ==
    /\ ~ callback /\ Goto("approval", "step")
    /\ Store(Skipped("approval_required_no_callback"))
    /\ UNCHANGED <<planVars, callVars, callback, aborted, needs, answer, audit>>

-----------------------------------------------------------------------------
(* make_cli_approval_callback: input is read in a pool of one thread, and  *)
(* the callback waits for it until the time limit.  Leaving the pool waits *)
(* for the thread again, without limit.                                    *)
AskTerminal ==
    /\ callback
    /\ \/ Goto("approval", "prompt") /\ UNCHANGED answer
       \/ /\ Goto("approval", "answered")     \* stdin is not a terminal
          /\ answer' = [answer EXCEPT ![Step] = "denied"]
    /\ UNCHANGED <<planVars, callVars, callback, next, aborted, result, needs, audit>>

OperatorAnswers ==
    /\ Goto("prompt", "answered")
    /\ \E a \in {"granted", "denied"} : answer' = [answer EXCEPT ![Step] = a]
    /\ UNCHANGED <<planVars, callVars, callback, next, aborted, result, needs, audit>>

PromptTimesOut ==
    /\ Goto("prompt", "drain")
    /\ answer' = [answer EXCEPT ![Step] = "denied"]
    /\ UNCHANGED <<planVars, callVars, callback, next, aborted, result, needs, audit>>

(* Mutation: what the operator says after the time limit still counts.     *)
LateAnswerCounts ==
    /\ Goto("drain", "answered")
    /\ answer' \in {answer, [answer EXCEPT ![Step] = "granted"]}
    /\ UNCHANGED <<planVars, callVars, callback, next, aborted, result, needs, audit>>

LateAnswer ==
    /\ Goto("drain", "answered")
    /\ UNCHANGED <<planVars, callVars, execVars, audit>>

(* input() at the end of stdin raises in the callback, and so in run_plan. *)
PromptRaises ==
    /\ Goto("prompt", "raised")
    /\ UNCHANGED <<planVars, callVars, execVars, audit>>

Denied ==
    /\ Goto("answered", "step") /\ answer[Step] = "denied"
    /\ Store(Skipped("approval_denied"))
    /\ UNCHANGED <<planVars, callVars, callback, aborted, needs, answer, audit>>

Granted ==
    /\ Goto("answered", "lookup") /\ answer[Step] = "granted"
    /\ UNCHANGED <<planVars, callVars, execVars, audit>>

-----------------------------------------------------------------------------
(* max_attempts of the retry_policy, but at least 1.                       *)
Limits == {IF n > 1 THEN n ELSE 1 : n \in 0..MaxAttempts}

FindTool ==
    \/ /\ Goto("lookup", "run")
       /\ tool' \in Tools
       /\ limit' \in Limits
       /\ outcome' = "none"
       /\ UNCHANGED <<planVars, tries, calls, execVars, audit>>
    \/ /\ Goto("lookup", "step")
       /\ Store(Skipped("no_tool_for_capability"))
       /\ UNCHANGED <<planVars, callVars, callback, aborted, needs, answer, audit>>

(* Mutation: one approval list is as good as the other.                    *)
EitherApproval(t) ==
    t \in Writing \cup HighRisk => t \in ApprovedWrite \cup ApprovedHighRisk

(* _policy_error is empty.                                                 *)
Allowed(t) ==
    /\ t \in Writing => t \in ApprovedWrite
    /\ t \in HighRisk => t \in ApprovedHighRisk

Record(event) == audit' = audit \cup {<<Step, event>>}

Refuse ==
    /\ tool \notin Accepting \/ ~ Allowed(tool)
    /\ outcome' = IF tool \notin Accepting THEN "invalid" ELSE "blocked"
    /\ Goto("run", "conclude")
    /\ UNCHANGED <<planVars, tool, limit, tries, calls, execVars, audit>>

StartTool ==
    /\ tool \in Accepting /\ Allowed(tool) /\ Goto("run", "attempt")
    /\ Record("tool_started")
    /\ UNCHANGED <<planVars, callVars, execVars>>

CallHandler ==
    /\ tries' = [tries EXCEPT ![Step] = @ + 1]
    /\ calls' = calls \cup {<<Step, tool>>}

AttemptReturns ==
    /\ Goto("attempt", "conclude") /\ CallHandler
    /\ outcome' = "completed"
    /\ UNCHANGED <<planVars, tool, limit, execVars, audit>>

(* Mutation: one attempt too many.                                         *)
AttemptRaisesOffByOne ==
    /\ Goto("attempt", IF tries[Step] < limit THEN "attempt" ELSE "conclude") /\ CallHandler
    /\ outcome' = IF tries[Step] < limit THEN outcome ELSE "failed"
    /\ Record("tool_attempt_failed")
    /\ UNCHANGED <<planVars, tool, limit, execVars>>

AttemptRaises ==
    /\ Goto("attempt", IF tries[Step] + 1 < limit THEN "attempt" ELSE "conclude")
    /\ CallHandler
    /\ outcome' = IF tries[Step] + 1 < limit THEN outcome ELSE "failed"
    /\ Record("tool_attempt_failed")
    /\ UNCHANGED <<planVars, tool, limit, execVars>>

(* The call's last event: tool_invalid, tool_blocked, tool_completed or    *)
(* tool_failed.                                                            *)
Conclude ==
    /\ Goto("conclude", "verify")
    /\ Record(outcome)
    /\ UNCHANGED <<planVars, callVars, execVars>>

(* The event that is written at this point of a call.                      *)
NextEvent ==
    [run |-> "tool_started", attempt |-> "tool_attempt_failed", conclude |-> outcome][pc]

(* Writing an event may fail, before or after its line is in the file, and *)
(* also when the handler was called.  run_plan raises, and its results are *)
(* lost.                                                                   *)
EventRaises ==
    /\ \/ pc = "run" /\ tool \in Accepting /\ Allowed(tool) /\ UNCHANGED callVars
       \/ pc = "attempt" /\ CallHandler /\ UNCHANGED <<tool, limit, outcome>>
       \/ pc = "conclude" /\ UNCHANGED callVars
    /\ audit' \in {audit, audit \cup {<<Step, NextEvent>>}}
    /\ pc' = "raised"
    /\ UNCHANGED <<planVars, execVars>>

-----------------------------------------------------------------------------
(* ToolResultVerifier.verify: a completed call either meets its criteria   *)
(* or is handled by the step's fallback strategy.                          *)
Suggestions ==
    CASE outcome \in {"invalid", "blocked"} -> {"abort"}
      [] outcome = "failed" -> {"retry"}
      [] outcome = "completed" -> {"proceed"} \cup Fallbacks

(* What ToolRunner.run reports of its attempts.                            *)
AttemptsMade ==
    CASE outcome \in {"invalid", "blocked"} -> 0
      [] outcome = "failed" -> limit
      [] outcome = "completed" -> tries[Step]

(* Mutation: attempts are taken from the policy.                           *)
CallResultOfLimit(action) ==
    [state |-> outcome, attempts |-> limit, skipped |-> action \in {"skip", "clarify"},
     error |-> IF action = "clarify" THEN "clarification_needed" ELSE ""]

CallResult(action) ==
    [state |-> outcome, attempts |-> AttemptsMade, skipped |-> action \in {"skip", "clarify"},
     error |-> IF action = "clarify" THEN "clarification_needed" ELSE ""]

Verify ==
    /\ Goto("verify", "step")
    /\ \E action \in Suggestions :
          /\ Store(CallResult(action))
          /\ aborted' = IF action = "abort" THEN Step ELSE aborted
    /\ UNCHANGED <<planVars, callVars, callback, needs, answer, audit>>

Terminated == pc \in {"returned", "raised"} /\ UNCHANGED vars

(* run_plan's own steps, which include the end of the prompt's time limit. *)
RunStep ==
    \/ SortVisit \/ SortEnds \/ Return \/ SkipAborted \/ BeginStep
    \/ SkipWithoutCallback \/ AskTerminal \/ PromptTimesOut \/ Denied \/ Granted
    \/ FindTool \/ Refuse \/ StartTool \/ AttemptReturns \/ AttemptRaises
    \/ Conclude \/ Verify \/ EventRaises

Next ==
    \/ RunStep
    \/ OperatorAnswers \/ LateAnswer \/ PromptRaises
    \/ Terminated

(* The process is scheduled and tools return or raise.  The operator owes  *)
(* no answer.                                                              *)
Spec == Init /\ [][Next]_vars /\ WF_vars(RunStep)

-----------------------------------------------------------------------------
Results ==
    [state : {"none", "invalid", "blocked", "failed", "completed"},
     attempts : Limits \cup {0}, skipped : BOOLEAN,
     error : {"none", "", "aborted_by_step", "approval_required_no_callback",
              "approval_denied", "no_tool_for_capability", "clarification_needed"}]

TypeOK ==
    /\ GraphTypeOK
    /\ pc \in {"sort", "step", "approval", "prompt", "drain", "answered", "lookup", "run",
               "attempt", "conclude", "verify", "returned", "raised"}
    /\ callback \in BOOLEAN /\ next \in 1..(Len(queue) + 1)
    /\ aborted \in Steps \cup {NoStep}
    /\ result \in [Steps -> Results]
    /\ needs \in [Steps -> BOOLEAN]
    /\ answer \in [Steps -> {"none", "granted", "denied"}]
    /\ tool \in Tools \cup {NoTool} /\ limit \in Limits \cup {0}
    /\ outcome \in {"none", "invalid", "blocked", "failed", "completed"}
    /\ tries \in [Steps -> Limits \cup {0}]
    /\ calls \subseteq Steps \X Tools
    /\ audit \subseteq Steps \X {"tool_started", "tool_attempt_failed", "invalid",
                                 "blocked", "failed", "completed"}

HasResult(s) == result[s] # NoResult

(* No handler runs behind the back of a gate: the context's policy allowed *)
(* the tool, a step that requires approval was approved in time (an answer *)
(* after the time limit is none), and the call was announced in the audit  *)
(* file first.                                                             *)
CallsPassedTheGates ==
    \A c \in calls :
        /\ c[2] \in Accepting
        /\ c[2] \in Writing => c[2] \in ApprovedWrite
        /\ c[2] \in HighRisk => c[2] \in ApprovedHighRisk
        /\ needs[c[1]] => callback /\ answer[c[1]] = "granted"
        /\ <<c[1], "tool_started">> \in audit

(* A prompt that timed out is a denial, whatever is typed later.           *)
TimedOutStaysDenied ==
    [][\A s \in Steps : answer[s] = "denied" => answer'[s] = "denied"]_vars

(* Tools see the plan's order: when a step's handler runs, everything the  *)
(* step depends on has its result already.                                 *)
CallsFollowDependencies ==
    \A s \in Steps : tries[s] > 0 => \A d \in Known(s) : HasResult(d)

(* A refused call aborts the plan, and an abort is final: none of the      *)
(* steps after it is called, each one's result says so, and no result of a *)
(* step before it does.                                                    *)
AbortIsFinal ==
    /\ \A s \in Steps : result[s].state \in {"invalid", "blocked"} => aborted = s
    /\ \A m, n \in DOMAIN queue :
          aborted = queue[m] /\ HasResult(queue[n]) =>
              (m < n <=> result[queue[n]].error = "aborted_by_step")

(* What the results say of the attempts is what happened: a completed call *)
(* ended with its only success, a failed one used up its attempts (at      *)
(* least one, even for max_attempts 0), a refused one has made none, and a *)
(* step the plan skipped was never called.                                 *)
AttemptsAreHonest ==
    \A s \in Steps : HasResult(s) =>
        /\ result[s].attempts = tries[s]
        /\ tries[s] > 0 <=> result[s].state \in {"completed", "failed"}
        /\ result[s].state # "none" => <<s, result[s].state>> \in audit
        /\ \A state \in {"completed", "failed", "invalid", "blocked"} :
              <<s, state>> \in audit => state = result[s].state

(* A plan that returns has a result for every step but those a cycle       *)
(* traps, which run_plan drops without a word.                             *)
OnlyTrappedStepsVanish ==
    pc = "returned" => \A s \in Steps : HasResult(s) <=> s \notin Stuck

(* A plan ends, except while the prompt waits for an operator who does not *)
(* answer.                                                                 *)
PlanEnds == <>(pc \in {"returned", "raised"}) \/ <>[](pc = "drain")

(* The ledger of PlanLedger.tla.  A step is called when its handler has    *)
(* run and its result is not stored yet.                                   *)
Entry(s) ==
    IF ~ HasResult(s) THEN (IF tries[s] > 0 THEN "called" ELSE "open")
    ELSE IF result[s].error = "aborted_by_step" THEN "void"
    ELSE IF result[s].state \in {"invalid", "blocked"} THEN "refused"
    ELSE IF result[s].state = "none" THEN "skipped" ELSE "done"

Ledger == INSTANCE PlanLedger WITH
    Plans <- Graphs,
    entry <- [s \in Steps |-> Entry(s)],
    halted <- aborted # NoStep,
    end <- IF pc \in {"returned", "raised"} THEN pc ELSE "running"

(* Retries, approvals, time limits and failing events included, run_plan   *)
(* keeps that ledger.                                                      *)
ImplementsLedger == Ledger!Spec

(* The docstring of make_cli_approval_callback: "Timeout or                *)
(* non-interactive stdin returns False".                                   *)
TimeoutReturns == pc = "drain" ~> pc # "drain"
=============================================================================
