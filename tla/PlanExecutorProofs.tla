------------------------- MODULE PlanExecutorProofs -------------------------
(***************************************************************************)
(* Proofs about PlanExecutor, for any plan, any set of tools, any policy   *)
(* and any number of attempts.                                             *)
(***************************************************************************)
EXTENDS PlanExecutor, PlanGraphProofs

Calling == {"attempt", "conclude", "verify", "raised"}

(* The queue is complete when the first step is executed.                  *)
SortedFirst ==
    /\ pc # "sort" => Sorted
    /\ pc = "sort" => next = 1 /\ aborted = NoStep

(* Between two rounds of the loop next may be past the end.                *)
InTheLoop ==
    /\ pc \notin {"sort", "step", "returned"} => next \in DOMAIN queue
    /\ pc = "returned" => next > Len(queue)

(* Results are stored in the order of the queue, one by one.               *)
StoredInOrder ==
    /\ \A n \in DOMAIN queue : HasResult(queue[n]) <=> n < next
    /\ \A s \in Steps : HasResult(s) => s \in InQueue

(* Only the steps up to the current one were called.                       *)
TriedInOrder ==
    \A s \in Steps : tries[s] > 0 =>
        \E n \in DOMAIN queue :
            queue[n] = s /\ n <= next /\ (n = next => pc \in Calling)

CalledIsTried == \A c \in calls : tries[c[1]] > 0

(* What a call has passed when it gets to its handler.                     *)
ReadyToCall ==
    /\ pc \in {"run", "attempt"} => tool \in Tools /\ limit \in Limits
    /\ pc = "attempt" =>
          /\ tool \in Accepting /\ Allowed(tool) /\ <<Step, "tool_started">> \in audit
          /\ tries[Step] < limit
    /\ pc \in {"conclude", "verify"} => outcome # "none"

(* The operator was asked, and answered, before the tool is looked up.     *)
Cleared ==
    /\ pc \in {"prompt", "drain", "answered"} => callback
    /\ pc \in {"lookup", "run", "attempt", "conclude", "verify"} /\ needs[Step] =>
          callback /\ answer[Step] = "granted"

ExecInv ==
    /\ SortedFirst /\ InTheLoop /\ StoredInOrder /\ TriedInOrder /\ CalledIsTried
    /\ ReadyToCall /\ Cleared /\ CallsPassedTheGates

IInv == GraphInv /\ TypeOK /\ ExecInv

-----------------------------------------------------------------------------
(* A retry policy allows every smaller number of attempts too.             *)
LEMMA LimitsClosed ==
    ASSUME NEW l \in Limits, NEW n \in Nat, 0 < n, n <= l
    PROVE  n \in Limits
<1>1. PICK w \in 0..MaxAttempts : l = IF w > 1 THEN w ELSE 1
  BY DEF Limits
<1>2. CASE w > 1
  <2>1. n \in 0..MaxAttempts /\ n = IF n > 1 THEN n ELSE 1
    BY <1>1, <1>2, ToolsAssumption
  <2> QED BY <2>1 DEF Limits
<1>3. CASE ~ (w > 1)
  BY <1>1, <1>3, ToolsAssumption DEF Limits
<1> QED BY <1>2, <1>3

LEMMA LimitsPositive == \A l \in Limits : l \in Nat /\ 0 < l
BY ToolsAssumption DEF Limits

LEMMA InitInv == Init => IInv
<1> SUFFICES ASSUME Init PROVE IInv
  OBVIOUS
<1>1. GraphInv
  BY GraphInitInv DEF Init
<1>2. GraphTypeOK
  BY <1>1 DEF GraphInv
<1>3. TypeOK
  <2>1. NoResult \in Results
    BY DEF NoResult, Results
  <2>2. next \in 1..(Len(queue) + 1)
    BY <1>2 DEF Init, GraphTypeOK
  <2> QED BY <1>2, <2>1, <2>2 DEF Init, TypeOK
<1>4. \A s \in Steps : ~ HasResult(s)
  BY DEF Init, HasResult
<1>5. DOMAIN queue \subseteq Nat \ {0} /\ \A n \in DOMAIN queue : queue[n] \in Steps
  BY <1>2 DEF GraphTypeOK
<1>6. SortedFirst /\ InTheLoop /\ StoredInOrder
  BY <1>4, <1>5 DEF Init, SortedFirst, InTheLoop, StoredInOrder
<1>7. TriedInOrder /\ CalledIsTried /\ ReadyToCall /\ Cleared /\ CallsPassedTheGates
  BY DEF Init, TriedInOrder, CalledIsTried, ReadyToCall, Cleared, CallsPassedTheGates
<1> QED BY <1>1, <1>3, <1>6, <1>7 DEF IInv, ExecInv

-----------------------------------------------------------------------------
(* The graph is sorted once, and no step after that touches it.            *)
LEMMA GraphIsSortedOnce == ASSUME [Next]_vars PROVE SortVisit \/ UNCHANGED planVars
BY DEF Next, RunStep, vars, Terminated, SortEnds, Return, SkipAborted, BeginStep,
       SkipWithoutCallback, AskTerminal, OperatorAnswers, PromptTimesOut, LateAnswer,
       PromptRaises, Denied, Granted, FindTool, Refuse, StartTool, AttemptReturns,
       AttemptRaises, Conclude, EventRaises, Verify

LEMMA GraphStep == GraphInv /\ [Next]_vars => GraphInv'
<1>1. SortVisit => Visit
  BY DEF SortVisit
<1> QED BY <1>1, GraphIsSortedOnce, VisitInv, GraphInvStutters

(* The current step is a step of the plan that has no result yet.          *)
LEMMA CurrentStep ==
    ASSUME GraphInv, TypeOK, next \in DOMAIN queue
    PROVE  Step \in Steps
BY DEF GraphInv, GraphTypeOK, Step

LEMMA ResultRecord ==
    ASSUME NEW state \in {"invalid", "blocked", "failed", "completed"},
           NEW attempts \in Limits \cup {0}, NEW skipped \in BOOLEAN,
           NEW error \in {"", "clarification_needed"}
    PROVE  [state |-> state, attempts |-> attempts, skipped |-> skipped, error |-> error]
              \in Results
BY DEF Results

(* Every result that is stored is one of the results of the type.          *)
LEMMA ResultTypes ==
    ASSUME TypeOK, Step \in Steps
    PROVE  /\ \A e \in {"aborted_by_step", "approval_required_no_callback",
                        "approval_denied", "no_tool_for_capability"} :
                 Skipped(e) \in Results /\ Skipped(e) # NoResult
           /\ outcome # "none" =>
                 /\ Suggestions \subseteq {"proceed"} \cup Fallbacks
                 /\ \A action \in Suggestions :
                       CallResult(action) \in Results /\ CallResult(action) # NoResult
<1>1. \A e \in {"aborted_by_step", "approval_required_no_callback",
                "approval_denied", "no_tool_for_capability"} :
         Skipped(e) \in Results /\ Skipped(e) # NoResult
  BY DEF Skipped, Results, NoResult
<1>2. ASSUME outcome # "none" PROVE Suggestions \subseteq {"proceed"} \cup Fallbacks
  <2>1. CASE outcome \in {"invalid", "blocked"}
    BY <2>1 DEF Suggestions, Fallbacks
  <2>2. CASE outcome = "failed"
    BY <2>2 DEF Suggestions, Fallbacks
  <2>3. CASE outcome = "completed"
    BY <2>3 DEF Suggestions, Fallbacks
  <2> QED BY <1>2, <2>1, <2>2, <2>3 DEF TypeOK
<1>3. ASSUME outcome # "none", NEW action \in Suggestions
      PROVE  CallResult(action) \in Results /\ CallResult(action) # NoResult
  <2>1. tries[Step] \in Limits \cup {0} /\ limit \in Limits \cup {0}
    BY DEF TypeOK
  <2>2. AttemptsMade \in Limits \cup {0}
    <3>1. CASE outcome \in {"invalid", "blocked"}
      BY <3>1 DEF AttemptsMade
    <3>2. CASE outcome = "failed"
      BY <3>2, <2>1 DEF AttemptsMade
    <3>3. CASE outcome = "completed"
      BY <3>3, <2>1 DEF AttemptsMade
    <3> QED BY <1>3, <3>1, <3>2, <3>3 DEF TypeOK
  <2>3. CallResult(action).state = outcome
    BY DEF CallResult
  <2>4. CallResult(action) \in Results
    <3>1. outcome \in {"invalid", "blocked", "failed", "completed"}
      BY <1>3 DEF TypeOK
    <3>2. (action \in {"skip", "clarify"}) \in BOOLEAN
      OBVIOUS
    <3>3. (IF action = "clarify" THEN "clarification_needed" ELSE "")
             \in {"", "clarification_needed"}
      OBVIOUS
    <3> QED BY <2>2, <3>1, <3>2, <3>3, ResultRecord DEF CallResult
  <2> QED BY <1>3, <2>3, <2>4 DEF NoResult
<1> QED BY <1>1, <1>2, <1>3

(* The steps of run_plan's loop that store a result keep the types.        *)
LEMMA StoreType ==
    ASSUME GraphInv, TypeOK, GraphInv', next \in DOMAIN queue, UNCHANGED planVars,
           NEW r \in Results, Store(r)
    PROVE  result' \in [Steps -> Results] /\ next' \in 1..(Len(queue') + 1)
<1>1. Step \in Steps
  BY CurrentStep
<1>2. result' \in [Steps -> Results]
  BY <1>1 DEF Store, TypeOK
<1>3. DOMAIN queue = 1..Len(queue) /\ Len(queue) \in Nat /\ queue' = queue
  BY DEF GraphInv, GraphTypeOK, planVars
<1>4. next' = next + 1
  BY DEF Store
<1> QED BY <1>2, <1>3, <1>4

LEMMA TypeStep == IInv /\ GraphInv' /\ [Next]_vars => TypeOK'
<1> SUFFICES ASSUME IInv, GraphInv', [Next]_vars PROVE TypeOK'
  OBVIOUS
<1> USE DEF Goto, callVars, execVars
<1>1. GraphInv /\ TypeOK /\ GraphTypeOK' /\ InTheLoop /\ ReadyToCall
  BY DEF IInv, ExecInv, GraphInv
<1>2. next \in DOMAIN queue => Step \in Steps
  BY <1>1, CurrentStep
<1>3. DOMAIN queue = 1..Len(queue) /\ Len(queue) \in Nat /\ next \in 1..(Len(queue) + 1)
  BY <1>1 DEF GraphTypeOK, TypeOK
<1>4. CASE SortVisit
  <2>1. Len(queue') \in Nat /\ Len(queue) <= Len(queue')
    <3>1. PICK found \in InPlanOrder(Released(queue[visited + 1])) : queue' = queue \o found
      BY <1>4 DEF SortVisit, Visit
    <3>2. found \in Seq(Steps)
      BY <3>1, PlanOrderLists DEF Released
    <3> QED BY <1>1, <3>1, <3>2 DEF GraphTypeOK
  <2>2. next' \in 1..(Len(queue') + 1)
    BY <1>3, <1>4, <2>1 DEF SortVisit
  <2> QED BY <1>1, <1>4, <2>2 DEF SortVisit, TypeOK
<1>5. CASE UNCHANGED vars
  BY <1>1, <1>5 DEF vars, planVars, TypeOK
<1>6. CASE SortEnds \/ Return \/ Granted \/ LateAnswer \/ PromptRaises
  <2>1. pc' \in {"step", "returned", "lookup", "answered", "raised"}
    BY <1>6 DEF SortEnds, Return, Granted, LateAnswer, PromptRaises
  <2>2. UNCHANGED <<planVars, callVars, execVars, audit>>
    BY <1>6 DEF SortEnds, Return, Granted, LateAnswer, PromptRaises
  <2> QED BY <1>1, <2>1, <2>2 DEF planVars, TypeOK
<1>7. CASE BeginStep
  BY <1>1, <1>2, <1>3, <1>7 DEF BeginStep, planVars, TypeOK
<1>8. CASE AskTerminal \/ OperatorAnswers \/ PromptTimesOut
  <2>1. Step \in Steps
    BY <1>1, <1>2, <1>8 DEF InTheLoop, AskTerminal, OperatorAnswers, PromptTimesOut
  <2>2. answer' \in [Steps -> {"none", "granted", "denied"}]
    BY <1>1, <1>8, <2>1 DEF AskTerminal, OperatorAnswers, PromptTimesOut, TypeOK
  <2>3. pc' \in {"prompt", "answered", "drain"}
    BY <1>8 DEF AskTerminal, OperatorAnswers, PromptTimesOut
  <2>4. UNCHANGED <<planVars, callVars, callback, next, aborted, result, needs, audit>>
    BY <1>8 DEF AskTerminal, OperatorAnswers, PromptTimesOut
  <2> QED BY <1>1, <2>2, <2>3, <2>4 DEF planVars, TypeOK
<1>9. ASSUME NEW r \in Results, Store(r), next \in DOMAIN queue, pc' = "step",
             UNCHANGED <<planVars, callVars, callback, needs, answer, audit>>,
             aborted' \in Steps \cup {NoStep}
      PROVE  TypeOK'
  <2>1. result' \in [Steps -> Results] /\ next' \in 1..(Len(queue') + 1)
    BY <1>1, <1>9, StoreType DEF IInv
  <2> QED BY <1>1, <1>9, <2>1 DEF planVars, TypeOK
<1>10. ASSUME NEW e \in {"aborted_by_step", "approval_required_no_callback",
                         "approval_denied", "no_tool_for_capability"},
              Store(Skipped(e)), next \in DOMAIN queue, pc' = "step",
              UNCHANGED <<planVars, callVars, callback, aborted, needs, answer, audit>>
       PROVE  TypeOK'
  <2>1. Skipped(e) \in Results
    BY <1>1, <1>2, <1>10, ResultTypes
  <2> QED BY <1>1, <1>9, <1>10, <2>1 DEF TypeOK
<1>11. CASE SkipAborted
  <2>1. next \in DOMAIN queue
    BY <1>3, <1>11 DEF SkipAborted
  <2> QED BY <1>10, <1>11, <2>1 DEF SkipAborted
<1>12. CASE SkipWithoutCallback
  BY <1>1, <1>10, <1>12 DEF SkipWithoutCallback, InTheLoop
<1>13. CASE Denied
  BY <1>1, <1>10, <1>13 DEF Denied, InTheLoop
<1>14. CASE FindTool
  <2>1. next \in DOMAIN queue
    BY <1>1, <1>14 DEF FindTool, InTheLoop
  <2>2. CASE pc' = "step"
    BY <1>10, <1>14, <2>1, <2>2 DEF FindTool
  <2>3. CASE pc' = "run"
    BY <1>1, <1>14, <2>3 DEF FindTool, planVars, TypeOK
  <2> QED BY <1>14, <2>2, <2>3 DEF FindTool
<1>15. CASE Refuse
  BY <1>1, <1>15 DEF Refuse, planVars, TypeOK
<1>16. CASE StartTool
  <2>1. Step \in Steps
    BY <1>1, <1>2, <1>16 DEF InTheLoop, StartTool
  <2> QED BY <1>1, <1>16, <2>1 DEF StartTool, Record, planVars, TypeOK
<1>17. ASSUME pc = "attempt", CallHandler
       PROVE  /\ Step \in Steps /\ tries' \in [Steps -> Limits \cup {0}]
              /\ calls' \subseteq Steps \X Tools
  <2>1. Step \in Steps /\ tool \in Tools
    BY <1>1, <1>2, <1>17 DEF InTheLoop, ReadyToCall
  <2>2. limit \in Limits /\ tries[Step] < limit /\ tries[Step] \in Limits \cup {0}
    BY <1>1, <1>17, <2>1 DEF ReadyToCall, TypeOK
  <2>3. tries[Step] + 1 \in Limits
    <3>1. /\ limit \in Nat /\ tries[Step] \in Nat
          /\ tries[Step] + 1 \in Nat /\ 0 < tries[Step] + 1 /\ tries[Step] + 1 <= limit
      BY <2>2, LimitsPositive
    <3> QED BY <2>2, <3>1, LimitsClosed
  <2> QED BY <1>1, <1>17, <2>1, <2>3 DEF CallHandler, TypeOK
<1>18. CASE AttemptReturns
  BY <1>1, <1>17, <1>18 DEF AttemptReturns, planVars, TypeOK
<1>19. CASE AttemptRaises
  <2>1. pc' \in {"attempt", "conclude"} /\ outcome' \in {outcome, "failed"}
    BY <1>19 DEF AttemptRaises
  <2>2. Step \in Steps /\ tries' \in [Steps -> Limits \cup {0}] /\ calls' \subseteq Steps \X Tools
    BY <1>17, <1>19 DEF AttemptRaises
  <2>3. /\ UNCHANGED <<planVars, tool, limit, execVars>>
        /\ audit' = audit \cup {<<Step, "tool_attempt_failed">>}
    BY <1>19 DEF AttemptRaises, Record
  <2> QED BY <1>1, <2>1, <2>2, <2>3 DEF planVars, TypeOK
<1>20. CASE Conclude
  <2>1. Step \in Steps /\ outcome # "none"
    BY <1>1, <1>2, <1>20 DEF InTheLoop, Conclude, ReadyToCall
  <2> QED BY <1>1, <1>20, <2>1 DEF Conclude, Record, planVars, TypeOK
<1>21. CASE EventRaises
  <2>1. Step \in Steps
    BY <1>1, <1>2, <1>21 DEF InTheLoop, EventRaises
  <2>2. NextEvent \in {"tool_started", "tool_attempt_failed", "invalid", "blocked", "failed",
                       "completed"}
    BY <1>1, <1>21 DEF EventRaises, NextEvent, ReadyToCall, TypeOK
  <2>3. audit' \subseteq Steps \X {"tool_started", "tool_attempt_failed", "invalid",
                                   "blocked", "failed", "completed"}
    BY <1>1, <1>21, <2>1, <2>2 DEF EventRaises, TypeOK
  <2>4. CASE pc = "attempt"
    BY <1>1, <1>17, <1>21, <2>3, <2>4 DEF EventRaises, planVars, TypeOK
  <2>5. CASE pc # "attempt"
    BY <1>1, <1>21, <2>3, <2>5 DEF EventRaises, planVars, TypeOK
  <2> QED BY <2>4, <2>5
<1>22. CASE Verify
  <2>1. next \in DOMAIN queue /\ Step \in Steps /\ outcome # "none"
    BY <1>1, <1>2, <1>22 DEF InTheLoop, Verify, ReadyToCall
  <2>2. PICK action \in Suggestions :
            /\ Store(CallResult(action))
            /\ aborted' = IF action = "abort" THEN Step ELSE aborted
    BY <1>22 DEF Verify
  <2>3. CallResult(action) \in Results /\ aborted' \in Steps \cup {NoStep}
    BY <1>1, <2>1, <2>2, ResultTypes DEF TypeOK
  <2> QED BY <1>9, <1>22, <2>1, <2>2, <2>3 DEF Verify
<1> QED BY <1>4, <1>5, <1>6, <1>7, <1>8, <1>11, <1>12, <1>13, <1>14, <1>15, <1>16, <1>18,
           <1>19, <1>20, <1>21, <1>22 DEF Next, RunStep, Terminated

-----------------------------------------------------------------------------
(* What a step does to the loop: it stores the current result, or leaves   *)
(* position and results alone.                                             *)
LoopStep ==
    \/ /\ next \in DOMAIN queue /\ pc \notin {"sort", "returned", "raised"} /\ pc' = "step"
       /\ next' = next + 1
       /\ \E r \in Results : r # NoResult /\ result' = [result EXCEPT ![Step] = r]
       /\ UNCHANGED <<calls, tries, needs, answer, callback, audit>>
    \/ /\ next' = next /\ result' = result
       /\ pc' = "sort" => pc = "sort"
       /\ pc = "sort" => pc' \in {"sort", "step"} /\ aborted' = aborted
       /\ pc' \in {"step", "returned"} \/ next \in DOMAIN queue
       /\ pc' = "returned" => pc = "step" /\ next > Len(queue)
       /\ pc = "sort" /\ pc' = "step" => Sorted

LEMMA EveryStepIsLoopStep ==
    ASSUME IInv, Next, UNCHANGED planVars
    PROVE  LoopStep \/ UNCHANGED vars
<1> USE DEF Goto, callVars, execVars
<1>1. GraphInv /\ TypeOK /\ InTheLoop /\ ReadyToCall
  BY DEF IInv, ExecInv
<1>2. next \in DOMAIN queue => Step \in Steps
  BY <1>1, CurrentStep
<1>3. DOMAIN queue = 1..Len(queue) /\ Len(queue) \in Nat /\ next \in 1..(Len(queue) + 1)
  BY <1>1 DEF GraphInv, GraphTypeOK, TypeOK
<1>4. CASE SortVisit
  <2>1. visited' = visited + 1 /\ visited' = visited /\ visited \in Nat
    BY <1>1, <1>4 DEF SortVisit, Visit, planVars, GraphInv, GraphTypeOK
  <2> QED BY <2>1
<1>5. CASE SortEnds \/ Return
  BY <1>5 DEF SortEnds, Return, LoopStep
<1>6. CASE Granted \/ LateAnswer \/ PromptRaises
  BY <1>1, <1>6 DEF Granted, LateAnswer, PromptRaises, LoopStep, InTheLoop
<1>7. CASE BeginStep
  <2>1. next \in DOMAIN queue
    BY <1>3, <1>7 DEF BeginStep
  <2>2. pc = "step" /\ pc' \in {"approval", "lookup"} /\ next' = next /\ result' = result
    BY <1>7 DEF BeginStep
  <2> QED BY <2>1, <2>2 DEF LoopStep
<1>8. CASE AskTerminal \/ OperatorAnswers \/ PromptTimesOut
  BY <1>1, <1>8 DEF AskTerminal, OperatorAnswers, PromptTimesOut, LoopStep, InTheLoop
<1>9. ASSUME NEW r \in Results, r # NoResult, Store(r), next \in DOMAIN queue, pc' = "step",
             pc \notin {"sort", "returned", "raised"},
             UNCHANGED <<calls, tries, needs, answer, callback, audit>>
      PROVE  LoopStep
  BY <1>9 DEF Store, LoopStep
<1>10. CASE SkipAborted
  <2>1. next \in DOMAIN queue
    BY <1>3, <1>10 DEF SkipAborted
  <2> QED BY <1>1, <1>2, <1>9, <1>10, <2>1, ResultTypes DEF SkipAborted
<1>11. CASE SkipWithoutCallback
  BY <1>1, <1>2, <1>9, <1>11, ResultTypes DEF SkipWithoutCallback, InTheLoop
<1>12. CASE Denied
  BY <1>1, <1>2, <1>9, <1>12, ResultTypes DEF Denied, InTheLoop
<1>13. CASE FindTool
  <2>1. next \in DOMAIN queue
    BY <1>1, <1>13 DEF FindTool, InTheLoop
  <2>2. CASE pc' = "step"
    BY <1>1, <1>2, <1>9, <1>13, <2>1, <2>2, ResultTypes DEF FindTool
  <2>3. CASE pc' = "run"
    BY <1>13, <2>1, <2>3 DEF FindTool, LoopStep
  <2> QED BY <1>13, <2>2, <2>3 DEF FindTool
<1>14. CASE Refuse \/ StartTool \/ Conclude
  BY <1>1, <1>14 DEF Refuse, StartTool, Conclude, InTheLoop, LoopStep
<1>15. CASE AttemptReturns
  BY <1>1, <1>15 DEF AttemptReturns, InTheLoop, LoopStep
<1>16. CASE AttemptRaises
  <2>1. pc = "attempt" /\ pc' \in {"attempt", "conclude"} /\ next' = next /\ result' = result
    BY <1>16 DEF AttemptRaises
  <2> QED BY <1>1, <2>1 DEF InTheLoop, LoopStep
<1>17. CASE EventRaises
  BY <1>1, <1>17 DEF EventRaises, InTheLoop, LoopStep
<1>18. CASE Verify
  <2>1. next \in DOMAIN queue /\ Step \in Steps /\ outcome # "none"
    BY <1>1, <1>2, <1>18 DEF InTheLoop, Verify, ReadyToCall
  <2>2. PICK action \in Suggestions : Store(CallResult(action))
    BY <1>18 DEF Verify
  <2>3. CallResult(action) \in Results /\ CallResult(action) # NoResult
    BY <1>1, <2>1, <2>2, ResultTypes
  <2> QED BY <1>9, <1>18, <2>1, <2>2, <2>3 DEF Verify
<1> QED BY <1>4, <1>5, <1>6, <1>7, <1>8, <1>10, <1>11, <1>12, <1>13, <1>14, <1>15, <1>16,
           <1>17, <1>18 DEF Next, RunStep, Terminated

(* The loop goes through the queue one by one.                             *)
LEMMA LoopInv ==
    ASSUME IInv, LoopStep, UNCHANGED planVars
    PROVE  SortedFirst' /\ InTheLoop' /\ StoredInOrder'
<1>1. GraphInv /\ TypeOK /\ SortedFirst /\ InTheLoop /\ StoredInOrder
  BY DEF IInv, ExecInv
<1>2. queue' = queue /\ visited' = visited /\ InQueue' = InQueue
  BY DEF planVars, InQueue
<1>3. DOMAIN queue = 1..Len(queue) /\ Len(queue) \in Nat /\ next \in 1..(Len(queue) + 1)
      /\ \A n \in DOMAIN queue : queue[n] \in Steps
  BY <1>1 DEF GraphInv, GraphTypeOK, TypeOK
<1>4. CASE /\ next \in DOMAIN queue /\ pc \notin {"sort", "returned", "raised"} /\ pc' = "step"
           /\ next' = next + 1
           /\ \E r \in Results : r # NoResult /\ result' = [result EXCEPT ![Step] = r]
  <2>1. SortedFirst' /\ InTheLoop'
    BY <1>1, <1>2, <1>4 DEF SortedFirst, InTheLoop, Sorted
  <2>2. Step = queue[next] /\ Step \in Steps /\ Step \in InQueue
    BY <1>3, <1>4 DEF Step, InQueue
  <2>3. \A s \in Steps : HasResult(s)' <=> HasResult(s) \/ s = Step
    BY <1>1, <1>4, <2>2 DEF HasResult, TypeOK
  <2>4. \A n \in DOMAIN queue : queue[n] = Step <=> n = next
    BY <1>1, <1>4, <2>2 DEF GraphInv, Distinct
  <2>5. \A n \in DOMAIN queue : n < next' <=> n < next \/ n = next
    BY <1>3, <1>4
  <2> QED BY <1>1, <1>2, <1>3, <2>1, <2>2, <2>3, <2>4, <2>5 DEF StoredInOrder
<1>5. CASE /\ next' = next /\ result' = result
           /\ pc' = "sort" => pc = "sort"
           /\ pc = "sort" => pc' \in {"sort", "step"} /\ aborted' = aborted
           /\ pc' \in {"step", "returned"} \/ next \in DOMAIN queue
           /\ pc' = "returned" => pc = "step" /\ next > Len(queue)
           /\ pc = "sort" /\ pc' = "step" => Sorted
  <2>1. SortedFirst' /\ InTheLoop'
    BY <1>1, <1>2, <1>5 DEF SortedFirst, InTheLoop, Sorted
  <2>2. \A s : HasResult(s)' = HasResult(s)
    BY <1>5 DEF HasResult
  <2> QED BY <1>1, <1>2, <1>3, <1>5, <2>1, <2>2 DEF StoredInOrder
<1> QED BY <1>4, <1>5 DEF LoopStep

(* Tools are called for the current step only, when the gates are passed.  *)
LEMMA CallInv ==
    ASSUME IInv, Next, UNCHANGED planVars, TypeOK', LoopStep
    PROVE  TriedInOrder' /\ CalledIsTried' /\ ReadyToCall'
<1> USE DEF Goto, callVars, execVars
<1>1. /\ GraphInv /\ TypeOK /\ InTheLoop /\ TriedInOrder /\ CalledIsTried /\ ReadyToCall
  BY DEF IInv, ExecInv
<1>2. queue' = queue /\ DOMAIN queue \subseteq Nat /\ next \in Nat
      /\ \A n \in DOMAIN queue : queue[n] \in Steps
  BY <1>1 DEF planVars, GraphInv, GraphTypeOK, TypeOK
<1>3. tries \in [Steps -> Nat] /\ calls \subseteq Steps \X Tools
  <2>1. Limits \cup {0} \subseteq Nat
    BY LimitsPositive
  <2> QED BY <1>1, <2>1 DEF TypeOK
<1>4. \/ UNCHANGED <<tries, calls>>
      \/ /\ pc = "attempt" /\ CallHandler /\ next' = next
         /\ pc' \in Calling
  BY DEF Calling, Next, RunStep, Terminated, vars, SortVisit, SortEnds, Return, SkipAborted,
         BeginStep, SkipWithoutCallback, AskTerminal, OperatorAnswers, PromptTimesOut,
         LateAnswer, PromptRaises, Denied, Granted, FindTool, Refuse, StartTool,
         AttemptReturns, AttemptRaises, Conclude, EventRaises, Verify
<1>5. pc \in Calling => pc' \in Calling \/ (pc' = "step" /\ next' = next + 1)
  BY DEF Calling, Next, RunStep, Terminated, vars, SortVisit, SortEnds, Return, SkipAborted,
         BeginStep, SkipWithoutCallback, AskTerminal, OperatorAnswers, PromptTimesOut,
         LateAnswer, PromptRaises, Denied, Granted, FindTool, Refuse, StartTool,
         AttemptReturns, AttemptRaises, Conclude, EventRaises, Verify, Store
<1>6. next' = next \/ next' = next + 1
  BY DEF LoopStep
<1>7. ASSUME NEW s \in Steps, tries[s] > 0
      PROVE  \E n \in DOMAIN queue : queue[n] = s /\ n <= next' /\ (n = next' => pc' \in Calling)
  <2>1. PICK n \in DOMAIN queue : queue[n] = s /\ n <= next /\ (n = next => pc \in Calling)
    BY <1>1, <1>7 DEF TriedInOrder
  <2>2. n <= next' /\ (n = next' => pc' \in Calling)
    BY <1>2, <1>5, <1>6, <2>1
  <2> QED BY <2>1, <2>2
<1>8. ASSUME UNCHANGED <<tries, calls>> PROVE TriedInOrder' /\ CalledIsTried'
  BY <1>1, <1>2, <1>7, <1>8 DEF TriedInOrder, CalledIsTried
<1>9. ASSUME pc = "attempt", CallHandler, next' = next, pc' \in Calling
      PROVE  TriedInOrder' /\ CalledIsTried'
  <2>1. next \in DOMAIN queue /\ Step = queue[next] /\ Step \in Steps
    BY <1>1, <1>2, <1>9 DEF InTheLoop, Step
  <2>2. /\ tries' = [tries EXCEPT ![Step] = @ + 1]
        /\ calls' = calls \cup {<<Step, tool>>}
    BY <1>9 DEF CallHandler
  <2>3. \A s \in Steps : s # Step => tries'[s] = tries[s]
    BY <1>3, <2>2
  <2>4. tries'[Step] > 0
    BY <1>3, <2>1, <2>2
  <2>5. \A s \in Steps : tries[s] > 0 => tries'[s] > 0
    BY <2>3, <2>4
  <2>6. TriedInOrder'
    <3> SUFFICES ASSUME NEW s \in Steps, tries'[s] > 0
                 PROVE  \E n \in DOMAIN queue :
                           queue[n] = s /\ n <= next' /\ (n = next' => pc' \in Calling)
      BY <1>2 DEF TriedInOrder
    <3>1. CASE s = Step
      BY <1>2, <1>9, <2>1, <3>1
    <3>2. CASE s # Step
      BY <1>7, <2>3, <3>2
    <3> QED BY <3>1, <3>2
  <2>7. CalledIsTried'
    <3> SUFFICES ASSUME NEW c \in calls' PROVE tries'[c[1]] > 0
      BY DEF CalledIsTried
    <3>1. CASE c \in calls
      BY <1>1, <1>3, <2>5, <3>1 DEF CalledIsTried
    <3>2. CASE c = <<Step, tool>>
      BY <2>4, <3>2
    <3> QED BY <2>2, <3>1, <3>2
  <2> QED BY <2>6, <2>7
<1>10. TriedInOrder' /\ CalledIsTried'
  BY <1>4, <1>8, <1>9
<1>11. ReadyToCall'
  <2>1. CASE pc' = "run"
    BY <2>1 DEF ReadyToCall, Next, RunStep, Terminated, vars, SortVisit, SortEnds, Return,
       SkipAborted, BeginStep, SkipWithoutCallback, AskTerminal, OperatorAnswers,
       PromptTimesOut, LateAnswer, PromptRaises, Denied, Granted, FindTool, Refuse, StartTool,
       AttemptReturns, AttemptRaises, Conclude, EventRaises, Verify
  <2>2. CASE pc' = "attempt"
    <3>1. StartTool \/ AttemptRaises \/ UNCHANGED vars
      BY <2>2 DEF Next, RunStep, Terminated, SortVisit, SortEnds, Return,
         SkipAborted, BeginStep, SkipWithoutCallback, AskTerminal, OperatorAnswers,
         PromptTimesOut, LateAnswer, PromptRaises, Denied, Granted, FindTool, Refuse,
         AttemptReturns, Conclude, EventRaises, Verify
    <3>2. CASE StartTool
      <4>1. /\ pc = "run" /\ tool \in Accepting /\ Allowed(tool)
            /\ UNCHANGED <<callVars, execVars>> /\ audit' = audit \cup {<<Step, "tool_started">>}
        BY <3>2 DEF StartTool, Record
      <4>2. Step' = Step /\ Step \in Steps /\ next \in DOMAIN queue
        BY <1>1, <1>2, <4>1 DEF Step, InTheLoop
      <4>3. tries[Step] = 0
        <5> SUFFICES ASSUME tries[Step] > 0 PROVE FALSE
          BY <1>3, <4>2
        <5>1. PICK n \in DOMAIN queue : queue[n] = Step /\ (n = next => pc \in Calling)
          BY <1>1, <4>2 DEF TriedInOrder
        <5>2. n = next
          BY <1>1, <4>2, <5>1 DEF Step, GraphInv, Distinct
        <5> QED BY <4>1, <5>1, <5>2 DEF Calling
      <4>4. tool \in Tools /\ limit \in Limits /\ 0 < limit
        BY <1>1, <4>1, LimitsPositive DEF ReadyToCall
      <4> QED BY <2>2, <4>1, <4>2, <4>3, <4>4 DEF ReadyToCall, Allowed
    <3>3. CASE AttemptRaises
      <4>1. /\ pc = "attempt" /\ tries[Step] + 1 < limit /\ CallHandler
            /\ UNCHANGED <<tool, limit, next>> /\ audit \subseteq audit'
        BY <2>2, <3>3 DEF AttemptRaises, Record
      <4>2. Step' = Step /\ Step \in Steps
        BY <1>1, <1>2, <4>1 DEF Step, InTheLoop
      <4>3. tries'[Step] = tries[Step] + 1
        BY <1>3, <4>1, <4>2 DEF CallHandler
      <4> QED BY <1>1, <2>2, <4>1, <4>2, <4>3 DEF ReadyToCall, Allowed
    <3>4. CASE UNCHANGED vars
      BY <1>1, <2>2, <3>4 DEF vars, ReadyToCall, Allowed, Step, planVars
    <3> QED BY <3>1, <3>2, <3>3, <3>4
  <2>3. CASE pc' \in {"conclude", "verify"}
    BY <1>1, <2>3 DEF ReadyToCall, Next, RunStep, Terminated, vars, SortVisit, SortEnds, Return,
       SkipAborted, BeginStep, SkipWithoutCallback, AskTerminal, OperatorAnswers,
       PromptTimesOut, LateAnswer, PromptRaises, Denied, Granted, FindTool, Refuse, StartTool,
       AttemptReturns, AttemptRaises, Conclude, EventRaises, Verify
  <2>4. CASE pc' \notin {"run", "attempt", "conclude", "verify"}
    BY <2>4 DEF ReadyToCall
  <2> QED BY <2>1, <2>2, <2>3, <2>4
<1> QED BY <1>10, <1>11

(* A step begins uncalled, and only its own approval is asked for.         *)
LEMMA GateInv ==
    ASSUME IInv, Next, UNCHANGED planVars, TypeOK', LoopStep
    PROVE  Cleared' /\ CallsPassedTheGates'
<1> USE DEF Goto, callVars, execVars
<1>1. /\ GraphInv /\ TypeOK /\ InTheLoop /\ TriedInOrder /\ CalledIsTried /\ ReadyToCall
      /\ Cleared /\ CallsPassedTheGates
  BY DEF IInv, ExecInv
<1>2. queue' = queue /\ \A n \in DOMAIN queue : queue[n] \in Steps
  BY <1>1 DEF planVars, GraphInv, GraphTypeOK
<1>3. next' = next => Step' = Step
  BY <1>2 DEF Step
<1>4. pc \notin {"sort", "step", "returned"} => Step \in Steps /\ next \in DOMAIN queue
  BY <1>1, <1>2 DEF Step, InTheLoop
<1>5. \/ UNCHANGED <<needs, answer>>
      \/ BeginStep
      \/ AskTerminal \/ OperatorAnswers \/ PromptTimesOut
  BY DEF Next, RunStep, Terminated, vars, SortVisit, SortEnds, Return, SkipAborted,
         SkipWithoutCallback, LateAnswer, PromptRaises, Denied, Granted, FindTool, Refuse,
         StartTool, AttemptReturns, AttemptRaises, Conclude, EventRaises, Verify
<1>6. callback' = callback
  BY DEF Next, RunStep, Terminated, vars, SortVisit, SortEnds, Return, SkipAborted,
         BeginStep, SkipWithoutCallback, AskTerminal, OperatorAnswers, PromptTimesOut,
         LateAnswer, PromptRaises, Denied, Granted, FindTool, Refuse, StartTool,
         AttemptReturns, AttemptRaises, Conclude, EventRaises, Verify
<1>7. Cleared'
  <2>1. CASE pc' \in {"prompt", "drain", "answered"}
    BY <1>1, <1>6, <2>1 DEF Cleared, Next, RunStep, Terminated, vars, SortVisit, SortEnds,
       Return, SkipAborted, BeginStep, SkipWithoutCallback, AskTerminal, OperatorAnswers,
       PromptTimesOut, LateAnswer, PromptRaises, Denied, Granted, FindTool, Refuse, StartTool,
       AttemptReturns, AttemptRaises, Conclude, EventRaises, Verify
  <2>2. CASE pc' = "lookup"
    <3>1. BeginStep \/ Granted
      BY <2>2 DEF Next, RunStep, Terminated, vars, SortVisit, SortEnds,
         Return, SkipAborted, SkipWithoutCallback, AskTerminal, OperatorAnswers,
         PromptTimesOut, LateAnswer, PromptRaises, Denied, FindTool, Refuse, StartTool,
         AttemptReturns, AttemptRaises, Conclude, EventRaises, Verify
    <3>2. CASE BeginStep
      <4>1. next \in DOMAIN queue
        BY <3>2, <1>1 DEF BeginStep, GraphInv, GraphTypeOK, TypeOK
      <4>2. Step \in Steps /\ next' = next /\ needs'[Step] = FALSE
        BY <1>1, <1>2, <2>2, <3>2, <4>1 DEF BeginStep, Step, TypeOK
      <4> QED BY <1>3, <2>2, <4>2 DEF Cleared
    <3>3. CASE Granted
      BY <1>1, <1>3, <2>2, <3>3 DEF Granted, Cleared
    <3> QED BY <3>1, <3>2, <3>3
  <2>3. CASE pc' \in {"run", "attempt", "conclude", "verify"}
    <3>1. /\ pc \in {"lookup", "run", "attempt", "conclude", "verify"}
          /\ UNCHANGED <<next, needs, answer>>
      BY <2>3 DEF Next, RunStep, Terminated, vars, SortVisit, SortEnds,
         Return, SkipAborted, BeginStep, SkipWithoutCallback, AskTerminal, OperatorAnswers,
         PromptTimesOut, LateAnswer, PromptRaises, Denied, Granted, FindTool, Refuse,
         StartTool, AttemptReturns, AttemptRaises, Conclude, EventRaises, Verify
    <3> QED BY <1>1, <1>3, <1>6, <2>3, <3>1 DEF Cleared
  <2>4. CASE pc' \notin {"prompt", "drain", "answered", "lookup", "run", "attempt", "conclude",
                        "verify"}
    BY <2>4 DEF Cleared
  <2> QED BY <2>1, <2>2, <2>3, <2>4
<1>8. audit \subseteq audit'
  BY DEF Record, Next, RunStep, Terminated, vars, SortVisit, SortEnds, Return, SkipAborted,
         BeginStep, SkipWithoutCallback, AskTerminal, OperatorAnswers, PromptTimesOut,
         LateAnswer, PromptRaises, Denied, Granted, FindTool, Refuse, StartTool,
         AttemptReturns, AttemptRaises, Conclude, EventRaises, Verify
<1>9. calls' = calls \/ (pc = "attempt" /\ calls' = calls \cup {<<Step, tool>>}
                        /\ UNCHANGED <<needs, answer>>)
  BY DEF CallHandler, Next, RunStep, Terminated, vars, SortVisit, SortEnds, Return,
         SkipAborted, BeginStep, SkipWithoutCallback, AskTerminal, OperatorAnswers,
         PromptTimesOut, LateAnswer, PromptRaises, Denied, Granted, FindTool, Refuse, StartTool,
         AttemptReturns, AttemptRaises, Conclude, EventRaises, Verify
<1>10. \A c \in calls : needs'[c[1]] = needs[c[1]] /\ answer'[c[1]] = answer[c[1]]
  <2>1. CASE UNCHANGED <<needs, answer>>
    BY <2>1
  <2>2. CASE BeginStep \/ AskTerminal \/ OperatorAnswers \/ PromptTimesOut
    <3>1. next \in DOMAIN queue /\ pc \notin Calling
      BY <1>1, <1>4, <2>2
      DEF Calling, BeginStep, AskTerminal, OperatorAnswers, PromptTimesOut, GraphInv,
          GraphTypeOK, TypeOK
    <3>2. ASSUME NEW c \in calls PROVE c[1] \in Steps /\ c[1] # Step
      <4>1. c[1] \in Steps /\ tries[c[1]] > 0
        BY <1>1, <3>2 DEF CalledIsTried, TypeOK
      <4>2. PICK n \in DOMAIN queue : queue[n] = c[1] /\ (n = next => pc \in Calling)
        BY <1>1, <4>1 DEF TriedInOrder
      <4>3. n # next
        BY <3>1, <4>2
      <4> QED BY <1>1, <3>1, <4>1, <4>2, <4>3 DEF Step, GraphInv, Distinct
    <3>3. \A s \in Steps : s # Step => needs'[s] = needs[s] /\ answer'[s] = answer[s]
      <4>1. CASE BeginStep
        BY <1>1, <4>1 DEF BeginStep, TypeOK
      <4>2. CASE AskTerminal \/ OperatorAnswers \/ PromptTimesOut
        BY <1>1, <4>2 DEF AskTerminal, OperatorAnswers, PromptTimesOut, TypeOK
      <4> QED BY <2>2, <4>1, <4>2
    <3> QED BY <3>2, <3>3
  <2> QED BY <1>5, <2>1, <2>2
<1>11. CallsPassedTheGates'
  <2> SUFFICES ASSUME NEW c \in calls'
               PROVE  /\ c[2] \in Accepting
                      /\ c[2] \in Writing => c[2] \in ApprovedWrite
                      /\ c[2] \in HighRisk => c[2] \in ApprovedHighRisk
                      /\ needs'[c[1]] => callback' /\ answer'[c[1]] = "granted"
                      /\ <<c[1], "tool_started">> \in audit'
    BY DEF CallsPassedTheGates
  <2>1. CASE c \in calls
    BY <1>1, <1>6, <1>8, <1>10, <2>1 DEF CallsPassedTheGates
  <2>2. CASE c \notin calls
    <3>1. pc = "attempt" /\ c = <<Step, tool>> /\ UNCHANGED <<needs, answer>>
      BY <1>9, <2>2
    <3>2. c[1] = Step /\ c[2] = tool
      BY <3>1
    <3> QED BY <1>1, <1>6, <1>8, <3>1, <3>2 DEF ReadyToCall, Allowed, Cleared
  <2> QED BY <2>1, <2>2
<1> QED BY <1>7, <1>11

(* While the plan is sorted nothing else happens.                          *)
LEMMA SortInv == IInv /\ SortVisit /\ GraphInv' => ExecInv'
<1> SUFFICES ASSUME IInv, SortVisit, GraphInv' PROVE ExecInv'
  OBVIOUS
<1>1. /\ pc = "sort" /\ pc' = pc /\ UNCHANGED <<callVars, execVars, audit>> /\ next = 1
  BY DEF SortVisit, IInv, ExecInv, SortedFirst
<1> USE DEF callVars, execVars
<1>2. TypeOK /\ GraphInv /\ StoredInOrder /\ TriedInOrder /\ CallsPassedTheGates
      /\ CalledIsTried /\ SortedFirst
  BY DEF IInv, ExecInv
<1>3. DOMAIN queue \subseteq Nat \ {0}
  BY <1>2 DEF GraphInv, GraphTypeOK
<1>4. DOMAIN queue' \subseteq Nat \ {0} /\ \A n \in DOMAIN queue' : queue'[n] \in Steps
  BY DEF GraphInv, GraphTypeOK
<1>5. \A s \in Steps : ~ HasResult(s)
  BY <1>1, <1>2, <1>3 DEF StoredInOrder, InQueue
<1>6. StoredInOrder'
  BY <1>1, <1>4, <1>5 DEF StoredInOrder, HasResult
<1>7. TriedInOrder'
  BY <1>1, <1>2, <1>3 DEF TriedInOrder, Calling
<1>8. SortedFirst' /\ InTheLoop' /\ CalledIsTried' /\ ReadyToCall' /\ Cleared'
  BY <1>1, <1>2 DEF SortedFirst, InTheLoop, CalledIsTried, ReadyToCall, Cleared
<1>9. CallsPassedTheGates'
  BY <1>1, <1>2 DEF CallsPassedTheGates
<1> QED BY <1>6, <1>7, <1>8, <1>9 DEF ExecInv

LEMMA Stutters == IInv /\ UNCHANGED vars => IInv'
<1> SUFFICES ASSUME IInv, UNCHANGED vars PROVE IInv'
  OBVIOUS
<1> USE DEF vars, callVars, execVars, planVars
<1>1. GraphInv'
  BY GraphInvStutters DEF IInv
<1>2. TypeOK'
  BY <1>1, TypeStep
<1>3. Step' = Step /\ InQueue' = InQueue
  BY DEF Step, InQueue
<1>4. /\ SortedFirst' /\ InTheLoop' /\ StoredInOrder' /\ TriedInOrder' /\ CalledIsTried'
      /\ ReadyToCall' /\ Cleared' /\ CallsPassedTheGates'
  BY <1>3 DEF IInv, ExecInv, SortedFirst, InTheLoop, StoredInOrder, TriedInOrder, CalledIsTried,
              ReadyToCall, Cleared, CallsPassedTheGates, Sorted, HasResult, Allowed
<1> QED BY <1>1, <1>2, <1>4 DEF IInv, ExecInv

LEMMA IInvStep == IInv /\ [Next]_vars => IInv'
<1> SUFFICES ASSUME IInv, [Next]_vars PROVE IInv'
  OBVIOUS
<1>1. GraphInv'
  BY GraphStep DEF IInv
<1>2. TypeOK'
  BY <1>1, TypeStep
<1>3. CASE SortVisit
  BY <1>1, <1>2, <1>3, SortInv DEF IInv
<1>4. CASE UNCHANGED vars
  BY <1>4, Stutters
<1>5. CASE Next /\ UNCHANGED planVars /\ ~ UNCHANGED vars
  <2>1. LoopStep
    BY <1>5, EveryStepIsLoopStep
  <2> QED BY <1>1, <1>2, <1>5, <2>1, LoopInv, CallInv, GateInv DEF IInv, ExecInv
<1>6. SortVisit \/ UNCHANGED planVars
  BY DEF Next, RunStep, vars, Terminated, SortEnds, Return, SkipAborted, BeginStep,
         SkipWithoutCallback, AskTerminal, OperatorAnswers, PromptTimesOut, LateAnswer,
         PromptRaises, Denied, Granted, FindTool, Refuse, StartTool, AttemptReturns,
         AttemptRaises, Conclude, EventRaises, Verify
<1> QED BY <1>3, <1>4, <1>5, <1>6

LEMMA Inductive == Spec => []IInv
BY InitInv, IInvStep, PTL DEF Spec

-----------------------------------------------------------------------------
(* What is on record of the steps: answers, events and results.  This      *)
(* invariant rests on IInv and is shown to be inductive beside it.         *)
Concluded == {"completed", "failed", "invalid", "blocked"}

(* Only the steps up to the current one were asked about.                  *)
AnsweredInOrder ==
    \A s \in Steps : answer[s] # "none" =>
        \E n \in DOMAIN queue :
            /\ queue[n] = s /\ n <= next
            /\ n = next => pc \notin {"sort", "step", "approval", "prompt"}

(* Only their calls have concluded, the current one's with its outcome.    *)
ConcludedInOrder ==
    \A s \in Steps, state \in Concluded : <<s, state>> \in audit =>
        \E n \in DOMAIN queue :
            /\ queue[n] = s /\ n <= next
            /\ n = next => pc \in {"verify", "raised"} /\ (pc = "verify" => state = outcome)

(* The outcome of a call is the outcome of the attempts it has made.       *)
OutcomeIsEarned ==
    /\ pc \in {"conclude", "verify"} =>
          /\ outcome \in {"invalid", "blocked"} => tries[Step] = 0
          /\ outcome = "failed" => tries[Step] = limit
          /\ outcome \in {"failed", "completed"} => tries[Step] > 0
    /\ pc = "verify" => <<Step, outcome>> \in audit

(* Nothing begins after an abort, and nothing is skipped before one.       *)
AbortInOrder ==
    /\ pc \notin {"step", "returned", "raised"} => aborted = NoStep
    /\ aborted # NoStep => HasResult(aborted)
    /\ aborted = NoStep => \A s \in Steps : result[s].error # "aborted_by_step"

TraceInv ==
    /\ AnsweredInOrder /\ ConcludedInOrder /\ OutcomeIsEarned /\ AbortInOrder
    /\ AbortIsFinal /\ AttemptsAreHonest

LEMMA InitTrace == Init => TraceInv
<1> SUFFICES ASSUME Init PROVE TraceInv
  OBVIOUS
<1>1. \A s \in Steps : ~ HasResult(s) /\ result[s] = NoResult
  BY DEF Init, HasResult
<1>2. \A n \in DOMAIN queue : queue[n] \in Steps
  BY InitInv DEF IInv, GraphInv, GraphTypeOK
<1>3. AnsweredInOrder /\ ConcludedInOrder /\ OutcomeIsEarned
  BY DEF Init, AnsweredInOrder, ConcludedInOrder, OutcomeIsEarned
<1>4. AbortInOrder
  BY <1>1 DEF Init, AbortInOrder, NoResult
<1>5. AbortIsFinal
  BY <1>1, <1>2 DEF AbortIsFinal, NoResult
<1>6. AttemptsAreHonest
  BY <1>1 DEF AttemptsAreHonest
<1> QED BY <1>3, <1>4, <1>5, <1>6 DEF TraceInv

(* What the current step has not been through yet.                         *)
LEMMA CurrentIsFresh ==
    ASSUME IInv, TraceInv, next \in DOMAIN queue
    PROVE  /\ Step \in Steps /\ ~ HasResult(Step)
           /\ \A n \in DOMAIN queue : queue[n] = Step <=> n = next
           /\ pc \notin Calling => tries[Step] = 0
           /\ pc \in {"step", "approval", "prompt"} => answer[Step] = "none"
           /\ \A state \in Concluded : <<Step, state>> \in audit =>
                 pc \in {"verify", "raised"} /\ (pc = "verify" => state = outcome)
<1>1. GraphInv /\ TypeOK /\ StoredInOrder /\ TriedInOrder /\ AnsweredInOrder /\ ConcludedInOrder
  BY DEF IInv, ExecInv, TraceInv
<1>2. Step \in Steps /\ Step = queue[next] /\ next \in Nat
  BY <1>1, CurrentStep DEF Step, TypeOK, GraphInv, GraphTypeOK
<1>3. \A n \in DOMAIN queue : queue[n] = Step <=> n = next
  BY <1>1, <1>2 DEF GraphInv, Distinct
<1>4. ~ HasResult(Step)
  BY <1>1, <1>2 DEF StoredInOrder
<1>5. tries[Step] \in Nat
  <2>1. Limits \cup {0} \subseteq Nat
    BY LimitsPositive
  <2> QED BY <1>1, <1>2, <2>1 DEF TypeOK
<1>6. pc \notin Calling => tries[Step] = 0
  BY <1>1, <1>2, <1>3, <1>5 DEF TriedInOrder
<1>7. pc \in {"step", "approval", "prompt"} => answer[Step] = "none"
  BY <1>1, <1>2, <1>3 DEF AnsweredInOrder
<1>8. \A state \in Concluded : <<Step, state>> \in audit =>
         pc \in {"verify", "raised"} /\ (pc = "verify" => state = outcome)
  BY <1>1, <1>2, <1>3 DEF ConcludedInOrder
<1> QED BY <1>2, <1>3, <1>4, <1>6, <1>7, <1>8

(* An answer is given once, by the step that is asked about.               *)
LEMMA AnswerStep ==
    ASSUME IInv, Next
    PROVE  \/ answer' = answer
           \/ /\ pc \in {"approval", "prompt"} /\ pc' \in {"answered", "drain"} /\ next' = next
              /\ next \in DOMAIN queue
              /\ \E a \in {"granted", "denied"} : answer' = [answer EXCEPT ![Step] = a]
<1>1. InTheLoop
  BY DEF IInv, ExecInv
<1> QED BY <1>1 DEF InTheLoop, Goto, callVars, execVars, Next, RunStep, Terminated, vars, SortVisit, SortEnds, Return, SkipAborted,
         BeginStep, SkipWithoutCallback, AskTerminal, OperatorAnswers, PromptTimesOut,
         LateAnswer, PromptRaises, Denied, Granted, FindTool, Refuse, StartTool,
         AttemptReturns, AttemptRaises, Conclude, EventRaises, Verify

LEMMA AnswersInv ==
    ASSUME IInv, TraceInv, Next, UNCHANGED planVars, LoopStep
    PROVE  AnsweredInOrder'
<1>1. GraphInv /\ TypeOK /\ AnsweredInOrder
  BY DEF IInv, TraceInv
<1>2. queue' = queue /\ DOMAIN queue \subseteq Nat /\ next \in Nat
  BY <1>1 DEF planVars, GraphInv, GraphTypeOK, TypeOK
<1>3. pc \notin {"sort", "step", "approval", "prompt"} =>
         pc' \notin {"sort", "step", "approval", "prompt"} \/ (pc' = "step" /\ next' = next + 1)
  BY DEF Goto, callVars, execVars, Store, Next, RunStep, Terminated, vars, SortVisit, SortEnds, Return, SkipAborted,
         BeginStep, SkipWithoutCallback, AskTerminal, OperatorAnswers, PromptTimesOut,
         LateAnswer, PromptRaises, Denied, Granted, FindTool, Refuse, StartTool,
         AttemptReturns, AttemptRaises, Conclude, EventRaises, Verify
<1>4. next' = next \/ next' = next + 1
  BY DEF LoopStep
<1> SUFFICES ASSUME NEW s \in Steps, answer'[s] # "none"
             PROVE  \E n \in DOMAIN queue :
                       /\ queue[n] = s /\ n <= next'
                       /\ n = next' => pc' \notin {"sort", "step", "approval", "prompt"}
  BY <1>2 DEF AnsweredInOrder
<1>5. CASE answer[s] # "none"
  <2>1. PICK n \in DOMAIN queue :
           /\ queue[n] = s /\ n <= next
           /\ n = next => pc \notin {"sort", "step", "approval", "prompt"}
    BY <1>1, <1>5 DEF AnsweredInOrder
  <2>2. n <= next' /\ (n = next' => pc' \notin {"sort", "step", "approval", "prompt"})
    BY <1>2, <1>3, <1>4, <2>1
  <2> QED BY <2>1, <2>2
<1>6. CASE answer[s] = "none"
  <2>1. /\ pc' \in {"answered", "drain"} /\ next' = next /\ next \in DOMAIN queue
        /\ \E a \in {"granted", "denied"} : answer' = [answer EXCEPT ![Step] = a]
    BY <1>6, AnswerStep
  <2>2. s = Step
    BY <1>1, <1>6, <2>1 DEF TypeOK
  <2> QED BY <1>2, <2>1, <2>2 DEF Step
<1> QED BY <1>5, <1>6

(* A call's conclusion is written when it concludes, if at all.            *)
LEMMA AuditStep ==
    ASSUME IInv, Next
    PROVE  /\ audit \subseteq audit'
           /\ \/ \A s \in Steps, state \in Concluded : <<s, state>> \in audit' => <<s, state>> \in audit
              \/ /\ pc = "conclude" /\ pc' \in {"verify", "raised"} /\ next \in DOMAIN queue
                 /\ UNCHANGED <<next, outcome, tries>>
                 /\ audit' \subseteq audit \cup {<<Step, outcome>>}
<1>1. InTheLoop
  BY DEF IInv, ExecInv
<1>2. CASE EventRaises
  <2>1. audit' \in {audit, audit \cup {<<Step, NextEvent>>}} /\ pc' = "raised"
        /\ next' = next /\ pc \in {"run", "attempt", "conclude"}
    BY <1>2 DEF EventRaises, execVars
  <2>2. CASE pc = "run"
    <3>1. NextEvent = "tool_started"
      BY <2>2 DEF NextEvent
    <3> QED BY <2>1, <3>1 DEF Concluded
  <2>3. CASE pc = "attempt"
    <3>1. NextEvent = "tool_attempt_failed"
      BY <2>3 DEF NextEvent
    <3> QED BY <2>1, <3>1 DEF Concluded
  <2>4. CASE pc = "conclude"
    <3>1. NextEvent = outcome
      BY <2>4 DEF NextEvent
    <3>2. UNCHANGED <<outcome, tries>>
      BY <1>2, <2>4 DEF EventRaises, callVars
    <3> QED BY <1>1, <2>1, <2>4, <3>1, <3>2 DEF InTheLoop
  <2> QED BY <2>1, <2>2, <2>3, <2>4
<1>3. CASE Conclude
  BY <1>1, <1>3 DEF Conclude, Record, Goto, callVars, execVars, InTheLoop
<1>4. CASE StartTool \/ AttemptRaises
  BY <1>4 DEF StartTool, AttemptRaises, Record, Concluded
<1>5. CASE audit' = audit
  BY <1>5
<1>6. EventRaises \/ Conclude \/ StartTool \/ AttemptRaises \/ audit' = audit
  BY DEF Next, RunStep, Terminated, vars, SortVisit, SortEnds, Return, SkipAborted,
         BeginStep, SkipWithoutCallback, AskTerminal, OperatorAnswers, PromptTimesOut,
         LateAnswer, PromptRaises, Denied, Granted, FindTool, Refuse, AttemptReturns, Verify
<1> QED BY <1>2, <1>3, <1>4, <1>5, <1>6

LEMMA ConcludedInv ==
    ASSUME IInv, TraceInv, Next, UNCHANGED planVars, LoopStep
    PROVE  ConcludedInOrder'
<1>1. GraphInv /\ TypeOK /\ ConcludedInOrder
  BY DEF IInv, TraceInv
<1>2. queue' = queue /\ DOMAIN queue \subseteq Nat /\ next \in Nat
  BY <1>1 DEF planVars, GraphInv, GraphTypeOK, TypeOK
<1>3. /\ pc = "verify" => (pc' = "step" /\ next' = next + 1)
      /\ pc = "raised" => pc' = "raised" /\ next' = next
  BY DEF Goto, callVars, execVars, Store, Next, RunStep, Terminated, vars, SortVisit, SortEnds, Return, SkipAborted,
         BeginStep, SkipWithoutCallback, AskTerminal, OperatorAnswers, PromptTimesOut,
         LateAnswer, PromptRaises, Denied, Granted, FindTool, Refuse, StartTool,
         AttemptReturns, AttemptRaises, Conclude, EventRaises, Verify
<1>4. next' = next \/ next' = next + 1
  BY DEF LoopStep
<1> SUFFICES ASSUME NEW s \in Steps, NEW state \in Concluded, <<s, state>> \in audit'
             PROVE  \E n \in DOMAIN queue :
                       /\ queue[n] = s /\ n <= next'
                       /\ n = next' => pc' \in {"verify", "raised"} /\ (pc' = "verify" => state = outcome')
  BY <1>2 DEF ConcludedInOrder
<1>5. CASE <<s, state>> \in audit
  <2>1. PICK n \in DOMAIN queue :
           /\ queue[n] = s /\ n <= next
           /\ n = next => pc \in {"verify", "raised"} /\ (pc = "verify" => state = outcome)
    BY <1>1, <1>5 DEF ConcludedInOrder
  <2>2. n <= next' /\ (n = next' => pc' = "raised")
    BY <1>2, <1>3, <1>4, <2>1
  <2> QED BY <2>1, <2>2
<1>6. CASE <<s, state>> \notin audit
  <2>1. /\ pc' \in {"verify", "raised"} /\ next \in DOMAIN queue
        /\ next' = next /\ outcome' = outcome /\ <<s, state>> = <<Step, outcome>>
    BY <1>6, AuditStep
  <2>2. s = queue[next] /\ state = outcome
    BY <2>1 DEF Step
  <2> QED BY <1>2, <2>1, <2>2
<1> QED BY <1>5, <1>6

LEMMA OutcomeInv ==
    ASSUME IInv, TraceInv, Next, UNCHANGED planVars
    PROVE  OutcomeIsEarned'
<1> USE DEF Goto, callVars, execVars
<1>1. GraphInv /\ TypeOK /\ InTheLoop /\ ReadyToCall /\ OutcomeIsEarned
  BY DEF IInv, ExecInv, TraceInv
<1>2. next' = next => Step' = Step
  BY DEF Step, planVars
<1>3. pc \notin {"sort", "step", "returned"} => next \in DOMAIN queue /\ Step \in Steps
  BY <1>1, CurrentStep DEF InTheLoop
<1>4. tries \in [Steps -> Nat]
  <2>1. Limits \cup {0} \subseteq Nat
    BY LimitsPositive
  <2> QED BY <1>1, <2>1 DEF TypeOK
<1>5. CASE Refuse
  <2>1. tries[Step] = 0
    BY <1>3, <1>5, CurrentIsFresh DEF Refuse, Calling
  <2> QED BY <1>2, <1>5, <2>1 DEF Refuse, OutcomeIsEarned
<1>6. CASE AttemptReturns
  <2>1. tries'[Step] > 0
    BY <1>3, <1>4, <1>6 DEF AttemptReturns, CallHandler
  <2> QED BY <1>2, <1>6, <2>1 DEF AttemptReturns, OutcomeIsEarned
<1>7. CASE AttemptRaises
  <2>1. CASE pc' = "attempt"
    BY <2>1 DEF OutcomeIsEarned
  <2>2. CASE pc' = "conclude"
    <3>1. /\ pc = "attempt" /\ ~ (tries[Step] + 1 < limit) /\ outcome' = "failed"
          /\ limit' = limit /\ next' = next /\ tries' = [tries EXCEPT ![Step] = @ + 1]
      BY <1>7, <2>2 DEF AttemptRaises, CallHandler
    <3>2. limit \in Nat /\ tries[Step] \in Nat /\ tries[Step] < limit
      BY <1>1, <1>3, <1>4, <3>1, LimitsPositive DEF ReadyToCall
    <3>3. tries'[Step] = limit /\ tries'[Step] > 0
      BY <1>3, <1>4, <3>1, <3>2
    <3> QED BY <1>2, <2>2, <3>1, <3>3 DEF OutcomeIsEarned
  <2> QED BY <1>7, <2>1, <2>2 DEF AttemptRaises
<1>8. CASE Conclude
  BY <1>1, <1>2, <1>8 DEF Conclude, Record, OutcomeIsEarned
<1>9. CASE UNCHANGED vars
  BY <1>1, <1>2, <1>9 DEF vars, OutcomeIsEarned
<1>10. CASE pc' \notin {"conclude", "verify"}
  BY <1>10 DEF OutcomeIsEarned
<1>11. Refuse \/ AttemptReturns \/ AttemptRaises \/ Conclude \/ UNCHANGED vars
       \/ pc' \notin {"conclude", "verify"}
  BY DEF Next, RunStep, Terminated, SortVisit, SortEnds, Return, SkipAborted,
         BeginStep, SkipWithoutCallback, AskTerminal, OperatorAnswers, PromptTimesOut,
         LateAnswer, PromptRaises, Denied, Granted, FindTool, StartTool, EventRaises, Verify
<1> QED BY <1>5, <1>6, <1>7, <1>8, <1>9, <1>10, <1>11

SkipErrors == {"aborted_by_step", "approval_required_no_callback", "approval_denied",
               "no_tool_for_capability"}

(* The three things a step can do to the results.                          *)
LEMMA ResultStep ==
    ASSUME IInv, TraceInv, Next
    PROVE  \/ UNCHANGED <<result, aborted>>
           \/ /\ \E e \in SkipErrors :
                    Store(Skipped(e)) /\ (e = "aborted_by_step" <=> aborted # NoStep)
              /\ next \in DOMAIN queue /\ pc' = "step" /\ pc \notin Calling
              /\ UNCHANGED <<aborted, tries, audit>>
           \/ Verify
<1> USE DEF Goto, callVars, execVars
<1>1. /\ GraphInv /\ TypeOK /\ InTheLoop /\ AbortInOrder
      /\ DOMAIN queue = 1..Len(queue) /\ Len(queue) \in Nat /\ next \in 1..(Len(queue) + 1)
  BY DEF IInv, ExecInv, TraceInv, GraphInv, GraphTypeOK, TypeOK
<1>2. ASSUME NEW e \in SkipErrors, Store(Skipped(e)), e = "aborted_by_step" <=> aborted # NoStep,
             next \in DOMAIN queue, pc' = "step", pc \notin Calling,
             UNCHANGED <<aborted, tries, audit>>
      PROVE  /\ \E f \in SkipErrors :
                    Store(Skipped(f)) /\ (f = "aborted_by_step" <=> aborted # NoStep)
             /\ next \in DOMAIN queue /\ pc' = "step" /\ pc \notin Calling
             /\ UNCHANGED <<aborted, tries, audit>>
  BY <1>2
<1>3. CASE SkipAborted
  <2>1. next \in DOMAIN queue
    BY <1>1, <1>3 DEF SkipAborted
  <2> QED BY <1>2, <1>3, <2>1 DEF SkipAborted, SkipErrors, Calling
<1>4. CASE SkipWithoutCallback
  BY <1>1, <1>2, <1>4 DEF SkipWithoutCallback, SkipErrors, Calling, InTheLoop, AbortInOrder
<1>5. CASE Denied
  BY <1>1, <1>2, <1>5 DEF Denied, SkipErrors, Calling, InTheLoop, AbortInOrder
<1>6. CASE FindTool
  <2>1. pc = "lookup" /\ next \in DOMAIN queue /\ aborted = NoStep
    BY <1>1, <1>6 DEF FindTool, InTheLoop, AbortInOrder
  <2>2. CASE pc' = "run"
    BY <1>6, <2>2 DEF FindTool
  <2>3. CASE pc' = "step"
    BY <1>2, <1>6, <2>1, <2>3 DEF FindTool, SkipErrors, Calling
  <2> QED BY <1>6, <2>2, <2>3 DEF FindTool
<1>7. CASE UNCHANGED <<result, aborted>>
  BY <1>7
<1>8. \/ SkipAborted \/ SkipWithoutCallback \/ Denied \/ FindTool \/ Verify
      \/ UNCHANGED <<result, aborted>>
  BY DEF Next, RunStep, Terminated, vars, SortVisit, SortEnds, Return, BeginStep,
         AskTerminal, OperatorAnswers, PromptTimesOut, LateAnswer, PromptRaises, Granted,
         Refuse, StartTool, AttemptReturns, AttemptRaises, Conclude, EventRaises
<1> QED BY <1>3, <1>4, <1>5, <1>6, <1>7, <1>8

(* What the verification of a call stores agrees with the call.            *)
LEMMA VerifyStores ==
    ASSUME IInv, TraceInv, Verify
    PROVE  /\ next \in DOMAIN queue /\ pc = "verify" /\ aborted = NoStep
           /\ outcome \in Concluded /\ UNCHANGED <<tries, audit>>
           /\ \E r \in Results :
                 /\ Store(r) /\ r.state = outcome /\ r.attempts = tries[Step]
                 /\ r.error # "aborted_by_step"
                 /\ outcome \in {"invalid", "blocked"} => aborted' = Step
           /\ aborted' \in {NoStep, Step}
<1>1. TypeOK /\ InTheLoop /\ ReadyToCall /\ OutcomeIsEarned /\ AbortInOrder /\ GraphInv
  BY DEF IInv, ExecInv, TraceInv
<1>2. pc = "verify" /\ next \in DOMAIN queue /\ aborted = NoStep /\ outcome # "none"
      /\ UNCHANGED <<tries, audit>>
  BY <1>1 DEF Verify, Goto, callVars, InTheLoop, ReadyToCall, AbortInOrder
<1>3. outcome \in Concluded
  BY <1>1, <1>2 DEF TypeOK, Concluded
<1>4. PICK action \in Suggestions :
          Store(CallResult(action)) /\ aborted' = IF action = "abort" THEN Step ELSE aborted
  BY DEF Verify
<1>5. CallResult(action) \in Results
  BY <1>1, <1>2, <1>4, CurrentStep, ResultTypes
<1>6. /\ CallResult(action).state = outcome /\ CallResult(action).error # "aborted_by_step"
      /\ CallResult(action).attempts = AttemptsMade
  BY DEF CallResult
<1>7. AttemptsMade = tries[Step]
  <2>1. CASE outcome \in {"invalid", "blocked"}
    BY <1>1, <1>2, <2>1 DEF AttemptsMade, OutcomeIsEarned
  <2>2. CASE outcome = "failed"
    BY <1>1, <1>2, <2>2 DEF AttemptsMade, OutcomeIsEarned
  <2>3. CASE outcome = "completed"
    BY <2>3 DEF AttemptsMade
  <2> QED BY <1>3, <2>1, <2>2, <2>3 DEF Concluded
<1>8. outcome \in {"invalid", "blocked"} => aborted' = Step
  <2>1. outcome \in {"invalid", "blocked"} => Suggestions = {"abort"}
    BY DEF Suggestions
  <2> QED BY <1>4, <2>1
<1> QED BY <1>2, <1>3, <1>4, <1>5, <1>6, <1>7, <1>8

LEMMA AbortInv ==
    ASSUME IInv, TraceInv, Next, UNCHANGED planVars, LoopStep
    PROVE  AbortInOrder' /\ AbortIsFinal'
<1>1. GraphInv /\ TypeOK /\ InTheLoop /\ StoredInOrder /\ AbortInOrder /\ AbortIsFinal /\ SortedFirst
  BY DEF IInv, ExecInv, TraceInv
<1>2. /\ queue' = queue /\ DOMAIN queue \subseteq Nat /\ next \in Nat
      /\ \A n \in DOMAIN queue : queue[n] \in Steps
      /\ NoStep \notin Steps /\ result \in [Steps -> Results]
  BY <1>1, ToolsAssumption DEF planVars, GraphInv, GraphTypeOK, TypeOK
<1>3. pc' \notin {"step", "returned", "raised"} => aborted' = NoStep
  BY <1>1 DEF AbortInOrder, Goto, callVars, execVars, Next, RunStep, Terminated, vars, SortVisit, SortEnds, Return, SkipAborted,
         BeginStep, SkipWithoutCallback, AskTerminal, OperatorAnswers, PromptTimesOut,
         LateAnswer, PromptRaises, Denied, Granted, FindTool, Refuse, StartTool,
         AttemptReturns, AttemptRaises, Conclude, EventRaises, Verify
<1>4. CASE UNCHANGED <<result, aborted>>
  <2>1. \A s : HasResult(s)' = HasResult(s)
    BY <1>4 DEF HasResult
  <2> QED BY <1>1, <1>2, <1>3, <1>4, <2>1 DEF AbortInOrder, AbortIsFinal, HasResult
<1>5. ASSUME NEW r \in Results, Store(r), next \in DOMAIN queue
      PROVE  /\ \A s \in Steps : s # Step => result'[s] = result[s]
             /\ result'[Step] = r /\ Step \in Steps /\ Step = queue[next]
             /\ ~ HasResult(Step) /\ \A n \in DOMAIN queue : queue[n] = Step <=> n = next
  BY <1>2, <1>5, CurrentIsFresh DEF Store, Step
<1>6. ASSUME NEW e \in SkipErrors, Store(Skipped(e)), e = "aborted_by_step" <=> aborted # NoStep,
             next \in DOMAIN queue, pc' = "step", aborted' = aborted
      PROVE  AbortInOrder' /\ AbortIsFinal'
  <2>1. Skipped(e) \in Results /\ Skipped(e).error = e /\ Skipped(e).state = "none"
        /\ Skipped(e) # NoResult
    BY DEF Skipped, Results, SkipErrors, NoResult
  <2>2. /\ \A s \in Steps : s # Step => result'[s] = result[s]
        /\ result'[Step] = Skipped(e) /\ Step \in Steps /\ Step = queue[next]
        /\ ~ HasResult(Step) /\ \A n \in DOMAIN queue : queue[n] = Step <=> n = next
    BY <1>5, <1>6, <2>1
  <2>3. AbortInOrder'
    BY <1>1, <1>2, <1>6, <2>1, <2>2 DEF AbortInOrder, HasResult, TypeOK
  <2>4. \A s \in Steps : result'[s].state \in {"invalid", "blocked"} => aborted' = s
    BY <1>1, <1>6, <2>1, <2>2 DEF AbortIsFinal
  <2>5. ASSUME NEW m \in DOMAIN queue, NEW n \in DOMAIN queue, aborted = queue[m],
               HasResult(queue[n])'
        PROVE  m < n <=> result'[queue[n]].error = "aborted_by_step"
    <3>1. HasResult(queue[m]) /\ m < next /\ aborted # NoStep /\ e = "aborted_by_step"
      BY <1>1, <1>2, <1>6, <2>5 DEF AbortInOrder, StoredInOrder
    <3>2. CASE n = next
      BY <2>1, <2>2, <3>1, <3>2
    <3>3. CASE n # next
      <4>1. queue[n] # Step /\ queue[n] \in Steps
        BY <1>2, <2>2, <3>3
      <4>2. result'[queue[n]] = result[queue[n]] /\ HasResult(queue[n])
        BY <1>2, <2>2, <2>5, <4>1 DEF HasResult
      <4> QED BY <1>1, <2>5, <4>2 DEF AbortIsFinal
    <3> QED BY <3>2, <3>3
  <2> QED BY <1>2, <1>6, <2>3, <2>4, <2>5 DEF AbortIsFinal
<1>7. CASE Verify
  <2>1. /\ next \in DOMAIN queue /\ aborted = NoStep /\ pc' = "step"
        /\ outcome \in Concluded /\ aborted' \in {NoStep, Step}
    BY <1>7, VerifyStores DEF Verify, Goto
  <2>2. PICK r \in Results :
           /\ Store(r) /\ r.state = outcome
           /\ r.error # "aborted_by_step"
           /\ outcome \in {"invalid", "blocked"} => aborted' = Step
    BY <1>7, VerifyStores
  <2>3. /\ \A s \in Steps : s # Step => result'[s] = result[s]
        /\ result'[Step] = r /\ Step \in Steps /\ Step = queue[next]
        /\ ~ HasResult(Step) /\ \A n \in DOMAIN queue : queue[n] = Step <=> n = next
    BY <1>5, <2>1, <2>2
  <2>4. r # NoResult
    BY <2>1, <2>2 DEF NoResult, Concluded
  <2>5. \A s \in Steps : result'[s].error # "aborted_by_step"
    BY <1>1, <2>1, <2>2, <2>3 DEF AbortInOrder
  <2>6. AbortInOrder'
    BY <1>2, <2>1, <2>3, <2>4, <2>5 DEF AbortInOrder, HasResult
  <2>7. \A s \in Steps : result'[s].state \in {"invalid", "blocked"} => aborted' = s
    <3>1. \A s \in Steps : result[s].state \notin {"invalid", "blocked"}
      BY <1>1, <1>2, <2>1 DEF AbortIsFinal
    <3> QED BY <2>2, <2>3, <3>1
  <2>8. ASSUME NEW m \in DOMAIN queue, NEW n \in DOMAIN queue, aborted' = queue[m],
               HasResult(queue[n])'
        PROVE  ~ (m < n)
    <3>1. m = next
      BY <1>2, <2>1, <2>3, <2>8
    <3>2. n = next \/ HasResult(queue[n])
      <4>1. CASE queue[n] = Step
        BY <2>3, <4>1
      <4>2. CASE queue[n] # Step
        BY <1>2, <2>3, <2>8, <4>2 DEF HasResult
      <4> QED BY <4>1, <4>2
    <3> QED BY <1>1, <1>2, <3>1, <3>2 DEF StoredInOrder
  <2> QED BY <1>2, <2>5, <2>6, <2>7, <2>8 DEF AbortIsFinal
<1> QED BY <1>4, <1>6, <1>7, ResultStep

LEMMA HonestInv ==
    ASSUME IInv, TraceInv, Next, UNCHANGED planVars, LoopStep
    PROVE  AttemptsAreHonest'
<1>1. GraphInv /\ TypeOK /\ InTheLoop /\ StoredInOrder /\ OutcomeIsEarned /\ AttemptsAreHonest
  BY DEF IInv, ExecInv, TraceInv
<1>2. result \in [Steps -> Results]
  BY <1>1 DEF TypeOK
<1>3. next \in DOMAIN queue => Step \in Steps /\ ~ HasResult(Step)
  BY CurrentIsFresh
<1>4. \/ tries' = tries
      \/ pc = "attempt" /\ tries' = [tries EXCEPT ![Step] = @ + 1]
  BY DEF CallHandler, Goto, callVars, execVars, Next, RunStep, Terminated, vars, SortVisit, SortEnds, Return, SkipAborted,
         BeginStep, SkipWithoutCallback, AskTerminal, OperatorAnswers, PromptTimesOut,
         LateAnswer, PromptRaises, Denied, Granted, FindTool, Refuse, StartTool,
         AttemptReturns, AttemptRaises, Conclude, EventRaises, Verify
<1>5. ASSUME NEW s \in Steps, HasResult(s)
      PROVE  /\ tries'[s] = tries[s]
             /\ \A state \in Concluded : <<s, state>> \in audit' <=> <<s, state>> \in audit
  <2>1. next \in DOMAIN queue => s # Step
    BY <1>3, <1>5
  <2>2. tries'[s] = tries[s]
    <3>1. CASE tries' = tries
      BY <3>1
    <3>2. CASE pc = "attempt" /\ tries' = [tries EXCEPT ![Step] = @ + 1]
      BY <1>1, <2>1, <3>2 DEF InTheLoop, TypeOK
    <3> QED BY <1>4, <3>1, <3>2
  <2>3. \A state \in Concluded : <<s, state>> \in audit' <=> <<s, state>> \in audit
    <3>1. CASE \A t \in Steps, state \in Concluded : <<t, state>> \in audit' => <<t, state>> \in audit
      BY <3>1, AuditStep
    <3>2. CASE next \in DOMAIN queue /\ audit' \subseteq audit \cup {<<Step, outcome>>}
      BY <2>1, <3>2, AuditStep
    <3> QED BY <3>1, <3>2, AuditStep
  <2> QED BY <2>2, <2>3
<1>6. ASSUME NEW s \in Steps, HasResult(s), result'[s] = result[s]
      PROVE  /\ result'[s].attempts = tries'[s]
             /\ tries'[s] > 0 <=> result'[s].state \in {"completed", "failed"}
             /\ result'[s].state # "none" => <<s, result'[s].state>> \in audit'
             /\ \A state \in {"completed", "failed", "invalid", "blocked"} :
                   <<s, state>> \in audit' => state = result'[s].state
  <2>1. result[s].state # "none" => result[s].state \in Concluded
    BY <1>2 DEF Results, Concluded
  <2> QED BY <1>1, <1>5, <1>6, <2>1 DEF AttemptsAreHonest, Concluded
<1>7. CASE result' = result
  BY <1>6, <1>7 DEF AttemptsAreHonest, HasResult
<1>8. ASSUME NEW r \in Results, Store(r), next \in DOMAIN queue,
             r.attempts = tries'[Step],
             tries'[Step] > 0 <=> r.state \in {"completed", "failed"},
             r.state # "none" => <<Step, r.state>> \in audit',
             \A state \in Concluded : <<Step, state>> \in audit' => state = r.state
      PROVE  AttemptsAreHonest'
  <2>1. result' = [result EXCEPT ![Step] = r]
    BY <1>8 DEF Store
  <2>2. result'[Step] = r /\ \A s \in Steps : s # Step => result'[s] = result[s]
    BY <1>2, <1>3, <1>8, <2>1
  <2> SUFFICES ASSUME NEW s \in Steps, HasResult(s)'
               PROVE  /\ result'[s].attempts = tries'[s]
                      /\ tries'[s] > 0 <=> result'[s].state \in {"completed", "failed"}
                      /\ result'[s].state # "none" => <<s, result'[s].state>> \in audit'
                      /\ \A state \in {"completed", "failed", "invalid", "blocked"} :
                            <<s, state>> \in audit' => state = result'[s].state
    BY DEF AttemptsAreHonest
  <2>3. CASE s = Step
    BY <1>8, <2>2, <2>3 DEF Concluded
  <2>4. CASE s # Step
    BY <1>6, <2>2, <2>4 DEF HasResult
  <2> QED BY <2>3, <2>4
<1>9. ASSUME NEW e \in SkipErrors, Store(Skipped(e)), next \in DOMAIN queue, pc \notin Calling,
             UNCHANGED <<tries, audit>>
      PROVE  AttemptsAreHonest'
  <2>1. Skipped(e) \in Results /\ Skipped(e).state = "none" /\ Skipped(e).attempts = 0
    BY DEF Skipped, Results, SkipErrors
  <2>2. tries[Step] = 0 /\ \A state \in Concluded : <<Step, state>> \notin audit
    BY <1>9, CurrentIsFresh DEF Calling
  <2>3. tries'[Step] = 0 /\ ~ (tries'[Step] > 0)
    BY <1>9, <2>2
  <2>4. \A state \in Concluded : <<Step, state>> \notin audit'
    BY <1>9, <2>2
  <2> DEFINE r == Skipped(e)
  <2>5. r \in Results /\ Store(r) /\ r.attempts = tries'[Step] /\ r.state = "none"
    BY <1>9, <2>1, <2>3
  <2> HIDE DEF r
  <2> QED BY <1>8, <1>9, <2>3, <2>4, <2>5
<1>10. CASE Verify
  <2>1. /\ next \in DOMAIN queue /\ pc = "verify" /\ outcome \in Concluded
        /\ UNCHANGED <<tries, audit>>
    BY <1>10, VerifyStores
  <2>2. PICK r \in Results : Store(r) /\ r.state = outcome /\ r.attempts = tries[Step]
    BY <1>10, VerifyStores
  <2>3. \A state \in Concluded : <<Step, state>> \in audit => state = outcome
    BY <2>1, CurrentIsFresh
  <2>4. tries[Step] > 0 <=> outcome \in {"completed", "failed"}
    BY <1>1, <2>1 DEF OutcomeIsEarned, Concluded
  <2>5. <<Step, outcome>> \in audit
    BY <1>1, <2>1 DEF OutcomeIsEarned
  <2> QED BY <1>8, <2>1, <2>2, <2>3, <2>4, <2>5
<1> QED BY <1>7, <1>9, <1>10, ResultStep

(* While the plan is sorted nothing is on record.                          *)
LEMMA SortTrace == IInv /\ TraceInv /\ SortVisit => TraceInv'
<1> SUFFICES ASSUME IInv, TraceInv, SortVisit PROVE TraceInv'
  OBVIOUS
<1>1. /\ pc = "sort" /\ pc' = pc /\ UNCHANGED <<callVars, execVars, audit>> /\ next = 1
      /\ aborted = NoStep
  BY DEF SortVisit, IInv, ExecInv, SortedFirst
<1> USE DEF callVars, execVars
<1>2. TypeOK /\ GraphInv /\ StoredInOrder /\ AnsweredInOrder /\ ConcludedInOrder
  BY DEF IInv, ExecInv, TraceInv
<1>3. DOMAIN queue \subseteq Nat \ {0} /\ NoStep \notin Steps
  BY <1>2, ToolsAssumption DEF GraphInv, GraphTypeOK
<1>4. \A s \in Steps : ~ HasResult(s) /\ result[s] = NoResult
  BY <1>1, <1>2, <1>3 DEF StoredInOrder, InQueue, HasResult
<1>5. \A s \in Steps : answer[s] = "none"
  BY <1>1, <1>2, <1>3 DEF AnsweredInOrder
<1>6. \A s \in Steps, state \in Concluded : <<s, state>> \notin audit
  <2> SUFFICES ASSUME NEW s \in Steps, NEW state \in Concluded, <<s, state>> \in audit
               PROVE  FALSE
    OBVIOUS
  <2>1. PICK n \in DOMAIN queue :
           n <= next /\ (n = next => pc \in {"verify", "raised"})
    BY <1>2 DEF ConcludedInOrder
  <2> QED BY <1>1, <1>3, <2>1
<1>7. AnsweredInOrder' /\ ConcludedInOrder' /\ OutcomeIsEarned' /\ AbortInOrder'
  BY <1>1, <1>4, <1>5, <1>6 DEF AnsweredInOrder, ConcludedInOrder, OutcomeIsEarned,
     AbortInOrder, NoResult
<1>8. AttemptsAreHonest'
  BY <1>1, <1>4 DEF AttemptsAreHonest, HasResult
<1>9. AbortIsFinal'
  <2>1. \A n \in DOMAIN queue' : queue'[n] \in Steps
    BY <1>2, GraphStep DEF Next, RunStep, GraphInv, GraphTypeOK
  <2> QED BY <1>1, <1>3, <1>4, <2>1 DEF AbortIsFinal, NoResult
<1> QED BY <1>7, <1>8, <1>9 DEF TraceInv

LEMMA TraceStep == IInv /\ TraceInv /\ [Next]_vars => TraceInv'
<1> SUFFICES ASSUME IInv, TraceInv, [Next]_vars PROVE TraceInv'
  OBVIOUS
<1>1. CASE SortVisit
  BY <1>1, SortTrace
<1>2. CASE UNCHANGED vars
  <2> USE <1>2 DEF vars, callVars, execVars, planVars
  <2>1. Step' = Step /\ \A s : HasResult(s)' = HasResult(s)
    BY DEF Step, HasResult
  <2> QED BY <2>1 DEF TraceInv, AnsweredInOrder, ConcludedInOrder, OutcomeIsEarned,
             AbortInOrder, AbortIsFinal, AttemptsAreHonest
<1>3. CASE Next /\ UNCHANGED planVars /\ ~ UNCHANGED vars
  <2>1. LoopStep
    BY <1>3, EveryStepIsLoopStep
  <2> QED BY <1>3, <2>1, AnswersInv, ConcludedInv, OutcomeInv, AbortInv, HonestInv DEF TraceInv
<1>4. SortVisit \/ UNCHANGED planVars
  BY DEF Next, RunStep, vars, Terminated, SortEnds, Return, SkipAborted, BeginStep,
         SkipWithoutCallback, AskTerminal, OperatorAnswers, PromptTimesOut, LateAnswer,
         PromptRaises, Denied, Granted, FindTool, Refuse, StartTool, AttemptReturns,
         AttemptRaises, Conclude, EventRaises, Verify
<1> QED BY <1>1, <1>2, <1>3, <1>4

LEMMA TraceInductive == Spec => [](IInv /\ TraceInv)
BY InitInv, IInvStep, InitTrace, TraceStep, PTL DEF Spec

-----------------------------------------------------------------------------
(* Steps up to the current one have results for all they depend on.        *)
LEMMA DependenciesSettled ==
    ASSUME IInv, NEW n \in DOMAIN queue, n <= next, NEW d \in Known(queue[n])
    PROVE  HasResult(d)
<1>1. GroupsAreTopological /\ StoredInOrder /\ GraphTypeOK /\ next \in Nat
  BY GraphInvIsTopological DEF IInv, ExecInv, GraphInv, TypeOK
<1>2. queue[n] \in InQueue /\ queue[n] \in Steps
  BY <1>1 DEF InQueue, GraphTypeOK
<1>3. d \in InQueue /\ group[d] < group[queue[n]] /\ group[d] \in Nat /\ group[queue[n]] \in Nat
  BY <1>1, <1>2 DEF GroupsAreTopological, GraphTypeOK, Known
<1>4. PICK m \in DOMAIN queue : queue[m] = d
  BY <1>3 DEF InQueue
<1>5. m \in Nat /\ n \in Nat
  BY <1>1, <1>4 DEF GraphTypeOK
<1>6. ~ (n < m) /\ n # m
  BY <1>1, <1>3, <1>4 DEF GroupsAreTopological
<1>7. m < next
  BY <1>1, <1>5, <1>6
<1> QED BY <1>1, <1>4, <1>7 DEF StoredInOrder

(* Every variable of the executor keeps its type.                          *)
THEOREM TypeCorrect == Spec => []TypeOK
<1>1. IInv => TypeOK
  BY DEF IInv
<1> QED BY <1>1, Inductive, PTL

(* For any plan, cyclic or not, topological_groups yields groups in        *)
(* dependency order and leaves out exactly what a cycle blocks.            *)
THEOREM GroupingIsTopological == Spec => []GroupsAreTopological
<1>1. IInv => GroupsAreTopological
  BY GraphInvIsTopological DEF IInv
<1> QED BY <1>1, Inductive, PTL

(* And no later than that: the groups are as few and as early as the       *)
(* dependencies allow, so a plan that could run in parallel is offered as  *)
(* such, and a step's group is the length of the longest chain before it.  *)
THEOREM GroupsComeEarliest == Spec => []GroupsAreEarliest
<1>1. Init => GroupsAreEarliest
  BY EarliestInitially DEF Init
<1>2. ASSUME IInv, IInv', GroupsAreEarliest, [Next]_vars PROVE GroupsAreEarliest'
  <2>1. CASE SortVisit
    BY <1>2, <2>1, EarliestStep DEF SortVisit, IInv
  <2>2. CASE UNCHANGED planVars
    <3>1. UNCHANGED <<depends, queue, group>>
      BY <2>2 DEF planVars
    <3>2. InQueue' = InQueue /\ \A s : Known(s)' = Known(s)
      BY <3>1 DEF InQueue, Known
    <3> QED BY <1>2, <3>1, <3>2 DEF GroupsAreEarliest, Known
  <2> QED BY <1>2, <2>1, <2>2, GraphIsSortedOnce
<1> QED BY <1>1, <1>2, Inductive, PTL DEF Spec

(* No handler of any tool runs without the policy's and, where the step    *)
(* requires it, the operator's consent, given in time.                     *)
THEOREM NoCallBehindAGate == Spec => []CallsPassedTheGates
<1>1. IInv => CallsPassedTheGates
  BY DEF IInv, ExecInv
<1> QED BY <1>1, Inductive, PTL

(* A handler runs only when every dependency of its step has a result.     *)
THEOREM DependenciesComeFirst == Spec => []CallsFollowDependencies
<1>1. ASSUME IInv PROVE CallsFollowDependencies
  <2> SUFFICES ASSUME NEW s \in Steps, tries[s] > 0, NEW d \in Known(s)
               PROVE  HasResult(d)
    BY DEF CallsFollowDependencies
  <2>1. PICK n \in DOMAIN queue : queue[n] = s /\ n <= next
    BY <1>1 DEF IInv, ExecInv, TriedInOrder
  <2> QED BY <1>1, <2>1, DependenciesSettled
<1> QED BY <1>1, Inductive, PTL

(* A plan that returns has results for all steps that no cycle traps.      *)
THEOREM NothingElseVanishes == Spec => []OnlyTrappedStepsVanish
<1>1. ASSUME IInv PROVE OnlyTrappedStepsVanish
  <2> SUFFICES ASSUME pc = "returned", NEW s \in Steps
               PROVE  HasResult(s) <=> s \notin Stuck
    BY DEF OnlyTrappedStepsVanish
  <2>1. /\ GroupsAreTopological /\ StoredInOrder /\ GraphTypeOK /\ next \in Nat
        /\ Sorted /\ next > Len(queue)
    BY <1>1, GraphInvIsTopological
    DEF IInv, ExecInv, GraphInv, TypeOK, SortedFirst, InTheLoop
  <2>2. InQueue = Steps \ Stuck
    BY <2>1 DEF GroupsAreTopological
  <2>3. \A n \in DOMAIN queue : n < next
    BY <2>1 DEF GraphTypeOK
  <2>4. HasResult(s) <=> s \in InQueue
    BY <2>1, <2>3 DEF StoredInOrder, InQueue
  <2> QED BY <2>2, <2>4
<1> QED BY <1>1, Inductive, PTL

(* A refused call aborts the plan, and exactly the steps behind it in the  *)
(* order of execution are skipped for that reason.                         *)
THEOREM AbortsAreFinal == Spec => []AbortIsFinal
<1>1. TraceInv => AbortIsFinal
  BY DEF TraceInv
<1> QED BY <1>1, TraceInductive, PTL

(* Attempts and states of the results agree with the calls made and with   *)
(* the events written.                                                     *)
THEOREM ResultsAreHonest == Spec => []AttemptsAreHonest
<1>1. TraceInv => AttemptsAreHonest
  BY DEF TraceInv
<1> QED BY <1>1, TraceInductive, PTL

(* Whatever is typed after the prompt's time limit, the denial stands.     *)
THEOREM LateAnswersAreVoid == Spec => TimedOutStaysDenied
<1>1. ASSUME IInv, TraceInv, [Next]_vars, NEW s \in Steps, answer[s] = "denied"
      PROVE  answer'[s] = "denied"
  <2>1. CASE answer' = answer
    BY <1>1, <2>1
  <2>2. CASE /\ pc \in {"approval", "prompt"} /\ next \in DOMAIN queue
             /\ \E a \in {"granted", "denied"} : answer' = [answer EXCEPT ![Step] = a]
    <3>1. s # Step
      BY <1>1, <2>2, CurrentIsFresh
    <3> QED BY <1>1, <2>2, <3>1 DEF IInv, TypeOK
  <2> QED BY <1>1, <2>1, <2>2, AnswerStep DEF vars, execVars
<1>2. IInv /\ TraceInv /\ [Next]_vars =>
         [\A s \in Steps : answer[s] = "denied" => answer'[s] = "denied"]_vars
  BY <1>1
<1> QED BY <1>2, TraceInductive, PTL DEF Spec, TimedOutStaysDenied
-----------------------------------------------------------------------------
(* The ledger.  What was shown of the results and the calls places every   *)
(* step of run_plan in it.                                                 *)
LEMMA NobodyElseCalled ==
    ASSUME IInv, pc \notin Calling \/ (next \in DOMAIN queue /\ tries[Step] = 0)
    PROVE  Ledger!NobodyCalled
<1> SUFFICES ASSUME NEW s \in Steps, tries[s] > 0 PROVE HasResult(s)
  BY DEF Ledger!NobodyCalled, Entry, HasResult
<1>1. PICK n \in DOMAIN queue : queue[n] = s /\ n <= next /\ (n = next => pc \in Calling)
  BY DEF IInv, ExecInv, TriedInOrder
<1>2. n # next
  BY <1>1 DEF Step
<1>3. n \in Nat /\ next \in Nat
  BY <1>1 DEF IInv, TypeOK, GraphInv, GraphTypeOK
<1> QED BY <1>1, <1>2, <1>3 DEF IInv, ExecInv, StoredInOrder

LEMMA SettledHaveResults ==
    \A s \in Steps : HasResult(s) <=> s \notin Ledger!Unsettled
BY DEF Ledger!Unsettled, Entry, HasResult

LEMMA CurrentIsReady ==
    ASSUME IInv, TraceInv, next \in DOMAIN queue, tries[Step] = 0
    PROVE  Step \in Steps /\ Ledger!Ready(Step)
<1>1. Step \in Steps /\ ~ HasResult(Step)
  BY CurrentIsFresh
<1>2. Entry(Step) = "open"
  BY <1>1 DEF Entry, HasResult
<1>3. ASSUME NEW d \in depends[Step] \cap Ledger!Unsettled PROVE FALSE
  <2>1. d \in Known(Step)
    BY <1>3 DEF Known, Ledger!Unsettled
  <2>2. next <= next
    BY DEF IInv, TypeOK, GraphInv, GraphTypeOK
  <2>3. HasResult(d)
    BY <2>1, <2>2, DependenciesSettled DEF Step
  <2> QED BY <1>3, <2>1, <2>3, SettledHaveResults DEF Known
<1> QED BY <1>1, <1>2, <1>3 DEF Ledger!Ready

(* What the ledger sees of a step that stores nothing.                     *)
LEMMA EntriesStay ==
    ASSUME UNCHANGED <<planVars, result, tries, aborted>>
    PROVE  UNCHANGED <<depends, [s \in Steps |-> Entry(s)], aborted # NoStep>>
<1>1. \A s \in Steps : Entry(s)' = Entry(s)
  BY DEF Entry, HasResult
<1> QED BY <1>1 DEF planVars

(* A result is stored for the current step; the other entries stay.        *)
LEMMA EntryStored ==
    ASSUME IInv, TraceInv, next \in DOMAIN queue, UNCHANGED <<planVars, tries>>,
           NEW r \in Results, Store(r), NEW s \in Steps, s = Step
    PROVE  Ledger!Enter(s, Entry(s)') /\ result'[s] = r
<1>1. result \in [Steps -> Results] /\ result' = [result EXCEPT ![s] = r]
  BY DEF IInv, TypeOK, Store
<1>2. \A x \in Steps \ {s} : Entry(x)' = Entry(x)
  BY <1>1 DEF Entry, HasResult
<1>3. [x \in Steps |-> Entry(x)]' = [[x \in Steps |-> Entry(x)] EXCEPT ![s] = Entry(s)']
  <2>1. [x \in Steps |-> Entry(x)]' = [x \in Steps |-> Entry(x)']
    OBVIOUS
  <2> QED BY <1>2, <2>1
<1> QED BY <1>1, <1>3 DEF Ledger!Enter, planVars

(* Nothing is stored or called: the ledger may only see an exception.      *)
LEMMA LedgerQuiet ==
    ASSUME UNCHANGED <<planVars, result, tries, aborted>>,
           pc' = pc \/ (pc \notin {"returned", "raised"} /\ pc' # "returned")
    PROVE  [Ledger!Next]_(Ledger!vars)
<1>1. UNCHANGED <<depends, [s \in Steps |-> Entry(s)], aborted # NoStep>>
  BY EntriesStay
<1>2. CASE pc' = pc
  BY <1>1, <1>2 DEF Ledger!vars
<1>3. CASE pc \notin {"returned", "raised"} /\ pc' = "raised"
  <2>1. Ledger!Raise
    BY <1>1, <1>3 DEF Ledger!Raise
  <2> QED BY <2>1 DEF Ledger!Next
<1>4. CASE pc \notin {"returned", "raised"} /\ pc' \notin {"returned", "raised"}
  BY <1>1, <1>4 DEF Ledger!vars
<1> QED BY <1>2, <1>3, <1>4

(* The first attempt of a call is entered, a further one is not.           *)
LEMMA LedgerAttempt ==
    ASSUME IInv, TraceInv, UNCHANGED <<planVars, next, result, aborted>>,
           pc = "attempt", pc' \in {"attempt", "conclude", "raised"},
           tries' = [tries EXCEPT ![Step] = @ + 1]
    PROVE  [Ledger!Next]_(Ledger!vars)
<1>1. next \in DOMAIN queue /\ aborted = NoStep
  BY DEF IInv, ExecInv, InTheLoop, TraceInv, AbortInOrder
<1>2. PICK s \in Steps : s = Step
  BY <1>1, CurrentIsFresh
<1>3. ~ HasResult(s) /\ tries[s] \in Nat /\ tries' = [tries EXCEPT ![s] = @ + 1]
  <2>1. Limits \cup {0} \subseteq Nat
    BY LimitsPositive
  <2> QED BY <1>1, <1>2, <2>1, CurrentIsFresh DEF IInv, TypeOK
<1>4. \A x \in Steps : HasResult(x)' <=> HasResult(x)
  BY DEF HasResult
<1>5. tries'[s] > 0 /\ \A x \in Steps \ {s} : tries'[x] = tries[x]
  BY <1>3 DEF IInv, TypeOK
<1>6. Entry(s)' = "called" /\ \A x \in Steps \ {s} : Entry(x)' = Entry(x)
  BY <1>3, <1>4, <1>5 DEF Entry, HasResult
<1>7. CASE tries[s] = 0
  <2>1. [x \in Steps |-> Entry(x)]' = [[x \in Steps |-> Entry(x)] EXCEPT ![s] = "called"]
    <3>1. [x \in Steps |-> Entry(x)]' = [x \in Steps |-> Entry(x)']
      OBVIOUS
    <3> QED BY <1>6, <3>1
  <2>2. Ledger!Enter(s, "called")
    BY <2>1 DEF Ledger!Enter, planVars
  <2>3. Ledger!Ready(s) /\ Ledger!NobodyCalled
    BY <1>1, <1>2, <1>7, CurrentIsReady, NobodyElseCalled
  <2>4. Ledger!Call(s)
    BY <1>1, <2>2, <2>3 DEF Ledger!Call
  <2> QED BY <2>4 DEF Ledger!Next
<1>8. CASE tries[s] # 0
  <2>1. Entry(s) = "called"
    BY <1>3, <1>8 DEF Entry, HasResult
  <2>2. [x \in Steps |-> Entry(x)]' = [x \in Steps |-> Entry(x)]
    <3>1. [x \in Steps |-> Entry(x)]' = [x \in Steps |-> Entry(x)']
      OBVIOUS
    <3> QED BY <1>6, <2>1, <3>1
  <2>3. CASE pc' = "raised"
    <3>1. Ledger!Raise
      BY <1>1, <2>2, <2>3 DEF Ledger!Raise, planVars
    <3> QED BY <3>1 DEF Ledger!Next
  <2>4. CASE pc' # "raised"
    BY <2>2, <2>4 DEF Ledger!vars, planVars
  <2> QED BY <2>3, <2>4
<1> QED BY <1>7, <1>8

(* A step that is passed over, and one behind an abort.                    *)
LEMMA LedgerSkip ==
    ASSUME IInv, TraceInv, NEW e \in SkipErrors, Store(Skipped(e)),
           e = "aborted_by_step" <=> aborted # NoStep,
           next \in DOMAIN queue, pc' = "step", pc \notin Calling,
           UNCHANGED <<planVars, aborted, tries>>
    PROVE  [Ledger!Next]_(Ledger!vars)
<1>1. PICK s \in Steps : s = Step
  BY CurrentIsFresh
<1>2. tries[Step] = 0
  BY CurrentIsFresh
<1>3. Skipped(e) \in Results
  BY <1>1, ResultTypes DEF SkipErrors, IInv
<1>4. Ledger!Enter(s, Entry(s)') /\ result'[s] = Skipped(e)
  BY <1>1, <1>3, EntryStored
<1>5. Ledger!Ready(s) /\ Ledger!NobodyCalled
  BY <1>1, <1>2, CurrentIsReady, NobodyElseCalled
<1>6. pc \notin {"returned", "raised"}
  BY DEF Calling, IInv, ExecInv, InTheLoop, TypeOK, GraphInv, GraphTypeOK
<1>7. Entry(s)' = IF e = "aborted_by_step" THEN "void" ELSE "skipped"
  BY <1>4 DEF Entry, HasResult, Skipped, NoResult, SkipErrors
<1>8. CASE aborted # NoStep
  <2>1. Ledger!Void(s)
    BY <1>4, <1>5, <1>6, <1>7, <1>8 DEF Ledger!Void
  <2> QED BY <2>1 DEF Ledger!Next
<1>9. CASE aborted = NoStep
  <2>1. Ledger!PassOver(s)
    BY <1>4, <1>5, <1>6, <1>7, <1>9 DEF Ledger!PassOver
  <2> QED BY <2>1 DEF Ledger!Next
<1> QED BY <1>8, <1>9

(* A call that was made is settled, one that was not is refused.           *)
LEMMA LedgerVerify ==
    ASSUME IInv, TraceInv, Verify, UNCHANGED planVars
    PROVE  [Ledger!Next]_(Ledger!vars)
<1>1. next \in DOMAIN queue /\ pc = "verify" /\ pc' = "step" /\ aborted = NoStep
      /\ outcome \in Concluded /\ tries' = tries
  BY VerifyStores DEF Verify, Goto
<1>2. PICK s \in Steps : s = Step
  BY <1>1, CurrentIsFresh
<1>3. PICK r \in Results :
          /\ Store(r) /\ r.state = outcome /\ r.error # "aborted_by_step"
          /\ outcome \in {"invalid", "blocked"} => aborted' = Step
  BY VerifyStores
<1>4. Ledger!Enter(s, Entry(s)') /\ result'[s] = r
  BY <1>1, <1>2, <1>3, EntryStored
<1>5. Entry(s)' = IF outcome \in {"invalid", "blocked"} THEN "refused" ELSE "done"
  <2>1. HasResult(s)'
    BY <1>1, <1>3, <1>4 DEF HasResult, NoResult, Concluded
  <2> QED BY <1>1, <1>3, <1>4, <2>1 DEF Entry, HasResult, Concluded
<1>6. CASE outcome \in {"invalid", "blocked"}
  <2>1. tries[Step] = 0
    BY <1>1, <1>6 DEF TraceInv, OutcomeIsEarned
  <2>2. Ledger!Ready(s) /\ Ledger!NobodyCalled
    BY <1>1, <1>2, <2>1, CurrentIsReady, NobodyElseCalled
  <2>3. aborted' # NoStep
    BY <1>2, <1>3, <1>6, ToolsAssumption
  <2>4. Ledger!Refuse(s)
    BY <1>1, <1>4, <1>5, <1>6, <2>2, <2>3 DEF Ledger!Refuse
  <2> QED BY <2>4 DEF Ledger!Next
<1>7. CASE outcome \in {"failed", "completed"}
  <2>1. Entry(s) = "called"
    BY <1>1, <1>2, <1>7, CurrentIsFresh DEF TraceInv, OutcomeIsEarned, Entry, HasResult
  <2>2. (aborted # NoStep)' \in BOOLEAN
    OBVIOUS
  <2>3. Ledger!Settle(s)
    BY <1>1, <1>4, <1>5, <1>7, <2>1, <2>2 DEF Ledger!Settle
  <2> QED BY <2>3 DEF Ledger!Next
<1> QED BY <1>1, <1>6, <1>7 DEF Concluded

(* When the queue is done, what is left open waits for what is left open.  *)
LEMMA LedgerReturn ==
    ASSUME IInv, TraceInv, Return
    PROVE  [Ledger!Next]_(Ledger!vars)
<1> USE DEF Goto, callVars, execVars
<1>1. /\ pc = "step" /\ pc' = "returned" /\ next > Len(queue)
      /\ UNCHANGED <<planVars, result, tries, aborted>>
  BY DEF Return
<1>2. UNCHANGED <<depends, [s \in Steps |-> Entry(s)], aborted # NoStep>>
  BY <1>1, EntriesStay
<1>3. GroupsAreTopological /\ StoredInOrder /\ GraphTypeOK /\ next \in Nat /\ Sorted
  BY <1>1, GraphInvIsTopological DEF IInv, ExecInv, GraphInv, TypeOK, SortedFirst
<1>4. InQueue = Steps \ Stuck /\ \A n \in DOMAIN queue : n < next
  BY <1>1, <1>3 DEF GroupsAreTopological, GraphTypeOK
<1>5. ASSUME NEW s \in Steps, Ledger!Ready(s) PROVE FALSE
  <2>1. ~ HasResult(s)
    BY <1>5 DEF Ledger!Ready, Entry, HasResult
  <2>2. s \in Stuck
    BY <1>3, <1>4, <2>1 DEF StoredInOrder, InQueue
  <2>3. PICK d \in Known(s) : d \in Stuck
    BY <2>2 DEF Stuck, Trapped
  <2>4. d \in Steps /\ ~ HasResult(d)
    BY <1>3, <1>4, <2>3 DEF StoredInOrder, Known
  <2> QED BY <1>5, <2>3, <2>4, SettledHaveResults DEF Ledger!Ready, Known
<1>6. Ledger!NobodyCalled
  BY <1>1, NobodyElseCalled DEF Calling
<1>7. Ledger!Return
  BY <1>1, <1>2, <1>5, <1>6 DEF Ledger!Return
<1> QED BY <1>7 DEF Ledger!Next

LEMMA LedgerStep == IInv /\ TraceInv /\ [Next]_vars => [Ledger!Next]_(Ledger!vars)
<1> SUFFICES ASSUME IInv, TraceInv, [Next]_vars PROVE [Ledger!Next]_(Ledger!vars)
  OBVIOUS
<1> USE DEF Goto, callVars, execVars
<1>1. CASE SortVisit
  <2>1. depends' = depends /\ UNCHANGED <<pc, result, tries, aborted>>
    BY <1>1 DEF SortVisit, Visit
  <2>2. \A s \in Steps : Entry(s)' = Entry(s)
    BY <2>1 DEF Entry, HasResult
  <2> QED BY <2>1, <2>2 DEF Ledger!vars
<1>2. CASE Return
  BY <1>2, LedgerReturn
<1>3. CASE Verify
  BY <1>3, LedgerVerify DEF Verify
<1>4. CASE SkipAborted \/ SkipWithoutCallback \/ Denied \/ (FindTool /\ pc' = "step")
  <2>1. UNCHANGED planVars /\ next' # next
    <3>1. next \in Nat
      BY DEF IInv, TypeOK, GraphInv, GraphTypeOK
    <3> QED BY <1>4, <3>1
        DEF SkipAborted, SkipWithoutCallback, Denied, FindTool, Store
  <2>2. Next /\ pc # "verify"
    BY <1>4 DEF Next, RunStep, SkipAborted, SkipWithoutCallback, Denied, FindTool
  <2>3. next \in DOMAIN queue
    BY <1>4 DEF SkipAborted, SkipWithoutCallback, Denied, FindTool, IInv, ExecInv, InTheLoop,
       TypeOK, GraphInv, GraphTypeOK
  <2>4. PICK e \in SkipErrors : Store(Skipped(e))
    BY <1>4 DEF SkipAborted, SkipWithoutCallback, Denied, FindTool, SkipErrors
  <2>5. result'[Step] # NoResult /\ result[Step] = NoResult
    BY <2>3, <2>4, CurrentIsFresh DEF Store, Skipped, NoResult, HasResult, IInv, TypeOK
  <2> QED BY <2>1, <2>2, <2>5, ResultStep, LedgerSkip DEF Verify
<1>5. CASE AttemptReturns \/ AttemptRaises \/ (EventRaises /\ pc = "attempt")
  BY <1>5, LedgerAttempt DEF AttemptReturns, AttemptRaises, EventRaises, CallHandler
<1>6. CASE UNCHANGED vars
  BY <1>6, LedgerQuiet DEF vars
<1>7. CASE \/ SortEnds \/ BeginStep \/ AskTerminal \/ PromptTimesOut \/ Granted
           \/ (FindTool /\ pc' = "run") \/ Refuse \/ StartTool \/ Conclude
           \/ (EventRaises /\ pc # "attempt") \/ OperatorAnswers \/ LateAnswer \/ PromptRaises
  <2>1. UNCHANGED <<planVars, result, tries, aborted>>
    BY <1>7 DEF SortEnds, BeginStep, AskTerminal, PromptTimesOut, Granted, FindTool, Refuse,
       StartTool, Conclude, EventRaises, OperatorAnswers, LateAnswer, PromptRaises, Record, Store
  <2>2. pc \notin {"returned", "raised"} /\ pc' # "returned"
    BY <1>7 DEF SortEnds, BeginStep, AskTerminal, PromptTimesOut, Granted, FindTool, Refuse,
       StartTool, Conclude, EventRaises, OperatorAnswers, LateAnswer, PromptRaises
  <2> QED BY <2>1, <2>2, LedgerQuiet
<1>8. FindTool => pc' = "step" \/ pc' = "run"
  BY DEF FindTool
<1> QED BY <1>1, <1>2, <1>3, <1>4, <1>5, <1>6, <1>7, <1>8 DEF Next, RunStep, Terminated

(* run_plan keeps the ledger: every step one entry, after those it depends *)
(* on, one handler at a time, none behind an abort, and no ready step left *)
(* when it returns; for any plan, tools, policy, attempts and answers.     *)
THEOREM PlanKeepsLedger == Spec => ImplementsLedger
<1>1. Init => Ledger!Init
  BY DEF Init, GraphInit, Ledger!Init, Entry, HasResult
<1> QED BY <1>1, LedgerStep, TraceInductive, PTL DEF Spec, ImplementsLedger, Ledger!Spec

-----------------------------------------------------------------------------
(***************************************************************************)
(* A plan makes finitely many steps.  Within a step of the plan the code   *)
(* only moves on, except for the retry of a handler.                       *)
(***************************************************************************)
Stage ==
    [sort |-> 0, step |-> 1, approval |-> 2, prompt |-> 3, drain |-> 4, answered |-> 5,
     lookup |-> 6, run |-> 7, attempt |-> 8, conclude |-> 9, verify |-> 10,
     returned |-> 11, raised |-> 11]

(* One more step is grouped, or the queue moves by one, or the current     *)
(* step moves on, or its handler is tried once more.                       *)
Forward ==
    \/ visited' = visited + 1
    \/ UNCHANGED <<visited, queue>> /\ next' = next + 1
    \/ UNCHANGED <<visited, queue, next>> /\ Stage[pc'] > Stage[pc]
    \/ UNCHANGED <<visited, queue, next, pc>> /\ tries'[Step] = tries[Step] + 1

(* How often each of these can happen.                                     *)
Bounded ==
    /\ visited <= Len(StepOrder) /\ next <= Len(StepOrder) + 1
    /\ \A s \in Steps : tries[s] <= IF MaxAttempts > 1 THEN MaxAttempts ELSE 1

LEMMA ForwardStep == IInv /\ [Next]_vars => Forward \/ UNCHANGED vars
<1> SUFFICES ASSUME IInv, Next PROVE Forward \/ UNCHANGED vars
  OBVIOUS
<1> USE DEF Goto, callVars, execVars, planVars
<1>1. GraphInv /\ TypeOK /\ InTheLoop
  BY DEF IInv, ExecInv
<1>2. CASE SortVisit
  BY <1>2 DEF SortVisit, Visit, Forward
<1>3. CASE SkipAborted \/ SkipWithoutCallback \/ Denied \/ Verify \/ (FindTool /\ pc' = "step")
  BY <1>3 DEF SkipAborted, SkipWithoutCallback, Denied, Verify, FindTool, Store, Forward
<1>4. CASE \/ SortEnds \/ Return \/ BeginStep \/ AskTerminal \/ PromptTimesOut \/ Granted
           \/ (FindTool /\ pc' = "run") \/ Refuse \/ StartTool \/ AttemptReturns \/ Conclude
           \/ EventRaises \/ OperatorAnswers \/ LateAnswer \/ PromptRaises
  <2>1. UNCHANGED <<visited, queue, next>>
    BY <1>4 DEF SortEnds, Return, BeginStep, AskTerminal, PromptTimesOut, Granted, FindTool,
       Refuse, StartTool, AttemptReturns, Conclude, EventRaises, OperatorAnswers, LateAnswer,
       PromptRaises, Store
  <2>2. Stage[pc'] > Stage[pc]
    BY <1>4 DEF SortEnds, Return, BeginStep, AskTerminal, PromptTimesOut, Granted, FindTool,
       Refuse, StartTool, AttemptReturns, Conclude, EventRaises, OperatorAnswers, LateAnswer,
       PromptRaises, Stage
  <2> QED BY <2>1, <2>2 DEF Forward
<1>5. CASE AttemptRaises
  <2>1. CASE pc' = "attempt"
    <3>1. next \in DOMAIN queue
      BY <1>1, <1>5 DEF AttemptRaises, InTheLoop
    <3>2. Step \in Steps
      BY <1>1, <3>1, CurrentStep
    <3> QED BY <1>1, <1>5, <2>1, <3>2 DEF AttemptRaises, CallHandler, TypeOK, Forward
  <2>2. CASE pc' = "conclude"
    BY <1>5, <2>2 DEF AttemptRaises, Stage, Forward
  <2> QED BY <1>5, <2>1, <2>2 DEF AttemptRaises
<1>6. FindTool => pc' = "step" \/ pc' = "run"
  BY DEF FindTool
<1> QED BY <1>2, <1>3, <1>4, <1>5, <1>6 DEF Next, RunStep, Terminated

(* run_plan takes finitely many steps, whatever cycles the plan has and    *)
(* however its tools fail: every step it takes moves it forward, in an     *)
(* order in which only so many moves are possible.                         *)
THEOREM PlanRunsOut == Spec => [][Forward]_vars /\ []Bounded
<1>1. ASSUME IInv PROVE Bounded
  <2>1. GraphInv /\ TypeOK /\ Len(queue) <= Len(StepOrder)
    BY <1>1, QueueIsShort DEF IInv
  <2>2. Len(queue) \in Nat /\ Len(StepOrder) \in Nat
    BY <2>1, OrderAssumption DEF GraphInv, GraphTypeOK
  <2>3. visited <= Len(StepOrder) /\ next <= Len(StepOrder) + 1
    BY <2>1, <2>2 DEF GraphInv, GraphTypeOK, TypeOK
  <2>4. \A s \in Steps : tries[s] <= IF MaxAttempts > 1 THEN MaxAttempts ELSE 1
    BY <2>1, ToolsAssumption DEF TypeOK, Limits
  <2> QED BY <2>3, <2>4 DEF Bounded
<1> QED BY Inductive, ForwardStep, <1>1, PTL DEF Spec
=============================================================================
