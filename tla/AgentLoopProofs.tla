-------------------------- MODULE AgentLoopProofs --------------------------
(***************************************************************************)
(* Proofs about the agent loop, for any questions, providers, budgets,     *)
(* thresholds and numbers of runs and troubles.                            *)
(***************************************************************************)
EXTENDS AgentLoop, FiniteSetTheorems, TLAPS

Outside == {"idle", "dead", "write_messages", "open_state", "write_state"}

Early == {"receive", "converse", "analyze", "remember", "choose", "fail"}

-----------------------------------------------------------------------------
(* How many steps a run has taken at each of its places.                   *)
StepsFit ==
    /\ maxSteps \in Nat /\ steps \in Nat
    /\ pc \in Outside \cup Early => steps = 0
    /\ pc = "choose" => 1 <= maxSteps
    /\ pc = "act" => steps = 1 /\ 1 <= maxSteps
    /\ pc = "context" => steps = 1 /\ 2 <= maxSteps
    /\ pc \in {"plan", "query", "database"} => steps = 2 /\ 2 <= maxSteps
    /\ pc = "database" => MayQuery
    /\ steps <= maxSteps \/ (steps = maxSteps + 1 /\ MayQuery)

LEMMA StepsInitially == ASSUME Init PROVE StepsFit
  BY AskedAssumption DEF Init, StepsFit, MayQuery

LEMMA StepsStep == ASSUME StepsFit, [Next]_vars PROVE StepsFit'
  <1> USE DEF StepsFit, MayQuery, Outside, Early, Goto, Stopped, Conclude, settings, turn, files,
              session, stopping, calls
  <1>1. ASSUME Start \/ Receive \/ AddMessage \/ Analyze PROVE StepsFit'
    BY <1>1 DEF Start, Receive, AddMessage, Analyze
  <1>2. CASE Remember
    BY <1>2 DEF Remember, StopState
  <1>3. CASE Choose \/ Fail
    BY <1>3 DEF Choose, Fail
  <1>4. CASE Act
    BY <1>4 DEF Act, StopState
  <1>5. CASE SchemaContext
    BY <1>5 DEF SchemaContext
  <1>6. CASE BuildPlan
    BY <1>6 DEF BuildPlan
  <1>7. CASE ApproveQuery
    BY <1>7 DEF ApproveQuery
  <1>8. CASE QueryDatabase
    BY <1>8 DEF QueryDatabase
  <1>9. CASE RecordExplanation \/ Observe
    BY <1>9 DEF RecordExplanation, Observe
  <1>10. CASE FinalAnswer
    BY <1>10 DEF FinalAnswer
  <1>11. CASE ShadowPlan \/ ExecutePlan \/ Compress \/ Complete
    BY <1>11 DEF ShadowPlan, ExecutePlan, Compress, Complete
  <1>12. CASE Return \/ Raise
    BY <1>12 DEF Return, Raise, Forgotten
  <1>13. CASE Write \/ WriteFails \/ Cancel \/ TimePasses
    BY <1>13 DEF Write, WriteFails, Cancel, TimePasses
  <1>14. CASE Save
    BY <1>14 DEF Save, OpenMessages, WriteMessages, OpenState, WriteState
  <1>15. CASE Exit \/ Crash
    BY <1>15 DEF Exit, Crash, Dies, Forgotten
  <1>16. CASE Load \/ UNCHANGED vars
    BY <1>16 DEF Load, vars
  <1> QED
    BY <1>1, <1>2, <1>3, <1>4, <1>5, <1>6, <1>7, <1>8, <1>9, <1>10, <1>11, <1>12, <1>13, <1>14,
       <1>15, <1>16 DEF Next, Step
-----------------------------------------------------------------------------
(* Where a run can still be after it was cancelled or out of time at a     *)
(* place, unless it has ended.                                             *)
Beyond(s) ==
    IF s \in {"receive", "analyze", "remember", "act"} THEN {s}
    ELSE IF s = "converse" THEN {"converse", "analyze"}
    ELSE IF s = "choose" THEN {"choose", "fail", "act"}
    ELSE IF s = "fail" THEN {"fail"}
    ELSE IF s \in {"context", "plan", "query", "database"}
         THEN {"context", "plan", "query", "database", "explain", "observe", "answer"}
    ELSE IF s \in {"explain", "observe", "answer"} THEN {"explain", "observe", "answer"}
    ELSE {"shadow", "execute", "compress", "finish"}

Tools == {"context", "plan", "query", "database"}

Late == {"none", "shadow", "execute", "compress", "finish", "returned"}

(* Cancellation and the time limit, and what still happens after them.     *)
StopFits ==
    /\ pc \in Steps \cup Outside /\ stoppedAt \in (Steps \ {"raised"}) \cup {"none"}
    /\ stoppedAt = "none" => ~ cancelled /\ ~ expired /\ late = 0
    /\ stoppedAt # "none" => cancelled \/ expired
    /\ stoppedAt # "none" => pc \in Beyond(stoppedAt) \cup {"returned", "raised"}
    /\ late \in Nat
    /\ late > 0 => stoppedAt \in {"choose"} \cup Tools
    /\ stoppedAt = "choose" => late <= 1 /\ (pc = "choose" => late = 0)
    /\ outcome = "completed" =>
          pc \in Outside \cup {"returned", "raised"} /\ stoppedAt \in Late

LEMMA StopInitially == ASSUME Init PROVE StopFits
  <1>1. ~ cancelled /\ ~ expired
    BY Zenon DEF Init
  <1>2. stoppedAt = "none" /\ late = 0 /\ outcome = "running" /\ pc = "idle"
    BY DEF Init
  <1> QED BY <1>1, <1>2 DEF StopFits, Outside

LEMMA NotStopped ==
    ASSUME NEW check, StopState(check) = "running" PROVE ~ cancelled /\ ~ expired
  BY Zenon DEF StopState

LEMMA ForgottenStops == ASSUME Forgotten PROVE ~ cancelled' /\ ~ expired'
  BY Zenon DEF Forgotten

(* A check that ends the run.                                              *)
LEMMA StoppedKeeps ==
    ASSUME StopFits, NEW here, NEW check, Stopped(here, check), here \notin {"shadow", "finish"}
    PROVE  StopFits'
  <1>1. /\ pc' = "returned" /\ UNCHANGED <<cancelled, expired, stoppedAt, late>>
        /\ outcome' \in {"cancelled", "timed_out", "stopped", "running"}
    BY DEF Stopped, Conclude, StopState, stopping, calls
  <1>2. (cancelled' <=> cancelled) /\ (expired' <=> expired)
    BY <1>1, Zenon
  <1> QED BY <1>1, <1>2 DEF StopFits, Steps

(* A check that lets it go on.                                             *)
LEMMA GoesOn ==
    ASSUME StopFits, ~ cancelled, ~ expired, pc' \in Steps, pc \in Steps \ {"returned", "raised"},
           UNCHANGED <<outcome, cancelled, expired, stoppedAt, late>>
    PROVE  StopFits'
  <1>1. stoppedAt = "none" /\ outcome # "completed" /\ late = 0
    BY DEF StopFits, Outside, Steps
  <1>2. ~ cancelled' /\ ~ expired'
    BY Zenon
  <1> QED BY <1>1, <1>2 DEF StopFits

LEMMA CheckKeeps ==
    ASSUME StopFits, NEW here \in {"receive", "analyze", "remember", "answer"}, NEW there \in Steps,
           NEW check, Goto(here, there), StopState(check) = "running",
           UNCHANGED <<outcome, cancelled, expired, stoppedAt, late>>
    PROVE  StopFits'
  <1>1. pc = here /\ pc' = there
    BY DEF Goto
  <1>2. here \in Steps \ {"returned", "raised"}
    BY DEF Steps
  <1> QED BY <1>1, <1>2, NotStopped, GoesOn

LEMMA StopStep == ASSUME StopFits, [Next]_vars PROVE StopFits'
  <1>1. ASSUME Start PROVE StopFits'
    <2>1. /\ pc = "idle" /\ pc' = "receive" /\ outcome' = "running"
          /\ UNCHANGED <<cancelled, expired, stoppedAt, late>>
      BY <1>1 DEF Start, Goto, stopping, calls
    <2>2. stoppedAt = "none"
      BY <2>1 DEF StopFits, Beyond
    <2> QED BY <2>1, <2>2 DEF StopFits, Steps
  <1>2. ASSUME Receive PROVE StopFits'
    <2>1. CASE Stopped("receive", FALSE)
      BY <2>1, StoppedKeeps
    <2>2. CASE ~ Stopped("receive", FALSE)
      <3>1. Goto("receive", "converse") /\ StopState(FALSE) = "running"
        BY <1>2, <2>2 DEF Receive
      <3>2. UNCHANGED <<outcome, cancelled, expired, stoppedAt, late>>
        BY <1>2, <2>2 DEF Receive, stopping, calls
      <3> QED BY <3>1, <3>2, CheckKeeps DEF Steps
    <2> QED BY <2>1, <2>2
  <1>3. ASSUME Analyze PROVE StopFits'
    <2>1. CASE Stopped("analyze", FALSE)
      BY <2>1, StoppedKeeps
    <2>2. CASE ~ Stopped("analyze", FALSE)
      <3>1. Goto("analyze", "remember") /\ StopState(FALSE) = "running"
        BY <1>3, <2>2 DEF Analyze
      <3>2. UNCHANGED <<outcome, cancelled, expired, stoppedAt, late>>
        BY <1>3, <2>2 DEF Analyze, stopping, calls
      <3> QED BY <3>1, <3>2, CheckKeeps DEF Steps
    <2> QED BY <2>1, <2>2
  <1>4. ASSUME Remember PROVE StopFits'
    <2>1. CASE Stopped("remember", TRUE)
      BY <2>1, StoppedKeeps
    <2>2. CASE ~ Stopped("remember", TRUE)
      <3>1. Goto("remember", "choose") /\ StopState(TRUE) = "running"
        BY <1>4, <2>2 DEF Remember
      <3>2. UNCHANGED <<outcome, cancelled, expired, stoppedAt, late>>
        BY <1>4, <2>2 DEF Remember, stopping, calls
      <3> QED BY <3>1, <3>2, CheckKeeps DEF Steps
    <2> QED BY <2>1, <2>2
  <1>5. ASSUME Choose PROVE StopFits'
    <2>1. /\ pc = "choose" /\ pc' \in {"act", "fail", "raised"} /\ outcome' = outcome
          /\ late' = IF cancelled \/ expired THEN late + 1 ELSE late
          /\ UNCHANGED <<cancelled, expired, stoppedAt>>
      BY <1>5 DEF Choose, Calling, stopping
    <2> QED BY <2>1 DEF StopFits, Steps, Outside, Beyond
  <1>6. ASSUME Act PROVE StopFits'
    <2>1. CASE Stopped("act", NeedsSchema(action))
      BY <2>1, StoppedKeeps
    <2>2. CASE ~ Stopped("act", NeedsSchema(action))
      <3>1. StopState(NeedsSchema(action)) = "running"
        BY <1>6, <2>2 DEF Act
      <3>2. pc = "act" /\ pc' \in {"context", "observe"}
        BY <1>6, <2>2 DEF Act
      <3>3. UNCHANGED <<outcome, cancelled, expired, stoppedAt, late>>
        BY <1>6, <2>2 DEF Act, stopping, calls
      <3> QED BY <3>1, <3>2, <3>3, NotStopped, GoesOn DEF Steps
    <2> QED BY <2>1, <2>2
  <1>7. ASSUME FinalAnswer PROVE StopFits'
    <2>1. CASE Stopped("answer", FALSE)
      BY <2>1, StoppedKeeps
    <2>2. CASE ~ Stopped("answer", FALSE)
      <3>1. Goto("answer", "shadow") /\ StopState(FALSE) = "running"
        BY <1>7, <2>2 DEF FinalAnswer
      <3>2. UNCHANGED <<outcome, cancelled, expired, stoppedAt, late>>
        BY <1>7, <2>2 DEF FinalAnswer, stopping, calls
      <3> QED BY <3>1, <3>2, CheckKeeps DEF Steps
    <2> QED BY <2>1, <2>2
  <1>8. ASSUME SchemaContext \/ QueryDatabase PROVE StopFits'
    <2>1. /\ pc \in {"context", "database"} /\ pc' \in {"plan", "context", "observe", "explain"}
          /\ pc = "database" => pc' = "explain"
          /\ late' = IF cancelled \/ expired THEN late + 1 ELSE late
          /\ UNCHANGED <<outcome, cancelled, expired, stoppedAt>>
      BY <1>8 DEF SchemaContext, QueryDatabase, Calling, Goto, stopping
    <2> QED BY <2>1 DEF StopFits, Steps, Outside, Beyond, Tools
  <1>9. ASSUME BuildPlan \/ ApproveQuery \/ RecordExplanation \/ Observe PROVE StopFits'
    <2>1. /\ \/ pc = "plan" /\ pc' \in {"query", "observe"}
             \/ pc = "query" /\ pc' \in {"database", "observe"}
             \/ pc = "explain" /\ pc' = "observe"
             \/ pc = "observe" /\ pc' = "answer"
          /\ UNCHANGED <<outcome, cancelled, expired, stoppedAt, late>>
      BY <1>9 DEF BuildPlan, ApproveQuery, RecordExplanation, Observe, Goto, stopping, calls
    <2> QED BY <2>1 DEF StopFits, Steps, Outside, Beyond, Tools
  <1>10. ASSUME ShadowPlan \/ ExecutePlan \/ Compress \/ Complete PROVE StopFits'
    <2>1. /\ \/ pc = "shadow" /\ pc' = "execute" /\ outcome' = outcome
             \/ pc = "execute" /\ pc' = "compress" /\ outcome' = outcome
             \/ pc = "compress" /\ pc' = "finish" /\ outcome' = outcome
             \/ pc = "finish" /\ pc' = "returned" /\ outcome' = "completed"
          /\ UNCHANGED <<cancelled, expired, stoppedAt, late>>
      BY <1>10 DEF ShadowPlan, ExecutePlan, Compress, Complete, Conclude, Goto, stopping, calls
    <2>2. pc \in Beyond(stoppedAt) => stoppedAt \in Late
      BY <2>1 DEF Beyond, StopFits, Steps, Outside, Late
    <2> QED BY <2>1, <2>2 DEF StopFits, Steps, Outside, Beyond, Tools, Late
  <1>11. ASSUME Return \/ Raise \/ Exit \/ Crash PROVE StopFits'
    <2>1. /\ pc' \in {"idle", "dead"} /\ outcome' = outcome
          /\ stoppedAt' = "none" /\ late' = 0
      BY <1>11 DEF Return, Raise, Exit, Crash, Dies, Forgotten, Goto
    <2>2. ~ cancelled' /\ ~ expired'
      BY <1>11, ForgottenStops DEF Return, Raise, Exit, Crash, Dies
    <2> QED BY <2>1, <2>2 DEF StopFits, Outside, Late
  <1>12. ASSUME Write \/ WriteFails PROVE StopFits'
    <2>1. pc' \in {pc, "raised"} /\ UNCHANGED <<outcome, cancelled, expired, stoppedAt, late>>
      BY <1>12 DEF Write, WriteFails, stopping, calls
    <2> QED BY <2>1 DEF StopFits, Steps
  <1>13. ASSUME Cancel \/ TimePasses PROVE StopFits'
    <2>1. cancelled' \/ expired'
      BY <1>13, Zenon DEF Cancel, TimePasses
    <2>2. /\ Running /\ stoppedAt' = IF stoppedAt = "none" THEN pc ELSE stoppedAt
          /\ UNCHANGED <<pc, outcome, late>>
      BY <1>13 DEF Cancel, TimePasses, Stopping, calls
    <2>3. pc \in Steps \ {"raised"}
      BY <2>2 DEF StopFits, Running, Outside
    <2> QED BY <2>1, <2>2, <2>3 DEF StopFits, Steps, Beyond, Outside, Late
  <1>14. ASSUME Save \/ Load \/ UNCHANGED vars PROVE StopFits'
    <2>1. /\ (pc \in Outside /\ pc' \in Outside) \/ pc' = pc
          /\ UNCHANGED <<outcome, cancelled, expired, stoppedAt, late>>
      BY <1>14 DEF Save, OpenMessages, WriteMessages, OpenState, WriteState, Load, Goto, Outside,
                   vars, stopping, calls
    <2>2. pc \in Outside => stoppedAt = "none"
      BY DEF StopFits, Outside, Beyond
    <2> QED BY <2>1, <2>2 DEF StopFits
  <1>15. ASSUME AddMessage \/ Fail PROVE StopFits'
    <2>1. /\ \/ pc = "converse" /\ pc' = "analyze" /\ outcome' = outcome
             \/ pc = "fail" /\ pc' = "returned" /\ outcome' = "failed"
          /\ UNCHANGED <<cancelled, expired, stoppedAt, late>>
      BY <1>15 DEF AddMessage, Fail, Conclude, Goto, stopping, calls
    <2> QED BY <2>1 DEF StopFits, Steps, Outside, Beyond
  <1> QED
    BY <1>1, <1>2, <1>3, <1>4, <1>5, <1>6, <1>7, <1>8, <1>9, <1>10, <1>11, <1>12, <1>13, <1>14,
       <1>15 DEF Next, Step

(* A run keeps its budget but for one query, and after a cancellation or   *)
(* the time limit only calls begin that were past their check.             *)
THEOREM BudgetHolds == Spec => []BudgetIsKept
  <1>1. Init => StepsFit /\ StopFits
    BY StepsInitially, StopInitially
  <1>2. StepsFit /\ StopFits /\ [Next]_vars => (StepsFit /\ StopFits)'
    BY StepsStep, StopStep
  <1>3. StepsFit /\ StopFits => BudgetIsKept
    BY DEF StepsFit, StopFits, BudgetIsKept, Tools, Late
  <1> QED BY <1>1, <1>2, <1>3, PTL DEF Spec
-----------------------------------------------------------------------------
(* What the policy on actions and the choice of a pattern guarantee.       *)
LEMMA AllowedIsSafe ==
    ASSUME NEW q, NEW k \in AllowedKinds(Intent(q))
    PROVE  /\ k \in Kinds
           /\ Intent(q).safety = "blocked_write_request" => k = "refuse"
           /\ k \in {"inspect_schema", "ask_clarification"} => Intent(q).safety = "read_only"
  <1>1. CASE IsWorkflow(q.keywords)
    BY <1>1 DEF Intent, AllowedKinds, Kinds
  <1>2. CASE ~ IsWorkflow(q.keywords) /\ ~ IsDatabase(q.keywords)
    BY <1>2 DEF Intent, AllowedKinds, Baseline, Kinds
  <1>3. CASE ~ IsWorkflow(q.keywords) /\ IsDatabase(q.keywords)
    BY <1>3 DEF Intent, AllowedKinds, Kinds
  <1> QED BY <1>1, <1>2, <1>3

LEMMA BaselineIsAllowed ==
    ASSUME NEW q PROVE Baseline(Intent(q)).kind \in AllowedKinds(Intent(q))
  <1>1. CASE IsWorkflow(q.keywords)
    BY <1>1 DEF Intent, AllowedKinds, Baseline
  <1>2. CASE ~ IsWorkflow(q.keywords) /\ ~ IsDatabase(q.keywords)
    BY <1>2 DEF Intent, AllowedKinds, Baseline
  <1>3. CASE ~ IsWorkflow(q.keywords) /\ IsDatabase(q.keywords)
    BY <1>3 DEF Intent, AllowedKinds, Baseline
  <1> QED BY <1>1, <1>2, <1>3

LEMMA ValidatedIsAllowed ==
    ASSUME NEW q, NEW proposal
    PROVE  Validated(proposal, Intent(q)).kind \in AllowedKinds(Intent(q))
  BY BaselineIsAllowed DEF Validated

LEMMA ChoiceIsAllowed ==
    ASSUME NEW p, NEW q, NEW c \in ModelChoices(p, Intent(q))
    PROVE  c.action.kind \in AllowedKinds(Intent(q))
  <1>1. CASE p = "mock"
    BY <1>1, BaselineIsAllowed DEF ModelChoices
  <1>2. CASE p # "mock"
    <2>1. PICK r \in Replies, s \in Replies, proposal \in Proposals :
              c = [reply |-> Transported(p, r, s), action |-> Validated(proposal, Intent(q))]
      BY <1>2 DEF ModelChoices
    <2>2. c.action = Validated(proposal, Intent(q))
      BY <2>1
    <2> QED BY <2>2, ValidatedIsAllowed
  <1> QED BY <1>1, <1>2

LEMMA PlanNamesItsSubject ==
    ASSUME NEW q, Plan(q).status = "planned" PROVE Plan(q).pattern.subject \in q.words
  <1>1. Pattern(q.words) # NoPattern /\ Plan(q).pattern = Pattern(q.words)
    BY DEF Plan, Refused
  <1>2. Subject(q.words) # "none" /\ Pattern(q.words).subject = Subject(q.words)
    BY <1>1 DEF Pattern
  <1>3. Subject(q.words) \in q.words
    BY <1>2 DEF Subject
  <1> QED BY <1>1, <1>2, <1>3

-----------------------------------------------------------------------------
Middle ==
    {"act", "context", "plan", "query", "database", "explain", "observe", "answer"}

(* What the locals of a run hold at each of its places.                    *)
LocalsFit ==
    /\ pc \in Outside \cup Early =>
          /\ action.kind = "none" /\ tried = 0 /\ plan.status = "none"
          /\ explanation = "none" /\ output = "none"
    /\ pc \in Outside \cup Early \cup Middle => answer = "none"
    /\ pc \in Middle => action.kind \in AllowedKinds(Intent(question))
    /\ pc \in {"context", "plan", "query", "database"} \/ tried # 0 \/ output # "none" =>
          NeedsSchema(action) /\ action.kind \in AllowedKinds(Intent(question))
    /\ plan.status = "planned" => plan = Plan(question)
    /\ pc = "database" => MayQuery
    /\ output # "none" => MayQuery
    /\ explanation = "succeeded" => output \in {"rows", "no_rows"}
    /\ answer = "result" => output \in {"rows", "no_rows"}
    /\ Intent(question).safety = "blocked_write_request" => answer \in {"none", "refusal"}

LEMMA LocalsInitially == ASSUME Init PROVE LocalsFit
  BY DEF Init, LocalsFit, Outside, Early, Middle, NoAction, Nothing, Refused

LEMMA ForgottenFits == ASSUME Forgotten, pc' \in Outside PROVE LocalsFit'
  BY DEF Forgotten, LocalsFit, Outside, Early, Middle, NoAction, Nothing, Refused

LEMMA LocalsStep == ASSUME LocalsFit, [Next]_vars PROVE LocalsFit'
  <1> USE DEF LocalsFit, MayQuery, Outside, Early, Middle, Goto, settings, turn, files, session,
              stopping, calls
  <1>1. ASSUME Start PROVE LocalsFit'
    BY <1>1 DEF Start
  <1>2. ASSUME NEW here, NEW check, Stopped(here, check) PROVE LocalsFit'
    BY <1>2 DEF Stopped, Conclude
  <1>3. ASSUME Receive \/ AddMessage \/ Analyze \/ Remember \/ Fail PROVE LocalsFit'
    BY <1>3 DEF Receive, AddMessage, Analyze, Remember, Fail, Stopped, Conclude
  <1>4. ASSUME Choose PROVE LocalsFit'
    <2>1. PICK c \in ModelChoices(provider, Intent(question)) :
             \/ c.reply = "action" /\ pc' = "act" /\ action' = c.action
             \/ pc' \in {"fail", "raised"} /\ action' = action
      BY <1>4 DEF Choose
    <2>2. pc = "choose"
      BY <1>4 DEF Choose
    <2>3. UNCHANGED <<settings, question, plan, explanation, answer, tried, output>>
      BY <1>4 DEF Choose
    <2>4. c.action.kind \in AllowedKinds(Intent(question))
      BY ChoiceIsAllowed
    <2> QED BY <2>1, <2>2, <2>3, <2>4
  <1>5. ASSUME Act PROVE LocalsFit'
    BY <1>5 DEF Act, Stopped, Conclude
  <1>6. ASSUME SchemaContext PROVE LocalsFit'
    BY <1>6 DEF SchemaContext
  <1>7. ASSUME BuildPlan PROVE LocalsFit'
    BY <1>7 DEF BuildPlan
  <1>8. ASSUME ApproveQuery PROVE LocalsFit'
    BY <1>8 DEF ApproveQuery
  <1>9. ASSUME QueryDatabase PROVE LocalsFit'
    BY <1>9 DEF QueryDatabase, Explained
  <1>10. ASSUME RecordExplanation \/ Observe PROVE LocalsFit'
    BY <1>10 DEF RecordExplanation, Observe
  <1>11. ASSUME FinalAnswer PROVE LocalsFit'
    <2>1. CASE Stopped("answer", FALSE)
      BY <2>1, <1>2
    <2>2. CASE ~ Stopped("answer", FALSE)
      <3>1. /\ pc = "answer" /\ pc' = "shadow" /\ answer' = Answer(action, plan, explanation)
            /\ UNCHANGED <<settings, question, action, plan, explanation, tried, output>>
        BY <1>11, <2>2 DEF FinalAnswer
      <3>2. Intent(question).safety = "blocked_write_request" => action.kind = "refuse"
        BY <3>1, AllowedIsSafe
      <3> QED BY <3>1, <3>2 DEF Answer
    <2> QED BY <2>1, <2>2
  <1>12. ASSUME ShadowPlan \/ ExecutePlan \/ Compress \/ Complete PROVE LocalsFit'
    BY <1>12 DEF ShadowPlan, ExecutePlan, Compress, Complete, Conclude
  <1>13. ASSUME Return \/ Raise \/ Exit \/ Crash PROVE LocalsFit'
    <2>1. Forgotten /\ pc' \in {"idle", "dead"}
      BY <1>13 DEF Return, Raise, Exit, Crash, Dies
    <2> QED BY <2>1, ForgottenFits
  <1>14. ASSUME Write \/ Cancel \/ TimePasses PROVE LocalsFit'
    BY <1>14 DEF Write, Cancel, TimePasses
  <1>15. ASSUME WriteFails PROVE LocalsFit'
    <2>1. /\ pc' \in {pc, "raised"} /\ explanation' \in {explanation, "none"}
          /\ UNCHANGED <<settings, question, action, plan, answer, tried, output>>
      BY <1>15 DEF WriteFails, DropsExplanation
    <2> QED BY <2>1
  <1>16. ASSUME Save \/ Load \/ UNCHANGED vars PROVE LocalsFit'
    BY <1>16 DEF Save, OpenMessages, WriteMessages, OpenState, WriteState, Load, vars
  <1> QED
    BY <1>1, <1>3, <1>4, <1>5, <1>6, <1>7, <1>8, <1>9, <1>10, <1>11, <1>12, <1>13, <1>14, <1>15,
       <1>16 DEF Next, Step

(* A result comes from the database, the database is asked only what the   *)
(* policy allows, and a request to write is refused.                       *)
THEOREM AnswersAreReal == Spec => []AnswerIsReal
  <1>1. Init => LocalsFit
    BY LocalsInitially
  <1>2. LocalsFit /\ [Next]_vars => LocalsFit'
    BY LocalsStep
  <1>3. ASSUME LocalsFit PROVE AnswerIsReal
    <2>1. ASSUME output # "none" \/ tried # 0
          PROVE  Intent(question).safety = "read_only"
      <3>1. NeedsSchema(action) /\ action.kind \in AllowedKinds(Intent(question))
        BY <1>3, <2>1 DEF LocalsFit
      <3>2. action.kind \in {"inspect_schema", "ask_clarification"}
        BY <3>1 DEF NeedsSchema
      <3> QED BY <3>1, <3>2, AllowedIsSafe
    <2>2. ASSUME output # "none"
          PROVE  allowReal /\ plan.status = "planned" /\ plan.pattern.subject \in question.words
      <3>1. allowReal /\ plan.status = "planned" /\ plan = Plan(question)
        BY <1>3, <2>2 DEF LocalsFit, MayQuery
      <3> QED BY <3>1, PlanNamesItsSubject
    <2> QED BY <1>3, <2>1, <2>2 DEF LocalsFit, AnswerIsReal
  <1> QED BY <1>1, <1>2, <1>3, PTL DEF Spec
-----------------------------------------------------------------------------
(* The writes of a step: a line is followed by the truncation of           *)
(* status.json and that by its text; the verdict comes last, after a text. *)
WriteKinds == {"line", "truncate", "fill", "audit", "verdict", "reported"}

Ordered(w) ==
    \A i \in 1..Len(w) :
        /\ w[i] = "line" => i < Len(w) /\ w[i + 1] = "truncate"
        /\ w[i] = "truncate" => i < Len(w) /\ w[i + 1] = "fill"

Plain(w) == w \in Seq(WriteKinds) /\ Ordered(w) /\ \A i \in 1..Len(w) : w[i] # "verdict"

Final(w) ==
    /\ w \in Seq(WriteKinds) /\ Ordered(w) /\ Len(w) > 1
    /\ w[Len(w)] = "verdict" /\ w[Len(w) - 1] = "fill"
    /\ \A i \in 1..Len(w) - 1 : w[i] # "verdict"

LEMMA PlainPlain ==
    ASSUME NEW v, NEW w, Plain(v), Plain(w) PROVE Plain(v \o w)
  <1>1. v \o w \in Seq(WriteKinds) /\ Len(v \o w) = Len(v) + Len(w)
    BY DEF Plain
  <1>2. ASSUME NEW i \in 1..Len(v \o w)
        PROVE (v \o w)[i] = IF i <= Len(v) THEN v[i] ELSE w[i - Len(v)]
    BY DEF Plain
  <1> QED BY <1>1, <1>2 DEF Plain, Ordered

LEMMA Joined ==
    ASSUME NEW v \in Seq(WriteKinds), NEW w \in Seq(WriteKinds)
    PROVE  /\ v \o w \in Seq(WriteKinds) /\ Len(v \o w) = Len(v) + Len(w)
           /\ \A i \in 1..Len(v \o w) :
                 (v \o w)[i] = IF i <= Len(v) THEN v[i] ELSE w[i - Len(v)]
  OBVIOUS

LEMMA LineFirst ==
    ASSUME NEW v \in Seq(WriteKinds), NEW w, Plain(w)
    PROVE  Len(v) = 1 /\ v[1] = "line" /\ Len(w) > 0 /\ w[1] = "truncate" => Plain(v \o w)
  <1> DEFINE c == v \o w
  <1>1. /\ c \in Seq(WriteKinds) /\ Len(c) = Len(v) + Len(w)
        /\ \A i \in 1..Len(c) : c[i] = IF i <= Len(v) THEN v[i] ELSE w[i - Len(v)]
    BY Joined DEF Plain
  <1> HIDE DEF c
  <1>2. ASSUME Len(v) = 1, v[1] = "line", Len(w) > 0, w[1] = "truncate" PROVE Plain(c)
    <2>1. /\ Len(c) = 1 + Len(w) /\ c[1] = "line" /\ c[2] = "truncate"
          /\ \A i \in 1..Len(w) : c[i + 1] = w[i]
          /\ \A i \in 1..Len(c) : i = 1 \/ (i - 1 \in 1..Len(w) /\ c[i] = w[i - 1])
      BY <1>1, <1>2 DEF Plain
    <2>2. ASSUME NEW i \in 1..Len(c), i # 1
          PROVE  /\ c[i] = "line" => i < Len(c) /\ c[i + 1] = "truncate"
                 /\ c[i] = "truncate" => i < Len(c) /\ c[i + 1] = "fill"
      <3>1. PICK j \in 1..Len(w) : i = j + 1 /\ c[i] = w[j]
        BY <2>1, <2>2
      <3>2. /\ w[j] = "line" => j < Len(w) /\ w[j + 1] = "truncate"
            /\ w[j] = "truncate" => j < Len(w) /\ w[j + 1] = "fill"
        BY DEF Plain, Ordered
      <3>3. Len(w) \in Nat /\ (j < Len(w) => j + 1 \in 1..Len(w))
        BY DEF Plain
      <3>4. j < Len(w) => c[i + 1] = w[j + 1]
        BY <2>1, <3>1, <3>3
      <3> QED BY <2>1, <3>1, <3>2, <3>3, <3>4
    <2>3. Ordered(c)
      BY <1>2, <2>1, <2>2, <1>1 DEF Ordered, Plain
    <2> QED BY <1>1, <2>1, <2>3 DEF Plain
  <1> QED BY <1>2 DEF c

LEMMA VerdictLast ==
    ASSUME NEW v, NEW w \in Seq(WriteKinds), Plain(v)
    PROVE  Len(w) = 1 /\ w[1] = "verdict" /\ Len(v) > 0 /\ v[Len(v)] = "fill" => Final(v \o w)
  <1> DEFINE c == v \o w
  <1>1. /\ c \in Seq(WriteKinds) /\ Len(c) = Len(v) + Len(w)
        /\ \A i \in 1..Len(c) : c[i] = IF i <= Len(v) THEN v[i] ELSE w[i - Len(v)]
    BY Joined DEF Plain
  <1> HIDE DEF c
  <1>2. ASSUME Len(w) = 1, w[1] = "verdict", Len(v) > 0, v[Len(v)] = "fill" PROVE Final(c)
    <2>1. /\ Len(c) = Len(v) + 1 /\ c[Len(c)] = "verdict"
          /\ \A i \in 1..Len(v) : c[i] = v[i]
      BY <1>1, <1>2 DEF Plain
    <2>2. Ordered(c)
      BY <1>1, <1>2, <2>1 DEF Plain, Ordered
    <2> QED BY <1>1, <1>2, <2>1, <2>2 DEF Plain, Final
  <1> QED BY <1>2 DEF c

LEMMA LastOfJoined ==
    ASSUME NEW v \in Seq(WriteKinds), NEW w \in Seq(WriteKinds), Len(w) > 0
    PROVE  Len(v \o w) > 0 /\ (v \o w)[Len(v \o w)] = w[Len(w)]
  BY Joined

LEMMA Parts ==
    /\ Plain(<<>>) /\ Plain(Status) /\ Plain(Event) /\ Plain(Audit) /\ Plain(<<"reported">>)
    /\ Final(Finished)
  <1>1. Plain(<<>>) /\ Plain(Audit) /\ Plain(<<"reported">>)
    BY DEF Plain, Ordered, Audit, WriteKinds
  <1>2. Status = <<"truncate", "fill">> /\ Plain(Status)
    BY DEF Plain, Ordered, Status, WriteKinds
  <1> DEFINE L == <<"line">>  V == <<"verdict">>
  <1>3. /\ L \in Seq(WriteKinds) /\ Len(L) = 1 /\ L[1] = "line"
        /\ V \in Seq(WriteKinds) /\ Len(V) = 1 /\ V[1] = "verdict"
        /\ Status \in Seq(WriteKinds) /\ Len(Status) > 0
        /\ Status[1] = "truncate" /\ Status[Len(Status)] = "fill"
    BY <1>2 DEF WriteKinds
  <1>4. Event = L \o Status
    BY DEF Event
  <1>5. Finished = (Event \o Status) \o V
    BY DEF Finished
  <1> HIDE DEF L, V
  <1>6. Plain(Event)
    BY <1>2, <1>3, <1>4, LineFirst
  <1>7. Plain(Event \o Status)
    BY <1>2, <1>6, PlainPlain
  <1>8. LET b == Event \o Status IN Len(b) > 0 /\ b[Len(b)] = "fill"
    BY <1>3, <1>6, LastOfJoined DEF Plain
  <1>9. Final(Finished)
    BY <1>3, <1>5, <1>7, <1>8, VerdictLast
  <1> QED BY <1>1, <1>2, <1>6, <1>9

LEMMA Compounds ==
    /\ Plain(Recorded) /\ Plain(ToolEvent) /\ Plain(Status \o Audit)
    /\ Plain(ToolEvent \o ToolEvent) /\ Plain(ToolEvent \o Recorded)
    /\ Plain(Event \o <<"reported">>)
  <1>1. Plain(Recorded) /\ Plain(ToolEvent) /\ Plain(Status \o Audit)
    BY Parts, PlainPlain DEF Recorded, ToolEvent
  <1> QED BY <1>1, Parts, PlainPlain

LEMMA TailPlain ==
    ASSUME NEW w, Plain(w), w # <<>>
    PROVE  /\ Plain(Tail(w)) /\ Head(w) \in WriteKinds \ {"verdict"}
           /\ Head(w) = "line" => Tail(w) # <<>> /\ Head(Tail(w)) = "truncate"
           /\ Tail(w) # <<>> /\ Head(w) = "truncate" => Head(Tail(w)) = "fill"
           /\ Head(w) = "truncate" => Tail(w) # <<>>
  <1>1. /\ w \in Seq(WriteKinds) /\ Len(w) > 0 /\ Tail(w) \in Seq(WriteKinds)
        /\ Len(Tail(w)) = Len(w) - 1 /\ Head(w) = w[1]
        /\ \A i \in 1..Len(w) - 1 : Tail(w)[i] = w[i + 1]
    BY DEF Plain
  <1>2. Plain(Tail(w))
    BY <1>1 DEF Plain, Ordered
  <1>3. Tail(w) # <<>> => Len(w) > 1 /\ Head(Tail(w)) = w[2]
    BY <1>1
  <1> DEFINE t == Tail(w)
  <1>4. t \in Seq(WriteKinds) /\ Len(t) = Len(w) - 1
    BY <1>1
  <1> HIDE DEF t
  <1>5. Len(w) > 1 => t # <<>>
    BY <1>1, <1>4
  <1> QED BY <1>1, <1>2, <1>3, <1>5 DEF Plain, Ordered, t

LEMMA TailFinal ==
    ASSUME NEW w, Final(w)
    PROVE  /\ w # <<>> /\ Head(w) \in WriteKinds \ {"verdict"}
           /\ Final(Tail(w)) \/ (Tail(w) = <<"verdict">> /\ Head(w) = "fill")
           /\ Head(w) = "line" => Tail(w) # <<>> /\ Head(Tail(w)) = "truncate"
           /\ Head(w) = "truncate" => Tail(w) # <<>> /\ Head(Tail(w)) = "fill"
  <1>1. /\ w \in Seq(WriteKinds) /\ Len(w) > 1 /\ Tail(w) \in Seq(WriteKinds)
        /\ Len(Tail(w)) = Len(w) - 1 /\ Head(w) = w[1] /\ w # <<>>
        /\ \A i \in 1..Len(w) - 1 : Tail(w)[i] = w[i + 1]
    BY DEF Final
  <1> DEFINE t == Tail(w)
  <1>2. /\ t \in Seq(WriteKinds) /\ Len(t) = Len(w) - 1 /\ Head(t) = t[1]
        /\ \A i \in 1..Len(w) - 1 : t[i] = w[i + 1]
    BY <1>1
  <1> HIDE DEF t
  <1>3. t # <<>> /\ Head(t) = w[2]
    BY <1>1, <1>2
  <1>4. w[1] \in WriteKinds \ {"verdict"}
    BY <1>1 DEF Final
  <1>5. /\ w[1] = "line" => w[2] = "truncate"
        /\ w[1] = "truncate" => w[2] = "fill"
    BY <1>1 DEF Final, Ordered
  <1>6. CASE Len(w) > 2
    <2>1. Ordered(t)
      BY <1>1, <1>2 DEF Final, Ordered
    <2>2. Len(t) > 1 /\ t[Len(t)] = "verdict" /\ t[Len(t) - 1] = "fill"
      BY <1>1, <1>2, <1>6 DEF Final
    <2>3. \A i \in 1..Len(t) - 1 : t[i] # "verdict"
      BY <1>1, <1>2 DEF Final
    <2> QED BY <1>1, <1>2, <1>3, <1>4, <1>5, <2>1, <2>2, <2>3 DEF Final, t
  <1>7. CASE Len(w) = 2
    <2>1. Len(t) = 1 /\ t[1] = "verdict" /\ w[1] = "fill"
      BY <1>1, <1>2, <1>7 DEF Final
    <2>2. t = <<"verdict">>
      BY <1>2, <2>1
    <2> QED BY <1>1, <1>3, <1>4, <1>5, <2>1, <2>2 DEF t
  <1> QED BY <1>1, <1>6, <1>7
-----------------------------------------------------------------------------
(* What the files say at every write.                                      *)
Working == Steps \ {"returned", "raised"}
Resting == Outside \cup {"raised"}

Pending == writes # <<>> /\ Head(writes) = "truncate"
Verdict == [state |-> outcome, count |-> counted]

FilesFit ==
    /\ pc \in Working \cup {"returned"} \cup Resting
    /\ outcome \in Outcomes /\ counted \in Nat /\ lines \in Nat /\ troubles \in Nat
    /\ status.count \in Nat /\ status.state \in {"none", "torn", "running", outcome}

WritesFit ==
    /\ pc \in Working => outcome = "running" /\ audited = {} /\ Plain(writes)
    /\ pc = "returned" =>
          \/ Final(writes) /\ audited = {}
          \/ writes = <<"verdict">> /\ audited = {} /\ status = Verdict
          \/ writes = <<>> /\ audited = {outcome}
    /\ pc \in Resting => writes = <<>>
    /\ audited # {} => audited = {outcome} /\ status = Verdict

CountsFit ==
    /\ lines <= counted /\ counted <= lines + troubles
    /\ status.state # "torn" =>
          /\ status.count <= counted
          /\ counted <= status.count + troubles + 1
          /\ ~ Pending => counted <= status.count + troubles

RecordsFit == FilesFit /\ WritesFit /\ CountsFit

LEMMA RecordsInitially == ASSUME Init PROVE RecordsFit
  <1>1. FilesFit
    BY DEF Init, FilesFit, NoStatus, Resting, Outside, Outcomes
  <1>2. WritesFit
    BY DEF Init, WritesFit, Working, Resting, Outside, Steps
  <1>3. CountsFit
    BY DEF Init, CountsFit, NoStatus, Pending
  <1> QED BY <1>1, <1>2, <1>3 DEF RecordsFit

(* A step that lists writes, and one that ends the run.                    *)
LEMMA ListsWrites ==
    ASSUME RecordsFit, pc \in Working, writes = <<>>, pc' \in Working, Plain(writes'),
           UNCHANGED <<outcome, files, troubles>>
    PROVE  RecordsFit'
  BY DEF files, RecordsFit, FilesFit, WritesFit, CountsFit, Pending, Verdict, Working, Resting,
         Outside, Steps

LEMMA EndsRun ==
    ASSUME RecordsFit, pc \in Working, writes = <<>>, pc' = "returned", Final(writes'),
           outcome' \in Outcomes, UNCHANGED <<files, troubles>>
    PROVE  RecordsFit'
  <1>1. FilesFit'
    BY DEF files, RecordsFit, FilesFit, WritesFit
  <1>2. WritesFit'
    BY DEF files, RecordsFit, WritesFit, Working, Resting, Outside, Steps
  <1>3. CountsFit'
    BY DEF files, RecordsFit, CountsFit, Pending
  <1> QED BY <1>1, <1>2, <1>3 DEF RecordsFit

LEMMA Rests ==
    ASSUME RecordsFit, pc' \in Resting, writes' = <<>>, UNCHANGED <<outcome, files>>,
           \/ troubles' = troubles /\ writes = <<>>
           \/ troubles' = troubles + 1
    PROVE  RecordsFit'
  <1>1. FilesFit'
    BY DEF files, RecordsFit, FilesFit
  <1>2. WritesFit'
    BY DEF files, RecordsFit, WritesFit, Working, Resting, Outside, Steps, Verdict
  <1>3. CountsFit'
    BY DEF files, RecordsFit, FilesFit, CountsFit, Pending
  <1> QED BY <1>1, <1>2, <1>3 DEF RecordsFit

LEMMA StoppedRecords ==
    ASSUME RecordsFit, NEW here \in Working, NEW check, Stopped(here, check)
    PROVE  RecordsFit'
  <1>1. /\ pc = here /\ writes = <<>> /\ pc' = "returned" /\ writes' = Finished
        /\ outcome' = StopState(check) /\ UNCHANGED <<files, troubles>>
    BY DEF Stopped, Conclude, stopping
  <1>2. outcome' \in Outcomes
    BY <1>1 DEF StopState, Outcomes
  <1> QED BY <1>1, <1>2, EndsRun, Parts

LEMMA WriteRecords ==
    ASSUME RecordsFit, Write
    PROVE  RecordsFit'
  <1> DEFINE w == Head(writes)
  <1>1. /\ writes # <<>> /\ writes' = Tail(writes) /\ UNCHANGED <<pc, outcome, troubles>>
        /\ counted' = IF w = "line" THEN counted + 1 ELSE counted
        /\ lines' = IF w = "line" THEN lines + 1 ELSE lines
        /\ status' = IF w = "truncate" THEN Torn ELSE IF w = "fill" THEN Verdict ELSE status
        /\ audited' = IF w = "verdict" THEN audited \cup {outcome} ELSE audited
    BY DEF Write, stopping, Verdict
  <1>2. \/ pc \in Working /\ outcome = "running" /\ audited = {} /\ Plain(writes)
        \/ pc = "returned" /\ Final(writes) /\ audited = {}
        \/ pc = "returned" /\ writes = <<"verdict">> /\ audited = {} /\ status = Verdict
    BY <1>1 DEF RecordsFit, FilesFit, WritesFit
  <1>3. /\ w = "line" => writes' # <<>> /\ Head(writes') = "truncate"
        /\ w \in WriteKinds
    <2>1. CASE Plain(writes)
      BY <1>1, <2>1, TailPlain
    <2>2. CASE Final(writes)
      BY <1>1, <2>2, TailFinal
    <2>3. CASE writes = <<"verdict">>
      BY <2>3 DEF WriteKinds
    <2> QED BY <1>2, <2>1, <2>2, <2>3
  <1>4. FilesFit'
    BY <1>1 DEF RecordsFit, FilesFit, Torn, Verdict
  <1>5. CountsFit'
    <2>1. CASE w = "line"
      BY <1>1, <1>3, <2>1 DEF RecordsFit, FilesFit, CountsFit, Pending
    <2>2. CASE w = "truncate"
      BY <1>1, <2>2 DEF RecordsFit, FilesFit, CountsFit, Torn
    <2>3. CASE w = "fill"
      BY <1>1, <2>3 DEF RecordsFit, FilesFit, CountsFit, Verdict
    <2>4. CASE w \notin {"line", "truncate", "fill"}
      BY <1>1, <2>4 DEF RecordsFit, FilesFit, CountsFit, Pending
    <2> QED BY <2>1, <2>2, <2>3, <2>4
  <1>6. WritesFit'
    <2>1. CASE pc \in Working /\ outcome = "running" /\ audited = {} /\ Plain(writes)
      <3>1. Plain(writes') /\ audited' = {}
        BY <1>1, <2>1, TailPlain
      <3> QED BY <1>1, <2>1, <3>1 DEF WritesFit, Working, Resting, Outside, Steps
    <2>2. CASE pc = "returned" /\ Final(writes) /\ audited = {}
      <3>1. /\ audited' = {}
            /\ Final(writes') \/ (writes' = <<"verdict">> /\ w = "fill")
        BY <1>1, <2>2, TailFinal
      <3>2. w = "fill" => status' = Verdict'
        BY <1>1 DEF Verdict
      <3> QED BY <1>1, <2>2, <3>1, <3>2 DEF WritesFit, Working, Resting, Outside, Steps
    <2>3. CASE pc = "returned" /\ writes = <<"verdict">> /\ audited = {} /\ status = Verdict
      <3>1. w = "verdict" /\ writes' = <<>>
        BY <1>1, <2>3
      <3>2. audited' = {outcome'} /\ status' = Verdict'
        BY <1>1, <2>3, <3>1 DEF Verdict
      <3> QED BY <1>1, <2>3, <3>1, <3>2 DEF WritesFit, Working, Resting, Outside, Steps
    <2> QED BY <1>2, <2>1, <2>2, <2>3
  <1> QED BY <1>4, <1>5, <1>6 DEF RecordsFit
LEMMA FailedWriteRecords ==
    ASSUME RecordsFit, WriteFails
    PROVE  RecordsFit'
  <1>1. /\ writes # <<>> /\ troubles' = troubles + 1
        /\ counted' = IF Head(writes) = "line" THEN counted + 1 ELSE counted
        /\ UNCHANGED <<outcome, lines, status, audited>>
        /\ \/ pc = "observe" /\ writes' = <<>> /\ pc' = pc
           \/ pc \in {"execute", "compress"} /\ writes' = Event \o <<"reported">> /\ pc' = pc
           \/ pc' = "raised" /\ writes' = <<>>
    BY DEF WriteFails, Trouble, DropsExplanation, ReportsFailure
  <1>2. audited # {} => writes = <<>>
    <2>1. CASE pc \in Working \/ pc \in Resting
      BY <2>1 DEF RecordsFit, WritesFit
    <2>2. CASE pc = "returned"
      BY <2>2, <1>1 DEF RecordsFit, WritesFit
    <2> QED BY <2>1, <2>2 DEF RecordsFit, FilesFit
  <1>3. audited = {}
    BY <1>1, <1>2
  <1>4. Plain(<<>>) /\ Plain(Event \o <<"reported">>)
    BY Parts, Compounds
  <1>5. FilesFit'
    BY <1>1 DEF RecordsFit, FilesFit, Resting
  <1>6. WritesFit'
    BY <1>1, <1>3, <1>4 DEF RecordsFit, WritesFit, Working, Resting, Outside, Steps
  <1>7. CountsFit'
    <2>1. CASE Head(writes) = "line"
      <3>1. ~ Pending
        BY <2>1 DEF Pending
      <3> QED BY <1>1, <2>1, <3>1 DEF RecordsFit, FilesFit, CountsFit
    <2>2. CASE Head(writes) # "line"
      BY <1>1, <2>2 DEF RecordsFit, FilesFit, CountsFit
    <2> QED BY <2>1, <2>2
  <1> QED BY <1>5, <1>6, <1>7 DEF RecordsFit

LEMMA RecordsStep == ASSUME RecordsFit, [Next]_vars PROVE RecordsFit'
  <1> USE DEF Goto
  <1>1. CASE Start
    <2>1. /\ pc = "idle" /\ pc' = "receive" /\ outcome' = "running" /\ writes' = Status \o Audit
          /\ counted' = 0 /\ lines' = 0 /\ status' = NoStatus /\ audited' = {} /\ troubles' = troubles
      BY <1>1 DEF Start, stopping
    <2>2. Plain(writes')
      BY <2>1, Compounds
    <2> QED BY <2>1, <2>2 DEF RecordsFit, FilesFit, WritesFit, CountsFit, NoStatus, Working, Steps,
               Outcomes, Outside, Resting
  <1>2. CASE Receive \/ AddMessage
    BY <1>2, StoppedRecords, ListsWrites, Parts DEF Receive, AddMessage, stopping, Working, Steps
  <1>3. CASE Analyze
    BY <1>3, StoppedRecords, ListsWrites, Compounds DEF Analyze, stopping, Working, Steps
  <1>4. CASE Remember
    BY <1>4, StoppedRecords, ListsWrites, Compounds, Parts DEF Remember, stopping, Working, Steps
  <1>5. CASE Choose
    <2>1. pc = "choose" /\ writes = <<>> /\ UNCHANGED <<files, troubles>>
      BY <1>5 DEF Choose, stopping
    <2>2. /\ outcome' = outcome
          /\ \/ pc' \in {"act", "fail"} /\ writes' = Recorded
             \/ pc' = "raised" /\ writes' = writes
      BY <1>5 DEF Choose
    <2>3. CASE pc' \in {"act", "fail"} /\ writes' = Recorded
      BY <2>1, <2>2, <2>3, ListsWrites, Compounds DEF Working, Steps
    <2>4. CASE pc' = "raised" /\ writes' = writes
      BY <2>1, <2>2, <2>4, Rests DEF Resting
    <2> QED BY <2>2, <2>3, <2>4
  <1>6. CASE Act
    BY <1>6, StoppedRecords, ListsWrites, Compounds, Parts DEF Act, stopping, Working, Steps
  <1>7. CASE SchemaContext
    <2>1. /\ pc = "context" /\ writes = <<>> /\ pc' \in {"plan", "context", "observe"}
          /\ writes' \in {ToolEvent, ToolEvent \o ToolEvent}
          /\ UNCHANGED <<outcome, files, troubles>>
      BY <1>7 DEF SchemaContext, stopping
    <2> QED BY <2>1, ListsWrites, Compounds DEF Working, Steps
  <1>8. CASE BuildPlan \/ ApproveQuery
    <2>1. /\ pc \in {"plan", "query"} /\ writes = <<>> /\ pc' \in {"query", "database", "observe"}
          /\ writes' \in {Recorded, ToolEvent, <<>>}
          /\ UNCHANGED <<outcome, files, troubles>>
      BY <1>8 DEF BuildPlan, ApproveQuery, stopping
    <2> QED BY <2>1, ListsWrites, Compounds, Parts DEF Working, Steps
  <1>9. CASE QueryDatabase \/ RecordExplanation \/ Observe
    <2>1. /\ pc \in {"database", "explain", "observe"} /\ writes = <<>>
          /\ pc' \in {"explain", "observe", "answer"}
          /\ writes' \in {ToolEvent \o Recorded, Recorded, Event}
          /\ UNCHANGED <<outcome, files, troubles>>
      BY <1>9 DEF QueryDatabase, RecordExplanation, Observe, stopping
    <2> QED BY <2>1, ListsWrites, Compounds, Parts DEF Working, Steps
  <1>10. CASE FinalAnswer
    BY <1>10, StoppedRecords, ListsWrites, Compounds, Parts DEF FinalAnswer, stopping, Working, Steps
  <1>11. CASE ShadowPlan \/ ExecutePlan \/ Compress
    <2>1. /\ pc \in {"shadow", "execute", "compress"} /\ writes = <<>>
          /\ pc' \in {"execute", "compress", "finish"} /\ writes' \in {Event, <<>>}
          /\ UNCHANGED <<outcome, files, troubles>>
      BY <1>11 DEF ShadowPlan, ExecutePlan, Compress, stopping
    <2> QED BY <2>1, ListsWrites, Parts DEF Working, Steps
  <1>12. CASE Complete \/ Fail
    <2>1. /\ pc \in {"finish", "fail"} /\ writes = <<>> /\ pc' = "returned" /\ writes' = Finished
          /\ outcome' \in {"completed", "failed"} /\ UNCHANGED <<files, troubles>>
      BY <1>12 DEF Complete, Fail, Conclude, stopping
    <2> QED BY <2>1, EndsRun, Parts DEF Working, Steps, Outcomes
  <1>13. CASE Return \/ Raise \/ Save \/ Exit \/ Crash \/ Load
    <2>1. /\ pc' \in Resting /\ writes' = <<>> /\ UNCHANGED <<outcome, files>>
          /\ \/ troubles' = troubles /\ writes = <<>>
             \/ troubles' = troubles + 1
      <3>1. pc = "idle" => writes = <<>>
        BY DEF RecordsFit, WritesFit, Resting, Outside
      <3> QED BY <1>13, <3>1
              DEF Return, Raise, Save, OpenMessages, WriteMessages, OpenState, WriteState, Exit,
                  Crash, Dies, Trouble, Load, Resting, Outside, stopping
    <2> QED BY <2>1, Rests
  <1>14. CASE Write
    BY <1>14, WriteRecords
  <1>15. CASE WriteFails
    BY <1>15, FailedWriteRecords
  <1>16. CASE Cancel \/ TimePasses
    <2>1. troubles' = troubles + 1 /\ UNCHANGED <<pc, writes, outcome, files>>
      BY <1>16 DEF Cancel, TimePasses, Trouble
    <2> QED BY <2>1 DEF files, RecordsFit, FilesFit, WritesFit, CountsFit, Pending, Verdict
  <1>17. CASE UNCHANGED vars
    BY <1>17 DEF vars, files, stopping, RecordsFit, FilesFit, WritesFit, CountsFit, Pending, Verdict
  <1> QED BY <1>1, <1>2, <1>3, <1>4, <1>5, <1>6, <1>7, <1>8, <1>9, <1>10, <1>11, <1>12, <1>13,
             <1>14, <1>15, <1>16, <1>17 DEF Next, Step

(* The events, status.json and the audit file agree at every write.        *)
THEOREM FilesAgree == Spec => []RecordsAgree
  <1>1. Init => RecordsFit
    BY RecordsInitially
  <1>2. RecordsFit /\ [Next]_vars => RecordsFit'
    BY RecordsStep
  <1>3. ASSUME RecordsFit PROVE RecordsAgree
    <2>1. status.state \in Outcomes \ {"running"} =>
              status.state = outcome /\ pc \notin Steps \ {"returned", "raised"}
      BY <1>3 DEF RecordsFit, FilesFit, WritesFit, Working, Outcomes
    <2>2. audited # {} => audited = {outcome} /\ status = [state |-> outcome, count |-> counted]
      BY <1>3 DEF RecordsFit, WritesFit, Verdict
    <2>3. pc = "returned" /\ writes = <<>> => audited = {outcome}
      <3>1. ~ Final(<<>>) /\ <<>> # <<"verdict">>
        BY DEF Final
      <3> QED BY <1>3, <3>1 DEF RecordsFit, WritesFit
    <2>4. status.state # "torn" =>
            /\ lines <= status.count + 1 + troubles
            /\ status.count <= lines + troubles
      BY <1>3 DEF RecordsFit, FilesFit, CountsFit
    <2> QED BY <2>1, <2>2, <2>3, <2>4 DEF RecordsAgree
  <1> QED BY <1>1, <1>2, <1>3, PTL DEF Spec
-----------------------------------------------------------------------------
(* The conversation c of n messages but for those gone: message numbers    *)
(* rise along it (by as much as the positions do, which bounds how many of *)
(* the newest there can be), its end is the end of what was sent, and the  *)
(* newest messages are in it.                                              *)
Window == Threshold \div 2

Rises(c, gone) ==
    /\ c \in Seq(Nat \ {0})
    /\ \A i, j \in 1..Len(c) : i <= j => c[i] + (j - i) <= c[j]
    /\ \A i \in 1..Len(c) - 1 : c[i] + 1 .. c[i + 1] - 1 \subseteq gone

Reaches(c, n, gone) ==
    Len(c) > 0 => c[Len(c)] <= n /\ c[Len(c)] + 1 .. n \subseteq gone

HasNewest(c, n, gone) ==
    \A m \in 1..n : m > n - Window => m \in gone \/ \E i \in 1..Len(c) : c[i] = m

Fits(c, n, gone) == Rises(c, gone) /\ Reaches(c, n, gone) /\ HasNewest(c, n, gone)

(* What another process would make of the files.                           *)
Readable == saved.state = "whole" /\ ~ Contains(saved.messages, TornLine)

(* The messages the conversation has been given: all but one whose receipt *)
(* is being recorded.                                                      *)
Heard == IF pc = "converse" THEN sent - 1 ELSE sent

(* Until a save has finished, what it writes is as good as lost.           *)
TalkFits ==
    /\ sent \in Nat /\ kept \in 0..sent /\ DOMAIN saved = {"messages", "state"}
    /\ pc = "converse" => sent > 0
    /\ Rises(conversation, lost)
    /\ pc # "dead" => Fits(conversation, Heard, lost)
    /\ pc \in {"open_state", "write_state"} => saved.messages = conversation
    /\ pc = "write_state" => saved.state = "torn"
    /\ pc # "dead" /\ ~ Saving =>
          IF Readable THEN \E n \in kept..sent : Fits(saved.messages, n, lost)
                      ELSE 1..kept \subseteq lost
    /\ pc = "dead" =>
          IF Readable THEN Fits(saved.messages, sent, lost) ELSE 1..sent \subseteq lost
    /\ pc = "finish" /\ Threshold > 1 => Len(conversation) <= Threshold

LEMMA WindowFits ==
    /\ Threshold \in Nat /\ Window \in Nat /\ Window <= Threshold
    /\ Threshold > 1 => Window > 0
  BY BoundAssumption DEF Window

LEMMA FitsMore ==
    ASSUME NEW c, NEW n \in Nat, NEW g, NEW h, Fits(c, n, g), g \subseteq h
    PROVE  Fits(c, n, h)
  <1>1. Rises(c, h)
    BY DEF Fits, Rises
  <1>2. Reaches(c, n, h)
    BY DEF Fits, Reaches
  <1>3. HasNewest(c, n, h)
    BY DEF Fits, HasNewest
  <1> QED BY <1>1, <1>2, <1>3 DEF Fits

LEMMA FitsLater ==
    ASSUME NEW c, NEW n \in Nat, NEW k \in Nat, NEW g, Fits(c, n, g), n <= k, n + 1..k \subseteq g
    PROVE  Fits(c, k, g)
  <1>1. c \in Seq(Nat \ {0})
    BY DEF Fits, Rises
  <1>2. Reaches(c, k, g)
    <2> SUFFICES ASSUME Len(c) > 0
                 PROVE  c[Len(c)] <= k /\ c[Len(c)] + 1 .. k \subseteq g
      BY DEF Reaches
    <2>1. c[Len(c)] \in Nat /\ c[Len(c)] <= n /\ c[Len(c)] + 1 .. n \subseteq g
      BY <1>1 DEF Fits, Reaches
    <2>2. \A m \in c[Len(c)] + 1 .. k : m \in c[Len(c)] + 1 .. n \/ m \in n + 1..k
      BY <2>1
    <2> QED BY <2>1, <2>2
  <1>3. HasNewest(c, k, g)
    <2> SUFFICES ASSUME NEW m \in 1..k, m > k - Window
                 PROVE  m \in g \/ \E i \in 1..Len(c) : c[i] = m
      BY DEF HasNewest
    <2>1. CASE m > n
      BY <2>1
    <2>2. CASE m <= n
      BY <2>2, WindowFits DEF Fits, HasNewest
    <2> QED BY <2>1, <2>2
  <1> QED BY <1>2, <1>3 DEF Fits

LEMMA FitsNone ==
    ASSUME NEW n \in Nat, NEW g, 1..n \subseteq g
    PROVE  Fits(<<>>, n, g)
  BY DEF Fits, Rises, Reaches, HasNewest

LEMMA FitsAppended ==
    ASSUME NEW c, NEW n \in Nat, NEW g, Fits(c, n, g)
    PROVE  Fits(Append(c, n + 1), n + 1, g)
  <1> DEFINE d == Append(c, n + 1)
  <1>1. c \in Seq(Nat \ {0}) /\ Len(c) \in Nat
    BY DEF Fits, Rises
  <1>2. /\ d \in Seq(Nat \ {0}) /\ Len(d) = Len(c) + 1 /\ d[Len(c) + 1] = n + 1
        /\ \A i \in 1..Len(c) : d[i] = c[i]
    BY <1>1
  <1>3. \A i \in 1..Len(c) : c[i] \in Nat \ {0}
    BY <1>1
  <1> HIDE DEF d
  <1>4. ASSUME NEW i \in 1..Len(c) PROVE c[i] + (Len(c) - i) <= c[Len(c)] /\ c[Len(c)] <= n
    BY <1>1 DEF Fits, Rises, Reaches
  <1>5. \A i, j \in 1..Len(d) : i <= j => d[i] + (j - i) <= d[j]
    <2> SUFFICES ASSUME NEW i \in 1..Len(d), NEW j \in 1..Len(d), i <= j
                 PROVE  d[i] + (j - i) <= d[j]
      OBVIOUS
    <2>1. CASE j <= Len(c)
      <3>1. i \in 1..Len(c) /\ j \in 1..Len(c)
        BY <1>1, <2>1
      <3>2. c[i] + (j - i) <= c[j]
        BY <3>1 DEF Fits, Rises
      <3>3. d[i] = c[i] /\ d[j] = c[j]
        BY <1>2, <3>1
      <3>4. c[i] \in Nat /\ c[j] \in Nat /\ i \in Nat /\ j \in Nat
        BY <1>1, <1>3, <3>1
      <3> QED BY <3>2, <3>3, <3>4, SMT
    <2>2. CASE j = Len(c) + 1 /\ i <= Len(c)
      <3>1. i \in 1..Len(c) /\ c[i] \in Nat /\ c[Len(c)] \in Nat
        BY <1>1, <1>3, <2>2
      <3>2. c[i] + (Len(c) - i) <= c[Len(c)] /\ c[Len(c)] <= n
        BY <1>4, <3>1
      <3>3. d[i] = c[i] /\ d[j] = n + 1
        BY <1>2, <2>2, <3>1
      <3>4. i \in Nat /\ Len(c) \in Nat /\ j = Len(c) + 1
        BY <1>1, <2>2
      <3>5. c[i] + (j - i) <= n + 1
        BY <3>1, <3>2, <3>4
      <3> QED BY <3>3, <3>5
    <2>3. CASE i = Len(c) + 1
      BY <1>1, <1>2, <2>3
    <2> QED BY <1>1, <1>2, <2>1, <2>2, <2>3
  <1>6. \A i \in 1..Len(d) - 1 : d[i] + 1 .. d[i + 1] - 1 \subseteq g
    <2> SUFFICES ASSUME NEW i \in 1..Len(c) PROVE d[i] + 1 .. d[i + 1] - 1 \subseteq g
      BY <1>1, <1>2
    <2>1. CASE i < Len(c)
      <3>1. i \in 1..Len(c) - 1 /\ i + 1 \in 1..Len(c)
        BY <1>1, <2>1
      <3>2. c[i] + 1 .. c[i + 1] - 1 \subseteq g
        BY <3>1 DEF Fits, Rises
      <3> QED BY <1>2, <3>1, <3>2
    <2>2. CASE i = Len(c)
      <3>1. d[i] = c[Len(c)] /\ d[i + 1] - 1 = n /\ Len(c) > 0
        BY <1>1, <1>2, <2>2
      <3> QED BY <3>1 DEF Fits, Reaches
    <2> QED BY <1>1, <2>1, <2>2
  <1>7. Rises(d, g)
    BY <1>2, <1>5, <1>6 DEF Rises
  <1>8. Reaches(d, n + 1, g)
    BY <1>1, <1>2 DEF Reaches
  <1>9. HasNewest(d, n + 1, g)
    <2> SUFFICES ASSUME NEW m \in 1..n + 1, m > n + 1 - Window, m \notin g
                 PROVE  \E i \in 1..Len(d) : d[i] = m
      BY WindowFits DEF HasNewest
    <2>1. CASE m = n + 1
      <3>1. Len(c) + 1 \in 1..Len(d) /\ d[Len(c) + 1] = m
        BY <1>1, <1>2, <2>1
      <3> QED BY <3>1, Zenon
    <2>2. CASE m <= n
      <3>1. PICK i \in 1..Len(c) : c[i] = m
        BY <2>2, WindowFits DEF Fits, HasNewest
      <3>2. i \in 1..Len(d) /\ d[i] = m
        BY <1>1, <1>2, <3>1
      <3> QED BY <3>2, Zenon
    <2>3. m = n + 1 \/ m <= n
      OBVIOUS
    <2> QED BY <2>1, <2>2, <2>3, Zenon
  <1> QED BY <1>7, <1>8, <1>9 DEF Fits, d

(* A stretch of a rising conversation rises.                               *)
LEMMA StretchRises ==
    ASSUME NEW c, NEW g, Rises(c, g), NEW a \in 1..Len(c) + 1, NEW b \in a - 1..Len(c)
    PROVE  /\ Rises(SubSeq(c, a, b), g) /\ Len(SubSeq(c, a, b)) = b - a + 1
           /\ \A i \in 1..b - a + 1 : SubSeq(c, a, b)[i] = c[a + i - 1]
  <1> DEFINE d == SubSeq(c, a, b)
  <1>1. c \in Seq(Nat \ {0}) /\ Len(c) \in Nat
    BY DEF Rises
  <1>2. /\ d \in Seq(Nat \ {0}) /\ Len(d) = b - a + 1
        /\ \A i \in 1..b - a + 1 : d[i] = c[a + i - 1]
    BY <1>1
  <1> HIDE DEF d
  <1>3. \A i, j \in 1..Len(d) : i <= j => d[i] + (j - i) <= d[j]
    <2> SUFFICES ASSUME NEW i \in 1..Len(d), NEW j \in 1..Len(d), i <= j
                 PROVE  d[i] + (j - i) <= d[j]
      OBVIOUS
    <2>0. i \in 1..b - a + 1 /\ j \in 1..b - a + 1
      BY <1>2
    <2>1. /\ a + i - 1 \in 1..Len(c) /\ a + j - 1 \in 1..Len(c) /\ a + i - 1 <= a + j - 1
          /\ d[i] = c[a + i - 1] /\ d[j] = c[a + j - 1]
      <3>1. a + i - 1 \in 1..Len(c) /\ a + j - 1 \in 1..Len(c) /\ a + i - 1 <= a + j - 1
        BY <1>1, <2>0
      <3> QED BY <1>2, <2>0, <3>1
    <2>2. c[a + i - 1] + ((a + j - 1) - (a + i - 1)) <= c[a + j - 1]
      BY <2>1 DEF Rises
    <2>3. (a + j - 1) - (a + i - 1) = j - i
      BY <1>1, <1>2
    <2> QED BY <2>1, <2>2, <2>3
  <1>4. \A i \in 1..Len(d) - 1 : d[i] + 1 .. d[i + 1] - 1 \subseteq g
    <2> SUFFICES ASSUME NEW i \in 1..Len(d) - 1 PROVE d[i] + 1 .. d[i + 1] - 1 \subseteq g
      OBVIOUS
    <2>0. i \in 1..b - a /\ i \in 1..b - a + 1 /\ i + 1 \in 1..b - a + 1
      BY <1>1, <1>2
    <2>1. a + i - 1 \in 1..Len(c) - 1 /\ d[i] = c[a + i - 1] /\ d[i + 1] = c[(a + i - 1) + 1]
      <3>1. a + i - 1 \in 1..Len(c) - 1 /\ a + (i + 1) - 1 = (a + i - 1) + 1
        BY <1>1, <2>0
      <3> QED BY <1>2, <2>0, <3>1
    <2> QED BY <2>1 DEF Rises
  <1> QED BY <1>2, <1>3, <1>4 DEF Rises, d

LEMMA FitsCompressed ==
    ASSUME NEW c, NEW n \in Nat, NEW g, Fits(c, n, g)
    PROVE  /\ Fits(RecentTurns(c), n, g)
           /\ Threshold > 1 => Len(RecentTurns(c)) <= Threshold
  <1>1. c \in Seq(Nat \ {0}) /\ Len(c) \in Nat /\ Rises(c, g)
    BY DEF Fits, Rises
  <1>2. CASE Len(c) <= Threshold \/ Window = 0
    BY <1>2, WindowFits DEF RecentTurns, Window
  <1>3. CASE Len(c) > Threshold /\ Window > 0
    <2> DEFINE a == Len(c) - Window + 1
               d == SubSeq(c, a, Len(c))
    <2>1. RecentTurns(c) = d
      BY <1>1, <1>3, WindowFits DEF RecentTurns, Window
    <2>2. a \in 1..Len(c) + 1 /\ Len(c) \in a - 1..Len(c) /\ Len(c) - a + 1 = Window
      BY <1>1, <1>3, WindowFits
    <2>3. Rises(d, g) /\ Len(d) = Window /\ \A i \in 1..Window : d[i] = c[a + i - 1]
      BY <1>1, <2>2, StretchRises
    <2> HIDE DEF d
    <2>4. Reaches(d, n, g)
      <3>1. d[Window] = c[Len(c)] /\ Len(c) > 0
        BY <1>1, <1>3, <2>3, WindowFits
      <3> QED BY <2>3, <3>1 DEF Fits, Reaches
    <2>5. HasNewest(d, n, g)
      <3> SUFFICES ASSUME NEW m \in 1..n, m > n - Window, m \notin g
                   PROVE  \E i \in 1..Len(d) : d[i] = m
        BY DEF HasNewest
      <3>1. PICK i \in 1..Len(c) : c[i] = m
        BY DEF Fits, HasNewest
      <3>2. m + (Len(c) - i) <= c[Len(c)] /\ c[Len(c)] <= n /\ c[Len(c)] \in Nat
        <4>1. Len(c) > 0 /\ Len(c) \in 1..Len(c) /\ i <= Len(c)
          BY <1>1, <3>1
        <4>2. c[i] + (Len(c) - i) <= c[Len(c)]
          BY <4>1 DEF Fits, Rises
        <4>3. c[Len(c)] <= n /\ c[Len(c)] \in Nat
          BY <1>1, <4>1 DEF Fits, Reaches
        <4> QED BY <3>1, <4>2, <4>3
      <3>3. i - a + 1 \in 1..Window /\ a + (i - a + 1) - 1 = i
        BY <1>1, <1>3, <3>1, <3>2, WindowFits
      <3>4. d[i - a + 1] = c[i]
        BY <2>3, <3>3
      <3> QED BY <2>3, <3>1, <3>3, <3>4
    <2> QED BY <2>1, <2>3, <2>4, <2>5, WindowFits DEF Fits
  <1> QED BY <1>1, <1>2, <1>3, WindowFits

LEMMA TalkInitially == ASSUME Init PROVE TalkFits
  <1>1. sent \in Nat /\ conversation = [i \in 1..sent |-> i] /\ lost = {} /\ kept = 0
        /\ pc = "idle" /\ saved.state = "missing" /\ DOMAIN saved = {"messages", "state"}
    BY BoundAssumption DEF Init
  <1>2. /\ conversation \in Seq(Nat \ {0}) /\ Len(conversation) = sent
        /\ \A i \in 1..sent : conversation[i] = i
    BY <1>1
  <1>3. Rises(conversation, lost)
    BY <1>1, <1>2 DEF Rises
  <1>4. Reaches(conversation, sent, lost) /\ HasNewest(conversation, sent, lost)
    BY <1>1, <1>2 DEF Reaches, HasNewest
  <1> QED BY <1>1, <1>3, <1>4 DEF TalkFits, Fits, Saving, Readable, Heard

(* Whatever does not touch the conversation, its files or its losses.      *)
LEMMA TalkUntouched ==
    ASSUME TalkFits, UNCHANGED session,
           pc \notin {"dead", "write_messages", "open_state", "write_state"},
           pc' \notin {"dead", "write_messages", "open_state", "write_state"},
           pc' = "finish" => pc = "finish", pc' = "converse" <=> pc = "converse"
    PROVE  TalkFits'
  BY DEF TalkFits, session, Saving, Readable, Contains, Fits, Rises, Reaches, HasNewest, Heard

LEMMA TalkSaved == ASSUME TalkFits, Save PROVE TalkFits'
  <1> USE DEF Goto
  <1>1. /\ UNCHANGED <<conversation, sent, lost>> /\ pc # "dead" /\ pc' # "dead"
        /\ pc' # "finish" /\ pc # "converse" /\ pc' # "converse"
    BY DEF Save, OpenMessages, WriteMessages, OpenState, WriteState
  <1>2. /\ sent \in Nat /\ kept \in 0..sent /\ Rises(conversation, lost)
        /\ Fits(conversation, sent, lost)
    BY <1>1 DEF TalkFits, Heard
  <1>3. Rises(conversation, lost)' /\ Fits(conversation, sent, lost)'
    BY <1>1, <1>2 DEF Fits, Rises, Reaches, HasNewest
  <1>4. CASE OpenMessages
    BY <1>1, <1>2, <1>3, <1>4 DEF OpenMessages, TalkFits, Saving, Heard
  <1>5. CASE WriteMessages
    <2>1. saved'.messages = conversation'
      BY <1>1, <1>5 DEF WriteMessages
    <2> QED BY <1>1, <1>2, <1>3, <1>5, <2>1 DEF WriteMessages, TalkFits, Saving, Heard
  <1>6. CASE OpenState
    <2>1. saved'.messages = conversation' /\ saved'.state = "torn"
      BY <1>1, <1>6 DEF OpenState, TalkFits
    <2> QED BY <1>1, <1>2, <1>3, <1>6, <2>1 DEF OpenState, TalkFits, Saving, Heard
  <1>7. CASE WriteState
    <2>1. /\ saved'.messages = conversation /\ saved'.state = "whole" /\ kept' = sent
          /\ pc' = "idle" /\ DOMAIN saved' = {"messages", "state"}
      BY <1>7 DEF WriteState, TalkFits
    <2>2. ~ Contains(saved'.messages, TornLine)
      BY <1>2, <2>1 DEF Contains, TornLine, Rises
    <2>3. Readable'
      BY <2>1, <2>2 DEF Readable, Contains, TornLine
    <2>4. \E n \in kept'..sent' : Fits(saved.messages, n, lost)'
      BY <1>1, <1>2, <1>3, <2>1
    <2> QED BY <1>1, <1>2, <1>3, <2>1, <2>3, <2>4 DEF TalkFits, Saving, Heard
  <1> QED BY <1>4, <1>5, <1>6, <1>7 DEF Save

LEMMA TalkDies ==
    ASSUME TalkFits, Dies, pc # "dead",
           IF pc = "write_messages"
           THEN \E n \in 0..Len(conversation), tail \in {<<>>, <<TornLine>>} :
                   saved' = [saved EXCEPT !.messages = SubSeq(conversation, 1, n) \o tail]
           ELSE UNCHANGED saved
    PROVE  TalkFits'
  <1>1. /\ pc' = "dead" /\ UNCHANGED <<conversation, sent, kept>>
        /\ lost' = lost \cup (IF Saving THEN 1..sent ELSE kept + 1..sent)
    BY DEF Dies
  <1>2. /\ sent \in Nat /\ kept \in 0..sent /\ Rises(conversation, lost)
        /\ Saving => Fits(conversation, sent, lost)
        /\ lost \subseteq lost'
    BY <1>1 DEF TalkFits, Heard, Saving
  <1>3. Rises(conversation', lost') /\ (Saving => Fits(conversation', sent', lost'))
    <2>1. Rises(conversation, lost')
      BY <1>2 DEF Rises
    <2>2. Saving => Fits(conversation, sent, lost')
      BY <1>2, FitsMore
    <2> QED BY <1>1, <2>1, <2>2, Zenon
  <1>4. DOMAIN saved' = {"messages", "state"}
    BY DEF TalkFits
  <1>5. IF Readable' THEN Fits(saved'.messages, sent', lost') ELSE 1..sent' \subseteq lost'
    <2>1. CASE ~ Saving
      <3>1. saved' = saved /\ kept + 1..sent \subseteq lost'
        BY <1>1, <2>1 DEF Saving
      <3>2. Readable' <=> Readable
        BY <3>1 DEF Readable, Contains, TornLine
      <3>3. CASE Readable
        <4>1. PICK n \in kept..sent : Fits(saved.messages, n, lost)
          BY <2>1, <3>3 DEF TalkFits
        <4>2. n \in Nat /\ n <= sent /\ n + 1..sent \subseteq lost'
          BY <1>2, <3>1
        <4>3. Fits(saved.messages, n, lost')
          BY <1>2, <4>1, <4>2, FitsMore
        <4>4. Fits(saved.messages, sent, lost')
          BY <1>2, <4>2, <4>3, FitsLater
        <4> QED BY <1>1, <3>1, <3>2, <3>3, <4>4
      <3>4. CASE ~ Readable
        <4>1. 1..kept \subseteq lost'
          BY <1>2, <2>1, <3>4 DEF TalkFits
        <4>2. \A m \in 1..sent : m \in 1..kept \/ m \in kept + 1..sent
          BY <1>2
        <4> QED BY <1>1, <3>1, <3>2, <3>4, <4>1, <4>2
      <3> QED BY <3>3, <3>4
    <2>2. CASE Saving
      <3>1. 1..sent \subseteq lost'
        BY <1>1, <2>2
      <3>2. CASE pc = "write_messages"
        <4>1. PICK n \in 0..Len(conversation), tail \in {<<>>, <<TornLine>>} :
                 saved' = [saved EXCEPT !.messages = SubSeq(conversation, 1, n) \o tail]
          BY <3>2
        <4> DEFINE d == SubSeq(conversation, 1, n)
        <4>2. conversation \in Seq(Nat \ {0}) /\ Len(conversation) \in Nat
          BY <1>2 DEF Rises
        <4>3. Rises(d, lost') /\ Len(d) = n /\ \A i \in 1..n : d[i] = conversation[i]
          <5>1. Rises(conversation, lost')
            BY <1>1, <1>3
          <5>2. 1 \in 1..Len(conversation) + 1 /\ n \in 1 - 1..Len(conversation)
            BY <4>2
          <5>3. /\ Rises(d, lost') /\ Len(d) = n - 1 + 1
                /\ \A i \in 1..n - 1 + 1 : d[i] = conversation[1 + i - 1]
            BY <5>1, <5>2, StretchRises
          <5>4. n - 1 + 1 = n /\ \A i \in 1..n : 1 + i - 1 = i
            BY <4>2
          <5> HIDE DEF d
          <5> QED BY <5>3, <5>4
        <4>4. d \in Seq(Nat)
          BY <4>3 DEF Rises
        <4> HIDE DEF d
        <4>5. CASE tail = <<>>
          <5>1. d \o <<>> = d
            BY <4>4
          <5>2. SubSeq(conversation, 1, n) \o tail = d
            BY <4>5, <5>1 DEF d
          <5>3. saved'.messages = d
            BY <4>1, <5>2 DEF TalkFits
          <5>4. Reaches(d, sent, lost')
            <6> SUFFICES ASSUME n > 0 PROVE d[n] <= sent /\ d[n] + 1 .. sent \subseteq lost'
              BY <4>3 DEF Reaches
            <6>1. /\ conversation[n] + (Len(conversation) - n) <= conversation[Len(conversation)]
                  /\ conversation[Len(conversation)] <= sent
                  /\ conversation[n] \in Nat \ {0} /\ conversation[Len(conversation)] \in Nat
              <7>1. n \in 1..Len(conversation) /\ Len(conversation) \in 1..Len(conversation)
                    /\ Len(conversation) > 0 /\ n <= Len(conversation)
                BY <4>2
              <7>2. \A i, j \in 1..Len(conversation) :
                       i <= j => conversation[i] + (j - i) <= conversation[j]
                BY <1>2 DEF Rises
              <7>4. conversation[n] + (Len(conversation) - n) <= conversation[Len(conversation)]
                BY <7>1, <7>2
              <7>3. conversation[Len(conversation)] <= sent
                BY <1>2, <2>2, <7>1 DEF Fits, Reaches
              <7> QED BY <4>2, <7>1, <7>3, <7>4
            <6>2. d[n] = conversation[n]
              BY <4>3
            <6>3. d[n] \in Nat \ {0} /\ d[n] <= sent
              BY <1>2, <4>2, <6>1, <6>2
            <6>4. d[n] + 1 .. sent \subseteq 1..sent
              BY <1>2, <6>3
            <6> QED BY <3>1, <6>3, <6>4
          <5>5. HasNewest(d, sent, lost')
            BY <3>1 DEF HasNewest
          <5>6. Fits(d, sent, lost')
            BY <4>3, <5>4, <5>5 DEF Fits
          <5> QED BY <1>1, <3>1, <5>3, <5>6
        <4>6. CASE tail = <<TornLine>>
          <5>1. Len(d \o <<TornLine>>) = n + 1 /\ (d \o <<TornLine>>)[n + 1] = TornLine
            BY <4>3, <4>4 DEF TornLine
          <5>2. SubSeq(conversation, 1, n) \o tail = d \o <<TornLine>>
            BY <4>6 DEF d
          <5>3. Contains(d \o <<TornLine>>, TornLine)
            BY <5>1 DEF Contains
          <5>4. saved'.messages = d \o <<TornLine>>
            BY <4>1, <5>2 DEF TalkFits
          <5>5. Readable' => ~ Contains(saved'.messages, TornLine)
            BY DEF Readable, Contains, TornLine
          <5> QED BY <1>1, <3>1, <5>3, <5>4, <5>5
        <4> QED BY <4>5, <4>6
      <3>3. CASE pc # "write_messages"
        <4>1. saved' = saved /\ saved.messages = conversation
          BY <2>2, <3>3 DEF Saving, TalkFits
        <4> QED BY <1>1, <1>3, <2>2, <3>1, <4>1
      <3> QED BY <3>2, <3>3
    <2> QED BY <2>1, <2>2
  <1> QED BY <1>1, <1>2, <1>3, <1>4, <1>5 DEF TalkFits, Fits, Rises, Reaches, HasNewest

LEMMA TalkLoads == ASSUME TalkFits, Load PROVE TalkFits'
  <1>1. /\ pc = "dead" /\ pc' = "idle" /\ UNCHANGED <<sent, saved, kept, lost>>
        /\ conversation' = IF Readable THEN saved.messages ELSE <<>>
    BY DEF Load, Goto, Readable
  <1>2. sent \in Nat /\ kept \in 0..sent
        /\ IF Readable THEN Fits(saved.messages, sent, lost) ELSE 1..sent \subseteq lost
    BY <1>1 DEF TalkFits
  <1>3. Readable' <=> Readable
    BY <1>1 DEF Readable, Contains, TornLine
  <1>4. Fits(conversation', sent', lost')
    BY <1>1, <1>2, FitsNone
  <1>5. IF Readable' THEN \E n \in kept'..sent' : Fits(saved'.messages, n, lost')
                     ELSE 1..kept' \subseteq lost'
    <2>1. CASE Readable
      BY <1>1, <1>2, <1>3, <2>1
    <2>2. CASE ~ Readable
      BY <1>1, <1>2, <1>3, <2>2
    <2> QED BY <2>1, <2>2
  <1>6. Rises(conversation', lost') /\ DOMAIN saved' = {"messages", "state"}
    BY <1>1, <1>4 DEF Fits, TalkFits
  <1> QED BY <1>1, <1>2, <1>4, <1>5, <1>6 DEF TalkFits, Saving, Fits, Rises, Reaches, HasNewest, Heard

(* Hearing, losing or adding a message and compressing the history.        *)
LEMMA TalkChanges ==
    ASSUME TalkFits, NEW c, NEW n \in {sent, sent + 1}, NEW g, lost \subseteq g,
           Fits(c, IF pc' = "converse" THEN n - 1 ELSE n, g), pc' = "converse" => n > 0,
           conversation' = c, sent' = n, lost' = g, UNCHANGED <<saved, kept>>,
           pc \notin {"dead", "write_messages", "open_state", "write_state"},
           pc' \notin {"dead", "write_messages", "open_state", "write_state"},
           pc' = "finish" /\ Threshold > 1 => Len(c) <= Threshold
    PROVE  TalkFits'
  <1>1. sent \in Nat /\ kept \in 0..sent /\ n \in Nat /\ kept \in 0..n /\ sent <= n
    BY DEF TalkFits
  <1>2. Readable' <=> Readable
    BY DEF Readable, Contains, TornLine
  <1>3. IF Readable' THEN \E k \in kept'..sent' : Fits(saved'.messages, k, lost')
                     ELSE 1..kept' \subseteq lost'
    <2>1. CASE Readable
      <3>1. PICK k \in kept..sent : Fits(saved.messages, k, lost)
        BY <2>1 DEF TalkFits, Saving
      <3>2. k \in kept..n /\ k \in Nat
        BY <1>1
      <3>3. Fits(saved.messages, k, g)
        BY <3>1, <3>2, FitsMore
      <3> QED BY <1>2, <2>1, <3>2, <3>3
    <2>2. CASE ~ Readable
      BY <1>2, <2>2 DEF TalkFits, Saving
    <2> QED BY <2>1, <2>2
  <1>4. Fits(conversation', Heard', lost') /\ Rises(conversation', lost')
        /\ DOMAIN saved' = {"messages", "state"}
    BY DEF Fits, TalkFits, Heard
  <1> QED BY <1>1, <1>3, <1>4 DEF TalkFits, Saving, Fits, Rises, Reaches, HasNewest

LEMMA TalkStep == ASSUME TalkFits, RecordsFit, [Next]_vars PROVE TalkFits'
  <1> USE DEF Goto
  <1>1. CASE Receive
    <2>1. CASE Stopped("receive", FALSE)
      BY <2>1, TalkUntouched DEF Stopped, Conclude
    <2>2. CASE ~ Stopped("receive", FALSE)
      <3>1. /\ pc = "receive" /\ pc' = "converse" /\ sent' = sent + 1
            /\ UNCHANGED <<conversation, saved, kept, lost>>
        BY <1>1, <2>2 DEF Receive
      <3>2. sent \in Nat /\ Fits(conversation, sent, lost) /\ sent + 1 - 1 = sent /\ sent + 1 > 0
        BY <3>1 DEF TalkFits, Heard
      <3> QED BY <3>1, <3>2, TalkChanges
    <2> QED BY <2>1, <2>2
  <1>2. CASE Compress
    <2>1. /\ pc = "compress" /\ pc' = "finish" /\ sent' = sent
          /\ conversation' = RecentTurns(conversation) /\ UNCHANGED <<saved, kept, lost>>
      BY <1>2 DEF Compress
    <2>2. sent \in Nat /\ Fits(conversation, sent, lost)
      BY <2>1 DEF TalkFits, Heard
    <2> QED BY <2>1, <2>2, FitsCompressed, TalkChanges
  <1>3. CASE Save
    BY <1>3, TalkSaved
  <1>4. CASE Exit
    BY <1>4, TalkDies DEF Exit
  <1>5. CASE Crash
    BY <1>5, TalkDies DEF Crash
  <1>6. CASE Load
    BY <1>6, TalkLoads
  <1>7. CASE Cancel \/ TimePasses
    <2>1. UNCHANGED session /\ pc' = pc /\ Running
      BY <1>7 DEF Cancel, TimePasses
    <2> QED BY <2>1, TalkUntouched DEF Running
  <1>8. CASE Write \/ UNCHANGED vars
    <2>1. UNCHANGED <<pc, session>>
      BY <1>8 DEF Write, vars
    <2>2. UNCHANGED <<pc, conversation, sent, saved, kept, lost>>
      BY <2>1 DEF session
    <2>3. Heard' = Heard /\ (Saving' <=> Saving) /\ (Readable' <=> Readable)
      BY <2>2 DEF Heard, Saving, Readable, Contains, TornLine
    <2>4. /\ Rises(conversation, lost)' <=> Rises(conversation, lost)
          /\ Fits(conversation, Heard, lost)' <=> Fits(conversation, Heard, lost)
          /\ Fits(saved.messages, sent, lost)' <=> Fits(saved.messages, sent, lost)
          /\ \A n : Fits(saved.messages, n, lost)' <=> Fits(saved.messages, n, lost)
      BY <2>2, <2>3 DEF Fits, Rises, Reaches, HasNewest
    <2> QED BY <2>2, <2>3, <2>4 DEF TalkFits
  <1>9. CASE WriteFails
    <2>1. writes # <<>> /\ UNCHANGED <<conversation, sent, saved, kept>> /\ pc' \in {pc, "raised"}
      BY <1>9 DEF WriteFails
    <2>2. pc \notin {"dead", "write_messages", "open_state", "write_state"}
      BY <2>1 DEF RecordsFit, WritesFit, Resting, Outside
    <2>3. CASE pc # "converse"
      <3>1. UNCHANGED session
        BY <1>9, <2>1, <2>3 DEF WriteFails, session
      <3> QED BY <2>1, <2>2, <2>3, <3>1, TalkUntouched
    <2>4. CASE pc = "converse"
      <3>1. pc' = "raised" /\ lost' = lost \cup {sent}
        BY <1>9, <2>4 DEF WriteFails, DropsExplanation, ReportsFailure
      <3>2. /\ sent \in Nat /\ sent - 1 \in Nat /\ sent - 1 <= sent
            /\ Fits(conversation, sent - 1, lost) /\ (sent - 1) + 1..sent \subseteq lost'
        BY <2>4, <3>1 DEF TalkFits, Heard
      <3>3. Fits(conversation, sent - 1, lost')
        BY <3>1, <3>2, FitsMore
      <3>4. Fits(conversation, sent, lost')
        BY <3>2, <3>3, FitsLater
      <3> QED BY <2>1, <2>4, <3>1, <3>4, TalkChanges
    <2> QED BY <2>3, <2>4
  <1>10. CASE Start \/ Analyze \/ Remember \/ Choose \/ Fail \/ Act
    <2>1. UNCHANGED session /\ pc \in {"idle", "analyze", "remember", "choose", "fail", "act"}
          /\ pc' \in {"receive", "remember", "choose", "fail", "act", "observe", "context",
                     "returned", "raised"}
      BY <1>10 DEF Start, Analyze, Remember, Choose, Fail, Act, Stopped, Conclude
    <2> QED BY <2>1, TalkUntouched
  <1>11. CASE SchemaContext \/ BuildPlan \/ ApproveQuery \/ QueryDatabase \/ RecordExplanation
    <2>1. UNCHANGED session /\ pc \in {"context", "plan", "query", "database", "explain"}
          /\ pc' \in {"context", "plan", "query", "database", "explain", "observe"}
      BY <1>11 DEF SchemaContext, BuildPlan, ApproveQuery, QueryDatabase, RecordExplanation
    <2> QED BY <2>1, TalkUntouched
  <1>12. CASE Observe \/ FinalAnswer \/ ShadowPlan \/ ExecutePlan \/ Complete \/ Return \/ Raise
    <2>1. UNCHANGED session
          /\ pc \in {"observe", "answer", "shadow", "execute", "finish", "returned", "raised"}
          /\ pc' \in {"answer", "shadow", "execute", "compress", "returned", "idle"}
      BY <1>12 DEF Observe, FinalAnswer, ShadowPlan, ExecutePlan, Complete, Return, Raise, Stopped,
                  Conclude
    <2> QED BY <2>1, TalkUntouched
  <1>13. CASE AddMessage
    <2>1. /\ pc = "converse" /\ pc' = "analyze" /\ sent' = sent
          /\ conversation' = Append(conversation, sent) /\ UNCHANGED <<saved, kept, lost>>
      BY <1>13 DEF AddMessage
    <2>2. sent - 1 \in Nat /\ (sent - 1) + 1 = sent /\ Fits(conversation, sent - 1, lost)
      BY <2>1 DEF TalkFits, Heard
    <2>3. Fits(Append(conversation, sent), sent, lost)
      BY <2>2, FitsAppended
    <2> QED BY <2>1, <2>3, TalkChanges
  <1> QED BY <1>1, <1>2, <1>3, <1>4, <1>5, <1>6, <1>7, <1>8, <1>9, <1>10, <1>11, <1>12, <1>13
          DEF Next, Step

(* The conversation that a turn sees is in order and has no holes but what *)
(* died with a process or could not be recorded on its receipt, however    *)
(* often it is compressed, saved, torn by a crash and loaded again.        *)
THEOREM ConversationsAreWhole == Spec => []ConversationIsWhole
  <1>1. Init => RecordsFit /\ TalkFits
    BY RecordsInitially, TalkInitially
  <1>2. RecordsFit /\ TalkFits /\ [Next]_vars => (RecordsFit /\ TalkFits)'
    BY RecordsStep, TalkStep
  <1>3. ASSUME TalkFits PROVE ConversationIsWhole
    <2>1. conversation \in Seq(Nat \ {0}) /\ Rises(conversation, lost)
      BY <1>3 DEF TalkFits, Rises
    <2>2. \A i \in 1..Len(conversation) - 1 :
             /\ conversation[i] < conversation[i + 1]
             /\ conversation[i] + 1 .. conversation[i + 1] - 1 \subseteq lost
      <3> SUFFICES ASSUME NEW i \in 1..Len(conversation) - 1
                   PROVE  conversation[i] < conversation[i + 1]
        BY <2>1 DEF Rises
      <3>1. /\ i \in 1..Len(conversation) /\ i + 1 \in 1..Len(conversation)
            /\ conversation[i] \in Nat /\ conversation[i + 1] \in Nat
        BY <2>1
      <3>2. conversation[i] + ((i + 1) - i) <= conversation[i + 1]
        BY <2>1, <3>1 DEF Rises
      <3> QED BY <3>1, <3>2
    <2>3. ASSUME pc # "dead", NEW m \in 1..sent, m > sent - (Threshold \div 2)
          PROVE  \/ m \in lost \/ (m = sent /\ pc = "converse")
                 \/ \E i \in DOMAIN conversation : conversation[i] = m
      <3>1. HasNewest(conversation, Heard, lost) /\ sent \in Nat
        BY <1>3, <2>3 DEF TalkFits, Fits
      <3>2. CASE m = sent /\ pc = "converse"
        BY <3>2
      <3>3. CASE ~ (m = sent /\ pc = "converse")
        <4>1. m \in 1..Heard /\ m > Heard - Window
          BY <2>3, <3>1, <3>3, WindowFits DEF Heard, Window
        <4>2. m \in lost \/ \E i \in 1..Len(conversation) : conversation[i] = m
          BY <3>1, <4>1 DEF HasNewest
        <4> QED BY <2>1, <4>2
      <3> QED BY <3>2, <3>3
    <2> QED BY <1>3, <2>2, <2>3 DEF TalkFits, ConversationIsWhole
  <1> QED BY <1>1, <1>2, <1>3, PTL DEF Spec
-----------------------------------------------------------------------------
(* Types, as far as the invariants above do not give them.                 *)
LEMMA ActionType ==
    ASSUME NEW q, NEW provided, NEW c \in ModelChoices(provided, Intent(q))
    PROVE  c.action \in Actions
  <1>1. Baseline(Intent(q)) \in Actions
    <2>1. Baseline(Intent(q)).kind \in Kinds
      BY BaselineIsAllowed, AllowedIsSafe
    <2> DEFINE b == Baseline(Intent(q))
               s == b.kind \in {"ask_clarification", "inspect_schema"}
    <2>2. b = [kind |-> b.kind, schema |-> s]
      BY DEF Baseline
    <2>3. s \in BOOLEAN
      OBVIOUS
    <2>4. b.kind \in Kinds
      BY <2>1
    <2> HIDE DEF b, s
    <2>5. b \in [kind : Kinds, schema : BOOLEAN]
      BY <2>2, <2>3, <2>4
    <2> QED BY <2>5 DEF Actions, b
  <1>2. ASSUME NEW proposal \in Proposals PROVE Validated(proposal, Intent(q)) \in Actions
    <2>1. CASE proposal.kind \notin AllowedKinds(Intent(q))
      BY <1>1, <2>1 DEF Validated
    <2>2. CASE proposal.kind \in AllowedKinds(Intent(q))
      <3> DEFINE s == IF proposal.context = "untouched" THEN Baseline(Intent(q)).schema
                      ELSE proposal.context = "schema"
      <3>1. s \in BOOLEAN
        BY <1>1 DEF Actions
      <3>2. Validated(proposal, Intent(q)) = [kind |-> proposal.kind, schema |-> s]
        BY <2>2 DEF Validated
      <3>3. proposal.kind \in Kinds
        BY <2>2, AllowedIsSafe
      <3> HIDE DEF s
      <3> QED BY <3>1, <3>2, <3>3 DEF Actions
    <2> QED BY <2>1, <2>2
  <1>3. CASE provided = "mock"
    BY <1>1, <1>3 DEF ModelChoices
  <1>4. CASE provided # "mock"
    <2>1. PICK r \in Replies, s \in Replies, proposal \in Proposals :
             c = [reply |-> Transported(provided, r, s), action |-> Validated(proposal, Intent(q))]
      BY <1>4 DEF ModelChoices
    <2>2. c.action = Validated(proposal, Intent(q))
      BY <2>1
    <2> QED BY <1>2, <2>2
  <1> QED BY <1>3, <1>4

PlanTypes == [status : {"none", "planned", "blocked", "clarification_required"},
              pattern : Patterns \cup {NoPattern}]

LEMMA PlanType == ASSUME NEW q PROVE Plan(q) \in PlanTypes
  <1>1. Pattern(q.words) \in Patterns \cup {NoPattern}
    <2>1. CASE Subject(q.words) = "none" \/ "revenue" \notin q.words \/ Grain(q.words) = "none"
      BY <2>1 DEF Pattern
    <2>2. CASE ~ (Subject(q.words) = "none" \/ "revenue" \notin q.words \/ Grain(q.words) = "none")
      <3>1. Subject(q.words) \in {"promotion", "channel", "product"}
        BY <2>2 DEF Subject
      <3>2. Grain(q.words) \in {"day", "month"}
        BY <2>2 DEF Grain
      <3>3. (IF Subject(q.words) = "promotion" /\ "subcategory" \in q.words
             THEN "subcategory" ELSE "category") \in {"category", "subcategory"}
        OBVIOUS
      <3> QED BY <2>2, <3>1, <3>2, <3>3 DEF Pattern, Patterns
    <2> QED BY <2>1, <2>2
  <1> DEFINE p == Pattern(q.words)
  <1>2. Plan(q) \in {Refused("clarification_required"), Refused("blocked"),
                     [status |-> "planned", pattern |-> p]}
    BY DEF Plan
  <1> HIDE DEF p
  <1>3. p \in Patterns \cup {NoPattern}
    BY <1>1 DEF p
  <1> QED BY <1>2, <1>3 DEF Refused, PlanTypes

TurnTypes ==
    /\ provider \in Providers /\ maxSteps \in Budgets /\ allowReal \in BOOLEAN
    /\ question \in Asked \cup {NoQuestion} /\ action \in Actions \cup {NoAction}
    /\ plan \in PlanTypes
    /\ explanation \in {"none", "succeeded", "rejected"}
    /\ answer \in Answers /\ output \in Outputs \cup {"none"}

LEMMA TurnInitially == ASSUME Init PROVE TurnTypes
  BY DEF Init, TurnTypes, PlanTypes, Nothing, Refused, Answers

LEMMA TurnStep == ASSUME TurnTypes, [Next]_vars PROVE TurnTypes'
  <1> USE DEF TurnTypes, Goto, settings, turn, files, session, stopping, calls
  <1>1. CASE Choose
    <2>1. PICK c \in ModelChoices(provider, Intent(question)) : action' \in {c.action, action}
      BY <1>1 DEF Choose
    <2>2. UNCHANGED <<settings, question, plan, explanation, answer, output>>
      BY <1>1 DEF Choose
    <2> QED BY <2>1, <2>2, ActionType
  <1>2. CASE BuildPlan
    BY <1>2, PlanType DEF BuildPlan
  <1>3. CASE QueryDatabase
    BY <1>3 DEF QueryDatabase, Explained
  <1>4. CASE FinalAnswer
    <2>1. Answer(action, plan, explanation) \in Answers
      BY DEF Answer, Answers
    <2> QED BY <1>4, <2>1 DEF FinalAnswer, Stopped, Conclude
  <1>5. CASE Return \/ Raise \/ Exit \/ Crash
    <2>1. Nothing \in PlanTypes
      BY DEF Nothing, Refused, PlanTypes
    <2> QED BY <1>5, <2>1 DEF Return, Raise, Exit, Crash, Dies, Forgotten, Answers
  <1>6. CASE Start \/ WriteFails
    BY <1>6 DEF Start, WriteFails
  <1>7. UNCHANGED <<settings, turn, output>> \/ Choose \/ BuildPlan \/ QueryDatabase \/ FinalAnswer
        \/ Return \/ Raise \/ Exit \/ Crash \/ Start \/ WriteFails
    BY DEF Next, Step, Receive, AddMessage, Analyze, Remember, Fail, Act, SchemaContext, ApproveQuery,
           RecordExplanation, Observe, ShadowPlan, ExecutePlan, Compress, Complete, Stopped,
           Conclude, Write, Cancel, TimePasses, Save, OpenMessages, WriteMessages, OpenState,
           WriteState, Load, vars
  <1> QED BY <1>1, <1>2, <1>3, <1>4, <1>5, <1>6, <1>7

FlagTypes == cancelled \in BOOLEAN /\ expired \in BOOLEAN

LEMMA FlagStep == ASSUME FlagTypes, [Next]_vars PROVE FlagTypes'
  <1>1. CASE Cancel
    <2>1. cancelled' = TRUE /\ expired' = expired
      BY <1>1, Zenon DEF Cancel
    <2> QED BY <2>1, Zenon DEF FlagTypes
  <1>2. CASE TimePasses
    <2>1. expired' = TRUE /\ cancelled' = cancelled
      BY <1>2, Zenon DEF TimePasses
    <2> QED BY <2>1, Zenon DEF FlagTypes
  <1>3. CASE Return \/ Raise \/ Exit \/ Crash
    <2>1. cancelled' = FALSE /\ expired' = FALSE
      BY <1>3, Zenon DEF Return, Raise, Exit, Crash, Dies, Forgotten
    <2> QED BY <2>1, Zenon DEF FlagTypes
  <1>4. UNCHANGED <<cancelled, expired>> \/ Cancel \/ TimePasses \/ Return \/ Raise \/ Exit \/ Crash
    BY DEF Next, Step, Start, Receive, AddMessage, Analyze, Remember, Choose, Fail, Act,
           SchemaContext, BuildPlan,
           ApproveQuery, QueryDatabase, RecordExplanation, Observe, FinalAnswer, ShadowPlan,
           ExecutePlan, Compress, Complete, Stopped, Conclude, Write, WriteFails, Save,
           OpenMessages, WriteMessages, OpenState, WriteState, Load, stopping, vars
  <1>5. CASE UNCHANGED <<cancelled, expired>>
    <2>1. cancelled' = cancelled /\ expired' = expired
      BY <1>5, Zenon
    <2> QED BY <2>1, Zenon DEF FlagTypes
  <1> QED BY <1>1, <1>2, <1>3, <1>4, <1>5

AttemptTypes ==
    /\ tried \in 0..ToolAttempts
    /\ pc \in {"choose", "act"} \cup Outside \cup Early => tried = 0
    /\ pc = "context" => tried < ToolAttempts

LEMMA AttemptStep == ASSUME AttemptTypes, [Next]_vars PROVE AttemptTypes'
  <1> USE BoundAssumption DEF AttemptTypes, Outside, Early
  <1>1. CASE SchemaContext
    <2>1. tried \in Nat /\ tried < ToolAttempts /\ tried' = tried + 1
      BY <1>1 DEF SchemaContext
    <2>2. /\ pc' \in {"plan", "context", "observe"}
          /\ pc' = "context" => tried' < ToolAttempts
      BY <1>1 DEF SchemaContext
    <2> QED BY <2>1, <2>2
  <1>2. CASE Return \/ Raise \/ Exit \/ Crash
    BY <1>2 DEF Return, Raise, Exit, Crash, Dies, Forgotten
  <1>3. CASE Write \/ WriteFails \/ Cancel \/ TimePasses \/ UNCHANGED vars
    BY <1>3 DEF Write, WriteFails, Cancel, TimePasses, calls, vars
  <1>4. CASE Start \/ Receive \/ AddMessage \/ Analyze \/ Remember \/ Choose \/ Fail \/ Act
             \/ Save \/ Load
    <2>1. pc \in {"choose", "act"} \cup Outside \cup Early /\ tried' = tried
      BY <1>4 DEF Start, Receive, AddMessage, Analyze, Remember, Choose, Fail, Act, Stopped,
                  Save, OpenMessages, WriteMessages, OpenState, WriteState, Load, Goto, calls
    <2> QED BY <2>1
  <1>5. CASE BuildPlan \/ ApproveQuery \/ QueryDatabase \/ RecordExplanation \/ Observe
             \/ FinalAnswer \/ ShadowPlan \/ ExecutePlan \/ Compress \/ Complete
    <2>1. tried' = tried /\ pc' \notin {"choose", "act", "context"} \cup Outside \cup Early
      BY <1>5 DEF BuildPlan, ApproveQuery, QueryDatabase, RecordExplanation, Observe, FinalAnswer,
                  ShadowPlan, ExecutePlan, Compress, Complete, Stopped, Conclude, Goto, calls
    <2> QED BY <2>1
  <1> QED BY <1>1, <1>2, <1>3, <1>4, <1>5 DEF Next, Step

LEMMA TroubleStep ==
    ASSUME troubles \in 0..MaxTroubles, [Next]_vars PROVE troubles' \in 0..MaxTroubles
  <1>1. UNCHANGED troubles \/ Trouble
    BY DEF Next, Step, Start, Receive, AddMessage, Analyze, Remember, Choose, Fail, Act,
           SchemaContext, BuildPlan,
           ApproveQuery, QueryDatabase, RecordExplanation, Observe, FinalAnswer, ShadowPlan,
           ExecutePlan, Compress, Complete, Return, Raise, Stopped, Conclude, Write, WriteFails,
           Cancel, TimePasses, Save, OpenMessages, WriteMessages, OpenState, WriteState, Exit,
           Crash, Load, stopping, vars
  <1> QED BY <1>1, BoundAssumption DEF Trouble

StatusTypes == [state : Outcomes \cup {"none", "torn"}, count : Nat]

LEMMA StatusStep ==
    ASSUME status \in StatusTypes, RecordsFit, [Next]_vars PROVE status' \in StatusTypes
  <1>1. CASE Write
    <2>1. status' \in {status, Torn, [state |-> outcome, count |-> counted]}
      BY <1>1 DEF Write
    <2>2. outcome \in Outcomes /\ counted \in Nat
      BY DEF RecordsFit, FilesFit
    <2>3. Torn \in StatusTypes
      BY DEF Torn, StatusTypes
    <2>4. [state |-> outcome, count |-> counted] \in StatusTypes
      BY <2>2 DEF StatusTypes
    <2> QED BY <2>1, <2>3, <2>4
  <1>2. CASE Start
    <2>1. status' = NoStatus
      BY <1>2 DEF Start
    <2> QED BY <2>1 DEF NoStatus, StatusTypes
  <1>3. status' = status \/ Write \/ Start
    BY DEF Next, Step, Receive, AddMessage, Analyze, Remember, Choose, Fail, Act, SchemaContext,
           BuildPlan,
           ApproveQuery, QueryDatabase, RecordExplanation, Observe, FinalAnswer, ShadowPlan,
           ExecutePlan, Compress, Complete, Return, Raise, Stopped, Conclude, WriteFails, Cancel,
           TimePasses, Save, OpenMessages, WriteMessages, OpenState, WriteState, Exit, Crash, Dies,
           Load, files, vars
  <1> QED BY <1>1, <1>2, <1>3

CountTypes ==
    FlagTypes /\ AttemptTypes /\ troubles \in 0..MaxTroubles /\ status \in StatusTypes

LEMMA CountInitially == ASSUME Init PROVE CountTypes
  <1>1. FlagTypes
    <2>1. cancelled = FALSE /\ expired = FALSE
      BY Zenon DEF Init
    <2> QED BY <2>1, Zenon DEF FlagTypes
  <1>2. AttemptTypes /\ troubles \in 0..MaxTroubles
    <2>1. tried = 0 /\ troubles = 0
      BY DEF Init
    <2> QED BY <2>1, BoundAssumption DEF AttemptTypes
  <1>3. status \in StatusTypes
    <2>1. status = NoStatus
      BY DEF Init
    <2> QED BY <2>1 DEF NoStatus, StatusTypes
  <1> QED BY <1>1, <1>2, <1>3 DEF CountTypes

LEMMA CountStep == ASSUME CountTypes, RecordsFit, [Next]_vars PROVE CountTypes'
  <1>1. FlagTypes'
    BY FlagStep DEF CountTypes
  <1>2. AttemptTypes'
    BY AttemptStep DEF CountTypes
  <1>3. troubles' \in 0..MaxTroubles
    BY TroubleStep DEF CountTypes
  <1>4. status' \in StatusTypes
    BY StatusStep DEF CountTypes
  <1> QED BY <1>1, <1>2, <1>3, <1>4 DEF CountTypes

TalkTypes ==
    /\ lost \subseteq 1..sent
    /\ saved \in [messages : Seq(Nat), state : {"missing", "torn", "whole"}]

LEMMA TalkTypesInitially == ASSUME Init PROVE TalkTypes
  BY DEF Init, TalkTypes

LEMMA TalkTypesStep ==
    ASSUME TalkTypes, TalkFits, [Next]_vars
    PROVE  TalkTypes'
  <1> USE DEF Goto, settings, turn, files, session, stopping, calls
  <1>1. conversation \in Seq(Nat) /\ sent \in Nat /\ kept \in 0..sent
    <2>1. conversation \in Seq(Nat \ {0})
      BY DEF TalkFits, Rises
    <2>2. \A c : c \in Seq(Nat \ {0}) => c \in Seq(Nat)
      OBVIOUS
    <2> QED BY <2>1, <2>2 DEF TalkFits
  <1>2. CASE Exit
    <2>1. saved' = saved /\ sent' = sent /\ lost' \subseteq lost \cup 1..sent
      BY <1>1, <1>2 DEF Exit, Dies
    <2> QED BY <2>1 DEF TalkTypes
  <1>3. CASE Crash
    <2>1. sent' = sent /\ lost' \subseteq lost \cup 1..sent
      BY <1>1, <1>3 DEF Crash, Dies
    <2>2. CASE pc = "write_messages"
      <3>1. PICK n \in 0..Len(conversation), tail \in {<<>>, <<TornLine>>} :
               saved' = [saved EXCEPT !.messages = SubSeq(conversation, 1, n) \o tail]
        BY <1>3, <2>2 DEF Crash
      <3>2. tail \in Seq(Nat)
        <4>1. <<>> \in Seq(Nat) /\ <<0>> \in Seq(Nat)
          OBVIOUS
        <4>2. tail = <<>> \/ tail = <<0>>
          BY <3>1 DEF TornLine
        <4> QED BY <4>1, <4>2
      <3>3. SubSeq(conversation, 1, n) \in Seq(Nat)
        BY <1>1
      <3>4. SubSeq(conversation, 1, n) \o tail \in Seq(Nat)
        BY <3>2, <3>3
      <3> QED BY <2>1, <3>1, <3>4 DEF TalkTypes
    <2>3. CASE pc # "write_messages"
      BY <1>3, <2>1, <2>3 DEF Crash, TalkTypes
    <2> QED BY <2>2, <2>3
  <1>4. CASE Receive
    <2>1. saved' = saved /\ lost' = lost /\ sent' \in {sent, sent + 1}
      BY <1>4 DEF Receive, Stopped
    <2> QED BY <1>1, <2>1 DEF TalkTypes
  <1>5. CASE Save
    <2>1. saved' \in {[saved EXCEPT !.messages = <<>>], [saved EXCEPT !.messages = conversation],
                      [saved EXCEPT !.state = "torn"], [saved EXCEPT !.state = "whole"]}
          /\ UNCHANGED <<sent, lost>>
      BY <1>5 DEF Save, OpenMessages, WriteMessages, OpenState, WriteState
    <2>2. <<>> \in Seq(Nat)
      OBVIOUS
    <2> QED BY <1>1, <2>1, <2>2 DEF TalkTypes
  <1>6. CASE WriteFails
    <2>1. pc = "converse" => sent \in 1..sent
      BY <1>1 DEF TalkFits
    <2> QED BY <1>6, <2>1 DEF WriteFails, TalkTypes
  <1>7. \/ UNCHANGED <<sent, lost, saved>>
        \/ Exit \/ Crash \/ Receive \/ Save \/ WriteFails
    BY DEF Next, Step, Start, AddMessage, Analyze, Remember, Choose, Fail, Act,
           SchemaContext, BuildPlan, ApproveQuery, QueryDatabase, RecordExplanation, Observe,
           FinalAnswer, ShadowPlan, ExecutePlan, Compress, Complete, Return, Raise, Stopped,
           Conclude, Write, Cancel, TimePasses, Load, vars
  <1> QED BY <1>2, <1>3, <1>4, <1>5, <1>6, <1>7 DEF TalkTypes

(* Every variable of the loop, of its files and of the conversation keeps  *)
(* its type.                                                               *)
THEOREM TypeCorrect == Spec => []TypeOK
  <1> DEFINE Types == /\ StepsFit /\ StopFits /\ LocalsFit /\ RecordsFit /\ TalkFits
                      /\ TurnTypes /\ CountTypes /\ TalkTypes
  <1>1. Init => Types
    BY StepsInitially, StopInitially, LocalsInitially, RecordsInitially, TalkInitially, TurnInitially,
       CountInitially, TalkTypesInitially
  <1>2. Types /\ [Next]_vars => Types'
    BY StepsStep, StopStep, LocalsStep, RecordsStep, TalkStep, TurnStep, CountStep, TalkTypesStep
  <1>3. ASSUME Types PROVE TypeOK
    <2>1. /\ pc \in Steps \cup {"idle", "dead", "write_messages", "open_state", "write_state"}
          /\ stoppedAt \in Steps \cup {"none"} /\ late \in Nat
      BY <1>3 DEF StopFits, Outside
    <2>2. writes \in Seq({"line", "truncate", "fill", "audit", "verdict", "reported"})
      <3>1. CASE pc \in Working
        BY <1>3, <3>1 DEF RecordsFit, WritesFit, Plain, WriteKinds
      <3>2. CASE pc = "returned"
        <4>1. <<>> \in Seq(WriteKinds) /\ <<"verdict">> \in Seq(WriteKinds)
          BY DEF WriteKinds
        <4> QED BY <1>3, <3>2, <4>1 DEF RecordsFit, WritesFit, Final, WriteKinds
      <3>3. CASE pc \in Resting
        BY <1>3, <3>3 DEF RecordsFit, WritesFit
      <3> QED BY <1>3, <3>1, <3>2, <3>3 DEF RecordsFit, FilesFit
    <2>3. conversation \in Seq(Nat) /\ sent \in Nat /\ kept \in 0..sent
      <3>1. conversation \in Seq(Nat \ {0})
        BY <1>3 DEF TalkFits, Rises
      <3>2. \A c : c \in Seq(Nat \ {0}) => c \in Seq(Nat)
        OBVIOUS
      <3> QED BY <1>3, <3>1, <3>2 DEF TalkFits
    <2>4. steps \in Nat /\ outcome \in Outcomes /\ counted \in Nat /\ lines \in Nat
          /\ audited \subseteq Outcomes
      BY <1>3 DEF StepsFit, RecordsFit, FilesFit, WritesFit
    <2> QED BY <1>3, <2>1, <2>2, <2>3, <2>4
       DEF TypeOK, TurnTypes, CountTypes, FlagTypes, AttemptTypes, StatusTypes, TalkTypes, PlanTypes
  <1> HIDE DEF Types
  <1> QED BY <1>1, <1>2, <1>3, PTL DEF Spec
-----------------------------------------------------------------------------
(* A run gets somewhere: its steps come in one order, the schema tool's    *)
(* attempts and the troubles are numbered, and a step lists at most eight  *)
(* writes.                                                                 *)
Place ==
    [receive |-> 1, converse |-> 2, analyze |-> 3, remember |-> 4, choose |-> 5, fail |-> 6,
     act |-> 7, context |-> 8, plan |-> 9, query |-> 10, database |-> 11, explain |-> 12,
     observe |-> 13, answer |-> 14, shadow |-> 15, execute |-> 16, compress |-> 17,
     finish |-> 18, returned |-> 19, raised |-> 20]

Onward ==
    \/ Place[pc'] > Place[pc]
    \/ pc' = pc /\ tried' > tried
    \/ UNCHANGED <<pc, tried>> /\ troubles' > troubles
    \/ UNCHANGED <<pc, tried, troubles>> /\ Len(writes') < Len(writes)

RunMoves ==
    pc \in Steps => \/ pc' \in {"idle", "dead"}
                    \/ pc' \in Steps /\ Onward

Scarce == tried <= ToolAttempts /\ troubles <= MaxTroubles /\ Len(writes) <= 8

Few(w) == w \in Seq(WriteKinds) /\ Len(w) <= 8

LEMMA FewWrites ==
    /\ Few(<<>>) /\ Few(Event) /\ Few(Recorded) /\ Few(ToolEvent) /\ Few(Status \o Audit)
    /\ Few(ToolEvent \o ToolEvent) /\ Few(ToolEvent \o Recorded)
    /\ Few(Event \o <<"reported">>) /\ Few(Finished)
  <1> DEFINE Of(w, n) == w \in Seq(WriteKinds) /\ Len(w) = n
  <1>1. ASSUME NEW v, NEW w, NEW m \in Nat, NEW n \in Nat, Of(v, m), Of(w, n)
        PROVE  Of(v \o w, m + n)
    BY <1>1, Joined
  <1>2. Of(<<>>, 0) /\ Of(<<"line">>, 1) /\ Of(<<"verdict">>, 1) /\ Of(<<"reported">>, 1)
        /\ Of(Audit, 1) /\ Of(Status, 2)
    BY DEF WriteKinds, Audit, Status
  <1> HIDE DEF Of
  <1>3. Of(Event, 3) /\ Of(Status \o Audit, 3)
    BY <1>1, <1>2 DEF Event
  <1>4. Of(Event \o Status, 5)
    BY <1>1, <1>2, <1>3
  <1>5. Of(Recorded, 4) /\ Of(ToolEvent, 4) /\ Of(Event \o <<"reported">>, 4) /\ Of(Finished, 6)
    BY <1>1, <1>2, <1>3, <1>4 DEF Recorded, ToolEvent, Finished
  <1>6. Of(ToolEvent \o ToolEvent, 8) /\ Of(ToolEvent \o Recorded, 8)
    BY <1>1, <1>5
  <1>7. ASSUME NEW w, NEW n \in 0..8, Of(w, n) PROVE Few(w)
    BY <1>7 DEF Of, Few
  <1> QED BY <1>2, <1>3, <1>5, <1>6, <1>7

LEMMA FewStep == ASSUME Few(writes), [Next]_vars PROVE Few(writes')
  <1>1. CASE UNCHANGED writes \/ writes' = <<>>
    BY <1>1, FewWrites
  <1>2. CASE Write
    BY <1>2 DEF Write, Few
  <1>3. CASE WriteFails
    BY <1>3, FewWrites DEF WriteFails
  <1>4. CASE Start \/ Receive \/ AddMessage \/ Analyze \/ Remember \/ Choose \/ Fail \/ Act
    BY <1>4, <1>1, FewWrites
    DEF Start, Receive, AddMessage, Analyze, Remember, Choose, Fail, Act, Stopped, Conclude
  <1>5. CASE SchemaContext \/ BuildPlan \/ ApproveQuery \/ QueryDatabase \/ RecordExplanation
             \/ Observe
    BY <1>5, <1>1, FewWrites
    DEF SchemaContext, BuildPlan, ApproveQuery, QueryDatabase, RecordExplanation, Observe
  <1>6. CASE FinalAnswer \/ ShadowPlan \/ ExecutePlan \/ Compress \/ Complete
    BY <1>6, <1>1, FewWrites
    DEF FinalAnswer, ShadowPlan, ExecutePlan, Compress, Complete, Stopped, Conclude
  <1>7. CASE Return \/ Raise \/ Cancel \/ TimePasses \/ Save \/ Exit \/ Crash \/ Load
             \/ UNCHANGED vars
    BY <1>7, <1>1
    DEF Return, Raise, Cancel, TimePasses, Save, OpenMessages, WriteMessages, OpenState,
        WriteState, Exit, Crash, Dies, Load, vars
  <1> QED BY <1>2, <1>3, <1>4, <1>5, <1>6, <1>7 DEF Next, Step

LEMMA MovesOn == ASSUME TypeOK, Few(writes), Next PROVE RunMoves
  <1> SUFFICES ASSUME pc \in Steps PROVE pc' \in {"idle", "dead"} \/ (pc' \in Steps /\ Onward)
    BY DEF RunMoves
  <1> USE DEF Onward, Place, Steps, Goto
  <1>0. tried \in Nat /\ troubles \in Nat
    BY BoundAssumption DEF TypeOK
  <1>1. CASE Receive \/ AddMessage \/ Analyze \/ Remember \/ Choose \/ Fail \/ Act
    <2>1. \/ pc = "receive" /\ pc' \in {"converse", "returned"}
          \/ pc = "converse" /\ pc' = "analyze"
          \/ pc = "analyze" /\ pc' \in {"remember", "returned"}
          \/ pc = "remember" /\ pc' \in {"choose", "returned"}
          \/ pc = "choose" /\ pc' \in {"act", "fail", "raised"}
          \/ pc = "fail" /\ pc' = "returned"
          \/ pc = "act" /\ pc' \in {"context", "observe", "returned"}
      BY <1>1 DEF Receive, AddMessage, Analyze, Remember, Choose, Fail, Act, Stopped, Conclude
    <2> QED BY <2>1
  <1>2. CASE SchemaContext
    <2>1. pc = "context" /\ pc' \in {"plan", "context", "observe"} /\ tried' = tried + 1
      BY <1>2 DEF SchemaContext
    <2> QED BY <1>0, <2>1
  <1>3. CASE BuildPlan \/ ApproveQuery \/ QueryDatabase \/ RecordExplanation \/ Observe
    BY <1>3 DEF BuildPlan, ApproveQuery, QueryDatabase, RecordExplanation, Observe
  <1>4. CASE FinalAnswer \/ ShadowPlan \/ ExecutePlan \/ Compress \/ Complete
    <2>1. \/ pc = "answer" /\ pc' \in {"shadow", "returned"}
          \/ pc = "shadow" /\ pc' = "execute"
          \/ pc = "execute" /\ pc' = "compress"
          \/ pc = "compress" /\ pc' = "finish"
          \/ pc = "finish" /\ pc' = "returned"
      BY <1>4 DEF FinalAnswer, ShadowPlan, ExecutePlan, Compress, Complete, Stopped, Conclude
    <2> QED BY <2>1
  <1>5. CASE Return \/ Raise \/ Crash
    BY <1>5 DEF Return, Raise, Crash, Dies
  <1>6. CASE Write
    <2>1. UNCHANGED <<pc, tried, troubles>> /\ writes # <<>> /\ writes' = Tail(writes)
      BY <1>6 DEF Write, calls, stopping
    <2>2. Len(writes') < Len(writes)
      BY <2>1 DEF Few
    <2> QED BY <2>1, <2>2
  <1>7. CASE WriteFails
    <2>1. /\ pc' \in {pc, "raised"} /\ tried' = tried /\ troubles' = troubles + 1
          /\ writes # <<>>
      BY <1>7 DEF WriteFails, Trouble, calls
    <2> QED BY <1>0, <2>1
  <1>8. CASE Cancel \/ TimePasses
    <2>1. UNCHANGED <<pc, tried>> /\ troubles' = troubles + 1
      BY <1>8 DEF Cancel, TimePasses, Trouble, calls
    <2> QED BY <1>0, <2>1
  <1>9. ~ Start /\ ~ Save /\ ~ Exit /\ ~ Load
    BY DEF Start, Save, OpenMessages, WriteMessages, OpenState, WriteState, Exit, Load
  <1> QED BY <1>1, <1>2, <1>3, <1>4, <1>5, <1>6, <1>7, <1>8, <1>9 DEF Next, Step

(* A run ends or gets somewhere with every step: it goes to a later step,  *)
(* or tries the schema tool once more, or has one trouble more, or has one *)
(* write less before it, and there is an end to each of these.  So no      *)
(* choice of the model, no failure and no cancellation makes it go round.  *)
THEOREM RunsGetSomewhere == Spec => [][RunMoves]_vars /\ []Scarce
  <1>1. Init => Few(writes)
    BY FewWrites DEF Init
  <1>2. Few(writes) /\ [Next]_vars => Few(writes)'
    BY FewStep
  <1>3. TypeOK /\ Few(writes) /\ [Next]_vars => [RunMoves]_vars
    BY MovesOn
  <1>4. TypeOK /\ Few(writes) => Scarce
    BY BoundAssumption DEF TypeOK, Few, Scarce
  <1> QED BY <1>1, <1>2, <1>3, <1>4, TypeCorrect, PTL DEF Spec
-----------------------------------------------------------------------------
(* The plan of a question, as a function: its tables are ranked by a total *)
(* order, and the best n of them are at most n.                            *)
LEMMA SomeLeast ==
    ASSUME NEW S \in SUBSET Nat, S # {}
    PROVE  \E i \in S : \A j \in S : i <= j
  <1> DEFINE R == {ss \in Nat \X Nat : ss[1] < ss[2]}
  <1>1. IsWellFoundedOn(R, Nat)
    BY NatLessThanWellFounded DEF OpToRel
  <1>2. PICK i \in S : \A j \in S : ~ (<<j, i>> \in R)
    <2> HIDE DEF R
    <2> QED BY <1>1, WFMin
  <1>3. \A j \in S : ~ (j < i)
    BY <1>2
  <1> QED BY <1>3

LEMMA SevenTables == IsFiniteSet(Tables) /\ Cardinality(Tables) = 7
  <1> DEFINE T2 == {"sales", "customers"}
             T3 == T2 \cup {"channels"}
             T4 == T3 \cup {"products"}
             T5 == T4 \cup {"promotions"}
             T6 == T5 \cup {"times"}
  <1>1. IsFiniteSet(T2) /\ Cardinality(T2) = 2
    <2>1. IsFiniteSet({"sales"}) /\ Cardinality({"sales"}) = 1
      BY FS_Singleton
    <2>2. T2 = {"sales"} \cup {"customers"} /\ "customers" \notin {"sales"}
      OBVIOUS
    <2> HIDE DEF T2
    <2> QED BY <2>1, <2>2, FS_AddElement
  <1>2. IsFiniteSet(T3) /\ Cardinality(T3) = 3
    BY <1>1, FS_AddElement
  <1>3. IsFiniteSet(T4) /\ Cardinality(T4) = 4
    BY <1>2, FS_AddElement
  <1>4. IsFiniteSet(T5) /\ Cardinality(T5) = 5
    BY <1>3, FS_AddElement
  <1>5. IsFiniteSet(T6) /\ Cardinality(T6) = 6
    BY <1>4, FS_AddElement
  <1>6. Tables = T6 \cup {"countries"} /\ "countries" \notin T6
    BY DEF Tables
  <1> HIDE DEF T6
  <1> QED BY <1>5, <1>6, FS_AddElement

LEMMA PositionsDiffer ==
    \A s, t \in Tables : Position(s) \in Nat /\ (Position(s) = Position(t) => s = t)
  <1>1. \A t \in Tables : \E i \in DOMAIN TieOrder : TieOrder[i] = t
    <2>1. /\ DOMAIN TieOrder = 1..7 /\ TieOrder[1] = "sales" /\ TieOrder[2] = "customers"
          /\ TieOrder[3] = "channels" /\ TieOrder[4] = "products" /\ TieOrder[5] = "promotions"
          /\ TieOrder[6] = "times" /\ TieOrder[7] = "countries"
      BY DEF TieOrder
    <2>2. {1, 2, 3, 4, 5, 6, 7} \subseteq DOMAIN TieOrder
      BY <2>1
    <2> QED BY <2>1, <2>2 DEF Tables
  <1>2. DOMAIN TieOrder \subseteq Nat
    BY DEF TieOrder
  <1>3. \A t \in Tables : Position(t) \in DOMAIN TieOrder /\ TieOrder[Position(t)] = t
    BY <1>1 DEF Position
  <1> QED BY <1>2, <1>3

LEMMA BetterIsTotal ==
    ASSUME NEW scores \in [Tables -> Nat], NEW s \in Tables, NEW t \in Tables
    PROVE  /\ ~ Better(s, s, scores)
           /\ s = t \/ Better(s, t, scores) \/ Better(t, s, scores)
           /\ \A u \in Tables :
                 Better(s, t, scores) /\ Better(t, u, scores) => Better(s, u, scores)
           /\ Better(s, t, scores) => scores[s] >= scores[t]
           /\ scores[s] > scores[t] => Better(s, t, scores)
  <1>1. \A u \in Tables : scores[u] \in Nat /\ Position(u) \in Nat
    BY PositionsDiffer
  <1>2. Position(s) = Position(t) => s = t
    BY PositionsDiffer
  <1>3. \A u \in Tables :
            Better(s, t, scores) /\ Better(t, u, scores) => Better(s, u, scores)
    BY <1>1 DEF Better
  <1>4. s = t \/ Better(s, t, scores) \/ Better(t, s, scores)
    BY <1>1, <1>2 DEF Better
  <1> QED BY <1>1, <1>3, <1>4 DEF Better

(* How many of S are better than t.                                        *)
Rank(t, S, scores) == Cardinality({s \in S : Better(s, t, scores)})

LEMMA RankRises ==
    ASSUME NEW scores \in [Tables -> Nat], NEW S \in SUBSET Tables,
           NEW t \in Tables, NEW u \in Tables
    PROVE  /\ Rank(t, S, scores) \in 0..7
           /\ t \in S /\ Better(t, u, scores) => Rank(t, S, scores) < Rank(u, S, scores)
  <1> DEFINE Above(x) == {s \in S : Better(s, x, scores)}
  <1>1. \A T \in SUBSET Tables : IsFiniteSet(T) /\ Cardinality(T) \in 0..7
    BY SevenTables, FS_Subset, FS_CardinalityType
  <1>2. Above(t) \in SUBSET Tables /\ Above(u) \in SUBSET Tables
    OBVIOUS
  <1>3. Rank(t, S, scores) = Cardinality(Above(t)) /\ Rank(u, S, scores) = Cardinality(Above(u))
    BY DEF Rank
  <1>4. ASSUME t \in S, Better(t, u, scores)
        PROVE  Cardinality(Above(t)) < Cardinality(Above(u))
    <2>1. t \notin Above(t) /\ Above(t) \cup {t} \subseteq Above(u)
      BY <1>4, BetterIsTotal
    <2> HIDE DEF Above
    <2>2. IsFiniteSet(Above(t)) /\ Cardinality(Above(t) \cup {t}) = Cardinality(Above(t)) + 1
      BY <1>1, <1>2, <2>1, FS_AddElement
    <2>3. Cardinality(Above(t) \cup {t}) <= Cardinality(Above(u))
      BY <1>1, <1>2, <2>1, FS_Subset
    <2>4. Cardinality(Above(t)) \in 0..7 /\ Cardinality(Above(u)) \in 0..7
      BY <1>1, <1>2
    <2> QED BY <2>2, <2>3, <2>4
  <1> HIDE DEF Above
  <1> QED BY <1>1, <1>2, <1>3, <1>4

LEMMA WorstOf ==
    ASSUME NEW scores \in [Tables -> Nat], NEW S \in SUBSET Tables, S # {}
    PROVE  \E t \in S : \A s \in S : s = t \/ Better(s, t, scores)
  <1> DEFINE Rk(t) == Rank(t, S, scores)  R == {7 - Rk(t) : t \in S}
  <1>1. \A t \in S : Rk(t) \in 0..7
    BY RankRises
  <1>2. R \in SUBSET Nat /\ R # {}
    <2> HIDE DEF Rk
    <2> QED BY <1>1
  <1>3. \E i \in R : \A j \in R : i <= j
    <2> HIDE DEF R
    <2> QED BY <1>2, SomeLeast
  <1>4. PICK t \in S : \A u \in S : 7 - Rk(t) <= 7 - Rk(u)
    BY <1>3
  <1>5. \A u \in S : Rk(u) <= Rk(t)
    <2> HIDE DEF Rk
    <2> QED BY <1>1, <1>4
  <1>6. ASSUME NEW s \in S PROVE s = t \/ Better(s, t, scores)
    <2>1. Better(t, s, scores) => Rk(t) < Rk(s)
      BY RankRises
    <2>2. Rk(s) <= Rk(t) /\ Rk(s) \in 0..7 /\ Rk(t) \in 0..7
      BY <1>1, <1>5
    <2> HIDE DEF Rk
    <2>3. ~ Better(t, s, scores)
      BY <2>1, <2>2
    <2> QED BY <2>3, BetterIsTotal
  <1> QED BY <1>6

LEMMA BestExists ==
    ASSUME NEW scores \in [Tables -> Nat]
    PROVE  \E t \in Best(scores) : \A u \in Tables : ~ Better(u, t, scores)
  <1> DEFINE Rk(t) == Rank(t, Tables, scores)  R == {Rk(t) : t \in Tables}
  <1>1. \A t \in Tables : Rk(t) \in 0..7
    BY RankRises
  <1>2. R \in SUBSET Nat /\ R # {}
    <2> HIDE DEF Rk
    <2> QED BY <1>1 DEF Tables
  <1>3. \E i \in R : \A j \in R : i <= j
    <2> HIDE DEF R
    <2> QED BY <1>2, SomeLeast
  <1>4. PICK t \in Tables : \A u \in Tables : Rk(t) <= Rk(u)
    BY <1>3
  <1>5. ASSUME NEW u \in Tables PROVE ~ Better(u, t, scores)
    <2>1. Better(u, t, scores) => Rk(u) < Rk(t)
      BY RankRises
    <2>2. Rk(t) <= Rk(u) /\ Rk(u) \in 0..7 /\ Rk(t) \in 0..7
      BY <1>1, <1>4
    <2> HIDE DEF Rk
    <2> QED BY <2>1, <2>2
  <1>6. \A u \in Tables : scores[u] <= scores[t]
    BY <1>5, BetterIsTotal
  <1> QED BY <1>5, <1>6 DEF Best

LEMMA FirstAreFew ==
    ASSUME NEW scores \in [Tables -> Nat], NEW S \in SUBSET Tables, NEW n \in Nat
    PROVE  /\ First(n, S, scores) \subseteq S
           /\ IsFiniteSet(First(n, S, scores)) /\ Cardinality(First(n, S, scores)) \in 0..n
  <1> DEFINE F == First(n, S, scores)
  <1>1. F \subseteq S
    BY DEF First
  <1>2. IsFiniteSet(F) /\ Cardinality(F) \in Nat
    <2> HIDE DEF F
    <2> QED BY <1>1, SevenTables, FS_Subset, FS_CardinalityType
  <1>3. CASE F = {}
    <2> HIDE DEF F
    <2>1. Cardinality(F) = 0
      BY <1>3, FS_EmptySet
    <2> QED BY <1>1, <1>2, <2>1 DEF F
  <1>4. CASE F # {}
    <2>1. F \in SUBSET Tables
      BY <1>1
    <2>2. PICK t \in F : \A s \in F : s = t \/ Better(s, t, scores)
      <3> HIDE DEF F
      <3> QED BY <1>4, <2>1, WorstOf
    <2> DEFINE A == {s \in S : Better(s, t, scores)}
    <2>3. Cardinality(A) < n
      BY <2>2 DEF First
    <2>4. F \ {t} \subseteq A
      BY <1>1, <2>2
    <2>5. A \in SUBSET Tables
      OBVIOUS
    <2> HIDE DEF F, A
    <2>6. IsFiniteSet(A) /\ Cardinality(A) \in Nat
      BY <2>5, SevenTables, FS_Subset, FS_CardinalityType
    <2>7. Cardinality(F \ {t}) = Cardinality(F) - 1
      BY <1>2, <2>2, FS_RemoveElement
    <2>8. Cardinality(F \ {t}) <= Cardinality(A)
      BY <2>4, <2>6, FS_Subset
    <2>9. Cardinality(F) <= n
      BY <1>2, <2>3, <2>6, <2>7, <2>8
    <2> QED BY <1>1, <1>2, <2>9 DEF F
  <1> QED BY <1>3, <1>4

(* Matched tables and those joined with them fit the context together.     *)
LEMMA SelectedAreFew ==
    ASSUME NEW scores \in [Tables -> Nat]
    PROVE  Cardinality(Selected(scores)) <= TableLimit
  <1> DEFINE S == {t \in Tables : scores[t] >= MinScore}
             M == Matched(scores)
             E == Expansion(M)
  <1>1. M \subseteq Tables /\ IsFiniteSet(M) /\ Cardinality(M) \in 0..6
    <2>1. M = First(6, S, scores) /\ S \in SUBSET Tables
      BY DEF Matched, TableLimit
    <2> HIDE DEF M, S
    <2> QED BY <2>1, FirstAreFew
  <1> DEFINE n == Min({RelationshipLimit, TableLimit - Cardinality(M)})
             J == UNION {Joins(t) : t \in M} \ M
  <1>2. n \in Nat /\ n <= 6 - Cardinality(M)
    <2>1. \A a, b \in Nat : Min({a, b}) \in Nat /\ Min({a, b}) <= b
      <3> SUFFICES ASSUME NEW a \in Nat, NEW b \in Nat
                   PROVE  Min({a, b}) \in Nat /\ Min({a, b}) <= b
        OBVIOUS
      <3>1. \E x \in {a, b} : \A y \in {a, b} : x <= y
        BY a <= b \/ b <= a
      <3>2. Min({a, b}) \in {a, b} /\ \A y \in {a, b} : Min({a, b}) <= y
        BY <3>1 DEF Min
      <3> QED BY <3>2
    <2>2. RelationshipLimit \in Nat /\ TableLimit - Cardinality(M) \in Nat
          /\ TableLimit - Cardinality(M) = 6 - Cardinality(M)
      <3> HIDE DEF M
      <3> QED BY <1>1 DEF RelationshipLimit, TableLimit
    <2> HIDE DEF M
    <2> QED BY <2>1, <2>2
  <1>3. J \in SUBSET Tables
    <2>1. \A t \in Tables : Joins(t) \subseteq Tables
      BY DEF Joins, Tables
    <2> HIDE DEF M
    <2> QED BY <1>1, <2>1
  <1>4. IsFiniteSet(E) /\ Cardinality(E) \in 0..n
    <2>1. E = First(n, J, [t \in Tables |-> 10])
      BY DEF Expansion
    <2>2. [t \in Tables |-> 10] \in [Tables -> Nat]
      OBVIOUS
    <2> HIDE DEF E, n, J
    <2> QED BY <1>2, <1>3, <2>1, <2>2, FirstAreFew
  <1>5. Selected(scores) \in {{}, M \cup E}
    BY DEF Selected
  <1> HIDE DEF M, E, n
  <1>6. Cardinality(M \cup E) <= 6
    <2>1. /\ IsFiniteSet(M \cap E) /\ Cardinality(M \cap E) \in Nat
          /\ Cardinality(M \cup E) = Cardinality(M) + Cardinality(E) - Cardinality(M \cap E)
      BY <1>1, <1>4, FS_Union, FS_Intersection, FS_CardinalityType
    <2> QED BY <1>1, <1>2, <1>4, <2>1
  <1> QED BY <1>5, <1>6, FS_EmptySet DEF TableLimit

LEMMA SelectedHaveOneBest ==
    ASSUME NEW scores \in [Tables -> Nat], Clarification(scores) = "none"
    PROVE  \E b \in Tables :
              /\ Best(scores) = {b} /\ scores[b] >= MinScore
              /\ \A u \in Tables : ~ Better(u, b, scores)
  <1>1. PICK b \in Best(scores) : \A u \in Tables : ~ Better(u, b, scores)
    BY BestExists
  <1>2. b \in Tables /\ \A u \in Tables : scores[u] <= scores[b]
    BY DEF Best
  <1>3. Best(scores) = {b}
    <2>1. IsFiniteSet(Best(scores)) /\ Cardinality(Best(scores)) \in Nat
      BY SevenTables, FS_Subset, FS_CardinalityType DEF Best
    <2>2. Cardinality(Best(scores)) <= 1
      BY <2>1 DEF Clarification
    <2>3. Cardinality(Best(scores)) # 0
      BY <1>1, <2>1, FS_EmptySet
    <2>4. \E x : Best(scores) = {x}
      BY <2>1, <2>2, <2>3, FS_Singleton
    <2> QED BY <1>1, <2>4
  <1>4. \E t \in Tables : scores[t] >= MinScore
    BY DEF Clarification, MinScore
  <1>5. scores[b] >= MinScore
    BY <1>2, <1>4 DEF MinScore
  <1> QED BY <1>1, <1>2, <1>3, <1>5

(* Of the tables left out for the limit only the worst one matched.        *)
LEMMA LeftOutIsWorst ==
    ASSUME NEW scores \in [Tables -> Nat], NEW t \in Tables,
           scores[t] >= MinScore, t \notin Matched(scores)
    PROVE  \A s \in Tables \ {t} : s \in Matched(scores) /\ Better(s, t, scores)
  <1> DEFINE S == {u \in Tables : scores[u] >= MinScore}
             Above(x) == {u \in S : Better(u, x, scores)}
  <1>1. Matched(scores) = {u \in S : Cardinality(Above(u)) < 6}
    BY DEF Matched, First, TableLimit
  <1>2. t \in S /\ ~ (Cardinality(Above(t)) < 6)
    BY <1>1
  <1>3. \A T \in SUBSET Tables : IsFiniteSet(T) /\ Cardinality(T) \in 0..7
    BY SevenTables, FS_Subset, FS_CardinalityType
  <1>4. \A x \in Tables : Above(x) \in SUBSET (Tables \ {x})
    BY BetterIsTotal
  <1>5. \A x \in Tables : IsFiniteSet(Tables \ {x}) /\ Cardinality(Tables \ {x}) = 6
    BY SevenTables, FS_RemoveElement
  <1>6. Above(t) = Tables \ {t}
    <2>1. Above(t) \in SUBSET (Tables \ {t}) /\ Above(t) \in SUBSET Tables
      BY <1>4
    <2> HIDE DEF Above
    <2>2. Cardinality(Above(t)) <= 6 /\ Cardinality(Above(t)) \in 0..7
      <3>1. \A R : IsFiniteSet(R) /\ Above(t) \in SUBSET R => Cardinality(Above(t)) <= Cardinality(R)
        BY FS_Subset
      <3>2. Cardinality(Above(t)) <= Cardinality(Tables \ {t})
        BY <1>5, <2>1, <3>1
      <3> QED BY <1>3, <1>5, <2>1, <3>2
    <2>3. Cardinality(Tables \ {t}) = Cardinality(Above(t))
      BY <1>2, <1>5, <2>2
    <2> QED BY <1>5, <2>1, <2>3, FS_Subset
  <1>7. ASSUME NEW s \in Tables \ {t} PROVE s \in Matched(scores) /\ Better(s, t, scores)
    <2>1. s \in S /\ Better(s, t, scores)
      BY <1>6, <1>7
    <2>2. Above(s) \subseteq (Tables \ {t}) \ {s}
      <3>1. ~ Better(t, s, scores)
        BY <2>1, BetterIsTotal
      <3> QED BY <1>4, <3>1
    <2>3. Cardinality((Tables \ {t}) \ {s}) = 5 /\ IsFiniteSet((Tables \ {t}) \ {s})
      <3>1. \A R : IsFiniteSet(R) /\ s \in R =>
                IsFiniteSet(R \ {s}) /\ Cardinality(R \ {s}) = Cardinality(R) - 1
        BY FS_RemoveElement
      <3>2. Cardinality((Tables \ {t}) \ {s}) = Cardinality(Tables \ {t}) - 1
        BY <1>5, <1>7, <3>1
      <3> QED BY <1>5, <1>7, <3>1, <3>2
    <2>4. Above(s) \in SUBSET Tables
      OBVIOUS
    <2>5. Cardinality(Above(s)) <= 5 /\ Cardinality(Above(s)) \in 0..7
      <3> HIDE DEF Above
      <3> QED BY <1>3, <2>2, <2>3, <2>4, FS_Subset
    <2>6. Cardinality(Above(s)) < 6
      <3> HIDE DEF Above
      <3> QED BY <2>5
    <2> QED BY <1>1, <2>1, <2>6
  <1> QED BY <1>7

(* Whatever scores a question gives the tables, its context holds no more  *)
(* than the limit, the table that matches best, and nobody in the place of *)
(* one that matches better.                                                *)
THEOREM ContextIsWithinLimit == \A scores \in [Tables -> Nat] : WithinLimit(scores)
  <1> SUFFICES ASSUME NEW scores \in [Tables -> Nat] PROVE WithinLimit(scores)
    OBVIOUS
  <1>1. Cardinality(Selected(scores)) <= TableLimit
    BY SelectedAreFew
  <1>2. ASSUME Selected(scores) # {} PROVE Best(scores) \subseteq Selected(scores)
    <2>1. Clarification(scores) = "none" /\ Matched(scores) \subseteq Selected(scores)
      BY <1>2 DEF Selected
    <2>2. PICK b \in Tables : /\ Best(scores) = {b} /\ scores[b] >= MinScore
                              /\ \A u \in Tables : ~ Better(u, b, scores)
      BY <2>1, SelectedHaveOneBest
    <2>3. b \in Matched(scores)
      BY <2>2, LeftOutIsWorst, SevenTables DEF Tables
    <2> QED BY <2>1, <2>2, <2>3
  <1>3. ASSUME NEW s \in Selected(scores), NEW t \in Tables \ Selected(scores),
               scores[t] >= MinScore
        PROVE  scores[s] >= scores[t]
    <2>1. Matched(scores) \subseteq Selected(scores)
      BY <1>3 DEF Selected
    <2>2. \A u \in Tables \ {t} : Better(u, t, scores)
      BY <1>3, <2>1, LeftOutIsWorst
    <2>3. s \in Tables
      <3>1. Selected(scores) \subseteq Matched(scores) \cup Expansion(Matched(scores))
        BY DEF Selected
      <3>2. Matched(scores) \subseteq Tables
        BY DEF Matched, First
      <3>3. \A u \in Tables : Joins(u) \subseteq Tables
        BY DEF Joins, Tables
      <3>4. Expansion(Matched(scores)) \subseteq Tables
        BY <3>2, <3>3 DEF Expansion, First
      <3> QED BY <3>1, <3>2, <3>4
    <2> QED BY <2>2, <2>3, BetterIsTotal
  <1> QED BY <1>1, <1>2, <1>3 DEF WithinLimit

(* A statement is only planned for a question that names its subject, its  *)
(* grain and revenue, has one table that matches best, and has all tables  *)
(* of the statement in its context.                                        *)
THEOREM PlansAreJustified == \A q \in Questions : Justified(q)
  <1> SUFFICES ASSUME NEW q \in Questions, Plan(q).status = "planned" PROVE Justified(q)
    BY DEF Justified
  <1> DEFINE p == Pattern(q.words)
  <1>1. /\ Clarification(q.scores) = "none" /\ p # NoPattern
        /\ Required(p.subject) \subseteq Selected(q.scores) /\ Plan(q).pattern = p
    BY DEF Plan, Refused
  <1>2. /\ p.subject = Subject(q.words) /\ p.grain = Grain(q.words)
        /\ Subject(q.words) # "none" /\ Grain(q.words) # "none" /\ "revenue" \in q.words
    BY <1>1 DEF Pattern
  <1>3. Subject(q.words) \in q.words /\ q.words \cap Unsupported = {}
    BY <1>2 DEF Subject
  <1>4. Grain(q.words) \in q.words
    BY <1>2 DEF Grain
  <1>5. Cardinality(Best(q.scores)) = 1
    <2>1. q.scores \in [Tables -> Nat]
      BY DEF Questions
    <2> QED BY <1>1, <2>1, SelectedHaveOneBest, FS_Singleton
  <1> HIDE DEF p
  <1> QED BY <1>1, <1>2, <1>3, <1>4, <1>5 DEF Justified
=============================================================================
