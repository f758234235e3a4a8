----------------------------- MODULE AgentLoop -----------------------------
(***************************************************************************)
(* AgentLoop.run (agent_runtime/loop.py) with the run's files it leaves    *)
(* behind (monitor.py, audit.py), the tools it calls (tools.py) and the    *)
(* conversation it is a turn of (session.py).                              *)
(*                                                                         *)
(* A step of the loop does its work and lists the writes it makes; these   *)
(* happen one by one before the next step.  At any time the user may       *)
(* cancel, the time limit may pass, a write may fail or the process may    *)
(* die.  Between runs the process may save the conversation and end, and   *)
(* another one may load it.                                                *)
(***************************************************************************)
EXTENDS ActionModel, SequencesExt

CONSTANTS
    Asked,         \* questions users ask
    Providers,     \* model providers: "mock", "openai", "oci"
    Budgets,       \* values of max_steps
    Memories,      \* [readable, status, review] of the files in the memory directory
    ToolAttempts,  \* tool_max_attempts
    Threshold,     \* messages a conversation keeps uncompressed (40 in the code)
    MaxRuns,       \* bound: messages sent
    MaxTroubles    \* bound: cancellations, time limits, failing writes and crashes

ASSUME AskedAssumption == Asked \subseteq Questions /\ Budgets \subseteq Nat
ASSUME BoundAssumption ==
    /\ ToolAttempts \in Nat \ {0} /\ Threshold \in Nat
    /\ MaxRuns \in Nat /\ MaxTroubles \in Nat

VARIABLES
    pc,           \* the step the process is at
    writes,       \* writes of the last step that are still to be made
    provider, maxSteps, allowReal,    \* how the loop was constructed
    question, action, steps, tried, plan, explanation, answer,    \* the run
    outcome,      \* RunMonitor.state
    counted,      \* RunMonitor.event_count
    lines,        \* events.jsonl: how many lines
    status,       \* status.json
    audited,      \* the run's terminal records in the audit file
    cancelled, expired,    \* CancellationToken; the time limit has passed
    conversation, \* conversation_history: the messages by number
    sent,         \* messages sent so far
    saved,        \* messages.jsonl and state.json of the session
    troubles,     \* troubles so far
    output,       \* what the adw_query handler returned
    stoppedAt,    \* history: step at which the run was first cancelled or out of time
    late,         \* history: calls of the model and of tools begun after that
    kept,         \* history: messages sent before the last finished save
    lost          \* history: messages that died with a process, or on their receipt

settings == <<provider, maxSteps, allowReal>>
turn == <<question, action, plan, explanation, answer>>
files == <<counted, lines, status, audited>>
session == <<conversation, sent, saved, kept, lost>>
stopping == <<cancelled, expired, stoppedAt, troubles>>
calls == <<steps, tried, output, late>>
vars == <<pc, writes, settings, turn, outcome, files, session, stopping, calls>>

NoQuestion == [keywords |-> {}, scores |-> [t \in Tables |-> 0], words |-> {}]
Nothing == Refused("none")
NoAction == [kind |-> "none", schema |-> FALSE]
NoStatus == [state |-> "none", count |-> 0]
Torn == [state |-> "torn", count |-> 0]

(* RunMonitor.event: the line, then status.json, which is truncated first. *)
Status == <<"truncate", "fill">>
Event == <<"line">> \o Status
Audit == <<"audit">>
Recorded == Event \o Audit    \* an event and its audit record
ToolEvent == Audit \o Event   \* ToolRunner writes them the other way round
(* Mutation: the verdict before the event.                                 *)
VerdictFirst == <<"verdict">> \o Event \o Status

Finished == Event \o Status \o <<"verdict">>

Init ==
    /\ pc = "idle" /\ writes = <<>>
    /\ provider \in Providers /\ maxSteps \in Budgets
    /\ allowReal \in BOOLEAN
    /\ question = NoQuestion /\ action = NoAction /\ steps = 0 /\ tried = 0 /\ plan = Nothing
    /\ explanation = "none" /\ answer = "none" /\ outcome = "running"
    /\ counted = 0 /\ lines = 0 /\ status = NoStatus /\ audited = {}
    /\ cancelled = FALSE /\ expired = FALSE
    /\ sent \in 0..Threshold /\ conversation = [i \in 1..sent |-> i]
    /\ saved = [messages |-> <<>>, state |-> "missing"]
    /\ troubles = 0 /\ output = "none" /\ stoppedAt = "none" /\ late = 0
    /\ kept = 0 /\ lost = {}

Goto(here, there) == pc = here /\ writes = <<>> /\ pc' = there

(* A call that begins after the run was cancelled or out of time is late.  *)
Calling == late' = IF cancelled \/ expired THEN late + 1 ELSE late

-----------------------------------------------------------------------------
(* _stop_state: cancellation comes before the time limit, and that before  *)
(* the number of steps.                                                    *)
StopState(checkSteps) ==
    IF cancelled THEN "cancelled" ELSE IF expired THEN "timed_out"
    ELSE IF checkSteps /\ steps >= maxSteps THEN "stopped" ELSE "running"

(* _finish_stopped: nothing else is done in this run.                      *)
Conclude(state) ==
    /\ outcome' = state
    /\ writes' = Finished
    /\ pc' = "returned"

Stopped(here, checkSteps) ==
    /\ pc = here /\ writes = <<>>
    /\ StopState(checkSteps) # "running" /\ Conclude(StopState(checkSteps))
    /\ UNCHANGED <<settings, turn, files, session, stopping, calls>>

(* A run starts with a monitor and a directory of its own.                 *)
Start ==
    /\ Goto("idle", "receive") /\ sent < MaxRuns
    /\ question' \in Asked
    /\ outcome' = "running" /\ writes' = Status \o Audit
    /\ counted' = 0 /\ lines' = 0 /\ status' = NoStatus /\ audited' = {}
    /\ UNCHANGED <<settings, action, plan, explanation, answer, session, stopping, calls>>

(* The locals of a run that is over.                                       *)
Forgotten ==
    /\ question' = NoQuestion /\ action' = NoAction /\ plan' = Nothing
    /\ explanation' = "none" /\ answer' = "none"
    /\ steps' = 0 /\ tried' = 0 /\ output' = "none" /\ late' = 0
    /\ cancelled' = FALSE /\ expired' = FALSE /\ stoppedAt' = "none"

(* The receipt of a message is recorded before the conversation has it.    *)
Receive ==
    \/ Stopped("receive", FALSE)
    \/ /\ Goto("receive", "converse") /\ StopState(FALSE) = "running"
       /\ sent' = sent + 1 /\ writes' = Event
       /\ UNCHANGED <<settings, turn, outcome, files, conversation, saved, kept, lost, stopping,
                      calls>>

AddMessage ==
    /\ Goto("converse", "analyze")
    /\ conversation' = Append(conversation, sent)
    /\ UNCHANGED <<writes, settings, turn, outcome, files, sent, saved, kept, lost, stopping,
                   calls>>

Analyze ==
    \/ Stopped("analyze", FALSE)
    \/ /\ Goto("analyze", "remember") /\ StopState(FALSE) = "running"
       /\ writes' = Recorded
       /\ UNCHANGED <<settings, turn, outcome, files, session, stopping, calls>>

(* load_active_memories.                                                   *)
ActiveMemories ==
    {m \in Memories : m.readable /\ m.status = "active" /\ m.review = "approved"}

Remember ==
    \/ Stopped("remember", TRUE)
    \/ /\ Goto("remember", "choose") /\ StopState(TRUE) = "running"
       /\ writes' = IF ActiveMemories = {} THEN <<>> ELSE Recorded
       /\ UNCHANGED <<settings, turn, outcome, files, session, stopping, calls>>

(* A ModelInvocationError fails the run; other exceptions leave it.        *)
Choose ==
    /\ pc = "choose" /\ writes = <<>> /\ Calling
    /\ \E c \in ModelChoices(provider, Intent(question)) :
          \/ /\ c.reply = "action" /\ pc' = "act" /\ writes' = Recorded
             /\ action' = c.action /\ steps' = steps + 1
          \/ /\ c.reply \in {"http_404", "model_error"} /\ pc' = "fail" /\ writes' = Recorded
             /\ UNCHANGED <<action, steps>>
          \/ /\ c.reply = "raises" /\ pc' = "raised"
             /\ UNCHANGED <<action, steps, writes>>
    /\ UNCHANGED <<settings, question, plan, explanation, answer, outcome, files, session,
                   stopping, tried, output>>

Fail ==
    /\ pc = "fail" /\ writes = <<>>
    /\ Conclude("failed")
    /\ UNCHANGED <<settings, turn, files, session, stopping, calls>>

(* Mutation: no check before the tool is called.                           *)
ActUnchecked ==
    /\ pc = "act" /\ writes = <<>>
    /\ IF NeedsSchema(action) THEN pc' = "context" /\ writes' = ToolEvent
                              ELSE pc' = "observe" /\ writes' = <<>>
    /\ UNCHANGED <<settings, turn, outcome, files, session, stopping, calls>>

(* The number of steps is looked at only when there is a tool to call.     *)
Act ==
    \/ Stopped("act", NeedsSchema(action))
    \/ /\ pc = "act" /\ writes = <<>> /\ StopState(NeedsSchema(action)) = "running"
       /\ IF NeedsSchema(action) THEN pc' = "context" /\ writes' = ToolEvent
                                 ELSE pc' = "observe" /\ writes' = <<>>
       /\ UNCHANGED <<settings, turn, outcome, files, session, stopping, calls>>

-----------------------------------------------------------------------------
(* The schema tool raises when the artifacts cannot be read.               *)
SchemaContext ==
    /\ pc = "context" /\ writes = <<>> /\ Calling
    /\ tried' = tried + 1
    /\ \/ /\ pc' = "plan" /\ writes' = ToolEvent
          /\ steps' = steps + 1
       \/ /\ tried' < ToolAttempts /\ pc' = "context" /\ writes' = ToolEvent
          /\ UNCHANGED steps
       \/ /\ tried' = ToolAttempts /\ pc' = "observe" /\ writes' = ToolEvent \o ToolEvent
          /\ steps' = steps + 1
    /\ UNCHANGED <<settings, turn, outcome, files, session, stopping, output>>

BuildPlan ==
    /\ pc = "plan" /\ writes = <<>>
    /\ \/ plan' = Plan(question) /\ writes' = Recorded /\ pc' = "query"
       \/ UNCHANGED <<plan, writes>> /\ pc' = "observe"
    /\ UNCHANGED <<settings, question, action, explanation, answer, outcome, files, session,
                   stopping, calls>>

(* No check stands between the schema tool and the database.               *)
MayQuery == allowReal /\ plan.status = "planned"

ApproveQuery ==
    /\ pc = "query" /\ writes = <<>>
    /\ IF MayQuery THEN pc' = "database" /\ writes' = ToolEvent
                   ELSE pc' = "observe" /\ writes' = <<>>
    /\ UNCHANGED <<settings, turn, outcome, files, session, stopping, calls>>

(* The handler answers whatever happens.                                   *)
QueryDatabase ==
    /\ Goto("database", "explain") /\ Calling
    /\ steps' = steps + 1
    /\ output' \in Outputs
    /\ explanation' = Explained(output')
    /\ writes' = ToolEvent \o Recorded
    /\ UNCHANGED <<settings, question, action, plan, answer, outcome, files, session, stopping,
                   tried>>

RecordExplanation ==
    /\ Goto("explain", "observe")
    /\ writes' = Recorded
    /\ UNCHANGED <<settings, turn, outcome, files, session, stopping, calls>>

Observe ==
    /\ Goto("observe", "answer")
    /\ writes' = Event
    /\ UNCHANGED <<settings, turn, outcome, files, session, stopping, calls>>

-----------------------------------------------------------------------------
(* The last check.  An answer is evaluated, or the evaluation fails.       *)
FinalAnswer ==
    \/ Stopped("answer", FALSE)
    \/ /\ Goto("answer", "shadow") /\ StopState(FALSE) = "running"
       /\ answer' = Answer(action, plan, explanation)
       /\ writes' \in {Recorded, Event}
       /\ UNCHANGED <<settings, question, action, plan, explanation, outcome, files, session,
                      stopping, calls>>

(* The plan is built but not carried out.                                  *)
ShadowPlan ==
    /\ Goto("shadow", "execute")
    /\ writes' = Event
    /\ UNCHANGED <<settings, turn, outcome, files, session, stopping, calls>>

(* With use_plan_execution it is carried out, which calls no tool: none    *)
(* has a capability the planner names.                                     *)
ExecutePlan ==
    /\ Goto("execute", "compress")
    /\ writes' \in {<<>>, Event}
    /\ UNCHANGED <<settings, turn, outcome, files, session, stopping, calls>>

(* Mutation: the recent messages are compressed instead of the old ones.   *)
OldestTurns(turns) ==
    LET window == Threshold \div 2 IN
    IF Len(turns) <= Threshold \/ window = 0 THEN turns
    ELSE SubSeq(turns, 1, window)

(* compress_history.  The loop counts what it returns and drops it.        *)
RecentTurns(turns) ==
    LET window == Threshold \div 2 IN
    IF Len(turns) <= Threshold \/ window = 0 THEN turns
    ELSE SubSeq(turns, Len(turns) - window + 1, Len(turns))

Compress ==
    /\ Goto("compress", "finish")
    /\ conversation' = RecentTurns(conversation)
    /\ writes' = IF conversation' = conversation THEN <<>> ELSE Event
    /\ UNCHANGED <<settings, turn, outcome, files, sent, saved, kept, lost, stopping, calls>>

Complete ==
    /\ pc = "finish" /\ writes = <<>>
    /\ Conclude("completed")
    /\ UNCHANGED <<settings, turn, files, session, stopping, calls>>

Return ==
    /\ Goto("returned", "idle") /\ Forgotten
    /\ UNCHANGED <<writes, settings, outcome, files, session, troubles>>

(* The caller sees the exception and may go on with another run.           *)
Raise ==
    /\ Goto("raised", "idle") /\ Forgotten
    /\ UNCHANGED <<writes, settings, outcome, files, session, troubles>>

-----------------------------------------------------------------------------
(* The writes of a step.  An event is counted before its line is written,  *)
(* and status.json takes state and count from the monitor as they are.     *)
Write ==
    /\ writes # <<>> /\ writes' = Tail(writes)
    /\ LET write == Head(writes) IN
       /\ counted' = IF write = "line" THEN counted + 1 ELSE counted
       /\ lines' = IF write = "line" THEN lines + 1 ELSE lines
       /\ status' = IF write = "truncate" THEN Torn
                    ELSE IF write = "fill" THEN [state |-> outcome, count |-> counted]
                    ELSE status
       /\ audited' = IF write = "verdict" THEN audited \cup {outcome} ELSE audited
    /\ UNCHANGED <<pc, settings, turn, outcome, session, stopping, calls>>

Trouble == troubles < MaxTroubles /\ troubles' = troubles + 1

(* A write that fails leaves the run, but for these: an explanation is     *)
(* dropped, a failure of the shadow plan or of the plan's execution is     *)
(* recorded as an event.  A message whose receipt cannot be recorded is    *)
(* not added to the conversation any more.                                 *)
DropsExplanation == pc = "observe" /\ explanation # "none"
ReportsFailure == pc \in {"execute", "compress"} /\ Last(writes) # "reported"

WriteFails ==
    /\ writes # <<>> /\ Trouble
    /\ counted' = IF Head(writes) = "line" THEN counted + 1 ELSE counted
    /\ \/ /\ DropsExplanation
          /\ explanation' = "none" /\ writes' = <<>> /\ UNCHANGED pc
       \/ /\ ReportsFailure
          /\ writes' = Event \o <<"reported">> /\ UNCHANGED <<pc, explanation>>
       \/ /\ ~ DropsExplanation /\ ~ ReportsFailure
          /\ pc' = "raised" /\ writes' = <<>> /\ UNCHANGED explanation
    /\ lost' = IF pc = "converse" THEN lost \cup {sent} ELSE lost
    /\ UNCHANGED <<settings, question, action, plan, answer, outcome, lines, status, audited,
                   conversation, sent, saved, kept, cancelled, expired, stoppedAt, calls>>

Running == pc \notin {"idle", "raised", "dead", "write_messages", "open_state", "write_state"}

Stopping == stoppedAt' = IF stoppedAt = "none" THEN pc ELSE stoppedAt

Cancel ==
    /\ Running /\ ~ cancelled /\ cancelled' = TRUE /\ Trouble /\ Stopping
    /\ UNCHANGED <<pc, writes, settings, turn, outcome, files, session, expired, calls>>

TimePasses ==
    /\ Running /\ ~ expired /\ expired' = TRUE /\ Trouble /\ Stopping
    /\ UNCHANGED <<pc, writes, settings, turn, outcome, files, session, cancelled, calls>>

-----------------------------------------------------------------------------
(* SessionContext.save: both files are rewritten in place.                 *)
OpenMessages ==
    /\ Goto("idle", "write_messages")
    /\ saved' = [saved EXCEPT !.messages = <<>>] /\ UNCHANGED kept
    /\ UNCHANGED <<writes, settings, turn, outcome, files, conversation, sent, lost, stopping,
                   calls>>

WriteMessages ==
    /\ Goto("write_messages", "open_state")
    /\ saved' = [saved EXCEPT !.messages = conversation] /\ UNCHANGED kept
    /\ UNCHANGED <<writes, settings, turn, outcome, files, conversation, sent, lost, stopping,
                   calls>>

OpenState ==
    /\ Goto("open_state", "write_state")
    /\ saved' = [saved EXCEPT !.state = "torn"] /\ UNCHANGED kept
    /\ UNCHANGED <<writes, settings, turn, outcome, files, conversation, sent, lost, stopping,
                   calls>>

WriteState ==
    /\ Goto("write_state", "idle")
    /\ saved' = [saved EXCEPT !.state = "whole"] /\ kept' = sent
    /\ UNCHANGED <<writes, settings, turn, outcome, files, conversation, sent, lost, stopping,
                   calls>>

Saving == pc \in {"write_messages", "open_state", "write_state"}

(* The process is gone, and with it what was not saved; while it saves,    *)
(* everything may be.                                                      *)
Dies ==
    /\ pc' = "dead" /\ writes' = <<>> /\ Forgotten
    /\ lost' = lost \cup (IF Saving THEN 1..sent ELSE kept + 1..sent)
    /\ UNCHANGED <<settings, outcome, files, conversation, sent, kept>>

Exit == pc = "idle" /\ Dies /\ UNCHANGED <<saved, troubles>>

(* Of the messages being written a beginning is on disk, up to a line torn *)
(* or not.                                                                 *)
TornLine == 0

Crash ==
    /\ pc \notin {"idle", "dead"} /\ Dies /\ Trouble
    /\ IF pc = "write_messages"
       THEN \E n \in 0..Len(conversation), tail \in {<<>>, <<TornLine>>} :
               saved' = [saved EXCEPT !.messages = SubSeq(conversation, 1, n) \o tail]
       ELSE UNCHANGED saved

(* Another process loads the conversation, or starts one when it cannot.   *)
Load ==
    /\ Goto("dead", "idle")
    /\ conversation' = IF saved.state = "whole" /\ ~ Contains(saved.messages, TornLine)
                       THEN saved.messages ELSE <<>>
    /\ UNCHANGED <<writes, settings, turn, outcome, files, sent, saved, kept, lost, stopping,
                   calls>>

-----------------------------------------------------------------------------
Step ==
    \/ Receive \/ AddMessage \/ Analyze \/ Remember \/ Choose \/ Fail \/ Act
    \/ SchemaContext \/ BuildPlan \/ ApproveQuery \/ QueryDatabase \/ RecordExplanation
    \/ Observe \/ FinalAnswer \/ ShadowPlan \/ ExecutePlan \/ Compress \/ Complete
    \/ Return \/ Raise \/ Write

Save == OpenMessages \/ WriteMessages \/ OpenState \/ WriteState

Next ==
    \/ Start \/ Step \/ WriteFails \/ Cancel \/ TimePasses
    \/ Save \/ Exit \/ Crash \/ Load

Spec == Init /\ [][Next]_vars
-----------------------------------------------------------------------------
Steps ==
    {"receive", "converse", "analyze", "remember", "choose", "fail", "act", "context", "plan",
     "query", "database", "explain", "observe", "answer", "shadow", "execute", "compress",
     "finish", "returned", "raised"}

Outcomes == {"running", "completed", "cancelled", "timed_out", "stopped", "failed"}

Patterns ==
    [subject : {"promotion", "channel", "product"}, grain : {"day", "month"},
     detail : {"category", "subcategory"}]

TypeOK ==
    /\ pc \in Steps \cup {"idle", "dead", "write_messages", "open_state", "write_state"}
    /\ writes \in Seq({"line", "truncate", "fill", "audit", "verdict", "reported"})
    /\ provider \in Providers /\ maxSteps \in Budgets /\ allowReal \in BOOLEAN
    /\ question \in Asked \cup {NoQuestion} /\ action \in Actions \cup {NoAction}
    /\ steps \in Nat /\ tried \in 0..ToolAttempts /\ late \in Nat
    /\ plan \in [status : {"none", "planned", "blocked", "clarification_required"},
                 pattern : Patterns \cup {NoPattern}]
    /\ explanation \in {"none", "succeeded", "rejected"}
    /\ answer \in Answers /\ outcome \in Outcomes /\ output \in Outputs \cup {"none"}
    /\ counted \in Nat /\ lines \in Nat /\ audited \subseteq Outcomes
    /\ status \in [state : Outcomes \cup {"none", "torn"}, count : Nat]
    /\ cancelled \in BOOLEAN /\ expired \in BOOLEAN /\ stoppedAt \in Steps \cup {"none"}
    /\ conversation \in Seq(Nat) /\ sent \in Nat /\ kept \in 0..sent /\ lost \subseteq 1..sent
    /\ saved \in [messages : Seq(Nat), state : {"missing", "torn", "whole"}]
    /\ troubles \in 0..MaxTroubles

(* The steps stay within max_steps but for a query, which may come one     *)
(* over it.  After a cancellation or the time limit no call begins that is *)
(* not already past its check: the model's, or the schema tool and the     *)
(* query, between which there is none.  A run completes only if neither    *)
(* came before its last check.                                             *)
BudgetIsKept ==
    /\ steps <= maxSteps \/ (steps = maxSteps + 1 /\ MayQuery)
    /\ late > 0 => stoppedAt \in {"choose", "context", "plan", "query", "database"}
    /\ stoppedAt = "choose" => late <= 1
    /\ outcome = "completed" =>
          stoppedAt \in {"none", "shadow", "execute", "compress", "finish", "returned"}

(* What the run's files say of it.  A final state in status.json means     *)
(* that nothing more is done; its verdict in the audit file, that          *)
(* status.json is final and counts every event; a run that returns has     *)
(* both.  Otherwise status.json is torn, or behind by the event just       *)
(* written, give or take the writes that failed.                           *)
RecordsAgree ==
    /\ status.state \in Outcomes \ {"running"} =>
          status.state = outcome /\ pc \notin Steps \ {"returned", "raised"}
    /\ audited # {} => audited = {outcome} /\ status = [state |-> outcome, count |-> counted]
    /\ pc = "returned" /\ writes = <<>> => audited = {outcome}
    /\ status.state # "torn" =>
          /\ lines <= status.count + 1 + troubles
          /\ status.count <= lines + troubles

(* A result is shown only when the database has returned it in this run.   *)
(* The database is asked only where real queries are allowed, for a        *)
(* question that reads, with a statement about a subject the question      *)
(* names, whatever a language model has proposed.  A request to write ends *)
(* in a refusal, and no tool was called for it.                            *)
AnswerIsReal ==
    /\ answer = "result" => output \in {"rows", "no_rows"}
    /\ output # "none" =>
          /\ allowReal /\ Intent(question).safety = "read_only"
          /\ plan.status = "planned" /\ plan.pattern.subject \in question.words
    /\ Intent(question).safety = "blocked_write_request" =>
          tried = 0 /\ answer \in {"none", "refusal"}

(* The conversation is in order and whole but for what died with a process *)
(* or could not be recorded on its receipt: it has no other hole, it ends  *)
(* with the newest messages once they are added, also those of a run that  *)
(* was stopped or raised later, and a completed run leaves it within the   *)
(* threshold.                                                              *)
ConversationIsWhole ==
    /\ \A i \in 1..Len(conversation) - 1 :
          /\ conversation[i] < conversation[i + 1]
          /\ conversation[i] + 1 .. conversation[i + 1] - 1 \subseteq lost
    /\ pc # "dead" =>
          \A m \in 1..sent : m > sent - (Threshold \div 2) =>
              \/ m \in lost \/ (m = sent /\ pc = "converse")
              \/ \E i \in DOMAIN conversation : conversation[i] = m
    /\ pc = "finish" /\ Threshold > 1 => Len(conversation) <= Threshold
=============================================================================
