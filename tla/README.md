# TLA+ verification of the agent runtime

This directory holds a formal model of `src/agent_runtime` (and of the web
front end where it drives the runtime): TLA+ modules, TLC configurations that
check them on small instances, and proofs checked by TLAPS. `PROJECT.json`
lists the runs, theorems, findings and hazards, and maps every definition that
models code to the lines it models.

1. [The system](#1-the-system)
2. [The modules](#2-the-modules)
3. [The runs](#3-the-runs)
4. [The proofs](#4-the-proofs)
5. [Where code and documents disagree](#5-where-code-and-documents-disagree)
6. [What is left out](#6-what-is-left-out)
7. [Plan](#7-plan)

To check: `tlc -workers 2 -config X.cfg M` for each run of section 3,
and `tlapm` on each module whose name ends in `Proofs`.

## 1. The system

The runtime answers data questions with an agent loop over tools, and runs a
fixed business workflow (replacing patent asset records in a target system D
after reconciling systems A, B and C) whose only write sits behind a human
approval. Everything is local: processes share files, not a server.

| Component | Source | State it keeps | Operations | What makes it hard, and correct |
|---|---|---|---|---|
| Reconciliation rules | `workflow.py` `_reconcile` | none | group, merge fields, apply rules | duplicates and partial records: "resolved" only if nothing said about a patent is contradictory, foreign, ineligible or registered |
| Patent replacement run | `workflow.py` `run_patent_asset_replacement` | result, steps | two concurrent lookups, reconcile, enrich from C, reconcile, open gate | threads that raise; a second reconciliation must not cure a conflict |
| Human gate and checkpoint | `workflow.py`, `cli.py`, `approve/route.ts` | in-memory store, `checkpoint.json`, `status.json`, audit file | persist, resume with approval or rejection, load D, delete | separate processes, crashes, torn file, edits, template upgrades: only approved, unmodified records of the run's own checkpoint reach D |
| Template loading | `workflow.py` `_validate_workflow_template` | template | validate | a load node without approval must be refused |
| Run monitor, audit | `monitor.py`, `audit.py`, `trace.py` | event file, `status.json`, event count | start, event, pause, finish, reopen | three writes per event, two monitors of one run |
| Agent loop | `loop.py` | step counts, observations | run, stop checks, query step | stop reasons and budgets between steps |
| Tool runner | `tools.py`, `hooks.py` | attempts, usage | policy, hooks, run | a denied call never runs |
| Planner, executor, verifier | `planner.py`, `executor.py`, `verifier.py` | step results | group, run plan, approve, fall back | abort propagation, denied dependencies |
| Session, budget | `session.py`, `session_summarizer.py` | messages, usage | record, compress, save, load | window at its limit, partial save |
| SQLcl supervision | `sqlcl_runner.py` | process group, pipes, buffers | read, write, stop, time out, close | a group that outlives its leader, output limits, deadline |
| Read-only SQL | `sql_execution.py` | none | classify, execute | a writing statement is never classified as reading |
| Autonomous database | `oracle_adw.py` | connections, provisioned objects | provision, introspect, clean up | confirmation before a change, clean-up order |
| Self evolution | `self_evolution.py`, `self_evaluator.py`, `skills.py` | candidate files, review records | propose, approve, reject, gate, roll back | two reviewers, order of decisions |
| Tacit knowledge | `tacit_knowledge.py` | episode store | append, reflect, propose | append-only store under two writers |
| Model provider | `model.py` | none | call transports, validate actions | fallback order |
| Intent, query plan, schema context, explanation | `intent.py`, `query_plan.py`, ... | none | classify, format | text; only the plan's status decision has logic |
| Eval runner, redaction, value types | `eval_runner.py`, `redaction.py`, `types.py` | none | replay, redact | sequential and pure |
| Command line, web front end | `cli.py`, `frontend/` | none of their own | spawn the above | a process per command, killed after 120 s by the front end |

How they interact. The command line constructs an agent loop or a workflow
engine per process. The loop calls the model provider, the planner and the
executor, the executor the tool runner, the tool runner the SQL execution,
which starts SQLcl. A workflow engine calls a connector (a library object, mock
by default) and writes through a run monitor and the audit file. The front end
only spawns command lines. The one place where several processes work on the
same changing state with an irreversible effect is the workflow checkpoint. Two
more places are shared without a lock: an improvement candidate's file, which
reviewers rewrite, and the working user's account in the database, which
provisioning commands repair statement by statement.

The hazards this brings, each with its line and the properties that would catch
it going wrong, are in `PROJECT.json` under `hazards`; a hazard without a
property says why it has none.

## 2. The modules

    Reconcile ------> PatentRun ------> MCPatentRun        (TLC)
                          \-----------> PatentRunProofs    (TLAPS)

    WorkflowGate <== WorkflowEngine --> MCWorkflowEngine   (TLC)
     (refined by)         \-----------> WorkflowEngineProofs (TLAPS)

    SqlclProcess                                           (TLC)
          \---------------------------> SqlclProcessProofs (TLAPS)

    PlanLedger <===== PlanExecutor      (refined)
    PlanGraph ------> PlanExecutor ---> MCPlanExecutor     (TLC)
        \                 \-----------> PlanExecutorProofs (TLAPS)
         \----------> PlanGraphProofs ------/              (TLAPS)

    ReadOnlySql -> QueryPlan -> ActionModel -> AgentLoop --> MCAgentLoop (TLC)
        \                                          \-------> AgentLoopProofs (TLAPS)
         \----> AdwOperator ----------> MCAdwOperator      (TLC)
    AdwAccount ----/     \------------> AdwOperatorProofs  (TLAPS)

    SelfEvolution --------------------> MCSelfEvolution    (TLC)
              \-----------------------> SelfEvolutionProofs (TLAPS)

Operators introduced by a comment "Mutation:" are wrong versions of the
definition that follows them: a plausible slip of the programmer. They are used
by no specification. They document, for every property, a slip it detects
(`PROJECT.json`, `mutants`).

### Reconcile
`_reconcile` as operators on `srcs`, a function from system to the set of its
records. `PresentIn`, `Observed`, `Reconciled`, `Conflicts`, `MissingRequired`,
`FailedRules` and `Status` follow the code's own stages. Sets replace lists
because no decision depends on order or multiplicity; `None`, `""` and a missing
key are the one value `Empty`. `CleanPool` is the reference: what "resolved"
ought to mean, said about individual records and never through the rules.

### PatentRun
One call of `run_patent_asset_replacement`. `thread[s]` is the state of the two
lookup threads, `found[s]` what a system returned, `report` the systems whose
records were reconciled last, `runState` the state of the result. Leaving the
`with ThreadPoolExecutor` block waits for both threads even if the first has
raised (`JoinLookups`). C is asked only about patents with missing fields
(`Enrich`). Every connector call may raise.

### WorkflowGate and WorkflowEngine
`WorkflowGate` is the promise: one offer, grants of offered records while the
gate is open, D receives what was granted, and a rejection or an answered load
closes the gate for good.

`WorkflowEngine` is the code: one run, then any number of
`resume_with_human_decision` calls. A call in `CliCalls` is a `workflow-resume`
process with an engine of its own that read `checkpoint.json` on its way in; a
call in `LibCalls` uses the engine that made the run and prefers that engine's
`_checkpoint_store` (`Found`). All share the files. Correspondence:

| Model | Code |
|---|---|
| `store`, `loaded` | `_checkpoint_store` and `template` of the library engine |
| `disk` | `checkpoint.json`: absent, `Torn` between truncation and writing, or a checkpoint |
| `held[c]`, `version[c]` | the local `checkpoint` of a resume and the template of its engine |
| `status`, `audit`, `targetD` | `status.json`, the audit file, calls of `connector.load_d` |
| `CreateCheckpoint`, `TruncateFile`, `FillFile`, `ConcludeRun`, `ReportRun` | the end of the run, up to its last audit line |
| `OpenMonitor`, `Fetch` | `_resume_monitor`, the lookup in store or file |
| `Refuse`, `Decline`, `Accept` | the three outcomes of the decision, with `TrustedBy` = `_validate_trusted_checkpoint` |
| `Attempt`, `LoadAnswers`, `LoadRaises` | the `try` around the load; D may raise with or without having taken the batch |
| `Finish`, `Report`, `DeleteCheckpoint` | `monitor.finish`, the last audit line, `pop` and `unlink`, in the order of each path |
| `CallDies`, `LibraryRestarts`, `DeployTemplate`, `EditCheckpoint` | the environment |

The unit of an action is the code between two accesses to shared state.
`issued` is a history variable: the checkpoint the run created.

A checkpoint's hash is modelled as the record of what is hashed (ids, body,
template version), so it is injective, and the identity, which the code derives
from the hash, is the same value. Record contents are `"reconciled"` or
`"edited"`.

### SqlclProcess
`_run_subprocess_with_stream_limits`: the supervising thread's loop, the three
daemon threads, and a process group with a leader and at most one descendant,
which inherits the pipes. Output is counted in bytes; a pipe has a capacity, so
a writer nobody reads blocks. The group is free: it may write, fork, close or
redirect a stream (`LetGo`; `holders[s]` are those who have not), ignore SIGTERM,
exit or do none of it. A reader meets the end of its stream when nobody alive
holds it (`Open`), which need not mean that nobody is alive (`GroupAlive`).

The result is judged by the length of its text, not by the bytes that were read:
`text()` decodes with `errors="replace"` and `_build_result` measures the text
encoded again. `Close` chooses that length (`text`): as many bytes as were kept
when they are UTF-8, up to three times as many when they are not. `Status` compares
it with the limit.

### PlanGraph, PlanLedger and PlanExecutor
`PlanGraph` is `ExecutionPlan.topological_groups`, one action per visited step:
`waiting[s]` stands for the in-degree (the dependencies themselves instead of
their number), `queue` for the groups one after the other, `group[s]` for the
number of a step's group. `Stuck` is the reference: the steps on a cycle or
behind one, said without any algorithm.

`PlanExecutor` is `StepExecutor.run_plan` with what it calls:

| Model | Code |
|---|---|
| `next`, `aborted`, `result` | the two nested loops, `aborted_by`, `results_by_id` |
| `BeginStep` ... `Granted` | the approval of a step, with the terminal prompt: `AskTerminal`, `OperatorAnswers`, `PromptTimesOut`, `LateAnswer`, `PromptRaises` |
| `FindTool` | `_find_tool_for_capability`, by any registered tool or none |
| `Refuse`, `StartTool`, `AttemptReturns`, `AttemptRaises`, `Conclude` | `ToolRunner.run`; `Accepting` are the tools whose parameters accept the two arguments `run_plan` passes, `Allowed` is `_policy_error` |
| `EventRaises` | the audit line or the event sink raises out of `run_plan` (a hook that raises is swallowed by `HookRegistry.fire`) |
| `Suggestions`, `CallResult`, `Verify` | `ToolResultVerifier.verify` and the branches on its suggestion |

`needs`, `calls` and `tries` record what happened to each step, so that it can be
compared with the results.

`PlanLedger` is the promise, without queue, attempts, prompt or files: one entry
per step, which goes from open over called to done, or to refused, skipped or
void, for good and only after all the step depends on has its entry; one handler
at a time; nothing called once a refusal has halted the plan; and a return leaves
no step that was ready. `Ledger` in `PlanExecutor` is the mapping: a step is
called when its handler has run and its result is not stored, a stored result
tells its entry by state and error, and `halted` is `aborted_by`. A retry, an
answer typed too late or the visits of the grouping are stutters.

### ReadOnlySql
What stands between a SQL text and the database. A text, a configuration or an
output is the set of what is wrong with it; the lists `LineChecks`,
`StatementChecks`, `ReferenceChecks`, `LimitChecks`, `ConfigChecks`,
`VersionChecks`, `PlanChecks` and `RunChecks` are the refusals in the order in
which the code looks for them, and `FirstOf` the code that is reported. How a
scanner recognises a problem in a text is left out.

### AdwAccount and AdwOperator
`AdwAccount` is the working user's account and what a grant profile asks of it:
`Compliant` and `Drifted` (the admin inspection's verdicts), `Repairs` (the
statements of the script, ordered by `Ordered`), `Effect` and `Legal` (what the
database makes of a statement).

`AdwOperator` runs `operator adw-provision-working-user`, `adw-smoke` and
`adw-query` for any number of operators on one account:

| Model | Code |
|---|---|
| `account` | the user, its roles, privileges, grants and synonyms in the database |
| `RefuseProvision`, `ProvisionRaises` | the checks before the database is reached; the name of the administrator is checked outside them |
| `ReadSection`, `Precheck` | the first inspection, one select at a time, and its classification |
| `ApplyStatement`, `ApplyFails`, `ApplyTimesOut` | the script under `WHENEVER SQLERROR EXIT`, statement by statement |
| `ApplyEnds`, `InspectionFails`, `Postcheck` | the second inspection and the final status; `record` is the audit line and the printed report |
| `RefuseQuery`, `BeginQuery`, `RunQuery` | `_operator_adw_smoke`, `_operator_adw_query` with `ReadOnlySql` |
| `Interrupted`, `OrphanStatement` | a command that is killed; its SQLcl process, in a group of its own, goes on |
| `AdministratorActs` | somebody else changes the account |

`changed` and `disturbed` are history variables: whether the command itself, or
somebody else since the command or its last inspection began, has changed the
account.

### SelfEvolution
The life of one improvement candidate's file.

| Model | Code |
|---|---|
| `file` | the candidate's JSON file: missing, empty after the truncation, torn, or a candidate |
| `Propose`, `Review` | `operator propose-improvement`, `operator review-candidate approve / reject`: read, check, decide (`Decide` = `approve_candidate`, `reject_candidate`) |
| `Truncate`, `Fill`, `Audit` | the write of the file in two steps (two writers may leave the longer one's tail) and the audit line |
| `Written` | redaction when the file is written, after the hash was taken |
| `RunGate` | `evaluate_self_evolution_gate` with the evidence it is given (`EvalResults`, `DriftResults`, `RollbackPlans`); one conjunct per group of reasons against |
| `EditByHand`, `Release` | what only people do: set the provenance, change the text or the status in the file, publish an artifact or fixtures |

`approvals` (hashes that reviewers have approved) and `settled` (the last
decision taken while no other command ran) are history variables.

### QueryPlan, ActionModel and AgentLoop
`QueryPlan` goes from a question to a proposed statement: ranking and expansion
of tables (`Selected`), the choice of a pattern, and the plan or the reason
against it (`Plan`). A question is given by each table's score and by its words
after normalisation. `WithinLimit` and `Justified` say what a context and a plan
owe to the question, without the ranking. `ActionModel` has the keyword analysis (`Intent`), the
actions a model may choose and the local policy lets pass (`Validated`), the
fallback between the two OCI routes (`Transported`), the explanation of a result
and the answer.

`AgentLoop` is `AgentLoop.run`, one action per step of the loop:

| Model | Code |
|---|---|
| `StopState`, `Stopped` | `_stop_state`, `_finish_stopped`; where a step has a check, it has this alternative |
| `Receive`, `AddMessage` | the `message_received` record, and only then `add_message`: a message whose record cannot be written is in no conversation |
| `Analyze`, `Remember`, `Choose`, `Act` | intent, `load_active_memories`, `choose_action`, the decision on a tool |
| `Fail` | the end of a run whose model could not be asked, after the records of it; `status.json` says "running" until then |
| `SchemaContext`, `BuildPlan`, `ApproveQuery`, `QueryDatabase`, `RecordExplanation` | the schema tool through `ToolRunner.run`, `query_plan`, the real query step, its explanation |
| `Observe`, `FinalAnswer`, `ShadowPlan`, `ExecutePlan`, `Compress`, `Complete` | the rest of a run, including the session's compression |
| `writes`, `Write`, `WriteFails` | `RunMonitor.event`, `finish`, `AuditLogger.record`: the writes a step makes, one at a time, in its order |
| `OpenMessages` ... `WriteState`, `Load` | `SessionContext.save` and `load`, file by file |
| `Cancel`, `TimePasses`, `Exit`, `Crash` | the environment |

The conversation is a sequence of message numbers, so that what is missing from
it can be said. `stoppedAt`, `late`, `kept` and `lost` are history variables; `lost`
has the messages that died with a process or on their receipt.

## 3. The runs

| Run | Instance | Shows |
|---|---|---|
| `patent_run` | 2 patents, 10 records covering every condition the rules distinguish (value conflict, missing owner or period, old period, retired, registered, no id), batches of up to 2 records per system | `CheckpointIffClean`, `EnrichmentOnlyFillsGaps`, `LoadableRecordsAreFaithful`, `RunEnds`, `TypeOK` |
| `workflow_overlap` | 1 command-line and 1 library call, 1 id, overlap, crashes, restarts, edits | `LoadOnlyTrusted`, `DeletedForGood`, `CallsEnd`, `DecisionConsumesCheckpoint`, `TypeOK` |
| `workflow_serial` | 4 calls (2 of each entry), 2 ids, 2 versions, edits; calls one after the other, no crash, one entry per run | `PendingUntilDecided`, `StatusIsTruthful`, `ImplementsGate` |
| `workflow_double_load` | 2 overlapping command-line calls | violates `LoadedOnce` (section 5) |
| `workflow_late_approval` | command-line call, then library call | violates `RejectionPreventsLaterApproval` (section 5) |
| `sqlcl_process` | limit 1, pipe capacity 2, up to 3 bytes per stream | `FinishedMeansComplete`, `TimeoutStopsGroup`, `SupervisorReturns`, `TypeOK` |
| `sqlcl_descendants` | limit 1, pipe capacity 2 | violates `NoDescendantsLeft` (section 5) |
| `plan_executor` | ten plans of 3 steps, 3 tools, up to 2 attempts | `GroupsAreTopological`, `CallsPassedTheGates`, `AbortIsFinal`, `AttemptsAreHonest`, `TimedOutStaysDenied`, `ImplementsLedger`, `PlanEnds`, `TypeOK` |
| `plan_approval_timeout` | a chain of 3 steps, 1 attempt | violates `TimeoutReturns` (section 5) |
| `adw_operator` | 2 provisioners, one of whom also queries, 1 table, both profiles, no account or a drifted one; 1 trouble | `ReportIsTrue`, `RejectionLeavesAccountAlone`, `ChangesAreAudited`, `OnePassSuffices`, `RetriesRepair`, `TypeOK` |
| `self_evolution` | 2 people, 2 contents (one is rewritten by redaction), 2 artifact versions, 3 commands, 2 edits, crashes or releases | `FileTellsItsReview`, `DecisionIsFinal`, `NothingTakesEffectUnreviewed`, `TypeOK` |
| `agent_loop` | 5 questions (workflow, general, write request, answerable, not answerable), local and OCI provider, budgets 1 and 2, 2 tool attempts, threshold 2, 3 messages, 1 trouble at any write | `BudgetIsKept`, `RecordsAgree`, `AnswerIsReal`, `ConversationIsWhole`, `TypeOK` |

### What the properties say

*Reconciliation.* `CheckpointIffClean` is the agreement of the rule engine with
the record-by-record reading, in both directions. `EnrichmentOnlyFillsGaps`: the
second reconciliation never loses a failure of the first, other than a gap.
`LoadableRecordsAreFaithful`: what would be loaded contradicts neither A nor B.

*Checkpoint.* `LoadOnlyTrusted` ties each batch D received to the run's own
checkpoint, to an approval that echoed its hash, and to the audit lines before
it, whatever overlaps, dies or is edited. `DeletedForGood`: no stale engine or
restart recreates a deleted checkpoint file. `PendingUntilDecided`: with calls in
sequence the file is there exactly as long as nobody has decided; refused and
failed calls leave it for a retry. `StatusIsTruthful`: `status.json` says
completed, closed or checkpoint_required only for a reason. `ImplementsGate`:
refinement of `WorkflowGate`. The last three hold for calls in sequence only;
the two counterexample runs show that they do not when calls overlap or the two
entries are mixed, so they are not claimed there.

*SQLcl.* `FinishedMeansComplete`: a result "completed" or "failed" holds all
that the group ever wrote, and nobody alive can write more. `TimeoutStopsGroup`: a
signalled group is gone, a reported time limit has passed, and a stream reported too
large was written beyond its limit or was not UTF-8 and grew in the decoding
(`Exceeded`). `SupervisorReturns`: the caller gets
its result whatever the group does, with one exception that the property names
(a descendant that survived and keeps the writer of stdin waiting, section 5).

*Plans.* `GroupsAreTopological`: the groups respect every dependency and leave
out exactly what a cycle blocks. `ImplementsLedger`: with every retry, approval,
time limit and failing event, `run_plan` implements `PlanLedger`. In particular a
handler runs after all its step depends on has a result (not necessarily a
success: a dependent of a failed or denied step runs, as in the code), and a plan
that returns has dropped no step but those a cycle blocks. The two consequences
are also theorems in their own words, about `CallsFollowDependencies` and
`OnlyTrappedStepsVanish`.
`CallsPassedTheGates`: no handler runs past policy, approval or
audit. `AbortIsFinal`: exactly the steps after the aborting one say so.
`AttemptsAreHonest`: results, audit trail and the calls that were really made
agree. `TimedOutStaysDenied`: an answer after the time limit changes nothing.
`PlanEnds`: a plan ends, with one exception that the property names (section 5).

*Operator commands.* `ReportIsTrue`: a success or a rejection is true of the
database when the command exits, unless somebody else has changed the account
since its last inspection began (an inspection is five selects, not a snapshot).
`RejectionLeavesAccountAlone`: a command's own repairs are never what it then
rejects. `ChangesAreAudited`: a command that changed something and ends by itself
says that changes were attempted. `OnePassSuffices`: a script that ran to its end
while nobody else touched the account has succeeded, but for an expired password,
so no repair needs a second pass. `RetriesRepair`: whatever a script left behind
when it stopped halfway, running the command again mends it.

*Self evolution.* `FileTellsItsReview`: a file that can be read shows no decision
and no record, or one decision and its one record. `DecisionIsFinal`: a decision
taken while no other command ran stays on file until a proposal with
`--overwrite`. Overlapping reviews may lose a decision: the code takes no lock,
and the property says exactly when it need not. `NothingTakesEffectUnreviewed`:
what passes the gate is word for word what was approved, however the file was
torn or rewritten, or its text, provenance or status edited in between, and its
evaluation is of the version it changes. None of the three speaks of a forgery: the
hash is not keyed, so a hand that writes a hash, a decision and a record to fit is
believed by every command, and `EditByHand` leaves such edits out.

*Agent loop.* `BudgetIsKept`: steps exceed `max_steps` by at most the query step,
which has no check before it; after a cancellation or the time limit only calls
begin that were past their check. `RecordsAgree`: event file, `status.json` and
audit file agree at every write; a final status means that nothing more is done,
and a verdict that the status is final. `AnswerIsReal`: a result is shown only if
this run's query returned rows, the query was allowed and about what the question
names, and a write request ends in a refusal without a tool call, whatever a
language model has proposed. `ConversationIsWhole`: the conversation is in order,
has no hole but what died with a process and the messages whose receipt could not
be recorded (`loop.py:122` comes before `add_message`), and ends with the newest
messages.
`MCAgentLoop` also checks the ranking of tables and the choice of a plan over all
small scores and words (`RankingAssumption`, `PlanAssumption`), as they are
operators without state; `ContextIsWithinLimit` and `PlansAreJustified` prove the
same for all scores and all questions.

### Bounds, and why they are enough

- Patents: the rules treat each `patent_id` by itself, and `Status` is a
  conjunction over them; two show the independence, and a record set in which
  one is clean and the other is not. Two records per system give agreeing,
  conflicting and complementary duplicates within and between systems. The
  theorems of section 4 remove the bound.
- Calls: two overlapping calls, one through each entry, meet every pair of
  steps; the safety properties of `workflow_overlap` are about one batch and one
  file, and are proved for any number of calls, ids and versions. In sequence,
  four calls are enough for refuse, failed load, answered load and one too late.
- Template versions: one run version and one later. `MaxVersion` bounds
  `DeployTemplate`.
- Each call is made at most once, so a retry is another call.
- Limit 1 with 3 bytes written: below the limit, exactly at it, one more, and more
  than a pipe holds. `MaxOutput` bounds `Write`.
- Plans: three steps give every shape the grouping distinguishes (chain with and
  against the plan's order, fork, join, a join of a step and its dependent, self
  loop, cycle with a step before or behind it, unknown dependency). The tools are
  one that passes, one that does not accept the arguments, and a writing tool of
  high risk with only one of the two approvals. Two attempts are one retry;
  `MaxAttempts` bounds `FindTool`. The theorems remove these bounds.
- Account: one table has every state of a grant and of a synonym; two
  provisioners meet every pair of steps. `MaxTroubles` is one trouble of any kind
  (a second command at the same time, a failing statement, a time limit, an
  interruption, a change by an administrator), on top of which scripts may fail
  because of what the other command did. The theorems remove the bound.
- Candidate: two people meet on the file at every pair of steps, a third command
  finds what they left. `Workers` is a symmetry set (they are only compared, and
  the run has no liveness property).
- Loop: budget 1 stops before the tool, 2 allows the tool and the query that
  exceeds it. Threshold 2 keeps a window of one message and is reached by two
  messages, exceeded by three. One trouble at each of a run's thirty or so writes;
  the theorems about the loop hold for any number.
- `NoCheckpoint`, `Torn`, `NoHash`, ... are model values.

### Fairness, and why the code justifies it

- `PatentRun`: lookup threads and the run's own thread are operating system
  threads that keep being scheduled, and a connector call returns or raises. The
  code sets no timeout on it, so this is an assumption about the connector.
- `WorkflowEngine`: a live process keeps being scheduled, and D answers or
  raises. Nobody has to call, deploy, edit or crash. A call that waits for D
  forever is outside the assumption, as the code has no timeout there.
- `SqlclProcess`: the supervisor and the two readers are scheduled, time passes,
  and a write into a pipe without readers fails. The process group owes nothing.

- `PlanExecutor`: `run_plan` is scheduled, a tool returns or raises, the prompt's
  time limit passes. The operator owes no answer, in time or late.

- `AdwOperator`: a command that has begun goes on, the database works off the
  statements it was given, and operators keep running the provisioning command
  (strong fairness, since a command of somebody else may be in the way again and
  again). The last is an assumption about people, who are free to run it again:
  `docs/design-docs/oracle-adw-connection.md:104` promises that a re-run is
  idempotent. `RetriesRepair` claims nothing where the account has drifted, since
  the runbook then asks not to rerun blindly.
- `AgentLoop` and `SelfEvolution` state safety only.

Deadlock is checked except where the system may stop for good because its bounds
on messages or commands are used up (`agent_loop`, `self_evolution`); the other
systems' legitimate ends are the explicit stuttering actions `Terminated` and
`Returned`.

## 4. The proofs

| Theorem | Module | Statement |
|---|---|---|
| `TypeCorrect` | `WorkflowEngineProofs` | `Spec => []TypeOK` |
| `LoadsAreTrusted` | | `Spec => []LoadOnlyTrusted` |
| `DeletionIsFinal` | | `Spec => DeletedForGood` |
| `PendingWhileUndecided` | | `Serial /\ Spec => []PendingUntilDecided` |
| `StatusTellsTheTruth` | | `Serial /\ Spec => []StatusIsTruthful` |
| `SerialImplementsGate` | | `Serial /\ Spec => ImplementsGate` |
| `CallsLoadOnce` | | `Spec => []OneBatchPerCall` |
| `SpentStaysSpent` | | `Spec => SpentForGood` |
| `SequenceLoadsOnce` | | `Serial /\ Spec => []LoadedOnce` |
| `SequenceKeepsRejections` | | `Serial /\ Spec => RejectionPreventsLaterApproval` |
| `OnlyCleanIsOffered` | `PatentRunProofs` | `Spec => []CheckpointIffClean` |
| `EnrichmentCuresNothingElse` | | `Spec => []EnrichmentOnlyFillsGaps` |
| `LoadableIsFaithful` | | `Spec => []LoadableRecordsAreFaithful` |
| `PatentsArrive` | | `Spec => []NoPatentIsLost` |
| `TypeCorrect` | | `Spec => []TypeOK` |
| `TypeCorrect` | `PlanExecutorProofs` | `Spec => []TypeOK` |
| `GroupingIsTopological` | | `Spec => []GroupsAreTopological` |
| `GroupsComeEarliest` | | `Spec => []GroupsAreEarliest` |
| `NoCallBehindAGate` | | `Spec => []CallsPassedTheGates` |
| `DependenciesComeFirst` | | `Spec => []CallsFollowDependencies` |
| `NothingElseVanishes` | | `Spec => []OnlyTrappedStepsVanish` |
| `AbortsAreFinal` | | `Spec => []AbortIsFinal` |
| `ResultsAreHonest` | | `Spec => []AttemptsAreHonest` |
| `LateAnswersAreVoid` | | `Spec => TimedOutStaysDenied` |
| `PlanKeepsLedger` | | `Spec => ImplementsLedger` |
| `PlanRunsOut` | | `Spec => [][Forward]_vars /\ []Bounded` |
| `TypeCorrect` | `SqlclProcessProofs` | `Spec => []TypeOK` |
| `FinishedIsComplete` | | `Spec => []FinishedMeansComplete` |
| `TimeoutsStopTheGroup` | | `Spec => []TimeoutStopsGroup` |
| `SurvivorsAreOverLimitOrSilent` | | `Spec => []SurvivorStory` |
| `SupervisorLeavesItsLoop` | | `Spec => LoopEnds` |
| `TypeCorrect` | `SelfEvolutionProofs` | `Spec => []TypeOK` |
| `OneReviewOnFile` | | `Spec => []FileTellsItsReview` |
| `GatePassesReviewed` | | `Spec => []NothingTakesEffectUnreviewed` |
| `SettledStays` | | `Spec => []DecisionIsFinal` |
| `ClosedGatePassesNothing` | | `Spec => GateStaysShut` |
| `BudgetHolds` | `AgentLoopProofs` | `Spec => []BudgetIsKept` |
| `AnswersAreReal` | | `Spec => []AnswerIsReal` |
| `FilesAgree` | | `Spec => []RecordsAgree` |
| `ConversationsAreWhole` | | `Spec => []ConversationIsWhole` |
| `RunsGetSomewhere` | | `Spec => [][RunMoves]_vars /\ []Scarce` |
| `ContextIsWithinLimit` | | `\A scores \in [Tables -> Nat] : WithinLimit(scores)` |
| `PlansAreJustified` | | `\A q \in Questions : Justified(q)` |
| `TypeCorrect` | | `Spec => []TypeOK` |
| `ReportsAreTrue` | `AdwOperatorProofs` | `Spec => []ReportIsTrue` |
| `RejectionsChangeNothing` | | `Spec => []RejectionLeavesAccountAlone` |
| `ChangesAreOnRecord` | | `Spec => []ChangesAreAudited` |
| `OnePassIsEnough` | | `Spec => []OnePassSuffices` |
| `CommandsOnlyHelp` | | `Spec => [][AdministratorActs \/ Helpful]_vars` |
| `TypeCorrect` | | `Spec => []TypeOK` |

They hold for every set of calls, ids, fields, values and record batches
(infinite ones too), every number of template versions, and every setting of the
flags `Overlap`, `Mixed`, `MayCrash`, `MayEdit`; those about plans for every plan and
every set of tools, policies and attempts; those about SQLcl for every limit and
pipe; the others for every set of people, tables, contents, questions, budgets and
thresholds and every number of commands, runs and troubles. They rest only on the
named assumptions on the constants: the run is not one of the calls, null values
differ from data, required fields are fields, batches consist of records, the
step ids of a plan are distinct, policies are about registered tools, bounds are
natural numbers, what a question, an account or a content is made of is of its type.

**The workflow.** `LoadOnlyTrusted` is not inductive: when D is called, the
property needs to know what the call validated, and what it validated is a copy
of a copy. `IInv` adds, along the checkpoint's way:

1. `NothingIssuedEarly`: before the reconciliation ends there is no checkpoint.
2. `IssuedIsSealed`: the issued checkpoint is hashed over its own records and
   was announced in the audit trail.
3. `CopiesDescend`: store, file and every held copy carry the issued hash, even
   after an edit, because an edit changes the records and not the hash.
4. `LoadersAreArmed`: a call between acceptance and load holds a copy whose hash
   was recomputed; as the hash is injective and the same as the issued one, its
   records are the issued ones.
5. `LoadersHaveBegun`: a call that reached D has begun, so its decision is never
   replaced.

There is a lemma per group of actions (run, begin, call, environment) and a step
per action under it. `DeletionIsFinal` needs no invariant: only the run's two
file actions create the file, and they are behind it.

`OverlapInv` is what is left of order when calls overlap: a call that was not made
holds nothing, and every batch D has is that of a call past its load
(`BatchesAreCalls`). Each call therefore loads once (`CallsLoadOnce`), and a
checkpoint that has left the file, the store and every call's hands comes back to
none of them (`SpentStaysSpent`). That two calls may both load is the
disagreement of section 5.

Five theorems are about calls in sequence, as the run `workflow_serial` is:
`Serial` says that no two processes overlap, that one run is resumed one way and
that nothing dies. Edits and template upgrades remain possible, and so does any
number of refused and failed calls. `SerialInv` says what a single call finds and
leaves behind: whoever is at work is alone (`OneActs`); a call that has fetched a
checkpoint finds that nobody has decided (`Deciding`), because a decision is final
(`DecidedOnce`) and its call deletes everything a later one could fetch (`Deleted`:
the file, and for library calls the store entry too, which is where `OneEntry` is
needed); `FileFits` and `StatusFits` tie the file and `status.json` to where run and
call are. Two of the five, `SequenceLoadsOnce` and `SequenceKeepsRejections`, are the
properties that the runs `workflow_double_load` and `workflow_late_approval`
violate: what the documents promise holds as long as calls do not overlap, do not
die and take one entry. The refinement maps the creation of the checkpoint, an acceptance, a call
to D and a rejection to the four actions of the gate and everything else to a
stutter; `AcceptArms` supplies that only offered records are granted.

**The reconciliation.** `ResolvedIffClean` is the heart: for any sources that
include A and B, `Status(srcs) = "resolved"` equals `CleanPool(srcs)`. It rests on
`ReconciledIsObserved` (a non-empty reconciled value is the only observed one)
and `NoFailedRules` (the union of failed rules is empty exactly when no rule has
a patent to name). `MorePoolFailsMore` is monotonicity: a further system only
adds observations, hence failures of every rule that looks for something
present. The invariant needed for the run is that its state stays tied to the
last report (`GateHasReport`, `OutcomeOfLastReport`). `PatentsArrive` adds that the
checkpoint is about exactly the patents that A and B returned, since a clean pool
has every patent in both.

**The plan.** `GraphInv` (`PlanGraphProofs`) is Kahn's argument: the in-degrees
are the dependencies not visited (`WaitingIsUnvisited`), a step is queued exactly
when it has none (`QueuedWhenReady`), and what is found is one group ahead of
what is visited (`OneGroupAhead`), which keeps the numbers of the groups rising.
Nothing stuck enters, because a stuck step has a stuck dependency; and when the
queue is exhausted, the steps left wait for each other, so they are stuck. The
steps found by a visit are any list of that set in plan order, which is unique;
saying it this way avoids an induction over the plan.

`ExecInv` follows the loop along that queue: results are stored in its order
(`StoredInOrder`), only steps up to the current one were called
(`TriedInOrder`), and a call that gets to its handler has passed its gates
(`ReadyToCall`, `Cleared`). A step's needs and its answer are fixed before its
first call, since the queue has no duplicates.

Above it, `TraceInv` ties the results to what happened: steps are answered and
concluded in the queue's order (`AnsweredInOrder`, `ConcludedInOrder`), a result's
state and attempts are those of its calls (`OutcomeIsEarned`), and an abort cuts
the queue in two (`AbortInOrder`).

`PlanKeepsLedger` maps the steps: `CurrentIsReady` shows that the queue's next step
is ready in the ledger, `NobodyElseCalled` that no other is called, and each action
is then one of the ledger's or a stutter. That a return leaves no ready step is
where the reference `Stuck` is needed. `GroupsComeEarliest` says that the groups are
no later than they must be: a step of a later group depends on one just before it.
`PlanRunsOut` is the part of termination that the prover reaches: every step
groups one step more, moves the queue, moves on within the step, or is one of a
bounded number of attempts.

**SQLcl.** The group can do anything, so the invariant speaks of where its output
is: below the limit, everything written is in the buffer or in the pipe
(`OutputFits`); a reader is done when it is over the limit, or when the pipe is
empty and nobody alive holds it (`ReadersFit`); what the supervisor does has its
reason in these (`MainFits`); and the text of a result is as long as its bytes or
longer (`TextFits`). `SurvivorsAreOverLimitOrSilent` says how far the promise of
the comment in `_terminate_process` holds: a timeout leaves nobody, and a survivor
takes a process that has exited by itself and streams that each are over the limit
or were read to their end, everyone alive having let go of them. `SupervisorLeavesItsLoop`: once the deadline has passed or a
reader has ordered the stop, the supervisor comes back to no earlier step (`Rank`).

**The candidate.** `Base` says of the file and of every job under way that it shows
one review at most: a review starts from a file that was readable and pending.
`Reviewed` adds that the hash of an approval on file was approved, `Alone` that a
command with nobody beside it finds the file as it left it, and `Settled` that
after a settled decision only a proposal that overwrites may be under way. `Origins`
follows where hash and provenance come from; with it `ClosedGatePassesNothing` states
what the gate refuses whatever its evidence, three remarks of section 5 among them.

**The loop.** Each theorem has an invariant of its own. `StepsFit` counts the steps
at each place, `StopFits` says where a run can still be after it was stopped
somewhere (`Beyond`). `LocalsFit` follows what the answer depends on, over
`AllowedIsSafe`, `ChoiceIsAllowed` and `PlanNamesItsSubject`: whatever is proposed,
what is obeyed was allowed for the question. `RecordsFit` classifies the list of
writes to come as plain or final (`Plain`, `Final`) and counts events, lines and
status against each other and the troubles so far. `TalkFits` needs to know that
the newest `Threshold \div 2` messages are the last entries of the conversation
although some may be missing, and that one just received is not there yet (`Heard`);
since the numbers rise (`Rises`), the distance of two
entries is at least that of their positions, which bounds them without an
induction. `RunsGetSomewhere` gives a run's steps an order (`Place`) which no choice of
the model, failure or cancellation reverses; within a place there are only so many
attempts, troubles and writes (`Scarce`). The two theorems on `QueryPlan` have no
state; that a table left out has at least six better ones is counted in
`LeftOutIsWorst`.

**The account.** `IInv` says of each command what its two inspections have read so
far and that it is still so, unless somebody disturbed it (`Inspecting`), that its
own script cannot make the account drift (`EffectOfRepair`, `RepairsAreHarmless`:
what is required is never what is ruled out), and that a complete reading judges as
the account itself would (`CompleteReading`). `Bystander` is the step of everybody
else: either the account stays, or the command is disturbed.

`OnePassIsEnough` needs that a script has a statement for all its account still lacks
(`Covers`), from its making to its end, as long as nobody disturbs it.
`CommandsOnlyHelp` looks at the account alone, with any number of commands at the same
time and scripts whose command is gone: every statement the database runs was made for
the profile of somebody who provisions (`ScriptsAreOurs`), it takes nothing from the
account (`CompliantStays`), and gives it nothing its own profile rules out. With two
profiles at once the second half is false, since the prototype profile grants `DWROLE`
and the production profile rules it out, so it is claimed for one.

`TypeCorrect` of this module adds the shapes of scripts and records. That a report
names one of the problems its command looks for needs the first problem found to
exist, which is the least element of a set of naturals (`LeastOf`, from the
library's well-founded order of the naturals).

Only model-checked: every liveness property (`RunEnds`, `CallsEnd`,
`DecisionConsumesCheckpoint`, `SupervisorReturns`, `PlanEnds`, `RetriesRepair`).
Liveness under fairness and ENABLED are out of the prover's reach. For three of
them the part that is a safety property is proved: `PlanRunsOut`,
`SupervisorLeavesItsLoop` and `OnePassIsEnough` leave to TLC that somebody is
scheduled and that a step is possible. Every invariant and every action property
of the passing runs, and both refinements, are proved.

## 5. Where code and documents disagree

- **Two approvals, two loads** (`workflow_double_load`). `workflow-resume` reads
  the checkpoint, loads D, and deletes the file at the end, with no lock or claim
  in between. `docs/design-docs/workflow-orchestration.md:167` keeps persistent
  resume "closed until" the store has an idempotency key and replay state; the
  command line offers it without them. For calls in sequence through one entry there
  is one load (`SequenceLoadsOnce`).
- **A rejection another process does not see** (`workflow_late_approval`). An
  engine that made the run prefers its in-memory checkpoint to the file and
  accepts an approval after a command line rejected the run.
  `tests/test_workflow_engine.py:168` states that rejecting "prevents later
  approval", and tests it within one engine, where it
  holds (`SequenceKeepsRejections`).
- **A surviving descendant** (`sqlcl_descendants`). The loop tests "exited and
  drained" before "stop", and a reader that hit its limit counts as drained. When
  the process has exited, one stream is over its limit and the other one is too, or
  its last holder has closed or redirected it, the group is never signalled. The
  promise fails in no other way (`SurvivorsAreOverLimitOrSilent`). The
  comment at `sqlcl_runner.py:370` says that output-limit paths do not leave
  descendants alive. If the survivor also holds stdin open
  while the script is still being written, closing stdin waits for it.

- **A time limit that does not end the wait** (`plan_approval_timeout`). The
  approval prompt reads `input` in a `ThreadPoolExecutor` used as a context
  manager. On a timeout the callback prints "timed out" and executes `return
  False`, but leaving the context waits for the input thread, so it returns only
  after the operator has typed a line (observed on a terminal: with a limit of
  one second and a line typed after five, it returned after five). The
  docstring at `executor.py:272` says "Timeout or non-interactive stdin returns
  False". The late answer itself is ignored, as it should be.

Not turned into a run, because they show in one step of the code or concern what
the model abstracts:

- `docs/tracking/next-work-queue.md:439` asks that approvals and rejections of a
  step be audited and that a timeout abort the plan; in `run_plan` neither is
  audited and a timeout skips the step. `loop.py:369` takes a plan for aborted only
  if a step after the aborting one was skipped.
- No tool of the default registry has a capability the planner names, so with
  `use_plan_execution` the loop's executor skips every step (`ExecutePlan`).
- `compress_history` returns what it removed as proposed memories; the loop counts
  them and drops them (`loop.py:387`). The shadow verification it is given is always
  empty, so a session summary never reports a failure.
- `docs/architecture-reference.md:424` has `review-candidate approve` activate a
  memory record. The command changes only the candidate's `review`; nothing sets the
  provenance status the gate asks for, which is why `EditByHand` is in the model.
- `docs/tracking/change-log.md:599` says that the pending check prevents a double
  approval. It does for commands one after the other (`DecisionIsFinal`), not for
  overlapping ones.
- A candidate's hash is taken before redaction, so the file of a candidate that
  redaction rewrites never passes the gate's recomputation; and approving does not
  verify the hash. Both are in the model.
- A candidate's and a checkpoint's hash is a plain digest of what stands next to it.
  It finds an edit by somebody who does not compute it anew, no other.
- Output that is not UTF-8 is reported too large when its replacement characters
  exceed the limit, although its bytes do not (`sqlcl_runner.py:343`, `461`).
- `eval_runner.py:80` records version "1" of the golden fixtures whatever the
  manifest says, so after a release of fixtures the gate only refuses.
- `README.md:138` documents `review-candidate list --status pending`; the command
  line accepts only `proposed`, `accepted`, `rejected` and `superseded`.
- `docs/runbooks/operator-adw.md:66` says that `rejected_drift` stops without
  applying changes. It may also be the verdict of the last inspection, after
  repairs, but only if somebody else changed the account during the command
  (`RejectionLeavesAccountAlone`).
- An administrator's name that is not an identifier ends provisioning with an
  uncaught `ValueError` and no audit line (`cli.py:1380`, `ProvisionRaises`).
- `_handle_adw_query` reports `real_database_execution: True` also for a request
  that the adapter rejected or could not run (`tools.py:215`).
- A saved session's `token_budget` looks like a secret to redaction and comes back
  as the text "[REDACTED]" (`session.py:240`, `types.py:146`).
- The schema tool's query plan and the loop's are built from different terms, so one
  may be planned while the other is blocked; the loop's decides (`MayQuery`).
- A language model's payload may replace `required_context`; the model then calls no
  tool, or one for a clarification. `AnswerIsReal` holds nevertheless.
- A transport error other than `ModelInvocationError` leaves the run with status
  "running" (`Choose`, reply "raises").

## 6. What is left out

Within the modelled components:

- Consecutive events of one call that leave the same value in `status.json` are
  one action. The order of event lines inside such a group is not visible.
- The episode store's append during a resume is best effort, only adds audit
  lines, and is left out. `policy_basis`, actor names and explanations are data.
- One run per model: runs share only the append-only audit file.
- In `WorkflowEngine` a failing write is a `CallDies` or, in the run, a
  `RunRaises`. `unlink` fails never; the code ignores that error.
- A descendant that leaves the process group (`setsid`), more than one of them at a
  time, and a failure to read the group's id are not modelled; the SQLcl arguments
  and environment are text, and so is the redaction of the output, with the bound put
  on the redacted text again (`sqlcl_runner.py:470`). Of the decoding only the growth
  in length is modelled.
- Forgeries: an edit of a candidate's hash, decision or records, or of a checkpoint's
  hash. `EditByHand` and `EditCheckpoint` edit what the hash is of.
- Plans are free: `KeywordPlanner`, the dry and the shadow execution, and the
  evaluation of a success criterion are data or pure. A verifier never names an
  alternative tool, so the branch for one is not modelled. The agent loop itself
  passes no approval callback (`callback` is then false).
- `README.md` of the repository says the checkpoint is deleted after a resume;
  the code deletes it after a rejection or an answered load only, and
  `PendingUntilDecided` states the code's rule.

- Text: how a SQL scanner, the keyword lists, the scoring of tables, redaction,
  masking and the wording of answers recognise or produce what they do. The models
  take the outcome as given.
- A session's slots, its tool result cache and the budget tracker are values
  nothing reads back; the sequence numbers of episodes and, in `WorkflowEngine`, of
  events identify nothing in the program.
- The default roles of the working user: an inspection does not read them, so no
  report can tell.
- The HTTP requests of the model provider, beyond whether they succeed, fail with
  404, fail otherwise or raise.

Whole components:

- Tacit knowledge (`tacit_knowledge.py`): an append-only log and text heuristics,
  none of which the modelled components read back.
- Template loading: the structural checks of a JSON document at start-up; only the
  version an engine was constructed with is in the model.
- Rollback of an artifact (`self_evolution.py`): a dry run that changes nothing.
- `KeywordPlanner`, the dry and the shadow execution of plans; the pages and
  components of the front end.

## 7. Plan

The plan of sections 1 and 2 is carried out. What could follow:

1. Progress measures for the remaining components, as `PlanRunsOut` is for plans:
   the operator commands, the calls of the engine and the patent run.
2. Two processes that load and save one session: `AgentLoop` has one process per
   session, with crashes at any write of its files.
3. Two runs of the engine at once, should they come to share more than the
   append-only audit file.
4. The structural validation of workflow templates, once templates decide the order
   of steps: today that order is fixed in the code, and a template supplies the
   required fields and a part of the checkpoint's hash.
