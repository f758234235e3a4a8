---------------------------- MODULE ActionModel ----------------------------
(***************************************************************************)
(* What the agent is asked for and what it does about it: the keyword      *)
(* analysis (agent_runtime/intent.py), the action the model chooses and    *)
(* the local policy lets pass (model.py), the explanation of a result      *)
(* (result_explanation.py) and the answer (loop.py).                       *)
(***************************************************************************)
EXTENDS QueryPlan

(* The kinds of keyword a question may contain.                            *)
Keywords ==
    {"workflow", "patent_asset", "replacement", "database", "metric", "dimension", "time",
     "write", "analysis"}

Questions ==
    [keywords : SUBSET Keywords, scores : [Tables -> Nat], words : SUBSET STRING]

IsWorkflow(k) == "workflow" \in k \/ {"patent_asset", "replacement"} \subseteq k

IsDatabase(k) == "database" \in k \/ ("metric" \in k /\ k \cap {"dimension", "time"} # {})

(* analyze_user_intent: a workflow comes before everything else.           *)
Intent(q) ==
    LET k == q.keywords IN
    IF IsWorkflow(k)
    THEN [type |-> "workflow_execution", safety |-> "requires_checkpoint", ambiguous |-> TRUE]
    ELSE IF ~ IsDatabase(k)
    THEN [type |-> "general", safety |-> "normal", ambiguous |-> FALSE]
    ELSE [type |-> "database_analysis",
          safety |-> IF "write" \in k THEN "blocked_write_request" ELSE "read_only",
          ambiguous |-> k \cap {"metric", "dimension", "analysis"} # {}]

-----------------------------------------------------------------------------
Kinds == {"select_workflow", "refuse", "ask_clarification", "inspect_schema", "final_answer"}

(* schema: required_context names the schema.                              *)
Actions == [kind : Kinds, schema : BOOLEAN]

(* MockModel.choose_action.                                                *)
Baseline(intent) ==
    LET kind ==
            IF intent.type = "workflow_execution" THEN "select_workflow"
            ELSE IF intent.safety = "blocked_write_request" THEN "refuse"
            ELSE IF intent.type # "database_analysis" THEN "final_answer"
            ELSE IF intent.ambiguous THEN "ask_clarification" ELSE "inspect_schema"
    IN [kind |-> kind, schema |-> kind \in {"ask_clarification", "inspect_schema"}]

AllowedKinds(intent) ==
    IF intent.safety = "blocked_write_request" THEN {"refuse"}
    ELSE IF intent.type = "workflow_execution" THEN {"select_workflow"}
    ELSE IF intent.type = "database_analysis" THEN {"ask_clarification", "inspect_schema"}
    ELSE {Baseline(intent).kind}

(* What a language model may propose: any kind, and a payload that leaves  *)
(* or replaces the required context.                                       *)
Proposals == [kind : Kinds \cup {"unknown"}, context : {"untouched", "schema", "other"}]

(* Mutation: whatever is proposed.                                         *)
Obeyed(proposal, intent) ==
    IF proposal.kind = "unknown" THEN Baseline(intent)
    ELSE [kind |-> proposal.kind,
          schema |-> IF proposal.context = "untouched" THEN Baseline(intent).schema
                     ELSE proposal.context = "schema"]

(* _validated_llm_action: the payload is taken over with an allowed kind.  *)
Validated(proposal, intent) ==
    IF proposal.kind \notin AllowedKinds(intent) THEN Baseline(intent)
    ELSE [kind |-> proposal.kind,
          schema |-> IF proposal.context = "untouched" THEN Baseline(intent).schema
                     ELSE proposal.context = "schema"]

(* One request to the provider; OCI gets a second one after a 404.         *)
Replies == {"action", "http_404", "model_error", "raises"}

Transported(provider, reply, second) ==
    IF provider = "oci" /\ reply = "http_404" THEN second ELSE reply

(* What may come out of choose_action: an action, a ModelInvocationError   *)
(* or another exception.                                                   *)
ModelChoices(provider, intent) ==
    IF provider = "mock" THEN {[reply |-> "action", action |-> Baseline(intent)]}
    ELSE {[reply |-> Transported(provider, r, s), action |-> Validated(p, intent)] :
              r \in Replies, s \in Replies, p \in Proposals}

(* _tool_call_for_action.                                                  *)
NeedsSchema(action) ==
    \/ action.kind = "inspect_schema"
    \/ action.kind = "ask_clarification" /\ action.schema

-----------------------------------------------------------------------------
(* What the adw_query handler returns: the statement was run or not.       *)
Outputs == {"blocked", "config_error", "failed", "rows", "no_rows", "rows_missing"}

(* Mutation: the status of the output is not looked at.                    *)
ExplainedUnread(output) == "succeeded"

(* Mutation: the status of the output is passed on as it is.               *)
RawStatus(output) == output

(* build_real_result_explanation: only a success whose rows are there.     *)
Explained(output) == IF output \in {"rows", "no_rows"} THEN "succeeded" ELSE "rejected"

(* _final_answer.                                                          *)
Answer(action, plan, explanation) ==
    IF action.kind = "refuse" THEN "refusal"
    ELSE IF action.kind = "select_workflow" THEN "workflow"
    ELSE IF action.kind = "final_answer" THEN "direct"
    ELSE IF explanation = "succeeded" THEN "result"
    ELSE IF plan.status = "planned" THEN "statement"
    ELSE "schema"

Answers == {"none", "refusal", "workflow", "direct", "result", "statement", "schema"}
=============================================================================
