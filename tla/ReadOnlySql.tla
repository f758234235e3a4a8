---------------------------- MODULE ReadOnlySql ----------------------------
(***************************************************************************)
(* What stands between a SQL text and the database: the read-only policy,  *)
(* the checks on limits, configuration and execution plan, and what the    *)
(* adapter makes of a SQLcl process (agent_runtime/oracle_adw.py,          *)
(* sql_execution.py and the operator commands of cli.py).                  *)
(*                                                                         *)
(* A text, a configuration or an output is the set of what is wrong with   *)
(* it.  The code looks for these in a fixed order and stops at the first.  *)
(***************************************************************************)
EXTENDS Naturals, Sequences

(* The first problem of the list that is found, or "none".                 *)
FirstOf(checks, found) ==
    LET hits == {i \in 1..Len(checks) : checks[i] \in found} IN
    IF hits = {} THEN "none" ELSE checks[CHOOSE i \in hits : \A j \in hits : i <= j]

-----------------------------------------------------------------------------
(* What the scanners find on the lines of the text as SQLcl would read it. *)
LineChecks == <<"empty", "slash_block", "blank_line", "sqlcl_command">>

(* What they find in the statement outside comments and literals.          *)
StatementChecks ==
    <<"several_statements", "heavy_hint", "plsql_block", "for_update", "write_token",
      "not_select", "database_link">>

(* What they find of the names a statement uses.                           *)
ReferenceChecks ==
    <<"function_call", "nested_dotted", "compound_dotted", "multi_part_dotted", "nextval",
      "unqualified_dotted">>

PolicyChecks == LineChecks \o StatementChecks \o ReferenceChecks

SqlAllowed(text) == FirstOf(PolicyChecks, text) = "none"

(* The operator's text: unreadable file or stdin, size, encoding.          *)
LoadChecks == <<"sql_required", "sql_unreadable", "sql_too_large", "invalid_sql_encoding", "empty">>

LimitChecks ==
    <<"invalid_timeout_seconds", "invalid_row_limit", "invalid_max_output_bytes",
      "invalid_max_error_bytes">>

ConfigChecks ==
    <<"sqlcl_path_required", "sqlcl_path_must_be_absolute", "db_user_required",
      "db_user_pass_required", "db_dsn_required", "db_dsn_must_be_tns_alias",
      "db_wallet_path_required", "db_wallet_path_invalid">>

(* verify_sqlcl: the executable is there and its -version exits with 0.    *)
VersionChecks == <<"sqlcl_missing_or_not_executable", "sqlcl_version_check_failed">>

(* build_read_only_sqlcl_execution_plan, which the adapter calls first.    *)
PlanChecks ==
    LimitChecks \o PolicyChecks \o
    <<"sqlcl_path_required", "sqlcl_path_must_be_absolute", "db_user_required",
      "db_user_not_identifier", "db_user_protected", "db_user_pass_required",
      "db_dsn_required", "control_character">>

(* _operator_adw_smoke and _operator_adw_query, in their order.            *)
SmokeChecks ==
    <<"unconfirmed">> \o LimitChecks \o ConfigChecks \o VersionChecks \o PlanChecks

QueryChecks ==
    <<"unconfirmed">> \o LoadChecks \o PolicyChecks \o LimitChecks \o ConfigChecks
        \o VersionChecks \o PlanChecks

AdapterRefuses(problems) == FirstOf(PlanChecks, problems) # "none"

(* What was wrong with a run: a limit of the runner, SQLcl's exit code or  *)
(* its output.                                                             *)
RunChecks ==
    <<"timeout", "output_too_large", "error_output_too_large", "runner_error", "sqlcl_error",
      "json_not_rows", "row_limit_exceeded">>

(* status of the SqlExecutionResponse.                                     *)
ResponseStatus(problems) ==
    LET error == FirstOf(RunChecks, problems) IN
    IF error = "none" THEN "succeeded" ELSE IF error = "timeout" THEN "timeout" ELSE "failed"

AdapterStatus(allowReal, problems, run) ==
    IF AdapterRefuses(problems) THEN "rejected"
    ELSE IF ~ allowReal THEN "closed"
    ELSE ResponseStatus(run)
=============================================================================
