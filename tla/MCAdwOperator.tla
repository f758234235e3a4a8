--------------------------- MODULE MCAdwOperator ---------------------------
(* Small instance of AdwOperator.                                          *)
EXTENDS AdwOperator

MCProblems ==
    {{}, {"admin_user_not_identifier"}, {"unconfirmed"}, {"write_token", "db_dsn_required"}}

MCFaults == {{"timeout"}, {"output_too_large", "sqlcl_error"}}

(* No account, and one that has drifted from the production profile.       *)
MCAccounts ==
    { Blank,
      [Blank EXCEPT !.status = "OPEN", !.privileges = {"CREATE SESSION", "SELECT ANY TABLE"}] }
=============================================================================
