---------------------------- MODULE AdwOperator ----------------------------
(***************************************************************************)
(* The operator commands that reach the database (agent_runtime/cli.py):   *)
(* adw-provision-working-user, adw-smoke and adw-query.  Each command runs *)
(* in a process of its own; they meet only in the database, where an       *)
(* administrator may also change the working user's account.               *)
(*                                                                         *)
(* Provisioning inspects the account, repairs it with a script that SQLcl  *)
(* runs statement by statement, and inspects it again.  Nothing makes the  *)
(* three one step: another command, a refused statement, the time limit or *)
(* the end of the command may come between any two statements, and a SQLcl *)
(* process outlives a command that is killed.                              *)
(***************************************************************************)
EXTENDS AdwAccount, ReadOnlySql

CONSTANTS
    Provisioners,  \* operators who run adw-provision-working-user
    Queriers,      \* operators who run adw-smoke and adw-query
    Problems,      \* the sets of problems a command may find before it starts
    Faults,        \* the sets of problems a SQLcl process may meet
    Accounts0,     \* accounts at the beginning
    MaxTroubles    \* bound: troubles, interruptions, changes by an administrator and
                   \* commands begun while another one runs

ASSUME BoundAssumption == MaxTroubles \in Nat
ASSUME AccountsAssumption == Accounts0 \subseteq Accounts

VARIABLES
    account,   \* the account in the database
    orphans,   \* scripts whose supervisor is gone; the database may still run them
    troubles,  \* how many there have been
    pc,        \* pc[o]: the step o's command is at
    profile,   \* profile[o]: the grant profile o runs
    section,   \* section[o]: the section its inspection reads next
    pre,       \* pre[o]: what the first inspection has read
    post,      \* post[o]: what the second one has read
    script,    \* script[o]: the statements its SQLcl process has not run
    applied,   \* applied[o]: whether actions_applied is not empty
    record,    \* record[o]: what its last command audited and printed
    changed,   \* history: whether o's command has changed the account
    disturbed  \* history: whether somebody else has, since its last inspection
               \* began ("now") or before

database == <<account, orphans, troubles>>
command == <<section, pre, post, script, applied, record>>
history == <<changed, disturbed>>
vars == <<database, pc, profile, command, history>>

Operators == Provisioners \cup Queriers

NoRecord == [state |-> "none", class |-> "none", attempted |-> FALSE, code |-> "none"]

Init ==
    /\ account \in Accounts0 /\ orphans = {} /\ troubles = 0
    /\ pc = [o \in Operators |-> "idle"]
    /\ profile \in [Operators -> Profiles]
    /\ section = [o \in Operators |-> 1]
    /\ pre = [o \in Operators |-> Blank] /\ post = [o \in Operators |-> Blank]
    /\ script = [o \in Operators |-> {}]
    /\ applied = [o \in Operators |-> FALSE]
    /\ record = [o \in Operators |-> NoRecord]
    /\ changed = [o \in Operators |-> FALSE]
    /\ disturbed = [o \in Operators |-> "never"]

Goto(o, here, there) == pc[o] = here /\ pc' = [pc EXCEPT ![o] = there]

Trouble == troubles < MaxTroubles /\ troubles' = troubles + 1

Begin(o) ==
    IF \E x \in Provisioners \ {o} : pc[x] \notin {"idle", "done"}
    THEN Trouble ELSE UNCHANGED troubles

(* Somebody other than the commands of "by" has changed the account.       *)
Disturb(by) ==
    disturbed' = [o \in Operators |-> IF o \in by \/ pc[o] = "idle" THEN disturbed[o] ELSE "now"]

(* The process ends, and with it what it knew.                             *)
Exit(o) ==
    /\ section' = [section EXCEPT ![o] = 1]
    /\ pre' = [pre EXCEPT ![o] = Blank] /\ post' = [post EXCEPT ![o] = Blank]
    /\ script' = [script EXCEPT ![o] = {}]
    /\ applied' = [applied EXCEPT ![o] = FALSE]

(* The command appends its audit line, prints the same and exits.          *)
Conclude(o, r) ==
    /\ record' = [record EXCEPT ![o] = r]
    /\ Exit(o)

Idle(o) ==
    /\ record' = [record EXCEPT ![o] = NoRecord]
    /\ changed' = [changed EXCEPT ![o] = FALSE]
    /\ disturbed' = [disturbed EXCEPT ![o] = "never"]

-----------------------------------------------------------------------------
(* adw-provision-working-user: the checks before the database is reached.  *)
ProvisionChecks ==
    <<"unconfirmed", "invalid_timeout_seconds", "sqlcl_path_required",
      "sqlcl_path_must_be_absolute", "admin_user_required", "admin_user_pass_required",
      "invalid_admin_user_pass", "db_user_required", "db_user_not_identifier",
      "db_user_protected", "db_user_pass_required", "invalid_db_user_pass",
      "db_dsn_required", "db_dsn_must_be_tns_alias", "db_wallet_path_required",
      "db_wallet_path_invalid">> \o VersionChecks

Refusal(code) ==
    [state |-> IF code = "unconfirmed" THEN "confirmation_required" ELSE "rejected",
     class |-> "none", attempted |-> FALSE, code |-> code]

RefuseProvision(o) ==
    /\ Goto(o, "idle", "done")
    /\ \E found \in Problems :
          /\ FirstOf(ProvisionChecks, found) # "none"
          /\ Conclude(o, Refusal(FirstOf(ProvisionChecks, found)))
    /\ UNCHANGED <<database, profile, history>>

(* The name of the administrator is checked last, outside the checks.      *)
ProvisionRaises(o) ==
    /\ pc[o] = "idle"
    /\ \E found \in Problems :
          /\ FirstOf(ProvisionChecks, found) = "none"
          /\ "admin_user_not_identifier" \in found
    /\ UNCHANGED vars

BeginProvision(o) ==
    /\ Goto(o, "idle", "pre")
    /\ {} \in Problems /\ Begin(o)
    /\ UNCHANGED <<account, orphans, profile, command, history>>

(* One section of an inspection, read when its select runs.                *)
ReadSection(o) ==
    LET f == Sections(profile[o])[section[o]]
        seen == Visible(account, profile[o])[f] IN
    /\ pc[o] \in {"pre", "post"} /\ section[o] <= Len(Sections(profile[o]))
    /\ section' = [section EXCEPT ![o] = @ + 1]
    /\ pre' = IF pc[o] = "pre" THEN [pre EXCEPT ![o][f] = seen] ELSE pre
    /\ post' = IF pc[o] = "post" THEN [post EXCEPT ![o][f] = seen] ELSE post
    /\ UNCHANGED <<database, pc, profile, script, applied, record, history>>

InspectionEnds(o) == section[o] > Len(Sections(profile[o]))

Outcome(o, state, class) ==
    [state |-> state, class |-> class, attempted |-> applied[o], code |-> "none"]

(* Mutation: an account that needs repairs is repaired whatever else it    *)
(* has.                                                                    *)
PrecheckOfRepairs(o) ==
    LET seen == pre[o]  p == profile[o] IN
    /\ InspectionEnds(o)
    /\ \/ /\ Compliant(seen, p) /\ Goto(o, "pre", "done")
          /\ Conclude(o, Outcome(o, "succeeded", "already_compliant"))
       \/ /\ ~ Compliant(seen, p) /\ Goto(o, "pre", "apply")
          /\ script' = [script EXCEPT ![o] = Repairs(seen, p)]
          /\ applied' = [applied EXCEPT ![o] = Repairs(seen, p) # {}]
          /\ UNCHANGED <<section, pre, post, record>>
    /\ UNCHANGED <<database, profile, history>>

Precheck(o) ==
    LET seen == pre[o]  p == profile[o] IN
    /\ InspectionEnds(o)
    /\ \/ /\ Drifted(seen, p) /\ Goto(o, "pre", "done")
          /\ Conclude(o, Outcome(o, "rejected", "rejected_drift"))
       \/ /\ ~ Drifted(seen, p) /\ Compliant(seen, p) /\ Goto(o, "pre", "done")
          /\ Conclude(o, Outcome(o, "succeeded", "already_compliant"))
       \/ /\ ~ Drifted(seen, p) /\ ~ Compliant(seen, p) /\ Goto(o, "pre", "apply")
          /\ script' = [script EXCEPT ![o] = Repairs(seen, p)]
          /\ applied' = [applied EXCEPT ![o] = Repairs(seen, p) # {}]
          /\ UNCHANGED <<section, pre, post, record>>
    /\ UNCHANGED <<database, profile, history>>

ApplyStatement(o) ==
    /\ pc[o] = "apply"
    /\ \E s \in Heads(script[o]) :
          /\ Legal(account, s)
          /\ account' = Effect(account, s)
          /\ script' = [script EXCEPT ![o] = @ \ {s}]
    /\ changed' = [changed EXCEPT ![o] = TRUE]
    /\ Disturb({o})
    /\ UNCHANGED <<orphans, troubles, pc, profile, section, pre, post, applied, record>>

(* Mutation: a script that fails has applied nothing.                      *)
FailureAppliedNothing(o) == [Outcome(o, "failed", "failed") EXCEPT !.attempted = FALSE]

ApplyFailure(o) == Outcome(o, "failed", "failed")

(* WHENEVER SQLERROR EXIT: the first error ends the script.                *)
ApplyFails(o) ==
    /\ Goto(o, "apply", "done")
    /\ \E s \in Heads(script[o]) :
          IF Legal(account, s) THEN Trouble ELSE UNCHANGED troubles
    /\ Conclude(o, ApplyFailure(o))
    /\ UNCHANGED <<account, orphans, profile, history>>

(* The time limit ends the SQLcl process.  The statement it was waiting    *)
(* for may still take effect.                                              *)
ApplyTimesOut(o) ==
    /\ Goto(o, "apply", "done") /\ Trouble
    /\ \/ UNCHANGED orphans
       \/ \E s \in Heads(script[o]) : orphans' = orphans \cup {{s}}
    /\ Conclude(o, ApplyFailure(o))
    /\ UNCHANGED <<account, profile, history>>

ApplyEnds(o) ==
    /\ script[o] = {} /\ Goto(o, "apply", "post")
    /\ section' = [section EXCEPT ![o] = 1]
    /\ disturbed' = [disturbed EXCEPT ![o] = IF @ = "now" THEN "before" ELSE @]
    /\ UNCHANGED <<database, profile, pre, post, script, applied, record, changed>>

(* An inspection ends early: an error, the time limit or too much output.  *)
InspectionFails(o) ==
    /\ pc[o] \in {"pre", "post"} /\ pc' = [pc EXCEPT ![o] = "done"] /\ Trouble
    /\ Conclude(o, Outcome(o, "failed", "failed"))
    /\ UNCHANGED <<account, orphans, profile, history>>

(* Mutation: a script that ran to its end is believed.                     *)
BelievedScript(o) ==
    Outcome(o, "succeeded", IF pre[o].status = "absent" THEN "created"
                            ELSE "granted_missing_privileges")

(* Success needs a good classification and a compliant last inspection.    *)
PostOutcome(o) ==
    LET class == PostClass(pre[o], post[o], profile[o]) IN
    Outcome(o, IF class = "rejected_drift" THEN "rejected"
               ELSE IF class \in {"created", "granted_missing_privileges"}
                       /\ Compliant(post[o], profile[o]) THEN "succeeded"
               ELSE "failed", class)

Postcheck(o) ==
    /\ InspectionEnds(o) /\ Goto(o, "post", "done")
    /\ Conclude(o, PostOutcome(o))
    /\ UNCHANGED <<database, profile, history>>

-----------------------------------------------------------------------------
(* adw-smoke and adw-query.                                                *)
CommandChecks(kind) == IF kind = "smoke" THEN SmokeChecks ELSE QueryChecks

RefuseQuery(o) ==
    /\ Goto(o, "idle", "done")
    /\ \E kind \in {"smoke", "query"}, found \in Problems :
          /\ FirstOf(CommandChecks(kind), found) # "none"
          /\ Conclude(o, Refusal(FirstOf(CommandChecks(kind), found)))
    /\ UNCHANGED <<database, profile, history>>

BeginQuery(o) ==
    /\ \E kind \in {"smoke", "query"} :
          /\ Goto(o, "idle", kind)
          /\ \E found \in Problems : FirstOf(CommandChecks(kind), found) = "none"
    /\ UNCHANGED <<database, profile, command, history>>

CanRun(a, kind) ==
    IF kind = "query" THEN CanQuery(a) ELSE a.status = "OPEN" /\ "CREATE SESSION" \in a.privileges

Answer(run) ==
    [state |-> ResponseStatus(run), class |-> "none", attempted |-> TRUE,
     code |-> FirstOf(RunChecks, run)]

(* SQLcl logs in as the working user and runs the query.                   *)
RunQuery(o) ==
    /\ pc[o] \in {"smoke", "query"} /\ pc' = [pc EXCEPT ![o] = "done"]
    /\ \/ /\ Conclude(o, Answer(IF CanRun(account, pc[o]) THEN {} ELSE {"sqlcl_error"}))
          /\ UNCHANGED troubles
       \/ /\ Trouble
          /\ \E run \in Faults : Conclude(o, Answer(run))
    /\ UNCHANGED <<account, orphans, profile, history>>

-----------------------------------------------------------------------------
(* A command is interrupted before it has audited anything.  SQLcl runs in *)
(* a process group of its own and goes on with the script.                 *)
Interrupted(o) ==
    /\ pc[o] \notin {"idle", "done"} /\ Trouble
    /\ pc' = [pc EXCEPT ![o] = "idle"]
    /\ orphans' = IF script[o] = {} THEN orphans ELSE orphans \cup {script[o]}
    /\ Idle(o) /\ Exit(o)
    /\ UNCHANGED <<account, profile>>

NextCommand(o) ==
    /\ Goto(o, "done", "idle")
    /\ Idle(o)
    /\ UNCHANGED <<database, profile, section, pre, post, script, applied>>

OrphanStatement ==
    /\ \E c \in orphans : \E s \in Heads(c) :
          \/ /\ Legal(account, s)
             /\ account' = Effect(account, s)
             /\ orphans' = (orphans \ {c}) \cup ({c \ {s}} \ {{}})
             /\ Disturb({})
          \/ /\ orphans' = orphans \ {c}
             /\ UNCHANGED <<account, disturbed>>
    /\ UNCHANGED <<troubles, pc, profile, command, changed>>

AdministratorActs ==
    /\ account.status # "absent" /\ Trouble
    /\ account' \in { [account EXCEPT !.roles = @ \cup {"DBA"}],
                      [account EXCEPT !.privileges = @ \ {"CREATE SESSION"}],
                      [account EXCEPT !.status = "LOCKED"],
                      [account EXCEPT !.status = "EXPIRED"] }
    /\ Disturb({})
    /\ UNCHANGED <<orphans, pc, profile, command, changed>>

ProvisionStep(o) ==
    \/ ReadSection(o) \/ Precheck(o) \/ ApplyStatement(o) \/ ApplyFails(o)
    \/ ApplyEnds(o) \/ Postcheck(o) \/ NextCommand(o)

Provision(o) ==
    \/ RefuseProvision(o) \/ ProvisionRaises(o) \/ BeginProvision(o) \/ ProvisionStep(o)
    \/ ApplyTimesOut(o) \/ InspectionFails(o)

Query(o) == RefuseQuery(o) \/ BeginQuery(o) \/ RunQuery(o) \/ NextCommand(o)

Next ==
    \/ \E o \in Provisioners : Provision(o)
    \/ \E o \in Queriers : Query(o)
    \/ \E o \in Operators : Interrupted(o)
    \/ OrphanStatement \/ AdministratorActs

(* Commands run on, the database works off what it was given, and whoever  *)
(* provisions runs the command again and again, in the end without any     *)
(* problem of the configuration.                                           *)
Fairness ==
    /\ \A o \in Provisioners : WF_vars(ProvisionStep(o)) /\ SF_vars(BeginProvision(o))
    /\ \A o \in Queriers : WF_vars(RunQuery(o) \/ NextCommand(o))
    /\ WF_vars(OrphanStatement)

Spec == Init /\ [][Next]_vars /\ Fairness

-----------------------------------------------------------------------------
Named(checks) == {checks[i] : i \in 1..Len(checks)}

Codes ==
    {"none"} \cup Named(ProvisionChecks) \cup Named(SmokeChecks) \cup Named(QueryChecks)
        \cup Named(RunChecks)

Records ==
    [state : {"none", "succeeded", "failed", "rejected", "timeout", "confirmation_required"},
     class : {"none", "already_compliant", "created", "granted_missing_privileges",
              "rejected_drift", "failed_incomplete", "failed"},
     attempted : BOOLEAN, code : Codes]

TypeOK ==
    /\ account \in Accounts /\ orphans \subseteq SUBSET Statements /\ troubles \in 0..MaxTroubles
    /\ pc \in [Operators -> {"idle", "pre", "apply", "post", "smoke", "query", "done"}]
    /\ profile \in [Operators -> Profiles] /\ section \in [Operators -> 1..6]
    /\ pre \in [Operators -> Accounts] /\ post \in [Operators -> Accounts]
    /\ script \in [Operators -> SUBSET Statements]
    /\ applied \in [Operators -> BOOLEAN] /\ record \in [Operators -> Records]
    /\ changed \in [Operators -> BOOLEAN]
    /\ disturbed \in [Operators -> {"never", "before", "now"}]

Provisioned(o) == pc[o] = "done" /\ record[o].class # "none"

(* If nobody else has changed the account since the command's last         *)
(* inspection began, its report is true of the database when it exits: a   *)
(* success means that the account meets the profile and a rejection that   *)
(* it has something the profile rules out.                                 *)
ReportIsTrue ==
    \A o \in Operators : Provisioned(o) /\ disturbed[o] # "now" =>
        /\ record[o].state = "succeeded" =>
              Compliant(account, profile[o]) /\ ~ Drifted(account, profile[o])
        /\ record[o].state = "rejected" => Drifted(account, profile[o])

(* docs/runbooks/operator-adw.md: rejected_drift "stops without applying   *)
(* any changes".  So it does unless somebody else changed the account      *)
(* during the command: its own repairs never are what it then rejects.     *)
RejectionLeavesAccountAlone ==
    \A o \in Operators :
        Provisioned(o) /\ record[o].state = "rejected" /\ disturbed[o] = "never" => ~ changed[o]

(* A command that ends by itself and has changed the account says so in    *)
(* the audit file, whatever went wrong in between.                         *)
ChangesAreAudited ==
    \A o \in Operators : Provisioned(o) /\ changed[o] => record[o].attempted

(* What an inspection asks for, a script can bring about: a command that   *)
(* ran its script to the end and inspected the account again has           *)
(* succeeded, unless somebody else changed the account on the way or its   *)
(* password has expired, for which the script has no statement.            *)
OnePassSuffices ==
    \A o \in Operators :
        /\ Provisioned(o) /\ disturbed[o] = "never"
        /\ record[o].class \in {"created", "granted_missing_privileges", "failed_incomplete"}
        => record[o].state = "succeeded" \/ account.status = "EXPIRED"

(* Partial repairs are repaired: if all provisioning is for one profile    *)
(* and is tried again and again, the account is in the end compliant for   *)
(* good, unless it has drifted or its password has expired, which only an  *)
(* administrator can mend.                                                 *)
RetriesRepair ==
    \A p \in Profiles :
        (\A o \in Provisioners : profile[o] = p) =>
            <>[](\/ Compliant(account, p) \/ Drifted(account, p)
                 \/ account.status = "EXPIRED")
=============================================================================
