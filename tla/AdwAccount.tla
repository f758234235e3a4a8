----------------------------- MODULE AdwAccount -----------------------------
(***************************************************************************)
(* The working user's account in the database, and what a grant profile of *)
(* "operator adw-provision-working-user" asks of it (agent_runtime/cli.py).*)
(*                                                                         *)
(* DBA stands for the roles DBA, PDB_DBA and RESOURCE, CREATE TABLE for    *)
(* the seven privileges that count as drift.                               *)
(***************************************************************************)
EXTENDS Naturals, Sequences, FiniteSets

CONSTANTS Tables,   \* SH_REQUIRED_TABLES
          NoItem    \* what a statement about the account itself names

Prototype == "prototype-any-table-read"
Production == "production-sh-read"
Profiles == {Prototype, Production}

Roles == {"DWROLE", "DBA"}
Privileges == {"CREATE SESSION", "SELECT ANY TABLE", "CREATE TABLE"}

(* synonyms[t]: what the user's private synonym t stands for.              *)
Accounts ==
    [status : {"absent", "OPEN", "LOCKED", "EXPIRED"},
     roles : SUBSET Roles, privileges : SUBSET Privileges, grants : SUBSET Tables,
     synonyms : [Tables -> {"none", "SH", "other"}]]

Blank ==
    [status |-> "absent", roles |-> {}, privileges |-> {}, grants |-> {},
     synonyms |-> [t \in Tables |-> "none"]]

-----------------------------------------------------------------------------
RequiredRoles(p) == IF p = Prototype THEN {"DWROLE"} ELSE {}

RequiredPrivileges(p) ==
    {"CREATE SESSION"} \cup (IF p = Prototype THEN {"SELECT ANY TABLE"} ELSE {})

RequiredGrants(p) == IF p = Production THEN Tables ELSE {}

DriftRoles(p) == {"DBA"} \cup (IF p = Production THEN {"DWROLE"} ELSE {})

DriftPrivileges(p) ==
    {"CREATE TABLE"} \cup (IF p = Production THEN {"SELECT ANY TABLE"} ELSE {})

(* The sections of an inspection are selects of their own, in this order.  *)
Sections(p) ==
    <<"status", "roles", "privileges", "synonyms">>
        \o (IF p = Production THEN <<"grants">> ELSE <<>>)

(* What the selects return of an account.                                  *)
Visible(a, p) ==
    [a EXCEPT !.roles = @ \cap (RequiredRoles(p) \cup DriftRoles(p)),
              !.privileges = @ \cap (RequiredPrivileges(p) \cup DriftPrivileges(p)),
              !.grants = @ \cap RequiredGrants(p)]

Observed(v) == v # Blank

Drifted(v, p) ==
    \/ v.roles \cap DriftRoles(p) # {}
    \/ v.privileges \cap DriftPrivileges(p) # {}
    \/ \E t \in Tables : v.synonyms[t] = "other"

Compliant(v, p) ==
    /\ v.status = "OPEN"
    /\ RequiredRoles(p) \subseteq v.roles
    /\ RequiredPrivileges(p) \subseteq v.privileges
    /\ RequiredGrants(p) \subseteq v.grants
    /\ \A t \in Tables : v.synonyms[t] = "SH"

(* classification of a finished command, from its two inspections.         *)
PostClass(pre, post, p) ==
    IF ~ Observed(post) THEN "granted_missing_privileges"
    ELSE IF Drifted(post, p) THEN "rejected_drift"
    ELSE IF ~ Compliant(post, p) THEN "failed_incomplete"
    ELSE IF pre.status = "absent" THEN "created"
    ELSE "granted_missing_privileges"

-----------------------------------------------------------------------------
(* The kinds of statements of a script, in the order of the script.        *)
Ordered == [create_user |-> 1, unlock_user |-> 1, grant_system_privilege |-> 2,
            grant_role |-> 3, default_role_all |-> 4, grant_object |-> 5, create_synonym |-> 6]

Statements ==
    (DOMAIN Ordered) \X (Roles \cup Privileges \cup Tables \cup {NoItem})

(* Mutation: only a missing account is repaired.                           *)
CreationOnly(v) == IF v.status = "absent" THEN {<<"create_user", NoItem>>} ELSE {}

(* The statements that repair what an inspection found.                    *)
AccountRepairs(v) ==
    IF v.status = "absent" THEN {<<"create_user", NoItem>>}
    ELSE IF v.status # "OPEN" THEN {<<"unlock_user", NoItem>>} ELSE {}

Repairs(v, p) ==
    LET missingRoles == RequiredRoles(p) \ v.roles IN
    UNION {
        AccountRepairs(v),
        {"grant_system_privilege"} \X (RequiredPrivileges(p) \ v.privileges),
        {"grant_role"} \X missingRoles,
        IF "DWROLE" \in missingRoles THEN {<<"default_role_all", NoItem>>} ELSE {},
        {"grant_object"} \X (RequiredGrants(p) \ v.grants),
        {"create_synonym"} \X {t \in Tables : v.synonyms[t] # "SH"} }

(* A statement that may come next in a script.                             *)
Heads(script) == {s \in script : \A r \in script : Ordered[s[1]] <= Ordered[r[1]]}

(* The database refuses to create a user twice and to alter an absent one. *)
Legal(a, s) == s[1] = "create_user" <=> a.status = "absent"

(* Mutation: the synonym stands for itself.                                *)
SelfSynonym(a, t) == [a EXCEPT !.synonyms[t] = t]

Resolve(a, t) == [a EXCEPT !.synonyms[t] = "SH"]

Effect(a, s) ==
    CASE s[1] = "create_user" -> [a EXCEPT !.status = "OPEN"]
      [] s[1] = "unlock_user" -> [a EXCEPT !.status = IF @ = "LOCKED" THEN "OPEN" ELSE @]
      [] s[1] = "grant_system_privilege" -> [a EXCEPT !.privileges = @ \cup {s[2]}]
      [] s[1] = "grant_role" -> [a EXCEPT !.roles = @ \cup {s[2]}]
      [] s[1] = "default_role_all" -> a
      [] s[1] = "grant_object" -> [a EXCEPT !.grants = @ \cup {s[2]}]
      [] s[1] = "create_synonym" -> Resolve(a, s[2])

(* The working user can log in and read every table under its own name.    *)
CanQuery(a) ==
    /\ a.status = "OPEN" /\ "CREATE SESSION" \in a.privileges
    /\ \A t \in Tables :
          /\ a.synonyms[t] = "SH"
          /\ t \in a.grants \/ "SELECT ANY TABLE" \in a.privileges
=============================================================================
