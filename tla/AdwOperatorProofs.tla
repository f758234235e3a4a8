------------------------- MODULE AdwOperatorProofs -------------------------
(***************************************************************************)
(* Proofs about the operator commands, for any number of operators,        *)
(* tables, problems, faults and troubles.                                  *)
(***************************************************************************)
EXTENDS AdwOperator, WellFoundedInduction, TLAPS

Relevant(p) ==
    [roles |-> RequiredRoles(p) \cup DriftRoles(p),
     privileges |-> RequiredPrivileges(p) \cup DriftPrivileges(p)]

(* What the sections before the n-th have read is what account a holds.    *)
ReadOf(a, p, v, n) ==
    /\ n > 1 => v.status = a.status
    /\ n > 2 => v.roles = a.roles \cap Relevant(p).roles
    /\ n > 3 => v.privileges = a.privileges \cap Relevant(p).privileges
    /\ n > 4 => v.synonyms = a.synonyms
    /\ n > 5 => v.grants = a.grants \cap RequiredGrants(p)

(* What a repair never does is what the profile calls drift.               *)
Harmless(s, p) ==
    \/ s[1] \in {"create_user", "unlock_user", "default_role_all"}
    \/ s[1] = "grant_object" /\ s[2] \in Tables
    \/ s[1] = "grant_system_privilege" /\ s[2] \in RequiredPrivileges(p)
    \/ s[1] = "grant_role" /\ s[2] \in RequiredRoles(p)
    \/ s[1] = "create_synonym" /\ s[2] \in Tables

Types ==
    /\ account \in Accounts
    /\ profile \in [Operators -> Profiles]
    /\ pc \in [Operators -> {"idle", "pre", "apply", "post", "smoke", "query", "done"}]
    /\ section \in [Operators -> Nat \ {0}]
    /\ pre \in [Operators -> Accounts] /\ post \in [Operators -> Accounts]
    /\ disturbed \in [Operators -> {"never", "before", "now"}]
    /\ DOMAIN script = Operators /\ DOMAIN applied = Operators /\ DOMAIN record = Operators
    /\ DOMAIN changed = Operators
    /\ \A o \in Operators : \A s \in script[o] : Harmless(s, profile[o])
    /\ \A c \in orphans : \A s \in c : \E p \in Profiles : Harmless(s, p)

(* Nobody else has changed the account since the command began, or since   *)
(* its last inspection began.                                              *)
Alone(o) == disturbed[o] = "never"
Recent(o) == disturbed[o] # "now"

Quiet(o) == pc[o] \in {"idle", "pre", "smoke", "query"} => ~ changed[o] /\ disturbed[o] # "before"

Repairing(o) ==
    pc[o] = "apply" =>
        /\ script[o] # {} => applied[o]
        /\ changed[o] => applied[o]
        /\ Alone(o) => ~ Drifted(account, profile[o])
        /\ disturbed[o] # "before"

Inspecting(o) ==
    /\ pc[o] \in {"idle", "smoke", "query", "done"} => section[o] = 1
    /\ pc[o] = "idle" => Alone(o)
    /\ pc[o] = "pre" /\ Recent(o) => ReadOf(account, profile[o], pre[o], section[o])
    /\ pc[o] = "post" =>
          /\ Recent(o) => ReadOf(account, profile[o], post[o], section[o])
          /\ changed[o] => applied[o]
          /\ Alone(o) => ~ Drifted(account, profile[o])

Reported(o) ==
    Provisioned(o) =>
        /\ changed[o] => record[o].attempted
        /\ Recent(o) /\ record[o].state = "succeeded" =>
              Compliant(account, profile[o]) /\ ~ Drifted(account, profile[o])
        /\ Recent(o) /\ record[o].state = "rejected" => Drifted(account, profile[o])
        /\ Alone(o) /\ record[o].state = "rejected" => ~ changed[o]

Fits(o) == Quiet(o) /\ Repairing(o) /\ Inspecting(o) /\ Reported(o)

IInv == Types /\ \A o \in Operators : Fits(o)

-----------------------------------------------------------------------------
(* Operators on accounts.                                                  *)
LEMMA BlankIsAccount == Blank \in Accounts
  BY DEF Blank, Accounts

LEMMA RequiredIsNotDrift ==
    ASSUME NEW p \in Profiles
    PROVE  /\ RequiredRoles(p) \subseteq Roles \ DriftRoles(p)
           /\ RequiredPrivileges(p) \subseteq Privileges \ DriftPrivileges(p)
  BY DEF Profiles, Prototype, Production, RequiredRoles, DriftRoles, RequiredPrivileges,
         DriftPrivileges, Roles, Privileges

LEMMA EffectOfRepair ==
    ASSUME NEW a \in Accounts, NEW p \in Profiles, NEW s, Harmless(s, p)
    PROVE  /\ Effect(a, s) \in Accounts
           /\ ~ Drifted(a, p) => ~ Drifted(Effect(a, s), p)
  <1>1. CASE s[1] = "create_user"
    <2>1. Effect(a, s) = [a EXCEPT !.status = "OPEN"]
      BY <1>1 DEF Effect
    <2> QED BY <2>1 DEF Accounts, Drifted
  <1>2. CASE s[1] = "unlock_user"
    <2>1. Effect(a, s) = [a EXCEPT !.status = IF @ = "LOCKED" THEN "OPEN" ELSE @]
      BY <1>2 DEF Effect
    <2> QED BY <2>1 DEF Accounts, Drifted
  <1>3. CASE s[1] = "default_role_all"
    <2>1. Effect(a, s) = a
      BY <1>3 DEF Effect
    <2> QED BY <2>1
  <1>4. CASE s[1] = "grant_object" /\ s[2] \in Tables
    <2>1. Effect(a, s) = [a EXCEPT !.grants = @ \cup {s[2]}]
      BY <1>4 DEF Effect
    <2> QED BY <1>4, <2>1 DEF Accounts, Drifted
  <1>5. CASE s[1] = "grant_system_privilege" /\ s[2] \in RequiredPrivileges(p)
    <2>1. Effect(a, s) = [a EXCEPT !.privileges = @ \cup {s[2]}]
      BY <1>5 DEF Effect
    <2> QED BY <1>5, <2>1, RequiredIsNotDrift DEF Accounts, Drifted
  <1>6. CASE s[1] = "grant_role" /\ s[2] \in RequiredRoles(p)
    <2>1. Effect(a, s) = [a EXCEPT !.roles = @ \cup {s[2]}]
      BY <1>6 DEF Effect
    <2> QED BY <1>6, <2>1, RequiredIsNotDrift DEF Accounts, Drifted
  <1>7. CASE s[1] = "create_synonym" /\ s[2] \in Tables
    <2>1. Effect(a, s) = [a EXCEPT !.synonyms[s[2]] = "SH"]
      BY <1>7 DEF Effect, Resolve
    <2> QED BY <1>7, <2>1 DEF Accounts, Drifted
  <1> QED BY <1>1, <1>2, <1>3, <1>4, <1>5, <1>6, <1>7 DEF Harmless

(* An inspection that read everything judges as the account is.            *)
LEMMA CompleteReading ==
    ASSUME NEW a \in Accounts, NEW v \in Accounts, NEW p \in Profiles, NEW n \in Nat,
           ReadOf(a, p, v, n), n > Len(Sections(p))
    PROVE  /\ Drifted(v, p) <=> Drifted(a, p)
           /\ Compliant(v, p) <=> Compliant(a, p)
  <1>1. n > 4 /\ (p = Production => n > 5)
    <2>1. CASE p = Prototype
      BY <2>1 DEF Sections, Prototype, Production
    <2>2. CASE p = Production
      BY <2>2 DEF Sections, Prototype, Production
    <2> QED BY <2>1, <2>2 DEF Profiles
  <1>2. /\ v.status = a.status /\ v.synonyms = a.synonyms
        /\ v.roles = a.roles \cap (RequiredRoles(p) \cup DriftRoles(p))
        /\ v.privileges = a.privileges \cap (RequiredPrivileges(p) \cup DriftPrivileges(p))
        /\ p = Production => v.grants = a.grants \cap RequiredGrants(p)
    BY <1>1 DEF ReadOf, Relevant
  <1>3. Drifted(v, p) <=> Drifted(a, p)
    BY <1>2 DEF Drifted
  <1>4. RequiredRoles(p) \subseteq v.roles <=> RequiredRoles(p) \subseteq a.roles
    BY <1>2
  <1>5. RequiredPrivileges(p) \subseteq v.privileges <=> RequiredPrivileges(p) \subseteq a.privileges
    BY <1>2
  <1>6. RequiredGrants(p) \subseteq v.grants <=> RequiredGrants(p) \subseteq a.grants
    <2>1. CASE p = Production
      BY <1>2, <2>1
    <2>2. CASE p # Production
      BY <2>2 DEF RequiredGrants
    <2> QED BY <2>1, <2>2
  <1> QED BY <1>2, <1>3, <1>4, <1>5, <1>6 DEF Compliant

LEMMA RepairsAreHarmless ==
    ASSUME NEW v \in Accounts, NEW p \in Profiles, NEW s \in Repairs(v, p)
    PROVE  Harmless(s, p)
  <1> DEFINE missing == RequiredRoles(p) \ v.roles
  <1>1. \/ s \in AccountRepairs(v)
        \/ s \in {"grant_system_privilege"} \X (RequiredPrivileges(p) \ v.privileges)
        \/ s \in {"grant_role"} \X missing
        \/ s \in (IF "DWROLE" \in missing THEN {<<"default_role_all", NoItem>>} ELSE {})
        \/ s \in {"grant_object"} \X (RequiredGrants(p) \ v.grants)
        \/ s \in {"create_synonym"} \X {t \in Tables : v.synonyms[t] # "SH"}
    BY DEF Repairs
  <1>2. CASE s \in AccountRepairs(v)
    BY <1>2 DEF AccountRepairs, Harmless
  <1>3. CASE s \in {"grant_system_privilege"} \X (RequiredPrivileges(p) \ v.privileges)
    BY <1>3 DEF Harmless
  <1>4. CASE s \in {"grant_role"} \X missing
    BY <1>4 DEF Harmless
  <1>5. CASE s \in (IF "DWROLE" \in missing THEN {<<"default_role_all", NoItem>>} ELSE {})
    BY <1>5 DEF Harmless
  <1>6. CASE s \in {"grant_object"} \X (RequiredGrants(p) \ v.grants)
    BY <1>6 DEF Harmless, RequiredGrants
  <1>7. CASE s \in {"create_synonym"} \X {t \in Tables : v.synonyms[t] # "SH"}
    BY <1>7 DEF Harmless
  <1> QED BY <1>1, <1>2, <1>3, <1>4, <1>5, <1>6, <1>7
LEMMA FourAndOne ==
    ASSUME NEW S, NEW A, NEW B
    PROVE  /\ A \in Seq(S) /\ Len(A) = 4 /\ B \in Seq(S) /\ Len(B) = 1
           => /\ Len(A \o B) = 5 /\ (A \o B)[5] = B[1]
              /\ \A i \in 1..4 : (A \o B)[i] = A[i]
  <1> SUFFICES ASSUME A \in Seq(S), B \in Seq(S)
               PROVE  Len(A) = 4 /\ Len(B) = 1
                        => /\ Len(A \o B) = 5 /\ (A \o B)[5] = B[1]
                           /\ \A i \in 1..4 : (A \o B)[i] = A[i]
    OBVIOUS
  <1> DEFINE C == A \o B
  <1>1. /\ Len(C) = Len(A) + Len(B)
        /\ \A i \in 1..Len(A) : C[i] = A[i]
        /\ \A i \in 1..Len(B) : C[Len(A) + i] = B[i]
    OBVIOUS
  <1> HIDE DEF C
  <1>2. Len(A) = 4 /\ Len(B) = 1 => Len(C) = 5 /\ C[5] = B[1] /\ \A i \in 1..4 : C[i] = A[i]
    BY <1>1
  <1> QED BY <1>2 DEF C

(* A section adds what it reads to what was read before.                   *)
LEMMA SectionAdds ==
    ASSUME NEW a \in Accounts, NEW v \in Accounts, NEW p \in Profiles, NEW n \in Nat \ {0},
           n <= Len(Sections(p)),
           NEW f, f = Sections(p)[n],
           NEW w, w = [v EXCEPT ![f] = Visible(a, p)[f]]
    PROVE  /\ w \in Accounts
           /\ ReadOf(a, p, v, n) => ReadOf(a, p, w, n + 1)
  <1> DEFINE u == Visible(a, p)
  <1>1. /\ u.status = a.status /\ u.synonyms = a.synonyms
        /\ u.roles = a.roles \cap Relevant(p).roles
        /\ u.privileges = a.privileges \cap Relevant(p).privileges
        /\ u.grants = a.grants \cap RequiredGrants(p)
    BY DEF Visible, Accounts, Relevant
  <1> HIDE DEF u
  <1>2. \/ n = 1 /\ f = "status"
        \/ n = 2 /\ f = "roles"
        \/ n = 3 /\ f = "privileges"
        \/ n = 4 /\ f = "synonyms"
        \/ n = 5 /\ f = "grants"
    <2>1. CASE p = Prototype
      <3>1. Sections(p) = <<"status", "roles", "privileges", "synonyms">>
        BY <2>1 DEF Sections, Prototype, Production
      <3> QED BY <3>1
    <2>2. CASE p = Production
      <3> DEFINE A == <<"status", "roles", "privileges", "synonyms">>  B == <<"grants">>
                 Names == {"status", "roles", "privileges", "synonyms", "grants"}
      <3>1. /\ A \in Seq(Names) /\ Len(A) = 4 /\ A[1] = "status" /\ A[2] = "roles"
            /\ A[3] = "privileges" /\ A[4] = "synonyms"
            /\ B \in Seq(Names) /\ Len(B) = 1 /\ B[1] = "grants"
        OBVIOUS
      <3>2. Sections(p) = A \o B
        BY <2>2 DEF Sections, Prototype, Production
      <3> HIDE DEF A, B, Names
      <3>3. /\ A \in Seq(Names) /\ Len(A) = 4 /\ B \in Seq(Names) /\ Len(B) = 1
            => /\ Len(A \o B) = 5 /\ (A \o B)[5] = B[1]
               /\ \A i \in 1..4 : (A \o B)[i] = A[i]
        BY FourAndOne
      <3> QED BY <3>1, <3>2, <3>3
    <2> QED BY <2>1, <2>2 DEF Profiles
  <1>3. CASE n = 1 /\ f = "status"
    <2>1. w = [v EXCEPT !.status = a.status]
      BY <1>1, <1>3 DEF u
    <2> QED BY <1>3, <2>1 DEF Accounts, ReadOf
  <1>4. CASE n = 2 /\ f = "roles"
    <2>1. w = [v EXCEPT !.roles = a.roles \cap Relevant(p).roles]
      BY <1>1, <1>4 DEF u
    <2> QED BY <1>4, <2>1 DEF Accounts, ReadOf
  <1>5. CASE n = 3 /\ f = "privileges"
    <2>1. w = [v EXCEPT !.privileges = a.privileges \cap Relevant(p).privileges]
      BY <1>1, <1>5 DEF u
    <2> QED BY <1>5, <2>1 DEF Accounts, ReadOf
  <1>6. CASE n = 4 /\ f = "synonyms"
    <2>1. w = [v EXCEPT !.synonyms = a.synonyms]
      BY <1>1, <1>6 DEF u
    <2> QED BY <1>6, <2>1 DEF Accounts, ReadOf
  <1>7. CASE n = 5 /\ f = "grants"
    <2>1. w = [v EXCEPT !.grants = a.grants \cap RequiredGrants(p)]
      BY <1>1, <1>7 DEF u
    <2> QED BY <1>7, <2>1 DEF Accounts, ReadOf
  <1> QED BY <1>2, <1>3, <1>4, <1>5, <1>6, <1>7

-----------------------------------------------------------------------------
(* What one operator's step leaves of another's command.                   *)
Same(q) ==
    /\ pc'[q] = pc[q] /\ profile'[q] = profile[q] /\ section'[q] = section[q]
    /\ pre'[q] = pre[q] /\ post'[q] = post[q] /\ script'[q] = script[q]
    /\ applied'[q] = applied[q] /\ record'[q] = record[q] /\ changed'[q] = changed[q]

Disturbs(q) ==
    \/ account' = account /\ disturbed'[q] = disturbed[q]
    \/ disturbed'[q] = IF pc[q] = "idle" THEN disturbed[q] ELSE "now"

LEMMA Bystander ==
    ASSUME NEW q \in Operators, Fits(q), Same(q), Disturbs(q)
    PROVE  Fits(q)'
  <1>1. CASE account' = account /\ disturbed'[q] = disturbed[q]
    BY <1>1 DEF Same, Fits, Quiet, Repairing, Inspecting, Reported, Provisioned, Alone, Recent
  <1>2. CASE pc[q] = "idle" /\ disturbed'[q] = disturbed[q]
    BY <1>2 DEF Same, Fits, Quiet, Repairing, Inspecting, Reported, Provisioned, Alone, Recent
  <1>3. CASE pc[q] # "idle" /\ disturbed'[q] = "now"
    BY <1>3 DEF Same, Fits, Quiet, Repairing, Inspecting, Reported, Provisioned, Alone, Recent
  <1> QED BY <1>1, <1>2, <1>3 DEF Disturbs

(* Nothing is inspected, repaired or reported before the first command.    *)
LEMMA Initially ==
    Init => IInv
  <1> SUFFICES ASSUME Init PROVE IInv
    OBVIOUS
  <1>1. Types
    BY BlankIsAccount, AccountsAssumption DEF Init, Types
  <1>2. ASSUME NEW o \in Operators PROVE Fits(o)
    BY <1>2 DEF Init, Fits, Quiet, Repairing, Inspecting, Reported, Provisioned, Alone, Recent
  <1> QED BY <1>1, <1>2 DEF IInv

-----------------------------------------------------------------------------
(* The steps of a command.                                                 *)
LEMMA ReadSectionKeeps ==
    ASSUME IInv, NEW o \in Operators, ReadSection(o)
    PROVE  IInv'
  <1> DEFINE p == profile[o]
             f == Sections(p)[section[o]]
             newPre == [pre[o] EXCEPT ![f] = Visible(account, p)[f]]
             newPost == [post[o] EXCEPT ![f] = Visible(account, p)[f]]
  <1>1. /\ account \in Accounts /\ p \in Profiles /\ section[o] \in Nat \ {0}
        /\ pre[o] \in Accounts /\ post[o] \in Accounts
    BY DEF IInv, Types
  <1>2. section[o] <= Len(Sections(p))
    BY DEF ReadSection
  <1>3. /\ newPre \in Accounts /\ newPost \in Accounts
        /\ ReadOf(account, p, pre[o], section[o]) => ReadOf(account, p, newPre, section[o] + 1)
        /\ ReadOf(account, p, post[o], section[o]) => ReadOf(account, p, newPost, section[o] + 1)
    BY <1>1, <1>2, SectionAdds
  <1>4. /\ pc[o] \in {"pre", "post"} /\ section' = [section EXCEPT ![o] = @ + 1]
        /\ pre' = IF pc[o] = "pre" THEN [pre EXCEPT ![o] = newPre] ELSE pre
        /\ post' = IF pc[o] = "post" THEN [post EXCEPT ![o] = newPost] ELSE post
        /\ UNCHANGED <<account, orphans, disturbed, changed, pc, profile, script, applied, record>>
    BY DEF ReadSection, database, history
  <1> HIDE DEF p, f, newPre, newPost
  <1>5. Types'
    BY <1>3, <1>4 DEF IInv, Types
  <1>6. ASSUME NEW q \in Operators, q # o PROVE Fits(q)'
    BY <1>4, <1>6, Bystander DEF Same, Disturbs, IInv, Types
  <1>7. Fits(o)'
    <2>1. profile'[o] = p /\ account' = account /\ section'[o] = section[o] + 1
      BY <1>4 DEF p, IInv, Types
    <2>2. CASE pc[o] = "pre"
      BY <1>3, <1>4, <2>1, <2>2
         DEF p, IInv, Types, Fits, Quiet, Repairing, Inspecting, Reported, Provisioned, Alone, Recent
    <2>3. CASE pc[o] = "post"
      BY <1>3, <1>4, <2>1, <2>3
         DEF p, IInv, Types, Fits, Quiet, Repairing, Inspecting, Reported, Provisioned, Alone, Recent
    <2> QED BY <1>4, <2>2, <2>3
  <1> QED BY <1>5, <1>6, <1>7 DEF IInv
(* A report that fits the account and the command's history.               *)
Truthful(o, r) ==
    r.class # "none" =>
        /\ changed[o] => r.attempted
        /\ Recent(o) /\ r.state = "succeeded" =>
              Compliant(account, profile[o]) /\ ~ Drifted(account, profile[o])
        /\ Recent(o) /\ r.state = "rejected" => Drifted(account, profile[o])
        /\ Alone(o) /\ r.state = "rejected" => ~ changed[o]

LEMMA ConcludeKeeps ==
    ASSUME IInv, NEW o \in Operators, NEW r, Truthful(o, r),
           Conclude(o, r), pc' = [pc EXCEPT ![o] = "done"],
           UNCHANGED <<account, profile, history>>,
           \A c \in orphans' : \A s \in c : \E p \in Profiles : Harmless(s, p)
    PROVE  IInv'
  <1>1. /\ record' = [record EXCEPT ![o] = r] /\ section' = [section EXCEPT ![o] = 1]
        /\ pre' = [pre EXCEPT ![o] = Blank] /\ post' = [post EXCEPT ![o] = Blank]
        /\ script' = [script EXCEPT ![o] = {}] /\ applied' = [applied EXCEPT ![o] = FALSE]
        /\ UNCHANGED <<account, profile, changed, disturbed>>
    BY DEF Conclude, Exit, history
  <1>2. Types'
    BY <1>1, BlankIsAccount DEF IInv, Types
  <1>3. ASSUME NEW q \in Operators, q # o PROVE Fits(q)'
    BY <1>1, <1>3, Bystander DEF Same, Disturbs, IInv, Types
  <1>4. Fits(o)'
    <2>1. pc'[o] = "done" /\ record'[o] = r /\ section'[o] = 1
      BY <1>1 DEF IInv, Types
    <2>2. Quiet(o)' /\ Repairing(o)' /\ Inspecting(o)'
      BY <2>1 DEF Quiet, Repairing, Inspecting
    <2>3. Reported(o)'
      BY <1>1, <2>1 DEF Truthful, Reported, Provisioned, Alone, Recent
    <2> QED BY <2>2, <2>3 DEF Fits
  <1> QED BY <1>2, <1>3, <1>4 DEF IInv

LEMMA PrecheckKeeps ==
    ASSUME IInv, NEW o \in Operators, Precheck(o)
    PROVE  IInv'
  <1> DEFINE p == profile[o]  seen == pre[o]
  <1>1. /\ account \in Accounts /\ p \in Profiles /\ section[o] \in Nat \ {0} /\ seen \in Accounts
        /\ pc[o] = "pre" /\ section[o] > Len(Sections(p))
    BY DEF IInv, Types, Precheck, InspectionEnds, Goto
  <1>2. ~ changed[o] /\ disturbed[o] # "before"
        /\ (Recent(o) => ReadOf(account, p, seen, section[o]))
    BY <1>1 DEF IInv, Fits, Quiet, Inspecting
  <1>3. Recent(o) => /\ Drifted(seen, p) <=> Drifted(account, p)
                     /\ Compliant(seen, p) <=> Compliant(account, p)
    BY <1>1, <1>2, CompleteReading
  <1>4. UNCHANGED <<account, orphans, profile, history>>
    BY DEF Precheck, database
  <1>5. \A c \in orphans' : \A s \in c : \E x \in Profiles : Harmless(s, x)
    BY <1>4 DEF IInv, Types
  <1>6. CASE Drifted(seen, p) /\ Goto(o, "pre", "done")
             /\ Conclude(o, Outcome(o, "rejected", "rejected_drift"))
    <2>1. Truthful(o, Outcome(o, "rejected", "rejected_drift"))
      BY <1>2, <1>3, <1>6 DEF Truthful, Outcome
    <2> QED BY <1>4, <1>5, <1>6, <2>1, ConcludeKeeps DEF Goto
  <1>7. CASE ~ Drifted(seen, p) /\ Compliant(seen, p) /\ Goto(o, "pre", "done")
             /\ Conclude(o, Outcome(o, "succeeded", "already_compliant"))
    <2>1. Truthful(o, Outcome(o, "succeeded", "already_compliant"))
      BY <1>2, <1>3, <1>7 DEF Truthful, Outcome
    <2> QED BY <1>4, <1>5, <1>7, <2>1, ConcludeKeeps DEF Goto
  <1>8. CASE /\ ~ Drifted(seen, p) /\ Goto(o, "pre", "apply")
             /\ script' = [script EXCEPT ![o] = Repairs(seen, p)]
             /\ applied' = [applied EXCEPT ![o] = Repairs(seen, p) # {}]
             /\ UNCHANGED <<section, pre, post, record>>
    <2>1. pc' = [pc EXCEPT ![o] = "apply"] /\ UNCHANGED <<changed, disturbed>>
      BY <1>4, <1>8 DEF Goto, history
    <2>2. \A s \in Repairs(seen, p) : Harmless(s, p)
      BY <1>1, RepairsAreHarmless
    <2>3. Types'
      BY <1>4, <1>5, <1>8, <2>1, <2>2 DEF IInv, Types
    <2>4. ASSUME NEW q \in Operators, q # o PROVE Fits(q)'
      BY <1>4, <1>8, <2>1, <2>4, Bystander DEF Same, Disturbs, IInv, Types
    <2>5. /\ pc'[o] = "apply" /\ script'[o] = Repairs(seen, p)
          /\ applied'[o] = (Repairs(seen, p) # {})
      BY <1>8, <2>1 DEF IInv, Types
    <2>6. Repairing(o)'
      BY <1>2, <1>3, <1>4, <1>8, <2>1, <2>5 DEF Repairing, Alone, Recent
    <2>7. Fits(o)'
      BY <2>5, <2>6 DEF Fits, Quiet, Inspecting, Reported, Provisioned
    <2> QED BY <2>3, <2>4, <2>7 DEF IInv
  <1> QED BY <1>6, <1>7, <1>8 DEF Precheck

LEMMA ApplyStatementKeeps ==
    ASSUME IInv, NEW o \in Operators, ApplyStatement(o)
    PROVE  IInv'
  <1> DEFINE p == profile[o]
  <1>1. PICK s \in Heads(script[o]) : /\ account' = Effect(account, s)
                                     /\ script' = [script EXCEPT ![o] = @ \ {s}]
    BY DEF ApplyStatement
  <1>2. /\ pc[o] = "apply" /\ changed' = [changed EXCEPT ![o] = TRUE] /\ Disturb({o})
        /\ UNCHANGED <<orphans, pc, profile, section, pre, post, applied, record>>
    BY DEF ApplyStatement
  <1>3. s \in script[o] /\ Harmless(s, p) /\ account \in Accounts /\ p \in Profiles
    BY DEF Heads, IInv, Types
  <1>4. account' \in Accounts /\ (~ Drifted(account, p) => ~ Drifted(account', p))
    BY <1>1, <1>3, EffectOfRepair
  <1>5. disturbed' = [q \in Operators |-> IF q = o \/ pc[q] = "idle" THEN disturbed[q] ELSE "now"]
    BY <1>2 DEF Disturb
  <1>6. Types'
    BY <1>1, <1>2, <1>4, <1>5 DEF IInv, Types
  <1>7. ASSUME NEW q \in Operators, q # o PROVE Fits(q)'
    BY <1>1, <1>2, <1>5, <1>7, Bystander DEF Same, Disturbs, IInv, Types
  <1>8. /\ disturbed'[o] = disturbed[o] /\ applied[o] /\ applied'[o] = applied[o]
        /\ pc'[o] = "apply" /\ profile'[o] = p
    BY <1>2, <1>3, <1>5 DEF IInv, Fits, Repairing
  <1>9. disturbed[o] # "before" /\ (Alone(o) => ~ Drifted(account', p))
    BY <1>2, <1>4 DEF IInv, Fits, Repairing
  <1>10. Repairing(o)'
    BY <1>8, <1>9 DEF Repairing, Alone
  <1>11. Fits(o)'
    BY <1>8, <1>10 DEF Fits, Quiet, Inspecting, Reported, Provisioned
  <1> QED BY <1>6, <1>7, <1>11 DEF IInv

LEMMA ApplyStopsKeeps ==
    ASSUME IInv, NEW o \in Operators, ApplyFails(o) \/ ApplyTimesOut(o)
    PROVE  IInv'
  <1>1. /\ pc[o] = "apply" /\ pc' = [pc EXCEPT ![o] = "done"] /\ Conclude(o, ApplyFailure(o))
        /\ UNCHANGED <<account, profile, history>>
        /\ orphans' = orphans \/ \E s \in Heads(script[o]) : orphans' = orphans \cup {{s}}
    BY DEF ApplyFails, ApplyTimesOut, Goto
  <1>2. \A c \in orphans' : \A s \in c : \E p \in Profiles : Harmless(s, p)
    BY <1>1 DEF Heads, IInv, Types
  <1>3. Truthful(o, ApplyFailure(o))
    BY <1>1 DEF Truthful, ApplyFailure, Outcome, IInv, Fits, Repairing
  <1> QED BY <1>1, <1>2, <1>3, ConcludeKeeps

LEMMA ApplyEndsKeeps ==
    ASSUME IInv, NEW o \in Operators, ApplyEnds(o)
    PROVE  IInv'
  <1>1. /\ pc[o] = "apply" /\ pc' = [pc EXCEPT ![o] = "post"]
        /\ section' = [section EXCEPT ![o] = 1]
        /\ disturbed' = [disturbed EXCEPT ![o] = IF @ = "now" THEN "before" ELSE @]
        /\ UNCHANGED <<account, orphans, profile, pre, post, script, applied, record, changed>>
    BY DEF ApplyEnds, Goto, database
  <1>2. Types'
    BY <1>1 DEF IInv, Types
  <1>3. ASSUME NEW q \in Operators, q # o PROVE Fits(q)'
    BY <1>1, <1>3, Bystander DEF Same, Disturbs, IInv, Types
  <1>4. pc'[o] = "post" /\ section'[o] = 1
        /\ disturbed'[o] = IF disturbed[o] = "now" THEN "before" ELSE disturbed[o]
    BY <1>1 DEF IInv, Types
  <1>5. ReadOf(account', profile'[o], post'[o], section'[o])
    BY <1>4 DEF ReadOf
  <1>6. Fits(o)'
    BY <1>1, <1>4, <1>5
       DEF IInv, Fits, Quiet, Repairing, Inspecting, Reported, Provisioned, Alone, Recent
  <1> QED BY <1>2, <1>3, <1>6 DEF IInv
LEMMA PostcheckKeeps ==
    ASSUME IInv, NEW o \in Operators, Postcheck(o)
    PROVE  IInv'
  <1> DEFINE p == profile[o]  seen == post[o]
  <1>1. /\ account \in Accounts /\ p \in Profiles /\ section[o] \in Nat \ {0} /\ seen \in Accounts
        /\ pc[o] = "post" /\ section[o] > Len(Sections(p)) /\ pc' = [pc EXCEPT ![o] = "done"]
        /\ UNCHANGED <<account, orphans, profile, history>> /\ Conclude(o, PostOutcome(o))
    BY DEF IInv, Types, Postcheck, InspectionEnds, Goto, database
  <1>2. /\ changed[o] => applied[o]
        /\ Alone(o) => ~ Drifted(account, p)
        /\ Recent(o) => ReadOf(account, p, seen, section[o])
    BY <1>1 DEF IInv, Fits, Inspecting
  <1>3. Recent(o) => /\ Drifted(seen, p) <=> Drifted(account, p)
                     /\ Compliant(seen, p) <=> Compliant(account, p)
    BY <1>1, <1>2, CompleteReading
  <1> DEFINE class == PostClass(pre[o], seen, p)
  <1>4. class = "rejected_drift" => Drifted(seen, p)
    BY DEF PostClass
  <1>5. class \in {"created", "granted_missing_privileges"} /\ Compliant(seen, p) => ~ Drifted(seen, p)
    <2>1. CASE Observed(seen)
      BY <2>1 DEF PostClass
    <2>2. CASE ~ Observed(seen)
      BY <2>2 DEF Observed, Blank, Compliant
    <2> QED BY <2>1, <2>2
  <1> HIDE DEF class
  <1>6. /\ PostOutcome(o).attempted = applied[o]
        /\ PostOutcome(o).state = "rejected" => class = "rejected_drift"
        /\ PostOutcome(o).state = "succeeded" =>
              class \in {"created", "granted_missing_privileges"} /\ Compliant(seen, p)
    BY DEF PostOutcome, Outcome, class
  <1>7. Truthful(o, PostOutcome(o))
    BY <1>2, <1>3, <1>4, <1>5, <1>6 DEF Truthful, Alone, Recent
  <1>8. \A c \in orphans' : \A s \in c : \E x \in Profiles : Harmless(s, x)
    BY <1>1 DEF IInv, Types
  <1> QED BY <1>1, <1>7, <1>8, ConcludeKeeps

LEMMA InspectionFailsKeeps ==
    ASSUME IInv, NEW o \in Operators, InspectionFails(o)
    PROVE  IInv'
  <1>1. /\ pc[o] \in {"pre", "post"} /\ pc' = [pc EXCEPT ![o] = "done"]
        /\ Conclude(o, Outcome(o, "failed", "failed"))
        /\ UNCHANGED <<account, orphans, profile, history>>
    BY DEF InspectionFails
  <1>2. Truthful(o, Outcome(o, "failed", "failed"))
    BY <1>1 DEF Truthful, Outcome, IInv, Fits, Quiet, Inspecting
  <1>3. \A c \in orphans' : \A s \in c : \E p \in Profiles : Harmless(s, p)
    BY <1>1 DEF IInv, Types
  <1> QED BY <1>1, <1>2, <1>3, ConcludeKeeps

LEMMA RefusalKeeps ==
    ASSUME IInv, NEW o \in Operators, RefuseProvision(o) \/ RefuseQuery(o) \/ RunQuery(o)
    PROVE  IInv'
  <1>1. PICK r : /\ r.class = "none" /\ pc' = [pc EXCEPT ![o] = "done"] /\ Conclude(o, r)
                 /\ UNCHANGED <<account, orphans, profile, history>>
    <2>1. CASE RefuseProvision(o)
      BY <2>1 DEF RefuseProvision, Refusal, Goto, database
    <2>2. CASE RefuseQuery(o)
      BY <2>2 DEF RefuseQuery, Refusal, Goto, database
    <2>3. CASE RunQuery(o)
      <3>1. PICK r : r.class = "none" /\ Conclude(o, r)
        BY <2>3 DEF RunQuery, Answer
      <3> QED BY <2>3, <3>1 DEF RunQuery
    <2> QED BY <2>1, <2>2, <2>3
  <1>2. Truthful(o, r)
    BY <1>1 DEF Truthful
  <1>3. \A c \in orphans' : \A s \in c : \E p \in Profiles : Harmless(s, p)
    BY <1>1 DEF IInv, Types
  <1> QED BY <1>1, <1>2, <1>3, ConcludeKeeps

LEMMA BeginKeeps ==
    ASSUME IInv, NEW o \in Operators, BeginProvision(o) \/ BeginQuery(o)
    PROVE  IInv'
  <1>1. /\ pc[o] = "idle" /\ UNCHANGED <<account, orphans, profile, command, history>>
        /\ \E there \in {"pre", "smoke", "query"} : pc' = [pc EXCEPT ![o] = there]
    BY DEF BeginProvision, BeginQuery, Goto, database
  <1>2. PICK there \in {"pre", "smoke", "query"} : pc' = [pc EXCEPT ![o] = there]
    BY <1>1
  <1>3. UNCHANGED <<account, orphans, profile, section, pre, post, script, applied, record,
                    changed, disturbed>>
    BY <1>1 DEF command, history
  <1>4. Types'
    BY <1>2, <1>3 DEF IInv, Types
  <1>5. ASSUME NEW q \in Operators, q # o PROVE Fits(q)'
    BY <1>2, <1>3, <1>5, Bystander DEF Same, Disturbs, IInv, Types
  <1>6. section[o] = 1 /\ ~ changed[o] /\ disturbed[o] # "before"
    BY <1>1 DEF IInv, Fits, Quiet, Inspecting
  <1>7. pc'[o] = there
    BY <1>2 DEF IInv, Types
  <1>8. Fits(o)'
    BY <1>3, <1>6, <1>7
       DEF Fits, Quiet, Repairing, Inspecting, Reported, Provisioned, Alone, Recent, ReadOf
  <1> QED BY <1>4, <1>5, <1>8 DEF IInv

LEMMA ProcessEndsKeeps ==
    ASSUME IInv, NEW o \in Operators, Interrupted(o) \/ NextCommand(o)
    PROVE  IInv'
  <1>1. /\ pc' = [pc EXCEPT ![o] = "idle"] /\ Idle(o)
        /\ UNCHANGED <<account, profile>>
        /\ orphans' \subseteq orphans \cup {script[o]}
    BY DEF Interrupted, NextCommand, Goto, database
  <1>2. /\ record' = [record EXCEPT ![o] = NoRecord]
        /\ changed' = [changed EXCEPT ![o] = FALSE]
        /\ disturbed' = [disturbed EXCEPT ![o] = "never"]
    BY <1>1 DEF Idle
  <1>3. /\ section' = [section EXCEPT ![o] = 1] \/ section' = section
        /\ pre' = [pre EXCEPT ![o] = Blank] \/ pre' = pre
        /\ post' = [post EXCEPT ![o] = Blank] \/ post' = post
        /\ script' = [script EXCEPT ![o] = {}] \/ script' = script
        /\ applied' = [applied EXCEPT ![o] = FALSE] \/ applied' = applied
    BY DEF Interrupted, NextCommand, Exit
  <1>4. Types'
    BY <1>1, <1>2, <1>3, BlankIsAccount DEF IInv, Types
  <1>5. ASSUME NEW q \in Operators, q # o PROVE Fits(q)'
    BY <1>1, <1>2, <1>3, <1>5, Bystander DEF Same, Disturbs, IInv, Types
  <1>6. section'[o] = 1
    BY <1>3 DEF Interrupted, NextCommand, Exit, Goto, IInv, Types, Fits, Inspecting
  <1>7. Fits(o)'
    BY <1>1, <1>2, <1>6
       DEF IInv, Types, Fits, Quiet, Repairing, Inspecting, Reported, Provisioned, Alone, Recent
  <1> QED BY <1>4, <1>5, <1>7 DEF IInv

LEMMA OthersChange ==
    ASSUME IInv, OrphanStatement \/ AdministratorActs
    PROVE  IInv'
  <1>1. /\ UNCHANGED <<pc, profile, section, pre, post, script, applied, record, changed>>
        /\ \/ account' = account /\ disturbed' = disturbed
           \/ disturbed' = [q \in Operators |-> IF pc[q] = "idle" THEN disturbed[q] ELSE "now"]
    <2>1. CASE OrphanStatement
      BY <2>1 DEF OrphanStatement, Disturb, command
    <2>2. CASE AdministratorActs
      BY <2>2 DEF AdministratorActs, Disturb, command
    <2> QED BY <2>1, <2>2
  <1>2. account' \in Accounts
    <2>1. CASE AdministratorActs
      <3>1. account \in Accounts
        BY DEF IInv, Types
      <3>2. \/ account' = [account EXCEPT !.roles = @ \cup {"DBA"}]
            \/ account' = [account EXCEPT !.privileges = @ \ {"CREATE SESSION"}]
            \/ account' = [account EXCEPT !.status = "LOCKED"]
            \/ account' = [account EXCEPT !.status = "EXPIRED"]
        BY <2>1 DEF AdministratorActs
      <3> QED BY <3>1, <3>2 DEF Accounts, Roles
    <2>2. CASE OrphanStatement
      <3>0. PICK c \in orphans : \E s \in Heads(c) : account' \in {account, Effect(account, s)}
        BY <2>2 DEF OrphanStatement
      <3>1. PICK s \in Heads(c) : account' \in {account, Effect(account, s)}
        BY <3>0
      <3>2. PICK p \in Profiles : Harmless(s, p)
        BY <3>1 DEF Heads, IInv, Types
      <3>3. account \in Accounts
        BY DEF IInv, Types
      <3> QED BY <3>1, <3>2, <3>3, EffectOfRepair
    <2> QED BY <2>1, <2>2
  <1>3. \A c \in orphans' : \E b \in orphans : c \subseteq b
    BY DEF OrphanStatement, AdministratorActs
  <1>4. Types'
    BY <1>1, <1>2, <1>3 DEF IInv, Types
  <1>5. ASSUME NEW q \in Operators PROVE Fits(q)'
    BY <1>1, <1>5, Bystander DEF Same, Disturbs, IInv, Types
  <1> QED BY <1>4, <1>5 DEF IInv

LEMMA IInvStep == IInv /\ [Next]_vars => IInv'
  <1> SUFFICES ASSUME IInv, [Next]_vars PROVE IInv'
    OBVIOUS
  <1>1. CASE UNCHANGED vars
    <2>1. UNCHANGED <<account, orphans, pc, profile, section, pre, post, script, applied, record,
                      changed, disturbed>>
      BY <1>1 DEF vars, database, command, history
    <2> QED BY <2>1 DEF IInv, Types, Fits, Quiet, Repairing, Inspecting, Reported, Provisioned,
                        Alone, Recent
  <1>2. ASSUME NEW o \in Provisioners, Provision(o) PROVE IInv'
    <2>1. o \in Operators
      BY DEF Operators
    <2>2. CASE ProvisionRaises(o)
      BY <1>1, <2>2 DEF ProvisionRaises
    <2> QED BY <1>2, <2>1, <2>2, ReadSectionKeeps, PrecheckKeeps, ApplyStatementKeeps,
               ApplyStopsKeeps, ApplyEndsKeeps, PostcheckKeeps, ProcessEndsKeeps, RefusalKeeps,
               BeginKeeps, InspectionFailsKeeps DEF Provision, ProvisionStep
  <1>3. ASSUME NEW o \in Queriers, Query(o) PROVE IInv'
    BY <1>3, RefusalKeeps, BeginKeeps, ProcessEndsKeeps DEF Query, Operators
  <1> QED BY <1>1, <1>2, <1>3, ProcessEndsKeeps, OthersChange DEF Next

-----------------------------------------------------------------------------
(* A report is true of the account as long as nobody else has changed it.  *)
THEOREM ReportsAreTrue == Spec => []ReportIsTrue
  <1>1. IInv => ReportIsTrue
    BY DEF IInv, Fits, Reported, Recent, ReportIsTrue
  <1> QED BY Initially, IInvStep, <1>1, PTL DEF Spec

(* A command that rejects an account nobody else touched has not touched   *)
(* it either.                                                              *)
THEOREM RejectionsChangeNothing == Spec => []RejectionLeavesAccountAlone
  <1>1. IInv => RejectionLeavesAccountAlone
    BY DEF IInv, Fits, Reported, Alone, RejectionLeavesAccountAlone
  <1> QED BY Initially, IInvStep, <1>1, PTL DEF Spec

(* What a command changed is in its audit line.                            *)
THEOREM ChangesAreOnRecord == Spec => []ChangesAreAudited
  <1>1. IInv => ChangesAreAudited
    BY DEF IInv, Fits, Reported, ChangesAreAudited
  <1> QED BY Initially, IInvStep, <1>1, PTL DEF Spec

-----------------------------------------------------------------------------
(* A script brings about all an inspection asks for.                       *)

(* What keeps the account from compliance has its statement in the script; *)
(* only an expired password has none.                                      *)
Covers(a, p, sc) ==
    /\ a.status = "absent" => <<"create_user", NoItem>> \in sc
    /\ a.status = "LOCKED" => <<"unlock_user", NoItem>> \in sc
    /\ \A i \in RequiredPrivileges(p) \ a.privileges : <<"grant_system_privilege", i>> \in sc
    /\ \A i \in RequiredRoles(p) \ a.roles : <<"grant_role", i>> \in sc
    /\ \A t \in RequiredGrants(p) \ a.grants : <<"grant_object", t>> \in sc
    /\ \A t \in Tables : a.synonyms[t] # "SH" => <<"create_synonym", t>> \in sc

Mended(o) == Compliant(account, profile[o]) \/ account.status = "EXPIRED"

Effective(o) ==
    Alone(o) =>
        /\ pc[o] = "apply" => Covers(account, profile[o], script[o])
        /\ pc[o] = "post" => Mended(o)
        /\ pc[o] = "done"
           /\ record[o].class \in {"created", "granted_missing_privileges", "failed_incomplete"}
           => record[o].state = "succeeded" \/ account.status = "EXPIRED"

AllEffective == \A o \in Operators : Effective(o)

LEMMA RepairsCover ==
    ASSUME NEW a \in Accounts, NEW v \in Accounts, NEW p \in Profiles, NEW n \in Nat,
           ReadOf(a, p, v, n), n > Len(Sections(p))
    PROVE  Covers(a, p, Repairs(v, p))
  <1>1. n > 4 /\ (p = Production => n > 5)
    <2>1. CASE p = Prototype
      BY <2>1 DEF Sections, Prototype, Production
    <2>2. CASE p = Production
      BY <2>2 DEF Sections, Prototype, Production
    <2> QED BY <2>1, <2>2 DEF Profiles
  <1>2. /\ v.status = a.status /\ v.synonyms = a.synonyms
        /\ RequiredRoles(p) \ v.roles = RequiredRoles(p) \ a.roles
        /\ RequiredPrivileges(p) \ v.privileges = RequiredPrivileges(p) \ a.privileges
    BY <1>1 DEF ReadOf, Relevant
  <1>3. RequiredGrants(p) \ v.grants = RequiredGrants(p) \ a.grants
    BY <1>1 DEF ReadOf, RequiredGrants
  <1>4. a.status = "absent" => <<"create_user", NoItem>> \in Repairs(v, p)
    BY <1>2 DEF Repairs, AccountRepairs
  <1>5. a.status = "LOCKED" => <<"unlock_user", NoItem>> \in Repairs(v, p)
    BY <1>2 DEF Repairs, AccountRepairs
  <1>6. \A i \in RequiredPrivileges(p) \ a.privileges :
            <<"grant_system_privilege", i>> \in Repairs(v, p)
    BY <1>2 DEF Repairs
  <1>7. \A i \in RequiredRoles(p) \ a.roles : <<"grant_role", i>> \in Repairs(v, p)
    BY <1>2 DEF Repairs
  <1>8. \A t \in RequiredGrants(p) \ a.grants : <<"grant_object", t>> \in Repairs(v, p)
    BY <1>3 DEF Repairs
  <1>9. \A t \in Tables : a.synonyms[t] # "SH" => <<"create_synonym", t>> \in Repairs(v, p)
    BY <1>2 DEF Repairs
  <1> QED BY <1>4, <1>5, <1>6, <1>7, <1>8, <1>9 DEF Covers

(* A statement that has run is no longer needed.                           *)
LEMMA EffectCovers ==
    ASSUME NEW a \in Accounts, NEW p \in Profiles, NEW sc, NEW s \in sc,
           Harmless(s, p), Legal(a, s), Covers(a, p, sc)
    PROVE  Covers(Effect(a, s), p, sc \ {s})
  <1>1. CASE s[1] = "create_user"
    <2>1. Effect(a, s) = [a EXCEPT !.status = "OPEN"]
      BY <1>1 DEF Effect
    <2> QED BY <1>1, <2>1 DEF Accounts, Covers
  <1>2. CASE s[1] = "unlock_user"
    <2>1. Effect(a, s) = [a EXCEPT !.status = IF @ = "LOCKED" THEN "OPEN" ELSE @]
      BY <1>2 DEF Effect
    <2>2. a.status # "absent"
      BY <1>2 DEF Legal
    <2> QED BY <1>2, <2>1, <2>2 DEF Accounts, Covers
  <1>3. CASE s[1] = "default_role_all"
    <2>1. Effect(a, s) = a
      BY <1>3 DEF Effect
    <2> QED BY <1>3, <2>1 DEF Covers
  <1>4. CASE s[1] = "grant_object" /\ s[2] \in Tables
    <2>1. Effect(a, s) = [a EXCEPT !.grants = @ \cup {s[2]}]
      BY <1>4 DEF Effect
    <2> QED BY <1>4, <2>1 DEF Accounts, Covers
  <1>5. CASE s[1] = "grant_system_privilege" /\ s[2] \in RequiredPrivileges(p)
    <2>1. Effect(a, s) = [a EXCEPT !.privileges = @ \cup {s[2]}]
      BY <1>5 DEF Effect
    <2> QED BY <1>5, <2>1 DEF Accounts, Covers
  <1>6. CASE s[1] = "grant_role" /\ s[2] \in RequiredRoles(p)
    <2>1. Effect(a, s) = [a EXCEPT !.roles = @ \cup {s[2]}]
      BY <1>6 DEF Effect
    <2> QED BY <1>6, <2>1 DEF Accounts, Covers
  <1>7. CASE s[1] = "create_synonym" /\ s[2] \in Tables
    <2>1. Effect(a, s) = [a EXCEPT !.synonyms[s[2]] = "SH"]
      BY <1>7 DEF Effect, Resolve
    <2> QED BY <1>7, <2>1 DEF Accounts, Covers
  <1> QED BY <1>1, <1>2, <1>3, <1>4, <1>5, <1>6, <1>7 DEF Harmless

LEMMA NothingLeftToDo ==
    ASSUME NEW a \in Accounts, NEW p \in Profiles, Covers(a, p, {})
    PROVE  Compliant(a, p) \/ a.status = "EXPIRED"
  <1>1. a.status \in {"absent", "OPEN", "LOCKED", "EXPIRED"}
    BY DEF Accounts
  <1> QED BY <1>1 DEF Covers, Compliant

(* Whoever acts leaves the commands of the others as they are, or disturbs *)
(* them.                                                                   *)
LEMMA Apart ==
    ASSUME IInv, NEW o \in Operators, Provision(o) \/ Query(o) \/ Interrupted(o),
           NEW q \in Operators, q # o
    PROVE  Same(q) /\ Disturbs(q)
  <1> USE DEF Same, Disturbs, IInv, Types, Goto, database, history, command, Conclude, Exit
  <1>1. CASE RefuseProvision(o) \/ RefuseQuery(o) \/ RunQuery(o) \/ InspectionFails(o)
    BY <1>1 DEF RefuseProvision, RefuseQuery, RunQuery, InspectionFails
  <1>2. CASE ApplyFails(o) \/ ApplyTimesOut(o) \/ Postcheck(o)
    BY <1>2 DEF ApplyFails, ApplyTimesOut, Postcheck
  <1>3. CASE ProvisionRaises(o)
    BY <1>3 DEF ProvisionRaises, vars
  <1>4. CASE BeginProvision(o) \/ BeginQuery(o)
    BY <1>4 DEF BeginProvision, BeginQuery
  <1>5. CASE ReadSection(o) \/ ApplyEnds(o)
    BY <1>5 DEF ReadSection, ApplyEnds
  <1>6. CASE Precheck(o)
    BY <1>6 DEF Precheck
  <1>7. CASE ApplyStatement(o)
    BY <1>7 DEF ApplyStatement, Disturb
  <1>8. CASE NextCommand(o) \/ Interrupted(o)
    BY <1>8 DEF NextCommand, Interrupted, Idle
  <1> QED BY <1>1, <1>2, <1>3, <1>4, <1>5, <1>6, <1>7, <1>8 DEF Provision, ProvisionStep, Query

LEMMA EffectiveBystander ==
    ASSUME NEW q \in Operators, Effective(q), Same(q), Disturbs(q)
    PROVE  Effective(q)'
  <1>1. CASE account' = account /\ disturbed'[q] = disturbed[q]
    BY <1>1 DEF Same, Effective, Mended, Alone
  <1>2. CASE pc[q] = "idle" \/ disturbed'[q] = "now"
    BY <1>2 DEF Same, Effective, Alone
  <1> QED BY <1>1, <1>2 DEF Disturbs

(* A command that stops early does not report a finished script.           *)
LEMMA EffectiveConclusion ==
    ASSUME IInv, NEW o \in Operators, NEW r, Conclude(o, r), pc' = [pc EXCEPT ![o] = "done"],
           UNCHANGED <<account, profile, history>>,
           r.class \in {"created", "granted_missing_privileges", "failed_incomplete"} /\ Alone(o)
              => r.state = "succeeded" \/ account.status = "EXPIRED"
    PROVE  Effective(o)'
  <1>1. pc'[o] = "done" /\ record'[o] = r /\ UNCHANGED <<account, disturbed>>
    BY DEF Conclude, history, IInv, Types
  <1> QED BY <1>1 DEF Effective, Alone

LEMMA EffectiveRepair ==
    ASSUME IInv, NEW o \in Operators, Effective(o), Precheck(o)
    PROVE  Effective(o)'
  <1> DEFINE p == profile[o]  seen == pre[o]
  <1>1. /\ account \in Accounts /\ p \in Profiles /\ section[o] \in Nat /\ seen \in Accounts
        /\ pc[o] = "pre" /\ section[o] > Len(Sections(p))
        /\ UNCHANGED <<account, profile, history>>
    BY DEF IInv, Types, Precheck, InspectionEnds, Goto, database
  <1>2. CASE \E state, class : /\ class \in {"already_compliant", "rejected_drift"}
                               /\ Conclude(o, Outcome(o, state, class)) /\ Goto(o, "pre", "done")
    BY <1>1, <1>2, EffectiveConclusion DEF Outcome, Goto
  <1>3. CASE script' = [script EXCEPT ![o] = Repairs(seen, p)] /\ Goto(o, "pre", "apply")
    <2>1. /\ pc'[o] = "apply" /\ script'[o] = Repairs(seen, p) /\ profile'[o] = p
          /\ UNCHANGED <<account, disturbed>>
      BY <1>1, <1>3 DEF Goto, history, IInv, Types
    <2>2. Alone(o) => ReadOf(account, p, seen, section[o])
      BY <1>1 DEF IInv, Fits, Inspecting, Alone, Recent
    <2>3. Alone(o) => Covers(account, p, Repairs(seen, p))
      BY <1>1, <2>2, RepairsCover
    <2> QED BY <2>1, <2>3 DEF Effective, Alone
  <1> QED BY <1>2, <1>3 DEF Precheck

LEMMA EffectiveScript ==
    ASSUME IInv, NEW o \in Operators, Effective(o), ApplyStatement(o) \/ ApplyEnds(o)
    PROVE  Effective(o)'
  <1> DEFINE p == profile[o]
  <1>1. /\ account \in Accounts /\ p \in Profiles /\ pc[o] = "apply" /\ profile'[o] = p
        /\ Alone(o) => Covers(account, p, script[o])
    BY DEF IInv, Types, ApplyStatement, ApplyEnds, Goto, Effective
  <1>2. CASE ApplyStatement(o)
    <2>1. PICK s \in Heads(script[o]) : /\ Legal(account, s) /\ account' = Effect(account, s)
                                       /\ script' = [script EXCEPT ![o] = @ \ {s}]
      BY <1>2 DEF ApplyStatement
    <2>2. /\ s \in script[o] /\ Harmless(s, p) /\ pc'[o] = "apply"
          /\ script'[o] = script[o] \ {s} /\ disturbed'[o] = disturbed[o]
      BY <1>1, <1>2, <2>1 DEF Heads, IInv, Types, ApplyStatement, Disturb
    <2>3. Alone(o) => Covers(account', p, script[o] \ {s})
      BY <1>1, <2>1, <2>2, EffectCovers
    <2> QED BY <1>1, <2>2, <2>3 DEF Effective, Alone
  <1>3. CASE ApplyEnds(o)
    <2>1. /\ script[o] = {} /\ pc'[o] = "post" /\ account' = account
          /\ Alone(o)' => Alone(o)
      BY <1>3 DEF ApplyEnds, Goto, database, Alone, IInv, Types
    <2>2. Alone(o) => Compliant(account, p) \/ account.status = "EXPIRED"
      BY <1>1, <2>1, NothingLeftToDo
    <2> QED BY <1>1, <2>1, <2>2 DEF Effective, Mended
  <1> QED BY <1>2, <1>3

LEMMA EffectivePostcheck ==
    ASSUME IInv, NEW o \in Operators, Effective(o), Postcheck(o)
    PROVE  Effective(o)'
  <1> DEFINE p == profile[o]  seen == post[o]  class == PostClass(pre[o], seen, p)
  <1>1. /\ account \in Accounts /\ p \in Profiles /\ section[o] \in Nat /\ seen \in Accounts
        /\ pc[o] = "post" /\ section[o] > Len(Sections(p)) /\ pc' = [pc EXCEPT ![o] = "done"]
        /\ UNCHANGED <<account, profile, history>> /\ Conclude(o, PostOutcome(o))
    BY DEF IInv, Types, Postcheck, InspectionEnds, Goto, database
  <1>2. Alone(o) => /\ ReadOf(account, p, seen, section[o])
                    /\ Compliant(account, p) \/ account.status = "EXPIRED"
    BY <1>1 DEF IInv, Fits, Inspecting, Effective, Mended, Alone, Recent
  <1>3. Alone(o) => (Compliant(seen, p) <=> Compliant(account, p))
    BY <1>1, <1>2, CompleteReading
  <1>4. Compliant(seen, p) => class # "failed_incomplete"
    BY DEF PostClass
  <1> HIDE DEF class
  <1>5. /\ PostOutcome(o).class = class
        /\ class \in {"created", "granted_missing_privileges"} /\ Compliant(seen, p)
              => PostOutcome(o).state = "succeeded"
    BY DEF PostOutcome, Outcome, class
  <1> QED BY <1>1, <1>2, <1>3, <1>4, <1>5, EffectiveConclusion

LEMMA EffectiveActor ==
    ASSUME IInv, NEW o \in Operators, Effective(o), Provision(o) \/ Query(o) \/ Interrupted(o)
    PROVE  Effective(o)'
  <1>1. CASE RefuseProvision(o) \/ RefuseQuery(o) \/ RunQuery(o)
    <2>1. PICK r : /\ r.class = "none" /\ pc' = [pc EXCEPT ![o] = "done"] /\ Conclude(o, r)
                   /\ UNCHANGED <<account, profile, history>>
      <3>1. CASE RefuseProvision(o)
        BY <3>1 DEF RefuseProvision, Refusal, Goto, database
      <3>2. CASE RefuseQuery(o)
        BY <3>2 DEF RefuseQuery, Refusal, Goto, database
      <3>3. CASE RunQuery(o)
        <4>1. PICK r : r.class = "none" /\ Conclude(o, r)
          BY <3>3 DEF RunQuery, Answer
        <4> QED BY <3>3, <4>1 DEF RunQuery
      <3> QED BY <1>1, <3>1, <3>2, <3>3
    <2> QED BY <2>1, EffectiveConclusion
  <1>2. CASE ApplyFails(o) \/ ApplyTimesOut(o) \/ InspectionFails(o)
    <2>1. /\ Conclude(o, Outcome(o, "failed", "failed")) /\ pc' = [pc EXCEPT ![o] = "done"]
          /\ UNCHANGED <<account, profile, history>>
      BY <1>2 DEF ApplyFails, ApplyTimesOut, InspectionFails, ApplyFailure, Goto
    <2> QED BY <2>1, EffectiveConclusion DEF Outcome
  <1>3. CASE ProvisionRaises(o)
    BY <1>3 DEF ProvisionRaises, vars, database, command, history, Effective, Mended, Alone
  <1>4. CASE ReadSection(o)
    BY <1>4 DEF ReadSection, database, history, Effective, Mended, Alone
  <1>5. CASE BeginProvision(o) \/ BeginQuery(o) \/ NextCommand(o) \/ Interrupted(o)
    <2>1. pc'[o] \in {"idle", "pre", "smoke", "query"}
      BY <1>5 DEF BeginProvision, BeginQuery, NextCommand, Interrupted, Goto, IInv, Types
    <2> QED BY <2>1 DEF Effective
  <1> QED BY <1>1, <1>2, <1>3, <1>4, <1>5, EffectiveRepair, EffectiveScript, EffectivePostcheck
          DEF Provision, ProvisionStep, Query

LEMMA EffectiveStep == IInv /\ AllEffective /\ [Next]_vars => AllEffective'
  <1> SUFFICES ASSUME IInv, AllEffective, [Next]_vars PROVE AllEffective'
    OBVIOUS
  <1>1. CASE UNCHANGED vars
    BY <1>1 DEF vars, database, command, history, AllEffective, Effective, Mended, Alone
  <1>2. ASSUME NEW o \in Operators, Provision(o) \/ Query(o) \/ Interrupted(o)
        PROVE  AllEffective'
    BY <1>2, Apart, EffectiveBystander, EffectiveActor DEF AllEffective
  <1>3. CASE OrphanStatement \/ AdministratorActs
    <2>1. ASSUME NEW q \in Operators PROVE Same(q) /\ Disturbs(q)
      <3>1. CASE OrphanStatement
        BY <3>1 DEF OrphanStatement, Disturb, command, Same, Disturbs
      <3>2. CASE AdministratorActs
        BY <3>2 DEF AdministratorActs, Disturb, command, Same, Disturbs
      <3> QED BY <1>3, <3>1, <3>2
    <2> QED BY <2>1, EffectiveBystander DEF AllEffective
  <1> QED BY <1>1, <1>2, <1>3 DEF Next, Operators

(* A command that ran its script to the end, disturbed by nobody, has      *)
(* succeeded or stands before an expired password: every problem an        *)
(* inspection sees has a statement that mends it, every statement finds    *)
(* the account it was made for, and the second inspection sees it mended.  *)
THEOREM OnePassIsEnough == Spec => []OnePassSuffices
  <1>1. Init => AllEffective
    BY DEF Init, AllEffective, Effective
  <1>2. IInv /\ AllEffective => OnePassSuffices
    BY DEF AllEffective, Effective, Alone, OnePassSuffices, Provisioned
  <1> QED BY Initially, IInvStep, EffectiveStep, <1>1, <1>2, PTL DEF Spec
-----------------------------------------------------------------------------
(* What the commands may do to the account, whoever runs them together and *)
(* whatever becomes of their processes.                                    *)
Helpful ==
    \A p \in Profiles :
        /\ Compliant(account, p) => Compliant(account, p)'
        /\ (\A o \in Provisioners : profile[o] = p) /\ ~ Drifted(account, p)
              => ~ Drifted(account, p)'

(* Every statement the database still runs was made for the profile of     *)
(* somebody who provisions, also when its command is gone.                 *)
ScriptsAreOurs ==
    /\ \A o \in Operators : script[o] # {} => o \in Provisioners
    /\ \A c \in orphans : \A s \in c : \E o \in Provisioners : Harmless(s, profile[o])

LEMMA CompliantStays ==
    ASSUME NEW a \in Accounts, NEW p \in Profiles, NEW q \in Profiles, NEW s,
           Harmless(s, q), Compliant(a, p)
    PROVE  Compliant(Effect(a, s), p)
  <1> DEFINE b == Effect(a, s)
  <1>1. a.status = "OPEN" => b.status = "OPEN"
    BY DEF Effect, Harmless, Resolve, Accounts
  <1>2. a.roles \subseteq b.roles /\ a.privileges \subseteq b.privileges /\ a.grants \subseteq b.grants
    BY DEF Effect, Harmless, Resolve, Accounts
  <1>3. \A t \in Tables : a.synonyms[t] = "SH" => b.synonyms[t] = "SH"
    BY DEF Effect, Harmless, Resolve, Accounts
  <1> QED BY <1>1, <1>2, <1>3 DEF Compliant

LEMMA ScriptsStayOurs ==
    ASSUME IInv, ScriptsAreOurs, [Next]_vars PROVE ScriptsAreOurs'
  <1>1. /\ profile' = profile /\ DOMAIN script = Operators
        /\ \A o \in Operators : \A s \in script[o] : Harmless(s, profile[o])
    BY DEF IInv, Types, Next, Provision, ProvisionStep, Query, vars, RefuseProvision,
           ProvisionRaises, BeginProvision, ReadSection, Precheck, ApplyStatement, ApplyFails,
           ApplyTimesOut, ApplyEnds, InspectionFails, Postcheck, RefuseQuery, BeginQuery,
           RunQuery, Interrupted, NextCommand, OrphanStatement, AdministratorActs
  <1>2. ASSUME NEW o \in Operators
        PROVE  script'[o] # {} => script[o] # {} \/ o \in Provisioners
    <2>1. CASE script' = script \/ script' = [script EXCEPT ![o] = {}]
      BY <1>1, <2>1
    <2>2. ASSUME NEW r \in Operators, NEW S, script' = [script EXCEPT ![r] = S],
                 S \subseteq script[r] \/ r \in Provisioners
          PROVE  script'[o] # {} => script[o] # {} \/ o \in Provisioners
      BY <1>1, <2>2
    <2>3. ASSUME NEW r \in Provisioners, Provision(r)
          PROVE  script' = script \/ \E S : script' = [script EXCEPT ![r] = S]
      BY <2>3 DEF Provision, ProvisionStep, vars, RefuseProvision, ProvisionRaises,
             BeginProvision, ReadSection, Precheck, ApplyStatement, ApplyFails, ApplyTimesOut,
             ApplyEnds, InspectionFails, Postcheck, NextCommand, Conclude, Exit, command
    <2>4. ASSUME NEW r \in Operators, Query(r) \/ Interrupted(r)
          PROVE  script' = script \/ script' = [script EXCEPT ![r] = {}]
      BY <2>4 DEF Query, RefuseQuery, BeginQuery, RunQuery, NextCommand, Interrupted, Conclude,
                  Exit, command
    <2>5. CASE OrphanStatement \/ AdministratorActs \/ UNCHANGED vars
      BY <2>1, <2>5 DEF OrphanStatement, AdministratorActs, vars, command
    <2> QED BY <2>1, <2>2, <2>3, <2>4, <2>5 DEF Next, Operators
  <1>3. ASSUME NEW c \in orphans'
        PROVE  \/ \E b \in orphans : c \subseteq b
               \/ \E o \in Operators : c \subseteq script[o]
    <2>1. CASE orphans' \subseteq orphans \/ OrphanStatement
      BY <1>3, <2>1 DEF OrphanStatement
    <2>2. ASSUME NEW o \in Operators, ApplyTimesOut(o) \/ Interrupted(o)
          PROVE  \/ \E b \in orphans : c \subseteq b
                 \/ \E q \in Operators : c \subseteq script[q]
      BY <1>3, <2>2 DEF ApplyTimesOut, Interrupted, Heads
    <2>3. \/ orphans' \subseteq orphans \/ OrphanStatement
          \/ \E o \in Operators : ApplyTimesOut(o) \/ Interrupted(o)
      BY DEF Operators, Next, Provision, ProvisionStep, Query, vars, database, RefuseProvision,
             ProvisionRaises, BeginProvision, ReadSection, Precheck, ApplyStatement, ApplyFails,
             ApplyEnds, InspectionFails, Postcheck, RefuseQuery, BeginQuery, RunQuery,
             NextCommand, AdministratorActs
    <2> QED BY <2>1, <2>2, <2>3
  <1> QED BY <1>1, <1>2, <1>3 DEF ScriptsAreOurs

LEMMA StepsAreHelpful ==
    ASSUME IInv, ScriptsAreOurs, Next PROVE AdministratorActs \/ Helpful
  <1>1. account \in Accounts /\ profile \in [Operators -> Profiles]
    BY DEF IInv, Types
  <1>2. ASSUME NEW o \in Provisioners, NEW s, Harmless(s, profile[o]),
               account' = Effect(account, s)
        PROVE  Helpful
    <2>1. profile[o] \in Profiles
      BY <1>1 DEF Operators
    <2> QED BY <1>1, <1>2, <2>1, CompliantStays, EffectOfRepair DEF Helpful
  <1>3. CASE account' = account
    BY <1>3 DEF Helpful, Compliant, Drifted
  <1>4. ASSUME NEW o \in Provisioners, ApplyStatement(o) PROVE Helpful
    <2>1. PICK s \in Heads(script[o]) : account' = Effect(account, s)
      BY <1>4 DEF ApplyStatement
    <2>2. Harmless(s, profile[o])
      BY <2>1 DEF Heads, IInv, Types, Operators
    <2> QED BY <1>2, <2>1, <2>2
  <1>5. CASE OrphanStatement
    <2>1. PICK c \in orphans : \E s \in Heads(c) : account' \in {account, Effect(account, s)}
      BY <1>5 DEF OrphanStatement
    <2>2. PICK s \in Heads(c) : account' \in {account, Effect(account, s)}
      BY <2>1
    <2>3. PICK o \in Provisioners : Harmless(s, profile[o])
      BY <2>2 DEF Heads, ScriptsAreOurs
    <2> QED BY <1>2, <1>3, <2>2, <2>3
  <1>6. \/ account' = account \/ OrphanStatement \/ AdministratorActs
        \/ \E o \in Provisioners : ApplyStatement(o)
    BY DEF Next, Provision, ProvisionStep, Query, vars, database, RefuseProvision,
           ProvisionRaises, BeginProvision, ReadSection, Precheck, ApplyFails, ApplyTimesOut,
           ApplyEnds, InspectionFails, Postcheck, RefuseQuery, BeginQuery, RunQuery,
           Interrupted, NextCommand
  <1> QED BY <1>3, <1>4, <1>5, <1>6

(* Only an administrator takes anything from the account or makes it       *)
(* drift: what meets a profile goes on meeting it, and while everybody     *)
(* provisions one profile, no command gives the account what that profile  *)
(* rules out, not even by a script whose command was killed halfway.       *)
THEOREM CommandsOnlyHelp == Spec => [][AdministratorActs \/ Helpful]_vars
  <1>1. Init => ScriptsAreOurs
    BY DEF Init, ScriptsAreOurs
  <1>2. IInv /\ ScriptsAreOurs /\ [Next]_vars => [AdministratorActs \/ Helpful]_vars
    BY StepsAreHelpful
  <1>3. IInv /\ ScriptsAreOurs /\ [Next]_vars => ScriptsAreOurs'
    BY ScriptsStayOurs
  <1> QED BY Initially, IInvStep, <1>1, <1>2, <1>3, PTL DEF Spec
-----------------------------------------------------------------------------
(* Types.  IInv knows them as far as it needs them; what it leaves is the  *)
(* shape of statements and records.                                        *)
LEMMA LeastOf ==
    ASSUME NEW S \in SUBSET Nat, S # {}
    PROVE  \E i \in S : \A j \in S : i <= j
  <1> DEFINE R == {ss \in Nat \X Nat : ss[1] < ss[2]}
  <1>1. IsWellFoundedOn(R, Nat)
    BY NatLessThanWellFounded DEF OpToRel
  <1>2. PICK i \in S : \A j \in S : ~ (<<j, i>> \in R)
    <2> HIDE DEF R
    <2> QED BY <1>1, WFMin
  <1>3. \A j \in S : ~ (j < i)
    BY <1>2
  <1> QED BY <1>3

(* A list of checks finds the name of one of them, or none.                *)
IsList(checks) == \E S : checks \in Seq(S)

LEMMA FirstOfIsNamed ==
    ASSUME NEW checks, IsList(checks), NEW found
    PROVE  FirstOf(checks, found) \in {"none"} \cup Named(checks)
  <1> DEFINE hits == {i \in 1..Len(checks) : checks[i] \in found}
  <1>1. Len(checks) \in Nat
    BY DEF IsList
  <1>2. CASE hits = {}
    BY <1>2 DEF FirstOf
  <1>3. CASE hits # {}
    <2>1. hits \in SUBSET Nat
      BY <1>1
    <2>2. \E i \in hits : \A j \in hits : i <= j
      <3> HIDE DEF hits
      <3> QED BY <1>3, <2>1, LeastOf
    <2>3. (CHOOSE i \in hits : \A j \in hits : i <= j) \in 1..Len(checks)
      BY <2>2
    <2> QED BY <1>3, <2>3 DEF FirstOf, Named
  <1> QED BY <1>2, <1>3

LEMMA ListsJoin ==
    ASSUME NEW a, NEW b, IsList(a), IsList(b)
    PROVE  IsList(a \o b)
  <1>1. PICK S : a \in Seq(S)
    BY DEF IsList
  <1>2. PICK T : b \in Seq(T)
    BY DEF IsList
  <1>3. a \in Seq(S \cup T) /\ b \in Seq(S \cup T)
    BY <1>1, <1>2
  <1>4. a \o b \in Seq(S \cup T)
    BY <1>3
  <1> QED BY <1>4 DEF IsList

LEMMA ChecksAreLists ==
    IsList(ProvisionChecks) /\ IsList(SmokeChecks) /\ IsList(QueryChecks) /\ IsList(RunChecks)
  <1> DEFINE Confirmation == <<"unconfirmed">>
             AdapterChecks ==
                <<"sqlcl_path_required", "sqlcl_path_must_be_absolute", "db_user_required",
                  "db_user_not_identifier", "db_user_protected", "db_user_pass_required",
                  "db_dsn_required", "control_character">>
             AccountChecks ==
                <<"unconfirmed", "invalid_timeout_seconds", "sqlcl_path_required",
                  "sqlcl_path_must_be_absolute", "admin_user_required",
                  "admin_user_pass_required", "invalid_admin_user_pass", "db_user_required",
                  "db_user_not_identifier", "db_user_protected", "db_user_pass_required",
                  "invalid_db_user_pass", "db_dsn_required", "db_dsn_must_be_tns_alias",
                  "db_wallet_path_required", "db_wallet_path_invalid">>
  <1>1. LineChecks \in Seq({LineChecks[i] : i \in 1..4})
    BY DEF LineChecks
  <1>2. LoadChecks \in Seq({LoadChecks[i] : i \in 1..5})
    BY DEF LoadChecks
  <1>3. LimitChecks \in Seq({LimitChecks[i] : i \in 1..4})
    BY DEF LimitChecks
  <1>4. StatementChecks \in Seq({StatementChecks[i] : i \in 1..7})
    BY DEF StatementChecks
  <1>5. ReferenceChecks \in Seq({ReferenceChecks[i] : i \in 1..6})
    BY DEF ReferenceChecks
  <1>6. ConfigChecks \in Seq({ConfigChecks[i] : i \in 1..8})
    BY DEF ConfigChecks
  <1>7. VersionChecks \in Seq({VersionChecks[i] : i \in 1..2})
    BY DEF VersionChecks
  <1>8. RunChecks \in Seq({RunChecks[i] : i \in 1..7})
    BY DEF RunChecks
  <1>9. Confirmation \in Seq({Confirmation[i] : i \in 1..1})
    OBVIOUS
  <1>10. AdapterChecks \in Seq({AdapterChecks[i] : i \in 1..8})
    OBVIOUS
  <1>11. AccountChecks \in Seq({AccountChecks[i] : i \in 1..16})
    OBVIOUS
  <1> HIDE DEF Confirmation, AdapterChecks, AccountChecks
  <1>12. /\ IsList(LineChecks) /\ IsList(LoadChecks) /\ IsList(LimitChecks)
         /\ IsList(StatementChecks) /\ IsList(ReferenceChecks) /\ IsList(ConfigChecks)
         /\ IsList(VersionChecks) /\ IsList(RunChecks) /\ IsList(Confirmation)
         /\ IsList(AdapterChecks) /\ IsList(AccountChecks)
    BY <1>1, <1>2, <1>3, <1>4, <1>5, <1>6, <1>7, <1>8, <1>9, <1>10, <1>11, Zenon DEF IsList
  <1>13. IsList(PolicyChecks)
    BY <1>12, ListsJoin, Zenon DEF PolicyChecks
  <1>14. PlanChecks = LimitChecks \o PolicyChecks \o AdapterChecks
    BY DEF PlanChecks, AdapterChecks
  <1>15. IsList(PlanChecks)
    BY <1>12, <1>13, <1>14, ListsJoin
  <1>16. SmokeChecks =
           Confirmation \o LimitChecks \o ConfigChecks \o VersionChecks \o PlanChecks
    BY DEF SmokeChecks, Confirmation
  <1>17. IsList(SmokeChecks)
    BY <1>12, <1>15, <1>16, ListsJoin
  <1>18. QueryChecks =
           Confirmation \o LoadChecks \o PolicyChecks \o LimitChecks \o ConfigChecks
             \o VersionChecks \o PlanChecks
    BY DEF QueryChecks, Confirmation
  <1>19. IsList(QueryChecks)
    BY <1>12, <1>13, <1>15, <1>18, ListsJoin
  <1>20. ProvisionChecks = AccountChecks \o VersionChecks
    BY DEF ProvisionChecks, AccountChecks
  <1>21. IsList(ProvisionChecks)
    BY <1>12, <1>20, ListsJoin
  <1> QED BY <1>12, <1>17, <1>19, <1>21

LEMMA RepairsAreStatements ==
    ASSUME NEW v \in Accounts, NEW p \in Profiles
    PROVE  Repairs(v, p) \in SUBSET Statements
  <1> SUFFICES ASSUME NEW s \in Repairs(v, p) PROVE s \in Statements
    OBVIOUS
  <1> DEFINE missing == RequiredRoles(p) \ v.roles
             items == Roles \cup Privileges \cup Tables \cup {NoItem}
  <1>1. \/ s \in AccountRepairs(v)
        \/ s \in {"grant_system_privilege"} \X (RequiredPrivileges(p) \ v.privileges)
        \/ s \in {"grant_role"} \X missing
        \/ s \in (IF "DWROLE" \in missing THEN {<<"default_role_all", NoItem>>} ELSE {})
        \/ s \in {"grant_object"} \X (RequiredGrants(p) \ v.grants)
        \/ s \in {"create_synonym"} \X {t \in Tables : v.synonyms[t] # "SH"}
    BY DEF Repairs
  <1>2. /\ RequiredPrivileges(p) \subseteq items /\ RequiredRoles(p) \subseteq items
        /\ RequiredGrants(p) \subseteq items /\ Tables \subseteq items /\ NoItem \in items
    BY RequiredIsNotDrift DEF RequiredGrants
  <1>3. DOMAIN Ordered = {"create_user", "unlock_user", "grant_system_privilege", "grant_role",
                          "default_role_all", "grant_object", "create_synonym"}
    BY DEF Ordered
  <1> HIDE DEF items
  <1>4. s \in (DOMAIN Ordered) \X items
    BY <1>1, <1>2, <1>3 DEF AccountRepairs
  <1> QED BY <1>4 DEF Statements, items

(* What the theorems above left open.                                      *)
Shapes ==
    /\ orphans \subseteq SUBSET Statements /\ troubles \in 0..MaxTroubles
    /\ section \in [Operators -> 1..6]
    /\ script \in [Operators -> SUBSET Statements]
    /\ applied \in [Operators -> BOOLEAN] /\ record \in [Operators -> Records]
    /\ changed \in [Operators -> BOOLEAN]

LEMMA ShapesInitially == Init => Shapes
  <1> SUFFICES ASSUME Init PROVE Shapes
    OBVIOUS
  <1>1. NoRecord \in Records
    BY DEF NoRecord, Records, Codes
  <1> QED BY <1>1, BoundAssumption DEF Init, Shapes

(* A command's end keeps shapes when its record is one.                    *)
LEMMA ConcludeShapes ==
    ASSUME Shapes, NEW o \in Operators, NEW r \in Records, Conclude(o, r),
           orphans' \subseteq SUBSET Statements, troubles' \in 0..MaxTroubles, changed' = changed
    PROVE  Shapes'
  <1>1. /\ section' = [section EXCEPT ![o] = 1] /\ script' = [script EXCEPT ![o] = {}]
        /\ applied' = [applied EXCEPT ![o] = FALSE] /\ record' = [record EXCEPT ![o] = r]
    BY DEF Conclude, Exit
  <1>2. applied' \in [Operators -> BOOLEAN]
    BY <1>1, Zenon DEF Shapes
  <1>3. changed' \in [Operators -> BOOLEAN]
    BY Zenon DEF Shapes
  <1> QED BY <1>1, <1>2, <1>3 DEF Shapes

LEMMA OutcomeIsRecord ==
    ASSUME Shapes, NEW o \in Operators,
           NEW state \in {"succeeded", "failed", "rejected"},
           NEW class \in {"already_compliant", "created", "granted_missing_privileges",
                          "rejected_drift", "failed_incomplete", "failed"}
    PROVE  Outcome(o, state, class) \in Records
  <1>1. applied[o] \in BOOLEAN
    BY Zenon DEF Shapes
  <1>2. Outcome(o, state, class) =
           [state |-> state, class |-> class, attempted |-> applied[o], code |-> "none"]
    BY DEF Outcome
  <1>3. "none" \in Codes
    BY DEF Codes
  <1> QED BY <1>1, <1>2, <1>3 DEF Records

LEMMA TroublesAreBounded ==
    ASSUME Shapes, UNCHANGED troubles \/ Trouble
    PROVE  troubles' \in 0..MaxTroubles
  BY BoundAssumption DEF Shapes, Trouble

LEMMA RefusalIsRecord ==
    ASSUME NEW checks \in {ProvisionChecks, SmokeChecks, QueryChecks}, NEW found
    PROVE  Refusal(FirstOf(checks, found)) \in Records
  <1>1. FirstOf(checks, found) \in {"none"} \cup Named(checks)
    BY ChecksAreLists, FirstOfIsNamed
  <1>2. FirstOf(checks, found) \in Codes
    BY <1>1 DEF Codes
  <1> QED BY <1>2 DEF Refusal, Records

LEMMA AnswerIsRecord ==
    ASSUME NEW run
    PROVE  Answer(run) \in Records
  <1>1. FirstOf(RunChecks, run) \in Codes
    BY ChecksAreLists, FirstOfIsNamed DEF Codes
  <1>2. ResponseStatus(run) \in {"succeeded", "timeout", "failed"}
    BY DEF ResponseStatus
  <1> QED BY <1>1, <1>2 DEF Answer, Records

LEMMA AtMostFiveSections ==
    ASSUME NEW p \in Profiles
    PROVE  Len(Sections(p)) \in 0..5
  <1>1. CASE p = Prototype
    <2>1. Sections(p) = <<"status", "roles", "privileges", "synonyms">>
      BY <1>1 DEF Sections, Prototype, Production
    <2> QED BY <2>1
  <1>2. CASE p = Production
    <2> DEFINE A == <<"status", "roles", "privileges", "synonyms">>  B == <<"grants">>
               Names == {"status", "roles", "privileges", "synonyms", "grants"}
    <2>1. A \in Seq(Names) /\ Len(A) = 4 /\ B \in Seq(Names) /\ Len(B) = 1
      OBVIOUS
    <2>2. Sections(p) = A \o B
      BY <1>2 DEF Sections, Prototype, Production
    <2> HIDE DEF A, B, Names
    <2>3. Len(A \o B) = 5
      BY <2>1, FourAndOne
    <2> QED BY <2>2, <2>3
  <1> QED BY <1>1, <1>2 DEF Profiles

(* The steps that end a command with a record.                             *)
LEMMA EndShapes ==
    ASSUME IInv, Shapes, NEW o \in Operators,
           \/ RefuseProvision(o) \/ RefuseQuery(o) \/ RunQuery(o) \/ ApplyFails(o)
           \/ ApplyTimesOut(o) \/ InspectionFails(o) \/ Postcheck(o)
    PROVE  Shapes'
  <1>1. \E r \in Records : Conclude(o, r)
    <2>1. CASE RefuseProvision(o)
      BY <2>1, RefusalIsRecord DEF RefuseProvision
    <2>2. CASE RefuseQuery(o)
      <3>1. \A kind : CommandChecks(kind) \in {SmokeChecks, QueryChecks}
        BY DEF CommandChecks
      <3> QED BY <2>2, <3>1, RefusalIsRecord DEF RefuseQuery
    <2>3. CASE RunQuery(o)
      BY <2>3, AnswerIsRecord DEF RunQuery
    <2>4. CASE ApplyFails(o) \/ ApplyTimesOut(o) \/ InspectionFails(o)
      <3>1. Outcome(o, "failed", "failed") \in Records
        BY OutcomeIsRecord
      <3> QED BY <2>4, <3>1 DEF ApplyFails, ApplyTimesOut, InspectionFails, ApplyFailure
    <2>5. CASE Postcheck(o)
      <3>1. PostClass(pre[o], post[o], profile[o]) \in
               {"created", "granted_missing_privileges", "rejected_drift", "failed_incomplete"}
        BY DEF PostClass
      <3>2. PostOutcome(o) \in Records
        BY <3>1, OutcomeIsRecord DEF PostOutcome
      <3> QED BY <2>5, <3>2 DEF Postcheck
    <2> QED BY <2>1, <2>2, <2>3, <2>4, <2>5
  <1>2. PICK r \in Records : Conclude(o, r)
    BY <1>1
  <1>3. UNCHANGED troubles \/ Trouble
    BY DEF RefuseProvision, RefuseQuery, RunQuery, ApplyFails, ApplyTimesOut, InspectionFails,
           Postcheck, database
  <1>4. orphans' \in {orphans} \cup {orphans \cup {{s}} : s \in script[o]}
    BY DEF RefuseProvision, RefuseQuery, RunQuery, ApplyFails, ApplyTimesOut, InspectionFails,
           Postcheck, database, Heads
  <1>5. script[o] \subseteq Statements
    BY DEF Shapes
  <1>6. orphans' \subseteq SUBSET Statements
    BY <1>4, <1>5 DEF Shapes
  <1>7. changed' = changed
    BY DEF RefuseProvision, RefuseQuery, RunQuery, ApplyFails, ApplyTimesOut, InspectionFails,
           Postcheck, history
  <1> QED BY <1>2, <1>3, <1>6, <1>7, TroublesAreBounded, ConcludeShapes

LEMMA PrecheckShapes ==
    ASSUME IInv, Shapes, NEW o \in Operators, Precheck(o)
    PROVE  Shapes'
  <1>1. UNCHANGED <<orphans, troubles, changed>>
    BY DEF Precheck, database, history
  <1>2. CASE \E state \in {"succeeded", "rejected"},
                class \in {"already_compliant", "rejected_drift"} :
                Conclude(o, Outcome(o, state, class))
    BY <1>1, <1>2, OutcomeIsRecord, ConcludeShapes DEF Shapes
  <1>3. CASE /\ script' = [script EXCEPT ![o] = Repairs(pre[o], profile[o])]
             /\ applied' = [applied EXCEPT ![o] = Repairs(pre[o], profile[o]) # {}]
             /\ UNCHANGED <<section, pre, post, record>>
    <2>1. Repairs(pre[o], profile[o]) \in SUBSET Statements
      BY RepairsAreStatements DEF IInv, Types
    <2>2. applied' \in [Operators -> BOOLEAN]
      BY <1>3, Zenon DEF Shapes
    <2>3. changed' \in [Operators -> BOOLEAN]
      BY <1>1, Zenon DEF Shapes
    <2> QED BY <1>1, <1>3, <2>1, <2>2, <2>3 DEF Shapes
  <1> QED BY <1>2, <1>3 DEF Precheck

LEMMA WorkShapes ==
    ASSUME IInv, Shapes, NEW o \in Operators,
           ReadSection(o) \/ ApplyStatement(o) \/ ApplyEnds(o)
    PROVE  Shapes'
  <1>1. UNCHANGED <<orphans, troubles, applied, record>>
    BY DEF ReadSection, ApplyStatement, ApplyEnds, database
  <1>2. section' \in [Operators -> 1..6]
    <2>1. CASE ReadSection(o)
      <3>1. profile[o] \in Profiles /\ section[o] \in 1..6
        BY DEF IInv, Types, Shapes
      <3>2. Len(Sections(profile[o])) \in 0..5
        BY <3>1, AtMostFiveSections
      <3>3. section[o] <= Len(Sections(profile[o]))
        BY <2>1 DEF ReadSection
      <3>4. \A m \in 1..6, n \in 0..5 : m <= n => m + 1 \in 1..6
        OBVIOUS
      <3>5. section[o] + 1 \in 1..6
        BY <3>1, <3>2, <3>3, <3>4
      <3> QED BY <2>1, <3>5 DEF ReadSection, Shapes
    <2>2. CASE ~ ReadSection(o)
      BY <2>2 DEF ApplyStatement, ApplyEnds, Shapes
    <2> QED BY <2>1, <2>2
  <1>3. script' \in [Operators -> SUBSET Statements]
    BY DEF ReadSection, ApplyStatement, ApplyEnds, Shapes
  <1>4. changed' \in [Operators -> BOOLEAN]
    BY Zenon DEF ReadSection, ApplyStatement, ApplyEnds, Shapes, history
  <1>5. applied' \in [Operators -> BOOLEAN]
    BY <1>1, Zenon DEF Shapes
  <1> QED BY <1>1, <1>2, <1>3, <1>4, <1>5 DEF Shapes

LEMMA BeginShapes ==
    ASSUME Shapes, NEW o \in Operators, BeginProvision(o) \/ BeginQuery(o)
    PROVE  Shapes'
  <1>1. UNCHANGED <<orphans, section, script, applied, record, changed>>
    BY DEF BeginProvision, BeginQuery, database, command, history
  <1>2. UNCHANGED troubles \/ Trouble
    BY DEF BeginProvision, BeginQuery, Begin, database
  <1>3. applied' \in [Operators -> BOOLEAN] /\ changed' \in [Operators -> BOOLEAN]
    BY <1>1, Zenon DEF Shapes
  <1> QED BY <1>1, <1>2, <1>3, TroublesAreBounded DEF Shapes

LEMMA ProcessEndShapes ==
    ASSUME Shapes, NEW o \in Operators, Interrupted(o) \/ NextCommand(o)
    PROVE  Shapes'
  <1>1. Idle(o) /\ (Exit(o) \/ UNCHANGED <<section, script, applied>>)
    BY DEF Interrupted, NextCommand
  <1>2. UNCHANGED troubles \/ Trouble
    BY DEF Interrupted, NextCommand, database
  <1>3. orphans' \in {orphans, orphans \cup {script[o]}}
    BY DEF Interrupted, NextCommand, database
  <1>4. applied' \in [Operators -> BOOLEAN]
    BY <1>1, Zenon DEF Exit, Shapes
  <1>5. changed' \in [Operators -> BOOLEAN]
    BY <1>1, Zenon DEF Idle, Shapes
  <1>6. record' \in [Operators -> Records]
    BY <1>1 DEF Idle, Shapes, NoRecord, Records, Codes
  <1>7. section' \in [Operators -> 1..6] /\ script' \in [Operators -> SUBSET Statements]
    BY <1>1 DEF Exit, Shapes
  <1>8. orphans' \subseteq SUBSET Statements
    BY <1>3 DEF Shapes
  <1> QED BY <1>2, <1>4, <1>5, <1>6, <1>7, <1>8, TroublesAreBounded DEF Shapes

LEMMA OtherShapes ==
    ASSUME Shapes, OrphanStatement \/ AdministratorActs
    PROVE  Shapes'
  <1>1. UNCHANGED <<section, script, applied, record, changed>>
    BY DEF OrphanStatement, AdministratorActs, command
  <1>2. UNCHANGED troubles \/ Trouble
    BY DEF OrphanStatement, AdministratorActs
  <1>3. orphans' \subseteq SUBSET Statements
    <2>1. \A c \in orphans' : \E d \in orphans : c \subseteq d
      BY DEF OrphanStatement, AdministratorActs
    <2>2. \A d \in orphans : d \subseteq Statements
      BY DEF Shapes
    <2> QED BY <2>1, <2>2
  <1>4. applied' \in [Operators -> BOOLEAN] /\ changed' \in [Operators -> BOOLEAN]
    BY <1>1, Zenon DEF Shapes
  <1> QED BY <1>1, <1>2, <1>3, <1>4, TroublesAreBounded DEF Shapes

LEMMA ShapesStep == IInv /\ Shapes /\ [Next]_vars => Shapes'
  <1> SUFFICES ASSUME IInv, Shapes, [Next]_vars PROVE Shapes'
    OBVIOUS
  <1>1. ASSUME UNCHANGED vars PROVE Shapes'
    <2>1. UNCHANGED <<orphans, troubles, section, script, applied, record, changed>>
      BY <1>1 DEF vars, database, command, history
    <2>2. applied' \in [Operators -> BOOLEAN] /\ changed' \in [Operators -> BOOLEAN]
      BY <2>1, Zenon DEF Shapes
    <2> QED BY <2>1, <2>2 DEF Shapes
  <1>2. ASSUME NEW o \in Provisioners, Provision(o) PROVE Shapes'
    <2>1. o \in Operators
      BY DEF Operators
    <2>2. CASE ProvisionRaises(o)
      BY <1>1, <2>2 DEF ProvisionRaises
    <2> QED BY <1>2, <2>1, <2>2, EndShapes, PrecheckShapes, WorkShapes, BeginShapes,
               ProcessEndShapes DEF Provision, ProvisionStep
  <1>3. ASSUME NEW o \in Queriers, Query(o) PROVE Shapes'
    BY <1>3, EndShapes, BeginShapes, ProcessEndShapes DEF Query, Operators
  <1> QED BY <1>1, <1>2, <1>3, ProcessEndShapes, OtherShapes DEF Next

(* Every variable keeps its type: a command reads at most five sections,   *)
(* a script only has statements of the known kinds, and a record names one *)
(* of the problems its command looks for.                                  *)
THEOREM TypeCorrect == Spec => []TypeOK
  <1>1. IInv /\ Shapes => TypeOK
    BY DEF IInv, Types, Shapes, TypeOK
  <1> QED BY Initially, IInvStep, ShapesInitially, ShapesStep, <1>1, PTL DEF Spec
=============================================================================
