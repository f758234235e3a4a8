----------------------------- MODULE Reconcile -----------------------------
(***************************************************************************)
(* The reconciliation rules of agent_runtime/workflow.py (_reconcile): the *)
(* records the source systems returned are grouped by patent_id, each      *)
(* field is reduced to the one value the sources agree on, and every rule  *)
(* that fails is reported.  A load into system D is offered only when the  *)
(* report is "resolved".                                                   *)
(*                                                                         *)
(* A source system is a set of records: nothing in _reconcile depends on   *)
(* the order or multiplicity of records, except counters it reports.       *)
(* None, "" and an absent key are one value, Empty.                        *)
(***************************************************************************)
EXTENDS FiniteSets

CONSTANTS
    Ids,              \* patent_id values
    NoId,             \* a missing or empty patent_id
    Fields,           \* field names other than patent_id
    Required,         \* target_required_fields other than patent_id
    Values,           \* field values
    Empty,            \* None, "" or an absent key
    RequestedPeriod,  \* the period argument of the run
    Eligible,         \* the value "eligible"
    Registered        \* True (or "true") in target_registered

ASSUME IdsAssumption == NoId \notin Ids
ASSUME FieldsAssumption ==
    /\ Required \subseteq Fields
    /\ {"period", "asset_status", "target_registered"} \subseteq Fields
ASSUME ValuesAssumption ==
    /\ Empty \notin Values
    /\ {RequestedPeriod, Eligible, Registered} \subseteq Values

Record == [id : Ids \cup {NoId}, val : [Fields -> Values \cup {Empty}]]

(* A set of source systems with the records each returned: the `sources`   *)
(* argument.                                                               *)
Sourced(Systems) == [Systems -> SUBSET Record]

(* All records of all systems.                                             *)
Pool(srcs) == UNION {srcs[s] : s \in DOMAIN srcs}

(* Records whose patent_id is falsy are set aside as malformed.            *)
Malformed(srcs) == {r \in Pool(srcs) : r.id = NoId}

Grouped(srcs) == {r.id : r \in Pool(srcs) \ Malformed(srcs)}

PresentIn(srcs, id) == {s \in DOMAIN srcs : \E r \in srcs[s] : r.id = id}

(* The distinct non-empty values the systems give for a field.             *)
Observed(srcs, id, f) == {r.val[f] : r \in {q \in Pool(srcs) : q.id = id}} \ {Empty}

(* A field is reconciled when exactly one distinct value was observed.     *)
Agreed(srcs, id, f) == \E v \in Values : Observed(srcs, id, f) = {v}

Reconciled(srcs, id, f) ==
    IF Agreed(srcs, id, f)
    THEN CHOOSE v \in Values : Observed(srcs, id, f) = {v}
    ELSE Empty

Conflicts(srcs) ==
    {c \in Grouped(srcs) \X Fields :
        \E v, w \in Observed(srcs, c[1], c[2]) : v # w}

(* Mutation: a record counts as complete as soon as one required field is   *)
(* filled in.                                                              *)
MissingUnlessEmpty(srcs) ==
    {id \in Grouped(srcs) : \A f \in Required : Reconciled(srcs, id, f) = Empty}

MissingRequired(srcs) ==
    {id \in Grouped(srcs) : \E f \in Required : Reconciled(srcs, id, f) = Empty}

(* Failed rules other than identity_present are about one patent_id.       *)
FailedRules(srcs) ==
       {<<"identity_match", id>> : id \in {i \in Grouped(srcs) :
            ~ {"A", "B"} \subseteq PresentIn(srcs, i)}}
  \cup {<<"field_value_consistency", c[1]>> : c \in Conflicts(srcs)}
  \cup {<<"period_valid", id>> : id \in {i \in Grouped(srcs) :
            Reconciled(srcs, i, "period") # RequestedPeriod}}
  \cup {<<"required_fields_present", id>> : id \in MissingRequired(srcs)}
  \cup {<<"asset_status_valid", id>> : id \in {i \in Grouped(srcs) :
            \E v \in Observed(srcs, i, "asset_status") : v # Eligible}}
  \cup {<<"no_duplicate_registration", id>> : id \in {i \in Grouped(srcs) :
            Registered \in Observed(srcs, i, "target_registered")}}
  \cup {<<"identity_present", NoId>> : r \in Malformed(srcs)}

(* Mutation: only conflicts and missing fields count.                      *)
StatusWithoutRules(srcs) ==
    IF Conflicts(srcs) = {} /\ MissingRequired(srcs) = {} THEN "resolved" ELSE "unresolved"

Status(srcs) ==
    IF Conflicts(srcs) = {} /\ MissingRequired(srcs) = {} /\ FailedRules(srcs) = {}
    THEN "resolved"
    ELSE "unresolved"

(* The records of the report: one per patent_id, holding the agreed values.*)
ReconciledRecords(srcs) ==
    {[id |-> i, val |-> [f \in Fields |-> Reconciled(srcs, i, f)]] : i \in Grouped(srcs)}

-----------------------------------------------------------------------------
(* What "resolved" promises to an approver, stated record by record and    *)
(* never through the rules above: two records about the same patent never  *)
(* contradict one another, A and B both know it, every required field has  *)
(* a value somewhere, it belongs to the requested period, and nobody says  *)
(* it is ineligible or already registered.                                 *)
Compatible(r, q) ==
    r.id = q.id => \A f \in Fields : r.val[f] = q.val[f] \/ Empty \in {r.val[f], q.val[f]}

CleanPool(srcs) ==
    /\ \A r, q \in Pool(srcs) : Compatible(r, q)
    /\ \A r \in Pool(srcs) :
          /\ r.id # NoId
          /\ \E a \in srcs["A"] : a.id = r.id
          /\ \E b \in srcs["B"] : b.id = r.id
          /\ r.val["period"] \in {Empty, RequestedPeriod}
          /\ r.val["asset_status"] \in {Empty, Eligible}
          /\ r.val["target_registered"] # Registered
          /\ \A f \in Required \cup {"period"} :
                \E q \in Pool(srcs) : q.id = r.id /\ q.val[f] # Empty
=============================================================================
