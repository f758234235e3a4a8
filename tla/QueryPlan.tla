----------------------------- MODULE QueryPlan -----------------------------
(***************************************************************************)
(* From a question to a proposed statement (agent_runtime/schema_context.py *)
(* and query_plan.py): tables are ranked by how well they match, the best  *)
(* ones and some they join with become the context, and one of a few fixed *)
(* patterns is taken when the question's words and the context fit.        *)
(*                                                                         *)
(* A question is given by the score of each table and by its words, both   *)
(* after normalisation with the glossary.                                  *)
(***************************************************************************)
EXTENDS Naturals, Sequences, FiniteSets, FiniteSetsExt, ReadOnlySql

Tables == {"sales", "customers", "channels", "products", "promotions", "times", "countries"}

(* Ties of score: primary tables first, then those with more joins, then   *)
(* by name.                                                                *)
TieOrder == <<"sales", "customers", "channels", "products", "promotions", "times", "countries">>

Joins(t) ==
    CASE t = "sales" -> Tables \ {"sales", "countries"}
      [] t = "customers" -> {"sales", "countries"}
      [] t = "countries" -> {"sales", "customers"}
      [] OTHER -> {"sales"}

TableLimit == 6
RelationshipLimit == 2
MinScore == 15

Position(t) == CHOOSE i \in DOMAIN TieOrder : TieOrder[i] = t

Better(s, t, scores) ==
    \/ scores[s] > scores[t]
    \/ scores[s] = scores[t] /\ Position(s) < Position(t)

First(n, S, scores) == {t \in S : Cardinality({s \in S : Better(s, t, scores)}) < n}

Best(scores) == {t \in Tables : \A s \in Tables : scores[s] <= scores[t]}

(* Why the tables are not selected, if they are not.                       *)
Clarification(scores) ==
    IF \A t \in Tables : scores[t] < MinScore THEN "weak_schema_match"
    ELSE IF Cardinality(Best(scores)) > 1 THEN "ambiguous_schema_match"
    ELSE "none"

Matched(scores) == First(TableLimit, {t \in Tables : scores[t] >= MinScore}, scores)

(* Tables joined with a selected one, all with the same score.             *)
Expansion(selected) ==
    First(Min({RelationshipLimit, TableLimit - Cardinality(selected)}),
          UNION {Joins(t) : t \in selected} \ selected, [t \in Tables |-> 10])

Selected(scores) ==
    IF Clarification(scores) # "none" THEN {}
    ELSE Matched(scores) \cup Expansion(Matched(scores))

-----------------------------------------------------------------------------
Unsupported == {"country", "region", "customer"}

(* The words a pattern is chosen by, in the order they are tried.          *)
Subject(words) ==
    IF words \cap Unsupported # {} THEN "none"
    ELSE IF "promotion" \in words THEN "promotion"
    ELSE IF "channel" \in words THEN "channel"
    ELSE IF "product" \in words THEN "product"
    ELSE "none"

Grain(words) ==
    IF "day" \in words THEN "day" ELSE IF "month" \in words THEN "month" ELSE "none"

NoPattern == [subject |-> "none", grain |-> "none", detail |-> "none"]

Pattern(words) ==
    IF Subject(words) = "none" \/ "revenue" \notin words \/ Grain(words) = "none"
    THEN NoPattern
    ELSE [subject |-> Subject(words), grain |-> Grain(words),
          detail |-> IF Subject(words) = "promotion" /\ "subcategory" \in words
                     THEN "subcategory" ELSE "category"]

Required(subject) ==
    {"sales", "times"} \cup
    (CASE subject = "promotion" -> {"promotions"}
       [] subject = "channel" -> {"channels"}
       [] subject = "product" -> {"products"})

(* What the policy finds in the statements of the patterns: nothing.       *)
Findings(pattern) == {}

Refused(status) == [status |-> status, pattern |-> NoPattern]

(* build_query_plan_from_context for the SH profile.                       *)
Plan(q) ==
    LET pattern == Pattern(q.words) IN
    IF Clarification(q.scores) # "none" THEN Refused("clarification_required")
    ELSE IF pattern = NoPattern THEN Refused("blocked")
    ELSE IF ~ Required(pattern.subject) \subseteq Selected(q.scores) THEN Refused("blocked")
    ELSE IF ~ SqlAllowed(Findings(pattern)) THEN Refused("blocked")
    ELSE [status |-> "planned", pattern |-> pattern]

-----------------------------------------------------------------------------
(* What a plan may be made from: with words for it, a table that matches   *)
(* best, and every table of its statement among those selected.            *)
Justified(q) ==
    LET p == Plan(q) IN
    p.status = "planned" =>
        /\ {p.pattern.subject, p.pattern.grain, "revenue"} \subseteq q.words
        /\ Cardinality(Best(q.scores)) = 1
        /\ Required(p.pattern.subject) \subseteq Selected(q.scores)
        /\ q.words \cap Unsupported = {}

(* No more tables than the limit, and none that matched is left out for    *)
(* one that did not.                                                       *)
WithinLimit(scores) ==
    LET selected == Selected(scores) IN
    /\ Cardinality(selected) <= TableLimit
    /\ selected # {} => Best(scores) \subseteq selected
    /\ \A s \in selected, t \in Tables \ selected :
          scores[t] >= MinScore => scores[s] >= scores[t]
=============================================================================
