---------------------------- MODULE MCAgentLoop ----------------------------
(***************************************************************************)
(* Small instance of AgentLoop: one question of each kind, and the rules   *)
(* of the query plan on every small ranking of the tables.                 *)
(***************************************************************************)
EXTENDS AgentLoop

MatchedBy(high, low) ==
    [t \in Tables |-> IF t \in high THEN 600 ELSE IF t \in low THEN 100 ELSE 0]

Question(keywords, scores, words) ==
    [keywords |-> keywords, scores |-> scores, words |-> words]

MCAsked ==
    { Question({"workflow", "database", "write"}, MatchedBy({}, Tables), {}),
      Question({"time"}, MatchedBy({}, {}), {"month"}),
      Question({"database", "write", "metric"}, MatchedBy({"sales"}, {}), {"revenue"}),
      Question({"metric", "dimension"}, MatchedBy({"sales"}, {"products", "times"}),
               {"revenue", "product", "month"}),
      Question({"database"}, MatchedBy({"sales"}, {"times"}), {"revenue"}) }

MCMemories ==
    {[readable |-> TRUE, status |-> "active", review |-> "approved"],
     [readable |-> TRUE, status |-> "proposed", review |-> "pending"]}

ASSUME RankingAssumption == \A scores \in [Tables -> {0, 15, 30}] : WithinLimit(scores)

ASSUME PlanAssumption ==
    \A scores \in [Tables -> {0, 30}], extra \in {"none", "sales"} :
        \A words \in SUBSET {"country", "promotion", "channel", "product", "revenue", "month"} :
            Justified(Question({}, IF extra = "none" THEN scores
                                   ELSE [scores EXCEPT !.sales = 60], words))
=============================================================================
