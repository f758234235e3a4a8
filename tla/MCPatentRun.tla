---------------------------- MODULE MCPatentRun ----------------------------
(***************************************************************************)
(* A small universe for PatentRun: one patent seen in every condition the  *)
(* rules distinguish, a second one complete or incomplete, and a record    *)
(* without an identity.  A source returns up to MaxBatch of these records, *)
(* so duplicates of one patent within one source occur too.                *)
(***************************************************************************)
EXTENDS PatentRun, Naturals

CONSTANTS p1, p2, MaxBatch

MCFields == {"owner", "period", "asset_status", "target_registered"}
MCRequired == {"owner", "period"}

Rec(id, owner, period, status, registered) ==
    [id |-> id,
     val |-> [f \in MCFields |->
        CASE f = "owner" -> owner
          [] f = "period" -> period
          [] f = "asset_status" -> status
          [] f = "target_registered" -> registered]]

Universe ==
    { Rec(p1, "ops", "now", Empty, Empty),
      Rec(p1, "law", "now", "eligible", Empty),
      Rec(p1, Empty, "now", "eligible", Empty),
      Rec(p1, Empty, Empty, Empty, "no"),
      Rec(p1, "ops", "old", Empty, Empty),
      Rec(p1, "ops", "now", "retired", Empty),
      Rec(p1, "ops", "now", Empty, "true"),
      Rec(p2, "ops", "now", Empty, Empty),
      Rec(p2, Empty, "now", Empty, Empty),
      Rec(NoId, "ops", "now", Empty, Empty) }

MCBatches == {b \in SUBSET Universe : Cardinality(b) <= MaxBatch}
=============================================================================
