--------------------------- MODULE MCPlanExecutor ---------------------------
(***************************************************************************)
(* Plans of three steps: independent, a chain in and against plan order, a *)
(* fork, a join, a join of a step and of its dependent, a dependency       *)
(* outside the plan, a step depending on itself, a cycle with a step       *)
(* behind it and one before it.                                            *)
(***************************************************************************)
EXTENDS PlanExecutor

CONSTANTS s1, s2, s3, foreign, open, strict, writer

MCStepOrder == <<s1, s2, s3>>

Plan(a, b, c) == [s \in Steps |-> CASE s = s1 -> a [] s = s2 -> b [] s = s3 -> c]

MCGraphs ==
    { Plan({}, {}, {}),
      Plan({}, {s1}, {s2}), Plan({s2}, {s3}, {}),
      Plan({s3}, {s3}, {}), Plan({}, {}, {s1, s2}), Plan({}, {s1, s3}, {s1}),
      Plan({foreign}, {}, {s1, foreign}),
      Plan({s1}, {}, {s2}), Plan({}, {s1, s3}, {s2}), Plan({s2}, {s1}, {s2}) }

(* One plan is enough to wait for an approval.                             *)
OnePlan == { Plan({}, {s1}, {s2}) }
=============================================================================
