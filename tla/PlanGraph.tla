----------------------------- MODULE PlanGraph -----------------------------
(***************************************************************************)
(* ExecutionPlan.topological_groups of agent_runtime/planner.py (Kahn's    *)
(* algorithm), as the first phase of the execution of a plan.              *)
(*                                                                         *)
(* The groups are kept as one queue and the number of each step's group:   *)
(* a group is visited in the order it was found in, and what it finds goes *)
(* to the end, so the concatenated groups are the queue.  An in-degree is  *)
(* the number of dependencies not visited yet; here it is their set (a     *)
(* dependency listed twice is counted and discounted twice).               *)
(***************************************************************************)
EXTENDS Naturals, Sequences

CONSTANTS
    StepOrder,   \* the step_ids of plan.steps, in order
    Graphs       \* the depends_on of the plans considered

Steps == {StepOrder[n] : n \in DOMAIN StepOrder}

ASSUME OrderAssumption ==
    /\ StepOrder \in Seq(Steps)
    /\ \A m, n \in DOMAIN StepOrder : StepOrder[m] = StepOrder[n] => m = n

ASSUME GraphsAssumption == \A g \in Graphs : DOMAIN g = Steps

VARIABLES
    depends,   \* depends[s]: the depends_on of step s
    waiting,   \* waiting[s]: its dependencies in the plan not visited yet
    queue,     \* the steps found so far, group after group
    group,     \* group[s]: the number of s's group, 0 before it is found
    visited    \* how many steps of the queue were visited

planVars == <<depends, waiting, queue, group, visited>>

InQueue == {queue[n] : n \in DOMAIN queue}

(* Dependencies outside the plan are ignored.                              *)
Known(s) == depends[s] \cap Steps

Before(c, d) ==
    \E m, n \in DOMAIN StepOrder : StepOrder[m] = c /\ StepOrder[n] = d /\ m < n

(* The one list of the steps of S in plan order, as a set to choose from.  *)
InPlanOrder(S) ==
    {q \in UNION {[1..n -> S] : n \in 0..Len(StepOrder)} :
        /\ \A s \in S : \E n \in DOMAIN q : q[n] = s
        /\ \A m, n \in DOMAIN q : m < n => Before(q[m], q[n])}

GraphInit ==
    /\ depends \in Graphs
    /\ waiting = [s \in Steps |-> Known(s)]
    /\ queue \in InPlanOrder({s \in Steps : Known(s) = {}})
    /\ group = [s \in Steps |-> IF Known(s) = {} THEN 1 ELSE 0]
    /\ visited = 0

(* Mutation: any dependency that is done releases a step.                  *)
ReleasedByAny(s) == {d \in Steps : s \in waiting[d] /\ d \notin InQueue}

(* The steps whose last dependency the visit of s removes.                 *)
Released(s) == {d \in Steps : waiting[d] = {s}}

Visit ==
    LET s == queue[visited + 1] IN
    /\ visited < Len(queue)
    /\ waiting' = [d \in Steps |-> waiting[d] \ {s}]
    /\ \E found \in InPlanOrder(Released(s)) : queue' = queue \o found
    /\ group' = [d \in Steps |-> IF d \in Released(s) THEN group[s] + 1 ELSE group[d]]
    /\ visited' = visited + 1
    /\ UNCHANGED depends

Sorted == visited = Len(queue)

-----------------------------------------------------------------------------
(* The steps on a cycle or behind one: the largest set in which everybody  *)
(* depends on somebody of it.  validate reports a cycle iff there is one.  *)
Trapped(S) == \A s \in S : Known(s) \cap S # {}

Stuck == UNION {S \in SUBSET Steps : Trapped(S)}

GraphTypeOK ==
    /\ depends \in Graphs
    /\ waiting \in [Steps -> SUBSET Steps]
    /\ queue \in Seq(Steps)
    /\ group \in [Steps -> Nat]
    /\ visited \in 0..Len(queue)

(* The groups are what their name promises, for any plan however its       *)
(* dependencies are tangled: no step twice, every dependency in an earlier *)
(* group (so the steps of one group could run in parallel), and the steps  *)
(* left out are exactly those a cycle keeps from ever being ready.         *)
GroupsAreTopological ==
    /\ \A m, n \in DOMAIN queue : queue[m] = queue[n] => m = n
    /\ \A m, n \in DOMAIN queue : m < n => group[queue[m]] <= group[queue[n]]
    /\ \A s \in InQueue : \A d \in Known(s) :
          d \in InQueue /\ 0 < group[d] /\ group[d] < group[s]
    /\ Sorted => InQueue = Steps \ Stuck
=============================================================================
