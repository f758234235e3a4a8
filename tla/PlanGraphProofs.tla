--------------------------- MODULE PlanGraphProofs ---------------------------
(***************************************************************************)
(* The grouping of a plan keeps what GroupsAreTopological promises, for    *)
(* any steps and any dependencies between them.                            *)
(***************************************************************************)
EXTENDS PlanGraph, FiniteSetTheorems, TLAPS

Visited == {queue[n] : n \in 1..visited}

Distinct == \A m, n \in DOMAIN queue : queue[m] = queue[n] => m = n

(* The in-degrees count the dependencies that are not visited, and a step  *)
(* enters the queue when its in-degree becomes zero.                       *)
WaitingIsUnvisited == \A s \in Steps : waiting[s] = Known(s) \ Visited

QueuedWhenReady == \A s \in Steps : s \in InQueue <=> waiting[s] = {}

(* Along the queue the group numbers never fall, and what is found is at   *)
(* most one group ahead of what is visited.                                *)
GroupsGrow ==
    \A m, n \in DOMAIN queue : m < n => group[queue[m]] <= group[queue[n]]

OneGroupAhead ==
    visited < Len(queue) =>
        \A m \in DOMAIN queue : group[queue[m]] <= group[queue[visited + 1]] + 1

DependenciesBefore ==
    \A s \in InQueue : 0 < group[s] /\ \A d \in Known(s) : group[d] < group[s]

NoneStuck == \A s \in InQueue : s \notin Stuck

GraphInv ==
    /\ GraphTypeOK /\ Distinct /\ WaitingIsUnvisited /\ QueuedWhenReady
    /\ GroupsGrow /\ OneGroupAhead /\ DependenciesBefore /\ NoneStuck

-----------------------------------------------------------------------------
(* A list in plan order is a list without repetition of exactly that set.  *)
LEMMA PlanOrderLists ==
    ASSUME NEW S \in SUBSET Steps, NEW q \in InPlanOrder(S)
    PROVE  /\ q \in Seq(Steps)
           /\ {q[n] : n \in DOMAIN q} = S
           /\ \A m, n \in DOMAIN q : q[m] = q[n] => m = n
<1>1. PICK k \in 0..Len(StepOrder) : q \in [1..k -> S]
  BY DEF InPlanOrder
<1>2. k \in Nat
  BY <1>1, OrderAssumption
<1>3. q \in Seq(Steps) /\ DOMAIN q = 1..k
  BY <1>1, <1>2
<1>4. {q[n] : n \in DOMAIN q} = S
  BY <1>1, <1>3 DEF InPlanOrder
<1>5. ASSUME NEW c, Before(c, c) PROVE FALSE
  BY <1>5, OrderAssumption DEF Before
<1>6. ASSUME NEW m \in DOMAIN q, NEW n \in DOMAIN q, m < n PROVE q[m] # q[n]
  <2>1. Before(q[m], q[n])
    BY <1>6 DEF InPlanOrder
  <2> QED BY <2>1, <1>5
<1>7. \A m, n \in DOMAIN q : q[m] = q[n] => m = n
  BY <1>2, <1>3, <1>6
<1> QED BY <1>3, <1>4, <1>7

(* Stuck steps have a stuck dependency.                                    *)
LEMMA StuckHasStuckDependency ==
    ASSUME NEW s \in Stuck
    PROVE  \E d \in Known(s) : d \in Stuck
<1>1. PICK S \in SUBSET Steps : Trapped(S) /\ s \in S
  BY DEF Stuck
<1>2. PICK d \in Known(s) : d \in S
  BY <1>1 DEF Trapped
<1> QED BY <1>1, <1>2 DEF Stuck

LEMMA GraphInitInv == GraphInit => GraphInv
<1> SUFFICES ASSUME GraphInit PROVE GraphInv
  OBVIOUS
<1> DEFINE Free == {s \in Steps : Known(s) = {}}
<1>1. queue \in InPlanOrder(Free) /\ Free \in SUBSET Steps
  BY DEF GraphInit
<1>2. queue \in Seq(Steps) /\ InQueue = Free /\ Distinct
  BY <1>1, PlanOrderLists DEF InQueue, Distinct
<1>3. GraphTypeOK
  BY <1>2 DEF GraphInit, GraphTypeOK, Known
<1>4. WaitingIsUnvisited /\ QueuedWhenReady
  BY <1>2 DEF GraphInit, WaitingIsUnvisited, QueuedWhenReady, Visited
<1>5. \A s \in InQueue : group[s] = 1 /\ Known(s) = {}
  BY <1>2 DEF GraphInit
<1>6. \A n \in DOMAIN queue : group[queue[n]] = 1
  BY <1>5 DEF InQueue
<1>7. GroupsGrow
  BY <1>6 DEF GroupsGrow
<1>8. OneGroupAhead
  <2> SUFFICES ASSUME visited < Len(queue), NEW m \in DOMAIN queue
               PROVE  group[queue[m]] <= group[queue[visited + 1]] + 1
    BY DEF OneGroupAhead
  <2>1. visited + 1 \in DOMAIN queue
    BY <1>2 DEF GraphInit
  <2> QED BY <1>6, <2>1
<1>9. DependenciesBefore
  BY <1>5 DEF DependenciesBefore
<1>10. NoneStuck
  BY <1>5, StuckHasStuckDependency DEF NoneStuck
<1> QED BY <1>2, <1>3, <1>4, <1>7, <1>8, <1>9, <1>10 DEF GraphInv

LEMMA VisitInv == GraphInv /\ Visit => GraphInv'
<1> SUFFICES ASSUME GraphInv, Visit PROVE GraphInv'
  OBVIOUS
<1> DEFINE s == queue[visited + 1]
           R == Released(s)
<1>1. PICK found \in InPlanOrder(R) : queue' = queue \o found
  BY DEF Visit
<1>2. /\ visited < Len(queue) /\ visited' = visited + 1 /\ depends' = depends
      /\ waiting' = [d \in Steps |-> waiting[d] \ {s}]
      /\ group' = [d \in Steps |-> IF d \in R THEN group[s] + 1 ELSE group[d]]
  BY DEF Visit
<1>3. /\ queue \in Seq(Steps) /\ visited \in Nat /\ waiting \in [Steps -> SUBSET Steps]
      /\ group \in [Steps -> Nat] /\ DOMAIN queue = 1..Len(queue) /\ Len(queue) \in Nat
      /\ visited + 1 \in DOMAIN queue
  BY <1>2 DEF GraphInv, GraphTypeOK
<1>4. s \in InQueue /\ s \in Steps /\ InQueue \subseteq Steps
  BY <1>3 DEF InQueue
<1>5. R \in SUBSET Steps /\ \A d \in R : d \notin InQueue
  BY DEF Released, GraphInv, QueuedWhenReady
<1>6. /\ found \in Seq(Steps) /\ {found[n] : n \in DOMAIN found} = R
      /\ \A m, n \in DOMAIN found : found[m] = found[n] => m = n
  BY <1>1, <1>5, PlanOrderLists
<1>7. /\ queue' \in Seq(Steps) /\ Len(queue') = Len(queue) + Len(found)
      /\ Len(found) \in Nat /\ DOMAIN found = 1..Len(found)
      /\ DOMAIN queue' = 1..(Len(queue) + Len(found))
  BY <1>1, <1>3, <1>6
<1>8. \A n \in DOMAIN queue : n \in DOMAIN queue' /\ queue'[n] = queue[n]
  BY <1>1, <1>3, <1>6, <1>7
<1>9. \A n \in DOMAIN queue' : n \notin DOMAIN queue =>
         n - Len(queue) \in DOMAIN found /\ queue'[n] = found[n - Len(queue)]
  BY <1>1, <1>3, <1>6, <1>7
<1>10. \A n \in DOMAIN queue' : n \notin DOMAIN queue => queue'[n] \in R
  BY <1>6, <1>9
<1>11. \A n \in DOMAIN found : n + Len(queue) \in DOMAIN queue'
                               /\ queue'[n + Len(queue)] = found[n]
  BY <1>1, <1>3, <1>6, <1>7
<1>12. InQueue' = InQueue \cup R
  <2>1. InQueue' \subseteq InQueue \cup R
    BY <1>8, <1>10 DEF InQueue
  <2>2. InQueue \subseteq InQueue'
    BY <1>8 DEF InQueue
  <2>3. R \subseteq InQueue'
    BY <1>6, <1>11 DEF InQueue
  <2> QED BY <2>1, <2>2, <2>3
<1>13. Visited' = Visited \cup {s} /\ Visited' \subseteq InQueue
  <2>1. \A n \in 1..visited' : n \in DOMAIN queue
    BY <1>2, <1>3
  <2>2. 1..visited' = 1..visited \cup {visited + 1}
    BY <1>2, <1>3
  <2>3. \A n \in 1..visited' : queue'[n] = queue[n]
    BY <2>1, <1>8
  <2>4. Visited' = {queue[n] : n \in 1..visited'}
    BY <2>3 DEF Visited
  <2> QED BY <2>1, <2>2, <2>4 DEF Visited, InQueue
<1>14. \A d : Known(d)' = Known(d)
  BY <1>2 DEF Known
<1>15. Stuck' = Stuck
  BY <1>14 DEF Stuck, Trapped
<1>16. /\ \A d \in InQueue : group'[d] = group[d]
       /\ \A d \in R : group'[d] = group[s] + 1
  BY <1>2, <1>4, <1>5
<1>17. GraphTypeOK'
  <2>1. group' \in [Steps -> Nat]
    BY <1>2, <1>3, <1>4
  <2>2. waiting' \in [Steps -> SUBSET Steps]
    BY <1>2, <1>3
  <2>3. visited' \in 0..Len(queue')
    BY <1>2, <1>3, <1>7
  <2> QED BY <2>1, <2>2, <2>3, <1>2, <1>7 DEF GraphTypeOK, GraphInv
<1>18. Distinct'
  <2> SUFFICES ASSUME NEW m \in DOMAIN queue', NEW n \in DOMAIN queue',
                      queue'[m] = queue'[n]
               PROVE  m = n
    BY DEF Distinct
  <2>1. CASE m \in DOMAIN queue /\ n \in DOMAIN queue
    BY <2>1, <1>8 DEF GraphInv, Distinct
  <2>2. CASE m \in DOMAIN queue /\ n \notin DOMAIN queue
    BY <2>2, <1>5, <1>8, <1>10 DEF InQueue
  <2>3. CASE m \notin DOMAIN queue /\ n \in DOMAIN queue
    BY <2>3, <1>5, <1>8, <1>10 DEF InQueue
  <2>4. CASE m \notin DOMAIN queue /\ n \notin DOMAIN queue
    <3>1. m - Len(queue) = n - Len(queue)
      BY <2>4, <1>6, <1>9
    <3> QED BY <3>1, <1>3, <1>7
  <2> QED BY <2>1, <2>2, <2>3, <2>4
<1>19. WaitingIsUnvisited'
  <2> SUFFICES ASSUME NEW d \in Steps PROVE waiting'[d] = Known(d) \ Visited'
    BY <1>14 DEF WaitingIsUnvisited
  <2>1. waiting'[d] = waiting[d] \ {s} /\ waiting[d] = Known(d) \ Visited
    BY <1>2 DEF GraphInv, WaitingIsUnvisited
  <2> QED BY <2>1, <1>13
<1>20. QueuedWhenReady'
  <2> SUFFICES ASSUME NEW d \in Steps
               PROVE  d \in InQueue' <=> waiting'[d] = {}
    BY DEF QueuedWhenReady
  <2>1. d \in InQueue <=> waiting[d] = {}
    BY DEF GraphInv, QueuedWhenReady
  <2>2. d \in R <=> waiting[d] = {s}
    BY DEF Released
  <2>3. waiting'[d] = {} <=> waiting[d] = {} \/ waiting[d] = {s}
    BY <1>2
  <2> QED BY <2>1, <2>2, <2>3, <1>12
<1>21. \A n \in DOMAIN queue' :
          IF n \in DOMAIN queue THEN group'[queue'[n]] = group[queue[n]]
                                ELSE group'[queue'[n]] = group[s] + 1
  BY <1>8, <1>10, <1>16 DEF InQueue
<1>22. \A n \in DOMAIN queue : group[queue[n]] \in Nat /\ group[queue[n]] <= group[s] + 1
  BY <1>2, <1>3 DEF GraphInv, OneGroupAhead
<1>23. GroupsGrow'
  <2> SUFFICES ASSUME NEW m \in DOMAIN queue', NEW n \in DOMAIN queue', m < n
               PROVE  group'[queue'[m]] <= group'[queue'[n]]
    BY DEF GroupsGrow
  <2>1. CASE n \in DOMAIN queue
    <3>1. m \in DOMAIN queue
      BY <2>1, <1>3, <1>7
    <3> QED BY <2>1, <3>1, <1>21 DEF GraphInv, GroupsGrow
  <2>2. CASE n \notin DOMAIN queue
    <3>1. group[s] \in Nat
      BY <1>3, <1>4
    <3> QED BY <2>2, <3>1, <1>21, <1>22
  <2> QED BY <2>1, <2>2
<1>24. OneGroupAhead'
  <2> SUFFICES ASSUME visited' < Len(queue'), NEW m \in DOMAIN queue'
               PROVE  group'[queue'[m]] <= group'[queue'[visited' + 1]] + 1
    BY DEF OneGroupAhead
  <2>1. visited' + 1 \in DOMAIN queue' /\ visited + 1 \in DOMAIN queue'
        /\ visited + 1 < visited' + 1
    BY <1>2, <1>3, <1>7
  <2>2. group'[queue'[visited + 1]] <= group'[queue'[visited' + 1]]
    BY <2>1, <1>23 DEF GroupsGrow
  <2>3. group'[queue'[visited + 1]] = group[s]
    BY <2>1, <1>3, <1>21
  <2>4. group'[queue'[m]] <= group[s] + 1 /\ group'[queue'[m]] \in Nat
    BY <1>3, <1>4, <1>21, <1>22
  <2>5. group'[queue'[visited' + 1]] \in Nat /\ group[s] \in Nat
    BY <2>1, <1>3, <1>4, <1>21, <1>22
  <2> QED BY <2>2, <2>3, <2>4, <2>5
<1>25. \A d \in Visited' : group[d] <= group[s]
  <2>1. \A n \in 1..visited' : n \in DOMAIN queue /\ (n < visited + 1 \/ n = visited + 1)
    BY <1>2, <1>3
  <2>2. \A n \in 1..visited' : group[queue[n]] <= group[s]
    BY <2>1, <1>3, <1>4 DEF GraphInv, GroupsGrow
  <2>3. \A n \in 1..visited' : queue'[n] = queue[n]
    BY <2>1, <1>8
  <2> QED BY <2>2, <2>3 DEF Visited
<1>26. \A d \in R : Known(d) \subseteq Visited'
  BY <1>5, <1>12, <1>14, <1>19, <1>20 DEF WaitingIsUnvisited, QueuedWhenReady
<1>27. \A d \in InQueue : Known(d) \subseteq InQueue
  BY <1>4, <1>13 DEF GraphInv, QueuedWhenReady, WaitingIsUnvisited
<1>28. DependenciesBefore'
  <2> SUFFICES ASSUME NEW d \in InQueue'
               PROVE  0 < group'[d] /\ \A e \in Known(d) : group'[e] < group'[d]
    BY <1>14 DEF DependenciesBefore
  <2>1. CASE d \in InQueue
    BY <2>1, <1>16, <1>27 DEF GraphInv, DependenciesBefore
  <2>2. CASE d \in R
    <3>1. group'[d] = group[s] + 1 /\ group[s] \in Nat
      BY <2>2, <1>3, <1>4, <1>16
    <3>2. ASSUME NEW e \in Known(d) PROVE group'[e] < group'[d]
      <4>1. e \in Visited' /\ e \in InQueue /\ e \in Steps
        BY <2>2, <3>2, <1>4, <1>13, <1>26
      <4> QED BY <3>1, <4>1, <1>3, <1>16, <1>25
    <3> QED BY <3>1, <3>2
  <2> QED BY <2>1, <2>2, <1>12
<1>29. NoneStuck'
  <2> SUFFICES ASSUME NEW d \in InQueue', d \in Stuck PROVE FALSE
    BY <1>15 DEF NoneStuck
  <2>1. d \in R
    BY <1>12 DEF GraphInv, NoneStuck
  <2>2. PICK e \in Known(d) : e \in Stuck
    BY StuckHasStuckDependency
  <2> QED BY <2>1, <2>2, <1>13, <1>26 DEF GraphInv, NoneStuck
<1> QED BY <1>17, <1>18, <1>19, <1>20, <1>23, <1>24, <1>28, <1>29 DEF GraphInv

(* The invariant is unaffected by steps that leave the graph alone.        *)
LEMMA GraphInvStutters == GraphInv /\ UNCHANGED planVars => GraphInv'
<1> SUFFICES ASSUME GraphInv, UNCHANGED planVars PROVE GraphInv'
  OBVIOUS
<1>1. /\ depends' = depends /\ waiting' = waiting /\ queue' = queue
      /\ group' = group /\ visited' = visited
  BY DEF planVars
<1>2. /\ InQueue' = InQueue /\ Visited' = Visited /\ \A s : Known(s)' = Known(s)
  BY <1>1 DEF InQueue, Visited, Known
<1>3. Stuck' = Stuck
  BY <1>2 DEF Stuck, Trapped
<1>4. GraphTypeOK' /\ Distinct'
  BY <1>1 DEF GraphInv, GraphTypeOK, Distinct
<1>5. WaitingIsUnvisited' /\ QueuedWhenReady'
  BY <1>1, <1>2 DEF GraphInv, WaitingIsUnvisited, QueuedWhenReady
<1>6. GroupsGrow' /\ OneGroupAhead'
  BY <1>1 DEF GraphInv, GroupsGrow, OneGroupAhead
<1>7. DependenciesBefore' /\ NoneStuck'
  BY <1>1, <1>2, <1>3 DEF GraphInv, DependenciesBefore, NoneStuck
<1> QED BY <1>4, <1>5, <1>6, <1>7 DEF GraphInv

LEMMA GraphInvIsTopological == GraphInv => GroupsAreTopological
<1> SUFFICES ASSUME GraphInv PROVE GroupsAreTopological
  OBVIOUS
<1>1. queue \in Seq(Steps) /\ visited \in Nat /\ visited <= Len(queue)
      /\ DOMAIN queue = 1..Len(queue) /\ InQueue \subseteq Steps
  BY DEF GraphInv, GraphTypeOK, InQueue
<1>2. Visited \subseteq InQueue
  BY <1>1 DEF Visited, InQueue
<1>3. \A s \in InQueue : Known(s) \subseteq InQueue
  BY <1>1, <1>2 DEF GraphInv, QueuedWhenReady, WaitingIsUnvisited
<1>4. Sorted => InQueue = Steps \ Stuck
  <2> SUFFICES ASSUME Sorted PROVE InQueue = Steps \ Stuck
    OBVIOUS
  <2>1. Visited = InQueue
    BY <1>1 DEF Sorted, Visited, InQueue
  <2>2. Trapped(Steps \ InQueue)
    BY <2>1 DEF Trapped, GraphInv, QueuedWhenReady, WaitingIsUnvisited, Known
  <2>3. Steps \ InQueue \subseteq Stuck
    BY <2>2 DEF Stuck
  <2> QED BY <1>1, <2>3 DEF GraphInv, NoneStuck
<1> QED
  BY <1>3, <1>4 DEF GroupsAreTopological, GraphInv, Distinct, GroupsGrow, DependenciesBefore

(* The queue repeats no step, so it is no longer than the plan.            *)
LEMMA QueueIsShort == GraphInv => Len(queue) <= Len(StepOrder)
<1> SUFFICES ASSUME GraphInv PROVE Len(queue) <= Len(StepOrder)
  OBVIOUS
<1>1. /\ queue \in Seq(Steps) /\ DOMAIN queue = 1..Len(queue) /\ Len(queue) \in Nat
      /\ \A m, n \in DOMAIN queue : queue[m] = queue[n] => m = n
  BY DEF GraphInv, GraphTypeOK, Distinct
<1>2. StepOrder \in Seq(Steps) /\ DOMAIN StepOrder = 1..Len(StepOrder) /\ Len(StepOrder) \in Nat
  BY OrderAssumption
<1> DEFINE Places == 1..Len(StepOrder)
           Taken == 1..Len(queue)
           place == [n \in Taken |-> CHOOSE m \in Places : StepOrder[m] = queue[n]]
<1>3. \A n \in Taken : place[n] \in Places /\ StepOrder[place[n]] = queue[n]
  <2> SUFFICES ASSUME NEW n \in Taken
               PROVE  place[n] \in Places /\ StepOrder[place[n]] = queue[n]
    OBVIOUS
  <2>1. \E m \in Places : StepOrder[m] = queue[n]
    BY <1>1, <1>2 DEF Steps
  <2> QED BY <2>1
<1>4. place \in [Taken -> Places]
  BY <1>3
<1>5. \A m, n \in Taken : queue[m] = queue[n] => m = n
  BY <1>1
<1>6. IsFiniteSet(Places) /\ Cardinality(Places) = Len(StepOrder)
  BY <1>2, FS_Interval
<1>7. IsFiniteSet(Taken) /\ Cardinality(Taken) = Len(queue)
  BY <1>1, FS_Interval
<1> HIDE DEF Places, Taken, place
<1>8. place \in Injection(Taken, Places)
  <2>1. \A m, n \in Taken : place[m] = place[n] => m = n
    BY <1>3, <1>5
  <2> QED BY <1>4, <2>1 DEF Injection, IsInjective
<1>9. Cardinality(Taken) <= Cardinality(Places)
  <2>1. \A S, T : \A f \in Injection(S, T) : IsFiniteSet(T) => Cardinality(S) <= Cardinality(T)
    BY FS_Injection, Zenon
  <2> QED BY <1>6, <1>8, <2>1
<1> QED BY <1>6, <1>7, <1>9
-----------------------------------------------------------------------------
(* Nobody is grouped later than its dependencies ask for: a step of the    *)
(* first group has none, another one has one in the group just before its  *)
(* own; and a step that is not found yet has no group.                     *)
GroupsAreEarliest ==
    \A s \in Steps :
        IF s \in InQueue
        THEN \/ group[s] = 1 /\ Known(s) = {}
             \/ \E d \in Known(s) : group[s] = group[d] + 1
        ELSE group[s] = 0

LEMMA EarliestInitially == ASSUME GraphInit PROVE GroupsAreEarliest
<1> DEFINE Free == {s \in Steps : Known(s) = {}}
<1>1. InQueue = Free
  <2>1. queue \in InPlanOrder(Free) /\ Free \in SUBSET Steps
    BY DEF GraphInit
  <2> QED BY <2>1, PlanOrderLists DEF InQueue
<1>2. group = [s \in Steps |-> IF Known(s) = {} THEN 1 ELSE 0]
  BY DEF GraphInit
<1> QED BY <1>1, <1>2 DEF GroupsAreEarliest

LEMMA EarliestStep ==
    ASSUME GraphInv, GraphInv', GroupsAreEarliest, Visit PROVE GroupsAreEarliest'
<1> DEFINE s == queue[visited + 1]
<1>1. /\ visited < Len(queue) /\ UNCHANGED depends
      /\ waiting' = [d \in Steps |-> waiting[d] \ {s}]
      /\ group' = [d \in Steps |-> IF d \in Released(s) THEN group[s] + 1 ELSE group[d]]
  BY DEF Visit
<1>2. s \in InQueue /\ s \in Steps /\ Visited \subseteq InQueue
  BY <1>1 DEF GraphInv, GraphTypeOK, InQueue, Visited
<1>3. \A x \in Steps : Known(x)' = Known(x) /\ Known(x) \subseteq Steps
  BY <1>1 DEF Known
<1>4. \A x \in Steps : (x \in InQueue <=> waiting[x] = {}) /\ waiting[x] = Known(x) \ Visited
  BY DEF GraphInv, QueuedWhenReady, WaitingIsUnvisited
<1>5. \A x \in Steps : x \in InQueue' <=> x \in InQueue \/ x \in Released(s)
  <2>1. \A x \in Steps : x \in InQueue' <=> waiting'[x] = {}
    BY DEF GraphInv, QueuedWhenReady
  <2>2. \A x \in Steps : waiting'[x] = {} <=> waiting[x] = {} \/ waiting[x] = {s}
    BY <1>1
  <2> HIDE DEF s
  <2> QED BY <1>4, <2>1, <2>2 DEF Released
<1>6. \A x \in InQueue : x \in Steps => group'[x] = group[x] /\ Known(x) \subseteq InQueue
  BY <1>1, <1>2, <1>4 DEF Released
<1>7. \A x \in Released(s) :
          x \in Steps /\ x \notin InQueue /\ group'[x] = group[s] + 1 /\ s \in Known(x)
  BY <1>1, <1>4 DEF Released
<1> HIDE DEF s
<1> SUFFICES ASSUME NEW x \in Steps
             PROVE  IF x \in InQueue'
                    THEN \/ group'[x] = 1 /\ Known(x) = {}
                         \/ \E d \in Known(x) : group'[x] = group'[d] + 1
                    ELSE group'[x] = 0
  BY <1>1, <1>3 DEF GroupsAreEarliest, Known
<1>8. CASE x \in InQueue
  BY <1>3, <1>5, <1>6, <1>8 DEF GroupsAreEarliest
<1>9. CASE x \in Released(s)
  BY <1>2, <1>5, <1>6, <1>7, <1>9
<1>10. CASE x \notin InQueue /\ x \notin Released(s)
  BY <1>1, <1>5, <1>10 DEF GroupsAreEarliest
<1> QED BY <1>8, <1>9, <1>10
=============================================================================
