-------------------------- MODULE PatentRunProofs --------------------------
(***************************************************************************)
(* Proofs about the reconciliation rules and the run that applies them,    *)
(* for any patents, fields, values and record sets of any size.            *)
(***************************************************************************)
EXTENDS PatentRun, TLAPS

(* A value is observed when some pooled record of the patent has it.       *)
LEMMA ObservedMember ==
    ASSUME NEW srcs, NEW id, NEW f, NEW v
    PROVE  v \in Observed(srcs, id, f) <=>
              v # Empty /\ \E r \in Pool(srcs) : r.id = id /\ r.val[f] = v
BY DEF Observed

LEMMA PoolMember ==
    ASSUME NEW srcs, NEW r
    PROVE  r \in Pool(srcs) <=> \E s \in DOMAIN srcs : r \in srcs[s]
BY DEF Pool

LEMMA PoolType ==
    ASSUME NEW S, NEW srcs \in Sourced(S)
    PROVE  Pool(srcs) \subseteq Record /\ DOMAIN srcs = S
BY DEF Pool, Sourced

LEMMA ObservedType ==
    ASSUME NEW S, NEW srcs \in Sourced(S), NEW id, NEW f \in Fields
    PROVE  Observed(srcs, id, f) \subseteq Values
BY PoolType DEF Observed, Record

(* A field is empty in the report or the one value everybody observed.     *)
LEMMA ReconciledIsObserved ==
    ASSUME NEW S, NEW srcs \in Sourced(S), NEW id, NEW f \in Fields
    PROVE  /\ Reconciled(srcs, id, f) # Empty =>
                 Observed(srcs, id, f) = {Reconciled(srcs, id, f)}
           /\ \A v : Observed(srcs, id, f) = {v} => Reconciled(srcs, id, f) = v
<1>1. Agreed(srcs, id, f) => Observed(srcs, id, f) = {Reconciled(srcs, id, f)}
  BY DEF Agreed, Reconciled
<1>2. ~ Agreed(srcs, id, f) => Reconciled(srcs, id, f) = Empty
  BY DEF Reconciled
<1>3. \A v : Observed(srcs, id, f) = {v} => Agreed(srcs, id, f)
  BY ObservedType DEF Agreed
<1> QED BY <1>1, <1>2, <1>3

(* The report names a patent when a record of it was returned.             *)
LEMMA GroupedMember ==
    ASSUME NEW S, NEW srcs \in Sourced(S), NEW id
    PROVE  id \in Grouped(srcs) <=>
              id # NoId /\ \E r \in Pool(srcs) : r.id = id
BY PoolType DEF Grouped, Malformed

-----------------------------------------------------------------------------
(* No rule fails exactly when none of them has a patent to name.           *)
LEMMA NoFailedRules ==
    ASSUME NEW S, NEW srcs \in Sourced(S)
    PROVE  FailedRules(srcs) = {} <=>
              /\ \A i \in Grouped(srcs) :
                    /\ {"A", "B"} \subseteq PresentIn(srcs, i)
                    /\ Reconciled(srcs, i, "period") = RequestedPeriod
                    /\ \A v \in Observed(srcs, i, "asset_status") : v = Eligible
                    /\ Registered \notin Observed(srcs, i, "target_registered")
              /\ Conflicts(srcs) = {}
              /\ MissingRequired(srcs) = {}
              /\ Malformed(srcs) = {}
<1> DEFINE G == Grouped(srcs)
           Unmatched == {i \in G : ~ {"A", "B"} \subseteq PresentIn(srcs, i)}
           Foreign == {i \in G : Reconciled(srcs, i, "period") # RequestedPeriod}
           Retired == {i \in G : \E v \in Observed(srcs, i, "asset_status") : v # Eligible}
           Known == {i \in G : Registered \in Observed(srcs, i, "target_registered")}
<1>1. FailedRules(srcs) = {} <=>
         /\ Unmatched = {} /\ Foreign = {} /\ Retired = {} /\ Known = {}
         /\ Conflicts(srcs) = {} /\ MissingRequired(srcs) = {} /\ Malformed(srcs) = {}
  BY DEF FailedRules
<1> QED BY <1>1

(* What _reconcile calls "resolved" is what the reader of the record pool  *)
(* would call clean, for every pool.                                       *)
LEMMA ResolvedIffClean ==
    ASSUME NEW S, {"A", "B"} \subseteq S, NEW srcs \in Sourced(S)
    PROVE  Status(srcs) = "resolved" <=> CleanPool(srcs)
<1>1. ASSUME Status(srcs) = "resolved" PROVE CleanPool(srcs)
  <2>1. FailedRules(srcs) = {}
    BY <1>1 DEF Status
  <2>2. ASSUME NEW r \in Pool(srcs)
        PROVE  r.id # NoId /\ r.id \in Grouped(srcs)
    BY <2>1, NoFailedRules, GroupedMember DEF Malformed
  <2>3. ASSUME NEW r \in Pool(srcs), NEW q \in Pool(srcs)
        PROVE  Compatible(r, q)
    <3> SUFFICES ASSUME r.id = q.id, NEW f \in Fields,
                        r.val[f] # Empty, q.val[f] # Empty
                 PROVE  r.val[f] = q.val[f]
      BY DEF Compatible
    <3>1. r.val[f] \in Observed(srcs, r.id, f) /\ q.val[f] \in Observed(srcs, r.id, f)
      BY ObservedMember
    <3>2. <<r.id, f>> \notin Conflicts(srcs)
      BY <2>1, NoFailedRules
    <3> QED BY <2>2, <3>1, <3>2 DEF Conflicts
  <2>4. ASSUME NEW r \in Pool(srcs)
        PROVE  /\ \E a \in srcs["A"] : a.id = r.id
               /\ \E b \in srcs["B"] : b.id = r.id
    <3>1. {"A", "B"} \subseteq PresentIn(srcs, r.id)
      BY <2>1, <2>2, NoFailedRules
    <3> QED BY <3>1 DEF PresentIn
  <2>5. ASSUME NEW r \in Pool(srcs), NEW f \in Required \cup {"period"}
        PROVE  \E q \in Pool(srcs) : q.id = r.id /\ q.val[f] # Empty
    <3>1. f \in Fields
      BY FieldsAssumption
    <3>2. Reconciled(srcs, r.id, f) # Empty
      <4>1. CASE f \in Required
        BY <4>1, <2>1, <2>2, NoFailedRules DEF MissingRequired
      <4>2. CASE f = "period"
        BY <4>2, <2>1, <2>2, NoFailedRules, ValuesAssumption
      <4> QED BY <4>1, <4>2
    <3>3. Reconciled(srcs, r.id, f) \in Observed(srcs, r.id, f)
      BY <3>1, <3>2, ReconciledIsObserved
    <3> QED BY <3>3, ObservedMember
  <2>6. ASSUME NEW r \in Pool(srcs)
        PROVE  r.val["period"] \in {Empty, RequestedPeriod}
    <3>1. CASE r.val["period"] # Empty
      <4>1. r.val["period"] \in Observed(srcs, r.id, "period")
        BY <3>1, ObservedMember
      <4>2. Reconciled(srcs, r.id, "period") = RequestedPeriod
        BY <2>1, <2>2, NoFailedRules
      <4>3. Observed(srcs, r.id, "period") = {RequestedPeriod}
        BY <4>2, ReconciledIsObserved, FieldsAssumption, ValuesAssumption
      <4> QED BY <4>1, <4>3
    <3> QED BY <3>1
  <2>7. ASSUME NEW r \in Pool(srcs)
        PROVE  /\ r.val["asset_status"] \in {Empty, Eligible}
               /\ r.val["target_registered"] # Registered
    <3>1. \A f : r.val[f] # Empty => r.val[f] \in Observed(srcs, r.id, f)
      BY ObservedMember
    <3> QED BY <3>1, <2>1, <2>2, NoFailedRules, ValuesAssumption
  <2> QED BY <2>2, <2>3, <2>4, <2>5, <2>6, <2>7 DEF CleanPool
<1>2. ASSUME CleanPool(srcs) PROVE Status(srcs) = "resolved"
  <2>1. Malformed(srcs) = {}
    BY <1>2 DEF CleanPool, Malformed
  <2>2. ASSUME NEW i \in Grouped(srcs), NEW f \in Fields,
               NEW v \in Observed(srcs, i, f), NEW w \in Observed(srcs, i, f)
        PROVE  v = w
    <3>1. PICK r \in Pool(srcs) : r.id = i /\ r.val[f] = v
      BY ObservedMember
    <3>2. PICK q \in Pool(srcs) : q.id = i /\ q.val[f] = w
      BY ObservedMember
    <3>3. v # Empty /\ w # Empty /\ Compatible(r, q)
      BY <1>2, ObservedMember DEF CleanPool
    <3> QED BY <3>1, <3>2, <3>3 DEF Compatible
  <2>3. Conflicts(srcs) = {}
    BY <2>2 DEF Conflicts
  <2>4. ASSUME NEW i \in Grouped(srcs), NEW f \in Required \cup {"period"}
        PROVE  Reconciled(srcs, i, f) # Empty
                 /\ Reconciled(srcs, i, f) \in Observed(srcs, i, f)
    <3>1. f \in Fields
      BY FieldsAssumption
    <3>2. PICK r \in Pool(srcs) : r.id = i
      BY GroupedMember
    <3>3. PICK q \in Pool(srcs) : q.id = i /\ q.val[f] # Empty
      BY <1>2, <3>2 DEF CleanPool
    <3>4. q.val[f] \in Observed(srcs, i, f)
      BY <3>3, ObservedMember
    <3>5. Observed(srcs, i, f) = {q.val[f]}
      BY <3>1, <3>4, <2>2
    <3> QED BY <3>1, <3>3, <3>5, ReconciledIsObserved
  <2>5. MissingRequired(srcs) = {}
    BY <2>4 DEF MissingRequired
  <2>6. ASSUME NEW i \in Grouped(srcs)
        PROVE  /\ {"A", "B"} \subseteq PresentIn(srcs, i)
               /\ Reconciled(srcs, i, "period") = RequestedPeriod
               /\ \A v \in Observed(srcs, i, "asset_status") : v = Eligible
               /\ Registered \notin Observed(srcs, i, "target_registered")
    <3>1. PICK r \in Pool(srcs) : r.id = i
      BY GroupedMember
    <3>2. {"A", "B"} \subseteq PresentIn(srcs, i)
      BY <1>2, <3>1, PoolType DEF CleanPool, PresentIn
    <3>3. \A f, v : v \in Observed(srcs, i, f) =>
             v # Empty /\ \E q \in Pool(srcs) : q.val[f] = v
      BY ObservedMember
    <3>4. Reconciled(srcs, i, "period") = RequestedPeriod
      BY <1>2, <2>4, <3>3 DEF CleanPool
    <3>5. \A v \in Observed(srcs, i, "asset_status") : v = Eligible
      BY <1>2, <3>3 DEF CleanPool
    <3>6. Registered \notin Observed(srcs, i, "target_registered")
      BY <1>2, <3>3 DEF CleanPool
    <3> QED BY <3>2, <3>4, <3>5, <3>6
  <2>7. FailedRules(srcs) = {}
    BY <2>1, <2>3, <2>5, <2>6, NoFailedRules
  <2> QED BY <2>3, <2>5, <2>7 DEF Status
<1> QED BY <1>1, <1>2

-----------------------------------------------------------------------------
(* Records added by one more system only add values, so only add failures  *)
(* of the rules that look for something present.                           *)
LEMMA MorePoolFailsMore ==
    ASSUME NEW S, NEW srcs \in Sourced(S), NEW T, NEW more \in Sourced(T),
           S \subseteq T, {"A", "B"} \subseteq S,
           \A s \in S : more[s] = srcs[s],
           NEW rule \in FailedRules(srcs), rule[1] \notin CuredByC
    PROVE  rule \in FailedRules(more)
<1>1. Pool(srcs) \subseteq Pool(more)
  BY PoolType DEF Pool
<1>2. Grouped(srcs) \subseteq Grouped(more)
  BY <1>1 DEF Grouped, Malformed
<1>3. \A i, f : Observed(srcs, i, f) \subseteq Observed(more, i, f)
  BY <1>1 DEF Observed
<1>4. CASE \E i \in Grouped(srcs) :
              rule = <<"identity_match", i>> /\ ~ {"A", "B"} \subseteq PresentIn(srcs, i)
  <2>1. PICK i \in Grouped(srcs) :
              rule = <<"identity_match", i>> /\ ~ {"A", "B"} \subseteq PresentIn(srcs, i)
    BY <1>4
  <2>2. ~ {"A", "B"} \subseteq PresentIn(more, i)
    BY <2>1, PoolType DEF PresentIn
  <2> QED BY <1>2, <2>1, <2>2 DEF FailedRules
<1>5. CASE \E c \in Conflicts(srcs) : rule = <<"field_value_consistency", c[1]>>
  <2>1. Conflicts(srcs) \subseteq Conflicts(more)
    BY <1>2, <1>3 DEF Conflicts
  <2> QED BY <1>5, <2>1 DEF FailedRules
<1>6. CASE \E i \in Grouped(srcs) : rule = <<"asset_status_valid", i>>
              /\ \E v \in Observed(srcs, i, "asset_status") : v # Eligible
  BY <1>2, <1>3, <1>6 DEF FailedRules
<1>7. CASE \E i \in Grouped(srcs) : rule = <<"no_duplicate_registration", i>>
              /\ Registered \in Observed(srcs, i, "target_registered")
  BY <1>2, <1>3, <1>7 DEF FailedRules
<1>8. CASE rule = <<"identity_present", NoId>> /\ Malformed(srcs) # {}
  <2>1. Malformed(srcs) \subseteq Malformed(more)
    BY <1>1 DEF Malformed
  <2> QED BY <1>8, <2>1 DEF FailedRules
<1>9. /\ \A i : rule # <<"period_valid", i>>
      /\ \A i : rule # <<"required_fields_present", i>>
  BY DEF CuredByC
<1>10. \/ \E i \in Grouped(srcs) : rule = <<"identity_match", i>>
              /\ ~ {"A", "B"} \subseteq PresentIn(srcs, i)
       \/ \E c \in Conflicts(srcs) : rule = <<"field_value_consistency", c[1]>>
       \/ \E i \in Grouped(srcs) : rule = <<"asset_status_valid", i>>
              /\ \E v \in Observed(srcs, i, "asset_status") : v # Eligible
       \/ \E i \in Grouped(srcs) : rule = <<"no_duplicate_registration", i>>
              /\ Registered \in Observed(srcs, i, "target_registered")
       \/ rule = <<"identity_present", NoId>> /\ Malformed(srcs) # {}
  BY <1>9 DEF FailedRules
<1> QED BY <1>4, <1>5, <1>6, <1>7, <1>8, <1>10

-----------------------------------------------------------------------------
(* CheckpointIffClean speaks of what was reconciled last: the run's state  *)
(* has to stay tied to that report from the gate to the end.               *)
GateHasReport == pc = "gate" => report # {}

OutcomeOfLastReport ==
    /\ pc # "done" => runState = "running"
    /\ runState \in {"paused", "closed", "checkpoint_required"} =>
          report # {} /\ runState = GateOutcome(Sources)

IInv == TypeOK /\ GateHasReport /\ OutcomeOfLastReport

LEMMA SourcesType ==
    ASSUME TypeOK, report # {}
    PROVE  Sources \in Sourced(report) /\ {"A", "B"} \subseteq report
BY DEF TypeOK, Sources, Sourced, Systems, Lookups

LEMMA InitIInv == Init => IInv
BY DEF Init, IInv, TypeOK, GateHasReport, OutcomeOfLastReport, Systems, Lookups, NoRecords

LEMMA StepType == TypeOK /\ [Next]_vars => TypeOK'
<1> SUFFICES ASSUME TypeOK, [Next]_vars PROVE TypeOK'
  OBVIOUS
<1>1. ASSUME NEW s \in Lookups, LookupReturns(s) PROVE TypeOK'
  BY <1>1, BatchesAssumption DEF TypeOK, LookupReturns, Systems, Lookups
<1>2. ASSUME NEW s \in Lookups, LookupRaises(s) PROVE TypeOK'
  BY <1>2 DEF TypeOK, LookupRaises
<1>3. CASE Enrich
  <2>1. PICK batch \in Batches :
          found' = [found EXCEPT !["C"] = EnrichC(batch, MissingRequired(Sources))]
    BY <1>3 DEF Enrich
  <2>2. EnrichC(batch, MissingRequired(Sources)) \subseteq Record
    BY BatchesAssumption DEF EnrichC
  <2> QED BY <1>3, <2>1, <2>2 DEF TypeOK, Enrich, Systems
<1>4. CASE JoinLookups \/ ReconcileAB \/ EnrichRaises \/ Fail
  BY <1>4 DEF TypeOK, JoinLookups, ReconcileAB, EnrichRaises, Fail
<1>5. CASE OpenGate
  <2>1. GateOutcome(Sources) \in {"paused", "closed", "checkpoint_required"}
    BY DEF GateOutcome
  <2> QED BY <1>5, <2>1 DEF TypeOK, OpenGate
<1>6. CASE Terminated \/ UNCHANGED vars
  BY <1>6 DEF TypeOK, Terminated, vars
<1> QED BY <1>1, <1>2, <1>3, <1>4, <1>5, <1>6 DEF Next

LEMMA StepKeeps == IInv /\ [Next]_vars => IInv'
<1> SUFFICES ASSUME IInv, [Next]_vars PROVE IInv'
  OBVIOUS
<1>1. TypeOK'
  BY StepType DEF IInv
<1>2. ASSUME \/ \E s \in Lookups : LookupReturns(s) \/ LookupRaises(s)
             \/ JoinLookups \/ ReconcileAB \/ Enrich \/ EnrichRaises
      PROVE  GateHasReport' /\ OutcomeOfLastReport'
  BY <1>2 DEF IInv, GateHasReport, OutcomeOfLastReport, LookupReturns, LookupRaises,
              JoinLookups, ReconcileAB, Enrich, EnrichRaises, Lookups, Systems
<1>3. ASSUME OpenGate PROVE GateHasReport' /\ OutcomeOfLastReport'
  <2>1. Sources' = Sources /\ report # {}
    BY <1>3 DEF OpenGate, Sources, IInv, GateHasReport
  <2>2. GateOutcome(Sources)' = GateOutcome(Sources)
    BY <2>1
  <2> QED BY <1>3, <2>1, <2>2 DEF OpenGate, GateHasReport, OutcomeOfLastReport
<1>4. ASSUME Fail PROVE GateHasReport' /\ OutcomeOfLastReport'
  BY <1>4 DEF Fail, GateHasReport, OutcomeOfLastReport
<1>5. ASSUME Terminated \/ UNCHANGED vars PROVE GateHasReport' /\ OutcomeOfLastReport'
  <2>1. UNCHANGED <<pc, thread, found, report, runState>>
    BY <1>5 DEF Terminated, vars
  <2>2. Sources' = Sources
    BY <2>1 DEF Sources
  <2> QED BY <2>1, <2>2 DEF IInv, GateHasReport, OutcomeOfLastReport
<1> QED BY <1>1, <1>2, <1>3, <1>4, <1>5 DEF Next, IInv

LEMMA Inductive == Spec => []IInv
BY InitIInv, StepKeeps, PTL DEF Spec

-----------------------------------------------------------------------------
(* Every variable of a run keeps its type.                                 *)
THEOREM TypeCorrect == Spec => []TypeOK
<1>1. IInv => TypeOK
  BY DEF IInv
<1> QED BY Inductive, <1>1, PTL

(* A run asks for approval, or closes, exactly when everything A, B and C  *)
(* returned is clean, whatever they returned.                              *)
THEOREM OnlyCleanIsOffered == Spec => []CheckpointIffClean
<1>1. IInv => CheckpointIffClean
  <2> SUFFICES ASSUME IInv, runState \in {"paused", "closed", "checkpoint_required"}
               PROVE  runState # "paused" <=> CleanPool(Sources)
    BY DEF CheckpointIffClean
  <2>1. report # {} /\ runState = GateOutcome(Sources)
    BY DEF IInv, OutcomeOfLastReport
  <2>2. Status(Sources) = "resolved" <=> CleanPool(Sources)
    BY <2>1, SourcesType, ResolvedIffClean DEF IInv
  <2>3. GateOutcome(Sources) # "paused" <=> Status(Sources) = "resolved"
    BY DEF GateOutcome
  <2> QED BY <2>1, <2>2, <2>3
<1> QED BY Inductive, <1>1, PTL

(* Asking C never cures a failure other than a gap: whatever C returns.    *)
THEOREM EnrichmentCuresNothingElse == Spec => []EnrichmentOnlyFillsGaps
<1>1. TypeOK => EnrichmentOnlyFillsGaps
  <2> SUFFICES ASSUME TypeOK, report = Systems, NEW rule \in FailedRules(SourcesAB),
                      rule[1] \notin CuredByC
               PROVE  rule \in FailedRules(Sources)
    BY DEF EnrichmentOnlyFillsGaps
  <2>1. SourcesAB \in Sourced(Lookups) /\ Sources \in Sourced(Systems)
    BY DEF TypeOK, SourcesAB, Sources, Sourced, Lookups, Systems
  <2>2. \A s \in Lookups : Sources[s] = SourcesAB[s]
    BY DEF Sources, SourcesAB, Lookups, Systems
  <2> QED BY <2>1, <2>2, MorePoolFailsMore DEF Lookups, Systems
<1>2. IInv => TypeOK
  BY DEF IInv
<1> QED BY Inductive, <1>1, <1>2, PTL

(* What the checkpoint would load is complete and contradicts neither A    *)
(* nor B.                                                                  *)
THEOREM LoadableIsFaithful == Spec => []LoadableRecordsAreFaithful
<1>1. IInv => LoadableRecordsAreFaithful
  <2> SUFFICES ASSUME IInv, runState = "checkpoint_required",
                      NEW i \in Grouped(Sources)
               PROVE  /\ \A f \in Required : Reconciled(Sources, i, f) # Empty
                      /\ \A f \in Fields : \A s \in Lookups : \A q \in found[s] :
                            q.id = i /\ q.val[f] # Empty =>
                                Reconciled(Sources, i, f) = q.val[f]
    BY FieldsAssumption DEF LoadableRecordsAreFaithful, ReconciledRecords
  <2>1. report # {} /\ GateOutcome(Sources) # "paused"
    BY DEF IInv, OutcomeOfLastReport
  <2>2. Status(Sources) = "resolved"
    BY <2>1 DEF GateOutcome
  <2>3. MissingRequired(Sources) = {} /\ Conflicts(Sources) = {}
    BY <2>2 DEF Status
  <2>4. \A f \in Required : Reconciled(Sources, i, f) # Empty
    BY <2>3 DEF MissingRequired
  <2>5. ASSUME NEW f \in Fields, NEW s \in Lookups, NEW q \in found[s],
               q.id = i, q.val[f] # Empty
        PROVE  Reconciled(Sources, i, f) = q.val[f]
    <3>1. q \in Pool(Sources)
      BY <2>1, <2>5 DEF IInv, TypeOK, Sources, Pool, Lookups, Systems
    <3>2. q.val[f] \in Observed(Sources, i, f)
      BY <2>5, <3>1, ObservedMember
    <3>3. <<i, f>> \notin Conflicts(Sources)
      BY <2>3
    <3>4. \A v \in Observed(Sources, i, f) : v = q.val[f]
      BY <3>2, <3>3 DEF Conflicts
    <3>5. Observed(Sources, i, f) = {q.val[f]}
      BY <3>2, <3>4
    <3> QED BY <2>1, <3>5, SourcesType, ReconciledIsObserved DEF IInv
  <2> QED BY <2>4, <2>5
<1> QED BY Inductive, <1>1, PTL

-----------------------------------------------------------------------------
(* No patent gets lost on the way to the approver, and none is made up:    *)
(* the checkpoint is about exactly the patents that A returned, which are  *)
(* those that B returned, and a run closes only if neither returned any    *)
(* record.                                                                 *)
Returned(s) == {r.id : r \in found[s]}

NoPatentIsLost ==
    /\ runState = "checkpoint_required" =>
          \A s \in Lookups : {q.id : q \in ReconciledRecords(Sources)} = Returned(s)
    /\ runState = "closed" => \A s \in Lookups : found[s] = {}

THEOREM PatentsArrive == Spec => []NoPatentIsLost
<1>1. ASSUME IInv, runState \in {"closed", "checkpoint_required"}
      PROVE  /\ Sources \in Sourced(report) /\ {"A", "B"} \subseteq report
             /\ CleanPool(Sources) /\ runState = GateOutcome(Sources)
  <2>1. report # {} /\ runState = GateOutcome(Sources)
    BY <1>1 DEF IInv, OutcomeOfLastReport
  <2>2. Sources \in Sourced(report) /\ {"A", "B"} \subseteq report
    BY <1>1, <2>1, SourcesType DEF IInv
  <2>3. Status(Sources) = "resolved"
    BY <1>1, <2>1 DEF GateOutcome
  <2> QED BY <2>1, <2>2, <2>3, ResolvedIffClean
<1>2. ASSUME IInv, runState \in {"closed", "checkpoint_required"}, NEW s \in Lookups
      PROVE  Grouped(Sources) = Returned(s)
  <2>1. s \in report /\ Sources[s] = found[s]
    BY <1>1, <1>2 DEF Sources, Lookups
  <2>2. ASSUME NEW r \in found[s] PROVE r.id \in Grouped(Sources)
    <3>1. r \in Pool(Sources)
      BY <2>1, <2>2 DEF Pool, Sources
    <3> QED BY <1>1, <1>2, <3>1, GroupedMember DEF CleanPool
  <2>3. ASSUME NEW i \in Grouped(Sources) PROVE \E r \in found[s] : r.id = i
    <3>1. PICK r \in Pool(Sources) : r.id = i
      BY <1>1, <1>2, GroupedMember
    <3>2. /\ \E a \in Sources["A"] : a.id = i
          /\ \E b \in Sources["B"] : b.id = i
      BY <1>1, <1>2, <3>1 DEF CleanPool
    <3> QED BY <2>1, <3>2 DEF Lookups
  <2> QED BY <2>2, <2>3 DEF Returned
<1>3. {q.id : q \in ReconciledRecords(Sources)} = Grouped(Sources)
  <2> DEFINE Row(i) == [id |-> i, val |-> [f \in Fields |-> Reconciled(Sources, i, f)]]
  <2>1. ReconciledRecords(Sources) = {Row(i) : i \in Grouped(Sources)}
    BY DEF ReconciledRecords
  <2>2. \A i : Row(i).id = i
    OBVIOUS
  <2> HIDE DEF Row
  <2> QED BY <2>1, <2>2
<1>4. ASSUME IInv, runState = "closed" PROVE Grouped(Sources) = {}
  <2>1. ReconciledRecords(Sources) = {}
    BY <1>1, <1>4 DEF GateOutcome
  <2> QED BY <2>1 DEF ReconciledRecords
<1>5. IInv => NoPatentIsLost
  BY <1>2, <1>3, <1>4 DEF NoPatentIsLost, Returned
<1> QED BY Inductive, <1>5, PTL
=============================================================================
