----------------------------- MODULE PatentRun -----------------------------
(***************************************************************************)
(* One call of WorkflowEngine.run_patent_asset_replacement, from the two   *)
(* concurrent source lookups to the state the run is left in, with the     *)
(* records it reconciles.  What happens to the checkpoint afterwards is    *)
(* WorkflowEngine.tla.                                                     *)
(*                                                                         *)
(* The connector is outside the run: what system A, B or C returns is a    *)
(* choice among Batches, and any connector call may raise.                 *)
(***************************************************************************)
EXTENDS Reconcile

CONSTANT Batches   \* the record sets a source system may return

ASSUME BatchesAssumption == Batches \subseteq SUBSET Record

NoRecords == {}    \* the value of a record list that was not obtained

VARIABLES
    pc,        \* the step run_patent_asset_replacement is at
    thread,    \* state of the lookup thread of A and of B
    found,     \* records returned by each of A, B, C
    report,    \* the systems the last reconciliation was given, {} before one
    runState   \* the "state" of the run's result

vars == <<pc, thread, found, report, runState>>

Systems == {"A", "B", "C"}
Lookups == {"A", "B"}

(* Mutation: after enrichment C's records stand in for A's.                *)
SourcesWithoutA == [s \in report |-> found[IF s = "A" /\ report = Systems THEN "C" ELSE s]]

(* The `sources` dictionary of the first and of the last reconciliation.   *)
SourcesAB == [s \in Lookups |-> found[s]]
Sources == [s \in report |-> found[s]]

Init ==
    /\ pc = "lookup"
    /\ thread = [s \in Lookups |-> "running"]
    /\ found = [s \in Systems |-> NoRecords]
    /\ report = {}
    /\ runState = "running"

-----------------------------------------------------------------------------
(* A lookup thread returns its records or raises.                          *)
LookupReturns(s) ==
    /\ pc = "lookup" /\ thread[s] = "running"
    /\ thread' = [thread EXCEPT ![s] = "done"]
    /\ \E batch \in Batches : found' = [found EXCEPT ![s] = batch]
    /\ UNCHANGED <<pc, report, runState>>

LookupRaises(s) ==
    /\ pc = "lookup" /\ thread[s] = "running"
    /\ thread' = [thread EXCEPT ![s] = "raised"]
    /\ UNCHANGED <<pc, found, report, runState>>

(* Leaving the executor waits for both threads, also when A's result was   *)
(* an exception; only then is the lookup over.                             *)
(* Mutation: the join waits for two results and never sees an exception.   *)
JoinResults ==
    /\ pc = "lookup" /\ \A s \in Lookups : thread[s] = "done"
    /\ pc' = "reconcile"
    /\ UNCHANGED <<thread, found, report, runState>>

JoinLookups ==
    /\ pc = "lookup" /\ \A s \in Lookups : thread[s] # "running"
    /\ pc' = IF \E s \in Lookups : thread[s] = "raised" THEN "fail" ELSE "reconcile"
    /\ UNCHANGED <<thread, found, report, runState>>

ReconcileAB ==
    /\ pc = "reconcile"
    /\ report' = Lookups
    /\ pc' = IF MissingRequired(SourcesAB) # {} THEN "enrich" ELSE "gate"
    /\ UNCHANGED <<thread, found, runState>>

(* System C is asked about the patents with missing fields only, and       *)
(* answers with records of those patents.                                  *)
EnrichC(batch, requested) == {r \in batch : r.id \in requested}

Enrich ==
    /\ pc = "enrich"
    /\ \E batch \in Batches :
          found' = [found EXCEPT !["C"] = EnrichC(batch, MissingRequired(Sources))]
    /\ report' = Systems
    /\ pc' = "gate"
    /\ UNCHANGED <<thread, runState>>

EnrichRaises ==
    /\ pc = "enrich"
    /\ pc' = "fail"
    /\ UNCHANGED <<thread, found, report, runState>>

(* Mutation: the reconciliation's status is taken for the run's state.     *)
GateIsStatus(srcs) == Status(srcs)

(* The last reconciliation decides what the run offers.                    *)
GateOutcome(srcs) ==
    IF Status(srcs) # "resolved" THEN "paused"
    ELSE IF ReconciledRecords(srcs) = {} THEN "closed" ELSE "checkpoint_required"

OpenGate ==
    /\ pc = "gate"
    /\ runState' = GateOutcome(Sources)
    /\ pc' = "done"
    /\ UNCHANGED <<thread, found, report>>

Fail ==
    /\ pc = "fail"
    /\ runState' = "failed"
    /\ pc' = "done"
    /\ UNCHANGED <<thread, found, report>>

Terminated == pc = "done" /\ UNCHANGED vars

Next ==
    \/ \E s \in Lookups : LookupReturns(s) \/ LookupRaises(s)
    \/ JoinLookups \/ ReconcileAB \/ Enrich \/ EnrichRaises \/ OpenGate \/ Fail
    \/ Terminated

(* The connector calls return or raise (they have no timeout in the code), *)
(* and the run's own thread keeps being scheduled.                         *)
Fairness ==
    /\ \A s \in Lookups : WF_vars(LookupReturns(s) \/ LookupRaises(s))
    /\ WF_vars(JoinLookups \/ ReconcileAB \/ Enrich \/ EnrichRaises \/ OpenGate \/ Fail)

Spec == Init /\ [][Next]_vars /\ Fairness

-----------------------------------------------------------------------------
TypeOK ==
    /\ pc \in {"lookup", "reconcile", "enrich", "gate", "fail", "done"}
    /\ thread \in [Lookups -> {"running", "done", "raised"}]
    /\ found \in [Systems -> SUBSET Record]
    /\ report \in {{}, Lookups, Systems}
    /\ runState \in {"running", "paused", "closed", "checkpoint_required", "failed"}

(* A run asks for the load approval exactly when, over everything A, B and *)
(* C said, the records are clean in the record-by-record sense: the rules  *)
(* of _reconcile neither let a contradicted, foreign-period, ineligible or *)
(* registered patent through nor stop a clean one.                         *)
CheckpointIffClean ==
    runState \in {"paused", "closed", "checkpoint_required"} =>
        (runState # "paused" <=> CleanPool(Sources))

(* Enrichment supplies values that were missing.  It never cures a patent  *)
(* that A and B disagree about, that only one of them knows, that is       *)
(* ineligible or already registered: such a patent is still reported after *)
(* the second reconciliation, so the run stays paused.                     *)
CuredByC == {"required_fields_present", "period_valid"}

EnrichmentOnlyFillsGaps ==
    (report = Systems) =>
        \A rule \in FailedRules(SourcesAB) :
            rule[1] \notin CuredByC => rule \in FailedRules(Sources)

(* A field C completed takes a value only if neither A nor B had another   *)
(* one: what the checkpoint would load never contradicts the source of     *)
(* record, and every required field of it is filled in.                    *)
LoadableRecordsAreFaithful ==
    runState = "checkpoint_required" =>
        \A r \in ReconciledRecords(Sources) :
            /\ \A f \in Required : r.val[f] # Empty
            /\ \A f \in Fields : \A s \in Lookups : \A q \in found[s] :
                  q.id = r.id /\ q.val[f] # Empty => r.val[f] = q.val[f]

(* Every run ends in a state the caller can act on, whichever lookups or    *)
(* enrichment raise: the executor's exit and the except clause never leave *)
(* the run waiting for a thread that is gone.                              *)
RunEnds == <>(pc = "done" /\ runState # "running")
=============================================================================
