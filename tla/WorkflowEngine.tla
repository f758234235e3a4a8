--------------------------- MODULE WorkflowEngine ---------------------------
(***************************************************************************)
(* The life of one run's checkpoint in agent_runtime/workflow.py: the run  *)
(* that writes it, and every later call of resume_with_human_decision that *)
(* reads it, loads system D and deletes it.                                *)
(*                                                                         *)
(* There are two ways into a resume.  A library call uses the engine that  *)
(* made the run, with its in-memory checkpoint store.  A command-line call *)
(* (`workflow-resume`, which the web front end spawns too) is a process of *)
(* its own with a fresh engine.  All of them share the run's files.  An    *)
(* action is the code between two accesses to shared state: a file, the    *)
(* store, system D.  Consecutive writes of one call that leave the same    *)
(* value in status.json are one action.                                    *)
(*                                                                         *)
(* A checkpoint's identity is computed from its hash, so the two are one   *)
(* value here.  The hash is injective on the hashed content.               *)
(***************************************************************************)
EXTENDS Naturals, FiniteSets

CONSTANTS
    Calls,         \* calls of resume_with_human_decision, each made at most once
    CliCalls,      \* those made by a workflow-resume process of their own
    Run,           \* the call of run_patent_asset_replacement
    Ids,           \* patent ids
    MaxVersion,    \* bound: highest template version deployed
    Overlap,       \* whether calls of different processes overlap in time
    Mixed,         \* whether one run is resumed both ways
    MayCrash,      \* whether processes die (or are killed) mid-way
    MayEdit,       \* whether a stored checkpoint is edited outside the engine
    NoCheckpoint,  \* no file, no entry in the store
    Torn,          \* a checkpoint file truncated and not yet written
    NoHash,        \* an approval without checkpoint hash
    OtherHash,     \* a hash no checkpoint of this run has
    NoDecision     \* a call that was not made yet

ASSUME CallsAssumption == CliCalls \subseteq Calls /\ Run \notin Calls
ASSUME VersionAssumption == MaxVersion \in Nat \ {0}
ASSUME FlagsAssumption == {Overlap, Mixed, MayCrash, MayEdit} \subseteq BOOLEAN

Versions == 1..MaxVersion

(* "edited" is any content other than what the run reconciled.             *)
Bodies == {"reconciled", "edited"}

Hash == [ids : SUBSET Ids, body : Bodies, version : Versions]

Checkpoint == [ids : SUBSET Ids, body : Bodies, hash : Hash]

ASSUME NullsAssumption ==
    /\ {NoCheckpoint, Torn} \cap Checkpoint = {} /\ NoCheckpoint # Torn
    /\ {NoHash, OtherHash} \cap Hash = {} /\ NoHash # OtherHash

Decision == [action : {"approve_load", "reject_workflow"},
             ids : SUBSET Ids, hash : Hash \cup {NoHash, OtherHash}]

ASSUME NoDecisionAssumption == NoDecision \notin Decision

(* _stable_hash of the checkpoint payload: run, records, template.         *)
StableHash(ids, body, version) == [ids |-> ids, body |-> body, version |-> version]

VARIABLES
    runPc,     \* the step run_patent_asset_replacement is at
    runState,  \* the state it is going to report
    pc,        \* pc[c]: the step resume call c is at
    held,      \* held[c]: its local `checkpoint`
    decision,  \* decision[c]: its argument
    version,   \* version[c]: the template version of its engine
    verdict,   \* verdict[c]: the state of its result
    store,     \* the library engine's _checkpoint_store entry of the run
    loaded,    \* the template version that engine was constructed with
    template,  \* the template version deployed
    disk,      \* checkpoint.json
    status,    \* the state in status.json
    audit,     \* <<who, event>> recorded in the audit file
    targetD,   \* batches system D received: [call, ids, body]
    issued     \* history: the checkpoint the run created

runVars == <<runPc, runState, issued>>
callVars == <<pc, held, decision, version, verdict>>
engineVars == <<store, loaded, template>>
vars == <<runVars, callVars, engineVars, disk, status, audit, targetD>>

LibCalls == Calls \ CliCalls

Idle == {"idle", "done", "dead"}
CallActive(c) == pc[c] \notin Idle
RunActive == runPc \notin {"start", "done", "dead"}

(* The library engine is one thread: the run or one resume at a time.      *)
LibraryBusy == RunActive \/ \E c \in LibCalls : CallActive(c)
NobodyActive == ~ RunActive /\ \A c \in Calls : ~ CallActive(c)

(* The audit events the properties are about.                              *)
Events == {"human_gate_opened", "target_load_checkpoint_requested",
           "workflow_resume_requested", "resume_validation_failed",
           "human_decision_refused", "human_decision_accepted",
           "target_load_attempted", "workflow_completed"}

Recorded(who, event) == <<who, event>> \in audit

Init ==
    /\ runPc = "start" /\ runState = "running"
    /\ pc = [c \in Calls |-> "idle"]
    /\ held = [c \in Calls |-> NoCheckpoint]
    /\ decision = [c \in Calls |-> NoDecision]
    /\ version = [c \in Calls |-> 1]
    /\ verdict = [c \in Calls |-> "none"]
    /\ store = NoCheckpoint /\ loaded = 1 /\ template = 1
    /\ disk = NoCheckpoint /\ status = "absent"
    /\ audit = {} /\ targetD = {}
    /\ issued = NoCheckpoint

-----------------------------------------------------------------------------
(* run_patent_asset_replacement.  PatentRun.tla details the reconciliation *)
(* that ends in one of three outcomes here.                                *)
StartRun ==
    /\ runPc = "start"
    /\ runPc' = "reconcile"
    /\ status' = "running"
    /\ UNCHANGED <<runState, issued, callVars, engineVars, disk, audit, targetD>>

WithoutCheckpoint ==
    /\ runPc = "reconcile"
    /\ \/ runState' = "paused" /\ audit' = audit \cup {<<Run, "human_gate_opened">>}
       \/ runState' = "closed" /\ UNCHANGED audit
    /\ runPc' = "conclude"
    /\ status' = "running"
    /\ UNCHANGED <<issued, callVars, engineVars, disk, targetD>>

CreateCheckpoint ==
    /\ runPc = "reconcile"
    /\ \E ids \in (SUBSET Ids) \ {{}} :
          LET checkpoint == [ids |-> ids, body |-> "reconciled",
                             hash |-> StableHash(ids, "reconciled", loaded)]
          IN  store' = checkpoint /\ issued' = checkpoint
    /\ runState' = "checkpoint_required"
    /\ audit' = audit \cup {<<Run, "target_load_checkpoint_requested">>}
    /\ runPc' = "persist"
    /\ status' = "running"
    /\ UNCHANGED <<callVars, loaded, template, disk, targetD>>

(* Path.write_text truncates the file, then fills it.                      *)
TruncateFile ==
    /\ runPc = "persist"
    /\ disk' = Torn
    /\ runPc' = "fill"
    /\ UNCHANGED <<runState, issued, callVars, engineVars, status, audit, targetD>>

FillFile ==
    /\ runPc = "fill"
    /\ disk' = store
    /\ runPc' = "conclude"
    /\ UNCHANGED <<runState, issued, callVars, engineVars, status, audit, targetD>>

(* monitor.pause or monitor.finish.                                        *)
ConcludeRun ==
    /\ runPc = "conclude"
    /\ status' = runState
    /\ runPc' = "report"
    /\ UNCHANGED <<runState, issued, callVars, engineVars, disk, audit, targetD>>

ReportRun ==
    /\ runPc = "report"
    /\ audit' = audit \cup {<<Run, "workflow_completed">>}
    /\ runPc' = "done"
    /\ UNCHANGED <<runState, issued, callVars, engineVars, disk, status, targetD>>

(* Anything inside the try may raise: a connector, or writing a file.  The *)
(* except clause reports a failed run; a checkpoint it had already stored  *)
(* stays where it is.                                                      *)
RunRaises ==
    /\ runPc \in {"reconcile", "persist", "fill", "conclude", "report"}
    /\ runState # "failed"
    /\ runState' = "failed"
    /\ runPc' = "conclude"
    /\ UNCHANGED <<issued, callVars, engineVars, disk, status, audit, targetD>>

-----------------------------------------------------------------------------
(* The two entries of resume.                                              *)
MayBegin(c) ==
    /\ pc[c] = "idle"
    /\ Overlap \/ NobodyActive
    /\ Mixed \/ \A k \in Calls : pc[k] # "idle" => (k \in CliCalls <=> c \in CliCalls)
    /\ runPc # "start"

(* The command line reads checkpoint.json first.  Without one it prints    *)
(* "blocked" and writes nothing; otherwise an approval echoes the hash and *)
(* the record ids of the file it read.                                     *)
CliBegin(c) ==
    /\ c \in CliCalls /\ MayBegin(c)
    /\ \/ /\ disk \notin Checkpoint
          /\ pc' = [pc EXCEPT ![c] = "done"]
          /\ UNCHANGED <<held, decision, version, verdict>>
       \/ /\ disk \in Checkpoint
          /\ pc' = [pc EXCEPT ![c] = "open"]
          /\ held' = [held EXCEPT ![c] = disk]
          /\ decision' \in {
                [decision EXCEPT ![c] =
                    [action |-> "approve_load", ids |-> disk.hash.ids, hash |-> disk.hash]],
                [decision EXCEPT ![c] =
                    [action |-> "reject_workflow", ids |-> {}, hash |-> NoHash]]}
          /\ version' = [version EXCEPT ![c] = template]
          /\ UNCHANGED verdict
    /\ UNCHANGED <<runVars, engineVars, disk, status, audit, targetD>>

(* A library caller may pass any decision; hashes are the ones it can have *)
(* seen, none, or a wrong one.                                             *)
KnownHashes == {cp.hash : cp \in {store, disk, issued} \cap Checkpoint}
                  \cup {NoHash, OtherHash}

LibBegin(c) ==
    /\ c \in LibCalls /\ MayBegin(c) /\ ~ LibraryBusy
    /\ pc' = [pc EXCEPT ![c] = "open"]
    /\ version' = [version EXCEPT ![c] = loaded]
    /\ \E ids \in SUBSET Ids, hash \in KnownHashes :
          decision' \in {
             [decision EXCEPT ![c] =
                 [action |-> "approve_load", ids |-> ids, hash |-> hash]],
             [decision EXCEPT ![c] =
                 [action |-> "reject_workflow", ids |-> {}, hash |-> NoHash]]}
    /\ UNCHANGED <<runVars, held, verdict, engineVars, disk, status, audit, targetD>>

-----------------------------------------------------------------------------
(* resume_with_human_decision.                                             *)
At(c, here, next) == pc[c] = here /\ pc' = [pc EXCEPT ![c] = next]

(* _resume_monitor reopens the run's monitor, whatever state it was in.    *)
OpenMonitor(c) ==
    /\ At(c, "open", "fetch")
    /\ status' = "running"
    /\ audit' = audit \cup {<<c, "workflow_resume_requested">>}
    /\ UNCHANGED <<runVars, held, decision, version, verdict, engineVars, disk, targetD>>

(* Mutation: a fetch that also restores the checkpoint file.               *)
FetchRestoringFile(c) ==
    LET found == IF c \in CliCalls \/ store = NoCheckpoint THEN held[c] ELSE store IN
    /\ At(c, "fetch", "decide")
    /\ held' = [held EXCEPT ![c] = found]
    /\ disk' = found
    /\ UNCHANGED <<runVars, decision, version, verdict, engineVars, status, audit, targetD>>

(* The library engine prefers its store; a command-line engine has already *)
(* put what it read from disk into its own store.                          *)
Found(c) ==
    IF c \in CliCalls THEN held[c]
    ELSE IF store # NoCheckpoint THEN store
    ELSE IF disk \in Checkpoint THEN disk
    ELSE NoCheckpoint

Fetch(c) ==
    /\ At(c, "fetch", "decide")
    /\ held' = [held EXCEPT ![c] = Found(c)]
    /\ store' = IF c \in LibCalls THEN Found(c) ELSE store
    /\ UNCHANGED <<runVars, decision, version, verdict, loaded, template, disk, status,
                   audit, targetD>>

(* Mutation: validation without recomputing the hash.                      *)
TrustedByEchoOnly(c) ==
    decision[c].hash # NoHash /\ decision[c].hash = held[c].hash

(* _validate_trusted_checkpoint, plus the check that every approved record *)
(* is in the checkpoint.                                                   *)
TrustedBy(c) ==
    LET cp == held[c] IN
    /\ decision[c].hash # NoHash
    /\ decision[c].hash = cp.hash
    /\ cp.hash = StableHash(cp.ids, cp.body, version[c])

(* Mutation: the missing checkpoint is not handled.                        *)
RefuseInvalidOnly(c) ==
    /\ At(c, "decide", "finish")
    /\ held[c] # NoCheckpoint /\ decision[c].action = "approve_load"
    /\ ~ (TrustedBy(c) /\ decision[c].ids \subseteq held[c].ids)
    /\ verdict' = [verdict EXCEPT ![c] = "blocked"]
    /\ audit' = audit \cup {<<c, "resume_validation_failed">>}
    /\ status' = "running"
    /\ UNCHANGED <<runVars, held, decision, version, engineVars, disk, targetD>>

Refuse(c) ==
    /\ At(c, "decide", "finish")
    /\ \/ held[c] = NoCheckpoint
       \/ /\ held[c] # NoCheckpoint /\ decision[c].action = "approve_load"
          /\ ~ (TrustedBy(c) /\ decision[c].ids \subseteq held[c].ids)
    /\ verdict' = [verdict EXCEPT ![c] = "blocked"]
    /\ audit' = audit \cup {<<c, "resume_validation_failed">>}
    /\ status' = "running"
    /\ UNCHANGED <<runVars, held, decision, version, engineVars, disk, targetD>>

(* Mutations: a rejection that leaves the checkpoint behind, and one that  *)
(* forgets its result state.                                               *)
DeclineKeepingFile(c) ==
    /\ At(c, "decide", "finish")
    /\ held[c] # NoCheckpoint /\ decision[c].action # "approve_load"
    /\ verdict' = [verdict EXCEPT ![c] = "closed"]
    /\ audit' = audit \cup {<<c, "human_decision_refused">>}
    /\ status' = "running"
    /\ UNCHANGED <<runVars, held, decision, version, engineVars, disk, targetD>>

DeclineWithoutVerdict(c) ==
    /\ At(c, "decide", "unlink")
    /\ held[c] # NoCheckpoint /\ decision[c].action # "approve_load"
    /\ audit' = audit \cup {<<c, "human_decision_refused">>}
    /\ status' = "running"
    /\ UNCHANGED <<runVars, held, decision, version, verdict, engineVars, disk, targetD>>

Decline(c) ==
    /\ At(c, "decide", "unlink")
    /\ held[c] # NoCheckpoint /\ decision[c].action # "approve_load"
    /\ verdict' = [verdict EXCEPT ![c] = "closed"]
    /\ audit' = audit \cup {<<c, "human_decision_refused">>}
    /\ status' = "running"
    /\ UNCHANGED <<runVars, held, decision, version, engineVars, disk, targetD>>

Accept(c) ==
    /\ At(c, "decide", "attempt")
    /\ held[c] # NoCheckpoint /\ decision[c].action = "approve_load"
    /\ TrustedBy(c) /\ decision[c].ids \subseteq held[c].ids
    /\ audit' = audit \cup {<<c, "human_decision_accepted">>}
    /\ status' = "running"
    /\ UNCHANGED <<runVars, held, decision, version, verdict, engineVars, disk, targetD>>

(* Writing target_load_attempted is inside the try around the load.        *)
Attempt(c) ==
    /\ \/ /\ At(c, "attempt", "load")
          /\ audit' = audit \cup {<<c, "target_load_attempted">>}
          /\ UNCHANGED verdict
       \/ /\ At(c, "attempt", "finish")
          /\ verdict' = [verdict EXCEPT ![c] = "failed"]
          /\ UNCHANGED audit
    /\ status' = "running"
    /\ UNCHANGED <<runVars, held, decision, version, engineVars, disk, targetD>>

Batch(c) == [call |-> c, ids |-> decision[c].ids, body |-> held[c].body]

(* System D answers; or raises having taken the batch, or not.             *)
LoadAnswers(c) ==
    /\ At(c, "load", "finish")
    /\ targetD' = targetD \cup {Batch(c)}
    /\ verdict' = [verdict EXCEPT ![c] = "completed"]
    /\ UNCHANGED <<runVars, held, decision, version, engineVars, disk, status, audit>>

(* Mutation: an exception of D taken for an answer.                        *)
LoadRaisesUnnoticed(c) ==
    /\ At(c, "load", "finish")
    /\ targetD' \in {targetD, targetD \cup {Batch(c)}}
    /\ verdict' = [verdict EXCEPT ![c] = "completed"]
    /\ UNCHANGED <<runVars, held, decision, version, engineVars, disk, status, audit>>

LoadRaises(c) ==
    /\ At(c, "load", "finish")
    /\ targetD' \in {targetD, targetD \cup {Batch(c)}}
    /\ verdict' = [verdict EXCEPT ![c] = "failed"]
    /\ UNCHANGED <<runVars, held, decision, version, engineVars, disk, status, audit>>

Finish(c) ==
    /\ At(c, "finish", "report")
    /\ status' = verdict[c]
    /\ UNCHANGED <<runVars, held, decision, version, verdict, engineVars, disk, audit,
                   targetD>>

(* Mutation: the checkpoint of a completed load is left behind.            *)
ReportOnly(c) ==
    /\ At(c, "report", "done")
    /\ audit' = audit \cup {<<c, "workflow_completed">>}
    /\ UNCHANGED <<runVars, held, decision, version, verdict, engineVars, disk, status,
                   targetD>>

(* Only a completed load still has the checkpoint to delete by then.       *)
Report(c) ==
    /\ At(c, "report", IF verdict[c] = "completed" THEN "unlink" ELSE "done")
    /\ audit' = audit \cup {<<c, "workflow_completed">>}
    /\ UNCHANGED <<runVars, held, decision, version, verdict, engineVars, disk, status,
                   targetD>>

(* Mutation: the file goes and the store entry stays.                      *)
DeleteFileOnly(c) ==
    /\ At(c, "unlink", IF verdict[c] = "completed" THEN "done" ELSE "finish")
    /\ disk' = NoCheckpoint
    /\ UNCHANGED <<runVars, held, decision, version, verdict, engineVars, status, audit,
                   targetD>>

(* pop the store entry, then unlink the file.                              *)
DeleteCheckpoint(c) ==
    /\ At(c, "unlink", IF verdict[c] = "completed" THEN "done" ELSE "finish")
    /\ store' = IF c \in LibCalls THEN NoCheckpoint ELSE store
    /\ disk' = NoCheckpoint
    /\ UNCHANGED <<runVars, held, decision, version, verdict, loaded, template, status,
                   audit, targetD>>

-----------------------------------------------------------------------------
(* The environment.                                                        *)

(* A call ends without a result: its process is killed (the front end does *)
(* so after 120 s), or a write to the monitor or audit file raises.        *)
CallDies(c) ==
    /\ MayCrash /\ CallActive(c)
    /\ pc' = [pc EXCEPT ![c] = "dead"]
    /\ UNCHANGED <<runVars, held, decision, version, verdict, engineVars, disk, status,
                   audit, targetD>>

(* The process of the library engine dies and a new one takes its place.   *)
LibraryRestarts ==
    /\ MayCrash
    /\ runPc' = IF RunActive THEN "dead" ELSE runPc
    /\ pc' = [c \in Calls |-> IF c \in LibCalls /\ CallActive(c) THEN "dead" ELSE pc[c]]
    /\ store' = NoCheckpoint
    /\ loaded' = template
    /\ UNCHANGED <<runState, issued, held, decision, version, verdict, template, disk,
                   status, audit, targetD>>

DeployTemplate ==
    /\ template < MaxVersion
    /\ template' = template + 1
    /\ UNCHANGED <<runVars, callVars, store, loaded, disk, status, audit, targetD>>

(* Someone edits the records of the stored checkpoint and not its hash,    *)
(* which is unkeyed: who computes it anew is believed and is left out.     *)
EditCheckpoint ==
    /\ MayEdit
    /\ \/ /\ store \in Checkpoint /\ ~ LibraryBusy
          /\ store' = [store EXCEPT !.body = "edited"]
          /\ UNCHANGED disk
       \/ /\ disk \in Checkpoint
          /\ disk' = [disk EXCEPT !.body = "edited"]
          /\ UNCHANGED store
    /\ UNCHANGED <<runVars, callVars, loaded, template, status, audit, targetD>>

(* With nobody active the system may rest: no further call has to come.    *)
Terminated ==
    /\ runPc # "start" /\ NobodyActive
    /\ UNCHANGED vars

RunStep ==
    \/ StartRun \/ WithoutCheckpoint \/ CreateCheckpoint \/ TruncateFile \/ FillFile
    \/ ConcludeRun \/ ReportRun \/ RunRaises

CallStep(c) ==
    \/ OpenMonitor(c) \/ Fetch(c) \/ Refuse(c) \/ Decline(c) \/ Accept(c) \/ Attempt(c)
    \/ LoadAnswers(c) \/ LoadRaises(c) \/ Finish(c) \/ Report(c) \/ DeleteCheckpoint(c)

Next ==
    \/ RunStep
    \/ \E c \in Calls : CliBegin(c) \/ LibBegin(c) \/ CallStep(c) \/ CallDies(c)
    \/ LibraryRestarts \/ DeployTemplate \/ EditCheckpoint
    \/ Terminated

(* A process that is alive keeps being scheduled and system D answers or   *)
(* raises.  Nobody has to start a call, deploy, edit or crash.             *)
Fairness ==
    /\ WF_vars(RunStep)
    /\ \A c \in Calls : WF_vars(CallStep(c))

Spec == Init /\ [][Next]_vars /\ Fairness

-----------------------------------------------------------------------------
TypeOK ==
    /\ runPc \in {"start", "reconcile", "persist", "fill", "conclude", "report",
                  "done", "dead"}
    /\ runState \in {"running", "paused", "closed", "checkpoint_required", "failed"}
    /\ pc \in [Calls -> Idle \cup {"open", "fetch", "decide", "attempt", "load",
                                   "finish", "report", "unlink"}]
    /\ held \in [Calls -> Checkpoint \cup {NoCheckpoint}]
    /\ decision \in [Calls -> Decision \cup {NoDecision}]
    /\ version \in [Calls -> Versions]
    /\ verdict \in [Calls -> {"none", "blocked", "closed", "failed", "completed"}]
    /\ \A c \in Calls : pc[c] \in {"finish", "unlink"} => verdict[c] # "none"
    /\ store \in Checkpoint \cup {NoCheckpoint}
    /\ loaded \in Versions /\ template \in Versions
    /\ disk \in Checkpoint \cup {NoCheckpoint, Torn}
    /\ status \in {"absent", "running", "paused", "closed", "checkpoint_required",
                   "failed", "blocked", "completed"}
    /\ audit \subseteq (Calls \cup {Run}) \X Events
    /\ targetD \subseteq [call : Calls, ids : SUBSET Ids, body : Bodies]
    /\ issued \in Checkpoint \cup {NoCheckpoint}

(* Whatever calls overlap, die, find an edited checkpoint or a newer       *)
(* template: system D only ever receives records the run itself reconciled *)
(* and put behind the checkpoint, on an approval that echoed the hash of   *)
(* that checkpoint and was recorded as accepted, with the attempt in the   *)
(* audit trail before the call to D.                                       *)
LoadOnlyTrusted ==
    \A b \in targetD :
        /\ issued \in Checkpoint /\ Recorded(Run, "target_load_checkpoint_requested")
        /\ b.ids \subseteq issued.ids /\ b.body = "reconciled"
        /\ decision[b.call].action = "approve_load"
        /\ decision[b.call].hash = issued.hash
        /\ Recorded(b.call, "human_decision_accepted")
        /\ Recorded(b.call, "target_load_attempted")

(* Once the run has written checkpoint.json and somebody has deleted it,   *)
(* nothing brings it back: no crash, restart, late call or stale engine    *)
(* recreates the file an approval could start from.                        *)
DeletedForGood ==
    [][runPc \notin {"start", "reconcile", "persist", "fill"} /\ disk = NoCheckpoint
        => disk' = NoCheckpoint]_vars

(* With calls made one after the other, all through the same entry, and    *)
(* none of them dying, the file is there exactly as long as nobody has     *)
(* decided: it survives every refused call and every load D failed, so the *)
(* approval can be retried, and is gone after a rejection or an answered   *)
(* load.                                                                   *)
Decided == {c \in Calls : verdict[c] \in {"closed", "completed"}}

PendingUntilDecided ==
    NobodyActive /\ runState = "checkpoint_required" =>
        (disk \in Checkpoint <=> Decided = {})

(* What status.json says when calls do not overlap: "completed" only if D  *)
(* answered a load, "closed" only if no load was ever answered, and        *)
(* "checkpoint_required" only while there is a checkpoint to approve.      *)
Answered == {c \in Calls : verdict[c] = "completed"}

StatusIsTruthful ==
    /\ status = "completed" => \E b \in targetD : b.call \in Answered
    /\ status = "closed" => Answered = {}
    /\ status = "checkpoint_required" /\ NobodyActive => disk \in Checkpoint

(* No call is left hanging: it ends with a result or with its process.     *)
CallsEnd == \A c \in Calls : pc[c] = "open" ~> pc[c] \in {"done", "dead"}

(* A decision that took effect is followed by the deletion of the          *)
(* checkpoint file, unless the process that took it dies first.            *)
DecisionConsumesCheckpoint ==
    \A c \in Calls : c \in Decided ~> (disk = NoCheckpoint \/ pc[c] = "dead")

(* The gate of WorkflowGate.tla: open from the checkpoint's creation to    *)
(* the first rejection or answered load.                                   *)
Gate == INSTANCE WorkflowGate WITH
    gate <- IF issued = NoCheckpoint THEN "shut"
            ELSE IF Decided = {} THEN "open" ELSE "closed",
    offered <- IF issued = NoCheckpoint THEN {} ELSE issued.ids,
    granted <- {<<c, decision[c].ids>> : c \in
                    {k \in Calls : Recorded(k, "human_decision_accepted")}},
    batches <- {<<b.call, b.ids>> : b \in targetD}

(* Calls made one after the other through one entry implement that gate.   *)
ImplementsGate == Gate!Spec

-----------------------------------------------------------------------------
(* Statements of the repository's documents and tests.                     *)

(* tests/test_workflow_engine.py: rejecting "prevents later approval".     *)
RejectionPreventsLaterApproval ==
    [][\A c \in Calls : (\E k \in Calls : verdict[k] = "closed" /\ pc[k] = "done")
        /\ ~ Recorded(c, "human_decision_accepted")
        => ~ Recorded(c, "human_decision_accepted")']_vars

(* docs/design-docs/workflow-orchestration.md: an approval that persists   *)
(* to another process is offered only with replay protection, so one       *)
(* checkpoint is loaded once.                                              *)
LoadedOnce == Cardinality(Answered) <= 1
=============================================================================
