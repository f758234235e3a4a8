--------------------------- MODULE SelfEvolution ---------------------------
(***************************************************************************)
(* The life of an improvement candidate: one JSON file that                *)
(* "operator propose-improvement" writes, "operator review-candidate"      *)
(* approves or rejects and the acceptance gate judges                      *)
(* (agent_runtime/self_evolution.py, cli.py, eval_runner.py).              *)
(*                                                                         *)
(* Every command is a process of its own.  None locks the file: a review   *)
(* reads it, decides, truncates it and writes it anew, and so does a       *)
(* proposal that may overwrite.  People edit the file by hand, too: no     *)
(* command sets the provenance status that the gate asks for.              *)
(***************************************************************************)
EXTENDS Naturals, Sequences, FiniteSets

CONSTANTS
    Workers,      \* people and their processes
    Contents,     \* what a candidate proposes
    Sensitive,    \* contents that redaction rewrites when the file is written
    MaxVersion,   \* bound: versions of the artifact the candidates change
    MaxCommands,  \* bound: commands begun
    MaxTroubles   \* bound: edits by hand, crashes and changes of the manifest

ASSUME SensitiveAssumption == Sensitive \subseteq Contents
ASSUME BoundAssumption ==
    MaxVersion \in Nat /\ MaxCommands \in Nat /\ MaxTroubles \in Nat

VARIABLES
    file,       \* the candidate's file
    pc,         \* pc[w]: the step w's command is at
    job,        \* job[w]: what it will write, and whether it reviews or proposes
    manifest,   \* artifact manifest: version of the artifact and of the golden fixtures
    accepted,   \* what the gate has last passed
    commands,   \* how many commands have begun
    troubles,   \* how many edits, crashes and changes
    approvals,  \* history: hashes of the candidates reviewers have approved
    settled,    \* history: the last decision that no other command ran into
    alone       \* history: no other command has run since w's began

world == <<manifest, accepted, commands, troubles>>
history == <<approvals, settled, alone>>
vars == <<file, pc, job, world, history>>

Missing == [kind |-> "missing"]
Empty == [kind |-> "empty"]
Torn == [kind |-> "torn"]
NoJob == [kind |-> "none"]
Nothing == [kind |-> "nothing"]

Versions == 0..MaxVersion

(* What the hash of a candidate covers.                                    *)
Substance == [text : Contents \cup {"redacted"}, from : Versions]

Records == [decision : {"approved", "rejected"}, reviewer : Workers]

Candidates ==
    [kind : {"candidate"}, substance : Substance, hash : Substance,
     status : {"proposed", "superseded"}, decision : {"pending", "approved", "rejected"},
     records : UNION {[1..n -> Records] : n \in 0..2}, provenance : {"pending", "approved"}]

Readable == file.kind = "candidate"

Init ==
    /\ file = Missing
    /\ pc = [w \in Workers |-> "idle"] /\ job = [w \in Workers |-> NoJob]
    /\ manifest = [artifact |-> 0, golden |-> 1]
    /\ accepted = Nothing /\ commands = 0 /\ troubles = 0
    /\ approvals = {} /\ settled = Nothing
    /\ alone = [w \in Workers |-> TRUE]

Goto(w, here, there) == pc[w] = here /\ pc' = [pc EXCEPT ![w] = there]

Trouble == troubles < MaxTroubles /\ troubles' = troubles + 1

(* A command begins; those that run already are not alone any more.        *)
Begin(w, work) ==
    /\ Goto(w, "idle", "truncate")
    /\ commands < MaxCommands /\ commands' = commands + 1
    /\ job' = [job EXCEPT ![w] = work]
    /\ LET others == {v \in Workers \ {w} : pc[v] # "idle"} IN
       alone' = [v \in Workers |-> IF v = w THEN others = {} ELSE alone[v] /\ v \notin others]

-----------------------------------------------------------------------------
(* Redaction may rewrite what is written; the hash is of what was meant.   *)
Redact(text) == IF text \in Sensitive THEN "redacted" ELSE text

Written(c) == [c EXCEPT !.substance.text = Redact(@)]

Proposal(text, from) ==
    LET meant == [text |-> text, from |-> from] IN
    [kind |-> "candidate", substance |-> meant, hash |-> meant, status |-> "proposed",
     decision |-> "pending", records |-> <<>>, provenance |-> "pending"]

(* Mutation: an existing file is overwritten without being asked to.       *)
ProposeUnchecked(w) ==
    /\ \E text \in Contents, from \in Versions, overwrite \in BOOLEAN :
          Begin(w, [kind |-> "propose", overwrite |-> overwrite, new |-> Proposal(text, from)])
    /\ UNCHANGED <<file, manifest, accepted, troubles, approvals, settled>>

(* Without --overwrite an existing file is left alone; it is looked for    *)
(* before the file is opened.                                              *)
Propose(w) ==
    /\ \E text \in Contents, from \in Versions, overwrite \in BOOLEAN :
          /\ file = Missing \/ overwrite
          /\ Begin(w, [kind |-> "propose", overwrite |-> overwrite, new |-> Proposal(text, from)])
    /\ UNCHANGED <<file, manifest, accepted, troubles, approvals, settled>>

(* Mutation: the decision goes to the status, too.                         *)
DecideStatus(c, decision, w) ==
    IF c.decision # "pending" THEN {}
    ELSE {[c EXCEPT !.decision = decision, !.status = decision,
                    !.records = Append(@, [decision |-> decision, reviewer |-> w])]}

(* Mutation: a decision may be changed.                                    *)
DecideAgain(c, decision, w) ==
    {[c EXCEPT !.decision = decision,
               !.records = Append(@, [decision |-> decision, reviewer |-> w])]}

(* approve_candidate and reject_candidate: only what is pending.           *)
Decide(c, decision, w) ==
    IF c.decision # "pending" THEN {}
    ELSE {[c EXCEPT !.decision = decision,
                    !.records = Append(@, [decision |-> decision, reviewer |-> w])]}

(* A missing, unreadable or decided candidate ends the command, unaudited. *)
Review(w) ==
    /\ Readable
    /\ \E decision \in {"approved", "rejected"} : \E new \in Decide(file, decision, w) :
          Begin(w, [kind |-> decision, overwrite |-> TRUE, new |-> new])
    /\ UNCHANGED <<file, manifest, accepted, troubles, approvals, settled>>

(* write_text opens the file, which truncates it ...                       *)
Truncate(w) ==
    /\ Goto(w, "truncate", "fill")
    /\ file' = Empty
    /\ settled' = IF job[w].kind = "propose" /\ job[w].overwrite THEN Nothing ELSE settled
    /\ UNCHANGED <<job, world, approvals, alone>>

(* ... and writes the text from its beginning.  Of what another command    *)
(* has written meanwhile the end remains when it was longer.               *)
Fill(w) ==
    /\ Goto(w, "fill", "audit")
    /\ \/ file' = Written(job[w].new)
       \/ file # Empty /\ file' = Torn
    /\ approvals' = IF job[w].kind = "approved"
                    THEN approvals \cup {job[w].new.hash} ELSE approvals
    /\ UNCHANGED <<job, world, settled, alone>>

(* The audit line is appended last; then the process exits.                *)
Audit(w) ==
    /\ Goto(w, "audit", "idle")
    /\ settled' = IF alone[w] /\ job[w].kind # "propose"
                  THEN [kind |-> "settled", decision |-> job[w].kind, reviewer |-> w]
                  ELSE settled
    /\ job' = [job EXCEPT ![w] = NoJob]
    /\ alone' = [alone EXCEPT ![w] = TRUE]
    /\ UNCHANGED <<file, world, approvals>>

Crash(w) ==
    /\ pc[w] # "idle" /\ pc' = [pc EXCEPT ![w] = "idle"] /\ Trouble
    /\ job' = [job EXCEPT ![w] = NoJob]
    /\ alone' = [alone EXCEPT ![w] = TRUE]
    /\ UNCHANGED <<file, manifest, accepted, commands, approvals, settled>>

-----------------------------------------------------------------------------
(* Evidence the gate may be given.  run_golden_evals records the manifest  *)
(* of its time and version 1 of the golden fixtures, whatever theirs is;   *)
(* run_drift_checks records the fixture it has read.                       *)
EvalResults ==
    [artifact : 0..manifest.artifact, golden : {1}, complete : BOOLEAN,
     faults : SUBSET {"mismatch", "secret_leak"}]

DriftResults == [current : BOOLEAN, faults : SUBSET {"repeats_differ", "unexpected"}]

(* A rollback plan is for the candidate's paths and types, or not, and     *)
(* goes back to a version.                                                 *)
RollbackPlans == [fits : BOOLEAN, before : Versions]

EvalsPass(evals) == evals.faults = {}

EvaluatedBefore(c, evals) == evals.artifact = c.substance.from

Frozen(evals) == evals.complete /\ evals.golden = manifest.golden

DriftPasses(drift) == drift.current /\ drift.faults = {}

RollsBack(c, plan) == plan.fits /\ plan.before = c.substance.from

(* Mutation: the hash is not recomputed.                                   *)
ApprovedWithoutHash(c) ==
    c.status = "proposed" /\ c.decision = "approved" /\ c.provenance = "approved"

Approved(c) ==
    /\ c.status = "proposed" /\ c.decision = "approved" /\ c.provenance = "approved"
    /\ c.hash = c.substance

(* evaluate_self_evolution_gate: passed when there is no reason against.   *)
RunGate ==
    /\ Readable
    /\ \/ /\ Approved(file)
          /\ \E evals \in EvalResults, drift \in DriftResults, plan \in RollbackPlans :
                /\ EvalsPass(evals) /\ EvaluatedBefore(file, evals) /\ Frozen(evals)
                /\ DriftPasses(drift) /\ RollsBack(file, plan)
                /\ accepted' = [kind |-> "accepted", substance |-> file.substance,
                                baseline |-> evals.artifact]
       \/ accepted' = Nothing
    /\ UNCHANGED <<file, pc, job, manifest, commands, troubles, history>>

(* Edits by hand: the provenance, the proposed text, the status.  The hash *)
(* is not keyed: who edits it, the decision or the records forges a review *)
(* that no command can tell from a real one; such edits are left out.      *)
EditByHand ==
    /\ Readable /\ Trouble
    /\ \/ file' = [file EXCEPT !.provenance = "approved"]
       \/ \E text \in Contents : file' = [file EXCEPT !.substance.text = text]
       \/ file' = [file EXCEPT !.status = "superseded"]
    /\ UNCHANGED <<pc, job, manifest, accepted, commands, history>>

(* A change of the artifact or of the golden fixtures is released.         *)
Release ==
    /\ Trouble
    /\ \/ manifest.artifact < MaxVersion
          /\ manifest' = [manifest EXCEPT !.artifact = @ + 1]
       \/ manifest' = [manifest EXCEPT !.golden = 2]
    /\ UNCHANGED <<file, pc, job, accepted, commands, history>>

Step(w) == Truncate(w) \/ Fill(w) \/ Audit(w)

Next ==
    \/ \E w \in Workers : Propose(w) \/ Review(w) \/ Step(w) \/ Crash(w)
    \/ RunGate \/ EditByHand \/ Release

Spec == Init /\ [][Next]_vars

-----------------------------------------------------------------------------
Jobs ==
    {NoJob} \cup
    [kind : {"propose", "approved", "rejected"}, overwrite : BOOLEAN, new : Candidates]

TypeOK ==
    /\ file \in {Missing, Empty, Torn} \cup Candidates
    /\ pc \in [Workers -> {"idle", "truncate", "fill", "audit"}]
    /\ job \in [Workers -> Jobs]
    /\ manifest \in [artifact : Versions, golden : {1, 2}]
    /\ accepted \in {Nothing} \cup [kind : {"accepted"}, substance : Substance, baseline : Versions]
    /\ commands \in 0..MaxCommands /\ troubles \in 0..MaxTroubles
    /\ approvals \subseteq Substance
    /\ settled \in {Nothing} \cup
          [kind : {"settled"}, decision : {"approved", "rejected"}, reviewer : Workers]
    /\ alone \in [Workers -> BOOLEAN]

(* A candidate that can be read has either no decision and no review       *)
(* record or one decision and its one record, however many reviewers have  *)
(* met on the file and wherever their processes have died, unless somebody *)
(* has forged one by hand.                                                 *)
FileTellsItsReview ==
    Readable =>
        \/ file.decision = "pending" /\ file.records = <<>>
        \/ Len(file.records) = 1 /\ file.records[1].decision = file.decision

(* A decision that was audited while no other command ran stays on file    *)
(* until somebody proposes anew with --overwrite: neither later reviews    *)
(* nor proposals without that flag touch it (an edit of the decision or    *)
(* of the records by hand would).                                          *)
DecisionIsFinal ==
    settled # Nothing =>
        /\ Readable
        /\ file.records = <<[decision |-> settled.decision, reviewer |-> settled.reviewer]>>

(* What passes the gate is, word for word, what was proposed with the      *)
(* candidate that a reviewer approved, and was evaluated against the       *)
(* version it is to change, whoever has overwritten the file or edited its *)
(* text, provenance or status since (not its hash or decision: EditByHand).*)
NothingTakesEffectUnreviewed ==
    accepted # Nothing =>
        /\ accepted.substance \in approvals
        /\ accepted.baseline = accepted.substance.from
=============================================================================
