------------------------ MODULE WorkflowEngineProofs ------------------------
(***************************************************************************)
(* Proofs about WorkflowEngine, for any set of calls, any ids, any number  *)
(* of template versions, and whether or not calls overlap, die or find an  *)
(* edited checkpoint.                                                      *)
(***************************************************************************)
EXTENDS WorkflowEngine, FiniteSetTheorems, TLAPS

(* LoadOnlyTrusted is not inductive by itself: a load is as good as the    *)
(* local checkpoint the call holds, and that one as good as the file or    *)
(* store entry it was fetched from.  The strengthening follows the         *)
(* checkpoint from its creation to the call to D.                          *)

(* Until the reconciliation is over there is no checkpoint to find.        *)
NothingIssuedEarly == runPc \in {"start", "reconcile"} => issued = NoCheckpoint

(* What the run issued is hashed over its own records and was announced.   *)
IssuedIsSealed ==
    issued # NoCheckpoint =>
        /\ issued.body = "reconciled"
        /\ \E v \in Versions : issued.hash = StableHash(issued.ids, "reconciled", v)
        /\ Recorded(Run, "target_load_checkpoint_requested")

(* Every copy of a checkpoint carries the issued hash, edited or not.      *)
Descends(cp) == cp \in Checkpoint => issued \in Checkpoint /\ cp.hash = issued.hash

CopiesDescend ==
    /\ Descends(store) /\ Descends(disk)
    /\ \A c \in Calls : Descends(held[c])

(* A call on its way to D has validated the copy it holds.                 *)
Armed(c) ==
    /\ held[c] \in Checkpoint /\ decision[c] \in Decision
    /\ held[c].body = "reconciled" /\ held[c].ids = issued.ids
    /\ decision[c].action = "approve_load" /\ decision[c].hash = issued.hash
    /\ decision[c].ids \subseteq issued.ids
    /\ Recorded(c, "human_decision_accepted")

LoadersAreArmed ==
    \A c \in Calls :
        /\ CallActive(c) => decision[c] \in Decision
        /\ pc[c] \in {"attempt", "load"} => Armed(c)
        /\ pc[c] = "load" => Recorded(c, "target_load_attempted")

(* A call that reached D is never begun again.                             *)
LoadersHaveBegun == \A b \in targetD : pc[b.call] # "idle"

IInv ==
    /\ TypeOK /\ NothingIssuedEarly /\ IssuedIsSealed /\ CopiesDescend
    /\ LoadersAreArmed /\ LoadersHaveBegun /\ LoadOnlyTrusted

-----------------------------------------------------------------------------

(* The actions of the run leave every variable within its type.            *)
LEMMA RunStepType == TypeOK /\ RunStep => TypeOK'
<1> USE VersionAssumption DEF Events, vars, runVars, callVars, engineVars
<1>1. ASSUME TypeOK, StartRun PROVE TypeOK'
  BY <1>1 DEF TypeOK, StartRun
<1>2. ASSUME TypeOK, WithoutCheckpoint PROVE TypeOK'
  BY <1>2 DEF TypeOK, WithoutCheckpoint
<1>3. ASSUME TypeOK, CreateCheckpoint PROVE TypeOK'
  <2>1. PICK ids \in (SUBSET Ids) \ {{}} :
          LET cp == [ids |-> ids, body |-> "reconciled",
                     hash |-> StableHash(ids, "reconciled", loaded)]
          IN  store' = cp /\ issued' = cp
    BY <1>3 DEF CreateCheckpoint
  <2>2. store' \in Checkpoint /\ issued' \in Checkpoint
    BY <1>3, <2>1 DEF TypeOK, Checkpoint, Hash, StableHash, Bodies
  <2> QED BY <1>3, <2>2 DEF TypeOK, CreateCheckpoint
<1>4. ASSUME TypeOK, TruncateFile PROVE TypeOK'
  BY <1>4 DEF TypeOK, TruncateFile
<1>5. ASSUME TypeOK, FillFile PROVE TypeOK'
  BY <1>5 DEF TypeOK, FillFile
<1>6. ASSUME TypeOK, ConcludeRun PROVE TypeOK'
  BY <1>6 DEF TypeOK, ConcludeRun
<1>7. ASSUME TypeOK, ReportRun PROVE TypeOK'
  BY <1>7 DEF TypeOK, ReportRun
<1>8. ASSUME TypeOK, RunRaises PROVE TypeOK'
  BY <1>8 DEF TypeOK, RunRaises
<1> QED BY <1>1, <1>2, <1>3, <1>4, <1>5, <1>6, <1>7, <1>8 DEF RunStep

(* So do the two ways a call begins.                                       *)
LEMMA BeginType ==
    ASSUME TypeOK, NEW c \in Calls, CliBegin(c) \/ LibBegin(c)
    PROVE  TypeOK'
<1> USE VersionAssumption DEF Events, vars, runVars, callVars, engineVars
<1>1. CASE CliBegin(c)
  <2>1. CASE disk \notin Checkpoint
    BY <1>1, <2>1 DEF TypeOK, CliBegin, Idle
  <2>2. CASE disk \in Checkpoint
    <3>1. disk.hash \in Hash /\ disk.hash.ids \in SUBSET Ids
      BY <2>2 DEF Checkpoint, Hash
    <3>2. decision' \in [Calls -> Decision \cup {NoDecision}]
      BY <1>1, <2>2, <3>1 DEF TypeOK, CliBegin, Decision
    <3> QED BY <1>1, <2>2, <3>2 DEF TypeOK, CliBegin, Idle
  <2> QED BY <2>1, <2>2
<1>2. CASE LibBegin(c)
  <2>1. KnownHashes \subseteq Hash \cup {NoHash, OtherHash}
    BY DEF KnownHashes, Checkpoint
  <2>2. decision' \in [Calls -> Decision \cup {NoDecision}]
    BY <1>2, <2>1 DEF TypeOK, LibBegin, Decision
  <2> QED BY <1>2, <2>2 DEF TypeOK, LibBegin, Idle
<1> QED BY <1>1, <1>2

(* And every step of a call.                                               *)
LEMMA CallStepType ==
    ASSUME TypeOK, LoadersAreArmed, NEW c \in Calls, CallStep(c)
    PROVE  TypeOK'
<1> USE DEF TypeOK, At, Idle, Events, runVars, callVars, engineVars
<1>1. CASE OpenMonitor(c)
  BY <1>1 DEF OpenMonitor
<1>2. CASE Fetch(c)
  <2>1. Found(c) \in Checkpoint \cup {NoCheckpoint}
    BY DEF Found
  <2> QED BY <1>2, <2>1 DEF Fetch
<1>3. CASE Refuse(c)
  BY <1>3 DEF Refuse
<1>4. CASE Decline(c)
  BY <1>4 DEF Decline
<1>5. CASE Accept(c)
  BY <1>5 DEF Accept
<1>6. CASE Attempt(c)
  BY <1>6 DEF Attempt
<1>7. CASE Finish(c)
  BY <1>7 DEF Finish
<1>8. CASE Report(c)
  BY <1>8 DEF Report
<1>9. CASE DeleteCheckpoint(c)
  BY <1>9 DEF DeleteCheckpoint
<1>10. CASE LoadAnswers(c) \/ LoadRaises(c)
  <2>1. decision[c] \in Decision /\ held[c] \in Checkpoint
    BY <1>10 DEF LoadAnswers, LoadRaises, LoadersAreArmed, Armed
  <2>2. Batch(c) \in [call : Calls, ids : SUBSET Ids, body : Bodies]
    BY <2>1 DEF Batch, Decision, Checkpoint
  <2> QED BY <1>10, <2>2 DEF LoadAnswers, LoadRaises
<1> QED BY <1>1, <1>2, <1>3, <1>4, <1>5, <1>6, <1>7, <1>8, <1>9, <1>10 DEF CallStep

(* The environment's steps, and a call dying.                              *)
LEMMA EnvironmentType ==
    ASSUME TypeOK,
           \/ \E c \in Calls : CallDies(c)
           \/ LibraryRestarts \/ DeployTemplate \/ EditCheckpoint
    PROVE  TypeOK'
<1> USE DEF TypeOK, Idle, runVars, callVars, engineVars
<1>1. ASSUME NEW c \in Calls, CallDies(c) PROVE TypeOK'
  BY <1>1 DEF CallDies
<1>2. CASE LibraryRestarts
  BY <1>2 DEF LibraryRestarts
<1>3. CASE DeployTemplate
  BY <1>3, VersionAssumption DEF DeployTemplate, Versions
<1>4. CASE EditCheckpoint
  <2>1. \A cp \in Checkpoint : [cp EXCEPT !.body = "edited"] \in Checkpoint
    BY DEF Checkpoint, Bodies
  <2> QED BY <1>4, <2>1 DEF EditCheckpoint
<1> QED BY <1>1, <1>2, <1>3, <1>4

-----------------------------------------------------------------------------
LEMMA InitIInv == Init => IInv
<1> SUFFICES ASSUME Init PROVE IInv
  OBVIOUS
<1>1. TypeOK
  BY VersionAssumption DEF Init, TypeOK, Idle, Versions
<1>2. NothingIssuedEarly /\ IssuedIsSealed /\ LoadersHaveBegun /\ LoadOnlyTrusted
  BY DEF Init, NothingIssuedEarly, IssuedIsSealed, LoadersHaveBegun, LoadOnlyTrusted
<1>3. CopiesDescend
  BY NullsAssumption DEF Init, CopiesDescend, Descends
<1>4. LoadersAreArmed
  BY DEF Init, LoadersAreArmed, CallActive, Idle
<1> QED BY <1>1, <1>2, <1>3, <1>4 DEF IInv

(* Creating the checkpoint is where everything starts: before it there is  *)
(* no copy that could be taken for one, nor a call that trusts one.        *)
LEMMA CreateKeeps == IInv /\ CreateCheckpoint => IInv'
<1> SUFFICES ASSUME IInv, CreateCheckpoint PROVE IInv'
  OBVIOUS
<1> USE DEF runVars, callVars, engineVars
<1>1. TypeOK'
  BY RunStepType DEF IInv, RunStep
<1>2. issued = NoCheckpoint /\ issued \notin Checkpoint
  BY NullsAssumption DEF IInv, NothingIssuedEarly, CreateCheckpoint
<1>3. targetD = {} /\ \A c \in Calls : ~ Armed(c)
  BY <1>2, NullsAssumption DEF IInv, LoadOnlyTrusted, CopiesDescend, Descends, Armed
<1>4. /\ issued' = store' /\ issued' \in Checkpoint
      /\ issued'.body = "reconciled"
      /\ issued'.hash = StableHash(issued'.ids, "reconciled", loaded)
  BY DEF IInv, TypeOK, CreateCheckpoint, Checkpoint, Hash, StableHash, Bodies
<1>5. NothingIssuedEarly' /\ IssuedIsSealed'
  BY <1>4 DEF IInv, TypeOK, NothingIssuedEarly, IssuedIsSealed, CreateCheckpoint, Recorded
<1>6. CopiesDescend'
  BY <1>2, <1>4 DEF IInv, CopiesDescend, Descends, CreateCheckpoint
<1>7. LoadersAreArmed'
  BY <1>3 DEF IInv, LoadersAreArmed, CreateCheckpoint, CallActive
<1>8. LoadersHaveBegun' /\ LoadOnlyTrusted'
  BY <1>3 DEF LoadersHaveBegun, LoadOnlyTrusted, CreateCheckpoint
<1> QED BY <1>1, <1>5, <1>6, <1>7, <1>8 DEF IInv

(* A step that leaves the checkpoint, its copies' hashes, the calls and    *)
(* system D alone, and only adds to the audit trail, keeps the invariant.  *)
LEMMA QuietStepKeeps ==
    ASSUME IInv, TypeOK', NothingIssuedEarly',
           UNCHANGED <<pc, held, decision, targetD, issued>>,
           Descends(store)', Descends(disk)', audit \subseteq audit'
    PROVE  IInv'
<1>1. \A who, event : Recorded(who, event) => Recorded(who, event)'
  BY DEF Recorded
<1>2. IssuedIsSealed' /\ LoadersHaveBegun' /\ LoadOnlyTrusted'
  BY <1>1 DEF IInv, IssuedIsSealed, LoadersHaveBegun, LoadOnlyTrusted
<1>3. CopiesDescend'
  BY DEF IInv, CopiesDescend, Descends
<1>4. LoadersAreArmed'
  BY <1>1 DEF IInv, LoadersAreArmed, Armed, CallActive
<1> QED BY <1>2, <1>3, <1>4 DEF IInv

LEMMA RunStepKeeps == IInv /\ RunStep => IInv'
<1> SUFFICES ASSUME IInv, RunStep PROVE IInv'
  OBVIOUS
<1> USE DEF runVars, callVars, engineVars
<1>1. TypeOK'
  BY RunStepType DEF IInv
<1>2. CASE CreateCheckpoint
  BY <1>2, CreateKeeps
<1>3. CASE ~ CreateCheckpoint
  <2>1. UNCHANGED <<pc, held, decision, targetD, issued, store>> /\ audit \subseteq audit'
    BY <1>3 DEF RunStep, StartRun, WithoutCheckpoint, TruncateFile, FillFile, ConcludeRun,
                ReportRun, RunRaises
  <2>2. NothingIssuedEarly'
    BY <1>3 DEF IInv, NothingIssuedEarly, RunStep, StartRun, WithoutCheckpoint,
                TruncateFile, FillFile, ConcludeRun, ReportRun, RunRaises
  <2>3. disk' \in {disk, store, Torn}
    BY <1>3 DEF RunStep, StartRun, WithoutCheckpoint, TruncateFile, FillFile, ConcludeRun,
                ReportRun, RunRaises
  <2>4. Descends(store)' /\ Descends(disk)'
    BY <2>1, <2>3, NullsAssumption DEF IInv, CopiesDescend, Descends
  <2> QED BY <1>1, <2>1, <2>2, <2>4, QuietStepKeeps
<1> QED BY <1>2, <1>3

-----------------------------------------------------------------------------
(* A call begins: it has not been to D yet, so its new decision disturbs   *)
(* no batch, and a file it reads carries the issued hash.                  *)
LEMMA BeginKeeps ==
    ASSUME IInv, NEW c \in Calls, CliBegin(c) \/ LibBegin(c)
    PROVE  IInv'
<1> USE DEF runVars, callVars, engineVars
<1>1. TypeOK'
  BY BeginType DEF IInv
<1>2. /\ UNCHANGED <<runPc, issued, store, disk, audit, targetD>>
      /\ pc[c] = "idle" /\ pc'[c] \in {"open", "done"}
      /\ \A k \in Calls \ {c} :
            pc'[k] = pc[k] /\ held'[k] = held[k] /\ decision'[k] = decision[k]
      /\ held'[c] \in {held[c], disk}
      /\ pc'[c] = "open" => decision'[c] \in Decision
  <2>1. CASE CliBegin(c) /\ disk \in Checkpoint
    <3>1. disk.hash \in Hash /\ disk.hash.ids \in SUBSET Ids
      BY <2>1 DEF Checkpoint, Hash
    <3> QED BY <2>1, <3>1 DEF CliBegin, MayBegin, IInv, TypeOK, Decision
  <2>2. CASE CliBegin(c) /\ disk \notin Checkpoint
    BY <2>2 DEF CliBegin, MayBegin, IInv, TypeOK
  <2>3. CASE LibBegin(c)
    <3>1. KnownHashes \subseteq Hash \cup {NoHash, OtherHash}
      BY DEF KnownHashes, Checkpoint, IInv, TypeOK
    <3> QED BY <2>3, <3>1 DEF LibBegin, MayBegin, IInv, TypeOK, Decision
  <2> QED BY <2>1, <2>2, <2>3
<1>3. NothingIssuedEarly' /\ IssuedIsSealed'
  BY <1>2 DEF IInv, NothingIssuedEarly, IssuedIsSealed, Recorded
<1>4. CopiesDescend'
  BY <1>2 DEF IInv, CopiesDescend, Descends
<1>5. LoadersAreArmed'
  BY <1>2 DEF IInv, LoadersAreArmed, Armed, CallActive, Idle, Recorded
<1>6. LoadersHaveBegun' /\ LoadOnlyTrusted'
  <2>1. \A b \in targetD : b.call \in Calls /\ b.call # c
    BY <1>2 DEF IInv, TypeOK, LoadersHaveBegun
  <2> QED BY <1>2, <2>1 DEF IInv, LoadersHaveBegun, LoadOnlyTrusted, Recorded
<1> QED BY <1>1, <1>3, <1>4, <1>5, <1>6 DEF IInv

(* A step of call c that does not touch D: it moves c on, may replace what *)
(* c holds by a copy of the checkpoint, and arms c only when it is safe.   *)
LEMMA CallMoveKeeps ==
    ASSUME IInv, TypeOK', NEW c \in Calls,
           UNCHANGED <<runPc, decision, targetD, issued>>,
           Descends(store)', Descends(disk)', Descends(held[c])',
           audit \subseteq audit', CallActive(c), pc'[c] # "idle",
           \A k \in Calls \ {c} : pc'[k] = pc[k] /\ held'[k] = held[k],
           pc'[c] \in {"attempt", "load"} => Armed(c)',
           pc'[c] = "load" => Recorded(c, "target_load_attempted")'
    PROVE  IInv'
<1>1. \A who, event : Recorded(who, event) => Recorded(who, event)'
  BY DEF Recorded
<1>2. NothingIssuedEarly' /\ IssuedIsSealed' /\ LoadOnlyTrusted'
  BY <1>1 DEF IInv, NothingIssuedEarly, IssuedIsSealed, LoadOnlyTrusted
<1>3. CopiesDescend'
  BY DEF IInv, CopiesDescend, Descends
<1>4. LoadersAreArmed'
  BY <1>1 DEF IInv, LoadersAreArmed, Armed, CallActive
<1>5. LoadersHaveBegun'
  BY DEF IInv, TypeOK, LoadersHaveBegun
<1> QED BY <1>2, <1>3, <1>4, <1>5 DEF IInv

(* Validation is what makes a copy trustworthy: a copy that carries the    *)
(* issued hash and hashes to it is the issued checkpoint's content.        *)
LEMMA AcceptArms ==
    ASSUME IInv, NEW c \in Calls, Accept(c)
    PROVE  Armed(c)'
<1> USE DEF runVars, callVars, engineVars
<1>1. /\ pc[c] = "decide" /\ held[c] # NoCheckpoint /\ TrustedBy(c)
      /\ decision[c].action = "approve_load" /\ decision[c].ids \subseteq held[c].ids
      /\ UNCHANGED <<held, decision, issued>> /\ Recorded(c, "human_decision_accepted")'
  BY DEF Accept, At, Recorded
<1>2. held[c] \in Checkpoint /\ issued \in Checkpoint /\ held[c].hash = issued.hash
  BY <1>1 DEF IInv, TypeOK, CopiesDescend, Descends
<1>3. decision[c] \in Decision
  BY <1>1 DEF IInv, LoadersAreArmed, CallActive, Idle
<1>4. PICK v \in Versions : issued.hash = StableHash(issued.ids, "reconciled", v)
  BY <1>2, NullsAssumption DEF IInv, IssuedIsSealed
<1>5. held[c].hash = StableHash(held[c].ids, held[c].body, version[c])
  BY <1>1 DEF TrustedBy
<1>6. held[c].body = "reconciled" /\ held[c].ids = issued.ids
  BY <1>2, <1>4, <1>5 DEF StableHash
<1>7. decision[c].hash = issued.hash
  BY <1>1, <1>2 DEF TrustedBy
<1> QED BY <1>1, <1>2, <1>3, <1>6, <1>7 DEF Armed, Recorded

(* The call to D: what an armed call sends is what the run issued.         *)
LEMMA LoadKeeps ==
    ASSUME IInv, NEW c \in Calls, LoadAnswers(c) \/ LoadRaises(c)
    PROVE  IInv'
<1> USE DEF runVars, callVars, engineVars
<1>1. TypeOK'
  BY CallStepType DEF IInv, CallStep
<1>2. /\ UNCHANGED <<runPc, held, decision, issued, store, disk, audit>>
      /\ pc[c] = "load" /\ pc'[c] = "finish"
      /\ \A k \in Calls \ {c} : pc'[k] = pc[k]
      /\ targetD' \subseteq targetD \cup {Batch(c)}
  BY DEF LoadAnswers, LoadRaises, At, IInv, TypeOK
<1>3. Armed(c) /\ Recorded(c, "target_load_attempted")
  BY <1>2 DEF IInv, LoadersAreArmed
<1>4. issued \in Checkpoint /\ Recorded(Run, "target_load_checkpoint_requested")
  BY <1>3, NullsAssumption DEF IInv, CopiesDescend, Descends, Armed, IssuedIsSealed
<1>5. NothingIssuedEarly' /\ IssuedIsSealed' /\ CopiesDescend'
  BY <1>2 DEF IInv, NothingIssuedEarly, IssuedIsSealed, CopiesDescend, Descends, Recorded
<1>6. LoadersAreArmed'
  BY <1>2 DEF IInv, LoadersAreArmed, Armed, CallActive, Idle, Recorded
<1>7. LoadersHaveBegun'
  BY <1>2 DEF IInv, TypeOK, LoadersHaveBegun, Batch
<1>8. LoadOnlyTrusted'
  <2>1. /\ Batch(c).call = c /\ Batch(c).ids = decision[c].ids
        /\ Batch(c).body = held[c].body
    BY DEF Batch
  <2>2. \A b \in targetD' : b \in targetD \/ b = Batch(c)
    BY <1>2
  <2>3. \A who, event : Recorded(who, event) => Recorded(who, event)'
    BY <1>2 DEF Recorded
  <2>4. ASSUME NEW b \in targetD
        PROVE  /\ issued \in Checkpoint /\ Recorded(Run, "target_load_checkpoint_requested")
               /\ b.ids \subseteq issued.ids /\ b.body = "reconciled"
               /\ decision[b.call].action = "approve_load"
               /\ decision[b.call].hash = issued.hash
               /\ Recorded(b.call, "human_decision_accepted")
               /\ Recorded(b.call, "target_load_attempted")
    BY DEF IInv, LoadOnlyTrusted
  <2>5. /\ Batch(c).ids \subseteq issued.ids /\ Batch(c).body = "reconciled"
        /\ decision[c].action = "approve_load" /\ decision[c].hash = issued.hash
        /\ Recorded(c, "human_decision_accepted")
    BY <1>3, <2>1 DEF Armed
  <2> QED BY <1>2, <1>3, <1>4, <2>1, <2>2, <2>3, <2>4, <2>5 DEF LoadOnlyTrusted
<1> QED BY <1>1, <1>5, <1>6, <1>7, <1>8 DEF IInv

LEMMA CallStepKeeps ==
    ASSUME IInv, NEW c \in Calls, CallStep(c)
    PROVE  IInv'
<1> USE DEF runVars, callVars, engineVars
<1>1. TypeOK'
  BY CallStepType DEF IInv
<1>2. CASE LoadAnswers(c) \/ LoadRaises(c)
  BY <1>2, LoadKeeps
<1>3. CASE Fetch(c)
  <2>1. Descends(Found(c))
    BY DEF IInv, CopiesDescend, Descends, Found
  <2>2. /\ held'[c] = Found(c) /\ store' \in {store, Found(c)} /\ disk' = disk
        /\ CallActive(c) /\ pc'[c] = "decide" /\ audit' = audit
        /\ UNCHANGED <<runPc, decision, targetD, issued>>
        /\ \A k \in Calls \ {c} : pc'[k] = pc[k] /\ held'[k] = held[k]
    BY <1>3 DEF Fetch, At, CallActive, Idle, IInv, TypeOK
  <2>3. Descends(store)' /\ Descends(disk)' /\ Descends(held[c])'
    BY <2>1, <2>2 DEF IInv, CopiesDescend, Descends
  <2> QED BY <1>1, <2>2, <2>3, CallMoveKeeps
<1>4. CASE DeleteCheckpoint(c)
  <2>1. /\ held' = held /\ store' \in {store, NoCheckpoint} /\ disk' = NoCheckpoint
        /\ CallActive(c) /\ pc'[c] \in {"done", "finish"} /\ audit' = audit
        /\ UNCHANGED <<runPc, decision, targetD, issued>>
        /\ \A k \in Calls \ {c} : pc'[k] = pc[k] /\ held'[k] = held[k]
    BY <1>4 DEF DeleteCheckpoint, At, CallActive, Idle, IInv, TypeOK
  <2>2. Descends(store)' /\ Descends(disk)' /\ Descends(held[c])'
    BY <2>1, NullsAssumption DEF IInv, CopiesDescend, Descends
  <2> QED BY <1>1, <2>1, <2>2, CallMoveKeeps
<1>5. CASE OpenMonitor(c) \/ Refuse(c) \/ Decline(c) \/ Accept(c) \/ Attempt(c)
           \/ Finish(c) \/ Report(c)
  <2>1. /\ UNCHANGED <<held, store, disk, runPc, decision, targetD, issued>>
        /\ CallActive(c) /\ pc'[c] # "idle" /\ audit \subseteq audit'
        /\ \A k \in Calls \ {c} : pc'[k] = pc[k] /\ held'[k] = held[k]
    BY <1>5 DEF OpenMonitor, Refuse, Decline, Accept, Attempt, Finish, Report, At,
                CallActive, Idle, IInv, TypeOK
  <2>2. Descends(store)' /\ Descends(disk)' /\ Descends(held[c])'
    BY <2>1 DEF IInv, CopiesDescend, Descends
  <2>3. pc'[c] = "attempt" => Armed(c)'
    <3>1. pc'[c] = "attempt" => Accept(c)
      BY <1>5 DEF OpenMonitor, Refuse, Decline, Accept, Attempt, Finish, Report, At,
                  IInv, TypeOK
    <3> QED BY <3>1, AcceptArms
  <2>4. pc'[c] = "load" => Armed(c)' /\ Recorded(c, "target_load_attempted")'
    <3>1. pc'[c] = "load" => Attempt(c) /\ pc[c] = "attempt"
                             /\ Recorded(c, "target_load_attempted")'
      BY <1>5 DEF OpenMonitor, Refuse, Decline, Accept, Attempt, Finish, Report, At,
                  IInv, TypeOK, Recorded
    <3>2. pc[c] = "attempt" => Armed(c)
      BY DEF IInv, LoadersAreArmed
    <3> QED BY <2>1, <3>1, <3>2 DEF Armed, Recorded
  <2> QED BY <1>1, <2>1, <2>2, <2>3, <2>4, CallMoveKeeps
<1> QED BY <1>2, <1>3, <1>4, <1>5 DEF CallStep

(* Dying, restarting, deploying and editing never forge a hash.            *)
LEMMA EnvironmentKeeps ==
    ASSUME IInv,
           \/ \E c \in Calls : CallDies(c)
           \/ LibraryRestarts \/ DeployTemplate \/ EditCheckpoint
    PROVE  IInv'
<1> USE DEF runVars, callVars, engineVars
<1>1. TypeOK'
  BY EnvironmentType DEF IInv
<1>2. /\ UNCHANGED <<held, decision, targetD, issued, audit>>
      /\ runPc' \in {runPc, "dead"}
      /\ \A k \in Calls : pc'[k] = pc[k] \/ pc'[k] = "dead"
  BY DEF CallDies, LibraryRestarts, DeployTemplate, EditCheckpoint, IInv, TypeOK
<1>3. Descends(store)' /\ Descends(disk)'
  <2>1. CASE EditCheckpoint
    <3>1. \A cp \in Checkpoint : [cp EXCEPT !.body = "edited"].hash = cp.hash
      BY DEF Checkpoint
    <3> QED BY <2>1, <3>1 DEF EditCheckpoint, IInv, CopiesDescend, Descends
  <2>2. CASE ~ EditCheckpoint
    <3>1. store' \in {store, NoCheckpoint} /\ disk' = disk
      BY <2>2 DEF CallDies, LibraryRestarts, DeployTemplate
    <3> QED BY <1>2, <3>1, NullsAssumption DEF IInv, CopiesDescend, Descends
  <2> QED BY <2>1, <2>2
<1>4. NothingIssuedEarly' /\ IssuedIsSealed' /\ LoadOnlyTrusted'
  BY <1>2 DEF IInv, NothingIssuedEarly, IssuedIsSealed, LoadOnlyTrusted, Recorded
<1>5. CopiesDescend'
  BY <1>2, <1>3 DEF IInv, CopiesDescend, Descends
<1>6. LoadersAreArmed'
  BY <1>2 DEF IInv, LoadersAreArmed, Armed, CallActive, Idle, Recorded
<1>7. LoadersHaveBegun'
  BY <1>2 DEF IInv, TypeOK, LoadersHaveBegun
<1> QED BY <1>1, <1>4, <1>5, <1>6, <1>7 DEF IInv

LEMMA StutterKeeps == IInv /\ UNCHANGED vars => IInv'
BY DEF IInv, TypeOK, NothingIssuedEarly, IssuedIsSealed, CopiesDescend, Descends,
       LoadersAreArmed, Armed, LoadersHaveBegun, LoadOnlyTrusted, CallActive, Idle,
       Recorded, vars, runVars, callVars, engineVars

-----------------------------------------------------------------------------
LEMMA Inductive == Spec => []IInv
<1>1. IInv /\ [Next]_vars => IInv'
  BY RunStepKeeps, BeginKeeps, CallStepKeeps, EnvironmentKeeps, StutterKeeps
     DEF Next, Terminated
<1> QED BY InitIInv, <1>1, PTL DEF Spec

(* Every variable keeps its type, and a call that finishes has a verdict.  *)
THEOREM TypeCorrect == Spec => []TypeOK
<1>1. IInv => TypeOK
  BY DEF IInv
<1> QED BY Inductive, <1>1, PTL

(* System D only receives records the run reconciled and put behind the    *)
(* checkpoint, on a recorded approval of that checkpoint.                  *)
THEOREM LoadsAreTrusted == Spec => []LoadOnlyTrusted
<1>1. IInv => LoadOnlyTrusted
  BY DEF IInv
<1> QED BY Inductive, <1>1, PTL

(* A checkpoint file that is gone after the run wrote it stays gone: only  *)
(* the run itself creates the file, and an edit needs one that exists.     *)
THEOREM DeletionIsFinal == Spec => DeletedForGood
<1> DEFINE Gone == runPc \notin {"start", "reconcile", "persist", "fill"}
                   /\ disk = NoCheckpoint
<1>1. ASSUME Gone, RunStep PROVE disk' = NoCheckpoint
  BY <1>1 DEF RunStep, StartRun, WithoutCheckpoint, CreateCheckpoint, TruncateFile,
              FillFile, ConcludeRun, ReportRun, RunRaises
<1>2. ASSUME Gone, NEW c \in Calls,
             CliBegin(c) \/ LibBegin(c) \/ CallStep(c) \/ CallDies(c)
      PROVE  disk' = NoCheckpoint
  BY <1>2 DEF CliBegin, LibBegin, CallStep, CallDies, OpenMonitor, Fetch, Refuse, Decline,
              Accept, Attempt, LoadAnswers, LoadRaises, Finish, Report, DeleteCheckpoint
<1>3. ASSUME Gone, LibraryRestarts \/ DeployTemplate \/ EditCheckpoint
      PROVE  disk' = NoCheckpoint
  BY <1>3, NullsAssumption DEF LibraryRestarts, DeployTemplate, EditCheckpoint
<1>4. [Next]_vars => [Gone => disk' = NoCheckpoint]_vars
  BY <1>1, <1>2, <1>3 DEF Next, Terminated
<1> QED BY <1>4, PTL DEF Spec, DeletedForGood

-----------------------------------------------------------------------------
(* Calls that overlap, die or find an edited checkpoint.                   *)
(*                                                                         *)
(* What D has from a call is what the call has decided and holds, to its   *)
(* end; a call that was not made yet holds nothing.                        *)
PastLoad == {"finish", "report", "unlink", "done", "dead"}

BatchesAreCalls == \A b \in targetD : pc[b.call] \in PastLoad /\ b = Batch(b.call)

IdleHoldNothing == \A c \in Calls : pc[c] = "idle" => held[c] = NoCheckpoint

OverlapInv == BatchesAreCalls /\ IdleHoldNothing

(* A call past its load keeps what it holds, and one that is idle is not   *)
(* given anything.                                                         *)
LEMMA BystanderStep ==
    ASSUME IInv, [Next]_vars, NEW k \in Calls
    PROVE  /\ pc[k] \in PastLoad =>
                 pc'[k] \in PastLoad /\ held'[k] = held[k] /\ decision'[k] = decision[k]
           /\ pc'[k] = "idle" => pc[k] = "idle" /\ held'[k] = held[k]
<1> USE DEF runVars, callVars, engineVars, PastLoad
<1>1. TypeOK
  BY DEF IInv
<1>2. CASE RunStep
  <2>1. UNCHANGED <<pc, held, decision>>
    BY <1>2 DEF RunStep, StartRun, WithoutCheckpoint, CreateCheckpoint, TruncateFile, FillFile,
       ConcludeRun, ReportRun, RunRaises
  <2> QED BY <2>1
<1>3. ASSUME NEW c \in Calls, CliBegin(c) \/ LibBegin(c)
      PROVE  /\ pc[c] = "idle" /\ pc'[c] # "idle"
             /\ k # c => pc'[k] = pc[k] /\ held'[k] = held[k] /\ decision'[k] = decision[k]
  BY <1>1, <1>3 DEF CliBegin, LibBegin, MayBegin, TypeOK
<1>4. ASSUME NEW c \in Calls, Fetch(c)
      PROVE  /\ pc[c] = "fetch" /\ pc'[c] = "decide"
             /\ k # c => pc'[k] = pc[k] /\ held'[k] = held[k] /\ decision'[k] = decision[k]
  BY <1>1, <1>4 DEF Fetch, At, TypeOK
<1>5. ASSUME NEW c \in Calls, CallStep(c), ~ Fetch(c)
      PROVE  /\ UNCHANGED <<held, decision>> /\ pc[c] # "idle" /\ pc'[c] # "idle"
             /\ pc[c] \in PastLoad => pc'[c] \in PastLoad
             /\ k # c => pc'[k] = pc[k]
  BY <1>1, <1>5 DEF CallStep, OpenMonitor, Refuse, Decline, Accept, Attempt, LoadAnswers,
     LoadRaises, Finish, Report, DeleteCheckpoint, At, TypeOK
<1>6. ASSUME \/ \E c \in Calls : CallDies(c)
             \/ LibraryRestarts \/ DeployTemplate \/ EditCheckpoint \/ UNCHANGED vars
      PROVE  UNCHANGED <<held, decision>> /\ pc'[k] \in {pc[k], "dead"}
  BY <1>1, <1>6 DEF CallDies, LibraryRestarts, DeployTemplate, EditCheckpoint, vars, TypeOK
<1> QED BY <1>2, <1>3, <1>4, <1>5, <1>6 DEF Next, Terminated

LEMMA OverlapInductive == Spec => [](IInv /\ OverlapInv)
<1>1. Init => OverlapInv
  BY DEF Init, OverlapInv, BatchesAreCalls, IdleHoldNothing
<1>2. IInv /\ OverlapInv /\ [Next]_vars => OverlapInv'
  <2> SUFFICES ASSUME IInv, OverlapInv, [Next]_vars PROVE OverlapInv'
    OBVIOUS
  <2>1. IdleHoldNothing'
    BY BystanderStep DEF OverlapInv, IdleHoldNothing
  <2>2. ASSUME NEW b \in targetD PROVE pc'[b.call] \in PastLoad /\ b = Batch(b.call)'
    <3>1. b.call \in Calls
      BY DEF IInv, TypeOK
    <3>2. pc[b.call] \in PastLoad /\ b = Batch(b.call)
      BY DEF OverlapInv, BatchesAreCalls
    <3> QED BY <3>1, <3>2, BystanderStep DEF Batch
  <2>3. ASSUME targetD' \subseteq targetD PROVE BatchesAreCalls'
    BY <2>2, <2>3 DEF BatchesAreCalls, Batch
  <2>4. ASSUME NEW c \in Calls, LoadAnswers(c) \/ LoadRaises(c) PROVE BatchesAreCalls'
    <3>1. /\ targetD' \subseteq targetD \cup {Batch(c)} /\ Batch(c).call = c
          /\ UNCHANGED <<held, decision>> /\ pc'[c] = "finish"
      BY <2>4 DEF LoadAnswers, LoadRaises, At, Batch, IInv, TypeOK
    <3> QED BY <2>2, <3>1 DEF BatchesAreCalls, Batch, PastLoad
  <2>5. targetD' \subseteq targetD \/ \E c \in Calls : LoadAnswers(c) \/ LoadRaises(c)
    BY DEF Next, RunStep, StartRun, WithoutCheckpoint, CreateCheckpoint, TruncateFile, FillFile,
       ConcludeRun, ReportRun, RunRaises, CliBegin, LibBegin, CallStep, OpenMonitor, Fetch,
       Refuse, Decline, Accept, Attempt, Finish, Report, DeleteCheckpoint, CallDies,
       LibraryRestarts, DeployTemplate, EditCheckpoint, Terminated, vars
  <2> QED BY <2>1, <2>3, <2>4, <2>5 DEF OverlapInv
<1> QED BY Inductive, <1>1, <1>2, PTL DEF Spec

(* However calls overlap, one approval reaches D at most once, with the    *)
(* records it approved: D may have a batch of each call, but never two.    *)
OneBatchPerCall ==
    \A b \in targetD :
        /\ b.ids = decision[b.call].ids
        /\ \A d \in targetD : d.call = b.call => d = b

THEOREM CallsLoadOnce == Spec => []OneBatchPerCall
<1>1. IInv /\ OverlapInv => OneBatchPerCall
  BY DEF OverlapInv, BatchesAreCalls, OneBatchPerCall, Batch
<1> QED BY OverlapInductive, <1>1, PTL

(* The checkpoint is spent when the run is past writing it and it is gone  *)
(* from the file, the store and the hands of every call.                   *)
Holding(c) == CallActive(c) /\ held[c] \in Checkpoint

Spent ==
    /\ runPc \notin {"start", "reconcile", "persist", "fill"}
    /\ disk = NoCheckpoint /\ store = NoCheckpoint
    /\ \A c \in Calls : ~ Holding(c)

Accepted == {c \in Calls : Recorded(c, "human_decision_accepted")}

(* A spent checkpoint is spent for good: whatever calls are made and       *)
(* whichever entry they take, whoever dies and restarts, none of them is   *)
(* accepted any more and D receives nothing.                               *)
SpentForGood == [][Spent => Spent' /\ UNCHANGED <<targetD, Accepted>>]_vars

THEOREM SpentStaysSpent == Spec => SpentForGood
<1> USE DEF runVars, callVars, engineVars
<1>1. ASSUME IInv, OverlapInv, Next, Spent
      PROVE  Spent' /\ UNCHANGED <<targetD, Accepted>>
  <2>1. TypeOK /\ NoCheckpoint \notin Checkpoint
    BY <1>1, NullsAssumption DEF IInv
  <2>2. ASSUME \/ RunStep \/ LibraryRestarts \/ DeployTemplate \/ EditCheckpoint
               \/ \E c \in Calls : CallDies(c)
        PROVE  Spent' /\ UNCHANGED <<targetD, Accepted>>
    <3>1. /\ UNCHANGED <<held, disk, targetD>> /\ store' = NoCheckpoint
          /\ runPc' \notin {"start", "reconcile", "persist", "fill"}
          /\ \A c \in Calls : pc'[c] \in {pc[c], "dead"}
      BY <1>1, <2>1, <2>2
         DEF Spent, RunStep, StartRun, WithoutCheckpoint, CreateCheckpoint, TruncateFile,
             FillFile, ConcludeRun, ReportRun, RunRaises, LibraryRestarts, DeployTemplate,
             EditCheckpoint, CallDies, TypeOK
    <3>2. \A c \in Calls : Recorded(c, "human_decision_accepted")'
                            <=> Recorded(c, "human_decision_accepted")
      BY <1>1, <2>2, CallsAssumption
         DEF Spent, Recorded, RunStep, StartRun, WithoutCheckpoint, CreateCheckpoint,
             TruncateFile, FillFile, ConcludeRun, ReportRun, RunRaises, LibraryRestarts,
             DeployTemplate, EditCheckpoint, CallDies
    <3> QED BY <1>1, <3>1, <3>2 DEF Spent, Accepted, Holding, CallActive, Idle
  <2>3. ASSUME NEW c \in Calls, CliBegin(c) \/ LibBegin(c)
        PROVE  Spent' /\ UNCHANGED <<targetD, Accepted>>
    <3>1. /\ UNCHANGED <<runPc, disk, store, audit, targetD, held>>
          /\ \A k \in Calls \ {c} : pc'[k] = pc[k]
          /\ held[c] = NoCheckpoint
      BY <1>1, <2>1, <2>3
         DEF Spent, OverlapInv, IdleHoldNothing, CliBegin, LibBegin, MayBegin, TypeOK
    <3> QED BY <1>1, <2>1, <3>1 DEF Spent, Accepted, Recorded, Holding, CallActive
  <2>4. ASSUME NEW c \in Calls, CallStep(c)
        PROVE  Spent' /\ UNCHANGED <<targetD, Accepted>>
    <3>1. CallActive(c) /\ held[c] = NoCheckpoint
      BY <1>1, <2>1, <2>4
         DEF Spent, Holding, TypeOK, CallStep, OpenMonitor, Fetch, Refuse, Decline, Accept,
             Attempt, LoadAnswers, LoadRaises, Finish, Report, DeleteCheckpoint, At, CallActive,
             Idle
    <3>2. pc[c] \notin {"attempt", "load"}
      BY <1>1, <2>1, <3>1 DEF IInv, LoadersAreArmed, Armed
    <3>3. ~ Accept(c)
      BY <3>1 DEF Accept
    <3>4. /\ UNCHANGED <<runPc, targetD>> /\ disk' = NoCheckpoint /\ store' = NoCheckpoint
          /\ held'[c] = NoCheckpoint
          /\ \A k \in Calls \ {c} : pc'[k] = pc[k] /\ held'[k] = held[k]
      BY <1>1, <2>1, <2>4, <3>1, <3>2, <3>3
         DEF Spent, TypeOK, Found, CallStep, OpenMonitor, Fetch, Refuse, Decline, Attempt,
             LoadAnswers, LoadRaises, Finish, Report, DeleteCheckpoint, At
    <3>5. \A k \in Calls : Recorded(k, "human_decision_accepted")'
                            <=> Recorded(k, "human_decision_accepted")
      BY <2>4, <3>2, <3>3
         DEF Recorded, CallStep, OpenMonitor, Fetch, Refuse, Decline, Attempt,
             LoadAnswers, LoadRaises, Finish, Report, DeleteCheckpoint, At
    <3> QED BY <1>1, <2>1, <3>4, <3>5 DEF Spent, Accepted, Holding, CallActive
  <2>5. CASE Terminated
    BY <1>1, <2>5 DEF Terminated, vars, Spent, Accepted, Recorded, Holding, CallActive
  <2> QED BY <1>1, <2>2, <2>3, <2>4, <2>5 DEF Next
<1>2. IInv /\ OverlapInv /\ [Next]_vars
        => [Spent => Spent' /\ UNCHANGED <<targetD, Accepted>>]_vars
  BY <1>1
<1> QED BY OverlapInductive, <1>2, PTL DEF Spec, SpentForGood

-----------------------------------------------------------------------------
(* Calls in sequence.                                                      *)
(*                                                                         *)
(* With one process at work at a time, all calls made through one entry    *)
(* and none dying, the checkpoint's life is that of the gate.              *)
Serial == Overlap = FALSE /\ Mixed = FALSE /\ MayCrash = FALSE

OneActs ==
    /\ runPc # "dead" /\ \A c \in Calls : pc[c] # "dead"
    /\ runPc # "done" => \A c \in Calls : pc[c] = "idle"
    /\ \A c, k \in Calls : CallActive(c) /\ CallActive(k) => c = k

OneEntry ==
    \A c, k \in Calls : pc[c] # "idle" /\ pc[k] # "idle" => (c \in CliCalls <=> k \in CliCalls)

(* A call has no verdict before its end, and one with a checkpoint in its  *)
(* hands finds that nobody has decided.                                    *)
Deciding(c) ==
    /\ pc[c] \in {"idle", "open", "fetch", "decide", "attempt", "load"} => verdict[c] = "none"
    /\ pc[c] \in {"idle", "open", "fetch", "decide"} => ~ Recorded(c, "human_decision_accepted")
    /\ pc[c] = "unlink" => c \in Decided
    /\ pc[c] \in {"open", "fetch"} /\ c \in CliCalls => Decided = {}
    /\ pc[c] \in {"decide", "attempt", "load"} /\ held[c] # NoCheckpoint => Decided = {}

(* A decision deletes what a later call could start from.                  *)
Deleting(c) == pc[c] = "unlink" \/ (verdict[c] = "completed" /\ pc[c] \in {"finish", "report"})
Deleted(c) == disk = NoCheckpoint /\ (c \in LibCalls => store = NoCheckpoint)

DecidedOnce ==
    /\ \A c, k \in Decided : c = k
    /\ \A c \in Decided : Deleting(c) \/ Deleted(c)

(* The file and status.json.                                               *)
FileFits ==
    /\ runPc \in {"persist", "fill"} => store \in Checkpoint
    /\ runState = "checkpoint_required" =>
          /\ runPc \in {"persist", "fill", "conclude", "report", "done"}
          /\ runPc \in {"conclude", "report", "done"} => disk \in Checkpoint \/ Decided # {}

StatusFits ==
    /\ \A c \in Calls :
          /\ pc[c] \in {"fetch", "decide", "attempt", "load"} => status = "running"
          /\ pc[c] \in {"finish", "report", "unlink"} => status # "checkpoint_required"
    /\ status = "checkpoint_required" =>
          runPc \in {"conclude", "report", "done"} /\ disk \in Checkpoint
    /\ status = "completed" => Answered # {}
    /\ status = "closed" => Answered = {}
    /\ \A c \in Answered : \E b \in targetD : b.call = c

SerialInv ==
    /\ Serial /\ OneActs /\ OneEntry /\ \A c \in Calls : Deciding(c)
    /\ DecidedOnce /\ FileFits /\ StatusFits

-----------------------------------------------------------------------------
LEMMA SerialInit == Init /\ Serial => SerialInv
<1> SUFFICES ASSUME Init, Serial PROVE SerialInv
  OBVIOUS
<1>1. Decided = {} /\ Answered = {}
  BY DEF Init, Decided, Answered
<1>2. OneActs /\ OneEntry /\ \A c \in Calls : Deciding(c)
  BY DEF Init, OneActs, OneEntry, Deciding, CallActive, Idle, Recorded
<1>3. DecidedOnce /\ FileFits /\ StatusFits
  BY <1>1 DEF Init, DecidedOnce, FileFits, StatusFits
<1> QED BY <1>2, <1>3 DEF SerialInv

(* Before the run is over no call has begun, and nobody has decided.       *)
LEMMA EarlyFacts ==
    ASSUME SerialInv, runPc # "done"
    PROVE  Decided = {} /\ Answered = {} /\ \A c \in Calls : pc[c] = "idle"
BY DEF SerialInv, OneActs, Deciding, Decided, Answered

(* While a call is at work the run is over and every other call rests.     *)
LEMMA AloneFacts ==
    ASSUME SerialInv, TypeOK, NEW c \in Calls, CallActive(c)
    PROVE  /\ runPc = "done"
           /\ \A k \in Calls \ {c} : pc[k] \in {"idle", "done"}
           /\ \A k \in Decided \ {c} : Deleted(k)
<1>1. runPc = "done"
  BY DEF SerialInv, OneActs, CallActive, Idle
<1>2. \A k \in Calls \ {c} : pc[k] \in {"idle", "done"}
  BY DEF SerialInv, OneActs, CallActive, Idle, TypeOK
<1>3. \A k \in Decided \ {c} : Deleted(k)
  BY <1>2 DEF SerialInv, DecidedOnce, Deleting, Decided
<1> QED BY <1>1, <1>2, <1>3

(* The run's own steps.                                                    *)
LEMMA SerialRunStep == IInv /\ SerialInv /\ RunStep => SerialInv'
<1> SUFFICES ASSUME IInv, SerialInv, RunStep PROVE SerialInv'
  OBVIOUS
<1> USE DEF runVars, callVars, engineVars
<1>1. /\ runPc \notin {"done", "dead"} /\ runPc' # "dead" /\ UNCHANGED callVars
      /\ targetD' = targetD
      /\ \A c \in Calls : Recorded(c, "human_decision_accepted")'
                          <=> Recorded(c, "human_decision_accepted")
  BY CallsAssumption DEF RunStep, StartRun, WithoutCheckpoint, CreateCheckpoint, TruncateFile, FillFile,
         ConcludeRun, ReportRun, RunRaises, Recorded
<1>2. Decided = {} /\ Answered = {} /\ \A c \in Calls : pc[c] = "idle"
  BY <1>1, EarlyFacts
<1>3. Decided' = {} /\ Answered' = {}
  BY <1>1, <1>2 DEF Decided, Answered
<1>4. OneActs' /\ OneEntry' /\ DecidedOnce'
  BY <1>1, <1>2, <1>3 DEF OneActs, OneEntry, DecidedOnce, CallActive, Idle
<1>5. \A c \in Calls : Deciding(c)'
  BY <1>1, <1>2, <1>3 DEF SerialInv, Deciding
<1>6. FileFits'
  <2>1. CASE CreateCheckpoint
    <3>1. store' \in Checkpoint
      BY <2>1 DEF CreateCheckpoint, Checkpoint, Hash, StableHash, Bodies, IInv, TypeOK
    <3> QED BY <2>1, <3>1 DEF FileFits, CreateCheckpoint
  <2>2. CASE ~ CreateCheckpoint
    BY <1>2, <2>2 DEF SerialInv, FileFits, RunStep, StartRun, WithoutCheckpoint, TruncateFile,
           FillFile, ConcludeRun, ReportRun, RunRaises
  <2> QED BY <2>1, <2>2
<1>7. StatusFits'
  <2>1. \A c \in Calls : pc'[c] = "idle"
    BY <1>1, <1>2
  <2>2. status' = "checkpoint_required" =>
           runPc' \in {"conclude", "report", "done"} /\ disk' \in Checkpoint
    BY <1>2 DEF SerialInv, FileFits, StatusFits, RunStep, StartRun, WithoutCheckpoint,
           CreateCheckpoint, TruncateFile, FillFile, ConcludeRun, ReportRun, RunRaises
  <2>3. status' # "completed"
    BY <1>2 DEF SerialInv, StatusFits, IInv, TypeOK, RunStep, StartRun, WithoutCheckpoint,
           CreateCheckpoint, TruncateFile, FillFile, ConcludeRun, ReportRun, RunRaises
  <2> QED BY <1>3, <2>1, <2>2, <2>3 DEF StatusFits
<1> QED BY <1>4, <1>5, <1>6, <1>7 DEF SerialInv, Serial

(* A call begins: nobody else is at work, so a file it finds is one that   *)
(* nobody has decided about.                                               *)
LEMMA SerialBegin ==
    ASSUME IInv, SerialInv, NEW c \in Calls, CliBegin(c) \/ LibBegin(c)
    PROVE  SerialInv'
<1> USE DEF runVars, callVars, engineVars
<1>1. /\ pc[c] = "idle" /\ NobodyActive /\ runPc # "start"
      /\ \A k \in Calls : pc[k] # "idle" => (k \in CliCalls <=> c \in CliCalls)
  BY DEF SerialInv, Serial, CliBegin, LibBegin, MayBegin
<1>2. /\ UNCHANGED <<runPc, runState, store, disk, status, audit, targetD, verdict>>
      /\ pc'[c] \in {"open", "done"}
      /\ pc'[c] = "open" /\ c \in CliCalls => disk \in Checkpoint
      /\ \A k \in Calls \ {c} : pc'[k] = pc[k] /\ held'[k] = held[k]
  BY DEF CliBegin, LibBegin, IInv, TypeOK, LibCalls
<1>3. runPc = "done" /\ \A k \in Calls : pc[k] \in {"idle", "done"}
  BY <1>1 DEF SerialInv, OneActs, NobodyActive, RunActive, CallActive, Idle, IInv, TypeOK
<1>4. Decided' = Decided /\ Answered' = Answered /\ c \notin Decided
  BY <1>1, <1>2 DEF Decided, Answered, SerialInv, Deciding
<1>5. \A k \in Decided : Deleted(k)
  BY <1>3 DEF SerialInv, DecidedOnce, Deleting, Decided
<1>6. OneActs' /\ OneEntry'
  BY <1>1, <1>2, <1>3 DEF SerialInv, OneActs, OneEntry, CallActive, Idle
<1>7. \A k \in Calls : Deciding(k)'
  <2>1. \A k \in Calls \ {c} : Deciding(k)'
    BY <1>2, <1>3, <1>4 DEF SerialInv, Deciding, Recorded
  <2>2. disk \in Checkpoint => Decided = {}
    BY <1>5, NullsAssumption DEF Deleted
  <2>3. Deciding(c)'
    BY <1>1, <1>2, <1>4, <2>2 DEF SerialInv, Deciding, Recorded
  <2> QED BY <2>1, <2>3
<1>8. DecidedOnce'
  BY <1>2, <1>4, <1>5 DEF SerialInv, DecidedOnce, Deleted
<1>9. FileFits' /\ StatusFits'
  BY <1>2, <1>3, <1>4 DEF SerialInv, FileFits, StatusFits
<1> QED BY <1>6, <1>7, <1>8, <1>9 DEF SerialInv, Serial

(* A call's step: the run is over, the others rest, their verdicts stay.   *)
LEMMA SerialShape ==
    ASSUME IInv, SerialInv, NEW c \in Calls, CallStep(c)
    PROVE  /\ CallActive(c) /\ pc'[c] \notin {"idle", "dead"} /\ runPc = "done"
           /\ UNCHANGED <<runPc, runState, issued, decision>>
           /\ \A k \in Calls \ {c} :
                 /\ pc[k] \in {"idle", "done"} /\ pc'[k] = pc[k]
                 /\ held'[k] = held[k] /\ verdict'[k] = verdict[k]
                 /\ Recorded(k, "human_decision_accepted")'
                    <=> Recorded(k, "human_decision_accepted")
           /\ \A k \in Decided \ {c} : Deleted(k)
           /\ \A k \in Calls \ {c} : k \in Decided' <=> k \in Decided
<1> USE DEF runVars, callVars, engineVars
<1>1. /\ CallActive(c) /\ pc'[c] \notin {"idle", "dead"}
      /\ UNCHANGED <<runPc, runState, issued, decision>>
      /\ \A k \in Calls \ {c} :
            pc'[k] = pc[k] /\ held'[k] = held[k] /\ verdict'[k] = verdict[k]
  BY DEF CallStep, OpenMonitor, Fetch, Refuse, Decline, Accept, Attempt, LoadAnswers,
         LoadRaises, Finish, Report, DeleteCheckpoint, At, CallActive, Idle, IInv, TypeOK
<1>2. \A k \in Calls \ {c} : Recorded(k, "human_decision_accepted")'
                             <=> Recorded(k, "human_decision_accepted")
  BY DEF CallStep, OpenMonitor, Fetch, Refuse, Decline, Accept, Attempt, LoadAnswers,
         LoadRaises, Finish, Report, DeleteCheckpoint, Recorded
<1> QED BY <1>1, <1>2, AloneFacts DEF IInv, Decided

LEMMA SerialCallOrder ==
    ASSUME IInv, SerialInv, NEW c \in Calls, CallStep(c)
    PROVE  Serial' /\ OneActs' /\ OneEntry'
<1>1. Serial'
  BY DEF SerialInv, Serial
<1>2. OneActs'
  BY SerialShape DEF SerialInv, OneActs, CallActive, Idle
<1>3. OneEntry'
  BY SerialShape DEF SerialInv, OneEntry, CallActive, Idle
<1> QED BY <1>1, <1>2, <1>3

(* A step that decides nothing and deletes nothing: what remains to be     *)
(* seen is where it leaves its own call and status.json.                   *)
LEMMA UndecidedStep ==
    ASSUME IInv, SerialInv, NEW c \in Calls, CallStep(c),
           disk' = disk, targetD \subseteq targetD',
           Decided' = Decided, Answered' = Answered,
           store = NoCheckpoint /\ disk = NoCheckpoint => store' = NoCheckpoint,
           Deciding(c)', Deleting(c) => Deleting(c)',
           pc'[c] \in {"fetch", "decide", "attempt", "load"} => status' = "running",
           pc'[c] \in {"finish", "report", "unlink"} => status' # "checkpoint_required",
           status' = "checkpoint_required" => status = "checkpoint_required",
           status' = "completed" => Answered # {},
           status' = "closed" => Answered = {}
    PROVE  SerialInv'
<1> USE SerialShape
<1>1. \A k \in Calls : Deciding(k)'
  BY DEF SerialInv, Deciding
<1>2. DecidedOnce'
  <2>1. \A k \in Decided : Deleted(k) => Deleted(k)'
    BY DEF Deleted, LibCalls, SerialInv
  <2>2. \A k \in Decided : Deleting(k)' \/ Deleted(k)'
    BY <2>1 DEF SerialInv, DecidedOnce
  <2> QED BY <2>2 DEF SerialInv, DecidedOnce
<1>3. FileFits'
  BY DEF SerialInv, FileFits
<1>4. StatusFits'
  BY DEF SerialInv, StatusFits, CallActive, Idle
<1> QED BY <1>1, <1>2, <1>3, <1>4, SerialCallOrder DEF SerialInv

LEMMA SerialUndecided ==
    ASSUME IInv, SerialInv, NEW c \in Calls,
           \/ OpenMonitor(c) \/ Fetch(c) \/ Refuse(c) \/ Accept(c) \/ Attempt(c)
           \/ LoadRaises(c) \/ Finish(c) \/ Report(c)
    PROVE  SerialInv'
<1> USE DEF runVars, callVars, engineVars, At
<1>1. CallStep(c)
  BY DEF CallStep
<1>2. /\ disk' = disk /\ targetD \subseteq targetD'
      /\ ~ Fetch(c) => store' = store
  BY DEF OpenMonitor, Fetch, Refuse, Accept, Attempt, LoadRaises, Finish, Report
<1>3. Decided' = Decided /\ Answered' = Answered
  BY DEF OpenMonitor, Fetch, Refuse, Accept, Attempt, LoadRaises, Finish, Report,
         SerialInv, Deciding, Decided, Answered, IInv, TypeOK
<1>4. store = NoCheckpoint /\ disk = NoCheckpoint => store' = NoCheckpoint
  BY <1>2, NullsAssumption DEF Fetch, Found, LibCalls
<1>5. Deleting(c) => Deleting(c)'
  BY DEF OpenMonitor, Fetch, Refuse, Accept, Attempt, LoadRaises, Finish, Report,
         SerialInv, Deciding, Deleting, IInv, TypeOK
<1>6. /\ pc'[c] \in {"fetch", "decide", "attempt", "load"} => status' = "running"
      /\ pc'[c] \in {"finish", "report", "unlink"} => status' # "checkpoint_required"
      /\ status' = "checkpoint_required" => status = "checkpoint_required"
  BY DEF OpenMonitor, Fetch, Refuse, Accept, Attempt, LoadRaises, Finish, Report,
         SerialInv, StatusFits, IInv, TypeOK
<1>7. /\ status' = "completed" => Answered # {}
      /\ status' = "closed" => Answered = {}
  <2>1. CASE Finish(c)
    BY <2>1 DEF Finish, SerialInv, DecidedOnce, Decided, Answered
  <2>2. CASE ~ Finish(c)
    <3>1. status' \in {"running", status}
      BY <2>2 DEF OpenMonitor, Fetch, Refuse, Accept, Attempt, LoadRaises, Report
    <3> QED BY <3>1 DEF SerialInv, StatusFits
  <2> QED BY <2>1, <2>2
<1>8. Deciding(c)'
  <2>1. CASE Fetch(c)
    <3>1. verdict'[c] = "none" /\ pc'[c] = "decide" /\ verdict[c] = "none"
          /\ ~ Recorded(c, "human_decision_accepted")'
          /\ held'[c] = Found(c) /\ pc[c] = "fetch"
      BY <2>1 DEF Fetch, SerialInv, Deciding, Recorded, IInv, TypeOK
    <3>2. ASSUME held'[c] # NoCheckpoint PROVE Decided = {}
      <4>1. CASE c \in CliCalls
        BY <3>1, <4>1 DEF SerialInv, Deciding
      <4>2. CASE c \notin CliCalls
        <5>1. ~ (store = NoCheckpoint /\ disk = NoCheckpoint)
          BY <3>1, <3>2, <4>2, NullsAssumption DEF Found
        <5>2. c \notin Decided
          BY <3>1 DEF Decided
        <5>3. \A k \in Decided : k \in LibCalls
          BY <3>1, <4>2 DEF SerialInv, OneEntry, Deciding, Decided, LibCalls
        <5> QED BY <1>1, <5>1, <5>2, <5>3, SerialShape DEF Deleted
      <4> QED BY <4>1, <4>2
    <3> QED BY <1>3, <3>1, <3>2 DEF Deciding
  <2>2. CASE ~ Fetch(c)
    <3>1. held' = held
      BY <2>2 DEF OpenMonitor, Refuse, Accept, Attempt, LoadRaises, Finish, Report
    <3> QED BY <1>3, <2>2, <3>1 DEF OpenMonitor, Refuse, Accept, Attempt, LoadRaises,
               Finish, Report, SerialInv, Deciding, Decided, Recorded, IInv, TypeOK
  <2> QED BY <2>1, <2>2
<1> HIDE DEF runVars, callVars, engineVars, At
<1> QED BY <1>1, <1>2, <1>3, <1>4, <1>5, <1>6, <1>7, <1>8, UndecidedStep

(* A decision: it was open until now, and only this call deletes.          *)
LEMMA SerialDecides ==
    ASSUME IInv, SerialInv, NEW c \in Calls, Decline(c) \/ LoadAnswers(c)
    PROVE  SerialInv'
<1> USE DEF runVars, callVars, engineVars, At
<1>1. CallStep(c)
  BY DEF CallStep
<1>2. /\ UNCHANGED <<disk, store, held>> /\ status' = "running"
      /\ pc'[c] \in {"unlink", "finish"} /\ pc[c] \in {"decide", "load"}
  BY DEF Decline, LoadAnswers, SerialInv, StatusFits, IInv, TypeOK
<1>3. held[c] # NoCheckpoint
  BY NullsAssumption DEF Decline, LoadAnswers, IInv, LoadersAreArmed, Armed
<1>4. Decided = {} /\ Answered = {}
  BY <1>2, <1>3 DEF SerialInv, Deciding, Decided, Answered
<1>5. Decided' = {c} /\ Deleting(c)'
  <2>1. c \in Decided' /\ Deleting(c)'
    BY DEF Decline, LoadAnswers, Decided, Deleting, IInv, TypeOK
  <2>2. \A k \in Decided' : k = c
    BY <1>1, <1>4, SerialShape DEF Decided
  <2> QED BY <2>1, <2>2
<1>6. \A k \in Calls : Deciding(k)'
  <2>1. \A k \in Calls \ {c} : Deciding(k)'
    BY <1>1, SerialShape DEF SerialInv, Deciding
  <2>2. Deciding(c)'
    BY <1>2, <1>5 DEF Deciding
  <2> QED BY <2>1, <2>2
<1>7. DecidedOnce' /\ FileFits'
  BY <1>1, <1>2, <1>5, SerialShape DEF SerialInv, DecidedOnce, FileFits
<1>8. StatusFits'
  <2>1. \A k \in Answered' : \E b \in targetD' : b.call = k
    <3>1. \A k \in Answered' : k = c
      BY <1>5 DEF Answered, Decided
    <3>2. c \in Answered' => Batch(c) \in targetD' /\ Batch(c).call = c
      BY DEF Decline, LoadAnswers, Answered, Batch, IInv, TypeOK
    <3> QED BY <3>1, <3>2
  <2>2. \A k \in Calls \ {c} : pc'[k] \in {"idle", "done"}
    BY <1>1, SerialShape
  <2> QED BY <1>2, <2>1, <2>2 DEF StatusFits
<1> QED BY <1>1, <1>6, <1>7, <1>8, SerialCallOrder DEF SerialInv

(* A decision deletes the file and what a later call could fetch.          *)
LEMMA SerialDeletes ==
    ASSUME IInv, SerialInv, NEW c \in Calls, DeleteCheckpoint(c)
    PROVE  SerialInv'
<1> USE DEF runVars, callVars, engineVars, At
<1>1. CallStep(c)
  BY DEF CallStep
<1>2. /\ UNCHANGED <<held, verdict, status, audit, targetD>> /\ disk' = NoCheckpoint
      /\ pc[c] = "unlink" /\ pc'[c] \in {"done", "finish"}
      /\ store' = IF c \in LibCalls THEN NoCheckpoint ELSE store
      /\ verdict[c] = "completed" => pc'[c] = "done"
  BY DEF DeleteCheckpoint, IInv, TypeOK
<1>3. c \in Decided /\ Decided' = Decided /\ Answered' = Answered
  BY <1>2 DEF SerialInv, Deciding, Decided, Answered
<1>4. \A k \in Calls : Deciding(k)'
  <2>1. \A k \in Calls \ {c} : Deciding(k)'
    BY <1>1, <1>3, SerialShape DEF SerialInv, Deciding
  <2>2. Deciding(c)'
    BY <1>2 DEF Deciding
  <2> QED BY <2>1, <2>2
<1>5. DecidedOnce'
  BY <1>2, <1>3 DEF SerialInv, DecidedOnce, Deleted, LibCalls
<1>6. FileFits'
  BY <1>1, <1>3, SerialShape DEF FileFits
<1>7. StatusFits'
  <2>1. status # "checkpoint_required"
    BY <1>2 DEF SerialInv, StatusFits
  <2>2. \A k \in Calls \ {c} : pc'[k] \in {"idle", "done"}
    BY <1>1, SerialShape
  <2> QED BY <1>2, <1>3, <2>1, <2>2 DEF SerialInv, StatusFits
<1> QED BY <1>1, <1>4, <1>5, <1>6, <1>7, SerialCallOrder DEF SerialInv

(* Nothing dies; a deployment is not seen; an edit needs a file.           *)
LEMMA SerialEnvironment ==
    ASSUME IInv, SerialInv,
           \/ \E c \in Calls : CallDies(c)
           \/ LibraryRestarts \/ DeployTemplate \/ EditCheckpoint
    PROVE  SerialInv'
<1> USE DEF runVars, callVars, engineVars
<1>1. DeployTemplate \/ EditCheckpoint
  BY DEF SerialInv, Serial, CallDies, LibraryRestarts
<1>2. UNCHANGED <<runPc, runState, pc, held, verdict, status, audit, targetD>>
  BY <1>1 DEF DeployTemplate, EditCheckpoint
<1>3. \A cp \in Checkpoint : [cp EXCEPT !.body = "edited"] \in Checkpoint
  BY DEF Checkpoint, Bodies
<1>4. /\ store = NoCheckpoint => store' = NoCheckpoint
      /\ disk = NoCheckpoint => disk' = NoCheckpoint
      /\ store \in Checkpoint => store' \in Checkpoint
      /\ disk \in Checkpoint => disk' \in Checkpoint
  BY <1>1, <1>3, NullsAssumption DEF DeployTemplate, EditCheckpoint
<1>5. Decided' = Decided /\ Answered' = Answered
  BY <1>2 DEF Decided, Answered
<1>6. OneActs' /\ OneEntry' /\ \A c \in Calls : Deciding(c)'
  BY <1>2, <1>5 DEF SerialInv, OneActs, OneEntry, Deciding, CallActive, Recorded
<1>7. DecidedOnce'
  BY <1>2, <1>4, <1>5 DEF SerialInv, DecidedOnce, Deleting, Deleted
<1>8. FileFits' /\ StatusFits'
  BY <1>2, <1>4, <1>5 DEF SerialInv, FileFits, StatusFits
<1> QED BY <1>6, <1>7, <1>8 DEF SerialInv, Serial

LEMMA SerialStutter == SerialInv /\ UNCHANGED vars => SerialInv'
BY DEF SerialInv, Serial, OneActs, OneEntry, Deciding, DecidedOnce, Deleting, Deleted,
       FileFits, StatusFits, CallActive, Recorded, Decided, Answered,
       vars, runVars, callVars, engineVars

LEMMA SerialInductive == Serial /\ Spec => [](IInv /\ SerialInv)
<1>1. ASSUME IInv, SerialInv, NEW c \in Calls, CallStep(c) PROVE SerialInv'
  BY <1>1, SerialUndecided, SerialDecides, SerialDeletes DEF CallStep
<1>2. IInv /\ SerialInv /\ [Next]_vars => SerialInv'
  BY <1>1, SerialRunStep, SerialBegin, SerialEnvironment, SerialStutter
     DEF Next, Terminated
<1> QED BY Inductive, SerialInit, <1>2, PTL DEF Spec

(* With calls made one after the other, none of them dying: the file an    *)
(* approval needs is there exactly as long as nobody has decided, however  *)
(* many calls were refused and however often D failed.                     *)
THEOREM PendingWhileUndecided == Serial /\ Spec => []PendingUntilDecided
<1>1. IInv /\ SerialInv => PendingUntilDecided
  <2> SUFFICES ASSUME IInv, SerialInv, NobodyActive, runState = "checkpoint_required"
               PROVE  disk \in Checkpoint <=> Decided = {}
    BY DEF PendingUntilDecided
  <2>1. runPc = "done" /\ \A c \in Calls : pc[c] \in {"idle", "done"}
    BY DEF SerialInv, OneActs, FileFits, NobodyActive, RunActive, CallActive, Idle, IInv,
           TypeOK
  <2>2. \A c \in Decided : disk = NoCheckpoint
    BY <2>1 DEF SerialInv, DecidedOnce, Deleting, Deleted, Decided
  <2> QED BY <2>1, <2>2, NullsAssumption DEF SerialInv, FileFits
<1> QED BY SerialInductive, <1>1, PTL

(* And status.json tells the truth about system D and the checkpoint.      *)
THEOREM StatusTellsTheTruth == Serial /\ Spec => []StatusIsTruthful
<1>1. SerialInv => StatusIsTruthful
  BY DEF SerialInv, StatusFits, StatusIsTruthful
<1> QED BY SerialInductive, <1>1, PTL

(* Of calls in sequence at most one is answered by D: where LoadedOnce     *)
(* fails, calls overlap, die or use both entries.                          *)
THEOREM SequenceLoadsOnce == Serial /\ Spec => []LoadedOnce
<1>1. ASSUME SerialInv PROVE LoadedOnce
  <2>1. \A c, k \in Answered : c = k
    BY <1>1 DEF SerialInv, DecidedOnce, Answered, Decided
  <2>2. CASE Answered = {}
    BY <2>2, FS_EmptySet DEF LoadedOnce
  <2>3. CASE Answered # {}
    <3>1. PICK c : Answered = {c}
      BY <2>1, <2>3
    <3>2. Cardinality(Answered) = 1
      BY <3>1, FS_Singleton
    <3> QED BY <3>2 DEF LoadedOnce
  <2> QED BY <2>2, <2>3
<1> QED BY SerialInductive, <1>1, PTL

LEMMA OnlyAcceptAccepts ==
    ASSUME NEW c \in Calls, [Next]_vars, Recorded(c, "human_decision_accepted")'
    PROVE  Recorded(c, "human_decision_accepted") \/ Accept(c)
<1>1. CASE UNCHANGED audit
  BY <1>1 DEF Recorded
<1>2. CASE RunStep
  BY <1>2 DEF RunStep, StartRun, WithoutCheckpoint, CreateCheckpoint, TruncateFile, FillFile,
              ConcludeRun, ReportRun, RunRaises, Recorded
<1>3. ASSUME NEW k \in Calls, CliBegin(k) \/ LibBegin(k) PROVE UNCHANGED audit
  BY <1>3 DEF CliBegin, LibBegin
<1>4. ASSUME NEW k \in Calls, CallStep(k), ~ Accept(k)
      PROVE  Recorded(c, "human_decision_accepted")
  BY <1>4 DEF CallStep, OpenMonitor, Fetch, Refuse, Decline, Attempt, LoadAnswers, LoadRaises,
              Finish, Report, DeleteCheckpoint, Recorded
<1>5. ASSUME NEW k \in Calls, Accept(k), k # c PROVE Recorded(c, "human_decision_accepted")
  BY <1>5 DEF Accept, Recorded
<1>6. \A k \in Calls : CallDies(k) => UNCHANGED audit
  BY DEF CallDies
<1>7. CASE LibraryRestarts \/ DeployTemplate \/ EditCheckpoint \/ Terminated \/ UNCHANGED vars
  BY <1>1, <1>7 DEF LibraryRestarts, DeployTemplate, EditCheckpoint, Terminated, vars
<1> QED BY <1>1, <1>2, <1>3, <1>4, <1>5, <1>6, <1>7 DEF Next

(* And a rejection keeps every later call of the sequence from approving.  *)
THEOREM SequenceKeepsRejections == Serial /\ Spec => RejectionPreventsLaterApproval
<1>1. ASSUME SerialInv, [Next]_vars, NEW k \in Calls, verdict[k] = "closed", NEW c \in Calls,
             ~ Recorded(c, "human_decision_accepted"), Recorded(c, "human_decision_accepted")'
      PROVE  FALSE
  <2>1. Accept(c)
    BY <1>1, OnlyAcceptAccepts
  <2>2. pc[c] = "decide" /\ held[c] # NoCheckpoint
    BY <2>1 DEF Accept, At
  <2>3. Decided = {}
    BY <1>1, <2>2 DEF SerialInv, Deciding
  <2> QED BY <1>1, <2>3 DEF Decided
<1> DEFINE Kept == \A c \in Calls : (\E k \in Calls : verdict[k] = "closed" /\ pc[k] = "done")
                      /\ ~ Recorded(c, "human_decision_accepted")
                      => ~ Recorded(c, "human_decision_accepted")'
<1>2. IInv /\ SerialInv /\ [Next]_vars => [Kept]_vars
  BY <1>1
<1> QED BY SerialInductive, <1>2, PTL DEF Spec, RejectionPreventsLaterApproval

-----------------------------------------------------------------------------
(* The refinement: what the gate of WorkflowGate.tla is made of here.      *)
Granted == {<<c, decision[c].ids>> : c \in Accepted}
Received == {<<b.call, b.ids>> : b \in targetD}
Offered == IF issued = NoCheckpoint THEN {} ELSE issued.ids
GateNow == IF issued = NoCheckpoint THEN "shut"
           ELSE IF Decided = {} THEN "open" ELSE "closed"

LEMMA GateQuiet ==
    ASSUME issued' = issued, Decided' = Decided, Granted' = Granted, Received' = Received
    PROVE  UNCHANGED Gate!vars
BY DEF Gate!vars, Granted, Accepted, Received

(* The run's creation of the checkpoint is the offer; nothing else it does *)
(* is seen at the gate.                                                    *)
LEMMA GateRunStep == IInv /\ SerialInv /\ RunStep => [Gate!Next]_(Gate!vars)
<1> SUFFICES ASSUME IInv, SerialInv, RunStep PROVE [Gate!Next]_(Gate!vars)
  OBVIOUS
<1> USE DEF runVars, callVars, engineVars
<1>1. /\ UNCHANGED <<verdict, decision, targetD>>
      /\ \A c \in Calls : Recorded(c, "human_decision_accepted")'
                          <=> Recorded(c, "human_decision_accepted")
  BY CallsAssumption DEF RunStep, StartRun, WithoutCheckpoint, CreateCheckpoint,
     TruncateFile, FillFile, ConcludeRun, ReportRun, RunRaises, Recorded
<1>2. Accepted' = Accepted
  BY <1>1 DEF Accepted
<1>3. Decided' = Decided /\ Granted' = Granted /\ Received' = Received
  BY <1>1, <1>2 DEF Decided, Granted, Received
<1>4. CASE CreateCheckpoint
  <2>1. issued = NoCheckpoint /\ Decided = {}
    BY <1>4, EarlyFacts DEF IInv, NothingIssuedEarly, CreateCheckpoint
  <2>2. PICK ids \in (SUBSET Ids) \ {{}} :
           issued' = [ids |-> ids, body |-> "reconciled",
                      hash |-> StableHash(ids, "reconciled", loaded)]
    BY <1>4 DEF CreateCheckpoint
  <2>3. issued' # NoCheckpoint /\ issued'.ids = ids /\ ids # {}
    BY <1>4, <2>2, NullsAssumption, RunStepType
       DEF IInv, TypeOK, Checkpoint, Hash, Bodies, StableHash
  <2>4. GateNow = "shut" /\ GateNow' = "open" /\ Offered' = ids
    BY <1>3, <2>1, <2>3 DEF GateNow, Offered
  <2>5. Gate!Offer(ids)
    BY <1>3, <2>4 DEF Gate!Offer, GateNow, Offered, Granted, Accepted, Received
  <2> QED BY <2>5 DEF Gate!Next, Gate!Offer
<1>5. CASE ~ CreateCheckpoint
  <2>1. issued' = issued
    BY <1>5 DEF RunStep, StartRun, WithoutCheckpoint, TruncateFile, FillFile, ConcludeRun,
           ReportRun, RunRaises
  <2> QED BY <1>3, <2>1, GateQuiet
<1> QED BY <1>4, <1>5

(* A call that begins has not been accepted: its new decision grants       *)
(* nothing.                                                                *)
LEMMA GateBegin ==
    ASSUME IInv, SerialInv, NEW c \in Calls, CliBegin(c) \/ LibBegin(c)
    PROVE  UNCHANGED Gate!vars
<1> USE DEF runVars, callVars, engineVars
<1>1. /\ UNCHANGED <<issued, verdict, audit, targetD>>
      /\ c \notin Accepted
      /\ \A k \in Calls \ {c} : decision'[k] = decision[k]
  BY DEF CliBegin, LibBegin, MayBegin, SerialInv, Deciding, Accepted, IInv, TypeOK
<1>2. Accepted' = Accepted /\ Decided' = Decided /\ Received' = Received
  BY <1>1 DEF Accepted, Recorded, Decided, Received
<1>3. Granted' = Granted
  BY <1>1, <1>2 DEF Granted, Accepted
<1> QED BY <1>1, <1>2, <1>3, GateQuiet

(* Accepting is a grant while the gate is open.                            *)
LEMMA GateAccept ==
    ASSUME IInv, SerialInv, NEW c \in Calls, Accept(c)
    PROVE  Gate!Next
<1> USE DEF runVars, callVars, engineVars, At
<1>1. Armed(c)'
  BY AcceptArms
<1>2. /\ UNCHANGED <<held, decision, issued, verdict, targetD>>
      /\ pc[c] = "decide" /\ held[c] # NoCheckpoint
      /\ audit' = audit \cup {<<c, "human_decision_accepted">>}
  BY DEF Accept
<1>3. Decided = {} /\ c \notin Accepted
  BY <1>2 DEF SerialInv, Deciding, Accepted
<1>4. issued \in Checkpoint /\ issued # NoCheckpoint
  BY <1>2, NullsAssumption DEF IInv, TypeOK, CopiesDescend, Descends
<1>5. decision[c].ids \subseteq issued.ids /\ issued.ids \in SUBSET Ids
  BY <1>1, <1>2, <1>4 DEF Armed, Checkpoint
<1>6. Accepted' = Accepted \cup {c}
  BY <1>2 DEF Accepted, Recorded
<1>7. Granted' = Granted \cup {<<c, decision[c].ids>>}
  BY <1>2, <1>6 DEF Granted, Accepted
<1>8. \A g \in Granted : g[1] # c
  BY <1>3 DEF Granted
<1>9. Decided' = Decided /\ Received' = Received
  BY <1>2 DEF Decided, Received
<1>10. Gate!Grant(c, decision[c].ids)
  BY <1>2, <1>3, <1>4, <1>5, <1>7, <1>8, <1>9
     DEF Gate!Grant, Granted, Accepted, Received
<1> QED BY <1>5, <1>10 DEF Gate!Next, Gate!Grant

(* What D receives was granted, and the gate is still open when it does.   *)
LEMMA GateLoad ==
    ASSUME IInv, SerialInv, NEW c \in Calls, LoadAnswers(c) \/ LoadRaises(c)
    PROVE  [Gate!Next]_(Gate!vars)
<1> USE DEF runVars, callVars, engineVars, At
<1>1. /\ UNCHANGED <<held, decision, issued, audit>> /\ pc[c] = "load"
      /\ targetD' = targetD \cup {Batch(c)} \/ (targetD' = targetD /\ LoadRaises(c))
  BY DEF LoadAnswers, LoadRaises
<1>2. Armed(c)
  BY <1>1 DEF IInv, LoadersAreArmed
<1>3. issued \in Checkpoint /\ issued # NoCheckpoint
  BY <1>2, NullsAssumption DEF IInv, CopiesDescend, Descends, Armed
<1>4. Decided = {}
  BY <1>1, <1>2, NullsAssumption DEF SerialInv, Deciding, Armed
<1>5. Accepted' = Accepted /\ c \in Accepted
  BY <1>1, <1>2 DEF Accepted, Recorded, Armed
<1>6. Granted' = Granted /\ <<c, decision[c].ids>> \in Granted
  BY <1>1, <1>5 DEF Granted, Accepted
<1>7. CASE targetD' = targetD \cup {Batch(c)}
  <2>1. Received' = Received \cup {<<c, decision[c].ids>>}
    <3>1. Batch(c).call = c /\ Batch(c).ids = decision[c].ids
      BY DEF Batch
    <3> QED BY <1>7, <3>1 DEF Received
  <2>2. Gate!Load(<<c, decision[c].ids>>)
    BY <1>1, <1>3, <1>4, <1>6, <2>1 DEF Gate!Load, Granted, Accepted, Received
  <2> QED BY <1>6, <2>2 DEF Gate!Next, Gate!Load, Granted, Accepted
<1>8. CASE targetD' = targetD /\ LoadRaises(c)
  <2>1. Decided' = Decided /\ Received' = Received
    BY <1>4, <1>8 DEF LoadRaises, Decided, Received, IInv, TypeOK
  <2> QED BY <1>1, <1>6, <2>1, GateQuiet
<1> QED BY <1>1, <1>7, <1>8

(* A rejection closes the gate.                                            *)
LEMMA GateDecline ==
    ASSUME IInv, SerialInv, NEW c \in Calls, Decline(c)
    PROVE  Gate!Next
<1> USE DEF runVars, callVars, engineVars, At
<1>1. /\ UNCHANGED <<decision, issued, targetD>>
      /\ pc[c] = "decide" /\ held[c] # NoCheckpoint
      /\ audit' = audit \cup {<<c, "human_decision_refused">>}
      /\ verdict' = [verdict EXCEPT ![c] = "closed"]
  BY DEF Decline
<1>2. issued # NoCheckpoint /\ Decided = {}
  BY <1>1, NullsAssumption DEF IInv, TypeOK, CopiesDescend, Descends, SerialInv, Deciding
<1>3. Decided' # {}
  BY <1>1 DEF Decided, IInv, TypeOK
<1>4. Accepted' = Accepted /\ Received' = Received
  BY <1>1 DEF Accepted, Recorded, Received
<1>5. Granted' = Granted
  BY <1>1, <1>4 DEF Granted, Accepted
<1>6. Gate!Reject
  BY <1>1, <1>2, <1>3, <1>4, <1>5 DEF Gate!Reject, Granted, Accepted, Received
<1> QED BY <1>6 DEF Gate!Next

(* No other step of a call changes the gate.                               *)
LEMMA GateOther ==
    ASSUME IInv, SerialInv, NEW c \in Calls,
           \/ OpenMonitor(c) \/ Fetch(c) \/ Refuse(c) \/ Attempt(c)
           \/ Finish(c) \/ Report(c) \/ DeleteCheckpoint(c)
    PROVE  UNCHANGED Gate!vars
<1> USE DEF runVars, callVars, engineVars, At
<1>1. /\ UNCHANGED <<decision, issued, targetD>>
      /\ \A k \in Calls : Recorded(k, "human_decision_accepted")'
                          <=> Recorded(k, "human_decision_accepted")
  BY DEF OpenMonitor, Fetch, Refuse, Attempt, Finish, Report, DeleteCheckpoint, Recorded
<1>2. Decided' = Decided
  BY DEF OpenMonitor, Fetch, Refuse, Attempt, Finish, Report, DeleteCheckpoint,
         SerialInv, Deciding, Decided, IInv, TypeOK
<1>3. Accepted' = Accepted /\ Received' = Received
  BY <1>1 DEF Accepted, Received
<1>4. Granted' = Granted
  BY <1>1, <1>3 DEF Granted, Accepted
<1> QED BY <1>1, <1>2, <1>3, <1>4, GateQuiet

LEMMA GateEnvironment ==
    ASSUME SerialInv,
           \/ \E c \in Calls : CallDies(c)
           \/ LibraryRestarts \/ DeployTemplate \/ EditCheckpoint
           \/ UNCHANGED vars
    PROVE  UNCHANGED Gate!vars
<1> USE DEF runVars, callVars, engineVars, vars
<1>1. UNCHANGED <<issued, verdict, decision, audit, targetD>>
  BY DEF SerialInv, Serial, CallDies, LibraryRestarts, DeployTemplate, EditCheckpoint
<1>2. Accepted' = Accepted /\ Decided' = Decided /\ Received' = Received
  BY <1>1 DEF Accepted, Recorded, Decided, Received
<1>3. Granted' = Granted
  BY <1>1, <1>2 DEF Granted, Accepted
<1> QED BY <1>1, <1>2, <1>3, GateQuiet

(* Calls made one after the other through one entry implement the gate:    *)
(* records are offered once, D receives only what was granted while the    *)
(* gate was open, and a rejection or an answered load closes it for good.  *)
THEOREM SerialImplementsGate == Serial /\ Spec => ImplementsGate
<1>1. Init => Gate!Init
  BY DEF Init, Gate!Init, Decided, Recorded
<1>2. ASSUME IInv, SerialInv, NEW c \in Calls, CallStep(c)
      PROVE  [Gate!Next]_(Gate!vars)
  BY <1>2, GateAccept, GateLoad, GateDecline, GateOther DEF CallStep
<1>3. IInv /\ SerialInv /\ [Next]_vars => [Gate!Next]_(Gate!vars)
  BY <1>2, GateRunStep, GateBegin, GateEnvironment DEF Next, Terminated
<1> QED BY SerialInductive, <1>1, <1>3, PTL DEF Spec, ImplementsGate, Gate!Spec
=============================================================================
