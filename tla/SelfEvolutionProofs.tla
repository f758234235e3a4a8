------------------------ MODULE SelfEvolutionProofs ------------------------
(***************************************************************************)
(* Proofs about improvement candidates and their gate, for any number of   *)
(* people, contents, versions, commands and troubles.                      *)
(***************************************************************************)
EXTENDS SelfEvolution, TLAPS

Decisions == {"approved", "rejected"}

Record(decision, w) == [decision |-> decision, reviewer |-> w]

(* No decision and no record, or one record of the decision.               *)
WellFormed(c) ==
    \/ c.decision = "pending" /\ c.records = <<>>
    \/ /\ c.decision \in Decisions
       /\ \E w \in Workers : c.records = <<Record(c.decision, w)>>

(* What the job of a command that runs is about to write.                  *)
JobFits(w) ==
    /\ job[w].kind \in {"propose"} \cup Decisions
    /\ job[w].overwrite \in BOOLEAN
    /\ job[w].new \in Candidates
    /\ job[w].kind = "propose" => job[w].new.decision = "pending" /\ job[w].new.records = <<>>
    /\ job[w].kind # "propose" =>
          /\ job[w].new.decision = job[w].kind
          /\ job[w].new.records = <<Record(job[w].kind, w)>>

FileFits == Readable => file \in Candidates /\ WellFormed(file)

Base ==
    /\ file \in {Missing, Empty, Torn} \cup Candidates
    /\ pc \in [Workers -> {"idle", "truncate", "fill", "audit"}]
    /\ job \in [Workers -> Jobs]
    /\ FileFits
    /\ \A w \in Workers : pc[w] # "idle" => JobFits(w)

-----------------------------------------------------------------------------
(* What the operators on candidates return.                                *)
LEMMA RecordsOfOne ==
    ASSUME NEW d \in Decisions, NEW w \in Workers
    PROVE  /\ <<Record(d, w)>> \in UNION {[1..n -> Records] : n \in 0..2}
           /\ <<>> \in UNION {[1..n -> Records] : n \in 0..2}
           /\ Append(<<>>, Record(d, w)) = <<Record(d, w)>>
  <1>1. Record(d, w) \in Records
    BY DEF Record, Records, Decisions
  <1>2. <<Record(d, w)>> \in [1..1 -> Records]
    BY <1>1
  <1>3. <<>> \in [1..0 -> Records]
    BY SMT
  <1>4. 1 \in 0..2 /\ 0 \in 0..2
    BY SMT
  <1>5. Append(<<>>, Record(d, w)) = <<Record(d, w)>>
    BY SMT
  <1> QED BY <1>2, <1>3, <1>4, <1>5

LEMMA NoRecords == <<>> \in UNION {[1..n -> Records] : n \in 0..2}
  <1>1. <<>> \in [1..0 -> Records] /\ 0 \in 0..2
    BY SMT
  <1> QED BY <1>1

LEMMA DecideGives ==
    ASSUME NEW c \in Candidates, WellFormed(c), NEW d \in Decisions, NEW w \in Workers,
           NEW new \in Decide(c, d, w)
    PROVE  /\ new \in Candidates
           /\ new.decision = d /\ new.records = <<Record(d, w)>>
  <1>1. c.decision = "pending" /\ c.records = <<>>
    BY DEF Decide, WellFormed, Decisions
  <1>2. new = [c EXCEPT !.decision = d, !.records = Append(@, Record(d, w))]
    BY <1>1 DEF Decide, Record
  <1>3. new = [c EXCEPT !.decision = d, !.records = <<Record(d, w)>>]
    BY <1>1, <1>2, RecordsOfOne DEF Candidates
  <1>4. <<Record(d, w)>> \in UNION {[1..n -> Records] : n \in 0..2}
    BY RecordsOfOne
  <1> DEFINE R == <<Record(d, w)>>
  <1>5. R \in UNION {[1..n -> Records] : n \in 0..2} /\ new = [c EXCEPT !.decision = d, !.records = R]
    BY <1>3, <1>4
  <1> HIDE DEF R
  <1>6. new \in Candidates /\ new.decision = d /\ new.records = R
    BY <1>5 DEF Candidates, Decisions
  <1> QED BY <1>6 DEF R

LEMMA ProposalGives ==
    ASSUME NEW text \in Contents, NEW from \in Versions
    PROVE  /\ Proposal(text, from) \in Candidates
           /\ Proposal(text, from).decision = "pending" /\ Proposal(text, from).records = <<>>
  <1>1. [text |-> text, from |-> from] \in Substance
    BY DEF Substance
  <1> QED BY <1>1, NoRecords DEF Proposal, Candidates

(* Redaction changes the text and nothing else.                            *)
LEMMA WrittenGives ==
    ASSUME NEW c \in Candidates
    PROVE  /\ Written(c) \in Candidates /\ Written(c).kind = "candidate"
           /\ Written(c).decision = c.decision /\ Written(c).records = c.records
           /\ Written(c).hash = c.hash
  <1> DEFINE T == Redact(c.substance.text)
             S == [c.substance EXCEPT !.text = T]
  <1>1. c.substance \in Substance
    BY DEF Candidates
  <1>2. c.substance.text \in Contents \cup {"redacted"}
    BY <1>1 DEF Substance
  <1>3. T \in Contents \cup {"redacted"}
    BY <1>2 DEF Redact
  <1>4. Written(c) = [c EXCEPT !.substance = S]
    BY <1>1 DEF Written, Candidates, Substance
  <1> HIDE DEF T
  <1>5. S \in Substance
    BY <1>1, <1>3 DEF Substance
  <1> HIDE DEF S
  <1> QED BY <1>4, <1>5 DEF Candidates

(* Nor does an edit by hand touch the review or the hash.                  *)
LEMMA EditGives ==
    ASSUME Base, EditByHand
    PROVE  /\ Readable /\ file \in Candidates /\ file' \in Candidates
           /\ file'.kind = "candidate"
           /\ file'.decision = file.decision /\ file'.records = file.records
           /\ file'.hash = file.hash
  <1>1. Readable /\ file \in Candidates
    BY DEF EditByHand, Base, FileFits
  <1>2. CASE file' = [file EXCEPT !.provenance = "approved"]
    BY <1>1, <1>2 DEF Candidates
  <1>3. CASE \E text \in Contents : file' = [file EXCEPT !.substance.text = text]
    <2>1. PICK text \in Contents : file' = [file EXCEPT !.substance.text = text]
      BY <1>3
    <2> DEFINE S == [file.substance EXCEPT !.text = text]
    <2>2. file.substance \in Substance
      BY <1>1 DEF Candidates
    <2>3. S \in Substance
      BY <2>2 DEF Substance
    <2>4. file' = [file EXCEPT !.substance = S]
      BY <2>1, <1>1
    <2> HIDE DEF S
    <2> QED BY <1>1, <2>3, <2>4 DEF Candidates
  <1>4. CASE file' = [file EXCEPT !.status = "superseded"]
    BY <1>1, <1>4 DEF Candidates
  <1> QED BY <1>1, <1>2, <1>3, <1>4 DEF EditByHand
-----------------------------------------------------------------------------
(* Begin, for any work that fits.                                          *)
LEMMA BeginKeepsBase ==
    ASSUME Base, NEW w \in Workers, NEW work \in Jobs, Begin(w, work), file' = file,
           work.kind \in {"propose"} \cup Decisions, work.overwrite \in BOOLEAN,
           work.new \in Candidates,
           work.kind = "propose" => work.new.decision = "pending" /\ work.new.records = <<>>,
           work.kind # "propose" =>
               work.new.decision = work.kind /\ work.new.records = <<Record(work.kind, w)>>
    PROVE  Base'
  <1>1. pc' = [pc EXCEPT ![w] = "truncate"] /\ job' = [job EXCEPT ![w] = work]
    BY DEF Begin, Goto
  <1>2. pc' \in [Workers -> {"idle", "truncate", "fill", "audit"}] /\ job' \in [Workers -> Jobs]
    BY <1>1 DEF Base
  <1>3. job'[w] = work
    BY <1>1 DEF Base
  <1>4. ASSUME NEW v \in Workers, pc'[v] # "idle" PROVE JobFits(v)'
    <2>1. CASE v = w
      BY <1>3, <2>1 DEF JobFits
    <2>2. CASE v # w
      <3>1. pc'[v] = pc[v] /\ job'[v] = job[v]
        BY <1>1, <2>2 DEF Base
      <3> QED BY <3>1, <1>4 DEF Base, JobFits
    <2> QED BY <2>1, <2>2
  <1>5. FileFits'
    BY DEF Base, FileFits, Readable
  <1> QED BY <1>2, <1>4, <1>5 DEF Base

LEMMA ProposeKeepsBase ==
    ASSUME Base, NEW w \in Workers, Propose(w) PROVE Base'
  <1>1. PICK text \in Contents, from \in Versions, overwrite \in BOOLEAN :
            Begin(w, [kind |-> "propose", overwrite |-> overwrite, new |-> Proposal(text, from)])
    BY DEF Propose
  <1> DEFINE work == [kind |-> "propose", overwrite |-> overwrite, new |-> Proposal(text, from)]
  <1>2. work.kind = "propose" /\ work.overwrite = overwrite /\ work.new = Proposal(text, from)
    OBVIOUS
  <1>3. work.new \in Candidates /\ work.new.decision = "pending" /\ work.new.records = <<>>
    BY ProposalGives, <1>2
  <1>4. work \in Jobs
    BY <1>3, <1>2 DEF Jobs
  <1>5. file' = file /\ Begin(w, work)
    BY <1>1 DEF Propose
  <1> HIDE DEF work
  <1> QED BY <1>2, <1>3, <1>4, <1>5, BeginKeepsBase

LEMMA ReviewKeepsBase ==
    ASSUME Base, NEW w \in Workers, Review(w) PROVE Base'
  <1>1. PICK decision \in Decisions : \E new \in Decide(file, decision, w) :
            Begin(w, [kind |-> decision, overwrite |-> TRUE, new |-> new])
    BY DEF Review, Decisions
  <1>2. PICK new \in Decide(file, decision, w) :
            Begin(w, [kind |-> decision, overwrite |-> TRUE, new |-> new])
    BY <1>1
  <1>3. file \in Candidates /\ WellFormed(file) /\ file' = file
    BY DEF Review, Base, FileFits
  <1>4. new \in Candidates /\ new.decision = decision /\ new.records = <<Record(decision, w)>>
    BY <1>3, DecideGives
  <1> DEFINE work == [kind |-> decision, overwrite |-> TRUE, new |-> new]
  <1>5. work.kind = decision /\ work.overwrite = TRUE /\ work.new = new
    OBVIOUS
  <1>6. work \in Jobs
    BY <1>4 DEF Jobs, Decisions
  <1>7. Begin(w, work)
    BY <1>2
  <1> HIDE DEF work
  <1> QED BY <1>3, <1>4, <1>5, <1>6, <1>7, BeginKeepsBase DEF Decisions

(* What a command that fills the file leaves in it.                        *)
LEMMA FillGives ==
    ASSUME Base, NEW w \in Workers, Fill(w), file' # Torn
    PROVE  /\ JobFits(w) /\ file' = Written(job[w].new)
           /\ file' \in Candidates /\ file'.kind = "candidate"
           /\ file'.decision = job[w].new.decision /\ file'.records = job[w].new.records
           /\ file'.hash = job[w].new.hash
  <1>1. JobFits(w)
    BY DEF Base, Fill, Goto
  <1>2. file' = Written(job[w].new) /\ job[w].new \in Candidates
    BY <1>1 DEF Fill, JobFits
  <1> QED BY <1>1, <1>2, WrittenGives

LEMMA FitsIsWellFormed ==
    ASSUME NEW w \in Workers, JobFits(w) PROVE WellFormed(job[w].new)
  BY DEF JobFits, WellFormed, Decisions

LEMMA FillKeepsBase ==
    ASSUME Base, NEW w \in Workers, Fill(w) PROVE Base'
  <1>1. pc' = [pc EXCEPT ![w] = "audit"] /\ job' = job /\ pc[w] = "fill"
    BY DEF Fill, Goto
  <1>2. ASSUME NEW v \in Workers, pc'[v] # "idle" PROVE JobFits(v)'
    BY <1>1, <1>2 DEF Base, JobFits
  <1>3. file' \in {Torn} \cup Candidates /\ FileFits'
    <2>1. CASE file' = Torn
      BY <2>1 DEF FileFits, Readable, Torn
    <2>2. CASE file' # Torn
      <3>1. WellFormed(file)'
        BY <2>2, FillGives, FitsIsWellFormed DEF WellFormed
      <3> QED BY <2>2, FillGives, <3>1 DEF FileFits
    <2> QED BY <2>1, <2>2
  <1>4. pc' \in [Workers -> {"idle", "truncate", "fill", "audit"}] /\ job' \in [Workers -> Jobs]
    BY <1>1 DEF Base
  <1> QED BY <1>2, <1>3, <1>4 DEF Base

LEMMA TruncateKeepsBase ==
    ASSUME Base, NEW w \in Workers, Truncate(w) PROVE Base'
  <1>1. pc' = [pc EXCEPT ![w] = "fill"] /\ job' = job /\ pc[w] = "truncate" /\ file' = Empty
    BY DEF Truncate, Goto
  <1>2. ASSUME NEW v \in Workers, pc'[v] # "idle" PROVE JobFits(v)'
    BY <1>1, <1>2 DEF Base, JobFits
  <1>3. FileFits'
    BY <1>1 DEF FileFits, Readable, Empty
  <1>4. pc' \in [Workers -> {"idle", "truncate", "fill", "audit"}] /\ job' \in [Workers -> Jobs]
    BY <1>1 DEF Base
  <1> QED BY <1>1, <1>2, <1>3, <1>4 DEF Base

(* A command ends, by itself or not.                                       *)
LEMMA EndKeepsBase ==
    ASSUME Base, NEW w \in Workers, pc' = [pc EXCEPT ![w] = "idle"],
           job' = [job EXCEPT ![w] = NoJob], file' = file
    PROVE  Base'
  <1>1. ASSUME NEW v \in Workers, pc'[v] # "idle" PROVE JobFits(v)'
    <2>1. v # w
      BY <1>1 DEF Base
    <2>2. pc'[v] = pc[v] /\ job'[v] = job[v]
      BY <2>1 DEF Base
    <2> QED BY <1>1, <2>2 DEF Base, JobFits
  <1>2. FileFits'
    BY DEF Base, FileFits, Readable
  <1>3. pc' \in [Workers -> {"idle", "truncate", "fill", "audit"}] /\ job' \in [Workers -> Jobs]
    BY DEF Base, Jobs
  <1> QED BY <1>1, <1>2, <1>3 DEF Base

LEMMA EditKeepsBase ==
    ASSUME Base, EditByHand PROVE Base'
  <1>1. pc' = pc /\ job' = job
    BY DEF EditByHand
  <1>2. WellFormed(file)'
    BY EditGives DEF Base, FileFits, WellFormed
  <1>3. FileFits'
    BY <1>2, EditGives DEF FileFits
  <1> QED BY <1>1, <1>3, EditGives DEF Base, JobFits

LEMMA StutterKeepsBase ==
    ASSUME Base, UNCHANGED <<file, pc, job>> PROVE Base'
  BY DEF Base, FileFits, Readable, WellFormed, JobFits

LEMMA BaseInitially == ASSUME Init PROVE Base
  <1>1. FileFits
    BY DEF Init, FileFits, Readable, Missing
  <1> QED BY <1>1 DEF Init, Base, Jobs

(* Every step keeps Base.                                                  *)
LEMMA BaseStep == ASSUME Base, [Next]_vars PROVE Base'
  <1>1. ASSUME NEW w \in Workers, Audit(w) PROVE Base'
    BY <1>1, EndKeepsBase DEF Audit, Goto
  <1>2. ASSUME NEW w \in Workers, Crash(w) PROVE Base'
    BY <1>2, EndKeepsBase DEF Crash
  <1>3. CASE RunGate \/ Release \/ UNCHANGED vars
    <2>1. UNCHANGED <<file, pc, job>>
      BY <1>3 DEF RunGate, Release, vars
    <2> QED BY <2>1, StutterKeepsBase
  <1> QED
    BY <1>1, <1>2, <1>3, ProposeKeepsBase, ReviewKeepsBase, TruncateKeepsBase, FillKeepsBase,
       EditKeepsBase DEF Next, Step
-----------------------------------------------------------------------------
(* Types of the variables that Base leaves out.                            *)
Types ==
    /\ manifest \in [artifact : Versions, golden : {1, 2}]
    /\ accepted \in {Nothing} \cup [kind : {"accepted"}, substance : Substance, baseline : Versions]
    /\ commands \in 0..MaxCommands /\ troubles \in 0..MaxTroubles
    /\ approvals \subseteq Substance
    /\ settled \in {Nothing} \cup [kind : {"settled"}, decision : Decisions, reviewer : Workers]
    /\ alone \in [Workers -> BOOLEAN]

LEMMA TypesInitially == ASSUME Init PROVE Types
  BY BoundAssumption DEF Init, Types, Versions

LEMMA BeginKeepsTypes ==
    ASSUME Types, NEW w \in Workers, NEW work, Begin(w, work),
           UNCHANGED <<manifest, accepted, troubles, approvals, settled>>
    PROVE  Types'
  <1>1. commands' \in 0..MaxCommands
    BY BoundAssumption DEF Begin, Types
  <1>2. PICK others : alone' = [v \in Workers |->
            IF v = w THEN others = {} ELSE alone[v] /\ v \notin others]
    BY DEF Begin
  <1>3. alone' \in [Workers -> BOOLEAN]
    <2>1. ASSUME NEW v \in Workers
          PROVE (IF v = w THEN others = {} ELSE alone[v] /\ v \notin others) \in BOOLEAN
      BY Zenon DEF Types
    <2> QED BY <1>2, <2>1
  <1> QED BY <1>1, <1>3 DEF Types

LEMMA GateKeepsTypes ==
    ASSUME Base, Types, RunGate PROVE Types'
  <1>1. Readable /\ file \in Candidates
    BY DEF RunGate, Base, FileFits
  <1>2. accepted' \in {Nothing} \cup [kind : {"accepted"}, substance : Substance, baseline : Versions]
    <2>1. CASE accepted' = Nothing
      BY <2>1
    <2>2. CASE accepted' # Nothing
      <3>1. PICK evals \in EvalResults :
                accepted' = [kind |-> "accepted", substance |-> file.substance,
                             baseline |-> evals.artifact]
        BY <2>2 DEF RunGate
      <3>2. evals.artifact \in 0..manifest.artifact /\ manifest.artifact \in 0..MaxVersion
        BY DEF EvalResults, Types, Versions
      <3>3. evals.artifact \in Versions
        BY <3>2, BoundAssumption DEF Versions
      <3> QED BY <3>1, <3>3, <1>1 DEF Candidates
    <2> QED BY <2>1, <2>2
  <1> QED BY <1>2 DEF Types, RunGate, history

LEMMA TypesStep == ASSUME Base, Types, [Next]_vars PROVE Types'
  <1>1. ASSUME NEW w \in Workers, Propose(w) PROVE Types'
    BY <1>1, BeginKeepsTypes DEF Propose
  <1>2. ASSUME NEW w \in Workers, Review(w) PROVE Types'
    BY <1>2, BeginKeepsTypes DEF Review
  <1>3. ASSUME NEW w \in Workers, Truncate(w) PROVE Types'
    BY <1>3 DEF Truncate, Types, world
  <1>4. ASSUME NEW w \in Workers, Fill(w) PROVE Types'
    <2>1. pc[w] = "fill" /\ job[w].new.hash \in Substance
      BY <1>4 DEF Fill, Goto, Base, JobFits, Candidates
    <2> QED BY <1>4, <2>1 DEF Fill, Types, world
  <1>5. ASSUME NEW w \in Workers, Audit(w) PROVE Types'
    <2>1. job[w].kind \in {"propose"} \cup Decisions
      BY <1>5 DEF Audit, Goto, Base, JobFits
    <2>2. settled' \in {Nothing} \cup [kind : {"settled"}, decision : Decisions, reviewer : Workers]
      BY <1>5, <2>1 DEF Audit, Types
    <2> QED BY <1>5, <2>2 DEF Audit, Types, world
  <1>6. ASSUME NEW w \in Workers, Crash(w) PROVE Types'
    BY <1>6, BoundAssumption DEF Crash, Types, Trouble
  <1>7. ASSUME RunGate PROVE Types'
    BY <1>7, GateKeepsTypes
  <1>8. ASSUME EditByHand PROVE Types'
    BY <1>8, BoundAssumption DEF EditByHand, Types, Trouble, history
  <1>9. ASSUME Release PROVE Types'
    <2>1. manifest' \in [artifact : Versions, golden : {1, 2}]
      BY <1>9, BoundAssumption DEF Release, Types, Versions
    <2> QED BY <1>9, <2>1, BoundAssumption DEF Release, Types, Trouble, history
  <1>10. CASE UNCHANGED vars
    BY <1>10 DEF vars, world, history, Types
  <1> QED
    BY <1>1, <1>2, <1>3, <1>4, <1>5, <1>6, <1>7, <1>8, <1>9, <1>10 DEF Next, Step

(* Every variable has its type: a review keeps a candidate well-formed     *)
(* whatever processes meet on its file.                                    *)
THEOREM TypeCorrect == Spec => []TypeOK
  <1>1. Init => Base /\ Types
    BY BaseInitially, TypesInitially
  <1>2. Base /\ Types /\ [Next]_vars => (Base /\ Types)'
    BY BaseStep, TypesStep
  <1>3. Base /\ Types => TypeOK
    BY DEF Base, Types, TypeOK, Decisions
  <1> QED BY <1>1, <1>2, <1>3, PTL DEF Spec

(* A readable candidate has no decision and no review record, or one       *)
(* decision and the one record of it.                                      *)
THEOREM OneReviewOnFile == Spec => []FileTellsItsReview
  <1>1. Init => Base
    BY BaseInitially
  <1>2. Base /\ [Next]_vars => Base'
    BY BaseStep
  <1>3. ASSUME Base PROVE FileTellsItsReview
    <2>1. SUFFICES ASSUME Readable, file.decision \in Decisions,
                          NEW w \in Workers, file.records = <<Record(file.decision, w)>>
                   PROVE  Len(file.records) = 1 /\ file.records[1].decision = file.decision
      BY <1>3 DEF Base, FileFits, WellFormed, FileTellsItsReview
    <2>2. Len(file.records) = 1 /\ file.records[1] = Record(file.decision, w)
      BY <2>1
    <2> QED BY <2>2 DEF Record
  <1> QED BY <1>1, <1>2, <1>3, PTL DEF Spec

-----------------------------------------------------------------------------
(* An approval on file has been given, and so has what the gate passed.    *)
Reviewed ==
    /\ Readable /\ file.decision = "approved" => file.hash \in approvals
    /\ NothingTakesEffectUnreviewed

LEMMA ReviewedStep == ASSUME Base, Reviewed, [Next]_vars PROVE Reviewed'
  <1>1. CASE UNCHANGED <<file, approvals, accepted>>
    BY <1>1 DEF Reviewed, Readable, NothingTakesEffectUnreviewed
  <1>2. ASSUME NEW w \in Workers, Truncate(w) PROVE Reviewed'
    BY <1>2 DEF Truncate, Reviewed, Readable, Empty, NothingTakesEffectUnreviewed, world
  <1>3. ASSUME NEW w \in Workers, Fill(w) PROVE Reviewed'
    <2>1. approvals \subseteq approvals' /\ accepted' = accepted
      BY <1>3 DEF Fill, world
    <2>2. NothingTakesEffectUnreviewed'
      BY <2>1 DEF Reviewed, NothingTakesEffectUnreviewed
    <2>3. CASE file' = Torn
      BY <2>2, <2>3 DEF Reviewed, Readable, Torn
    <2>4. CASE file' # Torn
      <3>1. JobFits(w) /\ file'.decision = job[w].new.decision /\ file'.hash = job[w].new.hash
        BY <1>3, <2>4, FillGives
      <3>2. file'.decision = "approved" => job[w].kind = "approved"
        BY <3>1 DEF JobFits, Decisions
      <3>3. job[w].kind = "approved" => job[w].new.hash \in approvals'
        BY <1>3 DEF Fill
      <3> QED BY <2>2, <3>1, <3>2, <3>3 DEF Reviewed
    <2> QED BY <2>3, <2>4
  <1>4. CASE RunGate
    <2>1. Readable /\ UNCHANGED <<file, approvals>>
      BY <1>4 DEF RunGate, history
    <2>2. NothingTakesEffectUnreviewed'
      <3>1. CASE accepted' = Nothing
        BY <3>1 DEF NothingTakesEffectUnreviewed
      <3>2. CASE accepted' # Nothing
        <4>1. Approved(file)
          BY <1>4, <3>2 DEF RunGate
        <4>2. file.substance \in approvals
          BY <4>1, <2>1 DEF Approved, Reviewed
        <4>3. PICK evals \in EvalResults :
                  /\ EvaluatedBefore(file, evals)
                  /\ accepted' = [kind |-> "accepted", substance |-> file.substance,
                                  baseline |-> evals.artifact]
          BY <1>4, <3>2 DEF RunGate
        <4> QED BY <2>1, <4>2, <4>3 DEF NothingTakesEffectUnreviewed, EvaluatedBefore
      <3> QED BY <3>1, <3>2
    <2> QED BY <2>1, <2>2 DEF Reviewed, Readable
  <1>5. CASE EditByHand
    <2>1. UNCHANGED <<approvals, accepted>>
      BY <1>5 DEF EditByHand, history
    <2>2. NothingTakesEffectUnreviewed'
      BY <2>1 DEF Reviewed, NothingTakesEffectUnreviewed
    <2> QED BY <1>5, <2>1, <2>2, EditGives DEF Reviewed
  <1>6. ASSUME NEW w \in Workers, Propose(w) \/ Review(w) \/ Audit(w) \/ Crash(w)
        PROVE UNCHANGED <<file, approvals, accepted>>
    BY <1>6 DEF Propose, Review, Audit, Crash, world
  <1>7. CASE Release \/ UNCHANGED vars
    BY <1>1, <1>7 DEF Release, vars, world, history
  <1> QED
    BY <1>1, <1>2, <1>3, <1>4, <1>5, <1>6, <1>7 DEF Next, Step

(* The gate passes only what was proposed with a candidate that somebody   *)
(* approved, evaluated against the version it is to change, whatever edits *)
(* of text, provenance or status there have been.                          *)
THEOREM GatePassesReviewed == Spec => []NothingTakesEffectUnreviewed
  <1>1. Init => Base /\ Reviewed
    BY BaseInitially DEF Init, Reviewed, Readable, Missing, NothingTakesEffectUnreviewed
  <1>2. Base /\ Reviewed /\ [Next]_vars => (Base /\ Reviewed)'
    BY BaseStep, ReviewedStep
  <1>3. Reviewed => NothingTakesEffectUnreviewed
    BY DEF Reviewed
  <1> QED BY <1>1, <1>2, <1>3, PTL DEF Spec
-----------------------------------------------------------------------------
(* While a command is alone no other runs, and it finds the file empty     *)
(* when it fills it, so that it leaves its decision there.                 *)
Alone ==
    \A v \in Workers : pc[v] # "idle" /\ alone[v] =>
        /\ \A u \in Workers \ {v} : pc[u] = "idle"
        /\ pc[v] = "fill" => file = Empty
        /\ pc[v] = "audit" /\ job[v].kind # "propose" =>
              Readable /\ file.records = <<Record(job[v].kind, v)>>

(* Once a decision is settled only a proposal that overwrites may run, and *)
(* only up to its first write.                                             *)
Settled ==
    settled # Nothing =>
        /\ Readable
        /\ file.records = <<Record(settled.decision, settled.reviewer)>>
        /\ \A w \in Workers : pc[w] # "idle" =>
              pc[w] = "truncate" /\ job[w].kind = "propose" /\ job[w].overwrite

LEMMA BeginKeepsAlone ==
    ASSUME Base, Types, Alone, Base', NEW w \in Workers, NEW work, Begin(w, work), file' = file
    PROVE  Alone'
  <1>1. /\ pc[w] = "idle" /\ pc' = [pc EXCEPT ![w] = "truncate"]
        /\ job' = [job EXCEPT ![w] = work]
    BY DEF Begin, Goto
  <1> DEFINE others == {v \in Workers \ {w} : pc[v] # "idle"}
  <1>2. alone' = [v \in Workers |-> IF v = w THEN others = {} ELSE alone[v] /\ v \notin others]
    BY DEF Begin
  <1>3. SUFFICES ASSUME NEW v \in Workers, pc'[v] # "idle", alone'[v]
                 PROVE  /\ \A u \in Workers \ {v} : pc'[u] = "idle"
                        /\ pc'[v] = "truncate"
    BY DEF Alone
  <1>4. CASE v = w
    <2>1. others = {}
      BY <1>2, <1>3, <1>4, Zenon
    <2>2. \A u \in Workers \ {w} : pc[u] = "idle"
      BY <2>1
    <2> QED BY <1>1, <1>4, <2>2 DEF Base
  <1>5. CASE v # w
    <2>1. v \notin others
      BY <1>2, <1>3, <1>5, Zenon
    <2>2. pc[v] = "idle" /\ pc'[v] = pc[v]
      BY <2>1, <1>1, <1>5 DEF Base
    <2> QED BY <2>2, <1>3
  <1> QED BY <1>4, <1>5

LEMMA AloneStep == ASSUME Base, Types, Alone, Base', [Next]_vars PROVE Alone'
  <1>1. ASSUME NEW w \in Workers, Propose(w) \/ Review(w) PROVE Alone'
    <2>1. PICK work : Begin(w, work)
      BY <1>1 DEF Propose, Review
    <2>2. file' = file
      BY <1>1 DEF Propose, Review
    <2> QED BY <2>1, <2>2, BeginKeepsAlone
  <1>2. ASSUME NEW w \in Workers, Truncate(w) PROVE Alone'
    <2>1. /\ pc[w] = "truncate" /\ pc' = [pc EXCEPT ![w] = "fill"] /\ file' = Empty
          /\ UNCHANGED <<job, alone>>
      BY <1>2 DEF Truncate, Goto
    <2> QED BY <2>1 DEF Alone, Base
  <1>3. ASSUME NEW w \in Workers, Fill(w) PROVE Alone'
    <2>1. /\ pc[w] = "fill" /\ pc' = [pc EXCEPT ![w] = "audit"] /\ UNCHANGED <<job, alone>>
      BY <1>3 DEF Fill, Goto
    <2>2. SUFFICES ASSUME NEW v \in Workers, pc'[v] # "idle", alone[v]
                   PROVE  /\ \A u \in Workers \ {v} : pc'[u] = "idle"
                          /\ pc'[v] = "fill" => file' = Empty
                          /\ pc'[v] = "audit" /\ job[v].kind # "propose" =>
                                Readable' /\ file'.records = <<Record(job[v].kind, v)>>
      BY <2>1 DEF Alone
    <2>3. v = w
      BY <2>1, <2>2 DEF Alone, Base
    <2>4. file = Empty /\ \A u \in Workers \ {w} : pc[u] = "idle"
      BY <2>1, <2>2, <2>3 DEF Alone
    <2>5. file' # Torn
      <3>1. file' = Written(job[w].new) /\ JobFits(w)
        BY <1>3, <2>4, <2>1 DEF Fill, Base
      <3>2. file'.kind = "candidate"
        BY <3>1, WrittenGives DEF JobFits
      <3> QED BY <3>2 DEF Torn
    <2>6. /\ JobFits(w) /\ file'.kind = "candidate" /\ file'.records = job[w].new.records
      BY <1>3, <2>5, FillGives
    <2> QED BY <2>1, <2>3, <2>4, <2>6 DEF Base, JobFits, Readable
  <1>4. ASSUME NEW w \in Workers, Audit(w) \/ Crash(w) PROVE Alone'
    <2>1. /\ pc' = [pc EXCEPT ![w] = "idle"] /\ job' = [job EXCEPT ![w] = NoJob]
          /\ alone' = [alone EXCEPT ![w] = TRUE] /\ file' = file
      BY <1>4 DEF Audit, Crash, Goto
    <2>2. ASSUME NEW v \in Workers, pc'[v] # "idle"
          PROVE  v # w /\ pc'[v] = pc[v] /\ job'[v] = job[v] /\ alone'[v] = alone[v]
      BY <2>1, <2>2 DEF Base, Types
    <2>3. \A u \in Workers : pc[u] = "idle" => pc'[u] = "idle"
      BY <2>1 DEF Base
    <2>4. ASSUME NEW v \in Workers, pc'[v] # "idle", alone'[v]
          PROVE  /\ \A u \in Workers \ {v} : pc'[u] = "idle"
                 /\ pc'[v] = "fill" => file = Empty
                 /\ pc'[v] = "audit" /\ job'[v].kind # "propose" =>
                       Readable /\ file.records = <<Record(job'[v].kind, v)>>
      <3>1. /\ pc[v] # "idle" /\ alone[v] /\ pc'[v] = pc[v] /\ job'[v] = job[v]
        BY <2>2, <2>4
      <3> QED BY <3>1, <2>3 DEF Alone
    <2> QED BY <2>1, <2>4 DEF Alone, Readable
  <1>5. CASE EditByHand
    <2>1. UNCHANGED <<pc, job, alone>>
      BY <1>5 DEF EditByHand, history
    <2>2. file # Empty
      BY <1>5, EditGives DEF Readable, Empty
    <2> QED BY <1>5, <2>1, <2>2, EditGives DEF Alone, Readable
  <1>6. CASE RunGate \/ Release \/ UNCHANGED vars
    <2>1. UNCHANGED <<file, pc, job, alone>>
      BY <1>6 DEF RunGate, Release, vars, history
    <2> QED BY <2>1 DEF Alone, Readable
  <1> QED BY <1>1, <1>2, <1>3, <1>4, <1>5, <1>6 DEF Next, Step

LEMMA SettledStep == ASSUME Base, Types, Alone, Settled, [Next]_vars PROVE Settled'
  <1>1. ASSUME NEW w \in Workers, Propose(w) PROVE Settled'
    <2>1. PICK text \in Contents, from \in Versions, overwrite \in BOOLEAN :
              /\ file = Missing \/ overwrite
              /\ Begin(w, [kind |-> "propose", overwrite |-> overwrite,
                           new |-> Proposal(text, from)])
      BY <1>1 DEF Propose
    <2>2. /\ pc' = [pc EXCEPT ![w] = "truncate"] /\ job'[w].kind = "propose"
          /\ job'[w].overwrite = overwrite /\ UNCHANGED <<file, settled>>
          /\ \A v \in Workers \ {w} : job'[v] = job[v]
      BY <1>1, <2>1 DEF Propose, Begin, Goto, Base
    <2>3. Readable => overwrite
      BY <2>1 DEF Readable, Missing
    <2> QED BY <2>2, <2>3 DEF Settled, Base, Readable
  <1>2. ASSUME NEW w \in Workers, Review(w) PROVE Settled'
    <2>1. Readable /\ file.decision = "pending"
      BY <1>2 DEF Review, Decide
    <2>2. file.records = <<>>
      BY <2>1 DEF Base, FileFits, WellFormed, Decisions
    <2>3. settled = Nothing
      BY <2>2 DEF Settled
    <2> QED BY <1>2, <2>3 DEF Review, Settled
  <1>3. ASSUME NEW w \in Workers, Truncate(w) PROVE Settled'
    <2>1. pc[w] = "truncate"
      BY <1>3 DEF Truncate, Goto
    <2>2. settled' = Nothing
      BY <1>3, <2>1 DEF Truncate, Settled
    <2> QED BY <2>2 DEF Settled
  <1>4. ASSUME NEW w \in Workers, Fill(w) PROVE Settled'
    <2>1. pc[w] = "fill" /\ settled' = settled
      BY <1>4 DEF Fill, Goto
    <2> QED BY <2>1 DEF Settled
  <1>5. ASSUME NEW w \in Workers, Audit(w) PROVE Settled'
    <2>1. /\ pc[w] = "audit" /\ pc' = [pc EXCEPT ![w] = "idle"] /\ file' = file
      BY <1>5 DEF Audit, Goto
    <2>2. CASE alone[w] /\ job[w].kind # "propose"
      <3>1. /\ settled'.decision = job[w].kind /\ settled'.reviewer = w
        BY <1>5, <2>2 DEF Audit
      <3>2. /\ Readable /\ file.records = <<Record(job[w].kind, w)>>
            /\ \A u \in Workers \ {w} : pc[u] = "idle"
        BY <2>1, <2>2 DEF Alone
      <3> QED BY <2>1, <3>1, <3>2 DEF Settled, Readable, Base
    <2>3. CASE ~ (alone[w] /\ job[w].kind # "propose")
      <3>1. settled' = settled
        BY <1>5, <2>3 DEF Audit
      <3> QED BY <2>1, <3>1 DEF Settled
    <2> QED BY <2>2, <2>3
  <1>6. ASSUME NEW w \in Workers, Crash(w) PROVE Settled'
    <2>1. /\ pc' = [pc EXCEPT ![w] = "idle"] /\ job' = [job EXCEPT ![w] = NoJob]
          /\ UNCHANGED <<file, settled>>
      BY <1>6 DEF Crash
    <2> QED BY <2>1 DEF Settled, Readable, Base
  <1>7. CASE EditByHand
    <2>1. UNCHANGED <<pc, job, settled>>
      BY <1>7 DEF EditByHand, history
    <2> QED BY <1>7, <2>1, EditGives DEF Settled, Readable
  <1>8. CASE RunGate \/ Release \/ UNCHANGED vars
    <2>1. UNCHANGED <<file, pc, job, settled>>
      BY <1>8 DEF RunGate, Release, vars, history
    <2> QED BY <2>1 DEF Settled, Readable
  <1> QED BY <1>1, <1>2, <1>3, <1>4, <1>5, <1>6, <1>7, <1>8 DEF Next, Step

(* A decision that nothing ran into stays on file until somebody proposes  *)
(* anew with --overwrite.                                                  *)
THEOREM SettledStays == Spec => []DecisionIsFinal
  <1>1. Init => Base /\ Types /\ Alone /\ Settled
    BY BaseInitially, TypesInitially DEF Init, Alone, Settled
  <1>2. Base /\ Types /\ Alone /\ Settled /\ [Next]_vars => (Base /\ Types /\ Alone /\ Settled)'
    BY BaseStep, TypesStep, AloneStep, SettledStep
  <1>3. Settled => DecisionIsFinal
    BY DEF Settled, DecisionIsFinal, Record
  <1> QED BY <1>1, <1>2, <1>3, PTL DEF Spec
-----------------------------------------------------------------------------
(* Where a candidate's hash and provenance come from: the hash was taken   *)
(* of a text as proposed, and no command sets the provenance.              *)
Origin(c) ==
    /\ c.hash.text \in Contents
    /\ c.provenance = "pending" \/ troubles > 0

Origins ==
    /\ Readable => Origin(file)
    /\ \A w \in Workers : pc[w] # "idle" => Origin(job[w].new)

LEMMA BeginKeepsOrigins ==
    ASSUME Base, Origins, NEW w \in Workers, NEW work, Begin(w, work), Origin(work.new),
           UNCHANGED <<file, troubles>>
    PROVE  Origins'
  <1>1. pc' = [pc EXCEPT ![w] = "truncate"] /\ job' = [job EXCEPT ![w] = work]
    BY DEF Begin, Goto
  <1>2. ASSUME NEW v \in Workers, pc'[v] # "idle" PROVE Origin(job[v].new)'
    <2>1. CASE v = w
      BY <1>1, <2>1 DEF Base, Origin
    <2>2. CASE v # w
      <3>1. pc'[v] = pc[v] /\ job'[v] = job[v]
        BY <1>1, <2>2 DEF Base
      <3> QED BY <1>2, <3>1 DEF Origins, Origin
    <2> QED BY <2>1, <2>2
  <1> QED BY <1>2 DEF Origins, Readable, Origin

LEMMA OriginsStep == ASSUME Base, Types, Origins, [Next]_vars PROVE Origins'
  <1> DEFINE Counted == troubles \in Nat
  <1>0. Counted
    BY BoundAssumption DEF Types
  <1>1. ASSUME NEW w \in Workers, Propose(w) PROVE Origins'
    <2>1. PICK text \in Contents, from \in Versions, overwrite \in BOOLEAN :
              Begin(w, [kind |-> "propose", overwrite |-> overwrite,
                        new |-> Proposal(text, from)])
      BY <1>1 DEF Propose
    <2>2. Origin(Proposal(text, from))
      BY DEF Origin, Proposal
    <2> QED BY <1>1, <2>1, <2>2, BeginKeepsOrigins DEF Propose
  <1>2. ASSUME NEW w \in Workers, Review(w) PROVE Origins'
    <2>1. PICK decision \in Decisions : \E new \in Decide(file, decision, w) :
              Begin(w, [kind |-> decision, overwrite |-> TRUE, new |-> new])
      BY <1>2 DEF Review, Decisions
    <2>2. PICK new \in Decide(file, decision, w) :
              Begin(w, [kind |-> decision, overwrite |-> TRUE, new |-> new])
      BY <2>1
    <2>3. Readable /\ file \in Candidates /\ UNCHANGED <<file, troubles>>
      BY <1>2 DEF Review, Base, FileFits
    <2>4. new.hash = file.hash /\ new.provenance = file.provenance
      BY <2>3 DEF Decide, Candidates
    <2>5. Origin(new)
      BY <2>3, <2>4 DEF Origins, Origin
    <2> QED BY <2>2, <2>3, <2>5, BeginKeepsOrigins
  <1>3. ASSUME NEW w \in Workers, Truncate(w) PROVE Origins'
    BY <1>3 DEF Truncate, Goto, Base, Origins, Origin, Readable, Empty, world
  <1>4. ASSUME NEW w \in Workers, Fill(w) PROVE Origins'
    <2>1. pc' = [pc EXCEPT ![w] = "audit"] /\ pc[w] = "fill" /\ UNCHANGED <<job, troubles>>
      BY <1>4 DEF Fill, Goto, world
    <2>2. \A v \in Workers : pc'[v] # "idle" => Origin(job[v].new)'
      BY <2>1 DEF Base, Origins, Origin
    <2>3. Readable' => Origin(file)'
      <3>1. CASE file' = Torn
        BY <3>1 DEF Readable, Torn
      <3>2. CASE file' # Torn
        <4>1. /\ file' = Written(job[w].new) /\ job[w].new \in Candidates
              /\ file'.hash = job[w].new.hash
          BY <1>4, <3>2, FillGives DEF JobFits
        <4>2. file'.provenance = job[w].new.provenance
          BY <4>1 DEF Written, Candidates
        <4> QED BY <2>1, <4>1, <4>2 DEF Origins, Origin
      <3> QED BY <3>1, <3>2
    <2> QED BY <2>2, <2>3 DEF Origins
  <1>5. ASSUME NEW w \in Workers, Audit(w) \/ Crash(w) PROVE Origins'
    <2>1. /\ pc' = [pc EXCEPT ![w] = "idle"] /\ job' = [job EXCEPT ![w] = NoJob]
          /\ file' = file
      BY <1>5 DEF Audit, Crash, Goto
    <2>0. troubles' = troubles \/ troubles' = troubles + 1
      BY <1>5 DEF Audit, Crash, Trouble, world
    <2>4. troubles > 0 => troubles' > 0
      BY <2>0, <1>0
    <2>2. ASSUME NEW v \in Workers, pc'[v] # "idle" PROVE Origin(job[v].new)'
      <3>1. v # w
        BY <2>1, <2>2 DEF Base
      <3>2. pc'[v] = pc[v] /\ job'[v] = job[v]
        BY <2>1, <3>1 DEF Base
      <3>3. Origin(job[v].new)
        BY <2>2, <3>2 DEF Origins
      <3> QED BY <2>4, <3>2, <3>3 DEF Origin
    <2> QED BY <2>1, <2>2, <2>4 DEF Origins, Origin, Readable
  <1>6. CASE EditByHand
    <2>1. troubles' = troubles + 1 /\ UNCHANGED <<pc, job>>
      BY <1>6 DEF EditByHand, Trouble
    <2>2. troubles' > 0
      BY <2>1, <1>0
    <2> QED BY <1>6, <2>1, <2>2, EditGives DEF Origins, Origin, Readable
  <1>7. CASE RunGate \/ Release \/ UNCHANGED vars
    <2>1. UNCHANGED <<file, pc, job>>
      BY <1>7 DEF RunGate, Release, vars
    <2>2. troubles' = troubles \/ troubles' = troubles + 1
      BY <1>7 DEF RunGate, Release, Trouble, vars, world
    <2>3. troubles > 0 => troubles' > 0
      BY <2>2, <1>0
    <2> QED BY <2>1, <2>3 DEF Origins, Origin, Readable
  <1> QED
    BY <1>1, <1>2, <1>3, <1>4, <1>5, <1>6, <1>7 DEF Next, Step

(* What the gate never passes, with whatever evidence: a candidate whose   *)
(* text redaction has rewritten, since its hash is of the text as it was;  *)
(* any candidate once golden fixtures other than version 1 are released,   *)
(* since run_golden_evals goes on recording version 1; and any candidate   *)
(* while there have been commands only and no hand or crash has interfered *)
(* (troubles), since no command sets the provenance.                       *)
ClosedGate ==
    \/ Readable /\ file.substance.text \notin Contents
    \/ manifest.golden # 1
    \/ troubles = 0

GateStaysShut == [][ClosedGate => accepted' \in {accepted, Nothing}]_vars

THEOREM ClosedGatePassesNothing == Spec => GateStaysShut
  <1>1. Init => Base /\ Types /\ Origins
    BY BaseInitially, TypesInitially DEF Init, Origins, Readable, Missing
  <1>2. Base /\ Types /\ Origins /\ [Next]_vars => (Base /\ Types /\ Origins)'
    BY BaseStep, TypesStep, OriginsStep
  <1>3. ASSUME Origins, Next, accepted' \notin {accepted, Nothing} PROVE ~ ClosedGate
    <2>1. RunGate
      BY <1>3 DEF Next, Step, Propose, Review, Truncate, Fill, Audit, Crash, EditByHand, Release,
                  world
    <2>2. Readable /\ Approved(file) /\ \E evals \in EvalResults : Frozen(evals)
      BY <1>3, <2>1 DEF RunGate
    <2>3. file.substance.text \in Contents /\ troubles # 0
      BY <1>3, <2>2 DEF Approved, Origins, Origin
    <2>4. manifest.golden = 1
      BY <2>2 DEF EvalResults, Frozen
    <2> QED BY <2>3, <2>4 DEF ClosedGate
  <1>4. Origins /\ [Next]_vars => [ClosedGate => accepted' \in {accepted, Nothing}]_vars
    BY <1>3
  <1> QED BY <1>1, <1>2, <1>4, PTL DEF Spec, GateStaysShut
=============================================================================
