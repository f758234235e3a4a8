------------------------- MODULE SqlclProcessProofs -------------------------
(***************************************************************************)
(* Proofs about the supervision of a SQLcl process, for any limit, pipe    *)
(* capacity and amount of output.                                          *)
(***************************************************************************)
EXTENDS SqlclProcess, TLAPS

Over(s) == kept[s] > Limit
Ending == {"join", "close", "returned"}

(* Everything written is in the buffer or in the pipe until a reader is    *)
(* over its limit.                                                         *)
OutputFits ==
    \A s \in Streams :
        /\ kept[s] \in 0..Limit + 1 /\ pipe[s] \in 0..PipeSize /\ wrote[s] \in 0..MaxOutput
        /\ kept[s] + pipe[s] <= wrote[s]
        /\ ~ Over(s) => kept[s] + pipe[s] = wrote[s]

(* A reader ends over its limit, or at the end of a closed stream.         *)
ReadersFit ==
    \A s \in Streams :
        reader[s] = "done" => Over(s) \/ (pipe[s] = 0 /\ ~ Open(s))

(* The supervisor signals for a reason, and leaves nobody it signalled.    *)
MainFits ==
    /\ stop => \E s \in Streams : Over(s)
    /\ timedOut => expired /\ pc \in {"sigterm", "sigkill"} \cup Ending
    /\ pc \in {"sigterm", "sigkill"} => timedOut \/ stop
    /\ pc \in Ending =>
          \/ Drained /\ ~ timedOut
          \/ ~ GroupAlive /\ (timedOut \/ stop)
    /\ leader = "killed" => pc = "sigkill" \/ ~ GroupAlive

(* Without a timeout, a result within the limits is the text of all that   *)
(* two finished readers kept.                                              *)
TextFits ==
    pc = "returned" /\ ~ timedOut /\ (\A s \in Streams : text[s] <= Limit) =>
        Drained /\ \A s \in Streams : kept[s] <= text[s]

IInv == TypeOK /\ OutputFits /\ ReadersFit /\ MainFits /\ TextFits

LEMMA InitInv == Init => IInv
  <1> SUFFICES ASSUME Init PROVE IInv
    OBVIOUS
  <1>1. TypeOK
    <2>1. {stop, expired, seenExit, timedOut} \subseteq BOOLEAN
      BY Zenon DEF Init
    <2>2. 0 \in 0..PipeSize /\ 0 \in 0..MaxOutput /\ 0 \in 0..Limit + 1 /\ 0 \in 0..3 * (Limit + 1)
      BY SizesAssumption
    <2>3. holders \in [Streams -> SUBSET Members]
      BY DEF Init, Members
    <2> QED BY <2>1, <2>2, <2>3 DEF Init, TypeOK
  <1>2. OutputFits
    BY SizesAssumption DEF Init, OutputFits, Over
  <1>3. ReadersFit
    BY DEF Init, ReadersFit
  <1>4. MainFits /\ TextFits
    BY DEF Init, MainFits, TextFits, Ending
  <1> QED BY <1>1, <1>2, <1>3, <1>4 DEF IInv

(* Steps that change neither the supervisor nor what readers have done     *)
(* keep what the result says of them.                                      *)
LEMMA TextStep ==
    ASSUME TextFits, UNCHANGED <<pc, timedOut, text, kept>>, Drained => Drained'
    PROVE  TextFits'
  BY DEF TextFits

-----------------------------------------------------------------------------
LEMMA GroupIs == GroupAlive <=> (leader = "running" \/ child = "alive")
  BY DEF GroupAlive, Alive, Members

(* Nobody comes alive again and no stream is opened again, so a step of    *)
(* the group or of the clock leaves the supervisor's reasons in force.     *)
LEMMA FrameStep ==
    ASSUME IInv, TypeOK', UNCHANGED <<main, streams>>, expired => expired',
           GroupAlive' => GroupAlive, \A s \in Streams : Open(s)' => Open(s),
           leader' = "killed" => leader = "killed"
    PROVE  IInv'
  <1>1. /\ UNCHANGED <<pc, seenExit, timedOut, text, pipe, wrote, kept, reader, stop>>
        /\ (Drained <=> Drained') /\ \A s \in Streams : Over(s) <=> Over(s)'
    BY DEF main, streams, Drained, Over
  <1>2. OutputFits'
    BY <1>1 DEF IInv, OutputFits
  <1>3. ReadersFit'
    BY <1>1 DEF IInv, ReadersFit
  <1>4. MainFits'
    BY <1>1 DEF IInv, MainFits
  <1>5. TextFits'
    BY <1>1, TextStep DEF IInv
  <1> QED BY <1>2, <1>3, <1>4, <1>5 DEF IInv

LEMMA WriteStep ==
    ASSUME IInv, NEW s \in Streams, Write(s)
    PROVE  IInv'
  <1>1. TypeOK'
    BY SizesAssumption DEF Write, IInv, TypeOK, main, group
  <1>2. OutputFits'
    BY SizesAssumption DEF Write, IInv, TypeOK, OutputFits, Over
  <1>3. /\ UNCHANGED <<pc, timedOut, text, kept, reader, stop, expired, leader, child, holders>>
        /\ \A r \in Streams : pipe'[r] = IF r = s THEN pipe[s] + 1 ELSE pipe[r]
    BY DEF Write, IInv, TypeOK, main, group
  <1>4. (Drained <=> Drained') /\ (GroupAlive <=> GroupAlive')
        /\ \A r \in Streams : (Over(r) <=> Over(r)') /\ (Open(r) <=> Open(r)')
    BY <1>3 DEF Drained, Over, GroupAlive, Open, Alive
  <1>5. ReadersFit'
    <2>1. Open(s)
      BY DEF Write
    <2> QED BY <1>3, <1>4, <2>1 DEF IInv, ReadersFit
  <1>6. MainFits'
    BY <1>3, <1>4 DEF IInv, MainFits
  <1>7. TextFits'
    BY <1>3, <1>4, TextStep DEF IInv
  <1> QED BY <1>1, <1>2, <1>5, <1>6, <1>7 DEF IInv

LEMMA ProcessStep ==
    ASSUME IInv,
           \/ Fork \/ LeaderExits \/ ChildExits \/ WriterDone \/ TimePasses
           \/ \E p \in Members, s \in Streams : LetGo(p, s)
    PROVE  IInv'
  <1>1. CASE Fork
    <2>1. TypeOK'
      BY <1>1 DEF Fork, IInv, TypeOK, main, streams
    <2>2. \A s \in Streams : Open(s)' => Open(s)
      BY <1>1 DEF Fork, Open, Alive, Members
    <2> QED BY <1>1, <2>1, <2>2, GroupIs, FrameStep DEF Fork
  <1>2. CASE LeaderExits
    <2>1. TypeOK'
      BY <1>2 DEF LeaderExits, IInv, TypeOK, main, streams
    <2>2. \A s \in Streams : Open(s)' => Open(s)
      BY <1>2 DEF LeaderExits, Open, Alive, Members
    <2>3. GroupAlive' => GroupAlive
      BY <1>2 DEF LeaderExits, GroupAlive, Alive
    <2> QED BY <1>2, <2>1, <2>2, <2>3, FrameStep DEF LeaderExits
  <1>3. CASE ChildExits
    <2>1. TypeOK'
      BY <1>3 DEF ChildExits, IInv, TypeOK, main, streams
    <2>2. \A s \in Streams : Open(s)' => Open(s)
      BY <1>3 DEF ChildExits, Open, Alive, Members
    <2>3. GroupAlive' => GroupAlive
      BY <1>3 DEF ChildExits, GroupAlive, Alive
    <2> QED BY <1>3, <2>1, <2>2, <2>3, FrameStep DEF ChildExits
  <1>4. CASE WriterDone \/ TimePasses
    <2>1. TypeOK'
      BY <1>4 DEF WriterDone, TimePasses, IInv, TypeOK, main, group, streams
    <2>2. UNCHANGED <<main, streams, leader, child, holders>> /\ (expired => expired')
      BY <1>4 DEF WriterDone, TimePasses, group
    <2>3. (GroupAlive' => GroupAlive) /\ \A s \in Streams : Open(s)' => Open(s)
      BY <2>2 DEF GroupAlive, Open, Alive
    <2> QED BY <2>1, <2>2, <2>3, FrameStep
  <1>5. ASSUME NEW p \in Members, NEW r \in Streams, LetGo(p, r) PROVE IInv'
    <2>1. TypeOK'
      BY <1>5 DEF LetGo, IInv, TypeOK, main, streams
    <2>2. /\ UNCHANGED <<main, streams, leader, child, expired>>
          /\ \A s \in Streams : holders'[s] \subseteq holders[s]
      BY <1>5 DEF LetGo, IInv, TypeOK
    <2>3. (GroupAlive' => GroupAlive) /\ \A s \in Streams : Open(s)' => Open(s)
      BY <2>2 DEF GroupAlive, Open, Alive
    <2> QED BY <2>1, <2>2, <2>3, FrameStep
  <1> QED BY <1>1, <1>2, <1>3, <1>4, <1>5

LEMMA ReadStep ==
    ASSUME IInv, NEW s \in Streams, Read(s)
    PROVE  IInv'
  <1>1. PICK n \in 1..pipe[s] :
          LET size == IF kept[s] + n > Limit + 1 THEN Limit + 1 ELSE kept[s] + n IN
          /\ pipe' = [pipe EXCEPT ![s] = @ - n]
          /\ kept' = [kept EXCEPT ![s] = size]
          /\ reader' = [reader EXCEPT ![s] = IF size > Limit THEN "done" ELSE "reading"]
          /\ stop' = (stop \/ size > Limit)
    BY DEF Read
  <1> DEFINE size == IF kept[s] + n > Limit + 1 THEN Limit + 1 ELSE kept[s] + n
  <1>2. /\ reader[s] = "reading" /\ UNCHANGED <<main, group, wrote, writer, expired>>
    BY DEF Read
  <1>3. /\ size \in 0..Limit + 1 /\ size >= kept[s] /\ size <= kept[s] + n
        /\ size <= Limit => size = kept[s] + n
    BY <1>1, SizesAssumption DEF IInv, OutputFits
  <1> HIDE DEF size
  <1>4. /\ pipe' = [pipe EXCEPT ![s] = @ - n] /\ kept' = [kept EXCEPT ![s] = size]
        /\ reader' = [reader EXCEPT ![s] = IF size > Limit THEN "done" ELSE "reading"]
        /\ stop' = (stop \/ size > Limit)
    BY <1>1 DEF size
  <1>5. OutputFits'
    BY <1>2, <1>3, <1>4, SizesAssumption DEF IInv, TypeOK, OutputFits, Over
  <1>6. TypeOK'
    BY <1>2, <1>3, <1>4, <1>5, SizesAssumption DEF IInv, TypeOK, OutputFits, main, group
  <1>7. ReadersFit'
    BY <1>2, <1>3, <1>4 DEF IInv, TypeOK, OutputFits, ReadersFit, Over, Open, Alive, group
  <1>8. MainFits'
    <2>1. \A r \in Streams : Over(r) => Over(r)'
      BY <1>3, <1>4, SizesAssumption DEF IInv, TypeOK, OutputFits, Over
    <2>2. stop' => \E r \in Streams : Over(r)'
      BY <1>4, <2>1 DEF IInv, TypeOK, MainFits, Over
    <2>3. Drained => Drained'
      BY <1>2, <1>4 DEF Drained
    <2>4. UNCHANGED <<pc, timedOut, expired, leader, child>> /\ (stop => stop')
      BY <1>2, <1>4 DEF main, group
    <2>5. GroupAlive' <=> GroupAlive
      BY <2>4 DEF GroupAlive, Alive
    <2> QED BY <2>2, <2>3, <2>4, <2>5 DEF IInv, MainFits
  <1>9. TextFits'
    <2>1. ~ Drained
      BY <1>2 DEF Drained
    <2> QED BY <1>2, <2>1 DEF IInv, TextFits, main
  <1> QED BY <1>5, <1>6, <1>7, <1>8, <1>9 DEF IInv

LEMMA EofStep ==
    ASSUME IInv, NEW s \in Streams, ReadEof(s)
    PROVE  IInv'
  <1>1. OutputFits' /\ TypeOK'
    BY DEF ReadEof, IInv, TypeOK, OutputFits, Over, main, group
  <1>2. /\ UNCHANGED <<pc, timedOut, text, pipe, kept, stop, expired, leader, child, holders>>
        /\ pipe[s] = 0 /\ ~ Open(s)
        /\ \A r \in Streams : reader'[r] = IF r = s THEN "done" ELSE reader[r]
    BY DEF ReadEof, IInv, TypeOK, main, group
  <1>3. (Drained => Drained') /\ (GroupAlive <=> GroupAlive')
        /\ \A r \in Streams : (Over(r) <=> Over(r)') /\ (Open(r) <=> Open(r)')
    BY <1>2 DEF Drained, Over, GroupAlive, Open, Alive
  <1>4. ReadersFit'
    BY <1>2, <1>3 DEF IInv, ReadersFit
  <1>5. MainFits'
    BY <1>2, <1>3 DEF IInv, MainFits
  <1>6. TextFits'
    BY <1>2, <1>3, TextStep DEF IInv
  <1> QED BY <1>1, <1>4, <1>5, <1>6 DEF IInv

-----------------------------------------------------------------------------
(* The result is made when the loop has been left for one of two reasons:  *)
(* the readers are done, or one of them was over its limit.                *)
LEMMA CloseTells == IInv /\ Close => TextFits'
  <1> SUFFICES ASSUME IInv, Close, ~ timedOut, \A s \in Streams : text'[s] <= Limit
               PROVE  Drained' /\ \A s \in Streams : kept'[s] <= text'[s]
    BY DEF Close, TextFits
  <1>1. /\ UNCHANGED <<kept, reader>> /\ pc = "close"
        /\ \A s \in Streams : kept[s] <= text'[s] /\ text'[s] \in Nat
    BY SizesAssumption DEF Close, Goto, streams
  <1>2. \A s \in Streams : ~ Over(s)
    BY <1>1, SizesAssumption DEF IInv, OutputFits, Over
  <1>3. Drained
    BY <1>1, <1>2 DEF IInv, MainFits, Ending
  <1> QED BY <1>1, <1>3 DEF Drained

(* The supervisor acts on the group only by signals.                       *)
LEMMA MainStepKeeps == IInv /\ MainStep => IInv'
  <1> SUFFICES ASSUME IInv, MainStep PROVE IInv'
    OBVIOUS
  <1> USE DEF Goto
  <1>1. TypeOK'
    <2>1. CASE Close
      BY <2>1 DEF Close, group, streams, IInv, TypeOK
    <2>2. CASE PollProcess \/ CheckDrained \/ CheckStop \/ CheckDeadline \/ Join
      BY <2>2 DEF PollProcess, CheckDrained, CheckStop, CheckDeadline, Join, group, streams, IInv,
                  TypeOK
    <2>3. CASE Terminate \/ Kill
      BY <2>3 DEF Terminate, Kill, streams, IInv, TypeOK
    <2> QED BY <2>1, <2>2, <2>3 DEF MainStep
  <1>2. UNCHANGED <<pipe, wrote, kept, reader, stop, expired, holders>>
    BY DEF MainStep, PollProcess, CheckDrained, CheckStop, CheckDeadline, Terminate, Kill, Join,
           Close, streams, group
  <1>3. OutputFits'
    BY <1>2 DEF IInv, OutputFits, Over
  <1>4. \A p \in Members : Alive(p)' => Alive(p)
    BY DEF MainStep, PollProcess, CheckDrained, CheckStop, CheckDeadline, Terminate, Kill, Join,
           Close, group, Alive, Members
  <1>5. GroupAlive' => GroupAlive
    BY <1>4 DEF GroupAlive
  <1>6. ReadersFit'
    <2>1. \A s \in Streams : holders[s] \subseteq Members
      BY DEF IInv, TypeOK
    <2>2. \A s \in Streams : Open(s)' => Open(s)
      BY <1>2, <1>4, <2>1 DEF Open
    <2> QED BY <1>2, <2>2 DEF IInv, ReadersFit, Over
  <1>7. MainFits'
    <2>1. (Drained <=> Drained') /\ \A s \in Streams : Over(s) <=> Over(s)'
      BY <1>2 DEF Drained, Over
    <2>2. CASE Kill
      <3>1. ~ GroupAlive'
        BY <2>2, GroupIs DEF Kill, GroupAlive, Alive, Members
      <3> QED BY <1>2, <2>1, <2>2, <3>1 DEF Kill, IInv, MainFits, Ending
    <2>3. CASE Terminate
      BY <1>2, <1>5, <2>1, <2>3 DEF Terminate, IInv, MainFits, Ending
    <2>4. CASE PollProcess \/ CheckDrained \/ CheckStop \/ CheckDeadline \/ Join \/ Close
      <3>1. leader' = leader
        BY <2>4 DEF PollProcess, CheckDrained, CheckStop, CheckDeadline, Join, Close, group
      <3> QED BY <1>2, <1>5, <2>1, <2>4, <3>1
              DEF PollProcess, CheckDrained, CheckStop, CheckDeadline, Join, Close, IInv, MainFits,
                  Ending
    <2> QED BY <2>2, <2>3, <2>4 DEF MainStep
  <1>8. TextFits'
    <2>1. CASE Close
      BY <2>1, CloseTells
    <2>2. CASE ~ Close
      BY <2>2 DEF MainStep, PollProcess, CheckDrained, CheckStop, CheckDeadline, Terminate, Kill,
                  Join, TextFits
    <2> QED BY <2>1, <2>2
  <1> QED BY <1>1, <1>3, <1>6, <1>7, <1>8 DEF IInv

LEMMA IInvStep == IInv /\ [Next]_vars => IInv'
  <1> SUFFICES ASSUME IInv, [Next]_vars PROVE IInv'
    OBVIOUS
  <1>1. CASE UNCHANGED vars
    <2>1. UNCHANGED <<main, streams, group, writer, expired>>
      BY <1>1 DEF vars
    <2>2. TypeOK'
      BY <2>1 DEF main, streams, group, IInv, TypeOK
    <2>3. /\ GroupAlive' => GroupAlive
          /\ \A s \in Streams : Open(s)' => Open(s)
          /\ UNCHANGED leader
      BY <2>1 DEF group, GroupAlive, Open, Alive
    <2> QED BY <2>1, <2>2, <2>3, FrameStep
  <1>2. CASE Next
    BY <1>1, <1>2, WriteStep, ProcessStep, ReadStep, EofStep, MainStepKeeps DEF Next, Returned
  <1> QED BY <1>1, <1>2

-----------------------------------------------------------------------------
(* Every variable keeps its type.                                          *)
THEOREM TypeCorrect == Spec => []TypeOK
  <1>1. IInv => TypeOK
    BY DEF IInv
  <1> QED BY InitInv, IInvStep, <1>1, PTL DEF Spec

(* A result "completed" or "failed" is the whole output of a process group *)
(* that can write no more of it.                                           *)
THEOREM FinishedIsComplete == Spec => []FinishedMeansComplete
  <1>1. ASSUME IInv PROVE FinishedMeansComplete
    <2> SUFFICES ASSUME pc = "returned", Status \in {"completed", "failed"}, NEW s \in Streams
                 PROVE  ~ Open(s) /\ kept[s] = wrote[s] /\ wrote[s] <= Limit /\ text[s] <= Limit
      BY DEF FinishedMeansComplete
    <2>1. ~ timedOut /\ \A r \in Streams : ~ (text[r] > Limit)
      BY DEF Status, Streams
    <2>2. \A r \in Streams : text[r] \in Nat /\ kept[r] \in Nat /\ Limit \in Nat
      BY <1>1, SizesAssumption DEF IInv, TypeOK
    <2>3. \A r \in Streams : text[r] <= Limit
      BY <2>1, <2>2
    <2>4. Drained /\ \A r \in Streams : kept[r] <= text[r]
      BY <1>1, <2>1, <2>3 DEF IInv, TextFits
    <2>5. ~ Over(s)
      BY <2>2, <2>3, <2>4 DEF Over
    <2>6. ~ Open(s) /\ pipe[s] = 0
      BY <1>1, <2>4, <2>5 DEF IInv, ReadersFit, Drained
    <2> QED BY <1>1, <2>3, <2>5, <2>6, SizesAssumption DEF IInv, OutputFits, Over
  <1> QED BY InitInv, IInvStep, <1>1, PTL DEF Spec

(* Whom the supervisor signalled is gone, and a stream that a result       *)
(* blames was over its limit, or was not UTF-8.                            *)
THEOREM TimeoutsStopTheGroup == Spec => []TimeoutStopsGroup
  <1>1. ASSUME IInv PROVE TimeoutStopsGroup
    <2> SUFFICES ASSUME pc = "returned"
                 PROVE  /\ Status = "timeout" => expired /\ ~ GroupAlive
                        /\ Status = "output_too_large" => Exceeded("stdout")
                        /\ Status = "error_output_too_large" => Exceeded("stderr")
                        /\ leader = "killed" => ~ GroupAlive
      BY DEF TimeoutStopsGroup
    <2>1. /\ Status = "timeout" => timedOut
          /\ Status = "output_too_large" => text["stdout"] > Limit
          /\ Status = "error_output_too_large" => text["stderr"] > Limit
      BY DEF Status
    <2>2. timedOut => expired /\ ~ GroupAlive
      BY <1>1 DEF IInv, MainFits, Ending
    <2>3. ASSUME NEW s \in Streams, text[s] > Limit PROVE Exceeded(s)
      <3>1. /\ text[s] \in Nat /\ kept[s] \in Nat /\ wrote[s] \in Nat /\ pipe[s] \in Nat
            /\ Limit \in Nat /\ kept[s] + pipe[s] <= wrote[s]
        BY <1>1, SizesAssumption DEF IInv, TypeOK, OutputFits
      <3> QED BY <2>3, <3>1 DEF Exceeded
    <2>4. leader = "killed" => ~ GroupAlive
      BY <1>1 DEF IInv, MainFits
    <2> QED BY <2>1, <2>2, <2>3, <2>4 DEF Streams
  <1> QED BY InitInv, IInvStep, <1>1, PTL DEF Spec

-----------------------------------------------------------------------------
(* The exit the supervisor saw is one that happened, and it leaves its     *)
(* loop only for a process that is gone.                                   *)
LeaderGone == (seenExit => leader # "running") /\ (pc \in Ending => leader # "running")

LEMMA LeaderGoneStep == IInv /\ LeaderGone /\ [Next]_vars => LeaderGone'
  <1> SUFFICES ASSUME IInv, LeaderGone, [Next]_vars PROVE LeaderGone'
    OBVIOUS
  <1>1. CASE MainStep
    <2>1. CASE PollProcess
      <3>1. pc' = "drained" /\ leader' = leader
        BY <2>1 DEF PollProcess, Goto, group
      <3>2. seenExit' => leader # "running"
        BY <2>1, Zenon DEF PollProcess
      <3> QED BY <3>1, <3>2 DEF LeaderGone, Ending
    <2>2. CASE CheckDrained \/ CheckStop \/ CheckDeadline \/ Join \/ Close
      <3>1. UNCHANGED <<seenExit, leader>>
        BY <2>2 DEF CheckDrained, CheckStop, CheckDeadline, Join, Close, group
      <3>2. pc' \in Ending => seenExit \/ pc \in Ending
        BY <2>2 DEF CheckDrained, CheckStop, CheckDeadline, Join, Close, Goto, Ending
      <3> QED BY <3>1, <3>2 DEF LeaderGone
    <2>3. CASE Terminate \/ Kill
      <3>1. /\ seenExit' = seenExit /\ (leader # "running" => leader' # "running")
            /\ pc' \in Ending => leader' # "running"
        BY <2>3 DEF Terminate, Kill, Goto, Ending
      <3> QED BY <3>1 DEF LeaderGone
    <2> QED BY <1>1, <2>1, <2>2, <2>3 DEF MainStep
  <1>2. ASSUME NEW s \in Streams, Write(s) \/ Read(s) \/ ReadEof(s) PROVE LeaderGone'
    <2>1. UNCHANGED <<pc, seenExit, leader>>
      BY <1>2 DEF Write, Read, ReadEof, main, group
    <2> QED BY <2>1 DEF LeaderGone
  <1>3. ASSUME \/ WriterDone \/ Fork \/ ChildExits \/ TimePasses \/ Returned \/ UNCHANGED vars
               \/ \E p \in Members, s \in Streams : LetGo(p, s)
        PROVE  LeaderGone'
    <2>1. UNCHANGED <<pc, seenExit, leader>>
      BY <1>3 DEF WriterDone, Fork, ChildExits, TimePasses, Returned, LetGo, main, group, vars
    <2> QED BY <2>1 DEF LeaderGone
  <1>4. CASE LeaderExits
    BY <1>4 DEF LeaderExits, LeaderGone, main
  <1> QED BY <1>1, <1>2, <1>3, <1>4 DEF Next

(* What the comment of _terminate_process promises (see NoDescendantsLeft) *)
(* fails in one way only: once the supervisor has left its loop, anybody   *)
(* left of the group is a descendant that outlived a process which exited  *)
(* by itself, the deadline played no part, and each stream exceeded its    *)
(* limit or was read to the end and let go of by everyone alive.           *)
SurvivorStory ==
    pc \in Ending /\ GroupAlive =>
        /\ child = "alive" /\ leader = "exited" /\ ~ timedOut
        /\ \A s \in Streams : wrote[s] > Limit \/ (~ Open(s) /\ kept[s] = wrote[s])

THEOREM SurvivorsAreOverLimitOrSilent == Spec => []SurvivorStory
  <1>1. Init => LeaderGone
    BY DEF Init, LeaderGone, Ending
  <1>2. ASSUME IInv, LeaderGone PROVE SurvivorStory
    <2> SUFFICES ASSUME pc \in Ending, GroupAlive
                 PROVE  /\ child = "alive" /\ leader = "exited" /\ ~ timedOut
                        /\ \A s \in Streams : wrote[s] > Limit \/ (~ Open(s) /\ kept[s] = wrote[s])
      BY DEF SurvivorStory
    <2>1. Drained /\ ~ timedOut
      BY <1>2 DEF IInv, MainFits
    <2>2. leader = "exited" /\ child = "alive"
      <3>1. leader # "running" /\ child = "alive"
        BY <1>2, GroupIs DEF LeaderGone
      <3>2. leader # "killed"
        BY <1>2 DEF IInv, MainFits, Ending
      <3> QED BY <1>2, <3>1, <3>2 DEF IInv, TypeOK
    <2>3. \A s \in Streams : Over(s) \/ (pipe[s] = 0 /\ ~ Open(s))
      BY <1>2, <2>1 DEF IInv, ReadersFit, Drained
    <2>4. \A s \in Streams : wrote[s] > Limit \/ (~ Open(s) /\ kept[s] = wrote[s])
      BY <1>2, <2>3, SizesAssumption DEF IInv, OutputFits, Over
    <2> QED BY <2>1, <2>2, <2>4
  <1> QED BY InitInv, IInvStep, LeaderGoneStep, <1>1, <1>2, PTL DEF Spec

-----------------------------------------------------------------------------
(* The supervisor's loop ends: when the deadline has passed, or a reader   *)
(* has ordered the stop before the loop asked for it in this round, the    *)
(* supervisor only moves on through what it has left to do, and comes back *)
(* to no earlier step, whatever the process group does meanwhile.          *)
Rank ==
    [poll |-> 0, drained |-> 1, stopped |-> 2, deadline |-> 3, sigterm |-> 4, sigkill |-> 5,
     join |-> 6, close |-> 7, returned |-> 8]

LastRound == expired \/ (stop /\ pc # "deadline")

LoopEnds == [][LastRound => LastRound' /\ (pc' = pc \/ Rank[pc'] > Rank[pc])]_vars

THEOREM SupervisorLeavesItsLoop == Spec => LoopEnds
<1>1. ASSUME IInv, LastRound, Next PROVE LastRound' /\ (pc' = pc \/ Rank[pc'] > Rank[pc])
  <2>1. CASE MainStep
    <3>1. UNCHANGED <<expired, stop>>
      BY <2>1 DEF MainStep, PollProcess, CheckDrained, CheckStop, CheckDeadline, Terminate, Kill,
                  Join, Close, streams
    <3>2. pc' # "poll"
      BY <1>1, <2>1 DEF MainStep, PollProcess, CheckDrained, CheckStop, CheckDeadline, Terminate,
                  Kill, Join, Close, Goto, LastRound
    <3>3. Rank[pc'] > Rank[pc]
      BY <1>1, <2>1, <3>2 DEF MainStep, PollProcess, CheckDrained, CheckStop, CheckDeadline,
                  Terminate, Kill, Join, Close, Goto, Rank
    <3>4. LastRound'
      BY <1>1, <2>1, <3>1 DEF MainStep, PollProcess, CheckDrained, CheckStop, CheckDeadline,
                  Terminate, Kill, Join, Close, Goto, LastRound
    <3> QED BY <3>3, <3>4
  <2>2. ASSUME ~ MainStep PROVE pc' = pc /\ (expired => expired') /\ (stop => stop')
    <3>1. ASSUME NEW s \in Streams, Write(s) \/ Read(s) \/ ReadEof(s)
          PROVE  pc' = pc /\ (expired => expired') /\ (stop => stop')
      <4>1. pc' = pc /\ (expired => expired')
        BY <3>1 DEF Write, Read, ReadEof, main
      <4>2. ASSUME Write(s) \/ ReadEof(s) PROVE stop => stop'
        BY <4>2 DEF Write, ReadEof
      <4>3. ASSUME Read(s) PROVE stop => stop'
        <5>1. PICK n \in 1..pipe[s] :
                 LET size == IF kept[s] + n > Limit + 1 THEN Limit + 1 ELSE kept[s] + n IN
                 stop' = (stop \/ size > Limit)
          BY <4>3, Zenon DEF Read
        <5> QED BY <5>1, Zenon
      <4> QED BY <3>1, <4>1, <4>2, <4>3
    <3>2. ASSUME \/ WriterDone \/ Fork \/ LeaderExits \/ ChildExits \/ TimePasses \/ Returned
                 \/ \E p \in Members, s \in Streams : LetGo(p, s)
          PROVE  pc' = pc /\ (expired => expired') /\ (stop => stop')
      BY <3>2 DEF WriterDone, Fork, LeaderExits, ChildExits, TimePasses, Returned, LetGo, main,
                  streams, vars
    <3> QED BY <1>1, <2>2, <3>1, <3>2 DEF Next
  <2>3. CASE ~ MainStep
    BY <1>1, <2>2, <2>3, Zenon DEF LastRound
  <2> QED BY <2>1, <2>3
<1>2. IInv /\ [Next]_vars
        => [LastRound => LastRound' /\ (pc' = pc \/ Rank[pc'] > Rank[pc])]_vars
  BY <1>1
<1> QED BY InitInv, IInvStep, <1>2, PTL DEF Spec, LoopEnds
=============================================================================
