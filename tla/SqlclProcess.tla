---------------------------- MODULE SqlclProcess ----------------------------
(***************************************************************************)
(* agent_runtime/sqlcl_runner.py, _run_subprocess_with_stream_limits: a    *)
(* SQLcl process is started in a process group of its own and supervised   *)
(* by the calling thread, while three daemon threads feed its stdin and    *)
(* collect its stdout and stderr up to a limit.  The supervisor stops the  *)
(* group when a stream exceeds its limit or the deadline passes.           *)
(*                                                                         *)
(* The process may start a descendant in its group that inherits the       *)
(* pipes; either may let go of a stream (close or redirect it) at any time *)
(* and live on.  Output is counted in bytes; a pipe holds at most PipeSize.*)
(***************************************************************************)
EXTENDS Naturals, FiniteSets

CONSTANTS
    Limit,      \* max_stdout_bytes = max_stderr_bytes
    PipeSize,   \* capacity of a pipe
    MaxOutput   \* bound: bytes the group writes to one stream

ASSUME SizesAssumption == {Limit, PipeSize, MaxOutput} \subseteq Nat \ {0}

VARIABLES
    pc,        \* the step the supervising thread is at
    leader,    \* the SQLcl process: "running", "exited" or "killed"
    code,      \* its exit code when it exited by itself
    child,     \* a descendant in its group: "none", "alive" or "dead"
    holders,   \* holders[s]: who has not let go of stream s
    pipe,      \* pipe[s]: bytes in the pipe of stream s
    wrote,     \* wrote[s]: bytes the group has written to s
    kept,      \* kept[s]: bytes in the buffer of s's reader
    text,      \* text[s]: length in bytes of the text of s in the result
    reader,    \* reader[s]: "reading" or "done"
    writer,    \* the stdin thread: "writing" or "done"
    stop,      \* the stop_process event
    expired,   \* whether the deadline has passed
    seenExit,  \* process_exited in the current round of the loop
    timedOut   \* timed_out

group == <<leader, code, child, holders>>
streams == <<pipe, wrote, kept, reader, stop>>
main == <<pc, seenExit, timedOut, text>>
vars == <<main, group, streams, writer, expired>>

Streams == {"stdout", "stderr"}
Members == {"leader", "child"}

Init ==
    /\ pc = "poll" /\ seenExit = FALSE /\ timedOut = FALSE /\ text = [s \in Streams |-> 0]
    /\ leader = "running" /\ code = 0 /\ child = "none"
    /\ holders = [s \in Streams |-> {"leader"}]
    /\ pipe = [s \in Streams |-> 0] /\ wrote = [s \in Streams |-> 0]
    /\ kept = [s \in Streams |-> 0] /\ reader = [s \in Streams |-> "reading"]
    /\ stop = FALSE /\ writer = "writing" /\ expired = FALSE

Alive(p) == IF p = "leader" THEN leader = "running" ELSE child = "alive"

(* Somebody in the group is alive.                                         *)
GroupAlive == \E p \in Members : Alive(p)

(* Somebody alive can still write to the pipe of s.                        *)
Open(s) == \E p \in holders[s] : Alive(p)

-----------------------------------------------------------------------------
(* The process group.                                                      *)
Write(s) ==
    /\ Open(s) /\ pipe[s] < PipeSize /\ wrote[s] < MaxOutput
    /\ pipe' = [pipe EXCEPT ![s] = @ + 1]
    /\ wrote' = [wrote EXCEPT ![s] = @ + 1]
    /\ UNCHANGED <<main, group, kept, reader, stop, writer, expired>>

Fork ==
    /\ leader = "running" /\ child = "none"
    /\ child' = "alive"
    /\ holders' = [s \in Streams |-> IF "leader" \in holders[s] THEN Members ELSE {}]
    /\ UNCHANGED <<main, leader, code, streams, writer, expired>>

(* p closes a stream or redirects it away from the pipe.                   *)
LetGo(p, s) ==
    /\ Alive(p) /\ p \in holders[s]
    /\ holders' = [holders EXCEPT ![s] = @ \ {p}]
    /\ UNCHANGED <<main, leader, code, child, streams, writer, expired>>

LeaderExits ==
    /\ leader = "running"
    /\ leader' = "exited" /\ code' \in {0, 1}
    /\ UNCHANGED <<main, child, holders, streams, writer, expired>>

ChildExits ==
    /\ child = "alive" /\ child' = "dead"
    /\ UNCHANGED <<main, leader, code, holders, streams, writer, expired>>

-----------------------------------------------------------------------------
(* The daemon threads.                                                     *)

(* Mutation: the chunk that exceeds the limit is kept whole.               *)
ReadWhole(s) ==
    /\ reader[s] = "reading" /\ pipe[s] > 0
    /\ \E n \in 1..pipe[s] :
          /\ pipe' = [pipe EXCEPT ![s] = @ - n]
          /\ kept' = [kept EXCEPT ![s] = @ + n]
          /\ reader' = [reader EXCEPT ![s] = IF kept[s] + n > Limit THEN "done" ELSE "reading"]
          /\ stop' = (stop \/ kept[s] + n > Limit)
    /\ UNCHANGED <<main, group, wrote, writer, expired>>

(* A chunk is kept up to one unit more than the limit; more than the limit *)
(* stops the process and ends the thread.                                  *)
Read(s) ==
    /\ reader[s] = "reading" /\ pipe[s] > 0
    /\ \E n \in 1..pipe[s] :
          LET size == IF kept[s] + n > Limit + 1 THEN Limit + 1 ELSE kept[s] + n IN
          /\ pipe' = [pipe EXCEPT ![s] = @ - n]
          /\ kept' = [kept EXCEPT ![s] = size]
          /\ reader' = [reader EXCEPT ![s] = IF size > Limit THEN "done" ELSE "reading"]
          /\ stop' = (stop \/ size > Limit)
    /\ UNCHANGED <<main, group, wrote, writer, expired>>

(* End of file: the pipe is empty and nobody can write to it any more.     *)
ReadEof(s) ==
    /\ reader[s] = "reading" /\ pipe[s] = 0 /\ ~ Open(s)
    /\ reader' = [reader EXCEPT ![s] = "done"]
    /\ UNCHANGED <<main, group, pipe, wrote, kept, stop, writer, expired>>

(* The script fits in the pipe or is read, or the pipe breaks.             *)
WriterDone ==
    /\ writer = "writing" /\ writer' = "done"
    /\ UNCHANGED <<main, group, streams, expired>>

-----------------------------------------------------------------------------
(* The supervising thread.                                                 *)
Goto(here, next) == pc = here /\ pc' = next

PollProcess ==
    /\ Goto("poll", "drained")
    /\ seenExit' = (leader # "running")
    /\ UNCHANGED <<timedOut, text, group, streams, writer, expired>>

Drained == \A s \in Streams : reader[s] = "done"

(* Mutation: an exited process is taken for a finished one.                *)
CheckExitOnly ==
    /\ Goto("drained", IF seenExit THEN "join" ELSE "stopped")
    /\ UNCHANGED <<seenExit, timedOut, text, group, streams, writer, expired>>

CheckDrained ==
    /\ Goto("drained", IF seenExit /\ Drained THEN "join" ELSE "stopped")
    /\ UNCHANGED <<seenExit, timedOut, text, group, streams, writer, expired>>

CheckStop ==
    /\ Goto("stopped", IF stop THEN "sigterm" ELSE "deadline")
    /\ UNCHANGED <<seenExit, timedOut, text, group, streams, writer, expired>>

(* Mutation: the deadline counts only while the process itself runs.       *)
CheckDeadlineOfLeader ==
    /\ Goto("deadline", IF expired /\ ~ seenExit THEN "sigterm" ELSE "poll")
    /\ timedOut' = (expired /\ ~ seenExit)
    /\ UNCHANGED <<seenExit, text, group, streams, writer, expired>>

CheckDeadline ==
    /\ Goto("deadline", IF expired THEN "sigterm" ELSE "poll")
    /\ timedOut' = expired
    /\ UNCHANGED <<seenExit, text, group, streams, writer, expired>>

(* _terminate_process: anyone in the group may ignore SIGTERM; after at    *)
(* most a second of grace SIGKILL goes to the whole group, whether or not  *)
(* the leader has gone.                                                    *)
Terminate ==
    /\ Goto("sigterm", "sigkill")
    /\ leader' \in (IF leader = "running" THEN {"running", "killed"} ELSE {leader})
    /\ child' \in (IF child = "alive" THEN {"alive", "dead"} ELSE {child})
    /\ UNCHANGED <<seenExit, timedOut, text, code, holders, streams, writer, expired>>

(* Mutation: no escalation once the leader is gone.                        *)
KillLeader ==
    /\ Goto("sigkill", "join")
    /\ leader' = IF leader = "running" THEN "killed" ELSE leader
    /\ child' = IF leader = "running" /\ child = "alive" THEN "dead" ELSE child
    /\ UNCHANGED <<seenExit, timedOut, text, code, holders, streams, writer, expired>>

Kill ==
    /\ Goto("sigkill", "join")
    /\ leader' = IF leader = "running" THEN "killed" ELSE leader
    /\ child' = IF child = "alive" THEN "dead" ELSE child
    /\ UNCHANGED <<seenExit, timedOut, text, code, holders, streams, writer, expired>>

(* Each thread is joined for at most a second, finished or not.            *)
Join ==
    /\ Goto("join", "close")
    /\ UNCHANGED <<seenExit, timedOut, text, group, streams, writer, expired>>

(* Closing stdin needs the lock its writer thread holds while it writes.   *)
(* Then the buffers become text: valid UTF-8 keeps its length; one to      *)
(* three bytes that are not UTF-8 become a replacement character of three  *)
(* bytes.  These lengths are what the result is judged by.                 *)
Close ==
    /\ writer = "done"
    /\ Goto("close", "returned")
    /\ text' \in [Streams -> 0..3 * (Limit + 1)]
    /\ \A s \in Streams : kept[s] <= text'[s] /\ text'[s] <= 3 * kept[s]
    /\ UNCHANGED <<seenExit, timedOut, group, streams, writer, expired>>

TimePasses ==
    /\ ~ expired /\ expired' = TRUE
    /\ UNCHANGED <<main, group, streams, writer>>

Returned == pc = "returned" /\ UNCHANGED vars

MainStep ==
    \/ PollProcess \/ CheckDrained \/ CheckStop \/ CheckDeadline
    \/ Terminate \/ Kill \/ Join \/ Close

Next ==
    \/ MainStep
    \/ \E s \in Streams : Write(s) \/ Read(s) \/ ReadEof(s)
    \/ \E p \in Members, s \in Streams : LetGo(p, s)
    \/ WriterDone \/ Fork \/ LeaderExits \/ ChildExits \/ TimePasses
    \/ Returned

(* The supervisor and the readers are scheduled, time passes, and a write  *)
(* to a pipe nobody can read any more fails.  The process group owes       *)
(* nothing: it may neither read, write nor exit.                           *)
Fairness ==
    /\ WF_vars(MainStep) /\ WF_vars(TimePasses)
    /\ \A s \in Streams : WF_vars(Read(s) \/ ReadEof(s))
    /\ WF_vars(WriterDone /\ ~ GroupAlive)

Spec == Init /\ [][Next]_vars /\ Fairness

-----------------------------------------------------------------------------
(* SqlclRunnerResult.status, from the raised TimeoutExpired or the result. *)
Status ==
    IF timedOut THEN "timeout"
    ELSE IF text["stdout"] > Limit THEN "output_too_large"
    ELSE IF text["stderr"] > Limit THEN "error_output_too_large"
    ELSE IF leader = "exited" /\ code = 0 THEN "completed" ELSE "failed"

TypeOK ==
    /\ pc \in {"poll", "drained", "stopped", "deadline", "sigterm", "sigkill", "join",
               "close", "returned"}
    /\ leader \in {"running", "exited", "killed"} /\ code \in {0, 1}
    /\ child \in {"none", "alive", "dead"} /\ holders \in [Streams -> SUBSET Members]
    /\ pipe \in [Streams -> 0..PipeSize] /\ wrote \in [Streams -> 0..MaxOutput]
    /\ kept \in [Streams -> 0..Limit + 1] /\ reader \in [Streams -> {"reading", "done"}]
    /\ text \in [Streams -> 0..3 * (Limit + 1)]
    /\ writer \in {"writing", "done"}
    /\ {stop, expired, seenExit, timedOut} \subseteq BOOLEAN

(* A result is "completed" or "failed" with nothing missing: all that the  *)
(* process and its descendants ever wrote was within the limits and is in  *)
(* the result, and nobody is left who could write more.                    *)
FinishedMeansComplete ==
    pc = "returned" /\ Status \in {"completed", "failed"} =>
        \A s \in Streams :
            ~ Open(s) /\ kept[s] = wrote[s] /\ wrote[s] <= Limit /\ text[s] <= Limit

(* More was written to s than the limit allows, or what was read of it is  *)
(* not UTF-8 and has grown in the decoding.                                *)
Exceeded(s) == wrote[s] > Limit \/ text[s] > kept[s]

(* Whoever the supervisor signalled is gone when it returns, also one that *)
(* ignored SIGTERM or outlived the leader; and what a result blames really *)
(* happened.                                                               *)
TimeoutStopsGroup ==
    pc = "returned" =>
        /\ Status = "timeout" => expired /\ ~ GroupAlive
        /\ Status = "output_too_large" => Exceeded("stdout")
        /\ Status = "error_output_too_large" => Exceeded("stderr")
        /\ leader = "killed" => ~ GroupAlive

(* A comment of _terminate_process: the timeout and output-limit paths "do *)
(* not leave descendants alive".                                           *)
NoDescendantsLeft ==
    pc = "returned" /\ (timedOut \/ \E s \in Streams : kept[s] > Limit) => ~ GroupAlive

(* Whatever the process group does with its pipes, signals and exits, the  *)
(* caller gets its result; only a descendant that outlived the supervision *)
(* and does not read its stdin can hold it up.                             *)
DescendantHoldsStdin == pc = "close" /\ GroupAlive /\ writer = "writing"

SupervisorReturns == <>(pc = "returned" \/ DescendantHoldsStdin)
=============================================================================
