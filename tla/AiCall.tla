------------------------------- MODULE AiCall -------------------------------
(***************************************************************************)
(* internal/opencode: one call of the AI provider.  The opencode CLI is a  *)
(* child process that writes to two pipes; execCommand reads the first to  *)
(* its end, then the second, then waits for the child.  The HTTP provider  *)
(* has a client timeout.  A call shares nothing with others.               *)
(***************************************************************************)
EXTENDS Naturals

CONSTANTS
    PipeSize,   \* what a pipe holds before its writer blocks
    MaxOutput   \* what the child writes to a pipe, at most

ASSUME AiCallAssumption == PipeSize \in Nat \ {0} /\ MaxOutput \in Nat

VARIABLES
    call,       \* the caller: where it is, its provider, whether its context
                \* has a deadline, and its reply
    child,      \* the child process
    output,     \* what the child writes to each pipe in all
    pipe,       \* what is in each pipe
    got         \* what the caller has read from each pipe

callVars == <<call, child, output, pipe, got>>

Streams == {"stdout", "stderr"}

Nothing == [stream \in Streams |-> 0]

AiCallTypeOK ==
    /\ call \in [pc : {"idle", "http", "stdout", "stderr", "wait", "ended"},
                 deadline : BOOLEAN, reply : {"none", "text", "error"}]
    /\ child \in {"none", "running", "exited 0", "exited 1", "killed"}
    /\ output \in [Streams -> 0..MaxOutput]
    /\ pipe \in [Streams -> 0..PipeSize]
    /\ got \in [Streams -> 0..MaxOutput]

AiCallInit ==
    /\ call = [pc |-> "idle", deadline |-> FALSE, reply |-> "none"]
    /\ child = "none"
    /\ output = Nothing /\ pipe = Nothing /\ got = Nothing

-----------------------------------------------------------------------------
Reply(reply) == call' = [call EXCEPT !.pc = "ended", !.reply = reply]

\* runAIProvider: the summary handler's context has a deadline, the sweeps'
\* has none.  A command that does not start and a provider without a model
\* are errors at once.
RunAIProvider ==
    /\ call.pc = "idle"
    /\ \E deadline \in BOOLEAN :
         \/ /\ call' = [call EXCEPT !.pc = "http", !.deadline = deadline]
            /\ UNCHANGED <<child, output>>
         \/ /\ call' = [call EXCEPT !.pc = "stdout", !.deadline = deadline]
            /\ child' = "running"
            /\ output' \in [Streams -> 0..MaxOutput]
         \/ /\ Reply("error")
            /\ UNCHANGED <<child, output>>
    /\ UNCHANGED <<pipe, got>>

\* openAICompletion: an answer, an error, or the client's 90 seconds.
EndHttp ==
    /\ call.pc = "http"
    /\ \E reply \in {"text", "error"} : Reply(reply)
    /\ UNCHANGED <<child, output, pipe, got>>

\* The child writes to its pipes in any order, waits while one is full, and
\* exits when it has written everything.
Left(stream) == output[stream] - got[stream] - pipe[stream]

ChildWrites(stream) ==
    /\ child = "running"
    /\ Left(stream) > 0 /\ pipe[stream] < PipeSize
    /\ pipe' = [pipe EXCEPT ![stream] = @ + 1]
    /\ UNCHANGED <<call, child, output, got>>

ChildExits ==
    /\ child = "running"
    /\ \A stream \in Streams : Left(stream) = 0
    /\ child' \in {"exited 0", "exited 1"}
    /\ UNCHANGED <<call, output, pipe, got>>

\* exec.CommandContext kills the child when the context ends.
DeadlineKills ==
    /\ call.deadline /\ child = "running"
    /\ child' = "killed"
    /\ UNCHANGED <<call, output, pipe, got>>

\* Variant with a bug: the pipes are closed when the child has ended, as Wait
\* does it, whether or not they are read to the end.
AtEndEarly(stream) == child # "running"

\* io.ReadAll returns when the pipe is empty and its writer is gone.
AtEnd(stream) == pipe[stream] = 0 /\ child # "running"

\* execCommand: stdout to its end, then stderr.
ReadAll(stream) ==
    /\ call.pc = stream
    /\ \/ /\ pipe[stream] > 0
          /\ got' = [got EXCEPT ![stream] = @ + pipe[stream]]
          /\ pipe' = [pipe EXCEPT ![stream] = 0]
          /\ UNCHANGED call
       \/ /\ AtEnd(stream)
          /\ call' = [call EXCEPT !.pc = IF stream = "stdout" THEN "stderr" ELSE "wait"]
          /\ UNCHANGED <<got, pipe>>
    /\ UNCHANGED <<child, output>>

\* runOpenCodeCommand after Wait: the text events of the output, if any, of a
\* child that exited with 0; an error with what both pipes said otherwise.
EndCommand ==
    /\ call.pc = "wait"
    /\ \/ Reply("error")
       \/ child = "exited 0" /\ got["stdout"] > 0 /\ Reply("text")
    /\ UNCHANGED <<child, output, pipe, got>>

Proceed ==
    \/ EndHttp \/ ChildExits \/ DeadlineKills \/ EndCommand
    \/ \E stream \in Streams : ChildWrites(stream) \/ ReadAll(stream)

AiCallNext == RunAIProvider \/ Proceed

\* The child runs, deadlines pass and reads return.
AiCallFairness == WF_callVars(Proceed)

AiCallSpec == AiCallInit /\ [][AiCallNext]_callVars /\ AiCallFairness

-----------------------------------------------------------------------------
\* A text that is the reply of a child was read from all that it wrote, and
\* the child wrote no more to stderr than the pipe holds: it would otherwise
\* have waited for a reader that waits for its stdout to end.
NothingLost ==
    call.reply = "text" /\ child # "none" =>
      got = output /\ output["stderr"] <= PipeSize

\* The child waits for its reader, the reader for the child, and no deadline
\* ends it.
MayHang == child # "none" /\ ~call.deadline /\ output["stderr"] > PipeSize

\* Every call ends, except one without a deadline whose child has more to say
\* on stderr than the pipe holds.
CallEnds == call.pc # "idle" ~> call.pc = "ended" \/ MayHang
=============================================================================
