--------------------------- MODULE DetachedRemote ---------------------------
(***************************************************************************)
(* A detached execution of the ssh and ssm methods: what the start, poll   *)
(* and kill scripts do to the directory of one run on the remote host, and *)
(* what the orchestrator makes of the polls over the attempts of the run.  *)
(*                                                                         *)
(* The two methods run the same scripts.  The directory is named after the *)
(* run, so all attempts of the run share it.  Each test or read of a file  *)
(* by a script is a step; the commands of the attempts go on meanwhile.    *)
(* Of the two output files, which are handled alike, one is modelled.      *)
(*                                                                         *)
(* RunLifecycle abstracts an execution to how it ends and assumes that a   *)
(* poll says so; this module is what these two methods do instead.         *)
(***************************************************************************)
EXTENDS Naturals, Sequences, SequencesExt

CONSTANTS
    MaxAttempts,   \* processes.max_attempts
    MaxLines,      \* bound: lines of output of one command
    AnswersLost    \* the connection may break after the start script has run

ASSUME RemoteAssumption ==
    MaxAttempts \in Nat \ {0} /\ MaxLines \in Nat /\ AnswersLost \in BOOLEAN

Attempts == 1 .. MaxAttempts

VARIABLES
    (* The remote host. *)
    command,    \* the command of an attempt
    lines,      \* lines it has written
    shell,      \* the sh -lc around it, whose pid is in the pid file
    log,        \* stdout.log
    exitCode,   \* exit_code
    killMark,   \* kill_requested exists
    (* The runs row and run_output. *)
    row,        \* runs.state
    attempt,    \* runs.attempt; the pid file holds the pid of its shell
    offset,     \* runs.stdout_offset
    stored,     \* run_output of the run, in order
    (* The orchestrator loop and its poll of the run. *)
    pc,
    seen,       \* the state of the row when it was listed
    size,       \* wc -c of the log
    chunk,      \* what dd read
    verdict,    \* the state and
    code        \* the exit code of the poll payload

remote == <<command, lines, shell, log, exitCode, killMark>>
record == <<row, attempt, offset, stored>>
report == <<seen, size, chunk, verdict, code>>
vars   == <<remote, record, pc, report>>

Codes == {"none", "zero", "nonzero"}

Lines == Attempts \X (1 .. MaxLines)

\* The files, the row and the payload of a poll hold what the scripts and the
\* orchestrator can put there.
TypeOK ==
    /\ command \in [Attempts -> {"none", "running", "zero", "nonzero"}]
    /\ lines \in [Attempts -> 0 .. MaxLines]
    /\ shell \in [Attempts -> {"none", "alive", "dead"}]
    /\ log \in Seq(Lines) /\ stored \in Seq(Lines) /\ chunk \in Seq(Lines)
    /\ exitCode \in Codes /\ code \in Codes
    /\ killMark \in BOOLEAN
    /\ row \in {"pending", "running", "kill_requested", "retrying", "completed",
                "failed", "killed"}
    /\ attempt \in 0 .. MaxAttempts
    /\ offset \in Nat /\ size \in Nat
    /\ pc \in {"start", "loop", "mark", "term", "list", "size", "read", "exit", "alive",
               "append", "finish", "over"}
    /\ seen \in {"running", "kill_requested"}
    /\ verdict \in {"running", "completed", "failed", "killed"}

Init ==
    /\ command = [a \in Attempts |-> "none"]
    /\ lines = [a \in Attempts |-> 0]
    /\ shell = [a \in Attempts |-> "none"]
    /\ log = <<>> /\ stored = <<>> /\ chunk = <<>>
    /\ exitCode = "none" /\ code = "none"
    /\ killMark = FALSE
    /\ row = "pending"
    /\ attempt = 0
    /\ offset = 0 /\ size = 0
    /\ pc = "start"
    /\ seen = "running"
    /\ verdict = "running"

-----------------------------------------------------------------------------
(* Starting an attempt                                                     *)

\* The start script empties the log and runs the command in the background;
\* what else an earlier attempt left in the directory stays.
Launch(a) ==
    /\ command' = [command EXCEPT ![a] = "running"]
    /\ shell' = [shell EXCEPT ![a] = "alive"]
    /\ log' = <<>>
    /\ UNCHANGED <<lines, exitCode, killMark>>

\* The row is running, the handle is stored and the cursor starts at zero.  (What
\* may happen to the row between these writes is RunLifecycle's.)
Start ==
    /\ pc = "start"
    /\ attempt' = attempt + 1
    /\ row' = "running"
    /\ Launch(attempt + 1)
    /\ offset' = 0
    /\ pc' = "loop"
    /\ UNCHANGED <<stored, report>>

\* Mutant: one attempt too many.
FailedInclusive(n) ==
    IF n <= MaxAttempts THEN row' = "retrying" /\ pc' = "start"
                        ELSE row' = "failed" /\ pc' = "over"

\* A failed attempt of number n: another one, if any is left.
Failed(n) ==
    IF n < MaxAttempts THEN row' = "retrying" /\ pc' = "start"
                       ELSE row' = "failed" /\ pc' = "over"

\* Start reports a failure: nothing was launched, or its answer did not arrive.
StartFails ==
    /\ pc = "start"
    /\ attempt' = attempt + 1
    /\ UNCHANGED remote \/ (AnswersLost /\ Launch(attempt + 1))
    /\ Failed(attempt + 1)
    /\ offset' = 0
    /\ UNCHANGED <<stored, report>>

-----------------------------------------------------------------------------
(* The remote host                                                         *)

WriteLine(a) ==
    /\ command[a] = "running"
    /\ lines[a] < MaxLines
    /\ lines' = [lines EXCEPT ![a] = @ + 1]
    /\ log' = Append(log, <<a, lines[a] + 1>>)
    /\ UNCHANGED <<command, shell, exitCode, killMark, record, pc, report>>

CommandEnds(a) ==
    /\ command[a] = "running"
    /\ \E c \in {"zero", "nonzero"} : command' = [command EXCEPT ![a] = c]
    /\ UNCHANGED <<lines, shell, log, exitCode, killMark, record, pc, report>>

\* The shell, unless it was killed, stores the exit code of the command and ends.
ShellEnds(a) ==
    /\ shell[a] = "alive"
    /\ command[a] \in {"zero", "nonzero"}
    /\ exitCode' = command[a]
    /\ shell' = [shell EXCEPT ![a] = "dead"]
    /\ UNCHANGED <<command, lines, log, killMark, record, pc, report>>

-----------------------------------------------------------------------------
(* One round of the loop: the kill script if asked for, then the poll      *)

\* CancelRun or KillRun on the running row.
KillRequested ==
    /\ row = "running"
    /\ row' = "kill_requested"
    /\ UNCHANGED <<remote, attempt, offset, stored, pc, report>>

Loop ==
    /\ pc = "loop"
    /\ pc' = IF row = "kill_requested" THEN "mark" ELSE "list"
    /\ UNCHANGED <<remote, record, report>>

KillMark ==
    /\ pc = "mark"
    /\ killMark' = TRUE
    /\ pc' = "term"
    /\ UNCHANGED <<command, lines, shell, log, exitCode, record, report>>

KillFails ==
    /\ pc = "mark"
    /\ pc' = "list"
    /\ UNCHANGED <<remote, record, report>>

\* The signals go to the shell alone: its command goes on.
KillTerm ==
    /\ pc = "term"
    /\ shell' = [shell EXCEPT ![attempt] = "dead"]
    /\ pc' = "list"
    /\ UNCHANGED <<command, lines, log, exitCode, killMark, record, report>>

List ==
    /\ pc = "list"
    /\ seen' = row
    /\ pc' = "size"
    /\ UNCHANGED <<remote, record, size, chunk, verdict, code>>

\* The script does not run, or its answer does not arrive or does not parse.
PollFails ==
    /\ pc \in {"size", "append"}
    /\ pc' = "loop"
    /\ UNCHANGED <<remote, record, report>>

PollSize ==
    /\ pc = "size"
    /\ size' = Len(log)
    /\ chunk' = <<>>
    /\ pc' = IF Len(log) > offset THEN "read" ELSE "exit"
    /\ UNCHANGED <<remote, record, seen, verdict, code>>

\* dd reads to the end the log has by now.
PollRead ==
    /\ pc = "read"
    /\ chunk' = SubSeq(log, offset + 1, Len(log))
    /\ pc' = "exit"
    /\ UNCHANGED <<remote, record, seen, size, verdict, code>>

PollExit ==
    /\ pc = "exit"
    /\ code' = exitCode
    /\ IF exitCode = "none" THEN pc' = "alive" /\ UNCHANGED verdict
       ELSE /\ pc' = "append"
            /\ verdict' = IF killMark THEN "killed"
                          ELSE IF exitCode = "zero" THEN "completed" ELSE "failed"
    /\ UNCHANGED <<remote, record, seen, size, chunk>>

\* Mutant: without an exit code the attempt counts as running.
PollAliveUnchecked ==
    /\ pc = "alive"
    /\ verdict' = "running"
    /\ pc' = "append"
    /\ UNCHANGED <<remote, record, seen, size, chunk, code>>

PollAlive ==
    /\ pc = "alive"
    /\ verdict' = IF shell[attempt] = "alive" THEN "running"
                  ELSE IF killMark THEN "killed" ELSE "failed"
    /\ pc' = "append"
    /\ UNCHANGED <<remote, record, seen, size, chunk, code>>

-----------------------------------------------------------------------------
(* pollAsyncRun and finalizeRunResult                                      *)

Reported == pc' = IF verdict = "running" THEN "loop" ELSE "finish"

AppendOutput ==
    /\ pc = "append"
    /\ stored' = stored \o chunk
    /\ offset' = size
    /\ Reported
    /\ UNCHANGED <<remote, row, attempt, report>>

\* Mutant: the cursor advances although nothing was stored.
AppendFailsAdvances ==
    /\ pc = "append"
    /\ chunk # <<>>
    /\ offset' = size
    /\ Reported
    /\ UNCHANGED <<remote, row, attempt, stored, report>>

\* The chunk is not stored and the cursor stays, so that the next poll, if
\* there is one, reads it again.
AppendFails ==
    /\ pc = "append"
    /\ chunk # <<>>
    /\ Reported
    /\ UNCHANGED <<remote, record, report>>

\* Mutant: a report without an exit code is not turned into an error.
IsSuccessWithoutError(c) == c \in {"zero", "none"}

\* Result.IsSuccess: a report without an exit code carries an error.
IsSuccess(c) == c = "zero"

\* A confirmed kill ends the run ...
FinishKilled ==
    /\ pc = "finish"
    /\ verdict = "killed" /\ seen = "kill_requested"
    /\ row' = "killed"
    /\ offset' = 0
    /\ pc' = "over"
    /\ UNCHANGED <<remote, attempt, stored, report>>

\* ... anything else is judged by its exit code, and stores the last chunk once
\* more.
FinishResult ==
    /\ pc = "finish"
    /\ ~ (verdict = "killed" /\ seen = "kill_requested")
    /\ stored' = stored \o chunk
    /\ offset' = 0
    /\ IF IsSuccess(code) THEN row' = "completed" /\ pc' = "over" ELSE Failed(attempt)
    /\ UNCHANGED <<remote, attempt, report>>

\* A run that is over is over; its commands may go on.
Over ==
    /\ pc = "over"
    /\ UNCHANGED vars

-----------------------------------------------------------------------------
ServerStep ==
    \/ Start \/ StartFails \/ Loop
    \/ KillMark \/ KillFails \/ KillTerm
    \/ List \/ PollFails \/ PollSize \/ PollRead \/ PollExit \/ PollAlive
    \/ AppendOutput \/ AppendFails \/ FinishKilled \/ FinishResult

RemoteStep == \E a \in Attempts : WriteLine(a) \/ CommandEnds(a) \/ ShellEnds(a)

Next == ServerStep \/ RemoteStep \/ KillRequested \/ Over

Spec == Init /\ [][Next]_vars

\* The loop goes round, polls that are repeated do not always fail, and a shell
\* whose command has ended ends.  Commands need not end.
Fairness ==
    /\ WF_vars(ServerStep)
    /\ SF_vars(PollSize)
    /\ SF_vars(AppendOutput)
    /\ \A a \in Attempts : WF_vars(ShellEnds(a))

FairSpec == Spec /\ Fairness

-----------------------------------------------------------------------------
(* Properties                                                              *)

\* No output is skipped: whatever lies before the cursor of the row has been
\* stored, through failed polls, failed appends and retries that empty the log.
CursorCovered == \A i \in 1 .. offset : i <= Len(log) /\ Contains(stored, log[i])

\* A run is completed only when a command of it has ended with exit code zero,
\* whatever the files of earlier attempts and the marks of kills say.
CompletedIsTrue == row = "completed" => \E a \in Attempts : command[a] = "zero"

\* A command that has ended is reported: the run is over or has gone on to a
\* later attempt, also when its shell was killed or its output is not stored.
EndedIsReported ==
    \A a \in Attempts :
      (attempt = a /\ command[a] \in {"zero", "nonzero"}) ~> (pc = "over" \/ attempt > a)

\* "Return terminal outcome when finished": a terminal report on an attempt is
\* made when its command has ended, or a kill has been requested.
TerminalWhenFinished ==
    pc = "finish" => command[attempt] # "running" \/ killMark

=============================================================================
