---------------------------- MODULE RunLifecycle ----------------------------
(***************************************************************************)
(* The life of the runs of one direct-runtime process: the rows of the     *)
(* runs table, and everybody who reads and writes them concurrently.       *)
(*                                                                         *)
(*   - the orchestrator loop (tick, processKillRequests, processAsyncRuns) *)
(*     and the goroutines it starts: one per dispatched run, one per       *)
(*     polled handle;                                                      *)
(*   - the monitor, which marks running rows hung and kills them;          *)
(*   - the API handlers (trigger, replay, cancel, kill, pause, resume) and *)
(*     the planner, which inserts rows;                                    *)
(*   - the remote executions, which end or are killed on their own time;   *)
(*   - a crash of the server and the recovery pass of its restart.         *)
(*                                                                         *)
(* Each SQL statement, each call of an execution method and each access to *)
(* the in-memory map of running handles is one step.  No statement of the  *)
(* program that changes a row's state tests the state it overwrites, so    *)
(* what a goroutine read (its claim, its poll row, its monitor row) may be *)
(* stale by the time it writes.  SQL statements do not fail here, except   *)
(* where the program has a branch for it.                                  *)
(***************************************************************************)
EXTENDS Naturals, FiniteSets, RunState

CONSTANTS
    Runs,          \* identifiers of rows; a row is inserted at most once
    Dispatches,    \* identifiers of dispatch calls, each used once; the
                   \* execution a call starts carries the identifier of the call
    Clients,       \* API requests of two statements that may be under way at once
    NoOne,         \* SQL NULL, a missing map entry, no row
    MaxAttempts,   \* processes.max_attempts
    ScheduleType,  \* processes.schedule_type
    OnOverlap,     \* the values processes.on_overlap takes over time, with
                   \* allow_parallel = false
    Modes,         \* what the method may do: run "detached", run "blocking"
    PromptDispatch,\* timing: a claimed row is written before the next tick
    MaxRequests,   \* bound: cancel, kill, pause and resume requests
    MaxCrashes     \* bound: crashes of the server

ASSUME IdentifiersAssumption ==
    /\ Runs \cap Dispatches = {}
    /\ NoOne \notin Runs \cup Dispatches

ASSUME ProcessAssumption ==
    /\ MaxAttempts \in Nat \ {0}
    /\ ScheduleType \in {"cron", "fixed_delay", "on_demand"}
    /\ OnOverlap \subseteq {"skip", "queue"} /\ OnOverlap # {}
    /\ Modes \subseteq {"detached", "blocking"}
    /\ PromptDispatch \in BOOLEAN
    /\ MaxRequests \in Nat
    /\ MaxCrashes \in Nat

VARIABLES
    (* The runs table and the process row. *)
    state,      \* runs.state
    attempt,    \* runs.attempt
    handle,     \* runs.execution_handle, as the execution it points to
    killedBy,   \* runs.killed_by_actor_id has been set
    enabled,    \* processes.enabled
    newest,     \* fixed-delay: the row with the latest scheduled_at
    (* The executions, outside the program. *)
    exec,
    (* The goroutines of the orchestrator. *)
    pc,         \* where a dispatch or a poll of a row is
    local,      \* what it has read and what it was told
    inMemory,   \* Orchestrator.running, the sync.Map of handles by run
    phase,      \* where the loop goroutine is
    killList,   \* rows processKillRequests still has to kill
    (* The monitor, the API requests and the server itself. *)
    listed,     \* late rows of ListRunningRuns that check has not marked yet
    doomed,     \* the row check has marked hung and will kill
    todo,       \* what a request between its two statements will write
    requests,   \* requests so far
    up,
    crashes

rows    == <<state, attempt, handle, killedBy>>
process == <<enabled, newest>>
tasks   == <<pc, local, inMemory>>
loop    == <<phase, killList>>
monitor == <<listed, doomed>>
server  == <<up, crashes>>
api     == <<todo, requests>>
vars    == <<rows, process, exec, tasks, loop, monitor, api, server>>

-----------------------------------------------------------------------------
(* A goroutine is a dispatch or the poll of a row; the poll of row r has   *)
(* the identifier r, since processAsyncRuns waits for all polls to end     *)
(* before it starts new ones.                                              *)

Tasks == Dispatches \cup Runs

DispatchPC == {"idle", "claimed", "skip", "queue", "start", "starting",
               "blocking", "accepted", "returned", "finish", "outcome",
               "terminal", "done"}

PollPC == {"idle", "listed", "finish", "outcome", "terminal"}

Results == {"none", "success", "failure", "killed"}

Locals == [run     : Runs \cup {NoOne},
           attempt : Nat,
           seen    : RowStates,
           exec    : Dispatches \cup {NoOne},
           result  : Results]

Blank == [run |-> NoOne, attempt |-> 0, seen |-> "absent",
          exec |-> NoOne, result |-> "none"]

\* A request that has a write to do: of one row, or of all rows of the process.
NothingToDo == [run |-> NoOne, to |-> "absent"]

OfOneRow == [run : Runs, to : {"cancelled", "kill_requested"}]

OfAllRows == [run : {NoOne}, to : {"paused", "cancelled", "pending"}]

\* "missed": it succeeded and was reported failed or killed.
Ended == {"success", "failure", "killed", "missed"}

\* "lost": it goes on though its Start or a poll has reported its end.
ExecStates == {"none", "running", "stopping", "lost"} \cup Ended

\* A killed execution may have had the exit code zero.
EndedWell == {"success", "missed", "killed"}

RowsOK ==
    /\ state \in [Runs -> RowStates]
    /\ attempt \in [Runs -> Nat]
    /\ handle \in [Runs -> Dispatches \cup {NoOne}]
    /\ killedBy \in [Runs -> BOOLEAN]

TasksOK ==
    /\ pc \in [Tasks -> DispatchPC \cup PollPC]
    /\ \A r \in Runs : pc[r] \in PollPC
    /\ \A d \in Dispatches : pc[d] \in DispatchPC
    /\ local \in [Tasks -> Locals]
    /\ \A t \in Tasks : pc[t] \notin {"idle", "done"} => local[t].run \in Runs
    /\ \A r \in Runs : pc[r] = "listed" => local[r].exec \in Dispatches
    /\ inMemory \in [Runs -> Dispatches \cup {NoOne}]

ServiceOK ==
    /\ enabled \in BOOLEAN
    /\ newest \in Runs \cup {NoOne}
    /\ exec \in [Dispatches -> ExecStates]
    /\ phase \in {"kill", "killing", "polling"}
    /\ killList \subseteq Runs
    /\ listed \subseteq Runs
    /\ doomed \in Runs \cup {NoOne}
    /\ todo \in [Clients -> OfOneRow \cup OfAllRows \cup {NothingToDo}]
    /\ requests \in 0 .. MaxRequests
    /\ up \in BOOLEAN
    /\ crashes \in 0 .. MaxCrashes

\* Every column, every local of a goroutine and every snapshot holds what the
\* schema and the Go types allow; a goroutine past its claim or its listing has
\* a row, a listed poll has an execution.
TypeOK == RowsOK /\ TasksOK /\ ServiceOK

Init ==
    /\ state = [r \in Runs |-> "absent"]
    /\ attempt = [r \in Runs |-> 0]
    /\ handle = [r \in Runs |-> NoOne]
    /\ killedBy = [r \in Runs |-> FALSE]
    /\ enabled = TRUE
    /\ newest = NoOne
    /\ exec = [d \in Dispatches |-> "none"]
    /\ pc = [t \in Tasks |-> "idle"]
    /\ local = [t \in Tasks |-> Blank]
    /\ inMemory = [r \in Runs |-> NoOne]
    /\ phase = "polling"
    /\ killList = {}
    /\ listed = {}
    /\ doomed = NoOne
    /\ todo = [c \in Clients |-> NothingToDo]
    /\ requests = 0
    /\ up = TRUE
    /\ crashes = 0

-----------------------------------------------------------------------------
(* Inserting rows                                                          *)

\* The row is inserted pending, with attempt 0 and no handle, as an absent
\* row already is.
CreateRun(r) ==
    /\ state[r] = "absent"
    /\ state' = [state EXCEPT ![r] = "pending"]
    /\ UNCHANGED <<attempt, handle, killedBy>>

\* GetLastRunByProcess orders by scheduled_at.  A row inserted for now comes
\* last, unless the last row is not due yet: then it was never claimed.  Only
\* the recovery of fixed-delay chains looks at it.
LatestWith(r) ==
    IF ScheduleType # "fixed_delay" THEN {NoOne}
    ELSE IF /\ newest # NoOne
            /\ state[newest] \in {"pending", "paused", "cancelled", "kill_requested"}
         THEN {newest, r}
         ELSE {r}

\* Planner.plan: one slot of a cron process.
PlanRun(r) ==
    /\ up
    /\ ScheduleType = "cron"
    /\ enabled
    /\ CreateRun(r)
    /\ UNCHANGED <<process, exec, tasks, loop, monitor, api, server>>

\* TriggerProcess asks neither whether the process is enabled nor whether
\* another run is active.
TriggerProcess(r) ==
    /\ up
    /\ CreateRun(r)
    /\ newest' \in LatestWith(r)
    /\ UNCHANGED <<enabled, exec, tasks, loop, monitor, api, server>>

ReplayRun(orig, r) ==
    /\ up
    /\ IsTerminal(state[orig])
    /\ CreateRun(r)
    /\ newest' \in LatestWith(r)
    /\ UNCHANGED <<enabled, exec, tasks, loop, monitor, api, server>>

-----------------------------------------------------------------------------
(* API requests on existing rows                                           *)

Request == up /\ requests < MaxRequests /\ requests' = requests + 1

Cancellable == {"pending", "queued", "waiting_for_worker", "paused", "retrying"}

\* CancelRun reads the row and decides on what it read ...
CancelRead(c, r) ==
    /\ Request
    /\ todo[c] = NothingToDo
    /\ state[r] \in Cancellable \cup {"running"}
    /\ todo' = [todo EXCEPT ![c] =
           [run |-> r,
            to  |-> IF state[r] = "running" THEN "kill_requested" ELSE "cancelled"]]
    /\ UNCHANGED <<rows, process, exec, tasks, loop, monitor, server>>

\* ... and then writes, whatever the row has become.
CancelWrite(c) ==
    /\ up
    /\ todo[c].run \in Runs
    /\ LET r == todo[c].run IN
       /\ state' = [state EXCEPT ![r] = todo[c].to]
       /\ killedBy' = [killedBy EXCEPT ![r] = @ \/ todo[c].to = "kill_requested"]
    /\ todo' = [todo EXCEPT ![c] = NothingToDo]
    /\ UNCHANGED <<attempt, handle, process, exec, tasks, loop, monitor, requests, server>>

\* KillRun only asks whether the row exists.
KillRun(r) ==
    /\ Request
    /\ state[r] # "absent"
    /\ state' = [state EXCEPT ![r] = "kill_requested"]
    /\ killedBy' = [killedBy EXCEPT ![r] = TRUE]
    /\ UNCHANGED <<attempt, handle, process, exec, tasks, loop, monitor, todo, server>>

\* PauseProcess, with or without cancel_pending, and ResumeProcess write the
\* process first ...
SetProcessEnabled(c, to) ==
    /\ Request
    /\ todo[c] = NothingToDo
    /\ enabled' = (to = "pending")
    /\ todo' = [todo EXCEPT ![c] = [run |-> NoOne, to |-> to]]
    /\ UNCHANGED <<rows, newest, exec, tasks, loop, monitor, server>>

\* ... then its rows: BulkPauseRuns and BulkCancelRuns the pending ones,
\* BulkResumeRuns the paused ones.
BulkWrite(c) ==
    /\ up
    /\ todo[c] \in OfAllRows
    /\ LET from == IF todo[c].to = "pending" THEN "paused" ELSE "pending"
       IN  state' = [r \in Runs |-> IF state[r] = from THEN todo[c].to ELSE state[r]]
    /\ todo' = [todo EXCEPT ![c] = NothingToDo]
    /\ UNCHANGED <<attempt, handle, killedBy, process, exec, tasks, loop, monitor,
                   requests, server>>

-----------------------------------------------------------------------------
(* The orchestrator loop                                                   *)

Claimable == {r \in Runs : state[r] \in {"pending", "queued", "retrying"}}

Idle(d) == pc[d] = "idle"

\* A dispatch that holds a claim and has not written the row.
Undecided == {"claimed", "skip", "queue", "start"}

\* ClaimPendingRuns and ClaimRetryingRuns select rows in one transaction that
\* changes nothing; its row locks are gone when the dispatches start.  Which
\* claimable rows are due and within the LIMIT is left open: S is any subset.
\* Nothing but time keeps a tick from claiming a row again that an earlier
\* dispatch has not written yet; PromptDispatch says that there is enough of it.
TickClaims(S) ==
    /\ up
    /\ phase = "polling"
    /\ \A r \in Runs : pc[r] = "idle"
    /\ PromptDispatch => \A d \in Dispatches : pc[d] \notin Undecided
    /\ \E id \in [S -> {d \in Dispatches : Idle(d)}] :
         /\ \A r1, r2 \in S : id[r1] = id[r2] => r1 = r2
         /\ pc' = [t \in Tasks |->
                     IF \E r \in S : id[r] = t THEN "claimed" ELSE pc[t]]
         /\ local' = [t \in Tasks |->
                     IF \E r \in S : id[r] = t
                     THEN LET r == CHOOSE r \in S : id[r] = t
                          IN  [Blank EXCEPT !.run = r, !.attempt = attempt[r],
                                            !.exec = t]
                     ELSE local[t]]
    /\ phase' = "kill"
    /\ UNCHANGED <<rows, process, exec, inMemory, killList, monitor, api, server>>

Tick == \E S \in SUBSET Claimable : TickClaims(S)

\* What Method.Kill does to an execution.  A kill that finds it finished may
\* still leave its mark: the next poll then reports it killed (ssh and ssm
\* leave a kill_requested file beside the exit code).
AfterKill(e) ==
    CASE e \in {"running", "stopping"} -> {"stopping"}
      [] e \in Ended                   -> {e, "killed"}
      [] OTHER                         -> {e}

\* Orchestrator.Kill: the handle in memory, else the stored one, else nothing.
\* The call of the method may also fail; the callers only log that.
Kill(r) ==
    LET h == IF inMemory[r] # NoOne THEN inMemory[r] ELSE handle[r]
    IN  IF h = NoOne THEN exec' = exec
        ELSE \E e \in AfterKill(exec[h]) \cup {exec[h]} : exec' = [exec EXCEPT ![h] = e]

ListKillRequested ==
    /\ up
    /\ phase = "kill"
    /\ phase' = "killing"
    /\ killList' = {r \in Runs : state[r] = "kill_requested"}
    /\ UNCHANGED <<rows, process, exec, tasks, monitor, api, server>>

KillOne(r) ==
    /\ up
    /\ r \in killList
    /\ killList' = killList \ {r}
    /\ Kill(r)
    /\ UNCHANGED <<rows, process, tasks, phase, monitor, api, server>>

\* Mutant: only running rows are polled.
HasRunningHandle(r) == state[r] = "running" /\ handle[r] # NoOne

HasActiveHandle(r) == state[r] \in {"running", "kill_requested"} /\ handle[r] # NoOne

\* ListActiveAsyncRuns: one poll goroutine per row, holding the row as read.
ListActiveAsync ==
    /\ up
    /\ phase = "killing"
    /\ killList = {}
    /\ phase' = "polling"
    /\ pc' = [t \in Tasks |->
                IF t \in Runs /\ HasActiveHandle(t) THEN "listed" ELSE pc[t]]
    /\ local' = [t \in Tasks |->
                IF t \in Runs /\ HasActiveHandle(t)
                THEN [run |-> t, attempt |-> attempt[t], seen |-> state[t],
                      exec |-> handle[t], result |-> "none"]
                ELSE local[t]]
    /\ UNCHANGED <<rows, process, exec, inMemory, killList, monitor, api, server>>

-----------------------------------------------------------------------------
(* dispatch: one goroutine per claimed row                                 *)

At(t, label) == up /\ pc[t] = label

Goto(t, label) == pc' = [pc EXCEPT ![t] = label]

\* A dispatch that is over keeps only the row it was about.
Forget(t) ==
    local' = [local EXCEPT ![t] =
                IF t \in Dispatches THEN [Blank EXCEPT !.run = local[t].run] ELSE Blank]

\* Return before the handle is in the map of running handles.
ReturnEarly(d) ==
    /\ Goto(d, "done")
    /\ Forget(d)
    /\ UNCHANGED inMemory

\* Return of a dispatch that has stored its handle (the deferred Delete removes
\* whatever is stored for the run), or of a poll.
Return(t) ==
    /\ Goto(t, IF t \in Dispatches THEN "done" ELSE "idle")
    /\ Forget(t)
    /\ inMemory' = IF t \in Dispatches
                   THEN [inMemory EXCEPT ![local[t].run] = NoOne] ELSE inMemory

\* GetProcess or CountActiveByProcess fails: the row stays as it is.
DispatchAbort(d) ==
    /\ At(d, "claimed")
    /\ ReturnEarly(d)
    /\ UNCHANGED <<rows, process, exec, loop, monitor, api, server>>

CountActiveByProcess ==
    Cardinality({r \in Runs : state[r] \in {"running", "retrying", "waiting_for_worker"}})

\* The overlap check of a cron process that may not run in parallel.  A claimed
\* retrying row counts itself, a claimed pending or queued row does not.
Overlaps == ScheduleType = "cron" /\ CountActiveByProcess > 1

CheckOverlap(d) ==
    /\ At(d, "claimed")
    /\ \E next \in IF Overlaps THEN OnOverlap ELSE {"start"} : Goto(d, next)
    /\ UNCHANGED <<rows, process, exec, local, inMemory, loop, monitor, api, server>>

\* handleTerminal has no effect here: a skipped run belongs to a cron process.
WriteSkipped(d) ==
    /\ At(d, "skip")
    /\ state' = [state EXCEPT ![local[d].run] = "skipped"]
    /\ ReturnEarly(d)
    /\ UNCHANGED <<attempt, handle, killedBy, process, exec, loop, monitor, api, server>>

WriteQueued(d) ==
    /\ At(d, "queue")
    /\ state' = [state EXCEPT ![local[d].run] = "queued"]
    /\ ReturnEarly(d)
    /\ UNCHANGED <<attempt, handle, killedBy, process, exec, loop, monitor, api, server>>

\* The row becomes running with the attempt number after the one it was claimed
\* with.
WriteRunning(d) ==
    /\ At(d, "start")
    /\ LET r == local[d].run
           n == local[d].attempt + 1
       IN  /\ state' = [state EXCEPT ![r] = "running"]
           /\ attempt' = [attempt EXCEPT ![r] = n]
           /\ local' = [local EXCEPT ![d].attempt = n]
    /\ Goto(d, "starting")
    /\ UNCHANGED <<handle, killedBy, process, exec, inMemory, loop, monitor, api, server>>

\* The method is not registered, or its Start returns an error: failed, without
\* a retry and without handleTerminal.
FailStart(d) ==
    /\ At(d, "start") \/ At(d, "starting")
    /\ state' = [state EXCEPT ![local[d].run] = "failed"]
    /\ ReturnEarly(d)
    /\ UNCHANGED <<attempt, handle, killedBy, process, exec, loop, monitor, api, server>>

\* Start returns a handle and no result: the execution runs on its own.
StartAccepted(d) ==
    /\ At(d, "starting")
    /\ "detached" \in Modes
    /\ exec' = [exec EXCEPT ![d] = "running"]
    /\ inMemory' = [inMemory EXCEPT ![local[d].run] = d]
    /\ Goto(d, "accepted")
    /\ UNCHANGED <<rows, process, local, loop, monitor, api, server>>

\* Start of a detached method reports a failed start; when only the answer of
\* the start script was lost, the execution goes on.
StartRejected(d) ==
    /\ At(d, "starting")
    /\ "detached" \in Modes
    /\ \E e \in {"failure", "lost"} : exec' = [exec EXCEPT ![d] = e]
    /\ inMemory' = [inMemory EXCEPT ![local[d].run] = d]
    /\ local' = [local EXCEPT ![d].result = "failure"]
    /\ Goto(d, "returned")
    /\ UNCHANGED <<rows, process, loop, monitor, api, server>>

\* Start of a blocking method runs the execution to its end.  Its handle is in
\* no map until then, so a kill finds nothing to kill.
StartBlocking(d) ==
    /\ At(d, "starting")
    /\ "blocking" \in Modes
    /\ exec' = [exec EXCEPT ![d] = "running"]
    /\ Goto(d, "blocking")
    /\ UNCHANGED <<rows, process, local, inMemory, loop, monitor, api, server>>

StartReturned(d) ==
    /\ At(d, "blocking")
    /\ exec[d] \in Ended
    /\ inMemory' = [inMemory EXCEPT ![local[d].run] = d]
    /\ local' = [local EXCEPT ![d].result =
                   IF exec[d] = "success" THEN "success" ELSE "failure"]
    /\ Goto(d, "returned")
    /\ UNCHANGED <<rows, process, exec, loop, monitor, api, server>>

\* What is left of an execution that has been reported failed or killed while it
\* went on, or although it had succeeded.
Belied(e) ==
    CASE e \in {"running", "stopping"} -> "lost"
      [] e = "success"                 -> "missed"
      [] OTHER                         -> e

\* A blocking Start gives up on an execution (a timeout, a broken connection, an
\* error of the service that is asked about it): a failed result.
GiveUp(d) ==
    /\ At(d, "blocking")
    /\ exec[d] \in {"running", "stopping", "success"}
    /\ exec' = [exec EXCEPT ![d] = Belied(exec[d])]
    /\ inMemory' = [inMemory EXCEPT ![local[d].run] = d]
    /\ local' = [local EXCEPT ![d].result = "failure"]
    /\ Goto(d, "returned")
    /\ UNCHANGED <<rows, process, loop, monitor, api, server>>

SaveHandle(d) ==
    /\ At(d, "accepted")
    /\ handle' = [handle EXCEPT ![local[d].run] = d]
    /\ Return(d)
    /\ UNCHANGED <<state, attempt, killedBy, process, exec, loop, monitor, api, server>>

\* Mutant: the error is logged and the row left running.
SaveHandleFailsSilently(d) ==
    /\ At(d, "accepted")
    /\ Return(d)
    /\ UNCHANGED <<rows, process, exec, loop, monitor, api, server>>

SaveHandleFails(d) ==
    /\ At(d, "accepted")
    /\ state' = [state EXCEPT ![local[d].run] = "failed"]
    /\ Return(d)
    /\ UNCHANGED <<attempt, handle, killedBy, process, exec, loop, monitor, api, server>>

\* Mutant: a kill request beats even a success.
ReadCurrentKillWins(d) ==
    /\ At(d, "returned")
    /\ IF state[local[d].run] = "kill_requested"
       THEN Goto(d, "outcome") /\ local' = [local EXCEPT ![d].result = "killed"]
       ELSE Goto(d, "finish") /\ UNCHANGED local
    /\ UNCHANGED <<rows, process, exec, inMemory, loop, monitor, api, server>>

\* After a synchronous result the row is read once more: with a method that
\* supports kills, a failure of a run whose kill was requested is its kill, and
\* the stored handle is left alone.
ReadCurrent(d) ==
    /\ At(d, "returned")
    /\ \/ /\ state[local[d].run] = "kill_requested" /\ local[d].result = "failure"
          /\ Goto(d, "outcome")
          /\ local' = [local EXCEPT ![d].result = "killed"]
       \/ Goto(d, "finish") /\ UNCHANGED local
    /\ UNCHANGED <<rows, process, exec, inMemory, loop, monitor, api, server>>

-----------------------------------------------------------------------------
(* finalizeRunResult and finalizeRunKilled, for dispatches and polls       *)

\* The stored handle goes first ...
ClearHandle(t) ==
    /\ At(t, "finish")
    /\ handle' = [handle EXCEPT ![local[t].run] = NoOne]
    /\ Goto(t, "outcome")
    /\ UNCHANGED <<state, attempt, killedBy, process, exec, local, inMemory, loop,
                   monitor, api, server>>

\* Mutant: the off-by-one that grants one attempt too many.
MayRetryInclusive(n) == n <= MaxAttempts

MayRetry(n) == n < MaxAttempts

\* Mutant: a state that the table's CHECK constraint does not know.
OutcomeUndeclared(l) ==
    IF l.result = "failure" THEN "timed_out" ELSE "completed"

Outcome(l) ==
    CASE l.result = "success" -> "completed"
      [] l.result = "killed"  -> "killed"
      [] OTHER                -> IF MayRetry(l.attempt) THEN "retrying" ELSE "failed"

\* ... then the row gets the outcome of the execution the task looked at.
WriteOutcome(t) ==
    /\ At(t, "outcome")
    /\ LET r == local[t].run
           s == Outcome(local[t])
       IN  /\ state' = [state EXCEPT ![r] = s]
           /\ IF s = "retrying"
              THEN /\ attempt' = [attempt EXCEPT ![r] = local[t].attempt]
                   /\ Return(t)
              ELSE /\ Goto(t, "terminal")
                   /\ UNCHANGED <<attempt, local, inMemory>>
    /\ UNCHANGED <<handle, killedBy, process, exec, loop, monitor, api, server>>

ContinuesChain(t) ==
    /\ ScheduleType = "fixed_delay"
    /\ ContinuesFixedDelayChain(Outcome(local[t]))

\* handleTerminal: the next run of a fixed-delay chain.  It asks neither what
\* the row is by now nor whether the process is enabled.  With all of Runs in
\* use (a bound of the model) nothing is inserted.
ContinueChain(t, r) ==
    /\ At(t, "terminal")
    /\ ContinuesChain(t)
    /\ CreateRun(r)
    /\ newest' = r
    /\ Return(t)
    /\ UNCHANGED <<enabled, exec, loop, monitor, api, server>>

EndTerminal(t) ==
    /\ At(t, "terminal")
    /\ ContinuesChain(t) => \A r \in Runs : state[r] # "absent"
    /\ Return(t)
    /\ UNCHANGED <<rows, process, exec, loop, monitor, api, server>>

-----------------------------------------------------------------------------
(* pollAsyncRun: one goroutine per row that had a handle                   *)

\* The execution still runs, or the poll failed: the next tick polls again.
PollNothing(r) ==
    /\ At(r, "listed")
    /\ Return(r)
    /\ UNCHANGED <<rows, process, exec, loop, monitor, api, server>>

\* Mutant: the killed report is believed without looking at the row.
ReportedUnchecked(l) ==
    {IF exec[l.exec] = "missed" THEN "success" ELSE exec[l.exec]}

\* What a poll that is told the truth makes of an ended execution.  A kill counts
\* as one if the row was in kill_requested when it was listed; otherwise the exit
\* code decides, and it may be zero.
Reported(l) ==
    IF exec[l.exec] = "failure"                 THEN {"failure"}
    ELSE IF exec[l.exec] \in {"success", "missed"} THEN {"success"}
    ELSE IF l.seen = "kill_requested"           THEN {"killed"}
    ELSE                                             {"success", "failure"}

PollTerminal(r) ==
    /\ At(r, "listed")
    /\ exec[local[r].exec] \in Ended
    /\ \E res \in Reported(local[r]) : local' = [local EXCEPT ![r].result = res]
    /\ Goto(r, "finish")
    /\ UNCHANGED <<rows, process, exec, inMemory, loop, monitor, api, server>>

\* What a poll may say of an execution whatever that does.  A request to the
\* status URL that fails is a failure (http); an object that is gone, deleted or
\* expired, is a kill (k8s); the exit code and the kill mark that are found may be
\* another attempt's of the row (ssh, ssm).
Mistaken(l) ==
    {"failure"}
    \cup (IF l.seen = "kill_requested" THEN {"killed"} ELSE {})
    \cup (IF /\ exec[l.exec] # "success"
              /\ \E d \in Dispatches : local[d].run = l.run /\ exec[d] \in EndedWell
          THEN {"success"} ELSE {})

PollMistaken(r) ==
    /\ At(r, "listed")
    /\ \E res \in Mistaken(local[r]) : local' = [local EXCEPT ![r].result = res]
    /\ exec' = [exec EXCEPT ![local[r].exec] = Belied(@)]
    /\ Goto(r, "finish")
    /\ UNCHANGED <<rows, process, inMemory, loop, monitor, api, server>>

-----------------------------------------------------------------------------
(* Monitor.check: one goroutine, over the rows it has listed               *)

\* A timeout is judged by the listed row and the time of the listing: what is
\* remembered is the rows found past one of their timeouts.
MonitorList ==
    /\ up
    /\ listed = {} /\ doomed = NoOne
    /\ \E late \in SUBSET {r \in Runs : state[r] = "running"} :
         late # {} /\ listed' = late
    /\ UNCHANGED <<rows, process, exec, tasks, loop, doomed, api, server>>

\* Mutant: the late row is retried without waiting for its execution.
MonitorRetry(r) ==
    /\ up
    /\ r \in listed /\ doomed = NoOne
    /\ listed' = listed \ {r}
    /\ state' = [state EXCEPT ![r] = "retrying"]
    /\ doomed' \in {NoOne, r}
    /\ UNCHANGED <<attempt, handle, killedBy, process, exec, tasks, loop, api, server>>

\* Such a row becomes hung, whatever it is by now; timeout_action decides
\* whether it is killed too.
MonitorMark(r) ==
    /\ up
    /\ r \in listed /\ doomed = NoOne
    /\ listed' = listed \ {r}
    /\ state' = [state EXCEPT ![r] = "hung"]
    /\ doomed' \in {NoOne, r}
    /\ UNCHANGED <<attempt, handle, killedBy, process, exec, tasks, loop, api, server>>

MonitorKill ==
    /\ up
    /\ doomed # NoOne
    /\ Kill(doomed)
    /\ doomed' = NoOne
    /\ UNCHANGED <<rows, process, tasks, loop, listed, api, server>>

-----------------------------------------------------------------------------
(* The executions and the server                                           *)

\* A lost execution ends as well.
ExecEnds(d) ==
    /\ \E e \in CASE exec[d] = "running"  -> {"success", "failure"}
                  [] exec[d] = "stopping" -> {"success", "failure", "killed"}
                  [] exec[d] = "lost"     -> {"missed", "failure"}
                  [] OTHER                -> {} :
         exec' = [exec EXCEPT ![d] = e]
    /\ UNCHANGED <<rows, process, tasks, loop, monitor, api, server>>

\* The server goes, with its goroutines, its map of handles and its requests;
\* the tables and the executions stay.
Crash ==
    /\ up
    /\ crashes < MaxCrashes
    /\ up' = FALSE
    /\ crashes' = crashes + 1
    /\ pc' = [t \in Tasks |->
                IF t \in Dispatches /\ ~Idle(t) THEN "done" ELSE "idle"]
    /\ local' = [t \in Tasks |->
                IF t \in Dispatches THEN [Blank EXCEPT !.run = local[t].run] ELSE Blank]
    /\ inMemory' = [r \in Runs |-> NoOne]
    /\ phase' = "polling"
    /\ killList' = {}
    /\ listed' = {}
    /\ doomed' = NoOne
    /\ todo' = [c \in Clients |-> NothingToDo]
    /\ UNCHANGED <<rows, process, exec, requests>>

\* Mutant: recovery leaves the rows alone.
OrphansKept == [r \in Runs |-> state[r]]

\* detectOrphans: every running row is hung, with or without a handle.
OrphansHung == [r \in Runs |-> IF state[r] = "running" THEN "hung" ELSE state[r]]

\* Mutant: only an orphan restarts the chain.
ChainStoppedHungOnly == newest # NoOne => OrphansHung[newest] = "hung"

\* The last row of the fixed-delay process is final or hung, or there is none.
ChainStopped ==
    newest # NoOne => \/ IsFinalTerminal(OrphansHung[newest])
                      \/ OrphansHung[newest] = "hung"

ListEnabledFixedDelayProcesses == ScheduleType = "fixed_delay" /\ enabled

\* The rows recovery inserts: missed cron slots after the last row, the next
\* run of a stopped fixed-delay chain.
Recovered ==
    LET absent == {r \in Runs : state[r] = "absent"}
    IN  CASE ScheduleType = "cron" /\ enabled /\ absent # Runs -> SUBSET absent
          [] ListEnabledFixedDelayProcesses /\ ChainStopped /\ absent # {}
                                       -> {{r} : r \in absent}
          [] OTHER                     -> {{}}

\* recovery.Run is over before any other component starts.
Restart ==
    /\ ~up
    /\ up' = TRUE
    /\ \E S \in Recovered :
         /\ state' = [r \in Runs |-> IF r \in S THEN "pending" ELSE OrphansHung[r]]
         /\ IF S = {} THEN UNCHANGED newest
            ELSE \E r \in S : newest' \in LatestWith(r)
    /\ UNCHANGED <<attempt, handle, killedBy, enabled, exec, tasks, loop, monitor,
                   api, crashes>>

-----------------------------------------------------------------------------
ApiStep ==
    \/ \E r \in Runs : PlanRun(r) \/ TriggerProcess(r) \/ KillRun(r)
    \/ \E orig, r \in Runs : ReplayRun(orig, r)
    \/ \E c \in Clients : CancelWrite(c) \/ \E r \in Runs : CancelRead(c, r)
    \/ \E c \in Clients, to \in {"paused", "cancelled", "pending"} : SetProcessEnabled(c, to)
    \/ \E c \in Clients : BulkWrite(c)

LoopStep ==
    \/ Tick
    \/ ListKillRequested
    \/ \E r \in Runs : KillOne(r)
    \/ ListActiveAsync

FinalizeStep(t) ==
    \/ ClearHandle(t)
    \/ WriteOutcome(t)
    \/ \E r \in Runs : ContinueChain(t, r)
    \/ EndTerminal(t)

DispatchStep(d) ==
    \/ DispatchAbort(d) \/ CheckOverlap(d) \/ WriteSkipped(d) \/ WriteQueued(d)
    \/ WriteRunning(d) \/ FailStart(d) \/ StartAccepted(d) \/ StartRejected(d)
    \/ StartBlocking(d) \/ StartReturned(d) \/ SaveHandle(d) \/ SaveHandleFails(d)
    \/ ReadCurrent(d) \/ FinalizeStep(d)

PollStep(r) == PollNothing(r) \/ PollTerminal(r) \/ PollMistaken(r) \/ FinalizeStep(r)

MonitorStep ==
    \/ MonitorList
    \/ \E r \in Runs : MonitorMark(r)
    \/ MonitorKill

Next ==
    \/ ApiStep
    \/ LoopStep
    \/ \E d \in Dispatches : DispatchStep(d) \/ GiveUp(d) \/ ExecEnds(d)
    \/ \E r \in Runs : PollStep(r)
    \/ MonitorStep
    \/ Crash
    \/ Restart

Spec == Init /\ [][Next]_vars

\* The goroutines run: a dispatch and a poll that can take a step take one, the
\* loop goes round, a crashed server is started again.  A handle that is polled
\* over and over is not always polled in vain.  Nothing is assumed of the
\* executions, the monitor or the API, nor that a method ever gives up.
Fairness ==
    /\ \A d \in Dispatches : WF_vars(DispatchStep(d))
    /\ \A r \in Runs : WF_vars(PollStep(r)) /\ SF_vars(PollTerminal(r))
    /\ WF_vars(LoopStep)
    /\ WF_vars(Restart)

FairSpec == Spec /\ Fairness

-----------------------------------------------------------------------------
(* Safety                                                                  *)

\* A task at one of these places will write the outcome of its row, or store
\* a handle for it.
Owning == {"starting", "blocking", "accepted", "returned", "finish", "outcome"}

Owns(t, r) == local[t].run = r /\ pc[t] \in Owning

RowOwned(r) ==
    state[r] = "running" /\ handle[r] = NoOne => \E t \in Tasks : Owns(t, r)

\* No running row is forgotten: while the server is up, a running row has a
\* stored handle, which every tick polls, or a goroutine that is going to write
\* its outcome.  saveRunExecutionHandle, clearRunExecutionHandle and the
\* recovery pass must come in the right order for that.
RunningHasOwner == up => \A r \in Runs : RowOwned(r)

\* max_attempts includes the first attempt: however the claims, the retries and
\* the restarts interleave, no row gets a higher attempt number (finalizeRunResult
\* compares the attempt it was told, dispatch adds one to the attempt it claimed).
AttemptsBounded == \A r \in Runs : attempt[r] <= MaxAttempts

ExecutedAs(r, ends) == \E d \in Dispatches : local[d].run = r /\ exec[d] \in ends

\* An outcome is never invented and never another row's, though polls and Starts
\* may report a failure or a kill that is none: a completed row has an execution
\* of its own that ended well (or was killed with exit code zero), a killed row
\* was asked to be killed, and it and a retrying row have one that failed, was
\* killed, or was wrongly reported to have (lost, missed).
OutcomeIsBacked ==
    \A r \in Runs :
      /\ state[r] = "completed" => ExecutedAs(r, EndedWell)
      /\ state[r] = "killed" => killedBy[r]
      /\ state[r] \in {"killed", "retrying"} =>
           ExecutedAs(r, {"failure", "killed", "lost", "missed"})

Live(d) == exec[d] \in {"running", "stopping"}

\* Only a false report lets a retry run beside the attempt it retries: with prompt
\* dispatches, a row has at most one execution that goes on and has not been
\* reported over (by its Start or by a poll), through kills, hung marks, failed
\* saves of the handle, crashes and restarts.  The ones that were reported over
\* and go on are the lost ones, and nothing bounds those.
OneExecutionPerRun ==
    \A d1, d2 \in Dispatches :
      Live(d1) /\ Live(d2) /\ local[d1].run = local[d2].run => d1 = d2

-----------------------------------------------------------------------------
(* Liveness, under FairSpec                                                *)

\* An execution that has ended while its row is active and holds its handle is
\* noticed: the row leaves running or kill_requested, or gets another handle.
EndedIsReconciled ==
    \A r \in Runs, d \in Dispatches :
      (state[r] \in {"running", "kill_requested"} /\ handle[r] = d /\ exec[d] \in Ended)
        ~> (state[r] \notin {"running", "kill_requested"} \/ handle[r] # d)

\* Through a crash at any point: after the last run of an enabled fixed-delay
\* process has completed or was killed, the next one is inserted, by
\* handleTerminal or by the recovery pass (unless Runs is used up).
ChainContinues ==
    \A r \in Runs :
      (ScheduleType = "fixed_delay" /\ newest = r /\ state[r] \in {"completed", "killed"})
        ~> \/ newest # r
           \/ ~enabled
           \/ state[r] \notin {"completed", "killed"}
           \/ \A q \in Runs : state[q] # "absent"

-----------------------------------------------------------------------------
(* What the documents say and the code does not do                         *)

\* "`cancelled` means execution never started" and "No late reconciliation reopens a
\* hung run": apart from a kill request, a cancelled or hung row only moves along the
\* declared transitions, of which cancelled has none.
ClosedStaysClosed ==
    [][\A r \in Runs : \A s \in {"cancelled", "hung"} :
         state[r] = s /\ state'[r] \notin {s, "kill_requested"}
           => ValidateTransition(s, state'[r])]_vars

\* With allow_parallel = false, no two runs of the process execute at once.
NoOverlap ==
    \A d1, d2 \in Dispatches :
      Live(d1) /\ Live(d2) => local[d1].run = local[d2].run

=============================================================================
