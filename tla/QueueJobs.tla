----------------------------- MODULE QueueJobs -----------------------------
(***************************************************************************)
(* The jobs of one direct-runtime queue: the rows of jobs and              *)
(* job_attempts, and everybody who writes them.                            *)
(*                                                                         *)
(*   - the processor loop (tick, processKillRequests, processAsyncJobs),   *)
(*     which polls the stored handles one after the other, and one         *)
(*     goroutine per dispatched job;                                       *)
(*   - expirationLoop, which cancels pending jobs that are too old;        *)
(*   - the API handlers (enqueue, batch, replay, cancel, update queue);    *)
(*   - the executions, and a crash of the server.  There is no recovery    *)
(*     pass for jobs: a restart goes on with the rows as they are.         *)
(*                                                                         *)
(* A step is one SQL statement or one call of the execution method.        *)
(***************************************************************************)
EXTENDS Naturals, FiniteSets, Functions

CONSTANTS
    Jobs,          \* identifiers of rows; a row is inserted at most once
    Stored,        \* the rows the table holds at the start (stored by an earlier
                   \* version or by hand: EnqueueJob cannot insert the first one)
    Expiring,      \* the rows with an expires_at
    Dispatches,    \* identifiers of dispatch calls, of the attempt row a call
                   \* inserts and of the execution it starts
    Poller,        \* the loop goroutine, when it polls
    NoOne,         \* SQL NULL
    Concurrency,   \* the largest value queues.concurrency is given
    MaxAttempts,   \* the largest value queues.max_attempts is given (the rows
                   \* have no max_attempts of their own)
    ClaimLimit,    \* the LIMIT of ClaimPendingJobs
    MaxRequests,   \* bound: API requests
    MaxCrashes,    \* bound: crashes of the server
    MaxReclaims    \* bound: ticks that claim a row twice

ASSUME QueueAssumption ==
    /\ Stored \subseteq Jobs /\ Expiring \subseteq Jobs
    /\ NoOne \notin Jobs \cup Dispatches
    /\ Poller \notin Dispatches
    /\ Concurrency \in Nat \ {0} /\ MaxAttempts \in Nat \ {0} /\ ClaimLimit \in Nat \ {0}
    /\ MaxRequests \in Nat /\ MaxCrashes \in Nat /\ MaxReclaims \in Nat

\* A table holds finitely many rows.
ASSUME FiniteAssumption == IsFiniteSet(Jobs) /\ IsFiniteSet(Dispatches)

VARIABLES
    state, attempt, nextAt, handle,   \* columns of jobs
    attemptRow,  \* job_attempts
    queue,       \* the row of queues
    exec,        \* the executions, outside the program
    pc, local,   \* the goroutines: dispatches and the poller
    phase,       \* where the loop is
    killList,    \* jobs processKillRequests still has to kill
    pollList,    \* rows processAsyncJobs still has to poll, as they were read
    reclaims,    \* how often a tick claimed a row that an earlier claim still holds
    expired,     \* jobs expirationLoop has listed and not cancelled yet
    todo,        \* what a request between its two statements will write
    requests, crashes

rows    == <<state, attempt, nextAt, handle>>
tables  == <<rows, attemptRow, queue>>
tasks   == <<pc, local>>
loop    == <<phase, killList, pollList, reclaims>>
outside == <<exec, requests, crashes>>
vars    == <<tables, tasks, loop, expired, todo, outside>>

-----------------------------------------------------------------------------
States == {"pending", "waiting_for_worker", "running", "retrying",
           "kill_requested", "completed", "failed", "killed", "cancelled"}

IsTerminal(s) == s \in {"completed", "failed", "killed", "cancelled"}

RowStates == States \cup {"absent"}

\* "gone": there is nothing to poll any more (a k8s job that was deleted, by a kill
\* or by hand, or removed ten minutes after its end).  "missed": it succeeded and
\* was reported failed or killed.
Ended == {"success", "failure", "killed", "missed", "gone"}

\* "lost": it goes on though its Start or a poll has reported its end, or though its
\* handle was not stored.
ExecStates == {"none", "running", "stopping", "lost"} \cup Ended

Tasks == Dispatches \cup {Poller}

Labels == {"idle", "claimed", "start", "attempt", "starting", "blocking",
           "accepted", "finish", "clear", "outcome", "done"}

Results == {"none", "success", "failure", "killed", "gone"}

\* What a goroutine knows of its job: the row and the queue as they were claimed or
\* listed, the attempt row it will finish, the execution, and the result it was told.
Locals == [job : Jobs \cup {NoOne}, attempt : Nat, seen : RowStates,
           limit : 0 .. Concurrency, max : 0 .. MaxAttempts,
           row : Dispatches \cup {NoOne}, exec : Dispatches \cup {NoOne},
           result : Results]

Blank == [job |-> NoOne, attempt |-> 0, seen |-> "absent", limit |-> 0, max |-> 0,
          row |-> NoOne, exec |-> NoOne, result |-> "none"]

Queues == [enabled : BOOLEAN, concurrency : 1 .. Concurrency, maxAttempts : 1 .. MaxAttempts]

NoRow == [job |-> NoOne, number |-> 0, finished |-> FALSE]

NothingToDo == [job |-> NoOne, to |-> "absent"]

\* Every column and every local of a goroutine holds what the schema and the Go
\* types allow, and a goroutine past its claim has a job.
TypeOK ==
    /\ state \in [Jobs -> RowStates] /\ attempt \in [Jobs -> Nat]
    /\ nextAt \in [Jobs -> BOOLEAN] /\ handle \in [Jobs -> Dispatches \cup {NoOne}]
    /\ attemptRow \in [Dispatches -> [job : Jobs \cup {NoOne}, number : Nat, finished : BOOLEAN]]
    /\ queue \in Queues /\ exec \in [Dispatches -> ExecStates]
    /\ pc \in [Tasks -> Labels] /\ local \in [Tasks -> Locals]
    /\ \A t \in Tasks : pc[t] \notin {"idle", "done"} => local[t].job \in Jobs
    /\ phase \in {"tick", "kill", "killing", "polling"}
    /\ killList \subseteq Jobs /\ pollList \subseteq Locals /\ expired \subseteq Jobs
    /\ todo \in [job : Jobs \cup {NoOne}, to : RowStates]
    /\ requests \in 0 .. MaxRequests /\ crashes \in 0 .. MaxCrashes /\ reclaims \in 0 .. MaxReclaims

\* A queue is created enabled; a stored row is pending and was never started.
NewQueue == queue \in Queues /\ queue.enabled

Init ==
    /\ state = [j \in Jobs |-> IF j \in Stored THEN "pending" ELSE "absent"]
    /\ attempt = [j \in Jobs |-> 0]
    /\ nextAt = [j \in Jobs |-> FALSE]
    /\ handle = [j \in Jobs |-> NoOne]
    /\ attemptRow = [d \in Dispatches |-> NoRow]
    /\ NewQueue
    /\ exec = [d \in Dispatches |-> "none"]
    /\ pc = [t \in Tasks |-> "idle"]
    /\ local = [t \in Tasks |-> Blank]
    /\ phase = "tick" /\ killList = {} /\ pollList = {}
    /\ expired = {} /\ todo = NothingToDo
    /\ requests = 0 /\ crashes = 0 /\ reclaims = 0

-----------------------------------------------------------------------------
(* The statements                                                          *)

\* The attempt column keeps its value when none is given (n = attempt[j]);
\* next_attempt_at becomes NULL unless one is given.  No state is tested.
UpdateJobState(j, s, n, next) ==
    /\ state' = [state EXCEPT ![j] = s]
    /\ attempt' = [attempt EXCEPT ![j] = n]
    /\ nextAt' = [nextAt EXCEPT ![j] = next]
    /\ UNCHANGED handle

\* Mutant: an expired job gets a state of its own.
CancelRowExpired(j) ==
    /\ state' = [state EXCEPT ![j] = "expired"]
    /\ UNCHANGED <<attempt, nextAt, handle>>

\* CancelJob writes the state alone, whatever it was.
CancelRow(j) ==
    /\ state' = [state EXCEPT ![j] = "cancelled"]
    /\ UNCHANGED <<attempt, nextAt, handle>>

\* INSERT INTO jobs.  scheduled_at is NOT NULL: the default of the column does
\* not apply to a NULL that is passed.
CreateJob(S, scheduledAt) ==
    /\ \A j \in S : state[j] = "absent"
    /\ state' = [j \in Jobs |-> IF j \in S /\ scheduledAt # NoOne THEN "pending"
                                ELSE state[j]]
    /\ UNCHANGED <<attempt, nextAt, handle>>

\* The copy leaves scheduled_at out of its columns, and so gets now().  Neither
\* the state nor the workspace of the original is tested.
CreateReplayJob(orig, j) ==
    /\ state[orig] # "absent"
    /\ state[j] = "absent"
    /\ state' = [state EXCEPT ![j] = "pending"]
    /\ UNCHANGED <<attempt, nextAt, handle>>

\* Mutant: running rows are claimed again.
ClaimActiveJobs ==
    {j \in Jobs : queue.enabled /\ (state[j] \in {"pending", "running"} \/ (state[j] = "retrying" /\ nextAt[j]))}

ClaimPendingJobs ==
    {j \in Jobs : queue.enabled /\ (state[j] = "pending" \/ (state[j] = "retrying" /\ nextAt[j]))}

CountRunningByQueue == Cardinality({j \in Jobs : state[j] = "running"})

ListKillRequestedAsyncJobIDs ==
    {j \in Jobs : state[j] = "kill_requested" /\ handle[j] # NoOne}

ListExpiredPendingJobs == {j \in Expiring : state[j] = "pending"}

CreateJobAttempt(d, j, n) ==
    attemptRow' = [attemptRow EXCEPT ![d] = [job |-> j, number |-> n, finished |-> FALSE]]

FinishJobAttempt(d) ==
    attemptRow' = [attemptRow EXCEPT ![d].finished = TRUE]

OpenAttempts(j) ==
    {d \in Dispatches : attemptRow[d].job = j /\ ~attemptRow[d].finished}

\* The unfinished attempts of a job with the highest number.
LatestOpen(j) ==
    {d \in OpenAttempts(j) :
       \A e \in OpenAttempts(j) : attemptRow[e].number <= attemptRow[d].number}

\* Mutant: rows in kill_requested are not polled.
RunningAsyncJobs ==
    {j \in Jobs : state[j] = "running" /\ handle[j] # NoOne /\ OpenAttempts(j) # {}}

\* The active rows that have a handle; listAsyncJobs drops those without an
\* unfinished attempt.
ActiveAsyncJobs ==
    {j \in Jobs : /\ state[j] \in {"running", "kill_requested"}
                  /\ handle[j] # NoOne
                  /\ OpenAttempts(j) # {}}

\* ListActiveAsyncJobs joins each with its queue and its latest unfinished attempt.
ListActiveAsyncJobs(latest) ==
    {[job |-> j, attempt |-> attempt[j], seen |-> state[j], limit |-> 0,
      max |-> queue.maxAttempts, row |-> latest[j], exec |-> handle[j],
      result |-> "none"] : j \in ActiveAsyncJobs}

-----------------------------------------------------------------------------
(* API requests                                                            *)

Request == requests < MaxRequests /\ requests' = requests + 1

\* Neither handler sets ScheduledAt, so CreateJob is refused; a batch is one
\* transaction.  (CheckIdempotencyKey can only refuse as well.)
RequestedScheduledAt == NoOne

EnqueueJob(j) ==
    /\ Request
    /\ CreateJob({j}, RequestedScheduledAt)
    /\ UNCHANGED <<attemptRow, queue, tasks, loop, expired, todo, exec, crashes>>

BatchEnqueueJobs(S) ==
    /\ Request
    /\ S # {}
    /\ CreateJob(S, RequestedScheduledAt)
    /\ UNCHANGED <<attemptRow, queue, tasks, loop, expired, todo, exec, crashes>>

ReplayJob(orig, j) ==
    /\ Request
    /\ CreateReplayJob(orig, j)
    /\ UNCHANGED <<attemptRow, queue, tasks, loop, expired, todo, exec, crashes>>

\* CancelJob decides on the row it read ...
CancelRead(j) ==
    /\ Request
    /\ todo = NothingToDo
    /\ state[j] \in {"pending", "waiting_for_worker", "retrying", "running"}
    /\ todo' = [job |-> j,
                to  |-> IF state[j] = "running" THEN "kill_requested" ELSE "cancelled"]
    /\ UNCHANGED <<tables, tasks, loop, expired, exec, crashes>>

\* ... and writes, whatever the row has become.
CancelWrite ==
    /\ todo.job \in Jobs
    /\ \/ todo.to = "cancelled" /\ CancelRow(todo.job)
       \/ todo.to = "kill_requested"
          /\ UpdateJobState(todo.job, "kill_requested", attempt[todo.job], FALSE)
    /\ todo' = NothingToDo
    /\ UNCHANGED <<attemptRow, queue, tasks, loop, expired, outside>>

\* The statement writes every column; these are the ones that are read here.
SetQueueColumns(q) == queue' = q

\* UpdateQueue reads the queue and merges the request into what it read: what it
\* writes may be the request's value, or one that a concurrent request has replaced.
UpdateQueue ==
    /\ Request
    /\ \E q \in Queues \ {queue} : SetQueueColumns(q)
    /\ UNCHANGED <<rows, attemptRow, tasks, loop, expired, todo, exec, crashes>>

-----------------------------------------------------------------------------
(* The loop                                                                *)

\* A dispatch that holds a claim and has not written the row.
Undecided == {"claimed", "start"}

\* The identifiers for the dispatches of the rows in S (which ones does not matter).
Identifiers(S) == CHOOSE id \in Injection(S, {d \in Dispatches : pc[d] = "idle"}) : TRUE

ClaimedAgain(S) == \E d \in Dispatches : pc[d] \in Undecided /\ local[d].job \in S

\* The claim selects rows and changes nothing.  Which of them are due, and come
\* first in the order of priority and time, is left open.  Only the time between
\* two rounds keeps a tick from claiming a row again that an earlier dispatch holds
\* and has not written yet.
TickClaims(S) ==
    /\ phase = "tick"
    /\ IF ClaimedAgain(S) THEN reclaims < MaxReclaims /\ reclaims' = reclaims + 1
                          ELSE UNCHANGED reclaims
    /\ Cardinality(S) <= ClaimLimit
    /\ Injection(S, {d \in Dispatches : pc[d] = "idle"}) # {}
    /\ LET id    == Identifiers(S)
           of(t) == {j \in S : id[j] = t}
       IN  /\ pc' = [t \in Tasks |-> IF of(t) # {} THEN "claimed" ELSE pc[t]]
           /\ local' = [t \in Tasks |->
                IF of(t) = {} THEN local[t]
                ELSE LET j == CHOOSE j \in of(t) : TRUE
                     IN  [Blank EXCEPT !.job = j, !.attempt = attempt[j], !.seen = state[j],
                                       !.limit = queue.concurrency,
                                       !.max = queue.maxAttempts, !.row = t, !.exec = t]]
    /\ phase' = "kill"
    /\ UNCHANGED <<tables, killList, pollList, expired, todo, outside>>

Tick == \E S \in SUBSET ClaimPendingJobs : TickClaims(S)

ListKills ==
    /\ phase = "kill"
    /\ phase' = "killing"
    /\ killList' = ListKillRequestedAsyncJobIDs
    /\ UNCHANGED <<tables, tasks, pollList, reclaims, expired, todo, outside>>

\* What Method.Kill does to an execution.  A kill that finds it finished leaves its
\* mark all the same (ssh, ssm): the next poll reports it killed.
AfterKill(e) ==
    CASE e = "running"                           -> {"stopping"}
      [] e \in {"success", "failure", "missed"} -> {"killed"}
      [] OTHER                                   -> {}

\* processKillRequests reads the handle again; an error of Kill is only logged.
KillOne(j) ==
    /\ j \in killList
    /\ killList' = killList \ {j}
    /\ \/ UNCHANGED exec
       \/ /\ handle[j] # NoOne
          /\ \E e \in AfterKill(exec[handle[j]]) : exec' = [exec EXCEPT ![handle[j]] = e]
    /\ UNCHANGED <<tables, tasks, phase, pollList, reclaims, expired, todo, requests, crashes>>

ListPolls ==
    /\ phase = "killing"
    /\ killList = {}
    /\ phase' = "polling"
    /\ \E latest \in [ActiveAsyncJobs -> Dispatches] :
         /\ \A j \in ActiveAsyncJobs : latest[j] \in LatestOpen(j)
         /\ pollList' = ListActiveAsyncJobs(latest)
    /\ UNCHANGED <<tables, tasks, killList, reclaims, expired, todo, outside>>

\* pollAsyncJob: the method reports on the execution the handle names; an error,
\* or a running execution, changes nothing.
PollNothing(r) ==
    /\ phase = "polling" /\ pc[Poller] = "idle"
    /\ r \in pollList
    /\ pollList' = pollList \ {r}
    /\ UNCHANGED <<tables, tasks, phase, killList, reclaims, expired, todo, outside>>

\* What a poll that is told the truth makes of an ended execution.  A killed one
\* whose row was listed before the kill was requested is judged by its exit code,
\* which may be zero.
Reported(r) ==
    CASE exec[r.exec] \in {"success", "missed"} -> {"success"}
      [] exec[r.exec] \in {"failure", "gone"}   -> {exec[r.exec]}
      [] OTHER -> IF r.seen = "kill_requested" THEN {"killed"} ELSE {"success", "failure"}

Finalize(r, result) ==
    /\ phase = "polling" /\ pc[Poller] = "idle"
    /\ r \in pollList
    /\ pollList' = pollList \ {r}
    /\ pc' = [pc EXCEPT ![Poller] = "finish"]
    /\ local' = [local EXCEPT ![Poller] = [r EXCEPT !.result = result]]

PollTerminal(r) ==
    /\ exec[r.exec] \in Ended
    /\ \E result \in Reported(r) : Finalize(r, result)
    /\ UNCHANGED <<tables, phase, killList, reclaims, expired, todo, outside>>

Of(j) == {d \in Dispatches : attemptRow[d].job = j}

\* A killed execution may have had the exit code zero; one that is gone has none.
EndedWell == {"success", "missed", "killed", "gone"}

\* What a poll may say of an execution whatever that does: a request to the status
\* URL that fails is a failure (http); the exit code and the kill mark that are found
\* may be another attempt's of the job (ssh, ssm).
Mistaken(r) ==
    {"failure"}
    \cup (IF r.seen = "kill_requested" THEN {"killed"} ELSE {})
    \cup (IF exec[r.exec] # "success" /\ \E d \in Of(r.job) : exec[d] \in EndedWell
          THEN {"success"} ELSE {})

\* What is left of an execution that has been reported failed or killed while it
\* went on, or although it had succeeded.
Belied(e) ==
    CASE e \in {"running", "stopping"} -> "lost"
      [] e = "success"                 -> "missed"
      [] OTHER                         -> e

\* Of an execution that is gone (k8s) a poll says nothing else.
PollMistaken(r) ==
    /\ exec[r.exec] # "gone"
    /\ \E result \in Mistaken(r) : Finalize(r, result)
    /\ exec' = [exec EXCEPT ![r.exec] = Belied(@)]
    /\ UNCHANGED <<tables, phase, killList, reclaims, expired, todo, requests, crashes>>

EndRound ==
    /\ phase = "polling" /\ pollList = {} /\ pc[Poller] = "idle"
    /\ phase' = "tick"
    /\ UNCHANGED <<tables, tasks, killList, pollList, reclaims, expired, todo, outside>>

-----------------------------------------------------------------------------
(* dispatch: one goroutine per claimed job                                 *)

Goto(t, label) == pc' = [pc EXCEPT ![t] = label]

\* A goroutine that is over keeps nothing; the poller takes the next row.
Return(t) ==
    /\ Goto(t, IF t = Poller THEN "idle" ELSE "done")
    /\ local' = [local EXCEPT ![t] = Blank]

AtLimit(l) == CountRunningByQueue >= l.limit

\* The count and the write that follows are two statements.  At the limit the
\* job is left as it was claimed.
CheckConcurrency(d) ==
    /\ pc[d] = "claimed"
    /\ IF AtLimit(local[d]) THEN Return(d) ELSE Goto(d, "start") /\ UNCHANGED local
    /\ UNCHANGED <<tables, loop, expired, todo, outside>>

failJob(j) == UpdateJobState(j, "failed", attempt[j], FALSE)

\* No method is registered under the name the queue has.
FailUnknown(d) ==
    /\ pc[d] = "start"
    /\ failJob(local[d].job)
    /\ Return(d)
    /\ UNCHANGED <<attemptRow, queue, loop, expired, todo, outside>>

WriteRunning(d) ==
    /\ pc[d] = "start"
    /\ LET n == local[d].attempt + 1 IN
       /\ UpdateJobState(local[d].job, "running", n, FALSE)
       /\ local' = [local EXCEPT ![d].attempt = n]
    /\ Goto(d, "attempt")
    /\ UNCHANGED <<attemptRow, queue, loop, expired, todo, outside>>

WriteAttempt(d) ==
    /\ pc[d] = "attempt"
    /\ CreateJobAttempt(d, local[d].job, local[d].attempt)
    /\ Goto(d, "starting")
    /\ UNCHANGED <<rows, queue, local, loop, expired, todo, outside>>

\* Start refuses, runs the job to its end, or hands back a handle.  When only the
\* answer to the start was lost, a refused execution goes on.
Start(d) ==
    /\ pc[d] = "starting"
    /\ \/ /\ Goto(d, "finish")
          /\ local' = [local EXCEPT ![d].result = "failure"]
          /\ \E e \in {"failure", "lost"} : exec' = [exec EXCEPT ![d] = e]
       \/ /\ \E label \in {"blocking", "accepted"} : Goto(d, label)
          /\ exec' = [exec EXCEPT ![d] = "running"]
          /\ UNCHANGED local
    /\ UNCHANGED <<tables, loop, expired, todo, requests, crashes>>

StartReturned(d) ==
    /\ pc[d] = "blocking"
    /\ exec[d] \in {"success", "failure"}
    /\ Goto(d, "finish")
    /\ local' = [local EXCEPT ![d].result = exec[d]]
    /\ UNCHANGED <<tables, loop, expired, todo, outside>>

\* A blocking Start gives up on an execution (a timeout, a broken connection).
GiveUp(d) ==
    /\ pc[d] = "blocking"
    /\ exec[d] \in {"running", "success"}
    /\ exec' = [exec EXCEPT ![d] = Belied(exec[d])]
    /\ Goto(d, "finish")
    /\ local' = [local EXCEPT ![d].result = "failure"]
    /\ UNCHANGED <<tables, loop, expired, todo, requests, crashes>>

SaveHandle(d) ==
    /\ pc[d] = "accepted"
    /\ handle' = [handle EXCEPT ![local[d].job] = d]
    /\ Return(d)
    /\ UNCHANGED <<state, attempt, nextAt, attemptRow, queue, loop, expired, todo, outside>>

\* Mutant: the error is only logged.
SaveHandleFailsSilently(d) ==
    /\ pc[d] = "accepted"
    /\ exec' = [exec EXCEPT ![d] = Belied(exec[d])]
    /\ Return(d)
    /\ UNCHANGED <<tables, loop, expired, todo, requests, crashes>>

SaveHandleFails(d) ==
    /\ pc[d] = "accepted"
    /\ failJob(local[d].job)
    /\ exec' = [exec EXCEPT ![d] = Belied(exec[d])]
    /\ Return(d)
    /\ UNCHANGED <<attemptRow, queue, loop, expired, todo, requests, crashes>>

-----------------------------------------------------------------------------
(* finalizeJobResult: for a dispatch whose Start returned a result, and for *)
(* a poll that found the execution ended                                   *)

CloseAttempt(t) ==
    /\ pc[t] = "finish"
    /\ FinishJobAttempt(local[t].row)
    /\ Goto(t, "clear")
    /\ UNCHANGED <<rows, queue, local, loop, expired, todo, outside>>

ClearHandle(t) ==
    /\ pc[t] = "clear"
    /\ handle' = [handle EXCEPT ![local[t].job] = NoOne]
    /\ Goto(t, "outcome")
    /\ UNCHANGED <<state, attempt, nextAt, attemptRow, queue, local, loop, expired, todo,
                   outside>>

\* Mutant: a requested kill counts as done, whatever the method reported.
KilledOnRequest(l) == l.seen = "kill_requested"

\* A killed execution makes the job killed only when the row was listed
\* kill_requested.  Otherwise the result decides: an execution that is gone has
\* neither exit code nor error, and IsSuccess takes that for success.
Killed(l) == l.result \in {"killed", "gone"} /\ l.seen = "kill_requested"

IsSuccess(l) == l.result \in {"success", "gone"}

\* Mutant: the last attempt is retried too.
RetriesTooOften(l) == l.attempt <= l.max

Retries(l) == l.attempt < l.max

WriteOutcome(t) ==
    /\ pc[t] = "outcome"
    /\ LET l == local[t] IN
       \/ Killed(l) /\ UpdateJobState(l.job, "killed", attempt[l.job], FALSE)
       \/ ~Killed(l) /\ IsSuccess(l) /\ UpdateJobState(l.job, "completed", attempt[l.job], FALSE)
       \/ ~Killed(l) /\ ~IsSuccess(l) /\ Retries(l)
          /\ UpdateJobState(l.job, "retrying", l.attempt, TRUE)
       \/ ~Killed(l) /\ ~IsSuccess(l) /\ ~Retries(l) /\ failJob(l.job)
    /\ Return(t)
    /\ UNCHANGED <<attemptRow, queue, loop, expired, todo, outside>>

-----------------------------------------------------------------------------
(* expirationLoop, the executions and the server                           *)

ListExpired ==
    /\ expired = {}
    /\ ListExpiredPendingJobs # {}
    /\ expired' = ListExpiredPendingJobs
    /\ UNCHANGED <<tables, tasks, loop, todo, outside>>

\* The rows were listed in another transaction: they may have been started.
Expire(j) ==
    /\ j \in expired
    /\ CancelRow(j)
    /\ expired' = expired \ {j}
    /\ UNCHANGED <<attemptRow, queue, tasks, loop, todo, outside>>

\* A stopping execution may end as killed; a detached one may also vanish; a lost
\* one ends as well.
ExecEnds(d) ==
    /\ \E e \in CASE exec[d] = "running" /\ pc[d] = "blocking" -> {"success", "failure"}
                  [] exec[d] = "running" /\ pc[d] # "blocking" -> {"success", "failure", "gone"}
                  [] exec[d] = "stopping" -> {"success", "failure", "killed", "gone"}
                  [] exec[d] = "lost"     -> {"missed", "failure"}
                  [] OTHER                -> {} :
         exec' = [exec EXCEPT ![d] = e]
    /\ UNCHANGED <<tables, tasks, loop, expired, todo, requests, crashes>>

\* The server goes, with its goroutines and lists, and comes back.
Crash ==
    /\ crashes < MaxCrashes
    /\ crashes' = crashes + 1
    /\ pc' = [t \in Tasks |-> IF t = Poller \/ pc[t] = "idle" THEN "idle" ELSE "done"]
    /\ local' = [t \in Tasks |-> Blank]
    /\ phase' = "tick" /\ killList' = {} /\ pollList' = {}
    /\ expired' = {} /\ todo' = NothingToDo
    /\ UNCHANGED <<tables, reclaims, exec, requests>>

-----------------------------------------------------------------------------
ApiStep ==
    \/ \E j \in Jobs : EnqueueJob(j) \/ CancelRead(j)
    \/ \E S \in SUBSET Jobs : BatchEnqueueJobs(S)
    \/ \E orig, j \in Jobs : ReplayJob(orig, j)
    \/ CancelWrite \/ UpdateQueue

FinalizeStep(t) == CloseAttempt(t) \/ ClearHandle(t) \/ WriteOutcome(t)

DispatchStep(d) ==
    \/ CheckConcurrency(d) \/ FailUnknown(d) \/ WriteRunning(d) \/ WriteAttempt(d)
    \/ Start(d) \/ StartReturned(d) \/ SaveHandle(d) \/ SaveHandleFails(d)
    \/ FinalizeStep(d)

LoopStep ==
    \/ Tick \/ ListKills \/ ListPolls \/ EndRound
    \/ \E j \in Jobs : KillOne(j)
    \/ \E r \in pollList : PollNothing(r) \/ PollTerminal(r) \/ PollMistaken(r)
    \/ FinalizeStep(Poller)

Next ==
    \/ ApiStep
    \/ LoopStep
    \/ \E d \in Dispatches : DispatchStep(d) \/ GiveUp(d) \/ ExecEnds(d)
    \/ ListExpired
    \/ \E j \in Jobs : Expire(j)
    \/ Crash

Spec == Init /\ [][Next]_vars

\* The dispatches and the loop run; an execution that has ended is not always
\* polled in vain.  Nothing is assumed of the executions, the API or the expiry.
Fairness ==
    /\ \A d \in Dispatches : WF_vars(DispatchStep(d))
    /\ WF_vars(LoopStep)
    /\ \A j \in Jobs : SF_vars(\E r \in pollList : r.job = j /\ PollTerminal(r))

FairSpec == Spec /\ Fairness

-----------------------------------------------------------------------------
(* Properties                                                              *)

\* max_attempts includes the first attempt: no job is attempted more often than the
\* largest maximum its queue has had, through double claims, replays, changes of the
\* queue under way and a restart (a job may be ahead of a maximum that was lowered).
JobAttemptsBounded == \A j \in Jobs : attempt[j] <= MaxAttempts

Finishing(t, j) ==
    local[t].job = j /\ pc[t] \in {"attempt", "starting", "blocking", "accepted", "finish",
                                   "clear", "outcome"}

\* As long as the server has not crashed, a running job is being worked on: by a
\* goroutine that will store a handle or write the outcome, or through a stored
\* handle and an unfinished attempt, without which listAsyncJobs passes it over.
RunningIsFollowed ==
    crashes = 0 =>
      \A j \in Jobs : state[j] = "running" =>
        \/ \E t \in Tasks : Finishing(t, j)
        \/ handle[j] # NoOne /\ OpenAttempts(j) # {}

\* Only a row that is claimed again before its dispatch has written it, or a false
\* report, makes a job run beside itself: without the first, a job has at most one
\* execution that goes on and was not reported over (by its Start or by a poll),
\* whatever was cancelled, killed, expired or restarted.
OneExecutionPerJob ==
    reclaims = 0 => \A j \in Jobs :
      Cardinality({d \in Of(j) : exec[d] \in {"running", "stopping"}}) <= 1

\* An outcome is never invented and never another job's, though polls and Starts may
\* report a failure or a kill that is none: a completed job has an execution of its
\* own that ended well or has vanished, a retrying one has one that failed, was
\* killed, or was wrongly reported to have, and so has a killed one unless it vanished.
JobOutcomeIsBacked ==
    \A j \in Jobs :
      /\ state[j] = "completed" => \E d \in Of(j) : exec[d] \in EndedWell
      /\ state[j] = "retrying" =>
           \E d \in Of(j) : exec[d] \in {"failure", "killed", "lost", "missed"}
      /\ state[j] = "killed" =>
           \E d \in Of(j) : exec[d] \in {"failure", "killed", "lost", "missed", "gone"}

\* An execution that has ended is noticed, killed ones included: the job with its
\* handle does not stay running or kill_requested (unless the server crashes,
\* which may leave the row with a handle and no unfinished attempt).
JobReconciled ==
    \A j \in Jobs, d \in Dispatches :
      (state[j] \in {"running", "kill_requested"} /\ handle[j] = d /\ exec[d] \in Ended)
        ~> (state[j] \notin {"running", "kill_requested"} \/ handle[j] # d \/ crashes > 0)

=============================================================================
