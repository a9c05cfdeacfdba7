------------------------------ MODULE Schedule ------------------------------
(***************************************************************************)
(* How runs come into being: the planner, the recovery pass at start-up,   *)
(* manual triggers, the dependency resolver and orchestras, over discrete  *)
(* time.                                                                   *)
(*                                                                         *)
(* A schedule is the set of the times at which it fires; parsing and time  *)
(* zones are left out.  A tick of the clock is a fraction of the minutes   *)
(* of cron expressions: passes come between the slots as well as on them.  *)
(* The planner and the recovery pass go through the slots of one process   *)
(* after the other and insert one row per step, so that a crash can come   *)
(* between two inserts.                                                    *)
(***************************************************************************)
EXTENDS Naturals, FiniteSets, FiniteSetsExt

CONSTANTS
    Procs,             \* processes
    Existing,          \* those that exist at the start
    Schedules,         \* the schedules a process may be given
    Original,          \* Original[p]: its schedule at the start
    ExecuteOnMiss,     \* the processes with miss_policy = 'execute'
    DependsOn,         \* DependsOn[p]: depends_on_process_id
    DependencyType,    \* DependencyType[p]: 'after' or 'after_success'
    NoOne,             \* SQL NULL
    Horizon, Interval, \* of the planner
    Lag,               \* how late its ticker and its statements may be together
    MaxRecoverySlots,  \* processes.max_recovery_slots
    MaxTime, MaxEnded, \* bounds on the clock and on the runs that end
    MaxEvents,         \* bound on requests and crashes together
    Requested          \* bound on the processes that requests are about

Times == 0 .. MaxTime + Horizon

ASSUME ScheduleAssumption ==
    /\ Horizon \in Nat /\ MaxTime \in Nat /\ MaxEnded \in Nat
    /\ Interval \in Nat \ {0} /\ Lag \in Nat /\ Interval + Lag <= Horizon
    /\ MaxRecoverySlots \in Nat /\ MaxEvents \in Nat
    /\ Schedules \subseteq SUBSET Nat
    /\ Existing \subseteq Procs /\ Original \in [Procs -> Schedules \cup {{}}]
    /\ ExecuteOnMiss \subseteq Procs /\ NoOne \notin Procs
    /\ DependsOn \in [Procs -> Procs \cup {NoOne}]
    /\ DependencyType \in [Procs -> {"after", "after_success"}]

VARIABLES
    now,        \* the clock
    active,     \* workspaces.state = 'active'
    process,    \* the table processes
    edit,       \* what UpdateProcess has read and will write
    rows,       \* the table runs
    choices,    \* the runs with a choice_config
    orchestra,  \* a row of orchestras
    outcome,    \* the final states that have been written
    hooks,      \* runs for which handleTerminal has still to be called
    server,     \* what the program is doing
    pass,       \* the pass of the planner or of the recovery
    due,        \* when the planner runs again
    touched,    \* processes a request was about, or a failed recovery (history)
    unseen,     \* times between a recovery pass and the first plan (history)
    requests, crashes

world   == <<now, requests, crashes>>
tables  == <<active, process, rows, outcome>>
scores  == <<choices, orchestra>>
program == <<hooks, server, pass, due>>
history == <<touched, unseen>>
vars    == <<world, tables, scores, edit, program, history>>

-----------------------------------------------------------------------------
NoRow == [proc |-> NoOne, at |-> 0, origin |-> "none", parent |-> NoOne]

NoPass == [kind |-> "none", now |-> 0, todo |-> {}, proc |-> NoOne, slots |-> {}, from |-> 0,
           created |-> 0]

Row(p, t, o) == [proc |-> p, at |-> t, origin |-> o, parent |-> NoOne]

Movement(p, parent) == [proc |-> p, at |-> now, origin |-> "orchestra", parent |-> parent]

\* A movement of the orchestra: runs.orchestra_id is set.
InOrchestra(r) == r.origin = "orchestra"

NoEdit == [proc |-> NoOne, enabled |-> FALSE, schedule |-> {}]

\* The CHECK on runs.origin.
Origins == {"cron", "fixed_delay", "manual", "one_time", "recovery", "dependency", "replay"}

OrchestraStates == {"none", "active", "waiting_for_choice", "paused", "completed", "cancelled"}

\* The final states handleTerminal is called for.
Ends == {"completed", "failed", "killed", "skipped"}

There(p) == process[p].life = "there"

\* The rows have the origins and processes of the schema, no row is of a process that
\* is gone, and an outcome or a pending hook belongs to a row.
TypeOK ==
    /\ now \in 0 .. MaxTime
    /\ active \in BOOLEAN
    /\ process \in [Procs -> [life : {"unborn", "there", "deleted"}, enabled : BOOLEAN,
                              schedule : Schedules \cup {{}}]]
    /\ edit \in [proc : Procs \cup {NoOne}, enabled : BOOLEAN, schedule : Schedules \cup {{}}]
    /\ \A r \in rows : r.proc \in Procs /\ r.at \in Times /\ There(r.proc)
    /\ choices \subseteq rows /\ orchestra \in [state : OrchestraStates, count : Nat]
    /\ DOMAIN outcome \subseteq rows
    /\ \A r \in DOMAIN outcome : outcome[r] \in Ends
    /\ \A h \in hooks : h.seen \in {"pending", "completed", "failed", "killed"}
    /\ server \in {"down", "recovering", "recovered", "up"}
    /\ pass.kind \in {"none", "recovery", "plan"}
    /\ pass.todo \subseteq [proc : Procs, slots : Schedules]
    /\ due \in Nat /\ touched \subseteq Procs /\ unseen \subseteq Times
    /\ requests \in Nat /\ crashes \in Nat /\ requests + crashes <= MaxEvents

\* The server starts on an empty table of runs.
Init ==
    /\ now = 0 /\ active = TRUE
    /\ process = [p \in Procs |-> [life |-> IF p \in Existing THEN "there" ELSE "unborn",
                                   enabled |-> TRUE, schedule |-> Original[p]]]
    /\ edit = NoEdit /\ choices = {} /\ orchestra = [state |-> "none", count |-> 0]
    /\ rows = {} /\ outcome = <<>> /\ hooks = {}
    /\ server = "recovered" /\ pass = NoPass /\ due = 0
    /\ touched = {} /\ unseen = {}
    /\ requests = 0 /\ crashes = 0

-----------------------------------------------------------------------------
(* The statements                                                          *)

\* UNIQUE (process_id, scheduled_at, origin), the reference to the process, and the
\* CHECK on the origin.
Insertable(r) ==
    /\ r \notin rows
    /\ There(r.proc)
    /\ r.origin \in Origins

CreateRun(r) == Insertable(r) /\ rows' = rows \cup {r}

\* For callers that go on when the statement is refused.
TryCreateRun(r) == rows' = IF Insertable(r) THEN rows \cup {r} ELSE rows

RunExists(p, t, o) == Row(p, t, o) \in rows

ListEnabledCronProcesses ==
    {[proc |-> p, slots |-> process[p].schedule] :
       p \in {q \in Procs : active /\ There(q) /\ process[q].enabled /\ process[q].schedule # {}}}

RunsOf(p) == {r \in rows : r.proc = p}

\* Mutant: the last run that was executed, as the comment in the source has it.
GetLastExecuted(p) ==
    Max({r.at : r \in {q \in RunsOf(p) : q \in DOMAIN outcome}} \cup {0})

\* The latest scheduled_at of any origin, planned rows included.
GetLastRunByProcess(p) == Max({r.at : r \in RunsOf(p)})

GetDependentProcesses(p) ==
    {q \in Procs : DependsOn[q] = p /\ There(q) /\ process[q].enabled}

-----------------------------------------------------------------------------
(* Passes over the slots                                                   *)

Begin(kind) ==
    pass' = [NoPass EXCEPT !.kind = kind, !.now = now, !.todo = ListEnabledCronProcesses]

\* recoverCronProcesses lists the processes; detectOrphans comes before it.
StartRecovery ==
    /\ server = "down"
    /\ server' = "recovering"
    /\ Begin("recovery")
    /\ UNCHANGED <<world, tables, scores, edit, hooks, due, history>>

\* An error of the recovery pass is logged, and the server starts all the same.  What
\* was missed by then stays so: the planner goes on from its own clock reading.
RecoveryFails ==
    /\ server = "recovering"
    /\ server' = "recovered"
    /\ pass' = [NoPass EXCEPT !.now = pass.now]
    /\ touched' = Procs
    /\ UNCHANGED <<world, tables, scores, edit, hooks, due, unseen>>

\* Processes that do not execute missed slots, or have no run, are passed over.
NextToRecover(e) ==
    /\ pass.kind = "recovery" /\ pass.proc = NoOne
    /\ e \in pass.todo
    /\ pass' = IF e.proc \in ExecuteOnMiss /\ RunsOf(e.proc) # {}
               THEN [pass EXCEPT !.todo = @ \ {e}, !.proc = e.proc, !.slots = e.slots,
                                 !.from = GetLastRunByProcess(e.proc) + 1, !.created = 0]
               ELSE [pass EXCEPT !.todo = @ \ {e}]
    /\ UNCHANGED <<world, tables, scores, edit, hooks, server, due, history>>

\* Mutant: the slot of the clock reading itself is taken to be over.
NextToPlanAfter(e) ==
    /\ pass.kind = "plan" /\ pass.proc = NoOne
    /\ e \in pass.todo
    /\ pass' = [pass EXCEPT !.todo = @ \ {e}, !.proc = e.proc, !.slots = e.slots,
                            !.from = pass.now + 1, !.created = 0]
    /\ UNCHANGED <<world, tables, scores, edit, hooks, server, due, history>>

NextToPlan(e) ==
    /\ pass.kind = "plan" /\ pass.proc = NoOne
    /\ e \in pass.todo
    /\ pass' = [pass EXCEPT !.todo = @ \ {e}, !.proc = e.proc, !.slots = e.slots,
                            !.from = pass.now, !.created = 0]
    /\ UNCHANGED <<world, tables, scores, edit, hooks, server, due, history>>

\* Mutant: one recovery slot more.
InWindowOneMore(t) ==
    IF pass.kind = "plan" THEN t <= pass.now + Horizon
    ELSE t < pass.now /\ pass.created <= MaxRecoverySlots

\* The planner goes up to its horizon, recovery up to now and to its cap.
InWindow(t) ==
    IF pass.kind = "plan" THEN t <= pass.now + Horizon
    ELSE t < pass.now /\ pass.created < MaxRecoverySlots

Upcoming == {t \in pass.slots : t >= pass.from}

PassOrigin == IF pass.kind = "plan" THEN "cron" ELSE "recovery"

NextSlot(t) == pass.proc # NoOne /\ t \in Upcoming /\ \A u \in Upcoming : t <= u

\* An existing row is passed over and does not count.
SlotStep(t) ==
    /\ NextSlot(t) /\ InWindow(t)
    /\ \/ /\ RunExists(pass.proc, t, PassOrigin)
          /\ pass' = [pass EXCEPT !.from = t + 1]
          /\ UNCHANGED rows
       \/ /\ CreateRun(Row(pass.proc, t, PassOrigin))
          /\ pass' = [pass EXCEPT !.from = t + 1, !.created = @ + 1]
    /\ UNCHANGED <<world, active, process, scores, edit, outcome, hooks, server, due, history>>

Leave == pass' = [pass EXCEPT !.proc = NoOne, !.slots = {}, !.from = 0, !.created = 0]

\* The window or the schedule is at its end, or an insert has failed because the
\* process was deleted.
EndSlots ==
    /\ pass.proc # NoOne
    /\ \/ \A t \in Upcoming : ~(NextSlot(t) /\ InWindow(t))
       \/ ~There(pass.proc)
    /\ Leave
    /\ UNCHANGED <<world, tables, scores, edit, hooks, server, due, history>>

EndRecovery ==
    /\ pass.kind = "recovery" /\ pass.proc = NoOne /\ pass.todo = {}
    /\ server' = "recovered"
    /\ pass' = [NoPass EXCEPT !.now = pass.now]
    /\ UNCHANGED <<world, tables, scores, edit, hooks, due, history>>

\* The planner's first pass has a clock reading of its own: the slots between the two
\* are neither missed nor upcoming.
StartPlanner ==
    /\ server = "recovered"
    /\ server' = "up"
    /\ Begin("plan")
    /\ due' = now + Interval
    /\ unseen' = unseen \cup (pass.now .. now - 1)
    /\ UNCHANGED <<world, tables, scores, edit, hooks, touched>>

Plan ==
    /\ server = "up" /\ pass.kind = "none"
    /\ now >= due
    /\ Begin("plan")
    /\ due' = now + Interval
    /\ UNCHANGED <<world, tables, scores, edit, hooks, server, history>>

EndPlan ==
    /\ pass.kind = "plan" /\ pass.proc = NoOne /\ pass.todo = {}
    /\ pass' = NoPass
    /\ UNCHANGED <<world, tables, scores, edit, hooks, server, due, history>>

-----------------------------------------------------------------------------
(* Runs that end, and the resolver                                         *)

\* A due run ends: its execution ended, or was killed, or it was skipped.  The final
\* state is read back for handleTerminal, except when the run was skipped: then dispatch
\* passes on the row it had claimed.
RunEnds(r, s) ==
    /\ server = "up"
    /\ r \in rows \ DOMAIN outcome /\ r.at <= now
    /\ Cardinality(DOMAIN outcome) < MaxEnded
    /\ outcome' = [q \in DOMAIN outcome \cup {r} |-> IF q = r THEN s ELSE outcome[q]]
    /\ hooks' = hooks \cup {[row |-> r, seen |-> IF s = "skipped" THEN "pending" ELSE s]}
    /\ UNCHANGED <<world, active, process, scores, edit, rows, server, pass, due, history>>

IsFinalTerminal(s) == s \in {"completed", "failed", "killed", "skipped", "cancelled"}

\* Mutant: any end will do.
TriggersAlways(p, s) == IsFinalTerminal(s)

\* after: whatever the result; after_success: only when completed.
Triggers(p, s) ==
    /\ IsFinalTerminal(s)
    /\ DependencyType[p] = "after_success" => s = "completed"

\* The scheduled time of a dependent run is the time of the call; it is distinct from
\* those of all others, which the parent in the row stands for.
createDependentRuns(h) ==
    {[proc |-> p, at |-> now, origin |-> "dependency", parent |-> h.row] :
       p \in {q \in GetDependentProcesses(h.row.proc) : Triggers(q, h.seen)}}

Evaluate(h) ==
    /\ h \in hooks
    /\ hooks' = hooks \ {h}
    /\ rows' = rows \cup createDependentRuns(h)
    /\ UNCHANGED <<world, active, process, scores, edit, outcome, server, pass, due, history>>

-----------------------------------------------------------------------------
(* API requests, time, crashes                                             *)

Request ==
    /\ server = "up"
    /\ requests + crashes < MaxEvents /\ requests' = requests + 1

About(p) ==
    /\ Request
    /\ p \in Requested /\ There(p)
    /\ touched' = touched \cup {p}

\* The row CreateProcess inserts: enabled, and dependent on no other process.
NewProcess(schedule) == [life |-> "there", enabled |-> TRUE, schedule |-> schedule]

CreateProcess(p) ==
    /\ Request
    /\ process[p].life = "unborn"
    /\ \E s \in Schedules : process' = [process EXCEPT ![p] = NewProcess(s)]
    /\ UNCHANGED <<now, crashes, active, rows, outcome, scores, edit, program, history>>

\* Neither enabled nor the schedule is tested.
TriggerProcess(p) ==
    /\ About(p)
    /\ CreateRun(Row(p, now, "manual"))
    /\ UNCHANGED <<now, crashes, active, process, outcome, scores, edit, program, unseen>>

\* AdminUpdateWorkspaceState: a platform administrator suspends the workspace of the
\* processes, archives it or takes it back.  (Writing the state it has changes nothing.)
UpdateWorkspaceState ==
    /\ Request
    /\ active' = ~active
    /\ touched' = Procs
    /\ UNCHANGED <<now, crashes, process, rows, outcome, scores, edit, program, unseen>>

\* PauseProcess, ResumeProcess: their effect on the rows is in RunLifecycle.
SetProcessEnabled(p) ==
    /\ About(p)
    /\ process' = [process EXCEPT ![p].enabled = ~@]
    /\ UNCHANGED <<now, crashes, active, rows, outcome, scores, edit, program, unseen>>

\* UpdateProcess reads the process and merges the request into what it read ...
GetProcess(p) ==
    /\ About(p)
    /\ edit = NoEdit
    /\ \E s \in Schedules : edit' = [proc |-> p, enabled |-> process[p].enabled, schedule |-> s]
    /\ UNCHANGED <<now, crashes, tables, scores, program, unseen>>

\* The statement writes all columns of a process that is there.
WriteProcess(e) ==
    process' = IF There(e.proc)
               THEN [process EXCEPT ![e.proc].enabled = e.enabled,
                                    ![e.proc].schedule = e.schedule]
               ELSE process

\* ... and writes it, over what another request has written meanwhile.  A new
\* schedule does not take back the rows that are planned.
UpdateProcess ==
    /\ edit.proc # NoOne
    /\ WriteProcess(edit)
    /\ edit' = NoEdit
    /\ UNCHANGED <<world, active, rows, outcome, scores, program, history>>

\* Mutant: runs.process_id without ON DELETE CASCADE.
DeleteProcessOnly(p) ==
    /\ About(p)
    /\ process' = [process EXCEPT ![p].life = "deleted"]
    /\ UNCHANGED <<now, crashes, active, rows, outcome, scores, edit, program, unseen>>

\* The runs go with the process.
DeleteProcess(p) ==
    /\ About(p)
    /\ process' = [process EXCEPT ![p].life = "deleted"]
    /\ rows' = {r \in rows : r.proc # p}
    /\ choices' = {r \in choices : r.proc # p}
    /\ outcome' = [r \in DOMAIN outcome \ RunsOf(p) |-> outcome[r]]
    /\ hooks' = {h \in hooks : h.row.proc # p}
    /\ UNCHANGED <<now, crashes, active, orchestra, edit, server, pass, due, unseen>>

-----------------------------------------------------------------------------
(* Orchestras: chains of runs the API is asked for                         *)

\* The counter goes up first; that the run could not be inserted is not noticed.
CreateOrchestra(first) ==
    /\ Request
    /\ orchestra.state = "none"
    /\ \/ /\ first = NoOne
          /\ orchestra' = [state |-> "active", count |-> 0]
          /\ UNCHANGED rows
       \/ /\ first # NoOne
          /\ orchestra' = [state |-> "active", count |-> 1]
          /\ TryCreateRun(Movement(first, NoOne))
    /\ UNCHANGED <<now, crashes, active, process, outcome, choices, edit, program, history>>

WriteOrchestraState(to) == orchestra' = [orchestra EXCEPT !.state = to]

\* Cancel, pause, resume and finish write the state and test none.
UpdateOrchestraState(to) ==
    /\ Request
    /\ orchestra.state # "none"
    /\ WriteOrchestraState(to)
    /\ UNCHANGED <<now, crashes, tables, choices, edit, program, history>>

IncrementMovementCount(r) ==
    IF InOrchestra(r) THEN [orchestra EXCEPT !.count = @ + 1] ELSE orchestra

\* Any run can be asked for a next one; of a run outside an orchestra it is the
\* first movement of none.
NextMovement(r, p) ==
    /\ Request
    /\ orchestra' = IncrementMovementCount(r)
    /\ TryCreateRun(Movement(p, r))
    /\ UNCHANGED <<now, crashes, active, process, outcome, choices, edit, program, history>>

SetRunChoiceConfig(r) == choices' = choices \cup {r}

SetChoiceConfig(r) ==
    /\ Request
    /\ SetRunChoiceConfig(r)
    /\ orchestra' = IF InOrchestra(r) THEN [orchestra EXCEPT !.state = "waiting_for_choice"]
                    ELSE orchestra
    /\ UNCHANGED <<now, crashes, tables, edit, program, history>>

\* A choice names a process to go on with, or none.  It may be made again.
Choose(r, p) ==
    /\ Request
    /\ \/ /\ p # NoOne
          /\ orchestra' = IF InOrchestra(r)
                          THEN [IncrementMovementCount(r) EXCEPT !.state = "active"]
                          ELSE orchestra
          /\ TryCreateRun(Movement(p, r))
       \/ /\ p = NoOne
          /\ orchestra' = IF InOrchestra(r) THEN [orchestra EXCEPT !.state = "completed"]
                          ELSE orchestra
          /\ UNCHANGED rows
    /\ UNCHANGED <<now, crashes, active, process, outcome, choices, edit, program, history>>

-----------------------------------------------------------------------------
(* Time and crashes                                                        *)

\* The planner runs again at most Lag late; the time a pass takes counts as lateness.
Tick ==
    /\ now < MaxTime
    /\ server = "up" => pass.kind = "none" /\ now < due + Lag
    /\ now' = now + 1
    /\ UNCHANGED <<requests, crashes, tables, scores, edit, program, history>>

Crash ==
    /\ server # "down" /\ requests + crashes < MaxEvents
    /\ crashes' = crashes + 1
    /\ server' = "down" /\ pass' = NoPass /\ hooks' = {} /\ due' = 0 /\ edit' = NoEdit
    /\ UNCHANGED <<now, requests, tables, scores, history>>

-----------------------------------------------------------------------------
PassStep ==
    \/ StartRecovery \/ RecoveryFails \/ EndRecovery \/ StartPlanner \/ Plan \/ EndPlan
    \/ \E e \in pass.todo : NextToRecover(e) \/ NextToPlan(e)
    \/ \E t \in pass.slots : SlotStep(t)
    \/ EndSlots

ApiStep ==
    \/ \E p \in Procs :
         CreateProcess(p) \/ TriggerProcess(p) \/ SetProcessEnabled(p) \/ GetProcess(p)
           \/ DeleteProcess(p)
    \/ UpdateProcess \/ UpdateWorkspaceState

OrchestraStep ==
    \/ \E p \in Procs \cup {NoOne} : CreateOrchestra(p) \/ \E r \in choices : Choose(r, p)
    \/ \E to \in {"cancelled", "paused", "active", "completed"} : UpdateOrchestraState(to)
    \/ \E r \in rows, p \in Procs : NextMovement(r, p)
    \/ \E r \in rows : SetChoiceConfig(r)

Next ==
    \/ PassStep
    \/ \E r \in rows, s \in Ends : RunEnds(r, s)
    \/ \E h \in hooks : Evaluate(h)
    \/ ApiStep
    \/ OrchestraStep
    \/ Tick
    \/ Crash

Spec == Init /\ [][Next]_vars

-----------------------------------------------------------------------------
(* Properties                                                              *)

Scheduled == {"cron", "recovery"}

SlotRows(p, t) == {r \in rows : r.proc = p /\ r.at = t /\ r.origin \in Scheduled}

\* Planner and recovery together implement the ledger: the unique key covers one
\* origin only, and yet no slot gets a cron row and a recovery row, whatever was
\* planned, paused, rescheduled, interrupted or recovered in between.
Ledger == INSTANCE SlotLedger WITH
    clock <- now,
    Givers <- Scheduled,
    served <- {<<r.proc, r.at, r.origin>> : r \in {q \in rows : q.origin \in Scheduled}}

SlotsServedOnce == Ledger!Spec

\* A slot of a process nobody touched is not missed, through crashes at any point, any
\* time of being down and passes that are late: it has a row once it is past, if the
\* process executes missed slots and has been planned before, recovery did not reach its
\* cap, and the slot does not lie between a recovery pass and the planner's first pass.
\* Exempt are the processes that a request was about or whose workspace was suspended,
\* and all of them once a recovery pass has failed.
NoMissedSlot ==
    (server = "up" /\ pass.kind = "none") =>
      \A p \in ExecuteOnMiss \ touched :
        (DependsOn[p] = NoOne /\ Cardinality({r \in RunsOf(p) : r.origin = "recovery"})
                                   < MaxRecoverySlots) =>
          \A t \in process[p].schedule :
            (t < now /\ \E r \in RunsOf(p) : r.at < t) => SlotRows(p, t) # {} \/ t \in unseen

\* max_recovery_slots bounds what one start-up adds for a process, also when the pass
\* is interrupted and begins again.
RecoveryCapped ==
    \A p \in Procs :
      Cardinality({r \in RunsOf(p) : r.origin = "recovery"}) <= MaxRecoverySlots * crashes

\* A dependent run has a parent that was executed and ended, or was killed, and one with
\* after_success a parent that completed: a skipped parent triggers nothing, whatever the
\* type.  (The parent may be gone with its process.)
DependentsBacked ==
    \A r \in rows : r.origin = "dependency" =>
      \/ ~There(r.parent.proc)
      \/ /\ r.parent \in DOMAIN outcome
         /\ outcome[r.parent] # "skipped"
         /\ DependencyType[r.proc] = "after_success" => outcome[r.parent] = "completed"

=============================================================================
