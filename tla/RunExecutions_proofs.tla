------------------------ MODULE RunExecutions_proofs ------------------------
(***************************************************************************)
(* Proofs about RunLifecycle that relate rows to executions: an outcome is *)
(* one that an execution of the row had, and, with prompt dispatches, a    *)
(* row has at most one execution that has not ended.                       *)
(***************************************************************************)
EXTENDS RunLifecycle_proofs

-----------------------------------------------------------------------------
(* Outcomes are backed                                                     *)
(*                                                                         *)
(* OutcomeIsBacked alone is not inductive: between the end of an execution *)
(* and the write of its outcome the evidence is in the locals of a         *)
(* goroutine.  The invariant follows it on its way: a dispatch has an      *)
(* execution only after it has called its method, a stored handle and a    *)
(* listed poll are about an execution of their own row, a request to kill  *)
(* a row is signed, and a goroutine that holds a result has an execution   *)
(* for it.                                                                 *)

\* Where a dispatch has not called its method yet.
Ready == {"idle", "claimed", "skip", "queue", "start", "starting"}

\* Where a goroutine holds a result it has not written.
Concluding == {"returned", "finish", "outcome"}

\* How an execution has ended that backs killed and retrying, as EndedWell is how
\* one has that backs completed.
BadlyEnded == {"failure", "killed", "lost", "missed"}

Started ==
    \A d \in Dispatches :
      /\ pc[d] \in Ready => exec[d] = "none"
      /\ pc[d] \in {"blocking", "accepted"} => exec[d] # "none"
      /\ exec[d] # "none" => local[d].run \in Runs

HandlesOwn ==
    \A r \in Runs :
      handle[r] # NoOne => local[handle[r]].run = r /\ exec[handle[r]] # "none"

PollsOwn ==
    \A r \in Runs :
      /\ pc[r] # "idle" => local[r].run = r
      /\ pc[r] = "listed" =>
           /\ local[local[r].exec].run = r
           /\ exec[local[r].exec] # "none"
           /\ local[r].seen = "kill_requested" => killedBy[r]

KillsAsked == \A r \in Runs : state[r] = "kill_requested" => killedBy[r]

\* What the result a goroutine holds for row r rests on.
Rests(r, result) ==
    /\ result = "success" => ExecutedAs(r, EndedWell)
    /\ result # "success" => ExecutedAs(r, BadlyEnded)
    /\ result = "killed" => killedBy[r]

ResultsBacked ==
    \A t \in Tasks : \A r \in Runs :
      pc[t] \in Concluding /\ local[t].run = r => Rests(r, local[t].result)

BackingInv ==
    Started /\ HandlesOwn /\ PollsOwn /\ KillsAsked /\ ResultsBacked /\ OutcomeIsBacked

\* No row, no handle and no goroutine exists at first.
LEMMA BackingInit == Init => BackingInv
  BY IdentifiersAssumption
     DEF Init, BackingInv, Started, HandlesOwn, PollsOwn, KillsAsked, ResultsBacked,
         OutcomeIsBacked, Concluding, Tasks, Blank

\* What every step does to the executions: they keep their row, and an ended
\* one keeps what it backs (a late kill turns success and failure into killed).
Advances ==
    \A d \in Dispatches :
      /\ exec[d] \in EndedWell => exec'[d] \in EndedWell
      /\ exec[d] \in BadlyEnded => exec'[d] \in BadlyEnded
      /\ exec[d] # "none" => exec'[d] # "none" /\ local'[d].run = local[d].run

\* Evidence is never lost.
LEMMA EvidenceKept ==
    ASSUME Advances, NEW r
    PROVE  /\ ExecutedAs(r, EndedWell) => ExecutedAs(r, EndedWell)'
           /\ ExecutedAs(r, BadlyEnded) => ExecutedAs(r, BadlyEnded)'
  BY DEF Advances, ExecutedAs, EndedWell, BadlyEnded

\* The result of a goroutine stays backed while no kill request is unsigned.
LEMMA RestsKept ==
    ASSUME Advances, NEW r \in Runs, NEW result, killedBy[r] => killedBy'[r],
           Rests(r, result)
    PROVE  Rests(r, result)'
  BY EvidenceKept DEF Rests

\* A handle that is kept stays a handle of its row.
LEMMA HandlesKept ==
    ASSUME TypeOK, HandlesOwn, Advances,
           \A r \in Runs : handle'[r] \in {handle[r], NoOne}
    PROVE  HandlesOwn'
  BY DEF HandlesOwn, Advances, TypeOK, RowsOK

\* A poll that goes on or returns stays a poll of its row.
LEMMA PollsKept ==
    ASSUME TypeOK, PollsOwn, Advances,
           \A r \in Runs : killedBy[r] => killedBy'[r],
           \A r \in Runs :
             /\ pc'[r] # "idle" => pc[r] # "idle" /\ local'[r].run = local[r].run
             /\ pc'[r] = "listed" => pc[r] = "listed" /\ local'[r] = local[r]
    PROVE  PollsOwn'
  BY DEF PollsOwn, Advances, TypeOK, TasksOK

\* A kill request is signed when it is written.
LEMMA KillsKept ==
    ASSUME KillsAsked, \A r \in Runs : killedBy[r] => killedBy'[r],
           \A r \in Runs :
             state'[r] = "kill_requested" => state[r] = "kill_requested" \/ killedBy'[r]
    PROVE  KillsAsked'
  BY DEF KillsAsked

\* A goroutine that keeps its result keeps what it rests on.
LEMMA ResultsKept ==
    ASSUME ResultsBacked, Advances, \A r \in Runs : killedBy[r] => killedBy'[r],
           \A t \in Tasks :
             pc'[t] \in Concluding => /\ pc[t] \in Concluding
                                      /\ local'[t].run = local[t].run
                                      /\ local'[t].result = local[t].result
    PROVE  ResultsBacked'
<1> SUFFICES ASSUME NEW t \in Tasks, NEW r \in Runs, pc'[t] \in Concluding, local'[t].run = r
             PROVE  Rests(r, local[t].result)'
  BY DEF ResultsBacked
<1>1. Rests(r, local[t].result)  BY DEF ResultsBacked
<1>p. PICK res : res = local[t].result  OBVIOUS
<1>2. Rests(r, res)'  BY <1>1, <1>p, RestsKept
<1> QED  BY <1>2, <1>p

\* A row whose state is not an outcome, or that keeps it, stays backed.
LEMMA OutcomesKept ==
    ASSUME OutcomeIsBacked, Advances, \A r \in Runs : killedBy[r] => killedBy'[r],
           \A r \in Runs :
             state'[r] \in {"completed", "killed", "retrying"} => state'[r] = state[r]
    PROVE  OutcomeIsBacked'
<1> SUFFICES ASSUME NEW r \in Runs
             PROVE  /\ state'[r] = "completed" => ExecutedAs(r, EndedWell)'
                    /\ state'[r] = "killed" => killedBy'[r]
                    /\ state'[r] \in {"killed", "retrying"} => ExecutedAs(r, BadlyEnded)'
  BY DEF OutcomeIsBacked, ExecutedAs, EndedWell, BadlyEnded
<1>1. /\ state[r] = "completed" => ExecutedAs(r, EndedWell)
      /\ state[r] = "killed" => killedBy[r]
      /\ state[r] \in {"killed", "retrying"} => ExecutedAs(r, BadlyEnded)
  BY DEF OutcomeIsBacked, EndedWell, BadlyEnded
<1> QED  BY <1>1, EvidenceKept

\* Steps that touch no goroutine and no handle: requests, monitor, executions.
LEMMA RowStepBacking ==
    ASSUME TypeOK, BackingInv, pc' = pc, local' = local, handle' = handle,
           Advances, \A d \in Dispatches : exec[d] = "none" => exec'[d] = "none",
           \A r \in Runs : killedBy[r] => killedBy'[r],
           \A r \in Runs :
             /\ state'[r] = "kill_requested" => state[r] = "kill_requested" \/ killedBy'[r]
             /\ state'[r] \in {"completed", "killed", "retrying"} => state'[r] = state[r]
    PROVE  BackingInv'
<1> USE DEF BackingInv
<1>1. Started'  BY DEF Started, Advances
<1>2. HandlesOwn'  BY HandlesKept
<1>3. PollsOwn'  BY PollsKept
<1>4. KillsAsked'  BY KillsKept
<1>5. ResultsBacked'  BY ResultsKept
<1>6. OutcomeIsBacked'  BY OutcomesKept
<1> QED  BY <1>1, <1>2, <1>3, <1>4, <1>5, <1>6

\* Executions that stay as they are advance.
LEMMA SameAdvances ==
    ASSUME exec' = exec, \A d \in Dispatches : exec[d] # "none" => local'[d].run = local[d].run
    PROVE  Advances
  BY DEF Advances

\* What Kill and ExecEnds do to an execution.
LEMMA KillEffect ==
    ASSUME TypeOK, NEW r \in Runs, Kill(r)
    PROVE  \A d \in Dispatches :
             \/ exec'[d] = exec[d]
             \/ Live(d) /\ exec'[d] = "stopping"
             \/ exec[d] \in Ended /\ exec'[d] = "killed"
<1> DEFINE h == IF inMemory[r] # NoOne THEN inMemory[r] ELSE handle[r]
<1>1. CASE h = NoOne  BY <1>1 DEF Kill
<1>2. CASE h # NoOne
  <2>1. h \in Dispatches  BY <1>2 DEF TypeOK, RowsOK, TasksOK
  <2>2. PICK e \in AfterKill(exec[h]) \cup {exec[h]} : exec' = [exec EXCEPT ![h] = e]
    BY <1>2 DEF Kill
  <2>3. \/ e = exec[h]
        \/ exec[h] \in {"running", "stopping"} /\ e = "stopping"
        \/ exec[h] \in Ended /\ e = "killed"
    BY <2>2 DEF AfterKill
  <2> HIDE DEF h
  <2> QED  BY <2>1, <2>2, <2>3 DEF Live, TypeOK, ServiceOK
<1> QED  BY <1>1, <1>2

\* A kill takes no evidence away.
LEMMA KillAdvances ==
    ASSUME local' = local,
           \A d \in Dispatches :
             \/ exec'[d] = exec[d]
             \/ Live(d) /\ exec'[d] = "stopping"
             \/ exec[d] \in Ended /\ exec'[d] = "killed"
    PROVE  Advances /\ \A d \in Dispatches : exec[d] = "none" => exec'[d] = "none"
  BY DEF Advances, EndedWell, BadlyEnded, Live, Ended

\* Requests and inserted rows write no outcome, and sign what they ask for.
LEMMA ApiBacking == ASSUME TypeOK, BackingInv, ApiStep PROVE BackingInv'
<1>1. pc' = pc /\ local' = local /\ handle' = handle /\ exec' = exec
  BY DEF ApiStep, PlanRun, TriggerProcess, ReplayRun, CancelRead, CancelWrite, KillRun,
         SetProcessEnabled, BulkWrite, CreateRun, tasks, rows
<1>2. ASSUME NEW c \in Clients, CancelWrite(c)
      PROVE  todo[c].run \in Runs /\ todo[c].to \in {"cancelled", "kill_requested"}
  BY <1>2, TodoOfOneRow DEF CancelWrite, OfOneRow
<1>3. \A r \in Runs :
        /\ killedBy[r] => killedBy'[r]
        /\ state'[r] = "kill_requested" => state[r] = "kill_requested" \/ killedBy'[r]
        /\ state'[r] \in {"completed", "killed", "retrying"} => state'[r] = state[r]
  BY <1>2 DEF ApiStep, PlanRun, TriggerProcess, ReplayRun, CancelRead, CancelWrite,
              KillRun, SetProcessEnabled, BulkWrite, OfAllRows, CreateRun, rows, TypeOK,
              RowsOK
<1> QED  BY <1>1, <1>3, SameAdvances, RowStepBacking

\* The monitor writes hung only; the executions end; recovery inserts pending
\* rows and marks hung; a crash keeps rows, executions and whose they are.
LEMMA RestBacking ==
    ASSUME TypeOK, BackingInv,
           \/ MonitorStep \/ Crash \/ Restart \/ UNCHANGED vars
           \/ \E d \in Dispatches : ExecEnds(d)
    PROVE  BackingInv'
<1>1. CASE MonitorStep
  <2>1. /\ pc' = pc /\ local' = local /\ handle' = handle /\ killedBy' = killedBy
        /\ \A r \in Runs : state'[r] # state[r] => state'[r] = "hung"
    BY <1>1 DEF MonitorStep, MonitorList, MonitorMark, MonitorKill, rows, tasks, TypeOK, RowsOK
  <2>2. Advances /\ \A d \in Dispatches : exec[d] = "none" => exec'[d] = "none"
    <3>1. CASE MonitorKill
      BY <2>1, <3>1, KillEffect, KillAdvances DEF MonitorKill, TypeOK, ServiceOK
    <3>2. CASE MonitorList \/ \E r \in Runs : MonitorMark(r)
      BY <2>1, <3>2, SameAdvances DEF MonitorList, MonitorMark
    <3> QED  BY <1>1, <3>1, <3>2 DEF MonitorStep
  <2> QED  BY <2>1, <2>2, RowStepBacking
<1>2. CASE Crash
  <2>1. /\ state' = state /\ handle' = handle /\ killedBy' = killedBy /\ exec' = exec
        /\ \A r \in Runs : pc'[r] = "idle"
        /\ \A t \in Tasks : pc'[t] \in {"idle", "done"}
    BY <1>2, IdentifiersAssumption DEF Crash, rows, Tasks
  <2>2. \A d \in Dispatches : local'[d].run = local[d].run /\ (pc'[d] = "idle" => pc[d] = "idle")
    BY <1>2 DEF Crash, Blank, Tasks, Idle, TypeOK, TasksOK, Locals
  <2>3. Advances  BY <2>1, <2>2, SameAdvances
  <2>4. Started'  BY <2>1, <2>2 DEF BackingInv, Started, Ready, Tasks
  <2> QED  BY <2>1, <2>2, <2>3, <2>4, HandlesKept, PollsKept, KillsKept, ResultsKept,
              OutcomesKept DEF BackingInv, Concluding
<1>3. CASE Restart
  <2>1. /\ pc' = pc /\ local' = local /\ handle' = handle /\ killedBy' = killedBy
        /\ exec' = exec
    BY <1>3 DEF Restart, tasks
  <2>2. PICK S \in Recovered :
          state' = [r \in Runs |-> IF r \in S THEN "pending" ELSE OrphansHung[r]]
    BY <1>3 DEF Restart
  <2>3. \A r \in Runs : state'[r] # state[r] => state'[r] \in {"hung", "pending"}
    BY <2>2 DEF OrphansHung
  <2> QED  BY <2>1, <2>3, SameAdvances, RowStepBacking
<1>4. CASE UNCHANGED vars
  <2>1. /\ pc' = pc /\ local' = local /\ handle' = handle /\ killedBy' = killedBy
        /\ exec' = exec /\ state' = state
    BY <1>4 DEF vars, rows, tasks
  <2> QED  BY <2>1, SameAdvances, RowStepBacking
<1>5. ASSUME NEW d \in Dispatches, ExecEnds(d) PROVE BackingInv'
  <2>1. /\ pc' = pc /\ local' = local /\ handle' = handle /\ killedBy' = killedBy
        /\ state' = state
    BY <1>5 DEF ExecEnds, rows, tasks
  <2>2. PICK e \in Ended : exec' = [exec EXCEPT ![d] = e]
    BY <1>5 DEF ExecEnds, Ended
  <2>3. Advances /\ \A x \in Dispatches : exec[x] = "none" => exec'[x] = "none"
    BY <1>5, <2>1, <2>2 DEF ExecEnds, Advances, EndedWell, BadlyEnded, Ended, TypeOK, ServiceOK
  <2> QED  BY <2>1, <2>3, RowStepBacking
<1> QED  BY <1>1, <1>2, <1>3, <1>4, <1>5

\* A claim is taken with a dispatch that has executed nothing; a round of polls
\* starts from handles of the rows.
LEMMA LoopBacking == ASSUME TypeOK, BackingInv, LoopStep PROVE BackingInv'
<1> USE DEF BackingInv
<1>0. state' = state /\ handle' = handle /\ killedBy' = killedBy
  BY DEF LoopStep, Tick, TickClaims, ListKillRequested, KillOne, ListActiveAsync, rows
<1>1. ASSUME NEW S \in SUBSET Claimable, TickClaims(S) PROVE BackingInv'
  <2>1. PICK id \in [S -> {d \in Dispatches : Idle(d)}] :
          /\ pc' = [t \in Tasks |->
                      IF \E r \in S : id[r] = t THEN "claimed" ELSE pc[t]]
          /\ local' = [t \in Tasks |->
                      IF \E r \in S : id[r] = t
                      THEN LET r == CHOOSE r \in S : id[r] = t
                           IN  [Blank EXCEPT !.run = r, !.attempt = attempt[r],
                                             !.exec = t]
                      ELSE local[t]]
    BY <1>1 DEF TickClaims
  <2>2. exec' = exec  BY <1>1 DEF TickClaims
  <2>3. \A t \in Tasks :
          \/ pc'[t] = pc[t] /\ local'[t] = local[t]
          \/ t \in Dispatches /\ pc[t] = "idle" /\ pc'[t] = "claimed"
    BY <2>1 DEF Idle
  <2>4. \A d \in Dispatches : exec[d] # "none" => pc'[d] = pc[d] /\ local'[d] = local[d]
    BY <2>3 DEF Started, Ready, Tasks
  <2>5. Advances  BY <2>2, <2>4, SameAdvances
  <2>6. Started'  BY <2>2, <2>3, <2>4 DEF Started, Ready, Tasks
  <2>7. \A r \in Runs : pc'[r] = pc[r] /\ local'[r] = local[r]
    BY <2>3, IdentifiersAssumption DEF Tasks
  <2> QED  BY <1>0, <2>3, <2>5, <2>6, <2>7, HandlesKept, PollsKept, KillsKept, ResultsKept,
              OutcomesKept DEF Concluding
<1>2. ASSUME ListKillRequested \/ \E r \in Runs : KillOne(r) PROVE BackingInv'
  <2>1. pc' = pc /\ local' = local
    BY <1>2 DEF ListKillRequested, KillOne, tasks
  <2>2. Advances /\ \A d \in Dispatches : exec[d] = "none" => exec'[d] = "none"
    BY <1>2, <2>1, SameAdvances, KillEffect, KillAdvances DEF ListKillRequested, KillOne
  <2> QED  BY <1>0, <2>1, <2>2, RowStepBacking
<1>3. ASSUME ListActiveAsync PROVE BackingInv'
  <2>1. exec' = exec  BY <1>3 DEF ListActiveAsync
  <2>2. \A d \in Dispatches : pc'[d] = pc[d] /\ local'[d] = local[d]
    BY <1>3, IdentifiersAssumption DEF ListActiveAsync, Tasks
  <2>3. Advances  BY <2>1, <2>2, SameAdvances
  <2>4. Started'  BY <2>1, <2>2 DEF Started
  <2>5. \A r \in Runs :
          \/ pc'[r] = pc[r] /\ local'[r] = local[r]
          \/ /\ handle[r] # NoOne /\ pc'[r] = "listed" /\ local'[r].run = r
             /\ local'[r].exec = handle[r] /\ local'[r].seen = state[r]
    BY <1>3 DEF ListActiveAsync, HasActiveHandle, Tasks
  <2>6. PollsOwn'
    <3> SUFFICES ASSUME NEW r \in Runs
                 PROVE  /\ pc'[r] # "idle" => local'[r].run = r
                        /\ pc'[r] = "listed" =>
                             /\ local'[local'[r].exec].run = r
                             /\ exec'[local'[r].exec] # "none"
                             /\ local'[r].seen = "kill_requested" => killedBy'[r]
      BY DEF PollsOwn
    <3>1. CASE pc'[r] = pc[r] /\ local'[r] = local[r]
      BY <1>0, <2>1, <2>2, <3>1 DEF PollsOwn, TypeOK, TasksOK
    <3>2. CASE /\ handle[r] # NoOne /\ pc'[r] = "listed" /\ local'[r].run = r
               /\ local'[r].exec = handle[r] /\ local'[r].seen = state[r]
      <4>1. handle[r] \in Dispatches  BY <3>2 DEF TypeOK, RowsOK
      <4> QED  BY <1>0, <2>1, <2>2, <3>2, <4>1 DEF HandlesOwn, KillsAsked
    <3> QED  BY <2>5, <3>1, <3>2
  <2>7. \A t \in Tasks : pc'[t] \in Concluding => pc'[t] = pc[t] /\ local'[t] = local[t]
    BY <2>2, <2>5 DEF Concluding, Tasks
  <2> QED  BY <1>0, <2>3, <2>4, <2>6, <2>7, HandlesKept, KillsKept, ResultsKept,
              OutcomesKept
<1> QED  BY <1>1, <1>2, <1>3 DEF LoopStep, Tick

\* One task moves on.
LEMMA TaskBacking ==
    ASSUME TypeOK, BackingInv, NEW t \in Tasks,
           \A u \in Tasks \ {t} : pc'[u] = pc[u] /\ local'[u] = local[u],
           t \in Runs => /\ pc'[t] # "listed"
                         /\ pc'[t] # "idle" =>
                              pc[t] # "idle" /\ local'[t].run = local[t].run,
           Advances, Started', HandlesOwn', OutcomeIsBacked', killedBy' = killedBy,
           \A r \in Runs : state'[r] = "kill_requested" => state[r] = "kill_requested",
           pc'[t] \in Concluding =>
             \A r \in Runs : local'[t].run = r => Rests(r, local[t].result)'
    PROVE  BackingInv'
<1> USE DEF BackingInv
<1>1. PollsOwn'
  BY PollsKept DEF Tasks
<1>2. KillsAsked'  BY KillsKept
<1>3. ResultsBacked'
  <2> SUFFICES ASSUME NEW u \in Tasks, NEW r \in Runs, pc'[u] \in Concluding, local'[u].run = r
               PROVE  Rests(r, local[u].result)'
    BY DEF ResultsBacked
  <2>1. CASE u = t  BY <2>1
  <2>2. CASE u # t
    <3>1. Rests(r, local[u].result)  BY <2>2 DEF ResultsBacked
    <3>p. PICK res : res = local[u].result  OBVIOUS
    <3>2. Rests(r, res)'  BY <3>1, <3>p, RestsKept
    <3> QED  BY <2>2, <3>2, <3>p
  <2> QED  BY <2>1, <2>2
<1> QED  BY <1>1, <1>2, <1>3

\* A task that returns holds no result; a dispatch stays about its row.
LEMMA ReturnEffect ==
    ASSUME TypeOK, NEW t \in Tasks, Return(t) \/ (t \in Dispatches /\ ReturnEarly(t))
    PROVE  /\ \A u \in Tasks \ {t} : pc'[u] = pc[u] /\ local'[u] = local[u]
           /\ t \in Dispatches => pc'[t] = "done"
           /\ t \in Runs => pc'[t] = "idle"
           /\ \A d \in Dispatches : local'[d].run = local[d].run
<1>1. /\ \A u \in Tasks \ {t} : pc'[u] = pc[u] /\ local'[u] = local[u]
      /\ t \in Dispatches => pc'[t] = "done"
      /\ t \in Runs => pc'[t] = "idle"
  BY TaskFrame, IdentifiersAssumption DEF Return, ReturnEarly
<1>2. t \in Dispatches => local'[t].run = local[t].run
  BY DEF Return, ReturnEarly, Forget, Blank, TypeOK, TasksOK, Locals
<1> QED  BY <1>1, <1>2 DEF Tasks

\* A task that returns, with a row that gets no outcome by it.
LEMMA ReturnBacking ==
    ASSUME TypeOK, BackingInv, NEW t \in Tasks,
           Return(t) \/ (t \in Dispatches /\ ReturnEarly(t)),
           exec' = exec, killedBy' = killedBy, handle' = handle,
           \A r \in Runs :
             state'[r] \in {"kill_requested", "completed", "killed", "retrying"}
               => state'[r] = state[r]
    PROVE  BackingInv'
<1>1. /\ \A u \in Tasks \ {t} : pc'[u] = pc[u] /\ local'[u] = local[u]
      /\ t \in Dispatches => pc'[t] = "done"
      /\ t \in Runs => pc'[t] = "idle"
      /\ \A d \in Dispatches : local'[d].run = local[d].run
  BY ReturnEffect
<1>2. Advances  BY <1>1, SameAdvances
<1>3. Started'  BY <1>1 DEF BackingInv, Started, Ready, Tasks
<1>4. HandlesOwn' /\ OutcomeIsBacked'
  BY <1>2, HandlesKept, OutcomesKept DEF BackingInv
<1>5. pc'[t] \notin Concluding  BY <1>1 DEF Concluding, Tasks
<1> QED  BY <1>1, <1>2, <1>3, <1>4, <1>5, TaskBacking

\* The outcome a task writes rests on what its result rests on.
LEMMA FinalizeBacking ==
    ASSUME TypeOK, BackingInv, NEW t \in Tasks, FinalizeStep(t)
    PROVE  BackingInv'
<1> USE DEF BackingInv
<1>0. local[t].run \in Runs /\ pc[t] \in {"finish", "outcome", "terminal"}
  BY DEF FinalizeStep, ClearHandle, WriteOutcome, ContinueChain, EndTerminal, At, TypeOK,
         TasksOK
<1>q. PICK q \in Runs : q = local[t].run  BY <1>0
<1>p. PICK res : res = local[t].result  OBVIOUS
<1>1. CASE ClearHandle(t)
  <2>1. /\ local' = local /\ state' = state /\ exec' = exec /\ killedBy' = killedBy
        /\ handle' = [handle EXCEPT ![q] = NoOne] /\ pc[t] = "finish"
    BY <1>1, <1>q DEF ClearHandle, At
  <2>2. pc'[t] = "outcome" /\ \A u \in Tasks \ {t} : pc'[u] = pc[u]
    BY <1>1, TaskFrame DEF ClearHandle
  <2>3. Advances  BY <2>1, SameAdvances
  <2>4. Started'  BY <2>1, <2>2 DEF Started, Ready, Tasks
  <2>5. HandlesOwn'  BY <2>1, <2>3, HandlesKept DEF TypeOK, RowsOK
  <2>6. OutcomeIsBacked'  BY <2>1, <2>3, OutcomesKept
  <2>7. Rests(q, res)  BY <1>q, <1>p, <2>1 DEF ResultsBacked, Concluding
  <2>8. Rests(q, res)'  BY <2>1, <2>3, <2>7, RestsKept
  <2>9. \A r \in Runs : local'[t].run = r => Rests(r, local[t].result)'
    BY <1>q, <1>p, <2>1, <2>8
  <2> QED  BY <2>1, <2>2, <2>3, <2>4, <2>5, <2>6, <2>9, TaskBacking
<1>2. CASE WriteOutcome(t)
  <2>1. Rests(q, res)
    BY <1>2, <1>q, <1>p DEF WriteOutcome, At, ResultsBacked, Concluding
  <2>2. /\ state' = [state EXCEPT ![q] = Outcome(local[t])] /\ handle' = handle
        /\ exec' = exec /\ killedBy' = killedBy /\ pc[t] = "outcome"
        /\ Return(t) \/ (Goto(t, "terminal") /\ local' = local)
    BY <1>2, <1>q DEF WriteOutcome, At
  <2>3. /\ \A u \in Tasks \ {t} : pc'[u] = pc[u] /\ local'[u] = local[u]
        /\ t \in Dispatches => pc'[t] \in {"done", "terminal"}
        /\ t \in Runs => \/ pc'[t] = "idle"
                         \/ pc'[t] = "terminal" /\ local'[t].run = local[t].run
        /\ \A d \in Dispatches : local'[d].run = local[d].run
    BY <2>2, ReturnEffect, TaskFrame
  <2>4. Advances  BY <2>2, <2>3, SameAdvances
  <2>5. Started'  BY <2>2, <2>3 DEF Started, Ready, Tasks
  <2>6. HandlesOwn'  BY <2>2, <2>4, HandlesKept
  <2>7. /\ Outcome(local[t]) \in {"completed", "killed", "retrying", "failed"}
        /\ Outcome(local[t]) = "completed" => res = "success"
        /\ Outcome(local[t]) \in {"killed", "retrying"} => res # "success"
        /\ Outcome(local[t]) = "killed" => res = "killed"
    BY <1>p DEF Outcome
  <2>8. OutcomeIsBacked'
    <3> SUFFICES ASSUME NEW r \in Runs
                 PROVE  /\ state'[r] = "completed" => ExecutedAs(r, EndedWell)'
                        /\ state'[r] = "killed" => killedBy'[r]
                        /\ state'[r] \in {"killed", "retrying"} => ExecutedAs(r, BadlyEnded)'
      BY DEF OutcomeIsBacked, ExecutedAs, EndedWell, BadlyEnded
    <3>1. CASE r = q
      <4>1. Rests(q, res)'  BY <2>1, <2>2, <2>4, RestsKept
      <4> QED  BY <2>2, <2>7, <3>1, <4>1 DEF Rests, TypeOK, RowsOK
    <3>2. CASE r # q
      <4>1. state'[r] = state[r]  BY <2>2, <3>2 DEF TypeOK, RowsOK
      <4>2. /\ state[r] = "completed" => ExecutedAs(r, EndedWell)
            /\ state[r] = "killed" => killedBy[r]
            /\ state[r] \in {"killed", "retrying"} => ExecutedAs(r, BadlyEnded)
        BY DEF OutcomeIsBacked, EndedWell, BadlyEnded
      <4> QED  BY <2>2, <2>4, <4>1, <4>2, EvidenceKept
    <3> QED  BY <3>1, <3>2
  <2>9. \A r \in Runs : state'[r] = "kill_requested" => state[r] = "kill_requested"
    BY <2>2, <2>7 DEF TypeOK, RowsOK
  <2>10. pc'[t] \notin Concluding  BY <2>3 DEF Concluding, Tasks
  <2> QED  BY <2>2, <2>3, <2>4, <2>5, <2>6, <2>8, <2>9, <2>10, TaskBacking
<1>3. ASSUME NEW r \in Runs, ContinueChain(t, r) PROVE BackingInv'
  BY <1>3, ReturnBacking DEF ContinueChain, CreateRun, TypeOK, RowsOK
<1>4. CASE EndTerminal(t)
  BY <1>4, ReturnBacking DEF EndTerminal, rows
<1> QED  BY <1>1, <1>2, <1>3, <1>4 DEF FinalizeStep

\* A poll takes its result from the execution its handle names.
LEMMA PollBacking ==
    ASSUME TypeOK, BackingInv, NEW r \in Runs, PollStep(r)
    PROVE  BackingInv'
<1> USE DEF BackingInv
<1>0. r \in Tasks /\ r \notin Dispatches  BY IdentifiersAssumption DEF Tasks
<1>1. CASE PollNothing(r)
  BY <1>0, <1>1, ReturnBacking DEF PollNothing, rows
<1>2. CASE PollTerminal(r)
  <2>1. PICK res \in Reported(local[r]) : local' = [local EXCEPT ![r].result = res]
    BY <1>2 DEF PollTerminal
  <2>2. /\ pc[r] = "listed" /\ exec[local[r].exec] \in Ended
        /\ exec' = exec /\ state' = state /\ handle' = handle /\ killedBy' = killedBy
    BY <1>2 DEF PollTerminal, At, rows
  <2>3. pc'[r] = "finish" /\ \A u \in Tasks \ {r} : pc'[u] = pc[u]
    BY <1>0, <1>2, TaskFrame DEF PollTerminal
  <2>4. /\ local'[r].run = local[r].run /\ local'[r].result = res
        /\ \A u \in Tasks \ {r} : local'[u] = local[u]
    BY <1>0, <2>1 DEF TypeOK, TasksOK, Locals
  <2>5. \A d \in Dispatches : pc'[d] = pc[d] /\ local'[d] = local[d]
    BY <1>0, <2>3, <2>4 DEF Tasks
  <2>6. Advances  BY <2>2, <2>5, SameAdvances
  <2>7. Started'  BY <2>2, <2>5 DEF Started
  <2>8. HandlesOwn' /\ OutcomeIsBacked'  BY <2>2, <2>6, HandlesKept, OutcomesKept
  <2>9. Rests(r, res)
    <3>1. PICK d \in Dispatches : d = local[r].exec
      BY <2>2 DEF TypeOK, TasksOK
    <3>2. local[d].run = r /\ exec[d] \in Ended
      BY <2>2, <3>1 DEF PollsOwn
    <3>3. /\ res = "success" => exec[d] \in EndedWell
          /\ res # "success" => exec[d] \in BadlyEnded
          /\ res = "killed" => local[r].seen = "kill_requested"
      <4>1. CASE exec[d] \in {"success", "missed"}
        <5>1. Reported(local[r]) = {"success"}  BY <3>1, <4>1 DEF Reported
        <5> QED  BY <2>1, <4>1, <5>1 DEF EndedWell
      <4>2. CASE exec[d] = "failure"
        <5>1. Reported(local[r]) = {"failure"}  BY <3>1, <4>2 DEF Reported
        <5> QED  BY <2>1, <4>2, <5>1 DEF BadlyEnded
      <4>3. CASE exec[d] = "killed"
        <5>1. CASE local[r].seen = "kill_requested"  BY <4>3, <5>1 DEF EndedWell, BadlyEnded
        <5>2. CASE local[r].seen # "kill_requested"
          <6>1. Reported(local[r]) = {"success", "failure"}
            BY <3>1, <4>3, <5>2 DEF Reported
          <6> QED  BY <2>1, <4>3, <6>1 DEF EndedWell, BadlyEnded
        <5> QED  BY <5>1, <5>2
      <4> QED  BY <3>2, <4>1, <4>2, <4>3 DEF Ended
    <3> QED  BY <2>2, <3>2, <3>3 DEF Rests, ExecutedAs, PollsOwn
  <2>10. Rests(r, res)'  BY <2>2, <2>6, <2>9, RestsKept
  <2>11. local[r].run = r  BY <2>2 DEF PollsOwn
  <2>12. \A x \in Runs : local'[r].run = x => Rests(x, local[r].result)'
    BY <2>4, <2>10, <2>11
  <2> QED  BY <1>0, <2>2, <2>3, <2>4, <2>6, <2>7, <2>8, <2>12, TaskBacking
\* A poll that is mistaken leaves its mark on the execution, or has found a
\* success of the row.
<1>4. CASE PollMistaken(r)
  <2>1. PICK res \in Mistaken(local[r]) : local' = [local EXCEPT ![r].result = res]
    BY <1>4 DEF PollMistaken
  <2>2. /\ pc[r] = "listed" /\ state' = state /\ handle' = handle /\ killedBy' = killedBy
        /\ local[r].run = r
    BY <1>4 DEF PollMistaken, At, rows, PollsOwn
  <2>3. pc'[r] = "finish" /\ \A u \in Tasks \ {r} : pc'[u] = pc[u]
    BY <1>0, <1>4, TaskFrame DEF PollMistaken
  <2>4. /\ local'[r].run = local[r].run /\ local'[r].result = res
        /\ \A u \in Tasks \ {r} : local'[u] = local[u]
    BY <1>0, <2>1 DEF TypeOK, TasksOK, Locals
  <2>5. \A d \in Dispatches : pc'[d] = pc[d] /\ local'[d] = local[d]
    BY <1>0, <2>3, <2>4 DEF Tasks
  <2>6. PICK d \in Dispatches : d = local[r].exec
    BY <2>2 DEF TypeOK, TasksOK
  <2>7. /\ exec'[d] = Belied(exec[d])
        /\ \A x \in Dispatches \ {d} : exec'[x] = exec[x]
        /\ exec[d] \in ExecStates /\ exec[d] # "none" /\ local[d].run = r
    BY <1>4, <2>2, <2>6 DEF PollMistaken, TypeOK, ServiceOK, PollsOwn
  <2>8. /\ exec'[d] \in BadlyEnded
        /\ exec[d] \in EndedWell => exec'[d] \in EndedWell
        /\ exec'[d] # "none"
    BY <2>7 DEF Belied, ExecStates, Ended, EndedWell, BadlyEnded
  <2>9. Advances  BY <2>5, <2>7, <2>8 DEF Advances
  <2>10. Started'  BY <2>5, <2>7, <2>8 DEF Started
  <2>11. HandlesOwn' /\ OutcomeIsBacked'  BY <2>2, <2>9, HandlesKept, OutcomesKept
  <2>12. Rests(r, res)'
    <3>1. ExecutedAs(r, BadlyEnded)'  BY <2>5, <2>7, <2>8 DEF ExecutedAs
    <3>2. res = "success" => ExecutedAs(r, EndedWell)
      BY <2>1, <2>2 DEF Mistaken, ExecutedAs
    <3>3. res = "killed" => killedBy[r]
      BY <2>1, <2>2 DEF Mistaken, PollsOwn
    <3> QED  BY <2>2, <2>9, <3>1, <3>2, <3>3, EvidenceKept DEF Rests
  <2>13. \A x \in Runs : local'[r].run = x => Rests(x, local[r].result)'
    BY <2>2, <2>4, <2>12
  <2> QED  BY <1>0, <2>2, <2>3, <2>4, <2>9, <2>10, <2>11, <2>13, TaskBacking
<1>3. CASE FinalizeStep(r)
  BY <1>0, <1>3, FinalizeBacking
<1> QED  BY <1>1, <1>2, <1>3, <1>4 DEF PollStep

\* A dispatch that calls its method, holds a synchronous result or stores a
\* handle does so for the execution that carries its own identifier.
LEMMA DispatchBacking ==
    ASSUME TypeOK, BackingInv, NEW d \in Dispatches, DispatchStep(d) \/ GiveUp(d)
    PROVE  BackingInv'
<1> USE DEF BackingInv
<1>0. d \in Tasks /\ d \notin Runs  BY IdentifiersAssumption DEF Tasks
<1>r. \A l \in DispatchPC \ {"idle", "done"} : At(d, l) => local[d].run \in Runs /\ pc[d] = l
  BY <1>0 DEF At, TypeOK, TasksOK
<1>1. CASE DispatchAbort(d)
  BY <1>0, <1>1, ReturnBacking DEF DispatchAbort, rows
<1>2. ASSUME NEW to \in {"skipped", "queued", "failed"}, local[d].run \in Runs,
             state' = [state EXCEPT ![local[d].run] = to], exec' = exec,
             killedBy' = killedBy, handle' = handle, ReturnEarly(d) \/ Return(d)
      PROVE  BackingInv'
  BY <1>0, <1>2, ReturnBacking DEF TypeOK, RowsOK
<1>3. CASE WriteSkipped(d) \/ WriteQueued(d) \/ FailStart(d) \/ SaveHandleFails(d)
  BY <1>2, <1>3, <1>r DEF WriteSkipped, WriteQueued, FailStart, SaveHandleFails, DispatchPC
\* Before the method is called nothing rests on the dispatch.
<1>4. CASE CheckOverlap(d) \/ WriteRunning(d)
  <2>1. PICK l \in Ready : Goto(d, l)
    BY <1>4, ProcessAssumption DEF CheckOverlap, WriteRunning, Ready
  <2>2. pc'[d] = l /\ \A u \in Tasks \ {d} : pc'[u] = pc[u]
    BY <1>0, <2>1, TaskFrame
  <2>3. /\ local'[d].run = local[d].run
        /\ \A u \in Tasks \ {d} : local'[u] = local[u]
    BY <1>0, <1>4 DEF CheckOverlap, WriteRunning, TypeOK, TasksOK, Locals
  <2>4. /\ exec' = exec /\ killedBy' = killedBy /\ handle' = handle
        /\ pc[d] \in Ready
        /\ \A r \in Runs : state'[r] # state[r] => state'[r] = "running"
    BY <1>4, <1>r DEF CheckOverlap, WriteRunning, Ready, At, rows, DispatchPC, TypeOK, RowsOK
  <2>5. Advances  BY <2>3, <2>4, SameAdvances DEF Tasks
  <2>6. Started'  BY <2>2, <2>3, <2>4 DEF Started, Ready, Tasks
  <2>7. HandlesOwn' /\ OutcomeIsBacked'  BY <2>4, <2>5, HandlesKept, OutcomesKept
  <2>8. pc'[d] \notin Concluding  BY <2>2 DEF Concluding, Ready
  <2> QED  BY <1>0, <2>2, <2>3, <2>4, <2>5, <2>6, <2>7, <2>8, TaskBacking
\* The method is called: the execution leaves none, or a running one ends.
<1>5. ASSUME NEW e \in ExecStates \ {"none"}, NEW l \in DispatchPC \ Ready,
             local[d].run \in Runs, exec' = [exec EXCEPT ![d] = e],
             exec[d] \in EndedWell => e \in EndedWell,
             exec[d] \in BadlyEnded => e \in BadlyEnded,
             Goto(d, l), state' = state, handle' = handle, killedBy' = killedBy,
             \/ local' = local /\ l \notin Concluding
             \/ \E res : /\ local' = [local EXCEPT ![d].result = res]
                         /\ res \in {"success", "failure"}
                         /\ res = "success" => e \in EndedWell
                         /\ res # "success" => e \in BadlyEnded
      PROVE  BackingInv'
  <2>1. pc'[d] = l /\ \A u \in Tasks \ {d} : pc'[u] = pc[u]
    BY <1>0, <1>5, TaskFrame
  <2>2. /\ local'[d].run = local[d].run
        /\ \A u \in Tasks \ {d} : local'[u] = local[u]
        /\ l \in Concluding => /\ local'[d].result \in {"success", "failure"}
                               /\ local'[d].result = "success" => e \in EndedWell
                               /\ local'[d].result # "success" => e \in BadlyEnded
    BY <1>0, <1>5 DEF TypeOK, TasksOK, Locals
  <2>3. exec'[d] = e /\ \A x \in Dispatches \ {d} : exec'[x] = exec[x]
    BY <1>5 DEF TypeOK, ServiceOK
  <2>4. Advances  BY <1>5, <2>2, <2>3 DEF Advances, Tasks
  <2>5. Started'  BY <1>5, <2>1, <2>2, <2>3 DEF Started, Tasks
  <2>6. HandlesOwn' /\ OutcomeIsBacked'  BY <1>5, <2>4, HandlesKept, OutcomesKept
  <2>7. pc'[d] \in Concluding =>
          \A r \in Runs : local'[d].run = r => Rests(r, local[d].result)'
    BY <2>1, <2>2, <2>3 DEF Rests, ExecutedAs
  <2> QED  BY <1>0, <1>5, <2>1, <2>2, <2>4, <2>5, <2>6, <2>7, TaskBacking
<1>6. CASE StartAccepted(d) \/ StartBlocking(d)
  <2>1. pc[d] = "starting" /\ local[d].run \in Runs
    BY <1>6, <1>r DEF StartAccepted, StartBlocking, DispatchPC
  <2>2. exec[d] = "none"  BY <2>1 DEF Started, Ready
  <2> QED  BY <1>5, <1>6, <2>1, <2>2 DEF StartAccepted, StartBlocking, DispatchPC, Ready,
              Concluding, ExecStates, EndedWell, BadlyEnded, rows
<1>7. CASE StartRejected(d)
  <2>1. pc[d] = "starting" /\ local[d].run \in Runs
    BY <1>7, <1>r DEF StartRejected, DispatchPC
  <2>2. exec[d] = "none"  BY <2>1 DEF Started, Ready
  <2>3. PICK e \in {"failure", "lost"} : exec' = [exec EXCEPT ![d] = e]
    BY <1>7 DEF StartRejected
  <2> QED  BY <1>5, <1>7, <2>1, <2>2, <2>3 DEF StartRejected, DispatchPC, Ready,
              ExecStates, Ended, EndedWell, BadlyEnded, rows
<1>8. CASE StartReturned(d)
  <2>1. local[d].run \in Runs /\ exec[d] \in Ended
    BY <1>8, <1>r DEF StartReturned, DispatchPC
  <2>2. exec' = [exec EXCEPT ![d] = exec[d]]
    BY <1>8 DEF StartReturned, TypeOK, ServiceOK
  <2> DEFINE res == IF exec[d] = "success" THEN "success" ELSE "failure"
  <2>3. /\ local' = [local EXCEPT ![d].result = res]
        /\ res \in {"success", "failure"}
        /\ res = "success" => exec[d] \in EndedWell
        /\ res # "success" => exec[d] \in BadlyEnded
    BY <1>8, <2>1 DEF StartReturned, EndedWell, BadlyEnded, Ended
  <2>4. /\ Goto(d, "returned") /\ state' = state /\ handle' = handle /\ killedBy' = killedBy
        /\ exec[d] \in ExecStates \ {"none"} /\ "returned" \in DispatchPC \ Ready
    BY <1>8, <2>1 DEF StartReturned, rows, ExecStates, Ended, DispatchPC, Ready
  <2> HIDE DEF res
  <2> QED  BY <1>5, <2>1, <2>2, <2>3, <2>4
<1>9. CASE GiveUp(d)
  <2>1. local[d].run \in Runs /\ exec[d] \in {"running", "stopping", "success"}
    BY <1>9, <1>r DEF GiveUp, DispatchPC
  <2>2. PICK e \in {"lost", "missed"} :
          exec' = [exec EXCEPT ![d] = e] /\ (exec[d] \in EndedWell => e \in EndedWell)
    BY <1>9, <2>1 DEF GiveUp, Belied, EndedWell
  <2>3. exec[d] \notin BadlyEnded /\ e \in BadlyEnded /\ e \in ExecStates \ {"none"}
    BY <2>1 DEF BadlyEnded, ExecStates, Ended
  <2> QED  BY <1>5, <1>9, <2>1, <2>2, <2>3 DEF GiveUp, DispatchPC, Ready, rows
<1>10. CASE ReadCurrent(d)
  <2>1. PICK q \in Runs : q = local[d].run  BY <1>10, <1>r DEF ReadCurrent, DispatchPC
  <2>2. PICK new \in {local[d].result, "killed"} :
          /\ local' = [local EXCEPT ![d].result = new]
          /\ new # local[d].result =>
               state[q] = "kill_requested" /\ local[d].result = "failure"
    BY <1>0, <1>10, <2>1 DEF ReadCurrent, TypeOK, TasksOK, Locals
  <2>3. PICK l \in {"outcome", "finish"} : Goto(d, l)  BY <1>10 DEF ReadCurrent
  <2>4. pc'[d] = l /\ \A u \in Tasks \ {d} : pc'[u] = pc[u]
    BY <1>0, <2>3, TaskFrame
  <2>5. /\ local'[d].run = q /\ local'[d].result = new
        /\ \A u \in Tasks \ {d} : local'[u] = local[u]
    BY <1>0, <2>1, <2>2 DEF TypeOK, TasksOK, Locals
  <2>6. /\ exec' = exec /\ killedBy' = killedBy /\ handle' = handle /\ state' = state
        /\ pc[d] = "returned"
    BY <1>10 DEF ReadCurrent, rows, At
  <2>7. Advances  BY <2>1, <2>5, <2>6, SameAdvances DEF Tasks
  <2>8. Started'  BY <2>1, <2>4, <2>5, <2>6 DEF Started, Ready, Tasks
  <2>9. HandlesOwn' /\ OutcomeIsBacked'  BY <2>6, <2>7, HandlesKept, OutcomesKept
  <2>p. PICK old : old = local[d].result  OBVIOUS
  <2>10. Rests(q, old)
    BY <1>0, <2>1, <2>6, <2>p DEF ResultsBacked, Concluding
  <2>11. Rests(q, new)  BY <2>2, <2>p, <2>10 DEF Rests, KillsAsked
  <2>12. Rests(q, new)'  BY <2>6, <2>7, <2>11, RestsKept
  <2>13. \A r \in Runs : local'[d].run = r => Rests(r, local[d].result)'
    BY <2>5, <2>12
  <2> QED  BY <1>0, <2>4, <2>5, <2>6, <2>7, <2>8, <2>9, <2>13, TaskBacking
<1>11. CASE SaveHandle(d)
  <2>1. PICK q \in Runs : q = local[d].run  BY <1>11, <1>r DEF SaveHandle, DispatchPC
  <2>2. /\ handle' = [handle EXCEPT ![q] = d] /\ exec' = exec /\ state' = state
        /\ killedBy' = killedBy /\ pc[d] = "accepted"
    BY <1>11, <2>1 DEF SaveHandle, At
  <2>3. /\ \A u \in Tasks \ {d} : pc'[u] = pc[u] /\ local'[u] = local[u]
        /\ pc'[d] = "done"
        /\ \A x \in Dispatches : local'[x].run = local[x].run
    BY <1>0, <1>11, ReturnEffect DEF SaveHandle
  <2>4. Advances  BY <2>2, <2>3, SameAdvances
  <2>5. Started'  BY <2>2, <2>3 DEF Started, Ready, Tasks
  <2>6. OutcomeIsBacked'  BY <2>2, <2>4, OutcomesKept
  <2>7. HandlesOwn'
    <3> SUFFICES ASSUME NEW r \in Runs, handle'[r] # NoOne
                 PROVE  local'[handle'[r]].run = r /\ exec'[handle'[r]] # "none"
      BY DEF HandlesOwn
    <3>1. CASE r = q
      <4>1. handle'[r] = d  BY <2>2, <3>1 DEF TypeOK, RowsOK
      <4>2. exec[d] # "none"  BY <2>2 DEF Started
      <4> QED  BY <2>1, <2>2, <2>3, <3>1, <4>1, <4>2
    <3>2. CASE r # q
      <4>1. handle'[r] = handle[r] /\ handle[r] \in Dispatches
        BY <2>2, <3>2 DEF TypeOK, RowsOK
      <4> QED  BY <2>2, <2>3, <4>1 DEF HandlesOwn
    <3> QED  BY <3>1, <3>2
  <2>8. pc'[d] \notin Concluding  BY <2>3 DEF Concluding
  <2> QED  BY <1>0, <2>2, <2>3, <2>4, <2>5, <2>6, <2>7, <2>8, TaskBacking
<1>12. CASE FinalizeStep(d)
  BY <1>0, <1>12, FinalizeBacking
<1> QED
  BY <1>1, <1>3, <1>4, <1>6, <1>7, <1>8, <1>9, <1>10, <1>11, <1>12 DEF DispatchStep

\* Every step keeps the evidence with the outcome it backs.
LEMMA BackingNext == TypeOK /\ BackingInv /\ [Next]_vars => BackingInv'
  BY ApiBacking, LoopBacking, DispatchBacking, PollBacking, RestBacking DEF Next

\* An outcome is never invented and never another row's: whatever stale claims,
\* polls, kills, crashes and restarts write over each other, a completed row has
\* an execution of its own that ended well, a killed row was asked to be killed,
\* and it and a retrying row have one that failed, was killed or was given up.
THEOREM OutcomesAreBacked == Spec => []OutcomeIsBacked
<1>1. BackingInv => OutcomeIsBacked  BY DEF BackingInv
<1> QED  BY <1>1, TypeCorrect, BackingInit, BackingNext, PTL DEF Spec

-----------------------------------------------------------------------------
(* One execution per run                                                   *)
(*                                                                         *)
(* No column protects a row from a second execution: with PromptDispatch   *)
(* it is the order of the writes that does.  A row that may be claimed, or *)
(* may become so, has no execution that goes on, no handle and no task     *)
(* that works on it; a dispatch is alone with its row until it returns; a  *)
(* handle, and the poll that holds it, is about the last execution; and a  *)
(* poll that is going to write retrying has cleared the handle before.     *)

\* States from which a row is claimed without a new execution having ended.
Open == {"absent", "pending", "queued", "paused", "retrying"}

\* Where a dispatch, and where a poll, is going to write the row.
Engaged == Undecided \cup
           {"starting", "blocking", "accepted", "returned", "finish", "outcome"}

Polling == {"listed", "finish", "outcome"}

OpenIsQuiet(r) ==
    state[r] \in Open =>
      /\ handle[r] = NoOne
      /\ pc[r] \notin Polling
      /\ \A d \in Dispatches :
           local[d].run = r => ~Live(d) /\ (pc[d] \in Engaged => pc[d] \in Undecided)

DispatchIsAlone(r) ==
    \A d \in Dispatches :
      local[d].run = r /\ pc[d] \in Engaged =>
        /\ handle[r] = NoOne
        /\ pc[r] \notin Polling
        /\ \A e \in Dispatches :
             local[e].run = r =>
               /\ pc[e] \in Engaged => e = d
               /\ Live(e) => e = d /\ pc[d] \in {"blocking", "accepted"}

LiveIsFollowed(r) ==
    \A d \in Dispatches :
      local[d].run = r /\ Live(d) =>
        /\ handle[r] # NoOne => d = handle[r]
        /\ pc[r] = "listed" => d = local[r].exec
        /\ pc[r] \notin {"finish", "outcome"}

OneLive(r) ==
    \A d, e \in Dispatches :
      local[d].run = r /\ local[e].run = r /\ Live(d) /\ Live(e) => d = e

HandleIsCleared(r) == pc[r] = "outcome" => handle[r] = NoOne

Exclusive(r) ==
    /\ OpenIsQuiet(r)
    /\ DispatchIsAlone(r)
    /\ LiveIsFollowed(r)
    /\ OneLive(r)
    /\ HandleIsCleared(r)

ExclusionInv == \A r \in Runs : Exclusive(r)

\* At first no row exists and nothing runs.
LEMMA ExclusionInit == Init => ExclusionInv
  BY DEF Init, ExclusionInv, Exclusive, OpenIsQuiet, DispatchIsAlone, LiveIsFollowed,
         OneLive, HandleIsCleared, Live, Engaged, Undecided, Polling, Open, Tasks

\* What a step may do to a dispatch d without disturbing its row: it keeps its
\* place, or gives the row up, or is still undecided; no execution starts.
Calm(d) ==
    /\ Live(d)' => Live(d)
    /\ \/ pc'[d] = pc[d]
       \/ pc'[d] \notin Engaged
       \/ pc[d] \in Undecided /\ pc'[d] \in Undecided

\* A row that does not open, keeps its handle or loses it, and keeps or loses
\* its poll, stays exclusive when its dispatches are calm.
LEMMA ExclusiveKept ==
    ASSUME NEW r \in Runs, Exclusive(r),
           state'[r] \in Open => state[r] \in Open,
           handle'[r] \in {handle[r], NoOne},
           \/ pc'[r] = pc[r] /\ local'[r] = local[r]
           \/ pc'[r] \in {"idle", "terminal"},
           \A d \in Dispatches : local'[d].run = r => local[d].run = r /\ Calm(d)
    PROVE  Exclusive(r)'
<1> USE DEF Exclusive
<1>1. OpenIsQuiet(r)'
  BY DEF OpenIsQuiet, Calm, Polling, Engaged, Undecided
<1>2. DispatchIsAlone(r)'
  <2> SUFFICES ASSUME NEW d \in Dispatches, local'[d].run = r, pc'[d] \in Engaged
               PROVE  /\ handle'[r] = NoOne
                      /\ pc'[r] \notin Polling
                      /\ \A e \in Dispatches :
                           local'[e].run = r =>
                             /\ pc'[e] \in Engaged => e = d
                             /\ Live(e)' => e = d /\ pc'[d] \in {"blocking", "accepted"}
    BY DEF DispatchIsAlone
  <2>1. local[d].run = r /\ pc[d] \in Engaged /\ (pc'[d] = pc[d] \/ pc[d] \in Undecided)
    BY DEF Calm, Engaged
  <2>2. /\ handle[r] = NoOne
        /\ pc[r] \notin Polling
        /\ \A e \in Dispatches :
             local[e].run = r =>
               /\ pc[e] \in Engaged => e = d
               /\ Live(e) => e = d /\ pc[d] \in {"blocking", "accepted"}
    BY <2>1 DEF DispatchIsAlone
  <2>3. handle'[r] = NoOne /\ pc'[r] \notin Polling
    BY <2>2 DEF Polling
  <2>4. ASSUME NEW e \in Dispatches, local'[e].run = r
        PROVE  /\ pc'[e] \in Engaged => e = d
               /\ Live(e)' => e = d /\ pc'[d] \in {"blocking", "accepted"}
    BY <2>1, <2>2, <2>4 DEF Calm, Engaged, Undecided
  <2> QED  BY <2>3, <2>4
<1>3. LiveIsFollowed(r)'
  BY DEF LiveIsFollowed, Calm
<1>4. OneLive(r)'  BY DEF OneLive, Calm
<1>5. HandleIsCleared(r)'  BY DEF HandleIsCleared
<1> QED  BY <1>1, <1>2, <1>3, <1>4, <1>5

\* Steps that touch no goroutine.
LEMMA RowStepExclusion ==
    ASSUME ExclusionInv, pc' = pc, local' = local, handle' = handle,
           \A d \in Dispatches : Live(d)' => Live(d),
           \A r \in Runs : state'[r] \in Open => state[r] \in Open
    PROVE  ExclusionInv'
<1> SUFFICES ASSUME NEW r \in Runs PROVE Exclusive(r)'  BY DEF ExclusionInv
<1>1. \A d \in Dispatches : Calm(d)  BY DEF Calm
<1> QED  BY <1>1, ExclusiveKept DEF ExclusionInv

\* No request opens a row that was not open.
LEMMA ApiExclusion == ASSUME TypeOK, ExclusionInv, ApiStep PROVE ExclusionInv'
<1>1. pc' = pc /\ local' = local /\ handle' = handle /\ exec' = exec
  BY DEF ApiStep, PlanRun, TriggerProcess, ReplayRun, CancelRead, CancelWrite, KillRun,
         SetProcessEnabled, BulkWrite, CreateRun, tasks, rows
<1>2. ASSUME NEW c \in Clients, CancelWrite(c)
      PROVE  todo[c].run \in Runs /\ todo[c].to \in {"cancelled", "kill_requested"}
  BY <1>2, TodoOfOneRow DEF CancelWrite, OfOneRow
<1>3. \A r \in Runs : state'[r] \in Open => state[r] \in Open
  BY <1>2 DEF ApiStep, PlanRun, TriggerProcess, ReplayRun, CancelRead, CancelWrite,
              KillRun, SetProcessEnabled, BulkWrite, OfAllRows, CreateRun, rows, TypeOK,
              RowsOK, Open
<1>4. \A d \in Dispatches : Live(d)' => Live(d)  BY <1>1 DEF Live
<1> QED  BY <1>1, <1>3, <1>4, RowStepExclusion

\* A kill makes no ended execution go on.
LEMMA KillCalms ==
    ASSUME TypeOK, NEW r \in Runs, Kill(r)
    PROVE  \A d \in Dispatches : Live(d)' => Live(d)
  BY KillEffect DEF Live

\* The monitor and recovery open no row; a crash ends every goroutine.
LEMMA RestExclusion ==
    ASSUME TypeOK, ExclusionInv,
           \/ MonitorStep \/ Crash \/ Restart \/ UNCHANGED vars
           \/ \E d \in Dispatches : ExecEnds(d)
    PROVE  ExclusionInv'
<1>1. CASE MonitorStep
  <2>1. /\ pc' = pc /\ local' = local /\ handle' = handle
        /\ \A r \in Runs : state'[r] # state[r] => state'[r] = "hung"
    BY <1>1 DEF MonitorStep, MonitorList, MonitorMark, MonitorKill, rows, tasks, TypeOK, RowsOK
  <2>2. \A d \in Dispatches : Live(d)' => Live(d)
    <3>1. CASE MonitorKill
      BY <3>1, KillCalms DEF MonitorKill, TypeOK, ServiceOK
    <3>2. CASE MonitorList \/ \E r \in Runs : MonitorMark(r)
      BY <3>2 DEF MonitorList, MonitorMark, Live
    <3> QED  BY <1>1, <3>1, <3>2 DEF MonitorStep
  <2> QED  BY <2>1, <2>2, RowStepExclusion DEF Open
<1>2. CASE Crash
  <2> SUFFICES ASSUME NEW r \in Runs PROVE Exclusive(r)'  BY DEF ExclusionInv
  <2>1. state' = state /\ handle' = handle /\ exec' = exec /\ pc'[r] = "idle"
    BY <1>2, IdentifiersAssumption DEF Crash, rows, Tasks
  <2>2. \A d \in Dispatches : local'[d].run = local[d].run /\ pc'[d] \in {"idle", "done"}
    BY <1>2 DEF Crash, Blank, Tasks, Idle, TypeOK, TasksOK, Locals
  <2>3. \A d \in Dispatches : Calm(d)  BY <2>1, <2>2 DEF Calm, Live, Engaged, Undecided
  <2> QED  BY <2>1, <2>2, <2>3, ExclusiveKept DEF ExclusionInv
<1>3. CASE Restart
  <2>1. pc' = pc /\ local' = local /\ handle' = handle /\ exec' = exec
    BY <1>3 DEF Restart, tasks
  <2>2. PICK S \in Recovered :
          state' = [r \in Runs |-> IF r \in S THEN "pending" ELSE OrphansHung[r]]
    BY <1>3 DEF Restart
  <2>3. \A r \in S : state[r] = "absent"  BY DEF Recovered
  <2>4. \A r \in Runs : state'[r] \in Open => state[r] \in Open
    BY <2>2, <2>3 DEF OrphansHung, Open
  <2>5. \A d \in Dispatches : Live(d)' => Live(d)  BY <2>1 DEF Live
  <2> QED  BY <2>1, <2>4, <2>5, RowStepExclusion
<1>4. CASE UNCHANGED vars \/ \E d \in Dispatches : ExecEnds(d)
  <2>1. pc' = pc /\ local' = local /\ handle' = handle /\ state' = state
    BY <1>4 DEF ExecEnds, vars, rows, tasks
  <2>2. \A d \in Dispatches : Live(d)' => Live(d)
    BY <1>4 DEF ExecEnds, Live, vars, TypeOK, ServiceOK
  <2> QED  BY <2>1, <2>2, RowStepExclusion
<1> QED  BY <1>1, <1>2, <1>3, <1>4

\* A tick claims open rows only, and only when every earlier claim is written; a
\* round of polls starts from rows with a handle, which no dispatch works on.
LEMMA LoopExclusion ==
    ASSUME PromptDispatch, TypeOK, BackingInv, ExclusionInv, LoopStep
    PROVE  ExclusionInv'
<1>0. state' = state /\ handle' = handle
  BY DEF LoopStep, Tick, TickClaims, ListKillRequested, KillOne, ListActiveAsync, rows
<1>1. ASSUME NEW S \in SUBSET Claimable, TickClaims(S) PROVE ExclusionInv'
  <2>1. PICK id \in [S -> {d \in Dispatches : Idle(d)}] :
          /\ \A r1, r2 \in S : id[r1] = id[r2] => r1 = r2
          /\ pc' = [t \in Tasks |->
                      IF \E r \in S : id[r] = t THEN "claimed" ELSE pc[t]]
          /\ local' = [t \in Tasks |->
                      IF \E r \in S : id[r] = t
                      THEN LET r == CHOOSE r \in S : id[r] = t
                           IN  [Blank EXCEPT !.run = r, !.attempt = attempt[r],
                                             !.exec = t]
                      ELSE local[t]]
    BY <1>1 DEF TickClaims
  <2>2. /\ exec' = exec
        /\ \A r \in Runs : pc[r] = "idle"
        /\ \A d \in Dispatches : pc[d] \notin Undecided
    BY <1>1 DEF TickClaims
  <2>3. \A d \in Dispatches :
          \/ pc'[d] = pc[d] /\ local'[d] = local[d]
          \/ \E r \in S : /\ id[r] = d /\ local'[d].run = r
                          /\ pc[d] = "idle" /\ pc'[d] = "claimed"
    <3> SUFFICES ASSUME NEW d \in Dispatches
                 PROVE  \/ pc'[d] = pc[d] /\ local'[d] = local[d]
                        \/ \E r \in S : /\ id[r] = d /\ local'[d].run = r
                                        /\ pc[d] = "idle" /\ pc'[d] = "claimed"
      OBVIOUS
    <3>1. CASE \E r \in S : id[r] = d
      <4> DEFINE q == CHOOSE r \in S : id[r] = d
      <4>1. q \in S /\ id[q] = d  BY <3>1
      <4>2. local'[d] = [Blank EXCEPT !.run = q, !.attempt = attempt[q], !.exec = d]
        BY <2>1, <3>1 DEF Tasks
      <4>3. pc'[d] = "claimed" /\ pc[d] = "idle"  BY <2>1, <3>1 DEF Tasks, Idle
      <4> HIDE DEF q
      <4>4. local'[d].run = q  BY <4>2 DEF Blank
      <4> QED  BY <4>1, <4>3, <4>4
    <3>2. CASE ~ \E r \in S : id[r] = d
      BY <2>1, <3>2 DEF Tasks
    <3> QED  BY <3>1, <3>2
  <2>4. \A r \in Runs : pc'[r] = pc[r] /\ local'[r] = local[r]
    <3>1. \A r \in Runs : ~ \E x \in S : id[x] = r  BY IdentifiersAssumption
    <3> QED  BY <2>1, <3>1 DEF Tasks
  <2>5. \A d \in Dispatches : /\ Live(d)' <=> Live(d)
                              /\ pc[d] = "idle" => ~Live(d)
    BY <2>2 DEF Live, BackingInv, Started, Ready
  <2> SUFFICES ASSUME NEW r \in Runs PROVE Exclusive(r)'  BY DEF ExclusionInv
  <2>6. CASE r \notin S
    <3>1. \A d \in Dispatches : local'[d].run = r => local[d].run = r /\ Calm(d)
      BY <2>3, <2>5, <2>6 DEF Calm
    <3> QED  BY <1>0, <2>4, <3>1, ExclusiveKept DEF ExclusionInv
  <2>7. CASE r \in S
    <3>1. /\ state[r] \in Open /\ Exclusive(r)  BY <2>7 DEF Claimable, Open, ExclusionInv
    <3>2. /\ handle[r] = NoOne
          /\ \A d \in Dispatches : local[d].run = r => ~Live(d) /\ pc[d] \notin Engaged
      BY <2>2, <3>1 DEF Exclusive, OpenIsQuiet
    <3>3. \A d \in Dispatches :
            local'[d].run = r => /\ ~Live(d)'
                                 /\ pc'[d] \in Engaged => d = id[r] /\ pc'[d] = "claimed"
      BY <2>3, <2>5, <3>2
    <3>4. handle'[r] = NoOne /\ pc'[r] = "idle"  BY <1>0, <2>2, <2>4, <3>2
    <3>5. OpenIsQuiet(r)'  BY <3>3, <3>4 DEF OpenIsQuiet, Polling, Undecided
    <3>6. DispatchIsAlone(r)'  BY <3>3, <3>4 DEF DispatchIsAlone, Polling
    <3>7. LiveIsFollowed(r)' /\ OneLive(r)' /\ HandleIsCleared(r)'
      BY <3>3, <3>4 DEF LiveIsFollowed, OneLive, HandleIsCleared
    <3> QED  BY <3>5, <3>6, <3>7 DEF Exclusive
  <2> QED  BY <2>6, <2>7
<1>2. ASSUME ListKillRequested \/ \E r \in Runs : KillOne(r) PROVE ExclusionInv'
  <2>1. pc' = pc /\ local' = local
    BY <1>2 DEF ListKillRequested, KillOne, tasks
  <2>2. \A d \in Dispatches : Live(d)' => Live(d)
    <3>1. CASE ListKillRequested  BY <3>1 DEF ListKillRequested, Live
    <3>2. ASSUME NEW r \in Runs, KillOne(r) PROVE \A d \in Dispatches : Live(d)' => Live(d)
      BY <3>2, KillCalms DEF KillOne
    <3> QED  BY <1>2, <3>1, <3>2
  <2> QED  BY <1>0, <2>1, <2>2, RowStepExclusion
<1>3. ASSUME ListActiveAsync PROVE ExclusionInv'
  <2>1. exec' = exec  BY <1>3 DEF ListActiveAsync
  <2>2. \A d \in Dispatches : pc'[d] = pc[d] /\ local'[d] = local[d] /\ (Live(d)' <=> Live(d))
    BY <1>3, IdentifiersAssumption DEF ListActiveAsync, Tasks, Live
  <2> SUFFICES ASSUME NEW r \in Runs PROVE Exclusive(r)'  BY DEF ExclusionInv
  <2>3. \/ pc'[r] = pc[r] /\ local'[r] = local[r]
        \/ handle[r] # NoOne /\ pc'[r] = "listed" /\ local'[r].exec = handle[r]
    BY <1>3 DEF ListActiveAsync, HasActiveHandle, Tasks
  <2>4. Exclusive(r)  BY DEF ExclusionInv
  <2>5. CASE pc'[r] = pc[r] /\ local'[r] = local[r]
    <3>1. \A d \in Dispatches : Calm(d)  BY <2>2 DEF Calm
    <3> QED  BY <1>0, <2>2, <2>4, <2>5, <3>1, ExclusiveKept
  <2>6. CASE handle[r] # NoOne /\ pc'[r] = "listed" /\ local'[r].exec = handle[r]
    <3>1. OpenIsQuiet(r)' /\ DispatchIsAlone(r)' /\ HandleIsCleared(r)'
      BY <1>0, <2>2, <2>4, <2>6
         DEF Exclusive, OpenIsQuiet, DispatchIsAlone, HandleIsCleared
    <3>2. LiveIsFollowed(r)' /\ OneLive(r)'
      BY <1>0, <2>2, <2>4, <2>6 DEF Exclusive, LiveIsFollowed, OneLive
    <3> QED  BY <3>1, <3>2 DEF Exclusive
  <2> QED  BY <2>3, <2>5, <2>6
<1> QED  BY <1>1, <1>2, <1>3 DEF LoopStep, Tick

\* A task that steps disturbs no row but its own.
LEMMA TaskExclusion ==
    ASSUME TypeOK, ExclusionInv, NEW t \in Tasks, NEW q \in Runs, t \in Runs => t = q,
           \A u \in Tasks \ {t} : pc'[u] = pc[u] /\ local'[u] = local[u],
           t \in Dispatches => local'[t].run = q,
           \A d \in Dispatches \ {t} : local'[d].run # q => exec'[d] = exec[d],
           \A x \in Runs \ {q} :
             handle'[x] = handle[x] /\ (state'[x] \in Open => state[x] \in Open),
           Exclusive(q)'
    PROVE  ExclusionInv'
<1> SUFFICES ASSUME NEW x \in Runs, x # q PROVE Exclusive(x)'  BY DEF ExclusionInv
<1>1. x \in Tasks \ {t}  BY IdentifiersAssumption DEF Tasks
<1>2. pc'[x] = pc[x] /\ local'[x] = local[x]  BY <1>1
<1>3. ASSUME NEW d \in Dispatches, local'[d].run = x PROVE local[d].run = x /\ Calm(d)
  <2>1. d \in Tasks \ {t}  BY <1>3 DEF Tasks
  <2> QED  BY <1>3, <2>1 DEF Calm, Live
<1> QED  BY <1>2, <1>3, ExclusiveKept DEF ExclusionInv

\* A row that nothing runs for and nobody works on may be in any state.
LEMMA QuietIsExclusive ==
    ASSUME NEW q \in Runs, handle'[q] = NoOne, pc'[q] \notin Polling,
           \A e \in Dispatches : local'[e].run = q => ~Live(e)' /\ pc'[e] \notin Engaged
    PROVE  Exclusive(q)'
<1>1. OpenIsQuiet(q)' /\ DispatchIsAlone(q)'  BY DEF OpenIsQuiet, DispatchIsAlone
<1>2. LiveIsFollowed(q)' /\ OneLive(q)' /\ HandleIsCleared(q)'
  BY DEF LiveIsFollowed, OneLive, HandleIsCleared
<1> QED  BY <1>1, <1>2 DEF Exclusive

\* A dispatch that goes on with its row, which is not open, stays alone with it.
LEMMA DispatchGoesOn ==
    ASSUME NEW d \in Dispatches, NEW q \in Runs, local[d].run = q, Exclusive(q),
           pc[d] \in Engaged, state'[q] \notin Open,
           handle'[q] \in {handle[q], NoOne}, pc'[q] = pc[q],
           \A e \in Dispatches \ {d} :
             pc'[e] = pc[e] /\ local'[e] = local[e] /\ exec'[e] = exec[e],
           Live(d)' => pc'[d] \in {"blocking", "accepted"}
    PROVE  Exclusive(q)'
<1>1. /\ handle'[q] = NoOne
      /\ pc'[q] \notin Polling
      /\ \A e \in Dispatches :
           local'[e].run = q => /\ pc'[e] \in Engaged => e = d
                                /\ Live(e)' => e = d
  BY DEF Exclusive, DispatchIsAlone, Live
<1>2. OpenIsQuiet(q)'  BY DEF OpenIsQuiet
<1>3. DispatchIsAlone(q)'  BY <1>1 DEF DispatchIsAlone
<1>4. LiveIsFollowed(q)' /\ OneLive(q)' /\ HandleIsCleared(q)'
  BY <1>1 DEF LiveIsFollowed, OneLive, HandleIsCleared, Polling
<1> QED  BY <1>2, <1>3, <1>4 DEF Exclusive

\* A task that returns from a row it does not open.
LEMMA ReturnExclusion ==
    ASSUME TypeOK, ExclusionInv, NEW t \in Tasks,
           Return(t) \/ (t \in Dispatches /\ ReturnEarly(t)),
           exec' = exec, handle' = handle,
           \A r \in Runs : state'[r] \in Open => state[r] \in Open
    PROVE  ExclusionInv'
<1>1. /\ \A u \in Tasks \ {t} : pc'[u] = pc[u] /\ local'[u] = local[u]
      /\ t \in Dispatches => pc'[t] = "done"
      /\ t \in Runs => pc'[t] = "idle"
      /\ \A d \in Dispatches : local'[d].run = local[d].run
  BY ReturnEffect
<1> SUFFICES ASSUME NEW r \in Runs PROVE Exclusive(r)'  BY DEF ExclusionInv
<1>2. \A d \in Dispatches : Calm(d)
  BY <1>1 DEF Calm, Live, Tasks, Engaged, Undecided
<1>3. \/ pc'[r] = pc[r] /\ local'[r] = local[r]
      \/ pc'[r] = "idle"
  BY <1>1 DEF Tasks
<1> QED  BY <1>1, <1>2, <1>3, ExclusiveKept DEF ExclusionInv

\* A task that is going to write an outcome has no execution that goes on, so
\* the row may open again; the handle is gone by then.
LEMMA FinalizeExclusion ==
    ASSUME TypeOK, BackingInv, ExclusionInv, NEW t \in Tasks, FinalizeStep(t)
    PROVE  ExclusionInv'
<1>0. local[t].run \in Runs /\ pc[t] \in {"finish", "outcome", "terminal"}
  BY DEF FinalizeStep, ClearHandle, WriteOutcome, ContinueChain, EndTerminal, At, TypeOK,
         TasksOK
<1>q. PICK q \in Runs : q = local[t].run  BY <1>0
<1>a. t \in Runs => t = q /\ t \notin Dispatches
  BY <1>0, <1>q, IdentifiersAssumption DEF BackingInv, PollsOwn
<1>b. Exclusive(q)  BY DEF ExclusionInv
\* Nothing else works on the row, and nothing runs for it.
<1>c. ASSUME pc[t] \in {"finish", "outcome"}
      PROVE  /\ state[q] \notin Open
             /\ \A e \in Dispatches :
                  local[e].run = q => ~Live(e) /\ (pc[e] \in Engaged => e = t)
             /\ pc[q] \in Polling => t = q
             /\ pc[t] = "outcome" \/ t \in Dispatches => handle[q] = NoOne
  <2>1. CASE t \in Dispatches
    <3>1. pc[t] \in Engaged \ Undecided /\ pc[t] \notin {"blocking", "accepted"}
      BY <1>c DEF Engaged, Undecided
    <3> QED  BY <1>q, <1>b, <2>1, <3>1 DEF Exclusive, OpenIsQuiet, DispatchIsAlone
  <2>2. CASE t \in Runs
    BY <1>a, <1>b, <1>c, <2>2
       DEF Exclusive, OpenIsQuiet, DispatchIsAlone, LiveIsFollowed, HandleIsCleared, Polling
  <2> QED  BY <2>1, <2>2 DEF Tasks
<1>1. CASE ClearHandle(t)
  <2>1. /\ local' = local /\ state' = state /\ exec' = exec
        /\ handle' = [handle EXCEPT ![q] = NoOne] /\ pc[t] = "finish"
    BY <1>1, <1>q DEF ClearHandle, At
  <2>2. pc'[t] = "outcome" /\ \A u \in Tasks \ {t} : pc'[u] = pc[u]
    BY <1>1, TaskFrame DEF ClearHandle
  <2>3. handle'[q] = NoOne /\ \A x \in Runs \ {q} : handle'[x] = handle[x]
    BY <2>1 DEF TypeOK, RowsOK
  <2>4. Exclusive(q)'
    <3>1. CASE t \in Dispatches
      <4>1. pc'[q] = pc[q]  BY <2>2, <3>1, IdentifiersAssumption DEF Tasks
      <4>2. \A e \in Dispatches \ {t} :
              pc'[e] = pc[e] /\ local'[e] = local[e] /\ exec'[e] = exec[e]
        BY <2>1, <2>2 DEF Tasks
      <4>3. pc[t] \in Engaged  BY <2>1 DEF Engaged
      <4>4. ~Live(t)' /\ state'[q] \notin Open  BY <1>c, <1>q, <2>1, <3>1 DEF Live
      <4> QED  BY <1>q, <1>b, <2>3, <3>1, <4>1, <4>2, <4>3, <4>4, DispatchGoesOn
    <3>2. CASE t \in Runs
      <4>1. t = q /\ t \notin Dispatches  BY <1>a, <3>2
      <4>2. state'[q] \notin Open  BY <1>c, <2>1
      <4>3. \A e \in Dispatches : local'[e].run = q => ~Live(e)' /\ pc'[e] \notin Engaged
        BY <1>c, <2>1, <2>2, <4>1 DEF Live, Tasks
      <4>4. OpenIsQuiet(q)' /\ DispatchIsAlone(q)'
        BY <4>2, <4>3 DEF OpenIsQuiet, DispatchIsAlone
      <4>5. LiveIsFollowed(q)' /\ OneLive(q)' /\ HandleIsCleared(q)'
        BY <2>3, <4>3 DEF LiveIsFollowed, OneLive, HandleIsCleared
      <4> QED  BY <4>4, <4>5 DEF Exclusive
    <3> QED  BY <3>1, <3>2 DEF Tasks
  <2> QED  BY <1>q, <1>a, <2>1, <2>2, <2>3, <2>4, TaskExclusion
<1>2. CASE WriteOutcome(t)
  <2>1. /\ state' = [state EXCEPT ![q] = Outcome(local[t])] /\ handle' = handle
        /\ exec' = exec /\ pc[t] = "outcome"
    BY <1>2, <1>q DEF WriteOutcome, At
  <2>2. \A x \in Runs \ {q} : state'[x] = state[x]
    BY <2>1 DEF TypeOK, RowsOK
  <2>3. /\ \A u \in Tasks \ {t} : pc'[u] = pc[u] /\ local'[u] = local[u]
        /\ pc'[t] \in {"idle", "done", "terminal"}
        /\ \A d \in Dispatches : local'[d].run = local[d].run
    BY <1>2, ReturnEffect, TaskFrame DEF WriteOutcome, Tasks
  <2>4. handle'[q] = NoOne  BY <1>c, <2>1
  <2>5. pc'[q] \notin Polling
    <3>1. CASE q = t  BY <2>3, <3>1 DEF Polling
    <3>2. CASE q # t  BY <1>c, <2>1, <2>3, <3>2 DEF Tasks
    <3> QED  BY <3>1, <3>2
  <2>6. \A e \in Dispatches : local'[e].run = q => ~Live(e)' /\ pc'[e] \notin Engaged
    <3> SUFFICES ASSUME NEW e \in Dispatches, local'[e].run = q
                 PROVE  ~Live(e)' /\ pc'[e] \notin Engaged
      OBVIOUS
    <3>1. ~Live(e) /\ (pc[e] \in Engaged => e = t)  BY <1>c, <2>1, <2>3
    <3>2. ~Live(e)'  BY <2>1, <3>1 DEF Live
    <3>3. CASE e = t  BY <2>3, <3>2, <3>3 DEF Engaged, Undecided
    <3>4. CASE e # t  BY <2>3, <3>1, <3>2, <3>4 DEF Tasks
    <3> QED  BY <3>3, <3>4
  <2>7. Exclusive(q)'  BY <2>4, <2>5, <2>6, QuietIsExclusive
  <2> QED  BY <1>q, <1>a, <2>1, <2>2, <2>3, <2>7, TaskExclusion
<1>3. ASSUME NEW r \in Runs, ContinueChain(t, r) PROVE ExclusionInv'
  BY <1>3, ReturnExclusion DEF ContinueChain, CreateRun, TypeOK, RowsOK, Open
<1>4. CASE EndTerminal(t)
  BY <1>4, ReturnExclusion DEF EndTerminal, rows
<1> QED  BY <1>1, <1>2, <1>3, <1>4 DEF FinalizeStep

\* A poll that ends its attempt, rightly or not, ends the only one it believes in.
LEMMA PollExclusion ==
    ASSUME TypeOK, BackingInv, ExclusionInv, NEW r \in Runs, PollStep(r)
    PROVE  ExclusionInv'
<1>0. r \in Tasks /\ r \notin Dispatches  BY IdentifiersAssumption DEF Tasks
<1>1. CASE PollNothing(r)
  BY <1>0, <1>1, ReturnExclusion DEF PollNothing, rows
<1>2. CASE PollTerminal(r) \/ PollMistaken(r)
  <2>1. pc[r] = "listed" /\ state' = state /\ handle' = handle
    BY <1>2 DEF PollTerminal, PollMistaken, At, rows
  <2>2. pc'[r] = "finish" /\ \A u \in Tasks \ {r} : pc'[u] = pc[u]
    BY <1>0, <1>2, TaskFrame DEF PollTerminal, PollMistaken
  <2>3. \A u \in Tasks \ {r} : local'[u] = local[u]
    BY <1>0, <1>2 DEF PollTerminal, PollMistaken, TypeOK, TasksOK
  <2>e. PICK d \in Dispatches : d = local[r].exec  BY <2>1 DEF TypeOK, TasksOK
  <2>o. local'[d].run = r  BY <1>0, <2>1, <2>3, <2>e DEF BackingInv, PollsOwn, Tasks
  <2>l. ~Live(d)' /\ \A x \in Dispatches \ {d} : exec'[x] = exec[x]
    BY <1>2, <2>e DEF PollTerminal, PollMistaken, Belied, Live, Ended, TypeOK, ServiceOK
  <2>4. Exclusive(r)  BY DEF ExclusionInv
  <2>5. state[r] \notin Open
    BY <2>1, <2>4 DEF Exclusive, OpenIsQuiet, Polling
  <2>6. \A e \in Dispatches : local'[e].run = r => ~Live(e)' /\ pc'[e] \notin Engaged
    <3> SUFFICES ASSUME NEW e \in Dispatches, local'[e].run = r
                 PROVE  ~Live(e)' /\ pc'[e] \notin Engaged
      OBVIOUS
    <3>1. local[e].run = r /\ pc'[e] = pc[e]  BY <1>0, <2>2, <2>3 DEF Tasks
    <3>2. pc[e] \notin Engaged
      BY <2>1, <2>4, <3>1 DEF Exclusive, DispatchIsAlone, Polling
    <3>3. Live(e) => e = local[r].exec
      BY <2>1, <2>4, <3>1 DEF Exclusive, LiveIsFollowed
    <3>4. ~Live(e)'  BY <2>e, <2>l, <3>3 DEF Live
    <3> QED  BY <3>1, <3>2, <3>4
  <2>7. OpenIsQuiet(r)' /\ DispatchIsAlone(r)'
    BY <2>1, <2>5, <2>6 DEF OpenIsQuiet, DispatchIsAlone
  <2>8. LiveIsFollowed(r)' /\ OneLive(r)' /\ HandleIsCleared(r)'
    BY <2>2, <2>6 DEF LiveIsFollowed, OneLive, HandleIsCleared
  <2>9. Exclusive(r)'  BY <2>7, <2>8 DEF Exclusive
  <2> QED  BY <1>0, <2>1, <2>2, <2>3, <2>o, <2>l, <2>9, TaskExclusion
<1>3. CASE FinalizeStep(r)
  BY <1>0, <1>3, FinalizeExclusion
<1> QED  BY <1>1, <1>2, <1>3 DEF PollStep

\* A dispatch starts its execution while it is alone with a row that nothing
\* runs for, and leaves it with a handle, with an outcome or never to be claimed.
LEMMA DispatchExclusion ==
    ASSUME TypeOK, BackingInv, ExclusionInv, NEW d \in Dispatches,
           DispatchStep(d) \/ GiveUp(d)
    PROVE  ExclusionInv'
<1>0. d \in Tasks /\ d \notin Runs  BY IdentifiersAssumption DEF Tasks
<1>r. \A l \in DispatchPC \ {"idle", "done"} : At(d, l) => local[d].run \in Runs /\ pc[d] = l
  BY <1>0 DEF At, TypeOK, TasksOK
<1>1. CASE DispatchAbort(d)
  BY <1>0, <1>1, ReturnExclusion DEF DispatchAbort, rows
<1>2. ASSUME NEW to \in {"skipped", "failed"}, local[d].run \in Runs,
             state' = [state EXCEPT ![local[d].run] = to], exec' = exec,
             handle' = handle, ReturnEarly(d) \/ Return(d)
      PROVE  ExclusionInv'
  BY <1>0, <1>2, ReturnExclusion DEF TypeOK, RowsOK, Open
<1>3. CASE WriteSkipped(d) \/ FailStart(d) \/ SaveHandleFails(d)
  BY <1>2, <1>3, <1>r DEF WriteSkipped, FailStart, SaveHandleFails, DispatchPC
<1>4. CASE CheckOverlap(d)
  <2>1. PICK l \in Undecided : Goto(d, l)
    BY <1>4, ProcessAssumption DEF CheckOverlap, Undecided
  <2>2. pc'[d] = l /\ pc[d] \in Undecided /\ \A u \in Tasks \ {d} : pc'[u] = pc[u]
    BY <1>0, <1>4, <2>1, TaskFrame DEF CheckOverlap, At, Undecided
  <2>3. local' = local /\ exec' = exec /\ handle' = handle /\ state' = state
    BY <1>4 DEF CheckOverlap, rows
  <2> SUFFICES ASSUME NEW r \in Runs PROVE Exclusive(r)'  BY DEF ExclusionInv
  <2>4. \A x \in Dispatches : Calm(x)  BY <2>2, <2>3 DEF Calm, Live, Tasks
  <2>5. pc'[r] = pc[r]  BY <1>0, <2>2 DEF Tasks
  <2> QED  BY <2>3, <2>4, <2>5, ExclusiveKept DEF ExclusionInv
<1>5. CASE WriteQueued(d)
  <2>1. PICK q \in Runs : q = local[d].run  BY <1>5, <1>r DEF WriteQueued, DispatchPC
  <2>2. /\ exec' = exec /\ handle' = handle /\ pc[d] = "queue"
        /\ \A x \in Runs \ {q} : state'[x] = state[x]
    BY <1>5, <2>1 DEF WriteQueued, At, TypeOK, RowsOK
  <2>3. /\ \A u \in Tasks \ {d} : pc'[u] = pc[u] /\ local'[u] = local[u]
        /\ pc'[d] = "done"
        /\ \A x \in Dispatches : local'[x].run = local[x].run
    BY <1>0, <1>5, ReturnEffect DEF WriteQueued
  <2>4. Exclusive(q)  BY DEF ExclusionInv
  <2>5. /\ handle[q] = NoOne /\ pc[q] \notin Polling
        /\ \A e \in Dispatches :
             local[e].run = q => ~Live(e) /\ (pc[e] \in Engaged => e = d)
    BY <2>1, <2>2, <2>4 DEF Exclusive, DispatchIsAlone, Engaged, Undecided
  <2>6. handle'[q] = NoOne /\ pc'[q] \notin Polling
    BY <1>0, <2>2, <2>3, <2>5 DEF Tasks
  <2>7. \A e \in Dispatches : local'[e].run = q => ~Live(e)' /\ pc'[e] \notin Engaged
    BY <2>2, <2>3, <2>5 DEF Live, Tasks, Engaged, Undecided
  <2>8. Exclusive(q)'  BY <2>6, <2>7, QuietIsExclusive
  <2> QED  BY <1>0, <2>1, <2>2, <2>3, <2>8, TaskExclusion
\* The steps from the write of running to the result.
<1>6. ASSUME NEW l, Goto(d, l), NEW q \in Runs, q = local[d].run, pc[d] \in Engaged,
             handle' = handle, state'[q] \notin Open,
             \A x \in Runs \ {q} : state'[x] = state[x],
             \A x \in Dispatches \ {d} : exec'[x] = exec[x],
             local'[d].run = q, \A u \in Tasks \ {d} : local'[u] = local[u],
             Live(d)' => l \in {"blocking", "accepted"}
      PROVE  ExclusionInv'
  <2>1. pc'[d] = l /\ \A u \in Tasks \ {d} : pc'[u] = pc[u]
    BY <1>0, <1>6, TaskFrame
  <2>2. pc'[q] = pc[q]  BY <1>0, <2>1 DEF Tasks
  <2>3. \A e \in Dispatches \ {d} :
          pc'[e] = pc[e] /\ local'[e] = local[e] /\ exec'[e] = exec[e]
    BY <1>6, <2>1 DEF Tasks
  <2>4. Exclusive(q)'
    BY <1>6, <2>1, <2>2, <2>3, DispatchGoesOn DEF ExclusionInv
  <2> QED  BY <1>0, <1>6, <2>1, <2>4, TaskExclusion
<1>7. CASE WriteRunning(d)
  <2>1. PICK q \in Runs : q = local[d].run  BY <1>7, <1>r DEF WriteRunning, DispatchPC
  <2>2. /\ pc[d] = "start" /\ Goto(d, "starting") /\ handle' = handle /\ exec' = exec
        /\ state' = [state EXCEPT ![q] = "running"]
    BY <1>7, <2>1 DEF WriteRunning, At
  <2>3. state'[q] \notin Open /\ \A x \in Runs \ {q} : state'[x] = state[x]
    BY <2>2 DEF TypeOK, RowsOK, Open
  <2>4. local'[d].run = q /\ \A u \in Tasks \ {d} : local'[u] = local[u]
    BY <1>0, <1>7, <2>1 DEF WriteRunning, TypeOK, TasksOK, Locals
  <2>5. ~Live(d)'  BY <2>2 DEF Live, BackingInv, Started, Ready
  <2> QED  BY <1>6, <2>1, <2>2, <2>3, <2>4, <2>5 DEF Engaged, Undecided
<1>8. CASE \/ StartAccepted(d) \/ StartBlocking(d) \/ StartRejected(d)
           \/ StartReturned(d) \/ GiveUp(d) \/ ReadCurrent(d)
  <2>1. PICK q \in Runs : q = local[d].run
    BY <1>8, <1>r DEF StartAccepted, StartBlocking, StartRejected, StartReturned, GiveUp,
       ReadCurrent, DispatchPC
  <2>2. /\ pc[d] \in Engaged \ Undecided /\ handle' = handle /\ state' = state
        /\ \A x \in Dispatches \ {d} : exec'[x] = exec[x]
    BY <1>8 DEF StartAccepted, StartBlocking, StartRejected, StartReturned, GiveUp,
       ReadCurrent, At, Engaged, Undecided, rows, TypeOK, ServiceOK
  <2>3. state[q] \notin Open
    BY <2>1, <2>2 DEF ExclusionInv, Exclusive, OpenIsQuiet
  <2>4. local'[d].run = q /\ \A u \in Tasks \ {d} : local'[u] = local[u]
    BY <1>0, <1>8, <2>1 DEF StartAccepted, StartBlocking, StartRejected, StartReturned,
       GiveUp, ReadCurrent, TypeOK, TasksOK, Locals
  <2>5. CASE StartAccepted(d) \/ StartBlocking(d)
    BY <1>6, <2>1, <2>2, <2>3, <2>4, <2>5 DEF StartAccepted, StartBlocking
  <2>6. CASE StartRejected(d) \/ StartReturned(d) \/ GiveUp(d)
    <3>1. ~Live(d)'
      BY <2>6 DEF StartRejected, StartReturned, GiveUp, Belied, Live, Ended, TypeOK, ServiceOK
    <3>2. Goto(d, "returned")  BY <2>6 DEF StartRejected, StartReturned, GiveUp
    <3> QED  BY <1>6, <2>1, <2>2, <2>3, <2>4, <3>1, <3>2
  <2>7. CASE ReadCurrent(d)
    <3>1. ~Live(d)
      BY <2>1, <2>2, <2>7 DEF ReadCurrent, At, ExclusionInv, Exclusive, DispatchIsAlone
    <3>2. ~Live(d)'  BY <2>7, <3>1 DEF ReadCurrent, Live
    <3>3. PICK l : Goto(d, l)  BY <2>7 DEF ReadCurrent
    <3> QED  BY <1>6, <2>1, <2>2, <2>3, <2>4, <3>2, <3>3
  <2> QED  BY <1>8, <2>5, <2>6, <2>7
<1>9. CASE SaveHandle(d)
  <2>1. PICK q \in Runs : q = local[d].run  BY <1>9, <1>r DEF SaveHandle, DispatchPC
  <2>2. /\ handle' = [handle EXCEPT ![q] = d] /\ exec' = exec /\ state' = state
        /\ pc[d] = "accepted"
    BY <1>9, <2>1 DEF SaveHandle, At
  <2>3. /\ \A u \in Tasks \ {d} : pc'[u] = pc[u] /\ local'[u] = local[u]
        /\ pc'[d] = "done"
        /\ \A x \in Dispatches : local'[x].run = local[x].run
    BY <1>0, <1>9, ReturnEffect DEF SaveHandle
  <2>4. handle'[q] = d /\ \A x \in Runs \ {q} : handle'[x] = handle[x]
    BY <2>2 DEF TypeOK, RowsOK
  <2>5. Exclusive(q)  BY DEF ExclusionInv
  <2>6. /\ pc[q] \notin Polling /\ state[q] \notin Open
        /\ \A e \in Dispatches :
             local[e].run = q => (Live(e) => e = d) /\ (pc[e] \in Engaged => e = d)
    BY <2>1, <2>2, <2>5 DEF Exclusive, OpenIsQuiet, DispatchIsAlone, Engaged, Undecided
  <2>7. pc'[q] \notin Polling /\ state'[q] \notin Open
    BY <1>0, <2>2, <2>3, <2>6 DEF Tasks
  <2>8. \A e \in Dispatches :
          local'[e].run = q => (Live(e)' => e = d) /\ pc'[e] \notin Engaged
    BY <2>2, <2>3, <2>6 DEF Live, Tasks, Engaged, Undecided
  <2>9. OpenIsQuiet(q)' /\ DispatchIsAlone(q)'
    BY <2>7, <2>8 DEF OpenIsQuiet, DispatchIsAlone
  <2>10. LiveIsFollowed(q)' /\ OneLive(q)' /\ HandleIsCleared(q)'
    BY <2>4, <2>7, <2>8 DEF LiveIsFollowed, OneLive, HandleIsCleared, Polling
  <2>11. Exclusive(q)'  BY <2>9, <2>10 DEF Exclusive
  <2> QED  BY <1>0, <2>1, <2>2, <2>3, <2>4, <2>11, TaskExclusion
<1>10. CASE FinalizeStep(d)
  BY <1>0, <1>10, FinalizeExclusion
<1> QED
  BY <1>1, <1>3, <1>4, <1>5, <1>7, <1>8, <1>9, <1>10 DEF DispatchStep

\* With prompt dispatches every step keeps every row exclusive.
LEMMA ExclusionNext ==
    PromptDispatch /\ TypeOK /\ BackingInv /\ ExclusionInv /\ [Next]_vars => ExclusionInv'
  BY ApiExclusion, LoopExclusion, DispatchExclusion, PollExclusion, RestExclusion DEF Next

\* When a claimed row is always written before the next tick, a run has at most
\* one execution that has not ended: retries, kills, hung marks, lost handles,
\* crashes and restarts never start a second one beside it.
THEOREM OneExecution == PromptDispatch => (Spec => []OneExecutionPerRun)
<1> SUFFICES ASSUME PromptDispatch PROVE Spec => []OneExecutionPerRun  OBVIOUS
<1>1. TypeOK /\ BackingInv /\ ExclusionInv /\ [Next]_vars => ExclusionInv'
  BY ExclusionNext
<1>2. BackingInv /\ ExclusionInv => OneExecutionPerRun
  BY DEF BackingInv, Started, ExclusionInv, Exclusive, OneLive, OneExecutionPerRun, Live
<1> QED
  BY <1>1, <1>2, TypeCorrect, BackingInit, BackingNext, ExclusionInit, PTL DEF Spec

-----------------------------------------------------------------------------
(* max_attempts, with queueing                                             *)
(*                                                                         *)
(* AttemptsStayBounded excludes on_overlap = 'queue', as a stale dispatch  *)
(* may write queued over a row that is at its last attempt.  When claims   *)
(* are written promptly a dispatch is alone with its row (ExclusionInv),   *)
(* so what it claimed is what the row still says, and queueing it gives no *)
(* attempt away.                                                           *)

Counted(r) ==
    /\ attempt[r] <= MaxAttempts
    /\ state[r] \in Open => attempt[r] < MaxAttempts
    /\ \A t \in Tasks :
         local[t].run = r =>
           /\ pc[t] \in Undecided => local[t].attempt = attempt[r] /\ attempt[r] < MaxAttempts
           /\ pc[t] \in Working => local[t].attempt <= MaxAttempts

CountInv == \A r \in Runs : Counted(r)

\* Rows start with attempt 0 and nobody has claimed them.
LEMMA CountInit == Init => CountInv
  BY ProcessAssumption DEF Init, CountInv, Counted, Undecided, Working

\* A task that is over, or keeps its row, its attempt number and its kind of place.
Counts(t) ==
    \/ pc'[t] \notin Undecided \cup Working
    \/ /\ local'[t].run = local[t].run /\ local'[t].attempt = local[t].attempt
       /\ pc'[t] \in Undecided => pc[t] \in Undecided
       /\ pc'[t] \in Working => pc[t] \in Working

\* A row that keeps its attempt and does not open stays counted.
LEMMA CountedKept ==
    ASSUME NEW r \in Runs, Counted(r), attempt'[r] = attempt[r],
           state'[r] \in Open => state[r] \in Open,
           \A t \in Tasks : local'[t].run = r => Counts(t)
    PROVE  Counted(r)'
  BY DEF Counted, Counts

\* Steps that touch no goroutine, or end them.
LEMMA RowStepCount ==
    ASSUME CountInv, attempt' = attempt, \A t \in Tasks : Counts(t),
           \A r \in Runs : state'[r] \in Open => state[r] \in Open
    PROVE  CountInv'
  BY CountedKept DEF CountInv

\* Requests, monitor, executions, crash and recovery open no row and count nothing.
LEMMA QuietCount ==
    ASSUME TypeOK, CountInv,
           \/ ApiStep \/ MonitorStep \/ Crash \/ Restart \/ UNCHANGED vars
           \/ \E d \in Dispatches : ExecEnds(d)
    PROVE  CountInv'
<1>1. CASE ApiStep
  <2>1. pc' = pc /\ local' = local /\ attempt' = attempt
    BY <1>1 DEF ApiStep, PlanRun, TriggerProcess, ReplayRun, CancelRead, CancelWrite, KillRun,
           SetProcessEnabled, BulkWrite, CreateRun, tasks, rows
  <2>2. ASSUME NEW c \in Clients, CancelWrite(c)
        PROVE  todo[c].run \in Runs /\ todo[c].to \in {"cancelled", "kill_requested"}
    BY <2>2, TodoOfOneRow DEF CancelWrite, OfOneRow
  <2>3. \A r \in Runs : state'[r] \in Open => state[r] \in Open
    BY <1>1, <2>2 DEF ApiStep, PlanRun, TriggerProcess, ReplayRun, CancelRead, CancelWrite,
                KillRun, SetProcessEnabled, BulkWrite, OfAllRows, CreateRun, rows, TypeOK,
                RowsOK, Open
  <2>4. \A t \in Tasks : Counts(t)  BY <2>1 DEF Counts
  <2> QED  BY <2>1, <2>3, <2>4, RowStepCount
<1>2. CASE MonitorStep
  <2>1. /\ pc' = pc /\ local' = local /\ attempt' = attempt
        /\ \A r \in Runs : state'[r] # state[r] => state'[r] = "hung"
    BY <1>2 DEF MonitorStep, MonitorList, MonitorMark, MonitorKill, rows, tasks, TypeOK, RowsOK
  <2>2. \A t \in Tasks : Counts(t)  BY <2>1 DEF Counts
  <2> QED  BY <2>1, <2>2, RowStepCount DEF Open
<1>3. CASE Crash
  <2>1. state' = state /\ attempt' = attempt /\ \A t \in Tasks : pc'[t] \in {"idle", "done"}
    BY <1>3 DEF Crash, rows
  <2>2. \A t \in Tasks : Counts(t)  BY <2>1 DEF Counts, Undecided, Working
  <2> QED  BY <2>1, <2>2, RowStepCount
<1>4. CASE Restart
  <2>1. pc' = pc /\ local' = local /\ attempt' = attempt
    BY <1>4 DEF Restart, tasks
  <2>2. PICK S \in Recovered :
          state' = [r \in Runs |-> IF r \in S THEN "pending" ELSE OrphansHung[r]]
    BY <1>4 DEF Restart
  <2>3. \A r \in S : state[r] = "absent"  BY DEF Recovered
  <2>4. \A r \in Runs : state'[r] \in Open => state[r] \in Open
    BY <2>2, <2>3 DEF OrphansHung, Open
  <2>5. \A t \in Tasks : Counts(t)  BY <2>1 DEF Counts
  <2> QED  BY <2>1, <2>4, <2>5, RowStepCount
<1>5. CASE UNCHANGED vars \/ \E d \in Dispatches : ExecEnds(d)
  <2>1. pc' = pc /\ local' = local /\ attempt' = attempt /\ state' = state
    BY <1>5 DEF ExecEnds, vars, rows, tasks
  <2>2. \A t \in Tasks : Counts(t)  BY <2>1 DEF Counts
  <2> QED  BY <2>1, <2>2, RowStepCount
<1> QED  BY <1>1, <1>2, <1>3, <1>4, <1>5

\* A claim carries the attempt of an open row, a poll that of its row.
LEMMA LoopCount == ASSUME TypeOK, CountInv, LoopStep PROVE CountInv'
<1>0. state' = state /\ attempt' = attempt
  BY DEF LoopStep, Tick, TickClaims, ListKillRequested, KillOne, ListActiveAsync, rows
<1>1. ASSUME NEW S \in SUBSET Claimable, TickClaims(S) PROVE CountInv'
  <2>1. PICK id \in [S -> {d \in Dispatches : Idle(d)}] :
          /\ pc' = [t \in Tasks |->
                      IF \E r \in S : id[r] = t THEN "claimed" ELSE pc[t]]
          /\ local' = [t \in Tasks |->
                      IF \E r \in S : id[r] = t
                      THEN LET r == CHOOSE r \in S : id[r] = t
                           IN  [Blank EXCEPT !.run = r, !.attempt = attempt[r],
                                             !.exec = t]
                      ELSE local[t]]
    BY <1>1 DEF TickClaims
  <2>2. ASSUME NEW t \in Tasks
        PROVE  \/ pc'[t] = pc[t] /\ local'[t] = local[t]
               \/ \E q \in S : /\ pc'[t] = "claimed" /\ local'[t].run = q
                               /\ local'[t].attempt = attempt[q]
    <3>1. CASE \E r \in S : id[r] = t
      <4> DEFINE q == CHOOSE r \in S : id[r] = t
      <4>1. q \in S  BY <3>1
      <4>2. local'[t] = [Blank EXCEPT !.run = q, !.attempt = attempt[q], !.exec = t]
        BY <2>1, <3>1
      <4>3. pc'[t] = "claimed"  BY <2>1, <3>1
      <4> HIDE DEF q
      <4>4. local'[t].run = q /\ local'[t].attempt = attempt[q]  BY <4>2 DEF Blank
      <4> QED  BY <4>1, <4>3, <4>4
    <3>2. CASE ~ \E r \in S : id[r] = t  BY <2>1, <3>2
    <3> QED  BY <3>1, <3>2
  <2>3. \A q \in S : attempt[q] < MaxAttempts
    BY DEF Claimable, CountInv, Counted, Open
  <2> SUFFICES ASSUME NEW r \in Runs PROVE Counted(r)'  BY DEF CountInv
  <2>4. Counted(r)  BY DEF CountInv
  <2>5. ASSUME NEW t \in Tasks, local'[t].run = r
        PROVE  /\ pc'[t] \in Undecided =>
                    local'[t].attempt = attempt[r] /\ attempt[r] < MaxAttempts
               /\ pc'[t] \in Working => local'[t].attempt <= MaxAttempts
    <3>1. CASE pc'[t] = pc[t] /\ local'[t] = local[t]
      BY <2>4, <2>5, <3>1 DEF Counted
    <3>2. CASE \E q \in S : /\ pc'[t] = "claimed" /\ local'[t].run = q
                            /\ local'[t].attempt = attempt[q]
      BY <2>3, <2>5, <3>2 DEF Working
    <3> QED  BY <2>2, <3>1, <3>2
  <2> QED  BY <1>0, <2>4, <2>5 DEF Counted
<1>2. ASSUME ListActiveAsync PROVE CountInv'
  <2>1. \A t \in Tasks :
          \/ pc'[t] = pc[t] /\ local'[t] = local[t]
          \/ /\ t \in Runs /\ pc'[t] = "listed" /\ local'[t].run = t
             /\ local'[t].attempt = attempt[t]
    BY <1>2 DEF ListActiveAsync
  <2> SUFFICES ASSUME NEW r \in Runs PROVE Counted(r)'  BY DEF CountInv
  <2>2. Counted(r)  BY DEF CountInv
  <2>3. ASSUME NEW t \in Tasks, local'[t].run = r
        PROVE  /\ pc'[t] \in Undecided =>
                    local'[t].attempt = attempt[r] /\ attempt[r] < MaxAttempts
               /\ pc'[t] \in Working => local'[t].attempt <= MaxAttempts
    BY <2>1, <2>2, <2>3 DEF Counted, Undecided
  <2> QED  BY <1>0, <2>2, <2>3 DEF Counted
<1>3. ASSUME pc' = pc, local' = local PROVE CountInv'
  <2>1. \A t \in Tasks : Counts(t)  BY <1>3 DEF Counts
  <2> QED  BY <1>0, <2>1, RowStepCount
<1> QED  BY <1>1, <1>2, <1>3 DEF LoopStep, Tick, ListKillRequested, KillOne, tasks

\* A task that returns, with a row that it does not open.
LEMMA ReturnCount ==
    ASSUME TypeOK, CountInv, NEW t \in Tasks,
           Return(t) \/ (t \in Dispatches /\ ReturnEarly(t)),
           attempt' = attempt, \A r \in Runs : state'[r] \in Open => state[r] \in Open
    PROVE  CountInv'
<1>1. /\ \A u \in Tasks \ {t} : pc'[u] = pc[u] /\ local'[u] = local[u]
      /\ pc'[t] \in {"idle", "done"}
  BY ReturnEffect DEF Tasks
<1>2. \A u \in Tasks : Counts(u)  BY <1>1 DEF Counts, Undecided, Working
<1> QED  BY <1>2, RowStepCount

\* One task moves between places of one kind, or to the write of a final state.
LEMMA MoveCount ==
    ASSUME TypeOK, CountInv, NEW t \in Tasks, NEW l, Goto(t, l),
           \/ pc[t] \in Undecided /\ l \in Undecided
           \/ pc[t] \in Working /\ l \in Working,
           \/ local' = local
           \/ \E res : local' = [local EXCEPT ![t].result = res],
           attempt' = attempt, \A r \in Runs : state'[r] \in Open => state[r] \in Open
    PROVE  CountInv'
<1>1. pc'[t] = l /\ \A u \in Tasks \ {t} : pc'[u] = pc[u]  BY TaskFrame
<1>2. /\ local'[t].run = local[t].run /\ local'[t].attempt = local[t].attempt
      /\ \A u \in Tasks \ {t} : local'[u] = local[u]
  BY DEF TypeOK, TasksOK, Locals
<1>3. Counts(t)  BY <1>1, <1>2 DEF Counts, Undecided, Working
<1>4. \A u \in Tasks : Counts(u)  BY <1>1, <1>2, <1>3 DEF Counts
<1> QED  BY <1>4, RowStepCount

\* A retry is granted below the maximum, to a row that no claim is held of.
LEMMA FinalizeCount ==
    ASSUME TypeOK, BackingInv, ExclusionInv, CountInv, NEW t \in Tasks, FinalizeStep(t)
    PROVE  CountInv'
<1>0. local[t].run \in Runs /\ pc[t] \in {"finish", "outcome", "terminal"}
  BY DEF FinalizeStep, ClearHandle, WriteOutcome, ContinueChain, EndTerminal, At, TypeOK,
         TasksOK
<1>q. PICK q \in Runs : q = local[t].run  BY <1>0
<1>1. CASE ClearHandle(t)
  BY <1>1, MoveCount DEF ClearHandle, At, Working
<1>2. CASE WriteOutcome(t)
  <2>1. CASE Outcome(local[t]) # "retrying"
    <3>1. Outcome(local[t]) \in {"completed", "killed", "failed"}
      BY <2>1 DEF Outcome
    <3>2. /\ state' = [state EXCEPT ![q] = Outcome(local[t])] /\ pc[t] = "outcome"
          /\ attempt' = attempt /\ local' = local /\ Goto(t, "terminal")
      BY <1>2, <1>q, <2>1 DEF WriteOutcome, At
    <3>3. \A r \in Runs : state'[r] \in Open => state[r] \in Open
      BY <3>1, <3>2 DEF TypeOK, RowsOK, Open
    <3> QED  BY <3>2, <3>3, MoveCount DEF Working
  <2>2. CASE Outcome(local[t]) = "retrying"
    <3>1. local[t].attempt < MaxAttempts  BY <2>2 DEF Outcome, MayRetry
    <3>2. /\ state' = [state EXCEPT ![q] = "retrying"] /\ pc[t] = "outcome"
          /\ attempt' = [attempt EXCEPT ![q] = local[t].attempt]
          /\ Return(t)
      BY <1>2, <1>q, <2>2 DEF WriteOutcome, At
    <3>3. /\ \A u \in Tasks \ {t} : pc'[u] = pc[u] /\ local'[u] = local[u]
          /\ pc'[t] \in {"idle", "done"}
      BY <3>2, ReturnEffect DEF Tasks
    <3>4. \A u \in Tasks : Counts(u)  BY <3>3 DEF Counts, Undecided, Working
    <3>5. \A x \in Runs \ {q} : attempt'[x] = attempt[x] /\ state'[x] = state[x]
      BY <3>2 DEF TypeOK, RowsOK
    \* Nobody holds a claim of the row whose outcome is written.
    <3>6. \A d \in Dispatches : local[d].run = q => pc[d] \notin Undecided
      <4>1. Exclusive(q)  BY DEF ExclusionInv
      <4>2. CASE t \in Dispatches
        BY <1>q, <3>2, <4>1, <4>2 DEF Exclusive, DispatchIsAlone, Engaged, Undecided
      <4>3. CASE t \in Runs
        <5>1. t = q  BY <1>q, <3>2, <4>3 DEF BackingInv, PollsOwn
        <5> QED  BY <3>2, <4>1, <5>1 DEF Exclusive, DispatchIsAlone, Engaged, Polling
      <4> QED  BY <4>2, <4>3 DEF Tasks
    <3>7. \A u \in Tasks : local'[u].run = q => pc'[u] \notin Undecided
      <4>1. \A r \in Runs : pc[r] \notin Undecided
        BY DEF TypeOK, TasksOK, PollPC, Undecided
      <4> QED  BY <3>3, <3>6, <4>1 DEF Tasks, Undecided
    <3>8. Counted(q)'
      <4>1. attempt'[q] = local[t].attempt  BY <3>2 DEF TypeOK, RowsOK
      <4>2. local[t].attempt \in Nat  BY DEF TypeOK, TasksOK, Locals
      <4>3. attempt'[q] < MaxAttempts /\ attempt'[q] <= MaxAttempts
        BY <3>1, <4>1, <4>2, ProcessAssumption
      <4>4. \A u \in Tasks :
              local'[u].run = q /\ pc'[u] \in Working => local'[u].attempt <= MaxAttempts
        BY <3>4 DEF Counts, CountInv, Counted
      <4> QED  BY <3>7, <4>3, <4>4 DEF Counted
    <3>9. ASSUME NEW x \in Runs \ {q} PROVE Counted(x)'
      BY <3>4, <3>5, <3>9, CountedKept DEF CountInv
    <3> QED  BY <3>8, <3>9 DEF CountInv
  <2> QED  BY <2>1, <2>2
<1>3. ASSUME NEW r \in Runs, ContinueChain(t, r) PROVE CountInv'
  BY <1>3, ReturnCount DEF ContinueChain, CreateRun, TypeOK, RowsOK, Open
<1>4. CASE EndTerminal(t)
  BY <1>4, ReturnCount DEF EndTerminal, rows
<1> QED  BY <1>1, <1>2, <1>3, <1>4 DEF FinalizeStep

\* Running is written with the attempt after the claimed one, and queued over a
\* row that is still at the attempt it was claimed with.
LEMMA DispatchCount ==
    ASSUME TypeOK, BackingInv, ExclusionInv, CountInv, NEW d \in Dispatches,
           DispatchStep(d) \/ GiveUp(d)
    PROVE  CountInv'
<1>0. d \in Tasks  BY DEF Tasks
<1>r. \A l \in DispatchPC \ {"idle", "done"} : At(d, l) => local[d].run \in Runs /\ pc[d] = l
  BY <1>0 DEF At, TypeOK, TasksOK
<1>1. CASE DispatchAbort(d)
  BY <1>0, <1>1, ReturnCount DEF DispatchAbort, rows
<1>2. CASE CheckOverlap(d)
  <2>1. PICK l \in Undecided : Goto(d, l)
    BY <1>2, ProcessAssumption DEF CheckOverlap, Undecided
  <2> QED  BY <1>0, <1>2, <2>1, MoveCount DEF CheckOverlap, At, Undecided, rows
<1>3. ASSUME NEW to \in {"skipped", "failed", "queued"}, local[d].run \in Runs,
             to = "queued" => attempt[local[d].run] < MaxAttempts,
             state' = [state EXCEPT ![local[d].run] = to], attempt' = attempt,
             ReturnEarly(d) \/ Return(d)
      PROVE  CountInv'
  <2>1. PICK q \in Runs : q = local[d].run  BY <1>3
  <2>2. /\ \A u \in Tasks \ {d} : pc'[u] = pc[u] /\ local'[u] = local[u]
        /\ pc'[d] = "done"
    BY <1>0, <1>3, ReturnEffect
  <2>3. \A u \in Tasks : Counts(u)  BY <2>2 DEF Counts, Undecided, Working
  <2>4. \A x \in Runs \ {q} : state'[x] = state[x]  BY <1>3, <2>1 DEF TypeOK, RowsOK
  <2>5. ASSUME NEW x \in Runs \ {q} PROVE Counted(x)'
    BY <1>3, <2>3, <2>4, <2>5, CountedKept DEF CountInv
  <2>6. state'[q] = to  BY <1>3, <2>1 DEF TypeOK, RowsOK
  <2>7. state'[q] \in Open => attempt'[q] < MaxAttempts
    BY <1>3, <2>1, <2>6 DEF Open
  <2>8. Counted(q)'  BY <1>3, <2>3, <2>7 DEF CountInv, Counted, Counts
  <2> QED  BY <2>5, <2>8 DEF CountInv
<1>4. CASE WriteSkipped(d) \/ FailStart(d) \/ SaveHandleFails(d)
  BY <1>3, <1>4, <1>r DEF WriteSkipped, FailStart, SaveHandleFails, DispatchPC
<1>5. CASE WriteQueued(d)
  <2>1. local[d].run \in Runs /\ pc[d] = "queue"
    BY <1>5, <1>r DEF WriteQueued, DispatchPC
  <2>2. attempt[local[d].run] < MaxAttempts
    BY <1>0, <2>1 DEF CountInv, Counted, Undecided
  <2> QED  BY <1>3, <1>5, <2>1, <2>2 DEF WriteQueued
<1>6. CASE WriteRunning(d)
  <2>1. PICK q \in Runs : q = local[d].run  BY <1>6, <1>r DEF WriteRunning, DispatchPC
  <2>p. PICK n : n = local[d].attempt + 1  OBVIOUS
  <2>2. /\ pc[d] = "start" /\ Goto(d, "starting")
        /\ state' = [state EXCEPT ![q] = "running"]
        /\ attempt' = [attempt EXCEPT ![q] = n]
        /\ local' = [local EXCEPT ![d].attempt = n]
    BY <1>6, <2>1, <2>p DEF WriteRunning, At
  <2>3. n <= MaxAttempts
    <3>1. local[d].attempt < MaxAttempts
      BY <1>0, <2>1, <2>2 DEF CountInv, Counted, Undecided
    <3>2. local[d].attempt \in Nat  BY <1>0 DEF TypeOK, TasksOK, Locals
    <3> QED  BY <2>p, <3>1, <3>2, ProcessAssumption
  <2>4. /\ state'[q] = "running" /\ attempt'[q] = n
        /\ \A x \in Runs \ {q} : state'[x] = state[x] /\ attempt'[x] = attempt[x]
    BY <2>2 DEF TypeOK, RowsOK
  <2>5. /\ local'[d].run = q /\ local'[d].attempt = n
        /\ \A u \in Tasks \ {d} : local'[u] = local[u]
    BY <1>0, <2>1, <2>2 DEF TypeOK, TasksOK, Locals
  <2>6. pc'[d] = "starting" /\ \A u \in Tasks \ {d} : pc'[u] = pc[u]
    BY <1>0, <2>2, TaskFrame
  <2>7. \A u \in Tasks \ {d} : local[u].run = q => pc[u] \notin Undecided
    <3>1. \A e \in Dispatches \ {d} : local[e].run = q => pc[e] \notin Undecided
      BY <2>1, <2>2 DEF ExclusionInv, Exclusive, DispatchIsAlone, Engaged, Undecided
    <3>2. \A r \in Runs : pc[r] \notin Undecided
      BY DEF TypeOK, TasksOK, PollPC, Undecided
    <3> QED  BY <3>1, <3>2 DEF Tasks
  <2>8. Counted(q)'
    <3>1. ASSUME NEW u \in Tasks, local'[u].run = q
          PROVE  /\ pc'[u] \notin Undecided
                 /\ pc'[u] \in Working => local'[u].attempt <= MaxAttempts
      <4>1. CASE u = d  BY <2>3, <2>5, <2>6, <4>1 DEF Undecided
      <4>2. CASE u # d  BY <2>5, <2>6, <2>7, <3>1, <4>2 DEF CountInv, Counted
      <4> QED  BY <4>1, <4>2
    <3> QED  BY <2>3, <2>4, <3>1 DEF Counted, Open
  <2>9. ASSUME NEW x \in Runs \ {q} PROVE Counted(x)'
    <3>1. \A u \in Tasks : local'[u].run = x => Counts(u)
      BY <2>5, <2>6, <2>9 DEF Counts
    <3> QED  BY <2>4, <2>9, <3>1, CountedKept DEF CountInv
  <2> QED  BY <2>8, <2>9 DEF CountInv
<1>7. CASE StartAccepted(d) \/ StartBlocking(d)
  BY <1>0, <1>7, MoveCount DEF StartAccepted, StartBlocking, At, Working, rows
<1>8. CASE StartRejected(d) \/ StartReturned(d) \/ GiveUp(d)
  BY <1>0, <1>8, MoveCount DEF StartRejected, StartReturned, GiveUp, At, Working, rows
<1>9. CASE ReadCurrent(d)
  BY <1>0, <1>9, MoveCount DEF ReadCurrent, At, Working, rows
<1>10. CASE SaveHandle(d)
  BY <1>0, <1>10, ReturnCount DEF SaveHandle
<1>11. CASE FinalizeStep(d)
  BY <1>0, <1>11, FinalizeCount
<1> QED
  BY <1>1, <1>2, <1>4, <1>5, <1>6, <1>7, <1>8, <1>9, <1>10, <1>11 DEF DispatchStep

\* A poll counts with the attempt it was listed with.
LEMMA PollCount ==
    ASSUME TypeOK, BackingInv, ExclusionInv, CountInv, NEW r \in Runs, PollStep(r)
    PROVE  CountInv'
<1>0. r \in Tasks  BY DEF Tasks
<1>1. CASE PollNothing(r)
  BY <1>0, <1>1, ReturnCount DEF PollNothing, rows
<1>2. CASE PollTerminal(r) \/ PollMistaken(r)
  BY <1>0, <1>2, MoveCount DEF PollTerminal, PollMistaken, At, Working, rows
<1>3. CASE FinalizeStep(r)
  BY <1>0, <1>3, FinalizeCount
<1> QED  BY <1>1, <1>2, <1>3 DEF PollStep

\* Every step keeps the attempts of rows and tasks in step.
LEMMA CountNext ==
    TypeOK /\ BackingInv /\ ExclusionInv /\ CountInv /\ [Next]_vars => CountInv'
  BY QuietCount, LoopCount, DispatchCount, PollCount DEF Next

\* When a claimed row is always written before the next tick, no row gets an
\* attempt number beyond max_attempts, whatever on_overlap is and however it changes.
THEOREM PromptAttemptsBounded == PromptDispatch => (Spec => []AttemptsBounded)
<1> SUFFICES ASSUME PromptDispatch PROVE Spec => []AttemptsBounded  OBVIOUS
<1>1. TypeOK /\ BackingInv /\ ExclusionInv /\ [Next]_vars => ExclusionInv'
  BY ExclusionNext
<1>2. CountInv => AttemptsBounded  BY DEF CountInv, Counted, AttemptsBounded
<1> QED
  BY <1>1, <1>2, TypeCorrect, BackingInit, BackingNext, ExclusionInit, CountInit, CountNext,
     PTL DEF Spec

=============================================================================
