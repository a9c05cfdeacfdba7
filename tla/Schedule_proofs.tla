--------------------------- MODULE Schedule_proofs ---------------------------
(***************************************************************************)
(* Proofs about Schedule, for any processes, schedules, horizon, interval, *)
(* lag and cap of the recovery, and any number of requests and crashes.    *)
(***************************************************************************)
EXTENDS Schedule, FiniteSetTheorems, WellFoundedInduction, TLAPS

-----------------------------------------------------------------------------
(* The inductive invariants                                                *)

Entries == [proc : Procs, slots : Schedules]

Passes == [kind : {"none", "recovery", "plan"}, now : Nat, todo : SUBSET Entries,
           proc : Procs \cup {NoOne}, slots : SUBSET Nat, from : Nat, created : Nat]

PassOK == pass \in Passes

\* Recovery and planner take turns, the planner is late by the lag at most, a pass visits a process once,
\* and without a server there is neither a hook nor an edit.
Control ==
    /\ pass.now <= now
    /\ server = "recovering" <=> pass.kind = "recovery"
    /\ pass.kind = "plan" => server = "up" /\ pass.now = now /\ due = now + Interval
    /\ server = "up" => now <= due + Lag
    /\ pass.kind = "none" => pass.proc = NoOne /\ pass.todo = {}
    /\ server # "up" => hooks = {} /\ edit = NoEdit
    /\ \A e, f \in pass.todo : e.proc = f.proc => e = f
    /\ \A e \in pass.todo : e.proc # pass.proc

TypeInv == TypeOK /\ PassOK /\ Control

\* Rows that stand for a slot have no parent; recovery is of the past, the planner of the
\* future, and recovery goes on after the last row of the process.
RowsInv ==
    /\ \A r \in rows :
         /\ r.origin \in {"cron", "recovery", "manual", "dependency"}
         /\ r.origin \in Scheduled => r = Row(r.proc, r.at, r.origin)
         /\ r.origin = "recovery" => r.at < now
    /\ pass.kind = "plan" /\ pass.proc # NoOne => pass.from >= pass.now
    /\ pass.kind = "recovery" => \A r \in RunsOf(pass.proc) : r.at < pass.from

\* A hook is about a run that has ended as the hook says; so has the parent of a
\* dependent run, as long as its process is there.
DependInv ==
    /\ \A h \in hooks : /\ h.row \in DOMAIN outcome
                        /\ h.seen # "pending" => outcome[h.row] = h.seen
    /\ \A r \in rows : r.origin = "dependency" =>
         /\ r.parent.proc \in Procs
         /\ \/ process[r.parent.proc].life = "deleted"
            \/ /\ r.parent \in DOMAIN outcome
               /\ outcome[r.parent] # "skipped"
               /\ DependencyType[r.proc] = "after_success" => outcome[r.parent] = "completed"

RecoveryRows(p) == {r \in rows : r.proc = p /\ r.origin = "recovery"}

Recovered(p) == Cardinality(RecoveryRows(p))

\* What recovery may have made of a process, all start-ups together.
Budget == MaxRecoverySlots * crashes

Waiting(p) == \E e \in pass.todo : e.proc = p

\* The recovery rows of a process are within the cap for the start-ups that are over, and
\* what the current one has made of them is counted.
CapOf(p) ==
    /\ IsFiniteSet(RecoveryRows(p))
    /\ Recovered(p) <= Budget
    /\ server = "down" => Recovered(p) + MaxRecoverySlots <= Budget
    /\ pass.kind = "recovery" /\ Waiting(p) => Recovered(p) + MaxRecoverySlots <= Budget
    /\ pass.kind = "recovery" /\ pass.proc = p =>
         /\ pass.created <= MaxRecoverySlots /\ pass.created <= Recovered(p)
         /\ Recovered(p) + MaxRecoverySlots <= Budget + pass.created

CapInv == \A p \in Procs : CapOf(p)

\* A process nobody touched is as it was created, and so are the passes over it.
UntouchedOf(p) ==
    /\ active
    /\ There(p) => process[p].enabled
    /\ edit.proc # p
    /\ \A e \in pass.todo : e.proc = p => There(p) /\ e.slots = process[p].schedule
    /\ pass.proc = p => There(p) /\ pass.slots = process[p].schedule
    /\ DependsOn[p] = NoOne => \A r \in RunsOf(p) : r.origin \in Scheduled

UntouchedInv == \A p \in Procs \ touched : UntouchedOf(p)

\* The slots after the first run of the process and before time f are served.
Covered(p, f) ==
    \A t \in process[p].schedule :
      (t < f /\ \E r \in RunsOf(p) : r.at < t) => SlotRows(p, t) # {} \/ t \in unseen

\* The times up to which the slots of a process are served.
Frontiers(p) == {f \in Nat : Covered(p, f)}

\* How far recovery and planner together have served the slots of a process: recovery up to
\* its clock reading, the planner to its horizon, and both from there on where they left off.
Served(p) ==
    /\ pass.proc = p => pass.from \in Frontiers(p)
    /\ pass.kind = "plan" /\ Waiting(p) => pass.now \in Frontiers(p)
    /\ pass.kind = "plan" /\ pass.proc # p /\ ~Waiting(p) =>
         pass.now + Horizon + 1 \in Frontiers(p)
    /\ pass.kind = "recovery" /\ pass.proc # p /\ ~Waiting(p) => pass.now \in Frontiers(p)
    /\ server = "recovered" => pass.now \in Frontiers(p)
    /\ server = "up" /\ pass.kind = "none" => due + Lag \in Frontiers(p)

\* The processes of the property: nobody touched them and no other process triggers them.
Watched(p) == p \in ExecuteOnMiss \ touched /\ DependsOn[p] = NoOne

CoverageOf(p) ==
    /\ Served(p)
    /\ \A q \in RunsOf(p) : q.at \in Frontiers(p)

CoverageInv ==
    \A p \in Procs : Watched(p) /\ Recovered(p) < MaxRecoverySlots => CoverageOf(p)

\* The slots from now on and before time f have their row.
Planned(p, f) ==
    \A t \in process[p].schedule : (now <= t /\ t < f) => SlotRows(p, t) # {}

\* The planner leaves no gap: a slot before a planned one is planned.
PrefixOf(p) ==
    /\ \A r \in RunsOf(p) : Planned(p, r.at)
    /\ pass.kind = "plan" /\ pass.proc = p => Planned(p, pass.from)

PrefixInv == \A p \in Procs \ touched : DependsOn[p] = NoOne => PrefixOf(p)

-----------------------------------------------------------------------------
(* Numbers                                                                 *)

\* A set of numbers has a least one.
LEMMA Least ==
    ASSUME NEW S \in SUBSET Nat, S # {}
    PROVE  \E x \in S : \A y \in S : x <= y
<1> DEFINE R == OpToRel(<, Nat)
<1>1. IsWellFoundedOn(R, Nat)  BY NatLessThanWellFounded
<1>2. PICK x \in S : \A y \in S : ~(<<y, x>> \in R)
  <2> HIDE DEF R
  <2> QED  BY <1>1, WFMin
<1>3. \A y \in S : ~(y < x)
  <2> SUFFICES ASSUME NEW y \in S, y < x PROVE FALSE  OBVIOUS
  <2>1. <<y, x>> \in R  BY DEF OpToRel
  <2> QED  BY <1>2, <2>1
<1> QED  BY <1>3

\* A bounded set of numbers has a greatest one.
LEMMA Greatest ==
    ASSUME NEW S \in SUBSET Nat, S # {}, NEW n \in Nat, \A x \in S : x <= n
    PROVE  Max(S) \in S /\ \A y \in S : y <= Max(S)
<1> DEFINE T == {n - x : x \in S}
<1>1. \A x \in S : n - x \in Nat
  <2> SUFFICES ASSUME NEW x \in S PROVE n - x \in Nat  OBVIOUS
  <2>1. x \in Nat /\ x <= n  OBVIOUS
  <2> QED  BY <2>1
<1>2. T \in SUBSET Nat /\ T # {}
  <2>1. T # {}  OBVIOUS
  <2>2. \A t \in T : t \in Nat  BY <1>1
  <2> QED  BY <2>1, <2>2
<1>3. PICK t \in T : \A y \in T : t <= y  BY <1>2, Least
<1>4. PICK x \in S : t = n - x  OBVIOUS
<1>5. \A y \in S : n - y \in T  OBVIOUS
<1>6. \A y \in S : x >= y  BY <1>3, <1>4, <1>5
<1> QED  BY <1>6 DEF Max

-----------------------------------------------------------------------------
(* Types and control                                                       *)

ClockOK ==
    /\ now \in 0 .. MaxTime /\ due \in Nat /\ touched \subseteq Procs /\ unseen \subseteq Times
    /\ requests \in Nat /\ crashes \in Nat /\ requests + crashes <= MaxEvents

ProcessOK ==
    /\ active \in BOOLEAN
    /\ process \in [Procs -> [life : {"unborn", "there", "deleted"}, enabled : BOOLEAN,
                              schedule : Schedules \cup {{}}]]
    /\ edit \in [proc : Procs \cup {NoOne}, enabled : BOOLEAN, schedule : Schedules \cup {{}}]

RunsOK ==
    /\ \A r \in rows : r.proc \in Procs /\ r.at \in Times /\ There(r.proc)
    /\ choices \subseteq rows
    /\ DOMAIN outcome \subseteq rows
    /\ \A r \in DOMAIN outcome : outcome[r] \in Ends
    /\ \A h \in hooks : h.seen \in {"pending", "completed", "failed", "killed"}

ServerOK ==
    /\ orchestra \in [state : OrchestraStates, count : Nat]
    /\ server \in {"down", "recovering", "recovered", "up"}

\* The parts of the types.
LEMMA TypeParts == TypeInv <=> ClockOK /\ ProcessOK /\ RunsOK /\ ServerOK /\ PassOK /\ Control
<1>1. PassOK => pass.kind \in {"none", "recovery", "plan"} /\ pass.todo \subseteq Entries
  BY DEF PassOK, Passes
<1> QED  BY <1>1 DEF TypeInv, TypeOK, ClockOK, ProcessOK, RunsOK, ServerOK, Entries

\* The same of the next state.
LEMMA TypePartsNext ==
    TypeInv' <=> ClockOK' /\ ProcessOK' /\ RunsOK' /\ ServerOK' /\ PassOK' /\ Control'
<1>1. PassOK' => pass'.kind \in {"none", "recovery", "plan"} /\ pass'.todo \subseteq Entries
  BY DEF PassOK, Passes, Entries
<1> QED  BY <1>1 DEF TypeInv, TypeOK, ClockOK, ProcessOK, RunsOK, ServerOK, Entries, Times,
            OrchestraStates, Ends, There

\* The processes a pass goes through: each once, with its schedule.
LEMMA Listed ==
    ASSUME ProcessOK
    PROVE  /\ ListEnabledCronProcesses \in SUBSET Entries
           /\ \A e, f \in ListEnabledCronProcesses : e.proc = f.proc => e = f
           /\ \A e \in ListEnabledCronProcesses :
                /\ There(e.proc) /\ process[e.proc].enabled
                /\ e.slots = process[e.proc].schedule
           /\ \A p \in Procs : active /\ There(p) /\ process[p].enabled /\ process[p].schedule # {} =>
                \E e \in ListEnabledCronProcesses : e.proc = p
<1> DEFINE E == ListEnabledCronProcesses
<1>1. \A e \in E : \E p \in Procs :
        /\ There(p) /\ process[p].enabled /\ process[p].schedule # {}
        /\ e = [proc |-> p, slots |-> process[p].schedule]
  BY DEF ListEnabledCronProcesses
<1>2. \A e \in E : /\ e.proc \in Procs /\ There(e.proc) /\ process[e.proc].enabled
                   /\ process[e.proc].schedule # {}
                   /\ e = [proc |-> e.proc, slots |-> process[e.proc].schedule]
  BY <1>1
<1>3. \A p \in Procs : active /\ There(p) /\ process[p].enabled /\ process[p].schedule # {} =>
        [proc |-> p, slots |-> process[p].schedule] \in E
  BY DEF ListEnabledCronProcesses
<1> HIDE DEF E
<1>4. E \in SUBSET Entries
  <2>1. ASSUME NEW e \in E PROVE e \in Entries
    <3>1. e.proc \in Procs /\ process[e.proc].schedule \in Schedules  BY <1>2 DEF ProcessOK
    <3> QED  BY <1>2, <3>1 DEF Entries
  <2> QED  BY <2>1
<1>5. \A e, f \in E : e.proc = f.proc => e = f  BY <1>2
<1>6. \A e \in E : e.slots = process[e.proc].schedule  BY <1>2
<1>7. \A p \in Procs : active /\ There(p) /\ process[p].enabled /\ process[p].schedule # {} =>
        \E e \in E : e.proc = p
  BY <1>3
<1> QED  BY <1>2, <1>4, <1>5, <1>6, <1>7 DEF E

\* A pass that begins.
LEMMA BeginPass ==
    ASSUME TypeInv, NEW kind \in {"recovery", "plan"}, Begin(kind)
    PROVE  /\ PassOK' /\ pass'.kind = kind /\ pass'.now = now
           /\ pass'.todo = ListEnabledCronProcesses
           /\ pass'.proc = NoOne
<1>1. ListEnabledCronProcesses \in SUBSET Entries /\ now \in Nat
  BY TypeParts, Listed DEF ClockOK
<1> QED  BY <1>1 DEF Begin, NoPass, PassOK, Passes, Entries

\* A pass that is over.
LEMMA RestPass ==
    ASSUME PassOK, pass' = NoPass \/ pass' = [NoPass EXCEPT !.now = pass.now]
    PROVE  /\ PassOK' /\ pass'.kind = "none" /\ pass'.todo = {} /\ pass'.proc = NoOne
           /\ pass' = NoPass => pass'.now = 0
           /\ pass' = [NoPass EXCEPT !.now = pass.now] => pass'.now = pass.now
  BY DEF NoPass, PassOK, Passes, Entries

\* The next process of a pass.
LEMMA VisitPass ==
    ASSUME TypeInv, NEW e \in pass.todo, NextToRecover(e) \/ NextToPlan(e)
    PROVE  /\ PassOK' /\ pass'.kind = pass.kind /\ pass'.now = pass.now /\ pass.proc = NoOne
           /\ pass'.todo = pass.todo \ {e} /\ e \in Entries
           /\ \/ /\ pass'.proc = e.proc /\ pass'.slots = e.slots /\ pass'.created = 0
                 /\ pass.kind = "plan" => pass'.from = pass.now
                 /\ pass.kind = "recovery" =>
                      RunsOf(e.proc) # {} /\ pass'.from = GetLastRunByProcess(e.proc) + 1
              \/ /\ pass'.proc = NoOne /\ pass'.from = pass.from
                 /\ pass.kind = "recovery" /\ ~(e.proc \in ExecuteOnMiss /\ RunsOf(e.proc) # {})
<1>1. PassOK /\ RunsOK /\ pass.todo \subseteq Entries  BY TypeParts DEF PassOK, Passes
<1>2. e \in Entries /\ e.proc \in Procs /\ e.slots \in SUBSET Nat
  BY <1>1, ScheduleAssumption DEF Entries
<1>3. CASE NextToPlan(e)
  BY <1>1, <1>2, <1>3 DEF NextToPlan, PassOK, Passes
<1>4. CASE NextToRecover(e)
  <2>1. CASE ~(e.proc \in ExecuteOnMiss /\ RunsOf(e.proc) # {})
    <3> DEFINE new == [pass EXCEPT !.todo = @ \ {e}]
    <3>1. pass.kind = "recovery" /\ pass.proc = NoOne /\ pass' = new
      BY <1>4, <2>1 DEF NextToRecover
    <3>2. /\ new \in Passes /\ new.kind = pass.kind /\ new.now = pass.now
          /\ new.todo = pass.todo \ {e} /\ new.proc = pass.proc /\ new.from = pass.from
      BY <1>1 DEF PassOK, Passes
    <3> HIDE DEF new
    <3> QED  BY <1>2, <2>1, <3>1, <3>2 DEF PassOK
  <2>2. CASE e.proc \in ExecuteOnMiss /\ RunsOf(e.proc) # {}
    <3> DEFINE m == GetLastRunByProcess(e.proc)
    <3>1. m \in Nat
      <4> DEFINE S == {r.at : r \in RunsOf(e.proc)}
      <4>1. \A x \in S : x \in Nat /\ x <= MaxTime + Horizon
        BY <1>1, ScheduleAssumption DEF RunsOK, RunsOf, Times
      <4>2. S # {} /\ S \in SUBSET Nat  BY <2>2, <4>1
      <4>3. MaxTime + Horizon \in Nat  BY ScheduleAssumption
      <4>4. Max(S) \in S
        <5> HIDE DEF S
        <5> QED  BY <4>1, <4>2, <4>3, Greatest
      <4> QED  BY <4>2, <4>4 DEF GetLastRunByProcess
    <3> DEFINE f == m + 1
               new == [pass EXCEPT !.todo = @ \ {e}, !.proc = e.proc, !.slots = e.slots,
                                   !.from = f, !.created = 0]
    <3>2. pass.kind = "recovery" /\ pass.proc = NoOne /\ pass' = new
      BY <1>4, <2>2 DEF NextToRecover
    <3> HIDE DEF m
    <3>3. f \in Nat  BY <3>1
    <3> HIDE DEF f
    <3>4. /\ new \in Passes /\ new.kind = pass.kind /\ new.now = pass.now
          /\ new.todo = pass.todo \ {e}
          /\ new.proc = e.proc /\ new.slots = e.slots /\ new.created = 0 /\ new.from = f
      BY <1>1, <1>2, <3>3 DEF PassOK, Passes
    <3> HIDE DEF new
    <3> QED  BY <1>2, <2>2, <3>2, <3>4 DEF PassOK, m, f
  <2> QED  BY <2>1, <2>2
<1> QED  BY <1>3, <1>4

\* A slot of a pass.
LEMMA SlotPass ==
    ASSUME TypeInv, NEW t \in pass.slots, SlotStep(t)
    PROVE  /\ PassOK' /\ pass'.kind = pass.kind /\ pass'.now = pass.now
           /\ pass'.todo = pass.todo /\ pass'.proc = pass.proc /\ pass'.slots = pass.slots
           /\ pass'.from = t + 1 /\ t \in Times /\ t >= pass.from
           /\ pass.proc \in Procs /\ pass.kind \in {"plan", "recovery"}
           /\ \/ /\ rows' = rows /\ Row(pass.proc, t, PassOrigin) \in rows
                 /\ pass'.created = pass.created
              \/ /\ Insertable(Row(pass.proc, t, PassOrigin)) /\ pass'.created = pass.created + 1
                 /\ rows' = rows \cup {Row(pass.proc, t, PassOrigin)}
<1>1. PassOK /\ Control /\ now \in 0 .. MaxTime  BY TypeParts DEF ClockOK
<1>2. t \in Nat  BY <1>1 DEF PassOK, Passes
<1>3. pass.proc # NoOne /\ t >= pass.from /\ InWindow(t)  BY DEF SlotStep, NextSlot, Upcoming
<1>4. pass.kind \in {"plan", "recovery"} /\ pass.proc \in Procs  BY <1>1, <1>3 DEF PassOK, Passes, Control
<1>5. t \in Times
  BY <1>1, <1>2, <1>3, <1>4, ScheduleAssumption DEF InWindow, Control, Times, PassOK, Passes
<1>6. CASE RunExists(pass.proc, t, PassOrigin) /\ pass' = [pass EXCEPT !.from = t + 1] /\ rows' = rows
  <2>1. /\ PassOK' /\ pass'.kind = pass.kind /\ pass'.now = pass.now
        /\ pass'.todo = pass.todo /\ pass'.proc = pass.proc /\ pass'.slots = pass.slots
        /\ pass'.from = t + 1 /\ pass'.created = pass.created
    BY <1>1, <1>2, <1>6 DEF PassOK, Passes
  <2> QED  BY <1>3, <1>4, <1>5, <1>6, <2>1 DEF RunExists
<1>7. CASE /\ CreateRun(Row(pass.proc, t, PassOrigin))
           /\ pass' = [pass EXCEPT !.from = t + 1, !.created = @ + 1]
  <2> DEFINE f == t + 1
             c == pass.created + 1
             new == [pass EXCEPT !.from = f, !.created = c]
  <2>0. f \in Nat /\ c \in Nat  BY <1>1, <1>2 DEF PassOK, Passes
  <2>2. pass' = new  BY <1>7
  <2> HIDE DEF f, c
  <2>1. /\ new \in Passes /\ new.kind = pass.kind /\ new.now = pass.now
        /\ new.todo = pass.todo /\ new.proc = pass.proc /\ new.slots = pass.slots
        /\ new.from = f /\ new.created = c
    BY <1>1, <2>0 DEF PassOK, Passes
  <2> HIDE DEF new
  <2> QED  BY <1>3, <1>4, <1>5, <1>7, <2>1, <2>2 DEF CreateRun, PassOK, f, c
<1> QED  BY <1>6, <1>7 DEF SlotStep

\* A process a pass is done with.
LEMMA LeavePass ==
    ASSUME TypeInv, EndSlots
    PROVE  /\ PassOK' /\ pass'.kind = pass.kind /\ pass'.now = pass.now
           /\ pass'.todo = pass.todo /\ pass'.proc = NoOne /\ pass.proc \in Procs
           /\ pass.kind \in {"plan", "recovery"}
<1>1. PassOK /\ Control  BY TypeParts
<1>2. pass.proc # NoOne /\ Leave  BY DEF EndSlots
<1> QED  BY <1>1, <1>2 DEF PassOK, Passes, Leave, Control

\* The steps of a pass keep the types.
LEMMA PassTypes == ASSUME TypeInv, PassStep PROVE TypeInv'
<1> USE DEF world, tables, scores, history
<1>1. ClockOK /\ ProcessOK /\ RunsOK /\ ServerOK /\ PassOK /\ Control  BY TypeParts
<1>2. /\ now \in Nat /\ pass.now \in Nat /\ now + Interval \in Nat /\ Interval \in Nat
      /\ Lag \in Nat /\ pass.todo \subseteq Entries /\ NoOne \notin Procs
  BY <1>1, ScheduleAssumption DEF ClockOK, PassOK, Passes
<1>3. \A e \in Entries : e.proc # NoOne  BY <1>2 DEF Entries
<1>a. ListEnabledCronProcesses \subseteq Entries
      /\ \A e, f \in ListEnabledCronProcesses : e.proc = f.proc => e = f
  BY <1>1, Listed
<1>4. CASE StartRecovery
  <2>1. PassOK' /\ pass'.kind = "recovery" /\ pass'.now = now /\ pass'.proc = NoOne
        /\ pass'.todo = ListEnabledCronProcesses
    BY <1>4, BeginPass DEF StartRecovery
  <2>2. ClockOK' /\ ProcessOK' /\ RunsOK' /\ ServerOK'
    BY <1>1, <1>4 DEF StartRecovery, ClockOK, ProcessOK, RunsOK, ServerOK, There
  <2>3. Control'
    BY <1>1, <1>2, <1>3, <1>a, <1>4, <2>1 DEF StartRecovery, Control, NoEdit
  <2> QED  BY <2>1, <2>2, <2>3, TypePartsNext
<1>5. CASE RecoveryFails
  <2>1. /\ PassOK' /\ pass'.kind = "none" /\ pass'.todo = {} /\ pass'.proc = NoOne
        /\ pass'.now = pass.now
    BY <1>1, <1>5, RestPass DEF RecoveryFails
  <2>2. ClockOK' /\ ProcessOK' /\ RunsOK' /\ ServerOK'
    BY <1>1, <1>5 DEF RecoveryFails, ClockOK, ProcessOK, RunsOK, ServerOK, There
  <2>3. Control'
    BY <1>1, <1>2, <1>5, <2>1 DEF RecoveryFails, Control, NoEdit
  <2> QED  BY <2>1, <2>2, <2>3, TypePartsNext
<1>6. CASE EndRecovery
  <2>1. /\ PassOK' /\ pass'.kind = "none" /\ pass'.todo = {} /\ pass'.proc = NoOne
        /\ pass'.now = pass.now
    BY <1>1, <1>6, RestPass DEF EndRecovery
  <2>2. ClockOK' /\ ProcessOK' /\ RunsOK' /\ ServerOK'
    BY <1>1, <1>6 DEF EndRecovery, ClockOK, ProcessOK, RunsOK, ServerOK, There
  <2>3. Control'
    BY <1>1, <1>2, <1>6, <2>1 DEF EndRecovery, Control, NoEdit
  <2> QED  BY <2>1, <2>2, <2>3, TypePartsNext
<1>7. CASE StartPlanner
  <2>1. PassOK' /\ pass'.kind = "plan" /\ pass'.now = now /\ pass'.proc = NoOne
        /\ pass'.todo = ListEnabledCronProcesses
    BY <1>7, BeginPass DEF StartPlanner
  <2>2. pass.now .. now - 1 \subseteq Times
    BY <1>1, <1>2, ScheduleAssumption DEF ClockOK, Times
  <2>3. ClockOK' /\ ProcessOK' /\ RunsOK' /\ ServerOK'
    BY <1>1, <1>2, <1>7, <2>2 DEF StartPlanner, ClockOK, ProcessOK, RunsOK, ServerOK, There
  <2>4. Control'
    BY <1>1, <1>2, <1>3, <1>a, <1>7, <2>1 DEF StartPlanner, Control, NoEdit
  <2> QED  BY <2>1, <2>3, <2>4, TypePartsNext
<1>8. CASE Plan
  <2>1. PassOK' /\ pass'.kind = "plan" /\ pass'.now = now /\ pass'.proc = NoOne
        /\ pass'.todo = ListEnabledCronProcesses
    BY <1>8, BeginPass DEF Plan
  <2>2. ClockOK' /\ ProcessOK' /\ RunsOK' /\ ServerOK'
    BY <1>1, <1>2, <1>8 DEF Plan, ClockOK, ProcessOK, RunsOK, ServerOK, There
  <2>3. Control'
    BY <1>1, <1>2, <1>3, <1>a, <1>8, <2>1 DEF Plan, Control, NoEdit
  <2> QED  BY <2>1, <2>2, <2>3, TypePartsNext
<1>9. CASE EndPlan
  <2>1. /\ PassOK' /\ pass'.kind = "none" /\ pass'.todo = {} /\ pass'.proc = NoOne
        /\ pass'.now = 0
    BY <1>1, <1>9, RestPass DEF EndPlan
  <2>2. ClockOK' /\ ProcessOK' /\ RunsOK' /\ ServerOK'
    BY <1>1, <1>9 DEF EndPlan, ClockOK, ProcessOK, RunsOK, ServerOK, There
  <2>3. Control'
    BY <1>1, <1>2, <1>9, <2>1 DEF EndPlan, Control, NoEdit
  <2> QED  BY <2>1, <2>2, <2>3, TypePartsNext
<1>10. CASE \E e \in pass.todo : NextToRecover(e) \/ NextToPlan(e)
  <2>1. PICK e \in pass.todo : NextToRecover(e) \/ NextToPlan(e)  BY <1>10
  <2>2. /\ PassOK' /\ pass'.kind = pass.kind /\ pass'.now = pass.now /\ pass.proc = NoOne
        /\ pass'.todo = pass.todo \ {e} /\ pass'.proc \in {e.proc, NoOne}
        /\ pass.kind # "none"
    BY <2>1, VisitPass DEF NextToRecover, NextToPlan
  <2>3. UNCHANGED <<world, tables, scores, edit, hooks, server, due, history>>
    BY <2>1 DEF NextToRecover, NextToPlan
  <2>4. ClockOK' /\ ProcessOK' /\ RunsOK' /\ ServerOK'
    BY <1>1, <2>3 DEF ClockOK, ProcessOK, RunsOK, ServerOK, There
  <2>5. Control'
    BY <1>1, <1>2, <1>3, <2>2, <2>3 DEF Control, NoEdit
  <2> QED  BY <2>2, <2>4, <2>5, TypePartsNext
<1>11. CASE \E t \in pass.slots : SlotStep(t)
  <2>1. PICK t \in pass.slots : SlotStep(t)  BY <1>11
  <2> DEFINE r == Row(pass.proc, t, PassOrigin)
  <2>2. /\ PassOK' /\ pass'.kind = pass.kind /\ pass'.now = pass.now
        /\ pass'.todo = pass.todo /\ pass'.proc = pass.proc
        /\ t \in Times /\ pass.proc \in Procs
        /\ rows' = rows \/ (Insertable(r) /\ rows' = rows \cup {r})
    BY <2>1, SlotPass
  <2>3. UNCHANGED <<world, active, process, scores, edit, outcome, hooks, server, due, history>>
    BY <2>1 DEF SlotStep
  <2>4. ClockOK' /\ ProcessOK' /\ ServerOK'
    BY <1>1, <2>3 DEF ClockOK, ProcessOK, ServerOK
  <2>5. RunsOK'
    <3>1. r.proc = pass.proc /\ r.at = t  BY DEF Row
    <3> HIDE DEF r
    <3> QED  BY <1>1, <2>2, <2>3, <3>1 DEF RunsOK, Insertable, There
  <2>6. Control'
    BY <1>1, <2>2, <2>3 DEF Control, NoEdit
  <2> QED  BY <2>2, <2>4, <2>5, <2>6, TypePartsNext
<1>12. CASE EndSlots
  <2>1. /\ PassOK' /\ pass'.kind = pass.kind /\ pass'.now = pass.now
        /\ pass'.todo = pass.todo /\ pass'.proc = NoOne
        /\ pass.kind \in {"plan", "recovery"}
    BY <1>12, LeavePass
  <2>2. ClockOK' /\ ProcessOK' /\ RunsOK' /\ ServerOK'
    BY <1>1, <1>12 DEF EndSlots, ClockOK, ProcessOK, RunsOK, ServerOK, There
  <2>3. Control'
    BY <1>1, <1>2, <1>3, <1>12, <2>1 DEF EndSlots, Control, NoEdit
  <2> QED  BY <2>1, <2>2, <2>3, TypePartsNext
<1> QED  BY <1>4, <1>5, <1>6, <1>7, <1>8, <1>9, <1>10, <1>11, <1>12 DEF PassStep

\* The CHECK refuses every movement.
LEMMA NoMovement == ASSUME NEW p, NEW r PROVE ~Insertable(Movement(p, r))
<1>1. Movement(p, r).origin = "orchestra"  BY DEF Movement
<1> QED  BY <1>1 DEF Insertable, Origins

\* So the requests about orchestras change nothing but the orchestra and the choices.
LEMMA OrchestraFrame ==
    ASSUME OrchestraStep
    PROVE  /\ Request
           /\ UNCHANGED <<now, crashes, tables, edit, program, history>>
           /\ choices' = choices \/ (\E r \in rows : choices' = choices \cup {r})
<1> USE DEF tables, scores
<1>1. CASE \E p \in Procs \cup {NoOne} : CreateOrchestra(p)
  BY <1>1, NoMovement DEF CreateOrchestra, TryCreateRun
<1>2. CASE \E p \in Procs \cup {NoOne} : \E r \in choices : Choose(r, p)
  BY <1>2, NoMovement DEF Choose, TryCreateRun
<1>3. CASE \E to \in {"cancelled", "paused", "active", "completed"} : UpdateOrchestraState(to)
  BY <1>3 DEF UpdateOrchestraState
<1>4. CASE \E r \in rows, p \in Procs : NextMovement(r, p)
  BY <1>4, NoMovement DEF NextMovement, TryCreateRun
<1>5. CASE \E r \in rows : SetChoiceConfig(r)
  BY <1>5 DEF SetChoiceConfig, SetRunChoiceConfig
<1> QED  BY <1>1, <1>2, <1>3, <1>4, <1>5 DEF OrchestraStep

Scores == [state : OrchestraStates, count : Nat]

\* What the requests make of the orchestra.
LEMMA OrchestraScores ==
    ASSUME OrchestraStep, orchestra \in Scores, choices \subseteq rows
    PROVE  orchestra' \in Scores
<1>1. CASE \E p \in Procs \cup {NoOne} : CreateOrchestra(p)
  BY <1>1 DEF CreateOrchestra, Scores, OrchestraStates
<1>2. CASE \E p \in Procs \cup {NoOne} : \E r \in choices : Choose(r, p)
  <2>1. PICK p \in Procs \cup {NoOne}, r \in choices : Choose(r, p)  BY <1>2
  <2>2. CASE ~InOrchestra(r)
    <3>1. orchestra' = orchestra  BY <2>1, <2>2 DEF Choose
    <3> QED  BY <3>1
  <2>3. CASE InOrchestra(r)
    <3>1. \/ orchestra' = [orchestra EXCEPT !.state = "completed"]
          \/ orchestra' = [[orchestra EXCEPT !.count = @ + 1] EXCEPT !.state = "active"]
      BY <2>1, <2>3 DEF Choose, IncrementMovementCount
    <3>2. orchestra.count + 1 \in Nat  BY DEF Scores
    <3> QED  BY <3>1, <3>2 DEF Scores, OrchestraStates
  <2> QED  BY <2>2, <2>3
<1>3. CASE \E to \in {"cancelled", "paused", "active", "completed"} : UpdateOrchestraState(to)
  BY <1>3 DEF UpdateOrchestraState, WriteOrchestraState, Scores, OrchestraStates
<1>4. CASE \E r \in rows, p \in Procs : NextMovement(r, p)
  <2>1. PICK r \in rows, p \in Procs : NextMovement(r, p)  BY <1>4
  <2>2. orchestra' = IF InOrchestra(r) THEN [orchestra EXCEPT !.count = @ + 1] ELSE orchestra
    BY <2>1 DEF NextMovement, IncrementMovementCount
  <2>3. orchestra.count + 1 \in Nat  BY DEF Scores
  <2> QED  BY <2>2, <2>3 DEF Scores
<1>5. CASE \E r \in rows : SetChoiceConfig(r)
  <2>1. PICK r \in rows : SetChoiceConfig(r)  BY <1>5
  <2>2. orchestra' = IF InOrchestra(r) THEN [orchestra EXCEPT !.state = "waiting_for_choice"]
                     ELSE orchestra
    BY <2>1 DEF SetChoiceConfig
  <2> QED  BY <2>2 DEF Scores, OrchestraStates
<1> QED  BY <1>1, <1>2, <1>3, <1>4, <1>5 DEF OrchestraStep

\* They keep the types.
LEMMA OrchestraTypes == ASSUME TypeInv, OrchestraStep PROVE TypeInv'
<1> USE DEF tables, program, history
<1>1. ClockOK /\ ProcessOK /\ RunsOK /\ ServerOK /\ PassOK /\ Control  BY TypeParts
<1>2. /\ Request
      /\ UNCHANGED <<now, crashes, tables, edit, program, history>>
      /\ choices' = choices \/ (\E r \in rows : choices' = choices \cup {r})
  BY OrchestraFrame
<1>3. ServerOK'
  <2>1. orchestra' \in Scores  BY <1>1, OrchestraScores DEF ServerOK, Scores, RunsOK
  <2> QED  BY <1>1, <1>2, <2>1 DEF ServerOK, Scores
<1>4. ClockOK'  BY <1>1, <1>2, ScheduleAssumption DEF ClockOK, Request
<1>5. RunsOK'  BY <1>1, <1>2 DEF RunsOK, There
<1>6. ProcessOK' /\ PassOK'  BY <1>1, <1>2 DEF ProcessOK, PassOK, Passes
<1>7. Control'  BY <1>1, <1>2 DEF Control, NoEdit
<1> QED  BY <1>3, <1>4, <1>5, <1>6, <1>7, TypePartsNext

ProcessRows == [life : {"unborn", "there", "deleted"}, enabled : BOOLEAN,
                schedule : Schedules \cup {{}}]

\* What UpdateProcess writes.
LEMMA Written ==
    ASSUME ProcessOK, UpdateProcess
    PROVE  /\ edit.proc \in Procs /\ process' \in [Procs -> ProcessRows]
           /\ \A q \in Procs : process'[q].life = process[q].life
           /\ \A q \in Procs \ {edit.proc} : process'[q] = process[q]
<1>1. /\ edit.proc \in Procs /\ edit.enabled \in BOOLEAN /\ edit.schedule \in Schedules \cup {{}}
      /\ process \in [Procs -> ProcessRows]
  BY DEF UpdateProcess, ProcessOK, ProcessRows
<1> DEFINE old == process[edit.proc]
           new == [old EXCEPT !.enabled = edit.enabled, !.schedule = edit.schedule]
<1>2. CASE There(edit.proc)
  <2>1. process' = [process EXCEPT ![edit.proc].enabled = edit.enabled,
                                   ![edit.proc].schedule = edit.schedule]
    BY <1>2 DEF UpdateProcess, WriteProcess
  <2>2. process' = [process EXCEPT ![edit.proc] = new]
    BY <1>1, <2>1
  <2>0. old \in ProcessRows  BY <1>1
  <2> HIDE DEF old
  <2>3. new \in ProcessRows /\ new.life = old.life
    BY <1>1, <2>0 DEF ProcessRows
  <2> HIDE DEF new
  <2> QED  BY <1>1, <2>2, <2>3 DEF old
<1>3. CASE ~There(edit.proc)
  BY <1>1, <1>3 DEF UpdateProcess, WriteProcess
<1> QED  BY <1>2, <1>3

\* The requests about processes keep the types.
LEMMA ApiTypes == ASSUME TypeInv, ApiStep PROVE TypeInv'
<1> USE DEF tables, scores, world, program, history
<1>1. ClockOK /\ ProcessOK /\ RunsOK /\ ServerOK /\ PassOK /\ Control  BY TypeParts
<1>2. ASSUME NEW p \in Procs, CreateProcess(p) PROVE TypeInv'
  <2>1. PICK s \in Schedules : process' = [process EXCEPT ![p] = NewProcess(s)]
    BY <1>2 DEF CreateProcess
  <2>2. NewProcess(s) \in [life : {"unborn", "there", "deleted"}, enabled : BOOLEAN,
                           schedule : Schedules \cup {{}}]
        /\ NewProcess(s).life = "there"
    BY DEF NewProcess
  <2>3. ProcessOK'  BY <1>1, <1>2, <2>1, <2>2 DEF CreateProcess, ProcessOK
  <2>4. RunsOK'
    BY <1>1, <1>2, <2>1, <2>2 DEF CreateProcess, RunsOK, There, ProcessOK
  <2>5. ClockOK'  BY <1>1, <1>2, ScheduleAssumption DEF ClockOK, Request, CreateProcess
  <2>6. ServerOK' /\ PassOK' /\ Control'
    BY <1>1, <1>2 DEF CreateProcess, ServerOK, PassOK, Passes, Control, NoEdit
  <2> QED  BY <2>3, <2>4, <2>5, <2>6, TypePartsNext
<1>3. ASSUME NEW p \in Procs, TriggerProcess(p) PROVE TypeInv'
  <2> DEFINE r == Row(p, now, "manual")
  <2>1. rows' = rows \cup {r} /\ Insertable(r) /\ Request /\ touched' = touched \cup {p}
        /\ UNCHANGED <<now, crashes, active, process, outcome, scores, edit, program, unseen>>
    BY <1>3 DEF TriggerProcess, CreateRun, About
  <2>2. r.proc = p /\ r.at = now  BY DEF Row
  <2>3. now \in Times  BY <1>1, ScheduleAssumption DEF ClockOK, Times
  <2> HIDE DEF r
  <2>4. RunsOK'  BY <1>1, <2>1, <2>2, <2>3 DEF RunsOK, There, Insertable
  <2>5. ClockOK'  BY <1>1, <2>1, ScheduleAssumption DEF ClockOK, Request
  <2>6. ProcessOK' /\ ServerOK' /\ PassOK' /\ Control'
    BY <1>1, <2>1 DEF ProcessOK, ServerOK, PassOK, Passes, Control, NoEdit
  <2> QED  BY <2>4, <2>5, <2>6, TypePartsNext
<1>4. ASSUME NEW p \in Procs, SetProcessEnabled(p) PROVE TypeInv'
  <2>1. Request /\ touched' = touched \cup {p} /\ process' = [process EXCEPT ![p].enabled = ~@]
        /\ UNCHANGED <<now, crashes, active, rows, outcome, scores, edit, program, unseen>>
    BY <1>4 DEF SetProcessEnabled, About
  <2>2. ProcessOK'  BY <1>1, <2>1 DEF ProcessOK
  <2>3. \A q \in Procs : process'[q].life = process[q].life  BY <1>1, <2>1 DEF ProcessOK
  <2>4. RunsOK'  BY <1>1, <2>1, <2>3 DEF RunsOK, There
  <2>5. ClockOK'  BY <1>1, <2>1, ScheduleAssumption DEF ClockOK, Request
  <2>6. ServerOK' /\ PassOK' /\ Control'
    BY <1>1, <2>1 DEF ServerOK, PassOK, Passes, Control, NoEdit
  <2> QED  BY <2>2, <2>4, <2>5, <2>6, TypePartsNext
<1>5. ASSUME NEW p \in Procs, GetProcess(p) PROVE TypeInv'
  <2>1. Request /\ touched' = touched \cup {p}
        /\ UNCHANGED <<now, crashes, tables, scores, program, unseen>>
    BY <1>5 DEF GetProcess, About
  <2>2. PICK s \in Schedules :
          edit' = [proc |-> p, enabled |-> process[p].enabled, schedule |-> s]
    BY <1>5 DEF GetProcess
  <2>3. ProcessOK'  BY <1>1, <2>1, <2>2 DEF ProcessOK
  <2>4. RunsOK'  BY <1>1, <2>1 DEF RunsOK, There
  <2>5. ClockOK'  BY <1>1, <2>1, ScheduleAssumption DEF ClockOK, Request
  <2>6. ServerOK' /\ PassOK' /\ Control'
    BY <1>1, <2>1 DEF ServerOK, PassOK, Passes, Control, Request
  <2> QED  BY <2>3, <2>4, <2>5, <2>6, TypePartsNext
<1>6. ASSUME NEW p \in Procs, DeleteProcess(p) PROVE TypeInv'
  <2>1. Request /\ touched' = touched \cup {p}
        /\ UNCHANGED <<now, crashes, active, orchestra, edit, server, pass, due, unseen>>
    BY <1>6 DEF DeleteProcess, About
  <2>2. process' = [process EXCEPT ![p].life = "deleted"]  BY <1>6 DEF DeleteProcess
  <2>3. ProcessOK'  BY <1>1, <2>1, <2>2 DEF ProcessOK
  <2>4. \A q \in Procs \ {p} : process'[q].life = process[q].life
    BY <1>1, <2>2 DEF ProcessOK
  <2>5. RunsOK'
    BY <1>1, <1>6, <2>4 DEF DeleteProcess, RunsOK, There, RunsOf
  <2>6. ClockOK'  BY <1>1, <2>1, ScheduleAssumption DEF ClockOK, Request
  <2>7. ServerOK' /\ PassOK'
    BY <1>1, <2>1 DEF ServerOK, PassOK, Passes
  <2>8. Control'
    BY <1>1, <2>1 DEF Control, Request
  <2> QED  BY <2>3, <2>5, <2>6, <2>7, <2>8, TypePartsNext
<1>7. CASE UpdateProcess
  <2>1. edit' = NoEdit /\ UNCHANGED <<world, active, rows, outcome, scores, program, history>>
    BY <1>7 DEF UpdateProcess
  <2>2. edit.proc \in Procs /\ edit.enabled \in BOOLEAN /\ edit.schedule \in Schedules \cup {{}}
    BY <1>1, <1>7 DEF UpdateProcess, ProcessOK
  <2>3. process' \in [Procs -> [life : {"unborn", "there", "deleted"}, enabled : BOOLEAN,
                                schedule : Schedules \cup {{}}]]
        /\ \A q \in Procs : process'[q].life = process[q].life
    BY <1>1, <1>7, Written DEF ProcessRows
  <2>4. NoEdit \in [proc : Procs \cup {NoOne}, enabled : BOOLEAN, schedule : Schedules \cup {{}}]
    BY DEF NoEdit
  <2>5. ProcessOK'  BY <1>1, <2>1, <2>3, <2>4 DEF ProcessOK
  <2>6. RunsOK'  BY <1>1, <2>1, <2>3 DEF RunsOK, There
  <2>7. ClockOK' /\ ServerOK' /\ PassOK'
    BY <1>1, <2>1 DEF ClockOK, ServerOK, PassOK, Passes
  <2>8. Control'  BY <1>1, <2>1 DEF Control, NoEdit
  <2> QED  BY <2>5, <2>6, <2>7, <2>8, TypePartsNext
<1>8. CASE UpdateWorkspaceState
  <2>1. Request /\ touched' = Procs /\ active' = ~active
        /\ UNCHANGED <<now, crashes, process, rows, outcome, scores, edit, program, unseen>>
    BY <1>8 DEF UpdateWorkspaceState
  <2>2. ProcessOK' /\ RunsOK'  BY <1>1, <2>1 DEF ProcessOK, RunsOK, There
  <2>3. ClockOK'  BY <1>1, <2>1, ScheduleAssumption DEF ClockOK, Request
  <2>4. ServerOK' /\ PassOK' /\ Control'
    BY <1>1, <2>1 DEF ServerOK, PassOK, Passes, Control, NoEdit
  <2> QED  BY <2>2, <2>3, <2>4, TypePartsNext
<1> QED  BY <1>2, <1>3, <1>4, <1>5, <1>6, <1>7, <1>8 DEF ApiStep

\* What a dependent run looks like.
LEMMA Dependent ==
    ASSUME NEW h, NEW r \in createDependentRuns(h)
    PROVE  /\ r.proc \in Procs /\ r.at = now /\ r.origin = "dependency" /\ r.parent = h.row
           /\ There(r.proc) /\ DependsOn[r.proc] = h.row.proc /\ Triggers(r.proc, h.seen)
  BY DEF createDependentRuns, GetDependentProcesses

\* Ends of runs, dependent runs, time and crashes keep the types.
LEMMA WorldTypes ==
    ASSUME TypeInv,
           \/ \E r \in rows, s \in Ends : RunEnds(r, s)
           \/ \E h \in hooks : Evaluate(h)
           \/ Tick \/ Crash
    PROVE  TypeInv'
<1> USE DEF world, tables, scores, history
<1>1. ClockOK /\ ProcessOK /\ RunsOK /\ ServerOK /\ PassOK /\ Control  BY TypeParts
<1>2. now \in Times  BY <1>1, ScheduleAssumption DEF ClockOK, Times
<1>3. ASSUME NEW r \in rows, NEW s \in Ends, RunEnds(r, s)
      PROVE  TypeInv'
  <2>1. server = "up" /\ UNCHANGED <<world, active, process, scores, edit, rows, server, pass, due, history>>
    BY <1>3 DEF RunEnds
  <2>2. DOMAIN outcome' = DOMAIN outcome \cup {r}
        /\ \A q \in DOMAIN outcome' : outcome'[q] = IF q = r THEN s ELSE outcome[q]
    BY <1>3 DEF RunEnds
  <2>3. hooks' = hooks \cup {[row |-> r, seen |-> IF s = "skipped" THEN "pending" ELSE s]}
    BY <1>3 DEF RunEnds
  <2>4. \A h \in hooks' : h.seen \in {"pending", "completed", "failed", "killed"}
    BY <1>1, <1>3, <2>3 DEF RunsOK, Ends
  <2>5. RunsOK'  BY <1>1, <2>1, <2>2, <2>4 DEF RunsOK, There
  <2>6. ClockOK' /\ ProcessOK' /\ ServerOK' /\ PassOK'
    BY <1>1, <2>1 DEF ClockOK, ProcessOK, ServerOK, PassOK, Passes
  <2>7. Control'  BY <1>1, <2>1 DEF Control
  <2> QED  BY <2>5, <2>6, <2>7, TypePartsNext
<1>4. ASSUME NEW h \in hooks, Evaluate(h) PROVE TypeInv'
  <2>1. UNCHANGED <<world, active, process, scores, edit, outcome, server, pass, due, history>>
        /\ hooks' = hooks \ {h} /\ rows' = rows \cup createDependentRuns(h)
    BY <1>4 DEF Evaluate
  <2>2. \A r \in createDependentRuns(h) : r.proc \in Procs /\ r.at = now /\ There(r.proc)
    BY Dependent
  <2>3. RunsOK'  BY <1>1, <1>2, <2>1, <2>2 DEF RunsOK, There
  <2>6. ClockOK' /\ ProcessOK' /\ ServerOK' /\ PassOK'
    BY <1>1, <2>1 DEF ClockOK, ProcessOK, ServerOK, PassOK, Passes
  <2>7. Control'  BY <1>1, <2>1 DEF Control, NoEdit
  <2> QED  BY <2>3, <2>6, <2>7, TypePartsNext
<1>5. CASE Tick
  <2>1. /\ now < MaxTime /\ now' = now + 1
        /\ server = "up" => pass.kind = "none" /\ now < due + Lag
        /\ UNCHANGED <<requests, crashes, tables, scores, edit, program, history>>
    BY <1>5 DEF Tick
  <2>2. ClockOK'  BY <1>1, <2>1, ScheduleAssumption DEF ClockOK, program
  <2>3. ProcessOK' /\ RunsOK' /\ ServerOK' /\ PassOK'
    BY <1>1, <2>1 DEF ProcessOK, RunsOK, There, ServerOK, PassOK, Passes, program
  <2>4. now \in Nat /\ due \in Nat /\ pass.now \in Nat /\ Lag \in Nat
    BY <1>1, ScheduleAssumption DEF ClockOK, PassOK, Passes
  <2>5. Control'  BY <1>1, <2>1, <2>4 DEF Control, NoEdit, program
  <2> QED  BY <2>2, <2>3, <2>5, TypePartsNext
<1>6. CASE Crash
  <2>1. requests + crashes < MaxEvents /\ crashes' = crashes + 1 /\ server' = "down"
        /\ pass' = NoPass /\ hooks' = {} /\ due' = 0 /\ edit' = NoEdit
        /\ UNCHANGED <<now, requests, tables, scores, history>>
    BY <1>6 DEF Crash
  <2>2. PassOK' /\ pass'.kind = "none" /\ pass'.todo = {} /\ pass'.proc = NoOne /\ pass'.now = 0
    BY <1>1, <2>1, RestPass
  <2>3. ClockOK'  BY <1>1, <2>1, ScheduleAssumption DEF ClockOK
  <2>4. NoEdit \in [proc : Procs \cup {NoOne}, enabled : BOOLEAN, schedule : Schedules \cup {{}}]
    BY DEF NoEdit
  <2>5. ProcessOK' /\ RunsOK' /\ ServerOK'
    BY <1>1, <2>1, <2>4 DEF ProcessOK, RunsOK, There, ServerOK
  <2>6. now \in Nat  BY <1>1 DEF ClockOK
  <2>7. Control'  BY <2>1, <2>2, <2>6 DEF Control, NoEdit
  <2> QED  BY <2>2, <2>3, <2>5, <2>7, TypePartsNext
<1> QED  BY <1>3, <1>4, <1>5, <1>6

\* The types hold at the start.
LEMMA TypeInit == ASSUME Init PROVE TypeInv
<1>1. ClockOK /\ RunsOK /\ ServerOK
  <2>1. DOMAIN outcome = {}  BY DEF Init
  <2> QED  BY <2>1, ScheduleAssumption DEF Init, ClockOK, RunsOK, ServerOK, OrchestraStates
<1>2. ProcessOK
  BY ScheduleAssumption DEF Init, ProcessOK, NoEdit
<1>3. PassOK /\ pass.kind = "none" /\ pass.todo = {} /\ pass.proc = NoOne /\ pass.now = 0
  BY DEF Init, PassOK, Passes, NoPass, Entries
<1>4. Control  BY <1>3, ScheduleAssumption DEF Init, Control
<1> QED  BY <1>1, <1>2, <1>3, <1>4, TypeParts

\* Every step keeps the types.
LEMMA TypeStep == ASSUME TypeInv, [Next]_vars PROVE TypeInv'
<1>1. CASE Next  BY <1>1, PassTypes, ApiTypes, OrchestraTypes, WorldTypes DEF Next
<1>2. CASE UNCHANGED vars
  <2> USE DEF vars, world, tables, scores, program, history
  <2>1. ClockOK /\ ProcessOK /\ RunsOK /\ ServerOK /\ PassOK /\ Control  BY TypeParts
  <2>2. ClockOK' /\ ProcessOK' /\ ServerOK' /\ PassOK'
    BY <1>2, <2>1 DEF ClockOK, ProcessOK, ServerOK, PassOK, Passes
  <2>3. RunsOK' /\ Control'
    BY <1>2, <2>1 DEF RunsOK, Control, There, NoEdit
  <2> QED  BY <2>2, <2>3, TypePartsNext
<1> QED  BY <1>1, <1>2

\* The types and the turns of recovery and planner hold throughout.
LEMMA TypeAlways == Spec => []TypeInv
<1>1. Init => TypeInv  BY TypeInit
<1>2. TypeInv /\ [Next]_vars => TypeInv'  BY TypeStep
<1> QED  BY <1>1, <1>2, PTL DEF Spec

\* Every row is of a process that is there and within the horizon, every outcome belongs to
\* a row, and requests and crashes stay within their bound.
THEOREM TypeCorrect == Spec => []TypeOK
<1>1. TypeInv => TypeOK  BY DEF TypeInv
<1> QED  BY <1>1, TypeAlways, PTL

-----------------------------------------------------------------------------
(* New rows                                                                *)

\* Where the rows a step adds come from.
LEMMA NewRows ==
    ASSUME TypeInv, [Next]_vars, NEW r \in rows', r \notin rows
    PROVE  \/ \E t \in pass.slots : SlotStep(t) /\ r = Row(pass.proc, t, PassOrigin)
           \/ \E p \in Procs : TriggerProcess(p) /\ r = Row(p, now, "manual")
           \/ \E h \in hooks : Evaluate(h) /\ r \in createDependentRuns(h)
<1> USE DEF world, tables, scores, program, history
<1>1. CASE PassStep
  <2>1. \/ rows' = rows
        \/ \E t \in pass.slots : SlotStep(t)
    BY <1>1 DEF PassStep, StartRecovery, RecoveryFails, EndRecovery, StartPlanner, Plan, EndPlan,
       NextToRecover, NextToPlan, EndSlots
  <2> QED  BY <2>1, SlotPass
<1>2. CASE ApiStep
  <2>1. \/ \A q \in rows' : q \in rows
        \/ \E p \in Procs : TriggerProcess(p)
    BY <1>2 DEF ApiStep, UpdateWorkspaceState, CreateProcess, SetProcessEnabled, GetProcess, DeleteProcess, UpdateProcess
  <2> QED  BY <2>1 DEF TriggerProcess, CreateRun
<1>3. CASE OrchestraStep  BY <1>3, OrchestraFrame
<1>4. CASE \E q \in rows, s \in Ends : RunEnds(q, s)
  BY <1>4 DEF RunEnds
<1>5. CASE \E h \in hooks : Evaluate(h)
  BY <1>5 DEF Evaluate
<1>6. CASE Tick \/ Crash \/ UNCHANGED vars
  BY <1>6 DEF Tick, Crash, vars
<1> QED  BY <1>1, <1>2, <1>3, <1>4, <1>5, <1>6 DEF Next

\* The origins of new rows.
LEMMA NewOrigins ==
    ASSUME TypeInv, [Next]_vars, NEW r \in rows', r \notin rows
    PROVE  r.origin \in {"cron", "recovery", "manual", "dependency"}
<1>1. CASE \E t \in pass.slots : SlotStep(t) /\ r = Row(pass.proc, t, PassOrigin)
  BY <1>1 DEF Row, PassOrigin
<1>2. CASE \E p \in Procs : TriggerProcess(p) /\ r = Row(p, now, "manual")
  BY <1>2 DEF Row
<1>3. CASE \E h \in hooks : Evaluate(h) /\ r \in createDependentRuns(h)
  BY <1>3, Dependent
<1> QED  BY <1>1, <1>2, <1>3, NewRows

-----------------------------------------------------------------------------
(* Dependent runs                                                          *)

\* Only requests change processes.
LEMMA ProcessFrame ==
    ASSUME [Next]_vars
    PROVE  \/ process' = process
           \/ \E p \in Procs : CreateProcess(p) \/ SetProcessEnabled(p) \/ DeleteProcess(p)
           \/ UpdateProcess
<1> USE DEF world, tables, scores, program, history
<1>1. PassStep => process' = process
  BY DEF PassStep, StartRecovery, RecoveryFails, EndRecovery, StartPlanner, Plan, EndPlan,
     NextToRecover, NextToPlan, SlotStep, EndSlots
<1>2. ApiStep => \/ process' = process
                 \/ \E p \in Procs : CreateProcess(p) \/ SetProcessEnabled(p) \/ DeleteProcess(p)
                 \/ UpdateProcess
  BY DEF ApiStep, UpdateWorkspaceState, TriggerProcess, GetProcess
<1>3. OrchestraStep => process' = process  BY OrchestraFrame
<1> QED  BY <1>1, <1>2, <1>3 DEF Next, RunEnds, Evaluate, Tick, Crash, vars

\* A process that was deleted does not come back.
LEMMA StaysDeleted ==
    ASSUME TypeInv, [Next]_vars, NEW p \in Procs, process[p].life = "deleted"
    PROVE  process'[p].life = "deleted"
<1>1. ProcessOK  BY TypeParts
<1>2. CASE process' = process  BY <1>2
<1>3. CASE \E q \in Procs : CreateProcess(q)
  BY <1>1, <1>3 DEF CreateProcess, ProcessOK
<1>4. CASE \E q \in Procs : SetProcessEnabled(q)
  BY <1>1, <1>4 DEF SetProcessEnabled, ProcessOK
<1>5. CASE \E q \in Procs : DeleteProcess(q)
  BY <1>1, <1>5 DEF DeleteProcess, ProcessOK
<1>6. CASE UpdateProcess  BY <1>1, <1>6, Written
<1> QED  BY <1>2, <1>3, <1>4, <1>5, <1>6, ProcessFrame

\* The steps that have to do with outcomes.
LEMMA OutcomeFrame ==
    ASSUME TypeInv, [Next]_vars
    PROVE  \/ \E r \in rows, s \in Ends : RunEnds(r, s)
           \/ \E h \in hooks : Evaluate(h)
           \/ \E p \in Procs : DeleteProcess(p)
           \/ /\ outcome' = outcome /\ hooks' \subseteq hooks
              /\ \A r \in rows' : r \in rows \/ r.origin # "dependency"
<1> USE DEF world, tables, scores, program, history
<1>1. ASSUME ~(\E h \in hooks : Evaluate(h)), NEW r \in rows', r \notin rows
      PROVE  r.origin # "dependency"
  BY <1>1, NewRows DEF Row, PassOrigin
<1>2. PassStep => outcome' = outcome /\ hooks' = hooks
  BY DEF PassStep, StartRecovery, RecoveryFails, EndRecovery, StartPlanner, Plan, EndPlan,
     NextToRecover, NextToPlan, SlotStep, EndSlots
<1>3. ApiStep => \/ outcome' = outcome /\ hooks' = hooks
                 \/ \E p \in Procs : DeleteProcess(p)
  BY DEF ApiStep, UpdateWorkspaceState, CreateProcess, SetProcessEnabled, TriggerProcess, GetProcess, UpdateProcess
<1>4. OrchestraStep => outcome' = outcome /\ hooks' = hooks  BY OrchestraFrame
<1>5. Tick \/ Crash \/ UNCHANGED vars => outcome' = outcome /\ hooks' \subseteq hooks
  BY DEF Tick, Crash, vars
<1> QED  BY <1>1, <1>2, <1>3, <1>4, <1>5 DEF Next

\* A dependent run keeps its reason.
LEMMA DependStep == ASSUME TypeInv, DependInv, [Next]_vars PROVE DependInv'
<1>1. RunsOK /\ ProcessOK  BY TypeParts
<1> USE DEF DependInv
<1>2. ASSUME NEW r \in rows, NEW s \in Ends, RunEnds(r, s)
      PROVE  DependInv'
  <2>1. r \notin DOMAIN outcome /\ rows' = rows  BY <1>2 DEF RunEnds
  <2>2. DOMAIN outcome' = DOMAIN outcome \cup {r}
        /\ outcome'[r] = s /\ \A q \in DOMAIN outcome : outcome'[q] = outcome[q]
    BY <1>2, <2>1 DEF RunEnds
  <2> DEFINE g == [row |-> r, seen |-> IF s = "skipped" THEN "pending" ELSE s]
  <2>3. hooks' = hooks \cup {g}  BY <1>2 DEF RunEnds
  <2>4. g.row = r /\ g.seen # "pending" => g.seen = s  OBVIOUS
  <2> HIDE DEF g
  <2>5. \A h \in hooks' : /\ h.row \in DOMAIN outcome'
                          /\ h.seen # "pending" => outcome'[h.row] = h.seen
    BY <2>2, <2>3, <2>4 DEF g
  <2>6. process' = process  BY <1>2 DEF RunEnds
  <2> QED  BY <2>1, <2>2, <2>5, <2>6
<1>3. ASSUME NEW h \in hooks, Evaluate(h) PROVE DependInv'
  <2>1. rows' = rows \cup createDependentRuns(h) /\ hooks' \subseteq hooks
        /\ process' = process /\ outcome' = outcome
    BY <1>3 DEF Evaluate
  <2>2. ASSUME NEW r \in createDependentRuns(h)
        PROVE  /\ r.parent.proc \in Procs /\ r.parent \in DOMAIN outcome
               /\ outcome[r.parent] # "skipped"
               /\ DependencyType[r.proc] = "after_success" => outcome[r.parent] = "completed"
    <3>1. r.parent = h.row /\ Triggers(r.proc, h.seen)  BY Dependent
    <3>2. h.seen \in {"completed", "failed", "killed"}
      BY <1>1, <3>1 DEF RunsOK, Triggers, IsFinalTerminal
    <3>3. h.row \in DOMAIN outcome /\ outcome[h.row] = h.seen /\ h.row.proc \in Procs
      BY <1>1, <3>2 DEF RunsOK
    <3> QED  BY <3>1, <3>2, <3>3 DEF Triggers
  <2> QED  BY <2>1, <2>2
<1>4. ASSUME NEW p \in Procs, DeleteProcess(p) PROVE DependInv'
  <2>1. rows' = {r \in rows : r.proc # p} /\ hooks' = {h \in hooks : h.row.proc # p}
        /\ DOMAIN outcome' = {q \in DOMAIN outcome : q.proc # p}
        /\ \A q \in DOMAIN outcome' : outcome'[q] = outcome[q]
    BY <1>1, <1>4 DEF DeleteProcess, RunsOf, RunsOK
  <2>2. process'[p].life = "deleted"  BY <1>1, <1>4 DEF DeleteProcess, ProcessOK
  <2>3. \A q \in Procs : process[q].life = "deleted" => process'[q].life = "deleted"
    BY StaysDeleted
  <2> QED  BY <2>1, <2>2, <2>3
<1>5. CASE /\ outcome' = outcome /\ hooks' \subseteq hooks
           /\ \A r \in rows' : r \in rows \/ r.origin # "dependency"
  <2>1. \A q \in Procs : process[q].life = "deleted" => process'[q].life = "deleted"
    BY StaysDeleted
  <2> QED  BY <1>5, <2>1
<1> QED  BY <1>2, <1>3, <1>4, <1>5, OutcomeFrame

\* A dependent run has a parent that was executed and ended or was killed, and completed where
\* the dependent asks for success, through any interleaving of ends, hooks, crashes and
\* deletions; a skipped parent triggers nothing.
THEOREM DependentsHaveReason == Spec => []DependentsBacked
<1>1. Init => DependInv  BY DEF Init, DependInv
<1>2. TypeInv /\ DependInv /\ [Next]_vars => DependInv'  BY DependStep
<1>3. DependInv => DependentsBacked  BY DEF DependInv, DependentsBacked, There
<1> QED  BY <1>1, <1>2, <1>3, TypeAlways, PTL DEF Spec

-----------------------------------------------------------------------------
(* Planner and recovery implement the ledger                               *)

\* Only the passes themselves and a crash change what a pass is doing.
LEMMA PassFrame ==
    ASSUME [Next]_vars
    PROVE  \/ PassStep
           \/ Crash
           \/ UNCHANGED <<pass, server, due, unseen>>
<1> USE DEF world, tables, scores, program, history
<1>1. ApiStep => UNCHANGED <<pass, server, due, unseen>>
  BY DEF ApiStep, UpdateWorkspaceState, CreateProcess, SetProcessEnabled, TriggerProcess, GetProcess, UpdateProcess,
     DeleteProcess
<1>2. OrchestraStep => UNCHANGED <<pass, server, due, unseen>>  BY OrchestraFrame
<1> QED  BY <1>1, <1>2 DEF Next, RunEnds, Evaluate, Tick, vars

\* Rows go with their process only.
LEMMA RowsStay ==
    ASSUME TypeInv, [Next]_vars, ~(\E p \in Procs : DeleteProcess(p))
    PROVE  rows \subseteq rows'
<1> USE DEF world, tables, scores, program, history
<1>1. PassStep => rows \subseteq rows'
  BY DEF PassStep, StartRecovery, RecoveryFails, EndRecovery, StartPlanner, Plan, EndPlan,
     NextToRecover, NextToPlan, SlotStep, EndSlots, CreateRun
<1>2. ApiStep => rows \subseteq rows'
  BY DEF ApiStep, UpdateWorkspaceState, CreateProcess, SetProcessEnabled, TriggerProcess, GetProcess, UpdateProcess,
     CreateRun
<1>3. OrchestraStep => rows \subseteq rows'  BY OrchestraFrame
<1> QED  BY <1>1, <1>2, <1>3 DEF Next, RunEnds, Evaluate, Tick, Crash, vars

\* Unless the server is up, rows come from the recovery only.
LEMMA RecoveryRowsOnly ==
    ASSUME TypeInv, [Next]_vars, server # "up", NEW r \in rows', r \notin rows
    PROVE  \E t \in pass.slots : SlotStep(t) /\ r = Row(pass.proc, t, PassOrigin)
<1>1. hooks = {}  BY TypeParts DEF Control
<1>2. \A p \in Procs : ~TriggerProcess(p)  BY DEF TriggerProcess, About, Request
<1> QED  BY <1>1, <1>2, NewRows

\* The clock does not go back.
LEMMA ClockStep == ASSUME TypeInv, [Next]_vars PROVE now' = now \/ (Tick /\ now' = now + 1)
<1> USE DEF world, tables, scores, program, history
<1>1. PassStep => now' = now
  BY DEF PassStep, StartRecovery, RecoveryFails, EndRecovery, StartPlanner, Plan, EndPlan,
     NextToRecover, NextToPlan, SlotStep, EndSlots
<1>2. ApiStep => now' = now
  BY DEF ApiStep, UpdateWorkspaceState, CreateProcess, SetProcessEnabled, TriggerProcess, GetProcess, UpdateProcess,
     DeleteProcess
<1>3. OrchestraStep => now' = now  BY OrchestraFrame
<1> QED  BY <1>1, <1>2, <1>3 DEF Next, RunEnds, Evaluate, Tick, Crash, vars

\* The last run of a process is its latest.
LEMMA LastRun ==
    ASSUME RunsOK, NEW p \in Procs, RunsOf(p) # {}
    PROVE  /\ GetLastRunByProcess(p) \in Nat
           /\ \E r \in RunsOf(p) : r.at = GetLastRunByProcess(p)
           /\ \A r \in RunsOf(p) : r.at <= GetLastRunByProcess(p)
<1> DEFINE S == {r.at : r \in RunsOf(p)}
<1>1. \A x \in S : x \in Nat /\ x <= MaxTime + Horizon
  BY ScheduleAssumption DEF RunsOK, RunsOf, Times
<1>2. S # {} /\ S \in SUBSET Nat  BY <1>1
<1>3. MaxTime + Horizon \in Nat  BY ScheduleAssumption
<1>4. Max(S) \in S /\ \A y \in S : y <= Max(S)
  <2> HIDE DEF S
  <2> QED  BY <1>1, <1>2, <1>3, Greatest
<1>5. \A r \in RunsOf(p) : r.at \in S  OBVIOUS
<1>6. \E r \in RunsOf(p) : r.at = Max(S)  BY <1>4
<1> QED  BY <1>2, <1>4, <1>5, <1>6 DEF GetLastRunByProcess

\* A step keeps recovery in the past and the planner in the future.
LEMMA RowsStep == ASSUME TypeInv, RowsInv, [Next]_vars PROVE RowsInv'
<1>1. RunsOK /\ PassOK /\ Control /\ ClockOK /\ RunsOK' /\ PassOK' /\ TypeInv'
  BY TypeParts, TypePartsNext, TypeStep
<1>2. now \in Nat /\ now' \in Nat /\ now <= now' /\ pass.now \in Nat /\ pass.now <= now
  BY <1>1, ClockStep DEF ClockOK, Control, PassOK, Passes
<1>3. ASSUME NEW r \in rows', r \notin rows
      PROVE  /\ r.origin \in Scheduled => r = Row(r.proc, r.at, r.origin)
             /\ r.origin = "recovery" => r.at < now
  <2>1. CASE \E t \in pass.slots : SlotStep(t) /\ r = Row(pass.proc, t, PassOrigin)
    <3>1. PICK t \in pass.slots : SlotStep(t) /\ r = Row(pass.proc, t, PassOrigin)  BY <2>1
    <3>2. r.proc = pass.proc /\ r.at = t /\ r.origin = PassOrigin  BY <3>1 DEF Row
    <3>3. t \in Nat  BY <1>1 DEF PassOK, Passes
    <3>4. r.origin = "recovery" => t < pass.now  BY <3>1, <3>2 DEF SlotStep, InWindow, PassOrigin
    <3>5. r.origin \in Scheduled => r = Row(r.proc, r.at, r.origin)  BY <3>1, <3>2
    <3>6. r.origin = "recovery" => r.at < now  BY <1>2, <3>2, <3>3, <3>4
    <3> QED  BY <3>5, <3>6
  <2>2. CASE \E p \in Procs : TriggerProcess(p) /\ r = Row(p, now, "manual")
    BY <2>2 DEF Row, Scheduled
  <2>3. CASE \E h \in hooks : Evaluate(h) /\ r \in createDependentRuns(h)
    BY <2>3, Dependent DEF Scheduled
  <2> QED  BY <1>3, <2>1, <2>2, <2>3, NewRows
<1>4. ASSUME NEW r \in rows'
      PROVE  /\ r.origin \in {"cron", "recovery", "manual", "dependency"}
             /\ r.origin \in Scheduled => r = Row(r.proc, r.at, r.origin)
             /\ r.origin = "recovery" => r.at < now'
  <2>1. r.at \in Nat  BY <1>1, ScheduleAssumption DEF RunsOK, Times
  <2>2. CASE r \in rows  BY <1>2, <2>1, <2>2 DEF RowsInv
  <2>3. CASE r \notin rows  BY <1>2, <1>3, <2>1, <2>3, NewOrigins
  <2> QED  BY <2>2, <2>3
<1> DEFINE A == pass'.kind = "plan" /\ pass'.proc # NoOne => pass'.from >= pass'.now
           B == pass'.kind = "recovery" => \A r \in rows' : r.proc = pass'.proc => r.at < pass'.from
<1>5. \A r \in rows' : r.proc # NoOne  BY <1>1, ScheduleAssumption DEF RunsOK
<1>6. pass'.kind = "none" \/ pass'.proc = NoOne => A /\ B  BY <1>5
<1> SUFFICES A /\ B  BY <1>4 DEF RowsInv, RunsOf, Scheduled, Row
<1>7. CASE UNCHANGED <<pass, server, due, unseen>>
  <2>1. A  BY <1>7 DEF RowsInv
  <2>2. B
    <3> SUFFICES ASSUME pass.kind = "recovery", NEW r \in rows', r.proc = pass.proc
                 PROVE  r.at < pass.from
      BY <1>7
    <3>1. CASE r \in rows  BY <3>1 DEF RowsInv, RunsOf
    <3>2. CASE r \notin rows
      <4>1. server # "up"  BY <1>1 DEF Control
      <4>2. PICK t \in pass.slots : SlotStep(t)  BY <3>2, <4>1, RecoveryRowsOnly
      <4>3. t \in Nat /\ pass'.from = t + 1 /\ t >= pass.from /\ pass.from \in Nat
        BY <1>1, <4>2, SlotPass DEF PassOK, Passes
      <4> QED  BY <1>7, <4>3
    <3> QED  BY <3>1, <3>2
  <2> QED  BY <2>1, <2>2
<1>8. CASE Crash
  <2>1. pass'.kind = "none"  BY <1>8 DEF Crash, NoPass
  <2> QED  BY <1>6, <2>1
<1>9. CASE PassStep
  <2>1. CASE StartRecovery  BY <1>6, <2>1, BeginPass DEF StartRecovery
  <2>2. CASE StartPlanner  BY <1>6, <2>2, BeginPass DEF StartPlanner
  <2>3. CASE Plan  BY <1>6, <2>3, BeginPass DEF Plan
  <2>4. CASE RecoveryFails \/ EndRecovery \/ EndPlan
    BY <1>1, <1>6, <2>4, RestPass DEF RecoveryFails, EndRecovery, EndPlan
  <2>5. CASE EndSlots  BY <1>6, <2>5, LeavePass
  <2>6. CASE \E e \in pass.todo : NextToRecover(e) \/ NextToPlan(e)
    <3>1. PICK e \in pass.todo : NextToRecover(e) \/ NextToPlan(e)  BY <2>6
    <3>2. rows' = rows  BY <3>1 DEF NextToRecover, NextToPlan, tables
    <3>3. /\ pass'.kind = pass.kind /\ pass'.now = pass.now /\ e \in Entries
          /\ \/ pass'.proc = NoOne
             \/ /\ pass'.proc = e.proc
                /\ pass.kind = "plan" => pass'.from = pass.now
                /\ pass.kind = "recovery" =>
                     RunsOf(e.proc) # {} /\ pass'.from = GetLastRunByProcess(e.proc) + 1
      BY <3>1, VisitPass
    <3>4. CASE pass'.proc = NoOne  BY <1>6, <3>4
    <3>5. CASE pass'.proc # NoOne
      <4>1. A  BY <1>2, <3>3, <3>5
      <4>2. B
        <5> SUFFICES ASSUME pass.kind = "recovery", NEW r \in rows, r.proc = e.proc
                     PROVE  r.at < pass'.from
          BY <3>2, <3>3, <3>5
        <5>1. e.proc \in Procs /\ r \in RunsOf(e.proc) /\ r.at \in Nat
          BY <1>1, <3>3, ScheduleAssumption DEF Entries, RunsOf, RunsOK, Times
        <5>2. GetLastRunByProcess(e.proc) \in Nat /\ r.at <= GetLastRunByProcess(e.proc)
          BY <1>1, <5>1, LastRun
        <5> QED  BY <3>3, <3>5, <5>1, <5>2
      <4> QED  BY <4>1, <4>2
    <3> QED  BY <3>4, <3>5
  <2>7. CASE \E t \in pass.slots : SlotStep(t)
    <3>1. PICK t \in pass.slots : SlotStep(t)  BY <2>7
    <3> DEFINE new == Row(pass.proc, t, PassOrigin)
    <3>2. /\ pass'.kind = pass.kind /\ pass'.now = pass.now /\ pass'.proc = pass.proc
          /\ pass'.from = t + 1 /\ t >= pass.from /\ t \in Nat /\ pass.from \in Nat
          /\ \A r \in rows' : r \in rows \/ r = new
      BY <1>1, <3>1, SlotPass DEF PassOK, Passes
    <3>3. new.at = t  BY DEF Row
    <3> HIDE DEF new
    <3>4. A  BY <1>2, <3>2 DEF RowsInv
    <3>5. B
      <4> SUFFICES ASSUME pass.kind = "recovery", NEW r \in rows', r.proc = pass.proc
                   PROVE  r.at < t + 1
        BY <3>2
      <4>1. CASE r = new  BY <3>2, <3>3, <4>1
      <4>2. CASE r \in rows
        <5>1. r.at < pass.from /\ r.at \in Nat
          BY <1>1, <4>2, ScheduleAssumption DEF RowsInv, RunsOf, RunsOK, Times
        <5> QED  BY <3>2, <5>1
      <4> QED  BY <3>2, <4>1, <4>2
    <3> QED  BY <3>4, <3>5
  <2> QED  BY <1>9, <2>1, <2>2, <2>3, <2>4, <2>5, <2>6, <2>7 DEF PassStep
<1> QED  BY <1>7, <1>8, <1>9, PassFrame

\* The rows stay as they should.
LEMMA RowsAlways == Spec => [](TypeInv /\ RowsInv)
<1>1. Init => RowsInv  BY DEF Init, RowsInv, NoPass
<1>2. TypeInv /\ RowsInv /\ [Next]_vars => RowsInv'  BY RowsStep
<1> QED  BY <1>1, <1>2, TypeAlways, PTL DEF Spec

\* The slots of the ledger, as they stand in the rows.
ServedSlots == {<<r.proc, r.at, r.origin>> : r \in {q \in rows : q.origin \in Scheduled}}

\* A slot is served when its row is there.
LEMMA ServedRow ==
    ASSUME RowsInv, NEW p, NEW t, NEW o \in Scheduled
    PROVE  <<p, t, o>> \in ServedSlots <=> Row(p, t, o) \in rows
<1>1. Row(p, t, o).proc = p /\ Row(p, t, o).at = t /\ Row(p, t, o).origin = o  BY DEF Row
<1>2. ASSUME <<p, t, o>> \in ServedSlots PROVE Row(p, t, o) \in rows
  <2>1. PICK r \in rows : r.origin \in Scheduled /\ <<p, t, o>> = <<r.proc, r.at, r.origin>>
    BY <1>2 DEF ServedSlots
  <2>2. r = Row(r.proc, r.at, r.origin)  BY <2>1 DEF RowsInv
  <2> QED  BY <2>1, <2>2
<1>3. ASSUME Row(p, t, o) \in rows PROVE <<p, t, o>> \in ServedSlots
  BY <1>1, <1>3 DEF ServedSlots
<1> QED  BY <1>2, <1>3

\* A row that recovery or planner create is the only one of its slot: planned slots are not
\* in the past, and recovery begins after the last row.
LEMMA SlotIsFree ==
    ASSUME TypeInv, RowsInv, NEW t \in pass.slots, SlotStep(t),
           Row(pass.proc, t, PassOrigin) \notin rows
    PROVE  \A g \in Scheduled : <<pass.proc, t, g>> \notin ServedSlots
<1>1. RunsOK /\ PassOK /\ Control /\ ClockOK  BY TypeParts
<1>2. t >= pass.from /\ pass.proc # NoOne /\ pass.kind \in {"plan", "recovery"} /\ t \in Nat
      /\ pass.from \in Nat /\ pass.now \in Nat /\ now \in Nat
  BY <1>1, SlotPass, ScheduleAssumption DEF PassOK, Passes, ClockOK
<1>3. SUFFICES ASSUME NEW g \in Scheduled, Row(pass.proc, t, g) \in rows PROVE FALSE
  BY ServedRow
<1> DEFINE r == Row(pass.proc, t, g)
<1>4. r.proc = pass.proc /\ r.at = t /\ r.origin = g  BY DEF Row
<1>5. CASE pass.kind = "recovery"
  <2>1. r.at < pass.from  BY <1>3, <1>4, <1>5 DEF RowsInv, RunsOf
  <2> QED  BY <1>2, <1>4, <2>1
<1>6. CASE pass.kind = "plan"
  <2>1. g = "recovery"  BY <1>3, <1>6 DEF PassOrigin, Scheduled
  <2>2. t < now  BY <1>3, <1>4, <2>1 DEF RowsInv
  <2>3. pass.now = now /\ pass.from >= pass.now  BY <1>1, <1>2, <1>6 DEF Control, RowsInv
  <2> QED  BY <1>2, <2>2, <2>3
<1> QED  BY <1>2, <1>5, <1>6

\* Every step is a step of the ledger, or none.
LEMMA LedgerStep ==
    ASSUME TypeInv, RowsInv, [Next]_vars
    PROVE  \/ now' = now + 1 /\ ServedSlots' = ServedSlots
           \/ /\ now' = now
              /\ \E s \in ServedSlots' \ ServedSlots :
                   /\ s \in Procs \X (0 .. now + Horizon) \X Scheduled
                   /\ ~(\E g \in Scheduled : <<s[1], s[2], g>> \in ServedSlots)
                   /\ ServedSlots' = ServedSlots \cup {s}
           \/ \E p \in Procs : now' = now /\ ServedSlots' = {s \in ServedSlots : s[1] # p}
           \/ now' = now /\ ServedSlots' = ServedSlots
<1>1. RunsOK /\ PassOK /\ Control /\ ClockOK  BY TypeParts
<1>2. RowsInv'  BY RowsStep
<1>3. CASE \E p \in Procs : DeleteProcess(p)
  <2>1. PICK p \in Procs : DeleteProcess(p)  BY <1>3
  <2>2. now' = now /\ rows' = {r \in rows : r.proc # p}  BY <2>1 DEF DeleteProcess
  <2>3. ServedSlots' = {s \in ServedSlots : s[1] # p}
    BY <2>2 DEF ServedSlots, Scheduled
  <2> QED  BY <2>2, <2>3
<1>4. CASE \E t \in pass.slots : SlotStep(t)
  <2>1. PICK t \in pass.slots : SlotStep(t)  BY <1>4
  <2> DEFINE r == Row(pass.proc, t, PassOrigin)
             s == <<pass.proc, t, PassOrigin>>
  <2>2. now' = now  BY <2>1 DEF SlotStep, world
  <2>3. CASE rows' = rows  BY <2>2, <2>3 DEF ServedSlots, Scheduled
  <2>4. CASE Insertable(r) /\ rows' = rows \cup {r}
    <3>1. r \notin rows /\ r.proc = pass.proc /\ r.at = t /\ r.origin = PassOrigin
      BY <2>4 DEF Insertable, Row
    <3>2. PassOrigin \in Scheduled  BY DEF PassOrigin, Scheduled
    <3>3. \A g \in Scheduled : <<pass.proc, t, g>> \notin ServedSlots
      BY <2>1, <3>1, SlotIsFree
    <3>4. ServedSlots' = ServedSlots \cup {s}
      <4>1. ServedSlots' = {<<q.proc, q.at, q.origin>> : q \in {x \in rows \cup {r} : x.origin \in Scheduled}}
        BY <2>4 DEF ServedSlots, Scheduled
      <4> HIDE DEF r
      <4> QED  BY <3>1, <3>2, <4>1 DEF ServedSlots
    <3>5. pass.proc \in Procs /\ t \in 0 .. now + Horizon
      <4>1. pass.proc \in Procs /\ InWindow(t) /\ pass.kind \in {"plan", "recovery"} /\ t \in Nat
        BY <1>1, <2>1, SlotPass DEF SlotStep, PassOK, Passes
      <4>2. pass.now \in Nat /\ now \in Nat /\ pass.now <= now
        BY <1>1 DEF PassOK, Passes, ClockOK, Control
      <4> QED  BY <4>1, <4>2, ScheduleAssumption DEF InWindow
    <3>6. s[1] = pass.proc /\ s[2] = t /\ s \in Procs \X (0 .. now + Horizon) \X Scheduled
      BY <3>2, <3>5
    <3>7. s \notin ServedSlots  BY <3>2, <3>3
    <3> HIDE DEF s, r
    <3>8. s \in ServedSlots' \ ServedSlots  BY <3>4, <3>7
    <3>9. ~(\E g \in Scheduled : <<s[1], s[2], g>> \in ServedSlots)  BY <3>3, <3>6
    <3> QED  BY <2>2, <3>4, <3>6, <3>8, <3>9
  <2> QED  BY <2>1, <2>3, <2>4, SlotPass
<1>5. CASE ~(\E p \in Procs : DeleteProcess(p)) /\ ~(\E t \in pass.slots : SlotStep(t))
  <2>1. \A r \in rows' : r \in rows \/ r.origin \notin Scheduled
    <3>1. ASSUME NEW r \in rows', r \notin rows PROVE r.origin \notin Scheduled
      BY <1>5, <3>1, NewRows, Dependent DEF Row, Scheduled
    <3> QED  BY <3>1
  <2>2. rows \subseteq rows'  BY <1>5, RowsStay
  <2>3. ServedSlots' = ServedSlots  BY <2>1, <2>2 DEF ServedSlots, Scheduled
  <2> QED  BY <2>3, ClockStep
<1> QED  BY <1>3, <1>4, <1>5

\* Planner and recovery together give a slot at most one run, within the horizon, and never
\* one again: they implement SlotLedger, for any schedules, crashes and requests.
THEOREM ScheduleRefinesLedger == Spec => SlotsServedOnce
<1>1. Init => Ledger!Init
  BY DEF Init, Ledger!Init
<1>2. TypeInv /\ RowsInv /\ [Next]_vars => [Ledger!Next]_(Ledger!ledger)
  <2> SUFFICES ASSUME TypeInv, RowsInv, [Next]_vars PROVE [Ledger!Next]_(Ledger!ledger)
    OBVIOUS
  <2> QED
    BY LedgerStep DEF Ledger!Next, Ledger!Pass, Ledger!Serve, Ledger!Taken, Ledger!Forget,
       Ledger!ledger, ServedSlots
<1> QED  BY <1>1, <1>2, RowsAlways, PTL DEF Spec, SlotsServedOnce, Ledger!Spec

-----------------------------------------------------------------------------
(* The cap of the recovery                                                 *)

\* One start-up more.
LEMMA OneMore ==
    ASSUME NEW m \in Nat, NEW c \in Nat
    PROVE  m * c \in Nat /\ m * (c + 1) = m * c + m
  OBVIOUS

\* Only the crash counts as the beginning of a start-up.
LEMMA CrashFrame == ASSUME [Next]_vars PROVE Crash \/ crashes' = crashes
<1> USE DEF world, tables, scores, program, history
<1>1. PassStep => crashes' = crashes
  BY DEF PassStep, StartRecovery, RecoveryFails, EndRecovery, StartPlanner, Plan, EndPlan,
     NextToRecover, NextToPlan, SlotStep, EndSlots
<1>2. ApiStep => crashes' = crashes
  BY DEF ApiStep, UpdateWorkspaceState, CreateProcess, SetProcessEnabled, TriggerProcess, GetProcess, UpdateProcess,
     DeleteProcess
<1>3. OrchestraStep => crashes' = crashes  BY OrchestraFrame
<1> QED  BY <1>1, <1>2, <1>3 DEF Next, RunEnds, Evaluate, Tick, vars

\* The recovery rows of a process grow by a step of the recovery only.
LEMMA RecoveryRowsStep ==
    ASSUME TypeInv, [Next]_vars, NEW p \in Procs
    PROVE  \/ RecoveryRows(p)' = RecoveryRows(p)
           \/ \E q \in Procs : DeleteProcess(q) /\ RecoveryRows(p)' \subseteq RecoveryRows(p)
           \/ \E t \in pass.slots :
                /\ SlotStep(t) /\ pass.kind = "recovery" /\ pass.proc = p
                /\ Row(p, t, "recovery") \notin rows
                /\ rows' = rows \cup {Row(p, t, "recovery")}
                /\ RecoveryRows(p)' = RecoveryRows(p) \cup {Row(p, t, "recovery")}
<1>1. CASE \E q \in Procs : DeleteProcess(q)
  BY <1>1 DEF DeleteProcess, RecoveryRows
<1>2. CASE \E t \in pass.slots : SlotStep(t)
  <2>1. PICK t \in pass.slots : SlotStep(t)  BY <1>2
  <2> DEFINE r == Row(pass.proc, t, PassOrigin)
  <2>2. CASE rows' = rows  BY <2>2 DEF RecoveryRows
  <2>3. CASE Insertable(r) /\ rows' = rows \cup {r}
    <3>1. r \notin rows /\ r.proc = pass.proc /\ r.origin = PassOrigin
      BY <2>3 DEF Insertable, Row
    <3>2. CASE pass.kind = "recovery" /\ pass.proc = p
      <4>1. r = Row(p, t, "recovery") /\ r.proc = p /\ r.origin = "recovery"
        BY <3>1, <3>2 DEF PassOrigin
      <4> HIDE DEF r
      <4>2. RecoveryRows(p)' = RecoveryRows(p) \cup {r}
        BY <2>3, <4>1 DEF RecoveryRows
      <4> QED  BY <2>1, <2>3, <3>1, <3>2, <4>1, <4>2
    <3>3. CASE ~(pass.kind = "recovery" /\ pass.proc = p)
      <4>1. ~(r.proc = p /\ r.origin = "recovery")
        <5>1. pass.kind \in {"plan", "recovery"}  BY <2>1, SlotPass
        <5> QED  BY <3>1, <3>3, <5>1 DEF PassOrigin
      <4> HIDE DEF r
      <4> QED  BY <2>3, <4>1 DEF RecoveryRows
    <3> QED  BY <3>2, <3>3
  <2> QED  BY <2>1, <2>2, <2>3, SlotPass
<1>3. CASE ~(\E q \in Procs : DeleteProcess(q)) /\ ~(\E t \in pass.slots : SlotStep(t))
  <2>1. ASSUME NEW r \in rows', r \notin rows PROVE r.origin # "recovery"
    BY <1>3, <2>1, NewRows, Dependent DEF Row
  <2>2. rows \subseteq rows'  BY <1>3, RowsStay
  <2> QED  BY <2>1, <2>2 DEF RecoveryRows
<1> QED  BY <1>1, <1>2, <1>3

\* A step keeps the cap.
LEMMA CapStep ==
    ASSUME TypeInv, CapInv, [Next]_vars PROVE CapInv'
<1> SUFFICES ASSUME NEW p \in Procs PROVE CapOf(p)'  BY DEF CapInv
<1>1. RunsOK /\ PassOK /\ Control /\ ClockOK /\ CapOf(p)  BY TypeParts DEF CapInv
<1>2. /\ Budget \in Nat /\ MaxRecoverySlots \in Nat /\ p # NoOne
      /\ pass.created \in Nat
      /\ MaxRecoverySlots * (crashes + 1) = Budget + MaxRecoverySlots
  BY <1>1, OneMore, ScheduleAssumption DEF Budget, ClockOK, PassOK, Passes
<1>3. IsFiniteSet(RecoveryRows(p)) /\ Recovered(p) \in Nat
  BY <1>1, FS_CardinalityType DEF CapOf, Recovered
<1>4. CASE \E t \in pass.slots :
             /\ SlotStep(t) /\ pass.kind = "recovery" /\ pass.proc = p
             /\ Row(p, t, "recovery") \notin rows
             /\ rows' = rows \cup {Row(p, t, "recovery")}
             /\ RecoveryRows(p)' = RecoveryRows(p) \cup {Row(p, t, "recovery")}
  <2>1. PICK t \in pass.slots :
          /\ SlotStep(t) /\ pass.kind = "recovery" /\ pass.proc = p
          /\ Row(p, t, "recovery") \notin rows
          /\ rows' = rows \cup {Row(p, t, "recovery")}
          /\ RecoveryRows(p)' = RecoveryRows(p) \cup {Row(p, t, "recovery")}
    BY <1>4
  <2> DEFINE r == Row(p, t, "recovery")
  <2>2. r \notin RecoveryRows(p)  BY <2>1 DEF RecoveryRows
  <2>3. IsFiniteSet(RecoveryRows(p))' /\ Recovered(p)' = Recovered(p) + 1
    <3> HIDE DEF r
    <3>1. RecoveryRows(p)' = RecoveryRows(p) \cup {r}  BY <2>1 DEF r
    <3> QED  BY <1>3, <2>2, <3>1, FS_AddElement DEF Recovered
  <2>4. /\ pass'.kind = "recovery" /\ pass'.proc = p /\ pass'.todo = pass.todo
        /\ pass'.created = pass.created + 1
    BY <2>1, SlotPass DEF PassOrigin
  <2>5. pass.created < MaxRecoverySlots  BY <2>1 DEF SlotStep, InWindow
  <2>6. crashes' = crashes /\ server' = server /\ server # "down"
    BY <1>1, <2>1 DEF SlotStep, world, Control
  <2>7. ~Waiting(p)'  BY <1>1, <2>1, <2>4 DEF Waiting, Control
  <2>8. /\ pass.created <= MaxRecoverySlots /\ pass.created <= Recovered(p)
        /\ Recovered(p) + MaxRecoverySlots <= Budget + pass.created
    BY <1>1, <2>1 DEF CapOf
  <2>9. Budget' = Budget  BY <2>6 DEF Budget
  <2> QED  BY <1>2, <1>3, <2>3, <2>4, <2>5, <2>6, <2>7, <2>8, <2>9 DEF CapOf
<1>5. CASE \E q \in Procs : DeleteProcess(q) /\ RecoveryRows(p)' \subseteq RecoveryRows(p)
  <2>1. server = "up" /\ pass.kind # "recovery" /\ UNCHANGED <<server, pass, crashes>>
    BY <1>1, <1>5 DEF DeleteProcess, About, Request, Control
  <2>2. IsFiniteSet(RecoveryRows(p))' /\ Recovered(p)' \in Nat /\ Recovered(p)' <= Recovered(p)
    BY <1>3, <1>5, FS_Subset, FS_CardinalityType DEF Recovered
  <2>3. Budget' = Budget  BY <2>1 DEF Budget
  <2> QED  BY <1>1, <1>2, <1>3, <2>1, <2>2, <2>3 DEF CapOf
<1>6. CASE RecoveryRows(p)' = RecoveryRows(p)
  <2>1. IsFiniteSet(RecoveryRows(p))' /\ Recovered(p)' = Recovered(p)
    BY <1>3, <1>6 DEF Recovered
  <2>2. CASE Crash
    <3>1. crashes' = crashes + 1 /\ pass'.kind = "none"  BY <2>2 DEF Crash, NoPass
    <3>2. Budget' = Budget + MaxRecoverySlots  BY <1>2, <3>1 DEF Budget
    <3>3. Recovered(p) <= Budget  BY <1>1 DEF CapOf
    <3> QED  BY <1>2, <1>3, <2>1, <3>1, <3>2, <3>3 DEF CapOf
  <2>3. CASE UNCHANGED <<pass, server, due, unseen>> /\ ~Crash
    <3>1. crashes' = crashes  BY <2>3, CrashFrame
    <3>2. Budget' = Budget  BY <3>1 DEF Budget
    <3>3. Waiting(p)' <=> Waiting(p)  BY <2>3 DEF Waiting
    <3> QED  BY <1>1, <2>1, <2>3, <3>2, <3>3 DEF CapOf
  <2>4. CASE PassStep
    <3>1. crashes' = crashes /\ server' # "down"
      <4>1. server = "down" => pass.todo = {} /\ pass.proc = NoOne /\ pass.kind = "none"
        BY <1>1 DEF Control, PassOK, Passes
      <4> QED  BY <2>4, <4>1 DEF PassStep, StartRecovery, RecoveryFails, EndRecovery, StartPlanner,
                  Plan, EndPlan, NextToRecover, NextToPlan, SlotStep, NextSlot, EndSlots, world
    <3>2. Budget' = Budget /\ Recovered(p) <= Budget  BY <1>1, <3>1 DEF Budget, CapOf
    <3>3. CASE pass'.kind # "recovery"
      BY <2>1, <3>1, <3>2, <3>3 DEF CapOf
    <3>4. CASE StartRecovery
      <4>1. pass'.proc = NoOne /\ server = "down"  BY <3>4, BeginPass DEF StartRecovery
      <4> QED  BY <1>1, <1>2, <2>1, <3>1, <3>2, <4>1 DEF CapOf
    <3>5. CASE \E e \in pass.todo : NextToRecover(e) \/ NextToPlan(e)
      <4>1. PICK e \in pass.todo : NextToRecover(e) \/ NextToPlan(e)  BY <3>5
      <4>2. /\ pass'.kind = pass.kind /\ pass'.todo = pass.todo \ {e}
            /\ pass'.proc = NoOne \/ (pass'.proc = e.proc /\ pass'.created = 0)
        BY <4>1, VisitPass
      <4>3. Waiting(p)' => Waiting(p)  BY <4>2 DEF Waiting
      <4>4. pass'.proc = p => Waiting(p) /\ pass'.created = 0  BY <1>2, <4>2 DEF Waiting
      <4> QED  BY <1>1, <1>2, <1>3, <2>1, <3>1, <3>2, <4>2, <4>3, <4>4 DEF CapOf
    <3>6. CASE EndSlots
      <4>1. pass'.kind = pass.kind /\ pass'.todo = pass.todo /\ pass'.proc = NoOne
        BY <3>6, LeavePass
      <4>2. Waiting(p)' <=> Waiting(p)  BY <4>1 DEF Waiting
      <4> QED  BY <1>1, <1>2, <2>1, <3>1, <3>2, <4>1, <4>2 DEF CapOf
    <3>7. CASE \E t \in pass.slots : SlotStep(t)
      <4>1. PICK t \in pass.slots : SlotStep(t)  BY <3>7
      <4> DEFINE r == Row(pass.proc, t, PassOrigin)
      <4>2. /\ pass'.kind = pass.kind /\ pass'.todo = pass.todo /\ pass'.proc = pass.proc
            /\ \/ pass'.created = pass.created
               \/ r \in rows' /\ r \notin rows
        BY <4>1, SlotPass DEF Insertable
      <4>3. Waiting(p)' <=> Waiting(p)  BY <4>2 DEF Waiting
      <4>4. pass.kind = "recovery" /\ pass.proc = p => pass'.created = pass.created
        <5> SUFFICES ASSUME pass.kind = "recovery", pass.proc = p, r \in rows', r \notin rows
                     PROVE  FALSE
          BY <4>2
        <5>1. r.proc = p /\ r.origin = "recovery"  BY DEF Row, PassOrigin
        <5> QED  BY <1>6, <5>1 DEF RecoveryRows
      <4> QED  BY <1>1, <1>2, <2>1, <3>1, <3>2, <4>2, <4>3, <4>4 DEF CapOf
    <3>8. CASE RecoveryFails \/ EndRecovery \/ StartPlanner \/ Plan \/ EndPlan
      <4>1. pass'.kind # "recovery"
        BY <1>1, <3>8, RestPass, BeginPass DEF RecoveryFails, EndRecovery, StartPlanner, Plan, EndPlan
      <4> QED  BY <3>3, <4>1
    <3> QED  BY <2>4, <3>4, <3>5, <3>6, <3>7, <3>8 DEF PassStep
  <2> QED  BY <2>2, <2>3, <2>4, PassFrame
<1> QED  BY <1>4, <1>5, <1>6, RecoveryRowsStep

\* The recovery rows of a process never exceed max_recovery_slots for each start-up, also
\* when a crash interrupts the pass and the next one begins again.
THEOREM RecoveryStaysCapped == Spec => []RecoveryCapped
<1>1. Init => CapInv
  <2> SUFFICES ASSUME Init, NEW p \in Procs PROVE CapOf(p)  BY DEF CapInv
  <2>1. RecoveryRows(p) = {} /\ pass.kind = "none" /\ server # "down"
    BY DEF Init, RecoveryRows, NoPass
  <2>2. IsFiniteSet(RecoveryRows(p)) /\ Recovered(p) = 0  BY <2>1, FS_EmptySet DEF Recovered
  <2>3. Budget \in Nat  BY OneMore, ScheduleAssumption DEF Init, Budget
  <2> QED  BY <2>1, <2>2, <2>3 DEF CapOf
<1>2. TypeInv /\ CapInv /\ [Next]_vars => CapInv'  BY CapStep
<1>3. CapInv => RecoveryCapped
  <2> SUFFICES ASSUME CapInv, NEW p \in Procs
               PROVE  Cardinality({r \in RunsOf(p) : r.origin = "recovery"}) <= MaxRecoverySlots * crashes
    BY DEF RecoveryCapped
  <2>1. {r \in RunsOf(p) : r.origin = "recovery"} = RecoveryRows(p)  BY DEF RunsOf, RecoveryRows
  <2>2. Recovered(p) <= Budget  BY DEF CapInv, CapOf
  <2> QED  BY <2>1, <2>2 DEF Recovered, Budget
<1> QED  BY <1>1, <1>2, <1>3, TypeAlways, PTL DEF Spec

-----------------------------------------------------------------------------
(* Processes nobody touched                                                *)

\* Once touched, always touched.
LEMMA TouchedStep == ASSUME TypeInv, [Next]_vars PROVE touched \subseteq touched'
<1> USE DEF world, tables, scores, program, history
<1>1. touched \subseteq Procs  BY TypeParts DEF ClockOK
<1>2. PassStep => touched \subseteq touched'
  BY <1>1 DEF PassStep, StartRecovery, RecoveryFails, EndRecovery, StartPlanner, Plan, EndPlan,
     NextToRecover, NextToPlan, SlotStep, EndSlots
<1>3. ApiStep => touched \subseteq touched'
  BY <1>1 DEF ApiStep, UpdateWorkspaceState, CreateProcess, SetProcessEnabled, TriggerProcess, GetProcess, UpdateProcess,
     DeleteProcess, About
<1>4. OrchestraStep => touched \subseteq touched'  BY OrchestraFrame
<1> QED  BY <1>2, <1>3, <1>4 DEF Next, RunEnds, Evaluate, Tick, Crash, vars

\* The state of the workspace changes with everything touched.
LEMMA ActiveFrame == ASSUME [Next]_vars PROVE active' = active \/ touched' = Procs
<1> USE DEF world, tables, scores, program, history
<1>1. PassStep => active' = active
  BY DEF PassStep, StartRecovery, RecoveryFails, EndRecovery, StartPlanner, Plan, EndPlan,
     NextToRecover, NextToPlan, SlotStep, EndSlots
<1>2. ApiStep => active' = active \/ touched' = Procs
  BY DEF ApiStep, UpdateWorkspaceState, CreateProcess, SetProcessEnabled, TriggerProcess,
     GetProcess, UpdateProcess, DeleteProcess
<1>3. OrchestraStep => active' = active  BY OrchestraFrame
<1> QED  BY <1>1, <1>2, <1>3 DEF Next, RunEnds, Evaluate, Tick, Crash, vars

\* A process nobody touched stays as it is, from its creation on, and keeps its runs.
LEMMA UntouchedStays ==
    ASSUME TypeInv, UntouchedInv, [Next]_vars, NEW p \in Procs, p \notin touched'
    PROVE  /\ p \notin touched /\ UntouchedOf(p)
           /\ \/ process'[p] = process[p]
              \/ process[p].life = "unborn" /\ There(p)' /\ process'[p].enabled
           /\ RunsOf(p) \subseteq RunsOf(p)'
<1>1. ProcessOK  BY TypeParts
<1>2. p \notin touched /\ UntouchedOf(p)  BY TouchedStep DEF UntouchedInv
<1>3. CASE process' = process
  <2>1. ~(\E q \in Procs : DeleteProcess(q))
    <3> SUFFICES ASSUME NEW q \in Procs, DeleteProcess(q) PROVE FALSE  OBVIOUS
    <3>1. process'[q].life = "deleted" /\ process[q].life = "there"
      BY <1>1 DEF DeleteProcess, ProcessOK, About, There
    <3> QED  BY <1>3, <3>1
  <2> QED  BY <1>2, <1>3, <2>1, RowsStay DEF RunsOf
<1>4. ASSUME NEW q \in Procs, CreateProcess(q) PROVE
              /\ \/ process'[p] = process[p]
                 \/ process[p].life = "unborn" /\ There(p)' /\ process'[p].enabled
              /\ RunsOf(p) \subseteq RunsOf(p)'
  BY <1>1, <1>4 DEF CreateProcess, NewProcess, ProcessOK, There, RunsOf
<1>5. ASSUME NEW q \in Procs, SetProcessEnabled(q) PROVE
              process'[p] = process[p] /\ RunsOf(p) \subseteq RunsOf(p)'
  <2>1. q # p  BY <1>5 DEF SetProcessEnabled, About
  <2> QED  BY <1>1, <1>5, <2>1 DEF SetProcessEnabled, ProcessOK, RunsOf
<1>6. ASSUME NEW q \in Procs, DeleteProcess(q) PROVE
              process'[p] = process[p] /\ RunsOf(p) \subseteq RunsOf(p)'
  <2>1. q # p  BY <1>6 DEF DeleteProcess, About
  <2> QED  BY <1>1, <1>6, <2>1 DEF DeleteProcess, ProcessOK, RunsOf
<1>7. ASSUME UpdateProcess PROVE process'[p] = process[p] /\ RunsOf(p) \subseteq RunsOf(p)'
  <2>1. edit.proc # p  BY <1>2 DEF UntouchedOf
  <2> QED  BY <1>1, <1>7, <2>1, Written DEF UpdateProcess, RunsOf
<1> QED  BY <1>2, <1>3, <1>4, <1>5, <1>6, <1>7, ProcessFrame

\* Without a dependency, its new runs are for slots.
LEMMA UntouchedRows ==
    ASSUME TypeInv, DependInv, [Next]_vars, NEW p \in Procs, p \notin touched',
           DependsOn[p] = NoOne, NEW r \in RunsOf(p)', r \notin rows
    PROVE  /\ \E t \in pass.slots : SlotStep(t) /\ r = Row(p, t, PassOrigin)
           /\ pass.proc = p
<1>1. RunsOK  BY TypeParts
<1>2. r \in rows' /\ r.proc = p  BY DEF RunsOf
<1>3. \A q \in Procs : TriggerProcess(q) /\ r = Row(q, now, "manual") => FALSE
  BY <1>2 DEF TriggerProcess, About, Row
<1>4. \A h \in hooks : r \in createDependentRuns(h) => FALSE
  <2> SUFFICES ASSUME NEW h \in hooks, r \in createDependentRuns(h) PROVE FALSE  OBVIOUS
  <2>1. DependsOn[p] = h.row.proc  BY <1>2, Dependent
  <2>2. h.row \in rows  BY <1>1 DEF DependInv, RunsOK
  <2> QED  BY <1>1, <2>1, <2>2, ScheduleAssumption DEF RunsOK
<1>5. PICK t \in pass.slots : SlotStep(t) /\ r = Row(pass.proc, t, PassOrigin)
  BY <1>2, <1>3, <1>4, NewRows
<1>6. pass.proc = p  BY <1>2, <1>5 DEF Row
<1> QED  BY <1>5, <1>6

\* The edit of a process touches it.
LEMMA EditFrame == ASSUME [Next]_vars PROVE
    edit' = edit \/ edit' = NoEdit \/ (\E p \in Procs : edit'.proc = p /\ p \in touched')
<1> USE DEF world, tables, scores, program, history
<1>1. PassStep => edit' = edit
  BY DEF PassStep, StartRecovery, RecoveryFails, EndRecovery, StartPlanner, Plan, EndPlan,
     NextToRecover, NextToPlan, SlotStep, EndSlots
<1>2. ASSUME NEW p \in Procs, GetProcess(p) PROVE edit'.proc = p /\ p \in touched'
  <2>1. PICK s \in Schedules :
          edit' = [proc |-> p, enabled |-> process[p].enabled, schedule |-> s]
    BY <1>2 DEF GetProcess
  <2>2. edit'.proc = p  BY <2>1
  <2> QED  BY <1>2, <2>2 DEF GetProcess, About
<1>4. ApiStep => \/ edit' = edit \/ edit' = NoEdit
                 \/ \E p \in Procs : GetProcess(p)
  BY DEF ApiStep, UpdateWorkspaceState, CreateProcess, SetProcessEnabled, TriggerProcess, UpdateProcess, DeleteProcess
<1>3. OrchestraStep => edit' = edit  BY OrchestraFrame
<1> QED  BY <1>1, <1>2, <1>3, <1>4 DEF Next, RunEnds, Evaluate, Tick, Crash, vars

\* A step keeps what is known of processes nobody touched.
LEMMA UntouchedStep ==
    ASSUME TypeInv, DependInv, UntouchedInv, [Next]_vars PROVE UntouchedInv'
<1> SUFFICES ASSUME NEW p \in Procs, p \notin touched' PROVE UntouchedOf(p)'
  BY DEF UntouchedInv
<1>1. ProcessOK /\ PassOK /\ RunsOK /\ Control /\ p # NoOne /\ PassOK'
  BY TypeParts, TypeStep, TypePartsNext, ScheduleAssumption
<1>2. /\ p \notin touched /\ UntouchedOf(p)
      /\ \/ process'[p] = process[p]
         \/ process[p].life = "unborn" /\ There(p)' /\ process'[p].enabled
      /\ RunsOf(p) \subseteq RunsOf(p)'
  BY UntouchedStays
<1>3. There(p)' => process'[p].enabled  BY <1>2 DEF UntouchedOf, There
<1>4. There(p) => There(p)' /\ process'[p].schedule = process[p].schedule
  BY <1>2 DEF There
<1>5. edit'.proc # p  BY <1>1, <1>2, EditFrame DEF UntouchedOf, NoEdit
<1>6. DependsOn[p] = NoOne => \A r \in RunsOf(p)' : r.origin \in Scheduled
  <2> SUFFICES ASSUME DependsOn[p] = NoOne, NEW r \in RunsOf(p)' PROVE r.origin \in Scheduled
    OBVIOUS
  <2>1. CASE r \in rows  BY <1>2, <2>1 DEF UntouchedOf, RunsOf
  <2>2. CASE r \notin rows  BY <2>2, UntouchedRows DEF Row, PassOrigin, Scheduled
  <2> QED  BY <2>1, <2>2
<1>7. /\ \A e \in pass'.todo : e.proc = p => There(p)' /\ e.slots = process'[p].schedule
      /\ pass'.proc = p => There(p)' /\ pass'.slots = process'[p].schedule
  <2>1. CASE pass' = pass  BY <1>2, <1>4, <2>1 DEF UntouchedOf
  <2>2. CASE pass'.todo = {} /\ pass'.proc = NoOne  BY <1>1, <2>2
  <2>3. CASE Begin("plan") \/ Begin("recovery")
    <3>1. pass'.todo = ListEnabledCronProcesses /\ pass'.proc = NoOne  BY <2>3, BeginPass
    <3>2. \A e \in pass'.todo : e.proc = p => There(p) /\ e.slots = process[p].schedule
      BY <1>1, <3>1, Listed
    <3> QED  BY <1>1, <1>4, <3>1, <3>2
  <2>4. CASE \E e \in pass.todo : NextToRecover(e) \/ NextToPlan(e)
    <3>1. PICK e \in pass.todo : NextToRecover(e) \/ NextToPlan(e)  BY <2>4
    <3>2. /\ pass'.todo = pass.todo \ {e}
          /\ pass'.proc = NoOne \/ (pass'.proc = e.proc /\ pass'.slots = e.slots)
      BY <3>1, VisitPass
    <3> QED  BY <1>1, <1>2, <1>4, <3>2 DEF UntouchedOf
  <2>5. CASE \E t \in pass.slots : SlotStep(t)
    <3>1. pass'.todo = pass.todo /\ pass'.proc = pass.proc /\ pass'.slots = pass.slots
      BY <2>5, SlotPass
    <3> QED  BY <1>2, <1>4, <3>1 DEF UntouchedOf
  <2>6. CASE EndSlots
    <3>1. pass'.todo = pass.todo /\ pass'.proc = NoOne  BY <2>6, LeavePass
    <3> QED  BY <1>1, <1>2, <1>4, <3>1 DEF UntouchedOf
  <2>7. PassStep \/ Crash \/ pass' = pass  BY PassFrame
  <2>8. Crash => pass'.todo = {} /\ pass'.proc = NoOne  BY DEF Crash, NoPass
  <2>9. RecoveryFails \/ EndRecovery \/ EndPlan => pass'.todo = {} /\ pass'.proc = NoOne
    BY <1>1, RestPass DEF RecoveryFails, EndRecovery, EndPlan
  <2>10. StartRecovery \/ StartPlanner \/ Plan => Begin("plan") \/ Begin("recovery")
    BY DEF StartRecovery, StartPlanner, Plan
  <2> QED  BY <2>1, <2>2, <2>3, <2>4, <2>5, <2>6, <2>7, <2>8, <2>9, <2>10 DEF PassStep
<1>8. active'  BY <1>2, ActiveFrame DEF UntouchedOf
<1> QED  BY <1>3, <1>5, <1>6, <1>7, <1>8 DEF UntouchedOf, Scheduled

-----------------------------------------------------------------------------
(* No slot is missed                                                       *)

\* How a pass comes to a process: from those that wait, and the planner at its clock reading.
LEMMA PassMoves ==
    ASSUME TypeInv, [Next]_vars, NEW p \in Procs, pass'.proc = p
    PROVE  \/ pass.proc = p /\ pass' = pass
           \/ pass.proc = p /\ \E t \in pass.slots : SlotStep(t)
           \/ /\ Waiting(p) /\ pass'.kind = pass.kind /\ pass.proc = NoOne
              /\ pass.kind = "plan" => pass'.from = pass.now /\ pass.now = now /\ now' = now
<1>1. PassOK /\ Control /\ p # NoOne /\ ClockOK  BY TypeParts, ScheduleAssumption
<1>2. CASE \E e \in pass.todo : NextToRecover(e) \/ NextToPlan(e)
  <2>1. PICK e \in pass.todo : NextToRecover(e) \/ NextToPlan(e)  BY <1>2
  <2>2. /\ pass'.kind = pass.kind /\ pass.proc = NoOne /\ e.proc = p
        /\ pass.kind = "plan" => pass'.from = pass.now
    BY <1>1, <2>1, VisitPass
  <2>3. now' = now  BY <2>1 DEF NextToRecover, NextToPlan, world
  <2> QED  BY <1>1, <2>2, <2>3 DEF Waiting, Control
<1>3. CASE \E t \in pass.slots : SlotStep(t)  BY <1>3, SlotPass
<1>4. CASE EndSlots  BY <1>1, <1>4, LeavePass
<1>5. CASE StartRecovery \/ StartPlanner \/ Plan
  BY <1>1, <1>5, BeginPass DEF StartRecovery, StartPlanner, Plan
<1>6. CASE RecoveryFails \/ EndRecovery \/ EndPlan
  BY <1>1, <1>6, RestPass DEF RecoveryFails, EndRecovery, EndPlan
<1>7. CASE Crash  BY <1>1, <1>7 DEF Crash, NoPass
<1> QED  BY <1>2, <1>3, <1>4, <1>5, <1>6, <1>7, PassFrame DEF PassStep

\* What a step does to the runs of a process of the property: it adds the run of a slot the
\* pass has come to, or none.
LEMMA WatchedRows ==
    ASSUME TypeInv, DependInv, UntouchedInv, [Next]_vars, NEW p \in Procs, p \notin touched',
           DependsOn[p] = NoOne
    PROVE  \/ RunsOf(p)' = RunsOf(p)
           \/ \E t \in pass.slots :
                /\ SlotStep(t) /\ pass.proc = p /\ Row(p, t, PassOrigin) \notin rows
                /\ RunsOf(p)' = RunsOf(p) \cup {Row(p, t, PassOrigin)}
<1>1. RunsOf(p) \subseteq RunsOf(p)'  BY UntouchedStays
<1>2. CASE \A r \in RunsOf(p)' : r \in rows
  BY <1>1, <1>2 DEF RunsOf
<1>3. CASE \E r \in RunsOf(p)' : r \notin rows
  <2>1. PICK r \in RunsOf(p)' : r \notin rows  BY <1>3
  <2>2. PICK t \in pass.slots : SlotStep(t) /\ r = Row(p, t, PassOrigin)
    BY <2>1, UntouchedRows
  <2>3. pass.proc = p  BY <2>1, UntouchedRows
  <2>4. rows' = rows \cup {r}
    BY <2>1, <2>2, <2>3, SlotPass DEF RunsOf
  <2>5. r.proc = p  BY <2>1 DEF RunsOf
  <2>6. RunsOf(p)' = RunsOf(p) \cup {r}  BY <2>4, <2>5 DEF RunsOf
  <2> QED  BY <2>1, <2>2, <2>3, <2>6
<1> QED  BY <1>2, <1>3

\* The rows for a slot of a process, among its runs.
LEMMA SlotRowsOf ==
    ASSUME NEW p, NEW t
    PROVE  /\ SlotRows(p, t) = {r \in RunsOf(p) : r.at = t /\ r.origin \in Scheduled}
           /\ SlotRows(p, t)' = {r \in RunsOf(p)' : r.at = t /\ r.origin \in Scheduled}
  BY DEF SlotRows, RunsOf, Scheduled

\* A slot the pass has come to: those before it, from where the pass goes on, are none, and
\* it has its row afterwards.
LEMMA SlotDone ==
    ASSUME TypeInv, NEW t \in pass.slots, SlotStep(t), NEW p, p = pass.proc
    PROVE  /\ \A u \in pass.slots : u >= pass.from => t <= u
           /\ SlotRows(p, t)' # {}
<1>1. \A u \in pass.slots : u >= pass.from => t <= u  BY DEF SlotStep, NextSlot, Upcoming
<1> DEFINE r == Row(pass.proc, t, PassOrigin)
<1>2. r \in rows'  BY SlotPass
<1>3. r.proc = pass.proc /\ r.at = t /\ r.origin \in Scheduled
  BY DEF Row, PassOrigin, Scheduled
<1> HIDE DEF r
<1>4. r \in SlotRows(p, t)'  BY <1>2, <1>3 DEF SlotRows, Scheduled
<1> QED  BY <1>1, <1>4

\* A step keeps the plan of a process nobody touched without gaps.
LEMMA PrefixStep ==
    ASSUME TypeInv, RowsInv, DependInv, UntouchedInv, PrefixInv, [Next]_vars PROVE PrefixInv'
<1> SUFFICES ASSUME NEW p \in Procs, p \notin touched', DependsOn[p] = NoOne PROVE PrefixOf(p)'
  BY DEF PrefixInv
<1>1. ProcessOK /\ PassOK /\ RunsOK /\ Control /\ ClockOK /\ p # NoOne /\ RunsOK' /\ ProcessOK'
      /\ PassOK'
  BY TypeParts, TypeStep, TypePartsNext, ScheduleAssumption
<1>2. /\ p \notin touched /\ UntouchedOf(p)
      /\ \/ process'[p] = process[p]
         \/ process[p].life = "unborn" /\ There(p)' /\ process'[p].enabled
      /\ RunsOf(p) \subseteq RunsOf(p)'
  BY UntouchedStays
<1>3. PrefixOf(p)  BY <1>2 DEF PrefixInv
<1>4. now \in Nat /\ now' \in Nat /\ now <= now' /\ pass.now \in Nat /\ pass.now <= now
      /\ pass.from \in Nat
  BY <1>1, ClockStep DEF ClockOK, Control, PassOK, Passes
<1>5. /\ \A t \in process[p].schedule : t \in Nat
      /\ \A t \in process'[p].schedule : t \in Nat
      /\ \A r \in RunsOf(p)' : r.at \in Nat
  BY <1>1, ScheduleAssumption DEF ProcessOK, RunsOK, RunsOf, Times
<1>6. CASE process[p].life = "unborn"
  <2>1. RunsOf(p) = {} /\ pass.proc # p  BY <1>1, <1>2, <1>6 DEF RunsOK, RunsOf, There, UntouchedOf
  <2>2. RunsOf(p)' = {}  BY <2>1, WatchedRows
  <2>3. pass'.proc # p
    <3>1. \A e \in pass.todo : e.proc # p  BY <1>2, <1>6 DEF UntouchedOf, There
    <3> QED  BY <1>1, <2>1, <3>1, PassMoves DEF Waiting
  <2> QED  BY <2>2, <2>3 DEF PrefixOf
<1>7. CASE process'[p] = process[p]
  <2>1. ASSUME NEW f, Planned(p, f) PROVE Planned(p, f)'
    <3> SUFFICES ASSUME NEW t \in process[p].schedule, now' <= t, t < f
                 PROVE  SlotRows(p, t)' # {}
      BY <1>7 DEF Planned
    <3>1. SlotRows(p, t) # {}  BY <1>4, <1>5, <2>1 DEF Planned
    <3> QED  BY <1>2, <3>1, SlotRowsOf
  <2>2. CASE \E t \in pass.slots : SlotStep(t) /\ pass.proc = p
    <3>1. PICK t \in pass.slots : SlotStep(t) /\ pass.proc = p  BY <2>2
    <3>2. /\ pass'.kind = pass.kind /\ pass'.from = t + 1 /\ t \in Nat
          /\ pass.slots = process[p].schedule
          /\ \A u \in pass.slots : u >= pass.from => t <= u
          /\ SlotRows(p, t)' # {}
      BY <1>1, <1>2, <3>1, SlotPass, SlotDone DEF UntouchedOf, PassOK, Passes
    <3>3. CASE pass.kind = "plan"
      <4>1. Planned(p, t + 1)'
        <5> SUFFICES ASSUME NEW u \in process[p].schedule, now' <= u, u < t + 1
                     PROVE  SlotRows(p, u)' # {}
          BY <1>7 DEF Planned
        <5>1. CASE u < pass.from
          <6>1. PICK f \in Nat : f = pass.from  BY <1>4
          <6>2. Planned(p, f)  BY <1>3, <3>1, <3>3, <6>1 DEF PrefixOf
          <6>3. Planned(p, f)'  BY <2>1, <6>2
          <6> QED  BY <1>7, <5>1, <6>1, <6>3 DEF Planned
        <5>2. CASE ~(u < pass.from)
          <6>1. u = t  BY <1>4, <1>5, <3>2, <5>2
          <6> QED  BY <3>2, <6>1
        <5> QED  BY <5>1, <5>2
      <4>2. Planned(p, t)'  BY <1>5, <1>7, <3>2, <4>1 DEF Planned
      <4>3. \A r \in RunsOf(p)' : Planned(p, r.at)'
        <5> SUFFICES ASSUME NEW r \in RunsOf(p)' PROVE Planned(p, r.at)'  OBVIOUS
        <5>1. CASE r \in rows
          <6>1. Planned(p, r.at)  BY <1>3, <5>1 DEF PrefixOf, RunsOf
          <6> QED  BY <2>1, <6>1
        <5>2. CASE r \notin rows
          <6>1. r.at = t
            <7>1. rows' = rows \cup {Row(p, t, PassOrigin)} \/ rows' = rows  BY <3>1, SlotPass
            <7>2. r = Row(p, t, PassOrigin)  BY <5>2, <7>1 DEF RunsOf
            <7> QED  BY <7>2 DEF Row
          <6> QED  BY <4>2, <6>1
        <5> QED  BY <5>1, <5>2
      <4> QED  BY <3>2, <4>1, <4>3 DEF PrefixOf
    <3>4. CASE pass.kind # "plan"
      <4>1. ASSUME NEW r \in RunsOf(p)' PROVE Planned(p, r.at)'
        <5>1. CASE r \in rows
          <6>1. Planned(p, r.at)  BY <1>3, <5>1 DEF PrefixOf, RunsOf
          <6> QED  BY <2>1, <6>1
        <5>2. CASE r \notin rows
          <6>1. r.at = t
            <7>1. rows' = rows \cup {Row(p, t, PassOrigin)} \/ rows' = rows  BY <3>1, SlotPass
            <7>2. r = Row(p, t, PassOrigin)  BY <5>2, <7>1 DEF RunsOf
            <7> QED  BY <7>2 DEF Row
          <6>2. t < now'  BY <1>4, <3>1, <3>2, <3>4 DEF SlotStep, InWindow
          <6> QED  BY <1>4, <1>5, <1>7, <3>2, <6>1, <6>2 DEF Planned
        <5> QED  BY <5>1, <5>2
      <4> QED  BY <3>2, <3>4, <4>1 DEF PrefixOf
    <3> QED  BY <3>3, <3>4
  <2>3. CASE ~(\E t \in pass.slots : SlotStep(t) /\ pass.proc = p)
    <3>1. RunsOf(p)' = RunsOf(p)  BY <2>3, WatchedRows
    <3>2. \A r \in RunsOf(p)' : Planned(p, r.at)'  BY <1>3, <2>1, <3>1 DEF PrefixOf
    <3>3. ASSUME pass'.kind = "plan", pass'.proc = p, NEW f, f = pass'.from PROVE Planned(p, f)'
      <4>1. \/ pass.kind = "plan" /\ pass.proc = p /\ f = pass.from
            \/ f <= now'
        BY <1>1, <1>4, <2>3, <3>3, PassMoves
      <4>2. CASE pass.kind = "plan" /\ pass.proc = p /\ f = pass.from
        BY <1>3, <2>1, <4>2 DEF PrefixOf
      <4>3. CASE f <= now'
        <5>1. f \in Nat  BY <1>1, <3>3 DEF PassOK, Passes
        <5> QED  BY <1>4, <1>5, <4>3, <5>1 DEF Planned
      <4> QED  BY <4>1, <4>2, <4>3
    <3>4. (pass.kind = "plan" /\ pass.proc = p => Planned(p, pass.from))'
      <4> SUFFICES ASSUME pass'.kind = "plan", pass'.proc = p,
                          NEW t \in process'[p].schedule, now' <= t, t < pass'.from
                   PROVE  SlotRows(p, t)' # {}
        BY DEF Planned
      <4>1. PICK f : f = pass'.from  OBVIOUS
      <4>2. Planned(p, f)'  BY <3>3, <4>1
      <4> QED  BY <4>1, <4>2 DEF Planned
    <3> QED  BY <3>2, <3>4 DEF PrefixOf
  <2> QED  BY <2>2, <2>3
<1> QED  BY <1>2, <1>6, <1>7

\* What is served up to a time is served up to an earlier one.
LEMMA FrontierBelow ==
    ASSUME ProcessOK, NEW p \in Procs, NEW f \in Frontiers(p), NEW g \in Nat, g <= f
    PROVE  g \in Frontiers(p)
<1>1. \A t \in process[p].schedule : t \in Nat  BY ScheduleAssumption DEF ProcessOK
<1> QED  BY <1>1 DEF Frontiers, Covered

\* Without a run or without a slot, nothing is missed.
LEMMA FrontierAll ==
    ASSUME NEW p, RunsOf(p) = {} \/ process[p].schedule = {}, NEW f \in Nat
    PROVE  f \in Frontiers(p)
  BY DEF Frontiers, Covered

\* Times that are neither missed nor upcoming only become more.
LEMMA UnseenStep == ASSUME [Next]_vars PROVE unseen \subseteq unseen'
<1>1. PassStep => unseen \subseteq unseen'
  BY DEF PassStep, StartRecovery, RecoveryFails, EndRecovery, StartPlanner, Plan, EndPlan,
     NextToRecover, NextToPlan, SlotStep, EndSlots, history
<1>2. Crash => unseen' = unseen  BY DEF Crash, history
<1> QED  BY <1>1, <1>2, PassFrame

\* As long as a process has the same runs, what is served stays served.
LEMMA FrontierKeeps ==
    ASSUME NEW p, process'[p] = process[p], RunsOf(p)' = RunsOf(p), unseen \subseteq unseen'
    PROVE  Frontiers(p) \subseteq Frontiers(p)'
<1> SUFFICES ASSUME NEW f \in Nat, Covered(p, f) PROVE Covered(p, f)'
  BY DEF Frontiers
<1>1. \A t : SlotRows(p, t)' = SlotRows(p, t)  BY SlotRowsOf
<1> QED  BY <1>1 DEF Covered

\* The slot a pass has come to is served, and with it those before: when the row is new, it
\* is later than all others of the process.
LEMMA FrontierSlot ==
    ASSUME TypeInv, RowsInv, DependInv, UntouchedInv, PrefixInv, [Next]_vars,
           NEW p \in Procs, p \notin touched', DependsOn[p] = NoOne, process'[p] = process[p],
           NEW t \in pass.slots, SlotStep(t), pass.proc = p, pass.from \in Frontiers(p),
           \A q \in RunsOf(p) : q.at \in Frontiers(p)
    PROVE  t + 1 \in Frontiers(p)' /\ \A q \in RunsOf(p)' : q.at \in Frontiers(p)'
<1>1. ProcessOK /\ PassOK /\ RunsOK /\ Control /\ ClockOK /\ RunsOK'
  BY TypeParts, TypeStep, TypePartsNext
<1>2. /\ p \notin touched /\ UntouchedOf(p)
      /\ RunsOf(p) \subseteq RunsOf(p)'
  BY UntouchedStays
<1>3. PrefixOf(p)  BY <1>2 DEF PrefixInv
<1> DEFINE r == Row(p, t, PassOrigin)
<1>4. /\ t \in Nat /\ pass.from \in Nat /\ t >= pass.from
      /\ pass.slots = process[p].schedule
      /\ \A u \in pass.slots : u >= pass.from => t <= u
      /\ SlotRows(p, t)' # {}
  BY <1>1, <1>2, SlotPass, SlotDone DEF UntouchedOf, PassOK, Passes
<1>5. /\ \A u \in process[p].schedule : u \in Nat
      /\ \A q \in RunsOf(p)' : q.at \in Nat
      /\ \A q \in RunsOf(p) : q.at \in Nat
  BY <1>1, ScheduleAssumption DEF ProcessOK, RunsOK, RunsOf, Times
<1>6. unseen \subseteq unseen'  BY UnseenStep
<1>7. RunsOf(p)' = RunsOf(p) \/ (r \notin rows /\ RunsOf(p)' = RunsOf(p) \cup {r})
  <2>1. r.proc = p  BY DEF Row
  <2>2. rows' = rows \/ (r \notin rows /\ rows' = rows \cup {r})  BY SlotPass DEF Insertable
  <2> HIDE DEF r
  <2> QED  BY <2>1, <2>2 DEF RunsOf
<1>8. r.at = t  BY DEF Row
<1> HIDE DEF r
<1>9. \A u : SlotRows(p, u) # {} => SlotRows(p, u)' # {}  BY <1>2, SlotRowsOf
<1>10. ASSUME r \notin rows, NEW q \in RunsOf(p) PROVE q.at <= t
  <2>1. CASE pass.kind = "recovery"
    <3>1. q.at < pass.from  BY <2>1 DEF RowsInv
    <3> QED  BY <1>4, <1>5, <3>1
  <2>2. CASE pass.kind # "recovery"
    <3>1. pass.kind = "plan" /\ pass.now = now /\ pass.from >= pass.now
      BY <1>1, <2>2, SlotPass, ScheduleAssumption DEF Control, RowsInv
    <3>2. now \in Nat  BY <1>1 DEF ClockOK
    <3>3. SUFFICES ASSUME t < q.at PROVE FALSE  BY <1>4, <1>5
    <3>4. SlotRows(p, t) # {}  BY <1>3, <1>4, <3>1, <3>2, <3>3 DEF PrefixOf, Planned
    <3>5. PICK x \in rows : x.proc = p /\ x.at = t /\ x.origin \in Scheduled
      BY <3>4 DEF SlotRows
    <3>6. <<p, t, x.origin>> \in ServedSlots  BY <3>5 DEF ServedSlots
    <3> QED  BY <1>10, <3>5, <3>6, SlotIsFree DEF r
  <2> QED  BY <2>1, <2>2
<1>11. ASSUME NEW u \in process[p].schedule, u < t + 1, NEW q \in RunsOf(p), q.at < u
       PROVE  SlotRows(p, u)' # {} \/ u \in unseen'
  <2>1. CASE u < pass.from
    <3>1. SlotRows(p, u) # {} \/ u \in unseen  BY <1>11, <2>1 DEF Frontiers, Covered
    <3> QED  BY <1>6, <1>9, <3>1
  <2>2. CASE ~(u < pass.from)
    <3>1. u = t  BY <1>4, <1>5, <1>11, <2>2
    <3> QED  BY <1>4, <3>1
  <2> QED  BY <2>1, <2>2
<1>12. t + 1 \in Nat /\ Covered(p, t + 1)'
  <2> SUFFICES ASSUME NEW u \in process[p].schedule, u < t + 1, NEW q \in RunsOf(p)', q.at < u
               PROVE  SlotRows(p, u)' # {} \/ u \in unseen'
    BY <1>4 DEF Covered
  <2>1. q \in RunsOf(p)  BY <1>4, <1>5, <1>7, <1>8
  <2> QED  BY <1>11, <2>1
<1>13. t + 1 \in Frontiers(p)'  BY <1>12 DEF Frontiers
<1>14. ASSUME NEW q \in RunsOf(p)' PROVE q.at \in Frontiers(p)'
  <2> SUFFICES ASSUME NEW u \in process[p].schedule, u < q.at, NEW x \in RunsOf(p)', x.at < u
               PROVE  SlotRows(p, u)' # {} \/ u \in unseen'
    BY <1>5 DEF Frontiers, Covered
  <2>1. CASE u < t + 1
    BY <1>12, <2>1 DEF Covered
  <2>2. CASE ~(u < t + 1)
    <3>1. RunsOf(p)' = RunsOf(p)
      <4> SUFFICES ASSUME r \notin rows, RunsOf(p)' = RunsOf(p) \cup {r} PROVE FALSE
        BY <1>7
      <4>1. q.at <= t  BY <1>4, <1>8, <1>10
      <4> QED  BY <1>4, <1>5, <2>2, <4>1
    <3>2. SlotRows(p, u) # {} \/ u \in unseen  BY <3>1 DEF Frontiers, Covered
    <3> QED  BY <1>6, <1>9, <3>2
  <2> QED  BY <2>1, <2>2
<1> QED  BY <1>13, <1>14

\* Of a process that a pass does not list, nothing can be missed.
LEMMA NotListed ==
    ASSUME TypeInv, NEW p \in Procs, UntouchedOf(p),
           \A e \in ListEnabledCronProcesses : e.proc # p, NEW f \in Nat
    PROVE  f \in Frontiers(p)
<1>1. ProcessOK /\ RunsOK  BY TypeParts
<1>2. ~There(p) \/ process[p].schedule = {}  BY <1>1, Listed DEF UntouchedOf
<1>3. ~There(p) => RunsOf(p) = {}  BY <1>1 DEF RunsOK, RunsOf
<1> QED  BY <1>2, <1>3, FrontierAll

\* A process a pass is done with is served up to the end of the window.
LEMMA FrontierEnd ==
    ASSUME TypeInv, NEW p \in Procs, UntouchedOf(p), CapOf(p), Recovered(p) < MaxRecoverySlots,
           EndSlots, pass.proc = p, pass.from \in Frontiers(p)
    PROVE  /\ pass.kind = "recovery" => pass.now \in Frontiers(p)
           /\ pass.kind = "plan" => pass.now + Horizon + 1 \in Frontiers(p)
<1>1. ProcessOK /\ PassOK /\ RunsOK /\ Control  BY TypeParts
<1>2. /\ pass.slots = process[p].schedule /\ There(p) /\ Horizon \in Nat /\ MaxRecoverySlots \in Nat
      /\ pass.slots \in SUBSET Nat /\ pass.from \in Nat /\ pass.now \in Nat /\ pass.created \in Nat
      /\ pass.kind \in {"recovery", "plan"} /\ pass.proc # NoOne
  BY <1>1, LeavePass, ScheduleAssumption DEF UntouchedOf, PassOK, Passes
<1>3. Recovered(p) \in Nat  BY FS_CardinalityType DEF CapOf, Recovered
<1>4. \A t \in Upcoming : ~(NextSlot(t) /\ InWindow(t))  BY <1>2 DEF EndSlots
<1>5. pass.kind = "recovery" => pass.created < MaxRecoverySlots
  BY <1>2, <1>3 DEF CapOf
<1>6. \A u \in pass.slots :
        \/ u < pass.from
        \/ pass.kind = "recovery" /\ u >= pass.now
        \/ pass.kind = "plan" /\ u >= pass.now + Horizon + 1
  <2> SUFFICES ASSUME NEW u \in pass.slots, ~(u < pass.from)
               PROVE  \/ pass.kind = "recovery" /\ u >= pass.now
                      \/ pass.kind = "plan" /\ u >= pass.now + Horizon + 1
    OBVIOUS
  <2>1. Upcoming \in SUBSET Nat /\ Upcoming # {} /\ u \in Upcoming  BY <1>2 DEF Upcoming
  <2>2. PICK t \in Upcoming : \A v \in Upcoming : t <= v  BY <2>1, Least
  <2>3. NextSlot(t)  BY <1>2, <2>2 DEF NextSlot
  <2>4. ~InWindow(t)  BY <1>4, <2>2, <2>3
  <2>5. t <= u /\ t \in Nat /\ u \in Nat  BY <1>2, <2>1, <2>2
  <2> QED  BY <1>2, <1>5, <2>4, <2>5 DEF InWindow
<1>7. \A t \in process[p].schedule :
        (t < pass.from /\ \E r \in RunsOf(p) : r.at < t) => SlotRows(p, t) # {} \/ t \in unseen
  BY DEF Frontiers, Covered
<1>8. ASSUME pass.kind = "recovery" PROVE pass.now \in Frontiers(p)
  <2>1. \A t \in process[p].schedule : t \in Nat /\ (t < pass.now => t < pass.from)
    BY <1>2, <1>6, <1>8
  <2> QED  BY <1>2, <1>7, <2>1 DEF Frontiers, Covered
<1>9. ASSUME pass.kind = "plan" PROVE pass.now + Horizon + 1 \in Frontiers(p)
  <2>1. \A t \in process[p].schedule :
          t \in Nat /\ (t < pass.now + Horizon + 1 => t < pass.from)
    BY <1>2, <1>6, <1>9
  <2>2. pass.now + Horizon + 1 \in Nat  BY <1>2
  <2> QED  BY <1>7, <2>1, <2>2 DEF Frontiers, Covered
<1> QED  BY <1>8, <1>9

\* Recovery goes on after the last run, up to which all is served.
LEMMA FrontierLast ==
    ASSUME TypeInv, NEW p \in Procs, UntouchedOf(p), DependsOn[p] = NoOne, RunsOf(p) # {},
           \A q \in RunsOf(p) : q.at \in Frontiers(p)
    PROVE  GetLastRunByProcess(p) + 1 \in Frontiers(p)
<1>1. ProcessOK /\ RunsOK  BY TypeParts
<1> DEFINE m == GetLastRunByProcess(p)
<1>2. m \in Nat  BY <1>1, LastRun
<1>3. PICK q \in RunsOf(p) : q.at = m  BY <1>1, LastRun
<1> HIDE DEF m
<1>4. ASSUME NEW t \in process[p].schedule, t < m + 1, \E r \in RunsOf(p) : r.at < t
      PROVE  SlotRows(p, t) # {} \/ t \in unseen
  <2>1. t \in Nat  BY <1>1, ScheduleAssumption DEF ProcessOK
  <2>2. CASE t < m  BY <1>3, <1>4, <2>2 DEF Frontiers, Covered
  <2>3. CASE t = m
    <3>1. q.origin \in Scheduled  BY DEF UntouchedOf
    <3>2. q \in SlotRows(p, t)  BY <1>3, <2>3, <3>1, SlotRowsOf
    <3> QED  BY <3>2
  <2> QED  BY <1>2, <1>4, <2>1, <2>2, <2>3
<1>5. m + 1 \in Frontiers(p)  BY <1>2, <1>4 DEF Frontiers, Covered
<1> QED  BY <1>5 DEF m

\* A pass of the planner or of the recovery keeps the account of what is served, as long as
\* it adds no run to the process.
LEMMA ServedPass ==
    ASSUME TypeInv, NEW p \in Procs, UntouchedOf(p), DependsOn[p] = NoOne, p \in ExecuteOnMiss,
           CapOf(p), Recovered(p) < MaxRecoverySlots, CoverageOf(p), p \notin touched',
           PassStep, process'[p] = process[p], RunsOf(p)' = RunsOf(p),
           ~(\E t \in pass.slots : SlotStep(t) /\ pass.proc = p)
    PROVE  Served(p)'
<1>1. ProcessOK /\ PassOK /\ RunsOK /\ Control /\ ClockOK /\ p # NoOne
  BY TypeParts, ScheduleAssumption
<1>2. /\ now \in Nat /\ pass.now \in Nat /\ Interval \in Nat /\ Horizon \in Nat
      /\ Lag \in Nat /\ Interval + Lag <= Horizon /\ due \in Nat
  BY <1>1, ScheduleAssumption DEF ClockOK, PassOK, Passes
<1>3. unseen \subseteq unseen'  BY UnseenStep DEF Next
<1>4. Frontiers(p) \subseteq Frontiers(p)'  BY <1>3, FrontierKeeps
<1>5. Served(p) /\ \A q \in RunsOf(p) : q.at \in Frontiers(p)  BY DEF CoverageOf
<1>6. CASE StartRecovery
  <2>1. /\ pass'.kind = "recovery" /\ pass'.now = now /\ pass'.proc = NoOne
        /\ pass'.todo = ListEnabledCronProcesses /\ server' = "recovering"
    BY <1>6, BeginPass DEF StartRecovery
  <2>2. ~Waiting(p)' => now \in Frontiers(p)  BY <1>2, <2>1, NotListed DEF Waiting
  <2> QED  BY <1>1, <1>4, <2>1, <2>2 DEF Served
<1>7. CASE RecoveryFails  BY <1>7 DEF RecoveryFails
<1>8. CASE EndRecovery
  <2>1. /\ pass'.kind = "none" /\ pass'.proc = NoOne /\ pass'.now = pass.now
        /\ server' = "recovered"
    BY <1>1, <1>8, RestPass DEF EndRecovery
  <2>2. pass.now \in Frontiers(p)  BY <1>1, <1>5, <1>8 DEF EndRecovery, Served, Waiting
  <2> QED  BY <1>1, <1>4, <2>1, <2>2 DEF Served
<1>9. CASE StartPlanner
  <2>1. /\ pass'.kind = "plan" /\ pass'.now = now /\ pass'.proc = NoOne
        /\ pass'.todo = ListEnabledCronProcesses /\ server' = "up"
    BY <1>9, BeginPass DEF StartPlanner
  <2>2. ~Waiting(p)' => now + Horizon + 1 \in Frontiers(p)
    BY <1>2, <2>1, NotListed DEF Waiting
  <2>3. now \in Frontiers(p)'
    <3>1. pass.now \in Frontiers(p)'  BY <1>4, <1>5, <1>9 DEF StartPlanner, Served
    <3>2. \A t \in process[p].schedule : t \in Nat  BY <1>1, ScheduleAssumption DEF ProcessOK
    <3>3. \A t \in Nat : pass.now <= t /\ t < now => t \in unseen'
      BY <1>2, <1>9 DEF StartPlanner
    <3>4. PICK g \in Nat : g = now  BY <1>2
    <3>5. g \in Frontiers(p)'
      <4> SUFFICES ASSUME NEW t \in process[p].schedule, t < g, \E r \in RunsOf(p)' : r.at < t
                   PROVE  SlotRows(p, t)' # {} \/ t \in unseen'
        BY DEF Frontiers, Covered
      <4>1. CASE t < pass.now
        <5>1. PICK f \in Nat : f = pass.now  BY <1>2
        <5>2. f \in Frontiers(p)'  BY <3>1, <5>1
        <5> QED  BY <4>1, <5>1, <5>2 DEF Frontiers, Covered
      <4>2. CASE ~(t < pass.now)  BY <1>2, <3>2, <3>3, <3>4, <4>2
      <4> QED  BY <4>1, <4>2
    <3> QED  BY <3>4, <3>5
  <2> QED  BY <1>1, <1>4, <2>1, <2>2, <2>3 DEF Served
<1>10. CASE Plan
  <2>1. /\ pass'.kind = "plan" /\ pass'.now = now /\ pass'.proc = NoOne
        /\ pass'.todo = ListEnabledCronProcesses /\ server' = "up"
    BY <1>10, BeginPass DEF Plan
  <2>2. ~Waiting(p)' => now + Horizon + 1 \in Frontiers(p)
    BY <1>2, <2>1, NotListed DEF Waiting
  <2>3. now \in Frontiers(p)
    <3>1. due + Lag \in Frontiers(p) /\ now <= due + Lag
      BY <1>1, <1>2, <1>5, <1>10 DEF Plan, Served, Control
    <3> QED  BY <1>1, <1>2, <3>1, FrontierBelow
  <2> QED  BY <1>1, <1>4, <2>1, <2>2, <2>3 DEF Served
<1>11. CASE EndPlan
  <2>1. /\ pass'.kind = "none" /\ pass'.proc = NoOne /\ server' = server /\ due' = due
        /\ server = "up" /\ due = pass.now + Interval
    BY <1>1, <1>11, RestPass DEF EndPlan, Control
  <2>2. pass.now + Horizon + 1 \in Frontiers(p)
    BY <1>1, <1>5, <1>11 DEF EndPlan, Served, Waiting
  <2>3. due + Lag \in Frontiers(p)
    <3>1. due + Lag \in Nat /\ due + Lag <= pass.now + Horizon + 1  BY <1>2, <2>1
    <3> QED  BY <1>1, <2>2, <3>1, FrontierBelow
  <2> QED  BY <1>1, <1>4, <2>1, <2>3 DEF Served
<1>12. CASE \E e \in pass.todo : NextToRecover(e) \/ NextToPlan(e)
  <2>1. PICK e \in pass.todo : NextToRecover(e) \/ NextToPlan(e)  BY <1>12
  <2>2. /\ pass'.kind = pass.kind /\ pass'.now = pass.now /\ pass.proc = NoOne
        /\ pass'.todo = pass.todo \ {e}
        /\ \/ /\ pass'.proc = e.proc
              /\ pass.kind = "plan" => pass'.from = pass.now
              /\ pass.kind = "recovery" =>
                   RunsOf(e.proc) # {} /\ pass'.from = GetLastRunByProcess(e.proc) + 1
           \/ /\ pass'.proc = NoOne /\ pass.kind = "recovery"
              /\ ~(e.proc \in ExecuteOnMiss /\ RunsOf(e.proc) # {})
    BY <2>1, VisitPass
  <2>3. server' = server /\ due' = due /\ pass.kind \in {"plan", "recovery"}
        /\ server \in {"up", "recovering"}
    BY <1>1, <2>1 DEF NextToRecover, NextToPlan, Control
  <2>4. CASE e.proc = p
    <3>1. ~Waiting(p)' /\ Waiting(p)
      BY <1>1, <2>2, <2>4 DEF Waiting, Control
    <3>2. CASE pass.kind = "plan"
      <4>1. pass'.proc = p /\ pass'.from = pass.now /\ pass.now \in Frontiers(p)
        BY <1>5, <2>2, <2>4, <3>1, <3>2 DEF Served
      <4> QED  BY <1>4, <2>2, <2>3, <3>1, <3>2, <4>1 DEF Served
    <3>3. CASE pass.kind = "recovery" /\ RunsOf(p) # {}
      <4>1. pass'.proc = p /\ pass'.from = GetLastRunByProcess(p) + 1
        BY <2>2, <2>4, <3>3
      <4>2. pass'.from \in Frontiers(p)  BY <1>5, <3>3, <4>1, FrontierLast
      <4>3. server = "recovering"  BY <1>1, <3>3 DEF Control
      <4> QED  BY <1>4, <2>2, <2>3, <3>3, <4>1, <4>2, <4>3 DEF Served
    <3>4. CASE pass.kind = "recovery" /\ RunsOf(p) = {}
      <4>1. pass'.proc = NoOne /\ pass.now \in Frontiers(p)
        BY <1>2, <2>2, <2>4, <3>4, FrontierAll
      <4>2. server = "recovering"  BY <1>1, <3>4 DEF Control
      <4> QED  BY <1>1, <1>4, <2>2, <2>3, <3>4, <4>1, <4>2 DEF Served
    <3> QED  BY <2>3, <3>2, <3>3, <3>4
  <2>5. CASE e.proc # p
    <3>1. Waiting(p)' <=> Waiting(p)  BY <2>2, <2>5 DEF Waiting
    <3>2. pass'.proc # p /\ pass.proc # p  BY <1>1, <2>2, <2>5
    <3> QED  BY <1>4, <1>5, <2>2, <2>3, <3>1, <3>2 DEF Served
  <2> QED  BY <2>4, <2>5
<1>13. CASE \E t \in pass.slots : SlotStep(t)
  <2>1. PICK t \in pass.slots : SlotStep(t)  BY <1>13
  <2>2. /\ pass'.kind = pass.kind /\ pass'.now = pass.now /\ pass'.todo = pass.todo
        /\ pass'.proc = pass.proc /\ pass.proc # p
    BY <2>1, SlotPass
  <2>3. server' = server /\ due' = due  BY <2>1 DEF SlotStep
  <2>4. Waiting(p)' <=> Waiting(p)  BY <2>2 DEF Waiting
  <2> QED  BY <1>4, <1>5, <2>2, <2>3, <2>4 DEF Served
<1>14. CASE EndSlots
  <2>1. /\ pass'.kind = pass.kind /\ pass'.now = pass.now /\ pass'.todo = pass.todo
        /\ pass'.proc = NoOne /\ pass.kind \in {"plan", "recovery"}
    BY <1>14, LeavePass
  <2>2. server' = server /\ due' = due  BY <1>14 DEF EndSlots
  <2>3. Waiting(p)' <=> Waiting(p)  BY <2>1 DEF Waiting
  <2>4. CASE pass.proc # p
    BY <1>1, <1>4, <1>5, <2>1, <2>2, <2>3, <2>4 DEF Served
  <2>5. CASE pass.proc = p
    <3>1. ~Waiting(p)  BY <1>1, <2>5 DEF Waiting, Control
    <3>2. pass.from \in Frontiers(p)  BY <1>5, <2>5 DEF Served
    <3>3. /\ pass.kind = "recovery" => pass.now \in Frontiers(p)
          /\ pass.kind = "plan" => pass.now + Horizon + 1 \in Frontiers(p)
      BY <1>14, <2>5, <3>2, FrontierEnd
    <3>4. server # "recovered"  BY <1>1, <2>1 DEF Control
    <3> QED  BY <1>1, <1>4, <2>1, <2>2, <2>3, <3>1, <3>3, <3>4 DEF Served
  <2> QED  BY <2>4, <2>5
<1> QED  BY <1>6, <1>7, <1>8, <1>9, <1>10, <1>11, <1>12, <1>13, <1>14 DEF PassStep

\* Everything the property rests on.
ScheduleInv ==
    TypeInv /\ RowsInv /\ DependInv /\ CapInv /\ UntouchedInv /\ PrefixInv /\ CoverageInv

\* A step keeps the account of what is served.
LEMMA CoverageStep ==
    ASSUME ScheduleInv, [Next]_vars, CapInv' PROVE CoverageInv'
<1> USE DEF ScheduleInv
<1> SUFFICES ASSUME NEW p \in Procs, Watched(p)', (Recovered(p) < MaxRecoverySlots)'
             PROVE  CoverageOf(p)'
  BY DEF CoverageInv
<1>1. ProcessOK /\ PassOK /\ RunsOK /\ Control /\ ClockOK /\ p # NoOne /\ PassOK' /\ ClockOK'
  BY TypeParts, TypeStep, TypePartsNext, ScheduleAssumption
<1>2. p \in ExecuteOnMiss /\ p \notin touched' /\ DependsOn[p] = NoOne  BY DEF Watched
<1>3. /\ p \notin touched /\ UntouchedOf(p)
      /\ \/ process'[p] = process[p]
         \/ process[p].life = "unborn" /\ There(p)' /\ process'[p].enabled
      /\ RunsOf(p) \subseteq RunsOf(p)'
  BY <1>2, UntouchedStays
<1>4. CapOf(p) /\ Recovered(p) \in Nat /\ Recovered(p) < MaxRecoverySlots
  <2>1. RecoveryRows(p) \subseteq RecoveryRows(p)'  BY <1>3 DEF RecoveryRows, RunsOf
  <2>2. IsFiniteSet(RecoveryRows(p)) /\ IsFiniteSet(RecoveryRows(p)') /\ CapOf(p)
    BY DEF CapInv, CapOf
  <2>3. Cardinality(RecoveryRows(p)) <= Cardinality(RecoveryRows(p)')
        /\ Cardinality(RecoveryRows(p)) \in Nat /\ Cardinality(RecoveryRows(p)') \in Nat
    BY <2>1, <2>2, FS_Subset, FS_CardinalityType
  <2> QED  BY <2>2, <2>3, ScheduleAssumption DEF Recovered
<1>5. CoverageOf(p)  BY <1>2, <1>3, <1>4 DEF CoverageInv, Watched
<1>6. unseen \subseteq unseen'  BY UnseenStep
<1>7. CASE process[p].life = "unborn"
  <2>1. RunsOf(p) = {} /\ pass.proc # p
    BY <1>1, <1>3, <1>7 DEF RunsOK, RunsOf, There, UntouchedOf
  <2>2. RunsOf(p)' = {}  BY <1>2, <2>1, WatchedRows
  <2>3. Frontiers(p)' = Nat  BY <2>2 DEF Frontiers, Covered
  <2>4. pass'.from \in Nat /\ pass'.now \in Nat /\ due' \in Nat
    BY <1>1 DEF PassOK, Passes, ClockOK
  <2>5. due' + Lag \in Nat /\ pass'.now + Horizon + 1 \in Nat
    <3>1. Lag \in Nat /\ Horizon \in Nat  BY ScheduleAssumption
    <3>2. \A a, b \in Nat : a + b \in Nat  OBVIOUS
    <3>3. due' + Lag \in Nat  BY <2>4, <3>1, <3>2
    <3>4. pass'.now + Horizon \in Nat  BY <2>4, <3>1, <3>2
    <3> QED  BY <3>2, <3>3, <3>4
  <2> QED  BY <2>2, <2>3, <2>4, <2>5 DEF CoverageOf, Served
<1>8. CASE process'[p] = process[p]
  <2>1. CASE \E t \in pass.slots : SlotStep(t) /\ pass.proc = p
    <3>1. PICK t \in pass.slots : SlotStep(t) /\ pass.proc = p  BY <2>1
    <3>2. pass.from \in Frontiers(p) /\ \A q \in RunsOf(p) : q.at \in Frontiers(p)
      BY <1>5, <3>1 DEF CoverageOf, Served
    <3>3. t + 1 \in Frontiers(p)' /\ \A q \in RunsOf(p)' : q.at \in Frontiers(p)'
      BY <1>2, <1>8, <3>1, <3>2, FrontierSlot
    <3>4. /\ pass'.kind = pass.kind /\ pass'.todo = pass.todo /\ pass'.proc = p
          /\ pass'.from = t + 1 /\ pass.kind \in {"plan", "recovery"} /\ server' = server
      BY <3>1, SlotPass DEF SlotStep
    <3>5. ~Waiting(p)' /\ server # "recovered"
      BY <1>1, <3>1, <3>4 DEF Waiting, Control
    <3> QED  BY <3>3, <3>4, <3>5 DEF CoverageOf, Served
  <2>2. CASE ~(\E t \in pass.slots : SlotStep(t) /\ pass.proc = p)
    <3>1. RunsOf(p)' = RunsOf(p)  BY <1>2, <2>2, WatchedRows
    <3>2. Frontiers(p) \subseteq Frontiers(p)'  BY <1>6, <1>8, <3>1, FrontierKeeps
    <3>3. Served(p)'
      <4>1. CASE PassStep  BY <1>2, <1>3, <1>4, <1>5, <1>8, <2>2, <3>1, <4>1, ServedPass
      <4>2. CASE Crash
        <5>1. pass'.proc = NoOne /\ pass'.kind = "none" /\ server' = "down"
          BY <4>2 DEF Crash, NoPass
        <5> QED  BY <1>1, <5>1 DEF Served
      <4>3. CASE UNCHANGED <<pass, server, due, unseen>>
        <5>1. Waiting(p)' <=> Waiting(p)  BY <4>3 DEF Waiting
        <5> QED  BY <1>5, <3>2, <4>3, <5>1 DEF CoverageOf, Served
      <4> QED  BY <4>1, <4>2, <4>3, PassFrame
    <3> QED  BY <1>5, <3>1, <3>2, <3>3 DEF CoverageOf
  <2> QED  BY <2>1, <2>2
<1> QED  BY <1>3, <1>7, <1>8

\* The invariants hold at the start.
LEMMA ScheduleInit == ASSUME Init PROVE ScheduleInv
<1>1. TypeInv  BY TypeInit
<1>2. rows = {} /\ hooks = {} /\ server = "recovered" /\ edit.proc = NoOne
      /\ pass.kind = "none" /\ pass.todo = {} /\ pass.proc = NoOne /\ pass.now = 0
  BY DEF Init, NoPass, NoEdit
<1>3. RowsInv /\ DependInv  BY <1>2 DEF RowsInv, DependInv
<1>4. CapInv
  <2> SUFFICES ASSUME NEW p \in Procs PROVE CapOf(p)  BY DEF CapInv
  <2>1. RecoveryRows(p) = {}  BY <1>2 DEF RecoveryRows
  <2>2. IsFiniteSet(RecoveryRows(p)) /\ Recovered(p) = 0  BY <2>1, FS_EmptySet DEF Recovered
  <2>3. Budget \in Nat  BY OneMore, ScheduleAssumption DEF Init, Budget
  <2> QED  BY <1>2, <2>2, <2>3 DEF CapOf
<1>5. UntouchedInv
  <2> SUFFICES ASSUME NEW p \in Procs PROVE UntouchedOf(p)  BY DEF UntouchedInv
  <2>1. active /\ process[p].enabled  BY DEF Init
  <2> QED  BY <1>2, <2>1, ScheduleAssumption DEF UntouchedOf, RunsOf
<1>6. PrefixInv  BY <1>2, ScheduleAssumption DEF PrefixInv, PrefixOf, RunsOf
<1>7. CoverageInv
  <2> SUFFICES ASSUME NEW p \in Procs PROVE CoverageOf(p)  BY DEF CoverageInv
  <2>1. RunsOf(p) = {}  BY <1>2 DEF RunsOf
  <2> QED  BY <1>2, <2>1, FrontierAll, ScheduleAssumption DEF CoverageOf, Served
<1> QED  BY <1>1, <1>3, <1>4, <1>5, <1>6, <1>7 DEF ScheduleInv

\* A slot of a process nobody touched is not missed, through crashes at any point and any
\* time of being down: once past, it has its row, unless recovery reached its cap or failed, or
\* the slot lies between a recovery pass and the first plan.  The planning interval and the
\* lag together may be as long as the horizon, however fine the clock is.
THEOREM NoSlotIsMissed == Spec => []NoMissedSlot
<1>1. Init => ScheduleInv  BY ScheduleInit
<1>2. ScheduleInv /\ [Next]_vars => ScheduleInv'
  <2> SUFFICES ASSUME ScheduleInv, [Next]_vars PROVE ScheduleInv'  OBVIOUS
  <2>1. TypeInv /\ RowsInv /\ DependInv /\ CapInv /\ UntouchedInv /\ PrefixInv
    BY DEF ScheduleInv
  <2>2. TypeInv' /\ RowsInv' /\ DependInv' /\ CapInv' /\ UntouchedInv' /\ PrefixInv'
    BY <2>1, TypeStep, RowsStep, DependStep, CapStep, UntouchedStep, PrefixStep
  <2> QED  BY <2>2, CoverageStep DEF ScheduleInv
<1>3. ScheduleInv => NoMissedSlot
  <2> SUFFICES ASSUME ScheduleInv, server = "up", pass.kind = "none",
                      NEW p \in ExecuteOnMiss \ touched, DependsOn[p] = NoOne,
                      Cardinality({r \in RunsOf(p) : r.origin = "recovery"}) < MaxRecoverySlots,
                      NEW t \in process[p].schedule, t < now, \E r \in RunsOf(p) : r.at < t
               PROVE  SlotRows(p, t) # {} \/ t \in unseen
    BY DEF NoMissedSlot
  <2>1. p \in Procs  BY ScheduleAssumption
  <2>2. {r \in RunsOf(p) : r.origin = "recovery"} = RecoveryRows(p)  BY DEF RunsOf, RecoveryRows
  <2>3. Served(p)  BY <2>1, <2>2 DEF ScheduleInv, CoverageInv, CoverageOf, Watched, Recovered
  <2>4. due + Lag \in Frontiers(p)  BY <2>3 DEF Served
  <2>5. ProcessOK /\ ClockOK /\ Control  BY TypeParts DEF ScheduleInv
  <2>6. now <= due + Lag /\ now \in Nat /\ due \in Nat /\ Lag \in Nat /\ t \in Nat
    BY <2>1, <2>5, ScheduleAssumption DEF ProcessOK, ClockOK, Control
  <2>7. t < due + Lag  BY <2>6
  <2> QED  BY <2>4, <2>7 DEF Frontiers, Covered
<1> QED  BY <1>1, <1>2, <1>3, PTL DEF Spec

=============================================================================
