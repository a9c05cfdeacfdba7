----------------------------- MODULE SlotLedger -----------------------------
(***************************************************************************)
(* What planning and recovery promise together: a time slot of a process   *)
(* is given at most one run, whoever gives it, and not before the planning *)
(* horizon reaches the slot; what was given is never given again.          *)
(***************************************************************************)
EXTENDS Naturals

CONSTANTS
    Procs,    \* processes
    Givers,   \* the origins of runs that stand for a slot
    Horizon   \* how far ahead a slot may be served

VARIABLES
    clock,    \* the time
    served    \* the slots that were given a run: <<process, time, giver>>

ledger == <<clock, served>>

Init == clock = 0 /\ served = {}

Pass == clock' = clock + 1 /\ UNCHANGED served

Taken(p, t) == \E g \in Givers : <<p, t, g>> \in served

\* Of the slots up to the horizon, one that nobody has served.
Serve ==
    /\ UNCHANGED clock
    /\ \E s \in served' \ served :
         /\ s \in Procs \X (0 .. clock + Horizon) \X Givers
         /\ ~Taken(s[1], s[2])
         /\ served' = served \cup {s}

\* A process is deleted with its runs.
Forget(p) ==
    /\ UNCHANGED clock
    /\ served' = {s \in served : s[1] # p}

Next ==
    \/ Pass
    \/ Serve
    \/ \E p \in Procs : Forget(p)

Spec == Init /\ [][Next]_ledger

=============================================================================
