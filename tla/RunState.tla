------------------------------ MODULE RunState ------------------------------
(***************************************************************************)
(* The canonical run state machine of package runstate: the states a row   *)
(* of the runs table may hold, the transitions the package declares, and   *)
(* the predicates the rest of the program asks of a state.                 *)
(*                                                                         *)
(* "absent" is not a state of the program: it stands for a row that has    *)
(* not been inserted yet, so that a function over a fixed set of row       *)
(* identifiers can model a table that grows.                               *)
(***************************************************************************)

AllStates == {"pending", "waiting_for_worker", "queued", "running", "retrying",
              "kill_requested", "completed", "failed", "hung", "killed",
              "skipped", "cancelled", "paused", "waiting_for_choice"}

RowStates == AllStates \cup {"absent"}

validTransitions ==
    [ pending            |-> {"waiting_for_worker", "queued", "running",
                              "skipped", "cancelled", "paused"},
      waiting_for_worker |-> {"running", "cancelled"},
      queued             |-> {"running", "cancelled", "paused"},
      running            |-> {"completed", "failed", "hung", "kill_requested",
                              "retrying", "waiting_for_choice"},
      retrying           |-> {"running", "failed", "cancelled", "killed"},
      kill_requested     |-> {"killed"},
      completed          |-> {},
      failed             |-> {},
      hung               |-> {"retrying", "failed"},
      killed             |-> {},
      skipped            |-> {},
      cancelled          |-> {},
      paused             |-> {"pending"},
      waiting_for_choice |-> {"completed", "cancelled"} ]

ValidateTransition(from, to) == to \in validTransitions[from]

IsTerminal(s) == s \in {"completed", "failed", "killed", "skipped", "cancelled"}

\* Every caller that asks for a final outcome gets IsTerminal's answer.
IsFinalTerminal(s) == IsTerminal(s)

ContinuesFixedDelayChain(s) ==
    s \in {"completed", "failed", "hung", "killed", "cancelled"}

=============================================================================
