---------------------------- MODULE MC_Schedule ----------------------------
(* Schedule for TLC: a cron process, one that depends on its success, one   *)
(* that depends on its end, and one that may be created.                    *)
EXTENDS Schedule

CONSTANTS cron, report, audit, fresh

Often == {0, 1, 2, 3}

Rarely == {2}

MCSchedules == {Often, Rarely}

MCOriginal == [p \in Procs |-> IF p = cron THEN Often ELSE {}]

MCDependsOn == [p \in Procs |-> IF p \in {report, audit} THEN cron ELSE NoOne]

MCDependencyType == [p \in Procs |-> IF p = report THEN "after_success" ELSE "after"]

=============================================================================
