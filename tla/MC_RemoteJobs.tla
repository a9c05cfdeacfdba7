---------------------------- MODULE MC_RemoteJobs ---------------------------
(* RemoteJobs for TLC: the number of attempts is given in the configuration. *)
EXTENDS RemoteJobs

=============================================================================
