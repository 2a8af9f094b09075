------------------------------- MODULE MCLaunch -------------------------------
(* Two processes, answers of up to two pieces, a read of one. *)
EXTENDS LaunchProperties
=============================================================================
