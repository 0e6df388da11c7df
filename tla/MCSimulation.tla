---------------------------- MODULE MCSimulation ----------------------------
(* Three requests to start, so that two of them can wait for the same task. *)
EXTENDS Simulation
=============================================================================
