---------------------------- MODULE MCProcesses ----------------------------
(* A small instance of Processes for TLC.                                   *)
EXTENDS Processes
=============================================================================
