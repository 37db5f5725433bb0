----------------------------- MODULE MCCpuMonitor -----------------------------
(* A small instance of CpuMonitor: a window of six intervals. *)
EXTENDS CpuMonitor
=============================================================================
