-------------------------- MODULE MCCaptureStatus --------------------------
(* Two pollers on one job that submit_many stored, or that was handed over by   *)
(* id; one capture older than the slack, one within it, and one still to come.  *)
EXTENDS CaptureStatus
=============================================================================
