----------------------------- MODULE MCJobLease -----------------------------
(* Two replicas, one job.  One of the clock offsets puts nextRunAt in the  *)
(* past, so that a settled job is due at once.                             *)
EXTENDS JobLease

Skew == {0, -2}
=============================================================================
