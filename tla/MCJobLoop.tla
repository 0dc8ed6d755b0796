----------------------------- MODULE MCJobLoop -----------------------------
(* Three jobs queued at the control plane, in the order j1, j2, j3.      *)
EXTENDS JobLoop

CONSTANTS j1, j2, j3

MCJobOrder == <<j1, j2, j3>>

(* What the executors of this repository return: runner.Runner, the game  *)
(* adapters and NoopGameAdapter all return a JobResult with status        *)
(* "success" or "failed" and a nil error.                                 *)
MCExecOutcomes == {"success", "failed"}

=============================================================================
