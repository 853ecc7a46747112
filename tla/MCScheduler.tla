---------------------------- MODULE MCScheduler ----------------------------
(* TLC instances of Scheduler. *)
EXTENDS Scheduler, TLC

CONSTANTS soft, hard, extra

WithOneShot == {-1, 2}

\* Two tasks that meddle with each other, and one they leave alone.
Meddling == (soft :> {soft, hard}) @@ (hard :> {soft, hard}) @@ (extra :> {soft, hard, extra})
=============================================================================
