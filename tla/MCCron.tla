------------------------------ MODULE MCCron ------------------------------
(* One recurring job and one one-shot job. *)
EXTENDS Cron

MCJobs == {"daily", "once"}
MCOneShot == {"once"}
MCNewJobs == {"once"}
MCTasks == 1 .. 2
=============================================================================
