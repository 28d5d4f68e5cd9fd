----------------------------- MODULE MCScheduler -----------------------------
(***************************************************************************)
(* Two ids and three jobs, two of which share an id: a job is replaced     *)
(* while its goroutine is anywhere in its loop.                            *)
(***************************************************************************)
EXTENDS Scheduler, TLC

CONSTANTS a, b, j1, j2, j3

MCIdOf == (j1 :> a) @@ (j2 :> a) @@ (j3 :> b)
=============================================================================
