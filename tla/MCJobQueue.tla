----------------------------- MODULE MCJobQueue -----------------------------
(***************************************************************************)
(* Instances of JobQueue for TLC: two jobs and two workers, so that one      *)
(* worker puts back what another waits for, and three attempts, so that a job *)
(* is deferred and retried in every order before it is buried.               *)
(***************************************************************************)
EXTENDS JobQueue, TLC

QueueSymmetry == Permutations(Jobs) \cup Permutations(Workers)
=============================================================================
