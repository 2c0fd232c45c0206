-------------------------- MODULE MCTaskLifecycle --------------------------
(* TaskLifecycle on small instances: two workers and two tasks.             *)
EXTENDS TaskLifecycle, TLC

(* Task ids, processes and workers are interchangeable.                     *)
Symmetry == Permutations(Agents) \cup Permutations(Tasks) \cup Permutations(Instances)

=============================================================================
