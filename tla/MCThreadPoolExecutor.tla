---- MODULE MCThreadPoolExecutor ----
(* Instances of ThreadPoolExecutor for TLC. *)
EXTENDS ThreadPoolExecutor, TLC

\* Submitting threads are interchangeable.
Symmetry == Permutations(Submitters)
====
