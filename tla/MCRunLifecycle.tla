--------------------------- MODULE MCRunLifecycle ---------------------------
(***************************************************************************)
(* Model-checking instances of RunLifecycle.                               *)
(***************************************************************************)
EXTENDS RunLifecycle, TLC

\* Threads, processes and run identifiers are interchangeable (safety only).
Symmetry == Permutations(Runs) \cup Permutations(Handlers)
                \cup Permutations(Workers) \cup Permutations(Controllers)
==============================================================================
