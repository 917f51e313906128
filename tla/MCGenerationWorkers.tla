-------------------------- MODULE MCGenerationWorkers --------------------------
(* Workers, broker, jobs and faults on a small instance. Runs without liveness  *)
(* take workers up to renaming: they are compared with nothing but themselves.  *)
EXTENDS GenerationWorkers, TLC

Interchangeable == Permutations(Workers)
=============================================================================
