--------------------------- MODULE MCCallbackDelivery ---------------------------
(* Callback delivery on a small instance; without liveness, up to renaming of    *)
(* the workers.                                                                  *)
EXTENDS CallbackDelivery, TLC

Interchangeable == Permutations(Workers)
=============================================================================
