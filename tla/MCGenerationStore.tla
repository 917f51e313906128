-------------------------- MODULE MCGenerationStore --------------------------
(* The tables on a small instance, up to renaming of users, payments and      *)
(* generations: none of them is ordered or compared with anything but itself. *)
EXTENDS GenerationStore, TLC

Interchangeable ==
    Permutations(Users) \cup Permutations(PaymentIds) \cup Permutations(GenIds)
=============================================================================
