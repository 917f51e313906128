-------------------------------- MODULE MCApi --------------------------------
(* The routes on a small instance.  Payments are known by their event id, or   *)
(* by user and amount; they and the generations may be renamed.                *)
EXTENDS Api, TLC

AllPaymentIds == Dues \cup {Fingerprint(u, a) : u \in Users, a \in Amounts}

Interchangeable == Permutations(Dues) \cup Permutations(GenIds)
=============================================================================
