------------------------------ MODULE MCIdentity ------------------------------
(* Identity with clients and ids that can be exchanged for one another.    *)
EXTENDS Identity, TLC

Symmetry == Permutations(Clients) \cup Permutations(Ids)
===============================================================================
