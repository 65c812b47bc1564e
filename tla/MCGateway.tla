------------------------------ MODULE MCGateway ------------------------------
(* Requests of one user in one session.                                     *)
EXTENDS Gateway, TLC

CONSTANT u1

MCUserOf == [k \in Token |-> u1]
Symmetry == Permutations(Request)
=============================================================================
