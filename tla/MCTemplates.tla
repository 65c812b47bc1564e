---------------------------- MODULE MCTemplates ----------------------------
(* Templates instantiated for TLC: a seeded name, one that only users save,*)
(* and that one typed in lower case.                                       *)
EXTENDS Templates, TLC

CONSTANTS WELCOME, BILLING, billing

MCName == {WELCOME, BILLING, billing}
MCUpper == [x \in MCName |-> IF x = billing THEN BILLING ELSE x]
MCSeeds == {WELCOME}

Symmetry == Permutations(User)
=============================================================================
