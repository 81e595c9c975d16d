--------------------------- MODULE MCProxyCenter ----------------------------
(***************************************************************************)
(* ProxyCenter on small instances.                                         *)
(***************************************************************************)
EXTENDS ProxyCenter, TLC

TwoSlotsMetered == [enabled |-> TRUE, expiresAt |-> 0, maxConns |-> 2, quota |-> 1]

OneSlot  == [enabled |-> TRUE, expiresAt |-> 0, maxConns |-> 1, quota |-> 0]

Dated    == [enabled |-> TRUE, expiresAt |-> 1, maxConns |-> 1, quota |-> 0]

Disabled == [enabled |-> FALSE, expiresAt |-> 0, maxConns |-> 1, quota |-> 0]

SafetyProfiles == {TwoSlotsMetered, OneSlot}

LivenessProfiles == {TwoSlotsMetered, Dated, Disabled}

ConnSymmetry == Permutations(Conns)
=============================================================================
