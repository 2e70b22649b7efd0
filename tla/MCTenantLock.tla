---------------------------- MODULE MCTenantLock ----------------------------
EXTENDS TenantLock, TLC

Symmetry == Permutations(Workers)
=============================================================================
