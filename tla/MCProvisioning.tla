--------------------------- MODULE MCProvisioning ---------------------------
EXTENDS Provisioning, TLC

\* Calls of processJob are interchangeable.
Calls == Permutations(Attempts)
=============================================================================
