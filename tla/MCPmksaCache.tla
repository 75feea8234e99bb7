---------------------------- MODULE MCPmksaCache ----------------------------
EXTENDS PmksaCache, TLC

\* Full authentication draws from the keys that are not in use, so keys may
\* be exchanged; so may the APs of connections, and the places of entries.
Symmetry == Permutations(Keys) \cup Permutations(Homes)
              \cup Permutations(Slots)
=============================================================================
