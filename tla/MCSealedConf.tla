----------------------------- MODULE MCSealedConf -----------------------------
\* Small instances of SealedConf for TLC.
EXTENDS SealedConf, TLC

\* One process, and a chain that sealtest has no room for.
MCSize == [one |-> 1, three |-> 3]
MCData == DOMAIN MCSize

\* The writers are alike.
Alike == Permutations(Writers)
=============================================================================
