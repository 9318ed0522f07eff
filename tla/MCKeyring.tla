----------------------------- MODULE MCKeyring -----------------------------
EXTENDS Keyring, TLC

CONSTANTS token, key, v1, v2

MCSlots       == {token, key}
MCPluginSlots == {key}
MCValues      == {v1, v2}

\* The values are alike.
Symmetry == Permutations(MCValues)
=============================================================================
