--------------------------- MODULE MCBuildGroups ---------------------------
EXTENDS BuildGroups
CONSTANTS w, x, y, z

Identifiers == Permutations({w, x, y, z})
=============================================================================
