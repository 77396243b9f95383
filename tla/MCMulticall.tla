---------------------------- MODULE MCMulticall ----------------------------
EXTENDS Multicall, TLC
Apps == Permutations(App)
=============================================================================
