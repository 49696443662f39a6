---------------------------- MODULE MCLoginIdentity ----------------------------
EXTENDS LoginIdentity, TLC
Alike == Permutations(Addresses) \cup Permutations(Calls)
=============================================================================
