---------------------------- MODULE MCRequestCache ----------------------------
EXTENDS RequestCache, TLC

CONSTANTS a, b, c, d

MCIds == {a, b, c, d}
Alike == Permutations(MCIds)
=============================================================================
