---------------------------- MODULE MCProxyPool ----------------------------
\* The keys of the managers are interchangeable.
EXTENDS ProxyPool, TLC

CONSTANTS m1, m2, m3

ThreeManagers == {m1, m2, m3}
KeySymmetry   == Permutations(ThreeManagers)
=============================================================================
