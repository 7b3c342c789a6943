---- MODULE MCCloudStudio ----
\* An instance for TLC: calls, paths and tokens are interchangeable.
EXTENDS CloudStudio, TLC

CloudSymmetry == Permutations(Calls) \cup Permutations(Paths) \cup Permutations(Tokens)
====
