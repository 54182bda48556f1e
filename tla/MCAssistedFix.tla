---------------------------- MODULE MCAssistedFix ----------------------------
\* Instances of AssistedFix for TLC: one or two runs and a few commits.
EXTENDS AssistedFix, TLC

CONSTANTS c0, c1, c2, c3, p1, p2

ThreeCommits == {c0, c1, c2}
FourCommits == {c0, c1, c2, c3}
OneRun == {p1}
TwoRuns == {p1, p2}
L2Only == {"L2"}
L3Only == {"L3"}
AllPhases == {"L2", "L3", "L3 without allowlist"}

\* Commits other than the root, and runs, are interchangeable.
Symmetry == Permutations({c1, c2, c3})
PairSymmetry == Permutations({c1, c2}) \cup Permutations(TwoRuns)
=============================================================================
