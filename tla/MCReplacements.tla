--------------------------- MODULE MCReplacements ---------------------------
EXTENDS Replacements, TLC

CONSTANTS c1, c2, a1, w1, f1, f2

TwoCheckers == {c1, c2}
OneChecker == {c1}
OneAdmin == {a1}
OneSweeper == {w1}
TwoFiles == {f1, f2}
OneFile == {f1}
Symmetry == Permutations(TwoCheckers)

Entry(file, bytes, known) == [file |-> file, bytes |-> bytes, known |-> known]

\* Other bytes under another name (a checker with an old index goes back).
Renamed == [v \in Versions |-> IF v = 0 THEN Entry(f1, 1, TRUE) ELSE Entry(f2, v + 1, TRUE)]

\* Rebuilds under one name, after which the package leaves the index.
Rebuilt == [v \in Versions |-> IF v = 3 THEN None ELSE Entry(f1, v + 1, TRUE)]

\* Rebuilds under one name, one of them listed without its hash.
Relisted == [v \in Versions |-> Entry(f1, v + 1, v # 2)]

EveryChoice == SUBSET Settings \ {{}}
OneChoice == {Settings}
=============================================================================
