--------------------------- MODULE MCCatalogIndex ---------------------------
(* Two sources whose generations share package keys and validators. The     *)
(* first renames a file, learns a hash and drops a package; the second      *)
(* lists the same package under the same name with other bytes.             *)
EXTENDS CatalogIndex, TLC

CONSTANTS c1, c2, s1, s2, p, q, f, g, h1, h2

MCSources == {s1, s2}
TwoCheckers == {c1, c2}
OneChecker == {c1}
MCKeys == {p, q}
MCFiles == {f, g}
MCHashes == {h1, h2}
Symmetry == Permutations(TwoCheckers)

Listed(file, hash) == [file |-> file, hash |-> hash]
Pair(a, b) == [k \in Keys |-> IF k = p THEN a ELSE b]

MCPublished ==
  [s \in Sources |-> [n \in 0..LastGen |->
     CASE s = s1 /\ n = 0 -> Pair(Listed(f, None), Listed(g, h2))
       [] s = s1 /\ n = 1 -> Pair(Listed(f, h1), Listed(g, h2))
       [] s = s1 /\ n = 2 -> Pair(Listed(g, h2), None)
       [] OTHER           -> Pair(Listed(f, h2), IF n = 1 THEN Listed(g, h1) ELSE None)]]
=============================================================================
