---------------------------- MODULE MCRestingIndex ----------------------------
(* The index of one repository under names that no other component uses: one  *)
(* checker, and two sources that list one package under one name.  The first  *)
(* source learns its hash, the second has other bytes.  The listener, which   *)
(* only reads the catalog, is left out.                                       *)
EXTENDS Naturals

CONSTANTS checker, s1, s2, onlyKey, onlyFile, h1, h2, Unlisted

VARIABLES generation, conf, edits, row, era, listed, checking, cleaner, label, copy, reading

indexVars ==
  <<generation, conf, edits, row, era, listed, checking, cleaner, label, copy, reading>>

RestingPublished ==
  [s \in {s1, s2} |-> [n \in 0..1 |->
     [k \in {onlyKey} |-> [file |-> onlyFile,
                           hash |-> IF s = s2 THEN h2 ELSE IF n = 1 THEN h1 ELSE Unlisted]]]]

Index == INSTANCE CatalogIndex WITH
           Checkers <- {checker}, Sources <- {s1, s2}, Verified <- {}, Keys <- {onlyKey},
           Files <- {onlyFile}, Hashes <- {h1, h2}, None <- Unlisted, LastGen <- 1,
           Published <- RestingPublished, MaxRevision <- 6, MaxEdits <- 2,
           upstream <- generation, catalog <- listed, check <- checking

IndexInit == Index!Init
IndexNext ==
  \/ \E s \in {s1, s2} : Index!Publish(s)
  \/ Index!EditConfig
  \/ Index!CheckNext(checker)
  \/ Index!FindOrphan \/ Index!DeleteRows
===============================================================================
