------------------------ MODULE CatalogIndex_proofs ------------------------
(* Proofs about CatalogIndex, for every set of checkers, sources, packages   *)
(* and published catalogs. `era` and the catalogs are unbounded here.        *)
EXTENDS CatalogIndex, TLAPS

-----------------------------------------------------------------------------
(* Facts about the operators of record_snapshot                              *)

\* Storing a snapshot stores exactly that snapshot: the deletion of the removed
\* keys and the upsert of the others leave nothing of the old catalog.
LEMMA StoredIsSnapshot ==
  ASSUME NEW old \in Catalogs, NEW new \in Catalogs
  PROVE  StoredCatalog(old, new) = new
BY DEF StoredCatalog, RemovedKeys, Catalogs

\* Two catalogs between which record_snapshot sees no change are the same.
LEMMA UnchangedIsEqual ==
  ASSUME NEW old \in Catalogs, NEW new \in Catalogs, ~CatalogChanged(old, new)
  PROVE  old = new
<1>1. ASSUME NEW k \in Keys PROVE old[k] = new[k]
  <2>1. (old[k] = None) <=> (new[k] = None)
    BY <1>1 DEF CatalogChanged, Changed, NewKeys, RemovedKeys
  <2>2. CASE old[k] # None
    <3>1. old[k] \in Entries /\ new[k] \in Entries
      BY <1>1, <2>1, <2>2 DEF Catalogs
    <3>2. old[k].hash = new[k].hash
      BY <1>1, <2>1, <2>2 DEF CatalogChanged
    <3>3. old[k].file = new[k].file
      BY <1>1, <2>1, <2>2 DEF CatalogChanged, Changed, ModifiedKeys
    <3> QED BY <3>1, <3>2, <3>3 DEF Entries
  <2> QED BY <2>1, <2>2
<1> QED BY <1>1 DEF Catalogs

\* The revision is a number, and moves whenever the catalog does.
LEMMA NextRevisionFacts ==
  ASSUME row \in Rows \cup {None}, NEW old \in Catalogs, NEW new \in Catalogs
  PROVE  /\ NextRevision(old, new) \in Nat
         /\ row # None => NextRevision(old, new) >= row.revision
         /\ row # None /\ old # new => NextRevision(old, new) > row.revision
<1>1. row # None => row.revision \in Nat
  BY DEF Rows
<1>2. old # new => CatalogChanged(old, new)
  BY UnchangedIsEqual
<1> QED BY <1>1, <1>2 DEF NextRevision

\* Every generation of every source is a catalog.
LEMMA PublishedIsCatalog ==
  ASSUME NEW s \in Sources, NEW g \in Gens
  PROVE  Published[s][g] \in Catalogs
BY PublishedAssumption DEF Gens

\* A row that a diagnosis creates has never been checked.
LEMMA DiagnosedFacts ==
  ASSUME row \in Rows \cup {None}
  PROVE  /\ Diagnosed \in Rows
         /\ row # None => Diagnosed = row
         /\ row = None => /\ Diagnosed.checked = FALSE
                          /\ Diagnosed.validator = None
                          /\ Diagnosed.revision = 0
BY DEF Diagnosed, Rows, Validators

-----------------------------------------------------------------------------
(* The invariant of the check                                                *)

\* Nothing has been recorded.
LEMMA CatalogInit == Init => CatalogInv
<1> SUFFICES ASSUME Init PROVE CatalogInv OBVIOUS
<1>1. Empty \in Catalogs
  BY DEF Empty, Catalogs
<1>a. Idle \in Checks
  BY <1>1 DEF Idle, Checks, Validators
<1>b. 0 \in Gens
  BY GenAssumption DEF Gens
<1>2. TypeOK
  BY <1>1, <1>a, <1>b DEF Init, TypeOK, Idle
<1>3. CatalogWasPublished /\ UncheckedIsEmpty
  BY DEF Init, CatalogWasPublished, UncheckedIsEmpty, HasSnapshot
<1>4. CheckedInBetween
  BY DEF Init, CheckedInBetween, Idle
<1> QED BY <1>2, <1>3, <1>4 DEF CatalogInv

\* Every step of one checker keeps it.
LEMMA CheckStep ==
  ASSUME CatalogInv, NEW c \in Checkers, CheckNext(c)
  PROVE  CatalogInv'
<1> USE NoneAssumption, GenAssumption
<1>0. TypeOK /\ CatalogWasPublished /\ UncheckedIsEmpty /\ CheckedInBetween
  BY DEF CatalogInv
<1>1. row \in Rows \cup {None} /\ catalog \in Catalogs /\ Empty \in Catalogs
  BY <1>0 DEF TypeOK, Empty, Catalogs
<1>2. CASE BeginCheck(c)
  <2>1. IndexMeta(conf) \in Validators
    BY <1>1 DEF IndexMeta, Rows, Validators
  <2>2. TypeOK'
    BY <1>0, <1>1, <1>2, <2>1, DiagnosedFacts
       DEF TypeOK, BeginCheck, checkFrame, Idle, Checks
  <2>3. IndexMeta(conf) # None => IndexMeta(conf) <= upstream[conf]
    <3> SUFFICES ASSUME IndexMeta(conf) # None PROVE IndexMeta(conf) <= upstream[conf]
      OBVIOUS
    <3>1. row # None /\ row.identity = conf /\ IndexMeta(conf) = row.validator
      BY DEF IndexMeta
    <3>2. \E g \in row.validator..upstream[conf] : catalog = Published[conf][g]
      BY <1>0, <3>1 DEF CheckedInBetween
    <3>3. row.validator \in Gens /\ upstream[conf] \in Gens
      BY <1>0, <1>1, <1>2, <3>1 DEF Rows, Validators, TypeOK, BeginCheck
    <3> QED BY <3>1, <3>2, <3>3 DEF Gens
  <2>4. CatalogWasPublished' /\ UncheckedIsEmpty'
    BY <1>0, <1>1, <1>2, DiagnosedFacts
       DEF CatalogWasPublished, UncheckedIsEmpty, HasSnapshot, BeginCheck, checkFrame
  <2>5. CheckedInBetween'
    BY <1>0, <1>1, <1>2, <2>3, DiagnosedFacts
       DEF CheckedInBetween, HasSnapshot, BeginCheck, checkFrame, TypeOK, Idle, Checks
  <2> QED BY <2>2, <2>4, <2>5 DEF CatalogInv
<1>3. CASE HeadFails(c) \/ HeadChanged(c)
  <2> DEFINE s == check[c].source
  <2>a. check[c] \in Checks /\ s \in Sources /\ upstream[s] \in Validators
    BY <1>0, <1>3 DEF TypeOK, HeadFails, HeadChanged, Validators
  <2>b. check'[c] \in Checks /\ check'[c].source = s
    BY <1>0, <1>3, <2>a DEF TypeOK, HeadFails, HeadChanged, Checks, Validators
  <2>c. \A d \in Checkers \ {c} : check'[d] = check[d]
    BY <1>0, <1>3 DEF TypeOK, HeadFails, HeadChanged
  <2>d. check' \in [Checkers -> Checks]
    BY <1>0, <1>3, <2>b, <2>c DEF TypeOK, HeadFails, HeadChanged
  <2>1. TypeOK'
    BY <1>0, <1>3, <2>a, <2>b, <2>c, <2>d DEF TypeOK, HeadFails, HeadChanged, checkFrame
  <2>2. CatalogWasPublished' /\ UncheckedIsEmpty'
    BY <1>0, <1>3
       DEF CatalogWasPublished, UncheckedIsEmpty, HasSnapshot, HeadFails, HeadChanged, checkFrame
  <2>3. CheckedInBetween'
    BY <1>0, <1>3
       DEF CheckedInBetween, HasSnapshot, HeadFails, HeadChanged, checkFrame, TypeOK, Checks, Gens
  <2> QED BY <2>1, <2>2, <2>3 DEF CatalogInv
<1>4. CASE HeadUnchanged(c) \/ FetchFails(c) \/ CheckDies(c)
  <2>1. TypeOK'
    BY <1>0, <1>1, <1>4
       DEF TypeOK, HeadUnchanged, FetchFails, CheckDies, checkFrame, Checks, Idle, Validators
  <2>2. CatalogWasPublished' /\ UncheckedIsEmpty'
    BY <1>0, <1>4 DEF CatalogWasPublished, UncheckedIsEmpty, HasSnapshot, HeadUnchanged,
                      FetchFails, CheckDies, checkFrame
  <2>3. CheckedInBetween'
    BY <1>0, <1>4 DEF CheckedInBetween, HasSnapshot, HeadUnchanged, FetchFails, CheckDies,
                      checkFrame, TypeOK, Checks, Idle
  <2> QED BY <2>1, <2>2, <2>3 DEF CatalogInv
<1>5. CASE Fetch(c)
  <2> DEFINE s == check[c].source
  <2>1. s \in Sources /\ upstream[s] \in Gens
    BY <1>0, <1>5 DEF TypeOK, Fetch
  <2>2. Published[s][upstream[s]] \in Catalogs
    BY <2>1, PublishedIsCatalog
  <2>t. check[c] \in Checks
    BY <1>0 DEF TypeOK
  <2>u. /\ row' = Diagnosed
        /\ check' = [check EXCEPT ![c].at = "record",
                                 ![c].snapshot = Published[s][upstream[s]]]
        /\ UNCHANGED <<upstream, conf, edits, era, catalog, cleaner, label, copy, reading>>
    BY <1>5 DEF Fetch, checkFrame
  <2>v. check'[c] \in Checks /\ check'[c].at = "record" /\ check'[c].source = s
    BY <1>0, <2>t, <2>u, <2>2 DEF Checks, TypeOK
  <2>w. \A d \in Checkers \ {c} : check'[d] = check[d]
    BY <1>0, <2>u DEF TypeOK
  <2>x. check' \in [Checkers -> Checks]
    <3>1. DOMAIN check' = Checkers /\ check' = [d \in Checkers |-> check'[d]]
      BY <1>0, <2>u DEF TypeOK
    <3> QED BY <1>0, <2>v, <2>w, <3>1 DEF TypeOK
  <2>y. \A d \in Checkers : check'[d].at # "idle" => check'[d].source \in Sources
    BY <1>0, <2>1, <2>v, <2>w DEF TypeOK
  <2>z. row' \in Rows \cup {None}
    BY <1>1, <2>u, DiagnosedFacts
  <2>3. TypeOK'
    BY <1>0, <2>u, <2>x, <2>y, <2>z DEF TypeOK
  <2>4. CatalogWasPublished' /\ UncheckedIsEmpty'
    BY <1>0, <1>1, <1>5, DiagnosedFacts
       DEF CatalogWasPublished, UncheckedIsEmpty, HasSnapshot, Fetch, checkFrame
  <2>5. upstream[s] \in 0..upstream[s]
    BY <2>1 DEF Gens
  <2>a. check[c] \in Checks /\ s \in Sources
    BY <1>0, <1>5, <2>1 DEF TypeOK
  <2>b. /\ check'[c].at = "record" /\ check'[c].source = s
        /\ check'[c].snapshot = Published[s][upstream[s]]
        /\ check'[c].validator = check[c].validator
    BY <1>0, <1>5, <2>a DEF TypeOK, Fetch, Checks
  <2>c. \A d \in Checkers \ {c} : check'[d] = check[d]
    BY <1>0, <1>5 DEF TypeOK, Fetch
  <2>d. check[c].validator # None => check[c].validator <= upstream[s]
    BY <1>0, <1>5 DEF CheckedInBetween, Fetch
  <2>e. upstream' = upstream /\ catalog' = catalog
    BY <1>5 DEF Fetch, checkFrame
  <2>f. row' # None /\ row'.validator # None => row' = row /\ HasSnapshot'
    BY <1>0, <1>1, <1>5, <2>e, DiagnosedFacts DEF Fetch, CheckedInBetween, HasSnapshot
  <2>6. CheckedInBetween'
    BY <1>0, <2>5, <2>b, <2>c, <2>d, <2>e, <2>f DEF CheckedInBetween
  <2> QED BY <2>3, <2>4, <2>6 DEF CatalogInv
<1>6. CASE Record(c)
  <2> DEFINE s == check[c].source
             new == check[c].snapshot
  <2>1. s \in Sources /\ new \in Catalogs /\ check[c].validator \in Validators
    BY <1>0, <1>6 DEF TypeOK, Record, Checks
  <2>2. catalog' = new
    BY <1>1, <1>6, <2>1, StoredIsSnapshot DEF Record
  <2>3. row' = [checked |-> TRUE, validator |-> check[c].validator, identity |-> s,
                revision |-> NextRevision(catalog, new)]
    BY <1>6 DEF Record
  <2>4. NextRevision(catalog, new) \in Nat
    BY <1>1, <2>1, NextRevisionFacts
  <2>5. TypeOK'
    BY <1>0, <1>1, <1>6, <2>1, <2>2, <2>3, <2>4
       DEF TypeOK, Record, checkFrame, Checks, Rows, Idle, Validators
  <2>6. PICK g \in 0..upstream[s] : /\ new = Published[s][g]
                                    /\ check[c].validator # None => check[c].validator <= g
    BY <1>0, <1>6 DEF CheckedInBetween, Record
  <2>7. upstream' = upstream /\ row' # None
    <3>1. row' \in Rows
      BY <2>3, <2>4, <2>1 DEF Rows
    <3>2. None \notin Rows
      BY NoneAssumption
    <3> QED BY <1>6, <3>1, <3>2 DEF Record, checkFrame
  <2>8. CatalogWasPublished' /\ UncheckedIsEmpty'
    BY <2>1, <2>2, <2>3, <2>6, <2>7 DEF CatalogWasPublished, UncheckedIsEmpty, HasSnapshot
  <2>9. row'.validator # None => g \in row'.validator..upstream'[row'.identity]
    BY <1>0, <2>1, <2>3, <2>6, <2>7 DEF Validators, Gens, TypeOK
  <2>10. CheckedInBetween'
    BY <1>0, <1>6, <2>1, <2>2, <2>3, <2>6, <2>7, <2>9
       DEF CheckedInBetween, HasSnapshot, Record, checkFrame, TypeOK, Checks, Idle
  <2> QED BY <2>5, <2>8, <2>10 DEF CatalogInv
<1> QED BY <1>2, <1>3, <1>4, <1>5, <1>6 DEF CheckNext

\* The origin, the administrator and the listener keep it.
LEMMA OtherStep ==
  ASSUME CatalogInv,
         \/ \E s \in Sources : Publish(s)
         \/ EditConfig \/ FindOrphan \/ DeleteRows
         \/ DropCopy \/ ReadRevision \/ ReadPackages
  PROVE  CatalogInv'
<1> USE NoneAssumption, GenAssumption
<1>0. TypeOK /\ CatalogWasPublished /\ UncheckedIsEmpty /\ CheckedInBetween
  BY DEF CatalogInv
<1>1. ASSUME NEW s \in Sources, Publish(s) PROVE CatalogInv'
  <2>1. TypeOK'
    BY <1>0, <1>1 DEF TypeOK, Publish, Gens
  <2>2. \A r \in Sources : upstream[r] \in Nat /\ upstream'[r] \in Nat /\ upstream[r] <= upstream'[r]
    BY <1>0, <1>1 DEF TypeOK, Publish, Gens
  <2>3. \A r \in Sources : \A n \in Nat : n..upstream[r] \subseteq n..upstream'[r]
    BY <2>2
  <2>4. CatalogWasPublished' /\ UncheckedIsEmpty'
    BY <1>0, <1>1, <2>3 DEF CatalogWasPublished, UncheckedIsEmpty, HasSnapshot, Publish
  <2>5. row # None /\ row.validator # None => row.validator \in Nat
    BY <1>0 DEF TypeOK, Rows, Validators, Gens
  <2>6. \A c \in Checkers : check[c].validator # None => check[c].validator \in Nat
    BY <1>0 DEF TypeOK, Checks, Validators, Gens
  <2>7. (row # None /\ row.validator # None =>
           /\ HasSnapshot
           /\ row.identity \in Sources
           /\ \E g \in row.validator..upstream[row.identity] :
                catalog = Published[row.identity][g])'
    BY <1>0, <1>1, <2>3, <2>5 DEF CheckedInBetween, HasSnapshot, Publish
  <2>8. ASSUME NEW c \in Checkers
        PROVE (/\ check[c].at \in {"head", "fetch"} /\ check[c].validator # None =>
                    check[c].validator <= upstream[check[c].source]
               /\ check[c].at = "record" =>
                    \E g \in 0..upstream[check[c].source] :
                      /\ check[c].snapshot = Published[check[c].source][g]
                      /\ check[c].validator # None => check[c].validator <= g)'
    <3>1. check[c].at # "idle" => check[c].source \in Sources
      BY <1>0 DEF TypeOK
    <3> QED BY <1>0, <1>1, <2>2, <2>3, <2>6, <3>1 DEF CheckedInBetween, Publish
  <2> QED BY <2>1, <2>4, <2>7, <2>8 DEF CatalogInv, CheckedInBetween
<1>2. CASE EditConfig \/ FindOrphan
  <2>1. TypeOK'
    <3>1. conf' \in Sources \cup {None}
      BY <1>0, <1>2 DEF TypeOK, EditConfig, FindOrphan
    <3>2. edits' \in Nat
      BY <1>0, <1>2 DEF TypeOK, EditConfig, FindOrphan
    <3>3. cleaner' \in BOOLEAN
      BY <1>0, <1>2 DEF TypeOK, EditConfig, FindOrphan
    <3>4. /\ upstream' = upstream /\ row' = row /\ era' = era /\ catalog' = catalog
          /\ check' = check /\ label' = label /\ copy' = copy /\ reading' = reading
      BY <1>2 DEF EditConfig, FindOrphan
    <3> QED BY <1>0, <3>1, <3>2, <3>3, <3>4 DEF TypeOK
  <2>2. CatalogWasPublished' /\ UncheckedIsEmpty'
    BY <1>0, <1>2 DEF CatalogWasPublished, UncheckedIsEmpty, HasSnapshot, EditConfig, FindOrphan
  <2>3. CheckedInBetween'
    BY <1>0, <1>2 DEF CheckedInBetween, HasSnapshot, EditConfig, FindOrphan
  <2> QED BY <2>1, <2>2, <2>3 DEF CatalogInv
<1>3. CASE DeleteRows
  <2>1. Empty \in Catalogs
    BY DEF Empty, Catalogs
  <2>2. TypeOK'
    <3>1. row' \in Rows \cup {None} /\ catalog' \in Catalogs /\ cleaner' \in BOOLEAN
      BY <1>3, <2>1 DEF DeleteRows
    <3>2. era' \in Nat
      BY <1>0, <1>3 DEF TypeOK, DeleteRows
    <3>3. /\ upstream' = upstream /\ conf' = conf /\ edits' = edits
          /\ check' = check /\ label' = label /\ copy' = copy /\ reading' = reading
      BY <1>3 DEF DeleteRows
    <3> QED BY <1>0, <3>1, <3>2, <3>3 DEF TypeOK
  <2>3. CatalogWasPublished' /\ UncheckedIsEmpty'
    BY <1>3 DEF CatalogWasPublished, UncheckedIsEmpty, HasSnapshot, DeleteRows
  <2>4. CheckedInBetween'
    BY <1>0, <1>3 DEF CheckedInBetween, DeleteRows
  <2> QED BY <2>2, <2>3, <2>4 DEF CatalogInv
<1>4. CASE DropCopy \/ ReadRevision \/ ReadPackages
  <2>1. StoredRevision \in Nat \cup {None}
    BY <1>0 DEF StoredRevision, TypeOK, Rows
  <2>2. Filenames(catalog) \in [Keys -> Files \cup {None}]
    BY <1>0 DEF Filenames, TypeOK, Catalogs, Entries
  <2>3. TypeOK'
    BY <1>0, <1>4, <2>1, <2>2
       DEF TypeOK, DropCopy, ReadRevision, ReadPackages, listenerFrame, Labels
  <2>4. CatalogWasPublished' /\ UncheckedIsEmpty' /\ CheckedInBetween'
    BY <1>0, <1>4 DEF CatalogWasPublished, UncheckedIsEmpty, HasSnapshot, CheckedInBetween,
                      DropCopy, ReadRevision, ReadPackages, listenerFrame
  <2> QED BY <2>3, <2>4 DEF CatalogInv
<1> QED BY <1>1, <1>2, <1>3, <1>4

\* A step that changes none of it.
LEMMA CatalogStutter == CatalogInv /\ UNCHANGED vars => CatalogInv'
BY DEF CatalogInv, TypeOK, CatalogWasPublished, UncheckedIsEmpty, HasSnapshot,
       CheckedInBetween, vars

\* The types, the attribution of the stored catalog and the interval between
\* HEAD and GET hold in every reachable state (check_index, record_snapshot).
THEOREM CatalogInvariant == Spec => []CatalogInv
<1>1. CatalogInv /\ [Next]_vars => CatalogInv'
  BY CheckStep, OtherStep, CatalogStutter DEF Next
<1> QED BY <1>1, CatalogInit, PTL DEF Spec

\* The stored catalog is always one its source published.
THEOREM CatalogAlwaysPublished == Spec => []CatalogWasPublished
BY CatalogInvariant, PTL DEF CatalogInv

\* The validators of a row are those of its catalog.
LEMMA Vouched == CatalogInv => VouchedIndex
<1> SUFFICES ASSUME CatalogInv, row # None, conf # None, row.identity = conf,
                    row.validator = upstream[conf]
             PROVE  catalog = Published[conf][upstream[conf]]
  BY DEF VouchedIndex
<1>1. conf \in Sources /\ upstream[conf] \in Nat
  BY DEF CatalogInv, TypeOK, Gens
<1>2. row.validator # None
  BY <1>1, NoneAssumption
<1>3. PICK g \in row.validator..upstream[conf] : catalog = Published[conf][g]
  BY <1>2 DEF CatalogInv, CheckedInBetween
<1> QED BY <1>1, <1>3

\* The HEAD shortcut of check_index never hides a change of the index.
THEOREM VouchedAlways == Spec => []VouchedIndex
BY CatalogInvariant, Vouched, PTL

-----------------------------------------------------------------------------
(* The revision                                                              *)

\* A catalog is recorded with a higher revision.
LEMMA RevisionStep ==
  ASSUME CatalogInv, [Next]_vars, catalog' # catalog, row # None, row' # None
  PROVE  row'.revision > row.revision
<1>1. \E c \in Checkers : Record(c)
  BY DEF Next, CheckNext, vars, Publish, EditConfig, BeginCheck, HeadFails, HeadUnchanged,
         HeadChanged, FetchFails, Fetch, CheckDies, FindOrphan, DeleteRows, DropCopy,
         ReadRevision, ReadPackages, listenerFrame
<1>2. PICK c \in Checkers : Record(c)
  BY <1>1
<1>3. check[c].snapshot \in Catalogs /\ catalog \in Catalogs /\ row \in Rows \cup {None}
  BY <1>2 DEF CatalogInv, TypeOK, Checks
<1>4. catalog' = check[c].snapshot
  BY <1>2, <1>3, StoredIsSnapshot DEF Record
<1>5. row'.revision = NextRevision(catalog, check[c].snapshot)
  BY <1>2 DEF Record
<1> QED BY <1>3, <1>4, <1>5, NextRevisionFacts

\* No change of the catalog keeps its revision (record_snapshot's catalog_changed).
THEOREM RevisionAlwaysMoves == Spec => RevisionMovesWithCatalog
<1>1. CatalogInv /\ [Next]_vars =>
        [catalog' # catalog => \/ row = None \/ row' = None
                               \/ row'.revision > row.revision]_vars
  BY RevisionStep
<1> QED BY <1>1, CatalogInvariant, PTL DEF Spec, RevisionMovesWithCatalog

-----------------------------------------------------------------------------
(* The copy of the listener                                                  *)

\* The listener has no index yet.
LEMMA ListenerInit == Init => LabelsAreOld /\ LabelNamesCopy
BY DEF Init, LabelsAreOld, LabelNamesCopy

\* Steps that leave the listener alone, and never lower a revision of this era.
LEMMA LabelsSurvive ==
  ASSUME ListenerInv,
         UNCHANGED <<era, label, reading, copy>>,
         row' \in Rows \cup {None}, catalog' \in Catalogs,
         row # None => row' # None /\ row'.revision >= row.revision,
         row # None /\ catalog' # catalog => row'.revision > row.revision,
         row = None => catalog' = catalog \/ row' # None
  PROVE  (LabelsAreOld /\ LabelNamesCopy)'
<1> USE NoneAssumption
<1>1. /\ row \in Rows \cup {None} /\ era \in Nat
      /\ label \in Labels \cup {None} /\ reading \in Labels \cup {None}
  BY DEF ListenerInv, CatalogInv, TypeOK
<1>2. \A l \in Labels : l.revision \in Nat \cup {None} /\ l.era \in Nat
  BY DEF Labels
<1>3. \A r \in Rows : r.revision \in Nat
  BY DEF Rows
<1>4. LabelsAreOld'
  BY <1>1, <1>2, <1>3 DEF ListenerInv, LabelsAreOld
<1>5. SUFFICES ASSUME label # None, label.era = era, label.revision = StoredRevision'
               PROVE  copy = Filenames(catalog')
  BY <1>4 DEF LabelNamesCopy, Filenames
<1>6. CASE row' = None
  <2>1. row = None /\ catalog' = catalog
    BY <1>6
  <2> QED BY <1>5, <1>6, <2>1 DEF ListenerInv, LabelNamesCopy, StoredRevision
<1>7. CASE row' # None
  <2>1. label.revision = row'.revision /\ label.revision \in Nat
    BY <1>1, <1>3, <1>5, <1>7 DEF StoredRevision
  <2>2. row # None /\ label.revision <= row.revision
    BY <1>5, <2>1 DEF ListenerInv, LabelsAreOld
  <2>3. row.revision \in Nat /\ row'.revision \in Nat
    BY <1>1, <1>3, <1>7, <2>2
  <2>4. label.revision = row.revision
    BY <2>1, <2>2, <2>3
  <2>5. catalog' = catalog
    BY <2>1, <2>2, <2>3
  <2> QED BY <1>5, <2>2, <2>4, <2>5 DEF ListenerInv, LabelNamesCopy, StoredRevision
<1> QED BY <1>6, <1>7

\* Every step of the listener and of the checks.
LEMMA ListenerStep ==
  ASSUME ListenerInv, [Next]_vars
  PROVE  (LabelsAreOld /\ LabelNamesCopy)'
<1> USE NoneAssumption
<1>0. CatalogInv /\ LabelsAreOld /\ LabelNamesCopy
  BY DEF ListenerInv
<1>1. CatalogInv'
  BY <1>0, CheckStep, OtherStep, CatalogStutter DEF Next
<1>2. /\ row \in Rows \cup {None} /\ catalog \in Catalogs
      /\ row' \in Rows \cup {None} /\ catalog' \in Catalogs
      /\ era \in Nat /\ label \in Labels \cup {None} /\ reading \in Labels \cup {None}
  BY <1>0, <1>1 DEF CatalogInv, TypeOK
<1>3. \A r \in Rows : r.revision \in Nat
  BY DEF Rows
<1>4. ASSUME NEW c \in Checkers, CheckNext(c) PROVE (LabelsAreOld /\ LabelNamesCopy)'
  <2>1. UNCHANGED <<era, label, reading, copy>>
    BY <1>4 DEF CheckNext, BeginCheck, HeadFails, HeadUnchanged, HeadChanged, FetchFails,
                Fetch, Record, CheckDies, checkFrame
  <2>2. CASE Record(c)
    <3>1. check[c].snapshot \in Catalogs
      BY <1>0, <2>2 DEF CatalogInv, TypeOK, Checks
    <3>2. catalog' = check[c].snapshot
      BY <1>2, <2>2, <3>1, StoredIsSnapshot DEF Record
    <3>3. row'.revision = NextRevision(catalog, check[c].snapshot) /\ row'.checked = TRUE
      BY <2>2 DEF Record
    <3>4. row' # None
      <4>1. check[c].validator \in Validators /\ check[c].source \in Sources
        BY <1>0, <2>2 DEF CatalogInv, TypeOK, Checks, Record
      <4>2. row' \in Rows
        BY <1>2, <2>2, <3>1, <4>1, NextRevisionFacts DEF Record, Rows
      <4> QED BY <4>2
    <3> QED BY <1>2, <2>1, <3>1, <3>2, <3>3, <3>4, NextRevisionFacts, LabelsSurvive
  <2>3. CASE ~Record(c)
    <3>1. catalog' = catalog
      BY <1>4, <2>3 DEF CheckNext, BeginCheck, HeadFails, HeadUnchanged, HeadChanged,
                        FetchFails, Fetch, CheckDies
    <3>2. row' = row \/ row' = Diagnosed
      BY <1>4, <2>3 DEF CheckNext, BeginCheck, HeadFails, HeadUnchanged, HeadChanged,
                        FetchFails, Fetch, CheckDies
    <3>3. row # None => row' = row
      BY <1>2, <3>2, DiagnosedFacts
    <3> QED BY <1>2, <1>3, <2>1, <3>1, <3>3, LabelsSurvive
  <2> QED BY <2>2, <2>3
<1>5. CASE \/ \E s \in Sources : Publish(s)
           \/ EditConfig \/ FindOrphan \/ UNCHANGED vars
  <2>1. UNCHANGED <<era, label, reading, copy, row, catalog>>
    BY <1>5 DEF Publish, EditConfig, FindOrphan, vars
  <2> QED BY <1>2, <1>3, <2>1, LabelsSurvive
<1>6. CASE DeleteRows
  <2>1. era' = era + 1 /\ label' = label /\ reading' = reading
    BY <1>6 DEF DeleteRows
  <2>2. \A l \in {label, reading} \ {None} : l.era \in Nat /\ l.era <= era
    BY <1>0, <1>2 DEF LabelsAreOld, Labels
  <2> QED BY <1>2, <2>1, <2>2 DEF LabelsAreOld, LabelNamesCopy
<1>7. CASE DropCopy
  BY <1>0, <1>7 DEF DropCopy, LabelsAreOld, LabelNamesCopy, listenerFrame
<1>8. CASE ReadRevision
  <2>1. /\ reading' = [revision |-> StoredRevision, source |-> conf, era |-> era]
        /\ UNCHANGED <<row, era, catalog, label, copy>>
    BY <1>8 DEF ReadRevision, listenerFrame
  <2>2. row # None => row.revision \in Nat /\ row.revision <= row.revision
    BY <1>2, <1>3
  <2> QED BY <1>0, <1>2, <2>1, <2>2 DEF LabelsAreOld, LabelNamesCopy, StoredRevision
<1>9. CASE ReadPackages
  <2>1. UNCHANGED <<row, era, catalog>> /\ reading' = None /\ reading # None
    BY <1>9 DEF ReadPackages, listenerFrame
  <2>2. CASE SameLabel
    BY <1>0, <1>9, <2>1, <2>2 DEF ReadPackages, LabelsAreOld, LabelNamesCopy, StoredRevision
  <2>3. CASE ~SameLabel
    <3>1. label' = reading /\ copy' = IF HasSnapshot THEN Filenames(catalog)
                                     ELSE [k \in Keys |-> None]
      BY <1>9, <2>3 DEF ReadPackages
    <3>2. copy' = Filenames(catalog)
      BY <1>0, <3>1 DEF CatalogInv, UncheckedIsEmpty, Filenames, Empty
    <3> QED BY <1>0, <2>1, <3>1, <3>2 DEF LabelsAreOld, LabelNamesCopy, StoredRevision, Filenames
  <2> QED BY <2>2, <2>3
<1> QED BY <1>4, <1>5, <1>6, <1>7, <1>8, <1>9 DEF Next

\* Reading the revision before the packages never labels old packages with a
\* newer revision of the same row (refresh_package_indexes).
THEOREM ListenerInvariant == Spec => []ListenerInv
<1>1. Init => ListenerInv
  BY CatalogInit, ListenerInit DEF ListenerInv
<1>2. ListenerInv /\ [Next]_vars => ListenerInv'
  BY ListenerStep, CheckStep, OtherStep, CatalogStutter DEF ListenerInv, Next
<1> QED BY <1>1, <1>2, PTL DEF Spec

\* The property the runs check, by itself.
THEOREM LabelAlwaysNamesCopy == Spec => []LabelNamesCopy
BY ListenerInvariant, PTL DEF ListenerInv
=============================================================================
