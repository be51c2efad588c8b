---------------------------- MODULE CatalogIndex ----------------------------
(***************************************************************************)
(* The catalog of one repository id: the index check that maintains it     *)
(* (operations/check.py, check_index), the transaction that stores it      *)
(* (storage/repositories.py, record_snapshot), the orphan deletion that    *)
(* forgets it (operations/cleanup.py), and the syslog listener that keeps  *)
(* a copy of it under a revision label (runtime/syslog.py).                *)
(*                                                                         *)
(* Several checkers exist because `check-once` is a process of its own     *)
(* beside the daemon; they share only the database.  An action is the code *)
(* between two awaits, or one transaction.  The origin of an index is      *)
(* external: it publishes generations, each with a validator of its own    *)
(* (ETag, or Last-Modified without one), and answers every request from    *)
(* the generation of that moment.                                          *)
(***************************************************************************)
EXTENDS Integers, FiniteSets

CONSTANTS
  Checkers,     \* processes that check the repository
  Sources,      \* the sources the id may be configured with
  Verified,     \* those checked with verify_signature
  Keys,         \* package keys (name-version)
  Files,        \* file names
  Hashes,       \* content hashes
  None,         \* no source, no validator, no package, no hash
  LastGen,      \* bound: the last generation an origin publishes
  Published,    \* the catalog of every generation of every source
  MaxRevision,  \* bound: the largest snapshot_revision
  MaxEdits      \* bound: edits of the configuration

Entries  == [file : Files, hash : Hashes \cup {None}]
Catalogs == [Keys -> Entries \cup {None}]
Empty    == [k \in Keys |-> None]

ASSUME GenAssumption == LastGen \in Nat
ASSUME PublishedAssumption == Published \in [Sources -> [0..LastGen -> Catalogs]]

VARIABLES
  upstream,  \* the generation each origin serves
  conf,      \* the source in config.yaml, None when the id is not listed
  edits,     \* edits of the configuration so far
  row,       \* repo_state: the row, or None
  era,       \* how often the row was deleted (not in the code: tells rows apart)
  catalog,   \* repo_packages
  check,     \* the check_index each checker is in
  cleaner,   \* purge_orphaned_repos has found the id absent from its Config
  label,     \* last_revision of the listener: what its copy is labelled with
  copy,      \* packages_by_repo of the listener
  reading    \* the label refresh_package_indexes has read, and no packages yet

vars == <<upstream, conf, edits, row, era, catalog, check, cleaner, label, copy, reading>>

Gens       == 0..LastGen
Validators == Gens \cup {None}
Rows       == [checked : BOOLEAN, validator : Validators, identity : Sources \cup {None},
               revision : Nat]
Labels     == [revision : Nat \cup {None}, source : Sources, era : Nat]
Idle       == [at |-> "idle", source |-> None, validator |-> None, snapshot |-> Empty]
Checks     == [at : {"idle", "head", "fetch", "record"}, source : Sources \cup {None},
               validator : Validators, snapshot : Catalogs]

ASSUME NoneAssumption ==
  None \notin Sources \cup Hashes \cup Files \cup Entries \cup Rows \cup Labels \cup Int

TypeOK ==
  /\ upstream \in [Sources -> Gens]
  /\ conf \in Sources \cup {None}
  /\ edits \in Nat
  /\ row \in Rows \cup {None}
  /\ era \in Nat
  /\ catalog \in Catalogs
  /\ check \in [Checkers -> Checks]
  /\ \A c \in Checkers : check[c].at # "idle" => check[c].source \in Sources
  /\ cleaner \in BOOLEAN
  /\ label \in Labels \cup {None}
  /\ copy \in [Keys -> Files \cup {None}]
  /\ reading \in Labels \cup {None}

-----------------------------------------------------------------------------
(***************************************************************************)
(* Comparing and storing snapshots                                         *)
(***************************************************************************)

Filenames(packages) ==
  [k \in Keys |-> IF packages[k] = None THEN None ELSE packages[k].file]

\* new_keys, removed_keys and modified_keys.  A hash that becomes known or
\* unavailable is no modification.
NewKeys(old, new)     == {k \in Keys : old[k] = None /\ new[k] # None}
RemovedKeys(old, new) == {k \in Keys : old[k] # None /\ new[k] = None}
ModifiedKeys(old, new) ==
  {k \in Keys : /\ old[k] # None
                /\ new[k] # None
                /\ \/ old[k].file # new[k].file
                   \/ /\ None \notin {old[k].hash, new[k].hash}
                      /\ old[k].hash # new[k].hash}

\* The user-facing difference: what makes an event and moves changed_at.
Changed(old, new) ==
  NewKeys(old, new) \cup RemovedKeys(old, new) \cup ModifiedKeys(old, new) # {}

\* What moves the revision: hash discovery and loss count too.
CatalogChanged(old, new) ==
  \/ Changed(old, new)
  \/ \E k \in Keys : old[k] # None /\ new[k] # None /\ old[k].hash # new[k].hash

\* record_key_expiry inserts a row without inventing a successful check.
Diagnosed ==
  IF row = None
  THEN [checked |-> FALSE, validator |-> None, identity |-> None, revision |-> 0]
  ELSE row

HasSnapshot == row # None /\ row.checked

\* Mutant: the validators of another source are used.
IndexMetaAnySource(source) == IF row = None THEN None ELSE row.validator

\* get_index_meta: validators are bound to the source they came from.
IndexMeta(source) ==
  IF row # None /\ row.identity = source THEN row.validator ELSE None

\* Mutant: only differences shown to the user move the revision.
NextRevisionChanged(old, new) ==
  IF row = None THEN 1 ELSE row.revision + (IF Changed(old, new) THEN 1 ELSE 0)

NextRevision(old, new) ==
  IF row = None THEN 1 ELSE row.revision + (IF CatalogChanged(old, new) THEN 1 ELSE 0)

\* Removed keys deleted, every other one upserted.
StoredCatalog(old, new) ==
  [k \in Keys |-> IF k \in RemovedKeys(old, new) THEN None ELSE new[k]]

-----------------------------------------------------------------------------
Init ==
  /\ upstream = [s \in Sources |-> 0]
  /\ conf \in Sources
  /\ edits = 0
  /\ row = None
  /\ era = 0
  /\ catalog = Empty
  /\ check = [c \in Checkers |-> Idle]
  /\ cleaner = FALSE
  /\ label = None
  /\ copy = [k \in Keys |-> None]
  /\ reading = None

checkFrame    == <<upstream, conf, edits, era, cleaner, label, copy, reading>>
listenerFrame == <<upstream, conf, edits, row, era, catalog, check, cleaner>>

\* The origin publishes its next generation.
Publish(s) ==
  /\ upstream[s] < LastGen
  /\ upstream' = [upstream EXCEPT ![s] = @ + 1]
  /\ UNCHANGED <<conf, edits, row, era, catalog, check, cleaner, label, copy, reading>>

\* The repository is edited, removed or added again under the same id.
EditConfig ==
  /\ edits < MaxEdits
  /\ edits' = edits + 1
  /\ conf' \in (Sources \cup {None}) \ {conf}
  /\ UNCHANGED <<upstream, row, era, catalog, check, cleaner, label, copy, reading>>

-----------------------------------------------------------------------------
(***************************************************************************)
(* check_index                                                             *)
(***************************************************************************)

\* The check starts with the configuration of this moment; _check_key_expiry
\* has nothing to say without signers and stores just that.
BeginCheck(c) ==
  /\ check[c].at = "idle"
  /\ conf # None
  /\ row' = Diagnosed
  /\ check' = [check EXCEPT ![c] =
                 [Idle EXCEPT !.at = "head", !.source = conf, !.validator = IndexMeta(conf)]]
  /\ UNCHANGED <<catalog, checkFrame>>

\* HEAD is only an optimisation: without an answer the index is downloaded,
\* and its validators stay unknown.
HeadFails(c) ==
  /\ check[c].at = "head"
  /\ check' = [check EXCEPT ![c].at = "fetch", ![c].validator = None]
  /\ UNCHANGED <<row, catalog, checkFrame>>

\* The shortcut: the validators are the stored ones, the source is not
\* verified and a snapshot exists, so only last_check moves.
HeadUnchanged(c) ==
  LET source == check[c].source IN
  /\ check[c].at = "head"
  /\ check[c].validator = upstream[source]
  /\ source \notin Verified
  /\ HasSnapshot
  /\ check' = [check EXCEPT ![c] = Idle]
  /\ UNCHANGED <<row, catalog, checkFrame>>

\* Otherwise the validators of the HEAD answer are kept for record_snapshot.
HeadChanged(c) ==
  LET source == check[c].source IN
  /\ check[c].at = "head"
  /\ \/ check[c].validator # upstream[source]
     \/ source \in Verified
     \/ ~HasSnapshot
  /\ check' = [check EXCEPT ![c].at = "fetch", ![c].validator = upstream[source]]
  /\ UNCHANGED <<row, catalog, checkFrame>>

\* The download or the verification fails: this cycle is skipped.
FetchFails(c) ==
  /\ check[c].at = "fetch"
  /\ check' = [check EXCEPT ![c] = Idle]
  /\ UNCHANGED <<row, catalog, checkFrame>>

\* The whole index arrives; the key diagnosis follows with its signers.
Fetch(c) ==
  LET source == check[c].source IN
  /\ check[c].at = "fetch"
  /\ check' = [check EXCEPT ![c].at = "record",
                            ![c].snapshot = Published[source][upstream[source]]]
  /\ row' = Diagnosed
  /\ UNCHANGED <<catalog, checkFrame>>

\* Mutant: the validators are asked for again once the index is there.
RecordRevalidated(c) ==
  LET source == check[c].source
      new    == check[c].snapshot IN
  /\ check[c].at = "record"
  /\ NextRevision(catalog, new) <= MaxRevision
  /\ row' = [checked |-> TRUE, validator |-> upstream[source], identity |-> source,
             revision |-> NextRevision(catalog, new)]
  /\ catalog' = StoredCatalog(catalog, new)
  /\ check' = [check EXCEPT ![c] = Idle]
  /\ UNCHANGED checkFrame

\* record_snapshot: one transaction, begun with the write lock.
Record(c) ==
  LET source == check[c].source
      new    == check[c].snapshot IN
  /\ check[c].at = "record"
  /\ NextRevision(catalog, new) <= MaxRevision
  /\ row' = [checked |-> TRUE, validator |-> check[c].validator, identity |-> source,
             revision |-> NextRevision(catalog, new)]
  /\ catalog' = StoredCatalog(catalog, new)
  /\ check' = [check EXCEPT ![c] = Idle]
  /\ UNCHANGED checkFrame

\* The process dies, or the task is cancelled with its repository.
CheckDies(c) ==
  /\ check[c].at # "idle"
  /\ check' = [check EXCEPT ![c] = Idle]
  /\ UNCHANGED <<row, catalog, checkFrame>>

-----------------------------------------------------------------------------
(***************************************************************************)
(* purge_orphaned_repos: the handler loads the configuration, then deletes *)
(***************************************************************************)

FindOrphan ==
  /\ conf = None
  /\ ~cleaner
  /\ row # None
  /\ cleaner' = TRUE
  /\ UNCHANGED <<upstream, conf, edits, row, era, catalog, check, label, copy, reading>>

DeleteRows ==
  /\ cleaner
  /\ cleaner' = FALSE
  /\ row' = None
  /\ catalog' = Empty
  /\ era' = era + 1
  /\ UNCHANGED <<upstream, conf, edits, check, label, copy, reading>>

-----------------------------------------------------------------------------
(***************************************************************************)
(* refresh_package_indexes: the revision first, the packages after it      *)
(***************************************************************************)

StoredRevision == IF row = None THEN None ELSE row.revision

\* Mutant: the packages are dropped and their label is kept.
DropCopyKeepsLabel ==
  /\ reading = None
  /\ conf = None
  /\ copy' = [k \in Keys |-> None]
  /\ UNCHANGED <<listenerFrame, reading, label>>

\* A repository that left the configuration is dropped with its label.
DropCopy ==
  /\ reading = None
  /\ conf = None
  /\ label' = None
  /\ copy' = [k \in Keys |-> None]
  /\ UNCHANGED <<listenerFrame, reading>>

ReadRevision ==
  /\ reading = None
  /\ conf # None
  /\ reading' = [revision |-> StoredRevision, source |-> conf, era |-> era]
  /\ UNCHANGED <<listenerFrame, label, copy>>

\* `last_revision.get(repo.id) == revision`
SameLabel == /\ label # None
             /\ label.revision = reading.revision
             /\ label.source = reading.source

\* get_packages answers nothing before a first successful check.
ReadPackages ==
  /\ reading # None
  /\ IF SameLabel THEN UNCHANGED <<label, copy>>
     ELSE /\ copy' = IF HasSnapshot THEN Filenames(catalog)
                     ELSE [k \in Keys |-> None]
          /\ label' = reading
  /\ reading' = None
  /\ UNCHANGED listenerFrame

-----------------------------------------------------------------------------
CheckNext(c) ==
  \/ BeginCheck(c)
  \/ HeadFails(c) \/ HeadUnchanged(c) \/ HeadChanged(c)
  \/ FetchFails(c) \/ Fetch(c)
  \/ Record(c)
  \/ CheckDies(c)

Next ==
  \/ \E s \in Sources : Publish(s)
  \/ EditConfig
  \/ \E c \in Checkers : CheckNext(c)
  \/ FindOrphan \/ DeleteRows
  \/ DropCopy \/ ReadRevision \/ ReadPackages

Spec == Init /\ [][Next]_vars

\* A due repository is checked (RepoDispatcher, DueIsChecked), the steps of a
\* started check run, an administrator's deletion ends, and the origin answers
\* a download sooner or later: FetchFails and CheckDies may happen any number
\* of times, but not for ever instead of a download that keeps being tried.
Fairness ==
  /\ WF_vars(DeleteRows)
  /\ \A c \in Checkers :
       /\ WF_vars(BeginCheck(c))
       /\ WF_vars(HeadFails(c) \/ HeadUnchanged(c) \/ HeadChanged(c))
       /\ SF_vars(HeadUnchanged(c) \/ HeadChanged(c))
       /\ SF_vars(Fetch(c))
       /\ SF_vars(Record(c))

-----------------------------------------------------------------------------
(***************************************************************************)
(* Properties                                                              *)
(***************************************************************************)

\* The HEAD shortcut hides nothing: while the stored validators are those the
\* configured source serves now, the stored catalog is the one it serves now.
\* The HEAD comes before the GET, two checkers may store out of order, and the
\* id may change its source under a running check.
VouchedIndex ==
  /\ row # None /\ conf # None
  /\ row.identity = conf
  /\ row.validator = upstream[conf]
  => catalog = Published[conf][upstream[conf]]

\* Whatever checkers, edits and deletions interleave, the catalog is one that
\* the source it is attributed to really published, never a mix.
CatalogWasPublished ==
  HasSnapshot =>
    /\ row.identity \in Sources
    /\ \E g \in 0..upstream[row.identity] : catalog = Published[row.identity][g]

\* Rows without a successful check have no packages, so get_packages may say so.
UncheckedIsEmpty == ~HasSnapshot => catalog = Empty

\* The label of the listener's copy is never newer than the copy: of the same
\* life of the row, an equal revision means equal packages ("can never label
\* old packages with a newer revision").
LabelNamesCopy ==
  /\ label # None
  /\ label.era = era
  /\ label.revision = StoredRevision
  => copy = Filenames(catalog)

\* The conjuncts that hold together, and say why: what a check carries and what
\* the row says lie between the generation of the HEAD and the one of the GET.
CheckedInBetween ==
  /\ row # None /\ row.validator # None =>
       /\ HasSnapshot
       /\ row.identity \in Sources
       /\ \E g \in row.validator..upstream[row.identity] :
            catalog = Published[row.identity][g]
  /\ \A c \in Checkers :
       /\ check[c].at \in {"head", "fetch"} /\ check[c].validator # None =>
            check[c].validator <= upstream[check[c].source]
       /\ check[c].at = "record" =>
            \E g \in 0..upstream[check[c].source] :
              /\ check[c].snapshot = Published[check[c].source][g]
              /\ check[c].validator # None => check[c].validator <= g

CatalogInv ==
  /\ TypeOK
  /\ CatalogWasPublished
  /\ UncheckedIsEmpty
  /\ CheckedInBetween

\* Labels come from this or an earlier life of the row, and never run ahead of it.
LabelsAreOld ==
  \A l \in {label, reading} \ {None} :
    /\ l.era <= era
    /\ l.era = era /\ l.revision # None =>
         /\ row # None
         /\ l.revision <= row.revision

ListenerInv == CatalogInv /\ LabelsAreOld /\ LabelNamesCopy

\* The same without telling the lives of the row apart, as the comparison in
\* refresh_package_indexes cannot: an equal label means the copy is current.
EqualLabelIsCurrent ==
  /\ label # None /\ conf # None /\ HasSnapshot
  /\ label.revision = StoredRevision /\ label.source = conf
  => copy = Filenames(catalog)

\* No change of the stored catalog, hashes included, keeps its revision: two
\* reads with one revision between them saw one catalog (what the listener and
\* the dedup evidence rely on).
RevisionMovesWithCatalog ==
  [][catalog' # catalog =>
       \/ row = None \/ row' = None
       \/ row'.revision > row.revision]_vars

\* A repository that keeps its source and whose origin keeps still is caught up
\* with and stays so, after any failed HEADs, lost checks and edits.
CatchesUp ==
  \A s \in Sources :
    <>[](conf = s) => <>[](catalog = Published[s][upstream[s]])
=============================================================================
