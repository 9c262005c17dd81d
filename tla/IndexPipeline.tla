--------------------------- MODULE IndexPipeline ---------------------------
(***************************************************************************)
(* The indexing pipeline of codebase-memory-mcp for one project.           *)
(*                                                                         *)
(* A run (cbm_pipeline_run) discovers the files of a repository, decides   *)
(* between an incremental update of the project's SQLite file and a full   *)
(* rebuild, parses files into an in-memory graph buffer, writes the buffer *)
(* over the SQLite file and finally records one mtime/size row per file.   *)
(* Meanwhile the repository is edited, ADRs are written to the same file,  *)
(* the UI deletes the project, queries quarantine an unreadable file, the  *)
(* run is cancelled and the process dies.                                  *)
(*                                                                         *)
(* Data abstraction: the content of a file is the value of a clock that    *)
(* every edit advances; mtime+size identify it.  The graph of a file is    *)
(* the version it was parsed from.                                         *)
(***************************************************************************)
EXTENDS Integers, FiniteSets

CONSTANTS
    Files,        \* repository-relative paths
    FastSkipped,  \* the files MODERATE and FAST discovery leave out
    MaxClock,     \* bound: edits of the repository
    MaxAdr,       \* bound: distinct ADR texts
    MaxFaults     \* bound: crashes and failing calls

ASSUME FilesAssumption == FastSkipped \subseteq Files
ASSUME BoundsAssumption ==
    MaxClock \in Nat /\ MaxAdr \in Nat /\ MaxFaults \in Nat

None    == 0      \* no file on disk, no graph, no row, no ADR
Partial == -1     \* a File node without the file's resolved definitions

Modes    == {"full", "fast"}      \* MODERATE discovers like FAST
DbStates == {"absent", "empty", "corrupt", "ok"}
Kinds    == {"edit", "adr", "cancel", "delete", "query", "fault"}
PCs      == {"done", "discover", "route", "delete_db", "structure",
             "classify", "load", "parse", "predump", "replace_db", "dump",
             "dumping", "persist_open", "persist"}

NoFiles == [f \in Files |-> None]

VARIABLES
    \* the repository
    disk, clock,
    \* the project's SQLite file: its state, the graph, file_hashes, the ADR
    dbState, dbNodes, dbRows, dbAdr,
    \* the run: where it is and cbm_pipeline_t
    pc, mode, route, files, changed, carried, gbuf, toParse, toPersist,
    savedAdr, cancelled, rc,
    \* history, read by properties only
    suspect, dbSuspect, disturbed, missing, adrAtStart, hidden, faults

repo    == <<disk, clock>>
db      == <<dbState, dbNodes, dbRows, dbAdr>>
run     == <<pc, mode, route, files, changed, carried, gbuf, toParse,
             toPersist, savedAdr, cancelled, rc>>
atStart == <<adrAtStart, hidden>>
history == <<suspect, dbSuspect, disturbed, missing, atStart, faults>>
vars    == <<repo, db, run, history>>

----------------------------------------------------------------------------
(* What the code computes from the repository and the database.            *)

\* cbm_discover_ex with the mode's filters.
Discovered(m) ==
    {f \in Files : disk[f] # None /\ (m = "full" \/ f \notin FastSkipped)}

\* cbm_store_get_file_hashes: nothing in a file without a schema or rows.
Stored == IF dbState = "ok" THEN dbRows ELSE NoFiles

HashCount == Cardinality({f \in Files : Stored[f] # None})

\* Incremental only while the discovered files are at most half more than
\* the stored rows.
FitsIncremental ==
    /\ HashCount > 0
    /\ Cardinality(files) <= HashCount + (HashCount \div 2)

ChangedFiles ==
    {f \in files : Stored[f] = None \/ disk[f] # Stored[f]}

\* Faulty variants: a deletion is never seen; every file the discovery did
\* not visit counts as deleted.
DeletedNever == {}
DeletedIfNotVisited == {f \in Files \ files : Stored[f] # None}

DeletedFiles ==
    {f \in Files \ files : Stored[f] # None /\ disk[f] = None}

\* Faulty variant: the rows of files not visited are dropped.
CarriedNone == NoFiles

\* Rows of files the discovery did not visit but that are still on disk.
CarriedRows ==
    [f \in Files |->
        IF f \notin files /\ disk[f] # None THEN Stored[f] ELSE None]

\* Files whose graph this run has settled but whose row it has not written:
\* an edit now gets the row of a version that was not parsed.
Settled == (files \cap toPersist) \ toParse

\* History: the files whose row, or lack of one, agrees with the disk although
\* their graph does not.  A comparison of rows cannot find them.
Overlooked == {f \in Files : dbRows[f] = disk[f] /\ dbNodes[f] # disk[f]}

----------------------------------------------------------------------------
Init ==
    /\ disk \in [Files -> {None, 1}]
    /\ clock = 1
    /\ dbState = "absent" /\ dbNodes = NoFiles /\ dbRows = NoFiles
    /\ dbAdr = None
    /\ pc = "done" /\ mode = "full" /\ route = "none"
    /\ files = {} /\ changed = {} /\ carried = NoFiles /\ gbuf = NoFiles
    /\ toParse = {} /\ toPersist = {} /\ savedAdr = None
    /\ cancelled = FALSE /\ rc = "none"
    /\ suspect = {} /\ dbSuspect = {} /\ disturbed = {} /\ missing = {}
    /\ adrAtStart = None /\ hidden = {} /\ faults = 0

\* cleanup: the graph buffer and the pipeline are freed.
Finish(result) ==
    /\ pc' = "done" /\ rc' = result
    /\ changed' = {} /\ carried' = NoFiles /\ gbuf' = NoFiles
    /\ toParse' = {} /\ toPersist' = {} /\ savedAdr' = None
    /\ UNCHANGED <<mode, route, files, cancelled>>

\* A call that may fail does: counted against MaxFaults.
Fault ==
    /\ faults < MaxFaults
    /\ faults' = faults + 1
    /\ disturbed' = disturbed \cup {"fault"}

\* cbm_pipeline_new, and cbm_pipeline_run entered.
Start(m) ==
    /\ pc = "done"
    /\ pc' = "discover" /\ mode' = m /\ route' = "none" /\ files' = {}
    /\ cancelled' = FALSE /\ rc' = "none"
    /\ suspect' = {} /\ disturbed' = {} /\ adrAtStart' = dbAdr
    /\ missing' = {f \in Files : disk[f] = None}
    /\ hidden' = Overlooked
    /\ UNCHANGED <<repo, db, changed, carried, gbuf, toParse, toPersist,
                   savedAdr, dbSuspect, faults>>

Discover ==
    /\ pc = "discover"
    /\ IF cancelled
       THEN Finish("error")
       ELSE /\ pc' = "route"
            /\ files' = Discovered(mode)
            /\ UNCHANGED <<mode, route, changed, carried, gbuf, toParse,
                           toPersist, savedAdr, cancelled, rc>>
    /\ UNCHANGED <<repo, db, history>>

DiscoverFails ==
    /\ pc = "discover"
    /\ Fault
    /\ Finish("error")
    /\ UNCHANGED <<repo, db, suspect, dbSuspect, missing, atStart>>

----------------------------------------------------------------------------
(* try_incremental_or_delete_db                                            *)

GoTo(label, r) ==
    /\ pc' = label /\ route' = r
    /\ UNCHANGED <<mode, files, changed, carried, gbuf, toParse, toPersist,
                   cancelled, rc>>

RouteNoDb ==
    /\ pc = "route" /\ dbState = "absent"
    /\ GoTo("structure", "full")
    /\ UNCHANGED <<repo, db, history, savedAdr>>

RouteIncremental ==
    /\ pc = "route" /\ dbState # "absent"
    /\ FitsIncremental
    /\ GoTo("classify", "incremental")
    /\ UNCHANGED <<repo, db, history, savedAdr>>

\* Faulty variant: the file goes without the ADR having been read.
RouteReindexForgetsAdr ==
    /\ pc = "route" /\ dbState # "absent"
    /\ ~FitsIncremental
    /\ GoTo("delete_db", "full")
    /\ UNCHANGED <<repo, db, history, savedAdr>>

\* The ADR is read through a connection of its own, then the file goes.
RouteReindex ==
    /\ pc = "route" /\ dbState # "absent"
    /\ ~FitsIncremental
    /\ savedAdr' = dbAdr
    /\ GoTo("delete_db", "full")
    /\ UNCHANGED <<repo, db, history>>

\* The SQLite file is unlinked: nothing of it is left at its path.
NoDb == dbNodes' = NoFiles /\ dbRows' = NoFiles /\ dbAdr' = None

DeleteDb ==
    /\ pc = "delete_db"
    /\ dbState' = "absent" /\ NoDb
    /\ GoTo("structure", "full")
    /\ UNCHANGED <<repo, history, savedAdr>>

----------------------------------------------------------------------------
(* cbm_pipeline_run_incremental: classify, then load and purge.            *)

Classify ==
    /\ pc = "classify"
    /\ dbState' = IF dbState = "absent" THEN "empty" ELSE dbState
    /\ IF ChangedFiles = {} /\ DeletedFiles = {}
       THEN /\ Finish("ok")
            /\ UNCHANGED suspect
       ELSE /\ pc' = "load"
            /\ changed' = ChangedFiles
            /\ carried' = CarriedRows
            /\ toParse' = ChangedFiles
            /\ toPersist' =
                 files \cup {f \in Files : CarriedRows[f] # None}
            /\ suspect' =
                 IF dbState = "ok"
                 THEN dbSuspect \ (ChangedFiles \cup DeletedFiles) ELSE {}
            /\ gbuf' = [f \in Files |-> IF f \in DeletedFiles
                                        THEN None ELSE Partial]
            /\ UNCHANGED <<mode, route, files, savedAdr, cancelled, rc>>
    /\ UNCHANGED <<repo, dbNodes, dbRows, dbAdr, dbSuspect, disturbed,
                   missing, atStart, faults>>

\* Faulty variant: the existing graph is not loaded.
LoadNothing ==
    /\ pc = "load"
    /\ dbState' = IF dbState = "absent" THEN "empty" ELSE dbState
    /\ gbuf' = [f \in Files |-> IF f \in changed THEN Partial ELSE None]
    /\ pc' = "parse"
    /\ UNCHANGED <<repo, dbNodes, dbRows, dbAdr, history, mode, route, files,
                   changed, carried, toParse, toPersist, savedAdr, cancelled,
                   rc>>

\* cbm_gbuf_load_from_db, the purge, and a File node per changed file.  The
\* buffer holds None for the deleted files until here.
Load ==
    /\ pc = "load"
    /\ dbState' = IF dbState = "absent" THEN "empty" ELSE dbState
    /\ gbuf' = [f \in Files |->
                  IF f \in changed THEN Partial
                  ELSE IF gbuf[f] = None THEN None ELSE dbNodes[f]]
    /\ pc' = "parse"
    /\ UNCHANGED <<repo, dbNodes, dbRows, dbAdr, history, mode, route, files,
                   changed, carried, toParse, toPersist, savedAdr, cancelled,
                   rc>>

\* A negative result: cbm_pipeline_run goes on as if there were no database,
\* without deleting it and without having read the ADR.
LoadFails ==
    /\ pc = "load"
    /\ Fault
    /\ pc' = "structure" /\ route' = "full"
    /\ changed' = {} /\ carried' = NoFiles /\ gbuf' = NoFiles
    /\ toParse' = {} /\ toPersist' = {}
    /\ UNCHANGED <<repo, db, mode, files, savedAdr, cancelled, rc, suspect,
                   dbSuspect, missing, atStart>>

----------------------------------------------------------------------------
(* Extraction.                                                             *)

\* pass_structure, and the cancellation check after it.
Structure ==
    /\ pc = "structure"
    /\ IF cancelled
       THEN Finish("error") /\ UNCHANGED suspect
       ELSE /\ pc' = "parse"
            /\ gbuf' = [f \in Files |-> IF f \in files
                                        THEN Partial ELSE None]
            /\ toParse' = files /\ toPersist' = files
            /\ suspect' = {}
            /\ UNCHANGED <<mode, route, files, changed, carried, savedAdr,
                           cancelled, rc>>
    /\ UNCHANGED <<repo, db, dbSuspect, disturbed, missing, atStart,
                   faults>>

Parse(f) ==
    /\ pc = "parse" /\ ~cancelled
    /\ f \in toParse /\ disk[f] # None
    /\ gbuf' = [gbuf EXCEPT ![f] = disk[f]]
    /\ toParse' = toParse \ {f}
    /\ UNCHANGED <<repo, db, history, pc, mode, route, files, changed,
                   carried, toPersist, savedAdr, cancelled, rc>>

\* Faulty variant: an unreadable file is tried again.
ParseRetries(f) ==
    /\ pc = "parse" /\ ~cancelled
    /\ f \in toParse
    /\ IF disk[f] = None THEN UNCHANGED <<faults, disturbed>> ELSE Fault
    /\ toParse' = IF toParse = {f} THEN {f} ELSE toParse \ {f}
    /\ suspect' = suspect \cup {f}
    /\ UNCHANGED <<repo, db, pc, mode, route, files, changed, carried, gbuf,
                   toPersist, savedAdr, cancelled, rc, dbSuspect, missing,
                   atStart>>

\* read_file fails: the file is gone, or it cannot be read just now.  The
\* pass counts an error and goes on.
ParseFails(f) ==
    /\ pc = "parse" /\ ~cancelled
    /\ f \in toParse
    /\ IF disk[f] = None THEN UNCHANGED <<faults, disturbed>> ELSE Fault
    /\ toParse' = toParse \ {f}
    /\ suspect' = suspect \cup {f}
    /\ UNCHANGED <<repo, db, pc, mode, route, files, changed, carried, gbuf,
                   toPersist, savedAdr, cancelled, rc, dbSuspect, missing,
                   atStart>>

\* The remaining passes ran to their end.
Resolved ==
    /\ pc = "parse" /\ ~cancelled /\ toParse = {}
    /\ pc' = IF route = "full" THEN "predump" ELSE "replace_db"
    /\ UNCHANGED <<repo, db, history, mode, route, files, changed, carried,
                   gbuf, toParse, toPersist, savedAdr, cancelled, rc>>

\* A pass of the full pipeline returns CBM_NOT_FOUND when cancelled.
AbortFull ==
    /\ pc = "parse" /\ cancelled /\ route = "full"
    /\ Finish("error")
    /\ UNCHANGED <<repo, db, history>>

\* The incremental pipeline ignores what its passes return: files that were
\* not parsed, and any number of those not resolved yet, stay partial.
CutIncremental ==
    /\ pc = "parse" /\ cancelled /\ route = "incremental"
    /\ \E cut \in SUBSET changed :
         /\ toParse \subseteq cut
         /\ gbuf' = [f \in Files |-> IF f \in cut THEN Partial ELSE gbuf[f]]
         /\ suspect' = suspect \cup cut
    /\ toParse' = {}
    /\ pc' = "replace_db"
    /\ UNCHANGED <<repo, db, mode, route, files, changed, carried, toPersist,
                   savedAdr, cancelled, rc, dbSuspect, disturbed, missing,
                   atStart, faults>>

\* run_predump_passes; a cancelled run returns 0 without a dump.
Predump ==
    /\ pc = "predump"
    /\ IF cancelled
       THEN Finish("ok")
       ELSE /\ pc' = "dump"
            /\ UNCHANGED <<mode, route, files, changed, carried, gbuf,
                           toParse, toPersist, savedAdr, cancelled, rc>>
    /\ UNCHANGED <<repo, db, history>>

----------------------------------------------------------------------------
(* dump_and_persist_hashes (full), dump_and_persist (incremental).         *)

ReplaceDb ==
    /\ pc = "replace_db"
    /\ dbState' = "absent" /\ NoDb
    /\ GoTo("dump", route)
    /\ UNCHANGED <<repo, history, savedAdr>>

\* cbm_writer_open truncates the file; it is unreadable until page 1, which
\* is written last.
DumpOpen ==
    /\ pc = "dump"
    /\ dbState' = "corrupt" /\ NoDb
    /\ GoTo("dumping", route)
    /\ UNCHANGED <<repo, history, savedAdr>>

\* cbm_writer_finalize.  The tables file_hashes and project_summaries are
\* written empty.  A file unlinked or renamed meanwhile is written in vain.
DumpFinish ==
    /\ pc = "dumping"
    /\ IF dbState = "corrupt"
       THEN /\ dbState' = "ok"
            /\ dbNodes' = gbuf /\ dbRows' = NoFiles /\ dbAdr' = None
       ELSE UNCHANGED db
    /\ GoTo("persist_open", route)
    /\ UNCHANGED <<repo, history, savedAdr>>

\* The file cannot be opened, or cannot be written to its end: the full
\* pipeline returns the error, the incremental one goes on.
DumpFails ==
    /\ pc \in {"dump", "dumping"}
    /\ Fault
    /\ IF route = "full"
       THEN Finish("error")
       ELSE GoTo("persist_open", route) /\ UNCHANGED savedAdr
    /\ UNCHANGED <<repo, db, suspect, dbSuspect, missing, atStart>>

\* cbm_store_open_path creates a missing file, and does not open an
\* unreadable one.  The captured ADR is restored.
PersistOpen ==
    /\ pc = "persist_open"
    /\ IF dbState = "corrupt"
       THEN Finish("ok") /\ UNCHANGED db
       ELSE /\ dbState' = IF dbState = "absent" THEN "empty" ELSE dbState
            /\ dbAdr' = IF savedAdr # None THEN savedAdr ELSE dbAdr
            /\ UNCHANGED <<dbNodes, dbRows>>
            /\ GoTo("persist", route) /\ UNCHANGED savedAdr
    /\ UNCHANGED <<repo, history>>

\* Faulty variant: the row is taken from the graph buffer.
PersistRowFromBuffer(f) ==
    /\ pc = "persist"
    /\ f \in toPersist
    /\ f \in files \/ toPersist \cap files = {}
    /\ dbRows' = IF dbState # "ok" THEN dbRows
                 ELSE [dbRows EXCEPT ![f] = gbuf[f]]
    /\ toPersist' = toPersist \ {f}
    /\ UNCHANGED <<repo, dbState, dbNodes, dbAdr, history, pc, mode, route,
                   files, changed, carried, gbuf, toParse, savedAdr,
                   cancelled, rc>>

\* One upsert: a visited file is stat'ed again, a carried row is copied.
\* Without a projects row the foreign key refuses it.
PersistRow(f) ==
    /\ pc = "persist"
    /\ f \in toPersist
    /\ f \in files \/ toPersist \cap files = {}
    /\ dbRows' = IF dbState # "ok" THEN dbRows
                 ELSE [dbRows EXCEPT ![f] = IF f \in files THEN disk[f]
                                            ELSE carried[f]]
    /\ toPersist' = toPersist \ {f}
    /\ UNCHANGED <<repo, dbState, dbNodes, dbAdr, history, pc, mode, route,
                   files, changed, carried, gbuf, toParse, savedAdr,
                   cancelled, rc>>

\* A failed artifact export fails a full run whose database is complete.
PersistDone ==
    /\ pc = "persist" /\ toPersist = {}
    /\ \/ Finish("ok")
       \/ route = "full" /\ Finish("error")
    /\ dbSuspect' = suspect
    /\ UNCHANGED <<repo, db, suspect, disturbed, missing, atStart, faults>>

----------------------------------------------------------------------------
(* The rest of the world.                                                  *)

Disturb(kind) == disturbed' = disturbed \cup {kind}

Edit(f) ==
    /\ clock < MaxClock
    /\ clock' = clock + 1
    /\ disk' = [disk EXCEPT ![f] = clock + 1]
    /\ suspect' = IF f \in Settled THEN suspect \cup {f} ELSE suspect
    /\ Disturb("edit")
    /\ UNCHANGED <<db, run, dbSuspect, missing, atStart, faults>>

Remove(f) ==
    /\ disk[f] # None
    /\ disk' = [disk EXCEPT ![f] = None]
    /\ suspect' = IF f \in Settled THEN suspect \cup {f} ELSE suspect
    /\ missing' = missing \cup {f}
    /\ Disturb("edit")
    /\ UNCHANGED <<clock, db, run, dbSuspect, atStart, faults>>

\* POST /api/adr and manage_adr on a fresh connection.
WriteAdr(a) ==
    /\ dbState # "corrupt" /\ a # dbAdr
    /\ dbAdr' = a
    /\ dbState' = IF dbState = "absent" THEN "empty" ELSE dbState
    /\ Disturb("adr")
    /\ UNCHANGED <<repo, dbNodes, dbRows, run, suspect, dbSuspect, missing,
                   atStart, faults>>

\* DELETE /api/project takes no lock.  A run that has classified but not
\* loaded then loads an empty graph for the files it will not parse.
HttpDelete ==
    /\ dbState # "absent"
    /\ dbState' = "absent" /\ NoDb
    /\ suspect' = IF pc = "load" THEN suspect \cup (toPersist \ toParse)
                  ELSE suspect
    /\ Disturb("delete")
    /\ UNCHANGED <<repo, run, dbSuspect, missing, atStart, faults>>

\* resolve_store renames a file that fails its check to .corrupt, also while
\* a run is writing it.
Quarantine ==
    /\ dbState = "corrupt"
    /\ dbState' = "absent"
    /\ Disturb("query")
    /\ UNCHANGED <<repo, dbNodes, dbRows, dbAdr, run, suspect, dbSuspect,
                   missing, atStart, faults>>

Cancel ==
    /\ pc # "done" /\ ~cancelled
    /\ cancelled' = TRUE
    /\ Disturb("cancel")
    /\ UNCHANGED <<repo, db, pc, mode, route, files, changed, carried, gbuf,
                   toParse, toPersist, savedAdr, rc, suspect, dbSuspect,
                   missing, atStart, faults>>

\* The process dies; the files stay.
Crash ==
    /\ pc # "done"
    /\ Fault
    /\ Finish("crashed")
    /\ dbSuspect' = IF pc \in {"persist_open", "persist"} /\ dbState = "ok"
                    THEN suspect \cup toPersist ELSE dbSuspect
    /\ UNCHANGED <<repo, db, suspect, missing, atStart>>

----------------------------------------------------------------------------
\* The steps a run takes by itself.
Step ==
    \/ Discover \/ RouteNoDb \/ RouteIncremental \/ RouteReindex \/ DeleteDb
    \/ Classify \/ Load \/ Structure
    \/ \E f \in Files : Parse(f) \/ ParseFails(f)
    \/ Resolved \/ AbortFull \/ CutIncremental \/ Predump
    \/ ReplaceDb \/ DumpOpen \/ DumpFinish \/ PersistOpen
    \/ \E f \in Files : PersistRow(f)
    \/ PersistDone

Failure == DiscoverFails \/ LoadFails \/ DumpFails \/ Crash

World ==
    \/ \E m \in Modes : Start(m)
    \/ \E f \in Files : Edit(f) \/ Remove(f)
    \/ \E a \in 1..MaxAdr : WriteAdr(a)
    \/ HttpDelete \/ Quarantine \/ Cancel

Next == Step \/ Failure \/ World

Spec == Init /\ [][Next]_vars
FairSpec == Spec /\ WF_vars(Step)
----------------------------------------------------------------------------
(* Properties.                                                             *)

Version == {Partial} \cup Nat

RepoTypeOK == disk \in [Files -> Nat] /\ clock \in Nat

DbTypeOK ==
    /\ dbState \in DbStates
    /\ dbNodes \in [Files -> Version]
    /\ dbRows \in [Files -> Nat]
    /\ dbAdr \in Nat

RunTypeOK ==
    /\ pc \in PCs /\ mode \in Modes
    /\ route \in {"none", "full", "incremental"}
    /\ files \subseteq Files /\ changed \subseteq Files
    /\ carried \in [Files -> Nat]
    /\ gbuf \in [Files -> Version]
    /\ toParse \subseteq Files /\ toPersist \subseteq Files
    /\ savedAdr \in Nat
    /\ cancelled \in BOOLEAN
    /\ rc \in {"none", "ok", "error", "crashed"}

HistoryTypeOK ==
    /\ suspect \subseteq Files /\ dbSuspect \subseteq Files
    /\ disturbed \subseteq Kinds /\ missing \subseteq Files
    /\ adrAtStart \in Nat /\ hidden \subseteq Files /\ faults \in Nat

\* Every variable holds a value of its kind.
TypeOK == RepoTypeOK /\ DbTypeOK /\ RunTypeOK /\ HistoryTypeOK

\* Whatever runs, edits, deletions, cancellations and crashes came before,
\* outside the writing of rows each file's row names exactly the version its
\* graph was parsed from, and a file without a row has no graph.  So the
\* mtime/size comparison of classify_files finds every difference.  The only
\* exceptions (dbSuspect) are files edited or removed between being settled
\* and being stat'ed again, files a run could not read, files a cancelled
\* incremental run left out, and files whose row a crash or a concurrent
\* deletion of the database kept from being consistent.
RowsMatchNodes ==
    (dbState = "ok" /\ pc \notin {"persist_open", "persist"})
        => \A f \in Files \ dbSuspect : dbRows[f] = dbNodes[f]

\* A run that ends well and that nothing interfered with leaves the graph of
\* the repository as it is: visited files at their current version, nothing of
\* a file that is gone.  A full run does so whatever it meets.  An incremental
\* one cannot repair what it cannot see (hidden): a file whose row already
\* named the version on disk when the run started, while its graph was of
\* another version, and a file that was gone and without a row then, while it
\* still had a graph, as a crash between two row upserts and a removal leave
\* it (find_deleted_files looks at rows only).
QuietRunIsExact ==
    (pc = "done" /\ rc = "ok" /\ disturbed \subseteq {"adr"})
        => /\ dbState = "ok"
           /\ \A f \in Files \ (IF route = "full" THEN {} ELSE hidden) :
                f \in files \/ disk[f] = None => dbNodes[f] = disk[f]

\* The additive merge: an incremental run about to replace the database
\* drops no file that was on disk all along, and leaves the graph of those
\* it did not visit alone (find_deleted_files).
MergeIsAdditive ==
    (route = "incremental" /\ pc \in {"parse", "replace_db"} /\ dbState = "ok")
        => \A f \in Files \ missing :
             IF f \in files THEN dbNodes[f] # None => gbuf[f] # None
                            ELSE gbuf[f] = dbNodes[f]

\* A full reindex that ends well keeps the ADR, edits of the repository
\* notwithstanding (issue 516).
FullRunKeepsAdr ==
    (pc = "done" /\ rc = "ok" /\ route = "full" /\ disturbed \subseteq {"edit"})
        => dbAdr = adrAtStart

\* Every run comes to its end, whatever it meets.
RunTerminates == pc # "done" ~> pc = "done"

\* pipeline.h: "Returns 0 on success ... Discovers files, extracts, resolves,
\* and dumps to SQLite", of a run that is at most cancelled.
SuccessMeansDumped ==
    (pc = "done" /\ rc = "ok" /\ disturbed \subseteq {"cancel"})
        => dbState = "ok"

\* The ADR survives a reindex by either route.
ReindexKeepsAdr ==
    (pc = "done" /\ rc = "ok" /\ disturbed \subseteq {"edit"})
        => dbAdr = adrAtStart

\* A file whose row is current is skipped by the next run: its graph has to
\* be current too, when nothing but the given kinds interfered.
SkipsOnlyCurrent(kinds) ==
    (pc = "done" /\ disturbed \subseteq kinds /\ dbState = "ok")
        => \A f \in Files :
             (dbRows[f] # None /\ dbRows[f] = disk[f])
                 => dbNodes[f] = disk[f]

\* pipeline_incremental.c: the pipeline "re-parses only changed files ...
\* Persists updated hashes", also when it is cancelled on the way.
CancelHidesNothing == SkipsOnlyCurrent({"cancel"})

\* classify_files: "changed[i] = true if files[i] needs re-parsing", also for
\* a file that was edited while a run was going on.
EditIsNoticed == SkipsOnlyCurrent({"edit"})

\* find_deleted_files: a file that is gone leaves no "orphaned graph nodes",
\* whatever became of the run before.
GoneIsPurged ==
    (pc = "done" /\ rc = "ok" /\ disturbed = {})
        => \A f \in Files : disk[f] = None => dbNodes[f] = None

\* The incremental pipeline operates on the existing database directly.
IncrementalKeepsDb ==
    (route = "incremental" /\ disturbed = {}) => dbState = "ok"
=============================================================================
