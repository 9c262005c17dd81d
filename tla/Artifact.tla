------------------------------ MODULE Artifact ------------------------------
(***************************************************************************)
(* The artifact of a project: its database, compressed into the repository *)
(* with a metadata file beside it, so that a teammate may start from it.   *)
(* A call of index_repository first imports the artifact if the project    *)
(* has no database, without the pipeline lock; then it runs the pipeline   *)
(* under the lock, and the run exports the artifact again.  Calls come     *)
(* from any thread and from any process; the lock is a process's own.      *)
(*                                                                         *)
(* Data abstraction: a database is [of, graph, rows]: the project it was   *)
(* built for, the version of the checkout its graph shows, and the version *)
(* its file_hashes rows stand for.  The rows of another checkout carry     *)
(* other mtimes (Foreign); a project finds no rows (NoRows) under another  *)
(* project's name.  A later version makes a larger database.  Edits during *)
(* a run, failing dumps and cancelled incremental runs are the subject of  *)
(* IndexPipeline.                                                          *)
(***************************************************************************)
EXTENDS Integers, FiniteSets

CONSTANTS
    Clients,     \* threads that handle index_repository
    Projects,
    Process,     \* client -> the process it runs in
    Elsewhere,   \* the name a project has in a checkout at another path
    None,        \* no file
    Torn,        \* a file that no write has completed
    Corrupt,     \* a complete file that fails the integrity check
    MaxVersion,  \* bound: versions of a checkout
    MaxCalls,    \* bound: calls
    MaxFaults    \* bound: cancelled runs, failed writes, crashes

Nobody  == "nobody"
NoRows  == 0
Foreign == -1

Versions == 1..MaxVersion
Database(p, graph, rows) == [of |-> p, graph |-> graph, rows |-> rows]
Schema(p) == Database(p, 0, NoRows)     \* what opening an absent file creates

Graphs == 0..MaxVersion
Databases ==
    [of : Projects \cup {Elsewhere}, graph : Graphs,
     rows : Graphs \cup {Foreign}]
Marks    == {None, Torn, Corrupt}
Contents == Databases \cup Marks

\* Projects have no other project's name, and a file is not a mark.
ASSUME ProjectsAssumption == Elsewhere \notin Projects
ASSUME MarksAssumption ==
    /\ None # Torn /\ None # Corrupt /\ Torn # Corrupt
    /\ Marks \cap Databases = {}
ASSUME NobodyAssumption == Nobody \notin Clients
\* A checkout has an earlier version, which the artifact shows.
ASSUME VersionAssumption == MaxVersion \in Nat \ {0, 1}

VARIABLES
    head,     \* version of the checkout
    db,       \* the file in the cache
    zst,      \* .codebase-memory/graph.db.zst
    meta,     \* artifact.json, as the database whose size it states
    import,   \* <db>.import_tmp
    vacuum,   \* cbm_artifact_tmp.db in the directory for temporary files
    lock,     \* holder of the pipeline lock of a process
    pc, on, persist, full, got, limit,    \* of a client
    mine,     \* the path of the database still names the file the dump writes
    done,     \* history: the version a completed run has reported
    raced,    \* history: an import replaced the file a run was writing, and
              \* something of that may be left
    unpaired, \* history: an export ended between its two files
    calls, faults

files  == <<db, zst, meta, import, vacuum>>
client == <<pc, on, persist, full, got, limit, mine>>
hist   == <<done, raced, unpaired, calls, faults>>
vars   == <<head, files, lock, client, hist>>

Processes == {Process[c] : c \in Clients}

\* What a clone brings: no artifact, a damaged one, or that of a teammate.
Arrivals(p) ==
    {None, Corrupt, Database(p, 1, Foreign), Database(Elsewhere, 1, Foreign)}

Init ==
    /\ head = [p \in Projects |-> MaxVersion - 1]
    /\ db = [p \in Projects |-> None]
    /\ zst \in [Projects -> UNION {Arrivals(p) : p \in Projects}]
    /\ \A p \in Projects : zst[p] \in Arrivals(p)
    /\ meta = zst
    /\ import = [p \in Projects |-> None]
    /\ vacuum = None
    /\ lock = [s \in Processes |-> Nobody]
    /\ pc = [c \in Clients |-> "idle"]
    /\ on \in [Clients -> Projects]
    /\ persist = [c \in Clients |-> FALSE]
    /\ full = [c \in Clients |-> FALSE]
    /\ got = [c \in Clients |-> None]
    /\ limit = [c \in Clients |-> None]
    /\ mine = [c \in Clients |-> FALSE]
    /\ done = [p \in Projects |-> 0]
    /\ raced = {} /\ unpaired = {} /\ calls = 0 /\ faults = 0

----------------------------------------------------------------------------
(* Surroundings.                                                           *)

Busy(p) == {c \in Clients : pc[c] # "idle" /\ on[c] = p}

Edit(p) ==
    /\ head[p] < MaxVersion /\ Busy(p) = {}
    /\ head' = [head EXCEPT ![p] = @ + 1]
    /\ UNCHANGED <<files, lock, client, hist>>

\* delete_project, under the lock of its process.
Delete(p) ==
    /\ db[p] # None /\ faults < MaxFaults
    /\ \E s \in Processes : lock[s] = Nobody
    /\ db' = [db EXCEPT ![p] = None]
    /\ done' = [done EXCEPT ![p] = 0]
    /\ faults' = faults + 1
    /\ UNCHANGED <<head, zst, meta, import, vacuum, lock, client, raced,
                   unpaired, calls>>

Goto(c, where) == pc' = [pc EXCEPT ![c] = where]

\* index_repository is called; a run of the watcher or of auto-indexing
\* begins at the lock and does not ask for persistence.
Call(c, p, b, start) ==
    /\ pc[c] = "idle" /\ calls < MaxCalls
    /\ start = "wait" => ~b
    /\ calls' = calls + 1
    /\ on' = [on EXCEPT ![c] = p]
    /\ persist' = [persist EXCEPT ![c] = b]
    /\ Goto(c, start)
    /\ UNCHANGED <<head, files, lock, full, got, limit, mine, done, raced,
                   unpaired, faults>>

----------------------------------------------------------------------------
(* try_artifact_bootstrap.                                                 *)

Exists(p) == zst[p] # None /\ meta[p] # None

Check(c) ==
    LET p == on[c]
    IN  /\ pc[c] = "check"
        /\ Goto(c, IF db[p] = None /\ Exists(p) THEN "import" ELSE "wait")
        /\ UNCHANGED <<head, files, lock, on, persist, full, got, limit, mine,
                       hist>>

\* cbm_artifact_import reads the metadata first.
ReadMeta(c) ==
    LET p == on[c]
    IN  /\ pc[c] = "import"
        /\ limit' = [limit EXCEPT ![c] = meta[p]]
        /\ Goto(c, IF meta[p] = None THEN "wait" ELSE "unpack")
        /\ UNCHANGED <<head, files, lock, on, persist, full, got, mine, hist>>

\* The buffer has the size the metadata states.
Fits(content, stated) ==
    \/ content = stated
    \/ /\ content \notin {None, Torn, Corrupt}
       /\ stated \notin {Torn, Corrupt}
       /\ content.graph <= stated.graph

Unpack(c) ==
    LET p == on[c]
    IN  /\ pc[c] = "unpack"
        /\ got' = [got EXCEPT ![c] = zst[p]]
        /\ Goto(c, IF zst[p] # None /\ Fits(zst[p], limit[c]) THEN "write"
                   ELSE "wait")
        /\ UNCHANGED <<head, files, lock, on, persist, full, limit, mine, hist>>

WriteImport(c) ==
    /\ pc[c] = "write"
    /\ import' = [import EXCEPT ![on[c]] = got[c]]
    /\ Goto(c, "open")
    /\ UNCHANGED <<head, db, zst, meta, vacuum, lock, on, persist, full, got,
                   limit, mine, hist>>

\* The store opens the temporary file, creates it when it is gone, and its
\* integrity is checked.
OpenImport(c) ==
    LET p == on[c]
    IN  /\ pc[c] = "open"
        /\ import' = [import EXCEPT ![p] =
                        CASE @ = None    -> Schema(p)
                          [] @ \in {Torn, Corrupt} -> None
                          [] OTHER       -> @]
        /\ Goto(c, IF import[p] \in {Torn, Corrupt} THEN "wait" ELSE "install")
        /\ UNCHANGED <<head, db, zst, meta, vacuum, lock, on, persist, full,
                       got, limit, mine, hist>>

Writing(p) == {c \in Clients : on[c] = p /\ pc[c] \in {"dumping", "stamp"}}

\* Faulty variant: the rows get the mtimes of this checkout.
ImportedRestamped(p, content) ==
    IF content \in {Torn, Corrupt} THEN content
    ELSE [content EXCEPT !.rows = head[p]]

\* The rows of an imported file, as the project finds them.
Imported(p, content) ==
    IF content \in {Torn, Corrupt} THEN content
    ELSE IF content.of # p THEN [content EXCEPT !.rows = NoRows]
    ELSE content

\* The rename over the database, whatever is there by now; it fails when
\* another import has moved the temporary file.
Install(c) ==
    LET p == on[c]
    IN  /\ pc[c] = "install"
        /\ Goto(c, "wait")
        /\ IF import[p] = None
           THEN UNCHANGED <<db, import, mine, raced>>
           ELSE /\ db' = [db EXCEPT ![p] = Imported(p, import[p])]
                /\ import' = [import EXCEPT ![p] = None]
                /\ mine' = [d \in Clients |-> mine[d] /\ on[d] # p]
                /\ raced' = IF Writing(p) = {} THEN raced ELSE raced \cup {p}
        /\ UNCHANGED <<head, zst, meta, vacuum, lock, on, persist, full, got,
                       limit, done, unpaired, calls, faults>>

----------------------------------------------------------------------------
(* The run.                                                                *)

\* Faulty variant: the lock is taken whoever holds it.
AcquireAlways(c) ==
    /\ pc[c] = "wait"
    /\ lock' = [lock EXCEPT ![Process[c]] = c]
    /\ Goto(c, "route")
    /\ UNCHANGED <<head, files, on, persist, full, got, limit, mine, hist>>

Acquire(c) ==
    /\ pc[c] = "wait"
    /\ lock[Process[c]] = Nobody
    /\ lock' = [lock EXCEPT ![Process[c]] = c]
    /\ Goto(c, "route")
    /\ UNCHANGED <<head, files, on, persist, full, got, limit, mine, hist>>

\* The run ends: the lock is free and the call answers.
Leave(c, version) ==
    /\ lock' = [lock EXCEPT ![Process[c]] = IF @ = c THEN Nobody ELSE @]
    /\ Goto(c, "idle")
    /\ got' = [got EXCEPT ![c] = None]
    /\ limit' = [limit EXCEPT ![c] = None]
    /\ mine' = [mine EXCEPT ![c] = FALSE]
    /\ full' = [full EXCEPT ![c] = FALSE]
    /\ done' = [done EXCEPT ![on[c]] = version]
    /\ UNCHANGED <<on, persist>>

Succeed(c) == Leave(c, head[on[c]])

Fail(c) == Leave(c, 0) /\ faults < MaxFaults /\ faults' = faults + 1

Readable(p) == db[p] \notin {None, Torn, Corrupt}
HasRows(p) == Readable(p) /\ db[p].rows # NoRows

\* Faulty variant: rows that are there are up to date.
UpToDateIfRows(c) ==
    /\ pc[c] = "route" /\ HasRows(on[c])
    /\ Succeed(c)
    /\ UNCHANGED <<head, files, raced, unpaired, calls, faults>>

\* Nothing changed since the rows were written: the run does nothing at all.
UpToDate(c) ==
    LET p == on[c]
    IN  /\ pc[c] = "route" /\ HasRows(p) /\ db[p].rows = head[p]
        /\ Succeed(c)
        /\ UNCHANGED <<head, files, raced, unpaired, calls, faults>>

\* Rows of this checkout stand for the version the graph beside them shows.
TellsTruth(p, x) ==
    x \in Databases /\ x.rows \in Versions => x.of = p /\ x.graph = x.rows

\* History: a client is alone with a project whose artifact is sound, so that
\* deleting the database ends what an import into a dump has left.
Cured(c) ==
    LET p == on[c]
    IN  /\ Busy(p) = {c}
        /\ \A x \in {zst[p], import[p], got[c]} : TellsTruth(p, x)

\* An incremental run, when rows are there; a full run, which deletes the
\* database first, when there are none or the checkout has grown a lot.
Route(c, all) ==
    LET p == on[c]
    IN  /\ pc[c] = "route"
        /\ HasRows(p) => db[p].rows # head[p]
        /\ ~HasRows(p) => all
        /\ full' = [full EXCEPT ![c] = all]
        /\ db' = IF all THEN [db EXCEPT ![p] = None] ELSE db
        /\ Goto(c, "parse")
        /\ raced' = IF all /\ Cured(c) THEN raced \ {p} ELSE raced
        /\ UNCHANGED <<head, zst, meta, import, vacuum, lock, on, persist, got,
                       limit, mine, done, unpaired, calls, faults>>

\* A full run that was cancelled ends without a dump.
Cancel(c) ==
    /\ pc[c] = "parse" /\ full[c]
    /\ Fail(c)
    /\ UNCHANGED <<head, files, raced, unpaired, calls>>

\* The graph of the checkout is in memory; an incremental run unlinks the
\* database only now.
Parse(c) ==
    LET p == on[c]
    IN  /\ pc[c] = "parse"
        /\ got' = [got EXCEPT ![c] = Database(p, head[p], NoRows)]
        /\ db' = IF full[c] THEN db ELSE [db EXCEPT ![p] = None]
        /\ Goto(c, "dump")
        /\ UNCHANGED <<head, zst, meta, import, vacuum, lock, on, persist, full,
                       limit, mine, hist>>

\* cbm_writer_open: fopen truncates what is at the path.
DumpOpen(c) ==
    LET p == on[c]
    IN  /\ pc[c] = "dump"
        /\ db' = [db EXCEPT ![p] = Torn]
        /\ mine' = [mine EXCEPT ![c] = TRUE]
        /\ Goto(c, "dumping")
        /\ UNCHANGED <<head, zst, meta, import, vacuum, lock, on, persist, full,
                       got, limit, hist>>

DumpClose(c) ==
    LET p == on[c]
    IN  /\ pc[c] = "dumping"
        /\ db' = IF mine[c] THEN [db EXCEPT ![p] = got[c]] ELSE db
        /\ Goto(c, "stamp")
        /\ UNCHANGED <<head, zst, meta, import, vacuum, lock, on, persist, full,
                       got, limit, mine, hist>>

\* The rows are written into the file the path names now.  A full run goes
\* on to export if it was asked to, an incremental one if an artifact exists.
Stamp(c) ==
    LET p == on[c]
    IN  /\ pc[c] = "stamp"
        /\ db' = [db EXCEPT ![p] =
                    CASE @ = None -> [Schema(p) EXCEPT !.rows = head[p]]
                      [] @ \in {Torn, Corrupt} -> @
                      [] OTHER -> [@ EXCEPT !.rows = head[p]]]
        /\ Goto(c, IF full[c] THEN IF persist[c] THEN "clear" ELSE "leave"
                   ELSE IF Exists(p) THEN "read" ELSE "leave")
        /\ UNCHANGED <<head, zst, meta, import, vacuum, lock, on, persist, full,
                       got, limit, mine, hist>>

Return(c) ==
    /\ pc[c] = "leave"
    /\ Succeed(c)
    /\ UNCHANGED <<head, files, raced, unpaired, calls, faults>>

----------------------------------------------------------------------------
(* cbm_artifact_export.                                                    *)

\* prepare_stripped_db: the copy is made in one file for all projects.
Clear(c) ==
    /\ pc[c] = "clear"
    /\ vacuum' = None
    /\ Goto(c, "vacuum")
    /\ UNCHANGED <<head, db, zst, meta, import, lock, on, persist, full, got,
                   limit, mine, hist>>

\* A run whose export fails answers with an error.
Broken(c) ==
    /\ Leave(c, 0)
    /\ UNCHANGED <<head, db, import, raced, calls, faults>>

Vacuum(c) ==
    /\ pc[c] = "vacuum"
    /\ IF vacuum = None /\ Readable(on[c])
       THEN /\ vacuum' = db[on[c]]
            /\ Goto(c, "strip")
            /\ UNCHANGED <<head, db, zst, meta, import, lock, on, persist, full,
                           got, limit, mine, hist>>
       ELSE /\ vacuum' = None
            /\ Broken(c) /\ UNCHANGED <<zst, meta, unpaired>>

Strip(c) ==
    /\ pc[c] = "strip"
    /\ IF vacuum = None
       THEN Broken(c) /\ UNCHANGED <<zst, meta, vacuum, unpaired>>
       ELSE /\ got' = [got EXCEPT ![c] = vacuum]
            /\ vacuum' = None
            /\ Goto(c, "zst")
            /\ UNCHANGED <<head, db, zst, meta, import, lock, on, persist, full,
                           limit, mine, hist>>

\* The fast export compresses the file as it is.
ReadFile(c) ==
    /\ pc[c] = "read"
    /\ got' = [got EXCEPT ![c] = db[on[c]]]
    /\ Goto(c, IF db[on[c]] = None THEN "leave" ELSE "zst")
    /\ UNCHANGED <<head, files, lock, on, persist, full, limit, mine, hist>>

WriteZst(c) ==
    /\ pc[c] = "zst"
    /\ zst' = [zst EXCEPT ![on[c]] = got[c]]
    /\ Goto(c, "meta")
    /\ UNCHANGED <<head, db, meta, import, vacuum, lock, on, persist, full, got,
                   limit, mine, hist>>

WriteMeta(c) ==
    /\ pc[c] = "meta"
    /\ meta' = [meta EXCEPT ![on[c]] = got[c]]
    /\ unpaired' = unpaired \ {on[c]}
    /\ Goto(c, "leave")
    /\ UNCHANGED <<head, db, zst, import, vacuum, lock, on, persist, full, got,
                   limit, mine, done, raced, calls, faults>>

\* Only a full run reports that its export failed.
EndExport(c) == IF full[c] THEN Leave(c, 0) ELSE Succeed(c)

ZstFails(c) ==
    /\ pc[c] = "zst" /\ faults < MaxFaults /\ faults' = faults + 1
    /\ EndExport(c)
    /\ UNCHANGED <<head, files, raced, unpaired, calls>>

\* Faulty variant: the new graph stays beside the old metadata.
MetaFailsKeeping(c) ==
    /\ pc[c] = "meta" /\ faults < MaxFaults /\ faults' = faults + 1
    /\ EndExport(c)
    /\ UNCHANGED <<head, files, raced, unpaired, calls>>

MetaFails(c) ==
    /\ pc[c] = "meta" /\ faults < MaxFaults /\ faults' = faults + 1
    /\ zst' = [zst EXCEPT ![on[c]] = None]
    /\ EndExport(c)
    /\ UNCHANGED <<head, db, meta, import, vacuum, raced, unpaired, calls>>

\* The process dies: files stay as they are.
Crash(s) ==
    LET own == {c \in Clients : Process[c] = s /\ pc[c] # "idle"}
    IN  /\ own # {} /\ faults < MaxFaults /\ faults' = faults + 1
        /\ pc' = [c \in Clients |-> IF c \in own THEN "idle" ELSE pc[c]]
        /\ full' = [c \in Clients |-> full[c] /\ c \notin own]
        /\ mine' = [c \in Clients |-> mine[c] /\ c \notin own]
        /\ got' = [c \in Clients |-> IF c \in own THEN None ELSE got[c]]
        /\ limit' = [c \in Clients |-> IF c \in own THEN None ELSE limit[c]]
        /\ lock' = [lock EXCEPT ![s] = Nobody]
        /\ done' = [p \in Projects |->
                      IF \E c \in own : on[c] = p THEN 0 ELSE done[p]]
        /\ unpaired' = unpaired \cup {on[c] : c \in {d \in own : pc[d] = "meta"}}
        /\ UNCHANGED <<head, files, on, persist, raced, calls>>

Import(c) ==
    \/ Check(c) \/ ReadMeta(c) \/ Unpack(c) \/ WriteImport(c) \/ OpenImport(c)
    \/ Install(c)

Run(c) ==
    \/ Acquire(c) \/ UpToDate(c) \/ (\E all \in BOOLEAN : Route(c, all))
    \/ Cancel(c) \/ Parse(c) \/ DumpOpen(c) \/ DumpClose(c) \/ Stamp(c)
    \/ Return(c)

Export(c) ==
    \/ Clear(c) \/ Vacuum(c) \/ Strip(c) \/ ReadFile(c) \/ WriteZst(c)
    \/ WriteMeta(c) \/ ZstFails(c) \/ MetaFails(c)

Next ==
    \/ \E p \in Projects : Edit(p) \/ Delete(p)
    \/ \E c \in Clients, p \in Projects, b \in BOOLEAN, start \in {"check", "wait"} :
         Call(c, p, b, start)
    \/ \E c \in Clients : Import(c) \/ Run(c) \/ Export(c)
    \/ \E s \in Processes : Crash(s)

Spec == Init /\ [][Next]_vars
----------------------------------------------------------------------------
(* Properties.                                                             *)

Holding == {"route", "parse", "dump", "dumping", "stamp", "clear", "vacuum",
            "strip", "read", "zst", "meta", "leave"}
PCs == Holding \cup {"idle", "check", "import", "unpack", "write", "open",
                     "install", "wait"}

FilesOK ==
    /\ head \in [Projects -> Versions]
    /\ db \in [Projects -> Contents]
    /\ zst \in [Projects -> Contents] /\ meta \in [Projects -> Contents]
    /\ import \in [Projects -> Contents] /\ vacuum \in Databases \cup {None}

ClientsOK ==
    /\ pc \in [Clients -> PCs] /\ on \in [Clients -> Projects]
    /\ got \in [Clients -> Contents] /\ limit \in [Clients -> Contents]
    /\ mine \in [Clients -> BOOLEAN] /\ full \in [Clients -> BOOLEAN]
    /\ persist \in [Clients -> BOOLEAN]

\* Who runs the pipeline holds the lock of its process.
LockOK ==
    /\ lock \in [Processes -> Clients \cup {Nobody}]
    /\ \A c \in Clients : pc[c] \in Holding => lock[Process[c]] = c

HistoryOK ==
    /\ done \in [Projects -> Graphs]
    /\ raced \subseteq Projects /\ unpaired \subseteq Projects

\* Every variable holds a value of its kind, and runs hold their lock.
TypeOK == FilesOK /\ ClientsOK /\ LockOK /\ HistoryOK

\* Neither in a database nor in the artifact a later call imports do rows of
\* this checkout stand for a version that the graph beside them does not show:
\* the comparison of rows with the checkout finds every difference, whatever
\* was imported and exported.  The exception (raced) is a project of which an
\* import replaced the file between the start of a dump and the writing of the
\* rows, until a full run has rebuilt the database beside a sound artifact: see
\* RowsAlwaysTellTruth.
RowsTellTruth ==
    \A p \in Projects \ raced : TellsTruth(p, db[p]) /\ TellsTruth(p, zst[p])

\* After a call has answered that a project is indexed, and while none is in
\* progress, the database shows the version that was indexed: an artifact from
\* another checkout or in pieces, or one that came before or after the dump of
\* a run, has not stayed.  One that came during the dump (raced) does stay,
\* with rows that call it up to date, and the answer is wrong until a full run
\* has rebuilt the database: see AnswersAlwaysHold.
AnswersHold ==
    \A p \in Projects \ raced :
        Busy(p) = {} /\ done[p] # 0 =>
            /\ Readable(p)
            /\ db[p].of = p /\ db[p].graph = done[p] /\ db[p].rows = done[p]

\* The two files of an artifact come from one export when none is in
\* progress, also after failed writes, unless the process died between them.
PairMatches ==
    \A p \in Projects \ unpaired :
        (\A c \in Busy(p) : pc[c] # "meta") /\ Exists(p) => zst[p] = meta[p]

\* artifact.c: the temporary copy of an export is that of its project.  The
\* lock of a process sees to it for the exports of that process; those of two
\* processes share the file.
OwnArtifact ==
    \A p, q \in Projects :
        p # q /\ zst[p] \notin {None, Torn, Corrupt} => zst[p].of # q

\* mcp.c: bootstrap from artifact if no local DB exists.
BootstrapOnlyIfAbsent ==
    [][\A c \in Clients :
         Install(c) => db[on[c]] = None \/ import[on[c]] = None]_vars

\* artifact.c: corrupted artifacts are refused.
CorruptRefused == \A p \in Projects : db[p] # Corrupt

\* mcp.c: pipeline runs are serialized to prevent concurrent writes.
RowsAlwaysTellTruth ==
    \A p \in Projects :
        Readable(p) /\ db[p].rows \in Versions => db[p].graph = db[p].rows

\* mcp.c: the answer of an index run says what the database holds.
AnswersAlwaysHold ==
    \A p \in Projects :
        Busy(p) = {} /\ done[p] # 0 => Readable(p) /\ db[p].graph = done[p]

\* mcp.c: with persistence the run writes the artifact.
PersistenceWrites ==
    [][\A c \in Clients :
         persist[c] /\ pc[c] # "idle" /\ pc'[c] = "idle" /\ done'[on[c]] # 0
         => zst'[on[c]] # None]_vars
=============================================================================
