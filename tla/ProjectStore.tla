---------------------------- MODULE ProjectStore ----------------------------
(***************************************************************************)
(* Who reads and writes the SQLite files of the projects.                  *)
(*                                                                         *)
(* Each MCP server object (the one on stdin and the one of the HTTP UI)    *)
(* keeps one open connection, to the project it was asked about last.      *)
(* Runs of the pipeline, on either server or on the watcher thread,        *)
(* replace the file under the index lock; the UI deletes a file without    *)
(* it; a failed check renames a file away.  A connection refers to a file, *)
(* not to its name: when the name is unlinked, the connection goes on with *)
(* the file it has.                                                        *)
(***************************************************************************)
EXTENDS Integers, FiniteSets

CONSTANTS
    Projects,     \* project names
    Watched,      \* the projects on the watch list
    Legacy,       \* the projects with a .codebase-memory/adr.md of old
    Main, Ui,     \* the two MCP servers
    Calls,        \* the tool calls of their clients: server, tool, project
    Browsed,      \* the projects the UI reads and deletes by itself
    MaxFiles,     \* bound: files that are referred to at the same time
    MaxAdr        \* bound: distinct ADR texts; the legacy one is 1

ASSUME SetsAssumption == Watched \subseteq Projects /\ Legacy \subseteq Projects
ASSUME ServersAssumption == Main # Ui
ASSUME CallsAssumption ==
    /\ Calls \subseteq {Main, Ui} \X {"query", "adr", "index", "delete"}
                      \X Projects
    /\ Browsed \subseteq Projects
ASSUME StoreBoundsAssumption == MaxFiles \in Nat /\ MaxAdr \in Nat \ {0}

Servers == {Main, Ui}
Holders == {"main", "ui", "watcher"}
HolderOf(s) == IF s = Main THEN "main" ELSE "ui"

None      == 0           \* no file, no connection, no ADR
LegacyAdr == 1
NoProject == "no project"
Inodes    == 1..MaxFiles
Adrs      == 0..MaxAdr
Texts     == 1..MaxAdr    \* what a tool call or a request may store

\* A file is created empty, has pages but no header while a dump is writing
\* it, and is complete with the dump; one that SQLite created has a schema
\* and no project.
FileStates == {"blank", "writing", "ghost", "ok"}
NoFile == [proj |-> NoProject, state |-> "blank", adr |-> None]

Tools == {"query", "adr", "index", "delete"}
Idle  == [tool |-> "query", proj |-> NoProject]
PCs   == {"idle", "resolve", "check", "quarantine", "use", "import", "store",
          "want_index", "indexing", "want_delete"}
UsingStore == {"use", "import", "store"}

Phases == {"none", "route", "replace", "dump", "blank", "writing", "persist",
           "end"}
NoRun  == [proj |-> NoProject, phase |-> "none", file |-> None,
           adr |-> None, incremental |-> FALSE, dumped |-> FALSE]

VARIABLES
    path,      \* the file at <cache>/<project>.db
    file,      \* the files that have a name or are open
    open,      \* srv->store
    current,   \* srv->current_project
    pc, req,   \* where each server's thread is, and the tool call it handles
    lock,      \* who holds the index lock
    run,       \* the run under the lock
    \* history, read by properties only
    retired,   \* the server took the file of its own connection away
    intruded   \* the file of the run was deleted or renamed during the run

files   == <<path, file>>
server  == <<open, current, pc, req>>
history == <<retired, intruded>>
vars    == <<files, server, lock, run, history>>

----------------------------------------------------------------------------
\* The files that a name, a connection or a run refers to.
Referred(p, o, r) == {p[x] : x \in Projects} \cup {o[s] : s \in Servers}
                     \cup {r.file}

\* Files are interchangeable: a new one is the first that is not in use.
NewFile ==
    LET unused == Inodes \ Referred(path, open, run)
    IN  {i \in unused : \A j \in unused : i <= j}

\* A file nobody refers to any more is gone.
Kept(f) == [i \in Inodes |->
              IF i \in Referred(path', open', run') THEN f[i] ELSE NoFile]

Readable(i) == i # None /\ file[i].state \in {"ghost", "ok"}

\* Faulty variant: the connection is kept.
CloseNothing(s) == UNCHANGED <<open, current, retired>>

\* srv->store is closed and forgotten, the name too where the code frees it.
CloseCached(s) ==
    /\ open' = [open EXCEPT ![s] = None]
    /\ current' = [current EXCEPT ![s] = NoProject]
    /\ retired' = [retired EXCEPT ![s] = FALSE]

\* p's name is unlinked, by the one server in `by' or by somebody else.
Unlink(p, by) ==
    /\ path' = [path EXCEPT ![p] = None]
    /\ retired' = [s \in Servers |->
                     \/ retired[s]
                     \/ s \in by /\ open[s] # None /\ open[s] = path[p]]

Intrude(p) == intruded' = (intruded \/ run.proj = p)

Reply(s) ==
    /\ pc' = [pc EXCEPT ![s] = "idle"]
    /\ req' = [req EXCEPT ![s] = Idle]

Goto(s, label) == pc' = [pc EXCEPT ![s] = label] /\ UNCHANGED req

Complete(p) == [proj |-> p, state |-> "ok", adr |-> None]

\* Earlier processes may have left complete files behind.
Init ==
    /\ path \in [Projects -> {None} \cup Inodes]
    /\ \A p, q \in Projects : p # q /\ path[p] # None => path[p] # path[q]
    /\ \A p \in Projects : \A i \in 1..path[p] : \E q \in Projects : path[q] = i
    /\ file = [i \in Inodes |->
                 IF \E p \in Projects : path[p] = i
                 THEN Complete(CHOOSE p \in Projects : path[p] = i) ELSE NoFile]
    /\ open = [s \in Servers |-> None]
    /\ current = [s \in Servers |-> NoProject]
    /\ pc = [s \in Servers |-> "idle"]
    /\ req = [s \in Servers |-> Idle]
    /\ lock = "free" /\ run = NoRun
    /\ retired = [s \in Servers |-> FALSE]
    /\ intruded = FALSE

----------------------------------------------------------------------------
(* resolve_store                                                           *)

\* A tool call arrives.  index_repository closes whatever is cached,
\* delete_project only a connection to the project it deletes.
Call(s, tool, p) ==
    /\ pc[s] = "idle"
    /\ req' = [req EXCEPT ![s] = [tool |-> tool, proj |-> p]]
    /\ pc' = [pc EXCEPT ![s] =
                IF tool = "index" THEN "want_index"
                ELSE IF tool = "delete" THEN "want_delete" ELSE "resolve"]
    /\ IF tool = "index" \/ (tool = "delete" /\ current[s] = p)
       THEN CloseCached(s)
       ELSE UNCHANGED <<open, current, retired>>
    /\ UNCHANGED <<path, lock, run, intruded>>
    /\ file' = Kept(file)

\* Faulty variant: any open connection will do.
HitAnyProject(s) ==
    /\ pc[s] = "resolve" /\ open[s] # None
    /\ Goto(s, "use")
    /\ UNCHANGED <<files, open, current, lock, run, history>>

\* The open connection is to the project asked for.
Hit(s) ==
    /\ pc[s] = "resolve"
    /\ current[s] = req[s].proj /\ open[s] # None
    /\ Goto(s, "use")
    /\ UNCHANGED <<files, open, current, lock, run, history>>

\* The old connection is closed and the file opened without creating it.  A
\* missing file, or one without a header, leaves the old name behind.
Miss(s) ==
    /\ pc[s] = "resolve"
    /\ current[s] # req[s].proj \/ open[s] = None
    /\ LET i == path[req[s].proj]
       IN  IF i = None \/ file[i].state = "writing"
           THEN open' = [open EXCEPT ![s] = None] /\ Reply(s)
           ELSE open' = [open EXCEPT ![s] = i] /\ Goto(s, "check")
    /\ retired' = [retired EXCEPT ![s] = FALSE]
    /\ UNCHANGED <<path, current, lock, run, intruded>>
    /\ file' = Kept(file)

\* Faulty variant: the name of the open project is not brought up to date.
CheckOkKeepsName(s) ==
    /\ pc[s] = "check" /\ file[open[s]].state = "ok"
    /\ current' = [current EXCEPT ![s] = IF @ = NoProject THEN req[s].proj
                                         ELSE @]
    /\ Goto(s, "use")
    /\ UNCHANGED <<files, open, lock, run, history>>

\* The integrity check passes and the project has its row.
CheckOk(s) ==
    /\ pc[s] = "check" /\ file[open[s]].state = "ok"
    /\ current' = [current EXCEPT ![s] = req[s].proj]
    /\ Goto(s, "use")
    /\ UNCHANGED <<files, open, lock, run, history>>

\* The check passes, but there is no such project in the file.
CheckNoProject(s) ==
    /\ pc[s] = "check" /\ file[open[s]].state = "ghost"
    /\ open' = [open EXCEPT ![s] = None]
    /\ retired' = [retired EXCEPT ![s] = FALSE]
    /\ Reply(s)
    /\ UNCHANGED <<path, current, lock, run, intruded>>
    /\ file' = Kept(file)

\* The check fails.  The connection is closed ...
CheckFails(s) ==
    /\ pc[s] = "check" /\ file[open[s]].state \in {"blank", "writing"}
    /\ open' = [open EXCEPT ![s] = None]
    /\ retired' = [retired EXCEPT ![s] = FALSE]
    /\ Goto(s, "quarantine")
    /\ UNCHANGED <<path, current, lock, run, intruded>>
    /\ file' = Kept(file)

\* Faulty variant: the call is left hanging.
QuarantineForgets(s) ==
    /\ pc[s] = "quarantine"
    /\ Unlink(req[s].proj, {})
    /\ Intrude(req[s].proj)
    /\ Goto(s, "resolved")
    /\ UNCHANGED <<open, current, lock, run>>
    /\ file' = Kept(file)

\* ... and what has the name by now is renamed to .corrupt.
Quarantine(s) ==
    /\ pc[s] = "quarantine"
    /\ Unlink(req[s].proj, {})
    /\ Intrude(req[s].proj)
    /\ Reply(s)
    /\ UNCHANGED <<open, current, lock, run>>
    /\ file' = Kept(file)

\* Faulty variant: only the name is forgotten.
EvictName ==
    /\ pc[Main] = "idle" /\ open[Main] # None
    /\ current' = [current EXCEPT ![Main] = NoProject]
    /\ UNCHANGED <<files, open, pc, req, lock, run, history>>

\* cbm_mcp_server_evict_idle, called by the loop on stdin when nothing came
\* for a while.  The UI's server has no such loop.
Evict ==
    /\ pc[Main] = "idle" /\ open[Main] # None
    /\ CloseCached(Main)
    /\ UNCHANGED <<path, pc, req, lock, run, intruded>>
    /\ file' = Kept(file)

----------------------------------------------------------------------------
(* The tools that use the connection.                                      *)

\* A query is answered.
Answer(s) ==
    /\ pc[s] = "use" /\ req[s].tool \in {"query", "index"}
    /\ Reply(s)
    /\ UNCHANGED <<files, open, current, lock, run, history>>

\* handle_manage_adr looks for an ADR, then for the legacy file; a call to
\* read it ends here, one to write it goes on.
LookForAdr(s) ==
    /\ pc[s] = "use" /\ req[s].tool = "adr"
    /\ IF file[open[s]].adr = None /\ req[s].proj \in Legacy
       THEN Goto(s, "import")
       ELSE Goto(s, "store") \/ Reply(s)
    /\ UNCHANGED <<files, open, current, lock, run, history>>

\* The legacy file is stored through the connection.
ImportAdr(s) ==
    /\ pc[s] = "import"
    /\ IF Readable(open[s])
       THEN file' = [file EXCEPT ![open[s]].adr = LegacyAdr]
       ELSE UNCHANGED file
    /\ Goto(s, "store") \/ Reply(s)
    /\ UNCHANGED <<path, open, current, lock, run, retired, intruded>>

StoreAdr(s) ==
    /\ pc[s] = "store"
    /\ IF Readable(open[s])
       THEN \E a \in Texts : file' = [file EXCEPT ![open[s]].adr = a]
       ELSE UNCHANGED file
    /\ Reply(s)
    /\ UNCHANGED <<path, open, current, lock, run, retired, intruded>>

----------------------------------------------------------------------------
(* The HTTP handlers of the UI's thread that open the file themselves.     *)

\* cbm_store_open_path gives a missing file a schema.
NewGhost(p, i, a) ==
    /\ i \in NewFile
    /\ path' = [path EXCEPT ![p] = i]
    /\ file' = [file EXCEPT ![i] = [proj |-> p, state |-> "ghost", adr |-> a]]

\* GET and POST /api/adr (a = None for GET).
HttpAdr(p, a) ==
    /\ pc[Ui] = "idle"
    /\ \/ /\ path[p] = None
          /\ \E i \in Inodes : NewGhost(p, i, a)
       \/ /\ a # None /\ Readable(path[p])
          /\ file' = [file EXCEPT ![path[p]].adr = a]
          /\ UNCHANGED path
    /\ UNCHANGED <<server, lock, run, retired, intruded>>

\* DELETE /api/project, without the lock; a connection of the UI's own MCP
\* server to the file stays open.
HttpDelete(p) ==
    /\ pc[Ui] = "idle" /\ path[p] # None
    /\ Unlink(p, {})
    /\ Intrude(p)
    /\ UNCHANGED <<server, lock, run>>
    /\ file' = Kept(file)

----------------------------------------------------------------------------
(* delete_project, and the runs of the pipeline.                           *)

\* Faulty variant: the file goes without waiting for the run.
DeleteUnlocked(s) ==
    /\ pc[s] = "want_delete"
    /\ Unlink(req[s].proj, {s})
    /\ Reply(s)
    /\ UNCHANGED <<open, current, lock, run, intruded>>
    /\ file' = Kept(file)

\* Under the lock, which it takes and gives back.
Delete(s) ==
    /\ pc[s] = "want_delete" /\ lock = "free"
    /\ Unlink(req[s].proj, {s})
    /\ Reply(s)
    /\ UNCHANGED <<open, current, lock, run, intruded>>
    /\ file' = Kept(file)

Begin(p) ==
    /\ run' = [NoRun EXCEPT !.proj = p, !.phase = "route"]
    /\ intruded' = FALSE

IndexBegins(s) ==
    /\ pc[s] = "want_index" /\ lock = "free"
    /\ lock' = HolderOf(s)
    /\ Begin(req[s].proj)
    /\ Goto(s, "indexing")
    /\ UNCHANGED <<files, open, current, retired>>

WatcherBegins(p) ==
    /\ lock = "free"
    /\ lock' = "watcher"
    /\ Begin(p)
    /\ UNCHANGED <<files, server, retired>>

Phase(label) == run' = [run EXCEPT !.phase = label]

Runners == {s \in Servers : lock = HolderOf(s)}

\* Nothing has changed, the run is cancelled, or discovery fails.
RunStops ==
    /\ run.phase = "route"
    /\ Phase("end")
    /\ UNCHANGED <<files, server, lock, history>>

RunWithoutFile ==
    /\ run.phase = "route" /\ path[run.proj] = None
    /\ Phase("dump")
    /\ UNCHANGED <<files, server, lock, history>>

\* try_incremental_or_delete_db reads the ADR and unlinks the file.
RunFull ==
    /\ run.phase = "route" /\ path[run.proj] # None
    /\ run' = [run EXCEPT !.phase = "dump",
                 !.adr = IF Readable(path[run.proj])
                         THEN file[path[run.proj]].adr ELSE None]
    /\ Unlink(run.proj, Runners)
    /\ UNCHANGED <<server, lock, intruded>>
    /\ file' = Kept(file)

RunIncremental ==
    /\ run.phase = "route" /\ path[run.proj] # None
    /\ file[path[run.proj]].state = "ok"
    /\ run' = [run EXCEPT !.phase = "replace", !.incremental = TRUE]
    /\ UNCHANGED <<files, server, lock, history>>

\* dump_and_persist unlinks the file before the dump.
RunReplaces ==
    /\ run.phase = "replace"
    /\ Phase("dump")
    /\ Unlink(run.proj, Runners)
    /\ UNCHANGED <<server, lock, intruded>>
    /\ file' = Kept(file)

\* cbm_writer_open creates the file or truncates the one that is there.
DumpOpens ==
    /\ run.phase = "dump"
    /\ \E i \in Inodes :
         /\ IF path[run.proj] = None THEN i \in NewFile ELSE i = path[run.proj]
         /\ path' = [path EXCEPT ![run.proj] = i]
         /\ file' = [file EXCEPT ![i] = [proj |-> run.proj, state |-> "blank",
                                         adr |-> None]]
         /\ run' = [run EXCEPT !.phase = "blank", !.file = i]
    /\ UNCHANGED <<server, lock, retired, intruded>>

\* Pages reach the file; the first, with the header, is the last.
DumpWrites ==
    /\ run.phase = "blank"
    /\ Phase("writing")
    /\ file' = [file EXCEPT ![run.file].state = "writing"]
    /\ UNCHANGED <<path, server, lock, history>>

DumpEnds ==
    /\ run.phase = "writing"
    /\ run' = [run EXCEPT !.phase = "persist", !.dumped = TRUE]
    /\ file' = [file EXCEPT ![run.file] = Complete(run.proj)]
    /\ UNCHANGED <<path, server, lock, history>>

\* The full pipeline returns the error, the incremental one goes on.
DumpFails ==
    /\ run.phase \in {"dump", "blank", "writing"}
    /\ Phase(IF run.incremental THEN "persist" ELSE "end")
    /\ UNCHANGED <<files, server, lock, history>>

\* The rows, and on the full route the ADR, go to whatever file has the name;
\* a missing one is created.
Persist ==
    /\ run.phase = "persist"
    /\ Phase("end")
    /\ IF path[run.proj] = None
       THEN \E i \in Inodes : NewGhost(run.proj, i, run.adr)
       ELSE /\ file' = IF Readable(path[run.proj]) /\ run.adr # None
                       THEN [file EXCEPT ![path[run.proj]].adr = run.adr]
                       ELSE file
            /\ UNCHANGED path
    /\ UNCHANGED <<server, lock, retired, intruded>>

\* The lock is given back.  index_repository closes what is cached again and
\* opens the new file for its answer, unless the run failed.
RunEnds ==
    /\ run.phase = "end"
    /\ lock' = "free" /\ run' = NoRun
    /\ IF \E s \in Servers : lock = HolderOf(s)
       THEN \E s \in Servers :
              /\ lock = HolderOf(s)
              /\ CloseCached(s)
              /\ Goto(s, "resolve") \/ Reply(s)
       ELSE UNCHANGED <<server, retired>>
    /\ UNCHANGED <<path, intruded>>
    /\ file' = Kept(file)

\* The process is killed and started again.
Crash ==
    /\ open' = [s \in Servers |-> None]
    /\ current' = [s \in Servers |-> NoProject]
    /\ pc' = [s \in Servers |-> "idle"]
    /\ req' = [s \in Servers |-> Idle]
    /\ lock' = "free" /\ run' = NoRun
    /\ retired' = [s \in Servers |-> FALSE]
    /\ intruded' = FALSE
    /\ UNCHANGED <<path>>
    /\ file' = Kept(file)

----------------------------------------------------------------------------
Thread(s) ==
    \/ Hit(s) \/ Miss(s) \/ CheckOk(s) \/ CheckNoProject(s)
    \/ CheckFails(s) \/ Quarantine(s)
    \/ Answer(s) \/ LookForAdr(s) \/ ImportAdr(s) \/ StoreAdr(s)
    \/ Delete(s) \/ IndexBegins(s)

Run ==
    \/ RunStops \/ RunWithoutFile \/ RunFull \/ RunIncremental \/ RunReplaces
    \/ DumpOpens \/ DumpWrites \/ DumpEnds \/ DumpFails \/ Persist \/ RunEnds

Client == \E c \in Calls : Call(c[1], c[2], c[3])

Http == \E p \in Browsed :
            HttpDelete(p) \/ \E a \in Texts \cup {None} : HttpAdr(p, a)

Next ==
    \/ \E s \in Servers : Thread(s)
    \/ Run \/ Client \/ Http
    \/ \E p \in Watched : WatcherBegins(p)
    \/ Evict \/ Crash

Spec == Init /\ [][Next]_vars
FairSpec == Spec /\ WF_vars(Evict)
----------------------------------------------------------------------------
(* Properties.                                                             *)

FileRecords == [proj : Projects \cup {NoProject}, state : FileStates, adr : Adrs]
Requests    == [tool : Tools, proj : Projects \cup {NoProject}]
RunRecords  == [proj : Projects \cup {NoProject}, phase : Phases,
                file : {None} \cup Inodes, adr : Adrs,
                incremental : BOOLEAN, dumped : BOOLEAN]

FileTypeOK ==
    /\ path \in [Projects -> {None} \cup Inodes]
    /\ file \in [Inodes -> FileRecords]

ServerTypeOK ==
    /\ open \in [Servers -> {None} \cup Inodes]
    /\ current \in [Servers -> Projects \cup {NoProject}]
    /\ pc \in [Servers -> PCs]
    /\ req \in [Servers -> Requests]

RunTypeOK ==
    /\ lock \in {"free"} \cup Holders
    /\ run \in RunRecords

HistoryTypeOK ==
    /\ retired \in [Servers -> BOOLEAN]
    /\ intruded \in BOOLEAN

\* Every variable holds a value of its kind.
TypeOK == FileTypeOK /\ ServerTypeOK /\ RunTypeOK /\ HistoryTypeOK

\* A tool call about one project is never answered from, nor written to,
\* another project's file: current_project and store, which resolve_store
\* changes at different places, do not come apart.
AnswersOwnProject ==
    \A s \in Servers :
        pc[s] \in UsingStore =>
            open[s] # None /\ file[open[s]].proj = req[s].proj

\* A server never answers from a file that its own delete_project or
\* index_repository has taken away, whatever ran in between.
SeesOwnChanges ==
    \A s \in Servers : pc[s] \in UsingStore => ~retired[s]

\* The file a run wrote is the one with the project's name when the run ends,
\* unless the UI deleted it or a query renamed it meanwhile: delete_project
\* and other runs wait for the lock.
RunOutputIsVisible ==
    (run.dumped /\ ~intruded)
        => path[run.proj] = run.file /\ file[run.file].state = "ok"

\* A client that falls silent does not keep a file open: the connection, to
\* a file that may have lost its name long ago, is closed.
SilentClientReleases ==
    <>[](pc[Main] = "idle") => <>[](open[Main] = None)

\* mcp.c: ADRs live in the store "so writes via the MCP tool and the UI are
\* visible to each other": what a server is about to write to is the file
\* that the UI would open.
AdrVisibleToBoth ==
    \A s \in Servers :
        pc[s] \in {"import", "store"} => open[s] = path[req[s].proj]

\* mcp.c: a corrupt database is backed up; a complete one stays.
QuarantinesOnlyCorrupt ==
    \A s \in Servers :
        pc[s] = "quarantine" =>
            LET i == path[req[s].proj]
            IN  i # None => file[i].state \in {"blank", "writing"}
=============================================================================
