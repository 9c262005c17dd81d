----------------------------- MODULE GraphBuild -----------------------------
(***************************************************************************)
(* What a run of the pipeline computes: the graph of a project, from texts *)
(* of files that define names, call names, use channels and request        *)
(* routes.  A full run parses every file; an incremental run loads the     *)
(* stored graph, purges and parses what changed and links the rest again.  *)
(* Over few files the passes work on one buffer; over many, workers fill   *)
(* buffers of their own, which are merged in the order of the workers.     *)
(* Routing, failures and cancellation of runs are IndexPipeline's subject: *)
(* here every run comes to its end.                                        *)
(***************************************************************************)
EXTENDS GraphBuffer

CONSTANTS
    Order,         \* the files, in the order of their discovery
    BySize,        \* the files, the largest first; an edit keeps this order
    Stem,          \* file -> its path without the extension
    ModuleOf,      \* file -> its module: the stem, or the directory
    Directory,     \* the one directory of the project
    Texts,         \* what a file may hold
    Absent,        \* no file
    Repositories,  \* the texts a project may begin with
    Workers,       \* threads of the pool: 1..Workers
    ParallelOver,  \* MIN_FILES_FOR_PARALLEL: more files are parsed in parallel
    MaxRuns,       \* bound: runs
    MaxEdits       \* bound: edits after the first text

Files   == ToSet(Order)
Pool    == 1..Workers
None    == 0
Places  == Files \cup {Directory, "{}", ""}   \* what a node has for its file

ASSUME FilesAssumption ==
    /\ Order \in Seq(Files) /\ IsInjective(Order)
    /\ BySize \in Seq(Files) /\ IsInjective(BySize) /\ ToSet(BySize) = Files
    /\ {Directory, "{}", ""} \cap Files = {}

ASSUME TextsAssumption ==
    /\ Absent \notin Texts
    /\ Repositories \subseteq [Files -> Texts \cup {Absent}]
    /\ \A t \in Texts :
          /\ t.defs \in Seq(Range(t.defs)) /\ IsFiniteSet(t.calls)
          /\ t.channels \in Seq(Range(t.channels))
          /\ t.routes \in Seq(Range(t.routes))

ASSUME NumbersAssumption ==
    /\ Workers \in Nat \ {0}
    /\ ParallelOver \in Nat /\ MaxRuns \in Nat /\ MaxEdits \in Nat

VARIABLES
    text,      \* the files of the repository
    indexed,   \* history: the texts the database was built from
    db,        \* the graph of the database
    phase,     \* where the run is
    full,      \* the run parses everything
    todo,      \* the files the run parses, in order
    gbuf,      \* the buffer of the run
    registry,  \* names that calls may be resolved to, in order
    saved,     \* edges from unchanged into changed files, by name
    next,      \* next_file_idx: the positions before it are taken
    at,        \* the position a worker is at, 0 for none
    local,     \* the buffers of the workers
    shared,    \* shared_ids: the counter of all workers
    calm,      \* history: no definition changed since the last full run
    exact,     \* history: no parallel run since the last sequential full one
    runs, edits

run  == <<full, todo, gbuf, registry, saved, next, at, local, shared>>
hist == <<calm, exact, runs, edits>>
vars == <<text, indexed, db, phase, run, hist>>

NoLocals == [w \in Pool |-> EmptyBuffer]

----------------------------------------------------------------------------
(* Qualified names.                                                        *)

ProjectName    == <<"project", "", "">>
FolderName(m)  == <<"module", m, "">>
ModuleName(f)  == <<"module", ModuleOf[f], "">>
FileName(f)    == <<"file", Stem[f], "">>
DefName(f, d)  == <<"def", ModuleOf[f], d>>
RouteName(r)   == <<"route", "", r>>
ChannelName(c) == <<"channel", "", c>>

\* The files there are, in the order of their discovery.
FilesOf(texts) == Keep(Order, {f \in Files : texts[f] # Absent})
Existing == FilesOf(text)

\* The definitions of a file with the text t: its module, then what it
\* declares.
Declared(f, t) == [i \in DOMAIN t.defs |-> DefName(f, t.defs[i])]
Defs(f, t) ==
    <<[label |-> "Module", qn |-> ModuleName(f), file |-> f]>>
        \o [i \in DOMAIN t.defs |->
              [label |-> "Function", qn |-> Declared(f, t)[i], file |-> f]]

----------------------------------------------------------------------------
(* The passes, on a buffer.                                                *)

\* pass_structure
FileNode(f) == [label |-> "File", qn |-> FileName(f), file |-> f]
FolderNode  == [label |-> "Folder", qn |-> FolderName(Directory),
                file |-> Directory]
ProjectNode == [label |-> "Project", qn |-> ProjectName, file |-> "{}"]
AddFile(buf, f) ==
    LinkAll(LinkAll(Upsert(Upsert(buf, FileNode(f)), FolderNode),
                    {[src |-> ProjectName, tgt |-> FolderName(Directory),
                      type |-> "CONTAINS_FOLDER"]}),
            {[src |-> FolderName(Directory), tgt |-> FileName(f),
              type |-> "CONTAINS_FILE"]})
Structuring == INSTANCE Loop WITH Step <- AddFile
Structure(files) == Structuring!Fold(Upsert(EmptyBuffer, ProjectNode), files)

\* A node per definition.
AddDefs(buf, f) == UpsertAll(buf, Defs(f, text[f]))

\* The edges from the file to its definitions.
LinkDefs(buf, f) ==
    LinkAll(buf, {[src |-> FileName(f), tgt |-> d.qn, type |-> "DEFINES"] :
                    d \in ToSet(Defs(f, text[f]))})

\* A node per channel, in no file, and an edge to it.
AddChannel(buf, use) ==
    LinkAll(Upsert(buf, [label |-> "Channel", qn |-> ChannelName(use.channel),
                         file |-> ""]),
            {[src |-> FileName(use.file), tgt |-> ChannelName(use.channel),
              type |-> "EMITS"]})
AddingChannels == INSTANCE Loop WITH Step <- AddChannel
AddChannels(buf, f) ==
    AddingChannels!Fold(buf, [i \in DOMAIN text[f].channels |->
                                [file |-> f, channel |-> text[f].channels[i]]])

\* cbm_registry_add: a name is entered once.
Enter(reg, qn) == IF Contains(reg, qn) THEN reg ELSE Append(reg, qn)
Entering == INSTANCE Loop WITH Step <- Enter
Register(reg, qns) == Entering!Fold(reg, qns)
Registering == INSTANCE Loop WITH Step <- Register
RegisterAll(reg, files, texts) ==
    Registering!Fold(reg, [i \in DOMAIN files |->
                             Declared(files[i], texts[files[i]])])

\* cbm_registry_resolve without imports: the definition of the own module,
\* else the first one of the name.  Files of one directory score the same.
\* Left out is that a name with more than REG_MAX_CANDIDATES definitions stays
\* unresolved: no name of a small repository has that many.
Resolve(reg, f, name) ==
    IF Contains(reg, DefName(f, name)) THEN {DefName(f, name)}
    ELSE LET named == {i \in DOMAIN reg : reg[i][3] = name}
         IN  {reg[i] : i \in {j \in named : \A k \in named : j <= k}}

\* A node per route, in no file, and an edge to it from the caller.
AddRequest(buf, use) ==
    LET up == Upsert(buf, [label |-> "Route", qn |-> RouteName(use.route),
                           file |-> ""])
    IN  Insert(up, {[src |-> use.source, tgt |-> Node(up, RouteName(use.route)).id,
                     type |-> "HTTP_CALLS"]})
AddingRequests == INSTANCE Loop WITH Step <- AddRequest

\* The calls and requests of a file, found in main and written to buf.
\* Their source is the file, as for calls outside of any function; for others
\* it is the function, a definition of that file.
ResolveCalls(buf, main, f) ==
    LET source == Node(main, FileName(f)).id
        callees == UNION {Resolve(registry, f, name) : name \in text[f].calls}
    IN  AddingRequests!Fold(
            Insert(buf, {[src |-> source, tgt |-> Node(main, qn).id,
                          type |-> "CALLS"] :
                           qn \in {q \in callees : Has(main, q)}}),
            [i \in DOMAIN text[f].routes |->
               [source |-> source, route |-> text[f].routes[i]]])

----------------------------------------------------------------------------
(* A run.                                                                  *)

Init ==
    /\ text \in Repositories
    /\ indexed = [f \in Files |-> Absent]
    /\ db = [nodes |-> <<>>, edges |-> {}]
    /\ phase = "none"
    /\ full = FALSE /\ todo = <<>> /\ gbuf = EmptyBuffer
    /\ registry = <<>> /\ saved = {}
    /\ next = 1 /\ at = [w \in Pool |-> None] /\ local = NoLocals /\ shared = 1
    /\ calm = FALSE /\ exact = FALSE /\ runs = 0 /\ edits = 0

\* A user edits, adds or removes a file between runs.
Edit(f, t) ==
    /\ phase = "idle" /\ edits < MaxEdits
    /\ t # text[f]
    /\ text' = [text EXCEPT ![f] = t]
    /\ edits' = edits + 1
    /\ calm' = (calm /\ Absent \notin {t, text[f]} /\ t.defs = text[f].defs)
    /\ UNCHANGED <<indexed, db, phase, run, exact, runs>>

Parallel(files) == Workers > 1 /\ Len(files) > ParallelOver

\* The passes begin, on a prepared buffer.
Begin(files, buf) ==
    /\ runs < MaxRuns /\ runs' = runs + 1
    /\ todo' = files /\ gbuf' = buf
    /\ next' = 1 /\ at' = [w \in Pool |-> None] /\ local' = NoLocals
    /\ shared' = buf.next
    /\ phase' = IF Parallel(files) THEN "extract" ELSE "passes"
    /\ exact' = ((full' \/ exact) /\ ~Parallel(files))
    /\ UNCHANGED <<text, indexed, db, edits>>

StartFull ==
    LET files == Existing
    IN  /\ phase \in {"none", "idle"}
        /\ full' = TRUE /\ registry' = <<>> /\ saved' = {}
        /\ calm' = TRUE
        /\ Begin(files, Structure(files))

Changed == {f \in Files : text[f] # Absent /\ text[f] # indexed[f]}
Deleted == {f \in Files : text[f] = Absent /\ indexed[f] # Absent}

\* Faulty variant: edges out of changed files are captured as well.
CaptureAll(buf, files) ==
    {[src |-> y[2].qn, tgt |-> y[3].qn, type |-> y[1].type] :
        y \in
            {x \in buf.edges \X ToSet(buf.nodes) \X ToSet(buf.nodes) :
                /\ x[2].id = x[1].src /\ x[3].id = x[1].tgt
                /\ x[3].file \in files}}

\* incr_capture_inbound_edge
Capture(buf, files) ==
    {[src |-> y[2].qn, tgt |-> y[3].qn, type |-> y[1].type] :
        y \in
            {x \in buf.edges \X ToSet(buf.nodes) \X ToSet(buf.nodes) :
                /\ x[2].id = x[1].src /\ x[3].id = x[1].tgt
                /\ x[3].file \in files /\ x[2].file \notin files}}

\* Faulty variant: the files that are gone are not purged.
PurgeChanged(buf) == DeleteByFile(buf, Changed)

Purge(buf) == DeleteByFile(buf, Changed \cup Deleted)

\* registry_visitor
Seed(buf) ==
    LET symbols == Keep(buf.nodes,
                        {n \in ToSet(buf.nodes) : n.label = "Function"})
    IN  [i \in DOMAIN symbols |-> symbols[i].qn]

StartIncremental ==
    LET loaded == Load(db)
        files == Keep(Order, Changed)
        rest == Purge(loaded)
    IN  /\ phase = "idle"
        /\ Changed \cup Deleted # {}
        /\ full' = FALSE
        /\ saved' = Capture(loaded, Changed)
        /\ registry' = Seed(rest)
        /\ UNCHANGED calm
        /\ Begin(files, UpsertAll(rest, [i \in DOMAIN files |->
                                           FileNode(files[i])]))

\* run_sequential_pipeline, and the other branch of run_extract_resolve: one
\* buffer takes the definitions of all files, then their channels, ...
DefineFile(buf, f) == LinkDefs(AddDefs(buf, f), f)
Defining == INSTANCE Loop WITH Step <- DefineFile
Emitting == INSTANCE Loop WITH Step <- AddChannels
DefinePasses ==
    /\ phase = "passes"
    /\ registry' = RegisterAll(registry, todo, text)
    /\ gbuf' = Emitting!Fold(Defining!Fold(gbuf, todo), todo)
    /\ phase' = "calls"
    /\ UNCHANGED <<text, indexed, db, full, todo, saved, next, at, local,
                   shared, hist>>

\* ... then their calls.
ResolveHere(buf, f) == ResolveCalls(buf, buf, f)
Resolving == INSTANCE Loop WITH Step <- ResolveHere
CallPasses ==
    /\ phase = "calls"
    /\ gbuf' = Resolving!Fold(gbuf, todo)
    /\ phase' = "finish"
    /\ UNCHANGED <<text, indexed, db, full, todo, registry, saved, next, at,
                   local, shared, hist>>

\* A worker takes the next file.
Take(w) ==
    /\ phase \in {"extract", "resolve"}
    /\ at[w] = None /\ next <= Len(todo)
    /\ at' = [at EXCEPT ![w] = next]
    /\ next' = next + 1
    /\ UNCHANGED <<text, indexed, db, phase, full, todo, gbuf, registry, saved,
                   local, shared, hist>>

\* A worker's step on its file, with ids from the shared counter.
Work(w, buf) ==
    /\ local' = [local EXCEPT ![w] = buf]
    /\ shared' = buf.next
    /\ at' = [at EXCEPT ![w] = None]
    /\ UNCHANGED <<text, indexed, db, phase, full, todo, gbuf, registry, saved,
                   next, hist>>

Mine(w) == [local[w] EXCEPT !.next = shared]

\* Files are parsed in descending size and linked in the order of discovery.
Sorted == Keep(BySize, ToSet(todo))

\* extract_worker
Extract(w) ==
    /\ phase = "extract" /\ at[w] # None
    /\ Work(w, AddDefs(Mine(w), Sorted[at[w]]))

\* resolve_worker
ResolveFile(w) ==
    /\ phase = "resolve" /\ at[w] # None
    /\ Work(w, ResolveCalls(Mine(w), gbuf, todo[at[w]]))

\* cbm_parallel_for has joined its threads: the local buffers are merged in
\* the order of the workers and the main buffer goes on from the shared ids.
Merging == INSTANCE Loop WITH Step <- Merge
MergeLocals(then) ==
    /\ next > Len(todo) /\ \A w \in Pool : at[w] = None
    /\ gbuf' = [Merging!Fold(gbuf, local) EXCEPT !.next = shared]
    /\ local' = NoLocals /\ next' = 1
    /\ phase' = then
    /\ UNCHANGED <<text, indexed, db, full, todo, registry, saved, at, shared,
                   hist>>

MergeExtracted == phase = "extract" /\ MergeLocals("registry")
MergeResolved  == phase = "resolve" /\ MergeLocals("finish")

\* cbm_build_registry_from_cache: on the main buffer, with ids of its own.
EnterFile(buf, f) == AddChannels(LinkDefs(buf, f), f)
EnteringFiles == INSTANCE Loop WITH Step <- EnterFile
BuildRegistry ==
    /\ phase = "registry"
    /\ registry' = RegisterAll(registry, todo, text)
    /\ gbuf' = EnteringFiles!Fold(gbuf, todo)
    /\ phase' = "resolve"
    /\ UNCHANGED <<text, indexed, db, full, todo, saved, next, at, local,
                   shared, hist>>

\* Faulty variant: the captured edges are forgotten.
RestoreNothing(buf) == buf

\* incr_restore_inbound_edges
Restore(buf) == LinkAll(buf, saved)

\* The graph replaces the database, and the buffer is freed.
Finish ==
    /\ phase = "finish"
    /\ db' = Dump(Restore(gbuf))
    /\ indexed' = text
    /\ phase' = "idle"
    /\ gbuf' = EmptyBuffer /\ registry' = <<>> /\ saved' = {} /\ todo' = <<>>
    /\ next' = 1 /\ local' = NoLocals /\ shared' = 1
    /\ UNCHANGED <<text, full, at, hist>>

Next ==
    \/ \E f \in Files, t \in Texts \cup {Absent} : Edit(f, t)
    \/ StartFull \/ StartIncremental \/ DefinePasses \/ CallPasses
    \/ \E w \in Pool : Take(w) \/ Extract(w) \/ ResolveFile(w)
    \/ MergeExtracted \/ BuildRegistry \/ MergeResolved \/ Finish

Spec == Init /\ [][Next]_vars
----------------------------------------------------------------------------
(* Properties.                                                             *)

Types == {"CONTAINS_FOLDER", "CONTAINS_FILE", "DEFINES", "CALLS", "HTTP_CALLS",
          "EMITS"}
Labels == {"Project", "Folder", "File", "Module", "Function", "Route", "Channel"}

Symbols  == UNION {Range(t.defs) : t \in Texts}
Channels == UNION {Range(t.channels) : t \in Texts}
Routes   == UNION {Range(t.routes) : t \in Texts}

QNames ==
    {ProjectName, FolderName(Directory)}
    \cup {ModuleName(f) : f \in Files} \cup {FileName(f) : f \in Files}
    \cup {DefName(f, d) : f \in Files, d \in Symbols}
    \cup {RouteName(r) : r \in Routes} \cup {ChannelName(c) : c \in Channels}

OneNodePerName(nodes) ==
    \A i, j \in DOMAIN nodes : nodes[i].qn = nodes[j].qn => i = j

Edges(ends) == [src : ends, tgt : ends, type : Types]

Buffers ==
    {buf \in [nodes : Seq([id : Nat, qn : QNames, label : Labels, file : Places]),
              edges : SUBSET Edges(Nat), next : Nat] :
       OneNodePerName(buf.nodes) /\ IsFiniteSet(buf.edges)}

Graphs ==
    {graph \in [nodes : Seq([qn : QNames, label : Labels, file : Places]),
                edges : SUBSET Edges(QNames)] :
       /\ OneNodePerName(graph.nodes) /\ IsFiniteSet(graph.edges)
       /\ \A e \in graph.edges : {e.src, e.tgt} \subseteq Names(graph)}

\* Every variable holds a value of its kind; a name has one node in every
\* buffer and in the database, whose edges are between names it has.
TypeOK ==
    /\ text \in [Files -> Texts \cup {Absent}]
    /\ indexed \in [Files -> Texts \cup {Absent}]
    /\ db \in Graphs
    /\ phase \in {"none", "idle", "passes", "calls", "extract", "registry",
                  "resolve", "finish"}
    /\ full \in BOOLEAN
    /\ todo \in Seq(Files)
    /\ gbuf \in Buffers
    /\ registry \in Seq(QNames)
    /\ saved \in SUBSET Edges(QNames) /\ IsFiniteSet(saved)
    /\ next \in 1..(Len(Order) + 1)
    /\ at \in [Pool -> 0..Len(Order)]
    /\ local \in [Pool -> Buffers]
    /\ shared \in Nat
    /\ calm \in BOOLEAN /\ exact \in BOOLEAN
    /\ runs \in 0..MaxRuns /\ edits \in 0..MaxEdits

\* The graph that texts stand for, said without buffers and ids.
Edge(src, tgt, type) == [src |-> src, tgt |-> tgt, type |-> type]
EdgesOf(f, t, reg) ==
    {Edge(FolderName(Directory), FileName(f), "CONTAINS_FILE"),
     Edge(ProjectName, FolderName(Directory), "CONTAINS_FOLDER")}
    \cup {Edge(FileName(f), d.qn, "DEFINES") : d \in ToSet(Defs(f, t))}
    \cup {Edge(FileName(f), qn, "CALLS") :
            qn \in UNION {Resolve(reg, f, name) : name \in t.calls}}
    \cup {Edge(FileName(f), RouteName(r), "HTTP_CALLS") : r \in ToSet(t.routes)}
    \cup {Edge(FileName(f), ChannelName(c), "EMITS") : c \in ToSet(t.channels)}
MeaningOf(texts) ==
    UNION {EdgesOf(f, texts[f], RegisterAll(<<>>, FilesOf(texts), texts)) :
             f \in ToSet(FilesOf(texts))}
Meaning == MeaningOf(text)

\* Edges to channels get lost in parallel runs; see IdsUnique.
Compared(edges) ==
    IF exact THEN edges ELSE {e \in edges : e.type # "EMITS"}

Current == phase = "idle" /\ indexed = text

\* A full run stores the graph of the texts, whatever the number of workers,
\* whichever of them takes which file and in whatever order they finish.
FullRunIsExact ==
    Current /\ full => Compared(db.edges) = Compared(Meaning)

Clashing(f, g) == f # g /\ {Stem[f], ModuleOf[f]} \cap {Stem[g], ModuleOf[g]} # {}
Ambiguous ==
    \E f, g \in ToSet(Existing) :
        f # g /\ (Clashing(f, g) \/ ToSet(text[f].defs) \cap ToSet(text[g].defs) # {})

\* After edits that leave every definition in place an incremental run
\* arrives at the same edges as a full run, when names are not ambiguous and
\* no module is a directory.
IncrementalIsExact ==
    Current /\ calm /\ ~Ambiguous
        /\ (\A f \in ToSet(Existing) : ModuleOf[f] # Directory)
        => Compared(db.edges) = Compared(Meaning)

\* A definition in the database belongs to a file that contains it, through
\* edits, removals and renamings, and also when two files share their names.
Owned(n, texts) ==
    n.label = "Function" =>
        /\ n.file \in Files /\ texts[n.file] # Absent
        /\ \E d \in ToSet(texts[n.file].defs) : n.qn = DefName(n.file, d)
OwnerDefines == \A n \in ToSet(db.nodes) : Owned(n, indexed)

OwnerIn(graph, qn) == Node(graph, qn).file

\* An incremental run keeps the edges whose source is in no file that changed
\* and whose target, in no file that went away, is there again afterwards.
EdgesSurvive ==
    [][phase = "finish" /\ phase' = "idle" /\ ~full =>
         \A e \in db.edges :
             /\ OwnerIn(db, e.src) \notin Changed \cup Deleted
             /\ OwnerIn(db, e.tgt) \notin Deleted
             /\ Has(db', e.tgt)
             => e \in db'.edges]_vars

\* pipeline_internal.h: shared_ids provides globally unique ids.
IdsUnique ==
    \A m, n \in ToSet(gbuf.nodes) : m.id = n.id => m = n

\* pipeline_incremental.c: containment edges are preserved precisely.
ContainmentKept ==
    [][phase = "finish" /\ phase' = "idle" /\ ~full =>
         \A e \in db.edges :
             e.type = "CONTAINS_FILE" /\ Has(db', e.tgt) => e \in db'.edges]_vars

\* pipeline_incremental.c: a re-resolve picks the nodes a full reindex would,
\* also for ambiguous names.
SamePick ==
    Current /\ calm =>
        {e \in db.edges : e.type = "CALLS"} = {e \in Meaning : e.type = "CALLS"}

\* pipeline_incremental.c: an edge is only dropped when its target is gone.
RenameKeepsEdges ==
    [][phase = "finish" /\ phase' = "idle" /\ ~full =>
         \A e \in db.edges :
             /\ OwnerIn(db, e.src) \notin Changed \cup Deleted
             /\ Has(db', e.tgt)
             => e \in db'.edges]_vars

\* A definition of an indexed file has a node.
DefinitionsPresent ==
    phase = "idle" =>
        \A f \in Files : indexed[f] # Absent =>
            \A d \in ToSet(indexed[f].defs) : Has(db, DefName(f, d))
=============================================================================
