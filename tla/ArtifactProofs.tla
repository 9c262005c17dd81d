--------------------------- MODULE ArtifactProofs ---------------------------
(***************************************************************************)
(* Theorems about Artifact, for the calls of one process: what the rows of *)
(* a database say about its graph, what an answer promises, and that the   *)
(* two files of an artifact belong together.  Type correctness holds for   *)
(* any processes.                                                          *)
(***************************************************************************)
EXTENDS Artifact, TLAPS

USE DEF Goto, files, client, hist

----------------------------------------------------------------------------
(* Values.                                                                 *)

\* A database is built from a project, a version and rows, and is no mark.
LEMMA Sorts ==
    /\ \A p \in Projects \cup {Elsewhere}, g \in Graphs,
          r \in Graphs \cup {Foreign} :
         /\ Database(p, g, r) \in Databases
         /\ Database(p, g, r) \notin Marks
    /\ \A x \in Databases, r \in Graphs \cup {Foreign} :
         /\ x \notin Marks
         /\ [x EXCEPT !.rows = r] \in Databases
         /\ [x EXCEPT !.rows = r] \notin Marks
         /\ [x EXCEPT !.rows = r].of = x.of
         /\ [x EXCEPT !.rows = r].graph = x.graph
         /\ [x EXCEPT !.rows = r].rows = r
    /\ \A x \in Contents : x \in Databases \/ x \in Marks
<1>1. ASSUME NEW p \in Projects \cup {Elsewhere}, NEW g \in Graphs,
             NEW r \in Graphs \cup {Foreign}
      PROVE  Database(p, g, r) \in Databases
  BY DEF Database, Databases
<1>2. ASSUME NEW x \in Databases, NEW r \in Graphs \cup {Foreign}
      PROVE  /\ [x EXCEPT !.rows = r] \in Databases
             /\ [x EXCEPT !.rows = r].of = x.of
             /\ [x EXCEPT !.rows = r].graph = x.graph
             /\ [x EXCEPT !.rows = r].rows = r
  BY DEF Databases
<1> QED
  BY <1>1, <1>2, MarksAssumption DEF Contents

LEMMA Numbers ==
    /\ Versions \subseteq Graphs
    /\ 0 \in Graphs /\ 1 \in Graphs /\ NoRows \in Graphs
    /\ MaxVersion - 1 \in Versions
    /\ NoRows \notin Versions /\ Foreign \notin Versions
BY VersionAssumption DEF Versions, Graphs, NoRows, Foreign

LEMMA ArrivalsAreContents == \A p \in Projects : Arrivals(p) \subseteq Contents
BY Sorts, Numbers DEF Arrivals, Contents, Marks

----------------------------------------------------------------------------
(* Type correctness.                                                       *)

LEMMA InitType == Init => TypeOK
<1> SUFFICES ASSUME Init PROVE TypeOK
  OBVIOUS
<1>1. zst \in [Projects -> Contents]
  BY ArrivalsAreContents DEF Init
<1>2. FilesOK
  BY <1>1, Numbers DEF Init, FilesOK, Contents, Marks
<1>3. ClientsOK
  BY DEF Init, ClientsOK, PCs, Contents, Marks
<1>4. LockOK
  BY DEF Init, LockOK, Holding
<1>5. HistoryOK
  BY Numbers DEF Init, HistoryOK
<1> QED
  BY <1>2, <1>3, <1>4, <1>5 DEF TypeOK

\* A call ends.
LEMMA LeaveType ==
    ASSUME TypeOK, NEW c \in Clients, NEW version \in Graphs,
           Leave(c, version), UNCHANGED <<raced, unpaired>>
    PROVE  ClientsOK' /\ LockOK' /\ HistoryOK'
<1> USE DEF TypeOK, Leave
<1>1. ClientsOK'
  BY DEF ClientsOK, PCs, Contents, Marks
<1>2. LockOK'
  BY NobodyAssumption DEF LockOK, ClientsOK, Processes, Holding
<1>3. HistoryOK'
  BY DEF HistoryOK, ClientsOK
<1> QED
  BY <1>1, <1>2, <1>3

\* A client that keeps the lock, or is without it, goes to another place.
LEMMA LockMoves ==
    ASSUME LockOK, ClientsOK, UNCHANGED lock, NEW c \in Clients, NEW label,
           Goto(c, label), label \in Holding => pc[c] \in Holding
    PROVE  LockOK'
BY DEF LockOK, ClientsOK

\* What a client does on the way to the lock.
LEMMA ImportType ==
    ASSUME TypeOK, NEW c \in Clients, Import(c)
    PROVE  TypeOK'
<1> USE DEF TypeOK
<1> DEFINE p == on[c]
<1>0. p \in Projects /\ pc[c] \in PCs
  BY DEF ClientsOK
<1>1. CASE Check(c) \/ ReadMeta(c) \/ Unpack(c)
  <2>1. FilesOK' /\ HistoryOK'
    BY <1>1 DEF Check, ReadMeta, Unpack, FilesOK, HistoryOK
  <2>2. ClientsOK'
    BY <1>1, <1>0 DEF Check, ReadMeta, Unpack, FilesOK, ClientsOK, PCs
  <2>3. LockOK'
    <3>1. PICK label \in {"import", "unpack", "write", "wait"} :
             Goto(c, label)
      BY <1>1 DEF Check, ReadMeta, Unpack
    <3> QED
      BY <1>1, <3>1, LockMoves DEF Check, ReadMeta, Unpack, Holding
  <2> QED
    BY <2>1, <2>2, <2>3
<1>2. CASE WriteImport(c)
  <2>1. FilesOK' /\ HistoryOK' /\ ClientsOK'
    BY <1>2, <1>0 DEF WriteImport, FilesOK, HistoryOK, ClientsOK, PCs
  <2>2. LockOK'
    BY <1>2, LockMoves DEF WriteImport, Holding
  <2> QED
    BY <2>1, <2>2
<1>3. CASE OpenImport(c)
  <2>1. Schema(p) \in Contents /\ None \in Contents
    BY <1>0, Sorts, Numbers DEF Schema, Contents, Marks
  <2>2. FilesOK' /\ HistoryOK' /\ ClientsOK'
    BY <1>3, <1>0, <2>1 DEF OpenImport, FilesOK, HistoryOK, ClientsOK, PCs
  <2>3. LockOK'
    <3>1. PICK label \in {"install", "wait"} : Goto(c, label)
      BY <1>3 DEF OpenImport
    <3> QED
      BY <1>3, <3>1, LockMoves DEF OpenImport, Holding
  <2> QED
    BY <2>2, <2>3
<1>4. CASE Install(c)
  <2>1. import[p] # None => Imported(p, import[p]) \in Contents
    BY <1>0, Sorts, Numbers DEF Imported, FilesOK, Contents, Marks
  <2>2. None \in Contents
    BY DEF Contents, Marks
  <2>3. FilesOK'
    BY <1>4, <1>0, <2>1, <2>2 DEF Install, FilesOK
  <2>4. ClientsOK' /\ HistoryOK'
    BY <1>4, <1>0 DEF Install, ClientsOK, HistoryOK, PCs
  <2>5. LockOK'
    BY <1>4, LockMoves DEF Install, Holding
  <2> QED
    BY <2>3, <2>4, <2>5
<1> QED
  BY <1>1, <1>2, <1>3, <1>4 DEF Import

\* What a client does under the lock, before the export.
LEMMA RunType ==
    ASSUME TypeOK, NEW c \in Clients, Run(c)
    PROVE  TypeOK'
<1> USE DEF TypeOK
<1> DEFINE p == on[c]
<1>0. p \in Projects /\ pc[c] \in PCs /\ head[p] \in Graphs
  BY Numbers DEF ClientsOK, FilesOK
<1>1. CASE Acquire(c)
  <2>1. FilesOK' /\ HistoryOK' /\ ClientsOK'
    BY <1>1, <1>0 DEF Acquire, FilesOK, HistoryOK, ClientsOK, PCs,
                   Holding
  <2>2. LockOK'
    BY <1>1, <1>0, NobodyAssumption DEF Acquire, LockOK, ClientsOK, Processes
  <2> QED
    BY <2>1, <2>2
<1>2. CASE UpToDate(c) \/ Return(c)
  <2>1. FilesOK'
    BY <1>2 DEF UpToDate, Return, Succeed, Leave, FilesOK
  <2> QED
    BY <1>2, <1>0, <2>1, LeaveType DEF UpToDate, Return, Succeed
<1>3. CASE Cancel(c)
  <2>1. FilesOK'
    BY <1>3 DEF Cancel, Fail, Leave, FilesOK
  <2> QED
    BY <1>3, <1>0, <2>1, LeaveType, Numbers DEF Cancel, Fail
<1>4. ASSUME NEW all \in BOOLEAN, Route(c, all)
      PROVE  TypeOK'
  <2>1. FilesOK' /\ HistoryOK' /\ ClientsOK'
    BY <1>4, <1>0 DEF Route, FilesOK, HistoryOK, ClientsOK, PCs,
                   Holding, Contents,
                      Marks
  <2>2. LockOK'
    BY <1>4, LockMoves DEF Route, Holding
  <2> QED
    BY <2>1, <2>2
<1>5. CASE Parse(c)
  <2>1. Database(p, head[p], NoRows) \in Contents /\ None \in Contents
    BY <1>0, Sorts, Numbers DEF Contents, Marks
  <2>2. FilesOK' /\ HistoryOK' /\ ClientsOK'
    BY <1>5, <1>0, <2>1 DEF Parse, FilesOK, HistoryOK, ClientsOK, PCs,
                   Holding
  <2>3. LockOK'
    BY <1>5, LockMoves DEF Parse, Holding
  <2> QED
    BY <2>2, <2>3
<1>6. CASE DumpOpen(c)
  <2>1. FilesOK' /\ HistoryOK' /\ ClientsOK'
    BY <1>6, <1>0 DEF DumpOpen, FilesOK, HistoryOK, ClientsOK, PCs,
                   Holding, Contents,
                      Marks
  <2>2. LockOK'
    BY <1>6, LockMoves DEF DumpOpen, Holding
  <2> QED
    BY <2>1, <2>2
<1>7. CASE DumpClose(c)
  <2>1. FilesOK' /\ HistoryOK' /\ ClientsOK'
    BY <1>7, <1>0 DEF DumpClose, FilesOK, HistoryOK, ClientsOK, PCs,
                   Holding
  <2>2. LockOK'
    BY <1>7, LockMoves DEF DumpClose, Holding
  <2> QED
    BY <2>1, <2>2
<1>8. CASE Stamp(c)
  <2>1. [Schema(p) EXCEPT !.rows = head[p]] \in Contents
    BY <1>0, Sorts, Numbers DEF Schema, Contents
  <2>2. db[p] \notin Marks => [db[p] EXCEPT !.rows = head[p]] \in Contents
    BY <1>0, Sorts DEF FilesOK, Contents
  <2>3. PICK x : x \in Contents /\ db' = [db EXCEPT ![p] = x]
    <3>1. CASE db[p] \in Marks
      BY <1>8, <3>1, <2>1, MarksAssumption DEF Stamp, Contents, Marks
    <3>2. CASE db[p] \notin Marks
      BY <1>8, <3>2, <2>2 DEF Stamp, Marks
    <3> QED
      BY <3>1, <3>2
  <2>4. FilesOK' /\ HistoryOK'
    BY <1>8, <1>0, <2>3 DEF Stamp, FilesOK, HistoryOK
  <2>5. PICK label \in {"clear", "leave", "read"} : Goto(c, label)
    BY <1>8 DEF Stamp
  <2>6. ClientsOK'
    BY <1>8, <1>0, <2>5 DEF Stamp, ClientsOK, PCs, Holding
  <2>7. LockOK'
    BY <1>8, <2>5, LockMoves DEF Stamp, Holding
  <2> QED
    BY <2>4, <2>6, <2>7
<1> QED
  BY <1>1, <1>2, <1>3, <1>4, <1>5, <1>6, <1>7, <1>8 DEF Run

LEMMA ExportType ==
    ASSUME TypeOK, NEW c \in Clients, Export(c)
    PROVE  TypeOK'
<1> USE DEF TypeOK
<1> DEFINE p == on[c]
<1>0. p \in Projects /\ pc[c] \in PCs /\ head[p] \in Graphs /\ 0 \in Graphs
  BY Numbers DEF ClientsOK, FilesOK
<1>1. ASSUME NEW version \in Graphs, Leave(c, version), FilesOK',
             UNCHANGED <<raced, unpaired>>
      PROVE  TypeOK'
  BY <1>1, LeaveType
<1>2. CASE Clear(c)
  <2>1. FilesOK' /\ HistoryOK' /\ ClientsOK'
    BY <1>2, <1>0 DEF Clear, FilesOK, HistoryOK, ClientsOK, PCs,
                   Holding
  <2>2. LockOK'
    BY <1>2, LockMoves DEF Clear, Holding
  <2> QED
    BY <2>1, <2>2
<1>3. CASE Vacuum(c) /\ vacuum = None /\ Readable(p)
  <2>1. db[p] \in Databases
    BY <1>3, <1>0 DEF Readable, FilesOK, Contents, Marks
  <2>2. FilesOK' /\ HistoryOK' /\ ClientsOK'
    BY <1>3, <1>0, <2>1 DEF Vacuum, FilesOK, HistoryOK, ClientsOK, PCs,
                   Holding
  <2>3. LockOK'
    BY <1>3, LockMoves DEF Vacuum, Holding
  <2> QED
    BY <2>2, <2>3
<1>4. CASE Vacuum(c) /\ ~(vacuum = None /\ Readable(p))
  <2>1. FilesOK'
    BY <1>4 DEF Vacuum, Broken, Leave, FilesOK
  <2> QED
    BY <1>4, <1>0, <1>1, <2>1 DEF Vacuum, Broken
<1>5. CASE Strip(c) /\ vacuum = None
  <2>1. FilesOK'
    BY <1>5 DEF Strip, Broken, Leave, FilesOK
  <2> QED
    BY <1>5, <1>0, <1>1, <2>1 DEF Strip, Broken
<1>6. CASE Strip(c) /\ vacuum # None
  <2>1. vacuum \in Contents
    BY DEF FilesOK, Contents, Marks
  <2>2. FilesOK' /\ HistoryOK' /\ ClientsOK'
    BY <1>6, <1>0, <2>1 DEF Strip, FilesOK, HistoryOK, ClientsOK, PCs,
                   Holding
  <2>3. LockOK'
    BY <1>6, LockMoves DEF Strip, Holding
  <2> QED
    BY <2>2, <2>3
<1>7. CASE ReadFile(c)
  <2>1. FilesOK' /\ HistoryOK' /\ ClientsOK'
    BY <1>7, <1>0 DEF ReadFile, FilesOK, HistoryOK, ClientsOK, PCs,
                   Holding
  <2>2. PICK label \in {"leave", "zst"} : Goto(c, label)
    BY <1>7 DEF ReadFile
  <2>3. LockOK'
    BY <1>7, <2>2, LockMoves DEF ReadFile, Holding
  <2> QED
    BY <2>1, <2>3
<1>8. CASE WriteZst(c) \/ WriteMeta(c)
  <2>1. FilesOK' /\ HistoryOK' /\ ClientsOK'
    BY <1>8, <1>0 DEF WriteZst, WriteMeta, FilesOK, HistoryOK, ClientsOK, PCs,
                   Holding
  <2>2. PICK label \in {"meta", "leave"} : Goto(c, label)
    BY <1>8 DEF WriteZst, WriteMeta
  <2>3. LockOK'
    BY <1>8, <2>2, LockMoves DEF WriteZst, WriteMeta, Holding
  <2> QED
    BY <2>1, <2>3
<1>9. CASE ZstFails(c) \/ MetaFails(c)
  <2>1. PICK version \in Graphs : Leave(c, version)
    BY <1>9, <1>0 DEF ZstFails, MetaFails, EndExport, Succeed
  <2>2. FilesOK'
    BY <1>9, <1>0 DEF ZstFails, MetaFails, EndExport, Succeed, Leave, FilesOK,
                      Contents, Marks
  <2>3. UNCHANGED <<raced, unpaired>>
    BY <1>9 DEF ZstFails, MetaFails
  <2> QED
    BY <1>1, <2>1, <2>2, <2>3
<1> QED
  BY <1>2, <1>3, <1>4, <1>5, <1>6, <1>7, <1>8, <1>9 DEF Export

LEMMA CrashType ==
    ASSUME TypeOK, NEW s \in Processes, Crash(s)
    PROVE  TypeOK'
<1> USE DEF TypeOK, Crash
<1>1. FilesOK'
  BY DEF FilesOK
<1>2. ClientsOK'
  BY DEF ClientsOK, PCs, Contents, Marks
<1>3. LockOK'
  BY DEF LockOK, ClientsOK, Holding, Processes
<1>4. HistoryOK'
  BY Numbers DEF HistoryOK, ClientsOK
<1> QED
  BY <1>1, <1>2, <1>3, <1>4

LEMMA OutsideType ==
    ASSUME TypeOK, NEW p \in Projects, Edit(p) \/ Delete(p)
    PROVE  TypeOK'
<1> USE DEF TypeOK
<1>1. FilesOK'
  <2>1. CASE Edit(p)
    <3>1. head[p] + 1 \in Versions
      BY <2>1, VersionAssumption DEF Edit, FilesOK, Versions
    <3> QED
      BY <2>1, <3>1 DEF Edit, FilesOK
  <2>2. CASE Delete(p)
    BY <2>2 DEF Delete, FilesOK, Contents, Marks
  <2> QED
    BY <2>1, <2>2
<1>2. ClientsOK' /\ LockOK'
  BY DEF Edit, Delete, ClientsOK, LockOK
<1>3. HistoryOK'
  BY Numbers DEF Edit, Delete, HistoryOK
<1> QED
  BY <1>1, <1>2, <1>3

LEMMA CallType ==
    ASSUME TypeOK, NEW c \in Clients, NEW p \in Projects, NEW b \in BOOLEAN,
           NEW start \in {"check", "wait"}, Call(c, p, b, start)
    PROVE  TypeOK'
<1> USE DEF TypeOK, Call
<1>1. FilesOK' /\ HistoryOK' /\ ClientsOK'
  BY DEF FilesOK, HistoryOK, ClientsOK, PCs
<1>2. LockOK'
  BY LockMoves DEF Holding
<1> QED
  BY <1>1, <1>2

\* Every reachable state is of the right type, for any processes.
THEOREM ArtifactTypeCorrect == Spec => []TypeOK
<1>1. TypeOK /\ [Next]_vars => TypeOK'
  <2> SUFFICES ASSUME TypeOK, [Next]_vars PROVE TypeOK'
    OBVIOUS
  <2>1. CASE UNCHANGED vars
    BY <2>1 DEF vars, TypeOK, FilesOK, ClientsOK, LockOK, HistoryOK
  <2> QED
    BY <2>1, ImportType, RunType, ExportType, CrashType, OutsideType, CallType
       DEF Next
<1> QED
  BY InitType, <1>1, PTL DEF Spec

----------------------------------------------------------------------------
(* The inductive invariants, for the calls of one process.                 *)

SameProcess == \A c, d \in Clients : Process[c] = Process[d]

\* What a file of project p may hold: unless p is in r, its rows stand for a
\* version only beside the graph of that version.
Sound(r, p, x) == p \notin r => TellsTruth(p, x)

SoundFiles(r, f) == \A p \in Projects : Sound(r, p, f[p])

\* Every file of a project, and what its clients carry, may be there, unless
\* an import has raced with a run; the one file for temporary copies is that
\* of the client which holds the lock.
ClientSound(c) ==
    /\ Sound(raced, on[c], got[c])
    /\ pc[c] = "idle" => got[c] = None
    /\ pc[c] = "strip" => Sound(raced, on[c], vacuum)

ContentInv ==
    /\ SoundFiles(raced, db) /\ SoundFiles(raced, zst)
    /\ SoundFiles(raced, import)
    /\ \A c \in Clients : ClientSound(c)

\* From the parse to the rows the client carries the graph of the checkout,
\* and nothing but a racing import comes between it and the file.
ClientDumps(c) ==
    /\ pc[c] \in {"dump", "dumping", "stamp"} =>
          got[c] = Database(on[c], head[on[c]], NoRows)
    /\ pc[c] = "dumping" /\ on[c] \notin raced => mine[c]
    /\ pc[c] = "stamp" /\ on[c] \notin raced => db[on[c]] = got[c]

DumpInv == \A c \in Clients : ClientDumps(c)

\* The database of a run that has written its rows is that of the checkout,
\* or another call has replaced it and still waits for its own run.
Exporting == {"clear", "vacuum", "strip", "read", "zst", "meta", "leave"}
Fresh(p)  == db[p] = Database(p, head[p], head[p])
Waiting(p) == \E d \in Clients : on[d] = p /\ pc[d] = "wait"

AnswerInv ==
    /\ \A c \in Clients :
         pc[c] \in Exporting /\ on[c] \notin raced =>
             Fresh(on[c]) \/ Waiting(on[c])
    /\ AnswersHold

\* Between its two files an export has the first one in place.
PairInv ==
    /\ \A c \in Clients : pc[c] = "meta" => zst[on[c]] = got[c]
    /\ PairMatches

----------------------------------------------------------------------------
(* One client at a time is past the lock.                                  *)

LEMMA OneHolder ==
    ASSUME SameProcess, TypeOK, NEW c \in Clients, NEW d \in Clients,
           pc[c] \in Holding, pc[d] \in Holding
    PROVE  c = d
BY DEF SameProcess, TypeOK, LockOK

LEMMA HolderKeepsOut ==
    ASSUME SameProcess, TypeOK, NEW c \in Clients, pc[c] \in Holding
    PROVE  \A s \in Processes : lock[s] = c /\ lock[s] # Nobody
BY NobodyAssumption DEF SameProcess, TypeOK, LockOK, Processes

\* A race is remembered until a full run has the project to itself.
Clears(c) == Route(c, TRUE) /\ Cured(c)

LEMMA RacedSteps ==
    [Next]_vars => raced \subseteq raced' \/ \E c \in Clients : Clears(c)
BY DEF Clears, Next, vars, Edit, Delete, Call, Import, Check, ReadMeta, Unpack,
       WriteImport, OpenImport, Install, Run, Acquire, UpToDate, Route,
       Cancel, Parse, DumpOpen, DumpClose, Stamp, Return, Export, Clear,
       Vacuum, Strip, ReadFile, WriteZst, WriteMeta, ZstFails, MetaFails,
       Broken, Crash

----------------------------------------------------------------------------
(* What the files hold.                                                    *)

LEMMA SoundMark ==
    ASSUME NEW r, NEW p, NEW x \in Marks
    PROVE  Sound(r, p, x)
BY MarksAssumption DEF Sound, TellsTruth

LEMMA SoundGrows ==
    ASSUME NEW r, NEW s, r \subseteq s, NEW p, NEW x, Sound(r, p, x)
    PROVE  Sound(s, p, x)
BY DEF Sound

\* A database of the project without rows, or with those of its graph.
LEMMA SoundNew ==
    ASSUME NEW r, NEW p \in Projects, NEW g \in Graphs,
           NEW rows \in {NoRows, g}
    PROVE  Sound(r, p, Database(p, g, rows))
BY Numbers DEF Sound, TellsTruth, Database

LEMMA SoundPut ==
    ASSUME NEW r, NEW s, r \subseteq s, NEW f \in [Projects -> Contents],
           SoundFiles(r, f), NEW p \in Projects, NEW x, Sound(s, p, x)
    PROVE  SoundFiles(s, [f EXCEPT ![p] = x])
BY SoundGrows DEF SoundFiles

LEMMA SoundKept ==
    ASSUME NEW r, NEW s, r \subseteq s, NEW f, SoundFiles(r, f)
    PROVE  SoundFiles(s, f)
BY SoundGrows DEF SoundFiles

LEMMA SoundImported ==
    ASSUME NEW r, NEW s, NEW p \in Projects, NEW x \in Contents,
           Sound(r, p, x), r \subseteq s, x # None
    PROVE  Sound(s, p, Imported(p, x))
<1>1. CASE x \in Marks
  BY <1>1, SoundMark DEF Imported, Marks
<1>2. CASE x \in Databases /\ x.of # p
  BY <1>2, Sorts, Numbers, MarksAssumption
     DEF Imported, Marks, Sound, TellsTruth
<1>3. CASE x \in Databases /\ x.of = p
  BY <1>3, SoundGrows, MarksAssumption DEF Imported, Marks
<1> QED
  BY <1>1, <1>2, <1>3 DEF Contents

\* The clients a step leaves alone keep what they carry.
LEMMA OthersSound ==
    ASSUME ContentInv, raced \subseteq raced', NEW c \in Clients,
           on'[c] = on[c], got'[c] = got[c], pc'[c] = pc[c],
           pc[c] = "strip" => vacuum' = vacuum
    PROVE  ClientSound(c)'
BY SoundGrows DEF ContentInv, ClientSound

LEMMA ContentInit == Init => ContentInv
<1> SUFFICES ASSUME Init PROVE ContentInv
  OBVIOUS
<1>1. SoundFiles(raced, db) /\ SoundFiles(raced, import)
  BY SoundMark DEF Init, SoundFiles, Marks
<1>2. SoundFiles(raced, zst)
  <2> SUFFICES ASSUME NEW p \in Projects PROVE Sound(raced, p, zst[p])
    BY DEF SoundFiles
  <2>1. zst[p] \in Arrivals(p)
    BY DEF Init
  <2>2. Sound(raced, p, Database(p, 1, Foreign))
    BY Numbers DEF Sound, TellsTruth, Database
  <2>3. Sound(raced, p, Database(Elsewhere, 1, Foreign))
    BY Numbers DEF Sound, TellsTruth, Database
  <2> QED
    BY <2>1, <2>2, <2>3, SoundMark DEF Arrivals, Marks
<1>3. ASSUME NEW c \in Clients PROVE ClientSound(c)
  BY SoundMark DEF Init, ClientSound, Marks
<1> QED
  BY <1>1, <1>2, <1>3 DEF ContentInv

LEMMA ContentImport ==
    ASSUME TypeOK, ContentInv, NEW c \in Clients, Import(c),
           raced \subseteq raced'
    PROVE  ContentInv'
<1> DEFINE p == on[c]
<1> USE DEF TypeOK, FilesOK, ClientsOK
<1>0. p \in Projects /\ ClientSound(c) /\ Sound(raced, p, zst[p])
        /\ Sound(raced, p, import[p])
  BY DEF ContentInv, SoundFiles
<1>1. \A d \in Clients \ {c} : ClientSound(d)'
  BY OthersSound DEF Import, Check, ReadMeta, Unpack, WriteImport, OpenImport,
     Install
<1>2. SoundFiles(raced', zst')
  BY SoundKept DEF ContentInv, Import, Check, ReadMeta, Unpack, WriteImport,
     OpenImport, Install
<1>3. CASE Check(c) \/ ReadMeta(c) \/ Unpack(c)
  <2>1. SoundFiles(raced', db') /\ SoundFiles(raced', import')
    BY <1>3, SoundKept DEF ContentInv, Check, ReadMeta, Unpack
  <2>2. ClientSound(c)'
    BY <1>3, <1>0 DEF Check, ReadMeta, Unpack, ClientSound
  <2> QED
    BY <1>1, <1>2, <2>1, <2>2 DEF ContentInv
<1>4. CASE WriteImport(c)
  <2>1. SoundFiles(raced', db') /\ SoundFiles(raced', import')
    BY <1>4, <1>0, SoundKept, SoundPut DEF ContentInv, ClientSound, WriteImport
  <2>2. ClientSound(c)'
    BY <1>4, <1>0 DEF WriteImport, ClientSound
  <2> QED
    BY <1>1, <1>2, <2>1, <2>2 DEF ContentInv
<1>5. CASE OpenImport(c)
  <2>1. PICK x : Sound(raced', p, x) /\ import' = [import EXCEPT ![p] = x]
    <3>1. Sound(raced', p, Schema(p)) /\ Sound(raced', p, None)
      BY <1>0, SoundNew, SoundMark, Numbers DEF Schema, Marks
    <3>2. Sound(raced', p, import[p])
      BY <1>0, SoundGrows
    <3> QED
      BY <1>5, <3>1, <3>2 DEF OpenImport
  <2>2. SoundFiles(raced', db') /\ SoundFiles(raced', import')
    <3>1. SoundFiles(raced', db')
      BY <1>5, SoundKept DEF ContentInv, OpenImport
    <3>2. SoundFiles(raced', [import EXCEPT ![p] = x])
      BY <1>0, <2>1, SoundPut DEF ContentInv
    <3> QED
      BY <2>1, <3>1, <3>2
  <2>3. ClientSound(c)'
    BY <1>5, <1>0 DEF OpenImport, ClientSound
  <2> QED
    BY <1>1, <1>2, <2>2, <2>3 DEF ContentInv
<1>6. CASE Install(c)
  <2>1. SoundFiles(raced', db') /\ SoundFiles(raced', import')
    <3>1. CASE import[p] = None
      BY <1>6, <3>1, SoundKept DEF ContentInv, Install
    <3>2. CASE import[p] # None
      <4>1. Sound(raced', p, Imported(p, import[p]))
        BY <1>0, <3>2, SoundImported
      <4>2. Sound(raced', p, None)
        BY SoundMark DEF Marks
      <4>3. SoundFiles(raced', [db EXCEPT ![p] = Imported(p, import[p])])
        BY <1>0, <4>1, SoundPut DEF ContentInv
      <4>4. SoundFiles(raced', [import EXCEPT ![p] = None])
        BY <1>0, <4>2, SoundPut DEF ContentInv
      <4> QED
        BY <1>6, <3>2, <4>3, <4>4 DEF Install
    <3> QED
      BY <3>1, <3>2
  <2>2. ClientSound(c)'
    BY <1>6, <1>0, SoundGrows DEF Install, ClientSound
  <2> QED
    BY <1>1, <1>2, <2>1, <2>2 DEF ContentInv
<1> QED
  BY <1>3, <1>4, <1>5, <1>6 DEF Import

\* A call that ends drops what it carried.
LEMMA ContentLeave ==
    ASSUME TypeOK, ContentInv, NEW c \in Clients, NEW version,
           Leave(c, version), raced \subseteq raced',
           SoundFiles(raced', db'), SoundFiles(raced', zst'),
           SoundFiles(raced', import'),
           vacuum' = vacuum \/ \A d \in Clients \ {c} : pc[d] # "strip"
    PROVE  ContentInv'
<1>1. \A d \in Clients \ {c} : ClientSound(d)'
  BY OthersSound DEF Leave, TypeOK, ClientsOK
<1>2. ClientSound(c)'
  BY SoundMark DEF Leave, TypeOK, ClientsOK, ClientSound, Marks
<1> QED
  BY <1>1, <1>2 DEF ContentInv

LEMMA ContentRun ==
    ASSUME TypeOK, ContentInv, DumpInv, NEW c \in Clients, Run(c),
           raced \subseteq raced'
    PROVE  ContentInv'
<1> DEFINE p == on[c]
<1> USE DEF TypeOK, FilesOK, ClientsOK
<1>0. /\ p \in Projects /\ ClientSound(c) /\ Sound(raced, p, db[p])
      /\ head[p] \in Graphs
  BY Numbers DEF ContentInv, SoundFiles
<1>1. SoundFiles(raced', zst') /\ SoundFiles(raced', import')
  BY SoundKept DEF ContentInv, Run, Acquire, UpToDate, Succeed, Route, Cancel,
     Fail, Parse, DumpOpen, DumpClose, Stamp, Return
<1>2. CASE UpToDate(c) \/ Cancel(c) \/ Return(c)
  <2>1. SoundFiles(raced', db')
    BY <1>2, SoundKept DEF ContentInv, UpToDate, Cancel, Return
  <2> QED
    BY <1>1, <1>2, <2>1, ContentLeave
       DEF UpToDate, Cancel, Fail, Return, Succeed
<1>3. CASE \/ Acquire(c) \/ (\E all \in BOOLEAN : Route(c, all)) \/ Parse(c)
           \/ DumpOpen(c) \/ DumpClose(c) \/ Stamp(c)
  <2>1. \A d \in Clients \ {c} : ClientSound(d)'
    BY <1>3, OthersSound DEF Acquire, Route, Parse, DumpOpen, DumpClose, Stamp
  <2>2. ClientSound(c)'
    <3>1. Sound(raced', p, Database(p, head[p], NoRows))
      BY <1>0, SoundNew
    <3>2. Sound(raced', on'[c], got'[c])
      BY <1>0, <1>3, <3>1, SoundGrows DEF ClientSound, Acquire, Route, Parse,
         DumpOpen, DumpClose, Stamp
    <3>3. pc'[c] \notin {"idle", "strip"}
      BY <1>3 DEF Acquire, Route, Parse, DumpOpen, DumpClose, Stamp
    <3> QED
      BY <3>2, <3>3 DEF ClientSound
  <2>3. SoundFiles(raced', db')
    <3>1. Sound(raced', p, None) /\ Sound(raced', p, Torn)
      BY SoundMark DEF Marks
    <3>2. CASE Acquire(c) \/ (\E all \in BOOLEAN : Route(c, all)) \/ Parse(c)
                 \/ DumpOpen(c)
      BY <3>1, <3>2, <1>0, SoundKept, SoundPut
         DEF ContentInv, Acquire, Route, Parse, DumpOpen
    <3>3. CASE DumpClose(c)
      BY <3>3, <1>0, SoundKept, SoundPut, SoundGrows
         DEF ContentInv, DumpClose, ClientSound
    <3>4. CASE Stamp(c)
      <4>1. PICK x : Sound(raced', p, x) /\ db' = [db EXCEPT ![p] = x]
        <5>1. raced' = raced
          BY <3>4 DEF Stamp
        <5>2. CASE p \notin raced
          <6>1. db[p] = Database(p, head[p], NoRows)
            BY <3>4, <5>2 DEF Stamp, DumpInv, ClientDumps
          <6>2. db[p] \notin Marks
            BY <6>1, <1>0, Sorts, Numbers
          <6>3. [db[p] EXCEPT !.rows = head[p]]
                  = Database(p, head[p], head[p])
            BY <6>1 DEF Database
          <6>4. db' = [db EXCEPT ![p] = Database(p, head[p], head[p])]
            BY <3>4, <6>2, <6>3 DEF Stamp, Marks
          <6> QED
            BY <6>4, <1>0, SoundNew
        <5>3. CASE p \in raced
          <6>1. \A x : Sound(raced', p, x)
            BY <5>1, <5>3 DEF Sound
          <6>2. \E x : db' = [db EXCEPT ![p] = x]
            BY <3>4 DEF Stamp
          <6> QED
            BY <6>1, <6>2
        <5> QED
          BY <5>2, <5>3
      <4> QED
        BY <4>1, <1>0, SoundPut DEF ContentInv
    <3> QED
      BY <1>3, <3>2, <3>3, <3>4
  <2> QED
    BY <1>1, <2>1, <2>2, <2>3 DEF ContentInv
<1> QED
  BY <1>2, <1>3 DEF Run

\* The temporary copy is written and read by the client with the lock.
LEMMA ContentExport ==
    ASSUME SameProcess, TypeOK, ContentInv, NEW c \in Clients, Export(c),
           raced \subseteq raced'
    PROVE  ContentInv'
<1> DEFINE p == on[c]
<1> USE DEF TypeOK, FilesOK, ClientsOK
<1>0. p \in Projects /\ ClientSound(c) /\ Sound(raced, p, db[p])
  BY DEF ContentInv, SoundFiles
<1>1. \A d \in Clients \ {c} : pc[d] # "strip"
  <2>1. pc[c] \in Holding
    BY DEF Export, Clear, Vacuum, Strip, ReadFile, WriteZst, WriteMeta,
       ZstFails, MetaFails, Holding
  <2> QED
    BY <2>1, OneHolder DEF Holding
<1>2. SoundFiles(raced', db') /\ SoundFiles(raced', import')
  BY SoundKept DEF ContentInv, Export, Clear, Vacuum, Strip, ReadFile,
     WriteZst, WriteMeta, ZstFails, MetaFails, Broken
<1>3. SoundFiles(raced', zst')
  <2>1. CASE WriteZst(c)
    BY <2>1, <1>0, SoundPut, SoundGrows DEF WriteZst, ClientSound, ContentInv
  <2>2. CASE MetaFails(c)
    <3>1. Sound(raced', p, None)
      BY SoundMark DEF Marks
    <3> QED
      BY <2>2, <3>1, <1>0, SoundPut DEF MetaFails, ContentInv
  <2>3. CASE ~WriteZst(c) /\ ~MetaFails(c)
    BY <2>3, SoundKept DEF ContentInv, Export, Clear, Vacuum, Strip, ReadFile,
       WriteMeta, ZstFails, Broken
  <2> QED
    BY <2>1, <2>2, <2>3
<1>4. ASSUME NEW version, Leave(c, version)
      PROVE  ContentInv'
  BY <1>1, <1>2, <1>3, <1>4, ContentLeave
<1>5. ASSUME ClientSound(c)', \A d \in Clients \ {c} :
               on'[d] = on[d] /\ got'[d] = got[d] /\ pc'[d] = pc[d]
      PROVE  ContentInv'
  <2>1. \A d \in Clients \ {c} : ClientSound(d)'
    BY <1>1, <1>5, OthersSound
  <2> QED
    BY <1>2, <1>3, <1>5, <2>1 DEF ContentInv
<1>6. CASE ZstFails(c) \/ MetaFails(c)
  BY <1>6, <1>4 DEF ZstFails, MetaFails, EndExport, Succeed
<1>7. CASE Clear(c)
  <2>1. ClientSound(c)'
    BY <1>7, <1>0 DEF Clear, ClientSound
  <2> QED
    BY <1>7, <1>5, <2>1 DEF Clear
<1>8. CASE Vacuum(c)
  <2>1. CASE vacuum = None /\ Readable(p)
    <3>1. ClientSound(c)'
      BY <1>8, <2>1, <1>0, SoundGrows DEF Vacuum, ClientSound
    <3> QED
      BY <1>8, <2>1, <1>5, <3>1 DEF Vacuum
  <2>2. CASE ~(vacuum = None /\ Readable(p))
    BY <1>8, <2>2, <1>4 DEF Vacuum, Broken
  <2> QED
    BY <2>1, <2>2
<1>9. CASE Strip(c)
  <2>1. CASE vacuum = None
    BY <1>9, <2>1, <1>4 DEF Strip, Broken
  <2>2. CASE vacuum # None
    <3>1. ClientSound(c)'
      BY <1>9, <2>2, <1>0, SoundGrows DEF Strip, ClientSound
    <3> QED
      BY <1>9, <2>2, <1>5, <3>1 DEF Strip
  <2> QED
    BY <2>1, <2>2
<1>10. CASE ReadFile(c)
  <2>1. ClientSound(c)'
    BY <1>10, <1>0, SoundGrows DEF ReadFile, ClientSound
  <2> QED
    BY <1>10, <1>5, <2>1 DEF ReadFile
<1>11. CASE WriteZst(c) \/ WriteMeta(c)
  <2>1. ClientSound(c)'
    BY <1>11, <1>0, SoundGrows DEF WriteZst, WriteMeta, ClientSound
  <2> QED
    BY <1>11, <1>5, <2>1 DEF WriteZst, WriteMeta
<1> QED
  BY <1>6, <1>7, <1>8, <1>9, <1>10, <1>11 DEF Export

LEMMA ContentOther ==
    ASSUME TypeOK, ContentInv,
           \/ \E p \in Projects : Edit(p) \/ Delete(p)
           \/ \E c \in Clients, p \in Projects, b \in BOOLEAN,
                 start \in {"check", "wait"} : Call(c, p, b, start)
           \/ \E s \in Processes : Crash(s)
           \/ UNCHANGED vars
    PROVE  ContentInv'
<1> USE DEF TypeOK, FilesOK, ClientsOK
<1>1. ASSUME NEW p \in Projects, Delete(p) PROVE ContentInv'
  <2>1. SoundFiles(raced', db')
    <3>1. Sound(raced', p, None) /\ raced' = raced
      BY <1>1, SoundMark DEF Marks, Delete
    <3> QED
      BY <1>1, <3>1, SoundPut DEF Delete, ContentInv
  <2> QED
    BY <1>1, <2>1 DEF Delete, ContentInv, ClientSound
<1>2. ASSUME NEW c \in Clients, NEW p \in Projects, NEW b \in BOOLEAN,
             NEW start \in {"check", "wait"}, Call(c, p, b, start)
      PROVE  ContentInv'
  <2>1. \A d \in Clients \ {c} : ClientSound(d)'
    BY <1>2, OthersSound DEF Call
  <2>2. ClientSound(c)'
    <3>1. got'[c] = None /\ pc'[c] = start /\ on'[c] = p
      BY <1>2 DEF Call, ContentInv, ClientSound
    <3> QED
      BY <3>1, SoundMark DEF ClientSound, Marks
  <2> QED
    BY <1>2, <2>1, <2>2 DEF Call, ContentInv
<1>3. ASSUME NEW s \in Processes, Crash(s) PROVE ContentInv'
  <2> SUFFICES ASSUME NEW c \in Clients PROVE ClientSound(c)'
    BY <1>3 DEF Crash, ContentInv
  <2>1. CASE got'[c] = None /\ pc'[c] = "idle" /\ on'[c] = on[c]
    BY <2>1, SoundMark DEF ClientSound, Marks
  <2>2. CASE got'[c] = got[c] /\ pc'[c] = pc[c] /\ on'[c] = on[c]
    BY <1>3, <2>2, OthersSound DEF Crash
  <2> QED
    BY <1>3, <2>1, <2>2 DEF Crash
<1>4. CASE (\E p \in Projects : Edit(p)) \/ UNCHANGED vars
  BY <1>4 DEF Edit, vars, ContentInv, ClientSound
<1> QED
  BY <1>1, <1>2, <1>3, <1>4

\* A full run that is alone with a project deletes what a race has left.
LEMMA ContentCleared ==
    ASSUME TypeOK, ContentInv, NEW c \in Clients, Clears(c)
    PROVE  ContentInv'
<1> DEFINE p == on[c]
<1> USE DEF TypeOK, FilesOK, ClientsOK, Clears
<1>1. /\ p \in Projects /\ raced' = raced \ {p}
      /\ db' = [db EXCEPT ![p] = None]
      /\ UNCHANGED <<zst, import, vacuum, on, got>>
      /\ pc' = [pc EXCEPT ![c] = "parse"]
  BY DEF Route
<1>2. \A q \in Projects \ {p} : \A x : Sound(raced, q, x) => Sound(raced', q, x)
  BY <1>1 DEF Sound
<1>3. \A x \in {None, zst[p], import[p], got[c]} : Sound(raced', p, x)
  <2>1. Sound(raced', p, None)
    BY SoundMark DEF Marks
  <2> QED
    BY <2>1 DEF Cured, Sound
<1>4. /\ SoundFiles(raced, db)' /\ SoundFiles(raced, zst)'
      /\ SoundFiles(raced, import)'
  BY <1>1, <1>2, <1>3 DEF ContentInv, SoundFiles
<1>5. ASSUME NEW d \in Clients PROVE ClientSound(d)'
  <2>1. CASE d = c
    BY <1>1, <1>3, <2>1 DEF ClientSound
  <2>2. CASE d # c /\ on[d] = p
    <3>1. pc[d] = "idle" /\ got[d] = None
      BY <2>2 DEF Cured, Busy, ContentInv, ClientSound
    <3> QED
      BY <1>1, <1>3, <2>2, <3>1 DEF ClientSound
  <2>3. CASE on[d] # p
    BY <1>1, <1>2, <2>3 DEF ContentInv, ClientSound
  <2> QED
    BY <2>1, <2>2, <2>3
<1> QED
  BY <1>4, <1>5 DEF ContentInv

LEMMA ContentStep ==
    ASSUME SameProcess, TypeOK, ContentInv, DumpInv, [Next]_vars
    PROVE  ContentInv'
BY RacedSteps, ContentImport, ContentRun, ContentExport, ContentOther,
   ContentCleared DEF Next

----------------------------------------------------------------------------
(* What a dump has written.                                                *)

\* A client is not disturbed by a step that leaves it alone, the checkout it
\* indexes and, while it dumps, the database.
LEMMA DumpKept ==
    ASSUME DumpInv, raced \subseteq raced', NEW c \in Clients,
           UNCHANGED <<on[c], got[c], pc[c], mine[c], head[on[c]]>>,
           pc[c] = "stamp" /\ on[c] \notin raced' => db'[on[c]] = db[on[c]]
    PROVE  ClientDumps(c)'
BY DEF DumpInv, ClientDumps

LEMMA DumpCleared ==
    ASSUME TypeOK, DumpInv, NEW c \in Clients, Clears(c)
    PROVE  DumpInv'
<1> USE DEF TypeOK, FilesOK, ClientsOK, Clears
<1> SUFFICES ASSUME NEW d \in Clients PROVE ClientDumps(d)'
  BY DEF DumpInv
<1>1. CASE on[d] = on[c]
  BY <1>1 DEF Route, Cured, Busy, ClientDumps
<1>2. CASE on[d] # on[c]
  BY <1>2 DEF Route, DumpInv, ClientDumps
<1> QED
  BY <1>1, <1>2

LEMMA DumpStep ==
    ASSUME SameProcess, TypeOK, DumpInv, [Next]_vars, raced \subseteq raced'
    PROVE  DumpInv'
<1> USE DEF TypeOK, FilesOK, ClientsOK
<1>0. raced \subseteq raced'
  OBVIOUS
<1>1. ASSUME NEW c \in Clients, Import(c) PROVE DumpInv'
  <2>1. ClientDumps(c)'
    <3>1. pc'[c] \notin {"dump", "dumping", "stamp"}
      BY <1>1 DEF Import, Check, ReadMeta, Unpack, WriteImport, OpenImport,
         Install
    <3> QED
      BY <3>1 DEF ClientDumps
  <2>2. ASSUME NEW d \in Clients, d # c PROVE ClientDumps(d)'
    <3>1. CASE ~Install(c)
      BY <1>0, <1>1, <2>2, <3>1, DumpKept
         DEF Import, Check, ReadMeta, Unpack, WriteImport, OpenImport
    <3>2. CASE Install(c) /\ on[d] = on[c]
      <4>1. pc[d] \in {"dumping", "stamp"} =>
                on[d] \in raced' \/ UNCHANGED <<db, mine>>
        BY <3>2 DEF Install, Writing
      <4> QED
        BY <3>2, <2>2, <4>1 DEF Install, DumpInv, ClientDumps
    <3>3. CASE Install(c) /\ on[d] # on[c]
      BY <1>0, <2>2, <3>3, DumpKept DEF Install
    <3> QED
      BY <1>1, <3>1, <3>2, <3>3
  <2> QED
    BY <2>1, <2>2 DEF DumpInv
<1>2. ASSUME NEW c \in Clients, Run(c) \/ Export(c) PROVE DumpInv'
  <2>1. ASSUME NEW d \in Clients, d # c PROVE ClientDumps(d)'
    <3>1. pc[c] \notin Holding => UNCHANGED db
      BY <1>2 DEF Run, Acquire, UpToDate, Route, Cancel, Parse, DumpOpen,
         DumpClose, Stamp, Return, Export, Clear, Vacuum, Strip, ReadFile,
         WriteZst, WriteMeta, ZstFails, MetaFails, Broken, Holding
    <3>2. pc[d] = "stamp" => UNCHANGED db
      BY <2>1, <3>1, OneHolder DEF Holding
    <3>3. UNCHANGED <<on, head>> /\ UNCHANGED <<got[d], pc[d], mine[d]>>
      BY <1>2, <2>1 DEF Run, Acquire, UpToDate, Succeed, Route, Cancel, Fail,
         Parse, DumpOpen, DumpClose, Stamp, Return, Export, Clear, Vacuum,
         Strip, ReadFile, WriteZst, WriteMeta, ZstFails, MetaFails, EndExport,
         Broken, Leave
    <3> QED
      BY <1>0, <3>2, <3>3, DumpKept
  <2>2. ClientDumps(c)'
    <3>1. CASE Parse(c)
      BY <3>1 DEF Parse, ClientDumps
    <3>2. CASE DumpOpen(c)
      BY <3>2 DEF DumpOpen, DumpInv, ClientDumps
    <3>3. CASE DumpClose(c)
      BY <3>3 DEF DumpClose, DumpInv, ClientDumps
    <3>4. CASE ~Parse(c) /\ ~DumpOpen(c) /\ ~DumpClose(c)
      <4>1. pc'[c] \notin {"dump", "dumping", "stamp"}
        BY <1>2, <3>4 DEF Run, Acquire, UpToDate, Succeed, Route, Cancel,
           Fail, Stamp, Return, Export, Clear, Vacuum, Strip, ReadFile,
           WriteZst, WriteMeta, ZstFails, MetaFails, EndExport, Broken, Leave
      <4> QED
        BY <4>1 DEF ClientDumps
    <3> QED
      BY <3>1, <3>2, <3>3, <3>4
  <2> QED
    BY <2>1, <2>2 DEF DumpInv
<1>3. ASSUME NEW p \in Projects, Edit(p) PROVE DumpInv'
  <2> SUFFICES ASSUME NEW c \in Clients PROVE ClientDumps(c)'
    BY DEF DumpInv
  <2>1. pc[c] # "idle" => on[c] # p
    BY <1>3 DEF Edit, Busy
  <2> QED
    BY <1>3, <2>1 DEF Edit, DumpInv, ClientDumps
<1>4. ASSUME NEW p \in Projects, Delete(p) PROVE DumpInv'
  <2>1. \A c \in Clients : pc[c] \notin Holding
    BY <1>4, HolderKeepsOut DEF Delete
  <2> QED
    BY <1>4, <2>1 DEF Delete, DumpInv, ClientDumps, Holding
<1>5. ASSUME NEW c \in Clients, NEW p \in Projects, NEW b \in BOOLEAN,
             NEW start \in {"check", "wait"}, Call(c, p, b, start)
      PROVE  DumpInv'
  BY <1>5 DEF Call, DumpInv, ClientDumps
<1>6. ASSUME NEW s \in Processes, Crash(s) PROVE DumpInv'
  BY <1>6 DEF Crash, DumpInv, ClientDumps
<1>7. CASE UNCHANGED vars
  BY <1>7 DEF vars, DumpInv, ClientDumps
<1> QED
  BY <1>1, <1>2, <1>3, <1>4, <1>5, <1>6, <1>7 DEF Next

----------------------------------------------------------------------------
(* What an answer promises.                                                *)

\* The version a project is known by is in its database.
Kept(p) ==
    Busy(p) = {} /\ done[p] # 0 =>
        /\ Readable(p)
        /\ db[p].of = p /\ db[p].graph = done[p] /\ db[p].rows = done[p]

LEMMA FreshIsKept ==
    ASSUME TypeOK, NEW p \in Projects, Fresh(p)
    PROVE  /\ Readable(p)
           /\ db[p].of = p /\ db[p].graph = head[p] /\ db[p].rows = head[p]
<1>1. head[p] \in Graphs
  BY Numbers DEF TypeOK, FilesOK
<1> QED
  BY <1>1, Sorts DEF Fresh, Readable, Marks, Database

\* A client that stays with its project keeps it busy.
LEMMA StaysBusy ==
    ASSUME NEW p \in Projects, NEW d \in Clients, on'[d] = p, pc'[d] # "idle"
    PROVE  Kept(p)'
BY DEF Kept, Busy

\* A step that leaves a project alone, or has its database deleted.
LEMMA KeptApart ==
    ASSUME NEW p \in Projects, Kept(p), UNCHANGED db[p],
           done'[p] = 0 \/ (done'[p] = done[p] /\ Busy(p)' = Busy(p))
    PROVE  Kept(p)'
BY DEF Kept, Readable

\* A call that answers.
LEMMA KeptByAnswer ==
    ASSUME TypeOK, AnswerInv, NEW c \in Clients, pc[c] \in Exporting,
           on[c] \notin raced, UNCHANGED db, NEW version \in {0, head[on[c]]},
           Leave(c, version)
    PROVE  Kept(on[c])'
<1> USE DEF TypeOK, ClientsOK, HistoryOK
<1>1. done'[on[c]] = version /\ UNCHANGED on
  BY DEF Leave
<1>2. CASE Fresh(on[c])
  BY <1>1, <1>2, FreshIsKept DEF Kept, Readable
<1>3. CASE Waiting(on[c])
  <2>1. PICK d \in Clients : on[d] = on[c] /\ pc[d] = "wait"
    BY <1>3 DEF Waiting
  <2>2. pc'[d] = "wait"
    BY <2>1 DEF Leave, Exporting
  <2> QED
    BY <1>1, <2>1, <2>2, StaysBusy
<1> QED
  BY <1>2, <1>3 DEF AnswerInv

LEMMA KeptStep ==
    ASSUME TypeOK, ContentInv, AnswerInv, [Next]_vars,
           NEW p \in Projects, p \notin raced
    PROVE  Kept(p)'
<1> USE DEF TypeOK, FilesOK, ClientsOK, HistoryOK
<1>0. p \notin raced /\ Kept(p)
  BY DEF AnswerInv, AnswersHold, Kept
<1>1. ASSUME NEW c \in Clients, Import(c) PROVE Kept(p)'
  <2>1. CASE on[c] = p
    <3>1. on'[c] = p /\ pc'[c] # "idle"
      BY <1>1, <2>1 DEF Import, Check, ReadMeta, Unpack, WriteImport,
         OpenImport, Install
    <3> QED
      BY <3>1, StaysBusy
  <2>2. CASE on[c] # p
    <3>1. Busy(p)' = Busy(p) /\ UNCHANGED <<db[p], done[p]>>
      BY <1>1, <2>2 DEF Import, Check, ReadMeta, Unpack, WriteImport,
         OpenImport, Install, Busy
    <3> QED
      BY <1>0, <3>1, KeptApart
  <2> QED
    BY <2>1, <2>2
<1>2. ASSUME NEW c \in Clients, Run(c) \/ Export(c), on[c] # p
      PROVE  Kept(p)'
  <2>1. UNCHANGED <<db[p], done[p], on>>
    BY <1>2 DEF Run, Acquire, UpToDate, Succeed, Route, Cancel, Fail, Parse,
       DumpOpen, DumpClose, Stamp, Return, Export, Clear, Vacuum, Strip,
       ReadFile, WriteZst, WriteMeta, ZstFails, MetaFails, EndExport, Broken,
       Leave
  <2>2. \A d \in Clients \ {c} : pc'[d] = pc[d]
    BY <1>2 DEF Run, Acquire, UpToDate, Succeed, Route, Cancel, Fail, Parse,
       DumpOpen, DumpClose, Stamp, Return, Export, Clear, Vacuum, Strip,
       ReadFile, WriteZst, WriteMeta, ZstFails, MetaFails, EndExport, Broken,
       Leave
  <2>3. Busy(p)' = Busy(p)
    BY <1>2, <2>1, <2>2 DEF Busy
  <2> QED
    BY <1>0, <2>1, <2>3, KeptApart
<1>3. ASSUME NEW c \in Clients, Run(c) \/ Export(c), on[c] = p
      PROVE  Kept(p)'
  <2>1. CASE pc'[c] # "idle"
    <3>1. UNCHANGED on
      BY <1>3 DEF Run, Acquire, UpToDate, Succeed, Route, Cancel, Fail, Parse,
         DumpOpen, DumpClose, Stamp, Return, Export, Clear, Vacuum, Strip,
         ReadFile, WriteZst, WriteMeta, ZstFails, MetaFails, EndExport,
         Broken, Leave
    <3> QED
      BY <1>3, <2>1, <3>1, StaysBusy
  <2>2. CASE UpToDate(c)
    <3>1. /\ db[p] \in Databases /\ db[p].rows = head[p] /\ Readable(p)
          /\ head[p] \in Versions
      BY <1>3, <2>2 DEF UpToDate, HasRows, Readable, Contents, Marks
    <3>2. db[p].of = p /\ db[p].graph = head[p]
      BY <1>0, <3>1 DEF ContentInv, SoundFiles, Sound, TellsTruth
    <3>3. done'[p] = head[p] /\ UNCHANGED db
      BY <1>3, <2>2 DEF UpToDate, Succeed, Leave
    <3> QED
      BY <3>1, <3>2, <3>3 DEF Kept, Readable
  <2>3. CASE Return(c) \/ ZstFails(c) \/ MetaFails(c)
    <3>1. PICK version \in {0, head[p]} : Leave(c, version)
      BY <1>3, <2>3 DEF Return, ZstFails, MetaFails, EndExport, Succeed
    <3>2. pc[c] \in Exporting /\ UNCHANGED db
      BY <2>3 DEF Return, ZstFails, MetaFails, Exporting
    <3>3. UNCHANGED on
      BY <3>1 DEF Leave
    <3> QED
      BY <1>0, <1>3, <3>1, <3>2, <3>3, KeptByAnswer
  <2>4. CASE Cancel(c) \/ ((Vacuum(c) \/ Strip(c)) /\ Broken(c))
    <3>1. done'[p] = 0
      BY <1>3, <2>4 DEF Cancel, Fail, Broken, Leave
    <3> QED
      BY <3>1 DEF Kept
  <2> QED
    BY <1>3, <2>1, <2>2, <2>3, <2>4
       DEF Run, Acquire, Route, Parse, DumpOpen, DumpClose, Stamp, Export,
           Clear, Vacuum, Strip, ReadFile, WriteZst, WriteMeta
<1>4. ASSUME NEW q \in Projects, Edit(q) \/ Delete(q) PROVE Kept(p)'
  <2>1. Busy(p)' = Busy(p)
    BY <1>4 DEF Edit, Delete, Busy
  <2>2. CASE Edit(q) \/ q # p
    BY <1>0, <1>4, <2>1, <2>2, KeptApart DEF Edit, Delete
  <2>3. CASE Delete(q) /\ q = p
    BY <2>3 DEF Delete, Kept
  <2> QED
    BY <1>4, <2>2, <2>3
<1>5. ASSUME NEW c \in Clients, NEW q \in Projects, NEW b \in BOOLEAN,
             NEW start \in {"check", "wait"}, Call(c, q, b, start)
      PROVE  Kept(p)'
  <2>1. CASE q = p
    BY <1>5, <2>1, StaysBusy DEF Call
  <2>2. CASE q # p
    <3>1. Busy(p)' = Busy(p)
      BY <1>5, <2>2 DEF Call, Busy
    <3> QED
      BY <1>0, <1>5, <3>1, KeptApart DEF Call
  <2> QED
    BY <2>1, <2>2
<1>6. ASSUME NEW s \in Processes, Crash(s) PROVE Kept(p)'
  <2>1. UNCHANGED db
    BY <1>6 DEF Crash
  <2>2. CASE \E c \in Clients : Process[c] = s /\ pc[c] # "idle" /\ on[c] = p
    <3>1. done'[p] = 0
      BY <1>6, <2>2 DEF Crash
    <3> QED
      BY <3>1 DEF Kept
  <2>3. CASE ~\E c \in Clients :
                Process[c] = s /\ pc[c] # "idle" /\ on[c] = p
    <3>1. Busy(p)' = Busy(p) /\ done'[p] = done[p]
      BY <1>6, <2>3 DEF Crash, Busy
    <3> QED
      BY <1>0, <2>1, <3>1, KeptApart
  <2> QED
    BY <2>2, <2>3
<1>7. CASE UNCHANGED vars
  BY <1>0, <1>7, KeptApart DEF vars, Busy
<1> QED
  BY <1>1, <1>2, <1>3, <1>4, <1>5, <1>6, <1>7 DEF Next

\* A client that moves leaves the others where they are, and every checkout.
LEMMA OneMoves ==
    ASSUME ClientsOK, NEW c \in Clients, Import(c) \/ Run(c) \/ Export(c)
    PROVE  /\ UNCHANGED <<on, head>>
           /\ \A d \in Clients \ {c} : pc'[d] = pc[d]
<1>1. CASE Import(c)
  BY <1>1 DEF ClientsOK, Import, Check, ReadMeta, Unpack, WriteImport,
     OpenImport, Install
<1>2. CASE Run(c)
  BY <1>2 DEF ClientsOK, Run, Acquire, UpToDate, Succeed, Route, Cancel, Fail,
     Parse, DumpOpen, DumpClose, Stamp, Return, Leave
<1>3. CASE Export(c)
  BY <1>3 DEF ClientsOK, Export, Clear, Vacuum, Strip, ReadFile, WriteZst,
     WriteMeta, ZstFails, MetaFails, EndExport, Succeed, Broken, Leave
<1> QED
  BY <1>1, <1>2, <1>3

\* The database of a run stays fresh, or a call that replaces it waits.
LEMMA ExportingStep ==
    ASSUME SameProcess, TypeOK, DumpInv, AnswerInv, [Next]_vars,
           NEW c \in Clients, pc'[c] \in Exporting, on'[c] \notin raced'
    PROVE  (Fresh(on[c]) \/ Waiting(on[c]))' /\ on'[c] = on[c]
<1> USE DEF TypeOK, FilesOK, ClientsOK
<1> DEFINE p == on[c]
<1>1. on'[c] = p
  <2>1. ASSUME NEW d \in Clients, NEW q \in Projects, NEW b \in BOOLEAN,
               NEW start \in {"check", "wait"}, Call(d, q, b, start)
        PROVE  on'[c] = p
    BY <2>1 DEF Call, Exporting
  <2> QED
    BY <2>1, OneMoves DEF Next, vars, Edit, Delete, Crash
<1>2. p \in Projects /\ p \notin raced
  <2>1. ASSUME NEW d \in Clients, Clears(d) PROVE FALSE
    <3>1. c # d /\ pc[c] \in Holding /\ pc[d] \in Holding
      BY <2>1 DEF Clears, Route, Exporting, Holding
    <3> QED
      BY <3>1, OneHolder
  <2> QED
    BY <1>1, <2>1, RacedSteps
<1>3. CASE Stamp(c)
  <2>1. db[p] = Database(p, head[p], NoRows) /\ head[p] \in Graphs
    BY <1>2, <1>3, Numbers DEF Stamp, DumpInv, ClientDumps
  <2>2. db[p] \notin Marks
    BY <2>1, <1>2, Sorts, Numbers
  <2>3. [db[p] EXCEPT !.rows = head[p]] = Database(p, head[p], head[p])
    BY <2>1 DEF Database
  <2>4. db'[p] = Database(p, head[p], head[p]) /\ UNCHANGED <<head, on>>
    BY <1>2, <1>3, <2>2, <2>3 DEF Stamp, Marks
  <2> QED
    BY <1>1, <2>4 DEF Fresh
<1>4. CASE ~Stamp(c)
  <2>1. pc[c] \in Exporting
    <3>1. ASSUME NEW d \in Clients, Import(d) \/ Run(d) \/ Export(d)
          PROVE  pc[c] \in Exporting
      <4>1. CASE d # c
        BY <3>1, <4>1, OneMoves
      <4>2. CASE d = c /\ Import(c)
        BY <4>2 DEF Import, Check, ReadMeta, Unpack, WriteImport, OpenImport,
           Install, Exporting
      <4>3. CASE d = c /\ Run(c)
        BY <1>4, <4>3 DEF Run, Acquire, UpToDate, Succeed, Route, Cancel,
           Fail, Parse, DumpOpen, DumpClose, Return, Leave, Exporting
      <4>4. CASE d = c /\ Export(c)
        BY <4>4 DEF Export, Clear, Vacuum, Strip, ReadFile, WriteZst,
           WriteMeta, ZstFails, MetaFails, Exporting
      <4> QED
        BY <3>1, <4>1, <4>2, <4>3, <4>4
    <3>2. ASSUME NEW d \in Clients, NEW q \in Projects, NEW b \in BOOLEAN,
                 NEW start \in {"check", "wait"}, Call(d, q, b, start)
          PROVE  pc[c] \in Exporting
      BY <3>2 DEF Call, Exporting
    <3>3. ASSUME NEW s \in Processes, Crash(s)
          PROVE  pc[c] \in Exporting
      BY <3>3 DEF Crash, Exporting
    <3> QED
      BY <3>1, <3>2, <3>3 DEF Next, vars, Edit, Delete
  <2>2. pc[c] \in Holding
    BY <2>1 DEF Exporting, Holding
  <2>3. Fresh(p) \/ Waiting(p)
    BY <1>2, <2>1 DEF AnswerInv
  <2>4. \A d \in Clients \ {c} : pc[d] \notin Holding /\ ~Acquire(d)
    BY <2>2, OneHolder, HolderKeepsOut DEF Acquire, Processes
  <2>5. \A q \in Projects : ~Delete(q)
    BY <2>2, HolderKeepsOut DEF Delete
  <2>6. \A s \in Processes : ~Crash(s)
    <3> SUFFICES ASSUME NEW s \in Processes, Crash(s) PROVE FALSE
      OBVIOUS
    <3>1. Process[c] = s
      BY DEF SameProcess, Processes
    <3> QED
      BY <2>1, <3>1 DEF Crash, Exporting
  <2>7. UNCHANGED head[p]
    <3>1. ~Edit(p)
      BY <2>1 DEF Edit, Busy, Exporting
    <3>2. ASSUME NEW q \in Projects, Edit(q) PROVE UNCHANGED head[p]
      BY <1>2, <3>1, <3>2 DEF Edit
    <3>3. ASSUME NEW d \in Clients, Import(d) \/ Run(d) \/ Export(d)
          PROVE  UNCHANGED head
      BY <3>3, OneMoves
    <3>4. ASSUME NEW d \in Clients, NEW q \in Projects, NEW b \in BOOLEAN,
                 NEW start \in {"check", "wait"}, Call(d, q, b, start)
          PROVE  UNCHANGED head
      BY <3>4 DEF Call
    <3> QED
      BY <1>1, <2>5, <2>6, <3>2, <3>3, <3>4 DEF Next, vars
  <2>8. Waiting(p) => Waiting(p)'
    <3> SUFFICES ASSUME NEW d \in Clients, on[d] = p, pc[d] = "wait"
                 PROVE  on'[d] = p /\ pc'[d] = "wait"
      BY <1>1 DEF Waiting
    <3>1. d # c
      BY <2>1 DEF Exporting
    <3>2. ASSUME Import(d) \/ Run(d) \/ Export(d) PROVE FALSE
      BY <2>4, <3>1, <3>2 DEF Import, Check, ReadMeta, Unpack, WriteImport,
         OpenImport, Install, Run, UpToDate, Route, Cancel, Parse, DumpOpen,
         DumpClose, Stamp, Return, Export, Clear, Vacuum, Strip, ReadFile,
         WriteZst, WriteMeta, ZstFails, MetaFails
    <3>3. ASSUME NEW e \in Clients, NEW q \in Projects, NEW b \in BOOLEAN,
                 NEW start \in {"check", "wait"}, Call(e, q, b, start)
          PROVE  on'[d] = p /\ pc'[d] = "wait"
      BY <3>3 DEF Call
    <3> QED
      BY <2>5, <2>6, <3>2, <3>3, OneMoves DEF Next, vars, Edit
  <2>9. UNCHANGED db[p] \/ Waiting(p)'
    <3>1. ASSUME NEW d \in Clients, Install(d)
          PROVE  UNCHANGED db[p] \/ Waiting(p)'
      BY <3>1, <1>2 DEF Install, Waiting
    <3>2. ASSUME NEW d \in Clients, Import(d) \/ Run(d) \/ Export(d),
                 ~Install(d)
          PROVE  UNCHANGED db
      <4>1. CASE d = c
        BY <3>2, <4>1, <1>4, <2>1 DEF Import, Check, ReadMeta, Unpack,
           WriteImport, OpenImport, Run, Acquire, UpToDate, Route, Cancel,
           Parse, DumpOpen, DumpClose, Return, Export, Clear, Vacuum, Strip,
           ReadFile, WriteZst, WriteMeta, ZstFails, MetaFails, Broken,
           Exporting
      <4>2. CASE d # c
        BY <3>2, <4>2, <2>4 DEF Import, Check, ReadMeta, Unpack,
           WriteImport, OpenImport, Run, UpToDate, Route, Cancel,
           Parse, DumpOpen, DumpClose, Stamp, Return, Export, Clear, Vacuum,
           Strip, ReadFile, WriteZst, WriteMeta, ZstFails, MetaFails, Holding
      <4> QED
        BY <4>1, <4>2
    <3>3. (\E d \in Clients : Import(d) \/ Run(d) \/ Export(d))
            => UNCHANGED db[p] \/ Waiting(p)'
      BY <1>1, <3>1, <3>2
    <3> QED
      BY <1>1, <2>5, <2>6, <3>3 DEF Next, vars, Edit, Call
  <2> QED
    BY <1>1, <2>3, <2>7, <2>8, <2>9 DEF Fresh
<1> QED
  BY <1>3, <1>4

LEMMA AnswerStep ==
    ASSUME SameProcess, TypeOK, ContentInv, DumpInv, AnswerInv, [Next]_vars
    PROVE  AnswerInv'
<1>1. \A c \in Clients :
         (pc[c] \in Exporting /\ on[c] \notin raced =>
             Fresh(on[c]) \/ Waiting(on[c]))'
  BY ExportingStep DEF Fresh, Waiting
<1>2. ASSUME NEW p \in Projects, p \notin raced' PROVE Kept(p)'
  <2>1. CASE p \notin raced
    BY <2>1, KeptStep
  <2>2. CASE p \in raced
    <3>1. PICK c \in Clients : Clears(c)
      BY <1>2, <2>2, RacedSteps
    <3>2. on'[c] = p /\ pc'[c] # "idle"
      BY <1>2, <2>2, <3>1 DEF Clears, Route, TypeOK, ClientsOK
    <3> QED
      BY <3>2, StaysBusy
  <2> QED
    BY <2>1, <2>2
<1>3. AnswersHold'
  BY <1>2 DEF AnswersHold, Kept
<1> QED
  BY <1>1, <1>3 DEF AnswerInv

----------------------------------------------------------------------------
(* The two files of an artifact.                                           *)

LEMMA PairStep ==
    ASSUME SameProcess, TypeOK, PairInv, [Next]_vars
    PROVE  PairInv'
<1> USE DEF TypeOK, FilesOK, ClientsOK
<1> DEFINE Matches(p) ==
      p \notin unpaired /\ (\A c \in Busy(p) : pc[c] # "meta") /\ Exists(p)
        => zst[p] = meta[p]
<1>0. \A p \in Projects : Matches(p)
  BY DEF PairInv, PairMatches
<1>1. ASSUME UNCHANGED <<zst, meta, unpaired, on>>,
             \A d \in Clients : pc[d] = "meta" <=> pc'[d] = "meta",
             \A d \in Clients : pc[d] = "meta" => got'[d] = got[d]
      PROVE  PairInv'
  <2>1. ASSUME NEW p \in Projects PROVE Matches(p)'
    BY <1>0, <1>1 DEF Busy, Exists
  <2> QED
    BY <1>1, <2>1 DEF PairInv, PairMatches
<1>2. ASSUME NEW c \in Clients, Import(c) PROVE PairInv'
  BY <1>1, <1>2 DEF Import, Check, ReadMeta, Unpack, WriteImport, OpenImport,
     Install
<1>3. ASSUME NEW c \in Clients, Run(c) PROVE PairInv'
  BY <1>1, <1>3 DEF Run, Acquire, UpToDate, Succeed, Route, Cancel, Fail,
     Parse, DumpOpen, DumpClose, Stamp, Return, Leave
<1>4. ASSUME NEW c \in Clients, Export(c) PROVE PairInv'
  <2>1. CASE Clear(c) \/ Vacuum(c) \/ Strip(c) \/ ReadFile(c) \/ ZstFails(c)
    BY <1>1, <2>1 DEF Clear, Vacuum, Strip, ReadFile, ZstFails, EndExport,
       Succeed, Broken, Leave
  <2>2. \A d \in Clients \ {c} : pc[d] # "meta"
    BY <1>4, OneHolder DEF Export, Clear, Vacuum, Strip, ReadFile, WriteZst,
       WriteMeta, ZstFails, MetaFails, Holding
  <2>3. CASE WriteZst(c)
    <3>1. pc'[c] = "meta" /\ zst'[on'[c]] = got'[c] /\ on' = on
      BY <2>3 DEF WriteZst
    <3>2. ASSUME NEW p \in Projects PROVE Matches(p)'
      BY <1>0, <2>2, <2>3, <3>1 DEF WriteZst, Busy, Exists
    <3>3. \A d \in Clients \ {c} : pc'[d] # "meta"
      BY <2>2, <2>3 DEF WriteZst
    <3> QED
      BY <3>1, <3>2, <3>3 DEF PairInv, PairMatches
  <2>4. CASE WriteMeta(c) \/ MetaFails(c)
    <3>1. \A d \in Clients : pc'[d] # "meta"
      BY <2>2, <2>4 DEF WriteMeta, MetaFails, EndExport, Succeed, Leave
    <3>2. zst[on[c]] = got[c]
      BY <2>4 DEF WriteMeta, MetaFails, PairInv
    <3>3. ASSUME NEW p \in Projects, p # on[c] PROVE Matches(p)'
      <4>1. UNCHANGED <<zst[p], meta[p]>>
              /\ (p \in unpaired' <=> p \in unpaired)
        BY <2>4, <3>3 DEF WriteMeta, MetaFails
      <4>2. \A d \in Busy(p) : pc[d] # "meta"
        BY <2>2, <3>3 DEF Busy
      <4> QED
        BY <1>0, <4>1, <4>2 DEF Exists
    <3>4. Matches(on[c])'
      BY <2>4, <3>2 DEF WriteMeta, MetaFails, Exists, EndExport, Succeed,
         Leave
    <3>5. UNCHANGED on
      BY <2>4 DEF WriteMeta, MetaFails, EndExport, Succeed, Leave
    <3>6. ASSUME NEW p \in Projects PROVE Matches(p)'
      BY <3>3, <3>4, <3>5
    <3> QED
      BY <3>1, <3>6 DEF PairInv, PairMatches
  <2> QED
    BY <1>4, <2>1, <2>3, <2>4 DEF Export
<1>5. ASSUME NEW s \in Processes, Crash(s) PROVE PairInv'
  <2>1. \A c \in Clients :
          pc'[c] = "meta" => pc[c] = "meta" /\ got'[c] = got[c]
    BY <1>5 DEF Crash
  <2>2. \A c \in Clients : Process[c] = s
    BY DEF SameProcess, Processes
  <2>3. ASSUME NEW p \in Projects PROVE Matches(p)'
    <3>1. (\E c \in Busy(p) : pc[c] = "meta") => p \in unpaired'
      BY <1>5, <2>2 DEF Crash, Busy
    <3>2. unpaired \subseteq unpaired' /\ UNCHANGED <<zst, meta>>
      BY <1>5 DEF Crash
    <3> QED
      BY <1>0, <3>1, <3>2 DEF Exists
  <2> QED
    BY <1>5, <2>1, <2>3 DEF Crash, PairInv, PairMatches
<1>6. CASE (\E p \in Projects : Edit(p) \/ Delete(p)) \/ UNCHANGED vars
  BY <1>1, <1>6 DEF Edit, Delete, vars
<1>7. ASSUME NEW c \in Clients, NEW q \in Projects, NEW b \in BOOLEAN,
             NEW start \in {"check", "wait"}, Call(c, q, b, start)
      PROVE  PairInv'
  <2>1. \A d \in Clients : pc[d] = "meta" <=> pc'[d] = "meta"
    BY <1>7 DEF Call
  <2>2. \A d \in Clients : pc[d] = "meta" => on'[d] = on[d]
    BY <1>7 DEF Call
  <2>3. ASSUME NEW p \in Projects PROVE Matches(p)'
    <3>1. (\A d \in Busy(p) : pc[d] # "meta")'
            => \A d \in Busy(p) : pc[d] # "meta"
      BY <2>1, <2>2 DEF Busy
    <3> QED
      BY <1>0, <1>7, <3>1 DEF Call, Exists
  <2> QED
    BY <1>7, <2>1, <2>2, <2>3 DEF Call, PairInv, PairMatches
<1> QED
  BY <1>2, <1>3, <1>4, <1>5, <1>6, <1>7 DEF Next

----------------------------------------------------------------------------
(* The theorems.                                                           *)

LEMMA InitHolds == Init => DumpInv /\ AnswerInv /\ PairInv
BY DEF Init, DumpInv, ClientDumps, AnswerInv, Exporting, AnswersHold, PairInv,
       PairMatches

LEMMA InvariantsHold ==
    ASSUME SameProcess
    PROVE  Spec => [](ContentInv /\ DumpInv /\ AnswerInv /\ PairInv)
<1> DEFINE All == ContentInv /\ DumpInv /\ AnswerInv /\ PairInv
<1>1. Init => All
  BY ContentInit, InitHolds
<1>2. TypeOK /\ All /\ [Next]_vars => All'
  BY RacedSteps, ContentStep, DumpStep, DumpCleared, AnswerStep, PairStep
<1> QED
  BY ArtifactTypeCorrect, <1>1, <1>2, PTL DEF Spec

\* However calls, imports, edits and crashes of one process are interleaved,
\* rows of this checkout stand for the version of the graph beside them, in
\* the database and in the artifact; all but a project where an import has
\* replaced the file of a dump and no full run has rebuilt it since.
THEOREM RowsAreTrue ==
    ASSUME SameProcess
    PROVE  Spec => []RowsTellTruth
<1>1. ContentInv => RowsTellTruth
  BY DEF ContentInv, SoundFiles, Sound, RowsTellTruth
<1> QED
  BY InvariantsHold, <1>1, PTL

\* What a call has answered is in the database when the last call is through:
\* an artifact that came in before the dump of a run, or after it, has not
\* stayed.  The exception is one that came in during a dump: its project is
\* left out until a full run has rebuilt the database.
THEOREM AnswersStay ==
    ASSUME SameProcess
    PROVE  Spec => []AnswersHold
<1>1. AnswerInv => AnswersHold
  BY DEF AnswerInv
<1> QED
  BY InvariantsHold, <1>1, PTL

\* The graph and the metadata of an artifact are of one export.
THEOREM PairStays ==
    ASSUME SameProcess
    PROVE  Spec => []PairMatches
<1>1. PairInv => PairMatches
  BY DEF PairInv
<1> QED
  BY InvariantsHold, <1>1, PTL
=============================================================================
