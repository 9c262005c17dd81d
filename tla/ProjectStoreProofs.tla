------------------------- MODULE ProjectStoreProofs -------------------------
(***************************************************************************)
(* Theorems about ProjectStore: type correctness; every tool call uses a   *)
(* file of the project it names, and not one its own server took away; and *)
(* the file a run wrote keeps the project's name until the run ends.       *)
(***************************************************************************)
EXTENDS ProjectStore, TLAPS

USE DEF files, server, history, vars, Goto, Reply, Phase, Intrude

----------------------------------------------------------------------------
(* The inductive invariant.                                                *)

\* The run and its lock go together, and what a run has follows from its
\* phase.
RunShape ==
    /\ lock = "free" <=> run.phase = "none"
    /\ run.phase # "none" => run.proj \in Projects
    /\ run.phase \in {"none", "route", "replace", "dump"} => run.file = None
    /\ run.phase \in {"blank", "writing"} => run.file # None
    /\ run.dumped => run.phase \in {"persist", "end"} /\ run.file # None

\* A project's name leads to a file of the project.
NamedFiles == \A p \in Projects : path[p] # None => file[path[p]].proj = p

\* The file of a run is the project's, and has its name unless somebody
\* without the lock took it away.
RunFile ==
    /\ run.file # None => file[run.file].proj = run.proj
    /\ run.file # None /\ ~intruded => path[run.proj] = run.file
    /\ run.dumped /\ ~intruded => file[run.file].state = "ok"

\* Only between open and check does current_project say something else than
\* the open connection; who is about to take a file away has closed it.
Connected(s) ==
    /\ pc[s] # "idle" => req[s].proj \in Projects
    /\ open[s] # None /\ pc[s] # "check" => file[open[s]].proj = current[s]
    /\ pc[s] = "check" => open[s] # None /\ file[open[s]].proj = req[s].proj
    /\ pc[s] \in UsingStore => open[s] # None /\ current[s] = req[s].proj
    /\ pc[s] \in {"want_index", "indexing", "quarantine"} => open[s] = None
    /\ pc[s] = "want_delete" => open[s] = None \/ current[s] # req[s].proj
    /\ pc[s] = "indexing" <=> lock = HolderOf(s)
    /\ ~retired[s]
Connections == \A s \in Servers : Connected(s)

StoreInv == TypeOK /\ RunShape /\ NamedFiles /\ RunFile /\ Connections
----------------------------------------------------------------------------
(* Type correctness.                                                       *)

LEMMA ServerNames ==
    /\ Main \in Servers /\ Ui \in Servers
    /\ \A s \in Servers : HolderOf(s) \in Holders \ {"watcher", "free"}
    /\ \A s, t \in Servers : HolderOf(s) = HolderOf(t) => s = t
BY ServersAssumption DEF Servers, Holders, HolderOf

\* The client's calls are calls of a tool.
LEMMA CallTypes ==
    \A c \in Calls : c[1] \in Servers /\ c[2] \in Tools /\ c[3] \in Projects
BY CallsAssumption DEF Servers, Tools

LEMMA CompleteType ==
    ASSUME NEW p \in Projects \cup {NoProject}
    PROVE  Complete(p) \in FileRecords
BY StoreBoundsAssumption DEF Complete, FileRecords, FileStates, Adrs, None

LEMMA IdleType == Idle \in Requests
BY DEF Idle, Tools, Requests

LEMMA RunTypes ==
    /\ NoRun \in RunRecords
    /\ \A p \in Projects : [NoRun EXCEPT !.proj = p, !.phase = "route"] \in RunRecords
<1>1. None \in Adrs /\ "none" \in Phases /\ "route" \in Phases
  BY StoreBoundsAssumption DEF Adrs, None, Phases
<1> QED
  BY <1>1 DEF NoRun, RunRecords

LEMMA NoFileType ==
    NoFile \in FileRecords
BY StoreBoundsAssumption DEF NoFile, FileRecords, FileStates, Adrs, None

\* Dropping the files nobody refers to keeps the type.
LEMMA KeptType ==
    ASSUME FileTypeOK, file' = Kept(file)
    PROVE  file' \in [Inodes -> FileRecords]
BY NoFileType DEF FileTypeOK, Kept

\* So do a new ADR, and another state, in a file.
LEMMA UpdateType ==
    ASSUME FileTypeOK, NEW i \in Inodes
    PROVE  /\ \A a \in Adrs :
                [file EXCEPT ![i].adr = a]
                    \in [Inodes -> FileRecords]
           /\ \A x \in FileStates :
                [file EXCEPT ![i].state = x]
                    \in [Inodes -> FileRecords]
BY DEF FileTypeOK, FileRecords

LEMMA AdrTypes == LegacyAdr \in Adrs /\ None \in Adrs /\ Texts \subseteq Adrs
BY StoreBoundsAssumption DEF LegacyAdr, None, Texts, Adrs

LEMMA GhostType ==
    ASSUME FileTypeOK,
           NEW p \in Projects \cup {NoProject}, NEW i \in Inodes, NEW a \in Adrs,
           NewGhost(p, i, a)
    PROVE  FileTypeOK'
<1> DEFINE ghost == [proj |-> p, state |-> "ghost", adr |-> a]
<1>1. ghost \in FileRecords
  BY DEF FileRecords, FileStates
<1>2. file' = [file EXCEPT ![i] = ghost] /\ path' = [path EXCEPT ![p] = i]
  BY DEF NewGhost
<1> HIDE DEF ghost
<1> QED
  BY <1>1, <1>2 DEF FileTypeOK

LEMMA StoreInitType == Init => TypeOK
<1> SUFFICES ASSUME Init PROVE TypeOK
  OBVIOUS
<1>1. FileTypeOK
  <2>1. ASSUME NEW i \in Inodes
        PROVE  file[i] \in FileRecords
    <3>1. CASE \E p \in Projects : path[p] = i
      <4> DEFINE q == CHOOSE p \in Projects : path[p] = i
      <4>1. q \in Projects
        BY <3>1
      <4>2. file[i] = Complete(q)
        BY <3>1 DEF Init
      <4> QED
        BY <4>1, <4>2, CompleteType
    <3>2. CASE ~\E p \in Projects : path[p] = i
      BY <3>2, NoFileType DEF Init
    <3> QED
      BY <3>1, <3>2
  <2>2. file \in [Inodes -> FileRecords]
    BY <2>1 DEF Init
  <2> QED
    BY <2>2 DEF Init, FileTypeOK
<1>2. ServerTypeOK
  BY IdleType DEF Init, ServerTypeOK, PCs
<1>3. RunTypeOK
  BY RunTypes DEF Init, RunTypeOK
<1>4. HistoryTypeOK
  BY DEF Init, HistoryTypeOK
<1> QED
  BY <1>1, <1>2, <1>3, <1>4 DEF TypeOK

LEMMA FileStep ==
    ASSUME TypeOK, [Next]_vars
    PROVE  FileTypeOK'
<1> USE DEF TypeOK, FileTypeOK
<1>1. ASSUME NEW s \in Servers, Thread(s)
      PROVE  FileTypeOK'
  <2> USE <1>1 DEF ServerTypeOK
  <2>1. CASE Hit(s) \/ CheckOk(s) \/ Answer(s) \/ LookForAdr(s) \/ IndexBegins(s)
    BY <2>1 DEF Hit, CheckOk, Answer, LookForAdr, IndexBegins
  <2>2. CASE Miss(s) \/ CheckNoProject(s) \/ CheckFails(s)
    BY <2>2, KeptType DEF Miss, CheckNoProject, CheckFails
  <2>3. CASE Quarantine(s) \/ Delete(s)
    BY <2>3, KeptType DEF Quarantine, Delete, Unlink
  <2>4. CASE ImportAdr(s)
    <3>1. CASE Readable(open[s])
      <4>1. open[s] \in Inodes
        BY <3>1 DEF Readable
      <4>2. file' = [file EXCEPT ![open[s]].adr = LegacyAdr]
        BY <2>4, <3>1 DEF ImportAdr
      <4>3. UNCHANGED path
        BY <2>4 DEF ImportAdr
      <4> QED
        BY <4>1, <4>2, <4>3, UpdateType, AdrTypes DEF FileTypeOK
    <3>2. CASE ~Readable(open[s])
      BY <2>4, <3>2 DEF ImportAdr
    <3> QED
      BY <3>1, <3>2
  <2>5. CASE StoreAdr(s)
    <3>1. CASE Readable(open[s])
      <4>1. open[s] \in Inodes
        BY <3>1 DEF Readable
      <4>2. PICK a \in Texts : file' = [file EXCEPT ![open[s]].adr = a]
        BY <2>5, <3>1 DEF StoreAdr
      <4>3. UNCHANGED path
        BY <2>5 DEF StoreAdr
      <4> QED
        BY <4>1, <4>2, <4>3, UpdateType, AdrTypes DEF FileTypeOK
    <3>2. CASE ~Readable(open[s])
      BY <2>5, <3>2 DEF StoreAdr
    <3> QED
      BY <3>1, <3>2
  <2> QED
    BY <2>1, <2>2, <2>3, <2>4, <2>5 DEF Thread
<1>2. CASE Run
  <2>1. CASE RunStops \/ RunWithoutFile \/ RunIncremental \/ DumpFails
    BY <2>1 DEF RunStops, RunWithoutFile, RunIncremental, DumpFails
  <2>2. CASE RunFull \/ RunReplaces
    BY <2>2, KeptType DEF RunFull, RunReplaces, Unlink
  <2>3. CASE DumpOpens
    <3> DEFINE blank == [proj |-> run.proj, state |-> "blank", adr |-> None]
    <3>1. PICK i \in Inodes : /\ path' = [path EXCEPT ![run.proj] = i]
                              /\ file' = [file EXCEPT ![i] = blank]
      BY <2>3 DEF DumpOpens
    <3>2. blank \in FileRecords
      BY AdrTypes DEF FileRecords, FileStates, RunTypeOK, RunRecords
    <3> HIDE DEF blank
    <3> QED
      BY <3>1, <3>2
  <2>4. CASE DumpWrites
    <3>1. CASE run.file \in Inodes
      BY <2>4, <3>1, UpdateType DEF DumpWrites, FileStates
    <3>2. CASE run.file \notin Inodes
      BY <2>4, <3>2 DEF DumpWrites
    <3> QED
      BY <3>1, <3>2
  <2>5. CASE DumpEnds
    <3>1. Complete(run.proj) \in FileRecords
      BY CompleteType DEF RunTypeOK, RunRecords
    <3>2. file' = [file EXCEPT ![run.file] = Complete(run.proj)]
          /\ UNCHANGED path
      BY <2>5 DEF DumpEnds
    <3> QED
      BY <3>1, <3>2
  <2>6. CASE Persist
    <3>1. run.proj \in Projects \cup {NoProject} /\ run.adr \in Adrs
      BY DEF RunTypeOK, RunRecords
    <3>2. CASE path[run.proj] = None
      <4>1. PICK i \in Inodes : NewGhost(run.proj, i, run.adr)
        BY <2>6, <3>2 DEF Persist
      <4> QED
        BY <3>1, <4>1, GhostType
    <3>3. CASE path[run.proj] # None /\ Readable(path[run.proj]) /\ run.adr # None
      <4>1. CASE path[run.proj] \in Inodes
        BY <2>6, <3>1, <3>3, <4>1, UpdateType DEF Persist
      <4>2. CASE path[run.proj] \notin Inodes
        BY <2>6, <3>3, <4>2 DEF Persist
      <4> QED
        BY <4>1, <4>2
    <3>4. CASE path[run.proj] # None
               /\ ~(Readable(path[run.proj]) /\ run.adr # None)
      BY <2>6, <3>4 DEF Persist
    <3> QED
      BY <3>2, <3>3, <3>4
  <2>7. CASE RunEnds
    BY <2>7, KeptType DEF RunEnds
  <2> QED
    BY <1>2, <2>1, <2>2, <2>3, <2>4, <2>5, <2>6, <2>7 DEF Run
<1>3. CASE Client
  BY <1>3, KeptType DEF Client, Call
<1>4. CASE Http
  <2>1. ASSUME NEW p \in Browsed, HttpDelete(p)
        PROVE  FileTypeOK'
    BY <2>1, KeptType DEF HttpDelete, Unlink
  <2>2. ASSUME NEW p \in Browsed, NEW a \in Texts \cup {None}, HttpAdr(p, a)
        PROVE  FileTypeOK'
    <3>1. p \in Projects /\ a \in Adrs
      BY <2>2, CallsAssumption, AdrTypes
    <3>2. CASE \E i \in Inodes : NewGhost(p, i, a)
      BY <3>1, <3>2, GhostType
    <3>3. CASE Readable(path[p]) /\ file' = [file EXCEPT ![path[p]].adr = a]
               /\ UNCHANGED path
      <4>1. path[p] \in Inodes
        BY <3>1, <3>3 DEF Readable
      <4> QED
        BY <3>1, <3>3, <4>1, UpdateType
    <3> QED
      BY <2>2, <3>2, <3>3 DEF HttpAdr
  <2> QED
    BY <1>4, <2>1, <2>2 DEF Http
<1>5. CASE Evict \/ Crash
  BY <1>5, KeptType DEF Evict, Crash
<1>6. CASE (\E p \in Watched : WatcherBegins(p)) \/ UNCHANGED vars
  BY <1>6 DEF WatcherBegins
<1> QED
  BY <1>1, <1>2, <1>3, <1>4, <1>5, <1>6 DEF Next

LEMMA ServerStep ==
    ASSUME TypeOK, Connections, [Next]_vars
    PROVE  ServerTypeOK' /\ HistoryTypeOK'
<1> USE IdleType DEF TypeOK, ServerTypeOK, HistoryTypeOK, PCs
<1>1. ASSUME NEW s \in Servers, Thread(s)
      PROVE  ServerTypeOK' /\ HistoryTypeOK'
  <2> USE <1>1
  <2>1. CASE Hit(s) \/ Answer(s) \/ StoreAdr(s)
    BY <2>1 DEF Hit, Answer, StoreAdr
  <2>8. CASE CheckOk(s)
    <3>1. req[s].proj \in Projects
      BY <2>8 DEF CheckOk, Connections, Connected
    <3> QED
      BY <2>8, <3>1 DEF CheckOk
  <2>6. CASE LookForAdr(s)
    BY <2>6 DEF LookForAdr
  <2>7. CASE ImportAdr(s)
    BY <2>7 DEF ImportAdr
  <2>2. CASE Miss(s)
    BY <2>2 DEF Miss, FileTypeOK, Connections, Connected
  <2>3. CASE CheckNoProject(s) \/ CheckFails(s)
    BY <2>3 DEF CheckNoProject, CheckFails
  <2>4. CASE Quarantine(s) \/ Delete(s)
    BY <2>4 DEF Quarantine, Delete, Unlink
  <2>5. CASE IndexBegins(s)
    BY <2>5 DEF IndexBegins, Begin
  <2> QED
    BY <2>1, <2>2, <2>3, <2>4, <2>5, <2>6, <2>7, <2>8 DEF Thread
<1>2. CASE Run
  <2>1. CASE RunFull \/ RunReplaces
    BY <2>1 DEF RunFull, RunReplaces, Unlink
  <2>2. CASE RunEnds
    BY <2>2 DEF RunEnds, CloseCached
  <2> QED
    BY <1>2, <2>1, <2>2
       DEF Run, RunStops, RunWithoutFile, RunIncremental, DumpOpens,
           DumpWrites, DumpEnds, DumpFails, Persist
<1>3. CASE Client
  <2>1. PICK c \in Calls : Call(c[1], c[2], c[3])
    BY <1>3 DEF Client
  <2> QED
    <3>1. c[1] \in Servers /\ [tool |-> c[2], proj |-> c[3]] \in Requests
      BY CallTypes DEF Requests
    <3>2. req' \in [Servers -> Requests] /\ pc' \in [Servers -> PCs]
      BY <2>1, <3>1 DEF Call
    <3> QED
      BY <2>1, <3>1, <3>2 DEF Call, CloseCached
<1>4. CASE Http
  BY <1>4 DEF Http, HttpDelete, HttpAdr, Unlink
<1>5. CASE Evict \/ Crash
  <2>1. CASE Evict
    BY <2>1, ServerNames DEF Evict, CloseCached
  <2>2. CASE Crash
    BY <2>2 DEF Crash
  <2> QED
    BY <1>5, <2>1, <2>2
<1>6. CASE (\E p \in Watched : WatcherBegins(p)) \/ UNCHANGED vars
  BY <1>6 DEF WatcherBegins, Begin
<1> QED
  BY <1>1, <1>2, <1>3, <1>4, <1>5, <1>6 DEF Next

LEMMA RunStep ==
    ASSUME TypeOK, RunShape, Connections, [Next]_vars
    PROVE  RunTypeOK'
<1> USE RunTypes, AdrTypes DEF TypeOK, RunTypeOK, Phases, Holders
<1>1. ASSUME NEW s \in Servers, Thread(s)
      PROVE  RunTypeOK'
  <2>1. CASE IndexBegins(s)
    <3>1. req[s].proj \in Projects
      BY <2>1 DEF IndexBegins, Connections, Connected
    <3> QED
      BY <2>1, <3>1, ServerNames DEF IndexBegins, Begin
  <2> QED
    BY <1>1, <2>1
       DEF Thread, Hit, Miss, CheckOk, CheckNoProject, CheckFails, Quarantine,
           Answer, LookForAdr, ImportAdr, StoreAdr, Delete
<1>2. CASE Run
  <2>1. CASE RunFull
    <3>1. (IF Readable(path[run.proj]) THEN file[path[run.proj]].adr ELSE None)
             \in Adrs
      BY <2>1 DEF RunFull, FileTypeOK, FileRecords, Readable, RunShape
    <3> QED
      BY <2>1, <3>1 DEF RunFull, RunRecords
  <2>2. CASE DumpOpens
    <3>1. PICK i \in Inodes : run' = [run EXCEPT !.phase = "blank", !.file = i]
      BY <2>2 DEF DumpOpens
    <3> QED
      BY <2>2, <3>1 DEF DumpOpens, RunRecords
  <2>3. CASE RunEnds
    BY <2>3 DEF RunEnds
  <2> QED
    BY <1>2, <2>1, <2>2, <2>3
       DEF Run, RunStops, RunWithoutFile, RunIncremental, RunReplaces,
           DumpWrites, DumpEnds, DumpFails, Persist, RunRecords
<1>3. CASE Client \/ Http
  BY <1>3 DEF Client, Call, Http, HttpDelete, HttpAdr
<1>4. CASE Evict \/ Crash
  BY <1>4 DEF Evict, Crash
<1>5. CASE (\E p \in Watched : WatcherBegins(p)) \/ UNCHANGED vars
  BY <1>5, SetsAssumption DEF WatcherBegins, Begin
<1> QED
  BY <1>1, <1>2, <1>3, <1>4, <1>5 DEF Next


----------------------------------------------------------------------------
(* The invariant is inductive.                                             *)

InUse == Referred(path, open, run)

\* A file that is referred to before and after a step keeps its project.
Steady == \A i \in Inodes :
             i \in InUse /\ i \in InUse' => file'[i].proj = file[i].proj

LEMMA KeptSteady ==
    ASSUME file' = Kept(file)
    PROVE  Steady
BY DEF Steady, Kept, InUse

LEMMA FieldSteady ==
    ASSUME FileTypeOK, NEW i \in Inodes, NEW x,
           \/ file' = [file EXCEPT ![i].adr = x]
           \/ file' = [file EXCEPT ![i].state = x]
    PROVE  Steady
BY DEF FileTypeOK, FileRecords, Steady

LEMMA AdrChange ==
    ASSUME FileTypeOK, NEW i, NEW x, file' = [file EXCEPT ![i].adr = x],
           NEW j \in Inodes
    PROVE  file'[j].state = file[j].state
BY DEF FileTypeOK, FileRecords

LEMMA NewSteady ==
    ASSUME FileTypeOK, NEW i \in NewFile, NEW r, file' = [file EXCEPT ![i] = r]
    PROVE  Steady
BY DEF FileTypeOK, Steady, NewFile, InUse

LEMMA SteadyStep ==
    ASSUME StoreInv, [Next]_vars
    PROVE  Steady
<1> USE DEF StoreInv, TypeOK
<1>0. ASSUME UNCHANGED file
      PROVE  Steady
  BY <1>0 DEF Steady
<1>1. ASSUME NEW s \in Servers, Thread(s)
      PROVE  Steady
  <2>1. CASE Hit(s) \/ CheckOk(s) \/ Answer(s) \/ LookForAdr(s) \/ IndexBegins(s)
    BY <2>1, <1>0 DEF Hit, CheckOk, Answer, LookForAdr, IndexBegins
  <2>2. CASE Miss(s) \/ CheckNoProject(s) \/ CheckFails(s) \/ Quarantine(s)
                \/ Delete(s)
    BY <2>2, KeptSteady DEF Miss, CheckNoProject, CheckFails, Quarantine, Delete
  <2>3. CASE ImportAdr(s) \/ StoreAdr(s)
    <3>1. CASE Readable(open[s])
      <4>1. open[s] \in Inodes
        BY <3>1 DEF Readable, ServerTypeOK
      <4> QED
        BY <2>3, <3>1, <4>1, FieldSteady DEF ImportAdr, StoreAdr
    <3>2. CASE ~Readable(open[s])
      BY <2>3, <3>2, <1>0 DEF ImportAdr, StoreAdr
    <3> QED
      BY <3>1, <3>2
  <2> QED
    BY <1>1, <2>1, <2>2, <2>3 DEF Thread
<1>2. CASE Run
  <2>1. CASE RunStops \/ RunWithoutFile \/ RunIncremental \/ DumpFails
    BY <2>1, <1>0 DEF RunStops, RunWithoutFile, RunIncremental, DumpFails
  <2>2. CASE RunFull \/ RunReplaces \/ RunEnds
    BY <2>2, KeptSteady DEF RunFull, RunReplaces, RunEnds
  <2>3. CASE DumpOpens
    <3>1. CASE path[run.proj] = None
      BY <2>3, <3>1, NewSteady DEF DumpOpens
    <3>2. CASE path[run.proj] # None
      <4>1. run.proj \in Projects
        BY <2>3 DEF DumpOpens, RunShape
      <4>2. file' = [file EXCEPT ![path[run.proj]] =
                       [proj |-> run.proj, state |-> "blank", adr |-> None]]
        BY <2>3, <3>2 DEF DumpOpens
      <4>3. file[path[run.proj]].proj = run.proj
        BY <3>2, <4>1 DEF NamedFiles
      <4> QED
        BY <4>2, <4>3 DEF Steady, FileTypeOK
    <3> QED
      BY <3>1, <3>2
  <2>4. CASE DumpWrites
    <3>1. run.file \in Inodes
      BY <2>4 DEF DumpWrites, RunShape, RunTypeOK, RunRecords
    <3> QED
      BY <2>4, <3>1, FieldSteady DEF DumpWrites
  <2>5. CASE DumpEnds
    <3>1. run.file # None /\ file[run.file].proj = run.proj
      BY <2>5 DEF DumpEnds, RunShape, RunFile
    <3>2. file' = [file EXCEPT ![run.file] = Complete(run.proj)]
      BY <2>5 DEF DumpEnds
    <3> QED
      BY <3>1, <3>2 DEF Steady, Complete, FileTypeOK
  <2>6. CASE Persist
    <3>1. CASE path[run.proj] = None
      BY <2>6, <3>1, NewSteady DEF Persist, NewGhost
    <3>2. CASE path[run.proj] # None
      <4>1. run.proj \in Projects
        BY <2>6 DEF Persist, RunShape
      <4>2. path[run.proj] \in Inodes
        BY <3>2, <4>1 DEF FileTypeOK
      <4> QED
        BY <2>6, <3>2, <4>2, <1>0, FieldSteady DEF Persist
    <3> QED
      BY <3>1, <3>2
  <2> QED
    BY <1>2, <2>1, <2>2, <2>3, <2>4, <2>5, <2>6 DEF Run
<1>3. CASE Client
  BY <1>3, KeptSteady DEF Client, Call
<1>4. ASSUME NEW p \in Browsed, HttpDelete(p)
      PROVE  Steady
  BY <1>4, KeptSteady DEF HttpDelete
<1>5. ASSUME NEW p \in Browsed, NEW a \in Texts \cup {None}, HttpAdr(p, a)
      PROVE  Steady
  <2>1. CASE \E i \in Inodes : NewGhost(p, i, a)
    BY <2>1, NewSteady DEF NewGhost
  <2>2. CASE Readable(path[p]) /\ file' = [file EXCEPT ![path[p]].adr = a]
    <3>1. path[p] \in Inodes
      BY <1>5, <2>2, CallsAssumption DEF Readable, FileTypeOK
    <3> QED
      BY <2>2, <3>1, FieldSteady
  <2> QED
    BY <1>5, <2>1, <2>2 DEF HttpAdr
<1>6. CASE Evict \/ Crash
  BY <1>6, KeptSteady DEF Evict, Crash
<1>7. CASE (\E p \in Watched : WatcherBegins(p)) \/ UNCHANGED vars
  BY <1>7, <1>0 DEF WatcherBegins
<1> QED
  BY <1>1, <1>2, <1>3, <1>4, <1>5, <1>6, <1>7 DEF Next, Http

LEMMA ShapeStep ==
    ASSUME StoreInv, [Next]_vars
    PROVE  RunShape'
<1> USE DEF StoreInv, RunShape
<1>1. ASSUME NEW s \in Servers, Thread(s)
      PROVE  RunShape'
  <2>1. CASE IndexBegins(s)
    BY <2>1, ServerNames DEF IndexBegins, Begin, NoRun, Connections, Connected, None
  <2> QED
    BY <1>1, <2>1
       DEF Thread, Hit, Miss, CheckOk, CheckNoProject, CheckFails, Quarantine,
           Answer, LookForAdr, ImportAdr, StoreAdr, Delete
<1>2. CASE Run
  <2> USE DEF TypeOK, RunTypeOK, RunRecords
  <2>1. CASE DumpOpens
    <3>1. PICK i \in Inodes : run' = [run EXCEPT !.phase = "blank", !.file = i]
      BY <2>1 DEF DumpOpens
    <3>2. i # None
      BY StoreBoundsAssumption DEF Inodes, None
    <3> QED
      BY <2>1, <3>1, <3>2 DEF DumpOpens
  <2>2. CASE RunEnds
    BY <2>2 DEF RunEnds, NoRun
  <2> QED
    BY <1>2, <2>1, <2>2
       DEF Run, RunStops, RunWithoutFile, RunFull, RunIncremental, RunReplaces,
           DumpWrites, DumpEnds, DumpFails, Persist
<1>3. CASE Client \/ Http
  BY <1>3 DEF Client, Call, Http, HttpDelete, HttpAdr
<1>4. CASE Evict \/ Crash
  BY <1>4 DEF Evict, Crash, NoRun
<1>5. CASE (\E p \in Watched : WatcherBegins(p)) \/ UNCHANGED vars
  BY <1>5, SetsAssumption DEF WatcherBegins, Begin, NoRun
<1> QED
  BY <1>1, <1>2, <1>3, <1>4, <1>5 DEF Next

\* What a name, a connection or the run has before and after a step keeps its
\* project.
LEMMA Keeps ==
    ASSUME StoreInv, [Next]_vars
    PROVE  /\ \A p \in Projects : path[p] # None /\ path'[p] = path[p] =>
                file'[path[p]].proj = file[path[p]].proj
           /\ \A s \in Servers : open[s] # None /\ open'[s] = open[s] =>
                file'[open[s]].proj = file[open[s]].proj
           /\ run.file # None /\ run'.file = run.file =>
                file'[run.file].proj = file[run.file].proj
           /\ \A s \in Servers, p \in Projects :
                path[p] # None /\ open'[s] = path[p] =>
                    file'[path[p]].proj = file[path[p]].proj
BY SteadyStep
   DEF Steady, InUse, Referred, StoreInv, TypeOK, FileTypeOK, ServerTypeOK,
       RunTypeOK, RunRecords

LEMMA NamedStep ==
    ASSUME StoreInv, [Next]_vars
    PROVE  NamedFiles'
<1> SUFFICES ASSUME NEW p \in Projects, path'[p] # None
             PROVE  file'[path'[p]].proj = p
  BY DEF NamedFiles
<1> USE DEF StoreInv, TypeOK
<1>1. CASE path'[p] = path[p]
  BY <1>1, Keeps DEF NamedFiles
<1>2. CASE path'[p] # path[p]
  <2>1. ASSUME NEW q \in Projects, NEW i \in Inodes, NEW a, NewGhost(q, i, a)
        PROVE  file'[path'[p]].proj = p
    BY <1>2, <2>1 DEF NewGhost, FileTypeOK
  <2>2. CASE DumpOpens
    BY <1>2, <2>2 DEF DumpOpens, FileTypeOK, RunShape
  <2>3. CASE Persist
    <3>1. run.proj \in Projects
      BY <2>3 DEF Persist, RunShape
    <3> QED
      BY <1>2, <2>1, <2>3, <3>1 DEF Persist
  <2>4. CASE Run /\ ~DumpOpens /\ ~Persist
    BY <1>2, <2>4
       DEF Run, RunStops, RunWithoutFile, RunFull, RunIncremental, RunReplaces,
           DumpWrites, DumpEnds, DumpFails, RunEnds, Unlink, FileTypeOK
  <2>5. ASSUME NEW q \in Browsed, HttpDelete(q)
        PROVE  file'[path'[p]].proj = p
    BY <1>2, <2>5 DEF HttpDelete, Unlink, FileTypeOK
  <2>6. ASSUME NEW q \in Browsed, NEW a \in Texts \cup {None}, HttpAdr(q, a)
        PROVE  file'[path'[p]].proj = p
    BY <1>2, <2>1, <2>6, CallsAssumption DEF HttpAdr
  <2>7. ASSUME NEW s \in Servers, Thread(s)
        PROVE  file'[path'[p]].proj = p
    BY <1>2, <2>7
       DEF Thread, Hit, Miss, CheckOk, CheckNoProject, CheckFails, Quarantine,
           Answer, LookForAdr, ImportAdr, StoreAdr, Delete, IndexBegins,
           Unlink, FileTypeOK
  <2>8. CASE Client \/ Evict \/ Crash \/ (\E q \in Watched : WatcherBegins(q))
             \/ UNCHANGED vars
    BY <1>2, <2>8 DEF Client, Call, Evict, Crash, WatcherBegins
  <2> QED
    BY <2>2, <2>3, <2>4, <2>5, <2>6, <2>7, <2>8 DEF Next, Http
<1> QED
  BY <1>1, <1>2

LEMMA RunFileStep ==
    ASSUME StoreInv, [Next]_vars
    PROVE  RunFile'
<1> USE DEF StoreInv, TypeOK, RunFile
<1>1. CASE run' = run /\ path' = path /\ intruded' = intruded
           /\ (run.file # None => file'[run.file].state = file[run.file].state)
  BY <1>1, Keeps DEF RunShape
<1>2. ASSUME NEW s \in Servers, Thread(s)
      PROVE  RunFile'
  <2>1. CASE Quarantine(s)
    <3>1. run' = run /\ (intruded \/ run.proj = req[s].proj => intruded')
      BY <2>1 DEF Quarantine
    <3>2. run.proj # req[s].proj => path'[run.proj] = path[run.proj]
      BY <2>1 DEF Quarantine, Unlink, FileTypeOK
    <3>3. run.file # None => run.file \in Inodes
      BY DEF RunTypeOK, RunRecords
    <3>4. run.file # None => file'[run.file] = file[run.file]
      BY <2>1, <3>1, <3>3 DEF Quarantine, Kept, Referred
    <3> QED
      BY <3>1, <3>2, <3>4 DEF RunShape, Quarantine
  <2>2. CASE Delete(s)
    BY <2>2 DEF Delete, RunShape
  <2>3. CASE IndexBegins(s)
    BY <2>3 DEF IndexBegins, Begin, NoRun
  <2>4. CASE ImportAdr(s) \/ StoreAdr(s)
    <3>1. run' = run /\ path' = path /\ intruded' = intruded
      BY <2>4 DEF ImportAdr, StoreAdr
    <3>2. \/ file' = file
          \/ \E x : file' = [file EXCEPT ![open[s]].adr = x]
      BY <2>4 DEF ImportAdr, StoreAdr
    <3>3. run.file # None => file'[run.file].state = file[run.file].state
      BY <3>2, AdrChange DEF RunTypeOK, RunRecords
    <3> QED
      BY <3>1, <3>3, <1>1
  <2>5. CASE Miss(s) \/ CheckNoProject(s) \/ CheckFails(s)
    <3>1. run' = run /\ path' = path /\ intruded' = intruded
      BY <2>5 DEF Miss, CheckNoProject, CheckFails
    <3>2. run.file # None => file'[run.file] = file[run.file]
      BY <2>5, <3>1 DEF Miss, CheckNoProject, CheckFails, Kept, Referred,
                        RunTypeOK, RunRecords
    <3> QED
      BY <3>1, <3>2, <1>1
  <2>6. CASE Hit(s) \/ CheckOk(s) \/ Answer(s) \/ LookForAdr(s)
    BY <2>6 DEF Hit, CheckOk, Answer, LookForAdr
  <2> QED
    BY <1>2, <2>1, <2>2, <2>3, <2>4, <2>5, <2>6 DEF Thread
<1>3. CASE Run
  <2>1. CASE RunStops \/ RunWithoutFile \/ RunIncremental \/ RunFull
             \/ RunReplaces
    BY <2>1 DEF RunStops, RunWithoutFile, RunIncremental, RunFull, RunReplaces,
                RunShape, RunTypeOK, RunRecords
  <2>2. CASE DumpOpens
    <3>1. PICK i \in Inodes :
             /\ path' = [path EXCEPT ![run.proj] = i]
             /\ file' = [file EXCEPT ![i] = [proj |-> run.proj,
                                             state |-> "blank", adr |-> None]]
             /\ run' = [run EXCEPT !.phase = "blank", !.file = i]
      BY <2>2 DEF DumpOpens
    <3>2. run.proj \in Projects /\ ~run.dumped
      BY <2>2 DEF DumpOpens, RunShape
    <3> QED
      BY <3>1, <3>2 DEF FileTypeOK, RunTypeOK, RunRecords
  <2>3. CASE DumpWrites
    <3>1. ~run.dumped /\ run' = [run EXCEPT !.phase = "writing"]
          /\ path' = path /\ intruded' = intruded
      BY <2>3 DEF DumpWrites, RunShape
    <3>2. run.file # None => file'[run.file].proj = file[run.file].proj
      BY <3>1, Keeps DEF RunTypeOK, RunRecords
    <3> QED
      BY <3>1, <3>2 DEF RunTypeOK, RunRecords
  <2>4. CASE DumpEnds
    <3>1. run.file \in Inodes
      BY <2>4 DEF DumpEnds, RunShape, RunTypeOK, RunRecords
    <3> QED
      BY <2>4, <3>1 DEF DumpEnds, Complete, FileTypeOK, RunTypeOK, RunRecords
  <2>5. CASE DumpFails
    BY <2>5 DEF DumpFails, RunShape, RunTypeOK, RunRecords
  <2>6. CASE Persist
    <3>1. /\ run' = [run EXCEPT !.phase = "end"] /\ intruded' = intruded
          /\ run.proj \in Projects
      BY <2>6 DEF Persist, RunShape
    <3>2. CASE path[run.proj] # None
      <4>1. path' = path
        BY <2>6, <3>2 DEF Persist
      <4>2. run.file # None => file'[run.file].state = file[run.file].state
        BY <2>6, <3>2 DEF Persist, FileTypeOK, FileRecords, RunTypeOK, RunRecords
      <4> QED
        BY <3>1, <4>1, <4>2, Keeps DEF RunShape, RunTypeOK, RunRecords
    <3>3. CASE path[run.proj] = None
      <4>1. run.file # None => intruded
        BY <3>3
      <4>2. run.file # None => file'[run.file].proj = file[run.file].proj
        BY <3>1, Keeps DEF RunTypeOK, RunRecords
      <4> QED
        BY <3>1, <4>1, <4>2 DEF RunShape, RunTypeOK, RunRecords
    <3> QED
      BY <3>2, <3>3
  <2>7. CASE RunEnds
    BY <2>7 DEF RunEnds, NoRun
  <2> QED
    BY <1>3, <2>1, <2>2, <2>3, <2>4, <2>5, <2>6, <2>7 DEF Run
<1>4. ASSUME run' = run, path' = path, intruded' = intruded, file' = Kept(file)
      PROVE  RunFile'
  <2>1. run.file # None => file'[run.file] = file[run.file]
    BY <1>4 DEF Kept, Referred, RunTypeOK, RunRecords
  <2> QED
    BY <1>1, <1>4, <2>1
<1>5. CASE Client \/ Evict
  BY <1>5, <1>4 DEF Client, Call, Evict
<1>6. ASSUME NEW p \in Browsed, HttpDelete(p)
      PROVE  RunFile'
  <2>1. run' = run /\ (intruded \/ run.proj = p => intruded')
    BY <1>6 DEF HttpDelete
  <2>2. run.proj # p => path'[run.proj] = path[run.proj]
    BY <1>6 DEF HttpDelete, Unlink, FileTypeOK
  <2>3. run.file # None => file'[run.file] = file[run.file]
    BY <1>6, <2>1 DEF HttpDelete, Kept, Referred, RunTypeOK, RunRecords
  <2> QED
    BY <2>1, <2>2, <2>3 DEF RunShape
<1>7. ASSUME NEW p \in Browsed, NEW a \in Texts \cup {None}, HttpAdr(p, a)
      PROVE  RunFile'
  <2>1. run' = run /\ intruded' = intruded
    BY <1>7 DEF HttpAdr
  <2>2. CASE path[p] = None
    <3>1. PICK i \in NewFile : /\ path' = [path EXCEPT ![p] = i]
                              /\ file' = [file EXCEPT ![i] =
                                    [proj |-> p, state |-> "ghost", adr |-> a]]
      BY <1>7, <2>2 DEF HttpAdr, NewGhost, Readable
    <3>2. run.file # None => i # run.file
      BY <3>1 DEF NewFile, Referred
    <3>3. run.file # None /\ ~intruded => p # run.proj
      BY <2>2
    <3> QED
      BY <2>1, <3>1, <3>2, <3>3 DEF FileTypeOK, RunShape, RunTypeOK, RunRecords
  <2>3. CASE path[p] # None
    <3>1. path' = path
      BY <1>7, <2>3 DEF HttpAdr
    <3>2. run.file # None => file'[run.file].state = file[run.file].state
      BY <1>7, <2>3 DEF HttpAdr, FileTypeOK, FileRecords, RunTypeOK, RunRecords
    <3> QED
      BY <2>1, <3>1, <3>2, <1>1
  <2> QED
    BY <2>2, <2>3
<1>8. CASE Crash
  BY <1>8 DEF Crash, NoRun
<1>9. CASE (\E p \in Watched : WatcherBegins(p)) \/ UNCHANGED vars
  BY <1>9, <1>1 DEF WatcherBegins, Begin, NoRun
<1> QED
  BY <1>2, <1>3, <1>5, <1>6, <1>7, <1>8, <1>9 DEF Next, Http

\* A step that leaves a server alone leaves its connection alone.
LEMMA Untouched ==
    ASSUME StoreInv, [Next]_vars, NEW t \in Servers,
           pc'[t] = pc[t], req'[t] = req[t], open'[t] = open[t],
           current'[t] = current[t], retired'[t] => retired[t],
           lock' = HolderOf(t) <=> lock = HolderOf(t)
    PROVE  Connected(t)'
BY Keeps DEF StoreInv, Connections, Connected, UsingStore

LEMMA LockStep ==
    ASSUME NEW s \in Servers, Thread(s)
    PROVE  lock' = lock \/ (lock' = HolderOf(s) /\ lock = "free")
<1>1. IndexBegins(s) => lock' = HolderOf(s) /\ lock = "free"
  BY DEF IndexBegins
<1>2. Hit(s) \/ Miss(s) \/ CheckOk(s) \/ CheckNoProject(s) => lock' = lock
  BY DEF Hit, Miss, CheckOk, CheckNoProject
<1>3. CheckFails(s) \/ Quarantine(s) \/ Delete(s) => lock' = lock
  BY DEF CheckFails, Quarantine, Delete
<1>4. Answer(s) \/ LookForAdr(s) \/ ImportAdr(s) \/ StoreAdr(s) => lock' = lock
  BY DEF Answer, LookForAdr, ImportAdr, StoreAdr
<1> QED
  BY <1>1, <1>2, <1>3, <1>4 DEF Thread

LEMMA ThreadConnected ==
    ASSUME StoreInv, [Next]_vars, NEW s \in Servers, Thread(s)
    PROVE  Connections'
<1> USE ServerNames DEF StoreInv, TypeOK, ServerTypeOK
<1>0. Connected(s) /\ req[s].proj \in Projects \cup {NoProject}
  BY DEF Connections, Requests
<1>1. ASSUME NEW t \in Servers, t # s
      PROVE  Connected(t)'
  <2>1. lock' = lock \/ (lock' = HolderOf(s) /\ lock = "free")
    BY LockStep
  <2>2. pc'[t] = pc[t] /\ req'[t] = req[t]
    BY <1>1 DEF Thread, Hit, Miss, CheckOk, CheckNoProject, CheckFails,
                Quarantine, Answer, LookForAdr, ImportAdr, StoreAdr, Delete,
                IndexBegins
  <2>3. open'[t] = open[t] /\ current'[t] = current[t]
    BY <1>1 DEF Thread, Hit, Miss, CheckOk, CheckNoProject, CheckFails,
                Quarantine, Answer, LookForAdr, ImportAdr, StoreAdr, Delete,
                IndexBegins
  <2>4. retired'[t] = retired[t]
    BY <1>1 DEF Thread, Hit, Miss, CheckOk, CheckNoProject, CheckFails,
                Quarantine, Answer, LookForAdr, ImportAdr, StoreAdr, Delete,
                IndexBegins, Unlink, HistoryTypeOK
  <2> QED
    BY <1>1, <2>1, <2>2, <2>3, <2>4, Untouched
<1>2. Connected(s)'
  <2> USE <1>0 DEF Connected, UsingStore, Idle
  <2>1. CASE Hit(s)
    BY <2>1, Keeps DEF Hit
  <2>2. CASE Miss(s)
    <3> DEFINE i == path[req[s].proj]
    <3>1. req[s].proj \in Projects
      BY <2>2 DEF Miss
    <3>2. CASE open' = [open EXCEPT ![s] = None] /\ Reply(s)
      BY <2>2, <3>2 DEF Miss, HistoryTypeOK
    <3>3. CASE i # None /\ open' = [open EXCEPT ![s] = i] /\ Goto(s, "check")
      <4>1. file'[i].proj = req[s].proj
        BY <3>1, <3>3, Keeps DEF NamedFiles, FileTypeOK
      <4> QED
        BY <2>2, <3>1, <3>3, <4>1 DEF Miss, HistoryTypeOK
    <3> QED
      BY <2>2, <3>2, <3>3 DEF Miss
  <2>3. CASE CheckOk(s)
    BY <2>3, Keeps DEF CheckOk
  <2>4. CASE CheckNoProject(s) \/ CheckFails(s)
    BY <2>4 DEF CheckNoProject, CheckFails, HistoryTypeOK
  <2>5. CASE Quarantine(s)
    BY <2>5 DEF Quarantine, Unlink
  <2>6. CASE Answer(s)
    BY <2>6, Keeps DEF Answer
  <2>7. CASE LookForAdr(s)
    BY <2>7, Keeps DEF LookForAdr
  <2>8. CASE ImportAdr(s)
    BY <2>8, Keeps DEF ImportAdr
  <2>9. CASE StoreAdr(s)
    BY <2>9, Keeps DEF StoreAdr
  <2>10. CASE Delete(s)
    <3>1. ~(open[s] # None /\ open[s] = path[req[s].proj])
      BY <2>10 DEF Delete, NamedFiles
    <3>2. ~retired'[s]
      BY <2>10, <3>1 DEF Delete, Unlink
    <3> QED
      BY <2>10, <3>2, Keeps DEF Delete
  <2>11. CASE IndexBegins(s)
    BY <2>11 DEF IndexBegins
  <2> QED
    BY <2>1, <2>2, <2>3, <2>4, <2>5, <2>6, <2>7, <2>8, <2>9, <2>10, <2>11
       DEF Thread
<1> QED
  BY <1>1, <1>2 DEF Connections

\* The server that ran closes what it has open, when it gives the lock back.
LEMMA ServerReleased ==
    ASSUME StoreInv, [Next]_vars, NEW s \in Servers, lock = HolderOf(s), RunEnds
    PROVE  Connections'
<1>1. lock' = "free"
  BY DEF RunEnds
<1>2. CloseCached(s) /\ (Goto(s, "resolve") \/ Reply(s))
  <2> HIDE DEF Goto, Reply
  <2>1. PICK t \in Servers : lock = HolderOf(t) /\ CloseCached(t)
                            /\ (Goto(t, "resolve") \/ Reply(t))
    BY DEF RunEnds
  <2>2. HolderOf(t) = HolderOf(s)
    BY <2>1, Zenon
  <2>3. t = s
    BY <2>2, ServerNames
  <2> QED
    BY <2>1, <2>3, Zenon
<1>3. CloseCached(s)
  BY <1>2, Zenon
<1>4. pc[s] = "indexing" /\ req[s].proj \in Projects
  BY DEF StoreInv, Connections, Connected
<1>5. open'[s] = None /\ ~retired'[s]
  BY <1>3 DEF CloseCached, StoreInv, TypeOK, ServerTypeOK, HistoryTypeOK
<1>6. \/ pc'[s] = "resolve" /\ req'[s] = req[s]
      \/ pc'[s] = "idle"
  BY <1>2 DEF StoreInv, TypeOK, ServerTypeOK
<1>7. Connected(s)'
  BY <1>1, <1>4, <1>5, <1>6, ServerNames DEF Connected, UsingStore
<1>8. ASSUME NEW t \in Servers, t # s
      PROVE  Connected(t)'
  <2>1. pc'[t] = pc[t] /\ req'[t] = req[t]
    BY <1>8, <1>2 DEF StoreInv, TypeOK, ServerTypeOK
  <2>2. open'[t] = open[t] /\ current'[t] = current[t] /\ retired'[t] = retired[t]
    BY <1>8, <1>3 DEF CloseCached, StoreInv, TypeOK, ServerTypeOK, HistoryTypeOK
  <2>3. lock # HolderOf(t) /\ lock' # HolderOf(t)
    BY <1>1, <1>8, ServerNames
  <2> QED
    BY <2>1, <2>2, <2>3, Untouched
<1> QED
  BY <1>7, <1>8 DEF Connections

LEMMA ConnectionsStep ==
    ASSUME StoreInv, [Next]_vars
    PROVE  Connections'
<1> USE ServerNames DEF StoreInv, TypeOK, ServerTypeOK
<1>0. ASSUME UNCHANGED server, UNCHANGED <<lock, retired>>
      PROVE  Connections'
  BY <1>0, Untouched DEF Connections
<1>1. ASSUME NEW s \in Servers, Thread(s)
      PROVE  Connections'
  BY <1>1, ThreadConnected
<1>2. CASE Run
  <2>1. CASE RunFull \/ RunReplaces
    <3>1. lock # "free"
      BY <2>1 DEF RunFull, RunReplaces, RunShape
    <3>2. \A s \in Runners : open[s] = None
      BY DEF Runners, Connections, Connected
    <3>3. \A t \in Servers : retired'[t] => retired[t]
      BY <2>1, <3>2 DEF RunFull, RunReplaces, Unlink
    <3> QED
      BY <2>1, <3>3, Untouched DEF RunFull, RunReplaces, Connections
  <2>2. CASE RunEnds
    <3>1. CASE \E s \in Servers : lock = HolderOf(s)
      BY <2>2, <3>1, ServerReleased
    <3>2. CASE ~\E s \in Servers : lock = HolderOf(s)
      <4>1. UNCHANGED server /\ UNCHANGED retired /\ lock' = "free"
        BY <2>2, <3>2 DEF RunEnds
      <4> QED
        BY <3>2, <4>1, Untouched DEF Connections
    <3> QED
      BY <3>1, <3>2
  <2> QED
    BY <1>2, <2>1, <2>2, <1>0
       DEF Run, RunStops, RunWithoutFile, RunIncremental, DumpOpens,
           DumpWrites, DumpEnds, DumpFails, Persist
<1>3. CASE Client
  <2>1. PICK c \in Calls : Call(c[1], c[2], c[3])
    BY <1>3 DEF Client
  <2> DEFINE s == c[1]
  <2>2. s \in Servers /\ c[2] \in Tools /\ c[3] \in Projects
    BY CallTypes
  <2>3. ASSUME NEW t \in Servers, t # s
        PROVE  Connected(t)'
    BY <2>1, <2>2, <2>3, Untouched DEF Call, CloseCached, HistoryTypeOK
  <2>4. Connected(s) /\ pc[s] = "idle" /\ lock' = lock
    BY <2>1, <2>2 DEF Connections, Call
  <2>5. req'[s].proj = c[3] /\ pc'[s] \in {"resolve", "want_index", "want_delete"}
    BY <2>1, <2>2 DEF Call
  <2>6. CASE c[2] = "index" \/ (c[2] = "delete" /\ current[s] = c[3])
    <3>1. open'[s] = None /\ retired'[s] = FALSE
      BY <2>1, <2>2, <2>6 DEF Call, CloseCached, HistoryTypeOK
    <3> QED
      BY <2>2, <2>3, <2>4, <2>5, <3>1 DEF Connections, Connected, UsingStore
  <2>7. CASE ~(c[2] = "index" \/ (c[2] = "delete" /\ current[s] = c[3]))
    <3>1. UNCHANGED <<open, current, retired>>
      BY <2>1, <2>7 DEF Call
    <3>2. /\ pc'[s] # "want_index"
          /\ pc'[s] = "want_delete" => current[s] # c[3]
      BY <2>1, <2>2, <2>7 DEF Call
    <3>3. open[s] # None => file'[open[s]].proj = file[open[s]].proj
      BY <2>2, <3>1, Keeps
    <3>4. Connected(s)'
      BY <2>2, <2>4, <2>5, <3>1, <3>2, <3>3 DEF Connected, UsingStore
    <3> QED
      BY <2>3, <3>4 DEF Connections
  <2> QED
    BY <2>6, <2>7
<1>4. ASSUME NEW p \in Browsed, HttpDelete(p)
      PROVE  Connections'
  <2>1. retired' = retired
    BY <1>4 DEF HttpDelete, Unlink, HistoryTypeOK
  <2> QED
    BY <1>4, <2>1, <1>0 DEF HttpDelete
<1>5. ASSUME NEW p \in Browsed, NEW a \in Texts \cup {None}, HttpAdr(p, a)
      PROVE  Connections'
  BY <1>5, <1>0 DEF HttpAdr
<1>6. CASE Evict
  <2>1. ASSUME NEW t \in Servers, t # Main
        PROVE  Connected(t)'
    BY <1>6, <2>1, Untouched DEF Evict, CloseCached, HistoryTypeOK
  <2>2. Connected(Main)'
    BY <1>6 DEF Evict, CloseCached, Connections, Connected, UsingStore,
                HistoryTypeOK
  <2> QED
    BY <2>1, <2>2 DEF Connections
<1>7. CASE Crash
  BY <1>7 DEF Crash, Connections, Connected, UsingStore
<1>8. CASE \E p \in Watched : WatcherBegins(p)
  <2>1. UNCHANGED <<server, retired>> /\ lock = "free" /\ lock' = "watcher"
    BY <1>8 DEF WatcherBegins
  <2> QED
    BY <2>1, Untouched DEF Connections
<1>9. CASE UNCHANGED vars
  BY <1>9, <1>0
<1> QED
  BY <1>1, <1>2, <1>3, <1>4, <1>5, <1>6, <1>7, <1>8, <1>9 DEF Next, Http

LEMMA StoreInitInv == Init => StoreInv
<1> SUFFICES ASSUME Init PROVE StoreInv
  OBVIOUS
<1>1. TypeOK
  BY StoreInitType
<1>2. RunShape /\ RunFile
  BY DEF Init, RunShape, RunFile, NoRun
<1>3. NamedFiles
  <2> SUFFICES ASSUME NEW p \in Projects, path[p] # None
               PROVE  file[path[p]].proj = p
    BY DEF NamedFiles
  <2>1. path[p] \in Inodes
    BY DEF Init
  <2>2. (CHOOSE q \in Projects : path[q] = path[p]) = p
    BY DEF Init
  <2>3. file[path[p]] = Complete(p)
    BY <2>1, <2>2 DEF Init
  <2> QED
    BY <2>3 DEF Complete
<1>4. Connections
  BY ServerNames DEF Init, Connections, Connected, UsingStore
<1> QED
  BY <1>1, <1>2, <1>3, <1>4 DEF StoreInv

LEMMA StoreInvStep == StoreInv /\ [Next]_vars => StoreInv'
<1> SUFFICES ASSUME StoreInv, [Next]_vars PROVE StoreInv'
  OBVIOUS
<1>1. TypeOK'
  BY FileStep, ServerStep, RunStep DEF StoreInv, TypeOK
<1> QED
  BY <1>1, ShapeStep, NamedStep, RunFileStep, ConnectionsStep DEF StoreInv

LEMMA StoreInvHolds == Spec => []StoreInv
BY StoreInitInv, StoreInvStep, PTL DEF Spec

----------------------------------------------------------------------------
(* Theorems.                                                               *)

\* Every variable keeps its type: a step of the process, a request of the UI
\* or a crash leaves no connection to a file that is not there.
THEOREM StoreTypeCorrect == Spec => []TypeOK
<1>1. StoreInv => TypeOK
  BY DEF StoreInv
<1> QED
  BY <1>1, StoreInvHolds, PTL

\* However calls, runs, deletions and evictions interleave, resolve_store
\* never hands a tool call the file of another project.
THEOREM CallsStayInTheirProject == Spec => []AnswersOwnProject
<1>1. StoreInv => AnswersOwnProject
  BY DEF StoreInv, Connections, Connected, AnswersOwnProject
<1> QED
  BY <1>1, StoreInvHolds, PTL

\* A server never reads a file that its own delete_project or index_repository
\* took away.
THEOREM OwnChangesSeen == Spec => []SeesOwnChanges
<1>1. StoreInv => SeesOwnChanges
  BY DEF StoreInv, Connections, Connected, SeesOwnChanges
<1> QED
  BY <1>1, StoreInvHolds, PTL

\* A run's file has the project's name when the run ends, unless the UI or a
\* failed integrity check took it away during the run.
THEOREM RunOutputStays == Spec => []RunOutputIsVisible
<1>1. StoreInv => RunOutputIsVisible
  BY DEF StoreInv, RunShape, RunFile, RunOutputIsVisible
<1> QED
  BY <1>1, StoreInvHolds, PTL
=============================================================================
