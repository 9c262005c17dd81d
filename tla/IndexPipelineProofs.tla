------------------------ MODULE IndexPipelineProofs ------------------------
(***************************************************************************)
(* Proofs about IndexPipeline, for every set of files and every bound.     *)
(***************************************************************************)
EXTENDS IndexPipeline, FiniteSetTheorems, TLAPS

\* The empty map is a map of versions and a map of rows.
LEMMA NoFilesType == /\ NoFiles \in [Files -> Nat]
                     /\ NoFiles \in [Files -> Version]
                     /\ \A f \in Files : NoFiles[f] = None
BY DEF NoFiles, None, Version

\* What classify_files and find_deleted_files return are sets of files, and
\* the carried rows are rows.
LEMMA ClassifyType ==
  ASSUME TypeOK
  PROVE  /\ ChangedFiles \subseteq Files
         /\ DeletedFiles \subseteq Files
         /\ CarriedRows \in [Files -> Nat]
BY NoFilesType DEF TypeOK, DbTypeOK, RunTypeOK, ChangedFiles, DeletedFiles,
   CarriedRows, Stored, None

\* No step changes the repository but an edit or a removal.
LEMMA RepoTypeStep ==
  ASSUME TypeOK, [Next]_vars
  PROVE  RepoTypeOK'
<1> USE DEF TypeOK, RepoTypeOK, repo
<1>1. CASE Step
  BY <1>1 DEF Step, Discover, RouteNoDb, RouteIncremental, RouteReindex,
     DeleteDb, Classify, Load, Structure, Parse, ParseFails, Resolved,
     AbortFull, CutIncremental, Predump, ReplaceDb, DumpOpen, DumpFinish,
     PersistOpen, PersistRow, PersistDone
<1>2. CASE Failure
  BY <1>2 DEF Failure, DiscoverFails, LoadFails, DumpFails, Crash
<1>3. CASE World
  BY <1>3 DEF World, Start, Edit, Remove, WriteAdr, HttpDelete, Quarantine,
     Cancel, None
<1>4. CASE UNCHANGED vars
  BY <1>4 DEF vars
<1> QED
  BY <1>1, <1>2, <1>3, <1>4 DEF Next

\* The database file keeps its type: it is only emptied, filled from the
\* buffer or given a row at a time.
LEMMA DbTypeStep ==
  ASSUME TypeOK, [Next]_vars
  PROVE  DbTypeOK'
<1> USE NoFilesType DEF TypeOK, DbTypeOK, DbStates, db, NoDb, None
<1>1. CASE Discover \/ RouteNoDb \/ RouteIncremental \/ RouteReindex \/ DeleteDb
  BY <1>1 DEF Discover, RouteNoDb, RouteIncremental, RouteReindex, DeleteDb
<1>2. CASE Classify \/ Load \/ Structure
  BY <1>2 DEF Classify, Load, Structure
<1>3. CASE \E f \in Files : Parse(f) \/ ParseFails(f)
  BY <1>3 DEF Parse, ParseFails
<1>4. CASE Resolved \/ AbortFull \/ CutIncremental \/ Predump
  BY <1>4 DEF Resolved, AbortFull, CutIncremental, Predump
<1>5. CASE ReplaceDb \/ DumpOpen
  BY <1>5 DEF ReplaceDb, DumpOpen
<1>6. CASE DumpFinish
  BY <1>6 DEF DumpFinish, RunTypeOK
<1>7. CASE PersistOpen
  BY <1>7 DEF PersistOpen, RunTypeOK
<1>8. CASE \E f \in Files : PersistRow(f)
  <2>1. PICK f \in Files : PersistRow(f)
    BY <1>8
  <2>2. (IF f \in files THEN disk[f] ELSE carried[f]) \in Nat
    BY DEF RepoTypeOK, RunTypeOK
  <2> QED
    BY <2>1, <2>2 DEF PersistRow
<1>9. CASE PersistDone
  BY <1>9 DEF PersistDone
<1>10. CASE Failure
  BY <1>10 DEF Failure, DiscoverFails, LoadFails, DumpFails, Crash
<1>11. CASE \E m \in Modes : Start(m)
  BY <1>11 DEF Start
<1>12. CASE \E f \in Files : Edit(f) \/ Remove(f)
  BY <1>12 DEF Edit, Remove
<1>13. CASE \E a \in 1..MaxAdr : WriteAdr(a)
  BY <1>13, BoundsAssumption DEF WriteAdr
<1>14. CASE HttpDelete \/ Quarantine \/ Cancel
  BY <1>14 DEF HttpDelete, Quarantine, Cancel
<1>15. CASE UNCHANGED vars
  BY <1>15 DEF vars
<1> QED
  BY <1>1, <1>2, <1>3, <1>4, <1>5, <1>6, <1>7, <1>8, <1>9, <1>10, <1>11,
     <1>12, <1>13, <1>14, <1>15 DEF Next, Step, World

\* A run that ends frees its buffers.
LEMMA FinishType ==
  ASSUME RunTypeOK, NEW r \in {"none", "ok", "error", "crashed"}, Finish(r)
  PROVE  RunTypeOK'
BY NoFilesType DEF RunTypeOK, Finish, PCs, None

\* A step that only moves the run keeps what the run holds.
LEMMA GoToType ==
  ASSUME RunTypeOK, NEW label \in PCs,
         NEW r \in {"none", "full", "incremental"},
         GoTo(label, r), savedAdr' \in Nat
  PROVE  RunTypeOK'
BY DEF RunTypeOK, GoTo

\* The run keeps its type.
LEMMA RunTypeStep ==
  ASSUME TypeOK, [Next]_vars
  PROVE  RunTypeOK'
<1> USE DEF TypeOK
<1>1. CASE Discover
  BY <1>1, FinishType DEF Discover, Discovered, RunTypeOK, PCs
<1>2. CASE RouteNoDb \/ RouteIncremental \/ RouteReindex \/ DeleteDb
  <2>1. savedAdr' \in Nat
    BY <1>2 DEF RouteNoDb, RouteIncremental, RouteReindex, DeleteDb, RunTypeOK,
       DbTypeOK
  <2> QED
    BY <1>2, <2>1, GoToType DEF RouteNoDb, RouteIncremental, RouteReindex,
       DeleteDb, PCs
<1>3. CASE Classify
  <2>1. CASE ChangedFiles = {} /\ DeletedFiles = {}
    BY <1>3, <2>1, FinishType DEF Classify
  <2>2. CASE ~(ChangedFiles = {} /\ DeletedFiles = {})
    BY <1>3, <2>2, ClassifyType
       DEF Classify, RunTypeOK, PCs, Version, Partial, None
  <2> QED
    BY <2>1, <2>2
<1>4. CASE Load
  BY <1>4 DEF Load, RunTypeOK, DbTypeOK, PCs, Version, Partial, None
<1>5. CASE Structure
  BY <1>5, FinishType DEF Structure, RunTypeOK, PCs, Version, Partial, None
<1>6. CASE \E f \in Files : Parse(f) \/ ParseFails(f)
  BY <1>6 DEF Parse, ParseFails, RunTypeOK, RepoTypeOK, Version
<1>7. CASE Resolved
  BY <1>7 DEF Resolved, RunTypeOK, PCs
<1>8. CASE AbortFull
  BY <1>8, FinishType DEF AbortFull
<1>9. CASE CutIncremental
  BY <1>9 DEF CutIncremental, RunTypeOK, PCs, Version, Partial
<1>10. CASE Predump
  BY <1>10, FinishType DEF Predump, RunTypeOK, PCs
<1>11. CASE ReplaceDb \/ DumpOpen \/ DumpFinish
  <2>1. route \in {"none", "full", "incremental"} /\ savedAdr \in Nat
    BY DEF RunTypeOK
  <2> QED
    BY <1>11, <2>1, GoToType DEF ReplaceDb, DumpOpen, DumpFinish, PCs
<1>12. CASE PersistOpen
  <2>1. route \in {"none", "full", "incremental"} /\ savedAdr \in Nat
    BY DEF RunTypeOK
  <2> QED
    BY <1>12, <2>1, GoToType, FinishType DEF PersistOpen, PCs
<1>13. CASE \E f \in Files : PersistRow(f)
  BY <1>13 DEF PersistRow, RunTypeOK
<1>14. CASE PersistDone
  BY <1>14, FinishType DEF PersistDone
<1>15. CASE DiscoverFails \/ Crash
  BY <1>15, FinishType DEF DiscoverFails, Crash
<1>16. CASE LoadFails
  BY <1>16, NoFilesType DEF LoadFails, RunTypeOK, PCs
<1>17. CASE DumpFails
  <2>1. route \in {"none", "full", "incremental"} /\ savedAdr \in Nat
    BY DEF RunTypeOK
  <2> QED
    BY <1>17, <2>1, GoToType, FinishType DEF DumpFails, PCs
<1>18. CASE \E m \in Modes : Start(m)
  BY <1>18 DEF Start, RunTypeOK, PCs
<1>19. CASE Cancel
  BY <1>19 DEF Cancel, RunTypeOK
<1>20. CASE \/ \E f \in Files : Edit(f) \/ Remove(f)
            \/ \E a \in 1..MaxAdr : WriteAdr(a)
            \/ HttpDelete \/ Quarantine \/ UNCHANGED vars
  BY <1>20 DEF Edit, Remove, WriteAdr, HttpDelete, Quarantine, vars, run,
     RunTypeOK
<1> QED
  BY <1>1, <1>2, <1>3, <1>4, <1>5, <1>6, <1>7, <1>8, <1>9, <1>10, <1>11,
     <1>12, <1>13, <1>14, <1>15, <1>16, <1>17, <1>18, <1>19, <1>20
     DEF Next, Step, Failure, World

\* The history variables keep their type.
LEMMA HistoryTypeStep ==
  ASSUME TypeOK, [Next]_vars
  PROVE  HistoryTypeOK'
<1> USE DEF TypeOK, HistoryTypeOK, history, atStart, Kinds
<1>1. CASE Step
  <2> USE DEF RunTypeOK
  <2>1. CASE \/ Discover \/ RouteNoDb \/ RouteIncremental \/ RouteReindex
             \/ DeleteDb \/ Load \/ Resolved \/ AbortFull \/ Predump
             \/ ReplaceDb \/ DumpOpen \/ DumpFinish \/ PersistOpen
             \/ \E f \in Files : PersistRow(f)
    BY <2>1 DEF Discover, RouteNoDb, RouteIncremental, RouteReindex, DeleteDb,
       Load, Resolved, AbortFull, Predump, ReplaceDb, DumpOpen, DumpFinish,
       PersistOpen, PersistRow
  <2>2. CASE Classify \/ Structure
    BY <2>2 DEF Classify, Structure
  <2>3. CASE \E f \in Files : Parse(f) \/ ParseFails(f)
    <3>1. PICK f \in Files : Parse(f) \/ ParseFails(f)
      BY <2>3
    <3>2. CASE Parse(f)
      BY <3>2 DEF Parse
    <3>3. CASE ParseFails(f)
      <4>1. UNCHANGED <<faults, disturbed>> \/ Fault
        BY <3>3 DEF ParseFails
      <4>2. CASE UNCHANGED <<faults, disturbed>>
        BY <3>3, <4>2 DEF ParseFails
      <4>3. CASE Fault
        <5>1. faults' \in Nat /\ disturbed' \subseteq Kinds
          BY <4>3 DEF Fault
        <5> QED
          BY <3>3, <5>1 DEF ParseFails
      <4> QED
        BY <4>1, <4>2, <4>3
    <3> QED
      BY <3>1, <3>2, <3>3
  <2>4. CASE CutIncremental
    <3>1. PICK cut \in SUBSET changed : suspect' = suspect \cup cut
      BY <2>4 DEF CutIncremental
    <3> QED
      BY <2>4, <3>1 DEF CutIncremental
  <2>5. CASE PersistDone
    BY <2>5 DEF PersistDone
  <2> QED
    BY <1>1, <2>1, <2>2, <2>3, <2>4, <2>5 DEF Step
<1>2. CASE Failure
  <2>1. Fault /\ UNCHANGED <<suspect, missing, atStart>>
    BY <1>2 DEF Failure, DiscoverFails, LoadFails, DumpFails, Crash
  <2>2. faults' \in Nat /\ disturbed' \subseteq Kinds
    BY <2>1 DEF Fault
  <2>3. dbSuspect' \subseteq Files
    BY <1>2 DEF Failure, DiscoverFails, LoadFails, DumpFails, Crash, RunTypeOK
  <2> QED
    BY <2>1, <2>2, <2>3
<1>3. CASE World
  <2> USE DEF Disturb
  <2>1. CASE \E m \in Modes : Start(m)
    BY <2>1 DEF Start, DbTypeOK, Overlooked
  <2>2. CASE \E f \in Files : Edit(f) \/ Remove(f)
    BY <2>2 DEF Edit, Remove
  <2>3. CASE \E a \in 1..MaxAdr : WriteAdr(a)
    BY <2>3 DEF WriteAdr
  <2>4. CASE HttpDelete
    BY <2>4 DEF HttpDelete, RunTypeOK
  <2>5. CASE Quarantine \/ Cancel
    BY <2>5 DEF Quarantine, Cancel
  <2> QED
    BY <1>3, <2>1, <2>2, <2>3, <2>4, <2>5 DEF World
<1>4. CASE UNCHANGED vars
  BY <1>4 DEF vars
<1> QED
  BY <1>1, <1>2, <1>3, <1>4 DEF Next

\* The four parts together.
LEMMA TypeStep ==
  ASSUME TypeOK, [Next]_vars
  PROVE  TypeOK'
BY RepoTypeStep, DbTypeStep, RunTypeStep, HistoryTypeStep DEF TypeOK

\* The initial states are typed.
LEMMA InitType == Init => TypeOK
<1> SUFFICES ASSUME Init PROVE TypeOK
  OBVIOUS
<1> USE NoFilesType DEF Init, None
<1>1. RepoTypeOK
  BY DEF RepoTypeOK
<1>2. DbTypeOK
  BY DEF DbTypeOK, DbStates
<1>3. RunTypeOK
  BY DEF RunTypeOK, PCs, Modes
<1>4. HistoryTypeOK
  BY DEF HistoryTypeOK
<1> QED
  BY <1>1, <1>2, <1>3, <1>4 DEF TypeOK

\* Every variable of the pipeline keeps its type (IndexPipeline!TypeOK).
THEOREM TypeCorrect == Spec => []TypeOK
<1>1. TypeOK /\ [Next]_vars => TypeOK'
  BY TypeStep
<1> QED
  BY <1>1, InitType, PTL DEF Spec

----------------------------------------------------------------------------
(* RowsMatchNodes is not inductive: it says nothing while a run is under    *)
(* way.  What a run carries from the classification to the last row is, per *)
(* file, the version its row will name (Due).                               *)

Due(f) == IF f \in files THEN disk[f] ELSE carried[f]

ShapeInv ==
    /\ toParse \subseteq files \cap toPersist
    /\ pc \notin {"load", "parse"} => toParse = {}
    /\ pc = "load" => changed = toParse
    /\ pc = "dumping" => dbState # "ok"
    /\ pc = "predump" => route = "full"
    /\ pc = "dump" /\ route # "full" => dbState # "ok"
    /\ dbState # "ok" => dbNodes = NoFiles /\ dbRows = NoFiles

\* Before the load, the stored graph of a kept file is the one its row will
\* name; a file that gets no row is purged or has no graph.
LoadInv ==
    pc = "load" =>
        \A f \in Files \ (suspect \cup toParse) :
            /\ gbuf[f] = None => f \notin toPersist
            /\ gbuf[f] # None =>
                 dbNodes[f] = IF f \in toPersist THEN Due(f) ELSE None

\* From the load on, the buffer holds what the rows still to be written will
\* name, and until the writing starts nothing of the other files.
BufferInv ==
    pc \in {"parse", "predump", "replace_db", "dump", "dumping",
            "persist_open", "persist"} =>
        \A f \in Files \ (suspect \cup toParse) :
            /\ f \in toPersist => gbuf[f] = Due(f)
            /\ f \notin toPersist /\ pc # "persist" => gbuf[f] = None

\* While rows are written, the database holds the buffer, and the rows that
\* need no more writing match it.
PersistInv ==
    (pc \in {"persist_open", "persist"} /\ dbState = "ok") =>
        /\ dbNodes = gbuf
        /\ pc = "persist_open" => dbRows = NoFiles
        /\ \A f \in Files \ (suspect \cup toPersist) : dbRows[f] = gbuf[f]

IInv == /\ TypeOK /\ ShapeInv /\ LoadInv /\ BufferInv /\ PersistInv
        /\ RowsMatchNodes

\* What is to be parsed is also to be recorded, only while a run loads or
\* parses; and a file that is not a complete database holds nothing.
LEMMA ShapeStep ==
  ASSUME IInv, [Next]_vars
  PROVE  ShapeInv'
<1> USE DEF IInv, ShapeInv, repo, db, run, history
<1>1. CASE Discover \/ DiscoverFails \/ AbortFull \/ Predump
  BY <1>1 DEF Discover, DiscoverFails, AbortFull, Predump, Finish
<1>2. CASE RouteNoDb \/ RouteIncremental \/ RouteReindex
  BY <1>2 DEF RouteNoDb, RouteIncremental, RouteReindex, GoTo
<1>3. CASE DeleteDb \/ ReplaceDb \/ DumpOpen
  BY <1>3 DEF DeleteDb, ReplaceDb, DumpOpen, GoTo, NoDb
<1>4. CASE Classify
  <2>1. ChangedFiles \subseteq files
    BY DEF ChangedFiles
  <2>2. CASE ChangedFiles = {} /\ DeletedFiles = {}
    BY <1>4, <2>2 DEF Classify, Finish
  <2>3. CASE ~(ChangedFiles = {} /\ DeletedFiles = {})
    BY <1>4, <2>1, <2>3 DEF Classify
  <2> QED
    BY <2>2, <2>3
<1>5. CASE Load
  BY <1>5 DEF Load
<1>6. CASE LoadFails
  BY <1>6 DEF LoadFails
<1>7. CASE Structure
  BY <1>7 DEF Structure, Finish
<1>8. CASE \E f \in Files : Parse(f) \/ ParseFails(f)
  BY <1>8 DEF Parse, ParseFails
<1>9. CASE Resolved \/ CutIncremental
  BY <1>9 DEF Resolved, CutIncremental
<1>10. CASE DumpFinish
  BY <1>10 DEF DumpFinish, GoTo
<1>11. CASE DumpFails
  BY <1>11 DEF DumpFails, GoTo, Finish
<1>12. CASE PersistOpen
  BY <1>12 DEF PersistOpen, GoTo, Finish
<1>13. CASE \E f \in Files : PersistRow(f)
  BY <1>13 DEF PersistRow
<1>14. CASE PersistDone \/ Crash
  BY <1>14 DEF PersistDone, Crash, Finish
<1>15. CASE \E m \in Modes : Start(m)
  BY <1>15 DEF Start
<1>16. CASE \E f \in Files : Edit(f) \/ Remove(f)
  BY <1>16 DEF Edit, Remove
<1>17. CASE \E a \in 1..MaxAdr : WriteAdr(a)
  BY <1>17 DEF WriteAdr
<1>18. CASE HttpDelete \/ Quarantine \/ Cancel
  BY <1>18 DEF HttpDelete, Quarantine, Cancel, NoDb
<1>19. CASE UNCHANGED vars
  BY <1>19 DEF vars
<1> QED
  BY <1>1, <1>2, <1>3, <1>4, <1>5, <1>6, <1>7, <1>8, <1>9, <1>10, <1>11,
     <1>12, <1>13, <1>14, <1>15, <1>16, <1>17, <1>18, <1>19
     DEF Next, Step, Failure, World

\* The classification leaves, for every file it keeps, the graph its row will
\* name: this is where RowsMatchNodes of the earlier runs is used.
LEMMA LoadStep ==
  ASSUME IInv, [Next]_vars
  PROVE  LoadInv'
<1> SUFFICES ASSUME pc' = "load",
                    NEW f \in Files, f \notin suspect', f \notin toParse'
             PROVE  /\ gbuf'[f] = None => f \notin toPersist'
                    /\ gbuf'[f] # None =>
                         dbNodes'[f] = IF f \in toPersist' THEN Due(f)' ELSE None
  BY DEF LoadInv
<1> USE DEF Due, repo, db, run, history
<1>1. CASE Classify
  <2> USE NoFilesType
  <2>1. /\ files' = files /\ disk' = disk /\ dbNodes' = dbNodes
        /\ carried' = CarriedRows
        /\ toPersist' = files \cup {g \in Files : CarriedRows[g] # None}
        /\ gbuf' = [g \in Files |-> IF g \in DeletedFiles
                                    THEN None ELSE Partial]
        /\ toParse' = ChangedFiles
        /\ suspect' = IF dbState = "ok"
                      THEN dbSuspect \ (ChangedFiles \cup DeletedFiles) ELSE {}
    BY <1>1 DEF Classify, Finish
  <2>2. CASE f \in DeletedFiles
    BY <2>1, <2>2 DEF DeletedFiles, CarriedRows
  <2>3. CASE f \notin DeletedFiles
    <3>1. f \notin ChangedFiles
      BY <2>1
    <3>2. Stored[f] = dbNodes[f]
      <4>1. CASE dbState = "ok"
        BY <1>1, <2>1, <2>3, <3>1, <4>1
           DEF IInv, RowsMatchNodes, Classify, Stored
      <4>2. CASE dbState # "ok"
        BY <4>2 DEF IInv, ShapeInv, Stored
      <4> QED
        BY <4>1, <4>2
    <3> QED
      BY <2>1, <2>3, <3>1, <3>2
         DEF ChangedFiles, DeletedFiles, CarriedRows, None, Partial
  <2> QED
    BY <2>2, <2>3
<1>2. CASE \E g \in Files : Edit(g) \/ Remove(g)
  <2>1. PICK g \in Files : Edit(g) \/ Remove(g)
    BY <1>2
  <2>2. /\ pc = "load" /\ f \notin suspect /\ f \notin toParse
        /\ files' = files /\ toPersist' = toPersist /\ carried' = carried
        /\ gbuf' = gbuf /\ dbNodes' = dbNodes
    BY <2>1 DEF Edit, Remove
  <2>3. f \in files /\ f \in toPersist => disk'[f] = disk[f]
    BY <2>1, <2>2 DEF Edit, Remove, Settled, IInv, TypeOK, RepoTypeOK
  <2> QED
    BY <2>2, <2>3 DEF IInv, LoadInv
<1>3. CASE HttpDelete
  BY <1>3, NoFilesType DEF HttpDelete, NoDb, IInv, LoadInv, None
<1>4. CASE \/ \E a \in 1..MaxAdr : WriteAdr(a)
           \/ Quarantine \/ Cancel \/ UNCHANGED vars
  BY <1>4 DEF WriteAdr, Quarantine, Cancel, vars, IInv, LoadInv
<1>5. CASE \/ Discover \/ RouteNoDb \/ RouteIncremental \/ RouteReindex
           \/ DeleteDb \/ Load \/ Structure \/ Resolved \/ AbortFull
           \/ CutIncremental \/ Predump \/ ReplaceDb \/ DumpOpen \/ DumpFinish
           \/ PersistOpen \/ PersistDone \/ Failure
           \/ \E g \in Files : Parse(g) \/ ParseFails(g) \/ PersistRow(g)
           \/ \E m \in Modes : Start(m)
  BY <1>5 DEF Discover, RouteNoDb, RouteIncremental, RouteReindex, DeleteDb,
     Load, Structure, Resolved, AbortFull, CutIncremental, Predump, ReplaceDb,
     DumpOpen, DumpFinish, PersistOpen, PersistDone, Parse, ParseFails,
     PersistRow, Start, Failure, DiscoverFails, LoadFails, DumpFails, Crash,
     Finish, GoTo
<1> QED
  BY <1>1, <1>2, <1>3, <1>4, <1>5 DEF Next, Step, World

\* The buffer of a run: what is loaded and parsed is what the rows will name,
\* since an edit in between makes its file suspect.
LEMMA BufferStep ==
  ASSUME IInv, [Next]_vars
  PROVE  BufferInv'
<1> DEFINE Buffering == {"parse", "predump", "replace_db", "dump", "dumping",
                         "persist_open", "persist"}
<1> SUFFICES ASSUME pc' \in Buffering,
                    NEW f \in Files, f \notin suspect', f \notin toParse'
             PROVE  /\ f \in toPersist' => gbuf'[f] = Due(f)'
                    /\ f \notin toPersist' /\ pc' # "persist" => gbuf'[f] = None
  BY DEF BufferInv
<1> USE DEF Due, repo, db, run, history
<1>1. CASE Load
  <2>1. f \notin suspect /\ f \notin toParse /\ f \notin changed
    BY <1>1 DEF Load, IInv, ShapeInv
  <2> QED
    BY <1>1, <2>1 DEF Load, IInv, LoadInv
<1>2. CASE Structure
  BY <1>2 DEF Structure, Finish
<1>3. CASE \E g \in Files : Parse(g)
  <2>1. PICK g \in Files : Parse(g)
    BY <1>3
  <2>2. CASE f = g
    <3>1. f \in files /\ gbuf'[f] = disk[f] /\ f \in toPersist
      BY <2>1, <2>2 DEF Parse, IInv, ShapeInv, TypeOK, RunTypeOK
    <3> QED
      BY <2>1, <3>1 DEF Parse
  <2>3. CASE f # g
    BY <2>1, <2>3 DEF Parse, IInv, BufferInv, TypeOK, RunTypeOK
  <2> QED
    BY <2>2, <2>3
<1>4. CASE \E g \in Files : ParseFails(g)
  BY <1>4 DEF ParseFails, IInv, BufferInv
<1>5. CASE CutIncremental
  BY <1>5 DEF CutIncremental, IInv, BufferInv
<1>6. CASE Resolved \/ Predump
  BY <1>6 DEF Resolved, Predump, Finish, IInv, BufferInv
<1>7. CASE ReplaceDb \/ DumpOpen \/ DumpFinish
  BY <1>7 DEF ReplaceDb, DumpOpen, DumpFinish, GoTo, IInv, BufferInv
<1>8. CASE DumpFails \/ PersistOpen
  BY <1>8 DEF DumpFails, PersistOpen, GoTo, Finish, IInv, BufferInv
<1>9. CASE \E g \in Files : PersistRow(g)
  BY <1>9 DEF PersistRow, IInv, BufferInv
<1>10. CASE \E g \in Files : Edit(g) \/ Remove(g)
  <2>1. PICK g \in Files : Edit(g) \/ Remove(g)
    BY <1>10
  <2>2. /\ pc' = pc /\ f \notin suspect /\ f \notin toParse
        /\ files' = files /\ toPersist' = toPersist /\ carried' = carried
        /\ gbuf' = gbuf
    BY <2>1 DEF Edit, Remove
  <2>3. f \in files /\ f \in toPersist => disk'[f] = disk[f]
    BY <2>1, <2>2 DEF Edit, Remove, Settled, IInv, TypeOK, RepoTypeOK
  <2> QED
    BY <2>2, <2>3 DEF IInv, BufferInv
<1>11. CASE \/ \E a \in 1..MaxAdr : WriteAdr(a)
            \/ HttpDelete \/ Quarantine \/ Cancel \/ UNCHANGED vars
  BY <1>11 DEF WriteAdr, HttpDelete, Quarantine, Cancel, vars, IInv, BufferInv
<1>12. CASE \/ Discover \/ RouteNoDb \/ RouteIncremental \/ RouteReindex
            \/ DeleteDb \/ Classify \/ AbortFull \/ PersistDone
            \/ DiscoverFails \/ LoadFails \/ Crash
            \/ \E m \in Modes : Start(m)
  BY <1>12 DEF Discover, RouteNoDb, RouteIncremental, RouteReindex, DeleteDb,
     Classify, AbortFull, PersistDone, DiscoverFails, LoadFails, Crash, Start,
     Finish, GoTo
<1> QED
  BY <1>1, <1>2, <1>3, <1>4, <1>5, <1>6, <1>7, <1>8, <1>9, <1>10, <1>11,
     <1>12 DEF Next, Step, Failure, World

\* While rows are written: the dump puts the buffer and no row into the file,
\* then each row names what the buffer holds of its file.
LEMMA PersistStep ==
  ASSUME IInv, [Next]_vars
  PROVE  PersistInv'
<1> SUFFICES ASSUME pc' \in {"persist_open", "persist"}, dbState' = "ok"
             PROVE  /\ dbNodes' = gbuf'
                    /\ pc' = "persist_open" => dbRows' = NoFiles
                    /\ \A f \in Files \ (suspect' \cup toPersist') :
                         dbRows'[f] = gbuf'[f]
  BY DEF PersistInv
<1> USE DEF repo, db, run, history
<1>1. CASE DumpFinish
  <2>1. /\ gbuf' = gbuf /\ suspect' = suspect /\ toPersist' = toPersist
        /\ pc = "dumping" /\ toParse = {}
    BY <1>1 DEF DumpFinish, GoTo, IInv, ShapeInv
  <2>2. dbNodes' = gbuf /\ dbRows' = NoFiles
    BY <1>1, <2>1 DEF DumpFinish, IInv, ShapeInv
  <2> QED
    BY <2>1, <2>2, NoFilesType DEF IInv, BufferInv, None
<1>2. CASE DumpFails
  BY <1>2 DEF DumpFails, GoTo, Finish, IInv, ShapeInv
<1>3. CASE PersistOpen
  BY <1>3, NoFilesType DEF PersistOpen, GoTo, Finish, IInv, PersistInv
<1>4. CASE \E g \in Files : PersistRow(g)
  <2>1. PICK g \in Files : PersistRow(g)
    BY <1>4
  <2>2. /\ pc = "persist" /\ pc' = pc /\ dbState = "ok"
        /\ dbNodes' = dbNodes /\ gbuf' = gbuf /\ suspect' = suspect
        /\ g \in toPersist /\ toPersist' = toPersist \ {g} /\ toParse = {}
        /\ dbRows' = [dbRows EXCEPT ![g] = Due(g)]
    BY <2>1 DEF PersistRow, Due, IInv, ShapeInv
  <2>3. g \notin suspect => gbuf[g] = Due(g)
    BY <2>2 DEF IInv, BufferInv
  <2>4. dbRows \in [Files -> Nat]
    BY DEF IInv, TypeOK, DbTypeOK
  <2>5. ASSUME NEW f \in Files, f \notin suspect', f \notin toPersist'
        PROVE  dbRows'[f] = gbuf'[f]
    BY <2>2, <2>3, <2>4, <2>5 DEF IInv, PersistInv
  <2> QED
    BY <2>2, <2>5 DEF IInv, PersistInv
<1>5. CASE \E g \in Files : Edit(g) \/ Remove(g)
  BY <1>5 DEF Edit, Remove, IInv, PersistInv
<1>6. CASE \/ \E a \in 1..MaxAdr : WriteAdr(a)
           \/ HttpDelete \/ Quarantine \/ Cancel \/ UNCHANGED vars
  BY <1>6 DEF WriteAdr, HttpDelete, Quarantine, Cancel, vars, IInv, PersistInv
<1>7. CASE \/ Discover \/ RouteNoDb \/ RouteIncremental \/ RouteReindex
           \/ DeleteDb \/ Classify \/ Load \/ Structure \/ Resolved \/ AbortFull
           \/ CutIncremental \/ Predump \/ ReplaceDb \/ DumpOpen \/ PersistDone
           \/ DiscoverFails \/ LoadFails \/ Crash
           \/ \E g \in Files : Parse(g) \/ ParseFails(g)
           \/ \E m \in Modes : Start(m)
  BY <1>7 DEF Discover, RouteNoDb, RouteIncremental, RouteReindex, DeleteDb,
     Classify, Load, Structure, Resolved, AbortFull, CutIncremental, Predump,
     ReplaceDb, DumpOpen, PersistDone, Parse, ParseFails, Start,
     DiscoverFails, LoadFails, Crash, Finish, GoTo
<1> QED
  BY <1>1, <1>2, <1>3, <1>4, <1>5, <1>6, <1>7
     DEF Next, Step, Failure, World

\* A run that ends, or dies, between two rows leaves what PersistInv says, and
\* calls suspect the files whose rows were still to be written.
LEMMA RowsStep ==
  ASSUME IInv, [Next]_vars
  PROVE  RowsMatchNodes'
<1> SUFFICES ASSUME dbState' = "ok", pc' \notin {"persist_open", "persist"},
                    NEW f \in Files, f \notin dbSuspect'
             PROVE  dbRows'[f] = dbNodes'[f]
  BY DEF RowsMatchNodes
<1> USE DEF repo, db, run, history
<1>1. CASE PersistDone
  BY <1>1 DEF PersistDone, IInv, PersistInv
<1>2. CASE Crash
  BY <1>2 DEF Crash, IInv, PersistInv, RowsMatchNodes
<1>3. CASE PersistOpen
  BY <1>3 DEF PersistOpen, GoTo, Finish
<1>4. CASE DumpFinish
  BY <1>4 DEF DumpFinish, GoTo
<1>5. CASE DumpFails
  BY <1>5 DEF DumpFails, IInv, RowsMatchNodes
<1>6. CASE \E g \in Files : PersistRow(g)
  BY <1>6 DEF PersistRow
<1>7. CASE DeleteDb \/ ReplaceDb \/ DumpOpen
  BY <1>7 DEF DeleteDb, ReplaceDb, DumpOpen
<1>8. CASE Classify \/ Load
  BY <1>8 DEF Classify, Load, IInv, RowsMatchNodes
<1>9. CASE \/ Discover \/ RouteNoDb \/ RouteIncremental \/ RouteReindex
           \/ Structure \/ Resolved \/ AbortFull \/ CutIncremental \/ Predump
           \/ DiscoverFails \/ LoadFails
           \/ \E g \in Files : Parse(g) \/ ParseFails(g)
  BY <1>9 DEF Discover, RouteNoDb, RouteIncremental, RouteReindex, Structure,
     Resolved, AbortFull, CutIncremental, Predump, DiscoverFails, LoadFails,
     Parse, ParseFails, IInv, RowsMatchNodes
<1>10. CASE World \/ UNCHANGED vars
  BY <1>10 DEF World, Start, Edit, Remove, WriteAdr, HttpDelete, Quarantine,
     Cancel, vars, IInv, RowsMatchNodes
<1> QED
  BY <1>1, <1>2, <1>3, <1>4, <1>5, <1>6, <1>7, <1>8, <1>9, <1>10
     DEF Next, Step, Failure

\* The invariant holds throughout.
LEMMA InvCorrect == Spec => []IInv
<1>1. Init => IInv
  <2>1. Init => TypeOK
    BY InitType
  <2> QED
    BY <2>1, NoFilesType DEF Init, IInv, ShapeInv, LoadInv, BufferInv,
       PersistInv, RowsMatchNodes
<1>2. IInv /\ [Next]_vars => IInv'
  BY TypeStep, ShapeStep, LoadStep, BufferStep, PersistStep, RowsStep DEF IInv
<1> QED
  BY <1>1, <1>2, PTL DEF Spec

\* Every row names the version its file's graph was parsed from, for any set
\* of files, any number of runs, edits, cancellations, deletions and crashes
\* (IndexPipeline!RowsMatchNodes).
THEOREM RowsCorrect == Spec => []RowsMatchNodes
<1>1. IInv => RowsMatchNodes
  BY DEF IInv
<1> QED
  BY <1>1, InvCorrect, PTL

----------------------------------------------------------------------------
(* MergeIsAdditive speaks of the buffer after the load.  A file leaves the  *)
(* buffer when find_deleted_files returns it, and then it was not on disk:  *)
(* missing has it.                                                          *)

MergeInv ==
    /\ changed \subseteq files
    /\ pc = "structure" => route = "full"
    /\ pc \in {"done", "discover"} => changed = {}
    /\ pc # "done" => \A f \in Files : disk[f] = None => f \in missing
    /\ pc = "load" => \A f \in Files \ missing : gbuf[f] # None
    /\ MergeIsAdditive

LEMMA MergeStep ==
  ASSUME IInv, MergeInv, [Next]_vars
  PROVE  MergeInv'
<1> USE DEF MergeInv, repo, db, run, history
<1>t. /\ disk \in [Files -> Nat] /\ gbuf \in [Files -> Version]
      /\ files \subseteq Files /\ toParse \subseteq files
  BY DEF IInv, TypeOK, RepoTypeOK, RunTypeOK, ShapeInv
<1>1. CASE \/ Discover \/ DiscoverFails \/ AbortFull \/ Predump
           \/ PersistDone \/ Crash
  BY <1>1 DEF Discover, DiscoverFails, AbortFull, Predump, PersistDone, Crash,
     Finish, MergeIsAdditive
<1>2. CASE RouteNoDb \/ RouteIncremental \/ RouteReindex \/ DeleteDb
  BY <1>2 DEF RouteNoDb, RouteIncremental, RouteReindex, DeleteDb, GoTo,
     MergeIsAdditive
<1>3. CASE Classify
  <2>1. CASE ChangedFiles = {} /\ DeletedFiles = {}
    BY <1>3, <2>1 DEF Classify, Finish, MergeIsAdditive
  <2>2. CASE ~(ChangedFiles = {} /\ DeletedFiles = {})
    <3>1. /\ pc = "classify" /\ pc' = "load" /\ changed' = ChangedFiles
          /\ gbuf' = [f \in Files |-> IF f \in DeletedFiles
                                      THEN None ELSE Partial]
          /\ UNCHANGED <<files, disk, missing>>
      BY <1>3, <2>2 DEF Classify
    <3>2. ChangedFiles \subseteq files
      BY DEF ChangedFiles
    <3>3. \A f \in DeletedFiles : disk[f] = None
      BY DEF DeletedFiles
    <3>4. \A f \in Files \ missing' : gbuf'[f] # None
      BY <3>1, <3>3 DEF Partial, None
    <3> QED
      BY <3>1, <3>2, <3>4 DEF MergeIsAdditive
  <2> QED
    BY <2>1, <2>2
<1>4. CASE Load
  <2>1. /\ pc = "load" /\ pc' = "parse"
        /\ UNCHANGED <<files, changed, disk, missing, dbNodes>>
        /\ gbuf' = [f \in Files |->
                      IF f \in changed THEN Partial
                      ELSE IF gbuf[f] = None THEN None ELSE dbNodes[f]]
    BY <1>4 DEF Load
  <2>2. ASSUME NEW f \in Files \ missing
        PROVE  IF f \in files THEN dbNodes[f] # None => gbuf'[f] # None
                              ELSE gbuf'[f] = dbNodes[f]
    BY <2>1 DEF Partial, None
  <2> QED
    BY <2>1, <2>2 DEF MergeIsAdditive
<1>5. CASE LoadFails
  BY <1>5 DEF LoadFails, MergeIsAdditive
<1>6. CASE Structure
  <2>1. CASE cancelled
    BY <1>6, <2>1 DEF Structure, Finish, MergeIsAdditive
  <2>2. CASE ~cancelled
    BY <1>6, <2>2 DEF Structure, MergeIsAdditive, IInv, ShapeInv
  <2> QED
    BY <2>1, <2>2
<1>7. CASE \E f \in Files : Parse(f)
  <2>1. PICK f \in Files : Parse(f)
    BY <1>7
  <2>2. /\ pc = "parse" /\ f \in files /\ disk[f] # None
        /\ gbuf' = [gbuf EXCEPT ![f] = disk[f]]
        /\ UNCHANGED <<pc, route, files, changed, disk, missing, dbNodes,
                       dbState>>
    BY <2>1, <1>t DEF Parse
  <2> QED
    BY <2>2, <1>t DEF MergeIsAdditive
<1>8. CASE \E f \in Files : ParseFails(f)
  BY <1>8 DEF ParseFails, MergeIsAdditive
<1>9. CASE Resolved
  BY <1>9 DEF Resolved, MergeIsAdditive
<1>10. CASE CutIncremental
  <2>1. PICK cut \in SUBSET changed :
          gbuf' = [f \in Files |-> IF f \in cut THEN Partial ELSE gbuf[f]]
    BY <1>10 DEF CutIncremental
  <2> QED
    BY <1>10, <2>1 DEF CutIncremental, MergeIsAdditive, Partial, None
<1>11. CASE ReplaceDb \/ DumpOpen \/ DumpFinish \/ DumpFails \/ PersistOpen
  BY <1>11 DEF ReplaceDb, DumpOpen, DumpFinish, DumpFails, PersistOpen, GoTo,
     Finish, MergeIsAdditive
<1>12. CASE \E f \in Files : PersistRow(f)
  BY <1>12 DEF PersistRow, MergeIsAdditive
<1>13. CASE \E m \in Modes : Start(m)
  BY <1>13 DEF Start, MergeIsAdditive
<1>14. CASE \E f \in Files : Edit(f) \/ Remove(f)
  <2>1. PICK f \in Files : Edit(f) \/ Remove(f)
    BY <1>14
  <2>2. UNCHANGED <<db, pc, route, files, changed, gbuf>>
    BY <2>1 DEF Edit, Remove
  <2>3. missing \subseteq missing'
    BY <2>1 DEF Edit, Remove
  <2>4. pc # "done" => \A g \in Files : disk'[g] = None => g \in missing'
    <3>1. CASE Edit(f)
      <4>1. clock + 1 # None
        BY DEF IInv, TypeOK, RepoTypeOK, None
      <4> QED
        BY <3>1, <4>1, <1>t DEF Edit
    <3>2. CASE Remove(f)
      BY <3>2, <1>t DEF Remove
    <3> QED
      BY <2>1, <3>1, <3>2
  <2> QED
    BY <2>2, <2>3, <2>4 DEF MergeIsAdditive
<1>15. CASE \/ \E a \in 1..MaxAdr : WriteAdr(a)
            \/ HttpDelete \/ Quarantine \/ Cancel \/ UNCHANGED vars
  BY <1>15 DEF WriteAdr, HttpDelete, Quarantine, Cancel, vars, MergeIsAdditive
<1> QED
  BY <1>1, <1>2, <1>3, <1>4, <1>5, <1>6, <1>7, <1>8, <1>9, <1>10, <1>11,
     <1>12, <1>13, <1>14, <1>15 DEF Next, Step, Failure, World

\* An incremental run drops no file that stayed on disk, and leaves those it
\* did not visit alone, for any set of files and any history
\* (IndexPipeline!MergeIsAdditive).
THEOREM MergeCorrect == Spec => []MergeIsAdditive
<1>1. Init => MergeInv
  BY DEF Init, MergeInv, MergeIsAdditive
<1>2. IInv /\ MergeInv /\ [Next]_vars => MergeInv'
  BY MergeStep
<1>3. MergeInv => MergeIsAdditive
  BY DEF MergeInv
<1> QED
  BY <1>1, <1>2, <1>3, InvCorrect, PTL DEF Spec

----------------------------------------------------------------------------
(* FullRunKeepsAdr: between the deletion of the old file and the opening of *)
(* the new one the ADR is nowhere but in the run.                           *)

OnlyEdits == disturbed \subseteq {"edit"}

Rebuilding == {"structure", "parse", "predump", "dump", "dumping",
               "persist_open"}

AdrInv ==
    /\ cancelled => "cancel" \in disturbed
    /\ dbState \in {"absent", "corrupt"} => dbAdr = None
    /\ pc \in {"done", "discover", "route"} => savedAdr = None
    /\ pc \in {"classify", "load", "replace_db"} => route # "full"
    /\ pc = "delete_db" => route = "full"
    /\ OnlyEdits /\ pc \in {"discover", "route"} => dbAdr = adrAtStart
    /\ OnlyEdits /\ route = "full" =>
         /\ pc \in {"delete_db"} \cup Rebuilding => savedAdr = adrAtStart
         /\ pc \in Rebuilding => dbAdr = None
         /\ pc = "dumping" => dbState = "corrupt"
         /\ pc = "persist_open" => dbState = "ok"
         /\ pc = "persist" => dbAdr = adrAtStart
    /\ FullRunKeepsAdr

\* What has disturbed a run is not forgotten before the next one starts.
LEMMA DisturbGrows ==
  ASSUME [Next]_vars
  PROVE  \/ pc = "done" /\ pc' = "discover" /\ disturbed' = {}
         \/ disturbed \subseteq disturbed'
<1> USE DEF history
<1>1. CASE \E m \in Modes : Start(m)
  BY <1>1 DEF Start
<1>2. CASE \/ \E f \in Files : Edit(f) \/ Remove(f)
           \/ \E a \in 1..MaxAdr : WriteAdr(a)
           \/ HttpDelete \/ Quarantine \/ Cancel
  BY <1>2 DEF Edit, Remove, WriteAdr, HttpDelete, Quarantine, Cancel, Disturb
<1>3. CASE Failure
  BY <1>3 DEF Failure, DiscoverFails, LoadFails, DumpFails, Crash, Fault
<1>4. CASE \E f \in Files : ParseFails(f)
  <2>1. PICK f \in Files : ParseFails(f)
    BY <1>4
  <2>2. CASE disk[f] = None
    BY <2>1, <2>2 DEF ParseFails
  <2>3. CASE disk[f] # None
    BY <2>1, <2>3 DEF ParseFails, Fault
  <2> QED
    BY <2>2, <2>3
<1>5. CASE \/ Discover \/ RouteNoDb \/ RouteIncremental \/ RouteReindex
           \/ DeleteDb \/ Classify \/ Load \/ Structure \/ Resolved \/ AbortFull
           \/ CutIncremental \/ Predump \/ ReplaceDb \/ DumpOpen
           \/ DumpFinish \/ PersistOpen \/ PersistDone
           \/ \E f \in Files : Parse(f) \/ PersistRow(f)
  BY <1>5 DEF Discover, RouteNoDb, RouteIncremental, RouteReindex,
     DeleteDb, Classify, Load, Structure, Resolved, AbortFull, CutIncremental,
     Predump, ReplaceDb, DumpOpen, DumpFinish, PersistOpen, PersistDone,
     Parse, PersistRow
<1>6. CASE UNCHANGED vars
  BY <1>6 DEF vars
<1> QED
  BY <1>1, <1>2, <1>3, <1>4, <1>5, <1>6 DEF Next, Step, World

LEMMA AdrStep ==
  ASSUME AdrInv, [Next]_vars
  PROVE  AdrInv'
<1> USE DEF AdrInv, OnlyEdits, Rebuilding, FullRunKeepsAdr, repo, db, run,
            history, atStart
<1>1. CASE Discover
  BY <1>1 DEF Discover, Finish
<1>2. CASE RouteNoDb \/ RouteIncremental \/ RouteReindex
  BY <1>2 DEF RouteNoDb, RouteIncremental, RouteReindex, GoTo
<1>3. CASE DeleteDb \/ ReplaceDb \/ DumpOpen
  BY <1>3 DEF DeleteDb, ReplaceDb, DumpOpen, GoTo, NoDb
<1>4. CASE Classify
  BY <1>4 DEF Classify, Finish
<1>5. CASE Load
  BY <1>5 DEF Load
<1>6. CASE Structure
  BY <1>6 DEF Structure, Finish
<1>7. CASE \E f \in Files : Parse(f) \/ PersistRow(f)
  BY <1>7 DEF Parse, PersistRow
<1>8. CASE \E f \in Files : ParseFails(f)
  <2>1. PICK f \in Files : ParseFails(f)
    BY <1>8
  <2>2. /\ UNCHANGED <<db, pc, route, savedAdr, cancelled, rc, adrAtStart>>
        /\ pc = "parse"
    BY <2>1 DEF ParseFails
  <2>3. disturbed \subseteq disturbed'
    BY DisturbGrows, <2>2
  <2> QED
    BY <2>2, <2>3
<1>9. CASE Resolved \/ AbortFull \/ CutIncremental
  BY <1>9 DEF Resolved, AbortFull, CutIncremental, Finish
<1>10. CASE Predump
  BY <1>10 DEF Predump, Finish
<1>11. CASE DumpFinish
  BY <1>11 DEF DumpFinish, GoTo
<1>12. CASE PersistOpen
  BY <1>12 DEF PersistOpen, GoTo, Finish
<1>13. CASE PersistDone
  BY <1>13 DEF PersistDone, Finish
<1>14. CASE DiscoverFails \/ Crash
  BY <1>14 DEF DiscoverFails, Crash, Finish, Fault
<1>15. CASE LoadFails
  BY <1>15 DEF LoadFails, Fault
<1>16. CASE DumpFails
  BY <1>16 DEF DumpFails, Fault, Finish, GoTo
<1>17. CASE \E m \in Modes : Start(m)
  BY <1>17 DEF Start
<1>18. CASE \E f \in Files : Edit(f) \/ Remove(f)
  BY <1>18 DEF Edit, Remove, Disturb
<1>19. CASE \E a \in 1..MaxAdr : WriteAdr(a)
  BY <1>19 DEF WriteAdr, Disturb
<1>20. CASE HttpDelete \/ Quarantine \/ Cancel
  BY <1>20 DEF HttpDelete, Quarantine, Cancel, Disturb, NoDb
<1>21. CASE UNCHANGED vars
  BY <1>21 DEF vars
<1> QED
  BY <1>1, <1>2, <1>3, <1>4, <1>5, <1>6, <1>7, <1>8, <1>9, <1>10, <1>11,
     <1>12, <1>13, <1>14, <1>15, <1>16, <1>17, <1>18, <1>19, <1>20, <1>21
     DEF Next, Step, Failure, World

\* A full reindex that ends well keeps the ADR that was stored when it
\* started, whatever is edited meanwhile (IndexPipeline!FullRunKeepsAdr).
THEOREM AdrKept == Spec => []FullRunKeepsAdr
<1>1. Init => AdrInv
  BY DEF Init, AdrInv, OnlyEdits, Rebuilding, FullRunKeepsAdr
<1>2. AdrInv /\ [Next]_vars => AdrInv'
  BY AdrStep
<1>3. AdrInv => FullRunKeepsAdr
  BY DEF AdrInv
<1> QED
  BY <1>1, <1>2, <1>3, PTL DEF Spec

----------------------------------------------------------------------------
(* QuietRunIsExact: nothing but an ADR being written, the repository and    *)
(* the stored rows stay as they were when the run started, so until it has  *)
(* classified its files the overlooked ones are those of the start; and     *)
(* from then on the buffer is right about every file already parsed and     *)
(* every file that is gone.                                                 *)

Quiet == disturbed \subseteq {"adr"}

Before    == {"discover", "route", "classify"}
Recording == {"parse", "predump", "replace_db", "dump", "dumping",
              "persist_open", "persist"}

\* The files a run is not asked to repair.
Excused == IF route = "full" THEN {} ELSE hidden

QuietInv ==
    /\ cancelled => "cancel" \in disturbed
    /\ Quiet =>
         /\ pc \notin {"done", "discover"} => \A f \in files : disk[f] # None
         /\ pc \in {"classify", "load"} => route = "incremental"
         /\ pc \in {"classify", "persist_open", "persist"} => dbState = "ok"
         /\ pc = "dumping" => dbState = "corrupt"
         /\ pc \in Before => Overlooked \subseteq hidden
         /\ pc = "load" =>
              \A f \in Files \ (hidden \cup toParse) :
                  f \in files \/ disk[f] = None =>
                      (IF gbuf[f] = None THEN None ELSE dbNodes[f]) = disk[f]
         /\ pc \in Recording =>
              \A f \in Files \ (Excused \cup toParse) :
                  f \in files \/ disk[f] = None => gbuf[f] = disk[f]
    /\ QuietRunIsExact

\* A file without a complete database sends a run to the full route.
LEMMA IncrementalNeedsRows ==
  ASSUME FitsIncremental
  PROVE  dbState = "ok"
<1>1. SUFFICES ASSUME dbState # "ok" PROVE FALSE
  OBVIOUS
<1>2. {f \in Files : Stored[f] # None} = {}
  BY <1>1, NoFilesType DEF Stored
<1>3. Cardinality({f \in Files : Stored[f] # None}) = 0
  BY <1>2, FS_EmptySet, Zenon
<1>4. HashCount = 0
  BY <1>3 DEF HashCount
<1> QED
  BY <1>4 DEF FitsIncremental

LEMMA QuietStep ==
  ASSUME IInv, QuietInv, [Next]_vars
  PROVE  QuietInv'
<1> USE DEF QuietInv, Quiet, Before, Recording, Excused, Overlooked,
            QuietRunIsExact, repo, db, run, history, atStart
<1>t. /\ disk \in [Files -> Nat] /\ gbuf \in [Files -> Version]
      /\ files \subseteq Files /\ toPersist \subseteq Files
      /\ dbNodes \in [Files -> Version]
  BY DEF IInv, TypeOK, RepoTypeOK, RunTypeOK, DbTypeOK
<1>1. CASE Discover
  <2>1. CASE cancelled
    BY <1>1, <2>1 DEF Discover, Finish
  <2>2. CASE ~cancelled
    <3>1. \A f \in files' : disk[f] # None
      BY <1>1, <2>2 DEF Discover, Discovered
    <3> QED
      BY <1>1, <2>2, <3>1 DEF Discover
  <2> QED
    BY <2>1, <2>2
<1>2. CASE RouteNoDb \/ RouteReindex
  BY <1>2 DEF RouteNoDb, RouteReindex, GoTo
<1>3. CASE RouteIncremental
  BY <1>3, IncrementalNeedsRows DEF RouteIncremental, GoTo
<1>4. CASE DeleteDb \/ ReplaceDb \/ DumpOpen
  BY <1>4 DEF DeleteDb, ReplaceDb, DumpOpen, GoTo, NoDb
<1>5. CASE Classify
  \* What the rows call current or gone is so, unless it was hidden.
  <2>3. /\ pc = "classify"
        /\ UNCHANGED <<disk, files, dbNodes, dbRows, route, hidden, cancelled,
                       disturbed>>
        /\ dbState = "ok" => dbState' = "ok"
    BY <1>5 DEF Classify, Finish
  <2>4. ASSUME Quiet, NEW f \in Files \ (hidden \cup ChangedFiles),
               f \in files \/ disk[f] = None, f \notin DeletedFiles
        PROVE  dbNodes[f] = disk[f]
    <3>1. dbState = "ok" /\ Stored[f] = dbRows[f] /\ f \notin Overlooked
      BY <2>3, <2>4 DEF Stored
    <3>2. dbRows[f] = disk[f]
      BY <2>4, <3>1 DEF ChangedFiles, DeletedFiles
    <3> QED
      BY <3>1, <3>2
  <2>1. CASE ChangedFiles = {} /\ DeletedFiles = {}
    <3>1. pc' = "done"
      BY <1>5, <2>1 DEF Classify, Finish
    <3> QED
      BY <2>1, <2>3, <2>4, <3>1
  <2>2. CASE ~(ChangedFiles = {} /\ DeletedFiles = {})
    <3>1. /\ pc' = "load" /\ toParse' = ChangedFiles
          /\ gbuf' = [f \in Files |-> IF f \in DeletedFiles
                                      THEN None ELSE Partial]
      BY <1>5, <2>2 DEF Classify
    <3>2. ASSUME Quiet, NEW f \in Files \ (hidden \cup ChangedFiles),
                 f \in files \/ disk[f] = None
          PROVE  (IF gbuf'[f] = None THEN None ELSE dbNodes[f]) = disk[f]
      <4>1. CASE f \in DeletedFiles
        BY <3>1, <4>1 DEF DeletedFiles
      <4>2. CASE f \notin DeletedFiles
        BY <2>4, <3>1, <3>2, <4>2 DEF Partial, None
      <4> QED
        BY <4>1, <4>2
    <3> QED
      BY <2>3, <3>1, <3>2
  <2> QED
    BY <2>1, <2>2
<1>6. CASE Load
  <2>1. /\ pc = "load" /\ pc' = "parse" /\ changed = toParse
        /\ UNCHANGED <<disk, files, toParse, route, hidden, cancelled,
                       disturbed>>
        /\ gbuf' = [f \in Files |->
                      IF f \in changed THEN Partial
                      ELSE IF gbuf[f] = None THEN None ELSE dbNodes[f]]
    BY <1>6 DEF Load, IInv, ShapeInv
  <2> QED
    BY <2>1
<1>7. CASE LoadFails
  BY <1>7 DEF LoadFails, Fault
<1>8. CASE Structure
  BY <1>8 DEF Structure, Finish
<1>9. CASE \E f \in Files : Parse(f)
  <2>1. PICK f \in Files : Parse(f)
    BY <1>9
  <2>2. /\ pc = "parse" /\ pc' = "parse"
        /\ gbuf' = [gbuf EXCEPT ![f] = disk[f]] /\ toParse' = toParse \ {f}
        /\ UNCHANGED <<disk, files, route, hidden, cancelled, disturbed>>
    BY <2>1 DEF Parse
  <2>3. \A g \in Files : gbuf'[g] = IF g = f THEN disk[f] ELSE gbuf[g]
    BY <1>t, <2>2
  <2> QED
    BY <2>2, <2>3
<1>10. CASE \E f \in Files : ParseFails(f)
  <2>1. PICK f \in Files : ParseFails(f)
    BY <1>10
  <2>2. /\ UNCHANGED <<repo, pc, files, gbuf, route, hidden, cancelled, rc>>
        /\ pc = "parse" /\ f \in toParse /\ toParse \subseteq files
        /\ disk[f] = None \/ Fault
    BY <2>1 DEF ParseFails, IInv, ShapeInv
  <2>3. CASE Fault
    BY <2>2, <2>3 DEF Fault
  <2>4. CASE disk[f] = None
    <3>1. ~Quiet
      BY <2>2, <2>4
    <3>2. disturbed \subseteq disturbed'
      BY DisturbGrows, <2>2
    <3> QED
      BY <2>2, <3>1, <3>2
  <2> QED
    BY <2>2, <2>3, <2>4
<1>11. CASE Resolved \/ AbortFull \/ CutIncremental \/ Predump
  BY <1>11 DEF Resolved, AbortFull, CutIncremental, Predump, Finish
<1>12. CASE DumpFinish
  BY <1>12 DEF DumpFinish, GoTo
<1>13. CASE DumpFails
  BY <1>13 DEF DumpFails, Fault, Finish, GoTo
<1>14. CASE PersistOpen
  <2>1. CASE dbState = "corrupt"
    BY <1>14, <2>1 DEF PersistOpen, Finish
  <2>2. CASE dbState # "corrupt"
    <3>1. /\ pc = "persist_open" /\ pc' = "persist"
          /\ UNCHANGED <<disk, files, toParse, gbuf, route, hidden, cancelled,
                         disturbed>>
          /\ dbState = "ok" => dbState' = "ok"
      BY <1>14, <2>2 DEF PersistOpen, GoTo
    <3> QED
      BY <3>1
  <2> QED
    BY <2>1, <2>2
<1>15. CASE \E f \in Files : PersistRow(f)
  BY <1>15 DEF PersistRow
<1>16. CASE PersistDone
  <2>1. /\ pc = "persist" /\ pc' = "done" /\ toParse = {}
        /\ UNCHANGED <<disk, files, dbState, dbNodes, route, hidden, cancelled,
                       disturbed>>
        /\ dbState = "ok" => dbNodes = gbuf
    BY <1>16 DEF PersistDone, Finish, IInv, ShapeInv, PersistInv
  <2> QED
    BY <2>1
<1>17. CASE DiscoverFails \/ Crash
  BY <1>17 DEF DiscoverFails, Crash, Finish, Fault
<1>18. CASE \E m \in Modes : Start(m)
  BY <1>18 DEF Start
<1>19. CASE \E f \in Files : Edit(f) \/ Remove(f)
  BY <1>19 DEF Edit, Remove, Disturb
<1>20. CASE \E a \in 1..MaxAdr : WriteAdr(a)
  BY <1>20 DEF WriteAdr, Disturb
<1>21. CASE HttpDelete \/ Quarantine \/ Cancel
  BY <1>21 DEF HttpDelete, Quarantine, Cancel, Disturb, NoDb
<1>22. CASE UNCHANGED vars
  BY <1>22 DEF vars
<1> QED
  BY <1>1, <1>2, <1>3, <1>4, <1>5, <1>6, <1>7, <1>8, <1>9, <1>10, <1>11,
     <1>12, <1>13, <1>14, <1>15, <1>16, <1>17, <1>18, <1>19, <1>20, <1>21,
     <1>22 DEF Next, Step, Failure, World

\* A run that ends well and that nothing but an ADR being written interfered
\* with leaves the graph of every file it visited or found gone as the
\* repository has it: a full run whatever database it met, an incremental one
\* but for the files whose rows already agreed with the disk when it started
\* although their graph did not (IndexPipeline!QuietRunIsExact).
THEOREM QuietRunsAreExact == Spec => []QuietRunIsExact
<1>1. Init => QuietInv
  BY DEF Init, QuietInv, Quiet, Before, Recording, Excused, QuietRunIsExact
<1>2. IInv /\ QuietInv /\ [Next]_vars => QuietInv'
  BY QuietStep
<1>3. QuietInv => QuietRunIsExact
  BY DEF QuietInv
<1> QED
  BY <1>1, <1>2, <1>3, InvCorrect, PTL DEF Spec
=============================================================================
