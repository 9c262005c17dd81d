--------------------------- MODULE WatcherProofs ---------------------------
(***************************************************************************)
(* Proofs about Watcher, for any projects, versions and bounds.            *)
(***************************************************************************)
EXTENDS Watcher, TLAPS

\* While a project is polled its state is an allocated one.
LEMMA CurrentType ==
  ASSUME TypeOK, wpc \notin {"sleep", "pick", "ended"}
  PROVE  /\ cur \in 1..allocated
         /\ Current \in Projects
         /\ states[cur].git \in BOOLEAN
         /\ states[cur].lastHead \in {Unknown} \cup Versions
BY DEF TypeOK, ThreadTypeOK, ListTypeOK, Current, None

\* The repositories and the index hold versions that were written.
LEMMA RepoTypeStep ==
  ASSUME TypeOK, [Next]_vars
  PROVE  RepoTypeOK'
<1> USE BoundsAssumption DEF TypeOK, RepoTypeOK, repos, Versions, None
<1>1. CASE RunReads
  BY <1>1, CurrentType DEF RunReads
<1>2. CASE WatcherStep /\ ~RunReads
  BY <1>2 DEF WatcherStep, PollOnce, Ends, PollEnds, PollProject, Baseline,
     ReadHead, ReadDirty, ReadClean, IndexSkipped, IndexStarts, RunEnds,
     Reread
<1>3. CASE RunFails
  <2>1. PICK v \in {None, indexed[Current]} :
                indexed' = [indexed EXCEPT ![Current] = v]
    BY <1>3 DEF RunFails
  <2>2. Current \in Projects /\ UNCHANGED repos
    BY <1>3, CurrentType DEF RunFails
  <2>3. v \in Versions
    BY <2>2
  <2> QED
    BY <2>1, <2>2, <2>3
<1>4. CASE Failure /\ ~RunFails
  BY <1>4 DEF Failure, BaselineFails, ReadHeadFails, ReadDirtyFails,
     RereadFails
<1>5. CASE Others
  BY <1>5 DEF Others, Watch, Unwatch, OtherReads, OtherStarts, OtherEnds,
     Shutdown, Stop
<1>6. CASE Repository
  <2>1. PICK p \in Projects : \/ Edit(p) \/ Commit(p) \/ Revert(p)
                              \/ \E v \in 1..clock : Checkout(p, v)
    BY <1>6 DEF Repository
  <2>2. CASE Edit(p)
    BY <2>2 DEF Edit
  <2>3. CASE Commit(p) \/ Revert(p)
    BY <2>3 DEF Commit, Revert
  <2>4. CASE \E v \in 1..clock : Checkout(p, v)
    BY <2>4 DEF Checkout
  <2> QED
    BY <2>1, <2>2, <2>3, <2>4
<1>7. CASE \E p \in Projects : Due(p)
  BY <1>7 DEF Due
<1>8. CASE UNCHANGED vars
  BY <1>8 DEF vars
<1> QED
  BY <1>1, <1>2, <1>3, <1>4, <1>5, <1>6, <1>7, <1>8 DEF Next, WatcherStep,
     Failure

\* Failures are counted up to their bound.
LEMMA FaultType ==
  ASSUME TypeOK, Fault
  PROVE  faults' \in 0..MaxFaults
BY BoundsAssumption DEF TypeOK, LockTypeOK, Fault

\* The lock, the flags and the history.
LEMMA LockTypeStep ==
  ASSUME TypeOK, [Next]_vars
  PROVE  LockTypeOK'
<1> USE DEF TypeOK, LockTypeOK, LockedBy, flags
<1>1. CASE PollOnce \/ Ends \/ PollEnds \/ \E s \in States : PollProject(s)
  BY <1>1 DEF PollOnce, Ends, PollEnds, PollProject
<1> DEFINE InPoll == wpc \notin {"sleep", "pick", "ended"}
<1>10. ASSUME NEW p \in Projects, NEW r \in Reasons, Excuse(p, r)
       PROVE  excuse' \in [Projects -> SUBSET Reasons]
  BY <1>10 DEF Excuse
<1>2. CASE Baseline \/ IndexSkipped \/ RunReads
  <2>1. InPoll
    BY <1>2 DEF Baseline, IndexSkipped, RunReads
  <2>2. Current \in Projects
    BY <2>1, CurrentType
  <2>3. CASE Baseline
    BY <2>2, <2>3, <1>10 DEF Baseline, Reasons
  <2>4. CASE IndexSkipped
    BY <2>2, <2>4, <1>10 DEF IndexSkipped, Reasons
  <2>5. CASE RunReads
    BY <2>2, <2>5 DEF RunReads
  <2> QED
    BY <1>2, <2>3, <2>4, <2>5
<1>3. CASE ReadHead \/ ReadDirty \/ ReadClean \/ IndexStarts \/ RunEnds \/ Reread
  BY <1>3 DEF ReadHead, ReadDirty, ReadClean, IndexStarts, RunEnds, Reread
<1>4. CASE BaselineFails \/ ReadHeadFails \/ RunFails
  <2>1. InPoll
    BY <1>4 DEF BaselineFails, ReadHeadFails, RunFails
  <2>2. Current \in Projects
    BY <2>1, CurrentType
  <2>3. faults' \in 0..MaxFaults
    BY <1>4, FaultType DEF BaselineFails, ReadHeadFails, RunFails
  <2>4. CASE BaselineFails
    BY <2>2, <2>3, <2>4, <1>10 DEF BaselineFails, Reasons
  <2>5. CASE ReadHeadFails
    BY <2>2, <2>3, <2>5, <1>10 DEF ReadHeadFails, Reasons
  <2>6. CASE RunFails
    BY <2>2, <2>3, <2>6, <1>10 DEF RunFails, Reasons
  <2> QED
    BY <1>4, <2>4, <2>5, <2>6
<1>5. CASE ReadDirtyFails \/ RereadFails
  BY <1>5, FaultType DEF ReadDirtyFails, RereadFails
<1>6. CASE Others
  <2>1. CASE OtherStarts
    BY <2>1, BoundsAssumption DEF OtherStarts
  <2>2. CASE \E p \in Projects : OtherReads(p)
    BY <2>2 DEF OtherReads
  <2>3. CASE \E p \in Projects : Watch(p) \/ Unwatch(p)
    BY <2>3 DEF Watch, Unwatch
  <2>4. CASE OtherEnds \/ Shutdown \/ Stop
    BY <2>4 DEF OtherEnds, Shutdown, Stop
  <2> QED
    BY <1>6, <2>1, <2>2, <2>3, <2>4 DEF Others
<1>7. CASE Repository
  <2>1. PICK p \in Projects : \/ Edit(p) \/ Commit(p) \/ Revert(p)
                              \/ \E v \in 1..clock : Checkout(p, v)
    BY <1>7 DEF Repository
  <2>2. CASE Edit(p) \/ Revert(p)
    BY <2>2 DEF Edit, Revert, Excuse, Reasons
  <2>3. ASSUME NEW v, Moved(p, v)
        PROVE  excuse' \in [Projects -> SUBSET Reasons]
    BY <2>3 DEF Moved, Reasons
  <2>4. CASE Commit(p)
    BY <2>3, <2>4 DEF Commit
  <2>5. CASE \E v \in 1..clock : Checkout(p, v)
    BY <2>3, <2>5 DEF Checkout
  <2> QED
    BY <2>1, <2>2, <2>4, <2>5
<1>8. CASE \E p \in Projects : Due(p)
  BY <1>8 DEF Due
<1>9. CASE UNCHANGED vars
  BY <1>9 DEF vars
<1> QED
  BY <1>1, <1>2, <1>3, <1>4, <1>5, <1>6, <1>7, <1>8, <1>9 DEF Next,
     WatcherStep, Failure

\* A poll that ends leaves a state of the same project.
LEMMA PolledType ==
  ASSUME TypeOK, wpc \notin {"sleep", "pick", "ended"}, Versions' = Versions,
         NEW isGit \in BOOLEAN, NEW head \in {Unknown} \cup Versions,
         Polled(isGit, head)
  PROVE  ListTypeOK' /\ ThreadTypeOK'
<1> DEFINE new == [project |-> Current, git |-> isGit, baseline |-> TRUE,
                   lastHead |-> head, due |-> FALSE]
<1>1. /\ cur \in 1..allocated /\ Current = states[cur].project
      /\ Current \in Projects
  BY CurrentType DEF Current
<1>2. new \in [project : Projects, git : BOOLEAN, baseline : BOOLEAN,
               lastHead : {Unknown} \cup Versions, due : BOOLEAN]
  BY <1>1
<1>3. /\ states' = [states EXCEPT ![cur] = new] /\ new.project = Current
      /\ UNCHANGED <<table, allocated, todo>> /\ wpc' = "pick" /\ cur' = None
  BY DEF Polled
<1>4. ListTypeOK'
  <2> HIDE DEF new
  <2> QED
    BY <1>1, <1>2, <1>3 DEF TypeOK, ListTypeOK
<1>5. ThreadTypeOK'
  BY <1>3 DEF TypeOK, ListTypeOK, ThreadTypeOK, PCs, None
<1> QED
  BY <1>4, <1>5

\* The watch list and the watcher's pointers into it.
LEMMA ListTypeStep ==
  ASSUME TypeOK, [Next]_vars
  PROVE  ListTypeOK' /\ ThreadTypeOK'
<1> DEFINE InPoll == wpc \notin {"sleep", "pick", "ended"}
<1> DEFINE Types == ListTypeOK' /\ ThreadTypeOK'
<1>1. ASSUME UNCHANGED list, UNCHANGED clock, ThreadTypeOK'
      PROVE  Types
  BY <1>1 DEF TypeOK, ListTypeOK, list, Versions
<1>2. ASSUME UNCHANGED list, UNCHANGED clock, UNCHANGED thread
      PROVE  Types
  BY <1>1, <1>2 DEF TypeOK, ThreadTypeOK, thread, list
<1>3. ASSUME UNCHANGED list, UNCHANGED clock, UNCHANGED <<todo, cur>>,
             InPoll, wpc' \in PCs, wpc' \notin {"sleep", "pick", "ended"}
      PROVE  Types
  BY <1>1, <1>3 DEF TypeOK, ThreadTypeOK, list
<1>4. CASE PollOnce
  <2>1. Live \subseteq 1..allocated
    BY DEF TypeOK, ListTypeOK, Live, None
  <2> QED
    BY <1>1, <1>4, <2>1
    DEF PollOnce, TypeOK, ThreadTypeOK, list, repos, PCs
<1>5. CASE Ends \/ PollEnds
  BY <1>1, <1>5
  DEF Ends, PollEnds, TypeOK, ThreadTypeOK, list, repos, PCs
<1>6. CASE \E s \in States : PollProject(s)
  <2>1. PICK s \in States : PollProject(s)
    BY <1>6
  <2>2. /\ s \in 1..allocated /\ todo' \subseteq 1..allocated
        /\ UNCHANGED list /\ UNCHANGED clock
    BY <2>1 DEF PollProject, TypeOK, ThreadTypeOK, repos
  <2>3. /\ wpc' \in {"baseline", "head", "pick"}
        /\ cur' = IF wpc' = "pick" THEN None ELSE s
    BY <2>1 DEF PollProject
  <2>4. cur' \in 0..allocated /\ (cur' = None <=> wpc' = "pick")
    BY <2>2, <2>3 DEF None, TypeOK, ListTypeOK
  <2> QED
    BY <1>1, <2>2, <2>3, <2>4 DEF ThreadTypeOK, list, PCs
<1>7. CASE Baseline
  <2>1. InPoll /\ Versions' = Versions
    BY <1>7 DEF Baseline, repos, Versions
  <2>2. commit[Current] \in Versions
    BY <2>1, CurrentType DEF TypeOK, RepoTypeOK
  <2> QED
    BY <1>7, <2>1, <2>2, CurrentType, PolledType DEF Baseline
<1>8. CASE BaselineFails
  <2>1. InPoll /\ Versions' = Versions
    BY <1>8 DEF BaselineFails, repos, Versions
  <2> QED
    BY <1>8, <2>1, CurrentType, PolledType DEF BaselineFails
<1>9. CASE ReadHead
  <2>1. InPoll /\ commit[Current] \in Versions /\ cur \in 1..allocated
    BY <1>9, CurrentType DEF ReadHead, TypeOK, RepoTypeOK
  <2>2. /\ states' = [states EXCEPT ![cur].lastHead = commit[Current]]
        /\ UNCHANGED <<table, allocated, todo, cur, clock>>
        /\ wpc' \in {"index", "dirty"}
    BY <1>9 DEF ReadHead, repos
  <2>3. ListTypeOK'
    BY <2>1, <2>2 DEF TypeOK, ListTypeOK, Versions
  <2>4. ThreadTypeOK'
    BY <2>1, <2>2 DEF TypeOK, ThreadTypeOK, PCs
  <2> QED
    BY <2>3, <2>4
<1>10. CASE ReadHeadFails \/ ReadDirty \/ IndexSkipped \/ IndexStarts
            \/ RunReads \/ RunEnds
  BY <1>3, <1>10 DEF ReadHeadFails, ReadDirty, IndexSkipped, IndexStarts,
     RunReads, RunEnds, repos, PCs
<1>11. CASE ReadClean \/ ReadDirtyFails \/ RunFails \/ RereadFails
  <2>1. InPoll /\ Versions' = Versions /\ PolledAsBefore
    BY <1>11 DEF ReadClean, ReadDirtyFails, RunFails, RereadFails, repos,
       Versions
  <2> QED
    BY <2>1, CurrentType, PolledType DEF PolledAsBefore
<1>12. CASE Reread
  <2>1. InPoll /\ Versions' = Versions
    BY <1>12 DEF Reread, repos, Versions
  <2>2. commit[Current] \in Versions
    BY <2>1, CurrentType DEF TypeOK, RepoTypeOK
  <2> QED
    BY <1>12, <2>1, <2>2, CurrentType, PolledType DEF Reread
<1>13. CASE \E p \in Projects : Watch(p)
  <2>1. PICK p \in Projects : Watch(p)
    BY <1>13
  <2> DEFINE new == [project |-> p, git |-> FALSE, baseline |-> FALSE,
                     lastHead |-> Unknown, due |-> TRUE]
  <2>2. new \in [project : Projects, git : BOOLEAN, baseline : BOOLEAN,
                 lastHead : {Unknown} \cup Versions, due : BOOLEAN]
    OBVIOUS
  <2>3. /\ allocated' = allocated + 1 /\ allocated' \in 1..MaxStates
        /\ states' = [s \in 1..allocated' |->
                        IF s = allocated' THEN new ELSE states[s]]
        /\ table' = [table EXCEPT ![p] = allocated']
        /\ UNCHANGED <<thread, clock>> /\ new.project = p
    BY <2>1, BoundsAssumption DEF Watch, TypeOK, ListTypeOK, repos
  <2>4. ListTypeOK'
    <3> HIDE DEF new
    <3>1. states' \in [1..allocated' ->
            [project : Projects, git : BOOLEAN, baseline : BOOLEAN,
             lastHead : {Unknown} \cup Versions, due : BOOLEAN]]
      BY <2>2, <2>3 DEF TypeOK, ListTypeOK
    <3>2. \A q \in Projects : table'[q] # None => states'[table'[q]].project = q
      <4> TAKE q \in Projects
      <4> HAVE table'[q] # None
      <4>1. CASE q = p
        BY <2>3, <4>1 DEF TypeOK, ListTypeOK
      <4>2. CASE q # p
        <5>1. table'[q] = table[q] /\ table[q] \in 1..allocated
          BY <2>3, <4>2 DEF TypeOK, ListTypeOK, None
        <5>2. states'[table[q]] = states[table[q]]
          BY <2>3, <5>1 DEF TypeOK, ListTypeOK
        <5> QED
          BY <5>1, <5>2 DEF TypeOK, ListTypeOK
      <4> QED
        BY <4>1, <4>2
    <3>3. /\ allocated' \in 0..MaxStates /\ Versions' = Versions
          /\ table' \in [Projects -> 0..allocated']
      BY <2>3 DEF TypeOK, ListTypeOK, Versions
    <3> QED
      BY <3>1, <3>2, <3>3 DEF ListTypeOK
  <2>5. ThreadTypeOK'
    BY <2>3 DEF TypeOK, ListTypeOK, ThreadTypeOK, thread
  <2> QED
    BY <2>4, <2>5
<1>14. CASE \E p \in Projects : Unwatch(p)
  BY <1>14 DEF Unwatch, TypeOK, ListTypeOK, ThreadTypeOK, thread, repos,
     Versions, None
<1>15. CASE \E p \in Projects : Due(p)
  <2>1. PICK p \in Projects : Due(p)
    BY <1>15
  <2>2. /\ table[p] \in 1..allocated
        /\ states' = [states EXCEPT ![table[p]].due = TRUE]
        /\ UNCHANGED <<table, allocated, thread, clock>>
    BY <2>1 DEF Due, TypeOK, ListTypeOK, None, repos
  <2>3. Versions' = Versions /\ ThreadTypeOK'
    BY <2>2 DEF TypeOK, ThreadTypeOK, thread, Versions
  <2>4. states' \in [1..allocated ->
            [project : Projects, git : BOOLEAN, baseline : BOOLEAN,
             lastHead : {Unknown} \cup Versions, due : BOOLEAN]]
    BY <2>2 DEF TypeOK, ListTypeOK
  <2>5. \A s \in 1..allocated : states'[s].project = states[s].project
    BY <2>2 DEF TypeOK, ListTypeOK
  <2>6. \A q \in Projects : table[q] # None => table[q] \in 1..allocated
    BY DEF TypeOK, ListTypeOK, None
  <2> QED
    BY <2>2, <2>3, <2>4, <2>5, <2>6 DEF TypeOK, ListTypeOK
<1>16. CASE \E p \in Projects : OtherReads(p)
  BY <1>2, <1>16 DEF OtherReads, repos
<1>17. CASE OtherStarts \/ OtherEnds \/ Shutdown \/ Stop
  BY <1>2, <1>17 DEF OtherStarts, OtherEnds, Shutdown, Stop, repos
<1>18. CASE Repository
  <2>1. PICK p \in Projects : \/ Edit(p) \/ Commit(p) \/ Revert(p)
                              \/ \E v \in 1..clock : Checkout(p, v)
    BY <1>18 DEF Repository
  <2>2. CASE Commit(p) \/ Revert(p) \/ \E v \in 1..clock : Checkout(p, v)
    BY <1>2, <2>2 DEF Commit, Revert, Checkout
  <2>3. CASE Edit(p)
    <3>1. UNCHANGED <<list, thread>> /\ Versions \subseteq Versions'
      BY <2>3, BoundsAssumption DEF Edit, Versions, TypeOK, RepoTypeOK
    <3> QED
      BY <3>1 DEF TypeOK, ListTypeOK, ThreadTypeOK, list, thread
  <2> QED
    BY <2>1, <2>2, <2>3
<1>19. CASE UNCHANGED vars
  BY <1>2, <1>19 DEF vars, repos
<1> QED
  BY <1>4, <1>5, <1>6, <1>7, <1>8, <1>9, <1>10, <1>11, <1>12, <1>13, <1>14,
     <1>15, <1>16, <1>17, <1>18, <1>19
  DEF Next, WatcherStep, Failure, Others

LEMMA InitType ==
  ASSUME Init
  PROVE  TypeOK
<1>1. RepoTypeOK
  BY BoundsAssumption DEF Init, RepoTypeOK, Versions, None
<1>2. LockTypeOK
  <2>1. excuse \in [Projects -> SUBSET Reasons]
    BY DEF Init
  <2>2. 0 \in 0..MaxOthers /\ 0 \in 0..MaxFaults
    BY BoundsAssumption
  <2> QED
    BY <2>1, <2>2 DEF Init, LockTypeOK, LockedBy
<1>3. ListTypeOK
  <2>1. /\ states \in [1..0 ->
            [project : Projects, git : BOOLEAN, baseline : BOOLEAN,
             lastHead : {Unknown} \cup Versions, due : BOOLEAN]]
    BY DEF Init
  <2> QED
    BY <2>1, BoundsAssumption DEF Init, ListTypeOK, None
<1>4. ThreadTypeOK
  BY DEF Init, ThreadTypeOK, PCs, None
<1> QED
  BY <1>1, <1>2, <1>3, <1>4 DEF TypeOK

\* The watcher's variables keep their types, and its pointers lead to
\* allocated states, freed or not.
THEOREM TypeCorrect == Spec => []TypeOK
<1>1. TypeOK /\ [Next]_vars => TypeOK'
  BY RepoTypeStep, LockTypeStep, ListTypeStep DEF TypeOK
<1> QED
  BY InitType, <1>1, PTL DEF Spec

----------------------------------------------------------------------------
(* Nothing is forgotten: the invariant holds in the middle of a poll too.   *)

Fresh(p) == indexed[p] = work[p]

\* The poll going on has decided to index p and has not been refused.
Pending(p) == cur = table[p] /\ wpc \in {"index", "run"}

\* The run of p is over, but HEAD is to be read once more: what HEAD did
\* meanwhile will not be noticed any more.
Overlooking(p) == cur = table[p] /\ wpc \in {"ran", "reread"}

Kept(p) ==
    (Tracked(p) /\ excuse[p] = {}) =>
        \/ Fresh(p) \/ Dirty(p)
        \/ ~Overlooking(p) /\ (HeadMoved(table[p]) \/ Pending(p))

\* A state is asked for changes only after its baseline, and with git.
PollInv ==
    wpc \in {"head", "dirty", "index", "run", "ran", "reread"}
        => states[cur].baseline /\ states[cur].git

IInv == PollInv /\ \A p \in Projects : Kept(p)

LEMMA PollStep ==
  ASSUME TypeOK, PollInv, [Next]_vars
  PROVE  PollInv'
<1> DEFINE Asked == {"head", "dirty", "index", "run", "ran", "reread"}
<1> SUFFICES ASSUME wpc' \in Asked
             PROVE  states'[cur'].baseline /\ states'[cur'].git
  BY DEF PollInv
<1>1. ASSUME UNCHANGED <<states, cur>>, wpc \in Asked
      PROVE  states'[cur'].baseline /\ states'[cur'].git
  BY <1>1 DEF PollInv
<1>2. ASSUME wpc \in Asked
      PROVE  cur \in 1..allocated /\ states[cur].baseline /\ states[cur].git
  BY <1>2, CurrentType DEF PollInv
<1>3. CASE \E s \in States : PollProject(s)
  BY <1>3 DEF PollProject, list
<1>4. CASE ReadHead
  BY <1>2, <1>4 DEF ReadHead, TypeOK, ListTypeOK
<1>5. CASE \E p \in Projects : Watch(p)
  BY <1>2, <1>5 DEF Watch, thread, TypeOK, ListTypeOK
<1>6. CASE \E p \in Projects : Due(p)
  <2>1. PICK p \in Projects : Due(p)
    BY <1>6
  <2>2. /\ states' = [states EXCEPT ![table[p]].due = TRUE]
        /\ table[p] \in 1..allocated /\ UNCHANGED <<wpc, cur>>
    BY <2>1 DEF Due, thread, TypeOK, ListTypeOK, None
  <2> QED
    BY <1>2, <2>2 DEF TypeOK, ListTypeOK
<1>7. CASE ReadDirty \/ IndexSkipped \/ IndexStarts \/ RunReads \/ RunEnds
  BY <1>1, <1>7 DEF ReadDirty, IndexSkipped, IndexStarts, RunReads, RunEnds,
     list
<1>8. CASE ReadHeadFails
  BY <1>1, <1>8 DEF ReadHeadFails, list
<1>9. CASE \/ PollOnce \/ Ends \/ PollEnds \/ Baseline \/ BaselineFails
           \/ ReadClean \/ ReadDirtyFails \/ RunFails \/ Reread \/ RereadFails
  BY <1>9 DEF PollOnce, Ends, PollEnds, Baseline, BaselineFails, ReadClean,
     ReadDirtyFails, RunFails, Reread, RereadFails, PolledAsBefore, Polled
<1>10. CASE \/ \E p \in Projects : Unwatch(p) \/ OtherReads(p)
            \/ OtherStarts \/ OtherEnds \/ Shutdown \/ Stop
  BY <1>1, <1>10 DEF Unwatch, OtherReads, OtherStarts, OtherEnds, Shutdown,
     Stop, list, thread
<1>11. CASE Repository \/ UNCHANGED vars
  BY <1>1, <1>11 DEF Repository, Edit, Commit, Revert, Checkout, vars, list,
     thread
<1> QED
  BY <1>3, <1>4, <1>5, <1>6, <1>7, <1>8, <1>9, <1>10, <1>11
  DEF Next, WatcherStep, Failure, Others

\* What a state that is not the polled one says is not disturbed by a poll.
LEMMA OtherState ==
  ASSUME TypeOK, NEW p \in Projects, table[p] # None
  PROVE  /\ table[p] \in 1..allocated
         /\ states[table[p]].project = p
         /\ cur = table[p] => Current = p
BY DEF TypeOK, ListTypeOK, Current, None

\* The thread moves on without having learnt anything.
LEMMA KeptMoveOn ==
  ASSUME TypeOK, NEW p \in Projects, Kept(p),
         \/ PollOnce \/ Ends \/ PollEnds \/ ReadDirty \/ IndexStarts \/ RunEnds
         \/ \E s \in States : PollProject(s)
  PROVE  Kept(p)'
<1>1. UNCHANGED <<repos, indexed, list, excuse>>
  BY DEF PollOnce, Ends, PollEnds, ReadDirty, IndexStarts, RunEnds,
     PollProject
<1>2. Pending(p) => Pending(p)'
  BY <1>1 DEF PollOnce, Ends, PollEnds, ReadDirty, IndexStarts, RunEnds,
     PollProject, Pending, list
<1>3. table[p] # None /\ Overlooking(p)' => Overlooking(p)
  BY <1>1 DEF PollOnce, Ends, PollEnds, ReadDirty, IndexStarts, RunEnds,
     PollProject, Overlooking, list
<1> QED
  BY <1>1, <1>2, <1>3 DEF Kept, Tracked, Fresh, Dirty, HeadMoved, repos,
     list

\* A git call fails or the run is skipped: the project is excused.
LEMMA KeptExcused ==
  ASSUME TypeOK, NEW p \in Projects, Kept(p), ReadHeadFails \/ IndexSkipped
  PROVE  Kept(p)'
<1>1. /\ UNCHANGED <<repos, indexed, list, cur>>
      /\ Current \in Projects
      /\ excuse'[Current] # {} /\ \A q \in Projects \ {Current} :
                                    excuse'[q] = excuse[q]
  BY CurrentType DEF ReadHeadFails, IndexSkipped, Excuse, TypeOK, LockTypeOK
<1>2. CASE Current = p
  BY <1>1, <1>2 DEF Kept
<1>3. CASE Current # p
  BY <1>1, <1>3, OtherState DEF Kept, Tracked, Fresh, Dirty, HeadMoved, repos,
     list, Pending, Overlooking
<1> QED
  BY <1>2, <1>3

\* A poll ends with what it found: the states of other projects are not
\* touched, and the polled one keeps what it knew or learns HEAD.
LEMMA KeptPolled ==
  ASSUME TypeOK, PollInv, NEW p \in Projects, Kept(p),
         \/ Baseline \/ BaselineFails \/ ReadClean \/ ReadDirtyFails
         \/ RunFails \/ Reread \/ RereadFails
  PROVE  Kept(p)'
<1>1. /\ wpc \notin {"sleep", "pick", "ended"}
      /\ UNCHANGED <<repos, table>> /\ wpc' = "pick"
      /\ \E g, h : Polled(g, h)
  BY DEF Baseline, BaselineFails, ReadClean, ReadDirtyFails, RunFails, Reread,
     RereadFails, PolledAsBefore, Polled
<1>2. cur \in 1..allocated /\ Current \in Projects
  BY <1>1, CurrentType
<1>3. ~Overlooking(p)'
  BY <1>1 DEF Overlooking
<1>4. CASE table[p] = None
  BY <1>1, <1>4 DEF Kept, Tracked
<1>5. CASE table[p] # None /\ table[p] # cur
  <2>1. states'[table[p]] = states[table[p]]
    BY <1>1, <1>2, <1>5, OtherState DEF Polled, TypeOK, ListTypeOK
  <2>2. excuse'[p] = {} => excuse[p] = {} /\ (Fresh(p) => Fresh(p)')
    BY <1>1, <1>2
    DEF Baseline, BaselineFails, ReadClean, ReadDirtyFails, RunFails, Reread,
        RereadFails, Excuse, TypeOK, LockTypeOK, RepoTypeOK, Fresh, repos
  <2>3. ~Pending(p)
    BY <1>5 DEF Pending
  <2> QED
    BY <1>1, <1>3, <2>1, <2>2, <2>3
    DEF Kept, Tracked, Dirty, HeadMoved, repos
<1>6. CASE table[p] # None /\ table[p] = cur
  <2>1. Current = p
    BY <1>6, OtherState
  <2>2. CASE BaselineFails \/ RunFails
    BY <2>1, <2>2 DEF BaselineFails, RunFails, Excuse, TypeOK, LockTypeOK,
       Kept
  <2>3. CASE Baseline
    <3>1. Fresh(p) \/ excuse'[p] # {}
      BY <2>1, <2>3 DEF Baseline, Excuse, Fresh, TypeOK, LockTypeOK
    <3>2. Fresh(p) => Fresh(p)'
      BY <2>3 DEF Baseline, Fresh, repos
    <3> QED
      BY <3>1, <3>2 DEF Kept
  <2>4. CASE ReadClean \/ ReadDirtyFails
    <3>1. /\ UNCHANGED <<repos, indexed, excuse>> /\ PolledAsBefore
          /\ wpc = "dirty"
      BY <2>4 DEF ReadClean, ReadDirtyFails
    <3>2. /\ states'[cur].lastHead = states[cur].lastHead
          /\ states'[cur].project = states[cur].project
          /\ states'[cur].git = states[cur].git
      BY <1>2, <3>1 DEF PolledAsBefore, Polled, TypeOK, ListTypeOK, Current
    <3>3. ~Pending(p)
      BY <3>1 DEF Pending
    <3>4. states[cur].baseline
      BY <3>1 DEF PollInv
    <3> QED
      BY <1>1, <1>3, <1>6, <3>1, <3>2, <3>3, <3>4
      DEF Kept, Tracked, Fresh, Dirty, HeadMoved, repos
  <2>5. CASE Reread \/ RereadFails
    <3>1. /\ UNCHANGED <<repos, indexed, excuse>> /\ wpc = "reread"
      BY <2>5 DEF Reread, RereadFails
    <3>2. states[cur].baseline /\ states[cur].git /\ Overlooking(p)
      BY <1>6, <3>1 DEF PollInv, Overlooking
    <3> QED
      BY <1>1, <1>3, <1>6, <3>1, <3>2
      DEF Kept, Tracked, Fresh, Dirty, repos
  <2> QED
    BY <2>2, <2>3, <2>4, <2>5
<1> QED
  BY <1>4, <1>5, <1>6

\* HEAD is read and stored: where it moved the project is indexed next.
LEMMA KeptReadHead ==
  ASSUME TypeOK, NEW p \in Projects, Kept(p), ReadHead
  PROVE  Kept(p)'
<1>1. /\ UNCHANGED <<repos, indexed, excuse, table, cur>>
      /\ states' = [states EXCEPT ![cur].lastHead = commit[Current]]
      /\ wpc = "head" /\ wpc' = IF HeadMoved(cur) THEN "index" ELSE "dirty"
      /\ cur \in 1..allocated
  BY CurrentType DEF ReadHead
<1>2. ~Pending(p) /\ ~Overlooking(p) /\ ~Overlooking(p)'
  BY <1>1 DEF Pending, Overlooking
<1>3. CASE table[p] = cur /\ HeadMoved(cur)
  BY <1>1, <1>2, <1>3 DEF Kept, Pending
<1>4. CASE table[p] = cur /\ ~HeadMoved(cur)
  <2>1. /\ states'[cur].git = states[cur].git
        /\ states'[cur].baseline = states[cur].baseline
    BY <1>1 DEF TypeOK, ListTypeOK
  <2> QED
    BY <1>1, <1>2, <1>4, <2>1 DEF Kept, Tracked, Fresh, Dirty, repos
<1>5. CASE table[p] # cur
  <2>1. table[p] # None => states'[table[p]] = states[table[p]]
    BY <1>1, <1>5, OtherState DEF TypeOK, ListTypeOK
  <2> QED
    BY <1>1, <1>2, <2>1
    DEF Kept, Tracked, Fresh, Dirty, HeadMoved, Pending, repos
<1> QED
  BY <1>3, <1>4, <1>5

\* A run reads a tree: the index is as new as the tree.
LEMMA KeptRun ==
  ASSUME TypeOK, NEW p \in Projects, Kept(p),
         RunReads \/ \E q \in Projects : OtherReads(q)
  PROVE  Kept(p)'
<1>1. PICK q \in Projects :
        /\ indexed' = [indexed EXCEPT ![q] = work[q]]
        /\ excuse' = [excuse EXCEPT ![q] = {}]
        /\ q = Current \/ UNCHANGED thread
        /\ UNCHANGED <<repos, list>>
        /\ UNCHANGED thread \/ (wpc = "run" /\ wpc' = "ran")
        /\ cur' = cur
  <2>1. CASE RunReads
    <3>1. Current \in Projects
      BY <2>1, CurrentType DEF RunReads
    <3>2. /\ indexed' = [indexed EXCEPT ![Current] = work[Current]]
          /\ excuse' = [excuse EXCEPT ![Current] = {}]
          /\ UNCHANGED <<repos, list, cur>> /\ wpc = "run" /\ wpc' = "ran"
      BY <2>1 DEF RunReads
    <3> WITNESS Current \in Projects
    <3> QED
      BY <3>2
  <2>2. CASE \E q \in Projects : OtherReads(q)
    <3>1. PICK q \in Projects : OtherReads(q)
      BY <2>2
    <3>2. /\ indexed' = [indexed EXCEPT ![q] = work[q]]
          /\ excuse' = [excuse EXCEPT ![q] = {}]
          /\ UNCHANGED <<repos, list, thread>>
      BY <3>1 DEF OtherReads
    <3>3. cur' = cur
      BY <3>2 DEF thread
    <3> WITNESS q \in Projects
    <3> QED
      BY <3>2, <3>3
  <2> QED
    BY <2>1, <2>2
<1>2. CASE q = p
  BY <1>1, <1>2 DEF Kept, Fresh, TypeOK, RepoTypeOK, repos
<1>3. CASE q # p
  <2>1. indexed'[p] = indexed[p] /\ excuse'[p] = excuse[p]
    BY <1>1, <1>3 DEF TypeOK, RepoTypeOK, LockTypeOK
  <2>2. CASE UNCHANGED thread
    BY <1>1, <2>1, <2>2 DEF Kept, Tracked, Fresh, Dirty, HeadMoved, Pending,
       Overlooking, repos, list, thread
  <2>3. CASE q = Current /\ wpc = "run" /\ wpc' = "ran"
    BY <1>1, <1>3, <2>1, <2>3, OtherState DEF Kept, Tracked, Fresh, Dirty,
       HeadMoved, Pending, Overlooking, repos, list
  <2> QED
    BY <1>1, <2>2, <2>3
<1> QED
  BY <1>2, <1>3

\* The watch list changes: a new state has no baseline yet.
LEMMA KeptList ==
  ASSUME TypeOK, NEW p \in Projects, Kept(p),
         \E q \in Projects : Watch(q) \/ Unwatch(q) \/ Due(q)
  PROVE  Kept(p)'
<1>1. PICK q \in Projects : Watch(q) \/ Unwatch(q) \/ Due(q)
  OBVIOUS
<1>2. UNCHANGED <<repos, indexed, excuse, thread>>
  BY <1>1 DEF Watch, Unwatch, Due
<1>3. ASSUME table'[p] # None, table'[p] = table[p],
             states'[table[p]].git = states[table[p]].git,
             states'[table[p]].baseline = states[table[p]].baseline,
             states'[table[p]].lastHead = states[table[p]].lastHead,
             states'[table[p]].project = states[table[p]].project
      PROVE  Kept(p)'
  BY <1>2, <1>3 DEF Kept, Tracked, Fresh, Dirty, HeadMoved, Pending,
     Overlooking, repos, thread
<1>4. CASE Watch(q)
  <2>1. CASE q = p
    <3>1. table'[p] = allocated + 1 /\ ~states'[allocated + 1].baseline
      BY <1>4, <2>1 DEF Watch, TypeOK, ListTypeOK
    <3> QED
      BY <3>1 DEF Kept, Tracked
  <2>2. CASE q # p /\ table[p] # None
    <3>1. table'[p] = table[p] /\ states'[table[p]] = states[table[p]]
      BY <1>4, <2>2, OtherState DEF Watch, TypeOK, ListTypeOK
    <3> QED
      BY <1>3, <2>2, <3>1
  <2>3. CASE q # p /\ table[p] = None
    BY <1>4, <2>3 DEF Watch, TypeOK, ListTypeOK, Kept, Tracked
  <2> QED
    BY <2>1, <2>2, <2>3
<1>5. CASE Unwatch(q)
  <2>1. states' = states /\ (table'[p] = None \/ table'[p] = table[p])
    BY <1>5 DEF Unwatch, TypeOK, ListTypeOK
  <2> QED
    BY <1>3, <2>1 DEF Kept, Tracked
<1>6. CASE Due(q)
  <2>1. /\ states' = [states EXCEPT ![table[q]].due = TRUE] /\ table' = table
    BY <1>6 DEF Due
  <2>2. table[p] # None =>
          /\ states'[table[p]].git = states[table[p]].git
          /\ states'[table[p]].baseline = states[table[p]].baseline
          /\ states'[table[p]].lastHead = states[table[p]].lastHead
          /\ states'[table[p]].project = states[table[p]].project
    BY <2>1, OtherState DEF TypeOK, ListTypeOK
  <2> QED
    BY <1>3, <2>1, <2>2 DEF Kept, Tracked
<1> QED
  BY <1>1, <1>4, <1>5, <1>6

\* The repositories change: an edit makes the tree dirty, HEAD moves away
\* from where the state saw it or the move is excused.
LEMMA KeptRepository ==
  ASSUME TypeOK, NEW p \in Projects, Kept(p), Repository
  PROVE  Kept(p)'
<1>1. PICK q \in Projects : \/ Edit(q) \/ Commit(q) \/ Revert(q)
                            \/ \E v \in 1..clock : Checkout(q, v)
  BY DEF Repository
<1>2. UNCHANGED <<indexed, list, thread>>
  BY <1>1 DEF Edit, Commit, Revert, Checkout
<1>3. ASSUME work'[p] = work[p], commit'[p] = commit[p], excuse'[p] = excuse[p]
      PROVE  Kept(p)'
  <2>1. CASE table[p] = None
    BY <1>2, <2>1 DEF Kept, Tracked, list
  <2>2. CASE table[p] # None
    BY <1>2, <1>3, <2>2, OtherState DEF Kept, Tracked, Fresh, Dirty,
       HeadMoved, Pending, Overlooking, list, thread
  <2> QED
    BY <2>1, <2>2
<1>4. CASE q # p
  <2>1. work'[p] = work[p] /\ commit'[p] = commit[p]
    BY <1>1, <1>4 DEF Edit, Commit, Revert, Checkout, TypeOK, RepoTypeOK
  <2>2. excuse'[p] = excuse[p]
    BY <1>1, <1>4 DEF Edit, Commit, Revert, Checkout, Moved, Excuse, TypeOK,
       LockTypeOK
  <2> QED
    BY <1>3, <2>1, <2>2
<1>5. CASE Edit(p)
  <2>1. work'[p] = clock + 1 /\ commit'[p] = commit[p] /\ commit[p] <= clock
    BY <1>5 DEF Edit, TypeOK, RepoTypeOK, Versions
  <2> QED
    BY <2>1 DEF Kept, Dirty, TypeOK, RepoTypeOK, Versions
<1>6. CASE Revert(p)
  BY <1>6 DEF Revert, Excuse, Kept, TypeOK, LockTypeOK
<1>7. ASSUME NEW v, Moved(p, v), commit'[p] = v, work'[p] = v
      PROVE  Kept(p)'
  <2> SUFFICES ASSUME Tracked(p)', excuse'[p] = {}
               PROVE  ~Overlooking(p)' /\ HeadMoved(table[p])'
    BY DEF Kept
  <2>1. table[p] # None /\ table' = table /\ states' = states
    BY <1>2 DEF Tracked, list
  <2>2. ~(wpc \in {"ran", "reread"} /\ Current = p)
    BY <1>7 DEF Moved, TypeOK, LockTypeOK
  <2>3. states[table[p]].lastHead # v /\ states[table[p]].lastHead # Unknown
    BY <1>7, <2>1 DEF Moved, TypeOK, LockTypeOK
  <2>4. ~Overlooking(p)'
    BY <1>2, <2>1, <2>2, OtherState DEF Overlooking, thread
  <2>5. HeadMoved(table[p])'
    BY <1>7, <2>1, <2>3, OtherState DEF HeadMoved
  <2> QED
    BY <2>4, <2>5
<1>8. CASE Commit(p)
  BY <1>7, <1>8 DEF Commit, TypeOK, RepoTypeOK
<1>9. CASE \E v \in 1..clock : Checkout(p, v)
  BY <1>7, <1>9 DEF Checkout, TypeOK, RepoTypeOK
<1> QED
  BY <1>1, <1>4, <1>5, <1>6, <1>8, <1>9

\* What the other threads do under the lock, and the flags.
LEMMA KeptIdle ==
  ASSUME TypeOK, NEW p \in Projects, Kept(p),
         OtherStarts \/ OtherEnds \/ Shutdown \/ Stop \/ UNCHANGED vars
  PROVE  Kept(p)'
<1>1. UNCHANGED <<repos, indexed, list, thread, excuse>>
  BY DEF OtherStarts, OtherEnds, Shutdown, Stop, vars
<1> QED
  BY <1>1 DEF Kept, Tracked, Fresh, Dirty, HeadMoved, Pending, Overlooking,
     repos, list, thread

\* In any interleaving with the repositories, other runs and registrations,
\* the watcher loses a change only for a recorded reason.
THEOREM ForgetsNothing == Spec => []NothingForgotten
<1>1. Init => IInv
  BY DEF Init, IInv, PollInv, Kept, Tracked
<1>2. TypeOK /\ IInv /\ [Next]_vars => IInv'
  <2> SUFFICES ASSUME TypeOK, IInv, [Next]_vars
               PROVE  \A p \in Projects : Kept(p)'
    BY PollStep DEF IInv
  <2> TAKE p \in Projects
  <2>1. Kept(p) /\ PollInv
    BY DEF IInv
  <2> QED
    BY <2>1, KeptMoveOn, KeptExcused, KeptPolled, KeptReadHead, KeptRun,
       KeptList, KeptRepository, KeptIdle
    DEF Next, WatcherStep, Failure, Others
<1>3. TypeOK /\ IInv => NothingForgotten
  <2> SUFFICES ASSUME IInv, wpc = "sleep", NEW p \in Projects,
                      Tracked(p), excuse[p] = {}
               PROVE  indexed[p] = work[p] \/ Noticeable(p)
    BY DEF NothingForgotten, Noticed
  <2> QED
    BY DEF IInv, Kept, Fresh, Pending, Noticeable
<1> QED
  BY TypeCorrect, <1>1, <1>2, <1>3, PTL DEF Spec
=============================================================================
