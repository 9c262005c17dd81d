---------------------------- MODULE ServerProofs ----------------------------
(***************************************************************************)
(* Theorems about Server: type correctness; what the index lock excludes   *)
(* before and after a shutdown forces it open; and that the server         *)
(* implements IndexGate.                                                   *)
(***************************************************************************)
EXTENDS Server, TLAPS

USE DEF Goto, Lock, Unlock, flags, handler, tracking, input

----------------------------------------------------------------------------
(* Type correctness.                                                       *)

\* The names of the threads are different.
LEMMA Names ==
    /\ {"main", "http", "watcher", "watchdog"} \subseteq Threads
    /\ Autos \subseteq Threads
    /\ None \notin Threads
    /\ \A a \in Autos : a \notin {"main", "http", "watcher", "watchdog"}
BY ThreadsAssumption DEF Threads, None

LEMMA InitType == Init => TypeOK
<1> SUFFICES ASSUME Init PROVE TypeOK
  OBVIOUS
<1>1. PlacesOK
  <2>1. pc \in [Threads -> PCs]
    BY DEF Init, PCs, MainPCs, HttpPCs, WatcherPCs, WatchdogPCs, AutoPCs
  <2> QED
    BY <2>1 DEF Init, PlacesOK, MainPCs, HttpPCs, WatcherPCs, WatchdogPCs,
                AutoPCs
<1>2. FlagsOK
  <2>1. jobs \in 0..MaxJobs
    BY BoundsAssumption DEF Init
  <2> QED
    BY <2>1 DEF Init, FlagsOK
<1>3. TrackingOK
  BY BoundsAssumption DEF Init, TrackingOK
<1>4. ShutdownOK
  BY DEF Init, ShutdownOK, ShutdownPCs
<1>5. AutoOK
  BY DEF Init, AutoOK
<1> QED
  BY <1>1, <1>2, <1>3, <1>4, <1>5 DEF TypeOK

\* Every step leaves every thread at a place of its own.
LEMMA PlacesStep ==
    ASSUME PlacesOK, [Next]_vars
    PROVE  PlacesOK'
<1> USE Names DEF PlacesOK, PCs, MainPCs, HttpPCs, WatcherPCs, WatchdogPCs,
                  AutoPCs
<1>1. CASE MainStep
  BY <1>1 DEF MainStep, CallStep, LockToRun, RunEnds, UnlockRun, FreePipeline,
              LockToDelete, DeleteEnds, Track, Untrack, ReadNotice, LoopEnds,
              JoinWatchdog, JoinHttp, JoinWatcher, FreeWatcher, JoinAuto,
              Return
<1>2. CASE HttpStep
  BY <1>2 DEF HttpStep, CallStep, LockToRun, RunEnds, UnlockRun, FreePipeline,
              LockToDelete, DeleteEnds, HttpEnds
<1>3. CASE WatcherStep
  BY <1>3 DEF WatcherStep, CheckShutdown, TryLock, RunEnds, UnlockWatcher,
              WatcherEnds
<1>4. CASE ShutdownStep
  BY <1>4 DEF ShutdownStep, ReadActive, CancelActive, ForceUnlock,
              StopServers, CloseStdin
<1>5. CASE WatchdogStep
  BY <1>5 DEF WatchdogStep, WatchdogShuts, WatchdogExits, WatchdogEnds
<1>6. ASSUME NEW a \in Autos, AutoStep(a)
      PROVE  PlacesOK'
  BY <1>6 DEF AutoStep, LockToRun, RunEnds, UnlockRun, AutoFree, Register
<1>7. CASE Environment
  BY <1>7 DEF Environment, ToolCalls, Servers, IndexRepository,
              DeleteProject, Reads, ClientCancels, AutoIndex, Changed,
              StartJob, JobEnds, Signal, ParentDied, LoopEnds
<1>8. CASE UNCHANGED vars
  BY <1>8 DEF vars
<1> QED
  BY <1>1, <1>2, <1>3, <1>4, <1>5, <1>6, <1>7, <1>8 DEF Next

LEMMA FlagsStep ==
    ASSUME FlagsOK, [Next]_vars
    PROVE  FlagsOK'
<1> USE BoundsAssumption DEF FlagsOK
<1>1. CASE MainStep
  BY <1>1 DEF MainStep, CallStep, LockToRun, RunEnds, UnlockRun, FreePipeline,
              LockToDelete, DeleteEnds, Track, Untrack, ReadNotice, LoopEnds,
              JoinWatchdog, JoinHttp, JoinWatcher, FreeWatcher, JoinAuto,
              Return
<1>2. CASE HttpStep
  BY <1>2 DEF HttpStep, CallStep, LockToRun, RunEnds, UnlockRun, FreePipeline,
              LockToDelete, DeleteEnds, HttpEnds
<1>3. CASE WatcherStep
  BY <1>3 DEF WatcherStep, CheckShutdown, TryLock, RunEnds, UnlockWatcher,
              WatcherEnds
<1>4. CASE ShutdownStep
  BY <1>4 DEF ShutdownStep, ReadActive, CancelActive, ForceUnlock,
              StopServers, CloseStdin
<1>5. CASE WatchdogStep
  BY <1>5 DEF WatchdogStep, WatchdogShuts, WatchdogExits, WatchdogEnds
<1>6. ASSUME NEW a \in Autos, AutoStep(a)
      PROVE  FlagsOK'
  BY <1>6 DEF AutoStep, LockToRun, RunEnds, UnlockRun, AutoFree, Register
<1>7. CASE Environment
  <2>1. CASE StartJob \/ JobEnds
    <3>1. jobs' \in 0..MaxJobs
      BY <2>1 DEF StartJob, JobEnds
    <3> QED
      BY <2>1, <3>1 DEF StartJob, JobEnds
  <2>2. CASE ToolCalls
    BY <2>2 DEF ToolCalls, IndexRepository, DeleteProject
  <2>3. CASE \E a \in Autos : AutoIndex(a)
    BY <2>3 DEF AutoIndex
  <2>4. CASE \E t \in Threads : Signal(t)
    BY <2>4 DEF Signal
  <2> QED
    BY <1>7, <2>1, <2>2, <2>3, <2>4
       DEF Environment, ClientCancels, Changed, ParentDied, LoopEnds
<1>8. CASE UNCHANGED vars
  BY <1>8 DEF vars
<1> QED
  BY <1>1, <1>2, <1>3, <1>4, <1>5, <1>6, <1>7, <1>8 DEF Next

\* The pointer to the active pipeline is set and reset in time.
LEMMA TrackingStep ==
    ASSUME PlacesOK, TrackingOK, ShutdownOK, [Next]_vars
    PROVE  TrackingOK' /\ ShutdownOK'
<1> USE Names, BoundsAssumption DEF PlacesOK, TrackingOK, ShutdownOK,
                                    ShutdownPCs, MainPCs, AutoPCs
<1>1. CASE MainStep
  <2>1. CASE CallStep("main")
    BY <1>1, <2>1 DEF CallStep, LockToRun, RunEnds, UnlockRun, FreePipeline,
                      LockToDelete, DeleteEnds
  <2> QED
    BY <1>1, <2>1 DEF MainStep, Track, Untrack, ReadNotice, LoopEnds,
                      JoinWatchdog, JoinHttp, JoinWatcher, FreeWatcher,
                      JoinAuto, Return
<1>2. CASE HttpStep
  BY <1>2 DEF HttpStep, CallStep, LockToRun, RunEnds, UnlockRun, FreePipeline,
              LockToDelete, DeleteEnds, HttpEnds
<1>3. CASE WatcherStep
  BY <1>3 DEF WatcherStep, CheckShutdown, TryLock, RunEnds, UnlockWatcher,
              WatcherEnds
<1>4. CASE ShutdownStep
  <2>1. CASE ReadActive
    <3>1. active \in 0..serial
      OBVIOUS
    <3> QED
      BY <2>1, <3>1 DEF ReadActive
  <2>2. CASE CancelActive
    BY <2>2 DEF CancelActive
  <2> QED
    BY <1>4, <2>1, <2>2 DEF ShutdownStep, ForceUnlock, StopServers, CloseStdin
<1>5. CASE WatchdogStep
  <2>1. CASE WatchdogShuts
    <3>1. TrackingOK'
      BY <2>1 DEF WatchdogShuts
    <3>2. CASE gShutdown
      BY <2>1, <3>2 DEF WatchdogShuts
    <3>3. CASE ~gShutdown
      BY <2>1, <3>3 DEF WatchdogShuts
    <3> QED
      BY <3>1, <3>2, <3>3
  <2> QED
    BY <1>5, <2>1 DEF WatchdogStep, WatchdogExits, WatchdogEnds
<1>6. ASSUME NEW a \in Autos, AutoStep(a)
      PROVE  TrackingOK' /\ ShutdownOK'
  BY <1>6 DEF AutoStep, LockToRun, RunEnds, UnlockRun, AutoFree, Register
<1>7. CASE Environment
  <2>1. ASSUME NEW t \in Servers, IndexRepository(t)
        PROVE  TrackingOK' /\ ShutdownOK'
    <3>1. requests' \in 0..MaxRequests /\ serial' \in 0..requests'
      BY <2>1 DEF IndexRepository
    <3>2. CASE t = "main"
      <4>1. pc["main"] = "serve" /\ pc'["main"] = "lock"
        BY <2>1, <3>2 DEF IndexRepository, Reads
      <4> QED
        BY <2>1, <3>1, <3>2, <4>1 DEF IndexRepository
    <3>3. CASE t = "http"
      BY <2>1, <3>1, <3>3 DEF IndexRepository
    <3> QED
      BY <3>2, <3>3 DEF Servers
  <2>5. ASSUME NEW t \in Servers, DeleteProject(t)
        PROVE  TrackingOK' /\ ShutdownOK'
    BY <2>5 DEF DeleteProject, Servers, Reads
  <2>2. CASE \E a \in Autos : AutoIndex(a)
    BY <2>2 DEF AutoIndex
  <2>3. CASE \E t \in Threads : Signal(t)
    BY <2>3 DEF Signal
  <2> QED
    BY <1>7, <2>1, <2>2, <2>3, <2>5
       DEF Environment, ToolCalls, ClientCancels, Changed, StartJob,
           JobEnds, ParentDied, LoopEnds
<1>8. CASE UNCHANGED vars
  BY <1>8 DEF vars
<1> QED
  BY <1>1, <1>2, <1>3, <1>4, <1>5, <1>6, <1>7, <1>8 DEF Next

\* The joined thread is one that was started.
LEMMA AutoStepType ==
    ASSUME PlacesOK, AutoOK, [Next]_vars
    PROVE  AutoOK'
<1> USE Names DEF PlacesOK, AutoOK
<1>1. CASE MainStep
  BY <1>1 DEF MainStep, CallStep, LockToRun, RunEnds, UnlockRun, FreePipeline,
              LockToDelete, DeleteEnds, Track, Untrack, ReadNotice, LoopEnds,
              JoinWatchdog, JoinHttp, JoinWatcher, FreeWatcher, JoinAuto,
              Return
<1>2. CASE HttpStep
  BY <1>2 DEF HttpStep, CallStep, LockToRun, RunEnds, UnlockRun, FreePipeline,
              LockToDelete, DeleteEnds, HttpEnds
<1>3. CASE WatcherStep
  BY <1>3 DEF WatcherStep, CheckShutdown, TryLock, RunEnds, UnlockWatcher,
              WatcherEnds
<1>4. CASE ShutdownStep
  BY <1>4 DEF ShutdownStep, ReadActive, CancelActive, ForceUnlock,
              StopServers, CloseStdin
<1>5. CASE WatchdogStep
  BY <1>5 DEF WatchdogStep, WatchdogShuts, WatchdogExits, WatchdogEnds
<1>6. ASSUME NEW a \in Autos, AutoStep(a)
      PROVE  AutoOK'
  BY <1>6 DEF AutoStep, LockToRun, RunEnds, UnlockRun, AutoFree, Register
<1>7. CASE Environment
  BY <1>7 DEF Environment, ToolCalls, Servers, IndexRepository,
              DeleteProject, Reads, ClientCancels, AutoIndex, Changed,
              StartJob, JobEnds, Signal, ParentDied, LoopEnds
<1>8. CASE UNCHANGED vars
  BY <1>8 DEF vars
<1> QED
  BY <1>1, <1>2, <1>3, <1>4, <1>5, <1>6, <1>7, <1>8 DEF Next

\* Every reachable state is of the right type.
THEOREM TypeCorrect == Spec => []TypeOK
<1>1. TypeOK /\ [Next]_vars => TypeOK'
  BY PlacesStep, FlagsStep, TrackingStep, AutoStepType DEF TypeOK
<1> QED
  BY InitType, <1>1, PTL DEF Spec

----------------------------------------------------------------------------
(* The index lock.                                                         *)

\* What a step does with the lock: thread t takes it, thread t gives it back,
\* request_shutdown forces it open, or nobody touches it.
Enters(t) ==
    /\ t \notin Inside /\ Inside' = Inside \cup {t}
    /\ ~busy /\ busy' /\ UNCHANGED Released

Leaves(t) ==
    /\ t \in Inside /\ Inside' = Inside \ {t}
    /\ ~busy' /\ UNCHANGED Released

Forces == ~Released /\ Released' /\ ~busy' /\ UNCHANGED Inside

Keeps == UNCHANGED <<Inside, Released>> /\ busy' = busy

\* A thread that moves within the lock, or outside of it.
LEMMA MovesKeep ==
    ASSUME PlacesOK, NEW t \in Threads, NEW label, Goto(t, label),
           pc[t] \in InsidePCs <=> label \in InsidePCs
    PROVE  UNCHANGED Inside
BY DEF PlacesOK, Inside

LEMMA MovesIn ==
    ASSUME PlacesOK, NEW t \in Threads, NEW label \in InsidePCs,
           Goto(t, label), pc[t] \notin InsidePCs
    PROVE  t \notin Inside /\ Inside' = Inside \cup {t}
BY DEF PlacesOK, Inside

LEMMA MovesOut ==
    ASSUME PlacesOK, NEW t \in Threads, NEW label, label \notin InsidePCs,
           Goto(t, label), pc[t] \in InsidePCs
    PROVE  t \in Inside /\ Inside' = Inside \ {t}
BY DEF PlacesOK, Inside

\* What a thread does in cbm_pipeline_run and around it.
LEMMA CallKinds ==
    ASSUME PlacesOK, NEW t \in Threads,
           \/ LockToRun(t) \/ RunEnds(t) \/ UnlockRun(t) \/ FreePipeline(t)
           \/ LockToDelete(t) \/ DeleteEnds(t)
    PROVE  Keeps \/ Enters(t) \/ Leaves(t)
<1> USE DEF InsidePCs
<1>1. UNCHANGED Released
  BY DEF LockToRun, RunEnds, UnlockRun, FreePipeline, LockToDelete,
         DeleteEnds, Released
<1>2. CASE LockToRun(t)
  <2>1. PICK label \in InsidePCs : Goto(t, label)
    BY <1>2 DEF LockToRun
  <2>2. pc[t] \notin InsidePCs /\ ~busy /\ busy'
    BY <1>2 DEF LockToRun
  <2> QED
    BY <1>1, <2>1, <2>2, MovesIn DEF Enters
<1>3. CASE LockToDelete(t)
  BY <1>1, <1>3, MovesIn DEF LockToDelete, Enters
<1>4. CASE UnlockRun(t)
  BY <1>1, <1>4, MovesOut DEF UnlockRun, Leaves
<1>5. CASE DeleteEnds(t)
  BY <1>1, <1>5, MovesOut DEF DeleteEnds, Leaves
<1>6. CASE RunEnds(t)
  <2>1. PICK label \in InsidePCs : Goto(t, label)
    BY <1>6 DEF RunEnds
  <2>2. pc[t] \in InsidePCs /\ busy' = busy
    BY <1>6 DEF RunEnds
  <2> QED
    BY <1>1, <2>1, <2>2, MovesKeep DEF Keeps
<1>7. CASE FreePipeline(t)
  BY <1>1, <1>7, MovesKeep DEF FreePipeline, Keeps
<1> QED
  BY <1>2, <1>3, <1>4, <1>5, <1>6, <1>7

LEMMA StepKinds ==
    ASSUME TypeOK, [Next]_vars
    PROVE  Keeps \/ Forces \/ \E t \in Threads : Enters(t) \/ Leaves(t)
<1> USE Names DEF TypeOK
<1> DEFINE Kind == Keeps \/ Forces
                     \/ \E t \in Threads : Enters(t) \/ Leaves(t)
<1>1. CASE MainStep
  <2>1. CASE CallStep("main")
    BY <2>1, CallKinds DEF CallStep
  <2>2. CASE Track \/ Untrack
    BY <2>2, MovesKeep DEF Track, Untrack, InsidePCs, Keeps, Released
  <2>3. CASE ReadNotice \/ Return
    BY <2>3 DEF ReadNotice, Return, Keeps, Released, Inside
  <2>4. CASE LoopEnds \/ JoinWatchdog \/ JoinHttp \/ JoinWatcher
               \/ FreeWatcher \/ JoinAuto
    BY <2>4, MovesKeep DEF LoopEnds, JoinWatchdog, JoinHttp, JoinWatcher,
       FreeWatcher, JoinAuto, InsidePCs, Keeps, Released
  <2> QED
    BY <1>1, <2>1, <2>2, <2>3, <2>4 DEF MainStep
<1>2. CASE HttpStep
  <2>1. CASE HttpEnds
    BY <2>1, MovesKeep DEF HttpEnds, InsidePCs, Keeps, Released
  <2> QED
    BY <1>2, <2>1, CallKinds DEF HttpStep, CallStep
<1>3. CASE WatcherStep
  <2>1. CASE RunEnds("watcher")
    BY <2>1, CallKinds
  <2>2. CASE TryLock /\ busy
    BY <2>2, MovesKeep DEF TryLock, InsidePCs, Keeps, Released
  <2>3. CASE TryLock /\ ~busy
    BY <2>3, MovesIn DEF TryLock, InsidePCs, Enters, Released
  <2>4. CASE UnlockWatcher
    BY <2>4, MovesOut DEF UnlockWatcher, InsidePCs, Leaves, Released
  <2>5. CASE CheckShutdown \/ WatcherEnds
    BY <2>5, MovesKeep DEF CheckShutdown, WatcherEnds, InsidePCs, Keeps,
       Released
  <2> QED
    BY <1>3, <2>1, <2>2, <2>3, <2>4, <2>5 DEF WatcherStep
<1>4. CASE ShutdownStep
  <2>1. UNCHANGED Inside
    BY <1>4 DEF ShutdownStep, ReadActive, CancelActive, ForceUnlock,
       StopServers, CloseStdin, Inside
  <2>2. CASE ForceUnlock
    BY <2>1, <2>2 DEF ForceUnlock, Forces, Released
  <2> QED
    BY <1>4, <2>1, <2>2 DEF ShutdownStep, ReadActive, CancelActive,
       StopServers, CloseStdin, Keeps, Released
<1>5. CASE WatchdogStep
  <2>1. CASE WatchdogShuts
    <3>1. UNCHANGED Inside
      BY <2>1, MovesKeep DEF WatchdogShuts, InsidePCs
    <3>2. UNCHANGED Released
      BY <2>1 DEF WatchdogShuts, Released, ShutdownOK
    <3> QED
      BY <2>1, <3>1, <3>2 DEF WatchdogShuts, Keeps
  <2>2. CASE WatchdogExits
    BY <2>2 DEF WatchdogExits, Keeps, Inside, Released
  <2>3. CASE WatchdogEnds
    BY <2>3, MovesKeep DEF WatchdogEnds, InsidePCs, Keeps, Released
  <2> QED
    BY <1>5, <2>1, <2>2, <2>3 DEF WatchdogStep
<1>6. ASSUME NEW a \in Autos, AutoStep(a)
      PROVE  Kind
  <2>1. CASE AutoFree(a) \/ Register(a)
    BY <2>1, MovesKeep DEF AutoFree, Register, InsidePCs, Keeps, Released
  <2> QED
    BY <1>6, <2>1, CallKinds DEF AutoStep
<1>7. CASE Environment
  <2>1. CASE ToolCalls
    BY <2>1, MovesKeep DEF ToolCalls, IndexRepository, DeleteProject, Reads,
       Servers, InsidePCs, Keeps, Released
  <2>2. CASE \E a \in Autos : AutoIndex(a)
    BY <2>2, MovesKeep DEF AutoIndex, InsidePCs, Keeps, Released
  <2>3. CASE \E t \in Threads : Signal(t)
    BY <2>3 DEF Signal, Keeps, Inside, Released, ShutdownOK
  <2>4. CASE ClientCancels \/ StartJob \/ JobEnds
    BY <2>4 DEF ClientCancels, StartJob, JobEnds, Keeps, Inside, Released
  <2>5. CASE Changed \/ ParentDied \/ LoopEnds
    BY <2>5, MovesKeep DEF Changed, ParentDied, LoopEnds, InsidePCs, Keeps,
       Released
  <2> QED
    BY <1>7, <2>1, <2>2, <2>3, <2>4, <2>5 DEF Environment
<1>8. CASE UNCHANGED vars
  BY <1>8 DEF vars, Keeps, Inside, Released
<1> QED
  BY <1>1, <1>2, <1>3, <1>4, <1>5, <1>6, <1>7, <1>8 DEF Next

\* The inductive invariant.  Counting the threads inside: none when the lock
\* is free and was never forced; one when it is either taken or forced; two
\* when it is both.  And a taken lock has a thread inside.
GateInv ==
    /\ ~busy /\ ~Released => Inside = {}
    /\ ~busy \/ ~Released => AtMostOne(Inside)
    /\ AtMostTwo(Inside)
    /\ busy => Inside # {}

LEMMA GateInit == Init => GateInv
BY Names DEF Init, GateInv, Inside, InsidePCs, AtMostOne, AtMostTwo, Threads

LEMMA GateStep ==
    ASSUME TypeOK, GateInv, [Next]_vars
    PROVE  GateInv'
<1> USE DEF GateInv, AtMostOne, AtMostTwo
<1>1. CASE Keeps
  BY <1>1 DEF Keeps
<1>2. CASE Forces
  BY <1>2 DEF Forces
<1>3. ASSUME NEW t \in Threads, Enters(t)
      PROVE  GateInv'
  BY <1>3 DEF Enters
<1>4. ASSUME NEW t \in Threads, Leaves(t)
      PROVE  GateInv'
  BY <1>4 DEF Leaves
<1> QED
  BY <1>1, <1>2, <1>3, <1>4, StepKinds

LEMMA GateHolds == Spec => [](TypeOK /\ GateInv)
<1>1. TypeOK /\ GateInv /\ [Next]_vars => GateInv'
  BY GateStep
<1> QED
  BY TypeCorrect, GateInit, <1>1, PTL DEF Spec

\* Two runs or deletions are never going on at once before request_shutdown
\* gives the lock back, and never three afterwards.
THEOREM ExclusionHolds == Spec => []Exclusion
<1>1. GateInv => Exclusion
  BY DEF GateInv, Exclusion, AtMostOne, AtMostTwo, Writers, Inside, InsidePCs
<1> QED
  BY GateHolds, <1>1, PTL

\* A taken lock always has somebody inside who will give it back.
THEOREM LockIsNeverStale == Spec => []NoStaleLock
<1>1. GateInv => NoStaleLock
  BY DEF GateInv, NoStaleLock
<1> QED
  BY GateHolds, <1>1, PTL

\* The server implements the abstract gate.
THEOREM ServerImplementsGate == Spec => ImplementsGate
<1>1. Init => Gate!Init
  BY Names DEF Init, Gate!Init, Inside, InsidePCs, Released, Threads
<1>2. TypeOK /\ GateInv /\ [Next]_vars => [Gate!Next]_(Gate!vars)
  <2> SUFFICES ASSUME TypeOK, GateInv, [Next]_vars
               PROVE  [Gate!Next]_(Gate!vars)
    OBVIOUS
  <2>1. CASE Keeps
    BY <2>1 DEF Keeps, Gate!vars
  <2>2. CASE Forces
    BY <2>2 DEF Forces, Gate!Next, Gate!Force
  <2>3. ASSUME NEW t \in Threads, Enters(t)
        PROVE  Gate!Enter(t)
    <3>1. Inside = {} \/ (Released /\ \E u \in Threads : Inside = {u})
      BY <2>3 DEF Enters, GateInv, AtMostOne, Inside
    <3> QED
      BY <2>3, <3>1 DEF Enters, Gate!Enter
  <2>4. ASSUME NEW t \in Threads, Leaves(t)
        PROVE  Gate!Leave(t)
    BY <2>4 DEF Leaves, Gate!Leave
  <2> QED
    BY <2>1, <2>2, <2>3, <2>4, StepKinds DEF Gate!Next
<1> QED
  BY GateHolds, <1>1, <1>2, PTL DEF Spec, ImplementsGate, Gate!Spec

----------------------------------------------------------------------------
(* The joins at the end of main().                                         *)

JoinedHttp    == pc["main"] \in {"joinWatcher", "freeWatcher", "joinAuto",
                                 "return"}
JoinedWatcher == pc["main"] \in {"freeWatcher", "joinAuto", "return"}

\* The inductive invariant.  What main() has joined has ended, in the order
\* of its joins.
JoinInv ==
    /\ pc["main"] = "joinHttp" \/ JoinedHttp => pc["watchdog"] = "ended"
    /\ JoinedHttp => pc["http"] = "ended"
    /\ JoinedWatcher => pc["watcher"] = "ended"
    /\ pc["main"] = "return" /\ autoTid # None => pc[autoTid] = "ended"

\* A thread that has ended does not move again.
LEMMA EndedStays ==
    ASSUME PlacesOK, [Next]_vars, NEW t \in Threads, pc[t] = "ended"
    PROVE  pc'[t] = "ended"
<1> USE Names DEF PlacesOK
<1>1. CASE MainStep
  BY <1>1 DEF MainStep, CallStep, LockToRun, RunEnds, UnlockRun, FreePipeline,
              LockToDelete, DeleteEnds, Track, Untrack, ReadNotice, LoopEnds,
              JoinWatchdog, JoinHttp, JoinWatcher, FreeWatcher, JoinAuto,
              Return
<1>2. CASE HttpStep
  BY <1>2 DEF HttpStep, CallStep, LockToRun, RunEnds, UnlockRun, FreePipeline,
              LockToDelete, DeleteEnds, HttpEnds
<1>3. CASE WatcherStep
  BY <1>3 DEF WatcherStep, CheckShutdown, TryLock, RunEnds, UnlockWatcher,
              WatcherEnds
<1>4. CASE ShutdownStep
  BY <1>4 DEF ShutdownStep, ReadActive, CancelActive, ForceUnlock,
              StopServers, CloseStdin
<1>5. CASE WatchdogStep
  BY <1>5 DEF WatchdogStep, WatchdogShuts, WatchdogExits, WatchdogEnds
<1>6. ASSUME NEW a \in Autos, AutoStep(a)
      PROVE  pc'[t] = "ended"
  BY <1>6 DEF AutoStep, LockToRun, RunEnds, UnlockRun, AutoFree, Register
<1>7. CASE Environment
  BY <1>7 DEF Environment, ToolCalls, Servers, IndexRepository,
              DeleteProject, Reads, ClientCancels, AutoIndex, Changed,
              StartJob, JobEnds, Signal, ParentDied, LoopEnds
<1>8. CASE UNCHANGED vars
  BY <1>8 DEF vars
<1> QED
  BY <1>1, <1>2, <1>3, <1>4, <1>5, <1>6, <1>7, <1>8 DEF Next

\* Only the other threads are in Autos, so their steps leave main in place;
\* autoTid changes while main serves.
LEMMA JoinStep ==
    ASSUME TypeOK, JoinInv, [Next]_vars
    PROVE  JoinInv'
<1> USE Names DEF TypeOK, PlacesOK, AutoOK, JoinInv, JoinedHttp,
                  JoinedWatcher
<1>1. ASSUME UNCHANGED <<pc["main"], autoTid>>
      PROVE  JoinInv'
  BY <1>1, EndedStays
<1>2. CASE MainStep
  <2>1. CASE JoinWatchdog
    BY <2>1 DEF JoinWatchdog
  <2>2. CASE JoinHttp
    BY <2>2 DEF JoinHttp
  <2>3. CASE JoinWatcher
    BY <2>3 DEF JoinWatcher
  <2>4. CASE FreeWatcher
    BY <2>4 DEF FreeWatcher
  <2>5. CASE JoinAuto
    BY <2>5 DEF JoinAuto
  <2>6. CASE LoopEnds
    BY <2>6 DEF LoopEnds
  <2>7. CASE CallStep("main") \/ Track \/ Untrack
    BY <2>7 DEF CallStep, LockToRun, RunEnds, UnlockRun, FreePipeline,
                LockToDelete, DeleteEnds, Track, Untrack
  <2>8. CASE ReadNotice \/ Return
    BY <2>8, <1>1 DEF ReadNotice, Return
  <2> QED
    BY <1>2, <2>1, <2>2, <2>3, <2>4, <2>5, <2>6, <2>7, <2>8 DEF MainStep
<1>3. CASE HttpStep
  BY <1>3, <1>1 DEF HttpStep, CallStep, LockToRun, RunEnds, UnlockRun,
     FreePipeline, LockToDelete, DeleteEnds, HttpEnds
<1>4. CASE WatcherStep
  BY <1>4, <1>1 DEF WatcherStep, CheckShutdown, TryLock, RunEnds,
     UnlockWatcher, WatcherEnds
<1>5. CASE ShutdownStep
  BY <1>5, <1>1 DEF ShutdownStep, ReadActive, CancelActive, ForceUnlock,
     StopServers, CloseStdin
<1>6. CASE WatchdogStep
  BY <1>6, <1>1 DEF WatchdogStep, WatchdogShuts, WatchdogExits, WatchdogEnds
<1>7. ASSUME NEW a \in Autos, AutoStep(a)
      PROVE  JoinInv'
  BY <1>7, <1>1 DEF AutoStep, LockToRun, RunEnds, UnlockRun, AutoFree,
     Register
<1>8. CASE Environment
  <2>1. CASE ToolCalls
    BY <2>1, <1>1 DEF ToolCalls, Servers, IndexRepository, DeleteProject,
       Reads
  <2>2. CASE \E a \in Autos : AutoIndex(a)
    BY <2>2 DEF AutoIndex, Reads
  <2>3. CASE LoopEnds
    BY <2>3 DEF LoopEnds
  <2>4. CASE \E t \in Threads : Signal(t)
    BY <2>4, <1>1 DEF Signal
  <2> QED
    BY <1>8, <1>1, <2>1, <2>2, <2>3, <2>4
       DEF Environment, ClientCancels, Changed, StartJob, JobEnds, ParentDied
<1>9. CASE UNCHANGED vars
  BY <1>9, <1>1 DEF vars
<1> QED
  BY <1>2, <1>3, <1>4, <1>5, <1>6, <1>7, <1>8, <1>9 DEF Next

\* When main() is about to return, no other thread is left but an auto-index
\* thread whose id was overwritten.
THEOREM ReturnLeavesNobody == Spec => []ReturnIsClean
<1>1. Init => JoinInv
  BY DEF Init, JoinInv, JoinedHttp, JoinedWatcher
<1>2. TypeOK /\ JoinInv /\ [Next]_vars => JoinInv'
  BY JoinStep
<1>3. JoinInv => ReturnIsClean
  <2> SUFFICES ASSUME JoinInv, pc["main"] = "return",
                      NEW t \in Threads \ {"main"}
               PROVE  \/ pc[t] \in {"ended", "unborn"}
                      \/ t \in Autos /\ t # autoTid
    BY DEF ReturnIsClean
  <2> USE DEF JoinInv, JoinedHttp, JoinedWatcher
  <2>1. CASE t \in Autos
    BY <2>1, Names
  <2>2. CASE t \notin Autos
    BY <2>2 DEF Threads
  <2> QED
    BY <2>1, <2>2
<1> QED
  BY TypeCorrect, <1>1, <1>2, <1>3, PTL DEF Spec

----------------------------------------------------------------------------
(* The cancellation of request_shutdown.                                   *)

\* The inductive invariant.  Beside the property itself: a pipeline that
\* request_shutdown has read is past the lock, because the next one that
\* waits for it has a number of its own.
CancelInv ==
    /\ CancelTakesEffect
    /\ target # 0 /\ target = serial => pc["main"] \notin {"lock", "track"}

LEMMA CancelStep ==
    ASSUME TypeOK, CancelInv, [Next]_vars
    PROVE  CancelInv'
<1> USE Names DEF TypeOK, PlacesOK, TrackingOK, ShutdownOK, ShutdownPCs,
                  CancelInv, CancelTakesEffect, PipelineLive
<1>1. ASSUME UNCHANGED <<pc["main"], serial, handler>>,
             "main" \in cancelled => "main" \in cancelled'
      PROVE  CancelInv'
  BY <1>1
<1>2. CASE MainStep
  <2>1. ~(sd = "cancel" /\ on = "main") \/ UNCHANGED <<pc, serial, handler>>
    BY <1>2 DEF MainStep, CallStep, LockToRun, RunEnds, UnlockRun,
       FreePipeline, LockToDelete, DeleteEnds, Track, Untrack, ReadNotice,
       LoopEnds, JoinWatchdog, JoinHttp, JoinWatcher, FreeWatcher, JoinAuto,
       Return, Runs
  <2>2. CASE CallStep("main")
    BY <2>1, <2>2 DEF CallStep, LockToRun, RunEnds, UnlockRun, FreePipeline,
       LockToDelete, DeleteEnds
  <2>3. CASE Track \/ Untrack
    BY <2>1, <2>3 DEF Track, Untrack
  <2>4. CASE ReadNotice \/ Return
    BY <2>4, <1>1 DEF ReadNotice, Return
  <2>5. CASE LoopEnds \/ JoinWatchdog \/ JoinHttp \/ JoinWatcher
               \/ FreeWatcher \/ JoinAuto
    BY <2>1, <2>5 DEF LoopEnds, JoinWatchdog, JoinHttp, JoinWatcher,
       FreeWatcher, JoinAuto
  <2> QED
    BY <1>2, <2>2, <2>3, <2>4, <2>5 DEF MainStep
<1>3. CASE HttpStep
  BY <1>3, <1>1 DEF HttpStep, CallStep, LockToRun, RunEnds, UnlockRun,
     FreePipeline, LockToDelete, DeleteEnds, HttpEnds
<1>4. CASE WatcherStep
  BY <1>4, <1>1 DEF WatcherStep, CheckShutdown, TryLock, RunEnds,
     UnlockWatcher, WatcherEnds
<1>5. CASE ShutdownStep
  <2>1. CASE ReadActive
    BY <2>1 DEF ReadActive
  <2>2. CASE CancelActive
    BY <2>2 DEF CancelActive
  <2>3. CASE ForceUnlock \/ StopServers \/ CloseStdin
    BY <2>3 DEF ForceUnlock, StopServers, CloseStdin
  <2> QED
    BY <1>5, <2>1, <2>2, <2>3 DEF ShutdownStep
<1>6. CASE WatchdogStep
  <2>1. CASE WatchdogShuts /\ ~gShutdown
    BY <2>1 DEF WatchdogShuts
  <2>2. CASE WatchdogShuts /\ gShutdown
    BY <2>2, <1>1 DEF WatchdogShuts
  <2> QED
    BY <1>6, <1>1, <2>1, <2>2 DEF WatchdogStep, WatchdogExits, WatchdogEnds
<1>7. ASSUME NEW a \in Autos, AutoStep(a)
      PROVE  CancelInv'
  BY <1>7, <1>1 DEF AutoStep, LockToRun, RunEnds, UnlockRun, AutoFree,
     Register
<1>8. CASE Environment
  <2>1. ASSUME NEW t \in Servers, IndexRepository(t)
        PROVE  CancelInv'
    <3>1. CASE t = "main"
      <4>1. target < serial' /\ target' = target
        BY <2>1, <3>1 DEF IndexRepository
      <4>2. ~(sd = "cancel" /\ on = "main")
        BY <2>1, <3>1 DEF IndexRepository, Reads, Runs
      <4>3. sd' = sd /\ on' = on /\ serial' = serial + 1
        BY <2>1, <3>1 DEF IndexRepository
      <4> QED
        BY <4>1, <4>2, <4>3
    <3>2. CASE t = "http"
      BY <2>1, <3>2, <1>1 DEF IndexRepository
    <3> QED
      BY <3>1, <3>2 DEF Servers
  <2>2. ASSUME NEW t \in Servers, DeleteProject(t)
        PROVE  CancelInv'
    <3>1. CASE t = "main"
      BY <2>2, <3>1 DEF DeleteProject, Reads
    <3>2. CASE t = "http"
      BY <2>2, <3>2, <1>1 DEF DeleteProject
    <3> QED
      BY <3>1, <3>2 DEF Servers
  <2>3. CASE \E a \in Autos : AutoIndex(a)
    BY <2>3, <1>1 DEF AutoIndex
  <2>4. CASE LoopEnds
    BY <2>4 DEF LoopEnds
  <2>5. CASE \E t \in Threads : Signal(t)
    BY <2>5 DEF Signal
  <2> QED
    BY <1>8, <1>1, <2>1, <2>2, <2>3, <2>4, <2>5
       DEF Environment, ToolCalls, ClientCancels, Changed, StartJob, JobEnds,
           ParentDied
<1>9. CASE UNCHANGED vars
  BY <1>9, <1>1 DEF vars
<1> QED
  BY <1>2, <1>3, <1>4, <1>5, <1>6, <1>7, <1>8, <1>9 DEF Next

\* The run of main whose pipeline request_shutdown read is cancelled from
\* then on, and a handler on top of main itself never stores into a pipeline
\* that is gone.
THEOREM CancelReaches == Spec => []CancelTakesEffect
<1>1. Init => CancelInv
  BY DEF Init, CancelInv, CancelTakesEffect
<1>2. TypeOK /\ CancelInv /\ [Next]_vars => CancelInv'
  BY CancelStep
<1>3. CancelInv => CancelTakesEffect
  BY DEF CancelInv
<1> QED
  BY TypeCorrect, <1>1, <1>2, <1>3, PTL DEF Spec
=============================================================================
