------------------------------- MODULE Server -------------------------------
(***************************************************************************)
(* The process of codebase-memory-mcp (main.c): its threads, the index     *)
(* lock of pipeline.c, and the two ways it shuts down.                     *)
(*                                                                         *)
(*   main      the MCP message loop, then the joins and frees of main()    *)
(*   http      the UI server; its own MCP server handles POST /rpc         *)
(*   watcher   cbm_watcher_run, which calls watcher_index_fn               *)
(*   watchdog  parent_watchdog_thread, which exits the process             *)
(*   Autos     the auto-index threads started by initialize                *)
(*                                                                         *)
(* request_shutdown runs on the watchdog, or in a signal handler on top of *)
(* any thread, which then stands still.  What a run does to the database   *)
(* is IndexPipeline's subject and when the watcher calls is Watcher's.     *)
(***************************************************************************)
EXTENDS Integers, FiniteSets

CONSTANTS
    Autos,        \* the auto-index threads that may be started
    MaxRequests,  \* bound: tool calls that take the lock
    MaxJobs       \* index jobs of POST /api/index, MAX_INDEX_JOBS in the code

ASSUME ThreadsAssumption ==
    Autos \cap {"main", "http", "watcher", "watchdog", "none"} = {}
ASSUME BoundsAssumption == MaxRequests \in Nat /\ MaxJobs \in Nat

Threads   == Autos \cup {"main", "http", "watcher", "watchdog"}
Servers   == {"main", "http"}     \* the threads that handle tool calls
None      == "none"

VARIABLES
    \* g_pipeline_busy, g_shutdown, w->stopped, stop_flag of the UI server
    busy, gShutdown, stopped, httpStop,
    \* where each thread is
    pc,
    \* main's pipelines by number; srv->active_pipeline (0: NULL); the
    \* threads whose pipeline has its cancelled flag set
    serial, active, cancelled,
    \* srv->autoindex_tid of the thread main would join
    autoTid,
    \* request_shutdown: position, the thread it runs on, its pipeline pointer
    sd, on, target,
    \* stdin is open; notifications/cancelled waits in it
    stdin, notice,
    \* child processes of index jobs
    jobs,
    \* tool calls so far; the process is gone
    requests, exited

flags    == <<gShutdown, stopped, httpStop>>
handler  == <<sd, on, target>>
tracking == <<serial, active, cancelled>>
input    == <<stdin, notice, requests>>
vars     == <<busy, flags, pc, tracking, autoTid, handler, input, jobs,
              exited>>

----------------------------------------------------------------------------
MainPCs == {"serve", "lock", "track", "run", "untrack", "unlock", "free",
            "lockDelete", "delete", "joinDog", "joinHttp", "joinWatcher",
            "freeWatcher", "joinAuto", "return", "ended"}
HttpPCs == {"serve", "lock", "run", "unlock", "free", "lockDelete", "delete",
            "ended"}
WatcherPCs  == {"sleep", "check", "try", "run", "unlock", "ended"}
WatchdogPCs == {"poll", "orphan", "shut", "ended"}
AutoPCs     == {"unborn", "lock", "run", "unlock", "free", "register",
                "ended"}
ShutdownPCs == {"off", "read", "cancel", "unlock", "stop", "close", "done"}

\* The threads between taking the lock and giving it back.
InsidePCs == {"track", "run", "untrack", "unlock", "delete"}
Inside    == {t \in Threads : pc[t] \in InsidePCs}

\* Those that write the database.
Writers == {t \in Threads : pc[t] \in {"run", "delete"}}

\* request_shutdown has given the lock back.
Released == sd \in {"stop", "close", "done"}

\* main's current pipeline is allocated.
PipelineLive ==
    pc["main"] \in {"lock", "track", "run", "untrack", "unlock", "free"}

\* cbm_watcher_free and cbm_mcp_server_free have returned.
WatcherFreed == pc["main"] \in {"joinAuto", "return"}
ServerFreed  == pc["main"] = "return"

\* The process is there, and thread t is not below the signal handler.
Runs(t) ==
    /\ ~exited
    /\ on # t \/ sd \in {"off", "done"}

Goto(t, label) == pc' = [pc EXCEPT ![t] = label]

\* Any of the background threads may have failed to start; none is needed.
Init ==
    /\ busy = FALSE /\ gShutdown = FALSE /\ stopped = FALSE
    /\ httpStop = FALSE
    /\ pc \in [Threads -> {"serve", "sleep", "poll", "unborn", "ended"}]
    /\ pc["main"] = "serve" /\ pc["http"] \in {"serve", "ended"}
    /\ pc["watcher"] \in {"sleep", "ended"}
    /\ pc["watchdog"] \in {"poll", "ended"}
    /\ \A a \in Autos : pc[a] = "unborn"
    /\ serial = 0 /\ active = 0 /\ cancelled = {}
    /\ autoTid = None
    /\ sd = "off" /\ on = None /\ target = 0
    /\ stdin = TRUE /\ notice = FALSE
    /\ jobs = 0 /\ requests = 0 /\ exited = FALSE

----------------------------------------------------------------------------
(* The index lock.                                                         *)

\* cbm_pipeline_lock: one exchange that finds 0.
Lock(t, label) ==
    /\ ~busy /\ busy' = TRUE
    /\ Goto(t, label)

\* cbm_pipeline_unlock stores 0, whoever holds it.
Unlock(t, label) ==
    /\ busy' = FALSE
    /\ Goto(t, label)

----------------------------------------------------------------------------
(* Tool calls: index_repository and delete_project.                        *)

\* The next line of main's input is the one sent first; the UI server looks
\* at its flag before every request.
Reads(t) ==
    /\ Runs(t) /\ pc[t] = "serve"
    /\ t = "main" => stdin /\ ~notice
    /\ t = "http" => ~httpStop

\* handle_index_repository, up to the lock.
IndexRepository(t) ==
    /\ Reads(t)
    /\ requests < MaxRequests /\ requests' = requests + 1
    /\ Goto(t, "lock")
    /\ serial' = IF t = "main" THEN serial + 1 ELSE serial
    /\ UNCHANGED <<busy, flags, active, cancelled, autoTid, handler, stdin,
                   notice, jobs, exited>>

\* The active pipeline of the UI's MCP server is read by nobody.
LockToRun(t) ==
    /\ Runs(t) /\ pc[t] = "lock"
    /\ Lock(t, IF t = "main" THEN "track" ELSE "run")
    /\ UNCHANGED <<flags, tracking, autoTid, handler, input, jobs, exited>>

Track ==
    /\ Runs("main") /\ pc["main"] = "track"
    /\ active' = serial /\ Goto("main", "run")
    /\ UNCHANGED <<busy, flags, serial, cancelled, autoTid, handler, input,
                   jobs, exited>>

\* cbm_pipeline_run returns: done, failed or cancelled.
RunEnds(t) ==
    /\ Runs(t) /\ pc[t] = "run"
    /\ Goto(t, IF t = "main" THEN "untrack" ELSE "unlock")
    /\ UNCHANGED <<busy, flags, tracking, autoTid, handler, input, jobs,
                   exited>>

\* Faulty variant: the pointer stays.
UntrackKeeps ==
    /\ Runs("main") /\ pc["main"] = "untrack"
    /\ Goto("main", "unlock")
    /\ UNCHANGED <<busy, flags, tracking, autoTid, handler, input, jobs,
                   exited>>

Untrack ==
    /\ Runs("main") /\ pc["main"] = "untrack"
    /\ active' = 0 /\ Goto("main", "unlock")
    /\ UNCHANGED <<busy, flags, serial, cancelled, autoTid, handler, input,
                   jobs, exited>>

UnlockRun(t) ==
    /\ t # "watcher" /\ Runs(t) /\ pc[t] = "unlock"
    /\ Unlock(t, "free")
    /\ UNCHANGED <<flags, tracking, autoTid, handler, input, jobs, exited>>

\* The answer is built and the pipeline freed.
FreePipeline(t) ==
    /\ t \in Servers /\ Runs(t) /\ pc[t] = "free"
    /\ Goto(t, "serve")
    /\ cancelled' = cancelled \ {t}
    /\ UNCHANGED <<busy, flags, serial, active, autoTid, handler, input,
                   jobs, exited>>

DeleteProject(t) ==
    /\ Reads(t)
    /\ requests < MaxRequests /\ requests' = requests + 1
    /\ Goto(t, "lockDelete")
    /\ UNCHANGED <<busy, flags, tracking, autoTid, handler, stdin, notice,
                   jobs, exited>>

LockToDelete(t) ==
    /\ Runs(t) /\ pc[t] = "lockDelete"
    /\ Lock(t, "delete")
    /\ UNCHANGED <<flags, tracking, autoTid, handler, input, jobs, exited>>

DeleteEnds(t) ==
    /\ Runs(t) /\ pc[t] = "delete"
    /\ Unlock(t, "serve")
    /\ UNCHANGED <<flags, tracking, autoTid, handler, input, jobs, exited>>

\* The client gives up the call that is going on.
ClientCancels ==
    /\ ~exited /\ stdin /\ ~notice
    /\ pc["main"] \in {"lock", "track", "run", "untrack", "unlock", "free"}
    /\ notice' = TRUE
    /\ UNCHANGED <<busy, flags, pc, tracking, autoTid, handler, stdin,
                   requests, jobs, exited>>

\* cbm_mcp_server_handle on notifications/cancelled: between two calls.
ReadNotice ==
    /\ Runs("main") /\ pc["main"] = "serve" /\ stdin /\ notice
    /\ notice' = FALSE
    /\ cancelled' = IF active # 0 THEN cancelled \cup {"main"} ELSE cancelled
    /\ UNCHANGED <<busy, flags, pc, serial, active, autoTid, handler, stdin,
                   requests, jobs, exited>>

----------------------------------------------------------------------------
(* Auto-indexing: maybe_auto_index and autoindex_thread.                   *)

\* initialize finds no database.  The thread id of an earlier initialize is
\* overwritten.
AutoIndex(a) ==
    /\ Reads("main") /\ pc[a] = "unborn"
    /\ Goto(a, "lock")
    /\ autoTid' = a
    /\ UNCHANGED <<busy, flags, tracking, handler, input, jobs, exited>>

\* The pipeline is freed; after a success srv and its watcher are used.
AutoFree(a) ==
    /\ Runs(a) /\ pc[a] = "free"
    /\ \/ Goto(a, "register")
       \/ Goto(a, "ended")
    /\ UNCHANGED <<busy, flags, tracking, autoTid, handler, input, jobs,
                   exited>>

\* cbm_watcher_watch.
Register(a) ==
    /\ Runs(a) /\ pc[a] = "register"
    /\ Goto(a, "ended")
    /\ UNCHANGED <<busy, flags, tracking, autoTid, handler, input, jobs,
                   exited>>

----------------------------------------------------------------------------
(* The watcher thread and watcher_index_fn.                                *)

\* A poll found a change.
Changed ==
    /\ Runs("watcher") /\ pc["watcher"] = "sleep" /\ ~stopped
    /\ Goto("watcher", "check")
    /\ UNCHANGED <<busy, flags, tracking, autoTid, handler, input, jobs,
                   exited>>

CheckShutdown ==
    /\ Runs("watcher") /\ pc["watcher"] = "check"
    /\ Goto("watcher", IF gShutdown THEN "sleep" ELSE "try")
    /\ UNCHANGED <<busy, flags, tracking, autoTid, handler, input, jobs,
                   exited>>

\* Faulty variant: a lock that is not got is given back.
TryLockUnlocks ==
    /\ Runs("watcher") /\ pc["watcher"] = "try"
    /\ IF busy THEN Unlock("watcher", "sleep")
       ELSE Lock("watcher", "run") \/ Lock("watcher", "unlock")
    /\ UNCHANGED <<flags, tracking, autoTid, handler, input, jobs, exited>>

\* Faulty variant: without a pipeline the thread returns at once.
TryLockKeeps ==
    /\ Runs("watcher") /\ pc["watcher"] = "try"
    /\ IF busy THEN Goto("watcher", "sleep") /\ UNCHANGED busy
       ELSE Lock("watcher", "run") \/ Lock("watcher", "sleep")
    /\ UNCHANGED <<flags, tracking, autoTid, handler, input, jobs, exited>>

\* cbm_pipeline_try_lock; there may be no memory for the pipeline.
TryLock ==
    /\ Runs("watcher") /\ pc["watcher"] = "try"
    /\ IF busy THEN Goto("watcher", "sleep") /\ UNCHANGED busy
       ELSE Lock("watcher", "run") \/ Lock("watcher", "unlock")
    /\ UNCHANGED <<flags, tracking, autoTid, handler, input, jobs, exited>>

UnlockWatcher ==
    /\ Runs("watcher") /\ pc["watcher"] = "unlock"
    /\ Unlock("watcher", "sleep")
    /\ UNCHANGED <<flags, tracking, autoTid, handler, input, jobs, exited>>

WatcherEnds ==
    /\ Runs("watcher") /\ pc["watcher"] = "sleep" /\ stopped
    /\ Goto("watcher", "ended")
    /\ UNCHANGED <<busy, flags, tracking, autoTid, handler, input, jobs,
                   exited>>

----------------------------------------------------------------------------
(* The UI server.                                                          *)

\* POST /api/index: a job thread forks a process with a lock of its own.
StartJob ==
    /\ Runs("http") /\ pc["http"] = "serve" /\ ~httpStop
    /\ jobs < MaxJobs /\ jobs' = jobs + 1
    /\ UNCHANGED <<busy, flags, pc, tracking, autoTid, handler, input,
                   exited>>

JobEnds ==
    /\ jobs > 0 /\ jobs' = jobs - 1
    /\ UNCHANGED <<busy, flags, pc, tracking, autoTid, handler, input,
                   exited>>

HttpEnds ==
    /\ Runs("http") /\ pc["http"] = "serve" /\ httpStop
    /\ Goto("http", "ended")
    /\ UNCHANGED <<busy, flags, tracking, autoTid, handler, input, jobs,
                   exited>>

----------------------------------------------------------------------------
(* request_shutdown.  The exchange of g_shutdown lets one caller through.  *)

\* Faulty variant: the exchange is not looked at.
SignalAgain(t) ==
    /\ Runs(t) /\ pc[t] \notin {"unborn", "ended"}
    /\ sd \in {"off", "done"} /\ gShutdown' = TRUE
    /\ sd' = "read" /\ on' = t
    /\ UNCHANGED <<busy, stopped, httpStop, pc, tracking, autoTid, target,
                   input, jobs, exited>>

\* SIGTERM or SIGINT is delivered to a thread of the process.
Signal(t) ==
    /\ Runs(t) /\ pc[t] \notin {"unborn", "ended"}
    /\ ~gShutdown /\ gShutdown' = TRUE
    /\ sd' = "read" /\ on' = t
    /\ UNCHANGED <<busy, stopped, httpStop, pc, tracking, autoTid, target,
                   input, jobs, exited>>

\* The parent of the process has changed.
ParentDied ==
    /\ Runs("watchdog") /\ pc["watchdog"] = "poll" /\ ~gShutdown
    /\ Goto("watchdog", "orphan")
    /\ UNCHANGED <<busy, flags, tracking, autoTid, handler, input, jobs,
                   exited>>

\* Somebody else may be shutting down by now.
WatchdogShuts ==
    /\ Runs("watchdog") /\ pc["watchdog"] = "orphan"
    /\ Goto("watchdog", "shut")
    /\ IF gShutdown THEN UNCHANGED <<gShutdown, sd, on>>
       ELSE gShutdown' = TRUE /\ sd' = "read" /\ on' = "watchdog"
    /\ UNCHANGED <<busy, stopped, httpStop, tracking, autoTid, target, input,
                   jobs, exited>>

ReadActive ==
    /\ ~exited /\ sd = "read"
    /\ target' = active
    /\ sd' = IF active = 0 THEN "unlock" ELSE "cancel"
    /\ UNCHANGED <<busy, flags, pc, tracking, autoTid, on, input, jobs,
                   exited>>

\* A store into the pipeline, or into freed memory.
CancelActive ==
    /\ ~exited /\ sd = "cancel"
    /\ cancelled' = IF PipelineLive /\ target = serial
                    THEN cancelled \cup {"main"} ELSE cancelled
    /\ sd' = "unlock"
    /\ UNCHANGED <<busy, flags, pc, serial, active, autoTid, on, target,
                   input, jobs, exited>>

\* cbm_pipeline_unlock, whoever holds the lock.
ForceUnlock ==
    /\ ~exited /\ sd = "unlock"
    /\ busy' = FALSE
    /\ sd' = "stop"
    /\ UNCHANGED <<flags, pc, tracking, autoTid, on, target, input, jobs,
                   exited>>

StopServers ==
    /\ ~exited /\ sd = "stop"
    /\ stopped' = TRUE /\ httpStop' = TRUE
    /\ sd' = "close"
    /\ UNCHANGED <<busy, gShutdown, pc, tracking, autoTid, on, target, input,
                   jobs, exited>>

CloseStdin ==
    /\ ~exited /\ sd = "close"
    /\ stdin' = FALSE /\ notice' = FALSE
    /\ sd' = "done"
    /\ UNCHANGED <<busy, flags, pc, tracking, autoTid, on, target, requests,
                   jobs, exited>>

\* exit(0), without waiting for anybody.
WatchdogExits ==
    /\ Runs("watchdog") /\ pc["watchdog"] = "shut"
    /\ exited' = TRUE
    /\ UNCHANGED <<busy, flags, pc, tracking, autoTid, handler, input, jobs>>

WatchdogEnds ==
    /\ Runs("watchdog") /\ pc["watchdog"] = "poll" /\ gShutdown
    /\ Goto("watchdog", "ended")
    /\ UNCHANGED <<busy, flags, tracking, autoTid, handler, input, jobs,
                   exited>>

----------------------------------------------------------------------------
(* The end of main().                                                      *)

\* End of file, or the closed stdin.
LoopEnds ==
    /\ Runs("main") /\ pc["main"] = "serve"
    /\ gShutdown' = TRUE
    /\ Goto("main", "joinDog")
    /\ UNCHANGED <<busy, stopped, httpStop, tracking, autoTid, handler,
                   input, jobs, exited>>

JoinWatchdog ==
    /\ Runs("main") /\ pc["main"] = "joinDog" /\ pc["watchdog"] = "ended"
    /\ httpStop' = TRUE
    /\ Goto("main", "joinHttp")
    /\ UNCHANGED <<busy, gShutdown, stopped, tracking, autoTid, handler,
                   input, jobs, exited>>

\* Faulty variant: the watcher is not told to stop.
JoinHttpOnly ==
    /\ Runs("main") /\ pc["main"] = "joinHttp" /\ pc["http"] = "ended"
    /\ Goto("main", "joinWatcher")
    /\ UNCHANGED <<busy, flags, tracking, autoTid, handler, input, jobs,
                   exited>>

JoinHttp ==
    /\ Runs("main") /\ pc["main"] = "joinHttp" /\ pc["http"] = "ended"
    /\ stopped' = TRUE
    /\ Goto("main", "joinWatcher")
    /\ UNCHANGED <<busy, gShutdown, httpStop, tracking, autoTid, handler,
                   input, jobs, exited>>

\* Faulty variant: the thread is only told to stop.
JoinWatcherNot ==
    /\ Runs("main") /\ pc["main"] = "joinWatcher"
    /\ Goto("main", "freeWatcher")
    /\ UNCHANGED <<busy, flags, tracking, autoTid, handler, input, jobs,
                   exited>>

JoinWatcher ==
    /\ Runs("main") /\ pc["main"] = "joinWatcher" /\ pc["watcher"] = "ended"
    /\ Goto("main", "freeWatcher")
    /\ UNCHANGED <<busy, flags, tracking, autoTid, handler, input, jobs,
                   exited>>

FreeWatcher ==
    /\ Runs("main") /\ pc["main"] = "freeWatcher"
    /\ Goto("main", "joinAuto")
    /\ UNCHANGED <<busy, flags, tracking, autoTid, handler, input, jobs,
                   exited>>

\* cbm_mcp_server_free joins the auto-index thread whose id it has.
JoinAuto ==
    /\ Runs("main") /\ pc["main"] = "joinAuto"
    /\ autoTid # None => pc[autoTid] = "ended"
    /\ Goto("main", "return")
    /\ UNCHANGED <<busy, flags, tracking, autoTid, handler, input, jobs,
                   exited>>

Return ==
    /\ Runs("main") /\ pc["main"] = "return"
    /\ exited' = TRUE
    /\ UNCHANGED <<busy, flags, pc, tracking, autoTid, handler, input, jobs>>

----------------------------------------------------------------------------
ToolCalls ==
    \E t \in Servers :
        IndexRepository(t) \/ DeleteProject(t)

CallStep(t) ==
    \/ LockToRun(t) \/ RunEnds(t) \/ UnlockRun(t) \/ FreePipeline(t)
    \/ LockToDelete(t) \/ DeleteEnds(t)

MainStep ==
    \/ CallStep("main") \/ Track \/ Untrack \/ ReadNotice
    \/ ~stdin /\ LoopEnds
    \/ JoinWatchdog \/ JoinHttp \/ JoinWatcher \/ FreeWatcher \/ JoinAuto
    \/ Return

HttpStep == CallStep("http") \/ HttpEnds

AutoStep(a) ==
    LockToRun(a) \/ RunEnds(a) \/ UnlockRun(a) \/ AutoFree(a) \/ Register(a)

WatcherStep ==
    \/ CheckShutdown \/ TryLock \/ RunEnds("watcher") \/ UnlockWatcher
    \/ WatcherEnds

ShutdownStep ==
    ReadActive \/ CancelActive \/ ForceUnlock \/ StopServers \/ CloseStdin

WatchdogStep == WatchdogShuts \/ WatchdogExits \/ WatchdogEnds

\* What nobody has to do.
Environment ==
    \/ ToolCalls \/ ClientCancels
    \/ \E a \in Autos : AutoIndex(a)
    \/ Changed \/ StartJob \/ JobEnds
    \/ \E t \in Threads : Signal(t)
    \/ ParentDied \/ LoopEnds

Next ==
    \/ MainStep \/ HttpStep \/ WatcherStep \/ ShutdownStep \/ WatchdogStep
    \/ \E a \in Autos : AutoStep(a)
    \/ Environment

Spec == Init /\ [][Next]_vars

\* Threads are scheduled and runs end; nobody has to send or signal anything.
FairSpec ==
    /\ Spec
    /\ WF_vars(MainStep) /\ WF_vars(HttpStep) /\ WF_vars(WatcherStep)
    /\ WF_vars(ShutdownStep) /\ WF_vars(WatchdogStep)
    /\ \A a \in Autos : WF_vars(AutoStep(a))
----------------------------------------------------------------------------
(* Properties.                                                             *)

PCs == MainPCs \cup HttpPCs \cup WatcherPCs \cup WatchdogPCs \cup AutoPCs

\* A thread is where its code has a place.
PlacesOK ==
    /\ pc \in [Threads -> PCs]
    /\ pc["main"] \in MainPCs /\ pc["http"] \in HttpPCs
    /\ pc["watcher"] \in WatcherPCs /\ pc["watchdog"] \in WatchdogPCs
    /\ \A a \in Autos : pc[a] \in AutoPCs

FlagsOK ==
    /\ busy \in BOOLEAN /\ gShutdown \in BOOLEAN
    /\ stopped \in BOOLEAN /\ httpStop \in BOOLEAN
    /\ stdin \in BOOLEAN /\ notice \in BOOLEAN
    /\ jobs \in 0..MaxJobs /\ exited \in BOOLEAN

\* srv->active_pipeline is main's current pipeline while that runs.
TrackingOK ==
    /\ requests \in 0..MaxRequests /\ serial \in 0..requests
    /\ active = IF pc["main"] \in {"run", "untrack"} THEN serial ELSE 0
    /\ cancelled \subseteq {"main"}

ShutdownOK ==
    /\ sd \in ShutdownPCs /\ on \in Threads \cup {None}
    /\ target \in 0..serial
    /\ sd # "off" => gShutdown

AutoOK ==
    /\ autoTid \in Autos \cup {None}
    /\ autoTid # None => pc[autoTid] # "unborn"

\* Every variable holds a value of its kind, every thread is where its code
\* has a place, and the pointer that request_shutdown reads is right.
TypeOK == PlacesOK /\ FlagsOK /\ TrackingOK /\ ShutdownOK /\ AutoOK

AtMostOne(S) == \A t, u \in S : t = u
AtMostTwo(S) == \A t, u, v \in S : t = u \/ t = v \/ u = v

\* The lock keeps runs and deletions apart until request_shutdown forces it
\* open; that costs one intruder, however the threads unlock after it.
Exclusion == IF Released THEN AtMostTwo(Writers) ELSE AtMostOne(Writers)

\* The lock is never left taken with nobody inside, through failed runs, runs
\* that could not start and the forced unlock.
NoStaleLock == busy => Inside # {}

\* The server is an implementation of the gate.
Gate == INSTANCE IndexGate WITH inside <- Inside, forced <- Released

ImplementsGate == Gate!Spec

\* The cancellation of request_shutdown arrives: the run of main whose
\* pipeline it read is cancelled from then on, and a handler that interrupts
\* main itself finds that pipeline allocated.  (A handler on another thread
\* may not: CancelsInProgress.)
CancelTakesEffect ==
    /\ sd = "cancel" /\ on = "main" => PipelineLive /\ target = serial
    /\ (/\ sd \in {"unlock", "stop", "close", "done"}
        /\ target # 0 /\ target = serial
        /\ pc["main"] \in {"run", "untrack", "unlock"}) => "main" \in cancelled

\* When main() is about to return, every thread has ended, but for an
\* auto-index thread whose id a second initialize has overwritten.
ReturnIsClean ==
    pc["main"] = "return" =>
        \A t \in Threads \ {"main"} :
            pc[t] \in {"ended", "unborn"} \/ (t \in Autos /\ t # autoTid)

\* A shutdown comes to its end, through runs that nobody cancels.
ShutdownEnds == gShutdown ~> exited

\* pipeline.h: "Index lock (prevents concurrent pipeline runs on same DB)",
\* within the process.
OneRunAtATime == AtMostOne(Writers)

\* The same, counting the runs that the UI starts.
OneRunOfAnyProcess ==
    ~Released => jobs <= 1 /\ (jobs = 1 => Writers = {})

\* main.c: "Cancel any in-progress pipeline".
AnyRunIsCancelled ==
    sd = "unlock" => \A t \in Threads : pc[t] = "run" => t \in cancelled

\* The pipeline request_shutdown cancels is still there.
CancelsInProgress == sd = "cancel" => PipelineLive /\ target = serial

\* mcp.c: "Register with watcher for ongoing change detection": with one that
\* has not been freed.
RegistersWithLive ==
    \A a \in Autos : pc[a] = "register" => ~WatcherFreed

\* mcp.c: "Track active pipeline so signal handler and
\* notifications/cancelled can cancel it mid-run".
CancelReachesRun ==
    [][pc["main"] = "run" /\ notice /\ pc'["main"] = "untrack"
        => "main" \in cancelled]_vars
=============================================================================
