------------------------------ MODULE IndexJobs ------------------------------
(***************************************************************************)
(* Indexing as a job of a table with a few slots, started by a request and *)
(* carried out by a child process.  There are two such tables: the one of  *)
(* the HTTP UI server in C, with a thread per job, and the one of the      *)
(* Dashboard API in TypeScript, with event handlers.  They share nothing,  *)
(* so a behaviour is one of either.  The Dashboard's page polls its table; *)
(* answers may overtake each other.                                        *)
(***************************************************************************)
EXTENDS Integers, FiniteSets

CONSTANTS
    MaxSlots,      \* MAX_INDEX_JOBS and MAX_JOBS
    MaxProcesses,  \* bound: children of the Dashboard at the same time
    MaxInFlight    \* bound: answers on their way to the page

ASSUME JobsAssumption ==
    MaxSlots \in Nat \ {0} /\ MaxProcesses \in Nat /\ MaxInFlight \in Nat

Slots    == 1..MaxSlots
Statuses == {"idle", "running", "done", "error"}
Codes    == {"none", "zero", "nonzero", "signal"}

\* A child of a slot: where it and its thread or handlers are, how it ended,
\* and (history) whether the slot is still that of its job.
Process == [slot : Slots, own : BOOLEAN,
            phase : {"thread", "running", "ended", "reaped", "failed"},
            code : Codes]

VARIABLES
    server,      \* whose table it is
    status,      \* the table
    processes,   \* the children
    inFlight,    \* answers of /api/index-status that the page has not seen
    shown,       \* the jobs on the page
    hadRunning,  \* hadRunningRef of useIndexStatus
    owed,        \* history: no reload of the projects since a job ended
    succeeded,   \* history: slots whose job has ended with exit code 0
    spawnFailed, \* history: the Dashboard could not start a child
    lost         \* history: slots marked running by a start that then threw

table  == <<status, processes>>
page   == <<inFlight, shown, hadRunning, owed>>
starts == <<spawnFailed, lost>>
vars   == <<server, table, page, succeeded, starts>>

Init ==
    /\ server \in {"ui", "dash"}
    /\ status = [i \in Slots |-> "idle"]
    /\ processes = {}
    /\ inFlight = {} /\ shown = [i \in Slots |-> "idle"]
    /\ hadRunning = FALSE /\ owed = FALSE
    /\ succeeded = {}
    /\ spawnFailed = FALSE /\ lost = {}

----------------------------------------------------------------------------
\* Faulty variant: a full table is not noticed.
FreeSlotUnchecked ==
    LET free == {i \in Slots : status[i] # "running"}
    IN  IF free = {} THEN {0} ELSE {i \in free : \A j \in free : i <= j}

\* The first slot whose job is not running.
FreeSlot ==
    LET free == {i \in Slots : status[i] # "running"}
    IN  {i \in free : \A j \in free : i <= j}

SetStatus(i, s) == status' = [status EXCEPT ![i] = s]

\* The children, none of which is that of slot i any more.
Disowned(i) ==
    {IF p.slot = i THEN [p EXCEPT !.own = FALSE] ELSE p : p \in processes}

\* A new process; whatever belonged to the slot is somebody else's now.
Enter(i, phase) ==
    processes' = Disowned(i)
        \cup {[slot |-> i, own |-> TRUE, phase |-> phase, code |-> "none"]}

Become(p, q) ==
    processes' = (processes \ {p}) \cup {q}

Leave(p) == processes' = processes \ {p}

\* The truth about the job of p's slot, when p is its process.
Ended(p, code) ==
    succeeded' = IF p.own /\ code = "zero" THEN succeeded \cup {p.slot}
                 ELSE succeeded

\* Faulty variant: the thread marks the slot, not the request.
BeginUnmarked(i, phase) ==
    /\ UNCHANGED status
    /\ succeeded' = succeeded \ {i}
    /\ Enter(i, phase)

Begin(i, phase) ==
    /\ SetStatus(i, "running")
    /\ succeeded' = succeeded \ {i}
    /\ Enter(i, phase)

\* A child ends by itself, with any exit code.
ChildEnds(p) ==
    /\ p \in processes /\ p.phase = "running"
    /\ \E code \in {"zero", "nonzero", "signal"} :
         /\ Become(p, [p EXCEPT !.phase = "ended", !.code = code])
         /\ Ended(p, code)
    /\ UNCHANGED <<status, page, starts>>

----------------------------------------------------------------------------
(* The UI server.                                                          *)

\* handle_index_start, on the one thread that handles requests; the thread
\* of the job may fail to start.
UiStart ==
    /\ server = "ui"
    /\ \E i \in FreeSlot :
         \/ Begin(i, "thread")
         \/ /\ SetStatus(i, "error")
            /\ succeeded' = succeeded \ {i}
            /\ UNCHANGED processes
    /\ UNCHANGED <<server, page, starts>>

UiFork(p) ==
    /\ p \in processes /\ p.phase = "thread"
    /\ Become(p, [p EXCEPT !.phase = "running"])
    /\ UNCHANGED <<status, page, succeeded, starts>>

UiForkFails(p) ==
    /\ p \in processes /\ p.phase = "thread"
    /\ SetStatus(p.slot, "error")
    /\ Leave(p)
    /\ UNCHANGED <<page, succeeded, starts>>

\* POST /api/process-kill: only for a child of a running job.
UiKill(p) ==
    /\ server = "ui"
    /\ p \in processes /\ p.phase = "running"
    /\ status[p.slot] = "running"
    /\ Become(p, [p EXCEPT !.phase = "ended", !.code = "signal"])
    /\ Ended(p, "signal")
    /\ UNCHANGED <<server, status, page, starts>>

\* waitpid with WNOHANG in the loop reaps the child, into a status word that
\* lives in the loop.
UiReap(p) ==
    /\ p \in processes /\ p.phase = "ended"
    /\ Become(p, [p EXCEPT !.phase = "reaped"])
    /\ UNCHANGED <<status, page, succeeded, starts>>

\* The second waitpid finds no child and leaves the status word 0: an exit
\* with code 0.
UiFinish(p) ==
    /\ p \in processes /\ p.phase = "reaped"
    /\ SetStatus(p.slot, "done")
    /\ Leave(p)
    /\ UNCHANGED <<page, succeeded, starts>>

----------------------------------------------------------------------------
(* The Dashboard API.                                                      *)

\* startIndex.  Most reasons why a program cannot be started are reported
\* later, by an event.
DashStart ==
    /\ server = "dash"
    /\ Cardinality(processes) < MaxProcesses
    /\ \E i \in FreeSlot :
         /\ \/ Begin(i, "running") /\ UNCHANGED spawnFailed
            \/ Begin(i, "thread") /\ spawnFailed' = TRUE
         /\ lost' = lost \ {i}
    /\ hadRunning' = TRUE
    /\ UNCHANGED <<server, inFlight, shown, owed>>

\* startIndex throws after it has marked the slot: projectName or mode is not
\* a string, or spawn throws by itself.  The request is answered with 500 and
\* the slot is left without a child that could end.
DashStartThrows ==
    /\ server = "dash"
    /\ \E i \in FreeSlot :
         /\ SetStatus(i, "running")
         /\ succeeded' = succeeded \ {i}
         /\ processes' = Disowned(i)
         /\ lost' = lost \cup {i}
    /\ UNCHANGED <<server, page, spawnFailed>>

\* The "error" event of a child that was not started ...
DashError(p) ==
    /\ p \in processes /\ p.phase = "thread"
    /\ SetStatus(p.slot, "error")
    /\ Become(p, [p EXCEPT !.phase = "failed", !.code = "nonzero"])
    /\ Ended(p, "nonzero")
    /\ UNCHANGED <<page, starts>>

\* Faulty variant: only exit codes are looked at, and a signal has none.
DashCloseSignal(p) ==
    /\ p \in processes /\ p.phase \in {"ended", "failed"}
    /\ SetStatus(p.slot,
                 IF p.code \in {"zero", "signal"} THEN "done" ELSE "error")
    /\ Leave(p)
    /\ owed' = TRUE
    /\ UNCHANGED <<inFlight, shown, hadRunning, succeeded, starts>>

\* Faulty variant: the handler returns when there is no exit code.
DashCloseReturns(p) ==
    /\ p \in processes /\ p.phase \in {"ended", "failed"}
    /\ IF p.code = "signal" THEN UNCHANGED status
       ELSE SetStatus(p.slot, IF p.code = "zero" THEN "done" ELSE "error")
    /\ Leave(p)
    /\ owed' = TRUE
    /\ UNCHANGED <<inFlight, shown, hadRunning, succeeded, starts>>

\* ... and the "close" event, which comes last in every case and writes to
\* the slot it was given at the start.
DashClose(p) ==
    /\ p \in processes /\ p.phase \in {"ended", "failed"}
    /\ SetStatus(p.slot, IF p.code = "zero" THEN "done" ELSE "error")
    /\ Leave(p)
    /\ owed' = TRUE
    /\ UNCHANGED <<inFlight, shown, hadRunning, succeeded, starts>>

----------------------------------------------------------------------------
(* useIndexStatus on the page.                                             *)

\* A poll is answered with the table of this moment.
Poll ==
    /\ server = "dash"
    /\ Cardinality(inFlight) < MaxInFlight
    /\ inFlight' = inFlight \cup {status}
    /\ UNCHANGED <<server, table, shown, hadRunning, owed, succeeded, starts>>

SomeRunning(jobs) == \E i \in Slots : jobs[i] = "running"

\* Faulty variant: an answer without a running job is not shown.
ReceiveIfRunning(jobs) ==
    /\ jobs \in inFlight
    /\ inFlight' = inFlight \ {jobs}
    /\ shown' = IF SomeRunning(jobs) THEN jobs ELSE shown
    /\ hadRunning' = SomeRunning(jobs)
    /\ UNCHANGED <<server, table, owed, succeeded, starts>>

\* An answer is shown; the first one without a running job after one with a
\* running job reloads the projects (onJobsFinished).
Receive(jobs) ==
    /\ jobs \in inFlight
    /\ inFlight' = inFlight \ {jobs}
    /\ shown' = jobs
    /\ hadRunning' = SomeRunning(jobs)
    /\ owed' = (owed /\ ~(hadRunning /\ ~SomeRunning(jobs)))
    /\ UNCHANGED <<server, table, succeeded, starts>>

----------------------------------------------------------------------------
Jobs == [Slots -> Statuses]

\* A step of a thread of the UI server, or of its child.
Worker(p) ==
    /\ server = "ui" /\ UNCHANGED server
    /\ ChildEnds(p) \/ UiFork(p) \/ UiForkFails(p) \/ UiReap(p) \/ UiFinish(p)

\* A step of a child of the Dashboard, or of an event handler for it.
Event(p) ==
    /\ server = "dash" /\ UNCHANGED server
    /\ ChildEnds(p) \/ DashError(p) \/ DashClose(p)

Next ==
    \/ UiStart \/ DashStart \/ DashStartThrows \/ Poll
    \/ \E p \in processes : Worker(p) \/ UiKill(p) \/ Event(p)
    \/ \E jobs \in inFlight : Receive(jobs)

\* Threads and event loops are scheduled, children end, the interval timer
\* fires and every answer arrives.
Fairness ==
    /\ \A i \in Slots :
         /\ WF_vars(\E p \in processes : p.slot = i /\ Worker(p))
         /\ WF_vars(\E p \in processes : p.slot = i /\ Event(p))
    /\ WF_vars(Poll)
    /\ \A jobs \in Jobs : WF_vars(Receive(jobs))

Spec == Init /\ [][Next]_vars
FairSpec == Spec /\ Fairness
----------------------------------------------------------------------------
(* Properties.                                                             *)

\* Every variable holds a value of its kind.
TypeOK ==
    /\ server \in {"ui", "dash"}
    /\ status \in Jobs /\ processes \subseteq Process
    /\ inFlight \subseteq Jobs /\ shown \in Jobs /\ hadRunning \in BOOLEAN
    /\ owed \in BOOLEAN
    /\ succeeded \subseteq Slots
    /\ spawnFailed \in BOOLEAN /\ lost \subseteq Slots

\* The slots whose job has the thread or the child that will end it.
Attended == {p.slot : p \in {q \in processes : q.own}}

\* A slot is handed out only when nothing can write to it for its last job
\* any more, and a slot is running exactly while it has its one process:
\* requests, threads and events agree on whose slot it is.  The exceptions are
\* the Dashboard's: a child that could not be started, whose two events end
\* its job twice, and a slot whose start threw (lost), which has no process.
SlotsExclusive ==
    ~spawnFailed
        => /\ \A p \in processes : p.own /\ status[p.slot] = "running"
           /\ \A p, q \in processes : p.slot = q.slot => p = q
           /\ \A i \in Slots \ lost :
                status[i] = "running" => i \in Attended

VerdictsTrue ==
    \A i \in Slots :
        /\ status[i] = "done" => i \in succeeded
        /\ status[i] = "error" => i \notin succeeded

\* The Dashboard calls a job done when its child exited with 0 and only then,
\* also when it was killed, as long as every child could be started.
DashboardTellsTruth == (server = "dash" /\ ~spawnFailed) => VerdictsTrue

\* A job whose start did not throw comes to an end in its table, however its
\* thread, its child and the events of an earlier child of the slot interleave.
\* A start that throws after its slot was marked loses the slot: see
\* EveryJobEnds.
JobsEnd ==
    \A i \in Slots :
        (status[i] = "running" /\ i \notin lost) ~> status[i] # "running"

\* When no job runs any more the page comes to show what the table says,
\* however many polls are under way and in whatever order they return.
StatusConverges ==
    <>[](server = "dash" /\ ~SomeRunning(status)) => <>[](shown = status)

\* index_job_t: 2=done, 3=error, for the exit code of the child.
UiTellsTruth == server = "ui" => VerdictsTrue

\* useIndexStatus: after the last job the page reloads the projects.
PageReloads == []<>~owed

\* Every job of the table comes to an end, so that "all index slots busy" says
\* that as many jobs are under way.
EveryJobEnds ==
    \A i \in Slots : status[i] = "running" ~> status[i] # "running"

\* The Dashboard tells the truth even when a child could not be started.
DashboardAlwaysTellsTruth == server = "dash" => VerdictsTrue
=============================================================================
