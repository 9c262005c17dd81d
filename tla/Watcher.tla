------------------------------ MODULE Watcher ------------------------------
(***************************************************************************)
(* The git watcher of codebase-memory-mcp (watcher.c) and its callback     *)
(* watcher_index_fn (main.c).                                              *)
(*                                                                         *)
(* One thread polls the watched projects: it compares HEAD with the HEAD   *)
(* it saw last, asks git status for a dirty tree, and runs the pipeline    *)
(* under the process-wide index lock.  Meanwhile the repositories are      *)
(* edited, committed, checked out and reverted, other threads index under  *)
(* the same lock and register projects, git calls and runs fail.           *)
(*                                                                         *)
(* Data abstraction: a version is the content of a tree, a commit is named *)
(* by its content, and a run reads the whole tree at one instant (what     *)
(* happens inside a run is IndexPipeline's subject).                       *)
(***************************************************************************)
EXTENDS Integers, FiniteSets

CONSTANTS
    Projects,     \* the project names
    GitProjects,  \* those whose root is a git repository
    MaxVersion,   \* bound: distinct contents of trees
    MaxStates,    \* bound: project_state_t allocated
    MaxOthers,    \* bound: pipeline runs of other threads
    MaxFaults     \* bound: failing git calls and failing runs

ASSUME ProjectsAssumption == GitProjects \subseteq Projects
ASSUME BoundsAssumption ==
    /\ MaxVersion \in Nat \ {0} /\ MaxStates \in Nat
    /\ MaxOthers \in Nat /\ MaxFaults \in Nat

None    == 0      \* nothing indexed, no commit yet, no project state
Unknown == -1     \* last_head is the empty string; a HEAD without a commit is
                  \* not: git rev-parse prints the word HEAD for it

States   == 1..MaxStates
PCs      == {"sleep", "pick", "baseline", "head", "dirty", "index", "run",
             "ran", "reread", "ended"}
LockedBy == {"nobody", "watcher", "other"}
Reasons  == {"baseline", "git", "busy", "failed", "during", "revert", "back"}

VARIABLES
    \* the repositories: the working tree, the commit at HEAD
    work, commit, clock,
    \* the version each project's database was built from
    indexed,
    \* g_pipeline_busy and its holder; the runs of other threads so far
    lock, others,
    \* w->projects, the allocated project_state_t and their number
    table, states, allocated,
    \* the watcher thread: position, snapshot not polled yet, current state
    wpc, todo, cur,
    \* g_shutdown and w->stopped
    shutdown, stopped,
    \* history: why the index may lag behind unnoticed; failures so far
    excuse, faults

repos   == <<work, commit, clock>>
list    == <<table, states, allocated>>
thread  == <<wpc, todo, cur>>
flags   == <<shutdown, stopped>>
vars    == <<repos, indexed, lock, others, list, thread, flags, excuse,
             faults>>

----------------------------------------------------------------------------
Dirty(p) == work[p] # commit[p]

Live == {table[p] : p \in Projects} \ {None}

\* The project of the state being polled; the state may be freed already.
Current == states[cur].project

Excuse(p, reason) == excuse' = [excuse EXCEPT ![p] = @ \cup {reason}]

\* HEAD is not where the state last saw it.
HeadMoved(s) ==
    /\ states[s].lastHead # Unknown
    /\ states[s].lastHead # commit[states[s].project]

Init ==
    /\ work \in [Projects -> {1}] /\ commit \in [Projects -> {None, 1}]
    /\ clock = 1
    /\ indexed \in [Projects -> {None, 1}]
    /\ lock = "nobody" /\ others = 0
    /\ table = [p \in Projects |-> None] /\ states = <<>> /\ allocated = 0
    /\ wpc = "sleep" /\ todo = {} /\ cur = None
    /\ shutdown = FALSE /\ stopped = FALSE
    /\ excuse = [p \in Projects |-> {}] /\ faults = 0

Fault == faults < MaxFaults /\ faults' = faults + 1

----------------------------------------------------------------------------
(* The watch list.                                                         *)

\* cbm_watcher_watch: an entry of that name is freed and replaced.
Watch(p) ==
    /\ allocated < MaxStates
    /\ allocated' = allocated + 1
    /\ states' = [s \in 1..allocated' |->
                    IF s = allocated'
                    THEN [project |-> p, git |-> FALSE, baseline |-> FALSE,
                          lastHead |-> Unknown, due |-> TRUE]
                    ELSE states[s]]
    /\ table' = [table EXCEPT ![p] = allocated']
    /\ UNCHANGED <<repos, indexed, lock, others, thread, flags, excuse,
                   faults>>

Unwatch(p) ==
    /\ table[p] # None
    /\ table' = [table EXCEPT ![p] = None]
    /\ UNCHANGED <<repos, indexed, lock, others, states, allocated, thread,
                   flags, excuse, faults>>

\* The interval of a state has passed, or cbm_watcher_touch zeroes it.
Due(p) ==
    /\ table[p] # None /\ ~states[table[p]].due
    /\ states' = [states EXCEPT ![table[p]].due = TRUE]
    /\ UNCHANGED <<repos, indexed, lock, others, table, allocated, thread,
                   flags, excuse, faults>>

----------------------------------------------------------------------------
(* cbm_watcher_run and cbm_watcher_poll_once.                              *)

\* Faulty variant: the loop goes on without looking at stopped.
PollOnceIgnoresStop ==
    /\ wpc = "sleep"
    /\ Live # {}
    /\ wpc' = "pick" /\ todo' = Live
    /\ UNCHANGED <<repos, indexed, lock, others, list, cur, flags, excuse,
                   faults>>

\* The loop of cbm_watcher_run goes on; project pointers are copied under
\* projects_lock.
PollOnce ==
    /\ wpc = "sleep" /\ ~stopped
    /\ Live # {}
    /\ wpc' = "pick" /\ todo' = Live
    /\ UNCHANGED <<repos, indexed, lock, others, list, cur, flags, excuse,
                   faults>>

Ends ==
    /\ wpc = "sleep" /\ stopped
    /\ wpc' = "ended"
    /\ UNCHANGED <<repos, indexed, lock, others, list, todo, cur, flags,
                   excuse, faults>>

\* poll_project on the next state of the snapshot, up to its git calls.
PollProject(s) ==
    /\ wpc = "pick" /\ s \in todo
    /\ todo' = todo \ {s}
    /\ LET polled == states[s].baseline /\ states[s].git /\ states[s].due
       IN  /\ wpc' = IF ~states[s].baseline THEN "baseline"
                     ELSE IF polled THEN "head" ELSE "pick"
           /\ cur' = IF wpc' = "pick" THEN None ELSE s
    /\ UNCHANGED <<repos, indexed, lock, others, list, flags, excuse, faults>>

PollEnds ==
    /\ wpc = "pick" /\ todo = {}
    /\ wpc' = "sleep"
    /\ UNCHANGED <<repos, indexed, lock, others, list, todo, cur, flags,
                   excuse, faults>>

\* Faulty variant: the pointer of the state just polled is kept.
PolledKeepsPointer(isGit, head) ==
    /\ states' = [states EXCEPT ![cur] =
                    [project |-> Current, git |-> isGit, baseline |-> TRUE,
                     lastHead |-> head, due |-> FALSE]]
    /\ wpc' = "pick"
    /\ UNCHANGED <<table, allocated, todo, cur>>

\* The state's poll is over: next_poll_ns is set to an interval from now.
Polled(isGit, head) ==
    /\ states' = [states EXCEPT ![cur] =
                    [project |-> Current, git |-> isGit, baseline |-> TRUE,
                     lastHead |-> head, due |-> FALSE]]
    /\ wpc' = "pick" /\ cur' = None
    /\ UNCHANGED <<table, allocated, todo>>

\* What the state knows stays as it is.
PolledAsBefore == Polled(states[cur].git, states[cur].lastHead)

\* init_baseline.  The HEAD of this moment counts as indexed.
Baseline ==
    /\ wpc = "baseline"
    /\ IF Current \in GitProjects
       THEN Polled(TRUE, commit[Current])
       ELSE Polled(FALSE, states[cur].lastHead)
    /\ IF indexed[Current] # work[Current]
       THEN Excuse(Current, "baseline") ELSE UNCHANGED excuse
    /\ UNCHANGED <<repos, indexed, lock, others, flags, faults>>

\* The root cannot be stat'ed or git cannot be started: the project is taken
\* for one without git.  Or HEAD alone cannot be read.
BaselineFails ==
    /\ wpc = "baseline" /\ Fault
    /\ \/ Polled(FALSE, states[cur].lastHead)
       \/ Current \in GitProjects /\ Polled(TRUE, states[cur].lastHead)
    /\ Excuse(Current, "git")
    /\ UNCHANGED <<repos, indexed, lock, others, flags>>

\* Faulty variant: the new HEAD is stored, and git status alone decides.
ReadHeadStoresOnly ==
    /\ wpc = "head"
    /\ wpc' = "dirty"
    /\ states' = [states EXCEPT ![cur].lastHead = commit[Current]]
    /\ UNCHANGED <<repos, indexed, lock, others, table, allocated, todo, cur,
                   flags, excuse, faults>>

\* check_changes, first half.  HEAD is stored before anything is indexed.
ReadHead ==
    /\ wpc = "head"
    /\ wpc' = IF HeadMoved(cur) THEN "index" ELSE "dirty"
    /\ states' = [states EXCEPT ![cur].lastHead = commit[Current]]
    /\ UNCHANGED <<repos, indexed, lock, others, table, allocated, todo, cur,
                   flags, excuse, faults>>

ReadHeadFails ==
    /\ wpc = "head" /\ Fault
    /\ wpc' = "dirty"
    /\ Excuse(Current, "git")
    /\ UNCHANGED <<repos, indexed, lock, others, list, todo, cur, flags>>

\* Second half: git status.
ReadDirty ==
    /\ wpc = "dirty" /\ Dirty(Current)
    /\ wpc' = "index"
    /\ UNCHANGED <<repos, indexed, lock, others, list, todo, cur, flags,
                   excuse, faults>>

ReadClean ==
    /\ wpc = "dirty" /\ ~Dirty(Current)
    /\ PolledAsBefore
    /\ UNCHANGED <<repos, indexed, lock, others, flags, excuse, faults>>

ReadDirtyFails ==
    /\ wpc = "dirty" /\ Fault
    /\ PolledAsBefore
    /\ UNCHANGED <<repos, indexed, lock, others, flags, excuse>>

----------------------------------------------------------------------------
(* watcher_index_fn, and what poll_project makes of its result.            *)

\* Shutting down, or the lock is taken: 0, as after a run.
IndexSkipped ==
    /\ wpc = "index"
    /\ shutdown \/ lock # "nobody"
    /\ wpc' = "reread"
    /\ Excuse(Current, "busy")
    /\ UNCHANGED <<repos, indexed, lock, others, list, todo, cur, flags,
                   faults>>

IndexStarts ==
    /\ wpc = "index"
    /\ ~shutdown /\ lock = "nobody"
    /\ lock' = "watcher" /\ wpc' = "run"
    /\ UNCHANGED <<repos, indexed, others, list, todo, cur, flags, excuse,
                   faults>>

\* The instant at which the run reads the tree.
RunReads ==
    /\ wpc = "run"
    /\ wpc' = "ran"
    /\ indexed' = [indexed EXCEPT ![Current] = work[Current]]
    /\ excuse' = [excuse EXCEPT ![Current] = {}]
    /\ UNCHANGED <<repos, lock, others, list, todo, cur, flags, faults>>

RunEnds ==
    /\ wpc = "ran"
    /\ lock' = "nobody" /\ wpc' = "reread"
    /\ UNCHANGED <<repos, indexed, others, list, todo, cur, flags, excuse,
                   faults>>

\* Faulty variant: the lock is kept when the run fails.
RunFailsLocked ==
    /\ wpc \in {"run", "ran"} /\ Fault
    /\ \E v \in {None, indexed[Current]} :
         indexed' = [indexed EXCEPT ![Current] = v]
    /\ PolledAsBefore
    /\ Excuse(Current, "failed")
    /\ UNCHANGED <<repos, lock, others, flags>>

\* No pipeline, or a negative result; the database may be gone by then.
RunFails ==
    /\ wpc \in {"run", "ran"} /\ Fault
    /\ lock' = "nobody"
    /\ \E v \in {None, indexed[Current]} :
         indexed' = [indexed EXCEPT ![Current] = v]
    /\ PolledAsBefore
    /\ Excuse(Current, "failed")
    /\ UNCHANGED <<repos, others, flags>>

\* HEAD is read once more: commits made since the run read the tree count
\* as indexed.
Reread ==
    /\ wpc = "reread"
    /\ Polled(states[cur].git, commit[Current])
    /\ UNCHANGED <<repos, indexed, lock, others, flags, excuse, faults>>

RereadFails ==
    /\ wpc = "reread" /\ Fault
    /\ PolledAsBefore
    /\ UNCHANGED <<repos, indexed, lock, others, flags, excuse>>

----------------------------------------------------------------------------
(* The other threads of the process.                                       *)

OtherStarts ==
    /\ lock = "nobody" /\ others < MaxOthers
    /\ lock' = "other" /\ others' = others + 1
    /\ UNCHANGED <<repos, indexed, list, thread, flags, excuse, faults>>

\* The run of another thread, on one of the projects, reads its tree.
OtherReads(p) ==
    /\ lock = "other"
    /\ indexed' = [indexed EXCEPT ![p] = work[p]]
    /\ excuse' = [excuse EXCEPT ![p] = {}]
    /\ UNCHANGED <<repos, lock, others, list, thread, flags, faults>>

OtherEnds ==
    /\ lock = "other"
    /\ lock' = "nobody"
    /\ UNCHANGED <<repos, indexed, others, list, thread, flags, excuse,
                   faults>>

\* The end of the message loop.  (request_shutdown, which also frees the lock
\* under a running pipeline, is Server's subject.)
Shutdown ==
    /\ ~shutdown
    /\ shutdown' = TRUE
    /\ UNCHANGED <<repos, indexed, lock, others, list, thread, stopped,
                   excuse, faults>>

\* cbm_watcher_stop.
Stop ==
    /\ shutdown /\ ~stopped
    /\ stopped' = TRUE
    /\ UNCHANGED <<repos, indexed, lock, others, list, thread, shutdown,
                   excuse, faults>>

----------------------------------------------------------------------------
(* The repositories.                                                       *)

\* What makes a move of HEAD to v invisible to the watcher: the second look
\* at HEAD is still to come, HEAD was never read, or it is where it was.
Moved(p, v) ==
    excuse' = [excuse EXCEPT ![p] = @ \cup
        (IF wpc \in {"ran", "reread"} /\ Current = p THEN {"during"} ELSE {})
        \cup (IF table[p] = None THEN {}
              ELSE CASE states[table[p]].lastHead = v       -> {"back"}
                     [] states[table[p]].lastHead = Unknown -> {"git"}
                     [] OTHER                               -> {})]

Edit(p) ==
    /\ clock < MaxVersion
    /\ clock' = clock + 1
    /\ work' = [work EXCEPT ![p] = clock + 1]
    /\ UNCHANGED <<commit, indexed, lock, others, list, thread, flags,
                   excuse, faults>>

Commit(p) ==
    /\ p \in GitProjects /\ Dirty(p)
    /\ commit' = [commit EXCEPT ![p] = work[p]]
    /\ Moved(p, work[p])
    /\ UNCHANGED <<work, clock, indexed, lock, others, list, thread, flags,
                   faults>>

\* git checkout, pull, reset --hard: HEAD and the tree move to a version.
Checkout(p, v) ==
    /\ p \in GitProjects
    /\ v # commit[p]
    /\ commit' = [commit EXCEPT ![p] = v] /\ work' = [work EXCEPT ![p] = v]
    /\ Moved(p, v)
    /\ UNCHANGED <<clock, indexed, lock, others, list, thread, flags, faults>>

\* git stash, git checkout -- .: the changes are gone, HEAD is where it was.
Revert(p) ==
    /\ p \in GitProjects /\ Dirty(p) /\ commit[p] # None
    /\ work' = [work EXCEPT ![p] = commit[p]]
    /\ Excuse(p, "revert")
    /\ UNCHANGED <<commit, clock, indexed, lock, others, list, thread, flags,
                   faults>>

----------------------------------------------------------------------------
\* The steps of the watcher thread.
WatcherStep ==
    \/ PollOnce \/ Ends \/ PollEnds
    \/ \E s \in States : PollProject(s)
    \/ Baseline \/ ReadHead \/ ReadDirty \/ ReadClean
    \/ IndexSkipped \/ IndexStarts \/ RunReads \/ RunEnds \/ Reread

Failure ==
    \/ BaselineFails \/ ReadHeadFails \/ ReadDirtyFails \/ RunFails
    \/ RereadFails

Others ==
    \/ \E p \in Projects : Watch(p) \/ Unwatch(p) \/ OtherReads(p)
    \/ OtherStarts \/ OtherEnds \/ Shutdown \/ Stop

Repository ==
    \E p \in Projects :
        \/ Edit(p) \/ Commit(p) \/ Revert(p)
        \/ \E v \in 1..clock : Checkout(p, v)

Next ==
    WatcherStep \/ Failure \/ Others \/ Repository
        \/ \E p \in Projects : Due(p)

Spec == Init /\ [][Next]_vars

\* The thread is scheduled, time passes, and the runs of other threads end.
FairSpec ==
    /\ Spec
    /\ WF_vars(WatcherStep) /\ WF_vars(OtherEnds)
    /\ \A p \in Projects : WF_vars(Due(p))
----------------------------------------------------------------------------
(* Properties.                                                             *)

Versions == 0..clock

RepoTypeOK ==
    /\ clock \in 1..MaxVersion
    /\ work \in [Projects -> Versions] /\ commit \in [Projects -> Versions]
    /\ indexed \in [Projects -> Versions]

LockTypeOK ==
    /\ lock \in LockedBy /\ others \in 0..MaxOthers
    /\ shutdown \in BOOLEAN /\ stopped \in BOOLEAN
    /\ excuse \in [Projects -> SUBSET Reasons]
    /\ faults \in 0..MaxFaults

\* A watched name leads to an allocated state of that name.
ListTypeOK ==
    /\ allocated \in 0..MaxStates
    /\ states \in [1..allocated ->
            [project : Projects, git : BOOLEAN, baseline : BOOLEAN,
             lastHead : {Unknown} \cup Versions, due : BOOLEAN]]
    /\ table \in [Projects -> 0..allocated]
    /\ \A p \in Projects : table[p] # None => states[table[p]].project = p

ThreadTypeOK ==
    /\ wpc \in PCs
    /\ todo \subseteq 1..allocated
    /\ cur \in 0..allocated
    /\ cur = None <=> wpc \in {"sleep", "pick", "ended"}

\* Every variable holds a value of its kind, and a version is one that was
\* written.
TypeOK == RepoTypeOK /\ LockTypeOK /\ ListTypeOK /\ ThreadTypeOK

\* The watcher polls p with git.
Tracked(p) ==
    /\ table[p] # None
    /\ states[table[p]].baseline /\ states[table[p]].git

\* The next poll of p runs the pipeline.
Noticeable(p) == Dirty(p) \/ HeadMoved(table[p])

\* Between polls, an index that is behind the tree of a tracked project is
\* noticed by the next poll, unless a reason among the given ones is on
\* record since the tree was last indexed.
Noticed(reasons) ==
    (wpc = "sleep") =>
        \A p \in Projects :
            (Tracked(p) /\ excuse[p] \subseteq reasons)
                => indexed[p] = work[p] \/ Noticeable(p)

\* No order of polls, edits, commits, checkouts, runs of other threads and
\* re-registrations makes the watcher lose a change, but for the ways the
\* reasons name: the baseline adopts the HEAD it meets; a git call fails; the
\* lock is taken; the run fails; HEAD moves between the run's reading and the
\* second look at HEAD; uncommitted changes that were indexed are reverted;
\* HEAD returns to where it was after another thread indexed elsewhere.
NothingForgotten == Noticed({})

\* A dirty tree is indexed in the end, through skipped and failed runs.
DirtyIsIndexed ==
    \A p \in Projects :
        Tracked(p) /\ Dirty(p)
            ~> indexed[p] = work[p] \/ ~Dirty(p) \/ ~Tracked(p) \/ shutdown

\* The thread ends once it is told to stop.
StopEnds == stopped ~> wpc = "ended"

\* main.c: "Non-blocking: skip if another pipeline is already running.
\* Watcher will retry on next poll cycle".
SkipIsRetried == Noticed({"busy"})

\* watcher.c: "Update HEAD after successful reindex": only then.
FailureIsRetried == Noticed({"failed"})

\* watcher.h: "Polls indexed projects for git changes (HEAD movement or dirty
\* working tree) and triggers re-indexing", also when HEAD moves while a run
\* is going on.
MoveDuringRunIsNoticed == Noticed({"during"})

\* watcher.c: "Snapshot project pointers under lock, then poll without
\* holding it": the state being polled has not been freed meanwhile.
PolledStateIsLive == cur # None => cur \in Live
=============================================================================
