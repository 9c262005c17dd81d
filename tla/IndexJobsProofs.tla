-------------------------- MODULE IndexJobsProofs --------------------------
(***************************************************************************)
(* Theorems about IndexJobs: types; a slot of the job table has one job at *)
(* a time; and the Dashboard's table says how its children ended.          *)
(***************************************************************************)
EXTENDS IndexJobs, TLAPS

USE DEF table, page, starts, SetStatus, Leave, Become

----------------------------------------------------------------------------
\* A child of a running job belongs to it, and a running job has one unless
\* its start threw.  The Dashboard's children have only two phases as long as all
\* of them could be started, and after the end
\* its slot is on record as succeeded exactly when its code is 0.
Owners ==
    \A p \in processes : p.own /\ status[p.slot] = "running"
Alone == \A p, q \in processes : p.slot = q.slot => p = q
Served ==
    \A i \in Slots \ lost :
        status[i] = "running" => \E p \in processes : p.slot = i
Codes2 ==
    \A p \in processes :
        \/ p.phase = "running" /\ p.slot \notin succeeded
        \/ p.phase = "ended" /\ (p.code = "zero" <=> p.slot \in succeeded)

JobsInv ==
    /\ TypeOK
    /\ server = "ui" => ~spawnFailed
    /\ ~spawnFailed => Owners /\ Alone /\ Served
    /\ server = "dash" /\ ~spawnFailed => Codes2 /\ VerdictsTrue

LEMMA ProcessTypes ==
    /\ \A i \in Slots, x \in {"thread", "running"} :
          [slot |-> i, own |-> TRUE, phase |-> x, code |-> "none"] \in Process
    /\ \A p \in Process : [p EXCEPT !.own = FALSE] \in Process
    /\ \A p \in Process, x \in {"running", "reaped"} :
          [p EXCEPT !.phase = x] \in Process
    /\ \A p \in Process, x \in {"ended", "failed"}, c \in Codes :
          [p EXCEPT !.phase = x, !.code = c] \in Process
    /\ \A p \in Process : p.slot \in Slots /\ p.own \in BOOLEAN
BY DEF Process, Codes

LEMMA EndedFields ==
    \A p \in Process, x \in {"ended", "failed"}, c \in Codes :
        LET q == [p EXCEPT !.phase = x, !.code = c]
        IN  q.slot = p.slot /\ q.own = p.own /\ q.phase = x /\ q.code = c
BY DEF Process

\* The table stays whose it is, and a failed start is remembered.
LEMMA Steps ==
    ASSUME [Next]_vars
    PROVE  /\ server' = server
           /\ spawnFailed => spawnFailed'
           /\ spawnFailed' => spawnFailed \/ server = "dash"
<1>1. ASSUME NEW p \in processes, Worker(p) \/ UiKill(p) \/ Event(p)
      PROVE  server' = server /\ spawnFailed' = spawnFailed
  BY <1>1 DEF Worker, Event, UiKill, ChildEnds, UiFork, UiForkFails, UiReap,
              UiFinish, DashError, DashClose
<1>2. CASE UiStart \/ Poll \/ \E jobs \in inFlight : Receive(jobs)
  <2>1. server' = server /\ spawnFailed' = spawnFailed
    BY <1>2 DEF UiStart, Poll, Receive
  <2> QED
    BY <2>1, Zenon
<1>3. CASE UNCHANGED vars
  <2>1. server' = server /\ spawnFailed' = spawnFailed
    BY <1>3 DEF vars
  <2> QED
    BY <2>1, Zenon
<1>5. CASE DashStartThrows
  <2>1. server' = server /\ spawnFailed' = spawnFailed
    BY <1>5 DEF DashStartThrows
  <2> QED
    BY <2>1, Zenon
<1>4. CASE DashStart
  <2>1. server' = server /\ server = "dash"
    BY <1>4 DEF DashStart
  <2>2. spawnFailed' = spawnFailed \/ spawnFailed' = TRUE
    BY <1>4 DEF DashStart
  <2>3. spawnFailed => spawnFailed'
    BY <2>2, Zenon
  <2> QED
    BY <2>1, <2>3, Zenon
<1> QED
  BY <1>1, <1>2, <1>3, <1>4, <1>5, Zenon DEF Next

LEMMA EnterType ==
    ASSUME processes \subseteq Process, NEW i \in Slots,
           NEW x \in {"thread", "running"}, Enter(i, x)
    PROVE  processes' \subseteq Process
BY ProcessTypes DEF Enter, Disowned

LEMMA SlotFree == FreeSlot \subseteq {i \in Slots : status[i] # "running"}
BY DEF FreeSlot

LEMMA JobsTypeStep ==
    ASSUME TypeOK, [Next]_vars
    PROVE  TypeOK'
<1> USE ProcessTypes, SlotFree DEF TypeOK, Jobs, Statuses
<1>1. CASE UiStart \/ DashStart
  <2>1. PICK i \in FreeSlot :
           \/ Begin(i, "thread") \/ Begin(i, "running")
           \/ /\ SetStatus(i, "error")
              /\ succeeded' = succeeded \ {i}
              /\ UNCHANGED processes
    BY <1>1 DEF UiStart, DashStart
  <2>2. /\ status' \in Jobs /\ succeeded' \subseteq Slots
        /\ processes' \subseteq Process
    BY <2>1, EnterType DEF Begin, Codes
  <2> QED
    BY <1>1, <2>2 DEF UiStart, DashStart
<1>5. CASE DashStartThrows
  <2>1. PICK i \in FreeSlot :
           /\ SetStatus(i, "running")
           /\ succeeded' = succeeded \ {i}
           /\ processes' = Disowned(i)
           /\ lost' = lost \cup {i}
    BY <1>5 DEF DashStartThrows
  <2>2. /\ status' \in Jobs /\ succeeded' \subseteq Slots
        /\ processes' \subseteq Process /\ lost' \subseteq Slots
    BY <2>1 DEF Disowned, Codes
  <2> QED
    BY <1>5, <2>2 DEF DashStartThrows
<1>2. CASE Poll \/ \E jobs \in inFlight : Receive(jobs)
  BY <1>2 DEF Poll, Receive, SomeRunning
<1>3. ASSUME NEW p \in processes, Worker(p) \/ UiKill(p) \/ Event(p)
      PROVE  TypeOK'
  <2>1. CASE ChildEnds(p) /\ UNCHANGED server
    <3>1. PICK c \in {"zero", "nonzero", "signal"} :
             /\ processes' = (processes \ {p})
                               \cup {[p EXCEPT !.phase = "ended", !.code = c]}
             /\ Ended(p, c)
      BY <2>1 DEF ChildEnds
    <3>2. succeeded' \subseteq Slots
      BY <3>1 DEF Ended, Codes
    <3>3. [p EXCEPT !.phase = "ended", !.code = c] \in Process
      BY DEF Codes
    <3>4. processes' \subseteq Process
      BY <3>1, <3>3
    <3> QED
      BY <2>1, <3>2, <3>4 DEF ChildEnds
  <2>2. CASE UiKill(p)
    BY <2>2 DEF UiKill, Ended, Codes
  <2>3. CASE (UiFork(p) \/ UiForkFails(p) \/ UiReap(p) \/ UiFinish(p))
             /\ UNCHANGED server
    BY <2>3 DEF UiFork, UiForkFails, UiReap, UiFinish
  <2>4. CASE DashError(p) /\ UNCHANGED server
    <3>1. succeeded' \subseteq Slots
      BY <2>4 DEF DashError, Ended, Codes
    <3>2. processes' \subseteq Process
      <4>1. [p EXCEPT !.phase = "failed", !.code = "nonzero"] \in Process
        BY DEF Codes
      <4> QED
        BY <2>4, <4>1 DEF DashError
    <3> QED
      BY <2>4, <3>1, <3>2 DEF DashError
  <2>5. CASE DashClose(p) /\ UNCHANGED server
    BY <2>5 DEF DashClose
  <2> QED
    BY <1>3, <2>1, <2>2, <2>3, <2>4, <2>5 DEF Worker, Event
<1>4. CASE UNCHANGED vars
  BY <1>4 DEF vars
<1> QED
  BY <1>1, <1>2, <1>3, <1>4, <1>5 DEF Next

\* A slot that is handed out has no child left.
LEMMA FreshSlot ==
    ASSUME TypeOK, Owners, NEW i \in FreeSlot, NEW x, Enter(i, x)
    PROVE  /\ i \in Slots /\ \A p \in processes : p.slot # i
           /\ processes' = processes \cup
                {[slot |-> i, own |-> TRUE, phase |-> x, code |-> "none"]}
BY SlotFree DEF Owners, Enter, Disowned

\* Three ways to change the table that leave a slot with one job.
LEMMA Entered ==
    ASSUME TypeOK, Owners, Alone, Served, NEW i \in FreeSlot, NEW x,
           Begin(i, x), lost' \in {lost, lost \ {i}}
    PROVE  Owners' /\ Alone' /\ Served'
<1> DEFINE new == [slot |-> i, own |-> TRUE, phase |-> x, code |-> "none"]
<1>1. /\ i \in Slots /\ \A p \in processes : p.slot # i
      /\ processes' = processes \cup {new}
  BY FreshSlot DEF Begin
<1>2. new.slot = i /\ new.own
  OBVIOUS
<1>3. status' = [status EXCEPT ![i] = "running"] /\ status \in [Slots -> Statuses]
  BY DEF Begin, TypeOK, Jobs
<1> HIDE DEF new
<1>4. Owners' /\ Alone'
  BY <1>1, <1>2, <1>3, ProcessTypes DEF TypeOK, Owners, Alone
<1>5. ASSUME NEW j \in Slots \ lost', status'[j] = "running"
      PROVE  \E p \in processes' : p.slot = j
  BY <1>1, <1>2, <1>3, <1>5 DEF Served
<1> QED
  BY <1>4, <1>5 DEF Served

LEMMA Replaced ==
    ASSUME Owners, Alone, Served, NEW p \in processes, NEW q, q.slot = p.slot,
           q.own = p.own, processes' = (processes \ {p}) \cup {q},
           UNCHANGED <<status, lost>>
    PROVE  Owners' /\ Alone' /\ Served'
BY DEF Owners, Alone, Served

LEMMA Removed ==
    ASSUME TypeOK, Owners, Alone, Served, NEW p \in processes,
           NEW x \in {"done", "error"}, UNCHANGED lost,
           processes' = processes \ {p}, status' = [status EXCEPT ![p.slot] = x]
    PROVE  Owners' /\ Alone' /\ Served'
<1>1. Owners' /\ Alone'
  BY ProcessTypes DEF Owners, Alone, TypeOK, Jobs
<1>2. ASSUME NEW j \in Slots \ lost', status'[j] = "running"
      PROVE  \E q \in processes' : q.slot = j
  <2>1. j # p.slot /\ status[j] = "running"
    BY <1>2, ProcessTypes DEF TypeOK, Jobs
  <2> QED
    BY <2>1 DEF Served
<1> QED
  BY <1>1, <1>2 DEF Served

LEMMA PhaseFields ==
    \A p \in Process : \A x :
        [p EXCEPT !.phase = x].slot = p.slot /\ [p EXCEPT !.phase = x].own = p.own
BY DEF Process

LEMMA UiStep ==
    ASSUME TypeOK, Owners, Alone, Served, server = "ui", [Next]_vars
    PROVE  Owners' /\ Alone' /\ Served'
<1>1. CASE UiStart
  <2>1. PICK i \in FreeSlot :
           \/ Begin(i, "thread")
           \/ SetStatus(i, "error") /\ UNCHANGED processes
    BY <1>1 DEF UiStart
  <2>2. CASE Begin(i, "thread")
    BY <1>1, <2>2, Entered DEF UiStart
  <2>3. CASE SetStatus(i, "error") /\ UNCHANGED processes
    <3>1. \A p \in processes : p.slot # i
      BY SlotFree DEF Owners
    <3> QED
      BY <1>1, <2>3, <3>1 DEF UiStart, Owners, Alone, Served, TypeOK, Jobs
  <2> QED
    BY <2>1, <2>2, <2>3
<1>2. ASSUME NEW p \in processes, Worker(p) \/ UiKill(p)
      PROVE  Owners' /\ Alone' /\ Served'
  <2>1. p \in Process
    BY DEF TypeOK
  <2>2. CASE ChildEnds(p) \/ UiKill(p)
    <3>1. PICK c : processes' = (processes \ {p})
                       \cup {[p EXCEPT !.phase = "ended", !.code = c]}
      BY <2>2 DEF ChildEnds, UiKill
    <3>2. UNCHANGED <<status, lost>>
      BY <1>2, <2>2 DEF ChildEnds, UiKill
    <3> DEFINE q == [p EXCEPT !.phase = "ended", !.code = c]
    <3>3. q.slot = p.slot /\ q.own = p.own
      BY <2>1, EndedFields
    <3> HIDE DEF q
    <3> QED
      BY <3>1, <3>2, <3>3, Replaced DEF q
  <2>3. CASE UiFork(p) \/ UiReap(p)
    <3>1. PICK x : processes' = (processes \ {p}) \cup {[p EXCEPT !.phase = x]}
      BY <2>3 DEF UiFork, UiReap
    <3>2. UNCHANGED <<status, lost>>
      BY <1>2, <2>3 DEF UiFork, UiReap
    <3> QED
      BY <2>1, <3>1, <3>2, PhaseFields, Replaced
  <2>4. CASE UiForkFails(p) \/ UiFinish(p)
    BY <2>4, Removed DEF UiForkFails, UiFinish
  <2> QED
    BY <1>2, <2>2, <2>3, <2>4 DEF Worker
<1>3. CASE Poll \/ (\E jobs \in inFlight : Receive(jobs)) \/ UNCHANGED vars
  <2>1. UNCHANGED <<status, processes, lost>>
    BY <1>3 DEF Poll, Receive, vars
  <2> QED
    BY <2>1 DEF Owners, Alone, Served
<1>4. ~DashStart /\ ~DashStartThrows /\ \A p \in processes : ~Event(p)
  BY DEF DashStart, DashStartThrows, Event
<1> QED
  BY <1>1, <1>2, <1>3, <1>4 DEF Next

LEMMA DashStep ==
    ASSUME TypeOK, Owners, Alone, Served, Codes2, VerdictsTrue,
           server = "dash", ~spawnFailed', [Next]_vars
    PROVE  Owners' /\ Alone' /\ Served' /\ Codes2' /\ VerdictsTrue'
<1>1. CASE DashStart
  <2>1. PICK i \in FreeSlot : Begin(i, "running") /\ lost' = lost \ {i}
    BY <1>1 DEF DashStart
  <2>2. Owners' /\ Alone' /\ Served'
    BY <2>1, Entered
  <2> DEFINE new == [slot |-> i, own |-> TRUE, phase |-> "running",
                     code |-> "none"]
  <2>3. /\ i \in Slots /\ \A p \in processes : p.slot # i
        /\ processes' = processes \cup {new}
    BY <2>1, FreshSlot DEF Begin
  <2>4. new.slot = i /\ new.phase = "running"
    OBVIOUS
  <2> HIDE DEF new
  <2>5. status' = [status EXCEPT ![i] = "running"]
        /\ succeeded' = succeeded \ {i}
    BY <2>1 DEF Begin
  <2>6. Codes2'
    BY <2>3, <2>4, <2>5, ProcessTypes DEF Codes2, TypeOK
  <2>7. VerdictsTrue'
    BY <2>3, <2>5 DEF VerdictsTrue, TypeOK, Jobs
  <2> QED
    BY <2>2, <2>6, <2>7
<1>2. ASSUME NEW p \in processes, ChildEnds(p)
      PROVE  Owners' /\ Alone' /\ Served' /\ Codes2' /\ VerdictsTrue'
  <2>1. p \in Process /\ p.slot \in Slots
    BY ProcessTypes DEF TypeOK
  <2>2. PICK c \in {"zero", "nonzero", "signal"} :
           /\ processes' = (processes \ {p})
                              \cup {[p EXCEPT !.phase = "ended", !.code = c]}
           /\ Ended(p, c)
    BY <1>2 DEF ChildEnds
  <2>3. UNCHANGED <<status, lost>> /\ status[p.slot] = "running"
    BY <1>2 DEF ChildEnds, Owners
  <2>4. succeeded' = IF c = "zero" THEN succeeded \cup {p.slot} ELSE succeeded
    BY <2>2 DEF Ended, Owners
  <2> DEFINE q == [p EXCEPT !.phase = "ended", !.code = c]
  <2>5. q.slot = p.slot /\ q.own = p.own /\ q.phase = "ended" /\ q.code = c
    BY <2>1, EndedFields
  <2> HIDE DEF q
  <2>6. processes' = (processes \ {p}) \cup {q}
    BY <2>2 DEF q
  <2>7. Owners' /\ Alone' /\ Served'
    BY <2>3, <2>5, <2>6, Replaced
  <2>8. Codes2'
    <3>1. \A r \in processes \ {p} : r.slot # p.slot
      BY DEF Alone
    <3>2. \A r \in processes \ {p} :
            r.slot \in succeeded' <=> r.slot \in succeeded
      BY <2>4, <3>1, ProcessTypes DEF TypeOK
    <3>3. q.code = "zero" <=> q.slot \in succeeded'
      <4>1. p.slot \notin succeeded
        BY <1>2 DEF ChildEnds, Codes2
      <4> QED
        BY <2>4, <2>5, <4>1
    <3> QED
      BY <2>5, <2>6, <3>2, <3>3 DEF Codes2
  <2>9. VerdictsTrue'
    BY <2>1, <2>3, <2>4 DEF VerdictsTrue, TypeOK
  <2> QED
    BY <2>7, <2>8, <2>9
<1>3. ASSUME NEW p \in processes, DashClose(p)
      PROVE  Owners' /\ Alone' /\ Served' /\ Codes2' /\ VerdictsTrue'
  <2>1. /\ processes' = processes \ {p} /\ UNCHANGED <<succeeded, lost>>
        /\ status' = [status EXCEPT ![p.slot] =
                        IF p.code = "zero" THEN "done" ELSE "error"]
    BY <1>3 DEF DashClose
  <2>2. (p.code = "zero" <=> p.slot \in succeeded) /\ p.slot \in Slots
    BY <1>3, ProcessTypes DEF DashClose, Codes2, TypeOK
  <2>3. Owners' /\ Alone' /\ Served'
    BY <2>1, Removed
  <2>4. Codes2'
    BY <2>1 DEF Codes2
  <2>5. VerdictsTrue'
    BY <2>1, <2>2 DEF VerdictsTrue, TypeOK, Jobs
  <2> QED
    BY <2>3, <2>4, <2>5
<1>4. CASE Poll \/ (\E jobs \in inFlight : Receive(jobs)) \/ UNCHANGED vars
  <2>1. UNCHANGED <<status, processes, succeeded, lost>>
    BY <1>4 DEF Poll, Receive, vars
  <2> QED
    BY <2>1 DEF Owners, Alone, Served, Codes2, VerdictsTrue
<1>6. CASE DashStartThrows
  <2>1. PICK i \in FreeSlot :
           /\ status' = [status EXCEPT ![i] = "running"]
           /\ succeeded' = succeeded \ {i}
           /\ processes' = Disowned(i)
           /\ lost' = lost \cup {i}
    BY <1>6 DEF DashStartThrows
  <2>2. i \in Slots /\ \A p \in processes : p.slot # i
    BY <2>1, SlotFree DEF Owners
  <2>3. processes' = processes
    BY <2>1, <2>2 DEF Disowned
  <2>4. Owners' /\ Alone' /\ Codes2'
    BY <2>1, <2>2, <2>3, ProcessTypes
       DEF Owners, Alone, Codes2, TypeOK, Jobs
  <2>5. Served' /\ VerdictsTrue'
    BY <2>1, <2>2, <2>3 DEF Served, VerdictsTrue, TypeOK, Jobs
  <2> QED
    BY <2>4, <2>5
<1>5. ~UiStart /\ \A p \in processes : ~Worker(p) /\ ~UiKill(p) /\ ~DashError(p)
  BY DEF UiStart, Worker, UiKill, DashError, Codes2
<1> QED
  BY <1>1, <1>2, <1>3, <1>4, <1>5, <1>6 DEF Next, Event

LEMMA JobsInvStep ==
    ASSUME JobsInv, [Next]_vars
    PROVE  JobsInv'
<1>1. TypeOK'
  BY JobsTypeStep DEF JobsInv
<1>2. CASE server = "ui"
  <2>1. ~spawnFailed /\ Owners /\ Alone /\ Served
    BY <1>2, Zenon DEF JobsInv
  <2>2. Owners' /\ Alone' /\ Served'
    BY <1>2, <2>1, UiStep DEF JobsInv
  <2>3. server' = "ui" /\ ~spawnFailed'
    <3>1. server # "dash"
      BY <1>2
    <3> QED
      BY <1>2, <2>1, <3>1, Steps, Zenon
  <2>4. server' # "dash"
    BY <2>3
  <2> QED
    BY <1>1, <2>2, <2>3, <2>4, Zenon DEF JobsInv
<1>3. CASE server = "dash"
  <2>1. server' = "dash" /\ server' # "ui"
    BY <1>3, Steps
  <2>2. ASSUME ~spawnFailed'
        PROVE  Owners' /\ Alone' /\ Served' /\ Codes2' /\ VerdictsTrue'
    <3>1. ~spawnFailed
      BY <2>2, Steps, Zenon
    <3>2. TypeOK /\ Owners /\ Alone /\ Served /\ Codes2 /\ VerdictsTrue
      BY <1>3, <3>1, Zenon DEF JobsInv
    <3> QED
      BY <1>3, <2>2, <3>2, DashStep
  <2> QED
    BY <1>1, <2>1, <2>2, Zenon DEF JobsInv
<1> QED
  BY <1>2, <1>3 DEF JobsInv, TypeOK

LEMMA JobsInitInv == Init => JobsInv
BY DEF Init, JobsInv, TypeOK, Jobs, Statuses, Codes, Owners, Alone, Served,
       Codes2, VerdictsTrue

LEMMA JobsInvHolds == Spec => []JobsInv
BY JobsInitInv, JobsInvStep, PTL DEF Spec

----------------------------------------------------------------------------
(* Theorems.                                                               *)

\* Every variable keeps its type.
THEOREM JobsTypeCorrect == Spec => []TypeOK
<1>1. JobsInv => TypeOK
  BY DEF JobsInv
<1> QED
  BY <1>1, JobsInvHolds, PTL

\* However requests, threads, children and events interleave, a slot is handed
\* out again only when nothing of its last job can write to it, and it is
\* running exactly while it has its one process: for the Dashboard as long as
\* every child could be started, and of slots whose start did not throw.
THEOREM OneJobPerSlot == Spec => []SlotsExclusive
<1>1. JobsInv => SlotsExclusive
  <2> SUFFICES ASSUME JobsInv, ~spawnFailed PROVE SlotsExclusive
    BY DEF SlotsExclusive
  <2>1. Owners /\ Alone /\ Served
    BY Zenon DEF JobsInv
  <2>2. ASSUME NEW i \in Slots \ lost, status[i] = "running"
        PROVE  i \in Attended
    BY <2>1, <2>2 DEF Served, Owners, Attended
  <2> QED
    BY <2>1, <2>2 DEF Owners, Alone, SlotsExclusive
<1> QED
  BY <1>1, JobsInvHolds, PTL

\* What the Dashboard's table says of a job is how its child ended, as long as
\* every child could be started.
THEOREM DashboardVerdicts == Spec => []DashboardTellsTruth
<1>1. JobsInv => DashboardTellsTruth
  BY DEF JobsInv, DashboardTellsTruth
<1> QED
  BY <1>1, JobsInvHolds, PTL
=============================================================================
