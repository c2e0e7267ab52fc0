------------------------ MODULE SharedNamespaceProofs ------------------------
(***************************************************************************)
(* Proofs about SharedNamespace, for any number of users, turns and jobs:  *)
(* two process surfaces never share the network namespace, no unit of an   *)
(* earlier process is alive when the service is up, a turn that is over    *)
(* holds no place in the browser, and its worker is its owner's.           *)
(*                                                                         *)
(* The argument: the browser, the lease and the places of the turns agree  *)
(* (LeaseIsLent, OwnerHasLease, PlacesAgree), and a call counts before its *)
(* worker is launched, so the browser has the lease as long as its worker  *)
(* is launched, ready or could not be closed; whoever closes an idle one   *)
(* is alone and finds nobody using it (ClosersAlone), so the lease is      *)
(* never given back under a user; a unit has the lease, or keeps it        *)
(* poisoned, until it is confirmed inactive (UnitsAreHeld).                *)
(***************************************************************************)
EXTENDS SharedNamespace, TLAPS

\* The browser has the lease exactly when it believes so.
LeaseIsLent == br.lent <=> lease = "browser"

\* An owner, a use or a live worker needs the lease.
OwnerHasLease ==
    /\ br.owner # None => br.lent
    /\ Busy(br) => br.owner # None
    /\ br.worker # None => br.lent

\* Where a turn's call has been counted.
Calling == {"ensuring", "starting", "running", "stale"}

\* Where a turn stands is what the browser's sets and the condition say of it.
PlacesAgree ==
    \A t \in Turns :
        /\ t \in br.active <=> turn[t].at = "acquired" \/ turn[t].finalizer
        /\ t \in br.inflight <=> turn[t].at \in Calling
        /\ turn[t].finalizer => turn[t].at \in {"rooted", "back"} \cup Calling
        /\ leasing = t <=> turn[t].at \in {"leasing", "granted"}
        /\ turn[t].at = "leasing" => br.owner = None
        /\ turn[t].at = "granted" => br.lent /\ br.owner = None
        /\ turn[t].at = "switching" => br.lent

\* Those who close a worker: a turn of another owner, the idle timer, a job that
\* makes the browser yield, the deletion.
SwitchingTurns == {t \in Turns : turn[t].at = "switching"}
YieldingJobs == {j \in Jobs : up /\ job[j] = "yielding"}
Closing == SwitchingTurns # {} \/ br.idle = "closing" \/ YieldingJobs # {} \/ wipe = "closing"

\* One at a time closes it, while nobody uses the browser or waits for the lease.
ClosersAlone ==
    /\ Closing => br.switching /\ ~Busy(br) /\ leasing = None
    /\ \A s, t \in SwitchingTurns : s = t
    /\ \A i, j \in YieldingJobs : i = j
    /\ SwitchingTurns # {} => br.idle # "closing" /\ YieldingJobs = {} /\ wipe # "closing"
    /\ br.idle = "closing" => YieldingJobs = {} /\ wipe # "closing"
    /\ YieldingJobs # {} => wipe # "closing"

\* A crash leaves nothing of the process.
DownIsEmpty ==
    ~up => /\ br = Fresh /\ lease = None /\ leasing = None /\ wipe # "closing"
           /\ \A t \in Turns : turn[t].at = "back" /\ ~turn[t].finalizer

\* Units belong to jobs that run or whose teardown is not confirmed; the former
\* have the lease, the latter keep it from everybody while the process lives.
UnitsAreHeld ==
    /\ \A j \in unit : job[j] \in {"running", "failing", "unsafe", "lost"}
    /\ up => \A j \in Jobs : job[j] = "running" => lease = j
    /\ up => \A j \in Known : job[j] \in {"failing", "unsafe"} => poisoned /\ lease = None
    /\ \A i, j \in Known : i = j

\* Uses are the owner's, and the worker they run in is theirs.
UsesAreOwners ==
    /\ \A t \in br.active \cup br.inflight : TurnUser[t] = br.owner
    /\ WorkerIsOwners

IInv ==
    /\ TypeOK /\ LeaseIsLent /\ OwnerHasLease /\ PlacesAgree /\ ClosersAlone
    /\ DownIsEmpty /\ UnitsAreHeld /\ UsesAreOwners

-----------------------------------------------------------------------------
\* The browser's record keeps its type when a turn joins, and when a use is the last.
LEMMA JoinType ==
    ASSUME NEW b \in Browsers, NEW t \in Turns
    PROVE  /\ [b EXCEPT !.owner = TurnUser[t], !.active = @ \cup {t}, !.idle = "none"] \in Browsers
           /\ [b EXCEPT !.inflight = @ \cup {t}] \in Browsers
<1>1. b.active \cup {t} \in SUBSET Turns /\ b.inflight \cup {t} \in SUBSET Turns
      /\ TurnUser[t] \in Users
  BY OwnerAssumption DEF Browsers
<1>2. ASSUME NEW u \in Users, NEW S \in SUBSET Turns
      PROVE  /\ [b EXCEPT !.owner = u, !.active = S, !.idle = "none"] \in Browsers
             /\ [b EXCEPT !.inflight = S] \in Browsers
  BY DEF Browsers
<1>. QED
  BY <1>1, <1>2

LEMMA LeaveType ==
    ASSUME NEW b \in Browsers, NEW t \in Turns
    PROVE  /\ [b EXCEPT !.active = @ \ {t}] \in Browsers
           /\ [b EXCEPT !.inflight = @ \ {t}] \in Browsers
           /\ [b EXCEPT !.inflight = @ \ {t}, !.worker = None] \in Browsers
           /\ [b EXCEPT !.inflight = @ \ {t}, !.fatal = TRUE] \in Browsers
<1>1. b.active \ {t} \in SUBSET Turns /\ b.inflight \ {t} \in SUBSET Turns
  BY DEF Browsers
<1>2. ASSUME NEW S \in SUBSET Turns
      PROVE  /\ [b EXCEPT !.active = S] \in Browsers /\ [b EXCEPT !.inflight = S] \in Browsers
             /\ [b EXCEPT !.inflight = S, !.worker = None] \in Browsers
             /\ [b EXCEPT !.inflight = S, !.fatal = TRUE] \in Browsers
  BY DEF Browsers
<1>. QED
  BY <1>1, <1>2

LEMMA LastUseType ==
    ASSUME NEW b \in Browsers, LastUse(b)
    PROVE  br' \in Browsers
  BY DEF LastUse, GiveBack, Browsers

LEMMA MoveOnType ==
    ASSUME TypeOK, NEW t \in Turns, NEW place \in Places, MoveOn(t, place)
    PROVE  turn' \in [Turns -> [at : Places, over : BOOLEAN, finalizer : BOOLEAN]]
<1>1. ASSUME NEW r \in [at : Places, over : BOOLEAN, finalizer : BOOLEAN], NEW q \in Places
      PROVE  [r EXCEPT !.at = q] \in [at : Places, over : BOOLEAN, finalizer : BOOLEAN]
  OBVIOUS
<1>. "stale" \in Places
  BY DEF Places
<1>. QED
  BY <1>1 DEF TypeOK, MoveOn

LEMMA TypeStep ==
    ASSUME TypeOK, [Next]_vars
    PROVE  TypeOK'
<1>. USE OwnerAssumption DEF TypeOK
<1>1. ASSUME NEW t \in Turns, Call(t) PROVE TypeOK'
  <2>1. turn' \in [Turns -> [at : Places, over : BOOLEAN, finalizer : BOOLEAN]]
    BY <1>1 DEF Call, At, Places
  <2>. QED
    BY <1>1, <2>1 DEF Call
<1>2. ASSUME NEW t \in Turns, Enter(t) PROVE TypeOK'
  <2>1. turn' \in [Turns -> [at : Places, over : BOOLEAN, finalizer : BOOLEAN]]
    BY <1>2 DEF Enter, At, Places
  <2>. QED
    BY <1>2, <2>1 DEF Enter
<1>3. ASSUME NEW t \in Turns, Take(t) PROVE TypeOK'
  <2>1. br' \in Browsers
    <3>1. \/ br' = [br EXCEPT !.owner = TurnUser[t], !.active = @ \cup {t}, !.idle = "none"]
          \/ br' = [br EXCEPT !.switching = TRUE, !.idle = "none"] \/ br' = br
      BY <1>3 DEF Take
    <3>2. [br EXCEPT !.switching = TRUE, !.idle = "none"] \in Browsers
      BY DEF Browsers
    <3>3. [br EXCEPT !.owner = TurnUser[t], !.active = @ \cup {t}, !.idle = "none"] \in Browsers
      BY JoinType
    <3>. QED
      BY <3>1, <3>2, <3>3, Zenon
  <2>2. turn' \in [Turns -> [at : Places, over : BOOLEAN, finalizer : BOOLEAN]]
    BY <1>3 DEF Take, At, Places
  <2>. QED
    BY <1>3, <2>1, <2>2 DEF Take
<1>4. ASSUME NEW t \in Turns, LeaseArrives(t) PROVE TypeOK'
  <2>1. br' \in Browsers
    BY <1>4 DEF LeaseArrives, Browsers
  <2>2. turn' \in [Turns -> [at : Places, over : BOOLEAN, finalizer : BOOLEAN]]
    BY <1>4 DEF LeaseArrives, At, Places
  <2>. QED
    BY <1>4, <2>1, <2>2 DEF LeaseArrives
<1>5. ASSUME NEW t \in Turns, Granted(t) PROVE TypeOK'
  <2>1. br' \in Browsers
    BY <1>5 DEF Granted, Browsers
  <2>2. turn' \in [Turns -> [at : Places, over : BOOLEAN, finalizer : BOOLEAN]]
    BY <1>5 DEF Granted, At, Places
  <2>. QED
    BY <1>5, <2>1, <2>2 DEF Granted
<1>6. ASSUME NEW t \in Turns, Switched(t) PROVE TypeOK'
  <2>1. br' \in Browsers
    BY <1>6 DEF Switched, Browsers
  <2>2. turn' \in [Turns -> [at : Places, over : BOOLEAN, finalizer : BOOLEAN]]
    BY <1>6 DEF Switched, At, Places
  <2>. QED
    BY <1>6, <2>1, <2>2 DEF Switched
<1>7. ASSUME NEW t \in Turns, SwitchFails(t) PROVE TypeOK'
  <2>1. br' \in Browsers
    BY <1>7 DEF SwitchFails, Broken, Browsers
  <2>2. turn' \in [Turns -> [at : Places, over : BOOLEAN, finalizer : BOOLEAN]]
    BY <1>7 DEF SwitchFails, At, Places
  <2>. QED
    BY <1>7, <2>1, <2>2 DEF SwitchFails, Broken
<1>8. ASSUME NEW t \in Turns, Root(t) PROVE TypeOK'
  <2>1. br' \in Browsers
    BY <1>8, LeaveType, LastUseType DEF Root
  <2>2. turn' \in [Turns -> [at : Places, over : BOOLEAN, finalizer : BOOLEAN]]
    BY <1>8 DEF Root, At, Places
  <2>. QED
    BY <1>8, <2>1, <2>2 DEF Root, LastUse, GiveBack
<1>9. ASSUME NEW t \in Turns, GiveUp(t) PROVE TypeOK'
  <2>1. br' \in Browsers
    BY <1>9, ZenonT(60) DEF GiveUp, Broken, Browsers
  <2>2. turn' \in [Turns -> [at : Places, over : BOOLEAN, finalizer : BOOLEAN]]
    BY <1>9 DEF GiveUp, At, Places
  <2>. QED
    BY <1>9, <2>1, <2>2 DEF GiveUp, Broken
<1>10. ASSUME NEW t \in Turns, StartRun(t) PROVE TypeOK'
  <2>1. br' \in Browsers
    <3>1. CASE br.fatal \/ t \notin br.active
      BY <1>10, <3>1 DEF StartRun
    <3>2. CASE ~(br.fatal \/ t \notin br.active)
      <4>1. br' = [br EXCEPT !.inflight = @ \cup {t}]
        BY <1>10, <3>2 DEF StartRun
      <4>. QED
        BY <4>1, JoinType
    <3>. QED
      BY <3>1, <3>2
  <2>2. turn' \in [Turns -> [at : Places, over : BOOLEAN, finalizer : BOOLEAN]]
    BY <1>10 DEF StartRun, At, Places
  <2>. QED
    BY <1>10, <2>1, <2>2 DEF StartRun
<1>11. ASSUME NEW t \in Turns, EndRun(t) PROVE TypeOK'
  <2>1. br' \in Browsers
    BY <1>11, LeaveType, LastUseType DEF EndRun, Uncounted
  <2>2. turn' \in [Turns -> [at : Places, over : BOOLEAN, finalizer : BOOLEAN]]
    BY <1>11 DEF EndRun, CallEnds, At, Places
  <2>. QED
    BY <1>11, <2>1, <2>2 DEF EndRun, LastUse, GiveBack
<1>12. ASSUME NEW t \in Turns, EndTurn(t) PROVE TypeOK'
  <2>1. turn' \in [Turns -> [at : Places, over : BOOLEAN, finalizer : BOOLEAN]]
    BY <1>12 DEF EndTurn, Places
  <2>. QED
    BY <1>12, <2>1 DEF EndTurn
<1>13. ASSUME NEW t \in Turns, Finalize(t) PROVE TypeOK'
  <2>1. br' \in Browsers
    BY <1>13, LeaveType, LastUseType DEF Finalize
  <2>2. turn' \in [Turns -> [at : Places, over : BOOLEAN, finalizer : BOOLEAN]]
    BY <1>13 DEF Finalize, Places
  <2>. QED
    BY <1>13, <2>1, <2>2 DEF Finalize, LastUse, GiveBack
<1>14. ASSUME NEW j \in Jobs, StartJob(j) PROVE TypeOK'
  <2>1. job' \in [Jobs -> JobStates]
    BY <1>14 DEF StartJob, Job, JobStates
  <2>. QED
    BY <1>14, <2>1 DEF StartJob
<1>15. ASSUME NEW j \in Jobs, Yield(j) PROVE TypeOK'
  <2>1. br' \in Browsers
    BY <1>15 DEF Yield, Browsers
  <2>2. job' \in [Jobs -> JobStates]
    BY <1>15 DEF Yield, Job, JobStates
  <2>. QED
    BY <1>15, <2>1, <2>2 DEF Yield
<1>16. ASSUME NEW j \in Jobs, Yielded(j) PROVE TypeOK'
  <2>1. br' \in Browsers
    BY <1>16 DEF Yielded, ClosedIdle, GiveBack, Broken, Browsers
  <2>2. job' \in [Jobs -> JobStates]
    BY <1>16 DEF Yielded, Job, JobStates
  <2>. QED
    BY <1>16, <2>1, <2>2 DEF Yielded, ClosedIdle, GiveBack, Broken
<1>17. ASSUME NEW j \in Jobs, Launch(j) PROVE TypeOK'
  <2>1. job' \in [Jobs -> JobStates]
    BY <1>17 DEF Launch, Job, JobStates
  <2>. QED
    BY <1>17, <2>1 DEF Launch
<1>18. ASSUME NEW j \in Jobs, GiveUpWaiting(j) PROVE TypeOK'
  <2>1. job' \in [Jobs -> JobStates]
    BY <1>18 DEF GiveUpWaiting, Job, JobStates
  <2>. QED
    BY <1>18, <2>1 DEF GiveUpWaiting
<1>19. ASSUME NEW j \in Jobs, JobEnds(j) PROVE TypeOK'
  <2>1. job' \in [Jobs -> JobStates]
    BY <1>19 DEF JobEnds, Job, JobStates
  <2>. QED
    BY <1>19, <2>1 DEF JobEnds
<1>20. ASSUME NEW j \in Jobs, RecordUnsafe(j) PROVE TypeOK'
  <2>1. job' \in [Jobs -> JobStates]
    BY <1>20 DEF RecordUnsafe, Job, JobStates
  <2>. QED
    BY <1>20, <2>1 DEF RecordUnsafe
<1>21. ASSUME NEW j \in Jobs, Confirm(j) PROVE TypeOK'
  <2>1. job' \in [Jobs -> JobStates]
    BY <1>21 DEF Confirm, Job, JobStates
  <2>. QED
    BY <1>21, <2>1 DEF Confirm
<1>22. ASSUME NEW j \in Jobs, CancelJob(j) PROVE TypeOK'
  <2>1. br' \in Browsers
    BY <1>22 DEF CancelJob, Broken, Browsers
  <2>2. job' \in [Jobs -> JobStates]
    BY <1>22 DEF CancelJob, Job, JobStates
  <2>. QED
    BY <1>22, <2>1, <2>2 DEF CancelJob, Broken
<1>23. ASSUME NEW j \in Jobs, CancelFailing(j) PROVE TypeOK'
  <2>1. job' \in [Jobs -> JobStates]
    BY <1>23 DEF CancelFailing, Job, JobStates
  <2>. QED
    BY <1>23, <2>1 DEF CancelFailing
<1>24. ASSUME NEW j \in Jobs, Stopped(j) PROVE TypeOK'
  BY <1>24 DEF Stopped
<1>25. CASE IdleFires
  <2>1. br' \in Browsers
    <3>1. \/ br' = [br EXCEPT !.idle = "none"]
          \/ br' = [br EXCEPT !.switching = TRUE, !.idle = "closing"]
      BY <1>25 DEF IdleFires
    <3>. QED
      BY <3>1 DEF Browsers
  <2>. QED
    BY <1>25, <2>1 DEF IdleFires
<1>26. CASE IdleCloses
  <2>1. br' \in Browsers
    BY <1>26 DEF IdleCloses, ClosedIdle, GiveBack, Broken, Browsers
  <2>. QED
    BY <1>26, <2>1 DEF IdleCloses, ClosedIdle, GiveBack, Broken
<1>27. CASE SweepBegins
  <2>1. br' \in Browsers
    BY <1>27 DEF SweepBegins, Browsers
  <2>. QED
    BY <1>27, <2>1 DEF SweepBegins
<1>28. CASE SweepEnds
  <2>1. br' \in Browsers
    BY <1>28 DEF SweepEnds, Browsers
  <2>. QED
    BY <1>28, <2>1 DEF SweepEnds
<1>29. CASE AskWipe
  BY <1>29 DEF AskWipe
<1>30. CASE BeginWipe
  <2>1. br' \in Browsers
    BY <1>30, ZenonT(60) DEF BeginWipe, Browsers
  <2>. QED
    BY <1>30, <2>1 DEF BeginWipe
<1>31. CASE CloseForWipe
  <2>1. br' \in Browsers
    BY <1>31 DEF CloseForWipe, ClosedIdle, GiveBack, Broken, Browsers
  <2>. QED
    BY <1>31, <2>1 DEF CloseForWipe, ClosedIdle, GiveBack, Broken
<1>32. CASE Remove
  BY <1>32 DEF Remove
<1>33. CASE Crash
  <2>1. br' \in Browsers
    BY <1>33 DEF Crash, Fresh, Browsers
  <2>2. turn' \in [Turns -> [at : Places, over : BOOLEAN, finalizer : BOOLEAN]]
    BY <1>33 DEF Crash, Places
  <2>. QED
    BY <1>33, <2>1, <2>2 DEF Crash, Fresh, BrowserUnit
<1>34. CASE StartUp
  <2>1. job' \in [Jobs -> JobStates]
    BY <1>34 DEF StartUp, JobStates
  <2>. QED
    BY <1>34, <2>1 DEF StartUp
<1>35. ASSUME NEW t \in Turns, Ensure(t) PROVE TypeOK'
  <2>1. br' \in Browsers
    BY <1>35 DEF Ensure, Browsers
  <2>2. turn' \in [Turns -> [at : Places, over : BOOLEAN, finalizer : BOOLEAN]]
    BY <1>35, MoveOnType DEF Ensure, At, Places
  <2>. QED
    BY <1>35, <2>1, <2>2 DEF Ensure
<1>36. ASSUME NEW t \in Turns, Started(t) PROVE TypeOK'
  <2>1. br' \in Browsers
    BY <1>36 DEF Started, Browsers
  <2>2. turn' \in [Turns -> [at : Places, over : BOOLEAN, finalizer : BOOLEAN]]
    BY <1>36, MoveOnType DEF Started, Places
  <2>. QED
    BY <1>36, <2>1, <2>2 DEF Started
<1>37. ASSUME NEW t \in Turns, StartFails(t) PROVE TypeOK'
  <2>1. br' \in Browsers
    BY <1>37, LeaveType, LastUseType DEF StartFails, Uncounted
  <2>2. turn' \in [Turns -> [at : Places, over : BOOLEAN, finalizer : BOOLEAN]]
    BY <1>37 DEF StartFails, CallEnds, At, Places
  <2>. QED
    BY <1>37, <2>1, <2>2 DEF StartFails, LastUse, GiveBack
<1>38. ASSUME NEW t \in Turns, Discard(t) PROVE TypeOK'
  <2>1. br' \in Browsers
    BY <1>38, LeaveType, LastUseType DEF Discard, Uncounted
  <2>2. turn' \in [Turns -> [at : Places, over : BOOLEAN, finalizer : BOOLEAN]]
    BY <1>38, MoveOnType DEF Discard, Places
  <2>. QED
    BY <1>38, <2>1, <2>2 DEF Discard, LastUse, GiveBack
<1>39. CASE StrayEnds
  BY <1>39 DEF StrayEnds
<1>40. CASE UNCHANGED vars
  BY <1>40 DEF vars
<1>. QED
  BY <1>1, <1>2, <1>3, <1>4, <1>5, <1>6, <1>7, <1>8, <1>9, <1>10, <1>11, <1>12, <1>13,
     <1>14, <1>15, <1>16, <1>17, <1>18, <1>19, <1>20, <1>21, <1>22, <1>23, <1>24, <1>25,
     <1>26, <1>27, <1>28, <1>29, <1>30, <1>31, <1>32, <1>33, <1>34, <1>35, <1>36, <1>37,
     <1>38, <1>39, <1>40
  DEF Next, TurnStep, JobStep, BrowserStep, WipeStep

(* What the steps with several outcomes do, field by field.                  *)

Moved(t, place) ==
    /\ turn'[t].at = place /\ turn'[t].finalizer = turn[t].finalizer
    /\ \A s \in Turns \ {t} : turn'[s] = turn[s]

LEMMA AtEffect ==
    ASSUME TypeOK, NEW t \in Turns, NEW place \in Places, At(t, place)
    PROVE  Moved(t, place)
  BY DEF TypeOK, At, Moved

LEMMA LastUseEffect ==
    ASSUME NEW b \in Browsers, LastUse(b)
    PROVE  /\ br'.active = b.active /\ br'.inflight = b.inflight /\ br'.worker = b.worker
           /\ br'.switching = b.switching /\ br'.fatal = b.fatal
           /\ br'.idle \in {b.idle, "timer"}
           /\ \/ br'.owner = b.owner /\ br'.lent = b.lent /\ lease' = lease
              \/ /\ ~Busy(b) /\ b.worker = None /\ br'.owner = None /\ ~br'.lent
                 /\ lease' = IF b.lent THEN None ELSE lease
<1>1. CASE Busy(b)
  BY <1>1 DEF LastUse
<1>2. CASE ~Busy(b) /\ b.worker = None
  BY <1>2, ZenonT(60) DEF LastUse, GiveBack, Browsers
<1>3. CASE ~Busy(b) /\ b.worker # None
  BY <1>3 DEF LastUse, Browsers
<1>. QED
  BY <1>1, <1>2, <1>3

LEMMA ClosedIdleEffect ==
    ASSUME TypeOK, ClosedIdle
    PROVE  /\ br'.active = br.active /\ br'.inflight = br.inflight
           /\ br'.worker = None /\ br'.owner = None /\ ~br'.switching /\ ~br'.lent
           /\ br'.idle = "none" /\ lease' = IF br.lent THEN None ELSE lease
<1>. DEFINE b == [br EXCEPT !.worker = None, !.owner = None, !.switching = FALSE, !.idle = "none"]
<1>1. /\ b \in Browsers /\ b.active = br.active /\ b.inflight = br.inflight /\ b.worker = None
      /\ b.owner = None /\ ~b.switching /\ b.idle = "none" /\ b.lent = br.lent
  BY DEF TypeOK, Browsers
<1>2. br' = [b EXCEPT !.lent = FALSE] /\ lease' = IF b.lent THEN None ELSE lease
  BY DEF ClosedIdle, GiveBack
<1>. HIDE DEF b
<1>. QED
  BY <1>1, <1>2 DEF Browsers

\* What stays when a turn comes in.
Joined(t) ==
    /\ br'.owner = TurnUser[t] /\ br'.active = br.active \cup {t} /\ br'.inflight = br.inflight
    /\ br'.worker = br.worker /\ br'.switching = br.switching /\ br'.fatal = br.fatal
    /\ br'.lent = br.lent /\ br'.idle = "none"

LEMMA TakeEffect ==
    ASSUME TypeOK, NEW t \in Turns, Take(t)
    PROVE  /\ turn[t].at = "waiting" /\ leasing = None /\ ~br.switching
           /\ UNCHANGED <<up, lease, poisoned, job, unit, wipe>>
           /\ \/ /\ br.owner = TurnUser[t] \/ (br.owner = None /\ br.lent)
                 /\ Joined(t) /\ Moved(t, "acquired") /\ UNCHANGED leasing
              \/ /\ br.owner = None /\ ~br.lent /\ leasing' = t /\ br' = br
                 /\ Moved(t, "leasing")
              \/ /\ br.owner # None /\ ~Busy(br) /\ br'.switching /\ br'.idle = "none"
                 /\ br'.owner = br.owner /\ br'.active = br.active /\ br'.inflight = br.inflight
                 /\ br'.worker = br.worker /\ br'.lent = br.lent /\ br'.fatal = br.fatal
                 /\ Moved(t, "switching") /\ UNCHANGED leasing
<1>1. turn[t].at = "waiting" /\ leasing = None /\ ~Blocked(TurnUser[t])
      /\ UNCHANGED <<up, lease, poisoned, job, unit, wipe>>
  BY DEF Take, ConditionFree
<1>2. CASE /\ br.owner = TurnUser[t] \/ (br.owner = None /\ br.lent)
           /\ br' = [br EXCEPT !.owner = TurnUser[t], !.active = @ \cup {t}, !.idle = "none"]
           /\ At(t, "acquired") /\ UNCHANGED leasing
  <2>1. Joined(t)
    BY <1>2 DEF TypeOK, Browsers, Joined
  <2>. QED
    BY <1>1, <1>2, <2>1, AtEffect DEF Blocked, Places
<1>3. CASE br.owner = None /\ ~br.lent /\ leasing' = t /\ At(t, "leasing") /\ UNCHANGED br
  BY <1>1, <1>3, AtEffect DEF Blocked, Places
<1>4. CASE /\ br.owner \notin {None, TurnUser[t]}
           /\ br' = [br EXCEPT !.switching = TRUE, !.idle = "none"]
           /\ At(t, "switching") /\ UNCHANGED leasing
  <2>1. /\ br'.switching /\ br'.idle = "none"
        /\ br'.owner = br.owner /\ br'.active = br.active /\ br'.inflight = br.inflight
        /\ br'.worker = br.worker /\ br'.lent = br.lent /\ br'.fatal = br.fatal
    BY <1>4 DEF TypeOK, Browsers
  <2>. QED
    BY <1>1, <1>4, <2>1, AtEffect DEF Blocked, Places
<1>. QED
  BY <1>2, <1>3, <1>4 DEF Take

LEMMA LeaseArrivesEffect ==
    ASSUME TypeOK, NEW t \in Turns, LeaseArrives(t)
    PROVE  /\ turn[t].at = "leasing" /\ UNCHANGED <<up, poisoned, job, unit, wipe>>
           /\ br'.owner = br.owner /\ br'.active = br.active /\ br'.inflight = br.inflight
           /\ br'.worker = br.worker /\ br'.switching = br.switching /\ br'.fatal = br.fatal
           /\ br'.idle = br.idle
           /\ \/ /\ lease = None /\ ~poisoned /\ lease' = "browser" /\ br'.lent
                 /\ Moved(t, "granted") /\ UNCHANGED leasing
              \/ /\ leasing' = None /\ Moved(t, "back") /\ lease' = lease /\ br'.lent = br.lent
<1>1. CASE /\ lease = None /\ ~poisoned /\ lease' = "browser" /\ br' = [br EXCEPT !.lent = TRUE]
           /\ At(t, "granted") /\ UNCHANGED leasing
  <2>1. /\ br'.owner = br.owner /\ br'.active = br.active /\ br'.inflight = br.inflight
        /\ br'.worker = br.worker /\ br'.switching = br.switching /\ br'.fatal = br.fatal
        /\ br'.idle = br.idle /\ br'.lent
    BY <1>1 DEF TypeOK, Browsers
  <2>. QED
    BY <1>1, <2>1, AtEffect DEF LeaseArrives, Places
<1>2. CASE leasing' = None /\ At(t, "back") /\ UNCHANGED <<lease, br>>
  BY <1>2, AtEffect DEF LeaseArrives, Places
<1>. QED
  BY <1>1, <1>2 DEF LeaseArrives

\* The turn moves, and the other calls lose their worker.
MovedOn(t, place) ==
    /\ turn'[t].at = place /\ turn'[t].finalizer = turn[t].finalizer
    /\ \A s \in Turns \ {t} :
          /\ turn'[s].at = IF turn[s].at = "running" THEN "stale" ELSE turn[s].at
          /\ turn'[s].finalizer = turn[s].finalizer

LEMMA MoveOnEffect ==
    ASSUME TypeOK, NEW t \in Turns, NEW place \in Places, MoveOn(t, place)
    PROVE  MovedOn(t, place)
<1>1. turn'[t] = [turn[t] EXCEPT !.at = place]
  BY DEF MoveOn
<1>2. ASSUME NEW s \in Turns \ {t}
      PROVE  turn'[s] = IF turn[s].at = "running" THEN [turn[s] EXCEPT !.at = "stale"] ELSE turn[s]
  BY DEF MoveOn
<1>3. turn'[t].at = place /\ turn'[t].finalizer = turn[t].finalizer
  BY <1>1 DEF TypeOK
<1>4. ASSUME NEW s \in Turns \ {t}
      PROVE  /\ turn'[s].at = IF turn[s].at = "running" THEN "stale" ELSE turn[s].at
             /\ turn'[s].finalizer = turn[s].finalizer
  BY <1>2 DEF TypeOK
<1>. QED
  BY <1>3, <1>4 DEF MovedOn

\* A place given back: with the last use of a browser without a worker the lease.
Left ==
    /\ br'.worker \in {br.worker, None} /\ br'.switching = br.switching
    /\ br.fatal => br'.fatal
    /\ br'.idle \in {br.idle, "timer"}
    /\ \/ br'.owner = br.owner /\ br'.lent = br.lent /\ lease' = lease
       \/ /\ br'.active \cup br'.inflight = {} /\ br'.worker = None /\ br'.owner = None
          /\ ~br'.lent /\ lease' = IF br.lent THEN None ELSE lease

LEMMA RootEffect ==
    ASSUME TypeOK, NEW t \in Turns, Root(t)
    PROVE  /\ turn[t].at = "acquired" /\ UNCHANGED <<up, poisoned, leasing, job, unit, wipe>>
           /\ \/ /\ leasing = None /\ Moved(t, "back") /\ Left /\ br'.fatal = br.fatal
                 /\ br'.active = br.active \ {t} /\ br'.inflight = br.inflight
                 /\ br'.worker = br.worker
              \/ /\ turn'[t].at = "rooted" /\ turn'[t].finalizer
                 /\ \A s \in Turns \ {t} : turn'[s] = turn[s]
                 /\ UNCHANGED <<br, lease>>
<1>1. CASE turn[t].over
  <2>. DEFINE b == [br EXCEPT !.active = @ \ {t}]
  <2>1. leasing = None /\ LastUse(b) /\ Moved(t, "back")
    BY <1>1, AtEffect DEF Root, ConditionFree, Places
  <2>2. /\ b \in Browsers /\ b.active = br.active \ {t} /\ b.inflight = br.inflight
        /\ b.worker = br.worker /\ b.owner = br.owner /\ b.switching = br.switching
        /\ b.fatal = br.fatal /\ b.idle = br.idle /\ b.lent = br.lent
    BY LeaveType DEF TypeOK, Browsers
  <2>. HIDE DEF b
  <2>3. Left /\ br'.active = br.active \ {t} /\ br'.inflight = br.inflight
        /\ br'.fatal = br.fatal /\ br'.worker = br.worker
    BY <2>1, <2>2, LastUseEffect DEF Left, Busy
  <2>. QED
    BY <2>1, <2>3 DEF Root
<1>2. CASE ~turn[t].over
  BY <1>2 DEF Root, TypeOK
<1>. QED
  BY <1>1, <1>2

LEMMA FinalizeEffect ==
    ASSUME TypeOK, NEW t \in Turns, Finalize(t)
    PROVE  /\ turn[t].finalizer /\ leasing = None /\ UNCHANGED <<up, poisoned, leasing, job, unit, wipe>>
           /\ turn'[t].at = turn[t].at /\ ~turn'[t].finalizer
           /\ \A s \in Turns \ {t} : turn'[s] = turn[s]
           /\ Left /\ br'.active = br.active \ {t} /\ br'.inflight = br.inflight
           /\ br'.fatal = br.fatal /\ br'.worker = br.worker
<1>. DEFINE b == [br EXCEPT !.active = @ \ {t}]
<1>1. turn[t].finalizer /\ leasing = None /\ LastUse(b)
      /\ UNCHANGED <<up, poisoned, leasing, job, unit, wipe>>
  BY DEF Finalize, ConditionFree
<1>2. /\ b \in Browsers /\ b.active = br.active \ {t} /\ b.inflight = br.inflight
      /\ b.worker = br.worker /\ b.owner = br.owner /\ b.switching = br.switching
      /\ b.fatal = br.fatal /\ b.idle = br.idle /\ b.lent = br.lent
  BY LeaveType DEF TypeOK, Browsers
<1>. HIDE DEF b
<1>3. Left /\ br'.active = br.active \ {t} /\ br'.inflight = br.inflight
      /\ br'.fatal = br.fatal /\ br'.worker = br.worker
  BY <1>1, <1>2, LastUseEffect DEF Left, Busy
<1>4. turn'[t].at = turn[t].at /\ ~turn'[t].finalizer /\ \A s \in Turns \ {t} : turn'[s] = turn[s]
  BY DEF Finalize, TypeOK
<1>. QED
  BY <1>1, <1>3, <1>4

\* The end of a call: kept, discarded or not known to be dead, its place is given back.
LEMMA CallEndsEffect ==
    ASSUME TypeOK, NEW t \in Turns,
           NEW b \in {Uncounted(t), [Uncounted(t) EXCEPT !.worker = None],
                      [Uncounted(t) EXCEPT !.fatal = TRUE]},
           LastUse(b)
    PROVE  /\ Left /\ br'.active = br.active /\ br'.inflight = br.inflight \ {t}
           /\ br'.worker = b.worker
<1>. DEFINE left == [br EXCEPT !.inflight = @ \ {t}]
            gone == [br EXCEPT !.inflight = @ \ {t}, !.worker = None]
            dead == [br EXCEPT !.inflight = @ \ {t}, !.fatal = TRUE]
<1>1. b \in {left, gone, dead}
  BY DEF Uncounted
<1>2. /\ b \in Browsers /\ b.active = br.active /\ b.inflight = br.inflight \ {t}
      /\ b.worker \in {br.worker, None} /\ b.owner = br.owner
      /\ b.switching = br.switching /\ b.idle = br.idle /\ b.lent = br.lent
      /\ br.fatal => b.fatal
  <2>1. CASE b = left
    BY <2>1, LeaveType DEF TypeOK, Browsers
  <2>2. CASE b = gone
    BY <2>2, LeaveType DEF TypeOK, Browsers
  <2>3. CASE b = dead
    BY <2>3, LeaveType DEF TypeOK, Browsers
  <2>. QED
    BY <1>1, <2>1, <2>2, <2>3
<1>. HIDE DEF left, gone, dead
<1>. QED
  BY <1>2, LastUseEffect DEF Left, Busy

\* Where a call's end leaves the turn, and the worker if it is kept.
CallEnded(t) ==
    /\ leasing = None /\ UNCHANGED <<up, leasing, job, unit, wipe>> /\ (poisoned => poisoned')
    /\ Left /\ br'.active = br.active /\ br'.inflight = br.inflight \ {t}

LEMMA EndRunEffect ==
    ASSUME TypeOK, NEW t \in Turns, EndRun(t)
    PROVE  /\ turn[t].at \in {"running", "stale"} /\ CallEnded(t)
           /\ Moved(t, "back") \/ Moved(t, "rooted")
           /\ br'.worker = br.worker
<1>1. /\ turn[t].at \in {"running", "stale"} /\ leasing = None
      /\ UNCHANGED <<up, leasing, job, unit, wipe>> /\ (poisoned => poisoned')
      /\ Moved(t, "back") \/ Moved(t, "rooted")
  BY AtEffect DEF EndRun, CallEnds, ConditionFree, Places
<1>2. \E b \in {Uncounted(t), [Uncounted(t) EXCEPT !.fatal = TRUE]} : LastUse(b)
  BY DEF EndRun
<1>3. ASSUME NEW b \in {Uncounted(t), [Uncounted(t) EXCEPT !.fatal = TRUE]}
      PROVE  b.worker = br.worker
  BY <1>3 DEF Uncounted, TypeOK, Browsers
<1>. QED
  BY <1>1, <1>2, <1>3, CallEndsEffect DEF CallEnded

LEMMA StartFailsEffect ==
    ASSUME TypeOK, NEW t \in Turns, StartFails(t)
    PROVE  /\ turn[t].at \in {"ensuring", "starting"} /\ CallEnded(t)
           /\ Moved(t, "back") \/ Moved(t, "rooted")
           /\ br'.worker = br.worker
<1>1. /\ turn[t].at \in {"ensuring", "starting"} /\ leasing = None
      /\ UNCHANGED <<up, leasing, job, unit, wipe>> /\ (poisoned => poisoned')
      /\ Moved(t, "back") \/ Moved(t, "rooted")
  BY AtEffect DEF StartFails, CallEnds, ConditionFree, Places
<1>2. \E b \in {Uncounted(t), [Uncounted(t) EXCEPT !.fatal = TRUE]} : LastUse(b)
  BY DEF StartFails
<1>3. ASSUME NEW b \in {Uncounted(t), [Uncounted(t) EXCEPT !.fatal = TRUE]}
      PROVE  b.worker = br.worker
  BY <1>3 DEF Uncounted, TypeOK, Browsers
<1>. QED
  BY <1>1, <1>2, <1>3, CallEndsEffect DEF CallEnded

LEMMA DiscardEffect ==
    ASSUME TypeOK, NEW t \in Turns, Discard(t)
    PROVE  /\ turn[t].at = "running" /\ CallEnded(t)
           /\ MovedOn(t, "back") \/ MovedOn(t, "rooted")
           /\ br'.worker = None
<1>1. /\ turn[t].at = "running" /\ leasing = None
      /\ UNCHANGED <<up, leasing, job, unit, wipe>> /\ (poisoned => poisoned')
      /\ MovedOn(t, "back") \/ MovedOn(t, "rooted")
  BY MoveOnEffect DEF Discard, ConditionFree, Places
<1>2. LastUse([Uncounted(t) EXCEPT !.worker = None])
  BY DEF Discard
<1>3. [Uncounted(t) EXCEPT !.worker = None].worker = None
  BY DEF Uncounted, TypeOK, Browsers
<1>. QED
  BY <1>1, <1>2, <1>3, CallEndsEffect DEF CallEnded

LEMMA GiveUpEffect ==
    ASSUME TypeOK, NEW t \in Turns, GiveUp(t)
    PROVE  /\ turn[t].at \in {"entering", "waiting", "leasing", "granted", "switching"}
           /\ leasing' = IF leasing = t THEN None ELSE leasing
           /\ Moved(t, "back") /\ UNCHANGED <<up, lease, job, unit, wipe>>
           /\ poisoned => poisoned'
           /\ br'.owner = br.owner /\ br'.active = br.active /\ br'.inflight = br.inflight
           /\ br'.worker = br.worker /\ br'.lent = br.lent /\ br'.idle = br.idle
           /\ \/ turn[t].at # "switching" /\ br' = br
              \/ turn[t].at = "switching" /\ ~br'.switching /\ (br'.fatal \/ br.worker = None)
                 /\ (br.fatal => br'.fatal)
<1>1. CASE turn[t].at # "switching"
  BY <1>1, AtEffect DEF GiveUp, Places
<1>2. CASE turn[t].at = "switching" /\ br.worker = None
  <2>1. br' = [br EXCEPT !.switching = FALSE] /\ UNCHANGED poisoned
    BY <1>2 DEF GiveUp
  <2>. QED
    BY <1>2, <2>1, AtEffect DEF GiveUp, Places, TypeOK, Browsers
<1>3. CASE turn[t].at = "switching" /\ br.worker # None
  <2>1. br' = [br EXCEPT !.switching = FALSE, !.fatal = TRUE] /\ poisoned'
    BY <1>3 DEF GiveUp, Broken
  <2>. QED
    BY <1>3, <2>1, AtEffect DEF GiveUp, Places, TypeOK, Browsers
<1>. QED
  BY <1>1, <1>2, <1>3

LEMMA StartRunEffect ==
    ASSUME TypeOK, NEW t \in Turns, StartRun(t)
    PROVE  /\ turn[t].at = "rooted" /\ leasing = None
           /\ UNCHANGED <<up, lease, poisoned, leasing, job, unit, wipe>>
           /\ br'.owner = br.owner /\ br'.active = br.active /\ br'.worker = br.worker
           /\ br'.switching = br.switching /\ br'.lent = br.lent /\ br'.idle = br.idle
           /\ \/ Moved(t, "back") /\ br' = br
              \/ /\ t \in br.active /\ Moved(t, "ensuring")
                 /\ br'.inflight = br.inflight \cup {t}
<1>1. CASE br.fatal \/ t \notin br.active
  BY <1>1, AtEffect DEF StartRun, ConditionFree, Places
<1>2. CASE ~(br.fatal \/ t \notin br.active)
  <2>1. /\ br' = [br EXCEPT !.inflight = @ \cup {t}]
        /\ Moved(t, "ensuring") /\ turn[t].at = "rooted" /\ leasing = None
        /\ UNCHANGED <<up, lease, poisoned, leasing, job, unit, wipe>>
    BY <1>2, AtEffect DEF StartRun, ConditionFree, Places
  <2>. QED
    BY <1>2, <2>1 DEF TypeOK, Browsers
<1>. QED
  BY <1>1, <1>2

\* Of the browser only the worker changes.
SameButWorker ==
    /\ UNCHANGED <<up, lease, poisoned, leasing, job, unit, wipe>>
    /\ br'.owner = br.owner /\ br'.active = br.active /\ br'.inflight = br.inflight
    /\ br'.switching = br.switching /\ br'.lent = br.lent /\ br'.idle = br.idle

LEMMA EnsureEffect ==
    ASSUME TypeOK, NEW t \in Turns, Ensure(t)
    PROVE  /\ turn[t].at = "ensuring" /\ SameButWorker
           /\ \/ br.worker # None /\ Moved(t, "running") /\ br'.worker = br.worker
              \/ Moved(t, "starting") /\ br'.worker = br.worker
              \/ MovedOn(t, "starting") /\ br'.worker = None
<1>1. CASE br.worker # None /\ At(t, "running") /\ UNCHANGED br
  BY <1>1, AtEffect DEF Ensure, SameButWorker, Places
<1>2. CASE At(t, "starting") /\ UNCHANGED br
  BY <1>2, AtEffect DEF Ensure, SameButWorker, Places
<1>3. CASE MoveOn(t, "starting") /\ br' = [br EXCEPT !.worker = None]
  BY <1>3, MoveOnEffect DEF Ensure, SameButWorker, Places, TypeOK, Browsers
<1>. QED
  BY <1>1, <1>2, <1>3 DEF Ensure

LEMMA StartedEffect ==
    ASSUME TypeOK, NEW t \in Turns, Started(t)
    PROVE  /\ turn[t].at = "starting" /\ SameButWorker
           /\ MovedOn(t, "running") /\ br'.worker = TurnUser[t]
  BY MoveOnEffect DEF Started, SameButWorker, Places, TypeOK, Browsers

\* The two outcomes of closing the worker.
Closed ==
    /\ br'.active = br.active /\ br'.inflight = br.inflight
    /\ br'.worker = None /\ br'.owner = None /\ ~br'.switching /\ ~br'.lent
    /\ br'.idle = "none" /\ lease' = (IF br.lent THEN None ELSE lease) /\ poisoned' = poisoned
Failed ==
    /\ br'.active = br.active /\ br'.inflight = br.inflight
    /\ br'.worker = br.worker /\ br'.owner = br.owner /\ br'.lent = br.lent
    /\ br'.fatal /\ lease' = lease /\ poisoned'

LEMMA YieldedEffect ==
    ASSUME TypeOK, NEW j \in Jobs, Yielded(j)
    PROVE  /\ job[j] = "yielding" /\ leasing = None /\ job'[j] = "waiting"
           /\ \A i \in Jobs \ {j} : job'[i] = job[i]
           /\ UNCHANGED <<up, leasing, turn, unit, wipe>>
           /\ Closed \/ (Failed /\ ~br'.switching /\ br'.idle = br.idle)
<1>1. CASE ClosedIdle /\ UNCHANGED poisoned
  BY <1>1, ClosedIdleEffect DEF Yielded, ConditionFree, Job, Closed, TypeOK
<1>2. CASE Broken([br EXCEPT !.switching = FALSE]) /\ UNCHANGED lease
  <2>1. Failed /\ ~br'.switching /\ br'.idle = br.idle
    BY <1>2 DEF Broken, Failed, TypeOK, Browsers
  <2>. QED
    BY <2>1 DEF Yielded, ConditionFree, Job, TypeOK
<1>. QED
  BY <1>1, <1>2 DEF Yielded

LEMMA IdleFiresEffect ==
    ASSUME TypeOK, IdleFires
    PROVE  /\ br.idle = "timer" /\ leasing = None
           /\ UNCHANGED <<up, lease, poisoned, leasing, turn, job, unit, wipe>>
           /\ br'.owner = br.owner /\ br'.active = br.active /\ br'.inflight = br.inflight
           /\ br'.worker = br.worker /\ br'.lent = br.lent /\ br'.fatal = br.fatal
           /\ \/ br'.switching = br.switching /\ br'.idle = "none"
              \/ ~br.switching /\ ~Busy(br) /\ br'.switching /\ br'.idle = "closing"
<1>1. CASE br.switching \/ Busy(br)
  <2>1. br' = [br EXCEPT !.idle = "none"]
    BY <1>1 DEF IdleFires
  <2>. QED
    BY <2>1 DEF IdleFires, ConditionFree, TypeOK, Browsers
<1>2. CASE ~(br.switching \/ Busy(br))
  <2>1. br' = [br EXCEPT !.switching = TRUE, !.idle = "closing"]
    BY <1>2 DEF IdleFires
  <2>. QED
    BY <1>2, <2>1 DEF IdleFires, ConditionFree, TypeOK, Browsers
<1>. QED
  BY <1>1, <1>2

LEMMA IdleClosesEffect ==
    ASSUME TypeOK, IdleCloses
    PROVE  /\ br.idle = "closing" /\ leasing = None /\ UNCHANGED <<up, leasing, turn, job, unit, wipe>>
           /\ Closed \/ (Failed /\ ~br'.switching /\ br'.idle = "none")
<1>1. CASE ClosedIdle /\ UNCHANGED poisoned
  BY <1>1, ClosedIdleEffect DEF IdleCloses, ConditionFree, Closed
<1>2. CASE Broken([br EXCEPT !.switching = FALSE, !.idle = "none"]) /\ UNCHANGED lease
  <2>1. Failed /\ ~br'.switching /\ br'.idle = "none"
    BY <1>2 DEF Broken, Failed, TypeOK, Browsers
  <2>. QED
    BY <2>1 DEF IdleCloses, ConditionFree
<1>. QED
  BY <1>1, <1>2 DEF IdleCloses

LEMMA CloseForWipeEffect ==
    ASSUME TypeOK, CloseForWipe
    PROVE  /\ wipe = "closing" /\ leasing = None /\ wipe' \in {"removing", "failed"}
           /\ UNCHANGED <<up, leasing, turn, job, unit>>
           /\ Closed \/ (Failed /\ br'.switching = br.switching /\ br'.idle = br.idle)
<1>1. CASE ClosedIdle /\ wipe' = "removing" /\ UNCHANGED poisoned
  BY <1>1, ClosedIdleEffect DEF CloseForWipe, ConditionFree, Closed
<1>2. CASE Broken(br) /\ wipe' = "failed" /\ UNCHANGED lease
  <2>1. Failed /\ br'.switching = br.switching /\ br'.idle = br.idle
    BY <1>2 DEF Broken, Failed, TypeOK, Browsers
  <2>. QED
    BY <1>2, <2>1 DEF CloseForWipe, ConditionFree
<1>. QED
  BY <1>1, <1>2 DEF CloseForWipe

LEMMA BeginWipeEffect ==
    ASSUME TypeOK, BeginWipe
    PROVE  /\ wipe = "asked" /\ leasing = None /\ ~br.switching
           /\ UNCHANGED <<up, lease, poisoned, leasing, turn, job, unit>>
           /\ \/ wipe' = "removing" /\ br' = br
              \/ /\ wipe' = "closing" /\ ~Busy(br) /\ br'.switching /\ br'.idle = "none"
                 /\ br'.owner = br.owner /\ br'.active = br.active /\ br'.inflight = br.inflight
                 /\ br'.worker = br.worker /\ br'.lent = br.lent /\ br'.fatal = br.fatal
<1>1. CASE br.owner = Wiped /\ br.worker # None
  BY <1>1 DEF BeginWipe, ConditionFree, TypeOK, Browsers
<1>2. CASE ~(br.owner = Wiped /\ br.worker # None)
  BY <1>2 DEF BeginWipe, ConditionFree
<1>. QED
  BY <1>1, <1>2

LEMMA LeaseIsLentStep ==
    ASSUME IInv, [Next]_vars
    PROVE  LeaseIsLent'
<1>. TypeOK /\ TypeOK' /\ LeaseIsLent /\ UnitsAreHeld /\ OwnerHasLease /\ PlacesAgree
  BY TypeStep DEF IInv
<1>. USE NoneAssumption, OwnerAssumption DEF TypeOK, Browsers, LeaseIsLent, UnitsAreHeld, OwnerHasLease, PlacesAgree, Calling
<1>1. ASSUME NEW t \in Turns, Take(t) PROVE LeaseIsLent'
  BY <1>1, TakeEffect DEF Joined, Moved
<1>2. ASSUME NEW t \in Turns, LeaseArrives(t) PROVE LeaseIsLent'
  BY <1>2, LeaseArrivesEffect DEF Moved
<1>3. ASSUME NEW t \in Turns, Granted(t) PROVE LeaseIsLent'
  BY <1>3 DEF Granted, At
<1>4. ASSUME NEW t \in Turns, Switched(t) PROVE LeaseIsLent'
  BY <1>4 DEF Switched, At, ConditionFree
<1>5. ASSUME NEW t \in Turns, SwitchFails(t) PROVE LeaseIsLent'
  BY <1>5 DEF SwitchFails, At, ConditionFree, Broken
<1>6. ASSUME NEW t \in Turns, Root(t) PROVE LeaseIsLent'
  BY <1>6, RootEffect DEF Left, Moved
<1>7. ASSUME NEW t \in Turns, GiveUp(t) PROVE LeaseIsLent'
  BY <1>7, GiveUpEffect DEF Moved
<1>8. ASSUME NEW t \in Turns, StartRun(t) PROVE LeaseIsLent'
  BY <1>8, StartRunEffect DEF Moved
<1>9. ASSUME NEW t \in Turns, EndRun(t) PROVE LeaseIsLent'
  BY <1>9, EndRunEffect DEF Moved, CallEnded, Left
<1>10. ASSUME NEW t \in Turns, Finalize(t) PROVE LeaseIsLent'
  BY <1>10, FinalizeEffect DEF Left
<1>11. ASSUME NEW j \in Jobs, up, Yield(j) PROVE LeaseIsLent'
  BY <1>11 DEF Yield, ConditionFree, Job
<1>12. ASSUME NEW j \in Jobs, up, Yielded(j) PROVE LeaseIsLent'
  <2>1. /\ job[j] = "yielding" /\ leasing = None /\ job'[j] = "waiting"
        /\ \A i \in Jobs \ {j} : job'[i] = job[i]
        /\ UNCHANGED <<up, leasing, turn, unit, wipe>>
        /\ Closed \/ (Failed /\ ~br'.switching /\ br'.idle = br.idle)
    BY <1>12, YieldedEffect
  <2>. QED
    BY <1>12, <2>1 DEF Closed, Failed
<1>13. ASSUME NEW j \in Jobs, up, Launch(j) PROVE LeaseIsLent'
  BY <1>13 DEF Launch, Job
<1>14. ASSUME NEW j \in Jobs, up, JobEnds(j) PROVE LeaseIsLent'
  BY <1>14 DEF JobEnds, Job
<1>15. ASSUME NEW j \in Jobs, up, CancelJob(j) PROVE LeaseIsLent'
  BY <1>15 DEF CancelJob, Job, Broken
<1>16. CASE IdleFires
  BY <1>16, IdleFiresEffect
<1>17. CASE IdleCloses
  BY <1>17, IdleClosesEffect DEF Closed, Failed
<1>18. CASE BeginWipe
  BY <1>18, BeginWipeEffect
<1>19. CASE CloseForWipe
  BY <1>19, CloseForWipeEffect DEF Closed, Failed
<1>20. CASE Crash
  BY <1>20 DEF Crash, Fresh
<1>21. ASSUME NEW t \in Turns, Call(t) \/ Enter(t) \/ EndTurn(t)
      PROVE  LeaseIsLent'
  BY <1>21 DEF Call, At, Enter, ConditionFree, EndTurn
<1>22. ASSUME NEW j \in Jobs, StartJob(j) \/ GiveUpWaiting(j) \/ RecordUnsafe(j) \/ Confirm(j) \/ CancelFailing(j) \/ Stopped(j)
      PROVE  LeaseIsLent'
  BY <1>22
     DEF StartJob, Job, GiveUpWaiting, RecordUnsafe, Confirm, CancelFailing, Stopped,
         Active
<1>23. CASE SweepBegins \/ SweepEnds \/ AskWipe \/ Remove \/ StrayEnds \/ StartUp
  BY <1>23
     DEF SweepBegins, ConditionFree, SweepEnds, AskWipe, Remove, StrayEnds, StartUp, Active
<1>24. CASE UNCHANGED vars
  BY <1>24 DEF vars
<1>25. ASSUME NEW t \in Turns, Ensure(t) PROVE LeaseIsLent'
  BY <1>25, EnsureEffect DEF Moved, MovedOn, SameButWorker
<1>26. ASSUME NEW t \in Turns, Started(t) PROVE LeaseIsLent'
  BY <1>26, StartedEffect DEF MovedOn, SameButWorker
<1>27. ASSUME NEW t \in Turns, StartFails(t) PROVE LeaseIsLent'
  BY <1>27, StartFailsEffect DEF Moved, CallEnded, Left
<1>28. ASSUME NEW t \in Turns, Discard(t) PROVE LeaseIsLent'
  BY <1>28, DiscardEffect DEF MovedOn, CallEnded, Left
<1>. QED
  BY <1>1, <1>2, <1>3, <1>4, <1>5, <1>6, <1>7, <1>8, <1>9, <1>10, <1>11, <1>12, <1>13,
     <1>14, <1>15, <1>16, <1>17, <1>18, <1>19, <1>20, <1>21, <1>22, <1>23, <1>24, <1>25,
     <1>26, <1>27, <1>28
  DEF Next, TurnStep, JobStep, BrowserStep, WipeStep, StartJob, CancelJob, CancelFailing

LEMMA OwnerHasLeaseStep ==
    ASSUME IInv, [Next]_vars
    PROVE  OwnerHasLease'
<1>. TypeOK /\ TypeOK' /\ OwnerHasLease /\ PlacesAgree /\ ClosersAlone
  BY TypeStep DEF IInv
<1>. USE NoneAssumption, OwnerAssumption DEF TypeOK, Browsers, OwnerHasLease, Busy, Closing, YieldingJobs, SwitchingTurns, PlacesAgree, ClosersAlone, Calling
<1>1. ASSUME NEW t \in Turns, Take(t) PROVE OwnerHasLease'
  BY <1>1, TakeEffect DEF Joined, Moved
<1>2. ASSUME NEW t \in Turns, LeaseArrives(t) PROVE OwnerHasLease'
  BY <1>2, LeaseArrivesEffect DEF Moved
<1>3. ASSUME NEW t \in Turns, Granted(t) PROVE OwnerHasLease'
  BY <1>3 DEF Granted, At
<1>4. ASSUME NEW t \in Turns, Switched(t) PROVE OwnerHasLease'
  BY <1>4 DEF Switched, At, ConditionFree
<1>5. ASSUME NEW t \in Turns, SwitchFails(t) PROVE OwnerHasLease'
  BY <1>5 DEF SwitchFails, At, ConditionFree, Broken
<1>6. ASSUME NEW t \in Turns, Root(t) PROVE OwnerHasLease'
  BY <1>6, RootEffect DEF Left, Moved
<1>7. ASSUME NEW t \in Turns, GiveUp(t) PROVE OwnerHasLease'
  BY <1>7, GiveUpEffect DEF Moved
<1>8. ASSUME NEW t \in Turns, StartRun(t) PROVE OwnerHasLease'
  BY <1>8, StartRunEffect DEF Moved
<1>9. ASSUME NEW t \in Turns, EndRun(t) PROVE OwnerHasLease'
  BY <1>9, EndRunEffect DEF Moved, CallEnded, Left
<1>10. ASSUME NEW t \in Turns, Finalize(t) PROVE OwnerHasLease'
  BY <1>10, FinalizeEffect DEF Left
<1>11. ASSUME NEW j \in Jobs, up, Yield(j) PROVE OwnerHasLease'
  BY <1>11 DEF Yield, ConditionFree, Job
<1>12. ASSUME NEW j \in Jobs, up, Yielded(j) PROVE OwnerHasLease'
  <2>1. /\ job[j] = "yielding" /\ leasing = None /\ job'[j] = "waiting"
        /\ \A i \in Jobs \ {j} : job'[i] = job[i]
        /\ UNCHANGED <<up, leasing, turn, unit, wipe>>
        /\ Closed \/ (Failed /\ ~br'.switching /\ br'.idle = br.idle)
    BY <1>12, YieldedEffect
  <2>. QED
    BY <1>12, <2>1 DEF Closed, Failed
<1>13. ASSUME NEW j \in Jobs, up, Launch(j) PROVE OwnerHasLease'
  BY <1>13 DEF Launch, Job
<1>14. ASSUME NEW j \in Jobs, up, JobEnds(j) PROVE OwnerHasLease'
  BY <1>14 DEF JobEnds, Job
<1>15. ASSUME NEW j \in Jobs, up, CancelJob(j) PROVE OwnerHasLease'
  BY <1>15 DEF CancelJob, Job, Broken
<1>16. CASE IdleFires
  BY <1>16, IdleFiresEffect
<1>17. CASE IdleCloses
  BY <1>17, IdleClosesEffect DEF Closed, Failed
<1>18. CASE BeginWipe
  BY <1>18, BeginWipeEffect
<1>19. CASE CloseForWipe
  BY <1>19, CloseForWipeEffect DEF Closed, Failed
<1>20. CASE Crash
  BY <1>20 DEF Crash, Fresh
<1>21. ASSUME NEW t \in Turns, Call(t) \/ Enter(t) \/ EndTurn(t)
      PROVE  OwnerHasLease'
  BY <1>21 DEF Call, At, Enter, ConditionFree, EndTurn
<1>22. ASSUME NEW j \in Jobs, StartJob(j) \/ GiveUpWaiting(j) \/ RecordUnsafe(j) \/ Confirm(j) \/ CancelFailing(j) \/ Stopped(j)
      PROVE  OwnerHasLease'
  BY <1>22
     DEF StartJob, Job, GiveUpWaiting, RecordUnsafe, Confirm, CancelFailing, Stopped,
         Active
<1>23. CASE SweepBegins \/ SweepEnds \/ AskWipe \/ Remove \/ StrayEnds \/ StartUp
  BY <1>23
     DEF SweepBegins, ConditionFree, SweepEnds, AskWipe, Remove, StrayEnds, StartUp, Active
<1>24. CASE UNCHANGED vars
  BY <1>24 DEF vars
<1>25. ASSUME NEW t \in Turns, Ensure(t) PROVE OwnerHasLease'
  BY <1>25, EnsureEffect DEF Moved, MovedOn, SameButWorker
<1>26. ASSUME NEW t \in Turns, Started(t) PROVE OwnerHasLease'
  BY <1>26, StartedEffect DEF MovedOn, SameButWorker
<1>27. ASSUME NEW t \in Turns, StartFails(t) PROVE OwnerHasLease'
  BY <1>27, StartFailsEffect DEF Moved, CallEnded, Left
<1>28. ASSUME NEW t \in Turns, Discard(t) PROVE OwnerHasLease'
  BY <1>28, DiscardEffect DEF MovedOn, CallEnded, Left
<1>. QED
  BY <1>1, <1>2, <1>3, <1>4, <1>5, <1>6, <1>7, <1>8, <1>9, <1>10, <1>11, <1>12, <1>13,
     <1>14, <1>15, <1>16, <1>17, <1>18, <1>19, <1>20, <1>21, <1>22, <1>23, <1>24, <1>25,
     <1>26, <1>27, <1>28
  DEF Next, TurnStep, JobStep, BrowserStep, WipeStep, StartJob, CancelJob, CancelFailing

LEMMA PlacesAgreeStep ==
    ASSUME IInv, [Next]_vars
    PROVE  PlacesAgree'
<1>. TypeOK /\ TypeOK' /\ PlacesAgree /\ OwnerHasLease /\ ClosersAlone /\ DownIsEmpty
  BY TypeStep DEF IInv
<1>. USE NoneAssumption, OwnerAssumption DEF TypeOK, Browsers, PlacesAgree, Busy, Closing, YieldingJobs, SwitchingTurns, OwnerHasLease, ClosersAlone, DownIsEmpty, Calling
<1>1. ASSUME NEW t \in Turns, Take(t) PROVE PlacesAgree'
  BY <1>1, TakeEffect DEF Joined, Moved
<1>2. ASSUME NEW t \in Turns, LeaseArrives(t) PROVE PlacesAgree'
  BY <1>2, LeaseArrivesEffect DEF Moved
<1>3. ASSUME NEW t \in Turns, Granted(t) PROVE PlacesAgree'
  BY <1>3 DEF Granted, At
<1>4. ASSUME NEW t \in Turns, Switched(t) PROVE PlacesAgree'
  BY <1>4 DEF Switched, At, ConditionFree
<1>5. ASSUME NEW t \in Turns, SwitchFails(t) PROVE PlacesAgree'
  BY <1>5 DEF SwitchFails, At, ConditionFree, Broken
<1>6. ASSUME NEW t \in Turns, Root(t) PROVE PlacesAgree'
  BY <1>6, RootEffect DEF Left, Moved
<1>7. ASSUME NEW t \in Turns, GiveUp(t) PROVE PlacesAgree'
  BY <1>7, GiveUpEffect DEF Moved
<1>8. ASSUME NEW t \in Turns, StartRun(t) PROVE PlacesAgree'
  BY <1>8, StartRunEffect DEF Moved
<1>9. ASSUME NEW t \in Turns, EndRun(t) PROVE PlacesAgree'
  BY <1>9, EndRunEffect DEF Moved, CallEnded, Left
<1>10. ASSUME NEW t \in Turns, Finalize(t) PROVE PlacesAgree'
  BY <1>10, FinalizeEffect DEF Left
<1>11. ASSUME NEW j \in Jobs, up, Yield(j) PROVE PlacesAgree'
  BY <1>11 DEF Yield, ConditionFree, Job
<1>12. ASSUME NEW j \in Jobs, up, Yielded(j) PROVE PlacesAgree'
  <2>1. /\ job[j] = "yielding" /\ leasing = None /\ job'[j] = "waiting"
        /\ \A i \in Jobs \ {j} : job'[i] = job[i]
        /\ UNCHANGED <<up, leasing, turn, unit, wipe>>
        /\ Closed \/ (Failed /\ ~br'.switching /\ br'.idle = br.idle)
    BY <1>12, YieldedEffect
  <2>. QED
    BY <1>12, <2>1 DEF Closed, Failed
<1>13. ASSUME NEW j \in Jobs, up, Launch(j) PROVE PlacesAgree'
  BY <1>13 DEF Launch, Job
<1>14. ASSUME NEW j \in Jobs, up, JobEnds(j) PROVE PlacesAgree'
  BY <1>14 DEF JobEnds, Job
<1>15. ASSUME NEW j \in Jobs, up, CancelJob(j) PROVE PlacesAgree'
  BY <1>15 DEF CancelJob, Job, Broken
<1>16. CASE IdleFires
  BY <1>16, IdleFiresEffect
<1>17. CASE IdleCloses
  BY <1>17, IdleClosesEffect DEF Closed, Failed
<1>18. CASE BeginWipe
  BY <1>18, BeginWipeEffect
<1>19. CASE CloseForWipe
  BY <1>19, CloseForWipeEffect DEF Closed, Failed
<1>20. CASE Crash
  BY <1>20 DEF Crash, Fresh
<1>21. ASSUME NEW t \in Turns, Call(t) \/ Enter(t) \/ EndTurn(t)
      PROVE  PlacesAgree'
  BY <1>21 DEF Call, At, Enter, ConditionFree, EndTurn
<1>22. ASSUME NEW j \in Jobs, StartJob(j) \/ GiveUpWaiting(j) \/ RecordUnsafe(j) \/ Confirm(j) \/ CancelFailing(j) \/ Stopped(j)
      PROVE  PlacesAgree'
  BY <1>22
     DEF StartJob, Job, GiveUpWaiting, RecordUnsafe, Confirm, CancelFailing, Stopped,
         Active
<1>23. CASE SweepBegins \/ SweepEnds \/ AskWipe \/ Remove \/ StrayEnds \/ StartUp
  BY <1>23
     DEF SweepBegins, ConditionFree, SweepEnds, AskWipe, Remove, StrayEnds, StartUp, Active
<1>24. CASE UNCHANGED vars
  BY <1>24 DEF vars
<1>25. ASSUME NEW t \in Turns, Ensure(t) PROVE PlacesAgree'
  BY <1>25, EnsureEffect DEF Moved, MovedOn, SameButWorker
<1>26. ASSUME NEW t \in Turns, Started(t) PROVE PlacesAgree'
  BY <1>26, StartedEffect DEF MovedOn, SameButWorker
<1>27. ASSUME NEW t \in Turns, StartFails(t) PROVE PlacesAgree'
  BY <1>27, StartFailsEffect DEF Moved, CallEnded, Left
<1>28. ASSUME NEW t \in Turns, Discard(t) PROVE PlacesAgree'
  BY <1>28, DiscardEffect DEF MovedOn, CallEnded, Left
<1>. QED
  BY <1>1, <1>2, <1>3, <1>4, <1>5, <1>6, <1>7, <1>8, <1>9, <1>10, <1>11, <1>12, <1>13,
     <1>14, <1>15, <1>16, <1>17, <1>18, <1>19, <1>20, <1>21, <1>22, <1>23, <1>24, <1>25,
     <1>26, <1>27, <1>28
  DEF Next, TurnStep, JobStep, BrowserStep, WipeStep, StartJob, CancelJob, CancelFailing

LEMMA ClosersAloneStep ==
    ASSUME IInv, [Next]_vars
    PROVE  ClosersAlone'
<1>. TypeOK /\ TypeOK' /\ ClosersAlone /\ PlacesAgree /\ OwnerHasLease /\ DownIsEmpty
  BY TypeStep DEF IInv
<1>. USE NoneAssumption, OwnerAssumption DEF TypeOK, Browsers, ClosersAlone, Closing, SwitchingTurns, YieldingJobs, Busy, PlacesAgree, OwnerHasLease, DownIsEmpty, Calling
<1>1. ASSUME NEW t \in Turns, Call(t) PROVE ClosersAlone'
  BY <1>1 DEF Call, At
<1>2. ASSUME NEW t \in Turns, Enter(t) PROVE ClosersAlone'
  BY <1>2 DEF Enter, At, ConditionFree
<1>3. ASSUME NEW t \in Turns, Take(t) PROVE ClosersAlone'
  BY <1>3, TakeEffect DEF Joined, Moved
<1>4. ASSUME NEW t \in Turns, LeaseArrives(t) PROVE ClosersAlone'
  BY <1>4, LeaseArrivesEffect DEF Moved
<1>5. ASSUME NEW t \in Turns, Granted(t) PROVE ClosersAlone'
  BY <1>5 DEF Granted, At
<1>6. ASSUME NEW t \in Turns, Switched(t) PROVE ClosersAlone'
  BY <1>6 DEF Switched, At, ConditionFree
<1>7. ASSUME NEW t \in Turns, SwitchFails(t) PROVE ClosersAlone'
  BY <1>7 DEF SwitchFails, At, ConditionFree, Broken
<1>8. ASSUME NEW t \in Turns, Root(t) PROVE ClosersAlone'
  BY <1>8, RootEffect DEF Left, Moved
<1>9. ASSUME NEW t \in Turns, GiveUp(t) PROVE ClosersAlone'
  BY <1>9, GiveUpEffect, SMTT(30) DEF Moved
<1>10. ASSUME NEW t \in Turns, StartRun(t) PROVE ClosersAlone'
  BY <1>10, StartRunEffect, SMTT(30) DEF Moved
<1>11. ASSUME NEW t \in Turns, EndRun(t) PROVE ClosersAlone'
  BY <1>11, EndRunEffect, SMTT(30) DEF Moved, CallEnded, Left
<1>12. ASSUME NEW t \in Turns, EndTurn(t) PROVE ClosersAlone'
  BY <1>12 DEF EndTurn
<1>13. ASSUME NEW t \in Turns, Finalize(t) PROVE ClosersAlone'
  BY <1>13, FinalizeEffect DEF Left
<1>14. ASSUME NEW j \in Jobs, up, Yield(j) PROVE ClosersAlone'
  BY <1>14 DEF Yield, ConditionFree, Job
<1>15. ASSUME NEW j \in Jobs, up, Yielded(j) PROVE ClosersAlone'
  <2>1. /\ job[j] = "yielding" /\ leasing = None /\ job'[j] = "waiting"
        /\ \A i \in Jobs \ {j} : job'[i] = job[i]
        /\ UNCHANGED <<up, leasing, turn, unit, wipe>>
        /\ Closed \/ (Failed /\ ~br'.switching /\ br'.idle = br.idle)
    BY <1>15, YieldedEffect
  <2>. QED
    BY <1>15, <2>1 DEF Closed, Failed
<1>16. ASSUME NEW j \in Jobs, up, Launch(j) PROVE ClosersAlone'
  BY <1>16 DEF Launch, Job
<1>17. ASSUME NEW j \in Jobs, up, JobEnds(j) PROVE ClosersAlone'
  BY <1>17 DEF JobEnds, Job
<1>18. ASSUME NEW j \in Jobs, up, CancelJob(j) PROVE ClosersAlone'
  BY <1>18 DEF CancelJob, Job, Broken
<1>19. CASE IdleFires
  BY <1>19, IdleFiresEffect
<1>20. CASE IdleCloses
  BY <1>20, IdleClosesEffect DEF Closed, Failed
<1>21. CASE BeginWipe
  BY <1>21, BeginWipeEffect
<1>22. CASE CloseForWipe
  BY <1>22, CloseForWipeEffect DEF Closed, Failed
<1>23. CASE Crash
  BY <1>23 DEF Crash, Fresh
<1>24. ASSUME NEW j \in Jobs, StartJob(j) \/ GiveUpWaiting(j) \/ RecordUnsafe(j) \/ Confirm(j) \/ CancelFailing(j) \/ Stopped(j)
      PROVE  ClosersAlone'
  BY <1>24
     DEF StartJob, Job, GiveUpWaiting, RecordUnsafe, Confirm, CancelFailing, Stopped,
         Active
<1>25. CASE SweepBegins \/ SweepEnds \/ AskWipe \/ Remove \/ StrayEnds \/ StartUp
  BY <1>25
     DEF SweepBegins, ConditionFree, SweepEnds, AskWipe, Remove, StrayEnds, StartUp, Active
<1>26. CASE UNCHANGED vars
  BY <1>26 DEF vars
<1>27. ASSUME NEW t \in Turns, Ensure(t) PROVE ClosersAlone'
  BY <1>27, EnsureEffect DEF Moved, MovedOn, SameButWorker
<1>28. ASSUME NEW t \in Turns, Started(t) PROVE ClosersAlone'
  BY <1>28, StartedEffect DEF MovedOn, SameButWorker
<1>29. ASSUME NEW t \in Turns, StartFails(t) PROVE ClosersAlone'
  BY <1>29, StartFailsEffect DEF Moved, CallEnded, Left
<1>30. ASSUME NEW t \in Turns, Discard(t) PROVE ClosersAlone'
  BY <1>30, DiscardEffect, SMTT(30) DEF MovedOn, CallEnded, Left
<1>. QED
  BY <1>1, <1>2, <1>3, <1>4, <1>5, <1>6, <1>7, <1>8, <1>9, <1>10, <1>11, <1>12, <1>13,
     <1>14, <1>15, <1>16, <1>17, <1>18, <1>19, <1>20, <1>21, <1>22, <1>23, <1>24, <1>25,
     <1>26, <1>27, <1>28, <1>29, <1>30
  DEF Next, TurnStep, JobStep, BrowserStep, WipeStep, StartJob, CancelJob, CancelFailing

LEMMA DownIsEmptyStep ==
    ASSUME IInv, [Next]_vars
    PROVE  DownIsEmpty'
<1>. TypeOK /\ TypeOK' /\ DownIsEmpty /\ PlacesAgree
  BY TypeStep DEF IInv
<1>. USE NoneAssumption, OwnerAssumption DEF TypeOK, Browsers, DownIsEmpty, Fresh, PlacesAgree, Calling
<1>1. ASSUME NEW t \in Turns, Take(t) PROVE DownIsEmpty'
  BY <1>1 DEF Take, At, ConditionFree, Blocked
<1>2. ASSUME NEW t \in Turns, LeaseArrives(t) PROVE DownIsEmpty'
  BY <1>2 DEF LeaseArrives, At
<1>3. ASSUME NEW t \in Turns, Granted(t) PROVE DownIsEmpty'
  BY <1>3 DEF Granted, At
<1>4. ASSUME NEW t \in Turns, Switched(t) PROVE DownIsEmpty'
  BY <1>4 DEF Switched, At, ConditionFree
<1>5. ASSUME NEW t \in Turns, SwitchFails(t) PROVE DownIsEmpty'
  BY <1>5 DEF SwitchFails, At, ConditionFree, Broken
<1>6. ASSUME NEW t \in Turns, Root(t) PROVE DownIsEmpty'
  BY <1>6 DEF Root, At, ConditionFree, LastUse, GiveBack
<1>7. ASSUME NEW t \in Turns, GiveUp(t) PROVE DownIsEmpty'
  BY <1>7 DEF GiveUp, At, Broken
<1>8. ASSUME NEW t \in Turns, StartRun(t) PROVE DownIsEmpty'
  BY <1>8 DEF StartRun, At, ConditionFree
<1>9. ASSUME NEW t \in Turns, EndRun(t) PROVE DownIsEmpty'
  BY <1>9 DEF EndRun, ConditionFree
<1>10. ASSUME NEW t \in Turns, Finalize(t) PROVE DownIsEmpty'
  BY <1>10 DEF Finalize, ConditionFree, LastUse, GiveBack
<1>11. ASSUME NEW j \in Jobs, up, Yield(j) PROVE DownIsEmpty'
  BY <1>11 DEF Yield, ConditionFree, Job
<1>12. ASSUME NEW j \in Jobs, up, Yielded(j) PROVE DownIsEmpty'
  BY <1>12 DEF Yielded, ConditionFree, Job, ClosedIdle, GiveBack, Broken
<1>13. ASSUME NEW j \in Jobs, up, Launch(j) PROVE DownIsEmpty'
  BY <1>13 DEF Launch, Job
<1>14. ASSUME NEW j \in Jobs, up, JobEnds(j) PROVE DownIsEmpty'
  BY <1>14 DEF JobEnds, Job
<1>15. ASSUME NEW j \in Jobs, up, CancelJob(j) PROVE DownIsEmpty'
  BY <1>15 DEF CancelJob, Job, Broken
<1>16. CASE IdleFires
  BY <1>16 DEF IdleFires, ConditionFree
<1>17. CASE IdleCloses
  BY <1>17 DEF IdleCloses, ConditionFree, ClosedIdle, GiveBack, Broken
<1>18. CASE BeginWipe
  BY <1>18 DEF BeginWipe, ConditionFree
<1>19. CASE CloseForWipe
  BY <1>19 DEF CloseForWipe, ConditionFree, ClosedIdle, GiveBack, Broken
<1>20. CASE Crash
  BY <1>20 DEF Crash, Fresh
<1>21. ASSUME NEW t \in Turns, Call(t) \/ Enter(t) \/ EndTurn(t)
      PROVE  DownIsEmpty'
  BY <1>21 DEF Call, At, Enter, ConditionFree, EndTurn
<1>22. ASSUME NEW j \in Jobs, StartJob(j) \/ GiveUpWaiting(j) \/ RecordUnsafe(j) \/ Confirm(j) \/ CancelFailing(j) \/ Stopped(j)
      PROVE  DownIsEmpty'
  BY <1>22
     DEF StartJob, Job, GiveUpWaiting, RecordUnsafe, Confirm, CancelFailing, Stopped,
         Active
<1>23. CASE SweepBegins \/ SweepEnds \/ AskWipe \/ Remove \/ StrayEnds \/ StartUp
  BY <1>23
     DEF SweepBegins, ConditionFree, SweepEnds, AskWipe, Remove, StrayEnds, StartUp, Active
<1>24. CASE UNCHANGED vars
  BY <1>24 DEF vars
<1>25. ASSUME NEW t \in Turns, Ensure(t) PROVE DownIsEmpty'
  BY <1>25 DEF Ensure, ConditionFree
<1>26. ASSUME NEW t \in Turns, Started(t) PROVE DownIsEmpty'
  BY <1>26 DEF Started, ConditionFree
<1>27. ASSUME NEW t \in Turns, StartFails(t) PROVE DownIsEmpty'
  BY <1>27 DEF StartFails, ConditionFree
<1>28. ASSUME NEW t \in Turns, Discard(t) PROVE DownIsEmpty'
  BY <1>28 DEF Discard, ConditionFree
<1>. QED
  BY <1>1, <1>2, <1>3, <1>4, <1>5, <1>6, <1>7, <1>8, <1>9, <1>10, <1>11, <1>12, <1>13,
     <1>14, <1>15, <1>16, <1>17, <1>18, <1>19, <1>20, <1>21, <1>22, <1>23, <1>24, <1>25,
     <1>26, <1>27, <1>28
  DEF Next, TurnStep, JobStep, BrowserStep, WipeStep, StartJob, CancelJob, CancelFailing

LEMMA UnitsAreHeldStep ==
    ASSUME IInv, [Next]_vars
    PROVE  UnitsAreHeld'
<1>. TypeOK /\ TypeOK' /\ UnitsAreHeld /\ LeaseIsLent
  BY TypeStep DEF IInv
<1>. USE NoneAssumption, OwnerAssumption DEF TypeOK, Browsers, UnitsAreHeld, Known, LeaseIsLent
<1>1. ASSUME NEW t \in Turns, Take(t) PROVE UnitsAreHeld'
  BY <1>1, TakeEffect DEF Joined, Moved
<1>2. ASSUME NEW t \in Turns, LeaseArrives(t) PROVE UnitsAreHeld'
  BY <1>2, LeaseArrivesEffect DEF Moved
<1>3. ASSUME NEW t \in Turns, Granted(t) PROVE UnitsAreHeld'
  BY <1>3 DEF Granted, At
<1>4. ASSUME NEW t \in Turns, Switched(t) PROVE UnitsAreHeld'
  BY <1>4 DEF Switched, At, ConditionFree
<1>5. ASSUME NEW t \in Turns, SwitchFails(t) PROVE UnitsAreHeld'
  BY <1>5 DEF SwitchFails, At, ConditionFree, Broken
<1>6. ASSUME NEW t \in Turns, Root(t) PROVE UnitsAreHeld'
  BY <1>6, RootEffect DEF Left, Moved
<1>7. ASSUME NEW t \in Turns, GiveUp(t) PROVE UnitsAreHeld'
  BY <1>7, GiveUpEffect DEF Moved
<1>8. ASSUME NEW t \in Turns, StartRun(t) PROVE UnitsAreHeld'
  BY <1>8, StartRunEffect DEF Moved
<1>9. ASSUME NEW t \in Turns, EndRun(t) PROVE UnitsAreHeld'
  BY <1>9, EndRunEffect DEF Moved, CallEnded, Left
<1>10. ASSUME NEW t \in Turns, Finalize(t) PROVE UnitsAreHeld'
  BY <1>10, FinalizeEffect DEF Left
<1>11. ASSUME NEW j \in Jobs, up, Yield(j) PROVE UnitsAreHeld'
  BY <1>11 DEF Yield, ConditionFree, Job
<1>12. ASSUME NEW j \in Jobs, up, Yielded(j) PROVE UnitsAreHeld'
  <2>1. /\ job[j] = "yielding" /\ leasing = None /\ job'[j] = "waiting"
        /\ \A i \in Jobs \ {j} : job'[i] = job[i]
        /\ UNCHANGED <<up, leasing, turn, unit, wipe>>
        /\ Closed \/ (Failed /\ ~br'.switching /\ br'.idle = br.idle)
    BY <1>12, YieldedEffect
  <2>. QED
    BY <1>12, <2>1 DEF Closed, Failed
<1>13. ASSUME NEW j \in Jobs, up, Launch(j) PROVE UnitsAreHeld'
  BY <1>13 DEF Launch, Job
<1>14. ASSUME NEW j \in Jobs, up, JobEnds(j) PROVE UnitsAreHeld'
  BY <1>14 DEF JobEnds, Job
<1>15. ASSUME NEW j \in Jobs, up, CancelJob(j) PROVE UnitsAreHeld'
  BY <1>15 DEF CancelJob, Job, Broken
<1>16. CASE IdleFires
  BY <1>16, IdleFiresEffect
<1>17. CASE IdleCloses
  BY <1>17, IdleClosesEffect DEF Closed, Failed
<1>18. CASE BeginWipe
  BY <1>18, BeginWipeEffect
<1>19. CASE CloseForWipe
  BY <1>19, CloseForWipeEffect DEF Closed, Failed
<1>20. CASE Crash
  BY <1>20 DEF Crash, Fresh
<1>21. ASSUME NEW t \in Turns, Call(t) \/ Enter(t) \/ EndTurn(t)
      PROVE  UnitsAreHeld'
  BY <1>21 DEF Call, At, Enter, ConditionFree, EndTurn
<1>22. ASSUME NEW j \in Jobs, StartJob(j) \/ GiveUpWaiting(j) \/ RecordUnsafe(j) \/ Confirm(j) \/ CancelFailing(j) \/ Stopped(j)
      PROVE  UnitsAreHeld'
  BY <1>22
     DEF StartJob, Job, GiveUpWaiting, RecordUnsafe, Confirm, CancelFailing, Stopped,
         Active
<1>23. CASE SweepBegins \/ SweepEnds \/ AskWipe \/ Remove \/ StrayEnds \/ StartUp
  BY <1>23
     DEF SweepBegins, ConditionFree, SweepEnds, AskWipe, Remove, StrayEnds, StartUp, Active
<1>24. CASE UNCHANGED vars
  BY <1>24 DEF vars
<1>25. ASSUME NEW t \in Turns, Ensure(t) PROVE UnitsAreHeld'
  BY <1>25, EnsureEffect DEF Moved, MovedOn, SameButWorker
<1>26. ASSUME NEW t \in Turns, Started(t) PROVE UnitsAreHeld'
  BY <1>26, StartedEffect DEF MovedOn, SameButWorker
<1>27. ASSUME NEW t \in Turns, StartFails(t) PROVE UnitsAreHeld'
  BY <1>27, StartFailsEffect DEF Moved, CallEnded, Left
<1>28. ASSUME NEW t \in Turns, Discard(t) PROVE UnitsAreHeld'
  BY <1>28, DiscardEffect DEF MovedOn, CallEnded, Left
<1>. QED
  BY <1>1, <1>2, <1>3, <1>4, <1>5, <1>6, <1>7, <1>8, <1>9, <1>10, <1>11, <1>12, <1>13,
     <1>14, <1>15, <1>16, <1>17, <1>18, <1>19, <1>20, <1>21, <1>22, <1>23, <1>24, <1>25,
     <1>26, <1>27, <1>28
  DEF Next, TurnStep, JobStep, BrowserStep, WipeStep, StartJob, CancelJob, CancelFailing

LEMMA UsesAreOwnersStep ==
    ASSUME IInv, [Next]_vars
    PROVE  UsesAreOwners'
<1>. TypeOK /\ TypeOK' /\ UsesAreOwners /\ PlacesAgree /\ OwnerHasLease /\ ClosersAlone
  BY TypeStep DEF IInv
<1>. USE NoneAssumption, OwnerAssumption DEF TypeOK, Browsers, UsesAreOwners, WorkerIsOwners, Busy, Closing, YieldingJobs, SwitchingTurns, PlacesAgree, OwnerHasLease, ClosersAlone, Calling
<1>1. ASSUME NEW t \in Turns, Call(t) PROVE UsesAreOwners'
  BY <1>1 DEF Call, At
<1>2. ASSUME NEW t \in Turns, Enter(t) PROVE UsesAreOwners'
  BY <1>2 DEF Enter, At, ConditionFree
<1>3. ASSUME NEW t \in Turns, Take(t) PROVE UsesAreOwners'
  BY <1>3, TakeEffect DEF Joined, Moved
<1>4. ASSUME NEW t \in Turns, LeaseArrives(t) PROVE UsesAreOwners'
  BY <1>4, LeaseArrivesEffect DEF Moved
<1>5. ASSUME NEW t \in Turns, Granted(t) PROVE UsesAreOwners'
  BY <1>5 DEF Granted, At
<1>6. ASSUME NEW t \in Turns, Switched(t) PROVE UsesAreOwners'
  BY <1>6 DEF Switched, At, ConditionFree
<1>7. ASSUME NEW t \in Turns, SwitchFails(t) PROVE UsesAreOwners'
  BY <1>7 DEF SwitchFails, At, ConditionFree, Broken
<1>8. ASSUME NEW t \in Turns, Root(t) PROVE UsesAreOwners'
  BY <1>8, RootEffect, SMTT(30) DEF Left, Moved
<1>9. ASSUME NEW t \in Turns, GiveUp(t) PROVE UsesAreOwners'
  BY <1>9, GiveUpEffect DEF Moved
<1>10. ASSUME NEW t \in Turns, StartRun(t) PROVE UsesAreOwners'
  BY <1>10, StartRunEffect DEF Moved
<1>11. ASSUME NEW t \in Turns, EndRun(t) PROVE UsesAreOwners'
  BY <1>11, EndRunEffect DEF Moved, CallEnded, Left
<1>12. ASSUME NEW t \in Turns, EndTurn(t) PROVE UsesAreOwners'
  BY <1>12 DEF EndTurn
<1>13. ASSUME NEW t \in Turns, Finalize(t) PROVE UsesAreOwners'
  BY <1>13, FinalizeEffect DEF Left
<1>14. ASSUME NEW j \in Jobs, up, Yield(j) PROVE UsesAreOwners'
  BY <1>14 DEF Yield, ConditionFree, Job
<1>15. ASSUME NEW j \in Jobs, up, Yielded(j) PROVE UsesAreOwners'
  <2>1. /\ job[j] = "yielding" /\ leasing = None /\ job'[j] = "waiting"
        /\ \A i \in Jobs \ {j} : job'[i] = job[i]
        /\ UNCHANGED <<up, leasing, turn, unit, wipe>>
        /\ Closed \/ (Failed /\ ~br'.switching /\ br'.idle = br.idle)
    BY <1>15, YieldedEffect
  <2>. QED
    BY <1>15, <2>1 DEF Closed, Failed
<1>16. ASSUME NEW j \in Jobs, up, Launch(j) PROVE UsesAreOwners'
  BY <1>16 DEF Launch, Job
<1>17. ASSUME NEW j \in Jobs, up, JobEnds(j) PROVE UsesAreOwners'
  BY <1>17 DEF JobEnds, Job
<1>18. ASSUME NEW j \in Jobs, up, CancelJob(j) PROVE UsesAreOwners'
  BY <1>18 DEF CancelJob, Job, Broken
<1>19. CASE IdleFires
  BY <1>19, IdleFiresEffect
<1>20. CASE IdleCloses
  BY <1>20, IdleClosesEffect DEF Closed, Failed
<1>21. CASE BeginWipe
  BY <1>21, BeginWipeEffect
<1>22. CASE CloseForWipe
  BY <1>22, CloseForWipeEffect DEF Closed, Failed
<1>23. CASE Crash
  BY <1>23 DEF Crash, Fresh
<1>24. ASSUME NEW j \in Jobs, StartJob(j) \/ GiveUpWaiting(j) \/ RecordUnsafe(j) \/ Confirm(j) \/ CancelFailing(j) \/ Stopped(j)
      PROVE  UsesAreOwners'
  BY <1>24
     DEF StartJob, Job, GiveUpWaiting, RecordUnsafe, Confirm, CancelFailing, Stopped,
         Active
<1>25. CASE SweepBegins \/ SweepEnds \/ AskWipe \/ Remove \/ StrayEnds \/ StartUp
  BY <1>25
     DEF SweepBegins, ConditionFree, SweepEnds, AskWipe, Remove, StrayEnds, StartUp, Active
<1>26. CASE UNCHANGED vars
  BY <1>26 DEF vars
<1>27. ASSUME NEW t \in Turns, Ensure(t) PROVE UsesAreOwners'
  <2>1. turn[t].at = "ensuring" /\ TurnUser[t] = br.owner /\ SameButWorker
    BY <1>27, EnsureEffect
  <2>2. CASE br.worker # None /\ Moved(t, "running") /\ br'.worker = br.worker
    BY <2>1, <2>2 DEF Moved, SameButWorker
  <2>3. CASE Moved(t, "starting") /\ br'.worker = br.worker
    BY <2>1, <2>3 DEF Moved, SameButWorker
  <2>4. CASE MovedOn(t, "starting") /\ br'.worker = None
    BY <2>1, <2>4 DEF MovedOn, SameButWorker
  <2>. QED
    BY <1>27, <2>2, <2>3, <2>4, EnsureEffect
<1>28. ASSUME NEW t \in Turns, Started(t) PROVE UsesAreOwners'
  BY <1>28, StartedEffect DEF MovedOn, SameButWorker
<1>29. ASSUME NEW t \in Turns, StartFails(t) PROVE UsesAreOwners'
  BY <1>29, StartFailsEffect DEF Moved, CallEnded, Left
<1>30. ASSUME NEW t \in Turns, Discard(t) PROVE UsesAreOwners'
  <2>1. CallEnded(t) /\ br'.worker = None /\ (MovedOn(t, "back") \/ MovedOn(t, "rooted"))
    BY <1>30, DiscardEffect
  <2>2. \A s \in Turns : turn'[s].at # "running"
    BY <2>1 DEF MovedOn
  <2>3. \A s \in br'.active \cup br'.inflight : TurnUser[s] = br'.owner
    BY <2>1 DEF CallEnded, Left
  <2>. QED
    BY <2>1, <2>2, <2>3
<1>. QED
  BY <1>1, <1>2, <1>3, <1>4, <1>5, <1>6, <1>7, <1>8, <1>9, <1>10, <1>11, <1>12, <1>13,
     <1>14, <1>15, <1>16, <1>17, <1>18, <1>19, <1>20, <1>21, <1>22, <1>23, <1>24, <1>25,
     <1>26, <1>27, <1>28, <1>29, <1>30
  DEF Next, TurnStep, JobStep, BrowserStep, WipeStep, StartJob, CancelJob, CancelFailing

-----------------------------------------------------------------------------
LEMMA InitStep == Init => IInv
<1>. SUFFICES ASSUME Init PROVE IInv
  OBVIOUS
<1>. USE NoneAssumption DEF Init, Fresh
<1>1. TypeOK
  BY DEF TypeOK, Browsers, Places, JobStates
<1>2. LeaseIsLent /\ OwnerHasLease /\ UnitsAreHeld /\ DownIsEmpty
  BY DEF LeaseIsLent, OwnerHasLease, Busy, UnitsAreHeld, Known, DownIsEmpty
<1>3. PlacesAgree /\ UsesAreOwners
  BY DEF PlacesAgree, Calling, UsesAreOwners, WorkerIsOwners
<1>4. ClosersAlone
  BY DEF ClosersAlone, Closing, SwitchingTurns, YieldingJobs, Busy
<1>. QED
  BY <1>1, <1>2, <1>3, <1>4 DEF IInv

LEMMA InvariantStep == IInv /\ [Next]_vars => IInv'
  BY TypeStep, LeaseIsLentStep, OwnerHasLeaseStep, PlacesAgreeStep, ClosersAloneStep,
     DownIsEmptyStep, UnitsAreHeldStep, UsesAreOwnersStep
     DEF IInv

\* The inductive invariant holds of every behaviour.
THEOREM Invariance == Spec => []IInv
  BY InitStep, InvariantStep, PTL DEF Spec

\* Every variable of the service, the lease and the jobs keeps its type.
THEOREM TypeCorrect == Spec => []TypeOK
<1>1. IInv => TypeOK
  BY DEF IInv
<1>. QED
  BY <1>1, Invariance, PTL

\* Whoever is cancelled, fails or dies, and whatever a dead process left behind, two
\* process surfaces that somebody answers for never share the namespace: neither two
\* units nor a unit and a browser worker, from its launch until it is confirmed gone.
\* The one way out is a worker whose failed start is not confirmed or that is replaced
\* unseen (stray): nobody answers for it, as for the unit of a row that was cancelled
\* first (lost).
THEOREM NamespaceExclusive == Spec => []NamespaceIsExclusive
<1>1. IInv => NamespaceIsExclusive
  <2>. SUFFICES ASSUME IInv PROVE NamespaceIsExclusive
    OBVIOUS
  <2>1. BrowserUnit => br.lent
    <3>1. ASSUME NEW t \in Starting PROVE br.lent
      <4>1. t \in br.inflight
        BY <3>1 DEF Starting, IInv, PlacesAgree, Calling
      <4>. QED
        BY <4>1 DEF IInv, OwnerHasLease, Busy
    <3>. QED
      BY <3>1 DEF BrowserUnit, IInv, OwnerHasLease
  <2>2. ASSUME NEW j \in Known PROVE ~BrowserUnit
    <3>1. CASE up
      <4>1. lease = j \/ lease = None
        BY <2>2, <3>1 DEF IInv, UnitsAreHeld, Known, TypeOK
      <4>2. lease # "browser"
        BY <2>2, <4>1, NoneAssumption DEF IInv, TypeOK, Known
      <4>. QED
        BY <2>1, <4>2 DEF IInv, LeaseIsLent
    <3>2. CASE ~up
      BY <2>1, <3>2 DEF IInv, DownIsEmpty, Fresh
    <3>. QED
      BY <3>1, <3>2
  <2>. QED
    BY <2>2 DEF NamespaceIsExclusive, Surfaces, IInv, UnitsAreHeld
<1>. QED
  BY <1>1, Invariance, PTL

\* No unit of an earlier process is alive when the service is up again, as far as
\* its row was not made cancelled before the unit's end was known.
THEOREM NoUnitOfThePast == Spec => []NoOrphanUnit
<1>1. IInv => NoOrphanUnit
  BY DEF IInv, UnitsAreHeld, NoOrphanUnit, Known
<1>. QED
  BY <1>1, Invariance, PTL

\* A turn that is over, its finalizer run and its tool back, holds no place.
THEOREM TurnsLeaveTheBrowser == Spec => []NoTurnOutlivesItsRun
<1>1. IInv => NoTurnOutlivesItsRun
  BY DEF IInv, PlacesAgree, Calling, NoTurnOutlivesItsRun
<1>. QED
  BY <1>1, Invariance, PTL

\* No user's call is answered from the profile of another.
THEOREM WorkersAreTheirOwners == Spec => []WorkerIsOwners
<1>1. IInv => WorkerIsOwners
  BY DEF IInv, UsesAreOwners
<1>. QED
  BY <1>1, Invariance, PTL

=============================================================================
