--------------------------- MODULE SharedNamespace ---------------------------
(***************************************************************************)
(* The VPN network namespace and the two who take turns in it: the browser *)
(* service (bot/web_browser/service.py, bot/tools/browser.py) with its one *)
(* worker, and the coding agent's command jobs (bot/app/coding_jobs.py),   *)
(* over the fail-closed lease of bot/sandbox/netns_lease.py.               *)
(*                                                                         *)
(* The browser's condition is held across one await only: acquire_turn     *)
(* waits in it for the lease (leasing names that turn), and everybody else *)
(* who needs the condition waits with it.  A user's turn ends by its       *)
(* deadline, a stop or an answer; its last browser tool may return later.  *)
(***************************************************************************)
EXTENDS Naturals, FiniteSets

CONSTANTS
    Users, None,
    Turns, TurnUser,     \* agent turns that use the browser
    Jobs, JobUser,       \* command jobs of coding tasks
    Wiped                \* the user whose data is deleted

ASSUME NoneAssumption ==
    None \notin Users \cup Turns \cup Jobs \cup {"browser"} /\ "browser" \notin Jobs
ASSUME OwnerAssumption ==
    TurnUser \in [Turns -> Users] /\ JobUser \in [Jobs -> Users] /\ Wiped \in Users

VARIABLES
    up,          \* the process runs
    lease,       \* who holds the namespace: None, "browser" or a job
    poisoned,
    br,          \* the browser service
    leasing,     \* the turn that waits for the lease inside the condition
    turn,        \* each turn's browser tool, and whether the turn is over
    job,
    unit,        \* jobs whose systemd unit is alive
    stray,       \* a browser unit to which no process has a reference may be alive
    wipe         \* delete_user_data of the wiped user

vars == <<up, lease, poisoned, br, leasing, turn, job, unit, stray, wipe>>

Fresh == [owner |-> None, active |-> {}, inflight |-> {}, worker |-> None,
          switching |-> FALSE, sweeping |-> FALSE, fatal |-> FALSE, lent |-> FALSE,
          idle |-> "none"]

Init ==
    /\ up = TRUE /\ lease = None /\ poisoned = FALSE /\ br = Fresh /\ leasing = None
    /\ turn = [t \in Turns |-> [at |-> "idle", over |-> FALSE, finalizer |-> FALSE]]
    /\ job = [j \in Jobs |-> "new"] /\ unit = {} /\ stray = FALSE /\ wipe = "none"

ConditionFree == leasing = None

\* Seeded fault: a call under way does not keep the lease for its turn.
Busy_TurnsOnly(b) == b.active # {}

Busy(b) == b.active \cup b.inflight # {}
At(t, place) == turn' = [turn EXCEPT ![t].at = place]

\* The browser gives the lease back with the state b, if it has it.
GiveBack(b) ==
    /\ br' = [b EXCEPT !.lent = FALSE]
    /\ lease' = IF b.lent THEN None ELSE lease

\* What release_turn and run's finally clause do when the last use is over: a
\* warm worker keeps the lease until its idle time has passed.
LastUse(b) ==
    IF Busy(b)
    THEN br' = b /\ UNCHANGED lease
    ELSE IF b.worker = None
         THEN GiveBack([b EXCEPT !.owner = None])
         ELSE br' = [b EXCEPT !.idle = "timer"] /\ UNCHANGED lease

\* _close_worker that fails or is interrupted: everything fails closed.
Broken(b) == br' = [b EXCEPT !.fatal = TRUE] /\ poisoned' = TRUE

-----------------------------------------------------------------------------
\* The privacy barrier keeps the user's own work out while it is deleted.
Barred(u) == u = Wiped /\ wipe # "none"

\* browser: the tool acquires its turn's place, unless the turn has ended.
Call(t) ==
    /\ up /\ turn[t].at = "idle" /\ ~turn[t].over /\ ~Barred(TurnUser[t])
    /\ At(t, "entering")
    /\ UNCHANGED <<up, lease, poisoned, br, leasing, job, unit, stray, wipe>>

\* acquire_turn: refused for good after a failed teardown.
Enter(t) ==
    /\ turn[t].at = "entering" /\ ConditionFree
    /\ At(t, IF br.fatal THEN "back" ELSE "waiting")
    /\ UNCHANGED <<up, lease, poisoned, br, leasing, job, unit, stray, wipe>>

Blocked(u) == br.switching \/ br.sweeping \/ (br.owner \notin {None, u} /\ Busy(br))

\* The place is taken: by the owner of the worker, with the lease at hand, or
\* after the lease, or after the worker of another owner is closed.
Take(t) ==
    LET u == TurnUser[t] IN
    /\ turn[t].at = "waiting" /\ ConditionFree /\ ~Blocked(u)
    /\ \/ /\ br.owner = u \/ (br.owner = None /\ br.lent)
          /\ br' = [br EXCEPT !.owner = u, !.active = @ \cup {t}, !.idle = "none"]
          /\ At(t, "acquired") /\ UNCHANGED leasing
       \/ /\ br.owner = None /\ ~br.lent
          /\ leasing' = t /\ At(t, "leasing") /\ UNCHANGED br
       \/ /\ br.owner \notin {None, u}
          /\ br' = [br EXCEPT !.switching = TRUE, !.idle = "none"]
          /\ At(t, "switching") /\ UNCHANGED leasing
    /\ UNCHANGED <<up, lease, poisoned, job, unit, stray, wipe>>

\* The acquisition task gets the lease, or finds it poisoned.
LeaseArrives(t) ==
    /\ turn[t].at = "leasing"
    /\ \/ /\ lease = None /\ ~poisoned
          /\ lease' = "browser" /\ br' = [br EXCEPT !.lent = TRUE]
          /\ At(t, "granted") /\ UNCHANGED leasing
       \/ /\ poisoned /\ leasing' = None
          /\ At(t, "back") /\ UNCHANGED <<lease, br>>
    /\ UNCHANGED <<up, poisoned, job, unit, stray, wipe>>

\* acquire_turn resumes with the lease.
Granted(t) ==
    /\ turn[t].at = "granted" /\ leasing' = None
    /\ br' = [br EXCEPT !.owner = TurnUser[t], !.active = @ \cup {t}, !.idle = "none"]
    /\ At(t, "acquired")
    /\ UNCHANGED <<up, lease, poisoned, job, unit, stray, wipe>>

\* The other owner's worker is closed, and the worker's lease changes hands.
Switched(t) ==
    /\ turn[t].at = "switching" /\ ConditionFree
    /\ br' = [br EXCEPT !.worker = None, !.owner = TurnUser[t],
                        !.active = @ \cup {t}, !.switching = FALSE]
    /\ At(t, "acquired")
    /\ UNCHANGED <<up, lease, poisoned, leasing, job, unit, stray, wipe>>

SwitchFails(t) ==
    /\ turn[t].at = "switching" /\ br.worker # None /\ ConditionFree
    /\ Broken([br EXCEPT !.switching = FALSE]) /\ At(t, "back")
    /\ UNCHANGED <<up, lease, leasing, job, unit, stray, wipe>>

\* The tool goes on with the acquisition's result: it registers the finalizer,
\* or gives the place back when the turn has ended meanwhile.
Root(t) ==
    /\ turn[t].at = "acquired"
    /\ IF turn[t].over
       THEN /\ ConditionFree
            /\ LastUse([br EXCEPT !.active = @ \ {t}]) /\ At(t, "back")
       ELSE /\ turn' = [turn EXCEPT ![t].at = "rooted", ![t].finalizer = TRUE]
            /\ UNCHANGED <<br, lease>>
    /\ UNCHANGED <<up, poisoned, leasing, job, unit, stray, wipe>>

\* The turn ends while the acquisition is under way, which is cancelled: a
\* lease already granted stays lent, an interrupted switch fails closed.
GiveUp(t) ==
    /\ turn[t].over
    /\ turn[t].at \in {"entering", "waiting", "leasing", "granted", "switching"}
    /\ At(t, "back")
    /\ leasing' = IF leasing = t THEN None ELSE leasing
    /\ IF turn[t].at = "switching"
       THEN IF br.worker = None
            THEN br' = [br EXCEPT !.switching = FALSE] /\ UNCHANGED poisoned
            ELSE Broken([br EXCEPT !.switching = FALSE])
       ELSE UNCHANGED <<br, poisoned>>
    /\ UNCHANGED <<up, lease, job, unit, stray, wipe>>

\* run: the call is counted before it asks for the worker.
StartRun(t) ==
    /\ turn[t].at = "rooted" /\ ConditionFree
    /\ IF br.fatal \/ t \notin br.active
       THEN At(t, "back") /\ UNCHANGED br
       ELSE br' = [br EXCEPT !.inflight = @ \cup {t}] /\ At(t, "ensuring")
    /\ UNCHANGED <<up, lease, poisoned, leasing, job, unit, stray, wipe>>

\* Whoever starts a worker holds the worker lock until it is ready.
Starting == {t \in Turns : turn[t].at = "starting"}

\* The turn moves; the other calls of a worker that goes keep their reference to it.
MoveOn(t, place) ==
    turn' = [s \in Turns |->
        IF s = t THEN [turn[t] EXCEPT !.at = place]
        ELSE IF turn[s].at = "running" THEN [turn[s] EXCEPT !.at = "stale"] ELSE turn[s]]

\* _ensure_worker: the worker is there, or another is launched: there is none, its
\* process has exited, or it was too old and closed.
Ensure(t) ==
    /\ turn[t].at = "ensuring" /\ Starting = {}
    /\ \/ br.worker # None /\ At(t, "running") /\ UNCHANGED br
       \/ At(t, "starting") /\ UNCHANGED br
       \/ br.worker # None /\ MoveOn(t, "starting") /\ br' = [br EXCEPT !.worker = None]
    /\ UNCHANGED <<up, lease, poisoned, leasing, job, unit, stray, wipe>>

\* The worker is ready.  It replaces one whose process has exited, at whose unit
\* nobody has looked.
Started(t) ==
    /\ turn[t].at = "starting"
    /\ br' = [br EXCEPT !.worker = TurnUser[t]] /\ MoveOn(t, "running")
    /\ stray' \in {stray, stray \/ br.worker # None}
    /\ UNCHANGED <<up, lease, poisoned, leasing, job, unit, wipe>>

CallEnds(t) == At(t, IF turn[t].over THEN "back" ELSE "rooted")
Uncounted(t) == [br EXCEPT !.inflight = @ \ {t}]

\* There is no worker for the call: none was launched, or the launched one is gone,
\* or create could not confirm that, and then nobody keeps a reference to it and
\* nothing fails closed; or the old worker was too old and could not be closed.
StartFails(t) ==
    /\ turn[t].at \in {"ensuring", "starting"} /\ ConditionFree /\ CallEnds(t)
    /\ \/ LastUse(Uncounted(t)) /\ UNCHANGED <<poisoned, stray>>
       \/ turn[t].at = "starting" /\ LastUse(Uncounted(t)) /\ stray' = TRUE /\ UNCHANGED poisoned
       \/ /\ turn[t].at = "ensuring" /\ br.worker # None /\ Starting = {}
          /\ LastUse([Uncounted(t) EXCEPT !.fatal = TRUE]) /\ poisoned' = TRUE /\ UNCHANGED stray
    /\ UNCHANGED <<up, leasing, job, unit, wipe>>

\* The call ends with its worker kept, or not known to be dead.
EndRun(t) ==
    /\ turn[t].at \in {"running", "stale"} /\ ConditionFree /\ CallEnds(t)
    /\ \/ LastUse(Uncounted(t)) /\ UNCHANGED poisoned
       \/ Starting = {} /\ LastUse([Uncounted(t) EXCEPT !.fatal = TRUE]) /\ poisoned' = TRUE
    /\ UNCHANGED <<up, leasing, job, unit, stray, wipe>>

\* The call ends and its worker is discarded, for the other calls too.
Discard(t) ==
    /\ turn[t].at = "running" /\ ConditionFree /\ Starting = {}
    /\ MoveOn(t, IF turn[t].over THEN "back" ELSE "rooted")
    /\ LastUse([Uncounted(t) EXCEPT !.worker = None])
    /\ UNCHANGED <<up, poisoned, leasing, job, unit, stray, wipe>>

\* A unit that nobody looks after has read the end of its input and ends.
StrayEnds ==
    /\ stray /\ stray' = FALSE
    /\ UNCHANGED <<up, lease, poisoned, br, leasing, turn, job, unit, wipe>>

\* The turn is over: no finalizer is registered any more.
EndTurn(t) ==
    /\ up /\ ~turn[t].over
    /\ turn' = [turn EXCEPT ![t].over = TRUE]
    /\ UNCHANGED <<up, lease, poisoned, br, leasing, job, unit, stray, wipe>>

\* Its finalizer, release_turn; the tool may still be at work.
Finalize(t) ==
    /\ turn[t].over /\ turn[t].finalizer /\ ConditionFree
    /\ turn' = [turn EXCEPT ![t].finalizer = FALSE]
    /\ LastUse([br EXCEPT !.active = @ \ {t}])
    /\ UNCHANGED <<up, poisoned, leasing, job, unit, stray, wipe>>

-----------------------------------------------------------------------------
\* _close_idle_worker is through: the namespace is free.
ClosedIdle == GiveBack([br EXCEPT !.worker = None, !.owner = None,
                                  !.switching = FALSE, !.idle = "none"])

\* The timer fires once: in vain while another closes the worker.
IdleFires ==
    /\ br.idle = "timer" /\ ConditionFree
    /\ IF br.switching \/ Busy(br) THEN br' = [br EXCEPT !.idle = "none"]
       ELSE ~br.sweeping /\ br' = [br EXCEPT !.switching = TRUE, !.idle = "closing"]
    /\ UNCHANGED <<up, lease, poisoned, leasing, turn, job, unit, stray, wipe>>

IdleCloses ==
    /\ br.idle = "closing" /\ ConditionFree
    /\ \/ ClosedIdle /\ UNCHANGED poisoned
       \/ Broken([br EXCEPT !.switching = FALSE, !.idle = "none"]) /\ UNCHANGED lease
    /\ UNCHANGED <<up, leasing, turn, job, unit, stray, wipe>>

\* sweep_expired: it waits out a switch, and switches wait for it.
SweepBegins ==
    /\ up /\ ConditionFree /\ ~br.switching /\ ~br.sweeping
    /\ br' = [br EXCEPT !.sweeping = TRUE]
    /\ UNCHANGED <<up, lease, poisoned, leasing, turn, job, unit, stray, wipe>>

SweepEnds ==
    /\ br.sweeping /\ ConditionFree
    /\ br' = [br EXCEPT !.sweeping = FALSE]
    /\ UNCHANGED <<up, lease, poisoned, leasing, turn, job, unit, stray, wipe>>

-----------------------------------------------------------------------------
Job(j, to) == job' = [job EXCEPT ![j] = to]

\* start: the row and the unit's name are stored before the job's task runs.
StartJob(j) ==
    /\ up /\ job[j] = "new" /\ ~Barred(JobUser[j])
    /\ Job(j, "queued")
    /\ UNCHANGED <<up, lease, poisoned, br, leasing, turn, unit, stray, wipe>>

\* _network_lease asks the browser to yield the user's idle worker first.
Yield(j) ==
    /\ job[j] = "queued" /\ ConditionFree
    /\ IF ~br.switching /\ br.owner = JobUser[j]
       THEN /\ ~br.sweeping
            /\ IF Busy(br) THEN Job(j, "waiting") /\ UNCHANGED br
               ELSE Job(j, "yielding") /\ br' = [br EXCEPT !.switching = TRUE]
       ELSE Job(j, "waiting") /\ UNCHANGED br
    /\ UNCHANGED <<up, lease, poisoned, leasing, turn, unit, stray, wipe>>

\* Seeded fault: the switch is not ended after the yield.
Yielded_StillSwitching(j) ==
    /\ job[j] = "yielding" /\ ConditionFree /\ Job(j, "waiting")
    /\ \/ GiveBack([br EXCEPT !.worker = None, !.owner = None, !.idle = "none"]) /\ UNCHANGED poisoned
       \/ Broken([br EXCEPT !.switching = FALSE]) /\ UNCHANGED lease
    /\ UNCHANGED <<up, leasing, turn, unit, stray, wipe>>

Yielded(j) ==
    /\ job[j] = "yielding" /\ ConditionFree /\ Job(j, "waiting")
    /\ \/ ClosedIdle /\ UNCHANGED poisoned
       \/ Broken([br EXCEPT !.switching = FALSE]) /\ UNCHANGED lease
    /\ UNCHANGED <<up, leasing, turn, unit, stray, wipe>>

\* Seeded fault: poisoning only wakes the waiters.
Launch_Poisoned(j) ==
    /\ job[j] = "waiting" /\ lease = None
    /\ lease' = j /\ unit' = unit \cup {j} /\ Job(j, "running")
    /\ UNCHANGED <<up, poisoned, br, leasing, turn, stray, wipe>>

\* The lease is taken and the unit launched, or the wait ends in an error.
Launch(j) ==
    /\ job[j] = "waiting" /\ lease = None /\ ~poisoned
    /\ lease' = j /\ unit' = unit \cup {j} /\ Job(j, "running")
    /\ UNCHANGED <<up, poisoned, br, leasing, turn, stray, wipe>>

GiveUpWaiting(j) ==
    /\ job[j] = "waiting" /\ Job(j, "ended")
    /\ UNCHANGED <<up, lease, poisoned, br, leasing, turn, unit, stray, wipe>>

\* The run is over, by itself or cancelled, and its unit confirmed inactive; or
\* it is not, and the lease is poisoned in the step that gives it back.
JobEnds(j) ==
    /\ job[j] = "running" /\ lease' = None
    /\ \/ unit' = unit \ {j} /\ Job(j, "ended") /\ UNCHANGED poisoned
       \/ poisoned' = TRUE /\ Job(j, "failing") /\ UNCHANGED unit
    /\ UNCHANGED <<up, br, leasing, turn, stray, wipe>>

\* The row says that the teardown is being confirmed.
RecordUnsafe(j) ==
    /\ job[j] = "failing" /\ Job(j, "unsafe")
    /\ UNCHANGED <<up, lease, poisoned, br, leasing, turn, unit, stray, wipe>>

\* _confirm_unit_inactive retries until it is, whoever cancels.
Confirm(j) ==
    /\ job[j] = "unsafe" /\ unit' = unit \ {j} /\ Job(j, "ended")
    /\ UNCHANGED <<up, lease, poisoned, br, leasing, turn, stray, wipe>>

\* cancel that interrupts the lease's return or the write of the unsafe row: the
\* job's task is over and its row cancelled, with the unit's end unknown.
CancelFailing(j) ==
    /\ up /\ job[j] = "failing" /\ Job(j, "lost")
    /\ UNCHANGED <<up, lease, poisoned, br, leasing, turn, unit, stray, wipe>>

\* cancel of a job that has not launched; one that makes the browser yield
\* interrupts the closing of its worker and leaves switching set.
CancelJob(j) ==
    /\ up /\ job[j] \in {"queued", "waiting", "yielding"} /\ Job(j, "ended")
    /\ IF job[j] = "yielding" /\ br.worker # None
       THEN Broken(br)
       ELSE br' = [br EXCEPT !.switching = @ /\ job[j] # "yielding"] /\ UNCHANGED poisoned
    /\ UNCHANGED <<up, lease, leasing, turn, unit, stray, wipe>>

-----------------------------------------------------------------------------
\* A privacy deletion reaches the browser when the user's work has drained.
Drained(u) ==
    /\ \A t \in Turns : TurnUser[t] = u => turn[t].at \in {"idle", "back"} /\ ~turn[t].finalizer
    /\ \A j \in Jobs : JobUser[j] = u => job[j] \in {"new", "ended", "lost"}

AskWipe ==
    /\ up /\ wipe = "none" /\ Drained(Wiped)
    /\ wipe' = "asked"
    /\ UNCHANGED <<up, lease, poisoned, br, leasing, turn, job, unit, stray>>

\* delete_user_data: a warm worker of the user is closed first.
BeginWipe ==
    /\ wipe = "asked" /\ ConditionFree /\ ~br.switching /\ ~br.sweeping
    /\ ~(br.owner = Wiped /\ Busy(br))
    /\ IF br.owner = Wiped /\ br.worker # None
       THEN wipe' = "closing" /\ br' = [br EXCEPT !.switching = TRUE, !.idle = "none"]
       ELSE wipe' = "removing" /\ UNCHANGED br
    /\ UNCHANGED <<up, lease, poisoned, leasing, turn, job, unit, stray>>

\* A failed close fails the deletion, which its caller reports.
CloseForWipe ==
    /\ wipe = "closing" /\ ConditionFree
    /\ \/ ClosedIdle /\ wipe' = "removing" /\ UNCHANGED poisoned
       \/ Broken(br) /\ wipe' = "failed" /\ UNCHANGED lease
    /\ UNCHANGED <<up, leasing, turn, job, unit, stray>>

Remove ==
    /\ wipe = "removing" /\ wipe' = "done"
    /\ UNCHANGED <<up, lease, poisoned, br, leasing, turn, job, unit, stray>>

\* The process dies; units of jobs live on, and nobody refers to its browser's.
BrowserUnit == br.worker # None \/ Starting # {}

Crash ==
    /\ up /\ up' = FALSE
    /\ lease' = None /\ poisoned' = FALSE /\ br' = Fresh /\ leasing' = None
    /\ turn' = [t \in Turns |-> [at |-> "back", over |-> TRUE, finalizer |-> FALSE]]
    /\ wipe' = IF wipe \in {"none", "done"} THEN wipe ELSE "failed"
    /\ stray' = (stray \/ BrowserUnit)
    /\ UNCHANGED <<job, unit>>

\* stop_recovered_coding_units: startup goes on only when the unit of every job
\* still active in the table is confirmed inactive.
Active(j) == job[j] \notin {"new", "ended", "lost"}

Stopped(j) ==
    /\ ~up /\ Active(j) /\ j \in unit /\ unit' = unit \ {j}
    /\ UNCHANGED <<up, lease, poisoned, br, leasing, turn, job, stray, wipe>>

\* Seeded fault: the units of the last process are left to end by themselves.
StartUp_Unproven ==
    /\ ~up
    /\ up' = TRUE /\ job' = [j \in Jobs |-> IF Active(j) THEN "ended" ELSE job[j]]
    /\ UNCHANGED <<lease, poisoned, br, leasing, turn, unit, stray, wipe>>

StartUp ==
    /\ ~up /\ \A j \in Jobs : Active(j) => j \notin unit
    /\ up' = TRUE /\ job' = [j \in Jobs |-> IF Active(j) THEN "ended" ELSE job[j]]
    /\ UNCHANGED <<lease, poisoned, br, leasing, turn, unit, stray, wipe>>

TurnStep(t) == Enter(t) \/ Take(t) \/ LeaseArrives(t) \/ Granted(t) \/ Switched(t)
               \/ SwitchFails(t) \/ Root(t) \/ GiveUp(t) \/ StartRun(t) \/ Ensure(t)
               \/ Started(t) \/ StartFails(t) \/ EndRun(t) \/ Discard(t) \/ Finalize(t)
JobStep(j) == Yield(j) \/ Yielded(j) \/ Launch(j) \/ GiveUpWaiting(j) \/ JobEnds(j)
              \/ RecordUnsafe(j) \/ Confirm(j)
WipeStep == BeginWipe \/ CloseForWipe \/ Remove
BrowserStep == IdleFires \/ IdleCloses \/ SweepEnds

Next ==
    \/ \E t \in Turns : Call(t) \/ TurnStep(t) \/ EndTurn(t)
    \/ \E j \in Jobs : StartJob(j) \/ (up /\ JobStep(j)) \/ CancelJob(j)
                    \/ CancelFailing(j) \/ Stopped(j)
    \/ BrowserStep \/ SweepBegins \/ AskWipe \/ WipeStep \/ StrayEnds \/ Crash \/ StartUp

\* What a deletion may wait for goes on: a free lease arrives, closes and sweeps end,
\* a command has a time limit.  Nothing is asked of the turns themselves.
Fairness ==
    /\ \A t \in Turns : WF_vars(LeaseArrives(t) \/ Granted(t) \/ Switched(t) \/ SwitchFails(t))
    /\ \A j \in Jobs : WF_vars(up /\ (Yielded(j) \/ JobEnds(j)))
    /\ WF_vars(IdleCloses \/ SweepEnds) /\ SF_vars(WipeStep)

Spec == Init /\ [][Next]_vars /\ Fairness

-----------------------------------------------------------------------------
Browsers == [owner : Users \cup {None}, active : SUBSET Turns, inflight : SUBSET Turns,
             worker : Users \cup {None}, switching : BOOLEAN, sweeping : BOOLEAN,
             fatal : BOOLEAN, lent : BOOLEAN, idle : {"none", "timer", "closing"}]
Places == {"idle", "entering", "waiting", "leasing", "granted", "switching", "acquired",
           "rooted", "ensuring", "starting", "running", "stale", "back"}
JobStates == {"new", "queued", "yielding", "waiting", "running", "failing", "unsafe",
              "lost", "ended"}

TypeOK ==
    /\ up \in BOOLEAN /\ poisoned \in BOOLEAN
    /\ lease \in Jobs \cup {None, "browser"} /\ leasing \in Turns \cup {None}
    /\ br \in Browsers
    /\ turn \in [Turns -> [at : Places, over : BOOLEAN, finalizer : BOOLEAN]]
    /\ job \in [Jobs -> JobStates] /\ unit \in SUBSET Jobs /\ stray \in BOOLEAN
    /\ wipe \in {"none", "asked", "closing", "removing", "done", "failed"}

\* The units some row still answers for.  A row cancelled while its unit's end is
\* unknown answers for none (see CancelFailing): recovery does not look for it.
Known == {j \in unit : job[j] # "lost"}

\* The process surfaces somebody answers for: the browser worker, from its launch
\* until it is confirmed gone, and the units of jobs.
Surfaces == Known \cup (IF BrowserUnit THEN {"browser"} ELSE {})

\* Two process surfaces are never in the namespace at once (netns_lease.py:17-24),
\* neither two units nor a unit and the browser worker, whether it is being launched,
\* is ready, or could not be closed, and whatever was cancelled or left by a crash.
\* Excepted is what nobody answers for: a unit whose row was cancelled (lost) and
\* a browser unit without a reference to it (stray), see StartFails and Started.
NamespaceIsExclusive == \A r, s \in Surfaces : r = s

\* While the process runs, a live unit that is answered for belongs to a job of this
\* process: no unit of an earlier one is left when rows may be deleted and
\* workspaces written again (coding_jobs.py:63-64).
NoOrphanUnit == up => \A j \in Known : job[j] \in {"running", "failing", "unsafe"}

\* When a turn is over, its finalizer has run and its tool is back, it holds no
\* place in the browser, however its end raced the acquisition and the call.
NoTurnOutlivesItsRun ==
    \A t \in Turns : turn[t].over /\ ~turn[t].finalizer /\ turn[t].at = "back"
                        => t \notin br.active \cup br.inflight

\* The browser's worker is its owner's: no user's call is answered from the
\* profile of another.
WorkerIsOwners ==
    /\ br.worker # None => br.worker = br.owner
    /\ \A t \in Turns : turn[t].at = "running" => br.worker = TurnUser[t]

\* A deletion that reached the browser ends, unless the browser failed closed.
DeletionEndsOrClosed == wipe = "asked" ~> wipe # "asked" \/ br.fatal

=============================================================================
