---------------------------- MODULE CodingTasks ----------------------------
(***************************************************************************)
(* CodingTaskService (bot/app/coding_tasks.py) over the durable rows of    *)
(* CodingTaskStore: the scheduler and its claim window, one worker         *)
(* coroutine per claimed task, shielded tool children, managed jobs, stop  *)
(* requests with a bounded wait, steering, orderly shutdown, crashes and   *)
(* startup recovery.                                                       *)
(*                                                                         *)
(* A worker's program counter names the await it stands at:                *)
(*   new       asyncio task created, first step not yet run                *)
(*   locking   waiting for the privacy activity and the workspace writer   *)
(*   starting  first status notification, before the deadline check        *)
(*   poll      run_conversation, about to read external messages           *)
(*   thinking  waiting for the provider                                    *)
(*   tools     running the reply's tool calls                              *)
(*   awaiting  waiting for a shielded tool child                           *)
(*   returned  run_conversation is over, its verdict in outcome            *)
(*   parking   paused or requeued: cancelling jobs, then leaves unfinished *)
(*   sealing   cancelling jobs and snapshotting outputs before finishing   *)
(*   settling  about to call finish                                        *)
(*   stopping  CancelledError handler, before its store call               *)
(*   draining  CancelledError handler, cancelling jobs                     *)
(*   failing   Exception handler, cancelling jobs, then finish             *)
(*   final     writer released; _finalize_task_run                         *)
(* and "none" when no worker is registered for the task.                   *)
(***************************************************************************)
EXTENDS CodingTaskStore

CONSTANTS
    MaxConcurrency,  \* coding_task_max_concurrency
    Stoppers,        \* concurrent cancel_task calls (/stop, privacy, dashboard)
    Dashboard,       \* tasks whose delivery_surface is the dashboard
    MaxRestarts      \* bound: process restarts

ASSUME ServiceAssumption ==
    /\ MaxConcurrency \in Nat \ {0}
    /\ Dashboard \subseteq Tasks
    /\ MaxRestarts \in Nat

VARIABLES
    phase,      \* "up", "closing", "closed", "down" or "booting"
    restarts,
    late,       \* late[t]: the total deadline of t has elapsed
    sched,      \* the task in the claim window of the scheduler, 0 if none
    pc,         \* pc[t]: see above
    outcome,    \* outcome[t]: the verdict of run_conversation
    seen,       \* seen[t]: event cursor of the worker
    thrown,     \* thrown[t]: worker.cancel() not yet delivered
    child,      \* child[t]: a shielded tool child that may outlive its await
    job,        \* job[t]: a managed command of t is live
    stop        \* stop[c]: progress of a cancel_task call

svcVars == <<phase, restarts, late, sched, pc, outcome, seen, thrown, child, job, stop>>
vars == <<rows, svcVars>>

InSection == {"starting", "poll", "thinking", "tools", "awaiting", "returned", "parking",
              "sealing", "settling", "stopping", "draining", "failing"}
WorkerStates == InSection \cup {"none", "new", "locking", "final"}
Verdicts == {"completed", "failed", "timed_out"}
Registered == {t \in Tasks : pc[t] # "none"}

\* The durable writer of a workspace: its worker, detached children and jobs.
\* (Seeded fault: the writer is released only after the finalizer.)
Writes_UntilExit(t) == pc[t] \in InSection \cup {"final"} \/ child[t] # "none" \/ job[t]
Writes(t) == pc[t] \in InSection \/ child[t] # "none" \/ job[t]
WriterIdle(w) == \A t \in Tasks : WorkspaceOf[t] = w => ~Writes(t)

\* The event loop still runs callers of the service.
Alive == phase \in {"up", "closing", "closed"}

Idle == [pc |-> "idle", task |-> 0]

Init ==
    /\ StoreInit
    /\ phase = "up" /\ restarts = 0 /\ sched = 0
    /\ late = [t \in Tasks |-> FALSE]
    /\ pc = [t \in Tasks |-> "none"]
    /\ outcome = [t \in Tasks |-> "completed"]
    /\ seen = [t \in Tasks |-> 0]
    /\ thrown = [t \in Tasks |-> FALSE]
    /\ child = [t \in Tasks |-> "none"]
    /\ job = [t \in Tasks |-> FALSE]
    /\ stop = [c \in Stoppers |-> Idle]

\* A store call whose refusal the caller tolerates.
\* (Seeded fault: the verdict is written whatever the row says.)
TryFinish_Overwrites(t, status) ==
    rows' = [rows EXCEPT ![t].status = status, ![t].delivery = "final_pending"]
TryFinish(t, status) ==
    IF Active(t) THEN Finish(t, status) ELSE UNCHANGED rows
TryTransition(t, from, to) ==
    IF CanTransition(t, from) THEN Transition(t, from, to) ELSE UNCHANGED rows

Goto(t, from, to) == pc[t] = from /\ pc' = [pc EXCEPT ![t] = to]

-----------------------------------------------------------------------------
(* Foreground turns: admission, handoff and steering.                       *)

\* start_from_tool
StartFromTool(t) ==
    /\ phase = "up" /\ CreateTask(t)
    /\ UNCHANGED svcVars

\* The turn is cancelled, or finalization began, before the acknowledgement.
AbandonStart(t) ==
    /\ phase = "up" /\ AbandonHandoff(t)
    /\ UNCHANGED svcVars

\* finalize_handoff / release_handoff, by the turn or by start() after a restart.
FinalizeHandoff(t) ==
    /\ phase \in {"up", "booting"} /\ ReleaseHandoff(t)
    /\ UNCHANGED svcVars

\* start(): a dashboard handoff nobody acknowledged is cancelled instead.
CancelUnacknowledged(t) ==
    /\ phase = "booting" /\ t \in Dashboard
    /\ rows[t].handoff /\ RequestCancel(t)
    /\ UNCHANGED svcVars

\* steer_from_tool
SteerFromTool(t) ==
    /\ phase = "up" /\ Steer(t)
    /\ UNCHANGED svcVars

\* Time: the total deadline of a task passes.
DeadlinePasses(t) ==
    /\ Active(t) /\ ~late[t]
    /\ late' = [late EXCEPT ![t] = TRUE]
    /\ UNCHANGED <<rows, phase, restarts, sched, pc, outcome, seen, thrown, child, job, stop>>

-----------------------------------------------------------------------------
(* The scheduler loop.                                                      *)

\* expire_waiting_for_input
SchedExpire(t) ==
    /\ phase = "up" /\ sched = 0 /\ late[t] /\ ExpireWaiting(t)
    /\ UNCHANGED svcVars

\* Seeded fault: the claim does not exclude tasks whose worker is still alive.
SchedClaim_NoExclusion(t) ==
    /\ phase = "up" /\ sched = 0
    /\ Cardinality(Registered) < MaxConcurrency
    /\ ClaimNext(t, {})
    /\ sched' = t
    /\ UNCHANGED <<phase, restarts, late, pc, outcome, seen, thrown, child, job, stop>>

\* claim_next, then the block check is awaited
SchedClaim(t) ==
    /\ phase = "up" /\ sched = 0
    /\ Cardinality(Registered) < MaxConcurrency
    /\ ClaimNext(t, Registered)
    /\ sched' = t
    /\ UNCHANGED <<phase, restarts, late, pc, outcome, seen, thrown, child, job, stop>>

\* Not blocked: the refreshed row decides whether a worker is created.
SchedLaunch(t) ==
    /\ phase = "up" /\ t # 0 /\ sched = t /\ sched' = 0
    /\ IF rows[t].status = "running" /\ ~rows[t].cancel
       THEN /\ Goto(t, "none", "new")
            /\ UNCHANGED rows
       ELSE /\ IF rows[t].cancel THEN TryFinish(t, "cancelled") ELSE UNCHANGED rows
            /\ UNCHANGED pc
    /\ UNCHANGED <<phase, restarts, late, outcome, seen, thrown, child, job, stop>>

\* The owner is blocked.
SchedBlocked(t) ==
    /\ phase = "up" /\ t # 0 /\ sched = t /\ sched' = 0
    /\ TryFinish(t, "cancelled")
    /\ UNCHANGED <<phase, restarts, late, pc, outcome, seen, thrown, child, job, stop>>

\* Seeded fault: a failed block check leaves the claim standing.
SchedReleaseClaim_Forgets(t) ==
    /\ Alive /\ t # 0 /\ sched = t /\ sched' = 0
    /\ UNCHANGED rows
    /\ UNCHANGED <<phase, restarts, late, pc, outcome, seen, thrown, child, job, stop>>

\* The block check raised, or shutdown cancelled the scheduler inside it.
SchedReleaseClaim(t) ==
    /\ Alive /\ t # 0 /\ sched = t /\ sched' = 0
    /\ IF rows[t].status = "running" THEN ReleaseClaim(t)
       ELSE IF rows[t].cancel THEN TryFinish(t, "cancelled")
       ELSE UNCHANGED rows
    /\ UNCHANGED <<phase, restarts, late, pc, outcome, seen, thrown, child, job, stop>>

Scheduler == \E t \in Tasks :
    SchedExpire(t) \/ SchedClaim(t) \/ SchedLaunch(t) \/ SchedBlocked(t) \/ SchedReleaseClaim(t)

-----------------------------------------------------------------------------
(* A worker up to the end of its model run.                                 *)

\* The first step of the coroutine.
WorkerBegins(t) ==
    /\ Alive /\ ~thrown[t] /\ Goto(t, "new", "locking")
    /\ UNCHANGED <<rows, phase, restarts, late, sched, outcome, seen, thrown, child, job, stop>>

\* user_activity and workspace_activity are both held.
WorkerEnters(t) ==
    /\ Alive /\ ~thrown[t] /\ Goto(t, "locking", "starting")
    /\ WriterIdle(WorkspaceOf[t])
    /\ seen' = [seen EXCEPT ![t] = rows[t].cursor]
    /\ UNCHANGED <<rows, phase, restarts, late, sched, outcome, thrown, child, job, stop>>

\* The deadline check in front of the model run.
WorkerStarts(t) ==
    /\ Alive /\ ~thrown[t]
    /\ IF late[t] THEN /\ Goto(t, "starting", "final") /\ TryFinish(t, "timed_out")
       ELSE /\ Goto(t, "starting", "poll") /\ UNCHANGED rows
    /\ UNCHANGED <<phase, restarts, late, sched, outcome, seen, thrown, child, job, stop>>

\* _external_task_messages: consumed steering hands a requeued row back.
WorkerPolls(t) ==
    /\ Alive /\ ~thrown[t] /\ Goto(t, "poll", "thinking")
    /\ seen' = [seen EXCEPT ![t] = rows[t].steers]
    /\ IF seen[t] < rows[t].steers THEN TryTransition(t, {"queued"}, "running")
       ELSE UNCHANGED rows
    /\ UNCHANGED <<phase, restarts, late, sched, outcome, thrown, child, job, stop>>

WorkerCallsTools(t) ==
    /\ Alive /\ ~thrown[t] /\ Goto(t, "thinking", "tools")
    /\ UNCHANGED <<rows, phase, restarts, late, sched, outcome, seen, thrown, child, job, stop>>

\* coding_request_input or coding_job_start run in a shielded child.
WorkerCallsChild(t, tool) ==
    /\ Alive /\ ~thrown[t] /\ Goto(t, "tools", "awaiting")
    /\ child[t] = "none" /\ child' = [child EXCEPT ![t] = tool]
    /\ UNCHANGED <<rows, phase, restarts, late, sched, outcome, seen, thrown, job, stop>>

WorkerHasChildResult(t) ==
    /\ Alive /\ ~thrown[t] /\ child[t] = "none" /\ Goto(t, "awaiting", "tools")
    /\ UNCHANGED <<rows, phase, restarts, late, sched, outcome, seen, thrown, child, job, stop>>

\* job_status on a finished job
WorkerSeesJobDone(t) ==
    /\ Alive /\ ~thrown[t] /\ pc[t] = "tools" /\ ~job[t]
    /\ Transition(t, {"waiting_for_job"}, "running")
    /\ UNCHANGED svcVars

\* The batch is complete: checkpoint, then the next iteration.
WorkerCheckpoints(t) ==
    /\ Alive /\ ~thrown[t] /\ Goto(t, "tools", "poll")
    /\ SetCheckpoint(t, seen[t])
    /\ UNCHANGED <<phase, restarts, late, sched, outcome, seen, thrown, child, job, stop>>

\* run_conversation returns: a final answer or a provider error from the model
\* call, exhausted iterations at a boundary, or the deadline at any await, which
\* leaves a tool child running.
WorkerReturns(t, verdict) ==
    /\ Alive /\ ~thrown[t]
    /\ \/ verdict \in {"completed", "failed"} /\ pc[t] = "thinking"
       \/ verdict = "failed" /\ pc[t] = "poll"
       \/ verdict = "timed_out" /\ late[t] /\ pc[t] \in {"poll", "thinking", "tools", "awaiting"}
    /\ pc' = [pc EXCEPT ![t] = "returned"]
    /\ outcome' = [outcome EXCEPT ![t] = verdict]
    /\ UNCHANGED <<rows, phase, restarts, late, sched, seen, thrown, child, job, stop>>

\* Any other exception of the run.
WorkerRaises(t) ==
    /\ Alive /\ ~thrown[t]
    /\ pc[t] \in {"starting", "poll", "thinking", "tools", "returned"}
    /\ pc' = [pc EXCEPT ![t] = "failing"]
    /\ UNCHANGED <<rows, phase, restarts, late, sched, outcome, seen, thrown, child, job, stop>>

-----------------------------------------------------------------------------
(* Tool children and jobs, which run on when their worker stops waiting.    *)

\* request_input
ChildAsks(t) ==
    /\ Alive /\ child[t] = "asking"
    /\ child' = [child EXCEPT ![t] = "none"]
    /\ TryTransition(t, {"running", "waiting_for_job"}, "waiting_for_input")
    /\ UNCHANGED <<phase, restarts, late, sched, pc, outcome, seen, thrown, job, stop>>

\* start_job: CodingJobManager.start admits while the parent can start work.
ChildStartsJob(t) ==
    /\ Alive /\ child[t] = "starting_job"
    /\ IF ~rows[t].cancel /\ rows[t].status \in {"queued", "running", "waiting_for_job"}
       THEN job' = [job EXCEPT ![t] = TRUE] /\ child' = [child EXCEPT ![t] = "linking_job"]
       ELSE UNCHANGED job /\ child' = [child EXCEPT ![t] = "none"]
    /\ UNCHANGED <<rows, phase, restarts, late, sched, pc, outcome, seen, thrown, stop>>

\* start_job: the row follows the job, or the job is cancelled again.
ChildLinksJob(t) ==
    /\ Alive /\ child[t] = "linking_job"
    /\ child' = [child EXCEPT ![t] =
                    IF CanTransition(t, {"running", "waiting_for_job"}) \/ ~job[t]
                    THEN "none" ELSE "dropping_job"]
    /\ TryTransition(t, {"running", "waiting_for_job"}, "waiting_for_job")
    /\ UNCHANGED <<phase, restarts, late, sched, pc, outcome, seen, thrown, job, stop>>

\* CodingJobManager.cancel returns once the command is gone.
ChildDroppedJob(t) ==
    /\ Alive /\ child[t] = "dropping_job" /\ ~job[t]
    /\ child' = [child EXCEPT ![t] = "none"]
    /\ UNCHANGED <<rows, phase, restarts, late, sched, pc, outcome, seen, thrown, job, stop>>

\* A job ends by itself, or its requested teardown is confirmed.
JobEnds(t) ==
    /\ Alive /\ job[t]
    /\ job' = [job EXCEPT ![t] = FALSE]
    /\ UNCHANGED <<rows, phase, restarts, late, sched, pc, outcome, seen, thrown, child, stop>>

Background(t) ==
    ChildAsks(t) \/ ChildStartsJob(t) \/ ChildLinksJob(t) \/ ChildDroppedJob(t) \/ JobEnds(t)

-----------------------------------------------------------------------------
(* A worker from the end of its model run to its exit.                      *)

\* The status read after the run: paused or requeued rows are left alone.
WorkerDecides(t) ==
    /\ Alive /\ ~thrown[t]
    /\ Goto(t, "returned", IF rows[t].status \in {"waiting_for_input", "queued"}
                           THEN "parking" ELSE "sealing")
    /\ UNCHANGED <<rows, phase, restarts, late, sched, outcome, seen, thrown, child, job, stop>>

WorkerParks(t) ==
    /\ Alive /\ ~thrown[t] /\ ~job[t] /\ Goto(t, "parking", "final")
    /\ UNCHANGED <<rows, phase, restarts, late, sched, outcome, seen, thrown, child, job, stop>>

WorkerSeals(t) ==
    /\ Alive /\ ~thrown[t] /\ ~job[t] /\ Goto(t, "sealing", "settling")
    /\ UNCHANGED <<rows, phase, restarts, late, sched, outcome, seen, thrown, child, job, stop>>

WorkerSettles(t) ==
    /\ Alive /\ ~thrown[t] /\ Goto(t, "settling", "final")
    /\ TryFinish(t, outcome[t])
    /\ UNCHANGED <<phase, restarts, late, sched, outcome, seen, thrown, child, job, stop>>

WorkerFails(t) ==
    /\ Alive /\ ~thrown[t] /\ ~job[t] /\ Goto(t, "failing", "final")
    /\ TryFinish(t, "failed")
    /\ UNCHANGED <<phase, restarts, late, sched, outcome, seen, thrown, child, job, stop>>

\* worker.cancel() takes effect at the await the worker stands at.
WorkerInterrupted(t) ==
    /\ Alive /\ thrown[t] /\ pc[t] \notin {"none", "final"}
    /\ thrown' = [thrown EXCEPT ![t] = FALSE]
    /\ pc' = [pc EXCEPT ![t] =
                 CASE pc[t] = "new" -> "none"
                   [] pc[t] \in {"locking", "stopping", "draining", "failing"} -> "final"
                   [] OTHER -> "stopping"]
    /\ UNCHANGED <<rows, phase, restarts, late, sched, outcome, seen, child, job, stop>>

\* The CancelledError handler of _run_task.
WorkerHandlesStop(t) ==
    /\ Alive /\ ~thrown[t] /\ Goto(t, "stopping", "draining")
    /\ IF rows[t].cancel THEN TryFinish(t, "cancelled")
       ELSE TryTransition(t, {"running", "waiting_for_job", "waiting_for_input"}, "recovering")
    /\ UNCHANGED <<phase, restarts, late, sched, outcome, seen, thrown, child, job, stop>>

WorkerDrains(t) ==
    /\ Alive /\ ~thrown[t] /\ ~job[t] /\ Goto(t, "draining", "final")
    /\ UNCHANGED <<rows, phase, restarts, late, sched, outcome, seen, thrown, child, job, stop>>

\* Seeded fault: the finalizer neither cancels jobs nor waits for the workspace.
WorkerExits_NoSweep(t) ==
    /\ Alive /\ Goto(t, "final", "none")
    /\ thrown' = [thrown EXCEPT ![t] = FALSE]
    /\ outcome' = [outcome EXCEPT ![t] = "completed"]
    /\ seen' = [seen EXCEPT ![t] = 0]
    /\ UNCHANGED <<rows, phase, restarts, late, sched, child, job, stop>>

\* _finalize_task_run (shielded: a further cancel is absorbed), exit, _worker_done.
WorkerExits(t) ==
    /\ Alive /\ Goto(t, "final", "none")
    /\ ~job[t] /\ WriterIdle(WorkspaceOf[t])
    /\ thrown' = [thrown EXCEPT ![t] = FALSE]
    /\ outcome' = [outcome EXCEPT ![t] = "completed"]
    /\ seen' = [seen EXCEPT ![t] = 0]
    /\ UNCHANGED <<rows, phase, restarts, late, sched, child, job, stop>>

Worker(t) ==
    \/ WorkerBegins(t) \/ WorkerEnters(t) \/ WorkerStarts(t) \/ WorkerPolls(t)
    \/ WorkerCallsTools(t) \/ WorkerHasChildResult(t)
    \/ \E tool \in {"asking", "starting_job"} : WorkerCallsChild(t, tool)
    \/ WorkerSeesJobDone(t) \/ WorkerCheckpoints(t)
    \/ \E verdict \in Verdicts : WorkerReturns(t, verdict)
    \/ WorkerRaises(t) \/ WorkerDecides(t) \/ WorkerParks(t) \/ WorkerSeals(t)
    \/ WorkerSettles(t) \/ WorkerFails(t) \/ WorkerInterrupted(t)
    \/ WorkerHandlesStop(t) \/ WorkerDrains(t) \/ WorkerExits(t)

-----------------------------------------------------------------------------
(* cancel_task.                                                             *)

StopAt(c, from, to) == stop[c].pc = from /\ stop' = [stop EXCEPT ![c].pc = to]

\* get_task: a settled task needs nothing.
StopBegins(c, t) ==
    /\ phase = "up" /\ stop[c] = Idle /\ Active(t)
    /\ stop' = [stop EXCEPT ![c] = [pc |-> "requesting", task |-> t]]
    /\ UNCHANGED <<rows, phase, restarts, late, sched, pc, outcome, seen, thrown, child, job>>

\* request_cancel
StopRequests(c) ==
    /\ Alive /\ StopAt(c, "requesting", "requested")
    /\ RequestCancel(stop[c].task)
    /\ UNCHANGED <<phase, restarts, late, sched, pc, outcome, seen, thrown, child, job>>

\* The registered worker, if any, is cancelled and awaited.
StopInterrupts(c) ==
    /\ Alive /\ StopAt(c, "requested", "waiting") /\ pc[stop[c].task] # "none"
    /\ thrown' = [thrown EXCEPT ![stop[c].task] = TRUE]
    /\ UNCHANGED <<rows, phase, restarts, late, sched, pc, outcome, seen, child, job>>

\* The worker ended in time: settle the row if nobody did.
StopSeesWorkerEnd(c) ==
    /\ Alive /\ stop[c].pc = "waiting" /\ pc[stop[c].task] = "none"
    /\ TryFinish(stop[c].task, "cancelled")
    /\ stop' = [stop EXCEPT ![c] = Idle]
    /\ UNCHANGED <<phase, restarts, late, sched, pc, outcome, seen, thrown, child, job>>

\* coding_stop_cleanup_wait_seconds elapsed first: cancel_task returns.  The wait
\* is long enough for the cancellation itself to reach the worker.
StopTimesOut(c) ==
    /\ Alive /\ stop[c].pc = "waiting"
    /\ LET t == stop[c].task IN pc[t] # "none" /\ (thrown[t] => pc[t] = "final")
    /\ stop' = [stop EXCEPT ![c] = Idle]
    /\ UNCHANGED <<rows, phase, restarts, late, sched, pc, outcome, seen, thrown, child, job>>

\* No worker: a claim that was never launched is settled here.
StopWithoutWorker(c) ==
    /\ Alive /\ stop[c].pc = "requested" /\ pc[stop[c].task] = "none"
    /\ IF rows[stop[c].task].status = "cancelling" THEN Finish(stop[c].task, "cancelled")
       ELSE UNCHANGED rows
    /\ stop' = [stop EXCEPT ![c] = Idle]
    /\ UNCHANGED <<phase, restarts, late, sched, pc, outcome, seen, thrown, child, job>>

Stopper(c) ==
    \/ StopRequests(c) \/ StopInterrupts(c) \/ StopSeesWorkerEnd(c)
    \/ StopTimesOut(c) \/ StopWithoutWorker(c)

-----------------------------------------------------------------------------
(* Shutdown, crash and startup.                                             *)

\* close() begins: the scheduler is cancelled first.
Close ==
    /\ phase = "up" /\ restarts < MaxRestarts /\ phase' = "closing"
    /\ UNCHANGED <<rows, restarts, late, sched, pc, outcome, seen, thrown, child, job, stop>>

\* close(): every worker is cancelled once, after the scheduler has ended.
CloseInterrupts ==
    /\ phase = "closing" /\ sched = 0 /\ phase' = "closed"
    /\ thrown' = [t \in Tasks |-> thrown[t] \/ pc[t] # "none"]
    /\ UNCHANGED <<rows, restarts, late, sched, pc, outcome, seen, child, job, stop>>

\* The process ends, in order or by a crash: only rows and elapsed time survive.
\* (CodingJobs models the units that outlive it until recovery stops them.)
ProcessEnds ==
    /\ phase # "down"
    /\ restarts < MaxRestarts /\ restarts' = restarts + 1
    /\ phase' = "down" /\ sched' = 0
    /\ pc' = [t \in Tasks |-> "none"]
    /\ outcome' = [t \in Tasks |-> "completed"]
    /\ seen' = [t \in Tasks |-> 0]
    /\ thrown' = [t \in Tasks |-> FALSE]
    /\ child' = [t \in Tasks |-> "none"]
    /\ job' = [t \in Tasks |-> FALSE]
    /\ stop' = [c \in Stoppers |-> Idle]
    /\ UNCHANGED <<rows, late>>

\* recover_persisted_work: units are proved inactive, then rows are normalized.
Recover ==
    /\ phase = "down" /\ phase' = "booting"
    /\ RecoverInterrupted
    /\ UNCHANGED <<restarts, late, sched, pc, outcome, seen, thrown, child, job, stop>>

\* start(): the scheduler runs once every stored handoff is resolved.
StartService ==
    /\ phase = "booting" /\ phase' = "up"
    /\ \A t \in Tasks : ~rows[t].handoff
    /\ UNCHANGED <<rows, restarts, late, sched, pc, outcome, seen, thrown, child, job, stop>>

-----------------------------------------------------------------------------
Foreground(t) ==
    \/ StartFromTool(t) \/ AbandonStart(t) \/ FinalizeHandoff(t)
    \/ CancelUnacknowledged(t) \/ SteerFromTool(t)

Lifecycle == Close \/ CloseInterrupts \/ ProcessEnds \/ Recover \/ StartService

Next ==
    \/ \E t \in Tasks : Foreground(t) \/ DeadlinePasses(t) \/ Worker(t) \/ Background(t)
    \/ Scheduler
    \/ \E c \in Stoppers : Stopper(c) \/ \E t \in Tasks : StopBegins(c, t)
    \/ Lifecycle

Spec == Init /\ [][Next]_vars

\* What the event loop and the environment guarantee while the process is up.
\* Ready coroutines run (WF).  A model run ends: its iterations and its deadline
\* are bounded, so it cannot avoid returning for ever (SF).  The scheduler's
\* block check answers eventually (SF), although it may fail many times.  A
\* foreground turn always resolves its handoff: finally in guild_turn_adapter.py.
Fairness ==
    /\ \A t \in Tasks :
          /\ WF_vars(Worker(t)) /\ WF_vars(Background(t))
          /\ SF_vars(\E verdict \in Verdicts : WorkerReturns(t, verdict))
          /\ WF_vars(DeadlinePasses(t))
          /\ WF_vars(FinalizeHandoff(t) \/ AbandonStart(t))
          /\ WF_vars(SchedExpire(t))
          /\ SF_vars(SchedLaunch(t) \/ SchedBlocked(t))
    /\ WF_vars(Scheduler)
    /\ \A c \in Stoppers : WF_vars(Stopper(c))
FairSpec == Spec /\ Fairness

-----------------------------------------------------------------------------
(* Properties.                                                              *)

TypeOK ==
    /\ StoreTypeOK
    /\ phase \in {"up", "closing", "closed", "down", "booting"}
    /\ restarts \in 0..MaxRestarts
    /\ late \in [Tasks -> BOOLEAN]
    /\ sched \in Tasks \cup {0}
    /\ pc \in [Tasks -> WorkerStates]
    /\ outcome \in [Tasks -> Verdicts]
    /\ seen \in [Tasks -> 0..MaxSteers]
    /\ thrown \in [Tasks -> BOOLEAN]
    /\ child \in [Tasks -> {"none", "asking", "starting_job", "linking_job", "dropping_job"}]
    /\ job \in [Tasks -> BOOLEAN]
    /\ stop \in [Stoppers -> [pc : {"idle", "requesting", "requested", "waiting"},
                             task : Tasks \cup {0}]]

\* While the service is up, a row that says running or waiting_for_job has a
\* worker or is in the claim window.  Without one "the row stays 'running' with
\* no worker until the next restart, and its workspace admits no other task"
\* (release_claim, coding_tasks.py 403-411).
NoOrphanClaim ==
    phase = "up" => \A t \in Tasks :
        rows[t].status \in {"running", "waiting_for_job", "recovering"}
            => pc[t] # "none" \/ sched = t

\* The claim window and a live worker are never about the same task, so steering
\* a paused task back into the queue starts no second worker for it.
OneWorkerPerTask == sched # 0 => pc[sched] = "none"

\* Once no worker is registered for a task, nothing of it is left running: no
\* managed job, no detached tool child.
NoStrayWork == \A t \in Tasks : pc[t] = "none" => ~job[t] /\ child[t] = "none"

\* A task whose handoff is still pending has never been handed to a worker.
HeldUntilHandoff ==
    \A t \in Tasks : rows[t].handoff => rows[t].status = "queued" /\ pc[t] = "none" /\ sched # t

\* The service only moves rows the way the store promises.
ImplementsStore == StoreSpec

\* A task that was released settles, if nobody stops it and the process stays
\* up: paused tasks by their deadline, queued ones by getting their turn.
ReleasedTasksSettle == \A t \in Tasks : Runnable(t) ~> Terminal(t)

=============================================================================
