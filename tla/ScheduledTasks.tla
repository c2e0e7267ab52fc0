----------------------------- MODULE ScheduledTasks -----------------------------
(***************************************************************************)
(* One scheduled task: its rows (bot/storage/scheduled_tasks.py), the      *)
(* runner processes that share them through a lease (app/task_scheduler.py)*)
(* with their worker and publisher coroutines (app/task_executor.py,       *)
(* app/task_publisher.py), and its management (app/task_manager.py,        *)
(* app/task_approvals.py).                                                 *)
(*                                                                         *)
(* A method of the store is one transaction and one step; a coroutine may  *)
(* be overtaken at every await between two of them.  Comparison state is   *)
(* the number of its last write, a schedule time is the number of its last *)
(* change and whether it has come.  Log deliveries, which move neither the *)
(* task nor a run, the outage counter and deletion are left out.           *)
(***************************************************************************)
EXTENDS Naturals, FiniteSets

CONSTANTS Runners,         \* processes with scheduled tasks enabled
          MaxRuns,         \* bound: occurrences claimed
          MaxChunks,       \* bound: destination messages of a run
          MaxRequests,     \* bound: edits and controls of the task's managers
          MaxDisruptions,  \* bound: restarts and lost leases
          MaxTries         \* throttled sends of one message (10 in the code)

ASSUME BoundsAssumption ==
    /\ IsFiniteSet(Runners) /\ "nobody" \notin Runners
    /\ {MaxRuns, MaxChunks} \subseteq Nat \ {0}
    /\ {MaxRequests, MaxDisruptions, MaxTries} \subseteq Nat

VARIABLES
    task,         \* scheduled_tasks and the approval of its current revision
    runs,         \* scheduled_task_runs with their scheduled_task_deliveries
    lease,        \* scheduled_task_runner: token and whether it has expired
    owns,         \* _owns_lease of each process
    work,         \* the worker of the task in each process
    pub,          \* the publisher of each process, run by run
    requests, disruptions

rows == <<task, runs>>
local == <<owns, work, pub>>
bounds == <<requests, disruptions>>
vars == <<rows, lease, local, bounds>>

Runs == 1..MaxRuns
Chunks == 1..MaxChunks
NoRun == [status |-> "absent", revision |-> 0, generation |-> 0, input |-> 0,
          chunk |-> [i \in Chunks |-> "none"], attempts |-> [i \in Chunks |-> 0],
          posted |-> [i \in Chunks |-> 0], saved |-> FALSE, torn |-> FALSE]
NoWork == [at |-> "none", doomed |-> FALSE, revision |-> 0, next |-> 0, generation |-> 0,
           input |-> 0, run |-> 0]
NoPost == [at |-> "idle", chunk |-> 0, spent |-> FALSE]

Created == {r \in Runs : runs[r].status # "absent"}
Newest(r) == r \in Created /\ r + 1 \notin Created
Outstanding == {r \in Runs : runs[r].status \in {"running", "delivery"}}

Init ==
    /\ task = [status |-> "draft", revision |-> 1, approval |-> "pending", active |-> 0,
               generation |-> 0, state |-> 0, next |-> 0, when |-> "never"]
    /\ runs = [r \in Runs |-> NoRun]
    /\ lease = [token |-> "nobody", expired |-> TRUE]
    /\ owns = [p \in Runners |-> FALSE]
    /\ work = [p \in Runners |-> NoWork]
    /\ pub = [p \in Runners |-> [r \in Runs |-> NoPost]]
    /\ requests = 0 /\ disruptions = 0

-----------------------------------------------------------------------------
(* Management.                                                              *)

\* An edit, against the revision the editor has seen.
Draft ==
    /\ task' = [task EXCEPT !.revision = @ + 1, !.approval = "pending"]
    /\ UNCHANGED <<runs, lease, local>>

Activate(reset) ==
    /\ task.approval = "pending"
    /\ task' = [task EXCEPT !.approval = "approved", !.active = task.revision,
                            !.status = "active", !.next = @ + 1, !.when = "later",
                            !.state = @ + (IF reset THEN 1 ELSE 0),
                            !.generation = @ + (IF reset THEN 1 ELSE 0)]
    /\ UNCHANGED <<runs, lease, local>>

Reject ==
    /\ task.approval = "pending"
    /\ task' = [task EXCEPT !.approval = "rejected",
                            !.status = IF task.active = 0 THEN "rejected" ELSE @]
    /\ UNCHANGED <<runs, lease, local>>

\* set_status with anything but active.
Withdrawn(run) ==
    IF run.status = "absent" THEN run
    ELSE [run EXCEPT !.status = IF @ \in {"running", "delivery"} THEN "cancelled" ELSE @,
                     !.chunk = [i \in Chunks |-> IF @[i] = "pending" THEN "cancelled" ELSE @[i]]]

\* pause in process p, whose own worker is cancelled next.
Pause(p) ==
    /\ task.status # "paused"
    /\ task' = [task EXCEPT !.status = "paused"]
    /\ runs' = [r \in Runs |-> Withdrawn(runs[r])]
    /\ work' = [work EXCEPT ![p].doomed = work[p].at # "none"]
    /\ UNCHANGED <<lease, owns, pub>>

\* Seeded fault: an answer is saved without a new state generation.
Resume_KeepsGeneration(answered) ==
    /\ task.active # 0 /\ (answered => Outstanding = {})
    /\ task' = [task EXCEPT !.status = "active", !.next = @ + 1, !.when = "later",
                            !.state = @ + (IF answered THEN 1 ELSE 0)]
    /\ UNCHANGED <<runs, lease, local>>

\* resume and run_now, with or without an answer.  What they check of the status
\* and the history was read before the transaction and may be stale by now.
Resume(answered) ==
    /\ task.active # 0 /\ (answered => Outstanding = {})
    /\ task' = [task EXCEPT !.status = "active", !.next = @ + 1, !.when = "later",
                            !.state = @ + (IF answered THEN 1 ELSE 0),
                            !.generation = @ + (IF answered THEN 1 ELSE 0)]
    /\ UNCHANGED <<runs, lease, local>>

\* Seeded fault: a retry includes uncertain sends.
RetryDelivery_Uncertain(r) ==
    /\ Newest(r) /\ runs[r].status = "delivery_failed"
    /\ runs[r].generation = task.generation
    /\ \A i \in Chunks : runs[r].chunk[i] # "cancelled"
    /\ runs' = [runs EXCEPT ![r].status = "delivery",
                            ![r].chunk = [i \in Chunks |->
                                IF @[i] \in {"failed", "uncertain"} THEN "pending" ELSE @[i]]]
    /\ task' = [task EXCEPT !.status = "active"]
    /\ UNCHANGED <<lease, local>>

\* retry_delivery of saved output.
RetryDelivery(r) ==
    /\ Newest(r) /\ runs[r].status = "delivery_failed"
    /\ runs[r].generation = task.generation
    /\ \A i \in Chunks : runs[r].chunk[i] \notin {"uncertain", "cancelled"}
    /\ runs' = [runs EXCEPT ![r].status = "delivery",
                            ![r].chunk = [i \in Chunks |-> IF @[i] = "failed" THEN "pending" ELSE @[i]]]
    /\ task' = [task EXCEPT !.status = "active"]
    /\ UNCHANGED <<lease, local>>

\* The scheduled time comes; run_now sets it to the present.
TimeComes ==
    /\ task.when = "later"
    /\ task' = [task EXCEPT !.when = "due"]
    /\ UNCHANGED <<runs, lease, local, bounds>>

Decide ==
    (Reject \/ \E reset \in BOOLEAN : Activate(reset)) /\ UNCHANGED bounds

Request ==
    /\ requests < MaxRequests /\ requests' = requests + 1 /\ UNCHANGED disruptions
    /\ \/ Draft
       \/ \E answered \in BOOLEAN : Resume(answered)
       \/ \E p \in Runners : Pause(p)
       \/ \E r \in Runs : RetryDelivery(r)

-----------------------------------------------------------------------------
(* The rows of a run.                                                       *)

\* Seeded fault: a claim does not compare the occurrence it was admitted for.
Claimable_AnyOccurrence(w) == task.status = "active" /\ task.active = w.revision

\* _commit_state, if the run still is of the approved revision and current state.
Fresh(r) ==
    /\ task.status = "active" /\ runs[r].revision = task.active
    /\ runs[r].generation = task.generation
Committed(r) ==
    IF Fresh(r)
      THEN [task EXCEPT !.state = @ + 1, !.generation = @ + 1,
                        !.status = IF task.when = "never" THEN "completed" ELSE @]
      ELSE task

\* Seeded fault: recovery looks at unfinished sends only.
Abandoned_Sends(r) == \E i \in Chunks : runs[r].chunk[i] = "sending"

\* recover: what the previous holder of the lease left unfinished.
Abandoned(r) == runs[r].status = "running" \/ \E i \in Chunks : runs[r].chunk[i] = "sending"
Recover ==
    /\ task' = IF \E r \in Created : Abandoned(r) THEN [task EXCEPT !.status = "attention"]
               ELSE task
    /\ runs' = [r \in Runs |->
        IF ~(r \in Created /\ Abandoned(r)) THEN runs[r]
        ELSE [runs[r] EXCEPT !.status = "interrupted",
                  !.chunk = [i \in Chunks |-> IF @[i] = "sending" THEN "uncertain" ELSE @[i]]]]

\* The next occurrence's row, claimed from the worker's snapshot of the task.
Claimable(w) ==
    /\ task.status = "active" /\ task.active = w.revision /\ task.next = w.next
    /\ Outstanding = {}
Insert(r, w, torn) ==
    /\ runs' = [runs EXCEPT ![r] = [NoRun EXCEPT !.status = "running", !.revision = w.revision,
                                        !.generation = w.generation, !.input = w.input,
                                        !.torn = torn]]
    /\ \E when \in {"never", "later"} : task' = [task EXCEPT !.next = @ + 1, !.when = when]

-----------------------------------------------------------------------------
(* The runner loop of process p.                                            *)

Mine(p) == lease.token = p /\ ~lease.expired
Bare(p) == work[p].at = "none"

\* Cancelling p's publisher; a failure it has recorded may not pause the task any more.
Unattended(rs, p) == [r \in Runs |-> [rs[r] EXCEPT !.torn = @ \/ pub[p][r].at = "condemned"]]

\* lease renewed or taken.  Whoever did not own it recovers before anything else.
Lease(p) ==
    /\ lease.token = p \/ lease.expired
    /\ ~(Mine(p) /\ owns[p])
    /\ lease' = [token |-> p, expired |-> FALSE]
    /\ owns' = [owns EXCEPT ![p] = TRUE]
    /\ IF owns[p] THEN UNCHANGED rows ELSE Recover
    /\ UNCHANGED <<work, pub, bounds>>

\* lease refused: _stop_workers.
Refused(p) ==
    /\ owns[p] /\ lease.token # p /\ ~lease.expired
    /\ owns' = [owns EXCEPT ![p] = FALSE]
    /\ work' = [work EXCEPT ![p].doomed = ~Bare(p)]
    /\ pub' = [pub EXCEPT ![p] = [r \in Runs |-> NoPost]]
    /\ runs' = Unattended(runs, p)
    /\ UNCHANGED <<task, lease, bounds>>

\* A minute without a renewal.
LeaseExpires ==
    /\ disruptions < MaxDisruptions /\ disruptions' = disruptions + 1
    /\ ~lease.expired /\ lease' = [lease EXCEPT !.expired = TRUE]
    /\ UNCHANGED <<rows, local, requests>>

\* Process p is gone: closed, its workers ended and its lease released, or crashed.
\* The next one has another token.
Restart(p) ==
    /\ disruptions < MaxDisruptions /\ disruptions' = disruptions + 1
    /\ \E released \in BOOLEAN :
        /\ released => Bare(p)
        /\ lease' = IF lease.token = p
                      THEN [token |-> "nobody", expired |-> lease.expired \/ released] ELSE lease
    /\ owns' = [owns EXCEPT ![p] = FALSE]
    /\ work' = [work EXCEPT ![p] = NoWork]
    /\ pub' = [pub EXCEPT ![p] = [r \in Runs |-> NoPost]]
    /\ runs' = Unattended(runs, p)
    /\ UNCHANGED <<task, requests>>

\* An unrenewed lease of a process that is gone runs out.
DeadLeaseExpires ==
    /\ lease.token = "nobody" /\ ~lease.expired /\ lease' = [lease EXCEPT !.expired = TRUE]
    /\ UNCHANGED <<rows, local, bounds>>

\* admit_due.
Admit(p) ==
    /\ owns[p] /\ Bare(p)
    /\ task.status = "active" /\ task.when = "due" /\ Outstanding = {}
    /\ work' = [work EXCEPT ![p] = [NoWork EXCEPT !.at = "admitted", !.revision = task.active,
                                                  !.next = task.next]]
    /\ UNCHANGED <<rows, lease, owns, pub, bounds>>

-----------------------------------------------------------------------------
(* A worker.                                                                *)

Working(p, at) == work[p].at = at /\ ~work[p].doomed
Ends(p) == work' = [work EXCEPT ![p] = NoWork]

\* get, and the comparison with the admitted candidate.
Read(p) ==
    /\ Working(p, "admitted")
    /\ IF work[p].revision = task.active /\ work[p].next = task.next
         THEN work' = [work EXCEPT ![p].at = "read", ![p].generation = task.generation,
                                   ![p].input = task.state]
         ELSE Ends(p)
    /\ UNCHANGED <<rows, lease, owns, pub, bounds>>

Claim(p) ==
    /\ Working(p, "read") /\ Created # Runs
    /\ IF Claimable(work[p])
         THEN \E r \in Runs \ Created :
                /\ r - 1 \in Created \cup {0} /\ Insert(r, work[p], FALSE)
                /\ work' = [work EXCEPT ![p].at = "running", ![p].run = r]
         ELSE Ends(p) /\ UNCHANGED rows
    /\ UNCHANGED <<lease, owns, pub, bounds>>

\* guard_run: live.  Otherwise the run ends as interrupted.
Guard(p) ==
    /\ Working(p, "running")
    /\ task.status = "active" /\ runs[work[p].run].status = "running" /\ Mine(p)
    /\ work' = [work EXCEPT ![p].at = "ready"]
    /\ UNCHANGED <<rows, lease, owns, pub, bounds>>

\* Seeded fault: a run that has ended is finished again.
Settle_Again(p, outcome) ==
    LET r == work[p].run IN
    /\ runs' = [runs EXCEPT ![r].status = outcome]
    /\ task' = IF outcome \in {"completed", "no_change"} THEN Committed(r)
               ELSE [task EXCEPT !.status = "attention"]
    /\ Ends(p) /\ UNCHANGED <<lease, owns, pub, bounds>>

\* finish, which a run that is no longer running ignores.
Settle(p, outcome) ==
    LET r == work[p].run IN
    /\ IF runs[r].status # "running" THEN UNCHANGED rows
       ELSE /\ runs' = [runs EXCEPT ![r].status = outcome,
                                    ![r].saved = outcome \in {"completed", "no_change"} /\ Fresh(r)]
            /\ task' = CASE outcome \in {"completed", "no_change"} -> Committed(r)
                         [] outcome = "read_failed" /\ ~(Fresh(r) /\ task.when = "never") -> task
                         [] OTHER -> [task EXCEPT !.status = "attention"]
    /\ Ends(p) /\ UNCHANGED <<lease, owns, pub, bounds>>

\* A result after the last guard, an occurrence that was missed, or an exception.
Finish(p) ==
    \/ Working(p, "ready") /\ \E outcome \in {"completed", "needs_input"} : Settle(p, outcome)
    \/ Working(p, "running") /\ Settle(p, "no_change")
    \/ work[p].at \in {"running", "ready"} /\ ~work[p].doomed
         /\ \E outcome \in {"failed", "read_failed"} : Settle(p, outcome)

\* finish with posts: their chunks wait for the publisher.
FinishWithPosts(p) ==
    /\ Working(p, "ready")
    /\ \E n \in Chunks : runs' =
         [runs EXCEPT ![work[p].run] =
             IF @.status # "running" THEN @
             ELSE [@ EXCEPT !.status = "delivery",
                            !.chunk = [i \in Chunks |-> IF i <= n THEN "pending" ELSE "none"]]]
    /\ Ends(p) /\ UNCHANGED <<task, lease, owns, pub, bounds>>

\* The worker is cancelled.  A claim under way may commit with nobody to run it.
Interrupted(p) ==
    /\ work[p].doomed
    /\ \/ work[p].at \in {"running", "ready"} /\ Settle(p, "failed")
       \/ work[p].at \in {"admitted", "read"} /\ Ends(p) /\ UNCHANGED <<rows, lease, owns, pub, bounds>>
       \/ /\ work[p].at = "read" /\ Claimable(work[p])
          /\ \E r \in Runs \ Created : r - 1 \in Created \cup {0} /\ Insert(r, work[p], TRUE)
          /\ Ends(p) /\ UNCHANGED <<lease, owns, pub, bounds>>

-----------------------------------------------------------------------------
(* The publisher: _deliver for the chunks of one run after the other.        *)

Posting(p, r, at) == pub[p][r].at = at
Moves(p, r, at) == pub' = [pub EXCEPT ![p][r].at = at]
Chunk(p, r) == runs[r].chunk[pub[p][r].chunk]
\* Seeded fault: a delayed message does not block the later ones.
InOrder_SendingOnly(r, i) == \A j \in 1..(i - 1) : runs[r].chunk[j] # "sending"
InOrder(r, i) == \A j \in 1..(i - 1) : runs[r].chunk[j] \notin {"pending", "sending"}
Publishable(r) == runs[r].status = "delivery" /\ task.status = "active"

\* delivery_runs and deliveries.
Pick(p, r) ==
    /\ owns[p] /\ Posting(p, r, "idle") /\ Publishable(r)
    /\ \E i \in Chunks :
        /\ runs[r].chunk[i] = "pending" /\ InOrder(r, i)
        /\ pub' = [pub EXCEPT ![p][r] = [at |-> "picked", chunk |-> i,
                                         spent |-> runs[r].attempts[i] >= MaxTries]]
    /\ UNCHANGED <<rows, lease, owns, work, bounds>>

\* begin_delivery.
Begin(p, r) ==
    /\ Posting(p, r, "picked")
    /\ IF Mine(p) /\ Chunk(p, r) = "pending" /\ InOrder(r, pub[p][r].chunk) /\ Publishable(r)
         THEN /\ runs' = [runs EXCEPT ![r].chunk[pub[p][r].chunk] = "sending",
                                      ![r].attempts[pub[p][r].chunk] =
                                          IF @ < MaxTries THEN @ + 1 ELSE @]
              /\ Moves(p, r, "sending")
         ELSE pub' = [pub EXCEPT ![p][r] = NoPost] /\ UNCHANGED runs
    /\ UNCHANGED <<task, lease, owns, work, bounds>>

\* The access checks before it raise.
Refuse(p, r) ==
    /\ Posting(p, r, "picked")
    /\ \E how \in {"throttled", "rejected"} : Moves(p, r, how)
    /\ UNCHANGED <<rows, lease, owns, work, bounds>>

\* channel.send answers, or fails with the message posted or not.
Send(p, r) ==
    /\ Posting(p, r, "sending")
    /\ \E how \in {"posted", "throttled", "rejected", "unknown"}, made \in {0, 1} :
        /\ how = "posted" => made = 1
        /\ how \in {"throttled", "rejected"} => made = 0
        /\ Moves(p, r, how)
        /\ runs' = [runs EXCEPT ![r].posted[pub[p][r].chunk] = @ + made]
    /\ UNCHANGED <<task, lease, owns, work, bounds>>

\* Seeded fault: the run completes with the first message that is sent.
RecordSent_Early(p, r) ==
    /\ Posting(p, r, "posted")
    /\ runs' = [runs EXCEPT ![r].chunk[pub[p][r].chunk] = "sent",
                            ![r].status = IF @ = "delivery" THEN "completed" ELSE @,
                            ![r].saved = @ \/ (runs[r].status = "delivery" /\ Fresh(r))]
    /\ task' = IF runs[r].status = "delivery" THEN Committed(r) ELSE task
    /\ pub' = [pub EXCEPT ![p][r] = NoPost]
    /\ UNCHANGED <<lease, owns, work, bounds>>

\* delivery_status('sent'); with the last chunk the run completes.
RecordSent(p, r) ==
    /\ Posting(p, r, "posted")
    /\ LET last == /\ runs[r].status = "delivery"
                   /\ \A i \in Chunks \ {pub[p][r].chunk} : runs[r].chunk[i] \in {"none", "sent"}
       IN /\ runs' = [runs EXCEPT ![r].chunk[pub[p][r].chunk] = "sent",
                                  ![r].status = IF last THEN "completed" ELSE @,
                                  ![r].saved = @ \/ (last /\ Fresh(r))]
          /\ task' = IF last THEN Committed(r) ELSE task
    /\ pub' = [pub EXCEPT ![p][r] = NoPost]
    /\ UNCHANGED <<lease, owns, work, bounds>>

\* delivery_status with the outcome of an exception.
RecordFailure(p, r) ==
    \E status \in {"pending", "failed", "uncertain"} :
        /\ \/ Posting(p, r, "throttled") /\ status = IF pub[p][r].spent THEN "failed"
                                                   ELSE "pending"
           \/ Posting(p, r, "rejected") /\ status = "failed"
           \/ Posting(p, r, "unknown") /\ status = "uncertain"
        /\ runs' = [runs EXCEPT ![r].chunk[pub[p][r].chunk] = status]
        /\ IF status = "pending" THEN pub' = [pub EXCEPT ![p][r] = NoPost]
           ELSE Moves(p, r, "condemned")
        /\ UNCHANGED <<task, lease, owns, work, bounds>>

\* attention, whatever the task does by now.
Attention(p, r) ==
    /\ Posting(p, r, "condemned")
    /\ task' = [task EXCEPT !.status = "attention"]
    /\ runs' = [runs EXCEPT ![r].status = IF @ = "delivery" THEN "delivery_failed" ELSE @]
    /\ pub' = [pub EXCEPT ![p][r] = NoPost]
    /\ UNCHANGED <<lease, owns, work, bounds>>

-----------------------------------------------------------------------------
Work(p) ==
    Read(p) \/ Claim(p) \/ Guard(p) \/ Finish(p) \/ FinishWithPosts(p) \/ Interrupted(p)
Publish(p, r) ==
    Begin(p, r) \/ Send(p, r) \/ RecordSent(p, r) \/ RecordFailure(p, r) \/ Attention(p, r)
Tick(p) == Lease(p) \/ Refused(p)
Next ==
    \/ Decide \/ Request \/ TimeComes \/ LeaseExpires \/ DeadLeaseExpires
    \/ \E p \in Runners : Tick(p) \/ Restart(p) \/ Admit(p) \/ Work(p)
    \/ \E p \in Runners, r \in Runs : Pick(p, r) \/ Refuse(p, r) \/ Publish(p, r)

Spec == Init /\ [][Next]_vars

\* The loop ticks, workers and senders take their next step, a dead lease runs out, and
\* the checks before a send do not fail for ever.
Fairness ==
    /\ WF_vars(DeadLeaseExpires)
    /\ \A p \in Runners : WF_vars(Tick(p)) /\ WF_vars(Work(p))
    /\ \A p \in Runners, r \in Runs :
        WF_vars(Pick(p, r)) /\ WF_vars(Publish(p, r)) /\ SF_vars(Begin(p, r))
FairSpec == Spec /\ Fairness

-----------------------------------------------------------------------------
RunStatuses == {"absent", "running", "delivery", "completed", "no_change", "needs_input", "failed",
                "read_failed", "interrupted", "delivery_failed", "cancelled"}
ChunkStatuses == {"none", "pending", "sending", "sent", "failed", "uncertain", "cancelled"}

\* The rows keep their columns' values; an active task has an approved revision.
TypeOK ==
    /\ task.status \in {"draft", "active", "paused", "attention", "completed", "rejected"}
    /\ task.approval \in {"pending", "approved", "rejected"}
    /\ task.active \in 0..task.revision
    /\ task.status = "active" => task.active > 0
    /\ \A r \in Runs : /\ runs[r].status \in RunStatuses
                       /\ \A i \in Chunks : runs[r].chunk[i] \in ChunkStatuses
    /\ lease.token \in Runners \cup {"nobody"}
    /\ \A p \in Runners : work[p].run \in Runs \cup {0}

\* "one outstanding occurrence per task" (docs/scheduled-tasks.md:215): the conditions of
\* claim, recover and retry_delivery, with stale processes about, are enough.  The unique
\* index scheduled_task_single_run, left out here, never has to refuse a write.
OneOutstanding == Cardinality(Outstanding) <= 1

\* A run ends once: the late end of a worker that outlived its lease, or was cancelled
\* with its task, never touches a run that was recovered, withdrawn or finished.  Only a
\* run that was withdrawn while a message was being sent may be found by recover, which
\* calls it interrupted (storage/scheduled_tasks.py:430-446).
EndedRunsStayEnded ==
    [][\A r \in Runs : runs[r].status \notin {"absent", "running", "delivery", "delivery_failed"} =>
            \/ runs'[r].status = runs[r].status
            \/ runs[r].status = "cancelled" /\ runs'[r].status = "interrupted"]_vars

\* A run saves comparison state only over the state it has read, so an answer, a reset or
\* another run's result that came in between is never overwritten.
NoLostUpdate ==
    [][\A r \in Runs : runs'[r].saved /\ ~runs[r].saved => runs[r].input = task.state]_vars

\* "The reported-change baseline advances only after all destination messages succeed"
\* (docs/scheduled-tasks.md:259): each message of a run whose state is saved was posted.
BaselineFollowsPublication ==
    \A r \in Runs : runs[r].saved =>
        \A i \in Chunks : runs[r].chunk[i] # "none" => runs[r].posted[i] > 0

\* No destination message is posted twice by retries, restarts and recoveries.
OnePostPerChunk == \A r \in Runs, i \in Chunks : runs[r].posted[i] <= 1

\* "chunks within a run stay ordered" (docs/configuration.md:485).
ChunksOrdered(r) ==
    \A i \in Chunks : runs[r].posted[i] > 0 => \A j \in 1..(i - 1) : runs[r].posted[j] > 0

\* A message is never posted before the one it follows, in a run whose publisher was not
\* stopped between its record of a failure and the pause that answers it: the next one
\* would go on after the failed message.
UntornIsOrdered == \A r \in Runs : ~runs[r].torn => ChunksOrdered(r)

\* A claimed run ends or publishes to its end, unless the user has to act first or its
\* worker or publisher was stopped between two writes.
RunsSettle ==
    \A r \in Runs : runs[r].status \in {"running", "delivery"} ~>
        runs[r].status \notin {"running", "delivery"} \/ task.status # "active" \/ runs[r].torn

=============================================================================
