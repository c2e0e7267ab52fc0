-------------------------- MODULE CodingTaskStore --------------------------
(***************************************************************************)
(* The durable rows of coding_tasks and every method of CodingTaskStore    *)
(* that moves one (bot/storage/coding_tasks.py).  A method runs inside one *)
(* write transaction, so it is one atomic step here.  StoreSpec lets any   *)
(* caller invoke any method at any time: it is the promise the store makes *)
(* by itself, and the specification that CodingTasks (scheduler, workers,  *)
(* stop requests) is shown to implement.  CodingDelivery (publishers)      *)
(* writes its rows with the actions below.                                 *)
(***************************************************************************)
EXTENDS Naturals, FiniteSets

CONSTANTS
    NumTasks,        \* tasks are numbered in the order of created_at
    Workspaces,
    WorkspaceOf,     \* workspace_key of a task
    MaxQueued,       \* coding_task_max_queued_per_workspace
    MaxAttempts,     \* DELIVERY_MAX_ATTEMPTS
    MaxSteers        \* bound: steering messages one task receives

ASSUME StoreAssumption ==
    /\ NumTasks \in Nat
    /\ WorkspaceOf \in [1..NumTasks -> Workspaces]
    /\ MaxQueued \in Nat \ {0}
    /\ MaxAttempts \in Nat \ {0}
    /\ MaxSteers \in Nat

VARIABLE rows        \* the coding_tasks table

Tasks == 1..NumTasks

ActiveStatuses == {"queued", "recovering", "running", "waiting_for_job",
                   "waiting_for_input", "cancelling"}
TerminalStatuses == {"completed", "failed", "cancelled", "timed_out"}
\* The statuses that make claim_next treat a workspace as taken.
WritingStatuses == {"recovering", "running", "waiting_for_job", "cancelling"}
DeliveryStates == {"pending", "status_sent", "final_pending", "delivered", "failed"}

Row == [ status   : ActiveStatuses \cup TerminalStatuses \cup {"absent"},
         cancel   : BOOLEAN,            \* cancel_requested
         handoff  : BOOLEAN,            \* handoff_pending
         delivery : DeliveryStates,
         final    : BOOLEAN,            \* final_discord_message_id IS NOT NULL
         attempts : 0..MaxAttempts,     \* delivery_retry.attempts
         steers   : 0..MaxSteers,       \* steering events in the journal
         cursor   : 0..MaxSteers ]      \* event_cursor of the checkpoint

AbsentRow == [status |-> "absent", cancel |-> FALSE, handoff |-> FALSE,
              delivery |-> "pending", final |-> FALSE, attempts |-> 0,
              steers |-> 0, cursor |-> 0]

Active(t) == rows[t].status \in ActiveStatuses
Terminal(t) == rows[t].status \in TerminalStatuses
QueuedIn(w) == {t \in Tasks : rows[t].status = "queued" /\ WorkspaceOf[t] = w}
QueueHasRoom(w) == Cardinality(QueuedIn(w)) < MaxQueued

\* UPDATE coding_tasks SET ... WHERE id = t
Write(t, r) == rows' = [rows EXCEPT ![t] = r]

StoreInit == rows = [t \in Tasks |-> AbsentRow]

-----------------------------------------------------------------------------
(* Admission and the foreground handoff.                                    *)

\* create_task: the next id, held back until its handoff is released.  A full
\* queue raises CodingTaskQueueFull and writes nothing.
CreateTask(t) ==
    /\ rows[t].status = "absent"
    /\ \A u \in Tasks : u < t => rows[u].status # "absent"
    /\ QueueHasRoom(WorkspaceOf[t])
    /\ Write(t, [AbsentRow EXCEPT !.status = "queued", !.handoff = TRUE])

\* release_handoff: only a still queued, uncancelled row becomes claimable.
ReleaseHandoff(t) ==
    /\ rows[t].status = "queued" /\ rows[t].handoff /\ ~rows[t].cancel
    /\ Write(t, [rows[t] EXCEPT !.handoff = FALSE])

\* abandon_handoff: the foreground turn ended first; nobody is owed a result.
AbandonHandoff(t) ==
    /\ rows[t].status = "queued" /\ rows[t].handoff
    /\ Write(t, [rows[t] EXCEPT !.status = "cancelled", !.cancel = TRUE,
                            !.handoff = FALSE, !.delivery = "delivered"])

-----------------------------------------------------------------------------
(* Claiming.                                                                *)

Runnable(t) == rows[t].status = "queued" /\ ~rows[t].cancel /\ ~rows[t].handoff

\* The two NOT EXISTS clauses of claim_next.
Claimable(t, excluded) ==
    /\ Runnable(t) /\ t \notin excluded
    /\ \A u \in Tasks \ {t} : WorkspaceOf[u] = WorkspaceOf[t] =>
          /\ rows[u].status \notin WritingStatuses
          /\ ~(u < t /\ rows[u].status = "queued" /\ ~rows[u].cancel)

\* claim_next: the oldest claimable task, excluding live in-process workers.
ClaimNext(t, excluded) ==
    /\ Claimable(t, excluded)
    /\ \A u \in Tasks : Claimable(u, excluded) => t <= u
    /\ Write(t, [rows[t] EXCEPT !.status = "running"])

\* release_claim: compare-and-set, so a cancel that landed first wins.
ReleaseClaim(t) ==
    /\ rows[t].status = "running"
    /\ Write(t, [rows[t] EXCEPT !.status = "queued"])

-----------------------------------------------------------------------------
(* Steering, progress and status changes of a live task.                    *)

\* steer_active_task: appends the message; a paused task re-enters the queue,
\* unless the queue is full, when the whole transaction is refused.
Steer(t) ==
    /\ Active(t) /\ ~rows[t].cancel /\ rows[t].steers < MaxSteers
    /\ rows[t].status = "waiting_for_input" => QueueHasRoom(WorkspaceOf[t])
    /\ Write(t, [rows[t] EXCEPT
          !.steers = @ + 1,
          !.status = IF @ = "waiting_for_input" THEN "queued" ELSE @])

\* set_checkpoint: unconditional; c is the event cursor the worker reached.
SetCheckpoint(t, c) ==
    /\ rows[t].status # "absent"
    /\ Write(t, [rows[t] EXCEPT !.cursor = c])

\* transition_active_status: compare-and-set that a cancellation disables.
CanTransition(t, from) == rows[t].status \in from /\ ~rows[t].cancel
Transition(t, from, to) ==
    /\ CanTransition(t, from)
    /\ Write(t, [rows[t] EXCEPT !.status = to])

\* expire_waiting_for_input, for one overdue row.
ExpireWaiting(t) ==
    /\ rows[t].status = "waiting_for_input"
    /\ Write(t, [rows[t] EXCEPT !.status = "timed_out", !.delivery = "final_pending"])

-----------------------------------------------------------------------------
(* Settling.                                                                *)

\* request_cancel: queued and paused rows settle at once, other live rows
\* become cancelling, a terminal row only keeps the request.
RequestCancel(t) ==
    /\ rows[t].status # "absent"
    /\ LET settles == rows[t].status \in {"queued", "waiting_for_input"} IN
       Write(t, [rows[t] EXCEPT
          !.cancel = TRUE,
          !.handoff = FALSE,
          !.status = IF settles THEN "cancelled"
                        ELSE IF @ \in TerminalStatuses THEN @ ELSE "cancelling",
          !.delivery = IF settles THEN "final_pending" ELSE @])

\* Seeded fault: finish without reading cancel_requested.
Finish_IgnoresCancel(t, status) ==
    /\ Active(t)
    /\ Write(t, [rows[t] EXCEPT !.status = status, !.delivery = "final_pending"])

\* finish: once, and a requested cancellation overrides the worker's verdict.
Finish(t, status) ==
    /\ Active(t)
    /\ Write(t, [rows[t] EXCEPT
          !.status = IF rows[t].cancel THEN "cancelled" ELSE status,
          !.delivery = "final_pending"])

\* recover_interrupted: one transaction over every interrupted row at startup.
Recovered(r) ==
    IF r.status \notin WritingStatuses \cup {"waiting_for_input"} THEN r
    ELSE IF r.cancel THEN [r EXCEPT !.status = "cancelled", !.delivery = "final_pending"]
    ELSE IF r.status = "waiting_for_input" THEN r
    ELSE [r EXCEPT !.status = "queued"]
RecoverInterrupted == rows' = [t \in Tasks |-> Recovered(rows[t])]

-----------------------------------------------------------------------------
(* Delivery bookkeeping.                                                    *)

\* mark_status_message: keeps final_pending, overwrites every other state.
MarkStatusMessage(t) ==
    /\ rows[t].status # "absent"
    /\ Write(t, [rows[t] EXCEPT
          !.delivery = IF @ = "final_pending" THEN @ ELSE "status_sent"])

\* mark_delivered: unconditional; publishers call it for terminal rows only.
MarkDelivered(t) ==
    /\ Terminal(t)
    /\ Write(t, [rows[t] EXCEPT !.final = TRUE, !.delivery = "delivered"])

\* record_delivery_failure: only while a final result is owed.  giveUp stands
\* for a permanent Discord error or a result older than DELIVERY_MAX_AGE_SECONDS.
OwesFinal(t) == rows[t].delivery = "final_pending" /\ ~rows[t].final
\* Seeded fault: off by one at the attempt limit.
RecordDeliveryFailure_OffByOne(t, giveUp) ==
    /\ OwesFinal(t)
    /\ LET attempts == rows[t].attempts + 1 IN
       Write(t, [rows[t] EXCEPT
          !.attempts = attempts,
          !.delivery = IF giveUp \/ attempts > MaxAttempts
                          THEN "failed" ELSE "final_pending"])
RecordDeliveryFailure(t, giveUp) ==
    /\ OwesFinal(t)
    /\ LET attempts == rows[t].attempts + 1 IN
       Write(t, [rows[t] EXCEPT
          !.attempts = attempts,
          !.delivery = IF giveUp \/ attempts >= MaxAttempts
                          THEN "failed" ELSE "final_pending"])

\* reset_delivery_retry: the member asks for another round of attempts.
ResetDeliveryRetry(t) ==
    /\ Terminal(t) /\ ~rows[t].final /\ rows[t].delivery = "failed"
    /\ Write(t, [rows[t] EXCEPT !.attempts = 0, !.delivery = "final_pending"])

-----------------------------------------------------------------------------
StoreNext ==
    \/ \E t \in Tasks :
          \/ CreateTask(t) \/ ReleaseHandoff(t) \/ AbandonHandoff(t)
          \/ \E excluded \in SUBSET Tasks : ClaimNext(t, excluded)
          \/ ReleaseClaim(t) \/ Steer(t)
          \/ \E c \in 0..rows[t].steers : SetCheckpoint(t, c)
          \/ \E to \in ActiveStatuses \ {"cancelling"} : Transition(t, ActiveStatuses, to)
          \/ ExpireWaiting(t) \/ RequestCancel(t)
          \/ \E status \in TerminalStatuses : Finish(t, status)
          \/ MarkStatusMessage(t) \/ MarkDelivered(t)
          \/ \E giveUp \in BOOLEAN : RecordDeliveryFailure(t, giveUp)
          \/ ResetDeliveryRetry(t)
    \/ RecoverInterrupted

StoreSpec == StoreInit /\ [][StoreNext]_rows

-----------------------------------------------------------------------------
(* What the store promises whoever calls it.                                *)

\* Every row has the columns' types.
StoreTypeOK == rows \in [Tasks -> Row]

\* The two records of a stop request agree: an unsettled row with cancel_requested is
\* cancelling, and only a stop request makes a row cancelling.  claim_next and
\* finish each look at one of the two (coding_tasks.py 343-402, 755-800).
CancelAgrees ==
    \A t \in Tasks : ~Terminal(t) => (rows[t].cancel <=> rows[t].status = "cancelling")

\* A final reply is owed, retried or given up on only for a settled task, so
\* the delivery sweeper never announces a task that is still running.
OnlySettledIsOwed ==
    \A t \in Tasks : (rows[t].delivery \in {"final_pending", "failed"} \/ rows[t].final)
                         => Terminal(t)

\* A delivery the sweeper still retries has attempts left: the tenth failure
\* stops the retries, and only a reset grants new ones.  No attempt is spent
\* before the task is settled, so a first result gets all of them.
RetryBudget ==
    \A t \in Tasks :
        /\ rows[t].delivery = "final_pending" => rows[t].attempts < MaxAttempts
        /\ ~Terminal(t) => rows[t].attempts = 0

StoreInv == StoreTypeOK /\ CancelAgrees /\ OnlySettledIsOwed /\ RetryBudget

\* "A terminal or delivered result cannot be replaced by a late worker"
\* (docs/coding-agent.md 111): no store call, in any order, changes a settled
\* status.
SettledOnce ==
    [][\A t \in Tasks : Terminal(t) => rows'[t].status = rows[t].status]_rows

\* A stop request is never withdrawn, and a task it reached while live can only
\* settle as cancelled, whatever verdict a worker or recovery brings later.
CancelWins ==
    [][\A t \in Tasks : rows[t].cancel =>
          /\ rows'[t].cancel
          /\ Active(t) => rows'[t].status \in {"cancelling", "cancelled"}]_rows

=============================================================================
