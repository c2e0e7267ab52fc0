--------------------------- MODULE CodingDelivery ---------------------------
(***************************************************************************)
(* Delivery of coding-task results to Discord (bot/app/coding_delivery.py  *)
(* with the _notify half of bot/app/coding_tasks.py).  Several coroutines  *)
(* may publish one task at the same time; each holds the task's delivery   *)
(* lock while it paints the status message and posts the final reply, and  *)
(* takes the conversation root for the reply itself.  Workers are reduced  *)
(* to what delivery sees of them; CodingTasks models them in full.         *)
(*                                                                         *)
(* One conversation root is shared by all tasks.  A request that was cut   *)
(* off by a cancellation or a crash has reached Discord or never does.     *)
(***************************************************************************)
EXTENDS CodingTaskStore

CONSTANTS MaxReplies,   \* bound: final replies ever posted for one task
          MaxRestarts   \* bound: process restarts

ASSUME DeliveryAssumption == MaxReplies \in Nat \ {0} /\ MaxRestarts \in Nat

VARIABLES
    pub,          \* what each publisher of each task is doing
    status,       \* the status message: none, posted, or posted and recorded
    replies,      \* complete final replies visible in the channel
    transcript,   \* the final reply is persisted in the conversation
    blind,        \* a recovery search could not see a reply that was there
    turn,         \* a foreground turn and the conversation root it holds
    called,       \* the task its cancel tool is waiting for, 0 if none
    restarts

vars == <<rows, pub, status, replies, transcript, blind, turn, called, restarts>>
discord == <<status, replies, transcript, blind>>
foreground == <<turn, called, restarts>>

\* notifier: the _publishers slot; sweeper: the _delivery_retries slot;
\* worker: a live worker and its finalizer; canceller: cancel_task.
Publishers == {"notifier", "sweeper", "worker", "canceller"}
\* Places at which a publisher holds coding-delivery:{id}, and the root.
RootPlaces == {"replying", "sending", "recording", "committing", "clearing"}
LockPlaces == {"status", "marking", "result"} \cup RootPlaces
Places == {"idle", "due", "queued", "reporting"} \cup LockPlaces
Views == {"live", "settled", "delivered"}

Idle == [at |-> "idle", owed |-> FALSE, view |-> "live"]
Publisher == [at : Places,
              owed : BOOLEAN,    \* the snapshot given to _notify was terminal
              view : Views]      \* the row as refreshed under the lock

At(t, a) == pub[t][a].at
Quiet(t) == \A a \in Publishers : At(t, a) = "idle"
LockFree(t) == \A a \in Publishers : At(t, a) \notin LockPlaces
RootFree == /\ turn = "idle"
            /\ \A t \in Tasks, a \in Publishers : At(t, a) \notin RootPlaces
Erased(t) == rows[t].status = "absent"

Go(t, a, place) == pub' = [pub EXCEPT ![t][a].at = place]
Wake(t, a) == IF At(t, a) = "idle" THEN Go(t, a, "due") ELSE UNCHANGED pub

\* Updates that match no row change nothing.
TryMarkStatus(t) == IF Erased(t) THEN UNCHANGED rows ELSE MarkStatusMessage(t)
TryDeliver(t) == IF Terminal(t) THEN MarkDelivered(t) ELSE UNCHANGED rows
TryFail(t, giveUp) ==
    IF OwesFinal(t) THEN RecordDeliveryFailure(t, giveUp) ELSE UNCHANGED rows

Init ==
    /\ rows = [t \in Tasks |-> [AbsentRow EXCEPT !.status = "queued", !.handoff = TRUE]]
    /\ pub = [t \in Tasks |-> [a \in Publishers |-> Idle]]
    /\ status = [t \in Tasks |-> "none"]
    /\ replies = [t \in Tasks |-> 0]
    /\ transcript = [t \in Tasks |-> FALSE]
    /\ blind = [t \in Tasks |-> FALSE]
    /\ turn = "idle" /\ called = 0 /\ restarts = 0

-----------------------------------------------------------------------------
(* _notify: who publishes, and what a newer publisher does to the notifier. *)

\* The row a publisher was handed: the sweeper and cancel_task pass settled
\* rows, a notifier spawned by release_handoff still carries the queued one.
Snapshots(t, a) ==
    CASE a \in {"sweeper", "canceller"} -> {TRUE}
      [] a = "notifier" -> {FALSE, Terminal(t)}
      [] OTHER -> {Terminal(t)}

\* A settled row cancels the pending notifier, whose own request may just have
\* gone through, and is published now.
BeginSettled(t, a) ==
    /\ At(t, a) = "due" /\ TRUE \in Snapshots(t, a)
    /\ pub' = [pub EXCEPT ![t] =
          [b \in Publishers |->
              IF b = a THEN [Idle EXCEPT !.at = "queued", !.owed = TRUE]
              ELSE IF b = "notifier" THEN Idle ELSE @[b]]]
    /\ \/ UNCHANGED <<status, replies>>
       \/ /\ a # "notifier" /\ At(t, "notifier") = "status" /\ status[t] = "none"
          /\ status' = [status EXCEPT ![t] = "posted"] /\ UNCHANGED replies
       \/ /\ a # "notifier" /\ At(t, "notifier") = "sending" /\ replies[t] < MaxReplies
          /\ replies' = [replies EXCEPT ![t] = @ + 1] /\ UNCHANGED status
    /\ UNCHANGED <<rows, transcript, blind, foreground>>

\* A live row is published now, or left to a delayed notifier when the last
\* status is younger than coding_status_min_interval_seconds.
BeginLive(t, a) ==
    /\ At(t, a) = "due" /\ FALSE \in Snapshots(t, a)
    /\ \/ pub' = [pub EXCEPT ![t][a] = [Idle EXCEPT !.at = "queued"]]
       \/ /\ a # "notifier"
          /\ pub' = [pub EXCEPT ![t][a] = Idle,
                                ![t]["notifier"].at = IF @ = "idle" THEN "due" ELSE @]
    /\ UNCHANGED <<rows, discord, foreground>>

\* Seeded fault: only exceptions count as failed attempts.
Report_Silent(t, a) ==
    /\ At(t, a) = "reporting"
    /\ pub' = [pub EXCEPT ![t][a] = Idle]
    /\ UNCHANGED <<rows, discord, foreground>>

\* After publish returned or raised: a settled row that is still owed spends
\* one attempt.  The lock is free again here.  old: DELIVERY_MAX_AGE_SECONDS.
Report(t, a) ==
    /\ At(t, a) = "reporting"
    /\ IF pub[t][a].owed THEN \E old \in BOOLEAN : TryFail(t, old) ELSE UNCHANGED rows
    /\ pub' = [pub EXCEPT ![t][a] = Idle]
    /\ UNCHANGED <<discord, foreground>>

-----------------------------------------------------------------------------
(* publish and _publish_locked: the status message.                         *)

\* Take the delivery lock and refresh the row.
Acquire(t, a) ==
    /\ At(t, a) = "queued" /\ LockFree(t)
    /\ IF Erased(t) THEN Go(t, a, "reporting")
       ELSE pub' = [pub EXCEPT ![t][a] = [@ EXCEPT
              !.at = "status",
              !.view = IF rows[t].final THEN "delivered"
                       ELSE IF Terminal(t) THEN "settled" ELSE "live"]]
    /\ UNCHANGED <<rows, discord, foreground>>

\* The channel cannot be resolved or refuses the status; a permanent refusal
\* ends the retries of an owed result.
ChannelLost(t, a) ==
    /\ At(t, a) = "status"
    /\ \E permanent \in BOOLEAN :
          IF permanent THEN TryFail(t, TRUE) ELSE UNCHANGED rows
    /\ Go(t, a, "reporting")
    /\ UNCHANGED <<discord, foreground>>

\* Somebody else delivered meanwhile: only the status message goes.
AlreadyDelivered(t, a) ==
    /\ At(t, a) = "status" /\ pub[t][a].view = "delivered"
    /\ \/ status' = [status EXCEPT ![t] = "none"]
       \/ UNCHANGED status
    /\ Go(t, a, "reporting")
    /\ UNCHANGED <<rows, replies, transcript, blind, foreground>>

AfterStatus(t, a) == IF pub[t][a].view = "settled" THEN "result" ELSE "reporting"

\* Edit the recorded status message in place.
EditStatus(t, a) ==
    /\ At(t, a) = "status" /\ pub[t][a].view # "delivered" /\ status[t] = "known"
    /\ Go(t, a, AfterStatus(t, a))
    /\ UNCHANGED <<rows, discord, foreground>>

\* Find it by its marker, also when the edit failed, or post a new one.
PostStatus(t, a) ==
    /\ At(t, a) = "status" /\ pub[t][a].view # "delivered"
    /\ status' = [status EXCEPT ![t] = IF @ = "none" THEN "posted" ELSE @]
    /\ Go(t, a, "marking")
    /\ UNCHANGED <<rows, replies, transcript, blind, foreground>>

MarkStatus(t, a) ==
    /\ At(t, a) = "marking"
    /\ TryMarkStatus(t)
    /\ status' = [status EXCEPT ![t] = "known"]
    /\ Go(t, a, AfterStatus(t, a))
    /\ UNCHANGED <<replies, transcript, blind, foreground>>

-----------------------------------------------------------------------------
(* _publish_locked: the final reply, under the conversation root.           *)

\* Seeded fault: the row is not read again under the root.
EnterRoot_Stale(t, a) ==
    /\ At(t, a) = "result" /\ RootFree
    /\ Go(t, a, "replying")
    /\ UNCHANGED <<rows, discord, foreground>>

\* A deletion that got the root first took the row with it.
EnterRoot(t, a) ==
    /\ At(t, a) = "result" /\ RootFree
    /\ Go(t, a, IF Erased(t) THEN "reporting" ELSE "replying")
    /\ UNCHANGED <<rows, discord, foreground>>

\* Seeded fault: the reply is sent without a search.
SearchReply_Skipped(t, a) ==
    /\ At(t, a) = "replying"
    /\ Go(t, a, "sending")
    /\ UNCHANGED <<rows, discord, foreground>>

\* find_result_delivery recovers a complete earlier reply, unless the history is
\* unreadable or too long to show it.
SearchReply(t, a) ==
    /\ At(t, a) = "replying"
    /\ \/ /\ replies[t] > 0
          /\ Go(t, a, "recording") /\ UNCHANGED blind
       \/ /\ Go(t, a, "sending")
          /\ blind' = [blind EXCEPT ![t] = @ \/ replies[t] > 0]
    /\ UNCHANGED <<rows, status, replies, transcript, foreground>>

SendReply(t, a) ==
    /\ At(t, a) = "sending" /\ replies[t] < MaxReplies
    /\ replies' = [replies EXCEPT ![t] = @ + 1]
    /\ Go(t, a, "recording")
    /\ UNCHANGED <<rows, status, transcript, blind, foreground>>

\* The reply is refused, wholly or in part; what was sent of it is removed.
ReplyFails(t, a) ==
    /\ At(t, a) = "sending"
    /\ \E permanent \in BOOLEAN :
          IF permanent THEN TryFail(t, TRUE) ELSE UNCHANGED rows
    /\ Go(t, a, "reporting")
    /\ UNCHANGED <<discord, foreground>>

\* Seeded fault: the delivered mark is written before the transcript.
RecordTranscript_Late(t, a) ==
    /\ At(t, a) = "recording"
    /\ TryDeliver(t)
    /\ Go(t, a, "committing")
    /\ UNCHANGED <<status, replies, transcript, blind, foreground>>

\* _commit_final_delivery: transcript, then the delivered mark, then the
\* status message.
RecordTranscript(t, a) ==
    /\ At(t, a) = "recording"
    /\ transcript' = [transcript EXCEPT ![t] = TRUE]
    /\ Go(t, a, "committing")
    /\ UNCHANGED <<rows, status, replies, blind, foreground>>

CommitDelivery(t, a) ==
    /\ At(t, a) = "committing"
    /\ TryDeliver(t)
    /\ Go(t, a, "clearing")
    /\ UNCHANGED <<discord, foreground>>

ClearStatus(t, a) ==
    /\ At(t, a) = "clearing"
    /\ \/ status' = [status EXCEPT ![t] = "none"]
       \/ UNCHANGED status
    /\ Go(t, a, "reporting")
    /\ UNCHANGED <<rows, replies, transcript, blind, foreground>>

Publish(t, a) ==
    \/ BeginSettled(t, a) \/ BeginLive(t, a) \/ Report(t, a)
    \/ Acquire(t, a) \/ ChannelLost(t, a) \/ AlreadyDelivered(t, a)
    \/ EditStatus(t, a) \/ PostStatus(t, a) \/ MarkStatus(t, a)
    \/ EnterRoot(t, a) \/ SearchReply(t, a) \/ SendReply(t, a) \/ ReplyFails(t, a)
    \/ RecordTranscript(t, a) \/ CommitDelivery(t, a) \/ ClearStatus(t, a)

-----------------------------------------------------------------------------
(* What makes rows ready to publish.                                        *)

\* release_handoff: the notifier is spawned, not awaited.
ReleaseAndNotify(t) ==
    /\ ReleaseHandoff(t)
    /\ Wake(t, "notifier")
    /\ UNCHANGED <<discord, foreground>>

AbandonStart(t) == AbandonHandoff(t) /\ UNCHANGED <<pub, discord, foreground>>

WorkerStarts(t) ==
    /\ At(t, "worker") = "idle"
    /\ ClaimNext(t, {})
    /\ UNCHANGED <<pub, discord, foreground>>

\* set_plan, set_progress, request_input, start_job: _notify_id of a live row.
WorkerNotifies(t) ==
    /\ rows[t].status = "running" /\ At(t, "worker") = "idle"
    /\ Go(t, "worker", "due")
    /\ UNCHANGED <<rows, discord, foreground>>

WorkerPauses(t) ==
    /\ At(t, "worker") = "idle"
    /\ Transition(t, {"running"}, "waiting_for_input")
    /\ UNCHANGED <<pub, discord, foreground>>

\* The worker settles its row and its finalizer publishes the result.
WorkerFinishes(t) ==
    /\ rows[t].status \in {"running", "cancelling"} /\ At(t, "worker") = "idle"
    /\ Finish(t, "completed")
    /\ Go(t, "worker", "due")
    /\ UNCHANGED <<discord, foreground>>

\* The scheduler's sweep over overdue pauses and over owed results.
SweepExpired(t) ==
    /\ ExpireWaiting(t)
    /\ Wake(t, "sweeper")
    /\ UNCHANGED <<discord, foreground>>
SweepOwed(t) ==
    /\ Terminal(t) /\ OwesFinal(t) /\ At(t, "sweeper") = "idle"
    /\ Go(t, "sweeper", "due")
    /\ UNCHANGED <<rows, discord, foreground>>

\* cancel_task: a task without a worker settles at once and is announced by the
\* canceller itself; a running one is announced by its worker.
CancelTask(t) ==
    /\ Active(t) /\ At(t, "canceller") = "idle"
    /\ RequestCancel(t)
    /\ IF rows[t].status \in {"queued", "waiting_for_input"}
         THEN Go(t, "canceller", "due") ELSE UNCHANGED pub
    /\ UNCHANGED discord

Stop(t) == CancelTask(t) /\ UNCHANGED foreground

\* coding_task_retry_delivery.
RetryDelivery(t) == ResetDeliveryRetry(t) /\ UNCHANGED <<pub, discord, foreground>>

\* Deleting a participant's conversations, under their roots, takes the settled
\* rows of other members along.
EraseConversation ==
    /\ RootFree
    /\ \A t \in Tasks : Terminal(t) \/ Erased(t)
    /\ \E t \in Tasks : ~Erased(t)
    /\ rows' = [t \in Tasks |-> AbsentRow]
    /\ UNCHANGED <<pub, discord, foreground>>

-----------------------------------------------------------------------------
(* A foreground turn of the conversation.  Its tools run in a child task, so *)
(* the root it holds is not reentrant for them.                             *)

TurnBegins ==
    /\ RootFree /\ turn' = "holding"
    /\ UNCHANGED <<rows, pub, discord, called, restarts>>

\* coding_task_cancel for a task of the same conversation.
TurnCancels(t) ==
    /\ turn = "holding" /\ called = 0
    /\ CancelTask(t)
    /\ called' = t
    /\ UNCHANGED <<turn, restarts>>

TurnHearsBack ==
    /\ called # 0 /\ At(called, "canceller") = "idle"
    /\ called' = 0
    /\ UNCHANGED <<rows, pub, discord, turn, restarts>>

\* react_turn_timeout_seconds: the turn goes on, the tool stays behind.
TurnTimesOut ==
    /\ called # 0
    /\ called' = 0
    /\ UNCHANGED <<rows, pub, discord, turn, restarts>>

TurnEnds ==
    /\ turn = "holding" /\ called = 0
    /\ turn' = "idle"
    /\ UNCHANGED <<rows, pub, discord, called, restarts>>

\* The process ends anywhere and the next one recovers the rows.
Restart ==
    /\ restarts < MaxRestarts
    /\ restarts' = restarts + 1
    /\ RecoverInterrupted
    /\ pub' = [t \in Tasks |-> [a \in Publishers |-> Idle]]
    /\ turn' = "idle" /\ called' = 0
    /\ UNCHANGED discord

Rest(t) ==
    \/ ReleaseAndNotify(t) \/ AbandonStart(t)
    \/ WorkerStarts(t) \/ WorkerNotifies(t) \/ WorkerPauses(t) \/ WorkerFinishes(t)
    \/ SweepExpired(t) \/ SweepOwed(t) \/ Stop(t) \/ RetryDelivery(t) \/ TurnCancels(t)

Next ==
    \/ \E t \in Tasks : Rest(t) \/ \E a \in Publishers : Publish(t, a)
    \/ EraseConversation
    \/ TurnBegins \/ TurnHearsBack \/ TurnTimesOut \/ TurnEnds \/ Restart

Spec == Init /\ [][Next]_vars

\* Coroutines are scheduled, asyncio.Lock hands over in FIFO order, the
\* scheduler keeps sweeping and a turn ends at its deadline at the latest.
Fairness ==
    /\ \A t \in Tasks, a \in Publishers :
          /\ WF_vars(Publish(t, a))
          /\ SF_vars(Acquire(t, a)) /\ SF_vars(EnterRoot(t, a))
    /\ \A t \in Tasks : WF_vars(SweepOwed(t))
    /\ WF_vars(TurnHearsBack) /\ WF_vars(TurnTimesOut) /\ WF_vars(TurnEnds)

FairSpec == Spec /\ Fairness

-----------------------------------------------------------------------------
(* Properties.                                                              *)

TypeOK ==
    /\ StoreTypeOK
    /\ pub \in [Tasks -> [Publishers -> Publisher]]
    /\ status \in [Tasks -> {"none", "posted", "known"}]
    /\ replies \in [Tasks -> 0..MaxReplies]
    /\ transcript \in [Tasks -> BOOLEAN]
    /\ blind \in [Tasks -> BOOLEAN]
    /\ turn \in {"idle", "holding"} /\ called \in {0} \cup Tasks
    /\ restarts \in 0..MaxRestarts

\* A result is posted once, although four coroutines and any number of restarts
\* may try to deliver it, unless a recovery search was blind to the earlier
\* reply ("a stale retry cannot send a second final response",
\* coding_delivery.py 141-144).
OneReplyPerResult == \A t \in Tasks : replies[t] > 1 => blind[t]

\* A result marked delivered is visible in the channel and in the transcript:
\* a crash anywhere inside the commit leaves it owed rather than lost
\* (_commit_final_delivery, coding_delivery.py 331-356).
DeliveredIsRecorded == \A t \in Tasks : rows[t].final => replies[t] > 0 /\ transcript[t]

\* No reply is posted for a task whose row a deletion has taken away
\* (coding_delivery.py 274-281).
NoReplyAfterErasure ==
    [][\A t \in Tasks : replies'[t] > replies[t] => ~Erased(t)]_vars

\* Every owed result is eventually delivered, given up or erased; no lock, no
\* foreground turn and no competing publisher blocks the retries for good.
OwedResultSettles == \A t \in Tasks : OwesFinal(t) ~> ~OwesFinal(t)

=============================================================================
