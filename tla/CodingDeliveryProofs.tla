------------------------ MODULE CodingDeliveryProofs ------------------------
(***************************************************************************)
(* Proofs about CodingDelivery, for any number of tasks, replies, attempts *)
(* and restarts: a result is posted once unless a search was blind to it,  *)
(* what is marked delivered is in the channel and in the transcript, no    *)
(* reply follows a deletion, and retries keep their budget.                *)
(*                                                                         *)
(* The argument: one publisher of a task at a time is behind its delivery  *)
(* lock (LockHeld).  Whoever sends has searched, and nobody else has sent  *)
(* since (SendsOnce); whoever commits has sent and recorded (Commits); and *)
(* whoever is under the conversation root still has a row (RootHeld),      *)
(* because a deletion needs the root.                                      *)
(***************************************************************************)
EXTENDS CodingDelivery, TLAPS

\* A row that owes, or has given up on, its final reply is settled, and one that is
\* retried has attempts left.
Good(r) ==
    /\ r \in Row
    /\ r.status \notin TerminalStatuses =>
          r.attempts = 0 /\ r.delivery \notin {"final_pending", "failed"} /\ ~r.final
    /\ r.delivery = "final_pending" => r.attempts < MaxAttempts

GoodRows == {r \in Row : Good(r)}

LockHeld ==
    \A t \in Tasks, a, b \in Publishers :
        At(t, a) \in LockPlaces /\ At(t, b) \in LockPlaces => a = b

SendsOnce ==
    \A t \in Tasks :
        /\ replies[t] > 1 => blind[t]
        /\ \A a \in Publishers : At(t, a) = "sending" /\ replies[t] > 0 => blind[t]

Commits ==
    \A t \in Tasks :
        /\ rows[t].final => replies[t] > 0 /\ transcript[t]
        /\ \A a \in Publishers :
              /\ At(t, a) \in {"recording", "committing"} => replies[t] > 0
              /\ At(t, a) = "committing" => transcript[t]

RootHeld == \A t \in Tasks, a \in Publishers : At(t, a) \in RootPlaces => ~Erased(t)

-----------------------------------------------------------------------------
(* The rows: every method writes a good row that is neither delivered nor    *)
(* taken away by it, except mark_delivered and the deletion.                 *)

\* The row keeps its final message id, and is not taken away.
SameFate(old, new) == new.final = old.final /\ (new.status = "absent" <=> old.status = "absent")
RowsKept ==
    /\ rows' \in [Tasks -> GoodRows]
    /\ \A u \in Tasks : SameFate(rows[u], rows'[u])

\* The bounds the code's limits give, in the form the leaves use.
LEMMA Bounds ==
    /\ MaxAttempts \in Nat /\ 0 < MaxAttempts /\ MaxSteers \in Nat /\ 0 \in 0..MaxAttempts
    /\ 0 \in 0..MaxSteers /\ MaxReplies \in Nat /\ 0 < MaxReplies /\ MaxRestarts \in Nat
  BY StoreAssumption, DeliveryAssumption

\* A row taken away is a good row: nobody is owed anything.
LEMMA AbsentGood == AbsentRow \in Row /\ Good(AbsentRow)
<1>1. AbsentRow \in Row
  BY Bounds DEF AbsentRow, Row, ActiveStatuses, TerminalStatuses, DeliveryStates
<1>. QED
  BY <1>1 DEF AbsentRow, Good, TerminalStatuses

\* A transaction that matches no row.
LEMMA RowsUnchanged ==
    ASSUME rows \in [Tasks -> GoodRows], UNCHANGED rows
    PROVE  RowsKept
  BY DEF RowsKept, SameFate

\* One UPDATE that writes a good row.
LEMMA WriteGood ==
    ASSUME rows \in [Tasks -> GoodRows], NEW t \in Tasks, NEW r,
           r \in Row, Good(r), SameFate(rows[t], r), Write(t, r)
    PROVE  RowsKept
  BY DEF Write, GoodRows, RowsKept, SameFate

\* release_handoff: a settled row stays settled, and only a settled row is owed.
LEMMA ReleaseHandoffKept ==
    ASSUME rows \in [Tasks -> GoodRows], NEW t \in Tasks, ReleaseHandoff(t)
    PROVE  RowsKept
<1>. DEFINE r == [rows[t] EXCEPT !.handoff = FALSE]
<1>1. rows[t] \in Row /\ Good(rows[t])
  BY DEF GoodRows
<1>2. r \in Row
  BY <1>1, Bounds
     DEF ReleaseHandoff, Good, Row, ActiveStatuses, TerminalStatuses, DeliveryStates
<1>3. Good(r) /\ SameFate(rows[t], r)
  BY <1>1, <1>2, Bounds
     DEF ReleaseHandoff, Good, SameFate, Row, ActiveStatuses, TerminalStatuses,
         DeliveryStates
<1>4. Write(t, r)
  BY DEF ReleaseHandoff
<1>. QED
  BY <1>2, <1>3, <1>4, WriteGood

\* abandon_handoff: a settled row stays settled, and only a settled row is owed.
LEMMA AbandonHandoffKept ==
    ASSUME rows \in [Tasks -> GoodRows], NEW t \in Tasks, AbandonHandoff(t)
    PROVE  RowsKept
<1>. DEFINE r == [rows[t] EXCEPT !.status = "cancelled", !.cancel = TRUE,
                              !.handoff = FALSE, !.delivery = "delivered"]
<1>1. rows[t] \in Row /\ Good(rows[t])
  BY DEF GoodRows
<1>2. r \in Row
  BY <1>1, Bounds
     DEF AbandonHandoff, Good, Row, ActiveStatuses, TerminalStatuses, DeliveryStates
<1>3. Good(r) /\ SameFate(rows[t], r)
  BY <1>1, <1>2, Bounds
     DEF AbandonHandoff, Good, SameFate, Row, ActiveStatuses, TerminalStatuses,
         DeliveryStates
<1>4. Write(t, r)
  BY DEF AbandonHandoff
<1>. QED
  BY <1>2, <1>3, <1>4, WriteGood

\* claim_next: a settled row stays settled, and only a settled row is owed.
LEMMA ClaimNextKept ==
    ASSUME rows \in [Tasks -> GoodRows], NEW t \in Tasks, ClaimNext(t, {})
    PROVE  RowsKept
<1>. DEFINE r == [rows[t] EXCEPT !.status = "running"]
<1>1. rows[t] \in Row /\ Good(rows[t])
  BY DEF GoodRows
<1>2. r \in Row
  BY <1>1, Bounds
     DEF ClaimNext, Good, Claimable, Runnable, Row, ActiveStatuses, TerminalStatuses,
         DeliveryStates
<1>3. Good(r) /\ SameFate(rows[t], r)
  BY <1>1, <1>2, Bounds
     DEF ClaimNext, Good, Claimable, Runnable, SameFate, Row, ActiveStatuses,
         TerminalStatuses, DeliveryStates
<1>4. Write(t, r)
  BY DEF ClaimNext
<1>. QED
  BY <1>2, <1>3, <1>4, WriteGood

\* transition_active_status: a settled row stays settled, and only a settled row is owed.
LEMMA TransitionKept ==
    ASSUME rows \in [Tasks -> GoodRows], NEW t \in Tasks, Transition(t, {"running"}, "waiting_for_input")
    PROVE  RowsKept
<1>. DEFINE r == [rows[t] EXCEPT !.status = "waiting_for_input"]
<1>1. rows[t] \in Row /\ Good(rows[t])
  BY DEF GoodRows
<1>2. r \in Row
  BY <1>1, Bounds
     DEF Transition, Good, CanTransition, Row, ActiveStatuses, TerminalStatuses,
         DeliveryStates
<1>3. Good(r) /\ SameFate(rows[t], r)
  BY <1>1, <1>2, Bounds
     DEF Transition, Good, CanTransition, SameFate, Row, ActiveStatuses, TerminalStatuses,
         DeliveryStates
<1>4. Write(t, r)
  BY DEF Transition
<1>. QED
  BY <1>2, <1>3, <1>4, WriteGood

\* expire_waiting_for_input: a settled row stays settled, and only a settled row is owed.
LEMMA ExpireWaitingKept ==
    ASSUME rows \in [Tasks -> GoodRows], NEW t \in Tasks, ExpireWaiting(t)
    PROVE  RowsKept
<1>. DEFINE r == [rows[t] EXCEPT !.status = "timed_out", !.delivery = "final_pending"]
<1>1. rows[t] \in Row /\ Good(rows[t])
  BY DEF GoodRows
<1>2. r \in Row
  BY <1>1, Bounds
     DEF ExpireWaiting, Good, Row, ActiveStatuses, TerminalStatuses, DeliveryStates
<1>3. Good(r) /\ SameFate(rows[t], r)
  BY <1>1, <1>2, Bounds
     DEF ExpireWaiting, Good, SameFate, Row, ActiveStatuses, TerminalStatuses,
         DeliveryStates
<1>4. Write(t, r)
  BY DEF ExpireWaiting
<1>. QED
  BY <1>2, <1>3, <1>4, WriteGood

\* request_cancel: a settled row stays settled, and only a settled row is owed.
LEMMA RequestCancelKept ==
    ASSUME rows \in [Tasks -> GoodRows], NEW t \in Tasks, RequestCancel(t)
    PROVE  RowsKept
<1>. DEFINE r == [rows[t] EXCEPT
          !.cancel = TRUE,
          !.handoff = FALSE,
          !.status = IF rows[t].status \in {"queued", "waiting_for_input"} THEN "cancelled"
                        ELSE IF @ \in TerminalStatuses THEN @ ELSE "cancelling",
          !.delivery = IF rows[t].status \in {"queued", "waiting_for_input"}
                          THEN "final_pending" ELSE @]
<1>1. rows[t] \in Row /\ Good(rows[t])
  BY DEF GoodRows
<1>2. r \in Row
  BY <1>1, Bounds
     DEF RequestCancel, Good, Row, ActiveStatuses, TerminalStatuses, DeliveryStates
<1>3. Good(r) /\ SameFate(rows[t], r)
  BY <1>1, <1>2, Bounds
     DEF RequestCancel, Good, SameFate, Row, ActiveStatuses, TerminalStatuses,
         DeliveryStates
<1>4. Write(t, r)
  BY DEF RequestCancel
<1>. QED
  BY <1>2, <1>3, <1>4, WriteGood

\* finish: a settled row stays settled, and only a settled row is owed.
LEMMA FinishKept ==
    ASSUME rows \in [Tasks -> GoodRows], NEW t \in Tasks, Finish(t, "completed")
    PROVE  RowsKept
<1>. DEFINE r == [rows[t] EXCEPT
          !.status = IF rows[t].cancel THEN "cancelled" ELSE "completed",
          !.delivery = "final_pending"]
<1>1. rows[t] \in Row /\ Good(rows[t])
  BY DEF GoodRows
<1>2. r \in Row
  BY <1>1, Bounds
     DEF Finish, Good, Active, Row, ActiveStatuses, TerminalStatuses, DeliveryStates
<1>3. Good(r) /\ SameFate(rows[t], r)
  BY <1>1, <1>2, Bounds
     DEF Finish, Good, Active, SameFate, Row, ActiveStatuses, TerminalStatuses,
         DeliveryStates
<1>4. Write(t, r)
  BY DEF Finish
<1>. QED
  BY <1>2, <1>3, <1>4, WriteGood

\* mark_status_message: a settled row stays settled, and only a settled row is owed.
LEMMA MarkStatusMessageKept ==
    ASSUME rows \in [Tasks -> GoodRows], NEW t \in Tasks, MarkStatusMessage(t)
    PROVE  RowsKept
<1>. DEFINE r == [rows[t] EXCEPT
          !.delivery = IF @ = "final_pending" THEN @ ELSE "status_sent"]
<1>1. rows[t] \in Row /\ Good(rows[t])
  BY DEF GoodRows
<1>2. r \in Row
  BY <1>1, Bounds
     DEF MarkStatusMessage, Good, Row, ActiveStatuses, TerminalStatuses, DeliveryStates
<1>3. Good(r) /\ SameFate(rows[t], r)
  BY <1>1, <1>2, Bounds
     DEF MarkStatusMessage, Good, SameFate, Row, ActiveStatuses, TerminalStatuses,
         DeliveryStates
<1>4. Write(t, r)
  BY DEF MarkStatusMessage
<1>. QED
  BY <1>2, <1>3, <1>4, WriteGood

\* record_delivery_failure: a settled row stays settled, and only a settled row is owed.
LEMMA RecordDeliveryFailureKept ==
    ASSUME rows \in [Tasks -> GoodRows], NEW t \in Tasks, NEW giveUp \in BOOLEAN, RecordDeliveryFailure(t, giveUp)
    PROVE  RowsKept
<1>. DEFINE r == [rows[t] EXCEPT
          !.attempts = rows[t].attempts + 1,
          !.delivery = IF giveUp \/ rows[t].attempts + 1 >= MaxAttempts
                          THEN "failed" ELSE "final_pending"]
<1>1. rows[t] \in Row /\ Good(rows[t])
  BY DEF GoodRows
<1>2. r \in Row
  <2>1. rows[t].attempts + 1 \in 0..MaxAttempts
    BY <1>1, Bounds DEF RecordDeliveryFailure, OwesFinal, Good, Row
  <2>. QED
    BY <1>1, <2>1, Zenon DEF Row, DeliveryStates
<1>3. Good(r) /\ SameFate(rows[t], r)
  BY <1>1, <1>2, Bounds
     DEF RecordDeliveryFailure, Good, OwesFinal, SameFate, Row, ActiveStatuses,
         TerminalStatuses, DeliveryStates
<1>4. Write(t, r)
  BY DEF RecordDeliveryFailure
<1>. QED
  BY <1>2, <1>3, <1>4, WriteGood

\* reset_delivery_retry: a settled row stays settled, and only a settled row is owed.
LEMMA ResetDeliveryRetryKept ==
    ASSUME rows \in [Tasks -> GoodRows], NEW t \in Tasks, ResetDeliveryRetry(t)
    PROVE  RowsKept
<1>. DEFINE r == [rows[t] EXCEPT !.attempts = 0, !.delivery = "final_pending"]
<1>1. rows[t] \in Row /\ Good(rows[t])
  BY DEF GoodRows
<1>2. r \in Row
  BY <1>1, Bounds
     DEF ResetDeliveryRetry, Good, Terminal, Row, ActiveStatuses, TerminalStatuses,
         DeliveryStates
<1>3. Good(r) /\ SameFate(rows[t], r)
  BY <1>1, <1>2, Bounds
     DEF ResetDeliveryRetry, Good, Terminal, SameFate, Row, ActiveStatuses,
         TerminalStatuses, DeliveryStates
<1>4. Write(t, r)
  BY DEF ResetDeliveryRetry
<1>. QED
  BY <1>2, <1>3, <1>4, WriteGood

\* recover_interrupted rewrites every row at startup.
LEMMA RecoverKept ==
    ASSUME rows \in [Tasks -> GoodRows], RecoverInterrupted
    PROVE  RowsKept
<1>1. ASSUME NEW t \in Tasks
      PROVE  /\ Recovered(rows[t]) \in Row /\ Good(Recovered(rows[t]))
             /\ SameFate(rows[t], Recovered(rows[t]))
  <2>1. rows[t] \in Row /\ Good(rows[t])
    BY DEF GoodRows
  <2>2. Recovered(rows[t]) \in Row
    BY <2>1
       DEF Recovered, Row, ActiveStatuses, TerminalStatuses, DeliveryStates,
           WritingStatuses
  <2>3. Good(Recovered(rows[t]))
    BY <2>1, <2>2, Bounds
       DEF Recovered, Good, Row, ActiveStatuses, TerminalStatuses, DeliveryStates,
           WritingStatuses
  <2>4. SameFate(rows[t], Recovered(rows[t]))
    BY <2>1 DEF Recovered, SameFate, Row, WritingStatuses
  <2>. QED
    BY <2>2, <2>3, <2>4
<1>. QED
  BY <1>1 DEF RecoverInterrupted, RowsKept, GoodRows

\* An attempt that failed is charged only while a result is owed.
LEMMA TryFailKept ==
    ASSUME rows \in [Tasks -> GoodRows], NEW t \in Tasks, NEW giveUp \in BOOLEAN, TryFail(t, giveUp)
    PROVE  RowsKept
  BY RecordDeliveryFailureKept, RowsUnchanged DEF TryFail

\* The status message is recorded on a row that is still there.
LEMMA TryMarkStatusKept ==
    ASSUME rows \in [Tasks -> GoodRows], NEW t \in Tasks, TryMarkStatus(t)
    PROVE  RowsKept
  BY MarkStatusMessageKept, RowsUnchanged DEF TryMarkStatus

\* mark_delivered gives one settled row its final message id.
LEMMA TryDeliverGood ==
    ASSUME rows \in [Tasks -> GoodRows], NEW t \in Tasks, TryDeliver(t)
    PROVE  /\ rows' \in [Tasks -> GoodRows]
           /\ \A u \in Tasks : u # t => SameFate(rows[u], rows'[u])
           /\ rows'[t].status = "absent" <=> rows[t].status = "absent"
<1>. DEFINE r == [rows[t] EXCEPT !.final = TRUE, !.delivery = "delivered"]
<1>1. CASE Terminal(t)
  <2>1. rows[t] \in Row /\ Good(rows[t])
    BY DEF GoodRows
  <2>2. r \in Row
    BY <2>1 DEF Row, DeliveryStates
  <2>3. Good(r)
    BY <1>1, <2>1, <2>2 DEF Good, Terminal, TerminalStatuses, Row
  <2>4. rows' = [rows EXCEPT ![t] = r]
    BY <1>1 DEF TryDeliver, MarkDelivered, Write
  <2>. QED
    BY <2>1, <2>2, <2>3, <2>4 DEF GoodRows, SameFate, Row
<1>2. CASE ~Terminal(t)
  BY <1>2, RowsUnchanged DEF TryDeliver, RowsKept, SameFate
<1>. QED
  BY <1>1, <1>2

-----------------------------------------------------------------------------
(* The publishers.                                                          *)

PubType == pub \in [Tasks -> [Publishers -> Publisher]]

\* One publisher goes to another place.
Moved(t, a, place) ==
    /\ pub' \in [Tasks -> [Publishers -> Publisher]]
    /\ pub'[t][a].at = place
    /\ \A u \in Tasks, b \in Publishers : u # t \/ b # a => pub'[u][b].at = pub[u][b].at

\* Publishers stay where they are or are found at a place without the lock.
Outside == {"idle", "due", "queued", "reporting"}
Released ==
    /\ pub' \in [Tasks -> [Publishers -> Publisher]]
    /\ \A u \in Tasks, b \in Publishers :
          pub'[u][b].at = pub[u][b].at \/ pub'[u][b].at \in Outside

\* The assignment the actions use for a move.
LEMMA GoMoves ==
    ASSUME PubType, NEW t \in Tasks, NEW a \in Publishers, NEW p \in Places, Go(t, a, p)
    PROVE  Moved(t, a, p)
<1>. DEFINE q == [pub[t][a] EXCEPT !.at = p]
<1>1. q \in Publisher /\ q.at = p
  BY DEF PubType, Publisher
<1>2. pub' = [pub EXCEPT ![t] = [pub[t] EXCEPT ![a] = q]]
  BY DEF Go
<1>. HIDE DEF q
<1>. QED
  BY <1>1, <1>2 DEF PubType, Moved

\* A publisher record of any place, owed flag and view may be assigned.
LEMMA PutMoves ==
    ASSUME PubType, NEW t \in Tasks, NEW a \in Publishers, NEW q \in Publisher,
           pub' = [pub EXCEPT ![t][a] = q]
    PROVE  Moved(t, a, q.at)
  BY DEF PubType, Moved

\* A move to a place without the lock releases it.
LEMMA MoveReleases ==
    ASSUME NEW t \in Tasks, NEW a \in Publishers, NEW p \in Outside, Moved(t, a, p)
    PROVE  Released
  BY DEF Moved, Released

\* Whoever moves, the lock stays with one publisher, provided the mover had it,
\* finds it free, or goes where it is not held.
LEMMA LockMoves ==
    ASSUME LockHeld, NEW t \in Tasks, NEW a \in Publishers, NEW p, Moved(t, a, p),
           At(t, a) \in LockPlaces \/ LockFree(t)
    PROVE  LockHeld'
  BY DEF LockHeld, Moved, At, LockFree

\* Nobody moved.
LEMMA NobodyMoved ==
    ASSUME PubType, UNCHANGED pub
    PROVE  Released
  BY DEF PubType, Released

\* A publisher, if it was idle, becomes due: it holds no lock either way.
LEMMA WakeReleases ==
    ASSUME PubType, NEW t \in Tasks, NEW a \in Publishers, Wake(t, a)
    PROVE  Released
<1>1. "due" \in Places /\ "due" \in Outside
  BY DEF Places, Outside
<1>2. CASE Go(t, a, "due")
  BY <1>1, <1>2, GoMoves, MoveReleases
<1>3. CASE UNCHANGED pub
  BY <1>3, NobodyMoved
<1>. QED
  BY <1>2, <1>3 DEF Wake

\* The part of the invariant that is not about types.
Promises == LockHeld /\ SendsOnce /\ Commits /\ RootHeld
Held == PubType /\ rows \in [Tasks -> GoodRows] /\ Promises

\* A step that gains no publisher the lock, posts and records nothing, and keeps every
\* row's fate keeps the promises.
LEMMA ReleaseKeeps ==
    ASSUME Held, Released, RowsKept, UNCHANGED <<replies, transcript, blind>>
    PROVE  Held'
<1>1. Outside \cap LockPlaces = {} /\ RootPlaces \subseteq LockPlaces
  BY DEF Outside, LockPlaces, RootPlaces
<1>2. {"sending", "recording", "committing"} \subseteq RootPlaces
  BY DEF RootPlaces
<1>3. \A u \in Tasks, b \in Publishers : At(u, b)' \in LockPlaces => At(u, b)' = At(u, b)
  BY <1>1 DEF Released, At
<1>4. LockHeld'
  BY <1>3 DEF Held, Promises, LockHeld
<1>5. SendsOnce'
  BY <1>1, <1>2, <1>3 DEF Held, Promises, SendsOnce
<1>6. Commits'
  BY <1>1, <1>2, <1>3 DEF Held, Promises, Commits, RowsKept, SameFate
<1>7. RootHeld'
  BY <1>1, <1>3 DEF Held, Promises, RootHeld, RowsKept, SameFate, Erased
<1>. QED
  BY <1>4, <1>5, <1>6, <1>7 DEF Promises, Held, PubType, Released, RowsKept

\* A publisher that has the lock, or finds it free, may go on to any place whose own
\* promise it can already give.
LEMMA AdvanceKeeps ==
    ASSUME Held, NEW t \in Tasks, NEW a \in Publishers, NEW p, Moved(t, a, p), RowsKept,
           At(t, a) \in LockPlaces \/ LockFree(t),
           p \in RootPlaces => ~Erased(t),
           p \notin {"sending", "recording", "committing"},
           UNCHANGED <<replies, transcript, blind>>
    PROVE  Held'
<1>1. LockHeld'
  BY LockMoves DEF Held, Promises
<1>2. SendsOnce'
  BY DEF Held, Promises, SendsOnce, Moved, At
<1>3. Commits'
  BY DEF Held, Promises, Commits, Moved, At, RowsKept, SameFate
<1>4. RootHeld'
  BY DEF Held, Promises, RootHeld, Moved, At, Erased, RowsKept, SameFate
<1>. QED
  BY <1>1, <1>2, <1>3, <1>4 DEF Promises, Held, PubType, Moved, RowsKept

\* A move to a place without the lock, with nothing posted or recorded.
LEMMA LeaveKeeps ==
    ASSUME Held, NEW t \in Tasks, NEW a \in Publishers, NEW p \in Outside, Go(t, a, p),
           RowsKept, UNCHANGED <<replies, transcript, blind>>
    PROVE  Held'
<1>1. p \in Places
  BY DEF Outside, Places
<1>2. Released
  BY <1>1, GoMoves, MoveReleases DEF Held
<1>. QED
  BY <1>2, ReleaseKeeps

\* A move under the delivery lock that needs no promise.
LEMMA StayKeeps ==
    ASSUME Held, NEW t \in Tasks, NEW a \in Publishers,
           NEW p \in {"status", "marking", "result"}, Go(t, a, p), At(t, a) \in LockPlaces,
           RowsKept, UNCHANGED <<replies, transcript, blind>>
    PROVE  Held'
<1>1. p \in Places /\ p \notin RootPlaces /\ p \notin {"sending", "recording", "committing"}
  BY DEF Places, LockPlaces, RootPlaces
<1>2. Moved(t, a, p)
  BY <1>1, GoMoves DEF Held
<1>. QED
  BY <1>1, <1>2, AdvanceKeeps

\* _publish_locked edits and marks the status message, and goes on to the result of a settled row.
LEMMA AfterStatusKeeps ==
    ASSUME Held, NEW t \in Tasks, NEW a \in Publishers, Go(t, a, AfterStatus(t, a)),
           At(t, a) \in LockPlaces, RowsKept, UNCHANGED <<replies, transcript, blind>>
    PROVE  Held'
<1>1. CASE pub[t][a].view = "settled"
  <2>1. Go(t, a, "result")
    BY <1>1 DEF AfterStatus
  <2>. QED
    BY <2>1, StayKeeps
<1>2. CASE pub[t][a].view # "settled"
  <2>1. Go(t, a, "reporting") /\ "reporting" \in Outside
    BY <1>2 DEF AfterStatus, Outside
  <2>. QED
    BY <2>1, LeaveKeeps
<1>. QED
  BY <1>1, <1>2

-----------------------------------------------------------------------------
(* _notify.                                                                 *)

\* A settled row takes the notifier's place; what the cancelled notifier had
\* under way, status or reply, may be in the channel.
LEMMA BeginSettledKeeps ==
    ASSUME Held, NEW t \in Tasks, NEW a \in Publishers, BeginSettled(t, a), TypeOK
    PROVE  Held'
<1>. DEFINE q == [b \in Publishers |->
              IF b = a THEN [Idle EXCEPT !.at = "queued", !.owed = TRUE]
              ELSE IF b = "notifier" THEN Idle ELSE pub[t][b]]
<1>1. pub' = [pub EXCEPT ![t] = q]
  BY DEF BeginSettled
<1>2. q \in [Publishers -> Publisher]
  BY DEF Held, PubType, Idle, Publisher, Places, Views
<1>3. \A b \in Publishers :
        IF b = a THEN q[b].at = "queued" ELSE IF b = "notifier" THEN q[b].at = "idle"
                                              ELSE q[b].at = pub[t][b].at
  BY DEF Idle
<1>. HIDE DEF q
<1>4. pub' \in [Tasks -> [Publishers -> Publisher]]
  BY <1>1, <1>2 DEF Held, PubType
<1>4a. \A u \in Tasks : u # t => pub'[u] = pub[u]
  BY <1>1 DEF Held, PubType
<1>4b. pub'[t] = q
  BY <1>1 DEF Held, PubType
<1>5. Released
  BY <1>3, <1>4, <1>4a, <1>4b DEF Released, Outside
<1>6. RowsKept
  BY RowsUnchanged DEF Held, BeginSettled
<1>7. CASE UNCHANGED replies
  BY <1>5, <1>6, <1>7, ReleaseKeeps DEF BeginSettled
<1>8. CASE /\ a # "notifier" /\ At(t, "notifier") = "sending"
           /\ replies' = [replies EXCEPT ![t] = @ + 1]
  <2>1. \A u \in Tasks, b \in Publishers :
           At(u, b)' \in LockPlaces => At(u, b)' = At(u, b) /\ ~(u = t /\ b = "notifier")
    BY <1>3, <1>4a, <1>4b, <1>8 DEF At, LockPlaces, RootPlaces
  <2>2. "notifier" \in Publishers /\ At(t, "notifier") \in LockPlaces
    BY <1>8 DEF Publishers, LockPlaces, RootPlaces
  <2>3. \A b \in Publishers : At(t, b)' \notin LockPlaces
    BY <2>1, <2>2 DEF Held, Promises, LockHeld
  <2>4. LockHeld'
    BY <2>1 DEF Held, Promises, LockHeld
  <2>5. /\ replies \in [Tasks -> Nat] /\ UNCHANGED <<transcript, blind>>
        /\ replies'[t] = replies[t] + 1 /\ \A u \in Tasks : u # t => replies'[u] = replies[u]
    BY <1>8, Bounds DEF TypeOK, BeginSettled
  <2>6. {"sending", "recording", "committing"} \subseteq LockPlaces
    BY DEF LockPlaces, RootPlaces
  <2>7. SendsOnce'
    BY <1>8, <2>1, <2>2, <2>3, <2>5, <2>6 DEF Held, Promises, SendsOnce
  <2>8. Commits'
    BY <2>1, <2>3, <2>5, <2>6, <1>6 DEF Held, Promises, Commits, RowsKept, SameFate
  <2>9. RootHeld'
    BY <2>1, <1>6 DEF Held, Promises, RootHeld, RowsKept, SameFate, Erased, LockPlaces
  <2>. QED
    BY <2>4, <2>7, <2>8, <2>9, <1>4, <1>6 DEF Held, Promises, PubType, RowsKept
<1>. QED
  BY <1>7, <1>8 DEF BeginSettled

\* A live row is published now, or left to the delayed notifier.
LEMMA BeginLiveKeeps ==
    ASSUME Held, NEW t \in Tasks, NEW a \in Publishers, BeginLive(t, a)
    PROVE  Held'
<1>1. RowsKept /\ UNCHANGED <<replies, transcript, blind>>
  BY RowsUnchanged DEF Held, BeginLive, discord
<1>2. CASE pub' = [pub EXCEPT ![t][a] = [Idle EXCEPT !.at = "queued"]]
  <2>. DEFINE q == [Idle EXCEPT !.at = "queued"]
  <2>1. q \in Publisher /\ q.at \in Outside
    BY DEF Idle, Publisher, Places, Views, Outside
  <2>2. pub' = [pub EXCEPT ![t][a] = q]
    BY <1>2
  <2>. HIDE DEF q
  <2>3. Released
    BY <2>1, <2>2, PutMoves, MoveReleases DEF Held
  <2>. QED
    BY <2>3, <1>1, ReleaseKeeps
<1>3. CASE /\ a # "notifier"
           /\ pub' = [pub EXCEPT ![t][a] = Idle,
                                 ![t]["notifier"].at = IF @ = "idle" THEN "due" ELSE @]
  <2>. DEFINE q == [pub[t]["notifier"] EXCEPT !.at = IF @ = "idle" THEN "due" ELSE @]
              p == [pub EXCEPT ![t][a] = Idle]
  <2>0. "notifier" \in Publishers
    BY DEF Publishers
  <2>1. q \in Publisher /\ (q.at = pub[t]["notifier"].at \/ q.at \in Outside)
    BY <2>0 DEF Held, PubType, Publisher, Places, Outside
  <2>2. Idle \in Publisher /\ Idle.at \in Outside
    BY DEF Idle, Publisher, Places, Views, Outside
  <2>3. p[t]["notifier"] = pub[t]["notifier"] /\ p \in [Tasks -> [Publishers -> Publisher]]
    BY <1>3, <2>0, <2>2 DEF Held, PubType
  <2>4. pub' = [p EXCEPT ![t]["notifier"] = q]
    BY <1>3, <2>0, <2>3 DEF Held, PubType
  <2>5. \A u \in Tasks, b \in Publishers : p[u][b] = IF u = t /\ b = a THEN Idle ELSE pub[u][b]
    BY DEF Held, PubType
  <2>. HIDE DEF p, q
  <2>6. Released
    BY <2>0, <2>1, <2>2, <2>3, <2>4, <2>5 DEF Released
  <2>. QED
    BY <2>6, <1>1, ReleaseKeeps
<1>. QED
  BY <1>2, <1>3 DEF BeginLive

\* _notify's bookkeeping after publish returned or raised.
LEMMA ReportKeeps ==
    ASSUME Held, NEW t \in Tasks, NEW a \in Publishers, Report(t, a)
    PROVE  Held'
<1>1. RowsKept
  BY TryFailKept, RowsUnchanged DEF Held, Report
<1>2. Idle \in Publisher /\ Idle.at \in Outside
  BY DEF Idle, Publisher, Places, Views, Outside
<1>3. Released
  BY <1>2, PutMoves, MoveReleases DEF Held, Report
<1>. QED
  BY <1>1, <1>3, ReleaseKeeps DEF Report, discord

-----------------------------------------------------------------------------
(* The status message.                                                      *)

\* The delivery lock is taken when it is free, and the row is read again.
LEMMA AcquireKeeps ==
    ASSUME Held, NEW t \in Tasks, NEW a \in Publishers, Acquire(t, a)
    PROVE  Held'
<1>1. RowsKept /\ UNCHANGED <<replies, transcript, blind>>
  BY RowsUnchanged DEF Held, Acquire, discord
<1>2. CASE Erased(t)
  <2>1. Go(t, a, "reporting") /\ "reporting" \in Outside
    BY <1>2 DEF Acquire, Outside
  <2>. QED
    BY <2>1, <1>1, LeaveKeeps
<1>3. CASE ~Erased(t)
  <2>. DEFINE v == IF rows[t].final THEN "delivered"
                   ELSE IF Terminal(t) THEN "settled" ELSE "live"
              q == [pub[t][a] EXCEPT !.at = "status", !.view = v]
  <2>2. pub' = [pub EXCEPT ![t][a] = q]
    BY <1>3 DEF Acquire
  <2>3. v \in Views
    BY DEF Views
  <2>. HIDE DEF v
  <2>5. pub[t][a] \in Publisher /\ "status" \in Places
    BY DEF Held, PubType, Places, LockPlaces
  <2>1. q \in Publisher /\ q.at = "status"
    BY <2>3, <2>5 DEF Publisher
  <2>. HIDE DEF q
  <2>4. Moved(t, a, "status")
    BY <2>1, <2>2, PutMoves DEF Held
  <2>. QED
    BY <2>4, <1>1, AdvanceKeeps DEF Acquire, RootPlaces
<1>. QED
  BY <1>2, <1>3

\* The channel is gone: a permanent refusal ends the retries.
LEMMA ChannelLostKeeps ==
    ASSUME Held, NEW t \in Tasks, NEW a \in Publishers, ChannelLost(t, a)
    PROVE  Held'
<1>1. RowsKept
  BY TryFailKept, RowsUnchanged DEF Held, ChannelLost
<1>2. UNCHANGED <<replies, transcript, blind>>
  BY DEF ChannelLost, discord
<1>3. Go(t, a, "reporting") /\ "reporting" \in Outside
  BY DEF ChannelLost, Outside
<1>. QED
  BY <1>1, <1>2, <1>3, LeaveKeeps

\* Somebody else delivered: only the status message goes.
LEMMA AlreadyDeliveredKeeps ==
    ASSUME Held, NEW t \in Tasks, NEW a \in Publishers, AlreadyDelivered(t, a)
    PROVE  Held'
<1>1. RowsKept
  BY RowsUnchanged DEF Held, AlreadyDelivered
<1>2. UNCHANGED <<replies, transcript, blind>>
  BY DEF AlreadyDelivered, discord
<1>3. Go(t, a, "reporting") /\ "reporting" \in Outside
  BY DEF AlreadyDelivered, Outside
<1>. QED
  BY <1>1, <1>2, <1>3, LeaveKeeps

\* The recorded status message is edited in place.
LEMMA EditStatusKeeps ==
    ASSUME Held, NEW t \in Tasks, NEW a \in Publishers, EditStatus(t, a)
    PROVE  Held'
<1>1. RowsKept
  BY RowsUnchanged DEF Held, EditStatus
<1>2. UNCHANGED <<replies, transcript, blind>>
  BY DEF EditStatus, discord
<1>3. Go(t, a, AfterStatus(t, a)) /\ At(t, a) \in LockPlaces
  BY DEF EditStatus, LockPlaces
<1>. QED
  BY <1>1, <1>2, <1>3, AfterStatusKeeps

\* The status message is found by its marker or posted anew.
LEMMA PostStatusKeeps ==
    ASSUME Held, NEW t \in Tasks, NEW a \in Publishers, PostStatus(t, a)
    PROVE  Held'
<1>1. RowsKept
  BY RowsUnchanged DEF Held, PostStatus
<1>2. UNCHANGED <<replies, transcript, blind>>
  BY DEF PostStatus, discord
<1>3. Go(t, a, "marking") /\ At(t, a) \in LockPlaces
  BY DEF PostStatus, LockPlaces
<1>. QED
  BY <1>1, <1>2, <1>3, StayKeeps

\* The status message is recorded on the row.
LEMMA MarkStatusKeeps ==
    ASSUME Held, NEW t \in Tasks, NEW a \in Publishers, MarkStatus(t, a)
    PROVE  Held'
<1>1. RowsKept
  BY TryMarkStatusKept DEF Held, MarkStatus
<1>2. UNCHANGED <<replies, transcript, blind>>
  BY DEF MarkStatus, discord
<1>3. Go(t, a, AfterStatus(t, a)) /\ At(t, a) \in LockPlaces
  BY DEF MarkStatus, LockPlaces
<1>. QED
  BY <1>1, <1>2, <1>3, AfterStatusKeeps

-----------------------------------------------------------------------------
(* The final reply, under the conversation root.                            *)

\* The root is free, and the row is read again under it.
LEMMA EnterRootKeeps ==
    ASSUME Held, NEW t \in Tasks, NEW a \in Publishers, EnterRoot(t, a)
    PROVE  Held'
<1>1. RowsKept /\ UNCHANGED <<replies, transcript, blind>>
  BY RowsUnchanged DEF Held, EnterRoot, discord
<1>2. CASE Erased(t)
  <2>1. Go(t, a, "reporting") /\ "reporting" \in Outside
    BY <1>2 DEF EnterRoot, Outside
  <2>. QED
    BY <2>1, <1>1, LeaveKeeps
<1>3. CASE ~Erased(t)
  <2>1. Go(t, a, "replying") /\ At(t, a) \in LockPlaces /\ "replying" \in Places
    BY <1>3 DEF EnterRoot, LockPlaces, Places, RootPlaces
  <2>2. Moved(t, a, "replying")
    BY <2>1, GoMoves DEF Held
  <2>. QED
    BY <2>1, <2>2, <1>1, <1>3, AdvanceKeeps
<1>. QED
  BY <1>2, <1>3

\* find_result_delivery: an earlier reply is recovered, or the search is known to
\* have been blind to it.
LEMMA SearchReplyKeeps ==
    ASSUME Held, NEW t \in Tasks, NEW a \in Publishers, SearchReply(t, a), TypeOK
    PROVE  Held'
<1>1. RowsKept /\ UNCHANGED <<replies, transcript>>
  BY RowsUnchanged DEF Held, SearchReply
<1>2. At(t, a) \in RootPlaces /\ At(t, a) \in LockPlaces /\ ~Erased(t)
  BY DEF SearchReply, RootPlaces, LockPlaces, Held, Promises, RootHeld
<1>3. CASE Go(t, a, "recording") /\ replies[t] > 0 /\ UNCHANGED blind
  <2>1. Moved(t, a, "recording")
    BY <1>3, GoMoves DEF Held, Places, LockPlaces, RootPlaces
  <2>2. LockHeld'
    BY <2>1, <1>2, LockMoves DEF Held, Promises
  <2>3. SendsOnce'
    BY <2>1, <1>1, <1>3 DEF Held, Promises, SendsOnce, Moved, At
  <2>4. Commits'
    BY <2>1, <1>1, <1>3 DEF Held, Promises, Commits, Moved, At, RowsKept, SameFate
  <2>5. RootHeld'
    BY <2>1, <1>1, <1>2 DEF Held, Promises, RootHeld, Moved, At, Erased, RowsKept, SameFate
  <2>. QED
    BY <2>1, <2>2, <2>3, <2>4, <2>5, <1>1 DEF Held, Promises, PubType, Moved, RowsKept
<1>4. CASE Go(t, a, "sending") /\ blind' = [blind EXCEPT ![t] = @ \/ replies[t] > 0]
  <2>1. Moved(t, a, "sending")
    BY <1>4, GoMoves DEF Held, Places, LockPlaces, RootPlaces
  <2>2. LockHeld'
    BY <2>1, <1>2, LockMoves DEF Held, Promises
  <2>3a. \A u \in Tasks : blind[u] => blind'[u]
    BY <1>4, Zenon DEF TypeOK
  <2>3b. replies[t] > 0 => blind'[t]
    BY <1>4, Zenon DEF TypeOK
  <2>3. SendsOnce'
    BY <2>1, <2>3a, <2>3b, <1>1 DEF Held, Promises, SendsOnce, Moved, At
  <2>4. Commits'
    BY <2>1, <1>1 DEF Held, Promises, Commits, Moved, At, RowsKept, SameFate
  <2>5. RootHeld'
    BY <2>1, <1>1, <1>2 DEF Held, Promises, RootHeld, Moved, At, Erased, RowsKept, SameFate
  <2>. QED
    BY <2>1, <2>2, <2>3, <2>4, <2>5, <1>1 DEF Held, Promises, PubType, Moved, RowsKept
<1>. QED
  BY <1>3, <1>4 DEF SearchReply

\* The reply is posted: nobody else is behind the lock, so it is the first one
\* unless the search was blind.
LEMMA SendReplyKeeps ==
    ASSUME Held, NEW t \in Tasks, NEW a \in Publishers, SendReply(t, a), TypeOK
    PROVE  Held'
<1>1. RowsKept /\ UNCHANGED <<transcript, blind>>
  BY RowsUnchanged DEF Held, SendReply
<1>2. At(t, a) = "sending" /\ At(t, a) \in RootPlaces /\ At(t, a) \in LockPlaces /\ ~Erased(t)
  BY DEF SendReply, RootPlaces, LockPlaces, Held, Promises, RootHeld
<1>3. Moved(t, a, "recording")
  BY GoMoves DEF Held, Places, LockPlaces, RootPlaces, SendReply
<1>4. /\ replies \in [Tasks -> Nat]
      /\ replies'[t] = replies[t] + 1 /\ \A u \in Tasks : u # t => replies'[u] = replies[u]
  BY Bounds DEF TypeOK, SendReply
<1>5. LockHeld'
  BY <1>2, <1>3, LockMoves DEF Held, Promises
<1>6. \A b \in Publishers : At(t, b)' # "sending"
  BY <1>2, <1>3 DEF Held, Promises, LockHeld, Moved, At, LockPlaces, RootPlaces
<1>7. SendsOnce'
  <2>1. replies[t] > 0 => blind[t]
    BY <1>2 DEF Held, Promises, SendsOnce
  <2>2. ASSUME NEW u \in Tasks, replies'[u] > 1
        PROVE  blind[u]
    BY <1>4, <2>1, <2>2 DEF Held, Promises, SendsOnce
  <2>3. ASSUME NEW u \in Tasks, NEW b \in Publishers, At(u, b)' = "sending"
        PROVE  u # t /\ At(u, b) = "sending"
    BY <1>3, <1>6, <2>3 DEF Moved, At
  <2>4. ASSUME NEW u \in Tasks, NEW b \in Publishers, At(u, b)' = "sending", replies'[u] > 0
        PROVE  blind[u]
    BY <1>4, <2>3, <2>4 DEF Held, Promises, SendsOnce
  <2>. QED
    BY <1>1, <2>2, <2>4 DEF SendsOnce
<1>8. Commits'
  <2>1. \A u \in Tasks : replies[u] > 0 => replies'[u] > 0
    BY <1>4
  <2>2. replies'[t] > 0
    BY <1>4
  <2>3. ASSUME NEW u \in Tasks, NEW b \in Publishers
        PROVE  At(u, b)' = At(u, b) \/ (u = t /\ At(u, b)' = "recording")
    BY <1>3 DEF Moved, At
  <2>4. ASSUME NEW u \in Tasks, rows'[u].final
        PROVE  replies'[u] > 0 /\ transcript[u]
    BY <1>1, <2>1, <2>4 DEF Held, Promises, Commits, RowsKept, SameFate
  <2>5. ASSUME NEW u \in Tasks, NEW b \in Publishers, At(u, b)' \in {"recording", "committing"}
        PROVE  replies'[u] > 0 /\ (At(u, b)' = "committing" => transcript[u])
    BY <2>1, <2>2, <2>3, <2>5 DEF Held, Promises, Commits
  <2>. QED
    BY <1>1, <2>4, <2>5, Zenon DEF Commits
<1>9. RootHeld'
  BY <1>1, <1>2, <1>3 DEF Held, Promises, RootHeld, Moved, At, Erased, RowsKept, SameFate
<1>. QED
  BY <1>1, <1>3, <1>5, <1>7, <1>8, <1>9 DEF Held, Promises, PubType, Moved, RowsKept

\* A refused reply is removed again, and an attempt may be its last.
LEMMA ReplyFailsKeeps ==
    ASSUME Held, NEW t \in Tasks, NEW a \in Publishers, ReplyFails(t, a)
    PROVE  Held'
<1>1. RowsKept
  BY TryFailKept, RowsUnchanged DEF Held, ReplyFails
<1>2. UNCHANGED <<replies, transcript, blind>>
  BY DEF ReplyFails, discord
<1>3. Go(t, a, "reporting") /\ "reporting" \in Outside
  BY DEF ReplyFails, Outside
<1>. QED
  BY <1>1, <1>2, <1>3, LeaveKeeps

\* The reply is written to the conversation.
LEMMA RecordTranscriptKeeps ==
    ASSUME Held, NEW t \in Tasks, NEW a \in Publishers, RecordTranscript(t, a), TypeOK
    PROVE  Held'
<1>1. RowsKept /\ UNCHANGED <<replies, blind>>
  BY RowsUnchanged DEF Held, RecordTranscript
<1>2. /\ At(t, a) = "recording" /\ At(t, a) \in RootPlaces /\ At(t, a) \in LockPlaces
      /\ ~Erased(t) /\ replies[t] > 0
  BY DEF RecordTranscript, RootPlaces, LockPlaces, Held, Promises, RootHeld, Commits
<1>3. Moved(t, a, "committing")
  BY GoMoves DEF Held, Places, LockPlaces, RootPlaces, RecordTranscript
<1>4. transcript'[t] /\ \A u \in Tasks : transcript[u] => transcript'[u]
  BY Zenon DEF TypeOK, RecordTranscript
<1>5. LockHeld'
  BY <1>2, <1>3, LockMoves DEF Held, Promises
<1>6. SendsOnce'
  BY <1>1, <1>3 DEF Held, Promises, SendsOnce, Moved, At
<1>7. Commits'
  <2>1. ASSUME NEW u \in Tasks, NEW b \in Publishers
        PROVE  At(u, b)' = At(u, b) \/ (u = t /\ At(u, b)' = "committing")
    BY <1>3 DEF Moved, At
  <2>2. ASSUME NEW u \in Tasks, rows'[u].final
        PROVE  replies[u] > 0 /\ transcript'[u]
    BY <1>1, <1>4, <2>2 DEF Held, Promises, Commits, RowsKept, SameFate
  <2>3. ASSUME NEW u \in Tasks, NEW b \in Publishers, At(u, b)' \in {"recording", "committing"}
        PROVE  replies[u] > 0 /\ (At(u, b)' = "committing" => transcript'[u])
    BY <1>2, <1>4, <2>1, <2>3 DEF Held, Promises, Commits
  <2>. QED
    BY <1>1, <2>2, <2>3, Zenon DEF Commits
<1>8. RootHeld'
  BY <1>1, <1>2, <1>3 DEF Held, Promises, RootHeld, Moved, At, Erased, RowsKept, SameFate
<1>. QED
  BY <1>1, <1>3, <1>5, <1>6, <1>7, <1>8 DEF Held, Promises, PubType, Moved, RowsKept

\* The delivered mark comes after the reply and the transcript.
LEMMA CommitDeliveryKeeps ==
    ASSUME Held, NEW t \in Tasks, NEW a \in Publishers, CommitDelivery(t, a)
    PROVE  Held'
<1>1. /\ rows' \in [Tasks -> GoodRows]
      /\ \A u \in Tasks : u # t => SameFate(rows[u], rows'[u])
      /\ rows'[t].status = "absent" <=> rows[t].status = "absent"
  BY TryDeliverGood DEF Held, CommitDelivery
<1>2. /\ At(t, a) = "committing" /\ At(t, a) \in RootPlaces /\ At(t, a) \in LockPlaces
      /\ ~Erased(t) /\ replies[t] > 0 /\ transcript[t]
  BY DEF CommitDelivery, RootPlaces, LockPlaces, Held, Promises, RootHeld, Commits
<1>3. Moved(t, a, "clearing")
  BY GoMoves DEF Held, Places, LockPlaces, RootPlaces, CommitDelivery
<1>4. UNCHANGED <<replies, transcript, blind>>
  BY DEF CommitDelivery, discord
<1>5. LockHeld'
  BY <1>2, <1>3, LockMoves DEF Held, Promises
<1>6. SendsOnce'
  BY <1>3, <1>4 DEF Held, Promises, SendsOnce, Moved, At
<1>7. Commits'
  BY <1>1, <1>2, <1>3, <1>4 DEF Held, Promises, Commits, Moved, At, SameFate
<1>8. RootHeld'
  BY <1>1, <1>2, <1>3 DEF Held, Promises, RootHeld, Moved, At, Erased, SameFate
<1>. QED
  BY <1>1, <1>3, <1>5, <1>6, <1>7, <1>8 DEF Held, Promises, PubType, Moved

\* The status message goes last.
LEMMA ClearStatusKeeps ==
    ASSUME Held, NEW t \in Tasks, NEW a \in Publishers, ClearStatus(t, a)
    PROVE  Held'
<1>1. RowsKept
  BY RowsUnchanged DEF Held, ClearStatus
<1>2. UNCHANGED <<replies, transcript, blind>>
  BY DEF ClearStatus, discord
<1>3. Go(t, a, "reporting") /\ "reporting" \in Outside
  BY DEF ClearStatus, Outside
<1>. QED
  BY <1>1, <1>2, <1>3, LeaveKeeps

\* Every step of a publisher keeps the promises.
LEMMA PublishKeeps ==
    ASSUME Held, TypeOK, NEW t \in Tasks, NEW a \in Publishers, Publish(t, a)
    PROVE  Held'
  BY BeginSettledKeeps, BeginLiveKeeps, ReportKeeps, AcquireKeeps, ChannelLostKeeps,
     AlreadyDeliveredKeeps, EditStatusKeeps, PostStatusKeeps, MarkStatusKeeps,
     EnterRootKeeps, SearchReplyKeeps, SendReplyKeeps, ReplyFailsKeeps,
     RecordTranscriptKeeps, CommitDeliveryKeeps, ClearStatusKeeps
     DEF Publish

-----------------------------------------------------------------------------
(* What makes rows ready to publish, and the foreground turn.               *)

\* The notifier of a released handoff is spawned.
LEMMA ReleaseAndNotifyKeeps ==
    ASSUME Held, NEW t \in Tasks, ReleaseAndNotify(t)
    PROVE  Held'
<1>1. RowsKept
  BY ReleaseHandoffKept DEF Held, ReleaseAndNotify
<1>2. UNCHANGED <<replies, transcript, blind>>
  BY DEF ReleaseAndNotify, discord
<1>3. "notifier" \in Publishers
  BY DEF Publishers
<1>4. Released
  BY <1>3, WakeReleases DEF Held, ReleaseAndNotify
<1>. QED
  BY <1>1, <1>2, <1>4, ReleaseKeeps

\* An abandoned handoff owes nobody a result.
LEMMA AbandonStartKeeps ==
    ASSUME Held, NEW t \in Tasks, AbandonStart(t)
    PROVE  Held'
<1>1. RowsKept
  BY AbandonHandoffKept DEF Held, AbandonStart
<1>2. UNCHANGED <<replies, transcript, blind>>
  BY DEF AbandonStart, discord
<1>3. Released
  BY NobodyMoved DEF Held, AbandonStart
<1>. QED
  BY <1>1, <1>2, <1>3, ReleaseKeeps

\* A worker claims its row.
LEMMA WorkerStartsKeeps ==
    ASSUME Held, NEW t \in Tasks, WorkerStarts(t)
    PROVE  Held'
<1>1. RowsKept
  BY ClaimNextKept DEF Held, WorkerStarts
<1>2. UNCHANGED <<replies, transcript, blind>>
  BY DEF WorkerStarts, discord
<1>3. Released
  BY NobodyMoved DEF Held, WorkerStarts
<1>. QED
  BY <1>1, <1>2, <1>3, ReleaseKeeps

\* A worker announces progress of a live row.
LEMMA WorkerNotifiesKeeps ==
    ASSUME Held, NEW t \in Tasks, WorkerNotifies(t)
    PROVE  Held'
<1>1. RowsKept
  BY RowsUnchanged DEF Held, WorkerNotifies
<1>2. UNCHANGED <<replies, transcript, blind>>
  BY DEF WorkerNotifies, discord
<1>3. "worker" \in Publishers /\ "due" \in Outside
  BY DEF Publishers, Outside
<1>4. Go(t, "worker", "due")
  BY DEF WorkerNotifies
<1>. QED
  BY <1>1, <1>2, <1>3, <1>4, LeaveKeeps

\* A worker waits for the member.
LEMMA WorkerPausesKeeps ==
    ASSUME Held, NEW t \in Tasks, WorkerPauses(t)
    PROVE  Held'
<1>1. RowsKept
  BY TransitionKept DEF Held, WorkerPauses
<1>2. UNCHANGED <<replies, transcript, blind>>
  BY DEF WorkerPauses, discord
<1>3. Released
  BY NobodyMoved DEF Held, WorkerPauses
<1>. QED
  BY <1>1, <1>2, <1>3, ReleaseKeeps

\* A worker settles its row and announces it.
LEMMA WorkerFinishesKeeps ==
    ASSUME Held, NEW t \in Tasks, WorkerFinishes(t)
    PROVE  Held'
<1>1. RowsKept
  BY FinishKept DEF Held, WorkerFinishes
<1>2. UNCHANGED <<replies, transcript, blind>>
  BY DEF WorkerFinishes, discord
<1>3. "worker" \in Publishers /\ "due" \in Outside
  BY DEF Publishers, Outside
<1>4. Go(t, "worker", "due")
  BY DEF WorkerFinishes
<1>. QED
  BY <1>1, <1>2, <1>3, <1>4, LeaveKeeps

\* The sweep settles an overdue pause.
LEMMA SweepExpiredKeeps ==
    ASSUME Held, NEW t \in Tasks, SweepExpired(t)
    PROVE  Held'
<1>1. RowsKept
  BY ExpireWaitingKept DEF Held, SweepExpired
<1>2. UNCHANGED <<replies, transcript, blind>>
  BY DEF SweepExpired, discord
<1>3. "sweeper" \in Publishers
  BY DEF Publishers
<1>4. Released
  BY <1>3, WakeReleases DEF Held, SweepExpired
<1>. QED
  BY <1>1, <1>2, <1>4, ReleaseKeeps

\* The sweep retries an owed result.
LEMMA SweepOwedKeeps ==
    ASSUME Held, NEW t \in Tasks, SweepOwed(t)
    PROVE  Held'
<1>1. RowsKept
  BY RowsUnchanged DEF Held, SweepOwed
<1>2. UNCHANGED <<replies, transcript, blind>>
  BY DEF SweepOwed, discord
<1>3. "sweeper" \in Publishers /\ "due" \in Outside
  BY DEF Publishers, Outside
<1>4. Go(t, "sweeper", "due")
  BY DEF SweepOwed
<1>. QED
  BY <1>1, <1>2, <1>3, <1>4, LeaveKeeps

\* The member asks for another round of attempts.
LEMMA RetryDeliveryKeeps ==
    ASSUME Held, NEW t \in Tasks, RetryDelivery(t)
    PROVE  Held'
<1>1. RowsKept
  BY ResetDeliveryRetryKept DEF Held, RetryDelivery
<1>2. UNCHANGED <<replies, transcript, blind>>
  BY DEF RetryDelivery, discord
<1>3. Released
  BY NobodyMoved DEF Held, RetryDelivery
<1>. QED
  BY <1>1, <1>2, <1>3, ReleaseKeeps

\* A stop request announces a row without a worker itself.
LEMMA CancelTaskKeeps ==
    ASSUME Held, NEW t \in Tasks, CancelTask(t)
    PROVE  Held'
<1>1. RowsKept
  BY RequestCancelKept DEF Held, CancelTask
<1>2. UNCHANGED <<replies, transcript, blind>>
  BY DEF CancelTask, discord
<1>3. "canceller" \in Publishers /\ "due" \in Outside
  BY DEF Publishers, Outside
<1>4. CASE Go(t, "canceller", "due")
  BY <1>1, <1>2, <1>3, <1>4, LeaveKeeps
<1>5. CASE UNCHANGED pub
  <2>1. Released
    BY <1>5, NobodyMoved DEF Held
  <2>. QED
    BY <1>1, <1>2, <2>1, ReleaseKeeps
<1>. QED
  BY <1>4, <1>5 DEF CancelTask

\* Every step that makes a row ready to publish keeps the promises.
LEMMA RestKeeps ==
    ASSUME Held, NEW t \in Tasks, Rest(t)
    PROVE  Held'
  BY ReleaseAndNotifyKeeps, AbandonStartKeeps, WorkerStartsKeeps, WorkerNotifiesKeeps,
     WorkerPausesKeeps, WorkerFinishesKeeps, SweepExpiredKeeps, SweepOwedKeeps,
     RetryDeliveryKeeps, CancelTaskKeeps
     DEF Rest, Stop, TurnCancels

\* A deletion needs the root, so nobody is between the search and the commit.
LEMMA EraseConversationKeeps ==
    ASSUME Held, EraseConversation
    PROVE  Held'
<1>1. /\ rows' = [t \in Tasks |-> AbsentRow]
      /\ UNCHANGED <<pub, replies, transcript, blind>>
      /\ \A t \in Tasks, a \in Publishers : At(t, a) \notin RootPlaces
  BY DEF EraseConversation, discord, RootFree
<1>2. rows' \in [Tasks -> GoodRows]
  BY <1>1, AbsentGood DEF GoodRows
<1>3. \A t \in Tasks : ~rows'[t].final
  BY <1>1 DEF AbsentRow
<1>4. LockHeld' /\ SendsOnce'
  BY <1>1 DEF Held, Promises, LockHeld, SendsOnce, At
<1>5. Commits'
  BY <1>1, <1>3 DEF Held, Promises, Commits, At
<1>6. RootHeld'
  BY <1>1 DEF RootHeld, At
<1>. QED
  BY <1>1, <1>2, <1>4, <1>5, <1>6 DEF Held, Promises, PubType

\* A restart leaves no publisher behind the lock.
LEMMA RestartKeeps ==
    ASSUME Held, Restart
    PROVE  Held'
<1>1. RowsKept /\ UNCHANGED <<replies, transcript, blind>>
  BY RecoverKept DEF Held, Restart, discord
<1>2. Idle \in Publisher /\ Idle.at \in Outside
  BY DEF Idle, Publisher, Places, Views, Outside
<1>3. Released
  BY <1>2 DEF Released, Restart
<1>. QED
  BY <1>1, <1>3, ReleaseKeeps

\* Every step of the system, and a stutter.
LEMMA StepKeeps ==
    ASSUME Held, TypeOK, [Next]_vars
    PROVE  Held'
<1>0. ASSUME UNCHANGED <<rows, pub, replies, transcript, blind>>
      PROVE  Held'
  BY <1>0, RowsUnchanged, NobodyMoved, ReleaseKeeps DEF Held
<1>1. CASE TurnBegins \/ TurnHearsBack \/ TurnTimesOut \/ TurnEnds \/ UNCHANGED vars
  BY <1>0, <1>1 DEF TurnBegins, TurnHearsBack, TurnTimesOut, TurnEnds, vars, discord
<1>. QED
  BY <1>1, PublishKeeps, RestKeeps, EraseConversationKeeps, RestartKeeps DEF Next

-----------------------------------------------------------------------------
(* Types, and the theorems.                                                 *)

\* The invariant the properties follow from.
IInv == TypeOK /\ Held

ChannelTypes ==
    /\ status \in [Tasks -> {"none", "posted", "known"}]
    /\ replies \in [Tasks -> 0..MaxReplies]
    /\ transcript \in [Tasks -> BOOLEAN]
    /\ blind \in [Tasks -> BOOLEAN]
TurnTypes == turn \in {"idle", "holding"} /\ called \in {0} \cup Tasks /\ restarts \in 0..MaxRestarts

\* The values of what is seen in the channel, after a publisher's step.
LEMMA PublishTypes ==
    ASSUME ChannelTypes, TurnTypes, NEW t \in Tasks, NEW a \in Publishers, Publish(t, a)
    PROVE  ChannelTypes' /\ TurnTypes'
<1>1. UNCHANGED foreground
  BY
     DEF Publish, BeginSettled, BeginLive, Report, Acquire, ChannelLost, AlreadyDelivered,
         EditStatus, PostStatus, MarkStatus, EnterRoot, SearchReply, SendReply, ReplyFails,
         RecordTranscript, CommitDelivery, ClearStatus
<1>2. TurnTypes'
  BY <1>1 DEF TurnTypes, foreground
<1>3. status' \in [Tasks -> {"none", "posted", "known"}]
  BY
     DEF ChannelTypes, Publish, BeginSettled, BeginLive, Report, Acquire, ChannelLost,
         AlreadyDelivered, EditStatus, PostStatus, MarkStatus, EnterRoot, SearchReply,
         SendReply, ReplyFails, RecordTranscript, CommitDelivery, ClearStatus, discord
<1>4. transcript' = transcript \/ transcript' = [transcript EXCEPT ![t] = TRUE]
  BY
     DEF Publish, BeginSettled, BeginLive, Report, Acquire, ChannelLost, AlreadyDelivered,
         EditStatus, PostStatus, MarkStatus, EnterRoot, SearchReply, SendReply, ReplyFails,
         RecordTranscript, CommitDelivery, ClearStatus, discord
<1>5. blind' = blind \/ blind' = [blind EXCEPT ![t] = @ \/ replies[t] > 0]
  BY
     DEF Publish, BeginSettled, BeginLive, Report, Acquire, ChannelLost, AlreadyDelivered,
         EditStatus, PostStatus, MarkStatus, EnterRoot, SearchReply, SendReply, ReplyFails,
         RecordTranscript, CommitDelivery, ClearStatus, discord
<1>6. replies' = replies \/ (replies[t] < MaxReplies /\ replies' = [replies EXCEPT ![t] = @ + 1])
  BY
     DEF Publish, BeginSettled, BeginLive, Report, Acquire, ChannelLost, AlreadyDelivered,
         EditStatus, PostStatus, MarkStatus, EnterRoot, SearchReply, SendReply, ReplyFails,
         RecordTranscript, CommitDelivery, ClearStatus, discord
<1>7. transcript' \in [Tasks -> BOOLEAN] /\ blind' \in [Tasks -> BOOLEAN]
  BY <1>4, <1>5, Zenon DEF ChannelTypes
<1>8. replies' \in [Tasks -> 0..MaxReplies]
  <2>1. replies[t] < MaxReplies => replies[t] + 1 \in 0..MaxReplies
    BY Bounds DEF ChannelTypes
  <2>. QED
    BY <1>6, <2>1 DEF ChannelTypes
<1>. QED
  BY <1>2, <1>3, <1>7, <1>8 DEF ChannelTypes

\* And after every other step.
LEMMA OtherTypes ==
    ASSUME ChannelTypes, TurnTypes,
           \/ \E t \in Tasks : Rest(t)
           \/ EraseConversation \/ TurnBegins \/ TurnHearsBack \/ TurnTimesOut \/ TurnEnds
           \/ Restart \/ UNCHANGED vars
    PROVE  ChannelTypes' /\ TurnTypes'
<1>1. UNCHANGED discord
  BY
     DEF Rest, ReleaseAndNotify, AbandonStart, WorkerStarts, WorkerNotifies, WorkerPauses,
         WorkerFinishes, SweepExpired, SweepOwed, Stop, RetryDelivery, TurnCancels,
         CancelTask, EraseConversation, TurnBegins, TurnHearsBack, TurnTimesOut, TurnEnds,
         Restart, vars, discord
<1>2. turn' \in {"idle", "holding"}
  BY
     DEF TurnTypes, Rest, ReleaseAndNotify, AbandonStart, WorkerStarts, WorkerNotifies,
         WorkerPauses, WorkerFinishes, SweepExpired, SweepOwed, Stop, RetryDelivery,
         TurnCancels, EraseConversation, TurnBegins, TurnHearsBack, TurnTimesOut, TurnEnds,
         Restart, vars, foreground
<1>3. called' \in {0} \cup Tasks
  BY
     DEF TurnTypes, Rest, ReleaseAndNotify, AbandonStart, WorkerStarts, WorkerNotifies,
         WorkerPauses, WorkerFinishes, SweepExpired, SweepOwed, Stop, RetryDelivery,
         TurnCancels, EraseConversation, TurnBegins, TurnHearsBack, TurnTimesOut, TurnEnds,
         Restart, vars, foreground
<1>4. restarts' = restarts \/ (restarts < MaxRestarts /\ restarts' = restarts + 1)
  BY
     DEF Rest, ReleaseAndNotify, AbandonStart, WorkerStarts, WorkerNotifies, WorkerPauses,
         WorkerFinishes, SweepExpired, SweepOwed, Stop, RetryDelivery, TurnCancels,
         EraseConversation, TurnBegins, TurnHearsBack, TurnTimesOut, TurnEnds, Restart,
         vars, foreground
<1>5. restarts \in 0..MaxRestarts
  BY DEF TurnTypes
<1>6. restarts' \in 0..MaxRestarts
  BY <1>4, <1>5, Bounds
<1>. QED
  BY <1>1, <1>2, <1>3, <1>6 DEF ChannelTypes, TurnTypes, discord

\* The types are those of the rows, the publishers, the channel and the turn.
LEMMA TypeParts ==
    Held => (TypeOK <=> ChannelTypes /\ TurnTypes)
  BY DEF Held, PubType, TypeOK, StoreTypeOK, GoodRows, ChannelTypes, TurnTypes

\* Delivery starts with fresh queued tasks and nobody publishing.
LEMMA InitHolds == Init => IInv
<1>. SUFFICES ASSUME Init
              PROVE  IInv
  OBVIOUS
<1>. DEFINE r == [AbsentRow EXCEPT !.status = "queued", !.handoff = TRUE]
<1>1. r \in Row /\ r.status = "queued" /\ r.attempts = 0 /\ r.delivery = "pending" /\ ~r.final
  BY AbsentGood DEF AbsentRow, Row, ActiveStatuses, TerminalStatuses, DeliveryStates
<1>2. Good(r)
  BY <1>1 DEF Good, TerminalStatuses
<1>3. rows = [t \in Tasks |-> r]
  BY DEF Init
<1>. HIDE DEF r
<1>4. rows \in [Tasks -> GoodRows] /\ \A t \in Tasks : ~rows[t].final
  BY <1>1, <1>2, <1>3 DEF GoodRows
<1>5. Idle \in Publisher /\ Idle.at = "idle"
  BY DEF Idle, Publisher, Places, Views
<1>6. PubType /\ \A t \in Tasks, a \in Publishers : At(t, a) = "idle"
  BY <1>5 DEF Init, PubType, At
<1>7. LockHeld /\ RootHeld
  BY <1>6 DEF LockHeld, RootHeld, LockPlaces, RootPlaces
<1>8. SendsOnce /\ Commits
  BY <1>4, <1>6 DEF SendsOnce, Commits, Init
<1>9. Held
  BY <1>4, <1>6, <1>7, <1>8 DEF Held, Promises
<1>10. ChannelTypes /\ TurnTypes
  BY Bounds DEF Init, ChannelTypes, TurnTypes
<1>. QED
  BY <1>9, <1>10, TypeParts DEF IInv

\* The invariant is inductive.
LEMMA StepHolds == IInv /\ [Next]_vars => IInv'
<1>. SUFFICES ASSUME IInv, [Next]_vars
              PROVE  IInv'
  OBVIOUS
<1>1. Held'
  BY StepKeeps DEF IInv
<1>2. ChannelTypes /\ TurnTypes
  BY TypeParts DEF IInv
<1>3. ChannelTypes' /\ TurnTypes'
  BY <1>2, PublishTypes, OtherTypes DEF Next
<1>4. Held' => (TypeOK' <=> ChannelTypes' /\ TurnTypes')
  BY DEF Held, PubType, TypeOK, StoreTypeOK, GoodRows, ChannelTypes, TurnTypes
<1>. QED
  BY <1>1, <1>3, <1>4 DEF IInv

\* The invariant holds in every state of every run.
LEMMA Invariance == Spec => []IInv
  BY InitHolds, StepHolds, PTL DEF Spec

\* Rows, publishers, the channel and the foreground turn keep their types: in particular
\* no attempt counter passes coding_delivery's limit.
THEOREM DeliveryTypes == Spec => []TypeOK
<1>1. IInv => TypeOK
  BY DEF IInv
<1>. QED
  BY <1>1, Invariance, PTL

\* A result is posted once, however many coroutines and restarts try to deliver it,
\* unless a recovery search could not see the earlier reply (coding_delivery.py 141-144).
THEOREM PostedOnce == Spec => []OneReplyPerResult
<1>1. IInv => OneReplyPerResult
  BY DEF IInv, Held, Promises, SendsOnce, OneReplyPerResult
<1>. QED
  BY <1>1, Invariance, PTL

\* What the row says was delivered is in the channel and in the transcript, whatever
\* crash hit _commit_final_delivery (coding_delivery.py 331-356).
THEOREM DeliveryRecorded == Spec => []DeliveredIsRecorded
<1>1. IInv => DeliveredIsRecorded
  BY DEF IInv, Held, Promises, Commits, DeliveredIsRecorded
<1>. QED
  BY <1>1, Invariance, PTL

\* Publishers, sweeps, resets and deletions together keep the retry budget: a result
\* still retried has attempts left and an unsettled row has spent none.
THEOREM DeliveryBudget == Spec => []RetryBudget
<1>1. IInv => RetryBudget
  BY DEF IInv, Held, GoodRows, Good, RetryBudget, Terminal
<1>. QED
  BY <1>1, Invariance, PTL

\* The sweeper never announces a task that is still running: with the publishers of
\* this model, too, only a settled row is owed, given up or delivered.
THEOREM DeliverySettled == Spec => []OnlySettledIsOwed
<1>1. IInv => OnlySettledIsOwed
  BY DEF IInv, Held, GoodRows, Good, OnlySettledIsOwed, Terminal
<1>. QED
  BY <1>1, Invariance, PTL

\* No reply is posted for a task whose row a deletion has taken away: the deletion
\* needs the conversation root that the sender holds (coding_delivery.py 274-281).
THEOREM ErasedStaysSilent == Spec => NoReplyAfterErasure
<1>1. ASSUME IInv, Next, NEW t \in Tasks, replies'[t] > replies[t]
      PROVE  ~Erased(t)
  <2>1. ASSUME UNCHANGED replies
        PROVE  FALSE
    BY <1>1, <2>1 DEF IInv, TypeOK
  <2>2. CASE \E u \in Tasks, a \in Publishers : Publish(u, a)
    <3>1. PICK u \in Tasks, a \in Publishers : Publish(u, a)
      BY <2>2
    <3>2. BeginSettled(u, a) \/ SendReply(u, a)
      BY <2>1, <3>1
         DEF Publish, BeginLive, Report, Acquire, ChannelLost, AlreadyDelivered,
             EditStatus, PostStatus, MarkStatus, EnterRoot, SearchReply, ReplyFails,
             RecordTranscript, CommitDelivery, ClearStatus, discord
    <3>3. "sending" \in RootPlaces /\ "notifier" \in Publishers
      BY DEF RootPlaces, Publishers
    <3>4. /\ replies' = [replies EXCEPT ![u] = @ + 1]
          /\ \E b \in Publishers : At(u, b) = "sending"
      BY <3>2, <3>3, <2>1 DEF BeginSettled, SendReply
    <3>5. u = t
      BY <3>4, <1>1 DEF IInv, TypeOK
    <3>. QED
      BY <3>3, <3>4, <3>5, <1>1 DEF IInv, Held, Promises, RootHeld
  <2>3. CASE ~(\E u \in Tasks, a \in Publishers : Publish(u, a))
    BY <2>1, <2>3, <1>1
       DEF Next, Rest, ReleaseAndNotify, AbandonStart, WorkerStarts, WorkerNotifies,
           WorkerPauses, WorkerFinishes, SweepExpired, SweepOwed, Stop, RetryDelivery,
           TurnCancels, CancelTask, EraseConversation, TurnBegins, TurnHearsBack,
           TurnTimesOut, TurnEnds, Restart, discord
  <2>. QED
    BY <2>2, <2>3
<1>2. IInv /\ [Next]_vars => [\A t \in Tasks : replies'[t] > replies[t] => ~Erased(t)]_vars
  BY <1>1 DEF vars
<1>. QED
  BY <1>2, Invariance, PTL DEF Spec, NoReplyAfterErasure

=============================================================================
