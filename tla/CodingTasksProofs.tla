------------------------- MODULE CodingTasksProofs -------------------------
(***************************************************************************)
(* Proofs about CodingTaskStore, for any number of tasks and workspaces    *)
(* and any limits: whatever calls are made, in whatever order, the rows    *)
(* keep StoreInv, a settled status is final and a stop request wins.       *)
(* Proofs about CodingTasks, for any number of tasks, workspaces, stop     *)
(* requests and restarts: every step of the service is a step the store    *)
(* allows; the claim window and the workers never meet on one task; a held *)
(* handoff never runs; nothing of a task outlives its worker; and while    *)
(* the service is up no running row is without an owner.                   *)
(*                                                                         *)
(* The argument for the store: every method but recover_interrupted writes *)
(* one row, so the argument is about single rows; a good row is one that   *)
(* StoreInv accepts, and each method is shown to write a good row over a   *)
(* good row.                                                               *)
(*                                                                         *)
(* The argument for the service: each actor (worker, tool child,           *)
(* scheduler, stop request, foreground turn) touches one task, so a lemma  *)
(* per actor says what its step does to that task, and a lemma per         *)
(* conjunct of IInv uses those.                                            *)
(***************************************************************************)
EXTENDS CodingTasks, TLAPS

-----------------------------------------------------------------------------
(* The store.                                                               *)

Good(r) ==
    /\ r.status \notin TerminalStatuses => (r.cancel <=> r.status = "cancelling")
    /\ r.delivery \in {"final_pending", "failed"} \/ r.final => r.status \in TerminalStatuses
    /\ r.delivery = "final_pending" => r.attempts < MaxAttempts
    /\ r.status \notin TerminalStatuses => r.attempts = 0
GoodRows == {r \in Row : Good(r)}

\* What a step may do to one row, old to new: SettledOnce and CancelWins.
Keeps(old, new) ==
    /\ old.status \in TerminalStatuses => new.status = old.status
    /\ old.cancel => /\ new.cancel
                     /\ old.status \in ActiveStatuses => new.status \in {"cancelling", "cancelled"}
TableKeeps ==
    /\ rows' \in [Tasks -> GoodRows]
    /\ \A u \in Tasks : Keeps(rows[u], rows'[u])

\* StoreInv, the promise about coding_tasks rows, speaks of each row separately.
LEMMA StoreInvIsPerRow == StoreInv <=> rows \in [Tasks -> GoodRows]
  BY
     DEF StoreInv, StoreTypeOK, CancelAgrees, OnlySettledIsOwed, RetryBudget, Active,
         Terminal, GoodRows, Good

\* One UPDATE: writing a good row that keeps what the old one promised.
LEMMA WriteGood ==
    ASSUME rows \in [Tasks -> GoodRows], NEW t \in Tasks, NEW r,
           r \in Row, Good(r), Keeps(rows[t], r), Write(t, r)
    PROVE  TableKeeps
<1>1. \A u \in Tasks : Good(rows[u]) /\ rows'[u] = IF u = t THEN r ELSE rows[u]
  BY DEF Write, GoodRows
<1>2. \A u \in Tasks : Keeps(rows[u], rows[u])
  BY <1>1 DEF Keeps, Good, ActiveStatuses, TerminalStatuses
<1>. QED
  BY <1>1, <1>2 DEF TableKeeps, Write, GoodRows

\* The column defaults of a row.
LEMMA AbsentGood == AbsentRow \in Row /\ Good(AbsentRow)
  BY StoreAssumption
  DEF AbsentRow, Good, Row, ActiveStatuses, TerminalStatuses, DeliveryStates

\* The table starts without rows.
LEMMA InitGood == StoreInit => rows \in [Tasks -> GoodRows]
  BY AbsentGood DEF StoreInit, GoodRows

\* Every method of the store writes good rows over good rows.
LEMMA StepKeeps ==
    ASSUME rows \in [Tasks -> GoodRows], StoreNext
    PROVE  TableKeeps
<1>row. ASSUME NEW t \in Tasks
        PROVE  rows[t] \in Row /\ Good(rows[t])
  BY DEF GoodRows
<1>max. MaxAttempts \in Nat /\ 0 < MaxAttempts /\ MaxSteers \in Nat /\ 0 \in 0..MaxAttempts
  BY StoreAssumption
<1>1. ASSUME NEW t \in Tasks, CreateTask(t)
      PROVE  TableKeeps
  <2>. DEFINE r == [AbsentRow EXCEPT !.status = "queued", !.handoff = TRUE]
  <2>1. r \in Row /\ Good(r)
    BY AbsentGood DEF AbsentRow, Good, Row, ActiveStatuses, TerminalStatuses, DeliveryStates
  <2>2. Keeps(rows[t], r)
    BY <1>1, <1>row DEF CreateTask, Keeps, Good, ActiveStatuses, TerminalStatuses
  <2>3. Write(t, r)
    BY <1>1 DEF CreateTask
  <2>. QED
    BY <2>1, <2>2, <2>3, WriteGood
<1>2. ASSUME NEW t \in Tasks, ReleaseHandoff(t)
      PROVE  TableKeeps
  <2>. DEFINE r == [rows[t] EXCEPT !.handoff = FALSE]
  <2>1. r \in Row
    BY <1>2, <1>row, <1>max
       DEF ReleaseHandoff, Row, ActiveStatuses, TerminalStatuses, DeliveryStates
  <2>2. Good(r)
    BY <1>2, <1>row, <1>max
       DEF ReleaseHandoff, Good, Row, ActiveStatuses, TerminalStatuses, DeliveryStates
  <2>3. Keeps(rows[t], r)
    BY <1>2, <1>row DEF ReleaseHandoff, Keeps, Good, Row, ActiveStatuses, TerminalStatuses
  <2>4. Write(t, r)
    BY <1>2 DEF ReleaseHandoff
  <2>. QED
    BY <2>1, <2>2, <2>3, <2>4, WriteGood
<1>3. ASSUME NEW t \in Tasks, AbandonHandoff(t)
      PROVE  TableKeeps
  <2>. DEFINE r == [rows[t] EXCEPT !.status = "cancelled", !.cancel = TRUE,
                              !.handoff = FALSE, !.delivery = "delivered"]
  <2>1. r \in Row
    BY <1>3, <1>row, <1>max
       DEF AbandonHandoff, Row, ActiveStatuses, TerminalStatuses, DeliveryStates
  <2>2. Good(r)
    BY <1>3, <1>row, <1>max
       DEF AbandonHandoff, Good, Row, ActiveStatuses, TerminalStatuses, DeliveryStates
  <2>3. Keeps(rows[t], r)
    BY <1>3, <1>row DEF AbandonHandoff, Keeps, Good, Row, ActiveStatuses, TerminalStatuses
  <2>4. Write(t, r)
    BY <1>3 DEF AbandonHandoff
  <2>. QED
    BY <2>1, <2>2, <2>3, <2>4, WriteGood
<1>4. ASSUME NEW t \in Tasks, NEW excluded \in SUBSET Tasks, ClaimNext(t, excluded)
      PROVE  TableKeeps
  <2>. DEFINE r == [rows[t] EXCEPT !.status = "running"]
  <2>1. r \in Row
    BY <1>4, <1>row, <1>max
       DEF ClaimNext, Claimable, Runnable, Row, ActiveStatuses, TerminalStatuses,
           DeliveryStates
  <2>2. Good(r)
    BY <1>4, <1>row, <1>max
       DEF ClaimNext, Claimable, Runnable, Good, Row, ActiveStatuses, TerminalStatuses,
           DeliveryStates
  <2>3. Keeps(rows[t], r)
    BY <1>4, <1>row
       DEF ClaimNext, Claimable, Runnable, Keeps, Good, Row, ActiveStatuses,
           TerminalStatuses
  <2>4. Write(t, r)
    BY <1>4 DEF ClaimNext
  <2>. QED
    BY <2>1, <2>2, <2>3, <2>4, WriteGood
<1>5. ASSUME NEW t \in Tasks, ReleaseClaim(t)
      PROVE  TableKeeps
  <2>. DEFINE r == [rows[t] EXCEPT !.status = "queued"]
  <2>1. r \in Row
    BY <1>5, <1>row, <1>max
       DEF ReleaseClaim, Row, ActiveStatuses, TerminalStatuses, DeliveryStates
  <2>2. Good(r)
    BY <1>5, <1>row, <1>max
       DEF ReleaseClaim, Good, Row, ActiveStatuses, TerminalStatuses, DeliveryStates
  <2>3. Keeps(rows[t], r)
    BY <1>5, <1>row DEF ReleaseClaim, Keeps, Good, Row, ActiveStatuses, TerminalStatuses
  <2>4. Write(t, r)
    BY <1>5 DEF ReleaseClaim
  <2>. QED
    BY <2>1, <2>2, <2>3, <2>4, WriteGood
<1>6. ASSUME NEW t \in Tasks, Steer(t)
      PROVE  TableKeeps
  <2>0. rows[t].steers + 1 \in 0..MaxSteers
    BY <1>6, <1>row, <1>max DEF Steer, Row
  <2>. DEFINE r == [rows[t] EXCEPT
              !.steers = @ + 1,
              !.status = IF @ = "waiting_for_input" THEN "queued" ELSE @]
  <2>1. r \in Row
    BY <1>6, <1>row, <1>max, <2>0
       DEF Steer, Active, Row, ActiveStatuses, TerminalStatuses, DeliveryStates
  <2>2. Good(r)
    BY <1>6, <1>row, <1>max, <2>0
       DEF Steer, Active, Good, Row, ActiveStatuses, TerminalStatuses, DeliveryStates
  <2>3. Keeps(rows[t], r)
    BY <1>6, <1>row DEF Steer, Active, Keeps, Good, Row, ActiveStatuses, TerminalStatuses
  <2>4. Write(t, r)
    BY <1>6 DEF Steer
  <2>. QED
    BY <2>1, <2>2, <2>3, <2>4, WriteGood
<1>7. ASSUME NEW t \in Tasks, NEW c \in 0..rows[t].steers, SetCheckpoint(t, c)
      PROVE  TableKeeps
  <2>0. c \in 0..MaxSteers
    BY <1>7, <1>row, <1>max DEF SetCheckpoint, Row
  <2>. DEFINE r == [rows[t] EXCEPT !.cursor = c]
  <2>1. r \in Row
    BY <1>7, <1>row, <1>max, <2>0
       DEF SetCheckpoint, Row, ActiveStatuses, TerminalStatuses, DeliveryStates
  <2>2. Good(r)
    BY <1>7, <1>row, <1>max, <2>0
       DEF SetCheckpoint, Good, Row, ActiveStatuses, TerminalStatuses, DeliveryStates
  <2>3. Keeps(rows[t], r)
    BY <1>7, <1>row DEF SetCheckpoint, Keeps, Good, Row, ActiveStatuses, TerminalStatuses
  <2>4. Write(t, r)
    BY <1>7 DEF SetCheckpoint
  <2>. QED
    BY <2>1, <2>2, <2>3, <2>4, WriteGood
<1>8. ASSUME NEW t \in Tasks, NEW to \in ActiveStatuses \ {"cancelling"}, Transition(t,
             ActiveStatuses, to)
      PROVE  TableKeeps
  <2>. DEFINE r == [rows[t] EXCEPT !.status = to]
  <2>1. r \in Row
    BY <1>8, <1>row, <1>max
       DEF Transition, CanTransition, Row, ActiveStatuses, TerminalStatuses, DeliveryStates
  <2>2. Good(r)
    BY <1>8, <1>row, <1>max
       DEF Transition, CanTransition, Good, Row, ActiveStatuses, TerminalStatuses,
           DeliveryStates
  <2>3. Keeps(rows[t], r)
    BY <1>8, <1>row
       DEF Transition, CanTransition, Keeps, Good, Row, ActiveStatuses, TerminalStatuses
  <2>4. Write(t, r)
    BY <1>8 DEF Transition
  <2>. QED
    BY <2>1, <2>2, <2>3, <2>4, WriteGood
<1>9. ASSUME NEW t \in Tasks, ExpireWaiting(t)
      PROVE  TableKeeps
  <2>. DEFINE r == [rows[t] EXCEPT !.status = "timed_out", !.delivery = "final_pending"]
  <2>1. r \in Row
    BY <1>9, <1>row, <1>max
       DEF ExpireWaiting, Row, ActiveStatuses, TerminalStatuses, DeliveryStates
  <2>2. Good(r)
    BY <1>9, <1>row, <1>max
       DEF ExpireWaiting, Good, Row, ActiveStatuses, TerminalStatuses, DeliveryStates
  <2>3. Keeps(rows[t], r)
    BY <1>9, <1>row DEF ExpireWaiting, Keeps, Good, Row, ActiveStatuses, TerminalStatuses
  <2>4. Write(t, r)
    BY <1>9 DEF ExpireWaiting
  <2>. QED
    BY <2>1, <2>2, <2>3, <2>4, WriteGood
<1>10. ASSUME NEW t \in Tasks, RequestCancel(t)
      PROVE  TableKeeps
  <2>. DEFINE r == [rows[t] EXCEPT !.cancel = TRUE, !.handoff = FALSE,
              !.status = IF rows[t].status \in {"queued", "waiting_for_input"} THEN "cancelled"
                         ELSE IF @ \in TerminalStatuses THEN @ ELSE "cancelling",
              !.delivery = IF rows[t].status \in {"queued", "waiting_for_input"}
                           THEN "final_pending" ELSE @]
  <2>1. r \in Row
    BY <1>10, <1>row, <1>max, ZenonT(60)
       DEF RequestCancel, Row, ActiveStatuses, TerminalStatuses, DeliveryStates
  <2>2. Good(r)
    BY <1>10, <1>row, <1>max
       DEF RequestCancel, Good, Row, ActiveStatuses, TerminalStatuses, DeliveryStates
  <2>3. Keeps(rows[t], r)
    BY <1>10, <1>row DEF RequestCancel, Keeps, Good, Row, ActiveStatuses, TerminalStatuses
  <2>4. Write(t, r)
    BY <1>10 DEF RequestCancel
  <2>. QED
    BY <2>1, <2>2, <2>3, <2>4, WriteGood
<1>11. ASSUME NEW t \in Tasks, NEW status \in TerminalStatuses, Finish(t, status)
      PROVE  TableKeeps
  <2>. DEFINE r == [rows[t] EXCEPT
              !.status = IF rows[t].cancel THEN "cancelled" ELSE status,
              !.delivery = "final_pending"]
  <2>1. r \in Row
    BY <1>11, <1>row, <1>max
       DEF Finish, Active, Row, ActiveStatuses, TerminalStatuses, DeliveryStates
  <2>2. Good(r)
    BY <1>11, <1>row, <1>max
       DEF Finish, Active, Good, Row, ActiveStatuses, TerminalStatuses, DeliveryStates
  <2>3. Keeps(rows[t], r)
    BY <1>11, <1>row DEF Finish, Active, Keeps, Good, Row, ActiveStatuses, TerminalStatuses
  <2>4. Write(t, r)
    BY <1>11 DEF Finish
  <2>. QED
    BY <2>1, <2>2, <2>3, <2>4, WriteGood
<1>12. ASSUME NEW t \in Tasks, MarkStatusMessage(t)
      PROVE  TableKeeps
  <2>. DEFINE r == [rows[t] EXCEPT
              !.delivery = IF @ = "final_pending" THEN @ ELSE "status_sent"]
  <2>1. r \in Row
    BY <1>12, <1>row, <1>max
       DEF MarkStatusMessage, Row, ActiveStatuses, TerminalStatuses, DeliveryStates
  <2>2. Good(r)
    BY <1>12, <1>row, <1>max
       DEF MarkStatusMessage, Good, Row, ActiveStatuses, TerminalStatuses, DeliveryStates
  <2>3. Keeps(rows[t], r)
    BY <1>12, <1>row
       DEF MarkStatusMessage, Keeps, Good, Row, ActiveStatuses, TerminalStatuses
  <2>4. Write(t, r)
    BY <1>12 DEF MarkStatusMessage
  <2>. QED
    BY <2>1, <2>2, <2>3, <2>4, WriteGood
<1>13. ASSUME NEW t \in Tasks, MarkDelivered(t)
      PROVE  TableKeeps
  <2>. DEFINE r == [rows[t] EXCEPT !.final = TRUE, !.delivery = "delivered"]
  <2>1. r \in Row
    BY <1>13, <1>row, <1>max
       DEF MarkDelivered, Terminal, Row, ActiveStatuses, TerminalStatuses, DeliveryStates
  <2>2. Good(r)
    BY <1>13, <1>row, <1>max
       DEF MarkDelivered, Terminal, Good, Row, ActiveStatuses, TerminalStatuses,
           DeliveryStates
  <2>3. Keeps(rows[t], r)
    BY <1>13, <1>row
       DEF MarkDelivered, Terminal, Keeps, Good, Row, ActiveStatuses, TerminalStatuses
  <2>4. Write(t, r)
    BY <1>13 DEF MarkDelivered
  <2>. QED
    BY <2>1, <2>2, <2>3, <2>4, WriteGood
<1>14. ASSUME NEW t \in Tasks, NEW giveUp \in BOOLEAN, RecordDeliveryFailure(t, giveUp)
      PROVE  TableKeeps
  <2>0. rows[t].attempts + 1 \in 0..MaxAttempts
    BY <1>14, <1>row, <1>max DEF RecordDeliveryFailure, OwesFinal, Good, Row
  <2>. DEFINE r == [rows[t] EXCEPT
              !.attempts = rows[t].attempts + 1,
              !.delivery = IF giveUp \/ rows[t].attempts + 1 >= MaxAttempts
                           THEN "failed" ELSE "final_pending"]
  <2>1. r \in Row
    BY <1>14, <1>row, <1>max, <2>0
       DEF RecordDeliveryFailure, OwesFinal, Row, ActiveStatuses, TerminalStatuses,
           DeliveryStates
  <2>2. Good(r)
    BY <1>14, <1>row, <1>max, <2>0
       DEF RecordDeliveryFailure, OwesFinal, Good, Row, ActiveStatuses, TerminalStatuses,
           DeliveryStates
  <2>3. Keeps(rows[t], r)
    BY <1>14, <1>row
       DEF RecordDeliveryFailure, OwesFinal, Keeps, Good, Row, ActiveStatuses,
           TerminalStatuses
  <2>4. Write(t, r)
    BY <1>14 DEF RecordDeliveryFailure
  <2>. QED
    BY <2>1, <2>2, <2>3, <2>4, WriteGood
<1>15. ASSUME NEW t \in Tasks, ResetDeliveryRetry(t)
      PROVE  TableKeeps
  <2>. DEFINE r == [rows[t] EXCEPT !.attempts = 0, !.delivery = "final_pending"]
  <2>1. r \in Row
    BY <1>15, <1>row, <1>max
       DEF ResetDeliveryRetry, Terminal, Row, ActiveStatuses, TerminalStatuses,
           DeliveryStates
  <2>2. Good(r)
    BY <1>15, <1>row, <1>max
       DEF ResetDeliveryRetry, Terminal, Good, Row, ActiveStatuses, TerminalStatuses,
           DeliveryStates
  <2>3. Keeps(rows[t], r)
    BY <1>15, <1>row
       DEF ResetDeliveryRetry, Terminal, Keeps, Good, Row, ActiveStatuses, TerminalStatuses
  <2>4. Write(t, r)
    BY <1>15 DEF ResetDeliveryRetry
  <2>. QED
    BY <2>1, <2>2, <2>3, <2>4, WriteGood
<1>16. ASSUME RecoverInterrupted
       PROVE  TableKeeps
  <2>1. ASSUME NEW t \in Tasks
        PROVE  Recovered(rows[t]) \in Row /\ Good(Recovered(rows[t]))
    <3>1. CASE rows[t].status \notin WritingStatuses \cup {"waiting_for_input"}
      BY <1>row, <3>1 DEF Recovered
    <3>2. CASE rows[t].status \in WritingStatuses \cup {"waiting_for_input"}
      BY <1>row, <1>max, <3>2, ZenonT(60)
         DEF Recovered, WritingStatuses, Good, Row, ActiveStatuses, TerminalStatuses,
             DeliveryStates
    <3>. QED
      BY <3>1, <3>2
  <2>2. ASSUME NEW t \in Tasks
        PROVE  Keeps(rows[t], Recovered(rows[t]))
    BY <1>row
       DEF Keeps, Recovered, WritingStatuses, Good, Row, ActiveStatuses, TerminalStatuses
  <2>. QED
    BY <1>16, <2>1, <2>2 DEF RecoverInterrupted, TableKeeps, GoodRows
<1>. QED
  BY <1>1, <1>2, <1>3, <1>4, <1>5, <1>6, <1>7, <1>8, <1>9, <1>10, <1>11, <1>12, <1>13,
     <1>14, <1>15, <1>16 DEF StoreNext

-----------------------------------------------------------------------------
(* Theorems.                                                                *)

\* Whatever the callers of the store do, its rows keep their types, the two
\* records of a stop request agree, only settled tasks are owed a result, and
\* the delivery retries stay within their budget.
THEOREM StoreInvariant == StoreSpec => []StoreInv
<1>1. StoreInit => StoreInv
  BY InitGood, StoreInvIsPerRow
<1>2. StoreInv /\ [StoreNext]_rows => StoreInv'
  <2>1. CASE StoreNext
    BY <2>1, StepKeeps, StoreInvIsPerRow
       DEF TableKeeps, StoreInv, StoreTypeOK, CancelAgrees, OnlySettledIsOwed, RetryBudget,
           Active, Terminal, GoodRows, Good
  <2>2. CASE UNCHANGED rows
    BY <2>2
       DEF StoreInv, StoreTypeOK, CancelAgrees, OnlySettledIsOwed, RetryBudget, Active,
           Terminal
  <2>. QED
    BY <2>1, <2>2
<1>. QED
  BY <1>1, <1>2, PTL DEF StoreSpec

\* No store call changes a settled status: "a terminal or delivered result
\* cannot be replaced by a late worker" (docs/coding-agent.md 111).
THEOREM SettledStaysSettled == StoreSpec => SettledOnce
<1>1. StoreInv /\ [StoreNext]_rows
        => [\A t \in Tasks : Terminal(t) => rows'[t].status = rows[t].status]_rows
  BY StepKeeps, StoreInvIsPerRow DEF TableKeeps, Keeps, Terminal
<1>. QED
  BY <1>1, StoreInvariant, PTL DEF StoreSpec, SettledOnce

\* A stop request is never withdrawn and overrides every later verdict
\* (request_cancel and finish, bot/storage/coding_tasks.py).
THEOREM StopRequestWins == StoreSpec => CancelWins
<1>1. StoreInv /\ [StoreNext]_rows
        => [\A t \in Tasks : rows[t].cancel =>
              /\ rows'[t].cancel
              /\ Active(t) => rows'[t].status \in {"cancelling", "cancelled"}]_rows
  BY StepKeeps, StoreInvIsPerRow DEF TableKeeps, Keeps, Active
<1>. QED
  BY <1>1, StoreInvariant, PTL DEF StoreSpec, CancelWins

-----------------------------------------------------------------------------
(* The service.                                                             *)

(* The inductive invariant.                                                 *)

\* The statuses that must have an owner while the service is up.
Claimed == {"running", "waiting_for_job", "recovering"}

\* An id that was never created has no journal and nobody works on it.
AbsentIsUntouched ==
    \A t \in Tasks : rows[t].status = "absent" =>
        rows[t].steers = 0 /\ pc[t] = "none" /\ sched # t

\* Cursors, in memory and in the checkpoint, never pass the end of the journal.
CursorsBehindJournal ==
    \A t \in Tasks : seen[t] <= rows[t].steers /\ rows[t].cursor <= rows[t].steers

\* A stop request in progress is about a task, and past request_cancel the row
\* records it.
StopsNameTasks == \A c \in Stoppers : stop[c].pc # "idle" => stop[c].task \in Tasks
StopsAreRecorded ==
    \A c \in Stoppers : stop[c].pc \in {"requested", "waiting"} => rows[stop[c].task].cancel

\* Before it enters its run a worker has started nothing.
NothingBeforeRun ==
    \A t \in Tasks : pc[t] \in {"none", "new", "locking"} => ~job[t] /\ child[t] = "none"

\* In the claim window a row is running, stopped or settled, never paused.
ClaimWindow == sched # 0 => rows[sched].status \in {"running", "cancelling"} \cup TerminalStatuses

\* Before shutdown only a recorded stop request interrupts a worker.
InterruptedByStop ==
    phase = "up" => \A t \in Tasks : thrown[t] \/ pc[t] = "stopping" => rows[t].cancel

\* A worker on its way out has left its row paused, queued or settled.
UnwoundIsUnclaimed ==
    phase = "up" => \A t \in Tasks :
        pc[t] \in {"parking", "draining", "final"} => rows[t].status \notin Claimed

\* Startup begins with no coroutine and with normalized rows.
BootIsQuiet ==
    phase \in {"down", "booting"} =>
        /\ sched = 0
        /\ \A t \in Tasks : pc[t] = "none" /\ ~thrown[t]
        /\ phase = "booting" => \A t \in Tasks : rows[t].status \notin Claimed

IInv ==
    /\ TypeOK /\ StoreInv
    /\ AbsentIsUntouched /\ CursorsBehindJournal /\ StopsNameTasks /\ StopsAreRecorded
    /\ OneWorkerPerTask /\ NothingBeforeRun /\ HeldUntilHandoff /\ ClaimWindow
    /\ InterruptedByStop /\ UnwoundIsUnclaimed /\ BootIsQuiet /\ NoOrphanClaim

-----------------------------------------------------------------------------
(* What the store calls of the service leave of the rows.                   *)

SameBookkeeping(t) ==
    /\ rows'[t].steers = rows[t].steers
    /\ rows'[t].handoff = rows[t].handoff /\ rows'[t].cancel = rows[t].cancel
OthersSame(t) == \A u \in Tasks \ {t} : rows'[u] = rows[u]

\* finish, tolerated when the row is already settled.
LEMMA FinishEffect ==
    ASSUME TypeOK, NEW t \in Tasks, NEW status \in TerminalStatuses, TryFinish(t, status)
    PROVE  /\ OthersSame(t) /\ SameBookkeeping(t) /\ rows'[t].cursor = rows[t].cursor
           /\ rows'[t].status \notin ActiveStatuses
           /\ IF Active(t) THEN rows'[t].status \in TerminalStatuses ELSE UNCHANGED rows
<1>1. CASE Finish(t, status)
  BY <1>1
     DEF Finish, Write, TypeOK, StoreTypeOK, Row, ActiveStatuses, TerminalStatuses, Active,
         OthersSame, SameBookkeeping
<1>2. CASE ~Active(t) /\ UNCHANGED rows
  BY <1>2 DEF Active, OthersSame, SameBookkeeping
<1>. QED
  BY <1>1, <1>2 DEF TryFinish

\* transition_active_status, tolerated when the compare-and-set fails.
LEMMA TransitionEffect ==
    ASSUME TypeOK, NEW t \in Tasks, NEW from, NEW to \in ActiveStatuses, TryTransition(t, from, to)
    PROVE  /\ OthersSame(t) /\ SameBookkeeping(t) /\ rows'[t].cursor = rows[t].cursor
           /\ \/ rows'[t].status = rows[t].status
              \/ rows[t].status \in from /\ rows'[t].status = to /\ ~rows[t].cancel
  BY
     DEF TryTransition, Transition, Write, CanTransition, TypeOK, StoreTypeOK, Row,
         OthersSame, SameBookkeeping

\* request_cancel
LEMMA CancelEffect ==
    ASSUME TypeOK, NEW t \in Tasks, RequestCancel(t)
    PROVE  /\ OthersSame(t)
           /\ rows'[t].steers = rows[t].steers /\ rows'[t].cursor = rows[t].cursor
           /\ ~rows'[t].handoff /\ rows'[t].cancel /\ rows[t].status # "absent"
           /\ rows'[t].status =
                 IF rows[t].status \in {"queued", "waiting_for_input"} THEN "cancelled"
                 ELSE IF rows[t].status \in TerminalStatuses THEN rows[t].status
                 ELSE "cancelling"
  BY DEF RequestCancel, Write, TypeOK, StoreTypeOK, Row, OthersSame
-----------------------------------------------------------------------------
(* What a step of each actor does to its task.                              *)

\* A foreground turn (tools and handoff) or startup: the row of one task only.
LEMMA ForegroundEffect ==
    ASSUME TypeOK, NEW t \in Tasks, Foreground(t)
    PROVE  /\ UNCHANGED svcVars /\ OthersSame(t)
           /\ \/ rows'[t].handoff /\ rows[t].status = "absent" /\ rows'[t].status = "queued"
                    /\ ~rows'[t].cancel /\ rows'[t].steers = 0 /\ rows'[t].cursor = 0
              \/ /\ rows[t].status # "absent" /\ rows'[t].status # "absent"
                 /\ rows[t].cancel => rows'[t].cancel
                 /\ rows'[t].handoff => rows[t].handoff
                 /\ rows'[t].steers >= rows[t].steers /\ rows'[t].cursor = rows[t].cursor
                 /\ \/ rows'[t].status = rows[t].status
                    \/ rows[t].status = "waiting_for_input" /\ rows'[t].status = "queued"
                    \/ ~rows'[t].handoff /\ rows'[t].status \in {"cancelling"} \cup TerminalStatuses
<1>. rows[t].steers \in Nat
  BY StoreAssumption DEF TypeOK, StoreTypeOK, Row
<1>1. CASE StartFromTool(t)
  BY <1>1 DEF StartFromTool, CreateTask, AbsentRow, Write, TypeOK, StoreTypeOK, OthersSame
<1>2. CASE AbandonStart(t) \/ FinalizeHandoff(t)
  <2>1. CASE AbandonStart(t)
    BY <2>1
       DEF AbandonStart, AbandonHandoff, Write, TypeOK, StoreTypeOK, Row, OthersSame,
           TerminalStatuses
  <2>2. CASE FinalizeHandoff(t)
    BY <2>2 DEF FinalizeHandoff, ReleaseHandoff, Write, TypeOK, StoreTypeOK, Row, OthersSame
  <2>. QED
    BY <1>2, <2>1, <2>2
<1>3. CASE CancelUnacknowledged(t)
  <2>1. UNCHANGED svcVars /\ RequestCancel(t)
    BY <1>3 DEF CancelUnacknowledged
  <2>2. rows'[t].status \in {"cancelling"} \cup TerminalStatuses
    BY <2>1, CancelEffect DEF TerminalStatuses
  <2>3. rows'[t].status # "absent"
    BY <2>2 DEF TerminalStatuses
  <2>. QED
    BY <2>1, <2>2, <2>3, CancelEffect
<1>4. CASE SteerFromTool(t)
  <2>1. /\ OthersSame(t) /\ rows'[t].steers = rows[t].steers + 1
        /\ rows'[t].cursor = rows[t].cursor
        /\ rows'[t].handoff = rows[t].handoff /\ rows'[t].cancel = rows[t].cancel
        /\ rows'[t].status = IF rows[t].status = "waiting_for_input" THEN "queued" ELSE rows[t].status
    BY <1>4 DEF SteerFromTool, Steer, Write, TypeOK, StoreTypeOK, Row, OthersSame
  <2>2. rows[t].status \in ActiveStatuses /\ UNCHANGED svcVars
    BY <1>4 DEF SteerFromTool, Steer, Active
  <2>. QED
    BY <2>1, <2>2 DEF ActiveStatuses
<1>. QED
  BY <1>1, <1>2, <1>3, <1>4 DEF Foreground

\* The scheduler: expiry, claim, launch, or a claim given back or settled.
LEMMA SchedulerEffect ==
    ASSUME TypeOK, CancelAgrees, ClaimWindow, NEW t \in Tasks,
           \/ SchedExpire(t) \/ SchedClaim(t) \/ SchedLaunch(t)
           \/ SchedBlocked(t) \/ SchedReleaseClaim(t)
    PROVE  /\ UNCHANGED <<phase, thrown, seen, child, job, stop>>
           /\ OthersSame(t) /\ rows[t].status # "absent"
           /\ rows'[t].steers = rows[t].steers /\ rows'[t].cursor = rows[t].cursor
           /\ rows'[t].cancel = rows[t].cancel /\ rows'[t].handoff = rows[t].handoff
           /\ rows'[t].status # "absent"
           /\ \/ /\ UNCHANGED <<sched, pc>>
                 /\ rows[t].status = "waiting_for_input" /\ rows'[t].status = "timed_out"
              \/ /\ sched = 0 /\ sched' = t /\ pc' = pc /\ pc[t] = "none"
                 /\ rows[t].status = "queued" /\ rows'[t].status = "running"
                 /\ ~rows[t].handoff
              \/ /\ sched = t /\ sched' = 0 /\ pc[t] = "none" /\ pc'[t] = "new"
                 /\ \A u \in Tasks \ {t} : pc'[u] = pc[u]
                 /\ UNCHANGED rows /\ rows[t].status = "running"
              \/ /\ sched = t /\ sched' = 0 /\ pc' = pc
                 /\ rows'[t].status \notin Claimed
                 /\ rows[t].status # "queued" \/ UNCHANGED rows
<1>fin. "cancelled" \in TerminalStatuses
  BY DEF TerminalStatuses
<1>1. CASE SchedExpire(t)
  BY <1>1
     DEF SchedExpire, ExpireWaiting, Write, TypeOK, StoreTypeOK, Row, OthersSame, svcVars
<1>2. CASE SchedClaim(t)
  BY <1>2
     DEF SchedClaim, Registered, ClaimNext, Claimable, Runnable, Write, TypeOK,
         StoreTypeOK, Row, OthersSame
<1>3. CASE SchedLaunch(t) \/ SchedBlocked(t) \/ SchedReleaseClaim(t)
  <2>1. /\ UNCHANGED <<phase, thrown, seen, child, job, stop>> /\ sched = t /\ sched' = 0
        /\ rows[t].status \in {"running", "cancelling"} \cup TerminalStatuses
        /\ rows[t].status = "running" => ~rows[t].cancel
        /\ rows[t].status = "cancelling" => rows[t].cancel
    BY <1>3
       DEF SchedLaunch, SchedBlocked, SchedReleaseClaim, ClaimWindow, CancelAgrees,
           Terminal, TerminalStatuses
  <2>2. CASE TryFinish(t, "cancelled") /\ pc' = pc
    BY <2>1, <2>2, <1>fin, FinishEffect
       DEF SameBookkeeping, ActiveStatuses, TerminalStatuses, Claimed, Active
  <2>3. CASE ReleaseClaim(t) /\ pc' = pc
    BY <2>1, <2>3 DEF ReleaseClaim, Write, TypeOK, StoreTypeOK, Row, OthersSame, Claimed
  <2>4. CASE UNCHANGED rows /\ pc' = [pc EXCEPT ![t] = "new"] /\ pc[t] = "none"
             /\ rows[t].status = "running"
    BY <2>1, <2>4 DEF OthersSame, TypeOK
  <2>5. CASE UNCHANGED rows /\ pc' = pc /\ rows[t].status # "running" /\ ~rows[t].cancel
    BY <2>1, <2>5 DEF OthersSame, Claimed, TerminalStatuses
  <2>. QED
    BY <1>3, <2>2, <2>3, <2>4, <2>5 DEF SchedLaunch, SchedBlocked, SchedReleaseClaim, Goto
<1>. QED
  BY <1>1, <1>2, <1>3

\* A worker: one of its awaits ends.
LEMMA WorkerEffect ==
    ASSUME TypeOK, NEW t \in Tasks, Worker(t)
    PROVE  /\ UNCHANGED <<phase, sched, stop>> /\ pc[t] # "none"
           /\ OthersSame(t) /\ SameBookkeeping(t)
           /\ \A u \in Tasks \ {t} : pc'[u] = pc[u] /\ thrown'[u] = thrown[u] /\ seen'[u] = seen[u]
           /\ thrown'[t] => thrown[t]
           /\ seen'[t] \in {0, seen[t], rows[t].cursor, rows[t].steers}
           /\ rows'[t].cursor \in {rows[t].cursor, seen[t]}
           /\ \/ rows'[t].status = rows[t].status
              \/ rows[t].status \in ActiveStatuses /\ rows'[t].status \in TerminalStatuses
              \/ /\ rows[t].status \in {"queued", "waiting_for_job"}
                 /\ rows'[t].status = "running" /\ pc'[t] \in {"thinking", "tools"}
              \/ /\ rows[t].status \in {"running", "waiting_for_job", "waiting_for_input"}
                 /\ rows'[t].status = "recovering" /\ ~rows[t].cancel /\ pc[t] = "stopping"
<1>. USE DEF Goto
<1>pc. /\ UNCHANGED <<phase, sched, stop>> /\ pc[t] # "none"
       /\ \A u \in Tasks \ {t} : pc'[u] = pc[u] /\ thrown'[u] = thrown[u] /\ seen'[u] = seen[u]
       /\ thrown'[t] => thrown[t]
       /\ seen'[t] \in {0, seen[t], rows[t].cursor, rows[t].steers}
  BY
     DEF Worker, WorkerBegins, WorkerEnters, WorkerCallsTools, WorkerHasChildResult,
         WorkerDecides, WorkerParks, WorkerSeals, WorkerRaises, WorkerInterrupted,
         WorkerDrains, WorkerStarts, WorkerSettles, WorkerPolls, WorkerReturns,
         WorkerCallsChild, WorkerExits, WorkerCheckpoints, WorkerFails, WorkerHandlesStop,
         WorkerSeesJobDone, svcVars, TypeOK
<1>fin. Verdicts \cup {"cancelled"} \subseteq TerminalStatuses
  BY DEF Verdicts, TerminalStatuses
<1>1. CASE UNCHANGED rows
  BY <1>1, <1>pc DEF SameBookkeeping, OthersSame
<1>2. CASE WorkerCheckpoints(t)
  BY <1>2, <1>pc
     DEF WorkerCheckpoints, SetCheckpoint, Write, TypeOK, StoreTypeOK, Row,
         SameBookkeeping, OthersSame
<1>3. CASE \E status \in TerminalStatuses : TryFinish(t, status)
  BY <1>3, <1>pc, FinishEffect DEF Active, SameBookkeeping, OthersSame
<1>4. CASE WorkerStarts(t) \/ WorkerSettles(t) \/ WorkerFails(t)
  BY <1>4, <1>1, <1>3, <1>fin DEF WorkerStarts, WorkerSettles, WorkerFails, Verdicts, TypeOK
<1>5. CASE WorkerPolls(t)
  <2>1. CASE TryTransition(t, {"queued"}, "running")
    BY <2>1, <1>5, <1>pc, TransitionEffect DEF WorkerPolls, ActiveStatuses, TypeOK
  <2>. QED
    BY <1>5, <1>1, <2>1 DEF WorkerPolls
<1>6. CASE WorkerSeesJobDone(t)
  <2>1. TryTransition(t, {"waiting_for_job"}, "running") /\ pc'[t] = "tools"
    BY <1>6 DEF WorkerSeesJobDone, TryTransition, Transition, svcVars
  <2>. QED
    BY <2>1, <1>pc, TransitionEffect DEF ActiveStatuses
<1>7. CASE WorkerHandlesStop(t)
  <2>1. CASE TryTransition(t, {"running", "waiting_for_job", "waiting_for_input"}, "recovering")
    BY <2>1, <1>7, <1>pc, TransitionEffect DEF WorkerHandlesStop, ActiveStatuses
  <2>. QED
    BY <1>7, <1>3, <1>fin, <2>1 DEF WorkerHandlesStop
<1>. QED
  BY <1>1, <1>2, <1>4, <1>5, <1>6, <1>7
     DEF Worker, WorkerBegins, WorkerEnters, WorkerCallsTools, WorkerHasChildResult,
         WorkerDecides, WorkerParks, WorkerSeals, WorkerRaises, WorkerInterrupted,
         WorkerDrains, WorkerReturns, WorkerCallsChild, WorkerExits

\* A tool child or job moves the row only from a live claim, and only while it
\* exists.
LEMMA BackgroundEffect ==
    ASSUME TypeOK, NEW t \in Tasks, Background(t)
    PROVE  /\ UNCHANGED <<phase, sched, pc, thrown, seen, stop>>
           /\ \A u \in Tasks \ {t} : rows'[u] = rows[u] /\ job'[u] = job[u] /\ child'[u] = child[u]
           /\ SameBookkeeping(t) /\ rows'[t].cursor = rows[t].cursor
           /\ child[t] # "none" \/ job[t]
           /\ job'[t] \/ child'[t] # "none" => job[t] \/ child[t] # "none"
           /\ \/ rows'[t].status = rows[t].status
              \/ /\ rows[t].status \in {"running", "waiting_for_job"} /\ child[t] # "none"
                 /\ rows'[t].status \in {"waiting_for_job", "waiting_for_input"}
<1>1. CASE ChildStartsJob(t) \/ ChildDroppedJob(t) \/ JobEnds(t)
  BY <1>1 DEF ChildStartsJob, ChildDroppedJob, JobEnds, TypeOK, SameBookkeeping
<1>2. CASE ChildAsks(t)
  BY <1>2, TransitionEffect
     DEF ChildAsks, TypeOK, SameBookkeeping, OthersSame, ActiveStatuses
<1>3. CASE ChildLinksJob(t)
  BY <1>3, TransitionEffect
     DEF ChildLinksJob, TypeOK, SameBookkeeping, OthersSame, ActiveStatuses
<1>. QED
  BY <1>1, <1>2, <1>3 DEF Background

\* A stop request settles or cancels its row and may interrupt its worker.
LEMMA StopperEffect ==
    ASSUME TypeOK, CancelAgrees, HeldUntilHandoff, StopsNameTasks, StopsAreRecorded,
           NEW c \in Stoppers, Stopper(c), NEW t, t = stop[c].task
    PROVE  /\ UNCHANGED <<phase, sched, pc, seen, child, job>>
           /\ t \in Tasks /\ OthersSame(t)
           /\ \A u \in Tasks : thrown'[u] => thrown[u] \/ (u = t /\ rows'[u].cancel)
           /\ \A d \in Stoppers \ {c} : stop'[d] = stop[d]
           /\ \/ stop'[c].pc = "idle"
              \/ stop'[c].task = t /\ rows'[t].cancel
           /\ rows'[t].steers = rows[t].steers /\ rows'[t].cursor = rows[t].cursor
           /\ rows[t].cancel => rows'[t].cancel
           /\ rows'[t].handoff => rows[t].handoff /\ rows'[t].status = rows[t].status
           /\ (rows'[t].status = "absent") <=> (rows[t].status = "absent")
           /\ \/ rows'[t].status = rows[t].status
              \/ rows'[t].status \in {"cancelling"} \cup TerminalStatuses
<1>. stop[c].pc # "idle" => t \in Tasks
  BY DEF StopsNameTasks
<1>. \A p : \A q \in [pc : {"idle", "requesting", "requested", "waiting"}, task : Tasks \cup {0}] :
        [q EXCEPT !.pc = p].pc = p /\ [q EXCEPT !.pc = p].task = q.task
  OBVIOUS
<1>. stop[c] \in [pc : {"idle", "requesting", "requested", "waiting"}, task : Tasks \cup {0}]
  BY DEF TypeOK
<1>1. CASE StopRequests(c)
  <2>1. /\ t \in Tasks /\ RequestCancel(t)
        /\ UNCHANGED <<phase, sched, pc, seen, child, job, thrown>>
    BY <1>1 DEF StopRequests, StopAt
  <2>2. /\ \A d \in Stoppers \ {c} : stop'[d] = stop[d]
        /\ stop'[c].task = t
    BY <1>1 DEF StopRequests, StopAt, TypeOK
  <2>3. /\ rows'[t].status = rows[t].status \/ rows'[t].status \in {"cancelling"} \cup TerminalStatuses
        /\ rows'[t].status # "absent"
    BY <2>1, CancelEffect DEF TerminalStatuses
  <2>. QED
    BY <2>1, <2>2, <2>3, CancelEffect
<1>2. CASE StopSeesWorkerEnd(c) \/ StopWithoutWorker(c)
  <2>1. /\ t \in Tasks /\ rows[t].cancel /\ "cancelled" \in TerminalStatuses
        /\ UNCHANGED <<phase, sched, pc, seen, child, job, thrown>>
    BY <1>2 DEF StopSeesWorkerEnd, StopWithoutWorker, StopsAreRecorded, TerminalStatuses
  <2>2. /\ \A d \in Stoppers \ {c} : stop'[d] = stop[d]
        /\ stop'[c].pc = "idle"
    BY <1>2 DEF StopSeesWorkerEnd, StopWithoutWorker, Idle, TypeOK
  <2>3. CASE UNCHANGED rows
    BY <2>1, <2>2, <2>3 DEF OthersSame
  <2>4. CASE TryFinish(t, "cancelled") /\ Active(t)
    <3>1. /\ rows'[t].status \in TerminalStatuses /\ rows'[t].status # "absent"
          /\ rows[t].status # "absent" /\ ~rows[t].handoff
      BY <2>1, <2>4, FinishEffect
         DEF Active, ActiveStatuses, TerminalStatuses, Terminal, CancelAgrees,
             HeldUntilHandoff
    <3>. QED
      BY <2>1, <2>2, <2>4, <3>1, FinishEffect DEF SameBookkeeping
  <2>. QED
    BY <1>2, <2>3, <2>4 DEF StopSeesWorkerEnd, StopWithoutWorker, TryFinish, Finish
<1>3. CASE StopInterrupts(c)
  <2>1. /\ t \in Tasks /\ rows[t].cancel
        /\ UNCHANGED <<rows, phase, sched, pc, seen, child, job>>
        /\ thrown' = [thrown EXCEPT ![t] = TRUE]
    BY <1>3 DEF StopInterrupts, StopAt, StopsAreRecorded
  <2>2. /\ \A d \in Stoppers \ {c} : stop'[d] = stop[d]
        /\ stop'[c].task = t
    BY <1>3 DEF StopInterrupts, StopAt, TypeOK
  <2>. QED
    BY <2>1, <2>2 DEF OthersSame, TypeOK
<1>4. CASE StopTimesOut(c)
  <2>1. /\ t \in Tasks
        /\ UNCHANGED <<rows, phase, sched, pc, seen, child, job, thrown>>
    BY <1>4 DEF StopTimesOut
  <2>2. /\ \A d \in Stoppers \ {c} : stop'[d] = stop[d]
        /\ stop'[c].pc = "idle"
    BY <1>4 DEF StopTimesOut, Idle, TypeOK
  <2>. QED
    BY <2>1, <2>2 DEF OthersSame
<1>. QED
  BY <1>1, <1>2, <1>3, <1>4 DEF Stopper

-----------------------------------------------------------------------------
(* The service only makes store calls the store's specification allows.     *)

\* Every step of the service is a step of StoreSpec or leaves the rows alone.
LEMMA ServiceStepIsStoreStep ==
    ASSUME TypeOK, CursorsBehindJournal, StopsNameTasks, Next
    PROVE  StoreNext \/ UNCHANGED rows
<1>. USE ServiceAssumption
<1>foreground. ASSUME NEW t \in Tasks, Foreground(t)
               PROVE  StoreNext
  BY <1>foreground
     DEF Foreground, StartFromTool, AbandonStart, FinalizeHandoff, CancelUnacknowledged,
         SteerFromTool, StoreNext
<1>finish. ASSUME NEW t \in Tasks, NEW status \in TerminalStatuses, TryFinish(t, status)
           PROVE  StoreNext \/ UNCHANGED rows
  BY <1>finish DEF TryFinish, StoreNext
<1>transition. ASSUME NEW t \in Tasks, NEW from \in SUBSET ActiveStatuses,
                      NEW to \in ActiveStatuses \ {"cancelling"}, TryTransition(t, from, to)
               PROVE  StoreNext \/ UNCHANGED rows
  <2>1. CASE Transition(t, from, to)
    <3>1. Transition(t, ActiveStatuses, to)
      BY <2>1 DEF Transition, CanTransition
    <3>. QED
      BY <3>1 DEF StoreNext
  <2>. QED
    BY <1>transition, <2>1 DEF TryTransition
<1>scheduler. ASSUME Scheduler
              PROVE  StoreNext \/ UNCHANGED rows
  <2>. PICK t \in Tasks : \/ SchedExpire(t) \/ SchedClaim(t) \/ SchedLaunch(t)
                          \/ SchedBlocked(t) \/ SchedReleaseClaim(t)
    BY <1>scheduler DEF Scheduler
  <2>. "cancelled" \in TerminalStatuses
    BY DEF TerminalStatuses
  <2>1. CASE SchedExpire(t)
    BY <2>1 DEF SchedExpire, StoreNext
  <2>2. CASE SchedClaim(t)
    BY <2>2 DEF SchedClaim, Registered, StoreNext
  <2>3. CASE SchedLaunch(t)
    BY <2>3, <1>finish DEF SchedLaunch
  <2>4. CASE SchedBlocked(t)
    BY <2>4, <1>finish DEF SchedBlocked
  <2>5. CASE SchedReleaseClaim(t)
    BY <2>5, <1>finish DEF SchedReleaseClaim, StoreNext
  <2>. QED
    BY <2>1, <2>2, <2>3, <2>4, <2>5
<1>worker. ASSUME NEW t \in Tasks, Worker(t)
           PROVE  StoreNext \/ UNCHANGED rows
  <2>. Verdicts \subseteq TerminalStatuses /\ "cancelled" \in TerminalStatuses
    BY DEF Verdicts, TerminalStatuses
  <2>1. CASE \/ WorkerBegins(t) \/ WorkerEnters(t) \/ WorkerCallsTools(t)
             \/ WorkerHasChildResult(t) \/ WorkerDecides(t) \/ WorkerParks(t) \/ WorkerSeals(t)
             \/ WorkerRaises(t) \/ WorkerInterrupted(t) \/ WorkerDrains(t) \/ WorkerExits(t)
    BY <2>1
       DEF WorkerBegins, WorkerEnters, WorkerCallsTools, WorkerHasChildResult,
           WorkerDecides, WorkerParks, WorkerSeals, WorkerRaises, WorkerInterrupted,
           WorkerDrains, WorkerExits
  <2>2. CASE \E tool \in {"asking", "starting_job"} : WorkerCallsChild(t, tool)
    BY <2>2 DEF WorkerCallsChild
  <2>3. CASE \E verdict \in Verdicts : WorkerReturns(t, verdict)
    BY <2>3 DEF WorkerReturns
  <2>4. CASE WorkerStarts(t)
    BY <2>4, <1>finish DEF WorkerStarts, Verdicts
  <2>5. CASE WorkerPolls(t)
    <3>1. {"queued"} \in SUBSET ActiveStatuses /\ "running" \in ActiveStatuses \ {"cancelling"}
      BY DEF ActiveStatuses
    <3>. QED
      BY <2>5, <3>1, <1>transition DEF WorkerPolls
  <2>6. CASE WorkerSeesJobDone(t)
    <3>1. TryTransition(t, {"waiting_for_job"}, "running")
      BY <2>6 DEF WorkerSeesJobDone, Transition, TryTransition
    <3>2. {"waiting_for_job"} \in SUBSET ActiveStatuses /\ "running" \in ActiveStatuses \ {"cancelling"}
      BY DEF ActiveStatuses
    <3>. QED
      BY <3>1, <3>2, <1>transition
  <2>7. CASE WorkerCheckpoints(t)
    <3>1. seen[t] \in 0..rows[t].steers /\ SetCheckpoint(t, seen[t])
      BY <2>7 DEF WorkerCheckpoints, CursorsBehindJournal, TypeOK, StoreTypeOK, Row
    <3>. QED
      BY <3>1 DEF StoreNext
  <2>8. CASE WorkerSettles(t)
    BY <2>8, <1>finish DEF WorkerSettles, TypeOK
  <2>9. CASE WorkerFails(t)
    BY <2>9, <1>finish DEF WorkerFails, Verdicts
  <2>10. CASE WorkerHandlesStop(t)
    <3>1. /\ {"running", "waiting_for_job", "waiting_for_input"} \in SUBSET ActiveStatuses
          /\ "recovering" \in ActiveStatuses \ {"cancelling"}
      BY DEF ActiveStatuses
    <3>. QED
      BY <2>10, <3>1, <1>finish, <1>transition DEF WorkerHandlesStop
  <2>. QED
    BY <1>worker, <2>1, <2>2, <2>3, <2>4, <2>5, <2>6, <2>7, <2>8, <2>9, <2>10 DEF Worker
<1>background. ASSUME NEW t \in Tasks, Background(t)
               PROVE  StoreNext \/ UNCHANGED rows
  <2>1. /\ {"running", "waiting_for_job"} \in SUBSET ActiveStatuses
        /\ "waiting_for_input" \in ActiveStatuses \ {"cancelling"}
        /\ "waiting_for_job" \in ActiveStatuses \ {"cancelling"}
    BY DEF ActiveStatuses
  <2>2. CASE ChildAsks(t)
    BY <2>1, <2>2, <1>transition DEF ChildAsks
  <2>3. CASE ChildLinksJob(t)
    BY <2>1, <2>3, <1>transition DEF ChildLinksJob
  <2>4. CASE ChildStartsJob(t) \/ ChildDroppedJob(t) \/ JobEnds(t)
    BY <2>4 DEF ChildStartsJob, ChildDroppedJob, JobEnds
  <2>. QED
    BY <1>background, <2>2, <2>3, <2>4 DEF Background
<1>stopper. ASSUME NEW c \in Stoppers, Stopper(c)
            PROVE  StoreNext \/ UNCHANGED rows
  <2>. "cancelled" \in TerminalStatuses
    BY DEF TerminalStatuses
  <2>1. CASE StopRequests(c)
    <3>1. stop[c].task \in Tasks /\ RequestCancel(stop[c].task)
      BY <2>1 DEF StopRequests, StopAt, StopsNameTasks
    <3>. QED
      BY <3>1 DEF StoreNext
  <2>2. CASE StopSeesWorkerEnd(c)
    <3>1. stop[c].task \in Tasks /\ TryFinish(stop[c].task, "cancelled")
      BY <2>2 DEF StopSeesWorkerEnd, StopsNameTasks
    <3>. QED
      BY <3>1, <1>finish
  <2>3. CASE StopWithoutWorker(c)
    <3>1. /\ stop[c].task \in Tasks
          /\ Finish(stop[c].task, "cancelled") \/ UNCHANGED rows
      BY <2>3 DEF StopWithoutWorker, StopsNameTasks
    <3>. QED
      BY <3>1 DEF StoreNext
  <2>4. CASE StopInterrupts(c) \/ StopTimesOut(c)
    BY <2>4 DEF StopInterrupts, StopTimesOut
  <2>. QED
    BY <1>stopper, <2>1, <2>2, <2>3, <2>4 DEF Stopper
<1>rest. ASSUME \/ \E t \in Tasks : DeadlinePasses(t)
                \/ \E c \in Stoppers, t \in Tasks : StopBegins(c, t)
                \/ Lifecycle
         PROVE  StoreNext \/ UNCHANGED rows
  BY <1>rest
     DEF DeadlinePasses, StopBegins, Lifecycle, Close, CloseInterrupts, ProcessEnds,
         Recover, StartService, StoreNext
<1>. QED
  BY <1>foreground, <1>scheduler, <1>worker, <1>background, <1>stopper, <1>rest DEF Next

\* The rest of TypeOK: the state of the coroutines.
SvcTypeOK ==
    /\ phase \in {"up", "closing", "closed", "down", "booting"}
    /\ restarts \in 0..MaxRestarts
    /\ late \in [Tasks -> BOOLEAN]
    /\ sched \in Tasks \cup {0}
    /\ pc \in [Tasks -> WorkerStates]
    /\ outcome \in [Tasks -> Verdicts]
    /\ seen \in [Tasks -> 0..MaxSteers]
    /\ thrown \in [Tasks -> BOOLEAN]
    /\ child \in [Tasks -> {"none", "asking", "starting_job", "linking_job", "dropping_job"}]
    /\ job \in [Tasks -> BOOLEAN]
    /\ stop \in [Stoppers -> [pc : {"idle", "requesting", "requested", "waiting"},
                             task : Tasks \cup {0}]]

\* Every step keeps the types of the coroutines' state.
LEMMA StepSvcType ==
    ASSUME TypeOK, Next
    PROVE  SvcTypeOK'
<1>. USE ServiceAssumption, StoreAssumption DEF TypeOK, SvcTypeOK, Goto
<1>foreground. ASSUME NEW t \in Tasks, Foreground(t) \/ DeadlinePasses(t)
               PROVE  SvcTypeOK'
  BY <1>foreground
     DEF Foreground, StartFromTool, AbandonStart, FinalizeHandoff, DeadlinePasses,
         CancelUnacknowledged, SteerFromTool, svcVars
<1>scheduler. ASSUME Scheduler
              PROVE  SvcTypeOK'
  BY <1>scheduler
     DEF Scheduler, SchedExpire, SchedClaim, SchedLaunch, SchedBlocked, SchedReleaseClaim,
         svcVars, WorkerStates
<1>worker1. ASSUME NEW t \in Tasks,
               \/ WorkerBegins(t) \/ WorkerCallsTools(t) 
             \/ WorkerHasChildResult(t) \/ WorkerDecides(t) \/ WorkerParks(t) \/ WorkerSeals(t)
             \/ WorkerRaises(t) \/ WorkerInterrupted(t) \/ WorkerDrains(t) 
             \/ WorkerStarts(t) \/ WorkerSettles(t)
             \/ WorkerFails(t) \/ WorkerHandlesStop(t) \/ WorkerSeesJobDone(t)
           PROVE  SvcTypeOK'
  BY <1>worker1
     DEF WorkerBegins, WorkerEnters, WorkerCallsTools, WorkerHasChildResult, WorkerDecides,
         WorkerParks, WorkerSeals, WorkerRaises, WorkerInterrupted, WorkerDrains,
         WorkerStarts, WorkerSettles, WorkerFails, WorkerHandlesStop, WorkerSeesJobDone,
         svcVars, WorkerStates, InSection
<1>row. ASSUME NEW t \in Tasks
        PROVE  rows[t].cursor \in 0..MaxSteers /\ rows[t].steers \in 0..MaxSteers
  BY DEF StoreTypeOK, Row
<1>worker3. ASSUME NEW t \in Tasks,
               \/ WorkerEnters(t) \/ WorkerPolls(t) 
           PROVE  SvcTypeOK'
  <2>1. CASE WorkerEnters(t)
    BY <2>1, <1>row DEF WorkerEnters, WorkerStates, InSection
  <2>2. CASE WorkerPolls(t)
    BY <2>2, <1>row DEF WorkerPolls, WorkerStates, InSection
  <2> QED BY <1>worker3, <2>1, <2>2
<1>worker4. ASSUME NEW t \in Tasks, WorkerCheckpoints(t) \/ WorkerExits(t)
           PROVE  SvcTypeOK'
  <2>1. CASE WorkerCheckpoints(t)
    BY <2>1 DEF WorkerCheckpoints, WorkerStates, InSection
  <2>2. CASE WorkerExits(t)
   <3>1. 0 \in 0..MaxSteers /\ "completed" \in Verdicts BY DEF Verdicts
   <3> QED
    BY <2>2, <3>1 DEF WorkerExits, WorkerStates
  <2> QED BY <1>worker4, <2>1, <2>2
<1>worker2. ASSUME NEW t \in Tasks,
              \/ \E tool \in {"asking", "starting_job"} : WorkerCallsChild(t, tool)
              \/ \E verdict \in Verdicts : WorkerReturns(t, verdict)
           PROVE  SvcTypeOK'
  <2>1. ASSUME NEW tool \in {"asking", "starting_job"}, WorkerCallsChild(t, tool)
        PROVE SvcTypeOK'
    BY <2>1 DEF WorkerCallsChild, WorkerStates, InSection
  <2>2. ASSUME NEW verdict \in Verdicts, WorkerReturns(t, verdict)
        PROVE SvcTypeOK'
    BY <2>2 DEF WorkerReturns, WorkerStates, InSection
  <2> QED BY <1>worker2, <2>1, <2>2
<1>background. ASSUME NEW t \in Tasks, Background(t)
               PROVE  SvcTypeOK'
  BY <1>background
     DEF Background, ChildAsks, ChildStartsJob, ChildLinksJob, ChildDroppedJob, JobEnds
<1>stopper. ASSUME NEW c \in Stoppers, Stopper(c) \/ \E t \in Tasks : StopBegins(c, t)
            PROVE  SvcTypeOK'
  <2>. DEFINE S == [pc : {"idle", "requesting", "requested", "waiting"}, task : Tasks \cup {0}]
  <2>1. Idle \in S BY DEF Idle
  <2>2. \A p \in {"idle", "requesting", "requested", "waiting"} : [stop[c] EXCEPT !.pc = p] \in S
     OBVIOUS
  <2>3. stop' \in [Stoppers -> S]
    <3>1. CASE StopRequests(c) 
      BY <3>1, <2>1, <2>2 DEF StopRequests, StopAt
    <3>2. CASE StopInterrupts(c)
      BY <3>2, <2>1, <2>2 DEF StopInterrupts, StopAt
    <3>3. CASE StopSeesWorkerEnd(c) \/ StopTimesOut(c) \/ StopWithoutWorker(c)
      BY <3>3, <2>1 DEF StopSeesWorkerEnd, StopTimesOut, StopWithoutWorker
    <3>4. CASE \E t \in Tasks : StopBegins(c, t)
      BY <3>4 DEF StopBegins
    <3> QED BY <1>stopper, <3>1, <3>2, <3>3, <3>4 DEF Stopper
  <2> HIDE DEF S
  <2>4. CASE StopInterrupts(c)
    BY <2>4, <2>3 DEF StopInterrupts, S
  <2>5. CASE ~StopInterrupts(c)
    BY <1>stopper, <2>3, <2>5
       DEF Stopper, StopRequests, StopSeesWorkerEnd, StopTimesOut, StopWithoutWorker,
           StopBegins, S
  <2> QED BY <2>4, <2>5
<1>rest. ASSUME Lifecycle
         PROVE  SvcTypeOK'
  <2>1. 0 \in 0..MaxSteers /\ "completed" \in Verdicts /\ "none" \in WorkerStates BY DEF Verdicts, WorkerStates
  <2>2. CASE ProcessEnds
    <3>1. Idle \in [pc : {"idle", "requesting", "requested", "waiting"}, task : Tasks \cup {0}] BY DEF Idle
    <3>2. restarts' \in 0..MaxRestarts BY <2>2 DEF ProcessEnds
    <3> QED BY <2>2, <2>1, <3>1, <3>2 DEF ProcessEnds
  <2>3. CASE ~ProcessEnds
    BY <1>rest, <2>3 DEF Lifecycle, Close, CloseInterrupts, Recover, StartService
  <2> QED BY <2>2, <2>3
<1>. QED
  BY <1>foreground, <1>scheduler, <1>worker1, <1>worker2,<1>worker3,<1>worker4,
     <1>background, <1>stopper, <1>rest
     DEF Next, Worker

\* Every step keeps the store's invariant, because it is a step of the store.
LEMMA StepStoreInv ==
    ASSUME TypeOK, CursorsBehindJournal, StopsNameTasks, StoreInv, Next
    PROVE  StoreInv' /\ (StoreNext \/ UNCHANGED rows)
<1>1. CASE StoreNext
  BY <1>1, StepKeeps, StoreInvIsPerRow
     DEF TableKeeps, StoreInv, StoreTypeOK, CancelAgrees, OnlySettledIsOwed, RetryBudget,
         Active, Terminal, GoodRows, Good
<1>2. CASE UNCHANGED rows
  BY <1>2
     DEF StoreInv, StoreTypeOK, CancelAgrees, OnlySettledIsOwed, RetryBudget, Active,
         Terminal
<1>. QED
  BY <1>1, <1>2, ServiceStepIsStoreStep

-----------------------------------------------------------------------------
(* Every step preserves the inductive invariant, one conjunct at a time.    *)

\* Deadlines and the phases of the process leave the rest alone.
LEMMA ClockAndPhaseEffect ==
    ASSUME TypeOK,
           \/ \E t \in Tasks : DeadlinePasses(t)
           \/ Close \/ CloseInterrupts \/ StartService
    PROVE  /\ UNCHANGED <<rows, sched, pc, seen, child, job, stop>>
           /\ phase' = "up" => phase \in {"up", "booting"} /\ thrown' = thrown
           /\ phase' \in {"down", "booting"} => phase' = phase /\ thrown' = thrown
  BY DEF DeadlinePasses, Close, CloseInterrupts, StartService

\* The process ends: no coroutine is left.
LEMMA ProcessEndsEffect ==
    ASSUME TypeOK, ProcessEnds
    PROVE  /\ rows' = rows /\ phase' = "down" /\ sched' = 0
           /\ \A t \in Tasks : /\ pc'[t] = "none" /\ ~thrown'[t] /\ seen'[t] = 0
                               /\ ~job'[t] /\ child'[t] = "none"
           /\ \A c \in Stoppers : stop'[c].pc = "idle"
  BY DEF ProcessEnds, Idle

\* recover_interrupted.
LEMMA RecoverEffect ==
    ASSUME TypeOK, Recover
    PROVE  /\ phase = "down" /\ phase' = "booting"
           /\ UNCHANGED <<sched, pc, thrown, seen, child, job, stop>>
           /\ \A t \in Tasks :
                 /\ SameBookkeeping(t) /\ rows'[t].cursor = rows[t].cursor
                 /\ (rows'[t].status = "absent") <=> (rows[t].status = "absent")
                 /\ rows'[t].status \notin Claimed
                 /\ rows[t].status = "queued" => rows'[t].status = "queued"
<1>1. ASSUME NEW t \in Tasks
      PROVE  /\ SameBookkeeping(t) /\ rows'[t].cursor = rows[t].cursor
             /\ (rows'[t].status = "absent") <=> (rows[t].status = "absent")
             /\ rows'[t].status \notin Claimed
             /\ rows[t].status = "queued" => rows'[t].status = "queued"
  BY ZenonT(60)
     DEF Recover, RecoverInterrupted, Recovered, WritingStatuses, SameBookkeeping, Claimed,
         TypeOK, StoreTypeOK, Row
<1>. QED
  BY <1>1 DEF Recover

\* sched = 0 says that no task is in the claim window.
LEMMA ZeroIsNoTask == 0 \notin Tasks
  BY StoreAssumption DEF Tasks

\* Rows are created once, with nobody working on them.
LEMMA StepAbsent ==
    ASSUME TypeOK, CancelAgrees, HeldUntilHandoff, ClaimWindow, StopsNameTasks, StopsAreRecorded,
           AbsentIsUntouched, Next
    PROVE  AbsentIsUntouched'
<1>. 0 \notin Tasks /\ sched \in Tasks \cup {0}
  BY ZeroIsNoTask DEF TypeOK
<1>foreground. ASSUME NEW t \in Tasks, Foreground(t)
      PROVE  AbsentIsUntouched'
  BY <1>foreground, ForegroundEffect DEF svcVars, OthersSame, AbsentIsUntouched
<1>worker. ASSUME NEW t \in Tasks, Worker(t)
      PROVE  AbsentIsUntouched'
  BY <1>worker, WorkerEffect
     DEF OthersSame, SameBookkeeping, AbsentIsUntouched, TerminalStatuses
<1>background. ASSUME NEW t \in Tasks, Background(t)
      PROVE  AbsentIsUntouched'
  BY <1>background, BackgroundEffect DEF SameBookkeeping, AbsentIsUntouched
<1>scheduler. ASSUME NEW t \in Tasks, \/ SchedExpire(t) \/ SchedClaim(t) \/ SchedLaunch(t)
                              \/ SchedBlocked(t) \/ SchedReleaseClaim(t)
      PROVE  AbsentIsUntouched'
  BY <1>scheduler, SchedulerEffect DEF OthersSame, AbsentIsUntouched
<1>stopper. ASSUME NEW c \in Stoppers, Stopper(c)
      PROVE  AbsentIsUntouched'
  BY <1>stopper, StopperEffect DEF OthersSame, AbsentIsUntouched
<1>begins. ASSUME NEW c \in Stoppers, NEW t \in Tasks, StopBegins(c, t)
      PROVE  AbsentIsUntouched'
  BY <1>begins DEF StopBegins, AbsentIsUntouched
<1>clock. CASE (\E t \in Tasks : DeadlinePasses(t)) \/ Close \/ CloseInterrupts \/ StartService
  BY <1>clock, ClockAndPhaseEffect DEF AbsentIsUntouched
<1>ends. CASE ProcessEnds
  BY <1>ends, ProcessEndsEffect DEF AbsentIsUntouched
<1>recover. CASE Recover
  BY <1>recover, RecoverEffect DEF SameBookkeeping, AbsentIsUntouched
<1>. QED
  BY <1>foreground, <1>worker, <1>background, <1>scheduler, <1>stopper, <1>begins,
     <1>clock, <1>ends, <1>recover
     DEF Next, Scheduler, Lifecycle

\* A held row is queued, unclaimed and without a worker.
LEMMA StepHeld ==
    ASSUME TypeOK, CancelAgrees, HeldUntilHandoff, ClaimWindow, StopsNameTasks, StopsAreRecorded,
           AbsentIsUntouched, Next
    PROVE  HeldUntilHandoff'
<1>. 0 \notin Tasks /\ sched \in Tasks \cup {0}
  BY ZeroIsNoTask DEF TypeOK
<1>foreground. ASSUME NEW t \in Tasks, Foreground(t)
      PROVE  HeldUntilHandoff'
  BY <1>foreground, ForegroundEffect
     DEF svcVars, OthersSame, HeldUntilHandoff, AbsentIsUntouched
<1>worker. ASSUME NEW t \in Tasks, Worker(t)
      PROVE  HeldUntilHandoff'
  BY <1>worker, WorkerEffect DEF OthersSame, SameBookkeeping, HeldUntilHandoff
<1>background. ASSUME NEW t \in Tasks, Background(t)
      PROVE  HeldUntilHandoff'
  BY <1>background, BackgroundEffect DEF SameBookkeeping, HeldUntilHandoff
<1>scheduler. ASSUME NEW t \in Tasks, \/ SchedExpire(t) \/ SchedClaim(t) \/ SchedLaunch(t)
                              \/ SchedBlocked(t) \/ SchedReleaseClaim(t)
      PROVE  HeldUntilHandoff'
  BY <1>scheduler, SchedulerEffect DEF OthersSame, HeldUntilHandoff
<1>stopper. ASSUME NEW c \in Stoppers, Stopper(c)
      PROVE  HeldUntilHandoff'
  BY <1>stopper, StopperEffect DEF OthersSame, HeldUntilHandoff
<1>begins. ASSUME NEW c \in Stoppers, NEW t \in Tasks, StopBegins(c, t)
      PROVE  HeldUntilHandoff'
  BY <1>begins DEF StopBegins, HeldUntilHandoff
<1>clock. CASE (\E t \in Tasks : DeadlinePasses(t)) \/ Close \/ CloseInterrupts \/ StartService
  BY <1>clock, ClockAndPhaseEffect DEF HeldUntilHandoff
<1>ends. CASE ProcessEnds
  BY <1>ends, ProcessEndsEffect DEF HeldUntilHandoff
<1>recover. CASE Recover
  BY <1>recover, RecoverEffect DEF SameBookkeeping, HeldUntilHandoff
<1>. QED
  BY <1>foreground, <1>worker, <1>background, <1>scheduler, <1>stopper, <1>begins,
     <1>clock, <1>ends, <1>recover
     DEF Next, Scheduler, Lifecycle

\* The row in the claim window.
LEMMA StepClaimWindow ==
    ASSUME TypeOK, CancelAgrees, HeldUntilHandoff, ClaimWindow, StopsNameTasks, StopsAreRecorded,
           AbsentIsUntouched, OneWorkerPerTask, NothingBeforeRun, BootIsQuiet, Next
    PROVE  ClaimWindow'
<1>. 0 \notin Tasks /\ sched \in Tasks \cup {0}
  BY ZeroIsNoTask DEF TypeOK
<1>foreground. ASSUME NEW t \in Tasks, Foreground(t)
      PROVE  ClaimWindow'
  BY <1>foreground, ForegroundEffect
     DEF svcVars, OthersSame, ClaimWindow, AbsentIsUntouched, TerminalStatuses
<1>worker. ASSUME NEW t \in Tasks, Worker(t)
      PROVE  ClaimWindow'
  BY <1>worker, WorkerEffect DEF OthersSame, ClaimWindow, OneWorkerPerTask
<1>background. ASSUME NEW t \in Tasks, Background(t)
      PROVE  ClaimWindow'
  BY <1>background, BackgroundEffect DEF ClaimWindow, OneWorkerPerTask, NothingBeforeRun
<1>scheduler. ASSUME NEW t \in Tasks, \/ SchedExpire(t) \/ SchedClaim(t) \/ SchedLaunch(t)
                              \/ SchedBlocked(t) \/ SchedReleaseClaim(t)
      PROVE  ClaimWindow'
  BY <1>scheduler, SchedulerEffect DEF OthersSame, ClaimWindow, TerminalStatuses
<1>stopper. ASSUME NEW c \in Stoppers, Stopper(c)
      PROVE  ClaimWindow'
  BY <1>stopper, StopperEffect DEF OthersSame, ClaimWindow
<1>begins. ASSUME NEW c \in Stoppers, NEW t \in Tasks, StopBegins(c, t)
      PROVE  ClaimWindow'
  BY <1>begins DEF StopBegins, ClaimWindow
<1>clock. CASE (\E t \in Tasks : DeadlinePasses(t)) \/ Close \/ CloseInterrupts \/ StartService
  BY <1>clock, ClockAndPhaseEffect DEF ClaimWindow
<1>ends. CASE ProcessEnds
  BY <1>ends, ProcessEndsEffect DEF ClaimWindow
<1>recover. CASE Recover
  BY <1>recover, RecoverEffect DEF BootIsQuiet, ClaimWindow
<1>. QED
  BY <1>foreground, <1>worker, <1>background, <1>scheduler, <1>stopper, <1>begins,
     <1>clock, <1>ends, <1>recover
     DEF Next, Scheduler, Lifecycle

\* Only a claim of a task without worker opens the claim window.
LEMMA StepOneWorker ==
    ASSUME TypeOK, CancelAgrees, HeldUntilHandoff, ClaimWindow, StopsNameTasks, StopsAreRecorded, OneWorkerPerTask, Next
    PROVE  OneWorkerPerTask'
<1>. 0 \notin Tasks /\ sched \in Tasks \cup {0}
  BY ZeroIsNoTask DEF TypeOK
<1>foreground. ASSUME NEW t \in Tasks, Foreground(t)
      PROVE  OneWorkerPerTask'
  BY <1>foreground, ForegroundEffect DEF svcVars, OthersSame, OneWorkerPerTask
<1>worker. ASSUME NEW t \in Tasks, Worker(t)
      PROVE  OneWorkerPerTask'
  BY <1>worker, WorkerEffect DEF OthersSame, SameBookkeeping, OneWorkerPerTask
<1>background. ASSUME NEW t \in Tasks, Background(t)
      PROVE  OneWorkerPerTask'
  BY <1>background, BackgroundEffect DEF SameBookkeeping, OneWorkerPerTask
<1>scheduler. ASSUME NEW t \in Tasks, \/ SchedExpire(t) \/ SchedClaim(t) \/ SchedLaunch(t)
                              \/ SchedBlocked(t) \/ SchedReleaseClaim(t)
      PROVE  OneWorkerPerTask'
  BY <1>scheduler, SchedulerEffect DEF OthersSame, OneWorkerPerTask
<1>stopper. ASSUME NEW c \in Stoppers, Stopper(c)
      PROVE  OneWorkerPerTask'
  BY <1>stopper, StopperEffect DEF OthersSame, OneWorkerPerTask
<1>begins. ASSUME NEW c \in Stoppers, NEW t \in Tasks, StopBegins(c, t)
      PROVE  OneWorkerPerTask'
  BY <1>begins DEF StopBegins, OneWorkerPerTask
<1>clock. CASE (\E t \in Tasks : DeadlinePasses(t)) \/ Close \/ CloseInterrupts \/ StartService
  BY <1>clock, ClockAndPhaseEffect DEF OneWorkerPerTask
<1>ends. CASE ProcessEnds
  BY <1>ends, ProcessEndsEffect DEF OneWorkerPerTask
<1>recover. CASE Recover
  BY <1>recover, RecoverEffect DEF SameBookkeeping, OneWorkerPerTask
<1>. QED
  BY <1>foreground, <1>worker, <1>background, <1>scheduler, <1>stopper, <1>begins,
     <1>clock, <1>ends, <1>recover
     DEF Next, Scheduler, Lifecycle

\* Stop requests keep naming tasks.
LEMMA StepStopsNameTasks ==
    ASSUME TypeOK, CancelAgrees, HeldUntilHandoff, ClaimWindow, StopsNameTasks, StopsAreRecorded, Next
    PROVE  StopsNameTasks'
<1>. 0 \notin Tasks /\ sched \in Tasks \cup {0}
  BY ZeroIsNoTask DEF TypeOK
<1>foreground. ASSUME NEW t \in Tasks, Foreground(t)
      PROVE  StopsNameTasks'
  BY <1>foreground, ForegroundEffect DEF svcVars, OthersSame, StopsNameTasks
<1>worker. ASSUME NEW t \in Tasks, Worker(t)
      PROVE  StopsNameTasks'
  BY <1>worker, WorkerEffect DEF OthersSame, SameBookkeeping, StopsNameTasks
<1>background. ASSUME NEW t \in Tasks, Background(t)
      PROVE  StopsNameTasks'
  BY <1>background, BackgroundEffect DEF SameBookkeeping, StopsNameTasks
<1>scheduler. ASSUME NEW t \in Tasks, \/ SchedExpire(t) \/ SchedClaim(t) \/ SchedLaunch(t)
                              \/ SchedBlocked(t) \/ SchedReleaseClaim(t)
      PROVE  StopsNameTasks'
  BY <1>scheduler, SchedulerEffect DEF OthersSame, StopsNameTasks
<1>stopper. ASSUME NEW c \in Stoppers, Stopper(c)
      PROVE  StopsNameTasks'
  BY <1>stopper, StopperEffect DEF OthersSame, StopsNameTasks
<1>begins. ASSUME NEW c \in Stoppers, NEW t \in Tasks, StopBegins(c, t)
      PROVE  StopsNameTasks'
  BY <1>begins DEF StopBegins, StopsNameTasks
<1>clock. CASE (\E t \in Tasks : DeadlinePasses(t)) \/ Close \/ CloseInterrupts \/ StartService
  BY <1>clock, ClockAndPhaseEffect DEF StopsNameTasks
<1>ends. CASE ProcessEnds
  BY <1>ends, ProcessEndsEffect DEF StopsNameTasks
<1>recover. CASE Recover
  BY <1>recover, RecoverEffect DEF SameBookkeeping, StopsNameTasks
<1>. QED
  BY <1>foreground, <1>worker, <1>background, <1>scheduler, <1>stopper, <1>begins,
     <1>clock, <1>ends, <1>recover
     DEF Next, Scheduler, Lifecycle

\* What request_cancel recorded stays recorded.
LEMMA StepStopsRecorded ==
    ASSUME TypeOK, CancelAgrees, HeldUntilHandoff, ClaimWindow, StopsNameTasks, StopsAreRecorded, Next
    PROVE  StopsAreRecorded'
<1>. 0 \notin Tasks /\ sched \in Tasks \cup {0}
  BY ZeroIsNoTask DEF TypeOK
<1>foreground. ASSUME NEW t \in Tasks, Foreground(t)
      PROVE  StopsAreRecorded'
  BY <1>foreground, ForegroundEffect
     DEF svcVars, OthersSame, StopsAreRecorded, StopsNameTasks, CancelAgrees, Terminal,
         TerminalStatuses
<1>worker. ASSUME NEW t \in Tasks, Worker(t)
      PROVE  StopsAreRecorded'
  BY <1>worker, WorkerEffect
     DEF OthersSame, SameBookkeeping, StopsAreRecorded, StopsNameTasks
<1>background. ASSUME NEW t \in Tasks, Background(t)
      PROVE  StopsAreRecorded'
  BY <1>background, BackgroundEffect DEF SameBookkeeping, StopsAreRecorded, StopsNameTasks
<1>scheduler. ASSUME NEW t \in Tasks, \/ SchedExpire(t) \/ SchedClaim(t) \/ SchedLaunch(t)
                              \/ SchedBlocked(t) \/ SchedReleaseClaim(t)
      PROVE  StopsAreRecorded'
  BY <1>scheduler, SchedulerEffect DEF OthersSame, StopsAreRecorded, StopsNameTasks
<1>stopper. ASSUME NEW c \in Stoppers, Stopper(c)
      PROVE  StopsAreRecorded'
  BY <1>stopper, StopperEffect DEF OthersSame, StopsAreRecorded, StopsNameTasks
<1>begins. ASSUME NEW c \in Stoppers, NEW t \in Tasks, StopBegins(c, t)
      PROVE  StopsAreRecorded'
  BY <1>begins DEF StopBegins, StopsAreRecorded, StopsNameTasks
<1>clock. CASE (\E t \in Tasks : DeadlinePasses(t)) \/ Close \/ CloseInterrupts \/ StartService
  BY <1>clock, ClockAndPhaseEffect DEF StopsAreRecorded, StopsNameTasks
<1>ends. CASE ProcessEnds
  BY <1>ends, ProcessEndsEffect DEF StopsAreRecorded, StopsNameTasks
<1>recover. CASE Recover
  BY <1>recover, RecoverEffect DEF SameBookkeeping, StopsAreRecorded, StopsNameTasks
<1>. QED
  BY <1>foreground, <1>worker, <1>background, <1>scheduler, <1>stopper, <1>begins,
     <1>clock, <1>ends, <1>recover
     DEF Next, Scheduler, Lifecycle

\* Cursors follow the journal, which only grows.
LEMMA StepCursors ==
    ASSUME TypeOK, CancelAgrees, HeldUntilHandoff, ClaimWindow, StopsNameTasks, StopsAreRecorded,
           AbsentIsUntouched, CursorsBehindJournal, StoreInv, Next
    PROVE  CursorsBehindJournal'
<1>. 0 \notin Tasks /\ sched \in Tasks \cup {0}
  BY ZeroIsNoTask DEF TypeOK
<1>. \A t \in Tasks : /\ rows[t].steers \in Nat /\ rows[t].cursor \in Nat /\ seen[t] \in Nat
                     /\ rows'[t].steers \in Nat
  <2>1. rows' \in [Tasks -> Row]
    BY StepStoreInv DEF StoreInv, StoreTypeOK
  <2>. QED
    BY <2>1, StoreAssumption, SMTT(30) DEF TypeOK, StoreTypeOK, Row
<1>foreground. ASSUME NEW t \in Tasks, Foreground(t)
      PROVE  CursorsBehindJournal'
  BY <1>foreground, ForegroundEffect
     DEF svcVars, OthersSame, CursorsBehindJournal, AbsentIsUntouched
<1>worker. ASSUME NEW t \in Tasks, Worker(t)
      PROVE  CursorsBehindJournal'
  BY <1>worker, WorkerEffect DEF OthersSame, SameBookkeeping, CursorsBehindJournal
<1>background. ASSUME NEW t \in Tasks, Background(t)
      PROVE  CursorsBehindJournal'
  BY <1>background, BackgroundEffect DEF SameBookkeeping, CursorsBehindJournal
<1>scheduler. ASSUME NEW t \in Tasks, \/ SchedExpire(t) \/ SchedClaim(t) \/ SchedLaunch(t)
                              \/ SchedBlocked(t) \/ SchedReleaseClaim(t)
      PROVE  CursorsBehindJournal'
  BY <1>scheduler, SchedulerEffect DEF OthersSame, CursorsBehindJournal
<1>stopper. ASSUME NEW c \in Stoppers, Stopper(c)
      PROVE  CursorsBehindJournal'
  BY <1>stopper, StopperEffect DEF OthersSame, CursorsBehindJournal
<1>begins. ASSUME NEW c \in Stoppers, NEW t \in Tasks, StopBegins(c, t)
      PROVE  CursorsBehindJournal'
  BY <1>begins DEF StopBegins, CursorsBehindJournal
<1>clock. CASE (\E t \in Tasks : DeadlinePasses(t)) \/ Close \/ CloseInterrupts \/ StartService
  BY <1>clock, ClockAndPhaseEffect DEF CursorsBehindJournal
<1>ends. CASE ProcessEnds
  BY <1>ends, ProcessEndsEffect DEF CursorsBehindJournal
<1>recover. CASE Recover
  BY <1>recover, RecoverEffect DEF SameBookkeeping, CursorsBehindJournal
<1>. QED
  BY <1>foreground, <1>worker, <1>background, <1>scheduler, <1>stopper, <1>begins,
     <1>clock, <1>ends, <1>recover
     DEF Next, Scheduler, Lifecycle

\* Jobs and tool children are started inside the run and gone at its exit.
LEMMA StepNothingBeforeRun ==
    ASSUME TypeOK, CancelAgrees, HeldUntilHandoff, ClaimWindow, StopsNameTasks, StopsAreRecorded, NothingBeforeRun, Next
    PROVE  NothingBeforeRun'
<1>. 0 \notin Tasks /\ sched \in Tasks \cup {0}
  BY ZeroIsNoTask DEF TypeOK
<1>foreground. ASSUME NEW t \in Tasks, Foreground(t)
      PROVE  NothingBeforeRun'
  BY <1>foreground, ForegroundEffect DEF svcVars, NothingBeforeRun
<1>worker. ASSUME NEW t \in Tasks, Worker(t)
      PROVE  NothingBeforeRun'
  BY <1>worker
     DEF NothingBeforeRun, Goto, TypeOK, svcVars, Writes, WriterIdle, Worker, WorkerBegins,
         WorkerEnters, WorkerCallsTools, WorkerHasChildResult, WorkerDecides, WorkerParks,
         WorkerSeals, WorkerRaises, WorkerInterrupted, WorkerDrains, WorkerStarts,
         WorkerSettles, WorkerPolls, WorkerReturns, WorkerCallsChild, WorkerExits,
         WorkerCheckpoints, WorkerFails, WorkerHandlesStop, WorkerSeesJobDone
<1>background. ASSUME NEW t \in Tasks, Background(t)
      PROVE  NothingBeforeRun'
  BY <1>background, BackgroundEffect DEF SameBookkeeping, NothingBeforeRun
<1>scheduler. ASSUME NEW t \in Tasks, \/ SchedExpire(t) \/ SchedClaim(t) \/ SchedLaunch(t)
                              \/ SchedBlocked(t) \/ SchedReleaseClaim(t)
      PROVE  NothingBeforeRun'
  BY <1>scheduler, SchedulerEffect DEF NothingBeforeRun
<1>stopper. ASSUME NEW c \in Stoppers, Stopper(c)
      PROVE  NothingBeforeRun'
  BY <1>stopper, StopperEffect DEF OthersSame, NothingBeforeRun
<1>begins. ASSUME NEW c \in Stoppers, NEW t \in Tasks, StopBegins(c, t)
      PROVE  NothingBeforeRun'
  BY <1>begins DEF StopBegins, NothingBeforeRun
<1>clock. CASE (\E t \in Tasks : DeadlinePasses(t)) \/ Close \/ CloseInterrupts \/ StartService
  BY <1>clock, ClockAndPhaseEffect DEF NothingBeforeRun
<1>ends. CASE ProcessEnds
  BY <1>ends, ProcessEndsEffect DEF NothingBeforeRun
<1>recover. CASE Recover
  BY <1>recover, RecoverEffect DEF SameBookkeeping, NothingBeforeRun
<1>. QED
  BY <1>foreground, <1>worker, <1>background, <1>scheduler, <1>stopper, <1>begins,
     <1>clock, <1>ends, <1>recover
     DEF Next, Scheduler, Lifecycle

\* Interruptions before shutdown come from recorded stop requests.
LEMMA StepInterrupted ==
    ASSUME TypeOK, CancelAgrees, HeldUntilHandoff, ClaimWindow, StopsNameTasks, StopsAreRecorded,
           AbsentIsUntouched, BootIsQuiet, InterruptedByStop, Next
    PROVE  InterruptedByStop'
<1>. 0 \notin Tasks /\ sched \in Tasks \cup {0}
  BY ZeroIsNoTask DEF TypeOK
<1>foreground. ASSUME NEW t \in Tasks, Foreground(t)
      PROVE  InterruptedByStop'
  BY <1>foreground, ForegroundEffect
     DEF svcVars, OthersSame, InterruptedByStop, CancelAgrees, Terminal, TerminalStatuses
<1>worker. ASSUME NEW t \in Tasks, Worker(t)
      PROVE  InterruptedByStop'
  <2>1. pc'[t] = "stopping" => pc[t] = "stopping" \/ thrown[t]
    BY <1>worker
       DEF TypeOK, Goto, Worker, svcVars, WorkerBegins, WorkerEnters, WorkerCallsTools,
           WorkerHasChildResult, WorkerDecides, WorkerParks, WorkerSeals, WorkerRaises,
           WorkerInterrupted, WorkerDrains, WorkerStarts, WorkerSettles, WorkerPolls,
           WorkerReturns, WorkerCallsChild, WorkerExits, WorkerCheckpoints, WorkerFails,
           WorkerHandlesStop, WorkerSeesJobDone
  <2>. QED
    BY <1>worker, <2>1, WorkerEffect DEF OthersSame, SameBookkeeping, InterruptedByStop
<1>background. ASSUME NEW t \in Tasks, Background(t)
      PROVE  InterruptedByStop'
  BY <1>background, BackgroundEffect DEF SameBookkeeping, InterruptedByStop
<1>scheduler. ASSUME NEW t \in Tasks, \/ SchedExpire(t) \/ SchedClaim(t) \/ SchedLaunch(t)
                              \/ SchedBlocked(t) \/ SchedReleaseClaim(t)
      PROVE  InterruptedByStop'
  BY <1>scheduler, SchedulerEffect DEF OthersSame, InterruptedByStop
<1>stopper. ASSUME NEW c \in Stoppers, Stopper(c)
      PROVE  InterruptedByStop'
  BY <1>stopper, StopperEffect DEF OthersSame, InterruptedByStop
<1>begins. ASSUME NEW c \in Stoppers, NEW t \in Tasks, StopBegins(c, t)
      PROVE  InterruptedByStop'
  BY <1>begins DEF StopBegins, InterruptedByStop
<1>clock. CASE (\E t \in Tasks : DeadlinePasses(t)) \/ Close \/ CloseInterrupts \/ StartService
  BY <1>clock, ClockAndPhaseEffect DEF InterruptedByStop, BootIsQuiet
<1>ends. CASE ProcessEnds
  BY <1>ends, ProcessEndsEffect DEF InterruptedByStop
<1>recover. CASE Recover
  BY <1>recover, RecoverEffect DEF SameBookkeeping, InterruptedByStop
<1>. QED
  BY <1>foreground, <1>worker, <1>background, <1>scheduler, <1>stopper, <1>begins,
     <1>clock, <1>ends, <1>recover
     DEF Next, Scheduler, Lifecycle

\* The ways out of a run settle, pause or requeue the row first.
LEMMA StepUnwound ==
    ASSUME TypeOK, CancelAgrees, HeldUntilHandoff, ClaimWindow, StopsNameTasks, StopsAreRecorded,
           AbsentIsUntouched, OneWorkerPerTask, NothingBeforeRun, BootIsQuiet, InterruptedByStop,
           UnwoundIsUnclaimed, NoOrphanClaim, Next
    PROVE  UnwoundIsUnclaimed'
<1>. 0 \notin Tasks /\ sched \in Tasks \cup {0}
  BY ZeroIsNoTask DEF TypeOK
<1>foreground. ASSUME NEW t \in Tasks, Foreground(t)
      PROVE  UnwoundIsUnclaimed'
  BY <1>foreground, ForegroundEffect
     DEF svcVars, OthersSame, UnwoundIsUnclaimed, Claimed, TerminalStatuses
<1>worker. ASSUME NEW t \in Tasks, Worker(t)
      PROVE  UnwoundIsUnclaimed'
  <2>1. CASE WorkerStarts(t) \/ WorkerSettles(t) \/ WorkerFails(t) \/ WorkerHandlesStop(t)
    <3>1. phase' = phase /\ (pc'[t] \in {"parking", "draining", "final"} /\ phase = "up" =>
             \E status \in TerminalStatuses : TryFinish(t, status))
      BY <2>1
         DEF WorkerStarts, WorkerSettles, WorkerFails, WorkerHandlesStop, Goto,
             InterruptedByStop, TerminalStatuses, Verdicts, TypeOK
    <3>. QED
      BY <1>worker, <3>1, WorkerEffect, FinishEffect
         DEF OthersSame, UnwoundIsUnclaimed, Claimed, ActiveStatuses
  <2>2. CASE WorkerInterrupted(t)
    BY <2>2
       DEF WorkerInterrupted, UnwoundIsUnclaimed, InterruptedByStop, CancelAgrees,
           Terminal, TerminalStatuses, Claimed, TypeOK
  <2>3. CASE WorkerDecides(t)
    BY <2>3 DEF WorkerDecides, Goto, UnwoundIsUnclaimed, Claimed, TypeOK
  <2>4. CASE ~(WorkerStarts(t) \/ WorkerSettles(t) \/ WorkerFails(t) \/ WorkerHandlesStop(t)
               \/ WorkerInterrupted(t) \/ WorkerDecides(t))
    <3>1. pc'[t] \in {"parking", "draining", "final"} =>
             pc[t] \in {"parking", "draining", "final"} /\ rows' = rows
      BY <1>worker, <2>4
         DEF Goto, TypeOK, svcVars, Worker, WorkerBegins, WorkerEnters, WorkerCallsTools,
             WorkerHasChildResult, WorkerDecides, WorkerParks, WorkerSeals, WorkerRaises,
             WorkerInterrupted, WorkerDrains, WorkerStarts, WorkerSettles, WorkerPolls,
             WorkerReturns, WorkerCallsChild, WorkerExits, WorkerCheckpoints, WorkerFails,
             WorkerHandlesStop, WorkerSeesJobDone
    <3>. QED
      BY <1>worker, <3>1, WorkerEffect DEF OthersSame, UnwoundIsUnclaimed
  <2>. QED
    BY <2>1, <2>2, <2>3, <2>4
<1>background. ASSUME NEW t \in Tasks, Background(t)
      PROVE  UnwoundIsUnclaimed'
  BY <1>background, BackgroundEffect DEF UnwoundIsUnclaimed, Claimed
<1>scheduler. ASSUME NEW t \in Tasks, \/ SchedExpire(t) \/ SchedClaim(t) \/ SchedLaunch(t)
                              \/ SchedBlocked(t) \/ SchedReleaseClaim(t)
      PROVE  UnwoundIsUnclaimed'
  BY <1>scheduler, SchedulerEffect DEF OthersSame, UnwoundIsUnclaimed, Claimed
<1>stopper. ASSUME NEW c \in Stoppers, Stopper(c)
      PROVE  UnwoundIsUnclaimed'
  BY <1>stopper, StopperEffect DEF OthersSame, UnwoundIsUnclaimed, Claimed, TerminalStatuses
<1>begins. ASSUME NEW c \in Stoppers, NEW t \in Tasks, StopBegins(c, t)
      PROVE  UnwoundIsUnclaimed'
  BY <1>begins DEF StopBegins, UnwoundIsUnclaimed
<1>clock. CASE (\E t \in Tasks : DeadlinePasses(t)) \/ Close \/ CloseInterrupts \/ StartService
  BY <1>clock, ClockAndPhaseEffect DEF UnwoundIsUnclaimed, BootIsQuiet
<1>ends. CASE ProcessEnds
  BY <1>ends, ProcessEndsEffect DEF UnwoundIsUnclaimed
<1>recover. CASE Recover
  BY <1>recover, RecoverEffect DEF SameBookkeeping, UnwoundIsUnclaimed
<1>. QED
  BY <1>foreground, <1>worker, <1>background, <1>scheduler, <1>stopper, <1>begins,
     <1>clock, <1>ends, <1>recover
     DEF Next, Scheduler, Lifecycle

\* Recovery finds no coroutine and leaves no claimed row.
LEMMA StepBootIsQuiet ==
    ASSUME TypeOK, CancelAgrees, HeldUntilHandoff, ClaimWindow, StopsNameTasks, StopsAreRecorded,
           AbsentIsUntouched, OneWorkerPerTask, NothingBeforeRun, BootIsQuiet, InterruptedByStop,
           UnwoundIsUnclaimed, NoOrphanClaim, Next
    PROVE  BootIsQuiet'
<1>. 0 \notin Tasks /\ sched \in Tasks \cup {0}
  BY ZeroIsNoTask DEF TypeOK
<1>foreground. ASSUME NEW t \in Tasks, Foreground(t)
      PROVE  BootIsQuiet'
  BY <1>foreground, ForegroundEffect
     DEF svcVars, OthersSame, BootIsQuiet, Claimed, TerminalStatuses
<1>worker. ASSUME NEW t \in Tasks, Worker(t)
      PROVE  BootIsQuiet'
  BY <1>worker, WorkerEffect DEF BootIsQuiet
<1>background. ASSUME NEW t \in Tasks, Background(t)
      PROVE  BootIsQuiet'
  BY <1>background, BackgroundEffect
     DEF BootIsQuiet, Background, Alive, ChildAsks, ChildStartsJob, ChildLinksJob,
         ChildDroppedJob, JobEnds
<1>scheduler. ASSUME NEW t \in Tasks, \/ SchedExpire(t) \/ SchedClaim(t) \/ SchedLaunch(t)
                              \/ SchedBlocked(t) \/ SchedReleaseClaim(t)
      PROVE  BootIsQuiet'
  BY <1>scheduler
     DEF BootIsQuiet, SchedExpire, SchedClaim, SchedLaunch, SchedBlocked,
         SchedReleaseClaim, svcVars, Alive
<1>stopper. ASSUME NEW c \in Stoppers, Stopper(c)
      PROVE  BootIsQuiet'
  BY <1>stopper, StopperEffect
     DEF BootIsQuiet, Stopper, StopRequests, StopInterrupts, StopSeesWorkerEnd,
         StopTimesOut, StopWithoutWorker, Alive
<1>begins. ASSUME NEW c \in Stoppers, NEW t \in Tasks, StopBegins(c, t)
      PROVE  BootIsQuiet'
  BY <1>begins DEF StopBegins, BootIsQuiet
<1>clock. CASE (\E t \in Tasks : DeadlinePasses(t)) \/ Close \/ CloseInterrupts \/ StartService
  BY <1>clock, ClockAndPhaseEffect DEF BootIsQuiet
<1>ends. CASE ProcessEnds
  BY <1>ends, ProcessEndsEffect DEF BootIsQuiet
<1>recover. CASE Recover
  BY <1>recover, RecoverEffect DEF SameBookkeeping, BootIsQuiet
<1>. QED
  BY <1>foreground, <1>worker, <1>background, <1>scheduler, <1>stopper, <1>begins,
     <1>clock, <1>ends, <1>recover
     DEF Next, Scheduler, Lifecycle

\* An owner leaves only a row that needs none.
LEMMA StepNoOrphan ==
    ASSUME TypeOK, CancelAgrees, HeldUntilHandoff, ClaimWindow, StopsNameTasks, StopsAreRecorded,
           AbsentIsUntouched, OneWorkerPerTask, NothingBeforeRun, BootIsQuiet, InterruptedByStop,
           UnwoundIsUnclaimed, NoOrphanClaim, Next
    PROVE  NoOrphanClaim'
<1>. 0 \notin Tasks /\ sched \in Tasks \cup {0}
  BY ZeroIsNoTask DEF TypeOK
<1>foreground. ASSUME NEW t \in Tasks, Foreground(t)
      PROVE  NoOrphanClaim'
  BY <1>foreground, ForegroundEffect
     DEF svcVars, OthersSame, NoOrphanClaim, TerminalStatuses
<1>worker. ASSUME NEW t \in Tasks, Worker(t)
      PROVE  NoOrphanClaim'
  <2>1. phase = "up" /\ pc'[t] = "none" => rows' = rows /\ rows[t].status \notin Claimed
    <3>1. pc'[t] = "none" => \/ pc[t] = "final" /\ rows' = rows
                             \/ thrown[t] /\ rows' = rows
      BY <1>worker
         DEF Goto, TypeOK, svcVars, Worker, WorkerBegins, WorkerEnters, WorkerCallsTools,
             WorkerHasChildResult, WorkerDecides, WorkerParks, WorkerSeals, WorkerRaises,
             WorkerInterrupted, WorkerDrains, WorkerStarts, WorkerSettles, WorkerPolls,
             WorkerReturns, WorkerCallsChild, WorkerExits, WorkerCheckpoints, WorkerFails,
             WorkerHandlesStop, WorkerSeesJobDone
    <3>. QED
      BY <3>1
         DEF UnwoundIsUnclaimed, InterruptedByStop, CancelAgrees, Terminal,
             TerminalStatuses, Claimed
  <2>. QED
    BY <1>worker, <2>1, WorkerEffect DEF OthersSame, NoOrphanClaim, Claimed
<1>background. ASSUME NEW t \in Tasks, Background(t)
      PROVE  NoOrphanClaim'
  BY <1>background, BackgroundEffect DEF NoOrphanClaim, NothingBeforeRun
<1>scheduler. ASSUME NEW t \in Tasks, \/ SchedExpire(t) \/ SchedClaim(t) \/ SchedLaunch(t)
                              \/ SchedBlocked(t) \/ SchedReleaseClaim(t)
      PROVE  NoOrphanClaim'
  BY <1>scheduler, SchedulerEffect DEF OthersSame, NoOrphanClaim, Claimed
<1>stopper. ASSUME NEW c \in Stoppers, Stopper(c)
      PROVE  NoOrphanClaim'
  BY <1>stopper, StopperEffect DEF OthersSame, NoOrphanClaim, TerminalStatuses
<1>begins. ASSUME NEW c \in Stoppers, NEW t \in Tasks, StopBegins(c, t)
      PROVE  NoOrphanClaim'
  BY <1>begins DEF StopBegins, NoOrphanClaim
<1>clock. CASE (\E t \in Tasks : DeadlinePasses(t)) \/ Close \/ CloseInterrupts \/ StartService
  BY <1>clock, ClockAndPhaseEffect DEF NoOrphanClaim, BootIsQuiet, Claimed
<1>ends. CASE ProcessEnds
  BY <1>ends, ProcessEndsEffect DEF NoOrphanClaim
<1>recover. CASE Recover
  BY <1>recover, RecoverEffect DEF SameBookkeeping, NoOrphanClaim
<1>. QED
  BY <1>foreground, <1>worker, <1>background, <1>scheduler, <1>stopper, <1>begins,
     <1>clock, <1>ends, <1>recover
     DEF Next, Scheduler, Lifecycle

-----------------------------------------------------------------------------
(* Theorems.                                                                *)

\* No coroutine and no row exists at the start.
LEMMA InitIInv == Init => IInv
<1>. SUFFICES ASSUME Init
              PROVE  IInv
  OBVIOUS
<1>1. StoreInv
  BY InitGood, StoreInvIsPerRow DEF Init
<1>2. TypeOK
  BY <1>1, StoreAssumption, ServiceAssumption
     DEF Init, TypeOK, StoreInv, WorkerStates, Verdicts, Idle
<1>3. \A t \in Tasks : rows[t] = AbsentRow
  BY DEF Init, StoreInit
<1>. QED
  BY <1>1, <1>2, <1>3
     DEF Init, IInv, AbsentRow, AbsentIsUntouched, CursorsBehindJournal, StopsNameTasks,
         StopsAreRecorded, OneWorkerPerTask, NothingBeforeRun, HeldUntilHandoff,
         ClaimWindow, InterruptedByStop, UnwoundIsUnclaimed, BootIsQuiet, NoOrphanClaim,
         Idle, Tasks

\* Every step preserves the inductive invariant.
LEMMA StepIInv == IInv /\ [Next]_vars => IInv'
<1>. SUFFICES ASSUME IInv, [Next]_vars
              PROVE  IInv'
  OBVIOUS
<1>1. CancelAgrees
  BY DEF IInv, StoreInv
<1>2. CASE Next
  <2>1. StoreInv' /\ SvcTypeOK'
    BY <1>2, StepStoreInv, StepSvcType DEF IInv
  <2>2. TypeOK'
    BY <2>1 DEF TypeOK, SvcTypeOK, StoreInv
  <2>3. /\ AbsentIsUntouched' /\ CursorsBehindJournal' /\ StopsNameTasks' /\ StopsAreRecorded'
        /\ OneWorkerPerTask' /\ NothingBeforeRun' /\ HeldUntilHandoff' /\ ClaimWindow'
    BY <1>1, <1>2, StepAbsent, StepCursors, StepStopsNameTasks, StepStopsRecorded,
       StepOneWorker, StepNothingBeforeRun, StepHeld, StepClaimWindow
       DEF IInv
  <2>4. InterruptedByStop' /\ UnwoundIsUnclaimed' /\ BootIsQuiet' /\ NoOrphanClaim'
    BY <1>1, <1>2, StepInterrupted, StepUnwound, StepBootIsQuiet, StepNoOrphan DEF IInv
  <2>. QED
    BY <2>1, <2>2, <2>3, <2>4 DEF IInv
<1>3. CASE UNCHANGED vars
  BY <1>3
     DEF vars, svcVars, IInv, TypeOK, StoreInv, StoreTypeOK, CancelAgrees,
         OnlySettledIsOwed, RetryBudget, Active, Terminal, AbsentIsUntouched,
         CursorsBehindJournal, StopsNameTasks, StopsAreRecorded, OneWorkerPerTask,
         NothingBeforeRun, HeldUntilHandoff, ClaimWindow, InterruptedByStop,
         UnwoundIsUnclaimed, BootIsQuiet, NoOrphanClaim
<1>. QED
  BY <1>2, <1>3

\* The inductive invariant holds in every reachable state.
THEOREM Invariance == Spec => []IInv
  BY InitIInv, StepIInv, PTL DEF Spec

\* The state of the rows, the coroutines and the stop requests keeps its types.
THEOREM TypeCorrect == Spec => []TypeOK
<1>1. IInv => TypeOK
  BY DEF IInv
<1>. QED
  BY <1>1, Invariance, PTL

\* While the service is up every row that says running, waiting_for_job or
\* recovering has a worker or is in the claim window (release_claim and
\* _claim_next_runnable, bot/app/coding_tasks.py).
THEOREM ClaimsHaveOwners == Spec => []NoOrphanClaim
<1>1. IInv => NoOrphanClaim
  BY DEF IInv
<1>. QED
  BY <1>1, Invariance, PTL

\* The claim window and a live worker are never about the same task, so steering
\* a paused task starts no second worker (claim_next excludes live workers).
THEOREM AtMostOneWorker == Spec => []OneWorkerPerTask
<1>1. IInv => OneWorkerPerTask
  BY DEF IInv
<1>. QED
  BY <1>1, Invariance, PTL

\* No managed job and no tool child outlives its worker (_finalize_task_run).
THEOREM NothingOutlivesWorker == Spec => []NoStrayWork
<1>1. IInv => NoStrayWork
  BY DEF IInv, NothingBeforeRun, NoStrayWork
<1>. QED
  BY <1>1, Invariance, PTL

\* A task with a pending handoff is never claimed (claim_next, handoff_pending).
THEOREM HeldTasksWait == Spec => []HeldUntilHandoff
<1>1. IInv => HeldUntilHandoff
  BY DEF IInv
<1>. QED
  BY <1>1, Invariance, PTL

\* Refinement: the service implements the store's specification, so what the
\* store promises any caller holds of the running service.
THEOREM ServiceImplementsStore == Spec => ImplementsStore
<1>1. Init => StoreInit
  BY DEF Init
<1>2. IInv /\ [Next]_vars => [StoreNext]_rows
  BY ServiceStepIsStoreStep DEF IInv, vars
<1>. QED
  BY <1>1, <1>2, Invariance, PTL DEF Spec, ImplementsStore, StoreSpec

\* In the running service, too, a settled status is final and a stop wins.
COROLLARY ServiceSettlesOnce == Spec => SettledOnce /\ CancelWins
  BY ServiceImplementsStore, SettledStaysSettled, StopRequestWins, PTL DEF ImplementsStore

=============================================================================
