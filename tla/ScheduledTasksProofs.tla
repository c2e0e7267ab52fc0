--------------------------- MODULE ScheduledTasksProofs ---------------------------
(***************************************************************************)
(* Proofs about ScheduledTasks.  For any number of processes that share    *)
(* the lease, runs, messages, requests and restarts: one occurrence is     *)
(* outstanding, an ended run stays ended, a result is saved only over the  *)
(* state it was made from, and only after its messages.  For one process:  *)
(* messages are posted once, and in order unless a failure is left without *)
(* its pause.                                                              *)
(*                                                                         *)
(* Most steps change one run, and none reopens it, so the argument is      *)
(* about single rows (Good, Kept); claim and retry_delivery, which do open *)
(* a run, are treated by themselves.                                       *)
(***************************************************************************)
EXTENDS ScheduledTasks, FiniteSetTheorems, TLAPS

(* The inductive invariant, for any number of processes.                      *)

TaskType == [status : {"draft", "active", "paused", "attention", "completed", "rejected"},
             revision : Nat, approval : {"pending", "approved", "rejected"}, active : Nat,
             generation : Nat, state : Nat, next : Nat, when : {"never", "later", "due"}]
RunType == [status : RunStatuses, revision : Nat, generation : Nat, input : Nat,
            chunk : [Chunks -> ChunkStatuses], attempts : [Chunks -> Nat],
            posted : [Chunks -> Nat], saved : BOOLEAN, torn : BOOLEAN]
WorkType == [at : {"none", "admitted", "read", "running", "ready"}, doomed : BOOLEAN,
             revision : Nat, next : Nat, generation : Nat, input : Nat, run : Runs \cup {0}]
PostPlaces == {"idle", "picked", "sending", "posted", "throttled", "rejected", "unknown",
               "condemned"}
PostType == [at : PostPlaces, chunk : Chunks \cup {0}, spent : BOOLEAN]

\* A row of scheduled_task_runs with its deliveries, by itself: there are no messages
\* before the run has finished, they are numbered without a gap, a message that is under
\* way belongs to a run that was not ended by its publisher, what is recorded as sent was
\* posted, and a run that saved its state has posted every message.
Good(x) ==
    /\ x.status \in {"absent", "running"} => \A i \in Chunks : x.chunk[i] = "none"
    /\ \A i \in Chunks : x.chunk[i] # "none" => \A j \in 1..(i - 1) : x.chunk[j] # "none"
    /\ (\E i \in Chunks : x.chunk[i] = "sending") =>
          x.status \in {"delivery", "delivery_failed", "cancelled"}
    /\ \A i \in Chunks : x.chunk[i] = "sent" => x.posted[i] > 0
    /\ x.status = "delivery" => \A i \in Chunks : x.chunk[i] # "cancelled"
    /\ x.saved => /\ x.status \in {"completed", "no_change"}
                  /\ \A i \in Chunks : x.chunk[i] # "none" => x.posted[i] > 0
    /\ x.input = x.generation

TaskInv ==
    /\ task \in TaskType /\ task.active <= task.revision /\ 0 < task.revision
    /\ task.status = "active" => task.active > 0
    /\ task.state = task.generation       \* every write of the state renews the generation
RunsInv == runs \in [Runs -> RunType] /\ \A r \in Runs : Good(runs[r])
LeaseInv == lease \in [token : Runners \cup {"nobody"}, expired : BOOLEAN] /\ owns \in [Runners -> BOOLEAN]
WorkInv ==
    /\ work \in [Runners -> WorkType]
    /\ \A p \in Runners : /\ work[p].at \in {"running", "ready"} => work[p].run \in Created
                          /\ work[p].input = work[p].generation
\* A publisher on its way has a message of the run, which it has posted once it says so.
PubInv ==
    /\ pub \in [Runners -> [Runs -> PostType]]
    /\ \A p \in Runners, r \in Runs : pub[p][r].at # "idle" =>
          /\ pub[p][r].chunk \in Chunks /\ Chunk(p, r) # "none"
          /\ pub[p][r].at = "posted" => runs[r].posted[pub[p][r].chunk] > 0
\* Runs are numbered as they are claimed, only the last one is outstanding, and none is
\* claimed before a revision was approved.
OrderInv ==
    /\ \A r \in Created, q \in Runs : q < r => q \in Created
    /\ \A r \in Outstanding, q \in Created : q <= r
    /\ Created # {} => task.active > 0

IInv == TaskInv /\ RunsInv /\ LeaseInv /\ WorkInv /\ PubInv /\ OrderInv

-----------------------------------------------------------------------------
(* What is added for one process, whose publisher of a run is the only one.   *)

\* "Kimi runs one process" (docs/modules.md 391).  It may end and be restarted, and its
\* lease may expire, at any time.
OneProcess == \E p : Runners = {p}

\* A row x and the publisher v of its run: a message that may still be sent has not been
\* posted, and none was posted twice.  If the run is untorn, a failure that was recorded
\* is about to be answered, and whoever sends has posted the messages before.
Unsent == {"none", "pending", "failed", "cancelled"}
Failures == {"failed", "uncertain"}
Fit(x, v) ==
    /\ \A i \in Chunks : x.posted[i] <= 1 /\ (x.chunk[i] \in Unsent => x.posted[i] = 0)
    /\ v.at \in {"picked", "sending", "throttled", "rejected"} => x.posted[v.chunk] = 0
    /\ v.at = "sending" => x.chunk[v.chunk] = "sending"
    /\ ~x.torn =>
          /\ x.status = "delivery" /\ v.at # "condemned" => \A i \in Chunks : x.chunk[i] \notin Failures
          /\ v.at = "sending" => \A j \in 1..(v.chunk - 1) : x.posted[j] > 0
          /\ \A i \in Chunks : x.posted[i] > 0 => \A j \in 1..(i - 1) : x.posted[j] > 0

Single ==
    \A p \in Runners, r \in Runs : Fit(runs[r], pub[p][r]) /\ (pub[p][r].at # "idle" => owns[p])

-----------------------------------------------------------------------------
(* Rows of runs.                                                            *)

\* Ended, but for a retry of saved output.
Ended(x) == x.status \notin {"absent", "running", "delivery", "delivery_failed"}

\* What a step may do to a run, old to new: it opens nothing, forgets no message, and
\* saves only over the state the run was made from.
Grown(x, y) == \A i \in Chunks : x.chunk[i] # "none" => y.chunk[i] # "none" /\ y.posted[i] >= x.posted[i]
Kept(x, y) ==
    /\ Grown(x, y)
    /\ y.status = "absent" <=> x.status = "absent"
    /\ y.status \in {"running", "delivery"} => x.status \in {"running", "delivery"}
    /\ Ended(x) => y.status = x.status \/ (x.status = "cancelled" /\ y.status = "interrupted")
    /\ y.saved /\ ~x.saved => x.generation = task.generation
RowsKept ==
    /\ runs' \in [Runs -> RunType]
    /\ \A r \in Runs : Good(runs'[r]) /\ Kept(runs[r], runs'[r])

\* The bounds, in the form the leaves use.
LEMMA Bounds ==
    /\ MaxRuns \in Nat /\ 0 < MaxRuns /\ MaxChunks \in Nat /\ 0 < MaxChunks /\ MaxTries \in Nat
    /\ Runs \subseteq Nat /\ Chunks \subseteq Nat /\ 0 \notin Runs /\ 0 \notin Chunks
    /\ \A i \in Chunks : \A j \in 1..(i - 1) : j \in Chunks /\ j < i
  BY BoundsAssumption DEF Runs, Chunks

\* A step that leaves the runs alone.
LEMMA RunsSame ==
    ASSUME RunsInv, UNCHANGED runs
    PROVE  RowsKept
<1>1. ASSUME NEW r \in Runs
      PROVE  Kept(runs[r], runs[r])
  BY Bounds DEF Kept, Grown, RunsInv, RunType
<1>. QED
  BY <1>1 DEF RowsKept, RunsInv

\* A step that writes one run.
LEMMA OneRun ==
    ASSUME RunsInv, NEW r \in Runs, NEW y \in RunType, Good(y), Kept(runs[r], y),
           runs' = [runs EXCEPT ![r] = y]
    PROVE  RowsKept
<1>1. ASSUME NEW q \in Runs
      PROVE  Kept(runs[q], runs[q])
  BY Bounds DEF Kept, Grown, RunsInv, RunType
<1>2. \A q \in Runs : runs'[q] = IF q = r THEN y ELSE runs[q]
  BY DEF RunsInv
<1>. QED
  BY <1>1, <1>2 DEF RowsKept, RunsInv

\* set_status: a withdrawn run keeps its messages, pending ones are cancelled.
LEMMA WithdrawnKept ==
    ASSUME RunsInv, runs' = [r \in Runs |-> Withdrawn(runs[r])]
    PROVE  RowsKept
<1>1. ASSUME NEW x \in RunType, Good(x)
      PROVE  Withdrawn(x) \in RunType /\ Good(Withdrawn(x)) /\ Kept(x, Withdrawn(x))
  <2>1. CASE x.status = "absent"
    <3>1. Withdrawn(x) = x
      BY <2>1 DEF Withdrawn
    <3>2. Kept(x, x)
      BY Bounds DEF Kept, Grown, RunType
    <3>. QED
      BY <1>1, <3>1, <3>2
  <2>2. CASE x.status # "absent"
    <3>. DEFINE s == IF x.status \in {"running", "delivery"} THEN "cancelled" ELSE x.status
                c == [i \in Chunks |-> IF x.chunk[i] = "pending" THEN "cancelled" ELSE x.chunk[i]]
                y == [x EXCEPT !.status = s, !.chunk = c]
    <3>1. Withdrawn(x) = y
      BY <2>2 DEF Withdrawn
    <3>2. s \in RunStatuses /\ c \in [Chunks -> ChunkStatuses]
      BY DEF RunType, RunStatuses, ChunkStatuses
    <3>3. \A i \in Chunks : c[i] = IF x.chunk[i] = "pending" THEN "cancelled" ELSE x.chunk[i]
      OBVIOUS
    <3>4. s = x.status \/ (x.status \in {"running", "delivery"} /\ s = "cancelled")
      OBVIOUS
    <3>. HIDE DEF s, c
    <3>5. y \in RunType
      BY <3>2 DEF RunType
    <3>6. Good(y)
      <4>1. /\ y.status = s /\ y.chunk = c /\ y.posted = x.posted /\ y.saved = x.saved
            /\ y.input = x.input /\ y.generation = x.generation
        BY DEF RunType
      <4>2. \A i \in Chunks : /\ c[i] = "none" <=> x.chunk[i] = "none"
                              /\ c[i] = "sent" <=> x.chunk[i] = "sent"
                              /\ c[i] = "sending" <=> x.chunk[i] = "sending"
        BY <3>3
      <4>3. /\ s \notin {"running", "delivery"} /\ (s = "absent" <=> x.status = "absent")
            /\ x.status \in {"delivery", "delivery_failed", "cancelled"} =>
                  s \in {"delivery", "delivery_failed", "cancelled"}
            /\ x.status \in {"completed", "no_change"} => s = x.status
        BY <3>4 DEF s
      <4>. QED
        BY <1>1, <2>2, <4>1, <4>2, <4>3, Bounds DEF Good
    <3>7. Kept(x, y)
      BY <1>1, <2>2, <3>3, <3>4, Bounds DEF Kept, Grown, Ended, RunType
    <3>. QED
      BY <3>1, <3>5, <3>6, <3>7
  <2>. QED
    BY <2>1, <2>2
<1>. QED
  BY <1>1 DEF RunsInv, RowsKept

\* recover: an abandoned run is interrupted, and what it was sending is uncertain.
LEMMA RecoverKept ==
    ASSUME RunsInv, Recover
    PROVE  RowsKept
<1>. DEFINE rec(x) == [x EXCEPT !.status = "interrupted",
                  !.chunk = [i \in Chunks |-> IF x.chunk[i] = "sending" THEN "uncertain" ELSE x.chunk[i]]]
<1>1. ASSUME NEW r \in Runs, Abandoned(r)
      PROVE  rec(runs[r]) \in RunType /\ Good(rec(runs[r])) /\ Kept(runs[r], rec(runs[r]))
  <2>. DEFINE c == [i \in Chunks |-> IF runs[r].chunk[i] = "sending" THEN "uncertain"
                                    ELSE runs[r].chunk[i]]
              y == [runs[r] EXCEPT !.status = "interrupted", !.chunk = c]
  <2>1. runs[r] \in RunType /\ Good(runs[r])
    BY DEF RunsInv
  <2>2. c \in [Chunks -> ChunkStatuses]
    BY <2>1 DEF RunType, ChunkStatuses
  <2>3. \A i \in Chunks : c[i] = IF runs[r].chunk[i] = "sending" THEN "uncertain" ELSE runs[r].chunk[i]
    OBVIOUS
  <2>4. runs[r].status \in {"running", "delivery", "delivery_failed", "cancelled"}
    BY <1>1, <2>1 DEF Abandoned, Good
  <2>. HIDE DEF c
  <2>5. y \in RunType
    BY <2>1, <2>2 DEF RunType, RunStatuses
  <2>6. Good(y)
    BY <2>1, <2>3, <2>4, Bounds DEF Good, RunType
  <2>7. Kept(runs[r], y)
    BY <2>1, <2>3, <2>4, Bounds DEF Kept, Grown, Ended, RunType
  <2>. QED
    BY <2>5, <2>6, <2>7 DEF c
<1>. HIDE DEF rec
<1>2. runs' = [r \in Runs |-> IF ~(r \in Created /\ Abandoned(r)) THEN runs[r] ELSE rec(runs[r])]
  BY DEF Recover, rec
<1>3. ASSUME NEW r \in Runs
      PROVE  runs'[r] \in RunType /\ Good(runs'[r]) /\ Kept(runs[r], runs'[r])
  <2>1. runs[r] \in RunType /\ Good(runs[r]) /\ Kept(runs[r], runs[r])
    BY Bounds DEF Kept, Grown, RunsInv, RunType
  <2>. QED
    BY <1>1, <1>2, <2>1
<1>. QED
  BY <1>2, <1>3 DEF RowsKept

\* Cancelling the publisher of p changes nothing but the mark of a failure left behind.
LEMMA UnattendedKept ==
    ASSUME RunsInv, NEW p, runs' = Unattended(runs, p)
    PROVE  RowsKept
<1>1. ASSUME NEW r \in Runs, NEW b \in BOOLEAN
      PROVE  LET y == [runs[r] EXCEPT !.torn = b] IN y \in RunType /\ Good(y) /\ Kept(runs[r], y)
  <2>. DEFINE y == [runs[r] EXCEPT !.torn = b]
  <2>1. runs[r] \in RunType /\ Good(runs[r])
    BY DEF RunsInv
  <2>2. y \in RunType
    BY <2>1 DEF RunType
  <2>3. Good(y) /\ Kept(runs[r], y)
    BY <2>1, Bounds DEF Good, Kept, Grown, RunType
  <2>. QED
    BY <2>2, <2>3
<1>2. ASSUME NEW r \in Runs
      PROVE  \E b \in BOOLEAN : runs'[r] = [runs[r] EXCEPT !.torn = b]
  BY DEF Unattended
<1>. QED
  BY <1>1, <1>2 DEF RowsKept, Unattended

\* finish of a run that is still running: no message, and its state saved if it is fresh.
LEMMA SettleKept ==
    ASSUME RunsInv, NEW p \in Runners, work[p].run \in Runs,
           NEW outcome \in {"completed", "needs_input", "no_change", "failed", "read_failed"},
           Settle(p, outcome)
    PROVE  RowsKept
<1>1. CASE runs[work[p].run].status # "running"
  BY <1>1, RunsSame DEF Settle, rows
<1>2. CASE runs[work[p].run].status = "running"
  <2>1. PICK r \in Runs : r = work[p].run
    OBVIOUS
  <2>2. PICK b \in BOOLEAN : b <=> outcome \in {"completed", "no_change"} /\ Fresh(r)
    OBVIOUS
  <2>. DEFINE y == [runs[r] EXCEPT !.status = outcome, !.saved = b]
  <2>3. runs[r] \in RunType /\ Good(runs[r]) /\ runs[r].status = "running"
    BY <1>2, <2>1 DEF RunsInv
  <2>4. y \in RunType
    BY <2>3 DEF RunType, RunStatuses
  <2>5. Good(y)
    BY <2>2, <2>3, Bounds DEF Good, RunType
  <2>6. Kept(runs[r], y)
    BY <2>2, <2>3, Bounds DEF Kept, Grown, Ended, Fresh, RunType
  <2>7. runs' = [runs EXCEPT ![r].status = outcome,
                             ![r].saved = (outcome \in {"completed", "no_change"} /\ Fresh(r))]
    BY <1>2, <2>1 DEF Settle
  <2>8. runs' = [runs EXCEPT ![r] = y]
    BY <2>2, <2>7 DEF RunsInv, RunType
  <2>. QED
    BY <2>4, <2>5, <2>6, <2>8, OneRun
<1>. QED
  BY <1>1, <1>2

\* finish with posts: the first n messages of a run that is still running are pending.
LEMMA FinishWithPostsKept ==
    ASSUME RunsInv, NEW p \in Runners, work[p].run \in Runs, FinishWithPosts(p)
    PROVE  RowsKept
<1>1. PICK r \in Runs : r = work[p].run
  OBVIOUS
<1>2. PICK n \in Chunks : runs' =
         [runs EXCEPT ![r] =
             IF @.status # "running" THEN @
             ELSE [@ EXCEPT !.status = "delivery",
                            !.chunk = [i \in Chunks |-> IF i <= n THEN "pending" ELSE "none"]]]
  BY <1>1 DEF FinishWithPosts
<1>3. CASE runs[r].status # "running"
  <2>1. runs' = runs
    BY <1>2, <1>3 DEF RunsInv
  <2>. QED
    BY <2>1, RunsSame
<1>4. CASE runs[r].status = "running"
  <2>. DEFINE c == [i \in Chunks |-> IF i <= n THEN "pending" ELSE "none"]
              y == [runs[r] EXCEPT !.status = "delivery", !.chunk = c]
  <2>1. runs[r] \in RunType /\ Good(runs[r])
    BY DEF RunsInv
  <2>2. c \in [Chunks -> ChunkStatuses] /\ \A i \in Chunks : c[i] = IF i <= n THEN "pending" ELSE "none"
    BY DEF ChunkStatuses
  <2>3. runs' = [runs EXCEPT ![r] = y]
    BY <1>2, <1>4
  <2>. HIDE DEF c
  <2>4. y \in RunType
    BY <2>1, <2>2 DEF RunType, RunStatuses
  <2>5. Good(y)
    BY <1>4, <2>1, <2>2, Bounds DEF Good, RunType
  <2>6. Kept(runs[r], y)
    BY <1>4, <2>1, <2>2, Bounds DEF Kept, Good, Grown, Ended, RunType
  <2>. QED
    BY <2>3, <2>4, <2>5, <2>6, OneRun
<1>. QED
  BY <1>3, <1>4

\* begin_delivery: the message goes on its way, if its run is still published.
LEMMA BeginKept ==
    ASSUME RunsInv, PubInv, NEW p \in Runners, NEW r \in Runs, Begin(p, r)
    PROVE  RowsKept
<1>1. CASE UNCHANGED runs
  BY <1>1, RunsSame
<1>2. CASE ~UNCHANGED runs
  <2>1. PICK c \in Chunks : c = pub[p][r].chunk
    BY DEF PubInv, Begin, Posting
  <2>2. PICK a \in Nat : a = IF runs[r].attempts[c] < MaxTries THEN runs[r].attempts[c] + 1
                             ELSE runs[r].attempts[c]
    BY Bounds DEF RunsInv, RunType
  <2>. DEFINE y == [runs[r] EXCEPT !.chunk[c] = "sending", !.attempts[c] = a]
  <2>3. runs[r] \in RunType /\ Good(runs[r]) /\ runs[r].status = "delivery" /\ runs[r].chunk[c] = "pending"
    BY <1>2, <2>1 DEF RunsInv, Begin, Publishable, Chunk
  <2>4. runs' = [runs EXCEPT ![r].chunk[c] = "sending",
                             ![r].attempts[c] = IF @ < MaxTries THEN @ + 1 ELSE @]
    BY <1>2, <2>1 DEF Begin
  <2>5. runs' = [runs EXCEPT ![r] = y]
    BY <2>2, <2>3, <2>4 DEF RunsInv, RunType
  <2>6. y \in RunType
    BY <2>3 DEF RunType, ChunkStatuses
  <2>7. Good(y)
    BY <2>3, Bounds DEF Good, RunType
  <2>8. Kept(runs[r], y)
    BY <2>3, Bounds DEF Kept, Grown, Ended, RunType
  <2>. QED
    BY <2>5, <2>6, <2>7, <2>8, OneRun
<1>. QED
  BY <1>1, <1>2

\* channel.send: the message is posted or not.
LEMMA SendKept ==
    ASSUME RunsInv, PubInv, NEW p \in Runners, NEW r \in Runs, Send(p, r)
    PROVE  RowsKept
<1>1. PICK c \in Chunks : c = pub[p][r].chunk
  BY DEF PubInv, Send, Posting
<1>2. PICK made \in {0, 1} : runs' = [runs EXCEPT ![r].posted[c] = @ + made]
  BY <1>1 DEF Send
<1>3. runs[r] \in RunType /\ Good(runs[r])
  BY DEF RunsInv
<1>4. PICK n \in Nat : n = runs[r].posted[c] + made
  BY <1>3 DEF RunType
<1>. DEFINE y == [runs[r] EXCEPT !.posted[c] = n]
<1>5. runs' = [runs EXCEPT ![r] = y]
  BY <1>2, <1>4 DEF RunsInv, RunType
<1>6. y \in RunType
  BY <1>3 DEF RunType
<1>7. \A i \in Chunks : y.posted[i] >= runs[r].posted[i]
  BY <1>3, <1>4 DEF RunType
<1>8. Good(y)
  BY <1>3, <1>6, <1>7, Bounds DEF Good, RunType
<1>9. Kept(runs[r], y)
  BY <1>3, <1>7, Bounds DEF Kept, Grown, Ended, RunType
<1>. QED
  BY <1>5, <1>6, <1>8, <1>9, OneRun

\* delivery_status('sent'): the last message completes the run.
LEMMA RecordSentKept ==
    ASSUME RunsInv, PubInv, NEW p \in Runners, NEW r \in Runs, RecordSent(p, r)
    PROVE  RowsKept
<1>1. PICK c \in Chunks : c = pub[p][r].chunk
  BY DEF PubInv, RecordSent, Posting
<1>2. runs[r] \in RunType /\ Good(runs[r]) /\ runs[r].posted[c] > 0 /\ runs[r].chunk[c] # "none"
  BY <1>1 DEF RunsInv, PubInv, RecordSent, Posting, Chunk
<1>. DEFINE last == runs[r].status = "delivery" /\ \A i \in Chunks \ {c} : runs[r].chunk[i] \in {"none", "sent"}
<1>3. PICK b \in BOOLEAN : b <=> runs[r].saved \/ (last /\ Fresh(r))
  OBVIOUS
<1>4. PICK s \in RunStatuses : s = IF last THEN "completed" ELSE runs[r].status
  BY <1>2 DEF RunType, RunStatuses
<1>. DEFINE y == [runs[r] EXCEPT !.chunk[c] = "sent", !.status = s, !.saved = b]
<1>5. runs' = [runs EXCEPT ![r].chunk[c] = "sent",
                           ![r].status = IF last THEN "completed" ELSE @,
                           ![r].saved = @ \/ (last /\ Fresh(r))]
  BY <1>1 DEF RecordSent
<1>6. runs' = [runs EXCEPT ![r] = y]
  BY <1>2, <1>3, <1>4, <1>5 DEF RunsInv, RunType
<1>7. y \in RunType
  BY <1>2 DEF RunType, ChunkStatuses
<1>8. y.chunk = [runs[r].chunk EXCEPT ![c] = "sent"] /\ y.status = s /\ y.saved = b
      /\ y.posted = runs[r].posted /\ y.input = runs[r].input /\ y.generation = runs[r].generation
  BY <1>2 DEF RunType
<1>9. \A i \in Chunks : y.chunk[i] = IF i = c THEN "sent" ELSE runs[r].chunk[i]
  BY <1>2, <1>8 DEF RunType
<1>. HIDE DEF y
<1>10. Good(y)
  BY <1>2, <1>3, <1>4, <1>8, <1>9, Bounds DEF Good, RunType
<1>11. Kept(runs[r], y)
  BY <1>2, <1>3, <1>4, <1>8, <1>9, Bounds DEF Kept, Grown, Ended, RunType, Fresh
<1>. QED
  BY <1>6, <1>7, <1>10, <1>11, OneRun

\* delivery_status with a failure, written whatever became of the run.
LEMMA RecordFailureKept ==
    ASSUME RunsInv, PubInv, NEW p \in Runners, NEW r \in Runs, RecordFailure(p, r)
    PROVE  RowsKept
<1>1. PICK c \in Chunks : c = pub[p][r].chunk
  BY DEF PubInv, RecordFailure, Posting
<1>2. PICK status \in {"pending", "failed", "uncertain"} : runs' = [runs EXCEPT ![r].chunk[c] = status]
  BY <1>1 DEF RecordFailure
<1>3. runs[r] \in RunType /\ Good(runs[r]) /\ runs[r].chunk[c] # "none"
  BY <1>1 DEF RunsInv, PubInv, RecordFailure, Posting, Chunk
<1>. DEFINE y == [runs[r] EXCEPT !.chunk[c] = status]
<1>4. runs' = [runs EXCEPT ![r] = y]
  BY <1>2 DEF RunsInv
<1>5. y \in RunType
  BY <1>3 DEF RunType, ChunkStatuses
<1>6. \A i \in Chunks : y.chunk[i] = IF i = c THEN status ELSE runs[r].chunk[i]
  BY <1>3 DEF RunType
<1>7. Good(y)
  BY <1>3, <1>6, Bounds DEF Good, RunType
<1>8. Kept(runs[r], y)
  BY <1>3, <1>6, Bounds DEF Kept, Grown, Ended, RunType
<1>. QED
  BY <1>4, <1>5, <1>7, <1>8, OneRun

\* attention: a run in delivery has failed.
LEMMA AttentionKept ==
    ASSUME RunsInv, NEW p \in Runners, NEW r \in Runs, Attention(p, r)
    PROVE  RowsKept
<1>1. runs[r] \in RunType /\ Good(runs[r])
  BY DEF RunsInv
<1>2. PICK s \in RunStatuses : s = IF runs[r].status = "delivery" THEN "delivery_failed" ELSE runs[r].status
  BY <1>1 DEF RunType, RunStatuses
<1>. DEFINE y == [runs[r] EXCEPT !.status = s]
<1>3. runs' = [runs EXCEPT ![r] = y]
  BY <1>2 DEF RunsInv, Attention
<1>4. y \in RunType
  BY <1>1 DEF RunType
<1>5. Good(y)
  BY <1>1, <1>2, Bounds DEF Good, RunType
<1>6. Kept(runs[r], y)
  BY <1>1, <1>2, Bounds DEF Kept, Grown, Ended, RunType
<1>. QED
  BY <1>3, <1>4, <1>5, <1>6, OneRun

-----------------------------------------------------------------------------
(* The two steps that open a run.                                           *)

\* No message is forgotten and no run taken away.
RowsGrow ==
    /\ runs' \in [Runs -> RunType]
    /\ \A r \in Runs : /\ Good(runs'[r]) /\ Grown(runs[r], runs'[r])
                       /\ r \in Created => runs'[r].status # "absent"

\* claim: a worker's snapshot w becomes the next run.
Opens(r, w, torn) ==
    /\ r \notin Created /\ r - 1 \in Created \cup {0}
    /\ Claimable(w) /\ Insert(r, w, torn)

\* What keeps the runs, lets them grow.
LEMMA KeptGrow ==
    ASSUME RowsKept
    PROVE  RowsGrow
  BY DEF RowsKept, RowsGrow, Kept, Created

\* A claim inserts a run that has done nothing yet.
LEMMA OpensGrow ==
    ASSUME RunsInv, NEW r \in Runs, NEW w \in WorkType, w.input = w.generation,
           NEW torn \in BOOLEAN, Opens(r, w, torn)
    PROVE  /\ RowsGrow /\ runs'[r].status = "running" /\ ~runs'[r].saved
           /\ \A i \in Chunks : runs'[r].chunk[i] = "none" /\ runs'[r].posted[i] = 0
           /\ \A q \in Runs : q # r => runs'[q] = runs[q]
<1>. DEFINE y == [NoRun EXCEPT !.status = "running", !.revision = w.revision,
                          !.generation = w.generation, !.input = w.input, !.torn = torn]
<1>1. /\ y.status = "running" /\ y.input = w.input /\ y.generation = w.generation
      /\ y.saved = FALSE /\ \A i \in Chunks : y.chunk[i] = "none" /\ y.posted[i] = 0
  BY DEF NoRun
<1>0. NoRun \in RunType
  BY DEF NoRun, RunType, RunStatuses, ChunkStatuses
<1>3. y \in RunType
  <2>1. "running" \in RunStatuses
    BY DEF RunStatuses
  <2>. QED
    BY <1>0, <2>1 DEF WorkType, RunType
<1>2. runs' = [runs EXCEPT ![r] = y]
  BY DEF Opens, Insert
<1>. HIDE DEF y
<1>4. Good(y)
  BY <1>1, Bounds DEF Good
<1>5. runs[r].status = "absent" /\ \A i \in Chunks : runs[r].chunk[i] = "none"
  BY DEF Opens, Created, RunsInv, Good
<1>6. \A q \in Runs : runs'[q] = IF q = r THEN y ELSE runs[q]
  BY <1>2 DEF RunsInv
<1>7. \A q \in Runs : Grown(runs[q], runs'[q])
  BY <1>5, <1>6, Bounds DEF Grown, RunsInv, RunType
<1>8. runs' \in [Runs -> RunType] /\ \A q \in Runs : Good(runs'[q])
  BY <1>2, <1>3, <1>4, <1>6 DEF RunsInv
<1>. QED
  BY <1>1, <1>5, <1>6, <1>7, <1>8 DEF RowsGrow, Created

\* retry_delivery: the failed messages of the newest run are pending again.
LEMMA RetryGrows ==
    ASSUME RunsInv, NEW r \in Runs, RetryDelivery(r)
    PROVE  /\ RowsGrow /\ runs'[r].status = "delivery" /\ runs'[r].saved = runs[r].saved
           /\ runs'[r].posted = runs[r].posted /\ runs'[r].torn = runs[r].torn
           /\ \A i \in Chunks : runs'[r].chunk[i] = IF runs[r].chunk[i] = "failed" THEN "pending"
                                                    ELSE runs[r].chunk[i]
           /\ \A q \in Runs : q # r => runs'[q] = runs[q]
<1>. DEFINE c == [i \in Chunks |-> IF runs[r].chunk[i] = "failed" THEN "pending" ELSE runs[r].chunk[i]]
            y == [runs[r] EXCEPT !.status = "delivery", !.chunk = c]
<1>1. runs[r] \in RunType /\ Good(runs[r]) /\ runs[r].status = "delivery_failed"
  BY DEF RunsInv, RetryDelivery
<1>2. c \in [Chunks -> ChunkStatuses]
      /\ \A i \in Chunks : c[i] = IF runs[r].chunk[i] = "failed" THEN "pending" ELSE runs[r].chunk[i]
  BY <1>1 DEF RunType, ChunkStatuses
<1>3. runs' = [runs EXCEPT ![r].status = "delivery", ![r].chunk = c]
  BY DEF RetryDelivery, RunsInv
<1>4. runs' = [runs EXCEPT ![r] = y]
  BY <1>3 DEF RunsInv
<1>5. \A i \in Chunks : runs[r].chunk[i] \notin {"uncertain", "cancelled"}
  BY DEF RetryDelivery
<1>. HIDE DEF c
<1>6. /\ y.status = "delivery" /\ y.chunk = c /\ y.posted = runs[r].posted /\ y.torn = runs[r].torn
      /\ y.saved = runs[r].saved /\ y.input = runs[r].input /\ y.generation = runs[r].generation
      /\ y \in RunType
  BY <1>1, <1>2 DEF RunType, RunStatuses
<1>. HIDE DEF y
<1>7. Good(y)
  BY <1>1, <1>2, <1>5, <1>6, Bounds DEF Good
<1>8. \A q \in Runs : runs'[q] = IF q = r THEN y ELSE runs[q]
  BY <1>4 DEF RunsInv
<1>9. ASSUME NEW q \in Runs
      PROVE  Grown(runs[q], runs'[q])
  <2>1. \A i \in Chunks : runs[q].posted[i] \in Nat
    BY DEF RunsInv, RunType
  <2>2. \A i \in Chunks : runs'[q].posted[i] = runs[q].posted[i]
    BY <1>6, <1>8
  <2>3. \A i \in Chunks : runs[q].chunk[i] # "none" => runs'[q].chunk[i] # "none"
    BY <1>2, <1>6, <1>8
  <2>. QED
    BY <2>1, <2>2, <2>3 DEF Grown
<1>10. runs' \in [Runs -> RunType] /\ \A q \in Runs : Good(runs'[q])
  BY <1>4, <1>6, <1>7, <1>8 DEF RunsInv
<1>. QED
  BY <1>2, <1>6, <1>8, <1>9, <1>10 DEF RowsGrow, Created

\* Settle, for whichever way a worker ends.
LEMMA EndKept ==
    ASSUME IInv, NEW p \in Runners, work[p].at \in {"running", "ready"},
           NEW outcome \in {"completed", "needs_input", "no_change", "failed", "read_failed"},
           Settle(p, outcome)
    PROVE  RowsKept
<1>1. work[p].run \in Runs
  BY DEF IInv, WorkInv, Created
<1>. QED
  BY <1>1, SettleKept DEF IInv

\* Every step keeps the runs, claims the next one or retries the newest one.
RowsMove ==
    \/ RowsKept
    \/ \E r \in Runs, p \in Runners, torn \in BOOLEAN : Opens(r, work[p], torn)
    \/ \E r \in Runs : RetryDelivery(r)

LEMMA RowsStep ==
    ASSUME IInv, [Next]_vars
    PROVE  RowsMove
<1>same. ASSUME UNCHANGED runs
         PROVE  RowsMove
  BY <1>same, RunsSame DEF RowsMove, IInv
<1>1. ASSUME Decide \/ TimeComes \/ LeaseExpires \/ DeadLeaseExpires \/ UNCHANGED vars
      PROVE  RowsMove
  BY <1>1, <1>same
     DEF Decide, Reject, Activate, TimeComes, LeaseExpires, DeadLeaseExpires, vars, rows
<1>2. ASSUME Request
      PROVE  RowsMove
  <2>1. CASE \E p \in Runners : Pause(p)
    BY <2>1, WithdrawnKept DEF Pause, IInv, RowsMove
  <2>2. CASE Draft \/ \E answered \in BOOLEAN : Resume(answered)
    BY <2>2, <1>same DEF Draft, Resume
  <2>3. CASE \E r \in Runs : RetryDelivery(r)
    BY <2>3 DEF RowsMove
  <2>. QED
    BY <1>2, <2>1, <2>2, <2>3 DEF Request
<1>3. ASSUME NEW p \in Runners, Tick(p)
      PROVE  RowsMove
  <2>1. CASE Lease(p)
    BY <2>1, RecoverKept, <1>same DEF Lease, rows, IInv, RowsMove
  <2>2. CASE Refused(p)
    BY <2>2, UnattendedKept DEF Refused, IInv, RowsMove
  <2>. QED
    BY <1>3, <2>1, <2>2 DEF Tick
<1>4. ASSUME NEW p \in Runners, Restart(p)
      PROVE  RowsMove
  <2>1. runs' = Unattended(runs, p)
    BY <1>4 DEF Restart
  <2>. QED
    BY <2>1, UnattendedKept DEF IInv, RowsMove
<1>5. ASSUME NEW p \in Runners, Admit(p) \/ Read(p) \/ Guard(p)
      PROVE  RowsMove
  BY <1>5, <1>same DEF Admit, Read, Guard, rows
<1>6. ASSUME NEW p \in Runners, Claim(p)
      PROVE  RowsMove
  <2>1. CASE Claimable(work[p])
    BY <1>6, <2>1 DEF Claim, Opens, RowsMove
  <2>2. CASE ~Claimable(work[p])
    BY <1>6, <2>2, <1>same DEF Claim, rows
  <2>. QED
    BY <2>1, <2>2
<1>7. ASSUME NEW p \in Runners, Finish(p)
      PROVE  RowsMove
  <2>1. work[p].at \in {"running", "ready"}
    BY <1>7 DEF Finish, Working
  <2>2. \E outcome \in {"completed", "needs_input", "no_change", "failed", "read_failed"} : Settle(p, outcome)
    BY <1>7 DEF Finish
  <2>. QED
    BY <2>1, <2>2, EndKept DEF RowsMove
<1>8. ASSUME NEW p \in Runners, FinishWithPosts(p)
      PROVE  RowsMove
  <2>1. work[p].run \in Runs
    BY <1>8 DEF FinishWithPosts, Working, IInv, WorkInv, Created
  <2>. QED
    BY <1>8, <2>1, FinishWithPostsKept DEF IInv, RowsMove
<1>9. ASSUME NEW p \in Runners, Interrupted(p)
      PROVE  RowsMove
  <2>1. CASE work[p].at \in {"running", "ready"} /\ Settle(p, "failed")
    BY <2>1, EndKept DEF RowsMove
  <2>2. CASE UNCHANGED rows
    BY <2>2, <1>same DEF rows
  <2>3. CASE /\ Claimable(work[p])
             /\ \E r \in Runs \ Created : r - 1 \in Created \cup {0} /\ Insert(r, work[p], TRUE)
    BY <2>3 DEF Opens, RowsMove
  <2>. QED
    BY <1>9, <2>1, <2>2, <2>3 DEF Interrupted
<1>10. ASSUME NEW p \in Runners, NEW r \in Runs, Pick(p, r) \/ Refuse(p, r) \/ Publish(p, r)
      PROVE  RowsMove
  <2>1. CASE Pick(p, r) \/ Refuse(p, r)
    BY <2>1, <1>same DEF Pick, Refuse, rows
  <2>2. CASE Publish(p, r)
    BY <2>2, BeginKept, SendKept, RecordSentKept, RecordFailureKept, AttentionKept
       DEF Publish, IInv, RowsMove
  <2>. QED
    BY <1>10, <2>1, <2>2
<1>. QED
  BY <1>1, <1>2, <1>3, <1>4, <1>5, <1>6, <1>7, <1>8, <1>9, <1>10 DEF Next, Work

\* Whatever the step, no message is forgotten.
LEMMA RowsGrowAlways ==
    ASSUME IInv, RowsMove
    PROVE  RowsGrow
<1>1. ASSUME NEW r \in Runs, NEW p \in Runners, NEW torn \in BOOLEAN, Opens(r, work[p], torn)
      PROVE  RowsGrow
  BY <1>1, OpensGrow DEF IInv, WorkInv
<1>2. ASSUME NEW r \in Runs, RetryDelivery(r)
      PROVE  RowsGrow
  BY <1>2, RetryGrows DEF IInv
<1>. QED
  BY <1>1, <1>2, KeptGrow DEF RowsMove

-----------------------------------------------------------------------------
(* The parts of the invariant.                                              *)

\* The task's columns; its active revision is never taken back.
LEMMA CommittedTask ==
    ASSUME TaskInv, NEW r
    PROVE  /\ Committed(r) \in TaskType /\ Committed(r).active = task.active
           /\ Committed(r).active <= Committed(r).revision /\ 0 < Committed(r).revision
           /\ Committed(r).status = "active" => Committed(r).active > 0
           /\ Committed(r).state = Committed(r).generation
<1>1. CASE Fresh(r)
  <2>1. PICK s \in {"draft", "active", "paused", "attention", "completed", "rejected"} :
          s = IF task.when = "never" THEN "completed" ELSE task.status
    BY DEF TaskInv, TaskType
  <2>2. Committed(r) = [task EXCEPT !.state = @ + 1, !.generation = @ + 1, !.status = s]
    BY <1>1, <2>1 DEF Committed
  <2>3. /\ task.state + 1 \in Nat /\ task.generation + 1 \in Nat
    BY DEF TaskInv, TaskType
  <2>4. [task EXCEPT !.state = @ + 1, !.generation = @ + 1, !.status = s] \in TaskType
    BY <2>3 DEF TaskInv, TaskType
  <2>. QED
    BY <2>1, <2>2, <2>4 DEF TaskInv, TaskType
<1>2. CASE ~Fresh(r)
  BY <1>2 DEF TaskInv, Committed
<1>. QED
  BY <1>1, <1>2

TaskMoves == TaskInv' /\ (task.active > 0 => task'.active > 0)

\* A task that only changes its status, to something else than active, or its time.
LEMMA TaskPut ==
    ASSUME TaskInv, NEW status \in {"paused", "attention", "rejected", "completed"},
           task' = [task EXCEPT !.status = status]
    PROVE  TaskMoves
  BY DEF TaskInv, TaskType, TaskMoves

LEMMA TaskStep ==
    ASSUME IInv, [Next]_vars
    PROVE  TaskMoves
<1>. TaskInv
  BY DEF IInv
<1>same. ASSUME UNCHANGED task
         PROVE  TaskMoves
  BY <1>same DEF TaskInv, TaskMoves
<1>done. ASSUME NEW r, task' = Committed(r)
         PROVE  TaskMoves
  <2>1. PICK c : c = Committed(r)
    OBVIOUS
  <2>2. /\ c \in TaskType /\ c.active = task.active /\ c.active <= c.revision
        /\ 0 < c.revision
        /\ c.status = "active" => c.active > 0
        /\ c.state = c.generation
    BY <2>1, CommittedTask
  <2>. QED
    BY <1>done, <2>1, <2>2 DEF TaskMoves, TaskInv
<1>attn. ASSUME task' = [task EXCEPT !.status = "attention"]
         PROVE  TaskMoves
  BY <1>attn, TaskPut
<1>1. ASSUME Decide
      PROVE  TaskMoves
  <2>1. CASE Reject
    BY <2>1 DEF Reject, TaskInv, TaskType, TaskMoves
  <2>2. ASSUME NEW reset \in BOOLEAN, Activate(reset)
        PROVE  TaskMoves
    <3>1. PICK d \in {0, 1} : d = IF reset THEN 1 ELSE 0
      OBVIOUS
    <3>2. task \in TaskType /\ task.state + d \in Nat /\ task.next + 1 \in Nat
          /\ task.revision \in Nat /\ 0 < task.revision /\ task.generation = task.state
      BY DEF TaskInv, TaskType
    <3>3. task' = [task EXCEPT !.approval = "approved", !.active = task.revision,
                               !.status = "active", !.next = task.next + 1, !.when = "later",
                               !.state = task.state + d, !.generation = task.state + d]
      BY <2>2, <3>1, <3>2 DEF Activate
    <3>4. task' \in TaskType
      BY <3>2, <3>3 DEF TaskType
    <3>5. /\ task'.revision = task.revision /\ task'.active = task.revision
          /\ task'.state = task'.generation
      BY <3>2, <3>3 DEF TaskType
    <3>. QED
      BY <3>2, <3>4, <3>5 DEF TaskInv, TaskMoves
  <2>. QED
    BY <1>1, <2>1, <2>2 DEF Decide
<1>2. ASSUME Request
      PROVE  TaskMoves
  <2>1. CASE Draft
    <3>1. task \in TaskType /\ task.revision + 1 \in Nat
      BY DEF TaskInv, TaskType
    <3>2. task' = [task EXCEPT !.revision = task.revision + 1, !.approval = "pending"]
      BY <2>1 DEF Draft
    <3>3. task' \in TaskType
      BY <3>1, <3>2 DEF TaskType
    <3>4. /\ task'.revision = task.revision + 1 /\ task'.active = task.active
          /\ task'.status = task.status
          /\ task'.state = task.state /\ task'.generation = task.generation
      BY <3>1, <3>2 DEF TaskType
    <3>5. task.active \in Nat /\ task.revision \in Nat
      BY <3>1 DEF TaskType
    <3>. QED
      BY <3>3, <3>4, <3>5 DEF TaskInv, TaskMoves
  <2>2. ASSUME NEW answered \in BOOLEAN, Resume(answered)
        PROVE  TaskMoves
    <3>1. PICK d \in {0, 1} : d = IF answered THEN 1 ELSE 0
      OBVIOUS
    <3>2. /\ task \in TaskType /\ task.state + d \in Nat /\ task.next + 1 \in Nat
          /\ task.generation = task.state /\ task.active \in Nat
      BY DEF TaskInv, TaskType
    <3>3. task' = [task EXCEPT !.status = "active", !.next = task.next + 1, !.when = "later",
                               !.state = task.state + d, !.generation = task.state + d]
      BY <2>2, <3>1, <3>2 DEF Resume
    <3>4. task' \in TaskType
      BY <3>2, <3>3 DEF TaskType
    <3>5. /\ task'.revision = task.revision /\ task'.active = task.active
          /\ task'.state = task'.generation
      BY <3>2, <3>3 DEF TaskType
    <3>6. task.active > 0
      BY <2>2, <3>2 DEF Resume
    <3>. QED
      BY <3>4, <3>5, <3>6 DEF TaskInv, TaskMoves
  <2>3. ASSUME NEW p \in Runners, Pause(p)
        PROVE  TaskMoves
    BY <2>3, TaskPut DEF Pause
  <2>4. ASSUME NEW r \in Runs, RetryDelivery(r)
        PROVE  TaskMoves
    <3>1. task.active > 0
      BY <2>4 DEF RetryDelivery, Newest, IInv, OrderInv
    <3>. QED
      BY <2>4, <3>1 DEF RetryDelivery, TaskInv, TaskType, TaskMoves
  <2>. QED
    BY <1>2, <2>1, <2>2, <2>3, <2>4 DEF Request
<1>3. ASSUME TimeComes
      PROVE  TaskMoves
  BY <1>3 DEF TimeComes, TaskInv, TaskType, TaskMoves
<1>4. ASSUME NEW p \in Runners, Tick(p)
      PROVE  TaskMoves
  BY <1>4, <1>same, <1>attn DEF Tick, Lease, Refused, Recover, rows
<1>5. ASSUME NEW p \in Runners, NEW outcome, Settle(p, outcome)
      PROVE  TaskMoves
  BY <1>5, <1>same, <1>done, <1>attn DEF Settle, rows
<1>6. ASSUME NEW r, NEW x, NEW torn, Insert(r, x, torn)
      PROVE  TaskMoves
  <2>1. PICK when \in {"never", "later"} : task' = [task EXCEPT !.next = @ + 1, !.when = when]
    BY <1>6 DEF Insert
  <2>2. task \in TaskType /\ task.next + 1 \in Nat
    BY DEF TaskInv, TaskType
  <2>3. task' \in TaskType
    BY <2>1, <2>2 DEF TaskType
  <2>4. /\ task'.revision = task.revision /\ task'.active = task.active
        /\ task'.status = task.status
        /\ task'.state = task.state /\ task'.generation = task.generation
    BY <2>1, <2>2 DEF TaskType
  <2>. QED
    BY <2>3, <2>4 DEF TaskInv, TaskMoves
<1>7. ASSUME NEW p \in Runners, Restart(p) \/ Admit(p) \/ Work(p)
      PROVE  TaskMoves
  BY <1>7, <1>same, <1>5, <1>6
     DEF Restart, Admit, Work, Read, Claim, Guard, Finish, FinishWithPosts, Interrupted,
         rows
<1>8. ASSUME NEW p \in Runners, NEW r \in Runs, Pick(p, r) \/ Refuse(p, r) \/ Publish(p, r)
      PROVE  TaskMoves
  BY <1>8, <1>same, <1>done, <1>attn
     DEF Pick, Refuse, Publish, Begin, Send, RecordSent, RecordFailure, Attention, rows
<1>9. ASSUME LeaseExpires \/ DeadLeaseExpires \/ UNCHANGED vars
      PROVE  TaskMoves
  BY <1>9, <1>same DEF LeaseExpires, DeadLeaseExpires, vars, rows
<1>. QED
  BY <1>1, <1>2, <1>3, <1>4, <1>7, <1>8, <1>9 DEF Next

\* The lease names a process or nobody.
LEMMA LeaseStep ==
    ASSUME IInv, [Next]_vars
    PROVE  LeaseInv'
<1>. LeaseInv
  BY DEF IInv
<1>same. ASSUME UNCHANGED <<lease, owns>>
         PROVE  LeaseInv'
  BY <1>same DEF LeaseInv
<1>1. ASSUME NEW p \in Runners, Tick(p)
      PROVE  LeaseInv'
  <2>1. CASE Lease(p)
    <3>1. lease' \in [token : Runners \cup {"nobody"}, expired : BOOLEAN]
      BY <2>1 DEF Lease
    <3>. QED
      BY <2>1, <3>1 DEF Lease, LeaseInv
  <2>2. CASE Refused(p)
    BY <2>2 DEF Refused, LeaseInv
  <2>. QED
    BY <1>1, <2>1, <2>2 DEF Tick
<1>2. ASSUME NEW p \in Runners, Restart(p)
      PROVE  LeaseInv'
  <2>1. PICK released \in BOOLEAN : lease' =
          IF lease.token = p THEN [token |-> "nobody", expired |-> lease.expired \/ released] ELSE lease
    BY <1>2 DEF Restart
  <2>2. lease' \in [token : Runners \cup {"nobody"}, expired : BOOLEAN]
    BY <2>1 DEF LeaseInv
  <2>. QED
    BY <1>2, <2>2 DEF Restart, LeaseInv
<1>3. ASSUME LeaseExpires \/ DeadLeaseExpires
      PROVE  LeaseInv'
  BY <1>3 DEF LeaseExpires, DeadLeaseExpires, LeaseInv, local
<1>4. ASSUME NEW p \in Runners, Admit(p) \/ Work(p)
      PROVE  LeaseInv'
  BY <1>4, <1>same
     DEF Admit, Work, Read, Claim, Guard, Finish, FinishWithPosts, Interrupted, Settle,
         Ends
<1>5. ASSUME NEW p \in Runners, NEW r \in Runs, Pick(p, r) \/ Refuse(p, r) \/ Publish(p, r)
      PROVE  LeaseInv'
  BY <1>5, <1>same
     DEF Pick, Refuse, Publish, Begin, Send, RecordSent, RecordFailure, Attention
<1>6. ASSUME Decide \/ Request \/ TimeComes \/ UNCHANGED vars
      PROVE  LeaseInv'
  BY <1>6, <1>same
     DEF Decide, Reject, Activate, Request, Draft, Resume, Pause, RetryDelivery, TimeComes,
         vars, local
<1>. QED
  BY <1>1, <1>2, <1>3, <1>4, <1>5, <1>6 DEF Next

\* The workers: one process's worker is put, or none changes.
LEMMA WorkSame ==
    ASSUME WorkInv, RowsGrow, UNCHANGED work
    PROVE  WorkInv'
  BY DEF WorkInv, RowsGrow, Created

LEMMA WorkPut ==
    ASSUME WorkInv, RowsGrow, NEW p \in Runners, NEW y \in WorkType, y.input = y.generation,
           y.at \in {"running", "ready"} => y.run \in Runs /\ runs'[y.run].status # "absent",
           work' = [work EXCEPT ![p] = y]
    PROVE  WorkInv'
<1>1. work' \in [Runners -> WorkType]
  BY DEF WorkInv
<1>2. \A q \in Runners : work'[q] = IF q = p THEN y ELSE work[q]
  BY DEF WorkInv
<1>. QED
  BY <1>1, <1>2 DEF WorkInv, RowsGrow, Created

LEMMA NoWorkTyped == NoWork \in WorkType /\ NoWork.at = "none" /\ NoWork.input = NoWork.generation
<1>1. 0 \in Nat /\ 0 \in Runs \cup {0} /\ FALSE \in BOOLEAN
  OBVIOUS
<1>. QED
  BY <1>1 DEF NoWork, WorkType

LEMMA WorkEnds ==
    ASSUME WorkInv, RowsGrow, NEW p \in Runners, Ends(p)
    PROVE  WorkInv'
  BY WorkPut, NoWorkTyped DEF Ends

\* The worker of p is doomed or not.
LEMMA WorkDoomed ==
    ASSUME WorkInv, RowsGrow, NEW p \in Runners, NEW b \in BOOLEAN,
           work' = [work EXCEPT ![p].doomed = b]
    PROVE  WorkInv'
<1>. DEFINE y == [work[p] EXCEPT !.doomed = b]
<1>1. work[p] \in WorkType /\ work' = [work EXCEPT ![p] = y]
  BY DEF WorkInv
<1>2. y \in WorkType
  BY <1>1 DEF WorkType
<1>3. y.input = y.generation /\ y.at = work[p].at /\ y.run = work[p].run
  BY <1>1 DEF WorkType, WorkInv
<1>4. y.at \in {"running", "ready"} => y.run \in Runs /\ runs'[y.run].status # "absent"
  BY <1>3 DEF WorkInv, RowsGrow, Created
<1>. HIDE DEF y
<1>. QED
  BY <1>1, <1>2, <1>3, <1>4, WorkPut

LEMMA WorkStep ==
    ASSUME IInv, [Next]_vars, RowsGrow
    PROVE  WorkInv'
<1>. WorkInv /\ TaskInv /\ RunsInv
  BY DEF IInv
<1>1. ASSUME NEW p \in Runners, Pause(p)
      PROVE  WorkInv'
  <2>1. PICK b \in BOOLEAN : b <=> work[p].at # "none"
    OBVIOUS
  <2>2. work' = [work EXCEPT ![p].doomed = b]
    BY <1>1, <2>1 DEF Pause
  <2>. QED
    BY <2>2, WorkDoomed
<1>2. ASSUME NEW p \in Runners, Tick(p)
      PROVE  WorkInv'
  <2>1. CASE Lease(p)
    BY <2>1, WorkSame DEF Lease
  <2>2. CASE Refused(p)
    <3>1. PICK b \in BOOLEAN : b <=> ~Bare(p)
      OBVIOUS
    <3>2. work' = [work EXCEPT ![p].doomed = b]
      BY <2>2, <3>1 DEF Refused
    <3>. QED
      BY <3>2, WorkDoomed
  <2>. QED
    BY <1>2, <2>1, <2>2 DEF Tick
<1>3. ASSUME NEW p \in Runners, Restart(p)
      PROVE  WorkInv'
  BY <1>3, WorkEnds DEF Restart, Ends
<1>4. ASSUME NEW p \in Runners, Admit(p)
      PROVE  WorkInv'
  <2>. DEFINE y == [NoWork EXCEPT !.at = "admitted", !.revision = task.active, !.next = task.next]
  <2>1. y \in WorkType
    BY NoWorkTyped DEF TaskInv, TaskType, WorkType
  <2>2. y.at = "admitted" /\ y.input = y.generation
    BY NoWorkTyped DEF NoWork
  <2>3. work' = [work EXCEPT ![p] = y]
    BY <1>4 DEF Admit
  <2>. HIDE DEF y
  <2>. QED
    BY <2>1, <2>2, <2>3, WorkPut
<1>5. ASSUME NEW p \in Runners, Read(p)
      PROVE  WorkInv'
  <2>. DEFINE y == [work[p] EXCEPT !.at = "read", !.generation = task.generation, !.input = task.state]
  <2>1. work[p] \in WorkType
    BY DEF WorkInv
  <2>2. y \in WorkType
    BY <2>1 DEF TaskInv, TaskType, WorkType
  <2>3. y.at = "read" /\ y.input = y.generation
    BY <2>1 DEF WorkType, TaskInv
  <2>4. work' = [work EXCEPT ![p] = y] \/ Ends(p)
    BY <1>5 DEF Read, WorkInv
  <2>. HIDE DEF y
  <2>. QED
    BY <2>2, <2>3, <2>4, WorkPut, WorkEnds
<1>6. ASSUME NEW p \in Runners, Claim(p)
      PROVE  WorkInv'
  <2>1. CASE Claimable(work[p])
    <3>1. PICK r \in Runs : Opens(r, work[p], FALSE) /\ work' = [work EXCEPT ![p].at = "running", ![p].run = r]
      BY <1>6, <2>1 DEF Claim, Opens
    <3>2. runs'[r].status = "running"
      BY <3>1, OpensGrow DEF WorkInv
    <3>. DEFINE y == [work[p] EXCEPT !.at = "running", !.run = r]
    <3>3. work[p] \in WorkType
      BY DEF WorkInv
    <3>4. y \in WorkType
      BY <3>3 DEF WorkType
    <3>5. y.run = r /\ y.input = y.generation
      BY <3>3 DEF WorkType, WorkInv
    <3>6. work' = [work EXCEPT ![p] = y]
      BY <3>1 DEF WorkInv
    <3>. HIDE DEF y
    <3>. QED
      BY <3>2, <3>4, <3>5, <3>6, WorkPut
  <2>2. CASE ~Claimable(work[p])
    BY <1>6, <2>2, WorkEnds DEF Claim
  <2>. QED
    BY <2>1, <2>2
<1>7. ASSUME NEW p \in Runners, Guard(p)
      PROVE  WorkInv'
  <2>. DEFINE y == [work[p] EXCEPT !.at = "ready"]
  <2>1. work[p] \in WorkType /\ work[p].run \in Created
    BY <1>7 DEF WorkInv, Guard, Working
  <2>2. y \in WorkType
    BY <2>1 DEF WorkType
  <2>3. y.run = work[p].run /\ y.input = y.generation
    BY <2>1 DEF WorkType, WorkInv
  <2>4. work' = [work EXCEPT ![p] = y]
    BY <1>7 DEF Guard, WorkInv
  <2>5. work[p].run \in Runs /\ runs'[work[p].run].status # "absent"
    BY <2>1 DEF RowsGrow, Created
  <2>. HIDE DEF y
  <2>. QED
    BY <2>2, <2>3, <2>4, <2>5, WorkPut
<1>8. ASSUME NEW p \in Runners, Finish(p) \/ FinishWithPosts(p) \/ Interrupted(p)
      PROVE  WorkInv'
  BY <1>8, WorkEnds DEF Finish, FinishWithPosts, Interrupted, Settle
<1>9. ASSUME NEW p \in Runners, NEW r \in Runs, Pick(p, r) \/ Refuse(p, r) \/ Publish(p, r)
      PROVE  WorkInv'
  BY <1>9, WorkSame
     DEF Pick, Refuse, Publish, Begin, Send, RecordSent, RecordFailure, Attention
<1>10. ASSUME Decide \/ TimeComes \/ LeaseExpires \/ DeadLeaseExpires \/ UNCHANGED vars
       PROVE  WorkInv'
  BY <1>10, WorkSame
     DEF Decide, Reject, Activate, TimeComes, LeaseExpires, DeadLeaseExpires, vars, local
<1>11. ASSUME Request
       PROVE  WorkInv'
  BY <1>11, <1>1, WorkSame DEF Request, Draft, Resume, RetryDelivery, local
<1>. QED
  BY <1>2, <1>3, <1>4, <1>5, <1>6, <1>7, <1>8, <1>9, <1>10, <1>11 DEF Next, Work

\* The publishers.
LEMMA PubSame ==
    ASSUME PubInv, RunsInv, RowsGrow, UNCHANGED pub
    PROVE  PubInv'
<1>1. ASSUME NEW r \in Runs, NEW i \in Chunks, runs[r].chunk[i] # "none"
      PROVE  /\ runs'[r].chunk[i] # "none" /\ runs'[r].posted[i] >= runs[r].posted[i]
             /\ runs[r].posted[i] \in Nat /\ runs'[r].posted[i] \in Nat
  BY <1>1 DEF RowsGrow, Grown, RunsInv, RunType
<1>. QED
  BY <1>1 DEF PubInv, Chunk

LEMMA PubPut ==
    ASSUME PubInv, RunsInv, RowsGrow, NEW p \in Runners, NEW r \in Runs, NEW y \in PostType,
           y.at # "idle" => y.chunk \in Chunks /\ runs[r].chunk[y.chunk] # "none",
           y.at = "posted" => runs'[r].posted[y.chunk] > 0,
           pub' = [pub EXCEPT ![p][r] = y]
    PROVE  PubInv'
<1>1. ASSUME NEW q \in Runs, NEW i \in Chunks, runs[q].chunk[i] # "none"
      PROVE  /\ runs'[q].chunk[i] # "none" /\ runs'[q].posted[i] >= runs[q].posted[i]
             /\ runs[q].posted[i] \in Nat /\ runs'[q].posted[i] \in Nat
  BY <1>1 DEF RowsGrow, Grown, RunsInv, RunType
<1>2. pub' \in [Runners -> [Runs -> PostType]]
  BY DEF PubInv
<1>3. \A s \in Runners, q \in Runs : pub'[s][q] = IF s = p /\ q = r THEN y ELSE pub[s][q]
  BY DEF PubInv
<1>4. ASSUME NEW s \in Runners, NEW q \in Runs, pub'[s][q].at # "idle"
      PROVE  /\ pub'[s][q].chunk \in Chunks /\ runs'[q].chunk[pub'[s][q].chunk] # "none"
             /\ pub'[s][q].at = "posted" => runs'[q].posted[pub'[s][q].chunk] > 0
  <2>1. CASE s = p /\ q = r
    BY <1>1, <1>3, <1>4, <2>1
  <2>2. CASE ~(s = p /\ q = r)
    <3>1. pub'[s][q] = pub[s][q]
      BY <1>3, <2>2
    <3>2. PICK i \in Chunks : i = pub[s][q].chunk /\ runs[q].chunk[i] # "none"
      BY <1>4, <3>1 DEF PubInv, Chunk
    <3>3. pub[s][q].at = "posted" => runs[q].posted[i] > 0
      BY <3>2 DEF PubInv
    <3>. QED
      BY <1>1, <3>1, <3>2, <3>3
  <2>. QED
    BY <2>1, <2>2
<1>. QED
  BY <1>2, <1>4 DEF PubInv, Chunk

LEMMA NoPostTyped == NoPost \in PostType /\ NoPost.at = "idle"
  BY DEF NoPost, PostType, PostPlaces

\* A publisher that is done, and one that goes on with the same message.
LEMMA PubDone ==
    ASSUME PubInv, RunsInv, RowsGrow, NEW p \in Runners, NEW r \in Runs,
           pub' = [pub EXCEPT ![p][r] = NoPost]
    PROVE  PubInv'
  BY NoPostTyped, PubPut

LEMMA PubMoves ==
    ASSUME PubInv, RunsInv, RowsGrow, NEW p \in Runners, NEW r \in Runs, NEW at \in PostPlaces,
           pub[p][r].at # "idle", Moves(p, r, at),
           at = "posted" => runs'[r].posted[pub[p][r].chunk] > 0
    PROVE  PubInv'
<1>. DEFINE y == [pub[p][r] EXCEPT !.at = at]
<1>1. pub[p][r] \in PostType /\ pub[p][r].chunk \in Chunks /\ Chunk(p, r) # "none"
  BY DEF PubInv
<1>2. y \in PostType
  BY <1>1 DEF PostType
<1>3. y.at = at /\ y.chunk = pub[p][r].chunk
  BY <1>1 DEF PostType
<1>4. pub' = [pub EXCEPT ![p][r] = y]
  BY DEF Moves, PubInv
<1>. HIDE DEF y
<1>. QED
  BY <1>1, <1>2, <1>3, <1>4, PubPut DEF Chunk

\* All publishers of a process are cancelled.
LEMMA PubCleared ==
    ASSUME PubInv, RunsInv, RowsGrow, NEW p \in Runners,
           pub' = [pub EXCEPT ![p] = [r \in Runs |-> NoPost]]
    PROVE  PubInv'
<1>1. ASSUME NEW q \in Runs, NEW i \in Chunks, runs[q].chunk[i] # "none"
      PROVE  /\ runs'[q].chunk[i] # "none" /\ runs'[q].posted[i] >= runs[q].posted[i]
             /\ runs[q].posted[i] \in Nat /\ runs'[q].posted[i] \in Nat
  BY <1>1 DEF RowsGrow, Grown, RunsInv, RunType
<1>2. pub' \in [Runners -> [Runs -> PostType]]
  BY NoPostTyped DEF PubInv
<1>3. \A s \in Runners, q \in Runs : pub'[s][q] = IF s = p THEN NoPost ELSE pub[s][q]
  BY DEF PubInv
<1>4. ASSUME NEW s \in Runners, NEW q \in Runs, pub'[s][q].at # "idle"
      PROVE  /\ pub'[s][q].chunk \in Chunks /\ runs'[q].chunk[pub'[s][q].chunk] # "none"
             /\ pub'[s][q].at = "posted" => runs'[q].posted[pub'[s][q].chunk] > 0
  <2>1. pub'[s][q] = pub[s][q]
    BY <1>3, <1>4, NoPostTyped
  <2>2. PICK i \in Chunks : i = pub[s][q].chunk /\ runs[q].chunk[i] # "none"
    BY <1>4, <2>1 DEF PubInv, Chunk
  <2>3. pub[s][q].at = "posted" => runs[q].posted[i] > 0
    BY <2>2 DEF PubInv
  <2>. QED
    BY <1>1, <2>1, <2>2, <2>3
<1>. QED
  BY <1>2, <1>4 DEF PubInv, Chunk

LEMMA PubStep ==
    ASSUME IInv, [Next]_vars, RowsGrow
    PROVE  PubInv'
<1>. PubInv /\ RunsInv
  BY DEF IInv
<1>1. ASSUME NEW p \in Runners, Tick(p) \/ Restart(p)
      PROVE  PubInv'
  BY <1>1, PubSame, PubCleared DEF Tick, Lease, Refused, Restart
<1>2. ASSUME NEW p \in Runners, Admit(p) \/ Work(p)
      PROVE  PubInv'
  BY <1>2, PubSame
     DEF Admit, Work, Read, Claim, Guard, Finish, FinishWithPosts, Interrupted, Settle
<1>3. ASSUME Decide \/ Request \/ TimeComes \/ LeaseExpires \/ DeadLeaseExpires \/ UNCHANGED vars
      PROVE  PubInv'
  BY <1>3, PubSame
     DEF Decide, Reject, Activate, Request, Draft, Resume, Pause, RetryDelivery, TimeComes,
         LeaseExpires, DeadLeaseExpires, vars, local
<1>4. ASSUME NEW p \in Runners, NEW r \in Runs, Pick(p, r)
      PROVE  PubInv'
  <2>1. PICK i \in Chunks : runs[r].chunk[i] = "pending"
                          /\ pub' = [pub EXCEPT ![p][r] = [at |-> "picked", chunk |-> i,
                                         spent |-> runs[r].attempts[i] >= MaxTries]]
    BY <1>4 DEF Pick
  <2>2. (runs[r].attempts[i] >= MaxTries) \in BOOLEAN
    OBVIOUS
  <2>3. PICK y : /\ y = [at |-> "picked", chunk |-> i, spent |-> runs[r].attempts[i] >= MaxTries]
                 /\ pub' = [pub EXCEPT ![p][r] = y]
    BY <2>1, Zenon
  <2>4. y \in PostType /\ y.at = "picked" /\ y.chunk = i
    BY <2>2, <2>3, Zenon DEF PostType, PostPlaces
  <2>5. runs[r].chunk[y.chunk] # "none" /\ y.chunk \in Chunks
    BY <2>1, <2>4
  <2>. QED
    BY <2>3, <2>4, <2>5, PubPut
<1>5. ASSUME NEW p \in Runners, NEW r \in Runs, Refuse(p, r)
      PROVE  PubInv'
  BY <1>5, PubMoves DEF Refuse, Posting, PostPlaces
<1>6. ASSUME NEW p \in Runners, NEW r \in Runs, Begin(p, r)
      PROVE  PubInv'
  BY <1>6, PubMoves, PubDone DEF Begin, Posting, PostPlaces
<1>7. ASSUME NEW p \in Runners, NEW r \in Runs, Send(p, r)
      PROVE  PubInv'
  <2>1. PICK how \in {"posted", "throttled", "rejected", "unknown"}, made \in {0, 1} :
          /\ how = "posted" => made = 1
          /\ Moves(p, r, how)
          /\ runs' = [runs EXCEPT ![r].posted[pub[p][r].chunk] = @ + made]
    BY <1>7 DEF Send
  <2>2. PICK c \in Chunks : c = pub[p][r].chunk
    BY <1>7 DEF Send, Posting, PubInv
  <2>3. runs'[r].posted[c] = runs[r].posted[c] + made /\ runs[r].posted[c] \in Nat
    BY <2>1, <2>2 DEF RunsInv, RunType
  <2>4. how = "posted" => runs'[r].posted[c] > 0
    BY <2>1, <2>3
  <2>5. how \in PostPlaces /\ pub[p][r].at # "idle"
    BY <1>7 DEF PostPlaces, Send, Posting
  <2>. QED
    BY <2>1, <2>2, <2>4, <2>5, PubMoves
<1>8. ASSUME NEW p \in Runners, NEW r \in Runs, RecordSent(p, r) \/ Attention(p, r)
      PROVE  PubInv'
  BY <1>8, PubDone DEF RecordSent, Attention
<1>9. ASSUME NEW p \in Runners, NEW r \in Runs, RecordFailure(p, r)
      PROVE  PubInv'
  BY <1>9, PubMoves, PubDone DEF RecordFailure, Posting, PostPlaces
<1>. QED
  BY <1>1, <1>2, <1>3, <1>4, <1>5, <1>6, <1>7, <1>8, <1>9 DEF Next, Publish

\* Only the newest run is outstanding.
LEMMA OrderStep ==
    ASSUME IInv, RowsMove, TaskMoves
    PROVE  OrderInv'
<1>. OrderInv
  BY DEF IInv
<1>1. CASE RowsKept
  <2>1. Created' = Created /\ Outstanding' \subseteq Outstanding
    BY <1>1 DEF RowsKept, Kept, Created, Outstanding
  <2>2. Created # {} => task'.active > 0
    BY DEF OrderInv, TaskMoves
  <2>. QED
    BY <2>1, <2>2 DEF OrderInv
<1>2. ASSUME NEW r \in Runs, NEW p \in Runners, NEW torn \in BOOLEAN, Opens(r, work[p], torn)
      PROVE  OrderInv'
  <2>1. runs'[r].status = "running" /\ \A q \in Runs : q # r => runs'[q] = runs[q]
    BY <1>2, OpensGrow DEF IInv, WorkInv
  <2>2. r \notin Created /\ r - 1 \in Created \cup {0} /\ Outstanding = {} /\ task.active > 0
    BY <1>2 DEF Opens, Claimable, IInv, TaskInv
  <2>3. Created' = Created \cup {r} /\ Outstanding' = {r}
    BY <2>1, <2>2 DEF Created, Outstanding
  <2>4. Created \subseteq Runs
    BY DEF Created
  <2>5. \A q \in Runs : q < r => q \in Created
    <3>1. ASSUME NEW q \in Runs, q < r
          PROVE  q = r - 1 \/ q < r - 1
      BY <3>1, Bounds
    <3>2. ASSUME NEW q \in Runs, q < r
          PROVE  r - 1 \in Created
      BY <2>2, <3>2, Bounds DEF Runs
    <3>. QED
      BY <3>1, <3>2, <2>4 DEF OrderInv
  <2>6. \A q \in Created : q < r
    BY <2>2, <2>4, Bounds DEF OrderInv
  <2>7. \A s \in Created', q \in Runs : q < s => q \in Created'
    BY <2>3, <2>5 DEF OrderInv
  <2>8. \A s \in Outstanding', q \in Created' : q <= s
    BY <2>3, <2>4, <2>6, Bounds
  <2>. QED
    BY <2>2, <2>7, <2>8 DEF OrderInv, TaskMoves
<1>3. ASSUME NEW r \in Runs, RetryDelivery(r)
      PROVE  OrderInv'
  <2>1. runs'[r].status = "delivery" /\ \A q \in Runs : q # r => runs'[q] = runs[q]
    BY <1>3, RetryGrows DEF IInv
  <2>2. r \in Created /\ r + 1 \notin Created
    BY <1>3 DEF RetryDelivery, Newest
  <2>3. Created' = Created /\ Outstanding' \subseteq Outstanding \cup {r} /\ Created \subseteq Runs
    BY <2>1, <2>2 DEF Created, Outstanding
  <2>4. \A q \in Created : q <= r
    <3>1. ASSUME NEW q \in Created, ~(q <= r)
          PROVE  FALSE
      <4>1. r + 1 <= q /\ r + 1 \in Runs
        BY <2>3, <3>1, Bounds DEF Runs
      <4>2. r + 1 = q \/ r + 1 < q
        BY <4>1, <2>3, Bounds
      <4>. QED
        BY <2>2, <4>1, <4>2 DEF OrderInv
    <3>. QED
      BY <3>1
  <2>5. Created # {} => task'.active > 0
    BY DEF OrderInv, TaskMoves
  <2>. QED
    BY <2>3, <2>4, <2>5 DEF OrderInv
<1>. QED
  BY <1>1, <1>2, <1>3 DEF RowsMove

\* One task starts as a draft, without runs, workers or publishers.
LEMMA InitHolds == Init => IInv
<1>. SUFFICES ASSUME Init
              PROVE  IInv
  OBVIOUS
<1>1. TaskInv
  BY DEF Init, TaskInv, TaskType
<1>2. NoRun \in RunType /\ NoRun.status = "absent" /\ Good(NoRun)
  <2>1. NoRun \in RunType
    BY DEF NoRun, RunType, RunStatuses, ChunkStatuses
  <2>. QED
    BY <2>1 DEF NoRun, Good
<1>3. RunsInv /\ Created = {} /\ Outstanding = {}
  BY <1>2 DEF Init, RunsInv, Created, Outstanding
<1>4. LeaseInv
  BY DEF Init, LeaseInv
<1>5. WorkInv
  BY NoWorkTyped DEF Init, WorkInv
<1>6. PubInv
  BY NoPostTyped DEF Init, PubInv
<1>7. OrderInv
  BY <1>3 DEF OrderInv
<1>. QED
  BY <1>1, <1>3, <1>4, <1>5, <1>6, <1>7 DEF IInv

\* The invariant is inductive.
LEMMA StepHolds == IInv /\ [Next]_vars => IInv'
<1>. SUFFICES ASSUME IInv, [Next]_vars
              PROVE  IInv'
  OBVIOUS
<1>1. RowsMove /\ RowsGrow /\ TaskMoves
  BY RowsStep, RowsGrowAlways, TaskStep
<1>2. RunsInv'
  BY <1>1 DEF RunsInv, RowsGrow
<1>. QED
  BY <1>1, <1>2, LeaseStep, WorkStep, PubStep, OrderStep DEF IInv, TaskMoves

\* The invariant holds in every state, whatever the number of processes.
LEMMA Invariance == Spec => []IInv
  BY InitHolds, StepHolds, PTL DEF Spec

-----------------------------------------------------------------------------
(* Theorems for any number of processes.                                    *)

\* Rows and coroutines keep the values their columns and code allow, and an active task
\* has an approved revision.
THEOREM ScheduledTypes == Spec => []TypeOK
<1>1. IInv => TypeOK
  <2>1. IInv => \A r \in Runs : /\ runs[r].status \in RunStatuses
                               /\ \A i \in Chunks : runs[r].chunk[i] \in ChunkStatuses
    BY DEF IInv, RunsInv, RunType
  <2>2. IInv => task.active \in 0..task.revision
    BY DEF IInv, TaskInv, TaskType
  <2>. QED
    BY <2>1, <2>2 DEF IInv, TypeOK, TaskInv, TaskType, LeaseInv, WorkInv, WorkType
<1>. QED
  BY <1>1, Invariance, PTL

\* One occurrence of a task is outstanding at a time (docs/scheduled-tasks.md:215), with
\* stale processes about and without the unique index.
THEOREM OneAtATime == Spec => []OneOutstanding
<1>1. IInv => OneOutstanding
  <2>. SUFFICES ASSUME IInv
                PROVE  Cardinality(Outstanding) <= 1
    BY DEF OneOutstanding
  <2>1. CASE Outstanding = {}
    BY <2>1, FS_EmptySet
  <2>2. CASE Outstanding # {}
    <3>1. PICK r \in Outstanding : TRUE
      BY <2>2
    <3>2. \A q \in Outstanding : q = r
      BY <3>1, Bounds DEF IInv, OrderInv, Outstanding, Created
    <3>3. Outstanding = {r}
      BY <3>1, <3>2
    <3>. QED
      BY <3>3, FS_Singleton
  <2>. QED
    BY <2>1, <2>2
<1>. QED
  BY <1>1, Invariance, PTL

\* A run ends once: what a stale worker, publisher or recovery does late changes no ended
\* run, but for the label of a withdrawn one (finish, attention, recover).
THEOREM EndsAreFinal == Spec => EndedRunsStayEnded
<1>1. ASSUME IInv, Next, NEW r \in Runs, Ended(runs[r])
      PROVE  \/ runs'[r].status = runs[r].status
             \/ runs[r].status = "cancelled" /\ runs'[r].status = "interrupted"
  <2>1. RowsMove
    BY <1>1, RowsStep
  <2>2. CASE RowsKept
    BY <1>1, <2>2 DEF RowsKept, Kept
  <2>3. ASSUME NEW q \in Runs, NEW p \in Runners, NEW torn \in BOOLEAN, Opens(q, work[p], torn)
        PROVE  runs'[r].status = runs[r].status
    BY <1>1, <2>3, OpensGrow DEF IInv, WorkInv, Ended, Opens, Created
  <2>4. ASSUME NEW q \in Runs, RetryDelivery(q)
        PROVE  runs'[r].status = runs[r].status
    BY <1>1, <2>4, RetryGrows DEF IInv, Ended, RetryDelivery
  <2>. QED
    BY <2>1, <2>2, <2>3, <2>4 DEF RowsMove
<1>2. IInv /\ [Next]_vars =>
        [\A r \in Runs : runs[r].status \notin {"absent", "running", "delivery", "delivery_failed"} =>
            \/ runs'[r].status = runs[r].status
            \/ runs[r].status = "cancelled" /\ runs'[r].status = "interrupted"]_vars
  BY <1>1 DEF Ended
<1>. QED
  BY <1>2, Invariance, PTL DEF Spec, EndedRunsStayEnded

\* Comparison state is saved only over the state it was computed from: an answer, a reset
\* or another result that came in between is not overwritten (_commit_state).
THEOREM SavesAreFresh == Spec => NoLostUpdate
<1>1. ASSUME IInv, Next, NEW r \in Runs, runs'[r].saved, ~runs[r].saved
      PROVE  runs[r].input = task.state
  <2>1. RowsMove
    BY <1>1, RowsStep
  <2>2. CASE RowsKept
    BY <1>1, <2>2 DEF RowsKept, Kept, IInv, RunsInv, Good, TaskInv
  <2>3. ASSUME NEW q \in Runs, NEW p \in Runners, NEW torn \in BOOLEAN, Opens(q, work[p], torn)
        PROVE  FALSE
    BY <1>1, <2>3, OpensGrow DEF IInv, WorkInv
  <2>4. ASSUME NEW q \in Runs, RetryDelivery(q)
        PROVE  FALSE
    BY <1>1, <2>4, RetryGrows DEF IInv
  <2>. QED
    BY <2>1, <2>2, <2>3, <2>4 DEF RowsMove
<1>2. IInv /\ [Next]_vars =>
        [\A r \in Runs : runs'[r].saved /\ ~runs[r].saved => runs[r].input = task.state]_vars
  BY <1>1
<1>. QED
  BY <1>2, Invariance, PTL DEF Spec, NoLostUpdate

\* The baseline advances only after all destination messages were posted
\* (docs/scheduled-tasks.md:259), also when processes overlap.
THEOREM BaselineIsPublished == Spec => []BaselineFollowsPublication
<1>1. IInv => BaselineFollowsPublication
  BY DEF IInv, RunsInv, Good, BaselineFollowsPublication
<1>. QED
  BY <1>1, Invariance, PTL

-----------------------------------------------------------------------------
(* One process: the rows next to their only publisher.                       *)

\* A step that sends nothing: no message becomes unsent or failed under publication, and
\* a torn run stays torn unless it is new.
Calm(x, y) ==
    /\ \A i \in Chunks : /\ y.posted[i] = x.posted[i]
                         /\ y.chunk[i] \in Unsent => x.chunk[i] \in Unsent
                         /\ y.status = "delivery" /\ y.chunk[i] \in Failures =>
                                x.status = "delivery" /\ x.chunk[i] \in Failures
    /\ x.torn => y.torn \/ \A i \in Chunks : y.chunk[i] = "none"

\* Such a step with the publisher where it was, or gone; a failure it leaves marks the run.
LEMMA CalmFit ==
    ASSUME NEW x \in RunType, NEW y \in RunType, NEW v, NEW w, Fit(x, v), Calm(x, y),
           \/ w = v /\ (v.at = "sending" => y.chunk[v.chunk] = "sending")
           \/ w.at = "idle" /\ (v.at = "condemned" => y.torn),
           w.at # "idle" => w.chunk \in Chunks /\ y.chunk[w.chunk] # "none"
    PROVE  Fit(y, w)
<1>1. \A i \in Chunks : y.posted[i] <= 1 /\ (y.chunk[i] \in Unsent => y.posted[i] = 0)
  BY DEF Calm, Fit
<1>2. w.at \in {"picked", "sending", "throttled", "rejected"} => y.posted[w.chunk] = 0
  BY DEF Calm, Fit
<1>3. w.at = "sending" => y.chunk[w.chunk] = "sending"
  OBVIOUS
<1>4. ASSUME ~y.torn, x.torn
      PROVE  /\ \A i \in Chunks : y.chunk[i] \notin Failures /\ y.posted[i] = 0
             /\ w.at # "sending"
  BY <1>1, <1>3, <1>4 DEF Calm, Unsent, Failures
<1>5. ASSUME ~y.torn, ~x.torn
      PROVE  /\ y.status = "delivery" /\ w.at # "condemned" => \A i \in Chunks : y.chunk[i] \notin Failures
             /\ w.at = "sending" => \A j \in 1..(w.chunk - 1) : y.posted[j] > 0
             /\ \A i \in Chunks : y.posted[i] > 0 => \A j \in 1..(i - 1) : y.posted[j] > 0
  <2>1. y.status = "delivery" /\ w.at # "condemned" => \A i \in Chunks : y.chunk[i] \notin Failures
    BY <1>5 DEF Calm, Fit
  <2>2. \A i \in Chunks : \A j \in 1..(i - 1) : j \in Chunks /\ y.posted[j] = x.posted[j]
    BY Bounds DEF Calm
  <2>3. w.at = "sending" => \A j \in 1..(w.chunk - 1) : y.posted[j] > 0
    BY <1>5, <2>2 DEF Fit
  <2>4. \A i \in Chunks : y.posted[i] > 0 => \A j \in 1..(i - 1) : y.posted[j] > 0
    BY <1>5, <2>2 DEF Fit, Calm
  <2>. QED
    BY <2>1, <2>3, <2>4
<1>6. ~y.torn /\ x.torn => \A i \in Chunks : ~(y.posted[i] > 0)
  BY <1>4
<1>. QED
  BY <1>1, <1>2, <1>3, <1>4, <1>5, <1>6 DEF Fit

\* Runs that are not touched.
LEMMA CalmSame ==
    ASSUME NEW x \in RunType
    PROVE  Calm(x, x)
  BY DEF Calm

\* The steps of the managers, the lease and the workers are such steps.
Quiet == \A r \in Runs : Calm(runs[r], runs'[r])
Holding == \A r \in Runs, i \in Chunks : runs[r].chunk[i] = "sending" => runs'[r].chunk[i] = "sending"

LEMMA QuietSame ==
    ASSUME RunsInv, UNCHANGED runs
    PROVE  Quiet /\ Holding
  BY CalmSame DEF Quiet, Holding, RunsInv

\* One run is written.
LEMMA QuietOne ==
    ASSUME RunsInv, NEW r \in Runs, Calm(runs[r], runs'[r]),
           \A i \in Chunks : runs[r].chunk[i] = "sending" => runs'[r].chunk[i] = "sending",
           \A q \in Runs : q # r => runs'[q] = runs[q]
    PROVE  Quiet /\ Holding
  BY CalmSame DEF Quiet, Holding, RunsInv

LEMMA WithdrawnQuiet ==
    ASSUME RunsInv, runs' = [r \in Runs |-> Withdrawn(runs[r])]
    PROVE  Quiet /\ Holding
<1>1. ASSUME NEW r \in Runs
      PROVE  /\ Calm(runs[r], runs'[r])
             /\ \A i \in Chunks : runs[r].chunk[i] = "sending" => runs'[r].chunk[i] = "sending"
  <2>1. runs[r] \in RunType /\ runs'[r] = Withdrawn(runs[r])
    BY DEF RunsInv
  <2>2. CASE runs[r].status = "absent"
    BY <2>1, <2>2, CalmSame DEF Withdrawn
  <2>3. CASE runs[r].status # "absent"
    <3>1. /\ runs'[r].posted = runs[r].posted /\ runs'[r].torn = runs[r].torn
          /\ runs'[r].status # "delivery"
          /\ \A i \in Chunks : runs'[r].chunk[i] = IF runs[r].chunk[i] = "pending" THEN "cancelled"
                                                   ELSE runs[r].chunk[i]
      BY <2>1, <2>3 DEF Withdrawn, RunType
    <3>. QED
      BY <3>1 DEF Calm, Unsent, Failures
  <2>. QED
    BY <2>2, <2>3
<1>. QED
  BY <1>1 DEF Quiet, Holding

LEMMA RecoverQuiet ==
    ASSUME RunsInv, Recover
    PROVE  Quiet
<1>1. ASSUME NEW r \in Runs
      PROVE  Calm(runs[r], runs'[r])
  <2>1. runs[r] \in RunType
    BY DEF RunsInv
  <2>2. CASE r \in Created /\ Abandoned(r)
    <3>1. /\ runs'[r].posted = runs[r].posted /\ runs'[r].torn = runs[r].torn
          /\ runs'[r].status # "delivery"
          /\ \A i \in Chunks : runs'[r].chunk[i] = IF runs[r].chunk[i] = "sending" THEN "uncertain"
                                                   ELSE runs[r].chunk[i]
      BY <2>1, <2>2 DEF Recover, RunType
    <3>. QED
      BY <3>1 DEF Calm, Unsent, Failures
  <2>3. CASE ~(r \in Created /\ Abandoned(r))
    BY <2>1, <2>3, CalmSame DEF Recover
  <2>. QED
    BY <2>2, <2>3
<1>. QED
  BY <1>1 DEF Quiet

LEMMA UnattendedQuiet ==
    ASSUME RunsInv, NEW p, runs' = Unattended(runs, p)
    PROVE  Quiet /\ Holding /\ \A r \in Runs : pub[p][r].at = "condemned" => runs'[r].torn
<1>1. ASSUME NEW r \in Runs
      PROVE  /\ Calm(runs[r], runs'[r]) /\ runs'[r].chunk = runs[r].chunk
             /\ pub[p][r].at = "condemned" => runs'[r].torn
  <2>1. runs[r] \in RunType
    BY DEF RunsInv
  <2>2. /\ runs'[r].posted = runs[r].posted /\ runs'[r].status = runs[r].status
        /\ runs'[r].chunk = runs[r].chunk
    BY <2>1 DEF Unattended, RunType
  <2>3. runs'[r].torn = (runs[r].torn \/ pub[p][r].at = "condemned")
    BY <2>1 DEF Unattended, RunType
  <2>. QED
    BY <2>2, <2>3 DEF Calm
<1>. QED
  BY <1>1 DEF Quiet, Holding

LEMMA SettleQuiet ==
    ASSUME RunsInv, NEW p \in Runners, work[p].run \in Runs,
           NEW outcome \in {"completed", "needs_input", "no_change", "failed", "read_failed"},
           Settle(p, outcome)
    PROVE  Quiet /\ Holding
<1>1. CASE runs[work[p].run].status # "running"
  BY <1>1, QuietSame DEF Settle, rows
<1>2. CASE runs[work[p].run].status = "running"
  <2>1. PICK r \in Runs : r = work[p].run
    OBVIOUS
  <2>2. runs[r] \in RunType
    BY DEF RunsInv
  <2>3. runs' = [runs EXCEPT ![r].status = outcome,
                             ![r].saved = (outcome \in {"completed", "no_change"} /\ Fresh(r))]
    BY <1>2, <2>1 DEF Settle
  <2>4. /\ runs'[r].chunk = runs[r].chunk /\ runs'[r].posted = runs[r].posted
        /\ runs'[r].torn = runs[r].torn /\ runs'[r].status = outcome
        /\ \A q \in Runs : q # r => runs'[q] = runs[q]
    BY <2>2, <2>3 DEF RunsInv, RunType
  <2>5. Calm(runs[r], runs'[r])
    BY <2>4 DEF Calm
  <2>. QED
    BY <2>4, <2>5, QuietOne
<1>. QED
  BY <1>1, <1>2

LEMMA FinishWithPostsQuiet ==
    ASSUME RunsInv, NEW p \in Runners, work[p].run \in Runs, FinishWithPosts(p)
    PROVE  Quiet /\ Holding
<1>1. PICK r \in Runs : r = work[p].run
  OBVIOUS
<1>2. PICK n \in Chunks : runs' =
         [runs EXCEPT ![r] =
             IF @.status # "running" THEN @
             ELSE [@ EXCEPT !.status = "delivery",
                            !.chunk = [i \in Chunks |-> IF i <= n THEN "pending" ELSE "none"]]]
  BY <1>1 DEF FinishWithPosts
<1>3. CASE runs[r].status # "running"
  <2>1. runs' = runs
    BY <1>2, <1>3 DEF RunsInv
  <2>. QED
    BY <2>1, QuietSame
<1>4. CASE runs[r].status = "running"
  <2>. DEFINE c == [i \in Chunks |-> IF i <= n THEN "pending" ELSE "none"]
  <2>1. runs[r] \in RunType /\ Good(runs[r])
    BY DEF RunsInv
  <2>2. \A i \in Chunks : c[i] \in {"pending", "none"}
    OBVIOUS
  <2>3. runs' = [runs EXCEPT ![r] = [runs[r] EXCEPT !.status = "delivery", !.chunk = c]]
    BY <1>2, <1>4
  <2>. HIDE DEF c
  <2>4. /\ runs'[r].chunk = c /\ runs'[r].posted = runs[r].posted /\ runs'[r].torn = runs[r].torn
        /\ \A q \in Runs : q # r => runs'[q] = runs[q]
    BY <2>1, <2>3 DEF RunsInv, RunType
  <2>5. \A i \in Chunks : runs[r].chunk[i] = "none"
    BY <1>4, <2>1 DEF Good
  <2>6. Calm(runs[r], runs'[r])
    BY <2>2, <2>4, <2>5 DEF Calm, Unsent, Failures
  <2>. QED
    BY <2>4, <2>5, <2>6, QuietOne
<1>. QED
  BY <1>3, <1>4

LEMMA RetryQuiet ==
    ASSUME RunsInv, NEW r \in Runs, RetryDelivery(r)
    PROVE  Quiet /\ Holding
<1>1. /\ runs'[r].posted = runs[r].posted /\ runs'[r].torn = runs[r].torn
      /\ \A i \in Chunks : runs'[r].chunk[i] = IF runs[r].chunk[i] = "failed" THEN "pending"
                                               ELSE runs[r].chunk[i]
      /\ \A q \in Runs : q # r => runs'[q] = runs[q]
  BY RetryGrows
<1>2. \A i \in Chunks : runs[r].chunk[i] # "uncertain"
  BY DEF RetryDelivery
<1>3. Calm(runs[r], runs'[r])
  BY <1>1, <1>2 DEF Calm, Unsent, Failures
<1>. QED
  BY <1>1, <1>3, QuietOne

LEMMA OpensQuiet ==
    ASSUME IInv, Single, NEW p \in Runners, NEW r \in Runs, NEW torn \in BOOLEAN,
           Opens(r, work[p], torn)
    PROVE  Quiet /\ Holding
<1>1. /\ runs'[r].status = "running"
      /\ \A i \in Chunks : runs'[r].chunk[i] = "none" /\ runs'[r].posted[i] = 0
      /\ \A q \in Runs : q # r => runs'[q] = runs[q]
  BY OpensGrow DEF IInv, WorkInv
<1>2. \A i \in Chunks : runs[r].chunk[i] = "none"
  BY DEF Opens, Created, IInv, RunsInv, Good
<1>3. \A i \in Chunks : runs[r].posted[i] = 0
  BY <1>2 DEF Single, Fit, Unsent
<1>4. Calm(runs[r], runs'[r])
  BY <1>1, <1>2, <1>3 DEF Calm, Unsent, Failures
<1>. QED
  BY <1>1, <1>2, <1>4, QuietOne DEF IInv

\* A quiet step that leaves the publisher where it is.
LEMMA QuietHolds ==
    ASSUME IInv, IInv', Single, Quiet, Holding, UNCHANGED pub,
           \A p \in Runners : owns[p] => owns'[p]
    PROVE  Single'
<1>1. ASSUME NEW p \in Runners, NEW r \in Runs
      PROVE  Fit(runs'[r], pub'[p][r]) /\ (pub'[p][r].at # "idle" => owns'[p])
  <2>1. runs[r] \in RunType /\ runs'[r] \in RunType /\ pub'[p][r] = pub[p][r] /\ Fit(runs[r], pub[p][r])
    BY DEF IInv, RunsInv, Single
  <2>2. pub[p][r].at # "idle" => pub[p][r].chunk \in Chunks /\ runs'[r].chunk[pub[p][r].chunk] # "none"
    BY <2>1 DEF IInv, PubInv, Chunk
  <2>3. pub[p][r].at = "sending" => runs'[r].chunk[pub[p][r].chunk] = "sending"
    BY <2>1, <2>2 DEF Fit, Holding
  <2>4. Calm(runs[r], runs'[r])
    BY DEF Quiet
  <2>5. Fit(runs'[r], pub'[p][r])
    BY <2>1, <2>2, <2>3, <2>4, CalmFit
  <2>. QED
    BY <2>1, <2>5 DEF Single
<1>. QED
  BY <1>1 DEF Single

\* The only process has no publisher after it, and leaves no unanswered failure unmarked.
LEMMA GoneHolds ==
    ASSUME IInv, IInv', Single, Quiet,
           \A p \in Runners, r \in Runs :
               /\ pub'[p][r].at = "idle"
               /\ pub[p][r].at = "condemned" => runs'[r].torn
    PROVE  Single'
<1>1. ASSUME NEW p \in Runners, NEW r \in Runs
      PROVE  Fit(runs'[r], pub'[p][r]) /\ (pub'[p][r].at # "idle" => owns'[p])
  <2>1. runs[r] \in RunType /\ runs'[r] \in RunType /\ Fit(runs[r], pub[p][r]) /\ pub'[p][r].at = "idle"
    BY DEF IInv, RunsInv, Single
  <2>2. Calm(runs[r], runs'[r]) /\ (pub[p][r].at = "condemned" => runs'[r].torn)
    BY DEF Quiet
  <2>3. Fit(runs'[r], pub'[p][r])
    BY <2>1, <2>2, CalmFit
  <2>. QED
    BY <2>1, <2>3
<1>. QED
  BY <1>1 DEF Single

\* The steps of the managers, the workers and the clock.
LEMMA QuietSteps ==
    ASSUME IInv, IInv', Single,
           \/ Decide \/ Request \/ TimeComes \/ LeaseExpires \/ DeadLeaseExpires \/ UNCHANGED vars
           \/ \E p \in Runners : Admit(p) \/ Work(p)
    PROVE  Single'
<1>. RunsInv
  BY DEF IInv
<1>same. ASSUME UNCHANGED <<runs, pub, owns>>
         PROVE  Single'
  BY <1>same, QuietSame, QuietHolds
<1>1. ASSUME Decide \/ TimeComes \/ LeaseExpires \/ DeadLeaseExpires \/ UNCHANGED vars
      PROVE  Single'
  BY <1>1, <1>same
     DEF Decide, Reject, Activate, TimeComes, LeaseExpires, DeadLeaseExpires, vars, rows,
         local
<1>2. ASSUME Request
      PROVE  Single'
  <2>1. CASE \E p \in Runners : Pause(p)
    BY <2>1, WithdrawnQuiet, QuietHolds DEF Pause
  <2>2. CASE Draft \/ \E answered \in BOOLEAN : Resume(answered)
    BY <2>2, <1>same DEF Draft, Resume, local
  <2>3. CASE \E r \in Runs : RetryDelivery(r)
    <3>1. UNCHANGED <<pub, owns>>
      BY <2>3 DEF RetryDelivery, local
    <3>. QED
      BY <2>3, <3>1, RetryQuiet, QuietHolds
  <2>. QED
    BY <1>2, <2>1, <2>2, <2>3 DEF Request
<1>3. ASSUME NEW p \in Runners, Admit(p) \/ Read(p) \/ Guard(p)
      PROVE  Single'
  BY <1>3, <1>same DEF Admit, Read, Guard, rows
<1>4. ASSUME NEW p \in Runners, NEW r \in Runs, NEW torn \in BOOLEAN, Opens(r, work[p], torn),
             UNCHANGED <<pub, owns>>
      PROVE  Single'
  BY <1>4, OpensQuiet, QuietHolds
<1>5. ASSUME NEW p \in Runners, Claim(p)
      PROVE  Single'
  BY <1>5, <1>4, <1>same DEF Claim, Opens, rows
<1>6. ASSUME NEW p \in Runners, work[p].at \in {"running", "ready"},
             NEW outcome \in {"completed", "needs_input", "no_change", "failed", "read_failed"},
             Settle(p, outcome)
      PROVE  Single'
  <2>1. work[p].run \in Runs
    BY <1>6 DEF IInv, WorkInv, Created
  <2>2. UNCHANGED <<pub, owns>>
    BY <1>6 DEF Settle
  <2>. QED
    BY <1>6, <2>1, <2>2, SettleQuiet, QuietHolds
<1>7. ASSUME NEW p \in Runners, Finish(p)
      PROVE  Single'
  BY <1>7, <1>6 DEF Finish, Working
<1>8. ASSUME NEW p \in Runners, FinishWithPosts(p)
      PROVE  Single'
  <2>1. work[p].run \in Runs
    BY <1>8 DEF FinishWithPosts, Working, IInv, WorkInv, Created
  <2>. QED
    BY <1>8, <2>1, FinishWithPostsQuiet, QuietHolds DEF FinishWithPosts
<1>9. ASSUME NEW p \in Runners, Interrupted(p)
      PROVE  Single'
  BY <1>9, <1>4, <1>6, <1>same DEF Interrupted, Opens, rows
<1>. QED
  BY <1>1, <1>2, <1>3, <1>5, <1>7, <1>8, <1>9 DEF Work

\* The steps that stop the process, or make it the owner of the lease again.
LEMMA StopSteps ==
    ASSUME OneProcess, IInv, IInv', Single, NEW p \in Runners, Tick(p) \/ Restart(p)
    PROVE  Single'
<1>. RunsInv /\ \A q \in Runners : q = p
  BY DEF IInv, OneProcess
<1>1. CASE Lease(p)
  <2>1. CASE owns[p]
    <3>1. UNCHANGED <<runs, pub>> /\ \A q \in Runners : owns'[q]
      BY <1>1, <2>1 DEF Lease, rows, IInv, LeaseInv
    <3>. QED
      BY <3>1, QuietSame, QuietHolds
  <2>2. CASE ~owns[p]
    <3>1. Recover /\ UNCHANGED pub
      BY <1>1, <2>2 DEF Lease
    <3>2. \A q \in Runners, r \in Runs : pub[q][r].at = "idle"
      BY <2>2 DEF Single
    <3>. QED
      BY <3>1, <3>2, RecoverQuiet, GoneHolds
  <2>. QED
    BY <2>1, <2>2
<1>2. CASE Refused(p) \/ Restart(p)
  <2>1. pub' = [pub EXCEPT ![p] = [r \in Runs |-> NoPost]] /\ runs' = Unattended(runs, p)
    BY <1>2 DEF Refused, Restart
  <2>2. Quiet /\ \A r \in Runs : pub[p][r].at = "condemned" => runs'[r].torn
    BY <2>1, UnattendedQuiet
  <2>3. \A r \in Runs : pub'[p][r].at = "idle"
    BY <2>1, NoPostTyped DEF IInv, PubInv
  <2>. QED
    BY <2>2, <2>3, GoneHolds
<1>. QED
  BY <1>1, <1>2 DEF Tick

\* A step of the only publisher of run r.
LEMMA PostHolds ==
    ASSUME OneProcess, IInv, Single, NEW p \in Runners, NEW r \in Runs, UNCHANGED owns,
           \A q \in Runs : q # r => runs'[q] = runs[q] /\ pub'[p][q] = pub[p][q],
           pub'[p][r].at # "idle" => owns[p],
           Fit(runs'[r], pub'[p][r])
    PROVE  Single'
<1>1. \A q \in Runners : q = p
  BY DEF OneProcess
<1>2. ASSUME NEW q \in Runs
      PROVE  Fit(runs'[q], pub'[p][q]) /\ (pub'[p][q].at # "idle" => owns'[p])
  BY DEF Single
<1>. QED
  BY <1>1, <1>2 DEF Single

\* What a publisher on its way is at.
LEMMA PostFacts ==
    ASSUME IInv, Single, NEW p \in Runners, NEW r \in Runs, pub[p][r].at # "idle"
    PROVE  /\ runs[r] \in RunType /\ Good(runs[r]) /\ Fit(runs[r], pub[p][r]) /\ owns[p]
           /\ pub[p][r] \in PostType /\ pub[p][r].chunk \in Chunks
  BY DEF IInv, RunsInv, PubInv, Single

\* Its process does not write the other runs, nor move their publishers.
LEMMA PutFacts ==
    ASSUME IInv, NEW p \in Runners, NEW r \in Runs, NEW v, pub' = [pub EXCEPT ![p][r] = v]
    PROVE  pub'[p][r] = v /\ \A q \in Runs : q # r => pub'[p][q] = pub[p][q]
  BY DEF IInv, PubInv

LEMMA MoveFacts ==
    ASSUME IInv, NEW p \in Runners, NEW r \in Runs, NEW at, Moves(p, r, at)
    PROVE  /\ pub'[p][r].at = at /\ pub'[p][r].chunk = pub[p][r].chunk
           /\ \A q \in Runs : q # r => pub'[p][q] = pub[p][q]
  BY DEF IInv, PubInv, PostType, Moves

LEMMA PickFits ==
    ASSUME OneProcess, IInv, Single, NEW p \in Runners, NEW r \in Runs, Pick(p, r)
    PROVE  Single'
<1>1. PICK i \in Chunks : runs[r].chunk[i] = "pending"
                        /\ pub' = [pub EXCEPT ![p][r] = [at |-> "picked", chunk |-> i,
                                       spent |-> runs[r].attempts[i] >= MaxTries]]
  BY DEF Pick
<1>2. PICK w : /\ w = [at |-> "picked", chunk |-> i, spent |-> runs[r].attempts[i] >= MaxTries]
               /\ pub' = [pub EXCEPT ![p][r] = w]
  BY <1>1, Zenon
<1>3. w.at = "picked" /\ w.chunk = i /\ pub' = [pub EXCEPT ![p][r] = w]
  BY <1>2, Zenon
<1>4. UNCHANGED <<runs, owns>> /\ owns[p] /\ pub[p][r].at = "idle"
  BY DEF Pick, Posting, rows
<1>5. Fit(runs[r], pub[p][r]) /\ runs[r].posted[i] = 0
  BY <1>1 DEF Single, Fit, Unsent
<1>6. Fit(runs[r], w)
  BY <1>3, <1>4, <1>5 DEF Fit
<1>7. pub'[p][r] = w /\ \A q \in Runs : q # r => pub'[p][q] = pub[p][q]
  BY <1>3, PutFacts
<1>. QED
  BY <1>4, <1>6, <1>7, PostHolds

LEMMA RefuseFits ==
    ASSUME OneProcess, IInv, Single, NEW p \in Runners, NEW r \in Runs, Refuse(p, r)
    PROVE  Single'
<1>1. PICK how \in {"throttled", "rejected"} : Moves(p, r, how)
  BY DEF Refuse
<1>2. UNCHANGED <<runs, owns>> /\ pub[p][r].at = "picked"
  BY DEF Refuse, Posting, rows
<1>3. Fit(runs[r], pub[p][r]) /\ owns[p]
  BY <1>2, PostFacts
<1>4. Fit(runs[r], pub'[p][r])
  BY <1>1, <1>2, <1>3, MoveFacts DEF Fit
<1>. QED
  BY <1>1, <1>2, <1>3, <1>4, MoveFacts, PostHolds

LEMMA BeginFits ==
    ASSUME OneProcess, IInv, Single, NEW p \in Runners, NEW r \in Runs, Begin(p, r)
    PROVE  Single'
<1>1. PICK c \in Chunks : c = pub[p][r].chunk
  BY PostFacts DEF Begin, Posting
<1>2. /\ runs[r] \in RunType /\ Good(runs[r]) /\ Fit(runs[r], pub[p][r]) /\ owns[p]
      /\ pub[p][r].at = "picked" /\ UNCHANGED owns
  BY PostFacts DEF Begin, Posting
<1>3. CASE Chunk(p, r) = "pending" /\ InOrder(r, c) /\ Publishable(r) /\ Moves(p, r, "sending")
           /\ runs' = [runs EXCEPT ![r].chunk[c] = "sending",
                                   ![r].attempts[c] = IF @ < MaxTries THEN @ + 1 ELSE @]
  <2>1. /\ runs'[r].posted = runs[r].posted /\ runs'[r].torn = runs[r].torn
        /\ runs'[r].status = runs[r].status
        /\ \A i \in Chunks : runs'[r].chunk[i] = IF i = c THEN "sending" ELSE runs[r].chunk[i]
        /\ \A q \in Runs : q # r => runs'[q] = runs[q]
    BY <1>2, <1>3 DEF IInv, RunsInv, RunType
  <2>2. runs[r].status = "delivery" /\ runs[r].chunk[c] = "pending"
    BY <1>1, <1>3 DEF Publishable, Chunk
  <2>3. ASSUME ~runs[r].torn, NEW j \in 1..(c - 1)
        PROVE  runs[r].posted[j] > 0
    <3>1. j \in Chunks
      BY Bounds
    <3>2. runs[r].chunk[j] \notin {"none", "cancelled", "pending", "sending", "failed", "uncertain"}
      BY <1>2, <1>3, <2>2, <2>3, <3>1 DEF Good, Fit, InOrder, Failures
    <3>3. runs[r].chunk[j] = "sent"
      BY <1>2, <3>1, <3>2 DEF RunType, ChunkStatuses
    <3>. QED
      BY <1>2, <3>1, <3>3 DEF Good
  <2>4. /\ \A i \in Chunks : /\ runs'[r].posted[i] <= 1
                             /\ runs'[r].chunk[i] \in Unsent => runs'[r].posted[i] = 0
        /\ runs'[r].posted[c] = 0 /\ runs'[r].chunk[c] = "sending"
    BY <1>1, <1>2, <2>1 DEF Fit, Unsent
  <2>5. ~runs'[r].torn => \A i \in Chunks : runs'[r].chunk[i] \notin Failures
    BY <1>2, <2>1, <2>2 DEF Fit, Failures
  <2>6. ~runs'[r].torn => /\ \A j \in 1..(c - 1) : runs'[r].posted[j] > 0
                          /\ \A i \in Chunks : runs'[r].posted[i] > 0 =>
                                 \A j \in 1..(i - 1) : runs'[r].posted[j] > 0
    BY <1>2, <2>1, <2>3 DEF Fit
  <2>7. pub'[p][r].at = "sending" /\ pub'[p][r].chunk = c
    BY <1>1, <1>3, MoveFacts
  <2>8. Fit(runs'[r], pub'[p][r])
    BY <2>4, <2>5, <2>6, <2>7 DEF Fit
  <2>9. \A q \in Runs : q # r => pub'[p][q] = pub[p][q]
    BY <1>3, MoveFacts
  <2>. QED
    BY <1>2, <2>1, <2>8, <2>9, PostHolds
<1>4. CASE pub' = [pub EXCEPT ![p][r] = NoPost] /\ UNCHANGED runs
  <2>1. Fit(runs[r], NoPost)
    BY <1>2, NoPostTyped DEF Fit
  <2>. QED
    BY <1>2, <1>4, <2>1, PutFacts, PostHolds
<1>. QED
  BY <1>1, <1>3, <1>4 DEF Begin

LEMMA SendFits ==
    ASSUME OneProcess, IInv, Single, NEW p \in Runners, NEW r \in Runs, Send(p, r)
    PROVE  Single'
<1>1. PICK c \in Chunks : c = pub[p][r].chunk
  BY PostFacts DEF Send, Posting
<1>2. /\ runs[r] \in RunType /\ Fit(runs[r], pub[p][r]) /\ owns[p]
      /\ pub[p][r].at = "sending" /\ UNCHANGED owns
  BY PostFacts DEF Send, Posting
<1>3. PICK how \in {"posted", "throttled", "rejected", "unknown"}, made \in {0, 1} :
        /\ how \in {"throttled", "rejected"} => made = 0
        /\ Moves(p, r, how)
        /\ runs' = [runs EXCEPT ![r].posted[c] = @ + made]
  BY <1>1 DEF Send
<1>4. /\ runs'[r].chunk = runs[r].chunk /\ runs'[r].torn = runs[r].torn
      /\ runs'[r].status = runs[r].status
      /\ \A i \in Chunks : runs'[r].posted[i] = IF i = c THEN runs[r].posted[i] + made ELSE runs[r].posted[i]
      /\ \A q \in Runs : q # r => runs'[q] = runs[q]
  BY <1>2, <1>3 DEF IInv, RunsInv, RunType
<1>5. /\ runs[r].posted[c] = 0 /\ runs[r].chunk[c] = "sending"
      /\ \A i \in Chunks : runs[r].posted[i] \in Nat
  BY <1>1, <1>2 DEF Fit, RunType
<1>6. \A i \in Chunks : /\ runs'[r].posted[i] <= 1
                        /\ runs'[r].chunk[i] \in Unsent => runs'[r].posted[i] = 0
  BY <1>2, <1>4, <1>5 DEF Fit, Unsent
<1>7. pub'[p][r].at = how /\ pub'[p][r].chunk = c
  BY <1>1, <1>3, MoveFacts
<1>8. how \in {"throttled", "rejected"} => runs'[r].posted[c] = 0
  BY <1>3, <1>4, <1>5
<1>9. ~runs'[r].torn /\ runs'[r].status = "delivery" => \A i \in Chunks : runs'[r].chunk[i] \notin Failures
  BY <1>2, <1>4 DEF Fit
<1>10. ASSUME ~runs'[r].torn, NEW i \in Chunks, runs'[r].posted[i] > 0, NEW j \in 1..(i - 1)
       PROVE  runs'[r].posted[j] > 0
  <2>1. j \in Chunks
    BY Bounds
  <2>2. runs[r].posted[j] > 0
    BY <1>1, <1>2, <1>4, <1>10 DEF Fit
  <2>. QED
    BY <1>4, <1>5, <2>1, <2>2
<1>11. Fit(runs'[r], pub'[p][r])
  BY <1>6, <1>7, <1>8, <1>9, <1>10 DEF Fit
<1>. QED
  BY <1>2, <1>3, <1>4, <1>11, MoveFacts, PostHolds

LEMMA RecordSentFits ==
    ASSUME OneProcess, IInv, Single, NEW p \in Runners, NEW r \in Runs, RecordSent(p, r)
    PROVE  Single'
<1>1. PICK c \in Chunks : c = pub[p][r].chunk
  BY PostFacts DEF RecordSent, Posting
<1>2. /\ runs[r] \in RunType /\ Fit(runs[r], pub[p][r]) /\ owns[p]
      /\ pub[p][r].at = "posted" /\ UNCHANGED owns /\ pub' = [pub EXCEPT ![p][r] = NoPost]
  BY PostFacts DEF RecordSent, Posting
<1>3. PICK last \in BOOLEAN : runs' = [runs EXCEPT ![r].chunk[c] = "sent",
                                  ![r].status = IF last THEN "completed" ELSE @,
                                  ![r].saved = @ \/ (last /\ Fresh(r))]
  BY <1>1 DEF RecordSent
<1>4. /\ runs'[r].posted = runs[r].posted /\ runs'[r].torn = runs[r].torn
      /\ runs'[r].status = "delivery" => runs[r].status = "delivery"
      /\ \A i \in Chunks : runs'[r].chunk[i] = IF i = c THEN "sent" ELSE runs[r].chunk[i]
      /\ \A q \in Runs : q # r => runs'[q] = runs[q]
  BY <1>2, <1>3 DEF IInv, RunsInv, RunType
<1>5. Fit(runs'[r], NoPost)
  BY <1>2, <1>4, NoPostTyped DEF Fit, Unsent, Failures
<1>6. pub'[p][r] = NoPost /\ \A q \in Runs : q # r => pub'[p][q] = pub[p][q]
  BY <1>2, PutFacts
<1>. QED
  BY <1>2, <1>4, <1>5, <1>6, NoPostTyped, PostHolds

LEMMA RecordFailureFits ==
    ASSUME OneProcess, IInv, Single, NEW p \in Runners, NEW r \in Runs, RecordFailure(p, r)
    PROVE  Single'
<1>1. PICK c \in Chunks : c = pub[p][r].chunk
  BY PostFacts DEF RecordFailure, Posting
<1>2. /\ runs[r] \in RunType /\ Fit(runs[r], pub[p][r]) /\ owns[p]
      /\ pub[p][r].at \in {"throttled", "rejected", "unknown"} /\ UNCHANGED owns
  BY PostFacts DEF RecordFailure, Posting
<1>3. PICK status \in {"pending", "failed", "uncertain"} :
        /\ pub[p][r].at \in {"throttled", "rejected"} \/ status = "uncertain"
        /\ runs' = [runs EXCEPT ![r].chunk[c] = status]
        /\ IF status = "pending" THEN pub' = [pub EXCEPT ![p][r] = NoPost]
           ELSE Moves(p, r, "condemned")
  BY <1>1 DEF RecordFailure, Posting
<1>4. /\ runs'[r].posted = runs[r].posted /\ runs'[r].torn = runs[r].torn
      /\ runs'[r].status = runs[r].status
      /\ \A i \in Chunks : runs'[r].chunk[i] = IF i = c THEN status ELSE runs[r].chunk[i]
      /\ \A q \in Runs : q # r => runs'[q] = runs[q]
  BY <1>2, <1>3 DEF IInv, RunsInv, RunType
<1>5. status # "uncertain" => runs[r].posted[c] = 0
  BY <1>1, <1>2, <1>3 DEF Fit
<1>6. \A i \in Chunks : /\ runs'[r].posted[i] <= 1
                        /\ runs'[r].chunk[i] \in Unsent => runs'[r].posted[i] = 0
  BY <1>2, <1>4, <1>5 DEF Fit, Unsent
<1>7. CASE status = "pending"
  <2>1. Fit(runs'[r], NoPost)
    BY <1>2, <1>4, <1>6, <1>7, NoPostTyped DEF Fit, Failures
  <2>2. pub'[p][r] = NoPost /\ \A q \in Runs : q # r => pub'[p][q] = pub[p][q]
    BY <1>3, <1>7, PutFacts
  <2>. QED
    BY <1>2, <1>4, <2>1, <2>2, NoPostTyped, PostHolds
<1>8. CASE status # "pending"
  <2>1. Fit(runs'[r], pub'[p][r])
    BY <1>2, <1>3, <1>4, <1>6, <1>8, MoveFacts DEF Fit
  <2>. QED
    BY <1>2, <1>3, <1>4, <1>8, <2>1, MoveFacts, PostHolds
<1>. QED
  BY <1>7, <1>8

LEMMA AttentionFits ==
    ASSUME OneProcess, IInv, Single, NEW p \in Runners, NEW r \in Runs, Attention(p, r)
    PROVE  Single'
<1>1. /\ runs[r] \in RunType /\ Fit(runs[r], pub[p][r]) /\ owns[p]
      /\ UNCHANGED owns /\ pub' = [pub EXCEPT ![p][r] = NoPost]
  BY PostFacts DEF Attention, Posting
<1>2. /\ runs'[r].posted = runs[r].posted /\ runs'[r].torn = runs[r].torn
      /\ runs'[r].chunk = runs[r].chunk /\ runs'[r].status # "delivery"
      /\ \A q \in Runs : q # r => runs'[q] = runs[q]
  BY <1>1 DEF Attention, IInv, RunsInv, RunType
<1>3. Fit(runs'[r], NoPost)
  BY <1>1, <1>2, NoPostTyped DEF Fit
<1>4. pub'[p][r] = NoPost /\ \A q \in Runs : q # r => pub'[p][q] = pub[p][q]
  BY <1>1, PutFacts
<1>. QED
  BY <1>1, <1>2, <1>3, <1>4, NoPostTyped, PostHolds

\* With one process, every step keeps the rows and their publisher in accord.
LEMMA SingleStep ==
    ASSUME OneProcess, IInv, IInv', Single, [Next]_vars
    PROVE  Single'
<1>1. ASSUME NEW p \in Runners, NEW r \in Runs, Pick(p, r) \/ Refuse(p, r) \/ Publish(p, r)
      PROVE  Single'
  BY <1>1, PickFits, RefuseFits, BeginFits, SendFits, RecordSentFits, RecordFailureFits,
     AttentionFits
     DEF Publish
<1>2. ASSUME NEW p \in Runners, Tick(p) \/ Restart(p)
      PROVE  Single'
  BY <1>2, StopSteps
<1>. QED
  BY <1>1, <1>2, QuietSteps DEF Next

LEMMA SingleInit ==
    ASSUME Init
    PROVE  Single
<1>1. Fit(NoRun, NoPost)
  BY NoPostTyped, Bounds DEF Fit, NoRun, Failures
<1>. QED
  BY <1>1, NoPostTyped DEF Init, Single

LEMMA SingleInvariance ==
    ASSUME OneProcess
    PROVE  Spec => [](IInv /\ Single)
<1>1. Init => IInv /\ Single
  BY InitHolds, SingleInit
<1>2. IInv /\ Single /\ [Next]_vars => (IInv /\ Single)'
  BY StepHolds, SingleStep
<1>. QED
  BY <1>1, <1>2, PTL DEF Spec

-----------------------------------------------------------------------------
(* Theorems for the one process that Kimi runs.                             *)

\* No destination message is posted twice, whatever is retried, restarted and recovered
\* (begin_delivery, recover, retry_delivery).  Two processes may post one twice.
THEOREM PostedOnce ==
    ASSUME OneProcess
    PROVE  Spec => []OnePostPerChunk
<1>1. IInv /\ Single => OnePostPerChunk
  BY DEF OneProcess, Single, Fit, OnePostPerChunk
<1>. QED
  BY <1>1, SingleInvariance, PTL

\* The messages of a run are posted in order (docs/configuration.md:485), unless its
\* publisher was stopped between the record of a failure and the pause that answers it.
THEOREM PostedInOrder ==
    ASSUME OneProcess
    PROVE  Spec => []UntornIsOrdered
<1>1. IInv /\ Single => UntornIsOrdered
  BY DEF OneProcess, Single, Fit, UntornIsOrdered, ChunksOrdered
<1>. QED
  BY <1>1, SingleInvariance, PTL

=============================================================================
