---------------------------- MODULE ForegroundTurns ----------------------------
(***************************************************************************)
(* One chat turn from the Discord event to the released lease, and what    *)
(* stops it: admission (app/admission.py), the registry of active          *)
(* operations (app/cancellation.py), root locks (app/root_locks.py), the   *)
(* shared turn lifecycle (app/message_runtime.py, app/foreground_turn.py), *)
(* children that outlive a timed-out turn (agent/core.py), and stop, reset *)
(* and shutdown (app/work_cancellation.py, app/user_app_chat.py,           *)
(* app/lifecycle.py).  A step is the code between two suspensions.         *)
(***************************************************************************)
EXTENDS Integers, Sequences, FiniteSets, SequencesExt

CONSTANTS Messages, Users, Roots, Nobody,
          UserOf,        \* author of each message
          RootOf,        \* conversation root each message resolves to
          MaxActive, MaxActivePerUser,
          Stops,         \* calls that cancel work
          Kinds,         \* what these calls may be: "stop", "reset", "shutdown"
          MaxRows        \* bound: rows of a root that retention may remove

ASSUME TurnsAssumption ==
    /\ UserOf \in [Messages -> Users] /\ RootOf \in [Messages -> Roots]
    /\ MaxActive \in Nat \ {0} /\ MaxActivePerUser \in Nat \ {0}
    /\ Messages \cap Stops = {} /\ Nobody \notin Messages \cup Stops \cup Roots
    /\ Kinds \subseteq {"stop", "reset", "shutdown"}
    /\ IsFiniteSet(Messages) /\ MaxRows \in Nat

VARIABLES
    pc,         \* where the task of each message is
    thrown,     \* tasks with a cancellation on its way
    total, perUser,   \* leases of the admission controller
    closed,     \* admission is shut
    ops,        \* registered operations
    lock,       \* FIFO queue of each root lock, the holder first
    row, rows,  \* the conversation row of a root (0: none) and the last id used
    log,        \* who wrote each record of that row
    bound,      \* the row a turn writes to
    child,      \* the guarded child task of a turn
    live,       \* turns with live reply routes
    stop        \* the cancelling calls

vars == <<pc, thrown, total, perUser, closed, ops, lock, row, rows, log, bound,
          child, live, stop>>
admission == <<total, perUser, closed>>
store == <<row, rows, log>>

Prepared == {"preparing", "saving", "thinking", "calling", "delivering", "persisting"}
Running == {"touching"} \cup Prepared
Holding == Running \cup {"reacting"}
Cancellable == {"resolving", "acking", "queued"} \cup Holding
Leased == Cancellable \cup {"cleaning", "ending"}
Places == {"new", "rejected", "done"} \cup Leased

Op(m, kind, root) == [turn |-> m, kind |-> kind, root |-> root]
OpKinds == {"turn", "run", "child"}

Init ==
    /\ pc = [m \in Messages |-> "new"] /\ thrown = {}
    /\ total = 0 /\ perUser = [u \in Users |-> 0] /\ closed = FALSE
    /\ ops = {} /\ lock = [r \in Roots |-> <<>>]
    /\ row = [r \in Roots |-> 0] /\ rows = [r \in Roots |-> 0]
    /\ log = [r \in Roots |-> <<>>]
    /\ bound = [m \in Messages |-> 0]
    /\ child = [m \in Messages |-> "none"] /\ live = {}
    /\ stop = [s \in Stops |-> [kind |-> "none", user |-> Nobody, root |-> Nobody,
                                pc |-> "idle", watch |-> {}, before |-> {}]]

\* A step of a task that no cancellation is about to interrupt.
At(m, place) == pc[m] = place /\ m \notin thrown
Go(m, place) == pc' = [pc EXCEPT ![m] = place]

\* Nobody stands twice in the line for a root.
Without(queue, p) ==
    IF \E i \in DOMAIN queue : queue[i] = p
       THEN RemoveAt(queue, CHOOSE i \in DOMAIN queue : queue[i] = p)
       ELSE queue

-----------------------------------------------------------------------------
(* Admission, registration and routing.                                     *)

HasCapacity(m) == total < MaxActive /\ perUser[UserOf[m]] < MaxActivePerUser

\* The lease, and the provisional registration before the next await.
Admit(m) ==
    /\ pc[m] = "new" /\ ~closed /\ HasCapacity(m)
    /\ total' = total + 1
    /\ perUser' = [perUser EXCEPT ![UserOf[m]] = @ + 1]
    /\ ops' = ops \cup {Op(m, "turn", Nobody)}
    /\ Go(m, "resolving")
    /\ UNCHANGED <<thrown, closed, lock, store, bound, child, live, stop>>

Reject(m) ==
    /\ pc[m] = "new" /\ (closed \/ ~HasCapacity(m))
    /\ Go(m, "rejected")
    /\ UNCHANGED <<thrown, admission, ops, lock, store, bound, child, live, stop>>

\* Gated by consent, refused by a pending deletion, or without a root to answer in.
Drop(m) ==
    /\ At(m, "resolving")
    /\ Go(m, "ending")
    /\ UNCHANGED <<thrown, admission, ops, lock, store, bound, child, live, stop>>

GetOrCreate(r) ==
    /\ row' = [row EXCEPT ![r] = IF @ = 0 THEN rows[r] + 1 ELSE @]
    /\ rows' = [rows EXCEPT ![r] = IF row[r] = 0 THEN @ + 1 ELSE @]
    /\ UNCHANGED log

\* Resolve the root, create its row, and bind the registration to the root.
Resolve(m) ==
    /\ At(m, "resolving")
    /\ GetOrCreate(RootOf[m])
    /\ bound' = [bound EXCEPT ![m] = row'[RootOf[m]]]
    /\ ops' = (ops \ {Op(m, "turn", Nobody)}) \cup {Op(m, "turn", RootOf[m])}
    /\ Go(m, "acking")
    /\ UNCHANGED <<thrown, admission, lock, child, live, stop>>

\* The hourglass reaction is there; stand in line for the root.
Queue(m) ==
    /\ At(m, "acking")
    /\ lock' = [lock EXCEPT ![RootOf[m]] = Append(@, m)]
    /\ Go(m, "queued")
    /\ UNCHANGED <<thrown, admission, ops, store, bound, child, live, stop>>

HasRoot(m) == lock[RootOf[m]] # <<>> /\ Head(lock[RootOf[m]]) = m
Unlock(m) == lock' = [lock EXCEPT ![RootOf[m]] = Without(@, m)]

\* The message may no longer be answered (thread paused, guild deactivated).
RecheckFails(m) ==
    /\ At(m, "queued") /\ HasRoot(m)
    /\ Unlock(m) /\ Go(m, "cleaning")
    /\ UNCHANGED <<thrown, admission, ops, store, bound, child, live, stop>>

StartRun(m) ==
    /\ At(m, "queued") /\ HasRoot(m)
    /\ ops' = ops \cup {Op(m, "run", RootOf[m])}
    /\ Go(m, "touching")
    /\ UNCHANGED <<thrown, admission, lock, store, bound, child, live, stop>>

-----------------------------------------------------------------------------
(* The turn, under its root lock.                                           *)

\* Retention or a reset may have removed the row while the turn waited.
Touch(m) ==
    /\ At(m, "touching")
    /\ IF row[RootOf[m]] = bound[m]
          THEN UNCHANGED <<store, bound>>
          ELSE GetOrCreate(RootOf[m]) /\ bound' = [bound EXCEPT ![m] = row'[RootOf[m]]]
    /\ Go(m, "preparing")
    /\ UNCHANGED <<thrown, admission, ops, lock, child, live, stop>>

Record(m) == log' = [log EXCEPT ![RootOf[m]] = Append(@, m)]

Spawn(m) == child' = [child EXCEPT ![m] = "spawned"]

\* The prepared message is persisted in a guarded child task.
SaveMessage(m) ==
    /\ At(m, "preparing")
    /\ Spawn(m) /\ Go(m, "saving")
    /\ UNCHANGED <<thrown, admission, ops, lock, store, bound, live, stop>>

\* The first step of the child: it registers and takes its lease.  The loop runs
\* it before anything that can reach its parent.  Writes are served in the order
\* they were asked for, so a record counts from here.
ChildStarts(m) ==
    /\ child[m] = "spawned"
    /\ child' = [child EXCEPT ![m] = "running"]
    /\ ops' = ops \cup {Op(m, "child", RootOf[m])}
    /\ IF pc[m] = "saving" /\ row[RootOf[m]] = bound[m] THEN Record(m) ELSE UNCHANGED log
    /\ UNCHANGED <<pc, thrown, admission, lock, row, rows, bound, live, stop>>

ChildEnds(m) ==
    /\ child[m] = "running"
    /\ child' = [child EXCEPT ![m] = "none"]
    /\ ops' = ops \ {Op(m, "child", RootOf[m])}
    /\ UNCHANGED <<pc, thrown, admission, lock, store, bound, live, stop>>

Saved(m) ==
    /\ At(m, "saving") /\ child[m] = "none"
    /\ Go(m, "thinking")
    /\ UNCHANGED <<thrown, admission, ops, lock, store, bound, child, live, stop>>

\* One round with tools stands for all of them (at most react_max_iterations).
CallTool(m) ==
    /\ At(m, "thinking")
    /\ Spawn(m) /\ Go(m, "calling")
    /\ UNCHANGED <<thrown, admission, ops, lock, store, bound, live, stop>>

\* The model answers, or the turn is refused by moderation while it prepares.
Answer(m) ==
    /\ \/ At(m, "thinking") \/ At(m, "preparing")
       \/ At(m, "calling") /\ child[m] = "none"
    /\ Go(m, "delivering")
    /\ UNCHANGED <<thrown, admission, ops, lock, store, bound, child, live, stop>>

\* The turn's deadline: a running child is left behind, the notice is delivered.
TimeOut(m) ==
    /\ \E place \in {"preparing", "saving", "thinking", "calling"} : At(m, place)
    /\ child[m] # "spawned"
    /\ Go(m, "delivering")
    /\ UNCHANGED <<thrown, admission, ops, lock, store, bound, child, live, stop>>

\* The first chunk is on Discord: replies to it must find this root.
Send(m) ==
    /\ At(m, "delivering")
    /\ live' = live \cup {m}
    /\ UNCHANGED <<pc, thrown, admission, ops, lock, store, bound, child, stop>>

Delivered(m) ==
    /\ At(m, "delivering")
    /\ Go(m, "persisting")
    /\ UNCHANGED <<thrown, admission, ops, lock, store, bound, child, live, stop>>

LeaveRun(m) ==
    /\ ops' = ops \ {Op(m, "run", RootOf[m])}
    /\ live' = live \ {m}

\* The replies are saved, unless none may be (refused, attachment error) or the
\* write fails; the live routes end either way.
Persist(m) ==
    /\ At(m, "persisting")
    /\ \/ row[RootOf[m]] = bound[m] /\ Record(m)
       \/ UNCHANGED log
    /\ LeaveRun(m) /\ Go(m, "reacting")
    /\ UNCHANGED <<thrown, admission, lock, row, rows, bound, child, stop>>

\* A bare mention (no turn runs), or an exception anywhere before persistence.
EndEarly(m) ==
    /\ pc[m] \in Running \ {"persisting"} /\ m \notin thrown
    /\ pc[m] \in {"saving", "calling"} => child[m] = "none"
    /\ LeaveRun(m) /\ Go(m, "reacting")
    /\ UNCHANGED <<thrown, admission, lock, store, bound, child, stop>>

\* The outcome reaction, still under the root lock.
React(m) ==
    /\ At(m, "reacting")
    /\ Unlock(m) /\ Go(m, "cleaning")
    /\ UNCHANGED <<thrown, admission, ops, store, bound, child, live, stop>>

\* Seeded faults: a cancelled task keeps its place in the line for the root, or
\* skips its finalizers.
Cancelled_KeepsPlace(m) ==
    /\ m \in thrown /\ pc[m] \in Cancellable /\ child[m] # "spawned"
    /\ thrown' = thrown \ {m}
    /\ Go(m, IF pc[m] = "resolving" THEN "ending" ELSE "cleaning")
    /\ LeaveRun(m)
    /\ UNCHANGED <<admission, lock, store, bound, child, stop>>

Cancelled_Abrupt(m) ==
    /\ m \in thrown /\ pc[m] \in Cancellable /\ child[m] # "spawned"
    /\ thrown' = thrown \ {m}
    /\ Go(m, "done")
    /\ Unlock(m) /\ LeaveRun(m)
    /\ UNCHANGED <<admission, store, bound, child, stop>>

\* CancelledError at the await the task is in; a running child stays behind.
Cancelled(m) ==
    /\ m \in thrown /\ pc[m] \in Cancellable /\ child[m] # "spawned"
    /\ thrown' = thrown \ {m}
    /\ Go(m, IF pc[m] = "resolving" THEN "ending" ELSE "cleaning")
    /\ Unlock(m) /\ LeaveRun(m)
    /\ UNCHANGED <<admission, store, bound, child, stop>>

\* The hourglass is removed; a cancellation is held back until it is.
Cleanup(m) ==
    /\ pc[m] = "cleaning"
    /\ Go(m, "ending")
    /\ UNCHANGED <<thrown, admission, ops, lock, store, bound, child, live, stop>>

\* Privacy lease and admission lease are given back, then the registration.
End(m) ==
    /\ pc[m] = "ending"
    /\ total' = total - 1
    /\ perUser' = [perUser EXCEPT ![UserOf[m]] = @ - 1]
    /\ ops' = {o \in ops : o.turn # m \/ o.kind = "child"}
    /\ thrown' = thrown \ {m} /\ bound' = [bound EXCEPT ![m] = 0]
    /\ Go(m, "done")
    /\ UNCHANGED <<closed, lock, store, child, live, stop>>

\* Retention spares rows that a turn touched: it looks days back.
Expire(r) ==
    /\ row[r] # 0 /\ rows[r] <= MaxRows
    /\ \A m \in Messages : RootOf[m] = r => pc[m] \notin Prepared \cup {"reacting"}
    /\ row' = [row EXCEPT ![r] = 0] /\ log' = [log EXCEPT ![r] = <<>>]
    /\ UNCHANGED <<pc, thrown, admission, ops, lock, rows, bound, child, live, stop>>

-----------------------------------------------------------------------------
(* stop, reset and shutdown.                                                *)

\* Seeded fault: a turn that has no root yet is overlooked.
Matches_Rooted(o, c) ==
    \/ c.kind = "shutdown"
    \/ UserOf[o.turn] = c.user /\ o.root = c.root

\* Operations a call is about: all of them at shutdown, else those of the user
\* in the root, or that have no root yet.
Matches(o, c) ==
    \/ c.kind = "shutdown"
    \/ UserOf[o.turn] = c.user /\ o.root \in {c.root, Nobody}

Task(o) == <<o.turn, IF o.kind = "child" THEN "child" ELSE "turn">>
Matching(c) == {o \in ops : Matches(o, c)}

InFlight(m) == pc[m] \in Leased \/ child[m] # "none"

Concerns(x, k, m) == k = "shutdown" \/ (UserOf[x] = UserOf[m] /\ RootOf[x] = RootOf[m])

\* A user stops or resets a root of theirs, or the application shuts down.
Begin(s) ==
    /\ stop[s].pc = "idle"
    /\ \E k \in Kinds, m \in Messages :
         /\ closed' = (closed \/ k = "shutdown")
         /\ stop' = [stop EXCEPT ![s] =
              [@ EXCEPT !.kind = k, !.pc = "scan", !.user = UserOf[m], !.root = RootOf[m],
                        !.before = {x \in Messages : InFlight(x) /\ Concerns(x, k, m)}]]
    /\ UNCHANGED <<pc, thrown, total, perUser, ops, lock, store, bound, child, live>>

StopTo(s, place) == stop' = [stop EXCEPT ![s].pc = place, ![s].watch = {}]

\* Cancel what matches and wait for it; with nothing left the stop is clean.
Scan(s) ==
    /\ stop[s].pc = "scan"
    /\ LET owned == Matching(stop[s]) IN
       IF owned = {}
          THEN /\ StopTo(s, IF stop[s].kind = "reset" THEN "clean" ELSE "stopped")
               /\ UNCHANGED thrown
          ELSE /\ stop' = [stop EXCEPT ![s].pc = "waiting", ![s].watch = {Task(o) : o \in owned}]
               /\ thrown' = thrown \cup {o.turn : o \in {p \in owned : p.kind # "child"}}
    /\ UNCHANGED <<pc, admission, ops, lock, store, bound, child, live>>

Ended(t) == IF t[2] = "child" THEN child[t[1]] = "none" ELSE pc[t[1]] = "done"

\* Seeded fault: what was registered meanwhile is not looked for.
Drained_Once(s) ==
    /\ stop[s].pc = "waiting" /\ \A t \in stop[s].watch : Ended(t)
    /\ StopTo(s, IF stop[s].kind = "reset" THEN "clean" ELSE "stopped")
    /\ UNCHANGED <<pc, thrown, admission, ops, lock, store, bound, child, live>>

Drained(s) ==
    /\ stop[s].pc = "waiting" /\ \A t \in stop[s].watch : Ended(t)
    /\ StopTo(s, "scan")
    /\ UNCHANGED <<pc, thrown, admission, ops, lock, store, bound, child, live>>

\* The cleanup deadline: the caller is told, and a reset deletes nothing.
GiveUp(s) ==
    /\ stop[s].pc = "waiting"
    /\ StopTo(s, "unclean")
    /\ UNCHANGED <<pc, thrown, admission, ops, lock, store, bound, child, live>>

QueueReset(s) ==
    /\ stop[s].pc = "clean"
    /\ lock' = [lock EXCEPT ![stop[s].root] = Append(@, s)]
    /\ StopTo(s, "locking")
    /\ UNCHANGED <<pc, thrown, admission, ops, store, bound, child, live>>

HoldReset(s) ==
    /\ stop[s].pc = "locking" /\ Head(lock[stop[s].root]) = s
    /\ StopTo(s, "erasing")
    /\ UNCHANGED <<pc, thrown, admission, ops, lock, store, bound, child, live>>

\* Seeded fault: the reset does not wait for the root lock.
Erase_Unlocked(s) ==
    /\ stop[s].pc \in {"locking", "erasing"}
    /\ row' = [row EXCEPT ![stop[s].root] = 0] /\ log' = [log EXCEPT ![stop[s].root] = <<>>]
    /\ lock' = [lock EXCEPT ![stop[s].root] = Without(@, s)]
    /\ StopTo(s, "cleared")
    /\ UNCHANGED <<pc, thrown, admission, ops, rows, bound, child, live>>

Erase(s) ==
    /\ stop[s].pc = "erasing"
    /\ row' = [row EXCEPT ![stop[s].root] = 0] /\ log' = [log EXCEPT ![stop[s].root] = <<>>]
    /\ lock' = [lock EXCEPT ![stop[s].root] = Without(@, s)]
    /\ StopTo(s, "cleared")
    /\ UNCHANGED <<pc, thrown, admission, ops, rows, bound, child, live>>

-----------------------------------------------------------------------------
Enter(m) == Admit(m) \/ Reject(m) \/ Drop(m) \/ Resolve(m) \/ Queue(m)
                \/ RecheckFails(m) \/ StartRun(m)
Turn(m) == \/ Touch(m) \/ SaveMessage(m) \/ Saved(m) \/ CallTool(m)
           \/ Answer(m) \/ TimeOut(m) \/ Delivered(m) \/ Persist(m) \/ EndEarly(m)
           \/ React(m)
Child(m) == ChildStarts(m) \/ ChildEnds(m)
Leave(m) == Cancelled(m) \/ Cleanup(m) \/ End(m)
Cancel(s) == Scan(s) \/ Drained(s) \/ GiveUp(s) \/ QueueReset(s) \/ HoldReset(s) \/ Erase(s)

Next ==
    \/ \E m \in Messages : Enter(m) \/ Turn(m) \/ Send(m) \/ Child(m) \/ Leave(m)
    \/ \E s \in Stops : Begin(s) \/ Cancel(s)
    \/ \E r \in Roots : Expire(r)

Spec == Init /\ [][Next]_vars

\* Awaits end, the turn's deadline fires, children finish, and the loop runs
\* every task that is ready.  Nobody has to send a message or to stop one.
Fairness ==
    /\ \A m \in Messages :
         /\ WF_vars(pc[m] # "new" /\ Enter(m)) /\ WF_vars(Turn(m))
         /\ WF_vars(Leave(m)) /\ WF_vars(Child(m))
    /\ \A s \in Stops : WF_vars(Cancel(s))

FairSpec == Spec /\ Fairness

-----------------------------------------------------------------------------
(* Properties.                                                              *)

Rooted == Leased \ {"resolving", "ending"}

TypeOK ==
    /\ pc \in [Messages -> Places] /\ thrown \subseteq {m \in Messages : pc[m] \in Leased}
    /\ total \in 0..MaxActive /\ perUser \in [Users -> 0..MaxActivePerUser]
    /\ closed \in BOOLEAN
    /\ ops \subseteq {Op(m, k, r) : m \in Messages, k \in OpKinds, r \in Roots \cup {Nobody}}
    /\ lock \in [Roots -> Seq(Messages \cup Stops)]
    /\ row \in [Roots -> Nat] /\ rows \in [Roots -> Nat] /\ bound \in [Messages -> Nat]
    /\ log \in [Roots -> Seq(Messages)]
    /\ child \in [Messages -> {"none", "spawned", "running"}] /\ live \subseteq Messages

\* Admission counts exactly the turns that hold a lease, and each of them, and
\* each child one of them left behind, can be found by a stop: whatever
\* finalizer a cancellation interrupts (app/message_runtime.py 293-320).
AdmittedIsStoppable ==
    /\ total = Cardinality({m \in Messages : pc[m] \in Leased})
    /\ \A u \in Users :
         perUser[u] = Cardinality({m \in Messages : UserOf[m] = u /\ pc[m] \in Leased})
    /\ {o.turn : o \in {p \in ops : p.kind # "child"}} = {m \in Messages : pc[m] \in Leased}
    /\ {o.turn : o \in {p \in ops : p.kind = "child"}} = {m \in Messages : child[m] = "running"}

\* A stop, reset or shutdown that reports a clean end left nothing running of
\* what was in flight when it began, and a clean shutdown nothing at all: the
\* stores are closed next (app/cancellation.py 118-188, app/lifecycle.py 379).
CleanStopIsComplete ==
    \A s \in Stops : stop[s].pc \in {"clean", "stopped", "locking", "erasing", "cleared"} =>
        /\ \A m \in stop[s].before : pc[m] = "done" /\ child[m] = "none"
        /\ stop[s].kind = "shutdown" => ops = {}

\* After "Your personal chat thread was cleared" no record of a turn that was
\* there when the reset began is in the transcript, or comes back.
ResetIsFinal ==
    \A s \in Stops : stop[s].pc = "cleared" =>
        \A i \in 1..Len(log[stop[s].root]) : log[stop[s].root][i] \notin stop[s].before

\* Every admitted turn gives its lease back, whatever is stopped meanwhile.
TurnsEnd == \A m \in Messages : pc[m] = "resolving" ~> pc[m] = "done"

HoldsRoot(p) == IF p \in Messages THEN pc[p] \in Holding ELSE stop[p].pc = "erasing"

\* Who holds each root, and who has given it back, or never asks for it again.
Holder == [r \in Roots |-> IF lock[r] # <<>> /\ HoldsRoot(Head(lock[r]))
                              THEN Head(lock[r]) ELSE Nobody]
Left == {m \in Messages : pc[m] \in {"cleaning", "ending", "done"}}
            \cup {s \in Stops : stop[s].pc = "cleared"}

Transcript == INSTANCE RootTranscript WITH
    Parties <- Messages \cup Stops, holder <- Holder, transcript <- log, left <- Left

\* The turns are serial on each root: a timed-out turn, a detached child, a
\* cancelled or queued turn never writes between the records of another.
ImplementsTranscript == Transcript!Spec

=============================================================================
