------------------------------- MODULE UserLocks -------------------------------
(***************************************************************************)
(* The workspace leases of bot/tools/workspace/common.py: tool calls and   *)
(* uploads (activity), downloads (serialized_user with barrier inside),    *)
(* durable coding workers (writer) with detached children                  *)
(* (writer_reference), and global maintenance (the sweeper and the privacy *)
(* wipe).  No coroutine suspends while it owns the condition's lock, so a  *)
(* whole `async with self._condition` section is one step; a coroutine     *)
(* that waits is woken by notify_all and passes when its predicate holds.  *)
(* A cancellation may reach a coroutine at every place where it waits.     *)
(***************************************************************************)
EXTENDS Integers, FiniteSets

CONSTANTS Workspaces,
          Tools,       \* coroutines that use activity()
          Fetchers,    \* fetch_url calls
          Workers,     \* coding workers
          Children,    \* detached tool calls and jobs of coding workers
          Sweepers     \* the periodic sweep and privacy wipes

Actors == Tools \cup Fetchers \cup Workers \cup Children \cup Sweepers

ASSUME ActorsAssumption ==
    /\ IsFiniteSet(Actors) /\ "none" \notin Actors
    /\ Tools \cap (Fetchers \cup Workers \cup Children \cup Sweepers) = {}
    /\ Fetchers \cap (Workers \cup Children \cup Sweepers) = {}
    /\ Workers \cap (Children \cup Sweepers) = {} /\ Children \cap Sweepers = {}

VARIABLES
    active,           \* activities and barriers that exclude maintenance
    activeWorkspaces, \* activities per workspace
    reservations,     \* serialized_user leases per workspace
    writers,          \* the durable writer and its references per workspace
    maintenance, waiters,
    user,             \* holder of the per-user asyncio.Lock, or "none"
    at,               \* where each coroutine is
    ws,               \* the workspace it works in
    excluded          \* workspaces the running sweep leaves alone

vars == <<active, activeWorkspaces, reservations, writers, maintenance, waiters,
          user, at, ws, excluded>>
gate == <<maintenance, waiters, excluded>>

\* waiting: for the first condition; queued: admitted, waiting for the per-user
\* lock; gate: inside and waiting for barrier(); barrier: inside barrier().
Places == {"idle", "waiting", "queued", "inside", "gate", "barrier"}

Init ==
    /\ active = 0 /\ activeWorkspaces = [w \in Workspaces |-> 0]
    /\ reservations = [w \in Workspaces |-> 0] /\ writers = [w \in Workspaces |-> 0]
    /\ maintenance = FALSE /\ waiters = 0 /\ excluded = {}
    /\ user = [w \in Workspaces |-> "none"]
    /\ at = [a \in Actors |-> "idle"]
    /\ ws \in [Actors -> Workspaces]

Go(a, place) == at' = [at EXCEPT ![a] = place]
Add(counts, w, n) == [counts EXCEPT ![w] = @ + n]
NoMaintenance == ~maintenance /\ waiters = 0

\* A call of one of the context managers for workspace w.
Arrive(a, w) ==
    /\ at[a] = "idle" /\ a \notin Children
    /\ Go(a, "waiting")
    /\ ws' = [ws EXCEPT ![a] = w]
    /\ waiters' = IF a \in Sweepers THEN waiters + 1 ELSE waiters
    /\ UNCHANGED <<active, activeWorkspaces, reservations, writers, maintenance,
                   user, excluded>>

-----------------------------------------------------------------------------
(* activity                                                                 *)

\* Seeded faults: a queued sweep, or a running one, does not stop new activity.
EnterActivity_Barging(a) ==
    /\ a \in Tools /\ at[a] = "waiting"
    /\ ~maintenance /\ writers[ws[a]] = 0
    /\ active' = active + 1 /\ activeWorkspaces' = Add(activeWorkspaces, ws[a], 1)
    /\ Go(a, "queued")
    /\ UNCHANGED <<reservations, writers, gate, user, ws>>
EnterActivity(a) ==
    /\ a \in Tools /\ at[a] = "waiting"
    /\ NoMaintenance /\ writers[ws[a]] = 0
    /\ active' = active + 1 /\ activeWorkspaces' = Add(activeWorkspaces, ws[a], 1)
    /\ Go(a, "queued")
    /\ UNCHANGED <<reservations, writers, gate, user, ws>>

\* The per-user asyncio.Lock, for activities and downloads.
TakeUserLock(a) ==
    /\ at[a] = "queued" /\ user[ws[a]] = "none"
    /\ user' = [user EXCEPT ![ws[a]] = a]
    /\ Go(a, "inside")
    /\ UNCHANGED <<active, activeWorkspaces, reservations, writers, gate, ws>>

Unlocked(a) == [w \in Workspaces |-> IF user[w] = a THEN "none" ELSE user[w]]

\* Seeded fault: only a body that ran gives its lease back.
LeaveActivity_Leaky(a) ==
    /\ a \in Tools /\ at[a] \in {"queued", "inside"}
    /\ active' = active - (IF at[a] = "inside" THEN 1 ELSE 0)
    /\ activeWorkspaces' = Add(activeWorkspaces, ws[a], IF at[a] = "inside" THEN -1 ELSE 0)
    /\ user' = Unlocked(a) /\ Go(a, "idle")
    /\ UNCHANGED <<reservations, writers, gate, ws>>

\* The body ends, or the wait for the per-user lock is cancelled.
LeaveActivity(a) ==
    /\ a \in Tools /\ at[a] \in {"queued", "inside"}
    /\ active' = active - 1 /\ activeWorkspaces' = Add(activeWorkspaces, ws[a], -1)
    /\ user' = Unlocked(a) /\ Go(a, "idle")
    /\ UNCHANGED <<reservations, writers, gate, ws>>

-----------------------------------------------------------------------------
(* writer and writer_reference                                              *)

\* Seeded faults: the writer ignores downloads, or a running sweep.
EnterWriter_Unreserved(a) ==
    /\ a \in Workers /\ at[a] = "waiting"
    /\ ~maintenance /\ writers[ws[a]] = 0 /\ activeWorkspaces[ws[a]] = 0
    /\ writers' = [writers EXCEPT ![ws[a]] = 1]
    /\ Go(a, "inside")
    /\ UNCHANGED <<active, activeWorkspaces, reservations, gate, user, ws>>
EnterWriter_Sweeping(a) ==
    /\ a \in Workers /\ at[a] = "waiting"
    /\ writers[ws[a]] = 0 /\ activeWorkspaces[ws[a]] = 0 /\ reservations[ws[a]] = 0
    /\ writers' = [writers EXCEPT ![ws[a]] = 1]
    /\ Go(a, "inside")
    /\ UNCHANGED <<active, activeWorkspaces, reservations, gate, user, ws>>

EnterWriter(a) ==
    /\ a \in Workers /\ at[a] = "waiting"
    /\ ~maintenance /\ writers[ws[a]] = 0
    /\ activeWorkspaces[ws[a]] = 0 /\ reservations[ws[a]] = 0
    /\ writers' = [writers EXCEPT ![ws[a]] = 1]
    /\ Go(a, "inside")
    /\ UNCHANGED <<active, activeWorkspaces, reservations, gate, user, ws>>

\* A child of a worker takes its reference before it does anything; without a
\* writer it fails.
EnterReference(a, w) ==
    /\ a \in Children /\ at[a] = "idle" /\ writers[w] > 0
    /\ writers' = Add(writers, w, 1)
    /\ ws' = [ws EXCEPT ![a] = w] /\ Go(a, "inside")
    /\ UNCHANGED <<active, activeWorkspaces, reservations, gate, user>>

\* _release_writer_reference; a worker cancelled inside barrier() leaves that
\* first, in the same step.
LeaveWriter(a) ==
    /\ \/ a \in Workers /\ at[a] \in {"inside", "gate", "barrier"}
       \/ a \in Children /\ at[a] = "inside"
    /\ writers' = Add(writers, ws[a], -1)
    /\ active' = active - (IF at[a] = "barrier" THEN 1 ELSE 0)
    /\ Go(a, "idle")
    /\ UNCHANGED <<activeWorkspaces, reservations, gate, user, ws>>

-----------------------------------------------------------------------------
(* serialized_user and barrier                                              *)

EnterSerialized(a) ==
    /\ a \in Fetchers /\ at[a] = "waiting" /\ writers[ws[a]] = 0
    /\ reservations' = Add(reservations, ws[a], 1)
    /\ Go(a, "queued")
    /\ UNCHANGED <<active, activeWorkspaces, writers, gate, user, ws>>

\* barrier() inside a download, and inside a coding worker.
ReachBarrier(a) ==
    /\ a \in Fetchers \cup Workers /\ at[a] = "inside"
    /\ Go(a, "gate")
    /\ UNCHANGED <<active, activeWorkspaces, reservations, writers, gate, user, ws>>

EnterBarrier(a) ==
    /\ at[a] = "gate" /\ NoMaintenance
    /\ active' = active + 1
    /\ Go(a, "barrier")
    /\ UNCHANGED <<activeWorkspaces, reservations, writers, gate, user, ws>>

LeaveBarrier(a) ==
    /\ at[a] = "barrier"
    /\ active' = active - 1
    /\ Go(a, "inside")
    /\ UNCHANGED <<activeWorkspaces, reservations, writers, gate, user, ws>>

LeaveSerialized(a) ==
    /\ a \in Fetchers /\ at[a] \in {"queued", "inside", "gate", "barrier"}
    /\ reservations' = Add(reservations, ws[a], -1)
    /\ active' = active - (IF at[a] = "barrier" THEN 1 ELSE 0)
    /\ user' = Unlocked(a) /\ Go(a, "idle")
    /\ UNCHANGED <<activeWorkspaces, writers, gate, ws>>

-----------------------------------------------------------------------------
(* maintenance                                                              *)

\* The sweeper reads writer_keys in the same step (no suspension in between).
EnterMaintenance(a) ==
    /\ a \in Sweepers /\ at[a] = "waiting"
    /\ ~maintenance /\ active = 0
    /\ maintenance' = TRUE /\ waiters' = waiters - 1
    /\ excluded' = {w \in Workspaces : writers[w] > 0}
    /\ Go(a, "inside")
    /\ UNCHANGED <<active, activeWorkspaces, reservations, writers, user, ws>>

LeaveMaintenance(a) ==
    /\ a \in Sweepers /\ at[a] = "inside"
    /\ maintenance' = FALSE /\ excluded' = {}
    /\ Go(a, "idle")
    /\ UNCHANGED <<active, activeWorkspaces, reservations, writers, waiters, user, ws>>

\* A cancellation reaches a coroutine that waits for its first condition.
CancelWaiting(a) ==
    /\ at[a] = "waiting"
    /\ waiters' = IF a \in Sweepers THEN waiters - 1 ELSE waiters
    /\ Go(a, "idle")
    /\ UNCHANGED <<active, activeWorkspaces, reservations, writers, maintenance,
                   user, ws, excluded>>

Leave(a) ==
    LeaveActivity(a) \/ LeaveWriter(a) \/ LeaveSerialized(a) \/ LeaveMaintenance(a)
Enter(a) ==
    \/ EnterActivity(a) \/ EnterWriter(a) \/ EnterSerialized(a) \/ EnterMaintenance(a)
    \/ EnterBarrier(a) \/ TakeUserLock(a)

Next == \E a \in Actors :
    \/ \E w \in Workspaces : Arrive(a, w) \/ EnterReference(a, w)
    \/ Enter(a) \/ Leave(a) \/ CancelWaiting(a)
    \/ ReachBarrier(a) \/ LeaveBarrier(a)

Spec == Init /\ [][Next]_vars

\* Bodies end, a download reaches its finalize, and every waiter whose predicate
\* keeps coming true gets through (notify_all wakes all of them, and
\* asyncio.Lock is FIFO).  Nobody is forced to give up a wait.
Fairness == \A a \in Actors :
    /\ SF_vars(Enter(a))
    /\ WF_vars(at[a] \in {"inside", "barrier"} /\ a \notin Fetchers /\ Leave(a))
    /\ WF_vars(at[a] = "inside" /\ a \in Fetchers /\ (Leave(a) \/ ReachBarrier(a)))
    /\ WF_vars(LeaveBarrier(a))

FairSpec == Spec /\ Fairness

-----------------------------------------------------------------------------
(* Properties.                                                              *)

InActivity(a) == a \in Tools /\ at[a] \in {"queued", "inside"}
InDownload(a) == a \in Fetchers /\ at[a] \in {"queued", "inside", "gate", "barrier"}
InWriter(a) == \/ a \in Workers /\ at[a] \in {"inside", "gate", "barrier"}
               \/ a \in Children /\ at[a] = "inside"

TypeOK ==
    /\ active \in 0..Cardinality(Actors)
    /\ activeWorkspaces \in [Workspaces -> 0..Cardinality(Tools)]
    /\ reservations \in [Workspaces -> 0..Cardinality(Fetchers)]
    /\ writers \in [Workspaces -> 0..Cardinality(Workers \cup Children)]
    /\ maintenance \in BOOLEAN /\ waiters \in 0..Cardinality(Sweepers)
    /\ excluded \in SUBSET Workspaces
    /\ user \in [Workspaces -> Actors \cup {"none"}]
    /\ at \in [Actors -> Places] /\ ws \in [Actors -> Workspaces]

\* The counters are exactly the coroutines that hold a lease, so that no
\* cancellation at any await leaves a sweep or a writer waiting for nobody.
NoLeakedLease ==
    /\ active = Cardinality({a \in Actors : InActivity(a) \/ at[a] = "barrier"})
    /\ waiters = Cardinality({a \in Sweepers : at[a] = "waiting"})
    /\ \A w \in Workspaces :
          /\ activeWorkspaces[w] = Cardinality({a \in Actors : InActivity(a) /\ ws[a] = w})
          /\ reservations[w] = Cardinality({a \in Actors : InDownload(a) /\ ws[a] = w})
          /\ writers[w] = Cardinality({a \in Actors : InWriter(a) /\ ws[a] = w})
          /\ user[w] # "none" => at[user[w]] \in {"inside", "gate", "barrier"} /\ ws[user[w]] = w

\* While a sweep or a wipe runs, no tool call and no finalizing download is in
\* any workspace, and no second one runs.  A durable writer, and after it each
\* detached child it left, has the workspace for itself: no tool call, no
\* download and no second worker (tools/workspace/common.py: UserLocks).
LeasesExclude ==
    /\ maintenance =>
          /\ \A a \in Actors : ~InActivity(a) /\ at[a] # "barrier"
          /\ Cardinality({a \in Sweepers : at[a] = "inside"}) = 1
    /\ \A a, b \in Actors :
          InWriter(a) /\ a # b /\ ws[a] = ws[b] =>
              /\ ~InActivity(b) /\ ~InDownload(b)
              /\ ~(a \in Workers /\ b \in Workers /\ InWriter(b))

\* The sweep spares every workspace with a writer: the exclusions it read when it
\* began cannot become stale (discord_adapter/lifecycle.py 117-121).
SweepSparesWriters ==
    maintenance => \A w \in Workspaces : writers[w] > 0 => w \in excluded

\* A download that waits in barrier() with the lock of a queued tool call.
Wedged ==
    \E f \in Fetchers, t \in Tools :
        at[f] = "gate" /\ at[t] = "queued" /\ user[ws[t]] = f

\* A queued sweep stops later tool calls and gets its turn, unless a download
\* and a tool call of its workspace wedge it (see BarrierIsReached).
MaintenanceProceeds ==
    \A a \in Sweepers : at[a] = "waiting" ~> at[a] # "waiting" \/ Wedged

\* "Composing barrier() inside for_user() is deadlock-free: maintenance never
\* takes user locks" (tools/workspace/common.py 168-169): a download always gets
\* to finalize.
BarrierIsReached ==
    \A a \in Fetchers : at[a] = "gate" ~> at[a] # "gate"

=============================================================================
