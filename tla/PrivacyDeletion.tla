---------------------------- MODULE PrivacyDeletion ----------------------------
(***************************************************************************)
(* On-demand deletion of one user's data: the activity/deletion barrier of *)
(* bot/utils/privacy_barrier.py, the durable requests of                   *)
(* bot/storage/privacy.py and the workers of bot/commands/privacy_cmd.py,  *)
(* with their replay at startup (bot/app/lifecycle.py).                    *)
(*                                                                         *)
(* A section under the barrier's condition never suspends and is one step. *)
(* The per-user state object is dropped only when it equals a new one, so  *)
(* its identity is left out.  A worker holds the database's write lock     *)
(* from the commit of its statement to its next await.                     *)
(***************************************************************************)
EXTENDS Integers, FiniteSets

CONSTANTS Surfaces,     \* turns, commands, scheduled runs of the user
          Children,     \* tool calls that may outlive the surface that made them
          Deleters,     \* confirmed deletions; also the tokens of their requests
          MaxTurns,     \* bound: activities per surface
          MaxRestarts   \* bound: process restarts

ASSUME PrivacyAssumption ==
    /\ IsFiniteSet(Surfaces) /\ IsFiniteSet(Children) /\ Surfaces \cap Children = {}
    /\ MaxTurns \in Nat \ {0} /\ MaxRestarts \in Nat
    /\ {"boot", "none"} \cap Deleters = {}

VARIABLES
    active, waitingDeletions, deleting, pending,   \* _UserState
    at,         \* where each surface and child is
    grp,        \* the activity group it is in or has inherited
    turns,      \* activities a surface or child has begun
    row,        \* the durable request: token and effective scope
    pc,         \* where each deletion worker is
    request,    \* the request it works on
    due,        \* data authorized for deletion and not deleted since
    armed,      \* requests whose authorization has blocked the user
    later,      \* requests authorized before some data that now exists
    restarts

barrier == <<active, waitingDeletions, deleting, pending>>
people == <<at, grp, turns>>
ledger == <<row, request, due, armed>>
vars == <<barrier, people, ledger, pc, later, restarts>>

Actors == Surfaces \cup Children
Workers == Deleters \cup {"boot"}     \* boot: the replay at startup
NoGroup == <<"none", 0>>
Groups == (Actors \X (1..MaxTurns)) \cup {NoGroup}
Kinds == {"transcript", "memory"}
Reach(scope) == IF scope = "all" THEN Kinds ELSE {"memory"}
NoRequest == [token |-> "none", scope |-> "memory"]
Request == [token : Deleters \cup {"none"}, scope : {"memory", "all"}]

Members(g) == {a \in Actors : at[a] = "in" /\ grp[a] = g}
Open(g) == Members(g) # {}
Go(d, place) == pc' = [pc EXCEPT ![d] = place]
WriteLockFree == \A d \in Workers : pc[d] \notin {"committed", "clearing"}

Init ==
    /\ active = 0 /\ waitingDeletions = 0 /\ deleting = FALSE /\ pending = FALSE
    /\ at = [a \in Actors |-> "idle"] /\ grp = [a \in Actors |-> NoGroup]
    /\ turns = [a \in Actors |-> 0]
    /\ row = NoRequest /\ pc = [d \in Workers |-> "idle"]
    /\ request = [d \in Workers |-> NoRequest]
    /\ due = {} /\ armed = {} /\ later = {} /\ restarts = 0

-----------------------------------------------------------------------------
(* activity                                                                 *)

\* A surface, or a child whose inherited group is closed, queues for a lease of
\* its own; a pending deletion refuses it at once.
Queue(a) ==
    /\ turns[a] < MaxTurns
    /\ at' = [at EXCEPT ![a] = IF pending THEN "idle" ELSE "waiting"]
    /\ UNCHANGED <<barrier, grp, turns, ledger, pc, later, restarts>>

SurfaceArrives(a) == a \in Surfaces /\ at[a] = "idle" /\ ~pending /\ Queue(a)

\* Everything an activity writes, it may write from here on.
Admit(a) ==
    /\ at[a] = "waiting" /\ ~pending /\ ~deleting /\ waitingDeletions = 0
    /\ at' = [at EXCEPT ![a] = "in"]
    /\ grp' = [grp EXCEPT ![a] = <<a, turns[a] + 1>>]
    /\ turns' = [turns EXCEPT ![a] = @ + 1]
    /\ active' = active + 1
    /\ later' = later \cup armed
    /\ UNCHANGED <<waitingDeletions, deleting, pending, ledger, pc, restarts>>

\* A waiter is refused by a deletion that became pending, or cancelled.
GiveUpWaiting(a) ==
    /\ at[a] = "waiting"
    /\ at' = [at EXCEPT ![a] = "idle"]
    /\ UNCHANGED <<barrier, grp, turns, ledger, pc, later, restarts>>

\* A tool call is started in a child task, which inherits the open group.
SpawnChild(a, c) ==
    /\ a \in Surfaces /\ at[a] = "in"
    /\ c \in Children /\ at[c] = "idle" /\ turns[c] < MaxTurns
    /\ at' = [at EXCEPT ![c] = "spawned"]
    /\ grp' = [grp EXCEPT ![c] = grp[a]]
    /\ UNCHANGED <<barrier, turns, ledger, pc, later, restarts>>

\* Seeded fault: the inherited group is joined although it has closed.
ChildEnters_Stale(c) ==
    /\ at[c] = "spawned"
    /\ at' = [at EXCEPT ![c] = "in"]
    /\ active' = active + (IF Open(grp[c]) THEN 0 ELSE 1)
    /\ UNCHANGED <<waitingDeletions, deleting, pending, grp, turns, ledger, pc, later, restarts>>

\* The child joins the open group ahead of a queued deletion, or stands in line.
ChildEnters(c) ==
    /\ at[c] = "spawned"
    /\ \/ /\ Open(grp[c])
          /\ at' = [at EXCEPT ![c] = "in"]
          /\ UNCHANGED <<barrier, grp, turns, ledger, pc, later, restarts>>
       \/ ~Open(grp[c]) /\ Queue(c)

\* A child whose turn timed out before it got a lease is cancelled.
ChildIsCancelled(c) ==
    /\ at[c] = "spawned"
    /\ at' = [at EXCEPT ![c] = "idle"]
    /\ UNCHANGED <<barrier, grp, turns, ledger, pc, later, restarts>>

\* Seeded fault: only the surface drops the count.
Leave_OwnerCounts(a) ==
    /\ at[a] = "in"
    /\ at' = [at EXCEPT ![a] = "idle"]
    /\ active' = active - (IF Members(grp[a]) = {a} /\ grp[a][1] = a THEN 1 ELSE 0)
    /\ UNCHANGED <<waitingDeletions, deleting, pending, grp, turns, ledger, pc, later, restarts>>

\* The last member of a group closes it.
Leave(a) ==
    /\ at[a] = "in"
    /\ at' = [at EXCEPT ![a] = "idle"]
    /\ active' = active - (IF Members(grp[a]) = {a} THEN 1 ELSE 0)
    /\ UNCHANGED <<waitingDeletions, deleting, pending, grp, turns, ledger, pc, later, restarts>>

-----------------------------------------------------------------------------
(* A confirmed deletion.                                                    *)

\* Seeded fault: the newest request decides the scope.
Commit_NewestScope(d, scope) ==
    /\ d \in Deleters /\ pc[d] = "idle" /\ WriteLockFree
    /\ row' = [token |-> d, scope |-> scope]
    /\ request' = [request EXCEPT ![d] = row']
    /\ due' = due \cup Reach(scope)
    /\ Go(d, "committed")
    /\ UNCHANGED <<barrier, people, armed, later, restarts>>

\* PrivacyDeletionRequestStore.request: coalesce; "all" dominates.
Commit(d, scope) ==
    /\ d \in Deleters /\ pc[d] = "idle" /\ WriteLockFree
    /\ row' = [token |-> d,
               scope |-> IF row.token # "none" /\ row.scope = "all" THEN "all" ELSE scope]
    /\ request' = [request EXCEPT ![d] = row']
    /\ due' = due \cup Reach(scope)
    /\ Go(d, "committed")
    /\ UNCHANGED <<barrier, people, armed, later, restarts>>

\* Seeded fault: the user is blocked only when the worker queues for the lease.
Arm_Late(d) ==
    /\ pc[d] = "committed"
    /\ armed' = armed \cup {d}
    /\ Go(d, "draining")
    /\ UNCHANGED <<barrier, people, row, request, due, later, restarts>>

\* execute: block later activity before draining.
Arm(d) ==
    /\ pc[d] = "committed"
    /\ pending' = TRUE /\ armed' = armed \cup {d}
    /\ Go(d, "draining")
    /\ UNCHANGED <<active, waitingDeletions, deleting, people, row, request, due, later, restarts>>

\* cancel_for_privacy could not stop the user's work: nothing is deleted.
DrainFails(d) ==
    /\ pc[d] = "draining"
    /\ Go(d, "done")
    /\ UNCHANGED <<barrier, people, ledger, later, restarts>>

\* run_privacy_deletion: arm again and queue for the exclusive lease.
Enqueue(d) ==
    /\ pc[d] = "draining"
    /\ pending' = TRUE /\ waitingDeletions' = waitingDeletions + 1
    /\ Go(d, "queued")
    /\ UNCHANGED <<active, deleting, people, ledger, later, restarts>>

Own(d) ==
    /\ pc[d] = "queued" /\ ~deleting
    /\ deleting' = TRUE /\ waitingDeletions' = waitingDeletions - 1
    /\ Go(d, "owning")
    /\ UNCHANGED <<active, pending, people, ledger, later, restarts>>

\* Running activities are drained, not refused.
BeginWipe(d) ==
    /\ pc[d] = "owning" /\ active = 0
    /\ Go(d, "wiping")
    /\ UNCHANGED <<barrier, people, ledger, later, restarts>>

\* The stores are wiped one after the other.
WipeSucceeds(d) ==
    /\ pc[d] = "wiping"
    /\ due' = due \ Reach(request[d].scope)
    /\ later' = IF request[d].scope = "all" THEN {} ELSE later
    /\ Go(d, "completing")
    /\ UNCHANGED <<barrier, people, row, request, armed, restarts>>

WipeFails(d) ==
    /\ pc[d] = "wiping"
    /\ \E done \in SUBSET Reach(request[d].scope) : due' = due \ done
    /\ Go(d, "leaving")
    /\ UNCHANGED <<barrier, people, row, request, armed, later, restarts>>

\* complete removes exactly the request this worker processed.
Complete(d) ==
    /\ pc[d] = "completing" /\ WriteLockFree
    /\ IF row.token = request[d].token
         THEN row' = NoRequest /\ Go(d, "clearing")
         ELSE Go(d, "leaving") /\ UNCHANGED row
    /\ UNCHANGED <<barrier, people, request, due, armed, later, restarts>>

CompletionFails(d) ==
    /\ pc[d] = "completing"
    /\ Go(d, "leaving")
    /\ UNCHANGED <<barrier, people, ledger, later, restarts>>

Clear(d) ==
    /\ pc[d] = "clearing"
    /\ pending' = FALSE
    /\ Go(d, "leaving")
    /\ UNCHANGED <<active, waitingDeletions, deleting, people, ledger, later, restarts>>

LeaveDeletion(d) ==
    /\ pc[d] = "leaving"
    /\ deleting' = FALSE
    /\ Go(d, "done")
    /\ UNCHANGED <<active, waitingDeletions, pending, people, ledger, later, restarts>>

\* A hard restart: resume_pending_privacy_deletions arms the barrier for the
\* durable request and replays it.
Restart ==
    /\ restarts < MaxRestarts /\ restarts' = restarts + 1
    /\ active' = 0 /\ deleting' = FALSE
    /\ at' = [a \in Actors |-> "idle"] /\ grp' = [a \in Actors |-> NoGroup]
    /\ pending' = (row.token # "none")
    /\ waitingDeletions' = IF row.token # "none" THEN 1 ELSE 0
    /\ pc' = [d \in Workers |->
                IF d = "boot" THEN IF row.token # "none" THEN "queued" ELSE "done"
                ELSE IF pc[d] = "idle" THEN "idle" ELSE "done"]
    /\ request' = [request EXCEPT !["boot"] = row]
    /\ armed' = IF row.token # "none" THEN armed \cup {row.token} ELSE armed
    /\ UNCHANGED <<turns, row, due, later>>

Activity(a) ==
    \/ SurfaceArrives(a) \/ Admit(a) \/ GiveUpWaiting(a) \/ Leave(a)
    \/ \E c \in Children : SpawnChild(a, c)
    \/ ChildEnters(a) \/ ChildIsCancelled(a)

Deletion(d) ==
    \/ \E scope \in {"memory", "all"} : Commit(d, scope)
    \/ Arm(d) \/ DrainFails(d) \/ Enqueue(d) \/ Own(d) \/ BeginWipe(d)
    \/ WipeSucceeds(d) \/ WipeFails(d) \/ Complete(d) \/ CompletionFails(d)
    \/ Clear(d) \/ LeaveDeletion(d)

Next ==
    \/ \E a \in Actors : Activity(a)
    \/ \E d \in Workers : Deletion(d)
    \/ Restart

Spec == Init /\ [][Next]_vars

\* Turns and tool calls end, and a confirmed deletion runs on, shielded from the
\* interaction that started it.
Fairness ==
    /\ \A a \in Actors : WF_vars(Leave(a))
    /\ \A d \in Workers :
          /\ WF_vars(pc[d] # "idle" /\ Deletion(d))
          /\ SF_vars(Own(d)) /\ SF_vars(Complete(d) \/ CompletionFails(d))

FairSpec == Spec /\ Fairness

-----------------------------------------------------------------------------
(* Properties.                                                              *)

TypeOK ==
    /\ active \in 0..Cardinality(Actors)
    /\ waitingDeletions \in 0..Cardinality(Workers)
    /\ deleting \in BOOLEAN /\ pending \in BOOLEAN
    /\ at \in [Actors -> {"idle", "waiting", "spawned", "in"}]
    /\ grp \in [Actors -> Groups] /\ turns \in [Actors -> 0..MaxTurns]
    /\ row \in Request /\ request \in [Workers -> Request]
    /\ pc \in [Workers -> {"idle", "committed", "draining", "queued", "owning", "wiping",
                           "completing", "clearing", "leaving", "done"}]
    /\ due \in SUBSET Kinds /\ armed \in SUBSET Deleters /\ later \in SUBSET Deleters
    /\ restarts \in 0..MaxRestarts

\* While a wipe runs, no surface, no joined child and no child left over from an
\* earlier turn is active, and no second wipe runs (privacy_barrier.py 3-7).
WipeIsAlone ==
    \A d \in Workers : pc[d] \in {"wiping", "completing", "clearing"} =>
        /\ \A a \in Actors : at[a] # "in"
        /\ \A e \in Workers \ {d} : pc[e] \notin {"owning", "wiping", "completing", "clearing", "leaving"}

\* A request disappears only when everything the user ever authorized has been
\* deleted since: scopes coalesce upwards and partial failures keep the row.
NothingAuthorizedIsDropped == row.token = "none" => due = {}

Spares(d) == pc[d] = "wiping" /\ request[d].scope = "all" => request[d].token \notin later
\* "later activity for that user remains blocked so a retry cannot unexpectedly
\* erase state created after the original request" (privacy_barrier.py 11-14), for
\* a request that no other confirmed deletion of the user overlaps, through
\* partial failures, crashes and replays.
LoneWipeSparesLaterState ==
    \A d \in Workers :
        (\A e \in Deleters \ {request[d].token} : pc[e] = "idle") => Spares(d)

\* A confirmed deletion drains what is running and comes to an end.
DeletionEnds == \A d \in Workers : pc[d] # "idle" ~> pc[d] = "done"

=============================================================================
