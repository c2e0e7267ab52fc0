----------------------- MODULE PrivacyDeletionProofs -----------------------
(***************************************************************************)
(* Proofs about PrivacyDeletion, for any finite sets of surfaces and       *)
(* children, any deleters and any number of restarts: a wipe is alone,     *)
(* nothing that was authorized is dropped, and a deletion that no other    *)
(* one overlaps spares what was created after its request.                 *)
(*                                                                         *)
(* The argument: active is the number of open groups, and one worker at a  *)
(* time owns the barrier.  The request in the row covers all that is due,  *)
(* and a worker that has wiped and still finds its own token there leaves  *)
(* nothing due.  From the moment a lone request arms the barrier until its *)
(* row is gone the user stays blocked.                                     *)
(***************************************************************************)
EXTENDS PrivacyDeletion, FiniteSetTheorems, TLAPS

Pcs == {"idle", "committed", "draining", "queued", "owning", "wiping", "completing", "clearing",
        "leaving", "done"}
Owning == {"owning", "wiping", "completing", "clearing", "leaving"}
Exclusive == {"wiping", "completing", "clearing"}
Before == {"committed", "draining", "queued", "owning", "wiping", "completing"}

Types ==
    /\ active \in Int /\ deleting \in BOOLEAN /\ pending \in BOOLEAN
    /\ at \in [Actors -> {"idle", "waiting", "spawned", "in"}]
    /\ grp \in [Actors -> (Actors \cup {"none"}) \X Nat] /\ turns \in [Actors -> Nat]
    /\ row \in Request /\ request \in [Workers -> Request] /\ pc \in [Workers -> Pcs]
    /\ due \in SUBSET Kinds /\ armed \in SUBSET Deleters /\ later \in SUBSET Deleters

\* The groups somebody is in, which active counts; the group of the next turn of a
\* surface is none of those that exist.
OpenGroups == {g \in (Actors \cup {"none"}) \X Nat : Open(g)}
Grouped ==
    /\ IsFiniteSet(OpenGroups) /\ active = Cardinality(OpenGroups)
    /\ \A a \in Actors : at[a] \in {"in", "spawned"} =>
          grp[a][1] \in Actors /\ grp[a][2] <= turns[grp[a][1]]

\* One worker owns the barrier; once it wipes, nobody is active.
Owned ==
    /\ \A d \in Workers : pc[d] \in Owning => deleting
    /\ \A d, e \in Workers : pc[d] \in Owning /\ pc[e] \in Owning => d = e
    /\ \A d \in Workers : pc[d] \in Exclusive => \A a \in Actors : at[a] # "in"

\* A worker that is going to use its request has one; a request nobody made yet is
\* named nowhere.
Fresh(e) == row.token # e /\ e \notin armed /\ \A d \in Workers : request[d].token # e
Working(d) == pc[d] \in Before \cup {"clearing"}
Named ==
    /\ \A e \in Deleters : pc[e] = "idle" => Fresh(e)
    /\ \A d \in Deleters : Working(d) => request[d].token = d
    /\ Working("boot") => request["boot"].token \in Deleters
    /\ pc["boot"] \notin {"committed", "draining"}

\* The row covers what is due, and a worker that has wiped for the request the row
\* names has left nothing due.
Ledger ==
    /\ due \subseteq (IF row.token = "none" THEN {} ELSE Reach(row.scope))
    /\ \A d \in Workers : request[d].token = row.token /\ row.token # "none" => request[d] = row
    /\ \A d \in Workers : pc[d] = "completing" /\ request[d].token = row.token => due = {}
    /\ \A d \in Workers : pc[d] = "clearing" => row.token = "none"

\* A request no other overlaps: from its arming on the user is blocked, until
\* nobody will wipe for it any more.
Lone(x) == \A e \in Deleters \ {x} : pc[e] = "idle"
Finished == row.token = "none" /\ \A d \in Workers : pc[d] \notin Before
Blocked ==
    /\ later \subseteq armed
    /\ \A x \in Deleters : Lone(x) =>
          /\ x \in armed /\ ~pending => Finished
          /\ x \in later => Finished
          /\ Working("boot") => pc[x] = "done"

IInv == Types /\ Grouped /\ Owned /\ Named /\ Ledger /\ Blocked

-----------------------------------------------------------------------------
(* What the two kinds of step leave alone.                                  *)

LEMMA ActivityEffect ==
    ASSUME NEW a \in Actors, Activity(a)
    PROVE  /\ deleting' = deleting /\ pending' = pending /\ row' = row /\ request' = request
           /\ due' = due /\ armed' = armed /\ pc' = pc
           /\ later' = later \/ (later' = later \cup armed /\ ~pending)
<1>1. CASE SurfaceArrives(a)
  BY <1>1 DEF SurfaceArrives, Queue, barrier, people, ledger
<1>2. CASE Admit(a)
  BY <1>2 DEF Admit, ledger
<1>3. CASE GiveUpWaiting(a) \/ Leave(a) \/ ChildIsCancelled(a)
  BY <1>3 DEF GiveUpWaiting, Leave, ChildIsCancelled, barrier, ledger
<1>4. ASSUME NEW c \in Children, SpawnChild(a, c)
      PROVE  UNCHANGED <<barrier, ledger, pc, later>>
  BY <1>4 DEF SpawnChild, ledger
<1>5. CASE ChildEnters(a)
  BY <1>5 DEF ChildEnters, Queue, barrier, people, ledger
<1>. QED
  BY <1>1, <1>2, <1>3, <1>4, <1>5 DEF Activity, barrier, ledger

\* Only an admitted turn, or a child of an open group, becomes active.
LEMMA EnteringEffect ==
    ASSUME NEW a \in Actors, Activity(a), at \in [Actors -> {"idle", "waiting", "spawned", "in"}],
           NEW b \in Actors, at'[b] = "in"
    PROVE  at[b] = "in" \/ ~deleting \/ \E c \in Actors : at[c] = "in"
<1>1. CASE SurfaceArrives(a)
  BY <1>1 DEF SurfaceArrives, Queue
<1>2. CASE Admit(a)
  BY <1>2 DEF Admit
<1>3. CASE GiveUpWaiting(a) \/ Leave(a) \/ ChildIsCancelled(a)
  BY <1>3 DEF GiveUpWaiting, Leave, ChildIsCancelled
<1>4. ASSUME NEW c \in Children, SpawnChild(a, c)
      PROVE  at[b] = "in"
  BY <1>4 DEF SpawnChild
<1>5. CASE ChildEnters(a)
  BY <1>5 DEF ChildEnters, Queue, Open, Members
<1>. QED
  BY <1>1, <1>2, <1>3, <1>4, <1>5 DEF Activity

LEMMA DeletionEffect ==
    ASSUME NEW d \in Workers, Deletion(d)
    PROVE  active' = active /\ at' = at /\ grp' = grp /\ turns' = turns
<1>1. ASSUME NEW scope \in {"memory", "all"}, Commit(d, scope)
      PROVE  UNCHANGED <<barrier, people>>
  BY <1>1 DEF Commit
<1>2. CASE Arm(d) \/ DrainFails(d) \/ Enqueue(d) \/ Own(d) \/ BeginWipe(d)
  BY <1>2 DEF Arm, DrainFails, Enqueue, Own, BeginWipe, barrier, people
<1>3. CASE WipeSucceeds(d) \/ WipeFails(d) \/ Complete(d) \/ CompletionFails(d)
  BY <1>3 DEF WipeSucceeds, WipeFails, Complete, CompletionFails, barrier, people
<1>4. CASE Clear(d) \/ LeaveDeletion(d)
  BY <1>4 DEF Clear, LeaveDeletion, people
<1>. QED
  BY <1>1, <1>2, <1>3, <1>4 DEF Deletion, barrier, people

-----------------------------------------------------------------------------
(* Groups.                                                                  *)

\* The groups of those who are in.
LEMMA MembersOpen ==
    ASSUME Types, NEW a \in Actors, at[a] = "in"
    PROVE  grp[a] \in OpenGroups
  BY DEF Types, OpenGroups, Open, Members

LEMMA IdleBarrier ==
    ASSUME Types, Grouped, active = 0
    PROVE  \A a \in Actors : at[a] # "in"
<1>1. OpenGroups = {}
  BY FS_EmptySet DEF Grouped
<1>. QED
  BY <1>1, MembersOpen

\* Nobody enters or leaves, and nobody who is in changes its group.
LEMMA SameGroups ==
    ASSUME \A a \in Actors : (at'[a] = "in" <=> at[a] = "in") /\ (at[a] = "in" => grp'[a] = grp[a])
    PROVE  OpenGroups' = OpenGroups
<1>1. \A g : Members(g)' = Members(g)
  BY DEF Members
<1>. QED
  BY <1>1 DEF OpenGroups, Open

-----------------------------------------------------------------------------
(* One lemma for each part of the invariant.                                *)

LEMMA TypesStep == IInv /\ [Next]_vars => Types'
<1>. SUFFICES ASSUME IInv, [Next]_vars PROVE Types'
  OBVIOUS
<1>. USE DEF IInv
<1>1. ASSUME NEW a \in Actors, Activity(a) PROVE Types'
  <2>1. deleting' \in BOOLEAN /\ pending' \in BOOLEAN /\ row' \in Request
        /\ request' \in [Workers -> Request] /\ pc' \in [Workers -> Pcs]
        /\ due' \in SUBSET Kinds /\ armed' \in SUBSET Deleters /\ later' \in SUBSET Deleters
    BY <1>1, ActivityEffect DEF Types
  <2>2. active' \in Int /\ at' \in [Actors -> {"idle", "waiting", "spawned", "in"}]
        /\ grp' \in [Actors -> (Actors \cup {"none"}) \X Nat] /\ turns' \in [Actors -> Nat]
    <3>1. CASE SurfaceArrives(a)
      BY <3>1 DEF SurfaceArrives, Queue, Types, barrier
    <3>2. CASE Admit(a)
      BY <3>2 DEF Admit, Types
    <3>3. CASE GiveUpWaiting(a) \/ Leave(a) \/ ChildIsCancelled(a)
      BY <3>3 DEF GiveUpWaiting, Leave, ChildIsCancelled, Types, barrier
    <3>4. ASSUME NEW c \in Children, SpawnChild(a, c)
          PROVE  /\ active' \in Int /\ at' \in [Actors -> {"idle", "waiting", "spawned", "in"}]
                 /\ grp' \in [Actors -> (Actors \cup {"none"}) \X Nat] /\ turns' \in [Actors -> Nat]
      BY <3>4 DEF SpawnChild, Types, barrier, Actors
    <3>5. CASE ChildEnters(a)
      BY <3>5 DEF ChildEnters, Queue, Types, barrier
    <3>. QED
      BY <1>1, <3>1, <3>2, <3>3, <3>4, <3>5 DEF Activity
  <2>. QED
    BY <2>1, <2>2 DEF Types
<1>2. ASSUME NEW d \in Workers, Deletion(d) PROVE Types'
  <2>1. ASSUME NEW scope \in {"memory", "all"}, Commit(d, scope) PROVE Types'
    BY <2>1 DEF Commit, Types, Go, barrier, people, ledger, Pcs, Request, NoRequest, Reach, Kinds, Workers
  <2>2. CASE Arm(d)
    BY <2>2 DEF Arm, Types, Named, Go, people, Pcs, Workers
  <2>3. CASE DrainFails(d)
    BY <2>3 DEF DrainFails, Types, Go, barrier, people, ledger, Pcs, Request, NoRequest, Reach, Kinds, Workers
  <2>4. CASE Enqueue(d)
    BY <2>4 DEF Enqueue, Types, Go, barrier, people, ledger, Pcs, Request, NoRequest, Reach, Kinds, Workers
  <2>5. CASE Own(d)
    BY <2>5 DEF Own, Types, Go, barrier, people, ledger, Pcs, Request, NoRequest, Reach, Kinds, Workers
  <2>6. CASE BeginWipe(d)
    BY <2>6 DEF BeginWipe, Types, Go, barrier, people, ledger, Pcs, Request, NoRequest, Reach, Kinds, Workers
  <2>7. CASE WipeSucceeds(d)
    BY <2>7 DEF WipeSucceeds, Types, Go, barrier, people, ledger, Pcs, Request, NoRequest, Reach, Kinds, Workers
  <2>8. CASE WipeFails(d)
    BY <2>8 DEF WipeFails, Types, Go, barrier, people, ledger, Pcs, Request, NoRequest, Reach, Kinds, Workers
  <2>9. CASE Complete(d)
    BY <2>9 DEF Complete, Types, Go, barrier, people, ledger, Pcs, Request, NoRequest, Reach, Kinds, Workers
  <2>10. CASE CompletionFails(d)
    BY <2>10 DEF CompletionFails, Types, Go, barrier, people, ledger, Pcs, Request, NoRequest, Reach, Kinds, Workers
  <2>11. CASE Clear(d)
    BY <2>11 DEF Clear, Types, Go, barrier, people, ledger, Pcs, Request, NoRequest, Reach, Kinds, Workers
  <2>12. CASE LeaveDeletion(d)
    BY <2>12 DEF LeaveDeletion, Types, Go, barrier, people, ledger, Pcs, Request, NoRequest, Reach, Kinds, Workers
  <2>. QED
    BY <1>2, <2>1, <2>2, <2>3, <2>4, <2>5, <2>6, <2>7, <2>8, <2>9, <2>10, <2>11, <2>12 DEF Deletion
<1>3. CASE Restart
  <2>1. row.token # "none" => row.token \in Deleters
    BY DEF Types, Request
  <2>2. request' \in [Workers -> Request] /\ armed' \in SUBSET Deleters
    BY <1>3, <2>1 DEF Restart, Types
  <2>3. pc' \in [Workers -> Pcs]
    BY <1>3 DEF Restart, Types, Pcs
  <2>4. at' \in [Actors -> {"idle", "waiting", "spawned", "in"}]
        /\ grp' \in [Actors -> (Actors \cup {"none"}) \X Nat]
    BY <1>3 DEF Restart, NoGroup
  <2>5. active' \in Int
    BY <1>3 DEF Restart
  <2>6. deleting' \in BOOLEAN /\ pending' \in BOOLEAN
    BY <1>3, ZenonT(60) DEF Restart
  <2>. QED
    BY <1>3, <2>2, <2>3, <2>4, <2>5, <2>6 DEF Restart, Types
<1>4. CASE UNCHANGED vars
  BY <1>4 DEF vars, Types, barrier, people, ledger
<1>. QED
  BY <1>1, <1>2, <1>3, <1>4 DEF Next

LEMMA OwnedStep == IInv /\ [Next]_vars => Owned'
<1>. SUFFICES ASSUME IInv, [Next]_vars PROVE Owned'
  OBVIOUS
<1>. USE DEF IInv
<1>1. ASSUME NEW a \in Actors, Activity(a) PROVE Owned'
  BY <1>1, ActivityEffect, EnteringEffect DEF Owned, Types, Owning, Exclusive, Workers
<1>2. ASSUME NEW d \in Workers, Deletion(d) PROVE Owned'
  <2>1. ASSUME NEW scope \in {"memory", "all"}, Commit(d, scope) PROVE Owned'
    BY <2>1 DEF Commit, Owned, Types, Go, barrier, people, ledger, Pcs, Owning, Exclusive
  <2>2. CASE Arm(d)
    BY <2>2 DEF Arm, Owned, Types, Go, barrier, people, ledger, Pcs, Owning, Exclusive
  <2>3. CASE DrainFails(d)
    BY <2>3 DEF DrainFails, Owned, Types, Go, barrier, people, ledger, Pcs, Owning, Exclusive
  <2>4. CASE Enqueue(d)
    BY <2>4 DEF Enqueue, Owned, Types, Go, barrier, people, ledger, Pcs, Owning, Exclusive
  <2>5. CASE Own(d)
    BY <2>5 DEF Own, Owned, Types, Go, barrier, people, ledger, Pcs, Owning, Exclusive
  <2>6. CASE BeginWipe(d)
    BY <2>6, IdleBarrier DEF BeginWipe, Owned, Types, Go, barrier, people, Owning, Exclusive
  <2>7. CASE WipeSucceeds(d)
    BY <2>7 DEF WipeSucceeds, Owned, Types, Go, barrier, people, ledger, Pcs, Owning, Exclusive
  <2>8. CASE WipeFails(d)
    BY <2>8 DEF WipeFails, Owned, Types, Go, barrier, people, ledger, Pcs, Owning, Exclusive
  <2>9. CASE Complete(d)
    BY <2>9 DEF Complete, Owned, Types, Go, barrier, people, ledger, Pcs, Owning, Exclusive
  <2>10. CASE CompletionFails(d)
    BY <2>10 DEF CompletionFails, Owned, Types, Go, barrier, people, ledger, Pcs, Owning, Exclusive
  <2>11. CASE Clear(d)
    BY <2>11 DEF Clear, Owned, Types, Go, barrier, people, ledger, Pcs, Owning, Exclusive
  <2>12. CASE LeaveDeletion(d)
    BY <2>12 DEF LeaveDeletion, Owned, Types, Go, barrier, people, ledger, Pcs, Owning, Exclusive
  <2>. QED
    BY <1>2, <2>1, <2>2, <2>3, <2>4, <2>5, <2>6, <2>7, <2>8, <2>9, <2>10, <2>11, <2>12 DEF Deletion
<1>3. CASE Restart
  BY <1>3 DEF Restart, Owned, Owning, Exclusive, Types
<1>4. CASE UNCHANGED vars
  BY <1>4 DEF vars, Owned, Types, barrier, people, ledger
<1>. QED
  BY <1>1, <1>2, <1>3, <1>4 DEF Next

LEMMA NamedStep == IInv /\ [Next]_vars => Named'
<1>. SUFFICES ASSUME IInv, [Next]_vars PROVE Named'
  OBVIOUS
<1>. USE DEF IInv
<1>1. ASSUME NEW a \in Actors, Activity(a) PROVE Named'
  BY <1>1, ActivityEffect DEF Named, Fresh, Working
<1>2. ASSUME NEW d \in Workers, Deletion(d) PROVE Named'
  <2>1. ASSUME NEW scope \in {"memory", "all"}, Commit(d, scope) PROVE Named'
    BY <2>1, PrivacyAssumption DEF Commit, Named, Fresh, Working, Before, Types, Go, barrier, people, ledger, Pcs, Workers
  <2>2. CASE Arm(d)
    BY <2>2, PrivacyAssumption DEF Arm, Named, Fresh, Working, Before, Types, Go, barrier, people, ledger, Pcs, Workers
  <2>3. CASE DrainFails(d)
    BY <2>3, PrivacyAssumption DEF DrainFails, Named, Fresh, Working, Before, Types, Go, barrier, people, ledger, Pcs, Workers
  <2>4. CASE Enqueue(d)
    BY <2>4, PrivacyAssumption DEF Enqueue, Named, Fresh, Working, Before, Types, Go, barrier, people, ledger, Pcs, Workers
  <2>5. CASE Own(d)
    BY <2>5, PrivacyAssumption DEF Own, Named, Fresh, Working, Before, Types, Go, barrier, people, ledger, Pcs, Workers
  <2>6. CASE BeginWipe(d)
    BY <2>6, PrivacyAssumption DEF BeginWipe, Named, Fresh, Working, Before, Types, Go, barrier, people, ledger, Pcs, Workers
  <2>7. CASE WipeSucceeds(d)
    BY <2>7, PrivacyAssumption DEF WipeSucceeds, Named, Fresh, Working, Before, Types, Go, barrier, people, ledger, Pcs, Workers
  <2>8. CASE WipeFails(d)
    BY <2>8, PrivacyAssumption DEF WipeFails, Named, Fresh, Working, Before, Types, Go, barrier, people, ledger, Pcs, Workers
  <2>9. CASE Complete(d)
    <3>1. row'.token \in {row.token, "none"} /\ request' = request /\ armed' = armed
      BY <2>9 DEF Complete, NoRequest
    <3>2. pc' = [pc EXCEPT ![d] = "clearing"] \/ pc' = [pc EXCEPT ![d] = "leaving"]
      BY <2>9 DEF Complete, Go
    <3>3. Working(d)
      BY <2>9 DEF Complete, Working, Before
    <3>. QED
      BY <3>1, <3>2, <3>3, PrivacyAssumption DEF Named, Fresh, Working, Before, Types, Workers
  <2>10. CASE CompletionFails(d)
    BY <2>10, PrivacyAssumption DEF CompletionFails, Named, Fresh, Working, Before, Types, Go, barrier, people, ledger, Pcs, Workers
  <2>11. CASE Clear(d)
    BY <2>11, PrivacyAssumption DEF Clear, Named, Fresh, Working, Before, Types, Go, barrier, people, ledger, Pcs, Workers
  <2>12. CASE LeaveDeletion(d)
    BY <2>12, PrivacyAssumption DEF LeaveDeletion, Named, Fresh, Working, Before, Types, Go, barrier, people, ledger, Pcs, Workers
  <2>. QED
    BY <1>2, <2>1, <2>2, <2>3, <2>4, <2>5, <2>6, <2>7, <2>8, <2>9, <2>10, <2>11, <2>12 DEF Deletion
<1>3. CASE Restart
  BY <1>3, PrivacyAssumption DEF Restart, Named, Fresh, Working, Before, Types, Request, Workers
<1>4. CASE UNCHANGED vars
  BY <1>4 DEF vars, Named, Fresh, Working, ledger
<1>. QED
  BY <1>1, <1>2, <1>3, <1>4 DEF Next

LEMMA LedgerStep == IInv /\ [Next]_vars => Ledger'
<1>. SUFFICES ASSUME IInv, [Next]_vars PROVE Ledger'
  OBVIOUS
<1>. USE DEF IInv
<1>1. ASSUME NEW a \in Actors, Activity(a) PROVE Ledger'
  BY <1>1, ActivityEffect DEF Ledger
<1>2. ASSUME NEW d \in Workers, Deletion(d) PROVE Ledger'
  <2>1. ASSUME NEW scope \in {"memory", "all"}, Commit(d, scope) PROVE Ledger'
    <3>1. d \in Deleters /\ pc[d] = "idle" /\ pc' = [pc EXCEPT ![d] = "committed"]
          /\ row'.token = d /\ request' = [request EXCEPT ![d] = row']
      BY <2>1 DEF Commit, Go
    <3>2. Fresh(d) /\ d # "none" /\ d \in Workers
      BY <3>1, PrivacyAssumption DEF Named, Workers
    <3>3. due' \subseteq Reach(row'.scope)
      BY <2>1 DEF Commit, Ledger, Types, Request, Reach, Kinds
    <3>4. \A e \in Workers : request'[e].token = row'.token => request'[e] = row'
      BY <3>1, <3>2 DEF Fresh, Types
    <3>5. \A e \in Workers : pc'[e] = "completing" => request'[e].token # row'.token
      BY <3>1, <3>2 DEF Fresh, Types
    <3>6. \A e \in Workers : pc'[e] # "clearing"
      BY <2>1, <3>1 DEF Commit, WriteLockFree, Types
    <3>. QED
      BY <3>1, <3>2, <3>3, <3>4, <3>5, <3>6 DEF Ledger
  <2>2. CASE Arm(d)
    BY <2>2, PrivacyAssumption DEF Arm, Ledger, Named, Fresh, Working, Before, Types, Go, ledger, Reach, Kinds, Request, NoRequest, Workers
  <2>3. CASE DrainFails(d)
    BY <2>3, PrivacyAssumption DEF DrainFails, Ledger, Named, Fresh, Working, Before, Types, Go, ledger, Reach, Kinds, Request, NoRequest, Workers
  <2>4. CASE Enqueue(d)
    BY <2>4, PrivacyAssumption DEF Enqueue, Ledger, Named, Fresh, Working, Before, Types, Go, ledger, Reach, Kinds, Request, NoRequest, Workers
  <2>5. CASE Own(d)
    BY <2>5, PrivacyAssumption DEF Own, Ledger, Named, Fresh, Working, Before, Types, Go, ledger, Reach, Kinds, Request, NoRequest, Workers
  <2>6. CASE BeginWipe(d)
    BY <2>6, PrivacyAssumption DEF BeginWipe, Ledger, Named, Fresh, Working, Before, Types, Go, ledger, Reach, Kinds, Request, NoRequest, Workers
  <2>7. CASE WipeSucceeds(d)
    BY <2>7, PrivacyAssumption DEF WipeSucceeds, Ledger, Named, Fresh, Working, Before, Types, Go, ledger, Reach, Kinds, Request, NoRequest, Workers
  <2>8. CASE WipeFails(d)
    BY <2>8, PrivacyAssumption DEF WipeFails, Ledger, Named, Fresh, Working, Before, Types, Go, ledger, Reach, Kinds, Request, NoRequest, Workers
  <2>9. CASE Complete(d)
    BY <2>9, PrivacyAssumption DEF Complete, Ledger, Named, Fresh, Working, Before, Types, Go, ledger, Reach, Kinds, Request, NoRequest, Workers
  <2>10. CASE CompletionFails(d)
    BY <2>10, PrivacyAssumption DEF CompletionFails, Ledger, Named, Fresh, Working, Before, Types, Go, ledger, Reach, Kinds, Request, NoRequest, Workers
  <2>11. CASE Clear(d)
    BY <2>11, PrivacyAssumption DEF Clear, Ledger, Named, Fresh, Working, Before, Types, Go, ledger, Reach, Kinds, Request, NoRequest, Workers
  <2>12. CASE LeaveDeletion(d)
    BY <2>12, PrivacyAssumption DEF LeaveDeletion, Ledger, Named, Fresh, Working, Before, Types, Go, ledger, Reach, Kinds, Request, NoRequest, Workers
  <2>. QED
    BY <1>2, <2>1, <2>2, <2>3, <2>4, <2>5, <2>6, <2>7, <2>8, <2>9, <2>10, <2>11, <2>12 DEF Deletion
<1>3. CASE Restart
  BY <1>3, PrivacyAssumption DEF Restart, Ledger, Types, Workers
<1>4. CASE UNCHANGED vars
  BY <1>4 DEF vars, Ledger, ledger
<1>. QED
  BY <1>1, <1>2, <1>3, <1>4 DEF Next

LEMMA BlockedStep == IInv /\ [Next]_vars => Blocked'
<1>. SUFFICES ASSUME IInv, [Next]_vars PROVE Blocked'
  OBVIOUS
<1>. USE DEF IInv
<1>1. ASSUME NEW a \in Actors, Activity(a) PROVE Blocked'
  BY <1>1, ActivityEffect DEF Blocked, Finished, Lone, Working
<1>2. ASSUME NEW d \in Workers, Deletion(d) PROVE Blocked'
  <2>1. ASSUME NEW scope \in {"memory", "all"}, Commit(d, scope) PROVE Blocked'
    BY <2>1, PrivacyAssumption DEF Commit, Blocked, Finished, Lone, Named, Fresh, Working, Before, Ledger, Types, Go, barrier, ledger, Workers, NoRequest
  <2>2. CASE Arm(d)
    BY <2>2, PrivacyAssumption DEF Arm, Blocked, Finished, Lone, Named, Fresh, Working, Before, Ledger, Types, Go, barrier, ledger, Workers, NoRequest
  <2>3. CASE DrainFails(d)
    BY <2>3, PrivacyAssumption DEF DrainFails, Blocked, Finished, Lone, Named, Fresh, Working, Before, Ledger, Types, Go, barrier, ledger, Workers, NoRequest
  <2>4. CASE Enqueue(d)
    BY <2>4, PrivacyAssumption DEF Enqueue, Blocked, Finished, Lone, Named, Fresh, Working, Before, Ledger, Types, Go, barrier, ledger, Workers, NoRequest
  <2>5. CASE Own(d)
    BY <2>5, PrivacyAssumption DEF Own, Blocked, Finished, Lone, Named, Fresh, Working, Before, Ledger, Types, Go, barrier, ledger, Workers, NoRequest
  <2>6. CASE BeginWipe(d)
    BY <2>6, PrivacyAssumption DEF BeginWipe, Blocked, Finished, Lone, Named, Fresh, Working, Before, Ledger, Types, Go, barrier, ledger, Workers, NoRequest
  <2>7. CASE WipeSucceeds(d)
    BY <2>7, PrivacyAssumption DEF WipeSucceeds, Blocked, Finished, Lone, Named, Fresh, Working, Before, Ledger, Types, Go, barrier, ledger, Workers, NoRequest
  <2>8. CASE WipeFails(d)
    BY <2>8, PrivacyAssumption DEF WipeFails, Blocked, Finished, Lone, Named, Fresh, Working, Before, Ledger, Types, Go, barrier, ledger, Workers, NoRequest
  <2>9. CASE Complete(d)
    BY <2>9, PrivacyAssumption DEF Complete, Blocked, Finished, Lone, Named, Fresh, Working, Before, Ledger, Types, Go, barrier, ledger, Workers, NoRequest
  <2>10. CASE CompletionFails(d)
    BY <2>10, PrivacyAssumption DEF CompletionFails, Blocked, Finished, Lone, Named, Fresh, Working, Before, Ledger, Types, Go, barrier, ledger, Workers, NoRequest
  <2>11. CASE Clear(d)
    BY <2>11, PrivacyAssumption DEF Clear, Blocked, Finished, Lone, Named, Fresh, Working, Before, Ledger, Types, Go, barrier, ledger, Workers, NoRequest
  <2>12. CASE LeaveDeletion(d)
    BY <2>12, PrivacyAssumption DEF LeaveDeletion, Blocked, Finished, Lone, Named, Fresh, Working, Before, Ledger, Types, Go, barrier, ledger, Workers, NoRequest
  <2>. QED
    BY <1>2, <2>1, <2>2, <2>3, <2>4, <2>5, <2>6, <2>7, <2>8, <2>9, <2>10, <2>11, <2>12 DEF Deletion
<1>3. CASE Restart
  BY <1>3, PrivacyAssumption DEF Restart, Blocked, Finished, Lone, Named, Fresh, Working, Before, Types, Request, Workers
<1>4. CASE UNCHANGED vars
  BY <1>4 DEF vars, Blocked, Finished, Lone, Working, barrier, ledger
<1>. QED
  BY <1>1, <1>2, <1>3, <1>4 DEF Next

\* Whoever is in, or may join, a group named by a surface's turn so far.
LEMMA GroupedStep == IInv /\ [Next]_vars => Grouped'
<1>. SUFFICES ASSUME IInv, [Next]_vars PROVE Grouped'
  OBVIOUS
<1>. USE DEF IInv
<1>. DEFINE Named1(a) == at[a] \in {"in", "spawned"} =>
                            grp[a][1] \in Actors /\ grp[a][2] <= turns[grp[a][1]]
<1>0. ASSUME OpenGroups' = OpenGroups, active' = active, \A a \in Actors : Named1(a)' PROVE Grouped'
  BY <1>0 DEF Grouped
<1>1. ASSUME NEW a \in Actors, Activity(a) PROVE Grouped'
  <2>1. CASE SurfaceArrives(a) \/ GiveUpWaiting(a) \/ ChildIsCancelled(a) \/ (ChildEnters(a) /\ ~Open(grp[a]))
    <3>1. /\ at[a] # "in" /\ grp' = grp /\ turns' = turns /\ active' = active
          /\ at' = [at EXCEPT ![a] = "idle"] \/ at' = [at EXCEPT ![a] = "waiting"]
      BY <2>1 DEF SurfaceArrives, GiveUpWaiting, ChildIsCancelled, ChildEnters, Queue, barrier
    <3>2. OpenGroups' = OpenGroups
      BY <3>1, SameGroups DEF Types
    <3>3. \A b \in Actors : Named1(b)'
      BY <3>1 DEF Grouped, Types
    <3>. QED
      BY <1>0, <3>1, <3>2, <3>3
  <2>2. CASE Admit(a)
    <3>0. PICK g : g = <<a, turns[a] + 1>>
      OBVIOUS
    <3>1. /\ at[a] = "waiting" /\ at' = [at EXCEPT ![a] = "in"] /\ grp' = [grp EXCEPT ![a] = g]
          /\ turns' = [turns EXCEPT ![a] = @ + 1] /\ active' = active + 1
      BY <2>2, <3>0 DEF Admit
    <3>2. g \in (Actors \cup {"none"}) \X Nat /\ turns[a] \in Nat
      BY <3>0 DEF Types
    <3>3. \A b \in Actors : at[b] \in {"in", "spawned"} => grp[b] # g
      BY <3>0, <3>2 DEF Grouped, Types
    <3>4. \A h : h # g => Members(h)' = Members(h)
      BY <3>1 DEF Members, Types
    <3>5. Members(g) = {} /\ Open(g)'
      BY <3>1, <3>3 DEF Members, Open, Types
    <3>6. OpenGroups' = OpenGroups \cup {g} /\ g \notin OpenGroups
      BY <3>2, <3>4, <3>5 DEF OpenGroups, Open
    <3>7. IsFiniteSet(OpenGroups') /\ active' = Cardinality(OpenGroups')
      BY <3>1, <3>6, FS_AddElement DEF Grouped
    <3>8. ASSUME NEW b \in Actors PROVE Named1(b)'
      <4>1. CASE b = a
        BY <3>0, <3>1, <3>2, <4>1 DEF Types
      <4>2. CASE b # a
        BY <3>1, <3>2, <4>2 DEF Types, Grouped
      <4>. QED
        BY <4>1, <4>2
    <3>. QED
      BY <3>7, <3>8 DEF Grouped
  <2>3. CASE Leave(a)
    <3>1. at[a] = "in" /\ at' = [at EXCEPT ![a] = "idle"] /\ grp' = grp /\ turns' = turns
      BY <2>3 DEF Leave
    <3>2. \A b \in Actors : Named1(b)'
      BY <3>1 DEF Grouped, Types
    <3>3. \A h : Members(h)' = Members(h) \ {a}
      BY <3>1 DEF Members, Types
    <3>4. \A h : h # grp[a] => a \notin Members(h)
      BY DEF Members
    <3>5. CASE Members(grp[a]) = {a}
      <4>1. OpenGroups' = OpenGroups \ {grp[a]}
        BY <3>3, <3>4, <3>5 DEF OpenGroups, Open
      <4>2. grp[a] \in OpenGroups
        BY <3>1, MembersOpen
      <4>3. IsFiniteSet(OpenGroups') /\ Cardinality(OpenGroups') = Cardinality(OpenGroups) - 1
        BY <4>1, <4>2, FS_RemoveElement DEF Grouped
      <4>4. active' = active - 1
        BY <2>3, <3>5 DEF Leave
      <4>. QED
        BY <3>2, <4>3, <4>4 DEF Grouped
    <3>6. CASE Members(grp[a]) # {a}
      <4>1. a \in Members(grp[a])
        BY <3>1 DEF Members
      <4>2. OpenGroups' = OpenGroups
        BY <3>3, <3>4, <3>6, <4>1 DEF OpenGroups, Open
      <4>3. active' = active
        BY <2>3, <3>6 DEF Leave, Types
      <4>. QED
        BY <1>0, <3>2, <4>2, <4>3
    <3>. QED
      BY <3>5, <3>6
  <2>4. ASSUME NEW c \in Children, SpawnChild(a, c) PROVE Grouped'
    <3>1. /\ at[a] = "in" /\ at[c] = "idle" /\ c \in Actors /\ turns' = turns /\ active' = active
          /\ at' = [at EXCEPT ![c] = "spawned"] /\ grp' = [grp EXCEPT ![c] = grp[a]]
      BY <2>4 DEF SpawnChild, barrier, Actors
    <3>2. OpenGroups' = OpenGroups
      BY <3>1, SameGroups DEF Types
    <3>3. \A b \in Actors : Named1(b)'
      BY <3>1 DEF Grouped, Types
    <3>. QED
      BY <1>0, <3>1, <3>2, <3>3
  <2>5. CASE ChildEnters(a) /\ Open(grp[a])
    <3>1. /\ at[a] = "spawned" /\ at' = [at EXCEPT ![a] = "in"]
          /\ grp' = grp /\ turns' = turns /\ active' = active
      BY <2>5 DEF ChildEnters, barrier
    <3>2. \A h : Members(h)' = IF h = grp[a] THEN Members(h) \cup {a} ELSE Members(h)
      BY <3>1 DEF Members, Types
    <3>3. OpenGroups' = OpenGroups
      BY <2>5, <3>2 DEF OpenGroups, Open
    <3>4. \A b \in Actors : Named1(b)'
      BY <3>1 DEF Grouped, Types
    <3>. QED
      BY <1>0, <3>1, <3>3, <3>4
  <2>. QED
    BY <1>1, <2>1, <2>2, <2>3, <2>4, <2>5 DEF Activity
<1>2. ASSUME NEW d \in Workers, Deletion(d) PROVE Grouped'
  <2>1. active' = active /\ at' = at /\ grp' = grp /\ turns' = turns
    BY <1>2, DeletionEffect
  <2>2. OpenGroups' = OpenGroups
    BY <2>1, SameGroups
  <2>. QED
    BY <2>1, <2>2 DEF Grouped
<1>3. CASE Restart
  <2>1. active' = 0 /\ \A a \in Actors : at'[a] = "idle"
    BY <1>3 DEF Restart
  <2>2. OpenGroups' = {}
    BY <2>1 DEF OpenGroups, Open, Members
  <2>. QED
    BY <2>1, <2>2, FS_EmptySet DEF Grouped
<1>4. CASE UNCHANGED vars
  <2>1. active' = active /\ at' = at /\ grp' = grp /\ turns' = turns
    BY <1>4 DEF vars, barrier, people
  <2>2. OpenGroups' = OpenGroups
    BY <2>1, SameGroups
  <2>. QED
    BY <2>1, <2>2 DEF Grouped
<1>. QED
  BY <1>1, <1>2, <1>3, <1>4 DEF Next

-----------------------------------------------------------------------------
(* The theorems.                                                            *)

LEMMA InitIInv == Init => IInv
<1>. SUFFICES ASSUME Init PROVE IInv
  OBVIOUS
<1>1. Types
  <2>1. NoRequest \in Request /\ NoGroup \in (Actors \cup {"none"}) \X Nat
    BY DEF NoGroup, NoRequest, Request
  <2>2. row \in Request /\ request \in [Workers -> Request] /\ pc \in [Workers -> Pcs]
    BY <2>1 DEF Init, Pcs
  <2>3. at \in [Actors -> {"idle", "waiting", "spawned", "in"}]
        /\ grp \in [Actors -> (Actors \cup {"none"}) \X Nat] /\ turns \in [Actors -> Nat]
    BY <2>1 DEF Init
  <2>4. active \in Int /\ due \in SUBSET Kinds /\ armed \in SUBSET Deleters /\ later \in SUBSET Deleters
    BY DEF Init
  <2>5. deleting \in BOOLEAN /\ pending \in BOOLEAN
    BY ZenonT(60) DEF Init
  <2>. QED
    BY <2>2, <2>3, <2>4, <2>5 DEF Types
<1>2. OpenGroups = {}
  BY DEF Init, OpenGroups, Open, Members
<1>3. Grouped
  BY <1>2, FS_EmptySet DEF Init, Grouped
<1>4. Owned
  BY DEF Init, Owned, Owning, Exclusive
<1>5. Named
  BY PrivacyAssumption DEF Init, Named, Fresh, Working, Before, NoRequest, Workers
<1>6. Ledger
  BY DEF Init, Ledger, NoRequest
<1>7. Blocked
  BY DEF Init, Blocked, Working, Before, Workers
<1>. QED
  BY <1>1, <1>3, <1>4, <1>5, <1>6, <1>7 DEF IInv

\* The conjunction of the parts is inductive.
THEOREM BarrierInvariant == Spec => []IInv
<1>1. Init => IInv
  BY InitIInv
<1>2. IInv /\ [Next]_vars => IInv'
  BY TypesStep, GroupedStep, OwnedStep, NamedStep, LedgerStep, BlockedStep DEF IInv
<1>. QED
  BY <1>1, <1>2, PTL DEF Spec

\* While a deletion wipes, no surface and no tool call of the user is active, and no
\* other deletion owns the barrier (deletion_lease).
THEOREM WipesAreAlone == Spec => []WipeIsAlone
<1>1. IInv => WipeIsAlone
  BY DEF IInv, Owned, WipeIsAlone, Owning, Exclusive
<1>. QED
  BY <1>1, BarrierInvariant, PTL

\* The durable request disappears only when nothing the user authorized for deletion
\* is left, through coalescing, partial failures and restarts.
THEOREM AuthorizedIsDeleted == Spec => []NothingAuthorizedIsDropped
<1>1. IInv => NothingAuthorizedIsDropped
  BY DEF IInv, Ledger, NothingAuthorizedIsDropped
<1>. QED
  BY <1>1, BarrierInvariant, PTL

\* A deletion that no other one overlaps never erases what the user created after
\* the request blocked him, however often it fails and is replayed.
THEOREM LaterStateIsSpared == Spec => []LoneWipeSparesLaterState
<1>1. ASSUME IInv, NEW d \in Workers, pc[d] = "wiping",
             \A e \in Deleters \ {request[d].token} : pc[e] = "idle"
      PROVE  request[d].token \notin later
  <2>1. request[d].token \in Deleters
    BY <1>1, PrivacyAssumption DEF IInv, Named, Working, Before, Workers
  <2>2. Lone(request[d].token) /\ ~Finished
    BY <1>1 DEF Lone, Finished, Before
  <2>. QED
    BY <1>1, <2>1, <2>2 DEF IInv, Blocked
<1>2. IInv => LoneWipeSparesLaterState
  BY <1>1 DEF LoneWipeSparesLaterState, Spares
<1>. QED
  BY <1>2, BarrierInvariant, PTL

=============================================================================
