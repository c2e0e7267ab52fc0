-------------------------- MODULE UserLocksProofs --------------------------
(***************************************************************************)
(* Proofs about UserLocks, for any finite sets of coroutines and any       *)
(* workspaces: the counters are exactly the leases that are held, the      *)
(* leases exclude one another and a sweep spares every writer.             *)
(*                                                                         *)
(* The argument: every counter is the size of the set of coroutines that   *)
(* hold its lease.  A step moves one coroutine, and changes each counter   *)
(* by what that move changes in its set; so a counter at zero, which is    *)
(* what the conditions look at, means that nobody is there.                *)
(***************************************************************************)
EXTENDS UserLocks, FiniteSetTheorems, TLAPS

\* The holders each counter counts.
Exclusive == {a \in Actors : InActivity(a) \/ at[a] = "barrier"}
Waiting == {a \in Sweepers : at[a] = "waiting"}
ActivityIn(w) == {a \in Actors : InActivity(a) /\ ws[a] = w}
DownloadIn(w) == {a \in Actors : InDownload(a) /\ ws[a] = w}
WriterIn(w) == {a \in Actors : InWriter(a) /\ ws[a] = w}

\* Where each kind of coroutine can be.
Positions ==
    /\ at \in [Actors -> Places] /\ ws \in [Actors -> Workspaces]
    /\ \A a \in Tools : at[a] \notin {"gate", "barrier"}
    /\ \A a \in Workers : at[a] # "queued"
    /\ \A a \in Children : at[a] \in {"idle", "inside"}
    /\ \A a \in Sweepers : at[a] \in {"idle", "waiting", "inside"}

Counters ==
    /\ activeWorkspaces \in [Workspaces -> Int] /\ reservations \in [Workspaces -> Int]
    /\ writers \in [Workspaces -> Int]
    /\ active = Cardinality(Exclusive) /\ waiters = Cardinality(Waiting)
    /\ \A w \in Workspaces : /\ activeWorkspaces[w] = Cardinality(ActivityIn(w))
                             /\ reservations[w] = Cardinality(DownloadIn(w))
                             /\ writers[w] = Cardinality(WriterIn(w))

UserLock ==
    /\ user \in [Workspaces -> Tools \cup Fetchers \cup {"none"}]
    /\ \A w \in Workspaces :
          user[w] # "none" => at[user[w]] \in {"inside", "gate", "barrier"} /\ ws[user[w]] = w

Sweeps ==
    /\ maintenance \in BOOLEAN /\ excluded \in SUBSET Workspaces
    /\ \A s \in Sweepers : at[s] = "inside" => maintenance
    /\ \A s, t \in Sweepers : at[s] = "inside" /\ at[t] = "inside" => s = t
    /\ maintenance => (\E s \in Sweepers : at[s] = "inside") /\ Exclusive = {}
    /\ maintenance => \A a \in Actors : InWriter(a) => ws[a] \in excluded

Writers ==
    \A a, b \in Actors :
        InWriter(a) /\ a # b /\ ws[a] = ws[b] =>
            /\ ~InActivity(b) /\ ~InDownload(b)
            /\ ~(a \in Workers /\ b \in Workers /\ InWriter(b))

IInv == Positions /\ Counters /\ UserLock /\ Sweeps /\ Writers

-----------------------------------------------------------------------------
(* Counting.                                                                *)

One(S, a) == IF a \in S THEN 1 ELSE 0

LEMMA CountMoves ==
    ASSUME NEW S \in SUBSET Actors, NEW T \in SUBSET Actors, NEW a \in Actors,
           \A b \in Actors \ {a} : b \in S <=> b \in T
    PROVE  Cardinality(T) = Cardinality(S) + One(T, a) - One(S, a)
<1>1. IsFiniteSet(S) /\ IsFiniteSet(T) /\ Cardinality(S) \in Nat /\ Cardinality(T) \in Nat
  BY ActorsAssumption, FS_Subset, FS_CardinalityType
<1>2. CASE a \in S /\ a \in T
  <2>1. S = T
    BY <1>2
  <2>. QED
    BY <1>1, <1>2, <2>1 DEF One
<1>3. CASE a \notin S /\ a \notin T
  <2>1. S = T
    BY <1>3
  <2>. QED
    BY <1>1, <1>3, <2>1 DEF One
<1>4. CASE a \notin S /\ a \in T
  <2>1. T = S \cup {a}
    BY <1>4
  <2>2. Cardinality(T) = Cardinality(S) + 1
    BY <1>1, <1>4, <2>1, FS_AddElement
  <2>. QED
    BY <1>1, <1>4, <2>2 DEF One
<1>5. CASE a \in S /\ a \notin T
  <2>1. T = S \ {a}
    BY <1>5
  <2>2. Cardinality(T) = Cardinality(S) - 1
    BY <1>1, <1>5, <2>1, FS_RemoveElement
  <2>. QED
    BY <1>1, <1>5, <2>2 DEF One
<1>. QED
  BY <1>2, <1>3, <1>4, <1>5

LEMMA ZeroIsEmpty ==
    ASSUME NEW S \in SUBSET Actors
    PROVE  Cardinality(S) \in Nat /\ (Cardinality(S) = 0 <=> S = {})
  BY ActorsAssumption, FS_Subset, FS_CardinalityType, FS_EmptySet

LEMMA Holders ==
    /\ Exclusive \in SUBSET Actors /\ Waiting \in SUBSET Actors
    /\ \A w \in Workspaces : /\ ActivityIn(w) \in SUBSET Actors /\ DownloadIn(w) \in SUBSET Actors
                             /\ WriterIn(w) \in SUBSET Actors
  BY DEF Exclusive, Waiting, ActivityIn, DownloadIn, WriterIn, Actors

\* A step of a alone, in which each counter follows its set.
Alone(a) ==
    /\ at' \in [Actors -> Places] /\ ws' \in [Actors -> Workspaces]
    /\ \A b \in Actors \ {a} : at'[b] = at[b] /\ ws'[b] = ws[b]
Follows(a) ==
    /\ active' = active + One(Exclusive', a) - One(Exclusive, a)
    /\ waiters' = waiters + One(Waiting', a) - One(Waiting, a)
    /\ activeWorkspaces' \in [Workspaces -> Int] /\ reservations' \in [Workspaces -> Int]
    /\ writers' \in [Workspaces -> Int]
    /\ \A w \in Workspaces :
          /\ activeWorkspaces'[w] = activeWorkspaces[w] + One(ActivityIn(w)', a) - One(ActivityIn(w), a)
          /\ reservations'[w] = reservations[w] + One(DownloadIn(w)', a) - One(DownloadIn(w), a)
          /\ writers'[w] = writers[w] + One(WriterIn(w)', a) - One(WriterIn(w), a)

LEMMA CountersFollow ==
    ASSUME Counters, NEW a \in Actors, Alone(a), Follows(a)
    PROVE  Counters'
<1>1. /\ Exclusive' \in SUBSET Actors /\ Waiting' \in SUBSET Actors
      /\ \A w \in Workspaces : /\ ActivityIn(w)' \in SUBSET Actors /\ DownloadIn(w)' \in SUBSET Actors
                               /\ WriterIn(w)' \in SUBSET Actors
  BY DEF Exclusive, Waiting, ActivityIn, DownloadIn, WriterIn, Actors
<1>2. \A b \in Actors \ {a} :
          /\ b \in Exclusive <=> b \in Exclusive'
          /\ b \in Waiting <=> b \in Waiting'
          /\ \A w \in Workspaces : /\ b \in ActivityIn(w) <=> b \in ActivityIn(w)'
                                   /\ b \in DownloadIn(w) <=> b \in DownloadIn(w)'
                                   /\ b \in WriterIn(w) <=> b \in WriterIn(w)'
  BY DEF Alone, Exclusive, Waiting, ActivityIn, DownloadIn, WriterIn, InActivity, InDownload, InWriter
<1>3. active' = Cardinality(Exclusive')
  <2>1. Cardinality(Exclusive') = Cardinality(Exclusive) + One(Exclusive', a) - One(Exclusive, a)
    BY <1>1, <1>2, Holders, CountMoves
  <2>. QED
    BY <2>1 DEF Counters, Follows
<1>4. waiters' = Cardinality(Waiting')
  <2>1. Cardinality(Waiting') = Cardinality(Waiting) + One(Waiting', a) - One(Waiting, a)
    BY <1>1, <1>2, Holders, CountMoves
  <2>. QED
    BY <2>1 DEF Counters, Follows
<1>5. ASSUME NEW w \in Workspaces
      PROVE  /\ activeWorkspaces'[w] = Cardinality(ActivityIn(w)')
             /\ reservations'[w] = Cardinality(DownloadIn(w)')
             /\ writers'[w] = Cardinality(WriterIn(w)')
  <2>1. Cardinality(ActivityIn(w)') = Cardinality(ActivityIn(w)) + One(ActivityIn(w)', a) - One(ActivityIn(w), a)
    BY <1>1, <1>2, Holders, CountMoves
  <2>2. Cardinality(DownloadIn(w)') = Cardinality(DownloadIn(w)) + One(DownloadIn(w)', a) - One(DownloadIn(w), a)
    BY <1>1, <1>2, Holders, CountMoves
  <2>3. Cardinality(WriterIn(w)') = Cardinality(WriterIn(w)) + One(WriterIn(w)', a) - One(WriterIn(w), a)
    BY <1>1, <1>2, Holders, CountMoves
  <2>. QED
    BY <2>1, <2>2, <2>3 DEF Counters, Follows
<1>. QED
  BY <1>3, <1>4, <1>5 DEF Counters, Follows

\* What a coroutine of each kind adds to each counter at its place.
Shares(a) ==
    /\ One(Exclusive, a) = IF InActivity(a) \/ at[a] = "barrier" THEN 1 ELSE 0
    /\ One(Waiting, a) = IF a \in Sweepers /\ at[a] = "waiting" THEN 1 ELSE 0
    /\ \A w \in Workspaces :
          /\ One(ActivityIn(w), a) = IF InActivity(a) /\ ws[a] = w THEN 1 ELSE 0
          /\ One(DownloadIn(w), a) = IF InDownload(a) /\ ws[a] = w THEN 1 ELSE 0
          /\ One(WriterIn(w), a) = IF InWriter(a) /\ ws[a] = w THEN 1 ELSE 0

LEMMA SharesOf == \A a \in Actors : Shares(a) /\ Shares(a)'
  BY DEF Shares, One, Exclusive, Waiting, ActivityIn, DownloadIn, WriterIn, Actors

\* Which kind a coroutine is of.
LEMMA KindOf ==
    /\ \A a \in Tools : a \in Actors /\ a \notin Fetchers \cup Workers \cup Children \cup Sweepers
    /\ \A a \in Fetchers : a \in Actors /\ a \notin Tools \cup Workers \cup Children \cup Sweepers
    /\ \A a \in Workers : a \in Actors /\ a \notin Tools \cup Fetchers \cup Children \cup Sweepers
    /\ \A a \in Children : a \in Actors /\ a \notin Tools \cup Fetchers \cup Workers \cup Sweepers
    /\ \A a \in Sweepers : a \in Actors /\ a \notin Tools \cup Fetchers \cup Workers \cup Children
    /\ \A a \in Actors : a # "none"
  BY ActorsAssumption DEF Actors

LEMMA GoesAlone ==
    ASSUME Positions, NEW a \in Actors, NEW place \in Places, Go(a, place), ws' = ws
    PROVE  Alone(a) /\ at'[a] = place
  BY DEF Positions, Alone, Go

LEMMA ArriveFollows ==
    ASSUME IInv, NEW a \in Actors, NEW w \in Workspaces, Arrive(a, w)
    PROVE  Alone(a) /\ Follows(a) /\ at'[a] = "waiting"
<1>1. Alone(a) /\ at'[a] = "waiting" /\ at[a] = "idle" /\ a \notin Children
  BY DEF IInv, Positions, Arrive, Alone, Go, Places
<1>2. Shares(a) /\ Shares(a)'
  BY SharesOf
<1>3. /\ ~InActivity(a) /\ ~InActivity(a)'
      /\ ~InDownload(a) /\ ~InDownload(a)'
      /\ ~InWriter(a) /\ ~InWriter(a)'
      /\ at[a] # "barrier" /\ at'[a] # "barrier"
  BY <1>1, KindOf DEF InActivity, InDownload, InWriter
<1>4. active' = active + One(Exclusive', a) - One(Exclusive, a)
  BY <1>1, <1>2, <1>3, ZeroIsEmpty, Holders DEF Shares, Arrive, IInv, Counters
<1>5. waiters' = waiters + One(Waiting', a) - One(Waiting, a)
  BY <1>1, <1>2, <1>3, ZeroIsEmpty, Holders DEF Shares, Arrive, gate, IInv, Counters
<1>6. ASSUME NEW v \in Workspaces
      PROVE  /\ activeWorkspaces'[v] = activeWorkspaces[v] + One(ActivityIn(v)', a) - One(ActivityIn(v), a)
             /\ reservations'[v] = reservations[v] + One(DownloadIn(v)', a) - One(DownloadIn(v), a)
             /\ writers'[v] = writers[v] + One(WriterIn(v)', a) - One(WriterIn(v), a)
  BY <1>1, <1>2, <1>3 DEF Shares, Arrive, Add, IInv, Counters
<1>. QED
  BY <1>1, <1>4, <1>5, <1>6 DEF Arrive, Add, Follows, IInv, Counters

LEMMA EnterActivityFollows ==
    ASSUME IInv, NEW a \in Actors, EnterActivity(a)
    PROVE  Alone(a) /\ Follows(a) /\ at'[a] = "queued"
<1>1. Alone(a) /\ at'[a] = "queued" /\ at[a] = "waiting" /\ a \in Tools /\ ws' = ws /\ ws[a] \in Workspaces
  BY GoesAlone DEF IInv, Positions, EnterActivity, Places
<1>2. Shares(a) /\ Shares(a)'
  BY SharesOf
<1>3. /\ ~InActivity(a) /\ InActivity(a)'
      /\ ~InDownload(a) /\ ~InDownload(a)'
      /\ ~InWriter(a) /\ ~InWriter(a)'
      /\ at[a] # "barrier" /\ at'[a] # "barrier"
      /\ a \notin Sweepers
  BY <1>1, KindOf DEF InActivity, InDownload, InWriter
<1>4. active' = active + One(Exclusive', a) - One(Exclusive, a)
  BY <1>1, <1>2, <1>3, ZeroIsEmpty, Holders DEF Shares, EnterActivity, IInv, Counters
<1>5. waiters' = waiters + One(Waiting', a) - One(Waiting, a)
  BY <1>1, <1>2, <1>3, ZeroIsEmpty, Holders DEF Shares, EnterActivity, gate, IInv, Counters
<1>6. ASSUME NEW v \in Workspaces
      PROVE  /\ activeWorkspaces'[v] = activeWorkspaces[v] + One(ActivityIn(v)', a) - One(ActivityIn(v), a)
             /\ reservations'[v] = reservations[v] + One(DownloadIn(v)', a) - One(DownloadIn(v), a)
             /\ writers'[v] = writers[v] + One(WriterIn(v)', a) - One(WriterIn(v), a)
  BY <1>1, <1>2, <1>3 DEF Shares, EnterActivity, Add, IInv, Counters
<1>. QED
  BY <1>1, <1>4, <1>5, <1>6 DEF EnterActivity, Add, Follows, IInv, Counters

LEMMA TakeUserLockFollows ==
    ASSUME IInv, NEW a \in Actors, TakeUserLock(a)
    PROVE  Alone(a) /\ Follows(a) /\ at'[a] = "inside"
<1>1. Alone(a) /\ at'[a] = "inside" /\ at[a] = "queued" /\ a \notin Workers \cup Children \cup Sweepers
      /\ ws' = ws /\ ws[a] \in Workspaces
  BY GoesAlone DEF IInv, Positions, TakeUserLock, Places
<1>2. Shares(a) /\ Shares(a)'
  BY SharesOf
<1>3. /\ (InActivity(a) <=> InActivity(a)')
      /\ (InDownload(a) <=> InDownload(a)')
      /\ ~InWriter(a) /\ ~InWriter(a)'
      /\ at[a] # "barrier" /\ at'[a] # "barrier"
      /\ a \notin Sweepers
  BY <1>1, KindOf DEF InActivity, InDownload, InWriter
<1>4. active' = active + One(Exclusive', a) - One(Exclusive, a)
  BY <1>1, <1>2, <1>3, ZeroIsEmpty, Holders DEF Shares, TakeUserLock, IInv, Counters
<1>5. waiters' = waiters + One(Waiting', a) - One(Waiting, a)
  BY <1>1, <1>2, <1>3, ZeroIsEmpty, Holders DEF Shares, TakeUserLock, gate, IInv, Counters
<1>6. ASSUME NEW v \in Workspaces
      PROVE  /\ activeWorkspaces'[v] = activeWorkspaces[v] + One(ActivityIn(v)', a) - One(ActivityIn(v), a)
             /\ reservations'[v] = reservations[v] + One(DownloadIn(v)', a) - One(DownloadIn(v), a)
             /\ writers'[v] = writers[v] + One(WriterIn(v)', a) - One(WriterIn(v), a)
  BY <1>1, <1>2, <1>3 DEF Shares, TakeUserLock, Add, IInv, Counters
<1>. QED
  BY <1>1, <1>4, <1>5, <1>6 DEF TakeUserLock, Add, Follows, IInv, Counters

LEMMA LeaveActivityFollows ==
    ASSUME IInv, NEW a \in Actors, LeaveActivity(a)
    PROVE  Alone(a) /\ Follows(a) /\ at'[a] = "idle"
<1>1. Alone(a) /\ at'[a] = "idle" /\ at[a] \in {"queued", "inside"} /\ a \in Tools /\ ws' = ws /\ ws[a] \in Workspaces
  BY GoesAlone DEF IInv, Positions, LeaveActivity, Places
<1>2. Shares(a) /\ Shares(a)'
  BY SharesOf
<1>3. /\ InActivity(a) /\ ~InActivity(a)'
      /\ ~InDownload(a) /\ ~InDownload(a)'
      /\ ~InWriter(a) /\ ~InWriter(a)'
      /\ at[a] # "barrier" /\ at'[a] # "barrier"
      /\ a \notin Sweepers
  BY <1>1, KindOf DEF InActivity, InDownload, InWriter
<1>4. active' = active + One(Exclusive', a) - One(Exclusive, a)
  BY <1>1, <1>2, <1>3, ZeroIsEmpty, Holders DEF Shares, LeaveActivity, IInv, Counters
<1>5. waiters' = waiters + One(Waiting', a) - One(Waiting, a)
  BY <1>1, <1>2, <1>3, ZeroIsEmpty, Holders DEF Shares, LeaveActivity, gate, IInv, Counters
<1>6. ASSUME NEW v \in Workspaces
      PROVE  /\ activeWorkspaces'[v] = activeWorkspaces[v] + One(ActivityIn(v)', a) - One(ActivityIn(v), a)
             /\ reservations'[v] = reservations[v] + One(DownloadIn(v)', a) - One(DownloadIn(v), a)
             /\ writers'[v] = writers[v] + One(WriterIn(v)', a) - One(WriterIn(v), a)
  BY <1>1, <1>2, <1>3 DEF Shares, LeaveActivity, Add, IInv, Counters
<1>. QED
  BY <1>1, <1>4, <1>5, <1>6 DEF LeaveActivity, Add, Follows, IInv, Counters

LEMMA EnterWriterFollows ==
    ASSUME IInv, NEW a \in Actors, EnterWriter(a)
    PROVE  Alone(a) /\ Follows(a) /\ at'[a] = "inside"
<1>1. Alone(a) /\ at'[a] = "inside" /\ at[a] = "waiting" /\ a \in Workers /\ ws' = ws /\ ws[a] \in Workspaces
  BY GoesAlone DEF IInv, Positions, EnterWriter, Places
<1>2. Shares(a) /\ Shares(a)'
  BY SharesOf
<1>3. /\ ~InActivity(a) /\ ~InActivity(a)'
      /\ ~InDownload(a) /\ ~InDownload(a)'
      /\ ~InWriter(a) /\ InWriter(a)'
      /\ at[a] # "barrier" /\ at'[a] # "barrier"
      /\ a \notin Sweepers
  BY <1>1, KindOf DEF InActivity, InDownload, InWriter
<1>4. active' = active + One(Exclusive', a) - One(Exclusive, a)
  BY <1>1, <1>2, <1>3, ZeroIsEmpty, Holders DEF Shares, EnterWriter, IInv, Counters
<1>5. waiters' = waiters + One(Waiting', a) - One(Waiting, a)
  BY <1>1, <1>2, <1>3, ZeroIsEmpty, Holders DEF Shares, EnterWriter, gate, IInv, Counters
<1>6. ASSUME NEW v \in Workspaces
      PROVE  /\ activeWorkspaces'[v] = activeWorkspaces[v] + One(ActivityIn(v)', a) - One(ActivityIn(v), a)
             /\ reservations'[v] = reservations[v] + One(DownloadIn(v)', a) - One(DownloadIn(v), a)
             /\ writers'[v] = writers[v] + One(WriterIn(v)', a) - One(WriterIn(v), a)
  BY <1>1, <1>2, <1>3 DEF Shares, EnterWriter, Add, IInv, Counters
<1>. QED
  BY <1>1, <1>4, <1>5, <1>6 DEF EnterWriter, Add, Follows, IInv, Counters

LEMMA EnterReferenceFollows ==
    ASSUME IInv, NEW a \in Actors, NEW w \in Workspaces, EnterReference(a, w)
    PROVE  Alone(a) /\ Follows(a) /\ at'[a] = "inside"
<1>1. Alone(a) /\ at'[a] = "inside" /\ at[a] = "idle" /\ a \in Children /\ ws'[a] = w
  BY DEF IInv, Positions, EnterReference, Alone, Go, Places
<1>2. Shares(a) /\ Shares(a)'
  BY SharesOf
<1>3. /\ ~InActivity(a) /\ ~InActivity(a)'
      /\ ~InDownload(a) /\ ~InDownload(a)'
      /\ ~InWriter(a) /\ InWriter(a)'
      /\ at[a] # "barrier" /\ at'[a] # "barrier"
      /\ a \notin Sweepers
  BY <1>1, KindOf DEF InActivity, InDownload, InWriter
<1>4. active' = active + One(Exclusive', a) - One(Exclusive, a)
  BY <1>1, <1>2, <1>3, ZeroIsEmpty, Holders DEF Shares, EnterReference, IInv, Counters
<1>5. waiters' = waiters + One(Waiting', a) - One(Waiting, a)
  BY <1>1, <1>2, <1>3, ZeroIsEmpty, Holders DEF Shares, EnterReference, gate, IInv, Counters
<1>6. ASSUME NEW v \in Workspaces
      PROVE  /\ activeWorkspaces'[v] = activeWorkspaces[v] + One(ActivityIn(v)', a) - One(ActivityIn(v), a)
             /\ reservations'[v] = reservations[v] + One(DownloadIn(v)', a) - One(DownloadIn(v), a)
             /\ writers'[v] = writers[v] + One(WriterIn(v)', a) - One(WriterIn(v), a)
  BY <1>1, <1>2, <1>3 DEF Shares, EnterReference, Add, IInv, Counters
<1>. QED
  BY <1>1, <1>4, <1>5, <1>6 DEF EnterReference, Add, Follows, IInv, Counters

LEMMA LeaveWriterFollows ==
    ASSUME IInv, NEW a \in Actors, LeaveWriter(a)
    PROVE  Alone(a) /\ Follows(a) /\ at'[a] = "idle"
<1>1. Alone(a) /\ at'[a] = "idle" /\ at[a] \in {"inside", "gate", "barrier"} /\ ws' = ws /\ ws[a] \in Workspaces
      /\ (a \in Workers \/ (a \in Children /\ at[a] = "inside"))
  BY GoesAlone DEF IInv, Positions, LeaveWriter, Places
<1>2. Shares(a) /\ Shares(a)'
  BY SharesOf
<1>3. /\ ~InActivity(a) /\ ~InActivity(a)'
      /\ ~InDownload(a) /\ ~InDownload(a)'
      /\ InWriter(a) /\ ~InWriter(a)'
      /\ at'[a] # "barrier"
      /\ a \notin Sweepers
  BY <1>1, KindOf DEF InActivity, InDownload, InWriter
<1>4. active' = active + One(Exclusive', a) - One(Exclusive, a)
  BY <1>1, <1>2, <1>3, ZeroIsEmpty, Holders DEF Shares, LeaveWriter, IInv, Counters
<1>5. waiters' = waiters + One(Waiting', a) - One(Waiting, a)
  BY <1>1, <1>2, <1>3, ZeroIsEmpty, Holders DEF Shares, LeaveWriter, gate, IInv, Counters
<1>6. ASSUME NEW v \in Workspaces
      PROVE  /\ activeWorkspaces'[v] = activeWorkspaces[v] + One(ActivityIn(v)', a) - One(ActivityIn(v), a)
             /\ reservations'[v] = reservations[v] + One(DownloadIn(v)', a) - One(DownloadIn(v), a)
             /\ writers'[v] = writers[v] + One(WriterIn(v)', a) - One(WriterIn(v), a)
  BY <1>1, <1>2, <1>3 DEF Shares, LeaveWriter, Add, IInv, Counters
<1>. QED
  BY <1>1, <1>4, <1>5, <1>6 DEF LeaveWriter, Add, Follows, IInv, Counters

LEMMA EnterSerializedFollows ==
    ASSUME IInv, NEW a \in Actors, EnterSerialized(a)
    PROVE  Alone(a) /\ Follows(a) /\ at'[a] = "queued"
<1>1. Alone(a) /\ at'[a] = "queued" /\ at[a] = "waiting" /\ a \in Fetchers /\ ws' = ws /\ ws[a] \in Workspaces
  BY GoesAlone DEF IInv, Positions, EnterSerialized, Places
<1>2. Shares(a) /\ Shares(a)'
  BY SharesOf
<1>3. /\ ~InActivity(a) /\ ~InActivity(a)'
      /\ ~InDownload(a) /\ InDownload(a)'
      /\ ~InWriter(a) /\ ~InWriter(a)'
      /\ at[a] # "barrier" /\ at'[a] # "barrier"
      /\ a \notin Sweepers
  BY <1>1, KindOf DEF InActivity, InDownload, InWriter
<1>4. active' = active + One(Exclusive', a) - One(Exclusive, a)
  BY <1>1, <1>2, <1>3, ZeroIsEmpty, Holders DEF Shares, EnterSerialized, IInv, Counters
<1>5. waiters' = waiters + One(Waiting', a) - One(Waiting, a)
  BY <1>1, <1>2, <1>3, ZeroIsEmpty, Holders DEF Shares, EnterSerialized, gate, IInv, Counters
<1>6. ASSUME NEW v \in Workspaces
      PROVE  /\ activeWorkspaces'[v] = activeWorkspaces[v] + One(ActivityIn(v)', a) - One(ActivityIn(v), a)
             /\ reservations'[v] = reservations[v] + One(DownloadIn(v)', a) - One(DownloadIn(v), a)
             /\ writers'[v] = writers[v] + One(WriterIn(v)', a) - One(WriterIn(v), a)
  BY <1>1, <1>2, <1>3 DEF Shares, EnterSerialized, Add, IInv, Counters
<1>. QED
  BY <1>1, <1>4, <1>5, <1>6 DEF EnterSerialized, Add, Follows, IInv, Counters

LEMMA ReachBarrierFollows ==
    ASSUME IInv, NEW a \in Actors, ReachBarrier(a)
    PROVE  Alone(a) /\ Follows(a) /\ at'[a] = "gate"
<1>1. Alone(a) /\ at'[a] = "gate" /\ (a \in Fetchers \/ a \in Workers) /\ at[a] = "inside" /\ ws' = ws /\ ws[a] \in Workspaces
  BY GoesAlone DEF IInv, Positions, ReachBarrier, Places
<1>2. Shares(a) /\ Shares(a)'
  BY SharesOf
<1>3. /\ ~InActivity(a) /\ ~InActivity(a)'
      /\ (InDownload(a) <=> InDownload(a)')
      /\ (InWriter(a) <=> InWriter(a)')
      /\ at[a] # "barrier" /\ at'[a] # "barrier"
      /\ a \notin Sweepers
  BY <1>1, KindOf DEF InActivity, InDownload, InWriter
<1>4. active' = active + One(Exclusive', a) - One(Exclusive, a)
  BY <1>1, <1>2, <1>3, ZeroIsEmpty, Holders DEF Shares, ReachBarrier, IInv, Counters
<1>5. waiters' = waiters + One(Waiting', a) - One(Waiting, a)
  BY <1>1, <1>2, <1>3, ZeroIsEmpty, Holders DEF Shares, ReachBarrier, gate, IInv, Counters
<1>6. ASSUME NEW v \in Workspaces
      PROVE  /\ activeWorkspaces'[v] = activeWorkspaces[v] + One(ActivityIn(v)', a) - One(ActivityIn(v), a)
             /\ reservations'[v] = reservations[v] + One(DownloadIn(v)', a) - One(DownloadIn(v), a)
             /\ writers'[v] = writers[v] + One(WriterIn(v)', a) - One(WriterIn(v), a)
  BY <1>1, <1>2, <1>3 DEF Shares, ReachBarrier, Add, IInv, Counters
<1>. QED
  BY <1>1, <1>4, <1>5, <1>6 DEF ReachBarrier, Add, Follows, IInv, Counters

LEMMA EnterBarrierFollows ==
    ASSUME IInv, NEW a \in Actors, EnterBarrier(a)
    PROVE  Alone(a) /\ Follows(a) /\ at'[a] = "barrier"
<1>1. Alone(a) /\ at'[a] = "barrier" /\ (a \in Fetchers \/ a \in Workers) /\ at[a] = "gate" /\ ws' = ws /\ ws[a] \in Workspaces
  BY GoesAlone DEF IInv, Positions, EnterBarrier, Places, Actors
<1>2. Shares(a) /\ Shares(a)'
  BY SharesOf
<1>3. /\ ~InActivity(a) /\ ~InActivity(a)'
      /\ (InDownload(a) <=> InDownload(a)')
      /\ (InWriter(a) <=> InWriter(a)')
      /\ at[a] # "barrier"
      /\ a \notin Sweepers
  BY <1>1, KindOf DEF InActivity, InDownload, InWriter
<1>4. active' = active + One(Exclusive', a) - One(Exclusive, a)
  BY <1>1, <1>2, <1>3, ZeroIsEmpty, Holders DEF Shares, EnterBarrier, IInv, Counters
<1>5. waiters' = waiters + One(Waiting', a) - One(Waiting, a)
  BY <1>1, <1>2, <1>3, ZeroIsEmpty, Holders DEF Shares, EnterBarrier, gate, IInv, Counters
<1>6. ASSUME NEW v \in Workspaces
      PROVE  /\ activeWorkspaces'[v] = activeWorkspaces[v] + One(ActivityIn(v)', a) - One(ActivityIn(v), a)
             /\ reservations'[v] = reservations[v] + One(DownloadIn(v)', a) - One(DownloadIn(v), a)
             /\ writers'[v] = writers[v] + One(WriterIn(v)', a) - One(WriterIn(v), a)
  BY <1>1, <1>2, <1>3 DEF Shares, EnterBarrier, Add, IInv, Counters
<1>. QED
  BY <1>1, <1>4, <1>5, <1>6 DEF EnterBarrier, Add, Follows, IInv, Counters

LEMMA LeaveBarrierFollows ==
    ASSUME IInv, NEW a \in Actors, LeaveBarrier(a)
    PROVE  Alone(a) /\ Follows(a) /\ at'[a] = "inside"
<1>1. Alone(a) /\ at'[a] = "inside" /\ (a \in Fetchers \/ a \in Workers) /\ at[a] = "barrier" /\ ws' = ws /\ ws[a] \in Workspaces
  BY GoesAlone DEF IInv, Positions, LeaveBarrier, Places, Actors
<1>2. Shares(a) /\ Shares(a)'
  BY SharesOf
<1>3. /\ ~InActivity(a) /\ ~InActivity(a)'
      /\ (InDownload(a) <=> InDownload(a)')
      /\ (InWriter(a) <=> InWriter(a)')
      /\ at'[a] # "barrier"
      /\ a \notin Sweepers
  BY <1>1, KindOf DEF InActivity, InDownload, InWriter
<1>4. active' = active + One(Exclusive', a) - One(Exclusive, a)
  BY <1>1, <1>2, <1>3, ZeroIsEmpty, Holders DEF Shares, LeaveBarrier, IInv, Counters
<1>5. waiters' = waiters + One(Waiting', a) - One(Waiting, a)
  BY <1>1, <1>2, <1>3, ZeroIsEmpty, Holders DEF Shares, LeaveBarrier, gate, IInv, Counters
<1>6. ASSUME NEW v \in Workspaces
      PROVE  /\ activeWorkspaces'[v] = activeWorkspaces[v] + One(ActivityIn(v)', a) - One(ActivityIn(v), a)
             /\ reservations'[v] = reservations[v] + One(DownloadIn(v)', a) - One(DownloadIn(v), a)
             /\ writers'[v] = writers[v] + One(WriterIn(v)', a) - One(WriterIn(v), a)
  BY <1>1, <1>2, <1>3 DEF Shares, LeaveBarrier, Add, IInv, Counters
<1>. QED
  BY <1>1, <1>4, <1>5, <1>6 DEF LeaveBarrier, Add, Follows, IInv, Counters

LEMMA LeaveSerializedFollows ==
    ASSUME IInv, NEW a \in Actors, LeaveSerialized(a)
    PROVE  Alone(a) /\ Follows(a) /\ at'[a] = "idle"
<1>1. Alone(a) /\ at'[a] = "idle" /\ a \in Fetchers /\ at[a] \in {"queued", "inside", "gate", "barrier"}
      /\ ws' = ws /\ ws[a] \in Workspaces
  BY GoesAlone DEF IInv, Positions, LeaveSerialized, Places
<1>2. Shares(a) /\ Shares(a)'
  BY SharesOf
<1>3. /\ ~InActivity(a) /\ ~InActivity(a)'
      /\ InDownload(a) /\ ~InDownload(a)'
      /\ ~InWriter(a) /\ ~InWriter(a)'
      /\ at'[a] # "barrier"
      /\ a \notin Sweepers
  BY <1>1, KindOf DEF InActivity, InDownload, InWriter
<1>4. active' = active + One(Exclusive', a) - One(Exclusive, a)
  BY <1>1, <1>2, <1>3, ZeroIsEmpty, Holders DEF Shares, LeaveSerialized, IInv, Counters
<1>5. waiters' = waiters + One(Waiting', a) - One(Waiting, a)
  BY <1>1, <1>2, <1>3, ZeroIsEmpty, Holders DEF Shares, LeaveSerialized, gate, IInv, Counters
<1>6. ASSUME NEW v \in Workspaces
      PROVE  /\ activeWorkspaces'[v] = activeWorkspaces[v] + One(ActivityIn(v)', a) - One(ActivityIn(v), a)
             /\ reservations'[v] = reservations[v] + One(DownloadIn(v)', a) - One(DownloadIn(v), a)
             /\ writers'[v] = writers[v] + One(WriterIn(v)', a) - One(WriterIn(v), a)
  BY <1>1, <1>2, <1>3 DEF Shares, LeaveSerialized, Add, IInv, Counters
<1>. QED
  BY <1>1, <1>4, <1>5, <1>6 DEF LeaveSerialized, Add, Follows, IInv, Counters

LEMMA EnterMaintenanceFollows ==
    ASSUME IInv, NEW a \in Actors, EnterMaintenance(a)
    PROVE  Alone(a) /\ Follows(a) /\ at'[a] = "inside"
<1>1. Alone(a) /\ at'[a] = "inside" /\ a \in Sweepers /\ at[a] = "waiting" /\ ws' = ws /\ ws[a] \in Workspaces
  BY GoesAlone DEF IInv, Positions, EnterMaintenance, Places
<1>2. Shares(a) /\ Shares(a)'
  BY SharesOf
<1>3. /\ ~InActivity(a) /\ ~InActivity(a)'
      /\ ~InDownload(a) /\ ~InDownload(a)'
      /\ ~InWriter(a) /\ ~InWriter(a)'
      /\ at[a] # "barrier" /\ at'[a] # "barrier"
  BY <1>1, KindOf DEF InActivity, InDownload, InWriter
<1>4. active' = active + One(Exclusive', a) - One(Exclusive, a)
  BY <1>1, <1>2, <1>3, ZeroIsEmpty, Holders DEF Shares, EnterMaintenance, IInv, Counters
<1>5. waiters' = waiters + One(Waiting', a) - One(Waiting, a)
  BY <1>1, <1>2, <1>3, ZeroIsEmpty, Holders DEF Shares, EnterMaintenance, gate, IInv, Counters
<1>6. ASSUME NEW v \in Workspaces
      PROVE  /\ activeWorkspaces'[v] = activeWorkspaces[v] + One(ActivityIn(v)', a) - One(ActivityIn(v), a)
             /\ reservations'[v] = reservations[v] + One(DownloadIn(v)', a) - One(DownloadIn(v), a)
             /\ writers'[v] = writers[v] + One(WriterIn(v)', a) - One(WriterIn(v), a)
  BY <1>1, <1>2, <1>3 DEF Shares, EnterMaintenance, Add, IInv, Counters
<1>. QED
  BY <1>1, <1>4, <1>5, <1>6 DEF EnterMaintenance, Add, Follows, IInv, Counters

LEMMA LeaveMaintenanceFollows ==
    ASSUME IInv, NEW a \in Actors, LeaveMaintenance(a)
    PROVE  Alone(a) /\ Follows(a) /\ at'[a] = "idle"
<1>1. Alone(a) /\ at'[a] = "idle" /\ a \in Sweepers /\ at[a] = "inside" /\ ws' = ws /\ ws[a] \in Workspaces
  BY GoesAlone DEF IInv, Positions, LeaveMaintenance, Places
<1>2. Shares(a) /\ Shares(a)'
  BY SharesOf
<1>3. /\ ~InActivity(a) /\ ~InActivity(a)'
      /\ ~InDownload(a) /\ ~InDownload(a)'
      /\ ~InWriter(a) /\ ~InWriter(a)'
      /\ at[a] # "barrier" /\ at'[a] # "barrier"
  BY <1>1, KindOf DEF InActivity, InDownload, InWriter
<1>4. active' = active + One(Exclusive', a) - One(Exclusive, a)
  BY <1>1, <1>2, <1>3, ZeroIsEmpty, Holders DEF Shares, LeaveMaintenance, IInv, Counters
<1>5. waiters' = waiters + One(Waiting', a) - One(Waiting, a)
  BY <1>1, <1>2, <1>3, ZeroIsEmpty, Holders DEF Shares, LeaveMaintenance, gate, IInv, Counters
<1>6. ASSUME NEW v \in Workspaces
      PROVE  /\ activeWorkspaces'[v] = activeWorkspaces[v] + One(ActivityIn(v)', a) - One(ActivityIn(v), a)
             /\ reservations'[v] = reservations[v] + One(DownloadIn(v)', a) - One(DownloadIn(v), a)
             /\ writers'[v] = writers[v] + One(WriterIn(v)', a) - One(WriterIn(v), a)
  BY <1>1, <1>2, <1>3 DEF Shares, LeaveMaintenance, Add, IInv, Counters
<1>. QED
  BY <1>1, <1>4, <1>5, <1>6 DEF LeaveMaintenance, Add, Follows, IInv, Counters

LEMMA CancelWaitingFollows ==
    ASSUME IInv, NEW a \in Actors, CancelWaiting(a)
    PROVE  Alone(a) /\ Follows(a) /\ at'[a] = "idle"
<1>1. Alone(a) /\ at'[a] = "idle" /\ at[a] = "waiting" /\ ws' = ws /\ ws[a] \in Workspaces
  BY GoesAlone DEF IInv, Positions, CancelWaiting, Places
<1>2. Shares(a) /\ Shares(a)'
  BY SharesOf
<1>3. /\ ~InActivity(a) /\ ~InActivity(a)'
      /\ ~InDownload(a) /\ ~InDownload(a)'
      /\ ~InWriter(a) /\ ~InWriter(a)'
      /\ at[a] # "barrier" /\ at'[a] # "barrier"
  BY <1>1, KindOf DEF InActivity, InDownload, InWriter
<1>4. active' = active + One(Exclusive', a) - One(Exclusive, a)
  BY <1>1, <1>2, <1>3, ZeroIsEmpty, Holders DEF Shares, CancelWaiting, IInv, Counters
<1>5. waiters' = waiters + One(Waiting', a) - One(Waiting, a)
  BY <1>1, <1>2, <1>3, ZeroIsEmpty, Holders DEF Shares, CancelWaiting, gate, IInv, Counters
<1>6. ASSUME NEW v \in Workspaces
      PROVE  /\ activeWorkspaces'[v] = activeWorkspaces[v] + One(ActivityIn(v)', a) - One(ActivityIn(v), a)
             /\ reservations'[v] = reservations[v] + One(DownloadIn(v)', a) - One(DownloadIn(v), a)
             /\ writers'[v] = writers[v] + One(WriterIn(v)', a) - One(WriterIn(v), a)
  BY <1>1, <1>2, <1>3 DEF Shares, CancelWaiting, Add, IInv, Counters
<1>. QED
  BY <1>1, <1>4, <1>5, <1>6 DEF CancelWaiting, Add, Follows, IInv, Counters

-----------------------------------------------------------------------------
\* What a counter at zero tells a condition.
LEMMA NobodyThere ==
    ASSUME IInv, NEW w \in Workspaces
    PROVE  /\ active = 0 => \A b \in Actors : ~InActivity(b) /\ at[b] # "barrier"
           /\ activeWorkspaces[w] = 0 => \A b \in Actors : ~(InActivity(b) /\ ws[b] = w)
           /\ reservations[w] = 0 => \A b \in Actors : ~(InDownload(b) /\ ws[b] = w)
           /\ writers[w] = 0 => \A b \in Actors : ~(InWriter(b) /\ ws[b] = w)
           /\ writers[w] > 0 => \E b \in Actors : InWriter(b) /\ ws[b] = w
<1>1. /\ active = 0 => Exclusive = {}
      /\ activeWorkspaces[w] = 0 => ActivityIn(w) = {}
      /\ reservations[w] = 0 => DownloadIn(w) = {}
      /\ writers[w] = 0 <=> WriterIn(w) = {}
  BY Holders, ZeroIsEmpty DEF IInv, Counters
<1>. QED
  BY <1>1 DEF Exclusive, ActivityIn, DownloadIn, WriterIn

\* Steps after which nobody holds more than before.
LEMMA NobodyMore ==
    ASSUME Writers, \A b \in Actors : /\ InActivity(b)' => InActivity(b) /\ ws'[b] = ws[b]
                                      /\ InDownload(b)' => InDownload(b) /\ ws'[b] = ws[b]
                                      /\ InWriter(b)' => InWriter(b) /\ ws'[b] = ws[b]
    PROVE  Writers'
  BY DEF Writers

\* A newcomer to a workspace without writers, and one to a workspace with
\* nothing else in it.
LEMMA NewcomerKeepsOff ==
    ASSUME Writers, NEW a \in Actors, Alone(a), ws' = ws, ~InWriter(a)',
           \A b \in Actors : ~(InWriter(b) /\ ws[b] = ws[a])
    PROVE  Writers'
<1>1. \A b \in Actors \ {a} : /\ InActivity(b)' <=> InActivity(b)
                              /\ InDownload(b)' <=> InDownload(b)
                              /\ InWriter(b)' <=> InWriter(b)
  BY DEF Alone, InActivity, InDownload, InWriter
<1>. QED
  BY <1>1 DEF Writers

LEMMA WriterKeepsOff ==
    ASSUME Writers, Positions, NEW a \in Actors, Alone(a), NEW w \in Workspaces, ws'[a] = w,
           ~InActivity(a)', ~InDownload(a)',
           \A b \in Actors \ {a} : ws[b] = w => ~InActivity(b) /\ ~InDownload(b),
           a \in Workers => \A b \in Workers : ~(InWriter(b) /\ ws[b] = w)
    PROVE  Writers'
<1>1. \A b \in Actors \ {a} : /\ InActivity(b)' <=> InActivity(b)
                              /\ InDownload(b)' <=> InDownload(b)
                              /\ InWriter(b)' <=> InWriter(b) /\ ws'[b] = ws[b]
  BY DEF Alone, InActivity, InDownload, InWriter
<1>2. \A b \in Actors \ {a} : /\ InActivity(b)' <=> InActivity(b)
                              /\ InDownload(b)' <=> InDownload(b)
                              /\ InWriter(b)' <=> InWriter(b)
                              /\ ws'[b] = ws[b]
  BY <1>1 DEF Alone
<1>. QED
  BY <1>2 DEF Writers

LEMMA PositionsKeep ==
    ASSUME Positions, NEW a \in Actors, Alone(a),
           a \in Tools => at'[a] \notin {"gate", "barrier"},
           a \in Workers => at'[a] # "queued",
           a \in Children => at'[a] \in {"idle", "inside"},
           a \in Sweepers => at'[a] \in {"idle", "waiting", "inside"}
    PROVE  Positions'
  BY KindOf DEF Positions, Alone

\* The per-user lock stays with a holder that stays inside, or is given back.
LEMMA UserLockKeeps ==
    ASSUME UserLock, NEW a \in Actors, Alone(a), user' = user,
           \/ at[a] \notin {"inside", "gate", "barrier"}
           \/ a \notin Tools \cup Fetchers
           \/ at'[a] \in {"inside", "gate", "barrier"} /\ ws'[a] = ws[a]
    PROVE  UserLock'
<1>. SUFFICES ASSUME NEW w \in Workspaces, user[w] # "none"
              PROVE  at'[user[w]] \in {"inside", "gate", "barrier"} /\ ws'[user[w]] = w
  BY DEF UserLock
<1>1. user[w] \in Tools \cup Fetchers /\ user[w] \in Actors
  BY DEF UserLock, Actors
<1>2. at[user[w]] \in {"inside", "gate", "barrier"} /\ ws[user[w]] = w
  BY DEF UserLock
<1>. QED
  BY <1>1, <1>2 DEF Alone

LEMMA UserLockReturned ==
    ASSUME UserLock, NEW a \in Actors, Alone(a), user' = Unlocked(a)
    PROVE  UserLock'
<1>1. \A w \in Workspaces : user'[w] = IF user[w] = a THEN "none" ELSE user[w]
  BY DEF Unlocked
<1>2. user' \in [Workspaces -> Tools \cup Fetchers \cup {"none"}]
  BY DEF Unlocked, UserLock
<1>3. ASSUME NEW w \in Workspaces, user'[w] # "none"
      PROVE  at'[user'[w]] \in {"inside", "gate", "barrier"} /\ ws'[user'[w]] = w
  <2>1. user'[w] = user[w] /\ user[w] # a /\ user[w] # "none"
    BY <1>1, <1>3
  <2>2. user[w] \in Actors /\ at[user[w]] \in {"inside", "gate", "barrier"} /\ ws[user[w]] = w
    BY <2>1 DEF UserLock, Actors
  <2>. QED
    BY <2>1, <2>2 DEF Alone
<1>. QED
  BY <1>2, <1>3 DEF UserLock

LEMMA SweepsKeep ==
    ASSUME Sweeps, NEW a \in Actors, Alone(a), maintenance' = maintenance, excluded' = excluded,
           a \in Sweepers => (at[a] = "inside" <=> at'[a] = "inside"),
           maintenance /\ (InActivity(a)' \/ at'[a] = "barrier") => InActivity(a) \/ at[a] = "barrier",
           maintenance /\ InWriter(a)' => ws'[a] \in excluded
    PROVE  Sweeps'
<1>1. /\ \A b \in Actors \ {a} : /\ at'[b] = at[b] /\ ws'[b] = ws[b]
                                 /\ InActivity(b)' <=> InActivity(b)
                                 /\ InWriter(b)' <=> InWriter(b)
      /\ \A s \in Sweepers : s \in Actors /\ (at[s] = "inside" <=> at'[s] = "inside")
  BY KindOf DEF Alone, InActivity, InWriter
<1>2. maintenance => Exclusive' = {}
  BY <1>1 DEF Sweeps, Exclusive
<1>3. maintenance => \A b \in Actors : InWriter(b)' => ws'[b] \in excluded
  BY <1>1 DEF Sweeps
<1>. QED
  BY <1>1, <1>2, <1>3 DEF Sweeps

-----------------------------------------------------------------------------
LEMMA InitHolds == Init => IInv
<1>. SUFFICES ASSUME Init PROVE IInv
  OBVIOUS
<1>1. \A a \in Actors : at[a] = "idle" /\ ~InActivity(a) /\ ~InDownload(a) /\ ~InWriter(a)
  BY DEF Init, InActivity, InDownload, InWriter
<1>2. Positions
  BY <1>1, KindOf DEF Init, Positions, Places
<1>3. Counters
  <2>1. Exclusive = {} /\ Waiting = {}
    BY <1>1, KindOf DEF Exclusive, Waiting
  <2>2. \A w \in Workspaces : ActivityIn(w) = {} /\ DownloadIn(w) = {} /\ WriterIn(w) = {}
    BY <1>1 DEF ActivityIn, DownloadIn, WriterIn
  <2>. QED
    BY <2>1, <2>2, FS_EmptySet DEF Init, Counters
<1>4. UserLock
  BY DEF Init, UserLock
<1>5. Sweeps
  BY <1>1, KindOf DEF Init, Sweeps, Exclusive
<1>6. Writers
  BY <1>1 DEF Writers
<1>. QED
  BY <1>2, <1>3, <1>4, <1>5, <1>6 DEF IInv

LEMMA ArriveStep ==
    ASSUME IInv, NEW a \in Actors, NEW w \in Workspaces, Arrive(a, w)
    PROVE  IInv'
<1>1. Alone(a) /\ Follows(a) /\ at'[a] = "waiting" /\ at[a] = "idle" /\ a \notin Children
  BY ArriveFollows DEF Arrive
<1>2. ~InActivity(a)' /\ ~InDownload(a)' /\ ~InWriter(a)'
  BY <1>1 DEF InActivity, InDownload, InWriter
<1>3. Positions'
  BY <1>1, PositionsKeep DEF IInv
<1>4. Counters'
  BY <1>1, CountersFollow DEF IInv
<1>5. UserLock'
  BY <1>1, UserLockKeeps DEF IInv, Arrive
<1>6. Sweeps'
  BY <1>1, <1>2, SweepsKeep DEF IInv, Arrive
<1>7. Writers'
  <2>1. \A b \in Actors : /\ InActivity(b)' => InActivity(b) /\ ws'[b] = ws[b]
                          /\ InDownload(b)' => InDownload(b) /\ ws'[b] = ws[b]
                          /\ InWriter(b)' => InWriter(b) /\ ws'[b] = ws[b]
    BY <1>1, <1>2 DEF Alone, InActivity, InDownload, InWriter
  <2>. QED
    BY <2>1, NobodyMore DEF IInv
<1>. QED
  BY <1>3, <1>4, <1>5, <1>6, <1>7 DEF IInv

LEMMA EnterActivityStep ==
    ASSUME IInv, NEW a \in Actors, EnterActivity(a)
    PROVE  IInv'
<1>1. Alone(a) /\ Follows(a) /\ at'[a] = "queued" /\ at[a] = "waiting" /\ a \in Tools
      /\ ws' = ws /\ ws[a] \in Workspaces
  BY EnterActivityFollows DEF EnterActivity, IInv, Positions
<1>2. ~InWriter(a)'
  BY <1>1, KindOf DEF InActivity, InDownload, InWriter
<1>3. Positions'
  BY <1>1, KindOf, PositionsKeep DEF IInv
<1>4. Counters'
  BY <1>1, CountersFollow DEF IInv
<1>5. UserLock'
  BY <1>1, KindOf, UserLockKeeps DEF IInv, EnterActivity
<1>6. Sweeps'
  BY <1>1, <1>2, KindOf, SweepsKeep DEF IInv, EnterActivity, gate, NoMaintenance
<1>7. Writers'
  <2>1. \A b \in Actors : ~(InWriter(b) /\ ws[b] = ws[a])
    BY <1>1, NobodyThere DEF EnterActivity
  <2>. QED
    BY <1>1, <1>2, <2>1, NewcomerKeepsOff DEF IInv
<1>. QED
  BY <1>3, <1>4, <1>5, <1>6, <1>7 DEF IInv

LEMMA EnterSerializedStep ==
    ASSUME IInv, NEW a \in Actors, EnterSerialized(a)
    PROVE  IInv'
<1>1. Alone(a) /\ Follows(a) /\ at'[a] = "queued" /\ at[a] = "waiting" /\ a \in Fetchers
      /\ ws' = ws /\ ws[a] \in Workspaces
  BY EnterSerializedFollows DEF EnterSerialized, IInv, Positions
<1>2. ~InWriter(a)' /\ ~InActivity(a)'
  BY <1>1, KindOf DEF InActivity, InDownload, InWriter
<1>3. Positions'
  BY <1>1, KindOf, PositionsKeep DEF IInv
<1>4. Counters'
  BY <1>1, CountersFollow DEF IInv
<1>5. UserLock'
  BY <1>1, KindOf, UserLockKeeps DEF IInv, EnterSerialized
<1>6. Sweeps'
  BY <1>1, <1>2, KindOf, SweepsKeep DEF IInv, EnterSerialized, gate, NoMaintenance
<1>7. Writers'
  <2>1. \A b \in Actors : ~(InWriter(b) /\ ws[b] = ws[a])
    BY <1>1, NobodyThere DEF EnterSerialized
  <2>. QED
    BY <1>1, <1>2, <2>1, NewcomerKeepsOff DEF IInv
<1>. QED
  BY <1>3, <1>4, <1>5, <1>6, <1>7 DEF IInv

LEMMA TakeUserLockStep ==
    ASSUME IInv, NEW a \in Actors, TakeUserLock(a)
    PROVE  IInv'
<1>1. Alone(a) /\ Follows(a) /\ at'[a] = "inside" /\ at[a] = "queued" /\ a \in Tools \cup Fetchers
      /\ ws' = ws /\ ws[a] \in Workspaces
  BY TakeUserLockFollows DEF TakeUserLock, IInv, Positions, Actors
<1>2. ~InWriter(a)' /\ (InActivity(a)' <=> InActivity(a)) /\ (InDownload(a)' <=> InDownload(a))
  BY <1>1, KindOf DEF InActivity, InDownload, InWriter
<1>3. Positions'
  BY <1>1, KindOf, PositionsKeep DEF IInv
<1>4. Counters'
  BY <1>1, CountersFollow DEF IInv
<1>5. UserLock'
  <2>1. user' = [user EXCEPT ![ws[a]] = a] /\ user[ws[a]] = "none"
    BY DEF TakeUserLock
  <2>2. user' \in [Workspaces -> Tools \cup Fetchers \cup {"none"}]
    BY <1>1, <2>1 DEF IInv, UserLock
  <2>3. ASSUME NEW w \in Workspaces, user'[w] # "none"
        PROVE  at'[user'[w]] \in {"inside", "gate", "barrier"} /\ ws'[user'[w]] = w
    <3>1. CASE w = ws[a]
      BY <1>1, <2>1, <3>1 DEF IInv, UserLock
    <3>2. CASE w # ws[a]
      <4>1. user'[w] = user[w] /\ user[w] \in Actors /\ at[user[w]] \in {"inside", "gate", "barrier"}
            /\ ws[user[w]] = w
        BY <2>1, <2>3, <3>2 DEF IInv, UserLock, Actors
      <4>. QED
        BY <1>1, <4>1 DEF Alone
    <3>. QED
      BY <3>1, <3>2
  <2>. QED
    BY <2>2, <2>3 DEF UserLock
<1>6. Sweeps'
  BY <1>1, <1>2, KindOf, SweepsKeep DEF IInv, TakeUserLock, gate, NoMaintenance
<1>7. Writers'
  <2>1. \A b \in Actors : /\ InActivity(b)' => InActivity(b) /\ ws'[b] = ws[b]
                          /\ InDownload(b)' => InDownload(b) /\ ws'[b] = ws[b]
                          /\ InWriter(b)' => InWriter(b) /\ ws'[b] = ws[b]
    BY <1>1, <1>2 DEF Alone, InActivity, InDownload, InWriter
  <2>. QED
    BY <2>1, NobodyMore DEF IInv
<1>. QED
  BY <1>3, <1>4, <1>5, <1>6, <1>7 DEF IInv

LEMMA LeaveActivityStep ==
    ASSUME IInv, NEW a \in Actors, LeaveActivity(a)
    PROVE  IInv'
<1>1. Alone(a) /\ Follows(a) /\ at'[a] = "idle" /\ a \in Tools /\ ws' = ws /\ ws[a] \in Workspaces
  BY LeaveActivityFollows DEF LeaveActivity, IInv, Positions
<1>2. ~InWriter(a)' /\ ~InActivity(a)' /\ ~InDownload(a)'
  BY <1>1, KindOf DEF InActivity, InDownload, InWriter
<1>3. Positions'
  BY <1>1, KindOf, PositionsKeep DEF IInv
<1>4. Counters'
  BY <1>1, CountersFollow DEF IInv
<1>5. UserLock'
  BY <1>1, UserLockReturned DEF IInv, LeaveActivity
<1>6. Sweeps'
  BY <1>1, <1>2, KindOf, SweepsKeep DEF IInv, LeaveActivity, gate, NoMaintenance
<1>7. Writers'
  <2>1. \A b \in Actors : /\ InActivity(b)' => InActivity(b) /\ ws'[b] = ws[b]
                          /\ InDownload(b)' => InDownload(b) /\ ws'[b] = ws[b]
                          /\ InWriter(b)' => InWriter(b) /\ ws'[b] = ws[b]
    BY <1>1, <1>2 DEF Alone, InActivity, InDownload, InWriter
  <2>. QED
    BY <2>1, NobodyMore DEF IInv
<1>. QED
  BY <1>3, <1>4, <1>5, <1>6, <1>7 DEF IInv

LEMMA LeaveWriterStep ==
    ASSUME IInv, NEW a \in Actors, LeaveWriter(a)
    PROVE  IInv'
<1>1. Alone(a) /\ Follows(a) /\ at'[a] = "idle" /\ a \in Workers \cup Children
      /\ ws' = ws /\ ws[a] \in Workspaces
  BY LeaveWriterFollows DEF LeaveWriter, IInv, Positions
<1>2. ~InWriter(a)' /\ ~InActivity(a)' /\ ~InDownload(a)'
  BY <1>1, KindOf DEF InActivity, InDownload, InWriter
<1>3. Positions'
  BY <1>1, KindOf, PositionsKeep DEF IInv
<1>4. Counters'
  BY <1>1, CountersFollow DEF IInv
<1>5. UserLock'
  BY <1>1, KindOf, UserLockKeeps DEF IInv, LeaveWriter
<1>6. Sweeps'
  BY <1>1, <1>2, KindOf, SweepsKeep DEF IInv, LeaveWriter, gate, NoMaintenance
<1>7. Writers'
  <2>1. \A b \in Actors : /\ InActivity(b)' => InActivity(b) /\ ws'[b] = ws[b]
                          /\ InDownload(b)' => InDownload(b) /\ ws'[b] = ws[b]
                          /\ InWriter(b)' => InWriter(b) /\ ws'[b] = ws[b]
    BY <1>1, <1>2 DEF Alone, InActivity, InDownload, InWriter
  <2>. QED
    BY <2>1, NobodyMore DEF IInv
<1>. QED
  BY <1>3, <1>4, <1>5, <1>6, <1>7 DEF IInv

LEMMA ReachBarrierStep ==
    ASSUME IInv, NEW a \in Actors, ReachBarrier(a)
    PROVE  IInv'
<1>1. Alone(a) /\ Follows(a) /\ at'[a] = "gate" /\ at[a] = "inside" /\ a \in Fetchers \cup Workers
      /\ ws' = ws /\ ws[a] \in Workspaces
  BY ReachBarrierFollows DEF ReachBarrier, IInv, Positions
<1>2. ~InActivity(a)' /\ (InDownload(a)' <=> InDownload(a)) /\ (InWriter(a)' <=> InWriter(a))
  BY <1>1, KindOf DEF InActivity, InDownload, InWriter
<1>3. Positions'
  BY <1>1, KindOf, PositionsKeep DEF IInv
<1>4. Counters'
  BY <1>1, CountersFollow DEF IInv
<1>5. UserLock'
  BY <1>1, KindOf, UserLockKeeps DEF IInv, ReachBarrier
<1>6. Sweeps'
  <2>1. maintenance /\ InWriter(a)' => ws'[a] \in excluded
    BY <1>1, <1>2 DEF IInv, Sweeps
  <2>. QED
    BY <1>1, <1>2, <2>1, KindOf, SweepsKeep DEF IInv, ReachBarrier, gate, NoMaintenance
<1>7. Writers'
  <2>1. \A b \in Actors : /\ InActivity(b)' => InActivity(b) /\ ws'[b] = ws[b]
                          /\ InDownload(b)' => InDownload(b) /\ ws'[b] = ws[b]
                          /\ InWriter(b)' => InWriter(b) /\ ws'[b] = ws[b]
    BY <1>1, <1>2 DEF Alone, InActivity, InDownload, InWriter
  <2>. QED
    BY <2>1, NobodyMore DEF IInv
<1>. QED
  BY <1>3, <1>4, <1>5, <1>6, <1>7 DEF IInv

LEMMA EnterBarrierStep ==
    ASSUME IInv, NEW a \in Actors, EnterBarrier(a)
    PROVE  IInv'
<1>1. Alone(a) /\ Follows(a) /\ at'[a] = "barrier" /\ at[a] = "gate" /\ a \in Fetchers \cup Workers
      /\ ws' = ws /\ ws[a] \in Workspaces
  BY EnterBarrierFollows DEF EnterBarrier, IInv, Positions, Actors
<1>2. ~InActivity(a)' /\ (InDownload(a)' <=> InDownload(a)) /\ (InWriter(a)' <=> InWriter(a))
  BY <1>1, KindOf DEF InActivity, InDownload, InWriter
<1>3. Positions'
  BY <1>1, KindOf, PositionsKeep DEF IInv
<1>4. Counters'
  BY <1>1, CountersFollow DEF IInv
<1>5. UserLock'
  BY <1>1, KindOf, UserLockKeeps DEF IInv, EnterBarrier
<1>6. Sweeps'
  <2>1. maintenance /\ InWriter(a)' => ws'[a] \in excluded
    BY <1>1, <1>2 DEF IInv, Sweeps
  <2>. QED
    BY <1>1, <1>2, <2>1, KindOf, SweepsKeep DEF IInv, EnterBarrier, gate, NoMaintenance
<1>7. Writers'
  <2>1. \A b \in Actors : /\ InActivity(b)' => InActivity(b) /\ ws'[b] = ws[b]
                          /\ InDownload(b)' => InDownload(b) /\ ws'[b] = ws[b]
                          /\ InWriter(b)' => InWriter(b) /\ ws'[b] = ws[b]
    BY <1>1, <1>2 DEF Alone, InActivity, InDownload, InWriter
  <2>. QED
    BY <2>1, NobodyMore DEF IInv
<1>. QED
  BY <1>3, <1>4, <1>5, <1>6, <1>7 DEF IInv

LEMMA LeaveBarrierStep ==
    ASSUME IInv, NEW a \in Actors, LeaveBarrier(a)
    PROVE  IInv'
<1>1. Alone(a) /\ Follows(a) /\ at'[a] = "inside" /\ at[a] = "barrier" /\ a \in Fetchers \cup Workers
      /\ ws' = ws /\ ws[a] \in Workspaces
  BY LeaveBarrierFollows DEF LeaveBarrier, IInv, Positions, Actors
<1>2. ~InActivity(a)' /\ (InDownload(a)' <=> InDownload(a)) /\ (InWriter(a)' <=> InWriter(a))
  BY <1>1, KindOf DEF InActivity, InDownload, InWriter
<1>3. Positions'
  BY <1>1, KindOf, PositionsKeep DEF IInv
<1>4. Counters'
  BY <1>1, CountersFollow DEF IInv
<1>5. UserLock'
  BY <1>1, KindOf, UserLockKeeps DEF IInv, LeaveBarrier
<1>6. Sweeps'
  <2>1. maintenance /\ InWriter(a)' => ws'[a] \in excluded
    BY <1>1, <1>2 DEF IInv, Sweeps
  <2>. QED
    BY <1>1, <1>2, <2>1, KindOf, SweepsKeep DEF IInv, LeaveBarrier, gate, NoMaintenance
<1>7. Writers'
  <2>1. \A b \in Actors : /\ InActivity(b)' => InActivity(b) /\ ws'[b] = ws[b]
                          /\ InDownload(b)' => InDownload(b) /\ ws'[b] = ws[b]
                          /\ InWriter(b)' => InWriter(b) /\ ws'[b] = ws[b]
    BY <1>1, <1>2 DEF Alone, InActivity, InDownload, InWriter
  <2>. QED
    BY <2>1, NobodyMore DEF IInv
<1>. QED
  BY <1>3, <1>4, <1>5, <1>6, <1>7 DEF IInv

LEMMA LeaveSerializedStep ==
    ASSUME IInv, NEW a \in Actors, LeaveSerialized(a)
    PROVE  IInv'
<1>1. Alone(a) /\ Follows(a) /\ at'[a] = "idle" /\ a \in Fetchers /\ ws' = ws /\ ws[a] \in Workspaces
  BY LeaveSerializedFollows DEF LeaveSerialized, IInv, Positions
<1>2. ~InWriter(a)' /\ ~InActivity(a)' /\ ~InDownload(a)'
  BY <1>1, KindOf DEF InActivity, InDownload, InWriter
<1>3. Positions'
  BY <1>1, KindOf, PositionsKeep DEF IInv
<1>4. Counters'
  BY <1>1, CountersFollow DEF IInv
<1>5. UserLock'
  BY <1>1, UserLockReturned DEF IInv, LeaveSerialized
<1>6. Sweeps'
  BY <1>1, <1>2, KindOf, SweepsKeep DEF IInv, LeaveSerialized, gate, NoMaintenance
<1>7. Writers'
  <2>1. \A b \in Actors : /\ InActivity(b)' => InActivity(b) /\ ws'[b] = ws[b]
                          /\ InDownload(b)' => InDownload(b) /\ ws'[b] = ws[b]
                          /\ InWriter(b)' => InWriter(b) /\ ws'[b] = ws[b]
    BY <1>1, <1>2 DEF Alone, InActivity, InDownload, InWriter
  <2>. QED
    BY <2>1, NobodyMore DEF IInv
<1>. QED
  BY <1>3, <1>4, <1>5, <1>6, <1>7 DEF IInv

LEMMA EnterMaintenanceStep ==
    ASSUME IInv, NEW a \in Actors, EnterMaintenance(a)
    PROVE  IInv'
<1>1. Alone(a) /\ Follows(a) /\ at'[a] = "inside" /\ at[a] = "waiting" /\ a \in Sweepers
      /\ ws' = ws /\ ws[a] \in Workspaces
  BY EnterMaintenanceFollows DEF EnterMaintenance, IInv, Positions
<1>2. ~InWriter(a)' /\ ~InActivity(a)' /\ ~InDownload(a)'
  BY <1>1, KindOf DEF InActivity, InDownload, InWriter
<1>3. Positions'
  BY <1>1, KindOf, PositionsKeep DEF IInv
<1>4. Counters'
  BY <1>1, CountersFollow DEF IInv
<1>5. UserLock'
  BY <1>1, KindOf, UserLockKeeps DEF IInv, EnterMaintenance
<1>6. Sweeps'
  <2>1. /\ maintenance' = TRUE /\ ~maintenance /\ active = 0 /\ writers \in [Workspaces -> Int]
        /\ excluded' = {w \in Workspaces : writers[w] > 0}
    BY DEF EnterMaintenance, IInv, Counters
  <2>2. \A b \in Actors : ~InActivity(b) /\ at[b] # "barrier"
    BY <1>1, <2>1, NobodyThere
  <2>3. \A b \in Actors : ~InActivity(b)' /\ at'[b] # "barrier"
    BY <1>1, <1>2, <2>2 DEF Alone, InActivity
  <2>4. ASSUME NEW b \in Actors, InWriter(b)' PROVE ws'[b] \in excluded'
    <3>1. InWriter(b) /\ ws[b] \in Workspaces /\ ws'[b] = ws[b]
      BY <1>1, <1>2, <2>4 DEF Alone, InWriter, IInv, Positions
    <3>2. writers[ws[b]] # 0 /\ writers[ws[b]] = Cardinality(WriterIn(ws[b]))
      BY <3>1, NobodyThere DEF IInv, Counters
    <3>3. writers[ws[b]] > 0
      BY <3>1, <3>2, Holders, ZeroIsEmpty
    <3>. QED
      BY <2>1, <3>1, <3>3
  <2>5. \A s \in Sweepers : at'[s] = "inside" <=> s = a
    BY <1>1, <2>1, KindOf DEF Alone, IInv, Sweeps
  <2>6. Exclusive' = {}
    BY <2>3 DEF Exclusive
  <2>. QED
    BY <1>1, <2>1, <2>4, <2>5, <2>6 DEF Sweeps
<1>7. Writers'
  <2>1. \A b \in Actors : /\ InActivity(b)' => InActivity(b) /\ ws'[b] = ws[b]
                          /\ InDownload(b)' => InDownload(b) /\ ws'[b] = ws[b]
                          /\ InWriter(b)' => InWriter(b) /\ ws'[b] = ws[b]
    BY <1>1, <1>2 DEF Alone, InActivity, InDownload, InWriter
  <2>. QED
    BY <2>1, NobodyMore DEF IInv
<1>. QED
  BY <1>3, <1>4, <1>5, <1>6, <1>7 DEF IInv

LEMMA LeaveMaintenanceStep ==
    ASSUME IInv, NEW a \in Actors, LeaveMaintenance(a)
    PROVE  IInv'
<1>1. Alone(a) /\ Follows(a) /\ at'[a] = "idle" /\ at[a] = "inside" /\ a \in Sweepers
      /\ ws' = ws /\ ws[a] \in Workspaces
  BY LeaveMaintenanceFollows DEF LeaveMaintenance, IInv, Positions
<1>2. ~InWriter(a)' /\ ~InActivity(a)' /\ ~InDownload(a)'
  BY <1>1, KindOf DEF InActivity, InDownload, InWriter
<1>3. Positions'
  BY <1>1, KindOf, PositionsKeep DEF IInv
<1>4. Counters'
  BY <1>1, CountersFollow DEF IInv
<1>5. UserLock'
  BY <1>1, KindOf, UserLockKeeps DEF IInv, LeaveMaintenance
<1>6. Sweeps'
  <2>1. maintenance' = FALSE /\ excluded' = {}
    BY DEF LeaveMaintenance
  <2>2. \A s \in Sweepers : at'[s] # "inside"
    BY <1>1, KindOf DEF Alone, IInv, Sweeps
  <2>. QED
    BY <2>1, <2>2 DEF Sweeps
<1>7. Writers'
  <2>1. \A b \in Actors : /\ InActivity(b)' => InActivity(b) /\ ws'[b] = ws[b]
                          /\ InDownload(b)' => InDownload(b) /\ ws'[b] = ws[b]
                          /\ InWriter(b)' => InWriter(b) /\ ws'[b] = ws[b]
    BY <1>1, <1>2 DEF Alone, InActivity, InDownload, InWriter
  <2>. QED
    BY <2>1, NobodyMore DEF IInv
<1>. QED
  BY <1>3, <1>4, <1>5, <1>6, <1>7 DEF IInv

LEMMA CancelWaitingStep ==
    ASSUME IInv, NEW a \in Actors, CancelWaiting(a)
    PROVE  IInv'
<1>1. Alone(a) /\ Follows(a) /\ at'[a] = "idle" /\ at[a] = "waiting" /\ ws' = ws /\ ws[a] \in Workspaces
  BY CancelWaitingFollows DEF CancelWaiting, IInv, Positions
<1>2. ~InWriter(a)' /\ ~InActivity(a)' /\ ~InDownload(a)'
  BY <1>1, KindOf DEF InActivity, InDownload, InWriter
<1>3. Positions'
  BY <1>1, KindOf, PositionsKeep DEF IInv
<1>4. Counters'
  BY <1>1, CountersFollow DEF IInv
<1>5. UserLock'
  BY <1>1, KindOf, UserLockKeeps DEF IInv, CancelWaiting
<1>6. Sweeps'
  BY <1>1, <1>2, KindOf, SweepsKeep DEF IInv, CancelWaiting, gate, NoMaintenance
<1>7. Writers'
  <2>1. \A b \in Actors : /\ InActivity(b)' => InActivity(b) /\ ws'[b] = ws[b]
                          /\ InDownload(b)' => InDownload(b) /\ ws'[b] = ws[b]
                          /\ InWriter(b)' => InWriter(b) /\ ws'[b] = ws[b]
    BY <1>1, <1>2 DEF Alone, InActivity, InDownload, InWriter
  <2>. QED
    BY <2>1, NobodyMore DEF IInv
<1>. QED
  BY <1>3, <1>4, <1>5, <1>6, <1>7 DEF IInv

LEMMA EnterWriterStep ==
    ASSUME IInv, NEW a \in Actors, EnterWriter(a)
    PROVE  IInv'
<1>1. Alone(a) /\ Follows(a) /\ at'[a] = "inside" /\ at[a] = "waiting" /\ a \in Workers
      /\ ws' = ws /\ ws[a] \in Workspaces
  BY EnterWriterFollows DEF EnterWriter, IInv, Positions
<1>2. ~InActivity(a)' /\ ~InDownload(a)'
  BY <1>1, KindOf DEF InActivity, InDownload, InWriter
<1>3. Positions'
  BY <1>1, KindOf, PositionsKeep DEF IInv
<1>4. Counters'
  BY <1>1, CountersFollow DEF IInv
<1>5. UserLock'
  BY <1>1, KindOf, UserLockKeeps DEF IInv, EnterWriter
<1>6. Sweeps'
  BY <1>1, <1>2, KindOf, SweepsKeep DEF IInv, EnterWriter, gate, NoMaintenance
<1>7. Writers'
  <2>1. \A b \in Actors : ws[b] = ws[a] => ~InActivity(b) /\ ~InDownload(b) /\ ~InWriter(b)
    BY <1>1, NobodyThere DEF EnterWriter
  <2>2. \A b \in Workers : b \in Actors
    BY KindOf
  <2>. QED
    BY <1>1, <1>2, <2>1, <2>2, WriterKeepsOff DEF IInv
<1>. QED
  BY <1>3, <1>4, <1>5, <1>6, <1>7 DEF IInv

LEMMA EnterReferenceStep ==
    ASSUME IInv, NEW a \in Actors, NEW w \in Workspaces, EnterReference(a, w)
    PROVE  IInv'
<1>1. Alone(a) /\ Follows(a) /\ at'[a] = "inside" /\ at[a] = "idle" /\ a \in Children
      /\ ws'[a] = w
  BY EnterReferenceFollows DEF EnterReference, IInv, Positions
<1>2. ~InActivity(a)' /\ ~InDownload(a)' /\ a \notin Workers
  BY <1>1, KindOf DEF InActivity, InDownload, InWriter
<1>3. Positions'
  BY <1>1, KindOf, PositionsKeep DEF IInv
<1>4. Counters'
  BY <1>1, CountersFollow DEF IInv
<1>5. UserLock'
  BY <1>1, KindOf, UserLockKeeps DEF IInv, EnterReference
<1>6. Sweeps'
  <2>1. PICK k \in Actors : InWriter(k) /\ ws[k] = w
    BY NobodyThere DEF EnterReference
  <2>2. maintenance => w \in excluded
    BY <2>1 DEF IInv, Sweeps
  <2>. QED
    BY <1>1, <1>2, <2>2, KindOf, SweepsKeep DEF IInv, EnterReference, gate
<1>7. Writers'
  <2>1. PICK k \in Actors : InWriter(k) /\ ws[k] = w
    BY NobodyThere DEF EnterReference
  <2>2. ~InActivity(k) /\ ~InDownload(k)
    BY <2>1, KindOf DEF InActivity, InDownload, InWriter
  <2>3. \A b \in Actors : ws[b] = w => ~InActivity(b) /\ ~InDownload(b)
    BY <2>1, <2>2 DEF IInv, Writers
  <2>. QED
    BY <1>1, <1>2, <2>3, WriterKeepsOff DEF IInv
<1>. QED
  BY <1>3, <1>4, <1>5, <1>6, <1>7 DEF IInv

LEMMA StepHolds == IInv /\ [Next]_vars => IInv'
<1>. SUFFICES ASSUME IInv, [Next]_vars PROVE IInv'
  OBVIOUS
<1>1. CASE UNCHANGED vars
  <2>1. Positions' /\ UserLock' /\ Writers'
    BY <1>1 DEF vars, IInv, Positions, UserLock, Writers, InActivity, InDownload, InWriter
  <2>2. Counters'
    <3>1. /\ Exclusive' = Exclusive /\ Waiting' = Waiting
          /\ \A w \in Workspaces : /\ ActivityIn(w)' = ActivityIn(w) /\ DownloadIn(w)' = DownloadIn(w)
                                   /\ WriterIn(w)' = WriterIn(w)
      BY <1>1 DEF vars, Exclusive, Waiting, ActivityIn, DownloadIn, WriterIn, InActivity, InDownload,
                  InWriter
    <3>. QED
      BY <1>1, <3>1 DEF vars, IInv, Counters
  <2>3. Sweeps'
    BY <1>1 DEF vars, IInv, Sweeps, Exclusive, InActivity, InWriter
  <2>. QED
    BY <2>1, <2>2, <2>3 DEF IInv
<1>2. ASSUME NEW a \in Actors, Leave(a) PROVE IInv'
  BY <1>2, LeaveActivityStep, LeaveWriterStep, LeaveSerializedStep, LeaveMaintenanceStep DEF Leave
<1>3. ASSUME NEW a \in Actors, Enter(a) PROVE IInv'
  BY <1>3, EnterActivityStep, EnterWriterStep, EnterSerializedStep, EnterMaintenanceStep,
     EnterBarrierStep, TakeUserLockStep DEF Enter
<1>. QED
  BY <1>1, <1>2, <1>3, ArriveStep, EnterReferenceStep, CancelWaitingStep, ReachBarrierStep,
     LeaveBarrierStep DEF Next

THEOREM LocksInvariant == Spec => []IInv
  BY InitHolds, StepHolds, PTL DEF Spec

-----------------------------------------------------------------------------
\* However cancellations interleave, every counter of UserLocks is the number
\* of coroutines that hold its lease, and the holder of a per-user lock is
\* inside (tools/workspace/common.py: activity, writer, serialized_user).
THEOREM LeasesAreReturned == Spec => []NoLeakedLease
<1>1. IInv => NoLeakedLease
  BY DEF IInv, Counters, UserLock, NoLeakedLease, Exclusive, Waiting, ActivityIn, DownloadIn, WriterIn
<1>. QED
  BY <1>1, LocksInvariant, PTL

\* A sweep or a wipe is alone, and a durable writer has its workspace for
\* itself and its children (tools/workspace/common.py: UserLocks).
THEOREM LeasesAreExclusive == Spec => []LeasesExclude
<1>1. IInv => LeasesExclude
  <2>. SUFFICES ASSUME IInv PROVE LeasesExclude
    OBVIOUS
  <2>1. ASSUME maintenance PROVE Cardinality({a \in Sweepers : at[a] = "inside"}) = 1
    <3>1. PICK s \in Sweepers : at[s] = "inside"
      BY <2>1 DEF IInv, Sweeps
    <3>2. {a \in Sweepers : at[a] = "inside"} = {s}
      BY <3>1 DEF IInv, Sweeps
    <3>. QED
      BY <3>2, FS_Singleton
  <2>2. maintenance => \A a \in Actors : ~InActivity(a) /\ at[a] # "barrier"
    BY DEF IInv, Sweeps, Exclusive
  <2>. QED
    BY <2>1, <2>2 DEF IInv, Writers, LeasesExclude
<1>. QED
  BY <1>1, LocksInvariant, PTL

\* The exclusions a sweep read when it began cover every writer until it ends
\* (discord_adapter/lifecycle.py 117-121).
THEOREM SweepsSpareWriters == Spec => []SweepSparesWriters
<1>1. IInv => SweepSparesWriters
  <2>. SUFFICES ASSUME IInv, maintenance, NEW w \in Workspaces, writers[w] > 0
                PROVE  w \in excluded
    BY DEF SweepSparesWriters
  <2>1. PICK k \in Actors : InWriter(k) /\ ws[k] = w
    BY NobodyThere
  <2>. QED
    BY <2>1 DEF IInv, Sweeps
<1>. QED
  BY <1>1, LocksInvariant, PTL

\* Every variable of the leases keeps its type, and no counter leaves its range.
THEOREM LockTypes == Spec => []TypeOK
<1>1. IInv => TypeOK
  <2>. SUFFICES ASSUME IInv PROVE TypeOK
    OBVIOUS
  <2>1. ASSUME NEW S, NEW T \in SUBSET S, S \in SUBSET Actors
        PROVE  Cardinality(T) \in 0..Cardinality(S)
    <3>1. IsFiniteSet(S) /\ IsFiniteSet(T)
      BY <2>1, ActorsAssumption, FS_Subset
    <3>2. Cardinality(T) <= Cardinality(S) /\ Cardinality(T) \in Nat /\ Cardinality(S) \in Nat
      BY <3>1, FS_Subset, FS_CardinalityType
    <3>. QED
      BY <3>2
  <2>2. /\ Tools \in SUBSET Actors /\ Fetchers \in SUBSET Actors /\ Sweepers \in SUBSET Actors
        /\ Workers \cup Children \in SUBSET Actors /\ Actors \in SUBSET Actors
    BY DEF Actors
  <2>3. active \in 0..Cardinality(Actors) /\ waiters \in 0..Cardinality(Sweepers)
    <3>1. Exclusive \in SUBSET Actors /\ Waiting \in SUBSET Sweepers
      BY DEF Exclusive, Waiting
    <3>. QED
      BY <2>1, <2>2, <3>1 DEF IInv, Counters
  <2>4. ASSUME NEW w \in Workspaces
        PROVE  /\ activeWorkspaces[w] \in 0..Cardinality(Tools)
               /\ reservations[w] \in 0..Cardinality(Fetchers)
               /\ writers[w] \in 0..Cardinality(Workers \cup Children)
    <3>1. /\ ActivityIn(w) \in SUBSET Tools /\ DownloadIn(w) \in SUBSET Fetchers
          /\ WriterIn(w) \in SUBSET (Workers \cup Children)
      BY DEF ActivityIn, DownloadIn, WriterIn, InActivity, InDownload, InWriter
    <3>. QED
      BY <2>1, <2>2, <3>1 DEF IInv, Counters
  <2>5. /\ activeWorkspaces \in [Workspaces -> 0..Cardinality(Tools)]
        /\ reservations \in [Workspaces -> 0..Cardinality(Fetchers)]
        /\ writers \in [Workspaces -> 0..Cardinality(Workers \cup Children)]
    BY <2>4 DEF IInv, Counters
  <2>6. user \in [Workspaces -> Actors \cup {"none"}]
    BY DEF IInv, UserLock, Actors
  <2>. QED
    BY <2>3, <2>5, <2>6 DEF IInv, Positions, Sweeps, TypeOK
<1>. QED
  BY <1>1, LocksInvariant, PTL

=============================================================================
