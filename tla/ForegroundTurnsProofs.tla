------------------------- MODULE ForegroundTurnsProofs -------------------------
(***************************************************************************)
(* Proofs about ForegroundTurns, for any messages, users, roots, limits    *)
(* and cancelling calls: what is admitted can be found by a stop, a clean  *)
(* stop is complete, a reset is final, and the turns implement what the    *)
(* root locks promise of a transcript (RootTranscript), which makes every  *)
(* transcript contiguous.  The invariant relates each place of a turn to   *)
(* its child, its registered operations, the counters of the admission and *)
(* its place in the line for the root; each part of it has a lemma with a  *)
(* step per action.                                                        *)
(***************************************************************************)
EXTENDS ForegroundTurns, FiniteSetTheorems, SequenceTheorems, TLAPS

Parties == Messages \cup Stops

-----------------------------------------------------------------------------
(* The inductive invariant.                                                 *)

StopPlaces == {"idle", "scan", "waiting", "unclean", "stopped", "clean", "locking",
               "erasing", "cleared"}
Clean == {"clean", "stopped", "locking", "erasing", "cleared"}
Calls == [kind : Kinds \cup {"none"}, user : Users \cup {Nobody}, root : Roots \cup {Nobody},
          pc : StopPlaces, watch : SUBSET (Messages \X {"child", "turn"}),
          before : SUBSET Messages]

Operations == [turn : Messages, kind : OpKinds, root : Roots \cup {Nobody}]

Types ==
    /\ pc \in [Messages -> Places] /\ thrown \in SUBSET Messages
    /\ total \in Int /\ perUser \in [Users -> Int] /\ closed \in BOOLEAN
    /\ ops \in SUBSET Operations
    /\ lock \in [Roots -> Seq(Parties)]
    /\ row \in [Roots -> Nat] /\ rows \in [Roots -> Nat] /\ bound \in [Messages -> Nat]
    /\ log \in [Roots -> Seq(Messages)]
    /\ child \in [Messages -> {"none", "spawned", "running"}] /\ live \in SUBSET Messages
    /\ stop \in [Stops -> Calls]

\* What a place says of the child, and of a cancellation that is on its way.
Fits(place, kid) ==
    /\ kid = "spawned" => place \in {"saving", "calling"}
    /\ kid = "running" =>
           place \in {"saving", "calling", "delivering", "persisting", "reacting",
                     "cleaning", "ending", "done"}

Placed == /\ \A m \in Messages : Fits(pc[m], child[m])
          /\ \A m \in thrown : pc[m] \in Leased

\* The operations of a message are those its place and its child say.
OpFits(o) ==
    \/ o.kind = "turn" /\ o.root = Nobody /\ pc[o.turn] \in {"resolving", "ending"}
    \/ o.kind = "turn" /\ o.root = RootOf[o.turn] /\ pc[o.turn] \in Leased
    \/ o.kind = "run" /\ o.root = RootOf[o.turn] /\ pc[o.turn] \in Running
    \/ o.kind = "child" /\ o.root = RootOf[o.turn] /\ child[o.turn] = "running"

Registered ==
    /\ \A o \in ops : OpFits(o)
    /\ \A m \in Messages : pc[m] \in Leased =>
           Op(m, "turn", Nobody) \in ops \/ Op(m, "turn", RootOf[m]) \in ops
    /\ \A m \in Messages : child[m] = "running" => Op(m, "child", RootOf[m]) \in ops

LeasedTurns == {m \in Messages : pc[m] \in Leased}
LeasedOf(u) == {m \in Messages : UserOf[m] = u /\ pc[m] \in Leased}

Counted ==
    /\ total = Cardinality(LeasedTurns) /\ total <= MaxActive
    /\ \A u \in Users : perUser[u] = Cardinality(LeasedOf(u)) /\ perUser[u] <= MaxActivePerUser

\* What was in flight when a call began was its concern, and is over when it is clean.
CallFits(c) ==
    /\ c.pc # "idle" => c.kind \in Kinds /\ c.user \in Users /\ c.root \in Roots
    /\ \A m \in c.before :
         /\ pc[m] \notin {"new", "rejected"}
         /\ c.kind = "shutdown" \/ (UserOf[m] = c.user /\ RootOf[m] = c.root)
         /\ c.pc \in Clean => pc[m] = "done" /\ child[m] = "none"
    /\ c.pc # "idle" /\ c.kind = "shutdown" => closed
    /\ c.pc \in Clean /\ c.kind = "shutdown" => ops = {}
    /\ c.pc = "cleared" => \A i \in 1..Len(log[c.root]) : log[c.root][i] \notin c.before

CallsFit == \A s \in Stops : CallFits(stop[s])

\* Who stands in the line for a root, and who of them has the root.
Waits(p, r) ==
    IF p \in Messages THEN RootOf[p] = r /\ pc[p] \in {"queued"} \cup Holding
                      ELSE stop[p].root = r /\ stop[p].pc \in {"locking", "erasing"}
Holds(p, r) ==
    IF p \in Messages THEN RootOf[p] = r /\ pc[p] \in Holding
                      ELSE stop[p].root = r /\ stop[p].pc = "erasing"

In(p, queue) == \E i \in 1..Len(queue) : queue[i] = p
Line(queue) == \A i, j \in 1..Len(queue) : queue[i] = queue[j] => i = j
First(p, queue) == queue # <<>> /\ Head(queue) = p

Lined ==
    \A r \in Roots :
        /\ Line(lock[r])
        /\ \A p \in Parties : (In(p, lock[r]) <=> Waits(p, r))
              /\ (Holds(p, r) => First(p, lock[r]))

\* A turn writes in its root, from the step that saves its message.
Silent == {"new", "rejected", "resolving", "acking", "queued", "touching"}
WriterFits(m, r) == RootOf[m] = r /\ pc[m] \notin Silent
Written == \A r \in Roots : \A i \in 1..Len(log[r]) : WriterFits(log[r][i], r)

IInv == Types /\ Placed /\ Registered /\ Counted /\ CallsFit /\ Lined /\ Written

-----------------------------------------------------------------------------
(* What the operators do.                                                   *)

LEMMA Constants ==
    /\ UserOf \in [Messages -> Users] /\ RootOf \in [Messages -> Roots]
    /\ Messages \cap Stops = {} /\ Nobody \notin Parties /\ Nobody \notin Roots
    /\ IsFiniteSet(Messages) /\ MaxActive \in Nat /\ MaxActivePerUser \in Nat
    /\ MaxActive >= 1 /\ MaxActivePerUser >= 1
  BY TurnsAssumption DEF Parties

LEMMA OpType == \A m \in Messages, k \in OpKinds, r \in Roots \cup {Nobody} :
    Op(m, k, r) \in Operations
  BY DEF Op, Operations

LEMMA AppendType == ASSUME NEW S, NEW q \in Seq(S), NEW p \in S PROVE Append(q, p) \in Seq(S)
  OBVIOUS

LEMMA WithoutType == ASSUME NEW S, NEW q \in Seq(S), NEW p PROVE Without(q, p) \in Seq(S)
<1>1. CASE ~ \E i \in DOMAIN q : q[i] = p
  BY <1>1 DEF Without
<1>2. CASE \E i \in DOMAIN q : q[i] = p
  <2>. DEFINE k == CHOOSE i \in DOMAIN q : q[i] = p
  <2>1. /\ DOMAIN q = 1..Len(q) /\ Len(q) \in Nat /\ k \in 1..Len(q)
        /\ \A j \in 1..Len(q) : q[j] \in S
    BY <1>2
  <2>2. Without(q, p) = SubSeq(q, 1, k - 1) \o SubSeq(q, k + 1, Len(q))
    BY <1>2 DEF Without, RemoveAt
  <2>. HIDE DEF k
  <2>3. SubSeq(q, 1, k - 1) \in Seq(S)
    BY <2>1, SubSeqProperties
  <2>4. SubSeq(q, k + 1, Len(q)) \in Seq(S)
    BY <2>1, SubSeqProperties
  <2>. QED
    BY <2>2, <2>3, <2>4, ConcatProperties
<1>. QED
  BY <1>1, <1>2

LEMMA RowTypes ==
    ASSUME Types, NEW r \in Roots, GetOrCreate(r)
    PROVE  row' \in [Roots -> Nat] /\ rows' \in [Roots -> Nat] /\ UNCHANGED log
<1>1. row[r] \in Nat /\ rows[r] \in Nat /\ row \in [Roots -> Nat] /\ rows \in [Roots -> Nat]
  BY DEF Types
<1>. DEFINE n == IF row[r] = 0 THEN rows[r] + 1 ELSE row[r]
            k == IF row[r] = 0 THEN rows[r] + 1 ELSE rows[r]
<1>2. n \in Nat /\ k \in Nat
  BY <1>1
<1>3. row' = [row EXCEPT ![r] = n] /\ rows' = [rows EXCEPT ![r] = k]
  BY <1>1 DEF GetOrCreate
<1>. HIDE DEF n, k
<1>. QED
  BY <1>1, <1>2, <1>3 DEF GetOrCreate

\* A step of a cancelling call moves it, and changes neither what it is about nor
\* the other calls.
Moved(s, place, watch) ==
    /\ stop' \in [Stops -> Calls]
    /\ \A t \in Stops : t # s => stop'[t] = stop[t]
    /\ stop'[s].pc = place /\ stop'[s].watch = watch
    /\ stop'[s].kind = stop[s].kind /\ stop'[s].user = stop[s].user
    /\ stop'[s].root = stop[s].root /\ stop'[s].before = stop[s].before

LEMMA MovesTo ==
    ASSUME Types, NEW s \in Stops, NEW place \in StopPlaces,
           NEW watch \in SUBSET (Messages \X {"child", "turn"}),
           stop' = [stop EXCEPT ![s].pc = place, ![s].watch = watch]
    PROVE  Moved(s, place, watch)
<1>. DEFINE c == [stop[s] EXCEPT !.pc = place, !.watch = watch]
<1>1. stop[s] \in Calls /\ stop \in [Stops -> Calls]
  BY DEF Types
<1>2. c \in Calls
  BY <1>1 DEF Calls
<1>3. /\ c.pc = place /\ c.watch = watch /\ c.kind = stop[s].kind /\ c.user = stop[s].user
      /\ c.root = stop[s].root /\ c.before = stop[s].before
  BY <1>1 DEF Calls
<1>4. stop' = [stop EXCEPT ![s] = c]
  BY <1>1
<1>. HIDE DEF c
<1>. QED
  BY <1>1, <1>2, <1>3, <1>4 DEF Moved

LEMMA StopsTo ==
    ASSUME Types, NEW s \in Stops, NEW place \in StopPlaces, StopTo(s, place)
    PROVE  Moved(s, place, {})
  BY MovesTo DEF StopTo

\* The calls wait for tasks of the operations they found.
LEMMA Watched ==
    ASSUME Types, NEW s \in Stops
    PROVE  /\ {Task(o) : o \in Matching(stop[s])} \in SUBSET (Messages \X {"child", "turn"})
           /\ {o.turn : o \in {p \in Matching(stop[s]) : p.kind # "child"}} \in SUBSET Messages
<1>1. \A o \in Matching(stop[s]) : o \in Operations
  BY DEF Matching, Types
<1>2. \A o \in Operations : o.turn \in Messages
  BY DEF Operations
<1>. QED
  BY <1>1, <1>2 DEF Task

LEMMA ScanMoves ==
    ASSUME Types, NEW s \in Stops, Scan(s)
    PROVE  \/ /\ Matching(stop[s]) = {} /\ UNCHANGED thrown
              /\ Moved(s, IF stop[s].kind = "reset" THEN "clean" ELSE "stopped", {})
           \/ /\ Moved(s, "waiting", {Task(o) : o \in Matching(stop[s])})
              /\ thrown' = thrown
                   \cup {o.turn : o \in {p \in Matching(stop[s]) : p.kind # "child"}}
<1>1. CASE Matching(stop[s]) = {}
  BY <1>1, StopsTo DEF Scan, StopPlaces
<1>2. CASE Matching(stop[s]) # {}
  BY <1>2, Watched, MovesTo DEF Scan, StopPlaces
<1>. QED
  BY <1>1, <1>2

\* Where each step of a cancelling call, but its first, leaves it.
LEMMA CancelMoves ==
    ASSUME Types, NEW s \in Stops
    PROVE  /\ Drained(s) => Moved(s, "scan", {})
           /\ GiveUp(s) => Moved(s, "unclean", {})
           /\ QueueReset(s) => Moved(s, "locking", {})
           /\ HoldReset(s) => Moved(s, "erasing", {})
           /\ Erase(s) => Moved(s, "cleared", {})
  BY StopsTo DEF Drained, GiveUp, QueueReset, HoldReset, Erase, StopPlaces

\* A call begins: it is about the user and the root of a message.
LEMMA BeginMoves ==
    ASSUME Types, NEW s \in Stops, Begin(s)
    PROVE  /\ stop[s].pc = "idle"
           /\ \E k \in Kinds, m \in Messages :
                /\ closed' = (closed \/ k = "shutdown")
                /\ stop'[s].kind = k /\ stop'[s].user = UserOf[m] /\ stop'[s].root = RootOf[m]
                /\ stop'[s].pc = "scan"
                /\ stop'[s].before = {x \in Messages : InFlight(x) /\ Concerns(x, k, m)}
           /\ stop' \in [Stops -> Calls]
           /\ \A t \in Stops : t # s => stop'[t] = stop[t]
<1>1. PICK k \in Kinds, m \in Messages :
        /\ closed' = (closed \/ k = "shutdown")
        /\ stop' = [stop EXCEPT ![s] =
             [@ EXCEPT !.kind = k, !.pc = "scan", !.user = UserOf[m], !.root = RootOf[m],
                       !.before = {x \in Messages : InFlight(x) /\ Concerns(x, k, m)}]]
  BY DEF Begin
<1>. DEFINE b == {x \in Messages : InFlight(x) /\ Concerns(x, k, m)}
            c == [stop[s] EXCEPT !.kind = k, !.pc = "scan", !.user = UserOf[m], !.root = RootOf[m],
                                 !.before = b]
<1>2. stop[s] \in Calls /\ stop \in [Stops -> Calls]
  BY DEF Types
<1>3. b \in SUBSET Messages
  OBVIOUS
<1>. HIDE DEF b
<1>4. c \in Calls
  BY <1>2, <1>3, Constants DEF Calls, StopPlaces
<1>5. /\ c.kind = k /\ c.user = UserOf[m] /\ c.root = RootOf[m] /\ c.pc = "scan" /\ c.before = b
  BY <1>2 DEF Calls
<1>6. stop' = [stop EXCEPT ![s] = c]
  BY <1>1, <1>2 DEF b
<1>. HIDE DEF c
<1>. QED
  BY <1>1, <1>2, <1>4, <1>5, <1>6 DEF Begin, b

-----------------------------------------------------------------------------
(* Every variable keeps its type.                                           *)

LEMMA TypesStep ==
    ASSUME IInv, [Next]_vars
    PROVE  Types'
<1>. USE Constants, OpType DEF IInv, Types, Places, Leased, Cancellable, Holding, Running, Prepared, admission, store, OpKinds
<1>1. ASSUME NEW m \in Messages, Admit(m) PROVE Types'
  BY <1>1 DEF Admit, Go, HasCapacity, admission
<1>2. ASSUME NEW m \in Messages, Reject(m) PROVE Types'
  BY <1>2 DEF Reject, Go
<1>3. ASSUME NEW m \in Messages, Drop(m) PROVE Types'
  BY <1>3 DEF Drop, Go, At
<1>4. ASSUME NEW m \in Messages, Resolve(m) PROVE Types'
  BY <1>4 DEF Resolve, Go, At, GetOrCreate
<1>5. ASSUME NEW m \in Messages, Queue(m) PROVE Types'
  <2>1. Append(lock[RootOf[m]], m) \in Seq(Parties)
    BY <1>5, AppendType DEF Queue, Parties
  <2>. QED
    BY <1>5, <2>1 DEF Queue, Go, At
<1>6. ASSUME NEW m \in Messages, RecheckFails(m) PROVE Types'
  BY <1>6, WithoutType DEF RecheckFails, Go, At, HasRoot, Unlock
<1>7. ASSUME NEW m \in Messages, StartRun(m) PROVE Types'
  BY <1>7 DEF StartRun, Go, At, HasRoot
<1>8. ASSUME NEW m \in Messages, Touch(m) PROVE Types'
  <2>1. row' \in [Roots -> Nat] /\ rows' \in [Roots -> Nat] /\ UNCHANGED log
    BY <1>8, RowTypes DEF Touch
  <2>2. bound' \in [Messages -> Nat]
    <3>1. row'[RootOf[m]] \in Nat
      BY <2>1
    <3>2. UNCHANGED bound \/ bound' = [bound EXCEPT ![m] = row'[RootOf[m]]]
      BY <1>8 DEF Touch
    <3>. QED
      BY <3>1, <3>2
  <2>. QED
    BY <1>8, <2>1, <2>2 DEF Touch, Go, At
<1>9. ASSUME NEW m \in Messages, SaveMessage(m) PROVE Types'
  BY <1>9 DEF SaveMessage, Go, At, Spawn
<1>10. ASSUME NEW m \in Messages, Saved(m) PROVE Types'
  BY <1>10 DEF Saved, Go, At
<1>11. ASSUME NEW m \in Messages, CallTool(m) PROVE Types'
  BY <1>11 DEF CallTool, Go, At, Spawn
<1>12. ASSUME NEW m \in Messages, Answer(m) PROVE Types'
  BY <1>12 DEF Answer, Go, At
<1>13. ASSUME NEW m \in Messages, TimeOut(m) PROVE Types'
  BY <1>13 DEF TimeOut, Go, At
<1>14. ASSUME NEW m \in Messages, Delivered(m) PROVE Types'
  BY <1>14 DEF Delivered, Go, At
<1>15. ASSUME NEW m \in Messages, Persist(m) PROVE Types'
  <2>1. Append(log[RootOf[m]], m) \in Seq(Messages)
    BY <1>15, AppendType
  <2>2. log' \in [Roots -> Seq(Messages)]
    BY <1>15, <2>1 DEF Persist, Record
  <2>. QED
    BY <1>15, <2>2 DEF Persist, Go, At, LeaveRun
<1>16. ASSUME NEW m \in Messages, EndEarly(m) PROVE Types'
  BY <1>16 DEF EndEarly, Go, LeaveRun
<1>17. ASSUME NEW m \in Messages, React(m) PROVE Types'
  BY <1>17, WithoutType DEF React, Go, At, Unlock
<1>18. ASSUME NEW m \in Messages, Send(m) PROVE Types'
  BY <1>18 DEF Send, At
<1>19. ASSUME NEW m \in Messages, ChildStarts(m) PROVE Types'
  <2>1. Append(log[RootOf[m]], m) \in Seq(Messages)
    BY <1>19, AppendType DEF ChildStarts, Parties
  <2>2. log' \in [Roots -> Seq(Messages)]
    BY <1>19, <2>1 DEF ChildStarts, Record
  <2>3. ops' \in SUBSET Operations /\ child' \in [Messages -> {"none", "spawned", "running"}]
    BY <1>19 DEF ChildStarts
  <2>. QED
    BY <1>19, <2>2, <2>3 DEF ChildStarts
<1>20. ASSUME NEW m \in Messages, ChildEnds(m) PROVE Types'
  BY <1>20 DEF ChildEnds
<1>21. ASSUME NEW m \in Messages, Cancelled(m) PROVE Types'
  BY <1>21, WithoutType DEF Cancelled, Go, Unlock, LeaveRun
<1>22. ASSUME NEW m \in Messages, Cleanup(m) PROVE Types'
  BY <1>22 DEF Cleanup, Go
<1>23. ASSUME NEW m \in Messages, End(m) PROVE Types'
  BY <1>23 DEF End, Go
<1>24. ASSUME NEW s \in Stops, Begin(s) PROVE Types'
  <2>1. stop' \in [Stops -> Calls] /\ closed' \in BOOLEAN
    BY <1>24, BeginMoves
  <2>. QED
    BY <1>24, <2>1 DEF Begin
<1>25. ASSUME NEW s \in Stops, Scan(s) PROVE Types'
  <2>1. stop' \in [Stops -> Calls] /\ thrown' \in SUBSET Messages
    BY <1>25, ScanMoves, Watched DEF Moved
  <2>. QED
    BY <1>25, <2>1 DEF Scan
<1>26. ASSUME NEW s \in Stops, Drained(s) PROVE Types'
  <2>1. stop' \in [Stops -> Calls]
    BY <1>26, CancelMoves DEF Moved
  <2>. QED
    BY <1>26, <2>1 DEF Drained
<1>27. ASSUME NEW s \in Stops, GiveUp(s) PROVE Types'
  <2>1. stop' \in [Stops -> Calls]
    BY <1>27, CancelMoves DEF Moved
  <2>. QED
    BY <1>27, <2>1 DEF GiveUp
<1>28. ASSUME NEW s \in Stops, QueueReset(s) PROVE Types'
  <2>1. stop' \in [Stops -> Calls]
    BY <1>28, CancelMoves DEF Moved
  <2>2. Append(lock[stop[s].root], s) \in Seq(Parties) \/ stop[s].root \notin Roots
    BY AppendType DEF Parties
  <2>. QED
    BY <1>28, <2>1, <2>2 DEF QueueReset
<1>29. ASSUME NEW s \in Stops, HoldReset(s) PROVE Types'
  <2>1. stop' \in [Stops -> Calls]
    BY <1>29, CancelMoves DEF Moved
  <2>. QED
    BY <1>29, <2>1 DEF HoldReset
<1>30. ASSUME NEW s \in Stops, Erase(s) PROVE Types'
  <2>1. stop' \in [Stops -> Calls]
    BY <1>30, CancelMoves DEF Moved
  <2>2. log' \in [Roots -> Seq(Messages)] /\ row' \in [Roots -> Nat]
    <3>1. <<>> \in Seq(Messages) /\ 0 \in Nat
      OBVIOUS
    <3>2. PICK e \in Seq(Messages), z \in Nat :
             log' = [log EXCEPT ![stop[s].root] = e] /\ row' = [row EXCEPT ![stop[s].root] = z]
      BY <1>30, <3>1 DEF Erase
    <3>. QED
      BY <3>2
  <2>3. lock' \in [Roots -> Seq(Parties)]
    BY <1>30, WithoutType DEF Erase
  <2>. QED
    BY <1>30, <2>1, <2>2, <2>3 DEF Erase
<1>31. ASSUME NEW r \in Roots, Expire(r) PROVE Types'
  BY <1>31 DEF Expire
<1>32. CASE UNCHANGED vars
  BY <1>32 DEF vars, admission, store
<1>. QED
  BY <1>1, <1>2, <1>3, <1>4, <1>5, <1>6, <1>7, <1>8, <1>9, <1>10, <1>11, <1>12, <1>13,
     <1>14, <1>15, <1>16, <1>17, <1>18, <1>19, <1>20, <1>21, <1>22, <1>23, <1>24, <1>25,
     <1>26, <1>27, <1>28, <1>29, <1>30, <1>31, <1>32
     DEF Next, Enter, Turn, Child, Leave, Cancel

-----------------------------------------------------------------------------
(* Places, children and cancellations.                                      *)

LEMMA PlacedStep ==
    ASSUME Types, Placed, Registered, [Next]_vars
    PROVE  Placed'
<1>. USE DEF Types, Placed, Fits, Places, Leased, Cancellable, Holding, Running, Prepared, admission, store
<1>1. ASSUME NEW m \in Messages, Admit(m) PROVE Placed'
  BY <1>1 DEF Admit, Go, HasCapacity, admission
<1>2. ASSUME NEW m \in Messages, Reject(m) PROVE Placed'
  BY <1>2 DEF Reject, Go
<1>3. ASSUME NEW m \in Messages, Drop(m) PROVE Placed'
  BY <1>3 DEF Drop, Go, At
<1>4. ASSUME NEW m \in Messages, Resolve(m) PROVE Placed'
  BY <1>4 DEF Resolve, Go, At, GetOrCreate
<1>5. ASSUME NEW m \in Messages, Queue(m) PROVE Placed'
  BY <1>5 DEF Queue, Go, At
<1>6. ASSUME NEW m \in Messages, RecheckFails(m) PROVE Placed'
  BY <1>6 DEF RecheckFails, Go, At, HasRoot, Unlock
<1>7. ASSUME NEW m \in Messages, StartRun(m) PROVE Placed'
  BY <1>7 DEF StartRun, Go, At, HasRoot
<1>8. ASSUME NEW m \in Messages, Touch(m) PROVE Placed'
  BY <1>8 DEF Touch, Go, At, GetOrCreate
<1>9. ASSUME NEW m \in Messages, SaveMessage(m) PROVE Placed'
  BY <1>9 DEF SaveMessage, Go, At, Spawn
<1>10. ASSUME NEW m \in Messages, Saved(m) PROVE Placed'
  BY <1>10 DEF Saved, Go, At
<1>11. ASSUME NEW m \in Messages, CallTool(m) PROVE Placed'
  BY <1>11 DEF CallTool, Go, At, Spawn
<1>12. ASSUME NEW m \in Messages, Answer(m) PROVE Placed'
  BY <1>12 DEF Answer, Go, At
<1>13. ASSUME NEW m \in Messages, TimeOut(m) PROVE Placed'
  BY <1>13 DEF TimeOut, Go, At
<1>14. ASSUME NEW m \in Messages, Delivered(m) PROVE Placed'
  BY <1>14 DEF Delivered, Go, At
<1>15. ASSUME NEW m \in Messages, Persist(m) PROVE Placed'
  BY <1>15 DEF Persist, Go, At, LeaveRun, Record
<1>16. ASSUME NEW m \in Messages, EndEarly(m) PROVE Placed'
  BY <1>16 DEF EndEarly, Go, LeaveRun
<1>17. ASSUME NEW m \in Messages, React(m) PROVE Placed'
  BY <1>17 DEF React, Go, At, Unlock
<1>18. ASSUME NEW m \in Messages, Send(m) PROVE Placed'
  BY <1>18 DEF Send, At
<1>19. ASSUME NEW m \in Messages, ChildStarts(m) PROVE Placed'
  BY <1>19 DEF ChildStarts, Record
<1>20. ASSUME NEW m \in Messages, ChildEnds(m) PROVE Placed'
  BY <1>20 DEF ChildEnds
<1>21. ASSUME NEW m \in Messages, Cancelled(m) PROVE Placed'
  BY <1>21 DEF Cancelled, Go, Unlock, LeaveRun
<1>22. ASSUME NEW m \in Messages, Cleanup(m) PROVE Placed'
  BY <1>22 DEF Cleanup, Go
<1>23. ASSUME NEW m \in Messages, End(m) PROVE Placed'
  BY <1>23 DEF End, Go
<1>24. ASSUME NEW s \in Stops, Begin(s) PROVE Placed'
  BY <1>24 DEF Begin
<1>25. ASSUME NEW s \in Stops, Scan(s) PROVE Placed'
  <2>1. \A o \in Matching(stop[s]) : o.kind # "child" => pc[o.turn] \in Leased
    BY DEF Matching, Registered, OpFits
  <2>. DEFINE told == {o.turn : o \in {p \in Matching(stop[s]) : p.kind # "child"}}
  <2>4. thrown' = thrown \/ thrown' = thrown \cup told
    BY <1>25, ScanMoves
  <2>5. \A x \in told : pc[x] \in Leased
    <3>. HIDE DEF Leased
    <3>. QED
      BY <2>1
  <2>. HIDE DEF told
  <2>2. \A x \in thrown' : pc[x] \in Leased
    BY <2>4, <2>5
  <2>3. UNCHANGED <<pc, child>>
    BY <1>25 DEF Scan
  <2>. QED
    BY <2>2, <2>3
<1>26. ASSUME NEW s \in Stops, Drained(s) PROVE Placed'
  BY <1>26 DEF Drained, StopTo
<1>27. ASSUME NEW s \in Stops, GiveUp(s) PROVE Placed'
  BY <1>27 DEF GiveUp, StopTo
<1>28. ASSUME NEW s \in Stops, QueueReset(s) PROVE Placed'
  BY <1>28 DEF QueueReset, StopTo
<1>29. ASSUME NEW s \in Stops, HoldReset(s) PROVE Placed'
  BY <1>29 DEF HoldReset, StopTo
<1>30. ASSUME NEW s \in Stops, Erase(s) PROVE Placed'
  BY <1>30 DEF Erase, StopTo
<1>31. ASSUME NEW r \in Roots, Expire(r) PROVE Placed'
  BY <1>31 DEF Expire
<1>32. CASE UNCHANGED vars
  BY <1>32 DEF vars, admission, store
<1>. QED
  BY <1>1, <1>2, <1>3, <1>4, <1>5, <1>6, <1>7, <1>8, <1>9, <1>10, <1>11, <1>12, <1>13,
     <1>14, <1>15, <1>16, <1>17, <1>18, <1>19, <1>20, <1>21, <1>22, <1>23, <1>24, <1>25,
     <1>26, <1>27, <1>28, <1>29, <1>30, <1>31, <1>32
     DEF Next, Enter, Turn, Child, Leave, Cancel

-----------------------------------------------------------------------------
(* The registry: the operations of a message are those of its place.        *)

LEMMA OpFields == \A m, k, q : Op(m, k, q).turn = m /\ Op(m, k, q).kind = k /\ Op(m, k, q).root = q
  BY DEF Op

LEMMA OpsDiffer == \A m, k, q, x, j, p :
    Op(m, k, q) = Op(x, j, p) <=> m = x /\ k = j /\ q = p
  BY OpFields

\* The operation of a record is the record.
LEMMA OpOf == \A o \in Operations : o = Op(o.turn, o.kind, o.root)
  BY DEF Op, Operations

\* A step of one message disturbs only its own operations.
LEMMA OwnOps ==
    ASSUME Types, Types', Registered, NEW m \in Messages,
           \A x \in Messages : x # m => pc'[x] = pc[x] /\ child'[x] = child[x],
           \A o \in Operations : o.turn # m => (o \in ops' <=> o \in ops),
           \A o \in ops' : o.turn = m => OpFits(o)',
           pc'[m] \in Leased
                 => Op(m, "turn", Nobody) \in ops' \/ Op(m, "turn", RootOf[m]) \in ops',
           child'[m] = "running" => Op(m, "child", RootOf[m]) \in ops'
    PROVE  Registered'
<1>1. \A o \in ops' : o \in Operations /\ o.turn \in Messages
  BY DEF Types, Operations
<1>2. \A o \in ops' : o.turn # m => OpFits(o)'
  BY <1>1 DEF Registered, OpFits
<1>3. \A x \in Messages : x # m /\ pc[x] \in Leased =>
        Op(x, "turn", Nobody) \in ops' \/ Op(x, "turn", RootOf[x]) \in ops'
  BY OpType, OpFields, Constants DEF Registered, OpKinds
<1>4. \A x \in Messages : x # m /\ child[x] = "running" => Op(x, "child", RootOf[x]) \in ops'
  BY OpType, OpFields, Constants DEF Registered, OpKinds
<1>. QED
  BY <1>2, <1>3, <1>4 DEF Registered

LEMMA RegisteredStep ==
    ASSUME Types, Types', Placed, Registered, [Next]_vars
    PROVE  Registered'
<1>1. ASSUME NEW m \in Messages, Admit(m) PROVE Registered'
  <2>1. \A x \in Messages : x # m => pc'[x] = pc[x] /\ child'[x] = child[x]
    BY <1>1 DEF Admit, Go, HasCapacity, admission, Types
  <2>2. \A o \in Operations : o.turn # m => (o \in ops' <=> o \in ops)
    BY <1>1, OpFields DEF Admit, Go, HasCapacity, admission
  <2>3. ASSUME NEW o \in ops', o.turn = m PROVE OpFits(o)'
    <3>1. o \in Operations /\ o = Op(m, o.kind, o.root)
      BY <2>3, OpOf DEF Types
    <3>2. o \in ops => OpFits(o)
      BY DEF Registered
    <3>. QED
      BY <1>1, <2>3, <3>1, <3>2, OpFields, Constants
         DEF Admit, Go, HasCapacity, admission, Types, Placed, Fits, OpFits, Places,
             Leased, Cancellable, Holding, Running, Prepared
  <2>4. pc'[m] \in Leased => Op(m, "turn", Nobody) \in ops' \/ Op(m, "turn", RootOf[m]) \in ops'
    BY <1>1, OpsDiffer, Constants
       DEF Admit, Go, HasCapacity, admission, Types, Registered, Places, Leased,
           Cancellable, Holding, Running, Prepared
  <2>5. child'[m] = "running" => Op(m, "child", RootOf[m]) \in ops'
    BY <1>1 DEF Admit, Placed, Fits
  <2>. QED
    BY <2>1, <2>2, <2>3, <2>4, <2>5, OwnOps
<1>2. ASSUME NEW m \in Messages, Reject(m) PROVE Registered'
  <2>1. \A x \in Messages : x # m => pc'[x] = pc[x] /\ child'[x] = child[x]
    BY <1>2 DEF Reject, Go, Types
  <2>2. \A o \in Operations : o.turn # m => (o \in ops' <=> o \in ops)
    BY <1>2, OpFields DEF Reject, Go
  <2>3. ASSUME NEW o \in ops', o.turn = m PROVE OpFits(o)'
    <3>1. o \in Operations /\ o = Op(m, o.kind, o.root)
      BY <2>3, OpOf DEF Types
    <3>2. o \in ops => OpFits(o)
      BY DEF Registered
    <3>. QED
      BY <1>2, <2>3, <3>1, <3>2, OpFields, Constants
         DEF Reject, Go, Types, Placed, Fits, OpFits, Places, Leased, Cancellable, Holding,
             Running, Prepared
  <2>4. pc'[m] \in Leased => Op(m, "turn", Nobody) \in ops' \/ Op(m, "turn", RootOf[m]) \in ops'
    BY <1>2, OpsDiffer, Constants
       DEF Reject, Go, Types, Registered, Places, Leased, Cancellable, Holding, Running,
           Prepared
  <2>5. child'[m] = "running" => Op(m, "child", RootOf[m]) \in ops'
    BY <1>2, OpsDiffer DEF Reject, Go, Types, Placed, Fits, Registered
  <2>. QED
    BY <2>1, <2>2, <2>3, <2>4, <2>5, OwnOps
<1>3. ASSUME NEW m \in Messages, Drop(m) PROVE Registered'
  BY <1>3, OpFields, Constants
     DEF Drop, Go, At, Types, Placed, Fits, Registered, OpFits, Places, Leased,
         Cancellable, Holding, Running, Prepared, admission, store
<1>4. ASSUME NEW m \in Messages, Resolve(m) PROVE Registered'
  <2>1. \A x \in Messages : x # m => pc'[x] = pc[x] /\ child'[x] = child[x]
    BY <1>4 DEF Resolve, Go, At, GetOrCreate, Types
  <2>2. \A o \in Operations : o.turn # m => (o \in ops' <=> o \in ops)
    BY <1>4, OpFields DEF Resolve, Go, At, GetOrCreate
  <2>3. ASSUME NEW o \in ops', o.turn = m PROVE OpFits(o)'
    <3>1. o \in Operations /\ o = Op(m, o.kind, o.root)
      BY <2>3, OpOf DEF Types
    <3>2. o \in ops => OpFits(o)
      BY DEF Registered
    <3>. QED
      BY <1>4, <2>3, <3>1, <3>2, OpFields, Constants
         DEF Resolve, Go, At, GetOrCreate, Types, Placed, Fits, OpFits, Places, Leased,
             Cancellable, Holding, Running, Prepared
  <2>4. pc'[m] \in Leased => Op(m, "turn", Nobody) \in ops' \/ Op(m, "turn", RootOf[m]) \in ops'
    BY <1>4, OpsDiffer, Constants
       DEF Resolve, Go, At, GetOrCreate, Types, Registered, Places, Leased, Cancellable,
           Holding, Running, Prepared
  <2>5. child'[m] = "running" => Op(m, "child", RootOf[m]) \in ops'
    BY <1>4, OpsDiffer DEF Resolve, Go, At, GetOrCreate, Types, Placed, Fits, Registered
  <2>. QED
    BY <2>1, <2>2, <2>3, <2>4, <2>5, OwnOps
<1>5. ASSUME NEW m \in Messages, Queue(m) PROVE Registered'
  <2>1. \A x \in Messages : x # m => pc'[x] = pc[x] /\ child'[x] = child[x]
    BY <1>5 DEF Queue, Go, At, Types
  <2>2. \A o \in Operations : o.turn # m => (o \in ops' <=> o \in ops)
    BY <1>5, OpFields DEF Queue, Go, At
  <2>3. ASSUME NEW o \in ops', o.turn = m PROVE OpFits(o)'
    <3>1. o \in Operations /\ o = Op(m, o.kind, o.root)
      BY <2>3, OpOf DEF Types
    <3>2. o \in ops => OpFits(o)
      BY DEF Registered
    <3>. QED
      BY <1>5, <2>3, <3>1, <3>2, OpFields, Constants
         DEF Queue, Go, At, Types, Placed, Fits, OpFits, Places, Leased, Cancellable,
             Holding, Running, Prepared
  <2>4. pc'[m] \in Leased => Op(m, "turn", Nobody) \in ops' \/ Op(m, "turn", RootOf[m]) \in ops'
    BY <1>5, OpsDiffer, Constants
       DEF Queue, Go, At, Types, Registered, Places, Leased, Cancellable, Holding, Running,
           Prepared
  <2>5. child'[m] = "running" => Op(m, "child", RootOf[m]) \in ops'
    BY <1>5, OpsDiffer DEF Queue, Go, At, Types, Placed, Fits, Registered
  <2>. QED
    BY <2>1, <2>2, <2>3, <2>4, <2>5, OwnOps
<1>6. ASSUME NEW m \in Messages, RecheckFails(m) PROVE Registered'
  <2>1. \A x \in Messages : x # m => pc'[x] = pc[x] /\ child'[x] = child[x]
    BY <1>6 DEF RecheckFails, Go, At, HasRoot, Unlock, Types
  <2>2. \A o \in Operations : o.turn # m => (o \in ops' <=> o \in ops)
    BY <1>6, OpFields DEF RecheckFails, Go, At, HasRoot, Unlock
  <2>3. ASSUME NEW o \in ops', o.turn = m PROVE OpFits(o)'
    <3>1. o \in Operations /\ o = Op(m, o.kind, o.root)
      BY <2>3, OpOf DEF Types
    <3>2. o \in ops => OpFits(o)
      BY DEF Registered
    <3>. QED
      BY <1>6, <2>3, <3>1, <3>2, OpFields, Constants
         DEF RecheckFails, Go, At, HasRoot, Unlock, Types, Placed, Fits, OpFits, Places,
             Leased, Cancellable, Holding, Running, Prepared
  <2>4. pc'[m] \in Leased => Op(m, "turn", Nobody) \in ops' \/ Op(m, "turn", RootOf[m]) \in ops'
    BY <1>6, OpsDiffer, Constants
       DEF RecheckFails, Go, At, HasRoot, Unlock, Types, Registered, Places, Leased,
           Cancellable, Holding, Running, Prepared
  <2>5. child'[m] = "running" => Op(m, "child", RootOf[m]) \in ops'
    BY <1>6, OpsDiffer
       DEF RecheckFails, Go, At, HasRoot, Unlock, Types, Placed, Fits, Registered
  <2>. QED
    BY <2>1, <2>2, <2>3, <2>4, <2>5, OwnOps
<1>7. ASSUME NEW m \in Messages, StartRun(m) PROVE Registered'
  BY <1>7, OpFields, Constants
     DEF StartRun, Go, At, HasRoot, Types, Placed, Fits, Registered, OpFits, Places,
         Leased, Cancellable, Holding, Running, Prepared, admission, store
<1>8. ASSUME NEW m \in Messages, Touch(m) PROVE Registered'
  BY <1>8, OpFields, Constants
     DEF Touch, Go, At, GetOrCreate, Types, Placed, Fits, Registered, OpFits, Places,
         Leased, Cancellable, Holding, Running, Prepared, admission, store
<1>9. ASSUME NEW m \in Messages, SaveMessage(m) PROVE Registered'
  <2>1. \A x \in Messages : x # m => pc'[x] = pc[x] /\ child'[x] = child[x]
    BY <1>9 DEF SaveMessage, Go, At, Spawn, Types
  <2>2. \A o \in Operations : o.turn # m => (o \in ops' <=> o \in ops)
    BY <1>9, OpFields DEF SaveMessage, Go, At, Spawn
  <2>3. ASSUME NEW o \in ops', o.turn = m PROVE OpFits(o)'
    <3>1. o \in Operations /\ o = Op(m, o.kind, o.root)
      BY <2>3, OpOf DEF Types
    <3>2. o \in ops => OpFits(o)
      BY DEF Registered
    <3>. QED
      BY <1>9, <2>3, <3>1, <3>2, OpFields, Constants
         DEF SaveMessage, Go, At, Spawn, Types, Placed, Fits, OpFits, Places, Leased,
             Cancellable, Holding, Running, Prepared
  <2>4. pc'[m] \in Leased => Op(m, "turn", Nobody) \in ops' \/ Op(m, "turn", RootOf[m]) \in ops'
    BY <1>9, OpsDiffer, Constants
       DEF SaveMessage, Go, At, Spawn, Types, Registered, Places, Leased, Cancellable,
           Holding, Running, Prepared
  <2>5. child'[m] = "running" => Op(m, "child", RootOf[m]) \in ops'
    BY <1>9, OpsDiffer DEF SaveMessage, Go, At, Spawn, Types, Placed, Fits, Registered
  <2>. QED
    BY <2>1, <2>2, <2>3, <2>4, <2>5, OwnOps
<1>10. ASSUME NEW m \in Messages, Saved(m) PROVE Registered'
  BY <1>10, OpFields, Constants
     DEF Saved, Go, At, Types, Placed, Fits, Registered, OpFits, Places, Leased,
         Cancellable, Holding, Running, Prepared, admission, store
<1>11. ASSUME NEW m \in Messages, CallTool(m) PROVE Registered'
  <2>1. \A x \in Messages : x # m => pc'[x] = pc[x] /\ child'[x] = child[x]
    BY <1>11 DEF CallTool, Go, At, Spawn, Types
  <2>2. \A o \in Operations : o.turn # m => (o \in ops' <=> o \in ops)
    BY <1>11, OpFields DEF CallTool, Go, At, Spawn
  <2>3. ASSUME NEW o \in ops', o.turn = m PROVE OpFits(o)'
    <3>1. o \in Operations /\ o = Op(m, o.kind, o.root)
      BY <2>3, OpOf DEF Types
    <3>2. o \in ops => OpFits(o)
      BY DEF Registered
    <3>. QED
      BY <1>11, <2>3, <3>1, <3>2, OpFields, Constants
         DEF CallTool, Go, At, Spawn, Types, Placed, Fits, OpFits, Places, Leased,
             Cancellable, Holding, Running, Prepared
  <2>4. pc'[m] \in Leased => Op(m, "turn", Nobody) \in ops' \/ Op(m, "turn", RootOf[m]) \in ops'
    BY <1>11, OpsDiffer, Constants
       DEF CallTool, Go, At, Spawn, Types, Registered, Places, Leased, Cancellable,
           Holding, Running, Prepared
  <2>5. child'[m] = "running" => Op(m, "child", RootOf[m]) \in ops'
    BY <1>11, OpsDiffer DEF CallTool, Go, At, Spawn, Types, Placed, Fits, Registered
  <2>. QED
    BY <2>1, <2>2, <2>3, <2>4, <2>5, OwnOps
<1>12. ASSUME NEW m \in Messages, Answer(m) PROVE Registered'
  BY <1>12, OpFields, Constants
     DEF Answer, Go, At, Types, Placed, Fits, Registered, OpFits, Places, Leased,
         Cancellable, Holding, Running, Prepared, admission, store
<1>13. ASSUME NEW m \in Messages, TimeOut(m) PROVE Registered'
  BY <1>13, OpFields, Constants
     DEF TimeOut, Go, At, Types, Placed, Fits, Registered, OpFits, Places, Leased,
         Cancellable, Holding, Running, Prepared, admission, store
<1>14. ASSUME NEW m \in Messages, Delivered(m) PROVE Registered'
  BY <1>14, OpFields, Constants
     DEF Delivered, Go, At, Types, Placed, Fits, Registered, OpFits, Places, Leased,
         Cancellable, Holding, Running, Prepared, admission, store
<1>15. ASSUME NEW m \in Messages, Persist(m) PROVE Registered'
  <2>1. \A x \in Messages : x # m => pc'[x] = pc[x] /\ child'[x] = child[x]
    BY <1>15 DEF Persist, Go, At, LeaveRun, Record, Types
  <2>2. \A o \in Operations : o.turn # m => (o \in ops' <=> o \in ops)
    BY <1>15, OpFields DEF Persist, Go, At, LeaveRun, Record
  <2>3. ASSUME NEW o \in ops', o.turn = m PROVE OpFits(o)'
    <3>1. o \in Operations /\ o = Op(m, o.kind, o.root)
      BY <2>3, OpOf DEF Types
    <3>2. o \in ops => OpFits(o)
      BY DEF Registered
    <3>. QED
      BY <1>15, <2>3, <3>1, <3>2, OpFields, Constants
         DEF Persist, Go, At, LeaveRun, Record, Types, Placed, Fits, OpFits, Places,
             Leased, Cancellable, Holding, Running, Prepared
  <2>4. pc'[m] \in Leased => Op(m, "turn", Nobody) \in ops' \/ Op(m, "turn", RootOf[m]) \in ops'
    BY <1>15, OpsDiffer, Constants
       DEF Persist, Go, At, LeaveRun, Record, Types, Registered, Places, Leased,
           Cancellable, Holding, Running, Prepared
  <2>5. child'[m] = "running" => Op(m, "child", RootOf[m]) \in ops'
    BY <1>15, OpsDiffer
       DEF Persist, Go, At, LeaveRun, Record, Types, Placed, Fits, Registered
  <2>. QED
    BY <2>1, <2>2, <2>3, <2>4, <2>5, OwnOps
<1>16. ASSUME NEW m \in Messages, EndEarly(m) PROVE Registered'
  <2>1. \A x \in Messages : x # m => pc'[x] = pc[x] /\ child'[x] = child[x]
    BY <1>16 DEF EndEarly, Go, LeaveRun, Types
  <2>2. \A o \in Operations : o.turn # m => (o \in ops' <=> o \in ops)
    BY <1>16, OpFields DEF EndEarly, Go, LeaveRun
  <2>3. ASSUME NEW o \in ops', o.turn = m PROVE OpFits(o)'
    <3>1. o \in Operations /\ o = Op(m, o.kind, o.root)
      BY <2>3, OpOf DEF Types
    <3>2. o \in ops => OpFits(o)
      BY DEF Registered
    <3>. QED
      BY <1>16, <2>3, <3>1, <3>2, OpFields, Constants
         DEF EndEarly, Go, LeaveRun, Types, Placed, Fits, OpFits, Places, Leased,
             Cancellable, Holding, Running, Prepared
  <2>4. pc'[m] \in Leased => Op(m, "turn", Nobody) \in ops' \/ Op(m, "turn", RootOf[m]) \in ops'
    BY <1>16, OpsDiffer, Constants
       DEF EndEarly, Go, LeaveRun, Types, Registered, Places, Leased, Cancellable, Holding,
           Running, Prepared
  <2>5. child'[m] = "running" => Op(m, "child", RootOf[m]) \in ops'
    BY <1>16, OpsDiffer DEF EndEarly, Go, LeaveRun, Types, Placed, Fits, Registered
  <2>. QED
    BY <2>1, <2>2, <2>3, <2>4, <2>5, OwnOps
<1>17. ASSUME NEW m \in Messages, React(m) PROVE Registered'
  <2>1. \A x \in Messages : x # m => pc'[x] = pc[x] /\ child'[x] = child[x]
    BY <1>17 DEF React, Go, At, Unlock, Types
  <2>2. \A o \in Operations : o.turn # m => (o \in ops' <=> o \in ops)
    BY <1>17, OpFields DEF React, Go, At, Unlock
  <2>3. ASSUME NEW o \in ops', o.turn = m PROVE OpFits(o)'
    <3>1. o \in Operations /\ o = Op(m, o.kind, o.root)
      BY <2>3, OpOf DEF Types
    <3>2. o \in ops => OpFits(o)
      BY DEF Registered
    <3>. QED
      BY <1>17, <2>3, <3>1, <3>2, OpFields, Constants
         DEF React, Go, At, Unlock, Types, Placed, Fits, OpFits, Places, Leased,
             Cancellable, Holding, Running, Prepared
  <2>4. pc'[m] \in Leased => Op(m, "turn", Nobody) \in ops' \/ Op(m, "turn", RootOf[m]) \in ops'
    BY <1>17, OpsDiffer, Constants
       DEF React, Go, At, Unlock, Types, Registered, Places, Leased, Cancellable, Holding,
           Running, Prepared
  <2>5. child'[m] = "running" => Op(m, "child", RootOf[m]) \in ops'
    BY <1>17, OpsDiffer DEF React, Go, At, Unlock, Types, Placed, Fits, Registered
  <2>. QED
    BY <2>1, <2>2, <2>3, <2>4, <2>5, OwnOps
<1>18. ASSUME NEW m \in Messages, Send(m) PROVE Registered'
  BY <1>18, OpFields, Constants
     DEF Send, At, Types, Placed, Fits, Registered, OpFits, Places, Leased, Cancellable,
         Holding, Running, Prepared, admission, store
<1>19. ASSUME NEW m \in Messages, ChildStarts(m) PROVE Registered'
  <2>1. \A x \in Messages : x # m => pc'[x] = pc[x] /\ child'[x] = child[x]
    BY <1>19 DEF ChildStarts, Record, Types
  <2>2. \A o \in Operations : o.turn # m => (o \in ops' <=> o \in ops)
    BY <1>19, OpFields DEF ChildStarts, Record
  <2>3. ASSUME NEW o \in ops', o.turn = m PROVE OpFits(o)'
    <3>1. o \in Operations /\ o = Op(m, o.kind, o.root)
      BY <2>3, OpOf DEF Types
    <3>2. o \in ops => OpFits(o)
      BY DEF Registered
    <3>. QED
      <4>1. pc' = pc /\ child'[m] = "running" /\ (o \in ops \/ o = Op(m, "child", RootOf[m]))
        BY <1>19 DEF ChildStarts, Types
      <4>. QED
        BY <2>3, <3>2, <4>1, OpFields DEF OpFits
  <2>4. pc'[m] \in Leased => Op(m, "turn", Nobody) \in ops' \/ Op(m, "turn", RootOf[m]) \in ops'
    BY <1>19, OpsDiffer, Constants
       DEF ChildStarts, Record, Types, Registered, Places, Leased, Cancellable, Holding,
           Running, Prepared
  <2>5. child'[m] = "running" => Op(m, "child", RootOf[m]) \in ops'
    BY <1>19, OpsDiffer DEF ChildStarts, Record, Types, Placed, Fits, Registered
  <2>. QED
    BY <2>1, <2>2, <2>3, <2>4, <2>5, OwnOps
<1>20. ASSUME NEW m \in Messages, ChildEnds(m) PROVE Registered'
  <2>1. \A x \in Messages : x # m => pc'[x] = pc[x] /\ child'[x] = child[x]
    BY <1>20 DEF ChildEnds, Types
  <2>2. \A o \in Operations : o.turn # m => (o \in ops' <=> o \in ops)
    BY <1>20, OpFields DEF ChildEnds
  <2>3. ASSUME NEW o \in ops', o.turn = m PROVE OpFits(o)'
    <3>1. o \in Operations /\ o = Op(m, o.kind, o.root)
      BY <2>3, OpOf DEF Types
    <3>2. o \in ops => OpFits(o)
      BY DEF Registered
    <3>. QED
      BY <1>20, <2>3, <3>1, <3>2, OpFields, Constants
         DEF ChildEnds, Types, Placed, Fits, OpFits, Places, Leased, Cancellable, Holding,
             Running, Prepared
  <2>4. pc'[m] \in Leased => Op(m, "turn", Nobody) \in ops' \/ Op(m, "turn", RootOf[m]) \in ops'
    BY <1>20, OpsDiffer, Constants
       DEF ChildEnds, Types, Registered, Places, Leased, Cancellable, Holding, Running,
           Prepared
  <2>5. child'[m] = "running" => Op(m, "child", RootOf[m]) \in ops'
    BY <1>20, OpsDiffer DEF ChildEnds, Types, Placed, Fits, Registered
  <2>. QED
    BY <2>1, <2>2, <2>3, <2>4, <2>5, OwnOps
<1>21. ASSUME NEW m \in Messages, Cancelled(m) PROVE Registered'
  <2>1. \A x \in Messages : x # m => pc'[x] = pc[x] /\ child'[x] = child[x]
    BY <1>21 DEF Cancelled, Go, Unlock, LeaveRun, Types
  <2>2. \A o \in Operations : o.turn # m => (o \in ops' <=> o \in ops)
    BY <1>21, OpFields DEF Cancelled, Go, Unlock, LeaveRun
  <2>3. ASSUME NEW o \in ops', o.turn = m PROVE OpFits(o)'
    <3>1. o \in Operations /\ o = Op(m, o.kind, o.root)
      BY <2>3, OpOf DEF Types
    <3>2. o \in ops => OpFits(o)
      BY DEF Registered
    <3>3. /\ o \in ops /\ o.kind # "run" /\ child' = child
          /\ pc'[m] \in {"ending", "cleaning"}
                /\ (pc[m] \in {"resolving", "ending"} => pc'[m] = "ending")
      BY <1>21, <2>3, <3>1, OpFields
         DEF Cancelled, Go, Unlock, LeaveRun, Types, OpFits, Registered, Cancellable,
             Holding, Running, Prepared
    <3>. QED
      BY <2>3, <3>2, <3>3 DEF OpFits, Leased
  <2>4. pc'[m] \in Leased => Op(m, "turn", Nobody) \in ops' \/ Op(m, "turn", RootOf[m]) \in ops'
    <3>1. pc[m] \in Leased /\ ops' = ops \ {Op(m, "run", RootOf[m])}
      BY <1>21 DEF Cancelled, LeaveRun, Leased
    <3>. QED
      BY <3>1, OpsDiffer DEF Registered
  <2>5. child'[m] = "running" => Op(m, "child", RootOf[m]) \in ops'
    BY <1>21, OpsDiffer DEF Cancelled, Go, Unlock, LeaveRun, Types, Placed, Fits, Registered
  <2>. QED
    BY <2>1, <2>2, <2>3, <2>4, <2>5, OwnOps
<1>22. ASSUME NEW m \in Messages, Cleanup(m) PROVE Registered'
  BY <1>22, OpFields, Constants
     DEF Cleanup, Go, Types, Placed, Fits, Registered, OpFits, Places, Leased, Cancellable,
         Holding, Running, Prepared, admission, store
<1>23. ASSUME NEW m \in Messages, End(m) PROVE Registered'
  BY <1>23, OpFields, Constants
     DEF End, Go, Types, Placed, Fits, Registered, OpFits, Places, Leased, Cancellable,
         Holding, Running, Prepared, admission, store
<1>24. ASSUME NEW s \in Stops, Begin(s) PROVE Registered'
  BY <1>24, OpFields, Constants
     DEF Begin, Types, Placed, Fits, Registered, OpFits, Places, Leased, Cancellable,
         Holding, Running, Prepared, admission, store
<1>25. ASSUME NEW s \in Stops, Scan(s) PROVE Registered'
  BY <1>25, OpFields, Constants
     DEF Scan, StopTo, Types, Placed, Fits, Registered, OpFits, Places, Leased,
         Cancellable, Holding, Running, Prepared, admission, store
<1>26. ASSUME NEW s \in Stops, Drained(s) PROVE Registered'
  BY <1>26, OpFields, Constants
     DEF Drained, StopTo, Types, Placed, Fits, Registered, OpFits, Places, Leased,
         Cancellable, Holding, Running, Prepared, admission, store
<1>27. ASSUME NEW s \in Stops, GiveUp(s) PROVE Registered'
  BY <1>27, OpFields, Constants
     DEF GiveUp, StopTo, Types, Placed, Fits, Registered, OpFits, Places, Leased,
         Cancellable, Holding, Running, Prepared, admission, store
<1>28. ASSUME NEW s \in Stops, QueueReset(s) PROVE Registered'
  BY <1>28, OpFields, Constants
     DEF QueueReset, StopTo, Types, Placed, Fits, Registered, OpFits, Places, Leased,
         Cancellable, Holding, Running, Prepared, admission, store
<1>29. ASSUME NEW s \in Stops, HoldReset(s) PROVE Registered'
  BY <1>29, OpFields, Constants
     DEF HoldReset, StopTo, Types, Placed, Fits, Registered, OpFits, Places, Leased,
         Cancellable, Holding, Running, Prepared, admission, store
<1>30. ASSUME NEW s \in Stops, Erase(s) PROVE Registered'
  BY <1>30, OpFields, Constants
     DEF Erase, StopTo, Types, Placed, Fits, Registered, OpFits, Places, Leased,
         Cancellable, Holding, Running, Prepared, admission, store
<1>31. ASSUME NEW r \in Roots, Expire(r) PROVE Registered'
  BY <1>31, OpFields, Constants
     DEF Expire, Types, Placed, Fits, Registered, OpFits, Places, Leased, Cancellable,
         Holding, Running, Prepared, admission, store
<1>32. CASE UNCHANGED vars
  BY <1>32
     DEF vars, admission, store, Types, Placed, Fits, Registered, OpFits, Places, Leased,
         Cancellable, Holding, Running, Prepared, admission, store
<1>. QED
  BY <1>1, <1>2, <1>3, <1>4, <1>5, <1>6, <1>7, <1>8, <1>9, <1>10, <1>11, <1>12, <1>13,
     <1>14, <1>15, <1>16, <1>17, <1>18, <1>19, <1>20, <1>21, <1>22, <1>23, <1>24, <1>25,
     <1>26, <1>27, <1>28, <1>29, <1>30, <1>31, <1>32
     DEF Next, Enter, Turn, Child, Leave, Cancel

-----------------------------------------------------------------------------
(* Admission counts the leases.                                             *)

LEMMA LeasedFinite ==
    /\ IsFiniteSet(LeasedTurns) /\ \A u \in Users : IsFiniteSet(LeasedOf(u))
    /\ Cardinality(LeasedTurns) \in Nat /\ \A u \in Users : Cardinality(LeasedOf(u)) \in Nat
<1>1. IsFiniteSet(LeasedTurns)
  BY Constants, FS_Subset DEF LeasedTurns
<1>2. \A u \in Users : IsFiniteSet(LeasedOf(u))
  BY Constants, FS_Subset DEF LeasedOf
<1>. QED
  BY <1>1, <1>2, FS_CardinalityType

LEMMA SameLeases ==
    ASSUME Counted, UNCHANGED <<total, perUser>>,
           \A x \in Messages : pc'[x] \in Leased <=> pc[x] \in Leased
    PROVE  Counted'
<1>1. LeasedTurns' = LeasedTurns
  BY DEF LeasedTurns
<1>2. \A u \in Users : LeasedOf(u)' = LeasedOf(u)
  BY DEF LeasedOf
<1>. QED
  BY <1>1, <1>2 DEF Counted

LEMMA AdmitCounts ==
    ASSUME Types, Types', Counted, NEW m \in Messages, Admit(m)
    PROVE  Counted'
<1>. DEFINE w == UserOf[m]
<1>1. /\ pc[m] \notin Leased /\ pc'[m] \in Leased /\ \A x \in Messages : x # m => pc'[x] = pc[x]
      /\ w \in Users
  BY Constants DEF Types, Admit, Go, Leased, Cancellable, Holding, Running, Prepared
<1>2. total' = total + 1 /\ perUser' = [perUser EXCEPT ![w] = perUser[w] + 1]
      /\ perUser \in [Users -> Int]
  BY DEF Admit, Types
<1>3. total < MaxActive /\ perUser[w] < MaxActivePerUser
  BY DEF Admit, HasCapacity
<1>. HIDE DEF w
<1>4. LeasedTurns' = LeasedTurns \cup {m} /\ m \notin LeasedTurns
  BY <1>1 DEF LeasedTurns
<1>5. LeasedOf(w)' = LeasedOf(w) \cup {m} /\ m \notin LeasedOf(w)
  BY <1>1 DEF LeasedOf, w
<1>6. \A u \in Users : u # w => LeasedOf(u)' = LeasedOf(u)
  BY <1>1 DEF LeasedOf, w
<1>7. Cardinality(LeasedTurns') = Cardinality(LeasedTurns) + 1
  BY <1>4, LeasedFinite, FS_AddElement
<1>8. Cardinality(LeasedOf(w)') = Cardinality(LeasedOf(w)) + 1
  BY <1>1, <1>5, LeasedFinite, FS_AddElement
<1>9. total' = Cardinality(LeasedTurns') /\ total' <= MaxActive
  BY <1>2, <1>3, <1>7, LeasedFinite, Constants DEF Counted
<1>10. ASSUME NEW u \in Users
      PROVE perUser'[u] = Cardinality(LeasedOf(u)') /\ perUser'[u] <= MaxActivePerUser
  <2>1. CASE u = w
    BY <2>1, <1>1, <1>2, <1>3, <1>8, LeasedFinite, Constants DEF Counted
  <2>2. CASE u # w
    BY <2>2, <1>2, <1>6 DEF Counted
  <2>. QED
    BY <2>1, <2>2
<1>. QED
  BY <1>9, <1>10 DEF Counted

LEMMA EndCounts ==
    ASSUME Types, Types', Counted, NEW m \in Messages, End(m)
    PROVE  Counted'
<1>. DEFINE w == UserOf[m]
<1>1. /\ pc[m] \in Leased /\ pc'[m] \notin Leased /\ \A x \in Messages : x # m => pc'[x] = pc[x]
      /\ w \in Users
  BY Constants DEF Types, End, Go, Leased, Cancellable, Holding, Running, Prepared
<1>2. total' = total - 1 /\ perUser' = [perUser EXCEPT ![w] = perUser[w] - 1]
      /\ perUser \in [Users -> Int]
  BY DEF End, Types
<1>. HIDE DEF w
<1>4. LeasedTurns' = LeasedTurns \ {m} /\ m \in LeasedTurns
  BY <1>1 DEF LeasedTurns
<1>5. LeasedOf(w)' = LeasedOf(w) \ {m} /\ m \in LeasedOf(w)
  BY <1>1 DEF LeasedOf, w
<1>6. \A u \in Users : u # w => LeasedOf(u)' = LeasedOf(u)
  BY <1>1 DEF LeasedOf, w
<1>7. Cardinality(LeasedTurns') = Cardinality(LeasedTurns) - 1
  BY <1>4, LeasedFinite, FS_RemoveElement
<1>8. Cardinality(LeasedOf(w)') = Cardinality(LeasedOf(w)) - 1
  BY <1>1, <1>5, LeasedFinite, FS_RemoveElement
<1>9. total' = Cardinality(LeasedTurns') /\ total' <= MaxActive
  BY <1>2, <1>7, LeasedFinite, Constants DEF Counted
<1>10. ASSUME NEW u \in Users
      PROVE perUser'[u] = Cardinality(LeasedOf(u)') /\ perUser'[u] <= MaxActivePerUser
  <2>1. CASE u = w
    BY <2>1, <1>1, <1>2, <1>8, LeasedFinite, Constants DEF Counted
  <2>2. CASE u # w
    BY <2>2, <1>2, <1>6 DEF Counted
  <2>. QED
    BY <2>1, <2>2
<1>. QED
  BY <1>9, <1>10 DEF Counted

LEMMA CountedStep ==
    ASSUME Types, Types', Counted, [Next]_vars
    PROVE  Counted'
<1>1. ASSUME NEW m \in Messages, Admit(m) PROVE Counted'
  BY <1>1, AdmitCounts
<1>2. ASSUME NEW m \in Messages, Reject(m) PROVE Counted'
  <2>1. \A x \in Messages : pc'[x] \in Leased <=> pc[x] \in Leased
    BY <1>2
       DEF Reject, Go, admission, Types, Places, Leased, Cancellable, Holding, Running,
           Prepared
  <2>2. UNCHANGED <<total, perUser>>
    BY <1>2 DEF Reject, admission
  <2>. QED
    BY <2>1, <2>2, SameLeases
<1>3. ASSUME NEW m \in Messages, Drop(m) PROVE Counted'
  <2>1. \A x \in Messages : pc'[x] \in Leased <=> pc[x] \in Leased
    BY <1>3
       DEF Drop, Go, At, admission, Types, Places, Leased, Cancellable, Holding, Running,
           Prepared
  <2>2. UNCHANGED <<total, perUser>>
    BY <1>3 DEF Drop, admission
  <2>. QED
    BY <2>1, <2>2, SameLeases
<1>4. ASSUME NEW m \in Messages, Resolve(m) PROVE Counted'
  <2>1. \A x \in Messages : pc'[x] \in Leased <=> pc[x] \in Leased
    BY <1>4
       DEF Resolve, Go, At, GetOrCreate, admission, Types, Places, Leased, Cancellable,
           Holding, Running, Prepared
  <2>2. UNCHANGED <<total, perUser>>
    BY <1>4 DEF Resolve, admission
  <2>. QED
    BY <2>1, <2>2, SameLeases
<1>5. ASSUME NEW m \in Messages, Queue(m) PROVE Counted'
  <2>1. \A x \in Messages : pc'[x] \in Leased <=> pc[x] \in Leased
    BY <1>5
       DEF Queue, Go, At, admission, Types, Places, Leased, Cancellable, Holding, Running,
           Prepared
  <2>2. UNCHANGED <<total, perUser>>
    BY <1>5 DEF Queue, admission
  <2>. QED
    BY <2>1, <2>2, SameLeases
<1>6. ASSUME NEW m \in Messages, RecheckFails(m) PROVE Counted'
  <2>1. \A x \in Messages : pc'[x] \in Leased <=> pc[x] \in Leased
    BY <1>6
       DEF RecheckFails, Go, At, HasRoot, Unlock, admission, Types, Places, Leased,
           Cancellable, Holding, Running, Prepared
  <2>2. UNCHANGED <<total, perUser>>
    BY <1>6 DEF RecheckFails, admission
  <2>. QED
    BY <2>1, <2>2, SameLeases
<1>7. ASSUME NEW m \in Messages, StartRun(m) PROVE Counted'
  <2>1. \A x \in Messages : pc'[x] \in Leased <=> pc[x] \in Leased
    BY <1>7
       DEF StartRun, Go, At, HasRoot, admission, Types, Places, Leased, Cancellable,
           Holding, Running, Prepared
  <2>2. UNCHANGED <<total, perUser>>
    BY <1>7 DEF StartRun, admission
  <2>. QED
    BY <2>1, <2>2, SameLeases
<1>8. ASSUME NEW m \in Messages, Touch(m) PROVE Counted'
  <2>1. \A x \in Messages : pc'[x] \in Leased <=> pc[x] \in Leased
    BY <1>8
       DEF Touch, Go, At, GetOrCreate, admission, Types, Places, Leased, Cancellable,
           Holding, Running, Prepared
  <2>2. UNCHANGED <<total, perUser>>
    BY <1>8 DEF Touch, admission
  <2>. QED
    BY <2>1, <2>2, SameLeases
<1>9. ASSUME NEW m \in Messages, SaveMessage(m) PROVE Counted'
  <2>1. \A x \in Messages : pc'[x] \in Leased <=> pc[x] \in Leased
    BY <1>9
       DEF SaveMessage, Go, At, Spawn, admission, Types, Places, Leased, Cancellable,
           Holding, Running, Prepared
  <2>2. UNCHANGED <<total, perUser>>
    BY <1>9 DEF SaveMessage, admission
  <2>. QED
    BY <2>1, <2>2, SameLeases
<1>10. ASSUME NEW m \in Messages, Saved(m) PROVE Counted'
  <2>1. \A x \in Messages : pc'[x] \in Leased <=> pc[x] \in Leased
    BY <1>10
       DEF Saved, Go, At, admission, Types, Places, Leased, Cancellable, Holding, Running,
           Prepared
  <2>2. UNCHANGED <<total, perUser>>
    BY <1>10 DEF Saved, admission
  <2>. QED
    BY <2>1, <2>2, SameLeases
<1>11. ASSUME NEW m \in Messages, CallTool(m) PROVE Counted'
  <2>1. \A x \in Messages : pc'[x] \in Leased <=> pc[x] \in Leased
    BY <1>11
       DEF CallTool, Go, At, Spawn, admission, Types, Places, Leased, Cancellable, Holding,
           Running, Prepared
  <2>2. UNCHANGED <<total, perUser>>
    BY <1>11 DEF CallTool, admission
  <2>. QED
    BY <2>1, <2>2, SameLeases
<1>12. ASSUME NEW m \in Messages, Answer(m) PROVE Counted'
  <2>1. \A x \in Messages : pc'[x] \in Leased <=> pc[x] \in Leased
    BY <1>12
       DEF Answer, Go, At, admission, Types, Places, Leased, Cancellable, Holding, Running,
           Prepared
  <2>2. UNCHANGED <<total, perUser>>
    BY <1>12 DEF Answer, admission
  <2>. QED
    BY <2>1, <2>2, SameLeases
<1>13. ASSUME NEW m \in Messages, TimeOut(m) PROVE Counted'
  <2>1. \A x \in Messages : pc'[x] \in Leased <=> pc[x] \in Leased
    BY <1>13
       DEF TimeOut, Go, At, admission, Types, Places, Leased, Cancellable, Holding,
           Running, Prepared
  <2>2. UNCHANGED <<total, perUser>>
    BY <1>13 DEF TimeOut, admission
  <2>. QED
    BY <2>1, <2>2, SameLeases
<1>14. ASSUME NEW m \in Messages, Delivered(m) PROVE Counted'
  <2>1. \A x \in Messages : pc'[x] \in Leased <=> pc[x] \in Leased
    BY <1>14
       DEF Delivered, Go, At, admission, Types, Places, Leased, Cancellable, Holding,
           Running, Prepared
  <2>2. UNCHANGED <<total, perUser>>
    BY <1>14 DEF Delivered, admission
  <2>. QED
    BY <2>1, <2>2, SameLeases
<1>15. ASSUME NEW m \in Messages, Persist(m) PROVE Counted'
  <2>1. \A x \in Messages : pc'[x] \in Leased <=> pc[x] \in Leased
    BY <1>15
       DEF Persist, Go, At, LeaveRun, Record, admission, Types, Places, Leased,
           Cancellable, Holding, Running, Prepared
  <2>2. UNCHANGED <<total, perUser>>
    BY <1>15 DEF Persist, admission
  <2>. QED
    BY <2>1, <2>2, SameLeases
<1>16. ASSUME NEW m \in Messages, EndEarly(m) PROVE Counted'
  <2>1. \A x \in Messages : pc'[x] \in Leased <=> pc[x] \in Leased
    BY <1>16
       DEF EndEarly, Go, LeaveRun, admission, Types, Places, Leased, Cancellable, Holding,
           Running, Prepared
  <2>2. UNCHANGED <<total, perUser>>
    BY <1>16 DEF EndEarly, admission
  <2>. QED
    BY <2>1, <2>2, SameLeases
<1>17. ASSUME NEW m \in Messages, React(m) PROVE Counted'
  <2>1. \A x \in Messages : pc'[x] \in Leased <=> pc[x] \in Leased
    BY <1>17
       DEF React, Go, At, Unlock, admission, Types, Places, Leased, Cancellable, Holding,
           Running, Prepared
  <2>2. UNCHANGED <<total, perUser>>
    BY <1>17 DEF React, admission
  <2>. QED
    BY <2>1, <2>2, SameLeases
<1>18. ASSUME NEW m \in Messages, Send(m) PROVE Counted'
  <2>1. \A x \in Messages : pc'[x] \in Leased <=> pc[x] \in Leased
    BY <1>18 DEF Send, At, admission
  <2>2. UNCHANGED <<total, perUser>>
    BY <1>18 DEF Send, admission
  <2>. QED
    BY <2>1, <2>2, SameLeases
<1>19. ASSUME NEW m \in Messages, ChildStarts(m) PROVE Counted'
  <2>1. \A x \in Messages : pc'[x] \in Leased <=> pc[x] \in Leased
    BY <1>19 DEF ChildStarts, Record, admission
  <2>2. UNCHANGED <<total, perUser>>
    BY <1>19 DEF ChildStarts, admission
  <2>. QED
    BY <2>1, <2>2, SameLeases
<1>20. ASSUME NEW m \in Messages, ChildEnds(m) PROVE Counted'
  <2>1. \A x \in Messages : pc'[x] \in Leased <=> pc[x] \in Leased
    BY <1>20 DEF ChildEnds, admission
  <2>2. UNCHANGED <<total, perUser>>
    BY <1>20 DEF ChildEnds, admission
  <2>. QED
    BY <2>1, <2>2, SameLeases
<1>21. ASSUME NEW m \in Messages, Cancelled(m) PROVE Counted'
  <2>1. \A x \in Messages : pc'[x] \in Leased <=> pc[x] \in Leased
    BY <1>21
       DEF Cancelled, Go, Unlock, LeaveRun, admission, Types, Places, Leased, Cancellable,
           Holding, Running, Prepared
  <2>2. UNCHANGED <<total, perUser>>
    BY <1>21 DEF Cancelled, admission
  <2>. QED
    BY <2>1, <2>2, SameLeases
<1>22. ASSUME NEW m \in Messages, Cleanup(m) PROVE Counted'
  <2>1. \A x \in Messages : pc'[x] \in Leased <=> pc[x] \in Leased
    BY <1>22
       DEF Cleanup, Go, admission, Types, Places, Leased, Cancellable, Holding, Running,
           Prepared
  <2>2. UNCHANGED <<total, perUser>>
    BY <1>22 DEF Cleanup, admission
  <2>. QED
    BY <2>1, <2>2, SameLeases
<1>23. ASSUME NEW m \in Messages, End(m) PROVE Counted'
  BY <1>23, EndCounts
<1>24. ASSUME NEW s \in Stops, Begin(s) PROVE Counted'
  <2>1. \A x \in Messages : pc'[x] \in Leased <=> pc[x] \in Leased
    BY <1>24 DEF Begin, admission
  <2>2. UNCHANGED <<total, perUser>>
    BY <1>24 DEF Begin, admission
  <2>. QED
    BY <2>1, <2>2, SameLeases
<1>25. ASSUME NEW s \in Stops, Scan(s) PROVE Counted'
  <2>1. \A x \in Messages : pc'[x] \in Leased <=> pc[x] \in Leased
    BY <1>25 DEF Scan, StopTo, admission
  <2>2. UNCHANGED <<total, perUser>>
    BY <1>25 DEF Scan, admission
  <2>. QED
    BY <2>1, <2>2, SameLeases
<1>26. ASSUME NEW s \in Stops, Drained(s) PROVE Counted'
  <2>1. \A x \in Messages : pc'[x] \in Leased <=> pc[x] \in Leased
    BY <1>26 DEF Drained, StopTo, admission
  <2>2. UNCHANGED <<total, perUser>>
    BY <1>26 DEF Drained, admission
  <2>. QED
    BY <2>1, <2>2, SameLeases
<1>27. ASSUME NEW s \in Stops, GiveUp(s) PROVE Counted'
  <2>1. \A x \in Messages : pc'[x] \in Leased <=> pc[x] \in Leased
    BY <1>27 DEF GiveUp, StopTo, admission
  <2>2. UNCHANGED <<total, perUser>>
    BY <1>27 DEF GiveUp, admission
  <2>. QED
    BY <2>1, <2>2, SameLeases
<1>28. ASSUME NEW s \in Stops, QueueReset(s) PROVE Counted'
  <2>1. \A x \in Messages : pc'[x] \in Leased <=> pc[x] \in Leased
    BY <1>28 DEF QueueReset, StopTo, admission
  <2>2. UNCHANGED <<total, perUser>>
    BY <1>28 DEF QueueReset, admission
  <2>. QED
    BY <2>1, <2>2, SameLeases
<1>29. ASSUME NEW s \in Stops, HoldReset(s) PROVE Counted'
  <2>1. \A x \in Messages : pc'[x] \in Leased <=> pc[x] \in Leased
    BY <1>29 DEF HoldReset, StopTo, admission
  <2>2. UNCHANGED <<total, perUser>>
    BY <1>29 DEF HoldReset, admission
  <2>. QED
    BY <2>1, <2>2, SameLeases
<1>30. ASSUME NEW s \in Stops, Erase(s) PROVE Counted'
  <2>1. \A x \in Messages : pc'[x] \in Leased <=> pc[x] \in Leased
    BY <1>30 DEF Erase, StopTo, admission
  <2>2. UNCHANGED <<total, perUser>>
    BY <1>30 DEF Erase, admission
  <2>. QED
    BY <2>1, <2>2, SameLeases
<1>31. ASSUME NEW r \in Roots, Expire(r) PROVE Counted'
  <2>1. \A x \in Messages : pc'[x] \in Leased <=> pc[x] \in Leased
    BY <1>31 DEF Expire, admission
  <2>2. UNCHANGED <<total, perUser>>
    BY <1>31 DEF Expire, admission
  <2>. QED
    BY <2>1, <2>2, SameLeases
<1>32. CASE UNCHANGED vars
  BY <1>32, SameLeases DEF vars
<1>. QED
  BY <1>1, <1>2, <1>3, <1>4, <1>5, <1>6, <1>7, <1>8, <1>9, <1>10, <1>11, <1>12, <1>13,
     <1>14, <1>15, <1>16, <1>17, <1>18, <1>19, <1>20, <1>21, <1>22, <1>23, <1>24, <1>25,
     <1>26, <1>27, <1>28, <1>29, <1>30, <1>31, <1>32
     DEF Next, Enter, Turn, Child, Leave, Cancel

-----------------------------------------------------------------------------
(* The cancelling calls, and what they are about.                           *)

LEMMA CallStays ==
    ASSUME Types, NEW t \in Stops, CallFits(stop[t]), stop'[t] = stop[t],
           closed => closed',
           \A x \in Messages : pc[x] \notin {"new", "rejected"}
                 => pc'[x] \notin {"new", "rejected"},
           \A x \in Messages : pc[x] = "done" /\ child[x] = "none"
                                 => pc'[x] = "done" /\ child'[x] = "none",
           closed /\ ops = {} => ops' = {},
           \A r \in Roots : \A i \in 1..Len(log'[r]) :
                (\E j \in 1..Len(log[r]) : log[r][j] = log'[r][i]) \/ pc[log'[r][i]] # "done"
    PROVE  CallFits(stop[t])'
<1>. DEFINE c == stop[t]
<1>1. c \in Calls
  BY DEF Types
<1>2. c.before \in SUBSET Messages
  BY <1>1 DEF Calls
<1>3. /\ c.pc # "idle" => c.kind \in Kinds /\ c.user \in Users /\ c.root \in Roots
      /\ c.pc # "idle" /\ c.kind = "shutdown" => closed'
      /\ c.pc \in Clean /\ c.kind = "shutdown" => ops' = {}
  BY DEF CallFits, Clean
<1>4. ASSUME NEW x \in c.before
      PROVE  /\ pc'[x] \notin {"new", "rejected"}
             /\ c.kind = "shutdown" \/ (UserOf[x] = c.user /\ RootOf[x] = c.root)
             /\ c.pc \in Clean => pc'[x] = "done" /\ child'[x] = "none"
  BY <1>2 DEF CallFits
<1>5. ASSUME c.pc = "cleared", NEW i \in 1..Len(log'[c.root])
      PROVE log'[c.root][i] \notin c.before
  <2>1. c.root \in Roots /\ \A x \in c.before : pc[x] = "done"
    BY <1>5 DEF CallFits, Clean
  <2>2. \A j \in 1..Len(log[c.root]) : log[c.root][j] \notin c.before
    BY <1>5 DEF CallFits
  <2>. QED
    BY <1>5, <2>1, <2>2
<1>. HIDE DEF c
<1>6. stop'[t] = c
  BY DEF c
<1>. QED
  BY <1>3, <1>4, <1>5, <1>6 DEF CallFits

\* With nothing registered no turn and no child is in flight.
LEMMA NothingLeft ==
    ASSUME Types, Placed, Registered, ops = {}, NEW x \in Messages
    PROVE  pc[x] \notin Leased /\ child[x] = "none"
<1>1. pc[x] \notin Leased /\ child[x] # "running"
  BY DEF Registered
<1>2. child[x] = "spawned" => pc[x] \in Leased
  BY DEF Placed, Fits, Leased, Cancellable, Holding, Running, Prepared
<1>. QED
  BY <1>1, <1>2 DEF Types

\* Nothing a call is about is in flight when it finds no operation.
LEMMA NothingMatches ==
    ASSUME Types, Placed, Registered, CallsFit, NEW s \in Stops, Matching(stop[s]) = {},
           stop[s].pc = "scan"
    PROVE  /\ \A x \in stop[s].before : pc[x] = "done" /\ child[x] = "none"
           /\ stop[s].kind = "shutdown" => ops = {}
<1>. DEFINE c == stop[s]
<1>1. /\ c.before \in SUBSET Messages
      /\ \A x \in c.before : /\ pc[x] \notin {"new", "rejected"}
                             /\ c.kind = "shutdown"
                                   \/ (UserOf[x] = c.user /\ RootOf[x] = c.root)
  BY DEF CallsFit, CallFits, Types, Calls
<1>2. \A o \in ops : ~Matches(o, c)
  BY DEF Matching
<1>. HIDE DEF c
<1>3. ASSUME NEW x \in c.before PROVE pc[x] \notin Leased /\ child[x] # "running"
  <2>1. x \in Messages
    BY <1>1
  <2>2. \A k, q : q \in {RootOf[x], Nobody} => Matches(Op(x, k, q), c)
    BY <1>1, OpFields DEF Matches
  <2>. QED
    BY <1>2, <2>1, <2>2 DEF Registered
<1>4. ASSUME NEW x \in c.before PROVE pc[x] = "done" /\ child[x] = "none"
  BY <1>1, <1>3, <1>4
     DEF Types, Placed, Fits, Leased, Cancellable, Holding, Running, Prepared, Places
<1>5. c.kind = "shutdown" => ops = {}
  BY <1>2 DEF Matches
<1>. QED
  BY <1>4, <1>5 DEF c

LEMMA LogGrows ==
    ASSUME Types, NEW m \in Messages, pc[m] # "done",
           log' = log \/ log' = [log EXCEPT ![RootOf[m]] = Append(log[RootOf[m]], m)]
    PROVE  \A r \in Roots : \A i \in 1..Len(log'[r]) :
             (\E j \in 1..Len(log[r]) : log[r][j] = log'[r][i]) \/ pc[log'[r][i]] # "done"
<1>1. CASE log' = log
  BY <1>1
<1>2. CASE log' = [log EXCEPT ![RootOf[m]] = Append(log[RootOf[m]], m)]
  <2>1. ASSUME NEW r \in Roots, r # RootOf[m] PROVE log'[r] = log[r]
    BY <1>2, <2>1 DEF Types
  <2>2. ASSUME NEW r \in Roots, r = RootOf[m], NEW i \in 1..Len(log'[r])
        PROVE (\E j \in 1..Len(log[r]) : log[r][j] = log'[r][i]) \/ pc[log'[r][i]] # "done"
    <3>1. log[r] \in Seq(Messages) /\ log'[r] = Append(log[r], m)
      BY <1>2, <2>2 DEF Types
    <3>. QED
      BY <2>2, <3>1
  <2>. QED
    BY <2>1, <2>2
<1>. QED
  BY <1>1, <1>2

LEMMA CallsStep ==
    ASSUME Types, Types', Placed, Placed', Registered, CallsFit, [Next]_vars
    PROVE  CallsFit'
<1>1. ASSUME NEW m \in Messages, Admit(m) PROVE CallsFit'
  <2>1. UNCHANGED stop /\ (closed => closed')
    BY <1>1 DEF Admit, admission
  <2>2. \A x \in Messages :
          /\ pc[x] \notin {"new", "rejected"} => pc'[x] \notin {"new", "rejected"}
          /\ pc[x] = "done" /\ child[x] = "none" => pc'[x] = "done" /\ child'[x] = "none"
    BY <1>1
       DEF Admit, Go, HasCapacity, admission, Types, Fits, Placed, Leased, Cancellable,
           Holding, Running, Prepared
  <2>3. closed /\ ops = {} => ops' = {}
    BY <1>1 DEF Admit
  <2>4. \A r \in Roots : \A i \in 1..Len(log'[r]) :
          (\E j \in 1..Len(log[r]) : log[r][j] = log'[r][i]) \/ pc[log'[r][i]] # "done"
    BY <1>1 DEF Admit, store
  <2>. QED
    BY <2>1, <2>2, <2>3, <2>4, CallStays DEF CallsFit
<1>2. ASSUME NEW m \in Messages, Reject(m) PROVE CallsFit'
  <2>1. UNCHANGED stop /\ (closed => closed')
    BY <1>2 DEF Reject, admission
  <2>2. \A x \in Messages :
          /\ pc[x] \notin {"new", "rejected"} => pc'[x] \notin {"new", "rejected"}
          /\ pc[x] = "done" /\ child[x] = "none" => pc'[x] = "done" /\ child'[x] = "none"
    BY <1>2
       DEF Reject, Go, admission, Types, Fits, Placed, Leased, Cancellable, Holding,
           Running, Prepared
  <2>3. closed /\ ops = {} => ops' = {}
    BY <1>2, NothingLeft
       DEF Reject, Go, admission, Types, Leased, Cancellable, Holding, Running, Prepared
  <2>4. \A r \in Roots : \A i \in 1..Len(log'[r]) :
          (\E j \in 1..Len(log[r]) : log[r][j] = log'[r][i]) \/ pc[log'[r][i]] # "done"
    BY <1>2 DEF Reject, store
  <2>. QED
    BY <2>1, <2>2, <2>3, <2>4, CallStays DEF CallsFit
<1>3. ASSUME NEW m \in Messages, Drop(m) PROVE CallsFit'
  <2>1. UNCHANGED stop /\ (closed => closed')
    BY <1>3 DEF Drop, admission
  <2>2. \A x \in Messages :
          /\ pc[x] \notin {"new", "rejected"} => pc'[x] \notin {"new", "rejected"}
          /\ pc[x] = "done" /\ child[x] = "none" => pc'[x] = "done" /\ child'[x] = "none"
    BY <1>3
       DEF Drop, Go, At, admission, Types, Fits, Placed, Leased, Cancellable, Holding,
           Running, Prepared
  <2>3. closed /\ ops = {} => ops' = {}
    BY <1>3, NothingLeft
       DEF Drop, Go, At, admission, Types, Leased, Cancellable, Holding, Running, Prepared
  <2>4. \A r \in Roots : \A i \in 1..Len(log'[r]) :
          (\E j \in 1..Len(log[r]) : log[r][j] = log'[r][i]) \/ pc[log'[r][i]] # "done"
    BY <1>3 DEF Drop, store
  <2>. QED
    BY <2>1, <2>2, <2>3, <2>4, CallStays DEF CallsFit
<1>4. ASSUME NEW m \in Messages, Resolve(m) PROVE CallsFit'
  <2>1. UNCHANGED stop /\ (closed => closed')
    BY <1>4 DEF Resolve, admission
  <2>2. \A x \in Messages :
          /\ pc[x] \notin {"new", "rejected"} => pc'[x] \notin {"new", "rejected"}
          /\ pc[x] = "done" /\ child[x] = "none" => pc'[x] = "done" /\ child'[x] = "none"
    BY <1>4
       DEF Resolve, Go, At, GetOrCreate, admission, Types, Fits, Placed, Leased,
           Cancellable, Holding, Running, Prepared
  <2>3. closed /\ ops = {} => ops' = {}
    BY <1>4, NothingLeft
       DEF Resolve, Go, At, GetOrCreate, admission, Types, Leased, Cancellable, Holding,
           Running, Prepared
  <2>4. \A r \in Roots : \A i \in 1..Len(log'[r]) :
          (\E j \in 1..Len(log[r]) : log[r][j] = log'[r][i]) \/ pc[log'[r][i]] # "done"
    BY <1>4 DEF Resolve, GetOrCreate, store
  <2>. QED
    BY <2>1, <2>2, <2>3, <2>4, CallStays DEF CallsFit
<1>5. ASSUME NEW m \in Messages, Queue(m) PROVE CallsFit'
  <2>1. UNCHANGED stop /\ (closed => closed')
    BY <1>5 DEF Queue, admission
  <2>2. \A x \in Messages :
          /\ pc[x] \notin {"new", "rejected"} => pc'[x] \notin {"new", "rejected"}
          /\ pc[x] = "done" /\ child[x] = "none" => pc'[x] = "done" /\ child'[x] = "none"
    BY <1>5
       DEF Queue, Go, At, admission, Types, Fits, Placed, Leased, Cancellable, Holding,
           Running, Prepared
  <2>3. closed /\ ops = {} => ops' = {}
    BY <1>5, NothingLeft
       DEF Queue, Go, At, admission, Types, Leased, Cancellable, Holding, Running, Prepared
  <2>4. \A r \in Roots : \A i \in 1..Len(log'[r]) :
          (\E j \in 1..Len(log[r]) : log[r][j] = log'[r][i]) \/ pc[log'[r][i]] # "done"
    BY <1>5 DEF Queue, store
  <2>. QED
    BY <2>1, <2>2, <2>3, <2>4, CallStays DEF CallsFit
<1>6. ASSUME NEW m \in Messages, RecheckFails(m) PROVE CallsFit'
  <2>1. UNCHANGED stop /\ (closed => closed')
    BY <1>6 DEF RecheckFails, admission
  <2>2. \A x \in Messages :
          /\ pc[x] \notin {"new", "rejected"} => pc'[x] \notin {"new", "rejected"}
          /\ pc[x] = "done" /\ child[x] = "none" => pc'[x] = "done" /\ child'[x] = "none"
    BY <1>6
       DEF RecheckFails, Go, At, HasRoot, Unlock, admission, Types, Fits, Placed, Leased,
           Cancellable, Holding, Running, Prepared
  <2>3. closed /\ ops = {} => ops' = {}
    BY <1>6, NothingLeft
       DEF RecheckFails, Go, At, HasRoot, Unlock, admission, Types, Leased, Cancellable,
           Holding, Running, Prepared
  <2>4. \A r \in Roots : \A i \in 1..Len(log'[r]) :
          (\E j \in 1..Len(log[r]) : log[r][j] = log'[r][i]) \/ pc[log'[r][i]] # "done"
    BY <1>6 DEF RecheckFails, store
  <2>. QED
    BY <2>1, <2>2, <2>3, <2>4, CallStays DEF CallsFit
<1>7. ASSUME NEW m \in Messages, StartRun(m) PROVE CallsFit'
  <2>1. UNCHANGED stop /\ (closed => closed')
    BY <1>7 DEF StartRun, admission
  <2>2. \A x \in Messages :
          /\ pc[x] \notin {"new", "rejected"} => pc'[x] \notin {"new", "rejected"}
          /\ pc[x] = "done" /\ child[x] = "none" => pc'[x] = "done" /\ child'[x] = "none"
    BY <1>7
       DEF StartRun, Go, At, HasRoot, admission, Types, Fits, Placed, Leased, Cancellable,
           Holding, Running, Prepared
  <2>3. closed /\ ops = {} => ops' = {}
    BY <1>7, NothingLeft
       DEF StartRun, Go, At, HasRoot, admission, Types, Leased, Cancellable, Holding,
           Running, Prepared
  <2>4. \A r \in Roots : \A i \in 1..Len(log'[r]) :
          (\E j \in 1..Len(log[r]) : log[r][j] = log'[r][i]) \/ pc[log'[r][i]] # "done"
    BY <1>7 DEF StartRun, store
  <2>. QED
    BY <2>1, <2>2, <2>3, <2>4, CallStays DEF CallsFit
<1>8. ASSUME NEW m \in Messages, Touch(m) PROVE CallsFit'
  <2>1. UNCHANGED stop /\ (closed => closed')
    BY <1>8 DEF Touch, admission
  <2>2. \A x \in Messages :
          /\ pc[x] \notin {"new", "rejected"} => pc'[x] \notin {"new", "rejected"}
          /\ pc[x] = "done" /\ child[x] = "none" => pc'[x] = "done" /\ child'[x] = "none"
    BY <1>8
       DEF Touch, Go, At, GetOrCreate, admission, Types, Fits, Placed, Leased, Cancellable,
           Holding, Running, Prepared
  <2>3. closed /\ ops = {} => ops' = {}
    BY <1>8, NothingLeft
       DEF Touch, Go, At, GetOrCreate, admission, Types, Leased, Cancellable, Holding,
           Running, Prepared
  <2>4. \A r \in Roots : \A i \in 1..Len(log'[r]) :
          (\E j \in 1..Len(log[r]) : log[r][j] = log'[r][i]) \/ pc[log'[r][i]] # "done"
    BY <1>8 DEF Touch, GetOrCreate, store
  <2>. QED
    BY <2>1, <2>2, <2>3, <2>4, CallStays DEF CallsFit
<1>9. ASSUME NEW m \in Messages, SaveMessage(m) PROVE CallsFit'
  <2>1. UNCHANGED stop /\ (closed => closed')
    BY <1>9 DEF SaveMessage, admission
  <2>2. \A x \in Messages :
          /\ pc[x] \notin {"new", "rejected"} => pc'[x] \notin {"new", "rejected"}
          /\ pc[x] = "done" /\ child[x] = "none" => pc'[x] = "done" /\ child'[x] = "none"
    BY <1>9
       DEF SaveMessage, Go, At, Spawn, admission, Types, Fits, Placed, Leased, Cancellable,
           Holding, Running, Prepared
  <2>3. closed /\ ops = {} => ops' = {}
    BY <1>9, NothingLeft
       DEF SaveMessage, Go, At, Spawn, admission, Types, Leased, Cancellable, Holding,
           Running, Prepared
  <2>4. \A r \in Roots : \A i \in 1..Len(log'[r]) :
          (\E j \in 1..Len(log[r]) : log[r][j] = log'[r][i]) \/ pc[log'[r][i]] # "done"
    BY <1>9 DEF SaveMessage, store
  <2>. QED
    BY <2>1, <2>2, <2>3, <2>4, CallStays DEF CallsFit
<1>10. ASSUME NEW m \in Messages, Saved(m) PROVE CallsFit'
  <2>1. UNCHANGED stop /\ (closed => closed')
    BY <1>10 DEF Saved, admission
  <2>2. \A x \in Messages :
          /\ pc[x] \notin {"new", "rejected"} => pc'[x] \notin {"new", "rejected"}
          /\ pc[x] = "done" /\ child[x] = "none" => pc'[x] = "done" /\ child'[x] = "none"
    BY <1>10
       DEF Saved, Go, At, admission, Types, Fits, Placed, Leased, Cancellable, Holding,
           Running, Prepared
  <2>3. closed /\ ops = {} => ops' = {}
    BY <1>10, NothingLeft
       DEF Saved, Go, At, admission, Types, Leased, Cancellable, Holding, Running, Prepared
  <2>4. \A r \in Roots : \A i \in 1..Len(log'[r]) :
          (\E j \in 1..Len(log[r]) : log[r][j] = log'[r][i]) \/ pc[log'[r][i]] # "done"
    BY <1>10 DEF Saved, store
  <2>. QED
    BY <2>1, <2>2, <2>3, <2>4, CallStays DEF CallsFit
<1>11. ASSUME NEW m \in Messages, CallTool(m) PROVE CallsFit'
  <2>1. UNCHANGED stop /\ (closed => closed')
    BY <1>11 DEF CallTool, admission
  <2>2. \A x \in Messages :
          /\ pc[x] \notin {"new", "rejected"} => pc'[x] \notin {"new", "rejected"}
          /\ pc[x] = "done" /\ child[x] = "none" => pc'[x] = "done" /\ child'[x] = "none"
    BY <1>11
       DEF CallTool, Go, At, Spawn, admission, Types, Fits, Placed, Leased, Cancellable,
           Holding, Running, Prepared
  <2>3. closed /\ ops = {} => ops' = {}
    BY <1>11, NothingLeft
       DEF CallTool, Go, At, Spawn, admission, Types, Leased, Cancellable, Holding,
           Running, Prepared
  <2>4. \A r \in Roots : \A i \in 1..Len(log'[r]) :
          (\E j \in 1..Len(log[r]) : log[r][j] = log'[r][i]) \/ pc[log'[r][i]] # "done"
    BY <1>11 DEF CallTool, store
  <2>. QED
    BY <2>1, <2>2, <2>3, <2>4, CallStays DEF CallsFit
<1>12. ASSUME NEW m \in Messages, Answer(m) PROVE CallsFit'
  <2>1. UNCHANGED stop /\ (closed => closed')
    BY <1>12 DEF Answer, admission
  <2>2. \A x \in Messages :
          /\ pc[x] \notin {"new", "rejected"} => pc'[x] \notin {"new", "rejected"}
          /\ pc[x] = "done" /\ child[x] = "none" => pc'[x] = "done" /\ child'[x] = "none"
    BY <1>12
       DEF Answer, Go, At, admission, Types, Fits, Placed, Leased, Cancellable, Holding,
           Running, Prepared
  <2>3. closed /\ ops = {} => ops' = {}
    BY <1>12, NothingLeft
       DEF Answer, Go, At, admission, Types, Leased, Cancellable, Holding, Running,
           Prepared
  <2>4. \A r \in Roots : \A i \in 1..Len(log'[r]) :
          (\E j \in 1..Len(log[r]) : log[r][j] = log'[r][i]) \/ pc[log'[r][i]] # "done"
    BY <1>12 DEF Answer, store
  <2>. QED
    BY <2>1, <2>2, <2>3, <2>4, CallStays DEF CallsFit
<1>13. ASSUME NEW m \in Messages, TimeOut(m) PROVE CallsFit'
  <2>1. UNCHANGED stop /\ (closed => closed')
    BY <1>13 DEF TimeOut, admission
  <2>2. \A x \in Messages :
          /\ pc[x] \notin {"new", "rejected"} => pc'[x] \notin {"new", "rejected"}
          /\ pc[x] = "done" /\ child[x] = "none" => pc'[x] = "done" /\ child'[x] = "none"
    BY <1>13
       DEF TimeOut, Go, At, admission, Types, Fits, Placed, Leased, Cancellable, Holding,
           Running, Prepared
  <2>3. closed /\ ops = {} => ops' = {}
    BY <1>13, NothingLeft
       DEF TimeOut, Go, At, admission, Types, Leased, Cancellable, Holding, Running,
           Prepared
  <2>4. \A r \in Roots : \A i \in 1..Len(log'[r]) :
          (\E j \in 1..Len(log[r]) : log[r][j] = log'[r][i]) \/ pc[log'[r][i]] # "done"
    BY <1>13 DEF TimeOut, store
  <2>. QED
    BY <2>1, <2>2, <2>3, <2>4, CallStays DEF CallsFit
<1>14. ASSUME NEW m \in Messages, Delivered(m) PROVE CallsFit'
  <2>1. UNCHANGED stop /\ (closed => closed')
    BY <1>14 DEF Delivered, admission
  <2>2. \A x \in Messages :
          /\ pc[x] \notin {"new", "rejected"} => pc'[x] \notin {"new", "rejected"}
          /\ pc[x] = "done" /\ child[x] = "none" => pc'[x] = "done" /\ child'[x] = "none"
    BY <1>14
       DEF Delivered, Go, At, admission, Types, Fits, Placed, Leased, Cancellable, Holding,
           Running, Prepared
  <2>3. closed /\ ops = {} => ops' = {}
    BY <1>14, NothingLeft
       DEF Delivered, Go, At, admission, Types, Leased, Cancellable, Holding, Running,
           Prepared
  <2>4. \A r \in Roots : \A i \in 1..Len(log'[r]) :
          (\E j \in 1..Len(log[r]) : log[r][j] = log'[r][i]) \/ pc[log'[r][i]] # "done"
    BY <1>14 DEF Delivered, store
  <2>. QED
    BY <2>1, <2>2, <2>3, <2>4, CallStays DEF CallsFit
<1>15. ASSUME NEW m \in Messages, Persist(m) PROVE CallsFit'
  <2>1. UNCHANGED stop /\ (closed => closed')
    BY <1>15 DEF Persist, admission
  <2>2. \A x \in Messages :
          /\ pc[x] \notin {"new", "rejected"} => pc'[x] \notin {"new", "rejected"}
          /\ pc[x] = "done" /\ child[x] = "none" => pc'[x] = "done" /\ child'[x] = "none"
    BY <1>15
       DEF Persist, Go, At, LeaveRun, Record, admission, Types, Fits, Placed, Leased,
           Cancellable, Holding, Running, Prepared
  <2>3. closed /\ ops = {} => ops' = {}
    BY <1>15, NothingLeft
       DEF Persist, Go, At, LeaveRun, Record, admission, Types, Leased, Cancellable,
           Holding, Running, Prepared
  <2>4. \A r \in Roots : \A i \in 1..Len(log'[r]) :
          (\E j \in 1..Len(log[r]) : log[r][j] = log'[r][i]) \/ pc[log'[r][i]] # "done"
    <3>1. log' = log \/ (log' = [log EXCEPT ![RootOf[m]] = Append(log[RootOf[m]], m)]
          /\ pc[m] = "persisting")
      BY <1>15 DEF Persist, Go, At, LeaveRun, Record, admission, Types
    <3>. QED
      BY <3>1, LogGrows
  <2>. QED
    BY <2>1, <2>2, <2>3, <2>4, CallStays DEF CallsFit
<1>16. ASSUME NEW m \in Messages, EndEarly(m) PROVE CallsFit'
  <2>1. UNCHANGED stop /\ (closed => closed')
    BY <1>16 DEF EndEarly, admission
  <2>2. \A x \in Messages :
          /\ pc[x] \notin {"new", "rejected"} => pc'[x] \notin {"new", "rejected"}
          /\ pc[x] = "done" /\ child[x] = "none" => pc'[x] = "done" /\ child'[x] = "none"
    BY <1>16
       DEF EndEarly, Go, LeaveRun, admission, Types, Fits, Placed, Leased, Cancellable,
           Holding, Running, Prepared
  <2>3. closed /\ ops = {} => ops' = {}
    BY <1>16, NothingLeft
       DEF EndEarly, Go, LeaveRun, admission, Types, Leased, Cancellable, Holding, Running,
           Prepared
  <2>4. \A r \in Roots : \A i \in 1..Len(log'[r]) :
          (\E j \in 1..Len(log[r]) : log[r][j] = log'[r][i]) \/ pc[log'[r][i]] # "done"
    BY <1>16 DEF EndEarly, store
  <2>. QED
    BY <2>1, <2>2, <2>3, <2>4, CallStays DEF CallsFit
<1>17. ASSUME NEW m \in Messages, React(m) PROVE CallsFit'
  <2>1. UNCHANGED stop /\ (closed => closed')
    BY <1>17 DEF React, admission
  <2>2. \A x \in Messages :
          /\ pc[x] \notin {"new", "rejected"} => pc'[x] \notin {"new", "rejected"}
          /\ pc[x] = "done" /\ child[x] = "none" => pc'[x] = "done" /\ child'[x] = "none"
    BY <1>17
       DEF React, Go, At, Unlock, admission, Types, Fits, Placed, Leased, Cancellable,
           Holding, Running, Prepared
  <2>3. closed /\ ops = {} => ops' = {}
    BY <1>17, NothingLeft
       DEF React, Go, At, Unlock, admission, Types, Leased, Cancellable, Holding, Running,
           Prepared
  <2>4. \A r \in Roots : \A i \in 1..Len(log'[r]) :
          (\E j \in 1..Len(log[r]) : log[r][j] = log'[r][i]) \/ pc[log'[r][i]] # "done"
    BY <1>17 DEF React, store
  <2>. QED
    BY <2>1, <2>2, <2>3, <2>4, CallStays DEF CallsFit
<1>18. ASSUME NEW m \in Messages, Send(m) PROVE CallsFit'
  <2>1. UNCHANGED stop /\ (closed => closed')
    BY <1>18 DEF Send, admission
  <2>2. \A x \in Messages :
          /\ pc[x] \notin {"new", "rejected"} => pc'[x] \notin {"new", "rejected"}
          /\ pc[x] = "done" /\ child[x] = "none" => pc'[x] = "done" /\ child'[x] = "none"
    BY <1>18
       DEF Send, At, admission, Types, Fits, Placed, Leased, Cancellable, Holding, Running,
           Prepared
  <2>3. closed /\ ops = {} => ops' = {}
    BY <1>18, NothingLeft
       DEF Send, At, admission, Types, Leased, Cancellable, Holding, Running, Prepared
  <2>4. \A r \in Roots : \A i \in 1..Len(log'[r]) :
          (\E j \in 1..Len(log[r]) : log[r][j] = log'[r][i]) \/ pc[log'[r][i]] # "done"
    BY <1>18 DEF Send, store
  <2>. QED
    BY <2>1, <2>2, <2>3, <2>4, CallStays DEF CallsFit
<1>19. ASSUME NEW m \in Messages, ChildStarts(m) PROVE CallsFit'
  <2>1. UNCHANGED stop /\ (closed => closed')
    BY <1>19 DEF ChildStarts, admission
  <2>2. \A x \in Messages :
          /\ pc[x] \notin {"new", "rejected"} => pc'[x] \notin {"new", "rejected"}
          /\ pc[x] = "done" /\ child[x] = "none" => pc'[x] = "done" /\ child'[x] = "none"
    BY <1>19
       DEF ChildStarts, Record, admission, Types, Fits, Placed, Leased, Cancellable,
           Holding, Running, Prepared
  <2>3. closed /\ ops = {} => ops' = {}
    BY <1>19, NothingLeft
       DEF ChildStarts, Record, admission, Types, Leased, Cancellable, Holding, Running,
           Prepared
  <2>4. \A r \in Roots : \A i \in 1..Len(log'[r]) :
          (\E j \in 1..Len(log[r]) : log[r][j] = log'[r][i]) \/ pc[log'[r][i]] # "done"
    <3>1. log' = log \/ (log' = [log EXCEPT ![RootOf[m]] = Append(log[RootOf[m]], m)]
          /\ pc[m] = "saving")
      BY <1>19 DEF ChildStarts, Record, admission, Types
    <3>. QED
      BY <3>1, LogGrows
  <2>. QED
    BY <2>1, <2>2, <2>3, <2>4, CallStays DEF CallsFit
<1>20. ASSUME NEW m \in Messages, ChildEnds(m) PROVE CallsFit'
  <2>1. UNCHANGED stop /\ (closed => closed')
    BY <1>20 DEF ChildEnds, admission
  <2>2. \A x \in Messages :
          /\ pc[x] \notin {"new", "rejected"} => pc'[x] \notin {"new", "rejected"}
          /\ pc[x] = "done" /\ child[x] = "none" => pc'[x] = "done" /\ child'[x] = "none"
    BY <1>20
       DEF ChildEnds, admission, Types, Fits, Placed, Leased, Cancellable, Holding,
           Running, Prepared
  <2>3. closed /\ ops = {} => ops' = {}
    BY <1>20, NothingLeft
       DEF ChildEnds, admission, Types, Leased, Cancellable, Holding, Running, Prepared
  <2>4. \A r \in Roots : \A i \in 1..Len(log'[r]) :
          (\E j \in 1..Len(log[r]) : log[r][j] = log'[r][i]) \/ pc[log'[r][i]] # "done"
    BY <1>20 DEF ChildEnds, store
  <2>. QED
    BY <2>1, <2>2, <2>3, <2>4, CallStays DEF CallsFit
<1>21. ASSUME NEW m \in Messages, Cancelled(m) PROVE CallsFit'
  <2>1. UNCHANGED stop /\ (closed => closed')
    BY <1>21 DEF Cancelled, admission
  <2>2. \A x \in Messages :
          /\ pc[x] \notin {"new", "rejected"} => pc'[x] \notin {"new", "rejected"}
          /\ pc[x] = "done" /\ child[x] = "none" => pc'[x] = "done" /\ child'[x] = "none"
    BY <1>21
       DEF Cancelled, Go, Unlock, LeaveRun, admission, Types, Fits, Placed, Leased,
           Cancellable, Holding, Running, Prepared
  <2>3. closed /\ ops = {} => ops' = {}
    BY <1>21, NothingLeft
       DEF Cancelled, Go, Unlock, LeaveRun, admission, Types, Leased, Cancellable, Holding,
           Running, Prepared
  <2>4. \A r \in Roots : \A i \in 1..Len(log'[r]) :
          (\E j \in 1..Len(log[r]) : log[r][j] = log'[r][i]) \/ pc[log'[r][i]] # "done"
    BY <1>21 DEF Cancelled, store
  <2>. QED
    BY <2>1, <2>2, <2>3, <2>4, CallStays DEF CallsFit
<1>22. ASSUME NEW m \in Messages, Cleanup(m) PROVE CallsFit'
  <2>1. UNCHANGED stop /\ (closed => closed')
    BY <1>22 DEF Cleanup, admission
  <2>2. \A x \in Messages :
          /\ pc[x] \notin {"new", "rejected"} => pc'[x] \notin {"new", "rejected"}
          /\ pc[x] = "done" /\ child[x] = "none" => pc'[x] = "done" /\ child'[x] = "none"
    BY <1>22
       DEF Cleanup, Go, admission, Types, Fits, Placed, Leased, Cancellable, Holding,
           Running, Prepared
  <2>3. closed /\ ops = {} => ops' = {}
    BY <1>22, NothingLeft
       DEF Cleanup, Go, admission, Types, Leased, Cancellable, Holding, Running, Prepared
  <2>4. \A r \in Roots : \A i \in 1..Len(log'[r]) :
          (\E j \in 1..Len(log[r]) : log[r][j] = log'[r][i]) \/ pc[log'[r][i]] # "done"
    BY <1>22 DEF Cleanup, store
  <2>. QED
    BY <2>1, <2>2, <2>3, <2>4, CallStays DEF CallsFit
<1>23. ASSUME NEW m \in Messages, End(m) PROVE CallsFit'
  <2>1. UNCHANGED stop /\ (closed => closed')
    BY <1>23 DEF End, admission
  <2>2. \A x \in Messages :
          /\ pc[x] \notin {"new", "rejected"} => pc'[x] \notin {"new", "rejected"}
          /\ pc[x] = "done" /\ child[x] = "none" => pc'[x] = "done" /\ child'[x] = "none"
    BY <1>23
       DEF End, Go, admission, Types, Fits, Placed, Leased, Cancellable, Holding, Running,
           Prepared
  <2>3. closed /\ ops = {} => ops' = {}
    BY <1>23, NothingLeft
       DEF End, Go, admission, Types, Leased, Cancellable, Holding, Running, Prepared
  <2>4. \A r \in Roots : \A i \in 1..Len(log'[r]) :
          (\E j \in 1..Len(log[r]) : log[r][j] = log'[r][i]) \/ pc[log'[r][i]] # "done"
    BY <1>23 DEF End, store
  <2>. QED
    BY <2>1, <2>2, <2>3, <2>4, CallStays DEF CallsFit
<1>24. ASSUME NEW s \in Stops, Begin(s) PROVE CallsFit'
  <2>1. /\ UNCHANGED <<pc, child, ops>> /\ (closed => closed')
        /\ \A r \in Roots : \A i \in 1..Len(log'[r])
              : \E j \in 1..Len(log[r]) : log[r][j] = log'[r][i]
    BY <1>24 DEF Begin, store, admission
  <2>2. \A t \in Stops : t # s => stop'[t] = stop[t]
    BY <1>24, BeginMoves DEF Moved
  <2>3. CallFits(stop[s])'
    <3>1. PICK k \in Kinds, m \in Messages :
            /\ closed' = (closed \/ k = "shutdown")
            /\ stop'[s].kind = k /\ stop'[s].user = UserOf[m] /\ stop'[s].root = RootOf[m]
            /\ stop'[s].pc = "scan"
            /\ stop'[s].before = {x \in Messages : InFlight(x) /\ Concerns(x, k, m)}
      BY <1>24, BeginMoves
    <3>2. \A x \in Messages : InFlight(x) => pc[x] \notin {"new", "rejected"}
      BY DEF InFlight, Placed, Fits, Types, Leased, Cancellable, Holding, Running, Prepared
    <3>3. \A x \in stop'[s].before :
             pc'[x] \notin {"new", "rejected"} /\ (k = "shutdown"
                   \/ (UserOf[x] = UserOf[m] /\ RootOf[x] = RootOf[m]))
      BY <2>1, <3>1, <3>2 DEF Concerns
    <3>. QED
      BY <3>1, <3>3, Constants DEF CallFits, Clean
  <2>4. ASSUME NEW t \in Stops, t # s PROVE CallFits(stop[t])'
    BY <2>1, <2>2, <2>4, CallStays DEF CallsFit
  <2>. QED
    BY <2>3, <2>4 DEF CallsFit
<1>25. ASSUME NEW s \in Stops, Scan(s) PROVE CallsFit'
  <2>1. /\ UNCHANGED <<pc, child, ops>> /\ (closed => closed')
        /\ \A r \in Roots : \A i \in 1..Len(log'[r])
              : \E j \in 1..Len(log[r]) : log[r][j] = log'[r][i]
    BY <1>25 DEF Scan, store, admission
  <2>2. \A t \in Stops : t # s => stop'[t] = stop[t]
    BY <1>25, ScanMoves DEF Moved
  <2>3. CallFits(stop[s])'
    <3>1. CallFits(stop[s]) /\ stop[s].pc = "scan"
      BY <1>25 DEF CallsFit, Scan
    <3>2. CASE Moved(s, "waiting", {Task(o) : o \in Matching(stop[s])})
      BY <2>1, <3>1, <3>2 DEF CallFits, Clean, Moved
    <3>3. CASE /\ Matching(stop[s]) = {}
               /\ Moved(s, IF stop[s].kind = "reset" THEN "clean" ELSE "stopped", {})
      BY <2>1, <3>1, <3>3, NothingMatches DEF CallFits, Clean, Moved
    <3>. QED
      BY <1>25, <3>2, <3>3, ScanMoves
  <2>4. ASSUME NEW t \in Stops, t # s PROVE CallFits(stop[t])'
    BY <2>1, <2>2, <2>4, CallStays DEF CallsFit
  <2>. QED
    BY <2>3, <2>4 DEF CallsFit
<1>26. ASSUME NEW s \in Stops, Drained(s) PROVE CallsFit'
  <2>1. /\ UNCHANGED <<pc, child, ops>> /\ (closed => closed')
        /\ \A r \in Roots : \A i \in 1..Len(log'[r])
              : \E j \in 1..Len(log[r]) : log[r][j] = log'[r][i]
    BY <1>26 DEF Drained, store, admission
  <2>2. \A t \in Stops : t # s => stop'[t] = stop[t]
    BY <1>26, CancelMoves DEF Moved
  <2>3. CallFits(stop[s])'
    <3>1. CallFits(stop[s]) /\ stop[s].pc = "waiting"
      BY <1>26 DEF CallsFit, Drained
    <3>. QED
      BY <2>1, <3>1, <1>26, CancelMoves DEF CallFits, Clean, Moved
  <2>4. ASSUME NEW t \in Stops, t # s PROVE CallFits(stop[t])'
    BY <2>1, <2>2, <2>4, CallStays DEF CallsFit
  <2>. QED
    BY <2>3, <2>4 DEF CallsFit
<1>27. ASSUME NEW s \in Stops, GiveUp(s) PROVE CallsFit'
  <2>1. /\ UNCHANGED <<pc, child, ops>> /\ (closed => closed')
        /\ \A r \in Roots : \A i \in 1..Len(log'[r])
              : \E j \in 1..Len(log[r]) : log[r][j] = log'[r][i]
    BY <1>27 DEF GiveUp, store, admission
  <2>2. \A t \in Stops : t # s => stop'[t] = stop[t]
    BY <1>27, CancelMoves DEF Moved
  <2>3. CallFits(stop[s])'
    <3>1. CallFits(stop[s]) /\ stop[s].pc = "waiting"
      BY <1>27 DEF CallsFit, GiveUp
    <3>. QED
      BY <2>1, <3>1, <1>27, CancelMoves DEF CallFits, Clean, Moved
  <2>4. ASSUME NEW t \in Stops, t # s PROVE CallFits(stop[t])'
    BY <2>1, <2>2, <2>4, CallStays DEF CallsFit
  <2>. QED
    BY <2>3, <2>4 DEF CallsFit
<1>28. ASSUME NEW s \in Stops, QueueReset(s) PROVE CallsFit'
  <2>1. /\ UNCHANGED <<pc, child, ops>> /\ (closed => closed')
        /\ \A r \in Roots : \A i \in 1..Len(log'[r])
              : \E j \in 1..Len(log[r]) : log[r][j] = log'[r][i]
    BY <1>28 DEF QueueReset, store, admission
  <2>2. \A t \in Stops : t # s => stop'[t] = stop[t]
    BY <1>28, CancelMoves DEF Moved
  <2>3. CallFits(stop[s])'
    <3>1. CallFits(stop[s]) /\ stop[s].pc = "clean"
      BY <1>28 DEF CallsFit, QueueReset
    <3>. QED
      BY <2>1, <3>1, <1>28, CancelMoves DEF CallFits, Clean, Moved
  <2>4. ASSUME NEW t \in Stops, t # s PROVE CallFits(stop[t])'
    BY <2>1, <2>2, <2>4, CallStays DEF CallsFit
  <2>. QED
    BY <2>3, <2>4 DEF CallsFit
<1>29. ASSUME NEW s \in Stops, HoldReset(s) PROVE CallsFit'
  <2>1. /\ UNCHANGED <<pc, child, ops>> /\ (closed => closed')
        /\ \A r \in Roots : \A i \in 1..Len(log'[r])
              : \E j \in 1..Len(log[r]) : log[r][j] = log'[r][i]
    BY <1>29 DEF HoldReset, store, admission
  <2>2. \A t \in Stops : t # s => stop'[t] = stop[t]
    BY <1>29, CancelMoves DEF Moved
  <2>3. CallFits(stop[s])'
    <3>1. CallFits(stop[s]) /\ stop[s].pc = "locking"
      BY <1>29 DEF CallsFit, HoldReset
    <3>. QED
      BY <2>1, <3>1, <1>29, CancelMoves DEF CallFits, Clean, Moved
  <2>4. ASSUME NEW t \in Stops, t # s PROVE CallFits(stop[t])'
    BY <2>1, <2>2, <2>4, CallStays DEF CallsFit
  <2>. QED
    BY <2>3, <2>4 DEF CallsFit
<1>30. ASSUME NEW s \in Stops, Erase(s) PROVE CallsFit'
  <2>1. /\ UNCHANGED <<pc, child, ops>> /\ (closed => closed')
        /\ \A r \in Roots : \A i \in 1..Len(log'[r])
              : \E j \in 1..Len(log[r]) : log[r][j] = log'[r][i]
    <3>1. \A r \in Roots : log'[r] = log[r] \/ log'[r] = <<>>
      BY <1>30 DEF Erase, Types
    <3>2. UNCHANGED <<pc, child, ops, closed>>
      BY <1>30 DEF Erase, admission
    <3>. QED
      BY <3>1, <3>2
  <2>2. \A t \in Stops : t # s => stop'[t] = stop[t]
    BY <1>30, CancelMoves DEF Moved
  <2>3. CallFits(stop[s])'
    <3>1. CallFits(stop[s]) /\ stop[s].pc = "erasing" /\ stop[s].root \in Roots
      BY <1>30 DEF CallsFit, CallFits, Erase
    <3>2. log'[stop[s].root] = <<>>
      BY <1>30, <3>1 DEF Erase, Types
    <3>. QED
      BY <2>1, <3>1, <3>2, <1>30, CancelMoves DEF CallFits, Clean, Moved
  <2>4. ASSUME NEW t \in Stops, t # s PROVE CallFits(stop[t])'
    BY <2>1, <2>2, <2>4, CallStays DEF CallsFit
  <2>. QED
    BY <2>3, <2>4 DEF CallsFit
<1>31. ASSUME NEW r \in Roots, Expire(r) PROVE CallsFit'
  <2>1. UNCHANGED stop /\ (closed => closed')
    BY <1>31 DEF Expire, admission
  <2>2. \A x \in Messages :
          /\ pc[x] \notin {"new", "rejected"} => pc'[x] \notin {"new", "rejected"}
          /\ pc[x] = "done" /\ child[x] = "none" => pc'[x] = "done" /\ child'[x] = "none"
    BY <1>31
       DEF Expire, admission, Types, Fits, Placed, Leased, Cancellable, Holding, Running,
           Prepared
  <2>3. closed /\ ops = {} => ops' = {}
    BY <1>31, NothingLeft
       DEF Expire, admission, Types, Leased, Cancellable, Holding, Running, Prepared
  <2>4. \A q \in Roots : \A i \in 1..Len(log'[q]) :
          (\E j \in 1..Len(log[q]) : log[q][j] = log'[q][i]) \/ pc[log'[q][i]] # "done"
    BY <1>31 DEF Expire, Types
  <2>. QED
    BY <2>1, <2>2, <2>3, <2>4, CallStays DEF CallsFit
<1>32. CASE UNCHANGED vars
  <2>1. UNCHANGED <<pc, child, ops, closed, log, stop>>
    BY <1>32 DEF vars
  <2>2. \A t \in Stops : CallFits(stop[t])'
    BY <2>1 DEF CallsFit, CallFits
  <2>. QED
    BY <2>2 DEF CallsFit
<1>. QED
  BY <1>1, <1>2, <1>3, <1>4, <1>5, <1>6, <1>7, <1>8, <1>9, <1>10, <1>11, <1>12, <1>13,
     <1>14, <1>15, <1>16, <1>17, <1>18, <1>19, <1>20, <1>21, <1>22, <1>23, <1>24, <1>25,
     <1>26, <1>27, <1>28, <1>29, <1>30, <1>31, <1>32
     DEF Next, Enter, Turn, Child, Leave, Cancel

-----------------------------------------------------------------------------
(* The lines for the roots.                                                 *)

LEMMA AppendLine ==
    ASSUME NEW S, NEW q \in Seq(S), NEW p \in S, Line(q), ~In(p, q)
    PROVE  /\ Line(Append(q, p))
           /\ \A x : In(x, Append(q, p)) <=> In(x, q) \/ x = p
           /\ \A x : First(x, q) => First(x, Append(q, p))
<1>. DEFINE new == Append(q, p)
<1>1. /\ Len(new) = Len(q) + 1 /\ Len(q) \in Nat /\ new[Len(q) + 1] = p
      /\ \A i \in 1..Len(q) : new[i] = q[i]
  OBVIOUS
<1>2. \A x : First(x, q) => First(x, new)
  BY DEF First
<1>. HIDE DEF new
<1>3. \A i \in 1..Len(new) : i \in 1..Len(q) \/ i = Len(q) + 1
  BY <1>1
<1>4. Line(new)
  BY <1>1, <1>3 DEF Line, In
<1>5. \A x : In(x, new) <=> In(x, q) \/ x = p
  <2>1. ASSUME NEW x, In(x, new) PROVE In(x, q) \/ x = p
    BY <1>1, <1>3, <2>1 DEF In
  <2>2. ASSUME NEW x, In(x, q) PROVE In(x, new)
    BY <1>1, <2>2 DEF In
  <2>3. In(p, new)
    BY <1>1 DEF In
  <2>. QED
    BY <2>1, <2>2, <2>3
<1>. QED
  BY <1>2, <1>4, <1>5 DEF new

\* What leaves a queue leaves its place to those behind.
LEMMA WithoutFields ==
    ASSUME NEW S, NEW q \in Seq(S), NEW p, In(p, q)
    PROVE  \E k \in 1..Len(q) :
             /\ q[k] = p /\ Len(Without(q, p)) = Len(q) - 1
             /\ \A i \in 1..(Len(q) - 1) :
                  Without(q, p)[i] = IF i < k THEN q[i] ELSE q[i + 1]
<1>. DEFINE k == CHOOSE i \in DOMAIN q : q[i] = p
            a == SubSeq(q, 1, k - 1)
            b == SubSeq(q, k + 1, Len(q))
<1>1. /\ DOMAIN q = 1..Len(q) /\ Len(q) \in Nat /\ k \in 1..Len(q) /\ q[k] = p
      /\ \A j \in 1..Len(q) : q[j] \in S
  BY DEF In
<1>2. Without(q, p) = a \o b
  BY <1>1 DEF Without, RemoveAt
<1>. HIDE DEF k
<1>3. /\ a \in Seq(S) /\ Len(a) = k - 1
      /\ \A i \in 1..(k - 1) : a[i] = q[i]
  BY <1>1, SubSeqProperties
<1>4. /\ b \in Seq(S) /\ Len(b) = Len(q) - k
      /\ \A i \in 1..(Len(q) - k) : b[i] = q[k + i]
  <2>1. b \in Seq(S)
    BY <1>1, SubSeqProperties
  <2>2. Len(b) = Len(q) - k
    <3>1. Len(b) = IF k + 1 <= Len(q) THEN Len(q) - (k + 1) + 1 ELSE 0
      BY <1>1, SubSeqProperties
    <3>2. CASE k + 1 <= Len(q)
      BY <1>1, <3>1, <3>2
    <3>3. CASE ~(k + 1 <= Len(q))
      <4>0. k \in Int /\ Len(q) \in Int /\ k <= Len(q)
        BY <1>1
      <4>1. k = Len(q)
        BY <3>3, <4>0
      <4>2. Len(b) = 0
        BY <3>1, <3>3
      <4>. HIDE DEF b
      <4>. QED
        BY <1>1, <4>1, <4>2
    <3>. QED
      BY <3>2, <3>3
  <2>3. ASSUME NEW i \in 1..(Len(q) - k) PROVE b[i] = q[k + i]
    <3>1. i \in 1..(Len(q) - (k + 1) + 1) /\ (k + 1) + i - 1 = k + i
      BY <1>1
    <3>. QED
      BY <1>1, <3>1, SubSeqProperties
  <2>. QED
    BY <2>1, <2>2, <2>3
<1>. HIDE DEF a, b
<1>5. /\ Len(a \o b) = Len(a) + Len(b)
      /\ \A i \in 1..(Len(a) + Len(b)) : (a \o b)[i] = IF i <= Len(a) THEN a[i] ELSE b[i - Len(a)]
  BY <1>3, <1>4, ConcatProperties
<1>6. ASSUME NEW i \in 1..(Len(q) - 1) PROVE (a \o b)[i] = IF i < k THEN q[i] ELSE q[i + 1]
  <2>1. CASE i < k
    BY <1>1, <1>3, <1>4, <1>5, <2>1
  <2>2. CASE ~(i < k)
    <3>1. (a \o b)[i] = b[i - (k - 1)] /\ i - (k - 1) \in 1..(Len(q) - k)
      BY <1>1, <1>3, <1>4, <1>5, <2>2
    <3>2. k + (i - (k - 1)) = i + 1
      BY <1>1
    <3>3. b[i - (k - 1)] = q[i + 1]
      BY <1>4, <3>1, <3>2
    <3>. QED
      BY <2>2, <3>1, <3>3
  <2>. QED
    BY <2>1, <2>2
<1>7. Len(a \o b) = Len(q) - 1
  BY <1>1, <1>3, <1>4, <1>5
<1>. QED
  BY <1>1, <1>2, <1>6, <1>7

LEMMA WithoutLine ==
    ASSUME NEW S, NEW q \in Seq(S), NEW p, Line(q)
    PROVE  /\ Line(Without(q, p))
           /\ \A x : In(x, Without(q, p)) <=> In(x, q) /\ x # p
           /\ \A x : First(x, q) /\ x # p => First(x, Without(q, p))
<1>1. CASE ~In(p, q)
  <2>1. Without(q, p) = q
    BY <1>1 DEF Without, In
  <2>. QED
    BY <1>1, <2>1
<1>2. CASE In(p, q)
  <2>. DEFINE w == Without(q, p)
  <2>1. PICK k \in 1..Len(q) :
          /\ q[k] = p /\ Len(w) = Len(q) - 1
          /\ \A i \in 1..(Len(q) - 1) : w[i] = IF i < k THEN q[i] ELSE q[i + 1]
    BY <1>2, WithoutFields
  <2>2. w \in Seq(S) /\ Len(q) \in Nat
    BY WithoutType
  <2>. HIDE DEF w
  <2>3. Line(w)
    <3>. SUFFICES ASSUME NEW i \in 1..Len(w), NEW j \in 1..Len(w), w[i] = w[j] PROVE i = j
      BY DEF Line
    <3>. DEFINE f(n) == IF n < k THEN n ELSE n + 1
    <3>1. f(i) \in 1..Len(q) /\ f(j) \in 1..Len(q) /\ w[i] = q[f(i)] /\ w[j] = q[f(j)]
      BY <2>1, <2>2
    <3>2. f(i) = f(j)
      <4>. HIDE DEF f
      <4>. QED
        BY <3>1 DEF Line
    <3>. QED
      BY <2>1, <2>2, <3>2
  <2>4. ASSUME NEW x, In(x, w) PROVE In(x, q) /\ x # p
    <3>1. PICK i \in 1..Len(w) : w[i] = x
      BY <2>4 DEF In
    <3>. DEFINE n == IF i < k THEN i ELSE i + 1
    <3>2. n \in 1..Len(q) /\ n # k /\ q[n] = x
      BY <2>1, <2>2, <3>1
    <3>. HIDE DEF n
    <3>. QED
      BY <2>1, <3>2 DEF In, Line
  <2>5. ASSUME NEW x, In(x, q), x # p PROVE In(x, w)
    <3>1. PICK n \in 1..Len(q) : q[n] = x
      BY <2>5 DEF In
    <3>. DEFINE i == IF n < k THEN n ELSE n - 1
    <3>2. i \in 1..Len(w) /\ w[i] = x
      BY <2>1, <2>2, <2>5, <3>1
    <3>. HIDE DEF i
    <3>. QED
      BY <3>2 DEF In
  <2>6. ASSUME NEW x, First(x, q), x # p PROVE First(x, w)
    <3>1. Len(q) >= 1 /\ q[1] = x
      BY <2>2, <2>6 DEF First
    <3>2. k # 1 /\ Len(w) >= 1
      BY <2>1, <2>2, <2>6, <3>1
    <3>3. w[1] = x
      BY <2>1, <2>2, <3>1, <3>2
    <3>. QED
      BY <2>2, <3>2, <3>3 DEF First
  <2>. QED
    BY <2>3, <2>4, <2>5, <2>6 DEF w
<1>. QED
  BY <1>1, <1>2

-----------------------------------------------------------------------------
(* The lines for the roots: nobody moves, one joins, one leaves, the first  *)
(* takes the root.                                                          *)

LEMMA LineStays ==
    ASSUME Lined, UNCHANGED lock,
           \A p \in Parties, r \in Roots : (Waits(p, r)' <=> Waits(p, r))
                 /\ (Holds(p, r)' <=> Holds(p, r))
    PROVE  Lined'
  BY DEF Lined

LEMMA LineJoined ==
    ASSUME Types, Lined, NEW p \in Parties, NEW r \in Roots,
           lock' = [lock EXCEPT ![r] = Append(lock[r], p)], ~Waits(p, r),
           \A x \in Parties, q \in Roots :
              (Waits(x, q)' <=> Waits(x, q) \/ (x = p /\ q = r))
                    /\ (Holds(x, q)' <=> Holds(x, q))
    PROVE  Lined'
<1>1. lock[r] \in Seq(Parties) /\ lock \in [Roots -> Seq(Parties)]
  BY DEF Types
<1>2. /\ Line(lock[r]) /\ ~In(p, lock[r])
      /\ \A x \in Parties : (In(x, lock[r]) <=> Waits(x, r))
            /\ (Holds(x, r) => First(x, lock[r]))
  BY DEF Lined
<1>3. /\ Line(lock'[r])
      /\ \A x : In(x, lock'[r]) <=> In(x, lock[r]) \/ x = p
      /\ \A x : First(x, lock[r]) => First(x, lock'[r])
  BY <1>1, <1>2, AppendLine
<1>4. \A q \in Roots : q # r => lock'[q] = lock[q]
  BY <1>1
<1>5. ASSUME NEW q \in Roots
      PROVE  /\ Line(lock'[q])
             /\ \A x \in Parties : (In(x, lock'[q]) <=> Waits(x, q)')
                   /\ (Holds(x, q)' => First(x, lock'[q]))
  <2>1. CASE q = r
    BY <1>2, <1>3, <2>1
  <2>2. CASE q # r
    BY <1>4, <2>2 DEF Lined
  <2>. QED
    BY <2>1, <2>2
<1>. QED
  BY <1>5 DEF Lined

LEMMA LineLeft ==
    ASSUME Types, Lined, NEW p \in Parties, NEW r \in Roots,
           lock' = [lock EXCEPT ![r] = Without(lock[r], p)], \A q \in Roots : q # r
                 => ~Waits(p, q),
           \A x \in Parties, q \in Roots :
              (Waits(x, q)' <=> Waits(x, q) /\ x # p) /\ (Holds(x, q)' <=> Holds(x, q) /\ x # p)
    PROVE  Lined'
<1>1. lock[r] \in Seq(Parties) /\ lock \in [Roots -> Seq(Parties)]
  BY DEF Types
<1>2. /\ Line(lock[r])
      /\ \A x \in Parties : (In(x, lock[r]) <=> Waits(x, r))
            /\ (Holds(x, r) => First(x, lock[r]))
  BY DEF Lined
<1>3. /\ Line(lock'[r])
      /\ \A x : In(x, lock'[r]) <=> In(x, lock[r]) /\ x # p
      /\ \A x : First(x, lock[r]) /\ x # p => First(x, lock'[r])
  BY <1>1, <1>2, WithoutLine
<1>4. \A q \in Roots : q # r => lock'[q] = lock[q]
  BY <1>1
<1>5. ASSUME NEW q \in Roots
      PROVE  /\ Line(lock'[q])
             /\ \A x \in Parties : (In(x, lock'[q]) <=> Waits(x, q)')
                   /\ (Holds(x, q)' => First(x, lock'[q]))
  <2>1. CASE q = r
    BY <1>2, <1>3, <2>1
  <2>2. CASE q # r
    BY <1>4, <2>2 DEF Lined
  <2>. QED
    BY <2>1, <2>2
<1>. QED
  BY <1>5 DEF Lined

LEMMA LineTaken ==
    ASSUME Lined, NEW p \in Parties, NEW r \in Roots, UNCHANGED lock, First(p, lock[r]),
           \A x \in Parties, q \in Roots :
              (Waits(x, q)' <=> Waits(x, q))
                    /\ (Holds(x, q)' <=> Holds(x, q) \/ (x = p /\ q = r))
    PROVE  Lined'
  BY DEF Lined

LEMMA LinedStep ==
    ASSUME Types, Types', CallsFit, Lined, [Next]_vars
    PROVE  Lined'
<1>1. ASSUME NEW m \in Messages, Admit(m) PROVE Lined'
  <2>1. \A x \in Parties, q \in Roots : (Waits(x, q)' <=> Waits(x, q))
        /\ (Holds(x, q)' <=> Holds(x, q))
    BY <1>1, Constants
       DEF Admit, Go, HasCapacity, admission, Types, Parties, Cancellable, Waits, Holds,
           Holding, Running, Prepared
  <2>2. UNCHANGED lock
    BY <1>1 DEF Admit
  <2>. QED
    BY <2>1, <2>2, LineStays
<1>2. ASSUME NEW m \in Messages, Reject(m) PROVE Lined'
  <2>1. \A x \in Parties, q \in Roots : (Waits(x, q)' <=> Waits(x, q))
        /\ (Holds(x, q)' <=> Holds(x, q))
    BY <1>2, Constants
       DEF Reject, Go, Types, Parties, Cancellable, Waits, Holds, Holding, Running,
           Prepared
  <2>2. UNCHANGED lock
    BY <1>2 DEF Reject
  <2>. QED
    BY <2>1, <2>2, LineStays
<1>3. ASSUME NEW m \in Messages, Drop(m) PROVE Lined'
  <2>1. \A x \in Parties, q \in Roots : (Waits(x, q)' <=> Waits(x, q))
        /\ (Holds(x, q)' <=> Holds(x, q))
    BY <1>3, Constants
       DEF Drop, Go, At, Types, Parties, Cancellable, Waits, Holds, Holding, Running,
           Prepared
  <2>2. UNCHANGED lock
    BY <1>3 DEF Drop
  <2>. QED
    BY <2>1, <2>2, LineStays
<1>4. ASSUME NEW m \in Messages, Resolve(m) PROVE Lined'
  <2>1. \A x \in Parties, q \in Roots : (Waits(x, q)' <=> Waits(x, q))
        /\ (Holds(x, q)' <=> Holds(x, q))
    BY <1>4, Constants
       DEF Resolve, Go, At, GetOrCreate, Types, Parties, Cancellable, Waits, Holds,
           Holding, Running, Prepared
  <2>2. UNCHANGED lock
    BY <1>4 DEF Resolve
  <2>. QED
    BY <2>1, <2>2, LineStays
<1>5. ASSUME NEW m \in Messages, Queue(m) PROVE Lined'
  <2>1. \A x \in Parties, q \in Roots : (Waits(x, q)' <=> Waits(x, q)
        \/ (x = m /\ q = RootOf[m])) /\ (Holds(x, q)' <=> Holds(x, q))
    <3>1. UNCHANGED stop /\ \A y \in Messages : y # m => pc'[y] = pc[y]
      BY <1>5 DEF Queue, Go, At, Types
    <3>2. pc[m] = "acking" /\ pc'[m] = "queued"
      BY <1>5 DEF Queue, Go, At, Types
    <3>3. \A y \in Stops : y \notin Messages
      BY Constants
    <3>. QED
      BY <3>1, <3>2, <3>3 DEF Parties, Waits, Holds, Holding, Running, Prepared
  <2>2. /\ lock' = [lock EXCEPT ![RootOf[m]] = Append(lock[RootOf[m]], m)] /\ RootOf[m] \in Roots
        /\ m \in Parties /\ ~Waits(m, RootOf[m])
    BY <1>5, Constants DEF Queue, At, Parties, Waits, Holding, Running, Prepared
  <2>. QED
    BY <2>1, <2>2, LineJoined
<1>6. ASSUME NEW m \in Messages, RecheckFails(m) PROVE Lined'
  <2>1. \A x \in Parties, q \in Roots : (Waits(x, q)' <=> Waits(x, q) /\ x # m)
        /\ (Holds(x, q)' <=> Holds(x, q) /\ x # m)
    <3>1. UNCHANGED stop /\ \A y \in Messages : y # m => pc'[y] = pc[y]
      BY <1>6 DEF RecheckFails, Go, At, Types
    <3>2. pc[m] = "queued" /\ pc'[m] = "cleaning"
      BY <1>6 DEF RecheckFails, Go, At, Types
    <3>3. \A y \in Stops : y \notin Messages
      BY Constants
    <3>. QED
      BY <3>1, <3>2, <3>3 DEF Parties, Waits, Holds, Holding, Running, Prepared
  <2>2. /\ lock' = [lock EXCEPT ![RootOf[m]] = Without(lock[RootOf[m]], m)] /\ RootOf[m] \in Roots /\ m \in Parties
        /\ \A q \in Roots : q # RootOf[m] => ~Waits(m, q)
    BY <1>6, Constants DEF RecheckFails, Unlock, Parties, Waits
  <2>. QED
    BY <2>1, <2>2, LineLeft
<1>7. ASSUME NEW m \in Messages, StartRun(m) PROVE Lined'
  <2>1. \A x \in Parties, q \in Roots : (Waits(x, q)' <=> Waits(x, q))
        /\ (Holds(x, q)' <=> Holds(x, q) \/ (x = m /\ q = RootOf[m]))
    <3>1. UNCHANGED stop /\ \A y \in Messages : y # m => pc'[y] = pc[y]
      BY <1>7 DEF StartRun, Go, At, Types
    <3>2. pc[m] = "queued" /\ pc'[m] = "touching"
      BY <1>7 DEF StartRun, Go, At, Types
    <3>3. \A y \in Stops : y \notin Messages
      BY Constants
    <3>. QED
      BY <3>1, <3>2, <3>3 DEF Parties, Waits, Holds, Holding, Running, Prepared
  <2>2. UNCHANGED lock /\ First(m, lock[RootOf[m]]) /\ RootOf[m] \in Roots /\ m \in Parties
    BY <1>7, Constants DEF StartRun, HasRoot, First, Parties
  <2>. QED
    BY <2>1, <2>2, LineTaken
<1>8. ASSUME NEW m \in Messages, Touch(m) PROVE Lined'
  <2>1. \A x \in Parties, q \in Roots : (Waits(x, q)' <=> Waits(x, q))
        /\ (Holds(x, q)' <=> Holds(x, q))
    BY <1>8, Constants
       DEF Touch, Go, At, GetOrCreate, Types, Parties, Cancellable, Waits, Holds, Holding,
           Running, Prepared
  <2>2. UNCHANGED lock
    BY <1>8 DEF Touch
  <2>. QED
    BY <2>1, <2>2, LineStays
<1>9. ASSUME NEW m \in Messages, SaveMessage(m) PROVE Lined'
  <2>1. \A x \in Parties, q \in Roots : (Waits(x, q)' <=> Waits(x, q))
        /\ (Holds(x, q)' <=> Holds(x, q))
    BY <1>9, Constants
       DEF SaveMessage, Go, At, Spawn, Types, Parties, Cancellable, Waits, Holds, Holding,
           Running, Prepared
  <2>2. UNCHANGED lock
    BY <1>9 DEF SaveMessage
  <2>. QED
    BY <2>1, <2>2, LineStays
<1>10. ASSUME NEW m \in Messages, Saved(m) PROVE Lined'
  <2>1. \A x \in Parties, q \in Roots : (Waits(x, q)' <=> Waits(x, q))
        /\ (Holds(x, q)' <=> Holds(x, q))
    BY <1>10, Constants
       DEF Saved, Go, At, Types, Parties, Cancellable, Waits, Holds, Holding, Running,
           Prepared
  <2>2. UNCHANGED lock
    BY <1>10 DEF Saved
  <2>. QED
    BY <2>1, <2>2, LineStays
<1>11. ASSUME NEW m \in Messages, CallTool(m) PROVE Lined'
  <2>1. \A x \in Parties, q \in Roots : (Waits(x, q)' <=> Waits(x, q))
        /\ (Holds(x, q)' <=> Holds(x, q))
    BY <1>11, Constants
       DEF CallTool, Go, At, Spawn, Types, Parties, Cancellable, Waits, Holds, Holding,
           Running, Prepared
  <2>2. UNCHANGED lock
    BY <1>11 DEF CallTool
  <2>. QED
    BY <2>1, <2>2, LineStays
<1>12. ASSUME NEW m \in Messages, Answer(m) PROVE Lined'
  <2>1. \A x \in Parties, q \in Roots : (Waits(x, q)' <=> Waits(x, q))
        /\ (Holds(x, q)' <=> Holds(x, q))
    BY <1>12, Constants
       DEF Answer, Go, At, Types, Parties, Cancellable, Waits, Holds, Holding, Running,
           Prepared
  <2>2. UNCHANGED lock
    BY <1>12 DEF Answer
  <2>. QED
    BY <2>1, <2>2, LineStays
<1>13. ASSUME NEW m \in Messages, TimeOut(m) PROVE Lined'
  <2>1. \A x \in Parties, q \in Roots : (Waits(x, q)' <=> Waits(x, q))
        /\ (Holds(x, q)' <=> Holds(x, q))
    BY <1>13, Constants
       DEF TimeOut, Go, At, Types, Parties, Cancellable, Waits, Holds, Holding, Running,
           Prepared
  <2>2. UNCHANGED lock
    BY <1>13 DEF TimeOut
  <2>. QED
    BY <2>1, <2>2, LineStays
<1>14. ASSUME NEW m \in Messages, Delivered(m) PROVE Lined'
  <2>1. \A x \in Parties, q \in Roots : (Waits(x, q)' <=> Waits(x, q))
        /\ (Holds(x, q)' <=> Holds(x, q))
    BY <1>14, Constants
       DEF Delivered, Go, At, Types, Parties, Cancellable, Waits, Holds, Holding, Running,
           Prepared
  <2>2. UNCHANGED lock
    BY <1>14 DEF Delivered
  <2>. QED
    BY <2>1, <2>2, LineStays
<1>15. ASSUME NEW m \in Messages, Persist(m) PROVE Lined'
  <2>1. \A x \in Parties, q \in Roots : (Waits(x, q)' <=> Waits(x, q))
        /\ (Holds(x, q)' <=> Holds(x, q))
    BY <1>15, Constants
       DEF Persist, Go, At, LeaveRun, Record, Types, Parties, Cancellable, Waits, Holds,
           Holding, Running, Prepared
  <2>2. UNCHANGED lock
    BY <1>15 DEF Persist
  <2>. QED
    BY <2>1, <2>2, LineStays
<1>16. ASSUME NEW m \in Messages, EndEarly(m) PROVE Lined'
  <2>1. \A x \in Parties, q \in Roots : (Waits(x, q)' <=> Waits(x, q))
        /\ (Holds(x, q)' <=> Holds(x, q))
    BY <1>16, Constants
       DEF EndEarly, Go, LeaveRun, Types, Parties, Cancellable, Waits, Holds, Holding,
           Running, Prepared
  <2>2. UNCHANGED lock
    BY <1>16 DEF EndEarly
  <2>. QED
    BY <2>1, <2>2, LineStays
<1>17. ASSUME NEW m \in Messages, React(m) PROVE Lined'
  <2>1. \A x \in Parties, q \in Roots : (Waits(x, q)' <=> Waits(x, q) /\ x # m)
        /\ (Holds(x, q)' <=> Holds(x, q) /\ x # m)
    <3>1. UNCHANGED stop /\ \A y \in Messages : y # m => pc'[y] = pc[y]
      BY <1>17 DEF React, Go, At, Types
    <3>2. pc[m] = "reacting" /\ pc'[m] = "cleaning"
      BY <1>17 DEF React, Go, At, Types
    <3>3. \A y \in Stops : y \notin Messages
      BY Constants
    <3>. QED
      BY <3>1, <3>2, <3>3 DEF Parties, Waits, Holds, Holding, Running, Prepared
  <2>2. /\ lock' = [lock EXCEPT ![RootOf[m]] = Without(lock[RootOf[m]], m)] /\ RootOf[m] \in Roots /\ m \in Parties
        /\ \A q \in Roots : q # RootOf[m] => ~Waits(m, q)
    BY <1>17, Constants DEF React, Unlock, Parties, Waits
  <2>. QED
    BY <2>1, <2>2, LineLeft
<1>18. ASSUME NEW m \in Messages, Send(m) PROVE Lined'
  <2>1. \A x \in Parties, q \in Roots : (Waits(x, q)' <=> Waits(x, q))
        /\ (Holds(x, q)' <=> Holds(x, q))
    BY <1>18, Constants
       DEF Send, At, Types, Parties, Cancellable, Waits, Holds, Holding, Running, Prepared
  <2>2. UNCHANGED lock
    BY <1>18 DEF Send
  <2>. QED
    BY <2>1, <2>2, LineStays
<1>19. ASSUME NEW m \in Messages, ChildStarts(m) PROVE Lined'
  <2>1. \A x \in Parties, q \in Roots : (Waits(x, q)' <=> Waits(x, q))
        /\ (Holds(x, q)' <=> Holds(x, q))
    BY <1>19, Constants
       DEF ChildStarts, Record, Types, Parties, Cancellable, Waits, Holds, Holding,
           Running, Prepared
  <2>2. UNCHANGED lock
    BY <1>19 DEF ChildStarts
  <2>. QED
    BY <2>1, <2>2, LineStays
<1>20. ASSUME NEW m \in Messages, ChildEnds(m) PROVE Lined'
  <2>1. \A x \in Parties, q \in Roots : (Waits(x, q)' <=> Waits(x, q))
        /\ (Holds(x, q)' <=> Holds(x, q))
    BY <1>20, Constants
       DEF ChildEnds, Types, Parties, Cancellable, Waits, Holds, Holding, Running, Prepared
  <2>2. UNCHANGED lock
    BY <1>20 DEF ChildEnds
  <2>. QED
    BY <2>1, <2>2, LineStays
<1>21. ASSUME NEW m \in Messages, Cancelled(m) PROVE Lined'
  <2>1. \A x \in Parties, q \in Roots : (Waits(x, q)' <=> Waits(x, q) /\ x # m)
        /\ (Holds(x, q)' <=> Holds(x, q) /\ x # m)
    <3>1. UNCHANGED stop /\ \A y \in Messages : y # m => pc'[y] = pc[y]
      BY <1>21 DEF Cancelled, Go, Types
    <3>2. pc'[m] \in {"cleaning", "ending"}
      BY <1>21 DEF Cancelled, Go, Types
    <3>3. \A y \in Stops : y \notin Messages
      BY Constants
    <3>. QED
      BY <3>1, <3>2, <3>3 DEF Parties, Waits, Holds, Holding, Running, Prepared
  <2>2. /\ lock' = [lock EXCEPT ![RootOf[m]] = Without(lock[RootOf[m]], m)] /\ RootOf[m] \in Roots /\ m \in Parties
        /\ \A q \in Roots : q # RootOf[m] => ~Waits(m, q)
    BY <1>21, Constants DEF Cancelled, Unlock, Parties, Waits
  <2>. QED
    BY <2>1, <2>2, LineLeft
<1>22. ASSUME NEW m \in Messages, Cleanup(m) PROVE Lined'
  <2>1. \A x \in Parties, q \in Roots : (Waits(x, q)' <=> Waits(x, q))
        /\ (Holds(x, q)' <=> Holds(x, q))
    BY <1>22, Constants
       DEF Cleanup, Go, Types, Parties, Cancellable, Waits, Holds, Holding, Running,
           Prepared
  <2>2. UNCHANGED lock
    BY <1>22 DEF Cleanup
  <2>. QED
    BY <2>1, <2>2, LineStays
<1>23. ASSUME NEW m \in Messages, End(m) PROVE Lined'
  <2>1. \A x \in Parties, q \in Roots : (Waits(x, q)' <=> Waits(x, q))
        /\ (Holds(x, q)' <=> Holds(x, q))
    BY <1>23, Constants
       DEF End, Go, Types, Parties, Cancellable, Waits, Holds, Holding, Running, Prepared
  <2>2. UNCHANGED lock
    BY <1>23 DEF End
  <2>. QED
    BY <2>1, <2>2, LineStays
<1>24. ASSUME NEW s \in Stops, Begin(s) PROVE Lined'
  <2>3. /\ stop[s].pc = "idle" /\ stop'[s].pc = "scan"
        /\ \A t \in Stops : t # s => stop'[t] = stop[t]
    BY <1>24, BeginMoves
  <2>1. \A x \in Parties, q \in Roots : (Waits(x, q)' <=> Waits(x, q))
        /\ (Holds(x, q)' <=> Holds(x, q))
    <3>1. UNCHANGED pc
      BY <1>24 DEF Begin
    <3>. QED
      BY <2>3, <3>1, Constants DEF Moved, Parties, Waits, Holds
  <2>2. UNCHANGED lock
    BY <1>24 DEF Begin
  <2>. QED
    BY <2>1, <2>2, LineStays
<1>25. ASSUME NEW s \in Stops, Scan(s) PROVE Lined'
  <2>3. /\ stop[s].pc = "scan" /\ stop'[s].pc \in {"waiting", "clean", "stopped"}
        /\ \A t \in Stops : t # s => stop'[t] = stop[t]
    BY <1>25, ScanMoves DEF Scan, Moved
  <2>1. \A x \in Parties, q \in Roots : (Waits(x, q)' <=> Waits(x, q))
        /\ (Holds(x, q)' <=> Holds(x, q))
    <3>1. UNCHANGED pc
      BY <1>25 DEF Scan
    <3>. QED
      BY <2>3, <3>1, Constants DEF Moved, Parties, Waits, Holds
  <2>2. UNCHANGED lock
    BY <1>25 DEF Scan
  <2>. QED
    BY <2>1, <2>2, LineStays
<1>26. ASSUME NEW s \in Stops, Drained(s) PROVE Lined'
  <2>3. stop[s].pc = "waiting" /\ stop[s].root \in Roots /\ Moved(s, "scan", {})
    BY <1>26, CancelMoves DEF CallsFit, CallFits, Drained
  <2>1. \A x \in Parties, q \in Roots : (Waits(x, q)' <=> Waits(x, q))
        /\ (Holds(x, q)' <=> Holds(x, q))
    <3>1. UNCHANGED pc
      BY <1>26 DEF Drained
    <3>. QED
      BY <2>3, <3>1, Constants DEF Moved, Parties, Waits, Holds
  <2>2. UNCHANGED lock
    BY <1>26 DEF Drained
  <2>. QED
    BY <2>1, <2>2, LineStays
<1>27. ASSUME NEW s \in Stops, GiveUp(s) PROVE Lined'
  <2>3. stop[s].pc = "waiting" /\ stop[s].root \in Roots /\ Moved(s, "unclean", {})
    BY <1>27, CancelMoves DEF CallsFit, CallFits, GiveUp
  <2>1. \A x \in Parties, q \in Roots : (Waits(x, q)' <=> Waits(x, q))
        /\ (Holds(x, q)' <=> Holds(x, q))
    <3>1. UNCHANGED pc
      BY <1>27 DEF GiveUp
    <3>. QED
      BY <2>3, <3>1, Constants DEF Moved, Parties, Waits, Holds
  <2>2. UNCHANGED lock
    BY <1>27 DEF GiveUp
  <2>. QED
    BY <2>1, <2>2, LineStays
<1>28. ASSUME NEW s \in Stops, QueueReset(s) PROVE Lined'
  <2>3. stop[s].pc = "clean" /\ stop[s].root \in Roots /\ Moved(s, "locking", {})
    BY <1>28, CancelMoves DEF CallsFit, CallFits, QueueReset
  <2>1. \A x \in Parties, q \in Roots : (Waits(x, q)' <=> Waits(x, q)
        \/ (x = s /\ q = stop[s].root)) /\ (Holds(x, q)' <=> Holds(x, q))
    <3>1. UNCHANGED pc
      BY <1>28 DEF QueueReset
    <3>. QED
      BY <2>3, <3>1, Constants DEF Moved, Parties, Waits, Holds
  <2>2. /\ lock' = [lock EXCEPT ![stop[s].root] = Append(lock[stop[s].root], s)] /\ s \in Parties
        /\ ~Waits(s, stop[s].root)
    BY <1>28, Constants DEF QueueReset, Parties, Waits
  <2>. QED
    BY <2>1, <2>2, <2>3, LineJoined
<1>29. ASSUME NEW s \in Stops, HoldReset(s) PROVE Lined'
  <2>3. stop[s].pc = "locking" /\ stop[s].root \in Roots /\ Moved(s, "erasing", {})
    BY <1>29, CancelMoves DEF CallsFit, CallFits, HoldReset
  <2>1. \A x \in Parties, q \in Roots : (Waits(x, q)' <=> Waits(x, q))
        /\ (Holds(x, q)' <=> Holds(x, q) \/ (x = s /\ q = stop[s].root))
    <3>1. UNCHANGED pc
      BY <1>29 DEF HoldReset
    <3>. QED
      BY <2>3, <3>1, Constants DEF Moved, Parties, Waits, Holds
  <2>4. Waits(s, stop[s].root) /\ s \in Parties
    BY <2>3, Constants DEF Waits, Parties
  <2>2. UNCHANGED lock /\ First(s, lock[stop[s].root])
    <3>1. In(s, lock[stop[s].root])
      BY <2>3, <2>4 DEF Lined
    <3>2. lock[stop[s].root] # <<>>
      BY <3>1 DEF In
    <3>. QED
      BY <1>29, <3>2 DEF HoldReset, First
  <2>. QED
    BY <2>1, <2>2, <2>3, <2>4, LineTaken
<1>30. ASSUME NEW s \in Stops, Erase(s) PROVE Lined'
  <2>3. stop[s].pc = "erasing" /\ stop[s].root \in Roots /\ Moved(s, "cleared", {})
    BY <1>30, CancelMoves DEF CallsFit, CallFits, Erase
  <2>1. \A x \in Parties, q \in Roots : (Waits(x, q)' <=> Waits(x, q) /\ x # s)
        /\ (Holds(x, q)' <=> Holds(x, q) /\ x # s)
    <3>1. UNCHANGED pc
      BY <1>30 DEF Erase
    <3>. QED
      BY <2>3, <3>1, Constants DEF Moved, Parties, Waits, Holds
  <2>2. /\ lock' = [lock EXCEPT ![stop[s].root] = Without(lock[stop[s].root], s)] /\ s \in Parties
        /\ \A q \in Roots : q # stop[s].root => ~Waits(s, q)
    BY <1>30, Constants DEF Erase, Parties, Waits
  <2>. QED
    BY <2>1, <2>2, <2>3, LineLeft
<1>31. ASSUME NEW r \in Roots, Expire(r) PROVE Lined'
  <2>1. \A x \in Parties, q \in Roots : (Waits(x, q)' <=> Waits(x, q))
        /\ (Holds(x, q)' <=> Holds(x, q))
    BY <1>31, Constants
       DEF Expire, Types, Parties, Cancellable, Waits, Holds, Holding, Running, Prepared
  <2>2. UNCHANGED lock
    BY <1>31 DEF Expire
  <2>. QED
    BY <2>1, <2>2, LineStays
<1>32. CASE UNCHANGED vars
  <2>1. \A x \in Parties, q \in Roots : (Waits(x, q)' <=> Waits(x, q))
        /\ (Holds(x, q)' <=> Holds(x, q))
    BY <1>32 DEF vars, Waits, Holds
  <2>. QED
    BY <1>32, <2>1, LineStays DEF vars
<1>. QED
  BY <1>1, <1>2, <1>3, <1>4, <1>5, <1>6, <1>7, <1>8, <1>9, <1>10, <1>11, <1>12, <1>13,
     <1>14, <1>15, <1>16, <1>17, <1>18, <1>19, <1>20, <1>21, <1>22, <1>23, <1>24, <1>25,
     <1>26, <1>27, <1>28, <1>29, <1>30, <1>31, <1>32
     DEF Next, Enter, Turn, Child, Leave, Cancel

-----------------------------------------------------------------------------
(* The writers of a transcript.                                             *)

LEMMA WritersStay ==
    ASSUME Types, Written, UNCHANGED log,
           \A x \in Messages : pc[x] \notin Silent => pc'[x] \notin Silent
    PROVE  Written'
<1>1. \A r \in Roots : \A i \in 1..Len(log[r]) : log[r][i] \in Messages
  BY DEF Types
<1>. QED
  BY <1>1 DEF Written, WriterFits

LEMMA WritersGone ==
    ASSUME Types, Written, \A q \in Roots : log'[q] = log[q] \/ log'[q] = <<>>,
           \A x \in Messages : pc[x] \notin Silent => pc'[x] \notin Silent
    PROVE  Written'
<1>1. \A r \in Roots : \A i \in 1..Len(log[r]) : log[r][i] \in Messages
  BY DEF Types
<1>2. ASSUME NEW r \in Roots, NEW i \in 1..Len(log'[r]) PROVE log'[r] = log[r]
  BY <1>2
<1>. QED
  BY <1>1, <1>2 DEF Written, WriterFits

LEMMA WrittenGrows ==
    ASSUME Types, Written, NEW m \in Messages, WriterFits(m, RootOf[m]) \/ log' = log,
           log' = log \/ log' = [log EXCEPT ![RootOf[m]] = Append(log[RootOf[m]], m)],
           \A x \in Messages : pc[x] \notin Silent => pc'[x] \notin Silent
    PROVE  Written'
<1>1. CASE log' = log
  BY <1>1, WritersStay
<1>2. CASE log' # log
  <2>1. ASSUME NEW r \in Roots, NEW i \in 1..Len(log'[r]) PROVE WriterFits(log'[r][i], r)
    <3>1. log[r] \in Seq(Messages) /\ log \in [Roots -> Seq(Messages)]
      BY DEF Types
    <3>2. CASE r # RootOf[m]
      BY <1>2, <2>1, <3>1, <3>2 DEF Written
    <3>3. CASE r = RootOf[m]
      <4>1. log'[r] = Append(log[r], m)
        BY <1>2, <3>1, <3>3
      <4>2. log'[r][i] = m \/ (i \in 1..Len(log[r]) /\ log'[r][i] = log[r][i])
        BY <2>1, <3>1, <4>1
      <4>. QED
        BY <1>2, <3>3, <4>2 DEF Written
    <3>. QED
      BY <3>2, <3>3
  <2>2. ASSUME NEW r \in Roots, NEW i \in 1..Len(log'[r]) PROVE log'[r][i] \in Messages
    <3>1. log' \in [Roots -> Seq(Messages)]
      <4>1. Append(log[RootOf[m]], m) \in Seq(Messages)
        BY Constants, AppendType DEF Types
      <4>. QED
        BY <1>2, <4>1 DEF Types
    <3>. QED
      BY <2>2, <3>1
  <2>. QED
    BY <2>1, <2>2 DEF Written, WriterFits
<1>. QED
  BY <1>1, <1>2

LEMMA WrittenStep ==
    ASSUME Types, Placed, Written, [Next]_vars
    PROVE  Written'
<1>1. ASSUME NEW m \in Messages, Admit(m) PROVE Written'
  <2>1. \A x \in Messages : pc[x] \notin Silent => pc'[x] \notin Silent
    BY <1>1
       DEF Admit, Go, HasCapacity, admission, Types, Silent, Cancellable, Holding, Running,
           Prepared, store, Placed, Fits
  <2>2. UNCHANGED log
    BY <1>1 DEF Admit, store, GetOrCreate
  <2>. QED
    BY <2>1, <2>2, WritersStay
<1>2. ASSUME NEW m \in Messages, Reject(m) PROVE Written'
  <2>1. \A x \in Messages : pc[x] \notin Silent => pc'[x] \notin Silent
    BY <1>2
       DEF Reject, Go, Types, Silent, Cancellable, Holding, Running, Prepared, store,
           Placed, Fits
  <2>2. UNCHANGED log
    BY <1>2 DEF Reject, store, GetOrCreate
  <2>. QED
    BY <2>1, <2>2, WritersStay
<1>3. ASSUME NEW m \in Messages, Drop(m) PROVE Written'
  <2>1. \A x \in Messages : pc[x] \notin Silent => pc'[x] \notin Silent
    BY <1>3
       DEF Drop, Go, At, Types, Silent, Cancellable, Holding, Running, Prepared, store,
           Placed, Fits
  <2>2. UNCHANGED log
    BY <1>3 DEF Drop, store, GetOrCreate
  <2>. QED
    BY <2>1, <2>2, WritersStay
<1>4. ASSUME NEW m \in Messages, Resolve(m) PROVE Written'
  <2>1. \A x \in Messages : pc[x] \notin Silent => pc'[x] \notin Silent
    BY <1>4
       DEF Resolve, Go, At, GetOrCreate, Types, Silent, Cancellable, Holding, Running,
           Prepared, store, Placed, Fits
  <2>2. UNCHANGED log
    BY <1>4 DEF Resolve, store, GetOrCreate
  <2>. QED
    BY <2>1, <2>2, WritersStay
<1>5. ASSUME NEW m \in Messages, Queue(m) PROVE Written'
  <2>1. \A x \in Messages : pc[x] \notin Silent => pc'[x] \notin Silent
    BY <1>5
       DEF Queue, Go, At, Types, Silent, Cancellable, Holding, Running, Prepared, store,
           Placed, Fits
  <2>2. UNCHANGED log
    BY <1>5 DEF Queue, store, GetOrCreate
  <2>. QED
    BY <2>1, <2>2, WritersStay
<1>6. ASSUME NEW m \in Messages, RecheckFails(m) PROVE Written'
  <2>1. \A x \in Messages : pc[x] \notin Silent => pc'[x] \notin Silent
    BY <1>6
       DEF RecheckFails, Go, At, HasRoot, Unlock, Types, Silent, Cancellable, Holding,
           Running, Prepared, store, Placed, Fits
  <2>2. UNCHANGED log
    BY <1>6 DEF RecheckFails, store, GetOrCreate
  <2>. QED
    BY <2>1, <2>2, WritersStay
<1>7. ASSUME NEW m \in Messages, StartRun(m) PROVE Written'
  <2>1. \A x \in Messages : pc[x] \notin Silent => pc'[x] \notin Silent
    BY <1>7
       DEF StartRun, Go, At, HasRoot, Types, Silent, Cancellable, Holding, Running,
           Prepared, store, Placed, Fits
  <2>2. UNCHANGED log
    BY <1>7 DEF StartRun, store, GetOrCreate
  <2>. QED
    BY <2>1, <2>2, WritersStay
<1>8. ASSUME NEW m \in Messages, Touch(m) PROVE Written'
  <2>1. \A x \in Messages : pc[x] \notin Silent => pc'[x] \notin Silent
    BY <1>8
       DEF Touch, Go, At, GetOrCreate, Types, Silent, Cancellable, Holding, Running,
           Prepared, store, Placed, Fits
  <2>2. UNCHANGED log
    BY <1>8 DEF Touch, store, GetOrCreate
  <2>. QED
    BY <2>1, <2>2, WritersStay
<1>9. ASSUME NEW m \in Messages, SaveMessage(m) PROVE Written'
  <2>1. \A x \in Messages : pc[x] \notin Silent => pc'[x] \notin Silent
    BY <1>9
       DEF SaveMessage, Go, At, Spawn, Types, Silent, Cancellable, Holding, Running,
           Prepared, store, Placed, Fits
  <2>2. UNCHANGED log
    BY <1>9 DEF SaveMessage, store, GetOrCreate
  <2>. QED
    BY <2>1, <2>2, WritersStay
<1>10. ASSUME NEW m \in Messages, Saved(m) PROVE Written'
  <2>1. \A x \in Messages : pc[x] \notin Silent => pc'[x] \notin Silent
    BY <1>10
       DEF Saved, Go, At, Types, Silent, Cancellable, Holding, Running, Prepared, store,
           Placed, Fits
  <2>2. UNCHANGED log
    BY <1>10 DEF Saved, store, GetOrCreate
  <2>. QED
    BY <2>1, <2>2, WritersStay
<1>11. ASSUME NEW m \in Messages, CallTool(m) PROVE Written'
  <2>1. \A x \in Messages : pc[x] \notin Silent => pc'[x] \notin Silent
    BY <1>11
       DEF CallTool, Go, At, Spawn, Types, Silent, Cancellable, Holding, Running, Prepared,
           store, Placed, Fits
  <2>2. UNCHANGED log
    BY <1>11 DEF CallTool, store, GetOrCreate
  <2>. QED
    BY <2>1, <2>2, WritersStay
<1>12. ASSUME NEW m \in Messages, Answer(m) PROVE Written'
  <2>1. \A x \in Messages : pc[x] \notin Silent => pc'[x] \notin Silent
    BY <1>12
       DEF Answer, Go, At, Types, Silent, Cancellable, Holding, Running, Prepared, store,
           Placed, Fits
  <2>2. UNCHANGED log
    BY <1>12 DEF Answer, store, GetOrCreate
  <2>. QED
    BY <2>1, <2>2, WritersStay
<1>13. ASSUME NEW m \in Messages, TimeOut(m) PROVE Written'
  <2>1. \A x \in Messages : pc[x] \notin Silent => pc'[x] \notin Silent
    BY <1>13
       DEF TimeOut, Go, At, Types, Silent, Cancellable, Holding, Running, Prepared, store,
           Placed, Fits
  <2>2. UNCHANGED log
    BY <1>13 DEF TimeOut, store, GetOrCreate
  <2>. QED
    BY <2>1, <2>2, WritersStay
<1>14. ASSUME NEW m \in Messages, Delivered(m) PROVE Written'
  <2>1. \A x \in Messages : pc[x] \notin Silent => pc'[x] \notin Silent
    BY <1>14
       DEF Delivered, Go, At, Types, Silent, Cancellable, Holding, Running, Prepared,
           store, Placed, Fits
  <2>2. UNCHANGED log
    BY <1>14 DEF Delivered, store, GetOrCreate
  <2>. QED
    BY <2>1, <2>2, WritersStay
<1>15. ASSUME NEW m \in Messages, Persist(m) PROVE Written'
  <2>1. \A x \in Messages : pc[x] \notin Silent => pc'[x] \notin Silent
    BY <1>15
       DEF Persist, Go, At, LeaveRun, Record, Types, Silent, Cancellable, Holding, Running,
           Prepared, store, Placed, Fits
  <2>2. log' = log \/ log' = [log EXCEPT ![RootOf[m]] = Append(log[RootOf[m]], m)]
    BY <1>15 DEF Persist, Record
  <2>3. WriterFits(m, RootOf[m]) \/ log' = log
    BY <1>15 DEF Persist, At, WriterFits, Silent, store
  <2>. QED
    BY <2>1, <2>2, <2>3, WrittenGrows
<1>16. ASSUME NEW m \in Messages, EndEarly(m) PROVE Written'
  <2>1. \A x \in Messages : pc[x] \notin Silent => pc'[x] \notin Silent
    BY <1>16
       DEF EndEarly, Go, LeaveRun, Types, Silent, Cancellable, Holding, Running, Prepared,
           store, Placed, Fits
  <2>2. UNCHANGED log
    BY <1>16 DEF EndEarly, store, GetOrCreate
  <2>. QED
    BY <2>1, <2>2, WritersStay
<1>17. ASSUME NEW m \in Messages, React(m) PROVE Written'
  <2>1. \A x \in Messages : pc[x] \notin Silent => pc'[x] \notin Silent
    BY <1>17
       DEF React, Go, At, Unlock, Types, Silent, Cancellable, Holding, Running, Prepared,
           store, Placed, Fits
  <2>2. UNCHANGED log
    BY <1>17 DEF React, store, GetOrCreate
  <2>. QED
    BY <2>1, <2>2, WritersStay
<1>18. ASSUME NEW m \in Messages, Send(m) PROVE Written'
  <2>1. \A x \in Messages : pc[x] \notin Silent => pc'[x] \notin Silent
    BY <1>18
       DEF Send, At, Types, Silent, Cancellable, Holding, Running, Prepared, store, Placed,
           Fits
  <2>2. UNCHANGED log
    BY <1>18 DEF Send, store, GetOrCreate
  <2>. QED
    BY <2>1, <2>2, WritersStay
<1>19. ASSUME NEW m \in Messages, ChildStarts(m) PROVE Written'
  <2>1. \A x \in Messages : pc[x] \notin Silent => pc'[x] \notin Silent
    BY <1>19
       DEF ChildStarts, Record, Types, Silent, Cancellable, Holding, Running, Prepared,
           store, Placed, Fits
  <2>2. log' = log \/ log' = [log EXCEPT ![RootOf[m]] = Append(log[RootOf[m]], m)]
    BY <1>19 DEF ChildStarts, Record
  <2>3. WriterFits(m, RootOf[m]) \/ log' = log
    BY <1>19 DEF ChildStarts, At, WriterFits, Silent, store
  <2>. QED
    BY <2>1, <2>2, <2>3, WrittenGrows
<1>20. ASSUME NEW m \in Messages, ChildEnds(m) PROVE Written'
  <2>1. \A x \in Messages : pc[x] \notin Silent => pc'[x] \notin Silent
    BY <1>20
       DEF ChildEnds, Types, Silent, Cancellable, Holding, Running, Prepared, store,
           Placed, Fits
  <2>2. UNCHANGED log
    BY <1>20 DEF ChildEnds, store, GetOrCreate
  <2>. QED
    BY <2>1, <2>2, WritersStay
<1>21. ASSUME NEW m \in Messages, Cancelled(m) PROVE Written'
  <2>1. \A x \in Messages : pc[x] \notin Silent => pc'[x] \notin Silent
    BY <1>21
       DEF Cancelled, Go, Unlock, LeaveRun, Types, Silent, Cancellable, Holding, Running,
           Prepared, store, Placed, Fits
  <2>2. UNCHANGED log
    BY <1>21 DEF Cancelled, store, GetOrCreate
  <2>. QED
    BY <2>1, <2>2, WritersStay
<1>22. ASSUME NEW m \in Messages, Cleanup(m) PROVE Written'
  <2>1. \A x \in Messages : pc[x] \notin Silent => pc'[x] \notin Silent
    BY <1>22
       DEF Cleanup, Go, Types, Silent, Cancellable, Holding, Running, Prepared, store,
           Placed, Fits
  <2>2. UNCHANGED log
    BY <1>22 DEF Cleanup, store, GetOrCreate
  <2>. QED
    BY <2>1, <2>2, WritersStay
<1>23. ASSUME NEW m \in Messages, End(m) PROVE Written'
  <2>1. \A x \in Messages : pc[x] \notin Silent => pc'[x] \notin Silent
    BY <1>23
       DEF End, Go, Types, Silent, Cancellable, Holding, Running, Prepared, store, Placed,
           Fits
  <2>2. UNCHANGED log
    BY <1>23 DEF End, store, GetOrCreate
  <2>. QED
    BY <2>1, <2>2, WritersStay
<1>24. ASSUME NEW s \in Stops, Begin(s) PROVE Written'
  <2>1. \A x \in Messages : pc[x] \notin Silent => pc'[x] \notin Silent
    BY <1>24
       DEF Begin, Types, Silent, Cancellable, Holding, Running, Prepared, store, Placed,
           Fits
  <2>2. UNCHANGED log
    BY <1>24 DEF Begin, store, GetOrCreate
  <2>. QED
    BY <2>1, <2>2, WritersStay
<1>25. ASSUME NEW s \in Stops, Scan(s) PROVE Written'
  <2>1. \A x \in Messages : pc[x] \notin Silent => pc'[x] \notin Silent
    BY <1>25
       DEF Scan, StopTo, Types, Silent, Cancellable, Holding, Running, Prepared, store,
           Placed, Fits
  <2>2. UNCHANGED log
    BY <1>25 DEF Scan, store, GetOrCreate
  <2>. QED
    BY <2>1, <2>2, WritersStay
<1>26. ASSUME NEW s \in Stops, Drained(s) PROVE Written'
  <2>1. \A x \in Messages : pc[x] \notin Silent => pc'[x] \notin Silent
    BY <1>26
       DEF Drained, StopTo, Types, Silent, Cancellable, Holding, Running, Prepared, store,
           Placed, Fits
  <2>2. UNCHANGED log
    BY <1>26 DEF Drained, store, GetOrCreate
  <2>. QED
    BY <2>1, <2>2, WritersStay
<1>27. ASSUME NEW s \in Stops, GiveUp(s) PROVE Written'
  <2>1. \A x \in Messages : pc[x] \notin Silent => pc'[x] \notin Silent
    BY <1>27
       DEF GiveUp, StopTo, Types, Silent, Cancellable, Holding, Running, Prepared, store,
           Placed, Fits
  <2>2. UNCHANGED log
    BY <1>27 DEF GiveUp, store, GetOrCreate
  <2>. QED
    BY <2>1, <2>2, WritersStay
<1>28. ASSUME NEW s \in Stops, QueueReset(s) PROVE Written'
  <2>1. \A x \in Messages : pc[x] \notin Silent => pc'[x] \notin Silent
    BY <1>28
       DEF QueueReset, StopTo, Types, Silent, Cancellable, Holding, Running, Prepared,
           store, Placed, Fits
  <2>2. UNCHANGED log
    BY <1>28 DEF QueueReset, store, GetOrCreate
  <2>. QED
    BY <2>1, <2>2, WritersStay
<1>29. ASSUME NEW s \in Stops, HoldReset(s) PROVE Written'
  <2>1. \A x \in Messages : pc[x] \notin Silent => pc'[x] \notin Silent
    BY <1>29
       DEF HoldReset, StopTo, Types, Silent, Cancellable, Holding, Running, Prepared,
           store, Placed, Fits
  <2>2. UNCHANGED log
    BY <1>29 DEF HoldReset, store, GetOrCreate
  <2>. QED
    BY <2>1, <2>2, WritersStay
<1>30. ASSUME NEW s \in Stops, Erase(s) PROVE Written'
  <2>1. \A x \in Messages : pc[x] \notin Silent => pc'[x] \notin Silent
    BY <1>30
       DEF Erase, StopTo, Types, Silent, Cancellable, Holding, Running, Prepared, store,
           Placed, Fits
  <2>2. \A q \in Roots : log'[q] = log[q] \/ log'[q] = <<>>
    BY <1>30 DEF Erase, Types
  <2>. QED
    BY <2>1, <2>2, WritersGone
<1>31. ASSUME NEW r \in Roots, Expire(r) PROVE Written'
  <2>1. \A x \in Messages : pc[x] \notin Silent => pc'[x] \notin Silent
    BY <1>31
       DEF Expire, Types, Silent, Cancellable, Holding, Running, Prepared, store, Placed,
           Fits
  <2>2. \A q \in Roots : log'[q] = log[q] \/ log'[q] = <<>>
    BY <1>31 DEF Expire, Types
  <2>. QED
    BY <2>1, <2>2, WritersGone
<1>32. CASE UNCHANGED vars
  BY <1>32, WritersStay DEF vars
<1>. QED
  BY <1>1, <1>2, <1>3, <1>4, <1>5, <1>6, <1>7, <1>8, <1>9, <1>10, <1>11, <1>12, <1>13,
     <1>14, <1>15, <1>16, <1>17, <1>18, <1>19, <1>20, <1>21, <1>22, <1>23, <1>24, <1>25,
     <1>26, <1>27, <1>28, <1>29, <1>30, <1>31, <1>32
     DEF Next, Enter, Turn, Child, Leave, Cancel

-----------------------------------------------------------------------------
LEMMA InitIInv == Init => IInv
<1>. SUFFICES ASSUME Init PROVE IInv
  OBVIOUS
<1>1. Types
  <2>1. [kind |-> "none", user |-> Nobody, root |-> Nobody, pc |-> "idle", watch |-> {}, before |-> {}] \in Calls
    BY DEF Calls, StopPlaces
  <2>2. stop \in [Stops -> Calls]
    BY <2>1 DEF Init
  <2>3. <<>> \in Seq(Parties) /\ <<>> \in Seq(Messages)
    OBVIOUS
  <2>4. lock \in [Roots -> Seq(Parties)] /\ log \in [Roots -> Seq(Messages)]
    BY <2>3 DEF Init
  <2>5. pc \in [Messages -> Places] /\ thrown \in SUBSET Messages /\ live \in SUBSET Messages
    BY DEF Init, Places
  <2>6. total \in Int /\ perUser \in [Users -> Int] /\ ops \in SUBSET Operations
    BY DEF Init
  <2>9. closed \in BOOLEAN
    BY DEF Init
  <2>7. row \in [Roots -> Nat] /\ rows \in [Roots -> Nat] /\ bound \in [Messages -> Nat]
    BY DEF Init
  <2>8. child \in [Messages -> {"none", "spawned", "running"}]
    BY DEF Init
  <2>. QED
    BY <2>2, <2>4, <2>5, <2>6, <2>7, <2>8, <2>9 DEF Types
<1>2. Placed /\ Registered /\ Written
  BY
     DEF Init, Placed, Fits, Registered, Written, Leased, Cancellable, Holding, Running,
         Prepared
<1>3. Counted
  <2>1. LeasedTurns = {} /\ \A u \in Users : LeasedOf(u) = {}
    BY DEF Init, LeasedTurns, LeasedOf, Leased, Cancellable, Holding, Running, Prepared
  <2>2. Cardinality({}) = 0
    BY FS_EmptySet
  <2>3. Cardinality(LeasedTurns) = 0 /\ \A u \in Users : Cardinality(LeasedOf(u)) = 0
    BY <2>1, <2>2
  <2>4. total = 0 /\ \A u \in Users : perUser[u] = 0
    BY DEF Init
  <2>. QED
    BY <2>3, <2>4, Constants DEF Counted
<1>4. CallsFit
  BY DEF Init, CallsFit, CallFits, Clean
<1>5. Lined
  <2>1. ASSUME NEW p \in Parties, NEW r \in Roots PROVE ~Waits(p, r) /\ ~Holds(p, r)
    BY DEF Init, Waits, Holds, Parties, Holding, Running, Prepared
  <2>2. \A r \in Roots : Line(lock[r]) /\ \A p \in Parties : ~In(p, lock[r])
    BY DEF Init, Line, In
  <2>. QED
    BY <2>1, <2>2 DEF Lined
<1>. QED
  BY <1>1, <1>2, <1>3, <1>4, <1>5 DEF IInv

LEMMA NextIInv == IInv /\ [Next]_vars => IInv'
<1>. SUFFICES ASSUME IInv, [Next]_vars PROVE IInv'
  OBVIOUS
<1>0. Types /\ Placed /\ Registered /\ Counted /\ CallsFit /\ Lined /\ Written
  BY DEF IInv
<1>1. Types'
  BY TypesStep
<1>2. Placed'
  BY <1>0, PlacedStep
<1>3. Registered'
  BY <1>0, <1>1, RegisteredStep
<1>4. Counted'
  BY <1>0, <1>1, CountedStep
<1>5. CallsFit'
  BY <1>0, <1>1, <1>2, CallsStep
<1>6. Lined'
  BY <1>0, <1>1, LinedStep
<1>7. Written'
  BY <1>0, WrittenStep
<1>. QED
  BY <1>1, <1>2, <1>3, <1>4, <1>5, <1>6, <1>7 DEF IInv

LEMMA Invariant == Spec => []IInv
  BY InitIInv, NextIInv, PTL DEF Spec

-----------------------------------------------------------------------------
(* What follows from it.                                                    *)

\* Every variable of the turns, of the registry and of the root locks keeps its
\* type, the admission counters their limits, and a cancellation on its way is
\* one of a turn that is not over.
THEOREM ForegroundTypes == Spec => []TypeOK
<1>1. IInv => TypeOK
  <2>. SUFFICES ASSUME IInv PROVE TypeOK
    OBVIOUS
  <2>1. Types /\ Placed /\ Counted
    BY DEF IInv
  <2>2. total \in 0..MaxActive
    BY <2>1, LeasedFinite, Constants DEF Counted, Types
  <2>3. \A u \in Users : perUser[u] \in 0..MaxActivePerUser
    BY <2>1, LeasedFinite, Constants DEF Counted, Types
  <2>4. perUser \in [Users -> 0..MaxActivePerUser]
    BY <2>1, <2>3 DEF Types
  <2>5. \A o \in ops : \E m \in Messages, k \in OpKinds, r \in Roots \cup {Nobody} : o = Op(m, k, r)
    BY <2>1, OpOf DEF Types, Operations
  <2>6. thrown \subseteq {m \in Messages : pc[m] \in Leased}
    BY <2>1 DEF Types, Placed
  <2>. QED
    BY <2>1, <2>2, <2>4, <2>5, <2>6 DEF Types, TypeOK, Parties
<1>. QED
  BY <1>1, Invariant, PTL

\* Admission counts exactly the turns that hold a lease, and each of them and
\* each child left behind is registered: a stop always finds it, whatever
\* finalizer a cancellation interrupts (app/message_runtime.py 293-320).
THEOREM AdmittedIsFound == Spec => []AdmittedIsStoppable
<1>1. IInv => AdmittedIsStoppable
  <2>. SUFFICES ASSUME IInv PROVE AdmittedIsStoppable
    OBVIOUS
  <2>1. Types /\ Registered /\ Counted
    BY DEF IInv
  <2>2. total = Cardinality({m \in Messages : pc[m] \in Leased})
    BY <2>1 DEF Counted, LeasedTurns
  <2>3. \A u \in Users : perUser[u] = Cardinality({m \in Messages : UserOf[m] = u
        /\ pc[m] \in Leased})
    BY <2>1 DEF Counted, LeasedOf
  <2>4. \A o \in ops : /\ o.turn \in Messages
                       /\ o.kind # "child" => pc[o.turn] \in Leased
                       /\ o.kind = "child" => child[o.turn] = "running"
    BY <2>1 DEF Types, Operations, Registered, OpFits, Leased, Cancellable, Holding
  <2>5. \A m \in Messages : pc[m] \in Leased => \E o \in ops : o.kind # "child" /\ o.turn = m
    BY <2>1, OpFields DEF Registered
  <2>6. \A m \in Messages : child[m] = "running"
        => \E o \in ops : o.kind = "child" /\ o.turn = m
    BY <2>1, OpFields DEF Registered
  <2>7. {o.turn : o \in {p \in ops : p.kind # "child"}} = {m \in Messages : pc[m] \in Leased}
    BY <2>4, <2>5
  <2>8. {o.turn : o \in {p \in ops : p.kind = "child"}} = {m \in Messages : child[m] = "running"}
    BY <2>4, <2>6
  <2>. QED
    BY <2>2, <2>3, <2>7, <2>8 DEF AdmittedIsStoppable
<1>. QED
  BY <1>1, Invariant, PTL

\* A stop, reset or shutdown that reports a clean end left nothing running of what
\* was in flight when it began, and a clean shutdown nothing at all.
THEOREM CleanStopsAreComplete == Spec => []CleanStopIsComplete
<1>1. IInv => CleanStopIsComplete
  BY DEF IInv, CallsFit, CallFits, Clean, CleanStopIsComplete
<1>. QED
  BY <1>1, Invariant, PTL

\* No record of a turn that was there when a reset began is in the transcript
\* after the reset was confirmed, or comes back to it.
THEOREM ResetsAreFinal == Spec => []ResetIsFinal
<1>1. IInv => ResetIsFinal
  BY DEF IInv, CallsFit, CallFits, ResetIsFinal
<1>. QED
  BY <1>1, Invariant, PTL

-----------------------------------------------------------------------------
(* The refinement: who holds a root is who stands first and has taken it.   *)

HolderTells == /\ Holder \in [Roots -> Parties \cup {Nobody}]
               /\ \A r \in Roots, p \in Parties : Holder[r] = p <=> Holds(p, r)

LEMMA HolderIs == IInv => HolderTells
<1>. SUFFICES ASSUME IInv PROVE HolderTells
  OBVIOUS
<1>1. Types /\ Lined
  BY DEF IInv
<1>2. ASSUME NEW r \in Roots, lock[r] # <<>>
      PROVE Head(lock[r]) \in Parties /\ In(Head(lock[r]), lock[r])
  <2>1. lock[r] \in Seq(Parties)
    BY <1>1 DEF Types
  <2>2. 1 \in 1..Len(lock[r]) /\ Head(lock[r]) = lock[r][1]
    BY <1>2, <2>1
  <2>. QED
    BY <2>1, <2>2 DEF In
<1>3. Holder \in [Roots -> Parties \cup {Nobody}]
  BY <1>2 DEF Holder
<1>4. ASSUME NEW r \in Roots, NEW p \in Parties PROVE Holder[r] = p <=> Holds(p, r)
  <2>1. Holder[r] = IF lock[r] # <<>> /\ HoldsRoot(Head(lock[r])) THEN Head(lock[r]) ELSE Nobody
    BY DEF Holder
  <2>2. Waits(p, r) => (HoldsRoot(p) <=> Holds(p, r))
    BY DEF Waits, Holds, HoldsRoot
  <2>3. Holds(p, r) => Waits(p, r)
    BY DEF Waits, Holds
  <2>4. Holds(p, r) => lock[r] # <<>> /\ Head(lock[r]) = p
    BY <1>1 DEF Lined, First
  <2>5. lock[r] # <<>> /\ Head(lock[r]) = p => Waits(p, r)
    BY <1>1, <1>2 DEF Lined
  <2>6. p # Nobody
    BY Constants
  <2>. QED
    BY <2>1, <2>2, <2>3, <2>4, <2>5, <2>6
<1>. QED
  BY <1>3, <1>4 DEF HolderTells

LEMMA HolderWillBe == IInv' => HolderTells'
  BY HolderIs, PTL

\* The holders change as who holds a root does.
LEMMA HolderStays ==
    ASSUME IInv, IInv', \A x \in Parties, q \in Roots : Holds(x, q)' <=> Holds(x, q)
    PROVE  Holder' = Holder
<1>1. /\ Holder \in [Roots -> Parties \cup {Nobody}]
      /\ \A r \in Roots, p \in Parties : Holder[r] = p <=> Holds(p, r)
  BY HolderIs DEF HolderTells
<1>2. /\ Holder' \in [Roots -> Parties \cup {Nobody}]
      /\ \A r \in Roots, p \in Parties : Holder'[r] = p <=> Holds(p, r)'
  BY HolderWillBe DEF HolderTells
<1>3. \A r \in Roots : Holder'[r] = Holder[r]
  BY <1>1, <1>2
<1>. QED
  BY <1>1, <1>2, <1>3

LEMMA HolderTaken ==
    ASSUME IInv, IInv', NEW p \in Parties, NEW r \in Roots, \A q \in Roots : ~Holds(p, q),
           \A x \in Parties, q \in Roots : Holds(x, q)' <=> Holds(x, q) \/ (x = p /\ q = r)
    PROVE  /\ Holder[r] = Nobody /\ \A q \in Roots : Holder[q] # p
           /\ Holder' = [Holder EXCEPT ![r] = p]
<1>1. /\ Holder \in [Roots -> Parties \cup {Nobody}]
      /\ \A q \in Roots, x \in Parties : Holder[q] = x <=> Holds(x, q)
  BY HolderIs DEF HolderTells
<1>2. /\ Holder' \in [Roots -> Parties \cup {Nobody}]
      /\ \A q \in Roots, x \in Parties : Holder'[q] = x <=> Holds(x, q)'
  BY HolderWillBe DEF HolderTells
<1>3. Holder'[r] = p /\ \A q \in Roots : q # r => Holder'[q] = Holder[q]
  BY <1>1, <1>2
<1>4. Holder[r] = Nobody
  BY <1>1, <1>2, <1>3
<1>. QED
  BY <1>1, <1>2, <1>3, <1>4

LEMMA HolderLeft ==
    ASSUME IInv, IInv', NEW p \in Parties, NEW r \in Roots, Holds(p, r),
           \A q \in Roots : Holds(p, q) => q = r,
           \A x \in Parties, q \in Roots : Holds(x, q)' <=> Holds(x, q) /\ x # p
    PROVE  Holder[r] = p /\ Holder' = [Holder EXCEPT ![r] = Nobody]
<1>1. /\ Holder \in [Roots -> Parties \cup {Nobody}]
      /\ \A q \in Roots, x \in Parties : Holder[q] = x <=> Holds(x, q)
  BY HolderIs DEF HolderTells
<1>2. /\ Holder' \in [Roots -> Parties \cup {Nobody}]
      /\ \A q \in Roots, x \in Parties : Holder'[q] = x <=> Holds(x, q)'
  BY HolderWillBe DEF HolderTells
<1>3. Holder[r] = p /\ Holder'[r] = Nobody /\ \A q \in Roots : q # r => Holder'[q] = Holder[q]
  BY <1>1, <1>2, Constants
<1>. QED
  BY <1>1, <1>2, <1>3

\* Who has given the root back for good.
Gone(p) == IF p \in Messages THEN pc[p] \in {"cleaning", "ending", "done"} ELSE stop[p].pc = "cleared"

LEMMA LeftIs == Left = {p \in Parties : Gone(p)}
  BY Constants DEF Left, Gone, Parties

LEMMA LeftWillBe == Left' = {p \in Parties : Gone(p)'}
  BY Constants DEF Left, Gone, Parties

LEMMA LeftStays ==
    ASSUME \A x \in Parties : Gone(x)' <=> Gone(x)
    PROVE  Left' = Left
  BY LeftIs, LeftWillBe

LEMMA LeftGrows ==
    ASSUME NEW p \in Parties, \A x \in Parties : Gone(x)' <=> Gone(x) \/ x = p
    PROVE  Left' = Left \cup {p}
  BY LeftIs, LeftWillBe

LEMMA StepMaps ==
    ASSUME IInv, IInv', Types, CallsFit, Written, [Next]_vars
    PROVE  [Transcript!Next]_(Transcript!vars)
<1>1. ASSUME NEW m \in Messages, Admit(m) PROVE [Transcript!Next]_(Transcript!vars)
  <2>1. \A x \in Parties : (\A q \in Roots : Holds(x, q)' <=> Holds(x, q))
        /\ (Gone(x)' <=> Gone(x))
    BY <1>1, Constants
       DEF Admit, Go, HasCapacity, admission, Types, Parties, Cancellable, Holding,
           Running, Prepared, Holds, Gone
  <2>2. UNCHANGED log
    BY <1>1 DEF Admit, store, GetOrCreate
  <2>. QED
    BY <2>1, <2>2, HolderStays, LeftStays DEF Transcript!vars
<1>2. ASSUME NEW m \in Messages, Reject(m) PROVE [Transcript!Next]_(Transcript!vars)
  <2>1. \A x \in Parties : (\A q \in Roots : Holds(x, q)' <=> Holds(x, q))
        /\ (Gone(x)' <=> Gone(x))
    BY <1>2, Constants
       DEF Reject, Go, Types, Parties, Cancellable, Holding, Running, Prepared, Holds, Gone
  <2>2. UNCHANGED log
    BY <1>2 DEF Reject, store, GetOrCreate
  <2>. QED
    BY <2>1, <2>2, HolderStays, LeftStays DEF Transcript!vars
<1>3. ASSUME NEW m \in Messages, Drop(m) PROVE [Transcript!Next]_(Transcript!vars)
  <2>1. \A x \in Parties : (\A q \in Roots : Holds(x, q)' <=> Holds(x, q))
        /\ (Gone(x)' <=> Gone(x) \/ x = m)
    BY <1>3, Constants
       DEF Drop, Go, At, Types, Parties, Cancellable, Holding, Running, Prepared, Holds,
           Gone
  <2>2. UNCHANGED log /\ m \in Parties /\ \A q \in Roots : ~Holds(m, q)
    BY <1>3 DEF Drop, At, store, Parties, Holds, Holding, Running, Prepared
  <2>4. Transcript!Forgo(m)
    BY <2>1, <2>2, HolderStays, LeftGrows, HolderIs DEF HolderTells, Transcript!Forgo
  <2>. QED
    BY <2>2, <2>4 DEF Transcript!Next, Parties
<1>4. ASSUME NEW m \in Messages, Resolve(m) PROVE [Transcript!Next]_(Transcript!vars)
  <2>1. \A x \in Parties : (\A q \in Roots : Holds(x, q)' <=> Holds(x, q))
        /\ (Gone(x)' <=> Gone(x))
    BY <1>4, Constants
       DEF Resolve, Go, At, GetOrCreate, Types, Parties, Cancellable, Holding, Running,
           Prepared, Holds, Gone
  <2>2. UNCHANGED log
    BY <1>4 DEF Resolve, store, GetOrCreate
  <2>. QED
    BY <2>1, <2>2, HolderStays, LeftStays DEF Transcript!vars
<1>5. ASSUME NEW m \in Messages, Queue(m) PROVE [Transcript!Next]_(Transcript!vars)
  <2>1. \A x \in Parties : (\A q \in Roots : Holds(x, q)' <=> Holds(x, q))
        /\ (Gone(x)' <=> Gone(x))
    BY <1>5, Constants
       DEF Queue, Go, At, Types, Parties, Cancellable, Holding, Running, Prepared, Holds,
           Gone
  <2>2. UNCHANGED log
    BY <1>5 DEF Queue, store, GetOrCreate
  <2>. QED
    BY <2>1, <2>2, HolderStays, LeftStays DEF Transcript!vars
<1>6. ASSUME NEW m \in Messages, RecheckFails(m) PROVE [Transcript!Next]_(Transcript!vars)
  <2>1. \A x \in Parties : (\A q \in Roots : Holds(x, q)' <=> Holds(x, q))
        /\ (Gone(x)' <=> Gone(x) \/ x = m)
    BY <1>6, Constants
       DEF RecheckFails, Go, At, HasRoot, Unlock, Types, Parties, Cancellable, Holding,
           Running, Prepared, Holds, Gone
  <2>2. UNCHANGED log /\ m \in Parties /\ \A q \in Roots : ~Holds(m, q)
    BY <1>6 DEF RecheckFails, At, store, Parties, Holds, Holding, Running, Prepared
  <2>4. Transcript!Forgo(m)
    BY <2>1, <2>2, HolderStays, LeftGrows, HolderIs DEF HolderTells, Transcript!Forgo
  <2>. QED
    BY <2>2, <2>4 DEF Transcript!Next, Parties
<1>7. ASSUME NEW m \in Messages, StartRun(m) PROVE [Transcript!Next]_(Transcript!vars)
  <2>1. \A x \in Parties : (\A q \in Roots : Holds(x, q)' <=> Holds(x, q)
        \/ (x = m /\ q = RootOf[m])) /\ (Gone(x)' <=> Gone(x))
    BY <1>7, Constants
       DEF StartRun, Go, At, HasRoot, Types, Parties, Cancellable, Holding, Running,
           Prepared, Holds, Gone
  <2>2. UNCHANGED log /\ m \in Parties /\ RootOf[m] \in Roots /\ ~Gone(m) /\ \A q \in Roots : ~Holds(m, q)
    BY <1>7, Constants
       DEF StartRun, At, store, Parties, Gone, Holds, Holding, Running, Prepared
  <2>3. Left' = Left /\ m \notin Left
    BY <2>1, <2>2, LeftStays, LeftIs
  <2>4. Transcript!Take(RootOf[m], m)
    BY <2>1, <2>2, <2>3, HolderTaken DEF Transcript!Take
  <2>. QED
    BY <2>2, <2>4 DEF Transcript!Next, Parties
<1>8. ASSUME NEW m \in Messages, Touch(m) PROVE [Transcript!Next]_(Transcript!vars)
  <2>1. \A x \in Parties : (\A q \in Roots : Holds(x, q)' <=> Holds(x, q))
        /\ (Gone(x)' <=> Gone(x))
    BY <1>8, Constants
       DEF Touch, Go, At, GetOrCreate, Types, Parties, Cancellable, Holding, Running,
           Prepared, Holds, Gone
  <2>2. UNCHANGED log
    BY <1>8 DEF Touch, store, GetOrCreate
  <2>. QED
    BY <2>1, <2>2, HolderStays, LeftStays DEF Transcript!vars
<1>9. ASSUME NEW m \in Messages, SaveMessage(m) PROVE [Transcript!Next]_(Transcript!vars)
  <2>1. \A x \in Parties : (\A q \in Roots : Holds(x, q)' <=> Holds(x, q))
        /\ (Gone(x)' <=> Gone(x))
    BY <1>9, Constants
       DEF SaveMessage, Go, At, Spawn, Types, Parties, Cancellable, Holding, Running,
           Prepared, Holds, Gone
  <2>2. UNCHANGED log
    BY <1>9 DEF SaveMessage, store, GetOrCreate
  <2>. QED
    BY <2>1, <2>2, HolderStays, LeftStays DEF Transcript!vars
<1>10. ASSUME NEW m \in Messages, Saved(m) PROVE [Transcript!Next]_(Transcript!vars)
  <2>1. \A x \in Parties : (\A q \in Roots : Holds(x, q)' <=> Holds(x, q))
        /\ (Gone(x)' <=> Gone(x))
    BY <1>10, Constants
       DEF Saved, Go, At, Types, Parties, Cancellable, Holding, Running, Prepared, Holds,
           Gone
  <2>2. UNCHANGED log
    BY <1>10 DEF Saved, store, GetOrCreate
  <2>. QED
    BY <2>1, <2>2, HolderStays, LeftStays DEF Transcript!vars
<1>11. ASSUME NEW m \in Messages, CallTool(m) PROVE [Transcript!Next]_(Transcript!vars)
  <2>1. \A x \in Parties : (\A q \in Roots : Holds(x, q)' <=> Holds(x, q))
        /\ (Gone(x)' <=> Gone(x))
    BY <1>11, Constants
       DEF CallTool, Go, At, Spawn, Types, Parties, Cancellable, Holding, Running,
           Prepared, Holds, Gone
  <2>2. UNCHANGED log
    BY <1>11 DEF CallTool, store, GetOrCreate
  <2>. QED
    BY <2>1, <2>2, HolderStays, LeftStays DEF Transcript!vars
<1>12. ASSUME NEW m \in Messages, Answer(m) PROVE [Transcript!Next]_(Transcript!vars)
  <2>1. \A x \in Parties : (\A q \in Roots : Holds(x, q)' <=> Holds(x, q))
        /\ (Gone(x)' <=> Gone(x))
    BY <1>12, Constants
       DEF Answer, Go, At, Types, Parties, Cancellable, Holding, Running, Prepared, Holds,
           Gone
  <2>2. UNCHANGED log
    BY <1>12 DEF Answer, store, GetOrCreate
  <2>. QED
    BY <2>1, <2>2, HolderStays, LeftStays DEF Transcript!vars
<1>13. ASSUME NEW m \in Messages, TimeOut(m) PROVE [Transcript!Next]_(Transcript!vars)
  <2>1. \A x \in Parties : (\A q \in Roots : Holds(x, q)' <=> Holds(x, q))
        /\ (Gone(x)' <=> Gone(x))
    BY <1>13, Constants
       DEF TimeOut, Go, At, Types, Parties, Cancellable, Holding, Running, Prepared, Holds,
           Gone
  <2>2. UNCHANGED log
    BY <1>13 DEF TimeOut, store, GetOrCreate
  <2>. QED
    BY <2>1, <2>2, HolderStays, LeftStays DEF Transcript!vars
<1>14. ASSUME NEW m \in Messages, Delivered(m) PROVE [Transcript!Next]_(Transcript!vars)
  <2>1. \A x \in Parties : (\A q \in Roots : Holds(x, q)' <=> Holds(x, q))
        /\ (Gone(x)' <=> Gone(x))
    BY <1>14, Constants
       DEF Delivered, Go, At, Types, Parties, Cancellable, Holding, Running, Prepared,
           Holds, Gone
  <2>2. UNCHANGED log
    BY <1>14 DEF Delivered, store, GetOrCreate
  <2>. QED
    BY <2>1, <2>2, HolderStays, LeftStays DEF Transcript!vars
<1>15. ASSUME NEW m \in Messages, Persist(m) PROVE [Transcript!Next]_(Transcript!vars)
  <2>1. \A x \in Parties : (\A q \in Roots : Holds(x, q)' <=> Holds(x, q))
        /\ (Gone(x)' <=> Gone(x))
    BY <1>15, Constants
       DEF Persist, Go, At, LeaveRun, Record, Types, Parties, Cancellable, Holding,
           Running, Prepared, Holds, Gone
  <2>2. Holder' = Holder /\ Left' = Left
    BY <2>1, HolderStays, LeftStays
  <2>3. \/ UNCHANGED log
        \/ log' = [log EXCEPT ![RootOf[m]] = Append(log[RootOf[m]], m)] /\ Holds(m, RootOf[m])
    BY <1>15 DEF Persist, At, Record, Holds, Holding, Running, Prepared
  <2>4. CASE log' = [log EXCEPT ![RootOf[m]] = Append(log[RootOf[m]], m)] /\ Holds(m, RootOf[m])
    <3>1. Holder[RootOf[m]] = m /\ m \in Parties /\ RootOf[m] \in Roots
      BY <2>4, HolderIs, Constants DEF HolderTells, Parties
    <3>2. Transcript!Write(RootOf[m])
      BY <2>2, <2>4, <3>1 DEF Transcript!Write, Parties
    <3>. QED
      BY <3>1, <3>2 DEF Transcript!Next
  <2>5. CASE UNCHANGED log
    BY <2>2, <2>5 DEF Transcript!vars
  <2>. QED
    BY <2>3, <2>4, <2>5
<1>16. ASSUME NEW m \in Messages, EndEarly(m) PROVE [Transcript!Next]_(Transcript!vars)
  <2>1. \A x \in Parties : (\A q \in Roots : Holds(x, q)' <=> Holds(x, q))
        /\ (Gone(x)' <=> Gone(x))
    BY <1>16, Constants
       DEF EndEarly, Go, LeaveRun, Types, Parties, Cancellable, Holding, Running, Prepared,
           Holds, Gone
  <2>2. UNCHANGED log
    BY <1>16 DEF EndEarly, store, GetOrCreate
  <2>. QED
    BY <2>1, <2>2, HolderStays, LeftStays DEF Transcript!vars
<1>17. ASSUME NEW m \in Messages, React(m) PROVE [Transcript!Next]_(Transcript!vars)
  <2>1. \A x \in Parties : (\A q \in Roots : Holds(x, q)' <=> Holds(x, q) /\ x # m)
        /\ (Gone(x)' <=> Gone(x) \/ x = m)
    BY <1>17, Constants
       DEF React, Go, At, Unlock, Types, Parties, Cancellable, Holding, Running, Prepared,
           Holds, Gone
  <2>2. /\ UNCHANGED log /\ m \in Parties /\ RootOf[m] \in Roots /\ Holds(m, RootOf[m])
        /\ \A q \in Roots : Holds(m, q) => q = RootOf[m]
    BY <1>17, Constants DEF React, At, store, Parties, Holds, Holding
  <2>4. Holder[RootOf[m]] = m /\ Holder' = [Holder EXCEPT ![RootOf[m]] = Nobody]
    BY <2>1, <2>2, HolderLeft
  <2>5. Transcript!Release(RootOf[m])
    BY <2>1, <2>2, <2>4, LeftGrows DEF Transcript!Release, Parties
  <2>. QED
    BY <2>2, <2>5 DEF Transcript!Next
<1>18. ASSUME NEW m \in Messages, Send(m) PROVE [Transcript!Next]_(Transcript!vars)
  <2>1. \A x \in Parties : (\A q \in Roots : Holds(x, q)' <=> Holds(x, q))
        /\ (Gone(x)' <=> Gone(x))
    BY <1>18, Constants
       DEF Send, At, Types, Parties, Cancellable, Holding, Running, Prepared, Holds, Gone
  <2>2. UNCHANGED log
    BY <1>18 DEF Send, store, GetOrCreate
  <2>. QED
    BY <2>1, <2>2, HolderStays, LeftStays DEF Transcript!vars
<1>19. ASSUME NEW m \in Messages, ChildStarts(m) PROVE [Transcript!Next]_(Transcript!vars)
  <2>1. \A x \in Parties : (\A q \in Roots : Holds(x, q)' <=> Holds(x, q))
        /\ (Gone(x)' <=> Gone(x))
    BY <1>19, Constants
       DEF ChildStarts, Record, Types, Parties, Cancellable, Holding, Running, Prepared,
           Holds, Gone
  <2>2. Holder' = Holder /\ Left' = Left
    BY <2>1, HolderStays, LeftStays
  <2>3. \/ UNCHANGED log
        \/ log' = [log EXCEPT ![RootOf[m]] = Append(log[RootOf[m]], m)] /\ Holds(m, RootOf[m])
    BY <1>19 DEF ChildStarts, At, Record, Holds, Holding, Running, Prepared
  <2>4. CASE log' = [log EXCEPT ![RootOf[m]] = Append(log[RootOf[m]], m)] /\ Holds(m, RootOf[m])
    <3>1. Holder[RootOf[m]] = m /\ m \in Parties /\ RootOf[m] \in Roots
      BY <2>4, HolderIs, Constants DEF HolderTells, Parties
    <3>2. Transcript!Write(RootOf[m])
      BY <2>2, <2>4, <3>1 DEF Transcript!Write, Parties
    <3>. QED
      BY <3>1, <3>2 DEF Transcript!Next
  <2>5. CASE UNCHANGED log
    BY <2>2, <2>5 DEF Transcript!vars
  <2>. QED
    BY <2>3, <2>4, <2>5
<1>20. ASSUME NEW m \in Messages, ChildEnds(m) PROVE [Transcript!Next]_(Transcript!vars)
  <2>1. \A x \in Parties : (\A q \in Roots : Holds(x, q)' <=> Holds(x, q))
        /\ (Gone(x)' <=> Gone(x))
    BY <1>20, Constants
       DEF ChildEnds, Types, Parties, Cancellable, Holding, Running, Prepared, Holds, Gone
  <2>2. UNCHANGED log
    BY <1>20 DEF ChildEnds, store, GetOrCreate
  <2>. QED
    BY <2>1, <2>2, HolderStays, LeftStays DEF Transcript!vars
<1>21. ASSUME NEW m \in Messages, Cancelled(m) PROVE [Transcript!Next]_(Transcript!vars)
  <2>1. \A x \in Parties : (\A q \in Roots : Holds(x, q)' <=> Holds(x, q) /\ x # m)
        /\ (Gone(x)' <=> Gone(x) \/ x = m)
    BY <1>21, Constants
       DEF Cancelled, Go, Unlock, LeaveRun, Types, Parties, Cancellable, Holding, Running,
           Prepared, Holds, Gone
  <2>6. UNCHANGED log /\ m \in Parties /\ RootOf[m] \in Roots
    BY <1>21, Constants DEF Cancelled, store, Parties
  <2>7. CASE Holds(m, RootOf[m])
    <3>2. \A q \in Roots : Holds(m, q) => q = RootOf[m]
      BY DEF Holds
    <3>4. Holder[RootOf[m]] = m /\ Holder' = [Holder EXCEPT ![RootOf[m]] = Nobody]
      BY <2>1, <2>6, <2>7, <3>2, HolderLeft
    <3>5. Transcript!Release(RootOf[m])
      BY <2>1, <2>6, <3>4, LeftGrows DEF Transcript!Release, Parties
    <3>. QED
      BY <2>6, <3>5 DEF Transcript!Next
  <2>8. CASE ~Holds(m, RootOf[m])
    <3>1. \A q \in Roots : ~Holds(m, q)
      BY <2>8 DEF Holds
    <3>2. \A x \in Parties, q \in Roots : Holds(x, q)' <=> Holds(x, q)
      BY <2>1, <3>1
    <3>3. Transcript!Forgo(m)
      BY <2>1, <2>6, <3>1, <3>2, HolderStays, LeftGrows, HolderIs
         DEF HolderTells, Transcript!Forgo
    <3>. QED
      BY <2>6, <3>3 DEF Transcript!Next, Parties
  <2>. QED
    BY <2>7, <2>8
<1>22. ASSUME NEW m \in Messages, Cleanup(m) PROVE [Transcript!Next]_(Transcript!vars)
  <2>1. \A x \in Parties : (\A q \in Roots : Holds(x, q)' <=> Holds(x, q))
        /\ (Gone(x)' <=> Gone(x))
    BY <1>22, Constants
       DEF Cleanup, Go, Types, Parties, Cancellable, Holding, Running, Prepared, Holds,
           Gone
  <2>2. UNCHANGED log
    BY <1>22 DEF Cleanup, store, GetOrCreate
  <2>. QED
    BY <2>1, <2>2, HolderStays, LeftStays DEF Transcript!vars
<1>23. ASSUME NEW m \in Messages, End(m) PROVE [Transcript!Next]_(Transcript!vars)
  <2>1. \A x \in Parties : (\A q \in Roots : Holds(x, q)' <=> Holds(x, q))
        /\ (Gone(x)' <=> Gone(x))
    BY <1>23, Constants
       DEF End, Go, Types, Parties, Cancellable, Holding, Running, Prepared, Holds, Gone
  <2>2. UNCHANGED log
    BY <1>23 DEF End, store, GetOrCreate
  <2>. QED
    BY <2>1, <2>2, HolderStays, LeftStays DEF Transcript!vars
<1>24. ASSUME NEW s \in Stops, Begin(s) PROVE [Transcript!Next]_(Transcript!vars)
  <2>3. /\ stop[s].pc = "idle" /\ stop'[s].pc = "scan"
        /\ \A t \in Stops : t # s => stop'[t] = stop[t]
    BY <1>24, BeginMoves
  <2>1. \A x \in Parties : (\A q \in Roots : Holds(x, q)' <=> Holds(x, q))
        /\ (Gone(x)' <=> Gone(x))
    <3>1. UNCHANGED pc
      BY <1>24 DEF Begin
    <3>. QED
      BY <2>3, <3>1, Constants DEF Moved, Parties, Holds, Gone
  <2>2. UNCHANGED log
    BY <1>24 DEF Begin, store, GetOrCreate
  <2>. QED
    BY <2>1, <2>2, HolderStays, LeftStays DEF Transcript!vars
<1>25. ASSUME NEW s \in Stops, Scan(s) PROVE [Transcript!Next]_(Transcript!vars)
  <2>3. /\ stop[s].pc = "scan" /\ stop'[s].pc \in {"waiting", "clean", "stopped"}
        /\ \A t \in Stops : t # s => stop'[t] = stop[t]
    BY <1>25, ScanMoves DEF Scan, Moved
  <2>1. \A x \in Parties : (\A q \in Roots : Holds(x, q)' <=> Holds(x, q))
        /\ (Gone(x)' <=> Gone(x))
    <3>1. UNCHANGED pc
      BY <1>25 DEF Scan
    <3>. QED
      BY <2>3, <3>1, Constants DEF Moved, Parties, Holds, Gone
  <2>2. UNCHANGED log
    BY <1>25 DEF Scan, store, GetOrCreate
  <2>. QED
    BY <2>1, <2>2, HolderStays, LeftStays DEF Transcript!vars
<1>26. ASSUME NEW s \in Stops, Drained(s) PROVE [Transcript!Next]_(Transcript!vars)
  <2>3. stop[s].pc = "waiting" /\ stop[s].root \in Roots /\ Moved(s, "scan", {})
    BY <1>26, CancelMoves DEF CallsFit, CallFits, Drained
  <2>1. \A x \in Parties : (\A q \in Roots : Holds(x, q)' <=> Holds(x, q))
        /\ (Gone(x)' <=> Gone(x))
    <3>1. UNCHANGED pc
      BY <1>26 DEF Drained
    <3>. QED
      BY <2>3, <3>1, Constants DEF Moved, Parties, Holds, Gone
  <2>2. UNCHANGED log
    BY <1>26 DEF Drained, store, GetOrCreate
  <2>. QED
    BY <2>1, <2>2, HolderStays, LeftStays DEF Transcript!vars
<1>27. ASSUME NEW s \in Stops, GiveUp(s) PROVE [Transcript!Next]_(Transcript!vars)
  <2>3. stop[s].pc = "waiting" /\ stop[s].root \in Roots /\ Moved(s, "unclean", {})
    BY <1>27, CancelMoves DEF CallsFit, CallFits, GiveUp
  <2>1. \A x \in Parties : (\A q \in Roots : Holds(x, q)' <=> Holds(x, q))
        /\ (Gone(x)' <=> Gone(x))
    <3>1. UNCHANGED pc
      BY <1>27 DEF GiveUp
    <3>. QED
      BY <2>3, <3>1, Constants DEF Moved, Parties, Holds, Gone
  <2>2. UNCHANGED log
    BY <1>27 DEF GiveUp, store, GetOrCreate
  <2>. QED
    BY <2>1, <2>2, HolderStays, LeftStays DEF Transcript!vars
<1>28. ASSUME NEW s \in Stops, QueueReset(s) PROVE [Transcript!Next]_(Transcript!vars)
  <2>3. stop[s].pc = "clean" /\ stop[s].root \in Roots /\ Moved(s, "locking", {})
    BY <1>28, CancelMoves DEF CallsFit, CallFits, QueueReset
  <2>1. \A x \in Parties : (\A q \in Roots : Holds(x, q)' <=> Holds(x, q))
        /\ (Gone(x)' <=> Gone(x))
    <3>1. UNCHANGED pc
      BY <1>28 DEF QueueReset
    <3>. QED
      BY <2>3, <3>1, Constants DEF Moved, Parties, Holds, Gone
  <2>2. UNCHANGED log
    BY <1>28 DEF QueueReset, store, GetOrCreate
  <2>. QED
    BY <2>1, <2>2, HolderStays, LeftStays DEF Transcript!vars
<1>29. ASSUME NEW s \in Stops, HoldReset(s) PROVE [Transcript!Next]_(Transcript!vars)
  <2>3. stop[s].pc = "locking" /\ stop[s].root \in Roots /\ Moved(s, "erasing", {})
    BY <1>29, CancelMoves DEF CallsFit, CallFits, HoldReset
  <2>1. \A x \in Parties : (\A q \in Roots : Holds(x, q)' <=> Holds(x, q)
        \/ (x = s /\ q = stop[s].root)) /\ (Gone(x)' <=> Gone(x))
    <3>1. UNCHANGED pc
      BY <1>29 DEF HoldReset
    <3>. QED
      BY <2>3, <3>1, Constants DEF Moved, Parties, Holds, Gone
  <2>2. UNCHANGED log /\ s \in Parties /\ ~Gone(s) /\ \A q \in Roots : ~Holds(s, q)
    BY <1>29, <2>3, Constants DEF HoldReset, store, Parties, Gone, Holds
  <2>4. Left' = Left /\ s \notin Left
    BY <2>1, <2>2, LeftStays, LeftIs
  <2>5. Transcript!Take(stop[s].root, s)
    BY <2>1, <2>2, <2>3, <2>4, HolderTaken DEF Transcript!Take
  <2>. QED
    BY <2>2, <2>3, <2>5 DEF Transcript!Next, Parties
<1>30. ASSUME NEW s \in Stops, Erase(s) PROVE [Transcript!Next]_(Transcript!vars)
  <2>3. stop[s].pc = "erasing" /\ stop[s].root \in Roots /\ Moved(s, "cleared", {})
    BY <1>30, CancelMoves DEF CallsFit, CallFits, Erase
  <2>1. \A x \in Parties : (\A q \in Roots : Holds(x, q)' <=> Holds(x, q) /\ x # s)
        /\ (Gone(x)' <=> Gone(x) \/ x = s)
    <3>1. UNCHANGED pc
      BY <1>30 DEF Erase
    <3>. QED
      BY <2>3, <3>1, Constants DEF Moved, Parties, Holds, Gone
  <2>2. /\ log' = [log EXCEPT ![stop[s].root] = <<>>] /\ s \in Parties /\ Holds(s, stop[s].root)
        /\ \A q \in Roots : Holds(s, q) => q = stop[s].root
    BY <1>30, <2>3, Constants DEF Erase, Parties, Holds
  <2>4. Holder[stop[s].root] = s /\ Holder' = [Holder EXCEPT ![stop[s].root] = Nobody]
    BY <2>1, <2>2, <2>3, HolderLeft
  <2>5. s \notin Transcript!Writers(log[stop[s].root])
    <3>1. \A i \in 1..Len(log[stop[s].root]) : log[stop[s].root][i] \in Messages
      BY <2>3 DEF Types
    <3>. QED
      BY <3>1, Constants DEF Transcript!Writers
  <2>6. Transcript!Release(stop[s].root)
    BY <2>1, <2>2, <2>4, <2>5, LeftGrows DEF Transcript!Release, Parties
  <2>. QED
    BY <2>3, <2>6 DEF Transcript!Next
<1>31. ASSUME NEW r \in Roots, Expire(r) PROVE [Transcript!Next]_(Transcript!vars)
  <2>1. \A x \in Parties : (\A q \in Roots : Holds(x, q)' <=> Holds(x, q))
        /\ (Gone(x)' <=> Gone(x))
    BY <1>31 DEF Expire, Holds, Gone
  <2>2. Holder' = Holder /\ Left' = Left
    BY <2>1, HolderStays, LeftStays
  <2>3. Holder[r] \notin Transcript!Writers(log[r])
    <3>1. ASSUME NEW i \in 1..Len(log[r]) PROVE log[r][i] # Holder[r]
      <4>1. log[r][i] \in Messages /\ RootOf[log[r][i]] = r /\ pc[log[r][i]] \notin Silent
        BY <3>1 DEF Types, Written, WriterFits
      <4>2. ~Holds(log[r][i], r)
        BY <1>31, <4>1 DEF Expire, Holds, Holding, Running, Silent
      <4>. QED
        BY <4>1, <4>2, HolderIs DEF HolderTells, Parties
    <3>. QED
      BY <3>1 DEF Transcript!Writers
  <2>4. Transcript!Erase(r)
    BY <1>31, <2>2, <2>3 DEF Expire, Transcript!Erase
  <2>. QED
    BY <2>4 DEF Transcript!Next
<1>32. CASE UNCHANGED vars
  BY <1>32 DEF vars, Holder, HoldsRoot, Left, Transcript!vars
<1>. QED
  BY <1>1, <1>2, <1>3, <1>4, <1>5, <1>6, <1>7, <1>8, <1>9, <1>10, <1>11, <1>12, <1>13,
     <1>14, <1>15, <1>16, <1>17, <1>18, <1>19, <1>20, <1>21, <1>22, <1>23, <1>24, <1>25,
     <1>26, <1>27, <1>28, <1>29, <1>30, <1>31, <1>32
     DEF Next, Enter, Turn, Child, Leave, Cancel

LEMMA InitMaps == Init => Transcript!Init
<1>. SUFFICES ASSUME Init PROVE Transcript!Init
  OBVIOUS
<1>1. \A r \in Roots : lock[r] = <<>>
  BY DEF Init
<1>2. Holder = [r \in Roots |-> Nobody]
  BY <1>1 DEF Holder
<1>3. Left = {}
  BY DEF Init, Left
<1>. QED
  BY <1>2, <1>3 DEF Init, Transcript!Init

\* The turns are serial on each root: every step of a turn, of a stop or of the
\* retention is one that the root locks allow, or leaves the transcript and the
\* holders alone.
THEOREM TurnsAreSerial == Spec => ImplementsTranscript
<1>1. IInv /\ IInv' /\ [Next]_vars => [Transcript!Next]_(Transcript!vars)
  BY StepMaps DEF IInv
<1>. QED
  BY <1>1, InitMaps, Invariant, PTL DEF Spec, ImplementsTranscript, Transcript!Spec

-----------------------------------------------------------------------------
(* What the root locks promise makes every transcript contiguous: the       *)
(* records of a party that holds a root stand at the end of its transcript, *)
(* and those before are of parties that have left for good.                 *)

TranscriptTypes ==
    /\ Holder \in [Roots -> Parties \cup {Nobody}]
    /\ log \in [Roots -> Seq(Parties)]
    /\ Left \in SUBSET Parties

\* A holder has not left, and holds one root.
HoldersStay ==
    /\ \A r \in Roots : Holder[r] \notin Left
    /\ \A q, r \in Roots : Holder[r] \in Parties /\ Holder[q] = Holder[r] => q = r

\* A transcript whose root is held by h, when the parties in gone have left: its writers
\* are h, whose records are the last ones, and parties that have left.
Serial(seq, h, gone) ==
    /\ \A i \in 1..Len(seq) : seq[i] \in gone \/ seq[i] = h
    /\ \A i, j \in 1..Len(seq) : i < j /\ seq[i] = h => seq[j] = h
    /\ \A i, j, k \in 1..Len(seq) : i < j /\ j < k /\ seq[i] = seq[k] => seq[j] = seq[i]

SerialInv == TranscriptTypes /\ HoldersStay /\ \A r \in Roots : Serial(log[r], Holder[r], Left)

-----------------------------------------------------------------------------
LEMMA TakeSerial ==
    ASSUME NEW seq \in Seq(Parties), NEW gone, NEW h, h \notin Parties, Serial(seq, h, gone),
           NEW p, p \notin gone
    PROVE  Serial(seq, p, gone)
<1>1. \A i \in 1..Len(seq) : seq[i] \in gone
  BY DEF Serial
<1>. QED
  BY <1>1 DEF Serial

LEMMA WriteSerial ==
    ASSUME NEW seq \in Seq(Parties), NEW gone, NEW h \in Parties, Serial(seq, h, gone), h \notin gone
    PROVE  Serial(Append(seq, h), h, gone)
<1>. DEFINE new == Append(seq, h)
<1>1. /\ Len(new) = Len(seq) + 1 /\ Len(seq) \in Nat /\ new[Len(seq) + 1] = h
      /\ \A i \in 1..Len(seq) : new[i] = seq[i]
  OBVIOUS
<1>. HIDE DEF new
<1>2. \A i \in 1..Len(new) : i \in 1..Len(seq) \/ i = Len(seq) + 1
  BY <1>1
<1>3. ASSUME NEW i \in 1..Len(new) PROVE new[i] \in gone \/ new[i] = h
  BY <1>1, <1>2 DEF Serial
<1>4. ASSUME NEW i \in 1..Len(new), NEW j \in 1..Len(new), i < j, new[i] = h PROVE new[j] = h
  <2>1. i \in 1..Len(seq)
    BY <1>1, <1>4
  <2>. QED
    BY <1>1, <1>2, <1>4, <2>1 DEF Serial
<1>5. ASSUME NEW i \in 1..Len(new), NEW j \in 1..Len(new), NEW k \in 1..Len(new),
             i < j, j < k, new[i] = new[k]
      PROVE  new[j] = new[i]
  <2>1. i \in 1..Len(seq) /\ j \in 1..Len(seq)
    BY <1>1, <1>5
  <2>. QED
    BY <1>1, <1>2, <1>5, <2>1 DEF Serial
<1>. QED
  BY <1>3, <1>4, <1>5 DEF Serial, new

LEMMA ReleaseSerial ==
    ASSUME NEW seq \in Seq(Parties), NEW gone, NEW h, Serial(seq, h, gone), NEW n, n \notin Parties
    PROVE  Serial(seq, n, gone \cup {h})
<1>1. \A i \in 1..Len(seq) : seq[i] \in Parties
  OBVIOUS
<1>. QED
  BY <1>1 DEF Serial

LEMMA LeftSerial ==
    ASSUME NEW seq, NEW gone, NEW h, NEW p, Serial(seq, h, gone)
    PROVE  Serial(seq, h, gone \cup {p})
  BY DEF Serial

LEMMA EmptySerial == \A h, gone : Serial(<<>>, h, gone)
  BY DEF Serial

-----------------------------------------------------------------------------
LEMMA SerialStep ==
    ASSUME SerialInv, [Transcript!Next]_(Transcript!vars)
    PROVE  SerialInv'
<1>. USE Constants DEF SerialInv, TranscriptTypes, Parties
<1>1. ASSUME NEW r \in Roots, NEW p \in Parties, Transcript!Take(r, p) PROVE SerialInv'
  <2>1. TranscriptTypes' /\ HoldersStay'
    BY <1>1 DEF Transcript!Take, HoldersStay
  <2>2. Serial(log[r], p, Left)
    BY <1>1, TakeSerial DEF Transcript!Take
  <2>. QED
    BY <1>1, <2>1, <2>2 DEF Transcript!Take
<1>2. ASSUME NEW r \in Roots, Transcript!Write(r) PROVE SerialInv'
  <2>1. TranscriptTypes' /\ HoldersStay'
    BY <1>2 DEF Transcript!Write, HoldersStay
  <2>2. Serial(Append(log[r], Holder[r]), Holder[r], Left)
    BY <1>2, WriteSerial DEF Transcript!Write, HoldersStay
  <2>. QED
    BY <1>2, <2>1, <2>2 DEF Transcript!Write
<1>3. ASSUME NEW r \in Roots, Transcript!Erase(r) PROVE SerialInv'
  <2>1. TranscriptTypes' /\ HoldersStay'
    BY <1>3 DEF Transcript!Erase, HoldersStay
  <2>. QED
    BY <1>3, <2>1, EmptySerial DEF Transcript!Erase
<1>4. ASSUME NEW r \in Roots, Transcript!Release(r) PROVE SerialInv'
  <2>1. /\ Holder[r] \in Parties /\ Left' = Left \cup {Holder[r]}
        /\ \A q \in Roots : Holder'[q] = IF q = r THEN Nobody ELSE Holder[q]
        /\ Holder' \in [Roots -> Parties \cup {Nobody}]
    BY <1>4 DEF Transcript!Release
  <2>4. HoldersStay'
    <3>1. \A q \in Roots : Holder[q] = Holder[r] => q = r
      BY <2>1 DEF HoldersStay
    <3>2. \A q \in Roots : Holder'[q] \notin Left'
      BY <2>1, <3>1 DEF HoldersStay
    <3>3. \A p, q \in Roots : Holder'[q] \in Parties /\ Holder'[p] = Holder'[q] => p = q
      BY <2>1 DEF HoldersStay
    <3>. QED
      BY <3>2, <3>3 DEF HoldersStay
  <2>2. CASE UNCHANGED log
    <3>1. TranscriptTypes' /\ HoldersStay'
      BY <2>1, <2>2, <2>4
    <3>2. Serial(log[r], Nobody, Left \cup {Holder[r]})
      BY ReleaseSerial
    <3>3. \A q \in Roots : Serial(log[q], Holder[q], Left \cup {Holder[r]})
      BY LeftSerial
    <3>. QED
      BY <2>1, <2>2, <3>1, <3>2, <3>3
  <2>3. CASE log' = [log EXCEPT ![r] = <<>>]
    <3>4. log' \in [Roots -> Seq(Parties)]
      <4>0. <<>> \in Seq(Parties)
        OBVIOUS
      <4>1. PICK e \in Seq(Parties) : log' = [log EXCEPT ![r] = e]
        BY <2>3, <4>0
      <4>. QED
        BY <4>1
    <3>1. TranscriptTypes' /\ HoldersStay'
      BY <2>1, <2>4, <3>4
    <3>2. \A q \in Roots : Serial(log[q], Holder[q], Left \cup {Holder[r]})
      BY LeftSerial
    <3>. QED
      BY <2>1, <2>3, <3>1, <3>2, EmptySerial
  <2>. QED
    BY <1>4, <2>2, <2>3 DEF Transcript!Release
<1>5. ASSUME NEW p \in Parties, Transcript!Forgo(p) PROVE SerialInv'
  <2>1. TranscriptTypes' /\ HoldersStay'
    BY <1>5 DEF Transcript!Forgo, HoldersStay
  <2>. QED
    BY <1>5, <2>1, LeftSerial DEF Transcript!Forgo
<1>6. CASE UNCHANGED Transcript!vars
  BY <1>6 DEF Transcript!vars, HoldersStay
<1>. QED
  BY <1>1, <1>2, <1>3, <1>4, <1>5, <1>6 DEF Transcript!Next

LEMMA SerialTranscripts == Transcript!Spec => []Transcript!Contiguous
<1>1. Transcript!Init => SerialInv
  <2>. SUFFICES ASSUME Transcript!Init PROVE SerialInv
    OBVIOUS
  <2>1. /\ \A r \in Roots : Holder[r] = Nobody /\ log[r] = <<>>
        /\ Holder \in [Roots -> Parties \cup {Nobody}] /\ log \in [Roots -> Seq(Parties)] /\ Left = {}
    BY DEF Transcript!Init
  <2>. QED
    BY <2>1, EmptySerial, Constants DEF SerialInv, TranscriptTypes, HoldersStay
<1>2. SerialInv /\ [Transcript!Next]_(Transcript!vars) => SerialInv'
  BY SerialStep
<1>3. SerialInv => Transcript!Contiguous
  BY DEF SerialInv, Serial, Transcript!Contiguous
<1>. QED
  BY <1>1, <1>2, <1>3, PTL DEF Transcript!Spec

\* The records of one turn stand together in every transcript: no answer lands
\* between the question and the answer of another turn, for any messages, roots
\* and cancelling calls (app/root_locks.py).
THEOREM TranscriptsAreContiguous == Spec => []Transcript!Contiguous
  BY TurnsAreSerial, SerialTranscripts, PTL DEF ImplementsTranscript

=============================================================================
