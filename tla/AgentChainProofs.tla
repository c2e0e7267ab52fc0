--------------------------- MODULE AgentChainProofs ---------------------------
(***************************************************************************)
(* Proofs about the two sides of the provider chain.  ProviderFailover,    *)
(* for any number of calls, backends and resets: every probe has a holder  *)
(* that will return it, a reset forgets what older calls say however late, *)
(* and the chain keeps the promise of ProviderChain.  AgentTurn, which     *)
(* asks a chain with that promise, for any length of a turn and of its     *)
(* batches: the history it leaves is well formed, what it delegated is     *)
(* answered for and no delegation survives a stop.                         *)
(*                                                                         *)
(* The argument for the chain: a permit counts only while its generation   *)
(* is the current one, a write in the queue stores its own generation or   *)
(* nothing, and a call only ever moves forward from the backend it began   *)
(* at.                                                                     *)
(*                                                                         *)
(* The argument for the turn: while it lives it waits for its tool child,  *)
(* so a pending task is the work of that child or was announced by the     *)
(* handoff; after a stop either the turn is over or its event is set, and  *)
(* start_from_tool looks at both after it has written the task.  In the    *)
(* log only the iteration whose tools are running lacks results, those     *)
(* from the next call on.                                                  *)
(***************************************************************************)
EXTENDS AgentTurn, ProviderFailover, TLAPS, WellFoundedInduction, SequenceTheorems

-----------------------------------------------------------------------------
(* The chain.                                                               *)

\* A write opens a circuit in the generation of its call, or closes it.
OwnWrites == {w \in Writes : w.to \in {0, w.gen}}

Types ==
    /\ since \in [Keys -> 0..MaxResets + 1] /\ stored \in [Keys -> 0..MaxResets + 1]
    /\ ripe \in SUBSET Keys /\ probes \in SUBSET Keys /\ generation \in Generations
    /\ queue \in Seq(OwnWrites)
    /\ calls \in [Calls -> Call]

Forward == \A c \in Calls : calls[c].from <= calls[c].at

IInv == Types /\ Forward /\ ProbeHasHolder /\ ResetForgets

\* A call that asks backend j.
Asking(j, probed, from) ==
    [pc |-> "asking", at |-> j, keys |-> probed, gen |-> generation, owed |-> <<>>,
     then |-> "next", out |-> "none", from |-> from]

-----------------------------------------------------------------------------
LEMMA Constants ==
    /\ Chain \in Nat /\ 1 \in 1..Chain /\ Chain \in 1..Chain
    /\ MaxResets \in Nat /\ Generations \subseteq Nat /\ 1 \in Generations
  BY ChainAssumption, ResetsAssumption DEF Generations

LEMMA KeysOfBackend == \A i \in 1..Chain : KeySet(i) \in SUBSET Keys
  BY DEF Keys

LEMMA IdleType ==
    ASSUME NEW at \in 1..Chain, NEW out \in {"none", "ok", "error"}
    PROVE  Idle(out, at) \in Call
<1>. <<>> \in Seq(Keys)
  OBVIOUS
<1>. QED
  BY Constants DEF Idle, Call

LEMMA AskingType ==
    ASSUME generation \in Generations, NEW j \in 1..Chain, NEW probed \in SUBSET Keys,
           NEW from \in 1..Chain
    PROVE  Asking(j, probed, from) \in Call
<1>. <<>> \in Seq(Keys)
  OBVIOUS
<1>. QED
  BY DEF Asking, Call

LEMMA Least ==
    ASSUME NEW T \in SUBSET Nat, T # {}
    PROVE  \E m \in T : \A n \in T : m <= n
<1>. DEFINE R == OpToRel(<, Nat)
<1>1. \E m \in T : \A n \in T : ~ (<<n, m>> \in R)
  <2>. HIDE DEF R
  <2>1. IsWellFoundedOn(R, Nat)
    BY NatLessThanWellFounded DEF R
  <2>. QED
    BY <2>1, WFMin
<1>2. \A m, n \in Nat : n < m => <<n, m>> \in R
  BY DEF OpToRel
<1>. HIDE DEF R
<1>3. ASSUME NEW m \in T, NEW n \in T, ~ (<<n, m>> \in R) PROVE m <= n
  <2>1. ~ (n < m)
    BY <1>2, <1>3
  <2>. QED
    BY <2>1
<1>. QED
  BY <1>1, <1>3

\* The walk ends the call or asks a backend that is not behind.
LEMMA WalkEffect ==
    ASSUME Types, NEW c \in Calls, NEW from, NEW i \in 1..Chain, NEW busy \in SUBSET Keys,
           Walk(c, from, i, busy, since)
    PROVE  \/ probes' = busy /\ calls' = [calls EXCEPT ![c] = Idle("error", 1)]
           \/ \E j \in i..Chain, probed \in SUBSET Keys :
                 /\ probes' = busy \cup probed
                 /\ calls' = [calls EXCEPT ![c] = Asking(j, probed, from)]
<1>. DEFINE open == {j \in i..Chain : Permitted(j, busy, since)}
            first == CHOOSE m \in open : \A n \in open : m <= n
            probed == {k \in KeySet(first) : since[k] # 0}
<1>1. CASE open = {}
  BY <1>1 DEF Walk
<1>2. CASE open # {}
  <2>1. open \in SUBSET Nat
    BY Constants
  <2>2. \E m \in open : \A n \in open : m <= n
    BY <1>2, <2>1, Least
  <2>3. first \in open
    BY <2>2
  <2>4. first \in i..Chain /\ first \in 1..Chain
    BY <2>3, Constants
  <2>5. probed \in SUBSET Keys
    BY <2>4, KeysOfBackend
  <2>6. probes' = busy \cup probed /\ calls' = [calls EXCEPT ![c] = Asking(first, probed, from)]
    BY <1>2 DEF Walk, Asking
  <2>. HIDE DEF open, first, probed
  <2>. QED
    BY <2>4, <2>5, <2>6
<1>. QED
  BY <1>1, <1>2

LEMMA GoOnEffect ==
    ASSUME Types, NEW c \in Calls, NEW then, NEW busy \in SUBSET Keys, GoOn(c, then, busy, since)
    PROVE  \/ probes' = busy /\ calls' = [calls EXCEPT ![c] = Idle("error", 1)]
           \/ \E j \in calls[c].at..Chain, probed \in SUBSET Keys :
                 /\ probes' = busy \cup probed
                 /\ calls' = [calls EXCEPT ![c] = Asking(j, probed, calls[c].from)]
<1>0. calls[c].at \in 1..Chain
  BY DEF Types, Call
<1>1. CASE then = "stop" \/ calls[c].at = Chain
  BY <1>1 DEF GoOn
<1>2. CASE ~(then = "stop" \/ calls[c].at = Chain)
  <2>1. Walk(c, calls[c].from, calls[c].at + 1, busy, since) /\ calls[c].at + 1 \in 1..Chain
    BY <1>0, <1>2, Constants DEF GoOn
  <2>2. calls[c].at + 1..Chain \subseteq calls[c].at..Chain
    BY <1>0, Constants
  <2>. QED
    BY <2>1, <2>2, WalkEffect
<1>. QED
  BY <1>1, <1>2

LEMMA ReleasedType == Types => \A c \in Calls : Released(c) \in SUBSET Keys
  BY DEF Types, Released

LEMMA WriteEffect ==
    ASSUME Types, ResetForgets, NEW w \in OwnWrites, WriteRow(w)
    PROVE  /\ stored' \in [Keys -> 0..MaxResets + 1]
           /\ \A k \in Keys : stored'[k] \in {0, generation}
<1>1. w.to \in {0, w.gen} /\ w.to \in 0..MaxResets + 1 /\ w.key \in Keys
  BY Constants DEF OwnWrites, Writes, Generations
<1>. QED
  BY <1>1 DEF WriteRow, Types, ResetForgets

LEMMA QueueHead ==
    ASSUME Types, queue # <<>>
    PROVE  queue[1] \in OwnWrites /\ Tail(queue) \in Seq(OwnWrites)
<1>1. 1 \in 1..Len(queue) /\ Len(queue) \in Nat
  BY DEF Types
<1>. QED
  BY <1>1, HeadTailProperties DEF Types

LEMMA LeaveType ==
    ASSUME Types, NEW c \in Calls, LeaveQueue(c)
    PROVE  queue' \in Seq(OwnWrites)
<1>1. ASSUME NEW i \in DOMAIN queue PROVE RemoveAt(queue, i) \in Seq(OwnWrites)
  <2>1. /\ DOMAIN queue = 1..Len(queue) /\ Len(queue) \in Nat /\ i \in 1..Len(queue)
        /\ \A j \in 1..Len(queue) : queue[j] \in OwnWrites
    BY <1>1 DEF Types
  <2>2. SubSeq(queue, 1, i - 1) \in Seq(OwnWrites)
    BY <2>1, SubSeqProperties
  <2>3. SubSeq(queue, i + 1, Len(queue)) \in Seq(OwnWrites)
    BY <2>1, SubSeqProperties
  <2>. QED
    BY <2>2, <2>3, ConcatProperties DEF RemoveAt
<1>. QED
  BY <1>1 DEF LeaveQueue, Types

-----------------------------------------------------------------------------
\* The invariant, call by call.
Sound(call) == call \in Call /\ call.from <= call.at

LEMMA IdleSound == \A at \in 1..Chain, out \in {"none", "ok", "error"} : Sound(Idle(out, at))
<1>. SUFFICES ASSUME NEW at \in 1..Chain, NEW out \in {"none", "ok", "error"} PROVE Sound(Idle(out, at))
  OBVIOUS
<1>1. Idle(out, at) \in Call
  BY IdleType
<1>2. Idle(out, at).from <= Idle(out, at).at
  BY Constants DEF Idle
<1>. QED
  BY <1>1, <1>2 DEF Sound

LEMMA AskingSound ==
    ASSUME generation \in Generations, NEW from \in 1..Chain, NEW j \in 1..Chain, from <= j,
           NEW probed \in SUBSET Keys
    PROVE  Sound(Asking(j, probed, from))
  BY AskingType DEF Sound, Asking

LEMMA CallsSound == Types /\ Forward <=> Types /\ \A c \in Calls : Sound(calls[c])
  BY DEF Types, Forward, Sound

\* One call changes: it stays sound, and no other call does otherwise.
LEMMA OneCallMoves ==
    ASSUME Types, Forward, NEW c \in Calls, NEW call, Sound(call), calls' = [calls EXCEPT ![c] = call]
    PROVE  calls' \in [Calls -> Call] /\ Forward'
  BY DEF Types, Forward, Sound

\* A call that holds a probe no more cannot strand one, when the probes left
\* are not its own.
LEMMA ProbesStay ==
    ASSUME Types, ProbeHasHolder, generation' = generation, NEW c \in Calls, NEW call,
           calls' = [calls EXCEPT ![c] = call],
           \A k \in probes' : \/ k \in probes /\ ~(calls[c].pc = "asking" /\ calls[c].gen = generation /\ k \in calls[c].keys)
                              \/ call.pc = "asking" /\ call.gen = generation /\ k \in call.keys
    PROVE  ProbeHasHolder'
<1>. SUFFICES ASSUME NEW k \in probes'
              PROVE  \E d \in Calls : calls'[d].pc = "asking" /\ calls'[d].gen = generation /\ k \in calls'[d].keys
  BY DEF ProbeHasHolder
<1>0. calls'[c] = call /\ \A d \in Calls \ {c} : calls'[d] = calls[d]
  BY DEF Types
<1>1. CASE call.pc = "asking" /\ call.gen = generation /\ k \in call.keys
  BY <1>0, <1>1
<1>2. CASE /\ k \in probes
           /\ ~(calls[c].pc = "asking" /\ calls[c].gen = generation /\ k \in calls[c].keys)
  <2>1. PICK d \in Calls : calls[d].pc = "asking" /\ calls[d].gen = generation /\ k \in calls[d].keys
    BY <1>2 DEF ProbeHasHolder
  <2>2. d # c
    BY <1>2, <2>1
  <2>. QED
    BY <1>0, <2>1, <2>2
<1>. QED
  BY <1>1, <1>2

\* What a walk leaves: sound calls, held probes.
LEMMA WalkKeeps ==
    ASSUME Types, Forward, ProbeHasHolder, generation' = generation, NEW c \in Calls,
           NEW from \in 1..Chain, NEW i \in 1..Chain, from <= i, NEW busy \in SUBSET probes,
           \A k \in busy : ~(calls[c].pc = "asking" /\ calls[c].gen = generation /\ k \in calls[c].keys),
           \/ probes' = busy /\ calls' = [calls EXCEPT ![c] = Idle("error", 1)]
           \/ \E j \in i..Chain, probed \in SUBSET Keys :
                 /\ probes' = busy \cup probed
                 /\ calls' = [calls EXCEPT ![c] = Asking(j, probed, from)]
    PROVE  probes' \in SUBSET Keys /\ calls' \in [Calls -> Call] /\ Forward' /\ ProbeHasHolder'
<1>1. CASE probes' = busy /\ calls' = [calls EXCEPT ![c] = Idle("error", 1)]
  <2>1. Sound(Idle("error", 1))
    BY IdleSound, Constants
  <2>2. calls' \in [Calls -> Call] /\ Forward'
    BY <1>1, <2>1, OneCallMoves
  <2>3. ProbeHasHolder'
    BY <1>1, ProbesStay
  <2>. QED
    BY <1>1, <2>2, <2>3 DEF Types
<1>2. CASE \E j \in i..Chain, probed \in SUBSET Keys :
                 /\ probes' = busy \cup probed
                 /\ calls' = [calls EXCEPT ![c] = Asking(j, probed, from)]
  <2>1. PICK j \in i..Chain, probed \in SUBSET Keys :
                 /\ probes' = busy \cup probed
                 /\ calls' = [calls EXCEPT ![c] = Asking(j, probed, from)]
    BY <1>2
  <2>2. j \in 1..Chain /\ from <= j
    BY <2>1, Constants
  <2>3. Sound(Asking(j, probed, from))
    BY <2>2, AskingSound DEF Types
  <2>4. calls' \in [Calls -> Call] /\ Forward'
    BY <2>1, <2>3, OneCallMoves
  <2>5. /\ Asking(j, probed, from).pc = "asking" /\ Asking(j, probed, from).gen = generation
        /\ Asking(j, probed, from).keys = probed
    BY DEF Asking
  <2>6. ProbeHasHolder'
    BY <2>1, <2>5, ProbesStay
  <2>. QED
    BY <2>1, <2>4, <2>6 DEF Types
<1>. QED
  BY <1>1, <1>2

LEMMA GoOnKeeps ==
    ASSUME Types, Forward, ProbeHasHolder, generation' = generation, NEW c \in Calls, NEW then,
           NEW busy \in SUBSET probes,
           \A k \in busy : ~(calls[c].pc = "asking" /\ calls[c].gen = generation /\ k \in calls[c].keys),
           GoOn(c, then, busy, since)
    PROVE  probes' \in SUBSET Keys /\ calls' \in [Calls -> Call] /\ Forward' /\ ProbeHasHolder'
<1>1. calls[c].from \in 1..Chain /\ calls[c].at \in 1..Chain /\ calls[c].from <= calls[c].at
  BY DEF Types, Call, Forward
<1>2. busy \in SUBSET Keys
  BY DEF Types
<1>3. \/ probes' = busy /\ calls' = [calls EXCEPT ![c] = Idle("error", 1)]
      \/ \E j \in calls[c].at..Chain, probed \in SUBSET Keys :
            /\ probes' = busy \cup probed
            /\ calls' = [calls EXCEPT ![c] = Asking(j, probed, calls[c].from)]
  BY <1>2, GoOnEffect
<1>. QED
  BY <1>1, <1>2, <1>3, WalkKeeps

LEMMA ReleasedIsOthers ==
    ASSUME NEW c \in Calls
    PROVE  /\ Released(c) \in SUBSET probes
           /\ \A k \in Released(c) :
                 ~(calls[c].pc = "asking" /\ calls[c].gen = generation /\ k \in calls[c].keys)
  BY DEF Released

-----------------------------------------------------------------------------
LEMMA InitHolds == Init => IInv
<1>. SUFFICES ASSUME Init PROVE IInv
  OBVIOUS
<1>1. /\ since \in [Keys -> 0..MaxResets + 1] /\ stored \in [Keys -> 0..MaxResets + 1]
      /\ generation \in Generations
  BY Constants DEF Init
<1>2. queue \in Seq(OwnWrites)
  BY DEF Init
<1>3. \A c \in Calls : calls[c] = Idle("none", 1)
  BY DEF Init
<1>4. Sound(Idle("none", 1))
  BY IdleSound, Constants
<1>5. calls \in [Calls -> Call]
  BY <1>4 DEF Init, Sound
<1>6. Forward
  BY <1>3, <1>4 DEF Forward, Sound
<1>. QED
  BY <1>1, <1>2, <1>5, <1>6 DEF Init, IInv, Types, ProbeHasHolder, ResetForgets

LEMMA BeginStep ==
    ASSUME IInv, NEW c \in Calls, NEW begun \in 1..Chain, Begin(c, begun)
    PROVE  IInv'
<1>1. Types /\ Forward /\ ProbeHasHolder /\ ResetForgets /\ calls[c].pc = "done"
  BY DEF IInv, Begin
<1>2. Walk(c, begun, begun, probes, since)
  BY DEF Begin
<1>3. probes \in SUBSET Keys /\ begun <= begun
  BY <1>1, Constants DEF Types
<1>4. probes' \in SUBSET Keys /\ calls' \in [Calls -> Call] /\ Forward' /\ ProbeHasHolder'
  <2>1. \/ probes' = probes /\ calls' = [calls EXCEPT ![c] = Idle("error", 1)]
        \/ \E j \in begun..Chain, probed \in SUBSET Keys :
              /\ probes' = probes \cup probed
              /\ calls' = [calls EXCEPT ![c] = Asking(j, probed, begun)]
    BY <1>1, <1>2, <1>3, WalkEffect
  <2>. QED
    BY <1>1, <1>3, <2>1, WalkKeeps DEF Begin
<1>. QED
  BY <1>1, <1>4 DEF Begin, IInv, Types, ResetForgets

LEMMA FailUnrecordedStep ==
    ASSUME IInv, NEW c \in Calls, NEW scope, NEW then, FailUnrecorded(c, scope, then)
    PROVE  IInv'
<1>1. Types /\ Forward /\ ProbeHasHolder /\ ResetForgets
  BY DEF IInv
<1>2. probes' \in SUBSET Keys /\ calls' \in [Calls -> Call] /\ Forward' /\ ProbeHasHolder'
  <2>1. GoOn(c, then, Released(c), since) /\ generation' = generation
    BY DEF FailUnrecorded
  <2>. QED
    BY <1>1, <2>1, ReleasedIsOthers, GoOnKeeps
<1>. QED
  BY <1>1, <1>2 DEF FailUnrecorded, IInv, Types, ResetForgets

LEMMA FailRecordedStep ==
    ASSUME IInv, NEW c \in Calls, NEW scope \in Scopes, NEW then \in {"next", "stop"},
           FailRecorded(c, scope, then)
    PROVE  IInv'
<1>. DEFINE key == ScopeKey(calls[c].at, scope)
            row == [who |-> c, key |-> key, to |-> generation, gen |-> calls[c].gen]
            call == [calls[c] EXCEPT !.pc = "opening", !.then = then]
<1>1. /\ Types /\ Forward /\ ProbeHasHolder /\ ResetForgets
      /\ calls[c].pc = "asking" /\ calls[c].gen = generation
  BY DEF IInv, FailRecorded
<1>2. calls[c] \in Call /\ calls[c].at \in 1..Chain /\ generation \in Generations
  BY <1>1 DEF Types, Call
<1>3. key \in Keys
  BY <1>2 DEF ScopeKey, Keys, KeySet
<1>4. row \in OwnWrites
  BY <1>1, <1>2, <1>3 DEF OwnWrites, Writes
<1>5. Sound(call)
  <2>1. calls[c].from <= calls[c].at
    BY <1>1 DEF Forward
  <2>2. call \in Call /\ call.from = calls[c].from /\ call.at = calls[c].at
    BY <1>2 DEF Call
  <2>. QED
    BY <2>1, <2>2 DEF Sound
<1>6. calls' = [calls EXCEPT ![c] = call]
  BY <1>1 DEF FailRecorded, Types
<1>. HIDE DEF key, row, call
<1>7. calls' \in [Calls -> Call] /\ Forward'
  BY <1>1, <1>5, <1>6, OneCallMoves
<1>8. ProbeHasHolder'
  <2>1. probes' = probes \ calls[c].keys /\ generation' = generation
    BY DEF FailRecorded
  <2>. QED
    BY <1>1, <1>6, <2>1, ProbesStay
<1>9. since' \in [Keys -> 0..MaxResets + 1] /\ \A k \in Keys : since'[k] \in {0, generation}
  <2>1. since' = [since EXCEPT ![key] = generation]
    BY DEF FailRecorded, key
  <2>2. generation \in 0..MaxResets + 1
    BY <1>2, Constants DEF Generations
  <2>. QED
    BY <1>1, <1>3, <2>1, <2>2 DEF Types, ResetForgets
<1>10. queue' \in Seq(OwnWrites)
  <2>1. queue' = Append(queue, row)
    BY DEF FailRecorded, row, key
  <2>. QED
    BY <1>1, <1>4, <2>1 DEF Types
<1>11. ripe' \in SUBSET Keys /\ probes' \in SUBSET Keys /\ generation' = generation /\ stored' = stored
  BY <1>1 DEF FailRecorded, Types
<1>. QED
  BY <1>1, <1>2, <1>7, <1>8, <1>9, <1>10, <1>11 DEF IInv, Types, ResetForgets

\* The keys a success closes are the caller's own.
Closed(c) == IF calls[c].gen = generation THEN calls[c].keys ELSE {}

LEMMA InOrderType == \A i \in 1..Chain, keys \in SUBSET Keys : InOrder(i, keys) \in Seq(Keys)
<1>. SUFFICES ASSUME NEW i \in 1..Chain, NEW keys \in SUBSET Keys PROVE InOrder(i, keys) \in Seq(Keys)
  OBVIOUS
<1>1. AccountKey(i) \in Keys /\ ModelKey(i) \in Keys
  BY DEF Keys, KeySet
<1>. HIDE DEF AccountKey, ModelKey
<1>2. /\ <<AccountKey(i), ModelKey(i)>> \in Seq(Keys) /\ <<AccountKey(i)>> \in Seq(Keys)
      /\ <<ModelKey(i)>> \in Seq(Keys) /\ <<>> \in Seq(Keys)
  BY <1>1
<1>. QED
  BY <1>2 DEF InOrder

LEMMA AnswerEffect ==
    ASSUME IInv, NEW c \in Calls, Answer(c)
    PROVE  /\ generation' = generation /\ stored' = stored
           /\ probes' = probes \ Closed(c) /\ ripe' = ripe \ Closed(c)
           /\ since' = [k \in Keys |-> IF k \in Closed(c) THEN 0 ELSE since[k]]
           /\ queue' \in Seq(OwnWrites)
           /\ \E call : /\ calls' = [calls EXCEPT ![c] = call] /\ Sound(call)
                        /\ call = Idle("ok", calls[c].at) \/ (call.pc # "done" /\ call.from = calls[c].from)
<1>. DEFINE owed == InOrder(calls[c].at, Closed(c))
            row == [who |-> c, key |-> owed[1], to |-> 0, gen |-> calls[c].gen]
            call == [calls[c] EXCEPT !.pc = "closing", !.owed = Tail(owed)]
<1>1. Types /\ Forward /\ calls[c] \in Call /\ calls[c].at \in 1..Chain /\ calls[c].keys \in SUBSET Keys
      /\ calls[c].gen \in Generations /\ calls[c].from <= calls[c].at
  BY DEF IInv, Types, Call, Forward
<1>2. Closed(c) \in SUBSET Keys
  BY <1>1 DEF Closed
<1>3. owed \in Seq(Keys)
  BY <1>1, <1>2, InOrderType
<1>4. /\ generation' = generation /\ stored' = stored
      /\ probes' = probes \ Closed(c) /\ ripe' = ripe \ Closed(c)
      /\ since' = [k \in Keys |-> IF k \in Closed(c) THEN 0 ELSE since[k]]
  BY DEF Answer, Closed
<1>5. CASE owed = <<>>
  <2>1. calls' = [calls EXCEPT ![c] = Idle("ok", calls[c].at)] /\ queue' = queue
    BY <1>5 DEF Answer, Closed
  <2>2. Sound(Idle("ok", calls[c].at))
    BY <1>1, IdleSound
  <2>. QED
    BY <1>1, <1>4, <2>1, <2>2 DEF Types
<1>6. CASE owed # <<>>
  <2>1. /\ calls' = [calls EXCEPT ![c].pc = "closing", ![c].owed = Tail(owed)]
        /\ queue' = Append(queue, row)
    BY <1>6 DEF Answer, Closed
  <2>2. owed[1] \in Keys /\ Tail(owed) \in Seq(Keys)
    <3>. HIDE DEF owed
    <3>1. 1 \in 1..Len(owed)
      BY <1>3, <1>6
    <3>. QED
      BY <1>3, <1>6, <3>1, HeadTailProperties
  <2>3. row \in OwnWrites
    <3>1. 0 \in {0} \cup Generations
      OBVIOUS
    <3>. HIDE DEF owed
    <3>. QED
      BY <1>1, <2>2, <3>1 DEF OwnWrites, Writes
  <2>4. queue' \in Seq(OwnWrites)
    <3>. HIDE DEF owed, row
    <3>. QED
      BY <1>1, <2>1, <2>3 DEF Types
  <2>5. calls' = [calls EXCEPT ![c] = call]
    <3>. HIDE DEF owed
    <3>. QED
      BY <1>1, <2>1 DEF Types
  <2>6. call \in Call /\ call.from = calls[c].from /\ call.at = calls[c].at /\ call.pc = "closing"
    <3>. HIDE DEF owed
    <3>. QED
      BY <1>1, <2>2 DEF Call
  <2>7. Sound(call)
    <3>. HIDE DEF call
    <3>. QED
      BY <1>1, <2>6 DEF Sound
  <2>. HIDE DEF call
  <2>8. call.pc # "done"
    BY <2>6
  <2>. QED
    BY <1>4, <2>4, <2>5, <2>6, <2>7, <2>8
<1>. QED
  BY <1>5, <1>6

LEMMA AnswerStep ==
    ASSUME IInv, NEW c \in Calls, Answer(c)
    PROVE  IInv'
<1>1. Types /\ Forward /\ ProbeHasHolder /\ ResetForgets
  BY DEF IInv
<1>2. /\ generation' = generation /\ stored' = stored
      /\ probes' = probes \ Closed(c) /\ ripe' = ripe \ Closed(c)
      /\ since' = [k \in Keys |-> IF k \in Closed(c) THEN 0 ELSE since[k]]
      /\ queue' \in Seq(OwnWrites)
  BY AnswerEffect
<1>3. PICK call : calls' = [calls EXCEPT ![c] = call] /\ Sound(call)
  BY AnswerEffect
<1>4. calls' \in [Calls -> Call] /\ Forward'
  BY <1>1, <1>3, OneCallMoves
<1>5. ProbeHasHolder'
  BY <1>1, <1>2, <1>3, ProbesStay DEF Closed
<1>6. since' \in [Keys -> 0..MaxResets + 1] /\ \A k \in Keys : since'[k] \in {0, generation}
  BY <1>1, <1>2, Constants DEF Types, ResetForgets
<1>. QED
  BY <1>1, <1>2, <1>4, <1>5, <1>6 DEF IInv, Types, ResetForgets

\* A write leaves the queue, or gives way to the same call's next.
LEMMA PersistEffect ==
    ASSUME IInv, NEW c \in Calls, Persist(c)
    PROVE  /\ since' = since /\ ripe' = ripe /\ generation' = generation
           /\ queue' \in Seq(OwnWrites)
           /\ \/ /\ probes' = probes
                 /\ \E owed \in Seq(Keys) : calls' = [calls EXCEPT ![c] = [calls[c] EXCEPT !.owed = owed]]
              \/ /\ probes' = Released(c) /\ calls[c].pc # "done"
                 /\ calls' = [calls EXCEPT ![c] = Idle("ok", calls[c].at)]
              \/ GoOn(c, calls[c].then, Released(c), since) /\ calls[c].pc # "done"
<1>. DEFINE owed == calls[c].owed
            row == [queue[1] EXCEPT !.key = owed[1]]
<1>1. Types /\ queue # <<>> /\ calls[c] \in Call /\ owed \in Seq(Keys)
  BY DEF IInv, Types, Call, Persist
<1>2. queue[1] \in OwnWrites /\ Tail(queue) \in Seq(OwnWrites)
  BY <1>1, QueueHead
<1>3. since' = since /\ ripe' = ripe /\ generation' = generation
  BY DEF Persist
<1>4. CASE owed # <<>>
  <2>1. /\ queue' = Append(Tail(queue), row) /\ probes' = probes
        /\ calls' = [calls EXCEPT ![c].owed = Tail(owed)]
    BY <1>4 DEF Persist
  <2>2. owed[1] \in Keys /\ Tail(owed) \in Seq(Keys)
    <3>. HIDE DEF owed
    <3>1. 1 \in 1..Len(owed)
      BY <1>1, <1>4
    <3>. QED
      BY <1>1, <1>4, <3>1, HeadTailProperties
  <2>3. row \in OwnWrites
    <3>. HIDE DEF owed
    <3>. QED
      BY <1>2, <2>2 DEF OwnWrites, Writes
  <2>4. queue' \in Seq(OwnWrites)
    <3>. HIDE DEF row
    <3>. QED
      BY <1>2, <2>1, <2>3
  <2>5. calls' = [calls EXCEPT ![c] = [calls[c] EXCEPT !.owed = Tail(owed)]]
    BY <1>1, <2>1 DEF Types
  <2>. QED
    BY <1>3, <2>1, <2>2, <2>4, <2>5
<1>5. CASE owed = <<>> /\ calls[c].pc = "closing"
  <2>1. /\ queue' = Tail(queue) /\ probes' = Released(c)
        /\ calls' = [calls EXCEPT ![c] = Idle("ok", calls[c].at)]
    BY <1>5 DEF Persist
  <2>. QED
    BY <1>2, <1>3, <1>5, <2>1
<1>6. CASE owed = <<>> /\ calls[c].pc = "opening"
  <2>1. queue' = Tail(queue) /\ GoOn(c, calls[c].then, Released(c), since)
    BY <1>6 DEF Persist
  <2>. QED
    BY <1>2, <1>3, <1>6, <2>1
<1>7. owed # <<>> \/ calls[c].pc \in {"closing", "opening"}
  BY DEF Persist
<1>. QED
  BY <1>4, <1>5, <1>6, <1>7

LEMMA PersistStep ==
    ASSUME IInv, NEW c \in Calls, Persist(c)
    PROVE  IInv'
<1>1. /\ Types /\ Forward /\ ProbeHasHolder /\ ResetForgets
      /\ calls[c] \in Call /\ calls[c].at \in 1..Chain /\ calls[c].from <= calls[c].at
  BY DEF IInv, Types, Call, Forward
<1>2. since' = since /\ ripe' = ripe /\ generation' = generation /\ queue' \in Seq(OwnWrites)
  BY PersistEffect
<1>3. calls[c].pc \in {"closing", "opening"} \/ calls[c].owed # <<>>
  BY DEF Persist
<1>4. stored' \in [Keys -> 0..MaxResets + 1] /\ \A k \in Keys : stored'[k] \in {0, generation}
  BY <1>1, QueueHead, WriteEffect DEF Persist
<1>5. probes' \in SUBSET Keys /\ calls' \in [Calls -> Call] /\ Forward' /\ ProbeHasHolder'
  <2>1. CASE /\ probes' = probes
             /\ \E owed \in Seq(Keys) : calls' = [calls EXCEPT ![c] = [calls[c] EXCEPT !.owed = owed]]
    <3>1. PICK owed \in Seq(Keys) : calls' = [calls EXCEPT ![c] = [calls[c] EXCEPT !.owed = owed]]
      BY <2>1
    <3>. DEFINE call == [calls[c] EXCEPT !.owed = owed]
    <3>2. /\ call \in Call /\ call.from = calls[c].from /\ call.at = calls[c].at
          /\ call.pc = calls[c].pc /\ call.gen = calls[c].gen /\ call.keys = calls[c].keys
      BY <1>1 DEF Call
    <3>3. calls' = [calls EXCEPT ![c] = call]
      BY <3>1
    <3>. HIDE DEF call
    <3>4. Sound(call)
      BY <1>1, <3>2 DEF Sound
    <3>5. calls' \in [Calls -> Call] /\ Forward'
      BY <1>1, <3>3, <3>4, OneCallMoves
    <3>6. ProbeHasHolder'
      BY <1>1, <1>2, <2>1, <3>2, <3>3, ProbesStay
    <3>. QED
      BY <1>1, <2>1, <3>5, <3>6 DEF Types
  <2>2. CASE /\ probes' = Released(c)
             /\ calls' = [calls EXCEPT ![c] = Idle("ok", calls[c].at)]
    <3>1. Sound(Idle("ok", calls[c].at))
      BY <1>1, IdleSound
    <3>2. calls' \in [Calls -> Call] /\ Forward'
      BY <1>1, <2>2, <3>1, OneCallMoves
    <3>3. ProbeHasHolder'
      BY <1>1, <1>2, <2>2, ReleasedIsOthers, ProbesStay
    <3>. QED
      BY <1>1, <2>2, <3>2, <3>3, ReleasedType
  <2>3. CASE GoOn(c, calls[c].then, Released(c), since)
    BY <1>1, <1>2, <2>3, ReleasedIsOthers, GoOnKeeps
  <2>. QED
    BY <2>1, <2>2, <2>3, PersistEffect
<1>. QED
  BY <1>1, <1>2, <1>4, <1>5 DEF IInv, Types, ResetForgets

LEMMA AbortStep ==
    ASSUME IInv, NEW c \in Calls, Abort(c)
    PROVE  IInv'
<1>1. Types /\ Forward /\ ProbeHasHolder /\ ResetForgets
  BY DEF IInv
<1>2. /\ probes' = Released(c) /\ calls' = [calls EXCEPT ![c] = Idle("none", 1)]
      /\ since' = since /\ ripe' = ripe /\ generation' = generation
  BY DEF Abort
<1>3. calls' \in [Calls -> Call] /\ Forward'
  BY <1>1, <1>2, IdleSound, Constants, OneCallMoves
<1>4. ProbeHasHolder'
  BY <1>1, <1>2, ReleasedIsOthers, ProbesStay
<1>5. queue' \in Seq(OwnWrites)
  BY <1>1, LeaveType DEF Abort
<1>6. stored' \in [Keys -> 0..MaxResets + 1] /\ \A k \in Keys : stored'[k] \in {0, generation}
  <2>1. CASE queue # <<>> /\ queue[1].who = c
    <3>1. queue[1] \in OwnWrites /\ WriteRow(queue[1])
      BY <1>1, <2>1, QueueHead DEF Abort
    <3>. QED
      BY <1>1, <3>1, WriteEffect
  <2>2. CASE ~(queue # <<>> /\ queue[1].who = c)
    BY <1>1, <2>2 DEF Abort, Types, ResetForgets
  <2>. QED
    BY <2>1, <2>2
<1>7. probes' \in SUBSET Keys
  BY <1>1, <1>2, ReleasedType
<1>. QED
  BY <1>1, <1>2, <1>3, <1>4, <1>5, <1>6, <1>7 DEF IInv, Types, ResetForgets

LEMMA ResetStep == IInv /\ Reset => IInv'
<1>. SUFFICES ASSUME IInv, Reset PROVE IInv'
  OBVIOUS
<1>1. generation' \in Generations
  BY Constants DEF IInv, Types, Reset, Generations
<1>2. /\ since' \in [Keys -> 0..MaxResets + 1] /\ stored' \in [Keys -> 0..MaxResets + 1]
      /\ \A k \in Keys : since'[k] = 0 /\ stored'[k] = 0
  BY Constants DEF Reset
<1>3. ripe' = {} /\ probes' = {} /\ queue' = queue /\ calls' = calls
  BY DEF Reset
<1>. QED
  BY <1>1, <1>2, <1>3 DEF IInv, Types, Forward, ProbeHasHolder, ResetForgets

LEMMA RestartStep == IInv /\ Restart => IInv'
<1>. SUFFICES ASSUME IInv, Restart PROVE IInv'
  OBVIOUS
<1>1. calls' = [c \in Calls |-> Idle("none", 1)] /\ Sound(Idle("none", 1))
  BY IdleSound, Constants DEF Restart
<1>2. calls' \in [Calls -> Call] /\ Forward'
  BY <1>1 DEF Sound, Forward
<1>3. queue' \in Seq(OwnWrites) /\ ripe' = {} /\ probes' = {}
  BY DEF Restart
<1>4. since' = stored /\ stored' = stored /\ generation' = generation
  BY DEF Restart
<1>. QED
  BY <1>2, <1>3, <1>4 DEF IInv, Types, ProbeHasHolder, ResetForgets

LEMMA RipenStep ==
    ASSUME IInv, NEW k \in Keys, Ripen(k)
    PROVE  IInv'
  BY DEF Ripen, IInv, Types, Forward, ProbeHasHolder, ResetForgets

LEMMA StepHolds == IInv /\ [Next]_vars => IInv'
<1>. SUFFICES ASSUME IInv, [Next]_vars PROVE IInv'
  OBVIOUS
<1>1. ASSUME NEW c \in Calls, Fail(c) PROVE IInv'
  BY <1>1, FailUnrecordedStep, FailRecordedStep DEF Fail
<1>2. CASE UNCHANGED vars
  BY <1>2 DEF vars, breaker, IInv, Types, Forward, ProbeHasHolder, ResetForgets
<1>. QED
  BY <1>1, <1>2, BeginStep, AnswerStep, PersistStep, AbortStep, ResetStep, RestartStep, RipenStep
     DEF Next

THEOREM AlwaysSound == Spec => []IInv
  BY InitHolds, StepHolds, PTL DEF Spec

\* Every value of the breaker and of its calls is one the code can hold.
THEOREM FailoverTypes == Spec => []TypeOK
<1>1. IInv => TypeOK
  <2>. SUFFICES ASSUME IInv PROVE TypeOK
    OBVIOUS
  <2>1. queue \in Seq(Writes)
    <3>1. queue \in Seq(OwnWrites) /\ OwnWrites \subseteq Writes
      BY DEF IInv, Types, OwnWrites
    <3>. QED
      BY <3>1
  <2>. QED
    BY <2>1 DEF IInv, Types, TypeOK
<1>. QED
  BY <1>1, AlwaysSound, PTL

\* However calls, cancellations, resets and restarts interleave, a half-open
\* circuit has a call that is asking its backend (circuit_breaker.py: allow, release).
THEOREM ProbesAreHeld == Spec => []ProbeHasHolder
<1>1. IInv => ProbeHasHolder
  BY DEF IInv
<1>. QED
  BY <1>1, AlwaysSound, PTL

\* However late an older call's failure is recorded or written, an begun reset
\* stands (circuit_breaker.py: record_failure, _upsert_safely, reset_all).
THEOREM ResetsStand == Spec => []ResetForgets
<1>1. IInv => ResetForgets
  BY DEF IInv
<1>. QED
  BY <1>1, AlwaysSound, PTL

-----------------------------------------------------------------------------
\* The refinement: only the start and the end of a call are visible.
Bar == [c \in Calls |-> Promise(calls[c])]
Dropped == [state |-> "idle", at |-> 1]
Failed == [state |-> "failed", at |-> 1]

LEMMA PromiseOf ==
    /\ Promise(Idle("none", 1)) = Dropped
    /\ Promise(Idle("error", 1)) = Failed
    /\ \A at \in 1..Chain : Promise(Idle("ok", at)) = [state |-> "served", at |-> at]
    /\ \A call : call.pc # "done" => Promise(call) = [state |-> "open", at |-> call.from]
    /\ \A call : call.pc = "done" => Promise(call).state # "open"
<1>1. Promise(Idle("none", 1)) = Dropped /\ Promise(Idle("error", 1)) = Failed
  BY DEF Promise, Idle, Dropped, Failed
<1>2. \A at \in 1..Chain : Promise(Idle("ok", at)) = [state |-> "served", at |-> at]
  BY DEF Promise, Idle
<1>3. ASSUME NEW call, call.pc # "done" PROVE Promise(call) = [state |-> "open", at |-> call.from]
  BY <1>3 DEF Promise
<1>4. ASSUME NEW call, call.pc = "done" PROVE Promise(call).state # "open"
  <2>1. CASE call.out = "ok"
    BY <1>4, <2>1 DEF Promise
  <2>2. CASE call.out = "error"
    BY <1>4, <2>2 DEF Promise
  <2>3. CASE call.out \notin {"ok", "error"}
    BY <1>4, <2>3 DEF Promise
  <2>. QED
    BY <2>1, <2>2, <2>3
<1>. QED
  BY <1>1, <1>2, <1>3, <1>4

\* One call's step shows in its own promise alone.
LEMMA BarMoves ==
    ASSUME Types, NEW c \in Calls, NEW call, calls' = [calls EXCEPT ![c] = call]
    PROVE  Bar' = [Bar EXCEPT ![c] = Promise(call)]
<1>1. calls'[c] = call /\ \A d \in Calls \ {c} : calls'[d] = calls[d]
  BY DEF Types
<1>2. Bar' = [d \in Calls |-> Promise(calls'[d])]
  BY DEF Bar, Promise
<1>3. Bar'[c] = Promise(call) /\ \A d \in Calls \ {c} : Bar'[d] = Bar[d]
  BY <1>1, <1>2 DEF Bar
<1>. QED
  BY <1>2, <1>3 DEF Bar

LEMMA AbortRefines ==
    ASSUME IInv, NEW c \in Calls, Abort(c)
    PROVE  Interface!Drop({c})
<1>1. Types /\ calls' = [calls EXCEPT ![c] = Idle("none", 1)]
  BY DEF IInv, Abort
<1>2. Bar' = [Bar EXCEPT ![c] = Dropped]
  BY <1>1, BarMoves, PromiseOf
<1>3. Bar' = [d \in Calls |-> IF d \in {c} THEN Dropped ELSE Bar[d]]
  BY <1>2 DEF Bar
<1>. QED
  BY <1>3 DEF Interface!Drop, Bar, Dropped

LEMMA RestartRefines == Restart => Interface!Drop(Calls)
<1>. SUFFICES ASSUME Restart PROVE Interface!Drop(Calls)
  OBVIOUS
<1>1. calls' = [c \in Calls |-> Idle("none", 1)]
  BY DEF Restart
<1>2. Bar' = [d \in Calls |-> Dropped]
  BY <1>1, PromiseOf DEF Bar
<1>. QED
  BY <1>2 DEF Interface!Drop, Bar, Dropped

\* What follows a failed attempt: the call fails, or goes on unseen.
LEMMA GoOnRefines ==
    ASSUME Types, NEW c \in Calls, calls[c].pc # "done", NEW then, NEW busy \in SUBSET Keys,
           GoOn(c, then, busy, since)
    PROVE  Interface!Refuse(c) \/ Bar' = Bar
<1>0. Bar[c] = [state |-> "open", at |-> calls[c].from]
  BY PromiseOf DEF Bar
<1>1. CASE calls' = [calls EXCEPT ![c] = Idle("error", 1)]
  <2>1. Bar' = [Bar EXCEPT ![c] = Failed]
    BY <1>1, BarMoves, PromiseOf
  <2>. QED
    BY <1>0, <2>1 DEF Interface!Refuse, Bar, Failed
<1>2. ASSUME NEW j, NEW probed, calls' = [calls EXCEPT ![c] = Asking(j, probed, calls[c].from)]
      PROVE  Bar' = Bar
  <2>1. Promise(Asking(j, probed, calls[c].from)) = [state |-> "open", at |-> calls[c].from]
    BY PromiseOf DEF Asking
  <2>2. Bar' = [Bar EXCEPT ![c] = Bar[c]]
    BY <1>0, <1>2, <2>1, BarMoves
  <2>. QED
    BY <2>2 DEF Bar
<1>. QED
  BY <1>1, <1>2, GoOnEffect

LEMMA BeginRefines ==
    ASSUME IInv, NEW c \in Calls, NEW begun \in 1..Chain, Begin(c, begun)
    PROVE  Interface!Ask(c, begun) \/ Interface!AskInVain(c)
<1>1. Types /\ calls[c].pc = "done" /\ Walk(c, begun, begun, probes, since) /\ probes \in SUBSET Keys
  BY DEF IInv, Begin, Types
<1>0. Bar[c].state # "open"
  BY <1>1, PromiseOf DEF Bar
<1>2. CASE calls' = [calls EXCEPT ![c] = Idle("error", 1)]
  <2>1. Bar' = [Bar EXCEPT ![c] = Failed]
    BY <1>1, <1>2, BarMoves, PromiseOf
  <2>. QED
    BY <1>0, <2>1 DEF Interface!AskInVain, Bar, Failed
<1>3. ASSUME NEW j, NEW probed, calls' = [calls EXCEPT ![c] = Asking(j, probed, begun)]
      PROVE  Interface!Ask(c, begun)
  <2>1. Promise(Asking(j, probed, begun)) = [state |-> "open", at |-> begun]
    BY PromiseOf DEF Asking
  <2>2. Bar' = [Bar EXCEPT ![c] = [state |-> "open", at |-> begun]]
    BY <1>1, <1>3, <2>1, BarMoves
  <2>. QED
    BY <1>0, <2>2 DEF Interface!Ask, Bar
<1>. QED
  BY <1>1, <1>2, <1>3, WalkEffect

\* A call is served by the backend it is at, which is not behind its first.
LEMMA ServeRefines ==
    ASSUME IInv, NEW c \in Calls, calls[c].pc # "done",
           calls' = [calls EXCEPT ![c] = Idle("ok", calls[c].at)]
    PROVE  Interface!Serve(c)
<1>1. Types /\ calls[c].at \in 1..Chain /\ calls[c].from \in 1..Chain /\ calls[c].from <= calls[c].at
  BY DEF IInv, Types, Call, Forward
<1>2. Bar[c] = [state |-> "open", at |-> calls[c].from]
  BY PromiseOf DEF Bar
<1>3. Bar' = [Bar EXCEPT ![c] = [state |-> "served", at |-> calls[c].at]]
  BY <1>1, BarMoves, PromiseOf
<1>4. calls[c].at \in Bar[c].at..Chain
  BY <1>1, <1>2, Constants
<1>5. /\ Bar[c].state = "open"
      /\ \E j \in Bar[c].at..Chain : Bar' = [Bar EXCEPT ![c] = [state |-> "served", at |-> j]]
  <2>1. calls[c].at \in Bar[c].at..Chain
    BY <1>4
  <2>2. Bar' = [Bar EXCEPT ![c] = [state |-> "served", at |-> calls[c].at]]
    BY <1>3
  <2>3. Bar[c].state = "open"
    BY <1>2
  <2>. HIDE DEF Bar
  <2>. QED
    BY <2>1, <2>2, <2>3
<1>. QED
  BY <1>5 DEF Interface!Serve, Bar

\* A step that leaves a call in flight where it began is not seen.
LEMMA Unseen ==
    ASSUME Types, NEW c \in Calls, calls[c].pc # "done", NEW call, call.pc # "done",
           call.from = calls[c].from, calls' = [calls EXCEPT ![c] = call]
    PROVE  Bar' = Bar
<1>1. Promise(call) = Promise(calls[c])
  BY PromiseOf
<1>. QED
  BY <1>1, BarMoves DEF Bar

LEMMA AnswerRefines ==
    ASSUME IInv, NEW c \in Calls, Answer(c)
    PROVE  Interface!Serve(c) \/ Bar' = Bar
<1>1. Types /\ calls[c].pc # "done"
  BY DEF IInv, Answer
<1>2. PICK call : /\ calls' = [calls EXCEPT ![c] = call]
                  /\ call = Idle("ok", calls[c].at) \/ (call.pc # "done" /\ call.from = calls[c].from)
  BY AnswerEffect
<1>. QED
  BY <1>1, <1>2, ServeRefines, Unseen

LEMMA FailRefines ==
    ASSUME IInv, NEW c \in Calls, Fail(c)
    PROVE  Interface!Refuse(c) \/ Bar' = Bar
<1>1. Types /\ calls[c] \in Call /\ calls[c].pc # "done"
  BY DEF IInv, Types, Fail, FailUnrecorded, FailRecorded
<1>2. ASSUME NEW scope, NEW then, FailUnrecorded(c, scope, then)
      PROVE  Interface!Refuse(c) \/ Bar' = Bar
  BY <1>1, <1>2, ReleasedType, GoOnRefines DEF FailUnrecorded
<1>3. ASSUME NEW scope, NEW then, FailRecorded(c, scope, then)
      PROVE  Bar' = Bar
  <2>. DEFINE call == [calls[c] EXCEPT !.pc = "opening", !.then = then]
  <2>1. call.pc # "done" /\ call.from = calls[c].from
    BY <1>1 DEF Call
  <2>2. calls' = [calls EXCEPT ![c] = call]
    BY <1>1, <1>3 DEF FailRecorded, Types
  <2>. HIDE DEF call
  <2>. QED
    BY <1>1, <2>1, <2>2, Unseen
<1>. QED
  BY <1>2, <1>3 DEF Fail

LEMMA PersistRefines ==
    ASSUME IInv, NEW c \in Calls, Persist(c)
    PROVE  Interface!Serve(c) \/ Interface!Refuse(c) \/ Bar' = Bar
<1>1. Types /\ calls[c] \in Call
  BY DEF IInv, Types
<1>2. ASSUME NEW owed, calls' = [calls EXCEPT ![c] = [calls[c] EXCEPT !.owed = owed]]
      PROVE  Bar' = Bar
  <2>. DEFINE call == [calls[c] EXCEPT !.owed = owed]
  <2>1. call.pc = calls[c].pc /\ call.from = calls[c].from /\ call.out = calls[c].out /\ call.at = calls[c].at
    BY <1>1 DEF Call
  <2>2. Promise(call) = Promise(calls[c])
    <3>. HIDE DEF call
    <3>. QED
      BY <2>1 DEF Promise
  <2>3. Bar' = [Bar EXCEPT ![c] = Promise(call)]
    BY <1>1, <1>2, BarMoves
  <2>. HIDE DEF call
  <2>. QED
    BY <2>2, <2>3 DEF Bar
<1>3. CASE calls[c].pc # "done" /\ calls' = [calls EXCEPT ![c] = Idle("ok", calls[c].at)]
  BY <1>3, ServeRefines
<1>4. CASE calls[c].pc # "done" /\ GoOn(c, calls[c].then, Released(c), since)
  BY <1>1, <1>4, ReleasedType, GoOnRefines
<1>. QED
  BY <1>2, <1>3, <1>4, PersistEffect

LEMMA InitRefines == Init => Interface!ChainInit
<1>. SUFFICES ASSUME Init PROVE Interface!ChainInit
  OBVIOUS
<1>1. \A c \in Calls : Promise(calls[c]) = [state |-> "idle", at |-> 1]
  BY PromiseOf DEF Init, Dropped
<1>. QED
  BY <1>1 DEF Interface!ChainInit

LEMMA StepRefines == IInv /\ [Next]_vars => Interface!ChainNext \/ Bar' = Bar
<1>. SUFFICES ASSUME IInv, [Next]_vars PROVE Interface!ChainNext \/ Bar' = Bar
  OBVIOUS
<1>1. ASSUME NEW c \in Calls, NEW begun \in 1..Chain, Begin(c, begun) PROVE Interface!ChainNext
  BY <1>1, BeginRefines DEF Interface!ChainNext
<1>2. ASSUME NEW c \in Calls, Answer(c) \/ Fail(c) \/ Persist(c)
      PROVE  Interface!ChainNext \/ Bar' = Bar
  BY <1>2, AnswerRefines, FailRefines, PersistRefines DEF Interface!ChainNext
<1>3. ASSUME NEW c \in Calls, Abort(c) PROVE Interface!ChainNext
  <2>1. Interface!Drop({c}) /\ {c} \in SUBSET Calls
    BY <1>3, AbortRefines
  <2>. QED
    BY <2>1 DEF Interface!ChainNext
<1>4. CASE Restart
  <2>1. Interface!Drop(Calls) /\ Calls \in SUBSET Calls
    BY <1>4, RestartRefines
  <2>. QED
    BY <2>1 DEF Interface!ChainNext
<1>5. calls' = calls => Bar' = Bar
  BY DEF Bar, Promise
<1>6. CASE Reset \/ (\E k \in Keys : Ripen(k)) \/ UNCHANGED vars
  BY <1>5, <1>6 DEF Reset, Ripen, vars
<1>. QED
  BY <1>1, <1>2, <1>3, <1>4, <1>6 DEF Next

\* A caller sees one answer, from the backend it probed or a later one, or one
\* refusal (failover.py: run_turn), whatever the circuits do underneath.
THEOREM FailoverImplementsChain == Spec => ImplementsChain
<1>1. IInv /\ [Next]_vars => [Interface!ChainNext]_[c \in Calls |-> Promise(calls[c])]
  BY StepRefines DEF Bar
<1>. QED
  BY <1>1, InitRefines, AlwaysSound, PTL DEF Spec, ImplementsChain, Interface!ChainSpec

-----------------------------------------------------------------------------
(* The turn.                                                                *)

Units == UNION {[calls : {b}, results : [DOMAIN b -> {0, 1}]] : b \in Batches}
Paired(u) == \A j \in DOMAIN u.calls : u.results[j] = 1
Running == pc \in {"tools", "child"}

\* The log and the history.
Logs ==
    /\ log \in Seq(Units) /\ next \in 1..MaxBatch + 1
    /\ Running => log # <<>>
    /\ Running => \A j \in DOMAIN Current.calls : Current.results[j] = IF j < next THEN 1 ELSE 0
    /\ pc = "child" => next \in DOMAIN Current.calls
    /\ ~Over => \A i \in 1..Len(log) : i < Len(log) \/ ~Running => Paired(log[i])
    /\ \A i \in DOMAIN history : Paired(history[i])

\* What passes between the turn, its tool child and a stop.
Control ==
    /\ pc \in {"chat", "asking", "retrying", "compacting", "recorded", "tools", "child",
               "settle", "over"}
    /\ handoff \in BOOLEAN /\ stopEvent \in BOOLEAN
    /\ child \in [phase : {"none", "running", "staging", "created", "returned"}, kind : Kinds]
    /\ task \in {"none", "pending", "abandoned", "cancelled"}
    /\ stop \in {"none", "signalled", "done"}

Delegations ==
    /\ ~ChildGone => pc \in {"child", "over"}
    /\ child.phase \in {"staging", "created"} => child.kind = "start"
    /\ handoff => pc \in {"tools", "child", "over"} /\ (ChildGone \/ child.kind = "move")
    /\ Over /\ handoff => result = "handoff" \/ stop # "none"
    /\ task = "pending" => child.phase = "created" \/ handoff
    /\ stop = "done" /\ task = "pending" => child.phase = "created"
    /\ stop # "none" => stopEvent \/ Over
    /\ stopEvent => stop # "none"

TurnInv == Logs /\ Control /\ Delegations

-----------------------------------------------------------------------------
LEMMA UnitFacts ==
    /\ \A u \in Units : /\ u.calls \in Batches /\ u.results \in [DOMAIN u.calls -> {0, 1}]
                        /\ \A j \in DOMAIN u.calls : u.calls[j] \in Kinds /\ j \in 1..MaxBatch
                        /\ \E n \in 1..MaxBatch : DOMAIN u.calls = 1..n
    /\ \A b \in Batches : Unit(b) \in Units
<1>1. ASSUME NEW b \in Batches
      PROVE  /\ \E n \in 1..MaxBatch : DOMAIN b = 1..n
             /\ \A j \in DOMAIN b : b[j] \in Kinds /\ j \in 1..MaxBatch
  <2>1. PICK n \in 1..MaxBatch : b \in [1..n -> Kinds]
    BY DEF Batches
  <2>. QED
    BY <2>1, LoopAssumption
<1>2. ASSUME NEW u \in Units
      PROVE  u.calls \in Batches /\ u.results \in [DOMAIN u.calls -> {0, 1}]
  <2>1. PICK b \in Batches : u \in [calls : {b}, results : [DOMAIN b -> {0, 1}]]
    BY DEF Units
  <2>. QED
    BY <2>1
<1>3. ASSUME NEW b \in Batches PROVE Unit(b) \in Units
  <2>1. Unit(b) \in [calls : {b}, results : [DOMAIN b -> {0, 1}]]
    BY DEF Unit
  <2>. QED
    BY <2>1 DEF Units
<1>. QED
  BY <1>1, <1>2, <1>3

LEMMA ResultsType ==
    ASSUME NEW u \in Units, NEW r \in [DOMAIN u.calls -> {0, 1}]
    PROVE  /\ [u EXCEPT !.results = r] \in Units
           /\ [u EXCEPT !.results = r].calls = u.calls /\ [u EXCEPT !.results = r].results = r
<1>1. PICK b \in Batches : u \in [calls : {b}, results : [DOMAIN b -> {0, 1}]]
  BY DEF Units
<1>2. [u EXCEPT !.results = r] \in [calls : {b}, results : [DOMAIN b -> {0, 1}]]
  BY <1>1
<1>. QED
  BY <1>1, <1>2 DEF Units

LEMMA CurrentType ==
    ASSUME Logs, Running
    PROVE  Len(log) \in Nat /\ Len(log) \in 1..Len(log) /\ Current \in Units
  BY DEF Logs, Current, Running

\* A call's result is the only thing that changes, in the last unit.
LEMMA AnsweredEffect ==
    ASSUME Logs, Running, next \in DOMAIN Current.calls
    PROVE  /\ Answered \in Seq(Units) /\ Len(Answered) = Len(log)
           /\ \A i \in 1..Len(log) : i < Len(log) => Answered[i] = log[i]
           /\ Answered[Len(log)].calls = Current.calls
           /\ \A j \in DOMAIN Current.calls :
                 Answered[Len(log)].results[j] = IF j < next + 1 THEN 1 ELSE 0
<1>. DEFINE last == Len(log)
            r == [Current.results EXCEPT ![next] = @ + 1]
            u == [Current EXCEPT !.results = r]
<1>1. last \in Nat /\ last \in 1..last /\ Current \in Units /\ log \in Seq(Units) /\ Current = log[last]
  BY CurrentType DEF Logs, Current
<1>2. /\ Current.results \in [DOMAIN Current.calls -> {0, 1}]
      /\ DOMAIN Current.calls \subseteq Int /\ next \in Int
      /\ \A j \in DOMAIN Current.calls : Current.results[j] = IF j < next THEN 1 ELSE 0
  BY <1>1, UnitFacts DEF Logs
<1>3. /\ \A j \in DOMAIN Current.calls : r[j] = IF j < next + 1 THEN 1 ELSE 0
      /\ r \in [DOMAIN Current.calls -> {0, 1}]
  <2>1. \A j \in DOMAIN Current.calls : r[j] = IF j = next THEN Current.results[j] + 1 ELSE Current.results[j]
    BY <1>2
  <2>2. \A j \in DOMAIN Current.calls : r[j] = IF j < next + 1 THEN 1 ELSE 0
    BY <1>2, <2>1
  <2>3. r = [j \in DOMAIN Current.calls |-> r[j]]
    BY <1>2
  <2>. HIDE DEF r
  <2>. QED
    BY <2>2, <2>3
<1>4. u \in Units /\ u.calls = Current.calls /\ u.results = r
  <2>. HIDE DEF r
  <2>. QED
    BY <1>1, <1>3, ResultsType
<1>5. Answered = [log EXCEPT ![last] = u]
  BY <1>1 DEF Answered
<1>. HIDE DEF u, r
<1>6. Answered \in Seq(Units) /\ Len(Answered) = last /\ Answered[last] = u
      /\ \A i \in 1..last : i < last => Answered[i] = log[i]
  BY <1>1, <1>4, <1>5
<1>. QED
  BY <1>3, <1>4, <1>6

LEMMA FilledEffect ==
    ASSUME log \in Seq(Units)
    PROVE  Filled(log) \in Seq(Units) /\ \A i \in DOMAIN Filled(log) : Paired(Filled(log)[i])
<1>. DEFINE r(i) == [j \in DOMAIN log[i].results |-> IF log[i].results[j] = 0 THEN 1 ELSE log[i].results[j]]
<1>1. Filled(log) = [i \in 1..Len(log) |-> [log[i] EXCEPT !.results = r(i)]]
  BY DEF Filled
<1>2. ASSUME NEW i \in 1..Len(log)
      PROVE  /\ [log[i] EXCEPT !.results = r(i)] \in Units
             /\ Paired([log[i] EXCEPT !.results = r(i)])
  <2>1. log[i] \in Units /\ log[i].results \in [DOMAIN log[i].calls -> {0, 1}]
    BY UnitFacts
  <2>2. r(i) \in [DOMAIN log[i].calls -> {0, 1}] /\ \A j \in DOMAIN log[i].calls : r(i)[j] = 1
    BY <2>1
  <2>. HIDE DEF r
  <2>3. /\ [log[i] EXCEPT !.results = r(i)] \in Units
        /\ [log[i] EXCEPT !.results = r(i)].calls = log[i].calls
        /\ [log[i] EXCEPT !.results = r(i)].results = r(i)
    BY <2>1, <2>2, ResultsType
  <2>. QED
    BY <2>2, <2>3 DEF Paired
<1>. HIDE DEF r
<1>3. Len(log) \in Nat
  OBVIOUS
<1>. DEFINE f(i) == [log[i] EXCEPT !.results = r(i)]
<1>4. Filled(log) = [i \in 1..Len(log) |-> f(i)] /\ \A i \in 1..Len(log) : f(i) \in Units /\ Paired(f(i))
  BY <1>1, <1>2
<1>. HIDE DEF f
<1>. QED
  BY <1>3, <1>4

LEMMA CompactionFacts ==
    ASSUME log \in Seq(Units), NEW kept \in Compactions(log)
    PROVE  /\ kept \in Seq(Units) /\ kept # <<>>
           /\ \A i \in 1..Len(kept) : \E j \in 1..Len(log) : kept[i] = log[j]
<1>1. PICK i \in 1..Len(log) : kept = SubSeq(log, i, Len(log))
  BY DEF Compactions
<1>2. Len(log) \in Nat /\ i \in Nat /\ 1 <= i /\ i <= Len(log)
  OBVIOUS
<1>3. kept \in Seq(Units) /\ Len(kept) = Len(log) - i + 1
  BY <1>1, <1>2, SubSeqProperties
<1>4. \A j \in 1..Len(kept) : kept[j] = log[i + j - 1] /\ i + j - 1 \in 1..Len(log)
  BY <1>1, <1>2, <1>3, SubSeqProperties
<1>5. kept # <<>>
  BY <1>2, <1>3
<1>. QED
  BY <1>3, <1>4, <1>5

-----------------------------------------------------------------------------
LEMMA TurnInitHolds == TurnInit => TurnInv
<1>. SUFFICES ASSUME TurnInit PROVE TurnInv
  OBVIOUS
<1>1. Logs
  <2>1. log \in Seq(Units) /\ Len(log) = 0 /\ DOMAIN history = {} /\ next \in 1..MaxBatch + 1
    BY LoopAssumption DEF TurnInit
  <2>. QED
    BY <2>1 DEF TurnInit, Logs, Running, Over
<1>2. Control
  BY DEF TurnInit, Control, Kinds
<1>3. Delegations
  BY DEF TurnInit, Delegations, Over, ChildGone
<1>. QED
  BY <1>1, <1>2, <1>3 DEF TurnInv

-----------------------------------------------------------------------------
\* How a run ends: with a history of whole iterations, or with none.
LEMMA EndLogs ==
    ASSUME Logs, NEW how, NEW messages \in Seq(Units), End(how, messages),
           \A i \in 1..Len(messages) : Paired(messages[i])
    PROVE  Logs'
<1>1. /\ pc' = "over" /\ log' = messages /\ history' = messages /\ next' = next
      /\ DOMAIN messages = 1..Len(messages)
  BY DEF End
<1>. QED
  BY <1>1 DEF Logs, Running, Over, Paired

LEMMA EndUnkeptLogs ==
    ASSUME Logs, NEW how, EndUnkept(how)
    PROVE  Logs'
  BY DEF EndUnkept, Logs, Running, Over, Paired, Current

\* Outside its tool calls the log is whole.
LEMMA Whole ==
    ASSUME Logs, Control, ~Running, ~Over
    PROVE  log \in Seq(Units) /\ \A i \in 1..Len(log) : Paired(log[i])
  BY DEF Logs

LEMMA SameLogs ==
    ASSUME Logs, ~Running, ~Over, pc' \notin {"tools", "child", "over"},
           log' = log, next' = next, history' = history
    PROVE  Logs'
  BY DEF Logs, Running, Over, Paired

LEMMA WholeLogs ==
    ASSUME Logs, pc' \notin {"tools", "child", "over"}, log' \in Seq(Units), next' = next,
           history' = history, \A i \in 1..Len(log') : Paired(log'[i])
    PROVE  Logs'
  BY DEF Logs, Running, Over, Paired

\* One more call of the batch has its result.
LEMMA AnsweredLogs ==
    ASSUME Logs, Running, ~Over, next \in DOMAIN Current.calls, pc' = "tools",
           log' = Answered, next' = next + 1, history' = history
    PROVE  Logs'
<1>1. /\ log' \in Seq(Units) /\ Len(log') = Len(log)
      /\ \A i \in 1..Len(log) : i < Len(log) => log'[i] = log[i]
      /\ log'[Len(log)].calls = Current.calls
      /\ \A j \in DOMAIN Current.calls : log'[Len(log)].results[j] = IF j < next + 1 THEN 1 ELSE 0
  BY AnsweredEffect
<1>2. Len(log) \in Nat /\ Len(log) \in 1..Len(log) /\ Current \in Units
  BY CurrentType
<1>3. next' \in 1..MaxBatch + 1
  BY <1>2, UnitFacts, LoopAssumption
<1>4. Current' = log'[Len(log)]
  BY <1>1 DEF Current
<1>5. log' # <<>>
  BY <1>1, <1>2
<1>6. \A i \in 1..Len(log') : i < Len(log') => Paired(log'[i])
  BY <1>1 DEF Logs, Over
<1>7. \A i \in DOMAIN history' : Paired(history'[i])
  BY DEF Logs
<1>8. \A j \in DOMAIN Current'.calls : Current'.results[j] = IF j < next' THEN 1 ELSE 0
  BY <1>1, <1>4
<1>. QED
  BY <1>1, <1>3, <1>5, <1>6, <1>7, <1>8 DEF Logs, Running, Over, Paired

\* The batch that runs out of calls has all its results.
LEMMA BatchWhole ==
    ASSUME Logs, pc = "tools", next \notin DOMAIN Current.calls
    PROVE  log \in Seq(Units) /\ \A i \in 1..Len(log) : Paired(log[i])
<1>1. Len(log) \in Nat /\ Len(log) \in 1..Len(log) /\ Current \in Units
  BY CurrentType DEF Running
<1>2. PICK n \in 1..MaxBatch : DOMAIN Current.calls = 1..n
  BY <1>1, UnitFacts
<1>3. next \in 1..MaxBatch + 1 /\ n < next
  BY <1>2, LoopAssumption DEF Logs
<1>4. Paired(Current)
  BY <1>2, <1>3 DEF Logs, Running, Paired
<1>. QED
  BY <1>1, <1>4 DEF Logs, Over, Current

LEMMA CallToolsLogs ==
    ASSUME Logs, CallTools
    PROVE  Logs'
<1>1. PICK b \in Batches : log' = Append(log, Unit(b))
  BY DEF CallTools
<1>2. /\ Unit(b) \in Units /\ log \in Seq(Units) /\ Len(log) \in Nat
      /\ \A i \in 1..Len(log) : Paired(log[i])
  BY UnitFacts DEF Logs, CallTools, Over, Running
<1>3. /\ log' \in Seq(Units) /\ Len(log') = Len(log) + 1 /\ log'[Len(log) + 1] = Unit(b)
      /\ \A i \in 1..Len(log) : log'[i] = log[i]
  BY <1>1, <1>2
<1>4. Current' = Unit(b) /\ log' # <<>>
  BY <1>2, <1>3 DEF Current
<1>5. \A j \in DOMAIN b : Unit(b).results[j] = 0 /\ j \in 1..MaxBatch
  BY <1>2, UnitFacts DEF Unit
<1>6. \A j \in DOMAIN Current'.calls : Current'.results[j] = IF j < next' THEN 1 ELSE 0
  BY <1>4, <1>5 DEF CallTools, Unit
<1>7. \A i \in 1..Len(log') : i < Len(log') => Paired(log'[i])
  BY <1>2, <1>3
<1>8. next' \in 1..MaxBatch + 1 /\ history' = history /\ pc' = "tools"
  BY LoopAssumption DEF CallTools
<1>. QED
  BY <1>3, <1>4, <1>6, <1>7, <1>8 DEF Logs, Running, Over, Paired

-----------------------------------------------------------------------------
LEMMA LogsStep == Logs /\ Control /\ [TurnNext]_turnVars => Logs'
<1>. SUFFICES ASSUME Logs, Control, [TurnNext]_turnVars PROVE Logs'
  OBVIOUS
<1>1. CASE Chat
  BY <1>1, SameLogs DEF Chat, Go, Running, Over
<1>2. CASE Receive
  BY <1>2, SameLogs DEF Receive, Running, Over
<1>3. CASE ChatFails
  BY <1>3, SameLogs, EndUnkeptLogs DEF ChatFails, Running, Over
<1>4. CASE ProviderTimeout
  BY <1>4, EndUnkeptLogs DEF ProviderTimeout
<1>5. CASE Compact
  <2>1. /\ log' \in Compactions(log) /\ pc' = "retrying" /\ next' = next /\ history' = history
        /\ ~Running /\ ~Over
    BY <1>5 DEF Compact, Running, Over
  <2>2. log \in Seq(Units) /\ \A i \in 1..Len(log) : Paired(log[i])
    BY <2>1, Whole
  <2>3. log' \in Seq(Units) /\ \A i \in 1..Len(log') : Paired(log'[i])
    BY <2>1, <2>2, CompactionFacts
  <2>. QED
    BY <2>1, <2>3, WholeLogs
<1>6. CASE FinalAnswer
  BY <1>6, Whole, EndLogs DEF FinalAnswer, Running, Over
<1>7. CASE CallTools
  BY <1>7, CallToolsLogs
<1>8. CASE Skip
  BY <1>8, AnsweredLogs DEF Skip, Running, Over
<1>9. CASE Spawn
  BY <1>9 DEF Spawn, Go, Logs, Running, Over, Paired, Current
<1>10. CASE ToolReturns
  <2>1. next \in DOMAIN Current.calls
    BY <1>10 DEF ToolReturns, Logs
  <2>. QED
    BY <1>10, <2>1, AnsweredLogs DEF ToolReturns, Running, Over
<1>11. CASE BatchEnds
  <2>1. log \in Seq(Units) /\ \A i \in 1..Len(log) : Paired(log[i])
    BY <1>11, BatchWhole DEF BatchEnds
  <2>2. CASE End("handoff", log)
    BY <2>1, <2>2, EndLogs
  <2>3. CASE Go("settle")
    BY <2>1, <2>3, WholeLogs DEF Go
  <2>. QED
    BY <1>11, <2>2, <2>3 DEF BatchEnds
<1>12. CASE Settle
  <2>1. ~Running /\ ~Over
    BY <1>12 DEF Settle, Running, Over
  <2>2. log \in Seq(Units) /\ \A i \in 1..Len(log) : Paired(log[i])
    BY <2>1, Whole
  <2>3. PICK kept \in Compactions(log) :
          IF iteration + 1 = MaxIterations
          THEN End("max_iterations", kept)
          ELSE /\ pc' = "chat" /\ iteration' = iteration + 1 /\ log' = kept
               /\ UNCHANGED <<next, history, result, handoff, compacted, late, owner>>
    BY <1>12 DEF Settle
  <2>4. kept \in Seq(Units) /\ \A i \in 1..Len(kept) : Paired(kept[i])
    BY <2>2, CompactionFacts
  <2>5. CASE iteration + 1 = MaxIterations
    BY <2>3, <2>4, <2>5, EndLogs
  <2>6. CASE iteration + 1 # MaxIterations
    BY <2>3, <2>4, <2>6, WholeLogs
  <2>. QED
    BY <2>5, <2>6
<1>13. CASE DeadlineEnds
  <2>1. log \in Seq(Units)
    BY DEF Logs
  <2>2. Filled(log) \in Seq(Units) /\ \A i \in 1..Len(Filled(log)) : Paired(Filled(log)[i])
    BY <2>1, FilledEffect
  <2>3. CASE pc \in {"chat", "asking", "retrying", "compacting", "recorded", "settle"} /\ TimeOut(log)
    <3>1. ~Running /\ ~Over
      BY <2>3 DEF Running, Over
    <3>. QED
      BY <2>3, <3>1, Whole, EndLogs DEF TimeOut
  <2>4. CASE TimeOut(Filled(log))
    BY <2>2, <2>4, EndLogs DEF TimeOut
  <2>. QED
    BY <1>13, <2>3, <2>4 DEF DeadlineEnds
<1>14. CASE Cancelled
  BY <1>14, EndUnkeptLogs DEF Cancelled
<1>15. CASE UNCHANGED <<pc, log, next, history>>
  BY <1>15 DEF Logs, Running, Over, Paired, Current
<1>16. CASE Expire \/ ToolEnds \/ Stage \/ CreateTask \/ Delegate \/ Signal \/ CancelTasks
            \/ Provider \/ UNCHANGED turnVars
  BY <1>15, <1>16
     DEF Expire, ToolEnds, Stage, CreateTask, Delegate, Signal, CancelTasks, Provider, turnVars, runVars
<1>. QED
  BY <1>1, <1>2, <1>3, <1>4, <1>5, <1>6, <1>7, <1>8, <1>9, <1>10, <1>11, <1>12, <1>13, <1>14,
     <1>16 DEF TurnNext, TurnStep

-----------------------------------------------------------------------------
\* The steps of the turn, of its child and of the stop, for the control alone.
LEMMA ControlStep == TurnInv /\ [TurnNext]_turnVars => Control' /\ Delegations'
<1>. SUFFICES ASSUME Logs, Control, Delegations, [TurnNext]_turnVars PROVE Control' /\ Delegations'
  BY DEF TurnInv
<1>. USE DEF Control, Delegations, Over, ChildGone
<1>1. CASE Chat
  BY <1>1 DEF Chat, Go
<1>2. CASE Receive
  BY <1>2 DEF Receive
<1>3. CASE ChatFails
  <2>1. /\ pc \in {"asking", "retrying"} /\ pc' \in {"compacting", "over"}
        /\ UNCHANGED <<handoff, child, task, stop, stopEvent>>
    BY <1>3 DEF ChatFails, EndUnkept
  <2>. QED
    BY <2>1
<1>4. CASE ProviderTimeout
  BY <1>4 DEF ProviderTimeout, EndUnkept
<1>5. CASE Compact
  BY <1>5 DEF Compact
<1>6. CASE FinalAnswer
  BY <1>6 DEF FinalAnswer, End
<1>7. CASE CallTools
  BY <1>7 DEF CallTools
<1>8. CASE Skip
  BY <1>8 DEF Skip
<1>9. CASE Spawn
  <2>1. Kind \in Kinds
    BY <1>9, CurrentType, UnitFacts DEF Spawn, Running, Kind
  <2>2. /\ pc = "tools" /\ pc' = "child" /\ child' = [phase |-> "running", kind |-> Kind]
        /\ handoff => Kind = "move"
        /\ UNCHANGED <<handoff, stopEvent, task, stop, result>>
    BY <1>9 DEF Spawn, Go
  <2>3. child' \in [phase : {"none", "running", "staging", "created", "returned"}, kind : Kinds]
    BY <2>1, <2>2
  <2>. QED
    BY <2>2, <2>3
<1>10. CASE ToolReturns
  BY <1>10 DEF ToolReturns
<1>11. CASE BatchEnds
  BY <1>11 DEF BatchEnds, End, Go
<1>12. CASE Settle
  BY <1>12 DEF Settle, End
<1>13. CASE DeadlineEnds
  <2>1. /\ pc' = "over" /\ handoff' = handoff /\ child' = child /\ task' = task
        /\ stop' = stop /\ stopEvent' = stopEvent
    BY <1>13 DEF DeadlineEnds, TimeOut, End
  <2>2. handoff => result' = "handoff"
    BY <1>13 DEF DeadlineEnds, TimeOut, End
  <2>3. Control'
    BY <2>1
  <2>4. Delegations'
    BY <2>1, <2>2
  <2>. QED
    BY <2>3, <2>4
<1>14. CASE Cancelled
  BY <1>14 DEF Cancelled, EndUnkept
<1>15. CASE Expire
  BY <1>15 DEF Expire
<1>16. CASE ToolEnds
  BY <1>16 DEF ToolEnds, Return, runVars
<1>17. CASE Stage
  BY <1>17 DEF Stage, runVars
<1>18. CASE CreateTask
  BY <1>18 DEF CreateTask, runVars
<1>19. CASE Delegate
  BY <1>19 DEF Delegate, Return
<1>20. CASE Signal
  BY <1>20 DEF Signal, runVars
<1>21. CASE CancelTasks
  BY <1>21 DEF CancelTasks, runVars
<1>22. CASE Provider \/ UNCHANGED turnVars
  BY <1>22 DEF Provider, turnVars, runVars
<1>. QED
  BY <1>1, <1>2, <1>3, <1>4, <1>5, <1>6, <1>7, <1>8, <1>9, <1>10, <1>11, <1>12, <1>13, <1>14,
     <1>15, <1>16, <1>17, <1>18, <1>19, <1>20, <1>21, <1>22 DEF TurnNext, TurnStep

THEOREM TurnInvariant == TurnSpec => []TurnInv
<1>1. TurnInv /\ [TurnNext]_turnVars => TurnInv'
  BY LogsStep, ControlStep DEF TurnInv
<1>. QED
  BY <1>1, TurnInitHolds, PTL DEF TurnSpec

\* On whatever path a turn of any length ends, every tool call it adds to the
\* history has its one result (core.py: _handle_tool_response,
\* _append_missing_timeout_tool_results).
THEOREM HistoriesArePaired == TurnSpec => []HistoryIsPaired
<1>1. TurnInv => HistoryIsPaired
  BY DEF TurnInv, Logs, Paired, HistoryIsPaired, Range
<1>. QED
  BY <1>1, TurnInvariant, PTL

\* Once a turn has delegated its work no tool but a follow-up of the handoff
\* runs in it (core.py: _handle_tool_response).
THEOREM OnlyFollowUps == TurnSpec => []NothingAfterHandoff
<1>1. TurnInv => NothingAfterHandoff
  BY DEF TurnInv, Delegations, NothingAfterHandoff
<1>. QED
  BY <1>1, TurnInvariant, PTL

\* A task that a finished turn left pending was announced by it, or a stop is
\* on its way (app/coding_tasks.py: start_from_tool).
THEOREM DelegationsAreAnswered == TurnSpec => []DelegationIsAnswered
<1>1. TurnInv => DelegationIsAnswered
  BY DEF TurnInv, Control, Delegations, DelegationIsAnswered, ChildGone
<1>. QED
  BY <1>1, TurnInvariant, PTL

\* A stop that has been through leaves no task of the turn to run, however
\* late the tool writes it (tools/coding_tasks.py: start; work_cancellation.py: cancel).
THEOREM StopsReachDelegations == TurnSpec => []NoDelegationSurvivesStop
<1>1. TurnInv => NoDelegationSurvivesStop
  BY DEF TurnInv, Delegations, NoDelegationSurvivesStop, ChildGone
<1>. QED
  BY <1>1, TurnInvariant, PTL

-----------------------------------------------------------------------------
\* The rest of the types: what the chain tells the turn, and its counters.
Asked == [Callers -> [state : {"idle", "open", "served", "failed"}, at : 1..Length]]
Rest ==
    /\ asked \in Asked
    /\ owner \in 1..Length /\ iteration \in 0..MaxIterations - 1
    /\ compacted \in BOOLEAN /\ late \in BOOLEAN
    /\ result \in {"none", "answered", "timed_out", "provider_error", "handoff",
                   "max_iterations", "cancelled"}

LEMMA ChainTypes ==
    ASSUME asked \in Asked, owner \in 1..Length
    PROVE  /\ Request => asked' \in Asked
           /\ DropCall => asked' \in Asked
           /\ Serve(Own) => asked' \in Asked
           /\ Refuse(Own) => asked' \in Asked
<1>0. Own \in Callers /\ Length \in Nat /\ 1 \in 1..Length
  BY OwnAssumption, LengthAssumption
<1>1. Request => asked' \in Asked
  BY <1>0 DEF Request, Ask, AskInVain, Asked
<1>2. DropCall => asked' \in Asked
  BY <1>0 DEF DropCall, Drop, Asked
<1>3. Serve(Own) => asked' \in Asked
  <2>. SUFFICES ASSUME Serve(Own) PROVE asked' \in Asked
    OBVIOUS
  <2>1. asked[Own].at \in 1..Length
    BY <1>0 DEF Asked
  <2>2. PICK j \in asked[Own].at..Length : asked' = [asked EXCEPT ![Own] = [state |-> "served", at |-> j]]
    BY DEF Serve
  <2>3. j \in 1..Length
    BY <1>0, <2>1, <2>2
  <2>. QED
    BY <1>0, <2>2, <2>3 DEF Asked
<1>4. Refuse(Own) => asked' \in Asked
  BY <1>0 DEF Refuse, Asked
<1>. QED
  BY <1>1, <1>2, <1>3, <1>4

LEMMA RestStep == Rest /\ [TurnNext]_turnVars => Rest'
<1>. SUFFICES ASSUME Rest, [TurnNext]_turnVars PROVE Rest'
  OBVIOUS
<1>0. Own \in Callers /\ MaxIterations \in Nat \ {0} /\ asked[Own].at \in 1..Length
  BY OwnAssumption, LoopAssumption DEF Rest, Asked
<1>. USE DEF Rest
<1>1. CASE Chat \/ Compact
  BY <1>1, ChainTypes DEF Chat, Compact, Go
<1>2. CASE Receive
  BY <1>0, <1>2 DEF Receive
<1>3. CASE ChatFails
  BY <1>3 DEF ChatFails, EndUnkept
<1>4. CASE ProviderTimeout \/ Cancelled
  BY <1>4, ChainTypes DEF ProviderTimeout, Cancelled, EndUnkept
<1>5. CASE FinalAnswer \/ BatchEnds
  BY <1>5 DEF FinalAnswer, BatchEnds, End, Go
<1>6. CASE CallTools \/ Skip \/ Spawn \/ ToolReturns
  BY <1>6 DEF CallTools, Skip, Spawn, ToolReturns, Go
<1>7. CASE Settle
  <2>1. /\ iteration' = iteration \/ (iteration + 1 # MaxIterations /\ iteration' = iteration + 1)
        /\ result' \in {result, "max_iterations"}
        /\ UNCHANGED <<asked, owner, compacted, late>>
    BY <1>7 DEF Settle, End
  <2>2. iteration' \in 0..MaxIterations - 1
    BY <1>0, <2>1
  <2>. QED
    BY <2>1, <2>2
<1>8. CASE DeadlineEnds
  <2>1. /\ result' \in {"handoff", "timed_out"}
        /\ UNCHANGED <<iteration, owner, compacted, late>>
    BY <1>8 DEF DeadlineEnds, TimeOut, End
  <2>2. asked' \in Asked
    BY <1>8, ChainTypes DEF DeadlineEnds
  <2>. QED
    BY <2>1, <2>2
<1>9. CASE Expire \/ Delegate
  BY <1>9 DEF Expire, Delegate
<1>10. CASE ToolEnds \/ Stage \/ CreateTask \/ Signal \/ CancelTasks \/ UNCHANGED turnVars
  BY <1>10 DEF ToolEnds, Stage, CreateTask, Signal, CancelTasks, turnVars, runVars
<1>11. CASE Provider
  BY <1>11, ChainTypes DEF Provider, runVars
<1>. QED
  BY <1>1, <1>2, <1>3, <1>4, <1>5, <1>6, <1>7, <1>8, <1>9, <1>10, <1>11 DEF TurnNext, TurnStep

\* Every variable of a turn keeps its type.
THEOREM TurnTypes == TurnSpec => []TurnTypeOK
<1>1. TurnInit => Rest
  <2>1. Length \in Nat /\ 1 \in 1..Length /\ 0 \in 0..MaxIterations - 1
    BY LengthAssumption, LoopAssumption
  <2>2. TurnInit => asked \in Asked
    BY <2>1 DEF TurnInit, ChainInit, Asked
  <2>. QED
    BY <2>1, <2>2 DEF TurnInit, Rest
<1>2. TurnInv /\ Rest => TurnTypeOK
  BY DEF TurnInv, Logs, Control, Rest, TurnTypeOK
<1>. QED
  BY <1>1, <1>2, RestStep, TurnInvariant, PTL DEF TurnSpec

=============================================================================
