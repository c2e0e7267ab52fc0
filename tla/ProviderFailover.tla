-------------------------- MODULE ProviderFailover --------------------------
(***************************************************************************)
(* The provider chain (bot/providers/failover.py) over the persistent      *)
(* circuits of bot/providers/circuit_breaker.py.  A call walks the chain   *)
(* forward from the backend that owns the provider state; a circuit is the *)
(* record of one scope (a model or an account), open until its retry time  *)
(* and then half open: one call at a time may probe it.                    *)
(*                                                                         *)
(* Every step below runs between two suspensions of the code.  The         *)
(* breaker's inner lock is never held across one; the persistence lock is, *)
(* so it is a FIFO of the writes not yet done.  A record carries the       *)
(* generation of the call that opened it; time is the step that makes an   *)
(* open record ripe for a probe.                                           *)
(***************************************************************************)
EXTENDS Integers, Sequences, SequencesExt

CONSTANTS
    Calls,       \* calls that may be in flight together
    Chain,       \* number of backends
    Account,     \* the account of each backend
    MaxResets    \* bound: owner resets

ASSUME ChainAssumption == Chain \in Nat \ {0}
ASSUME AccountAssumption == DOMAIN Account = 1..Chain
ASSUME ResetsAssumption == MaxResets \in Nat

VARIABLES
    since,       \* generation that opened each circuit, 0 when closed
    ripe,        \* open circuits whose retry time has passed
    probes,      \* circuits some call is probing
    generation,
    stored,      \* what the database says of each circuit
    queue,       \* waiters of the persistence lock, the holder first
    calls

breaker == <<since, ripe, probes, generation, stored, queue>>
vars == <<breaker, calls>>

ModelKey(i) == <<"model", i>>
AccountKey(i) == <<"account", Account[i]>>
KeySet(i) == {AccountKey(i), ModelKey(i)}
Keys == UNION {KeySet(i) : i \in 1..Chain}
\* Those of a set of a backend's keys, in the order of the code's tuple.
InOrder(i, keys) ==
    IF KeySet(i) \subseteq keys THEN <<AccountKey(i), ModelKey(i)>>
    ELSE IF AccountKey(i) \in keys THEN <<AccountKey(i)>>
    ELSE IF ModelKey(i) \in keys THEN <<ModelKey(i)>> ELSE <<>>
Generations == 1..MaxResets + 1
Scopes == {"none", "model", "account"}
ScopeKey(i, scope) == IF scope = "account" THEN AccountKey(i) ELSE ModelKey(i)

\* A call in flight: the backend it is at (its repeated attempts there hold on to
\* one permit and are one wait here), its permit (keys and generation), the probe
\* keys whose rows it still deletes, and what follows a failure that is being
\* recorded; from is where the call began.
Call == [pc : {"done", "asking", "closing", "opening"}, at : 1..Chain,
         keys : SUBSET Keys, gen : Generations,
         owed : Seq(Keys),
         then : {"next", "stop"}, out : {"none", "ok", "error"},
         from : 1..Chain]

\* A row's write, waiting for the persistence lock: to is what it stores.
Writes == [who : Calls, key : Keys, to : {0} \cup Generations, gen : Generations]

Idle(out, at) ==
    [pc |-> "done", at |-> at, keys |-> {}, gen |-> 1,
     owed |-> <<>>, then |-> "next", out |-> out, from |-> at]

Init ==
    /\ since = [k \in Keys |-> 0] /\ stored = [k \in Keys |-> 0]
    /\ ripe = {} /\ probes = {} /\ generation = 1 /\ queue = <<>>
    /\ calls = [c \in Calls |-> Idle("none", 1)]

-----------------------------------------------------------------------------
\* allow: an open circuit refuses until it is ripe, and while it is probed.
Permitted(i, busy, recs) ==
    \A k \in KeySet(i) : recs[k] = 0 \/ (k \in ripe /\ k \notin busy)

\* The rest of the chain from backend i, given the probes and records that
\* the step leaves: the first permitted backend is asked, skipped ones leave
\* no trace, and an exhausted chain ends the call.
Walk(c, from, i, busy, recs) ==
    LET open == {j \in i..Chain : Permitted(j, busy, recs)}
        j == CHOOSE m \in open : \A n \in open : m <= n
        asked == {k \in KeySet(j) : recs[k] # 0}
    IN  IF open = {}
        THEN probes' = busy /\ calls' = [calls EXCEPT ![c] = Idle("error", 1)]
        ELSE /\ probes' = busy \cup asked
             /\ calls' = [calls EXCEPT ![c] =
                  [pc |-> "asking", at |-> j, keys |-> asked,
                   gen |-> generation, owed |-> <<>>, then |-> "next", out |-> "none",
                   from |-> from]]

\* release: a permit of an earlier generation frees nothing.
Released(c) == IF calls[c].gen = generation THEN probes \ calls[c].keys ELSE probes

\* A mutant: a call always begins at the primary.
Begin_AtPrimary(c, owner) ==
    /\ calls[c].pc = "done"
    /\ Walk(c, owner, 1, probes, since)
    /\ UNCHANGED <<since, ripe, generation, stored, queue>>

\* run_turn from the backend that owns the provider state.
Begin(c, owner) ==
    /\ calls[c].pc = "done"
    /\ Walk(c, owner, owner, probes, since)
    /\ UNCHANGED <<since, ripe, generation, stored, queue>>

\* record_success: the probed circuits close in memory at once, their rows
\* one after the other.
Answer(c) ==
    LET call == calls[c]
        closed == IF call.gen = generation THEN call.keys ELSE {}
        owed == InOrder(call.at, closed)
    IN  /\ call.pc = "asking"
        /\ probes' = probes \ closed /\ ripe' = ripe \ closed
        /\ since' = [k \in Keys |-> IF k \in closed THEN 0 ELSE since[k]]
        /\ IF owed = <<>>
           THEN /\ calls' = [calls EXCEPT ![c] = Idle("ok", call.at)]
                /\ UNCHANGED queue
           ELSE /\ calls' = [calls EXCEPT ![c].pc = "closing", ![c].owed = Tail(owed)]
                /\ queue' = Append(queue, [who |-> c, key |-> owed[1], to |-> 0, gen |-> call.gen])
        /\ UNCHANGED <<generation, stored>>

\* What follows a recorded failure: the finally clause, then the next backend,
\* or the error itself at the end of the chain or for a deterministic failure.
GoOn(c, then, busy, recs) ==
    IF then = "stop" \/ calls[c].at = Chain
    THEN probes' = busy /\ calls' = [calls EXCEPT ![c] = Idle("error", 1)]
    ELSE Walk(c, calls[c].from, calls[c].at + 1, busy, recs)

\* record_failure for a failure no circuit takes note of, or one of a call
\* admitted before the last reset.
FailUnrecorded(c, scope, then) ==
    /\ calls[c].pc = "asking"
    /\ scope = "none" \/ calls[c].gen # generation
    /\ GoOn(c, then, Released(c), since)
    /\ UNCHANGED <<since, ripe, generation, stored, queue>>

\* A mutant: the failure of a call from before a reset opens its circuit.
FailRecorded_Stale(c, scope, then) ==
    LET call == calls[c]
        key == ScopeKey(call.at, scope)
    IN  /\ call.pc = "asking" /\ scope # "none"
        /\ probes' = probes \ call.keys
        /\ since' = [since EXCEPT ![key] = call.gen] /\ ripe' = ripe \ {key}
        /\ queue' = Append(queue, [who |-> c, key |-> key, to |-> call.gen, gen |-> call.gen])
        /\ calls' = [calls EXCEPT ![c].pc = "opening", ![c].then = then]
        /\ UNCHANGED <<generation, stored>>

\* record_failure: the circuit of the failed scope opens and the permit gives
\* up its probes; the row is written afterwards.
FailRecorded(c, scope, then) ==
    LET call == calls[c]
        key == ScopeKey(call.at, scope)
    IN  /\ call.pc = "asking" /\ scope # "none" /\ call.gen = generation
        /\ probes' = probes \ call.keys
        /\ since' = [since EXCEPT ![key] = generation] /\ ripe' = ripe \ {key}
        /\ queue' = Append(queue, [who |-> c, key |-> key, to |-> generation, gen |-> call.gen])
        /\ calls' = [calls EXCEPT ![c].pc = "opening", ![c].then = then]
        /\ UNCHANGED <<generation, stored>>

Fail(c) == \E scope \in Scopes, then \in {"next", "stop"} :
              FailUnrecorded(c, scope, then) \/ FailRecorded(c, scope, then)

-----------------------------------------------------------------------------
\* _upsert_safely and _delete_safely at the head of the queue: a write of an
\* earlier generation is dropped, an error of the database is swallowed.
WriteRow(w) ==
    \/ stored' = IF w.gen = generation THEN [stored EXCEPT ![w.key] = w.to] ELSE stored
    \/ UNCHANGED stored

\* The writer goes on when its row is written: with the next row, or with the
\* finally clause and what follows the failure.
Persist(c) ==
    LET call == calls[c] IN
    /\ queue # <<>> /\ queue[1].who = c /\ c \in Calls
    /\ WriteRow(queue[1])
    /\ UNCHANGED <<since, ripe, generation>>
    /\ \/ /\ call.owed # <<>>
          /\ queue' = Append(Tail(queue), [queue[1] EXCEPT !.key = call.owed[1]])
          /\ calls' = [calls EXCEPT ![c].owed = Tail(call.owed)]
          /\ UNCHANGED probes
       \/ /\ call.pc = "closing" /\ call.owed = <<>>
          /\ queue' = Tail(queue) /\ probes' = Released(c)
          /\ calls' = [calls EXCEPT ![c] = Idle("ok", call.at)]
       \/ /\ call.pc = "opening" /\ call.owed = <<>>
          /\ queue' = Tail(queue) /\ GoOn(c, call.then, Released(c), since)

\* A cancelled writer leaves the queue; a call waits in it once.
LeaveQueue(c) ==
    \/ /\ \A i \in DOMAIN queue : queue[i].who # c
       /\ UNCHANGED queue
    \/ \E i \in DOMAIN queue : queue[i].who = c /\ queue' = RemoveAt(queue, i)

\* A mutant: a cancelled call keeps its probes.
Abort_Leaks(c) ==
    /\ calls[c].pc # "done"
    /\ LeaveQueue(c)
    /\ IF queue # <<>> /\ queue[1].who = c THEN WriteRow(queue[1]) ELSE UNCHANGED stored
    /\ calls' = [calls EXCEPT ![c] = Idle("none", 1)]
    /\ UNCHANGED <<since, ripe, probes, generation>>

\* Cancellation reaches a call wherever it waits; the finally clause frees its
\* probes.  A write already under way may or may not be done.
Abort(c) ==
    /\ calls[c].pc # "done"
    /\ LeaveQueue(c)
    /\ IF queue # <<>> /\ queue[1].who = c THEN WriteRow(queue[1]) ELSE UNCHANGED stored
    /\ probes' = Released(c)
    /\ calls' = [calls EXCEPT ![c] = Idle("none", 1)]
    /\ UNCHANGED <<since, ripe, generation>>

\* reset_all: when it gets the persistence lock it clears the table and then,
\* in one step, the memory and every outstanding permit; writers may already
\* wait behind it, with writes it outdates.
Reset ==
    /\ generation <= MaxResets
    /\ stored' = [k \in Keys |-> 0] /\ since' = [k \in Keys |-> 0]
    /\ ripe' = {} /\ probes' = {} /\ generation' = generation + 1
    /\ UNCHANGED <<queue, calls>>

\* initialize: a new process loads the table; its rows may ripen at once.
Restart ==
    /\ since' = stored
    /\ ripe' = {} /\ probes' = {} /\ queue' = <<>>
    /\ calls' = [c \in Calls |-> Idle("none", 1)]
    /\ UNCHANGED <<generation, stored>>

\* The retry time of an open circuit passes.
Ripen(k) ==
    /\ since[k] # 0 /\ k \notin ripe
    /\ ripe' = ripe \cup {k}
    /\ UNCHANGED <<since, probes, generation, stored, queue, calls>>

-----------------------------------------------------------------------------
Next ==
    \/ Reset \/ Restart
    \/ \E k \in Keys : Ripen(k)
    \/ \E c \in Calls : \/ Answer(c) \/ Fail(c) \/ Persist(c) \/ Abort(c)
                        \/ \E owner \in 1..Chain : Begin(c, owner)

Spec == Init /\ [][Next]_vars

TypeOK ==
    /\ since \in [Keys -> 0..MaxResets + 1] /\ stored \in [Keys -> 0..MaxResets + 1]
    /\ ripe \subseteq Keys /\ probes \subseteq Keys /\ generation \in Generations
    /\ queue \in Seq(Writes)
    /\ calls \in [Calls -> Call]

\* No circuit stays half open with nobody probing it, which would keep its
\* backend out of use until a restart: every probe belongs to a call
\* that is asking its backend and was admitted after the last reset (circuit_breaker.py: allow,
\* release; failover.py: run_turn's finally clause).
ProbeHasHolder ==
    \A k \in probes : \E c \in Calls :
        /\ calls[c].pc = "asking" /\ calls[c].gen = generation /\ k \in calls[c].keys

\* After an owner reset no circuit is open, in memory or in the table, on the
\* word of a call admitted before it, however late its failure is recorded or
\* written (circuit_breaker.py: record_failure, _upsert_safely, reset_all).
ResetForgets ==
    \A k \in Keys : since[k] \in {0, generation} /\ stored[k] \in {0, generation}

\* The chain keeps what ProviderChain promises its callers.
Promise(call) ==
    IF call.pc # "done" THEN [state |-> "open", at |-> call.from]
    ELSE CASE call.out = "ok" -> [state |-> "served", at |-> call.at]
           [] call.out = "error" -> [state |-> "failed", at |-> 1]
           [] OTHER -> [state |-> "idle", at |-> 1]

Interface == INSTANCE ProviderChain
    WITH Callers <- Calls, Length <- Chain, asked <- [c \in Calls |-> Promise(calls[c])]

ImplementsChain == Interface!ChainSpec

=============================================================================
