----------------------------- MODULE AgentTurn -----------------------------
(***************************************************************************)
(* One ReAct turn (bot/agent/core.py: _ConversationRunner): model calls    *)
(* through the provider chain, tool calls in guarded children that outlive *)
(* the turn when its deadline or a stop takes it, emergency and threshold  *)
(* compaction, and the terminal handoff that delegates the rest of the     *)
(* turn to a coding task (tools/coding_tasks.py, app/coding_tasks.py).     *)
(* Beside it a stop of the user's work (app/cancellation.py,               *)
(* app/work_cancellation.py).                                              *)
(***************************************************************************)
EXTENDS ProviderChain, Sequences, SequencesExt

CONSTANTS
    Own,             \* the turn as a caller of the chain
    MaxIterations,
    MaxBatch         \* bound: tool calls in one response

ASSUME OwnAssumption == Own \in Callers
ASSUME LoopAssumption == MaxIterations \in Nat \ {0} /\ MaxBatch \in Nat \ {0}

VARIABLES
    pc, iteration,
    log,         \* the tool calls of each iteration still in turn_messages,
                 \* with how many results stand for each
    next,        \* the next tool call of the last iteration
    history,     \* what the turn added to the conversation's history
    result,      \* how the run ended
    handoff,     \* outbox.terminal_handoff is set
    compacted,   \* compaction_overflow_handled
    late,        \* the deadline has passed
    owner,       \* the backend in the provider state
    child,       \* the tool child, which may be detached
    task,        \* the coding task it created
    stop, stopEvent

runVars == <<pc, iteration, log, next, history, result, handoff, compacted, late, owner>>
turnVars == <<runVars, child, task, stop, stopEvent, asked>>

Kinds == {"work", "start", "move"}   \* any tool, start_coding_task, move_to_thread
Batches == UNION {[1..n -> Kinds] : n \in 1..MaxBatch}
Unit(batch) == [calls |-> batch, results |-> [i \in DOMAIN batch |-> 0]]
Current == log[Len(log)]
Over == pc = "over"
ChildGone == child.phase \in {"none", "returned"}

TurnInit ==
    /\ ChainInit
    /\ pc = "chat" /\ iteration = 0 /\ log = <<>> /\ next = 1 /\ history = <<>>
    /\ result = "none" /\ handoff = FALSE /\ compacted = FALSE /\ late = FALSE /\ owner = 1
    /\ child = [phase |-> "none", kind |-> "work"] /\ task = "none"
    /\ stop = "none" /\ stopEvent = FALSE

-----------------------------------------------------------------------------
\* The run returns; kept says whether its messages enter the history.
End(how, messages) ==
    /\ pc' = "over" /\ result' = how /\ log' = messages /\ history' = messages
    /\ UNCHANGED <<iteration, next, handoff, compacted, late, owner>>

EndUnkept(how) ==
    /\ pc' = "over" /\ result' = how
    /\ UNCHANGED <<log, history, iteration, next, handoff, compacted, late, owner>>

\* _await_with_deadline leaves a running provider call cancelled behind.
DropCall == IF asked[Own].state = "open" THEN Drop({Own}) ELSE UNCHANGED asked

\* A mutant: results are added for completed calls too.
Filled_Blind(messages) ==
    [i \in DOMAIN messages |->
        [messages[i] EXCEPT !.results = [j \in DOMAIN @ |-> @[j] + 1]]]
\* _append_missing_timeout_tool_results
Filled(messages) ==
    [i \in DOMAIN messages |->
        [messages[i] EXCEPT !.results =
            [j \in DOMAIN @ |-> IF @[j] = 0 THEN 1 ELSE @[j]]]]

\* A mutant: a timeout never looks at the handoff.
TimeOut_Plain(messages) == End("timed_out", messages)

\* finish_timeout: a delegation made in time is the answer.
TimeOut(messages) == End(IF handoff THEN "handoff" ELSE "timed_out", messages)

Go(at) ==
    /\ pc' = at
    /\ UNCHANGED <<iteration, log, next, history, result, handoff, compacted, late, owner>>

\* A call the circuits refuse fails as it is made.
Request == Ask(Own, owner) \/ AskInVain(Own)

Chat == pc = "chat" /\ Request /\ Go("asking") /\ UNCHANGED <<child, task, stop, stopEvent>>

\* _record_provider_response; the usage checkpoint is awaited next.
Receive ==
    /\ pc \in {"asking", "retrying"} /\ asked[Own].state = "served"
    /\ pc' = "recorded" /\ owner' = asked[Own].at
    /\ UNCHANGED <<iteration, log, next, history, result, handoff, compacted, late,
                   child, task, stop, stopEvent, asked>>

\* An overflow is answered with one emergency compaction, when there is
\* something to compact; any other error ends the run outside the history.
ChatFails ==
    /\ pc \in {"asking", "retrying"} /\ asked[Own].state = "failed"
    /\ \/ /\ pc = "asking" /\ ~compacted /\ log # <<>>
          /\ pc' = "compacting" /\ compacted' = TRUE
          /\ UNCHANGED <<iteration, log, next, history, result, handoff, late, owner>>
       \/ EndUnkept("provider_error")
    /\ UNCHANGED <<child, task, stop, stopEvent, asked>>

\* The provider's own deadline is an error of the call, not of the turn.
ProviderTimeout ==
    /\ pc \in {"asking", "retrying"} /\ asked[Own].state = "open"
    /\ EndUnkept("provider_error") /\ DropCall
    /\ UNCHANGED <<child, task, stop, stopEvent>>

\* _compact keeps a suffix of whole iterations.
Compactions(messages) == {SubSeq(messages, i, Len(messages)) : i \in 1..Len(messages)}

Compact ==
    /\ pc = "compacting" /\ pc' = "retrying"
    /\ log' \in Compactions(log)
    /\ Request
    /\ UNCHANGED <<iteration, next, history, result, handoff, compacted, late, owner,
                   child, task, stop, stopEvent>>

FinalAnswer ==
    /\ pc = "recorded" /\ End("answered", log)
    /\ UNCHANGED <<child, task, stop, stopEvent, asked>>

CallTools ==
    /\ pc = "recorded" /\ pc' = "tools" /\ next' = 1
    /\ \E batch \in Batches : log' = Append(log, Unit(batch))
    /\ UNCHANGED <<iteration, history, result, handoff, compacted, late, owner,
                   child, task, stop, stopEvent, asked>>

-----------------------------------------------------------------------------
Kind == Current.calls[next]
Answered == [log EXCEPT ![Len(log)].results[next] = @ + 1]

\* After the handoff only the follow-up tools it allows are run.
Skip ==
    /\ pc = "tools" /\ next \in DOMAIN Current.calls
    /\ handoff /\ Kind # "move"
    /\ log' = Answered /\ next' = next + 1
    /\ UNCHANGED <<pc, iteration, history, result, handoff, compacted, late, owner,
                   child, task, stop, stopEvent, asked>>

Spawn ==
    /\ pc = "tools" /\ next \in DOMAIN Current.calls
    /\ IF handoff THEN Kind = "move" ELSE ~late
    /\ child' = [phase |-> "running", kind |-> Kind]
    /\ Go("child")
    /\ UNCHANGED <<task, stop, stopEvent, asked>>

ToolReturns ==
    /\ pc = "child" /\ child.phase = "returned"
    /\ pc' = "tools" /\ log' = Answered /\ next' = next + 1
    /\ UNCHANGED <<iteration, history, result, handoff, compacted, late, owner,
                   child, task, stop, stopEvent, asked>>

\* A batch that delegated ends the run; any other goes on to the threshold
\* compaction and the checkpoint.
BatchEnds ==
    /\ pc = "tools" /\ next \notin DOMAIN Current.calls
    /\ IF handoff THEN End("handoff", log) ELSE Go("settle")
    /\ UNCHANGED <<child, task, stop, stopEvent, asked>>

Settle ==
    /\ pc = "settle"
    /\ \E kept \in Compactions(log) :
          IF iteration + 1 = MaxIterations
          THEN End("max_iterations", kept)
          ELSE /\ pc' = "chat" /\ iteration' = iteration + 1 /\ log' = kept
               /\ UNCHANGED <<next, history, result, handoff, compacted, late, owner>>
    /\ UNCHANGED <<child, task, stop, stopEvent, asked>>

\* Everything the turn awaits gives way to its deadline, except a follow-up
\* of the handoff; a tool child is left to run, its missing results filled in.
DeadlineEnds ==
    /\ late
    /\ \/ /\ pc \in {"chat", "asking", "retrying", "compacting", "recorded", "settle"}
          /\ TimeOut(log)
       \/ /\ pc = "tools" /\ ~handoff /\ TimeOut(Filled(log))
       \/ /\ pc = "child" /\ ~(handoff /\ child.kind = "move") /\ TimeOut(Filled(log))
    /\ DropCall
    /\ UNCHANGED <<child, task, stop, stopEvent>>

\* A stop cancels the turn at whatever it awaits.
Cancelled ==
    /\ stop # "none" /\ stopEvent
    /\ pc \in {"chat", "asking", "retrying", "compacting", "recorded", "child", "settle"}
    /\ EndUnkept("cancelled") /\ DropCall
    /\ UNCHANGED <<child, task, stop, stopEvent>>

TurnStep ==
    \/ Chat \/ Receive \/ ChatFails \/ ProviderTimeout \/ Compact \/ FinalAnswer
    \/ CallTools \/ Skip \/ Spawn \/ ToolReturns \/ BatchEnds \/ Settle
    \/ DeadlineEnds \/ Cancelled

Expire == ~late /\ late' = TRUE
          /\ UNCHANGED <<pc, iteration, log, next, history, result, handoff, compacted,
                         owner, child, task, stop, stopEvent, asked>>

-----------------------------------------------------------------------------
Return == child' = [child EXCEPT !.phase = "returned"]

\* A tool runs to its end; a delegation may be rejected, or find itself
\* stopped before it begins.
ToolEnds ==
    /\ child.phase \in {"running", "staging"} /\ Return
    /\ UNCHANGED <<runVars, task, stop, stopEvent, asked>>

\* start_coding_task looks at the stop event and stages its inputs, which takes
\* a while; start_from_tool then writes the task, its handoff pending.
Stage ==
    /\ child.phase = "running" /\ child.kind = "start" /\ ~stopEvent
    /\ child' = [child EXCEPT !.phase = "staging"]
    /\ UNCHANGED <<runVars, task, stop, stopEvent, asked>>

CreateTask ==
    /\ child.phase = "staging"
    /\ child' = [child EXCEPT !.phase = "created"] /\ task' = "pending"
    /\ UNCHANGED <<runVars, stop, stopEvent, asked>>

\* A mutant: the stop event is read before the task is written only.
Delegate_Unchecked ==
    /\ child.phase = "created" /\ Return
    /\ task' = IF task = "pending" /\ Over THEN "abandoned" ELSE task
    /\ handoff' = ~Over
    /\ UNCHANGED <<pc, iteration, log, next, history, result, compacted, late, owner,
                   stop, stopEvent, asked>>

\* Then it looks whether its turn still stands: a task whose turn has ended is
\* abandoned, one whose turn is stopped is cancelled, any other is handed off.
Delegate ==
    /\ child.phase = "created" /\ Return
    /\ task' = CASE task # "pending" -> task
                 [] Over -> "abandoned"
                 [] ~Over /\ stopEvent -> "cancelled"
                 [] OTHER -> task
    /\ handoff' = (~Over /\ ~stopEvent)
    /\ UNCHANGED <<pc, iteration, log, next, history, result, compacted, late, owner,
                   stop, stopEvent, asked>>

\* /stop: the live turn is signalled and cancelled, waited for up to a bound,
\* and then the user's coding tasks are cancelled.
Signal ==
    /\ stop = "none"
    /\ stop' = "signalled" /\ stopEvent' = ~Over
    /\ UNCHANGED <<runVars, child, task, asked>>

CancelTasks ==
    /\ stop = "signalled" /\ stop' = "done"
    /\ task' = IF task = "pending" THEN "cancelled" ELSE task
    /\ UNCHANGED <<runVars, child, stopEvent, asked>>

\* The chain answers or refuses.
Provider ==
    /\ Serve(Own) \/ Refuse(Own)
    /\ UNCHANGED <<runVars, child, task, stop, stopEvent>>

TurnNext == \/ TurnStep \/ Expire \/ ToolEnds \/ Stage \/ CreateTask \/ Delegate
        \/ Signal \/ CancelTasks \/ Provider

TurnSpec == TurnInit /\ [][TurnNext]_turnVars

-----------------------------------------------------------------------------
TurnTypeOK ==
    /\ pc \in {"chat", "asking", "retrying", "compacting", "recorded", "tools", "child",
               "settle", "over"}
    /\ iteration \in 0..MaxIterations - 1 /\ next \in 1..MaxBatch + 1
    /\ owner \in 1..Length /\ {handoff, compacted, late, stopEvent} \subseteq BOOLEAN
    /\ result \in {"none", "answered", "timed_out", "provider_error", "handoff",
                   "max_iterations", "cancelled"}
    /\ child \in [phase : {"none", "running", "staging", "created", "returned"}, kind : Kinds]
    /\ task \in {"none", "pending", "abandoned", "cancelled"}
    /\ stop \in {"none", "signalled", "done"}

\* Every tool call in the conversation's history has exactly one result, on
\* whatever path the turn ended: providers reject a history where it does not
\* (core.py: _handle_tool_response, _append_missing_timeout_tool_results).
HistoryIsPaired ==
    \A u \in Range(history) : \A i \in DOMAIN u.calls : u.results[i] = 1

\* Once the turn has delegated its work, no tool but a follow-up of the
\* handoff runs in it (core.py: _handle_tool_response).
NothingAfterHandoff == handoff => ChildGone \/ child.kind = "move"

\* A coding task left pending by a turn that is over was announced by that
\* turn, or a stop is on its way to it (app/coding_tasks.py: start_from_tool).
DelegationIsAnswered ==
    Over /\ ChildGone /\ task = "pending" => result = "handoff" \/ stop = "signalled"

\* When a stop has been through and the turn's last tool has returned, no task
\* it created is left to run, whenever the tool created it
\* (tools/coding_tasks.py: start; work_cancellation.py: cancel).
NoDelegationSurvivesStop == stop = "done" /\ ChildGone /\ Over => task # "pending"

=============================================================================
