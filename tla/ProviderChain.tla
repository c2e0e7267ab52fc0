--------------------------- MODULE ProviderChain ---------------------------
(***************************************************************************)
(* What a provider chain promises its callers: a call asked from backend i *)
(* on is answered once, by backend i or a later one, or fails, unless its  *)
(* caller drops it.  ProviderFailover implements this; AgentTurn relies on *)
(* nothing more.                                                           *)
(***************************************************************************)
EXTENDS Integers

CONSTANTS Callers, Length

ASSUME LengthAssumption == Length \in Nat \ {0}

VARIABLE asked   \* each caller's last call

ChainInit == asked = [c \in Callers |-> [state |-> "idle", at |-> 1]]

\* at is the backend asked first, and then the one that answered.
Ask(c, i) ==
    /\ asked[c].state # "open"
    /\ asked' = [asked EXCEPT ![c] = [state |-> "open", at |-> i]]

Serve(c) ==
    /\ asked[c].state = "open"
    /\ \E j \in asked[c].at..Length :
          asked' = [asked EXCEPT ![c] = [state |-> "served", at |-> j]]

Refuse(c) ==
    /\ asked[c].state = "open"
    /\ asked' = [asked EXCEPT ![c] = [state |-> "failed", at |-> 1]]

\* Every circuit of the chain may be open: a call can fail as it is made.
AskInVain(c) ==
    /\ asked[c].state # "open"
    /\ asked' = [asked EXCEPT ![c] = [state |-> "failed", at |-> 1]]

\* The callers of a set drop their calls, all of them when a process dies.
Drop(callers) ==
    asked' = [c \in Callers |-> IF c \in callers THEN [state |-> "idle", at |-> 1] ELSE asked[c]]

ChainNext ==
    \/ \E c \in Callers : \/ Serve(c) \/ Refuse(c) \/ AskInVain(c)
                          \/ \E i \in 1..Length : Ask(c, i)
    \/ \E callers \in SUBSET Callers : Drop(callers)

ChainSpec == ChainInit /\ [][ChainNext]_asked

=============================================================================
