---------------------------- MODULE RootTranscript ----------------------------
(***************************************************************************)
(* What the root locks (bot/app/root_locks.py) promise of the transcript   *)
(* of a conversation root: one party at a time holds the root, only the    *)
(* holder appends, a party that has left never comes back, and a transcript*)
(* is not erased under a holder that has already written to it.            *)
(* ForegroundTurns implements this.                                        *)
(***************************************************************************)
EXTENDS Integers, Sequences

CONSTANTS Roots, Parties, Nobody

VARIABLES
    holder,      \* who holds the lock of each root
    transcript,  \* the writer of each record, in order
    left         \* parties that gave their root back

vars == <<holder, transcript, left>>

Init ==
    /\ holder = [r \in Roots |-> Nobody]
    /\ transcript = [r \in Roots |-> <<>>]
    /\ left = {}

Writers(log) == {log[i] : i \in 1..Len(log)}

Take(r, p) ==
    /\ holder[r] = Nobody /\ p \notin left
    /\ \A q \in Roots : holder[q] # p
    /\ holder' = [holder EXCEPT ![r] = p]
    /\ UNCHANGED <<transcript, left>>

Write(r) ==
    /\ holder[r] \in Parties
    /\ transcript' = [transcript EXCEPT ![r] = Append(@, holder[r])]
    /\ UNCHANGED <<holder, left>>

Erase(r) ==
    /\ holder[r] \notin Writers(transcript[r])
    /\ transcript' = [transcript EXCEPT ![r] = <<>>]
    /\ UNCHANGED <<holder, left>>

\* A party that never held the root goes away.
Forgo(p) ==
    /\ \A r \in Roots : holder[r] # p
    /\ left' = left \cup {p}
    /\ UNCHANGED <<holder, transcript>>

\* The holder may erase in the step that gives the root back.
Release(r) ==
    /\ holder[r] \in Parties
    /\ holder' = [holder EXCEPT ![r] = Nobody]
    /\ left' = left \cup {holder[r]}
    /\ \/ UNCHANGED transcript
       \/ /\ holder[r] \notin Writers(transcript[r])
          /\ transcript' = [transcript EXCEPT ![r] = <<>>]

Next ==
    \/ \E r \in Roots : \/ \E p \in Parties : Take(r, p)
                        \/ Write(r) \/ Erase(r) \/ Release(r)
    \/ \E p \in Parties : Forgo(p)

Spec == Init /\ [][Next]_vars

\* The records of one turn stand together: an answer never lands between the
\* question and the answer of another turn (app/root_locks.py).
Contiguous ==
    \A r \in Roots : \A i, j, k \in 1..Len(transcript[r]) :
        i < j /\ j < k /\ transcript[r][i] = transcript[r][k]
            => transcript[r][j] = transcript[r][i]

=============================================================================
