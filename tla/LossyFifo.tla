------------------------------ MODULE LossyFifo ------------------------------
(***************************************************************************)
(* What a queue esocket promises about the pointers sent through it: each  *)
(* is handed to the queue's callback at most once, in the order of the     *)
(* sends, and some may be lost on the way without anybody being told.      *)
(***************************************************************************)
EXTENDS Naturals, Sequences

CONSTANTS Queues, Msgs

VARIABLES
    pending,  \* accepted and not handed over, in order
    got,      \* handed to the queue's callback, in order
    used      \* pointers somebody tried to send

vars == <<pending, got, used>>

Init ==
    /\ pending = [q \in Queues |-> <<>>]
    /\ got = [q \in Queues |-> <<>>]
    /\ used = {}

Put(q, m) ==
    /\ m \notin used
    /\ used' = used \cup {m}
    /\ pending' = [pending EXCEPT ![q] = Append(@, m)]
    /\ UNCHANGED got

Reject(m) ==
    /\ m \notin used
    /\ used' = used \cup {m}
    /\ UNCHANGED <<pending, got>>

Without(s, i) == SubSeq(s, 1, i - 1) \o SubSeq(s, i + 1, Len(s))

Lose(q, i) ==
    /\ pending' = [pending EXCEPT ![q] = Without(@, i)]
    /\ UNCHANGED <<got, used>>

Get(q) ==
    /\ pending[q] # <<>>
    /\ got' = [got EXCEPT ![q] = Append(@, Head(pending[q]))]
    /\ pending' = [pending EXCEPT ![q] = Tail(@)]
    /\ UNCHANGED used

Next ==
    \/ \E q \in Queues, m \in Msgs : Put(q, m)
    \/ \E m \in Msgs : Reject(m)
    \/ \E q \in Queues : \E i \in DOMAIN pending[q] : Lose(q, i)
    \/ \E q \in Queues : Get(q)

Spec == Init /\ [][Next]_vars
=============================================================================
