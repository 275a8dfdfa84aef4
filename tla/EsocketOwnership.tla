--------------------------- MODULE EsocketOwnership ---------------------------
(***************************************************************************)
(* What the reactor promises about an event socket, without its tables and *)
(* queues: at any moment it is with the application that wrapped it, on    *)
(* the way to one worker, owned by one worker, lost by a full queue, or    *)
(* gone.  Only its owner may close it or send it on, and gone is final.    *)
(***************************************************************************)
CONSTANTS Workers, Esockets, NoWorker

VARIABLE place

At(where, w) == [where |-> where, worker |-> w]

New       == At("new", NoWorker)
Transit(w) == At("transit", w)
Owned(w)  == At("owned", w)
Lost      == At("lost", NoWorker)
Gone      == At("gone", NoWorker)

Places == {New, Lost, Gone} \cup {Transit(w) : w \in Workers}
                            \cup {Owned(w) : w \in Workers}

OwnershipTypeOK == place \in [Esockets -> Places]

Init == place = [e \in Esockets |-> New]

\* The application, or the present owner, sends e to worker w.
SendTo(e, w) ==
    /\ place[e] = New \/ \E v \in Workers : place[e] = Owned(v)
    /\ \E p \in {Transit(w), Lost} : place' = [place EXCEPT ![e] = p]

Arrive(e, w) ==
    /\ place[e] = Transit(w)
    /\ place' = [place EXCEPT ![e] = Owned(w)]

\* An owner closes some of its esockets.
Close(w, E) ==
    /\ \A e \in E : place[e] = Owned(w)
    /\ place' = [e \in Esockets |-> IF e \in E THEN Gone ELSE place[e]]

Next ==
    \/ \E e \in Esockets, w \in Workers : SendTo(e, w) \/ Arrive(e, w)
    \/ \E w \in Workers, E \in SUBSET Esockets : Close(w, E)

Spec == Init /\ [][Next]_place
=============================================================================
