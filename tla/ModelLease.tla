----------------------------- MODULE ModelLease -----------------------------
(***************************************************************************)
(* What the circuit rows promise about the calls of a model: its lease is  *)
(* given to one caller at a time, while nobody calls the model; it serves  *)
(* at most one call; nobody gets it before that call is over, also when    *)
(* the caller died and the call goes on without it.                        *)
(***************************************************************************)
CONSTANTS Models, Callers, Nobody

VARIABLE lease   \* by model: who holds it, and who is calling the model

Free == [holder |-> Nobody, calls |-> {}]
Held(c) == [holder |-> c, calls |-> {}]
Used(c) == [holder |-> c, calls |-> {c}]
Abandoned(c) == [holder |-> c, calls |-> {Nobody}]

Leases == {Free} \cup UNION {{Held(c), Used(c), Abandoned(c)} : c \in Callers}

(* How one lease may move: it is taken, mostly with a call; the call ends,  *)
(* by itself or with the lease; it is left behind by a caller that dies,    *)
(* and keeps the lease until it is over; an unused lease ends.              *)
Moves == UNION {
    {<<Free, Held(c)>>, <<Free, Used(c)>>,
     <<Used(c), Held(c)>>, <<Used(c), Free>>,
     <<Used(c), Abandoned(c)>>, <<Abandoned(c), Held(c)>>,
     <<Held(c), Free>>} : c \in Callers}

Init == lease = [m \in Models |-> Free]

(* Time may move several leases at once.                                   *)
Next ==
    /\ lease' \in [Models -> Leases]
    /\ \A m \in Models : \/ lease'[m] = lease[m]
                         \/ <<lease[m], lease'[m]>> \in Moves

Spec == Init /\ [][Next]_lease
=============================================================================
