---------------------------- MODULE SendLicence ----------------------------
(***************************************************************************)
(* What the reply queue promises about sending, one state machine per      *)
(* inbound message: a send is licensed only while the message is open, a   *)
(* licence is used at most once, a licence handed back unused reopens the  *)
(* message, and a message that a newer one replaced is only ever closed.   *)
(***************************************************************************)
CONSTANT Events

VARIABLE licence

Phases == {"open", "withdrawn", "live", "answered", "closed"}

(* How one message may move.  `live': a send is under way; from there it is *)
(* posted, handed back before anything was touched, or its fate is unknown. *)
Moves ==
    {<<"open", "live">>, <<"open", "withdrawn">>, <<"open", "closed">>,
     <<"withdrawn", "closed">>,
     <<"live", "answered">>, <<"live", "open">>, <<"live", "closed">>}

Init == licence = [e \in Events |-> "open"]

(* Recovery may move several messages at once.                             *)
Next ==
    /\ licence' \in [Events -> Phases]
    /\ \A e \in Events : \/ licence'[e] = licence[e]
                         \/ <<licence[e], licence'[e]>> \in Moves

Spec == Init /\ [][Next]_licence
=============================================================================
