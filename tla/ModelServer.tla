---------------------------- MODULE ModelServer ----------------------------
(***************************************************************************)
(* The model server of the machine as scripts/auto_reply_ondevice.py and   *)
(* the processes around it see it: what a state of theirs is, and what     *)
(* they promise of it.  ModelSwap is what they do.                         *)
(***************************************************************************)
EXTENDS Naturals

CONSTANTS
    Swaps,       \* tokens of the swaps a person asks for; each is used once
    Calls,       \* processes that call the resident model
    Flash, Big,  \* the two managed models; a swap is always to Big
    MaxServers,  \* servers started
    MaxLosses    \* lost answers, failed writes and deaths

ASSUME ServerAssumption ==
    /\ Flash # Big
    /\ MaxServers \in Nat
    /\ MaxLosses \in Nat

Models == {Flash, Big}

VARIABLES
    server,     \* the server that listens: its number, what it has loaded, operations it was sent
    loading,    \* servers that were started and do not listen yet
    record,     \* the server this application started, as mlx-app-owned-server.json names it
    launch,     \* by server: the process that started it, and the model
    residency,  \* model-residency.json: what the application says it has loaded
    selection,  \* reply-model.json, as swaps write it
    marker,     \* tokens with a cancel marker
    swap,       \* by token: the step, and the fields of the residency manager
    call,       \* by caller: what was loaded when its request was admitted
    asked       \* history: tokens cancelled before their last look at the marker

-----------------------------------------------------------------------------
(* What must hold *)

(* The server that listens never has the resident model and the big one    *)
(* loaded together, whatever is lost on the way, whichever process dies or *)
(* is started beside it: a swap asks for no load while something is loaded *)
(* or an earlier operation may still take effect.  Only a server that      *)
(* begins to listen in the middle of a swap is excepted; starting and      *)
(* stopping take no lease.                                                 *)
NeverBoth == server.mixed \/ server.loaded # Models

(* A call finds the same models loaded from its admission to its end,      *)
(* unless the server was sent an operation whose sender is gone.           *)
CallsUndisturbed ==
    \A c \in Calls : call[c].on /\ server.up /\ call[c].pid = server.pid /\ ~server.doubt
        => call[c].loaded = server.loaded

(* When a swap has selected the big model on this server it stays loaded:  *)
(* no failed, cancelled or later swap takes it away.                       *)
SelectionIsResident ==
    selection.pid = server.pid /\ server.up /\ ~server.doubt /\ ~server.mixed => Big \in server.loaded

(* A swap cancelled before its last look at the marker, even before it was *)
(* registered, selects nothing.                                            *)
CancelKept == asked \cap selection.by = {}
=============================================================================
