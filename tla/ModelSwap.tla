------------------------------ MODULE ModelSwap ------------------------------
(***************************************************************************)
(* The model server of the machine and the processes around it             *)
(* (scripts/auto_reply_ondevice.py, local_mlx_gateway.py,                  *)
(* mlx_serve_lifecycle.py, the model-swap action of auto-reply-menubar.py  *)
(* and its bridge in desktop/src-tauri/src/python_bridge.rs): calls hold a *)
(* shared lease, a swap holds it alone while it unloads the resident model *)
(* and loads the big one, or restores what was there.  An operation whose  *)
(* answer is lost may take effect later, when nobody waits for it.         *)
(* Launches and stops are processes of their own under no lock.  A server  *)
(* is started before it listens, and ends when it ends: a signal to end it *)
(* may be late, or be lost without a word.                                 *)
(***************************************************************************)
EXTENDS ModelServer, FiniteSets

None == "none"
Pids == 1..MaxServers
Operation == [act : {"load", "unload"}, model : Models, by : Swaps, pid : 0..MaxServers]

VARIABLE faults   \* so far, for the bound

vars == <<server, loading, record, launch, residency, selection, marker, swap, call, asked, faults>>

\* doubt: an operation lost its sender; mixed: it began to listen during a swap.
NoServer == [up |-> FALSE, pid |-> 0, loaded |-> {}, ops |-> {}, doubt |-> FALSE, mixed |-> FALSE]
Ended == [server EXCEPT !.up = FALSE, !.loaded = {}]
NoLaunch == [pc |-> "off", model |-> Flash]
NoResidency == [pid |-> 0, current |-> None, owned |-> {}]
NoSwap == [pc |-> "off", pid |-> 0, previous |-> None, current |-> None, owned |-> {}]
NoCall == [on |-> FALSE, pid |-> 0, loaded |-> {}]

Waiting == {"unloading", "loading", "undoing", "restoring", "retracting"}
Mutating == Waiting \cup {"size", "probe", "persist", "confirm", "write", "rollback", "reprobe", "ending"}
Locked == Mutating \cup {"locked", "ready", "persistAgain", "confirmAgain", "writeAgain"}
Gone == {"done", "dead"}
Steps == Locked \cup Gone \cup {"off", "invoked", "started"}

ServerState == [up : BOOLEAN, pid : 0..MaxServers, loaded : SUBSET Models,
                ops : SUBSET Operation, doubt : BOOLEAN, mixed : BOOLEAN]
SwapState == [pc : Steps, pid : 0..MaxServers, previous : Models \cup {None},
              current : Models \cup {None}, owned : SUBSET Models]

TypeOK ==
    /\ server \in ServerState
    /\ loading \in SUBSET Pids
    /\ record \in [pid : 0..MaxServers, stopping : BOOLEAN]
    /\ launch \in [Pids -> [pc : {"off", "idle", "spawned", "seed", "seen"}, model : Models]]
    /\ residency \in [pid : 0..MaxServers, current : Models \cup {None}, owned : SUBSET Models]
    /\ selection \in [pid : 0..MaxServers, by : SUBSET Swaps]
    /\ marker \in SUBSET Swaps /\ asked \in SUBSET Swaps
    /\ swap \in [Swaps -> SwapState]
    /\ call \in [Calls -> [on : BOOLEAN, pid : 0..MaxServers, loaded : SUBSET Models]]
    /\ faults \in 0..MaxLosses

Init ==
    /\ server = NoServer
    /\ loading = {}
    /\ record = [pid |-> 0, stopping |-> FALSE]
    /\ launch = [p \in Pids |-> NoLaunch]
    /\ residency = NoResidency
    /\ selection = [pid |-> 0, by |-> {}]
    /\ marker = {} /\ asked = {}
    /\ swap = [s \in Swaps |-> NoSwap]
    /\ call = [c \in Calls |-> NoCall]
    /\ faults = 0

At(s, pc) == swap[s].pc = pc
Fault == faults < MaxLosses /\ faults' = faults + 1

-----------------------------------------------------------------------------
(* Servers, and the processes that start and stop them *)

\* An operation takes effect.
Effect(op) ==
    /\ server.up /\ op \in server.ops /\ op.pid = server.pid
    /\ server' = [server EXCEPT !.ops = @ \ {op},
                                !.loaded = IF op.act = "load" THEN @ \cup {op.model} ELSE @ \ {op.model}]
    /\ UNCHANGED <<loading, record, launch, residency, selection, marker, swap, call, asked, faults>>

Step(p, pc) == launch' = [launch EXCEPT ![p].pc = pc]
Elsewhere == UNCHANGED <<residency, selection, marker, swap, call, asked>>

\* Nobody listens, or the reader of the listeners fails: a server is started with a model.
\* One that was started before and does not listen yet is not seen.
Spawn(p, m) ==
    /\ launch[p].pc = "off" /\ \A q \in 1..(p - 1) : launch[q].pc # "off"
    /\ IF server.up THEN Fault ELSE UNCHANGED faults
    /\ loading' = loading \cup {p}
    /\ launch' = [launch EXCEPT ![p] = [pc |-> "spawned", model |-> m]]
    /\ UNCHANGED <<server, record>> /\ Elsewhere

SwapRuns == \E s \in Swaps : swap[s].pc \in Locked

\* It has loaded its model and listens.
Listen(p) ==
    /\ p \in loading /\ ~server.up
    /\ loading' = loading \ {p}
    /\ server' = [up |-> TRUE, pid |-> p, loaded |-> {launch[p].model}, ops |-> server.ops,
                  doubt |-> FALSE, mixed |-> SwapRuns]
    /\ UNCHANGED <<record, launch, faults>> /\ Elsewhere

\* A server ends: it was signalled, found the port taken, failed or was killed.
NotStarted(p) ==
    /\ p \in loading /\ loading' = loading \ {p}
    /\ UNCHANGED <<server, record, launch, faults>> /\ Elsewhere

ServerEnds ==
    /\ server.up
    /\ server' = Ended
    /\ UNCHANGED <<loading, record, launch, faults>> /\ Elsewhere

\* It listens and is ours: the ownership record is written, over any other.
Attest(p) ==
    /\ launch[p].pc = "spawned" /\ server.up /\ server.pid = p
    /\ record' = [record EXCEPT !.pid = p]
    /\ Step(p, "seed")
    /\ UNCHANGED <<server, loading, faults>> /\ Elsewhere

\* The launch runs out of time, cannot attest or record the server, or dies.  A signal to
\* end it may be sent, and errors of sending it are passed over: the server may go on.
GiveUp(p) ==
    /\ launch[p].pc \notin {"off", "idle"} /\ Step(p, "idle")
    /\ UNCHANGED <<server, loading, record, faults>> /\ Elsewhere

\* A launch finds the recorded server listening with its model.
AlreadyRunning(p) ==
    /\ launch[p].pc = "idle" /\ server.up /\ server.pid = p /\ record.pid = p
    /\ Step(p, "seed")
    /\ UNCHANGED <<server, loading, record, faults>> /\ Elsewhere

\* The residency is seeded only if the catalog shows the launched model alone.
ReadCatalog(p) ==
    /\ launch[p].pc = "seed"
    /\ Step(p, IF server.up /\ server.loaded = {launch[p].model} THEN "seen" ELSE "idle")
    /\ UNCHANGED <<server, loading, record, faults>> /\ Elsewhere

Seed(p) ==
    /\ launch[p].pc = "seen" /\ Step(p, "idle")
    /\ residency' = [pid |-> p, current |-> launch[p].model, owned |-> Models]
    /\ UNCHANGED <<server, loading, record, selection, marker, swap, call, asked, faults>>

\* A recorded server that is still ours is signalled; then the record is removed,
\* whatever it holds by now.  The server ends later, if at all.
Stop ==
    /\ ~record.stopping /\ server.up /\ record.pid = server.pid
    /\ record' = [record EXCEPT !.stopping = TRUE]
    /\ UNCHANGED <<server, loading, launch, faults>> /\ Elsewhere

Remove ==
    /\ record.stopping
    /\ record' = [pid |-> 0, stopping |-> FALSE]
    /\ UNCHANGED <<server, loading, launch, faults>> /\ Elsewhere

-----------------------------------------------------------------------------
(* Calls *)

CallRuns == \E c \in Calls : call[c].on

\* The shared lease is taken, or the call fails before it touches the server.
AdmitUnleased(c) ==
    /\ ~call[c].on
    /\ call' = [call EXCEPT ![c] = [on |-> TRUE, pid |-> server.pid, loaded |-> server.loaded]]
    /\ UNCHANGED <<server, loading, record, launch, residency, selection, marker, swap, asked, faults>>

Admit(c) ==
    /\ ~call[c].on /\ ~SwapRuns
    /\ call' = [call EXCEPT ![c] = [on |-> TRUE, pid |-> server.pid, loaded |-> server.loaded]]
    /\ UNCHANGED <<server, loading, record, launch, residency, selection, marker, swap, asked, faults>>

\* The request ends, or its process does; the lease goes with it.
EndCall(c) ==
    /\ call[c].on
    /\ call' = [call EXCEPT ![c] = NoCall]
    /\ UNCHANGED <<server, loading, record, launch, residency, selection, marker, swap, asked, faults>>

-----------------------------------------------------------------------------
(* A swap, up to its first operation *)

Others == <<loading, record, launch, call>>

Goto(s, pc) == swap' = [swap EXCEPT ![s].pc = pc]

\* The person asks for the swap; the bridge has not registered it yet.
Invoke(s) ==
    /\ At(s, "off") /\ Goto(s, "invoked")
    /\ UNCHANGED <<Others, server, residency, selection, marker, asked, faults>>

\* The token is registered and the process started.  A marker that is there stays.
RegisterErasing(s) ==
    /\ At(s, "invoked") /\ Goto(s, "started")
    /\ marker' = marker \ {s}
    /\ UNCHANGED <<Others, server, residency, selection, asked, faults>>

Register(s) ==
    /\ At(s, "invoked") /\ Goto(s, "started")
    /\ UNCHANGED <<Others, server, residency, selection, marker, asked, faults>>

\* Cancelled by the person, by a global abort or by the timeout: a marker is written,
\* also for a token that is not registered yet.  The bridge removes the marker of a
\* process that ended; nobody reads it any more.
Cancel(s) ==
    /\ s \notin marker /\ swap[s].pc \notin Gone \cup {"off"}
    /\ marker' = marker \cup {s}
    /\ asked' = IF swap[s].pc \in {"write", "writeAgain"} THEN asked ELSE asked \cup {s}
    /\ UNCHANGED <<Others, server, residency, selection, swap, faults>>

\* The lease is asked for without waiting.
Acquire(s) ==
    /\ At(s, "started")
    /\ Goto(s, IF SwapRuns \/ CallRuns THEN "done" ELSE "locked")
    /\ UNCHANGED <<Others, server, residency, selection, marker, asked, faults>>

\* The residency is ours, of this server, and what the catalog shows.
Verified ==
    /\ residency.current \in residency.owned
    /\ server.up /\ residency.pid = server.pid
    /\ server.loaded = {residency.current}

Gate(s) ==
    /\ At(s, "locked")
    /\ Verified
    /\ swap' = [swap EXCEPT ![s] = [pc |-> "ready", pid |-> residency.pid, previous |-> residency.current,
                                    current |-> residency.current, owned |-> residency.owned]]
    /\ UNCHANGED <<Others, server, residency, selection, marker, asked, faults>>

\* Not verified, or the file is too old, or the catalog does not answer.
Refuse(s) ==
    /\ At(s, "locked") /\ Goto(s, "done")
    /\ UNCHANGED <<Others, server, residency, selection, marker, asked, faults>>

-----------------------------------------------------------------------------
(* Operations on the server.  An answer that cannot be verified is never   *)
(* taken for an effect, nor for the lack of one.                           *)

Cancelled(s) == s \in marker
Ops(s) == {op \in server.ops : op.by = s}
Ask(s, act, m) ==
    server' = [server EXCEPT !.ops = @ \cup {[act |-> act, model |-> m, by |-> s, pid |-> server.pid]}]
\* The operation was answered, and the catalog shows its effect.
Shows(s, m) == server.up /\ Ops(s) = {} /\ m \in server.loaded
Hides(s, m) == server.up /\ Ops(s) = {} /\ m \notin server.loaded

\* The manager with a model added to what it owns, or dropped.
Owning(s, m, pc) == swap' = [swap EXCEPT ![s] = [swap[s] EXCEPT !.owned = @ \cup {m}, !.pc = pc]]
Dropping(s, m, pc) ==
    swap' = [swap EXCEPT ![s] = [swap[s] EXCEPT !.owned = @ \ {m}, !.current = None, !.pc = pc]]
\* What it takes to be resident.
Knows(s, m, pc) == swap' = [swap EXCEPT ![s] = [swap[s] EXCEPT !.current = m, !.pc = pc]]
Unknown(s, pc) == Knows(s, None, pc)
\* Its operation stays with the server when nobody waits for it.
Doubted(s) == [server EXCEPT !.doubt = @ \/ \E op \in Ops(s) : op.pid = server.pid]
Quiet == UNCHANGED <<Others, residency, selection, marker, asked, faults>>

Unload(s) ==
    /\ At(s, "ready") /\ swap[s].current # Big
    /\ IF Cancelled(s) THEN Goto(s, "done") /\ UNCHANGED server
       ELSE Ask(s, "unload", swap[s].previous) /\ Goto(s, "unloading")
    /\ Quiet

Unloaded(s) ==
    /\ At(s, "unloading") /\ Hides(s, swap[s].previous)
    /\ Dropping(s, swap[s].previous, "size")
    /\ UNCHANGED server /\ Quiet

\* Memory is measured, the marker looked at, and the load asked for.
Load(s) ==
    /\ At(s, "size")
    /\ \/ Goto(s, "rollback") /\ UNCHANGED server
       \/ ~Cancelled(s) /\ Ask(s, "load", Big) /\ Goto(s, "loading")
    /\ Quiet

Loaded(s) ==
    /\ At(s, "loading") /\ Shows(s, Big)
    /\ IF Cancelled(s) THEN Ask(s, "unload", Big) /\ Owning(s, Big, "undoing")
       ELSE UNCHANGED server /\ Owning(s, Big, "probe")
    /\ Quiet

Undo(s, pc) == Ask(s, "unload", Big) /\ Unknown(s, pc)

\* A short generation, with the catalog before and after it.
Probe(s) ==
    /\ At(s, "probe")
    /\ \/ /\ server.up /\ Big \in server.loaded /\ ~Cancelled(s)
          /\ Knows(s, Big, "persist") /\ UNCHANGED server
       \/ Undo(s, "undoing")
    /\ Quiet

Undone(s) ==
    /\ At(s, "undoing") /\ Hides(s, Big)
    /\ Dropping(s, Big, "rollback")
    /\ UNCHANGED server /\ Quiet

\* What was there before is loaded again, if memory allows.
Restore(s) ==
    /\ At(s, "rollback")
    /\ \/ Ask(s, "load", swap[s].previous) /\ Goto(s, "restoring")
       \/ Unknown(s, "ending") /\ UNCHANGED server
    /\ Quiet

Restored(s) ==
    /\ At(s, "restoring") /\ Shows(s, swap[s].previous)
    /\ Owning(s, swap[s].previous, "reprobe")
    /\ UNCHANGED server /\ Quiet

Reprobe(s) ==
    /\ At(s, "reprobe")
    /\ \/ /\ server.up /\ swap[s].previous \in server.loaded
          /\ Knows(s, swap[s].previous, "ending") /\ UNCHANGED server
       \/ Ask(s, "unload", swap[s].previous) /\ Unknown(s, "retracting")
    /\ Quiet

Retracted(s) ==
    /\ At(s, "retracting") /\ Hides(s, swap[s].previous)
    /\ Dropping(s, swap[s].previous, "ending")
    /\ UNCHANGED server /\ Quiet

\* An operation or a probe failed in any way: nothing is retried or rolled back.
LostRolledBack(s) ==
    /\ swap[s].pc \in Waiting \cup {"probe", "reprobe"}
    /\ server' = Doubted(s)
    /\ Unknown(s, IF swap[s].pc \in {"loading", "undoing"} THEN "rollback" ELSE "ending")
    /\ IF server.up /\ (\A op \in Ops(s) : op.pid = server.pid) THEN Fault ELSE UNCHANGED faults
    /\ UNCHANGED <<Others, residency, selection, marker, asked>>

Lost(s) ==
    /\ swap[s].pc \in Waiting \cup {"probe", "reprobe"}
    /\ server' = Doubted(s)
    /\ Unknown(s, "ending")
    /\ IF server.up /\ (\A op \in Ops(s) : op.pid = server.pid) THEN Fault ELSE UNCHANGED faults
    /\ UNCHANGED <<Others, residency, selection, marker, asked>>

-----------------------------------------------------------------------------
(* The end of a swap *)

\* The manager's state goes to the residency file.
Written(s) == [pid |-> swap[s].pid, current |-> swap[s].current, owned |-> swap[s].owned]

\* commit_selection: the residency, a last look at the marker, the selection.
Persist(s) ==
    /\ At(s, "persist")
    /\ \/ residency' = Written(s) /\ Goto(s, "confirm") /\ UNCHANGED <<server, faults>>
       \/ Fault /\ Undo(s, "undoing") /\ UNCHANGED residency
    /\ UNCHANGED <<Others, selection, marker, asked>>

Confirm(s) ==
    /\ At(s, "confirm")
    /\ IF Cancelled(s) THEN Undo(s, "undoing") ELSE Goto(s, "write") /\ UNCHANGED server
    /\ Quiet

WriteThenFail(s) ==
    /\ At(s, "write")
    /\ selection' = [pid |-> server.pid, by |-> selection.by \cup {s}]
    /\ \/ Goto(s, "done") /\ UNCHANGED <<server, faults>>
       \/ Fault /\ Undo(s, "undoing")
    /\ UNCHANGED <<Others, residency, marker, asked>>

Write(s) ==
    /\ At(s, "write")
    /\ \/ selection' = [pid |-> server.pid, by |-> selection.by \cup {s}] /\ Goto(s, "done")
          /\ UNCHANGED <<server, faults>>
       \/ Fault /\ Undo(s, "undoing") /\ UNCHANGED selection
    /\ UNCHANGED <<Others, residency, marker, asked>>

\* A failed swap that touched the server leaves what it knows in the file.
End(s) ==
    /\ At(s, "ending") /\ Goto(s, "done")
    /\ \/ residency' = Written(s) /\ UNCHANGED faults
       \/ Fault /\ UNCHANGED residency
    /\ UNCHANGED <<Others, server, selection, marker, asked>>

\* The big model is resident already: it is probed and selected, and never unloaded.
Again(s) ==
    /\ At(s, "ready") /\ swap[s].current = Big
    /\ \/ ~Cancelled(s) /\ server.up /\ Big \in server.loaded /\ Goto(s, "persistAgain")
       \/ Goto(s, "done")
    /\ UNCHANGED server /\ Quiet

CommitAgain(s) ==
    \/ /\ At(s, "persistAgain")
       /\ \/ residency' = Written(s) /\ Goto(s, "confirmAgain") /\ UNCHANGED faults
          \/ Fault /\ Goto(s, "done") /\ UNCHANGED residency
       /\ UNCHANGED <<Others, server, selection, marker, asked>>
    \/ /\ At(s, "confirmAgain")
       /\ Goto(s, IF Cancelled(s) THEN "done" ELSE "writeAgain")
       /\ UNCHANGED server /\ Quiet
    \/ /\ At(s, "writeAgain") /\ Goto(s, "done")
       /\ \/ selection' = [pid |-> server.pid, by |-> selection.by \cup {s}] /\ UNCHANGED faults
          \/ Fault /\ UNCHANGED selection
       /\ UNCHANGED <<Others, server, residency, marker, asked>>

\* The process is killed after its recovery time, or dies; its lease is released and
\* an operation it was waiting for stays with the server.
Kill(s) ==
    /\ swap[s].pc \in Locked \cup {"started"}
    /\ Fault
    /\ server' = Doubted(s)
    /\ Goto(s, "dead")
    /\ UNCHANGED <<Others, residency, selection, marker, asked>>

Watches(p) == Attest(p) \/ AlreadyRunning(p) \/ ReadCatalog(p) \/ Seed(p) \/ GiveUp(p)
Starts(p) == (\E m \in Models : Spawn(p, m)) \/ NotStarted(p)
Ends == Stop \/ Remove \/ ServerEnds

SwapStep(s) ==
    \/ Invoke(s) \/ Register(s) \/ Cancel(s) \/ Acquire(s) \/ Gate(s) \/ Refuse(s)
    \/ Unload(s) \/ Unloaded(s) \/ Load(s) \/ Loaded(s) \/ Probe(s) \/ Undone(s)
    \/ Restore(s) \/ Restored(s) \/ Reprobe(s) \/ Retracted(s) \/ Lost(s)
    \/ Persist(s) \/ Confirm(s) \/ Write(s) \/ End(s) \/ Again(s) \/ CommitAgain(s) \/ Kill(s)

Next ==
    \/ \E op \in server.ops : Effect(op)
    \/ \E p \in Pids : Starts(p) \/ Listen(p) \/ Watches(p)
    \/ Ends
    \/ \E c \in Calls : Admit(c) \/ EndCall(c)
    \/ \E s \in Swaps : SwapStep(s)

Spec == Init /\ [][Next]_vars
=============================================================================
