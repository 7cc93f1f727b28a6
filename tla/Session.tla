------------------------------ MODULE Session -------------------------------
(***************************************************************************)
(* The hand-over of one room between runs of the program.  Every run has a *)
(* host (openkakao auto-reply, src/src/main.rs), a supervisor, a watcher   *)
(* of the chat database and a reply worker (src/scripts).  A run decides   *)
(* from the files the run before left where it starts reading, and every   *)
(* write of those files is fenced by the supervisor's published status.    *)
(* The generation of a run stands for its owner id and its epoch.          *)
(***************************************************************************)
EXTENDS Integers, FiniteSets

CONSTANTS
    MaxGen,      \* runs of the program
    MaxRow,      \* bound of the messages in the room
    MaxFaults    \* bound of the processes that die of themselves

ASSUME BoundsAssumption == {MaxGen, MaxRow, MaxFaults} \subseteq Nat /\ MaxRow > 0

Gens == 1..MaxGen
Rows == 1..MaxRow
NoState == [owner |-> 0, floor |-> 0, acked |-> 0, pend |-> 0,
            phase |-> "idle", cap |-> "none", gaps |-> FALSE]
NoAuthority == [kind |-> "none", floor |-> 0, prior |-> 0]

VARIABLES
    rows,      \* the last message of the room
    job,       \* reply queue: what became of each message
    lock,      \* flocks: the host lock and the room's supervisor lock
    enrolled,  \* enrollment.json: generation and cursor authority
    status,    \* supervisor-status.json
    disk,      \* db-watch-state.json
    host,      \* pc and the authority it attested
    sup,       \* pc, signal received, clean shutdown intent
    watch,     \* pc, the state in memory, the state before the poll
    worker,    \* is the reply worker running
    faults,    \* deaths so far
    killed     \* history: generations whose supervisor was killed alone

vars == <<rows, job, lock, enrolled, status, disk, host, sup, watch, worker,
          faults, killed>>

State == [owner : 0..MaxGen, floor : 0..MaxRow, acked : 0..MaxRow, pend : 0..MaxRow,
          phase : {"idle", "hooking", "acknowledging"},
          cap : {"none", "starting", "ready", "retry", "fenced", "stopped_clean"},
          gaps : BOOLEAN]
Authority == [kind : {"none", "fresh", "leftover", "replay"}, floor : 0..MaxRow,
              prior : 0..MaxGen]

TypeOK ==
    /\ rows \in 0..MaxRow
    /\ job \in [Rows -> {"none", "open", "unknown", "done"}]
    /\ lock \in [host : 0..MaxGen, room : 0..MaxGen]
    /\ enrolled \in [gen : 0..MaxGen, auth : Authority]
    /\ status \in [owner : 0..MaxGen, exited : BOOLEAN, clean : BOOLEAN,
                   state : {"none", "running", "fenced", "stopping", "stopped"}]
    /\ disk \in State /\ disk.floor <= disk.acked
    /\ host \in [Gens -> [pc : {"new", "attest", "enroll", "spawn", "up", "stopping", "gone"},
                          auth : Authority]]
    /\ sup \in [Gens -> [pc : {"none", "start", "locked", "published", "up", "fenced",
                               "intent", "reap", "mark", "last", "gone"},
                         signal : BOOLEAN, intent : -1..MaxRow, clean : BOOLEAN]]
    /\ watch \in [Gens -> [pc : {"none", "load", "run", "save", "write", "publish", "hook",
                                 "ack", "advance", "fail", "gone"},
                           mem : State, prev : State]]
    /\ worker \in [Gens -> BOOLEAN]
    /\ faults \in 0..MaxFaults
    /\ killed \subseteq Gens

Init ==
    /\ rows \in 0..1
    /\ job = [r \in Rows |-> "none"]
    /\ lock = [host |-> 0, room |-> 0]
    /\ enrolled = [gen |-> 0, auth |-> NoAuthority]
    /\ status = [owner |-> 0, state |-> "none", exited |-> FALSE, clean |-> FALSE]
    /\ disk = NoState
    /\ host = [g \in Gens |-> [pc |-> "new", auth |-> NoAuthority]]
    /\ sup = [g \in Gens |-> [pc |-> "none", signal |-> FALSE, intent |-> -1, clean |-> FALSE]]
    /\ watch = [g \in Gens |-> [pc |-> "none", mem |-> NoState, prev |-> NoState]]
    /\ worker = [g \in Gens |-> FALSE]
    /\ faults = 0
    /\ killed = {}

NoUnknown == \A r \in Rows : job[r] # "unknown"
NoneOpen == \A r \in Rows : job[r] # "open"
AllTerminal == \A r \in Rows : job[r] \in {"none", "done"}

\* The generation lock is held over the two writes of an acknowledgement;
\* publications, acknowledgements, fences and status writes wait for it.
GenerationFree == \A g \in Gens : watch[g].pc # "advance"

ChildrenGone(g) == watch[g].pc \in {"none", "gone"} /\ ~worker[g]
SupGone(g) == sup[g].pc \in {"none", "gone"}

-----------------------------------------------------------------------------
(* The host *)

\* The supervisor's status looks alive, or proves that it stopped uncleanly
\* or cleanly.
Live == status.state \in {"running", "stopping"} /\ ~status.exited
Terminal == status.state = "stopped" /\ ~status.clean /\ status.exited
CleanProof == status.state = "stopped" /\ status.clean /\ status.exited
                  /\ status.owner = disk.owner

\* What is left of the run before can be taken up at its last acknowledgement.
IsLeftover ==
    /\ disk.acked \in 1..rows
    /\ NoUnknown
    /\ \/ Live
       \/ /\ Terminal
          /\ \/ disk.cap \in {"ready", "starting"}
             \/ disk.cap \in {"fenced", "retry"} /\ disk.phase \in {"idle", "hooking"}

IsStoppedClean ==
    /\ disk.cap = "stopped_clean" /\ disk.pend = 0 /\ ~disk.gaps
    /\ CleanProof /\ AllTerminal
    /\ disk.acked <= rows

\* The cursor authority a new run may claim; none if it needs reconciliation.
Attested ==
    IF disk.cap = "none"
    THEN IF enrolled.gen = 0 THEN {[kind |-> "fresh", floor |-> rows, prior |-> 0]} ELSE {}
    ELSE {a \in {[kind |-> k, floor |-> disk.acked, prior |-> disk.owner] :
                     k \in {"leftover", "replay"}} :
             (a.kind = "leftover" /\ IsLeftover) \/ (a.kind = "replay" /\ IsStoppedClean)}

HostGoes(g, pc) == host' = [host EXCEPT ![g].pc = pc]
HostRest == <<rows, job, enrolled, status, disk, faults, killed>>
Children == <<sup, watch, worker>>

HostStart(g) ==
    /\ host[g].pc = "new" /\ lock.host = 0
    /\ \A h \in 1..(g - 1) : host[h].pc # "new"
    /\ HostGoes(g, "attest")
    /\ lock' = [lock EXCEPT !.host = g]
    /\ UNCHANGED <<HostRest, Children>>

Attest(g) ==
    /\ host[g].pc = "attest"
    /\ \E a \in Attested : host' = [host EXCEPT ![g] = [pc |-> "enroll", auth |-> a]]
    /\ UNCHANGED <<lock, HostRest, Children>>

Refuse(g) ==
    /\ host[g].pc = "attest" /\ Attested = {}
    /\ HostGoes(g, "gone")
    /\ lock' = [lock EXCEPT !.host = 0]
    /\ UNCHANGED <<HostRest, Children>>

Enroll(g) ==
    /\ host[g].pc = "enroll"
    /\ enrolled' = [gen |-> g, auth |-> host[g].auth]
    /\ HostGoes(g, "spawn")
    /\ UNCHANGED <<lock, rows, job, status, disk, faults, killed, Children>>

Spawn(g) ==
    /\ host[g].pc = "spawn"
    /\ HostGoes(g, "up")
    /\ sup' = [sup EXCEPT ![g].pc = "start"]
    /\ UNCHANGED <<lock, HostRest, watch, worker>>

\* The user's signal, or the exit of the supervisor: SIGTERM to the group.
\* The supervisor's handler only sets a flag; its children die, the worker
\* perhaps later.
HostStop(g) ==
    /\ host[g].pc = "up"
    /\ HostGoes(g, "stopping")
    /\ sup' = [sup EXCEPT ![g].pc = IF @ = "start" THEN "gone" ELSE @, ![g].signal = TRUE]
    /\ watch' = [watch EXCEPT ![g].pc = IF @ = "none" THEN @ ELSE "gone"]
    /\ \E w \in {FALSE, worker[g]} : worker' = [worker EXCEPT ![g] = w]
    /\ UNCHANGED <<lock, HostRest>>

Killed(g) ==
    /\ sup' = [sup EXCEPT ![g].pc = "gone"]
    /\ watch' = [watch EXCEPT ![g].pc = IF @ = "none" THEN @ ELSE "gone"]
    /\ worker' = [worker EXCEPT ![g] = FALSE]

Released(g) == [host |-> IF lock.host = g THEN 0 ELSE lock.host,
                room |-> IF lock.room = g THEN 0 ELSE lock.room]

\* After three seconds SIGKILL to what is left of the group.
HostKill(g) ==
    /\ host[g].pc = "stopping" /\ ~(SupGone(g) /\ ChildrenGone(g))
    /\ Killed(g)
    /\ lock' = [Released(g) EXCEPT !.host = g]
    /\ UNCHANGED <<host, HostRest>>

HostEnd(g) ==
    /\ host[g].pc = "stopping" /\ SupGone(g) /\ ChildrenGone(g)
    /\ HostGoes(g, "gone")
    /\ lock' = [lock EXCEPT !.host = 0]
    /\ UNCHANGED <<HostRest, Children>>

-----------------------------------------------------------------------------
(* The supervisor *)

SupGoes(g, pc) == sup' = [sup EXCEPT ![g].pc = pc]
SupRest == <<rows, job, enrolled, host, faults, killed>>
Publish(g, state, clean) ==
    status' = [owner |-> g, state |-> state, clean |-> clean,
               exited |-> watch[g].pc = "gone" /\ ~worker[g]]

AcquireOwnerUnlocked(g) ==
    /\ sup[g].pc = "start"
    /\ SupGoes(g, "locked")
    /\ lock' = [lock EXCEPT !.room = g]
    /\ UNCHANGED <<SupRest, status, disk, watch, worker>>

\* One supervisor for the room: a second one exits.
AcquireOwner(g) ==
    /\ sup[g].pc = "start"
    /\ IF lock.room = 0
       THEN SupGoes(g, "locked") /\ lock' = [lock EXCEPT !.room = g]
       ELSE SupGoes(g, "gone") /\ UNCHANGED lock
    /\ UNCHANGED <<SupRest, status, disk, watch, worker>>

\* The new owner is published before its children can write.
PublishRunning(g) ==
    /\ sup[g].pc = "locked" /\ GenerationFree
    /\ SupGoes(g, "published")
    /\ Publish(g, "running", FALSE)
    /\ UNCHANGED <<SupRest, lock, disk, watch, worker>>

StartChildren(g) ==
    /\ sup[g].pc = "published"
    /\ SupGoes(g, "up")
    /\ watch' = [watch EXCEPT ![g].pc = "load"]
    /\ worker' = [worker EXCEPT ![g] = TRUE]
    /\ UNCHANGED <<SupRest, lock, status, disk>>

\* A child that exits ends the run: the status says so, then the stop begins.
FenceOnExit(g) ==
    /\ sup[g].pc = "up" /\ ~sup[g].signal /\ GenerationFree
    /\ watch[g].pc = "gone" \/ ~worker[g]
    /\ SupGoes(g, "fenced")
    /\ Publish(g, "fenced", FALSE)
    /\ UNCHANGED <<SupRest, lock, disk, watch, worker>>

StopSupervisor(g) ==
    /\ sup[g].pc = "fenced" \/ (sup[g].pc = "up" /\ sup[g].signal)
    /\ GenerationFree
    /\ SupGoes(g, IF sup[g].pc = "up" THEN "intent" ELSE "reap")
    /\ Publish(g, "stopping", FALSE)
    /\ UNCHANGED <<SupRest, lock, disk, watch, worker>>

CleanForStop(g, caps) ==
    /\ disk.owner = g /\ disk.cap \in caps /\ disk.pend = 0
    /\ disk.phase = "idle" /\ ~disk.gaps
    /\ AllTerminal

\* The stop is to be clean if the cursor and the queue are now.
CaptureIntent(g) ==
    /\ sup[g].pc = "intent" /\ GenerationFree
    /\ sup' = [sup EXCEPT ![g].pc = "reap",
                          ![g].intent = IF CleanForStop(g, {"ready"}) THEN disk.acked ELSE -1]
    /\ UNCHANGED <<SupRest, lock, status, disk, watch, worker>>

ReapChildren(g) ==
    /\ sup[g].pc = "reap"
    /\ SupGoes(g, "mark")
    /\ watch' = [watch EXCEPT ![g].pc = "gone"]
    /\ worker' = [worker EXCEPT ![g] = FALSE]
    /\ UNCHANGED <<SupRest, lock, status, disk>>

\* After the children are gone the proof is taken again.
MarkStoppedClean(g) ==
    LET clean == sup[g].intent = disk.acked /\ CleanForStop(g, {"ready", "retry"})
    IN  /\ sup[g].pc = "mark" /\ GenerationFree
        /\ sup' = [sup EXCEPT ![g].pc = "last", ![g].clean = clean]
        /\ disk' = IF clean THEN [disk EXCEPT !.cap = "stopped_clean"] ELSE disk
        /\ UNCHANGED <<SupRest, lock, status, watch, worker>>

PublishStopped(g) ==
    /\ sup[g].pc = "last" /\ GenerationFree
    /\ SupGoes(g, "gone")
    /\ Publish(g, "stopped", sup[g].clean)
    /\ lock' = [lock EXCEPT !.room = 0]
    /\ UNCHANGED <<SupRest, disk, watch, worker>>

-----------------------------------------------------------------------------
(* The watcher *)

StatusMatches(g) == status.owner = g /\ status.state = "running"

AdoptedNewest(g, s) ==
    IF s.cap = "none" \/ s.owner = g THEN s
    ELSE [NoState EXCEPT !.owner = g, !.floor = rows, !.acked = rows, !.cap = "starting"]

\* _state: a state of an earlier owner is taken over only with the authority
\* this run enrolled for exactly its last acknowledgement; anything else that
\* does not fit is fenced for reconciliation and keeps its owner.
Adopted(g, s) ==
    LET auth == enrolled.auth
        mine == enrolled.gen = g
        takeover ==
            /\ mine /\ auth.floor = s.acked
            /\ IF s.cap = "stopped_clean"
               THEN /\ auth.kind = "replay" /\ auth.prior = s.owner
                    /\ s.pend = 0 /\ ~s.gaps
               ELSE auth.kind = "leftover" /\ s.acked > 0
        at(n) == [NoState EXCEPT !.owner = g, !.floor = n, !.acked = n, !.cap = "starting"]
        invalid(t) == [t EXCEPT !.cap = "fenced", !.gaps = TRUE, !.phase = "idle"]
    IN  IF s.cap = "none"
        THEN IF mine /\ auth.kind = "fresh" THEN at(auth.floor)
             ELSE invalid(at(host[g].auth.floor))
        ELSE IF s.owner # g
             THEN IF takeover THEN at(s.acked) ELSE invalid(s)
        ELSE IF mine /\ ~s.gaps THEN s ELSE invalid(s)

WatchRest == <<rows, lock, enrolled, status, host, sup, worker, faults, killed>>
WatchGoes(g, pc) == watch' = [watch EXCEPT ![g].pc = pc]
Holds(g, pc, mem) == watch' = [watch EXCEPT ![g].pc = pc, ![g].mem = mem]

Load(g) ==
    /\ watch[g].pc = "load"
    /\ LET s == Adopted(g, disk)
       IN watch' = [watch EXCEPT ![g] = [pc |-> IF s.gaps THEN "fail" ELSE "save",
                                         mem |-> s, prev |-> s]]
    /\ UNCHANGED <<WatchRest, job, disk>>

\* A poll validates the state and the owner again.  It may meet a transient
\* failure; otherwise it brings the messages after the cursor.
Poll(g) ==
    LET s == Adopted(g, watch[g].mem)
        ready == [s EXCEPT !.cap = "ready"]
    IN  /\ watch[g].pc = "run"
        /\ IF s.gaps \/ ~StatusMatches(g)
           THEN watch' = [watch EXCEPT ![g].pc = "fail", ![g].prev = s]
           ELSE \/ watch' = [watch EXCEPT ![g] = [pc |-> "save", prev |-> s,
                                                  mem |-> [s EXCEPT !.cap = "retry"]]]
                \/ watch' = [watch EXCEPT ![g] =
                       [pc |-> IF s.acked < rows THEN "publish" ELSE "save",
                        prev |-> s, mem |-> ready]]
        /\ UNCHANGED <<WatchRest, job, disk>>

\* An ordinary save checks the status, then writes: no lock over both.
Save(g) ==
    /\ watch[g].pc = "save"
    /\ WatchGoes(g, IF StatusMatches(g) THEN "write" ELSE "fail")
    /\ UNCHANGED <<WatchRest, job, disk>>

Write(g) ==
    /\ watch[g].pc = "write"
    /\ disk' = watch[g].mem
    /\ WatchGoes(g, "run")
    /\ UNCHANGED <<WatchRest, job>>

\* Phase A: the candidate is on disk before its hook runs.
PublishCandidate(g) ==
    LET s == [watch[g].mem EXCEPT !.pend = watch[g].mem.acked + 1, !.phase = "hooking"]
    IN  /\ watch[g].pc = "publish" /\ GenerationFree
        /\ IF StatusMatches(g) THEN Holds(g, "hook", s) /\ disk' = s
           ELSE WatchGoes(g, "fail") /\ UNCHANGED disk
        /\ UNCHANGED <<WatchRest, job>>

\* The hook enqueues the message once, or finds nothing to answer in it; a
\* busy queue has done nothing; any other failure leaves it open whether the
\* message was enqueued.
Hook(g) ==
    LET r == watch[g].mem.pend
        Enqueue == \/ job[r] = "none" /\ \E j \in {"open", "done"} : job' = [job EXCEPT ![r] = j]
                   \/ job[r] # "none" /\ UNCHANGED job
    IN  /\ watch[g].pc = "hook"
        /\ \/ Enqueue /\ WatchGoes(g, "ack")
           \/ UNCHANGED job /\ Holds(g, "save", [watch[g].mem EXCEPT
                                 !.pend = 0, !.phase = "idle", !.cap = "retry"])
           \/ /\ Enqueue \/ UNCHANGED job
              /\ watch' = [watch EXCEPT ![g].pc = "fail", ![g].prev = disk]
        /\ UNCHANGED <<WatchRest, disk>>

\* Phase C: owner and candidate must still be those of Phase A on disk.
Acknowledge(g) ==
    LET s == Adopted(g, disk)
    IN  /\ watch[g].pc = "ack" /\ GenerationFree
        /\ IF /\ StatusMatches(g) /\ s.owner = g /\ ~s.gaps
              /\ s.phase = "hooking" /\ s.pend = watch[g].mem.pend
           THEN /\ disk' = [s EXCEPT !.phase = "acknowledging"]
                /\ Holds(g, "advance", disk')
           ELSE WatchGoes(g, "fail") /\ UNCHANGED disk
        /\ UNCHANGED <<WatchRest, job>>

AdvanceCursor(g) ==
    LET s == [watch[g].mem EXCEPT !.acked = watch[g].mem.pend, !.pend = 0, !.phase = "idle"]
    IN  /\ watch[g].pc = "advance"
        /\ disk' = s
        /\ \E more \in {FALSE, s.acked < rows} : Holds(g, IF more THEN "publish" ELSE "save", s)
        /\ UNCHANGED <<WatchRest, job>>

\* A failure fences the state as it was before the poll, and ends the watcher.
Fail(g) ==
    LET s == Adopted(g, watch[g].prev)
    IN  /\ watch[g].pc = "fail" /\ GenerationFree
        /\ disk' = IF StatusMatches(g) /\ s.owner = g THEN [s EXCEPT !.cap = "fenced"] ELSE disk
        /\ WatchGoes(g, "gone")
        /\ UNCHANGED <<WatchRest, job>>

-----------------------------------------------------------------------------
(* The worker, the room, and what may go wrong *)

\* A worker takes a message; until it is settled nobody knows whether it was
\* sent.  A later worker settles what an earlier one left.
Work(g) ==
    /\ worker[g]
    /\ \E r \in Rows :
          \/ job[r] = "open" /\ job' = [job EXCEPT ![r] = "unknown"]
          \/ job[r] = "unknown" /\ job' = [job EXCEPT ![r] = "done"]
    /\ UNCHANGED <<rows, lock, enrolled, status, disk, host, sup, watch, worker, faults, killed>>

Arrive ==
    /\ rows < MaxRow /\ rows' = rows + 1
    /\ UNCHANGED <<job, lock, enrolled, status, disk, host, Children, faults, killed>>

\* The user ends a supervisor whose host is gone.
SignalOrphan(g) ==
    /\ host[g].pc = "gone" /\ ~SupGone(g) /\ ~sup[g].signal
    /\ sup' = [sup EXCEPT ![g].pc = IF @ = "start" THEN "gone" ELSE @, ![g].signal = TRUE]
    /\ UNCHANGED <<HostRest, lock, host, watch, worker>>

Fault == faults < MaxFaults /\ faults' = faults + 1

HostDies(g) ==
    /\ host[g].pc \notin {"new", "gone"} /\ Fault
    /\ HostGoes(g, "gone")
    /\ lock' = [lock EXCEPT !.host = 0]
    /\ UNCHANGED <<rows, job, enrolled, status, disk, killed, Children>>

SupervisorDies(g) ==
    /\ ~SupGone(g) /\ Fault
    /\ SupGoes(g, "gone")
    /\ killed' = killed \cup {g}
    /\ lock' = [Released(g) EXCEPT !.host = lock.host]
    /\ UNCHANGED <<rows, job, enrolled, status, disk, host, watch, worker>>

ChildDies(g) ==
    /\ ~ChildrenGone(g) /\ Fault
    /\ \/ watch' = [watch EXCEPT ![g].pc = "gone"] /\ UNCHANGED worker
       \/ worker' = [worker EXCEPT ![g] = FALSE] /\ UNCHANGED watch
    /\ UNCHANGED <<rows, job, lock, enrolled, status, disk, host, sup, killed>>

-----------------------------------------------------------------------------
Host(g) ==
    \/ Attest(g) \/ Refuse(g) \/ Enroll(g) \/ Spawn(g) \/ HostKill(g) \/ HostEnd(g)

Supervisor(g) ==
    \/ AcquireOwner(g) \/ PublishRunning(g) \/ StartChildren(g) \/ FenceOnExit(g)
    \/ StopSupervisor(g) \/ CaptureIntent(g) \/ ReapChildren(g) \/ MarkStoppedClean(g)
    \/ PublishStopped(g)

Watcher(g) ==
    \/ Load(g) \/ Poll(g) \/ Save(g) \/ Write(g) \/ PublishCandidate(g) \/ Hook(g)
    \/ Acknowledge(g) \/ AdvanceCursor(g) \/ Fail(g)

Next ==
    \/ \E g \in Gens :
          \/ HostStart(g) \/ HostStop(g) \/ Host(g) \/ Supervisor(g) \/ Watcher(g) \/ Work(g)
          \/ SignalOrphan(g) \/ HostDies(g) \/ SupervisorDies(g) \/ ChildDies(g)
    \/ Arrive

\* Running processes run on; nothing makes the user start or stop one, and
\* only a supervisor that ended makes its host stop.
Fairness ==
    \A g \in Gens :
        /\ WF_vars(Host(g)) /\ WF_vars(Supervisor(g)) /\ WF_vars(Watcher(g))
        /\ WF_vars(SupGone(g) /\ HostStop(g))

Spec == Init /\ [][Next]_vars
FairSpec == Spec /\ Fairness

-----------------------------------------------------------------------------
(* Properties *)

(* No message is passed over: since the first run of the room every message  *)
(* up to a cursor, on disk or in a watcher's memory, has gone through the    *)
(* queue, whatever runs and deaths lie between.  Only a run that finds       *)
(* neither state nor enrollment takes its floor from the room itself.        *)
FreshFloors == {host[g].auth.floor : g \in {h \in Gens : host[h].auth.kind = "fresh"}}
NothingSkipped ==
    \A s \in {disk} \cup {watch[g].mem : g \in Gens} :
        \A r \in 1..s.acked : job[r] # "none" \/ \E floor \in FreshFloors : r <= floor

(* A run that takes up a clean stop finds every message of the queue settled *)
(* and nobody of another run who could add to it, unless a supervisor was    *)
(* killed alone: not when it was attested, but when its watcher takes over.  *)
TakesUp(g) == Load(g) /\ disk.cap = "stopped_clean" /\ watch'[g].pc = "save"
ReplayIsDrained ==
    [][\A g \in Gens :
          TakesUp(g) /\ killed = {}
          => /\ \A r \in Rows : job[r] \in {"none", "done"}
             /\ \A h \in Gens \ {g} : ChildrenGone(h)]_vars

(* Two workers of a room never run together, unless the supervisor of one    *)
(* was killed alone and left its worker behind.                              *)
OneWorker ==
    \A g, h \in Gens : worker[g] /\ worker[h] /\ g # h => {g, h} \cap killed # {}

(* The owner of the room's state never goes back to an earlier run, unless a *)
(* supervisor was killed alone: a watcher that outlives its run cannot       *)
(* write.                                                                    *)
OwnerAdvances == [][killed = {} => disk'.owner >= disk.owner]_vars

(* A stop ends: the host leaves with nothing of its group behind it.         *)
StopEnds ==
    \A g \in Gens :
        host[g].pc = "stopping" ~> host[g].pc = "gone"

(* Stated of the watcher: no save replaces the owner of a room's state.      *)
OwnerNotReplaced == [][disk'.owner >= disk.owner]_vars

(* Stated of the host: what an interrupted start leaves can be resumed.      *)
ResumableStarts ==
    \A g \in Gens :
        /\ host[g].pc = "attest"
        /\ \A h \in Gens : SupGone(h) /\ ChildrenGone(h)
        => Attested # {}
=============================================================================
