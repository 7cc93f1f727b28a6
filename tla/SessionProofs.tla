---------------------------- MODULE SessionProofs ----------------------------
(***************************************************************************)
(* The hand-over, for every number of runs, messages and deaths: no two    *)
(* workers of a room together, an owner of the room's state that never     *)
(* goes back, no message passed over, and nothing left to do after a clean *)
(* stop.  The first two rest on the two locks: whoever is past             *)
(* AcquireOwner holds the lock of the room, and a child runs only under    *)
(* such a supervisor or under one that was killed alone.  The others       *)
(* follow the cursor through every state the watchers hold and write.      *)
(***************************************************************************)
EXTENDS Session, TLAPS

StateI == [owner : Int, floor : Int, acked : Int, pend : Int,
           phase : {"idle", "hooking", "acknowledging"},
           cap : {"none", "starting", "ready", "retry", "fenced", "stopped_clean"},
           gaps : BOOLEAN]
AuthorityI == [kind : {"none", "fresh", "leftover", "replay"}, floor : Int, prior : Int]
HostPc == {"new", "attest", "enroll", "spawn", "up", "stopping", "gone"}
SupPc == {"none", "start", "locked", "published", "up", "fenced", "intent", "reap",
          "mark", "last", "gone"}
WatchPc == {"none", "load", "run", "save", "write", "publish", "hook", "ack", "advance",
            "fail", "gone"}

\* The type invariant without its bounds, which no argument below needs.
Shape ==
    /\ rows \in Int
    /\ lock \in [host : Int, room : Int]
    /\ enrolled \in [gen : Int, auth : AuthorityI]
    /\ disk \in StateI
    /\ host \in [Gens -> [pc : HostPc, auth : AuthorityI]]
    /\ sup \in [Gens -> [pc : SupPc, signal : BOOLEAN, intent : Int, clean : BOOLEAN]]
    /\ watch \in [Gens -> [pc : WatchPc, mem : StateI, prev : StateI]]
    /\ worker \in [Gens -> BOOLEAN]

\* The host lock serialises the starts; the runs enroll in their order.
HostOK ==
    \A g \in Gens :
        /\ host[g].pc \in {"attest", "enroll", "spawn", "up", "stopping"} => lock.host = g
        /\ host[g].pc \in {"new", "attest", "enroll"} => enrolled.gen < g
        /\ host[g].pc \in {"spawn", "up", "stopping"} => g <= enrolled.gen
        /\ \A h \in Gens : h < g /\ host[g].pc # "new" => host[h].pc # "new"

\* A supervisor that is past its lock has the lock of the room.
Holding == {"locked", "published", "up", "fenced", "intent", "reap", "mark", "last"}
SupOK ==
    \A g \in Gens :
        /\ sup[g].pc \in Holding => lock.room = g
        /\ sup[g].pc # "none" => g <= enrolled.gen
        /\ host[g].pc \in {"new", "attest", "enroll", "spawn"} => sup[g].pc = "none"

\* A child has a supervisor that has not reaped it, or one killed alone.
ChildOK ==
    \A g \in Gens :
        ~ChildrenGone(g) => sup[g].pc \in {"up", "fenced", "intent", "reap"} \/ g \in killed

\* A watcher that may write writes its own state over an earlier one.
Writing == {"run", "save", "write", "publish", "hook", "ack", "advance"}
OwnerOK ==
    killed = {} =>
        /\ disk.owner <= enrolled.gen
        /\ disk.cap = "none" => disk.owner = 0
        /\ \A g \in Gens :
              /\ watch[g].pc \in Writing =>
                    watch[g].mem.owner = g /\ watch[g].mem.cap # "none" /\ disk.owner <= g
              /\ watch[g].pc = "fail" /\ (watch[g].prev.owner = g \/ watch[g].prev.cap = "none")
                    => disk.owner <= g

IInv == Shape /\ HostOK /\ SupOK /\ ChildOK /\ OwnerOK

LEMMA GensInt == Gens \subseteq Int /\ \A g \in Gens : g > 0
  BY BoundsAssumption DEF Gens

-----------------------------------------------------------------------------
(* What _state returns *)

\* The state of a run that starts reading after the message n.
LEMMA StartingState ==
    ASSUME NEW g \in Gens, NEW n \in Int
    PROVE  LET s == [NoState EXCEPT !.owner = g, !.floor = n, !.acked = n, !.cap = "starting"]
           IN  s \in StateI /\ s.owner = g /\ s.cap = "starting"
<1>1. NoState \in StateI
  BY DEF NoState, StateI
<1>2. g \in Int
  BY GensInt
<1>3. \A x \in StateI :
        LET s == [x EXCEPT !.owner = g, !.floor = n, !.acked = n, !.cap = "starting"]
        IN  s \in StateI /\ s.owner = g /\ s.cap = "starting"
  BY <1>2 DEF StateI
<1> QED BY <1>1, <1>3

LEMMA AdoptedShape ==
    ASSUME Shape, NEW g \in Gens, NEW s \in StateI
    PROVE  Adopted(g, s) \in StateI /\ Adopted(g, s).cap # "none"
<1> DEFINE at(n) == [NoState EXCEPT !.owner = g, !.floor = n, !.acked = n, !.cap = "starting"]
           invalid(t) == [t EXCEPT !.cap = "fenced", !.gaps = TRUE, !.phase = "idle"]
<1>1. \A n \in Int : at(n) \in StateI /\ at(n).cap = "starting"
  BY StartingState
<1>2. \A t \in StateI : invalid(t) \in StateI /\ invalid(t).cap = "fenced"
  BY DEF StateI
<1>3. s.acked \in Int
  BY DEF StateI
<1>4. enrolled.auth.floor \in Int /\ host[g].auth.floor \in Int
  BY DEF Shape, AuthorityI
<1> HIDE DEF at, invalid
<1>5. Adopted(g, s) \in {at(s.acked), at(enrolled.auth.floor), s, invalid(s)}
                        \cup {invalid(at(host[g].auth.floor))}
      /\ (Adopted(g, s) = s => s.cap # "none")
  BY <1>1, <1>2, <1>4 DEF Adopted, at, invalid
<1> QED
  BY <1>1, <1>2, <1>3, <1>4, <1>5

\* A run owns what it adopts, unless it fences the state of another.
LEMMA AdoptedOwner ==
    ASSUME Shape, NEW g \in Gens, NEW s \in StateI
    PROVE  /\ s.cap = "none" \/ s.owner = g => Adopted(g, s).owner = g
           /\ ~Adopted(g, s).gaps => Adopted(g, s).owner = g
           /\ ~Adopted(g, s).gaps /\ s.owner # g => enrolled.gen = g
           /\ Adopted(g, s).owner = g /\ s.owner # g /\ s.cap # "none" => enrolled.gen = g
<1> DEFINE at(n) == [NoState EXCEPT !.owner = g, !.floor = n, !.acked = n, !.cap = "starting"]
           invalid(t) == [t EXCEPT !.cap = "fenced", !.gaps = TRUE, !.phase = "idle"]
<1>1. \A n \in Int : at(n) \in StateI /\ at(n).owner = g
  BY StartingState
<1>2. \A t \in StateI : invalid(t).owner = t.owner /\ invalid(t).gaps
  BY DEF StateI
<1>3. s.acked \in Int /\ enrolled.auth.floor \in Int /\ host[g].auth.floor \in Int
  BY DEF Shape, AuthorityI, StateI
<1> HIDE DEF at, invalid
<1>4. CASE s.cap = "none"
  <2>1. \/ enrolled.gen = g /\ Adopted(g, s) = at(enrolled.auth.floor)
        \/ Adopted(g, s) = invalid(at(host[g].auth.floor))
    BY <1>4 DEF Adopted, at, invalid
  <2> QED BY <2>1, <1>1, <1>2, <1>3, <1>4
<1>5. CASE s.cap # "none" /\ s.owner # g
  <2>1. \/ enrolled.gen = g /\ Adopted(g, s) = at(s.acked)
        \/ Adopted(g, s) = invalid(s)
    BY <1>5 DEF Adopted, at, invalid
  <2> QED BY <2>1, <1>1, <1>2, <1>3, <1>5
<1>6. CASE s.cap # "none" /\ s.owner = g
  <2>1. Adopted(g, s) \in {s, invalid(s)}
    BY <1>6 DEF Adopted, at, invalid
  <2> QED BY <2>1, <1>2, <1>6
<1> QED BY <1>4, <1>5, <1>6

-----------------------------------------------------------------------------
(* Shape *)

LEMMA ShapeInit == Init => Shape
  BY GensInt DEF Init, Shape, NoState, NoAuthority, StateI, AuthorityI, HostPc, SupPc, WatchPc

LEMMA AttestedShape == Shape => Attested \subseteq AuthorityI
  BY DEF Shape, StateI, Attested, AuthorityI

SupRec == [pc : SupPc, signal : BOOLEAN, intent : Int, clean : BOOLEAN]
WatchRec == [pc : WatchPc, mem : StateI, prev : StateI]

\* What the steps do to one entry keeps the others.
LEMMA SupFrame ==
    ASSUME Shape, NEW g \in Gens, NEW pc \in SupPc
    PROVE  /\ [sup EXCEPT ![g].pc = pc] \in [Gens -> SupRec]
           /\ [sup EXCEPT ![g].pc = pc, ![g].signal = TRUE] \in [Gens -> SupRec]
           /\ \A b \in BOOLEAN : [sup EXCEPT ![g].pc = pc, ![g].clean = b] \in [Gens -> SupRec]
           /\ \A i \in Int : [sup EXCEPT ![g].pc = pc, ![g].intent = i] \in [Gens -> SupRec]
<1>1. sup[g] \in SupRec /\ sup \in [Gens -> SupRec]
  BY DEF Shape, SupRec
<1>2. \A x \in SupRec :
        /\ [x EXCEPT !.pc = pc] \in SupRec
        /\ [x EXCEPT !.pc = pc, !.signal = TRUE] \in SupRec
        /\ \A b \in BOOLEAN : [x EXCEPT !.pc = pc, !.clean = b] \in SupRec
        /\ \A i \in Int : [x EXCEPT !.pc = pc, !.intent = i] \in SupRec
  BY DEF SupRec
<1>3. \A x \in SupRec : [sup EXCEPT ![g] = x] \in [Gens -> SupRec]
  BY <1>1
<1>4. /\ [sup EXCEPT ![g].pc = pc] = [sup EXCEPT ![g] = [sup[g] EXCEPT !.pc = pc]]
      /\ [sup EXCEPT ![g].pc = pc, ![g].signal = TRUE]
            = [sup EXCEPT ![g] = [sup[g] EXCEPT !.pc = pc, !.signal = TRUE]]
      /\ \A b \in BOOLEAN : [sup EXCEPT ![g].pc = pc, ![g].clean = b]
            = [sup EXCEPT ![g] = [sup[g] EXCEPT !.pc = pc, !.clean = b]]
      /\ \A i \in Int : [sup EXCEPT ![g].pc = pc, ![g].intent = i]
            = [sup EXCEPT ![g] = [sup[g] EXCEPT !.pc = pc, !.intent = i]]
  BY <1>1 DEF SupRec
<1> QED BY <1>1, <1>2, <1>3, <1>4

LEMMA WatchFrame ==
    ASSUME Shape, NEW g \in Gens, NEW pc \in WatchPc
    PROVE  /\ [watch EXCEPT ![g].pc = pc] \in [Gens -> WatchRec]
           /\ \A s \in StateI : [watch EXCEPT ![g].pc = pc, ![g].mem = s] \in [Gens -> WatchRec]
           /\ \A s \in StateI : [watch EXCEPT ![g].pc = pc, ![g].prev = s] \in [Gens -> WatchRec]
<1>1. watch[g] \in WatchRec /\ watch \in [Gens -> WatchRec]
  BY DEF Shape, WatchRec
<1>2. \A x \in WatchRec :
        /\ [x EXCEPT !.pc = pc] \in WatchRec
        /\ \A s \in StateI : [x EXCEPT !.pc = pc, !.mem = s] \in WatchRec
        /\ \A s \in StateI : [x EXCEPT !.pc = pc, !.prev = s] \in WatchRec
  BY DEF WatchRec
<1>3. \A x \in WatchRec : [watch EXCEPT ![g] = x] \in [Gens -> WatchRec]
  BY <1>1
<1>4. /\ [watch EXCEPT ![g].pc = pc] = [watch EXCEPT ![g] = [watch[g] EXCEPT !.pc = pc]]
      /\ \A s \in StateI : [watch EXCEPT ![g].pc = pc, ![g].mem = s]
            = [watch EXCEPT ![g] = [watch[g] EXCEPT !.pc = pc, !.mem = s]]
      /\ \A s \in StateI : [watch EXCEPT ![g].pc = pc, ![g].prev = s]
            = [watch EXCEPT ![g] = [watch[g] EXCEPT !.pc = pc, !.prev = s]]
  BY <1>1 DEF WatchRec
<1> QED BY <1>1, <1>2, <1>3, <1>4

LEMMA HostShape ==
    ASSUME Shape, NEW g \in Gens,
           HostStart(g) \/ HostStop(g) \/ Host(g) \/ HostDies(g)
    PROVE  Shape'
<1> USE GensInt DEF Shape, HostGoes, HostRest, Children, HostPc
<1>1. CASE HostStart(g)
  BY <1>1 DEF HostStart
<1>2. CASE Attest(g)
  BY <1>2, AttestedShape DEF Attest
<1>3. CASE Refuse(g)
  BY <1>3 DEF Refuse
<1>4. CASE Enroll(g)
  BY <1>4 DEF Enroll
<1>5. CASE Spawn(g)
  <2>1. sup' \in [Gens -> SupRec]
    BY <1>5, SupFrame DEF Spawn, SupPc
  <2>2. host' \in [Gens -> [pc : HostPc, auth : AuthorityI]]
    BY <1>5 DEF Spawn
  <2>3. UNCHANGED <<rows, lock, enrolled, disk, watch, worker>>
    BY <1>5 DEF Spawn
  <2> QED BY <2>1, <2>2, <2>3 DEF SupRec
<1>6. CASE HostStop(g)
  <2>1. sup' \in [Gens -> SupRec]
    <3>1. PICK pc \in SupPc : sup' = [sup EXCEPT ![g].pc = pc, ![g].signal = TRUE]
      BY <1>6 DEF HostStop, SupPc
    <3> QED BY <3>1, SupFrame, Zenon
  <2>2. watch' \in [Gens -> WatchRec]
    <3>1. PICK pc \in WatchPc : watch' = [watch EXCEPT ![g].pc = pc]
      BY <1>6 DEF HostStop, WatchPc
    <3> QED BY <3>1, WatchFrame, Zenon
  <2>3. host' \in [Gens -> [pc : HostPc, auth : AuthorityI]]
    BY <1>6 DEF HostStop
  <2>4. worker' \in [Gens -> BOOLEAN]
    BY <1>6 DEF HostStop
  <2>5. UNCHANGED <<rows, lock, enrolled, disk>>
    BY <1>6 DEF HostStop
  <2> QED BY <2>1, <2>2, <2>3, <2>4, <2>5 DEF SupRec, WatchRec
<1>7. CASE HostKill(g)
  <2>1. sup' \in [Gens -> SupRec]
    BY <1>7, SupFrame DEF HostKill, Killed, SupPc
  <2>2. watch' \in [Gens -> WatchRec]
    BY <1>7, WatchFrame DEF HostKill, Killed, WatchPc
  <2>3. lock' \in [host : Int, room : Int]
    BY <1>7 DEF HostKill, Released
  <2> QED BY <1>7, <2>1, <2>2, <2>3 DEF HostKill, Killed, SupRec, WatchRec
<1>8. CASE HostEnd(g)
  BY <1>8 DEF HostEnd
<1>9. CASE HostDies(g)
  <2>1. host' = [host EXCEPT ![g].pc = "gone"] /\ lock' = [lock EXCEPT !.host = 0]
    BY <1>9 DEF HostDies
  <2>2. host' \in [Gens -> [pc : HostPc, auth : AuthorityI]] /\ lock' \in [host : Int, room : Int]
    BY <2>1
  <2> QED BY <1>9, <2>2 DEF HostDies
<1> QED BY <1>1, <1>2, <1>3, <1>4, <1>5, <1>6, <1>7, <1>8, <1>9 DEF Host

LEMMA SupervisorShape ==
    ASSUME Shape, NEW g \in Gens, Supervisor(g) \/ SignalOrphan(g) \/ SupervisorDies(g)
    PROVE  Shape'
<1>1. sup' \in [Gens -> SupRec]
  <2>1. disk.acked \in Int
    BY DEF Shape, StateI
  <2>2. CASE CaptureIntent(g)
    <3> DEFINE i == IF CleanForStop(g, {"ready"}) THEN disk.acked ELSE -1
    <3>1. sup' = [sup EXCEPT ![g].pc = "reap", ![g].intent = i]
      BY <2>2 DEF CaptureIntent
    <3>2. i \in Int
      BY <2>1
    <3> HIDE DEF i
    <3> QED BY <3>1, <3>2, SupFrame, Zenon DEF SupPc
  <2>3. CASE MarkStoppedClean(g)
    BY <2>3, SupFrame DEF MarkStoppedClean, CleanForStop, SupPc
  <2>4. CASE SignalOrphan(g)
    <3>1. PICK pc \in SupPc : sup' = [sup EXCEPT ![g].pc = pc, ![g].signal = TRUE]
      BY <2>4 DEF SignalOrphan, Shape, SupPc
    <3> QED BY <3>1, SupFrame, Zenon
  <2>5. CASE \E pc \in SupPc : sup' = [sup EXCEPT ![g].pc = pc]
    <3>1. PICK pc \in SupPc : sup' = [sup EXCEPT ![g].pc = pc]
      BY <2>5
    <3> QED BY <3>1, SupFrame, Zenon
  <2>6. ASSUME Supervisor(g) \/ SupervisorDies(g), ~CaptureIntent(g), ~MarkStoppedClean(g)
        PROVE  \E pc \in SupPc : sup' = [sup EXCEPT ![g].pc = pc]
    BY <2>6
       DEF Supervisor, AcquireOwner, PublishRunning, StartChildren, FenceOnExit, StopSupervisor,
           ReapChildren, PublishStopped, SupervisorDies, SupGoes, SupPc
  <2> QED BY <2>2, <2>3, <2>4, <2>5, <2>6
<1>2. watch' \in [Gens -> WatchRec]
  <2>1. watch \in [Gens -> WatchRec]
    BY DEF Shape, WatchRec
  <2>2. \/ UNCHANGED watch
        \/ \E pc \in WatchPc : watch' = [watch EXCEPT ![g].pc = pc]
    BY DEF Supervisor, AcquireOwner, PublishRunning, StartChildren, FenceOnExit, StopSupervisor,
           CaptureIntent, ReapChildren, MarkStoppedClean, PublishStopped, SignalOrphan,
           SupervisorDies, HostRest, WatchPc
  <2>3. CASE \E pc \in WatchPc : watch' = [watch EXCEPT ![g].pc = pc]
    <3>1. PICK pc \in WatchPc : watch' = [watch EXCEPT ![g].pc = pc]
      BY <2>3
    <3> QED BY <3>1, WatchFrame, Zenon
  <2> QED BY <2>1, <2>2, <2>3
<1>3. worker' \in [Gens -> BOOLEAN]
  BY DEF Shape, Supervisor, AcquireOwner, PublishRunning, StartChildren, FenceOnExit,
         StopSupervisor, CaptureIntent, ReapChildren, MarkStoppedClean, PublishStopped,
         SignalOrphan, SupervisorDies
<1>4. lock' \in [host : Int, room : Int]
  <2>1. lock \in [host : Int, room : Int] /\ g \in Int
    BY GensInt DEF Shape
  <2>2. /\ [lock EXCEPT !.room = g] \in [host : Int, room : Int]
        /\ [lock EXCEPT !.room = 0] \in [host : Int, room : Int]
        /\ [Released(g) EXCEPT !.host = lock.host] \in [host : Int, room : Int]
    BY <2>1 DEF Released
  <2> QED BY <2>1, <2>2
     DEF Supervisor, AcquireOwner, PublishRunning, StartChildren, FenceOnExit,
         StopSupervisor, CaptureIntent, ReapChildren, MarkStoppedClean, PublishStopped,
         SignalOrphan, SupervisorDies
<1>5. disk' \in StateI
  BY DEF Shape, StateI, Supervisor, AcquireOwner, PublishRunning, StartChildren, FenceOnExit,
         StopSupervisor, CaptureIntent, ReapChildren, MarkStoppedClean, PublishStopped,
         SignalOrphan, SupervisorDies, HostRest
<1>6. UNCHANGED <<rows, enrolled, host>>
  BY DEF Supervisor, AcquireOwner, PublishRunning, StartChildren, FenceOnExit,
         StopSupervisor, CaptureIntent, ReapChildren, MarkStoppedClean, PublishStopped,
         SignalOrphan, SupervisorDies, SupRest, HostRest
<1> QED BY <1>1, <1>2, <1>3, <1>4, <1>5, <1>6 DEF Shape, SupRec, WatchRec

LEMMA WatcherShape ==
    ASSUME Shape, NEW g \in Gens, Watcher(g)
    PROVE  Shape'
<1> USE DEF WatchRest, WatchGoes, Holds
<1>1. watch[g].mem \in StateI /\ watch[g].prev \in StateI /\ watch \in [Gens -> WatchRec]
  BY DEF Shape, WatchRec
<1>2. \A s \in StateI : Adopted(g, s) \in StateI
  BY AdoptedShape
<1>3. \A s \in StateI : \A cap \in {"ready", "retry", "fenced"} : [s EXCEPT !.cap = cap] \in StateI
  BY DEF StateI
<1>4. \A s \in StateI :
        /\ [s EXCEPT !.pend = s.acked + 1, !.phase = "hooking"] \in StateI
        /\ [s EXCEPT !.pend = 0, !.phase = "idle", !.cap = "retry"] \in StateI
        /\ [s EXCEPT !.phase = "acknowledging"] \in StateI
        /\ [s EXCEPT !.acked = s.pend, !.pend = 0, !.phase = "idle"] \in StateI
  <2>1. \A s \in StateI : s.acked + 1 \in Int /\ s.pend \in Int
    BY DEF StateI
  <2>2. \A s \in StateI : \A n \in Int : [s EXCEPT !.pend = n, !.phase = "hooking"] \in StateI
    BY DEF StateI
  <2>3. \A s \in StateI : \A m, n \in Int : \A p \in {"idle", "hooking", "acknowledging"} :
            [s EXCEPT !.acked = m, !.pend = n, !.phase = p] \in StateI
    BY DEF StateI
  <2>4. \A s \in StateI : \A n \in Int : \A p \in {"idle", "hooking", "acknowledging"} :
            \A c \in {"none", "starting", "ready", "retry", "fenced", "stopped_clean"} :
                [s EXCEPT !.pend = n, !.phase = p, !.cap = c] \in StateI
    BY DEF StateI
  <2>5. \A s \in StateI : [s EXCEPT !.phase = "acknowledging"] \in StateI
    BY DEF StateI
  <2>6. 0 \in Int
    OBVIOUS
  <2> QED BY <2>1, <2>2, <2>3, <2>4, <2>5, <2>6, Zenon
<1>5. disk \in StateI
  BY DEF Shape
<1>6. UNCHANGED <<rows, lock, enrolled, host, sup, worker>>
  BY DEF Watcher, Load, Poll, Save, Write, PublishCandidate, Hook, Acknowledge, AdvanceCursor, Fail
<1>7. disk' \in StateI
  <2>1. CASE UNCHANGED disk
    BY <2>1, <1>5
  <2>2. CASE Write(g) \/ AdvanceCursor(g)
    BY <2>2, <1>1, <1>4 DEF Write, AdvanceCursor
  <2>3. CASE PublishCandidate(g)
    BY <2>1, <2>3, <1>1, <1>4 DEF PublishCandidate
  <2>4. CASE Acknowledge(g)
    BY <2>1, <2>4, <1>2, <1>4, <1>5 DEF Acknowledge
  <2>5. CASE Fail(g)
    BY <2>1, <2>5, <1>1, <1>2, <1>3, <1>5 DEF Fail
  <2> QED BY <2>1, <2>2, <2>3, <2>4, <2>5 DEF Watcher, Load, Poll, Save, Hook
<1>8. watch' \in [Gens -> WatchRec]
  <2>1. \A pc \in WatchPc : \A m, p \in StateI :
            [watch EXCEPT ![g] = [pc |-> pc, mem |-> m, prev |-> p]] \in [Gens -> WatchRec]
    BY <1>1 DEF WatchRec
  <2>2. CASE Load(g)
    BY <2>1, <2>2, <1>2, <1>5 DEF Load, WatchPc
  <2>3. CASE \E pc \in WatchPc : watch' = [watch EXCEPT ![g].pc = pc]
    <3>1. PICK pc \in WatchPc : watch' = [watch EXCEPT ![g].pc = pc]
      BY <2>3
    <3> QED BY <3>1, WatchFrame, Zenon
  <2>4. CASE \E pc \in WatchPc, s \in StateI : watch' = [watch EXCEPT ![g].pc = pc, ![g].mem = s]
    <3>1. PICK pc \in WatchPc, s \in StateI : watch' = [watch EXCEPT ![g].pc = pc, ![g].mem = s]
      BY <2>4
    <3> QED BY <3>1, WatchFrame, Zenon
  <2>5. CASE \E pc \in WatchPc, s \in StateI : watch' = [watch EXCEPT ![g].pc = pc, ![g].prev = s]
    <3>1. PICK pc \in WatchPc, s \in StateI : watch' = [watch EXCEPT ![g].pc = pc, ![g].prev = s]
      BY <2>5
    <3> QED BY <3>1, WatchFrame, Zenon
  <2>6. CASE Poll(g)
    <3> DEFINE s == Adopted(g, watch[g].mem)
    <3>1. s \in StateI /\ [s EXCEPT !.cap = "ready"] \in StateI /\ [s EXCEPT !.cap = "retry"] \in StateI
      BY <1>1, <1>2, <1>3
    <3>2. \/ watch' = [watch EXCEPT ![g].pc = "fail", ![g].prev = s]
          \/ watch' = [watch EXCEPT ![g] = [pc |-> "save", prev |-> s,
                                           mem |-> [s EXCEPT !.cap = "retry"]]]
          \/ \E pc \in {"publish", "save"} :
                watch' = [watch EXCEPT ![g] = [pc |-> pc, prev |-> s,
                                               mem |-> [s EXCEPT !.cap = "ready"]]]
      BY <2>6 DEF Poll
    <3> HIDE DEF s
    <3> QED BY <2>1, <2>5, <3>1, <3>2 DEF WatchPc
  <2>7. CASE Save(g) \/ Write(g) \/ Fail(g)
    BY <2>3, <2>7 DEF Save, Write, Fail, WatchPc
  <2>8. CASE PublishCandidate(g)
    <3> DEFINE s == [watch[g].mem EXCEPT !.pend = watch[g].mem.acked + 1, !.phase = "hooking"]
    <3>1. s \in StateI
      BY <1>1, <1>4
    <3>2. \/ watch' = [watch EXCEPT ![g].pc = "hook", ![g].mem = s]
          \/ watch' = [watch EXCEPT ![g].pc = "fail"]
      BY <2>8 DEF PublishCandidate
    <3> HIDE DEF s
    <3> QED BY <2>3, <2>4, <3>1, <3>2 DEF WatchPc
  <2>9. CASE Hook(g)
    <3> DEFINE s == [watch[g].mem EXCEPT !.pend = 0, !.phase = "idle", !.cap = "retry"]
    <3>1. s \in StateI
      BY <1>1, <1>4
    <3>2. \/ watch' = [watch EXCEPT ![g].pc = "ack"]
          \/ watch' = [watch EXCEPT ![g].pc = "save", ![g].mem = s]
          \/ watch' = [watch EXCEPT ![g].pc = "fail", ![g].prev = disk]
      BY <2>9 DEF Hook
    <3> HIDE DEF s
    <3> QED BY <2>3, <2>4, <2>5, <3>1, <3>2, <1>5 DEF WatchPc
  <2>10. CASE Acknowledge(g)
    <3>1. \/ watch' = [watch EXCEPT ![g].pc = "advance", ![g].mem = disk']
          \/ watch' = [watch EXCEPT ![g].pc = "fail"]
      BY <2>10 DEF Acknowledge
    <3> QED BY <2>3, <2>4, <3>1, <1>7 DEF WatchPc
  <2>11. CASE AdvanceCursor(g)
    <3>1. disk' \in StateI /\ \E pc \in {"publish", "save"} :
              watch' = [watch EXCEPT ![g].pc = pc, ![g].mem = disk']
      BY <2>11, <1>7 DEF AdvanceCursor
    <3> QED BY <2>4, <3>1 DEF WatchPc
  <2> QED BY <2>2, <2>6, <2>7, <2>8, <2>9, <2>10, <2>11 DEF Watcher
<1> QED BY <1>6, <1>7, <1>8 DEF Shape, WatchRec

LEMMA ShapeStep == Shape /\ [Next]_vars => Shape'
<1> SUFFICES ASSUME Shape, [Next]_vars PROVE Shape'
  OBVIOUS
<1>1. CASE UNCHANGED vars
  BY <1>1 DEF vars, Shape
<1>2. CASE Arrive
  BY <1>2 DEF Arrive, Children, Shape
<1>3. ASSUME NEW g \in Gens, Work(g)
      PROVE  Shape'
  BY <1>3 DEF Work, Shape
<1>4. ASSUME NEW g \in Gens, ChildDies(g)
      PROVE  Shape'
  <2>1. UNCHANGED <<rows, lock, enrolled, disk, host, sup>>
    BY <1>4 DEF ChildDies
  <2>2. worker' \in [Gens -> BOOLEAN]
    BY <1>4 DEF ChildDies, Shape
  <2>3. watch' \in [Gens -> WatchRec]
    <3>1. CASE UNCHANGED watch
      BY <3>1 DEF Shape, WatchRec
    <3>2. CASE watch' = [watch EXCEPT ![g].pc = "gone"]
      BY <3>2, WatchFrame, Zenon DEF WatchPc
    <3> QED BY <1>4, <3>1, <3>2 DEF ChildDies
  <2> QED BY <2>1, <2>2, <2>3 DEF Shape, WatchRec
<1> QED
  BY <1>1, <1>2, <1>3, <1>4, HostShape, SupervisorShape, WatcherShape DEF Next

-----------------------------------------------------------------------------
(* The locks *)

LEMMA HostStep ==
    ASSUME Shape, HostOK, [Next]_vars
    PROVE  HostOK'
<1> USE GensInt
<1>1. host \in [Gens -> [pc : HostPc, auth : AuthorityI]] /\ enrolled.gen \in Int /\ lock.host \in Int
  BY DEF Shape
<1>2. CASE UNCHANGED <<host, enrolled>> /\ lock'.host = lock.host
  BY <1>2 DEF HostOK
<1>3. ASSUME NEW g \in Gens, HostStart(g) PROVE HostOK'
  BY <1>1, <1>3 DEF HostStart, HostGoes, HostRest, HostOK, Shape
<1>4. ASSUME NEW g \in Gens, Attest(g) PROVE HostOK'
  BY <1>1, <1>4 DEF Attest, HostRest, HostOK
<1>5. ASSUME NEW g \in Gens, Refuse(g) \/ HostEnd(g) \/ HostDies(g) PROVE HostOK'
  <2>1. /\ host' = [host EXCEPT ![g].pc = "gone"] /\ host[g].pc # "new"
        /\ UNCHANGED enrolled
    BY <1>1, <1>5 DEF Refuse, HostEnd, HostDies, HostGoes, HostRest
  <2>2. \A h \in Gens \ {g} : host'[h] = host[h]
    BY <1>1, <2>1
  <2>3. host'[g].pc = "gone"
    BY <1>1, <2>1
  <2>4. lock.host = g
    BY <1>5 DEF Refuse, HostEnd, HostDies, HostOK, HostPc, Shape
  <2> QED BY <1>1, <2>1, <2>2, <2>3, <2>4 DEF HostOK
<1>6. ASSUME NEW g \in Gens, Enroll(g) PROVE HostOK'
  <2>1. /\ host' = [host EXCEPT ![g].pc = "spawn"] /\ host[g].pc = "enroll"
        /\ enrolled'.gen = g /\ UNCHANGED lock
    BY <1>6 DEF Enroll, HostGoes
  <2>2. \A h \in Gens \ {g} : host'[h] = host[h]
    BY <1>1, <2>1
  <2>3. host'[g].pc = "spawn"
    BY <1>1, <2>1
  <2>4. enrolled.gen < g /\ lock.host = g
    BY <2>1 DEF HostOK
  <2>5. \A h \in Gens \ {g} : host[h].pc \in {"new", "attest", "enroll"} => g < h
    BY <2>1, <2>4 DEF HostOK
  <2> QED BY <1>1, <2>1, <2>2, <2>3, <2>4, <2>5 DEF HostOK
<1>7. ASSUME NEW g \in Gens, Spawn(g) \/ HostStop(g) PROVE HostOK'
  BY <1>1, <1>7 DEF Spawn, HostStop, HostGoes, HostRest, HostOK
<1>8. ASSUME NEW g \in Gens, HostKill(g) PROVE HostOK'
  <2>1. lock'.host = lock.host /\ UNCHANGED <<host, enrolled>>
    BY <1>1, <1>8 DEF HostKill, HostRest, Released, HostOK
  <2> QED BY <2>1, <1>2
<1>9. ASSUME NEW g \in Gens,
             Supervisor(g) \/ Watcher(g) \/ Work(g) \/ SignalOrphan(g) \/ SupervisorDies(g)
                \/ ChildDies(g)
      PROVE  UNCHANGED <<host, enrolled>> /\ lock'.host = lock.host
  BY <1>9
     DEF Supervisor, AcquireOwner, PublishRunning, StartChildren, FenceOnExit, StopSupervisor,
         CaptureIntent, ReapChildren, MarkStoppedClean, PublishStopped, SignalOrphan,
         SupervisorDies, SupRest, HostRest, Released, Watcher, Load, Poll, Save, Write,
         PublishCandidate, Hook, Acknowledge, AdvanceCursor, Fail, WatchRest, Work, ChildDies, Shape
<1>10. CASE Arrive \/ UNCHANGED vars
  BY <1>2, <1>10 DEF Arrive, vars
<1> QED
  BY <1>2, <1>3, <1>4, <1>5, <1>6, <1>7, <1>8, <1>9, <1>10 DEF Next, Host

LEMMA SupStep ==
    ASSUME Shape, HostOK, SupOK, [Next]_vars
    PROVE  SupOK'
<1> USE GensInt DEF SupOK, Holding
<1>1. /\ sup \in [Gens -> SupRec] /\ enrolled.gen \in Int /\ lock.room \in Int
      /\ host \in [Gens -> [pc : HostPc, auth : AuthorityI]]
  BY DEF Shape, SupRec
<1>2. CASE UNCHANGED <<sup, enrolled, host>> /\ lock'.room = lock.room
  BY <1>2
<1>3. ASSUME NEW g \in Gens, HostStart(g) \/ Attest(g) \/ Refuse(g) \/ HostEnd(g) \/ HostDies(g)
      PROVE  SupOK'
  <2>1. UNCHANGED <<sup, enrolled>> /\ lock'.room = lock.room
    BY <1>3 DEF HostStart, Attest, Refuse, HostEnd, HostDies, HostRest, Children, Shape
  <2>2. \A h \in Gens : host'[h].pc \in {"new", "attest", "enroll", "spawn"}
                            => host[h].pc \in {"new", "attest", "enroll", "spawn"}
    BY <1>1, <1>3 DEF HostStart, Attest, Refuse, HostEnd, HostDies, HostGoes
  <2> QED BY <2>1, <2>2
<1>4. ASSUME NEW g \in Gens, Enroll(g) PROVE SupOK'
  <2>1. enrolled'.gen = g /\ enrolled.gen < g /\ UNCHANGED <<sup, lock>>
    BY <1>4 DEF Enroll, Children, HostOK
  <2>2. \A h \in Gens : host'[h].pc \in {"new", "attest", "enroll", "spawn"}
                            => host[h].pc \in {"new", "attest", "enroll", "spawn"}
    BY <1>1, <1>4 DEF Enroll, HostGoes
  <2>3. \A h \in Gens : sup[h].pc # "none" => h <= enrolled'.gen
    BY <1>1, <2>1
  <2> QED BY <2>1, <2>2, <2>3
<1>5. ASSUME NEW g \in Gens, Spawn(g) PROVE SupOK'
  <2>1. /\ host' = [host EXCEPT ![g].pc = "up"] /\ sup' = [sup EXCEPT ![g].pc = "start"]
        /\ UNCHANGED <<enrolled, lock>> /\ g <= enrolled.gen
    BY <1>5 DEF Spawn, HostGoes, HostRest, HostOK
  <2> QED BY <1>1, <2>1 DEF SupRec
<1>6. ASSUME NEW g \in Gens, HostStop(g) \/ SignalOrphan(g) PROVE SupOK'
  <2>1. UNCHANGED <<enrolled, lock>>
    BY <1>6 DEF HostStop, SignalOrphan, HostRest
  <2>2. \A h \in Gens \ {g} : sup'[h] = sup[h]
    BY <1>1, <1>6 DEF HostStop, SignalOrphan
  <2>3. sup'[g].pc = IF sup[g].pc = "start" THEN "gone" ELSE sup[g].pc
    BY <1>1, <1>6 DEF HostStop, SignalOrphan, SupRec
  <2>4. \A h \in Gens : host'[h].pc \in {"new", "attest", "enroll", "spawn"}
                            => host[h].pc \in {"new", "attest", "enroll", "spawn"}
    BY <1>1, <1>6 DEF HostStop, SignalOrphan, HostGoes
  <2> QED BY <1>1, <2>1, <2>2, <2>3, <2>4
<1>7. ASSUME NEW g \in Gens, HostKill(g) \/ SupervisorDies(g) PROVE SupOK'
  <2>1. /\ UNCHANGED <<enrolled, host>>
        /\ sup' = [sup EXCEPT ![g].pc = "gone"]
        /\ lock'.room = IF lock.room = g THEN 0 ELSE lock.room
    BY <1>7 DEF HostKill, SupervisorDies, Killed, SupGoes, HostRest, Released
  <2>2. g <= enrolled.gen /\ host[g].pc \notin {"new", "attest", "enroll", "spawn"}
    BY <1>7 DEF HostKill, SupervisorDies, SupGone, HostOK
  <2> QED BY <1>1, <2>1, <2>2 DEF SupRec
<1>8. ASSUME NEW g \in Gens, AcquireOwner(g) PROVE SupOK'
  <2>1. UNCHANGED <<enrolled, host>> /\ sup[g].pc = "start"
    BY <1>8 DEF AcquireOwner, SupRest
  <2>2. CASE lock.room = 0 /\ sup' = [sup EXCEPT ![g].pc = "locked"] /\ lock'.room = g
    BY <1>1, <2>1, <2>2 DEF SupRec
  <2>3. CASE sup' = [sup EXCEPT ![g].pc = "gone"] /\ UNCHANGED lock
    BY <1>1, <2>1, <2>3 DEF SupRec
  <2> QED BY <1>8, <2>2, <2>3 DEF AcquireOwner, SupGoes, Shape
<1>9. ASSUME NEW g \in Gens, PublishStopped(g) PROVE SupOK'
  BY <1>1, <1>9 DEF PublishStopped, SupGoes, SupRest, SupRec, Shape
<1>10. ASSUME NEW g \in Gens,
             PublishRunning(g) \/ StartChildren(g) \/ FenceOnExit(g) \/ StopSupervisor(g)
                \/ CaptureIntent(g) \/ ReapChildren(g) \/ MarkStoppedClean(g)
      PROVE  SupOK'
  <2>1. /\ UNCHANGED <<enrolled, lock, host>>
        /\ sup[g].pc \in Holding
        /\ \A h \in Gens \ {g} : sup'[h] = sup[h]
    BY <1>1, <1>10
       DEF PublishRunning, StartChildren, FenceOnExit, StopSupervisor, CaptureIntent,
           ReapChildren, MarkStoppedClean, SupGoes, SupRest
  <2> QED BY <1>1, <2>1
<1>11. ASSUME NEW g \in Gens, Watcher(g) \/ Work(g) \/ ChildDies(g)
       PROVE  UNCHANGED <<sup, enrolled, host, lock>>
  BY <1>11
     DEF Watcher, Load, Poll, Save, Write, PublishCandidate, Hook, Acknowledge, AdvanceCursor,
         Fail, WatchRest, Work, ChildDies
<1>12. CASE Arrive \/ UNCHANGED vars
  BY <1>2, <1>12 DEF Arrive, Children, vars
<1> QED
  BY <1>2, <1>3, <1>4, <1>5, <1>6, <1>7, <1>8, <1>9, <1>10, <1>11, <1>12 DEF Next, Host, Supervisor

LEMMA ChildStep ==
    ASSUME Shape, SupOK, ChildOK, [Next]_vars
    PROVE  ChildOK'
<1> DEFINE Supervised(g) == sup[g].pc \in {"up", "fenced", "intent", "reap"}
<1> USE GensInt DEF ChildOK, ChildrenGone
<1>1. sup \in [Gens -> SupRec] /\ watch \in [Gens -> WatchRec] /\ worker \in [Gens -> BOOLEAN]
  BY DEF Shape, SupRec, WatchRec
<1>2. ASSUME \A h \in Gens : ~ChildrenGone(h)' => ~ChildrenGone(h),
             \A h \in Gens : Supervised(h) => Supervised(h)' \/ h \in killed',
             killed \subseteq killed'
      PROVE  ChildOK'
  BY <1>2
<1>3. ASSUME NEW g \in Gens, Spawn(g) PROVE ChildOK'
  <2>1. /\ sup' = [sup EXCEPT ![g].pc = "start"] /\ UNCHANGED <<watch, worker, killed>>
        /\ sup[g].pc = "none"
    BY <1>3 DEF Spawn, HostRest, SupOK
  <2> QED BY <1>1, <2>1 DEF SupRec
<1>4. ASSUME NEW g \in Gens, HostStop(g) PROVE ChildOK'
  <2>1. /\ UNCHANGED killed
        /\ watch' = [watch EXCEPT ![g].pc = IF @ = "none" THEN @ ELSE "gone"]
        /\ worker'[g] => worker[g]
        /\ \A h \in Gens \ {g} : worker'[h] = worker[h]
    BY <1>1, <1>4 DEF HostStop, HostRest
  <2>2. \A h \in Gens : ~ChildrenGone(h)' => ~ChildrenGone(h)
    BY <1>1, <2>1 DEF WatchRec
  <2>3. \A h \in Gens : Supervised(h) => Supervised(h)'
    BY <1>1, <1>4 DEF HostStop, SupRec
  <2> QED BY <1>2, <2>1, <2>2, <2>3
<1>5. ASSUME NEW g \in Gens, HostKill(g) PROVE ChildOK'
  <2>1. /\ UNCHANGED killed /\ sup' = [sup EXCEPT ![g].pc = "gone"]
        /\ watch' = [watch EXCEPT ![g].pc = IF @ = "none" THEN @ ELSE "gone"]
        /\ worker' = [worker EXCEPT ![g] = FALSE]
    BY <1>5 DEF HostKill, Killed, HostRest
  <2>2. watch'[g].pc \in {"none", "gone"} /\ ~worker'[g]
    BY <1>1, <2>1 DEF WatchRec
  <2>3. \A h \in Gens \ {g} : sup'[h] = sup[h] /\ watch'[h] = watch[h] /\ worker'[h] = worker[h]
    BY <1>1, <2>1
  <2> QED BY <2>1, <2>2, <2>3
<1>6. ASSUME NEW g \in Gens, ReapChildren(g) PROVE ChildOK'
  <2>1. /\ UNCHANGED killed
        /\ sup' = [sup EXCEPT ![g].pc = "mark"]
        /\ watch' = [watch EXCEPT ![g].pc = "gone"]
        /\ worker' = [worker EXCEPT ![g] = FALSE]
    BY <1>6 DEF ReapChildren, SupGoes, SupRest
  <2>2. watch'[g].pc = "gone" /\ ~worker'[g]
    BY <1>1, <2>1 DEF WatchRec
  <2>3. \A h \in Gens \ {g} : sup'[h] = sup[h] /\ watch'[h] = watch[h] /\ worker'[h] = worker[h]
    BY <1>1, <2>1
  <2> QED BY <2>1, <2>2, <2>3
<1>7. ASSUME NEW g \in Gens, StartChildren(g) PROVE ChildOK'
  <2>1. sup' = [sup EXCEPT ![g].pc = "up"] /\ UNCHANGED killed
    BY <1>7 DEF StartChildren, SupGoes, SupRest
  <2>2. sup'[g].pc = "up"
    BY <1>1, <2>1 DEF SupRec
  <2>3. \A h \in Gens \ {g} : sup'[h] = sup[h] /\ watch'[h] = watch[h] /\ worker'[h] = worker[h]
    BY <1>1, <1>7, <2>1 DEF StartChildren
  <2> QED BY <2>1, <2>2, <2>3
<1>8. ASSUME NEW g \in Gens, Supervisor(g), ~ReapChildren(g), ~StartChildren(g) PROVE ChildOK'
  <2>1. UNCHANGED <<watch, worker, killed>>
    BY <1>8
       DEF Supervisor, AcquireOwner, PublishRunning, FenceOnExit, StopSupervisor, CaptureIntent,
           MarkStoppedClean, PublishStopped, SupRest
  <2>2. \A h \in Gens : Supervised(h) => Supervised(h)'
    BY <1>1, <1>8
       DEF Supervisor, AcquireOwner, PublishRunning, FenceOnExit, StopSupervisor, CaptureIntent,
           MarkStoppedClean, PublishStopped, SupGoes, SupRec
  <2> QED BY <1>2, <2>1, <2>2
<1>9. ASSUME NEW g \in Gens, SignalOrphan(g) PROVE ChildOK'
  <2>1. UNCHANGED <<watch, worker, killed>>
    BY <1>9 DEF SignalOrphan, HostRest
  <2>2. \A h \in Gens : Supervised(h) => Supervised(h)'
    BY <1>1, <1>9 DEF SignalOrphan, SupRec
  <2> QED BY <1>2, <2>1, <2>2
<1>10. ASSUME NEW g \in Gens, SupervisorDies(g) PROVE ChildOK'
  BY <1>1, <1>2, <1>10 DEF SupervisorDies, SupGoes
<1>11. ASSUME NEW g \in Gens, Watcher(g) \/ ChildDies(g) PROVE ChildOK'
  <2>1. UNCHANGED <<sup, killed>> /\ \A h \in Gens : worker'[h] => worker[h]
    BY <1>1, <1>11
       DEF Watcher, Load, Poll, Save, Write, PublishCandidate, Hook, Acknowledge, AdvanceCursor,
           Fail, WatchRest, ChildDies
  <2>2. \A h \in Gens \ {g} : watch'[h] = watch[h]
    BY <1>1, <1>11
       DEF Watcher, Load, Poll, Save, Write, PublishCandidate, Hook, Acknowledge, AdvanceCursor,
           Fail, WatchGoes, Holds, ChildDies
  <2>3. watch[g].pc \in {"none", "gone"} => watch'[g].pc \in {"none", "gone"}
    BY <1>1, <1>11
       DEF Watcher, Load, Poll, Save, Write, PublishCandidate, Hook, Acknowledge, AdvanceCursor,
           Fail, WatchGoes, Holds, ChildDies, WatchRec
  <2> QED BY <1>2, <2>1, <2>2, <2>3
<1>12. ASSUME NEW g \in Gens,
              HostStart(g) \/ Attest(g) \/ Refuse(g) \/ Enroll(g) \/ HostEnd(g) \/ HostDies(g)
                 \/ Work(g)
       PROVE  UNCHANGED <<sup, watch, worker, killed>>
  BY <1>12 DEF HostStart, Attest, Refuse, Enroll, HostEnd, HostDies, HostRest, Children, Work
<1>13. CASE Arrive \/ UNCHANGED vars
  BY <1>13 DEF Arrive, Children, vars
<1> QED
  BY <1>3, <1>4, <1>5, <1>6, <1>7, <1>8, <1>9, <1>10, <1>11, <1>12, <1>13 DEF Next, Host

-----------------------------------------------------------------------------
(* The owner *)

\* While no supervisor was killed alone, one run at a time has a watcher.
LEMMA OneWatcher ==
    ASSUME SupOK, ChildOK, killed = {}, NEW g \in Gens, NEW h \in Gens,
           ~ChildrenGone(g), ~ChildrenGone(h)
    PROVE  g = h /\ g <= enrolled.gen
  BY DEF SupOK, ChildOK, Holding

\* The conjuncts of OwnerOK about the disk and about one watcher.
DiskOK == disk.owner <= enrolled.gen /\ (disk.cap = "none" => disk.owner = 0)
WatchOK(g) ==
    /\ watch[g].pc \in Writing =>
          watch[g].mem.owner = g /\ watch[g].mem.cap # "none" /\ disk.owner <= g
    /\ watch[g].pc = "fail" /\ (watch[g].prev.owner = g \/ watch[g].prev.cap = "none")
          => disk.owner <= g

\* A step of a watcher leaves its own state and the disk in order.
LEMMA WatcherOwner ==
    ASSUME Shape, SupOK, ChildOK, OwnerOK, killed = {}, NEW g \in Gens, Watcher(g)
    PROVE  disk'.owner >= disk.owner /\ DiskOK' /\ WatchOK(g)'
<1> USE DEF DiskOK, WatchOK, Writing
<1>1. /\ watch[g] \in WatchRec /\ watch \in [Gens -> WatchRec] /\ disk \in StateI
      /\ watch[g].mem \in StateI /\ watch[g].prev \in StateI /\ disk' \in StateI
  BY WatcherShape DEF Shape, WatchRec
<1>2. g \in Int /\ enrolled.gen \in Int /\ disk.owner \in Int /\ disk'.owner \in Int
  BY <1>1, GensInt DEF Shape, StateI
<1>3. DiskOK /\ WatchOK(g)
  BY DEF OwnerOK
<1>4. g <= enrolled.gen /\ UNCHANGED enrolled
  <2>1. ~ChildrenGone(g) /\ UNCHANGED enrolled
    BY DEF ChildrenGone, Watcher, Load, Poll, Save, Write, PublishCandidate, Hook, Acknowledge,
           AdvanceCursor, Fail, WatchRest
  <2> QED BY <2>1, OneWatcher
<1>5. \A s \in StateI :
        /\ Adopted(g, s) \in StateI
        /\ Adopted(g, s).cap # "none"
        /\ s.cap = "none" \/ s.owner = g => Adopted(g, s).owner = g
        /\ ~Adopted(g, s).gaps => Adopted(g, s).owner = g
        /\ Adopted(g, s).owner = g /\ s.owner # g /\ s.cap # "none" => enrolled.gen = g
  BY AdoptedShape, AdoptedOwner, Zenon
<1> DEFINE Mine(w) == w.pc \in Writing => w.mem.owner = g /\ w.mem.cap # "none"
<1>a. ASSUME UNCHANGED disk, disk.owner <= g, Mine(watch'[g])
      PROVE  disk'.owner >= disk.owner /\ DiskOK' /\ WatchOK(g)'
  <2>1. disk'.owner = disk.owner /\ disk'.cap = disk.cap /\ disk'.owner <= g
    BY <1>a
  <2> QED BY <1>2, <1>3, <1>4, <1>a, <2>1
<1>b. watch[g].pc \in Writing => /\ watch[g].mem.owner = g /\ watch[g].mem.cap # "none"
                                /\ disk.owner <= g
  BY <1>3
<1>6. CASE Load(g)
  <2> DEFINE s == Adopted(g, disk)
  <2>1. /\ UNCHANGED disk
        /\ watch'[g] = [pc |-> IF s.gaps THEN "fail" ELSE "save", mem |-> s, prev |-> s]
    BY <1>1, <1>6 DEF Load
  <2>2. s.cap # "none"
    BY <1>1, <1>5
  <2>3. ~s.gaps => s.owner = g
    BY <1>1, <1>5
  <2>4. s.owner = g => disk.cap = "none" \/ disk.owner = g \/ enrolled.gen = g
    BY <1>1, <1>5
  <2>5. s.owner = g => disk.owner <= g
    BY <1>2, <1>3, <2>4, GensInt
  <2> HIDE DEF s
  <2> QED BY <1>2, <1>3, <1>4, <2>1, <2>2, <2>3, <2>5
<1>7. CASE Poll(g)
  <2> DEFINE s == Adopted(g, watch[g].mem)
  <2>1. UNCHANGED disk /\ watch[g].pc = "run"
    BY <1>7 DEF Poll
  <2>2. s \in StateI /\ s.owner = g /\ s.cap # "none"
    BY <1>1, <1>3, <1>5, <2>1
  <2>3. /\ [s EXCEPT !.cap = "ready"].owner = g /\ [s EXCEPT !.cap = "ready"].cap = "ready"
        /\ [s EXCEPT !.cap = "retry"].owner = g /\ [s EXCEPT !.cap = "retry"].cap = "retry"
    BY <2>2 DEF StateI
  <2>4. \/ watch'[g].pc = "fail"
        \/ watch'[g].mem.owner = g /\ watch'[g].mem.cap # "none"
    <3>1. \/ watch' = [watch EXCEPT ![g].pc = "fail", ![g].prev = s]
          \/ \E pc \in {"publish", "save"} : \E cap \in {"ready", "retry"} :
                watch' = [watch EXCEPT ![g] = [pc |-> pc, prev |-> s,
                                               mem |-> [s EXCEPT !.cap = cap]]]
      BY <1>7 DEF Poll
    <3> HIDE DEF s
    <3>2. CASE watch' = [watch EXCEPT ![g].pc = "fail", ![g].prev = s]
      BY <1>1, <3>2 DEF WatchRec
    <3>3. CASE \E pc \in {"publish", "save"} : \E cap \in {"ready", "retry"} :
                 watch' = [watch EXCEPT ![g] = [pc |-> pc, prev |-> s,
                                                mem |-> [s EXCEPT !.cap = cap]]]
      <4>1. PICK pc \in {"publish", "save"}, cap \in {"ready", "retry"} :
                watch' = [watch EXCEPT ![g] = [pc |-> pc, prev |-> s,
                                               mem |-> [s EXCEPT !.cap = cap]]]
        BY <3>3
      <4>2. watch'[g].mem = [s EXCEPT !.cap = cap]
        BY <1>1, <4>1
      <4> QED BY <2>3, <4>2
    <3> QED BY <3>1, <3>2, <3>3
  <2>5. disk.owner <= g
    BY <1>3, <2>1
  <2> QED BY <1>a, <2>1, <2>4, <2>5
<1>8. CASE Save(g)
  <2>1. /\ UNCHANGED disk /\ watch[g].pc = "save"
        /\ watch'[g].mem = watch[g].mem /\ watch'[g].pc \in {"write", "fail"}
    BY <1>1, <1>8 DEF Save, WatchGoes, WatchRec
  <2> QED BY <1>a, <1>b, <2>1
<1>9. CASE Write(g)
  <2>1. /\ disk' = watch[g].mem /\ watch[g].pc = "write"
        /\ watch'[g].mem = watch[g].mem /\ watch'[g].pc = "run"
    BY <1>1, <1>9 DEF Write, WatchGoes, WatchRec
  <2> QED BY <1>2, <1>3, <1>4, <2>1
<1>10. CASE PublishCandidate(g)
  <2> DEFINE s == [watch[g].mem EXCEPT !.pend = watch[g].mem.acked + 1, !.phase = "hooking"]
  <2>1. s.owner = watch[g].mem.owner /\ s.cap = watch[g].mem.cap
    BY <1>1 DEF StateI
  <2>2. /\ watch[g].pc = "publish"
        /\ \/ watch' = [watch EXCEPT ![g].pc = "hook", ![g].mem = s] /\ disk' = s
           \/ watch' = [watch EXCEPT ![g].pc = "fail"] /\ UNCHANGED disk
    BY <1>10 DEF PublishCandidate, Holds, WatchGoes
  <2> HIDE DEF s
  <2>3. CASE watch' = [watch EXCEPT ![g].pc = "hook", ![g].mem = s] /\ disk' = s
    <3>1. watch'[g].pc = "hook" /\ watch'[g].mem = s
      BY <1>1, <2>3 DEF WatchRec
    <3> QED BY <1>2, <1>3, <1>4, <2>1, <2>2, <2>3, <3>1
  <2>4. CASE watch' = [watch EXCEPT ![g].pc = "fail"] /\ UNCHANGED disk
    <3>1. watch'[g].pc = "fail"
      BY <1>1, <2>4 DEF WatchRec
    <3> QED BY <1>a, <1>b, <2>2, <2>4, <3>1
  <2> QED BY <2>2, <2>3, <2>4
<1>11. CASE Hook(g)
  <2> DEFINE s == [watch[g].mem EXCEPT !.pend = 0, !.phase = "idle", !.cap = "retry"]
  <2>1. s.owner = watch[g].mem.owner /\ s.cap = "retry"
    BY <1>1 DEF StateI
  <2>2. /\ watch[g].pc = "hook" /\ UNCHANGED disk
        /\ \/ watch' = [watch EXCEPT ![g].pc = "ack"]
           \/ watch' = [watch EXCEPT ![g].pc = "save", ![g].mem = s]
           \/ watch' = [watch EXCEPT ![g].pc = "fail", ![g].prev = disk]
    BY <1>11 DEF Hook, Holds, WatchGoes
  <2> HIDE DEF s
  <2>3. \/ watch'[g].pc = "ack" /\ watch'[g].mem = watch[g].mem
        \/ watch'[g].pc = "save" /\ watch'[g].mem = s
        \/ watch'[g].pc = "fail"
    BY <1>1, <2>2 DEF WatchRec
  <2> QED BY <1>a, <1>b, <2>1, <2>2, <2>3
<1>12. CASE Acknowledge(g)
  <2> DEFINE s == Adopted(g, disk)
  <2>1. s \in StateI /\ s.cap # "none"
    BY <1>1, <1>5
  <2>2. [s EXCEPT !.phase = "acknowledging"].owner = s.owner
        /\ [s EXCEPT !.phase = "acknowledging"].cap = s.cap
    BY <2>1 DEF StateI
  <2>3. /\ watch[g].pc = "ack"
        /\ \/ /\ s.owner = g /\ disk' = [s EXCEPT !.phase = "acknowledging"]
              /\ watch' = [watch EXCEPT ![g].pc = "advance", ![g].mem = disk']
           \/ watch' = [watch EXCEPT ![g].pc = "fail"] /\ UNCHANGED disk
    BY <1>12 DEF Acknowledge, Holds, WatchGoes
  <2> HIDE DEF s
  <2>4. CASE /\ s.owner = g /\ disk' = [s EXCEPT !.phase = "acknowledging"]
             /\ watch' = [watch EXCEPT ![g].pc = "advance", ![g].mem = disk']
    <3>1. watch'[g].pc = "advance" /\ watch'[g].mem = disk'
      BY <1>1, <2>4 DEF WatchRec
    <3>2. disk'.owner = g /\ disk'.cap # "none"
      BY <2>1, <2>2, <2>4
    <3> QED BY <1>2, <1>3, <1>4, <2>3, <3>1, <3>2, GensInt
  <2>5. CASE watch' = [watch EXCEPT ![g].pc = "fail"] /\ UNCHANGED disk
    <3>1. watch'[g].pc = "fail"
      BY <1>1, <2>5 DEF WatchRec
    <3> QED BY <1>a, <1>b, <2>3, <2>5, <3>1
  <2> QED BY <2>3, <2>4, <2>5
<1>13. CASE AdvanceCursor(g)
  <2>1. disk'.owner = watch[g].mem.owner /\ disk'.cap = watch[g].mem.cap
    BY <1>1, <1>13 DEF AdvanceCursor, StateI
  <2>2. /\ watch[g].pc = "advance" /\ \E pc \in {"publish", "save"} :
              watch' = [watch EXCEPT ![g].pc = pc, ![g].mem = disk']
    BY <1>13 DEF AdvanceCursor, Holds
  <2>3. watch'[g].pc \in {"publish", "save"} /\ watch'[g].mem = disk'
    BY <1>1, <2>2 DEF WatchRec
  <2> QED BY <1>2, <1>3, <1>4, <2>1, <2>2, <2>3
<1>14. CASE Fail(g)
  <2> DEFINE s == Adopted(g, watch[g].prev)
  <2>1. s \in StateI
    BY <1>1, <1>5
  <2>2. [s EXCEPT !.cap = "fenced"].owner = s.owner /\ [s EXCEPT !.cap = "fenced"].cap = "fenced"
    BY <2>1 DEF StateI
  <2>3. watch[g].pc = "fail" /\ watch'[g].pc = "gone"
    BY <1>1, <1>14 DEF Fail, WatchGoes, WatchRec
  <2>4. s.owner = g => disk.owner <= g
    BY <1>1, <1>2, <1>3, <1>5, <2>3
  <2>5. \/ s.owner = g /\ disk' = [s EXCEPT !.cap = "fenced"]
        \/ UNCHANGED disk
    BY <1>14 DEF Fail
  <2> HIDE DEF s
  <2>6. CASE s.owner = g /\ disk' = [s EXCEPT !.cap = "fenced"]
    <3>1. disk'.owner = g /\ disk'.cap = "fenced"
      BY <2>2, <2>6
    <3> QED BY <1>2, <1>4, <2>3, <2>4, <2>6, <3>1
  <2>7. CASE UNCHANGED disk
    BY <1>2, <1>3, <1>4, <2>3, <2>7
  <2> QED BY <2>5, <2>6, <2>7
<1> QED
  BY <1>6, <1>7, <1>8, <1>9, <1>10, <1>11, <1>12, <1>13, <1>14 DEF Watcher

\* What the other steps do to the disk and to the watchers.
Elsewhere ==
    /\ disk'.owner = disk.owner /\ (disk'.cap = "none" => disk.cap = "none")
    /\ \A g \in Gens : watch'[g] = watch[g] \/ watch'[g].pc \in {"load", "gone", "none"}
    /\ enrolled.gen <= enrolled'.gen

LEMMA OtherOwner ==
    ASSUME Shape, HostOK, [Next]_vars, \A g \in Gens : ~Watcher(g)
    PROVE  Elsewhere
<1> USE DEF Elsewhere
<1>1. disk \in StateI /\ watch \in [Gens -> WatchRec] /\ enrolled.gen \in Int
  BY DEF Shape, WatchRec
<1>2. CASE UNCHANGED <<disk, watch>> /\ enrolled'.gen >= enrolled.gen
  BY <1>1, <1>2
<1>3. ASSUME NEW g \in Gens, HostStop(g) \/ HostKill(g) \/ ChildDies(g) \/ StartChildren(g)
                                \/ ReapChildren(g)
      PROVE  Elsewhere
  <2>1. UNCHANGED <<disk, enrolled>>
    BY <1>3 DEF HostStop, HostKill, ChildDies, StartChildren, ReapChildren, HostRest, SupRest
  <2>2. \A h \in Gens \ {g} : watch'[h] = watch[h]
    BY <1>1, <1>3 DEF HostStop, HostKill, Killed, ChildDies, StartChildren, ReapChildren
  <2>3. watch'[g] = watch[g] \/ watch'[g].pc \in {"load", "gone", "none"}
    BY <1>1, <1>3 DEF HostStop, HostKill, Killed, ChildDies, StartChildren, ReapChildren, WatchRec
  <2> QED BY <1>1, <2>1, <2>2, <2>3
<1>4. ASSUME NEW g \in Gens, MarkStoppedClean(g) PROVE Elsewhere
  <2>1. UNCHANGED <<watch, enrolled>>
    BY <1>4 DEF MarkStoppedClean, SupRest
  <2>2. disk' = disk \/ disk' = [disk EXCEPT !.cap = "stopped_clean"]
    BY <1>4 DEF MarkStoppedClean
  <2> QED BY <1>1, <2>1, <2>2 DEF StateI
<1>5. ASSUME NEW g \in Gens, Enroll(g) PROVE Elsewhere
  BY <1>1, <1>2, <1>5, GensInt DEF Enroll, Children, HostOK
<1>6. ASSUME NEW g \in Gens,
             HostStart(g) \/ Attest(g) \/ Refuse(g) \/ Spawn(g) \/ HostEnd(g) \/ HostDies(g)
                \/ AcquireOwner(g) \/ PublishRunning(g) \/ FenceOnExit(g) \/ StopSupervisor(g)
                \/ CaptureIntent(g) \/ PublishStopped(g) \/ SignalOrphan(g) \/ SupervisorDies(g)
                \/ Work(g)
      PROVE  UNCHANGED <<disk, watch, enrolled>>
  BY <1>6
     DEF HostStart, Attest, Refuse, Spawn, HostEnd, HostDies, HostRest, Children, AcquireOwner,
         PublishRunning, FenceOnExit, StopSupervisor, CaptureIntent, PublishStopped, SupRest,
         SignalOrphan, SupervisorDies, Work
<1>7. CASE Arrive \/ UNCHANGED vars
  BY <1>1, <1>2, <1>7 DEF Arrive, Children, vars
<1> QED
  BY <1>1, <1>2, <1>3, <1>4, <1>5, <1>6, <1>7 DEF Next, Host, Supervisor

\* A supervisor that was killed alone is not forgotten.
LEMMA KilledGrows == [Next]_vars => killed \subseteq killed'
<1> SUFFICES ASSUME [Next]_vars PROVE killed \subseteq killed'
  OBVIOUS
<1>1. ASSUME NEW g \in Gens, SupervisorDies(g) PROVE killed \subseteq killed'
  BY <1>1 DEF SupervisorDies
<1>2. ASSUME NEW g \in Gens, Host(g) \/ HostStart(g) \/ HostStop(g) \/ HostDies(g) \/ SignalOrphan(g)
      PROVE  UNCHANGED killed
  BY <1>2 DEF Host, HostStart, Attest, Refuse, Enroll, Spawn, HostStop, HostKill, HostEnd,
              HostDies, SignalOrphan, HostRest
<1>3. ASSUME NEW g \in Gens, Supervisor(g) PROVE UNCHANGED killed
  BY <1>3 DEF Supervisor, AcquireOwner, PublishRunning, StartChildren, FenceOnExit,
              StopSupervisor, CaptureIntent, ReapChildren, MarkStoppedClean, PublishStopped, SupRest
<1>4. ASSUME NEW g \in Gens, Watcher(g) \/ Work(g) \/ ChildDies(g) PROVE UNCHANGED killed
  BY <1>4 DEF Watcher, Load, Poll, Save, Write, PublishCandidate, Hook, Acknowledge,
              AdvanceCursor, Fail, WatchRest, Work, ChildDies
<1>5. CASE Arrive \/ UNCHANGED vars
  BY <1>5 DEF Arrive, vars
<1> QED BY <1>1, <1>2, <1>3, <1>4, <1>5 DEF Next

LEMMA OwnerStep ==
    ASSUME Shape, HostOK, SupOK, ChildOK, OwnerOK, [Next]_vars
    PROVE  OwnerOK' /\ (killed = {} => disk'.owner >= disk.owner)
<1>1. killed \subseteq killed'
  BY KilledGrows
<1>2. CASE killed # {}
  BY <1>1, <1>2 DEF OwnerOK
<1>3. CASE killed = {} /\ \E g \in Gens : Watcher(g)
  <2>1. PICK g \in Gens : Watcher(g)
    BY <1>3
  <2>2. disk'.owner >= disk.owner /\ DiskOK' /\ WatchOK(g)'
    BY <1>3, <2>1, WatcherOwner
  <2>3. ~ChildrenGone(g)
    BY <2>1 DEF ChildrenGone, Watcher, Load, Poll, Save, Write, PublishCandidate, Hook,
                Acknowledge, AdvanceCursor, Fail
  <2>4. \A h \in Gens \ {g} : watch[h].pc \in {"none", "gone"}
    BY <1>3, <2>3, OneWatcher DEF ChildrenGone
  <2>5. \A h \in Gens \ {g} : watch'[h] = watch[h]
    BY <2>1
       DEF Watcher, Load, Poll, Save, Write, PublishCandidate, Hook, Acknowledge, AdvanceCursor,
           Fail, WatchGoes, Holds, Shape
  <2> QED BY <2>2, <2>4, <2>5 DEF OwnerOK, DiskOK, WatchOK, Writing
<1>4. CASE killed = {} /\ \A g \in Gens : ~Watcher(g)
  <2>1. Elsewhere
    BY <1>4, OtherOwner
  <2>2. /\ disk.owner \in Int /\ disk'.owner \in Int
        /\ enrolled.gen \in Int /\ enrolled'.gen \in Int
    BY ShapeStep DEF Shape, StateI
  <2> QED BY <1>4, <2>1, <2>2 DEF OwnerOK, Elsewhere, Writing
<1> QED BY <1>2, <1>3, <1>4

-----------------------------------------------------------------------------
(* The theorems *)

(* The locks and the ownership hold in every state.                          *)
THEOREM Invariance == Spec => []IInv
<1>1. Init => IInv
  <2> SUFFICES ASSUME Init PROVE IInv
    OBVIOUS
  <2>1. HostOK /\ SupOK /\ ChildOK /\ OwnerOK
    BY GensInt DEF Init, HostOK, SupOK, ChildOK, OwnerOK, Holding, Writing, ChildrenGone, NoState
  <2> QED BY <2>1, ShapeInit DEF IInv
<1>2. IInv /\ [Next]_vars => IInv'
  BY ShapeStep, HostStep, SupStep, ChildStep, OwnerStep DEF IInv
<1> QED BY <1>1, <1>2, PTL DEF Spec

(* Two workers of a room never run together, unless the supervisor of one    *)
(* was killed alone (AcquireOwner, flock of the room).                       *)
THEOREM WorkersAlone == Spec => []OneWorker
<1>1. IInv => OneWorker
  BY DEF IInv, SupOK, ChildOK, OneWorker, ChildrenGone, Holding
<1> QED BY <1>1, Invariance, PTL

(* The owner of the room's state never goes back to an earlier run, unless a *)
(* supervisor was killed alone: whoever writes holds the lock of the room    *)
(* and took the state over from an earlier run or from its own enrollment.   *)
THEOREM OwnersInOrder == Spec => OwnerAdvances
<1>1. IInv /\ [Next]_vars => [killed = {} => disk'.owner >= disk.owner]_vars
  BY OwnerStep DEF IInv
<1> QED BY <1>1, Invariance, PTL DEF Spec, OwnerAdvances


-----------------------------------------------------------------------------
(* The cursor *)

JobStatus == {"none", "open", "unknown", "done"}

\* Every message up to n is there, and went through the queue or lies below
\* the floor of a run that found nothing to take up.
Covered(n) ==
    /\ n \in 0..rows
    /\ \A r \in 1..n : job[r] # "none" \/ \E floor \in FreshFloors : r <= floor

\* A candidate is the message after the cursor.
StateOK(s) ==
    /\ Covered(s.acked)
    /\ s.phase # "idle" => s.pend = s.acked + 1 /\ s.pend <= rows

RoomShape == rows \in 0..MaxRow /\ job \in [Rows -> JobStatus]

HostCovered(g) ==
    /\ Covered(host[g].auth.floor)
    /\ host[g].pc \in {"new", "attest"} => host[g].auth.kind = "none"

WatchCovered(g) ==
    /\ StateOK(watch[g].mem) /\ StateOK(watch[g].prev)
    /\ watch[g].pc = "publish" => watch[g].mem.acked < rows
    /\ watch[g].pc \in {"hook", "ack", "advance"} => watch[g].mem.phase # "idle"
    /\ watch[g].pc \in {"ack", "advance"} => job[watch[g].mem.pend] # "none"

CursorInv ==
    /\ RoomShape
    /\ StateOK(disk)
    /\ Covered(enrolled.auth.floor)
    /\ \A g \in Gens : HostCovered(g) /\ WatchCovered(g)

\* What one step leaves of the queue and of the fresh floors.
Grows ==
    /\ RoomShape' /\ rows <= rows'
    /\ \A r \in Rows : job[r] # "none" => job'[r] # "none"
    /\ FreshFloors \subseteq FreshFloors'

\* The queue never forgets a message.
LEMMA QueueGrows ==
    ASSUME RoomShape, [Next]_vars
    PROVE  /\ RoomShape' /\ rows <= rows'
           /\ \A r \in Rows : job[r] # "none" => job'[r] # "none"
<1>0. MaxRow \in Nat
  BY BoundsAssumption
<1>1. ASSUME NEW g \in Gens, Host(g) \/ HostStart(g) \/ HostStop(g) \/ HostDies(g) \/ SignalOrphan(g)
      PROVE  UNCHANGED <<rows, job>>
  BY <1>1 DEF Host, HostStart, Attest, Refuse, Enroll, Spawn, HostStop, HostKill, HostEnd,
              HostDies, SignalOrphan, HostRest
<1>2. ASSUME NEW g \in Gens, Supervisor(g) \/ SupervisorDies(g) \/ ChildDies(g)
      PROVE  UNCHANGED <<rows, job>>
  BY <1>2 DEF Supervisor, AcquireOwner, PublishRunning, StartChildren, FenceOnExit, StopSupervisor,
              CaptureIntent, ReapChildren, MarkStoppedClean, PublishStopped, SupRest,
              SupervisorDies, ChildDies
<1>3. ASSUME NEW g \in Gens, Watcher(g), ~Hook(g)
      PROVE  UNCHANGED <<rows, job>>
  BY <1>3 DEF Watcher, Load, Poll, Save, Write, PublishCandidate, Acknowledge, AdvanceCursor,
              Fail, WatchRest
<1>4. CASE UNCHANGED <<rows, job>>
  BY <1>0, <1>4 DEF RoomShape
<1>5. ASSUME NEW g \in Gens, Hook(g)
      PROVE  /\ rows' = rows /\ job' \in [Rows -> JobStatus]
             /\ \A r \in Rows : job[r] # "none" => job'[r] # "none"
  <2>1. rows' = rows
    BY <1>5 DEF Hook, WatchRest
  <2>2. \/ job' = job
        \/ \E r, j : j \in {"open", "done"} /\ job[r] = "none" /\ job' = [job EXCEPT ![r] = j]
    BY <1>5 DEF Hook
  <2> QED BY <2>1, <2>2 DEF RoomShape, JobStatus
<1>6. ASSUME NEW g \in Gens, Work(g)
      PROVE  /\ rows' = rows /\ job' \in [Rows -> JobStatus]
             /\ \A r \in Rows : job[r] # "none" => job'[r] # "none"
  BY <1>6 DEF Work, RoomShape, JobStatus
<1>7. CASE Arrive
  BY <1>0, <1>7 DEF Arrive, RoomShape
<1>8. CASE UNCHANGED vars
  BY <1>4, <1>8 DEF vars
<1> QED
  BY <1>0, <1>1, <1>2, <1>3, <1>4, <1>5, <1>6, <1>7, <1>8 DEF Next, RoomShape

\* A run attests once, and keeps the floor it was given.
LEMMA AuthKept ==
    ASSUME Shape, [Next]_vars, NEW g \in Gens
    PROVE  \/ /\ host'[g].auth = host[g].auth
              /\ host'[g].pc \in {"new", "attest"} => host[g].pc \in {"new", "attest"}
           \/ Attest(g) /\ host'[g].auth \in Attested /\ host'[g].pc = "enroll"
<1>1. host \in [Gens -> [pc : HostPc, auth : AuthorityI]]
  BY DEF Shape
<1>2. CASE UNCHANGED host
  BY <1>2
<1>3. ASSUME NEW h \in Gens, Attest(h)
      PROVE  \/ Attest(g) /\ host'[g].auth \in Attested /\ host'[g].pc = "enroll"
             \/ host'[g] = host[g]
  <2>1. PICK a \in Attested : host' = [host EXCEPT ![h] = [pc |-> "enroll", auth |-> a]]
    BY <1>3 DEF Attest
  <2>2. h = g => host'[g] = [pc |-> "enroll", auth |-> a]
    BY <1>1, <2>1
  <2>3. h # g => host'[g] = host[g]
    BY <1>1, <2>1
  <2> QED BY <1>3, <2>2, <2>3
<1>4. ASSUME NEW h \in Gens, NEW pc, host' = [host EXCEPT ![h].pc = pc],
             pc \in {"new", "attest"} => host[h].pc \in {"new", "attest"}
      PROVE  /\ host'[g].auth = host[g].auth
             /\ host'[g].pc \in {"new", "attest"} => host[g].pc \in {"new", "attest"}
  BY <1>1, <1>4
<1>5. ASSUME NEW h \in Gens,
             HostStart(h) \/ Refuse(h) \/ Enroll(h) \/ Spawn(h) \/ HostStop(h) \/ HostKill(h)
                \/ HostEnd(h) \/ HostDies(h)
      PROVE  \/ UNCHANGED host
             \/ \E pc : /\ host' = [host EXCEPT ![h].pc = pc]
                        /\ pc \in {"new", "attest"} => host[h].pc \in {"new", "attest"}
  BY <1>5 DEF HostStart, Refuse, Enroll, Spawn, HostStop, HostKill, HostEnd, HostDies, HostGoes
<1>6. ASSUME NEW h \in Gens, Supervisor(h) \/ SupervisorDies(h) \/ ChildDies(h) \/ SignalOrphan(h)
                                \/ Work(h)
      PROVE  UNCHANGED host
  BY <1>6 DEF Supervisor, AcquireOwner, PublishRunning, StartChildren, FenceOnExit, StopSupervisor,
              CaptureIntent, ReapChildren, MarkStoppedClean, PublishStopped, SupRest,
              SupervisorDies, ChildDies, SignalOrphan, Work
<1>7. ASSUME NEW h \in Gens, Watcher(h)
      PROVE  UNCHANGED host
  BY <1>7 DEF Watcher, Load, Poll, Save, Write, PublishCandidate, Hook, Acknowledge, AdvanceCursor,
              Fail, WatchRest
<1>8. CASE Arrive \/ UNCHANGED vars
  BY <1>2, <1>8 DEF Arrive, vars
<1> QED
  BY <1>2, <1>3, <1>4, <1>5, <1>6, <1>7, <1>8 DEF Next, Host

LEMMA EverythingGrows ==
    ASSUME Shape, CursorInv, [Next]_vars
    PROVE  Grows
<1>1. ASSUME NEW g \in Gens, host[g].auth.kind = "fresh"
      PROVE  host'[g].auth = host[g].auth
  BY <1>1, AuthKept DEF CursorInv, HostCovered, Attest
<1>2. FreshFloors \subseteq FreshFloors'
  BY <1>1 DEF FreshFloors
<1> QED
  BY <1>2, QueueGrows DEF Grows, CursorInv

\* The same of a value in the state that follows.
CoveredNext(n) ==
    /\ n \in 0..rows'
    /\ \A r \in 1..n : job'[r] # "none" \/ \E floor \in FreshFloors' : r <= floor

StateNext(s) ==
    /\ CoveredNext(s.acked)
    /\ s.phase # "idle" => s.pend = s.acked + 1 /\ s.pend <= rows'

LEMMA CoveredKept ==
    ASSUME RoomShape, Grows
    PROVE  /\ \A n : Covered(n) => CoveredNext(n)
           /\ \A s \in StateI : StateOK(s) => StateNext(s)
<1>0. MaxRow \in Nat
  BY BoundsAssumption
<1>1. ASSUME NEW n, Covered(n) PROVE CoveredNext(n)
  <2>1. n \in 0..rows'
    BY <1>0, <1>1 DEF Covered, RoomShape, Grows
  <2>2. ASSUME NEW r \in 1..n
        PROVE  job'[r] # "none" \/ \E floor \in FreshFloors' : r <= floor
    <3>1. r \in Rows
      BY <1>0, <1>1 DEF Covered, RoomShape, Rows
    <3> QED BY <1>1, <3>1 DEF Covered, Grows
  <2> QED BY <2>1, <2>2 DEF CoveredNext
<1>2. \A s \in StateI : s.pend <= rows => s.pend <= rows'
  BY <1>0 DEF Grows, RoomShape, StateI
<1> QED
  BY <1>1, <1>2 DEF StateOK, StateNext

\* What _state returns is covered when the state it is given is.
LEMMA AdoptedCovered ==
    ASSUME Shape, CursorInv, NEW g \in Gens, NEW s \in StateI, StateOK(s)
    PROVE  StateOK(Adopted(g, s))
<1> DEFINE at(n) == [NoState EXCEPT !.owner = g, !.floor = n, !.acked = n, !.cap = "starting"]
           invalid(t) == [t EXCEPT !.cap = "fenced", !.gaps = TRUE, !.phase = "idle"]
<1>1. \A n \in Int : at(n) \in StateI /\ at(n).acked = n /\ at(n).phase = "idle"
  <2>1. \A n \in Int : at(n) \in StateI
    BY StartingState
  <2>2. NoState.phase = "idle" /\ DOMAIN NoState = {"owner", "floor", "acked", "pend", "phase", "cap", "gaps"}
    BY DEF NoState
  <2> QED BY <2>1, <2>2 DEF NoState
<1>2. \A t \in StateI : invalid(t) \in StateI /\ invalid(t).acked = t.acked /\ invalid(t).phase = "idle"
  BY DEF StateI
<1>3. s.acked \in Int /\ enrolled.auth.floor \in Int /\ host[g].auth.floor \in Int
  BY DEF Shape, AuthorityI, StateI
<1>4. Covered(s.acked) /\ Covered(enrolled.auth.floor) /\ Covered(host[g].auth.floor)
  BY DEF StateOK, CursorInv, HostCovered
<1> HIDE DEF at, invalid
<1>5. Adopted(g, s) \in {at(s.acked), at(enrolled.auth.floor), s, invalid(s)}
                        \cup {invalid(at(host[g].auth.floor))}
  BY DEF Adopted, at, invalid
<1>6. \A x \in StateI : x.phase = "idle" /\ Covered(x.acked) => StateOK(x)
  BY DEF StateOK
<1>7. /\ StateOK(at(s.acked)) /\ StateOK(at(enrolled.auth.floor)) /\ StateOK(invalid(s))
      /\ StateOK(invalid(at(host[g].auth.floor)))
  BY <1>1, <1>2, <1>3, <1>4, <1>6
<1> QED BY <1>5, <1>7

LEMMA CursorInit == Init => CursorInv
<1> SUFFICES ASSUME Init PROVE CursorInv
  OBVIOUS
<1>1. MaxRow \in Nat /\ 0 \in 0..rows /\ rows \in 0..1 /\ rows \in Int
  BY BoundsAssumption DEF Init
<1>2. Covered(0)
  BY <1>1 DEF Covered
<1>3. StateOK(NoState) /\ Covered(NoAuthority.floor) /\ NoAuthority.kind = "none"
  BY <1>2 DEF StateOK, NoState, NoAuthority
<1>4. RoomShape
  BY <1>1, BoundsAssumption DEF Init, RoomShape, JobStatus
<1> HIDE DEF NoState, NoAuthority
<1>5. ASSUME NEW g \in Gens PROVE HostCovered(g) /\ WatchCovered(g)
  BY <1>3 DEF Init, HostCovered, WatchCovered
<1> QED
  BY <1>3, <1>4, <1>5 DEF CursorInv, Init

\* A run is given a floor that is covered; a fresh one covers the room itself.
LEMMA AttestedCovered ==
    ASSUME Shape, CursorInv, [Next]_vars, Grows, NEW g \in Gens, Attest(g),
           host'[g].auth \in Attested
    PROVE  CoveredNext(host'[g].auth.floor)
<1> DEFINE a == host'[g].auth
<1>1. UNCHANGED <<rows, job>>
  BY DEF Attest, HostRest
<1>2. \/ a.kind = "fresh" /\ a.floor = rows
      \/ a.floor = disk.acked
  BY DEF Attested
<1>3. CASE a.floor = disk.acked
  BY <1>3, CoveredKept DEF CursorInv, StateOK, Covered
<1>4. CASE a.kind = "fresh" /\ a.floor = rows
  <2>1. rows \in FreshFloors'
    BY <1>4 DEF FreshFloors
  <2>2. rows \in 0..rows' /\ rows \in Int /\ rows' = rows
    BY <1>1, BoundsAssumption DEF CursorInv, RoomShape
  <2> QED BY <1>4, <2>1, <2>2 DEF CoveredNext
<1> QED BY <1>2, <1>3, <1>4

LEMMA HostCursor ==
    ASSUME Shape, CursorInv, [Next]_vars, Grows
    PROVE  Covered(enrolled.auth.floor)' /\ \A g \in Gens : HostCovered(g)'
<1>0. \A n : Covered(n) => CoveredNext(n)
  BY CoveredKept DEF CursorInv
<1>1. ASSUME NEW g \in Gens PROVE HostCovered(g)'
  <2>1. CASE Attest(g) /\ host'[g].auth \in Attested /\ host'[g].pc = "enroll"
    <3>1. CoveredNext(host'[g].auth.floor)
      BY <2>1, AttestedCovered
    <3> QED BY <2>1, <3>1 DEF HostCovered, Covered, CoveredNext
  <2>2. CASE /\ host'[g].auth = host[g].auth
             /\ host'[g].pc \in {"new", "attest"} => host[g].pc \in {"new", "attest"}
    <3>1. Covered(host[g].auth.floor) /\ (host[g].pc \in {"new", "attest"} => host[g].auth.kind = "none")
      BY DEF CursorInv, HostCovered
    <3>2. CoveredNext(host'[g].auth.floor)
      BY <1>0, <2>2, <3>1
    <3> QED BY <2>2, <3>1, <3>2 DEF HostCovered, Covered, CoveredNext
  <2> QED BY <2>1, <2>2, AuthKept
<1>2. Covered(enrolled.auth.floor)'
  <2>1. \/ enrolled' = enrolled
        \/ \E g \in Gens : enrolled'.auth = host[g].auth
    <3>1. ASSUME NEW g \in Gens, Enroll(g) PROVE enrolled'.auth = host[g].auth
      BY <3>1 DEF Enroll
    <3>2. ASSUME NEW g \in Gens, Host(g) \/ HostStart(g) \/ HostStop(g) \/ HostDies(g)
                                    \/ SignalOrphan(g), ~Enroll(g)
          PROVE  enrolled' = enrolled
      BY <3>2 DEF Host, HostStart, Attest, Refuse, Spawn, HostStop, HostKill, HostEnd,
                  HostDies, SignalOrphan, HostRest
    <3>3. ASSUME NEW g \in Gens, Supervisor(g) \/ SupervisorDies(g) \/ ChildDies(g) \/ Work(g)
          PROVE  enrolled' = enrolled
      BY <3>3 DEF Supervisor, AcquireOwner, PublishRunning, StartChildren, FenceOnExit,
                  StopSupervisor, CaptureIntent, ReapChildren, MarkStoppedClean, PublishStopped,
                  SupRest, SupervisorDies, ChildDies, Work
    <3>4. ASSUME NEW g \in Gens, Watcher(g)
          PROVE  enrolled' = enrolled
      BY <3>4 DEF Watcher, Load, Poll, Save, Write, PublishCandidate, Hook, Acknowledge,
                  AdvanceCursor, Fail, WatchRest
    <3>5. CASE Arrive \/ UNCHANGED vars
      BY <3>5 DEF Arrive, vars
    <3> QED BY <3>1, <3>2, <3>3, <3>4, <3>5 DEF Next
  <2>2. Covered(enrolled'.auth.floor)
    BY <2>1 DEF CursorInv, HostCovered
  <2>3. CoveredNext(enrolled'.auth.floor)
    BY <1>0, <2>2
  <2> QED BY <2>3 DEF Covered, CoveredNext
<1> QED BY <1>1, <1>2

-----------------------------------------------------------------------------
(* The watcher and the cursor *)

WatchNext(g) ==
    /\ StateNext(watch'[g].mem) /\ StateNext(watch'[g].prev)
    /\ watch'[g].pc = "publish" => watch'[g].mem.acked < rows'
    /\ watch'[g].pc \in {"hook", "ack", "advance"} => watch'[g].mem.phase # "idle"
    /\ watch'[g].pc \in {"ack", "advance"} => job'[watch'[g].mem.pend] # "none"

LEMMA WatcherCursor ==
    ASSUME Shape, CursorInv, Grows, NEW g \in Gens, Watcher(g)
    PROVE  StateNext(disk') /\ WatchNext(g)
<1>1. /\ disk \in StateI /\ watch \in [Gens -> WatchRec]
      /\ watch[g].mem \in StateI /\ watch[g].prev \in StateI
      /\ rows \in Int /\ rows' \in Int /\ rows <= rows' /\ rows <= MaxRow /\ MaxRow \in Int
  BY BoundsAssumption DEF Shape, WatchRec, CursorInv, RoomShape, Grows
<1>2. /\ \A n : Covered(n) => CoveredNext(n)
      /\ \A s \in StateI : StateOK(s) => StateNext(s)
  BY CoveredKept DEF CursorInv
<1>3. StateOK(disk) /\ StateOK(watch[g].mem) /\ StateOK(watch[g].prev)
  BY DEF CursorInv, WatchCovered
<1>4. StateNext(disk) /\ StateNext(watch[g].mem) /\ StateNext(watch[g].prev)
  BY <1>1, <1>2, <1>3
<1>5. \A s \in StateI : StateOK(s) => Adopted(g, s) \in StateI /\ StateOK(Adopted(g, s))
  BY AdoptedShape, AdoptedCovered
<1>6. \A s, t \in StateI : StateNext(s) /\ t.acked = s.acked
                             /\ (t.phase = "idle" \/ (t.phase = s.phase /\ t.pend = s.pend))
                           => StateNext(t)
  BY DEF StateNext
<1>7. \A c \in {"ready", "retry", "fenced"} : \A s \in StateI :
         LET t == [s EXCEPT !.cap = c]
         IN  t \in StateI /\ t.acked = s.acked /\ t.phase = s.phase /\ t.pend = s.pend
  BY DEF StateI
<1>8. CASE Load(g)
  <2> DEFINE s == Adopted(g, disk)
  <2>1. StateNext(s)
    BY <1>1, <1>2, <1>3, <1>5
  <2>2. /\ UNCHANGED disk
        /\ \E pc \in {"fail", "save"} :
              watch' = [watch EXCEPT ![g] = [pc |-> pc, mem |-> s, prev |-> s]]
    BY <1>8 DEF Load
  <2> HIDE DEF s
  <2>3. watch'[g].pc \in {"fail", "save"} /\ watch'[g].mem = s /\ watch'[g].prev = s
    BY <1>1, <2>2
  <2> QED BY <1>4, <2>1, <2>2, <2>3 DEF WatchNext
<1>9. CASE Poll(g)
  <2> DEFINE s == Adopted(g, watch[g].mem)
             ready == [s EXCEPT !.cap = "ready"]
             retry == [s EXCEPT !.cap = "retry"]
  <2>1. s \in StateI /\ StateNext(s)
    BY <1>1, <1>2, <1>3, <1>5
  <2>2. /\ StateNext(ready) /\ StateNext(retry) /\ ready.acked = s.acked
    BY <1>6, <1>7, <2>1
  <2>3. /\ UNCHANGED disk
        /\ \/ watch' = [watch EXCEPT ![g].pc = "fail", ![g].prev = s]
           \/ watch' = [watch EXCEPT ![g] = [pc |-> "save", prev |-> s, mem |-> retry]]
           \/ watch' = [watch EXCEPT ![g] =
                 [pc |-> IF s.acked < rows THEN "publish" ELSE "save", prev |-> s, mem |-> ready]]
    BY <1>9 DEF Poll
  <2> HIDE DEF s, ready, retry
  <2>4. CASE watch' = [watch EXCEPT ![g].pc = "fail", ![g].prev = s]
    <3>1. watch'[g].pc = "fail" /\ watch'[g].prev = s /\ watch'[g].mem = watch[g].mem
      BY <1>1, <2>4 DEF WatchRec
    <3> QED BY <1>4, <2>1, <2>3, <3>1 DEF WatchNext
  <2>5. CASE watch' = [watch EXCEPT ![g] = [pc |-> "save", prev |-> s, mem |-> retry]]
    <3>1. watch'[g].pc = "save" /\ watch'[g].prev = s /\ watch'[g].mem = retry
      BY <1>1, <2>5
    <3> QED BY <1>4, <2>1, <2>2, <2>3, <3>1 DEF WatchNext
  <2>6. CASE watch' = [watch EXCEPT ![g] =
                 [pc |-> IF s.acked < rows THEN "publish" ELSE "save", prev |-> s, mem |-> ready]]
    <3>1. /\ watch'[g].pc = IF s.acked < rows THEN "publish" ELSE "save"
          /\ watch'[g].prev = s /\ watch'[g].mem = ready
      BY <1>1, <2>6
    <3>2. s.acked \in Int
      BY <2>1 DEF StateI
    <3> QED BY <1>1, <1>4, <2>1, <2>2, <2>3, <3>1, <3>2 DEF WatchNext
  <2> QED BY <2>3, <2>4, <2>5, <2>6
<1>10. CASE Save(g)
  <2>1. /\ UNCHANGED disk /\ watch'[g].mem = watch[g].mem /\ watch'[g].prev = watch[g].prev
        /\ watch'[g].pc \in {"write", "fail"}
    BY <1>1, <1>10 DEF Save, WatchGoes, WatchRec
  <2> QED BY <1>4, <2>1 DEF WatchNext
<1>11. CASE Write(g)
  <2>1. /\ disk' = watch[g].mem /\ watch'[g].mem = watch[g].mem /\ watch'[g].prev = watch[g].prev
        /\ watch'[g].pc = "run"
    BY <1>1, <1>11 DEF Write, WatchGoes, WatchRec
  <2> QED BY <1>4, <2>1 DEF WatchNext
<1>12. CASE PublishCandidate(g)
  <2> DEFINE s == [watch[g].mem EXCEPT !.pend = watch[g].mem.acked + 1, !.phase = "hooking"]
  <2>1. /\ s.acked = watch[g].mem.acked /\ s.pend = watch[g].mem.acked + 1 /\ s.phase = "hooking"
        /\ watch[g].mem.acked \in Int
    BY <1>1 DEF StateI
  <2>2. /\ watch[g].pc = "publish"
        /\ \/ watch' = [watch EXCEPT ![g].pc = "hook", ![g].mem = s] /\ disk' = s
           \/ watch' = [watch EXCEPT ![g].pc = "fail"] /\ UNCHANGED disk
    BY <1>12 DEF PublishCandidate, Holds, WatchGoes
  <2> HIDE DEF s
  <2>3. s.pend <= rows'
    BY <1>1, <2>1, <2>2 DEF CursorInv, WatchCovered
  <2>4. StateNext(s)
    BY <1>4, <2>1, <2>3 DEF StateNext
  <2>5. CASE watch' = [watch EXCEPT ![g].pc = "hook", ![g].mem = s] /\ disk' = s
    <3>1. watch'[g].pc = "hook" /\ watch'[g].mem = s /\ watch'[g].prev = watch[g].prev
      BY <1>1, <2>5 DEF WatchRec
    <3> QED BY <1>4, <2>1, <2>4, <2>5, <3>1 DEF WatchNext
  <2>6. CASE watch' = [watch EXCEPT ![g].pc = "fail"] /\ UNCHANGED disk
    <3>1. watch'[g].pc = "fail" /\ watch'[g].mem = watch[g].mem /\ watch'[g].prev = watch[g].prev
      BY <1>1, <2>6 DEF WatchRec
    <3> QED BY <1>4, <2>6, <3>1 DEF WatchNext
  <2> QED BY <2>2, <2>5, <2>6
<1>13. CASE Hook(g)
  <2> DEFINE s == [watch[g].mem EXCEPT !.pend = 0, !.phase = "idle", !.cap = "retry"]
             r == watch[g].mem.pend
  <2>1. s.acked = watch[g].mem.acked /\ s.phase = "idle"
    BY <1>1 DEF StateI
  <2>2. StateNext(s)
    BY <1>4, <2>1 DEF StateNext
  <2>3. /\ watch[g].pc = "hook" /\ UNCHANGED disk
        /\ \/ /\ watch' = [watch EXCEPT ![g].pc = "ack"]
              /\ \/ job[r] = "none" /\ \E j \in {"open", "done"} : job' = [job EXCEPT ![r] = j]
                 \/ job[r] # "none" /\ UNCHANGED job
           \/ watch' = [watch EXCEPT ![g].pc = "save", ![g].mem = s]
           \/ watch' = [watch EXCEPT ![g].pc = "fail", ![g].prev = disk]
    BY <1>13 DEF Hook, Holds, WatchGoes
  <2>4. r \in Rows /\ watch[g].mem.phase # "idle"
    <3>1. /\ watch[g].mem.phase # "idle" /\ r = watch[g].mem.acked + 1 /\ r <= rows
          /\ watch[g].mem.acked \in 0..rows
      BY <1>3, <2>3 DEF CursorInv, WatchCovered, StateOK, Covered
    <3> QED BY <1>1, <3>1 DEF Rows
  <2> HIDE DEF s, r
  <2>5. CASE /\ watch' = [watch EXCEPT ![g].pc = "ack"]
             /\ \/ job[r] = "none" /\ \E j \in {"open", "done"} : job' = [job EXCEPT ![r] = j]
                \/ job[r] # "none" /\ UNCHANGED job
    <3>1. watch'[g].pc = "ack" /\ watch'[g].mem = watch[g].mem /\ watch'[g].prev = watch[g].prev
      BY <1>1, <2>5 DEF WatchRec
    <3>2. job'[r] # "none"
      BY <2>4, <2>5 DEF CursorInv, RoomShape
    <3> QED BY <1>4, <2>3, <2>4, <3>1, <3>2 DEF WatchNext, r
  <2>6. CASE watch' = [watch EXCEPT ![g].pc = "save", ![g].mem = s]
    <3>1. watch'[g].pc = "save" /\ watch'[g].mem = s /\ watch'[g].prev = watch[g].prev
      BY <1>1, <2>6 DEF WatchRec
    <3> QED BY <1>4, <2>2, <2>3, <3>1 DEF WatchNext
  <2>7. CASE watch' = [watch EXCEPT ![g].pc = "fail", ![g].prev = disk]
    <3>1. watch'[g].pc = "fail" /\ watch'[g].mem = watch[g].mem /\ watch'[g].prev = disk
      BY <1>1, <2>7 DEF WatchRec
    <3> QED BY <1>4, <2>3, <3>1 DEF WatchNext
  <2> QED BY <2>3, <2>5, <2>6, <2>7
<1>14. CASE Acknowledge(g)
  <2> DEFINE s == Adopted(g, disk)
             t == [s EXCEPT !.phase = "acknowledging"]
  <2>1. s \in StateI /\ StateOK(s) /\ StateNext(s)
    BY <1>1, <1>2, <1>3, <1>5
  <2>2. t.phase = "acknowledging" /\ t.acked = s.acked /\ t.pend = s.pend
    BY <2>1 DEF StateI
  <2>3. /\ watch[g].pc = "ack" /\ UNCHANGED job
        /\ \/ /\ s.phase = "hooking" /\ s.pend = watch[g].mem.pend
              /\ disk' = t
              /\ watch' = [watch EXCEPT ![g].pc = "advance", ![g].mem = t]
           \/ watch' = [watch EXCEPT ![g].pc = "fail"] /\ UNCHANGED disk
    BY <1>14 DEF Acknowledge, Holds, WatchGoes, WatchRest
  <2> HIDE DEF s, t
  <2>4. CASE /\ s.phase = "hooking" /\ s.pend = watch[g].mem.pend
             /\ disk' = t
             /\ watch' = [watch EXCEPT ![g].pc = "advance", ![g].mem = t]
    <3>1. watch'[g].pc = "advance" /\ watch'[g].mem = t /\ watch'[g].prev = watch[g].prev
      BY <1>1, <2>4 DEF WatchRec
    <3>2. StateNext(t)
      BY <2>1, <2>2, <2>4 DEF StateNext
    <3>3. job'[t.pend] # "none"
      BY <2>2, <2>3, <2>4 DEF CursorInv, WatchCovered
    <3> QED BY <1>4, <2>2, <2>4, <3>1, <3>2, <3>3 DEF WatchNext
  <2>5. CASE watch' = [watch EXCEPT ![g].pc = "fail"] /\ UNCHANGED disk
    <3>1. watch'[g].pc = "fail" /\ watch'[g].mem = watch[g].mem /\ watch'[g].prev = watch[g].prev
      BY <1>1, <2>5 DEF WatchRec
    <3> QED BY <1>4, <2>5, <3>1 DEF WatchNext
  <2> QED BY <2>3, <2>4, <2>5
<1>15. CASE AdvanceCursor(g)
  <2> DEFINE m == watch[g].mem
             s == [m EXCEPT !.acked = m.pend, !.pend = 0, !.phase = "idle"]
  <2>1. s.acked = m.pend /\ s.phase = "idle" /\ m.pend \in Int
    <3>1. \A x \in StateI :
            LET y == [x EXCEPT !.acked = x.pend, !.pend = 0, !.phase = "idle"]
            IN  y.acked = x.pend /\ y.phase = "idle" /\ x.pend \in Int
      BY DEF StateI
    <3> QED BY <1>1, <3>1
  <2>2. /\ watch[g].pc = "advance" /\ disk' = s /\ UNCHANGED <<rows, job>>
        /\ \E more \in {FALSE, s.acked < rows} :
              watch' = [watch EXCEPT ![g].pc = IF more THEN "publish" ELSE "save", ![g].mem = s]
    BY <1>15 DEF AdvanceCursor, Holds, WatchRest
  <2>3. /\ m.pend = m.acked + 1 /\ m.pend <= rows /\ job[m.pend] # "none" /\ Covered(m.acked)
    BY <1>3, <2>2 DEF CursorInv, WatchCovered, StateOK
  <2> HIDE DEF s, m
  <2>4. CoveredNext(m.pend)
    <3>1. CoveredNext(m.acked) /\ m.acked \in 0..rows /\ m.pend \in 0..rows'
      BY <1>1, <1>2, <2>2, <2>3 DEF Covered
    <3>2. \A r \in 1..m.pend : r \in 1..m.acked \/ r = m.pend
      BY <1>1, <2>3, <3>1
    <3> QED BY <2>2, <2>3, <3>1, <3>2 DEF CoveredNext
  <2>5. StateNext(s)
    BY <2>1, <2>4 DEF StateNext
  <2>6. /\ watch'[g].pc \in {"publish", "save"} /\ watch'[g].mem = s
        /\ watch'[g].prev = watch[g].prev
        /\ watch'[g].pc = "publish" => s.acked < rows
    BY <1>1, <2>2 DEF WatchRec
  <2> QED BY <1>1, <1>4, <2>2, <2>5, <2>6 DEF WatchNext
<1>16. CASE Fail(g)
  <2> DEFINE s == Adopted(g, watch[g].prev)
             t == [s EXCEPT !.cap = "fenced"]
  <2>1. s \in StateI /\ StateNext(s)
    BY <1>1, <1>2, <1>3, <1>5
  <2>2. StateNext(t)
    BY <1>6, <1>7, <2>1
  <2>3. /\ disk' = t \/ disk' = disk
        /\ watch' = [watch EXCEPT ![g].pc = "gone"]
    BY <1>16 DEF Fail, WatchGoes
  <2> HIDE DEF s, t
  <2>4. watch'[g].pc = "gone" /\ watch'[g].mem = watch[g].mem /\ watch'[g].prev = watch[g].prev
    BY <1>1, <2>3 DEF WatchRec
  <2> QED BY <1>4, <2>2, <2>3, <2>4 DEF WatchNext
<1> QED
  BY <1>8, <1>9, <1>10, <1>11, <1>12, <1>13, <1>14, <1>15, <1>16 DEF Watcher

\* A watcher that does nothing, or is started or stopped.
LEMMA IdleWatch ==
    ASSUME Shape, CursorInv, Grows, NEW g \in Gens,
           watch'[g].mem = watch[g].mem, watch'[g].prev = watch[g].prev,
           watch'[g].pc = watch[g].pc \/ watch'[g].pc \in {"load", "gone", "none"}
    PROVE  WatchNext(g)
<1>1. \A s \in StateI : StateOK(s) => StateNext(s)
  BY CoveredKept DEF CursorInv
<1>2. /\ watch[g].mem \in StateI /\ watch[g].prev \in StateI
      /\ StateOK(watch[g].mem) /\ StateOK(watch[g].prev)
  BY DEF Shape, CursorInv, WatchCovered
<1>3. /\ watch[g].pc = "publish" => watch[g].mem.acked < rows
      /\ watch[g].pc \in {"hook", "ack", "advance"} => watch[g].mem.phase # "idle"
      /\ watch[g].pc \in {"ack", "advance"} => job[watch[g].mem.pend] # "none"
  BY DEF CursorInv, WatchCovered
<1>4. watch[g].pc \in {"ack", "advance"} => job'[watch[g].mem.pend] # "none"
  <2>1. CASE watch[g].pc \in {"ack", "advance"}
    <3>1. watch[g].mem.pend = watch[g].mem.acked + 1 /\ watch[g].mem.pend <= rows
          /\ watch[g].mem.acked \in 0..rows
      BY <1>2, <1>3, <2>1 DEF StateOK, Covered
    <3>2. watch[g].mem.pend \in Rows
      BY <3>1, BoundsAssumption DEF Rows, CursorInv, RoomShape
    <3> QED BY <1>3, <2>1, <3>2 DEF Grows
  <2> QED BY <2>1
<1>5. watch[g].pc = "publish" => watch[g].mem.acked < rows'
  BY <1>2, <1>3, BoundsAssumption DEF StateI, Grows, CursorInv, RoomShape
<1> QED BY <1>1, <1>2, <1>3, <1>4, <1>5 DEF WatchNext

\* The other steps leave the states alone, but for a clean stop.
LEMMA UntouchedByOthers ==
    ASSUME Shape, [Next]_vars, \A g \in Gens : ~Watcher(g)
    PROVE  /\ disk' = disk \/ disk' = [disk EXCEPT !.cap = "stopped_clean"]
           /\ \A g \in Gens :
                 /\ watch'[g].mem = watch[g].mem /\ watch'[g].prev = watch[g].prev
                 /\ watch'[g].pc = watch[g].pc \/ watch'[g].pc \in {"load", "gone", "none"}
<1>1. disk \in StateI /\ watch \in [Gens -> WatchRec]
  BY DEF Shape, WatchRec
<1>2. CASE UNCHANGED <<disk, watch>>
  BY <1>2
<1>3. ASSUME NEW g \in Gens, HostStop(g) \/ HostKill(g) \/ ChildDies(g) \/ StartChildren(g)
                                \/ ReapChildren(g)
      PROVE  /\ UNCHANGED disk
             /\ \A h \in Gens :
                   /\ watch'[h].mem = watch[h].mem /\ watch'[h].prev = watch[h].prev
                   /\ watch'[h].pc = watch[h].pc \/ watch'[h].pc \in {"load", "gone", "none"}
  <2>1. UNCHANGED disk
    BY <1>3 DEF HostStop, HostKill, ChildDies, StartChildren, ReapChildren, HostRest, SupRest
  <2>2. \/ watch' = watch
        \/ \E pc \in {watch[g].pc, "load", "gone"} : watch' = [watch EXCEPT ![g].pc = pc]
    BY <1>3 DEF HostStop, HostKill, Killed, ChildDies, StartChildren, ReapChildren
  <2> QED BY <1>1, <2>1, <2>2 DEF WatchRec
<1>4. ASSUME NEW g \in Gens, MarkStoppedClean(g)
      PROVE  /\ UNCHANGED watch
             /\ disk' = disk \/ disk' = [disk EXCEPT !.cap = "stopped_clean"]
  BY <1>4 DEF MarkStoppedClean
<1>5. ASSUME NEW g \in Gens,
             HostStart(g) \/ Attest(g) \/ Refuse(g) \/ Enroll(g) \/ Spawn(g) \/ HostEnd(g)
                \/ HostDies(g) \/ AcquireOwner(g) \/ PublishRunning(g) \/ FenceOnExit(g)
                \/ StopSupervisor(g) \/ CaptureIntent(g) \/ PublishStopped(g)
                \/ SignalOrphan(g) \/ SupervisorDies(g) \/ Work(g)
      PROVE  UNCHANGED <<disk, watch>>
  BY <1>5
     DEF HostStart, Attest, Refuse, Enroll, Spawn, HostEnd, HostDies, HostRest, Children,
         AcquireOwner, PublishRunning, FenceOnExit, StopSupervisor, CaptureIntent, PublishStopped,
         SupRest, SignalOrphan, SupervisorDies, Work
<1>6. CASE Arrive \/ UNCHANGED vars
  BY <1>2, <1>6 DEF Arrive, Children, vars
<1> QED
  BY <1>2, <1>3, <1>4, <1>5, <1>6 DEF Next, Host, Supervisor

LEMMA OnlyMarkWrites ==
    ASSUME [Next]_vars, \A g \in Gens : ~Watcher(g), disk' # disk
    PROVE  \E g \in Gens : MarkStoppedClean(g)
  BY DEF Next, Host, Supervisor, HostStart, Attest, Refuse, Enroll, Spawn, HostStop, HostKill,
         HostEnd, HostDies, HostRest, AcquireOwner, PublishRunning, StartChildren, FenceOnExit,
         StopSupervisor, CaptureIntent, ReapChildren, PublishStopped, SupRest, SignalOrphan,
         SupervisorDies, ChildDies, Work, Arrive, vars

LEMMA OtherCursor ==
    ASSUME Shape, CursorInv, [Next]_vars, Grows, \A g \in Gens : ~Watcher(g)
    PROVE  StateNext(disk') /\ \A g \in Gens : WatchNext(g)
<1>1. disk \in StateI /\ watch \in [Gens -> WatchRec]
  BY DEF Shape, WatchRec
<1>2. \A s \in StateI : StateOK(s) => StateNext(s)
  BY CoveredKept DEF CursorInv
<1>3. disk' = disk \/ disk' = [disk EXCEPT !.cap = "stopped_clean"]
  BY UntouchedByOthers
<1>4. StateNext(disk')
  <2>1. StateNext(disk)
    BY <1>1, <1>2 DEF CursorInv
  <2>2. disk'.acked = disk.acked /\ disk'.phase = disk.phase /\ disk'.pend = disk.pend
    BY <1>1, <1>3 DEF StateI
  <2> QED BY <2>1, <2>2 DEF StateNext
<1>5. ASSUME NEW g \in Gens PROVE WatchNext(g)
  BY UntouchedByOthers, IdleWatch
<1> QED BY <1>4, <1>5

LEMMA CursorStep ==
    ASSUME Shape, CursorInv, [Next]_vars
    PROVE  CursorInv'
<1>1. Grows
  BY EverythingGrows
<1>2. StateNext(disk') /\ \A g \in Gens : WatchNext(g)
  <2>1. CASE \A g \in Gens : ~Watcher(g)
    BY <1>1, <2>1, OtherCursor
  <2>2. CASE \E g \in Gens : Watcher(g)
    <3>1. PICK g \in Gens : Watcher(g)
      BY <2>2
    <3>2. StateNext(disk') /\ WatchNext(g)
      BY <1>1, <3>1, WatcherCursor
    <3>3. \A h \in Gens \ {g} : watch'[h] = watch[h]
      BY <3>1
         DEF Watcher, Load, Poll, Save, Write, PublishCandidate, Hook, Acknowledge, AdvanceCursor,
             Fail, WatchGoes, Holds, Shape
    <3>4. ASSUME NEW h \in Gens, watch'[h] = watch[h] PROVE WatchNext(h)
      BY <1>1, <3>4, IdleWatch
    <3> QED BY <3>2, <3>3, <3>4
  <2> QED BY <2>1, <2>2
<1>3. RoomShape'
  BY <1>1 DEF Grows
<1>4. Covered(enrolled.auth.floor)' /\ \A g \in Gens : HostCovered(g)'
  BY <1>1, HostCursor
<1>5. StateOK(disk)'
  BY <1>2 DEF StateNext, StateOK, Covered, CoveredNext
<1>6. ASSUME NEW g \in Gens PROVE WatchCovered(g)'
  BY <1>2 DEF WatchNext, WatchCovered, StateNext, StateOK, Covered, CoveredNext
<1> QED
  BY <1>3, <1>4, <1>5, <1>6 DEF CursorInv

(* Every cursor is covered, in every state.                                  *)
THEOREM CursorInvariance == Spec => []CursorInv
<1>1. IInv /\ CursorInv /\ [Next]_vars => CursorInv'
  BY CursorStep DEF IInv
<1> QED BY CursorInit, <1>1, Invariance, PTL DEF Spec

(* No message is passed over by a cursor, on disk or in memory.              *)
THEOREM NeverSkipped == Spec => []NothingSkipped
<1>1. CursorInv => NothingSkipped
  BY DEF CursorInv, StateOK, Covered, WatchCovered, NothingSkipped
<1> QED BY <1>1, CursorInvariance, PTL

-----------------------------------------------------------------------------
(* The clean stop *)

\* What a clean stop leaves: its supervisor is ending, every message is
\* settled, and no watcher is past the adoption of the state.
Quiet == {"none", "load", "save", "write", "fail", "gone"}
DrainedOK ==
    killed = {} =>
        /\ disk.cap = "stopped_clean" =>
              /\ AllTerminal
              /\ disk.owner \in Gens /\ sup[disk.owner].pc \in {"last", "gone"}
              /\ \A g \in Gens : watch[g].pc \in Quiet
        /\ \A g \in Gens : watch[g].pc \in Writing => watch[g].mem.cap # "stopped_clean"

\* Without a watcher that enqueues, settled messages stay settled.
LEMMA SettledStays ==
    ASSUME RoomShape, AllTerminal, [Next]_vars, \A g \in Gens : watch[g].pc \in Quiet
    PROVE  AllTerminal'
<1>1. CASE UNCHANGED job
  BY <1>1 DEF AllTerminal
<1>2. ASSUME NEW g \in Gens, Host(g) \/ HostStart(g) \/ HostStop(g) \/ HostDies(g) \/ SignalOrphan(g)
      PROVE  UNCHANGED job
  BY <1>2 DEF Host, HostStart, Attest, Refuse, Enroll, Spawn, HostStop, HostKill, HostEnd,
              HostDies, SignalOrphan, HostRest
<1>3. ASSUME NEW g \in Gens, Supervisor(g) \/ SupervisorDies(g) \/ ChildDies(g)
      PROVE  UNCHANGED job
  BY <1>3 DEF Supervisor, AcquireOwner, PublishRunning, StartChildren, FenceOnExit, StopSupervisor,
              CaptureIntent, ReapChildren, MarkStoppedClean, PublishStopped, SupRest,
              SupervisorDies, ChildDies
<1>4. ASSUME NEW g \in Gens, Watcher(g)
      PROVE  UNCHANGED job
  BY <1>4 DEF Watcher, Load, Poll, Save, Write, PublishCandidate, Hook, Acknowledge, AdvanceCursor,
              Fail, WatchRest, Quiet
<1>5. ASSUME NEW g \in Gens PROVE ~Work(g)
  BY DEF Work, AllTerminal
<1>6. CASE Arrive \/ UNCHANGED vars
  BY <1>1, <1>6 DEF Arrive, vars
<1> QED
  BY <1>1, <1>2, <1>3, <1>4, <1>5, <1>6 DEF Next

LEMMA AdoptedClean ==
    ASSUME Shape, NEW g \in Gens, NEW s \in StateI, Adopted(g, s).cap = "stopped_clean"
    PROVE  s.cap = "stopped_clean" /\ s.owner = g
<1> DEFINE at(n) == [NoState EXCEPT !.owner = g, !.floor = n, !.acked = n, !.cap = "starting"]
           invalid(t) == [t EXCEPT !.cap = "fenced", !.gaps = TRUE, !.phase = "idle"]
<1>1. \A n \in Int : at(n) \in StateI /\ at(n).cap = "starting"
  BY StartingState
<1>2. \A t \in StateI : invalid(t).cap = "fenced"
  BY DEF StateI
<1>3. s.acked \in Int /\ enrolled.auth.floor \in Int /\ host[g].auth.floor \in Int
  BY DEF Shape, AuthorityI, StateI
<1> HIDE DEF at, invalid
<1>4. \/ Adopted(g, s) \in {at(s.acked), at(enrolled.auth.floor), invalid(s)}
      \/ Adopted(g, s) = invalid(at(host[g].auth.floor))
      \/ Adopted(g, s) = s /\ s.owner = g
  BY DEF Adopted, at, invalid
<1> QED BY <1>1, <1>2, <1>3, <1>4

\* A watcher writes no clean stop, and takes over one that is not its own.
LEMMA WatcherDrained ==
    ASSUME Shape, ChildOK, DrainedOK, killed = {}, NEW g \in Gens, Watcher(g)
    PROVE  /\ disk' = disk \/ disk'.cap # "stopped_clean"
           /\ disk'.cap = "stopped_clean" => watch'[g].pc \in Quiet
           /\ watch'[g].pc \in Writing => watch'[g].mem.cap # "stopped_clean"
<1>1. /\ disk \in StateI /\ watch \in [Gens -> WatchRec]
      /\ watch[g].mem \in StateI /\ watch[g].prev \in StateI
  BY DEF Shape, WatchRec
<1>2. /\ disk.cap = "stopped_clean" => watch[g].pc \in Quiet
      /\ watch[g].pc \in Writing => watch[g].mem.cap # "stopped_clean"
  BY DEF DrainedOK
<1>3. \A s \in StateI : Adopted(g, s) \in StateI
  BY AdoptedShape
<1> USE DEF Quiet, Writing
<1>4. CASE Load(g)
  <2> DEFINE s == Adopted(g, disk)
  <2>1. s.cap # "stopped_clean"
    <3>1. sup[g].pc \in {"up", "fenced", "intent", "reap"}
      BY <1>4 DEF Load, ChildOK, ChildrenGone
    <3>2. disk.cap = "stopped_clean" => disk.owner # g
      BY <3>1 DEF DrainedOK
    <3> QED BY <1>1, <3>2, AdoptedClean
  <2>2. UNCHANGED disk /\ \E pc \in {"fail", "save"} :
              watch' = [watch EXCEPT ![g] = [pc |-> pc, mem |-> s, prev |-> s]]
    BY <1>4 DEF Load
  <2> HIDE DEF s
  <2>3. watch'[g].pc \in {"fail", "save"} /\ watch'[g].mem = s
    BY <1>1, <2>2
  <2> QED BY <2>1, <2>2, <2>3
<1>5. CASE Poll(g)
  <2> DEFINE s == Adopted(g, watch[g].mem)
  <2>1. watch[g].pc = "run" /\ UNCHANGED disk
    BY <1>5 DEF Poll
  <2>2. \A c \in {"ready", "retry"} : [s EXCEPT !.cap = c].cap = c
    BY <1>1, <1>3 DEF StateI
  <2>3. \/ watch' = [watch EXCEPT ![g].pc = "fail", ![g].prev = s]
        \/ \E pc \in {"publish", "save"}, c \in {"ready", "retry"} :
              watch' = [watch EXCEPT ![g] = [pc |-> pc, prev |-> s, mem |-> [s EXCEPT !.cap = c]]]
    BY <1>5 DEF Poll
  <2> HIDE DEF s
  <2>4. \/ watch'[g].pc = "fail"
        \/ \E c \in {"ready", "retry"} : watch'[g].mem = [s EXCEPT !.cap = c]
    BY <1>1, <2>3 DEF WatchRec
  <2> QED BY <1>2, <2>1, <2>2, <2>4
<1>6. CASE Save(g)
  <2>1. /\ UNCHANGED disk /\ watch[g].pc = "save" /\ watch'[g].mem = watch[g].mem
        /\ watch'[g].pc \in {"write", "fail"}
    BY <1>1, <1>6 DEF Save, WatchGoes, WatchRec
  <2> QED BY <1>2, <2>1
<1>7. CASE Write(g)
  <2>1. /\ disk' = watch[g].mem /\ watch[g].pc = "write"
        /\ watch'[g].mem = watch[g].mem /\ watch'[g].pc = "run"
    BY <1>1, <1>7 DEF Write, WatchGoes, WatchRec
  <2> QED BY <1>2, <2>1
<1>8. CASE PublishCandidate(g)
  <2> DEFINE s == [watch[g].mem EXCEPT !.pend = watch[g].mem.acked + 1, !.phase = "hooking"]
  <2>1. s.cap = watch[g].mem.cap
    BY <1>1 DEF StateI
  <2>2. /\ watch[g].pc = "publish"
        /\ \/ watch' = [watch EXCEPT ![g].pc = "hook", ![g].mem = s] /\ disk' = s
           \/ watch' = [watch EXCEPT ![g].pc = "fail"] /\ UNCHANGED disk
    BY <1>8 DEF PublishCandidate, Holds, WatchGoes
  <2> HIDE DEF s
  <2>3. \/ watch'[g].pc = "hook" /\ watch'[g].mem = s /\ disk' = s
        \/ watch'[g].pc = "fail" /\ UNCHANGED disk
    BY <1>1, <2>2 DEF WatchRec
  <2> QED BY <1>2, <2>1, <2>2, <2>3
<1>9. CASE Hook(g)
  <2> DEFINE s == [watch[g].mem EXCEPT !.pend = 0, !.phase = "idle", !.cap = "retry"]
  <2>1. s.cap = "retry"
    BY <1>1 DEF StateI
  <2>2. /\ watch[g].pc = "hook" /\ UNCHANGED disk
        /\ \/ watch' = [watch EXCEPT ![g].pc = "ack"]
           \/ watch' = [watch EXCEPT ![g].pc = "save", ![g].mem = s]
           \/ watch' = [watch EXCEPT ![g].pc = "fail", ![g].prev = disk]
    BY <1>9 DEF Hook, Holds, WatchGoes
  <2> HIDE DEF s
  <2>3. \/ watch'[g].pc = "ack" /\ watch'[g].mem = watch[g].mem
        \/ watch'[g].pc = "save" /\ watch'[g].mem = s
        \/ watch'[g].pc = "fail"
    BY <1>1, <2>2 DEF WatchRec
  <2> QED BY <1>2, <2>1, <2>2, <2>3
<1>10. CASE Acknowledge(g)
  <2> DEFINE s == Adopted(g, disk)
             t == [s EXCEPT !.phase = "acknowledging"]
  <2>1. t.cap = s.cap
    BY <1>1, <1>3 DEF StateI
  <2>2. /\ watch[g].pc = "ack"
        /\ \/ disk' = t /\ watch' = [watch EXCEPT ![g].pc = "advance", ![g].mem = t]
           \/ watch' = [watch EXCEPT ![g].pc = "fail"] /\ UNCHANGED disk
    BY <1>10 DEF Acknowledge, Holds, WatchGoes
  <2>3. s.cap # "stopped_clean"
    BY <1>1, <1>2, <2>2, AdoptedClean
  <2> HIDE DEF s, t
  <2>4. \/ watch'[g].pc = "advance" /\ watch'[g].mem = t /\ disk' = t
        \/ watch'[g].pc = "fail" /\ UNCHANGED disk
    BY <1>1, <2>2 DEF WatchRec
  <2> QED BY <1>2, <2>1, <2>2, <2>3, <2>4
<1>11. CASE AdvanceCursor(g)
  <2>1. disk'.cap = watch[g].mem.cap
    BY <1>1, <1>11 DEF AdvanceCursor, StateI
  <2>2. /\ watch[g].pc = "advance"
        /\ \E pc \in {"publish", "save"} : watch' = [watch EXCEPT ![g].pc = pc, ![g].mem = disk']
    BY <1>11 DEF AdvanceCursor, Holds
  <2>3. watch'[g].mem = disk'
    BY <1>1, <2>2 DEF WatchRec
  <2> QED BY <1>2, <2>1, <2>2, <2>3
<1>12. CASE Fail(g)
  <2> DEFINE t == [Adopted(g, watch[g].prev) EXCEPT !.cap = "fenced"]
  <2>1. t.cap = "fenced"
    BY <1>1, <1>3 DEF StateI
  <2>2. (disk' = t \/ disk' = disk) /\ watch' = [watch EXCEPT ![g].pc = "gone"]
    BY <1>12 DEF Fail, WatchGoes
  <2> HIDE DEF t
  <2>3. watch'[g].pc = "gone"
    BY <1>1, <2>2 DEF WatchRec
  <2> QED BY <2>1, <2>2, <2>3
<1> QED
  BY <1>4, <1>5, <1>6, <1>7, <1>8, <1>9, <1>10, <1>11, <1>12 DEF Watcher

\* A supervisor that is at its end stays there.
LEMMA EndedStays ==
    ASSUME Shape, SupOK, [Next]_vars, NEW g \in Gens, sup[g].pc \in {"last", "gone"}
    PROVE  sup'[g].pc \in {"last", "gone"}
<1>1. sup \in [Gens -> SupRec]
  BY DEF Shape, SupRec
<1>2. CASE UNCHANGED sup
  BY <1>2
<1>3. ASSUME NEW h \in Gens, HostStop(h) \/ HostKill(h) \/ SignalOrphan(h) \/ SupervisorDies(h)
      PROVE  sup'[g].pc \in {"last", "gone"}
  <2>1. \E pc : /\ pc = sup[h].pc \/ pc = "gone"
                /\ \/ sup' = [sup EXCEPT ![h].pc = pc]
                   \/ sup' = [sup EXCEPT ![h].pc = pc, ![h].signal = TRUE]
    BY <1>3 DEF HostStop, HostKill, Killed, SignalOrphan, SupervisorDies, SupGoes
  <2> QED BY <1>1, <2>1 DEF SupRec
<1>4. ASSUME NEW h \in Gens, Spawn(h)
      PROVE  sup'[g] = sup[g]
  <2>1. h # g
    BY <1>4 DEF Spawn, SupOK
  <2> QED BY <1>1, <1>4, <2>1 DEF Spawn
<1>5. ASSUME NEW h \in Gens, Supervisor(h)
      PROVE  sup'[g].pc \in {"last", "gone"}
  <2>1. CASE h # g
    BY <1>1, <1>5, <2>1
       DEF Supervisor, AcquireOwner, PublishRunning, StartChildren, FenceOnExit, StopSupervisor,
           CaptureIntent, ReapChildren, MarkStoppedClean, PublishStopped, SupGoes
  <2>2. CASE h = g
    <3>1. PublishStopped(g)
      BY <1>5, <2>2
         DEF Supervisor, AcquireOwner, PublishRunning, StartChildren, FenceOnExit, StopSupervisor,
             CaptureIntent, ReapChildren, MarkStoppedClean
    <3> QED BY <1>1, <3>1 DEF PublishStopped, SupGoes, SupRec
  <2> QED BY <2>1, <2>2
<1>6. ASSUME NEW h \in Gens,
             HostStart(h) \/ Attest(h) \/ Refuse(h) \/ Enroll(h) \/ HostEnd(h) \/ HostDies(h)
                \/ ChildDies(h) \/ Work(h) \/ Watcher(h)
      PROVE  UNCHANGED sup
  BY <1>6
     DEF HostStart, Attest, Refuse, Enroll, HostEnd, HostDies, Children, ChildDies, Work, Watcher,
         Load, Poll, Save, Write, PublishCandidate, Hook, Acknowledge, AdvanceCursor, Fail, WatchRest
<1>7. CASE Arrive \/ UNCHANGED vars
  BY <1>2, <1>7 DEF Arrive, Children, vars
<1> QED
  BY <1>2, <1>3, <1>4, <1>5, <1>6, <1>7 DEF Next, Host

\* The one step that writes a clean stop.
LEMMA MarkDrained ==
    ASSUME Shape, SupOK, ChildOK, killed = {}, NEW g \in Gens, MarkStoppedClean(g), disk' # disk
    PROVE  /\ AllTerminal' /\ disk'.owner = g /\ sup'[g].pc = "last"
           /\ \A h \in Gens : watch'[h].pc \in Quiet
<1>1. /\ sup[g].pc = "mark" /\ CleanForStop(g, {"ready", "retry"})
      /\ disk' = [disk EXCEPT !.cap = "stopped_clean"]
      /\ UNCHANGED <<job, watch>>
      /\ \E b \in BOOLEAN : sup' = [sup EXCEPT ![g].pc = "last", ![g].clean = b]
  BY DEF MarkStoppedClean, SupRest
<1>2. AllTerminal'
  BY <1>1 DEF CleanForStop, AllTerminal
<1>3. disk'.owner = g
  BY <1>1 DEF CleanForStop, Shape, StateI
<1>4. sup'[g].pc = "last"
  BY <1>1 DEF Shape
<1>5. ASSUME NEW h \in Gens PROVE ChildrenGone(h)
  BY <1>1 DEF SupOK, ChildOK, Holding
<1>6. \A h \in Gens : watch'[h].pc \in Quiet
  BY <1>1, <1>5 DEF ChildrenGone, Quiet
<1> QED
  BY <1>2, <1>3, <1>4, <1>6

LEMMA DrainedStep ==
    ASSUME Shape, SupOK, ChildOK, RoomShape, DrainedOK, [Next]_vars
    PROVE  DrainedOK'
<1>1. SUFFICES ASSUME killed = {}, killed' = {}
               PROVE  /\ disk'.cap = "stopped_clean" =>
                            /\ AllTerminal'
                            /\ disk'.owner \in Gens /\ sup'[disk'.owner].pc \in {"last", "gone"}
                            /\ \A g \in Gens : watch'[g].pc \in Quiet
                      /\ \A g \in Gens : watch'[g].pc \in Writing
                                          => watch'[g].mem.cap # "stopped_clean"
  BY KilledGrows DEF DrainedOK
<1>2. disk.cap = "stopped_clean" =>
            /\ AllTerminal'
            /\ disk.owner \in Gens /\ sup'[disk.owner].pc \in {"last", "gone"}
  BY <1>1, SettledStays, EndedStays DEF DrainedOK
<1>3. CASE \E g \in Gens : Watcher(g)
  <2>1. PICK g \in Gens : Watcher(g)
    BY <1>3
  <2>2. /\ disk' = disk \/ disk'.cap # "stopped_clean"
        /\ disk'.cap = "stopped_clean" => watch'[g].pc \in Quiet
        /\ watch'[g].pc \in Writing => watch'[g].mem.cap # "stopped_clean"
    BY <1>1, <2>1, WatcherDrained
  <2>3. \A h \in Gens \ {g} : watch'[h] = watch[h]
    BY <2>1
       DEF Watcher, Load, Poll, Save, Write, PublishCandidate, Hook, Acknowledge, AdvanceCursor,
           Fail, WatchGoes, Holds, Shape
  <2> QED BY <1>1, <1>2, <2>2, <2>3 DEF DrainedOK
<1>4. CASE \A g \in Gens : ~Watcher(g)
  <2>1. /\ disk' = disk \/ disk' = [disk EXCEPT !.cap = "stopped_clean"]
        /\ \A g \in Gens :
              /\ watch'[g].mem = watch[g].mem
              /\ watch'[g].pc = watch[g].pc \/ watch'[g].pc \in {"load", "gone", "none"}
    BY <1>4, UntouchedByOthers
  <2>2. \A g \in Gens : watch'[g].pc \in Writing => watch'[g].mem.cap # "stopped_clean"
    BY <1>1, <2>1 DEF DrainedOK, Writing
  <2>3. CASE disk' = disk
    BY <1>1, <1>2, <2>1, <2>2, <2>3 DEF DrainedOK, Quiet
  <2>4. CASE disk' # disk
    <3>1. PICK g \in Gens : MarkStoppedClean(g)
      BY <1>4, <2>4, OnlyMarkWrites
    <3> QED BY <1>1, <2>2, <2>4, <3>1, MarkDrained
  <2> QED BY <2>3, <2>4
<1> QED BY <1>3, <1>4

(* A run that takes up a clean stop finds every message settled and nobody   *)
(* of another run who could add to it: while no supervisor was killed alone, *)
(* nobody but its own children runs, and they have nothing to work on.       *)
THEOREM ReplayDrained == Spec => ReplayIsDrained
<1>1. Init => DrainedOK
  BY DEF Init, DrainedOK, NoState, Writing
<1>2. IInv /\ CursorInv /\ DrainedOK /\ [Next]_vars => DrainedOK'
  BY DrainedStep DEF IInv, CursorInv
<1>3. IInv /\ DrainedOK /\ [Next]_vars
        => [\A g \in Gens :
              TakesUp(g) /\ killed = {}
              => /\ \A r \in Rows : job[r] \in {"none", "done"}
                 /\ \A h \in Gens \ {g} : ChildrenGone(h)]_vars
  <2> SUFFICES ASSUME IInv, DrainedOK, NEW g \in Gens, TakesUp(g), killed = {}
               PROVE  /\ \A r \in Rows : job[r] \in {"none", "done"}
                      /\ \A h \in Gens \ {g} : ChildrenGone(h)
    OBVIOUS
  <2>1. AllTerminal /\ ~ChildrenGone(g)
    BY DEF TakesUp, Load, DrainedOK, ChildrenGone
  <2> QED BY <2>1, OneWatcher DEF AllTerminal, IInv
<1> QED BY <1>1, <1>2, <1>3, Invariance, CursorInvariance, PTL DEF Spec, ReplayIsDrained
==============================================================================
