-------------------------- MODULE ModelSwapProofs --------------------------
(***************************************************************************)
(* The properties of the model server and its swaps, for every number of   *)
(* swaps, callers, servers and losses.  They are parts of one inductive    *)
(* invariant: the lease has one holder, and what the step of the holder    *)
(* implies of the server is true, counting the operations that nobody      *)
(* waits for any more but the server may still carry out.                  *)
(***************************************************************************)
EXTENDS ModelSwap, TLAPS

\* Operations that can still take effect, and the loads among them.
Pending == {op \in server.ops : op.pid = server.pid}
Loads == {op \in Pending : op.act = "load"}

\* Steps at which only the model from before can be loaded, only the big one, and
\* steps at which a probe has found the big one.
Holding == {"unloading", "reprobe", "retracting"}
WithBig == {"probe", "persist", "confirm", "write", "undoing"}
Committing == {"persist", "confirm", "write", "persistAgain", "confirmAgain", "writeAgain"}

\* The lease, which the death of its holder releases.
OneHolder == \A s, t \in Swaps : swap[s].pc \in Locked /\ swap[t].pc \in Locked => s = t
LockOK == OneHolder /\ (CallRuns => ~SwapRuns)

\* A server that listens or has listened: it does so once.
Heard(n) == n = 0 \/ (n \in Pids \ loading /\ launch[n].pc # "off")

\* Nothing names a server that has not listened yet.
HeardOK ==
    /\ Heard(server.pid) /\ Heard(selection.pid)
    /\ \A op \in server.ops : Heard(op.pid)
    /\ \A c \in Calls : Heard(call[c].pid)
    /\ \A p \in loading : launch[p].pc # "off"

\* A load is sent to an empty server, and nothing else may be loaded meanwhile.
LoadOK == \A op \in Loads : server.loaded = {} /\ Loads = {op}

\* A swap that has passed its gate knows the model from before.
PreviousOK == \A s \in Swaps : swap[s].pc \in {"ready"} \cup Mutating => swap[s].previous \in Models

\* What the step of a swap says of the server.
StepOK(s) ==
    /\ swap[s].pc = "ready" => swap[s].current = swap[s].previous
    /\ swap[s].pc \in {"ready"} \cup Holding =>
          Loads = {} /\ server.loaded \subseteq {swap[s].previous}
    /\ swap[s].pc \in {"size", "rollback"} => Loads = {} /\ server.loaded = {}
    /\ swap[s].pc \in WithBig => Loads = {} /\ server.loaded \subseteq {Big}
    /\ swap[s].pc = "loading" =>
          server.loaded \subseteq {Big} /\ \A op \in Loads : op.model = Big /\ op.by = s
    /\ swap[s].pc = "restoring" =>
          /\ server.loaded \subseteq {swap[s].previous}
          /\ \A op \in Loads : op.model = swap[s].previous /\ op.by = s

ServerOK == ~server.mixed => LoadOK /\ NeverBoth /\ \A s \in Swaps : StepOK(s)

\* An operation that nobody waits for has put the server in doubt.
DoubtOK == ~server.doubt => \A op \in Pending : swap[op.by].pc \in Waiting

\* Once a selection is written no swap mutates the server that it names.
Sure == server.up /\ ~server.doubt /\ ~server.mixed
SelectOK ==
    /\ Sure => \A s \in Swaps : swap[s].pc \in Committing => Big \in server.loaded
    /\ Sure /\ selection.pid = server.pid =>
          /\ Big \in server.loaded
          /\ \A s \in Swaps : swap[s].pc \notin Mutating /\ (swap[s].pc = "ready" => swap[s].current = Big)

\* A swap past its last look at the marker was not cancelled before it.
AskedOK ==
    /\ asked \subseteq marker
    /\ \A s \in asked : swap[s].pc \notin {"write", "writeAgain"}
    /\ \A s \in selection.by : swap[s].pc = "done"

IInv ==
    /\ TypeOK /\ PreviousOK /\ LockOK /\ HeardOK /\ ServerOK
    /\ DoubtOK /\ CallsUndisturbed /\ SelectOK /\ AskedOK /\ CancelKept

-----------------------------------------------------------------------------
(* Types *)

\* What a step writes to the record of a swap, to the server and to the file has its type.
LEMMA SwapTyped ==
    ASSUME TypeOK, NEW s \in Swaps, NEW pc \in Steps
    PROVE  /\ Goto(s, pc) => swap' \in [Swaps -> SwapState]
           /\ \A m \in Models \cup {None} : Knows(s, m, pc) => swap' \in [Swaps -> SwapState]
           /\ \A m \in Models : Owning(s, m, pc) => swap' \in [Swaps -> SwapState]
           /\ \A m \in Models : Dropping(s, m, pc) => swap' \in [Swaps -> SwapState]
<1>1. Goto(s, pc) => swap' \in [Swaps -> SwapState]
  BY DEF TypeOK, SwapState, Goto
<1>2. ASSUME NEW m \in Models \cup {None}, Knows(s, m, pc) PROVE swap' \in [Swaps -> SwapState]
  <2>1. [swap[s] EXCEPT !.current = m, !.pc = pc] \in SwapState
    BY DEF TypeOK, SwapState
  <2> QED
    BY <1>2, <2>1 DEF TypeOK, Knows
<1>3. ASSUME NEW m \in Models, Owning(s, m, pc) PROVE swap' \in [Swaps -> SwapState]
  <2>1. [swap[s] EXCEPT !.owned = @ \cup {m}, !.pc = pc] \in SwapState
    BY DEF TypeOK, SwapState
  <2> QED
    BY <1>3, <2>1 DEF TypeOK, Owning
<1>4. ASSUME NEW m \in Models, Dropping(s, m, pc) PROVE swap' \in [Swaps -> SwapState]
  <2>1. [swap[s] EXCEPT !.owned = @ \ {m}, !.current = None, !.pc = pc] \in SwapState
    BY DEF TypeOK, SwapState
  <2> QED
    BY <1>4, <2>1 DEF TypeOK, Dropping
<1> QED
  BY <1>1, <1>2, <1>3, <1>4

LEMMA AskTyped ==
    ASSUME TypeOK, NEW s \in Swaps, NEW act \in {"load", "unload"}, NEW m \in Models, Ask(s, act, m)
    PROVE  server' \in ServerState
  BY DEF TypeOK, ServerState, Ask, Operation

LEMMA EndedTyped == ASSUME TypeOK PROVE Ended \in ServerState
  BY DEF TypeOK, ServerState, Ended

LEMMA WrittenTyped ==
    ASSUME TypeOK, NEW s \in Swaps
    PROVE  Written(s) \in [pid : 0..MaxServers, current : Models \cup {None}, owned : SUBSET Models]
  BY DEF TypeOK, SwapState, Written

LEMMA DoubtedTyped == ASSUME TypeOK, NEW s \in Swaps PROVE Doubted(s) \in ServerState
  BY DEF TypeOK, ServerState, Doubted

\* The type invariant; a restored model is one because PreviousOK holds.
LEMMA TypeStep == TypeOK /\ PreviousOK /\ [Next]_vars => TypeOK'
<1> SUFFICES ASSUME TypeOK, PreviousOK, [Next]_vars PROVE TypeOK'
  OBVIOUS
<1> USE ServerAssumption DEF TypeOK
<1>1. ASSUME NEW op \in server.ops, Effect(op) PROVE TypeOK'
  <2>1. op.model \in Models
    BY DEF ServerState, Operation
  <2> QED
    BY <1>1, <2>1 DEF Effect, ServerState
<1>2. ASSUME NEW p \in Pids, NEW m \in Models, Spawn(p, m) PROVE TypeOK'
  BY <1>2 DEF Spawn, Elsewhere, Fault
<1>3. ASSUME NEW p \in Pids, Listen(p) PROVE TypeOK'
  <2>1. p \in 0..MaxServers
    BY DEF Pids
  <2>2. launch[p].model \in Models /\ server.ops \in SUBSET Operation /\ SwapRuns \in BOOLEAN
    BY DEF ServerState, SwapRuns
  <2>3. server' \in ServerState
    BY <1>3, <2>1, <2>2 DEF Listen, ServerState
  <2> QED
    BY <1>3, <2>3 DEF Listen, Elsewhere
<1>4. ASSUME NEW p \in Pids, NotStarted(p) PROVE TypeOK'
  BY <1>4 DEF NotStarted, Elsewhere
<1>5. ASSUME NEW p \in Pids, Attest(p) PROVE TypeOK'
  <2>1. p \in 0..MaxServers
    BY DEF Pids
  <2>2. record' \in [pid : 0..MaxServers, stopping : BOOLEAN]
    BY <1>5, <2>1 DEF Attest
  <2>3. launch' \in [Pids -> [pc : {"off", "idle", "spawned", "seed", "seen"}, model : Models]]
    BY <1>5 DEF Attest, Step
  <2> QED
    BY <1>5, <2>2, <2>3 DEF Attest, Elsewhere
<1>6. ASSUME NEW p \in Pids, GiveUp(p) \/ AlreadyRunning(p) \/ ReadCatalog(p) PROVE TypeOK'
  BY <1>6 DEF GiveUp, AlreadyRunning, ReadCatalog, Step, Elsewhere
<1>7. ASSUME NEW p \in Pids, Seed(p) PROVE TypeOK'
  BY <1>7 DEF Seed, Step, Pids
<1>8. CASE Stop
  BY <1>8 DEF Stop, Elsewhere
<1>9. CASE Remove
  BY <1>9 DEF Remove, Elsewhere
<1>10. CASE ServerEnds
  BY <1>10, EndedTyped DEF ServerEnds, Elsewhere
<1>11. ASSUME NEW c \in Calls, Admit(c) PROVE TypeOK'
  BY <1>11 DEF Admit, ServerState
<1>12. ASSUME NEW c \in Calls, EndCall(c) PROVE TypeOK'
  BY <1>12 DEF EndCall, NoCall
<1>13. ASSUME NEW s \in Swaps, Invoke(s) PROVE TypeOK'
  BY <1>13, SwapTyped DEF Invoke, Others, Steps, Locked, Mutating, Waiting, Gone
<1>14. ASSUME NEW s \in Swaps, Register(s) PROVE TypeOK'
  BY <1>14, SwapTyped DEF Register, Others, Steps, Locked, Mutating, Waiting, Gone
<1>15. ASSUME NEW s \in Swaps, Cancel(s) PROVE TypeOK'
  BY <1>15 DEF Cancel, Gone, Others
<1>16. ASSUME NEW s \in Swaps, Acquire(s) PROVE TypeOK'
  BY <1>16, SwapTyped DEF Acquire, Others, Steps, Locked, Mutating, Waiting, Gone
<1>17. ASSUME NEW s \in Swaps, Gate(s) PROVE TypeOK'
  BY <1>17 DEF Gate, Verified, Others, SwapState, Steps, Locked, Mutating, Waiting, Gone,
     ServerState
<1>18. ASSUME NEW s \in Swaps, Refuse(s) PROVE TypeOK'
  BY <1>18, SwapTyped DEF Refuse, Others, Steps, Locked, Mutating, Waiting, Gone
<1>19. ASSUME NEW s \in Swaps, Unload(s) PROVE TypeOK'
  BY <1>19, SwapTyped, AskTyped DEF Unload, Quiet, Others, Steps, Locked, Mutating, Waiting,
     Gone, PreviousOK, At, Models
<1>20. ASSUME NEW s \in Swaps, Unloaded(s) PROVE TypeOK'
  BY <1>20, SwapTyped DEF Unloaded, Quiet, Others, Steps, Locked, Mutating, Waiting, Gone,
     PreviousOK, At
<1>21. ASSUME NEW s \in Swaps, Load(s) PROVE TypeOK'
  BY <1>21, SwapTyped, AskTyped DEF Load, Quiet, Others, Steps, Locked, Mutating, Waiting,
     Gone, Models
<1>22. ASSUME NEW s \in Swaps, Loaded(s) PROVE TypeOK'
  BY <1>22, SwapTyped, AskTyped DEF Loaded, Quiet, Others, Steps, Locked, Mutating, Waiting,
     Gone, Models
<1>23. ASSUME NEW s \in Swaps, Probe(s) PROVE TypeOK'
  <2>1. {"persist", "undoing"} \subseteq Steps /\ Big \in Models
    BY DEF Models, Steps, Locked, Mutating, Waiting, Gone
  <2> QED
    BY <1>23, <2>1, SwapTyped, AskTyped DEF Probe, Undo, Unknown, Quiet, Others
<1>24. ASSUME NEW s \in Swaps, Undone(s) PROVE TypeOK'
  BY <1>24, SwapTyped DEF Undone, Quiet, Others, Steps, Locked, Mutating, Waiting, Gone, Models
<1>25. ASSUME NEW s \in Swaps, Restore(s) PROVE TypeOK'
  BY <1>25, SwapTyped, AskTyped DEF Restore, Unknown, Quiet, Others, Steps, Locked, Mutating,
     Waiting, Gone, PreviousOK, At
<1>26. ASSUME NEW s \in Swaps, Restored(s) PROVE TypeOK'
  BY <1>26, SwapTyped DEF Restored, Quiet, Others, Steps, Locked, Mutating, Waiting, Gone,
     PreviousOK, At
<1>27. ASSUME NEW s \in Swaps, Reprobe(s) PROVE TypeOK'
  <2>1. swap[s].previous \in Models
    BY <1>27 DEF Reprobe, At, PreviousOK, Mutating
  <2>2. {"ending", "retracting"} \subseteq Steps
    BY DEF Steps, Locked, Mutating, Waiting, Gone
  <2> QED
    BY <1>27, <2>1, <2>2, SwapTyped, AskTyped DEF Reprobe, Unknown, Quiet, Others
<1>28. ASSUME NEW s \in Swaps, Retracted(s) PROVE TypeOK'
  BY <1>28, SwapTyped DEF Retracted, Quiet, Others, Steps, Locked, Mutating, Waiting, Gone,
     PreviousOK, At
<1>29. ASSUME NEW s \in Swaps, Lost(s) PROVE TypeOK'
  BY <1>29, SwapTyped, DoubtedTyped DEF Lost, Unknown, Fault, Others, Steps, Locked, Mutating,
     Waiting, Gone
<1>30. ASSUME NEW s \in Swaps, Persist(s) PROVE TypeOK'
  BY <1>30, SwapTyped, AskTyped, WrittenTyped DEF Persist, Fault, Undo, Others, Unknown,
     Steps, Locked, Mutating, Waiting, Gone, Models
<1>31. ASSUME NEW s \in Swaps, Confirm(s) PROVE TypeOK'
  BY <1>31, SwapTyped, AskTyped DEF Confirm, Undo, Quiet, Unknown, Others, Steps, Locked,
     Mutating, Waiting, Gone, Models
<1>32. ASSUME NEW s \in Swaps, Write(s) PROVE TypeOK'
  BY <1>32, SwapTyped, AskTyped DEF Write, Fault, Undo, Others, Unknown, Steps, Locked,
     Mutating, Waiting, Gone, ServerState, Models
<1>33. ASSUME NEW s \in Swaps, End(s) PROVE TypeOK'
  BY <1>33, SwapTyped, WrittenTyped DEF End, Fault, Others, Steps, Locked, Mutating, Waiting, Gone
<1>34. ASSUME NEW s \in Swaps, Again(s) PROVE TypeOK'
  BY <1>34, SwapTyped DEF Again, Quiet, Others, Steps, Locked, Mutating, Waiting, Gone, Models
<1>35. ASSUME NEW s \in Swaps, CommitAgain(s) PROVE TypeOK'
  BY <1>35, SwapTyped, WrittenTyped DEF CommitAgain, Fault, Others, Quiet, Steps, Locked,
     Mutating, Waiting, Gone, ServerState
<1>36. ASSUME NEW s \in Swaps, Kill(s) PROVE TypeOK'
  BY <1>36, SwapTyped, DoubtedTyped DEF Kill, Fault, Others, Steps, Locked, Mutating, Waiting,
     Gone
<1>37. CASE UNCHANGED vars
  BY <1>37 DEF vars
<1> QED
  BY <1>1, <1>2, <1>3, <1>4, <1>5, <1>6, <1>7, <1>8, <1>9, <1>10, <1>11, <1>12, <1>13, <1>14,
     <1>15, <1>16, <1>17, <1>18, <1>19, <1>20, <1>21, <1>22, <1>23, <1>24, <1>25, <1>26,
     <1>27, <1>28, <1>29, <1>30, <1>31, <1>32, <1>33, <1>34, <1>35, <1>36, <1>37 DEF Next,
     Starts, Watches, Ends, SwapStep

(* What every step of a swap leaves alone: other swaps, calls and what the *)
(* server has loaded.                                                      *)
LEMMA Frame ==
    ASSUME TypeOK, NEW s \in Swaps, SwapStep(s)
    PROVE  /\ \A t \in Swaps \ {s} : swap'[t] = swap[t]
           /\ call' = call
           /\ server'.up = server.up /\ server'.pid = server.pid
           /\ server'.mixed = server.mixed /\ server'.loaded = server.loaded
<1> USE DEF TypeOK, ServerState, Others, Quiet
<1>1. CASE Invoke(s) \/ Register(s) \/ Cancel(s) \/ Acquire(s) \/ Gate(s) \/ Refuse(s)
  BY <1>1 DEF Invoke, Goto, Register, Cancel, Acquire, Gate, Refuse
<1>2. CASE \/ Unload(s) \/ Unloaded(s) \/ Load(s) \/ Loaded(s) \/ Probe(s) \/ Undone(s)
           \/ Restore(s) \/ Restored(s) \/ Reprobe(s) \/ Retracted(s) \/ Lost(s)
  BY <1>2 DEF Unload, Goto, Ask, Unloaded, Dropping, Load, Loaded, Owning, Probe, Knows, Undo,
     Unknown, Undone, Restore, Restored, Reprobe, Retracted, Lost, Doubted
<1>3. CASE Persist(s) \/ Confirm(s) \/ Write(s) \/ End(s) \/ Again(s) \/ CommitAgain(s) \/ Kill(s)
  BY <1>3 DEF Persist, Goto, Undo, Ask, Unknown, Knows, Confirm, Write, End, Again,
     CommitAgain, Kill, Doubted
<1> QED
  BY <1>1, <1>2, <1>3 DEF SwapStep

\* And the servers that others start.
LEMMA Standing == ASSUME NEW s \in Swaps, SwapStep(s) PROVE UNCHANGED <<loading, launch>>
<1> USE DEF Others, Quiet
<1>1. CASE Invoke(s) \/ Register(s) \/ Cancel(s) \/ Acquire(s) \/ Gate(s) \/ Refuse(s)
  BY <1>1 DEF Invoke, Register, Cancel, Acquire, Gate, Refuse
<1>2. CASE \/ Unload(s) \/ Unloaded(s) \/ Load(s) \/ Loaded(s) \/ Probe(s) \/ Undone(s)
           \/ Restore(s) \/ Restored(s) \/ Reprobe(s) \/ Retracted(s) \/ Lost(s)
  BY <1>2 DEF Unload, Unloaded, Load, Loaded, Probe, Undone, Restore, Restored, Reprobe,
     Retracted, Lost
<1>3. CASE Persist(s) \/ Confirm(s) \/ Write(s) \/ End(s) \/ Again(s) \/ CommitAgain(s) \/ Kill(s)
  BY <1>3 DEF Persist, Confirm, Write, End, Again, CommitAgain, Kill
<1> QED
  BY <1>1, <1>2, <1>3 DEF SwapStep

(* The lease is taken only when nobody holds it.                           *)
LEMMA Leasing ==
    ASSUME TypeOK, NEW s \in Swaps, SwapStep(s), swap'[s].pc \in Locked
    PROVE  swap[s].pc \in Locked \/ (~SwapRuns /\ ~CallRuns)
<1> USE DEF TypeOK, SwapState, At, Quiet, Others, Locked, Mutating, Waiting
<1>1. CASE Invoke(s) \/ Register(s) \/ Cancel(s) \/ Acquire(s) \/ Gate(s) \/ Refuse(s)
  BY <1>1 DEF Invoke, Goto, Register, Cancel, Acquire, Gate, Refuse
<1>2. CASE \/ Unload(s) \/ Unloaded(s) \/ Load(s) \/ Loaded(s) \/ Probe(s) \/ Undone(s)
           \/ Restore(s) \/ Restored(s) \/ Reprobe(s) \/ Retracted(s) \/ Lost(s)
  BY <1>2 DEF Unload, Goto, Ask, Unloaded, Dropping, Load, Loaded, Owning, Probe, Knows, Undo,
     Unknown, Undone, Restore, Restored, Reprobe, Retracted, Lost, Doubted
<1>3. CASE Persist(s) \/ Confirm(s) \/ Write(s) \/ End(s) \/ Again(s) \/ CommitAgain(s) \/ Kill(s)
  BY <1>3 DEF Persist, Goto, Undo, Ask, Unknown, Knows, Confirm, Write, End, Again,
     CommitAgain, Kill, Doubted
<1> QED
  BY <1>1, <1>2, <1>3 DEF SwapStep

\* What asking for an operation does.
LEMMA Asking ==
    ASSUME TypeOK, NEW s \in Swaps, NEW act, NEW m, Ask(s, act, m)
    PROVE  /\ server'.ops = server.ops \cup {[act |-> act, model |-> m, by |-> s, pid |-> server.pid]}
           /\ server'.doubt = server.doubt
  BY DEF TypeOK, ServerState, Ask

\* What moving on does to the record of the swap.
LEMMA Going ==
    ASSUME TypeOK, NEW s \in Swaps, NEW pc, Goto(s, pc)
    PROVE  swap'[s].pc = pc /\ swap'[s].previous = swap[s].previous
  BY DEF TypeOK, SwapState, Goto

LEMMA Knowing ==
    ASSUME TypeOK, NEW s \in Swaps, NEW m, NEW pc, Knows(s, m, pc)
    PROVE  swap'[s].pc = pc /\ swap'[s].previous = swap[s].previous
  BY DEF TypeOK, SwapState, Knows

LEMMA Moving ==
    ASSUME TypeOK, NEW s \in Swaps, NEW m, NEW pc, Owning(s, m, pc) \/ Dropping(s, m, pc)
    PROVE  swap'[s].pc = pc /\ swap'[s].previous = swap[s].previous
<1>0. swap[s] \in SwapState
  BY DEF TypeOK
<1>1. CASE Owning(s, m, pc)
  BY <1>0, <1>1 DEF TypeOK, SwapState, Owning
<1>2. CASE Dropping(s, m, pc)
  <2>1. swap'[s] = [swap[s] EXCEPT !.owned = @ \ {m}, !.current = None, !.pc = pc]
    BY <1>2 DEF TypeOK, Dropping
  <2> QED
    BY <1>0, <2>1 DEF SwapState
<1> QED
  BY <1>1, <1>2

(* A step of s sends at most operations of its own, and waits for them.    *)
LEMMA Sending ==
    ASSUME TypeOK, NEW s \in Swaps, SwapStep(s)
    PROVE  /\ server.ops \subseteq server'.ops
           /\ \A op \in server'.ops \ server.ops :
                op.pid = server.pid /\ op.by = s /\ swap'[s].pc \in Waiting
<1> USE DEF Others, Quiet, Waiting
<1>1. CASE Invoke(s) \/ Register(s) \/ Cancel(s) \/ Acquire(s) \/ Gate(s) \/ Refuse(s)
  BY <1>1 DEF Invoke, Goto, Register, Cancel, Acquire, Gate, Refuse
<1>2. CASE Unload(s) \/ Load(s) \/ Probe(s) \/ Restore(s) \/ Reprobe(s)
  BY <1>2, Asking, Going, Knowing DEF Unload, Load, Probe, Undo, Unknown, Restore, Reprobe
<1>3. CASE Unloaded(s) \/ Loaded(s) \/ Undone(s) \/ Restored(s) \/ Retracted(s)
  BY <1>3, Asking, Moving DEF Unloaded, Loaded, Undone, Restored, Retracted, Models
<1>4. CASE Persist(s) \/ Confirm(s) \/ Write(s) \/ End(s) \/ Again(s) \/ CommitAgain(s)
  BY <1>4, Asking, Going, Knowing DEF Persist, Undo, Unknown, Confirm, Write, End, Again,
     CommitAgain
<1>5. CASE Lost(s) \/ Kill(s)
  BY <1>5 DEF TypeOK, ServerState, Lost, Kill, Doubted
<1> QED
  BY <1>1, <1>2, <1>3, <1>4, <1>5 DEF SwapStep

(* A swap leaves a pending operation of its own only by raising a doubt.   *)
LEMMA Leaving ==
    ASSUME TypeOK, NEW s \in Swaps, SwapStep(s), ~server'.doubt
    PROVE  /\ ~server.doubt
           /\ \A op \in Pending :
                op.by = s /\ swap[s].pc \in Waiting => swap'[s].pc \in Waiting
<1> USE DEF TypeOK, ServerState, SwapState, At, Others, Quiet, Waiting, Pending, Ops
<1>1. CASE Invoke(s) \/ Register(s) \/ Cancel(s) \/ Acquire(s) \/ Gate(s) \/ Refuse(s)
  BY <1>1 DEF Invoke, Goto, Register, Cancel, Acquire, Gate, Refuse
<1>2. CASE Unload(s) \/ Load(s) \/ Probe(s) \/ Restore(s) \/ Reprobe(s)
  BY <1>2 DEF Unload, Goto, Ask, Load, Probe, Undo, Knows, Unknown, Restore, Reprobe
<1>3. CASE Unloaded(s) \/ Loaded(s) \/ Undone(s) \/ Restored(s) \/ Retracted(s)
  BY <1>3 DEF Hides, Shows, Ask, Unloaded, Dropping, Loaded, Owning, Undone, Restored, Retracted
<1>4. CASE Persist(s) \/ Confirm(s) \/ Write(s) \/ End(s) \/ Again(s) \/ CommitAgain(s)
  BY <1>4 DEF Persist, Goto, Undo, Ask, Knows, Unknown, Confirm, Write, End, Again, CommitAgain
<1>5. CASE Lost(s) \/ Kill(s)
  BY <1>5 DEF Lost, Kill, Doubted
<1> QED
  BY <1>1, <1>2, <1>3, <1>4, <1>5 DEF SwapStep

\* A swap past its gate keeps the model from before.
LEMMA Preparing ==
    ASSUME TypeOK, NEW s \in Swaps, SwapStep(s), swap'[s].pc \in {"ready"} \cup Mutating
    PROVE  \/ swap[s].pc \in {"ready"} \cup Mutating /\ swap'[s].previous = swap[s].previous
           \/ swap'[s].previous \in Models
<1> USE DEF TypeOK, SwapState, At, Quiet, Others, Mutating, Waiting
<1>1. CASE Invoke(s) \/ Register(s) \/ Cancel(s) \/ Acquire(s) \/ Gate(s) \/ Refuse(s)
  BY <1>1 DEF Invoke, Goto, Register, Cancel, Acquire, Gate, Refuse, Verified
<1>2. CASE \/ Unload(s) \/ Unloaded(s) \/ Load(s) \/ Loaded(s) \/ Probe(s) \/ Undone(s)
           \/ Restore(s) \/ Restored(s) \/ Reprobe(s) \/ Retracted(s) \/ Lost(s)
  BY <1>2, Going, Knowing, Moving DEF Unload, Unloaded, Load, Loaded, Probe, Undo, Unknown,
     Undone, Restore, Restored, Reprobe, Retracted, Lost
<1>3. CASE Persist(s) \/ Confirm(s) \/ Write(s) \/ End(s) \/ Again(s) \/ CommitAgain(s) \/ Kill(s)
  BY <1>3, Going, Knowing, Moving DEF Persist, Undo, Unknown, Confirm, Write, End, Again,
     CommitAgain, Kill
<1> QED
  BY <1>1, <1>2, <1>3 DEF SwapStep

\* A swap mutates the server only if it was not the big model that it found.
LEMMA Mutated ==
    ASSUME TypeOK, NEW s \in Swaps, SwapStep(s), swap'[s].pc \in Mutating
    PROVE  swap[s].pc \in Mutating \/ (swap[s].pc = "ready" /\ swap[s].current # Big)
<1> USE DEF TypeOK, SwapState, At, Quiet, Others, Mutating, Waiting
<1>1. CASE Invoke(s) \/ Register(s) \/ Cancel(s) \/ Acquire(s) \/ Gate(s) \/ Refuse(s)
  BY <1>1 DEF Invoke, Goto, Register, Cancel, Acquire, Gate, Refuse
<1>2. CASE \/ Unload(s) \/ Unloaded(s) \/ Load(s) \/ Loaded(s) \/ Probe(s) \/ Undone(s)
           \/ Restore(s) \/ Restored(s) \/ Reprobe(s) \/ Retracted(s) \/ Lost(s)
  BY <1>2, Going, Knowing, Moving DEF Unload, Unloaded, Load, Loaded, Probe, Undo, Unknown,
     Undone, Restore, Restored, Reprobe, Retracted, Lost
<1>3. CASE Persist(s) \/ Confirm(s) \/ Write(s) \/ End(s) \/ Again(s) \/ CommitAgain(s) \/ Kill(s)
  BY <1>3, Going, Knowing, Moving DEF Persist, Undo, Unknown, Confirm, Write, End, Again,
     CommitAgain, Kill
<1> QED
  BY <1>1, <1>2, <1>3 DEF SwapStep

\* It is ready only on a server that has loaded what it takes to be resident.
LEMMA Readying ==
    ASSUME TypeOK, NEW s \in Swaps, SwapStep(s), swap'[s].pc = "ready"
    PROVE  swap' = swap \/ server.loaded = {swap'[s].current}
<1> USE DEF TypeOK, SwapState, At, Quiet, Others, Verified
<1>1. CASE Invoke(s) \/ Register(s) \/ Cancel(s) \/ Acquire(s) \/ Gate(s) \/ Refuse(s)
  BY <1>1 DEF Invoke, Goto, Register, Cancel, Acquire, Gate, Refuse
<1>2. CASE \/ Unload(s) \/ Unloaded(s) \/ Load(s) \/ Loaded(s) \/ Probe(s) \/ Undone(s)
           \/ Restore(s) \/ Restored(s) \/ Reprobe(s) \/ Retracted(s) \/ Lost(s)
  BY <1>2, Going, Knowing, Moving DEF Unload, Unloaded, Load, Loaded, Probe, Undo, Unknown,
     Undone, Restore, Restored, Reprobe, Retracted, Lost
<1>3. CASE Persist(s) \/ Confirm(s) \/ Write(s) \/ End(s) \/ Again(s) \/ CommitAgain(s) \/ Kill(s)
  BY <1>3, Going, Knowing, Moving DEF Persist, Undo, Unknown, Confirm, Write, End, Again,
     CommitAgain, Kill
<1> QED
  BY <1>1, <1>2, <1>3 DEF SwapStep

\* It commits only after the catalog has shown the big model.
LEMMA Certifying ==
    ASSUME TypeOK, NEW s \in Swaps, SwapStep(s), swap'[s].pc \in Committing
    PROVE  swap[s].pc \in Committing \/ Big \in server.loaded
<1> USE DEF TypeOK, SwapState, At, Quiet, Others, Committing, Shows
<1>1. CASE Invoke(s) \/ Register(s) \/ Cancel(s) \/ Acquire(s) \/ Gate(s) \/ Refuse(s)
  BY <1>1 DEF Invoke, Goto, Register, Cancel, Acquire, Gate, Refuse
<1>2. CASE \/ Unload(s) \/ Unloaded(s) \/ Load(s) \/ Loaded(s) \/ Probe(s) \/ Undone(s)
           \/ Restore(s) \/ Restored(s) \/ Reprobe(s) \/ Retracted(s) \/ Lost(s)
  BY <1>2, Going, Knowing, Moving DEF Unload, Unloaded, Load, Loaded, Probe, Undo, Unknown,
     Undone, Restore, Restored, Reprobe, Retracted, Lost
<1>3. CASE Persist(s) \/ Confirm(s) \/ Write(s) \/ End(s) \/ Again(s) \/ CommitAgain(s) \/ Kill(s)
  BY <1>3, Going, Knowing, Moving DEF Persist, Undo, Unknown, Confirm, Write, End, Again,
     CommitAgain, Kill
<1> QED
  BY <1>1, <1>2, <1>3 DEF SwapStep

\* The selection is written from a writing step, which ends the swap.
LEMMA Selecting ==
    ASSUME TypeOK, NEW s \in Swaps, SwapStep(s)
    PROVE  \/ selection' = selection
           \/ /\ swap[s].pc \in {"write", "writeAgain"} /\ swap'[s].pc = "done"
              /\ selection' = [pid |-> server.pid, by |-> selection.by \cup {s}]
<1> USE DEF TypeOK, SwapState, At, Quiet, Others
<1>1. CASE Invoke(s) \/ Register(s) \/ Cancel(s) \/ Acquire(s) \/ Gate(s) \/ Refuse(s)
  BY <1>1 DEF Invoke, Goto, Register, Cancel, Acquire, Gate, Refuse
<1>2. CASE \/ Unload(s) \/ Unloaded(s) \/ Load(s) \/ Loaded(s) \/ Probe(s) \/ Undone(s)
           \/ Restore(s) \/ Restored(s) \/ Reprobe(s) \/ Retracted(s) \/ Lost(s)
  BY <1>2 DEF Unload, Goto, Ask, Unloaded, Dropping, Load, Loaded, Owning, Probe, Knows, Undo,
     Unknown, Undone, Restore, Restored, Reprobe, Retracted, Lost, Doubted
<1>3. CASE Persist(s) \/ Confirm(s) \/ Write(s) \/ End(s) \/ Again(s) \/ CommitAgain(s) \/ Kill(s)
  BY <1>3 DEF Persist, Goto, Undo, Ask, Unknown, Knows, Confirm, Write, End, Again,
     CommitAgain, Kill, Doubted
<1> QED
  BY <1>1, <1>2, <1>3 DEF SwapStep

\* A swap that is done takes no step.
LEMMA Finished == ASSUME TypeOK, NEW s \in Swaps, SwapStep(s) PROVE swap[s].pc # "done"
<1> USE DEF TypeOK, SwapState, At, Quiet, Others, Locked, Mutating, Waiting, Gone
<1>1. CASE Invoke(s) \/ Register(s) \/ Cancel(s) \/ Acquire(s) \/ Gate(s) \/ Refuse(s)
  BY <1>1 DEF Invoke, Register, Cancel, Acquire, Gate, Refuse
<1>2. CASE \/ Unload(s) \/ Unloaded(s) \/ Load(s) \/ Loaded(s) \/ Probe(s) \/ Undone(s)
           \/ Restore(s) \/ Restored(s) \/ Reprobe(s) \/ Retracted(s) \/ Lost(s)
  BY <1>2 DEF Unload, Unloaded, Load, Loaded, Probe, Undo, Unknown, Undone, Restore, Restored,
     Reprobe, Retracted, Lost, Doubted
<1>3. CASE Persist(s) \/ Confirm(s) \/ Write(s) \/ End(s) \/ Again(s) \/ CommitAgain(s) \/ Kill(s)
  BY <1>3 DEF Persist, Undo, Unknown, Confirm, Write, End, Again, CommitAgain, Kill, Doubted
<1> QED
  BY <1>1, <1>2, <1>3 DEF SwapStep

\* Only a cancel touches the markers.
LEMMA Cancelling ==
    ASSUME TypeOK, NEW s \in Swaps, SwapStep(s)
    PROVE  Cancel(s) \/ (asked' = asked /\ marker' = marker)
<1> USE DEF TypeOK, SwapState, At, Quiet, Others
<1>1. CASE Invoke(s) \/ Register(s) \/ Cancel(s) \/ Acquire(s) \/ Gate(s) \/ Refuse(s)
  BY <1>1 DEF Invoke, Register, Cancel, Acquire, Gate, Refuse
<1>2. CASE \/ Unload(s) \/ Unloaded(s) \/ Load(s) \/ Loaded(s) \/ Probe(s) \/ Undone(s)
           \/ Restore(s) \/ Restored(s) \/ Reprobe(s) \/ Retracted(s) \/ Lost(s)
  BY <1>2 DEF Unload, Unloaded, Load, Loaded, Probe, Undo, Unknown, Undone, Restore, Restored,
     Reprobe, Retracted, Lost, Doubted
<1>3. CASE Persist(s) \/ Confirm(s) \/ Write(s) \/ End(s) \/ Again(s) \/ CommitAgain(s) \/ Kill(s)
  BY <1>3 DEF Persist, Undo, Unknown, Confirm, Write, End, Again, CommitAgain, Kill, Doubted
<1> QED
  BY <1>1, <1>2, <1>3 DEF SwapStep

\* The marker is looked at on the way to the write.
LEMMA Writing ==
    ASSUME TypeOK, NEW s \in Swaps, SwapStep(s), swap'[s].pc \in {"write", "writeAgain"}
    PROVE  swap' = swap \/ s \notin marker
<1> USE DEF TypeOK, SwapState, At, Quiet, Others, Cancelled
<1>1. CASE Invoke(s) \/ Register(s) \/ Cancel(s) \/ Acquire(s) \/ Gate(s) \/ Refuse(s)
  BY <1>1 DEF Invoke, Goto, Register, Cancel, Acquire, Gate, Refuse
<1>2. CASE \/ Unload(s) \/ Unloaded(s) \/ Load(s) \/ Loaded(s) \/ Probe(s) \/ Undone(s)
           \/ Restore(s) \/ Restored(s) \/ Reprobe(s) \/ Retracted(s) \/ Lost(s)
  BY <1>2, Going, Knowing, Moving DEF Unload, Unloaded, Load, Loaded, Probe, Undo, Unknown,
     Undone, Restore, Restored, Reprobe, Retracted, Lost
<1>3. CASE Persist(s) \/ Confirm(s) \/ Write(s) \/ End(s) \/ Again(s) \/ CommitAgain(s) \/ Kill(s)
  BY <1>3, Going, Knowing, Moving DEF Persist, Undo, Unknown, Confirm, Write, End, Again,
     CommitAgain, Kill
<1> QED
  BY <1>1, <1>2, <1>3 DEF SwapStep

-----------------------------------------------------------------------------
(* The conjuncts of the invariant *)

(* A launch watches the server, starting one is not listening, and its end *)
(* leaves nothing loaded.                                                  *)
LEMMA Watching ==
    ASSUME NEW p \in Pids, Starts(p) \/ Watches(p)
    PROVE  UNCHANGED <<server, selection, swap, call, marker, asked>>
  BY DEF Starts, Spawn, NotStarted, Watches, Attest, AlreadyRunning, ReadCatalog, Seed, GiveUp,
     Elsewhere

LEMMA Ending ==
    ASSUME Ends
    PROVE  (server' = server \/ server' = Ended) /\ UNCHANGED <<selection, swap, call, marker, asked>>
  BY DEF Ends, Stop, Remove, ServerEnds, Elsewhere

\* What was started and what was heard stay so.
LEMMA HeardStays ==
    TypeOK /\ [Next]_vars =>
        /\ \A n \in 0..MaxServers : Heard(n) => Heard(n)'
        /\ \A n \in Pids : launch[n].pc # "off" => launch'[n].pc # "off"
        /\ \A n \in loading' \ loading : launch'[n].pc # "off"
<1> SUFFICES ASSUME TypeOK, [Next]_vars
             PROVE  /\ \A n \in Pids : launch[n].pc # "off" => launch'[n].pc # "off"
                    /\ \A n \in loading' \ loading : launch[n].pc = "off" /\ launch'[n].pc # "off"
  BY DEF Heard
<1> USE DEF TypeOK
<1>1. CASE UNCHANGED <<loading, launch>>
  BY <1>1
<1>2. ASSUME NEW p \in Pids, Starts(p) \/ Listen(p)
      PROVE  /\ \A n \in Pids : launch[n].pc # "off" => launch'[n].pc # "off"
             /\ \A n \in loading' \ loading : launch[n].pc = "off" /\ launch'[n].pc # "off"
  BY <1>2 DEF Starts, Spawn, Listen, NotStarted
<1>3. ASSUME NEW p \in Pids, Watches(p)
      PROVE  loading' = loading /\ \A n \in Pids : launch[n].pc # "off" => launch'[n].pc # "off"
  <2>1. loading' = loading
    BY <1>3 DEF Watches, Attest, AlreadyRunning, ReadCatalog, Seed, GiveUp
  <2>2. PICK pc \in {"seed", "seen", "idle"} : Step(p, pc)
    BY <1>3 DEF Watches, Attest, AlreadyRunning, ReadCatalog, Seed, GiveUp
  <2> QED
    BY <2>1, <2>2 DEF Step
<1>4. ASSUME NEW s \in Swaps, SwapStep(s) PROVE UNCHANGED <<loading, launch>>
  BY <1>4, Standing
<1> QED
  BY <1>1, <1>2, <1>3, <1>4 DEF Next, vars, Ends, Stop, Remove, ServerEnds, Effect, Admit, EndCall

\* A server that begins to listen was not heard before.
LEMMA Listening ==
    ASSUME TypeOK, NEW p \in Pids, Listen(p)
    PROVE  /\ ~Heard(p)
           /\ server' = [up |-> TRUE, pid |-> p, loaded |-> {launch[p].model}, ops |-> server.ops,
                         doubt |-> FALSE, mixed |-> SwapRuns]
           /\ launch[p].model \in Models
           /\ UNCHANGED <<selection, swap, call, marker, asked>>
  BY ServerAssumption DEF TypeOK, Heard, Listen, Elsewhere, Pids

\* The model from before is noted at the gate and kept.
LEMMA PreviousStep == TypeOK /\ PreviousOK /\ [Next]_vars => PreviousOK'
<1> SUFFICES ASSUME TypeOK, PreviousOK, [Next]_vars PROVE PreviousOK'
  OBVIOUS
<1>1. CASE swap' = swap
  BY <1>1 DEF PreviousOK
<1>2. ASSUME NEW s \in Swaps, SwapStep(s) PROVE PreviousOK'
  BY <1>2, Frame, Preparing DEF PreviousOK
<1> QED
  BY <1>1, <1>2, Watching, Listening, Ending DEF Next, vars, Effect, Admit, EndCall

\* One holder of the lease, and no call beside it.
LEMMA LockStep == TypeOK /\ LockOK /\ [Next]_vars => LockOK'
<1> SUFFICES ASSUME TypeOK, LockOK, [Next]_vars PROVE LockOK'
  OBVIOUS
<1> USE DEF LockOK, OneHolder, SwapRuns, CallRuns
<1>1. CASE UNCHANGED <<swap, call>>
  BY <1>1
<1>2. ASSUME NEW s \in Swaps, SwapStep(s) PROVE LockOK'
  BY <1>2, Frame, Leasing
<1>3. ASSUME NEW c \in Calls, Admit(c) PROVE LockOK'
  BY <1>3 DEF Admit
<1>4. ASSUME NEW c \in Calls, EndCall(c) PROVE LockOK'
  BY <1>4 DEF TypeOK, EndCall, NoCall
<1> QED
  BY <1>1, <1>2, <1>3, <1>4, Watching, Listening, Ending DEF Next, vars, Effect

LEMMA HeardStep == TypeOK /\ HeardOK /\ [Next]_vars => HeardOK'
<1> SUFFICES ASSUME TypeOK, HeardOK, [Next]_vars PROVE HeardOK'
  OBVIOUS
<1>0. /\ \A n \in 0..MaxServers : Heard(n) => Heard(n)'
      /\ \A n \in loading' : launch'[n].pc # "off"
      /\ server.pid \in 0..MaxServers /\ selection.pid \in 0..MaxServers
      /\ \A op \in server.ops : op.pid \in 0..MaxServers
      /\ \A c \in Calls : call[c].pid \in 0..MaxServers
  BY HeardStays DEF HeardOK, TypeOK, ServerState, Operation
<1>1. CASE UNCHANGED <<server, selection, call>>
  BY <1>0, <1>1 DEF HeardOK
<1>2. ASSUME NEW s \in Swaps, SwapStep(s) PROVE HeardOK'
  <2>1. server'.pid = server.pid /\ call' = call
    BY <1>2, Frame
  <2>2. selection'.pid \in {selection.pid, server.pid}
    BY <1>2, Selecting
  <2>3. \A op \in server'.ops : op \in server.ops \/ op.pid = server.pid
    BY <1>2, Sending
  <2> QED
    BY <1>0, <2>1, <2>2, <2>3 DEF HeardOK
<1>3. ASSUME NEW c \in Calls, Admit(c) \/ EndCall(c) PROVE HeardOK'
  <2>1. server' = server /\ selection' = selection
    BY <1>3 DEF Admit, EndCall
  <2>2. \A d \in Calls : call'[d].pid \in {0, call[d].pid, server.pid}
    BY <1>3 DEF TypeOK, Admit, EndCall, NoCall
  <2>3. Heard(0)'
    BY DEF Heard
  <2> QED
    BY <1>0, <2>1, <2>2, <2>3 DEF HeardOK
<1>4. CASE Ends
  BY <1>0, <1>4, Ending DEF Ended, HeardOK, TypeOK, ServerState
<1>5. ASSUME NEW op \in server.ops, Effect(op) PROVE HeardOK'
  BY <1>0, <1>5 DEF Effect, HeardOK, TypeOK, ServerState
<1>6. ASSUME NEW p \in Pids, Listen(p) PROVE HeardOK'
  <2>1. Heard(p)'
    BY <1>6 DEF HeardOK, Heard, Listen
  <2> QED
    BY <1>0, <1>6, <2>1, Listening DEF HeardOK
<1> QED
  BY <1>1, <1>2, <1>3, <1>4, <1>5, <1>6, Watching DEF Next, vars

\* Whoever stops waiting leaves a doubt.
LEMMA DoubtStep == TypeOK /\ HeardOK /\ DoubtOK /\ [Next]_vars => DoubtOK'
<1> SUFFICES ASSUME TypeOK, HeardOK, DoubtOK, [Next]_vars PROVE DoubtOK'
  OBVIOUS
<1> USE DEF DoubtOK, Pending
<1>1. CASE UNCHANGED <<server, swap>>
  BY <1>1
<1>2. ASSUME NEW s \in Swaps, SwapStep(s), ~server'.doubt, NEW op \in Pending'
      PROVE  swap'[op.by].pc \in Waiting
  <2>1. op.pid = server.pid /\ op \in server'.ops
    BY <1>2, Frame
  <2>2. CASE op \notin server.ops
    BY <1>2, <2>1, <2>2, Sending
  <2>3. CASE op \in server.ops
    <3>1. op \in Pending /\ op.by \in Swaps
      BY <2>1, <2>3 DEF TypeOK, ServerState, Operation
    <3>2. ~server.doubt /\ swap[op.by].pc \in Waiting
      BY <1>2, <3>1, Leaving
    <3> QED
      BY <1>2, <3>1, <3>2, Frame, Leaving
  <2> QED
    BY <2>2, <2>3
<1>3. CASE Ends
  BY <1>1, <1>3, Ending DEF TypeOK, ServerState, Ended
<1>4. ASSUME NEW op \in server.ops, Effect(op) PROVE DoubtOK'
  BY <1>4 DEF TypeOK, ServerState, Effect
<1>5. ASSUME NEW p \in Pids, Listen(p) PROVE DoubtOK'
  BY <1>5, Listening DEF HeardOK
<1> QED
  BY <1>1, <1>2, <1>3, <1>4, <1>5, Watching DEF Next, vars, Admit, EndCall

\* An operation without doubt has a waiting swap, hence no call beside it.
LEMMA CallsStep ==
    TypeOK /\ LockOK /\ HeardOK /\ DoubtOK /\ CallsUndisturbed /\ [Next]_vars => CallsUndisturbed'
<1> SUFFICES ASSUME TypeOK, LockOK, HeardOK, DoubtOK, CallsUndisturbed, [Next]_vars
             PROVE  CallsUndisturbed'
  OBVIOUS
<1> USE DEF CallsUndisturbed
<1>1. CASE UNCHANGED <<server, call>>
  BY <1>1
<1>2. ASSUME NEW s \in Swaps, SwapStep(s) PROVE CallsUndisturbed'
  BY <1>2, Frame, Leaving
<1>3. ASSUME NEW c \in Calls, Admit(c) PROVE CallsUndisturbed'
  BY <1>3 DEF TypeOK, Admit
<1>4. ASSUME NEW c \in Calls, EndCall(c) PROVE CallsUndisturbed'
  BY <1>4 DEF TypeOK, EndCall, NoCall
<1>5. CASE Ends
  BY <1>5, Ending DEF TypeOK, ServerState, Ended
<1>6. ASSUME NEW op \in server.ops, Effect(op) PROVE CallsUndisturbed'
  <2>1. server'.doubt = server.doubt /\ call' = call
    BY <1>6 DEF TypeOK, ServerState, Effect
  <2>2. op \in Pending /\ op.by \in Swaps
    BY <1>6 DEF TypeOK, ServerState, Operation, Effect, Pending
  <2>3. ~server.doubt => SwapRuns
    BY <2>2 DEF DoubtOK, SwapRuns, Locked, Mutating
  <2> QED
    BY <2>1, <2>3 DEF LockOK, CallRuns
<1>7. ASSUME NEW p \in Pids, Listen(p) PROVE CallsUndisturbed'
  BY <1>7, Listening DEF HeardOK
<1> QED
  BY <1>1, <1>2, <1>3, <1>4, <1>5, <1>6, <1>7, Watching DEF Next, vars

\* A selected model stays: a later swap finds it resident and mutates nothing.
LEMMA SelectStep ==
    TypeOK /\ LockOK /\ HeardOK /\ DoubtOK /\ SelectOK /\ [Next]_vars => SelectOK'
<1> SUFFICES ASSUME TypeOK, LockOK, HeardOK, DoubtOK, SelectOK, [Next]_vars PROVE SelectOK'
  OBVIOUS
<1> USE DEF Sure
<1>1. CASE UNCHANGED <<server, selection, swap>>
  BY <1>1 DEF SelectOK
<1>2. ASSUME NEW s \in Swaps, SwapStep(s), Sure' PROVE SelectOK'
  <2>1. Sure /\ server'.loaded = server.loaded /\ server'.pid = server.pid
    BY <1>2, Frame, Leaving
  <2>2. ASSUME NEW t \in Swaps, swap'[t].pc \in Committing PROVE Big \in server'.loaded
    BY <1>2, <2>1, <2>2, Frame, Certifying DEF SelectOK
  <2>3. CASE selection' = selection /\ selection'.pid = server'.pid
    <3>1. Big \in server.loaded
      BY <2>1, <2>3 DEF SelectOK
    <3>2. ASSUME NEW t \in Swaps
          PROVE  swap'[t].pc \notin Mutating /\ (swap'[t].pc = "ready" => swap'[t].current = Big)
      <4>1. swap[t].pc \notin Mutating /\ (swap[t].pc = "ready" => swap[t].current = Big)
        BY <2>1, <2>3 DEF SelectOK
      <4> QED
        BY <1>2, <3>1, <4>1, Frame, Mutated, Readying
    <3> QED
      BY <2>1, <2>2, <3>1, <3>2 DEF SelectOK
  <2>4. CASE selection' # selection
    <3>1. swap[s].pc \in {"write", "writeAgain"} /\ swap'[s].pc = "done"
      BY <1>2, <2>4, Selecting
    <3>2. Big \in server.loaded
      BY <2>1, <3>1 DEF SelectOK, Committing
    <3>3. ASSUME NEW t \in Swaps PROVE swap'[t].pc \notin Mutating \cup {"ready"}
      <4>1. swap[s].pc \in Locked
        BY <3>1 DEF Locked, Mutating
      <4>2. CASE t = s
        BY <3>1, <4>2 DEF Mutating, Waiting
      <4>3. CASE t # s
        BY <1>2, <4>1, <4>3, Frame DEF LockOK, OneHolder, Locked
      <4> QED
        BY <4>2, <4>3
    <3> QED
      BY <2>1, <2>2, <3>2, <3>3 DEF SelectOK
  <2> QED
    BY <2>2, <2>3, <2>4 DEF SelectOK
<1>3. CASE Ends
  BY <1>3, Ending DEF TypeOK, ServerState, Ended, SelectOK
<1>4. ASSUME NEW op \in server.ops, Effect(op), Sure' PROVE SelectOK'
  <2>1. Sure /\ UNCHANGED <<swap, selection>> /\ server'.pid = server.pid
    BY <1>4 DEF TypeOK, ServerState, Effect
  <2>2. op \in Pending /\ op.by \in Swaps
    BY <1>4 DEF TypeOK, ServerState, Operation, Effect, Pending
  <2>3. swap[op.by].pc \in Waiting
    BY <2>1, <2>2 DEF DoubtOK
  <2>4. selection.pid # server.pid
    BY <2>1, <2>2, <2>3 DEF SelectOK, Mutating
  <2>5. ASSUME NEW t \in Swaps PROVE swap[t].pc \notin Committing
    BY <2>2, <2>3 DEF LockOK, OneHolder, Committing, Locked, Mutating, Waiting
  <2> QED
    BY <2>1, <2>4, <2>5 DEF SelectOK
<1>5. ASSUME NEW p \in Pids, Listen(p), Sure' PROVE SelectOK'
  <2>1. selection' = selection /\ swap' = swap /\ server'.pid = p /\ selection.pid # p
    BY <1>5, Listening DEF HeardOK
  <2>2. ASSUME NEW t \in Swaps PROVE swap[t].pc \notin Committing
    BY <1>5, Listening DEF Sure, SwapRuns, Committing, Locked, Mutating, Waiting
  <2> QED
    BY <2>1, <2>2 DEF SelectOK
<1>6. ~Sure' => SelectOK'
  BY DEF SelectOK
<1> QED
  BY <1>1, <1>2, <1>3, <1>4, <1>5, <1>6, Watching DEF Next, vars, Admit, EndCall

\* A cancelled swap does not reach the write.
LEMMA AskedStep ==
    TypeOK /\ AskedOK /\ CancelKept /\ [Next]_vars => AskedOK' /\ CancelKept'
<1> SUFFICES ASSUME TypeOK, AskedOK, CancelKept, [Next]_vars PROVE AskedOK' /\ CancelKept'
  OBVIOUS
<1>1. CASE UNCHANGED <<selection, swap, marker, asked>>
  BY <1>1 DEF AskedOK, CancelKept
<1>2. ASSUME NEW s \in Swaps, Cancel(s) PROVE AskedOK' /\ CancelKept'
  <2>1. swap[s].pc # "done" /\ swap' = swap /\ selection' = selection /\ marker' = marker \cup {s}
    BY <1>2 DEF Cancel, Others, Gone
  <2>2. asked' = asked \/ (asked' = asked \cup {s} /\ swap[s].pc \notin {"write", "writeAgain"})
    BY <1>2 DEF Cancel
  <2> QED
    BY <2>1, <2>2 DEF AskedOK, CancelKept
<1>3. ASSUME NEW s \in Swaps, SwapStep(s), ~Cancel(s) PROVE AskedOK' /\ CancelKept'
  <2>1. asked' = asked /\ marker' = marker
    BY <1>3, Cancelling
  <2>2. s \in asked => swap'[s].pc \notin {"write", "writeAgain"}
    BY <1>3, Writing DEF AskedOK
  <2>3. \A t \in Swaps \ {s} : swap'[t] = swap[t]
    BY <1>3, Frame
  <2>4. asked \subseteq Swaps /\ selection.by \subseteq Swaps /\ selection'.by \subseteq selection.by \cup {s}
    BY <1>3, Selecting DEF TypeOK
  <2>5. s \notin selection.by
    BY <1>3, Finished DEF AskedOK
  <2>6. s \in selection'.by => swap'[s].pc = "done" /\ s \notin asked
    BY <1>3, <2>5, Selecting DEF AskedOK
  <2> QED
    BY <2>1, <2>2, <2>3, <2>4, <2>5, <2>6 DEF AskedOK, CancelKept
<1> QED
  BY <1>1, <1>2, <1>3, Watching, Listening, Ending DEF Next, vars, Effect, Admit, EndCall

(* A swap that does not hold the lease says nothing about the server, and  *)
(* one whose record and server stay says what it said.                     *)
LEMMA Unlocked == ASSUME NEW s \in Swaps, swap[s].pc \notin Locked PROVE StepOK(s)
  BY DEF StepOK, Holding, WithBig, Locked, Mutating, Waiting

LEMMA UnlockedNext == ASSUME NEW s \in Swaps, swap'[s].pc \notin Locked PROVE StepOK(s)'
  BY DEF StepOK, Holding, WithBig, Locked, Mutating, Waiting

(* What asking does to the loads the server has still to do.               *)
LEMMA AskingLoads ==
    ASSUME TypeOK, NEW s \in Swaps, NEW act \in {"load", "unload"}, NEW m, Ask(s, act, m)
    PROVE  Loads' = IF act = "load"
                    THEN Loads \cup {[act |-> "load", model |-> m, by |-> s, pid |-> server.pid]}
                    ELSE Loads
  BY DEF TypeOK, ServerState, Ask, Pending, Loads

LEMMA SameLoads ==
    ASSUME server'.ops = server.ops, server'.pid = server.pid
    PROVE  Pending' = Pending /\ Loads' = Loads
  BY DEF Pending, Loads

(* An operation of its own is all a loading swap waits for.                *)
LEMMA Answered ==
    ASSUME NEW s \in Swaps, Ops(s) = {}, \A op \in Loads : op.by = s
    PROVE  Loads = {}
  BY DEF Ops, Pending, Loads

(* The step of the holder itself: what it moves to is true of the server.  *)
LEMMA HolderStep ==
    ASSUME TypeOK, LoadOK, NEW s \in Swaps, StepOK(s), SwapStep(s)
    PROVE  LoadOK' /\ StepOK(s)'
<1>0. server'.loaded = server.loaded /\ server'.pid = server.pid
  BY Frame
<1> DEFINE Same == Loads' = Loads
           Pc == swap'[s].pc
<1>1. ASSUME Same PROVE LoadOK'
  BY <1>0, <1>1 DEF LoadOK
<1>2. CASE Invoke(s) \/ Register(s) \/ Acquire(s) \/ Refuse(s)
  BY <1>2, <1>0, <1>1, Going, SameLoads DEF Invoke, Register, Acquire, Refuse, Others, StepOK,
     LoadOK, Holding, WithBig
<1>3. CASE Cancel(s)
  BY <1>3, <1>0, <1>1, SameLoads DEF Cancel, Others, StepOK, LoadOK, Holding, WithBig
<1>4. CASE Gate(s)
  BY <1>4, <1>0, <1>1, SameLoads DEF TypeOK, SwapState, Gate, Verified, Others, StepOK,
     LoadOK, Holding, WithBig
<1>5. CASE Unload(s)
  BY <1>5, <1>0, <1>1, Going, AskingLoads, SameLoads DEF Unload, At, StepOK, LoadOK, Holding,
     WithBig
<1>6. CASE Unloaded(s)
  BY <1>6, <1>0, <1>1, Moving, SameLoads DEF Unloaded, Hides, At, StepOK, LoadOK, Holding, WithBig
<1>7. CASE Load(s)
  BY <1>7, <1>0, <1>1, Going, AskingLoads, SameLoads DEF Load, At, StepOK, LoadOK, Holding,
     WithBig
<1>8. CASE Loaded(s)
  BY <1>8, <1>0, <1>1, Moving, AskingLoads, SameLoads, Answered DEF Loaded, Shows, At, StepOK,
     LoadOK, Holding, WithBig
<1>9. CASE Probe(s)
  BY <1>9, <1>0, <1>1, Knowing, AskingLoads, SameLoads DEF Probe, Undo, Unknown, At, StepOK,
     LoadOK, Holding, WithBig
<1>10. CASE Undone(s)
  BY <1>10, <1>0, <1>1, Moving, SameLoads DEF Undone, Hides, At, StepOK, LoadOK, Holding, WithBig
<1>11. CASE Restore(s)
  BY <1>11, <1>0, <1>1, Going, Knowing, AskingLoads, SameLoads DEF Restore, Unknown, At,
     StepOK, LoadOK, Holding, WithBig
<1>12. CASE Restored(s)
  BY <1>12, <1>0, <1>1, Moving, SameLoads, Answered DEF Restored, Shows, At, StepOK, LoadOK,
     Holding, WithBig
<1>13. CASE Reprobe(s)
  BY <1>13, <1>0, <1>1, Knowing, AskingLoads, SameLoads DEF Reprobe, Unknown, At, StepOK,
     LoadOK, Holding, WithBig
<1>14. CASE Retracted(s)
  BY <1>14, <1>0, <1>1, Moving, SameLoads DEF Retracted, At, StepOK, LoadOK, Holding, WithBig
<1>15. CASE Lost(s) \/ Kill(s)
  BY <1>15, <1>0, <1>1, Going, Knowing, SameLoads DEF TypeOK, ServerState, Lost, Kill,
     Doubted, Unknown, StepOK, LoadOK, Holding, WithBig
<1>16. CASE Persist(s) \/ Confirm(s) \/ Write(s)
  BY <1>16, <1>0, <1>1, Going, Knowing, AskingLoads, SameLoads DEF Persist, Confirm, Write,
     Undo, Unknown, Others, Quiet, At, StepOK, LoadOK, Holding, WithBig
<1>17. CASE End(s) \/ Again(s) \/ CommitAgain(s)
  BY <1>17, <1>0, <1>1, Going, SameLoads DEF End, Again, CommitAgain, Others, Quiet, At,
     StepOK, LoadOK, Holding, WithBig
<1> QED
  BY <1>2, <1>3, <1>4, <1>5, <1>6, <1>7, <1>8, <1>9, <1>10, <1>11, <1>12, <1>13, <1>14, <1>15,
     <1>16, <1>17 DEF SwapStep

\* The server, step by step: only the holder's own operations are under way.
LEMMA ServerStep ==
    TypeOK /\ LockOK /\ HeardOK /\ ServerOK /\ [Next]_vars => ServerOK'
<1> SUFFICES ASSUME TypeOK, LockOK, HeardOK, ServerOK, [Next]_vars PROVE ServerOK'
  OBVIOUS
<1>1. CASE UNCHANGED <<server, swap>>
  BY <1>1 DEF ServerOK, LoadOK, StepOK, Loads, Pending, NeverBoth
<1>2. ASSUME NEW s \in Swaps, SwapStep(s), ~server'.mixed PROVE ServerOK'
  <2>1. /\ ~server.mixed
        /\ UNCHANGED <<server.loaded, server.pid, server.mixed>>
        /\ \A t \in Swaps \ {s} : swap'[t] = swap[t]
    BY <1>2, Frame
  <2>2. LoadOK /\ NeverBoth /\ \A t \in Swaps : StepOK(t)
    BY <2>1 DEF ServerOK
  <2>3. LoadOK' /\ StepOK(s)'
    BY <1>2, <2>2, HolderStep
  <2>4. NeverBoth'
    BY <2>1, <2>2 DEF NeverBoth
  <2>5. ASSUME NEW t \in Swaps \ {s} PROVE StepOK(t)'
    <3>1. CASE swap[t].pc \notin Locked
      BY <2>1, <3>1, UnlockedNext
    <3>2. CASE swap[t].pc \in Locked
      <4>1. swap[s].pc \notin Locked /\ swap'[s].pc \notin Locked
        BY <1>2, <3>2, Leasing DEF LockOK, OneHolder, SwapRuns
      <4>2. server'.ops = server.ops
        BY <1>2, <4>1, Sending DEF Locked, Mutating
      <4>3. Loads' = Loads
        BY <2>1, <4>2, SameLoads
      <4> QED
        BY <2>1, <2>2, <4>3 DEF StepOK
    <3> QED
      BY <3>1, <3>2
  <2> QED
    BY <2>3, <2>4, <2>5 DEF ServerOK
<1>3. CASE Ends
  <2>0. CASE server' = server
    BY <1>1, <1>3, <2>0, Ending
  <2> SUFFICES ASSUME server' = Ended PROVE ServerOK'
    BY <1>3, <2>0, Ending
  <2>1. /\ swap' = swap /\ server'.loaded = {} /\ server'.mixed = server.mixed
        /\ server'.ops = server.ops /\ server'.pid = server.pid
    BY <1>3, Ending DEF TypeOK, ServerState, Ended
  <2>2. Loads' = Loads
    BY <2>1, SameLoads
  <2> QED
    BY <2>1, <2>2 DEF ServerOK, LoadOK, NeverBoth, StepOK, Models
<1>4. ASSUME NEW op \in server.ops, Effect(op), ~server'.mixed PROVE ServerOK'
  <2>1. /\ swap' = swap /\ ~server.mixed /\ server'.pid = server.pid
        /\ server'.ops = server.ops \ {op} /\ op \in Pending
        /\ server'.loaded = IF op.act = "load" THEN server.loaded \cup {op.model}
                            ELSE server.loaded \ {op.model}
    BY <1>4 DEF TypeOK, ServerState, Effect, Pending
  <2>2. LoadOK /\ NeverBoth /\ \A t \in Swaps : StepOK(t)
    BY <2>1 DEF ServerOK
  <2>3. Loads' = Loads \ {op}
    BY <2>1 DEF Loads, Pending
  <2>4. CASE op.act = "load"
    <3>1. server.loaded = {} /\ Loads = {op}
      BY <2>1, <2>2, <2>4 DEF LoadOK, Loads
    <3>2. server'.loaded = {op.model} /\ Loads' = {}
      BY <2>1, <2>3, <2>4, <3>1
    <3>3. NeverBoth' /\ LoadOK'
      BY <3>2, ServerAssumption DEF NeverBoth, LoadOK, Models
    <3>4. ASSUME NEW t \in Swaps PROVE StepOK(t)'
      BY <2>1, <2>2, <3>1, <3>2 DEF StepOK
    <3> QED
      BY <3>3, <3>4 DEF ServerOK
  <2>5. CASE op.act # "load"
    <3>1. Loads' = Loads /\ server'.loaded \subseteq server.loaded
      BY <2>1, <2>3, <2>5 DEF Loads
    <3>2. LoadOK' /\ \A t \in Swaps : StepOK(t)'
      BY <2>1, <2>2, <3>1 DEF LoadOK, StepOK
    <3>3. NeverBoth'
      BY <2>1, <2>2, <2>5, <3>1 DEF NeverBoth, TypeOK, ServerState
    <3> QED
      BY <3>2, <3>3 DEF ServerOK
  <2> QED
    BY <2>4, <2>5
<1>5. ASSUME NEW p \in Pids, Listen(p), ~server'.mixed PROVE ServerOK'
  <2>1. /\ swap' = swap /\ server'.loaded = {launch[p].model}
        /\ \A t \in Swaps : swap[t].pc \notin Locked
    BY <1>5, Listening DEF SwapRuns
  <2>2. Loads' = {}
    BY <1>5, Listening DEF HeardOK, Loads, Pending
  <2>3. LoadOK' /\ NeverBoth'
    BY <2>1, <2>2, ServerAssumption DEF LoadOK, NeverBoth, Models
  <2> QED
    BY <2>1, <2>3, UnlockedNext DEF ServerOK
<1>6. server'.mixed => ServerOK'
  BY DEF ServerOK
<1> QED
  BY <1>1, <1>2, <1>3, <1>4, <1>5, <1>6, Watching DEF Next, vars, Admit, EndCall

LEMMA Initially == Init => IInv
<1> SUFFICES ASSUME Init PROVE IInv
  OBVIOUS
<1> USE DEF Init, NoServer, NoLaunch, NoResidency, NoSwap, NoCall
<1>1. TypeOK
  BY ServerAssumption DEF TypeOK, ServerState, SwapState, Steps, Models
<1>2. PreviousOK /\ LockOK
  BY DEF PreviousOK, LockOK, OneHolder, CallRuns, Locked, Mutating, Waiting
<1>3. HeardOK /\ DoubtOK /\ CallsUndisturbed
  BY DEF HeardOK, Heard, DoubtOK, CallsUndisturbed, Pending
<1>4. LoadOK /\ NeverBoth
  BY DEF LoadOK, NeverBoth, Loads, Pending, Models
<1>5. ServerOK
  BY <1>4, Unlocked DEF ServerOK, Locked, Mutating, Waiting
<1>6. SelectOK /\ AskedOK /\ CancelKept
  BY DEF SelectOK, Sure, AskedOK, CancelKept, Committing
<1> QED
  BY <1>1, <1>2, <1>3, <1>5, <1>6 DEF IInv

\* The invariant is inductive.
THEOREM Invariance == Spec => []IInv
<1>1. IInv /\ [Next]_vars => IInv'
  BY TypeStep, PreviousStep, LockStep, HeardStep, ServerStep, DoubtStep, CallsStep, SelectStep,
     AskedStep DEF IInv
<1> QED
  BY <1>1, Initially, PTL DEF Spec

(* The server that listens never has Flash and the big model loaded        *)
(* together, whatever is lost, whichever process dies and whatever is      *)
(* started or stopped beside it: the runs' NeverBoth, for every number of  *)
(* swaps, calls, servers and losses.                                       *)
THEOREM NeverBothAlways == Spec => []NeverBoth
<1>1. IInv => NeverBoth
  BY DEF IInv, ServerOK, NeverBoth
<1> QED
  BY <1>1, Invariance, PTL

(* A call finds the same models loaded from its admission to its end.      *)
THEOREM CallsAlwaysUndisturbed == Spec => []CallsUndisturbed
<1>1. IInv => CallsUndisturbed
  BY DEF IInv
<1> QED
  BY <1>1, Invariance, PTL

(* What a swap selected stays loaded on the server it selected it on.      *)
THEOREM SelectionAlwaysResident == Spec => []SelectionIsResident
<1>1. IInv => SelectionIsResident
  BY DEF IInv, SelectOK, Sure, SelectionIsResident
<1> QED
  BY <1>1, Invariance, PTL

(* A swap cancelled in time selects nothing.                               *)
THEOREM CancelAlwaysKept == Spec => []CancelKept
<1>1. IInv => CancelKept
  BY DEF IInv
<1> QED
  BY <1>1, Invariance, PTL
=============================================================================
