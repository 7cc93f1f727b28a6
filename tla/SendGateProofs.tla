--------------------------- MODULE SendGateProofs ---------------------------
(***************************************************************************)
(* What SendGate keeps for every number of rooms and processings, all      *)
(* limits and all times: nothing passes a stored trip, trips stay, counted *)
(* sends are paced, and a smoke run stays within its cap.                  *)
(***************************************************************************)
EXTENDS SendGate, FiniteSetTheorems, TLAPS

Run == [pc : Steps, room : Rooms, grade : Grades \cup {"fake"},
        sent : 0..MaxTime]

(* The types the other facts rest on.                                        *)
GateType ==
    /\ trip \in [Scopes -> Reasons \cup {"none"}]
    /\ passed \in [Scopes -> SUBSET Runs]
    /\ verdict \in [Rooms -> Verdict]
    /\ run \in [Runs -> Run]
    /\ applied \subseteq Runs /\ lost \subseteq Runs
    /\ pacing.next \in Int
    /\ now \in 1..MaxTime

(* Nothing is dated later than now.                                          *)
Dated == \A p \in Runs : run[p].sent <= now

(* Receipts that are counted in order are older than those still to come:    *)
(* a counted send was sent before every send that is not counted yet.        *)
Ordered ==
    /\ \A p \in applied : run[p].pc \in {"sent", "closed"}
    /\ InOrder => \A p \in applied, q \in Runs :
          q \notin applied /\ At(q, "sent") => run[p].sent <= run[q].sent

(* The counted sends hold the next one back, given their order.              *)
Paced == InOrder => CountedIsPaced

IInv == GateType /\ Dated /\ TicketsPrecedeTrips /\ Ordered /\ Paced

LEMMA InitInv == Init => IInv
<1>. SUFFICES ASSUME Init PROVE IInv
  OBVIOUS
<1>. USE RoomsAssumption, LimitsAssumption DEF Init
<1>1. NoVerdict \in Verdict
  BY DEF NoVerdict, Verdict, Scopes
<1>2. Idle \in Run
  BY DEF Idle, Run, Steps
<1>3. GateType
  BY <1>1, <1>2 DEF GateType
<1>4. Dated
  BY DEF Dated, Idle
<1>5. TicketsPrecedeTrips
  BY DEF TicketsPrecedeTrips
<1>6. Ordered /\ Paced
  BY DEF Ordered, Paced, CountedIsPaced
<1>. QED
  BY <1>3, <1>4, <1>5, <1>6 DEF IInv

(* What a step of processing p leaves behind: another run of p alone, which  *)
(* is past the breaker only if it was, or if no trip covers its room.        *)
Moves(p, r) ==
    /\ run' = [run EXCEPT ![p] = r]
    /\ UNCHANGED <<trip, passed, verdict, now>>
    /\ r.sent <= now
    /\ r.pc \in Passed => ~Tripped(r.room) \/ (run[p].pc \in Passed /\ r.room = run[p].room)
    /\ run[p].pc \in {"sent", "closed"} =>
          r.pc \in {"sent", "closed"} /\ r.sent = run[p].sent /\ r.grade = run[p].grade
    /\ r.pc = "sent" => run[p].pc = "sent" \/ r.sent = now

(* The fields a processing has after it moved on, sent, or was detected.     *)
LEMMA Sent ==
    ASSUME NEW x \in Run, NEW t \in 0..MaxTime
    PROVE  LET r == [x EXCEPT !.pc = "sent", !.sent = t]
           IN  r \in Run /\ r.pc = "sent" /\ r.sent = t
BY DEF Run, Steps

LEMMA Detected ==
    ASSUME NEW x \in Run, NEW room \in Rooms, NEW g \in Grades \cup {"fake"}
    PROVE  LET r == [x EXCEPT !.pc = "detected", !.room = room, !.grade = g]
           IN  r \in Run /\ r.pc = "detected" /\ r.sent = x.sent
BY DEF Run, Steps

LEMMA ProcessMoves ==
    ASSUME GateType, Dated, NEW p \in Runs, Process(p)
    PROVE  \E r \in Run : Moves(p, r)
<1>. run[p] \in Run /\ now \in 1..MaxTime /\ run[p].sent <= now
  BY DEF GateType, Dated
<1>. DEFINE Step(pc) == [run[p] EXCEPT !.pc = pc]
            Kept == UNCHANGED <<trip, passed, verdict, now>>
<1>0. ASSUME NEW pc \in Steps
      PROVE  Step(pc) \in Run /\ Step(pc).pc = pc /\ Step(pc).sent = run[p].sent
             /\ Step(pc).grade = run[p].grade /\ Step(pc).room = run[p].room
  BY DEF Run
<1>a. Ended \in Run /\ Ended.pc = "closed" /\ Ended.sent = 0
  BY RoomsAssumption, LimitsAssumption DEF Ended, Idle, Run, Steps
<1>b. ASSUME End(p), Kept, run[p].pc \notin {"sent", "closed"}
      PROVE  Moves(p, Ended)
  BY <1>a, <1>b DEF End, Moves, GateType, Passed
\* The steps that only move the processing on.
<1>c. ASSUME NEW pc \in Steps, run' = [run EXCEPT ![p].pc = pc], Kept,
             run[p].pc \notin {"sent", "closed"}, pc # "sent",
             pc \in Passed => run[p].pc \in Passed \/ ~Tripped(run[p].room)
      PROVE  \E r \in Run : Moves(p, r)
  <2>. DEFINE r == Step(pc)
  <2>1. run' = [run EXCEPT ![p] = r]
    BY <1>c DEF GateType
  <2>2. r \in Run /\ r.pc = pc /\ r.sent = run[p].sent /\ r.room = run[p].room
    BY <1>0
  <2>. HIDE DEF r
  <2>3. Moves(p, r)
    BY <1>c, <2>1, <2>2 DEF Moves
  <2>. QED
    BY <2>2, <2>3
<1>1. CASE Detect(p)
  <2>1. PICK x \in Run : x = run[p]
    OBVIOUS
  <2>2. PICK room \in Rooms, g \in Grades \cup {"fake"} :
           run' = [run EXCEPT ![p] = [x EXCEPT !.pc = "detected", !.room = room, !.grade = g]]
    BY <1>1, <2>1 DEF Detect, GateType
  <2>. DEFINE r == [x EXCEPT !.pc = "detected", !.room = room, !.grade = g]
  <2>3. run' = [run EXCEPT ![p] = r] /\ Kept /\ run[p].pc = "idle"
    BY <1>1, <2>2 DEF Detect, Stores, Breaker, Samples, At
  <2>4. r \in Run /\ r.pc = "detected" /\ r.sent = x.sent
    BY Detected
  <2>. HIDE DEF r
  <2>5. Moves(p, r)
    BY <2>1, <2>3, <2>4 DEF Moves, Passed
  <2>. QED
    BY <2>4, <2>5
<1>2. CASE Admit(p) /\ ~End(p)
  BY <1>2, <1>c DEF Admit, Goto, Stores, Breaker, Samples, At, Steps, Passed
<1>3. CASE AskBreaker(p) \/ CheckGrade(p) \/ Authorize(p)
  BY <1>3, <1>c DEF AskBreaker, CheckGrade, Authorize, Goto, Stores, Breaker, Samples, At, Steps, Passed
<1>4. CASE (Admit(p) \/ Fence(p) \/ Generate(p) \/ SendFails(p)) /\ End(p)
  BY <1>4, <1>a, <1>b DEF Admit, Fence, Generate, SendFails, Stores, Breaker, Samples, At
<1>5. CASE Generate(p) /\ ~End(p)
  BY <1>5, <1>c DEF Generate, Goto, Stores, Breaker, Samples, At, Steps, Passed
<1>6. CASE Send(p)
  <2>. DEFINE r == [run[p] EXCEPT !.pc = "sent", !.sent = now]
  <2>1. run' = [run EXCEPT ![p] = r] /\ Kept /\ run[p].pc = "reply"
    BY <1>6 DEF Send, At, GateType, Breaker
  <2>2. now \in 0..MaxTime
    OBVIOUS
  <2>3. r \in Run /\ r.pc = "sent" /\ r.sent = now
    BY <2>2, Sent
  <2>. HIDE DEF r
  <2>4. Moves(p, r)
    BY <2>1, <2>3 DEF Moves, Passed
  <2>. QED
    BY <2>3, <2>4
<1>7. CASE OnCommit(p) \/ OnCommitAgain(p)
  <2>1. run' = [run EXCEPT ![p] = Step("closed")] /\ Kept /\ run[p].pc = "sent"
    BY <1>7 DEF OnCommit, OnCommitAgain, Receivable, Goto, Stores, Breaker, Samples, At, GateType
  <2>. QED
    BY <2>1, <1>0 DEF Moves, Steps, Passed
<1>8. CASE OnCommitFails(p)
  <2>1. run' = [run EXCEPT ![p] = run[p]] /\ Kept /\ run[p].pc = "sent"
    BY <1>8 DEF OnCommitFails, Receivable, Breaker, At, GateType
  <2>. QED
    BY <2>1 DEF Moves, Passed

<1>. QED
  BY <1>1, <1>2, <1>3, <1>4, <1>5, <1>6, <1>7, <1>8 DEF Process, Fence, SendFails
(* A processing that moves keeps the facts about the trips and its dates.    *)
LEMMA MoveKeeps ==
    ASSUME IInv, NEW p \in Runs, NEW r \in Run, Moves(p, r)
    PROVE  /\ run' \in [Runs -> Run] /\ Dated' /\ TicketsPrecedeTrips'
<1>. GateType /\ Dated /\ TicketsPrecedeTrips
  BY DEF IInv
<1>1. run' \in [Runs -> Run] /\ run'[p] = r /\ \A q \in Runs : q # p => run'[q] = run[q]
  BY DEF Moves, GateType
<1>2. Dated'
  BY <1>1 DEF Dated, Moves
<1>3. ASSUME NEW q \in Runs, NEW s \in Scopes, run'[q].pc \in Passed,
             Covers(s, run'[q].room), trip[s] # "none"
      PROVE  q \in passed[s]
  <2>1. CASE q # p
    BY <1>1, <1>3, <2>1 DEF TicketsPrecedeTrips
  <2>2. CASE q = p /\ ~Tripped(r.room)
    BY <1>1, <1>3, <2>2 DEF Tripped
  <2>3. CASE q = p /\ Tripped(r.room)
    BY <1>1, <1>3, <2>3 DEF Moves, TicketsPrecedeTrips
  <2>. QED
    BY <2>1, <2>2, <2>3
<1>4. TicketsPrecedeTrips'
  BY <1>3 DEF TicketsPrecedeTrips, Covers, Moves
<1>. QED
  BY <1>1, <1>2, <1>4

(* Receipts, pacing and their order, for every step of a processing.         *)
LEMMA CountKeeps ==
    ASSUME IInv, NEW p \in Runs, Process(p)
    PROVE  /\ applied' \subseteq Runs /\ lost' \subseteq Runs /\ pacing'.next \in Int
           /\ Ordered' /\ Paced'
<1>. GateType /\ Dated /\ Ordered /\ Paced
  BY DEF IInv
<1>1. PICK r \in Run : Moves(p, r)
  BY ProcessMoves
<1>2. /\ run'[p] = r /\ \A q \in Runs : q # p => run'[q] = run[q]
      /\ \A q \in applied : q \in Runs /\ run'[q].sent = run[q].sent
                            /\ run'[q].pc \in {"sent", "closed"}
                            /\ run'[q].grade = run[q].grade
  BY <1>1 DEF Moves, GateType, Ordered
<1>3. /\ \A q \in Runs : run[q].sent \in 0..MaxTime /\ run[q].sent <= now
      /\ now \in Int /\ Base \in Nat
  BY LimitsAssumption DEF GateType, Dated, Run
<1>4. ASSUME NEW q \in Runs, run'[q].pc = "sent"
      PROVE  (run[q].pc = "sent" /\ run'[q].sent = run[q].sent) \/ run'[q].sent = now
  BY <1>1, <1>2, <1>4 DEF Moves
<1>5. CASE UNCHANGED <<applied, lost, pacing>>
  <2>1. applied' \subseteq Runs /\ lost' \subseteq Runs /\ pacing'.next \in Int
    BY <1>5 DEF GateType
  <2>2. Ordered'
    BY <1>2, <1>3, <1>4, <1>5 DEF Ordered, At
  <2>3. Paced'
    BY <1>2, <1>5 DEF Paced, CountedIsPaced, Real
  <2>. QED
    BY <2>1, <2>2, <2>3
<1>6. ASSUME Receivable(p), p \notin applied, InOrder
      PROVE  /\ \A q \in applied : run[q].sent <= run[p].sent
             /\ \A q \in Runs : At(q, "sent") /\ q \notin applied => run[p].sent <= run[q].sent
  BY <1>6 DEF Receivable, Ordered
<1>7. ASSUME Receivable(p), Record(p), UNCHANGED now, r.pc \in {"sent", "closed"}
      PROVE  applied' \subseteq Runs /\ Ordered'
  <2>1. applied' = applied \cup {p} /\ p \notin applied /\ run'[p].sent = run[p].sent
    BY <1>7, <1>1 DEF Record, Moves, Receivable, At
  <2>2. \A q \in applied' : run'[q].pc \in {"sent", "closed"}
    BY <1>2, <1>7, <2>1
  <2>3. ASSUME InOrder, NEW a \in applied', NEW q \in Runs, q \notin applied', run'[q].pc = "sent"
        PROVE  run'[a].sent <= run'[q].sent
    BY <1>2, <1>3, <1>4, <1>6, <1>7, <2>1, <2>3 DEF At
  <2>. QED
    BY <2>1, <2>2, <2>3 DEF Ordered, At, GateType
<1>8. CASE OnCommit(p)
  <2>1. /\ Receivable(p) /\ Record(p) /\ lost' = lost /\ UNCHANGED now /\ r.pc \in {"sent", "closed"}
        /\ p \notin applied /\ applied' = applied \cup {p}
    BY <1>1, <1>8 DEF OnCommit, Receivable, Record, Moves, At
  <2>2. run[p].sent = run'[p].sent /\ run'[p].grade = run[p].grade
    BY <1>1, <1>2, <2>1 DEF Moves, Receivable, At
  <2>3. CASE Real(run[p].grade)
    <3>1. PICK j \in {0, Base} : pacing' = [next |-> run[p].sent + Base + j, of |-> p]
      BY <1>8, <2>3 DEF OnCommit, PlanPacing
    <3>2. pacing'.next \in Int /\ pacing'.next >= run[p].sent + Base
      BY <1>3, <3>1
    <3>3. InOrder => CountedIsPaced'
      BY <1>2, <1>3, <1>6, <2>1, <2>2, <3>2 DEF CountedIsPaced
    <3>. QED
      BY <1>7, <2>1, <3>2, <3>3 DEF Paced, GateType
  <2>4. CASE ~Real(run[p].grade)
    <3>1. pacing' = pacing
      BY <1>8, <2>4 DEF OnCommit
    <3>2. InOrder => CountedIsPaced'
      BY <1>2, <2>1, <2>2, <2>4, <3>1 DEF Paced, CountedIsPaced, Real
    <3>. QED
      BY <1>7, <2>1, <3>1, <3>2 DEF Paced, GateType
  <2>. QED
    BY <2>3, <2>4
<1>9. CASE OnCommitFails(p)
  <2>1. /\ Receivable(p) /\ Record(p) /\ lost' = lost \cup {p} /\ UNCHANGED <<now, pacing>>
        /\ r.pc \in {"sent", "closed"} /\ applied' = applied \cup {p}
    BY <1>1, <1>9 DEF OnCommitFails, Receivable, Record, Moves, At
  <2>2. Paced'
    BY <1>2, <2>1 DEF Paced, CountedIsPaced, Real
  <2>. QED
    BY <1>7, <2>1, <2>2 DEF GateType
<1>. QED
  BY <1>5, <1>8, <1>9 DEF Process, Detect, Admit, AskBreaker, CheckGrade, Authorize, Fence,
     Generate, Send, SendFails, OnCommitAgain, Stores, Samples

(* The steps of the breaker, the clock and a restart.                        *)
LEMMA OtherKeeps ==
    ASSUME IInv, [Next]_vars, \A p \in Runs : ~Process(p)
    PROVE  IInv'
<1>. /\ GateType /\ Dated /\ TicketsPrecedeTrips /\ Ordered /\ Paced
     /\ MaxTime \in Nat /\ now \in Int
  BY LimitsAssumption DEF IInv, GateType
<1>1. CASE UNCHANGED <<trip, passed, run, applied, pacing, lost, now>> /\ verdict' \in [Rooms -> Verdict]
  BY <1>1 DEF IInv, GateType, Dated, TicketsPrecedeTrips, Ordered, Paced, CountedIsPaced, At
<1>2. ASSUME NEW c \in Rooms, Observe(c) \/ StoreTripFails(c)
      PROVE  IInv'
  <2>1. Evaluate(c) \in Verdict /\ NoVerdict \in Verdict
    BY DEF Evaluate, NoVerdict, Verdict, Scopes, Reasons
  <2>2. verdict' \in [Rooms -> Verdict]
    BY <1>2, <2>1 DEF Observe, StoreTripFails, Observed, GateType
  <2>. QED
    BY <1>1, <1>2, <2>2 DEF Observe, StoreTripFails, Samples
<1>6. ASSUME NEW c \in Rooms, StoreTrip(c)
      PROVE  IInv'
  <2>1. PICK s \in Scopes : s = verdict[c].scope
    BY DEF GateType, Verdict
  <2>2. PICK w \in Reasons : w = verdict[c].reason
    BY <1>6 DEF StoreTrip, Observed, GateType, Verdict
  <2>3. /\ trip' = [trip EXCEPT ![s] = w]
        /\ passed' = [passed EXCEPT ![s] =
              IF trip[s] = "none" THEN {p \in Runs : run[p].pc \in Passed} ELSE passed[s]]
        /\ verdict' \in [Rooms -> Verdict]
        /\ UNCHANGED <<run, applied, pacing, lost, now>>
    <3>1. NoVerdict \in Verdict
      BY DEF NoVerdict, Verdict, Scopes
    <3>. QED
      BY <1>6, <2>1, <2>2, <3>1 DEF StoreTrip, Observed, Samples, GateType
  <2>4. GateType' /\ Dated'
    BY <2>3 DEF GateType, Dated
  <2>5. ASSUME NEW p \in Runs, NEW t \in Scopes, run[p].pc \in Passed, Covers(t, run[p].room),
               trip'[t] # "none"
        PROVE  p \in passed'[t]
    BY <2>3, <2>5 DEF TicketsPrecedeTrips, GateType
  <2>6. TicketsPrecedeTrips'
    BY <2>3, <2>5 DEF TicketsPrecedeTrips, Covers
  <2>. QED
    BY <2>3, <2>4, <2>6 DEF IInv, Ordered, Paced, CountedIsPaced, At
<1>3. ASSUME NEW s \in Scopes, Release(s)
      PROVE  IInv'
  <2>1. /\ \A t \in Scopes : trip'[t] \in {"none", trip[t]}
        /\ trip' = [t \in Scopes |-> IF s = "all" \/ t = s THEN "none" ELSE trip[t]]
        /\ UNCHANGED <<verdict, passed, run, applied, pacing, lost, now>>
    BY <1>3 DEF Release, GateType, Samples
  <2>2. GateType' /\ Dated'
    BY <2>1 DEF GateType, Dated
  <2>3. TicketsPrecedeTrips'
    BY <2>1 DEF TicketsPrecedeTrips, Covers
  <2>. QED
    BY <2>1, <2>2, <2>3 DEF IInv, Ordered, Paced, CountedIsPaced, At
<1>4. CASE Tick
  <2>1. now' = now + 1 /\ now' \in 1..MaxTime /\ UNCHANGED <<trip, passed, verdict, run, applied, pacing, lost>>
    BY <1>4 DEF Tick, GateType, Breaker
  <2>2. GateType'
    BY <2>1 DEF GateType
  <2>3. Dated'
    BY <2>1 DEF Dated, GateType, Run
  <2>. QED
    BY <2>1, <2>2, <2>3 DEF IInv, Ordered, Paced, CountedIsPaced, At, TicketsPrecedeTrips
<1>5. CASE Restart
  <2>1. /\ UNCHANGED <<trip, passed, applied, pacing, now, lost>>
        /\ verdict' \in [Rooms -> Verdict]
    BY <1>5 DEF Restart, NoVerdict, Verdict, Scopes
  <2>2. Ended \in Run /\ Ended.pc = "closed" /\ Ended.sent = 0
    BY RoomsAssumption DEF Ended, Idle, Run, Steps
  <2>3. \A p \in Runs : run'[p] = IF run[p].pc \in {"idle", "sent", "closed"}
                                  THEN run[p] ELSE Ended
    BY <1>5 DEF Restart
  <2>4. GateType'
    <3>1. run' \in [Runs -> Run]
      BY <1>5, <2>2 DEF Restart, GateType
    <3>. QED
      BY <2>1, <3>1 DEF GateType
  <2>5. Dated' /\ TicketsPrecedeTrips'
    BY <2>1, <2>2, <2>3 DEF Dated, TicketsPrecedeTrips, GateType, Passed
  <2>6. \A p \in applied : p \in Runs /\ run'[p] = run[p]
    BY <2>3 DEF Ordered, GateType
  <2>7. \A p \in Runs : run'[p].pc = "sent" => run'[p] = run[p]
    BY <2>2, <2>3
  <2>8. Ordered' /\ Paced'
    BY <2>1, <2>6, <2>7 DEF Ordered, Paced, CountedIsPaced, At
  <2>. QED
    BY <2>4, <2>5, <2>8 DEF IInv
<1>. QED
  BY <1>1, <1>2, <1>3, <1>4, <1>5, <1>6
     DEF Next, Alternate, HumanSpeaks, BeginSmokeRun, vars, Breaker, Samples, GateType

(* The inductive invariant holds in every state.                             *)
THEOREM Invariance == Spec => []IInv
<1>1. ASSUME IInv, NEW p \in Runs, Process(p)
      PROVE  IInv'
  <2>1. PICK r \in Run : Moves(p, r)
    BY <1>1, ProcessMoves DEF IInv
  <2>2. UNCHANGED <<trip, passed, verdict, now>>
    BY <2>1 DEF Moves
  <2>3. GateType'
    BY <1>1, <2>1, <2>2, MoveKeeps, CountKeeps DEF GateType, IInv
  <2>. QED
    BY <1>1, <2>1, <2>3, MoveKeeps, CountKeeps DEF IInv
<1>2. IInv /\ [Next]_vars => IInv'
  BY <1>1, OtherKeeps
<1>. QED
  BY InitInv, <1>2, PTL DEF Spec

(* SendGuard::authorize lets nothing past a stored trip: what is on its way  *)
(* had asked the breaker before every trip that covers its room was stored.  *)
THEOREM TicketsBeforeTrips == Spec => []TicketsPrecedeTrips
<1>1. IInv => TicketsPrecedeTrips
  BY DEF IInv
<1>. QED
  BY Invariance, <1>1, PTL

(* When receipts come in the order of the sends, the collector's pacing      *)
(* holds for every counted send whose pacing could be saved.                 *)
THEOREM CountedArePaced ==
    ASSUME InOrder
    PROVE  Spec => []CountedIsPaced
<1>1. IInv => CountedIsPaced
  BY DEF IInv, Paced
<1>. QED
  BY Invariance, <1>1, PTL

(* Only the user's release removes a trip; observations, restarts and sends  *)
(* keep it.                                                                  *)
THEOREM TripsKept == Spec => TripKept
<1>1. ASSUME IInv, [Next]_vars, NEW s \in Scopes, trip[s] # "none", trip'[s] = "none"
      PROVE  \E t \in Scopes : (t = "all" \/ t = s) /\ Release(t)
  <2>. GateType
    BY <1>1 DEF IInv
  <2>1. ASSUME NEW c \in Rooms, StoreTrip(c)
        PROVE  trip'[s] # "none"
    BY <1>1, <2>1 DEF StoreTrip, Observed, GateType
  <2>2. ASSUME NEW p \in Runs, Process(p)
        PROVE  trip' = trip
    BY <1>1, <2>2, ProcessMoves DEF Moves, IInv
  <2>3. \E u \in Scopes : Release(u)
    BY <1>1, <2>1, <2>2 DEF Next, Alternate, HumanSpeaks, Observe, StoreTripFails, BeginSmokeRun,
       Tick, Restart, vars, Breaker
  <2>. QED
    BY <1>1, <2>3 DEF Release
<1>2. IInv /\ [Next]_vars =>
        [\A s \in Scopes : trip[s] # "none" /\ trip'[s] = "none" =>
          \E t \in Scopes : (t = "all" \/ t = s) /\ Release(t)]_vars
  BY <1>1
<1>. QED
  BY Invariance, <1>2, PTL DEF Spec, TripKept

-----------------------------------------------------------------------------
(* The smoke run                                                             *)

InFlight == OnTheWay
Unsent == {"graded", "ticket", "reply"}
Smoke(p) == run[p].grade = "smoke"
\* No other smoke send is on its way or still to be counted.
Alone(p) == \A q \in Runs : q # p /\ Smoke(q) => run[q].pc \notin InFlight

(* Sends of the smoke run that are not closed have no company, so that the   *)
(* number of the sends exceeds the count by the one that is not counted yet. *)
SmokeInv ==
    /\ smoke \in Nat /\ smokeSent \subseteq Runs /\ IsFiniteSet(smokeSent)
    /\ \A p \in smokeSent : Smoke(p) /\ run[p].pc \in {"sent", "closed"}
    /\ lost = {} => \A p \in applied : run[p].pc # "sent"
    /\ calm /\ lost = {} =>
          /\ Cardinality(smokeSent) <= SMOKE_CAP
          /\ \A p \in Runs : Smoke(p) /\ run[p].pc \in Unsent
                             => Alone(p) /\ smoke < SMOKE_CAP
          /\ \A p \in smokeSent : run[p].pc = "sent"
                             => Alone(p) /\ Cardinality(smokeSent) <= smoke + 1
          /\ (\A p \in smokeSent : run[p].pc = "closed") => Cardinality(smokeSent) <= smoke

LEMMA SmokeInit == Init => SmokeInv
<1>. SUFFICES ASSUME Init PROVE SmokeInv
  OBVIOUS
<1>1. IsFiniteSet({}) /\ Cardinality({}) = 0
  BY FS_EmptySet
<1>2. \A p \in Runs : run[p].pc = "idle"
  BY DEF Init, Idle
<1>. QED
  BY <1>1, <1>2, LimitsAssumption DEF Init, SmokeInv, Unsent

\* A step of p that does not touch the smoke run.
LEMMA SmokeElsewhere ==
    ASSUME GateType, SmokeInv, NEW p \in Runs, NEW r,
           run' = [run EXCEPT ![p] = r],
           UNCHANGED <<applied, smoke, lost, smokeSent, calm>>,
           run[p].pc \notin {"sent", "closed"}, r.pc # "sent",
           \/ r.pc \notin InFlight
           \/ /\ run[p].pc \in Unsent /\ r.pc \in {"ticket", "reply"}
              /\ r.grade = run[p].grade
    PROVE  SmokeInv'
<1>1. run'[p] = r /\ \A q \in Runs : q # p => run'[q] = run[q]
  BY DEF GateType
<1>2. p \notin smokeSent /\ smokeSent \subseteq Runs
  BY DEF SmokeInv
<1>3. \A q \in smokeSent : run'[q] = run[q]
  BY <1>1, <1>2
<1>4. \A q \in Runs : Alone(q) => Alone(q)'
  BY <1>1 DEF Alone, Smoke, InFlight, OnTheWay, Unsent
<1>5. \A q \in applied : run'[q].pc = "sent" => run[q].pc = "sent"
  BY <1>1 DEF GateType
<1>6. \A q \in Runs : Smoke(q)' /\ run'[q].pc \in Unsent
                      => Smoke(q) /\ run[q].pc \in Unsent
  BY <1>1 DEF Smoke, InFlight, OnTheWay, Unsent
<1>. QED
  BY <1>3, <1>4, <1>5, <1>6 DEF SmokeInv, Smoke

LEMMA SmokeGraded ==
    ASSUME GateType, SmokeInv, NEW p \in Runs, CheckGrade(p)
    PROVE  SmokeInv'
<1>. DEFINE r == [run[p] EXCEPT !.pc = "graded"]
<1>1. r.pc = "graded" /\ r.grade = run[p].grade
  BY DEF GateType, Run
<1>2. /\ run'[p] = r /\ \A q \in Runs : q # p => run'[q] = run[q]
      /\ run[p].pc = "cleared"
      /\ UNCHANGED <<applied, smoke, lost, smokeSent>>
  BY DEF CheckGrade, GateType, Goto, At, Samples
<1>. HIDE DEF r
<1>3. p \notin smokeSent /\ \A q \in smokeSent : run'[q] = run[q]
  BY <1>2 DEF SmokeInv
<1>4. \A q \in applied : run'[q].pc = "sent" => run[q].pc = "sent"
  BY <1>1, <1>2 DEF GateType
<1>5. CASE ~Smoke(p)
  <2>1. calm' => calm
    BY <1>5 DEF CheckGrade, Smoke
  <2>2. \A q \in Runs : Alone(q) => Alone(q)'
    BY <1>1, <1>2, <1>5 DEF Alone, Smoke, InFlight, OnTheWay, Unsent
  <2>3. \A q \in Runs : Smoke(q)' /\ run'[q].pc \in Unsent
                        => Smoke(q) /\ run[q].pc \in Unsent
    BY <1>1, <1>2, <1>5 DEF Smoke
  <2>. QED
    BY <1>2, <1>3, <1>4, <2>1, <2>2, <2>3 DEF SmokeInv, Smoke
<1>6. CASE Smoke(p)
  <2>1. calm' => calm /\ \A q \in Runs : Smoke(q) => run[q].pc \notin InFlight
    BY <1>6 DEF CheckGrade, Smoke, InFlight
  <2>2. smoke < SMOKE_CAP
    BY <1>6 DEF CheckGrade, GradeAllows, Smoke
  <2>3. calm' => Alone(p)'
    BY <1>2, <2>1 DEF Alone, Smoke
  <2>4. calm' => \A q \in Runs : Smoke(q)' /\ run'[q].pc \in InFlight => q = p
    BY <1>2, <2>1 DEF Smoke
  <2>. QED
    BY <1>1, <1>2, <1>3, <1>4, <2>1, <2>2, <2>3, <2>4 DEF SmokeInv, Smoke, InFlight, OnTheWay, Unsent
<1>. QED
  BY <1>5, <1>6

LEMMA SmokeSends ==
    ASSUME GateType, Ordered, SmokeInv, NEW p \in Runs, Send(p)
    PROVE  SmokeInv'
<1>. DEFINE r == [run[p] EXCEPT !.pc = "sent", !.sent = now]
<1>1. r.pc = "sent" /\ r.grade = run[p].grade
  BY DEF GateType, Run
<1>2. /\ run'[p] = r /\ \A q \in Runs : q # p => run'[q] = run[q]
      /\ run[p].pc = "reply"
      /\ UNCHANGED <<applied, smoke, lost, calm>>
      /\ smokeSent' = IF Smoke(p) THEN smokeSent \cup {p} ELSE smokeSent
  BY DEF Send, At, GateType, Smoke, Samples
<1>. HIDE DEF r
<1>3. p \notin smokeSent /\ \A q \in smokeSent : run'[q] = run[q] /\ q \in Runs
  BY <1>2 DEF SmokeInv
<1>4. \A q \in applied : run'[q].pc = "sent" => run[q].pc = "sent"
  BY <1>1, <1>2 DEF GateType, Ordered
<1>5. \A q \in Runs : q # p /\ Smoke(q)' => Smoke(q)
  BY <1>2 DEF Smoke
<1>6. CASE ~Smoke(p)
  <2>1. \A q \in Runs : Alone(q) => Alone(q)'
    BY <1>1, <1>2, <1>6 DEF Alone, Smoke, InFlight, OnTheWay, Unsent
  <2>2. \A q \in Runs : Smoke(q)' /\ run'[q].pc \in Unsent
                        => Smoke(q) /\ run[q].pc \in Unsent
    BY <1>1, <1>2, <1>6 DEF Smoke
  <2>. QED
    BY <1>2, <1>3, <1>4, <1>6, <2>1, <2>2 DEF SmokeInv, Smoke
<1>7. CASE Smoke(p)
  <2>1. /\ IsFiniteSet(smokeSent') /\ smokeSent' \subseteq Runs /\ smoke \in Nat
        /\ Cardinality(smokeSent') = Cardinality(smokeSent) + 1
        /\ Cardinality(smokeSent) \in Nat
    BY <1>2, <1>3, <1>7, FS_AddElement, FS_CardinalityType DEF SmokeInv
  <2>2. \A q \in smokeSent' : Smoke(q)' /\ run'[q].pc \in {"sent", "closed"}
    BY <1>1, <1>2, <1>3, <1>7 DEF SmokeInv, Smoke
  <2>3. CASE calm /\ lost = {}
    <3>1. Alone(p) /\ smoke < SMOKE_CAP
      BY <1>2, <1>7, <2>3 DEF SmokeInv, Unsent
    <3>2. \A q \in smokeSent : run[q].pc = "closed"
      BY <1>3, <3>1 DEF SmokeInv, Alone, InFlight, OnTheWay
    <3>3. Cardinality(smokeSent') <= smoke + 1 /\ Cardinality(smokeSent') <= SMOKE_CAP
      BY <2>1, <2>3, <3>1, <3>2, LimitsAssumption DEF SmokeInv
    <3>4. Alone(p)' /\ \A q \in Runs : Smoke(q)' /\ run'[q].pc \in InFlight => q = p
      BY <1>2, <3>1 DEF Alone, Smoke
    <3>5. p \in smokeSent' /\ run'[p].pc = "sent"
      BY <1>1, <1>2, <1>7
    <3>. QED
      BY <1>2, <1>4, <2>1, <2>2, <3>3, <3>4, <3>5 DEF SmokeInv, InFlight, OnTheWay, Unsent
  <2>4. CASE ~(calm /\ lost = {})
    BY <1>2, <1>4, <2>1, <2>2, <2>4 DEF SmokeInv
  <2>. QED
    BY <2>3, <2>4
<1>. QED
  BY <1>6, <1>7

\* A receipt closes a send, and counts it the first time.
LEMMA SmokeCounts ==
    ASSUME GateType, Ordered, SmokeInv, NEW p \in Runs, OnCommit(p)
    PROVE  SmokeInv'
<1>. DEFINE r == [run[p] EXCEPT !.pc = "closed"]
<1>1. r.pc = "closed" /\ r.grade = run[p].grade
  BY DEF GateType, Run
<1>2. /\ run'[p] = r /\ \A q \in Runs : q # p => run'[q] = run[q]
      /\ run[p].pc = "sent" /\ applied' = applied \cup {p}
      /\ UNCHANGED <<lost, calm, smokeSent>>
      /\ smoke' = IF Smoke(p) THEN smoke + 1 ELSE smoke
  BY DEF OnCommit, Receivable, Record, Goto, At, GateType, Smoke
<1>. HIDE DEF r
<1>3. /\ smoke \in Nat /\ smoke' \in Nat /\ smoke <= smoke'
      /\ smokeSent \subseteq Runs /\ Cardinality(smokeSent) \in Nat
  BY <1>2, FS_CardinalityType DEF SmokeInv
<1>4. \A q \in smokeSent : Smoke(q)' /\ run'[q].pc \in {"sent", "closed"}
  BY <1>1, <1>2 DEF SmokeInv, Smoke
<1>5. lost = {} => \A q \in applied' : run'[q].pc # "sent"
  BY <1>1, <1>2 DEF SmokeInv, GateType
<1>6. CASE calm /\ lost = {}
  <2>1. \A q \in Runs : Alone(q) => Alone(q)'
    BY <1>1, <1>2 DEF Alone, Smoke, InFlight, OnTheWay, Unsent
  <2>2. \A q \in Runs : Smoke(q)' /\ run'[q].pc \in Unsent
                        => Smoke(q) /\ run[q].pc \in Unsent /\ q # p
    BY <1>1, <1>2 DEF Smoke, Unsent
  <2>3. CASE ~Smoke(p)
    <3>1. p \notin smokeSent
      BY <2>3 DEF SmokeInv
    <3>2. \A q \in smokeSent : run'[q] = run[q]
      BY <1>2, <1>3, <3>1
    <3>. QED
      BY <1>2, <1>3, <1>4, <1>5, <1>6, <2>1, <2>2, <2>3, <3>2 DEF SmokeInv
  <2>4. CASE Smoke(p)
    <3>1. \A q \in Runs : q # p /\ Alone(q) => FALSE
      BY <1>2, <2>4 DEF Alone, InFlight, OnTheWay
    <3>2. \A q \in Runs : ~(Smoke(q)' /\ run'[q].pc \in Unsent)
      BY <1>6, <2>2, <3>1 DEF SmokeInv
    <3>3. \A q \in smokeSent : q # p => run[q].pc = "closed"
      BY <1>3, <1>6, <3>1 DEF SmokeInv
    <3>4. \A q \in smokeSent : run'[q].pc = "closed"
      BY <1>1, <1>2, <1>3, <3>3
    <3>5. Cardinality(smokeSent) <= smoke + 1
      <4>1. CASE p \in smokeSent
        BY <1>2, <1>6, <4>1 DEF SmokeInv
      <4>2. CASE p \notin smokeSent
        BY <1>3, <1>6, <3>3, <4>2 DEF SmokeInv
      <4>. QED
        BY <4>1, <4>2
    <3>. QED
      BY <1>2, <1>3, <1>4, <1>5, <1>6, <2>4, <3>2, <3>4, <3>5 DEF SmokeInv
  <2>. QED
    BY <2>3, <2>4
<1>7. CASE ~(calm /\ lost = {})
  BY <1>2, <1>3, <1>4, <1>5, <1>7 DEF SmokeInv
<1>. QED
  BY <1>6, <1>7

LEMMA SmokeStep ==
    ASSUME IInv, SmokeInv, [Next]_vars
    PROVE  SmokeInv'
<1>. GateType /\ Ordered
  BY DEF IInv
<1>1. CASE UNCHANGED <<run, applied, smoke, lost, smokeSent, calm>>
  BY <1>1 DEF SmokeInv, Smoke, Alone
<1>2. ASSUME NEW p \in Runs, Detect(p) \/ Admit(p) \/ AskBreaker(p) \/ Authorize(p) \/ Fence(p) \/ Generate(p) \/ SendFails(p)
      PROVE  SmokeInv'
  <2>1. Ended.pc = "closed"
    BY DEF Ended, Idle
  <2>2. \A pc \in Steps : LET r == [run[p] EXCEPT !.pc = pc]
                          IN  r.pc = pc /\ r.grade = run[p].grade
    BY <1>2 DEF GateType, Run
  <2>3. \A c \in Rooms, g \in Grades :
           [run[p] EXCEPT !.pc = "detected", !.room = c, !.grade = g].pc = "detected"
    BY <1>2 DEF GateType, Run
  <2>4. /\ run[p].pc \notin {"sent", "closed"}
        /\ UNCHANGED <<applied, smoke, lost, smokeSent, calm>>
        /\ \E r : /\ run' = [run EXCEPT ![p] = r]
                  /\ r.pc # "sent"
                  /\ \/ r.pc \notin InFlight
                     \/ run[p].pc \in Unsent /\ r.pc \in {"ticket", "reply"} /\ r.grade = run[p].grade
    <3>1. CASE Detect(p)
      BY <2>3, <3>1 DEF Detect, At, Stores, Samples, InFlight, OnTheWay, Unsent, GateType
    <3>2. CASE Admit(p)
      BY <2>1, <2>2, <3>2 DEF Admit, At, Stores, Samples, InFlight, OnTheWay, Unsent, Goto, End, Steps
    <3>3. CASE Fence(p)
      BY <2>1, <3>3 DEF Fence, Stores, Samples, InFlight, OnTheWay, End
    <3>6. CASE AskBreaker(p) \/ Authorize(p)
      BY <2>2, <3>6 DEF AskBreaker, Authorize, At, Stores, Samples, InFlight, OnTheWay, Unsent, Goto, Steps
    <3>4. CASE Generate(p)
      BY <2>1, <2>2, <3>4 DEF Generate, At, Stores, Samples, InFlight, OnTheWay, Unsent, Goto, End, Steps
    <3>5. CASE SendFails(p)
      BY <2>1, <3>5 DEF SendFails, At, Stores, Samples, InFlight, OnTheWay, Unsent, End
    <3>. QED
      BY <1>2, <3>1, <3>2, <3>3, <3>4, <3>5, <3>6
  <2>. QED
    BY <2>4, SmokeElsewhere
<1>3. ASSUME NEW p \in Runs, OnCommitFails(p)
      PROVE  SmokeInv'
  BY <1>3 DEF OnCommitFails, Receivable, Record, SmokeInv, Smoke
<1>4. ASSUME NEW p \in Runs, OnCommitAgain(p)
      PROVE  SmokeInv'
  <2>1. lost # {} /\ UNCHANGED <<applied, smoke, lost, smokeSent, calm>>
    BY <1>4 DEF OnCommitAgain, Receivable, At, SmokeInv, Stores, Samples
  <2>2. \A q \in smokeSent : Smoke(q)' /\ run'[q].pc \in {"sent", "closed"}
    BY <1>4 DEF OnCommitAgain, Goto, GateType, Run, SmokeInv, Smoke
  <2>. QED
    BY <2>1, <2>2 DEF SmokeInv
<1>5. CASE BeginSmokeRun \/ Restart
  <2>1. /\ smoke' = 0 /\ smokeSent' = {} /\ UNCHANGED <<applied, lost>>
        /\ \A q \in Runs : run'[q].pc = "sent" => run[q].pc = "sent"
        /\ calm' => \A q \in Runs : ~(Smoke(q)' /\ run'[q].pc \in Unsent)
    <3>1. CASE BeginSmokeRun
      BY <3>1 DEF BeginSmokeRun, Smoke, Unsent, OnTheWay
    <3>2. CASE Restart
      <4>1. Ended.pc = "closed"
        BY DEF Ended, Idle
      <4>2. \A q \in Runs : \/ run'[q] = run[q] /\ run[q].pc \in {"idle", "sent", "closed"}
                            \/ run'[q] = Ended
        BY <3>2 DEF Restart
      <4>. QED
        BY <3>2, <4>1, <4>2 DEF Restart, Smoke, Unsent
    <3>. QED
      BY <1>5, <3>1, <3>2
  <2>2. IsFiniteSet({}) /\ Cardinality({}) = 0
    BY FS_EmptySet
  <2>. QED
    BY <2>1, <2>2, LimitsAssumption DEF SmokeInv, GateType
<1>6. CASE Tick \/ (\E c \in Rooms : Alternate(c) \/ HumanSpeaks(c) \/ Observe(c)
              \/ StoreTrip(c) \/ StoreTripFails(c))
           \/ (\E s \in Scopes : Release(s)) \/ UNCHANGED vars
  BY <1>1, <1>6 DEF Tick, Alternate, HumanSpeaks, Observe, StoreTrip, StoreTripFails, Release, Samples, vars
<1>. QED
  BY <1>2, <1>3, <1>4, <1>5, <1>6, SmokeGraded, SmokeSends, SmokeCounts DEF Next, Process

(* A smoke run whose sends do not overlap, and are all counted, stays within *)
(* its cap.                                                                  *)
THEOREM SmokeRunsCapped == Spec => []SmokeCapHolds
<1>1. IInv /\ SmokeInv /\ [Next]_vars => SmokeInv'
  BY SmokeStep
<1>2. SmokeInv => SmokeCapHolds
  BY DEF SmokeInv, SmokeCapHolds
<1>. QED
  BY SmokeInit, Invariance, <1>1, <1>2, PTL DEF Spec
=============================================================================
