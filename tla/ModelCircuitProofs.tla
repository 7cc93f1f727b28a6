------------------------- MODULE ModelCircuitProofs -------------------------
(***************************************************************************)
(* What holds of ModelCircuit for every set of rooms, models and failure   *)
(* classes, every chain, every backoff, and all times with Budget < Lease. *)
(*                                                                         *)
(* A row changes hands only when its time has run out, and a call is over  *)
(* before that, because Tick moves what is left of the call and of the     *)
(* lease together (LeaseOK).  What a dead caller leaves behind is covered  *)
(* by the lease it died with, which nobody holds any more (OrphanOK).      *)
(***************************************************************************)
EXTENDS ModelCircuit, TLAPS

(* What a turn carries at each of its steps.                               *)
TurnOK(c) ==
    /\ turn[c].left <= Budget
    /\ turn[c].pc \in {"idle", "acquire"}
         => turn[c].token = NoModel /\ turn[c].model = Primary
    /\ turn[c].pc = "run" => turn[c].token # NoModel
    /\ turn[c].pc \in {"try", "adopt"} => turn[c].queue # <<>>
    /\ turn[c].pc \in {"fail", "adopt"} => turn[c].why \in Classes
    /\ turn[c].pc \in {"chain", "try"} /\ turn[c].token # NoModel
         => turn[c].why \in Classes
    /\ turn[c].answered => turn[c].pc \in {"adopt", "settle", "fail"}
    /\ turn[c].pc = "settle" => turn[c].answered
    /\ c = Probe /\ turn[c].pc # "idle" => turn[c].token # NoModel

(* A running call holds the lease of its model, and the lease lasts longer. *)
LeaseOK ==
    \A m \in Models : \A c \in OnTime(m) :
        /\ circuit[m].state = "in_flight"
        /\ circuit[m].token = c
        /\ circuit[m].until >= turn[c].left + (Lease - Budget)

(* So does the call of a dead caller, which can give nothing back.         *)
OrphanOK ==
    \A m \in Models : orphan[m] > 0 =>
        /\ circuit[m].state = "in_flight"
        /\ circuit[m].token \in Callers
        /\ ~Holds(circuit[m].token, m)
        /\ OnTime(m) = {}
        /\ circuit[m].until >= orphan[m] + (Lease - Budget)

(* The inductive invariant of the turns and the rows.                      *)
IInv == TypeOK /\ (\A c \in Callers : TurnOK(c)) /\ LeaseOK /\ OrphanOK

-----------------------------------------------------------------------------
(* Rows and turns.                                                         *)

(* A failed call leaves a well-typed row, and never fewer failures.        *)
LEMMA OpenedType ==
    ASSUME TypeOK, NEW m \in Models, NEW class \in Classes,
           NEW hint \in Nat, NEW j \in 0..Jitter
    PROVE  /\ Opened(m, class, hint, j) \in Row
           /\ Opened(m, class, hint, j).state = "open"
           /\ Opened(m, class, hint, j).failures >= circuit[m].failures
<1>. DEFINE n == Least(MaxFailures, circuit[m].failures + 1)
<1>1. circuit[m].failures \in 0..MaxFailures
  BY DEF TypeOK, Row
<1>2. n \in 1..MaxFailures /\ n >= circuit[m].failures
  BY <1>1, TimesAssumption DEF Least
<1>3. Least(n, 9) \in 1..9
  BY <1>2, TimesAssumption DEF Least
<1>4. Doubling[Least(n, 9)] \in Nat
  BY <1>3 DEF Doubling
<1>5. Base[class] \in Nat /\ Cap[class] \in Nat /\ MinDefer \in Nat
  BY ClassesAssumption, TimesAssumption
<1>6. Base[class] * Doubling[Least(n, 9)] \in Nat
  BY <1>4, <1>5
<1>7. Delay(class, n, hint) \in Nat
  BY <1>5, <1>6 DEF Delay, Least, Most
<1>8. Delay(class, n, hint) + j \in Nat
  BY <1>7, ClassesAssumption
<1>9. Opened(m, class, hint, j) =
        [state |-> "open", class |-> class, failures |-> n,
         until |-> Delay(class, n, hint) + j, token |-> NoCaller, seen |-> FALSE]
  BY DEF Opened
<1>. HIDE DEF n
<1>. QED
  BY <1>2, <1>8, <1>9, TimesAssumption DEF Row

(* So does a lease.                                                        *)
LEMMA LeasedType ==
    ASSUME TypeOK, NEW m \in Models, NEW c \in Callers
    PROVE  /\ Leased(m, c) \in Row
           /\ Leased(m, c).state = "in_flight"
           /\ Leased(m, c).until = Lease
           /\ Leased(m, c).token = c
           /\ Leased(m, c).failures = circuit[m].failures
BY TimesAssumption DEF TypeOK, Leased, Row

LEMMA ClosedType == Closed \in Row
BY TimesAssumption DEF Closed, Row

(* The end of a failed call keeps the rows rows, and touches only a row the *)
(* caller holds.                                                           *)
LEMMA FinishFailureType ==
    ASSUME TypeOK, NEW m \in Models, NEW c \in Callers, NEW t,
           NEW class \in Classes, NEW hint \in Nat,
           FinishFailure(m, c, t, class, hint)
    PROVE  /\ circuit' \in [Models -> Row]
           /\ \A x \in Models \ {m} : circuit'[x] = circuit[x]
           /\ ~Matches(m, c, t) => circuit' = circuit
           /\ Matches(m, c, t) => /\ circuit'[m].state = "open"
                                  /\ circuit'[m].failures >= circuit[m].failures
<1>1. CASE ~Matches(m, c, t)
  BY <1>1 DEF FinishFailure, TypeOK
<1>2. CASE Matches(m, c, t)
  <2>1. PICK j \in 0..Jitter :
          circuit' = [circuit EXCEPT ![m] = Opened(m, class, hint, j)]
    BY <1>2 DEF FinishFailure
  <2>. QED
    BY <1>2, <2>1, OpenedType DEF TypeOK
<1>. QED
  BY <1>1, <1>2

LEMMA NoTurnType == NoTurn \in Turn
BY NamesAssumption DEF NoTurn, Turn, Steps

LEMMA EndTurnType ==
    ASSUME TypeOK, NEW c \in Callers, EndTurn(c)
    PROVE  turn' \in [Callers -> Turn]
BY NoTurnType DEF EndTurn, TypeOK

(* What the deferrals make of a message is a message.                      *)
LEMMA JobTypes ==
    ASSUME TypeOK, NEW r \in Rooms
    PROVE  /\ Close(r) => job' \in [Rooms -> Job]
           /\ \A class \in Classes \cup {"none", "call_in_flight",
                 "circuit_unavailable", "unparsed_output", "context"},
                 n \in Nat :
                /\ Park(r, class, n) => job' \in [Rooms -> Job]
                /\ Defer(r, class, n) => job' \in [Rooms -> Job]
           /\ Skip(r) => job' \in [Rooms -> Job]
<1>1. job[r] \in Job /\ job \in [Rooms -> Job] /\ job[r].window \in Nat
  BY DEF TypeOK, Job
<1>2. Close(r) => job' \in [Rooms -> Job]
  <2>1. [job[r] EXCEPT !.status = "done", !.class = "none", !.due = 0] \in Job
    BY <1>1 DEF Job
  <2>2. Close(r) => job' = [job EXCEPT ![r] =
          [job[r] EXCEPT !.status = "done", !.class = "none", !.due = 0]]
    BY <1>1 DEF Close
  <2>. QED
    BY <1>1, <2>1, <2>2
<1>3. ASSUME NEW class \in Classes \cup {"none", "call_in_flight",
                 "circuit_unavailable", "unparsed_output", "context"},
             NEW n \in Nat, Park(r, class, n)
      PROVE  job' \in [Rooms -> Job]
  BY <1>1, <1>3 DEF Park, Job
<1>4. ASSUME NEW class \in Classes \cup {"none", "call_in_flight",
                 "circuit_unavailable", "unparsed_output", "context"},
             NEW n \in Nat, Defer(r, class, n)
      PROVE  job' \in [Rooms -> Job]
  <2>1. Least(Most(n, MinDefer), job[r].window) \in Nat
    BY <1>1, TimesAssumption DEF Least, Most
  <2>. QED
    BY <1>2, <1>3, <1>4, <2>1 DEF Defer
<1>5. Skip(r) => job' \in [Rooms -> Job]
  BY <1>2, <1>3, TimesAssumption DEF Skip
<1>. QED
  BY <1>2, <1>3, <1>4, <1>5

(* What a caller does with a deferral.                                     *)
LEMMA ResultType ==
    ASSUME TypeOK, NEW c \in Callers, NEW hold \in BOOLEAN,
           NEW class \in Classes \cup {"none", "call_in_flight",
                 "circuit_unavailable", "unparsed_output", "context"},
           NEW n \in Nat, Result(c, hold, class, n)
    PROVE  job' \in [Rooms -> Job]
<1>1. CASE c = Probe
  BY <1>1 DEF Result, TypeOK
<1>2. CASE c # Probe
  <2>. c \in Rooms
    BY <1>2 DEF Callers
  <2>. QED
    BY <1>2, JobTypes DEF Result
<1>. QED
  BY <1>1, <1>2

(* The turn that an answer leaves.                                         *)
LEMMA AnsweredType ==
    ASSUME TypeOK, NEW c \in Callers, NEW t \in Models \cup {NoModel},
           turn[c].pc # "run" => t \in Models
    PROVE  Answered(c, t) \in Turn
<1>. DEFINE model == IF turn[c].pc = "run" THEN turn[c].model ELSE t
<1>1. turn[c] \in Turn
  BY DEF TypeOK
<1>2. /\ t \in Models \cup {NoModel} /\ model \in Models
      /\ turn[c].held \in BOOLEAN /\ "settle" \in Steps
  BY <1>1 DEF Turn, Steps
<1>3. Answered(c, t) =
        [NoTurn EXCEPT !.pc = "settle", !.answered = TRUE, !.token = t,
                       !.model = model, !.held = turn[c].held]
  BY DEF Answered
<1>. HIDE DEF model
<1>4. \A x \in Turn :
        [x EXCEPT !.pc = "settle", !.answered = TRUE, !.token = t,
                  !.model = model, !.held = turn[c].held] \in Turn
  BY <1>2 DEF Turn
<1>. QED
  BY <1>3, <1>4, NoTurnType

LEMMA CandidateType ==
    ASSUME TypeOK, NEW c \in Callers, turn[c].queue # <<>>
    PROVE  Candidate(c) \in Models /\ Tail(turn[c].queue) \in Seq(Models)
BY DEF TypeOK, Turn, Candidate

LEMMA HoldType == \A c \in Callers : TypeOK => Hold(c) \subseteq BOOLEAN
BY DEF TypeOK, Turn, Hold

(* Type correctness, action by action.                                     *)
LEMMA TypeStep ==
    TypeOK /\ (\A c \in Callers : TurnOK(c)) /\ [Next]_vars => TypeOK'
<1>. SUFFICES ASSUME TypeOK, \A c \in Callers : TurnOK(c), [Next]_vars
              PROVE  TypeOK'
  OBVIOUS
<1>. USE DEF RoomStep, CallerStep
<1>a. /\ \A c \in Callers : turn[c] \in Turn
      /\ \A m \in Models : circuit[m] \in Row
      /\ \A r \in Rooms : job[r] \in Job
      /\ turn \in [Callers -> Turn]
      /\ circuit \in [Models -> Row]
      /\ job \in [Rooms -> Job]
      /\ orphan \in [Models -> Nat]
      /\ faults \in Faults
      /\ Rooms \subseteq Callers /\ Probe \in Callers
  BY DEF TypeOK, Callers
<1>b. Primary \in Models /\ ProbeRow \in Models /\ Chain \in Seq(Models)
  BY NamesAssumption
<1>d. DatabaseError => faults' \in Faults
  BY <1>a DEF DatabaseError, Faults
<1>1. ASSUME NEW r \in Rooms, Arrive(r) PROVE TypeOK'
  BY <1>1, TimesAssumption DEF Arrive, TypeOK, Job
<1>2. ASSUME NEW r \in Rooms, SkipStale(r) PROVE TypeOK'
  BY <1>2, JobTypes DEF SkipStale, TypeOK
<1>3. ASSUME NEW r \in Rooms, Rearm(r) PROVE TypeOK'
  <2>1. circuit[Primary].until \in Nat /\ job[r].window \in Nat
    BY <1>a, <1>b DEF Row, Job
  <2>2. Least(circuit[Primary].until, job[r].window) \in Nat
    BY <2>1 DEF Least
  <2>. QED
    BY <1>3, <1>a, <2>2 DEF Rearm, TypeOK, Job
<1>4. ASSUME NEW r \in Rooms, Begin(r) PROVE TypeOK'
  <2>1. turn' \in [Callers -> Turn]
    <3>1. [turn[r] EXCEPT !.pc = "acquire", !.left = Budget] \in Turn
      BY <1>a, TimesAssumption DEF Turn, Steps
    <3>2. turn' = [turn EXCEPT ![r] =
            [turn[r] EXCEPT !.pc = "acquire", !.left = Budget]]
      BY <1>4, <1>a DEF Begin
    <3>. QED
      BY <1>a, <3>1, <3>2
  <2>2. job' \in [Rooms -> Job]
    BY <1>4, <1>a DEF Begin, Job
  <2>. QED
    BY <1>4, <2>1, <2>2 DEF Begin, TypeOK
<1>5. ASSUME NEW r \in Rooms, HeldEarly(r) PROVE TypeOK'
  BY <1>5, <1>a, EndTurnType, JobTypes DEF HeldEarly, TypeOK
<1>6. ASSUME NEW r \in Rooms, Acquire(r) PROVE TypeOK'
  <2>1. turn' \in [Callers -> Turn]
    <3>. DEFINE p == IF turn[r].left > 0 THEN "run" ELSE "fail"
                why == IF turn[r].left > 0 THEN "none" ELSE "runner_timeout"
    <3>1. p \in Steps /\ why \in Classes \cup {"none", "circuit_unavailable"}
      BY ClassesAssumption DEF Steps
    <3>2. turn' = [turn EXCEPT ![r] =
            [turn[r] EXCEPT !.token = Primary, !.pc = p, !.why = why]]
      BY <1>6, <1>a DEF Acquire
    <3>. HIDE DEF p, why
    <3>3. [turn[r] EXCEPT !.token = Primary, !.pc = p, !.why = why] \in Turn
      BY <1>a, <1>b, <3>1 DEF Turn
    <3>. QED
      BY <1>a, <3>2, <3>3
  <2>2. circuit' \in [Models -> Row]
    BY <1>6, <1>a, <1>b, LeasedType DEF Acquire
  <2>. QED
    BY <1>6, <2>1, <2>2 DEF Acquire, TypeOK
<1>7. ASSUME NEW r \in Rooms, RefuseInFlight(r) PROVE TypeOK'
  <2>1. circuit[Primary].until \in Nat
    BY <1>a, <1>b DEF Row
  <2>. QED
    BY <1>7, <1>a, <2>1, EndTurnType, JobTypes DEF RefuseInFlight, TypeOK
<1>8. ASSUME NEW r \in Callers, NEW n \in Nat,
             NEW why \in Classes \cup {"none", "circuit_unavailable"},
             GoToChain(r, why, n)
      PROVE  turn' \in [Callers -> Turn]
  <2>1. [turn[r] EXCEPT !.pc = "chain", !.queue = Chain,
                !.why = why, !.retry = n] \in Turn
    BY <1>a, <1>b DEF Turn, Steps
  <2>2. turn' = [turn EXCEPT ![r] =
          [turn[r] EXCEPT !.pc = "chain", !.queue = Chain,
                !.why = why, !.retry = n]]
    BY <1>8, <1>a DEF GoToChain
  <2>. QED
    BY <1>a, <2>1, <2>2
<1>9. ASSUME NEW r \in Rooms, RefuseCooldown(r) PROVE TypeOK'
  <2>1. /\ circuit[Primary].until \in Nat
        /\ circuit[Primary].class \in Classes \cup {"none", "circuit_unavailable"}
    BY <1>a, <1>b DEF Row
  <2>2. turn' \in [Callers -> Turn]
    BY <1>9, <1>8, <1>a, <2>1 DEF RefuseCooldown
  <2>. QED
    BY <1>9, <2>2 DEF RefuseCooldown, TypeOK
<1>10. ASSUME NEW r \in Rooms, RefuseUnreadable(r) PROVE TypeOK'
  <2>1. turn' \in [Callers -> Turn]
    BY <1>10, <1>8, <1>a, TimesAssumption DEF RefuseUnreadable
  <2>. QED
    BY <1>10, <1>d, <2>1 DEF RefuseUnreadable, TypeOK
<1>11. ASSUME NEW c \in Callers, CallAnswers(c) PROVE TypeOK'
  <2>1. turn[c].token \in Models \cup {NoModel} /\ turn[c].pc = "run"
    BY <1>11, <1>a DEF CallAnswers, Turn
  <2>2. Answered(c, turn[c].token) \in Turn
    BY <2>1, AnsweredType
  <2>. QED
    BY <1>11, <1>a, <2>2 DEF CallAnswers, TypeOK
<1>12. ASSUME NEW c \in Callers, CallFails(c) PROVE TypeOK'
  <2>1. turn' \in [Callers -> Turn]
    <3>1. PICK class \in Classes, hint \in Hints :
         turn' = [turn EXCEPT ![c].why = class, ![c].hint = hint,
                ![c].pc = IF class \in ChainOn THEN "chain" ELSE "fail",
                ![c].queue = IF class \in ChainOn THEN Chain ELSE <<>>,
                ![c].late = FALSE]
      BY <1>12 DEF CallFails
    <3>. DEFINE p == IF class \in ChainOn THEN "chain" ELSE "fail"
                queue == IF class \in ChainOn THEN Chain ELSE <<>>
    <3>2. hint \in Nat /\ p \in Steps /\ queue \in Seq(Models)
      BY <1>b, ClassesAssumption DEF Steps
    <3>3. turn' = [turn EXCEPT ![c] =
            [turn[c] EXCEPT !.why = class, !.hint = hint, !.pc = p,
                            !.queue = queue, !.late = FALSE]]
      BY <1>a, <3>1
    <3>. HIDE DEF p, queue
    <3>4. [turn[c] EXCEPT !.why = class, !.hint = hint, !.pc = p,
                          !.queue = queue, !.late = FALSE] \in Turn
      BY <1>a, <3>2 DEF Turn
    <3>. QED
      BY <1>a, <3>3, <3>4
  <2>. QED
    BY <1>12, <2>1 DEF CallFails, TypeOK
<1>13. ASSUME NEW c \in Callers, TryCandidate(c) PROVE TypeOK'
  <2>1. Candidate(c) \in Models
    BY <1>13, CandidateType DEF TryCandidate, MayTry
  <2>2. turn' \in [Callers -> Turn]
    <3>1. [turn[c] EXCEPT !.pc = "try"] \in Turn
      BY <1>a DEF Turn, Steps
    <3>2. turn' = [turn EXCEPT ![c] =
            [turn[c] EXCEPT !.pc = "try"]]
      BY <1>13, <1>a DEF TryCandidate
    <3>. QED
      BY <1>a, <3>1, <3>2
  <2>. QED
    BY <1>13, <1>a, <2>1, <2>2, LeasedType DEF TryCandidate, TypeOK
<1>14. ASSUME NEW c \in Callers, SkipCandidate(c) PROVE TypeOK'
  <2>1. Tail(turn[c].queue) \in Seq(Models)
    BY <1>14, CandidateType DEF SkipCandidate, MayTry
  <2>2. turn' \in [Callers -> Turn]
    <3>1. [turn[c] EXCEPT !.queue = Tail(turn[c].queue)] \in Turn
      BY <1>a, <2>1 DEF Turn, Steps
    <3>2. turn' = [turn EXCEPT ![c] =
            [turn[c] EXCEPT !.queue = Tail(turn[c].queue)]]
      BY <1>14, <1>a DEF SkipCandidate
    <3>. QED
      BY <1>a, <3>1, <3>2
  <2>. QED
    BY <1>14, <1>d, <2>2 DEF SkipCandidate, TypeOK
<1>15. ASSUME NEW c \in Callers, CandidateFails(c) PROVE TypeOK'
  <2>1. Candidate(c) \in Models /\ Tail(turn[c].queue) \in Seq(Models)
    BY <1>15, CandidateType DEF CandidateFails, TurnOK
  <2>2. turn' \in [Callers -> Turn]
    <3>1. [turn[c] EXCEPT !.pc = "chain",
                !.queue = Tail(turn[c].queue), !.late = FALSE] \in Turn
      BY <1>a, <2>1 DEF Turn, Steps
    <3>2. turn' = [turn EXCEPT ![c] =
            [turn[c] EXCEPT !.pc = "chain",
                !.queue = Tail(turn[c].queue), !.late = FALSE]]
      BY <1>15, <1>a DEF CandidateFails
    <3>. QED
      BY <1>a, <3>1, <3>2
  <2>3. circuit' \in [Models -> Row] /\ faults' \in Faults
    BY <1>15, <1>a, <1>d, <2>1, FinishFailureType, ClassesAssumption DEF CandidateFails
  <2>. QED
    BY <1>15, <2>2, <2>3 DEF CandidateFails, TypeOK
<1>16. ASSUME NEW c \in Callers, CandidateAnswers(c) PROVE TypeOK'
  <2>1. Candidate(c) \in Models
    BY <1>16, CandidateType DEF CandidateAnswers, TurnOK
  <2>2. Answered(c, Candidate(c)) \in Turn
    BY <2>1, AnsweredType
  <2>3. turn' \in [Callers -> Turn]
    <3>1. [turn[c] EXCEPT !.pc = "adopt", !.answered = TRUE,
                          !.late = FALSE] \in Turn
      BY <1>a DEF Turn, Steps
    <3>2. turn' \in {[turn EXCEPT ![c] = Answered(c, Candidate(c))],
                     [turn EXCEPT ![c] = [turn[c] EXCEPT !.pc = "adopt",
                          !.answered = TRUE, !.late = FALSE]]}
      BY <1>16, <1>a DEF CandidateAnswers
    <3>. QED
      BY <1>a, <2>2, <3>1, <3>2
  <2>. QED
    BY <1>16, <2>3 DEF CandidateAnswers, TypeOK
<1>17. ASSUME NEW c \in Callers, Adopt(c) PROVE TypeOK'
  <2>1. Candidate(c) \in Models /\ turn[c].why \in Classes
    BY <1>17, CandidateType DEF Adopt, TurnOK
  <2>2. Answered(c, Candidate(c)) \in Turn
    BY <2>1, AnsweredType
  <2>3. turn[c].model \in Models /\ turn[c].hint \in Nat
    BY <1>a DEF Turn
  <2>4. circuit' \in [Models -> Row] /\ faults' \in Faults
    BY <1>17, <1>a, <1>d, <2>1, <2>3, FinishFailureType DEF Adopt
  <2>. QED
    BY <1>17, <1>a, <2>2, <2>4 DEF Adopt, TypeOK
<1>18. ASSUME NEW c \in Callers, NoWinner(c) PROVE TypeOK'
  <2>1. PICK hold \in Hold(c) :
         IF turn[c].token # NoModel
            THEN /\ turn' = [turn EXCEPT ![c].pc = "fail", ![c].held = hold]
                 /\ UNCHANGED job
            ELSE /\ EndTurn(c)
                 /\ \/ hold /\ Skip(c)
                    \/ Defer(c, turn[c].why, turn[c].retry)
    BY <1>18 DEF NoWinner
  <2>2. hold \in BOOLEAN
    BY HoldType
  <2>3. /\ turn[c].retry \in Nat
        /\ turn[c].why \in Classes \cup {"none", "circuit_unavailable"}
    BY <1>a DEF Turn
  <2>4. CASE turn[c].token # NoModel
    <3>1. turn' \in [Callers -> Turn]
      <4>1. [turn[c] EXCEPT !.pc = "fail", !.held = hold] \in Turn
        BY <1>a, <2>2 DEF Turn, Steps
      <4>2. turn' = [turn EXCEPT ![c] =
              [turn[c] EXCEPT !.pc = "fail", !.held = hold]]
        BY <1>a, <2>1, <2>4
      <4>. QED
        BY <1>a, <4>1, <4>2
    <3>. QED
      BY <1>18, <2>1, <2>4, <3>1 DEF NoWinner, TypeOK
  <2>5. CASE turn[c].token = NoModel
    <3>1. c \in Rooms
      BY <1>18, <2>5 DEF NoWinner, TurnOK, Callers
    <3>2. turn' \in [Callers -> Turn] /\ job' \in [Rooms -> Job]
      BY <2>1, <2>3, <2>5, <3>1, EndTurnType, JobTypes
    <3>. QED
      BY <1>18, <3>2 DEF NoWinner, TypeOK
  <2>. QED
    BY <2>4, <2>5
<1>19. ASSUME NEW c \in Callers, Fail(c) PROVE TypeOK'
  <2>. DEFINE m == turn[c].model
              why == turn[c].why
  <2>1. /\ m \in Models /\ turn[c].hint \in Nat
        /\ why \in Classes
    BY <1>19, <1>a DEF Fail, Turn, TurnOK
  <2>2. turn' \in [Callers -> Turn]
    BY <1>19, EndTurnType DEF Fail
  <2>3. PICK hold \in Hold(c), lease \in 0..Lease :
          LET unreadable == Result(c, hold, "circuit_unavailable",
                                   Most(Pause, lease))
          IN  \/ /\ FinishFailure(m, c, turn[c].token, why, turn[c].hint)
                 /\ IF circuit'[m].state = "closed" THEN unreadable
                    ELSE Result(c, hold, why, circuit'[m].until)
                 /\ UNCHANGED faults
              \/ /\ DatabaseError
                 /\ unreadable
                 /\ UNCHANGED circuit
    BY <1>19 DEF Fail
  <2>. HIDE DEF m, why
  <2>4. circuit' \in [Models -> Row] /\ faults' \in Faults
    BY <1>a, <1>d, <2>1, <2>3, FinishFailureType
  <2>5. hold \in BOOLEAN /\ circuit'[m].until \in Nat
    BY <2>1, <2>4, HoldType DEF Row
  <2>6. Most(Pause, lease) \in Nat
    BY TimesAssumption DEF Most
  <2>7. job' \in [Rooms -> Job]
    BY <2>1, <2>3, <2>5, <2>6, ResultType
  <2>. QED
    BY <1>19, <2>2, <2>4, <2>7 DEF Fail, TypeOK
<1>20. ASSUME NEW r \in Rooms, Settle(r) PROVE TypeOK'
  <2>1. turn' \in [Callers -> Turn]
    BY <1>20, <1>a, EndTurnType DEF Settle
  <2>2. circuit' \in [Models -> Row] /\ faults' \in Faults
    BY <1>20, <1>a, <1>d, ClosedType DEF Settle, FinishSuccess
  <2>3. job' \in [Rooms -> Job]
    <3>1. MinDefer \in Nat /\ \A n \in 0..Lease : n \in Nat
      BY TimesAssumption
    <3>. QED
      BY <1>20, <1>a, <3>1, JobTypes, ResultType, HoldType DEF Settle
  <2>. QED
    BY <1>20, <2>1, <2>2, <2>3 DEF Settle, TypeOK
<1>21. CASE ReadRow
  <2>1. [circuit[ProbeRow] EXCEPT !.seen = TRUE] \in Row
    BY <1>a, <1>b DEF Row
  <2>. QED
    BY <1>21, <1>a, <2>1 DEF ReadRow, TypeOK
<1>22. CASE StartProbe
  <2>1. [turn[Probe] EXCEPT !.pc = "run", !.token = ProbeRow,
                            !.left = Budget] \in Turn
    BY <1>a, <1>b, TimesAssumption DEF Turn, Steps
  <2>2. turn' = [turn EXCEPT ![Probe] =
          [turn[Probe] EXCEPT !.pc = "run", !.token = ProbeRow, !.left = Budget]]
    BY <1>22, <1>a DEF StartProbe
  <2>3. faults' \in Faults
    BY <1>22, <1>a DEF StartProbe, Faults
  <2>. QED
    BY <1>22, <1>a, <1>b, <2>1, <2>2, <2>3, LeasedType DEF StartProbe, TypeOK
<1>23. CASE SettleProbe
  <2>1. circuit' \in [Models -> Row] /\ faults' \in Faults
    BY <1>23, <1>a, <1>d, ClosedType DEF SettleProbe, FinishSuccess
  <2>2. turn' \in [Callers -> Turn]
    <3>1. CASE EndTurn(Probe)
      BY <1>a, <3>1, EndTurnType
    <3>2. CASE turn' = [turn EXCEPT ![Probe].pc = "fail",
                                    ![Probe].why = "invalid_output",
                                    ![Probe].hint = 0]
      <4>1. [turn[Probe] EXCEPT !.pc = "fail", !.why = "invalid_output",
                                !.hint = 0] \in Turn
        BY <1>a, ClassesAssumption DEF Turn, Steps
      <4>2. turn' = [turn EXCEPT ![Probe] = [turn[Probe] EXCEPT !.pc = "fail",
                                !.why = "invalid_output", !.hint = 0]]
        BY <1>a, <3>2
      <4>. QED
        BY <1>a, <4>1, <4>2
    <3>. QED
      BY <1>23, <3>1, <3>2 DEF SettleProbe
  <2>. QED
    BY <1>23, <2>1, <2>2 DEF SettleProbe, TypeOK
<1>24. ASSUME NEW c \in Callers, Crash(c) PROVE TypeOK'
  <2>1. turn' \in [Callers -> Turn]
    BY <1>24, EndTurnType DEF Crash
  <2>2. orphan' \in [Models -> Nat]
    BY <1>24, <1>a DEF Crash, Turn
  <2>3. job' \in [Rooms -> Job]
    BY <1>24, JobTypes, TimesAssumption DEF Crash, Callers, TypeOK
  <2>4. faults' \in Faults
    BY <1>24, <1>a DEF Crash, Faults
  <2>. QED
    BY <1>24, <2>1, <2>2, <2>3, <2>4 DEF Crash, TypeOK
<1>25. ASSUME NEW c \in Callers, GoLate(c) PROVE TypeOK'
  <2>1. [turn[c] EXCEPT !.late = TRUE] \in Turn
    BY <1>a DEF Turn
  <2>2. faults' \in Faults
    BY <1>25, <1>a DEF GoLate, Faults
  <2>. QED
    BY <1>25, <1>a, <2>1, <2>2 DEF GoLate, TypeOK
<1>26. CASE Tick
  <2>1. \A t \in Nat : Before(t) \in Nat
    BY DEF Before
  <2>2. \A row \in Row : [row EXCEPT !.until = Before(@)] \in Row
    BY <2>1 DEF Row
  <2>3. \A t \in Turn : [t EXCEPT !.left = Before(@), !.retry = Before(@)] \in Turn
    BY <2>1 DEF Turn
  <2>4. \A j \in Job : [j EXCEPT !.due = Before(@), !.window = Before(@)] \in Job
    BY <2>1 DEF Job
  <2>. QED
    BY <1>26, <1>a, <2>1, <2>2, <2>3, <2>4 DEF Tick, TypeOK
<1>27. CASE UNCHANGED vars
  BY <1>27 DEF vars, TypeOK
<1>. QED
  BY <1>1, <1>2, <1>3, <1>4, <1>5, <1>6, <1>7, <1>9, <1>10, <1>11, <1>12,
     <1>13, <1>14, <1>15, <1>16, <1>17, <1>18, <1>19, <1>20, <1>21, <1>22,
     <1>23, <1>24, <1>25, <1>26, <1>27, <1>a DEF Next

-----------------------------------------------------------------------------
(* Turns.                                                                  *)

(* An ended turn, a turn with an answer, and a turn nobody touched.        *)
LEMMA TurnFrames ==
    ASSUME TypeOK, NEW c \in Callers
    PROVE  /\ turn'[c] = turn[c] /\ TurnOK(c) => TurnOK(c)'
           /\ EndTurn(c) => TurnOK(c)'
           /\ \A t : turn' = [turn EXCEPT ![c] = Answered(c, t)]
                       /\ t # NoModel => TurnOK(c)'
<1>1. turn'[c] = turn[c] /\ TurnOK(c) => TurnOK(c)'
  BY DEF TurnOK
<1>2. EndTurn(c) => TurnOK(c)'
  BY TimesAssumption DEF EndTurn, NoTurn, TurnOK, TypeOK
<1>3. ASSUME NEW t, turn' = [turn EXCEPT ![c] = Answered(c, t)], t # NoModel
      PROVE  TurnOK(c)'
  <2>1. turn'[c] = Answered(c, t)
    BY <1>3 DEF TypeOK
  <2>2. /\ Answered(c, t).pc = "settle" /\ Answered(c, t).answered
        /\ Answered(c, t).left = 0 /\ Answered(c, t).token = t
    BY DEF Answered, NoTurn
  <2>. QED
    BY <1>3, <2>1, <2>2, TimesAssumption DEF TurnOK
<1>. QED
  BY <1>1, <1>2, <1>3

(* A step of one caller leaves the turns of the others alone.              *)
Alone(c) == \A d \in Callers \ {c} : turn'[d] = turn[d]

(* What a turn carries at each step, action by action.                     *)
LEMMA TurnStep ==
    TypeOK /\ (\A c \in Callers : TurnOK(c)) /\ [Next]_vars
      => \A c \in Callers : TurnOK(c)'
<1>. SUFFICES ASSUME TypeOK, \A c \in Callers : TurnOK(c), [Next]_vars
              PROVE  \A c \in Callers : TurnOK(c)'
  OBVIOUS
<1>. USE DEF RoomStep, CallerStep
<1>a. /\ \A c \in Callers : turn[c] \in Turn
      /\ turn \in [Callers -> Turn]
      /\ Rooms \subseteq Callers /\ Probe \in Callers
  BY DEF TypeOK, Callers
<1>b. ASSUME NEW c \in Callers, Alone(c), TurnOK(c)'
      PROVE  \A d \in Callers : TurnOK(d)'
  BY <1>b, TurnFrames DEF Alone
<1>c. ASSUME UNCHANGED turn PROVE \A d \in Callers : TurnOK(d)'
  BY <1>c, TurnFrames
<1>d. ASSUME NEW c \in Callers, EndTurn(c) PROVE \A d \in Callers : TurnOK(d)'
  BY <1>b, <1>d, <1>a, TurnFrames DEF EndTurn, Alone
<1>1. ASSUME NEW r \in Rooms, Begin(r) PROVE \A d \in Callers : TurnOK(d)'
  <2>1. Alone(r)
    BY <1>1, <1>a DEF Begin, Alone
  <2>2. TurnOK(r)'
    <3>. TurnOK(r) /\ r # Probe
      BY <1>a, NamesAssumption
    <3>. QED
      BY <1>1, <1>a, TimesAssumption DEF Begin, TurnOK
  <2>. QED
    BY <1>a, <1>b, <2>1, <2>2
<1>2. ASSUME NEW r \in Rooms, Acquire(r) PROVE \A d \in Callers : TurnOK(d)'
  <2>1. Alone(r)
    BY <1>2, <1>a DEF Acquire, Alone
  <2>2. TurnOK(r)'
    <3>. TurnOK(r) /\ r # Probe
      BY <1>a, NamesAssumption
    <3>. QED
      BY <1>2, <1>a, ClassesAssumption, NamesAssumption DEF Acquire, TurnOK
  <2>. QED
    BY <1>a, <1>b, <2>1, <2>2
<1>3. ASSUME NEW r \in Rooms, NEW why, NEW n, turn[r].pc = "acquire",
             GoToChain(r, why, n)
      PROVE  \A d \in Callers : TurnOK(d)'
  <2>1. Alone(r)
    BY <1>3, <1>a DEF GoToChain, Alone
  <2>2. TurnOK(r)'
    <3>. TurnOK(r) /\ r # Probe
      BY <1>a, NamesAssumption
    <3>. QED
      BY <1>3, <1>a DEF GoToChain, TurnOK
  <2>. QED
    BY <1>a, <1>b, <2>1, <2>2
<1>4. ASSUME NEW c \in Callers, CallAnswers(c) PROVE \A d \in Callers : TurnOK(d)'
  <2>1. Alone(c)
    BY <1>4, <1>a DEF CallAnswers, Alone
  <2>2. turn[c].token # NoModel
    BY <1>4 DEF CallAnswers, TurnOK
  <2>. QED
    BY <1>4, <1>b, <2>1, <2>2, TurnFrames DEF CallAnswers
<1>5. ASSUME NEW c \in Callers, CallFails(c) PROVE \A d \in Callers : TurnOK(d)'
  <2>1. Alone(c)
    BY <1>5, <1>a DEF CallFails, Alone
  <2>2. TurnOK(c)'
    <3>. TurnOK(c)
      BY <1>a
    <3>. QED
      BY <1>5, <1>a DEF CallFails, TurnOK
  <2>. QED
    BY <1>b, <2>1, <2>2
<1>6. ASSUME NEW c \in Callers, TryCandidate(c) PROVE \A d \in Callers : TurnOK(d)'
  <2>1. Alone(c)
    BY <1>6, <1>a DEF TryCandidate, Alone
  <2>2. TurnOK(c)'
    <3>. TurnOK(c)
      BY <1>a
    <3>. QED
      BY <1>6, <1>a DEF TryCandidate, MayTry, TurnOK
  <2>. QED
    BY <1>b, <2>1, <2>2
<1>7. ASSUME NEW c \in Callers, SkipCandidate(c) PROVE \A d \in Callers : TurnOK(d)'
  <2>1. Alone(c)
    BY <1>7, <1>a DEF SkipCandidate, Alone
  <2>2. TurnOK(c)'
    <3>. TurnOK(c)
      BY <1>a
    <3>. QED
      BY <1>7, <1>a DEF SkipCandidate, MayTry, TurnOK
  <2>. QED
    BY <1>b, <2>1, <2>2
<1>8. ASSUME NEW c \in Callers, CandidateFails(c) PROVE \A d \in Callers : TurnOK(d)'
  <2>1. Alone(c)
    BY <1>8, <1>a DEF CandidateFails, Alone
  <2>2. TurnOK(c)'
    <3>. TurnOK(c)
      BY <1>a
    <3>. QED
      BY <1>8, <1>a DEF CandidateFails, TurnOK
  <2>. QED
    BY <1>b, <2>1, <2>2
<1>9. ASSUME NEW c \in Callers, CandidateAnswers(c)
      PROVE  \A d \in Callers : TurnOK(d)'
  <2>1. Alone(c)
    BY <1>9, <1>a DEF CandidateAnswers, Alone
  <2>. TurnOK(c)
    BY <1>a
  <2>2. CASE turn[c].token = NoModel
    <3>1. Candidate(c) \in Models
      BY <1>9, CandidateType DEF CandidateAnswers, TurnOK
    <3>. QED
      BY <1>9, <1>b, <2>1, <2>2, <3>1, TurnFrames, NamesAssumption
         DEF CandidateAnswers
  <2>3. CASE turn[c].token # NoModel
    <3>1. TurnOK(c)'
      BY <1>9, <1>a, <2>3 DEF CandidateAnswers, TurnOK
    <3>. QED
      BY <1>b, <2>1, <3>1
  <2>. QED
    BY <2>2, <2>3
<1>10. ASSUME NEW c \in Callers, Adopt(c) PROVE \A d \in Callers : TurnOK(d)'
  <2>1. Alone(c)
    BY <1>10, <1>a DEF Adopt, Alone
  <2>2. Candidate(c) \in Models
    BY <1>10, CandidateType DEF Adopt, TurnOK
  <2>. QED
    BY <1>10, <1>b, <2>1, <2>2, TurnFrames, NamesAssumption DEF Adopt
<1>11. ASSUME NEW c \in Callers, NoWinner(c) PROVE \A d \in Callers : TurnOK(d)'
  <2>. TurnOK(c)
    BY <1>a
  <2>1. CASE turn[c].token # NoModel
    <3>1. Alone(c)
      BY <1>11, <1>a, <2>1 DEF NoWinner, Alone
    <3>2. TurnOK(c)'
      <4>1. PICK hold \in Hold(c) : turn'[c] =
              [turn[c] EXCEPT !.pc = "fail", !.held = hold]
        BY <1>11, <1>a, <2>1 DEF NoWinner
      <4>2. turn[c].pc = "chain"
        BY <1>11 DEF NoWinner
      <4>. QED
        BY <1>a, <2>1, <4>1, <4>2 DEF TurnOK, Turn
    <3>. QED
      BY <1>b, <3>1, <3>2
  <2>2. CASE turn[c].token = NoModel
    BY <1>11, <1>d, <2>2 DEF NoWinner
  <2>. QED
    BY <2>1, <2>2
<1>12. CASE StartProbe
  <2>1. Alone(Probe)
    BY <1>12, <1>a DEF StartProbe, Alone
  <2>2. TurnOK(Probe)'
    <3>. TurnOK(Probe)
      BY <1>a
    <3>. QED
      BY <1>12, <1>a, TimesAssumption, NamesAssumption DEF StartProbe, TurnOK
  <2>. QED
    BY <1>a, <1>b, <2>1, <2>2
<1>13. CASE SettleProbe
  <2>1. CASE EndTurn(Probe)
    BY <1>a, <1>d, <2>1
  <2>2. CASE turn' = [turn EXCEPT ![Probe].pc = "fail",
                                  ![Probe].why = "invalid_output",
                                  ![Probe].hint = 0]
    <3>1. Alone(Probe)
      BY <1>a, <2>2 DEF Alone
    <3>2. TurnOK(Probe)'
      <4>. TurnOK(Probe)
        BY <1>a
      <4>. QED
        BY <1>13, <1>a, <2>2, ClassesAssumption DEF SettleProbe, TurnOK
    <3>. QED
      BY <1>a, <1>b, <3>1, <3>2
  <2>. QED
    BY <1>13, <2>1, <2>2 DEF SettleProbe
<1>14. ASSUME NEW c \in Callers, GoLate(c) PROVE \A d \in Callers : TurnOK(d)'
  <2>1. Alone(c)
    BY <1>14, <1>a DEF GoLate, Alone
  <2>2. TurnOK(c)'
    <3>. TurnOK(c)
      BY <1>a
    <3>. QED
      <4>1. turn'[c] = [turn[c] EXCEPT !.late = TRUE]
        BY <1>14, <1>a DEF GoLate
      <4>. QED
        BY <1>a, <4>1 DEF TurnOK, Turn
  <2>. QED
    BY <1>b, <2>1, <2>2
<1>15. CASE Tick
  <2>. SUFFICES ASSUME NEW c \in Callers PROVE TurnOK(c)'
    OBVIOUS
  <2>1. turn'[c] = [turn[c] EXCEPT !.left = Before(@), !.retry = Before(@)]
    BY <1>15 DEF Tick
  <2>2. turn[c].left \in Nat /\ Budget \in Nat /\ turn[c].left <= Budget
    BY <1>a, TimesAssumption DEF Turn, TurnOK
  <2>3. Before(turn[c].left) <= Budget
    BY <2>2 DEF Before
  <2>4. TurnOK(c)
    OBVIOUS
  <2>. QED
    BY <1>a, <2>1, <2>3, <2>4 DEF TurnOK, Turn
<1>16. ASSUME NEW r \in Rooms,
              Arrive(r) \/ SkipStale(r) \/ Rearm(r) \/ HeldEarly(r)
                \/ RefuseInFlight(r) \/ RefuseCooldown(r)
                \/ RefuseUnreadable(r) \/ Settle(r)
       PROVE  \A d \in Callers : TurnOK(d)'
  <2>1. CASE Arrive(r) \/ SkipStale(r) \/ Rearm(r)
    BY <1>c, <2>1 DEF Arrive, SkipStale, Rearm
  <2>2. CASE HeldEarly(r) \/ RefuseInFlight(r) \/ Settle(r)
    BY <1>a, <1>d, <2>2 DEF HeldEarly, RefuseInFlight, Settle
  <2>3. CASE RefuseCooldown(r) \/ RefuseUnreadable(r)
    BY <1>3, <2>3 DEF RefuseCooldown, RefuseUnreadable
  <2>. QED
    BY <1>16, <2>1, <2>2, <2>3
<1>17. ASSUME NEW c \in Callers, Fail(c) \/ Crash(c)
       PROVE  \A d \in Callers : TurnOK(d)'
  BY <1>d, <1>17 DEF Fail, Crash
<1>18. CASE ReadRow
  BY <1>c, <1>18 DEF ReadRow
<1>19. CASE UNCHANGED vars
  BY <1>c, <1>19 DEF vars
<1>. QED
  BY <1>1, <1>2, <1>4, <1>5, <1>6, <1>7, <1>8, <1>9, <1>10, <1>11, <1>12,
     <1>13, <1>14, <1>15, <1>16, <1>17, <1>18, <1>19 DEF Next

-----------------------------------------------------------------------------
(* Rows.                                                                   *)

(* What one step of caller c may do to the row of m: leave it alone, lease *)
(* it when it is free or when it is what the operator read, or end a lease *)
(* that c still holds.                                                     *)
Same(m) ==
    /\ circuit'[m].state = circuit[m].state
    /\ circuit'[m].token = circuit[m].token
    /\ circuit'[m].until = circuit[m].until
    /\ circuit'[m].failures = circuit[m].failures

Taken(m, c) ==
    /\ circuit'[m] = Leased(m, c)
    /\ \/ circuit[m].until = 0
       \/ circuit[m].state = "open" /\ m = ProbeRow /\ circuit[m].seen

Returned(m, c) ==
    /\ circuit[m].state = "in_flight" /\ circuit[m].token = c
    /\ Holds(c, m)
    /\ circuit'[m].state # "in_flight"
    /\ \/ circuit'[m].failures >= circuit[m].failures
       \/ turn[c].answered /\ turn[c].model = m

RowsOf(c) ==
    \A m \in Models : Same(m) \/ Taken(m, c) \/ Returned(m, c)

(* A caller holds a lease, or runs a call, only if it did so before or has *)
(* just been given the lease.                                              *)
HoldingsOf(c) ==
    \A m \in Models :
        /\ Holds(c, m)' => Holds(c, m) \/ Taken(m, c)
        /\ c \in OnTime(m)' =>
             \/ Taken(m, c)
             \/ c \in OnTime(m) /\ turn'[c].left = turn[c].left /\ Same(m)

(* A step of caller c, seen from the rows.                                 *)
StepOf(c) == Alone(c) /\ RowsOf(c) /\ HoldingsOf(c)

(* The end of a failed call, for a caller that holds what it ends.         *)
LEMMA FailureRows ==
    ASSUME TypeOK, NEW m \in Models, NEW c \in Callers, NEW t,
           NEW class \in Classes, NEW hint \in Nat,
           t = m => Holds(c, m),
           FinishFailure(m, c, t, class, hint) \/ UNCHANGED circuit
    PROVE  RowsOf(c)
<1>1. CASE UNCHANGED circuit
  BY <1>1 DEF RowsOf, Same
<1>2. CASE FinishFailure(m, c, t, class, hint)
  <2>1. /\ \A x \in Models \ {m} : circuit'[x] = circuit[x]
        /\ ~Matches(m, c, t) => circuit' = circuit
        /\ Matches(m, c, t) => /\ circuit'[m].state = "open"
                               /\ circuit'[m].failures >= circuit[m].failures
    BY <1>2, FinishFailureType
  <2>2. Matches(m, c, t) => Returned(m, c)
    BY <2>1 DEF Matches, Returned
  <2>. QED
    BY <2>1, <2>2 DEF RowsOf, Same
<1>. QED
  BY <1>1, <1>2

(* A success, for a caller that got an answer.                             *)
LEMMA SuccessRows ==
    ASSUME TypeOK, NEW m \in Models, NEW c \in Callers, NEW t,
           turn[c].pc = "settle", turn[c].answered,
           turn[c].model = m, turn[c].token = t,
           (Matches(m, c, t) /\ FinishSuccess(m)) \/ UNCHANGED circuit
    PROVE  RowsOf(c)
<1>1. CASE UNCHANGED circuit
  BY <1>1 DEF RowsOf, Same
<1>2. CASE Matches(m, c, t) /\ FinishSuccess(m)
  <2>1. circuit'[m].state = "closed" /\ \A x \in Models \ {m} : circuit'[x] = circuit[x]
    BY <1>2 DEF FinishSuccess, Closed, TypeOK
  <2>2. Returned(m, c)
    BY <1>2, <2>1 DEF Matches, Returned, Holds
  <2>. QED
    BY <2>1, <2>2 DEF RowsOf, Same
<1>. QED
  BY <1>1, <1>2

(* A lease that is free, or was read.                                      *)
LEMMA LeaseRows ==
    ASSUME TypeOK, NEW m \in Models, NEW c \in Callers,
           circuit' = [circuit EXCEPT ![m] = Leased(m, c)],
           \/ Available(m)
           \/ circuit[m].state = "open" /\ m = ProbeRow /\ circuit[m].seen
    PROVE  RowsOf(c) /\ Taken(m, c)
<1>1. circuit'[m] = Leased(m, c) /\ \A x \in Models \ {m} : circuit'[x] = circuit[x]
  BY DEF TypeOK
<1>2. Taken(m, c)
  BY <1>1 DEF Taken, Available
<1>. QED
  BY <1>1, <1>2 DEF RowsOf, Same

(* A caller whose turn has ended holds nothing and calls nothing.          *)
LEMMA EndedHoldings ==
    ASSUME TypeOK, NEW c \in Callers, EndTurn(c)
    PROVE  Alone(c) /\ HoldingsOf(c)
<1>1. turn'[c].pc = "idle"
  BY DEF EndTurn, NoTurn, TypeOK
<1>2. \A m \in Models : ~Holds(c, m)' /\ c \notin OnTime(m)'
  BY <1>1 DEF Holds, OnTime, Calling
<1>. QED
  BY <1>2 DEF EndTurn, Alone, HoldingsOf, TypeOK

(* Nor does one that stays, or goes, where no call runs.                   *)
LEMMA QuietHoldings ==
    ASSUME NEW c \in Callers, turn'[c].pc \in {"acquire", "chain", "fail", "settle"},
           turn'[c].token \in {turn[c].token, NoModel},
           turn[c].pc # "idle"
    PROVE  HoldingsOf(c)
<1>1. \A m \in Models : c \notin OnTime(m)'
  BY DEF OnTime, Calling
<1>2. ASSUME NEW m \in Models, Holds(c, m)' PROVE Holds(c, m)
  BY <1>2, NamesAssumption DEF Holds
<1>. QED
  BY <1>1, <1>2 DEF HoldingsOf

LEMMA SameTurn ==
    ASSUME UNCHANGED turn, \A m \in Models : Same(m), NEW c \in Callers
    PROVE  Alone(c) /\ HoldingsOf(c)
BY DEF Alone, HoldingsOf, Holds, OnTime, Calling, Called

(* Every step but Tick is a step of one caller.                            *)
LEMMA CallerSteps ==
    TypeOK /\ (\A c \in Callers : TurnOK(c)) /\ [Next]_vars /\ ~Tick
      => \E c \in Callers : StepOf(c)
<1>. SUFFICES ASSUME TypeOK, \A c \in Callers : TurnOK(c), [Next]_vars, ~Tick
              PROVE  \E c \in Callers : StepOf(c)
  OBVIOUS
<1>. USE DEF RoomStep, CallerStep
<1>a. /\ \A c \in Callers : turn[c] \in Turn
      /\ turn \in [Callers -> Turn]
      /\ circuit \in [Models -> Row]
      /\ Rooms \subseteq Callers /\ Probe \in Callers
  BY DEF TypeOK, Callers
<1>b. Primary \in Models /\ ProbeRow \in Models
  BY NamesAssumption
<1>c. UNCHANGED circuit => /\ \A m \in Models : Same(m)
                           /\ \A c \in Callers : RowsOf(c)
  BY DEF RowsOf, Same
<1>1. ASSUME NEW r \in Rooms, Begin(r) PROVE StepOf(r)
  <2>1. turn'[r].pc = "acquire" /\ turn'[r].token = turn[r].token /\ Alone(r)
    BY <1>1, <1>a DEF Begin, Alone
  <2>2. turn[r].token = NoModel
    BY <1>1, <1>a DEF Begin, TurnOK
  <2>3. HoldingsOf(r)
    BY <2>1, <2>2, NamesAssumption DEF HoldingsOf, Holds, OnTime, Calling
  <2>. QED
    BY <1>1, <1>a, <1>c, <2>1, <2>3 DEF Begin, StepOf
<1>2. ASSUME NEW r \in Rooms, Acquire(r) PROVE StepOf(r)
  <2>1. RowsOf(r) /\ Taken(Primary, r)
    BY <1>2, <1>a, <1>b, LeaseRows DEF Acquire
  <2>2. Alone(r) /\ turn'[r].pc \in {"run", "fail"} /\ turn'[r].token = Primary
        /\ turn'[r].model = turn[r].model
    BY <1>2, <1>a DEF Acquire, Alone
  <2>3. turn[r].model = Primary
    BY <1>2, <1>a DEF Acquire, TurnOK
  <2>4. HoldingsOf(r)
    BY <2>1, <2>2, <2>3 DEF HoldingsOf, Holds, OnTime, Calling, Called, Taken
  <2>. QED
    BY <2>1, <2>2, <2>4 DEF StepOf
<1>3. ASSUME NEW r \in Rooms, RefuseCooldown(r) \/ RefuseUnreadable(r)
      PROVE  StepOf(r)
  <2>1. \A why, n : GoToChain(r, why, n) =>
          Alone(r) /\ turn'[r].pc = "chain" /\ turn'[r].token = turn[r].token
    BY <1>a DEF GoToChain, Alone
  <2>2. \E why, n : GoToChain(r, why, n)
    BY <1>3 DEF RefuseCooldown, RefuseUnreadable
  <2>3. turn[r].pc = "acquire"
    BY <1>3 DEF RefuseCooldown, RefuseUnreadable
  <2>. QED
    BY <1>3, <1>a, <1>c, <2>1, <2>2, <2>3, QuietHoldings
       DEF RefuseCooldown, RefuseUnreadable, StepOf
<1>4. ASSUME NEW c \in Callers, CallAnswers(c) PROVE StepOf(c)
  <2>1. Alone(c) /\ turn'[c] = Answered(c, turn[c].token) /\ turn[c].pc = "run"
    BY <1>4, <1>a DEF CallAnswers, Alone
  <2>2. turn'[c].pc = "settle" /\ turn'[c].token = turn[c].token
    BY <2>1 DEF Answered, NoTurn
  <2>. QED
    BY <1>4, <1>c, <2>1, <2>2, QuietHoldings DEF CallAnswers, StepOf
<1>5. ASSUME NEW c \in Callers, CallFails(c) PROVE StepOf(c)
  <2>1. /\ Alone(c) /\ turn'[c].pc \in {"chain", "fail"}
        /\ turn'[c].token = turn[c].token /\ turn[c].pc = "run"
    BY <1>5, <1>a DEF CallFails, Alone
  <2>. QED
    BY <1>5, <1>c, <2>1, QuietHoldings DEF CallFails, StepOf
<1>6. ASSUME NEW c \in Callers, TryCandidate(c) PROVE StepOf(c)
  <2>1. Candidate(c) \in Models
    BY <1>6, CandidateType DEF TryCandidate, MayTry
  <2>2. RowsOf(c) /\ Taken(Candidate(c), c)
    BY <1>6, <2>1, LeaseRows DEF TryCandidate
  <2>3. /\ Alone(c) /\ turn'[c].pc = "try" /\ turn'[c].token = turn[c].token
        /\ turn'[c].queue = turn[c].queue /\ turn[c].pc = "chain"
    BY <1>6, <1>a DEF TryCandidate, MayTry, Alone
  <2>4. HoldingsOf(c)
    BY <2>2, <2>3 DEF HoldingsOf, Holds, OnTime, Calling, Called, Candidate, Taken
  <2>. QED
    BY <2>2, <2>3, <2>4 DEF StepOf
<1>7. ASSUME NEW c \in Callers, SkipCandidate(c) PROVE StepOf(c)
  <2>1. /\ Alone(c) /\ turn'[c].pc = "chain" /\ turn'[c].token = turn[c].token
        /\ turn[c].pc = "chain"
    BY <1>7, <1>a DEF SkipCandidate, MayTry, Alone
  <2>. QED
    BY <1>7, <1>c, <2>1, QuietHoldings DEF SkipCandidate, StepOf
<1>8. ASSUME NEW c \in Callers, CandidateFails(c) PROVE StepOf(c)
  <2>1. Candidate(c) \in Models /\ Holds(c, Candidate(c))
    BY <1>8, CandidateType DEF CandidateFails, TurnOK, Holds, Candidate
  <2>2. RowsOf(c)
    BY <1>8, <2>1, FailureRows, ClassesAssumption DEF CandidateFails
  <2>3. /\ Alone(c) /\ turn'[c].pc = "chain" /\ turn'[c].token = turn[c].token
        /\ turn[c].pc = "try"
    BY <1>8, <1>a DEF CandidateFails, Alone
  <2>. QED
    BY <2>2, <2>3, QuietHoldings DEF StepOf
<1>9. ASSUME NEW c \in Callers, CandidateAnswers(c) PROVE StepOf(c)
  <2>1. /\ Alone(c) /\ turn[c].pc = "try"
        /\ \/ /\ turn'[c].pc = "adopt" /\ turn'[c].token = turn[c].token
              /\ turn'[c].queue = turn[c].queue
           \/ /\ turn'[c] = Answered(c, Candidate(c))
    BY <1>9, <1>a DEF CandidateAnswers, Alone
  <2>2. \/ /\ turn'[c].pc = "adopt" /\ turn'[c].token = turn[c].token
           /\ turn'[c].queue = turn[c].queue
        \/ turn'[c].pc = "settle" /\ turn'[c].token = Head(turn[c].queue)
    BY <2>1 DEF Answered, NoTurn, Candidate
  <2>3. HoldingsOf(c)
    BY <2>1, <2>2 DEF HoldingsOf, Holds, OnTime, Calling
  <2>. QED
    BY <1>9, <1>c, <2>1, <2>3 DEF CandidateAnswers, StepOf
<1>10. ASSUME NEW c \in Callers, Adopt(c) PROVE StepOf(c)
  <2>1. /\ turn[c].model \in Models /\ turn[c].hint \in Nat
        /\ turn[c].why \in Classes /\ turn[c].pc = "adopt"
    BY <1>10, <1>a DEF Adopt, TurnOK, Turn
  <2>2. turn[c].token = turn[c].model => Holds(c, turn[c].model)
    BY <2>1 DEF Holds
  <2>3. RowsOf(c)
    BY <1>10, <2>1, <2>2, FailureRows DEF Adopt
  <2>4. Alone(c) /\ turn'[c] = Answered(c, Candidate(c))
    BY <1>10, <1>a DEF Adopt, Alone
  <2>5. turn'[c].pc = "settle" /\ turn'[c].token = Head(turn[c].queue)
    BY <2>4 DEF Answered, NoTurn, Candidate
  <2>6. HoldingsOf(c)
    BY <2>1, <2>5 DEF HoldingsOf, Holds, OnTime, Calling
  <2>. QED
    BY <2>3, <2>4, <2>6 DEF StepOf
<1>11. ASSUME NEW c \in Callers, NoWinner(c) PROVE StepOf(c)
  <2>1. CASE turn[c].token # NoModel
    <3>1. /\ Alone(c) /\ turn'[c].pc = "fail" /\ turn'[c].token = turn[c].token
          /\ turn[c].pc = "chain"
      <4>1. PICK hold \in Hold(c) :
              turn' = [turn EXCEPT ![c].pc = "fail", ![c].held = hold]
        BY <1>11, <2>1 DEF NoWinner
      <4>2. turn[c].pc = "chain"
        BY <1>11 DEF NoWinner
      <4>. QED
        BY <1>a, <4>1, <4>2 DEF Alone
    <3>. QED
      BY <1>11, <1>c, <3>1, QuietHoldings DEF NoWinner, StepOf
  <2>2. CASE turn[c].token = NoModel
    BY <1>11, <1>c, <2>2, EndedHoldings DEF NoWinner, StepOf
  <2>. QED
    BY <2>1, <2>2
<1>12. ASSUME NEW c \in Callers, Fail(c) PROVE StepOf(c)
  <2>1. /\ turn[c].model \in Models /\ turn[c].hint \in Nat
        /\ turn[c].why \in Classes /\ turn[c].pc = "fail"
    BY <1>12, <1>a DEF Fail, TurnOK, Turn
  <2>2. turn[c].token = turn[c].model => Holds(c, turn[c].model)
    BY <2>1 DEF Holds
  <2>3. \/ FinishFailure(turn[c].model, c, turn[c].token, turn[c].why, turn[c].hint)
        \/ UNCHANGED circuit
    BY <1>12 DEF Fail
  <2>4. RowsOf(c)
    BY <2>1, <2>2, <2>3, FailureRows
  <2>. QED
    BY <1>12, <2>4, EndedHoldings DEF Fail, StepOf
<1>13. ASSUME NEW r \in Rooms, Settle(r) PROVE StepOf(r)
  <2>1. turn[r].pc = "settle" /\ turn[r].answered /\ turn[r].model \in Models
    BY <1>13, <1>a DEF Settle, TurnOK, Turn
  <2>2. \/ Matches(turn[r].model, r, turn[r].token) /\ FinishSuccess(turn[r].model)
        \/ UNCHANGED circuit
    BY <1>13 DEF Settle
  <2>3. RowsOf(r)
    BY <1>a, <2>1, <2>2, SuccessRows
  <2>. QED
    BY <1>13, <1>a, <2>3, EndedHoldings DEF Settle, StepOf
<1>14. CASE ReadRow
  <2>1. \A m \in Models : Same(m)
    BY <1>14, <1>a, <1>b DEF ReadRow, Same
  <2>. QED
    BY <1>14, <1>a, <2>1, SameTurn DEF ReadRow, RowsOf, StepOf
<1>15. CASE StartProbe
  <2>1. RowsOf(Probe) /\ Taken(ProbeRow, Probe)
    BY <1>15, <1>a, <1>b, LeaseRows DEF StartProbe
  <2>2. Alone(Probe) /\ turn'[Probe].pc = "run" /\ turn'[Probe].token = ProbeRow
    BY <1>15, <1>a DEF StartProbe, Alone
  <2>3. HoldingsOf(Probe)
    BY <2>1, <2>2 DEF HoldingsOf, Holds, OnTime
  <2>. QED
    BY <1>a, <2>1, <2>2, <2>3 DEF StepOf
<1>16. CASE SettleProbe
  <2>1. /\ turn[Probe].pc = "settle" /\ turn[Probe].answered
        /\ turn[Probe].model \in Models
    BY <1>16, <1>a DEF SettleProbe, TurnOK, Turn
  <2>2. \/ /\ Matches(turn[Probe].model, Probe, turn[Probe].token)
           /\ FinishSuccess(turn[Probe].model)
        \/ UNCHANGED circuit
    BY <1>16 DEF SettleProbe
  <2>3. RowsOf(Probe)
    BY <1>a, <2>1, <2>2, SuccessRows
  <2>4. CASE EndTurn(Probe)
    BY <1>a, <2>3, <2>4, EndedHoldings DEF StepOf
  <2>5. CASE turn' = [turn EXCEPT ![Probe].pc = "fail",
                                  ![Probe].why = "invalid_output",
                                  ![Probe].hint = 0]
    <3>1. /\ Alone(Probe) /\ turn'[Probe].pc = "fail"
          /\ turn'[Probe].token = turn[Probe].token
      BY <1>a, <2>5 DEF Alone
    <3>. QED
      BY <1>a, <2>1, <2>3, <3>1, QuietHoldings DEF StepOf
  <2>. QED
    BY <1>16, <1>a, <2>4, <2>5 DEF SettleProbe
<1>17. ASSUME NEW c \in Callers, GoLate(c) PROVE StepOf(c)
  <2>1. Alone(c) /\ turn'[c] = [turn[c] EXCEPT !.late = TRUE]
    BY <1>17, <1>a DEF GoLate, Alone
  <2>2. /\ turn'[c].pc = turn[c].pc /\ turn'[c].token = turn[c].token
        /\ turn'[c].queue = turn[c].queue /\ turn'[c].late
    BY <1>a, <2>1 DEF Turn
  <2>3. HoldingsOf(c)
    BY <2>2 DEF HoldingsOf, Holds, OnTime
  <2>. QED
    BY <1>17, <1>c, <2>1, <2>3 DEF GoLate, StepOf
<1>18. ASSUME NEW r \in Rooms, HeldEarly(r) \/ RefuseInFlight(r) PROVE StepOf(r)
  BY <1>18, <1>a, <1>c, EndedHoldings DEF HeldEarly, RefuseInFlight, StepOf
<1>19. ASSUME NEW c \in Callers, Crash(c) PROVE StepOf(c)
  BY <1>19, <1>c, EndedHoldings DEF Crash, StepOf
<1>20. ASSUME NEW r \in Rooms, Arrive(r) \/ SkipStale(r) \/ Rearm(r)
       PROVE  StepOf(r)
  BY <1>20, <1>a, <1>c, SameTurn DEF Arrive, SkipStale, Rearm, StepOf
<1>21. CASE UNCHANGED vars
  BY <1>21, <1>a, <1>c, SameTurn DEF vars, StepOf
<1>. QED
  BY <1>1, <1>2, <1>3, <1>4, <1>5, <1>6, <1>7, <1>8, <1>9, <1>10, <1>11,
     <1>12, <1>13, <1>14, <1>15, <1>16, <1>17, <1>18, <1>19, <1>20, <1>21,
     <1>a DEF Next

-----------------------------------------------------------------------------
(* The inductive invariant.                                                *)

(* A call that is on time holds its lease after a step of caller c.        *)
LEMMA LeaseStep ==
    ASSUME IInv, TypeOK', \A d \in Callers : TurnOK(d)',
           NEW c \in Callers, StepOf(c)
    PROVE  LeaseOK'
<1>. SUFFICES ASSUME NEW m \in Models, NEW d \in OnTime(m)'
              PROVE  /\ circuit'[m].state = "in_flight"
                     /\ circuit'[m].token = d
                     /\ circuit'[m].until >= turn'[d].left + (Lease - Budget)
  BY DEF LeaseOK
<1>a. /\ d \in Callers /\ TurnOK(d)' /\ turn'[d].left \in Nat
      /\ Lease \in Nat /\ Budget \in Nat /\ Budget < Lease
  BY TimesAssumption DEF OnTime, TypeOK, Turn
<1>b. Same(m) \/ Taken(m, c) \/ Returned(m, c)
  BY DEF StepOf, RowsOf
<1>1. ASSUME d \in OnTime(m), turn'[d].left = turn[d].left, Same(m)
      PROVE  /\ circuit'[m].state = "in_flight"
             /\ circuit'[m].token = d
             /\ circuit'[m].until >= turn'[d].left + (Lease - Budget)
  BY <1>1 DEF IInv, LeaseOK, Same
<1>2. CASE d = c /\ Taken(m, c)
  <2>1. /\ circuit'[m].state = "in_flight" /\ circuit'[m].token = c
        /\ circuit'[m].until = Lease
    BY <1>2, LeasedType DEF Taken, IInv
  <2>2. turn'[d].left <= Budget
    BY <1>a DEF TurnOK
  <2>. QED
    BY <1>2, <1>a, <2>1, <2>2
<1>3. CASE d = c /\ ~Taken(m, c)
  BY <1>1, <1>3 DEF StepOf, HoldingsOf
<1>4. CASE d # c
  <2>1. turn'[d] = turn[d] /\ d \in OnTime(m)
    BY <1>4, <1>a DEF StepOf, Alone, OnTime, Calling, Called
  <2>2. /\ circuit[m].state = "in_flight" /\ circuit[m].token = d
        /\ circuit[m].until >= turn[d].left + (Lease - Budget)
    BY <2>1 DEF IInv, LeaseOK
  <2>3. circuit[m].until # 0
    BY <1>a, <2>1, <2>2
  <2>4. Same(m)
    BY <1>b, <1>4, <2>2, <2>3 DEF Taken, Returned
  <2>. QED
    BY <1>1, <2>1, <2>4
<1>. QED
  BY <1>2, <1>3, <1>4

(* What a dead caller left behind stays covered, whoever takes a step.     *)
LEMMA OrphanStep ==
    ASSUME IInv, NEW c \in Callers, StepOf(c),
           NEW m \in Models, orphan[m] > 0, orphan'[m] = orphan[m]
    PROVE  /\ circuit'[m].state = "in_flight"
           /\ circuit'[m].token \in Callers
           /\ ~Holds(circuit[m].token, m)'
           /\ circuit'[m].token = circuit[m].token
           /\ OnTime(m)' = {}
           /\ circuit'[m].until >= orphan'[m] + (Lease - Budget)
<1>a. /\ orphan[m] \in Nat /\ Lease \in Nat /\ Budget \in Nat /\ Budget < Lease
  BY TimesAssumption DEF IInv, TypeOK
<1>1. /\ circuit[m].state = "in_flight" /\ circuit[m].token \in Callers
      /\ ~Holds(circuit[m].token, m) /\ OnTime(m) = {}
      /\ circuit[m].until >= orphan[m] + (Lease - Budget)
  BY DEF IInv, OrphanOK
<1>2. circuit[m].until # 0
  BY <1>a, <1>1
<1>3. ~Taken(m, c) /\ ~Returned(m, c)
  BY <1>1, <1>2 DEF Taken, Returned
<1>4. Same(m)
  BY <1>3 DEF StepOf, RowsOf
<1>5. OnTime(m)' = {}
  <2>. SUFFICES ASSUME NEW d \in OnTime(m)' PROVE FALSE
    OBVIOUS
  <2>1. d \in Callers
    BY DEF OnTime
  <2>2. CASE d = c
    BY <1>1, <1>3, <2>2 DEF StepOf, HoldingsOf
  <2>3. CASE d # c
    BY <1>1, <2>1, <2>3 DEF StepOf, Alone, OnTime, Calling, Called
  <2>. QED
    BY <2>2, <2>3
<1>6. ~Holds(circuit[m].token, m)'
  <2>1. circuit'[m].token = circuit[m].token
    BY <1>4 DEF Same
  <2>2. CASE circuit[m].token = c
    BY <1>1, <1>3, <2>1, <2>2 DEF StepOf, HoldingsOf, Holds
  <2>3. CASE circuit[m].token # c
    BY <1>1, <2>1, <2>3 DEF StepOf, Alone, Holds
  <2>. QED
    BY <2>2, <2>3
<1>. QED
  BY <1>1, <1>4, <1>5, <1>6 DEF Same

(* A death leaves a call behind only under the lease it died with.         *)
LEMMA CrashStep ==
    ASSUME IInv, NEW c \in Callers, Crash(c), NEW m \in Models,
           orphan'[m] # orphan[m]
    PROVE  /\ circuit'[m].state = "in_flight"
           /\ circuit'[m].token \in Callers
           /\ ~Holds(circuit[m].token, m)'
           /\ OnTime(m)' = {}
           /\ circuit'[m].until >= orphan'[m] + (Lease - Budget)
<1>1. /\ Calling(c) /\ ~turn[c].late /\ c # Probe
      /\ orphan' = [orphan EXCEPT ![Called(c)] = turn[c].left]
  BY DEF Crash
<1>2. m = Called(c) /\ orphan'[m] = turn[c].left
  BY <1>1 DEF IInv, TypeOK
<1>3. c \in OnTime(m)
  BY <1>1, <1>2 DEF OnTime
<1>4. /\ circuit[m].state = "in_flight" /\ circuit[m].token = c
      /\ circuit[m].until >= turn[c].left + (Lease - Budget)
  BY <1>3 DEF IInv, LeaseOK
<1>5. circuit' = circuit /\ turn' = [turn EXCEPT ![c] = NoTurn]
  BY DEF Crash, EndTurn
<1>6. turn'[c].pc = "idle" /\ \A d \in Callers \ {c} : turn'[d] = turn[d]
  BY <1>5 DEF NoTurn, IInv, TypeOK
<1>7. ~Holds(circuit[m].token, m)'
  BY <1>4, <1>5, <1>6 DEF Holds
<1>8. OnTime(m)' = {}
  <2>. SUFFICES ASSUME NEW d \in OnTime(m)' PROVE FALSE
    OBVIOUS
  <2>1. d \in Callers /\ d # c
    BY <1>6 DEF OnTime, Calling
  <2>2. d \in OnTime(m)
    BY <1>6, <2>1 DEF OnTime, Calling, Called
  <2>. QED
    BY <1>4, <2>1, <2>2 DEF IInv, LeaseOK
<1>. QED
  BY <1>2, <1>4, <1>5, <1>7, <1>8

(* How time changes a row.                                                 *)
LEMMA TickRow ==
    ASSUME TypeOK, Tick, NEW m \in Models
    PROVE  /\ circuit'[m].state = circuit[m].state
           /\ circuit'[m].token = circuit[m].token
           /\ circuit'[m].failures = circuit[m].failures
           /\ circuit'[m].until = Before(circuit[m].until)
           /\ circuit'[m].until >= circuit[m].until - 1
           /\ circuit[m].until \in Nat
<1>1. circuit'[m] = [circuit[m] EXCEPT !.until = Before(@)] /\ circuit[m] \in Row
  BY DEF Tick, TypeOK
<1>2. circuit[m].until \in Nat
  BY <1>1 DEF Row
<1>3. /\ circuit'[m].state = circuit[m].state
      /\ circuit'[m].token = circuit[m].token
      /\ circuit'[m].failures = circuit[m].failures
      /\ circuit'[m].until = Before(circuit[m].until)
  BY <1>1 DEF Row
<1>. QED
  BY <1>2, <1>3 DEF Before

(* Calls and leases age together.                                          *)
LEMMA TickStep ==
    ASSUME IInv, TypeOK', Tick PROVE LeaseOK' /\ OrphanOK'
<1>a. Lease \in Nat /\ Budget \in Nat /\ Budget < Lease
  BY TimesAssumption
<1>b. \A t \in Nat : Before(t) \in Nat /\ (t > 0 => Before(t) = t - 1)
                       /\ (Before(t) > 0 => t > 0)
  BY DEF Before
<1>1. ASSUME NEW c \in Callers
      PROVE  /\ turn'[c].pc = turn[c].pc /\ turn'[c].token = turn[c].token
             /\ turn'[c].queue = turn[c].queue /\ turn'[c].late = turn[c].late
             /\ turn'[c].model = turn[c].model
             /\ turn'[c].left = Before(turn[c].left) /\ turn[c].left \in Nat
  <2>1. turn'[c] = [turn[c] EXCEPT !.left = Before(@), !.retry = Before(@)]
    BY DEF Tick
  <2>. QED
    BY <2>1 DEF IInv, TypeOK, Turn
<1>2. ASSUME NEW m \in Models
      PROVE  /\ circuit'[m].state = circuit[m].state
             /\ circuit'[m].token = circuit[m].token
             /\ circuit'[m].until = Before(circuit[m].until)
             /\ circuit[m].until \in Nat
             /\ orphan'[m] = Before(orphan[m]) /\ orphan[m] \in Nat
  BY TickRow DEF Tick, IInv, TypeOK
<1>3. ASSUME NEW m \in Models
      PROVE  /\ OnTime(m)' = OnTime(m)
             /\ \A c \in Callers : Holds(c, m)' = Holds(c, m)
  BY <1>1 DEF OnTime, Holds, Calling, Called
<1>4. LeaseOK'
  <2>. SUFFICES ASSUME NEW m \in Models, NEW c \in OnTime(m)'
                PROVE  /\ circuit'[m].state = "in_flight"
                       /\ circuit'[m].token = c
                       /\ circuit'[m].until >= turn'[c].left + (Lease - Budget)
    BY DEF LeaseOK
  <2>1. c \in OnTime(m) /\ c \in Callers
    BY <1>3 DEF OnTime
  <2>2. turn[c].left > 0
    BY <2>1 DEF OnTime, Tick
  <2>3. /\ circuit[m].state = "in_flight" /\ circuit[m].token = c
        /\ circuit[m].until >= turn[c].left + (Lease - Budget)
    BY <2>1 DEF IInv, LeaseOK
  <2>4. circuit'[m].until >= turn'[c].left + (Lease - Budget)
    <3>1. turn[c].left \in Nat /\ circuit[m].until \in Nat
      BY <1>1, <1>2, <2>1
    <3>2. circuit[m].until > 0
      BY <1>a, <2>2, <2>3, <3>1
    <3>3. /\ turn'[c].left = turn[c].left - 1
          /\ circuit'[m].until = circuit[m].until - 1
      BY <1>b, <1>1, <1>2, <2>1, <2>2, <3>1, <3>2
    <3>. QED
      BY <1>a, <2>3, <3>1, <3>3
  <2>. QED
    BY <1>2, <2>3, <2>4
<1>5. OrphanOK'
  <2>. SUFFICES ASSUME NEW m \in Models, orphan'[m] > 0
                PROVE  /\ circuit'[m].state = "in_flight"
                       /\ circuit'[m].token \in Callers
                       /\ ~Holds(circuit[m].token, m)'
                       /\ OnTime(m)' = {}
                       /\ circuit'[m].until >= orphan'[m] + (Lease - Budget)
    BY DEF OrphanOK
  <2>1. orphan[m] > 0
    BY <1>b, <1>2
  <2>2. /\ circuit[m].state = "in_flight" /\ circuit[m].token \in Callers
        /\ ~Holds(circuit[m].token, m) /\ OnTime(m) = {}
        /\ circuit[m].until >= orphan[m] + (Lease - Budget)
    BY <2>1 DEF IInv, OrphanOK
  <2>3. circuit'[m].until >= orphan'[m] + (Lease - Budget)
    <3>1. orphan[m] \in Nat /\ circuit[m].until \in Nat
      BY <1>2
    <3>2. circuit[m].until > 0
      BY <1>a, <2>1, <2>2, <3>1
    <3>3. /\ orphan'[m] = orphan[m] - 1
          /\ circuit'[m].until = circuit[m].until - 1
      BY <1>b, <1>2, <2>1, <3>1, <3>2
    <3>. QED
      BY <1>a, <2>2, <3>1, <3>3
  <2>4. ~Holds(circuit[m].token, m)'
    <3>1. \A c \in Callers : ~Holds(c, m) => ~Holds(c, m)'
      BY <1>3
    <3>2. circuit'[m].token = circuit[m].token
      BY <1>2
    <3>. QED
      BY <2>2, <3>1, <3>2 DEF Holds
  <2>. QED
    BY <1>2, <1>3, <2>2, <2>3, <2>4
<1>. QED
  BY <1>4, <1>5

LEMMA InitInv == Init => IInv
<1>. SUFFICES ASSUME Init PROVE IInv
  OBVIOUS
<1>. USE DEF Init
<1>1. TypeOK
  <2>1. Base["usage_limit"] \in Nat /\ "usage_limit" \in Classes
    BY ClassesAssumption
  <2>2. [Closed EXCEPT !.state = "open", !.class = "usage_limit",
                       !.failures = 1, !.until = Base["usage_limit"]] \in Row
    <3>1. Closed \in Row /\ 1 \in 0..MaxFailures
      BY ClosedType, TimesAssumption
    <3>2. \A x \in Row : [x EXCEPT !.state = "open", !.class = "usage_limit",
                       !.failures = 1, !.until = Base["usage_limit"]] \in Row
      BY <2>1, <3>1 DEF Row
    <3>. QED
      BY <3>1, <3>2
  <2>3. circuit \in [Models -> Row]
    BY <2>2, ClosedType
  <2>4. job \in [Rooms -> Job] /\ faults \in Faults
    BY DEF Job, Faults
  <2>. QED
    BY <2>3, <2>4, NoTurnType DEF TypeOK
<1>2. \A c \in Callers : turn[c] = NoTurn
  OBVIOUS
<1>3. \A c \in Callers : TurnOK(c)
  BY <1>2, TimesAssumption DEF NoTurn, TurnOK
<1>4. LeaseOK /\ OrphanOK
  BY <1>2 DEF NoTurn, LeaseOK, OrphanOK, OnTime, Calling
<1>. QED
  BY <1>1, <1>3, <1>4 DEF IInv

LEMMA NextInv == IInv /\ [Next]_vars => IInv'
<1>. SUFFICES ASSUME IInv, [Next]_vars PROVE IInv'
  OBVIOUS
<1>1. TypeOK' /\ \A c \in Callers : TurnOK(c)'
  BY TypeStep, TurnStep DEF IInv
<1>2. CASE Tick
  BY <1>1, <1>2, TickStep DEF IInv
<1>3. CASE ~Tick
  <2>1. PICK c \in Callers : StepOf(c)
    BY <1>3, CallerSteps DEF IInv
  <2>2. LeaseOK'
    BY <1>1, <2>1, LeaseStep
  <2>3. orphan' = orphan \/ \E d \in Callers : Crash(d)
    BY <1>3 DEF Next, vars, RoomStep, CallerStep, Arrive, SkipStale, Rearm,
       Begin, HeldEarly, Acquire, RefuseInFlight, RefuseCooldown,
       RefuseUnreadable, Settle, CallAnswers, CallFails, TryCandidate,
       SkipCandidate, CandidateFails, CandidateAnswers, Adopt, NoWinner, Fail,
       GoLate, ReadRow, StartProbe, SettleProbe
  <2>4. OrphanOK'
    <3>. SUFFICES ASSUME NEW m \in Models, orphan'[m] > 0
                  PROVE  /\ circuit'[m].state = "in_flight"
                         /\ circuit'[m].token \in Callers
                         /\ ~Holds(circuit[m].token, m)'
                         /\ OnTime(m)' = {}
                         /\ circuit'[m].until >= orphan'[m] + (Lease - Budget)
      BY DEF OrphanOK
    <3>1. CASE orphan'[m] = orphan[m]
      BY <2>1, <3>1, OrphanStep
    <3>2. CASE orphan'[m] # orphan[m]
      BY <2>3, <3>2, CrashStep
    <3>. QED
      BY <3>1, <3>2
  <2>. QED
    BY <1>1, <2>2, <2>4 DEF IInv
<1>. QED
  BY <1>2, <1>3

-----------------------------------------------------------------------------
(* The theorems.                                                           *)

(* The invariant holds in every behaviour of the breaker.                  *)
THEOREM Invariance == Spec => []IInv
BY InitInv, NextInv, PTL DEF Spec

(* Every reachable state is well typed.                                    *)
THEOREM TypeCorrect == Spec => []TypeOK
<1>1. IInv => TypeOK
  BY DEF IInv
<1>. QED
  BY <1>1, Invariance, PTL

(* Calls of a model are serialized while they keep their deadline: among   *)
(* any number of rooms, after any number of deaths and database errors.    *)
THEOREM Serialized == Spec => []OneCall
<1>1. IInv => OneCall
  BY DEF IInv, OneCall, LeaseOK, OrphanOK
<1>. QED
  BY <1>1, Invariance, PTL

(* A turn that has an answer asks no further model.                        *)
THEOREM AnsweredOnce == Spec => []OneAnswer
<1>1. IInv => OneAnswer
  BY DEF IInv, OneAnswer, TurnOK, Calling
<1>. QED
  BY <1>1, Invariance, PTL

(* Nobody ends, or takes, a lease with time left that another holds.       *)
THEOREM LeasesKept == Spec => LeaseKept
<1>. DEFINE Kept(m) ==
        circuit[m].state = "in_flight" /\ circuit[m].until > 0
            /\ circuit'[m].token # circuit[m].token
          => Holds(circuit[m].token, m)
<1>1. IInv /\ [Next]_vars => \A m \in Models : Kept(m)
  <2>. SUFFICES ASSUME IInv, [Next]_vars, NEW m \in Models PROVE Kept(m)
    OBVIOUS
  <2>1. CASE Tick
    BY <2>1, TickRow DEF IInv
  <2>2. CASE ~Tick
    <3>1. PICK c \in Callers : StepOf(c)
      BY <2>2, CallerSteps DEF IInv
    <3>. QED
      BY <3>1 DEF StepOf, RowsOf, Same, Taken, Returned
  <2>. QED
    BY <2>1, <2>2
<1>. QED
  BY <1>1, Invariance, PTL DEF Spec, LeaseKept

(* Nobody calls a model, or shortens its wait, in the middle of a cooldown, *)
(* but the probe that read the row.                                        *)
THEOREM CooldownsKept == Spec => CooldownKept
<1>. DEFINE Kept(m) ==
        circuit[m].state = "open" /\ circuit[m].until > 0
          => \/ /\ circuit'[m].state = "open"
                /\ circuit'[m].until >= circuit[m].until - 1
             \/ m = ProbeRow /\ circuit[m].seen
<1>1. IInv /\ [Next]_vars => \A m \in Models : Kept(m)
  <2>. SUFFICES ASSUME IInv, [Next]_vars, NEW m \in Models PROVE Kept(m)
    OBVIOUS
  <2>0. circuit[m].until \in Nat
    BY DEF IInv, TypeOK, Row
  <2>1. CASE Tick
    BY <2>1, TickRow DEF IInv
  <2>2. CASE ~Tick
    <3>1. PICK c \in Callers : StepOf(c)
      BY <2>2, CallerSteps DEF IInv
    <3>. QED
      BY <2>0, <3>1 DEF StepOf, RowsOf, Same, Taken, Returned
  <2>. QED
    BY <2>1, <2>2
<1>. QED
  BY <1>1, Invariance, PTL DEF Spec, CooldownKept

(* Failures are forgotten only for an answer.                              *)
THEOREM FailuresCounted == Spec => FailuresKept
<1>. DEFINE Kept(m) ==
        circuit'[m].failures < circuit[m].failures
          => LET c == circuit[m].token
             IN  c \in Callers /\ turn[c].answered /\ turn[c].model = m
<1>1. IInv /\ [Next]_vars => \A m \in Models : Kept(m)
  <2>. SUFFICES ASSUME IInv, [Next]_vars, NEW m \in Models PROVE Kept(m)
    OBVIOUS
  <2>0. circuit[m].failures \in Nat /\ circuit'[m].failures \in Nat
    <3>1. TypeOK'
      BY TypeStep DEF IInv
    <3>. QED
      BY <3>1, TimesAssumption DEF IInv, TypeOK, Row
  <2>1. CASE Tick
    BY <2>0, <2>1, TickRow DEF IInv
  <2>2. CASE ~Tick
    <3>1. PICK c \in Callers : StepOf(c)
      BY <2>2, CallerSteps DEF IInv
    <3>2. Taken(m, c) => circuit'[m].failures = circuit[m].failures
      BY LeasedType DEF Taken, IInv
    <3>. QED
      BY <2>0, <3>1, <3>2 DEF StepOf, RowsOf, Same, Returned
  <2>. QED
    BY <2>1, <2>2
<1>. QED
  BY <1>1, Invariance, PTL DEF Spec, FailuresKept

-----------------------------------------------------------------------------
(* The rows implement ModelLease.                                          *)

(* A lease of the rows is one of ModelLease, told apart by what runs.      *)
Shaped(m, h) ==
    /\ h \in Callers \cup {NoCaller}
    /\ h = NoCaller =>
         LeaseOf(m) = Serial!Free /\ OnTime(m) = {} /\ ~(orphan[m] > 0)
    /\ h # NoCaller =>
         \/ LeaseOf(m) = Serial!Held(h) /\ OnTime(m) = {} /\ ~(orphan[m] > 0)
         \/ LeaseOf(m) = Serial!Used(h) /\ OnTime(m) # {} /\ ~(orphan[m] > 0)
         \/ LeaseOf(m) = Serial!Abandoned(h) /\ OnTime(m) = {} /\ orphan[m] > 0

LeasesShaped == \A m \in Models : Shaped(m, HolderOf(m))

LEMMA LeaseShape == IInv => LeasesShaped
<1>. SUFFICES ASSUME IInv, NEW m \in Models PROVE Shaped(m, HolderOf(m))
  BY DEF LeasesShaped
<1>. USE DEF Shaped
<1>. USE DEF Serial!Free, Serial!Held, Serial!Used, Serial!Abandoned
<1>a. /\ orphan[m] \in Nat /\ circuit[m].token \in Callers \cup {NoCaller}
      /\ circuit[m].until \in Nat
      /\ Lease \in Nat /\ Budget \in Nat /\ Budget < Lease
  BY TimesAssumption DEF IInv, TypeOK, Row
<1>b. NoCaller \notin Callers
  BY NamesAssumption
<1>1. ASSUME orphan[m] > 0
      PROVE  HolderOf(m) = circuit[m].token /\ HolderOf(m) \in Callers /\ OnTime(m) = {}
  <2>1. /\ circuit[m].state = "in_flight" /\ circuit[m].token \in Callers
        /\ OnTime(m) = {} /\ circuit[m].until >= orphan[m] + (Lease - Budget)
    BY <1>1 DEF IInv, OrphanOK
  <2>2. circuit[m].until > 0
    BY <1>1, <1>a, <2>1
  <2>. QED
    BY <2>1, <2>2 DEF HolderOf
<1>2. ASSUME NEW c \in OnTime(m)
      PROVE  HolderOf(m) = c /\ c \in Callers
  <2>1. /\ circuit[m].state = "in_flight" /\ circuit[m].token = c
        /\ circuit[m].until >= turn[c].left + (Lease - Budget)
    BY DEF IInv, LeaseOK
  <2>2. c \in Callers /\ turn[c].left \in Nat
    BY DEF OnTime, IInv, TypeOK, Turn
  <2>3. circuit[m].until > 0
    BY <1>a, <2>1, <2>2
  <2>. QED
    BY <2>1, <2>2, <2>3 DEF HolderOf
<1>3. HolderOf(m) \in Callers \cup {NoCaller}
  BY <1>a DEF HolderOf
<1>4. CASE orphan[m] > 0
  <2>1. LeaseOf(m) = [holder |-> HolderOf(m), calls |-> {NoCaller}]
    BY <1>1, <1>4 DEF LeaseOf
  <2>. QED
    BY <1>1, <1>4, <1>b, <2>1
<1>5. CASE ~(orphan[m] > 0) /\ OnTime(m) = {}
  <2>1. LeaseOf(m) = [holder |-> HolderOf(m), calls |-> {}]
    BY <1>5 DEF LeaseOf
  <2>. QED
    BY <1>3, <1>5, <2>1
<1>6. CASE ~(orphan[m] > 0) /\ OnTime(m) # {}
  <2>1. OnTime(m) = {HolderOf(m)} /\ HolderOf(m) \in Callers
    BY <1>2, <1>6
  <2>2. LeaseOf(m) = [holder |-> HolderOf(m), calls |-> {HolderOf(m)}]
    BY <1>6, <2>1 DEF LeaseOf
  <2>. QED
    BY <1>3, <1>6, <1>b, <2>1, <2>2
<1>. QED
  BY <1>4, <1>5, <1>6

LEMMA LeaseShapeNext == IInv' => LeasesShaped'
BY LeaseShape, PTL

(* A lease in force is not passed on, and no call joins it.                *)
LEMMA HolderStep ==
    ASSUME IInv, [Next]_vars, NEW m \in Models, HolderOf(m) # NoCaller
    PROVE  /\ HolderOf(m)' \in {HolderOf(m), NoCaller}
           /\ OnTime(m)' \subseteq OnTime(m)
<1>a. circuit[m].state = "in_flight" /\ circuit[m].until > 0
  BY DEF HolderOf
<1>1. CASE Tick
  <2>1. ASSUME NEW c \in Callers
        PROVE  /\ turn'[c].pc = turn[c].pc /\ turn'[c].late = turn[c].late
               /\ turn'[c].queue = turn[c].queue /\ turn'[c].model = turn[c].model
    BY <1>1 DEF Tick, IInv, TypeOK, Turn
  <2>2. OnTime(m)' \subseteq OnTime(m)
    BY <2>1 DEF OnTime, Calling, Called
  <2>3. circuit'[m].token = circuit[m].token
    BY <1>1, TickRow DEF IInv
  <2>. QED
    BY <1>a, <2>2, <2>3 DEF HolderOf
<1>2. CASE ~Tick
  <2>1. PICK c \in Callers : StepOf(c)
    BY <1>2, CallerSteps DEF IInv
  <2>2. Same(m) \/ Returned(m, c)
    BY <1>a, <2>1 DEF StepOf, RowsOf, Taken
  <2>3. HolderOf(m)' \in {HolderOf(m), NoCaller}
    BY <2>2 DEF HolderOf, Same, Returned
  <2>4. OnTime(m)' \subseteq OnTime(m)
    <3>. SUFFICES ASSUME NEW d \in OnTime(m)' PROVE d \in OnTime(m)
      OBVIOUS
    <3>1. d \in Callers
      BY DEF OnTime
    <3>2. CASE d = c
      BY <1>a, <2>1, <3>2 DEF StepOf, HoldingsOf, Taken
    <3>3. CASE d # c
      BY <2>1, <3>1, <3>3 DEF StepOf, Alone, OnTime, Calling, Called
    <3>. QED
      BY <3>2, <3>3
  <2>. QED
    BY <2>3, <2>4
<1>. QED
  BY <1>1, <1>2

(* Only a call under way is left behind.                                   *)
LEMMA OrphanBorn ==
    ASSUME IInv, [Next]_vars, NEW m \in Models, orphan'[m] > 0
    PROVE  orphan[m] > 0 \/ OnTime(m) # {}
<1>1. CASE Tick
  <2>1. orphan'[m] = Before(orphan[m]) /\ orphan[m] \in Nat
    BY <1>1 DEF Tick, IInv, TypeOK
  <2>. QED
    BY <2>1 DEF Before
<1>2. CASE orphan' = orphan
  BY <1>2
<1>3. ASSUME NEW c \in Callers, Crash(c), orphan' # orphan
      PROVE  orphan[m] > 0 \/ OnTime(m) # {}
  <2>1. /\ Calling(c) /\ ~turn[c].late /\ c # Probe
        /\ orphan' = [orphan EXCEPT ![Called(c)] = turn[c].left]
    BY <1>3 DEF Crash
  <2>2. CASE m = Called(c)
    BY <2>1, <2>2 DEF OnTime
  <2>3. CASE m # Called(c)
    BY <2>1, <2>3 DEF IInv, TypeOK
  <2>. QED
    BY <2>2, <2>3
<1>. QED
  BY <1>1, <1>2, <1>3 DEF Next, vars, RoomStep, CallerStep, Arrive, SkipStale,
     Rearm, Begin, HeldEarly, Acquire, RefuseInFlight, RefuseCooldown,
     RefuseUnreadable, Settle, CallAnswers, CallFails, TryCandidate,
     SkipCandidate, CandidateFails, CandidateAnswers, Adopt, NoWinner, Fail,
     GoLate, ReadRow, StartProbe, SettleProbe

(* The lease of a call left behind stays where it is.                      *)
LEMMA OrphanCovered ==
    ASSUME IInv, [Next]_vars, NEW m \in Models, orphan[m] > 0
    PROVE  HolderOf(m)' = HolderOf(m)
<1>a. /\ orphan[m] \in Nat /\ circuit[m].until \in Nat
      /\ Lease \in Nat /\ Budget \in Nat /\ Budget < Lease
  BY TimesAssumption DEF IInv, TypeOK, Row
<1>b. /\ circuit[m].state = "in_flight" /\ ~Holds(circuit[m].token, m)
      /\ circuit[m].until >= orphan[m] + (Lease - Budget)
  BY DEF IInv, OrphanOK
<1>c. circuit[m].until > 1
  BY <1>a, <1>b
<1>1. CASE Tick
  <2>1. /\ circuit'[m].state = circuit[m].state /\ circuit'[m].token = circuit[m].token
        /\ circuit'[m].until >= circuit[m].until - 1
        /\ circuit'[m].until = Before(circuit[m].until)
    BY <1>1, TickRow DEF IInv
  <2>2. circuit'[m].until > 0
    BY <1>a, <1>c, <2>1 DEF Before
  <2>. QED
    BY <1>a, <1>b, <1>c, <2>1, <2>2 DEF HolderOf
<1>2. CASE ~Tick
  <2>1. PICK c \in Callers : StepOf(c)
    BY <1>2, CallerSteps DEF IInv
  <2>2. Same(m)
    BY <1>a, <1>b, <1>c, <2>1 DEF StepOf, RowsOf, Taken, Returned
  <2>. QED
    BY <2>2 DEF HolderOf, Same
<1>. QED
  BY <1>1, <1>2

LEMMA LeaseMoves ==
    ASSUME IInv, IInv', [Next]_vars, NEW m \in Models
    PROVE  \/ LeaseOf(m)' = LeaseOf(m)
           \/ <<LeaseOf(m), LeaseOf(m)'>> \in Serial!Moves
<1>. DEFINE h == HolderOf(m)
<1>a. NoCaller \notin Callers
  BY NamesAssumption
<1>b. Shaped(m, h)
  BY LeaseShape DEF LeasesShaped
<1>c. Shaped(m, h)'
  BY LeaseShapeNext DEF LeasesShaped
<1>1. CASE h = NoCaller /\ h' = NoCaller
  BY <1>1, <1>b, <1>c DEF Shaped
<1>2. CASE h = NoCaller /\ h' # NoCaller
  <2>1. ~(orphan'[m] > 0)
    BY <1>2, <1>b, OrphanBorn DEF Shaped
  <2>2. h' \in Callers /\ LeaseOf(m) = Serial!Free
        /\ LeaseOf(m)' \in {Serial!Held(h'), Serial!Used(h')}
    BY <1>2, <1>b, <1>c, <2>1 DEF Shaped
  <2>. QED
    BY <2>2 DEF Serial!Moves
<1>3. CASE h # NoCaller /\ h' = NoCaller
  <2>1. ~(orphan[m] > 0)
    BY <1>3, OrphanCovered
  <2>2. h \in Callers /\ LeaseOf(m)' = Serial!Free
        /\ LeaseOf(m) \in {Serial!Held(h), Serial!Used(h)}
    BY <1>3, <1>b, <1>c, <2>1 DEF Shaped
  <2>. QED
    BY <2>2 DEF Serial!Moves
<1>4. CASE h # NoCaller /\ h' # NoCaller
  <2>1. h' = h /\ OnTime(m)' \subseteq OnTime(m) /\ h \in Callers
    BY <1>4, <1>b, HolderStep DEF Shaped
  <2>2. orphan'[m] > 0 => orphan[m] > 0 \/ OnTime(m) # {}
    BY OrphanBorn
  <2>3. \/ /\ LeaseOf(m) = Serial!Held(h) /\ LeaseOf(m)' = Serial!Held(h)
        \/ /\ LeaseOf(m) = Serial!Used(h)
           /\ LeaseOf(m)' \in {Serial!Held(h), Serial!Used(h), Serial!Abandoned(h)}
        \/ /\ LeaseOf(m) = Serial!Abandoned(h)
           /\ LeaseOf(m)' \in {Serial!Held(h), Serial!Abandoned(h)}
    BY <1>4, <1>b, <1>c, <2>1, <2>2 DEF Shaped
  <2>. QED
    BY <2>1, <2>3 DEF Serial!Moves
<1>. QED
  BY <1>1, <1>2, <1>3, <1>4

(* The rows implement ModelLease: a lease is never passed on, serves one   *)
(* call of its holder, and outlasts it, whoever dies meanwhile.            *)
THEOREM LeaseRefinement == Spec => ImplementsLease
<1>. DEFINE leases == [m \in Models |-> LeaseOf(m)]
<1>1. Init => Serial!Init
  <2>. SUFFICES ASSUME Init, NEW m \in Models PROVE LeaseOf(m) = Serial!Free
    BY DEF Serial!Init
  <2>1. IInv
    BY InitInv
  <2>2. HolderOf(m) = NoCaller
    BY DEF Init, HolderOf, Closed
  <2>. QED
    BY <2>1, <2>2, LeaseShape DEF LeasesShaped, Shaped
<1>2. IInv /\ IInv' /\ [Next]_vars => [Serial!Next]_leases
  <2>. SUFFICES ASSUME IInv, IInv', [Next]_vars PROVE Serial!Next
    OBVIOUS
  <2>1. leases' \in [Models -> Serial!Leases]
    BY LeaseShapeNext DEF LeasesShaped, Shaped, Serial!Leases
  <2>2. leases' = [m \in Models |-> LeaseOf(m)']
    OBVIOUS
  <2>3. \A m \in Models : \/ LeaseOf(m)' = LeaseOf(m)
                          \/ <<LeaseOf(m), LeaseOf(m)'>> \in Serial!Moves
    BY LeaseMoves
  <2>. QED
    BY <2>1, <2>2, <2>3 DEF Serial!Next
<1>. QED
  BY Invariance, <1>1, <1>2, PTL DEF Spec, ImplementsLease, Serial!Spec

-----------------------------------------------------------------------------
(* Waiting messages.                                                       *)

(* A deferred message is due within its window, and only a message that     *)
(* arrived is deferred.                                                    *)
WindowOK ==
    \A r \in Rooms :
        /\ job[r].status = "absent" => job[r].class = "none"
        /\ job[r].status = "pending" /\ job[r].class \notin {"none", "context"}
             => job[r].due <= job[r].window

DeferClasses == Classes \cup {"none", "call_in_flight", "circuit_unavailable",
                              "unparsed_output", "context"}

(* Every way to let go of a message keeps it within its window.            *)
LEMMA DeferWindow ==
    ASSUME TypeOK, WindowOK, NEW r \in Rooms
    PROVE  /\ Close(r) => WindowOK'
           /\ Skip(r) => WindowOK'
           /\ \A n \in Nat : Park(r, "none", n) => WindowOK'
           /\ \A class \in DeferClasses, n \in Nat : Defer(r, class, n) => WindowOK'
<1>1. job \in [Rooms -> Job] /\ job[r] \in Job /\ job[r].window \in Nat
  BY DEF TypeOK, Job
<1>2. Close(r) => WindowOK'
  BY <1>1 DEF Close, WindowOK, Job
<1>3. ASSUME NEW class, NEW n, Park(r, class, n),
             class \notin {"none", "context"} => n <= job[r].window
      PROVE  WindowOK'
  BY <1>1, <1>3 DEF Park, WindowOK, Job
<1>4. Skip(r) => WindowOK'
  BY <1>2, <1>3 DEF Skip
<1>5. \A n \in Nat : Park(r, "none", n) => WindowOK'
  BY <1>3
<1>6. ASSUME NEW class \in DeferClasses, NEW n \in Nat, Defer(r, class, n) PROVE WindowOK'
  <2>1. Least(Most(n, MinDefer), job[r].window) <= job[r].window
    BY <1>1, TimesAssumption DEF Least, Most
  <2>. QED
    BY <1>2, <1>3, <1>6, <2>1 DEF Defer
<1>. QED
  BY <1>2, <1>4, <1>5, <1>6

LEMMA ResultWindow ==
    ASSUME TypeOK, WindowOK, NEW c \in Callers, NEW hold \in BOOLEAN,
           NEW class \in DeferClasses, NEW n \in Nat, Result(c, hold, class, n)
    PROVE  WindowOK'
<1>1. CASE c = Probe
  BY <1>1 DEF Result, WindowOK
<1>2. CASE c # Probe
  <2>. c \in Rooms
    BY <1>2 DEF Callers
  <2>. QED
    BY <1>2, DeferWindow DEF Result
<1>. QED
  BY <1>1, <1>2

LEMMA WindowStep == IInv /\ WindowOK /\ [Next]_vars => WindowOK'
<1>. SUFFICES ASSUME IInv, WindowOK, [Next]_vars PROVE WindowOK'
  OBVIOUS
<1>. USE DEF RoomStep, CallerStep
<1>a. /\ TypeOK /\ \A c \in Callers : turn[c] \in Turn /\ TurnOK(c)
      /\ \A m \in Models : circuit[m] \in Row
      /\ \A r \in Rooms : job[r] \in Job
      /\ job \in [Rooms -> Job]
      /\ Rooms \subseteq Callers /\ Primary \in Models
  BY NamesAssumption DEF IInv, TypeOK, Callers
<1>b. TypeOK'
  BY TypeStep DEF IInv
<1>1. CASE job' = job
  BY <1>1 DEF WindowOK
<1>2. ASSUME NEW r \in Rooms, Arrive(r) PROVE WindowOK'
  BY <1>a, <1>2 DEF Arrive, WindowOK, Job
<1>3. ASSUME NEW r \in Rooms, SkipStale(r) \/ HeldEarly(r) PROVE WindowOK'
  BY <1>a, <1>3, DeferWindow DEF SkipStale, HeldEarly
<1>4. ASSUME NEW r \in Rooms, Rearm(r) PROVE WindowOK'
  <2>1. circuit[Primary].until \in Nat /\ job[r].window \in Nat
    BY <1>a DEF Row, Job
  <2>2. Least(circuit[Primary].until, job[r].window) <= job[r].window
    BY <2>1 DEF Least
  <2>. QED
    BY <1>a, <1>4, <2>1, <2>2 DEF Rearm, WindowOK, Job
<1>5. ASSUME NEW r \in Rooms, Begin(r) PROVE WindowOK'
  BY <1>a, <1>5 DEF Begin, WindowOK, Job
<1>6. ASSUME NEW r \in Rooms, RefuseInFlight(r) PROVE WindowOK'
  <2>1. circuit[Primary].until \in Nat
    BY <1>a DEF Row
  <2>. QED
    BY <1>a, <1>6, <2>1, DeferWindow DEF RefuseInFlight, DeferClasses
<1>7. ASSUME NEW c \in Callers, NoWinner(c) PROVE WindowOK'
  <2>1. turn[c].why \in DeferClasses /\ turn[c].retry \in Nat
    BY <1>a DEF Turn, DeferClasses
  <2>2. turn[c].token # NoModel => job' = job
    BY <1>7 DEF NoWinner
  <2>3. CASE turn[c].token = NoModel
    <3>1. c \in Rooms
      BY <1>a, <1>7, <2>3 DEF NoWinner, TurnOK, Callers
    <3>2. Skip(c) \/ Defer(c, turn[c].why, turn[c].retry)
      BY <1>7, <2>3 DEF NoWinner
    <3>. QED
      BY <1>a, <2>1, <3>1, <3>2, DeferWindow
  <2>. QED
    BY <1>1, <2>2, <2>3
<1>8. ASSUME NEW c \in Callers, Fail(c) PROVE WindowOK'
  <2>1. PICK hold \in Hold(c), lease \in 0..Lease :
          \/ Result(c, hold, "circuit_unavailable", Most(Pause, lease))
          \/ Result(c, hold, turn[c].why, circuit'[turn[c].model].until)
    BY <1>8 DEF Fail
  <2>2. hold \in BOOLEAN /\ Most(Pause, lease) \in Nat
    BY <1>a, HoldType, TimesAssumption DEF Most
  <2>3. circuit'[turn[c].model].until \in Nat /\ turn[c].why \in DeferClasses
    BY <1>a, <1>b DEF TypeOK, Turn, Row, DeferClasses
  <2>. QED
    BY <1>a, <2>1, <2>2, <2>3, ResultWindow DEF DeferClasses
<1>9. ASSUME NEW r \in Rooms, Settle(r) PROVE WindowOK'
  <2>1. PICK hold \in Hold(r), lease \in 0..Lease :
          \/ Skip(r) \/ Close(r) \/ Defer(r, "unparsed_output", MinDefer)
          \/ Result(r, hold, "circuit_unavailable", lease)
    BY <1>9 DEF Settle
  <2>2. hold \in BOOLEAN /\ lease \in Nat /\ MinDefer \in Nat
    BY <1>a, HoldType, TimesAssumption
  <2>. QED
    BY <1>a, <2>1, <2>2, DeferWindow, ResultWindow DEF DeferClasses
<1>10. ASSUME NEW c \in Callers, Crash(c) PROVE WindowOK'
  <2>1. c # Probe => c \in Rooms
    BY DEF Callers
  <2>. QED
    BY <1>1, <1>a, <1>10, <2>1, DeferWindow, TimesAssumption DEF Crash
<1>11. CASE Tick
  <2>1. ASSUME NEW r \in Rooms
        PROVE  /\ job'[r].status = job[r].status /\ job'[r].class = job[r].class
               /\ job'[r].due = Before(job[r].due) /\ job'[r].window = Before(job[r].window)
               /\ job[r].due \in Nat /\ job[r].window \in Nat
    BY <1>a, <1>11 DEF Tick, Job
  <2>2. \A x, y \in Nat : x <= y => Before(x) <= Before(y)
    BY DEF Before
  <2>. QED
    BY <2>1, <2>2 DEF WindowOK
<1>. QED
  BY <1>1, <1>2, <1>3, <1>4, <1>5, <1>6, <1>7, <1>8, <1>9, <1>10, <1>11
     DEF Next, vars, Acquire, RefuseCooldown, RefuseUnreadable, CallAnswers, CallFails,
         TryCandidate, SkipCandidate, CandidateFails, CandidateAnswers, Adopt, GoLate,
         ReadRow, StartProbe, SettleProbe

(* A message that waits for the model never waits beyond its window.       *)
THEOREM WaitsBounded == Spec => []WaitsInWindow
<1>1. Init => WindowOK
  BY DEF Init, WindowOK
<1>2. WindowOK => WaitsInWindow
  BY DEF WindowOK, WaitsInWindow
<1>. QED
  BY <1>1, <1>2, WindowStep, Invariance, PTL DEF Spec

-----------------------------------------------------------------------------
(* Leases that are left behind.                                            *)

NoFaults == faults.errors + faults.crashes + faults.probes = 0

(* Without faults the probe never runs, a room's token is for the model it  *)
(* asks, and every lease is held by the room it was given to.              *)
Clean ==
    /\ turn[Probe].pc = "idle"
    /\ \A r \in Rooms : turn[r].token \in {NoModel, turn[r].model}
    /\ \A m \in Models : circuit[m].state = "in_flight" =>
         circuit[m].token \in Rooms /\ Holds(circuit[m].token, m)

(* A step of room r leaves every lease in flight with its holder.          *)
Keeps(r) ==
    /\ Alone(r)
    /\ turn'[r].token \in {NoModel, turn'[r].model}
    /\ \A m \in Models : circuit'[m].state = "in_flight" =>
         \/ circuit'[m].token = r /\ Holds(r, m)'
         \/ /\ circuit[m].state = "in_flight"
            /\ circuit'[m].token = circuit[m].token
            /\ circuit[m].token # r

LEMMA KeepsClean ==
    ASSUME TypeOK, Clean, NEW r \in Rooms, Keeps(r) PROVE Clean'
<1>1. turn'[Probe] = turn[Probe]
  BY NamesAssumption DEF Keeps, Alone, Callers
<1>2. ASSUME NEW d \in Rooms PROVE turn'[d].token \in {NoModel, turn'[d].model}
  BY DEF Clean, Keeps, Alone, Callers
<1>3. ASSUME NEW m \in Models, circuit'[m].state = "in_flight"
      PROVE  circuit'[m].token \in Rooms /\ Holds(circuit[m].token, m)'
  <2>1. CASE circuit'[m].token = r /\ Holds(r, m)'
    BY <2>1 DEF Holds
  <2>2. CASE /\ circuit[m].state = "in_flight"
             /\ circuit'[m].token = circuit[m].token
             /\ circuit[m].token # r
    <3>1. circuit[m].token \in Rooms /\ Holds(circuit[m].token, m)
      BY <2>2 DEF Clean
    <3>2. turn'[circuit[m].token] = turn[circuit[m].token]
      BY <2>2, <3>1 DEF Keeps, Alone, Callers
    <3>. QED
      BY <2>2, <3>1, <3>2 DEF Holds
  <2>. QED
    BY <1>3, <2>1, <2>2 DEF Keeps
<1>. QED
  BY <1>1, <1>2, <1>3 DEF Clean

(* A step that changes no row, and lets go of no lease.                    *)
LEMMA QuietKeeps ==
    ASSUME Clean, NEW r \in Rooms, Alone(r),
           turn'[r].token \in {NoModel, turn'[r].model},
           \A m \in Models : circuit'[m].state = circuit[m].state
                               /\ circuit'[m].token = circuit[m].token,
           \A m \in Models : Holds(r, m) => Holds(r, m)'
    PROVE  Keeps(r)
BY DEF Clean, Keeps

(* The end of a failed call gives the lease of its row back.               *)
LEMMA FailureKeeps ==
    ASSUME TypeOK, Clean, NEW r \in Rooms, NEW m \in Models,
           NEW class \in Classes, NEW hint \in Nat,
           FinishFailure(m, r, m, class, hint)
    PROVE  \A x \in Models : circuit'[x].state = "in_flight" =>
             /\ circuit[x].state = "in_flight"
             /\ circuit'[x].token = circuit[x].token
             /\ x = m => circuit[x].token # r
<1>1. r \in Callers
  BY DEF Callers
<1>2. /\ \A x \in Models \ {m} : circuit'[x] = circuit[x]
      /\ ~Matches(m, r, m) => circuit' = circuit
      /\ Matches(m, r, m) => circuit'[m].state = "open"
  BY <1>1, FinishFailureType
<1>. QED
  BY <1>2 DEF Matches

LEMMA CleanStep ==
    ASSUME IInv, Clean, NoFaults, [Next]_vars, NoFaults' PROVE Clean'
<1>. USE DEF RoomStep, CallerStep
<1>a. /\ TypeOK /\ \A c \in Callers : turn[c] \in Turn /\ TurnOK(c)
      /\ turn \in [Callers -> Turn] /\ circuit \in [Models -> Row]
      /\ Rooms \subseteq Callers /\ Probe \in Callers /\ faults \in Faults
      /\ Primary \in Models
      /\ \A r \in Rooms : r # Probe
  BY NamesAssumption DEF IInv, TypeOK, Callers
<1>b. ~DatabaseError
  BY <1>a DEF DatabaseError, NoFaults, Faults
<1>c. turn[Probe].pc = "idle"
  BY DEF Clean
<1>d. \A c \in Callers : turn[c].pc # "idle" => c \in Rooms
  BY <1>c DEF Callers
<1>e. \A r \in Rooms : EndTurn(r) =>
        /\ Alone(r) /\ turn'[r].token = NoModel
        /\ \A m \in Models : ~Holds(r, m)'
  BY <1>a, NamesAssumption DEF EndTurn, NoTurn, Alone, Holds
<1>f. ASSUME NEW r \in Rooms, turn[r].pc \in {"idle", "acquire"},
             NEW m \in Models
      PROVE  ~Holds(r, m)
  BY <1>a, <1>f, NamesAssumption DEF TurnOK, Holds
<1>1. CASE UNCHANGED <<circuit, turn>>
  BY <1>1 DEF Clean, Holds
<1>2. CASE Tick
  <2>1. ASSUME NEW c \in Callers
        PROVE  /\ turn'[c].pc = turn[c].pc /\ turn'[c].token = turn[c].token
               /\ turn'[c].queue = turn[c].queue
               /\ turn'[c].model = turn[c].model
    BY <1>2, <1>a DEF Tick, Turn
  <2>2. ASSUME NEW m \in Models
        PROVE  /\ circuit'[m].state = circuit[m].state
               /\ circuit'[m].token = circuit[m].token
    BY <1>2, <1>a, TickRow
  <2>. QED
    BY <1>a, <2>1, <2>2 DEF Clean, Holds
<1>3. CASE ReadRow
  <2>1. \A m \in Models : circuit'[m].state = circuit[m].state
                             /\ circuit'[m].token = circuit[m].token
    BY <1>3, <1>a DEF ReadRow
  <2>. QED
    BY <1>3, <2>1 DEF ReadRow, Clean, Holds
<1>4. ~StartProbe /\ ~SettleProbe /\ \A c \in Callers : ~Crash(c)
  <2>1. ~StartProbe
    BY <1>a DEF StartProbe, NoFaults, Faults
  <2>2. ~SettleProbe
    BY <1>c DEF SettleProbe
  <2>3. ASSUME NEW c \in Callers PROVE ~Crash(c)
    BY <1>a DEF Crash, NoFaults, Faults
  <2>. QED
    BY <2>1, <2>2, <2>3
<1>5. ASSUME NEW r \in Rooms, HeldEarly(r) \/ RefuseInFlight(r) PROVE Keeps(r)
  <2>1. EndTurn(r) /\ circuit' = circuit /\ turn[r].pc = "acquire"
    BY <1>5 DEF HeldEarly, RefuseInFlight
  <2>. QED
    BY <1>e, <1>f, <2>1, QuietKeeps
<1>6. ASSUME NEW r \in Rooms, Begin(r) PROVE Keeps(r)
  <2>1. /\ Alone(r) /\ turn'[r].token = turn[r].token /\ circuit' = circuit
        /\ turn'[r].model = turn[r].model /\ turn[r].pc = "idle"
    BY <1>6, <1>a DEF Begin, Alone
  <2>. QED
    BY <1>f, <2>1, QuietKeeps DEF Clean
<1>7. ASSUME NEW r \in Rooms, RefuseCooldown(r) \/ RefuseUnreadable(r)
      PROVE  Keeps(r)
  <2>1. RefuseCooldown(r)
    BY <1>7, <1>b DEF RefuseUnreadable
  <2>2. /\ Alone(r) /\ turn'[r].token = turn[r].token /\ circuit' = circuit
        /\ turn'[r].model = turn[r].model /\ turn[r].pc = "acquire"
    BY <1>a, <2>1 DEF RefuseCooldown, GoToChain, Alone
  <2>. QED
    BY <1>f, <2>2, QuietKeeps DEF Clean
<1>8. ASSUME NEW r \in Rooms, Acquire(r) PROVE Keeps(r)
  <2>1. /\ Alone(r) /\ turn'[r].pc \in {"run", "fail"} /\ turn'[r].token = Primary
        /\ turn'[r].model = turn[r].model /\ turn[r].pc = "acquire"
    BY <1>8, <1>a DEF Acquire, Alone
  <2>2. turn[r].model = Primary
    BY <1>a, <2>1 DEF TurnOK
  <2>3. \A m \in Models \ {Primary} : circuit'[m] = circuit[m]
    BY <1>8, <1>a DEF Acquire
  <2>4. circuit'[Primary].token = r
    BY <1>8, <1>a, LeasedType DEF Acquire
  <2>5. Holds(r, Primary)'
    BY <2>1 DEF Holds
  <2>. QED
    BY <1>f, <2>1, <2>2, <2>3, <2>4, <2>5 DEF Keeps, Clean
<1>9. ASSUME NEW c \in Callers, CallAnswers(c) PROVE c \in Rooms /\ Keeps(c)
  <2>1. c \in Rooms /\ turn[c].pc = "run" /\ circuit' = circuit
    BY <1>9, <1>d DEF CallAnswers
  <2>2. /\ Alone(c) /\ turn'[c].pc = "settle" /\ turn'[c].token = turn[c].token
        /\ turn'[c].model = turn[c].model
    BY <1>9, <1>a, <2>1 DEF CallAnswers, Answered, NoTurn, Alone
  <2>3. \A m \in Models : Holds(c, m) => Holds(c, m)'
    BY <2>1, <2>2 DEF Holds
  <2>. QED
    BY <2>1, <2>2, <2>3, QuietKeeps DEF Clean
<1>10. ASSUME NEW c \in Callers, CallFails(c) PROVE c \in Rooms /\ Keeps(c)
  <2>1. c \in Rooms /\ turn[c].pc = "run" /\ circuit' = circuit
    BY <1>10, <1>d DEF CallFails
  <2>2. /\ Alone(c) /\ turn'[c].pc \in {"chain", "fail"}
        /\ turn'[c].token = turn[c].token /\ turn'[c].model = turn[c].model
    BY <1>10, <1>a DEF CallFails, Alone
  <2>3. \A m \in Models : Holds(c, m) => Holds(c, m)'
    BY <2>1, <2>2 DEF Holds
  <2>. QED
    BY <2>1, <2>2, <2>3, QuietKeeps DEF Clean
<1>11. ASSUME NEW c \in Callers, SkipCandidate(c) PROVE c \in Rooms /\ Keeps(c)
  <2>1. c \in Rooms /\ turn[c].pc = "chain" /\ circuit' = circuit
    BY <1>11, <1>d DEF SkipCandidate, MayTry
  <2>2. /\ Alone(c) /\ turn'[c].pc = "chain"
        /\ turn'[c].token = turn[c].token /\ turn'[c].model = turn[c].model
    BY <1>11, <1>a, <2>1 DEF SkipCandidate, Alone
  <2>3. \A m \in Models : Holds(c, m) => Holds(c, m)'
    BY <2>1, <2>2 DEF Holds
  <2>. QED
    BY <2>1, <2>2, <2>3, QuietKeeps DEF Clean
<1>12. ASSUME NEW c \in Callers, TryCandidate(c) PROVE c \in Rooms /\ Keeps(c)
  <2>. DEFINE m == Candidate(c)
  <2>1. c \in Rooms /\ turn[c].pc = "chain" /\ m \in Models
    BY <1>12, <1>a, <1>d, CandidateType DEF TryCandidate, MayTry
  <2>2. /\ Alone(c) /\ turn'[c].pc = "try" /\ turn'[c].token = turn[c].token
        /\ turn'[c].queue = turn[c].queue /\ turn'[c].model = turn[c].model
    BY <1>12, <1>a DEF TryCandidate, Alone
  <2>3. circuit' = [circuit EXCEPT ![m] = Leased(m, c)]
    BY <1>12 DEF TryCandidate
  <2>4. circuit'[m].token = c /\ \A x \in Models \ {m} : circuit'[x] = circuit[x]
    BY <1>a, <2>1, <2>3, LeasedType
  <2>5. \A x \in Models : x = m \/ Holds(c, x) => Holds(c, x)'
    BY <2>1, <2>2 DEF Holds, Candidate
  <2>. HIDE DEF m
  <2>6. turn'[c].token \in {NoModel, turn'[c].model}
    BY <2>1, <2>2 DEF Clean
  <2>7. ASSUME NEW x \in Models, circuit'[x].state = "in_flight"
        PROVE  \/ circuit'[x].token = c /\ Holds(c, x)'
               \/ /\ circuit[x].state = "in_flight"
                  /\ circuit'[x].token = circuit[x].token
                  /\ circuit[x].token # c
    <3>1. CASE x = m
      BY <2>4, <2>5, <3>1
    <3>2. CASE x # m
      BY <2>4, <2>5, <2>7, <3>2 DEF Clean
    <3>. QED
      BY <3>1, <3>2
  <2>. QED
    BY <2>1, <2>2, <2>6, <2>7 DEF Keeps
<1>13. ASSUME NEW c \in Callers, CandidateFails(c) PROVE c \in Rooms /\ Keeps(c)
  <2>. DEFINE m == Candidate(c)
  <2>1. c \in Rooms /\ turn[c].pc = "try" /\ m \in Models
    BY <1>13, <1>a, <1>d, CandidateType DEF CandidateFails, TurnOK
  <2>2. /\ Alone(c) /\ turn'[c].pc = "chain" /\ turn'[c].token = turn[c].token
        /\ turn'[c].model = turn[c].model
    BY <1>13, <1>a DEF CandidateFails, Alone
  <2>3. PICK class \in Classes, hint \in Hints : FinishFailure(m, c, m, class, hint)
    BY <1>13, <1>b DEF CandidateFails
  <2>4. hint \in Nat
    BY ClassesAssumption
  <2>5. \A x \in Models : Holds(c, x) /\ x # m => Holds(c, x)'
    BY <2>1, <2>2 DEF Holds, Candidate
  <2>. HIDE DEF m
  <2>6. \A x \in Models : circuit'[x].state = "in_flight" =>
             /\ circuit[x].state = "in_flight"
             /\ circuit'[x].token = circuit[x].token
             /\ x = m => circuit[x].token # c
    BY <1>a, <2>1, <2>3, <2>4, FailureKeeps
  <2>7. turn'[c].token \in {NoModel, turn'[c].model}
    BY <2>1, <2>2 DEF Clean
  <2>8. ASSUME NEW x \in Models, circuit'[x].state = "in_flight"
        PROVE  \/ circuit'[x].token = c /\ Holds(c, x)'
               \/ /\ circuit[x].state = "in_flight"
                  /\ circuit'[x].token = circuit[x].token
                  /\ circuit[x].token # c
    <3>1. circuit[x].token = c => x # m /\ Holds(c, x)
      BY <2>6, <2>8 DEF Clean
    <3>. QED
      BY <2>5, <2>6, <2>8, <3>1
  <2>. QED
    BY <2>1, <2>2, <2>7, <2>8 DEF Keeps
<1>14. ASSUME NEW c \in Callers, CandidateAnswers(c) PROVE c \in Rooms /\ Keeps(c)
  <2>1. c \in Rooms /\ turn[c].pc = "try" /\ circuit' = circuit
    BY <1>14, <1>d DEF CandidateAnswers
  <2>2. CASE turn[c].token = NoModel
    <3>1. /\ Alone(c) /\ turn'[c].pc = "settle" /\ turn'[c].token = Candidate(c)
          /\ turn'[c].model = Candidate(c)
      BY <1>14, <1>a, <2>1, <2>2 DEF CandidateAnswers, Answered, NoTurn, Alone
    <3>2. \A m \in Models : Holds(c, m) => Holds(c, m)'
      BY <2>1, <2>2, <3>1, NamesAssumption DEF Holds, Candidate
    <3>. QED
      BY <2>1, <3>1, <3>2, QuietKeeps DEF Clean
  <2>3. CASE turn[c].token # NoModel
    <3>1. /\ Alone(c) /\ turn'[c].pc = "adopt" /\ turn'[c].token = turn[c].token
          /\ turn'[c].model = turn[c].model /\ turn'[c].queue = turn[c].queue
      BY <1>14, <1>a, <2>3 DEF CandidateAnswers, Alone
    <3>2. \A m \in Models : Holds(c, m) => Holds(c, m)'
      BY <2>1, <3>1 DEF Holds
    <3>. QED
      BY <2>1, <3>1, <3>2, QuietKeeps DEF Clean
  <2>. QED
    BY <2>2, <2>3
<1>15. ASSUME NEW c \in Callers, Adopt(c) PROVE c \in Rooms /\ Keeps(c)
  <2>. DEFINE m == turn[c].model
  <2>1. /\ c \in Rooms /\ turn[c].pc = "adopt" /\ m \in Models
        /\ turn[c].why \in Classes /\ turn[c].hint \in Nat
    BY <1>15, <1>a, <1>d DEF Adopt, TurnOK, Turn
  <2>2. /\ Alone(c) /\ turn'[c].pc = "settle" /\ turn'[c].token = Candidate(c)
        /\ turn'[c].model = Candidate(c)
    BY <1>15, <1>a, <2>1 DEF Adopt, Answered, NoTurn, Alone
  <2>3. FinishFailure(m, c, turn[c].token, turn[c].why, turn[c].hint)
    BY <1>15, <1>b DEF Adopt
  <2>4. turn[c].token \in {NoModel, m}
    BY <2>1 DEF Clean
  <2>. HIDE DEF m
  <2>5. ASSUME NEW x \in Models, circuit'[x].state = "in_flight"
        PROVE  /\ circuit[x].state = "in_flight"
               /\ circuit'[x].token = circuit[x].token
               /\ x = turn[c].token => circuit[x].token # c
    <3>1. CASE turn[c].token = m
      BY <1>a, <2>1, <2>3, <2>5, <3>1, FailureKeeps
    <3>2. CASE turn[c].token = NoModel
      BY <2>1, <2>3, <2>5, <3>2, NamesAssumption DEF FinishFailure, Matches
    <3>. QED
      BY <2>4, <3>1, <3>2
  <2>6. \A x \in Models : Holds(c, x) /\ x # turn[c].token => Holds(c, x)'
    BY <2>1, <2>2 DEF Holds, Candidate
  <2>. QED
    BY <2>1, <2>2, <2>5, <2>6 DEF Keeps, Clean
<1>16. ASSUME NEW c \in Callers, NoWinner(c) PROVE c \in Rooms /\ Keeps(c)
  <2>1. c \in Rooms /\ turn[c].pc = "chain" /\ circuit' = circuit
    BY <1>16, <1>d DEF NoWinner
  <2>2. CASE turn[c].token = NoModel
    <3>1. EndTurn(c)
      BY <1>16, <2>2 DEF NoWinner
    <3>2. \A m \in Models : ~Holds(c, m)
      BY <2>1, <2>2, NamesAssumption DEF Holds
    <3>. QED
      BY <1>e, <2>1, <3>1, <3>2, QuietKeeps
  <2>3. CASE turn[c].token # NoModel
    <3>1. PICK hold \in Hold(c) :
            turn' = [turn EXCEPT ![c].pc = "fail", ![c].held = hold]
      BY <1>16, <2>3 DEF NoWinner
    <3>2. /\ Alone(c) /\ turn'[c].pc = "fail" /\ turn'[c].token = turn[c].token
          /\ turn'[c].model = turn[c].model
      BY <1>a, <3>1 DEF Alone
    <3>3. \A m \in Models : Holds(c, m) => Holds(c, m)'
      BY <2>1, <3>2 DEF Holds
    <3>. QED
      BY <2>1, <3>2, <3>3, QuietKeeps DEF Clean
  <2>. QED
    BY <2>2, <2>3
<1>17. ASSUME NEW c \in Callers, Fail(c) PROVE c \in Rooms /\ Keeps(c)
  <2>. DEFINE m == turn[c].model
  <2>1. /\ c \in Rooms /\ turn[c].pc = "fail" /\ m \in Models
        /\ turn[c].why \in Classes /\ turn[c].hint \in Nat /\ EndTurn(c)
    BY <1>17, <1>a, <1>d DEF Fail, TurnOK, Turn
  <2>2. FinishFailure(m, c, turn[c].token, turn[c].why, turn[c].hint)
    BY <1>17, <1>b DEF Fail
  <2>3. turn[c].token \in {NoModel, m}
    BY <2>1 DEF Clean
  <2>4. \A x \in Models : Holds(c, x) => x = turn[c].token
    BY <2>1 DEF Holds
  <2>. HIDE DEF m
  <2>5. ASSUME NEW x \in Models, circuit'[x].state = "in_flight"
        PROVE  /\ circuit[x].state = "in_flight"
               /\ circuit'[x].token = circuit[x].token
               /\ circuit[x].token # c
    <3>1. CASE turn[c].token = m
      BY <1>a, <2>1, <2>2, <2>4, <2>5, <3>1, FailureKeeps DEF Clean
    <3>2. CASE turn[c].token = NoModel
      BY <2>1, <2>2, <2>4, <2>5, <3>2, NamesAssumption
         DEF FinishFailure, Matches, Clean
    <3>. QED
      BY <2>3, <3>1, <3>2
  <2>. QED
    BY <1>e, <2>1, <2>5 DEF Keeps
<1>18. ASSUME NEW r \in Rooms, Settle(r) PROVE Keeps(r)
  <2>. DEFINE m == turn[r].model
  <2>1. turn[r].pc = "settle" /\ m \in Models /\ EndTurn(r)
    BY <1>18, <1>a DEF Settle, Turn
  <2>2. \/ Matches(m, r, turn[r].token) /\ FinishSuccess(m)
        \/ ~Matches(m, r, turn[r].token) /\ circuit' = circuit
    BY <1>18, <1>b DEF Settle
  <2>3. \A x \in Models : Holds(r, x) => x = turn[r].token
    BY <2>1 DEF Holds
  <2>4. turn[r].token \in {NoModel, m}
    BY DEF Clean
  <2>. HIDE DEF m
  <2>5. ASSUME NEW x \in Models, circuit'[x].state = "in_flight"
        PROVE  /\ circuit[x].state = "in_flight"
               /\ circuit'[x].token = circuit[x].token
               /\ circuit[x].token # r
    <3>1. CASE FinishSuccess(m)
      <4>1. circuit' = [circuit EXCEPT ![m] = Closed] /\ Closed.state = "closed"
        BY <3>1 DEF FinishSuccess, Closed
      <4>2. x # m /\ circuit'[x] = circuit[x]
        BY <1>a, <2>1, <2>5, <4>1
      <4>. QED
        BY <2>3, <2>4, <2>5, <4>2, NamesAssumption DEF Clean
    <3>2. CASE ~Matches(m, r, turn[r].token) /\ circuit' = circuit
      BY <2>3, <2>4, <2>5, <3>2, NamesAssumption DEF Matches, Clean
    <3>. QED
      BY <2>2, <3>1, <3>2
  <2>. QED
    BY <1>e, <2>1, <2>5 DEF Keeps
<1>19. ASSUME NEW c \in Callers, GoLate(c) PROVE c \in Rooms /\ Keeps(c)
  <2>1. c \in Rooms /\ circuit' = circuit
    BY <1>19, <1>d DEF GoLate, Calling
  <2>2. /\ Alone(c) /\ turn'[c].pc = turn[c].pc /\ turn'[c].token = turn[c].token
        /\ turn'[c].model = turn[c].model /\ turn'[c].queue = turn[c].queue
    <3>1. turn' = [turn EXCEPT ![c] = [turn[c] EXCEPT !.late = TRUE]]
      BY <1>19, <1>a DEF GoLate
    <3>. QED
      BY <1>a, <3>1 DEF Alone, Turn
  <2>3. \A m \in Models : Holds(c, m) => Holds(c, m)'
    BY <2>2 DEF Holds
  <2>. QED
    BY <2>1, <2>2, <2>3, QuietKeeps DEF Clean
<1>20. ASSUME NEW r \in Rooms, Arrive(r) \/ SkipStale(r) \/ Rearm(r) PROVE Clean'
  BY <1>1, <1>20 DEF Arrive, SkipStale, Rearm
<1>. QED
  BY <1>1, <1>2, <1>3, <1>4, <1>5, <1>6, <1>7, <1>8, <1>9, <1>10, <1>11, <1>12,
     <1>13, <1>14, <1>15, <1>16, <1>17, <1>18, <1>19, <1>20, <1>a, KeepsClean
     DEF Next, vars

(* Faults are counted and never forgotten.                                 *)
LEMMA FaultsGrow ==
    ASSUME TypeOK, [Next]_vars, NoFaults' PROVE NoFaults
<1>. USE DEF RoomStep, CallerStep
<1>1. faults \in Faults
  BY DEF TypeOK
<1>2. \/ faults' = faults
      \/ faults' = [faults EXCEPT !.errors = @ + 1]
      \/ faults' = [faults EXCEPT !.crashes = @ + 1]
      \/ faults' = [faults EXCEPT !.probes = @ + 1]
      \/ faults' = [faults EXCEPT !.late = @ + 1]
  BY DEF Next, vars, Arrive, SkipStale, Rearm, Begin, HeldEarly, Acquire,
     RefuseInFlight, RefuseCooldown, RefuseUnreadable, Settle, CallAnswers,
     CallFails, TryCandidate, SkipCandidate, CandidateFails, CandidateAnswers,
     Adopt, NoWinner, Fail, Crash, GoLate, ReadRow, StartProbe, SettleProbe,
     Tick, DatabaseError
<1>. QED
  BY <1>1, <1>2 DEF NoFaults, Faults

(* Where nothing fails and no probe runs, no lease is left behind.         *)
THEOREM NothingLeaks == Spec => []NoLeak
<1>. DEFINE LeakOK == NoFaults => Clean
<1>1. Init => LeakOK
  BY NamesAssumption DEF Init, NoTurn, Closed, Clean, Callers
<1>2. IInv /\ LeakOK /\ [Next]_vars => LeakOK'
  <2>. SUFFICES ASSUME IInv, LeakOK, [Next]_vars, NoFaults' PROVE Clean'
    OBVIOUS
  <2>1. NoFaults /\ Clean
    BY FaultsGrow DEF IInv
  <2>. QED
    BY <2>1, CleanStep
<1>3. LeakOK => NoLeak
  BY DEF NoFaults, Clean, NoLeak
<1>. QED
  BY <1>1, <1>2, <1>3, Invariance, PTL DEF Spec

=============================================================================
