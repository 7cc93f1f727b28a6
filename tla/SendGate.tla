------------------------------ MODULE SendGate ------------------------------
(***************************************************************************)
(* The gate every automatic send passes: the guard that issues tickets     *)
(* (src/src/safety), the emergency breaker whose trips survive a restart   *)
(* (src/src/breaker), and the collector of learning samples that paces     *)
(* sends and caps a smoke run (src/src/live_sample).  A processing is the  *)
(* pipeline of src/src/durability: detect, authorize, generate, send,      *)
(* journal; its receipt is handed to the collector afterwards, possibly    *)
(* late or more than once.                                                 *)
(***************************************************************************)
EXTENDS Integers, FiniteSets, Sequences

CONSTANTS
    Rooms,               \* chat rooms
    Memo,                \* the owner's own memo chat
    Runs,                \* processings; each carries a trace id of its own
    Grades,              \* grades the instance uses, of fake, memo and smoke
    BOT_LOOP_ALTERNATIONS, BURST_WINDOW, BURST_MAX_COMMITS,
    SPIKE_WINDOW, SpikePercent, SMOKE_CAP,
    Base,                \* the base interval between sends
    InOrder,             \* receipts are applied in the order of the sends
    StoreFails,          \* the sample store may fail between two writes
    MaxTime              \* bound of the clock

ASSUME RoomsAssumption == Memo \in Rooms
ASSUME LimitsAssumption ==
    /\ {BOT_LOOP_ALTERNATIONS, BURST_WINDOW, BURST_MAX_COMMITS, SpikePercent,
        SMOKE_CAP, Base} \subseteq Nat
    /\ SPIKE_WINDOW \in Nat \ {0} /\ MaxTime \in Nat \ {0}
    /\ InOrder \in BOOLEAN /\ StoreFails \in BOOLEAN

Scopes == Rooms \cup {"all"}
Reasons == {"bot_loop", "send_burst", "error_spike"}
\* A verdict of the breaker; "none" is no trip.
Verdict == [reason : Reasons \cup {"none"}, scope : Scopes]
NoVerdict == [reason |-> "none", scope |-> "all"]
Steps == {"idle", "detected", "admitted", "cleared", "graded", "ticket", "reply", "sent", "closed"}
\* Past the breaker, and not sent yet.
Passed == {"cleared", "graded", "ticket", "reply"}

VARIABLES
    trip,        \* rows of breaker_trip, by scope: the reason
    verdict,     \* what the observers of a room are about to store
    alternation, \* breaker_observation: alternations of a room, a slow one
    outcome,     \* the most recent result codes, newest last
    run,         \* the processings: step, room, grade, send time
    applied,     \* live_sample: processings whose receipt is counted
    pacing,      \* send_pacing: next_allowed_at and the send it follows
    smoke,       \* smoke_confirmed of the collector, in memory
    now,         \* the logical clock
    passed,      \* history: processings past the breaker when a scope tripped
    lost,        \* history: counted processings whose pacing was not saved
    smokeSent,   \* history: smoke sends of the current smoke run
    calm         \* history: the smoke sends of the run did not overlap

vars == <<trip, verdict, alternation, outcome, run, applied, pacing, smoke, now,
          passed, lost, smokeSent, calm>>

Idle == [pc |-> "idle", room |-> Memo, grade |-> "fake", sent |-> 0]

TypeOK ==
    /\ trip \in [Scopes -> Reasons \cup {"none"}]
    /\ verdict \in [Rooms -> Verdict]
    /\ alternation \in [Rooms -> [run : 0..BOT_LOOP_ALTERNATIONS, slow : BOOLEAN]]
    /\ outcome \in Seq({"success", "failed"}) /\ Len(outcome) <= SPIKE_WINDOW
    /\ run \in [Runs -> [pc : Steps, room : Rooms, grade : Grades \cup {"fake"},
                         sent : 0..MaxTime]]
    /\ applied \subseteq Runs
    /\ pacing \in [next : 0..MaxTime + 2 * Base, of : Runs \cup {"none"}]
    /\ smoke \in Nat
    /\ now \in 1..MaxTime
    /\ passed \in [Scopes -> SUBSET Runs]
    /\ lost \subseteq Runs
    /\ smokeSent \subseteq Runs
    /\ calm \in BOOLEAN

Init ==
    /\ trip = [s \in Scopes |-> "none"]
    /\ verdict = [r \in Rooms |-> NoVerdict]
    /\ alternation = [r \in Rooms |-> [run |-> 0, slow |-> FALSE]]
    /\ outcome = <<>>
    /\ run = [p \in Runs |-> Idle]
    /\ applied = {}
    /\ pacing = [next |-> 0, of |-> "none"]
    /\ smoke = 0
    /\ now = 1
    /\ passed = [s \in Scopes |-> {}]
    /\ lost = {}
    /\ smokeSent = {}
    /\ calm = TRUE

-----------------------------------------------------------------------------
(* What the stores answer *)

Covers(s, r) == s = "all" \/ s = r

TrippedByRoom(r) == trip[r] # "none"
\* trip_for: some trip covers the room.
Tripped(r) == \E s \in Scopes : Covers(s, r) /\ trip[s] # "none"

\* Confirmed sends of the room within the burst window.
Commits(r) ==
    {p \in Runs : /\ run[p].pc \in {"sent", "closed"} /\ run[p].sent > 0
                  /\ run[p].room = r /\ now - run[p].sent <= BURST_WINDOW}

ErrorSpike ==
    /\ outcome # <<>>
    /\ 100 * Cardinality({i \in DOMAIN outcome : outcome[i] = "failed"})
         > SpikePercent * Len(outcome)

TightLoop(r) == alternation[r].run >= BOT_LOOP_ALTERNATIONS /\ ~alternation[r].slow

\* The verdict on what a room shows: the broadest condition first.
Evaluate(r) ==
    IF ErrorSpike THEN [reason |-> "error_spike", scope |-> "all"]
    ELSE IF Cardinality(Commits(r)) > BURST_MAX_COMMITS
         THEN [reason |-> "send_burst", scope |-> r]
    ELSE [reason |-> IF TightLoop(r) THEN "bot_loop" ELSE "none", scope |-> r]

GradeAllowsOneMore(g, r) == (g = "memo" => r = Memo) /\ (g = "smoke" => smoke <= SMOKE_CAP)

\* GradePolicy: memo goes to the memo chat only, a smoke run is capped.
GradeAllows(g, r) == (g = "memo" => r = Memo) /\ (g = "smoke" => smoke < SMOKE_CAP)

Real(g) == g # "fake"

\* No pacing row allows the send now; an unreadable one is a fence.
IntervalPassed == now >= pacing.next

\* The result codes the breaker is shown.
Outcome(o) == IF Len(outcome) = SPIKE_WINDOW THEN Append(Tail(outcome), o)
              ELSE Append(outcome, o)

-----------------------------------------------------------------------------
(* A processing *)

\* From the check of the grade to the receipt.
OnTheWay == {"graded", "ticket", "reply", "sent"}

At(p, pc) == run[p].pc = pc
Goto(p, pc) == run' = [run EXCEPT ![p].pc = pc]
Ended == [Idle EXCEPT !.pc = "closed"]
End(p) == run' = [run EXCEPT ![p] = Ended]    \* nothing was sent
Breaker == <<trip, verdict, passed, alternation>>
Samples == <<applied, pacing, smoke, now, lost, smokeSent>>
Stores == <<Breaker, Samples, calm>>

\* A message of a room is picked up, to be answered with a send of some grade.
Detect(p) ==
    /\ At(p, "idle")
    /\ \E r \in Rooms, g \in Grades :
          run' = [run EXCEPT ![p] = [@ EXCEPT !.pc = "detected", !.room = r, !.grade = g]]
    /\ UNCHANGED <<outcome, Stores>>

\* The collector's own screening: origin, grade, interval.  Fakes are not paced.
Admit(p) ==
    /\ At(p, "detected")
    /\ \/ /\ GradeAllows(run[p].grade, run[p].room)
          /\ Real(run[p].grade) => IntervalPassed
          /\ Goto(p, "admitted")
       \/ End(p)
    /\ UNCHANGED <<outcome, Stores>>

\* The guard asks the breaker first; what it answers is not asked again.
AskBreaker(p) ==
    /\ run[p].pc \in {"detected", "admitted"}
    /\ ~Tripped(run[p].room)
    /\ Goto(p, "cleared")
    /\ UNCHANGED <<outcome, Stores>>

\* Then the grade policy.
CheckGrade(p) ==
    /\ At(p, "cleared")
    /\ GradeAllows(run[p].grade, run[p].room)
    /\ Goto(p, "graded")
    /\ calm' = (calm /\ (run[p].grade = "smoke" =>
                  \A q \in Runs : run[q].grade = "smoke" => run[q].pc \notin OnTheWay))
    /\ UNCHANGED <<outcome, Breaker, Samples>>

\* Then the pacing and the safety gate, and mints a ticket if none objects.
Authorize(p) ==
    /\ At(p, "graded")
    /\ IntervalPassed
    /\ Goto(p, "ticket")
    /\ UNCHANGED <<outcome, Stores>>

\* Any fence: a condition above, an unreadable store, the owner's name, the
\* account, the switches of the safety gate.  The refusal is journalled.
Fence(p) ==
    /\ run[p].pc \in {"detected", "admitted", "cleared", "graded"}
    /\ End(p)
    /\ outcome' = Outcome("failed")
    /\ UNCHANGED Stores

\* The model answers, or the processing ends there.
Generate(p) ==
    /\ At(p, "ticket")
    /\ \/ Goto(p, "reply") /\ UNCHANGED outcome
       \/ End(p) /\ outcome' = Outcome("failed")
    /\ UNCHANGED Stores

\* The port sends under the ticket, however old: the guard is not asked again.
Send(p) ==
    /\ At(p, "reply")
    /\ run' = [run EXCEPT ![p].pc = "sent", ![p].sent = now]
    /\ outcome' = Outcome("success")
    /\ smokeSent' = IF run[p].grade = "smoke" THEN smokeSent \cup {p} ELSE smokeSent
    /\ UNCHANGED <<Breaker, applied, pacing, smoke, now, lost, calm>>

SendFails(p) ==
    /\ At(p, "reply")
    /\ End(p)
    /\ outcome' = Outcome("failed")
    /\ UNCHANGED Stores

-----------------------------------------------------------------------------
(* The collector *)

\* The receipts that may come next: any, or the oldest that is not counted.
Receivable(p) ==
    /\ At(p, "sent")
    /\ InOrder => \A q \in Runs : At(q, "sent") /\ q \notin applied => run[p].sent <= run[q].sent

\* INSERT OR IGNORE of the sample.
Record(p) == p \notin applied /\ applied' = applied \cup {p}

\* The next send is due after the base interval and a jitter of up to as much.
PlanPacing(p) ==
    \E jitter \in {0, Base} : pacing' = [next |-> run[p].sent + Base + jitter, of |-> p]

\* A first receipt is counted, a later one ignored.  A real send moves the
\* earliest time of the next.
OnCommit(p) ==
    /\ Receivable(p) /\ Record(p)
    /\ IF Real(run[p].grade) THEN PlanPacing(p) ELSE UNCHANGED pacing
    /\ smoke' = IF run[p].grade = "smoke" THEN smoke + 1 ELSE smoke
    /\ Goto(p, "closed")
    /\ UNCHANGED <<Breaker, outcome, now, lost, smokeSent, calm>>

\* save_pacing fails after the sample was inserted: the caller gets an error
\* and may come again, but the receipt is a duplicate from now on.
OnCommitFails(p) ==
    /\ StoreFails
    /\ Receivable(p) /\ Record(p)
    /\ Real(run[p].grade)
    /\ lost' = lost \cup {p}
    /\ UNCHANGED <<Breaker, outcome, run, pacing, smoke, now, smokeSent, calm>>

OnCommitReplanned(p) ==
    /\ Receivable(p) /\ p \in applied
    /\ PlanPacing(p)
    /\ Goto(p, "closed")
    /\ UNCHANGED <<Breaker, outcome, applied, smoke, now, lost, smokeSent, calm>>

\* The caller tries again: the count, the pacing and the run stay as they are.
OnCommitAgain(p) ==
    /\ Receivable(p) /\ p \in applied
    /\ Goto(p, "closed")
    /\ UNCHANGED <<outcome, Stores>>

BeginSmokeRun ==
    /\ smokeSent # {}
    /\ smoke' = 0
    /\ smokeSent' = {}
    /\ calm' = \A p \in Runs : run[p].grade = "smoke" => run[p].pc \notin OnTheWay \ {"sent"}
    /\ UNCHANGED <<Breaker, outcome, run, applied, pacing, now, lost>>

-----------------------------------------------------------------------------
(* The breaker *)

\* The flow records what a room shows: the partner answered the last send,
\* quickly or not, or a person spoke.
Alternate(r) ==
    /\ \E p \in Runs : run[p].room = r /\ run[p].sent > 0
    /\ alternation[r].run < BOT_LOOP_ALTERNATIONS
    /\ \E slow \in BOOLEAN :
          alternation' = [alternation EXCEPT ![r] =
                              [run |-> @.run + 1, slow |-> @.slow \/ slow]]
    /\ UNCHANGED <<trip, verdict, passed, outcome, run, Samples, calm>>

HumanSpeaks(r) ==
    /\ alternation[r].run > 0
    /\ alternation' = [alternation EXCEPT ![r] = [run |-> 0, slow |-> FALSE]]
    /\ UNCHANGED <<trip, verdict, passed, outcome, run, Samples, calm>>

\* An observation that trips, to be stored.
Observe(r) ==
    /\ verdict[r] = NoVerdict /\ Evaluate(r).reason # "none"
    /\ verdict' = [verdict EXCEPT ![r] = Evaluate(r)]
    /\ UNCHANGED <<trip, passed, alternation, outcome, run, Samples, calm>>

Observed(r) == verdict[r].reason # "none" /\ verdict' = [verdict EXCEPT ![r] = NoVerdict]

\* The trip is stored, over an older trip of its scope, whatever happened since
\* it was observed.
StoreTrip(r) ==
    LET s == verdict[r].scope
    IN  /\ Observed(r)
        /\ trip' = [trip EXCEPT ![s] = verdict[r].reason]
        /\ passed' = [passed EXCEPT ![s] =
                         IF trip[s] = "none" THEN {p \in Runs : run[p].pc \in Passed} ELSE @]
        /\ UNCHANGED <<alternation, outcome, run, Samples, calm>>

\* The store fails: observe answers with the error, and nothing has tripped.
StoreTripFails(r) ==
    /\ Observed(r)
    /\ UNCHANGED <<trip, passed, alternation, outcome, run, Samples, calm>>

\* The user releases a scope; "all" releases every trip.  The observations
\* are deleted by a second statement, which may fail.
Release(s) ==
    /\ trip[s] # "none"
    /\ trip' = [t \in Scopes |-> IF s = "all" \/ t = s THEN "none" ELSE trip[t]]
    /\ \/ alternation' = [r \in Rooms |-> IF Covers(s, r) THEN [run |-> 0, slow |-> FALSE]
                                          ELSE alternation[r]]
       \/ UNCHANGED alternation
    /\ UNCHANGED <<verdict, passed, outcome, run, Samples, calm>>

-----------------------------------------------------------------------------
Tick ==
    /\ now < MaxTime
    /\ now' = now + 1
    /\ UNCHANGED <<Breaker, outcome, run, applied, pacing, smoke, lost, smokeSent, calm>>

RestartForgets ==
    /\ \E p \in Runs : run[p].pc \notin {"idle", "closed"}
    /\ run' = [p \in Runs |-> IF At(p, "sent") THEN run[p] ELSE Ended]
    /\ trip' = [s \in Scopes |-> "none"] /\ verdict' = [r \in Rooms |-> NoVerdict]
    /\ smoke' = 0 /\ smokeSent' = {} /\ calm' = TRUE
    /\ UNCHANGED <<passed, alternation, outcome, applied, pacing, now, lost>>

\* The process ends and starts again.  Unsent processings and verdicts that are
\* not stored are gone; a sent one is in the journal, and its receipt may still
\* come.  A new process is a new smoke run.
Restart ==
    /\ \E p \in Runs : run[p].pc \notin {"idle", "closed"}
    /\ run' = [p \in Runs |-> IF run[p].pc \in {"idle", "sent", "closed"} THEN run[p] ELSE Ended]
    /\ verdict' = [r \in Rooms |-> NoVerdict]
    /\ smoke' = 0
    /\ smokeSent' = {}
    /\ calm' = TRUE
    /\ UNCHANGED <<trip, passed, alternation, outcome, applied, pacing, now, lost>>

Process(p) ==
    \/ Detect(p) \/ Admit(p) \/ AskBreaker(p) \/ CheckGrade(p) \/ Authorize(p) \/ Fence(p)
    \/ Generate(p) \/ Send(p) \/ SendFails(p)
    \/ OnCommit(p) \/ OnCommitFails(p) \/ OnCommitAgain(p)

Next ==
    \/ \E p \in Runs : Process(p)
    \/ \E r \in Rooms : Alternate(r) \/ HumanSpeaks(r)
    \/ \E r \in Rooms : Observe(r) \/ StoreTrip(r) \/ StoreTripFails(r)
    \/ \E s \in Scopes : Release(s)
    \/ BeginSmokeRun \/ Tick \/ Restart

Spec == Init /\ [][Next]_vars

-----------------------------------------------------------------------------
(* Properties *)

(* While a trip stands, nothing is on its way to a room it covers but what   *)
(* had passed the breaker when the trip was stored: after that no other      *)
(* processing gets a ticket for the room until the user releases it,         *)
(* whatever restarts, newer trips and trips of other scopes come between.    *)
(* How old a ticket looks says nothing: it is dated when it is minted, after *)
(* the breaker was asked, and a trip when it was observed, before it is      *)
(* stored.                                                                   *)
TicketsPrecedeTrips ==
    \A p \in Runs, s \in Scopes :
        run[p].pc \in Passed /\ Covers(s, run[p].room) /\ trip[s] # "none" => p \in passed[s]

(* A counted send holds the next one back for the base interval, unless its  *)
(* pacing could not be saved: a receipt of an earlier send does not move the *)
(* time of the next send back.                                               *)
CountedIsPaced ==
    \A p \in applied \ lost : Real(run[p].grade) => pacing.next >= run[p].sent + Base

(* A smoke run confirms no more sends than its cap, if its sends do not      *)
(* overlap and every one is counted.                                         *)
SmokeCapHolds ==
    calm /\ lost = {} => Cardinality(smokeSent) <= SMOKE_CAP

(* Only a release by the user removes a trip: what is observed, stored late, *)
(* failing or restarted never does.                                          *)
TripKept ==
    [][\A s \in Scopes : trip[s] # "none" /\ trip'[s] = "none" =>
          \E t \in Scopes : (t = "all" \/ t = s) /\ Release(t)]_vars

(* Stated by the collector: when the store fails, the count is unchanged.    *)
CountUnchangedOnFailure == lost = {}

(* Stated by the breaker: a release resets the alternation, burst and spike  *)
(* observations, so that what was released does not trip again at once.      *)
ReleaseResets ==
    [][\A s \in Scopes, r \in Rooms :
          Release(s) /\ Covers(s, r) /\ alternation'[r].run = 0
          => Evaluate(r)'.reason = "none"]_vars
=============================================================================
