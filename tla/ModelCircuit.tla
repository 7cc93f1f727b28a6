---------------------------- MODULE ModelCircuit ----------------------------
(***************************************************************************)
(* The account-wide model circuit breaker and the turns that go through    *)
(* it: scripts/auto-reply-worker.py.                                       *)
(*                                                                         *)
(* One database row per model says whether the model is free, leased to a  *)
(* call, or cooling down after failures.  The workers of all rooms, and    *)
(* the operator's capacity probe, share the rows; nothing else orders      *)
(* their calls.  A turn asks for the lease of the active model, calls it,  *)
(* and on failure or refusal walks a chain of fallback models, each with a *)
(* lease of its own.  A step below is one transaction on the rows, or the  *)
(* end of one provider call together with the transaction it leads to.     *)
(*                                                                         *)
(* Abstracted: times are countdowns (`until', `left', `due', ...) that     *)
(* Tick moves together; a lease token is the caller it was given to and    *)
(* the model it was given for; what is sent to and parsed from a model is  *)
(* its outcome.  The claim, supersession and sending of jobs are           *)
(* ReplyQueue's; here a room has one message that waits for the model.     *)
(* Rows that do not pass _valid_model_circuit_row are not modelled.        *)
(***************************************************************************)
EXTENDS Integers, Sequences, FiniteSets

CONSTANTS
    Rooms,          \* rooms, each with one worker
    Probe,          \* the caller of probe_model_capacity
    NoCaller,       \* lease_token IS NULL
    Models,         \* models with a circuit key
    NoModel,        \* "no lease token"
    Primary,        \* _active_reply_model(): always an on-device model
    ProbeRow,       \* REPLY_MODEL of a configuration that allows the probe
    Chain,          \* _reply_fallback_candidates(), in order
    Questions,      \* rooms whose message asks a question or shows an image
    Classes,        \* MODEL_CIRCUIT_FAILURE_CLASSES
    Resetting,      \* quota_exhausted and usage_limit: a hint is a known reset
    ChainOn,        \* classes of a failed call after which the runner in use
                    \* tries the chain (all of them for the MLX gateway)
    Base, Cap,      \* backoff of each class: first delay, longest delay
    Hints,          \* retry hints of the provider, 0: none
    Jitter,         \* longest jitter added to a delay
    Lease,          \* MODEL_CALL_LEASE_SECONDS
    Budget,         \* MODEL_GENERATION_BUDGET_SECONDS
    MinDefer,       \* MODEL_MIN_DEFER_SECONDS
    Pause,          \* retry after a database error
    Recovery,       \* STALE_JOB_TTL_SECONDS
    Window,         \* response_window_upper_seconds of a message
    MaxFailures,    \* MODEL_CIRCUIT_MAX_FAILURES
    MaxLate,        \* bound: calls that outlive the generation deadline
    MaxErrors,      \* bound: database errors
    MaxCrashes,     \* bound: deaths of a worker or of the probe
    MaxProbes       \* bound: capacity probes

Callers == Rooms \cup {Probe}

ASSUME NamesAssumption ==
    /\ Probe \notin Rooms
    /\ NoCaller \notin Callers
    /\ NoModel \notin Models
    /\ Primary \in Models
    /\ ProbeRow \in Models \ {Primary}
    /\ Chain \in Seq(Models \ {ProbeRow})
    /\ Questions \subseteq Rooms

ASSUME ClassesAssumption ==
    /\ {"usage_limit", "runner_timeout", "invalid_output"} \subseteq Classes
    /\ Classes \cap {"none", "call_in_flight", "circuit_unavailable",
                     "unparsed_output", "context"} = {}
    /\ Resetting \subseteq Classes
    /\ ChainOn \subseteq Classes
    /\ Base \in [Classes -> Nat \ {0}]
    /\ Cap \in [Classes -> Nat \ {0}]
    /\ Hints \subseteq Nat
    /\ Jitter \in Nat

(* A call ends before its lease does: 150 s and 180 s in the code.         *)
ASSUME TimesAssumption ==
    /\ Lease \in Nat
    /\ Budget \in Nat \ {0}
    /\ Budget < Lease
    /\ MinDefer \in Nat \ {0}
    /\ Pause \in Nat \ {0}
    /\ Recovery \in Nat
    /\ Window \in Nat
    /\ MaxFailures \in Nat \ {0}

ASSUME BoundsAssumption ==
    /\ MaxLate \in Nat
    /\ MaxErrors \in Nat
    /\ MaxCrashes \in Nat
    /\ MaxProbes \in Nat

VARIABLES
    circuit,    \* model_circuit_breaker: the row of each model
    turn,       \* the generate_reply call of each caller
    job,        \* the waiting message of each room
    orphan,     \* by model: time a call left behind by a dead caller may run
    faults      \* late calls, database errors, deaths and probes so far

vars == <<circuit, turn, job, orphan, faults>>

-----------------------------------------------------------------------------
(* State.                                                                  *)

Row == [state    : {"closed", "open", "in_flight"},     \* closed: no row
        class    : Classes \cup {"none"},
        failures : 0..MaxFailures,
        until    : Nat,                 \* open_until, from now
        token    : Callers \cup {NoCaller},
        seen     : BOOLEAN]             \* unchanged since the operator read it

Closed == [state |-> "closed", class |-> "none", failures |-> 0, until |-> 0,
           token |-> NoCaller, seen |-> FALSE]

Steps == {"idle", "acquire", "run", "chain", "try", "adopt", "settle", "fail"}

Turn == [pc       : Steps,
         model    : Models,                   \* active_model
         token    : Models \cup {NoModel},    \* the model lease_token is for
         why      : Classes \cup {"none", "circuit_unavailable"},
         hint     : Nat,                      \* retry_after_seconds
         retry    : Nat,                      \* retry_at of the refusal
         left     : Nat,                      \* until generation_deadline
         queue    : Seq(Models),              \* fallback candidates to try
         held     : BOOLEAN,                  \* held_reason
         late     : BOOLEAN,                  \* the call outlived its deadline
         answered : BOOLEAN]                  \* history: a call returned rc 0

NoTurn == [pc |-> "idle", model |-> Primary, token |-> NoModel, why |-> "none",
           hint |-> 0, retry |-> 0, left |-> 0, queue |-> <<>>, held |-> FALSE,
           late |-> FALSE, answered |-> FALSE]

Job == [status : {"absent", "pending", "processing", "done"},
        class  : Classes \cup {"none", "call_in_flight", "circuit_unavailable",
                               "unparsed_output", "context"},
        due    : Nat,
        window : Nat]                   \* time left of the response window

Faults == [late : Nat, errors : Nat, crashes : Nat, probes : Nat]

TypeOK ==
    /\ circuit \in [Models -> Row]
    /\ turn \in [Callers -> Turn]
    /\ job \in [Rooms -> Job]
    /\ orphan \in [Models -> Nat]
    /\ faults \in Faults

(* The probe's row was opened by a usage limit while its model was in use. *)
Init ==
    /\ circuit = [m \in Models |->
            IF m = ProbeRow
            THEN [Closed EXCEPT !.state = "open", !.class = "usage_limit",
                                !.failures = 1, !.until = Base["usage_limit"]]
            ELSE Closed]
    /\ turn = [c \in Callers |-> NoTurn]
    /\ job = [r \in Rooms |-> [status |-> "absent", class |-> "none",
                               due |-> 0, window |-> 0]]
    /\ orphan = [m \in Models |-> 0]
    /\ faults = [late |-> 0, errors |-> 0, crashes |-> 0, probes |-> 0]

-----------------------------------------------------------------------------
(* Circuit rows.                                                           *)

Least(x, y) == IF x <= y THEN x ELSE y
Most(x, y) == IF x >= y THEN x ELSE y

(* No row, or one whose open_until has passed, whatever its state.         *)
Available(m) == circuit[m].until = 0

LeasedBriefly(m, c) ==
    [circuit[m] EXCEPT !.state = "in_flight", !.until = Budget - 1,
                       !.token = c, !.seen = FALSE]

(* The upsert of _acquire_model_call_slot keeps class and failures.        *)
Leased(m, c) == [circuit[m] EXCEPT !.state = "in_flight", !.until = Lease,
                                   !.token = c, !.seen = FALSE]

MatchesAnyToken(m, c, t) == circuit[m].state = "in_flight"

(* Caller c finishes with a token it got for model t on the row of m.      *)
Matches(m, c, t) ==
    /\ circuit[m].state = "in_flight"
    /\ circuit[m].token = c
    /\ t = m

Doubling == <<1, 2, 4, 8, 16, 32, 64, 128, 256>>

Delay(class, failures, hint) ==
    LET backoff == Least(Cap[class],
                         Base[class] * Doubling[Least(failures, 9)])
    IN  IF hint = 0 THEN backoff
        ELSE IF class \in Resetting THEN Most(MinDefer, hint)
        ELSE Most(backoff, hint)

Opened(m, class, hint, jitter) ==
    LET failures == Least(MaxFailures, circuit[m].failures + 1)
    IN  [state |-> "open", class |-> class, failures |-> failures,
         until |-> Delay(class, failures, hint) + jitter,
         token |-> NoCaller, seen |-> FALSE]

FinishFailure(m, c, t, class, hint) ==
    IF Matches(m, c, t)
    THEN \E j \in 0..Jitter :
            circuit' = [circuit EXCEPT ![m] = Opened(m, class, hint, j)]
    ELSE UNCHANGED circuit

FinishSuccess(m) == circuit' = [circuit EXCEPT ![m] = Closed]

(* The model a caller's provider call runs on, if one is running.          *)
Calling(c) == turn[c].pc \in {"run", "try"}
Called(c) == IF turn[c].pc = "try" THEN Head(turn[c].queue) ELSE turn[c].model

(* The leases a turn still holds: its own and its candidate's.             *)
Holds(c, m) ==
    \/ turn[c].pc # "idle" /\ turn[c].token = m
    \/ turn[c].pc \in {"try", "adopt"} /\ Head(turn[c].queue) = m

DatabaseError ==
    /\ faults.errors < MaxErrors
    /\ faults' = [faults EXCEPT !.errors = @ + 1]

(* What turn_hold may say: sticky once true; the probe has no turn guard.  *)
Hold(c) == IF c = Probe THEN {FALSE}
           ELSE IF turn[c].held THEN {TRUE} ELSE BOOLEAN

-----------------------------------------------------------------------------
(* The waiting message of a room.                                          *)

Arrive(r) ==
    /\ job[r].status = "absent"
    /\ job' = [job EXCEPT ![r].status = "pending", ![r].window = Window]
    /\ UNCHANGED <<circuit, turn, orphan, faults>>

Close(r) == job' = [job EXCEPT ![r].status = "done", ![r].class = "none",
                               ![r].due = 0]

Park(r, class, due) ==
    job' = [job EXCEPT ![r].status = "pending", ![r].class = class,
                       ![r].due = due]

DeferToRetry(r, class, retry) ==
    IF job[r].window = 0
    THEN Close(r)
    ELSE Park(r, class, Most(retry, MinDefer))

DeferAlways(r, class, retry) == Park(r, class, MinDefer)

(* _model_defer_due_at: the earlier of the retry and the end of the         *)
(* window; a message already past it is given up as stale_backlog (or, if   *)
(* it is an image, answered by a stock phrase).                            *)
Defer(r, class, retry) ==
    IF job[r].window = 0
    THEN Close(r)
    ELSE Park(r, class, Least(Most(retry, MinDefer), job[r].window))

(* A held turn skips the message, or analyses it again a little later.     *)
Skip(r) == \/ Close(r)
           \/ job[r].window > 0 /\ Park(r, "context", MinDefer)

EndTurn(c) == turn' = [turn EXCEPT ![c] = NoTurn]

(* What a caller does with a result that asks for a deferral.              *)
Result(c, hold, class, retry) ==
    IF c = Probe THEN UNCHANGED job
    ELSE IF hold THEN Skip(c)
    ELSE Defer(c, class, retry)

(* A message past its window is skipped before the model is asked, unless  *)
(* it asks a question or shows an image.                                   *)
SkipStale(r) ==
    /\ job[r].status = "pending"
    /\ job[r].due = 0
    /\ job[r].window = 0
    /\ r \notin Questions
    /\ Close(r)
    /\ UNCHANGED <<circuit, turn, orphan, faults>>

(* _rearm_model_call_in_flight_jobs: a message parked behind another call   *)
(* becomes due when the model is available, and follows a cooldown.        *)
Rearm(r) ==
    /\ turn[r].pc = "idle"
    /\ job[r].status = "pending"
    /\ job[r].class = "call_in_flight"
    /\ Available(Primary) \/ circuit[Primary].state = "open"
    /\ LET due == IF Available(Primary) THEN 0
                  ELSE Least(circuit[Primary].until, job[r].window)
       IN  /\ job[r].due # due
           /\ job' = [job EXCEPT ![r].due = due]
    /\ UNCHANGED <<circuit, turn, orphan, faults>>

-----------------------------------------------------------------------------
(* A turn: generate_reply.                                                 *)

Begin(r) ==
    /\ turn[r].pc = "idle"
    /\ job[r].status = "pending"
    /\ job[r].due = 0
    /\ job[r].window > 0 \/ r \in Questions
    /\ turn' = [turn EXCEPT ![r].pc = "acquire", ![r].left = Budget]
    /\ job' = [job EXCEPT ![r].status = "processing", ![r].class = "none"]
    /\ UNCHANGED <<circuit, orphan, faults>>

(* turn_hold before the lease is asked for, or after it was refused.       *)
HeldEarly(r) ==
    /\ turn[r].pc = "acquire"
    /\ EndTurn(r)
    /\ Skip(r)
    /\ UNCHANGED <<circuit, orphan, faults>>

(* The lease is granted; the call starts if any of the budget is left.     *)
Acquire(r) ==
    /\ turn[r].pc = "acquire"
    /\ Available(Primary)
    /\ circuit' = [circuit EXCEPT ![Primary] = Leased(Primary, r)]
    /\ turn' = [turn EXCEPT ![r].token = Primary,
            ![r].pc = IF turn[r].left > 0 THEN "run" ELSE "fail",
            ![r].why = IF turn[r].left > 0 THEN "none" ELSE "runner_timeout"]
    /\ UNCHANGED <<job, orphan, faults>>

(* Refused because another call is in flight: wait for it, no fallback.    *)
RefuseInFlight(r) ==
    /\ turn[r].pc = "acquire"
    /\ ~Available(Primary)
    /\ circuit[Primary].state = "in_flight"
    /\ EndTurn(r)
    /\ Defer(r, "call_in_flight", circuit[Primary].until)
    /\ UNCHANGED <<circuit, orphan, faults>>

(* Refused because of a cooldown, or because the rows cannot be read: the   *)
(* turn goes to the fallback chain without a lease.                        *)
GoToChain(r, why, retry) ==
    turn' = [turn EXCEPT ![r].pc = "chain", ![r].queue = Chain,
                         ![r].why = why, ![r].retry = retry]

RefuseCooldown(r) ==
    /\ turn[r].pc = "acquire"
    /\ ~Available(Primary)
    /\ circuit[Primary].state = "open"
    /\ GoToChain(r, circuit[Primary].class, circuit[Primary].until)
    /\ UNCHANGED <<circuit, job, orphan, faults>>

RefuseUnreadable(r) ==
    /\ turn[r].pc = "acquire"
    /\ DatabaseError
    /\ GoToChain(r, "circuit_unavailable", Pause)
    /\ UNCHANGED <<circuit, job, orphan>>

(* What is left of a turn once a model has answered: the model and its      *)
(* lease.                                                                  *)
Answered(c, token) ==
    [NoTurn EXCEPT !.pc = "settle", !.answered = TRUE, !.token = token,
        !.model = IF turn[c].pc = "run" THEN turn[c].model ELSE token,
        !.held = turn[c].held]

(* The active model answers, or fails.                                     *)
CallAnswers(c) ==
    /\ turn[c].pc = "run"
    /\ turn' = [turn EXCEPT ![c] = Answered(c, turn[c].token)]
    /\ UNCHANGED <<circuit, job, orphan, faults>>

CallFails(c) ==
    /\ turn[c].pc = "run"
    /\ \E class \in Classes, hint \in Hints :
         turn' = [turn EXCEPT ![c].why = class, ![c].hint = hint,
                ![c].pc = IF class \in ChainOn THEN "chain" ELSE "fail",
                ![c].queue = IF class \in ChainOn THEN Chain ELSE <<>>,
                ![c].late = FALSE]
    /\ UNCHANGED <<circuit, job, orphan, faults>>

-----------------------------------------------------------------------------
(* The fallback chain: _model_fallback_chain.                              *)

Candidate(c) == Head(turn[c].queue)

(* turn_guard and the budget are asked before every candidate.             *)
MayTry(c) ==
    /\ turn[c].pc = "chain"
    /\ turn[c].queue # <<>>
    /\ turn[c].left >= MinDefer
    /\ FALSE \in Hold(c)

TryCandidate(c) ==
    /\ MayTry(c)
    /\ Candidate(c) # turn[c].model
    /\ Available(Candidate(c))
    /\ circuit' = [circuit EXCEPT ![Candidate(c)] = Leased(Candidate(c), c)]
    /\ turn' = [turn EXCEPT ![c].pc = "try"]
    /\ UNCHANGED <<job, orphan, faults>>

SkipCandidate(c) ==
    /\ MayTry(c)
    /\ \/ /\ Candidate(c) = turn[c].model \/ ~Available(Candidate(c))
          /\ UNCHANGED faults
       \/ /\ Candidate(c) # turn[c].model
          /\ DatabaseError
    /\ turn' = [turn EXCEPT ![c].queue = Tail(@)]
    /\ UNCHANGED <<circuit, job, orphan>>

(* A failed candidate gives its own lease back before the next one starts. *)
CandidateFails(c) ==
    /\ turn[c].pc = "try"
    /\ turn' = [turn EXCEPT ![c].pc = "chain", ![c].queue = Tail(@),
                            ![c].late = FALSE]
    /\ \/ /\ \E class \in Classes, hint \in Hints :
                FinishFailure(Candidate(c), c, Candidate(c), class, hint)
          /\ UNCHANGED faults
       \/ DatabaseError /\ UNCHANGED circuit
    /\ UNCHANGED <<job, orphan>>

CandidateAnswersUnadopted(c) ==
    /\ turn[c].pc = "try"
    /\ turn' = IF turn[c].token = NoModel
               THEN [turn EXCEPT ![c].pc = "run", ![c].answered = TRUE,
                        ![c].late = FALSE]
               ELSE [turn EXCEPT ![c].pc = "adopt", ![c].answered = TRUE,
                        ![c].late = FALSE]
    /\ UNCHANGED <<circuit, job, orphan, faults>>

(* The winner's lease becomes the turn's own; a turn that failed on the    *)
(* active model has that model's lease to give back first.                 *)
CandidateAnswers(c) ==
    /\ turn[c].pc = "try"
    /\ turn' = IF turn[c].token = NoModel
               THEN [turn EXCEPT ![c] = Answered(c, Candidate(c))]
               ELSE [turn EXCEPT ![c].pc = "adopt", ![c].answered = TRUE,
                        ![c].late = FALSE]
    /\ UNCHANGED <<circuit, job, orphan, faults>>

AdoptUnclosed(c) ==
    /\ turn[c].pc = "adopt"
    /\ turn' = [turn EXCEPT ![c] = Answered(c, Candidate(c))]
    /\ UNCHANGED <<circuit, job, orphan, faults>>

Adopt(c) ==
    /\ turn[c].pc = "adopt"
    /\ turn' = [turn EXCEPT ![c] = Answered(c, Candidate(c))]
    /\ \/ /\ FinishFailure(turn[c].model, c, turn[c].token, turn[c].why,
                           turn[c].hint)
          /\ UNCHANGED faults
       \/ DatabaseError /\ UNCHANGED circuit
    /\ UNCHANGED <<job, orphan>>

(* No candidate answered: the chain is used up, the budget is spent, or    *)
(* the room has moved on.                                                  *)
NoWinner(c) ==
    /\ turn[c].pc = "chain"
    /\ \E hold \in Hold(c) :
         /\ turn[c].queue = <<>> \/ turn[c].left < MinDefer \/ hold
         /\ IF turn[c].token # NoModel
            THEN /\ turn' = [turn EXCEPT ![c].pc = "fail", ![c].held = hold]
                 /\ UNCHANGED job
            ELSE /\ EndTurn(c)
                 /\ \/ hold /\ Skip(c)
                    \/ Defer(c, turn[c].why, turn[c].retry)
    /\ UNCHANGED <<circuit, orphan, faults>>

-----------------------------------------------------------------------------
(* The end of a turn.                                                      *)

(* fail_model_call: the failure is recorded in the row, and the message    *)
(* waits for the end of the cooldown.  A row that is another's by now is    *)
(* left alone.  Without an answer from the rows the message waits at least  *)
(* for Pause, and for what is left of the lease.                           *)
Fail(c) ==
    /\ turn[c].pc = "fail"
    /\ \E hold \in Hold(c), lease \in 0..Lease :
         LET m == turn[c].model
             unreadable == Result(c, hold, "circuit_unavailable",
                                  Most(Pause, lease))
         IN  \/ /\ FinishFailure(m, c, turn[c].token, turn[c].why, turn[c].hint)
                /\ IF circuit'[m].state = "closed" THEN unreadable
                   ELSE Result(c, hold, turn[c].why, circuit'[m].until)
                /\ UNCHANGED faults
             \/ /\ DatabaseError
                /\ unreadable
                /\ UNCHANGED circuit
    /\ EndTurn(c)
    /\ UNCHANGED orphan

(* A turn with an answer gives the lease back as a success, whether the     *)
(* answer is a decision, is unusable, or comes too late for the room.  A    *)
(* lease that was lost costs a message that is not held its answer.        *)
Settle(r) ==
    /\ turn[r].pc = "settle"
    /\ \E hold \in Hold(r), lease \in 0..Lease :
         \/ /\ Matches(turn[r].model, r, turn[r].token)
            /\ FinishSuccess(turn[r].model)
            /\ \/ hold /\ Skip(r)
               \/ ~hold /\ Close(r)
               \/ ~hold /\ Defer(r, "unparsed_output", MinDefer)
            /\ UNCHANGED faults
         \/ /\ \/ ~Matches(turn[r].model, r, turn[r].token) /\ UNCHANGED faults
               \/ DatabaseError
            /\ Result(r, hold, "circuit_unavailable", lease)
            /\ UNCHANGED circuit
    /\ EndTurn(r)
    /\ UNCHANGED orphan

-----------------------------------------------------------------------------
(* The operator's capacity probe: probe_model_capacity.                    *)

(* The operator reads the row and types its values in.                     *)
ReadRow ==
    /\ faults.probes < MaxProbes
    /\ turn[Probe].pc = "idle"
    /\ circuit[ProbeRow].state = "open"
    /\ circuit[ProbeRow].class = "usage_limit"
    /\ ~circuit[ProbeRow].seen
    /\ circuit' = [circuit EXCEPT ![ProbeRow].seen = TRUE]
    /\ UNCHANGED <<turn, job, orphan, faults>>

StartProbeUnread ==
    /\ faults.probes < MaxProbes
    /\ turn[Probe].pc = "idle"
    /\ circuit[ProbeRow].state = "open"
    /\ circuit' = [circuit EXCEPT ![ProbeRow] = Leased(ProbeRow, Probe)]
    /\ turn' = [turn EXCEPT ![Probe].pc = "run", ![Probe].token = ProbeRow,
                            ![Probe].left = Budget]
    /\ faults' = [faults EXCEPT !.probes = @ + 1]
    /\ UNCHANGED <<job, orphan>>

(* Exactly that row is leased, in the middle of its cooldown; the call then *)
(* goes to the active model, as any other turn's does.                     *)
StartProbe ==
    /\ faults.probes < MaxProbes
    /\ turn[Probe].pc = "idle"
    /\ circuit[ProbeRow].state = "open"
    /\ circuit[ProbeRow].class = "usage_limit"
    /\ circuit[ProbeRow].seen
    /\ circuit' = [circuit EXCEPT ![ProbeRow] = Leased(ProbeRow, Probe)]
    /\ turn' = [turn EXCEPT ![Probe].pc = "run", ![Probe].token = ProbeRow,
                            ![Probe].left = Budget]
    /\ faults' = [faults EXCEPT !.probes = @ + 1]
    /\ UNCHANGED <<job, orphan>>

(* Only the exact synthetic answer counts; anything else is a failure.     *)
SettleProbe ==
    /\ turn[Probe].pc = "settle"
    /\ \/ /\ EndTurn(Probe)
          /\ \/ /\ Matches(turn[Probe].model, Probe, turn[Probe].token)
                /\ FinishSuccess(turn[Probe].model)
                /\ UNCHANGED faults
             \/ /\ ~Matches(turn[Probe].model, Probe, turn[Probe].token)
                /\ UNCHANGED <<circuit, faults>>
             \/ DatabaseError /\ UNCHANGED circuit
       \/ /\ turn' = [turn EXCEPT ![Probe].pc = "fail",
                                  ![Probe].why = "invalid_output",
                                  ![Probe].hint = 0]
          /\ UNCHANGED <<circuit, faults>>
    /\ UNCHANGED <<job, orphan>>

-----------------------------------------------------------------------------
(* Deaths, calls that overrun, and time.                                   *)

(* The caller dies.  Its lease stays; a runner process of its own may go    *)
(* on with the call until the deadline it was started with; recovery makes  *)
(* the message pending again once its row is old enough.                   *)
Crash(c) ==
    /\ faults.crashes < MaxCrashes
    /\ faults' = [faults EXCEPT !.crashes = @ + 1]
    /\ turn[c].pc # "idle"
    /\ EndTurn(c)
    /\ \/ /\ Calling(c) /\ ~turn[c].late /\ c # Probe
          /\ orphan' = [orphan EXCEPT ![Called(c)] = turn[c].left]
       \/ UNCHANGED orphan
    /\ IF c = Probe THEN UNCHANGED job ELSE Park(c, "none", Recovery)
    /\ UNCHANGED circuit

(* The read timeout of a call to the gateway bounds each read, not their    *)
(* sum: a slow answer goes on after the generation deadline.               *)
GoLate(c) ==
    /\ faults.late < MaxLate
    /\ Calling(c)
    /\ turn[c].left = 0
    /\ ~turn[c].late
    /\ faults' = [faults EXCEPT !.late = @ + 1]
    /\ turn' = [turn EXCEPT ![c].late = TRUE]
    /\ UNCHANGED <<circuit, job, orphan>>

Before(t) == IF t = 0 THEN 0 ELSE t - 1

(* Time passes, but not beyond the deadline of a call that keeps it.       *)
Tick ==
    /\ \A c \in Callers : Calling(c) /\ ~turn[c].late => turn[c].left > 0
    /\ circuit' = [m \in Models |->
            [circuit[m] EXCEPT !.until = Before(@)]]
    /\ turn' = [c \in Callers |->
            [turn[c] EXCEPT !.left = Before(@), !.retry = Before(@)]]
    /\ job' = [r \in Rooms |->
            [job[r] EXCEPT !.due = Before(@), !.window = Before(@)]]
    /\ orphan' = [m \in Models |-> Before(orphan[m])]
    /\ UNCHANGED faults

-----------------------------------------------------------------------------
RoomStep(r) ==
    \/ SkipStale(r) \/ Rearm(r) \/ Begin(r) \/ HeldEarly(r) \/ Acquire(r)
    \/ RefuseInFlight(r) \/ RefuseCooldown(r) \/ RefuseUnreadable(r)
    \/ Settle(r)

CallerStep(c) ==
    \/ CallAnswers(c) \/ CallFails(c) \/ TryCandidate(c) \/ SkipCandidate(c)
    \/ CandidateFails(c) \/ CandidateAnswers(c) \/ Adopt(c) \/ NoWinner(c)
    \/ Fail(c)

Next ==
    \/ \E r \in Rooms : Arrive(r) \/ RoomStep(r)
    \/ \E c \in Callers : CallerStep(c) \/ Crash(c) \/ GoLate(c)
    \/ ReadRow \/ StartProbe \/ SettleProbe
    \/ Tick

Spec == Init /\ [][Next]_vars

(* The workers and the probe run on, and time passes.                      *)
Fairness ==
    /\ \A r \in Rooms : WF_vars(RoomStep(r) \/ CallerStep(r))
    /\ WF_vars(CallerStep(Probe) \/ SettleProbe)
    /\ WF_vars(Tick)

FairSpec == Spec /\ Fairness

-----------------------------------------------------------------------------
(* Properties.                                                             *)

(* The callers whose call on m is within its generation budget; the         *)
(* probe's own call, which holds the lease of another row, is left out.    *)
OnTime(m) == {c \in Callers : /\ Calling(c) /\ Called(c) = m /\ ~turn[c].late
                              /\ ~(c = Probe /\ turn[c].pc = "run")}

(* The lease serializes the calls of a model across rooms, crashes and      *)
(* restarts: as long as calls keep their deadline, no two run at once, and *)
(* none runs beside what a dead caller left behind.                        *)
OneCall ==
    \A m \in Models :
        /\ \A c, d \in OnTime(m) : c = d
        /\ orphan[m] > 0 => OnTime(m) = {}

(* The lease of a model while it lasts, and the calls under way: those on  *)
(* time, and that of a dead caller.                                        *)
HolderOf(m) ==
    IF circuit[m].state = "in_flight" /\ circuit[m].until > 0
    THEN circuit[m].token ELSE NoCaller

LeaseOf(m) ==
    [holder |-> HolderOf(m),
     calls  |-> OnTime(m) \cup {n \in {NoCaller} : orphan[m] > 0}]

Serial == INSTANCE ModelLease WITH Nobody <- NoCaller,
                                   lease <- [m \in Models |-> LeaseOf(m)]

(* The rows implement ModelLease: through deaths, restarts, database       *)
(* errors and fallbacks a lease serves one call, of the caller it was      *)
(* given to, and is neither passed on nor ended while that call goes on.   *)
ImplementsLease == Serial!Spec

(* A lease with time left is ended only by a turn that still holds it: a    *)
(* late, restarted or other caller never ends it and never takes it.       *)
LeaseKept ==
    [][\A m \in Models :
        circuit[m].state = "in_flight" /\ circuit[m].until > 0
            /\ circuit'[m].token # circuit[m].token
          => Holds(circuit[m].token, m)]_vars

(* A cooldown in one room holds for all: nobody leases the model or cuts    *)
(* the cooldown short, except the probe that read exactly that row.        *)
CooldownKept ==
    [][\A m \in Models :
        circuit[m].state = "open" /\ circuit[m].until > 0
          => \/ /\ circuit'[m].state = "open"
                /\ circuit'[m].until >= circuit[m].until - 1
             \/ m = ProbeRow /\ circuit[m].seen]_vars

(* The count of consecutive failures survives expired leases, crashes and   *)
(* late finishes: only a turn that got an answer resets it.                *)
FailuresKept ==
    [][\A m \in Models :
        circuit'[m].failures < circuit[m].failures
          => LET c == circuit[m].token
             IN  c \in Callers /\ turn[c].answered /\ turn[c].model = m]_vars

(* Without database errors, deaths and probes no lease is left behind: the  *)
(* row of a model in flight belongs to a turn that will give it back.      *)
NoLeak ==
    \A m \in Models :
        circuit[m].state = "in_flight"
            /\ faults.errors + faults.crashes + faults.probes = 0
          => Holds(circuit[m].token, m)

(* A turn that has an answer calls no further model: the provider's quota   *)
(* is not spent twice on one message.                                      *)
OneAnswer == \A c \in Callers : turn[c].answered => ~Calling(c) /\ turn[c].pc # "chain"

(* A message that waits for the model never waits beyond its window.       *)
WaitsInWindow ==
    \A r \in Rooms :
        job[r].status = "pending" /\ job[r].class \notin {"none", "context"}
          => job[r].due <= job[r].window

(* What the supervision guide says; see the README for what the code does. *)

(* "Every model invocation first acquires a short durable lease": a call   *)
(* holds the lease of the model it runs on.                                *)
CallsAreLeased ==
    \A c \in Callers : Calling(c) /\ ~turn[c].late => Holds(c, Called(c))

(* "A transactional lease therefore serializes probes across rooms": no    *)
(* two calls of a model run at once, however long they take.               *)
CallsSerialized ==
    \A c, d \in Callers :
        Calling(c) /\ Calling(d) /\ Called(c) = Called(d) => c = d

(* "There is deliberately no model fallback": rooms call the active model. *)
PrimaryOnly == \A r \in Rooms : Calling(r) => Called(r) = Primary

(* "Reaching the stale deadline converts the job to stale_backlog, with no *)
(* model call": no turn begins for a deferred message past its window.     *)
StaleIsGivenUp ==
    [][\A r \in Rooms :
        job[r].status = "pending" /\ job[r].class # "none"
            /\ job[r].window = 0
          => turn'[r].pc = "idle"]_vars

(* Every message is answered or given up.                                  *)
EventuallyDone ==
    \A r \in Rooms : job[r].status = "pending" ~> job[r].status = "done"
=============================================================================
