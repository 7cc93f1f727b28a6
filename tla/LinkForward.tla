----------------------------- MODULE LinkForward -----------------------------
(***************************************************************************)
(* Forwarding links to rooms (src/src/forward) with the two-path collector *)
(* (src/src/collector).  A request names links and rooms; each link is     *)
(* collected, by the browser path or, once, by the fallback, and then sent *)
(* to every room that does not have it.  The clock of a link runs from the *)
(* start of its collection; the ledger keeps the most recent deliveries of *)
(* a room.                                                                 *)
(***************************************************************************)
EXTENDS LinkDeliveries, FiniteSets, Sequences, SequencesExt

CONSTANTS
    MaxLinks, MaxMentions,  \* the sizes of a request
    HEALTH_TIMEOUT, ASIDE_COLLECT_TIMEOUT,
    Durations,              \* what one call may take
    MaxRequests,            \* bound of the requests
    MaxFaults               \* ledger errors, lost confirmations, restarts, clock set back

Late == FORWARD_DEADLINE + 1        \* the clock is not told apart beyond this
Idle == [pc |-> "idle", links |-> <<>>, rooms |-> <<>>, todo |-> <<>>, t |-> 0,
         images |-> TRUE, answer |-> "none"]

VARIABLES requests, faults   \* so far, for the bounds

vars == <<req, ledger, requests, faults, full, forgotten>>

TypeOK ==
    /\ req.pc \in {"idle", "health", "aside", "fallback", "collected", "images", "rooms", "answer"}
    /\ req.links \in Seq(Links) /\ req.rooms \in Seq(Rooms) /\ req.todo \in Seq(Rooms)
    /\ req.t \in 0..Late /\ req.images \in BOOLEAN
    /\ req.answer \in {"none", "complete", "short"}
    /\ ledger \in [Rooms -> Seq(Links)]
    /\ \A r \in Rooms : /\ Len(ledger[r]) <= FORWARD_LEDGER_MAX_PER_ROOM + faults
                        /\ IsInjective(ledger[r])
    /\ requests \in 0..MaxRequests /\ faults \in 0..MaxFaults
    /\ full \in [Rooms \X Links -> Nat] /\ forgotten \in [Rooms \X Links -> Nat]

Init ==
    /\ req = Idle
    /\ ledger = [r \in Rooms |-> <<>>]
    /\ requests = 0 /\ faults = 0
    /\ full = [k \in Rooms \X Links |-> 0]
    /\ forgotten = [k \in Rooms \X Links |-> 0]

-----------------------------------------------------------------------------
Fault == faults < MaxFaults /\ faults' = faults + 1
At(pc) == req.pc = pc
Link == Head(req.links)
After(d) == IF req.t + d > Late THEN Late ELSE req.t + d
Delivered == UNCHANGED <<ledger, faults, full, forgotten>>

\* The next link of the request, or the end of it.
NextLink == IF Len(req.links) > 1
            THEN [Idle EXCEPT !.pc = "health", !.links = Tail(req.links), !.rooms = req.rooms]
            ELSE Idle

\* A request of a legal size is resolved as a whole: one mention that is not
\* exactly one room refuses it, and nothing is sent.
Forward ==
    /\ At("idle")
    /\ requests < MaxRequests /\ requests' = requests + 1
    /\ \E links \in SeqOf(Links, MaxLinks), mentions \in SeqOf(Rooms \cup {"unresolved"}, MaxMentions) :
          IF links = <<>> \/ mentions = <<>> \/ "unresolved" \in ToSet(mentions)
          THEN UNCHANGED req
          ELSE req' = [Idle EXCEPT !.pc = "health", !.links = links, !.rooms = mentions]
    /\ Delivered

\* The link is given up, for the next one.
Fail == req' = NextLink

Collected(t) == req' = [req EXCEPT !.pc = "collected", !.t = t]

\* There is no temporary directory: nothing is collected.
NoTempScope ==
    /\ At("health") /\ Fault
    /\ Fail
    /\ UNCHANGED <<ledger, requests, full, forgotten>>

\* One connection check of the browser path; any failure switches.
HealthCheck ==
    /\ At("health")
    /\ \E d \in Durations, answered \in BOOLEAN :
          req' = [req EXCEPT !.t = After(d),
                             !.pc = IF answered /\ d <= HEALTH_TIMEOUT THEN "aside" ELSE "fallback"]
    /\ UNCHANGED requests /\ Delivered

\* A private or deleted post ends the link, any other failure switches.
AsideCollect ==
    /\ At("aside")
    /\ \E d \in Durations, answer \in {"page", "terminal", "error"} :
          IF d > ASIDE_COLLECT_TIMEOUT \/ answer = "error"
          THEN req' = [req EXCEPT !.t = After(d), !.pc = "fallback"]
          ELSE IF answer = "page" /\ After(d) < COLLECT_DEADLINE
               THEN Collected(After(d)) ELSE Fail
    /\ UNCHANGED requests /\ Delivered

\* The one switch, unless the time is up; the result counts if it is in time.
FallbackCollect ==
    /\ At("fallback")
    /\ \E d \in Durations, page \in BOOLEAN :
          IF req.t < COLLECT_DEADLINE /\ page /\ After(d) < COLLECT_DEADLINE
          THEN Collected(After(d)) ELSE Fail
    /\ UNCHANGED requests /\ Delivered

\* The deadline of the link is checked once, before the images are acquired.
CheckDeadline ==
    /\ At("collected")
    /\ IF req.t >= FORWARD_DEADLINE THEN Fail
       ELSE req' = [req EXCEPT !.pc = "images"]
    /\ UNCHANGED requests /\ Delivered

\* The body is masked and cut; every image climbs the ladder.  Some may be
\* missing, some are over the cap.
AcquireImages ==
    /\ At("images")
    /\ \E d \in Durations, all \in BOOLEAN :
          req' = [req EXCEPT !.pc = "rooms", !.todo = req.rooms, !.t = After(d), !.images = all]
    /\ UNCHANGED requests /\ Delivered

Known(r) == Contains(ledger[r], Link)
RoomDone == IF Len(req.todo) > 1 THEN [req EXCEPT !.pc = "rooms", !.todo = Tail(@), !.answer = "none"]
            ELSE NextLink
Advance == req' = RoomDone

AlreadyDelivered ==
    /\ At("rooms")
    /\ Known(Head(req.todo))
    /\ Advance
    /\ UNCHANGED requests /\ Delivered

\* The room is taken for one without the link, with n errors behind it: the
\* lookup of a known delivery failed, or a whole one is not confirmed.
Missing(r, unconfirmed) ==
    LET n == (IF Known(r) THEN 1 ELSE 0) + (IF unconfirmed THEN 1 ELSE 0)
    IN  /\ faults + n <= MaxFaults /\ faults' = faults + n
        /\ forgotten' = [forgotten EXCEPT ![<<r, Link>>] = @ + n]

Arrives(r, whole) ==
    /\ whole => req.images
    /\ full' = IF whole THEN [full EXCEPT ![<<r, Link>>] = @ + 1] ELSE full

\* Fenced by the gate, or failed at some stage: before anything went out, in the
\* middle, or with all of it in the room.
NotSent ==
    /\ At("rooms")
    /\ \E whole \in BOOLEAN : /\ Arrives(Head(req.todo), whole)
                              /\ Missing(Head(req.todo), whole)
    /\ Advance
    /\ UNCHANGED <<ledger, requests>>

\* The text went out; the answer counts the images that were confirmed.
Send ==
    /\ At("rooms")
    /\ \E d \in Durations, whole, complete \in BOOLEAN :
          /\ complete => whole
          /\ Arrives(Head(req.todo), whole)
          /\ Missing(Head(req.todo), whole /\ ~complete)
          /\ req' = [req EXCEPT !.pc = "answer", !.t = After(d),
                                !.answer = IF complete THEN "complete" ELSE "short"]
    /\ UNCHANGED <<ledger, requests>>

\* The rows of a room by time and id.  A mark moves the row it finds or adds one;
\* then the room is cut to the cap.
Others(r) == IF Known(r) THEN RemoveAt(ledger[r], CHOOSE i \in 1..Len(ledger[r]) : ledger[r][i] = Link)
             ELSE ledger[r]
Latest(rows) == IF Len(rows) > FORWARD_LEDGER_MAX_PER_ROOM
                THEN SubSeq(rows, Len(rows) - FORWARD_LEDGER_MAX_PER_ROOM + 1, Len(rows)) ELSE rows
Forget(r, rows) ==
    [k \in Rooms \X Links |->
        forgotten[k] + (IF k[1] = r /\ k[2] \in ToSet(rows) \ ToSet(Latest(rows)) THEN 1 ELSE 0)]

MarkNever == FALSE
MarkAnyAnswer == TRUE
\* Only a complete delivery is marked.
MarkIfComplete == req.answer = "complete"

Keep(r, rows) == ledger' = [ledger EXCEPT ![r] = Latest(rows)] /\ forgotten' = Forget(r, rows)

Record ==
    /\ At("answer")
    /\ LET r == Head(req.todo)
           newest == Append(Others(r), Link)
           oldest == <<Link>> \o Others(r)      \* the clock was set back
       IN  IF ~MarkIfComplete THEN UNCHANGED <<ledger, faults, forgotten>>
           ELSE \/ /\ Keep(r, newest)
                   /\ UNCHANGED faults
                \/ /\ Fault
                   /\ Keep(r, oldest)
                \/ /\ Fault                     \* the cut fails
                   /\ ledger' = [ledger EXCEPT ![r] = newest]
                   /\ UNCHANGED forgotten
                \/ /\ Fault                     \* nothing is written; the error is dropped
                   /\ forgotten' = [forgotten EXCEPT ![<<r, Link>>] = @ + 1]
                   /\ UNCHANGED ledger
    /\ Advance
    /\ UNCHANGED <<requests, full>>

\* The process ends and the request is lost.
Restart ==
    /\ ~At("idle")
    /\ Fault
    /\ forgotten' = IF req.answer = "complete"
                    THEN [forgotten EXCEPT ![<<Head(req.todo), Link>>] = @ + 1] ELSE forgotten
    /\ req' = Idle
    /\ UNCHANGED <<ledger, requests, full>>

Step == \/ HealthCheck \/ AsideCollect \/ FallbackCollect \/ CheckDeadline \/ AcquireImages
        \/ AlreadyDelivered \/ NotSent \/ Send \/ Record

Next == Forward \/ Step \/ NoTempScope \/ Restart

Spec == Init /\ [][Next]_vars
=============================================================================
