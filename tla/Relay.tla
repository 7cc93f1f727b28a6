-------------------------------- MODULE Relay --------------------------------
(***************************************************************************)
(* The Telegram relay (src/src/relay) of one pair: it reads a conversation *)
(* message by message, sends each to the pair's rooms in turn and moves    *)
(* its cursor.  The ledger remembers, by room, what was delivered and how  *)
(* often in a row images were missing.  Every store call may fail and its  *)
(* error is dropped, a lookup that fails counts as no delivery, a send may *)
(* arrive that is reported as failed; the process may end at any step.     *)
(***************************************************************************)
EXTENDS Integers, FiniteSets, Sequences, FiniteSetsExt

CONSTANTS
    NRooms,                \* the rooms of the pair, in order: 1..NRooms
    MaxMessage,            \* the conversation is 1..MaxMessage, in time order
    MISMATCH_STREAK_LIMIT,
    MaxFaults              \* store errors, restarts and unreadable windows

ASSUME BoundsAssumption == {NRooms, MaxMessage, MISMATCH_STREAK_LIMIT, MaxFaults} \subseteq Nat

Rooms == 1..NRooms
Messages == 1..MaxMessage
Kinds == {"text", "images", "over", "nothing"}   \* what a message carries
Row == [streak : 0..MISMATCH_STREAK_LIMIT, settled : BOOLEAN]
Idle == [pc |-> "idle", room |-> 1, images |-> FALSE, misread |-> FALSE,
         retrying |-> FALSE, outcome |-> "none"]

VARIABLES
    kind,     \* the messages that appeared so far, by what they carry
    ledger,   \* relay_ledger, by room and message
    stored,   \* relay_cursor: the last settled message
    cursor,   \* the same, in memory
    tick,     \* the message in hand: the next room, what was acquired and sent,
              \* and whether the ledger could not be asked for the room
    sends,    \* history: how often a message went out to a room
    given,    \* history: messages that arrived whole in a room, in order
    faults,   \* so far
    lapses,   \* history: deliveries the ledger did not get, or did not tell of
    forgot    \* history: a cursor was not saved or not loaded

vars == <<kind, ledger, stored, cursor, tick, sends, given, faults, lapses, forgot>>

TypeOK ==
    /\ kind \in Seq(Kinds) /\ Len(kind) <= MaxMessage
    /\ ledger \in [Rooms \X Messages -> Row]
    /\ {stored, cursor} \subseteq 0..Len(kind)
    /\ tick \in [pc : {"idle", "room", "answer"}, room : 1..(NRooms + 1), images : BOOLEAN,
                 misread : BOOLEAN, retrying : BOOLEAN, outcome : {"none", "complete", "short"}]
    /\ tick.pc # "idle" => cursor < Len(kind)
    /\ sends \in [Rooms \X Messages -> Nat]
    /\ given \in [Rooms -> Seq(Messages)]
    /\ faults \in 0..MaxFaults /\ lapses \in 0..MaxFaults /\ forgot \in BOOLEAN

Init ==
    /\ kind = <<>>
    /\ ledger = [k \in Rooms \X Messages |-> [streak |-> 0, settled |-> FALSE]]
    /\ stored = 0 /\ cursor = 0
    /\ tick = Idle
    /\ sends = [k \in Rooms \X Messages |-> 0]
    /\ given = [r \in Rooms |-> <<>>]
    /\ faults = 0 /\ lapses = 0 /\ forgot = FALSE

-----------------------------------------------------------------------------
Fault == faults < MaxFaults /\ faults' = faults + 1

Appear ==
    /\ Len(kind) < MaxMessage
    /\ \E k \in Kinds : kind' = Append(kind, k)
    /\ UNCHANGED <<ledger, stored, cursor, tick, sends, given, faults, lapses, forgot>>

Msg == cursor + 1
Key == <<tick.room, Msg>>

\* The ladder: the rungs are tried in order until one gives an image in time;
\* the last one captures the screen, where that is permitted.
Acquired(rungs, permitted) == \E i \in 1..3 : rungs[i] /\ (i = 3 => permitted)

\* The message after the cursor is read and its images acquired.
Read ==
    /\ tick.pc = "idle"
    /\ cursor < Len(kind)
    /\ \E rungs \in [1..3 -> BOOLEAN], permitted \in BOOLEAN :
          tick' = [Idle EXCEPT !.pc = "room",
                               !.images = kind[Msg] = "text" \/ Acquired(rungs, permitted)]
    /\ UNCHANGED <<kind, ledger, stored, cursor, sends, given, faults, lapses, forgot>>

\* The window is gone or may not be read: the tick ends, the cursor stays.
Unreadable ==
    /\ tick.pc = "idle"
    /\ Fault
    /\ UNCHANGED <<kind, ledger, stored, cursor, tick, sends, given, lapses, forgot>>

NextRoom(t) == [t EXCEPT !.pc = "room", !.room = @ + 1, !.misread = FALSE, !.outcome = "none"]

MarkNothing == UNCHANGED <<ledger, faults, lapses>>
\* INSERT .. ON CONFLICT of a settled row; the error is dropped.
Mark == \/ /\ ledger' = [ledger EXCEPT ![Key].settled = TRUE]
           /\ UNCHANGED <<faults, lapses>>
        \/ /\ Fault /\ lapses' = lapses + 1
           /\ UNCHANGED ledger

\* What is_delivered answers: a failing lookup is no delivery.
Delivered == ledger[Key].settled /\ ~tick.misread

\* The lookup of a room that has the message fails.
Misread ==
    /\ tick.pc = "room" /\ tick.room <= NRooms
    /\ Delivered
    /\ Fault /\ lapses' = lapses + 1
    /\ tick' = [tick EXCEPT !.misread = TRUE]
    /\ UNCHANGED <<kind, ledger, stored, cursor, sends, given, forgot>>

\* The room has the message already.
Skip ==
    /\ tick.pc = "room" /\ tick.room <= NRooms
    /\ Delivered
    /\ tick' = NextRoom(tick)
    /\ UNCHANGED <<kind, ledger, stored, cursor, sends, given, faults, lapses, forgot>>

SettleNothingUnmarked ==
    /\ tick.pc = "room" /\ tick.room <= NRooms
    /\ ~Delivered
    /\ kind[Msg] = "nothing"
    /\ tick' = [NextRoom(tick) EXCEPT !.retrying = TRUE]
    /\ UNCHANGED <<kind, ledger, stored, cursor, sends, given, faults, lapses, forgot>>

\* A message of excluded attachments only: the room is settled without a send.
SettleNothing ==
    /\ tick.pc = "room" /\ tick.room <= NRooms
    /\ ~Delivered
    /\ kind[Msg] = "nothing"
    /\ Mark
    /\ tick' = NextRoom(tick)
    /\ UNCHANGED <<kind, stored, cursor, sends, given, forgot>>

\* The message can arrive whole: images over the cap are never sent.
Whole == tick.images /\ kind[Msg] # "over"

Arrive == given' = [given EXCEPT ![tick.room] = Append(@, Msg)]
\* It arrives whole, and the relay is not told so.
ArriveUnconfirmed == Whole /\ Arrive /\ Fault /\ lapses' = lapses + 1
NothingArrives == UNCHANGED <<given, faults, lapses>>

\* The whole body goes out, with the images that were acquired.  A room may
\* confirm fewer of them than arrived.
Send ==
    /\ tick.pc = "room" /\ tick.room <= NRooms
    /\ ~Delivered
    /\ kind[Msg] # "nothing"
    /\ sends' = [sends EXCEPT ![Key] = @ + 1]
    /\ \/ /\ Whole /\ Arrive
          /\ tick' = [tick EXCEPT !.pc = "answer", !.outcome = "complete"]
          /\ UNCHANGED <<faults, lapses>>
       \/ /\ kind[Msg] # "text"
          /\ NothingArrives \/ ArriveUnconfirmed
          /\ tick' = [tick EXCEPT !.pc = "answer", !.outcome = "short"]
    /\ UNCHANGED <<kind, ledger, stored, cursor, forgot>>

\* The gate fences the room, or the send fails at some stage, with nothing of
\* the message, a part of it or all of it in the room: there is no retry for it.
NotSent ==
    /\ tick.pc = "room" /\ tick.room <= NRooms
    /\ ~Delivered
    /\ kind[Msg] # "nothing"
    /\ \/ NothingArrives /\ UNCHANGED sends
       \/ ArriveUnconfirmed /\ sends' = [sends EXCEPT ![Key] = @ + 1]
    /\ tick' = NextRoom(tick)
    /\ UNCHANGED <<kind, ledger, stored, cursor, forgot>>

RecordComplete ==
    /\ tick.pc = "answer" /\ tick.outcome = "complete"
    /\ Mark
    /\ tick' = NextRoom(tick)
    /\ UNCHANGED <<kind, stored, cursor, sends, given, forgot>>

\* MIN(mismatch_streak + 1, 3)
Streak(r) == Min({r.streak + 1, MISMATCH_STREAK_LIMIT})

\* The room missed images; the message may be tried again.
Missed(again) ==
    tick' = [NextRoom(tick) EXCEPT !.retrying = @ \/ again]

\* An error of the bump counts as the limit; one of reading the streak back,
\* after the bump, as no miss yet.
RecordShort ==
    /\ tick.pc = "answer" /\ tick.outcome = "short"
    /\ \/ /\ ledger' = [ledger EXCEPT ![Key].streak = Streak(ledger[Key])]
          /\ \/ Streak(ledger[Key]) < MISMATCH_STREAK_LIMIT /\ Missed(TRUE) /\ UNCHANGED faults
             \/ Streak(ledger[Key]) = MISMATCH_STREAK_LIMIT /\ Missed(FALSE) /\ UNCHANGED faults
             \/ Fault /\ Missed(TRUE)
       \/ Fault /\ Missed(FALSE) /\ UNCHANGED ledger
    /\ UNCHANGED <<kind, stored, cursor, sends, given, lapses, forgot>>

SettleInMemory ==
    /\ tick.pc = "room" /\ tick.room > NRooms
    /\ tick' = Idle
    /\ cursor' = IF tick.retrying THEN cursor ELSE Msg
    /\ UNCHANGED <<kind, ledger, stored, sends, given, faults, lapses, forgot>>

\* All rooms done.  A retryable miss ends the tick and keeps the cursor; a
\* commit or a final miss moves it, in memory even when it cannot be saved.
Settle ==
    /\ tick.pc = "room" /\ tick.room > NRooms
    /\ tick' = Idle
    /\ IF tick.retrying THEN UNCHANGED <<stored, cursor, faults, forgot>>
       ELSE /\ cursor' = Msg
            /\ \/ stored' = Msg /\ UNCHANGED <<faults, forgot>>
               \/ UNCHANGED stored /\ Fault /\ forgot' = TRUE
    /\ UNCHANGED <<kind, ledger, sends, given, lapses>>

\* The process ends and is started again.  A cursor that cannot be loaded
\* counts as none.
Restart ==
    /\ Fault
    /\ tick' = Idle
    /\ cursor' \in {stored, 0}
    /\ forgot' = (forgot \/ cursor' # stored)
    /\ lapses' = lapses + (IF tick.outcome = "complete" THEN 1 ELSE 0)
    /\ UNCHANGED <<kind, ledger, stored, sends, given>>

Step ==
    \/ Read \/ Skip \/ SettleNothing \/ Send \/ NotSent
    \/ RecordComplete \/ RecordShort \/ Settle

Next == Appear \/ Step \/ Misread \/ Unreadable \/ Restart

\* The host calls tick again and again.
Spec == Init /\ [][Next]_vars
FairSpec == Spec /\ WF_vars(Step)

-----------------------------------------------------------------------------
(* Properties *)

(* A message arrives whole in a room at most once (R7.10), and once more for *)
(* every lapse: a delivery the ledger did not get, one it could not tell of, *)
(* one that was not confirmed.                                               *)
DeliveredOnce ==
    \A r \in Rooms : Len(given[r]) - Cardinality({given[r][i] : i \in DOMAIN given[r]}) <= lapses

(* What arrives whole in a room keeps the order of the conversation      *)
(* (R7.9), while the cursor is neither lost nor left behind.                 *)
InOrder ==
    ~forgot => \A r \in Rooms : \A i, j \in DOMAIN given[r] : i < j => given[r][i] <= given[r][j]

(* A message that appeared is behind the cursor sooner or later, whatever    *)
(* fails to be delivered.                                                    *)
EventuallyBehind == \A m \in Messages : Len(kind) >= m ~> cursor >= m

(* Stated by the module: an app restart or a retry never re-sends ... each   *)
(* (message, room) at most once.  A retry sends the whole message again.     *)
SentOnce == \A k \in Rooms \X Messages : sends[k] <= 1
=============================================================================
