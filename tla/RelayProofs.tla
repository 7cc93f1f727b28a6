----------------------------- MODULE RelayProofs ------------------------------
(***************************************************************************)
(* What the relay promises of every room, for every number of rooms and    *)
(* messages and every streak limit: a message comes twice only for a lapse   *)
(* in between, and the deliveries keep the order of the conversation.      *)
(***************************************************************************)
EXTENDS Relay, FiniteSetTheorems, TLAPS

Tick == [pc : {"idle", "room", "answer"}, room : 1..(NRooms + 1), images : BOOLEAN,
         misread : BOOLEAN, retrying : BOOLEAN, outcome : {"none", "complete", "short"}]

-----------------------------------------------------------------------------
(* Types *)

\* What a step makes of a tick.
LEMMA IdleTick ==
    /\ Idle \in Tick /\ Idle.pc = "idle" /\ Idle.outcome = "none" /\ ~Idle.misread
    /\ \A b \in BOOLEAN : LET t == [Idle EXCEPT !.pc = "room", !.images = b]
                          IN  t \in Tick /\ t.pc = "room" /\ t.outcome = "none" /\ ~t.misread
<1>1. Idle \in Tick /\ Idle.pc = "idle" /\ Idle.outcome = "none" /\ ~Idle.misread
  BY BoundsAssumption DEF Tick, Idle
<1>2. \A x \in Tick, b \in BOOLEAN :
         LET t == [x EXCEPT !.pc = "room", !.images = b]
         IN  t \in Tick /\ t.pc = "room" /\ t.outcome = x.outcome /\ t.misread = x.misread
  BY DEF Tick
<1>. QED
  BY <1>1, <1>2

LEMMA NextTick ==
    ASSUME NEW t \in Tick, t.room <= NRooms
    PROVE  LET n == NextRoom(t)
           IN  n \in Tick /\ n.pc = "room" /\ n.outcome = "none" /\ ~n.misread
<1>1. \A k \in 1..(NRooms + 1) :
         LET n == [t EXCEPT !.pc = "room", !.room = k, !.misread = FALSE, !.outcome = "none"]
         IN  n \in Tick /\ n.pc = "room" /\ n.outcome = "none" /\ ~n.misread
  BY DEF Tick
<1>2. t.room + 1 \in 1..(NRooms + 1)
  BY BoundsAssumption DEF Tick
<1>. QED
  BY <1>1, <1>2 DEF NextRoom

LEMMA MissedTick ==
    ASSUME NEW t \in Tick, NEW b \in BOOLEAN
    PROVE  LET n == [t EXCEPT !.retrying = @ \/ b]
           IN  n \in Tick /\ n.pc = t.pc /\ n.outcome = t.outcome /\ n.misread = t.misread
  BY DEF Tick

LEMMA MisreadTick ==
    ASSUME NEW t \in Tick
    PROVE  LET n == [t EXCEPT !.misread = TRUE]
           IN  n \in Tick /\ n.pc = t.pc /\ n.outcome = t.outcome /\ n.room = t.room /\ n.misread
  BY DEF Tick

LEMMA AnswerTick ==
    ASSUME NEW t \in Tick, NEW o \in {"complete", "short"}
    PROVE  LET a == [t EXCEPT !.pc = "answer", !.outcome = o]
           IN  a \in Tick /\ a.pc = "answer" /\ a.outcome = o /\ a.room = t.room
               /\ a.misread = t.misread
  BY DEF Tick

LEMMA StreakType ==
    ASSUME NEW r \in Row PROVE Streak(r) \in 0..MISMATCH_STREAK_LIMIT
<1>. DEFINE n == r.streak + 1
            S == {n, MISMATCH_STREAK_LIMIT}
<1>1. n \in Nat /\ n > 0 /\ MISMATCH_STREAK_LIMIT \in Nat
  BY BoundsAssumption DEF Row
<1>2. \E x \in S : \A y \in S : x <= y
  BY <1>1
<1>3. Min(S) \in S /\ \A y \in S : Min(S) <= y
  BY <1>2 DEF Min
<1>. QED
  BY <1>1, <1>3 DEF Streak

\* An answer is awaited of one of the rooms, and of none otherwise.
TickOK ==
    /\ tick.outcome # "none" <=> tick.pc = "answer"
    /\ tick.pc = "answer" => tick.room \in Rooms

\* The ledger gains nothing it should not: rows of the message in hand only.
LEMMA KeyType ==
    ASSUME TypeOK, TickOK, tick.pc # "idle", tick.room <= NRooms
    PROVE  tick.room \in Rooms /\ Msg \in Messages /\ Key \in Rooms \X Messages
           /\ cursor \in Nat /\ Msg = cursor + 1
<1>1. cursor \in Nat /\ cursor < Len(kind) /\ Len(kind) <= MaxMessage /\ Len(kind) \in Nat
  BY DEF TypeOK
<1>2. tick.room \in Rooms
  BY BoundsAssumption DEF TypeOK, Rooms
<1>. QED
  BY <1>1, <1>2, BoundsAssumption DEF Messages, Msg, Key

LEMMA MarkType ==
    ASSUME TypeOK, TickOK, tick.pc # "idle", tick.room <= NRooms, Mark
    PROVE  /\ ledger' \in [Rooms \X Messages -> Row]
           /\ faults' \in 0..MaxFaults /\ lapses' \in Nat
           /\ \/ faults' = faults /\ lapses' = lapses
              \/ faults' = faults + 1 /\ lapses' = lapses + 1
<1>1. \A x \in Row : [x EXCEPT !.settled = TRUE] \in Row
  BY DEF Row
<1>2. Key \in Rooms \X Messages /\ ledger \in [Rooms \X Messages -> Row]
  BY KeyType DEF TypeOK
<1>3. [ledger EXCEPT ![Key].settled = TRUE] \in [Rooms \X Messages -> Row]
  BY <1>1, <1>2
<1>4. faults \in Nat /\ MaxFaults \in Nat /\ faults <= MaxFaults /\ lapses \in Nat
  BY BoundsAssumption DEF TypeOK
<1>5. CASE ledger' = [ledger EXCEPT ![Key].settled = TRUE] /\ UNCHANGED <<faults, lapses>>
  BY <1>3, <1>4, <1>5
<1>6. CASE UNCHANGED ledger /\ Fault /\ lapses' = lapses + 1
  BY <1>2, <1>4, <1>6 DEF Fault
<1>. QED
  BY <1>5, <1>6 DEF Mark

\* What a send leaves in the histories.
LEMMA Arrivals ==
    ASSUME TypeOK, TickOK, tick.pc # "idle", tick.room <= NRooms
    PROVE  /\ [sends EXCEPT ![Key] = @ + 1] \in [Rooms \X Messages -> Nat]
           /\ sends \in [Rooms \X Messages -> Nat]
           /\ Arrive => given' \in [Rooms -> Seq(Messages)]
           /\ ArriveUnconfirmed => given' \in [Rooms -> Seq(Messages)]
           /\ NothingArrives => given' \in [Rooms -> Seq(Messages)]
           /\ UNCHANGED given => given' \in [Rooms -> Seq(Messages)]
<1>1. Key \in Rooms \X Messages /\ Msg \in Messages /\ tick.room \in Rooms
  BY KeyType
<1>2. sends \in [Rooms \X Messages -> Nat] /\ given \in [Rooms -> Seq(Messages)]
  BY DEF TypeOK
<1>3. sends[Key] + 1 \in Nat
  BY <1>1, <1>2
<1>4. Append(given[tick.room], Msg) \in Seq(Messages)
  BY <1>1, <1>2
<1>5. Arrive => given' \in [Rooms -> Seq(Messages)]
  BY <1>2, <1>4 DEF Arrive
<1>. QED
  BY <1>2, <1>3, <1>5 DEF ArriveUnconfirmed, NothingArrives

LEMMA TypeInit == Init => TypeOK /\ TickOK
<1>. SUFFICES ASSUME Init PROVE TypeOK /\ TickOK
  OBVIOUS
<1>1. [streak |-> 0, settled |-> FALSE] \in Row
  BY BoundsAssumption DEF Row
<1>. QED
  <2>1. kind \in Seq(Kinds) /\ Len(kind) = 0
    BY DEF Init
  <2>2. given \in [Rooms -> Seq(Messages)]
    BY DEF Init
  <2>3. tick \in Tick /\ TickOK
    BY IdleTick DEF Init, TickOK
  <2>4. 0 \in 0..MaxFaults /\ Len(kind) <= MaxMessage /\ {0} \subseteq 0..Len(kind)
    BY <2>1, BoundsAssumption
  <2>5. ledger \in [Rooms \X Messages -> Row] /\ sends \in [Rooms \X Messages -> Nat]
    BY <1>1 DEF Init
  <2>6. {stored, cursor} \subseteq 0..Len(kind) /\ tick.pc = "idle"
    BY <2>4, IdleTick DEF Init
  <2>7. faults \in 0..MaxFaults /\ lapses \in 0..MaxFaults /\ forgot \in BOOLEAN
    BY <2>4 DEF Init
  <2>. QED
    BY <2>1, <2>2, <2>3, <2>4, <2>5, <2>6, <2>7 DEF TypeOK, Tick

LEMMA TypeStep ==
    ASSUME TypeOK, TickOK, lapses <= faults, [Next]_vars
    PROVE  TypeOK' /\ TickOK' /\ (lapses <= faults)'
<1>1. /\ tick \in Tick /\ kind \in Seq(Kinds) /\ Len(kind) \in Nat /\ Len(kind) <= MaxMessage
      /\ ledger \in [Rooms \X Messages -> Row] /\ stored \in 0..Len(kind) /\ cursor \in 0..Len(kind)
      /\ sends \in [Rooms \X Messages -> Nat] /\ given \in [Rooms -> Seq(Messages)]
      /\ faults \in 0..MaxFaults /\ lapses \in 0..MaxFaults /\ forgot \in BOOLEAN
      /\ MaxFaults \in Nat
      /\ tick.pc # "idle" => cursor < Len(kind)
  BY BoundsAssumption DEF TypeOK, Tick
<1>a. SUFFICES /\ tick' \in Tick /\ kind' \in Seq(Kinds) /\ Len(kind') <= MaxMessage
               /\ ledger' \in [Rooms \X Messages -> Row]
               /\ stored' \in 0..Len(kind') /\ cursor' \in 0..Len(kind')
               /\ sends' \in [Rooms \X Messages -> Nat] /\ given' \in [Rooms -> Seq(Messages)]
               /\ faults' \in 0..MaxFaults /\ lapses' \in Nat /\ forgot' \in BOOLEAN
               /\ tick'.pc # "idle" => cursor' < Len(kind')
               /\ TickOK' /\ lapses' <= faults'
  BY <1>1 DEF TypeOK, Tick
<1>2. CASE UNCHANGED vars
  BY <1>1, <1>2 DEF vars, TickOK, Msg
<1>3. CASE Appear
  <2>1. PICK k \in Kinds : kind' = Append(kind, k)
    BY <1>3 DEF Appear
  <2>2. kind' \in Seq(Kinds) /\ Len(kind') = Len(kind) + 1 /\ Len(kind) < MaxMessage
    BY <1>1, <1>3, <2>1 DEF Appear
  <2>3. stored \in 0..Len(kind') /\ cursor \in 0..Len(kind') /\ Len(kind') <= MaxMessage
    BY <1>1, <2>2, BoundsAssumption
  <2>4. cursor < Len(kind) => cursor < Len(kind')
    BY <1>1, <2>2
  <2>5. UNCHANGED <<ledger, stored, cursor, tick, sends, given, faults, lapses, forgot>>
    BY <1>3 DEF Appear
  <2>. QED
    BY <1>1, <2>2, <2>3, <2>4, <2>5 DEF TickOK
<1>4. CASE Read
  <2>1. \E b \in BOOLEAN : tick' = [Idle EXCEPT !.pc = "room", !.images = b]
    BY <1>4 DEF Read, Acquired
  <2>2. tick' \in Tick /\ tick'.pc = "room" /\ tick'.outcome = "none"
    BY <2>1, IdleTick
  <2>. QED
    BY <1>1, <1>4, <2>2 DEF Read, TickOK
<1>5. CASE Unreadable
  BY <1>1, <1>5 DEF Unreadable, Fault, TickOK
<1>6. CASE Skip
  <2>1. tick' \in Tick /\ tick'.pc = "room" /\ tick'.outcome = "none"
    BY <1>1, <1>6, NextTick DEF Skip
  <2>. QED
    BY <1>1, <1>6, <2>1 DEF Skip, TickOK
<1>7. CASE SettleNothing
  <2>1. tick' \in Tick /\ tick'.pc = "room" /\ tick'.outcome = "none"
    BY <1>1, <1>7, NextTick DEF SettleNothing
  <2>2. /\ ledger' \in [Rooms \X Messages -> Row]
        /\ faults' \in 0..MaxFaults /\ lapses' \in Nat
        /\ \/ faults' = faults /\ lapses' = lapses
           \/ faults' = faults + 1 /\ lapses' = lapses + 1
    BY <1>7, MarkType DEF SettleNothing
  <2>. QED
    BY <1>1, <1>7, <2>1, <2>2 DEF SettleNothing, TickOK
<1>8. CASE Send
  <2>1. PICK o \in {"complete", "short"} : tick' = [tick EXCEPT !.pc = "answer", !.outcome = o]
    BY <1>8 DEF Send
  <2>2. tick' \in Tick /\ tick'.pc = "answer" /\ tick'.outcome = o /\ tick'.room = tick.room
    BY <1>1, <2>1, AnswerTick
  <2>3. tick.pc # "idle" /\ tick.room <= NRooms
    BY <1>8 DEF Send
  <2>4. sends' \in [Rooms \X Messages -> Nat] /\ given' \in [Rooms -> Seq(Messages)]
    BY <1>8, <2>3, Arrivals DEF Send
  <2>5. faults' \in 0..MaxFaults /\ lapses' \in Nat /\ lapses' <= faults'
    BY <1>1, <1>8 DEF Send, NothingArrives, ArriveUnconfirmed, Fault
  <2>6. tick.room \in Rooms
    BY <2>3, KeyType
  <2>. QED
    BY <1>1, <1>8, <2>2, <2>4, <2>5, <2>6 DEF Send, TickOK
<1>9. CASE NotSent
  <2>1. tick' \in Tick /\ tick'.pc = "room" /\ tick'.outcome = "none"
    BY <1>1, <1>9, NextTick DEF NotSent
  <2>2. tick.pc # "idle" /\ tick.room <= NRooms
    BY <1>9 DEF NotSent
  <2>3. sends' \in [Rooms \X Messages -> Nat] /\ given' \in [Rooms -> Seq(Messages)]
    BY <1>9, <2>2, Arrivals DEF NotSent
  <2>4. faults' \in 0..MaxFaults /\ lapses' \in Nat /\ lapses' <= faults'
    BY <1>1, <1>9 DEF NotSent, NothingArrives, ArriveUnconfirmed, Fault
  <2>. QED
    BY <1>1, <1>9, <2>1, <2>2, <2>3, <2>4 DEF NotSent, TickOK
<1>14. CASE Misread
  <2>1. tick' \in Tick /\ tick'.pc = "room" /\ tick'.outcome = tick.outcome
    BY <1>1, <1>14, MisreadTick DEF Misread
  <2>2. faults' \in 0..MaxFaults /\ lapses' \in Nat /\ lapses' <= faults'
    BY <1>1, <1>14 DEF Misread, Fault
  <2>. QED
    BY <1>1, <1>14, <2>1, <2>2 DEF Misread, TickOK
<1>10. CASE RecordComplete
  <2>0. tick.room <= NRooms /\ tick.pc = "answer"
    BY <1>10, BoundsAssumption DEF RecordComplete, TickOK, Rooms
  <2>1. tick' \in Tick /\ tick'.pc = "room" /\ tick'.outcome = "none"
    BY <1>1, <1>10, <2>0, NextTick DEF RecordComplete
  <2>2. /\ ledger' \in [Rooms \X Messages -> Row]
        /\ faults' \in 0..MaxFaults /\ lapses' \in Nat
        /\ \/ faults' = faults /\ lapses' = lapses
           \/ faults' = faults + 1 /\ lapses' = lapses + 1
    BY <1>10, <2>0, MarkType DEF RecordComplete
  <2>. QED
    BY <1>1, <1>10, <2>0, <2>1, <2>2 DEF RecordComplete, TickOK
<1>11. CASE RecordShort
  <2>0. tick.room <= NRooms /\ tick.pc = "answer" /\ Key \in Rooms \X Messages
    BY <1>11, KeyType, BoundsAssumption DEF RecordShort, TickOK, Rooms
  <2>1. tick' \in Tick /\ tick'.pc = "room" /\ tick'.outcome = "none"
    <3>1. NextRoom(tick) \in Tick /\ NextRoom(tick).pc = "room" /\ NextRoom(tick).outcome = "none"
      BY <1>1, <2>0, NextTick
    <3>2. \E b \in BOOLEAN : tick' = [NextRoom(tick) EXCEPT !.retrying = @ \/ b]
      BY <1>11 DEF RecordShort, Missed
    <3>. QED
      BY <3>1, <3>2, MissedTick
  <2>2. ledger' \in [Rooms \X Messages -> Row]
    <3>1. \A x \in Row, n \in 0..MISMATCH_STREAK_LIMIT : [x EXCEPT !.streak = n] \in Row
      BY DEF Row
    <3>2. ledger[Key] \in Row /\ Streak(ledger[Key]) \in 0..MISMATCH_STREAK_LIMIT
      BY <1>1, <2>0, StreakType
    <3>3. \/ ledger' = ledger
          \/ ledger' = [ledger EXCEPT ![Key] = [ledger[Key] EXCEPT !.streak = Streak(ledger[Key])]]
      BY <1>11 DEF RecordShort
    <3>. QED
      <4>. DEFINE x == [ledger[Key] EXCEPT !.streak = Streak(ledger[Key])]
      <4>1. x \in Row
        BY <3>1, <3>2
      <4>2. ledger' = ledger \/ ledger' = [ledger EXCEPT ![Key] = x]
        BY <3>3
      <4>. HIDE DEF x
      <4>. QED
        BY <1>1, <2>0, <4>1, <4>2
  <2>3. UNCHANGED faults \/ Fault
    BY <1>11 DEF RecordShort
  <2>4. UNCHANGED <<kind, stored, cursor, sends, given, lapses, forgot>>
    BY <1>11 DEF RecordShort
  <2>5. faults' \in 0..MaxFaults /\ faults <= faults'
    BY <1>1, <2>3 DEF Fault
  <2>. QED
    BY <1>1, <1>11, <2>0, <2>1, <2>2, <2>4, <2>5 DEF RecordShort, TickOK
<1>12. CASE Settle
  <2>1. /\ tick' = Idle /\ cursor' \in {cursor, cursor + 1} /\ stored' \in {stored, cursor + 1}
        /\ cursor < Len(kind) /\ faults' \in 0..MaxFaults /\ faults <= faults'
        /\ forgot' \in BOOLEAN /\ UNCHANGED <<kind, ledger, sends, given, lapses>>
    <3>1. cursor < Len(kind)
      BY <1>1, <1>12 DEF Settle
    <3>2. CASE tick.retrying
      BY <1>1, <1>12, <3>1, <3>2 DEF Settle
    <3>3. CASE ~tick.retrying
      <4>1. cursor' = cursor + 1 /\ tick' = Idle /\ UNCHANGED <<kind, ledger, sends, given, lapses>>
        BY <1>12, <3>3 DEF Settle, Msg
      <4>2. \/ stored' = cursor + 1 /\ faults' = faults /\ forgot' = forgot
            \/ stored' = stored /\ Fault /\ forgot' = TRUE
        BY <1>12, <3>3 DEF Settle, Msg
      <4>3. faults' \in 0..MaxFaults /\ faults <= faults'
        BY <1>1, <4>2 DEF Fault
      <4>. QED
        BY <1>1, <3>1, <4>1, <4>2, <4>3
    <3>. QED
      BY <3>2, <3>3
  <2>2. cursor' \in 0..Len(kind') /\ stored' \in 0..Len(kind')
    BY <1>1, <2>1
  <2>3. Idle \in Tick /\ Idle.pc = "idle" /\ Idle.outcome = "none"
    BY IdleTick
  <2>. QED
    BY <1>1, <2>1, <2>2, <2>3 DEF TickOK
<1>13. CASE Restart
  <2>1. /\ tick' = Idle /\ cursor' \in 0..Len(kind) /\ faults' = faults + 1 /\ faults < MaxFaults
        /\ lapses' \in {lapses, lapses + 1} /\ forgot' \in BOOLEAN
        /\ UNCHANGED <<kind, ledger, stored, sends, given>>
    BY <1>1, <1>13 DEF Restart, Fault
  <2>2. Idle \in Tick /\ Idle.pc = "idle" /\ Idle.outcome = "none"
    BY IdleTick
  <2>3. faults' \in 0..MaxFaults /\ lapses' \in Nat /\ lapses' <= faults'
    BY <1>1, <2>1
  <2>. QED
    BY <1>1, <2>1, <2>2, <2>3 DEF TickOK
<1>. QED
  BY <1>2, <1>3, <1>4, <1>5, <1>6, <1>7, <1>8, <1>9, <1>10, <1>11, <1>12, <1>13, <1>14 DEF Next, Step

(* The types, and that no more deliveries missed the ledger than faults came *)
(* about.                                                                    *)
TypeInv == TypeOK /\ TickOK /\ lapses <= faults

THEOREM TypeCorrect == Spec => []TypeInv
<1>1. Init => TypeInv
  <2>1. Init => lapses <= faults
    BY DEF Init
  <2>. QED
    BY <2>1, TypeInit DEF TypeInv
<1>2. TypeInv /\ [Next]_vars => TypeInv'
  BY TypeStep DEF TypeInv
<1>. QED
  BY <1>1, <1>2, PTL DEF Spec

-----------------------------------------------------------------------------
(* Deliveries and the ledger *)

Given(r) == {given[r][i] : i \in DOMAIN given[r]}

\* The ledger will be told of the delivery that was just confirmed.
Pending(r, m) == tick.outcome = "complete" /\ tick.room = r /\ Msg = m

\* Delivered messages the ledger does not tell of, nor will.
Owed(r) ==
    {m \in Given(r) : /\ ~ledger[<<r, m>>].settled \/ (tick.misread /\ tick.room = r /\ Msg = m)
                      /\ ~Pending(r, m)}

\* A delivery the ledger did not get is paid for when the message comes
\* again, or is still to be.
Counted ==
    \A r \in Rooms : Len(given[r]) - Cardinality(Given(r)) + Cardinality(Owed(r)) <= lapses

LEMMA FiniteGiven ==
    ASSUME TypeOK, NEW r \in Rooms
    PROVE  /\ given[r] \in Seq(Messages) /\ Len(given[r]) \in Nat
           /\ Given(r) \subseteq Messages /\ IsFiniteSet(Given(r)) /\ Cardinality(Given(r)) \in Nat
           /\ IsFiniteSet(Owed(r)) /\ Cardinality(Owed(r)) \in Nat
<1>1. given[r] \in Seq(Messages) /\ Len(given[r]) \in Nat
  BY DEF TypeOK
<1>2. Given(r) \subseteq Messages
  BY <1>1 DEF Given
<1>3. IsFiniteSet(Messages)
  BY FS_Interval, BoundsAssumption DEF Messages
<1>4. Owed(r) \subseteq Given(r)
  BY DEF Owed
<1>5. IsFiniteSet(Given(r)) /\ IsFiniteSet(Owed(r))
  BY <1>2, <1>3, <1>4, FS_Subset
<1>. QED
  BY <1>1, <1>2, <1>5, FS_CardinalityType

LEMMA GivenGrows ==
    ASSUME NEW s \in Seq(Messages), NEW t, NEW m, t = Append(s, m)
    PROVE  /\ {t[i] : i \in DOMAIN t} = {s[i] : i \in DOMAIN s} \cup {m}
           /\ Len(t) = Len(s) + 1
<1>1. /\ DOMAIN s = 1..Len(s) /\ DOMAIN t = 1..(Len(s) + 1) /\ Len(t) = Len(s) + 1
      /\ Len(s) \in Nat /\ t[Len(s) + 1] = m /\ \A i \in 1..Len(s) : t[i] = s[i]
  OBVIOUS
<1>2. 1..(Len(s) + 1) = (1..Len(s)) \cup {Len(s) + 1}
  BY <1>1
<1>. QED
  BY <1>1, <1>2

LEMMA OneMore ==
    ASSUME NEW S, NEW T, NEW x, IsFiniteSet(S), T \subseteq S \cup {x}
    PROVE  /\ IsFiniteSet(T) /\ Cardinality(T) \in Nat /\ Cardinality(S) \in Nat
           /\ Cardinality(T) <= Cardinality(S) + 1
           /\ x \notin T => Cardinality(T) <= Cardinality(S)
           /\ x \in S /\ x \notin T => Cardinality(T) + 1 <= Cardinality(S)
<1>1. /\ IsFiniteSet(S \cup {x}) /\ Cardinality(S \cup {x}) \in Nat /\ Cardinality(S) \in Nat
      /\ Cardinality(S \cup {x}) <= Cardinality(S) + 1
  BY FS_AddElement, FS_CardinalityType
<1>2. IsFiniteSet(T) /\ Cardinality(T) <= Cardinality(S \cup {x})
  BY <1>1, FS_Subset
<1>3. Cardinality(T) \in Nat
  BY <1>2, FS_CardinalityType
<1>4. ASSUME x \notin T PROVE Cardinality(T) <= Cardinality(S)
  BY <1>4, FS_Subset
<1>5. ASSUME x \in S, x \notin T PROVE Cardinality(T) + 1 <= Cardinality(S)
  <2>1. IsFiniteSet(S \ {x}) /\ Cardinality(S \ {x}) = Cardinality(S) - 1
    BY <1>5, FS_RemoveElement
  <2>2. T \subseteq S \ {x}
    BY <1>5
  <2>3. Cardinality(T) <= Cardinality(S \ {x})
    BY <2>1, <2>2, FS_Subset
  <2>. QED
    BY <1>1, <1>3, <2>1, <2>3
<1>. QED
  BY <1>1, <1>2, <1>3, <1>4, <1>5

\* A step delivers nothing and loses at most what it counts, or it delivers
\* one message, which the ledger did not tell of if it had come before; a
\* lapse may go with it.
LEMMA LedgerStep ==
    ASSUME TypeInv, TypeInv', [Next]_vars, NEW r \in Rooms
    PROVE  \/ given'[r] = given[r] /\ lapses' = lapses /\ Owed(r)' \subseteq Owed(r)
           \/ /\ given'[r] = given[r] /\ lapses' = lapses + 1
              /\ \E m : Owed(r)' \subseteq Owed(r) \cup {m}
           \/ /\ given'[r] = Append(given[r], Msg) /\ lapses' = lapses
              /\ Msg \in Given(r) => Msg \in Owed(r)
              /\ Owed(r)' \subseteq Owed(r) \ {Msg}
           \/ /\ given'[r] = Append(given[r], Msg) /\ lapses' = lapses + 1
              /\ Msg \in Given(r) => Msg \in Owed(r)
              /\ Owed(r)' \subseteq Owed(r) \cup {Msg}
<1>1. /\ ledger \in [Rooms \X Messages -> Row] /\ given \in [Rooms -> Seq(Messages)]
      /\ tick \in Tick /\ TickOK /\ lapses \in Nat /\ cursor \in Nat /\ TypeOK
      /\ Given(r) \subseteq Messages
  <2>1. TypeOK /\ TickOK
    BY DEF TypeInv
  <2>2. tick \in Tick /\ lapses \in 0..MaxFaults /\ cursor \in 0..Len(kind) /\ kind \in Seq(Kinds)
    BY <2>1 DEF TypeOK, Tick
  <2>3. ledger \in [Rooms \X Messages -> Row] /\ given \in [Rooms -> Seq(Messages)]
    BY <2>1 DEF TypeOK
  <2>4. Given(r) \subseteq Messages
    BY <2>1, FiniteGiven
  <2>. QED
    BY <2>1, <2>2, <2>3, <2>4
<1>2. ASSUME given'[r] = given[r], tick.outcome # "complete", lapses' = lapses,
             tick'.misread => tick.misread /\ tick'.room = tick.room /\ cursor' = cursor,
             \A k \in Rooms \X Messages : ledger[k].settled => ledger'[k].settled
      PROVE  given'[r] = given[r] /\ lapses' = lapses /\ Owed(r)' \subseteq Owed(r)
  <2>1. SUFFICES ASSUME NEW m \in Owed(r)' PROVE m \in Owed(r)
    BY <1>2
  <2>2. m \in Given(r) /\ m \in Messages
    BY <1>1, <1>2 DEF Owed, Given
  <2>3. ~Pending(r, m)
    BY <1>2 DEF Pending
  <2>4. CASE ~ledger'[<<r, m>>].settled
    BY <1>2, <2>2, <2>3, <2>4 DEF Owed
  <2>5. CASE tick'.misread /\ tick'.room = r /\ Msg' = m
    BY <1>2, <2>2, <2>3, <2>5 DEF Owed, Msg
  <2>. QED
    BY <2>4, <2>5 DEF Owed
<1>3. ASSUME given'[r] = given[r], lapses' = lapses + 1, tick'.misread => cursor' = cursor,
             \A k \in Rooms \X Messages : ledger[k].settled => ledger'[k].settled
      PROVE  /\ given'[r] = given[r] /\ lapses' = lapses + 1
             /\ \E m : Owed(r)' \subseteq Owed(r) \cup {m}
  <2>1. SUFFICES ASSUME NEW m \in Owed(r)', m # Msg PROVE m \in Owed(r)
    BY <1>3
  <2>2. m \in Given(r) /\ m \in Messages
    BY <1>1, <1>3 DEF Owed, Given
  <2>3. ~ledger'[<<r, m>>].settled
    BY <1>3, <2>1 DEF Owed, Msg
  <2>. QED
    BY <1>3, <2>1, <2>2, <2>3 DEF Owed, Pending
<1>4. ASSUME UNCHANGED <<ledger, given, lapses, tick, cursor>>
      PROVE  given'[r] = given[r] /\ lapses' = lapses /\ Owed(r)' \subseteq Owed(r)
  BY <1>4 DEF Owed, Given, Pending, Msg
<1>5. ASSUME Mark, tick.pc # "idle", tick.room <= NRooms
      PROVE  /\ \A k \in Rooms \X Messages : ledger[k].settled => ledger'[k].settled
             /\ \/ lapses' = lapses /\ ledger'[Key].settled
                \/ lapses' = lapses + 1
  <2>1. Key \in Rooms \X Messages
    BY <1>1, <1>5, KeyType
  <2>2. CASE ledger' = [ledger EXCEPT ![Key].settled = TRUE] /\ lapses' = lapses
    <3>1. \A k \in Rooms \X Messages : k # Key => ledger'[k] = ledger[k]
      BY <1>1, <2>2
    <3>2. ledger'[Key] = [ledger[Key] EXCEPT !.settled = TRUE] /\ ledger[Key] \in Row
      BY <1>1, <2>1, <2>2
    <3>3. ledger'[Key].settled
      BY <3>2 DEF Row
    <3>. QED
      BY <2>2, <3>1, <3>3
  <2>3. CASE ledger' = ledger /\ lapses' = lapses + 1
    BY <2>3
  <2>. QED
    BY <1>5, <2>2, <2>3 DEF Mark
<1>6. CASE UNCHANGED vars \/ Appear \/ Unreadable
  BY <1>4, <1>6 DEF vars, Appear, Unreadable
<1>7. CASE Read \/ Skip \/ Settle
  <2>1. tick.outcome # "complete" /\ UNCHANGED <<ledger, given, lapses>>
    BY <1>1, <1>7 DEF Read, Skip, Settle, TickOK
  <2>2. ~tick'.misread
    BY <1>1, <1>7, NextTick, IdleTick DEF Read, Skip, Settle, Acquired
  <2>. QED
    BY <1>2, <2>1, <2>2
<1>13. CASE Misread
  <2>1. given' = given /\ lapses' = lapses + 1 /\ ledger' = ledger /\ cursor' = cursor
    BY <1>13 DEF Misread
  <2>. QED
    BY <1>3, <2>1
<1>8. CASE SettleNothing
  <2>1. tick.outcome # "complete" /\ given' = given /\ Mark /\ tick.pc # "idle" /\ tick.room <= NRooms
        /\ ~tick'.misread
    BY <1>1, <1>8, NextTick DEF SettleNothing, TickOK
  <2>. QED
    BY <1>2, <1>3, <1>5, <2>1
<1>9. CASE RecordComplete
  <2>1. /\ tick.outcome = "complete" /\ given' = given /\ Mark /\ tick.pc # "idle"
        /\ tick.room <= NRooms /\ tick' = NextRoom(tick) /\ ~tick'.misread
    BY <1>1, <1>9, BoundsAssumption, NextTick DEF RecordComplete, TickOK, Rooms
  <2>2. CASE lapses' = lapses + 1
    BY <1>3, <1>5, <2>1, <2>2
  <2>3. CASE lapses' = lapses /\ ledger'[Key].settled
    <3>1. tick'.outcome # "complete"
      BY <1>1, <2>1, NextTick
    <3>2. ASSUME NEW m \in Owed(r)' PROVE m \in Owed(r)
      <4>1. m \in Given(r) /\ m \in Messages /\ ~ledger'[<<r, m>>].settled
        BY <1>1, <2>1, <3>2 DEF Owed, Given, Pending
      <4>2. ~ledger[<<r, m>>].settled
        BY <1>5, <2>1, <4>1
      <4>3. ~Pending(r, m)
        BY <2>3, <4>1 DEF Pending, Key
      <4>. QED
        BY <4>1, <4>2, <4>3 DEF Owed
    <3>. QED
      BY <2>1, <2>3, <3>2
  <2>. QED
    BY <1>5, <2>1, <2>2, <2>3
<1>10. CASE RecordShort
  <2>1. tick.outcome # "complete" /\ UNCHANGED <<given, lapses>>
    BY <1>10 DEF RecordShort
  <2>2. tick.pc # "idle" /\ tick.room <= NRooms
    BY <1>1, <1>10, BoundsAssumption DEF RecordShort, TickOK, Rooms
  <2>5. ~tick'.misread
    <3>1. NextRoom(tick) \in Tick /\ ~NextRoom(tick).misread
      BY <1>1, <2>2, NextTick
    <3>2. \E b \in BOOLEAN : tick' = [NextRoom(tick) EXCEPT !.retrying = @ \/ b]
      BY <1>10 DEF RecordShort, Missed
    <3>. QED
      BY <3>1, <3>2, MissedTick
  <2>3. Key \in Rooms \X Messages
    BY <1>1, <2>2, KeyType
  <2>4. \A k \in Rooms \X Messages : ledger[k].settled => ledger'[k].settled
    <3>1. \/ ledger' = ledger
          \/ ledger' = [ledger EXCEPT ![Key] = [ledger[Key] EXCEPT !.streak = Streak(ledger[Key])]]
      BY <1>10 DEF RecordShort
    <3>2. ledger[Key] \in Row /\ \A n : [ledger[Key] EXCEPT !.streak = n].settled = ledger[Key].settled
      BY <1>1, <2>3 DEF Row
    <3>. QED
      BY <1>1, <2>3, <3>1, <3>2
  <2>. QED
    BY <1>2, <2>1, <2>4, <2>5
<1>11. CASE Send \/ NotSent
  <2>1. /\ tick.outcome # "complete" /\ UNCHANGED <<ledger, cursor>>
        /\ tick.room \in Rooms /\ Msg \in Messages
        /\ ~ledger[<<tick.room, Msg>>].settled \/ tick.misread
    BY <1>1, <1>11, KeyType DEF Send, NotSent, TickOK, Key, Delivered
  <2>2. tick'.misread => tick.misread /\ tick'.room = tick.room
    <3>1. CASE NotSent
      BY <1>1, <3>1, NextTick DEF NotSent
    <3>2. CASE Send
      <4>1. PICK o \in {"complete", "short"} : tick' = [tick EXCEPT !.pc = "answer", !.outcome = o]
        BY <3>2 DEF Send
      <4>2. tick'.room = tick.room /\ tick'.misread = tick.misread
        BY <1>1, <4>1, AnswerTick
      <4>. QED
        BY <4>2
    <3>. QED
      BY <1>11, <3>1, <3>2
  <2>3. \/ NothingArrives
        \/ Arrive /\ lapses' = lapses /\ tick' = [tick EXCEPT !.pc = "answer", !.outcome = "complete"]
        \/ Arrive /\ lapses' = lapses + 1
    BY <1>11 DEF Send, NotSent, ArriveUnconfirmed
  <2>4. CASE NothingArrives
    BY <1>2, <2>1, <2>2, <2>4 DEF NothingArrives
  <2>5. CASE tick.room # r /\ Arrive
    <3>1. given'[r] = given[r]
      BY <1>1, <2>5 DEF Arrive
    <3>2. lapses' = lapses \/ lapses' = lapses + 1
      BY <2>3, <2>5 DEF NothingArrives
    <3>. QED
      BY <1>2, <1>3, <2>1, <2>2, <3>1, <3>2
  <2>6. ASSUME tick.room = r, Arrive
        PROVE  /\ given'[r] = Append(given[r], Msg) /\ Given(r)' = Given(r) \cup {Msg} /\ Msg' = Msg
               /\ Msg \in Given(r) => Msg \in Owed(r)
               /\ Owed(r)' \subseteq Owed(r) \cup {Msg}
    <3>1. given'[r] = Append(given[r], Msg) /\ Msg' = Msg
      BY <1>1, <2>1, <2>6 DEF Arrive, Msg
    <3>2. Given(r)' = Given(r) \cup {Msg}
      <4>1. given[r] \in Seq(Messages)
        BY <1>1
      <4>. QED
        BY <2>1, <3>1, <4>1, GivenGrows DEF Given
    <3>3. Msg \in Given(r) => Msg \in Owed(r)
      BY <2>1, <2>6 DEF Owed, Pending
    <3>4. Owed(r)' \subseteq Owed(r) \cup {Msg}
      BY <2>1, <3>1, <3>2 DEF Owed, Pending
    <3>. QED
      BY <3>1, <3>2, <3>3, <3>4
  <2>7. CASE /\ tick.room = r /\ Arrive /\ lapses' = lapses
             /\ tick' = [tick EXCEPT !.pc = "answer", !.outcome = "complete"]
    <3>1. tick'.outcome = "complete" /\ tick'.room = r
      BY <1>1, <2>7, AnswerTick
    <3>2. Msg \notin Owed(r)'
      BY <2>6, <2>7, <3>1 DEF Owed, Pending
    <3>. QED
      BY <2>6, <2>7, <3>2
  <2>8. CASE tick.room = r /\ Arrive /\ lapses' = lapses + 1
    BY <2>6, <2>8
  <2>. QED
    BY <2>3, <2>4, <2>5, <2>7, <2>8
<1>12. CASE Restart
  <2>0. ~tick'.misread
    BY <1>12, IdleTick DEF Restart
  <2>1. CASE tick.outcome = "complete"
    BY <1>3, <1>12, <2>0, <2>1 DEF Restart
  <2>2. CASE tick.outcome # "complete"
    BY <1>1, <1>2, <1>12, <2>0, <2>2 DEF Restart
  <2>. QED
    BY <2>1, <2>2
<1>. QED
  BY <1>6, <1>7, <1>8, <1>9, <1>10, <1>11, <1>12, <1>13 DEF Next, Step

LEMMA CountedStep ==
    ASSUME TypeInv, TypeInv', Counted, [Next]_vars
    PROVE  Counted'
<1>1. SUFFICES ASSUME NEW r \in Rooms
               PROVE  Len(given'[r]) - Cardinality(Given(r)') + Cardinality(Owed(r)') <= lapses'
  BY DEF Counted
<1>2. /\ given[r] \in Seq(Messages) /\ Len(given[r]) \in Nat
      /\ IsFiniteSet(Given(r)) /\ Cardinality(Given(r)) \in Nat
      /\ IsFiniteSet(Owed(r)) /\ Cardinality(Owed(r)) \in Nat /\ lapses \in Nat
      /\ Len(given[r]) - Cardinality(Given(r)) + Cardinality(Owed(r)) <= lapses
  BY FiniteGiven DEF TypeInv, TypeOK, Counted
<1>3. CASE given'[r] = given[r] /\ lapses' = lapses /\ Owed(r)' \subseteq Owed(r)
  <2>1. Cardinality(Owed(r)') \in Nat /\ Cardinality(Owed(r)') <= Cardinality(Owed(r))
    BY <1>2, <1>3, FS_Subset, FS_CardinalityType
  <2>2. Given(r)' = Given(r)
    BY <1>3 DEF Given
  <2>. QED
    BY <1>2, <1>3, <2>1, <2>2
<1>4. CASE /\ given'[r] = given[r] /\ lapses' = lapses + 1
           /\ \E m : Owed(r)' \subseteq Owed(r) \cup {m}
  <2>1. Cardinality(Owed(r)') \in Nat /\ Cardinality(Owed(r)') <= Cardinality(Owed(r)) + 1
    BY <1>2, <1>4, OneMore
  <2>2. Given(r)' = Given(r)
    BY <1>4 DEF Given
  <2>. QED
    BY <1>2, <1>4, <2>1, <2>2
<1>5. CASE /\ given'[r] = Append(given[r], Msg) /\ lapses' = lapses
           /\ Msg \in Given(r) => Msg \in Owed(r)
           /\ Owed(r)' \subseteq Owed(r) \ {Msg}
  <2>2. Given(r)' = Given(r) \cup {Msg} /\ Len(given'[r]) = Len(given[r]) + 1
    BY <1>2, <1>5, GivenGrows DEF Given
  <2>3. /\ Cardinality(Owed(r)') \in Nat /\ Cardinality(Owed(r)') <= Cardinality(Owed(r))
        /\ Msg \in Owed(r) => Cardinality(Owed(r)') + 1 <= Cardinality(Owed(r))
    BY <1>2, <1>5, OneMore
  <2>4. /\ Msg \in Given(r) => Cardinality(Given(r)') = Cardinality(Given(r))
        /\ Msg \notin Given(r) => Cardinality(Given(r)') = Cardinality(Given(r)) + 1
    BY <1>2, <2>2, FS_AddElement
  <2>. QED
    BY <1>2, <1>5, <2>2, <2>3, <2>4
<1>6. CASE /\ given'[r] = Append(given[r], Msg) /\ lapses' = lapses + 1
           /\ Msg \in Given(r) => Msg \in Owed(r)
           /\ Owed(r)' \subseteq Owed(r) \cup {Msg}
  <2>2. Given(r)' = Given(r) \cup {Msg} /\ Len(given'[r]) = Len(given[r]) + 1
    BY <1>2, <1>6, GivenGrows DEF Given
  <2>3. /\ Cardinality(Owed(r)') \in Nat /\ Cardinality(Owed(r)') <= Cardinality(Owed(r)) + 1
        /\ Msg \in Owed(r) => Cardinality(Owed(r)') <= Cardinality(Owed(r))
    <3>1. Cardinality(Owed(r)') \in Nat /\ Cardinality(Owed(r)') <= Cardinality(Owed(r)) + 1
      BY <1>2, <1>6, OneMore
    <3>2. ASSUME Msg \in Owed(r) PROVE Cardinality(Owed(r)') <= Cardinality(Owed(r))
      <4>1. Owed(r)' \subseteq Owed(r)
        BY <1>6, <3>2
      <4>. QED
        BY <1>2, <4>1, FS_Subset
    <3>. QED
      BY <3>1, <3>2
  <2>4. /\ Msg \in Given(r) => Cardinality(Given(r)') = Cardinality(Given(r))
        /\ Msg \notin Given(r) => Cardinality(Given(r)') = Cardinality(Given(r)) + 1
    BY <1>2, <2>2, FS_AddElement
  <2>. QED
    BY <1>2, <1>6, <2>2, <2>3, <2>4
<1>. QED
  BY <1>3, <1>4, <1>5, <1>6, LedgerStep

(* A message arrives whole in a room a second time only for a lapse: the     *)
(* ledger did not get the first time, could not tell of it, or was not told. *)
THEOREM DeliveredAtMostOnce == Spec => []DeliveredOnce
<1>1. Init => Counted
  <2>1. SUFFICES ASSUME Init, NEW r \in Rooms
                 PROVE  Len(given[r]) - Cardinality(Given(r)) + Cardinality(Owed(r)) <= lapses
    BY DEF Counted
  <2>2. given[r] = <<>> /\ lapses = 0
    BY <2>1 DEF Init
  <2>3. Given(r) = {} /\ Owed(r) = {} /\ Len(given[r]) = 0
    BY <2>2 DEF Given, Owed
  <2>. QED
    BY <2>2, <2>3, FS_EmptySet
<1>2. TypeInv /\ TypeInv' /\ Counted /\ [Next]_vars => Counted'
  BY CountedStep
<1>3. TypeInv /\ Counted => DeliveredOnce
  <2>1. SUFFICES ASSUME TypeInv, Counted, NEW r \in Rooms
                 PROVE  Len(given[r]) - Cardinality(Given(r)) <= lapses
    BY DEF DeliveredOnce, Given
  <2>2. /\ Len(given[r]) \in Nat /\ Cardinality(Given(r)) \in Nat /\ Cardinality(Owed(r)) \in Nat
        /\ lapses \in Nat
    BY <2>1, FiniteGiven DEF TypeInv, TypeOK
  <2>3. Len(given[r]) - Cardinality(Given(r)) + Cardinality(Owed(r)) <= lapses
    BY <2>1 DEF Counted
  <2>. QED
    BY <2>2, <2>3
<1>. QED
  BY <1>1, <1>2, <1>3, TypeCorrect, PTL DEF Spec

-----------------------------------------------------------------------------
(* Order *)

\* While the cursor is kept, memory and disk agree, and nothing was delivered
\* beyond the message in hand.
Kept ==
    ~forgot =>
        /\ stored = cursor
        /\ \A r \in Rooms :
              /\ \A i \in DOMAIN given[r] : given[r][i] <= cursor + 1
              /\ \A i, j \in DOMAIN given[r] : i < j => given[r][i] <= given[r][j]

LEMMA KeptStep ==
    ASSUME TypeInv, TypeInv', Kept, [Next]_vars
    PROVE  Kept'
<1>1. SUFFICES ASSUME ~forgot'
               PROVE  /\ stored' = cursor'
                      /\ \A r \in Rooms :
                            /\ \A i \in DOMAIN given'[r] : given'[r][i] <= cursor' + 1
                            /\ \A i, j \in DOMAIN given'[r] : i < j => given'[r][i] <= given'[r][j]
  BY DEF Kept
<1>2. given \in [Rooms -> Seq(Messages)] /\ cursor \in Nat /\ tick \in Tick /\ TypeOK /\ TickOK
  BY DEF TypeInv, TypeOK, Tick
<1>3. ~forgot
  BY <1>1, <1>2 DEF Next, Step, vars, Appear, Unreadable, Read, Skip, Misread, SettleNothing, Send, NotSent,
                    RecordComplete, RecordShort, Settle, Restart
<1>4. /\ stored = cursor
      /\ \A r \in Rooms :
            /\ given[r] \in Seq(Messages)
            /\ \A i \in DOMAIN given[r] : given[r][i] \in Int /\ given[r][i] <= cursor + 1
            /\ \A i, j \in DOMAIN given[r] : i < j => given[r][i] <= given[r][j]
  <2>1. SUFFICES ASSUME NEW r \in Rooms
                 PROVE  given[r] \in Seq(Messages) /\ \A i \in DOMAIN given[r] : given[r][i] \in Int
    BY <1>3 DEF Kept
  <2>2. given[r] \in Seq(Messages)
    BY <1>2
  <2>3. \A i \in DOMAIN given[r] : given[r][i] \in Messages
    BY <2>2
  <2>. QED
    BY <2>2, <2>3 DEF Messages
<1>5. ASSUME UNCHANGED <<stored, cursor, given>> PROVE Kept'
  BY <1>4, <1>5 DEF Kept
<1>6. CASE Send \/ NotSent
  <2>1. /\ tick.room \in Rooms /\ UNCHANGED <<stored, cursor>> /\ Msg \in Messages /\ Msg = cursor + 1
        /\ given' = given \/ given' = [given EXCEPT ![tick.room] = Append(@, Msg)]
    BY <1>2, <1>6, KeyType DEF Send, NotSent, NothingArrives, ArriveUnconfirmed, Arrive
  <2>2. SUFFICES ASSUME NEW r \in Rooms
                 PROVE  /\ \A i \in DOMAIN given'[r] : given'[r][i] <= cursor + 1
                        /\ \A i, j \in DOMAIN given'[r] : i < j => given'[r][i] <= given'[r][j]
    BY <1>4, <2>1
  <2>3. CASE given'[r] = given[r]
    BY <1>4, <2>3
  <2>4. CASE given'[r] = Append(given[r], cursor + 1)
    <3>1. given[r] \in Seq(Messages) /\ cursor + 1 \in Messages
      BY <1>4, <2>1
    <3>2. /\ DOMAIN given'[r] = 1..(Len(given[r]) + 1) /\ DOMAIN given[r] = 1..Len(given[r])
          /\ given'[r][Len(given[r]) + 1] = cursor + 1 /\ Len(given[r]) \in Nat
          /\ \A i \in 1..Len(given[r]) : given'[r][i] = given[r][i]
      BY <2>4, <3>1
    <3>3. \A i \in DOMAIN given'[r] : i \in DOMAIN given[r] \/ i = Len(given[r]) + 1
      BY <3>2
    <3>4. \A i \in DOMAIN given'[r] : given'[r][i] <= cursor + 1
      BY <1>2, <1>4, <3>2, <3>3
    <3>5. ASSUME NEW i \in DOMAIN given'[r], NEW j \in DOMAIN given'[r], i < j
          PROVE  given'[r][i] <= given'[r][j]
      <4>1. CASE j = Len(given[r]) + 1
        BY <3>2, <3>4, <4>1
      <4>2. CASE j \in DOMAIN given[r]
        <5>1. i \in DOMAIN given[r]
          BY <3>2, <3>5, <4>2
        <5>. QED
          BY <1>4, <3>2, <3>5, <4>2, <5>1
      <4>. QED
        BY <3>3, <4>1, <4>2
    <3>. QED
      BY <3>4, <3>5
  <2>. QED
    BY <1>2, <2>1, <2>3, <2>4
<1>7. CASE Settle
  <2>1. cursor' \in {cursor, cursor + 1} /\ stored' = cursor' /\ given' = given
    BY <1>1, <1>4, <1>7 DEF Settle, Msg
  <2>2. \A x \in Int : x <= cursor + 1 => x <= cursor' + 1
    <3>1. cursor' = cursor \/ cursor' = cursor + 1
      BY <2>1
    <3>. QED
      BY <1>2, <3>1
  <2>. QED
    BY <1>4, <2>1, <2>2
<1>8. CASE Restart
  BY <1>1, <1>4, <1>5, <1>8 DEF Restart, Kept
<1>9. CASE UNCHANGED vars \/ Appear \/ Unreadable \/ Read \/ Skip \/ Misread \/ SettleNothing
           \/ RecordComplete \/ RecordShort
  <2>1. UNCHANGED <<stored, cursor, given>>
    BY <1>9 DEF vars, Appear, Unreadable, Read, Skip, Misread, SettleNothing, RecordComplete, RecordShort
  <2>. QED
    BY <1>1, <1>5, <2>1 DEF Kept
<1>. QED
  BY <1>6, <1>7, <1>8, <1>9 DEF Next, Step

(* The complete deliveries of a room keep the order of the conversation      *)
(* while no cursor is lost.                                                  *)
THEOREM KeptInOrder == Spec => []InOrder
<1>1. Init => Kept
  <2>1. SUFFICES ASSUME Init PROVE stored = cursor /\ \A r \in Rooms : DOMAIN given[r] = {}
    BY DEF Kept
  <2>. QED
    BY <2>1 DEF Init
<1>2. TypeInv /\ TypeInv' /\ Kept /\ [Next]_vars => Kept'
  BY KeptStep
<1>3. Kept => InOrder
  BY DEF Kept, InOrder
<1>. QED
  BY <1>1, <1>2, <1>3, TypeCorrect, PTL DEF Spec
===============================================================================
