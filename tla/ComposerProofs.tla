--------------------------- MODULE ComposerProofs ---------------------------
(***************************************************************************)
(* The properties of Composer hold for every set of texts and every bound. *)
(***************************************************************************)
EXTENDS Composer, TLAPS

(* Steps at which the field may already have been written to, and steps at  *)
(* which the message cannot have been posted.                               *)
AfterWrite == {"reread", "type", "verify", "send", "press", "wait", "rewrite", "prove",
               "escalate", "wait2"}
BeforePost == Steps \ {"idle", "wait", "wait2"}

(* What the invocation knows of itself: while it runs it has a message and   *)
(* no result, and without a mutation nothing was touched or posted.          *)
SendOK ==
    /\ send.pc # "idle" => send.message \in Texts /\ send.result = "none"
    /\ send.pc \in AfterWrite => send.mutation
    /\ ~send.mutation => ~send.touched /\ send.posts = send.late
    /\ UnavailableIsUntouched

(* All posts but one are late; the one came in a wait, and the field has not *)
(* held the message since.                                                   *)
PostOK ==
    /\ send.posts = send.late \/ send.posts = send.late + 1
    /\ send.pc \in BeforePost => send.posts = send.late
    /\ Waiting /\ send.posts = send.late + 1 => composer # send.message

(* An action that rests on a look may meet a draft, and so may a press, only *)
(* after a fault that no harm has been counted for.                          *)
HarmOK ==
    /\ DraftKept
    /\ Committed /\ Foreign => harm < faults
    /\ send.pc \in {"type", "press", "rewrite", "escalate"} \/ presses > 0 =>
          (composer \in Human => harm < faults)

IInv == TypeOK /\ SendOK /\ PostOK /\ HarmOK

LEMMA Distinct ==
    /\ Empty \notin Human /\ Mixed \notin Human /\ Unreadable \notin Human /\ Empty # Unreadable
    /\ \A m \in Texts : m # Empty /\ m # Mixed /\ m # Unreadable /\ m \notin Human
BY TextsAssumption DEF Empty, Draft, Headed, Mixed, Human, Unreadable

LEMMA InitInv == Init => IInv
BY BoundsAssumption DEF Init, IInv, TypeOK, SendOK, PostOK, HarmOK, NoSend, Steps, AfterWrite, BeforePost,
   UnavailableIsUntouched, DraftKept, Committed, Waiting, Foreign, Human, Draft, Headed, Empty

(* The effect of set_value, whether it reports success or not.               *)
Written(pc, applied) ==
    /\ composer' = IF applied THEN Message ELSE composer
    /\ harm' = IF applied /\ Foreign THEN harm + 1 ELSE harm
    /\ send' = [send EXCEPT !.pc = pc, !.mutation = TRUE, !.touched = @ \/ applied]
    /\ UNCHANGED <<presses, allowed, sends, faults>>

LEMMA SetValueEffect ==
    ASSUME NEW good, NEW bad, SetValue(good, bad)
    PROVE  \E applied \in BOOLEAN : Written(good, applied) \/ Written(bad, applied)
<1>1. PICK ok \in BOOLEAN, applied \in BOOLEAN :
        /\ composer' = IF applied THEN Message ELSE composer
        /\ harm' = IF applied /\ Foreign THEN harm + 1 ELSE harm
        /\ send' = [send EXCEPT !.pc = IF ok THEN good ELSE bad, !.mutation = Begin(ok),
                                !.touched = @ \/ applied]
        /\ UNCHANGED <<presses, allowed, sends, faults>>
  BY DEF SetValue
<1>2. CASE ok
  BY <1>1, <1>2 DEF Written, Begin
<1>3. CASE ~ok
  BY <1>1, <1>3 DEF Written, Begin
<1>. QED
  BY <1>2, <1>3

(* What a press changes of the invocation when it takes effect.              *)
SendType == [pc : Steps, message : Texts \cup {Empty}, mutation : BOOLEAN,
             touched : BOOLEAN, posts : Nat, late : Nat,
             result : {"none", "accepted", "unavailable", "failed"}]

Landed ==
    /\ send' \in SendType
    /\ send'.pc = send.pc /\ send'.message = send.message /\ send'.mutation = send.mutation
    /\ send'.touched = send.touched /\ send'.result = send.result
    /\ \/ UNCHANGED send
       \/ /\ composer = Message /\ composer # Empty /\ send'.posts = send.posts + 1
          /\ send'.late = IF Waiting THEN send.late ELSE send.late + 1

LEMMA LandsEffect ==
    ASSUME TypeOK, Lands
    PROVE  Landed
<1>. send \in SendType
  BY DEF TypeOK, SendType
<1>1. CASE UNCHANGED send
  BY <1>1 DEF Landed
<1>2. CASE ~UNCHANGED send
  <2>. DEFINE n == send.posts + 1
              k == IF Waiting THEN send.late ELSE send.late + 1
  <2>1. n \in Nat /\ k \in Nat
    BY DEF SendType
  <2>2. send' = [send EXCEPT !.posts = n, !.late = k] /\ composer = Message /\ composer # Empty
    BY <1>2 DEF Lands
  <2>3. n = send.posts + 1 /\ k = IF Waiting THEN send.late ELSE send.late + 1
    OBVIOUS
  <2>. HIDE DEF n, k
  <2>4. /\ send' \in SendType /\ send'.posts = n /\ send'.late = k
        /\ send'.pc = send.pc /\ send'.message = send.message /\ send'.mutation = send.mutation
        /\ send'.touched = send.touched /\ send'.result = send.result
    BY <2>1, <2>2 DEF SendType
  <2>. QED
    BY <2>2, <2>3, <2>4 DEF Landed
<1>. QED
  BY <1>1, <1>2

(* What every step leaves well typed.                                        *)
LEMMA TypeStep == TypeOK /\ [Next]_vars => TypeOK'
<1> USE BoundsAssumption DEF TypeOK, Goto, Steps
<1>. SUFFICES ASSUME TypeOK, [Next]_vars PROVE TypeOK'
  OBVIOUS
<1>1. CASE \E m \in Texts : Start(m)
  <2>1. PICK m \in Texts : Start(m)
    BY <1>1
  <2>2. send' = [NoSend EXCEPT !.pc = "inspect", !.message = m]
    BY <2>1 DEF Start
  <2>3. send' \in [pc : Steps, message : Texts \cup {Empty}, mutation : BOOLEAN,
                  touched : BOOLEAN, posts : Nat, late : Nat,
                  result : {"none", "accepted", "unavailable", "failed"}]
    BY <2>2 DEF NoSend
  <2>4. sends' \in 0..MaxSends /\ allowed' \subseteq Texts /\ UNCHANGED <<composer, presses, harm, faults>>
    BY <2>1 DEF Start
  <2>. QED
    BY <2>3, <2>4
<1>2. CASE Inspect \/ Reapply \/ Recheck \/ Reread
  BY <1>2 DEF Inspect, Reapply, Recheck, Reread, Look
<1>3. CASE Write \/ Rewrite
  <2>1. PICK pc \in Steps, applied \in BOOLEAN : Written(pc, applied)
    BY <1>3, SetValueEffect DEF Write, Rewrite
  <2>2. composer' \in Texts \cup {Empty, Mixed} \cup Human /\ harm' \in Nat
    BY <2>1 DEF Written, Message
  <2>3. CASE applied
    BY <2>1, <2>2, <2>3 DEF Written
  <2>4. CASE ~applied
    BY <2>1, <2>2, <2>4 DEF Written
  <2>. QED
    BY <2>3, <2>4
<1>4. CASE TypeText \/ Verify \/ BeforeSend \/ Prove
  <2>1. CASE TypeText
    <3>1. composer' \in Texts \cup {Empty, Mixed} \cup Human /\ harm' \in Nat
      BY <2>1 DEF TypeText, Message
    <3>. QED
      BY <2>1, <3>1 DEF TypeText
  <2>2. CASE Verify \/ BeforeSend \/ Prove
    BY <2>2 DEF Verify, BeforeSend, Prove, Holds
  <2>. QED
    BY <1>4, <2>1, <2>2
<1>5. CASE Press \/ Escalate \/ Lost
  BY <1>5 DEF Press, Escalate, Submit, Lost
<1>9. CASE Lands
  <2>1. send' \in SendType
    BY <1>9, LandsEffect DEF Landed
  <2>. QED
    BY <1>9, <2>1 DEF Lands, SendType
<1>6. CASE Delivered("wait") \/ Survived \/ Delivered("wait2") \/ GiveUp \/ Kill
  BY <1>6 DEF Delivered, Survived, GiveUp, Kill, End
<1>7. CASE HumanTypes \/ HumanClears
  BY <1>7 DEF HumanTypes, HumanClears, Person
<1>8. CASE UNCHANGED vars
  BY <1>8 DEF vars
<1>. QED
  BY <1>1, <1>2, <1>3, <1>4, <1>5, <1>6, <1>7, <1>8, <1>9 DEF Next, LocalSend

(* A step keeps what the invocation knows of itself.                         *)
LEMMA SendStep == IInv /\ [Next]_vars => SendOK'
<1> USE DEF Goto, Steps, At, AfterWrite
<1>. SUFFICES ASSUME IInv, [Next]_vars PROVE SendOK'
  OBVIOUS
<1>. TypeOK /\ SendOK
  BY DEF IInv
<1> USE DEF TypeOK, SendOK, UnavailableIsUntouched
<1>1. CASE \E m \in Texts : Start(m)
  BY <1>1 DEF Start, NoSend
<1>2. CASE Inspect \/ Reapply \/ Recheck \/ Reread
  BY <1>2 DEF Inspect, Reapply, Recheck, Reread
<1>3. CASE Write \/ Rewrite
  BY <1>3 DEF Write, Rewrite, SetValue, Begin, Message
<1>4. CASE TypeText \/ Verify \/ BeforeSend \/ Prove
  BY <1>4 DEF TypeText, Verify, BeforeSend, Prove, Holds, Message
<1>5. CASE Press \/ Escalate \/ Lost
  BY <1>5 DEF Press, Escalate, Submit, Lost
<1>9. CASE Lands
  <2>1. Landed
    BY <1>9, LandsEffect
  <2>2. Waiting => send.mutation
    BY DEF Waiting
  <2>3. send.result = "unavailable" => ~Waiting
    BY DEF Waiting
  <2>. QED
    BY <2>1, <2>2, <2>3 DEF Landed
<1>6. CASE Delivered("wait") \/ Survived \/ Delivered("wait2") \/ GiveUp \/ Kill
  BY <1>6 DEF Delivered, Survived, GiveUp, Kill, End
<1>7. CASE HumanTypes \/ HumanClears
  BY <1>7 DEF HumanTypes, HumanClears, Person
<1>8. CASE UNCHANGED vars
  BY <1>8 DEF vars
<1>. QED
  BY <1>1, <1>2, <1>3, <1>4, <1>5, <1>6, <1>7, <1>8, <1>9 DEF Next, LocalSend

(* A step keeps the message posted once at most in a wait: the field is      *)
(* cleared by the post, and the escalation follows only on the message       *)
(* standing there.                                                           *)
LEMMA PostStep == IInv /\ [Next]_vars => PostOK'
<1> USE DEF Goto, Steps, At, BeforePost, Message
<1>. SUFFICES ASSUME IInv, [Next]_vars PROVE PostOK'
  OBVIOUS
<1>. TypeOK /\ SendOK /\ PostOK
  BY DEF IInv
<1> USE Distinct DEF TypeOK, SendOK, PostOK, Waiting
<1>1. CASE \E m \in Texts : Start(m)
  BY <1>1 DEF Start, NoSend
<1>2. CASE Inspect \/ Reapply \/ Recheck \/ Reread
  BY <1>2 DEF Inspect, Reapply, Recheck, Reread
<1>3. CASE Write \/ Rewrite
  BY <1>3 DEF Write, Rewrite, SetValue
<1>4. CASE TypeText \/ Verify \/ BeforeSend \/ Prove
  BY <1>4 DEF TypeText, Verify, BeforeSend, Prove, Holds
<1>5. CASE Press \/ Escalate \/ Lost
  BY <1>5 DEF Press, Escalate, Submit, Lost
<1>10. CASE Lands
  <2>1. Landed /\ composer' = Empty
    BY <1>10, LandsEffect DEF Lands
  <2>2. CASE UNCHANGED send
    BY <2>1, <2>2
  <2>3. CASE ~UNCHANGED send
    <3>1. /\ send'.pc = send.pc /\ send'.message = send.message
          /\ composer = send.message /\ composer # Empty /\ send'.posts = send.posts + 1
          /\ send'.late = IF Waiting THEN send.late ELSE send.late + 1
      BY <2>1, <2>3 DEF Landed
    <3>2. CASE Waiting
      <4>1. send.posts = send.late
        BY <3>1, <3>2
      <4>2. send.pc \notin BeforePost
        BY <3>2
      <4>. QED
        BY <2>1, <3>1, <3>2, <4>1, <4>2
    <3>3. CASE ~Waiting
      <4>1. send'.late = send.late + 1
        BY <3>1, <3>3
      <4>. QED
        BY <3>1, <3>3, <4>1
    <3>. QED
      BY <3>2, <3>3
  <2>. QED
    BY <2>2, <2>3
<1>6. CASE Survived
  BY <1>6 DEF Survived, Cleared, Read
<1>7. CASE Delivered("wait") \/ Delivered("wait2") \/ GiveUp \/ Kill
  BY <1>7 DEF Delivered, GiveUp, Kill, End
<1>8. CASE HumanTypes \/ HumanClears
  BY <1>8 DEF HumanTypes, HumanClears, Person
<1>9. CASE UNCHANGED vars
  BY <1>9 DEF vars
<1>. QED
  BY <1>1, <1>2, <1>3, <1>4, <1>5, <1>6, <1>7, <1>8, <1>9, <1>10 DEF Next, LocalSend

(* A step keeps harm within the faults: a look that lets an action go ahead  *)
(* over a draft was blind, and an edit after the look is itself a fault.     *)
LEMMA HarmStep == IInv /\ [Next]_vars => HarmOK'
<1> USE DEF Goto, Steps, At, Message, Committed, Foreign, UnderHeadline
<1>. SUFFICES ASSUME IInv, [Next]_vars PROVE HarmOK'
  OBVIOUS
<1>. TypeOK /\ SendOK /\ HarmOK
  BY DEF IInv
<1> USE Distinct DEF TypeOK, SendOK, HarmOK, DraftKept
<1>1. CASE \E m \in Texts : Start(m)
  BY <1>1 DEF Start, NoSend
<1>2. CASE Inspect
  BY <1>2 DEF Inspect, Look, Blind
<1>3. CASE Reapply \/ Reread
  BY <1>3 DEF Reapply, Reread
<1>4. CASE Recheck
  <2>1. PICK v \in Read : Look(v) /\ Free(v)
    BY <1>4 DEF Recheck
  <2>2. Foreign => Blind(v)
    BY <2>1 DEF Read, Free, Blind
  <2>3. Foreign => harm < faults'
    BY <2>1, <2>2 DEF Look
  <2>4. faults <= faults' /\ faults' \in Nat
    BY <2>1 DEF Look
  <2>5. send'.pc = "write" /\ send'.message = send.message /\ UNCHANGED <<composer, presses, harm>>
    BY <1>4 DEF Recheck
  <2>. QED
    BY <2>3, <2>4, <2>5
<1>5. CASE Write \/ Rewrite
  <2>1. PICK pc \in {"verify", "reread", "prove"}, applied \in BOOLEAN : Written(pc, applied)
    BY <1>5, SetValueEffect DEF Write, Rewrite
  <2>2. send'.pc = pc /\ send'.message = send.message /\ UNCHANGED <<presses, faults>>
    BY <2>1 DEF Written
  <2>3. Foreign => harm < faults
    BY <1>5 DEF Write, Rewrite
  <2>4. CASE applied
    <3>1. composer' = send.message /\ send.message \in Texts /\ composer' \notin Human
      BY <1>5, <2>1, <2>4 DEF Written, Write, Rewrite
    <3>2. harm' <= faults
      BY <2>1, <2>3, <2>4 DEF Written
    <3>. QED
      BY <2>2, <3>1, <3>2
  <2>5. CASE ~applied
    <3>1. UNCHANGED <<composer, harm>>
      BY <2>1, <2>5 DEF Written
    <3>. QED
      BY <2>2, <3>1
  <2>. QED
    BY <2>4, <2>5
<1>6. CASE TypeText \/ Verify \/ BeforeSend \/ Prove
  <2>1. CASE TypeText
    <3>1. /\ send'.pc = "verify" /\ UNCHANGED <<presses, faults>> /\ harm' <= faults
          /\ composer' \notin Human
      BY <2>1 DEF TypeText
    <3>. QED
      BY <3>1
  <2>2. CASE Verify \/ BeforeSend \/ Prove
    <3>1. /\ composer' = send.message /\ send.message \in Texts /\ composer' \notin Human
          /\ UNCHANGED <<harm, faults>>
      BY <2>2 DEF Verify, BeforeSend, Prove, Holds
    <3>. QED
      BY <3>1
  <2>. QED
    BY <1>6, <2>1, <2>2
<1>7. CASE Press \/ Escalate
  <2>1. composer \in Human => harm < faults
    BY <1>7 DEF Press, Escalate
  <2>2. UNCHANGED <<composer, harm, faults>>
    BY <1>7 DEF Press, Escalate, Submit
  <2>. QED
    BY <2>1, <2>2
<1>8. CASE Lands
  <2>1. composer' = Empty /\ harm' <= faults /\ faults' = faults
    BY <1>8 DEF Lands
  <2>. QED
    BY <2>1
<1>9. CASE Lost
  BY <1>9 DEF Lost
<1>10. CASE Survived
  <2>1. composer = send.message /\ send.message \in Texts /\ composer \notin Human
    BY <1>10 DEF Survived, Cleared, Read
  <2>. QED
    BY <1>10, <2>1 DEF Survived
<1>11. CASE Delivered("wait") \/ Delivered("wait2") \/ GiveUp \/ Kill
  BY <1>11 DEF Delivered, GiveUp, Kill, End
<1>12. CASE HumanTypes \/ HumanClears
  BY <1>12 DEF HumanTypes, HumanClears, Person
<1>13. CASE UNCHANGED vars
  BY <1>13 DEF vars
<1>. QED
  BY <1>1, <1>2, <1>3, <1>4, <1>5, <1>6, <1>7, <1>8, <1>9, <1>10, <1>11, <1>12, <1>13 DEF Next, LocalSend

(* The inductive invariant holds in every state.                             *)
THEOREM Invariance == Spec => []IInv
<1>1. IInv /\ [Next]_vars => IInv'
  BY TypeStep, SendStep, PostStep, HarmStep DEF IInv
<1>. QED
  BY InitInv, <1>1, PTL DEF Spec

(* guarded_composer_send_once replaces or sends no draft of a person, but    *)
(* for an edit after the last look or a look that saw nothing; a draft under *)
(* the headline of the digest it takes for its own.                          *)
THEOREM DraftsKept == Spec => []DraftKept
<1>1. IInv => DraftKept
  BY DEF IInv, HarmOK
<1>. QED
  BY Invariance, <1>1, PTL

(* One invocation of local-send posts its message once at most, and once     *)
(* more for each press that takes effect when no wait for it is running.     *)
THEOREM PostedOnce == Spec => []OnePostPerSend
<1>1. IInv => OnePostPerSend
  BY DEF IInv, PostOK, OnePostPerSend, TypeOK
<1>. QED
  BY Invariance, <1>1, PTL

(* What local-send reports as unavailable changed nothing, and nothing but   *)
(* late presses of earlier invocations was posted in its time.               *)
THEOREM UnavailableKept == Spec => []UnavailableIsUntouched
<1>1. IInv => UnavailableIsUntouched
  BY DEF IInv, SendOK
<1>. QED
  BY Invariance, <1>1, PTL
=============================================================================
