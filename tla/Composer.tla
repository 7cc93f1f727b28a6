------------------------------ MODULE Composer ------------------------------
(***************************************************************************)
(* One automatic send through the message field of a KakaoTalk window      *)
(* (src/src/ax_send.rs, guarded_composer_send_once and what it calls).     *)
(* The field is shared with a person, who may type, clear or send at any   *)
(* moment; reads may fail, writes may fail or only seem to, and a press is *)
(* an event that the program takes up later, or never.  Between a look at  *)
(* the field and what rests on it the person may be faster: these moments, *)
(* and looks that see nothing, are counted.                                *)
(***************************************************************************)
EXTENDS Integers, FiniteSets

CONSTANTS
    Texts,      \* outgoing texts
    Digests,    \* those of them under the headline of the news digest
    MaxSends,   \* bound: invocations of local-send
    MaxFaults   \* bound: unlucky edits and blind looks

Empty == "empty"
Draft == "draft"     \* what a person typed
Headed == "headed"   \* the same, and it begins with the headline of the digest
Mixed == "mixed"     \* a draft that the message was typed into
Human == {Draft, Headed}
Unreadable == "unreadable"

ASSUME TextsAssumption == {Empty, Draft, Headed, Mixed, Unreadable} \cap Texts = {} /\ Digests \subseteq Texts
ASSUME BoundsAssumption == MaxSends \in Nat /\ MaxFaults \in Nat

VARIABLES
    composer,   \* the field
    send,       \* the invocation: step, message, mutation_started, history
    presses,    \* presses of the button or of Return that may still take effect
    allowed,    \* texts of the pipeline that may be left in the field
    sends,      \* how many invocations there were
    harm,       \* history: drafts of a person that were replaced or sent
    faults      \* history: unlucky edits and blind looks

vars == <<composer, send, presses, allowed, sends, harm, faults>>

Steps == {"idle", "inspect", "reapply", "restage", "recheck", "write", "reread", "type",
          "verify", "send", "press", "wait", "rewrite", "prove", "escalate", "wait2"}

TypeOK ==
    /\ composer \in Texts \cup {Empty, Mixed} \cup Human
    /\ send \in [pc : Steps, message : Texts \cup {Empty}, mutation : BOOLEAN,
                 touched : BOOLEAN, posts : Nat, late : Nat,
                 result : {"none", "accepted", "unavailable", "failed"}]
    /\ presses \in Nat
    /\ allowed \subseteq Texts
    /\ sends \in 0..MaxSends
    /\ harm \in Nat /\ faults \in Nat

NoSend == [pc |-> "idle", message |-> Empty, mutation |-> FALSE, touched |-> FALSE,
           posts |-> 0, late |-> 0, result |-> "none"]

Init ==
    /\ composer = Empty
    /\ send = NoSend
    /\ presses = 0
    /\ allowed = {}
    /\ sends = 0
    /\ harm = 0
    /\ faults = 0

-----------------------------------------------------------------------------
At(pc) == send.pc = pc
Message == send.message
Goto(pc) == send' = [send EXCEPT !.pc = pc]

\* composer_text: None when the value is no readable string.
Read == {composer, Unreadable}

\* A look that sees nothing where a person's draft is.
Blind(v) == v = Unreadable /\ composer \in Human
Look(v) ==
    /\ Blind(v) => faults < MaxFaults
    /\ faults' = IF Blind(v) THEN faults + 1 ELSE faults

\* What may be replaced: nothing, what was allowed, and for a digest whatever
\* stands under its headline, a person's text too.
UnderHeadline(v) == Message \in Digests /\ v \in Digests \cup {Headed}
Free(v) == v \in {Empty, Unreadable} \cup allowed \/ UnderHeadline(v)
Foreign == composer \in Human /\ ~UnderHeadline(composer)

\* The worker allows its own texts to be left in the field, then runs
\* local-send with one of them.
Start(m) ==
    /\ At("idle")
    /\ sends < MaxSends
    /\ sends' = sends + 1
    /\ allowed' = allowed \cup {m}
    /\ send' = [NoSend EXCEPT !.pc = "inspect", !.message = m]
    /\ UNCHANGED <<composer, presses, harm, faults>>

\* The field may be empty, hold this message, or another text of the pipeline.
Inspect ==
    /\ At("inspect")
    /\ \E v \in Read :
          /\ Look(v)
          /\ \/ v = Message /\ Goto("reapply")
             \/ v # Message /\ Free(v) /\ Goto("recheck")
    /\ UNCHANGED <<composer, presses, allowed, sends, harm>>

\* The message is there already: it is applied once more.
Reapply ==
    /\ At("reapply")
    /\ composer = Message
    /\ Goto("restage")
    /\ UNCHANGED <<composer, presses, allowed, sends, harm, faults>>

RecheckSkipped ==
    /\ At("recheck")
    /\ Goto("write")
    /\ UNCHANGED <<composer, presses, allowed, sends, harm, faults>>

\* The look right before the write.
Recheck ==
    /\ At("recheck")
    /\ \E v \in Read : Look(v) /\ Free(v)
    /\ Goto("write")
    /\ UNCHANGED <<composer, presses, allowed, sends, harm>>

BeginAfterwards(ok) == send.mutation \/ ok
\* begin_mutation: from here on an error has an uncertain outcome.
Begin(ok) == TRUE

\* set_value may succeed or fail, and may in both cases have been applied.
SetValue(good, bad) ==
    \E ok, applied \in BOOLEAN :
        /\ composer' = IF applied THEN Message ELSE composer
        /\ harm' = IF applied /\ Foreign THEN harm + 1 ELSE harm
        /\ send' = [send EXCEPT !.pc = IF ok THEN good ELSE bad, !.mutation = Begin(ok),
                                !.touched = @ \/ applied]
        /\ UNCHANGED <<presses, allowed, sends, faults>>

Write == At("write") /\ SetValue("verify", "reread")

\* A failed write: the message may be there; an empty field is typed into.
Reread ==
    /\ At("reread")
    /\ \/ composer = Message /\ Goto("verify")
       \/ composer = Empty /\ Goto("type")
    /\ UNCHANGED <<composer, presses, allowed, sends, harm, faults>>

TypeText ==
    /\ At("type")
    /\ composer' = IF composer = Empty THEN Message ELSE Mixed
    /\ harm' = IF composer \in Human THEN harm + 1 ELSE harm
    /\ send' = [send EXCEPT !.pc = "verify", !.touched = TRUE]
    /\ UNCHANGED <<presses, allowed, sends, faults>>

\* The value is compared after the write, and again before the press.
Holds(pc, next) ==
    /\ At(pc)
    /\ composer = Message
    /\ Goto(next)
    /\ UNCHANGED <<composer, presses, allowed, sends, harm, faults>>
Verify == Holds("verify", "send")
BeforeSend == Holds("send", "press")

\* The send button or, if it is missing or fails, Return.  Each is an event that
\* KakaoTalk takes up by itself; a button that reported an error may have been
\* pressed, and clicked, all the same.
Submit(most, next) ==
    /\ \E n \in 0..most : presses' = presses + n
    /\ Goto(next)
    /\ UNCHANGED <<composer, allowed, sends, harm, faults>>
Press == At("press") /\ Submit(3, "wait")

\* A press takes effect, on whatever the field holds by then, or is lost.  It is
\* late when no wait for it is running.
Waiting == send.pc \in {"wait", "wait2"}
Lands ==
    /\ presses > 0
    /\ presses' = presses - 1
    /\ composer' = Empty
    /\ harm' = IF composer \in Human THEN harm + 1 ELSE harm
    /\ send' = IF composer = Empty \/ composer # Message THEN send
               ELSE [send EXCEPT !.posts = @ + 1, !.late = IF Waiting THEN @ ELSE @ + 1]
    /\ UNCHANGED <<allowed, sends, faults>>
Lost ==
    /\ presses > 0
    /\ presses' = presses - 1
    /\ UNCHANGED <<composer, send, allowed, sends, harm, faults>>

ClearedVisibly(v) == v \notin {Message, Unreadable}
\* wait_for_composer_clear: the text is gone, or cannot be read.
Cleared(v) == v # Message

End(result) == send' = [send EXCEPT !.pc = "idle", !.result = result]
Delivered(pc) ==
    /\ At(pc)
    /\ \E v \in Read : Cleared(v)
    /\ End("accepted")
    /\ UNCHANGED <<composer, presses, allowed, sends, harm, faults>>

\* The text outlived the window: it is applied again, and sent by one Return.
Survived ==
    /\ At("wait")
    /\ \E v \in Read : ~Cleared(v)
    /\ Goto("rewrite")
    /\ UNCHANGED <<composer, presses, allowed, sends, harm, faults>>
Rewrite == (At("rewrite") /\ SetValue("prove", "prove")) \/ (At("restage") /\ SetValue("verify", "verify"))
Prove == Holds("prove", "escalate")
Escalate == At("escalate") /\ Submit(1, "wait2")

\* Any attestation of the window, focus or comparison may fail, and the second
\* wait may run out; whether the composer may have been changed decides how it
\* is reported.
GiveUp ==
    /\ ~At("idle")
    /\ End(IF send.mutation THEN "failed" ELSE "unavailable")
    /\ UNCHANGED <<composer, presses, allowed, sends, harm, faults>>

\* The worker's time limit for local-send: nothing is known of it.
Kill ==
    /\ ~At("idle")
    /\ End("failed")
    /\ UNCHANGED <<composer, presses, allowed, sends, harm, faults>>

-----------------------------------------------------------------------------
(* The person at the machine *)

\* Between a look and the action that rests on it, or before a press took effect.
Committed == send.pc \in {"restage", "write", "type", "press", "rewrite", "escalate"} \/ presses > 0
Person ==
    /\ Committed => faults < MaxFaults
    /\ faults' = IF Committed THEN faults + 1 ELSE faults
    /\ UNCHANGED <<send, presses, allowed, sends, harm>>

HumanTypes == Person /\ composer' \in Human
\* What is in the field is deleted, or sent by hand.
HumanClears == composer # Empty /\ Person /\ composer' = Empty

LocalSend ==
    \/ Inspect \/ Reapply \/ Recheck \/ Write \/ Reread \/ TypeText \/ Verify \/ BeforeSend
    \/ Press \/ Delivered("wait") \/ Survived \/ Rewrite \/ Prove \/ Escalate \/ Delivered("wait2")

Next ==
    \/ \E m \in Texts : Start(m)
    \/ LocalSend \/ GiveUp \/ Kill
    \/ Lands \/ Lost
    \/ HumanTypes \/ HumanClears

Spec == Init /\ [][Next]_vars

-----------------------------------------------------------------------------
(* Properties *)

(* A person's draft is replaced or sent only when it was typed between a     *)
(* look and what rests on it, or when a look saw nothing.  Not counted is a  *)
(* draft under the headline of the digest that a digest replaces: the code   *)
(* takes it for its own.                                                     *)
DraftKept == harm <= faults

(* An invocation posts its message once at most, the button, Return and the  *)
(* one escalation together, whatever the reads in between see; and once more *)
(* for each press that took effect when no wait for it was running.          *)
OnePostPerSend == send.posts <= 1 + send.late

(* What is reported as unavailable, and will be tried again, changed nothing *)
(* and posted nothing: a post in its time is a late press of an earlier one. *)
UnavailableIsUntouched ==
    send.result = "unavailable" => ~send.touched /\ send.posts = send.late

(* Stated by ax_send.rs: a foreign draft is never overwritten.               *)
DraftNeverTouched == harm = 0

(* Stated by ax_send.rs: a field that cleared proves the delivery.           *)
AcceptedIsPosted == send.result = "accepted" => send.posts > 0
=============================================================================
