-------------------------- MODULE ReplyQueueProofs --------------------------
(***************************************************************************)
(* What holds of ReplyQueue for every set of messages, every burst         *)
(* relation, every set of texts and every bound.                           *)
(*                                                                         *)
(* The argument has two layers.  WorkerOK ties the worker's step to the    *)
(* status of the row it has claimed, so that a step taken from memory      *)
(* never meets a row in a state it was not written for.  SendOK then       *)
(* states, message by message, that whatever can still lead to a send has  *)
(* not been sent and has no child process that may yet send it, as long as *)
(* the journal holds the evidence of unresolved sends.  On this invariant, *)
(* a third part says what the steps may do to a message: a closed row      *)
(* stays closed, and the queue implements SendLicence.  The last part says *)
(* what a closed row tells of the room: a sent row, and a sent audit row,  *)
(* are backed by a reply that stands there; a skipped row was neither sent *)
(* nor dropped.                                                            *)
(***************************************************************************)
EXTENDS ReplyQueue, TLAPS

(* The steps in which a row is claimed, by what they find in it.           *)
ProcessingSteps == {"claimed", "analyze", "decide", "settle", "record",
                    "schedule", "scheduled", "presend", "journal",
                    "authorize", "unavailable", "skipRecord", "skipCommit"}
SendingSteps == {"await", "confirmed", "ctxSending", "ctxSent", "finish", "lost"}
BurstSteps == {"burstRecord", "burstSkip", "burstDefer"}
ReplySteps == {"scheduled", "presend", "journal", "authorize", "unavailable"}

JobSteps == ProcessingSteps \cup SendingSteps \cup BurstSteps
              \cup {"unknown", "unknownCtx"}

(* A step with a job has one, and only these steps do.                     *)
HasJob == IF w.pc \in JobSteps THEN w.job \in Events ELSE w.job = NoEvent

(* The claimed row is in the state the step takes it to be in.             *)
WorkerOK ==
    /\ HasJob
    /\ w.pc \in ProcessingSteps => R.status = "processing"
    /\ w.pc \in SendingSteps => R.status = "sending"
    /\ w.pc \in BurstSteps => R.status \in {"processing", "projection_pending"}
    /\ w.pc = "unknown" => R.status \in {"processing", "sending"}
    /\ w.pc \in ReplySteps => R.reply # NoText
    /\ w.pc = "claimed" /\ w.from = "scheduled" => R.reply # NoText
    /\ w.pc \in {"record", "schedule"} => w.draft # NoText

(* A row taken for stale is a row nobody works on.                         *)
StaleOK == \A e \in stale : /\ job[e].status \in {"processing", "sending"}
                            /\ w.job # e

Unsent(e) == posts[e] = 0 /\ child[e].phase = "none"

SendOK(e) ==
    /\ job[e].status = "sending" => e \in axEvidence /\ job[e].reply # NoText
    /\ job[e].status = "scheduled" => job[e].reply # NoText
    /\ e \in tombstone => job[e] = NoRow
    /\ JournalHolds =>
         /\ posts[e] <= 1
         /\ child[e].phase = "running" => posts[e] = 0
         /\ Open(e) \/ Reopenable(e) \/ Superseded(e) => Unsent(e)

(* The inductive invariant.                                                *)
IInv == TypeOK /\ WorkerOK /\ StaleOK /\ \A e \in Events : SendOK(e)

-----------------------------------------------------------------------------
(* Type correctness.                                                       *)

(* Entering `processing' counts an attempt and no more than MaxAttempts.   *)
LEMMA ProcessingType == ASSUME NEW row \in Row PROVE Processing(row) \in Row
<1>1. row.attempts \in 0..MaxAttempts
  BY DEF Row
<1>2. (IF row.attempts < MaxAttempts THEN row.attempts + 1 ELSE row.attempts)
        \in 0..MaxAttempts
  BY <1>1, BoundsAssumption
<1>. QED
  BY <1>2 DEF Processing, Row, Statuses

(* The row updates of ReplyQueue yield rows.                               *)
LEMMA RowUpdates ==
    ASSUME TypeOK, NEW row \in Row
    PROVE  /\ Processing(row) \in Row
           /\ SentRow(row) \in Row
           /\ \A r \in Reasons : SkippedRow(row, r) \in Row
           /\ \A due \in BOOLEAN : /\ BurstRow(row, due) \in Row
                                   /\ ScheduledRow(row, due) \in Row
           /\ \A r \in Reasons, due \in BOOLEAN : PendingRow(row, r, due) \in Row
           /\ \A plan \in Plan : UnknownRow(row, plan) \in Row
<1>1. Processing(row) \in Row
  BY ProcessingType
<1>2. SentRow(row) \in Row
  <2>. Len(room) \in Nat
    BY DEF TypeOK
  <2>. QED
    BY DEF SentRow, Row, Statuses
<1>3. \A r \in Reasons : SkippedRow(row, r) \in Row
  BY DEF SkippedRow, Row, Statuses
<1>4. \A due \in BOOLEAN : BurstRow(row, due) \in Row /\ ScheduledRow(row, due) \in Row
  BY DEF BurstRow, ScheduledRow, Row, Statuses, Reasons
<1>5. \A r \in Reasons, due \in BOOLEAN : PendingRow(row, r, due) \in Row
  BY DEF PendingRow, Row, Statuses
<1>6. \A plan \in Plan : UnknownRow(row, plan) \in Row
  BY DEF UnknownRow, Row, Statuses, Plan
<1>. QED
  BY <1>1, <1>2, <1>3, <1>4, <1>5, <1>6

(* The absent row is a row.                                                *)
LEMMA NoRowType == NoRow \in Row
BY BoundsAssumption DEF NoRow, Row, Statuses, Reasons

(* Recovery's verdicts are rows.                                           *)
LEMMA RecoveredRowType ==
    ASSUME TypeOK, NEW e \in Events, NEW seen, NEW bound
    PROVE  RecoveredRow(e, seen, bound) \in Row
<1>1. job[e] \in Row /\ ctx[e].reason \in Reasons
  BY DEF TypeOK, ContextRow
<1>2. /\ job[e].reason \in Reasons /\ "none" \in Reasons /\ "policy" \in Reasons
      /\ TRUE \in BOOLEAN /\ FALSE \in BOOLEAN
  BY <1>1 DEF Row, Reasons
<1>3. /\ SentRow(job[e]) \in Row
      /\ ScheduledRow(job[e], FALSE) \in Row
      /\ SkippedRow(job[e], "policy") \in Row
      /\ SkippedRow(job[e], job[e].reason) \in Row
      /\ SkippedRow(job[e], ctx[e].reason) \in Row
      /\ PendingRow(job[e], "none", TRUE) \in Row
      /\ PendingRow(job[e], job[e].reason, TRUE) \in Row
  BY <1>1, <1>2, RowUpdates
<1>4. Leftover(e, seen, bound) \in Row
  BY <1>1, <1>3 DEF Leftover
<1>. QED
  BY <1>1, <1>3, <1>4 DEF RecoveredRow

(* What stale recovery makes of a row is a row.                            *)
LEMMA StaleRowType ==
    ASSUME TypeOK, NEW e \in Events
    PROVE  StaleRow(e) \in Row
<1>1. job[e] \in Row /\ ctx[e].reason \in Reasons
  BY DEF TypeOK, ContextRow
<1>2. /\ BurstRow(job[e], TRUE) \in Row
      /\ SkippedRow(job[e], ctx[e].reason) \in Row
      /\ SentRow(job[e]) \in Row
  BY <1>1, RowUpdates
<1>3. [job[e] EXCEPT !.status = IF job[e].decision = "reply" /\ job[e].reply # NoText
                                  THEN "scheduled" ELSE "pending"] \in Row
  BY <1>1 DEF Row, Statuses
<1>4. [job[e] EXCEPT !.status = "delivery_unknown", !.reason = "reconcile",
                     !.reconcile = TRUE] \in Row
  BY <1>1 DEF Row, Statuses, Reasons
<1>. QED
  BY <1>2, <1>3, <1>4 DEF StaleRow

(* Writing the claimed row keeps the table a table.                        *)
LEMMA PutType ==
    ASSUME TypeOK, NEW e \in Events, NEW row \in Row, Put(e, row)
    PROVE  job' \in [Events -> Row]
BY DEF TypeOK, Put

(* The forms in which the worker's memory is updated.                      *)
LEMMA WorkerTypes ==
    /\ \A p \in Steps : Between(p) \in Worker
    /\ \A x \in Worker, p \in Steps : [x EXCEPT !.pc = p] \in Worker
    /\ \A x \in Worker, p \in Steps, plan \in Plan :
         [x EXCEPT !.pc = p, !.plan = plan] \in Worker
    /\ \A x \in Worker, t \in Texts, p \in {"settle", "record"} :
         [x EXCEPT !.pc = p, !.draft = t] \in Worker
    /\ \A x \in Worker, n \in Nat : [x EXCEPT !.pc = "decide", !.mark = n] \in Worker
<1>1. \A p \in Steps : Between(p) \in Worker
  BY DEF Between, NoPlan, Worker, Plan, Reasons
<1>2. \A x \in Worker, p \in Steps : [x EXCEPT !.pc = p] \in Worker
  BY DEF Worker
<1>3. \A x \in Worker, p \in Steps, plan \in Plan :
        [x EXCEPT !.pc = p, !.plan = plan] \in Worker
  BY DEF Worker
<1>4. \A x \in Worker, t \in Texts, p \in {"settle", "record"} :
        [x EXCEPT !.pc = p, !.draft = t] \in Worker
  <2>1. \A x \in Worker, t \in Texts, p \in Steps : [x EXCEPT !.pc = p, !.draft = t] \in Worker
    BY DEF Worker
  <2>2. {"settle", "record"} \subseteq Steps
    BY DEF Steps
  <2>. QED
    BY <2>1, <2>2
<1>5. \A x \in Worker, n \in Nat : [x EXCEPT !.pc = "decide", !.mark = n] \in Worker
  <2>1. \A x \in Worker, n \in Nat, p \in Steps : [x EXCEPT !.pc = p, !.mark = n] \in Worker
    BY DEF Worker
  <2>2. "decide" \in Steps
    BY DEF Steps
  <2>. QED
    BY <2>1, <2>2
<1>. QED
  BY <1>1, <1>2, <1>3, <1>4, <1>5

(* Deciding on a disposition.                                              *)
LEMMA PlanType ==
    ASSUME w \in Worker, NEW p \in Steps, NEW plan \in Plan,
           w' = [w EXCEPT !.pc = p, !.plan = plan]
    PROVE  w' \in Worker
BY DEF Worker

(* A policy skip,                                                          *)
LEMMA SkipType ==
    ASSUME w \in Worker, NEW r \in Reasons, Skip(r) PROVE w' \in Worker
<1>. DEFINE plan == [reason |-> r, clean |-> TRUE, reconcile |-> TRUE]
<1>1. plan \in Plan /\ "skipRecord" \in Steps
  BY DEF Plan, Steps
<1>2. w' = [w EXCEPT !.pc = "skipRecord", !.plan = plan]
  BY DEF Skip
<1>. HIDE DEF plan
<1>. QED
  BY <1>1, <1>2, PlanType

(* a hold at the send boundary,                                            *)
LEMMA HoldType ==
    ASSUME w \in Worker, NEW r \in Reasons, NEW b \in BOOLEAN, Hold(r, b)
    PROVE  w' \in Worker
<1>. DEFINE plan == [reason |-> r, clean |-> FALSE, reconcile |-> b]
<1>1. plan \in Plan /\ "skipRecord" \in Steps
  BY DEF Plan, Steps
<1>2. w' = [w EXCEPT !.pc = "skipRecord", !.plan = plan]
  BY DEF Hold
<1>. HIDE DEF plan
<1>. QED
  BY <1>1, <1>2, PlanType

(* a fence of the row,                                                     *)
LEMMA GiveUpAsUnknownType ==
    ASSUME w \in Worker, NEW b \in BOOLEAN, GiveUpAsUnknown(b)
    PROVE  w' \in Worker
<1>. DEFINE plan == [NoPlan EXCEPT !.reconcile = b]
<1>1. plan \in Plan /\ "unknown" \in Steps
  BY DEF NoPlan, Plan, Steps, Reasons
<1>2. w' = [w EXCEPT !.pc = "unknown", !.plan = plan]
  BY DEF GiveUpAsUnknown
<1>. HIDE DEF plan
<1>. QED
  BY <1>1, <1>2, PlanType

(* a fence that keeps the decision not to answer.                          *)
LEMMA UndecidedType ==
    ASSUME w \in Worker, GiveUpUndecided PROVE w' \in Worker
<1>. DEFINE plan == [reason |-> "reconcile", clean |-> TRUE, reconcile |-> TRUE]
<1>1. plan \in Plan /\ "unknown" \in Steps
  BY DEF Plan, Steps, Reasons
<1>2. w' = [w EXCEPT !.pc = "unknown", !.plan = plan]
  BY DEF GiveUpUndecided
<1>. HIDE DEF plan
<1>. QED
  BY <1>1, <1>2, PlanType

(* Going on with the same job, and ending it.                              *)
LEMMA GotoType ==
    ASSUME w \in Worker
    PROVE  /\ \A p \in Steps : Goto(p) => w' \in Worker
           /\ Done => w' \in Worker
<1>1. \A p \in Steps : Goto(p) => w' \in Worker
  BY DEF Goto, Worker
<1>2. "recover" \in Steps
  BY DEF Steps
<1>. QED
  BY <1>1, <1>2, WorkerTypes DEF Done

(* The compare-and-set of the claimed row.                                 *)
LEMMA SettleType ==
    ASSUME TypeOK, J \in Events, NEW row \in Row, NEW next \in Worker,
           Settle(row, next)
    PROVE  job' \in [Events -> Row] /\ w' \in Worker
<1>. /\ R \in Row /\ BurstRow(R, TRUE) \in Row
     /\ w \in Worker /\ "burstRecord" \in Steps
  BY RowUpdates DEF TypeOK, R, J, Steps
<1>1. CASE Superseded(J)
  BY <1>1, PutType, GotoType DEF Settle
<1>2. CASE ~Superseded(J)
  BY <1>2, PutType DEF Settle
<1>. QED
  BY <1>1, <1>2

(* The two deferrals.                                                      *)
LEMMA DeferType ==
    ASSUME TypeOK, J \in Events, RefreshContext \/ DeferScheduled
    PROVE  job' \in [Events -> Row] /\ w' \in Worker
<1>. R \in Row /\ job \in [Events -> Row] /\ w \in Worker
  BY DEF TypeOK, R, J
<1>1. PendingRow(R, "other", FALSE) \in Row
  BY RowUpdates DEF Reasons
<1>2. [PendingRow(R, "other", FALSE) EXCEPT !.mark = 0] \in Row
  BY <1>1 DEF Row
<1>3. [R EXCEPT !.status = "scheduled", !.due = FALSE, !.reconcile = FALSE] \in Row
  BY DEF Row, Statuses
<1>4. Between("recover") \in Worker /\ "policy" \in Reasons
  BY WorkerTypes DEF Steps, Reasons
<1>. QED
  BY <1>2, <1>3, <1>4, SettleType, SkipType DEF RefreshContext, DeferScheduled

(* The type invariant of the store, the room and the worker, action by     *)
(* action.                                                                 *)
LEMMA TypeStep == TypeOK /\ HasJob /\ [Next]_vars => TypeOK'
<1>. SUFFICES ASSUME TypeOK, HasJob, [Next]_vars PROVE TypeOK'
  OBVIOUS
<1>. USE DEF journalVars, roomVars, clockVars, sendVars
<1>a. /\ w \in Worker
      /\ \A e \in Events : job[e] \in Row
      /\ ctx \in [Events -> ContextRow]
  BY DEF TypeOK
<1>j. w.pc \in JobSteps => J \in Events /\ R \in Row
  BY <1>a DEF HasJob, J, R
<1>1. ASSUME NEW e \in Events, Arrive(e) PROVE TypeOK'
  BY <1>1 DEF Arrive, TypeOK, Inbound, RoomRow
<1>2. CASE OtherRow
  BY <1>2 DEF OtherRow, TypeOK, Inbound, RoomRow
<1>3. CASE Observe
  BY <1>3 DEF Observe, TypeOK
<1>4. ASSUME NEW e \in Events, BecomeDue(e) PROVE TypeOK'
  <2>1. [job[e] EXCEPT !.due = TRUE] \in Row
    BY <1>a DEF Row
  <2>. QED
    BY <1>4, <2>1 DEF BecomeDue, Put, TypeOK
<1>5. ASSUME NEW e \in Events, Expire(e) PROVE TypeOK'
  BY <1>5 DEF Expire, TypeOK
<1>6. ASSUME NEW e \in Events, Age(e) PROVE TypeOK'
  BY <1>6 DEF Age, TypeOK
<1>7. ASSUME NEW e \in Events, Enqueue(e) PROVE TypeOK'
  <2>1. [NoRow EXCEPT !.status = "pending"] \in Row
    BY NoRowType DEF Row, Statuses
  <2>. QED
    BY <1>7, <2>1 DEF Enqueue, Put, TypeOK
<1>8. ASSUME NEW e \in Events, Claim(e) PROVE TypeOK'
  <2>1. Processing(job[e]) \in Row
    BY <1>a, ProcessingType
  <2>2. w' \in Worker
    <3>. "claimed" \in Steps
      BY DEF Steps
    <3>1. Between("claimed") \in Worker
      BY WorkerTypes
    <3>2. job[e].status \in {"none", "pending", "scheduled", "projection_pending"}
      BY <1>8 DEF Claim, Claimable
    <3>. QED
      BY <1>8, <3>1, <3>2 DEF Claim, Worker
  <2>. QED
    BY <1>8, <2>1, <2>2 DEF Claim, Put, TypeOK
<1>9. CASE CheckTurn
  <2>1. J \in Events
    BY <1>9, <1>j DEF CheckTurn, At, JobSteps, ProcessingSteps
  <2>2. job' \in [Events -> Row] /\ w' \in Worker
    <3>. {"burstRecord", "scheduled", "analyze"} \subseteq Steps
      BY DEF Steps
    <3>. "policy" \in Reasons /\ TRUE \in BOOLEAN /\ job \in [Events -> Row]
      BY DEF Reasons, TypeOK
    <3>. QED
      BY <1>9, <1>a, <2>1, GotoType, GiveUpAsUnknownType, SkipType, DeferType
         DEF CheckTurn
  <2>. QED
    BY <1>9, <2>2 DEF CheckTurn, TypeOK
<1>10. CASE ReadContext
  <2>1. J \in Events
    BY <1>10, <1>j DEF ReadContext, At, JobSteps, ProcessingSteps
  <2>2. job' \in [Events -> Row] /\ w' \in Worker
    <3>. job \in [Events -> Row] /\ observed \in Nat
      BY DEF TypeOK
    <3>. QED
      BY <1>10, <1>a, <2>1, WorkerTypes, DeferType DEF ReadContext
  <2>. QED
    BY <1>10, <2>2 DEF ReadContext, TypeOK
<1>11. CASE Analyze
  <2>1. J \in Events /\ R \in Row
    BY <1>11, <1>j DEF Analyze, At, JobSteps, ProcessingSteps
  <2>2. job' \in [Events -> Row] /\ w' \in Worker
    <3>. job \in [Events -> Row] /\ "settle" \in Steps
      BY DEF TypeOK, Steps
    <3>1. \A t \in Texts : [R EXCEPT !.reply = t] \in Row
      BY <2>1 DEF Row
    <3>. QED
      BY <1>11, <1>a, <2>1, <3>1, WorkerTypes, GotoType, PutType DEF Analyze
  <2>. QED
    BY <1>11, <2>2 DEF Analyze, TypeOK
<1>12. CASE SettleAnalysis
  <2>1. J \in Events /\ R \in Row
    BY <1>12, <1>j DEF SettleAnalysis, At, JobSteps, ProcessingSteps
  <2>2. job' \in [Events -> Row] /\ w' \in Worker
    <3>1. /\ {"burstRecord", "record"} \subseteq Steps
          /\ {"policy", "other", "usage", "retry", "busy"} \subseteq Reasons
          /\ job \in [Events -> Row] /\ w.mark \in Nat
          /\ FALSE \in BOOLEAN
      BY <1>a DEF Steps, Reasons, TypeOK, Worker
    <3>2. \A r \in {"usage", "retry", "busy"} :
            [PendingRow(R, r, FALSE) EXCEPT !.mark = w.mark] \in Row
      <4>. TAKE r \in {"usage", "retry", "busy"}
      <4>1. PendingRow(R, r, FALSE) \in Row
        BY <2>1, <3>1, RowUpdates
      <4>. QED
        BY <3>1, <4>1 DEF Row
    <3>3. Between("recover") \in Worker
      BY WorkerTypes DEF Steps
    <3>4. CASE SettleNoReply
      <4>1. ASSUME NEW t \in Texts, w' = [w EXCEPT !.pc = "record", !.draft = t]
            PROVE  w' \in Worker
        BY <1>a, <4>1, WorkerTypes
      <4>. QED
        BY <1>a, <2>1, <3>1, <3>2, <3>3, <3>4, <4>1, SkipType, UndecidedType,
           SettleType DEF SettleNoReply
    <3>. QED
      BY <1>12, <1>a, <2>1, <3>1, <3>4, GotoType, SkipType, DeferType,
         GiveUpAsUnknownType DEF SettleAnalysis
  <2>. QED
    BY <1>12, <2>2 DEF SettleAnalysis, TypeOK
<1>13. CASE RecordScheduled
  <2>1. J \in Events
    BY <1>13, <1>j DEF RecordScheduled, At, JobSteps, ProcessingSteps
  <2>2. w' \in Worker
    <3>. "schedule" \in Steps /\ TRUE \in BOOLEAN
      BY DEF Steps
    <3>. QED
      BY <1>13, <1>a, GotoType, GiveUpAsUnknownType DEF RecordScheduled
  <2>3. ctx' \in [Events -> ContextRow]
    <3>. DEFINE audit == [status |-> "scheduled", reason |-> "none",
                          reply |-> w.draft]
    <3>1. audit \in ContextRow
      BY <1>a DEF ContextRow, ContextStatuses, Reasons, Worker
    <3>2. Recorded(J, audit) \in [Events -> ContextRow]
      BY <1>a, <2>1, <3>1 DEF Recorded
    <3>3. ctx' \in {ctx, Recorded(J, audit)}
      BY <1>13 DEF RecordScheduled
    <3>. QED
      BY <1>a, <3>2, <3>3
  <2>. QED
    BY <1>13, <2>2, <2>3 DEF RecordScheduled, TypeOK
<1>14. CASE ScheduleReply
  <2>1. J \in Events /\ R \in Row
    BY <1>14, <1>j DEF ScheduleReply, At, JobSteps, ProcessingSteps
  <2>2. [ScheduledRow(R, FALSE) EXCEPT !.reason = "other", !.reply = w.draft,
                                       !.mark = w.mark] \in Row
    <3>1. ScheduledRow(R, FALSE) \in Row
      BY <2>1, RowUpdates
    <3>. QED
      BY <1>a, <3>1 DEF Row, Reasons, Worker
  <2>3. Between("recover") \in Worker
    BY WorkerTypes DEF Steps
  <2>4. job' \in [Events -> Row] /\ w' \in Worker
    BY <1>14, <2>1, <2>2, <2>3, SettleType DEF ScheduleReply
  <2>. QED
    BY <1>14, <2>4 DEF ScheduleReply, TypeOK
<1>15. CASE CheckScheduled
  <2>1. J \in Events /\ R \in Row
    BY <1>15, <1>j DEF CheckScheduled, At, JobSteps, ProcessingSteps
  <2>2. job' \in [Events -> Row] /\ w' \in Worker
    <3>. "presend" \in Steps /\ {"policy", "other"} \subseteq Reasons
      BY DEF Steps, Reasons
    <3>. job \in [Events -> Row] /\ SentRow(R) \in Row
      BY <2>1, RowUpdates DEF TypeOK
    <3>. QED
      BY <1>15, <1>a, <2>1, GotoType, SkipType, DeferType, PutType
         DEF CheckScheduled
  <2>. QED
    BY <1>15, <2>2 DEF CheckScheduled, TypeOK
<1>16. CASE CheckBeforeSend
  <2>1. J \in Events
    BY <1>16, <1>j DEF CheckBeforeSend, At, JobSteps, ProcessingSteps
  <2>2. job' \in [Events -> Row] /\ w' \in Worker
    <3>. {"burstRecord", "journal"} \subseteq Steps
      BY DEF Steps
    <3>. /\ {"policy", "other"} \subseteq Reasons /\ FALSE \in BOOLEAN
         /\ job \in [Events -> Row]
      BY DEF Reasons, TypeOK
    <3>. QED
      BY <1>16, <1>a, <2>1, GotoType, HoldType, DeferType DEF CheckBeforeSend
  <2>. QED
    BY <1>16, <2>2 DEF CheckBeforeSend, TypeOK
<1>17. CASE JournalReady
  <2>1. J \in Events
    BY <1>17, <1>j DEF JournalReady, At, JobSteps, ProcessingSteps
  <2>2. w' \in Worker
    BY <1>17, <1>a, GotoType DEF JournalReady, Steps
  <2>. QED
    BY <1>17, <2>1, <2>2 DEF JournalReady, TypeOK
<1>18. CASE Authorize
  <2>1. J \in Events /\ R \in Row
    BY <1>18, <1>j DEF Authorize, At, JobSteps, ProcessingSteps
  <2>2. [R EXCEPT !.status = "sending", !.reconcile = FALSE] \in Row
    BY <2>1 DEF Row, Statuses
  <2>3. [w EXCEPT !.pc = "await"] \in Worker
    BY <1>a DEF Worker, Steps
  <2>4. job' \in [Events -> Row] /\ w' \in Worker
    BY <1>18, <2>1, <2>2, <2>3, SettleType DEF Authorize
  <2>5. axEvidence' \subseteq Events /\ child' \in [Events -> Child]
    <3>1. [phase |-> "running", text |-> R.reply] \in Child
      BY <2>1 DEF Child, Row
    <3>. QED
      BY <1>18, <2>1, <3>1 DEF Authorize, TypeOK
  <2>. QED
    BY <1>18, <2>4, <2>5 DEF Authorize, TypeOK
<1>19. ASSUME NEW e \in Events, ChildPosts(e) PROVE TypeOK'
  <2>1. child[e] \in Child
    BY DEF TypeOK
  <2>2. [event |-> e, text |-> child[e].text] \in RoomRow
    BY <2>1 DEF Child, RoomRow
  <2>3. [child[e] EXCEPT !.phase = "posted"] \in Child /\ NoChild \in Child
    BY <2>1 DEF Child, NoChild
  <2>4. child' \in [Events -> Child] /\ posts' \in [Events -> Nat]
    BY <1>19, <2>3 DEF ChildPosts, TypeOK
  <2>5. room' \in Seq(RoomRow)
    BY <1>19, <2>2 DEF ChildPosts, TypeOK
  <2>. QED
    BY <1>19, <2>4, <2>5 DEF ChildPosts, TypeOK
<1>20. ASSUME NEW e \in Events, ChildEnds(e) PROVE TypeOK'
  <2>1. NoChild \in Child
    BY DEF Child, NoChild
  <2>. QED
    BY <1>20, <2>1 DEF ChildEnds, TypeOK
<1>21. CASE LocalSendReturns
  <2>1. J \in Events /\ R \in Row
    BY <1>21, <1>j DEF LocalSendReturns, At, JobSteps, SendingSteps
  <2>2. child' \in [Events -> Child]
    <3>1. NoChild \in Child
      BY DEF Child, NoChild
    <3>. QED
      BY <1>21, <2>1, <3>1 DEF LocalSendReturns, TypeOK
  <2>3. job' \in [Events -> Row] /\ w' \in Worker
    <3>. {"unavailable", "confirmed"} \subseteq Steps /\ FALSE \in BOOLEAN
      BY DEF Steps
    <3>. job \in [Events -> Row] /\ Processing(R) \in Row
      BY <2>1, ProcessingType DEF TypeOK
    <3>. QED
      BY <1>21, <1>a, <2>1, PutType, GotoType, GiveUpAsUnknownType
         DEF LocalSendReturns
  <2>. QED
    BY <1>21, <2>2, <2>3 DEF LocalSendReturns, TypeOK
<1>22. CASE SendUnavailable
  <2>1. J \in Events
    BY <1>22, <1>j DEF SendUnavailable, At, JobSteps, ProcessingSteps
  <2>2. job' \in [Events -> Row] /\ w' \in Worker
    <3>. "burstRecord" \in Steps /\ job \in [Events -> Row]
      BY DEF Steps, TypeOK
    <3>. QED
      BY <1>22, <1>a, <2>1, GotoType, DeferType DEF SendUnavailable
  <2>. QED
    BY <1>22, <2>2 DEF SendUnavailable, TypeOK
<1>u. \A plan \in Plan : w.pc \in JobSteps => UnknownRow(R, plan) \in Row
  BY <1>j, RowUpdates
<1>n. NoPlan \in Plan
  BY DEF NoPlan, Plan, Reasons
<1>23. CASE JournalConfirmed
  <2>1. w.pc \in JobSteps /\ J \in Events
    BY <1>23, <1>j DEF JournalConfirmed, At, JobSteps, SendingSteps
  <2>2. job' \in [Events -> Row] /\ w' \in Worker
    <3>. "ctxSending" \in Steps /\ job \in [Events -> Row]
      BY DEF Steps, TypeOK
    <3>. QED
      BY <1>23, <1>a, <1>u, <1>n, <2>1, GotoType, PutType DEF JournalConfirmed
  <2>. QED
    BY <1>23, <2>1, <2>2 DEF JournalConfirmed, TypeOK
<1>m. \A e \in Events, s \in ContextStatuses : Moved(e, s) \in [Events -> ContextRow]
  BY <1>a DEF Moved, ContextRow
<1>24. CASE ContextSending
  <2>1. J \in Events
    BY <1>24, <1>j DEF ContextSending, At, JobSteps, SendingSteps
  <2>2. ctx' \in [Events -> ContextRow]
    BY <1>24, <1>a, <1>m, <2>1 DEF ContextSending, ContextStatuses
  <2>3. w' \in Worker
    BY <1>24, <1>a, GotoType DEF ContextSending, Steps
  <2>. QED
    BY <1>24, <2>2, <2>3 DEF ContextSending, TypeOK
<1>25. CASE ContextSent
  <2>1. J \in Events /\ R \in Row
    BY <1>25, <1>j DEF ContextSent, At, JobSteps, SendingSteps
  <2>2. [Moved(J, "sent") EXCEPT ![J].reply = R.reply] \in [Events -> ContextRow]
    <3>1. Moved(J, "sent") \in [Events -> ContextRow] /\ R.reply \in Texts \cup {NoText}
      BY <1>m, <2>1 DEF ContextStatuses, Row
    <3>. QED
      BY <2>1, <3>1 DEF ContextRow
  <2>3. ctx' \in [Events -> ContextRow]
    BY <1>25, <1>a, <2>2 DEF ContextSent
  <2>4. w' \in Worker
    BY <1>25, <1>a, GotoType DEF ContextSent, Steps
  <2>. QED
    BY <1>25, <2>3, <2>4 DEF ContextSent, TypeOK
<1>26. CASE FinishSent
  <2>1. J \in Events /\ R \in Row
    BY <1>26, <1>j DEF FinishSent, At, JobSteps, SendingSteps
  <2>2. job' \in [Events -> Row] /\ w' \in Worker
    BY <1>26, <1>a, <2>1, RowUpdates, PutType, GotoType DEF FinishSent
  <2>. QED
    BY <1>26, <2>2 DEF FinishSent, TypeOK
<1>27. CASE FinishLost
  <2>1. w.pc \in JobSteps /\ J \in Events
    BY <1>27, <1>j DEF FinishLost, At, JobSteps, SendingSteps
  <2>2. job' \in [Events -> Row] /\ w' \in Worker
    BY <1>27, <1>a, <1>u, <1>n, <2>1, PutType, GotoType DEF FinishLost
  <2>. QED
    BY <1>27, <2>2 DEF FinishLost, TypeOK
<1>28. ASSUME NEW r \in Reasons, NEW p \in Steps, NEW q \in Steps, J \in Events,
              RecordSkip(r, p, q)
       PROVE  ctx' \in [Events -> ContextRow] /\ w' \in Worker
  <2>. DEFINE audit == [status |-> "skipped", reason |-> r, reply |-> NoText]
  <2>1. audit \in ContextRow
    BY DEF ContextRow, ContextStatuses
  <2>2. Recorded(J, audit) \in [Events -> ContextRow]
    BY <1>28, <1>a, <2>1 DEF Recorded
  <2>3. ctx' \in {ctx, Recorded(J, audit)}
    BY <1>28 DEF RecordSkip
  <2>4. Goto(p) \/ Goto(q)
    BY <1>28 DEF RecordSkip
  <2>. QED
    BY <1>a, <2>2, <2>3, <2>4, GotoType
<1>29. CASE SkipRecord
  <2>1. J \in Events
    BY <1>29, <1>j DEF SkipRecord, At, JobSteps, ProcessingSteps
  <2>2. w.plan.reason \in Reasons /\ {"skipCommit", "unknown"} \subseteq Steps
    BY <1>a DEF Worker, Plan, Steps
  <2>3. ctx' \in [Events -> ContextRow] /\ w' \in Worker
    BY <1>28, <1>29, <2>1, <2>2 DEF SkipRecord
  <2>. QED
    BY <1>29, <2>3 DEF SkipRecord, TypeOK
<1>30. CASE SkipCommit
  <2>1. J \in Events /\ R \in Row
    BY <1>30, <1>j DEF SkipCommit, At, JobSteps, ProcessingSteps
  <2>2. SkippedRow(R, w.plan.reason) \in Row
    <3>. w.plan.reason \in Reasons
      BY <1>a DEF Worker, Plan
    <3>. QED
      BY <2>1, RowUpdates
  <2>3. Between("recover") \in Worker
    BY WorkerTypes DEF Steps
  <2>4. job' \in [Events -> Row] /\ w' \in Worker
    BY <1>30, <2>1, <2>2, <2>3, SettleType DEF SkipCommit
  <2>. QED
    BY <1>30, <2>4 DEF SkipCommit, TypeOK
<1>31. CASE FinishUnknown
  <2>1. w.pc \in JobSteps /\ J \in Events /\ R \in Row
    BY <1>31, <1>j DEF FinishUnknown, At, JobSteps
  <2>2. BurstRow(R, TRUE) \in Row
    BY <2>1, RowUpdates
  <2>3. [UnknownRow(R, w.plan) EXCEPT !.mark = IF w.mark # 0 THEN w.mark ELSE @]
          \in Row
    <3>1. UnknownRow(R, w.plan) \in Row /\ w.mark \in Nat
      BY <1>a, <1>u, <2>1 DEF Worker
    <3>. QED
      BY <3>1 DEF Row
  <2>4. job' \in [Events -> Row]
    BY <1>31, <2>1, <2>2, <2>3, PutType DEF FinishUnknown
  <2>5. w' \in Worker
    BY <1>31, <1>a, GotoType DEF FinishUnknown, Steps
  <2>. QED
    BY <1>31, <2>4, <2>5 DEF FinishUnknown, TypeOK
<1>32. CASE UnknownContext
  <2>1. J \in Events
    BY <1>32, <1>j DEF UnknownContext, At, JobSteps
  <2>2. ctx' \in [Events -> ContextRow]
    BY <1>32, <1>a, <1>m, <2>1 DEF UnknownContext, ContextStatuses
  <2>3. w' \in Worker
    BY <1>32, <1>a, GotoType DEF UnknownContext
  <2>. QED
    BY <1>32, <2>2, <2>3 DEF UnknownContext, TypeOK
<1>33. CASE BurstRecord
  <2>1. J \in Events
    BY <1>33, <1>j DEF BurstRecord, At, JobSteps, BurstSteps
  <2>2. "superseded" \in Reasons /\ {"burstSkip", "burstDefer"} \subseteq Steps
    BY DEF Reasons, Steps
  <2>3. ctx' \in [Events -> ContextRow] /\ w' \in Worker
    BY <1>28, <1>33, <2>1, <2>2 DEF BurstRecord
  <2>. QED
    BY <1>33, <2>3 DEF BurstRecord, TypeOK
<1>34. CASE BurstCommit
  <2>1. J \in Events /\ R \in Row
    BY <1>34, <1>j DEF BurstCommit, At, JobSteps, BurstSteps
  <2>2. SkippedRow(R, "superseded") \in Row /\ BurstRow(R, FALSE) \in Row
    BY <2>1, RowUpdates DEF Reasons
  <2>3. job' \in [Events -> Row] /\ w' \in Worker
    BY <1>34, <1>a, <2>1, <2>2, PutType, GotoType DEF BurstCommit
  <2>. QED
    BY <1>34, <2>3 DEF BurstCommit, TypeOK
<1>35. CASE RecoverUnknown
  <2>0. PICK seen, bound : RecoverWith(seen, bound)
    BY <1>35 DEF RecoverUnknown
  <2>1. job' = [e \in Events |-> IF job[e].status = "delivery_unknown"
                                   THEN RecoveredRow(e, e \in seen, e \in bound) ELSE job[e]]
    BY <2>0 DEF RecoverWith, Unknown
  <2>2. job' \in [Events -> Row]
    <3>1. \A e \in Events : RecoveredRow(e, e \in seen, e \in bound) \in Row
      BY RecoveredRowType
    <3>. QED
      BY <1>a, <2>1, <3>1
  <2>3. w' \in Worker
    BY <1>35, <1>a, GotoType DEF RecoverUnknown, RecoverWith, Unknown, Steps
  <2>. QED
    BY <1>35, <2>2, <2>3 DEF RecoverUnknown, RecoverWith, Unknown, TypeOK
<1>36. CASE RecoverStale
  <2>1. job' \in [Events -> Row]
    BY <1>36, <1>a, StaleRowType DEF RecoverStale
  <2>2. ctx' \in [Events -> ContextRow]
    <3>1. PICK acked \in SUBSET Events :
            ctx' = [e \in Events |-> IF e \in acked
                                       THEN Moved(e, "delivery_unknown")[e]
                                       ELSE ctx[e]]
      BY <1>36 DEF RecoverStale, TypeOK
    <3>2. \A e \in Events : Moved(e, "delivery_unknown")[e] \in ContextRow
      BY <1>m DEF ContextStatuses
    <3>. QED
      BY <1>a, <3>1, <3>2
  <2>3. w' \in Worker
    BY <1>36, <1>a, GotoType DEF RecoverStale, Steps
  <2>. QED
    BY <1>36, <2>1, <2>2, <2>3 DEF RecoverStale, TypeOK
<1>37. CASE GiveUp
  <2>1. PICK old \in SUBSET Events : GiveUpOn(old)
    BY <1>37 DEF GiveUp
  <2>2. \A row \in Row : [row EXCEPT !.status = "skipped", !.reason = "reconcile",
                                     !.reconcile = FALSE, !.due = FALSE] \in Row
    BY DEF Row, Statuses, Reasons
  <2>3. job' \in [Events -> Row]
    BY <1>a, <2>1, <2>2 DEF GiveUpOn
  <2>4. w' \in Worker
    BY <1>a, <2>1, GotoType DEF GiveUpOn, Steps
  <2>. QED
    BY <2>1, <2>3, <2>4 DEF GiveUpOn, TypeOK
<1>38. CASE Archive
  BY <1>38, <1>a, NoRowType DEF Archive, TypeOK
<1>39. CASE Idle
  <2>1. w' \in Worker
    BY <1>39, <1>a, GotoType DEF Idle, Steps
  <2>. QED
    BY <1>39, <2>1 DEF Idle, TypeOK
<1>b. Between("giveup") \in Worker /\ Between("down") \in Worker
      /\ \A p \in {"recover", "claim"} : Between(p) \in Worker
  BY WorkerTypes DEF Steps
<1>40. CASE Stall
  <2>1. failures' \in [crashes : 0..MaxCrashes, stalls : 0..MaxStalls,
                     evictions : 0..MaxEvictions]
    <3>1. /\ failures \in [crashes : 0..MaxCrashes, stalls : 0..MaxStalls,
                            evictions : 0..MaxEvictions]
          /\ failures.stalls + 1 \in 0..MaxStalls
      BY <1>40, BoundsAssumption DEF Stall, TypeOK
    <3>. QED
      BY <1>40, <3>1 DEF Stall
  <2>2. w' \in Worker
    BY <1>40, <1>b DEF Stall
  <2>. QED
    BY <1>40, <2>1, <2>2 DEF Stall, TypeOK
<1>41. CASE Crash
  <2>1. failures' \in [crashes : 0..MaxCrashes, stalls : 0..MaxStalls,
                     evictions : 0..MaxEvictions]
    <3>1. /\ failures \in [crashes : 0..MaxCrashes, stalls : 0..MaxStalls,
                            evictions : 0..MaxEvictions]
          /\ failures.crashes + 1 \in 0..MaxCrashes
      BY <1>41, BoundsAssumption DEF Crash, TypeOK
    <3>. QED
      BY <1>41, <3>1 DEF Crash
  <2>. QED
    BY <1>41, <1>b, <2>1 DEF Crash, TypeOK
<1>42. CASE Restart
  BY <1>42, <1>b DEF Restart, Done, TypeOK
<1>43. CASE UNCHANGED vars
  BY <1>43 DEF vars, TypeOK
<1>44. ASSUME NEW e \in Events, JournalCap(e) PROVE TypeOK'
  <2>1. failures' \in [crashes : 0..MaxCrashes, stalls : 0..MaxStalls,
                       evictions : 0..MaxEvictions]
    <3>1. /\ failures \in [crashes : 0..MaxCrashes, stalls : 0..MaxStalls,
                            evictions : 0..MaxEvictions]
          /\ failures.evictions + 1 \in 0..MaxEvictions
      BY <1>44, BoundsAssumption DEF JournalCap, TypeOK
    <3>. QED
      BY <1>44, <3>1 DEF JournalCap
  <2>. QED
    BY <1>44, <2>1 DEF JournalCap, TypeOK
<1>. QED
  BY <1>1, <1>2, <1>3, <1>4, <1>5, <1>6, <1>7, <1>8, <1>9, <1>10, <1>11, <1>12,
     <1>13, <1>14, <1>15, <1>16, <1>17, <1>18, <1>19, <1>20, <1>21, <1>22, <1>23,
     <1>24, <1>25, <1>26, <1>27, <1>29, <1>30, <1>31, <1>32, <1>33, <1>34, <1>35,
     <1>36, <1>37, <1>38, <1>39, <1>40, <1>41, <1>42, <1>43, <1>44
     DEF Next, WorkerStep



-----------------------------------------------------------------------------
(* The worker and the row it has claimed.                                  *)

(* What the row updates do to the two fields that matter.                  *)
LEMMA RowFields ==
    ASSUME NEW row \in Row
    PROVE  /\ Processing(row).status = "processing"
           /\ Processing(row).reply = row.reply
           /\ SentRow(row).status = "sent"
           /\ ScheduledRow(row, FALSE).status = "scheduled"
           /\ ScheduledRow(row, FALSE).reply = row.reply
           /\ \A r : SkippedRow(row, r).status = "skipped"
           /\ \A due : BurstRow(row, due).status = "projection_pending"
           /\ \A plan : UnknownRow(row, plan).status = "delivery_unknown"
           /\ \A plan : row.status = "sending" => UnknownRow(row, plan).reply = row.reply
<1>1. Processing(row).status = "processing" /\ Processing(row).reply = row.reply
  BY DEF Processing, Row
<1>2. SentRow(row).status = "sent"
  BY DEF SentRow, Row
<1>3. /\ ScheduledRow(row, FALSE).status = "scheduled"
      /\ ScheduledRow(row, FALSE).reply = row.reply
  BY DEF ScheduledRow, Row
<1>4. \A r : SkippedRow(row, r).status = "skipped"
  BY DEF SkippedRow, Row
<1>5. \A due : BurstRow(row, due).status = "projection_pending"
  BY DEF BurstRow, Row
<1>6. \A plan : UnknownRow(row, plan).status = "delivery_unknown"
  BY DEF UnknownRow, Row
<1>7. \A plan : row.status = "sending" => UnknownRow(row, plan).reply = row.reply
  BY DEF UnknownRow, Row
<1>. QED
  BY <1>1, <1>2, <1>3, <1>4, <1>5, <1>6, <1>7

(* The worker goes on to step p with the same job.                         *)
Keeps(p) == /\ w'.pc = p
            /\ w'.job = w.job /\ w'.from = w.from /\ w'.draft = w.draft

Rests == /\ w'.pc \in {"recover", "stale", "giveup", "claim", "down"}
         /\ w'.job = NoEvent

(* Which step each way to go on leads to, and what it keeps.                *)
LEMMA Moving ==
    ASSUME TypeOK
    PROVE  /\ \A p : Goto(p) => Keeps(p)
           /\ \A r : Skip(r) => Keeps("skipRecord")
           /\ \A r, b : Hold(r, b) => Keeps("skipRecord")
           /\ \A b : GiveUpAsUnknown(b) => Keeps("unknown")
           /\ GiveUpUndecided => Keeps("unknown")
           /\ Done => Rests
<1>. w \in Worker
  BY DEF TypeOK
<1>1. \A p : Goto(p) => Keeps(p)
  BY DEF Goto, Keeps, Worker
<1>2. \A r : Skip(r) => Keeps("skipRecord")
  BY DEF Skip, Keeps, Worker
<1>3. \A r, b : Hold(r, b) => Keeps("skipRecord")
  BY DEF Hold, Keeps, Worker
<1>4. \A b : GiveUpAsUnknown(b) => Keeps("unknown")
  BY DEF GiveUpAsUnknown, Keeps, Worker
<1>5. Done => Rests
  BY DEF Done, Between, Rests
<1>6. GiveUpUndecided => Keeps("unknown")
  BY DEF GiveUpUndecided, Keeps, Worker
<1>. QED
  BY <1>1, <1>2, <1>3, <1>4, <1>5, <1>6

(* The two outcomes of the compare-and-set.                                *)
LEMMA Settling ==
    ASSUME TypeOK, J \in Events, NEW row \in Row, NEW next, Settle(row, next)
    PROVE  \/ /\ Superseded(J) /\ Keeps("burstRecord")
              /\ job' = [job EXCEPT ![J] = BurstRow(R, TRUE)]
              /\ job'[J].status = "projection_pending"
           \/ /\ ~Superseded(J) /\ w' = next
              /\ job' = [job EXCEPT ![J] = row]
              /\ job'[J] = row
<1>1. R \in Row /\ job \in [Events -> Row]
  BY DEF TypeOK, R, J
<1>2. CASE Superseded(J)
  <2>1. Keeps("burstRecord") /\ job' = [job EXCEPT ![J] = BurstRow(R, TRUE)]
    BY <1>2, Moving DEF Settle, Put
  <2>2. BurstRow(R, TRUE).status = "projection_pending"
    BY <1>1, RowFields
  <2>. QED
    BY <1>1, <1>2, <2>1, <2>2
<1>3. CASE ~Superseded(J)
  BY <1>1, <1>3 DEF Settle, Put
<1>. QED
  BY <1>2, <1>3

(* Between jobs nothing is claimed of any row.                             *)
LEMMA WorkerRests == Rests => WorkerOK'
BY DEF Rests, WorkerOK, HasJob, R, JobSteps, ProcessingSteps, SendingSteps,
       BurstSteps, ReplySteps

(* The world moves and leaves the claimed row's status and reply alone.    *)
LEMMA WorkerKept ==
    ASSUME WorkerOK, w' = w,
           J \in Events /\ R.status \in {"processing", "sending", "projection_pending"}
             => job'[J].status = R.status /\ job'[J].reply = R.reply
    PROVE  WorkerOK'
BY DEF WorkerOK, HasJob, R, J, JobSteps, ProcessingSteps, SendingSteps,
       BurstSteps, ReplySteps

(* A deferred row is withdrawn, skipped, or left to be claimed again.      *)
LEMMA Deferring ==
    ASSUME TypeOK, WorkerOK, J \in Events, R.status = "processing",
           \/ RefreshContext
           \/ DeferScheduled /\ R.reply # NoText
    PROVE  /\ \/ Rests
              \/ Keeps("burstRecord") /\ job'[J].status = "projection_pending"
              \/ Keeps("skipRecord") /\ job'[J] = R
           /\ \A e \in Events : e # J => job'[e] = job[e]
           /\ job'[J].status \in {"processing", "pending", "scheduled",
                                  "projection_pending"}
           /\ job'[J].status = "scheduled" => job'[J].reply # NoText
<1>. R \in Row /\ job \in [Events -> Row]
  BY DEF TypeOK, R, J
<1>. DEFINE fresh == [PendingRow(R, "other", FALSE) EXCEPT !.mark = 0]
            again == [R EXCEPT !.status = "scheduled", !.due = FALSE,
                               !.reconcile = FALSE]
<1>1. fresh \in Row /\ fresh.status = "pending"
  <2>0. PendingRow(R, "other", FALSE).status = "pending"
    BY DEF PendingRow, Row
  <2>1. PendingRow(R, "other", FALSE) \in Row
    BY RowUpdates DEF Reasons
  <2>2. \A row \in Row : /\ [row EXCEPT !.mark = 0] \in Row
                         /\ [row EXCEPT !.mark = 0].status = row.status
    BY DEF Row
  <2>. QED
    BY <2>0, <2>1, <2>2
<1>2. again \in Row /\ again.status = "scheduled" /\ again.reply = R.reply
  BY DEF Row, Statuses
<1>3. w' = Between("recover") => Rests
  BY DEF Between, Rests
<1>4. CASE J \in expired /\ (RefreshContext \/ DeferScheduled)
  BY <1>4, Moving DEF RefreshContext, DeferScheduled, R, J
<1>5. CASE Settle(fresh, Between("recover"))
  <2>. HIDE DEF fresh
  <2>. QED
    BY <1>1, <1>3, <1>5, Settling
<1>6. CASE Settle(again, Between("recover")) /\ R.reply # NoText
  <2>. HIDE DEF again
  <2>. QED
    BY <1>2, <1>3, <1>6, Settling
<1>. QED
  BY <1>4, <1>5, <1>6 DEF RefreshContext, DeferScheduled

(* Every step hands the claimed row over in the state the next step needs. *)
LEMMA WorkerInv == IInv /\ [Next]_vars => WorkerOK'
<1>. SUFFICES ASSUME TypeOK, WorkerOK, \A e \in Events : SendOK(e), [Next]_vars
              PROVE  WorkerOK'
  BY DEF IInv
<1>. USE DEF At
<1>a. w \in Worker /\ job \in [Events -> Row] /\ NoEvent \notin Events
  BY EventsAssumption DEF TypeOK
<1>j. w.pc \in JobSteps => J \in Events /\ R \in Row
  BY <1>a DEF WorkerOK, HasJob, J, R
<1>p. w.pc \in ProcessingSteps => J \in Events /\ R \in Row /\ R.status = "processing"
  BY <1>j DEF WorkerOK, JobSteps
<1>s. w.pc \in SendingSteps => J \in Events /\ R \in Row /\ R.status = "sending"
  BY <1>j DEF WorkerOK, JobSteps
<1>t. /\ JobSteps = ProcessingSteps \cup SendingSteps \cup BurstSteps
                      \cup {"unknown", "unknownCtx"}
      /\ ProcessingSteps = {"claimed", "analyze", "decide", "settle", "record",
                    "schedule", "scheduled", "presend", "journal",
                    "authorize", "unavailable", "skipRecord", "skipCommit"}
  BY DEF JobSteps, ProcessingSteps
(* The four ways a worker's step ends.                                     *)
<1>k. ASSUME NEW p \in {"analyze", "decide", "settle", "skipRecord", "skipCommit",
                        "unknown", "burstRecord"},
             J \in Events, Keeps(p), job'[J].status = "processing"
      PROVE  WorkerOK'
  BY <1>k DEF Keeps, WorkerOK, HasJob, R, J, JobSteps, ProcessingSteps,
              SendingSteps, BurstSteps, ReplySteps
<1>l. ASSUME J \in Events, Keeps("burstRecord"),
             job'[J].status = "projection_pending"
      PROVE  WorkerOK'
  BY <1>l DEF Keeps, WorkerOK, HasJob, R, J, JobSteps, ProcessingSteps,
              SendingSteps, BurstSteps, ReplySteps
<1>r. ASSUME NEW p \in ReplySteps, J \in Events, Keeps(p),
             job'[J].status = "processing", job'[J].reply # NoText
      PROVE  WorkerOK'
  BY <1>r DEF Keeps, WorkerOK, HasJob, R, J, JobSteps, ProcessingSteps,
              SendingSteps, BurstSteps, ReplySteps
<1>q. ASSUME NEW p \in SendingSteps \cup {"unknown"}, J \in Events, Keeps(p),
             job'[J].status = "sending"
      PROVE  WorkerOK'
  BY <1>q DEF Keeps, WorkerOK, HasJob, R, J, JobSteps, ProcessingSteps,
              SendingSteps, BurstSteps, ReplySteps
<1>z. ASSUME J \in Events, NEW row \in Row, Settle(row, Between("recover"))
      PROVE  WorkerOK'
  <2>. w' = Between("recover") => Rests
    BY DEF Between, Rests
  <2>. QED
    BY <1>l, <1>z, Settling, WorkerRests
<1>1. ASSUME NEW e \in Events,
             \/ Arrive(e) \/ Expire(e) \/ Age(e) \/ JournalCap(e)
             \/ ChildPosts(e) \/ ChildEnds(e)
      PROVE  WorkerOK'
  BY <1>1, WorkerKept DEF Arrive, Expire, Age, JournalCap, ChildPosts, ChildEnds,
                          R, J
<1>2. CASE OtherRow \/ Observe \/ UNCHANGED vars
  BY <1>2, WorkerKept DEF OtherRow, Observe, vars, R, J
<1>3. ASSUME NEW e \in Events, Enqueue(e) PROVE WorkerOK'
  BY <1>3, <1>a, WorkerKept DEF Enqueue, Enqueueable, Put, R, J
<1>4. ASSUME NEW e \in Events, BecomeDue(e) PROVE WorkerOK'
  <2>1. \A f \in Events : job'[f].status = job[f].status /\ job'[f].reply = job[f].reply
    BY <1>4, <1>a DEF BecomeDue, Put, Row
  <2>. QED
    BY <1>4, <2>1, WorkerKept DEF BecomeDue, R, J
<1>5. ASSUME NEW e \in Events, Claim(e), SendOK(e) PROVE WorkerOK'
  <2>1. /\ w'.pc = "claimed" /\ w'.job = e /\ w'.from = job[e].status
        /\ job'[e] = Processing(job[e])
    BY <1>5, <1>a DEF Claim, Put, Between
  <2>2. job'[e].status = "processing" /\ job'[e].reply = job[e].reply
    <3>. job[e] \in Row
      BY <1>a
    <3>1. /\ Processing(job[e]).status = "processing"
          /\ Processing(job[e]).reply = job[e].reply
      BY RowFields
    <3>. QED
      BY <2>1, <3>1
  <2>3. job[e].status = "scheduled" => job[e].reply # NoText
    BY <1>5 DEF SendOK
  <2>. QED
    BY <2>1, <2>2, <2>3 DEF WorkerOK, HasJob, R, J, JobSteps, ProcessingSteps,
                            SendingSteps, BurstSteps, ReplySteps
<1>6. CASE CheckTurn
  <2>1. /\ J \in Events /\ R \in Row /\ R.status = "processing"
        /\ w.from = "scheduled" => R.reply # NoText
    BY <1>6, <1>p, <1>t DEF CheckTurn, WorkerOK
  <2>2. CASE RefreshContext
    BY <2>1, <2>2, <1>k, <1>l, Deferring, WorkerRests DEF R, J
  <2>3. CASE Keeps("burstRecord") /\ UNCHANGED job
    BY <2>1, <2>3, <1>k DEF R, J
  <2>4. CASE (Keeps("unknown") \/ Keeps("skipRecord") \/ Keeps("analyze"))
               /\ UNCHANGED job
    BY <2>1, <2>4, <1>k DEF R, J
  <2>5. CASE w.from = "scheduled" /\ Keeps("scheduled") /\ UNCHANGED job
    BY <2>1, <2>5, <1>r DEF R, J, ReplySteps
  <2>. QED
    BY <1>6, <2>2, <2>3, <2>4, <2>5, Moving DEF CheckTurn
<1>7. CASE ReadContext
  <2>1. J \in Events /\ R \in Row /\ R.status = "processing"
    BY <1>7, <1>p, <1>t DEF ReadContext
  <2>2. CASE RefreshContext
    BY <2>1, <2>2, <1>k, <1>l, Deferring, WorkerRests DEF R, J
  <2>3. CASE w' = [w EXCEPT !.pc = "decide", !.mark = observed] /\ UNCHANGED job
    <3>. Keeps("decide")
      BY <1>a, <2>3 DEF Keeps, Worker
    <3>. QED
      BY <2>1, <2>3, <1>k DEF R, J
  <2>. QED
    BY <1>7, <2>2, <2>3 DEF ReadContext
<1>8. CASE Analyze
  <2>1. J \in Events /\ R \in Row /\ R.status = "processing"
    BY <1>8, <1>p, <1>t DEF Analyze
  <2>2. CASE Goto("settle") /\ UNCHANGED job
    BY <2>1, <2>2, <1>k, Moving DEF R, J
  <2>3. ASSUME NEW t \in Texts, Put(J, [R EXCEPT !.reply = t]),
               w' = [w EXCEPT !.pc = "settle", !.draft = t]
        PROVE  WorkerOK'
    <3>1. w'.pc = "settle" /\ w'.job = w.job
      BY <1>a, <2>3 DEF Worker
    <3>2. job'[J].status = "processing"
      BY <1>a, <2>1, <2>3 DEF Put, Row
    <3>. QED
      BY <2>1, <3>1, <3>2
         DEF WorkerOK, HasJob, R, J, JobSteps, ProcessingSteps, SendingSteps,
             BurstSteps, ReplySteps
  <2>. QED
    BY <1>8, <2>2, <2>3 DEF Analyze
<1>9. CASE SettleAnalysis
  <2>1. J \in Events /\ R \in Row /\ R.status = "processing"
    BY <1>9, <1>p, <1>t DEF SettleAnalysis
  <2>2. CASE RefreshContext
    BY <2>1, <2>2, <1>k, <1>l, Deferring, WorkerRests DEF R, J
  <2>3. CASE (Keeps("burstRecord") \/ Keeps("skipRecord") \/ Keeps("unknown"))
               /\ UNCHANGED job
    BY <2>1, <2>3, <1>k DEF R, J
  <2>4. CASE w.draft # NoText /\ Keeps("record") /\ UNCHANGED job
    BY <2>1, <2>4
       DEF Keeps, WorkerOK, HasJob, R, J, JobSteps, ProcessingSteps,
           SendingSteps, BurstSteps, ReplySteps
  <2>5. ASSUME NEW r \in {"usage", "retry", "busy"},
               Settle([PendingRow(R, r, FALSE) EXCEPT !.mark = w.mark],
                      Between("recover"))
        PROVE  WorkerOK'
    <3>. DEFINE row == [PendingRow(R, r, FALSE) EXCEPT !.mark = w.mark]
    <3>1. PendingRow(R, r, FALSE) \in Row /\ w.mark \in Nat
      BY <1>a, <2>1, RowUpdates DEF Reasons, Worker
    <3>2. row \in Row
      BY <3>1 DEF Row
    <3>3. Settle(row, Between("recover"))
      BY <2>5
    <3>. HIDE DEF row
    <3>. QED
      BY <1>z, <2>1, <3>2, <3>3
  <2>6. ASSUME NEW t \in Texts, UNCHANGED job,
               w' = [w EXCEPT !.pc = "record", !.draft = t]
        PROVE  WorkerOK'
    <3>1. w'.pc = "record" /\ w'.job = w.job /\ w'.draft # NoText
      BY <1>a, <2>6, TextsAssumption DEF Worker
    <3>. QED
      BY <2>1, <2>6, <3>1
         DEF WorkerOK, HasJob, R, J, JobSteps, ProcessingSteps, SendingSteps,
             BurstSteps, ReplySteps
  <2>7. CASE SettleNoReply
    BY <2>3, <2>5, <2>6, <2>7, Moving DEF SettleNoReply
  <2>. QED
    BY <1>9, <2>2, <2>3, <2>4, <2>7, Moving DEF SettleAnalysis
<1>10. CASE RecordScheduled
  <2>1. J \in Events /\ R \in Row /\ R.status = "processing" /\ w.draft # NoText
    BY <1>10, <1>p, <1>t DEF RecordScheduled, WorkerOK
  <2>2. (Keeps("schedule") \/ Keeps("unknown")) /\ UNCHANGED job
    BY <1>10, Moving DEF RecordScheduled
  <2>. QED
    BY <2>1, <2>2
       DEF Keeps, WorkerOK, HasJob, R, J, JobSteps, ProcessingSteps,
           SendingSteps, BurstSteps, ReplySteps
<1>11. CASE ScheduleReply
  <2>1. J \in Events /\ R \in Row
    BY <1>11, <1>p, <1>t DEF ScheduleReply
  <2>2. [ScheduledRow(R, FALSE) EXCEPT !.reason = "other", !.reply = w.draft,
                                       !.mark = w.mark] \in Row
    <3>1. ScheduledRow(R, FALSE) \in Row
      BY <2>1, RowUpdates
    <3>. QED
      BY <1>a, <3>1 DEF Row, Reasons, Worker
  <2>. QED
    BY <1>11, <1>z, <2>1, <2>2 DEF ScheduleReply
<1>12. CASE CheckScheduled
  <2>1. J \in Events /\ R \in Row /\ R.status = "processing" /\ R.reply # NoText
    BY <1>12, <1>p, <1>t DEF CheckScheduled, WorkerOK, ReplySteps
  <2>2. CASE RefreshContext \/ DeferScheduled
    BY <2>1, <2>2, <1>k, <1>l, Deferring, WorkerRests DEF R, J
  <2>3. CASE Keeps("skipRecord") /\ UNCHANGED job
    BY <2>1, <2>3, <1>k DEF R, J
  <2>4. CASE Keeps("presend") /\ UNCHANGED job
    BY <2>1, <2>4, <1>r DEF R, J, ReplySteps
  <2>. QED
    BY <1>12, <2>2, <2>3, <2>4, Moving, WorkerRests DEF CheckScheduled
<1>13. CASE CheckBeforeSend
  <2>1. J \in Events /\ R \in Row /\ R.status = "processing" /\ R.reply # NoText
    BY <1>13, <1>p, <1>t DEF CheckBeforeSend, WorkerOK, ReplySteps
  <2>2. CASE RefreshContext \/ DeferScheduled
    BY <2>1, <2>2, <1>k, <1>l, Deferring, WorkerRests DEF R, J
  <2>3. CASE (Keeps("skipRecord") \/ Keeps("burstRecord")) /\ UNCHANGED job
    BY <2>1, <2>3, <1>k DEF R, J
  <2>4. CASE Keeps("journal") /\ UNCHANGED job
    BY <2>1, <2>4, <1>r DEF R, J, ReplySteps
  <2>. QED
    BY <1>13, <2>2, <2>3, <2>4, Moving DEF CheckBeforeSend
<1>14. CASE JournalReady
  <2>1. J \in Events /\ R \in Row /\ R.status = "processing" /\ R.reply # NoText
    BY <1>14, <1>p, <1>t DEF JournalReady, WorkerOK, ReplySteps
  <2>. QED
    BY <1>14, <2>1, <1>r, Moving DEF JournalReady, R, J, ReplySteps
<1>15. CASE Authorize
  <2>1. J \in Events /\ R \in Row
    BY <1>15, <1>p, <1>t DEF Authorize
  <2>. DEFINE row == [R EXCEPT !.status = "sending", !.reconcile = FALSE]
              next == [w EXCEPT !.pc = "await"]
  <2>2. row \in Row /\ row.status = "sending"
    BY <2>1 DEF Row, Statuses
  <2>3. w' = next => Keeps("await")
    BY <1>a DEF Keeps, Worker
  <2>4. Settle(row, next)
    BY <1>15 DEF Authorize
  <2>. HIDE DEF row, next
  <2>5. CASE w' = next /\ job'[J] = row
    BY <1>q, <2>1, <2>2, <2>3, <2>5 DEF SendingSteps
  <2>. QED
    BY <1>l, <2>1, <2>2, <2>4, <2>5, Settling
<1>16. CASE LocalSendReturns
  <2>1. J \in Events /\ R \in Row /\ R.status = "sending" /\ R.reply # NoText
    BY <1>16, <1>s DEF LocalSendReturns, SendingSteps, SendOK, R, J
  <2>2. CASE Put(J, Processing(R)) /\ Keeps("unavailable")
    <3>1. Processing(R).status = "processing" /\ Processing(R).reply = R.reply
      BY <2>1, RowFields
    <3>2. job'[J] = Processing(R)
      BY <1>a, <2>1, <2>2 DEF Put
    <3>. QED
      BY <1>r, <2>1, <2>2, <3>1, <3>2 DEF ReplySteps
  <2>3. CASE (Keeps("confirmed") \/ Keeps("unknown")) /\ UNCHANGED job
    BY <1>q, <2>1, <2>3 DEF R, J, SendingSteps
  <2>. QED
    BY <1>16, <2>2, <2>3, Moving DEF LocalSendReturns
<1>17. CASE SendUnavailable
  <2>1. J \in Events /\ R \in Row /\ R.status = "processing" /\ R.reply # NoText
    BY <1>17, <1>p, <1>t DEF SendUnavailable, WorkerOK, ReplySteps
  <2>2. CASE DeferScheduled
    BY <2>1, <2>2, <1>k, <1>l, Deferring, WorkerRests DEF R, J
  <2>3. CASE Keeps("burstRecord") /\ UNCHANGED job
    BY <2>1, <2>3, <1>k DEF R, J
  <2>. QED
    BY <1>17, <2>2, <2>3, Moving DEF SendUnavailable
<1>18. CASE JournalConfirmed \/ ContextSending \/ ContextSent
  <2>1. J \in Events /\ R \in Row /\ R.status = "sending"
    BY <1>18, <1>s DEF JournalConfirmed, ContextSending, ContextSent, SendingSteps
  <2>2. \/ Rests
        \/ /\ Keeps("ctxSending") \/ Keeps("ctxSent") \/ Keeps("finish")
                \/ Keeps("lost")
           /\ UNCHANGED job
    BY <1>18, Moving DEF JournalConfirmed, ContextSending, ContextSent
  <2>. QED
    BY <1>q, <2>1, <2>2, WorkerRests DEF R, J, SendingSteps
<1>19. CASE FinishSent \/ FinishLost \/ UnknownContext \/ BurstCommit \/ Restart
  BY <1>19, Moving, WorkerRests
     DEF FinishSent, FinishLost, UnknownContext, BurstCommit, Restart
<1>20. CASE SkipRecord
  <2>1. J \in Events /\ R \in Row /\ R.status = "processing"
    BY <1>20, <1>p, <1>t DEF SkipRecord
  <2>2. (Keeps("skipCommit") \/ Keeps("unknown")) /\ UNCHANGED job
    BY <1>20, Moving DEF SkipRecord, RecordSkip
  <2>. QED
    BY <1>k, <2>1, <2>2 DEF R, J
<1>21. CASE SkipCommit
  <2>1. J \in Events /\ R \in Row /\ w.plan.reason \in Reasons
    BY <1>21, <1>a, <1>p, <1>t DEF SkipCommit, Worker, Plan
  <2>2. SkippedRow(R, w.plan.reason) \in Row
    BY <2>1, RowUpdates
  <2>. QED
    BY <1>21, <1>z, <2>1, <2>2 DEF SkipCommit
<1>22. CASE FinishUnknown
  <2>1. J \in Events /\ R \in Row
    BY <1>22, <1>j DEF FinishUnknown, JobSteps
  <2>2. CASE Put(J, BurstRow(R, TRUE)) /\ Keeps("burstRecord")
    <3>1. BurstRow(R, TRUE).status = "projection_pending"
      BY <2>1, RowFields
    <3>2. job'[J] = BurstRow(R, TRUE)
      BY <1>a, <2>1, <2>2 DEF Put
    <3>. QED
      BY <1>l, <2>1, <2>2, <3>1, <3>2
  <2>3. CASE Keeps("unknownCtx")
    BY <2>1, <2>3 DEF Keeps, WorkerOK, HasJob, J, JobSteps, ProcessingSteps,
                      SendingSteps, BurstSteps, ReplySteps
  <2>. QED
    BY <1>22, <2>2, <2>3, Moving DEF FinishUnknown
<1>23. CASE BurstRecord
  <2>1. J \in Events /\ R \in Row /\ R.status \in {"processing", "projection_pending"}
    BY <1>23, <1>j DEF BurstRecord, WorkerOK, JobSteps, BurstSteps
  <2>2. (Keeps("burstSkip") \/ Keeps("burstDefer")) /\ UNCHANGED job
    BY <1>23, Moving DEF BurstRecord, RecordSkip
  <2>. QED
    BY <2>1, <2>2 DEF Keeps, WorkerOK, HasJob, R, J, JobSteps, ProcessingSteps,
                      SendingSteps, BurstSteps, ReplySteps
<1>24. CASE RecoverUnknown \/ RecoverStale \/ GiveUp \/ Idle
  <2>1. w.job = NoEvent
    BY <1>24 DEF RecoverUnknown, RecoverWith, Unknown, RecoverStale, GiveUp, GiveUpOn, Idle, WorkerOK,
       HasJob, JobSteps, ProcessingSteps, SendingSteps, BurstSteps
  <2>2. \E p \in {"recover", "stale", "giveup", "claim"} : Goto(p)
    BY <1>24 DEF RecoverUnknown, RecoverWith, Unknown, RecoverStale, GiveUp, GiveUpOn, Idle
  <2>3. Rests
    BY <2>1, <2>2, Moving DEF Keeps, Rests
  <2>. QED
    BY <2>3, WorkerRests
<1>25. CASE Archive
  <2>1. w.pc = "claim" /\ w' = w
    BY <1>25 DEF Archive
  <2>2. w.job = NoEvent
    BY <2>1 DEF WorkerOK, HasJob, JobSteps, ProcessingSteps, SendingSteps, BurstSteps
  <2>3. Rests
    BY <2>1, <2>2 DEF Rests
  <2>. QED
    BY <2>3, WorkerRests
<1>26. CASE Stall \/ Crash
  <2>1. \E p \in {"recover", "giveup", "claim", "down"} : w' = Between(p)
    BY <1>26 DEF Stall, Crash
  <2>2. Rests
    BY <2>1 DEF Between, Rests
  <2>. QED
    BY <2>2, WorkerRests
<1>. QED
  BY <1>1, <1>2, <1>3, <1>4, <1>5, <1>6, <1>7, <1>8, <1>9, <1>10, <1>11, <1>12,
     <1>13, <1>14, <1>15, <1>16, <1>17, <1>18, <1>19, <1>20, <1>21, <1>22, <1>23,
     <1>24, <1>25, <1>26
     DEF Next, WorkerStep

-----------------------------------------------------------------------------
(* What a step on the claimed job does to the table.                       *)

(* The steps that write nothing but the claimed row.                       *)
JobAction ==
    \/ CheckTurn \/ ReadContext \/ Analyze \/ SettleAnalysis
    \/ RecordScheduled \/ ScheduleReply
    \/ CheckScheduled \/ CheckBeforeSend \/ JournalReady
    \/ SendUnavailable \/ JournalConfirmed
    \/ ContextSending \/ ContextSent \/ FinishSent \/ FinishLost
    \/ SkipRecord \/ SkipCommit \/ FinishUnknown \/ UnknownContext
    \/ BurstRecord \/ BurstCommit

(* A row no send of which has begun ends in another such row, or closed.   *)
StaysUnsent ==
    /\ R.status \in {"processing", "projection_pending"}
    /\ job'[J].status \notin {"sending", "absent"}
    /\ job'[J].status = "scheduled" => job'[J].reply # NoText

(* A row that has begun a send is never reopened.                          *)
StaysSending ==
    /\ R.status = "sending"
    /\ \/ job'[J].status = "sent"
       \/ job'[J].status \in {"sending", "delivery_unknown"} /\ job'[J].reply = R.reply

(* A step on a job changes no other row, and leaves its own unsent.        *)
LEMMA JobOutcome ==
    ASSUME TypeOK, WorkerOK, JobAction
    PROVE  /\ J \in Events
           /\ \A e \in Events : e # J => job'[e] = job[e]
           /\ StaysUnsent \/ StaysSending \/ UNCHANGED job
<1>. USE DEF At
<1>a. w \in Worker /\ job \in [Events -> Row]
  BY DEF TypeOK
<1>j. w.pc \in JobSteps => J \in Events /\ R \in Row
  BY <1>a DEF WorkerOK, HasJob, J, R
<1>p. w.pc \in ProcessingSteps => J \in Events /\ R \in Row /\ R.status = "processing"
  BY <1>j DEF WorkerOK, JobSteps
<1>s. w.pc \in SendingSteps => J \in Events /\ R \in Row /\ R.status = "sending"
  BY <1>j DEF WorkerOK, JobSteps
<1>u. ASSUME J \in Events, R \in Row, R.status = "processing", UNCHANGED job
      PROVE  StaysUnsent
  BY <1>u DEF StaysUnsent, R, J
<1>z. ASSUME J \in Events, R.status = "processing", NEW row \in Row, NEW next,
             Settle(row, next),
             row.status \in {"pending", "skipped", "scheduled"},
             row.status = "scheduled" => row.reply # NoText
      PROVE  (\A e \in Events : e # J => job'[e] = job[e]) /\ StaysUnsent
  BY <1>a, <1>z, Settling DEF StaysUnsent
<1>x. ASSUME J \in Events, NEW row, Put(J, row)
      PROVE  (\A e \in Events : e # J => job'[e] = job[e]) /\ job'[J] = row
  BY <1>a, <1>x DEF Put
<1>d. ASSUME J \in Events, R.status = "processing",
             RefreshContext \/ (DeferScheduled /\ R.reply # NoText)
      PROVE  (\A e \in Events : e # J => job'[e] = job[e]) /\ StaysUnsent
  BY <1>d, Deferring DEF StaysUnsent
<1>1. CASE CheckTurn \/ ReadContext
  BY <1>1, <1>d, <1>p, <1>u DEF CheckTurn, ReadContext, ProcessingSteps
<1>2. CASE Analyze
  <2>1. J \in Events /\ R \in Row /\ R.status = "processing"
    BY <1>2, <1>p DEF Analyze, ProcessingSteps
  <2>2. ASSUME NEW t \in Texts, Put(J, [R EXCEPT !.reply = t])
        PROVE  (\A e \in Events : e # J => job'[e] = job[e]) /\ StaysUnsent
    <3>. DEFINE row == [R EXCEPT !.reply = t]
    <3>1. row.status = "processing"
      BY <2>1 DEF Row
    <3>2. Put(J, row)
      BY <2>2
    <3>. HIDE DEF row
    <3>. QED
      BY <1>x, <2>1, <3>1, <3>2 DEF StaysUnsent
  <2>. QED
    BY <1>2, <1>u, <2>1, <2>2 DEF Analyze
<1>3. CASE SettleAnalysis
  <2>1. J \in Events /\ R \in Row /\ R.status = "processing"
    BY <1>3, <1>p DEF SettleAnalysis, ProcessingSteps
  <2>2. ASSUME NEW r \in {"usage", "retry", "busy"},
               Settle([PendingRow(R, r, FALSE) EXCEPT !.mark = w.mark],
                      Between("recover"))
        PROVE  (\A e \in Events : e # J => job'[e] = job[e]) /\ StaysUnsent
    <3>. DEFINE row == [PendingRow(R, r, FALSE) EXCEPT !.mark = w.mark]
    <3>1. PendingRow(R, r, FALSE) \in Row /\ w.mark \in Nat
      BY <1>a, <2>1, RowUpdates DEF Reasons, Worker
    <3>2. PendingRow(R, r, FALSE).status = "pending"
      BY <2>1 DEF PendingRow, Row
    <3>3. row \in Row /\ row.status = "pending"
      BY <3>1, <3>2 DEF Row
    <3>4. Settle(row, Between("recover"))
      BY <2>2
    <3>. HIDE DEF row
    <3>. QED
      BY <1>z, <2>1, <3>3, <3>4
  <2>. QED
    BY <1>3, <1>u, <1>d, <2>1, <2>2 DEF SettleAnalysis, SettleNoReply
<1>4. CASE RecordScheduled \/ JournalReady \/ SkipRecord
  BY <1>4, <1>p, <1>u DEF RecordScheduled, JournalReady, SkipRecord, ProcessingSteps
<1>5. CASE ScheduleReply
  <2>1. J \in Events /\ R \in Row /\ R.status = "processing" /\ w.draft # NoText
    BY <1>5, <1>p DEF ScheduleReply, ProcessingSteps, WorkerOK
  <2>. DEFINE row == [ScheduledRow(R, FALSE) EXCEPT !.reason = "other",
                                                    !.reply = w.draft,
                                                    !.mark = w.mark]
  <2>2. ScheduledRow(R, FALSE) \in Row /\ w.draft \in Texts \cup {NoText}
          /\ w.mark \in Nat
    BY <1>a, <2>1, RowUpdates DEF Worker
  <2>3. ScheduledRow(R, FALSE).status = "scheduled"
    BY <2>1, RowFields
  <2>4. row \in Row /\ row.status = "scheduled" /\ row.reply = w.draft
    BY <2>2, <2>3 DEF Row, Reasons
  <2>5. Settle(row, Between("recover"))
    BY <1>5 DEF ScheduleReply
  <2>. HIDE DEF row
  <2>. QED
    BY <1>z, <2>1, <2>4, <2>5
<1>6. CASE CheckScheduled
  <2>1. J \in Events /\ R \in Row /\ R.status = "processing" /\ R.reply # NoText
    BY <1>6, <1>p DEF CheckScheduled, WorkerOK, ReplySteps, ProcessingSteps
  <2>2. CASE Put(J, SentRow(R))
    <3>. SentRow(R).status = "sent"
      BY <2>1, RowFields
    <3>. QED
      BY <1>x, <2>1, <2>2 DEF StaysUnsent
  <2>. QED
    BY <1>6, <1>u, <1>d, <2>1, <2>2 DEF CheckScheduled
<1>7. CASE CheckBeforeSend \/ SendUnavailable
  <2>1. J \in Events /\ R \in Row /\ R.status = "processing" /\ R.reply # NoText
    BY <1>7, <1>p DEF CheckBeforeSend, SendUnavailable, WorkerOK, ReplySteps,
                      ProcessingSteps
  <2>. QED
    BY <1>7, <1>u, <1>d, <2>1 DEF CheckBeforeSend, SendUnavailable
<1>f. ASSUME J \in Events, R \in Row, R.status = "sending", NEW plan,
             Put(J, UnknownRow(R, plan))
      PROVE  (\A e \in Events : e # J => job'[e] = job[e]) /\ StaysSending
  <2>1. UnknownRow(R, plan).status = "delivery_unknown"
          /\ UnknownRow(R, plan).reply = R.reply
    BY <1>f, RowFields
  <2>. QED
    BY <1>f, <1>x, <2>1 DEF StaysSending
<1>8. CASE JournalConfirmed \/ FinishLost
  BY <1>8, <1>s, <1>f DEF JournalConfirmed, FinishLost, SendingSteps
<1>9. CASE ContextSending \/ ContextSent \/ UnknownContext \/ BurstRecord
  BY <1>9, <1>j DEF ContextSending, ContextSent, UnknownContext, BurstRecord,
     JobSteps, SendingSteps, BurstSteps
<1>10. CASE FinishSent
  <2>1. J \in Events /\ R \in Row /\ R.status = "sending"
    BY <1>10, <1>s DEF FinishSent, SendingSteps
  <2>2. SentRow(R).status = "sent"
    BY <2>1, RowFields
  <2>. QED
    BY <1>10, <1>x, <2>1, <2>2 DEF FinishSent, StaysSending
<1>11. CASE SkipCommit
  <2>1. J \in Events /\ R \in Row /\ R.status = "processing" /\ w.plan.reason \in Reasons
    BY <1>11, <1>a, <1>p DEF SkipCommit, ProcessingSteps, Worker, Plan
  <2>2. SkippedRow(R, w.plan.reason) \in Row
    BY <2>1, RowUpdates
  <2>3. SkippedRow(R, w.plan.reason).status = "skipped"
    BY <2>1, RowFields
  <2>. QED
    BY <1>11, <1>z, <2>1, <2>2, <2>3 DEF SkipCommit
<1>12. CASE FinishUnknown
  <2>1. J \in Events /\ R \in Row /\ R.status \in {"processing", "sending"}
    BY <1>12, <1>j DEF FinishUnknown, JobSteps, WorkerOK
  <2>2. CASE R.status = "processing" /\ Put(J, BurstRow(R, TRUE))
    <3>. BurstRow(R, TRUE).status = "projection_pending"
      BY <2>1, RowFields
    <3>. QED
      BY <1>x, <2>1, <2>2 DEF StaysUnsent
  <2>. DEFINE row == [UnknownRow(R, w.plan)
                        EXCEPT !.mark = IF w.mark # 0 THEN w.mark ELSE @]
  <2>3. CASE Put(J, row)
    <3>0. w.plan \in Plan
      BY <1>a DEF Worker
    <3>1. UnknownRow(R, w.plan) \in Row
      BY <2>1, <3>0, RowUpdates
    <3>4. UnknownRow(R, w.plan).status = "delivery_unknown"
      BY <2>1, RowFields
    <3>2. R.status = "sending" => UnknownRow(R, w.plan).reply = R.reply
      BY <2>1, RowFields
    <3>3. row.status = "delivery_unknown" /\ row.reply = UnknownRow(R, w.plan).reply
      BY <3>1, <3>4 DEF Row
    <3>. HIDE DEF row
    <3>. QED
      BY <1>x, <2>1, <2>3, <3>2, <3>3 DEF StaysUnsent, StaysSending
  <2>. QED
    BY <1>12, <2>1, <2>2, <2>3 DEF FinishUnknown
<1>13. CASE BurstCommit
  <2>1. J \in Events /\ R \in Row /\ R.status \in {"processing", "projection_pending"}
    BY <1>13, <1>j DEF BurstCommit, WorkerOK, JobSteps, BurstSteps
  <2>2. /\ SkippedRow(R, "superseded").status = "skipped"
        /\ BurstRow(R, FALSE).status = "projection_pending"
    BY <2>1 DEF SkippedRow, BurstRow, Row
  <2>. QED
    BY <1>13, <1>x, <2>1, <2>2 DEF BurstCommit, StaysUnsent
<1>. QED
  BY <1>1, <1>2, <1>3, <1>4, <1>5, <1>6, <1>7, <1>8, <1>9, <1>10, <1>11, <1>12,
     <1>13 DEF JobAction

(* No step takes up another job before the worker has rested.              *)
LEMMA SameJob ==
    ASSUME TypeOK, JobAction \/ Authorize \/ LocalSendReturns
    PROVE  w'.job \in {w.job, NoEvent}
<1>a. w \in Worker
  BY DEF TypeOK
<1>1. \A p : Between(p).job = NoEvent
  BY DEF Between
<1>2. ASSUME NEW p, Goto(p) PROVE w'.job = w.job
  BY <1>2, Moving DEF Keeps
<1>3. ASSUME NEW r, Skip(r) PROVE w'.job = w.job
  BY <1>3, Moving DEF Keeps
<1>4. ASSUME NEW r, NEW b, Hold(r, b) PROVE w'.job = w.job
  BY <1>4, Moving DEF Keeps
<1>5. ASSUME NEW b, GiveUpAsUnknown(b) PROVE w'.job = w.job
  BY <1>5, Moving DEF Keeps
<1>6. ASSUME NEW row, NEW next, Settle(row, next), next.job \in {w.job, NoEvent}
      PROVE  w'.job \in {w.job, NoEvent}
  BY <1>2, <1>6 DEF Settle
<1>7. ASSUME RefreshContext \/ DeferScheduled PROVE w'.job \in {w.job, NoEvent}
  BY <1>1, <1>3, <1>6, <1>7 DEF RefreshContext, DeferScheduled
<1>8. ASSUME Done PROVE w'.job = NoEvent
  BY <1>1, <1>8 DEF Done
<1>9. CASE CheckTurn \/ CheckScheduled \/ CheckBeforeSend \/ SendUnavailable
  BY <1>9, <1>2, <1>3, <1>4, <1>5, <1>7, <1>8
     DEF CheckTurn, CheckScheduled, CheckBeforeSend, SendUnavailable
<1>10. CASE ReadContext \/ Analyze \/ SettleAnalysis
  <2>1. CASE ReadContext
    <3>. [w EXCEPT !.pc = "decide", !.mark = observed].job = w.job
      BY <1>a DEF Worker
    <3>. QED
      BY <2>1, <1>7 DEF ReadContext
  <2>2. CASE Analyze
    <3>. \A t : [w EXCEPT !.pc = "settle", !.draft = t].job = w.job
      BY <1>a DEF Worker
    <3>. QED
      BY <2>2, <1>2 DEF Analyze
  <2>3. CASE SettleAnalysis
    <3>1. \A t : [w EXCEPT !.pc = "record", !.draft = t].job = w.job
      BY <1>a DEF Worker
    <3>2. CASE SettleNoReply
      BY <1>1, <1>3, <1>6, <3>1, <3>2, Moving DEF SettleNoReply, Keeps
    <3>. QED
      BY <2>3, <1>2, <1>3, <1>5, <1>7, <3>2 DEF SettleAnalysis
  <2>. QED
    BY <1>10, <2>1, <2>2, <2>3
<1>11. CASE ScheduleReply \/ SkipCommit \/ Authorize
  <2>. [w EXCEPT !.pc = "await"].job = w.job
    BY <1>a DEF Worker
  <2>. QED
    BY <1>11, <1>1, <1>6 DEF ScheduleReply, SkipCommit, Authorize
<1>12. CASE RecordScheduled \/ JournalReady \/ LocalSendReturns \/ SkipRecord
              \/ BurstRecord
  BY <1>12, <1>2, <1>5
     DEF RecordScheduled, JournalReady, LocalSendReturns, SkipRecord, BurstRecord,
         RecordSkip
<1>13. CASE JournalConfirmed \/ ContextSending \/ ContextSent \/ FinishSent
              \/ FinishLost \/ FinishUnknown \/ UnknownContext \/ BurstCommit
  BY <1>13, <1>2, <1>8
     DEF JournalConfirmed, ContextSending, ContextSent, FinishSent, FinishLost,
         FinishUnknown, UnknownContext, BurstCommit
<1>. QED
  BY <1>9, <1>10, <1>11, <1>12, <1>13 DEF JobAction

(* A step that keeps the rows taken for stale, and takes up none of them.  *)
LEMMA StaleKept ==
    ASSUME StaleOK, stale' \subseteq stale,
           \A e \in stale : job'[e].status = job[e].status /\ w'.job # e
    PROVE  StaleOK'
BY DEF StaleOK

(* No step works on, or settles, a row taken for stale.                    *)
LEMMA StaleInv == IInv /\ [Next]_vars => StaleOK'
<1>. SUFFICES ASSUME TypeOK, WorkerOK, StaleOK, [Next]_vars PROVE StaleOK'
  BY DEF IInv
<1>a. /\ w \in Worker /\ job \in [Events -> Row] /\ stale \subseteq Events
      /\ NoEvent \notin Events
  BY EventsAssumption DEF TypeOK
<1>r. Rests => \A e \in stale : w'.job # e
  BY <1>a DEF Rests
<1>1. CASE UNCHANGED <<job, stale, w>>
  BY <1>1, StaleKept DEF StaleOK
<1>2. ASSUME NEW e \in Events, Age(e) PROVE StaleOK'
  BY <1>2 DEF Age, StaleOK
<1>3. ASSUME NEW e \in Events, BecomeDue(e) PROVE StaleOK'
  <2>1. \A f \in Events : job'[f].status = job[f].status
    BY <1>3, <1>a DEF BecomeDue, Put, Row
  <2>. QED
    BY <1>3, <1>a, <2>1, StaleKept DEF BecomeDue, StaleOK, clockVars
<1>4. ASSUME NEW e \in Events, Enqueue(e) PROVE StaleOK'
  <2>1. e \notin stale
    BY <1>4 DEF Enqueue, Enqueueable, StaleOK
  <2>. QED
    BY <1>4, <1>a, <2>1, StaleKept DEF Enqueue, Put, StaleOK, clockVars
<1>5. ASSUME NEW e \in Events, Claim(e) PROVE StaleOK'
  <2>1. e \notin stale
    BY <1>5 DEF Claim, Claimable, StaleOK
  <2>2. w'.job = e
    BY <1>5 DEF Claim, Between
  <2>. QED
    BY <1>5, <1>a, <2>1, <2>2, StaleKept DEF Claim, Put, clockVars
<1>6. CASE JobAction
  <2>1. J \in Events /\ \A e \in Events : e # J => job'[e] = job[e]
    BY <1>6, JobOutcome
  <2>2. stale' = stale
    BY <1>6 DEF JobAction, CheckTurn, ReadContext, Analyze, SettleAnalysis,
       RecordScheduled, ScheduleReply, CheckScheduled, CheckBeforeSend,
       JournalReady, SendUnavailable, JournalConfirmed, ContextSending,
       ContextSent, FinishSent, FinishLost, SkipRecord, SkipCommit,
       FinishUnknown, UnknownContext, BurstRecord, BurstCommit, clockVars
  <2>3. \A e \in stale : w'.job # e
    BY <1>6, <1>a, SameJob DEF StaleOK
  <2>. QED
    BY <1>a, <2>1, <2>2, <2>3, StaleKept DEF StaleOK, J
<1>7. CASE Authorize \/ LocalSendReturns
  <2>1. \A e \in stale : e # J => job'[e] = job[e]
    <3>. Put(J, job'[J]) \/ UNCHANGED job
      BY <1>7, <1>a DEF Authorize, LocalSendReturns, Settle, Put
    <3>. QED
      BY <1>a DEF Put
  <2>2. stale' = stale
    BY <1>7 DEF Authorize, LocalSendReturns, clockVars
  <2>3. \A e \in stale : w'.job # e
    BY <1>7, <1>a, SameJob DEF StaleOK
  <2>. QED
    BY <1>a, <2>1, <2>2, <2>3, StaleKept DEF StaleOK, J
<1>8. CASE RecoverUnknown
  <2>1. \A e \in Events : job[e].status # "delivery_unknown" => job'[e] = job[e]
    BY <1>8 DEF RecoverUnknown, RecoverWith, Unknown
  <2>2. stale' = stale /\ w'.job = w.job
    BY <1>8, Moving DEF RecoverUnknown, RecoverWith, Unknown, clockVars, Keeps
  <2>. QED
    BY <1>a, <2>1, <2>2, StaleKept DEF StaleOK
<1>9. CASE RecoverStale
  BY <1>9 DEF RecoverStale, StaleOK
<1>10. CASE GiveUp
  <2>1. PICK old \in SUBSET {e \in Events : Exhausted(e)} : GiveUpOn(old)
    BY <1>10 DEF GiveUp
  <2>2. \A e \in Events : job[e].status # "delivery_unknown" => job'[e] = job[e]
    BY <2>1 DEF GiveUpOn, Exhausted
  <2>3. stale' = stale /\ w'.job = w.job
    BY <2>1, Moving DEF GiveUpOn, clockVars, Keeps
  <2>. QED
    BY <1>a, <2>2, <2>3, StaleKept DEF StaleOK
<1>11. CASE Archive
  <2>1. \A e \in Events : job[e].status \notin {"sent", "skipped"} => job'[e] = job[e]
    BY <1>11 DEF Archive
  <2>. QED
    BY <1>11, <1>a, <2>1, StaleKept DEF Archive, StaleOK, clockVars
<1>12. CASE Idle \/ Stall \/ Crash \/ Restart
  <2>1. job' = job /\ stale' = stale
    BY <1>12 DEF Idle, Stall, Crash, Restart, clockVars
  <2>2. w'.job = w.job \/ w'.job = NoEvent
    BY <1>12, Moving DEF Idle, Stall, Crash, Restart, Keeps, Rests, Between
  <2>. QED
    BY <1>a, <2>1, <2>2, StaleKept DEF StaleOK
<1>13. ASSUME NEW e \in Events,
              Arrive(e) \/ Expire(e) \/ JournalCap(e) \/ ChildPosts(e)
                \/ ChildEnds(e)
       PROVE  UNCHANGED <<job, stale, w>>
  BY <1>13 DEF Arrive, Expire, JournalCap, ChildPosts, ChildEnds, clockVars
<1>14. CASE OtherRow \/ Observe \/ UNCHANGED vars
  BY <1>1, <1>14 DEF OtherRow, Observe, vars, clockVars
<1>. QED
  BY <1>1, <1>2, <1>3, <1>4, <1>5, <1>6, <1>7, <1>8, <1>9, <1>10, <1>11, <1>12,
     <1>13, <1>14 DEF Next, WorkerStep, JobAction

-----------------------------------------------------------------------------
(* Message by message: what can still lead to a send has not been sent.    *)

(* Where the journal holds, nothing is pushed out of it.                   *)
LEMMA NoEviction ==
    ASSUME JournalHolds, TypeOK, NEW e \in Events PROVE ~JournalCap(e)
BY DEF JournalHolds, TypeOK, JournalCap

(* Nothing that matters to e changes.                                      *)
LEMMA SendKept ==
    ASSUME NEW e \in Events, SendOK(e),
           \/ job'[e] = job[e]
           \/ /\ job[e].status # "absent"
              /\ job'[e].status = job[e].status /\ job'[e].reply = job[e].reply,
           posts'[e] = posts[e],
           child'[e] = child[e] \/ child'[e].phase = "none",
           supersededBy'[e] = supersededBy[e], tombstone' = tombstone,
           axEvidence \subseteq axEvidence'
    PROVE  SendOK(e)'
<1>1. e \in tombstone => job[e].status = "absent"
  BY DEF SendOK, NoRow
<1>. QED
  BY <1>1 DEF SendOK, Unsent, Open, Enqueueable, Reopenable, AxMutated, Superseded

(* A message nothing was sent for.                                         *)
LEMMA SendUnsent ==
    ASSUME NEW e \in Events, SendOK(e), JournalHolds => Unsent(e),
           job[e].status # "absent",
           posts'[e] = posts[e], child'[e] = child[e],
           job'[e].status # "sending",
           job'[e].status = "scheduled" => job'[e].reply # NoText,
           tombstone' = tombstone
    PROVE  SendOK(e)'
BY DEF SendOK, Unsent, NoRow

(* A send has begun: the row is not reopened.                              *)
LEMMA SendBegun ==
    ASSUME NEW e \in Events, SendOK(e), job[e].status # "absent",
           posts'[e] = posts[e], child'[e] = child[e] \/ child'[e].phase = "none",
           e \in axEvidence', tombstone' = tombstone,
           supersededBy'[e] = supersededBy[e],
           \/ job'[e].status \in {"sent", "skipped"}
           \/ job'[e].status \in {"sending", "delivery_unknown"}
                /\ job'[e].reply # NoText
    PROVE  SendOK(e)'
BY DEF SendOK, Unsent, NoRow, Open, Enqueueable, Reopenable, AxMutated, Superseded

(* What the recovery of an uncertain row may reopen.                       *)
LEMMA RecoveredOutcome ==
    ASSUME TypeOK, NEW e \in Events, NEW seen, NEW bound, job[e].status = "delivery_unknown"
    PROVE  LET row == RecoveredRow(e, seen, bound)
           IN \/ row.status \in {"sent", "skipped"}
              \/ row = job[e]
              \/ /\ Reopenable(e)
                 /\ row.status \in {"pending", "scheduled"}
                 /\ row.status = "scheduled" => row.reply # NoText
<1>1. job[e] \in Row
  BY DEF TypeOK
<1>2. /\ SentRow(job[e]).status = "sent"
      /\ ScheduledRow(job[e], FALSE).status = "scheduled"
      /\ ScheduledRow(job[e], FALSE).reply = job[e].reply
      /\ \A r : SkippedRow(job[e], r).status = "skipped"
  BY <1>1, RowFields
<1>3. \A r : PendingRow(job[e], r, TRUE).status = "pending"
  BY <1>1 DEF PendingRow, Row
<1>4. \/ Leftover(e, seen, bound).status \in {"sent", "skipped"}
      \/ Leftover(e, seen, bound) = job[e]
      \/ /\ Reopenable(e)
         /\ Leftover(e, seen, bound).status \in {"pending", "scheduled"}
         /\ Leftover(e, seen, bound).status = "scheduled" => Leftover(e, seen, bound).reply # NoText
  BY <1>2, <1>3 DEF Leftover, Reasked, Reopenable
<1>. QED
  BY <1>2, <1>4 DEF RecoveredRow

(* What stale recovery may reopen.                                         *)
LEMMA StaleOutcome ==
    ASSUME TypeOK, NEW e \in Events, job[e].status \in {"processing", "sending"}
    PROVE  LET row == StaleRow(e)
           IN /\ row.status \notin {"sending", "absent"}
              /\ row.status = "scheduled" => row.reply # NoText
              /\ job[e].status = "sending" =>
                   \/ row.status = "sent"
                   \/ row.status = "delivery_unknown" /\ row.reply = job[e].reply
<1>1. job[e] \in Row
  BY DEF TypeOK
<1>2. /\ SentRow(job[e]).status = "sent"
      /\ SkippedRow(job[e], ctx[e].reason).status = "skipped"
      /\ BurstRow(job[e], TRUE).status = "projection_pending"
  BY <1>1 DEF SentRow, SkippedRow, BurstRow, Row
<1>. DEFINE again == [job[e] EXCEPT !.status = IF job[e].decision = "reply"
                                                  /\ job[e].reply # NoText
                                                 THEN "scheduled" ELSE "pending"]
            unknown == [job[e] EXCEPT !.status = "delivery_unknown",
                                      !.reason = "reconcile", !.reconcile = TRUE]
<1>3. /\ again.status = "pending" \/ again.status = "scheduled"
      /\ again.status = "scheduled" => again.reply # NoText
  BY <1>1 DEF Row
<1>4. unknown.status = "delivery_unknown" /\ unknown.reply = job[e].reply
  BY <1>1 DEF Row
<1>5. StaleRow(e) \in {BurstRow(job[e], TRUE), SkippedRow(job[e], ctx[e].reason),
                       SentRow(job[e]), again, unknown}
  BY DEF StaleRow
<1>6. job[e].status = "sending" => StaleRow(e) \in {SentRow(job[e]), unknown}
  BY DEF StaleRow, ProvesSkip, Replayable
<1>. HIDE DEF again, unknown
<1>. QED
  BY <1>2, <1>3, <1>4, <1>5, <1>6

(* Every step keeps what relates a row to the sends made for it.           *)
LEMMA SendInv == IInv /\ [Next]_vars => \A e \in Events : SendOK(e)'
<1>. SUFFICES ASSUME TypeOK, WorkerOK, StaleOK,
                     \A f \in Events : SendOK(f), [Next]_vars,
                     NEW e \in Events
              PROVE  SendOK(e)'
  BY DEF IInv
<1>a. /\ w \in Worker /\ job \in [Events -> Row] /\ NoEvent \notin Events
      /\ job[e] \in Row /\ child \in [Events -> Child] /\ posts \in [Events -> Nat]
      /\ supersededBy \in [Events -> Events \cup {NoEvent}]
  BY EventsAssumption DEF TypeOK
<1>o. SendOK(e)
  OBVIOUS
<1>u. ASSUME JournalHolds, job[e].status \in {"pending", "processing", "scheduled",
                                               "projection_pending"}
      PROVE  Unsent(e)
  BY <1>u DEF SendOK, Open
<1>1. CASE UNCHANGED <<job, tombstone, supersededBy, axEvidence, child, posts>>
  BY <1>1, <1>o, SendKept
<1>2. ASSUME NEW f \in Events, ChildEnds(f) PROVE SendOK(e)'
  BY <1>2, <1>a, <1>o, SendKept DEF ChildEnds, NoChild, journalVars
<1>3. ASSUME NEW f \in Events, ChildPosts(f) PROVE SendOK(e)'
  <2>1. CASE f # e
    BY <1>3, <1>a, <1>o, <2>1, SendKept DEF ChildPosts, journalVars
  <2>2. CASE f = e
    <3>1. /\ ~Unsent(e) /\ child'[e].phase # "running"
          /\ JournalHolds => posts[e] = 0 /\ posts'[e] = 1
      BY <1>3, <1>a, <2>2 DEF ChildPosts, Unsent, SendOK, NoChild, Child
    <3>2. /\ UNCHANGED <<job, tombstone, supersededBy, axEvidence>>
          /\ JournalHolds => ~Open(e) /\ ~Reopenable(e) /\ ~Superseded(e)
      BY <1>3, <3>1 DEF ChildPosts, SendOK, journalVars
    <3>. QED
      BY <3>1, <3>2 DEF SendOK, Open, Enqueueable, Reopenable, AxMutated, Superseded
  <2>. QED
    BY <2>1, <2>2
<1>4. ASSUME NEW f \in Events, BecomeDue(f) PROVE SendOK(e)'
  <2>1. \A g \in Events : job'[g].status = job[g].status /\ job'[g].reply = job[g].reply
    BY <1>4, <1>a DEF BecomeDue, Put, Row
  <2>2. job'[e] = job[e] \/ job[e].status # "absent"
    BY <1>4, <1>a DEF BecomeDue, Put
  <2>. QED
    BY <1>4, <1>o, <2>1, <2>2, SendKept DEF BecomeDue, journalVars, sendVars
<1>5. ASSUME NEW f \in Events, Enqueue(f) PROVE SendOK(e)'
  <2>1. UNCHANGED <<tombstone, axEvidence, child, posts>>
    BY <1>5 DEF Enqueue, journalVars, sendVars
  <2>2. CASE f # e /\ supersededBy'[e] = supersededBy[e]
    BY <1>5, <1>a, <1>o, <2>1, <2>2, SendKept DEF Enqueue, Put
  <2>3. CASE f # e /\ supersededBy'[e] # supersededBy[e]
    <3>1. Withdrawable(e) /\ job'[e] = job[e]
      BY <1>5, <1>a, <2>3 DEF Enqueue, Put
    <3>. QED
      BY <1>o, <1>u, <2>1, <3>1, SendUnsent DEF Withdrawable, SendOK
  <2>4. CASE f = e
    <3>1. (JournalHolds => Unsent(e)) /\ e \notin tombstone
      BY <1>5, <2>4 DEF Enqueue, Enqueueable, SendOK, Open
    <3>2. job'[e].status = "pending"
      BY <1>5, <1>a, <2>4 DEF Enqueue, Put, NoRow
    <3>. QED
      BY <2>1, <3>1, <3>2 DEF SendOK, Unsent
  <2>. QED
    BY <2>2, <2>3, <2>4
<1>6. ASSUME NEW f \in Events, Claim(f) PROVE SendOK(e)'
  <2>1. CASE f # e
    BY <1>6, <1>a, <1>o, <2>1, SendKept DEF Claim, Put, journalVars, sendVars
  <2>2. CASE f = e
    <3>1. Processing(job[e]).status = "processing"
      BY <1>a, RowFields
    <3>2. job'[e] = Processing(job[e])
      BY <1>6, <1>a, <2>2 DEF Claim, Put
    <3>3. (JournalHolds => Unsent(e)) /\ job[e].status # "absent"
      BY <1>6, <1>u, <2>2 DEF Claim, Claimable
    <3>. QED
      BY <1>6, <1>o, <3>1, <3>2, <3>3, SendUnsent DEF Claim, sendVars
  <2>. QED
    BY <2>1, <2>2
<1>7. CASE JobAction
  <2>1. /\ J \in Events /\ \A f \in Events : f # J => job'[f] = job[f]
        /\ StaysUnsent \/ StaysSending \/ UNCHANGED job
    BY <1>7, JobOutcome
  <2>2. /\ UNCHANGED <<tombstone, supersededBy, child, posts>>
        /\ axEvidence \subseteq axEvidence'
    BY <1>7 DEF JobAction, CheckTurn, ReadContext, Analyze, SettleAnalysis,
       RecordScheduled, ScheduleReply, CheckScheduled, CheckBeforeSend,
       JournalReady, SendUnavailable, JournalConfirmed, ContextSending,
       ContextSent, FinishSent, FinishLost, SkipRecord, SkipCommit,
       FinishUnknown, UnknownContext, BurstRecord, BurstCommit, journalVars,
       sendVars
  <2>3. CASE job'[e] = job[e]
    BY <1>o, <2>2, <2>3, SendKept
  <2>4. CASE e = J /\ StaysUnsent
    <3>. (JournalHolds => Unsent(e)) /\ job[e].status # "absent"
      BY <1>u, <2>4 DEF StaysUnsent, R, J
    <3>. QED
      BY <1>o, <2>2, <2>4, SendUnsent DEF StaysUnsent
  <2>5. CASE e = J /\ StaysSending
    <3>1. job[e].status = "sending" /\ R = job[e]
      BY <2>5 DEF StaysSending, R, J
    <3>2. e \in axEvidence /\ job[e].reply # NoText
      BY <3>1 DEF SendOK
    <3>. QED
      BY <1>o, <2>2, <2>5, <3>1, <3>2, SendBegun DEF StaysSending
  <2>. QED
    BY <2>1, <2>3, <2>4, <2>5
<1>8. CASE Authorize
  <2>1. J \in Events /\ R \in Row /\ R.status = "processing" /\ R.reply # NoText
    BY <1>8, <1>a DEF Authorize, At, WorkerOK, HasJob, JobSteps, ProcessingSteps,
                      ReplySteps, R, J, TypeOK
  <2>2. UNCHANGED <<tombstone, supersededBy, posts>>
    BY <1>8 DEF Authorize
  <2>. DEFINE row == [R EXCEPT !.status = "sending", !.reconcile = FALSE]
  <2>3. row \in Row /\ row.status = "sending" /\ row.reply = R.reply
    BY <2>1 DEF Row, Statuses
  <2>4. Settle(row, [w EXCEPT !.pc = "await"])
    BY <1>8 DEF Authorize
  <2>. HIDE DEF row
  <2>5. CASE Superseded(J)
    <3>1. UNCHANGED <<axEvidence, child>>
      BY <1>8, <2>5 DEF Authorize
    <3>2. /\ job'[J].status = "projection_pending"
          /\ e # J => job'[e] = job[e]
      BY <1>a, <2>1, <2>3, <2>4, <2>5, Settling
    <3>3. CASE e = J
      BY <1>o, <1>u, <2>1, <2>2, <3>1, <3>2, <3>3, SendUnsent DEF R, J
    <3>. QED
      BY <1>o, <2>2, <3>1, <3>2, <3>3, SendKept
  <2>6. CASE ~Superseded(J)
    <3>1. /\ axEvidence' = axEvidence \cup {J}
          /\ child' = [child EXCEPT ![J] = [phase |-> "running", text |-> R.reply]]
      BY <1>8, <2>6 DEF Authorize
    <3>2. job'[J] = row /\ (e # J => job'[e] = job[e])
      BY <1>a, <2>1, <2>3, <2>4, <2>6, Settling
    <3>3. CASE e # J
      BY <1>a, <1>o, <2>2, <3>1, <3>2, <3>3, SendKept
    <3>4. CASE e = J
      <4>1. (JournalHolds => posts[e] = 0) /\ e \notin tombstone
        BY <1>o, <1>u, <2>1, <3>4 DEF Unsent, SendOK, NoRow, R, J
      <4>2. job'[e].status = "sending" /\ job'[e].reply # NoText
        BY <2>1, <2>3, <3>2, <3>4
      <4>. QED
        BY <2>1, <2>2, <2>6, <3>1, <3>4, <4>1, <4>2
           DEF SendOK, Unsent, Open, Enqueueable, Reopenable, Superseded
    <3>. QED
      BY <3>3, <3>4
  <2>. QED
    BY <2>5, <2>6
<1>9. CASE LocalSendReturns
  <2>1. J \in Events /\ R \in Row /\ R.status = "sending"
    BY <1>9, <1>a DEF LocalSendReturns, At, WorkerOK, HasJob, JobSteps,
                      SendingSteps, R, J, TypeOK
  <2>2. UNCHANGED <<tombstone, supersededBy, axEvidence, posts>>
    BY <1>9 DEF LocalSendReturns, journalVars
  <2>3. CASE e # J \/ UNCHANGED job
    <3>1. job'[e] = job[e]
      BY <1>9, <1>a, <2>3 DEF LocalSendReturns, Put
    <3>2. child'[e] = child[e] \/ child'[e].phase = "none"
      <4>1. NoChild.phase = "none"
        BY DEF NoChild
      <4>2. child'[e] \in {child[e], NoChild}
        BY <1>9, <1>a, <2>1 DEF LocalSendReturns
      <4>. QED
        BY <4>1, <4>2
    <3>. QED
      BY <1>o, <2>2, <3>1, <3>2, SendKept
  <2>4. CASE e = J /\ child[J].phase = "running" /\ Put(J, Processing(R))
               /\ child' = [child EXCEPT ![J] = NoChild]
    <3>1. Processing(R).status = "processing"
      BY <2>1, RowFields
    <3>2. job'[e].status = "processing" /\ child'[e].phase = "none"
      BY <1>a, <2>1, <2>4, <3>1 DEF Put, NoChild
    <3>3. (JournalHolds => posts[e] = 0) /\ e \notin tombstone
      BY <1>o, <2>1, <2>4 DEF SendOK, NoRow, R, J
    <3>. QED
      BY <2>2, <3>2, <3>3 DEF SendOK, Unsent
  <2>. QED
    BY <1>9, <2>3, <2>4 DEF LocalSendReturns
<1>10. CASE RecoverUnknown
  <2>1. PICK seen \in SUBSET Events, bound \in SUBSET Events :
          job'[e] = IF job[e].status = "delivery_unknown"
                      THEN RecoveredRow(e, e \in seen, e \in bound) ELSE job[e]
    BY <1>10 DEF RecoverUnknown, RecoverWith, Unknown
  <2>2. UNCHANGED <<tombstone, supersededBy, axEvidence, child, posts>>
    BY <1>10 DEF RecoverUnknown, RecoverWith, Unknown, journalVars, sendVars
  <2>3. CASE job'[e] = job[e]
    BY <1>o, <2>2, <2>3, SendKept
  <2>4. CASE job[e].status = "delivery_unknown" /\ job'[e] # job[e]
    <3>1. job'[e] = RecoveredRow(e, e \in seen, e \in bound)
      BY <2>1, <2>4
    <3>2. \/ job'[e].status \in {"sent", "skipped"}
          \/ /\ Reopenable(e)
             /\ job'[e].status \in {"pending", "scheduled"}
             /\ job'[e].status = "scheduled" => job'[e].reply # NoText
      BY <2>4, <3>1, RecoveredOutcome
    <3>3. CASE Reopenable(e)
      BY <1>o, <2>2, <2>4, <3>2, <3>3, SendUnsent DEF SendOK
    <3>4. CASE ~Reopenable(e)
      BY <1>o, <2>2, <2>4, <3>2, <3>4, SendBegun DEF Reopenable, AxMutated
    <3>. QED
      BY <3>3, <3>4
  <2>. QED
    BY <2>1, <2>3, <2>4
<1>11. CASE RecoverStale
  <2>1. /\ job'[e] = IF e \in stale THEN StaleRow(e) ELSE job[e]
        /\ UNCHANGED <<tombstone, supersededBy, axEvidence, child, posts>>
    BY <1>11 DEF RecoverStale, journalVars, sendVars
  <2>2. CASE e \notin stale
    BY <1>o, <2>1, <2>2, SendKept
  <2>3. CASE e \in stale
    <3>1. job[e].status \in {"processing", "sending"}
      BY <2>3 DEF StaleOK
    <3>2. /\ job'[e].status \notin {"sending", "absent"}
          /\ job'[e].status = "scheduled" => job'[e].reply # NoText
          /\ job[e].status = "sending" =>
               \/ job'[e].status = "sent"
               \/ job'[e].status = "delivery_unknown" /\ job'[e].reply = job[e].reply
      BY <2>1, <2>3, <3>1, StaleOutcome
    <3>3. CASE job[e].status = "processing"
      BY <1>o, <1>u, <2>1, <3>2, <3>3, SendUnsent
    <3>4. CASE job[e].status = "sending"
      BY <1>o, <2>1, <3>2, <3>4, SendBegun DEF SendOK
    <3>. QED
      BY <3>1, <3>3, <3>4
  <2>. QED
    BY <2>2, <2>3
<1>12. CASE GiveUp
  <2>1. PICK old \in SUBSET {f \in Events : Exhausted(f)} : GiveUpOn(old)
    BY <1>12 DEF GiveUp
  <2>2. UNCHANGED <<tombstone, supersededBy, axEvidence, child, posts>>
    BY <2>1 DEF GiveUpOn, journalVars, sendVars
  <2>3. CASE e \notin old
    BY <1>o, <2>1, <2>2, <2>3, SendKept DEF GiveUpOn
  <2>4. CASE e \in old
    <3>1. job'[e].status = "skipped"
      BY <1>a, <2>1, <2>4 DEF GiveUpOn, Row
    <3>2. (JournalHolds => Unsent(e)) /\ job[e].status # "absent"
      BY <2>1, <2>4 DEF Exhausted, SendOK, Reopenable
    <3>. QED
      BY <1>o, <2>2, <3>1, <3>2, SendUnsent
  <2>. QED
    BY <2>3, <2>4
<1>13. CASE Archive
  <2>1. PICK old \in SUBSET {f \in Events : job[f].status \in {"sent", "skipped"}} :
          /\ tombstone' = tombstone \cup old
          /\ supersededBy' = [f \in Events |-> IF f \in old THEN NoEvent
                                               ELSE supersededBy[f]]
          /\ job' = [f \in Events |-> IF f \in old THEN NoRow ELSE job[f]]
    BY <1>13 DEF Archive
  <2>2. UNCHANGED <<axEvidence, child, posts>>
    BY <1>13 DEF Archive, journalVars, sendVars
  <2>3. CASE e \in old
    <3>. job'[e] = NoRow /\ e \in tombstone' /\ supersededBy'[e] = NoEvent
      BY <2>1, <2>3
    <3>. QED
      BY <1>o, <2>2 DEF SendOK, NoRow, Open, Enqueueable, Reopenable, Superseded
  <2>4. CASE e \notin old
    <3>. /\ job'[e] = job[e] /\ (e \in tombstone' <=> e \in tombstone)
         /\ supersededBy'[e] = supersededBy[e]
      BY <2>1, <2>4
    <3>. QED
      BY <1>o, <2>2
         DEF SendOK, Unsent, Open, Enqueueable, Reopenable, AxMutated, Superseded
  <2>. QED
    BY <2>3, <2>4
<1>14. CASE Idle \/ Stall \/ Crash \/ Restart
  BY <1>1, <1>14 DEF Idle, Stall, Crash, Restart, journalVars, sendVars
<1>15. ASSUME NEW f \in Events, Arrive(f) \/ Expire(f) \/ Age(f) PROVE SendOK(e)'
  BY <1>1, <1>15 DEF Arrive, Expire, Age, journalVars, sendVars
<1>16. CASE OtherRow \/ Observe \/ UNCHANGED vars
  BY <1>1, <1>16 DEF OtherRow, Observe, vars, journalVars, sendVars
<1>17. ASSUME NEW f \in Events, JournalCap(f) PROVE SendOK(e)'
  <2>1. ~JournalHolds /\ UNCHANGED <<job, tombstone>>
    BY <1>17, NoEviction DEF JournalCap
  <2>2. job[e].status = "sending" => e # f
    BY <1>17 DEF JournalCap
  <2>3. job[e].status = "sending" => e \in axEvidence'
    BY <1>o, <1>17, <2>2 DEF JournalCap, SendOK
  <2>. QED
    BY <1>o, <2>1, <2>3 DEF SendOK, JournalHolds
<1>. QED
  BY <1>2, <1>3, <1>4, <1>5, <1>6, <1>7, <1>8, <1>9, <1>10, <1>11, <1>12, <1>13,
     <1>14, <1>15, <1>16, <1>17 DEF Next, WorkerStep, JobAction

-----------------------------------------------------------------------------
(* The theorems.                                                           *)

(* The empty queue satisfies the inductive invariant.                      *)
LEMMA InitIInv == Init => IInv
<1>. SUFFICES ASSUME Init PROVE IInv
  OBVIOUS
<1>1. TypeOK
  <2>1. job \in [Events -> Row] /\ ctx \in [Events -> ContextRow]
    BY NoRowType DEF Init, ContextRow, ContextStatuses, Reasons
  <2>2. w \in Worker
    BY WorkerTypes DEF Init, Steps
  <2>3. child \in [Events -> Child] /\ posts \in [Events -> Nat]
    BY DEF Init, NoChild, Child
  <2>4. failures \in [crashes : 0..MaxCrashes, stalls : 0..MaxStalls,
                    evictions : 0..MaxEvictions]
    BY BoundsAssumption DEF Init
  <2>5. room \in Seq(RoomRow) /\ observed \in Nat
    BY DEF Init
  <2>. QED
    BY <2>1, <2>2, <2>3, <2>4, <2>5 DEF Init, TypeOK
<1>2. WorkerOK /\ StaleOK
  BY DEF Init, WorkerOK, StaleOK, HasJob, Between, JobSteps, ProcessingSteps,
         SendingSteps, BurstSteps, ReplySteps
<1>3. ASSUME NEW e \in Events PROVE SendOK(e)
  BY DEF Init, SendOK, Unsent, NoRow, NoChild, Superseded
<1>. QED
  BY <1>1, <1>2, <1>3 DEF IInv

(* The inductive invariant holds throughout: the step lemmas together.     *)
THEOREM Invariance == Spec => []IInv
<1>1. IInv /\ [Next]_vars => IInv'
  BY TypeStep, WorkerInv, StaleInv, SendInv DEF IInv, WorkerOK
<1>. QED
  BY InitIInv, <1>1, PTL DEF Spec

(* Every reachable state is well typed: no step leaves the value sets that *)
(* the durable tables and the worker's memory are declared with.           *)
THEOREM TypeCorrect == Spec => []TypeOK
<1>1. IInv => TypeOK
  BY DEF IInv
<1>. QED
  BY Invariance, <1>1, PTL

(* A reply to one message reaches the room at most once, whatever crashes, *)
(* stalls, late children, recoveries and duplicate enqueues happen, as long *)
(* as the journal holds the evidence of unresolved sends.                  *)
THEOREM OnePost == ASSUME JournalHolds PROVE Spec => []AtMostOnePost
<1>1. IInv => AtMostOnePost
  BY DEF IInv, SendOK, AtMostOnePost
<1>. QED
  BY Invariance, <1>1, PTL

(* A job that can still be claimed or enqueued was never answered, and no  *)
(* process is left that may answer it: again as long as the journal holds. *)
THEOREM OpenUnsent == ASSUME JournalHolds PROVE Spec => []OpenIsUnsent
<1>1. IInv => OpenIsUnsent
  BY DEF IInv, SendOK, OpenIsUnsent, Unsent
<1>. QED
  BY Invariance, <1>1, PTL

(* A message withdrawn by its successor in the burst is never answered, as *)
(* long as the journal holds the evidence of unresolved sends.             *)
THEOREM WithdrawnUnsent == ASSUME JournalHolds PROVE Spec => []WithdrawnNeverPosted
<1>1. IInv => WithdrawnNeverPosted
  BY DEF IInv, SendOK, WithdrawnNeverPosted, Unsent
<1>. QED
  BY Invariance, <1>1, PTL

-----------------------------------------------------------------------------
(* The steps of a message *)

(* Nothing can send a reply to e any more.                                 *)
Over(e) == ~(Open(e) \/ Reopenable(e))

(* The steps that can change the row of a message nobody has claimed.      *)
LEMMA JobActionFrame ==
    ASSUME JobAction
    PROVE  /\ UNCHANGED <<tombstone, supersededBy, child, posts>>
           /\ axEvidence \subseteq axEvidence'
BY DEF JobAction, CheckTurn, ReadContext, Analyze, SettleAnalysis,
       RecordScheduled, ScheduleReply, CheckScheduled, CheckBeforeSend,
       JournalReady, SendUnavailable, JournalConfirmed, ContextSending,
       ContextSent, FinishSent, FinishLost, SkipRecord, SkipCommit,
       FinishUnknown, UnknownContext, BurstRecord, BurstCommit, journalVars,
       sendVars

(* Authorizing leaves every other row alone.                               *)
LEMMA AuthorizeRow ==
    ASSUME TypeOK, WorkerOK, Authorize
    PROVE  /\ J \in Events /\ R.status = "processing"
           /\ \A e \in Events : e # J => job'[e] = job[e]
<1>1. J \in Events /\ R.status = "processing"
  BY DEF Authorize, At, WorkerOK, HasJob, JobSteps, ProcessingSteps, J
<1>. job \in [Events -> Row]
  BY DEF TypeOK
<1>. QED
  BY <1>1 DEF Authorize, Settle, Put

(* So does the return of local-send.                                       *)
LEMMA ReturnRow ==
    ASSUME TypeOK, WorkerOK, LocalSendReturns
    PROVE  /\ J \in Events /\ R.status = "sending"
           /\ \A e \in Events : e # J => job'[e] = job[e]
           /\ child[J].phase # "running" => UNCHANGED job
<1>1. J \in Events /\ R.status = "sending"
  BY DEF LocalSendReturns, At, WorkerOK, HasJob, JobSteps, SendingSteps, J
<1>. job \in [Events -> Row]
  BY DEF TypeOK
<1>. QED
  BY <1>1 DEF LocalSendReturns, Put

(* Finished rows, and rows that are not there, are left alone by all but   *)
(* Enqueue and Archive.                                                    *)
LEMMA FinishedKept ==
    ASSUME IInv, [Next]_vars, NEW e \in Events,
           job[e].status \in {"sent", "skipped", "absent"}, ~Enqueue(e), ~Archive
    PROVE  job'[e] = job[e]
<1>a. /\ TypeOK /\ WorkerOK /\ StaleOK
      /\ job \in [Events -> Row]
  BY DEF IInv, TypeOK
<1>1. CASE UNCHANGED job
  BY <1>1
<1>2. ASSUME NEW f \in Events, Enqueue(f) \/ BecomeDue(f) \/ Claim(f)
      PROVE  job'[e] = job[e]
  BY <1>2, <1>a DEF Enqueue, BecomeDue, Claim, Claimable, Put
<1>3. CASE JobAction
  BY <1>3, <1>a, JobOutcome DEF StaysUnsent, StaysSending, R, J
<1>4. CASE Authorize \/ LocalSendReturns
  BY <1>4, <1>a, AuthorizeRow, ReturnRow DEF R, J
<1>5. CASE RecoverUnknown \/ RecoverStale
  BY <1>5, <1>a DEF RecoverUnknown, RecoverWith, Unknown, RecoverStale, StaleOK
<1>6. CASE GiveUp
  BY <1>6 DEF GiveUp, GiveUpOn, Exhausted
<1>7. CASE OtherRow \/ Observe \/ Crash \/ Stall \/ Idle \/ Restart \/ UNCHANGED vars
  BY <1>1, <1>7 DEF OtherRow, Observe, Crash, Stall, Idle, Restart, vars
<1>8. ASSUME NEW f \in Events,
             \/ Arrive(f) \/ Expire(f) \/ Age(f) \/ JournalCap(f)
             \/ ChildPosts(f) \/ ChildEnds(f)
      PROVE  job'[e] = job[e]
  BY <1>1, <1>8 DEF Arrive, Expire, Age, JournalCap, ChildPosts, ChildEnds
<1>. QED
  BY <1>2, <1>3, <1>4, <1>5, <1>6, <1>7, <1>8 DEF Next, WorkerStep, JobAction

(* A closed job stays closed: recovery, give-up and every claimed step     *)
(* leave sent and skipped rows alone, and a tombstone keeps its message    *)
(* from coming back.                                                       *)
THEOREM ClosedKept == Spec => ClosedStaysClosed
<1>. DEFINE A == \A e \in Events :
                   /\ job[e].status \in {"sent", "skipped"}
                        => job'[e] = job[e] \/ (job'[e] = NoRow /\ e \in tombstone')
                   /\ e \in tombstone => job'[e] = NoRow
<1>1. IInv /\ [Next]_vars => [A]_vars
  <2>. SUFFICES ASSUME IInv, [Next]_vars, NEW e \in Events
                PROVE  /\ job[e].status \in {"sent", "skipped"}
                            => job'[e] = job[e] \/ (job'[e] = NoRow /\ e \in tombstone')
                       /\ e \in tombstone => job'[e] = NoRow
    OBVIOUS
  <2>1. e \in tombstone => job[e] = NoRow /\ job[e].status = "absent"
    <3>1. NoRow.status = "absent"
      BY DEF NoRow
    <3>. QED
      BY <3>1 DEF IInv, SendOK
  <2>2. CASE Archive
    BY <2>1, <2>2 DEF Archive
  <2>3. CASE Enqueue(e)
    BY <2>3 DEF Enqueue, Enqueueable
  <2>4. CASE ~Archive /\ ~Enqueue(e)
    BY <2>1, <2>4, FinishedKept
  <2>. QED
    BY <2>2, <2>3, <2>4
<1>. QED
  BY Invariance, <1>1, PTL DEF Spec, ClosedStaysClosed

-----------------------------------------------------------------------------
(* The queue implements SendLicence.                                       *)

(* A row that is over in any of the ways a row can be.                     *)
LEMMA OverCases ==
    ASSUME TypeOK, NEW e \in Events, SendOK(e), Over(e)
    PROVE  \/ job[e].status \in {"sent", "skipped", "sending"}
           \/ job[e].status = "absent" /\ e \in tombstone
           \/ /\ job[e].status = "delivery_unknown"
              /\ e \in axEvidence /\ job[e].reply # NoText
<1>1. job[e].status \in Statuses
  BY DEF TypeOK, Row
<1>. QED
  BY <1>1 DEF Over, Open, Enqueueable, Reopenable, AxMutated, Statuses

(* What is over stays over, unless local-send hands a licence back.        *)
LEMMA OverKept ==
    ASSUME JournalHolds, IInv, [Next]_vars, NEW e \in Events, Over(e), child[e].phase # "running"
    PROVE  Over(e)'
<1>a. /\ TypeOK /\ WorkerOK /\ StaleOK /\ SendOK(e)
      /\ job \in [Events -> Row] /\ job[e] \in Row
      /\ \A g \in Events : ~JournalCap(g)
  BY NoEviction DEF IInv, TypeOK
<1>o. \/ job[e].status \in {"sent", "skipped", "sending"}
      \/ job[e].status = "absent" /\ e \in tombstone
      \/ /\ job[e].status = "delivery_unknown"
         /\ e \in axEvidence /\ job[e].reply # NoText
  BY <1>a, OverCases
<1>k. ASSUME job'[e] = job[e], tombstone' = tombstone, axEvidence \subseteq axEvidence'
      PROVE  Over(e)'
  BY <1>k DEF Over, Open, Enqueueable, Reopenable, AxMutated
<1>f. ASSUME \/ job'[e].status \in {"sent", "skipped", "sending"}
             \/ job'[e].status = "delivery_unknown" /\ e \in axEvidence'
                  /\ job'[e].reply # NoText
      PROVE  Over(e)'
  BY <1>f DEF Over, Open, Enqueueable, Reopenable, AxMutated
<1>1. CASE UNCHANGED <<job, tombstone, axEvidence>>
  BY <1>1, <1>k
<1>2. ASSUME NEW g \in Events, Enqueue(g) \/ BecomeDue(g) \/ Claim(g)
      PROVE  Over(e)'
  <2>1. g # e
    BY <1>2, <1>o DEF Enqueue, Enqueueable, BecomeDue, Claim, Claimable
  <2>2. job'[e] = job[e]
    BY <1>2, <1>a, <2>1 DEF Enqueue, BecomeDue, Claim, Put
  <2>. QED
    BY <1>2, <1>k, <2>2 DEF Enqueue, BecomeDue, Claim, journalVars
<1>3. CASE JobAction
  <2>1. UNCHANGED tombstone /\ axEvidence \subseteq axEvidence'
    BY <1>3, JobActionFrame
  <2>2. CASE e = J /\ StaysSending
    <3>1. job[e].status = "sending" /\ R = job[e]
      BY <2>2 DEF StaysSending, R, J
    <3>2. e \in axEvidence /\ job[e].reply # NoText
      BY <1>a, <3>1 DEF SendOK
    <3>. QED
      BY <1>f, <2>1, <2>2, <3>1, <3>2 DEF StaysSending
  <2>3. ~(e = J /\ StaysUnsent)
    BY <1>o DEF StaysUnsent, R, J
  <2>. QED
    BY <1>3, <1>a, <1>k, <2>1, <2>2, <2>3, JobOutcome
<1>4. CASE Authorize \/ LocalSendReturns
  <2>1. job'[e] = job[e]
    BY <1>4, <1>a, <1>o, AuthorizeRow, ReturnRow DEF R, J
  <2>. QED
    BY <1>4, <1>k, <2>1 DEF Authorize, LocalSendReturns, journalVars
<1>5. CASE RecoverUnknown
  <2>1. PICK seen \in SUBSET Events, bound \in SUBSET Events :
          job'[e] = IF job[e].status = "delivery_unknown"
                      THEN RecoveredRow(e, e \in seen, e \in bound) ELSE job[e]
    BY <1>5 DEF RecoverUnknown, RecoverWith, Unknown
  <2>2. job[e].status = "delivery_unknown" =>
          job'[e].status \in {"sent", "skipped"} \/ job'[e] = job[e]
    BY <1>a, <2>1, RecoveredOutcome DEF Over
  <2>. QED
    BY <1>5, <1>k, <1>f, <2>1, <2>2 DEF RecoverUnknown, RecoverWith, Unknown, journalVars
<1>6. CASE RecoverStale
  <2>1. job'[e] = IF e \in stale THEN StaleRow(e) ELSE job[e]
    BY <1>6 DEF RecoverStale
  <2>2. CASE e \notin stale
    BY <1>6, <1>k, <2>1, <2>2 DEF RecoverStale, journalVars
  <2>3. CASE e \in stale
    <3>1. job[e].status = "sending"
      BY <1>a, <1>o, <2>3 DEF StaleOK
    <3>2. \/ job'[e].status = "sent"
          \/ job'[e].status = "delivery_unknown" /\ job'[e].reply = job[e].reply
      BY <1>a, <2>1, <2>3, <3>1, StaleOutcome
    <3>. QED
      BY <1>6, <1>a, <1>f, <3>1, <3>2 DEF RecoverStale, journalVars, SendOK
  <2>. QED
    BY <2>2, <2>3
<1>7. CASE GiveUp
  <2>1. PICK old \in SUBSET {f \in Events : Exhausted(f)} : GiveUpOn(old)
    BY <1>7 DEF GiveUp
  <2>2. e \notin old
    BY <1>o, <2>1 DEF Exhausted
  <2>. QED
    BY <1>k, <2>1, <2>2 DEF GiveUpOn, journalVars
<1>8. CASE Archive
  <2>1. PICK old \in SUBSET Events :
          /\ tombstone' = tombstone \cup old
          /\ job' = [f \in Events |-> IF f \in old THEN NoRow ELSE job[f]]
    BY <1>8 DEF Archive
  <2>2. CASE e \in old
    <3>. job'[e].status = "absent" /\ e \in tombstone'
      BY <2>1, <2>2 DEF NoRow
    <3>. QED
      BY DEF Over, Open, Enqueueable, Reopenable
  <2>3. CASE e \notin old
    BY <1>8, <2>1, <2>3 DEF Archive, journalVars, Over, Open, Enqueueable,
                            Reopenable, AxMutated
  <2>. QED
    BY <2>2, <2>3
<1>9. CASE OtherRow \/ Observe \/ Crash \/ Stall \/ Idle \/ Restart \/ UNCHANGED vars
  BY <1>1, <1>9 DEF OtherRow, Observe, Crash, Stall, Idle, Restart, vars, journalVars
<1>10. ASSUME NEW g \in Events,
              Arrive(g) \/ Expire(g) \/ Age(g) \/ ChildPosts(g) \/ ChildEnds(g)
       PROVE  Over(e)'
  BY <1>1, <1>10 DEF Arrive, Expire, Age, ChildPosts, ChildEnds, journalVars
<1>. QED
  BY <1>a, <1>2, <1>3, <1>4, <1>5, <1>6, <1>7, <1>8, <1>9, <1>10
     DEF Next, WorkerStep, JobAction

(* How sends, posts and withdrawals come about.                            *)
LEMMA SendFrame ==
    ASSUME IInv, [Next]_vars, NEW e \in Events
    PROVE  /\ \/ posts'[e] = posts[e]
              \/ child[e].phase = "running" /\ posts'[e] = posts[e] + 1
           /\ child'[e].phase = "running" =>
                \/ child[e].phase = "running"
                \/ Open(e) /\ ~Superseded(e) /\ posts'[e] = posts[e]
           /\ child[e].phase = "running" =>
                child'[e].phase = "running" \/ supersededBy' = supersededBy
           /\ Superseded(e) => Superseded(e)' \/ Over(e)'
<1>a. /\ TypeOK /\ WorkerOK
      /\ posts \in [Events -> Nat] /\ child \in [Events -> Child]
      /\ supersededBy \in [Events -> Events \cup {NoEvent}]
      /\ NoEvent \notin Events
  BY EventsAssumption DEF IInv, TypeOK
<1>1. CASE UNCHANGED <<child, posts, supersededBy>>
  BY <1>1 DEF Superseded
<1>2. ASSUME NEW f \in Events, Enqueue(f) PROVE
        /\ UNCHANGED <<child, posts>>
        /\ Superseded(e) => Superseded(e)'
  BY <1>2, <1>a DEF Enqueue, Superseded, sendVars
<1>3. CASE Archive
  <2>1. UNCHANGED <<child, posts>>
    BY <1>3 DEF Archive, sendVars
  <2>2. PICK old \in SUBSET Events :
          /\ tombstone' = tombstone \cup old
          /\ supersededBy' = [f \in Events |-> IF f \in old THEN NoEvent
                                               ELSE supersededBy[f]]
          /\ job' = [f \in Events |-> IF f \in old THEN NoRow ELSE job[f]]
    BY <1>3 DEF Archive
  <2>3. CASE e \in old
    <3>. job'[e].status = "absent" /\ e \in tombstone'
      BY <2>2, <2>3 DEF NoRow
    <3>. QED
      BY <2>1 DEF Over, Open, Enqueueable, Reopenable
  <2>4. CASE e \notin old
    BY <2>1, <2>2, <2>4 DEF Superseded
  <2>. QED
    BY <2>3, <2>4
<1>4. ASSUME NEW f \in Events, ChildPosts(f)
      PROVE  /\ supersededBy' = supersededBy
             /\ \/ posts'[e] = posts[e]
                \/ child[e].phase = "running" /\ posts'[e] = posts[e] + 1
             /\ child'[e].phase = "running" => child[e].phase = "running"
  BY <1>4, <1>a DEF ChildPosts, NoChild, Child
<1>5. ASSUME NEW f \in Events, ChildEnds(f)
      PROVE  /\ supersededBy' = supersededBy /\ posts' = posts
             /\ child'[e].phase = "running" => child[e].phase = "running"
  BY <1>5, <1>a DEF ChildEnds, NoChild
<1>6. CASE LocalSendReturns
  <2>1. NoChild.phase = "none"
    BY DEF NoChild
  <2>2. child'[e] \in {child[e], NoChild}
    BY <1>6, <1>a DEF LocalSendReturns
  <2>3. UNCHANGED <<posts, supersededBy>>
    BY <1>6 DEF LocalSendReturns
  <2>. QED
    BY <2>1, <2>2, <2>3 DEF Superseded
<1>7. CASE Authorize
  <2>1. UNCHANGED <<posts, supersededBy>>
    BY <1>7 DEF Authorize
  <2>2. J \in Events /\ R.status = "processing"
    BY <1>7, <1>a, AuthorizeRow
  <2>3. e = J => Open(e)
    BY <2>2 DEF Open, R, J
  <2>4. child'[e] = child[e] \/ (e = J /\ ~Superseded(J))
    BY <1>7, <1>a DEF Authorize
  <2>5. child[e].phase = "running" => child'[e].phase = "running"
    BY <1>7, <1>a, <2>2 DEF Authorize
  <2>. QED
    BY <2>1, <2>3, <2>4, <2>5 DEF Superseded
<1>8. ASSUME NEW f \in Events,
             \/ Arrive(f) \/ BecomeDue(f) \/ Expire(f) \/ Age(f) \/ Claim(f)
             \/ JournalCap(f)
      PROVE  UNCHANGED <<child, posts, supersededBy>>
  BY <1>8 DEF Arrive, BecomeDue, Expire, Age, Claim, JournalCap, sendVars
<1>9. CASE JobAction
  BY <1>1, <1>9, JobActionFrame
<1>10. CASE RecoverUnknown \/ RecoverStale \/ GiveUp \/ Idle \/ Restart
  BY <1>1, <1>10 DEF RecoverUnknown, RecoverWith, Unknown, RecoverStale, GiveUp,
     GiveUpOn, Idle, Restart,
                     sendVars
<1>11. CASE OtherRow \/ Observe \/ Crash \/ Stall \/ UNCHANGED vars
  BY <1>1, <1>11 DEF OtherRow, Observe, Crash, Stall, vars, sendVars
<1>12. CASE \E f \in Events : Enqueue(f) \/ ChildPosts(f) \/ ChildEnds(f)
  BY <1>2, <1>4, <1>5, <1>12 DEF Superseded
<1>. QED
  BY <1>1, <1>3, <1>6, <1>7, <1>8, <1>9, <1>10, <1>11, <1>12
     DEF Next, WorkerStep, JobAction

(* Every step moves every message along SendLicence, or leaves it.         *)
LEMMA LicenceMoves ==
    ASSUME JournalHolds, IInv, [Next]_vars, NEW e \in Events
    PROVE  LicenceOf(e)' = LicenceOf(e)
             \/ <<LicenceOf(e), LicenceOf(e)'>> \in Licence!Moves
<1>a. SendOK(e) /\ posts[e] \in Nat
  BY DEF IInv, TypeOK
<1>1. CASE posts[e] > 0
  <2>. posts'[e] > 0
    BY <1>a, <1>1, SendFrame
  <2>. QED
    BY <1>1 DEF LicenceOf
<1>2. CASE posts[e] = 0 /\ child[e].phase = "running"
  <2>1. LicenceOf(e) = "live" /\ ~Superseded(e)
    BY <1>a, <1>2 DEF LicenceOf, SendOK, Unsent
  <2>2. child'[e].phase = "running" \/ ~Superseded(e)'
    BY <1>2, <2>1, SendFrame DEF Superseded
  <2>3. LicenceOf(e)' \in {"live", "answered", "open", "closed"}
    BY <2>2 DEF LicenceOf
  <2>. QED
    BY <2>1, <2>3 DEF Licence!Moves
<1>3. CASE posts[e] = 0 /\ child[e].phase # "running"
  <2>1. posts'[e] = 0
    BY <1>3, SendFrame
  <2>2. CASE Over(e)
    <3>1. Over(e)' /\ child'[e].phase # "running"
      BY <1>3, <2>2, OverKept, SendFrame DEF Over
    <3>. QED
      BY <1>3, <2>1, <2>2, <3>1 DEF LicenceOf, Over
  <2>3. CASE ~Over(e) /\ Superseded(e)
    <3>1. child'[e].phase # "running" /\ (Superseded(e)' \/ Over(e)')
      BY <1>3, <2>3, SendFrame
    <3>2. LicenceOf(e) = "withdrawn"
      BY <1>3, <2>3 DEF LicenceOf, Over
    <3>3. LicenceOf(e)' \in {"withdrawn", "closed"}
      BY <2>1, <3>1 DEF LicenceOf, Over
    <3>. QED
      BY <3>2, <3>3 DEF Licence!Moves
  <2>4. CASE ~Over(e) /\ ~Superseded(e)
    <3>1. LicenceOf(e) = "open"
      BY <1>3, <2>4 DEF LicenceOf, Over
    <3>2. LicenceOf(e)' \in {"open", "live", "withdrawn", "closed"}
      BY <2>1 DEF LicenceOf
    <3>. QED
      BY <3>1, <3>2 DEF Licence!Moves
  <2>. QED
    BY <2>2, <2>3, <2>4
<1>. QED
  BY <1>a, <1>1, <1>2, <1>3

(* The queue implements SendLicence: no message is licensed twice, none is *)
(* reopened after it was closed, none is sent after it was withdrawn, as   *)
(* long as the journal holds the evidence of unresolved sends.             *)
THEOREM Refinement == ASSUME JournalHolds PROVE Spec => ImplementsLicence
<1>1. Init => Licence!Init
  <2>. SUFFICES ASSUME Init, NEW e \in Events PROVE LicenceOf(e) = "open"
    BY DEF Licence!Init
  <2>. QED
    BY DEF Init, LicenceOf, NoRow, NoChild, Open, Enqueueable, Superseded
<1>2. IInv /\ [Next]_vars => [Licence!Next]_([e \in Events |-> LicenceOf(e)])
  <2>. SUFFICES ASSUME IInv, [Next]_vars PROVE Licence!Next
    OBVIOUS
  <2>1. \A e \in Events : LicenceOf(e)' \in Licence!Phases
    BY DEF LicenceOf, Licence!Phases
  <2>2. \A e \in Events :
          \/ LicenceOf(e)' = LicenceOf(e)
          \/ <<LicenceOf(e), LicenceOf(e)'>> \in Licence!Moves
    BY LicenceMoves
  <2>. QED
    BY <2>1, <2>2 DEF Licence!Next
<1>. QED
  BY Invariance, <1>1, <1>2, PTL DEF Spec, ImplementsLicence, Licence!Spec

-----------------------------------------------------------------------------
(* The rows and the room *)

(* Text t stands in the room after the message e.                          *)
Stands(e, t) == \E i \in DOMAIN room : /\ room[i].text = t
                                       /\ t # NoText
                                       /\ i > Position(e)

(* A message stands in the room once: its position is one.                 *)
RoomOK ==
    \A e \in Events : \A i, j \in DOMAIN room :
        room[i] = Inbound(e) /\ room[j] = Inbound(e) => i = j

(* A journalled confirmation belongs to a row that is not reopened.        *)
ConfirmedOK(e) ==
    e \in localConfirmed =>
        /\ e \in axEvidence
        /\ \/ job[e].status \in {"sending", "delivery_unknown"} /\ SelfReplied(e)
           \/ job[e].status = "sent"
           \/ job[e].status = "absent" /\ e \in tombstone

AnswerOK(e) ==
    /\ job[e].status # "absent" => Arrived(e)
    /\ child[e].phase = "running" => child[e].text # NoText
    /\ job[e].status = "sent" => SelfReplied(e)
    /\ ctx[e].status = "sent" => Arrived(e) /\ Stands(e, ctx[e].reply)
    /\ ConfirmedOK(e)

(* What the worker has learnt of the send it waits for, or has seen.       *)
AwaitOK ==
    /\ w.pc = "await" =>
         /\ J \notin localConfirmed
         /\ child[J].phase = "running" => child[J].text = R.reply
         /\ child[J].phase = "posted" => SelfReplied(J)
    /\ w.pc = "confirmed" => SelfReplied(J)
    /\ w.pc \in {"ctxSending", "ctxSent", "finish"} => J \in localConfirmed

RoomInv == RoomOK /\ AwaitOK /\ \A e \in Events : AnswerOK(e)

(* A skip is committed on an audit row that has been read back.            *)
AuditedOK == w.pc \in {"skipCommit", "burstSkip"} => ctx[J].status = "skipped"

SkipOK(e) ==
    job[e].status = "skipped" =>
        /\ e \in Questions => ctx[e].status = "skipped" \/ job[e].attempts = MaxAttempts
        /\ JournalHolds => Unsent(e) \/ job[e].attempts = MaxAttempts

SkipInv == AuditedOK /\ \A e \in Events : SkipOK(e)

-----------------------------------------------------------------------------
(* The worker's step and the audit row.                                    *)

(* The steps that rest on what an earlier step has seen.                   *)
Informed == {"skipCommit", "burstSkip", "await", "confirmed", "ctxSending",
             "ctxSent", "finish"}

(* The steps that lead to them.                                            *)
Informing == \/ SkipRecord \/ BurstRecord \/ Authorize \/ LocalSendReturns
             \/ JournalConfirmed \/ ContextSending \/ ContextSent

(* The environment leaves the worker where it is.                          *)
Outside == \/ \E e \in Events : \/ Arrive(e) \/ Enqueue(e) \/ BecomeDue(e)
                              \/ Expire(e) \/ Age(e) \/ JournalCap(e)
                              \/ ChildPosts(e) \/ ChildEnds(e)
           \/ OtherRow \/ Observe \/ Archive \/ UNCHANGED vars

(* It does not move the worker.                                            *)
LEMMA OutsideKeeps == Outside => w' = w
BY DEF Outside, Arrive, Enqueue, BecomeDue, Expire, Age, JournalCap, ChildPosts,
       ChildEnds, OtherRow, Observe, Archive, vars

(* No other step leads to a step that rests on what was seen.              *)
LEMMA InformedBy ==
    ASSUME TypeOK, [Next]_vars, ~Informing, ~Outside
    PROVE  w'.pc \notin Informed
<1>. USE DEF Informed
<1>a. w \in Worker
  BY DEF TypeOK
<1>1. ASSUME NEW p, Goto(p) PROVE w'.pc = p
  BY <1>1, Moving DEF Keeps
<1>2. ASSUME \/ \E r : Skip(r) \/ \E b : Hold(r, b)
             \/ \E b : GiveUpAsUnknown(b)
             \/ GiveUpUndecided
      PROVE  w'.pc \in {"skipRecord", "unknown"}
  BY <1>2, Moving DEF Keeps
<1>3. \A p : Between(p).pc = p
  BY DEF Between
<1>4. ASSUME NEW row, Settle(row, Between("recover"))
      PROVE  w'.pc \in {"recover", "burstRecord"}
  BY <1>1, <1>3, <1>4 DEF Settle
<1>5. ASSUME RefreshContext \/ DeferScheduled
      PROVE  w'.pc \in {"recover", "burstRecord", "skipRecord"}
  <2>1. Skip("policy") \/ \E row : Settle(row, Between("recover"))
    BY <1>5 DEF RefreshContext, DeferScheduled
  <2>2. Skip("policy") => w'.pc = "skipRecord"
    BY Moving DEF Keeps
  <2>. QED
    BY <1>4, <2>1, <2>2
<1>6. ASSUME Done PROVE w'.pc = "recover"
  BY <1>3, <1>6 DEF Done
<1>7. CASE CheckTurn
  BY <1>1, <1>2, <1>5, <1>7 DEF CheckTurn
<1>8. CASE ReadContext \/ Analyze
  <2>1. /\ [w EXCEPT !.pc = "decide", !.mark = observed].pc = "decide"
        /\ \A t : [w EXCEPT !.pc = "settle", !.draft = t].pc = "settle"
    BY <1>a DEF Worker
  <2>. QED
    BY <1>1, <1>5, <1>8, <2>1 DEF ReadContext, Analyze
<1>9. CASE SettleAnalysis
  <2>1. \A t : [w EXCEPT !.pc = "record", !.draft = t].pc = "record"
    BY <1>a DEF Worker
  <2>2. CASE SettleNoReply
    <3>1. \/ Skip("other") \/ GiveUpUndecided
          \/ \E row : Settle(row, Between("recover"))
          \/ \E t : w' = [w EXCEPT !.pc = "record", !.draft = t]
      BY <2>2 DEF SettleNoReply
    <3>. QED
      BY <1>2, <1>4, <2>1, <3>1
  <2>. QED
    BY <1>1, <1>2, <1>5, <1>9, <2>2 DEF SettleAnalysis
<1>10. CASE RecordScheduled \/ JournalReady \/ FinishUnknown
  BY <1>1, <1>2, <1>10 DEF RecordScheduled, JournalReady, FinishUnknown
<1>11. CASE ScheduleReply \/ SkipCommit
  BY <1>3, <1>4, <1>11 DEF ScheduleReply, SkipCommit
<1>12. CASE CheckScheduled \/ CheckBeforeSend \/ SendUnavailable
  BY <1>1, <1>2, <1>5, <1>6, <1>12
     DEF CheckScheduled, CheckBeforeSend, SendUnavailable
<1>13. CASE FinishSent \/ FinishLost \/ UnknownContext \/ BurstCommit \/ Restart
  BY <1>6, <1>13 DEF FinishSent, FinishLost, UnknownContext, BurstCommit, Restart
<1>14. CASE RecoverUnknown \/ RecoverStale \/ GiveUp \/ Idle
  BY <1>1, <1>14 DEF RecoverUnknown, RecoverWith, Unknown, RecoverStale, GiveUp, GiveUpOn, Idle
<1>15. CASE Crash \/ Stall
  BY <1>3, <1>15 DEF Crash, Stall
<1>16. ASSUME NEW e \in Events, Claim(e) PROVE w'.pc \notin Informed
  <2>1. [Between("claimed") EXCEPT !.job = e, !.from = job[e].status].pc = "claimed"
    BY DEF Between
  <2>. QED
    BY <1>16, <2>1 DEF Claim
<1>. QED
  BY <1>7, <1>8, <1>9, <1>10, <1>11, <1>12, <1>13, <1>14, <1>15, <1>16
     DEF Next, WorkerStep, Informing, Outside

(* A terminal audit row is never overwritten by another status.            *)
Advances(old, new) ==
    \/ new = old
    \/ /\ old.status # "sent" /\ new.status # "sent"
       /\ old.status = "skipped" => new.status = "skipped"

(* Writing the audit row of a disposition advances it.                     *)
LEMMA RecordedAdvances ==
    ASSUME TypeOK, NEW f \in Events, NEW e \in Events, NEW row, row.status # "sent"
    PROVE  Advances(ctx[e], Recorded(f, row)[e])
BY DEF TypeOK, Advances, Recorded, CanApply, ContextTerminal

(* So does moving it to another status.                                    *)
LEMMA MovedAdvances ==
    ASSUME TypeOK, NEW f \in Events, NEW e \in Events, NEW s, s # "sent"
    PROVE  Advances(ctx[e], Moved(f, s)[e])
<1>1. ctx \in [Events -> ContextRow] /\ ctx[f] \in ContextRow
  BY DEF TypeOK
<1>2. CASE e = f /\ Movable(f, s)
  <2>1. Moved(f, s)[e].status = s
    BY <1>1, <1>2 DEF Moved, ContextRow
  <2>. QED
    BY <1>2, <2>1 DEF Advances, Movable, CanApply, ContextTerminal
<1>3. CASE ~(e = f /\ Movable(f, s))
  BY <1>1, <1>3 DEF Moved, Advances
<1>. QED
  BY <1>2, <1>3

(* The audit row of a message says sent only by the last step of a send.   *)
LEMMA ContextStep ==
    ASSUME TypeOK, WorkerOK, [Next]_vars, NEW e \in Events
    PROVE  \/ Advances(ctx[e], ctx'[e])
           \/ /\ ContextSent /\ e = J
              /\ ctx[e].status # "skipped"
              /\ ctx'[e].status = "sent" /\ ctx'[e].reply = R.reply
<1>. USE DEF At
<1>a. /\ ctx \in [Events -> ContextRow]
      /\ w.pc \in JobSteps => J \in Events
  BY DEF TypeOK, WorkerOK, HasJob, J
<1>1. CASE UNCHANGED ctx
  BY <1>1 DEF Advances
<1>2. CASE RecordScheduled
  <2>1. J \in Events
    BY <1>2, <1>a DEF RecordScheduled, JobSteps, ProcessingSteps
  <2>2. PICK row : row.status = "scheduled" /\ ctx' \in {ctx, Recorded(J, row)}
    BY <1>2 DEF RecordScheduled
  <2>. QED
    BY <1>1, <2>1, <2>2, RecordedAdvances
<1>3. CASE ContextSending \/ UnknownContext
  <2>1. J \in Events
    BY <1>3, <1>a DEF ContextSending, UnknownContext, JobSteps, SendingSteps
  <2>2. PICK s \in {"sending", "delivery_unknown"} : ctx' \in {ctx, Moved(J, s)}
    BY <1>3 DEF ContextSending, UnknownContext
  <2>. QED
    BY <1>1, <2>1, <2>2, MovedAdvances
<1>4. CASE ContextSent
  <2>1. J \in Events
    BY <1>4, <1>a DEF ContextSent, JobSteps, SendingSteps
  <2>2. CASE Movable(J, "sent") /\ ctx' = [Moved(J, "sent") EXCEPT ![J].reply = R.reply]
    <3>1. Moved(J, "sent") = [ctx EXCEPT ![J].status = "sent"]
      BY <2>2 DEF Moved
    <3>2. ctx' = [ctx EXCEPT ![J] = [[ctx[J] EXCEPT !.status = "sent"]
                                       EXCEPT !.reply = R.reply]]
      BY <1>a, <2>1, <2>2, <3>1
    <3>3. e # J => ctx'[e] = ctx[e]
      BY <1>a, <3>2
    <3>4. e = J => ctx'[e].status = "sent" /\ ctx'[e].reply = R.reply
      BY <1>a, <2>1, <3>2 DEF ContextRow
    <3>5. ctx[J].status # "skipped"
      BY <2>2 DEF Movable, CanApply, ContextTerminal
    <3>. QED
      BY <1>4, <3>3, <3>4, <3>5 DEF Advances
  <2>. QED
    BY <1>1, <1>4, <2>2 DEF ContextSent
<1>5. CASE SkipRecord \/ BurstRecord
  <2>1. J \in Events
    BY <1>5, <1>a DEF SkipRecord, BurstRecord, JobSteps, ProcessingSteps, BurstSteps
  <2>2. PICK row : row.status = "skipped" /\ ctx' \in {ctx, Recorded(J, row)}
    BY <1>5 DEF SkipRecord, BurstRecord, RecordSkip
  <2>. QED
    BY <1>1, <2>1, <2>2, RecordedAdvances
<1>6. CASE RecoverStale
  <2>1. ctx'[e] \in {ctx[e], Moved(e, "delivery_unknown")[e]}
    BY <1>6 DEF RecoverStale
  <2>. QED
    BY <2>1, MovedAdvances DEF Advances
<1>7. CASE \/ CheckTurn \/ ReadContext \/ Analyze \/ SettleAnalysis \/ ScheduleReply
            \/ CheckScheduled \/ CheckBeforeSend \/ JournalReady \/ Authorize
            \/ LocalSendReturns \/ SendUnavailable \/ JournalConfirmed \/ FinishSent
            \/ FinishLost \/ SkipCommit \/ FinishUnknown \/ BurstCommit
  BY <1>1, <1>7 DEF CheckTurn, ReadContext, Analyze, SettleAnalysis, ScheduleReply,
     CheckScheduled, CheckBeforeSend, JournalReady, Authorize, LocalSendReturns,
     SendUnavailable, JournalConfirmed, FinishSent, FinishLost, SkipCommit,
     FinishUnknown, BurstCommit
<1>8. CASE \/ RecoverUnknown \/ GiveUp \/ Idle \/ Restart \/ OtherRow \/ Observe
            \/ Archive \/ Crash \/ Stall \/ UNCHANGED vars
  BY <1>1, <1>8 DEF RecoverUnknown, RecoverWith, Unknown, GiveUp, GiveUpOn, Idle, Restart, OtherRow,
     Observe, Archive, Crash, Stall, vars
<1>9. ASSUME NEW f \in Events,
             \/ Claim(f) \/ Arrive(f) \/ Enqueue(f) \/ BecomeDue(f) \/ Expire(f)
             \/ Age(f) \/ JournalCap(f) \/ ChildPosts(f) \/ ChildEnds(f)
      PROVE  UNCHANGED ctx
  BY <1>9 DEF Claim, Arrive, Enqueue, BecomeDue, Expire, Age, JournalCap,
     ChildPosts, ChildEnds
<1>. QED
  BY <1>1, <1>2, <1>3, <1>4, <1>5, <1>6, <1>7, <1>8, <1>9 DEF Next, WorkerStep

-----------------------------------------------------------------------------
(* Skipped rows.                                                           *)

(* Only the authorization begins a send.                                   *)
LEMMA UnsentKept ==
    ASSUME TypeOK, WorkerOK, [Next]_vars, NEW e \in Events, Unsent(e)
    PROVE  Unsent(e)' \/ (Authorize /\ e = J)
<1>a. child \in [Events -> Child] /\ posts \in [Events -> Nat]
  BY DEF TypeOK
<1>1. CASE UNCHANGED <<child, posts>>
  BY <1>1 DEF Unsent
<1>2. ASSUME NEW f \in Events, ChildPosts(f) \/ ChildEnds(f) PROVE Unsent(e)'
  BY <1>2, <1>a DEF ChildPosts, ChildEnds, Unsent, NoChild
<1>3. CASE LocalSendReturns
  <2>. NoChild.phase = "none"
    BY DEF NoChild
  <2>. QED
    BY <1>3, <1>a DEF LocalSendReturns, Unsent
<1>4. CASE Authorize
  BY <1>4, <1>a DEF Authorize, Unsent
<1>5. CASE JobAction
  BY <1>1, <1>5, JobActionFrame
<1>6. ASSUME NEW f \in Events,
             \/ Arrive(f) \/ Enqueue(f) \/ BecomeDue(f) \/ Expire(f) \/ Age(f)
             \/ Claim(f) \/ JournalCap(f)
      PROVE  UNCHANGED <<child, posts>>
  BY <1>6 DEF Arrive, Enqueue, BecomeDue, Expire, Age, Claim, JournalCap, sendVars
<1>7. CASE \/ RecoverUnknown \/ RecoverStale \/ GiveUp \/ Idle \/ Restart
            \/ OtherRow \/ Observe \/ Archive \/ Crash \/ Stall \/ UNCHANGED vars
  BY <1>1, <1>7 DEF RecoverUnknown, RecoverWith, Unknown, RecoverStale, GiveUp,
     GiveUpOn, Idle, Restart,
                    OtherRow, Observe, Archive, Crash, Stall, vars, sendVars
<1>. QED
  BY <1>1, <1>2, <1>3, <1>4, <1>5, <1>6, <1>7 DEF Next, WorkerStep, JobAction

Finished == {"sent", "skipped"}

(* Of the steps on a claimed row those that follow a proven audit close it, *)
(* and those that have found the reply in the room.                        *)
LEMMA ClosedBy ==
    ASSUME TypeOK, WorkerOK, JobAction, R.status \notin Finished,
           job'[J].status \in Finished
    PROVE  \/ job'[J].status = "skipped" /\ (At("skipCommit") \/ At("burstSkip"))
           \/ /\ job'[J] = SentRow(R)
              /\ (CheckScheduled /\ SelfReplied(J)) \/ (FinishSent /\ At("finish"))
<1>. USE DEF At, Finished
<1>a. w \in Worker /\ job \in [Events -> Row] /\ J \in Events /\ R \in Row
  BY JobOutcome DEF TypeOK, R, J
<1>0. ~UNCHANGED job
  BY <1>a DEF R, J
<1>1. ASSUME NEW row \in Row, Put(J, row) PROVE row.status \in Finished
  BY <1>1, <1>a DEF Put
<1>2. /\ SentRow(R) \in Row /\ SentRow(R).status = "sent"
      /\ SkippedRow(R, "superseded") \in Row
      /\ SkippedRow(R, "superseded").status = "skipped"
      /\ \A r \in Reasons : SkippedRow(R, r) \in Row
                           /\ SkippedRow(R, r).status = "skipped"
      /\ \A plan \in Plan : /\ UnknownRow(R, plan) \in Row
                            /\ UnknownRow(R, plan).status \notin Finished
      /\ \A due \in BOOLEAN : /\ BurstRow(R, due) \in Row
                              /\ BurstRow(R, due).status \notin Finished
  <2>1. "superseded" \in Reasons
    BY DEF Reasons
  <2>2. /\ SentRow(R) \in Row
        /\ \A r \in Reasons : SkippedRow(R, r) \in Row
        /\ \A plan \in Plan : UnknownRow(R, plan) \in Row
        /\ \A due \in BOOLEAN : BurstRow(R, due) \in Row
    BY <1>a, RowUpdates
  <2>3. /\ SentRow(R).status = "sent"
        /\ \A r : SkippedRow(R, r).status = "skipped"
        /\ \A plan : UnknownRow(R, plan).status = "delivery_unknown"
        /\ \A due : BurstRow(R, due).status = "projection_pending"
    BY <1>a, RowFields
  <2>. QED
    BY <2>1, <2>2, <2>3
<1>3. ASSUME NEW row \in Row, NEW next, Settle(row, next) PROVE row.status \in Finished
  BY <1>3, <1>a, Settling
<1>4. ~((RefreshContext \/ DeferScheduled) /\ ~UNCHANGED job)
  <2>1. [R EXCEPT !.status = "scheduled", !.due = FALSE,
                             !.reconcile = FALSE] \in Row
    BY <1>a DEF Row, Statuses
  <2>2. [R EXCEPT !.status = "scheduled", !.due = FALSE,
                  !.reconcile = FALSE].status = "scheduled"
    BY <1>a DEF Row
  <2>3. PendingRow(R, "other", FALSE) \in Row
          /\ PendingRow(R, "other", FALSE).status = "pending"
    <3>1. PendingRow(R, "other", FALSE) \in Row
      BY <1>a, RowUpdates DEF Reasons
    <3>2. PendingRow(R, "other", FALSE).status = "pending"
      BY <1>a DEF PendingRow, Row
    <3>. QED
      BY <3>1, <3>2
  <2>4. /\ [PendingRow(R, "other", FALSE) EXCEPT !.mark = 0] \in Row
        /\ [PendingRow(R, "other", FALSE) EXCEPT !.mark = 0].status = "pending"
    BY <2>3 DEF Row
  <2>. DEFINE again == [R EXCEPT !.status = "scheduled", !.due = FALSE,
                                 !.reconcile = FALSE]
              fresh == [PendingRow(R, "other", FALSE) EXCEPT !.mark = 0]
  <2>5. /\ RefreshContext => UNCHANGED job \/ Settle(fresh, Between("recover"))
        /\ DeferScheduled => UNCHANGED job \/ Settle(again, Between("recover"))
    BY DEF RefreshContext, DeferScheduled
  <2>6. /\ again \in Row /\ again.status \notin Finished
        /\ fresh \in Row /\ fresh.status \notin Finished
    BY <1>a, <2>1, <2>2, <2>4 DEF Row
  <2>. HIDE DEF again, fresh
  <2>. QED
    BY <1>3, <2>5, <2>6
<1>5. ~(CheckTurn \/ ReadContext \/ CheckBeforeSend \/ SendUnavailable)
  BY <1>0, <1>4 DEF CheckTurn, ReadContext, CheckBeforeSend, SendUnavailable
<1>6. ~Analyze
  <2>1. \A t \in Texts : [R EXCEPT !.reply = t] \in Row
                         /\ [R EXCEPT !.reply = t].status = R.status
    BY <1>a DEF Row
  <2>2. Analyze => UNCHANGED job \/ \E t \in Texts : Put(J, [R EXCEPT !.reply = t])
    BY DEF Analyze
  <2>. QED
    BY <1>0, <1>1, <2>1, <2>2
<1>7. ~SettleAnalysis
  <2>1. ASSUME NEW r \in {"usage", "retry", "busy"}
        PROVE  ~Settle([PendingRow(R, r, FALSE) EXCEPT !.mark = w.mark],
                       Between("recover"))
    <3>. DEFINE row == [PendingRow(R, r, FALSE) EXCEPT !.mark = w.mark]
    <3>1. PendingRow(R, r, FALSE) \in Row /\ w.mark \in Nat
      BY <1>a, RowUpdates DEF Reasons, Worker
    <3>2. PendingRow(R, r, FALSE).status = "pending"
      BY <1>a DEF PendingRow, Row
    <3>3. row \in Row /\ row.status = "pending"
      BY <3>1, <3>2 DEF Row
    <3>. HIDE DEF row
    <3>4. ~Settle(row, Between("recover"))
      BY <1>3, <3>3
    <3>. QED
      BY <3>4 DEF row
  <2>. QED
    BY <1>0, <1>4, <2>1 DEF SettleAnalysis, SettleNoReply
<1>8. ~ScheduleReply
  <2>. DEFINE row == [ScheduledRow(R, FALSE) EXCEPT !.reason = "other",
                                                    !.reply = w.draft,
                                                    !.mark = w.mark]
  <2>1. ScheduledRow(R, FALSE) \in Row /\ w.draft \in Texts \cup {NoText}
          /\ w.mark \in Nat /\ ScheduledRow(R, FALSE).status = "scheduled"
    BY <1>a, RowUpdates, RowFields DEF Worker
  <2>2. row \in Row /\ row.status = "scheduled"
    BY <2>1 DEF Row, Reasons
  <2>3. ScheduleReply => Settle(row, Between("recover"))
    BY DEF ScheduleReply
  <2>. HIDE DEF row
  <2>. QED
    BY <1>3, <2>2, <2>3
<1>p. ASSUME NEW row, Put(J, row) PROVE job'[J] = row
  BY <1>a, <1>p DEF Put
<1>9. ASSUME CheckScheduled \/ FinishSent
      PROVE  /\ job'[J] = SentRow(R)
             /\ (CheckScheduled /\ SelfReplied(J)) \/ (FinishSent /\ At("finish"))
  BY <1>0, <1>p, <1>4, <1>9 DEF CheckScheduled, FinishSent
<1>10. ~(JournalConfirmed \/ FinishLost)
  <2>. NoPlan \in Plan
    BY DEF NoPlan, Plan, Reasons
  <2>. QED
    BY <1>0, <1>1, <1>2 DEF JournalConfirmed, FinishLost
<1>11. ~FinishUnknown
  <2>. DEFINE row == [UnknownRow(R, w.plan)
                        EXCEPT !.mark = IF w.mark # 0 THEN w.mark ELSE @]
  <2>1. w.plan \in Plan /\ w.mark \in Nat
    BY <1>a DEF Worker
  <2>2. UnknownRow(R, w.plan) \in Row /\ UnknownRow(R, w.plan).status \notin Finished
    BY <1>2, <2>1
  <2>3. row \in Row /\ row.status \notin Finished
    BY <2>1, <2>2 DEF Row
  <2>4. FinishUnknown => Put(J, BurstRow(R, TRUE)) \/ Put(J, row)
    BY DEF FinishUnknown
  <2>. HIDE DEF row
  <2>. QED
    BY <1>1, <1>2, <2>3, <2>4
<1>12. ~(\/ RecordScheduled \/ JournalReady \/ SkipRecord \/ ContextSending
         \/ ContextSent \/ UnknownContext \/ BurstRecord)
  BY <1>0 DEF RecordScheduled, JournalReady, SkipRecord, ContextSending,
              ContextSent, UnknownContext, BurstRecord
<1>13. ASSUME BurstCommit PROVE At("burstSkip") /\ job'[J].status = "skipped"
  BY <1>1, <1>2, <1>p, <1>13 DEF BurstCommit
<1>14. ASSUME SkipCommit PROVE At("skipCommit") /\ job'[J].status = "skipped"
  <2>1. w.plan.reason \in Reasons
    BY <1>a DEF Worker, Plan
  <2>2. Settle(SkippedRow(R, w.plan.reason), Between("recover")) /\ At("skipCommit")
    BY <1>14 DEF SkipCommit
  <2>3. \/ job'[J].status = "projection_pending"
        \/ job'[J] = SkippedRow(R, w.plan.reason)
    BY <1>a, <1>2, <2>1, <2>2, Settling
  <2>. QED
    BY <1>2, <2>1, <2>2, <2>3
<1>. QED
  BY <1>5, <1>6, <1>7, <1>8, <1>9, <1>10, <1>11, <1>12, <1>13,
     <1>14
     DEF JobAction

(* Recovery skips a row whose audit says so, or whose attempts are used up; *)
(* another row only if its reply is gone and it is no question.            *)
LEMMA RecoveredSkipped ==
    ASSUME TypeOK, NEW e \in Events, NEW seen, NEW bound, job[e].status = "delivery_unknown",
           RecoveredRow(e, seen, bound).status = "skipped"
    PROVE  \/ ctx[e].status = "skipped" /\ job[e].reply = NoText
           \/ RecoveredRow(e, seen, bound).attempts = MaxAttempts
           \/ job[e].reply = NoText /\ e \notin Questions
<1>1. job[e] \in Row /\ MaxAttempts \in Nat /\ job[e].attempts \in 0..MaxAttempts
  BY BoundsAssumption DEF TypeOK, Row
<1>2. /\ SentRow(job[e]).status = "sent"
      /\ ScheduledRow(job[e], FALSE).status = "scheduled"
  BY <1>1, RowFields
<1>3. \A r : PendingRow(job[e], r, TRUE).status = "pending"
  BY <1>1 DEF PendingRow, Row
<1>4. \A r : SkippedRow(job[e], r).attempts = job[e].attempts
  BY <1>1 DEF SkippedRow, Row
<1>5. UsedUp(job[e]) => job[e].attempts = MaxAttempts
  BY <1>1 DEF UsedUp
<1>6. CASE ProvesSkip(e)
  BY <1>6 DEF ProvesSkip
<1>7. CASE ~ProvesSkip(e)
  <2>1. /\ Leftover(e, seen, bound).status = "skipped"
        /\ RecoveredRow(e, seen, bound) = Leftover(e, seen, bound)
    BY <1>2, <1>7 DEF RecoveredRow
  <2>2. ~Reasked(e)
    <3>1. Reasked(e) => Leftover(e, seen, bound) = PendingRow(job[e], "none", TRUE)
      BY DEF Leftover, Reasked
    <3>. QED
      BY <1>3, <2>1, <3>1
  <2>3. CASE job[e].reply # NoText
    <3>1. UsedUp(job[e]) /\ Leftover(e, seen, bound) = SkippedRow(job[e], "policy")
      BY <1>2, <2>1, <2>2, <2>3 DEF Leftover
    <3>. QED
      BY <1>4, <1>5, <2>1, <3>1
  <2>4. CASE job[e].reply = NoText
    BY <2>2, <2>4 DEF Reasked
  <2>. QED
    BY <2>3, <2>4
<1>. QED
  BY <1>6, <1>7

(* Stale recovery skips a row only on the proof of its audit row.          *)
LEMMA StaleSkipped ==
    ASSUME TypeOK, NEW e \in Events, job[e].status \in {"processing", "sending"},
           StaleRow(e).status = "skipped"
    PROVE  ctx[e].status = "skipped" /\ job[e].status = "processing"
<1>1. job[e] \in Row
  BY DEF TypeOK
<1>2. /\ SentRow(job[e]).status = "sent"
      /\ BurstRow(job[e], TRUE).status = "projection_pending"
  BY <1>1, RowFields
<1>. DEFINE again == [job[e] EXCEPT !.status = IF job[e].decision = "reply"
                                                  /\ job[e].reply # NoText
                                                 THEN "scheduled" ELSE "pending"]
            unknown == [job[e] EXCEPT !.status = "delivery_unknown",
                                      !.reason = "reconcile", !.reconcile = TRUE]
<1>3. again.status # "skipped" /\ unknown.status # "skipped"
  BY <1>1 DEF Row
<1>4. ProvesSkip(e) \/ StaleRow(e) \in {BurstRow(job[e], TRUE), SentRow(job[e]),
                                       again, unknown}
  BY DEF StaleRow
<1>. HIDE DEF again, unknown
<1>. QED
  BY <1>2, <1>3, <1>4 DEF ProvesSkip

(* A row that becomes skipped is unsent or used up, and a question is not  *)
(* dropped.                                                                *)
LEMMA SkipArises ==
    ASSUME IInv, AuditedOK, [Next]_vars, NEW e \in Events,
           job[e].status # "skipped", job'[e].status = "skipped"
    PROVE  /\ e \in Questions => ctx[e].status = "skipped"
                                  \/ job'[e].attempts = MaxAttempts
           /\ JournalHolds => Unsent(e) \/ job'[e].attempts = MaxAttempts
           /\ ~Authorize
<1>a. /\ TypeOK /\ WorkerOK /\ StaleOK /\ SendOK(e)
      /\ job \in [Events -> Row] /\ job[e] \in Row
  BY DEF IInv, TypeOK
<1>u. ASSUME JournalHolds, Open(e) \/ Reopenable(e) PROVE Unsent(e)
  BY <1>a, <1>u DEF SendOK
<1>1. ASSUME NEW f \in Events, Enqueue(f) \/ BecomeDue(f) \/ Claim(f)
      PROVE  FALSE
  <2>1. /\ [NoRow EXCEPT !.status = "pending"].status = "pending"
        /\ \A g \in Events : [job[g] EXCEPT !.due = TRUE].status = job[g].status
        /\ \A g \in Events : Processing(job[g]).status = "processing"
    BY <1>a, RowFields DEF NoRow, Row
  <2>. QED
    BY <1>1, <1>a, <2>1 DEF Enqueue, BecomeDue, Claim, Put
<1>2. CASE JobAction
  <2>1. e = J /\ R = job[e]
    BY <1>2, <1>a, JobOutcome DEF R, J
  <2>2. R.status \in {"processing", "projection_pending"}
    BY <1>2, <1>a, <2>1, JobOutcome DEF StaysUnsent, StaysSending, R, J
  <2>3. JournalHolds => Unsent(e)
    BY <1>u, <2>1, <2>2 DEF Open
  <2>4. At("skipCommit") \/ At("burstSkip")
    <3>. SentRow(R).status # "skipped"
      BY <1>a, <2>1, RowFields
    <3>. QED
      BY <1>2, <1>a, <2>1, <2>2, ClosedBy DEF Finished
  <2>. QED
    BY <2>1, <2>3, <2>4 DEF AuditedOK, At, Authorize
<1>3. CASE Authorize \/ LocalSendReturns
  <2>1. e = J
    BY <1>3, <1>a, AuthorizeRow, ReturnRow
  <2>2. CASE Authorize
    <3>1. R \in Row /\ J \in Events
      BY <1>a, <2>1 DEF R, J
    <3>. DEFINE row == [R EXCEPT !.status = "sending", !.reconcile = FALSE]
    <3>2. row \in Row /\ row.status = "sending"
      BY <3>1 DEF Row, Statuses
    <3>3. Settle(row, [w EXCEPT !.pc = "await"])
      BY <2>2 DEF Authorize
    <3>. HIDE DEF row
    <3>. QED
      BY <1>a, <2>1, <3>1, <3>2, <3>3, Settling
  <2>3. CASE LocalSendReturns
    <3>1. Processing(R).status = "processing"
      BY <1>a, <2>1, RowFields DEF R, J
    <3>. QED
      BY <1>a, <2>1, <2>3, <3>1 DEF LocalSendReturns, Put
  <2>. QED
    BY <1>3, <2>2, <2>3
<1>4. CASE RecoverUnknown
  <2>1. PICK seen \in SUBSET Events, bound \in SUBSET Events :
          job'[e] = IF job[e].status = "delivery_unknown"
                      THEN RecoveredRow(e, e \in seen, e \in bound) ELSE job[e]
    BY <1>4 DEF RecoverUnknown, RecoverWith, Unknown
  <2>2. job[e].status = "delivery_unknown" /\ job'[e] = RecoveredRow(e, e \in seen, e \in bound)
    BY <2>1
  <2>3. \/ ctx[e].status = "skipped" /\ job[e].reply = NoText
        \/ job'[e].attempts = MaxAttempts
        \/ job[e].reply = NoText /\ e \notin Questions
    BY <1>a, <2>2, RecoveredSkipped
  <2>4. job[e].reply = NoText => Reopenable(e)
    BY <2>2 DEF Reopenable
  <2>5. ~Authorize
    BY <1>4 DEF RecoverUnknown, RecoverWith, Unknown, Authorize, At
  <2>. QED
    BY <1>u, <2>3, <2>4, <2>5
<1>5. CASE RecoverStale
  <2>1. e \in stale /\ job'[e] = StaleRow(e)
    BY <1>5 DEF RecoverStale
  <2>2. ctx[e].status = "skipped" /\ job[e].status = "processing"
    BY <1>a, <2>1, StaleSkipped DEF StaleOK
  <2>3. ~Authorize
    BY <1>5 DEF RecoverStale, Authorize, At
  <2>. QED
    BY <1>u, <2>2, <2>3 DEF Open
<1>6. CASE GiveUp
  <2>1. Exhausted(e)
    BY <1>6 DEF GiveUp, GiveUpOn
  <2>2. ~Authorize
    BY <1>6 DEF GiveUp, GiveUpOn, Authorize, At
  <2>. QED
    BY <1>u, <2>1, <2>2 DEF Exhausted, Reopenable
<1>7. ~Archive
  <2>. NoRow.status = "absent"
    BY DEF NoRow
  <2>. QED
    BY DEF Archive
<1>8. ~UNCHANGED job
  OBVIOUS
<1>9. ASSUME NEW f \in Events
      PROVE  ~(\/ Arrive(f) \/ Expire(f) \/ Age(f) \/ JournalCap(f)
               \/ ChildPosts(f) \/ ChildEnds(f))
  BY <1>8 DEF Arrive, Expire, Age, JournalCap, ChildPosts, ChildEnds
<1>10. ~(OtherRow \/ Observe \/ Crash \/ Stall \/ Idle \/ Restart \/ UNCHANGED vars)
  BY <1>8 DEF OtherRow, Observe, Crash, Stall, Idle, Restart, vars
<1>. QED
  BY <1>1, <1>2, <1>3, <1>4, <1>5, <1>6, <1>7, <1>9, <1>10
     DEF Next, WorkerStep, JobAction

(* A claimed row is no skipped row.                                        *)
LEMMA SkippedKept ==
    ASSUME IInv, [Next]_vars, NEW e \in Events, job[e].status = "skipped"
    PROVE  job'[e] = job[e] \/ job'[e].status = "absent"
<1>1. CASE Archive
  <2>. NoRow.status = "absent"
    BY DEF NoRow
  <2>. QED
    BY <1>1 DEF Archive
<1>2. CASE ~Archive
  BY <1>2, FinishedKept DEF Enqueue, Enqueueable
<1>. QED
  BY <1>1, <1>2

(* The invariant of skipped rows is kept.                                  *)
LEMMA SkipStep == IInv /\ SkipInv /\ [Next]_vars => SkipInv'
<1>. SUFFICES ASSUME IInv, SkipInv, [Next]_vars PROVE SkipInv'
  OBVIOUS
<1>a. TypeOK /\ WorkerOK /\ AuditedOK /\ \A e \in Events : SkipOK(e)
  BY DEF IInv, SkipInv
<1>c. \A e \in Events : ctx[e].status = "skipped" => ctx'[e].status = "skipped"
  BY <1>a, ContextStep DEF Advances
<1>1. AuditedOK'
  <2>1. CASE SkipRecord \/ BurstRecord
    BY <2>1, <1>a, Moving DEF SkipRecord, BurstRecord, RecordSkip, Keeps, AuditedOK, J
  <2>2. CASE Outside
    <3>1. w' = w
      BY <2>2, OutsideKeeps
    <3>2. w.pc \in {"skipCommit", "burstSkip"} => J \in Events
      BY <1>a DEF WorkerOK, HasJob, J, JobSteps, ProcessingSteps, BurstSteps
    <3>. QED
      BY <1>a, <1>c, <3>1, <3>2 DEF AuditedOK, J
  <2>3. CASE Authorize \/ LocalSendReturns \/ JournalConfirmed
               \/ ContextSending \/ ContextSent
    <3>1. ASSUME Authorize PROVE w'.pc \in {"await", "burstRecord"}
      <4>. /\ [w EXCEPT !.pc = "await"].pc = "await"
           /\ [w EXCEPT !.pc = "burstRecord"].pc = "burstRecord"
        BY <1>a DEF TypeOK, Worker
      <4>. QED
        BY <3>1 DEF Authorize, Settle, Goto
    <3>2. ASSUME LocalSendReturns \/ JournalConfirmed \/ ContextSending \/ ContextSent
          PROVE  w'.pc \in {"unavailable", "confirmed", "unknown", "ctxSending",
                            "recover", "ctxSent", "lost", "finish"}
      <4>1. \A p : Goto(p) => w'.pc = p
        BY <1>a, Moving DEF Keeps
      <4>2. \A b : GiveUpAsUnknown(b) => w'.pc = "unknown"
        BY <1>a, Moving DEF Keeps
      <4>3. Done => w'.pc = "recover"
        BY DEF Done, Between
      <4>. QED
        BY <3>2, <4>1, <4>2, <4>3
           DEF LocalSendReturns, JournalConfirmed, ContextSending, ContextSent
    <3>. QED
      BY <2>3, <3>1, <3>2 DEF AuditedOK
  <2>4. CASE ~Informing /\ ~Outside
    BY <2>4, <1>a, InformedBy DEF Informed, AuditedOK
  <2>. QED
    BY <2>1, <2>2, <2>3, <2>4 DEF Informing
<1>2. ASSUME NEW e \in Events PROVE SkipOK(e)'
  <2>1. CASE job[e].status = "skipped"
    <3>1. ASSUME Unsent(e) PROVE Unsent(e)'
      <4>1. ~(Authorize /\ e = J)
        BY <1>a, <2>1, AuthorizeRow DEF R, J
      <4>. QED
        BY <1>a, <3>1, <4>1, UnsentKept
    <3>. QED
      BY <1>a, <1>c, <2>1, <3>1, SkippedKept DEF SkipOK, JournalHolds
  <2>2. CASE job[e].status # "skipped" /\ job'[e].status = "skipped"
    <3>1. /\ e \in Questions => ctx[e].status = "skipped"
                                  \/ job'[e].attempts = MaxAttempts
          /\ JournalHolds => Unsent(e) \/ job'[e].attempts = MaxAttempts
          /\ ~Authorize
      BY <1>a, <2>2, SkipArises
    <3>2. Unsent(e) => Unsent(e)'
      BY <1>a, <3>1, UnsentKept
    <3>. QED
      BY <1>c, <3>1, <3>2 DEF SkipOK, JournalHolds
  <2>. QED
    BY <2>1, <2>2 DEF SkipOK
<1>. QED
  BY <1>1, <1>2 DEF SkipInv

-----------------------------------------------------------------------------
(* The room grows, and what stands in it stays where it is.                *)

(* The position of a message that has arrived is its only one.             *)
LEMMA PositionOf ==
    ASSUME RoomOK, NEW e \in Events, Arrived(e)
    PROVE  /\ Position(e) \in DOMAIN room /\ room[Position(e)] = Inbound(e)
           /\ \A i \in DOMAIN room : room[i] = Inbound(e) => i = Position(e)
BY DEF RoomOK, Arrived, Position

(* A row that is not the message itself moves nothing of it.               *)
LEMMA Grown ==
    ASSUME TypeOK, RoomOK, NEW e \in Events, Arrived(e), NEW r, r # Inbound(e),
           room' = room \/ room' = Append(room, r)
    PROVE  /\ Arrived(e)' /\ Position(e)' = Position(e)
           /\ \A t : Stands(e, t) => Stands(e, t)'
<1>0. /\ room \in Seq(RoomRow) /\ Len(room) \in Nat /\ DOMAIN room = 1..Len(room)
      /\ Position(e) \in DOMAIN room /\ room[Position(e)] = Inbound(e)
      /\ \A i \in DOMAIN room : room[i] = Inbound(e) => i = Position(e)
  BY PositionOf DEF TypeOK
<1>1. CASE room' = room
  BY <1>1 DEF Arrived, Position, Stands
<1>2. CASE room' = Append(room, r)
  <2>1. /\ DOMAIN room' = 1..(Len(room) + 1)
        /\ \A i \in DOMAIN room : room'[i] = room[i]
        /\ room'[Len(room) + 1] = r
    BY <1>0, <1>2
  <2>2. Position(e) \in DOMAIN room' /\ room'[Position(e)] = Inbound(e)
    BY <1>0, <2>1
  <2>3. \A i \in DOMAIN room' : room'[i] = Inbound(e) => i = Position(e)
    BY <1>0, <2>1
  <2>4. Position(e)' = Position(e)
    BY <2>2, <2>3 DEF Position, Inbound
  <2>5. Arrived(e)'
    BY <2>2 DEF Arrived, Inbound
  <2>6. ASSUME NEW t, Stands(e, t) PROVE Stands(e, t)'
    BY <1>0, <2>1, <2>4, <2>6 DEF Stands
  <2>. QED
    BY <2>4, <2>5, <2>6
<1>. QED
  BY <1>1, <1>2

(* How the room grows.                                                     *)
LEMMA RoomGrows ==
    ASSUME [Next]_vars
    PROVE  \/ room' = room
           \/ \E f \in Events : /\ Arrive(f) /\ ~Arrived(f)
                               /\ room' = Append(room, Inbound(f))
           \/ OtherRow /\ room' = Append(room, Inbound(NoEvent))
           \/ \E f \in Events :
                /\ ChildPosts(f) /\ child[f].phase = "running"
                /\ room' = Append(room, [event |-> f, text |-> child[f].text])
<1>. USE DEF roomVars
<1>1. ASSUME NEW f \in Events, Arrive(f) \/ ChildPosts(f)
      PROVE  \/ /\ Arrive(f) /\ ~Arrived(f) /\ room' = Append(room, Inbound(f))
             \/ /\ ChildPosts(f) /\ child[f].phase = "running"
                /\ room' = Append(room, [event |-> f, text |-> child[f].text])
  BY <1>1 DEF Arrive, ChildPosts
<1>2. CASE OtherRow
  BY <1>2 DEF OtherRow
<1>3. ASSUME NEW f \in Events,
             \/ Enqueue(f) \/ BecomeDue(f) \/ Expire(f) \/ Age(f) \/ Claim(f)
             \/ JournalCap(f) \/ ChildEnds(f)
      PROVE  room' = room
  BY <1>3 DEF Enqueue, BecomeDue, Expire, Age, Claim, JournalCap, ChildEnds
<1>4. CASE \/ RecoverUnknown \/ RecoverStale \/ GiveUp \/ Idle \/ Restart
            \/ Observe \/ Archive \/ Crash \/ Stall \/ UNCHANGED vars
  BY <1>4 DEF RecoverUnknown, RecoverWith, Unknown, RecoverStale, GiveUp,
     GiveUpOn, Idle, Restart,
              Observe, Archive, Crash, Stall, vars
<1>5. CASE JobAction \/ Authorize \/ LocalSendReturns
  BY <1>5 DEF JobAction, CheckTurn, ReadContext, Analyze, SettleAnalysis,
       RecordScheduled, ScheduleReply, CheckScheduled, CheckBeforeSend,
       JournalReady, SendUnavailable, JournalConfirmed, ContextSending,
       ContextSent, FinishSent, FinishLost, SkipRecord, SkipCommit,
       FinishUnknown, UnknownContext, BurstRecord, BurstCommit, Authorize,
       LocalSendReturns
<1>. QED
  BY <1>1, <1>2, <1>3, <1>4, <1>5 DEF Next, WorkerStep, JobAction

(* What stands in the room after a message goes on standing there.         *)
LEMMA StandsKept ==
    ASSUME TypeOK, RoomInv, [Next]_vars, NEW e \in Events, Arrived(e)
    PROVE  Arrived(e)' /\ \A t : Stands(e, t) => Stands(e, t)'
<1>a. RoomOK /\ \A f \in Events : child[f].phase = "running" => child[f].text # NoText
  BY DEF RoomInv, AnswerOK
<1>n. NoEvent \notin Events
  BY EventsAssumption
<1>1. PICK r : r # Inbound(e) /\ (room' = room \/ room' = Append(room, r))
  <2>1. CASE room' = room
    <3>. Inbound(NoEvent) # Inbound(e)
      BY <1>n DEF Inbound
    <3>. QED
      BY <2>1
  <2>2. ASSUME NEW f \in Events, ~Arrived(f), room' = Append(room, Inbound(f))
        PROVE  \E r : r # Inbound(e) /\ room' = Append(room, r)
    <3>1. f # e
      BY <2>2
    <3>. QED
      BY <2>2, <3>1 DEF Inbound
  <2>3. CASE room' = Append(room, Inbound(NoEvent))
    BY <1>n, <2>3 DEF Inbound
  <2>4. ASSUME NEW f \in Events, child[f].phase = "running",
               room' = Append(room, [event |-> f, text |-> child[f].text])
        PROVE  \E r : r # Inbound(e) /\ room' = Append(room, r)
    BY <1>a, <2>4 DEF Inbound
  <2>. QED
    BY <2>1, <2>2, <2>3, <2>4, RoomGrows
<1>. QED
  BY <1>a, <1>1, Grown

(* No message comes to stand twice.                                        *)
LEMMA RoomOnce == TypeOK /\ RoomInv /\ [Next]_vars => RoomOK'
<1>. SUFFICES ASSUME TypeOK, RoomInv, [Next]_vars, NEW e \in Events,
                     NEW i \in DOMAIN room', NEW j \in DOMAIN room',
                     room'[i] = Inbound(e), room'[j] = Inbound(e)
              PROVE  i = j
  BY DEF RoomOK, Inbound
<1>a. /\ RoomOK /\ \A f \in Events : child[f].phase = "running" => child[f].text # NoText
      /\ room \in Seq(RoomRow) /\ Len(room) \in Nat /\ DOMAIN room = 1..Len(room)
      /\ NoEvent \notin Events
  BY EventsAssumption DEF RoomInv, AnswerOK, TypeOK
<1>1. CASE room' = room
  BY <1>a, <1>1 DEF RoomOK
<1>g. ASSUME NEW r, room' = Append(room, r)
      PROVE  /\ DOMAIN room' = 1..(Len(room) + 1)
             /\ \A k \in DOMAIN room : room'[k] = room[k]
             /\ room'[Len(room) + 1] = r
  BY <1>a, <1>g
<1>2. ASSUME NEW r, room' = Append(room, r), r # Inbound(e) PROVE i = j
  <2>1. i \in DOMAIN room /\ j \in DOMAIN room
    BY <1>a, <1>g, <1>2
  <2>. QED
    BY <1>a, <1>g, <1>2, <2>1 DEF RoomOK
<1>3. ASSUME room' = Append(room, Inbound(e)), ~Arrived(e) PROVE i = j
  <2>1. i \notin DOMAIN room /\ j \notin DOMAIN room
    BY <1>g, <1>3 DEF Arrived
  <2>. QED
    BY <1>a, <1>g, <1>3, <2>1
<1>4. ASSUME NEW f \in Events, ~Arrived(f), room' = Append(room, Inbound(f)) PROVE i = j
  <2>1. f # e => Inbound(f) # Inbound(e)
    BY DEF Inbound
  <2>. QED
    BY <1>2, <1>3, <1>4, <2>1
<1>5. CASE room' = Append(room, Inbound(NoEvent))
  <2>. Inbound(NoEvent) # Inbound(e)
    BY <1>a DEF Inbound
  <2>. QED
    BY <1>2, <1>5
<1>6. ASSUME NEW f \in Events, child[f].phase = "running",
             room' = Append(room, [event |-> f, text |-> child[f].text])
      PROVE  i = j
  <2>. [event |-> f, text |-> child[f].text] # Inbound(e)
    BY <1>a, <1>6 DEF Inbound
  <2>. QED
    BY <1>2, <1>6
<1>. QED
  BY <1>1, <1>4, <1>5, <1>6, RoomGrows

-----------------------------------------------------------------------------
(* Rows and audit rows that say sent.                                      *)

(* An uncertain row is settled by recovery, or given up on.                *)
LEMMA UncertainKept ==
    ASSUME IInv, [Next]_vars, NEW e \in Events,
           job[e].status = "delivery_unknown", ~RecoverUnknown, ~GiveUp
    PROVE  job'[e] = job[e]
<1>a. /\ TypeOK /\ WorkerOK /\ StaleOK
      /\ job \in [Events -> Row]
  BY DEF IInv, TypeOK
<1>1. CASE UNCHANGED job
  BY <1>1
<1>2. ASSUME NEW f \in Events, Enqueue(f) \/ BecomeDue(f) \/ Claim(f)
      PROVE  job'[e] = job[e]
  BY <1>2, <1>a DEF Enqueue, Enqueueable, BecomeDue, Claim, Claimable, Put
<1>3. CASE JobAction
  BY <1>3, <1>a, JobOutcome DEF StaysUnsent, StaysSending, R, J
<1>4. CASE Authorize \/ LocalSendReturns
  BY <1>4, <1>a, AuthorizeRow, ReturnRow DEF R, J
<1>5. CASE RecoverStale
  BY <1>5, <1>a DEF RecoverStale, StaleOK
<1>6. CASE Archive
  BY <1>6, <1>a DEF Archive
<1>7. CASE OtherRow \/ Observe \/ Crash \/ Stall \/ Idle \/ Restart \/ UNCHANGED vars
  BY <1>1, <1>7 DEF OtherRow, Observe, Crash, Stall, Idle, Restart, vars
<1>8. ASSUME NEW f \in Events,
             \/ Arrive(f) \/ Expire(f) \/ Age(f) \/ JournalCap(f)
             \/ ChildPosts(f) \/ ChildEnds(f)
      PROVE  job'[e] = job[e]
  BY <1>1, <1>8 DEF Arrive, Expire, Age, JournalCap, ChildPosts, ChildEnds
<1>. QED
  BY <1>2, <1>3, <1>4, <1>5, <1>6, <1>7, <1>8 DEF Next, WorkerStep, JobAction

(* A row under way is settled by its own steps, or by stale recovery.      *)
LEMMA UnderWayKept ==
    ASSUME IInv, [Next]_vars, NEW e \in Events, job[e].status = "sending",
           ~(JobAction /\ e = J), ~(LocalSendReturns /\ e = J), ~RecoverStale
    PROVE  job'[e] = job[e]
<1>a. /\ TypeOK /\ WorkerOK
      /\ job \in [Events -> Row]
  BY DEF IInv, TypeOK
<1>1. CASE UNCHANGED job
  BY <1>1
<1>2. ASSUME NEW f \in Events, Enqueue(f) \/ BecomeDue(f) \/ Claim(f)
      PROVE  job'[e] = job[e]
  BY <1>2, <1>a DEF Enqueue, Enqueueable, BecomeDue, Claim, Claimable, Put
<1>3. CASE JobAction
  BY <1>3, <1>a, JobOutcome
<1>4. CASE Authorize \/ LocalSendReturns
  BY <1>4, <1>a, AuthorizeRow, ReturnRow DEF R, J
<1>5. CASE RecoverUnknown \/ GiveUp
  BY <1>5, <1>a DEF RecoverUnknown, RecoverWith, Unknown, GiveUp, GiveUpOn, Exhausted
<1>6. CASE Archive
  BY <1>6, <1>a DEF Archive
<1>7. CASE OtherRow \/ Observe \/ Crash \/ Stall \/ Idle \/ Restart \/ UNCHANGED vars
  BY <1>1, <1>7 DEF OtherRow, Observe, Crash, Stall, Idle, Restart, vars
<1>8. ASSUME NEW f \in Events,
             \/ Arrive(f) \/ Expire(f) \/ Age(f) \/ JournalCap(f)
             \/ ChildPosts(f) \/ ChildEnds(f)
      PROVE  job'[e] = job[e]
  BY <1>1, <1>8 DEF Arrive, Expire, Age, JournalCap, ChildPosts, ChildEnds
<1>. QED
  BY <1>2, <1>3, <1>4, <1>5, <1>6, <1>7, <1>8 DEF Next, WorkerStep, JobAction

(* What marking a row as sent leaves alone.                                *)
LEMMA SentReply ==
    ASSUME NEW row \in Row
    PROVE  SentRow(row).reply = row.reply /\ SentRow(row).status = "sent"
BY DEF SentRow, Row

(* Recovery calls a row sent on the word of its audit row, on a reply that *)
(* it has seen, or on a confirmation in the journal.                       *)
LEMMA RecoveredSent ==
    ASSUME TypeOK, NEW e \in Events, NEW seen, NEW bound, job[e].status = "delivery_unknown",
           RecoveredRow(e, seen, bound).status = "sent"
    PROVE  /\ RecoveredRow(e, seen, bound) = SentRow(job[e])
           /\ \/ ctx[e].status = "sent" /\ ctx[e].reply = job[e].reply
              \/ seen
              \/ e \in localConfirmed
<1>1. job[e] \in Row
  BY DEF TypeOK
<1>2. /\ ScheduledRow(job[e], FALSE).status = "scheduled"
      /\ \A r : SkippedRow(job[e], r).status = "skipped"
  BY <1>1, RowFields
<1>3. \A r : PendingRow(job[e], r, TRUE).status = "pending"
  BY <1>1 DEF PendingRow, Row
<1>4. \/ /\ Leftover(e, seen, bound) = SentRow(job[e])
         /\ seen \/ e \in localConfirmed
      \/ Leftover(e, seen, bound).status # "sent"
  <2>1. CASE Reasked(e)
    <3>. Leftover(e, seen, bound) = PendingRow(job[e], "none", TRUE)
      BY <2>1 DEF Leftover, Reasked
    <3>. QED
      BY <1>3
  <2>2. CASE /\ ~Reasked(e) /\ job[e].reply # NoText
             /\ seen \/ (AxMutated(e) /\ e \in localConfirmed)
    <3>. Leftover(e, seen, bound) = SentRow(job[e])
      BY <2>2 DEF Leftover
    <3>. QED
      BY <2>2
  <2>3. CASE /\ ~Reasked(e) /\ job[e].reply # NoText
             /\ ~(seen \/ (AxMutated(e) /\ e \in localConfirmed))
    <3>1. Leftover(e, seen, bound) \in {SkippedRow(job[e], "policy"), job[e],
                                 ScheduledRow(job[e], FALSE)}
      BY <2>3 DEF Leftover
    <3>2. SkippedRow(job[e], "policy").status # "sent"
      BY <1>2
    <3>. QED
      BY <1>2, <3>1, <3>2
  <2>4. CASE ~Reasked(e) /\ job[e].reply = NoText
    <3>1. Leftover(e, seen, bound) \in {SkippedRow(job[e], job[e].reason),
                                 SkippedRow(job[e], "policy"), job[e],
                                 PendingRow(job[e], job[e].reason, TRUE)}
      BY <2>4 DEF Leftover
    <3>2. /\ SkippedRow(job[e], "policy").status # "sent"
          /\ SkippedRow(job[e], job[e].reason).status # "sent"
          /\ PendingRow(job[e], job[e].reason, TRUE).status # "sent"
      BY <1>2, <1>3
    <3>. QED
      BY <3>1, <3>2
  <2>. QED
    BY <2>1, <2>2, <2>3, <2>4
<1>5. CASE ProvesSkip(e)
  <2>. SkippedRow(job[e], ctx[e].reason).status = "skipped"
    BY <1>2
  <2>. QED
    BY <1>5 DEF RecoveredRow
<1>6. CASE ~ProvesSkip(e) /\ ProvesSent(e)
  BY <1>6 DEF RecoveredRow, ProvesSent
<1>7. CASE ~ProvesSkip(e) /\ ~ProvesSent(e)
  BY <1>4, <1>7 DEF RecoveredRow
<1>. QED
  BY <1>5, <1>6, <1>7

(* A confirmed send is recovered as sent.                                  *)
LEMMA RecoveredConfirmed ==
    ASSUME NEW e \in Events, NEW seen, NEW bound, e \in localConfirmed, AxMutated(e),
           job[e].reply # NoText, job[e].status = "delivery_unknown"
    PROVE  RecoveredRow(e, seen, bound) = SentRow(job[e])
<1>1. ~ProvesSkip(e) /\ ~Reasked(e)
  BY DEF ProvesSkip, Reasked
<1>2. Leftover(e, seen, bound) = SentRow(job[e])
  BY <1>1 DEF Leftover
<1>. QED
  BY <1>1, <1>2 DEF RecoveredRow

(* Stale recovery calls a row sent on the word of its audit row only.      *)
LEMMA StaleSent ==
    ASSUME TypeOK, NEW e \in Events, job[e].status \in {"processing", "sending"},
           StaleRow(e).status = "sent"
    PROVE  StaleRow(e) = SentRow(job[e]) /\ ProvesSent(e)
<1>1. job[e] \in Row
  BY DEF TypeOK
<1>2. /\ BurstRow(job[e], TRUE).status = "projection_pending"
      /\ SkippedRow(job[e], ctx[e].reason).status = "skipped"
  BY <1>1, RowFields
<1>. DEFINE again == [job[e] EXCEPT !.status = IF job[e].decision = "reply"
                                                  /\ job[e].reply # NoText
                                                 THEN "scheduled" ELSE "pending"]
            unknown == [job[e] EXCEPT !.status = "delivery_unknown",
                                      !.reason = "reconcile", !.reconcile = TRUE]
<1>3. again.status # "sent" /\ unknown.status # "sent"
  BY <1>1 DEF Row
<1>4. \/ ProvesSent(e) /\ StaleRow(e) = SentRow(job[e])
      \/ StaleRow(e) \in {BurstRow(job[e], TRUE), SkippedRow(job[e], ctx[e].reason),
                          again, unknown}
  <2>1. CASE job[e].status = "processing" /\ Superseded(e)
    BY <2>1 DEF StaleRow, ProvesSent
  <2>2. CASE ~(job[e].status = "processing" /\ Superseded(e)) /\ ProvesSkip(e)
    BY <2>2 DEF StaleRow, ProvesSkip, ProvesSent
  <2>3. CASE ~(job[e].status = "processing" /\ Superseded(e)) /\ ~ProvesSkip(e)
    BY <2>3 DEF StaleRow
  <2>. QED
    BY <2>1, <2>2, <2>3
<1>. HIDE DEF again, unknown
<1>. QED
  BY <1>2, <1>3, <1>4

(* A row that comes to be called sent is answered in the room already.     *)
LEMMA SentArises ==
    ASSUME IInv, RoomInv, [Next]_vars, NEW e \in Events,
           job[e].status # "sent", job'[e].status = "sent"
    PROVE  /\ job[e].status # "absent"
           /\ Stands(e, job'[e].reply)
<1>a. /\ TypeOK /\ WorkerOK /\ StaleOK /\ AwaitOK /\ AnswerOK(e)
      /\ job \in [Events -> Row] /\ job[e] \in Row
  BY DEF IInv, RoomInv, TypeOK
<1>s. SelfReplied(e) <=> Stands(e, job[e].reply)
  BY DEF SelfReplied, Stands
<1>r. SentRow(job[e]).reply = job[e].reply
  BY <1>a, SentReply
<1>1. ASSUME NEW f \in Events, Enqueue(f) \/ BecomeDue(f) \/ Claim(f)
      PROVE  FALSE
  <2>1. /\ [NoRow EXCEPT !.status = "pending"].status = "pending"
        /\ \A g \in Events : [job[g] EXCEPT !.due = TRUE].status = job[g].status
        /\ \A g \in Events : Processing(job[g]).status = "processing"
    BY <1>a, RowFields DEF NoRow, Row
  <2>. QED
    BY <1>1, <1>a, <2>1 DEF Enqueue, BecomeDue, Claim, Put
<1>2. CASE JobAction
  <2>1. e = J /\ R = job[e]
    BY <1>2, <1>a, JobOutcome DEF R, J
  <2>2. job[e].status \in {"processing", "projection_pending", "sending"}
    BY <1>2, <1>a, <2>1, JobOutcome DEF StaysUnsent, StaysSending
  <2>3. /\ job'[e] = SentRow(job[e])
        /\ (CheckScheduled /\ SelfReplied(e)) \/ (FinishSent /\ At("finish"))
    BY <1>2, <1>a, <2>1, <2>2, ClosedBy DEF Finished
  <2>4. CASE At("finish")
    <3>1. e \in localConfirmed
      BY <1>a, <2>1, <2>4 DEF AwaitOK, At
    <3>2. SelfReplied(e)
      BY <1>a, <2>2, <3>1 DEF AnswerOK, ConfirmedOK
    <3>. QED
      BY <1>r, <1>s, <2>2, <2>3, <3>2
  <2>. QED
    BY <1>r, <1>s, <2>2, <2>3, <2>4
<1>3. CASE Authorize \/ LocalSendReturns
  <2>1. e = J
    BY <1>3, <1>a, AuthorizeRow, ReturnRow
  <2>2. CASE Authorize
    <3>1. R \in Row /\ J \in Events
      BY <1>a, <2>1 DEF R, J
    <3>. DEFINE row == [R EXCEPT !.status = "sending", !.reconcile = FALSE]
    <3>2. row \in Row /\ row.status = "sending"
      BY <3>1 DEF Row, Statuses
    <3>3. Settle(row, [w EXCEPT !.pc = "await"])
      BY <2>2 DEF Authorize
    <3>. HIDE DEF row
    <3>. QED
      BY <1>a, <2>1, <3>1, <3>2, <3>3, Settling
  <2>3. CASE LocalSendReturns
    <3>1. Processing(R).status = "processing"
      BY <1>a, <2>1, RowFields DEF R, J
    <3>. QED
      BY <1>a, <2>1, <2>3, <3>1 DEF LocalSendReturns, Put
  <2>. QED
    BY <1>3, <2>2, <2>3
<1>4. CASE RecoverUnknown
  <2>1. PICK seen \in SUBSET {f \in Events : SelfReplied(f)}, bound \in SUBSET Events :
          job'[e] = IF job[e].status = "delivery_unknown"
                      THEN RecoveredRow(e, e \in seen, e \in bound) ELSE job[e]
    BY <1>4 DEF RecoverUnknown, RecoverWith, Unknown
  <2>2. job[e].status = "delivery_unknown" /\ job'[e] = RecoveredRow(e, e \in seen, e \in bound)
    BY <2>1
  <2>3. /\ job'[e] = SentRow(job[e])
        /\ \/ ctx[e].status = "sent" /\ ctx[e].reply = job[e].reply
           \/ e \in seen
           \/ e \in localConfirmed
    <3>1. RecoveredRow(e, e \in seen, e \in bound).status = "sent"
      BY <2>2
    <3>2. /\ RecoveredRow(e, e \in seen, e \in bound) = SentRow(job[e])
          /\ \/ ctx[e].status = "sent" /\ ctx[e].reply = job[e].reply
             \/ e \in seen
             \/ e \in localConfirmed
      BY <1>a, <2>2, <3>1, RecoveredSent, Zenon
    <3>. QED
      BY <2>2, <3>2
  <2>4. SelfReplied(e)
    BY <1>a, <1>s, <2>1, <2>2, <2>3 DEF AnswerOK, ConfirmedOK
  <2>. QED
    BY <1>r, <1>s, <2>2, <2>3, <2>4
<1>5. CASE RecoverStale
  <2>1. e \in stale /\ job'[e] = StaleRow(e)
    BY <1>5 DEF RecoverStale
  <2>2. job[e].status \in {"processing", "sending"}
    BY <1>a, <2>1 DEF StaleOK
  <2>3. job'[e] = SentRow(job[e]) /\ ProvesSent(e)
    BY <1>a, <2>1, <2>2, StaleSent
  <2>. QED
    BY <1>a, <1>r, <2>2, <2>3 DEF ProvesSent, AnswerOK
<1>6. ~GiveUp
  <2>. SUFFICES ASSUME GiveUp PROVE FALSE
    OBVIOUS
  <2>1. job'[e] = job[e] \/ job'[e] = [job[e] EXCEPT !.status = "skipped",
                                       !.reason = "reconcile",
                                       !.reconcile = FALSE, !.due = FALSE]
    BY DEF GiveUp, GiveUpOn
  <2>. QED
    BY <1>a, <2>1 DEF Row
<1>7. ~Archive
  <2>. NoRow.status = "absent"
    BY DEF NoRow
  <2>. QED
    BY DEF Archive
<1>8. ~UNCHANGED job
  OBVIOUS
<1>9. ASSUME NEW f \in Events
      PROVE  ~(\/ Arrive(f) \/ Expire(f) \/ Age(f) \/ JournalCap(f)
               \/ ChildPosts(f) \/ ChildEnds(f))
  BY <1>8 DEF Arrive, Expire, Age, JournalCap, ChildPosts, ChildEnds
<1>10. ~(OtherRow \/ Observe \/ Crash \/ Stall \/ Idle \/ Restart \/ UNCHANGED vars)
  BY <1>8 DEF OtherRow, Observe, Crash, Stall, Idle, Restart, vars
<1>. QED
  BY <1>1, <1>2, <1>3, <1>4, <1>5, <1>6, <1>7, <1>9, <1>10
     DEF Next, WorkerStep, JobAction

(* A sent row stays, or is archived.                                       *)
LEMMA SentKept ==
    ASSUME IInv, [Next]_vars, NEW e \in Events, job[e].status = "sent"
    PROVE  job'[e] = job[e] \/ (job'[e].status = "absent" /\ e \in tombstone')
<1>1. CASE Archive
  <2>. NoRow.status = "absent"
    BY DEF NoRow
  <2>. QED
    BY <1>1 DEF Archive
<1>2. CASE ~Archive
  BY <1>2, FinishedKept DEF Enqueue, Enqueueable
<1>. QED
  BY <1>1, <1>2

(* How the journal's confirmations come and go.                            *)
LEMMA ConfirmationStep ==
    ASSUME TypeOK, [Next]_vars, NEW e \in Events, e \in localConfirmed'
    PROVE  /\ e \in axEvidence => e \in axEvidence'
           /\ \/ e \in localConfirmed
              \/ JournalConfirmed /\ e = J /\ UNCHANGED job
<1>. USE DEF journalVars
<1>1. ASSUME NEW f \in Events, JournalCap(f)
      PROVE  e \in localConfirmed /\ (e \in axEvidence => e \in axEvidence')
  BY <1>1 DEF JournalCap
<1>2. CASE JournalConfirmed
  BY <1>2 DEF JournalConfirmed
<1>3. CASE JournalReady \/ Authorize
  BY <1>3 DEF JournalReady, Authorize
<1>4. CASE UNCHANGED <<axEvidence, localConfirmed>>
  BY <1>4
<1>5. ASSUME NEW f \in Events,
             \/ Arrive(f) \/ Enqueue(f) \/ BecomeDue(f) \/ Expire(f) \/ Age(f)
             \/ Claim(f) \/ ChildPosts(f) \/ ChildEnds(f)
      PROVE  UNCHANGED <<axEvidence, localConfirmed>>
  BY <1>5 DEF Arrive, Enqueue, BecomeDue, Expire, Age, Claim, ChildPosts, ChildEnds
<1>6. CASE \/ RecoverUnknown \/ RecoverStale \/ GiveUp \/ Idle \/ Restart
            \/ OtherRow \/ Observe \/ Archive \/ Crash \/ Stall \/ UNCHANGED vars
  BY <1>4, <1>6 DEF RecoverUnknown, RecoverWith, Unknown, RecoverStale, GiveUp,
     GiveUpOn, Idle, Restart,
                    OtherRow, Observe, Archive, Crash, Stall, vars
<1>7. CASE JobAction /\ ~JournalConfirmed /\ ~JournalReady
  BY <1>4, <1>7 DEF JobAction, CheckTurn, ReadContext, Analyze, SettleAnalysis,
       RecordScheduled, ScheduleReply, CheckScheduled, CheckBeforeSend,
       SendUnavailable, ContextSending,
       ContextSent, FinishSent, FinishLost, SkipRecord, SkipCommit,
       FinishUnknown, UnknownContext, BurstRecord, BurstCommit
<1>8. CASE LocalSendReturns
  BY <1>4, <1>8 DEF LocalSendReturns
<1>. QED
  BY <1>1, <1>2, <1>3, <1>5, <1>6, <1>4, <1>7, <1>8 DEF Next, WorkerStep, JobAction

(* A confirmed row is not reopened.                                        *)
LEMMA ConfirmedKept ==
    ASSUME IInv, RoomInv, [Next]_vars, NEW e \in Events,
           job[e].status \in {"sending", "delivery_unknown"}, SelfReplied(e),
           e \in axEvidence, e \in localConfirmed
    PROVE  \/ /\ job'[e].status \in {"sending", "delivery_unknown"}
              /\ job'[e].reply = job[e].reply
           \/ job'[e].status = "sent"
<1>a. /\ TypeOK /\ WorkerOK /\ StaleOK /\ AwaitOK
      /\ job \in [Events -> Row] /\ job[e] \in Row /\ job[e].reply # NoText
  BY DEF IInv, RoomInv, TypeOK, SelfReplied
<1>r. SentRow(job[e]).status = "sent"
  BY <1>a, SentReply
<1>1. CASE job[e].status = "sending"
  <2>1. CASE JobAction /\ e = J
    BY <1>a, <1>1, <2>1, JobOutcome DEF StaysUnsent, StaysSending, R, J
  <2>2. ~(LocalSendReturns /\ e = J)
    BY <1>a DEF LocalSendReturns, At, AwaitOK
  <2>3. CASE RecoverStale
    <3>1. job'[e] = IF e \in stale THEN StaleRow(e) ELSE job[e]
      BY <2>3 DEF RecoverStale
    <3>. QED
      BY <1>a, <1>1, <3>1, StaleOutcome
  <2>4. CASE ~(JobAction /\ e = J) /\ ~RecoverStale
    BY <1>1, <2>2, <2>4, UnderWayKept
  <2>. QED
    BY <2>1, <2>3, <2>4
<1>2. CASE job[e].status = "delivery_unknown"
  <2>1. CASE RecoverUnknown
    <3>1. PICK seen \in SUBSET Events, bound \in SUBSET Events :
            job'[e] = RecoveredRow(e, e \in seen, e \in bound)
      BY <1>2, <2>1 DEF RecoverUnknown, RecoverWith, Unknown
    <3>2. job'[e] = SentRow(job[e])
      BY <1>a, <1>2, <3>1, RecoveredConfirmed DEF AxMutated
    <3>. QED
      BY <1>r, <3>2
  <2>2. CASE GiveUp
    BY <1>a, <1>2, <2>2 DEF GiveUp, GiveUpOn, Exhausted
  <2>3. CASE ~RecoverUnknown /\ ~GiveUp
    BY <1>2, <2>3, UncertainKept
  <2>. QED
    BY <2>1, <2>2, <2>3
<1>. QED
  BY <1>1, <1>2

(* A message with a row has arrived.                                       *)
LEMMA ArrivedStep ==
    ASSUME IInv, RoomInv, [Next]_vars, NEW e \in Events, job'[e].status # "absent"
    PROVE  Arrived(e)'
<1>a. TypeOK /\ AnswerOK(e)
  BY DEF IInv, RoomInv
<1>1. CASE job[e].status # "absent"
  BY <1>a, <1>1, StandsKept DEF AnswerOK
<1>2. CASE job[e].status = "absent" /\ Enqueue(e)
  <2>1. Arrived(e)
    BY <1>2 DEF Enqueue
  <2>. QED
    BY <1>a, <2>1, StandsKept
<1>3. CASE job[e].status = "absent" /\ Archive
  <2>. NoRow.status = "absent"
    BY DEF NoRow
  <2>. QED
    BY <1>3 DEF Archive
<1>4. CASE job[e].status = "absent" /\ ~Enqueue(e) /\ ~Archive
  BY <1>4, FinishedKept
<1>. QED
  BY <1>1, <1>2, <1>3, <1>4

(* A send under way carries a text.                                        *)
LEMMA ChildStep ==
    ASSUME IInv, RoomInv, [Next]_vars, NEW e \in Events, child'[e].phase = "running"
    PROVE  child'[e].text # NoText
<1>a. /\ TypeOK /\ WorkerOK /\ AnswerOK(e)
      /\ child \in [Events -> Child]
  BY DEF IInv, RoomInv, TypeOK
<1>1. CASE UNCHANGED child
  BY <1>a, <1>1 DEF AnswerOK
<1>2. ASSUME NEW f \in Events, ChildPosts(f) \/ ChildEnds(f)
      PROVE  child'[e].text # NoText
  <2>1. e # f => child'[e] = child[e]
    BY <1>2, <1>a DEF ChildPosts, ChildEnds
  <2>2. child'[f].phase # "running"
    BY <1>2, <1>a DEF ChildPosts, ChildEnds, NoChild, Child
  <2>. QED
    BY <1>a, <2>1, <2>2 DEF AnswerOK
<1>3. CASE LocalSendReturns
  <2>1. NoChild.phase = "none"
    BY DEF NoChild
  <2>2. child'[e] \in {child[e], NoChild}
    BY <1>3, <1>a DEF LocalSendReturns
  <2>. QED
    BY <1>a, <2>1, <2>2 DEF AnswerOK
<1>4. CASE Authorize
  <2>1. J \in Events /\ R.reply # NoText
    BY <1>4, <1>a DEF Authorize, At, WorkerOK, ReplySteps, HasJob, JobSteps,
                      ProcessingSteps, J
  <2>. QED
    BY <1>4, <1>a, <2>1 DEF Authorize, AnswerOK
<1>5. CASE JobAction
  BY <1>1, <1>5, JobActionFrame
<1>6. ASSUME NEW f \in Events,
             \/ Arrive(f) \/ Enqueue(f) \/ BecomeDue(f) \/ Expire(f) \/ Age(f)
             \/ Claim(f) \/ JournalCap(f)
      PROVE  UNCHANGED child
  BY <1>6 DEF Arrive, Enqueue, BecomeDue, Expire, Age, Claim, JournalCap, sendVars
<1>7. CASE \/ RecoverUnknown \/ RecoverStale \/ GiveUp \/ Idle \/ Restart
            \/ OtherRow \/ Observe \/ Archive \/ Crash \/ Stall \/ UNCHANGED vars
  BY <1>1, <1>7 DEF RecoverUnknown, RecoverWith, Unknown, RecoverStale, GiveUp,
     GiveUpOn, Idle, Restart,
                    OtherRow, Observe, Archive, Crash, Stall, vars, sendVars
<1>. QED
  BY <1>1, <1>2, <1>3, <1>4, <1>5, <1>6, <1>7 DEF Next, WorkerStep, JobAction

(* No tombstone is ever lifted.                                            *)
LEMMA TombstonesKept == ASSUME [Next]_vars PROVE tombstone \subseteq tombstone'
<1>1. ASSUME NEW f \in Events,
             \/ Arrive(f) \/ Enqueue(f) \/ BecomeDue(f) \/ Expire(f) \/ Age(f)
             \/ Claim(f) \/ JournalCap(f) \/ ChildPosts(f) \/ ChildEnds(f)
      PROVE  UNCHANGED tombstone
  BY <1>1 DEF Arrive, Enqueue, BecomeDue, Expire, Age, Claim, JournalCap,
              ChildPosts, ChildEnds
<1>2. CASE \/ RecoverUnknown \/ RecoverStale \/ GiveUp \/ Idle \/ Restart
            \/ OtherRow \/ Observe \/ Crash \/ Stall \/ UNCHANGED vars
            \/ Authorize \/ LocalSendReturns
  BY <1>2 DEF RecoverUnknown, RecoverWith, Unknown, RecoverStale, GiveUp,
     GiveUpOn, Idle, Restart,
              OtherRow, Observe, Crash, Stall, vars, Authorize, LocalSendReturns
<1>3. CASE JobAction
  BY <1>3, JobActionFrame
<1>4. CASE Archive
  BY <1>4 DEF Archive
<1>. QED
  BY <1>1, <1>2, <1>3, <1>4 DEF Next, WorkerStep, JobAction

(* Message by message, what the rows say of the room stays true.           *)
LEMMA AnswerStep == IInv /\ RoomInv /\ [Next]_vars => \A e \in Events : AnswerOK(e)'
<1>. SUFFICES ASSUME IInv, RoomInv, [Next]_vars, NEW e \in Events
              PROVE  AnswerOK(e)'
  OBVIOUS
<1>a. TypeOK /\ WorkerOK /\ AwaitOK /\ AnswerOK(e) /\ SendOK(e)
  BY DEF IInv, RoomInv
<1>k. Arrived(e) => Arrived(e)' /\ \A t : Stands(e, t) => Stands(e, t)'
  BY <1>a, StandsKept
<1>s. SelfReplied(e) <=> Stands(e, job[e].reply)
  BY DEF SelfReplied, Stands
<1>t. SelfReplied(e)' <=> (\E i \in DOMAIN room' : /\ room'[i].text = job'[e].reply
                                                 /\ job'[e].reply # NoText
                                                 /\ i > Position(e)')
  BY DEF SelfReplied
<1>v. ASSUME NEW t, t = job'[e].reply, Stands(e, t)' PROVE SelfReplied(e)'
  BY <1>t, <1>v DEF Stands
<1>1. job'[e].status # "absent" => Arrived(e)'
  BY ArrivedStep
<1>2. child'[e].phase = "running" => child'[e].text # NoText
  BY ChildStep
<1>3. ASSUME job'[e].status = "sent" PROVE SelfReplied(e)'
  <2>1. CASE job[e].status = "sent"
    <3>1. job'[e] = job[e]
      BY <1>3, <2>1, SentKept
    <3>2. Stands(e, job[e].reply)'
      BY <1>a, <1>k, <1>s, <2>1, <3>1 DEF AnswerOK, Stands
    <3>. QED
      BY <1>v, <3>1, <3>2 DEF Stands
  <2>2. CASE job[e].status # "sent"
    <3>. DEFINE t == job'[e].reply
    <3>1. job[e].status # "absent" /\ Stands(e, t)
      BY <1>3, <2>2, SentArises
    <3>2. \A u : Stands(e, u) => Stands(e, u)'
      BY <1>a, <1>k, <3>1 DEF AnswerOK
    <3>. HIDE DEF t
    <3>3. \E i \in DOMAIN room' : /\ room'[i].text = t /\ t # NoText
                                /\ i > Position(e)'
      BY <3>1, <3>2 DEF Stands
    <3>. QED
      BY <1>t, <3>3 DEF t
  <2>. QED
    BY <2>1, <2>2
<1>4. ASSUME ctx'[e].status = "sent" PROVE Arrived(e)' /\ Stands(e, ctx[e].reply)'
  <2>1. CASE ctx'[e] = ctx[e]
    <3>1. Arrived(e) /\ Stands(e, ctx[e].reply)
      BY <1>4, <1>a, <2>1 DEF AnswerOK
    <3>. QED
      BY <1>k, <2>1, <3>1 DEF Stands
  <2>2. CASE ContextSent /\ e = J /\ ctx'[e].reply = R.reply
    <3>1. w.pc = "ctxSent" /\ job[e].status = "sending" /\ R = job[e]
      BY <2>2, <1>a DEF ContextSent, At, WorkerOK, SendingSteps, R, J
    <3>2. Arrived(e) /\ SelfReplied(e)
      BY <1>a, <2>2, <3>1 DEF AwaitOK, AnswerOK, ConfirmedOK
    <3>. QED
      BY <1>k, <1>s, <2>2, <3>1, <3>2 DEF Stands
  <2>. QED
    BY <1>4, <1>a, <2>1, <2>2, ContextStep DEF Advances
<1>5. ASSUME e \in localConfirmed'
      PROVE  /\ e \in axEvidence'
             /\ \/ job'[e].status \in {"sending", "delivery_unknown"} /\ SelfReplied(e)'
                \/ job'[e].status = "sent"
                \/ job'[e].status = "absent" /\ e \in tombstone'
  <2>1. /\ e \in axEvidence => e \in axEvidence'
        /\ e \in localConfirmed \/ (JournalConfirmed /\ e = J /\ UNCHANGED job)
    BY <1>5, <1>a, ConfirmationStep
  <2>2. CASE JournalConfirmed /\ e = J /\ UNCHANGED job
    <3>1. job[e].status = "sending" /\ SelfReplied(e)
      BY <2>2, <1>a DEF JournalConfirmed, At, WorkerOK, SendingSteps, AwaitOK, R, J
    <3>2. e \in axEvidence /\ Arrived(e)
      BY <1>a, <3>1 DEF SendOK, AnswerOK
    <3>3. Stands(e, job[e].reply)'
      BY <1>k, <1>s, <2>2, <3>1, <3>2 DEF Stands
    <3>. QED
      BY <1>v, <2>1, <2>2, <3>1, <3>2, <3>3 DEF Stands
  <2>3. CASE e \in localConfirmed
    <3>1. e \in axEvidence'
      BY <1>a, <2>1, <2>3 DEF AnswerOK, ConfirmedOK
    <3>2. CASE job[e].status = "sent"
      BY <3>1, <3>2, SentKept
    <3>3. CASE job[e].status = "absent" /\ e \in tombstone
      <4>1. tombstone \subseteq tombstone' /\ ~Enqueue(e)
        BY <3>3, TombstonesKept DEF Enqueue, Enqueueable
      <4>2. job'[e].status = "absent"
        <5>1. CASE Archive
          <6>. NoRow.status = "absent"
            BY DEF NoRow
          <6>. QED
            BY <5>1, <3>3 DEF Archive
        <5>. QED
          BY <3>3, <4>1, <5>1, FinishedKept
      <4>. QED
        BY <3>1, <3>3, <4>1, <4>2
    <3>4. CASE job[e].status \in {"sending", "delivery_unknown"} /\ SelfReplied(e)
      <4>1. e \in axEvidence /\ Arrived(e)
        BY <1>a, <2>3, <3>4 DEF AnswerOK, ConfirmedOK
      <4>2. \/ /\ job'[e].status \in {"sending", "delivery_unknown"}
               /\ job'[e].reply = job[e].reply
            \/ job'[e].status = "sent"
        BY <2>3, <3>4, <4>1, ConfirmedKept
      <4>3. ASSUME job'[e].reply = job[e].reply PROVE SelfReplied(e)'
        <5>1. Stands(e, job[e].reply)
          BY <1>s, <3>4
        <5>2. \A u : Stands(e, u) => Stands(e, u)'
          BY <1>k, <4>1
        <5>. DEFINE t == job[e].reply
        <5>. HIDE DEF t
        <5>3. \E i \in DOMAIN room' : /\ room'[i].text = t /\ t # NoText
                                    /\ i > Position(e)'
          BY <5>1, <5>2 DEF Stands, t
        <5>. QED
          BY <1>t, <4>3, <5>3 DEF t
      <4>. QED
        BY <3>1, <4>2, <4>3
    <3>. QED
      BY <1>a, <2>3, <3>2, <3>3, <3>4 DEF AnswerOK, ConfirmedOK
  <2>. QED
    BY <2>1, <2>2, <2>3
<1>. QED
  BY <1>1, <1>2, <1>3, <1>4, <1>5 DEF AnswerOK, ConfirmedOK, Stands

(* The environment does none of the worker's work.                         *)
LEMMA OutsideNoWork ==
    ASSUME TypeOK, WorkerOK, Outside, J \in Events
    PROVE  job'[J] = job[J] \/ R.status # "sending"
<1>a. job \in [Events -> Row]
  BY DEF TypeOK
<1>1. ASSUME NEW f \in Events, Enqueue(f) \/ BecomeDue(f)
      PROVE  job'[J] = job[J] \/ R.status # "sending"
  BY <1>1, <1>a DEF Enqueue, Enqueueable, BecomeDue, Put, R, J
<1>2. ASSUME NEW f \in Events,
             \/ Arrive(f) \/ Expire(f) \/ Age(f) \/ JournalCap(f)
             \/ ChildPosts(f) \/ ChildEnds(f)
      PROVE  UNCHANGED job
  BY <1>2 DEF Arrive, Expire, Age, JournalCap, ChildPosts, ChildEnds
<1>3. CASE Archive
  BY <1>3, <1>a DEF Archive, R, J
<1>4. CASE OtherRow \/ Observe \/ UNCHANGED vars
  BY <1>4 DEF OtherRow, Observe, vars
<1>. QED
  BY <1>1, <1>2, <1>3, <1>4 DEF Outside, R, J

(* What the worker has learnt of its send stays true until it is written.  *)
LEMMA AwaitStep == IInv /\ RoomInv /\ [Next]_vars => AwaitOK'
<1>. SUFFICES ASSUME IInv, RoomInv, [Next]_vars PROVE AwaitOK'
  OBVIOUS
<1>a. /\ TypeOK /\ WorkerOK /\ AwaitOK /\ w \in Worker
      /\ \A e \in Events : AnswerOK(e)
      /\ job \in [Events -> Row] /\ child \in [Events -> Child]
      /\ NoEvent \notin Events
  BY EventsAssumption DEF IInv, RoomInv, TypeOK
<1>r. ASSUME NEW e \in Events, job[e].status # "absent", SelfReplied(e),
             job'[e].reply = job[e].reply
      PROVE  SelfReplied(e)'
  <2>. DEFINE t == job[e].reply
  <2>1. Stands(e, t) /\ Arrived(e)
    BY <1>a, <1>r DEF SelfReplied, Stands, AnswerOK
  <2>2. \A u : Stands(e, u) => Stands(e, u)'
    BY <1>a, <2>1, StandsKept
  <2>. HIDE DEF t
  <2>3. \E i \in DOMAIN room' : /\ room'[i].text = t /\ t # NoText
                              /\ i > Position(e)'
    BY <2>1, <2>2 DEF Stands
  <2>. QED
    BY <1>r, <2>3 DEF SelfReplied, t
<1>1. CASE Outside
  <2>1. w' = w
    BY <1>1, OutsideKeeps
  <2>2. CASE w.pc \in {"await", "confirmed", "ctxSending", "ctxSent", "finish"}
    <3>1. J \in Events /\ R.status = "sending" /\ R = job[J]
      BY <1>a, <2>2 DEF WorkerOK, HasJob, JobSteps, SendingSteps, R, J
    <3>2. job'[J] = job[J]
      BY <1>1, <1>a, <3>1, OutsideNoWork
    <3>3. J \in localConfirmed' <=> J \in localConfirmed
      BY <1>1, <3>1 DEF Outside, Arrive, Enqueue, BecomeDue, Expire, Age, JournalCap,
         ChildPosts, ChildEnds, OtherRow, Observe, Archive, vars, journalVars
    <3>4. SelfReplied(J) => SelfReplied(J)'
      BY <1>r, <2>1, <3>1, <3>2 DEF J
    <3>5. CASE w.pc = "await"
      <4>1. CASE child'[J] = child[J]
        BY <1>a, <2>1, <3>1, <3>2, <3>3, <3>4, <3>5, <4>1 DEF AwaitOK, R, J
      <4>2. CASE ChildPosts(J)
        <5>1. /\ child[J].phase = "running" /\ child[J].text = R.reply
              /\ child'[J].phase = "posted"
              /\ room' = Append(room, [event |-> J, text |-> child[J].text])
          BY <1>a, <3>1, <3>5, <4>2 DEF ChildPosts, Awaited, At, AwaitOK, Child
        <5>2. R.reply # NoText /\ Arrived(J)
          BY <1>a, <3>1, <5>1 DEF AnswerOK
        <5>3. ASSUME NEW e \in Events, e = J PROVE SelfReplied(e)'
          <6>. DEFINE r == [event |-> e, text |-> child[e].text]
          <6>0. /\ r # Inbound(e) /\ r.text = R.reply
                /\ room' = Append(room, r) /\ Arrived(e)
            BY <5>1, <5>2, <5>3 DEF Inbound
          <6>. HIDE DEF r
          <6>1. Position(e)' = Position(e) /\ Position(e) \in DOMAIN room
            BY <1>a, <6>0, Grown, PositionOf DEF RoomInv
          <6>2. /\ Len(room) \in Nat /\ DOMAIN room = 1..Len(room)
                /\ DOMAIN room' = 1..(Len(room) + 1)
                /\ room'[Len(room) + 1] = r
            <7>. room \in Seq(RoomRow)
              BY <1>a DEF TypeOK
            <7>. QED
              BY <6>0
          <6>3. /\ Len(room) + 1 \in DOMAIN room'
                /\ room'[Len(room) + 1].text = job'[e].reply
                /\ Len(room) + 1 > Position(e)'
            BY <3>1, <3>2, <5>3, <6>0, <6>1, <6>2
          <6>. QED
            BY <3>1, <3>2, <5>2, <5>3, <6>3 DEF SelfReplied
        <5>4. SelfReplied(J)'
          BY <2>1, <3>1, <5>3 DEF J
        <5>. QED
          BY <1>a, <2>1, <3>3, <3>5, <5>1, <5>4 DEF AwaitOK, J
      <4>3. child'[J] = child[J] \/ ChildPosts(J)
        <5>1. ASSUME NEW f \in Events, ChildPosts(f) \/ ChildEnds(f)
              PROVE  child'[J] = child[J] \/ ChildPosts(J)
          BY <1>a, <3>1, <3>5, <5>1 DEF ChildPosts, ChildEnds, Awaited, At
        <5>2. ASSUME NEW f \in Events, \/ Arrive(f) \/ Enqueue(f) \/ BecomeDue(f)
                                       \/ Expire(f) \/ Age(f) \/ JournalCap(f)
              PROVE  UNCHANGED child
          BY <5>2 DEF Arrive, Enqueue, BecomeDue, Expire, Age, JournalCap, sendVars
        <5>3. CASE OtherRow \/ Observe \/ Archive \/ UNCHANGED vars
          BY <5>3 DEF OtherRow, Observe, Archive, vars, sendVars
        <5>. QED
          BY <1>1, <5>1, <5>2, <5>3 DEF Outside
      <4>. QED
        BY <4>1, <4>2, <4>3
    <3>6. CASE w.pc # "await"
      BY <1>a, <2>1, <3>3, <3>4, <3>6 DEF AwaitOK, J
    <3>. QED
      BY <3>5, <3>6
  <2>3. CASE w.pc \notin {"await", "confirmed", "ctxSending", "ctxSent", "finish"}
    BY <2>1, <2>3 DEF AwaitOK
  <2>. QED
    BY <2>2, <2>3
<1>2. CASE ~Informing /\ ~Outside
  BY <1>2, <1>a, InformedBy DEF Informed, AwaitOK
<1>m. /\ \A p : Goto(p) => w'.pc = p /\ w'.job = w.job
      /\ \A b : GiveUpAsUnknown(b) => w'.pc = "unknown"
      /\ Done => w'.pc = "recover"
  BY <1>a, Moving DEF Keeps, Done, Between
<1>3. CASE SkipRecord \/ BurstRecord
  BY <1>3, <1>m DEF SkipRecord, BurstRecord, RecordSkip, AwaitOK
<1>4. CASE Authorize
  <2>1. J \in Events /\ R.status = "processing" /\ R = job[J] /\ R \in Row
    BY <1>4, <1>a, AuthorizeRow DEF R, J
  <2>2. CASE Superseded(J)
    BY <1>4, <1>m, <2>2 DEF Authorize, Settle, AwaitOK
  <2>3. CASE ~Superseded(J)
    <3>. DEFINE row == [R EXCEPT !.status = "sending", !.reconcile = FALSE]
    <3>1. row.reply = R.reply
      BY <2>1 DEF Row
    <3>2. Put(J, row) /\ w' = [w EXCEPT !.pc = "await"]
      BY <1>4, <2>3 DEF Authorize, Settle
    <3>. HIDE DEF row
    <3>3. job'[J].reply = R.reply
      BY <1>a, <2>1, <3>1, <3>2 DEF Put
    <3>4. w'.pc = "await" /\ w'.job = J
      BY <1>a, <3>2 DEF Worker, J
    <3>5. child'[J] = [phase |-> "running", text |-> R.reply]
      BY <1>4, <1>a, <2>1, <2>3 DEF Authorize
    <3>6. J \notin localConfirmed'
      <4>1. UNCHANGED localConfirmed
        BY <1>4 DEF Authorize
      <4>. QED
        BY <1>a, <2>1, <4>1 DEF AnswerOK, ConfirmedOK
    <3>. QED
      BY <3>3, <3>4, <3>5, <3>6 DEF AwaitOK, R, J
  <2>. QED
    BY <2>2, <2>3
<1>5. CASE LocalSendReturns
  <2>1. J \in Events /\ R.status = "sending" /\ R = job[J]
    BY <1>5, <1>a, ReturnRow DEF R, J
  <2>2. CASE w'.pc = "confirmed"
    <3>1. Confirmed(J) /\ UNCHANGED job /\ w'.job = J
      BY <1>5, <1>m, <2>2 DEF LocalSendReturns, J
    <3>2. SelfReplied(J)
      BY <1>5, <1>a, <3>1 DEF Confirmed, AwaitOK, LocalSendReturns, At
    <3>3. SelfReplied(J)'
      BY <1>r, <2>1, <3>1, <3>2 DEF J
    <3>. QED
      BY <2>2, <3>1, <3>3 DEF AwaitOK, J
  <2>3. w'.pc \in {"unavailable", "unknown", "confirmed"}
    BY <1>5, <1>m DEF LocalSendReturns
  <2>. QED
    BY <2>2, <2>3 DEF AwaitOK
<1>6. CASE JournalConfirmed
  BY <1>6, <1>m DEF JournalConfirmed, AwaitOK, J
<1>7. CASE ContextSending \/ ContextSent
  <2>1. UNCHANGED localConfirmed /\ w.pc \in {"ctxSending", "ctxSent"}
    BY <1>7 DEF ContextSending, ContextSent, At, journalVars
  <2>2. w'.pc \in {"ctxSent", "finish", "lost"} /\ w'.job = w.job
    BY <1>7, <1>m DEF ContextSending, ContextSent
  <2>. QED
    BY <1>a, <2>1, <2>2 DEF AwaitOK, J
<1>. QED
  BY <1>1, <1>2, <1>3, <1>4, <1>5, <1>6, <1>7 DEF Informing

-----------------------------------------------------------------------------
(* The theorems.                                                           *)

(* Nothing is claimed of an empty table.                                   *)
LEMMA InitRoomInv == Init => RoomInv /\ SkipInv
<1>. SUFFICES ASSUME Init PROVE RoomInv /\ SkipInv
  OBVIOUS
<1>1. RoomOK
  BY DEF Init, RoomOK
<1>2. AwaitOK /\ AuditedOK
  BY DEF Init, AwaitOK, AuditedOK, Between
<1>3. \A e \in Events : AnswerOK(e) /\ SkipOK(e)
  BY DEF Init, AnswerOK, SkipOK, ConfirmedOK, NoRow, NoChild
<1>. QED
  BY <1>1, <1>2, <1>3 DEF RoomInv, SkipInv

(* What closed rows and audit rows say, with what the worker knows of its  *)
(* send, is an invariant: room, confirmations, audits and skipped rows.    *)
THEOREM RoomInvariance == Spec => [](RoomInv /\ SkipInv)
<1>1. IInv /\ RoomInv /\ [Next]_vars => RoomInv'
  BY RoomOnce, AwaitStep, AnswerStep DEF RoomInv, IInv
<1>2. IInv /\ SkipInv /\ [Next]_vars => SkipInv'
  BY SkipStep
<1>. QED
  BY InitRoomInv, Invariance, <1>1, <1>2, PTL DEF Spec

(* A row marked sent is backed by the room, through every crash, lost      *)
(* acknowledgement, eviction and recovery.                                 *)
THEOREM SentStands == Spec => []SentIsInRoom
<1>1. RoomInv => SentIsInRoom
  BY DEF RoomInv, AnswerOK, SentIsInRoom
<1>. QED
  BY RoomInvariance, <1>1, PTL

(* The audit row says sent only of a message whose recorded reply stands   *)
(* in the room, even when the job has been archived.                       *)
THEOREM AuditSentStands == Spec => []AuditSentIsInRoom
<1>1. RoomInv => AuditSentIsInRoom
  BY DEF RoomInv, AnswerOK, Stands, AuditSentIsInRoom
<1>. QED
  BY RoomInvariance, <1>1, PTL

(* A reply that reached the room is recorded as skipped only after the     *)
(* attempts are used up, as long as the journal holds the evidence.        *)
THEOREM SkippedExhausted == ASSUME JournalHolds PROVE Spec => []SkippedPostIsExhausted
<1>1. IInv /\ SkipInv => SkippedPostIsExhausted
  <2>. \A e \in Events : posts[e] > 0 => ~Unsent(e)
    BY DEF Unsent
  <2>. QED
    BY DEF SkipInv, SkipOK, SkippedPostIsExhausted
<1>. QED
  BY Invariance, RoomInvariance, <1>1, PTL

(* A question is closed unanswered only by an audited decision or when its *)
(* attempts are used up, whether or not the journal holds.                 *)
THEOREM QuestionsKept == Spec => []QuestionNotDropped
<1>1. SkipInv => QuestionNotDropped
  BY EventsAssumption DEF SkipInv, SkipOK, QuestionNotDropped
<1>. QED
  BY RoomInvariance, <1>1, PTL

=============================================================================
