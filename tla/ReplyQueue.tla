----------------------------- MODULE ReplyQueue -----------------------------
(***************************************************************************)
(* The durable reply queue of one room: scripts/auto-reply-worker.py.      *)
(*                                                                         *)
(* The watcher's hook enqueues one job per inbound message; a single       *)
(* worker claims jobs, asks the model for a reply, schedules it, and sends *)
(* it through a `local-send' child process that drives the KakaoTalk       *)
(* window.  Three durable stores take part, each with commits of its own:  *)
(* the job table (with its supersession links, tombstones and journal),    *)
(* the context store's audit row of the event, and the chat room itself.   *)
(* The worker may die between any two commits, and its child may outlive   *)
(* it.  A step below is one commit, or one observation the next commit     *)
(* depends on.                                                             *)
(*                                                                         *)
(* Abstracted: wall-clock times become the flags `due', `expired' and      *)
(* `stale'; log ids become positions in `room'; a reason is represented by *)
(* the class the recovery code sorts it into.  Proactive (GeekNews) jobs,  *)
(* which take no watermark and no supersession, are not in this module.    *)
(***************************************************************************)
EXTENDS Integers, Sequences, FiniteSets

CONSTANTS
    Events,         \* inbound messages, each the key of at most one job
    NoEvent,        \* "no event"
    Predecessor,    \* [Events -> Events \cup {NoEvent}]: the previous row of
                    \* the same author's burst
    Questions,      \* the events whose text asks a question
    Texts,          \* reply texts the model can produce
    NoText,         \* "no reply"
    MaxAttempts,    \* BLANK_UNKNOWN_MAX_ATTEMPTS; attempt counters stop there
    MaxChatter,     \* bound: room rows that are not events of this queue
    MaxCrashes,     \* bound: deaths of the worker
    MaxStalls,      \* bound: transient "database is locked" errors
    MaxEvictions    \* bound: how often JOURNAL_MAX_ROWS younger rows push out
                    \* the journal rows of a send that is still unresolved

ASSUME EventsAssumption ==
    /\ NoEvent \notin Events
    /\ Questions \subseteq Events
    /\ Predecessor \in [Events -> Events \cup {NoEvent}]
    /\ \A e \in Events : Predecessor[e] # e

ASSUME TextsAssumption == NoText \notin Texts

ASSUME BoundsAssumption ==
    /\ MaxAttempts \in Nat \ {0}
    /\ MaxChatter \in Nat
    /\ MaxCrashes \in Nat
    /\ MaxStalls \in Nat
    /\ MaxEvictions \in Nat

VARIABLES
    job,            \* reply_jobs: the row of each event
    tombstone,      \* reply_job_tombstones
    supersededBy,   \* reply_job_supersessions
    axEvidence,     \* events with a journal row that admits an AX mutation
    localConfirmed, \* events with a local_db_confirmed journal row
    ctx,            \* the context store's reply_decisions row of each event
    room,           \* the chat room: inbound rows and the replies posted
    observed,       \* last_observed_log_id published by the watcher
    expired,        \* events past their response window and retry grace
    stale,          \* rows whose updated_at is older than STALE_JOB_TTL_SECONDS
    child,          \* the local-send process of each event
    posts,          \* history: how often a reply of the event was posted
    failures,       \* deaths and stalls of the worker, evictions, so far
    w               \* the worker: its step, claimed job and in-memory values

journalVars == <<axEvidence, localConfirmed>>
roomVars == <<room, observed>>
clockVars == <<expired, stale>>
sendVars == <<child, posts>>

vars == <<job, tombstone, supersededBy, journalVars, ctx, roomVars, clockVars,
          sendVars, failures, w>>

-----------------------------------------------------------------------------
(* State.                                                                  *)

Statuses == {"absent", "pending", "processing", "scheduled", "sending", "sent",
             "skipped", "delivery_unknown", "projection_pending"}

(* Reason classes of _queue_reconciliation_blockers and of the leftover     *)
(* rules: model usage limits, retryable model outages, a model call that   *)
(* another process holds (model_call_in_flight), the policy reasons        *)
(* recovery closes (stale_backlog, ...), burst_superseded, all others,     *)
(* and the two reconciliation reasons.                                     *)
Reasons == {"none", "usage", "retry", "busy", "policy", "superseded", "other",
            "reconcile"}

Row == [status    : Statuses,
        decision  : {"none", "reply", "skip"},
        reason    : Reasons,
        reconcile : BOOLEAN,            \* error_class = 'reconcile_required'
        reply     : Texts \cup {NoText},
        due       : BOOLEAN,            \* due_at IS NULL or has passed
        mark      : Nat,                \* analysis_watermark_log_id; 0: none
        attempts  : 0..MaxAttempts,
        at        : Nat]                \* updated_at of a sent row, in room rows

ContextStatuses == {"none", "scheduled", "sending", "sent", "skipped",
                    "delivery_unknown"}

ContextRow == [status : ContextStatuses,
               reason : Reasons,
               reply  : Texts \cup {NoText}]

Child == [phase : {"none", "running", "posted"}, text : Texts \cup {NoText}]

RoomRow == [event : Events \cup {NoEvent}, text : Texts \cup {NoText}]

Steps == {"recover", "stale", "giveup", "claim", "claimed", "analyze",
          "decide", "settle", "record", "schedule", "scheduled", "presend",
          "journal", "authorize", "await", "unavailable", "confirmed",
          "ctxSending", "ctxSent", "finish", "lost", "skipRecord",
          "skipCommit", "unknown", "unknownCtx", "burstRecord", "burstSkip",
          "burstDefer", "down"}

Plan == [reason : Reasons, clean : BOOLEAN, reconcile : BOOLEAN]

Worker == [pc    : Steps,
           job   : Events \cup {NoEvent},
           from  : {"none", "pending", "scheduled", "projection_pending"},
           plan  : Plan,                \* the disposition being written
           mark  : Nat,                 \* watermark read before the model call
           draft : Texts \cup {NoText}] \* what the model call returned

NoRow == [status |-> "absent", decision |-> "none", reason |-> "none",
          reconcile |-> FALSE, reply |-> NoText, due |-> FALSE, mark |-> 0,
          attempts |-> 0, at |-> 0]

NoChild == [phase |-> "none", text |-> NoText]

NoPlan == [reason |-> "none", clean |-> FALSE, reconcile |-> TRUE]

(* The worker between jobs, at step p.                                     *)
Between(p) == [pc |-> p, job |-> NoEvent, from |-> "none", plan |-> NoPlan,
               mark |-> 0, draft |-> NoText]

Init ==
    /\ job = [e \in Events |-> NoRow]
    /\ tombstone = {}
    /\ supersededBy = [e \in Events |-> NoEvent]
    /\ axEvidence = {}
    /\ localConfirmed = {}
    /\ ctx = [e \in Events |->
                [status |-> "none", reason |-> "none", reply |-> NoText]]
    /\ room = <<>>
    /\ observed = 0
    /\ expired = {}
    /\ stale = {}
    /\ child = [e \in Events |-> NoChild]
    /\ posts = [e \in Events |-> 0]
    /\ failures = [crashes |-> 0, stalls |-> 0, evictions |-> 0]
    /\ w = Between("recover")

-----------------------------------------------------------------------------
(* Reading the room.                                                       *)

Inbound(e) == [event |-> e, text |-> NoText]

Arrived(e) == \E i \in DOMAIN room : room[i] = Inbound(e)

Position(e) == CHOOSE i \in DOMAIN room : room[i] = Inbound(e)

Chatter == {i \in DOMAIN room : room[i].event = NoEvent}

(* stable_room_watermark_log_id: a watermark older than the event itself is *)
(* no watermark.                                                           *)
WatermarkKnown(e) == observed >= Position(e)

(* _confirmed_self_reply_log_id: a self row after the inbound with exactly  *)
(* this text, whichever job wrote it.                                      *)
SelfReplied(e) ==
    \E i \in DOMAIN room : /\ room[i].text = job[e].reply
                           /\ job[e].reply # NoText
                           /\ i > Position(e)

ConfirmedByReturn(e) == child[e].phase # "none"

(* local-send accepts a reply as delivered only when it stands in the room. *)
Confirmed(e) == child[e].phase = "posted" \/ SelfReplied(e)

AxMutatedOnceConfirmed(e) == e \in localConfirmed

(* leftover_unknown_has_ax_mutation                                        *)
AxMutated(e) == e \in axEvidence

(* _send_time_repeat_hold: the inbound was already on screen when a reply   *)
(* recorded as sent went out.                                              *)
AlreadyCommented(e) ==
    \E f \in Events : /\ job[f].status = "sent"
                      /\ job[f].reply # NoText
                      /\ Position(e) <= job[f].at

-----------------------------------------------------------------------------
(* Row updates.  Counters stop at MaxAttempts, the only value the code      *)
(* compares them with; the text of a skipped row is never read again.       *)

Put(e, row) == job' = [job EXCEPT ![e] = row]

(* The status trigger of the transition journal counts an attempt whenever *)
(* a row enters `processing', without a bound; the model's counter stays   *)
(* at MaxAttempts, above which no code distinguishes values.               *)
Processing(row) ==
    [row EXCEPT !.status = "processing",
                !.attempts = IF @ < MaxAttempts THEN @ + 1 ELSE @]

SentRow(row) ==
    [row EXCEPT !.status = "sent", !.decision = "reply", !.due = FALSE,
                !.reconcile = FALSE, !.at = Len(room)]

SkippedRow(row, r) ==
    [row EXCEPT !.status = "skipped", !.decision = "skip", !.reason = r,
                !.reply = NoText, !.due = FALSE, !.reconcile = FALSE]

(* burst_projection_pending: due_at NULL claims at once, otherwise +5 s.   *)
BurstRow(row, due) ==
    [row EXCEPT !.status = "projection_pending", !.decision = "skip",
                !.reason = "superseded", !.reply = NoText, !.due = due,
                !.reconcile = FALSE]

(* A row sent back for a fresh analysis.                                   *)
PendingRow(row, r, due) ==
    [row EXCEPT !.status = "pending", !.decision = "none", !.reason = r,
                !.reply = NoText, !.due = due, !.reconcile = FALSE]

ScheduledRow(row, due) ==
    [row EXCEPT !.status = "scheduled", !.decision = "reply", !.due = due,
                !.reconcile = FALSE]

(* transition_delivery_unknown_job's UPDATE: a strict skip projection may  *)
(* clear the reply only while the row is still pre-send.                   *)
UnknownRow(row, plan) ==
    LET fenced == [row EXCEPT !.status = "delivery_unknown", !.due = FALSE,
                              !.reconcile = plan.reconcile]
    IN IF plan.clean /\ row.status = "processing"
         THEN [fenced EXCEPT !.decision = "skip", !.reason = plan.reason,
                             !.reply = NoText]
         ELSE fenced

-----------------------------------------------------------------------------
(* The context store: reply_status_rank, can_apply_reply_status.           *)

Rank(s) == CASE s = "none" -> 0
             [] s = "scheduled" -> 3
             [] s = "sending" -> 4
             [] OTHER -> 6

ContextTerminal(s) == s \in {"sent", "skipped", "delivery_unknown"}

CanApply(old, new) == /\ Rank(new) >= Rank(old)
                      /\ (ContextTerminal(old) => old = new)

(* record_reply_decision creates the row or moves it; `applied' is the     *)
(* commit, which a lost acknowledgement hides from the worker.             *)
Recorded(e, row) ==
    IF CanApply(ctx[e].status, row.status) THEN [ctx EXCEPT ![e] = row] ELSE ctx

(* update_reply_decision moves an existing row only.                       *)
Movable(e, s) == ctx[e].status # "none" /\ CanApply(ctx[e].status, s)

Moved(e, s) == IF Movable(e, s) THEN [ctx EXCEPT ![e].status = s] ELSE ctx

-----------------------------------------------------------------------------
(* The room, the clock and the hook.                                       *)

Arrive(e) ==
    /\ ~Arrived(e)
    /\ room' = Append(room, Inbound(e))
    /\ UNCHANGED <<job, tombstone, supersededBy, journalVars, ctx, observed,
                   clockVars, sendVars, failures, w>>

(* Somebody else writes in the room.                                       *)
OtherRow ==
    /\ Cardinality(Chatter) < MaxChatter
    /\ room' = Append(room, Inbound(NoEvent))
    /\ UNCHANGED <<job, tombstone, supersededBy, journalVars, ctx, observed,
                   clockVars, sendVars, failures, w>>

(* The watcher publishes how far it has read, one message after another.   *)
Observe ==
    /\ observed' \in (observed + 1)..Len(room)
    /\ UNCHANGED <<job, tombstone, supersededBy, journalVars, ctx, room,
                   clockVars, sendVars, failures, w>>

BecomeDue(e) ==
    /\ job[e].status \in {"pending", "scheduled", "projection_pending"}
    /\ ~job[e].due
    /\ Put(e, [job[e] EXCEPT !.due = TRUE])
    /\ UNCHANGED <<tombstone, supersededBy, journalVars, ctx, roomVars, clockVars,
                   sendVars, failures, w>>

Expire(e) ==
    /\ Arrived(e) /\ e \notin expired
    /\ expired' = expired \cup {e}
    /\ UNCHANGED <<job, tombstone, supersededBy, journalVars, ctx, roomVars, stale,
                   sendVars, failures, w>>

(* A row a dead worker left behind ages past the recovery cutoff.          *)
Age(e) ==
    /\ job[e].status \in {"processing", "sending"}
    /\ w.job # e /\ e \notin stale
    /\ stale' = stale \cup {e}
    /\ UNCHANGED <<job, tombstone, supersededBy, journalVars, ctx, roomVars,
                   expired, sendVars, failures, w>>

(* The journal keeps JOURNAL_MAX_ROWS rows for the whole room, and every    *)
(* recovery pass over an uncertain row appends one, once a second while it  *)
(* fences the queue: in the end the evidence of its send is pushed out,    *)
(* oldest rows first.  A row a step is working on is too young for that.   *)
JournalCap(e) ==
    /\ failures.evictions < MaxEvictions
    /\ job[e].status \in {"pending", "scheduled", "delivery_unknown"}
    /\ e \in axEvidence
    /\ \/ axEvidence' = axEvidence \ {e}
       \/ e \in localConfirmed /\ UNCHANGED axEvidence
    /\ localConfirmed' = localConfirmed \ {e}
    /\ failures' = [failures EXCEPT !.evictions = @ + 1]
    /\ UNCHANGED <<job, tombstone, supersededBy, ctx, roomVars, clockVars,
                   sendVars, w>>

(* No row of an unresolved send is ever pushed out.                        *)
JournalHolds == MaxEvictions = 0

WithdrawableInFlight(p) ==
    job[p].status \in {"pending", "processing", "scheduled", "sending"}

(* The predecessor can still be withdrawn from sending.                    *)
Withdrawable(p) == job[p].status \in {"pending", "processing", "scheduled"}

EnqueueableOnceArchived(e) == job[e].status = "absent"

(* The durable identity checks of an enqueue: a tombstone refuses the      *)
(* event, INSERT OR IGNORE an existing row.                                *)
Enqueueable(e) == e \notin tombstone /\ job[e].status = "absent"

(* enqueue_event: one transaction inserts the job and withdraws the        *)
(* predecessor of the burst by a supersession link.                        *)
Enqueue(e) ==
    /\ Arrived(e)
    /\ Enqueueable(e)
    /\ Put(e, [NoRow EXCEPT !.status = "pending"])
    /\ LET p == Predecessor[e]
       IN IF p # NoEvent /\ Withdrawable(p)
            THEN supersededBy' = [supersededBy EXCEPT ![p] = e]
            ELSE UNCHANGED supersededBy
    /\ UNCHANGED <<tombstone, journalVars, ctx, roomVars, clockVars, sendVars,
                   failures, w>>

-----------------------------------------------------------------------------
(* The worker: claiming and disposing of a job.                            *)

Goto(p) == w' = [w EXCEPT !.pc = p]

Done == w' = Between("recover")

At(p) == w.pc = p

(* The claimed job and its row.                                            *)
J == w.job
R == job[w.job]

Superseded(e) == supersededBy[e] # NoEvent

(* The dispositions a step may decide on; the steps that follow write them. *)
Skip(r) == w' = [w EXCEPT !.pc = "skipRecord",
                          !.plan = [reason |-> r, clean |-> TRUE,
                                    reconcile |-> TRUE]]

(* The same for a hold at the send boundary: if its audit cannot be proven *)
(* the row keeps its decision and its reply.                               *)
Hold(r, reconcile) ==
    w' = [w EXCEPT !.pc = "skipRecord",
                   !.plan = [reason |-> r, clean |-> FALSE,
                             reconcile |-> reconcile]]

GiveUpAsUnknown(reconcile) ==
    w' = [w EXCEPT !.pc = "unknown",
                   !.plan = [NoPlan EXCEPT !.reconcile = reconcile]]

(* The model declined, but when to ask again cannot be computed.           *)
GiveUpUndecided ==
    w' = [w EXCEPT !.pc = "unknown",
                   !.plan = [reason |-> "reconcile", clean |-> TRUE,
                             reconcile |-> TRUE]]

(* transition_processing_job and settle_processing_transition: the claimed *)
(* row becomes `row' unless a successor has withdrawn it meanwhile.        *)
Settle(row, next) ==
    IF Superseded(J)
      THEN Put(J, BurstRow(R, TRUE)) /\ Goto("burstRecord")
      ELSE Put(J, row) /\ w' = next

(* defer_processing_for_context_refresh                                    *)
RefreshContext ==
    IF J \in expired
      THEN Skip("policy") /\ UNCHANGED job
      ELSE Settle([PendingRow(R, "other", FALSE) EXCEPT !.mark = 0],
                  Between("recover"))

(* defer_scheduled_pre_send_unavailable                                    *)
DeferScheduled ==
    IF J \in expired
      THEN Skip("policy") /\ UNCHANGED job
      ELSE Settle([R EXCEPT !.status = "scheduled", !.due = FALSE,
                            !.reconcile = FALSE],
                  Between("recover"))

(* _claimable_job_row                                                      *)
Claimable(e) == /\ job[e].status \in {"pending", "scheduled", "projection_pending"}
                /\ job[e].due

(* Scheduled rows first, ordered by due time; or, after a burst of them,   *)
(* the other rows first; those by created_at.  Which of the two comes      *)
(* first, and the order of due times, are left open.                       *)
Claim(e) ==
    /\ At("claim")
    /\ Claimable(e)
    /\ job[e].status # "scheduled" =>
         \A f \in Events : Claimable(f) /\ job[f].status # "scheduled"
                             => Position(e) <= Position(f)
    /\ Put(e, Processing(job[e]))
    /\ w' = [Between("claimed") EXCEPT !.job = e, !.from = job[e].status]
    /\ UNCHANGED <<tombstone, supersededBy, journalVars, ctx, roomVars,
                   clockVars, sendVars, failures>>

(* The checks at the head of process_job.                                  *)
CheckTurn ==
    /\ At("claimed")
    /\ \/ /\ w.from = "projection_pending" \/ Superseded(J)
          /\ Goto("burstRecord")
          /\ UNCHANGED job
       \/ /\ w.from # "projection_pending" /\ ~Superseded(J)
          /\ \/ GiveUpAsUnknown(TRUE) /\ UNCHANGED job    \* not authoritative
             \/ Skip("policy") /\ UNCHANGED job           \* identity hold
             \/ RefreshContext                            \* no stable watermark
             \/ /\ WatermarkKnown(J)
                /\ Goto(IF w.from = "scheduled" THEN "scheduled" ELSE "analyze")
                /\ UNCHANGED job
    /\ UNCHANGED <<tombstone, supersededBy, journalVars, ctx, roomVars,
                   clockVars, sendVars, failures>>

-----------------------------------------------------------------------------
(* The worker: a pending job is analysed and scheduled.                    *)

(* The context window is read under one stable watermark, or not at all.   *)
ReadContext ==
    /\ At("analyze")
    /\ \/ RefreshContext
       \/ /\ WatermarkKnown(J)
          /\ w' = [w EXCEPT !.pc = "decide", !.mark = observed]
          /\ UNCHANGED job
    /\ UNCHANGED <<tombstone, supersededBy, journalVars, ctx, roomVars,
                   clockVars, sendVars, failures>>

(* analyze_event; a formed reply is written to the row at once.            *)
Analyze ==
    /\ At("decide")
    /\ \/ \E t \in Texts : /\ Put(J, [R EXCEPT !.reply = t])
                           /\ w' = [w EXCEPT !.pc = "settle", !.draft = t]
       \/ Goto("settle") /\ UNCHANGED job
    /\ UNCHANGED <<tombstone, supersededBy, journalVars, ctx, roomVars,
                   clockVars, sendVars, failures>>

(* The room must not have moved during the model call.                     *)
CompletedMark == WatermarkKnown(J) /\ observed = w.mark

(* What follows from a call that formed no reply: the model declines; it is *)
(* unavailable and asked again within the response window, or, for a photo, *)
(* answered by a canned reply after it; its timing cannot be read.         *)
SettleNoReply ==
    \/ Skip("other") /\ UNCHANGED job
    \/ /\ J \notin expired
       /\ \E r \in {"usage", "retry", "busy"} :
            Settle([PendingRow(R, r, FALSE) EXCEPT !.mark = w.mark],
                   Between("recover"))
    \/ /\ J \in expired
       /\ \E t \in Texts : w' = [w EXCEPT !.pc = "record", !.draft = t]
       /\ UNCHANGED job
    \/ GiveUpUndecided /\ UNCHANGED job

SettleAnalysis ==
    /\ At("settle")
    /\ \/ RefreshContext
       \/ /\ CompletedMark
          /\ \/ Superseded(J) /\ Goto("burstRecord") /\ UNCHANGED job
             \/ /\ ~Superseded(J)
                /\ \/ Skip("policy") /\ UNCHANGED job     \* hold, stale_backlog
                   \/ w.draft = NoText /\ SettleNoReply
                   \/ /\ w.draft # NoText
                      /\ Goto("record") \/ GiveUpAsUnknown(TRUE)
                      /\ UNCHANGED job
    /\ UNCHANGED <<tombstone, supersededBy, journalVars, ctx, roomVars,
                   clockVars, sendVars, failures>>

(* record_context_decision(scheduled): the acknowledgement may be lost.    *)
RecordScheduled ==
    /\ At("record")
    /\ LET audit == [status |-> "scheduled", reason |-> "none",
                     reply |-> w.draft]
       IN \/ /\ CanApply(ctx[J].status, "scheduled")
             /\ ctx' = Recorded(J, audit)
             /\ Goto("schedule")
          \/ /\ ctx' \in {ctx, Recorded(J, audit)}
             /\ GiveUpAsUnknown(TRUE)
    /\ UNCHANGED <<job, tombstone, supersededBy, journalVars, roomVars,
                   clockVars, sendVars, failures>>

ScheduleReply ==
    /\ At("schedule")
    /\ Settle([ScheduledRow(R, FALSE) EXCEPT !.reason = "other",
                                             !.reply = w.draft,
                                             !.mark = w.mark],
              Between("recover"))
    /\ UNCHANGED <<tombstone, supersededBy, journalVars, ctx, roomVars,
                   clockVars, sendVars, failures>>

-----------------------------------------------------------------------------
(* The worker: a scheduled reply is checked and sent.                      *)

(* The scheduled branch of process_job up to the read-only probe.          *)
CheckScheduled ==
    /\ At("scheduled")
    /\ \/ J \in expired /\ Skip("policy") /\ UNCHANGED job
       \/ /\ J \notin expired
          /\ \/ RefreshContext
             \/ /\ WatermarkKnown(J) /\ observed = R.mark
                /\ \/ /\ SelfReplied(J)            \* already in the room
                      /\ Put(J, SentRow(R)) /\ Done
                   \/ Skip("other") /\ UNCHANGED job \* the draft breaks policy
                   \/ DeferScheduled               \* the probe is not ready
                   \/ Goto("presend") /\ UNCHANGED job
    /\ UNCHANGED <<tombstone, supersededBy, journalVars, ctx, roomVars,
                   clockVars, sendVars, failures>>

(* The rechecks after the probe, then send_reply up to its journal entry:  *)
(* the readiness fences, and _pre_mutation_send_hold.                      *)
CheckBeforeSend ==
    /\ At("presend")
    /\ \/ RefreshContext
       \/ Superseded(J) /\ Goto("burstRecord") /\ UNCHANGED job
       \/ DeferScheduled                           \* a fence is not ready
       \/ \E b \in BOOLEAN : Hold("other", b) /\ UNCHANGED job
       \/ J \in expired /\ Hold("policy", FALSE) /\ UNCHANGED job
       \/ /\ J \notin expired
          /\ ~Superseded(J)
          /\ WatermarkKnown(J) /\ observed = R.mark
          /\ ~AlreadyCommented(J)
          /\ Goto("journal") /\ UNCHANGED job
    /\ UNCHANGED <<tombstone, supersededBy, journalVars, ctx, roomVars,
                   clockVars, sendVars, failures>>

(* pre_send ready, journalled in a commit of its own.                      *)
JournalReady ==
    /\ At("journal")
    /\ axEvidence' = axEvidence \cup {J}
    /\ Goto("authorize")
    /\ UNCHANGED <<job, tombstone, supersededBy, localConfirmed, ctx, roomVars,
                   clockVars, sendVars, failures>>

(* The last fence: `sending' and ax_mutation_authorized are committed      *)
(* together, unless a successor has withdrawn the job; then local-send is  *)
(* started.                                                                *)
Authorize ==
    /\ At("authorize")
    /\ Settle([R EXCEPT !.status = "sending", !.reconcile = FALSE],
              [w EXCEPT !.pc = "await"])
    /\ IF Superseded(J)
         THEN UNCHANGED <<axEvidence, child>>
         ELSE /\ axEvidence' = axEvidence \cup {J}
              /\ child' = [child EXCEPT ![J] = [phase |-> "running",
                                                text |-> R.reply]]
    /\ UNCHANGED <<tombstone, supersededBy, localConfirmed, ctx, roomVars,
                   clockVars, posts, failures>>

(* Return is posted: the reply is in the room.  A send nobody waits for is  *)
(* over with that.                                                         *)
Awaited(e) == At("await") /\ J = e

ChildPosts(e) ==
    /\ child[e].phase = "running"
    /\ child' = [child EXCEPT ![e] = IF Awaited(e)
                                       THEN [@ EXCEPT !.phase = "posted"]
                                       ELSE NoChild]
    /\ posts' = [posts EXCEPT ![e] = @ + 1]
    /\ room' = Append(room, [event |-> e, text |-> child[e].text])
    /\ UNCHANGED <<job, tombstone, supersededBy, journalVars, ctx, observed,
                   clockVars, failures, w>>

(* Or it ends without having posted.                                       *)
ChildEnds(e) ==
    /\ child[e].phase # "none"
    /\ ~Awaited(e)
    /\ child' = [child EXCEPT ![e] = NoChild]
    /\ UNCHANGED <<job, tombstone, supersededBy, journalVars, ctx, roomVars,
                   clockVars, posts, failures, w>>

(* What local-send reports: nothing was touched (the row returns to        *)
(* processing); the reply was seen in the local database; or anything      *)
(* else, a timeout included, after which Return may still take effect.     *)
LocalSendReturns ==
    /\ At("await")
    /\ \/ /\ child[J].phase = "running"
          /\ Put(J, Processing(R))
          /\ Goto("unavailable")
          /\ child' = [child EXCEPT ![J] = NoChild]
       \/ /\ \/ Confirmed(J) /\ Goto("confirmed")
             \/ GiveUpAsUnknown(FALSE)
          /\ child' = [child EXCEPT ![J] = IF @.phase = "posted" THEN NoChild
                                                                 ELSE @]
          /\ UNCHANGED job
    /\ UNCHANGED <<tombstone, supersededBy, journalVars, ctx, roomVars,
                   clockVars, posts, failures>>

(* process_job after a send that provably never started.                   *)
SendUnavailable ==
    /\ At("unavailable")
    /\ \/ Superseded(J) /\ Goto("burstRecord") /\ UNCHANGED job
       \/ ~Superseded(J) /\ DeferScheduled
    /\ UNCHANGED <<tombstone, supersededBy, journalVars, ctx, roomVars,
                   clockVars, sendVars, failures>>

(* local_db_confirmed; if it cannot be journalled the row is fenced.       *)
JournalConfirmed ==
    /\ At("confirmed")
    /\ \/ /\ localConfirmed' = localConfirmed \cup {J}
          /\ Goto("ctxSending")
          /\ UNCHANGED job
       \/ /\ Put(J, UnknownRow(R, NoPlan))
          /\ Done
          /\ UNCHANGED localConfirmed
    /\ UNCHANGED <<tombstone, supersededBy, axEvidence, ctx, roomVars,
                   clockVars, sendVars, failures>>

(* update_context_decision(sending)                                        *)
ContextSending ==
    /\ At("ctxSending")
    /\ \/ /\ Movable(J, "sending")
          /\ ctx' = Moved(J, "sending")
          /\ Goto("ctxSent")
       \/ /\ ctx' \in {ctx, Moved(J, "sending")}
          /\ Goto("lost")
    /\ UNCHANGED <<job, tombstone, supersededBy, journalVars, roomVars,
                   clockVars, sendVars, failures>>

(* update_context_decision(sent): with its acknowledgement, or by reading  *)
(* the row again, the job is sent; else it is lost.                        *)
ContextSent ==
    /\ At("ctxSent")
    /\ \/ /\ Movable(J, "sent")
          /\ ctx' = [Moved(J, "sent") EXCEPT ![J].reply = R.reply]
          /\ Goto("finish") \/ Goto("lost")
       \/ /\ UNCHANGED ctx
          /\ Goto("lost")
    /\ UNCHANGED <<job, tombstone, supersededBy, journalVars, roomVars,
                   clockVars, sendVars, failures>>

FinishSent ==
    /\ At("finish")
    /\ Put(J, SentRow(R))
    /\ Done
    /\ UNCHANGED <<tombstone, supersededBy, journalVars, ctx, roomVars,
                   clockVars, sendVars, failures>>

(* update_job(delivery_unknown) after a send whose audit is uncertain.     *)
FinishLost ==
    /\ At("lost")
    /\ Put(J, UnknownRow(R, NoPlan))
    /\ Done
    /\ UNCHANGED <<tombstone, supersededBy, journalVars, ctx, roomVars,
                   clockVars, sendVars, failures>>

-----------------------------------------------------------------------------
(* The worker: writing a disposition.                                      *)

(* record_or_confirm_context_skip: the audit row is written, then read     *)
(* back; the read, not the acknowledgement, is the proof.                  *)
RecordSkip(r, proven, unproven) ==
    LET audit == [status |-> "skipped", reason |-> r, reply |-> NoText]
    IN /\ ctx' \in {ctx, Recorded(J, audit)}
       /\ \/ ctx'[J].status = "skipped" /\ ctx'[J].reason = r /\ Goto(proven)
          \/ Goto(unproven)

(* durable_policy_skip                                                     *)
SkipRecord ==
    /\ At("skipRecord")
    /\ RecordSkip(w.plan.reason, "skipCommit", "unknown")
    /\ UNCHANGED <<job, tombstone, supersededBy, journalVars, roomVars,
                   clockVars, sendVars, failures>>

SkipCommit ==
    /\ At("skipCommit")
    /\ Settle(SkippedRow(R, w.plan.reason), Between("recover"))
    /\ UNCHANGED <<tombstone, supersededBy, journalVars, ctx, roomVars,
                   clockVars, sendVars, failures>>

(* finish_delivery_unknown: the row, then the audit row if it can be moved. *)
FinishUnknown ==
    /\ At("unknown")
    /\ IF Superseded(J) /\ R.status = "processing"
         THEN Put(J, BurstRow(R, TRUE)) /\ Goto("burstRecord")
         ELSE /\ Put(J, [UnknownRow(R, w.plan)
                           EXCEPT !.mark = IF w.mark # 0 THEN w.mark ELSE @])
              /\ Goto("unknownCtx")
    /\ UNCHANGED <<tombstone, supersededBy, journalVars, ctx, roomVars,
                   clockVars, sendVars, failures>>

UnknownContext ==
    /\ At("unknownCtx")
    /\ ctx' \in {ctx, Moved(J, "delivery_unknown")}
    /\ Done
    /\ UNCHANGED <<job, tombstone, supersededBy, journalVars, roomVars,
                   clockVars, sendVars, failures>>

(* finish_burst_superseded                                                 *)
BurstRecord ==
    /\ At("burstRecord")
    /\ RecordSkip("superseded", "burstSkip", "burstDefer")
    /\ UNCHANGED <<job, tombstone, supersededBy, journalVars, roomVars,
                   clockVars, sendVars, failures>>

BurstCommit ==
    /\ \/ At("burstSkip") /\ Put(J, SkippedRow(R, "superseded"))
       \/ At("burstDefer") /\ Put(J, BurstRow(R, FALSE))
    /\ Done
    /\ UNCHANGED <<tombstone, supersededBy, journalVars, ctx, roomVars,
                   clockVars, sendVars, failures>>

-----------------------------------------------------------------------------
(* The worker: recovery, give-up, fence, retention.                        *)

(* _terminal_queue_fields: a terminal audit row that proves a disposition. *)
ProvesSkip(e) ==
    /\ ctx[e].status = "skipped"
    /\ \/ job[e].status = "processing"
       \/ /\ job[e].status = "delivery_unknown"
          /\ job[e].decision = "skip"
          /\ job[e].reason = ctx[e].reason
          /\ job[e].reply = NoText

ProvesSent(e) ==
    /\ ctx[e].status = "sent"
    /\ job[e].status \in {"sending", "delivery_unknown"}
    /\ job[e].reply # NoText
    /\ ctx[e].reply = job[e].reply

UsedUpEarly(row) == row.attempts >= MaxAttempts - 1

UsedUp(row) == row.attempts >= MaxAttempts

ReaskedUnexplained(e) ==
    e \in Questions /\ job[e].reply = NoText /\ job[e].reason = "none"

(* A question whose reply is gone is analysed again, whatever was noted.   *)
Reasked(e) == e \in Questions /\ job[e].reply = NoText

(* leftover_pre_send_unknown_skip_fields, for a row without an audit proof; *)
(* `seen' says that local-read found the reply in the room, `bound' that    *)
(* _rebind_formed_reply_to_live_owner knows the worker's owner and epoch.  *)
Leftover(e, seen, bound) ==
    LET row == job[e]
        confirmed == e \in localConfirmed
    IN CASE Reasked(e) -> PendingRow(row, "none", TRUE)
         [] row.reply # NoText /\ (seen \/ (AxMutated(e) /\ confirmed)) ->
              SentRow(row)
         [] row.reply # NoText /\ ~seen /\ ~(AxMutated(e) /\ confirmed) ->
              IF UsedUp(row) THEN SkippedRow(row, "policy")
              ELSE IF AxMutated(e) \/ ~bound THEN row
              ELSE ScheduledRow(row, FALSE)
         [] OTHER ->
              IF AxMutated(e) /\ confirmed THEN row
              ELSE CASE row.reason \in {"usage", "policy", "superseded"} ->
                          SkippedRow(row, row.reason)
                     [] row.reason \in {"none", "retry", "busy"} ->
                          IF UsedUp(row) THEN SkippedRow(row, "policy")
                          ELSE PendingRow(row, row.reason, TRUE)
                     [] OTHER -> row

RecoveredRow(e, seen, bound) ==
    IF ProvesSkip(e) THEN SkippedRow(job[e], ctx[e].reason)
    ELSE IF ProvesSent(e) THEN SentRow(job[e])
    ELSE Leftover(e, seen, bound)

(* recover_stale_jobs, first part: every delivery_unknown row.             *)
Unknown == {e \in Events : job[e].status = "delivery_unknown"}

RecoverWith(seen, bound) ==
    /\ At("recover")
    /\ job' = [e \in Events |->
                 IF e \in Unknown THEN RecoveredRow(e, e \in seen, e \in bound)
                 ELSE job[e]]
    /\ Goto(IF stale = {} THEN "giveup" ELSE "stale")
    /\ UNCHANGED <<tombstone, supersededBy, journalVars, ctx, roomVars,
                   clockVars, sendVars, failures>>

RecoverUnknown ==
    \E seen \in SUBSET {e \in Unknown : SelfReplied(e)}, bound \in SUBSET Unknown :
        RecoverWith(seen, bound)

ReplayableInFlight(e) ==
    job[e].status \in {"processing", "sending"} /\ ~ContextTerminal(ctx[e].status)

(* recover_stale_jobs, second part: rows a dead worker left behind.        *)
Replayable(e) == job[e].status = "processing" /\ ~ContextTerminal(ctx[e].status)

StaleRow(e) ==
    LET row == job[e]
    IN CASE row.status = "processing" /\ Superseded(e) -> BurstRow(row, TRUE)
         [] ~(row.status = "processing" /\ Superseded(e)) /\ ProvesSkip(e) ->
              SkippedRow(row, ctx[e].reason)
         [] ProvesSent(e) -> SentRow(row)
         [] OTHER ->
              IF Replayable(e)
                THEN [row EXCEPT !.status = IF /\ row.decision = "reply"
                                               /\ row.reply # NoText
                                              THEN "scheduled" ELSE "pending"]
                ELSE [row EXCEPT !.status = "delivery_unknown",
                                 !.reason = "reconcile", !.reconcile = TRUE]

RecoverStale ==
    /\ At("stale")
    /\ job' = [e \in Events |-> IF e \in stale THEN StaleRow(e) ELSE job[e]]
    /\ LET fenced == {e \in stale : /\ StaleRow(e).status = "delivery_unknown"
                                    /\ ~ContextTerminal(ctx[e].status)}
       IN \E acked \in SUBSET fenced :
            ctx' = [e \in Events |-> IF e \in acked
                                       THEN Moved(e, "delivery_unknown")[e]
                                       ELSE ctx[e]]
    /\ stale' = {}
    /\ Goto("giveup")
    /\ UNCHANGED <<tombstone, supersededBy, journalVars, roomVars, expired,
                   sendVars, failures>>

ExhaustedUntouched(e) ==
    /\ job[e].status = "delivery_unknown"
    /\ job[e].reason = "reconcile" \/ job[e].reconcile
    /\ job[e].reply = NoText
    /\ job[e].attempts >= 1
    /\ e \notin Questions /\ ~AxMutated(e)

(* _auto_reconcile_give_up: rows whose reply is gone.                      *)
Exhausted(e) ==
    /\ job[e].status = "delivery_unknown"
    /\ job[e].reason = "reconcile" \/ job[e].reconcile
    /\ job[e].reply = NoText
    /\ job[e].attempts >= 1
    /\ e \notin Questions

(* _queue_reconciliation_blockers: an unresolved row stops all claims.     *)
BlockingRow(e, row) ==
    /\ row.status = "delivery_unknown"
    /\ e \notin localConfirmed
    /\ \/ row.reply = NoText /\ row.reason \in {"other", "busy"}
       \/ row.reply # NoText /\ AxMutated(e)

Blocking(e) == BlockingRow(e, job[e])

(* `old': the rows that have reached RECONCILE_GIVE_UP_SECONDS.  The fence  *)
(* is read next; nobody but the worker changes the rows it reads.          *)
GiveUpOn(old) ==
    /\ At("giveup")
    /\ job' = [e \in Events |->
                 IF e \in old
                   THEN [job[e] EXCEPT !.status = "skipped",
                                       !.reason = "reconcile",
                                       !.reconcile = FALSE, !.due = FALSE]
                   ELSE job[e]]
    /\ Goto(IF \E e \in Events : BlockingRow(e, job'[e]) THEN "recover"
                                                        ELSE "claim")
    /\ UNCHANGED <<tombstone, supersededBy, journalVars, ctx, roomVars,
                   clockVars, sendVars, failures>>

GiveUp == \E old \in SUBSET {e \in Events : Exhausted(e)} : GiveUpOn(old)

(* archive_terminal_jobs                                                   *)
Archive ==
    /\ At("claim")
    /\ \E old \in (SUBSET {e \in Events : job[e].status \in {"sent", "skipped"}})
                    \ {{}} :
         /\ tombstone' = tombstone \cup old
         /\ supersededBy' = [e \in Events |-> IF e \in old THEN NoEvent
                                              ELSE supersededBy[e]]
         /\ job' = [e \in Events |-> IF e \in old THEN NoRow ELSE job[e]]
    /\ UNCHANGED <<journalVars, ctx, roomVars, clockVars, sendVars, failures, w>>

(* Nothing to claim: the next round starts with recovery when it is due.   *)
Idle ==
    /\ At("claim")
    /\ \A e \in Events : ~Claimable(e)
    /\ \E e \in Events : job[e].status \in {"delivery_unknown"} \/ e \in stale
    /\ Goto("recover")
    /\ UNCHANGED <<job, tombstone, supersededBy, journalVars, ctx, roomVars,
                   clockVars, sendVars, failures>>

(* A transient "database is locked": the worker rolls back, drops what it  *)
(* held in memory and goes on with its loop, at recovery or, between two   *)
(* recoveries, at the next claim.  Recovery itself only skips the pass; the *)
(* steps on the context store catch their errors.                          *)
Stall ==
    /\ failures.stalls < MaxStalls
    /\ w.pc \in Steps \ {"down", "claim", "record", "skipRecord", "burstRecord",
                        "ctxSending", "ctxSent", "unknownCtx"}
    /\ failures' = [failures EXCEPT !.stalls = @ + 1]
    /\ IF At("recover") \/ At("stale")
         THEN w' = Between("giveup")
         ELSE \E p \in {"recover", "claim"} : w' = Between(p)
    /\ UNCHANGED <<job, tombstone, supersededBy, journalVars, ctx, roomVars,
                   clockVars, sendVars>>

(* The worker dies, alone or with its supervisor: what it had committed    *)
(* stays, and its child is on its own.                                     *)
Crash ==
    /\ failures.crashes < MaxCrashes
    /\ ~At("down")
    /\ failures' = [failures EXCEPT !.crashes = @ + 1]
    /\ w' = Between("down")
    /\ UNCHANGED <<job, tombstone, supersededBy, journalVars, ctx, roomVars,
                   clockVars, sendVars>>

(* leftover_queue_has_unknown_send: a start of the room is refused while a *)
(* send may be unresolved.                                                 *)
Unresolved(e) == \/ job[e].status = "sending"
                 \/ /\ job[e].status = "delivery_unknown"
                    /\ AxMutated(e) /\ e \notin localConfirmed

Restart ==
    /\ At("down")
    /\ \A e \in Events : ~Unresolved(e)
    /\ Done
    /\ UNCHANGED <<job, tombstone, supersededBy, journalVars, ctx, roomVars,
                   clockVars, sendVars, failures>>

WorkerStep ==
    \/ \E e \in Events : Claim(e)
    \/ CheckTurn \/ ReadContext \/ Analyze \/ SettleAnalysis
    \/ RecordScheduled \/ ScheduleReply
    \/ CheckScheduled \/ CheckBeforeSend \/ JournalReady \/ Authorize
    \/ LocalSendReturns \/ SendUnavailable \/ JournalConfirmed
    \/ ContextSending \/ ContextSent \/ FinishSent \/ FinishLost
    \/ SkipRecord \/ SkipCommit \/ FinishUnknown \/ UnknownContext
    \/ BurstRecord \/ BurstCommit
    \/ RecoverUnknown \/ RecoverStale \/ GiveUp \/ Idle \/ Restart

Next ==
    \/ \E e \in Events : Arrive(e) \/ Enqueue(e) \/ BecomeDue(e) \/ Expire(e)
                         \/ Age(e) \/ JournalCap(e)
                         \/ ChildPosts(e) \/ ChildEnds(e)
    \/ OtherRow \/ Observe \/ Archive \/ Crash \/ Stall
    \/ WorkerStep

Spec == Init /\ [][Next]_vars

(* What the code's scheduling justifies: worker_main loops for ever and the *)
(* session monitor relaunches a dead host; deadlines, ages and due times pass;   *)
(* local-send runs under a timeout; a row old enough is given up on; and    *)
(* the supervisor, which starts the worker, gives it the owner and epoch    *)
(* that a formed reply is bound to again.  That a probe succeeds, that the *)
(* room is quiet or that the store answers is never assumed.               *)
Rebinds(e) ==
    \E seen \in SUBSET {f \in Unknown : SelfReplied(f)}, bound \in SUBSET Unknown :
        e \in bound /\ RecoverWith(seen, bound)

Fairness ==
    /\ WF_vars(WorkerStep)
    /\ \A e \in Events :
         /\ WF_vars(BecomeDue(e)) /\ WF_vars(Expire(e))
         /\ WF_vars(Age(e)) /\ WF_vars(ChildEnds(e))
         /\ SF_vars(\E old \in SUBSET {f \in Events : Exhausted(f)} :
                       e \in old /\ GiveUpOn(old))
         /\ SF_vars(Rebinds(e))

FairSpec == Spec /\ Fairness

(* With a context store that lets itself be read again and again.          *)
StoreFairSpec ==
    /\ FairSpec
    /\ SF_vars(SkipRecord /\ w'.pc = "skipCommit")
    /\ SF_vars(BurstRecord /\ w'.pc = "burstSkip")

-----------------------------------------------------------------------------
(* Properties.                                                             *)

(* The values the state takes.                                             *)
TypeOK ==
    /\ job \in [Events -> Row]
    /\ tombstone \subseteq Events
    /\ supersededBy \in [Events -> Events \cup {NoEvent}]
    /\ axEvidence \subseteq Events
    /\ localConfirmed \subseteq Events
    /\ ctx \in [Events -> ContextRow]
    /\ room \in Seq(RoomRow)
    /\ observed \in Nat
    /\ expired \subseteq Events
    /\ stale \subseteq Events
    /\ child \in [Events -> Child]
    /\ posts \in [Events -> Nat]
    /\ failures \in [crashes : 0..MaxCrashes, stalls : 0..MaxStalls,
                     evictions : 0..MaxEvictions]
    /\ w \in Worker

(* Whatever crashes, lost acknowledgements, recoveries, retries and        *)
(* duplicate enqueues happen, a reply to one message reaches the room at   *)
(* most once.                                                              *)
AtMostOnePost == \A e \in Events : posts[e] <= 1

(* A message whose successor in the burst withdrew it is never answered,   *)
(* and no send of it is under way: the supersession link of enqueue_event  *)
(* and the compare-and-set of send_reply exclude each other.               *)
WithdrawnNeverPosted ==
    \A e \in Events : Superseded(e) => posts[e] = 0 /\ child[e].phase = "none"

(* A row marked sent is backed by the room: its exact text stands there    *)
(* after the message it answers.                                           *)
SentIsInRoom ==
    \A e \in Events : job[e].status = "sent" => SelfReplied(e)

(* A reply that reached the room is recorded as skipped only after the     *)
(* attempts are used up: recovery never takes a missing confirmation of a  *)
(* fresh send for a proof that nothing was sent.                           *)
SkippedPostIsExhausted ==
    \A e \in Events : job[e].status = "skipped" /\ posts[e] > 0
                        => job[e].attempts = MaxAttempts

(* The audit row says sent only of a message whose recorded reply stands in *)
(* the room after it, even when the job has long been archived.            *)
AuditSentIsInRoom ==
    \A e \in Events :
        ctx[e].status = "sent" =>
            \E i \in DOMAIN room : /\ room[i].text = ctx[e].reply
                                   /\ ctx[e].reply # NoText
                                   /\ i > Position(e)

(* A job that can still be claimed, or enqueued, has neither been answered *)
(* nor a send of it under way: recovery reopens no delivery that may have  *)
(* happened.                                                               *)
Open(e) == \/ job[e].status \in {"pending", "processing", "scheduled",
                                  "projection_pending"}
           \/ Enqueueable(e)

OpenIsUnsent ==
    \A e \in Events : Open(e) => posts[e] = 0 /\ child[e].phase = "none"

(* A closed job stays closed: sent and skipped rows change only by being   *)
(* archived, and an archived message is never enqueued again.              *)
ClosedStaysClosed ==
    [][\A e \in Events :
         /\ job[e].status \in {"sent", "skipped"}
              => job'[e] = job[e] \/ (job'[e] = NoRow /\ e \in tombstone')
         /\ e \in tombstone => job'[e] = NoRow]_vars

(* A question is closed unanswered only by an audited decision or when its  *)
(* attempts are used up: neither recovery nor give-up drops one silently.  *)
QuestionNotDropped ==
    \A e \in Questions : job[e].status = "skipped"
        => ctx[e].status = "skipped" \/ job[e].attempts = MaxAttempts

(* Every message that was enqueued is answered or closed, unless the queue  *)
(* comes to stand behind a row only a person can resolve: a send that may   *)
(* have happened and that nothing confirms.                                *)
Closed(e) == job[e].status \in {"sent", "skipped"} \/ e \in tombstone

Fenced == \E e \in Events : Blocking(e) \/ (At("down") /\ Unresolved(e))

EventuallyClosed ==
    <>[]Fenced \/ \A e \in Events : job[e].status # "absent" ~> Closed(e)

-----------------------------------------------------------------------------
(* The promise of SendLicence.                                             *)

(* Rows a later step may still send: those that can be claimed again, and  *)
(* uncertain rows that recovery reopens because no send of them began.     *)
Reopenable(e) == /\ job[e].status = "delivery_unknown"
                 /\ ~AxMutated(e) \/ job[e].reply = NoText

LicenceOf(e) ==
    IF posts[e] > 0 THEN "answered"
    ELSE IF child[e].phase = "running" THEN "live"
    ELSE IF ~(Open(e) \/ Reopenable(e)) THEN "closed"
    ELSE IF Superseded(e) THEN "withdrawn" ELSE "open"

Licence == INSTANCE SendLicence WITH licence <- [e \in Events |-> LicenceOf(e)]

(* The queue implements SendLicence: through every crash, lost             *)
(* acknowledgement, recovery and archive, no message is licensed twice,    *)
(* reopened after it was closed, or sent after it was withdrawn.           *)
ImplementsLicence == Licence!Spec

-----------------------------------------------------------------------------
(* Statements of the repository that the code does not keep.               *)

(* context/mod.rs: "`skipped` jobs never reached the composer".            *)
SkippedNeverComposed ==
    \A e \in Events : job[e].status = "skipped" => posts[e] = 0

(* record_or_confirm_context_skip: "Accept a skipped audit only after its  *)
(* exact no-send row is durable"; a skipped audit row stands for a message *)
(* nobody answered.                                                        *)
SkippedAuditIsNoSend ==
    \A e \in Events : ctx[e].status = "skipped" => posts[e] = 0

(* process_job: "The operator allows at most one reply per inbound burst"; *)
(* no reply to a message follows a reply that went out when the message    *)
(* already stood in the room.                                              *)
OneReplyPerBurst ==
    \A i, j \in DOMAIN room :
        /\ i < j
        /\ room[i].text # NoText /\ room[j].text # NoText
        /\ room[i].event # room[j].event
        => Position(room[j].event) > i

(* worker_main, of the rows that fence the queue: "These blocker states    *)
(* are excluded from claim_job.  Keep the worker fenced"; no job is claimed *)
(* while one stands.                                                       *)
FencedNeverClaims ==
    [][\A e \in Events : Blocking(e) => ~(At("claim") /\ w'.pc = "claimed")]_vars

(* _auto_reconcile_give_up: a row whose reply is gone "must not deadlock    *)
(* the queue forever"; with a readable store a question is closed as well. *)
QuestionIsClosed ==
    <>[]Fenced \/ \A e \in Questions : job[e].status # "absent" ~> Closed(e)

(* process_job: a supersession is a local, no-send projection: "Complete   *)
(* it even when a later owner/epoch or privacy gate no longer authorizes   *)
(* delivery".                                                              *)
WithdrawnIsClosed == \A e \in Events : Superseded(e) ~> Closed(e)

=============================================================================
