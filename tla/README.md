# TLA+ models of the KakaoTalk auto-reply pipeline

This directory holds formal models of the part of this repository that decides
and delivers automatic messages, the TLC configurations that check them, and
proofs of their main results. Everything is translated from the code; a path
such as `scripts/auto-reply-worker.py:3365` (short: worker:3365) names the
lines. `PROJECT.json` maps every definition to its lines, lists the hazards each
property is about, and gives for each property a change of the code that breaks it.

## 1. Inventory

The program answers KakaoTalk messages on a Mac. A Rust crate (`src/`) holds the
command line, the context store, the drivers of the KakaoTalk window and a library
of further channels; Python scripts (`scripts/`) run the pipeline; two user
interfaces (`desktop/`, `macos/`) sit on top.

| Component | State it keeps | Operations | Hard behaviour | Module |
| --- | --- | --- | --- | --- |
| Reply queue: `scripts/auto-reply-worker.py` | SQLite per room: `reply_jobs`, `reply_job_supersessions`, `reply_job_tombstones`, `pipeline_transitions` | enqueue, claim, analyse, schedule, send, dispose, recover, give up, archive | crash between commits, a child that outlives its parent, two stores without a common transaction | `ReplyQueue` |
| Transition journal: `scripts/auto_reply_transition_journal.py` | attempt counter, evidence rows (4096 at most) | triggers, validation, migration | row cap | `ReplyQueue` |
| Context store: `src/context/mod.rs` | `reply_decisions`, conversation records | record and update a decision | lost acknowledgements, terminal rows | `ReplyQueue` |
| Model circuit (worker:1000-2050) | one row per model for all rooms: lease, failure count, reset time | acquire, close, probe, re-arm | lease expiry, races of rooms | `ModelCircuit` |
| `local-send`: `src/ax_send.rs` | the message field, shared with a person | inspect, write, verify, press, escalate | edits between a look and an act, presses that take effect late or never | `Composer` |
| Host, supervisor, watcher: `src/main.rs`, `scripts/auto-reply-supervisor.py`, `scripts/auto-reply-db-watch.py` | enrollment, locks, published status, cursor with its candidate | start, attest, poll, publish, acknowledge, fence, stop | a run that starts while the one before is still ending; deaths between two files | `Session` |
| On-device model server: `scripts/auto_reply_ondevice.py`, `local_mlx_gateway.py`, `mlx_serve_lifecycle.py`, `auto-reply-menubar.py`; the swap in `desktop/src-tauri/src/python_bridge.rs` | ownership record, residency, selection, leases, cancel markers | launch, attest, stop, admit, swap, restore, commit, cancel | operations whose answer is lost, deaths, cancellation | `ModelServer`, `ModelSwap` |
| Send guard, breaker, live sample: `src/safety`, `src/breaker`, `src/live_sample` | trips, observations, samples, pacing | authorize, observe, trip, release, count | a trip behind a ticket, a receipt that is late or partly stored | `SendGate` |
| Relay: `src/relay` | ledger, cursor, streaks | tick, send, settle | retries, restarts, lost writes | `Relay` |
| Forward and collector: `src/forward`, `src/collector` | ledger, temporary data, deadline | collect by two paths, deliver, record | late answers, a capped ledger | `LinkDeliveries`, `LinkForward` |
| GeekNews: `src/geeknews` | cursor of slots and seen ids | plan, post, store | unconfirmed posts, overlapping posters | `NewsPosts`, `GeekNews` |
| Dataset refresh, improver, model configuration | staged versions | stage, accept, switch | - | - |
| User interfaces, LOCO and REST clients, profile and memory analyses, Jarvis, diagnostics | - | - | little or no shared state | - |

How they interact. The watcher polls the KakaoTalk database and calls the worker's
hook for every new message; the hook inserts a job. One worker per room claims jobs,
reads the context store, calls a model under the model circuit (and, on the device,
under the request lease of the model server), schedules a reply, and hands it to
`local-send`, which writes it into the window's message field. The host starts a
supervisor, which starts watcher and worker; what a run may read and write is decided
by files the run before it left. The send guard, with its breaker and collector of
samples, stands before the channels of the Rust library (relay, forwarding, news). The
stores have a transaction each and none in common; every process may die between two.

What makes a component correct:

- *Reply queue*: at most one post per message; nothing withdrawn or closed is sent;
  what is recorded as sent stands in the room; every job is closed, or the queue
  visibly waits for a person.
- *Model circuit*: one running call per model, a cooldown no one cuts short, no row of
  another caller changed by a late finish, parked jobs not past their window.
- *Composer*: a person's draft is not touched, one post per invocation, "unavailable"
  means untouched.
- *Session*: no message passed over between runs, one worker of a room, a clean stop
  that is clean, an owner that never goes back.
- *Model server*: the server that listens never has two models loaded, no call sees its
  model go, a selected model stays, a cancelled swap selects nothing.
- *Send gate*: nothing passes the breaker after a trip is stored; only a person releases
  it; counted sends are paced and capped.
- *Relay, forward, news*: no complete delivery twice, in order, never stuck; no more
  than one post per slot.

## 2. Plan

Built, in this order: `ReplyQueue` with the abstract `SendLicence`; `ModelCircuit`
with the abstract `ModelLease`;
`SendGate`; `Session` (watcher, supervisor and host in one module: they share four files,
and every question worth asking is about two of them); `Relay`; `LinkForward`;
`GeekNews`; `Composer`; `ModelSwap`. Those that share `MCChannels` keep the state and what
is promised of it apart from the steps: `NewsPosts` from `GeekNews`, `LinkDeliveries` from
`LinkForward`, `ModelServer` from `ModelSwap`.

| Module | Instance for TLC | Proofs |
| --- | --- | --- |
| `ReplyQueue`, `SendLicence` | `MCReplyQueue` | `ReplyQueueProofs` |
| `ModelCircuit`, `ModelLease` | `MCModelCircuit` | `ModelCircuitProofs` |
| `SendGate` | `MCSendGate` | `SendGateProofs` |
| `Session` | itself | `SessionProofs` |
| `Relay` | itself | `RelayProofs` |
| `Composer`, `NewsPosts`, `GeekNews`, `LinkDeliveries`, `LinkForward`, `ModelServer`, `ModelSwap` | `MCChannels` | `ComposerProofs`, `ModelSwapProofs`, `ChannelProofs` |

Compositions: the queue carries the watcher's watermark, the context store, the journal
and the child process of a send; `Session` carries the queue as one state per message and
composes host, supervisor, watcher and worker of all runs; `SendGate` composes guard,
breaker and collector. Left: the worker's proactive (GeekNews) rows, photo batches and the
operator's release in `ReplyQueue`; the improver and the dataset refresh, should they be
wired to a host.

## 3. ReplyQueue

### State

| Variable | Code |
| --- | --- |
| `job` | rows of `reply_jobs`; `"absent"` is no row |
| `tombstone`, `supersededBy` | `reply_job_tombstones`, `reply_job_supersessions` |
| `axEvidence`, `localConfirmed` | journal rows that admit an AX mutation, `local_db_confirmed` rows |
| `ctx` | `reply_decisions` row of the event in the context store |
| `room`, `observed` | the chat, and `last_observed_log_id` of the watcher |
| `expired`, `stale` | clocks: response window with its grace; `updated_at` past `STALE_JOB_TTL_SECONDS` |
| `child` | the `local-send` process of an event |
| `posts` | history: replies of the event that were posted |
| `w` | step, claimed job and in-memory values of the worker |
| `failures` | crashes, locked stores and evictions so far, for the bounds |

### Steps

One action is one commit, or one observation the next commit depends on.

- Environment: `Arrive`, `OtherRow`, `Observe`, `BecomeDue`, `Expire`, `Age`,
  `JournalCap`, `ChildPosts`, `ChildEnds`; the hook: `Enqueue`.
- Worker, one turn: `Claim`, `CheckTurn`, then
  - a pending job: `ReadContext`, `Analyze`, `SettleAnalysis`,
    `RecordScheduled`, `ScheduleReply`;
  - a scheduled job: `CheckScheduled`, `CheckBeforeSend`, `JournalReady`,
    `Authorize`, `LocalSendReturns`, then `SendUnavailable`, or
    `JournalConfirmed`, `ContextSending`, `ContextSent` and `FinishSent` or
    `FinishLost`;
  - dispositions: `SkipRecord`/`SkipCommit`, `FinishUnknown`/`UnknownContext`,
    `BurstRecord`/`BurstCommit`.
- Worker, between jobs: `RecoverUnknown`, `RecoverStale`, `GiveUp` (with the
  fence), `Archive`, `Idle`.
- Failures: `Stall` (a transient "database is locked"), `Crash`, `Restart`
  (behind the gate `leftover_queue_has_unknown_send`).

### Abstractions

- Times are flags that may be set at any moment after their event; a child that
  outlives its parent may post arbitrarily late, which includes all real delays.
- A reason is the class that recovery sorts it into; `category` goes with it.
  The text of a skipped row is never read again and is dropped.
- The attempt counter of the code has no cap (journal:297); the model's stops at
  `MaxAttempts` = `BLANK_UNKNOWN_MAX_ATTEMPTS` = 3, the only value it is compared with, so no
  step tells the two apart; every run uses the real value.
- Recovery binds a formed reply to the owner and epoch of its worker, which may fail
  (worker:3165): then the row stays as it is (`bound` in `RecoveredRow`).
- A row of the class `"busy"` (`model_call_in_flight`) is retried like the other pre-send
  refusals, and fences the queue: it is not on the list of worker:3378.
- Which due row is claimed is open: the preference for a pending row every fifth claim
  (worker:2853) is left out.
- Recovery computes its verdicts without a lock and applies them by
  compare-and-set; only the worker itself changes the rows it reads, so the two
  are one step. Give-up and the fence read are one step for the same reason.
- "Uncertain" outcomes of a compare-and-set cannot occur with one worker.
- `JournalCap` evicts evidence of rows that wait (pending, scheduled, uncertain).
  Rows a step is working on are too young and evidence of closed rows is never
  read. The order between events is left open.
- The analysis-time check for an answered burst, policy checks and probes are
  nondeterministic; operator release and re-arming by the model circuit are
  `BecomeDue`.
- Unexpected exceptions that end `worker_main` are `Crash`.

Not in the module: proactive jobs, photo batches, `DUE_SCHEDULED_BURST_LIMIT`,
the operator's release of a row.

### SendLicence

The abstract promise: each message is open, withdrawn, live (a send under way),
answered or closed; a send is licensed only from open, used at most once, and
handed back only unused. `Licence` maps the queue to it through `LicenceOf`.

## 4. ModelCircuit

The account-wide breaker: one row per model in `model-circuit.sqlite3`, shared by
the workers of all rooms and by the operator's capacity probe, and the turn
(`generate_reply`) that goes through it.

| Variable | Code |
| --- | --- |
| `circuit` | rows of `model_circuit_breaker`; `"closed"` is no row |
| `turn` | a caller's `generate_reply`: its step, `active_model`, `lease_token`, what is left of the generation deadline, the fallback candidates left to try |
| `job` | the room's waiting message: parked class, due time, response window |
| `orphan` | by model: how long a runner process of a dead worker may go on |
| `faults` | late calls, database errors, deaths and probes so far, for the bounds |

One action is one transaction on the rows, or the end of one provider call
together with the transaction it leads to:

- a turn: `Begin`, `Acquire` or one of `RefuseInFlight`, `RefuseCooldown`,
  `RefuseUnreadable`, `HeldEarly`; then `CallAnswers` or `CallFails`; the fallback
  chain `TryCandidate`, `SkipCandidate`, `CandidateFails`, `CandidateAnswers`,
  `Adopt`, `NoWinner`; and `Settle` or `Fail`, which also park or close the message;
- between turns: `Rearm` (a message parked behind another call), `SkipStale`;
- the probe: `ReadRow` (the operator), `StartProbe`, `SettleProbe`;
- the environment: `Arrive`, `Crash`, `GoLate`, `Tick`.

Abstractions. Times are countdowns that `Tick` moves together; a lease token is
the caller it was given to and the model it was given for; what a model receives
and answers is its outcome. A call within its deadline holds `Tick` back; `GoLate`
lets it go on afterwards (a slow body, a suspended machine). Where the rows
cannot be read, the time the caller falls back on is any up to `Lease`. A held turn
either closes the message or parks it again; which is `ReplyQueue`'s matter, as
are claims, supersession and sending. Rooms call only the on-device active model,
so the probe's row is neither active nor in the chain. Not in the module: rows that
fail `_valid_model_circuit_row`, an untrusted runner, changes of the wall clock.

`ModelLease` is what the rows promise: by model a lease that is free, held, used by the
one call of its holder, or abandoned to the call of a holder that died, and the moves
between these. `LeaseOf` maps the rows to it: who holds a lease that has time left, and
the calls under way. Late calls, and the probe's call of the active model, have none.

## 5. Session

The hand-over of one room between runs of the program: host, supervisor, watcher and
worker of every run, and the files between them.

| Variable | Code |
| --- | --- |
| `rows`, `job` | the room's messages; what the queue did with each |
| `lock` | the flocks of the host and of the room's supervisor |
| `enrolled`, `status`, `disk` | `enrollment.json`, `supervisor-status.json`, `db-watch-state.json` |
| `host`, `sup`, `watch`, `worker` | by run: step and memory of each process |
| `faults`, `killed` | deaths so far; runs whose supervisor was killed alone |

A run's number stands for its owner id and epoch. Host: `HostStart`, `Attest` or
`Refuse` (what the files of the run before allow), `Enroll`, `Spawn`, `HostStop`,
`HostKill`, `HostEnd`. Supervisor: `AcquireOwner`, `PublishRunning`, `StartChildren`,
`FenceOnExit`, `StopSupervisor`, `CaptureIntent`, `ReapChildren`, `MarkStoppedClean`,
`PublishStopped`. Watcher: `Load`, `Poll`, `Save` and `Write` (a check and a write without
a lock over both), `PublishCandidate`, `Hook`, `Acknowledge`, `AdvanceCursor`, `Fail`.
Environment: `Arrive`, `Work`, `SignalOrphan`, and deaths of each process.

Abstractions: `Adopted` is `_state` with its validation; the readiness proof is its
freshness only; a poll brings messages one by one; the generation lock is `GenerationFree`,
and only the acknowledgement, which holds it over two writes, has a state of its own. The
context index, media downloads and the dashboard are left out.

## 6. Composer

One automatic send through the message field (`guarded_composer_send_once` and what it
calls), up to the outcome the worker reads. `composer` is the field, `send` the
invocation with `mutation_started`, `allowed` the worker's texts that may be left in the
field. A person types (`HumanTypes`), clears or sends by hand (`HumanClears`) at any
moment; a read may fail, `set_value` may succeed or fail and have been applied or not
(`SetValue`). `Inspect` and `Recheck` are the looks, `Write`, `Reread`, `TypeText` the write,
`Verify` and `BeforeSend` the comparisons, `Press` the button and Return, `Survived`,
`Rewrite`, `Prove` and `Escalate` the one repetition, `GiveUp` every failed attestation and
`Kill` the worker's time limit. The search for the window and the attestations of it are one
failure. `faults` counts what no code can prevent: an edit between a look and the act that
rests on it, or while a press is under way, and a look that sees nothing where a draft is.

A press is an event posted to KakaoTalk (`ax_send.rs:3080`): `Submit` only adds to `presses`,
up to three of them where the button reports an error, is clicked, and Return follows
(`ax_send.rs:891`). `Lands` is the moment one takes effect, on whatever is in the field by
then, at any later step or even during a later invocation; `Lost` is one that has none.
`late` counts posts by presses that landed while no wait for them was running: those the code
cannot exclude, and `OnePostPerSend` allows one more post for each. Typing (`TypeText`) still
takes effect at once, texts are equal or not (the comparison up to white space of
`composer_equivalent` is inside "equal"), and a late press that posts the text of another
invocation is not attributed to that one.

`Free` is `is_permitted_leftover` with both arms: an allowed text, and, when a news digest
(`Digests`) is sent, anything under its headline, which may be a text the person edited
(`Headed`). `DraftKept` does not count that replacement, since it follows from the code whatever
the person does; section 12 lists it.

## 7. ModelServer and ModelSwap

The model server, and calls, launches and swaps around it. `server` has what is loaded and
the operations it was sent: an operation whose answer was lost may take effect later
(`Effect`), when nobody waits for it. `Admit` takes the shared lease of a call, `Acquire`
the exclusive one of a swap; `Gate` verifies what is resident; `Unload`, `Load`, `Probe`
replace it; `Undone`, `Restore`, `Reprobe`, `Retracted` put back what was there; `Persist`,
`Confirm`, `Write` commit the selection, with the last look at the cancel marker; `Again`
is a swap to what is resident already; `Lost` is an operation without a verified answer;
`Kill` the death of the swap. `Invoke`, `Register`, `Cancel` are the bridge of the user
interface.

Launches and stops take no lease and are not serialized (`menubar.py:2583`). `Spawn` starts a
server when the port check finds no listener, or when the reader of the listeners fails
(`mlx_serve_lifecycle.py:502`); a server that was started (`loading`) listens later (`Listen`),
so a second launch, also of the other model, may start another one beside it. `launch` is the
process that started a server: `Attest` (the server listens and is its own), `ReadCatalog`,
`Seed`, or `GiveUp` at any step, with a signal whose errors are dropped. `Stop` signals the
recorded server and `Remove` deletes the record, whatever it holds by then. A signal, a failed
start and a death are all the same to the server: it ends by itself, at any time or never
(`NotStarted`, `ServerEnds`).

`NeverBoth` is therefore about the server that listens, and not about the machine: two servers
with a model each may be in memory at the same time, one ending while the next starts or two
that were launched together, and nothing but the check of free memory before a launch
(`mlx_serve_lifecycle.py:775`) speaks against it. No document claims more. `mixed` marks a server
that began to listen during a swap, and `NeverBoth` excepts it (the server's own limit of
resident models is external code and is not relied on). `doubt` marks a server with an
operation nobody waits for. Not modelled: the choice of engine and of models, the memory
check, downloads, the settings' generation probe, `model-set` (it writes the override without a
check), and the generation of a client that died.

## 8. SendGate

Guard, breaker and collector around a processing: `Detect`, `Admit`, the guard in three
steps, `AskBreaker`, `CheckGrade` and `Authorize` (interval, gate, ticket), or `Fence` from any of
them, `Generate`, `Send` or `SendFails`, and the receipt, `OnCommit`, possibly late, repeated
(`OnCommitAgain`) or with a pacing row that could not be written (`OnCommitFails`). The flow
feeds the breaker (`Alternate`, `HumanSpeaks`); an observation that trips is evaluated and
dated first (`Observe`, which leaves a `verdict`) and stored later (`StoreTrip`) or not at all
(`StoreTripFails`). A person releases a trip (`Release`, in two statements of which the second may
fail); `Restart` loses what was in memory. A result is success or failure, an alternation slow
or not, a jitter none or all. The switches of the safety gate are one fence that may close at
any moment.

A ticket is dated when it is minted, after the breaker was asked, and a trip before it is
stored. Their dates say nothing of which came first, and the model has none:
`passed` is the history of who had passed the breaker when a trip was stored.

## 9. Relay, LinkForward, GeekNews

`Relay` is one pair: `Read` (with the ladder of image sources), per room `Skip`,
`SettleNothing`, `Send` and `RecordComplete` or `RecordShort`, or `NotSent`; then `Settle`.
`ledger` has the streak and the settled mark by room and message, `cursor` is in memory and
`stored` on disk; each store call may fail, with its error dropped as in the code; `Restart`.
A lookup that fails counts as no delivery (`Misread`, `relay/mod.rs:348`): a settled room gets the
message again. A send that failed at some stage may have brought nothing, a part or all of the
message into the room, and so may one that confirmed fewer images (`ArriveUnconfirmed`); only
whole arrivals are counted. An error while the streak is read back, after the bump, counts as
no miss, and the message is tried again (`RecordShort`): a ledger that fails so for ever would
keep the cursor for ever, which `MaxFaults` excludes from `EventuallyBehind`. `lapses` counts the
deliveries the ledger did not get, could not tell of, or was not told.

`LinkForward` is a request: `Forward`, per link `HealthCheck`, `AsideCollect`,
`FallbackCollect`, `CheckDeadline`, `AcquireImages`, per room `AlreadyDelivered`, `NotSent`
or `Send` and `Record`. `req.t` is the clock of the link; `ledger` keeps the newest
deliveries of a room, and one inserted under a clock that was set back is the oldest. A failed
lookup of a known delivery (`forward/mod.rs:913`), a delivery without its confirmation and a
mark that was not written count in `forgotten` (`Missing`, `Forget`). The temporary directory is
only its creation (`NoTempScope`): its deletion may fail with the report dropped
(`collector/mod.rs:215`, `501`), which changes nothing of the rest, so that no property says
"always deleted" (R11.8).

`GeekNews` is the posts of the feed: `Start` (cursor and slot gate), `Fetch`, `Send` or
`SendFails` (the post may have arrived), `Store` or `StoreFails`, by several posters; the feed
shows entries in any order (`Publish`); `mishaps` counts what may post a slot again. A post is the set of its items. `Committed` is the cursor after a post, with its caps.

Masking, rendering and selection of text are data and left out of all three. In this
repository the three, and the guard before them, are called by tests and by each other
only; they are modelled as the library they are.

## 10. Runs

Each run is a distinct question; the small components share one run, `channels`, whose
behaviours are behaviours of one component at a time (they share no state).
`CHECK_DEADLOCK FALSE` everywhere, since every one of these systems may stop: the queue behind
its restart gate, a room whose messages are done, a conversation at its bound.

| Run (configuration) | Instance | Checks |
| --- | --- | --- |
| one (`MCReplyQueueOne`) | one question, two texts, one foreign row, one crash, one stall | `AtMostOnePost`, `SentIsInRoom`, `SkippedPostIsExhausted`, `AuditSentIsInRoom`, `OpenIsUnsent`, `ClosedStaysClosed`, `QuestionNotDropped` |
| live (`MCReplyQueueLive`) | one message, one crash, one stall, one eviction, fairness | `EventuallyClosed` |
| burst (`MCReplyQueueBurst`) | two messages of a burst, one stall | `WithdrawnNeverPosted`, `ImplementsLicence` |
| circuit_rooms (`MCModelCircuitRooms`) | two rooms, an active model and a fallback; one death or one late call | `OneCall`, `NoLeak`, `WaitsInWindow`, `LeaseKept` |
| circuit_probe (`MCModelCircuitProbe`) | one room and the probe; one death, late call or database error | `CooldownKept`, `ImplementsLease` |
| circuit_live (`MCModelCircuitLive`) | one question, hints, jitter, every fault, fairness | `EventuallyDone` |
| session (`MCSession`) | two runs, two messages, one death | `NothingSkipped`, `ReplayIsDrained`, `OneWorker`, `OwnerAdvances` |
| send_gate (`MCSendGate`) | two rooms, two processings of every grade, four ticks | `TicketsPrecedeTrips`, `CountedIsPaced`, `SmokeCapHolds`, `TripKept` |
| relay (`MCRelay`) | two rooms, two messages, one fault, fairness | `DeliveredOnce`, `InOrder`, `EventuallyBehind` |
| channels (`MCChannels`) | three sends of two texts; two posters, three slots and items; two links, rooms and requests; two swaps, one caller, two servers, within `MaxTogether`; two faults (one loss) | `DraftKept`, `OnePostPerSend`, `UnavailableIsUntouched`; `SlotPostedOnce`, `ItemPostedOnce`; `OncePerRoom`, `LedgerIsTrue`; `NeverBoth`, `CallsUndisturbed`, `SelectionIsResident`, `CancelKept` |
| double, owner | smaller instances | one statement of the repository each, refuted: section 12 |

Why the bounds are enough.

- *Queue.* A job is touched by one worker, so one crash and one stall interleave with every
  step of it, and a second only repeats recovery from a state recovery can already reach.
  Two texts tell a redraft from the first draft; one foreign row moves the watermark.
  Interaction between jobs happens through the burst link, the fence and identical texts, for
  which two messages suffice. The two-message run carries constraints that leave to the
  one-message run what needs no second message: passing windows (`NoExpiry`), retention
  (`NoArchive`), skips (`NoHold`), stalls before a send was prepared (`StallAfterReady`), and
  more than the two attempts that analyse and send (`FewAttempts`). `NoSend` and `FirstOnly`
  keep `MCReplyQueueWithdrawn.cfg`, a counterexample search, small.
- *Circuit.* Contention for a row is between a holder and one other caller; a late finisher
  needs a lease that expired and was granted again, which two rooms and one late call give.
  What matters of the times is their order (`Budget` < `Lease`, delays on both sides of the
  window), which the small values keep. `OneFault` allows one fault in a behaviour; symmetry
  is used where callers differ in nothing and only safety is checked. `MaxFailures` = 2 makes
  the cap of the code (16) reachable; `Cap` is met at the second failure.
- *Session.* The files are read by the next run only, so two runs meet every hand-over; two
  messages tell a floor that is too low from one that is too high. By hand, without errors:
  three runs with one message and one death (4.65 million states), two runs with two deaths.
- *Send gate.* A ticket, a trip and a release are the actors; limits of one or two make every
  verdict of the breaker reachable in four ticks. `MemoIsQuiet` keeps the breaker of the memo
  chat idle: what it does there it does to the other room. `InOrder` says that receipts come
  in the order of the sends, which one sender gives; without it `CountedIsPaced` is not
  claimed, since an older receipt overwrites the pacing of a newer one.
- *Relay.* Two rooms tell a pair that is done from one that is half done; the streak limit of
  2 (3 in the code) still has a retry and an end.
- *Channels.* One unlucky edit, lost answer, unconfirmed post or dropped ledger write is
  counted by the property that must allow for it, and a second shows that it is counted
  once. Sizes of two make the caps of cursor and ledger cut something. Two servers meet as
  launches side by side, or one after the other around a swap; `MaxTogether` = 3 allows
  two swaps and a loss beside one server, and beside two servers a swap or a loss; what it
  leaves out the proofs cover. A collecting call takes one unit of time: the browser path may
  fail early or late, and the fallback after a late failure answers too late.

For the proved properties the bounds do not matter.

Fairness. `ReplyQueue`: the worker's loop runs for ever and the session monitor relaunches a
dead host (`WF` of `WorkerStep`); due times, windows and ages pass; `local-send` runs under a
timeout; an exhausted row that stays is given up on (strong, since other steps come between),
and recovery binds a row of its again and again (`Rebinds`): what it binds to is the owner and
epoch in the environment of the worker, which the supervisor sets for every worker it starts
(`scripts/auto-reply-supervisor.py:1560`).
Nothing is assumed of probes, quiet rooms, crashes or acknowledgements. `StoreFairSpec` adds,
for two findings, a context store that is readable again and again. `ModelCircuit`: each
worker goes on, the probe's call ends, time passes; nothing is assumed of what a model
answers. `Relay`: the host calls tick again and again (`WF` of `Step`); nothing is assumed of
deliveries, windows or arrivals. `Session!FairSpec` (processes run on, nobody starts or stops
one) is there for `StopEnds`, which was checked by hand.

What the runs of the queue do not reach. The burst run has neither crash nor retention; runs one
and burst have no eviction, which is where the journal's cap does harm
(`MCReplyQueueEvicted.cfg`); `QuestionNotDropped` says nothing of a question that goes round for
ever (`MCReplyQueueForever.cfg`); that an identical text of another message is never taken for
the confirmation of this one is checked for one message only, and proved for all
(`SentStands`). `MCReplyQueueQuestion.cfg` is not among the runs: it checks
`QuestionNotDropped` with an eviction and passes.

Each property of a passing run has a mutant in `PROJECT.json`: a small change of one mapped
definition that makes TLC report the property violated.

## 11. Proofs

All proofs hold for every value of the constants, from the named assumptions of the modules
(that sets are disjoint, bounds are natural numbers, and, for the circuit, `Budget < Lease`).
Each module has an inductive invariant `IInv` with `Invariance == Spec => []IInv`. Liveness
under fairness, and `ENABLED`, are beyond the prover and stay with TLC.

| Module | Theorem | States |
| --- | --- | --- |
| `ReplyQueueProofs` | `TypeCorrect` | `TypeOK` |
| | `OnePost`, `OpenUnsent`, `WithdrawnUnsent` | `AtMostOnePost`, `OpenIsUnsent`, `WithdrawnNeverPosted`, if `JournalHolds` |
| | `ClosedKept` | `ClosedStaysClosed` |
| | `Refinement` | `ImplementsLicence`, if `JournalHolds` |
| | `SentStands`, `AuditSentStands` | `SentIsInRoom`, `AuditSentIsInRoom` |
| | `QuestionsKept` | `QuestionNotDropped` |
| | `SkippedExhausted` | `SkippedPostIsExhausted`, if `JournalHolds` |
| `ModelCircuitProofs` | `TypeCorrect`, `FailuresCounted` | `TypeOK`, `FailuresKept` |
| | `Serialized`, `AnsweredOnce` | `OneCall`, `OneAnswer` |
| | `LeasesKept`, `CooldownsKept` | `LeaseKept`, `CooldownKept` |
| | `WaitsBounded`, `NothingLeaks` | `WaitsInWindow`, `NoLeak` |
| | `LeaseRefinement` | `ImplementsLease` |
| `SessionProofs` | `WorkersAlone`, `OwnersInOrder` | `OneWorker`, `OwnerAdvances` |
| | `NeverSkipped`, `ReplayDrained` | `NothingSkipped`, `ReplayIsDrained` |
| `SendGateProofs` | `TicketsBeforeTrips`, `TripsKept` | `TicketsPrecedeTrips`, `TripKept` |
| | `SmokeRunsCapped` | `SmokeCapHolds` |
| | `CountedArePaced` | `CountedIsPaced`, if `InOrder` |
| `ComposerProofs` | `DraftsKept`, `PostedOnce`, `UnavailableKept` | `DraftKept`, `OnePostPerSend`, `UnavailableIsUntouched` |
| `ModelSwapProofs` | `NeverBothAlways`, `CallsAlwaysUndisturbed` | `NeverBoth`, `CallsUndisturbed` |
| | `SelectionAlwaysResident`, `CancelAlwaysKept` | `SelectionIsResident`, `CancelKept` |
| `RelayProofs` | `DeliveredAtMostOnce`, `KeptInOrder` | `DeliveredOnce`, `InOrder` |
| `ChannelProofs` | `SlotsPostedOnce`, `ItemsPostedOnce` | `SlotPostedOnce`, `ItemPostedOnce` |
| | `LinksOncePerRoom` | `OncePerRoom` |
| | `LedgerAlwaysTrue` | `LedgerIsTrue` |

**Queue.** `IInv` is `TypeOK /\ WorkerOK /\ StaleOK /\ \A e : SendOK(e)`. The safety properties
are not inductive: a step acts on what the worker remembers, so `WorkerOK` says that the
claimed row has the status the step was written for, and `StaleOK` that no row under recovery
is being worked on. `SendOK` says, message by message, that what may still lead to a send
(open, reopenable, or withdrawn) is unsent with no process that may send it, and that a row
being sent has its journal evidence. That last part needs the evidence to survive;
`MCReplyQueueEvicted.cfg` shows that it does not always, so the theorems about sending assume
`JournalHolds` (`MaxEvictions = 0`); the others do not. What the rows say of the room needs two
more inductive parts (`RoomInvariance`). `RoomInv`: a message stands once in the room, so its
place is the same for ever (`RoomOK`); whatever the worker learnt of its send, from the
child, a look at the room or the journal, is true of the room (`AwaitOK`); a sent row and a
sent audit row have their reply after the message, and a journalled confirmation belongs to a
row whose reply stands there (`AnswerOK`). `SkipInv`: a skip is committed only over an audit row that was read back, and a
skipped row is unsent or has no attempt left.

**Circuit.** `OneCall` is not inductive: that no second call starts follows from the row of
the first being leased, and for how long. `IInv` is `TypeOK`, `TurnOK` for every caller (what a
turn carries at each step), `LeaseOK` (a running call has its name on its model's row, and the
lease outlasts what is left of the call by `Lease - Budget` at least) and `OrphanOK` (the same
of a call whose caller is dead: nobody holds that lease any more, so nobody can give it back
early). The proof shows once, in `CallerSteps`, that every step but `Tick` is the step of one
caller which leaves each row alone, takes it when it may, or returns what it still holds
(`StepOf`). `WaitsBounded` adds `WindowOK`, `NothingLeaks` adds `Clean` (a room's token is for
the model it asks, so the end of a turn always matches the row it leased). `LeaseRefinement`
maps a row to its holder, while its time lasts, and the calls under way. `LeaseShape`: in every
state these are a free, held, used or abandoned lease of `ModelLease`; `HolderStep`,
`OrphanBorn` and `OrphanCovered`: a lease in force is not passed on, no call joins it later, and
a call left behind was under way before and keeps its lease. Hence one of `Moves`.

**Session.** `IInv`: the host lock orders the runs (`HostOK`); whoever is past `AcquireOwner`
has the lock of the room (`SupOK`); a child has a supervisor that has not reaped it, or one
that was killed alone (`ChildOK`); a watcher that may write has a state of its own and the
disk has none of a later run (`OwnerOK`). The types are used without their bounds (`Shape`).
`NeverSkipped` adds `CursorInv`: every cursor, on disk, in memory, enrolled or attested, is
covered, a candidate is the message after the cursor, and so the cursor advances only over a
message the queue has. `ReplayDrained` adds `DrainedOK`: a clean stop leaves settled messages,
an ending supervisor and no watcher past the adoption of its state, and nothing but
`MarkStoppedClean` writes one. Both assume that a conversation may have a message
(`MaxRow > 0`).

**Send gate.** What may still send has passed the breaker: a step takes a processing past it
only where no trip covers its room, and a trip that is stored notes who is past (`Moves`).
Nothing is dated later than now, and counted sends are older than those still to be counted
(`Ordered`). `SmokeInv`: a smoke send under way has no company, so the number of sends exceeds
the count by at most the one not yet counted.

**Composer.** `SendOK`: without a mutation nothing was touched, and what was posted was late.
`PostOK`: all posts but one are late, and when one came in a wait the field has not held the
message since, so that the repetition, which compares the field first, posts nothing in time.
`HarmOK`: an act that rests on a look, and a press under way, meet a draft only after a fault
that no harm was counted for.

**Model swap.** One holder of the lease, never beside a call (`LockOK`); what the step of the
holder implies of the server (`StepOK`), counting the operations that may still take effect
(`LoadOK`: a load is pending only on an empty server, alone), as long as the server listened
before the swap began; a server listens once, so nothing that names one is about a later one
(`HeardOK`); an operation nobody waits for
puts the server in doubt (`DoubtOK`); no swap mutates a server on which a model was selected
(`SelectOK`); a swap past its last look was not cancelled before it (`AskedOK`).

**Relay.** `DeliveredOnce` alone is not inductive: a delivery the ledger missed becomes a
repetition only when the message comes again. `Counted` adds the deliveries still unknown to
the ledger (neither settled there nor about to be, or misread at the moment) to those that came twice; together they
never exceed `lapses`. `Kept`: while no cursor is lost, disk and memory agree and nothing
beyond the message in hand was delivered.

**News.** `SlotInv` counts: the posts, made or due, exceed the settled slots by at most the
`mishaps`. A slot is settled when it was posted or is due, except the open one while it is not
`Guarded`, that is, while a lone poster could start on it without a fault: then the first
post of it is still to come. Every step keeps the account: `Start` alone settles the open
slot, `Store` leaves it guarded by the cursor, and whatever opens it again is a fault.
`AloneInv` is about behaviours without a fault: one attempt at a time, with the stored cursor,
and of every item posted and no longer seen (`Knows`) at least `SEEN_CAP` larger ones were
posted, since the cut keeps the largest. `NewsAssumption` (the limits are
positive; TLC evaluates it) is what the code's constants say.

**Forward.** `LedgerInv`: all complete deliveries of a link to a room, but the forgotten
ones, come down to one, and only if it is in the ledger or waits to be recorded
(`Waits`). A row the cap drops counts as forgotten (`RowsStep`), and a send follows
on a row that is not there or could not be read, which counts as well. `LedgerTrue`: what is in
the ledger, or waits to be recorded, was delivered whole.

Only model-checked: the liveness properties.

## 12. Findings

Two runs refute a statement of the repository.

| Run | What the code does | What the repository says |
| --- | --- | --- |
| double | A stall after the post leaves the row `sending`; the last check of a sibling counts only `sent` rows | worker:15513, at most one reply per burst |
| owner | An ordinary save of the watcher checks the supervisor's status and then writes without the generation lock; a watcher that outlived a supervisor killed alone, and its host, replaces the state of the run that took over in between | `scripts/auto-reply-db-watch.py:1742`, never let a persistence helper silently replace a dirty room's owner |

More statements are refuted by configurations kept in this directory that are not among the
runs of `PROJECT.json`.

| Configuration | What the code does | What the repository says |
| --- | --- | --- |
| `MCReplyQueueEvicted.cfg` | While an unresolved send fences the queue, every pass (one a second) journals a row; after 4096 of them the evidence of the send is gone and the reply is sent again, if its window is still open and the exact text has scrolled past the bounded local read | worker:3143, never reschedule on a missing match |
| `MCReplyQueueFence.cfg` | The next recovery is put 30 s ahead before the fence is read; a stall in between lets a claim pass the blocking row | worker:17332, keep the worker fenced |
| `MCReplyQueueAudit.cfg` | A hold whose audit was written but not proven keeps its reply and is sent later | worker:8336, a skipped audit stands for a no-send row |
| `MCReplyQueueSkipped.cfg` | An unconfirmed post ends as skipped when its attempts are used up | `context/mod.rs:3819`, skipped jobs never reached the composer |
| `MCReplyQueueForever.cfg` | A question with a terminal `delivery_unknown` audit row can be neither skipped nor given up | worker:3935, must not deadlock, is closed |
| `MCReplyQueueWithdrawn.cfg` | A withdrawn job waits for a skip audit that the same terminal row refuses | worker:15235, the projection is completed |
| `MCModelCircuitUnleased.cfg` | The capacity probe leases Luna's row, the call goes to the active on-device model without a lease of it, and Luna's cooldown becomes a lease nobody gives back | `docs/auto-reply-launchd-supervision.md:174`, every model invocation first acquires a lease |
| `MCModelCircuitOverrun.cfg` | `urlopen(timeout=)` bounds each read, not the call, which may outlive its lease | `docs/auto-reply-launchd-supervision.md:177`, the lease serializes calls across rooms, crashes and restarts |
| `MCModelCircuitFallback.cfg` | A failed or cooling active model sends the turn through the fallback chain | `docs/auto-reply-launchd-supervision.md:187`, there is deliberately no model fallback |
| `MCModelCircuitStale.cfg` | A question or an image past its window is analysed again, with a model call | `docs/auto-reply-launchd-supervision.md:190`, it becomes `stale_backlog`, with no model call |

And by adding the name to the configuration of its module:

| Statement | What the code does |
| --- | --- |
| `SendGate!CountUnchangedOnFailure` | The sample is inserted before its pacing row: when the second write fails the count has changed, and the repeated receipt is a duplicate without pacing |
| `SendGate!ReleaseResets` | A release resets alternations only; a burst or spike condition that still holds trips again at the next observation |
| `Relay!SentOnce` | A retry for missing images sends the whole message again |
| `LinkForward!OverTimeSendsNothing` | The deadline is checked before the images are acquired and the rooms are served, not after |
| `Session!ResumableStarts` | A host that dies after enrolling, before its watcher wrote a state, leaves an enrollment that no later start can claim |
| `Composer!DraftNeverTouched` | A draft typed between the last look and the write is replaced, one behind a failed read as well (`ax_send.rs:783`), and, by a news digest, any text that begins with the headline of the digest, also one the person edited (`ax_send.rs:826`, against "anything else is treated as a human draft and never touched", `ax_send.rs:800`) |
| `Composer!AcceptedIsPosted` | A field that a person cleared, or that cannot be read, after a press without effect counts as delivery (`ax_send.rs:860`) |

## 13. Not modelled

`PROJECT.json` lists every component with its status and reason. In short: dataset refresh is
one transaction per cycle; the improver and the refresh have no host in this repository;
model configuration is a record replaced under a lock; the launchd service installs jobs; the
LOCO and REST clients encode requests of a remote service; the local message database answers
queries, whose answers are the environment of `ReplyQueue`; profile, memory, coverage,
retrieval, Jarvis, user interfaces and diagnostics share no state with the send path, beyond
the request lease of `ModelSwap`. Formatting, prompts and the analysis of text are left out
everywhere: no property here depends on them. Most of the repository's lines are of that kind,
which is why the map covers a small share of them.
