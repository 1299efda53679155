# Verification models of the tic-tac-toe desktop

TLA+ models, TLC runs and TLAPS proofs kept beside the native x0x workspace in
`src/`. Every definition is translated from the code; the map from definitions
to source lines is in `PROJECT.json`.

## 1. The system

The desktop (Tauri, `src/desktop/src-tauri`) supervises local processes: the
`x0xd` daemon, one child daemon and one ACP harness (`src/crates/buzz-acp`) for
each managed agent in each group, and a Symphony service for company workflows.
The harness reads the group's history from its child daemon, decides which rows
are directed at its agent, and prompts the agent over ACP. The desktop launches,
wakes, stops and sweeps harnesses. There is no server: what has to survive a
crash is in small files, each written to a temporary name, synced and renamed.
The React frontend (`src/desktop/src`) keeps stores of its own between the views
and the Tauri commands: what a channel shows, which agents are at work, what is
unread. They are fed by polls, live streams and the user at the same time.

### Inventory

| Part | Where (below `src/`) | State | Operations | Hard behaviour | What makes it correct |
|---|---|---|---|---|---|
| Causal handoff | `crates/buzz-acp/src/lib.rs`, `.../managed_agents/runtime_lifecycle.rs` | watermark file, one handoff file per mention, tombstones; cursor and recovery counter in memory | boot, reconcile offers, reconcile history, claim, turn, release; offer, adopt, rebind, launch | two programs on one directory, either may die between two writes; repeated wakes; silent retries | one turn per mention, nothing below the cursor forgotten, no launch wedged |
| Runtime pairs | `.../managed_agents/{runtime_commands,runtime}.rs`, `runtime/stop.rs`, `shutdown.rs`, `commands/agents.rs`, `lib.rs` | map of tracked children, receipts on disk, record stamps, shutdown flag | two starts, two stops, drain, list, edit, group switch, monitor, sweep, shutdown | awaits outside the locks, two lock levels, orphans of an earlier session, failed teardowns | one harness per pair, findable, never swept while current, none after shutdown |
| Mention wake | `commands/agents.rs`, `runtime_commands.rs` | none of its own | find the agent, verify delivery, offer or launch | races with stop, edit and the harness's own poll | a wake is neither lost nor doubled |
| ACP turn and reply | `crates/buzz-acp/src/{lib,acp,x0x,lifecycle,storage}.rs` | JSON-RPC session, pending permission, lifecycle receipt | initialise, prompt, permission answer, post | timeouts against late answers, silent turns | a reply is posted at most once, the receipt tells the truth |
| Company template | `.../company_template/*.rs` | manifest of completed steps, status | plan, ensure each step, checkpoint | crash between step and checkpoint, cancel during a step | steps are repeatable, cancelled is terminal |
| Company lifecycle | `.../commands/native_symphony/*.rs` | instance manifests, cancel generation, active instance | run, resume, cancel, boot reconcile | phases with awaits, cancel at any of them | one active instance, nothing left running after cancel |
| Group binding, identity | `.../managed_agents/orchestration*.rs`, `agent_identity.rs` | bindings, child daemon identities | create, join, catch up | partial failure between daemon and file | one identity per binding |
| Symphony supervisor, local stack | `symphony.rs`, `local_stack*.rs` | child handle, token, ready state | spawn or attach, health, stop | readiness timeouts, crash loops | one child, no stale endpoint |
| Daemon client, native commands | `x0x_client.rs`, `commands/native_*.rs`, `crates/buzz-x0x` | none | HTTP calls | retries with a logical id | stateless |
| Secrets, migration, reset | `secret_store.rs`, `app_state_*.rs`, `migration.rs`, `reset.rs` | keyring, files | migrate at boot, reset | crash between copy and delete | no key lost |
| Device pairing | `crates/buzz-core/src/pairing` | session state | offer, SAS, transfer | two parties, timeouts | agreement, abort is final |
| buzz-agent | `crates/buzz-agent` | session, context | prompt loop, tools, context handoff | cancellation | inside one process |
| Personas, media, SDK | `crates/buzz-{persona,media,sdk}` | none | parse, validate, build | - | pure functions |
| Channel timeline | `desktop/src/features/messages`, `shared/api/nativeMessageAdapter.ts` | window store (pages, live overlay), rendered cache, sends under way | head poll, older page, two live subscriptions, optimistic send, acknowledge, roll back | state read before an await and used after it, cancelled polls that run on, lost and repeated frames, two ids for one message | one row for each message, no gap between pages, what the daemon has is shown, nothing pending is left |
| Agent turns | `desktop/src/features/agents/{observerRelayStore,activeAgentTurnsStore}.ts`, `features/communities/useCommunityInit.ts` | buffer of observer frames, active turns, tombstones, watermark, snapshots by community | ingest, fold, prune, save, reset, restore | lost, repeated and reordered frames, host crashes, rapid switches | a finished turn is not shown again, every badge goes away, no snapshot is lost |
| Live channels, unread state | `desktop/src/features/channels`, `app` | open streams, observed events, read markers, marks by hand | subscribe, retry, frame, mark read or unread, remount | slow answers to replaced runs, failed opens, marks racing frames | one live stream for each channel, dots that tell the truth, read state survives |
| Frontend views | `desktop/src` (the rest) | component state | render | - | derived from the stores and commands |

The first two parts interact through the harness process: a start of *Runtime
pairs* is the `Launch` of *Causal handoff*, and the handoff assumes that one
harness at a time works on a directory. `RuntimePairs` examines when that
assumption holds (section 6).

## 2. Modules

| Module | Role |
|---|---|
| `CausalHandoff` | the harness, the desktop's wake and launch commands and the shared files |
| `MentionDelivery` | abstract specification: one mention at a time runs; answers and doubts are final |
| `MCCausalHandoff` | response policies for TLC |
| `CausalHandoffProofs` | proofs about `CausalHandoff`, the refinement included |
| `RuntimePairs` | the start, stop, sweep and shutdown commands, the map and the receipts |
| `MCRuntimePairs` | agents, groups and commands for TLC |
| `RuntimePairsProofs` | proofs about `RuntimePairs` |
| `CompanyLifecycle` | company runs, cancel, the boot loop, manifests on disk |
| `MCCompanyLifecycle` | `CompanyLifecycle` for TLC |
| `CompanyRegistry` | abstract specification: a book of companies changed in one piece; complete until cancelled, cancelled for good |
| `CompanyLifecycleProofs` | proofs about `CompanyLifecycle`, the refinement included |
| `ChannelTimeline` | the open channel: window store, rendered cache, polls, frames, sends |
| `MCChannelTimeline` | message contents and the order of ids for TLC |
| `ChannelTimelineProofs` | proofs about the pages and the rows of `ChannelTimeline` |
| `AgentTurns` | observer frames, active turns, change of community |
| `MCAgentTurns` | turns and their channel for TLC |
| `AgentTurnsProofs` | proofs about badges, replays, snapshots and the reset of `AgentTurns` |
| `LiveChannels` | group subscriptions, observed events, read state |
| `MCLiveChannels` | channels and messages for TLC |
| `LiveChannelsProofs` | proofs about `LiveChannels` |
| `SetInduction` | induction over numbers and over finite sets, for the proofs |

A definition named *Faulty variant* in its comment is a plausible mistake in the
definition that follows it. No specification uses it; `PROJECT.json` names which
property notices when it takes the place of the right one.

### 2.1 CausalHandoff and the code

A message is named by its row in the child's history. `lastSeenId` is the
watermark file, `entry` the files under `pending/`, `completed` the tombstones.
The harness's `pc` follows one pass through `reconcile_with_silent_recovery`:

- `Boot`: `run_harness` until its loop (without a watermark the present history is
  passed over);
- `LoadPending`, `NextPending`: `reconcile_pending_causal`;
- `LoadHistory`, `PassRow`, `StageCreate`, `StageReload`: `reconcile` and
  `stage_causal_message`, whose create does not replace an existing file;
- `PersistClaimed`, `ClaimCursor`, `PersistExecuting`, then `TurnAnswered` +
  `RemovePending`, `TurnSilent` + `LowerCursor` or `TurnFailed`:
  `after_durable_pending_claim`, one action for each durable write;
- `HarnessCrash`: the process ends at any of these points. An I/O error that
  ends the process is the same step.

The desktop's `dpc` follows a start or wake: `Launch` takes a new nonce, `Rebind`
visits the files one by one, `PersistCheck`, `PersistNew`, `Adopt`,
`PersistRecheck` are `persist_pending_causal_message`, `Spawn` starts the
process; `OfferLive` is the wake of a running harness. `DesktopCrash` may fall
between any two. `EditPolicy` changes the stored record; a harness keeps the
policy of its launch.

Abstractions. The file contents other than version, nonce and state are left
out. A turn is one step with three outcomes. `stage_causal_message` looks at the
tombstone and links its file in one step: the harness is the only writer of
tombstones, so nothing changes between. Files of version 1 are taken to have had
their watermark raised, which the build that wrote them did first. Exactly one
harness works on the directory.

### 2.2 RuntimePairs and the code

`tracked` is `managed_agent_processes`, `receipt` the files under `agent-pids/`,
`job` the start commands in flight and `fresh` those whose snapshot of the record
still has the stored `updated_at`. `start_pair` is `RequestPair`, `EnterPair`
(transition lock and shutdown flag), `StartPair` (store lock, stale snapshot,
prior process), `Spawn`, then `Register`, `StabilizeFailed` or `ReceiptFailed`.
`start_managed_agent` is `RequestLocal`, `StartLocal` and the same ends. A
restart is `StopRuntime` followed by `RequestPair`. `StopRuntime`,
`StopWorkspace`, `Drain`, `ListRuntimes`, `EditRecord`, `SetActiveGroup` and
`MonitorTerminates` do their work in one hold of the locks and are one action
each. `SweepSnapshot` and `SweepScan` are the two halves of a round of the
periodic sweep; `ShutdownBegin`, `ShutdownLock`, `ShutdownSweep`, `DesktopExit`
are the quit path, and `DesktopCrash` the same without it.

Abstractions. The Unix build: Windows job objects are left out. Pids are not
used twice. `SIGKILL` works during shutdown; elsewhere a teardown may fail and
then changes nothing. A child that cannot be inspected is an outcome of
`StabilizeFailed` only. Record stamps have nanoseconds and differ. What a launch
contains and why a preflight fails are left out.

### 2.3 CompanyLifecycle and the code

`file` and `tmp` are `manifest.json` and `manifest.json.tmp` of each instance.
Instantiate, resume and `reconcile_companies` hold `company_run_lock` all the way,
so one `rpc` follows whichever of them runs:

- `Instantiate` (the gate and the reservation), `Resume`, `Reconcile` start a run;
- `Load`, `NextStep`, `EnsureDone`, `EnsureFailed`, `StepsDone`:
  `instantiate_company`;
- `Identities` + `Mint`, `Membership` + `JoinDone`, `Bind` + `BringUp` +
  `BringUpEnds` + `BindDone`, `RunIssue` + `CreateIssue`, `Complete`, `Activate` +
  `Recheck`: the phases of `run_company_lifecycle`, each a check for a cancel, the
  work, and a checkpoint; the actions named `...Failed` and `BindAborted` are the
  error paths, `MarkResumable` and `Cleanup` what they end in;
- `Save`, `SaveWrite`, `SaveRename`, `SaveFailed`: `JsonManifestSink::save`, its
  guard, its write and its rename. `OkNext` and `ErrNext` say where the caller of
  each save goes on;
- `ReconcileNext`, `Rebind`, `RebindReady`, `RebindReload`: the boot loop.

`cancel_company_run` is a synchronous command without the lock: `CancelLoad`,
`CancelWrite`, `CancelRename` (or `CancelFailed`), `CancelReap`, `CancelStop`,
`CancelClear`. `Restart` is a quit or a crash, at any point, and the next boot.

`CompanyRegistry` is what a reader of the disk may rely on. Its `book` is `file`
without the daemon's generation (`Entry`): the reservation in `Instantiate` is a
`Reserve`, a `SaveRename` a `Record` or a stutter, `CancelRename` a `Cancel`, and
every other step, the writes of the temporary file and a restart included, leaves
the book alone.

Abstractions. The provisioning steps are done in the order of the plan and are
counted. A load directly followed by a save is one step, since the guard of the
save reads again. The epoch in an instance's id grows, so instances are numbered.
Reads of an existing manifest succeed; writes and renames may fail. `symphony`
and `agents` are the handles the desktop owns: an attached warm daemon is left
running by every path and is not tracked. Recovery mode, in which boot does not
reconcile, and the commands `start_symphony` and `stop_symphony`, which no view
calls, are left out. With `Overlap = FALSE` the schedules are left out in which the
cancel's load-to-rename and the run's guard-to-rename overlap: section 6 shows
what happens in that window, and the other runs ask what holds outside it.

### 2.4 ChannelTimeline and the code

One channel is open. `history` is what the daemon has stored, in order of its
rowid; `pages` and `overlay` are `ChannelWindowStore`, `messages` is the cache
under `channelMessagesKey` that the list renders, `cached` whether it exists.
JavaScript runs to the next `await`, so an action is what happens between two:

- `StartPoll`, `AnswerPoll`, `FinishPoll` (or `FailPoll`): the query function of
  `useChannelMessagesQuery`. Its copy of the rendered rows (`prev`) is taken in the
  first, the window is read in the last, as in the code;
- `Mutate`, `StoreSend`, `Acknowledge`, `Fail`: `useSendMessageMutation`. `Mutate`
  cancels the running poll, which becomes an orphan: `AnswerOrphan` and
  `FinishOrphan` still replace the window, and only the value they return is
  dropped;
- `StartOlder`, `FinishOlder`, `FailOlder`: `fetchOlder` and `runPage`. The answer
  is fixed in `StartOlder`: what lies below a cursor no longer changes;
- `ChannelFrame`, `UpdateFrame`: a live frame through `useChannelSubscription`
  (window, then projection) and through `useLiveChannelUpdates` (cache alone). Any
  stored row may be framed at any time, again, or never.

Helpers keep the names or the sense of the functions: `RelayBefore`
(`compareRelayOrder`), `ValidPage` (`assertValidPage`), `Refused` and `MergeLive`
(`mergeLiveChannelWindowEvent`), `Flatten`, `Incoming`
(`reconcileIncomingMessage`), `Reconcile` (`reconcileChannelWindowMessages`), whose
loop body is `TakeIn`, for the event that is `Latest` of those taken in so far.

Abstractions. The rows of a cache are a set; the order of equal seconds is left
out, the order that decides which pending row an event takes is kept. An event has
its id, its render key, its second and whether it is pending; ids are pairs of a
kind (`msg`, `client`, `opt`) and a message, and `Rank` is their string order.
A message has two ids on the wire: the daemon's `msg_id` and the client id its
sender chose. A history row always has the first. A group frame and the answer to a
group send have it only when the daemon names it, and fall back to the client id
(`nativeMessageAdapter.ts:236`, `nativeMessaging.ts:276`); the answer to a direct send
always bears the client id. The constants `FrameIds` and `AnswerIds` say which of the
two group frames and answers bear: any subset, since daemons differ. The literal
`text/plain` rows of other clients have one id everywhere and no live frame; they are
left out.
Threads, edits, deletions and reactions (the aux events) are left out: a thread
reply or control row only takes up a row of the history. One older page per fetch:
the loop of `pageOlderMessagesUntilRowFloor` is this fetch again.

### 2.5 AgentTurns and the code

`buffer` is `eventsByAgent`, `store` the three maps of `activeAgentTurnsStore.ts`
(active turns in insertion order, tombstones, watermark), `saved` is
`savedByCommunity`, `prev` is `prevCommunityIdRef`. `Ingest` is
`ingestObserverEvent` with the fold its listeners make, `SyncAll` a fold for any
other reason, `Tick` one prune interval, `EnsureSubscription` and `Connected` the
observer stream. `Switch` is what the effect of `useCommunityInit` does before its
`await`, `Bound` and `BindFails` what follows it; a second `Switch` cancels the
first. The host of the agent is external: it sends frames, panics without a turn
id, pings in the very millisecond of an end, or dies and starts again with `seq`
at 1. Frames stay in `net` once sent, so that they may arrive late, again or never.

Abstractions. Silence is counted in prune intervals and capped at the largest
threshold, since beyond it nothing differs. One agent, because the maps of two
agents do not meet. Left out: the clock offset, transcripts and the latest live
session, the archive journal, the map from child ids to agents. Communities are
neither added nor removed: removing one discards its snapshot on purpose
(`clearSavedCommunitySnapshot`, `useCommunities.tsx:191`), so `SnapshotNotLost` speaks
of switches. The state without any community and the onboarding screen, which unmounts
the tree without a switch (`App.tsx:475`), are left out too; `mounted` says that the
community is bound.

### 2.6 LiveChannels and the code

`run` counts the runs of the subscription effect, and `isCancelled` is true in all
but the current one. `subs` is `liveSubsRef` with the run that opened each stream;
`opening`, `opened` and `streams` follow a call of `x0x_subscribe_live` from request
through answer to the registered stream. `SyncSubs` is the part of `syncSubs` before
its `await`, `Continue` the continuation of one addition, `Settle` and `Retry` the
rest of `runSync`, `ChangeRoster` the cleanup and the next run, `Remount` the end of
the component and its next life. `observed`, `latest`, `marks` and `forced` are the
refs of `useUnreadChannels` and the markers of `ReadStateManager`; `stored` is local
storage. `heard` is a history variable: all events recorded since the mount.

The markers are one function over the `Contexts` of `ReadStateManager`: a channel,
`thread:<root>` and `msg:<id>`. Who moves which is the code's: the screen of a channel
marks the channel (`Open`, `SeeNewest`), Escape and the sidebar mark it with what was
observed of it (`MarkChannelRead`), the thread panel and the menu of a message mark
single messages (`MarkMessagesRead`), and the Home inbox, which is shown while no
channel is open, marks a thread, together with the channel when the item groups
top-level messages (`MarkThreadRead`), or a channel (`MarkChannelRead`). `ReadAt`
compares an event with the latest of the markers `Covering` it, its own included
(`observedUnreadEventReadAt`).

Abstractions. An event stands for a message that notifies this user, in whole
seconds as in the code, and a channel has one thread. A message has the same id in its
frame and in the thread panel, which holds when its frame has the `msg_id`; the seconds
of the two (`at`, `row`) may differ. The direct-message stream,
changes of identity, mute rules, the pruning after seven days and the cap of 1000
observed events, like the caps of the markers, are left out. Writes to local storage succeed.

## 3. Runs

| Run | Bounds | Distinct states | Question |
|---|---|---|---|
| `handoff` | 2 rows, 2 launches, 1 backoff, 2 policies, fair | 178,900 | all safety properties of the handoff, the refinement, and that a running harness serves what it accepts |
| `pairs_safety` | 1 agent, 2 groups, 2 starts, 2 processes, both kinds of start | 735,490 | receipts, pairs and the sweep |
| `pairs_start_pair_only` | 1 group, 2 starts, 2 processes, `start_pair` only, fair | 14,391 | one findable harness per pair, quiet shutdown, orphans are reaped |
| `company` | 2 instances, 1 step, 1 issue, no overlap, fair | 205,037 | one company, complete is earned, cancel is final, no checkpoint lost, the manifests implement the registry, a cancelled instance is released for good |
| `timeline` | 1 send, 1 message of a peer, group or direct, page of 1 row, 2 seconds, 1 cancelled poll, frames with the client id, answers with either, fair | 282,914 | one row per message, pages without gap, what is stored gets shown, acknowledged sends settle |
| `agent_turns` | 2 turns of one channel, 2 communities, 2 switches, 3 frames, buffer of 2, fair | 633,722 | no dead badge, idle replays, clean slate, snapshots, every badge goes away |
| `live_channels` | 2 channels, 2 runs of the effect, 2 seconds, marks in one channel, the replies marked one by one, fair | 388,275 | no stray stream, exact dots, read state survives, channels get streams |
| `local_start_duplicates` | 1 group, 1 start, 2 processes | stops at the violation | section 6 |
| `company_tombstone_lost` | 1 instance, saves may overlap | stops at the violation | section 6 |
| `timeline_same_second` | 2 messages of peers in one second, page of 2 rows | stops at the violation | section 6 |
| `timeline_ghost` | as `timeline`, `msg_id` in every frame and answer | stops at the violation | section 6 |
| `live_channel_deaf` | 2 channels, 2 runs, no messages | stops at the violation | section 6 |

Why the bounds suffice. Two rows are what overtaking needs (an offered later row
above a row not yet read), two launches with nonce 0 for older files give every
pair of generations that may meet in the directory, and one backoff gives both a
retried and a given-up silent turn. The policies are *all rows* and *the last row
only*, so that a row may stop being answered between launches. For the pairs, two
groups let the active group change under a start, two starts race each other, a
predecessor and a successor are two processes, and several sessions of the desktop
happen because crash and boot are not bounded. The safety properties of these two
parts, as of all others, are proved for all bounds as well (section 5), so for them
the runs are there to find mistakes early.

For the companies, two instances are a cancelled one and its successor: the gate
admits a third only when both are cancelled, and the code relates a run to other
instances only through the gate, the daemon's handle and the binding. Restarts,
resumes and cancels are not bounded.

For the timeline, a page of one row makes two messages enough for an older page, a
head that moves under it and a row that slides out; a message takes up to one second
from its author, and a thread reply may take the row. Polls, frames and older pages
are not bounded. Two messages of one second are left to `timeline_same_second`: with
them `Converges` fails, as section 6 says, and the other properties would be about
channels that no longer poll. Frames bear the client id in this run: that is the case
in which a frame and the history row of its message differ. Frames of both kinds, or
three messages, go beyond five minutes; the safety theorems of section 5 are about any
ids.

For the turns, two turns of one channel let an end without a turn id meet the wrong
one; three frames are a start, a ping and an end, or the frames of two turns; a
buffer of two makes the trimming happen, and the thresholds keep their order (gap,
removal, end of the pause). Two switches are a round trip or a second switch before
the first is bound. Arrivals and ticks are not bounded.

For the channels, two runs are a replaced and a current one, which is all the code
tells apart (`isCancelled`); the second channel is there to join and leave. Messages,
marks and threads are examined in one channel, since channels share nothing but the
effect. `Marked` are the replies, which are what a thread panel shows; a top-level
message marked by itself differs from them only in what else covers it.

`Starts` and `Groups` are symmetric in `pairs_safety`; no symmetry is used with
liveness.

Properties of the handoff: `AtMostOneTurn`, `NoForgottenMention`,
`StagingNeverInvalid` (no launch is wedged by a file of another one),
`NoStrandedOffer`, `AmbiguityIsFinal`, `ImplementsDelivery`, `MentionServed`.
Of the pairs: `TrackedIsReceipted`, `TrackedRunsItsPair`, `SweepSparesCurrent`,
`RegisteredOnce`, `FindableWhileRunning`, `QuietAfterShutdown`, `OrphanReaped`.
Of the companies: `SingleCompany`, `CompleteIsEarned`, `ProgressKept`,
`CancelReapsAgents`, `NoCancelledBinding`, `ImplementsRegistry` (a cancelled company
stays cancelled, which is `CancelIsFinal` and is not checked apart),
`CancelledIsReleased`.
Of the timeline: `ChainHasNoGap`, `OneRowPerMessage`, `Converges`, `AckedSettles`;
the code does not have `FailedRowGone`. Of the turns: `NoDeadBadge`, `ReplayIsIdle`,
`CleanSlate`, `SnapshotNotLost`, `EndedBadgeGone`. Of the channels: `NoStrayStream`,
`DotIsExact`, `MarksSurvive`, `MemberSubscribed`; the code does not have
`MemberHeard`. Each module has one `TypeOK`.

## 4. Fairness

- `WF(Harness)`: a running harness polls every `RECONCILE_INTERVAL` and the ACP
  client's timeouts end every turn. Nothing is assumed of users, the daemon,
  crashes or relaunches; `MentionServed` therefore ends with the process.
- `WF(Start(c))`: the preflight calls and the stabilisation have timeouts.
- `WF(SweepScan)`, `SF(SweepSnapshot)`: the sweep is a task that wakes every 60 s.
  It waits for the mutex of the map, which starts hold again and again; a waiter
  is woken at every release, so a lock that is free again and again is taken at
  some time.

- `WF(RunStep)` except at `create` while the daemon lives: calls to `x0xd`, the
  children's bring-up and Symphony's have timeouts, but the client that creates
  the run issue sets none, so that request may hang. `WF(CancelStep)`: a cancel
  runs straight through on its thread. Nothing is assumed of users or restarts.

- `WF(StartPoll)`, `SF(AnswerPoll)`, `WF(FinishPoll \/ FailPoll)`: the query has a
  `refetchInterval` while the channel is open; requests may fail, but a daemon that
  runs answers again and again, and a function that has its answer goes on. The
  same for cancelled polls. No frame is assumed to arrive and no send to end.
- `WF(Tick)`, `WF(Bound \/ BindFails)`: the prune timer is an interval, and the bind
  is a native call with one answer. Nothing is assumed of hosts and frames.
- `WF` of an answer, of a continuation, of `Settle` and of the retry timer, and `SF`
  of a successful open of the current run: a stream that is opened again and again,
  with a capped delay, opens in the end. `MemberSubscribed` is about a daemon that
  is there.

## 5. Proofs

`CausalHandoffProofs` proves, for any `MaxRow`, `MaxNonce`, `Backoffs` in `Nat`
(`BoundsAssumption`) and any sets of rows as policies (`PoliciesAssumption`):
`TypeCorrect`, `OneTurn`, `NothingForgotten`, `OffersReach`, `StagingValid`,
`DoubtIsFinal` and `Refinement`. None of these invariants is inductive alone.
`Inductive` establishes their strengthening: nonces in files never exceed the
ones handed out (`NonceInv`); while a launch rebinds, what is not yet rebound is
in its to-do set (`RebindInv`); a row's turn count agrees with its file and
tombstone (`TurnInv`); the row in hand has the file its `pc` says (`Mine`,
`HandInv`); the cursor in memory and on disk agree except where a step is about
to make them agree, and stay above every ambiguous file (`CursorInv`); and the
rows loaded are ones the harness may still handle (`QueueInv`). The last two are
why the history path never meets a foreign file. `Refinement` maps each row to a
status of `MentionDelivery`; each action is a step of one row or a stutter.

`RuntimePairsProofs` proves, with `RuntimeAssumption` and any sets of agents,
groups and commands: `PairsInductive`, `PairsTypeCorrect`, `Receipted`,
`RightPair` and `SweepSpares`. The invariant says that at most one start holds the
store lock (`MutexInv`), that the map has no entry for a pair that is being
started (`StartInv`), that pids in use were spawned (`PidInv`), and that what both
rounds of a sweep would confirm is neither tracked nor being started
(`SweepInv`). Under the further assumption `"local" \notin Kinds`,
`PairOnlyInductive` adds that a start past its look at the receipt has none left
beside it (`ClearInv`), which locks and shutdown states go together (`LockInv`,
`GoneInv`), and that registered processes were launched for a pair
(`RegisteredInv`); `Findable`, `OneHarness` and `QuietShutdown` follow. Without
that assumption they are false, as the next section shows.

`CompanyLifecycleProofs` proves, with `CompanyAssumption`: `CompanyInductive`,
`CompanyTypeCorrect` and `OneCompany`, for any `Overlap`, and `CancelFinal` under
the further assumption `~Overlap`, without which it is false (section 6).
`SingleCompany` is not inductive: a run may put an instance back on disk after its
tombstone was there. `ClaimInv` says instead that at most one instance is not
cancelled, on the boot loop's list or in the run; `FileInv` and `RunInv` say that
a run holds and saves manifests without a tombstone, of an instance that exists;
`CancelInv` says that a cancel which finds a tombstone in the file, because a
rename of the run put it there, finds a tombstone or nothing in the temporary
file, so the cancel itself never undoes one. `ApartInv` is what the absence of
overlap adds for `CancelFinal`. `CompletionIsEarned` needs, for any `Overlap`, how far
the manifest has to be at each place of the run: `EarnInv` says that every manifest
in a file or in memory records a run id only with its phase and says complete only
with everything, and that what the next checkpoint is made from records what the run
has done unless a tombstone came between; `RebindInv` keeps the rebind at boot apart.
`ReleaseInvariant`, under `~Overlap`, says who has yet to release the children and
the binding of a cancelled instance; `AgentsAreReaped` and `BindingIsReleased` follow.
Two more results hold under `~Overlap` only. `CheckpointsAreKept` needs `KeepInv`:
whatever the run holds in memory, is saving or has in the temporary file has all that
is on disk, and a tombstone under way has exactly that. `RegistryRefinement`, that the
manifests implement `CompanyRegistry`, is a step by step mapping which needs the
invariants before it (one company for `Reserve`, `EarnInv` and `KeepInv` for
`Record`) and `WorkInv`: a run with something left to record never works on a
complete manifest, and a cancel about to write is of an instance without a tombstone.

`SetInduction` states induction with a set of numbers, or of finite sets, in the place
of the predicate: the provers cannot instantiate the library's theorems, which take an
operator, and a set they can. It rests on the well-foundedness of `<`, and is what
the results about loops below need.

`ChannelTimelineProofs` proves, for any history, page size and number of messages and
polls (`TimelineAssumption`), `WindowIsGapless`, `TimelineTypeInvariant`,
`MessageShownOnce`, `CanonicalShownOnce` and `ProjectionShowsOnce`. `ChainHasNoGap` speaks of the window alone and is not inductive:
`ChainInv` adds that the retained pages are one interval of the visible rows, down to
the cursor, and that every answer still on its way (of the poll, of cancelled polls,
of the older fetch) is such an interval itself. `OneRowPerMessage` needs `RowInv`: no
message is stored twice (`HistoryInv`); the overlay has one event per render key and
none that a page has (`SoundEvents`, `Apart`); and the rendered rows, with the copy
of them a poll took before its request, have one row per id and per render key, and one
settled row of each peer's or direct message (`SoundRows`). The user's own group message
is left out of it: an answer and a frame that name it by different ids are two rows to
`mergeTimelineCacheMessages` (section 6). `CanonicalShownOnce` covers it under the
assumption that every frame and answer has the `msg_id`, and `ProjectionShowsOnce`
without it: after each projection of the window into the cache no message has two
settled rows. The loop of `Reconcile` is the hard step:
`ReconcileFold` shows that its recursion is well defined, `ReconcileInduction`, by
induction over the number of events taken in, that what one turn preserves holds at
its end, and `TakeInKeeps` is the one turn: an event that takes the render key of a
pending row removes it, and no other event has or gets that key.

`AgentTurnsProofs` proves, for any turns, communities and bounds
(`TurnsAssumption`), `TurnsTypeInvariant`, `NoBadgeOfTheDead`, `ReplayChangesNothing`,
`SlateIsClean` and `SnapshotsAreKept`. `SlateInv` adds to the last two that the
community in `prevCommunityIdRef` has no snapshot, which is why saving it overwrites
none, and that nothing is mounted while a bind is awaited. The first three follow from
`TurnsInvariant`: frames are sent in the order of clock and `seq`, a start before the
other frames of its turn and none later than its end (`HostInv`, `NetInv`); the buffer is
sorted and holds frames that were sent; and every store, live or in a snapshot, is
`Badged`: the starts of the turns it speaks of are behind its watermark, and a turn
both shown and recorded as over has a frame later than the recorded end. That is why
folding the buffer again, in whatever state a switch or a trim left it, brings no
ended turn back. The fold is an induction over the number of frames folded.

`LiveChannelsProofs` proves `TypeCorrect`, `StreamsAreOwned`, `DotsAreExact` and
`MarksAreKept` for any channels, events and number of runs (`LiveAssumption`).
`SubInv` says that what the current run still opens is for member channels without a
registered stream, and that nothing is pending after a pass has settled; that is why
a retry does not open a channel twice. `DotInv` says that a message heard and no
longer observed is covered by one of the markers of its channel, its thread and its own,
which only move forward, and that `latest` bounds what is observed, so
clearing both at once loses nothing; the stores mirror memory.

Only model-checked are `MentionServed`, `OrphanReaped`, `CancelledIsReleased`,
`Converges`, `AckedSettles`, `EndedBadgeGone` and `MemberSubscribed`, since TLAPS does
not prove liveness under fairness, and the violations of the next section. Every
invariant, action property and refinement of the passing runs is a theorem.

## 6. Findings

Each finding is a run that expects a violation, and quotes in `PROJECT.json` the
comment, assertion or test it disagrees with.

1. `local_start_duplicates`: `start_managed_agent` registers a new child without
   ending the receipted process an earlier session left (`runtime.rs:2090`), which
   `start_pair` does. While two harnesses run for one pair, the assumption of
   `CausalHandoff` that one harness works on a directory does not hold; after the
   second one's start the periodic sweep reaps the first (`OrphanReaped`).
2. `company_tombstone_lost`: a save looks for the tombstone and renames later,
   without a lock (`instantiate.rs:583`). A cancel in between is overwritten,
   although it returned Ok, and the run goes on. Run and cancel also share the
   temporary file: in the same window the run's rename may publish the tombstone,
   so that the cancel fails and leaves the children running, and the cancel's
   load may be older than the checkpoint it replaces. `CancelReapsAgents`,
   `NoCancelledBinding` and `ProgressKept` therefore hold only without overlap too.
3. `timeline_ghost`: a poll copies the rendered rows before it awaits its page
   (`hooks.ts:257`). One that begins while a send is pending and ends after the send
   failed puts the row back, and every later poll keeps it.
4. `timeline_same_second`: `assertValidPage` demands ascending ids within a second
   (`channelWindowStore.ts:103`), the daemon returns rows by rowid. A pair of messages
   of one second in the wrong order makes every head poll throw while both are in the
   newest page.
5. `live_channel_deaf`: after a join or leave the streams opened before stay
   registered, and their callbacks drop every frame (`useLiveChannelUpdates.ts:462`).

Known behaviour that no property states, since the code does not rule it out:

- The user's own group message may have two settled rows until the next projection.
  After `Mutate` and `StoreSend`, `Acknowledge` gives the row the `msg_id` and leaves it
  its optimistic render key, and an `UpdateFrame` without `msg_id` brings an event whose
  id and key are the client id: `mergeTimelineCacheMessages` matches by id and key only
  and adds it. The run `timeline` with the invariant `NeverTwice`, `FrameIds =
  {"client"}` and `AnswerIds = {"msg"}` shows it in five states. Two comments read
  otherwise: `nativeMessageAdapter.ts:227-229`, "localKey is ALWAYS the clientId — that
  is what reconciles an optimistic (clientId-keyed) row with the canonical
  (msgId-keyed) live/history row", and `useLiveChannelUpdates.ts:393-394`, "Writes are
  idempotent (mergeTimelineCacheMessages deduplicates by event ID)". It takes a daemon
  whose answer has the `msg_id` and whose frame has not.
- Marking a thread in the Home inbox puts out the dot of its channel when only replies
  were unread: `observedUnreadEventReadAt` compares a reply with the thread's marker too
  (`unreadChannelCounts.ts:123-136`, pinned by `unreadReadMarker.test.mjs`), and an item
  that groups top-level messages marks the channel itself. The comment at
  `useHomeInboxReadState.ts:112-114` says that thread rows have a marker of their own
  "so they do not affect the sidebar channel dot". `DotIsExact` says what the code and
  its tests do.

- `start_managed_agent` looks neither at the transition lock nor at the shutdown
  flag after its preflight, so its child may start after the final sweep
  (`commands/agents.rs:335`), and when it fails it removes a receipt that may be the
  one of a harness that still runs (`runtime.rs:2095`). `QuietAfterShutdown` and
  `FindableWhileRunning` hold for `start_pair` only.
- A cancel during the rebind at boot comes before the daemon is up; the reload
  afterwards clears the binding and keeps the daemon (`instances.rs:377`).
- Between the creation of the run issue and its checkpoint a stop, a failed save or
  a lost answer makes a resume create another (`lifecycle.rs:534`; `MaxIssues` bounds
  how often).
- A cancel shuts the daemon down whichever instance it serves (`instances.rs:50`,
  `CancelStop`), so "active" does not imply a running daemon.
- A harness keeps the policy of its launch and a relaunch takes the edited one: a
  rebound offer the new policy does not answer ends every later launch in
  `PendingCausalRejected` (`buzz-acp/src/lib.rs:664`).
- Rows of one second are ordered one way in `sortMessages` and the other way after a
  flatten, so they may change places at the next poll (`messageQueryKeys.ts:61`).
- Read markers are whole seconds, so a marker also covers a message that arrives
  later in its second (`useUnreadChannels.ts:104`).
- Every head poll drops the pages the user has scrolled back to, and a live stream
  whose socket ended is not opened again while its channel stays (`StreamDies`).

## 7. Not modelled, and the plan

The desktop's TypeScript is some 175,000 lines, of which most are views: components,
dialogs, styles, rendering of markdown, media and transcripts. They hold no state
that a property could relate, so the models cover the stores and effects under them,
and the share of lines they cover stays small. What is worth doing next, in order:

1. **MentionWake and the ACP turn** (`commands/agents.rs`, `acp.rs`, `lifecycle.rs`,
   and `useMentionSendFlow.ts` in the frontend): the turn as its own steps (prompt,
   permission, post, timeout), the lifecycle receipt and its monitor; it refines the
   three outcomes of a turn in `CausalHandoff`.
2. **Composition** of `RuntimePairs` and `CausalHandoff` (starts carry mentions, and
   what two harnesses on one directory can do), and of `LiveChannels` and
   `ChannelTimeline` (one frame feeds both).
3. **Thread caches and aux events** of the timeline (edits, deletions, reactions), and
   the direct-message stream of `useLiveChannelUpdates`.
4. **Group binding and identity** (`orchestration*.rs`, `agent_identity.rs`).
5. **Symphony supervisor** (spawn, attach, readiness) **and local stack**, then secret
   migration and the pairing session.

Left out for good: the views, media, personas and SDK builders (no state the
models could relate), the daemon `x0xd` (another repository; its history is the
rows of `CausalHandoff` and of `ChannelTimeline`), and the contents of prompts and
replies.
