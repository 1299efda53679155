---------------------------- MODULE CausalHandoff ----------------------------
(***************************************************************************)
(* The durable causal handoff of one managed agent in one group: how a     *)
(* mention written in the group's history becomes at most one agent turn.  *)
(*                                                                         *)
(* Two programs share a directory of small files, each replaced atomically *)
(* and synced before the writer goes on:                                   *)
(*   - the harness (crates/buzz-acp/src/lib.rs), one process per launch,   *)
(*     named by the nonce the desktop gave it;                             *)
(*   - the desktop (desktop/src-tauri/src/managed_agents), which offers a  *)
(*     mention to the running harness or launches a new one for it.        *)
(* Either may stop between any two writes; the files are all that stays.   *)
(*                                                                         *)
(* A message is named by the row it has in the child daemon's history; the *)
(* daemon numbers rows in the order it stores them, so rows are 1..hist.   *)
(* A nonce is a number, fresh for every launch; 0 is a nonce of a build    *)
(* that wrote version 1 files.                                             *)
(***************************************************************************)
EXTENDS Integers, FiniteSets

CONSTANTS MaxRow,     \* bound on the rows the history ever holds
          MaxNonce,   \* bound on the launches
          Backoffs,   \* SILENT_RECONCILE_BACKOFFS.len()
          Policies    \* response policies, each as the rows it answers

Rows == 1..MaxRow
Nonces == 0..MaxNonce

ASSUME BoundsAssumption ==
  /\ MaxRow \in Nat
  /\ MaxNonce \in Nat
  /\ Backoffs \in Nat

ASSUME PoliciesAssumption == Policies \subseteq SUBSET Rows

VARIABLES
  hist,        \* number of rows in the child's history
  policy,      \* rows the stored record's response policy answers
  lastSeenId,  \* the watermark file; -1 while it does not exist
  entry,       \* the pending/<msg>.json files
  completed,   \* the completed/<msg>.json tombstones
  pc,          \* where the harness is; "down" when no process runs
  gen,         \* its nonce
  accepts,     \* the policy it was launched with
  seen,        \* state.last_seen_id in its memory
  phase,       \* the loop of reconcile it is in
  queue,       \* rows that loop has still to handle
  cur,         \* the row in hand
  prev,        \* previous_watermark of after_durable_pending_claim
  silent,      \* recovery_index of reconcile_with_silent_recovery
  dpc,         \* where the desktop's start or wake command is
  dmsg,        \* the mention it carries, 0 for none
  dnonce,      \* the nonce it writes
  dtodo,       \* files the rebind loop has still to visit
  tracked,     \* the desktop holds the running harness in its map
  nonces,      \* nonces handed out so far
  turns,       \* history: turns that may have had an effect, per row
  passed,      \* history: rows the cursor passed as not directed
  overtaken    \* history: rows the cursor jumped for an offered later row

disk     == <<lastSeenId, entry, completed>>
process  == <<pc, gen, accepts, seen, phase, queue, cur, prev, silent>>
desktop  == <<dpc, dmsg, dnonce, dtodo, tracked, nonces>>
history  == <<turns, passed, overtaken>>
vars     == <<hist, policy, disk, process, desktop, history>>

-----------------------------------------------------------------------------
(* Handoff files.                                                          *)

Absent == [ver |-> 0, nonce |-> 0, st |-> "none"]
Entry(v, n, s) == [ver |-> v, nonce |-> n, st |-> s]
Entries == {Absent} \cup [ver : {1, 2}, nonce : Nonces,
                          st : {"pending", "claimed", "executing"}]

\* A turn may have run for it: never started again.
Ambiguous(e) ==
  \/ e.st = "executing"
  \/ e.ver = 1 /\ e.st = "claimed"

\* Offered, or claimed by a build that marks execution separately.
Retryable(e) == e.st = "pending" \/ (e.ver = 2 /\ e.st = "claimed")

Larger(a, b) == IF a >= b THEN a ELSE b

\* load_pending_causal removes every file that has a tombstone.
Purged == [r \in Rows |-> IF r \in completed THEN Absent ELSE entry[r]]

Least(r) == r \in queue /\ \A q \in queue : r <= q

Live == pc # "down"

-----------------------------------------------------------------------------
(* The harness.                                                            *)

\* The process ends: killed, failed, or an error it does not handle.
Exit == pc' = "down"

\* claim_row: raise the watermark in memory and on disk.
ClaimRow(r) ==
  /\ seen' = Larger(seen, r)
  /\ lastSeenId' = seen'

\* run_harness up to its loop. Without a watermark file the present history
\* is passed over unanswered.
Boot ==
  /\ pc = "boot"
  /\ pc' = "idle"
  /\ seen' = IF lastSeenId = -1 THEN hist ELSE lastSeenId
  /\ lastSeenId' = seen'
  /\ passed' = IF lastSeenId = -1 THEN passed \cup 1..hist ELSE passed
  /\ UNCHANGED <<hist, policy, entry, completed, gen, accepts, phase, queue,
                 cur, prev, silent, desktop, turns, overtaken>>

\* reconcile_pending_causal loads the files of its own nonce that it may run.
LoadPending ==
  /\ pc = "idle"
  /\ pc' = "next"
  /\ phase' = "pending"
  /\ entry' = Purged
  /\ queue' = {r \in Rows : entry'[r].nonce = gen /\ Retryable(entry'[r])}
  /\ UNCHANGED <<hist, policy, lastSeenId, completed, gen, accepts, seen, cur,
                 prev, silent, desktop, history>>

\* The next loaded file; a row the policy of this launch does not answer is
\* PendingCausalRejected, which ends the process.
NextPending(r) ==
  /\ pc = "next" /\ phase = "pending" /\ Least(r)
  /\ IF r \in accepts THEN pc' = "claim" ELSE Exit
  /\ cur' = r
  /\ UNCHANGED <<hist, policy, disk, gen, accepts, seen, phase, queue, prev,
                 silent, desktop, history>>

\* Faulty variant: the query skips the first row above the watermark.
LoadHistoryOffByOne ==
  /\ pc = "next" /\ phase = "pending" /\ queue = {}
  /\ phase' = "history"
  /\ queue' = {r \in 1..hist : r > seen + 1}
  /\ UNCHANGED <<hist, policy, disk, pc, gen, accepts, seen, cur, prev, silent,
                 desktop, history>>

\* The files are done: read the rows above the watermark.
LoadHistory ==
  /\ pc = "next" /\ phase = "pending" /\ queue = {}
  /\ phase' = "history"
  /\ queue' = {r \in 1..hist : r > seen}
  /\ UNCHANGED <<hist, policy, disk, pc, gen, accepts, seen, cur, prev, silent,
                 desktop, history>>

\* A row that is not directed at the agent, or is already answered.
PassRow(r) ==
  /\ pc = "next" /\ phase = "history" /\ Least(r)
  /\ r \notin accepts \/ r \in completed
  /\ ClaimRow(r)
  /\ queue' = queue \ {r}
  /\ passed' = IF r \in accepts THEN passed ELSE passed \cup {r}
  /\ UNCHANGED <<hist, policy, entry, completed, pc, gen, accepts, phase, cur,
                 prev, silent, desktop, turns, overtaken>>

\* Faulty variant: the cursor is raised before the file is there.
StageCreateCursorFirst(r) ==
  /\ pc = "next" /\ phase = "history" /\ Least(r)
  /\ r \in accepts /\ r \notin completed
  /\ pc' = "staged"
  /\ cur' = r
  /\ ClaimRow(r)
  /\ UNCHANGED <<hist, policy, entry, completed, gen, accepts, phase, queue,
                 prev, silent, desktop, history>>

\* stage_causal_message, its create: no-replace, so an offer already there
\* stays as it is.
StageCreate(r) ==
  /\ pc = "next" /\ phase = "history" /\ Least(r)
  /\ r \in accepts /\ r \notin completed
  /\ pc' = "staged"
  /\ cur' = r
  /\ entry' = IF entry[r] = Absent
              THEN [entry EXCEPT ![r] = Entry(2, gen, "pending")]
              ELSE entry
  /\ UNCHANGED <<hist, policy, lastSeenId, completed, gen, accepts, seen, phase,
                 queue, prev, silent, desktop, history>>

\* stage_causal_message, its reload. An answered or ambiguous file lets the
\* cursor pass; a file of this nonce that may run is claimed; another nonce's
\* file, or none, is PendingCausalInvalid, which ends the process.
StageReload ==
  /\ pc = "staged"
  /\ entry' = Purged
  /\ LET e == entry'[cur] IN
     \/ /\ cur \in completed \/ (e.nonce = gen /\ Ambiguous(e))
        /\ pc' = "next" /\ queue' = queue \ {cur} /\ ClaimRow(cur)
     \/ /\ e.nonce = gen /\ Retryable(e)
        /\ pc' = "claim" /\ UNCHANGED <<queue, seen, lastSeenId>>
     \/ /\ cur \notin completed /\ (e = Absent \/ e.nonce # gen)
        /\ Exit /\ UNCHANGED <<queue, seen, lastSeenId>>
  /\ UNCHANGED <<hist, policy, completed, gen, accepts, phase, cur, prev,
                 silent, desktop, history>>

\* after_durable_pending_claim, first write.
PersistClaimed ==
  /\ pc = "claim"
  /\ pc' = "claimed"
  /\ prev' = seen
  /\ entry' = [entry EXCEPT ![cur] = Entry(2, gen, "claimed")]
  /\ UNCHANGED <<hist, policy, lastSeenId, completed, gen, accepts, seen, phase,
                 queue, cur, silent, desktop, history>>

\* Second write. An offered file is handled before the history below it is
\* read, so rows may be jumped here.
ClaimCursor ==
  /\ pc = "claimed"
  /\ pc' = "cursor"
  /\ ClaimRow(cur)
  /\ overtaken' = IF phase = "pending"
                  THEN overtaken \cup {r \in Rows : seen < r /\ r < cur}
                  ELSE overtaken
  /\ UNCHANGED <<hist, policy, entry, completed, gen, accepts, phase, queue,
                 cur, prev, silent, desktop, turns, passed>>

\* Faulty variant: the turn starts under the claim alone.
PersistExecutingSkipped ==
  /\ pc = "cursor"
  /\ pc' = "turn"
  /\ turns' = [turns EXCEPT ![cur] = @ + 1]
  /\ UNCHANGED <<hist, policy, disk, gen, accepts, seen, phase, queue, cur,
                 prev, silent, desktop, passed, overtaken>>

\* Third write; the turn starts.
PersistExecuting ==
  /\ pc = "cursor"
  /\ pc' = "turn"
  /\ entry' = [entry EXCEPT ![cur] = Entry(2, gen, "executing")]
  /\ turns' = [turns EXCEPT ![cur] = @ + 1]
  /\ UNCHANGED <<hist, policy, lastSeenId, completed, gen, accepts, seen, phase,
                 queue, cur, prev, silent, desktop, passed, overtaken>>

\* The turn is Ok: persist_completed_causal.
TurnAnswered ==
  /\ pc = "turn"
  /\ pc' = "answered"
  /\ completed' = completed \cup {cur}
  /\ UNCHANGED <<hist, policy, lastSeenId, entry, gen, accepts, seen, phase,
                 queue, cur, prev, silent, desktop, history>>

\* remove_pending_causal.
RemovePending ==
  /\ pc = "answered"
  /\ pc' = "next"
  /\ entry' = [entry EXCEPT ![cur] = Absent]
  /\ queue' = queue \ {cur}
  /\ UNCHANGED <<hist, policy, lastSeenId, completed, gen, accepts, seen, phase,
                 cur, prev, silent, desktop, history>>

\* SilentDirectedTurn: no text and no tool, so no effect. The file is
\* released before the watermark is lowered.
TurnSilent ==
  /\ pc = "turn"
  /\ pc' = "released"
  /\ entry' = [entry EXCEPT ![cur] = Entry(2, gen, "pending")]
  /\ turns' = [turns EXCEPT ![cur] = @ - 1]
  /\ UNCHANGED <<hist, policy, lastSeenId, completed, gen, accepts, seen, phase,
                 queue, cur, prev, silent, desktop, passed, overtaken>>

\* Faulty variant: the watermark is put just below the released row.
LowerCursorBelowRow ==
  /\ pc = "released"
  /\ lastSeenId' = cur - 1
  /\ seen' = cur - 1
  /\ queue' = {}
  /\ IF silent < Backoffs THEN pc' = "idle" /\ silent' = silent + 1
                          ELSE Exit /\ silent' = silent
  /\ UNCHANGED <<hist, policy, entry, completed, gen, accepts, phase, cur, prev,
                 desktop, history>>

\* Faulty variant: the backoffs are never used up.
LowerCursorUncapped ==
  /\ pc = "released"
  /\ lastSeenId' = prev
  /\ seen' = prev
  /\ queue' = {}
  /\ pc' = "idle" /\ silent' = silent + 1
  /\ UNCHANGED <<hist, policy, entry, completed, gen, accepts, phase, cur, prev,
                 desktop, history>>

\* The watermark goes back; reconcile_with_silent_recovery tries again after
\* a backoff while it has one left.
LowerCursor ==
  /\ pc = "released"
  /\ lastSeenId' = prev
  /\ seen' = prev
  /\ queue' = {}
  /\ IF silent < Backoffs THEN pc' = "idle" /\ silent' = silent + 1
                          ELSE Exit /\ silent' = silent
  /\ UNCHANGED <<hist, policy, entry, completed, gen, accepts, phase, cur, prev,
                 desktop, history>>

\* Any other failure of the turn keeps both claims and ends the process.
TurnFailed ==
  /\ pc = "turn"
  /\ Exit
  /\ UNCHANGED <<hist, policy, disk, gen, accepts, seen, phase, queue, cur,
                 prev, silent, desktop, history>>

\* reconcile returns Ok; a later call starts with a fresh recovery_index.
Reconciled ==
  /\ pc = "next" /\ phase = "history" /\ queue = {}
  /\ pc' = "idle"
  /\ silent' = 0
  /\ UNCHANGED <<hist, policy, disk, gen, accepts, seen, phase, queue, cur,
                 prev, desktop, history>>

Harness ==
  \/ Boot \/ LoadPending \/ LoadHistory
  \/ \E r \in Rows : NextPending(r) \/ PassRow(r) \/ StageCreate(r)
  \/ StageReload \/ PersistClaimed \/ ClaimCursor \/ PersistExecuting
  \/ TurnAnswered \/ RemovePending \/ TurnSilent \/ LowerCursor \/ TurnFailed
  \/ Reconciled

\* The process is killed or fails at any point of its work.
HarnessCrash ==
  /\ Live
  /\ Exit
  /\ UNCHANGED <<hist, policy, disk, gen, accepts, seen, phase, queue, cur,
                 prev, silent, desktop, history>>

-----------------------------------------------------------------------------
(* The desktop. Its commands run one at a time, under the runtime          *)
(* transition lock and the store lock.                                     *)

\* The daemon stores one more row.
RowStored ==
  /\ hist < MaxRow
  /\ hist' = hist + 1
  /\ UNCHANGED <<policy, disk, process, desktop, history>>

\* The user edits the record; a running harness keeps the policy it has.
EditPolicy(p) ==
  /\ policy' = p
  /\ UNCHANGED <<hist, disk, process, desktop, history>>

\* The mention r passed the checks of wake_managed_agent_from_mention: it is
\* stored, the child holds it, and the record's policy answers its author.
Wakeable(r) == r \in policy /\ r <= hist

\* start_pair finds the tracked process running and only leaves it the file.
OfferLive(r) ==
  /\ dpc = "idle" /\ tracked /\ Live /\ Wakeable(r)
  /\ dpc' = "check" /\ dmsg' = r /\ dnonce' = gen
  /\ UNCHANGED <<hist, policy, disk, process, dtodo, tracked, nonces, history>>

\* start_pair otherwise: end a process an earlier desktop left behind, draw
\* a nonce, and visit the files of earlier launches.
Launch(r) ==
  /\ dpc = "idle" /\ ~(tracked /\ Live) /\ (r = 0 \/ Wakeable(r))
  /\ nonces < MaxNonce
  /\ nonces' = nonces + 1
  /\ Exit
  /\ dpc' = "rebind" /\ dmsg' = r /\ dnonce' = nonces + 1 /\ tracked' = FALSE
  /\ dtodo' = {m \in Rows : entry[m] # Absent}
  /\ UNCHANGED <<hist, policy, disk, gen, accepts, seen, phase, queue, cur,
                 prev, silent, history>>

\* Faulty variant: an executing file is rebound too.
RebindAnyState(m) ==
  /\ dpc = "rebind" /\ m \in dtodo
  /\ dtodo' = dtodo \ {m}
  /\ entry' = [entry EXCEPT ![m] =
       IF m \in completed THEN Absent ELSE Entry(2, dnonce, "pending")]
  /\ UNCHANGED <<hist, policy, lastSeenId, completed, process, dpc, dmsg,
                 dnonce, tracked, nonces, history>>

\* Faulty variant: a claim that never executed is left behind.
RebindPendingOnly(m) ==
  /\ dpc = "rebind" /\ m \in dtodo
  /\ dtodo' = dtodo \ {m}
  /\ entry' = [entry EXCEPT ![m] =
       IF m \in completed THEN Absent
       ELSE IF @.st = "pending" THEN Entry(2, dnonce, "pending") ELSE @]
  /\ UNCHANGED <<hist, policy, lastSeenId, completed, process, dpc, dmsg,
                 dnonce, tracked, nonces, history>>

\* rebind_released_pending_causal_messages, one file.
Rebind(m) ==
  /\ dpc = "rebind" /\ m \in dtodo
  /\ dtodo' = dtodo \ {m}
  /\ entry' = [entry EXCEPT ![m] =
       IF m \in completed THEN Absent
       ELSE IF Retryable(@) THEN Entry(2, dnonce, "pending") ELSE @]
  /\ UNCHANGED <<hist, policy, lastSeenId, completed, process, dpc, dmsg,
                 dnonce, tracked, nonces, history>>

RebindDone ==
  /\ dpc = "rebind" /\ dtodo = {}
  /\ dpc' = IF dmsg = 0 THEN "spawn" ELSE "check"
  /\ UNCHANGED <<hist, policy, disk, process, dmsg, dnonce, dtodo, tracked,
                 nonces, history>>

\* The command is over, or goes on to spawn the harness it prepared.
Persisted == dpc' = IF dnonce = gen THEN "idle" ELSE "spawn"
Refused == dpc' = "idle"

\* persist_native_pending_causal_message: an answered mention is refused.
PersistCheck ==
  /\ dpc = "check"
  /\ IF dmsg \in completed THEN Refused ELSE dpc' = "create"
  /\ UNCHANGED <<hist, policy, disk, process, dmsg, dnonce, dtodo, tracked,
                 nonces, history>>

\* Its file does not exist: link it in.
PersistNew ==
  /\ dpc = "create" /\ entry[dmsg] = Absent
  /\ dpc' = "recheck"
  /\ entry' = [entry EXCEPT ![dmsg] = Entry(2, dnonce, "pending")]
  /\ UNCHANGED <<hist, policy, lastSeenId, completed, process, dmsg, dnonce,
                 dtodo, tracked, nonces, history>>

\* Faulty variant: the state of the existing file is not looked at.
AdoptAnyState ==
  /\ dpc = "create" /\ entry[dmsg] # Absent
  /\ Persisted
  /\ entry' = IF entry[dmsg].ver = 2 /\ entry[dmsg].nonce = dnonce
              THEN entry
              ELSE [entry EXCEPT ![dmsg] = Entry(2, dnonce, "pending")]
  /\ UNCHANGED <<hist, policy, lastSeenId, completed, process, dmsg, dnonce,
                 dtodo, tracked, nonces, history>>

\* Its file exists: adopt_existing_pending_causal_message.
Adopt ==
  /\ dpc = "create" /\ entry[dmsg] # Absent
  /\ IF Ambiguous(entry[dmsg]) THEN Refused /\ UNCHANGED entry
     ELSE /\ Persisted
          /\ entry' = IF entry[dmsg].ver = 2 /\ entry[dmsg].nonce = dnonce
                      THEN entry
                      ELSE [entry EXCEPT ![dmsg] = Entry(2, dnonce, "pending")]
  /\ UNCHANGED <<hist, policy, lastSeenId, completed, process, dmsg, dnonce,
                 dtodo, tracked, nonces, history>>

\* After the link it looks for the tombstone again.
PersistRecheck ==
  /\ dpc = "recheck"
  /\ IF dmsg \in completed
     THEN Refused /\ entry' = [entry EXCEPT ![dmsg] = Absent]
     ELSE Persisted /\ UNCHANGED entry
  /\ UNCHANGED <<hist, policy, lastSeenId, completed, process, dmsg, dnonce,
                 dtodo, tracked, nonces, history>>

\* The harness process starts and the desktop registers it.
Spawn ==
  /\ dpc = "spawn"
  /\ dpc' = "idle" /\ tracked' = TRUE
  /\ pc' = "boot" /\ gen' = dnonce /\ accepts' = policy
  /\ seen' = 0 /\ phase' = "pending" /\ queue' = {} /\ cur' = 0 /\ prev' = 0
  /\ silent' = 0
  /\ UNCHANGED <<hist, policy, disk, dmsg, dnonce, dtodo, nonces, history>>

Desktop ==
  \/ \E r \in Rows : OfferLive(r) \/ Rebind(r)
  \/ \E r \in 0..MaxRow : Launch(r)
  \/ RebindDone \/ PersistCheck \/ PersistNew \/ Adopt \/ PersistRecheck
  \/ Spawn

\* The desktop goes away in the middle of a command, or its command fails;
\* it comes back knowing no process.
DesktopCrash ==
  /\ dpc' = "idle" /\ tracked' = FALSE
  /\ UNCHANGED <<hist, policy, disk, process, dmsg, dnonce, dtodo, nonces,
                 history>>

-----------------------------------------------------------------------------
\* A first launch, or the directory an earlier build left: its files are
\* version 1, and it raised the watermark for what it claimed.
Init ==
  /\ hist \in 0..MaxRow
  /\ policy \in Policies
  /\ lastSeenId \in -1..hist
  /\ entry \in [Rows -> {Absent} \cup {Entry(1, 0, s) : s \in {"pending", "claimed"}}]
  /\ \A r \in Rows :
       /\ entry[r] # Absent => r <= hist
       /\ entry[r].st = "claimed" => r <= lastSeenId
  /\ completed = {}
  /\ pc = "down" /\ gen = 0 /\ accepts = {} /\ seen = 0
  /\ phase = "pending" /\ queue = {} /\ cur = 0 /\ prev = 0 /\ silent = 0
  /\ dpc = "idle" /\ dmsg = 0 /\ dnonce = 0 /\ dtodo = {}
  /\ tracked = FALSE /\ nonces = 0
  /\ turns = [r \in Rows |-> IF entry[r].st = "claimed" THEN 1 ELSE 0]
  /\ passed = {r \in Rows : r <= lastSeenId}
  /\ overtaken = {}

Next ==
  \/ Harness
  \/ HarnessCrash
  \/ RowStored
  \/ \E p \in Policies : EditPolicy(p)
  \/ Desktop
  \/ DesktopCrash

Spec == Init /\ [][Next]_vars

\* The harness polls every RECONCILE_INTERVAL and every turn ends by the ACP
\* client's timeouts, so a running process does not stand still. Nothing is
\* assumed of the user, the daemon, crashes or restarts.
FairSpec == Spec /\ WF_vars(Harness)

-----------------------------------------------------------------------------
(* Properties.                                                             *)

\* The harness has a row in hand.
InHand == pc \in {"staged", "claim", "claimed", "cursor", "turn", "answered",
                  "released"}

\* The files, the cursor in memory and on disk, and both programs' progress
\* hold what their types allow: silent never exceeds the backoffs, and the
\* lowered watermark never falls below zero.
TypeOK ==
  /\ hist \in 0..MaxRow
  /\ policy \in SUBSET Rows
  /\ lastSeenId \in -1..MaxRow
  /\ entry \in [Rows -> Entries]
  /\ completed \in SUBSET Rows
  /\ pc \in {"down", "boot", "idle", "next", "staged", "claim", "claimed",
             "cursor", "turn", "answered", "released"}
  /\ gen \in Nonces
  /\ accepts \in SUBSET Rows
  /\ seen \in 0..MaxRow
  /\ phase \in {"pending", "history"}
  /\ queue \in SUBSET Rows
  /\ cur \in 0..MaxRow
  /\ InHand => cur \in Rows
  /\ prev \in 0..MaxRow
  /\ silent \in 0..Backoffs
  /\ dpc \in {"idle", "rebind", "check", "create", "recheck", "spawn"}
  /\ dmsg \in 0..MaxRow
  /\ dpc \in {"check", "create", "recheck"} => dmsg \in Rows
  /\ dnonce \in Nonces
  /\ dtodo \in SUBSET Rows
  /\ tracked \in BOOLEAN
  /\ nonces \in Nonces
  /\ turns \in [Rows -> Int]
  /\ passed \in SUBSET Rows
  /\ overtaken \in SUBSET Rows

\* Across any crashes, relaunches and repeated wakes, a mention gets at most
\* one turn that may have had a visible effect: the claims of
\* after_durable_pending_claim hold until the turn is known to be silent.
AtMostOneTurn == \A r \in Rows : turns[r] <= 1

\* A row at or below the durable watermark is never simply forgotten: it was
\* answered, it still has its handoff file, the harness passed it because it
\* was not directed (or was there before the first launch), or the cursor
\* jumped it to serve a later mention the desktop had offered.
NoForgottenMention ==
  \A r \in Rows :
    r <= lastSeenId =>
      r \in completed \/ entry[r] # Absent \/ r \in passed \/ r \in overtaken

\* The ordinary history path never meets a handoff file of another launch:
\* rebinding leaves only executing files behind, and the watermark stays
\* above those, so stage_causal_message cannot end in PendingCausalInvalid
\* and wedge every later launch.
StagingNeverInvalid ==
  pc = "staged" =>
    cur \in completed \/ (entry[cur] # Absent /\ entry[cur].nonce = gen)

\* Every mention offered for the running harness carries its nonce, so it
\* does load it: nothing it could still run is left under an older nonce.
NoStrandedOffer ==
  Live => \A r \in Rows : Retryable(entry[r]) => entry[r].nonce = gen

\* What may have run is never offered again: an ambiguous file changes only
\* when its own harness, still in that turn, ends it.
AmbiguityIsFinal ==
  [][\A r \in Rows :
       Ambiguous(entry[r]) /\ entry'[r] # entry[r] =>
         \/ r \in completed
         \/ pc = "turn" /\ cur = r /\ entry[r].nonce = gen]_vars

\* The running harness serves what it accepts: the mention is answered, ends
\* ambiguous, is overtaken, or the process ends.
MentionServed ==
  \A r \in Rows :
    (Live /\ r \in accepts /\ r <= hist)
      ~> \/ ~Live \/ r \in completed \/ Ambiguous(entry[r])
         \/ r \in passed \/ r \in overtaken

-----------------------------------------------------------------------------
(* The handoff as the delivery of mentions.                                *)

StatusOf(r) ==
  IF r \in completed THEN "answered"
  ELSE IF Ambiguous(entry[r])
       THEN IF pc = "turn" /\ cur = r THEN "running" ELSE "doubt"
       ELSE IF entry[r] # Absent THEN "offered" ELSE "unseen"

Delivery == INSTANCE MentionDelivery
  WITH Mentions <- Rows, status <- [r \in Rows |-> StatusOf(r)]

\* The files and the two programs that share them implement the delivery of
\* mentions: one turn at a time, and an answer or a doubt is final.
ImplementsDelivery == Delivery!Spec
=============================================================================
