----------------------------- MODULE AgentTurns -----------------------------
(***************************************************************************)
(* The "agent is working" badges of the desktop, for one managed agent.    *)
(*                                                                         *)
(* The agent's host sends observer frames over direct messages.  They may  *)
(* be lost, repeated and reordered.  observerRelayStore.ts keeps the       *)
(* frames of the current generation in a sorted, capped buffer, and on     *)
(* every change activeAgentTurnsStore.ts folds the whole buffer again into *)
(* the map of active turns.  A watermark makes the replay harmless,        *)
(* tombstones keep a finished turn down, and an interval prunes the turns  *)
(* nobody hears of any more.  useCommunityInit.ts saves the map when the   *)
(* user leaves a community and restores it on return.                      *)
(*                                                                         *)
(* The maps of two agents never meet, so one agent is enough.  The clock   *)
(* offset, which only shifts the elapsed time shown, is left out.  So are  *)
(* the removal of a community, which discards its snapshot on purpose      *)
(* (clearSavedCommunitySnapshot), the state without a community, and the   *)
(* onboarding screen, which unmounts the tree without a switch.            *)
(***************************************************************************)
EXTENDS Integers, Sequences, FiniteSets

CONSTANTS
  Turns,          \* turn ids
  ChannelOf,      \* the channel of each turn
  Communities,
  Home,           \* the community the desktop starts with
  None,           \* null, for a turn id or a community
  MaxTurns,       \* MAX_TURNS_PER_AGENT, 4 in the code
  MaxTombstones,  \* MAX_TERMINAL_TOMBSTONES, 16 in the code
  MaxEvents,      \* MAX_OBSERVER_EVENTS, 3000 in the code
  FrameGap,       \* FRAME_GAP_PAUSE_MS in prune intervals, 4 in the code
  RemoveAfter,    \* REMOVE_AFTER_MS in prune intervals, 5 in the code
  PauseMax,       \* PRUNE_PAUSE_MAX_MS in prune intervals, 36 in the code
  MaxClock,       \* bound: milliseconds of the host's clock
  MaxFrames,      \* bound: frames the host sends
  MaxSwitches     \* bound: changes of community

ASSUME TurnsAssumption ==
  /\ None \notin Turns /\ None \notin Communities /\ Home \in Communities
  /\ MaxTurns \in Nat \ {0} /\ MaxTombstones \in Nat \ {0} /\ MaxEvents \in Nat \ {0}
  /\ MaxFrames \in Nat /\ MaxClock \in Nat /\ MaxSwitches \in Nat
  /\ FrameGap \in Nat /\ RemoveAfter \in Nat /\ PauseMax \in Nat
  /\ FrameGap < RemoveAfter /\ RemoveAfter < PauseMax

VARIABLES
  host,      \* the agent's host: clock, seq, the phase of each turn, when it began and ended
  net,       \* the frames sent so far; any of them may arrive, again or never
  buffer,    \* eventsByAgent: frames in (timestamp, seq) order
  store,     \* activeTurnsByAgent, terminalAtByAgent and lastProcessed
  saved,     \* savedByCommunity
  active,    \* the active community
  prev,      \* prevCommunityIdRef
  binding,   \* the effect awaits bindNativeGroup
  mounted,   \* the community is bound and its tree rendered: bridges, listeners and prune interval
  switches,  \* changes of community so far
  stream     \* connectionState of the observer subscription

communityVars == <<saved, active, prev, binding, mounted, switches>>
vars == <<host, net, buffer, store, communityVars, stream>>

-----------------------------------------------------------------------------
(* Observer events *)

Frame(at, seq, kind, turn, channel, began) ==
  [at |-> at, seq |-> seq, kind |-> kind, turn |-> turn, channel |-> channel,
   began |-> began]

\* Older than every frame: an absent watermark.
NoFrame == Frame(0, 0, "none", None, None, 0)

\* compareObserverEvents and isObserverEventAfter
After(e, f) == e.at > f.at \/ (e.at = f.at /\ e.seq > f.seq)

\* The early return of appendAgentEvent: (seq, timestamp) is there already.
Held(b, e) == \E i \in DOMAIN b : b[i].seq = e.seq /\ b[i].at = e.at

\* Faulty variant: without the sort.
AppendUnsorted(b, e) ==
  LET all == Append(b, e)
  IN SubSeq(all, (IF Len(all) > MaxEvents THEN Len(all) - MaxEvents ELSE 0) + 1, Len(all))

\* The rest of appendAgentEvent: sorted, and trimmed to the newest MaxEvents.
AppendAgentEvent(b, e) ==
  LET before == CHOOSE k \in 0..Len(b) : /\ \A i \in 1..k : After(e, b[i])
                                         /\ \A i \in (k + 1)..Len(b) : After(b[i], e)
      sorted == [i \in 1..(Len(b) + 1) |->
                   IF i <= before THEN b[i] ELSE IF i = before + 1 THEN e ELSE b[i - 1]]
      excess == IF Len(sorted) > MaxEvents THEN Len(sorted) - MaxEvents ELSE 0
  IN SubSeq(sorted, excess + 1, Len(sorted))

-----------------------------------------------------------------------------
(* The maps, in insertion order *)

EmptyStore == [turns |-> <<>>, terminals |-> <<>>, mark |-> NoFrame]

Has(m, t) == \E i \in DOMAIN m : m[i].turn = t

Entry(m, t) == m[CHOOSE i \in DOMAIN m : m[i].turn = t]

\* Map.delete
Without(m, t) ==
  LET at == CHOOSE i \in DOMAIN m : m[i].turn = t
  IN IF Has(m, t)
       THEN [i \in 1..(Len(m) - 1) |-> IF i < at THEN m[i] ELSE m[i + 1]]
       ELSE m

\* Map.set keeps the place of a key that is there already.
Put(m, x) ==
  IF Has(m, x.turn)
    THEN [i \in DOMAIN m |-> IF m[i].turn = x.turn THEN x ELSE m[i]]
    ELSE Append(m, x)

\* startTurn: at the cap, the first of the earliest started turns makes room.
StartTurn(s, t, channel, at) ==
  LET m == s.turns
      full == Len(m) >= MaxTurns /\ ~Has(m, t)
      first == CHOOSE i \in DOMAIN m :
                 \A j \in DOMAIN m :
                   /\ m[i].startedAt <= m[j].startedAt
                   /\ j < i => m[i].startedAt < m[j].startedAt
      room == IF full THEN Without(m, m[first].turn) ELSE m
  IN [s EXCEPT !.turns = Put(room, [turn |-> t, channel |-> channel,
                                    startedAt |-> at, idle |-> 0])]

\* recordTerminal
RecordTerminal(m, t, at) ==
  LET all == Put(m, [turn |-> t, at |-> at])
  IN IF Len(all) > MaxTombstones THEN Tail(all) ELSE all

\* endTurn: without a turn id the first turn of the channel is ended.
EndTurn(s, e) ==
  LET m == s.turns
      ofChannel == {i \in DOMAIN m : m[i].channel = e.channel}
      t == IF e.turn # None THEN e.turn
           ELSE m[CHOOSE i \in ofChannel : \A j \in ofChannel : i <= j].turn
  IN IF e.turn = None /\ ofChannel = {}
       THEN s
       ELSE [s EXCEPT !.turns = Without(m, t),
                      !.terminals = RecordTerminal(s.terminals, t, e.at)]

\* Faulty variant: a frame of the same millisecond revives.
MayResurrectAtEnd(s, e) ==
  Has(s.terminals, e.turn) => e.at >= Entry(s.terminals, e.turn).at

\* resurrectTurn: only by a frame strictly later than the recorded end.
MayResurrect(s, e) ==
  Has(s.terminals, e.turn) => e.at > Entry(s.terminals, e.turn).at

\* recordActivity, or else resurrectTurn
HearOf(s, e) ==
  IF Has(s.turns, e.turn)
    THEN [s EXCEPT !.turns = Put(@, [Entry(@, e.turn) EXCEPT !.idle = 0])]
    ELSE IF MayResurrect(s, e)
           THEN StartTurn(s, e.turn, e.channel, e.began)
           ELSE s

\* Faulty variant: only starts and pings are gated.
PassesEnds(s, e) == After(e, s.mark) \/ e.kind = "turn_error"

\* The gate of processEvent on the watermark.
Passes(s, e) == After(e, s.mark)

\* processEvent
ProcessEvent(s, e) ==
  LET m == [s EXCEPT !.mark = e]
  IN IF ~Passes(s, e) THEN s
     ELSE CASE e.kind = "turn_started"   -> StartTurn(m, e.turn, e.channel, e.at)
            [] e.kind = "turn_completed" -> EndTurn(m, e)
            [] e.kind = "turn_error"     -> EndTurn(m, e)
            [] e.kind = "turn_liveness"  -> HearOf(m, e)

\* syncAgentTurnsFromEvents: the whole buffer, oldest first.
Sync(s, b) ==
  LET upTo[i \in 0..Len(b)] ==
        IF i = 0 THEN s ELSE ProcessEvent(upTo[i - 1], b[i])
  IN upTo[Len(b)]

\* Faulty variant: the pause has no bound.
PausePruneForever(m) == \A i \in DOMAIN m : m[i].idle > FrameGap

\* shouldPausePrune: every turn is silent, and not for too long.
ShouldPausePrune(m) ==
  /\ \A i \in DOMAIN m : m[i].idle > FrameGap
  /\ \E i \in DOMAIN m : m[i].idle < PauseMax

\* A turn heard of within RemoveAfter stays.
Keep(m, x) == IF x.idle <= RemoveAfter THEN Append(m, x) ELSE m

\* The turns that stay, in their order.
Unexpired(m) ==
  LET upTo[i \in 0..Len(m)] == IF i = 0 THEN <<>> ELSE Keep(upTo[i - 1], m[i])
  IN upTo[Len(m)]

\* pruneExpired
PruneExpired(m) == IF ShouldPausePrune(m) THEN m ELSE Unexpired(m)

Older(m) ==
  [i \in DOMAIN m |-> [m[i] EXCEPT !.idle = IF @ < PauseMax THEN @ + 1 ELSE @]]

\* The turns whose badge is on the screen.
Shown == IF mounted THEN {store.turns[i].turn : i \in DOMAIN store.turns} ELSE {}

-----------------------------------------------------------------------------
(* The agent's host *)

Send(kind, t, turnId, at, phase) ==
  LET began == IF kind = "turn_started" THEN at ELSE host.began[t]
  IN /\ Cardinality(net) < MaxFrames
     /\ at \in {host.clock, host.clock + 1} /\ at \in 1..MaxClock
     /\ host' = [host EXCEPT !.clock = at, !.seq = @ + 1, !.phase[t] = phase,
                             !.began[t] = began,
                             !.ended[t] = IF phase = "over" /\ @ = 0 THEN at ELSE @]
     /\ net' = net \cup {Frame(at, host.seq + 1, kind, turnId, ChannelOf[t], began)}
     /\ UNCHANGED <<buffer, store, communityVars, stream>>

HostStarts(t, at) ==
  host.phase[t] = "new" /\ Send("turn_started", t, t, at, "running")

HostPings(t, at) ==
  host.phase[t] = "running" /\ Send("turn_liveness", t, t, at, "running")

HostCompletes(t, at) ==
  host.phase[t] = "running" /\ Send("turn_completed", t, t, at, "over")

\* turn_error and agent_panic may carry no turn id.
HostPanics(t, at) ==
  host.phase[t] = "running" /\ Send("turn_error", t, None, at, "over")

\* The liveness timer fires in the millisecond in which the turn ended.
HostPingsLate(t) ==
  /\ host.phase[t] = "over" /\ host.ended[t] = host.clock
  /\ Send("turn_liveness", t, t, host.clock, "over")

\* The host dies without a word and comes back: seq restarts, time goes on.
HostCrashes ==
  /\ \E t \in Turns : host.phase[t] = "running"
  /\ host.clock < MaxClock
  /\ host' = [host EXCEPT !.clock = @ + 1, !.seq = 0,
                !.phase = [t \in Turns |-> IF @[t] = "running" THEN "over" ELSE @[t]],
                !.ended = [t \in Turns |-> IF host.phase[t] = "running"
                                             THEN host.clock ELSE @[t]]]
  /\ UNCHANGED <<net, buffer, store, communityVars, stream>>

-----------------------------------------------------------------------------
(* The observer stream *)

\* ensureRelayObserverSubscription, called while the bridge is mounted
EnsureSubscription ==
  /\ mounted /\ stream \in {"idle", "error"}
  /\ stream' = "connecting"
  /\ UNCHANGED <<host, net, buffer, store, communityVars>>

\* The start of the current generation ends.
Connected(outcome) ==
  /\ stream = "connecting"
  /\ stream' = outcome
  /\ UNCHANGED <<host, net, buffer, store, communityVars>>

\* A frame of the current generation arrives: ingestObserverEvent.  The bridge
\* folds the buffer when the agent is listed as running or deployed.
Ingest(f, listed) ==
  /\ stream = "open" /\ ~Held(buffer, f)
  /\ buffer' = AppendAgentEvent(buffer, f)
  /\ store' = IF mounted /\ listed THEN Sync(store, buffer') ELSE store
  /\ UNCHANGED <<host, net, communityVars, stream>>

\* The list of agents changes, or a listener is notified: syncAll.
SyncAll ==
  /\ mounted
  /\ store' = Sync(store, buffer)
  /\ UNCHANGED <<host, net, buffer, communityVars, stream>>

\* One prune interval passes.
Tick ==
  /\ store' = [store EXCEPT !.turns = IF mounted THEN PruneExpired(Older(@)) ELSE Older(@)]
  /\ UNCHANGED <<host, net, buffer, communityVars, stream>>

-----------------------------------------------------------------------------
(* Communities *)

NoSnapshot == <<>>

\* saveActiveAgentTurnsForCommunity
Snapshot(s) == IF s.turns = <<>> /\ s.terminals = <<>> THEN NoSnapshot ELSE <<s>>

\* Faulty variant: the left community stays in prevCommunityIdRef.
SavePrevAgain ==
  /\ saved' = IF prev # None THEN [saved EXCEPT ![prev] = Snapshot(store)] ELSE saved
  /\ UNCHANGED prev

\* What the effect of useCommunityInit saves for the community it leaves.
SavePrev ==
  /\ saved' = IF prev # None THEN [saved EXCEPT ![prev] = Snapshot(store)] ELSE saved
  /\ prev' = None

\* Faulty variant: the observer stream is not closed.
ResetTurnsOnly ==
  buffer' = <<>> /\ store' = EmptyStore /\ UNCHANGED stream

\* resetAgentObserverStore and resetActiveAgentTurnsStore
ResetCommunityState ==
  buffer' = <<>> /\ store' = EmptyStore /\ stream' = "idle"

\* switchCommunity, or reconnectCommunity when c is the active one: the old
\* tree is unmounted and the effect runs for c, while an earlier one that
\* still awaits its bind is cancelled.
Switch(c) ==
  /\ switches < MaxSwitches
  /\ switches' = switches + 1 /\ active' = c
  /\ mounted' = FALSE /\ binding' = TRUE
  /\ SavePrev
  /\ ResetCommunityState
  /\ UNCHANGED <<host, net>>

\* restoreActiveAgentTurnsForCommunity
Restored(s) ==
  [s EXCEPT !.turns = [i \in DOMAIN @ |-> [@[i] EXCEPT !.idle = 0]]]

Bound ==
  /\ binding
  /\ store' = IF saved[active] # NoSnapshot THEN Restored(saved[active][1]) ELSE store
  /\ saved' = [saved EXCEPT ![active] = NoSnapshot]
  /\ prev' = active /\ binding' = FALSE /\ mounted' = TRUE
  /\ UNCHANGED <<host, net, buffer, active, switches, stream>>

BindFails ==
  /\ binding
  /\ binding' = FALSE
  /\ UNCHANGED <<host, net, buffer, store, saved, active, prev, mounted, switches, stream>>

-----------------------------------------------------------------------------
Init ==
  /\ host = [clock |-> 1, seq |-> 0, phase |-> [t \in Turns |-> "new"],
             began |-> [t \in Turns |-> 0], ended |-> [t \in Turns |-> 0]]
  /\ net = {}
  /\ buffer = <<>> /\ store = EmptyStore
  /\ saved = [c \in Communities |-> NoSnapshot]
  /\ active = Home /\ prev = None
  /\ binding = TRUE /\ mounted = FALSE
  /\ switches = 0 /\ stream = "idle"

Host ==
  \/ \E t \in Turns, at \in 1..MaxClock :
       HostStarts(t, at) \/ HostPings(t, at) \/ HostCompletes(t, at) \/ HostPanics(t, at)
  \/ \E t \in Turns : HostPingsLate(t)
  \/ HostCrashes

Stream ==
  \/ EnsureSubscription
  \/ \E outcome \in {"open", "error"} : Connected(outcome)
  \/ \E f \in net, listed \in BOOLEAN : Ingest(f, listed)
  \/ SyncAll

Community ==
  \/ \E c \in Communities : Switch(c)
  \/ Bound \/ BindFails

Next == Host \/ Stream \/ Tick \/ Community

Spec == Init /\ [][Next]_vars

\* The prune interval fires again and again and the bind is answered.
\* Nothing is asked of the host, the network or the user.
Fairness == WF_vars(Tick) /\ WF_vars(Bound \/ BindFails)

FairSpec == Spec /\ Fairness

-----------------------------------------------------------------------------
(* Properties *)

FrameType ==
  [at : 1..MaxClock, seq : 1..MaxFrames,
   kind : {"turn_started", "turn_liveness", "turn_completed", "turn_error"},
   turn : Turns \cup {None}, channel : {ChannelOf[t] : t \in Turns}, began : 0..MaxClock]

StoreType(s) ==
  /\ DOMAIN s = {"turns", "terminals", "mark"}
  /\ Len(s.turns) <= MaxTurns /\ Len(s.terminals) <= MaxTombstones
  /\ \A m \in {s.turns, s.terminals} : \A i, j \in DOMAIN m :
       m[i].turn \in Turns /\ (m[i].turn = m[j].turn => i = j)
  /\ \A i \in DOMAIN s.turns : s.turns[i].idle \in 0..PauseMax
  /\ s.mark \in FrameType \cup {NoFrame}

(***************************************************************************)
(* The variables have their types.  The caps of startTurn, recordTerminal  *)
(* and appendAgentEvent hold, no key is twice in a map, and the buffer is  *)
(* in the strict (timestamp, seq) order processEvent relies on.            *)
(***************************************************************************)
TypeOK ==
  /\ net \subseteq FrameType
  /\ Len(buffer) <= MaxEvents
  /\ \A i, j \in DOMAIN buffer : buffer[i] \in net /\ (i < j => After(buffer[j], buffer[i]))
  /\ StoreType(store)
  /\ \A c \in Communities : saved[c] # NoSnapshot => StoreType(saved[c][1])
  /\ active \in Communities /\ prev \in Communities \cup {None}
  /\ <<binding, mounted>> \in BOOLEAN \X BOOLEAN
  /\ switches \in 0..MaxSwitches
  /\ stream \in {"idle", "connecting", "open", "error"}

(***************************************************************************)
(* A turn whose end the store has recorded is not shown again: no order,   *)
(* repetition or late liveness ping of its frames, no fold of a buffer     *)
(* that was not synced for a while, and no change of community brings back *)
(* the badge of a turn that ended no later than its tombstone says.        *)
(***************************************************************************)
NoDeadBadge ==
  \A t \in Shown :
    Has(store.terminals, t) /\ host.ended[t] # 0 =>
      Entry(store.terminals, t).at < host.ended[t]

(***************************************************************************)
(* A full replay of the buffer is a no-op once it has been folded: the     *)
(* watermark keeps a stale turn_error without a turn id from ending        *)
(* another turn of its channel, and a stale start from coming back.        *)
(***************************************************************************)
ReplayIsIdle ==
  LET once == Sync(store, buffer) IN Sync(once, buffer) = once

(***************************************************************************)
(* A snapshot leaves savedByCommunity only by being restored: a rapid      *)
(* switch through communities whose binds are pending or fail does not     *)
(* save the emptied store over it.                                         *)
(***************************************************************************)
SnapshotNotLost ==
  [][\A c \in Communities :
       saved[c] # NoSnapshot /\ saved'[c] # saved[c] =>
         store' = Restored(saved[c][1])]_vars

(***************************************************************************)
(* Until a community is bound its stores are empty and no frame reaches    *)
(* them, so what restore replaces is never a turn heard of in between: the *)
(* claim at restoreActiveAgentTurnsForCommunity about its call site.       *)
(***************************************************************************)
CleanSlate ==
  ~mounted => store = EmptyStore /\ buffer = <<>> /\ stream = "idle"

(***************************************************************************)
(* The badge of a turn that is over goes away for good, also when every    *)
(* frame that says so is lost, skipped below the watermark, or was         *)
(* handled in another community: the pause of the prune is bounded.        *)
(***************************************************************************)
EndedBadgeGone ==
  \A t \in Turns : host.phase[t] = "over" ~> [](t \notin Shown)

=============================================================================
