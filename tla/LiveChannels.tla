---------------------------- MODULE LiveChannels ----------------------------
(***************************************************************************)
(* The live group subscriptions of the desktop and the unread dots they    *)
(* feed.                                                                   *)
(*                                                                         *)
(* The effect of useLiveChannelUpdates runs again whenever the set of      *)
(* channel ids changes.  A run closes the streams of the channels that     *)
(* left, opens one for every member channel that has none, and retries     *)
(* with a delay while any of them fails.  A run that a later one replaced  *)
(* is cancelled: it closes what it still opens, and the frame callbacks it *)
(* installed return at once.                                               *)
(*                                                                         *)
(* A frame that passes becomes an observed event of its channel            *)
(* (useUnreadChannels), and the sidebar compares the observed events with  *)
(* the read markers of ReadStateManager: one per channel, per thread and   *)
(* per message.  Markers and the channels marked unread by hand are        *)
(* written through to local storage.                                       *)
(*                                                                         *)
(* Direct messages come over one stream of their own, which is not here.   *)
(* An event stands for a message that notifies this user: of another       *)
(* author, not muted, and, if a reply, in the one thread of its channel,   *)
(* which the user takes part in.  Its frame and its row in the thread      *)
(* panel bear the same id and may bear different seconds.                  *)
(***************************************************************************)
EXTENDS Integers, FiniteSets, FiniteSetsExt

CONSTANTS
  Channels,   \* group channel ids
  None,       \* no channel is open
  Events,     \* the messages of others: ch, reply, the seconds of the frame (at) and of the row
  Touched,    \* bound: the channels the user opens and marks
  Marked,     \* bound: the messages the user marks one by one
  MayDie,     \* whether a stream may end by itself
  MaxTime,    \* bound: the latest second of any message
  MaxRuns     \* bound: runs of the subscription effect

Seconds == 1..MaxTime

ASSUME LiveAssumption ==
  /\ None \notin Channels /\ Touched \subseteq Channels /\ Marked \subseteq Events
  /\ MaxTime \in Nat /\ MaxRuns \in Nat \ {0} /\ MayDie \in BOOLEAN
  /\ Events \subseteq [ch : Channels, at : Seconds, row : Seconds, reply : BOOLEAN]

\* The contexts of the read state: a channel id, thread:<root> and msg:<id>.
Contexts == ({"channel", "thread"} \X Channels) \cup ({"msg"} \X Events)

VARIABLES
  roster,    \* the channels of channelIdsKey
  run,       \* the current run of the effect; isCancelled is TRUE in the others
  phase,     \* runSync of the current run
  failed,    \* anyFailed of its pass
  opening,   \* calls of x0x_subscribe_live that have not been answered
  opened,    \* answered calls whose continuation has not run yet
  subs,      \* liveSubsRef: the run that opened the channel's stream, 0 for none
  streams,   \* LIVE_STREAMS of the native side
  active,    \* the channel on the screen
  latest,    \* latestByChannelRef, 0 for no entry
  observed,  \* observedUnreadEventsByChannelRef
  marks,     \* effectiveState: the read marker of each context, 0 for none
  forced,    \* forcedUnreadRef
  stored,    \* local storage: the markers and the forced channels
  heard      \* history: the events recorded since the component was mounted

subVars == <<roster, run, phase, failed, opening, opened, subs, streams>>
unreadVars == <<latest, observed, marks, forced, stored, heard>>
vars == <<subVars, active, unreadVars>>

Stream(c, r) == [ch |-> c, run |-> r]

-----------------------------------------------------------------------------
(* The subscription effect *)

\* The part of syncSubs before its await: the streams of the channels that
\* left are closed, and every member channel without one is opened.
SyncSubs(members, registered, r) ==
  /\ subs' = [c \in Channels |-> IF c \in members THEN registered[c] ELSE 0]
  /\ streams' = streams \ {Stream(c, registered[c]) : c \in Channels \ members}
  /\ opening' = opening \cup {Stream(c, r) : c \in {d \in members : registered[d] = 0}}
  /\ phase' = "syncing"
  /\ failed' = FALSE

\* A channel joins or leaves: the cleanup cancels the run and its timer, the
\* effect starts the next one.  The registered streams stay.
ChangeRoster(members) ==
  /\ run < MaxRuns /\ members # roster
  /\ roster' = members
  /\ run' = run + 1
  /\ SyncSubs(members, subs, run')
  /\ active' = IF active \in members THEN active ELSE None
  /\ UNCHANGED <<opened, unreadVars>>

\* x0x_subscribe_live registers the stream and answers.
Opens(s) ==
  /\ s \in opening
  /\ opening' = opening \ {s}
  /\ opened' = opened \cup {s}
  /\ streams' = streams \cup {s}
  /\ UNCHANGED <<roster, run, phase, failed, subs, active, unreadVars>>

\* It cannot resolve the group's transport.
OpenFails(s) ==
  /\ s \in opening
  /\ opening' = opening \ {s}
  /\ failed' = (failed \/ s.run = run)
  /\ UNCHANGED <<roster, run, phase, opened, subs, streams, active, unreadVars>>

\* Faulty variant: without the check of isCancelled.
ContinueAnyRun(s) ==
  /\ s \in opened
  /\ opened' = opened \ {s}
  /\ subs' = [subs EXCEPT ![s.ch] = s.run]
  /\ UNCHANGED <<roster, run, phase, failed, opening, streams, active, unreadVars>>

\* The continuation of an addition: a cancelled run closes its stream.
Continue(s) ==
  /\ s \in opened
  /\ opened' = opened \ {s}
  /\ subs' = IF s.run = run THEN [subs EXCEPT ![s.ch] = run] ELSE subs
  /\ streams' = IF s.run = run THEN streams ELSE streams \ {s}
  /\ UNCHANGED <<roster, run, phase, failed, opening, active, unreadVars>>

\* Faulty variant: no retry once some addition of the pass went through.
SettleIfAny ==
  /\ phase = "syncing"
  /\ \A s \in opening \cup opened : s.run # run
  /\ phase' = IF failed /\ (\A c \in roster : subs[c] # run) THEN "waiting" ELSE "done"
  /\ UNCHANGED <<roster, run, failed, opening, opened, subs, streams, active, unreadVars>>

\* Promise.allSettled returns, and runSync arms the retry if any failed.
Settle ==
  /\ phase = "syncing"
  /\ \A s \in opening \cup opened : s.run # run
  /\ phase' = IF failed THEN "waiting" ELSE "done"
  /\ UNCHANGED <<roster, run, failed, opening, opened, subs, streams, active, unreadVars>>

\* The retry timer of the current run.
Retry ==
  /\ phase = "waiting"
  /\ SyncSubs(roster, subs, run)
  /\ UNCHANGED <<roster, run, opened, active, unreadVars>>

\* The socket of a stream ends.  The error frame it may send is not a
\* message, and the registered subscription stays.
StreamDies(s) ==
  /\ MayDie /\ s \in streams
  /\ streams' = streams \ {s}
  /\ UNCHANGED <<roster, run, phase, failed, opening, opened, subs, active, unreadVars>>

-----------------------------------------------------------------------------
(* Frames and observed events *)

\* recordObservedUnreadEvent and the rest of handleChannelMessage
HandleChannelMessage(e) ==
  /\ observed' = [observed EXCEPT ![e.ch] = @ \cup {e}]
  /\ latest' = [latest EXCEPT ![e.ch] = Max({@, e.at})]
  /\ heard' = heard \cup {e}
  /\ UNCHANGED <<marks, forced, stored>>

\* A frame of a stream reaches its callback.  A stream of a cancelled run is
\* deaf: its callback returns at once.
Frame(s, e) ==
  /\ s \in streams /\ e.ch = s.ch
  /\ s.run = run /\ s.ch \in roster
  /\ HandleChannelMessage(e)
  /\ UNCHANGED <<subVars, active>>

-----------------------------------------------------------------------------
(* Read state *)

\* Faulty variant: one second past the message.
AdvancePast(mark, t) == IF t >= mark THEN t + 1 ELSE mark

\* advanceContext: a marker only moves forward.
Advance(mark, t) == IF t > mark THEN t ELSE mark

\* Faulty variant: the observed events go also when the marker does not cover them.
MarkReadClears(from, c, readAt, topLevelOnly) ==
  LET seen == IF topLevelOnly THEN 0 ELSE latest[c]
      at == Max({readAt, seen})
      next == [from EXCEPT ![<<"channel", c>>] = Advance(@, at)]
  IN /\ forced' = forced \ {c}
     /\ marks' = next
     /\ stored' = [marks |-> next, forced |-> forced \ {c}]
     /\ latest' = [latest EXCEPT ![c] = 0]
     /\ observed' = [observed EXCEPT ![c] = {}]

\* Faulty variant: the forced flag is cleared in memory only.
MarkReadUnsaved(from, c, readAt, topLevelOnly) ==
  LET seen == IF topLevelOnly THEN 0 ELSE latest[c]
      at == Max({readAt, seen})
      clear == at # 0 /\ seen # 0
      next == [from EXCEPT ![<<"channel", c>>] = Advance(@, at)]
  IN /\ forced' = forced \ {c}
     /\ marks' = next
     /\ stored' = [stored EXCEPT !.marks = next]
     /\ latest' = IF clear THEN [latest EXCEPT ![c] = 0] ELSE latest
     /\ observed' = IF clear THEN [observed EXCEPT ![c] = {}] ELSE observed

\* markChannelRead with resolveChannelReadMarker, from the markers given; 0 is
\* a missing timestamp.
MarkRead(from, c, readAt, topLevelOnly) ==
  LET seen == IF topLevelOnly THEN 0 ELSE latest[c]
      at == Max({readAt, seen})
      clear == at # 0 /\ seen # 0 /\ seen <= at
      next == [from EXCEPT ![<<"channel", c>>] = Advance(@, at)]
  IN /\ forced' = forced \ {c}
     /\ marks' = next
     /\ stored' = [marks |-> next, forced |-> forced \ {c}]
     /\ latest' = IF clear THEN [latest EXCEPT ![c] = 0] ELSE latest
     /\ observed' = IF clear THEN [observed EXCEPT ![c] = {}] ELSE observed

\* A mark that moves the markers of threads or messages alone: their contexts
\* have no forced flag and no observed events.
MarkContexts(next) ==
  /\ marks' = next
  /\ stored' = [stored EXCEPT !.marks = next]
  /\ UNCHANGED <<latest, observed, forced>>

\* The user opens a channel.  The screen marks it read up to the newest
\* top-level message of its timeline, which may be still empty.
Open(c, newest) ==
  /\ c \in roster /\ c # active
  /\ active' = c
  /\ MarkRead(marks, c, newest, TRUE)
  /\ UNCHANGED <<subVars, heard>>

\* A newer top-level message appears in the timeline on the screen.
SeeNewest(newest) ==
  /\ active \in roster
  /\ MarkRead(marks, active, newest, TRUE)
  /\ UNCHANGED <<subVars, active, heard>>

\* Escape on the open channel, or "mark read" in the sidebar, with the
\* channel's lastMessageAt, which may be missing or stale; or a top-level item
\* of the Home inbox, whose channel may have been left.
MarkChannelRead(c, lastMessageAt) ==
  /\ c \in roster \/ (active = None /\ lastMessageAt # 0)
  /\ MarkRead(marks, c, lastMessageAt, FALSE)
  /\ UNCHANGED <<subVars, active, heard>>

\* A thread's item of the Home inbox is marked read: the thread up to its
\* latest activity, and its channel up to the newest of the top-level messages
\* grouped with it, 0 if there are none.
MarkThreadRead(c, latestActivityAt, grouped) ==
  LET next == [marks EXCEPT ![<<"thread", c>>] = Advance(@, latestActivityAt)]
  IN /\ active = None
     /\ \/ grouped = 0 /\ MarkContexts(next)
        \/ grouped # 0 /\ MarkRead(next, c, grouped, FALSE)
     /\ UNCHANGED <<subVars, active, heard>>

\* The thread panel opens on replies or a branch reveals them, or the menu marks
\* a message and its replies: each gets its own marker, at its row's second.
MarkMessagesRead(S) ==
  /\ \A e \in S : e.ch = active
  /\ MarkContexts([ctx \in Contexts |->
                    IF ctx \in {"msg"} \X S THEN Advance(marks[ctx], ctx[2].row)
                                          ELSE marks[ctx]])
  /\ UNCHANGED <<subVars, active, heard>>

MarkChannelUnread(c) ==
  /\ c \in roster \ forced
  /\ forced' = forced \cup {c}
  /\ stored' = [stored EXCEPT !.forced = forced']
  /\ UNCHANGED <<subVars, active, latest, observed, marks, heard>>

\* The contexts whose own markers cover an observed event, and the latest of
\* them, which the event is compared with: observedUnreadEventReadAt
Covering(e) ==
  {<<"channel", e.ch>>, <<"msg", e>>} \cup (IF e.reply THEN {<<"thread", e.ch>>} ELSE {})
ReadAt(e) == Max({marks[ctx] : ctx \in Covering(e)})

\* The dots of the sidebar: unreadChannelIds
Unread ==
  {c \in roster \ {active} :
     c \in forced \/ (latest[c] # 0 /\ \E e \in observed[c] : e.at > ReadAt(e))}

MarkAllChannelsRead ==
  /\ marks' = [ctx \in Contexts |->
                 IF ctx \in {"channel"} \X Unread THEN Advance(marks[ctx], latest[ctx[2]])
                                              ELSE marks[ctx]]
  /\ forced' = forced \ Unread
  /\ stored' = [marks |-> marks', forced |-> forced']
  /\ latest' = [c \in Channels |-> IF c \in Unread THEN 0 ELSE latest[c]]
  /\ observed' = [c \in Channels |-> IF c \in Unread THEN {} ELSE observed[c]]
  /\ UNCHANGED <<subVars, active, heard>>

Leave ==
  /\ active # None
  /\ active' = None
  /\ UNCHANGED <<subVars, unreadVars>>

\* The community's tree is torn down and mounted again: every registered
\* stream is closed, the refs start empty and the stores are read back.
Remount ==
  /\ run < MaxRuns
  /\ run' = run + 1
  /\ LET none == [c \in Channels |-> 0]
     IN /\ subs' = none
        /\ streams' = streams \ {Stream(c, subs[c]) : c \in Channels}
        /\ opening' = opening \cup {Stream(c, run') : c \in roster}
        /\ latest' = none
  /\ phase' = "syncing" /\ failed' = FALSE
  /\ observed' = [c \in Channels |-> {}]
  /\ heard' = {}
  /\ marks' = stored.marks /\ forced' = stored.forced
  /\ active' = None
  /\ UNCHANGED <<roster, opened, stored>>

-----------------------------------------------------------------------------
Unmarked == [ctx \in Contexts |-> 0]

Init ==
  /\ roster \in SUBSET Channels
  /\ run = 1 /\ phase = "syncing" /\ failed = FALSE
  /\ opening = {Stream(c, 1) : c \in roster}
  /\ opened = {} /\ subs = [c \in Channels |-> 0] /\ streams = {}
  /\ active = None
  /\ latest = [c \in Channels |-> 0] /\ observed = [c \in Channels |-> {}]
  /\ marks = Unmarked /\ forced = {}
  /\ stored = [marks |-> Unmarked, forced |-> {}]
  /\ heard = {}

Sync ==
  \/ \E members \in SUBSET Channels : ChangeRoster(members)
  \/ \E s \in opening : Opens(s)
  \/ \E s \in opening : OpenFails(s)
  \/ \E s \in opened : Continue(s)
  \/ Settle
  \/ Retry
  \/ \E s \in streams : StreamDies(s)

Read ==
  \/ \E s \in streams, e \in Events : Frame(s, e)
  \/ \E c \in Touched, t \in Seconds \cup {0} : Open(c, t)
  \/ \E t \in Seconds : SeeNewest(t)
  \/ \E c \in Touched, t \in Seconds \cup {0} : MarkChannelRead(c, t)
  \/ \E c \in Touched, t \in Seconds : \E grouped \in 0..t : MarkThreadRead(c, t, grouped)
  \/ \E S \in SUBSET Marked \ {{}} : MarkMessagesRead(S)
  \/ \E c \in Touched : MarkChannelUnread(c)
  \/ MarkAllChannelsRead
  \/ Leave

Next == Sync \/ Read \/ Remount

Spec == Init /\ [][Next]_vars

(***************************************************************************)
(* Native calls are answered, continuations and timers run, and a channel  *)
(* that is opened again and again is opened in the end.                    *)
(***************************************************************************)
Fairness ==
  /\ \A c \in Channels :
       /\ SF_vars(Opens(Stream(c, run)))
       /\ WF_vars(Opens(Stream(c, run)) \/ OpenFails(Stream(c, run)))
       /\ WF_vars(Continue(Stream(c, run)))
  /\ WF_vars(Settle)
  /\ WF_vars(Retry)

FairSpec == Spec /\ Fairness

-----------------------------------------------------------------------------
(* Properties *)

(***************************************************************************)
(* Types.  Only a member channel has a registered stream, and of a run     *)
(* that has begun.                                                         *)
(***************************************************************************)
TypeOK ==
  /\ roster \subseteq Channels /\ active \in roster \cup {None}
  /\ run \in 1..MaxRuns /\ phase \in {"syncing", "waiting", "done"} /\ failed \in BOOLEAN
  /\ opening \cup opened \cup streams \subseteq [ch : Channels, run : 1..run]
  /\ subs \in [Channels -> 0..run]
  /\ latest \in [Channels -> 0..MaxTime] /\ observed \in [Channels -> SUBSET Events]
  /\ marks \in [Contexts -> 0..MaxTime]
  /\ forced \subseteq Channels
  /\ stored \in [marks : [Contexts -> 0..MaxTime], forced : SUBSET Channels]
  /\ heard \subseteq Events

(***************************************************************************)
(* Every native stream is the registered one of a member channel or waits  *)
(* for its continuation: no order of roster changes, slow answers and      *)
(* retries leaves a stream nobody will close, or two for one channel.      *)
(***************************************************************************)
NoStrayStream ==
  \A s \in streams : (s.ch \in roster /\ subs[s.ch] = s.run) \/ s \in opened

(***************************************************************************)
(* A dot is lit exactly when the user marked the channel unread or a       *)
(* message heard since the mount is newer than the markers that cover it,  *)
(* its channel's, its own and, for a reply, its thread's, whatever the     *)
(* order of late frames, marks by opening, by Escape, in the thread panel  *)
(* and in Home, and although a mark may drop the observed events.          *)
(***************************************************************************)
DotIsExact ==
  \A c \in roster \ {active} :
    c \in Unread <=> c \in forced \/ \E e \in heard : e.ch = c /\ e.at > ReadAt(e)

(***************************************************************************)
(* Read state survives a remount: nothing read before it is shown unread   *)
(* by a frame that arrives again after it, and no mark by hand is lost.    *)
(***************************************************************************)
MarksSurvive ==
  [][/\ \A ctx \in Contexts : marks'[ctx] >= marks[ctx]
     /\ run' # run => forced' = forced]_vars

(***************************************************************************)
(* A member channel gets its stream registered, however often the native   *)
(* side fails first and however often the roster changes meanwhile.        *)
(***************************************************************************)
MemberSubscribed ==
  \A c \in Channels : c \in roster ~> (c \notin roster \/ subs[c] # 0)

(***************************************************************************)
(* A member channel is heard in the end: its stream's frames reach the     *)
(* unread pipeline.                                                        *)
(***************************************************************************)
MemberHeard ==
  \A c \in Channels :
    c \in roster ~> (c \notin roster \/ (subs[c] = run /\ Stream(c, run) \in streams))

=============================================================================
