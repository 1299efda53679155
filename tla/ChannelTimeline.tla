-------------------------- MODULE ChannelTimeline --------------------------
(***************************************************************************)
(* The open channel of the desktop: the window store (authoritative pages  *)
(* of the daemon's history and a live overlay), the rendered messages      *)
(* cache projected from it, and what writes to both while the others wait: *)
(* the two-second head poll, older-page fetches, live frames from two      *)
(* subscriptions, and optimistic sends that are acknowledged or rolled     *)
(* back. JavaScript runs one step at a time; a step ends at an await.      *)
(*                                                                         *)
(* One top-level timeline of one channel. A thread reply or a control row  *)
(* takes a row of the history and never becomes a row of a page.           *)
(* Messages are numbers; others' messages are numbered as they arrive. The *)
(* ids of a message (the daemon's msgId, the envelope's clientId, the      *)
(* optimistic key) are pairs. A history row always bears the msgId; a live *)
(* frame or the answer to a group send may lack it (an older daemon), and  *)
(* its event then takes the clientId for its id.                           *)
(***************************************************************************)
EXTENDS Integers, Sequences, FiniteSets

CONSTANTS
  Sends,      \* messages the user sends here
  Peers,      \* messages others send
  Text,       \* content of each message
  Rank,       \* string order of ids
  Kinds,      \* kinds of channel it may be: group, dm
  FrameIds,   \* ids of a live frame: "msg" if it bears a msgId, else "client"
  AnswerIds,  \* ids of the answer to a group send, likewise
  Dense,      \* the daemon may store two rows in one second
  PageSize,   \* limit of a history request
  MaxSecond,  \* bound on the clock
  MaxSkew,    \* bound on the seconds a message is under way
  MaxOrphans  \* bound on cancelled polls still running

Msgs == Sends \cup Peers
Ids == {"msg", "client", "opt"} \X Msgs

ASSUME TimelineAssumption ==
  /\ Sends \subseteq Nat /\ Peers \subseteq Nat /\ Sends \cap Peers = {}
  /\ PageSize \in Nat \ {0}
  /\ MaxSecond \in Nat /\ MaxSkew \in Nat
  /\ MaxOrphans \in Nat
  /\ Kinds \subseteq {"group", "dm"}
  /\ FrameIds \subseteq {"msg", "client"} /\ AnswerIds \subseteq {"msg", "client"}
  /\ Dense \in BOOLEAN
  /\ \A i, j \in Ids : Rank[i] \in Nat /\ (Rank[i] = Rank[j] => i = j)

VARIABLES
  kind,      \* channelType
  now,       \* seconds
  history,   \* the daemon's rows of this scope, by rowid
  pages,     \* window.pages
  overlay,   \* window.liveOverlay
  cached,    \* the messages cache exists
  messages,  \* the messages cache: what is rendered
  poll,      \* the head fetch of the messages query
  orphans,   \* head fetches the query has cancelled
  older,     \* the older-page fetch
  send       \* the sends

window == <<pages, overlay>>
rendered == <<cached, messages>>
fetches == <<poll, orphans, older>>
vars == <<kind, now, history, window, rendered, fetches, send>>

-----------------------------------------------------------------------------
(* Rows and events.                                                        *)

Rows == DOMAIN history
Stored == {history[r].m : r \in Rows}
NoRow == 0

Event(id, key, at, pending) ==
  [id |-> id, key |-> key, at |-> at, pending |-> pending]
Msg(e) == e.id[2]

\* Faulty variant: seconds are rounded up.
CeilHistoryEvent(r) ==
  Event(<<"msg", history[r].m>>, <<"client", history[r].m>>, history[r].at + 1, FALSE)

\* A history row, a live frame, the answer to a send and an optimistic row,
\* as the events the renderer takes.
HistoryEvent(r) ==
  Event(<<"msg", history[r].m>>, <<"client", history[r].m>>, history[r].at, FALSE)
FrameEvent(r, id) ==
  Event(<<id, history[r].m>>, <<"client", history[r].m>>,
        IF kind = "dm" THEN history[r].at ELSE history[r].sent, FALSE)
SentEvent(s, id, at) == Event(<<id, s>>, <<"client", s>>, at, FALSE)
Optimistic(s, at) == Event(<<"opt", s>>, <<"opt", s>>, at, TRUE)

\* compareRelayOrder(e, f) < 0: newest second first, then ascending id.
RelayBefore(e, f) ==
  \/ e.at > f.at
  \/ e.at = f.at /\ Rank[e.id] < Rank[f.id]

-----------------------------------------------------------------------------
(* Pages of the daemon's history: the rowids of their rows, which come     *)
(* newest first. hasMore says that the request was filled; the cursor is   *)
(* then the oldest row of it.                                              *)

Visible(r) == history[r].top

HistoryPage(before) ==
  LET top == IF before = NoRow THEN Len(history) ELSE before - 1
      bottom == IF top < PageSize THEN 1 ELSE top - PageSize + 1
  IN [start |-> before,
      rows |-> {r \in bottom..top : Visible(r)},
      next |-> IF top - bottom + 1 = PageSize THEN bottom ELSE NoRow]

\* assertValidPage: the rows are in relay order.
ValidPage(page) ==
  \A r, q \in page.rows :
    r > q => ~RelayBefore(HistoryEvent(q), HistoryEvent(r))

PageRows(ps) == UNION {ps[i].rows : i \in DOMAIN ps}
PageEvents(ps) == {HistoryEvent(r) : r \in PageRows(ps)}

\* The live events a page makes redundant.
Superseded(page, live) ==
  {e \in live : \E r \in page.rows :
                   e.id = HistoryEvent(r).id \/ e.key = HistoryEvent(r).key}

-----------------------------------------------------------------------------
(* The window store.                                                       *)

\* mergeLiveChannelWindowEvent leaves the store alone: a page has the event,
\* or it lies below the oldest row of a window that has more.
Refused(ps, e) ==
  LET tail == ps[Len(ps)]
      oldest == HistoryEvent(CHOOSE r \in tail.rows : \A q \in tail.rows : r <= q)
  IN \/ \E f \in PageEvents(ps) : f.id = e.id \/ f.key = e.key
     \/ /\ ps # <<>>
        /\ tail.rows # {}
        /\ \/ e.at < oldest.at
           \/ tail.next # NoRow /\ ~RelayBefore(e, oldest)

\* Faulty variant: render keys are not compared.
WithoutTwinsById(events, e) == {f \in events : f.id # e.id}

WithoutTwins(events, e) == {f \in events : f.id # e.id /\ f.key # e.key}

MergeLive(ps, live, e) ==
  IF Refused(ps, e) THEN live ELSE WithoutTwins(live, e) \cup {e}

\* flattenChannelWindowEvents: one event per id, the live one first.
Flatten(ps, live) ==
  live \cup {e \in PageEvents(ps) : \A f \in live : f.id # e.id}

-----------------------------------------------------------------------------
(* The rendered cache.                                                     *)

Chronological(e, f) == RelayBefore(f, e)

Matches(p, e) ==
  /\ p.pending /\ ~e.pending
  /\ Text[Msg(p)] = Text[Msg(e)]
  /\ Msg(p) \in Sends /\ Msg(e) \in Sends

\* Faulty variant: no pending row is looked for.
IncomingByKey(rows, e) == e

\* reconcileIncomingMessage: the incoming event takes the render key of the
\* first pending row it matches, and replaces the rows of its id and key.
Incoming(rows, e) ==
  LET pending == {p \in rows : Matches(p, e)}
      first == CHOOSE p \in pending :
                 \A q \in pending \ {p} : Chronological(p, q)
  IN IF pending = {} THEN e ELSE [e EXCEPT !.key = first.key]

\* The newest of a set of events.
Latest(S) == CHOOSE e \in S : \A f \in S \ {e} : Chronological(f, e)

\* One turn of the loop of reconcileChannelWindowMessages: a pending row that
\* the event takes the place of is gone.
TakeIn(rows, e) ==
  LET in == Incoming(rows.local, e)
  IN [local |-> WithoutTwins(rows.local, in), shown |-> rows.shown \cup {in}]

\* reconcileChannelWindowMessages: the window's events in chronological order,
\* and the pending rows of a messages cache that none of them replaces.
Reconcile(ps, live, old) ==
  LET events == Flatten(ps, live)
      retained == {p \in old : p.pending /\ \A e \in events : e.id # p.id}
      Merged[S \in SUBSET events] ==
        IF S = {} THEN [local |-> retained, shown |-> {}]
        ELSE TakeIn(Merged[S \ {Latest(S)}], Latest(S))
  IN Merged[events].local \cup Merged[events].shown

\* mergeTimelineCacheMessages: a frame merged into the rendered cache alone.
MergeTimeline(old, e) ==
  LET in == Incoming(old, e) IN WithoutTwins(old, in) \cup {in}

-----------------------------------------------------------------------------
(* The daemon and the clock.                                               *)

NoPage == [start |-> NoRow, rows |-> {}, next |-> NoRow]
Fetch(at, prev, page) == [at |-> at, prev |-> prev, page |-> page]
NoFetch == Fetch("none", {}, NoPage)
IdleSend == [at |-> "idle", second |-> 0]

Init ==
  /\ kind \in Kinds
  /\ now = 0
  /\ history = <<>>
  /\ pages = <<>> /\ overlay = {}
  /\ cached = FALSE /\ messages = {}
  /\ poll = NoFetch /\ orphans = {} /\ older = NoFetch
  /\ send = [s \in Sends |-> IdleSend]

Tick ==
  /\ now < MaxSecond
  /\ now' = now + 1
  /\ UNCHANGED <<kind, history, window, rendered, fetches, send>>

\* A row is stored; sent is the second its author claims.
Store(m, sent, top) ==
  /\ m \notin Stored
  /\ Dense \/ \A r \in Rows : history[r].at < now
  /\ history' = Append(history, [m |-> m, at |-> now, sent |-> sent, top |-> top])

PeerMessage(m, delay, top) ==
  /\ \A p \in Peers \ Stored : m <= p
  /\ Store(m, now - delay, top)
  /\ UNCHANGED <<kind, now, window, rendered, fetches, send>>

-----------------------------------------------------------------------------
(* Live frames: lost, repeated or late as the daemon pleases. Both         *)
(* subscriptions of the open channel deliver; a direct stream never echoes *)
(* the user's own messages.                                                *)

Framed(r) == Visible(r) /\ (kind = "dm" => history[r].m \notin Sends)

\* useChannelSubscription: into the window, then projected, unless refused.
ChannelFrame(r, id) ==
  /\ Framed(r)
  /\ ~Refused(pages, FrameEvent(r, id))
  /\ overlay' = MergeLive(pages, overlay, FrameEvent(r, id))
  /\ messages' = Reconcile(pages, overlay', messages)
  /\ cached' = TRUE
  /\ UNCHANGED <<kind, now, history, pages, fetches, send>>

\* useLiveChannelUpdates: into the rendered cache, if there is one.
UpdateFrame(r, id) ==
  /\ Framed(r)
  /\ cached
  /\ messages' = MergeTimeline(messages, FrameEvent(r, id))
  /\ UNCHANGED <<kind, now, history, window, cached, fetches, send>>

-----------------------------------------------------------------------------
(* The head poll. The rendered rows it will reconcile with are read before *)
(* the request; the window is read after it.                               *)

StartPoll ==
  /\ poll.at = "none"
  /\ poll' = Fetch("asked", messages, NoPage)
  /\ UNCHANGED <<kind, now, history, window, rendered, orphans, older, send>>

Answered(f) == Fetch("answered", f.prev, HistoryPage(NoRow))

AnswerPoll ==
  /\ poll.at = "asked"
  /\ poll' = Answered(poll)
  /\ UNCHANGED <<kind, now, history, window, rendered, orphans, older, send>>

\* replaceNewestChannelWindow.
ReplaceNewest(page) ==
  /\ pages' = <<page>>
  /\ overlay' = overlay \ Superseded(page, overlay)

\* Faulty variant: the page is not put into the window.
FinishPollUnsaved ==
  /\ poll.at = "answered"
  /\ ValidPage(poll.page)
  /\ messages' = Reconcile(pages, overlay, poll.prev)
  /\ cached' = TRUE
  /\ poll' = NoFetch
  /\ UNCHANGED <<kind, now, history, window, orphans, older, send>>

\* The page replaces the window, and the window is projected over the rows
\* that were rendered when the poll began.
FinishPoll ==
  /\ poll.at = "answered"
  /\ ValidPage(poll.page)
  /\ ReplaceNewest(poll.page)
  /\ messages' = Reconcile(pages', overlay', poll.prev)
  /\ cached' = TRUE
  /\ poll' = NoFetch
  /\ UNCHANGED <<kind, now, history, orphans, older, send>>

\* The request fails, or assertValidPage throws: the query keeps its data.
FailPoll ==
  /\ poll.at = "asked" \/ (poll.at = "answered" /\ ~ValidPage(poll.page))
  /\ poll' = NoFetch
  /\ UNCHANGED <<kind, now, history, window, rendered, orphans, older, send>>

\* A cancelled query function still runs to its end: it writes the window,
\* and what it returns is dropped.
AnswerOrphan(f) ==
  /\ f.at = "asked"
  /\ orphans' = (orphans \ {f}) \cup {Answered(f)}
  /\ UNCHANGED <<kind, now, history, window, rendered, poll, older, send>>

FinishOrphan(f) ==
  /\ f.at = "answered"
  /\ orphans' = orphans \ {f}
  /\ IF ValidPage(f.page) THEN ReplaceNewest(f.page) ELSE UNCHANGED window
  /\ UNCHANGED <<kind, now, history, rendered, poll, older, send>>

-----------------------------------------------------------------------------
(* Older pages.                                                            *)

HasMore == pages # <<>> /\ pages[Len(pages)].next # NoRow

StartOlder ==
  /\ older.at = "none"
  /\ HasMore
  /\ older' = Fetch("answered", {}, HistoryPage(pages[Len(pages)].next))
  /\ UNCHANGED <<kind, now, history, window, rendered, poll, orphans, send>>

\* Faulty variant: the page's cursor is not compared with the chain's.
ContinuesAnything(page) ==
  ValidPage(page) /\ HasMore /\ page.rows \cap PageRows(pages) = {}

\* appendOlderChannelWindow accepts the page.
Continues(page) ==
  /\ ValidPage(page)
  /\ HasMore
  /\ page.start = pages[Len(pages)].next
  /\ page.rows \cap PageRows(pages) = {}

FinishOlder ==
  /\ older.at = "answered"
  /\ Continues(older.page)
  /\ pages' = Append(pages, older.page)
  /\ overlay' = overlay \ Superseded(older.page, overlay)
  /\ messages' = Reconcile(pages', overlay', messages)
  /\ older' = NoFetch
  /\ UNCHANGED <<kind, now, history, cached, poll, orphans, send>>

\* The request fails, or the page no longer continues the chain.
FailOlder ==
  /\ older.at = "answered"
  /\ older' = NoFetch
  /\ UNCHANGED <<kind, now, history, window, rendered, poll, orphans, send>>

-----------------------------------------------------------------------------
(* Sends.                                                                  *)

\* onMutate: cancel the poll, show an optimistic row.
Mutate(s) ==
  /\ send[s].at = "idle"
  /\ Cardinality(orphans) < MaxOrphans \/ poll.at = "none"
  /\ send' = [send EXCEPT ![s] = [at |-> "sending", second |-> now]]
  /\ orphans' = IF poll.at = "none" THEN orphans
                ELSE orphans \cup {Fetch(poll.at, {}, poll.page)}
  /\ poll' = NoFetch
  /\ overlay' = MergeLive(pages, overlay, Optimistic(s, now))
  /\ messages' = Reconcile(pages, overlay', messages)
  /\ cached' = TRUE
  /\ UNCHANGED <<kind, now, history, pages, older>>

\* mutationFn reaches the daemon, which stores the message.
StoreSend(s) ==
  /\ send[s].at = "sending"
  /\ Store(s, now, TRUE)
  /\ send' = [send EXCEPT ![s] = [at |-> "stored", second |-> now]]
  /\ UNCHANGED <<kind, now, window, rendered, fetches>>

\* onSuccess: the answer takes the place of the optimistic row. A direct send
\* is never told the msgId.
Acknowledge(s, id) ==
  /\ send[s].at = "stored"
  /\ id \in IF kind = "dm" THEN {"client"} ELSE AnswerIds
  /\ send' = [send EXCEPT ![s].at = "acked"]
  /\ overlay' = MergeLive(pages, {e \in overlay : e.id # <<"opt", s>>},
                          SentEvent(s, id, send[s].second))
  /\ messages' = Reconcile(pages, overlay', messages)
  /\ UNCHANGED <<kind, now, history, pages, cached, fetches>>

\* onError, with or without the message stored: rollback.
Fail(s) ==
  LET Others(es) == {e \in es : <<"opt", s>> \notin {e.id, e.key}}
  IN /\ send[s].at \in {"sending", "stored"}
     /\ send' = [send EXCEPT ![s].at = "failed"]
     /\ messages' = Others(messages)
     /\ overlay' = Others(overlay)
     /\ UNCHANGED <<kind, now, history, pages, cached, fetches>>

-----------------------------------------------------------------------------
Next ==
  \/ Tick
  \/ \E m \in Peers, delay \in 0..MaxSkew, top \in BOOLEAN :
       delay <= now /\ PeerMessage(m, delay, top)
  \/ \E r \in Rows, id \in FrameIds : ChannelFrame(r, id) \/ UpdateFrame(r, id)
  \/ StartPoll \/ AnswerPoll \/ FinishPoll \/ FailPoll
  \/ \E f \in orphans : AnswerOrphan(f) \/ FinishOrphan(f)
  \/ StartOlder \/ FinishOlder \/ FailOlder
  \/ \E s \in Sends : Mutate(s) \/ StoreSend(s) \/ Fail(s)
  \/ \E s \in Sends, id \in {"msg", "client"} : Acknowledge(s, id)

Spec == Init /\ [][Next]_vars

\* The poll timer runs while the channel is open; the daemon answers again and
\* again, and a query function that has its answer runs on.
Fairness ==
  /\ WF_vars(StartPoll) /\ SF_vars(AnswerPoll) /\ WF_vars(FinishPoll \/ FailPoll)
  /\ WF_vars(\E f \in orphans : AnswerOrphan(f) \/ FinishOrphan(f))

FairSpec == Spec /\ Fairness

-----------------------------------------------------------------------------
(* Properties.                                                             *)

Page == [start : Nat, rows : SUBSET Nat, next : Nat]
Events == [id : Ids, key : Ids, at : 0..MaxSecond, pending : BOOLEAN]
FetchType ==
  [at : {"none", "asked", "answered"}, prev : SUBSET Events, page : Page]

\* Every variable has its type.
TypeOK ==
  /\ kind \in Kinds
  /\ now \in 0..MaxSecond
  /\ history \in Seq([m : Msgs, at : 0..MaxSecond, sent : 0..MaxSecond,
                     top : BOOLEAN])
  /\ pages \in Seq(Page)
  /\ overlay \subseteq Events
  /\ cached \in BOOLEAN
  /\ messages \subseteq Events
  /\ poll \in FetchType /\ older \in FetchType
  /\ orphans \subseteq FetchType
  /\ send \in [Sends -> [at : {"idle", "sending", "stored", "acked", "failed"},
                        second : 0..MaxSecond]]

\* The retained pages leave out no row between their newest and their oldest,
\* and a window without more reaches the beginning of the channel, whatever
\* polls and cancelled polls replaced while an older page was on its way
\* (appendOlderChannelWindow, channelWindowHistoryExhausted).
ChainHasNoGap ==
  \A r \in Rows :
    ( /\ Visible(r)
      /\ \E q \in PageRows(pages) : r < q
      /\ HasMore => r >= pages[Len(pages)].next ) => r \in PageRows(pages)

\* Two rows never share an id or a render key, and no message of another, nor
\* a direct one, is rendered twice once it has left pending, though it may
\* reach the cache as an answer, two frames and a history row under two ids
\* (replaceNewestChannelWindow, mergeLiveChannelWindowEvent,
\* reconcileIncomingMessage). The user's own message in a group is left out:
\* its row may keep the optimistic render key, and a frame without a msgId
\* then meets neither its id nor its key (mergeTimelineCacheMessages).
OneRowPerMessage ==
  \A e, f \in messages :
    \/ e.id = f.id
    \/ e.key = f.key
    \/ /\ Msg(e) = Msg(f) /\ ~e.pending /\ ~f.pending
       /\ Msg(e) \notin Sends \/ kind = "dm"
    => e = f

\* No message at all is rendered twice once it has left pending, the user's
\* own in a group included: so it is with a daemon that never leaves out the
\* msgId, and after each projection of the window (Projects).
NeverTwice ==
  \A e, f \in messages :
    Msg(e) = Msg(f) /\ ~e.pending /\ ~f.pending => e = f

\* The rows of the newest page are rendered in the end and stay so, with every
\* frame lost and whatever a cancelled poll wrote late (refetchInterval).
HeadShown ==
  \A r \in HistoryPage(NoRow).rows :
    \E e \in messages : Msg(e) = history[r].m /\ ~e.pending
Converges == <>[]HeadShown

\* A send the daemon acknowledged leaves no pending row behind as long as its
\* message is in the newest page (onSuccess, reconcileChannelWindowMessages).
AckedSettles ==
  <>[](\A s \in Sends, r \in HistoryPage(NoRow).rows :
         send[s].at = "acked" /\ history[r].m = s
           => \A e \in messages : e.id # <<"opt", s>>)

\* A failed send's row goes away for good (rollbackOptimisticMessageCache:
\* "Remove a failed optimistic send from current cache").
FailedRowGone ==
  <>[](\A s \in Sends, e \in messages : send[s].at = "failed" => e.id # <<"opt", s>>)
=============================================================================
