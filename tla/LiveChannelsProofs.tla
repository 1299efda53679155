------------------------- MODULE LiveChannelsProofs -------------------------
(* What holds of LiveChannels for every instance. *)
EXTENDS LiveChannels, TLAPS

(***************************************************************************)
(* Max of two numbers, the Math.max of the code.                           *)
(***************************************************************************)
LEMMA MaxPair ==
  ASSUME NEW a \in Nat, NEW b \in Nat
  PROVE  Max({a, b}) = IF a >= b THEN a ELSE b
<1>1. CASE a >= b
  <2>1. \A x \in {a, b} : (\A y \in {a, b} : x >= y) <=> x = a
    BY <1>1
  <2> QED BY <2>1, <1>1 DEF Max
<1>2. CASE ~(a >= b)
  <2>1. \A x \in {a, b} : (\A y \in {a, b} : x >= y) <=> x = b
    BY <1>2
  <2> QED BY <2>1, <1>2 DEF Max
<1> QED BY <1>1, <1>2

\* Max of a set that has an upper bound among its members.
LEMMA MaxOf ==
  ASSUME NEW S \in SUBSET Nat, NEW top \in S, \A x \in S : x <= top
  PROVE  Max(S) = top
<1>1. \A x \in S : (\A y \in S : x >= y) <=> x = top
  OBVIOUS
<1> QED BY <1>1 DEF Max

-----------------------------------------------------------------------------
(* Streams *)

\* The calls of the current run that its pass still waits for.
Pending == {s \in opening \cup opened : s.run = run}

(***************************************************************************)
(* The inductive invariant of the subscription effect.  What makes a       *)
(* continuation safe is that its channel has no registered stream: a pass  *)
(* opens only the channels without one, a later run cancels it, and a      *)
(* retry begins only after every call of the pass has settled.             *)
(***************************************************************************)
SubTypes ==
  /\ roster \subseteq Channels /\ run \in Nat /\ run >= 1
  /\ phase \in {"syncing", "waiting", "done"}
  /\ opening \subseteq [ch : Channels, run : 1..run]
  /\ opened \subseteq [ch : Channels, run : 1..run]
  /\ streams \subseteq [ch : Channels, run : 1..run]
  /\ subs \in [Channels -> 0..run]

SubInv ==
  /\ SubTypes
  /\ opening \cap opened = {}
  /\ \A s \in Pending : subs[s.ch] = 0 /\ s.ch \in roster
  /\ phase # "syncing" => Pending = {}
  /\ \A c \in Channels : subs[c] # 0 => c \in roster
  /\ NoStrayStream

\* The user's reading leaves the streams alone.
LEMMA ReadKeepsSubs ==
  Read => UNCHANGED subVars
<1> SUFFICES ASSUME Read PROVE UNCHANGED subVars
  OBVIOUS
<1> QED
  BY Zenon DEF Read, Frame, Open, SeeNewest, MarkChannelRead, MarkThreadRead, MarkMessagesRead,
     MarkChannelUnread, MarkAllChannelsRead, Leave

\* The invariant begins true: the first run opens every member channel.
LEMMA SubInit == Init => SubInv
BY LiveAssumption DEF Init, SubInv, SubTypes, Pending, NoStrayStream, Stream

\* A change of the roster cancels every pending call by moving on the run.
LEMMA RosterStep ==
  ASSUME SubInv, NEW members \in SUBSET Channels, ChangeRoster(members)
  PROVE  SubInv'
<1> USE DEF SubInv, ChangeRoster, SyncSubs
<1>1. SubTypes'
  BY DEF SubTypes, Stream
<1>2. (opening \cap opened = {})'
  BY DEF SubTypes, Stream
<1>3. (\A s \in Pending : subs[s.ch] = 0 /\ s.ch \in roster)'
  BY DEF SubTypes, Stream, Pending
<1>4. (\A c \in Channels : subs[c] # 0 => c \in roster)'
  BY DEF SubTypes
<1>5. NoStrayStream'
  BY DEF SubTypes, NoStrayStream, Stream
<1> QED BY <1>1, <1>2, <1>3, <1>4, <1>5

\* A stream opens, fails, is registered or closed, or dies.
LEMMA CallStep ==
  ASSUME SubInv, NEW s,
         Opens(s) \/ OpenFails(s) \/ Continue(s) \/ StreamDies(s)
  PROVE  SubInv'
<1> USE DEF SubInv
<1>1. CASE Opens(s)
  BY <1>1 DEF Opens, SubTypes, Pending, NoStrayStream
<1>2. CASE OpenFails(s)
  BY <1>2 DEF OpenFails, SubTypes, Pending, NoStrayStream
<1>3. CASE Continue(s) /\ s.run = run
  <2> USE <1>3 DEF Continue
  <2>1. s \in Pending /\ s \in [ch : Channels, run : 1..run] /\ subs[s.ch] = 0 /\ s.ch \in roster
    BY DEF Pending, SubTypes
  <2>2. SubTypes'
    BY <2>1 DEF SubTypes
  <2>3. \A t \in Pending' : t \in Pending /\ t.ch # s.ch
    BY <2>1 DEF Pending, SubTypes
  <2>4. (\A t \in Pending : subs[t.ch] = 0 /\ t.ch \in roster)'
    BY <2>1, <2>3 DEF SubTypes
  <2>5. NoStrayStream'
    BY <2>1 DEF NoStrayStream, SubTypes
  <2>6. (phase # "syncing" => Pending = {})'
    BY <2>3
  <2> QED BY <2>1, <2>2, <2>4, <2>5, <2>6 DEF SubTypes
<1>4. CASE Continue(s) /\ s.run # run
  BY <1>4 DEF Continue, SubTypes, Pending, NoStrayStream
<1>5. CASE StreamDies(s)
  BY <1>5 DEF StreamDies, SubTypes, Pending, NoStrayStream
<1> QED BY <1>1, <1>2, <1>3, <1>4, <1>5

\* A pass settles, and a retry begins when nothing of the run is pending.
LEMMA PassStep ==
  ASSUME SubInv, Settle \/ Retry
  PROVE  SubInv'
<1> USE DEF SubInv
<1>1. CASE Settle
  BY <1>1 DEF Settle, SubTypes, Pending, NoStrayStream
<1>2. CASE Retry
  <2> USE <1>2 DEF Retry, SyncSubs
  <2>1. subs' = subs
    BY DEF SubTypes
  <2>2. streams' = streams
    BY DEF SubTypes, Stream
  <2>3. opening' = opening \cup {Stream(c, run) : c \in {d \in roster : subs[d] = 0}}
    OBVIOUS
  <2>4. Pending = {}
    OBVIOUS
  <2>5. SubTypes'
    BY <2>1, <2>2, <2>3 DEF SubTypes, Stream
  <2>6. (opening \cap opened = {})'
    BY <2>3, <2>4 DEF Pending, Stream
  <2>7. (\A s \in Pending : subs[s.ch] = 0 /\ s.ch \in roster)'
    BY <2>1, <2>3, <2>4 DEF Pending, Stream
  <2> QED BY <2>1, <2>2, <2>5, <2>6, <2>7 DEF NoStrayStream
<1> QED BY <1>1, <1>2

\* A remount closes what was registered; the pending calls close themselves.
LEMMA RemountStep ==
  ASSUME SubInv, Remount
  PROVE  SubInv'
BY DEF SubInv, Remount, SubTypes, Pending, NoStrayStream, Stream

(***************************************************************************)
(* The inductive invariant of the streams, for any number of channels and  *)
(* runs, any answers of the native side and any deaths of streams.         *)
(***************************************************************************)
THEOREM SubInvariant == Spec => []SubInv
<1>1. SubInv /\ [Next]_vars => SubInv'
  <2> SUFFICES ASSUME SubInv, [Next]_vars PROVE SubInv'
    OBVIOUS
  <2>1. CASE Sync
    BY <2>1, RosterStep, CallStep, PassStep DEF Sync
  <2>2. CASE Read \/ UNCHANGED vars
    <3>1. UNCHANGED subVars
      BY <2>2, ReadKeepsSubs DEF vars
    <3> QED BY <3>1 DEF subVars, SubInv, SubTypes, Pending, NoStrayStream
  <2>3. CASE Remount
    BY <2>3, RemountStep
  <2> QED BY <2>1, <2>2, <2>3 DEF Next
<1> QED BY SubInit, <1>1, PTL DEF Spec

(***************************************************************************)
(* No stream is ever left that nobody will close, and no channel has two.  *)
(***************************************************************************)
THEOREM StreamsAreOwned == Spec => []NoStrayStream
<1>1. SubInv => NoStrayStream
  BY DEF SubInv
<1> QED BY SubInvariant, <1>1, PTL

-----------------------------------------------------------------------------
(* Read state *)

Marks == [Contexts -> 0..MaxTime]

DotTypes ==
  /\ latest \in [Channels -> 0..MaxTime]
  /\ observed \in [Channels -> SUBSET Events]
  /\ marks \in Marks
  /\ forced \subseteq Channels
  /\ stored = [marks |-> marks, forced |-> forced]
  /\ heard \subseteq Events

(***************************************************************************)
(* The inductive invariant of the unread state: the stores mirror memory,  *)
(* latest bounds the observed events, and an event that was heard and is   *)
(* no longer observed is covered by a marker.                              *)
(***************************************************************************)
DotInv ==
  /\ DotTypes
  /\ \A c \in Channels : \A e \in observed[c] :
       e.ch = c /\ e \in heard /\ e.at <= latest[c]
  /\ \A e \in heard : e \in observed[e.ch] \/ e.at <= ReadAt(e)

\* Every marker is at least as late as before.
Forward == \A ctx \in Contexts : marks'[ctx] >= marks[ctx]

\* The type of an event.
LEMMA EventType ==
  ASSUME NEW e \in Events
  PROVE  /\ e.ch \in Channels /\ e.at \in 1..MaxTime /\ e.at \in Nat
         /\ e.row \in 0..MaxTime /\ e.reply \in BOOLEAN
BY LiveAssumption DEF Seconds

\* The contexts that cover an event, its channel's among them.
LEMMA CoveringType ==
  ASSUME NEW e \in Events
  PROVE  Covering(e) \subseteq Contexts /\ <<"channel", e.ch>> \in Covering(e)
<1>1. e.ch \in Channels /\ e.reply \in BOOLEAN
  BY EventType
<1> QED BY <1>1 DEF Covering, Contexts

\* The latest marker of an event covers what some marker of it covers.
LEMMA CoverIs ==
  ASSUME NEW m \in Marks, NEW e \in Events
  PROVE  LET r == Max({m[ctx] : ctx \in Covering(e)})
         IN r \in Nat /\ \A t \in Nat : t <= r <=> \E ctx \in Covering(e) : t <= m[ctx]
<1> DEFINE S == {m[ctx] : ctx \in Covering(e)}
           a == m[<<"channel", e.ch>>]
           b == m[<<"msg", e>>]
           c == m[<<"thread", e.ch>>]
<1>1. \A ctx \in Covering(e) : m[ctx] \in Nat
  <2>1. Covering(e) \subseteq Contexts
    BY CoveringType
  <2> QED BY <2>1, LiveAssumption DEF Marks
<1>2. /\ S \in SUBSET Nat /\ a \in S /\ b \in S
      /\ \A x \in S : x = a \/ x = b \/ (e.reply /\ x = c)
      /\ e.reply => c \in S
  BY <1>1 DEF Covering
<1>3. \E top \in S : \A x \in S : x <= top
  <2> HIDE DEF S, a, b, c
  <2>1. a \in Nat /\ b \in Nat /\ (e.reply => c \in Nat)
    BY <1>2
  <2> QED BY <1>2, <2>1
<1>4. PICK top \in S : \A x \in S : x <= top
  BY <1>3
<1>5. Max(S) = top /\ top \in Nat
  <2> HIDE DEF S
  <2> QED BY <1>2, <1>4, MaxOf
<1>6. ASSUME NEW t \in Nat PROVE t <= top <=> \E ctx \in Covering(e) : t <= m[ctx]
  <2>1. PICK ctx \in Covering(e) : top = m[ctx]
    BY <1>4
  <2>2. \A d \in Covering(e) : m[d] <= top
    BY <1>4
  <2> QED BY <1>1, <1>5, <2>1, <2>2
<1> QED BY <1>5, <1>6

\* The same of the markers the program holds.
LEMMA ReadAtIs ==
  ASSUME DotTypes, NEW e \in Events
  PROVE  ReadAt(e) \in Nat /\ \A t \in Nat : t <= ReadAt(e) <=> \E ctx \in Covering(e) : t <= marks[ctx]
BY CoverIs DEF DotTypes, ReadAt

\* And of the ones it will hold: an event is covered if its channel's marker is
\* late enough, and if it was covered and the markers move forward.
LEMMA CoverGrows ==
  ASSUME DotTypes, marks' \in Marks, NEW e \in Events,
         \/ Forward /\ e.at <= ReadAt(e)
         \/ e.at <= marks'[<<"channel", e.ch>>]
  PROVE  e.at <= ReadAt(e)'
<1>1. e.at \in Nat /\ Covering(e) \subseteq Contexts /\ <<"channel", e.ch>> \in Covering(e)
  BY EventType, CoveringType
<1>2. \A ctx \in Contexts : marks[ctx] \in Nat /\ marks'[ctx] \in Nat
  BY LiveAssumption DEF DotTypes, Marks
<1>3. \E ctx \in Covering(e) : e.at <= marks'[ctx]
  <2>1. CASE Forward /\ e.at <= ReadAt(e)
    <3>1. PICK ctx \in Covering(e) : e.at <= marks[ctx]
      BY <1>1, <2>1, ReadAtIs
    <3>2. marks'[ctx] >= marks[ctx]
      BY <1>1, <2>1 DEF Forward
    <3> QED BY <1>1, <1>2, <3>1, <3>2
  <2>2. CASE e.at <= marks'[<<"channel", e.ch>>]
    BY <1>1, <2>2
  <2> QED BY <2>1, <2>2
<1>4. ReadAt(e)' = Max({marks'[ctx] : ctx \in Covering(e)})
  BY DEF ReadAt, Covering
<1>5. e.at <= Max({marks'[ctx] : ctx \in Covering(e)})
  BY <1>1, <1>3, CoverIs
<1> QED BY <1>4, <1>5

\* Advance moves a marker forward, to the given second if it is later.
LEMMA AdvanceIs ==
  ASSUME NEW mark \in 0..MaxTime, NEW t \in 0..MaxTime
  PROVE  Advance(mark, t) \in 0..MaxTime /\ Advance(mark, t) >= mark /\ Advance(mark, t) >= t
BY LiveAssumption DEF Advance

\* One context's marker moves forward.
LEMMA AdvanceOne ==
  ASSUME NEW m \in Marks, NEW ctx \in Contexts, NEW t \in 0..MaxTime
  PROVE  LET next == [m EXCEPT ![ctx] = Advance(@, t)]
         IN next \in Marks /\ next[ctx] >= t /\ \A d \in Contexts : next[d] >= m[d]
<1>1. \A d \in Contexts : m[d] \in 0..MaxTime
  BY DEF Marks
<1>2. Advance(m[ctx], t) \in 0..MaxTime /\ Advance(m[ctx], t) >= m[ctx] /\ Advance(m[ctx], t) >= t
  BY <1>1, AdvanceIs
<1> QED BY <1>1, <1>2, LiveAssumption DEF Marks

\* Marking a channel read keeps the invariant, and no marker moves back.
LEMMA MarkReadStep ==
  ASSUME DotInv, NEW from \in Marks, \A ctx \in Contexts : from[ctx] >= marks[ctx],
         NEW c \in Channels, NEW t \in 0..MaxTime, NEW b \in BOOLEAN,
         MarkRead(from, c, t, b), heard' = heard
  PROVE  DotInv' /\ Forward
<1> DEFINE seen == IF b THEN 0 ELSE latest[c]
           at == Max({t, seen})
           next == [from EXCEPT ![<<"channel", c>>] = Advance(@, at)]
           clear == at # 0 /\ seen # 0 /\ seen <= at
<1> USE LiveAssumption
<1>0. DotTypes
  BY DEF DotInv
<1>1. seen \in 0..MaxTime /\ seen \in Nat /\ t \in Nat
  BY <1>0 DEF DotTypes
<1>2. at = IF t >= seen THEN t ELSE seen
  BY <1>1, MaxPair
<1>3. at \in 0..MaxTime /\ at >= seen
  BY <1>1, <1>2
<1>4. /\ forced' = forced \ {c}
      /\ marks' = next
      /\ stored' = [marks |-> next, forced |-> forced \ {c}]
      /\ latest' = IF clear THEN [latest EXCEPT ![c] = 0] ELSE latest
      /\ observed' = IF clear THEN [observed EXCEPT ![c] = {}] ELSE observed
  BY DEF MarkRead
<1>5. next \in Marks /\ next[<<"channel", c>>] >= at /\ \A ctx \in Contexts : next[ctx] >= from[ctx]
  <2>1. <<"channel", c>> \in Contexts
    BY DEF Contexts
  <2> HIDE DEF at
  <2> QED BY <1>3, <2>1, AdvanceOne
<1> HIDE DEF at, next
<1>6. Forward
  <2>1. \A ctx \in Contexts : next[ctx] \in Nat /\ from[ctx] \in Nat /\ marks[ctx] \in Nat
    BY <1>0, <1>5 DEF Marks, DotTypes
  <2> QED BY <1>4, <1>5, <2>1 DEF Forward
<1>7. DotTypes'
  BY <1>0, <1>4, <1>5 DEF DotTypes, Marks, Contexts
<1>8. (\A d \in Channels : \A e \in observed[d] : e.ch = d /\ e \in heard /\ e.at <= latest[d])'
  BY <1>0, <1>4 DEF DotInv, DotTypes
<1>9. ASSUME NEW e \in heard PROVE e \in observed'[e.ch] \/ e.at <= ReadAt(e)'
  <2>1. e \in Events /\ e.ch \in Channels /\ e.at \in Nat /\ marks' \in Marks
    BY <1>0, <1>4, <1>5, EventType DEF DotTypes
  <2>2. CASE e.at <= ReadAt(e)
    BY <2>1, <2>2, <1>0, <1>6, CoverGrows
  <2>3. CASE e \in observed[e.ch] /\ ~(clear /\ e.ch = c)
    BY <2>1, <2>3, <1>0, <1>4 DEF DotTypes
  <2>4. CASE e \in observed[e.ch] /\ clear /\ e.ch = c
    <3>1. e.at <= latest[c] /\ seen = latest[c]
      BY <2>1, <2>4 DEF DotInv
    <3>2. at \in Nat /\ latest[c] \in Nat /\ marks'[<<"channel", c>>] \in Nat
      BY <1>0, <1>3, <1>4, <1>5 DEF Marks, Contexts, DotTypes
    <3>3. e.at <= marks'[<<"channel", e.ch>>]
      BY <2>1, <2>4, <3>1, <3>2, <1>3, <1>4, <1>5
    <3> QED BY <1>0, <2>1, <3>3, CoverGrows
  <2> QED BY <2>2, <2>3, <2>4 DEF DotInv
<1> QED BY <1>6, <1>7, <1>8, <1>9 DEF DotInv

\* A frame adds an observed event, which latest then bounds.
LEMMA FrameStep ==
  ASSUME DotInv, NEW e \in Events, HandleChannelMessage(e)
  PROVE  DotInv' /\ Forward
<1> USE LiveAssumption
<1>0. DotTypes
  BY DEF DotInv
<1>1. e.ch \in Channels /\ e.at \in 1..MaxTime /\ e.at \in Nat
  BY EventType
<1>2. latest[e.ch] \in 0..MaxTime /\ latest[e.ch] \in Nat
  BY <1>0, <1>1 DEF DotTypes
<1>3. Max({latest[e.ch], e.at}) = IF latest[e.ch] >= e.at THEN latest[e.ch] ELSE e.at
  BY <1>1, <1>2, MaxPair
<1>4. /\ observed' = [observed EXCEPT ![e.ch] = @ \cup {e}]
      /\ latest' = [latest EXCEPT ![e.ch] = IF latest[e.ch] >= e.at THEN latest[e.ch] ELSE e.at]
      /\ heard' = heard \cup {e}
      /\ marks' = marks /\ forced' = forced /\ stored' = stored
  BY <1>3 DEF HandleChannelMessage
<1>5. DotTypes'
  BY <1>0, <1>1, <1>2, <1>4 DEF DotTypes
<1>6. Forward
  BY <1>0, <1>4 DEF Forward, DotTypes, Marks
<1>7. ASSUME NEW d \in Channels, NEW f \in observed'[d]
      PROVE  f.ch = d /\ f \in heard' /\ f.at <= latest'[d]
  <2>1. f \in Events /\ f.at \in Nat /\ latest[d] \in Nat
    BY <1>5, EventType, <1>0 DEF DotTypes
  <2>2. CASE f \in observed[d]
    BY <2>1, <2>2, <1>0, <1>1, <1>2, <1>4 DEF DotInv, DotTypes
  <2>3. CASE f \notin observed[d]
    BY <2>1, <2>3, <1>0, <1>1, <1>2, <1>4 DEF DotTypes
  <2> QED BY <2>2, <2>3
<1>8. ASSUME NEW f \in heard'
      PROVE  f \in observed'[f.ch] \/ f.at <= ReadAt(f)'
  <2>1. ReadAt(f)' = ReadAt(f)
    BY <1>4 DEF ReadAt, Covering
  <2>2. f \in Events /\ f.ch \in Channels
    BY <1>5, EventType DEF DotTypes
  <2> QED BY <2>1, <2>2, <1>0, <1>4 DEF DotInv, DotTypes
<1> QED BY <1>5, <1>6, <1>7, <1>8 DEF DotInv

\* Markers of threads or messages move forward and nothing else changes.
LEMMA ContextsStep ==
  ASSUME DotInv, NEW next \in Marks, \A ctx \in Contexts : next[ctx] >= marks[ctx],
         MarkContexts(next), heard' = heard
  PROVE  DotInv' /\ Forward
<1>0. DotTypes
  BY DEF DotInv
<1>1. /\ marks' = next /\ stored' = [stored EXCEPT !.marks = next]
      /\ latest' = latest /\ observed' = observed /\ forced' = forced
  BY DEF MarkContexts
<1>2. marks' \in Marks /\ Forward
  BY <1>1 DEF Forward
<1>3. DotTypes'
  BY <1>0, <1>1, <1>2 DEF DotTypes, Marks, Contexts
<1>4. ASSUME NEW e \in heard PROVE e \in observed'[e.ch] \/ e.at <= ReadAt(e)'
  <2>1. e \in Events
    BY <1>0 DEF DotTypes
  <2>2. CASE e.at <= ReadAt(e)
    BY <2>1, <2>2, <1>0, <1>2, CoverGrows
  <2>3. CASE e \in observed[e.ch]
    BY <2>3, <1>1
  <2> QED BY <2>2, <2>3 DEF DotInv
<1> QED BY <1>1, <1>2, <1>3, <1>4 DEF DotInv

\* A thread is marked read in Home, and perhaps its channel.
LEMMA ThreadStep ==
  ASSUME DotInv, NEW c \in Channels, NEW t \in 0..MaxTime, NEW grouped \in 0..MaxTime,
         MarkThreadRead(c, t, grouped)
  PROVE  DotInv' /\ Forward
<1> DEFINE next == [marks EXCEPT ![<<"thread", c>>] = Advance(@, t)]
<1>1. next \in Marks /\ \A ctx \in Contexts : next[ctx] >= marks[ctx]
  <2>1. <<"thread", c>> \in Contexts /\ marks \in Marks
    BY DEF Contexts, DotInv, DotTypes
  <2> QED BY <2>1, AdvanceOne
<1>2. heard' = heard /\ (MarkContexts(next) \/ MarkRead(next, c, grouped, FALSE))
  BY Zenon DEF MarkThreadRead
<1> HIDE DEF next
<1>3. CASE MarkContexts(next)
  BY <1>1, <1>2, <1>3, ContextsStep
<1>4. CASE MarkRead(next, c, grouped, FALSE)
  BY <1>1, <1>2, <1>4, MarkReadStep
<1> QED BY <1>2, <1>3, <1>4

\* Messages are marked read one by one.
LEMMA MessagesStep ==
  ASSUME DotInv, NEW S \in SUBSET Events, MarkMessagesRead(S)
  PROVE  DotInv' /\ Forward
<1> DEFINE next == [ctx \in Contexts |->
                      IF ctx \in {"msg"} \X S THEN Advance(marks[ctx], ctx[2].row)
                                            ELSE marks[ctx]]
<1>1. ASSUME NEW ctx \in Contexts PROVE next[ctx] \in 0..MaxTime /\ next[ctx] >= marks[ctx]
  <2>1. marks[ctx] \in 0..MaxTime
    BY DEF DotInv, DotTypes, Marks
  <2>2. CASE ctx \in {"msg"} \X S
    <3>1. ctx[2] \in Events
      BY <2>2
    <3>2. ctx[2].row \in 0..MaxTime
      BY <3>1, EventType
    <3> QED BY <2>1, <2>2, <3>2, AdvanceIs
  <2>3. CASE ctx \notin {"msg"} \X S
    BY <2>1, <2>3, LiveAssumption
  <2> QED BY <2>2, <2>3
<1>2. next \in Marks
  BY <1>1 DEF Marks
<1>3. MarkContexts(next) /\ heard' = heard
  BY Zenon DEF MarkMessagesRead
<1> HIDE DEF next
<1> QED BY <1>1, <1>2, <1>3, ContextsStep

\* Mark all: what leaves the observed events is covered by latest.
LEMMA MarkAllStep ==
  ASSUME DotInv, MarkAllChannelsRead
  PROVE  DotInv' /\ Forward
<1> USE LiveAssumption
<1>0. DotTypes
  BY DEF DotInv
<1>1. /\ marks' = [ctx \in Contexts |->
                    IF ctx \in {"channel"} \X Unread THEN Advance(marks[ctx], latest[ctx[2]])
                                                 ELSE marks[ctx]]
      /\ forced' = forced \ Unread
      /\ stored' = [marks |-> marks', forced |-> forced']
      /\ latest' = [c \in Channels |-> IF c \in Unread THEN 0 ELSE latest[c]]
      /\ observed' = [c \in Channels |-> IF c \in Unread THEN {} ELSE observed[c]]
      /\ heard' = heard
  BY DEF MarkAllChannelsRead
<1>2. ASSUME NEW ctx \in Contexts
      PROVE  /\ marks'[ctx] \in 0..MaxTime /\ marks'[ctx] >= marks[ctx]
             /\ ctx \in {"channel"} \X Unread => marks'[ctx] >= latest[ctx[2]]
  <2>1. marks[ctx] \in 0..MaxTime
    BY <1>0 DEF DotTypes, Marks
  <2>2. CASE ctx \in {"channel"} \X Unread
    <3>1. ctx[2] \in Channels
      BY <2>2 DEF Contexts
    <3>2. latest[ctx[2]] \in 0..MaxTime
      BY <1>0, <3>1 DEF DotTypes
    <3>3. marks'[ctx] = Advance(marks[ctx], latest[ctx[2]])
      BY <1>1, <2>2
    <3> QED BY <2>1, <3>2, <3>3, AdvanceIs
  <2>3. CASE ctx \notin {"channel"} \X Unread
    <3>1. marks'[ctx] = marks[ctx]
      BY <1>1, <2>3
    <3> QED BY <2>1, <2>3, <3>1
  <2> QED BY <2>2, <2>3
<1>3. Forward
  BY <1>2 DEF Forward
<1>4. marks' \in Marks
  <2>1. marks' = [ctx \in Contexts |-> marks'[ctx]]
    BY <1>1
  <2> QED BY <2>1, <1>2 DEF Marks
<1>5. DotTypes'
  BY <1>0, <1>1, <1>4 DEF DotTypes, Marks, Contexts
<1>6. (\A d \in Channels : \A e \in observed[d] : e.ch = d /\ e \in heard /\ e.at <= latest[d])'
  BY <1>0, <1>1 DEF DotInv, DotTypes
<1>7. ASSUME NEW e \in heard PROVE e \in observed'[e.ch] \/ e.at <= ReadAt(e)'
  <2>1. e \in Events /\ e.ch \in Channels /\ e.at \in Nat
    BY <1>0, EventType DEF DotTypes
  <2>2. CASE e.at <= ReadAt(e)
    BY <2>1, <2>2, <1>0, <1>3, <1>4, CoverGrows
  <2>3. CASE e \in observed[e.ch] /\ e.ch \notin Unread
    BY <2>1, <2>3, <1>1
  <2>4. CASE e \in observed[e.ch] /\ e.ch \in Unread
    <3>1. <<"channel", e.ch>> \in Contexts
      BY <2>1 DEF Contexts
    <3>2. marks'[<<"channel", e.ch>>] \in Nat /\ latest[e.ch] \in Nat
      BY <2>1, <3>1, <1>0, <1>2 DEF DotTypes
    <3>3. e.at <= latest[e.ch] /\ marks'[<<"channel", e.ch>>] >= latest[e.ch]
      BY <2>1, <2>4, <3>1, <1>2 DEF DotInv
    <3>4. e.at <= marks'[<<"channel", e.ch>>]
      BY <2>1, <3>2, <3>3
    <3> QED BY <1>0, <1>4, <2>1, <3>4, CoverGrows
  <2> QED BY <2>2, <2>3, <2>4 DEF DotInv
<1>8. heard' = heard
  BY <1>1
<1> QED BY <1>3, <1>5, <1>6, <1>7, <1>8 DEF DotInv

\* The unread state changes by frames, by marks and by a remount alone.
LEMMA SyncKeepsDots ==
  Sync \/ Leave => UNCHANGED unreadVars
<1> SUFFICES ASSUME Sync \/ Leave PROVE UNCHANGED unreadVars
  OBVIOUS
<1> QED
  BY Zenon DEF Sync, ChangeRoster, Opens, OpenFails, Continue, Settle, Retry, StreamDies, Leave

\* Nothing observed, and the stores mirror memory.
LEMMA DotInit == Init => DotInv
<1> SUFFICES ASSUME Init PROVE DotInv
  OBVIOUS
<1>1. Unmarked \in Marks
  BY LiveAssumption DEF Unmarked, Marks
<1> QED BY <1>1, LiveAssumption DEF Init, DotInv, DotTypes

\* Every step keeps the unread invariant and moves markers forward only.
LEMMA DotStep ==
  ASSUME DotInv, roster \subseteq Channels, [Next]_vars
  PROVE  DotInv' /\ Forward
<1> USE LiveAssumption
<1>0. marks \in Marks /\ \A ctx \in Contexts : marks[ctx] \in Nat /\ marks[ctx] >= marks[ctx]
  BY DEF DotInv, DotTypes, Marks
<1>1. CASE UNCHANGED unreadVars
  <2>1. /\ latest' = latest /\ observed' = observed /\ marks' = marks
        /\ forced' = forced /\ stored' = stored /\ heard' = heard
    BY <1>1 DEF unreadVars
  <2>2. \A e : ReadAt(e)' = ReadAt(e)
    BY <2>1 DEF ReadAt, Covering
  <2>3. DotTypes'
    BY <2>1 DEF DotInv, DotTypes, Marks, Contexts
  <2> QED BY <1>0, <2>1, <2>2, <2>3 DEF DotInv, Forward
<1>2. CASE Read
  <2>1. CASE \E s \in streams, e \in Events : Frame(s, e)
    BY <2>1, FrameStep DEF Frame
  <2>2. CASE \E c \in Touched, t \in Seconds \cup {0} : Open(c, t)
    <3>1. PICK c \in Touched, t \in Seconds \cup {0} : Open(c, t)
      BY <2>2
    <3>2. c \in Channels /\ t \in 0..MaxTime
      BY DEF Seconds
    <3>3. MarkRead(marks, c, t, TRUE) /\ heard' = heard
      BY <3>1, Zenon DEF Open
    <3> QED BY <1>0, <3>2, <3>3, MarkReadStep
  <2>3. CASE \E t \in Seconds : SeeNewest(t)
    <3>1. PICK t \in Seconds : SeeNewest(t)
      BY <2>3
    <3>2. active \in Channels /\ t \in 0..MaxTime
      BY <3>1 DEF SeeNewest, Seconds
    <3>3. MarkRead(marks, active, t, TRUE) /\ heard' = heard
      BY <3>1, Zenon DEF SeeNewest
    <3> QED BY <1>0, <3>2, <3>3, MarkReadStep
  <2>4. CASE \E c \in Touched, t \in Seconds \cup {0} : MarkChannelRead(c, t)
    <3>1. PICK c \in Touched, t \in Seconds \cup {0} : MarkChannelRead(c, t)
      BY <2>4
    <3>2. c \in Channels /\ t \in 0..MaxTime
      BY DEF Seconds
    <3>3. MarkRead(marks, c, t, FALSE) /\ heard' = heard
      BY <3>1, Zenon DEF MarkChannelRead
    <3> QED BY <1>0, <3>2, <3>3, MarkReadStep
  <2>5. CASE \E c \in Touched, t \in Seconds : \E grouped \in 0..t : MarkThreadRead(c, t, grouped)
    <3>1. PICK c \in Touched, t \in Seconds : \E grouped \in 0..t : MarkThreadRead(c, t, grouped)
      BY <2>5
    <3>2. PICK grouped \in 0..t : MarkThreadRead(c, t, grouped)
      BY <3>1
    <3>3. c \in Channels /\ t \in 0..MaxTime /\ grouped \in 0..MaxTime
      BY DEF Seconds
    <3> QED BY <3>2, <3>3, ThreadStep
  <2>9. CASE \E S \in SUBSET Marked \ {{}} : MarkMessagesRead(S)
    BY <2>9, MessagesStep
  <2>6. CASE \E c \in Touched : MarkChannelUnread(c)
    <3>1. PICK c \in Touched : MarkChannelUnread(c)
      BY <2>6
    <3>2. /\ forced' = forced \cup {c} /\ stored' = [stored EXCEPT !.forced = forced']
          /\ latest' = latest /\ observed' = observed /\ marks' = marks /\ heard' = heard
      BY <3>1 DEF MarkChannelUnread
    <3>3. DotTypes'
      BY <3>2 DEF DotInv, DotTypes, Marks, Contexts
    <3>4. \A e : ReadAt(e)' = ReadAt(e)
      BY <3>2 DEF ReadAt, Covering
    <3> QED BY <1>0, <3>2, <3>3, <3>4 DEF DotInv, Forward
  <2>7. CASE MarkAllChannelsRead
    BY <2>7, MarkAllStep
  <2>8. CASE Leave
    BY <2>8, <1>1, SyncKeepsDots
  <2> QED BY <1>2, <2>1, <2>2, <2>3, <2>4, <2>5, <2>6, <2>7, <2>8, <2>9 DEF Read
<1>3. CASE Remount
  BY <1>3, <1>0 DEF Remount, DotInv, DotTypes, Forward, Marks, Contexts
<1>4. CASE Sync
  BY <1>1, <1>4, SyncKeepsDots
<1> QED BY <1>1, <1>2, <1>3, <1>4 DEF Next, vars

\* The two invariants together.
LEMMA BothInvariants == Spec => [](SubInv /\ DotInv)
<1>1. SubInv /\ DotInv /\ [Next]_vars => DotInv'
  BY DotStep DEF SubInv, SubTypes
<1> QED BY SubInvariant, DotInit, <1>1, PTL DEF Spec

(***************************************************************************)
(* The dots are exact in every instance: dropping observed events on a     *)
(* mark never hides an unread message nor keeps a read one.                *)
(***************************************************************************)
THEOREM DotsAreExact == Spec => []DotIsExact
<1>1. DotInv /\ SubInv => DotIsExact
  <2> SUFFICES ASSUME DotInv, SubInv, NEW c \in roster \ {active}
               PROVE  c \in Unread <=> c \in forced \/ \E e \in heard : e.ch = c /\ e.at > ReadAt(e)
    BY DEF DotIsExact
  <2>1. c \in Channels
    BY DEF SubInv, SubTypes
  <2>2. ASSUME NEW e \in observed[c] PROVE e \in heard /\ e.ch = c /\ latest[c] # 0
    <3>1. e \in Events /\ e.at <= latest[c] /\ e \in heard /\ e.ch = c
      BY <2>1 DEF DotInv, DotTypes
    <3>2. e.at \in 1..MaxTime
      BY <3>1, EventType
    <3> QED BY <3>1, <3>2, LiveAssumption
  <2>3. ASSUME NEW e \in heard, e.ch = c, e.at > ReadAt(e) PROVE e \in observed[c]
    <3>1. e \in Events /\ (e \in observed[c] \/ e.at <= ReadAt(e)) /\ DotTypes
      BY <2>3 DEF DotInv, DotTypes
    <3>2. e.at \in Nat /\ ReadAt(e) \in Nat
      BY <3>1, EventType, ReadAtIs
    <3> QED BY <2>3, <3>1, <3>2
  <2> QED BY <2>1, <2>2, <2>3 DEF Unread
<1> QED BY BothInvariants, <1>1, PTL

(***************************************************************************)
(* Read markers never move back and forced channels are not lost, across   *)
(* any remount.                                                            *)
(***************************************************************************)
THEOREM MarksAreKept == Spec => MarksSurvive
<1>1. SubInv /\ DotInv /\ [Next]_vars =>
        [/\ \A ctx \in Contexts : marks'[ctx] >= marks[ctx]
         /\ run' # run => forced' = forced]_vars
  <2> SUFFICES ASSUME SubInv, DotInv, [Next]_vars
               PROVE  /\ \A ctx \in Contexts : marks'[ctx] >= marks[ctx]
                      /\ run' # run => forced' = forced
    OBVIOUS
  <2>1. Forward
    BY DotStep DEF SubInv, SubTypes
  <2>2. run' # run => forced' = forced
    <3>1. CASE Read
      BY <3>1, ReadKeepsSubs DEF subVars
    <3>2. CASE Sync
      BY <3>2, SyncKeepsDots DEF unreadVars
    <3>3. CASE Remount
      BY <3>3 DEF Remount, DotInv, DotTypes
    <3> QED BY <3>1, <3>2, <3>3 DEF Next, vars, subVars
  <2> QED BY <2>1, <2>2 DEF Forward
<1> QED BY BothInvariants, <1>1, PTL DEF Spec, MarksSurvive

(***************************************************************************)
(* The type invariant.                                                     *)
(***************************************************************************)
THEOREM TypeCorrect == Spec => []TypeOK
<1> DEFINE Rest == active \in roster \cup {None} /\ run <= MaxRuns
<1> DEFINE Bool == failed \in BOOLEAN
<1>1. Init => Rest /\ Bool
  <2>1. Init => Rest
    BY LiveAssumption DEF Init
  <2>2. Init => Bool
    BY Zenon DEF Init
  <2> QED BY <2>1, <2>2
<1>2. SubInv /\ Rest /\ [Next]_vars => Rest'
  <2> SUFFICES ASSUME SubInv, Rest, [Next]_vars PROVE Rest'
    OBVIOUS
  <2> USE LiveAssumption DEF SubInv, SubTypes
  <2>1. CASE Sync
    <3>1. CASE \E members \in SUBSET Channels : ChangeRoster(members)
      BY <3>1 DEF ChangeRoster
    <3>2. CASE ~(\E members \in SUBSET Channels : ChangeRoster(members))
      <4>1. roster' = roster /\ run' = run /\ active' = active
        BY <2>1, <3>2, Zenon DEF Sync, Opens, OpenFails, Continue, Settle, Retry, StreamDies
      <4> QED BY <4>1
    <3> QED BY <3>1, <3>2
  <2>2. CASE Read
    <3>1. roster' = roster /\ run' = run
      BY <2>2, ReadKeepsSubs DEF subVars
    <3>2. active' \in roster \cup {None}
      BY <2>2 DEF Read, Frame, Open, SeeNewest, MarkChannelRead, MarkThreadRead, MarkMessagesRead,
                  MarkChannelUnread, MarkAllChannelsRead, Leave
    <3> QED BY <3>1, <3>2
  <2>3. CASE Remount
    BY <2>3 DEF Remount
  <2>4. CASE UNCHANGED vars
    BY <2>4 DEF vars, subVars
  <2> QED BY <2>1, <2>2, <2>3, <2>4 DEF Next
<1>3. Bool /\ [Next]_vars => Bool'
  <2> SUFFICES ASSUME Bool, [Next]_vars PROVE Bool'
    OBVIOUS
  <2>1. CASE Sync
    BY <2>1, Zenon DEF Sync, ChangeRoster, SyncSubs, Opens, OpenFails, Continue, Settle, Retry,
       StreamDies
  <2>2. CASE Read
    BY <2>2, ReadKeepsSubs DEF subVars
  <2>3. CASE Remount
    BY <2>3, Zenon DEF Remount
  <2>4. CASE UNCHANGED vars
    BY <2>4 DEF vars, subVars
  <2> QED BY <2>1, <2>2, <2>3, <2>4 DEF Next
<1>4. SubInv /\ DotInv /\ Rest /\ Bool => TypeOK
  <2> SUFFICES ASSUME SubInv, DotInv, Rest, Bool PROVE TypeOK
    OBVIOUS
  <2>1. run \in 1..MaxRuns
    BY LiveAssumption DEF SubInv, SubTypes
  <2> QED BY <2>1 DEF TypeOK, SubInv, SubTypes, DotInv, DotTypes, Marks
<1> QED BY BothInvariants, <1>1, <1>2, <1>3, <1>4, PTL DEF Spec

=============================================================================
