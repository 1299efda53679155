----------------------- MODULE ChannelTimelineProofs -----------------------
(***************************************************************************)
(* The retained pages of a channel window have no gap, for any number of   *)
(* messages, any page size and any number of cancelled polls.              *)
(*                                                                         *)
(* Every page, in the window or on its way to it, holds the visible rows   *)
(* of an interval of rowids (SoundPage): a page for a cursor ends below    *)
(* that cursor, and starts at its own. So does the whole chain (Chain),    *)
(* because an older page is appended only at the tail's cursor.            *)
(*                                                                         *)
(* Every message that has left pending has one row, in any interleaving.   *)
(* The argument (RowInv) is about the sets that are merged: an overlay has *)
(* one event per render key and shares none with a page, so what the pages *)
(* and the overlay flatten to has one event per message; the loop of       *)
(* reconcileChannelWindowMessages, by induction over the events it has     *)
(* taken in, then leaves one row per render key and per message.           *)
(***************************************************************************)
EXTENDS ChannelTimeline, SetInduction, TLAPS

Low(p) == IF p.next = NoRow THEN 1 ELSE p.next
Interval(low, high) == {r \in low..high : Visible(r)}

SoundPage(p) ==
  /\ p \in Page
  /\ \E high \in 0..Len(history) :
       /\ p.start # NoRow => high = p.start - 1
       /\ p.next <= high
       /\ p.rows = Interval(Low(p), high)

SoundFetch(f) == f.at = "answered" => SoundPage(f.page)

Chain ==
  pages # <<>> =>
    \E high \in 0..Len(history) :
      /\ pages[Len(pages)].next <= high
      /\ PageRows(pages) = Interval(Low(pages[Len(pages)]), high)

ChainInv ==
  /\ now \in Nat
  /\ history \in Seq([m : Msgs, at : Int, sent : Int, top : BOOLEAN])
  /\ pages \in Seq(Page)
  /\ Chain
  /\ SoundFetch(poll) /\ SoundFetch(older)
  /\ \A f \in orphans : SoundFetch(f)

-----------------------------------------------------------------------------
(* Pages.                                                                  *)

\* HistoryPage answers any cursor within the history with an interval of its
\* visible rows, and sets the cursor only when the request was filled.
LEMMA HistoryPageIsSound ==
  ASSUME history \in Seq([m : Msgs, at : Int, sent : Int, top : BOOLEAN]),
         NEW before \in 0..Len(history)
  PROVE  SoundPage(HistoryPage(before))
<1> DEFINE top == IF before = NoRow THEN Len(history) ELSE before - 1
           bottom == IF top < PageSize THEN 1 ELSE top - PageSize + 1
           rows == {r \in bottom..top : Visible(r)}
           next == IF top - bottom + 1 = PageSize THEN bottom ELSE NoRow
           p == HistoryPage(before)
<1>1. PageSize \in Nat \ {0} /\ Len(history) \in Nat
  BY TimelineAssumption
<1>2. /\ top \in 0..Len(history)
      /\ bottom \in Nat /\ bottom >= 1
      /\ next \in Nat
      /\ next <= top
      /\ next = NoRow => bottom = 1
      /\ next # NoRow => next = bottom
      /\ before # NoRow => top = before - 1
  BY <1>1 DEF NoRow
<1>3. p = [start |-> before, rows |-> rows, next |-> next]
  BY DEF HistoryPage
<1> HIDE DEF top, bottom, next, p
<1>4. rows \in SUBSET Nat
  BY <1>2, <1>1
<1>5. p \in Page
  BY <1>1, <1>2, <1>3, <1>4 DEF Page
<1>6. p.start = before /\ p.rows = rows /\ p.next = next
  BY <1>3
<1>7. Low(p) = bottom
  BY <1>2, <1>6 DEF Low
<1>8. p.rows = Interval(Low(p), top)
  BY <1>6, <1>7 DEF Interval
<1> QED  BY <1>2, <1>5, <1>6, <1>8 DEF SoundPage, p

\* The rows of a chain are those of its pages.
LEMMA RowsOfOne ==
  ASSUME NEW p \in Page
  PROVE  PageRows(<<p>>) = p.rows
BY DEF PageRows

LEMMA RowsOfAppend ==
  ASSUME NEW ps \in Seq(Page), NEW p \in Page
  PROVE  PageRows(Append(ps, p)) = PageRows(ps) \cup p.rows
<1> DEFINE as == Append(ps, p)
<1>1. /\ as \in Seq(Page)
      /\ Len(as) = Len(ps) + 1
      /\ \A i \in 1..Len(ps) : as[i] = ps[i]
      /\ as[Len(ps) + 1] = p
      /\ Len(ps) \in Nat
      /\ DOMAIN ps = 1..Len(ps) /\ DOMAIN as = 1..Len(as)
  OBVIOUS
<1> HIDE DEF as
<1>2. ASSUME NEW r, NEW i \in DOMAIN as, r \in as[i].rows
      PROVE  (\E j \in DOMAIN ps : r \in ps[j].rows) \/ r \in p.rows
  <2>1. i \in DOMAIN ps \/ i = Len(ps) + 1
    BY <1>1
  <2> QED  BY <1>1, <1>2, <2>1
<1>5. ASSUME NEW r, NEW i \in DOMAIN ps, r \in ps[i].rows
      PROVE  \E j \in DOMAIN as : r \in as[j].rows
  <2>1. i \in 1..Len(ps)
    BY <1>1
  <2>2. i \in 1..Len(as)
    BY <1>1, <2>1
  <2>3. as[i] = ps[i]
    BY <1>1, <2>1
  <2> QED  BY <1>1, <1>5, <2>2, <2>3
<1>6. ASSUME NEW r, r \in p.rows
      PROVE  \E j \in DOMAIN as : r \in as[j].rows
  <2>1. Len(ps) + 1 \in DOMAIN as
    BY <1>1
  <2> QED  BY <1>1, <1>6, <2>1
<1>3. \A r : r \in PageRows(as) <=> \E i \in DOMAIN as : r \in as[i].rows
  BY DEF PageRows
<1>4. \A r : r \in PageRows(ps) <=> \E i \in DOMAIN ps : r \in ps[i].rows
  BY DEF PageRows
<1> QED  BY <1>2, <1>3, <1>4, <1>5, <1>6 DEF as

-----------------------------------------------------------------------------
(* What the actions do to the pages.                                       *)

\* A row that is stored later changes no page.
LEMMA StoreKeeps ==
  ASSUME ChainInv, NEW m \in Msgs, NEW sent \in Int, NEW top \in BOOLEAN,
         Store(m, sent, top), UNCHANGED <<now, window, fetches>>
  PROVE  ChainInv'
<1> DEFINE row == [m |-> m, at |-> now, sent |-> sent, top |-> top]
<1>1. /\ history \in Seq([m : Msgs, at : Int, sent : Int, top : BOOLEAN])
      /\ row \in [m : Msgs, at : Int, sent : Int, top : BOOLEAN]
      /\ history' = Append(history, row)
  BY DEF ChainInv, Store
<1> HIDE DEF row
<1>2. /\ history' \in Seq([m : Msgs, at : Int, sent : Int, top : BOOLEAN])
      /\ Len(history) \in Nat
      /\ Len(history') = Len(history) + 1
      /\ \A r \in 1..Len(history) : history'[r] = history[r]
  BY <1>1
<1>3. ASSUME NEW low \in Nat, low >= 1, NEW high \in 0..Len(history)
      PROVE  Interval(low, high)' = Interval(low, high)
  <2>1. \A r \in low..high : r \in 1..Len(history)
    BY <1>2, <1>3
  <2>2. \A r \in low..high : history'[r].top = history[r].top
    BY <1>2, <2>1
  <2> QED  BY <2>2 DEF Interval, Visible
<1>4. \A high \in 0..Len(history) : high \in 0..Len(history')
  BY <1>2
<1>5. \A p \in Page : Low(p) \in Nat /\ Low(p) >= 1
  BY DEF Low, Page, NoRow
<1>6. ASSUME NEW p, SoundPage(p) PROVE SoundPage(p)'
  <2>1. PICK high \in 0..Len(history) :
          /\ p.start # NoRow => high = p.start - 1
          /\ p.next <= high
          /\ p.rows = Interval(Low(p), high)
    BY <1>6 DEF SoundPage
  <2>2. p \in Page
    BY <1>6 DEF SoundPage
  <2>3. p.rows = Interval(Low(p), high)'
    BY <1>3, <1>5, <2>1, <2>2 DEF Low
  <2> QED  BY <1>4, <2>1, <2>2, <2>3 DEF SoundPage, Low
<1>7. UNCHANGED <<pages, poll, older, orphans>>
  BY DEF window, fetches
<1>8. Chain'
  <2>1. SUFFICES ASSUME pages # <<>> PROVE Chain'
    BY <1>7 DEF Chain
  <2>2. PICK high \in 0..Len(history) :
          /\ pages[Len(pages)].next <= high
          /\ PageRows(pages) = Interval(Low(pages[Len(pages)]), high)
    BY <2>1 DEF ChainInv, Chain
  <2>3. pages[Len(pages)] \in Page
    BY <2>1 DEF ChainInv
  <2>4. PageRows(pages) = Interval(Low(pages[Len(pages)]), high)'
    BY <1>3, <1>5, <1>7, <2>2, <2>3 DEF Low
  <2>5. PageRows(pages)' = PageRows(pages)
    BY <1>7 DEF PageRows
  <2> QED  BY <1>4, <1>7, <2>2, <2>4, <2>5 DEF Chain, Low
<1> QED  BY <1>2, <1>6, <1>7, <1>8 DEF ChainInv, SoundFetch

\* Steps that store nothing read the rows as they were.
LEMMA SameHistory ==
  ASSUME UNCHANGED history
  PROVE  /\ \A low, high : Interval(low, high)' = Interval(low, high)
         /\ \A p : SoundPage(p)' <=> SoundPage(p)
         /\ \A f : SoundFetch(f)' <=> SoundFetch(f)
         /\ ChainInv /\ UNCHANGED pages => Chain'
<1>1. ASSUME NEW low, NEW high PROVE Interval(low, high)' = Interval(low, high)
  BY DEF Interval, Visible
<1>2. ASSUME NEW p PROVE SoundPage(p)' <=> SoundPage(p)
  BY DEF SoundPage, Low, Interval, Visible
<1>3. ASSUME NEW f PROVE SoundFetch(f)' <=> SoundFetch(f)
  BY <1>2 DEF SoundFetch
<1>4. ASSUME ChainInv, UNCHANGED pages PROVE Chain'
  <2>1. Chain' <=> Chain
    BY <1>4 DEF Chain, PageRows, Low, Interval, Visible
  <2> QED  BY <1>4, <2>1 DEF ChainInv
<1> QED  BY <1>1, <1>2, <1>3, <1>4

\* A head page alone is a chain.
LEMMA ReplaceKeeps ==
  ASSUME ChainInv, NEW page, SoundPage(page), pages' = <<page>>,
         UNCHANGED history
  PROVE  pages' \in Seq(Page) /\ Chain'
<1>1. page \in Page
  BY DEF SoundPage
<1>2. pages' \in Seq(Page) /\ Len(pages') = 1 /\ pages'[1] = page
  BY <1>1
<1>3. PageRows(pages)' = page.rows
  BY <1>1, RowsOfOne DEF PageRows
<1>4. PICK high \in 0..Len(history) :
        page.next <= high /\ page.rows = Interval(Low(page), high)
  BY DEF SoundPage
<1>5. page.rows = Interval(Low(page), high)'
  BY <1>4, SameHistory DEF Low
<1> QED  BY <1>2, <1>3, <1>4, <1>5 DEF Chain, Low

\* A page that continues the chain makes a longer one.
LEMMA AppendKeeps ==
  ASSUME ChainInv, NEW page, SoundPage(page), Continues(page),
         pages' = Append(pages, page), UNCHANGED history
  PROVE  pages' \in Seq(Page) /\ Chain'
<1> DEFINE tail == pages[Len(pages)]
<1>1. /\ page \in Page /\ pages \in Seq(Page) /\ pages # <<>>
      /\ tail \in Page
      /\ tail.next # NoRow /\ page.start = tail.next
  BY DEF SoundPage, ChainInv, Continues, HasMore
<1>2. /\ pages' \in Seq(Page)
      /\ pages'[Len(pages')] = page
  BY <1>1
<1>3. PICK high \in 0..Len(history) :
        tail.next <= high /\ PageRows(pages) = Interval(tail.next, high)
  BY <1>1 DEF ChainInv, Chain, Low
<1>4. PICK mid \in 0..Len(history) :
        mid = tail.next - 1 /\ page.next <= mid
        /\ page.rows = Interval(Low(page), mid)
  BY <1>1 DEF SoundPage
<1>5. Low(page) \in Nat /\ Low(page) <= tail.next /\ tail.next \in Nat
  BY <1>1, <1>4 DEF Low, Page, NoRow
<1> HIDE DEF tail
<1>6. Interval(tail.next, high) \cup Interval(Low(page), mid)
        = Interval(Low(page), high)
  BY <1>3, <1>4, <1>5 DEF Interval
<1>7. PageRows(pages)' = Interval(Low(page), high)'
  <2>1. PageRows(pages)' = PageRows(Append(pages, page))
    BY DEF PageRows
  <2>2. PageRows(Append(pages, page)) = PageRows(pages) \cup page.rows
    BY <1>1, RowsOfAppend
  <2>3. Interval(Low(page), high)' = Interval(Low(page), high)
    BY SameHistory DEF Low
  <2> QED  BY <1>3, <1>4, <1>6, <2>1, <2>2, <2>3
<1>8. page.next <= high
  BY <1>1, <1>3, <1>4 DEF Page
<1> QED  BY <1>2, <1>7, <1>8 DEF Chain, Low

-----------------------------------------------------------------------------
(* The invariant.                                                          *)

LEMMA InitChain == Init => ChainInv
<1> SUFFICES ASSUME Init PROVE ChainInv
  OBVIOUS
<1>1. now \in Nat /\ history = <<>> /\ pages = <<>> /\ orphans = {}
  BY DEF Init
<1>2. poll.at = "none" /\ older.at = "none"
  BY DEF Init, NoFetch, Fetch
<1> QED  BY <1>1, <1>2 DEF ChainInv, Chain, SoundFetch

\* A step that keeps the rows and the pages, and whose fetches are sound.
LEMMA FetchKeeps ==
  ASSUME ChainInv, now' \in Nat, UNCHANGED <<history, pages>>,
         SoundFetch(poll'), SoundFetch(older'),
         \A f \in orphans' : SoundFetch(f)
  PROVE  ChainInv'
<1>1. Chain'
  BY SameHistory
<1>2. SoundFetch(poll)' /\ SoundFetch(older)' /\ \A f \in orphans' : SoundFetch(f)'
  BY DEF SoundFetch, SoundPage, Interval, Visible, Low
<1> QED  BY <1>1, <1>2 DEF ChainInv

\* A step that puts a sound page first, or after the tail.
LEMMA PagesKeep ==
  ASSUME ChainInv, UNCHANGED <<now, history>>, pages' \in Seq(Page), Chain',
         SoundFetch(poll'), SoundFetch(older'), orphans' \subseteq orphans
  PROVE  ChainInv'
<1>1. SoundFetch(poll)' /\ SoundFetch(older)' /\ \A f \in orphans' : SoundFetch(f)'
  BY SameHistory DEF ChainInv, SoundFetch, SoundPage, Low, Interval, Visible
<1> QED  BY <1>1 DEF ChainInv

LEMMA NextChain == ChainInv /\ [Next]_vars => ChainInv'
<1> SUFFICES ASSUME ChainInv, [Next]_vars PROVE ChainInv'
  OBVIOUS
<1> USE DEF window, rendered, fetches
<1>1. /\ now \in Nat
      /\ history \in Seq([m : Msgs, at : Int, sent : Int, top : BOOLEAN])
      /\ pages \in Seq(Page)
      /\ SoundFetch(poll) /\ SoundFetch(older)
      /\ \A f \in orphans : SoundFetch(f)
  BY DEF ChainInv
<1>2. SoundFetch(NoFetch)
  BY DEF SoundFetch, NoFetch, Fetch
<1>3. SoundPage(HistoryPage(NoRow))
  <2>1. NoRow \in 0..Len(history)
    BY <1>1 DEF NoRow
  <2> QED  BY <1>1, <2>1, HistoryPageIsSound
<1>4. \A f : SoundFetch(Answered(f))
  BY <1>3 DEF SoundFetch, Answered, Fetch
<1>5. CASE UNCHANGED vars
  BY <1>5, <1>1, FetchKeeps DEF vars
<1>6. CASE Tick
  BY <1>6, <1>1, FetchKeeps DEF Tick
<1>7. ASSUME NEW m \in Peers, NEW delay \in 0..MaxSkew, NEW top \in BOOLEAN,
             PeerMessage(m, delay, top)
      PROVE  ChainInv'
  <2>1. m \in Msgs /\ now - delay \in Int
    BY <1>1 DEF Msgs
  <2> QED  BY <1>7, <2>1, StoreKeeps DEF PeerMessage
<1>8. ASSUME NEW r \in Rows, NEW id \in FrameIds, ChannelFrame(r, id) PROVE ChainInv'
  BY <1>8, <1>1, FetchKeeps DEF ChannelFrame
<1>9. ASSUME NEW r \in Rows, NEW id \in FrameIds, UpdateFrame(r, id) PROVE ChainInv'
  BY <1>9, <1>1, FetchKeeps DEF UpdateFrame
<1>10. CASE StartPoll
  <2>1. SoundFetch(poll')
    BY <1>10 DEF StartPoll, SoundFetch, Fetch
  <2> QED  BY <1>10, <1>1, <2>1, FetchKeeps DEF StartPoll
<1>11. CASE AnswerPoll
  BY <1>11, <1>1, <1>4, FetchKeeps DEF AnswerPoll
<1>12. CASE FinishPoll
  <2>1. SoundPage(poll.page) /\ pages' = <<poll.page>>
    BY <1>12, <1>1 DEF FinishPoll, SoundFetch, ReplaceNewest
  <2>2. pages' \in Seq(Page) /\ Chain'
    BY <1>12, <2>1, ReplaceKeeps DEF FinishPoll
  <2> QED  BY <1>12, <1>1, <1>2, <2>2, PagesKeep DEF FinishPoll
<1>13. CASE FailPoll
  BY <1>13, <1>1, <1>2, FetchKeeps DEF FailPoll
<1>14. ASSUME NEW f \in orphans, AnswerOrphan(f) PROVE ChainInv'
  BY <1>14, <1>1, <1>4, FetchKeeps DEF AnswerOrphan
<1>15. ASSUME NEW f \in orphans, FinishOrphan(f) PROVE ChainInv'
  <2>1. SoundPage(f.page)
    BY <1>15, <1>1 DEF FinishOrphan, SoundFetch
  <2>2. pages' = <<f.page>> \/ pages' = pages
    BY <1>15 DEF FinishOrphan, ReplaceNewest
  <2>3. pages' \in Seq(Page) /\ Chain'
    BY <1>15, <1>1, <2>1, <2>2, ReplaceKeeps, SameHistory DEF FinishOrphan
  <2> QED  BY <1>15, <1>1, <2>3, PagesKeep DEF FinishOrphan
<1>16. CASE StartOlder
  <2>1. pages[Len(pages)].next \in 0..Len(history)
    <3>1. pages # <<>> /\ pages[Len(pages)] \in Page
      BY <1>16, <1>1 DEF StartOlder, HasMore
    <3>2. PICK high \in 0..Len(history) : pages[Len(pages)].next <= high
      BY <3>1 DEF ChainInv, Chain
    <3> QED  BY <1>1, <3>1, <3>2 DEF Page
  <2>2. SoundPage(HistoryPage(pages[Len(pages)].next))
    BY <1>1, <2>1, HistoryPageIsSound
  <2>3. SoundFetch(older')
    BY <1>16, <2>2 DEF StartOlder, SoundFetch, Fetch
  <2> QED  BY <1>16, <1>1, <2>3, FetchKeeps DEF StartOlder
<1>17. CASE FinishOlder
  <2>1. SoundPage(older.page)
    BY <1>17, <1>1 DEF FinishOlder, SoundFetch
  <2>2. pages' \in Seq(Page) /\ Chain'
    BY <1>17, <2>1, AppendKeeps DEF FinishOlder
  <2> QED  BY <1>17, <1>1, <1>2, <2>2, PagesKeep DEF FinishOlder
<1>18. CASE FailOlder
  BY <1>18, <1>1, <1>2, FetchKeeps DEF FailOlder
<1>19. ASSUME NEW s \in Sends, Mutate(s) PROVE ChainInv'
  <2>1. SoundFetch(Fetch(poll.at, {}, poll.page))
    BY <1>1 DEF SoundFetch, Fetch
  <2>2. \A f \in orphans' : SoundFetch(f)
    BY <1>19, <1>1, <2>1 DEF Mutate
  <2> QED  BY <1>19, <1>1, <1>2, <2>2, FetchKeeps DEF Mutate
<1>20. ASSUME NEW s \in Sends, StoreSend(s) PROVE ChainInv'
  <2>1. s \in Msgs /\ now \in Int
    BY <1>1 DEF Msgs
  <2> QED  BY <1>20, <2>1, StoreKeeps DEF StoreSend
<1>21. ASSUME NEW s \in Sends, NEW id \in {"msg", "client"}, Acknowledge(s, id) PROVE ChainInv'
  BY <1>21, <1>1, FetchKeeps DEF Acknowledge
<1>22. ASSUME NEW s \in Sends, Fail(s) PROVE ChainInv'
  BY <1>22, <1>1, FetchKeeps DEF Fail
<1> QED
  BY <1>5, <1>6, <1>7, <1>8, <1>9, <1>10, <1>11, <1>12, <1>13, <1>14, <1>15,
     <1>16, <1>17, <1>18, <1>19, <1>20, <1>21, <1>22 DEF Next

LEMMA ChainIsGapless == ChainInv => ChainHasNoGap
<1> SUFFICES ASSUME ChainInv, NEW r \in Rows, Visible(r),
                    NEW q \in PageRows(pages), r < q,
                    HasMore => r >= pages[Len(pages)].next
             PROVE  r \in PageRows(pages)
  BY DEF ChainHasNoGap
<1>1. pages # <<>> /\ pages[Len(pages)] \in Page
  BY DEF PageRows, ChainInv
<1>2. PICK high \in 0..Len(history) :
        PageRows(pages) = Interval(Low(pages[Len(pages)]), high)
  BY <1>1 DEF ChainInv, Chain
<1>3. r \in 1..Len(history) /\ q <= high /\ q \in Int
  BY <1>2 DEF Rows, Interval, ChainInv
<1>4. r \in Low(pages[Len(pages)])..high
  BY <1>1, <1>3 DEF HasMore, Low, Page, NoRow
<1> QED  BY <1>2, <1>4 DEF Interval

\* The pages of the window leave out no row between the newest and the oldest
\* they hold, and a window that says it has no more starts at the beginning of
\* the channel (replaceNewestChannelWindow, appendOlderChannelWindow).
THEOREM WindowIsGapless == Spec => []ChainHasNoGap
<1>1. ChainInv /\ [Next]_vars => ChainInv'
  BY NextChain
<1> QED  BY <1>1, InitChain, ChainIsGapless, PTL DEF Spec
-----------------------------------------------------------------------------
(* The chronological order of the events.                                  *)

\* No two events of a set share an id.
IdUnique(S) == \A e, f \in S : e.id = f.id => e = f

\* sortMessages orders events of different ids strictly: by second, then by
\* id.
LEMMA ChronologicalOrder ==
  ASSUME NEW e \in Events, NEW f \in Events, NEW g \in Events
  PROVE  /\ Chronological(e, f) /\ Chronological(f, g) => Chronological(e, g)
         /\ e.id # f.id => Chronological(e, f) \/ Chronological(f, e)
<1>1. \A x \in {e, f, g} : x.at \in Nat /\ x.id \in Ids
  BY TimelineAssumption DEF Events
<1>2. \A x \in {e, f, g} : Rank[x.id] \in Nat
  BY <1>1, TimelineAssumption
<1>3. e.id # f.id => Rank[e.id] # Rank[f.id]
  BY <1>1, TimelineAssumption
<1> QED
  BY <1>1, <1>2, <1>3 DEF Chronological, RelayBefore

\* A set of events that is not empty has a newest and an oldest one.
LEMMA Extremes ==
  ASSUME NEW S \in SUBSET Events, IsFiniteSet(S), IdUnique(S), S # {}
  PROVE  /\ \E e \in S : \A f \in S \ {e} : Chronological(f, e)
         /\ \E e \in S : \A f \in S \ {e} : Chronological(e, f)
<1> DEFINE HasNewest(A) == \E e \in A : \A f \in A \ {e} : Chronological(f, e)
           HasOldest(A) == \E e \in A : \A f \in A \ {e} : Chronological(e, f)
           F == {A \in SUBSET S : A # {} => HasNewest(A) /\ HasOldest(A)}
<1>1. {} \in F
  OBVIOUS
<1>2. ASSUME NEW A \in F, NEW x \in S \ A PROVE A \cup {x} \in F
  <2>1. CASE A = {}
    BY <2>1
  <2>2. CASE A # {}
    <3>1. PICK e \in A : \A f \in A \ {e} : Chronological(f, e)
      BY <2>2
    <3>2. PICK o \in A : \A f \in A \ {o} : Chronological(o, f)
      BY <2>2
    <3>3. x.id # e.id /\ x.id # o.id /\ A \subseteq Events /\ x \in Events
      BY DEF IdUnique
    <3>4. HasNewest(A \cup {x})
      <4>1. CASE Chronological(x, e)
        BY <3>1, <4>1
      <4>2. CASE Chronological(e, x)
        <5>1. ASSUME NEW f \in (A \cup {x}) \ {x} PROVE Chronological(f, x)
          BY <3>1, <3>3, <4>2, ChronologicalOrder
        <5> QED
          BY <5>1
      <4> QED
        BY <3>3, <4>1, <4>2, ChronologicalOrder
    <3>5. HasOldest(A \cup {x})
      <4>1. CASE Chronological(o, x)
        BY <3>2, <4>1
      <4>2. CASE Chronological(x, o)
        <5>1. ASSUME NEW f \in (A \cup {x}) \ {x} PROVE Chronological(x, f)
          BY <3>2, <3>3, <4>2, ChronologicalOrder
        <5> QED
          BY <5>1
      <4> QED
        BY <3>3, <4>1, <4>2, ChronologicalOrder
    <3> QED
      BY <3>4, <3>5
  <2> QED
    BY <2>1, <2>2
<1>3. S \in F
  <2>1. F \in SUBSET SUBSET S
    OBVIOUS
  <2> HIDE DEF F
  <2> QED
    BY <1>1, <1>2, <2>1, FiniteSetInduction
<1> QED
  BY <1>3

\* The newest event of a set is one of it.
LEMMA LatestIn ==
  ASSUME NEW S \in SUBSET Events, IsFiniteSet(S), IdUnique(S), S # {}
  PROVE  Latest(S) \in S
<1>1. \E e \in S : \A f \in S \ {e} : Chronological(f, e)
  BY Extremes
<1> QED
  BY <1>1 DEF Latest

-----------------------------------------------------------------------------
(* The loop of reconcileChannelWindowMessages.                             *)

\* Without its newest event a set is smaller.
LEMMA Shrinks ==
  ASSUME NEW E \in SUBSET Events, IsFiniteSet(E), IdUnique(E),
         NEW S \in SUBSET E, S # {}
  PROVE  /\ Latest(S) \in S /\ S \ {Latest(S)} \in SUBSET E
         /\ Cardinality(S) \in Nat /\ Cardinality(S) # 0
         /\ Cardinality(S \ {Latest(S)}) = Cardinality(S) - 1
<1>1. IsFiniteSet(S) /\ S \in SUBSET Events /\ IdUnique(S)
  BY FS_Subset DEF IdUnique
<1>2. Latest(S) \in S
  BY <1>1, LatestIn
<1>3. Cardinality(S) \in Nat /\ Cardinality(S) # 0
  BY <1>1, FS_CardinalityType, FS_EmptySet
<1>4. Cardinality(S \ {Latest(S)}) = Cardinality(S) - 1
  BY <1>1, <1>2, FS_RemoveElement
<1> QED
  BY <1>2, <1>3, <1>4

\* The recursion of Reconcile is well defined.
LEMMA ReconcileFold ==
  ASSUME NEW ps, NEW live, NEW old, Flatten(ps, live) \in SUBSET Events,
         IsFiniteSet(Flatten(ps, live)), IdUnique(Flatten(ps, live))
  PROVE  LET E == Flatten(ps, live)
             start == [local |-> {p \in old : p.pending /\ \A e \in E : e.id # p.id},
                       shown |-> {}]
         IN \E g : /\ g = [S \in SUBSET E |->
                             IF S = {} THEN start
                             ELSE TakeIn(g[S \ {Latest(S)}], Latest(S))]
                   /\ Reconcile(ps, live, old) = g[E].local \cup g[E].shown
<1> DEFINE E == Flatten(ps, live)
           start == [local |-> {p \in old : p.pending /\ \A e \in E : e.id # p.id}, shown |-> {}]
           Small(n) == {S \in SUBSET E : Cardinality(S) <= n}
           IsFold(g, D) == g = [S \in D |-> IF S = {} THEN start
                                            ELSE TakeIn(g[S \ {Latest(S)}], Latest(S))]
           T == {n \in Nat : \E g : IsFold(g, Small(n))}
           f == CHOOSE g : IsFold(g, SUBSET E)
<1>1. Reconcile(ps, live, old) = f[E].local \cup f[E].shown
  BY Zenon DEF Reconcile
<1>0. E \in SUBSET Events /\ IsFiniteSet(E) /\ IdUnique(E)
  OBVIOUS
<1> HIDE DEF E, start
<1>2. \A S \in SUBSET E : S # {} =>
        /\ Latest(S) \in S /\ S \ {Latest(S)} \in SUBSET E
        /\ Cardinality(S) \in Nat /\ Cardinality(S) # 0
        /\ Cardinality(S \ {Latest(S)}) = Cardinality(S) - 1
  BY <1>0, Shrinks
<1>3. 0 \in T
  <2>1. \A S \in Small(0) : S = {}
    <3> SUFFICES ASSUME NEW S \in SUBSET E, Cardinality(S) <= 0, S # {} PROVE FALSE
      OBVIOUS
    <3>1. Cardinality(S) \in Nat /\ Cardinality(S) # 0
      BY <1>2
    <3> QED
      BY <3>1
  <2> DEFINE g == [S \in Small(0) |-> start]
  <2> HIDE DEF Small
  <2>2. IsFold(g, Small(0))
    BY <2>1
  <2> HIDE DEF g, IsFold
  <2> QED
    BY <2>2
<1>4. ASSUME NEW n \in T PROVE n + 1 \in T
  <2>1. n \in Nat /\ n + 1 \in Nat
    OBVIOUS
  <2>2. PICK g : IsFold(g, Small(n))
    BY <1>4
  <2> DEFINE h == [S \in Small(n + 1) |->
                     IF S \in Small(n) THEN g[S] ELSE TakeIn(g[S \ {Latest(S)}], Latest(S))]
  <2>3. \A S \in Small(n + 1) : S # {} => S \ {Latest(S)} \in Small(n)
    BY <1>2, <2>1
  <2>4. Small(n) \subseteq Small(n + 1)
    <3> SUFFICES ASSUME NEW S \in SUBSET E, Cardinality(S) <= n PROVE Cardinality(S) <= n + 1
      OBVIOUS
    <3>1. Cardinality(S) \in Nat
      BY <1>0, FS_Subset, FS_CardinalityType
    <3> QED
      BY <2>1, <3>1
  <2>5. {} \in Small(n)
    BY <2>1, FS_EmptySet
  <2> HIDE DEF Small
  <2>6. ASSUME NEW S \in Small(n + 1), S # {}
        PROVE  /\ h[S] = TakeIn(g[S \ {Latest(S)}], Latest(S))
               /\ h[S \ {Latest(S)}] = g[S \ {Latest(S)}]
    <3>1. S \ {Latest(S)} \in Small(n) /\ S \ {Latest(S)} \in Small(n + 1)
      BY <2>3, <2>4, <2>6
    <3> QED
      BY <2>2, <2>6, <3>1
  <2>7. h[{}] = start
    BY <2>2, <2>4, <2>5
  <2>8. IsFold(h, Small(n + 1))
    BY <2>6, <2>7
  <2> HIDE DEF h, IsFold
  <2> QED
    BY <2>1, <2>8
<1>5. T = Nat
  <2>1. T \in SUBSET Nat
    OBVIOUS
  <2> HIDE DEF T
  <2> QED
    BY <1>3, <1>4, <2>1, NatSetInduction
<1>6. SUBSET E = Small(Cardinality(E)) /\ Cardinality(E) \in Nat
  BY <1>0, FS_Subset, FS_CardinalityType
<1>7. IsFold(f, SUBSET E)
  <2> HIDE DEF IsFold, Small
  <2>1. Cardinality(E) \in T
    BY <1>5, <1>6
  <2>2. \E g : IsFold(g, SUBSET E)
    BY <1>6, <2>1
  <2> QED
    BY <2>2
<1> HIDE DEF f
<1> QED
  BY <1>1, <1>7 DEF E, start

\* What one turn of the loop preserves holds when the loop ends.
LEMMA ReconcileInduction ==
  ASSUME NEW E \in SUBSET Events, IsFiniteSet(E), IdUnique(E), NEW start, NEW g,
         g = [S \in SUBSET E |-> IF S = {} THEN start
                                 ELSE TakeIn(g[S \ {Latest(S)}], Latest(S))],
         NEW T, start \in T[{}],
         \A S \in SUBSET E : S # {} =>
           \A rows \in T[S \ {Latest(S)}] : TakeIn(rows, Latest(S)) \in T[S]
  PROVE  g[E] \in T[E]
<1> DEFINE A == {n \in Nat : \A S \in SUBSET E : Cardinality(S) = n => g[S] \in T[S]}
<1>1. \A S \in SUBSET E : S # {} =>
        /\ Latest(S) \in S /\ S \ {Latest(S)} \in SUBSET E
        /\ Cardinality(S) \in Nat /\ Cardinality(S) # 0
        /\ Cardinality(S \ {Latest(S)}) = Cardinality(S) - 1
  BY Shrinks
<1>2. 0 \in A
  BY <1>1
<1>3. ASSUME NEW n \in A PROVE n + 1 \in A
  <2>1. n \in Nat /\ n + 1 # 0 /\ (n + 1) - 1 = n /\ n + 1 \in Nat
    OBVIOUS
  <2> SUFFICES ASSUME NEW S \in SUBSET E, Cardinality(S) = n + 1 PROVE g[S] \in T[S]
    BY <2>1
  <2>2. S # {}
    BY <2>1, FS_EmptySet
  <2>3. S \ {Latest(S)} \in SUBSET E /\ Cardinality(S \ {Latest(S)}) = n
    BY <1>1, <2>1, <2>2
  <2>4. g[S \ {Latest(S)}] \in T[S \ {Latest(S)}]
    BY <1>3, <2>3
  <2>5. g[S] = TakeIn(g[S \ {Latest(S)}], Latest(S))
    BY <2>2
  <2> QED
    BY <2>2, <2>4, <2>5
<1>4. A = Nat
  <2>1. A \in SUBSET Nat
    OBVIOUS
  <2> HIDE DEF A
  <2> QED
    BY <1>2, <1>3, <2>1, NatSetInduction
<1>5. Cardinality(E) \in A
  BY <1>4, FS_CardinalityType
<1> QED
  BY <1>5

-----------------------------------------------------------------------------
(* Sound events and rows, and their projection.                            *)

\* No two events of a set share a render key.
KeyUnique(S) == \A e, f \in S : e.key = f.key => e = f

\* A pending row is an optimistic row, with its own id as its render key.
PendingRow(e) == e.pending => e.id = e.key /\ e.id \in {"opt"} \X Sends

\* A row that has left pending has the daemon's id of its message, or the
\* envelope's: the user's own in a direct channel, and any where a frame or an
\* answer may lack the daemon's.
IdOfMessage(e) ==
  ~e.pending => \/ e.id = <<"msg", Msg(e)>>
                \/ /\ e.id = <<"client", Msg(e)>>
                   /\ \/ kind = "dm" /\ Msg(e) \in Sends
                      \/ "client" \in FrameIds \cup AnswerIds

\* The events of the window: one that has left pending has the envelope's id
\* as its render key.
WindowEvents ==
  {e \in Events : PendingRow(e) /\ IdOfMessage(e) /\ (~e.pending => e.key = <<"client", Msg(e)>>)}

\* The rows of the messages cache: one of the user's own that has left pending
\* may also have kept the render key of an optimistic row.
RenderedRows ==
  {e \in Events : /\ PendingRow(e) /\ IdOfMessage(e)
                  /\ ~e.pending => \/ e.key = <<"client", Msg(e)>>
                                   \/ Msg(e) \in Sends /\ e.key \in {"opt"} \X Sends}

\* OneRowPerMessage, of any set of rows.
OneRow(S) ==
  \A e, f \in S :
    \/ e.id = f.id
    \/ e.key = f.key
    \/ /\ Msg(e) = Msg(f) /\ ~e.pending /\ ~f.pending
       /\ Msg(e) \notin Sends \/ kind = "dm"
    => e = f

\* NeverTwice, of any set of rows.
Once(S) ==
  \A e, f \in S : Msg(e) = Msg(f) /\ ~e.pending /\ ~f.pending => e = f

\* A set of rows the messages cache may hold.
SoundRows(S) == S \in SUBSET RenderedRows /\ IsFiniteSet(S) /\ OneRow(S)

\* A set of events the window may hold.
SoundEvents(S) == S \in SUBSET WindowEvents /\ IsFiniteSet(S) /\ KeyUnique(S)

\* reconcileIncomingMessage changes at most the render key, to that of a
\* pending row, and only of a message of the user's own.
LEMMA IncomingOf ==
  ASSUME NEW rows \in SUBSET Events, IsFiniteSet(rows), NEW e \in Events,
         \A p, q \in rows : p.pending /\ q.pending /\ p.id = q.id => p = q
  PROVE  \/ Incoming(rows, e) = e
         \/ \E p \in rows : /\ p.pending /\ ~e.pending /\ Msg(e) \in Sends
                            /\ Incoming(rows, e) = [e EXCEPT !.key = p.key]
<1> DEFINE pending == {p \in rows : Matches(p, e)}
           first == CHOOSE p \in pending : \A q \in pending \ {p} : Chronological(p, q)
<1>1. CASE pending = {}
  BY <1>1 DEF Incoming
<1>2. CASE pending # {}
  <2>1. Incoming(rows, e) = [e EXCEPT !.key = first.key]
    BY <1>2 DEF Incoming
  <2>2. pending \in SUBSET Events /\ pending \subseteq rows /\ IdUnique(pending)
    BY DEF IdUnique, Matches
  <2>3. IsFiniteSet(pending)
    BY <2>2, FS_Subset
  <2>4. first \in pending
    <3> HIDE DEF pending
    <3>1. \E p \in pending : \A q \in pending \ {p} : Chronological(p, q)
      BY <1>2, <2>2, <2>3, Extremes
    <3> QED
      BY <3>1
  <2>5. first \in rows /\ first.pending /\ ~e.pending /\ Msg(e) \in Sends
    BY <2>4 DEF Matches
  <2> HIDE DEF first
  <2> QED
    BY <2>1, <2>5
<1> QED
  BY <1>1, <1>2

\* The events of a sound window have unique ids too, and one per message.
LEMMA EventsById ==
  ASSUME NEW E, SoundEvents(E)
  PROVE  /\ IdUnique(E) /\ E \in SUBSET Events
         /\ \A e, f \in E : ~e.pending /\ ~f.pending /\ Msg(e) = Msg(f) => e = f
<1>1. ASSUME NEW e \in E, NEW f \in E, e.id = f.id PROVE e = f
  <2>1. e \in WindowEvents /\ f \in WindowEvents
    BY DEF SoundEvents
  <2>2. e.pending \in BOOLEAN /\ f.pending \in BOOLEAN
    BY <2>1 DEF WindowEvents, Events
  <2>3. e.pending => ~(\E m \in Msgs : f.id = <<"msg", m>> \/ f.id = <<"client", m>>)
    BY <1>1, <2>1 DEF WindowEvents, PendingRow
  <2>4. f.pending => ~(\E m \in Msgs : e.id = <<"msg", m>> \/ e.id = <<"client", m>>)
    BY <1>1, <2>1 DEF WindowEvents, PendingRow
  <2>5. Msg(e) \in Msgs /\ Msg(f) \in Msgs
    BY <2>1 DEF WindowEvents, Events, Ids, Msg
  <2>6. e.pending <=> f.pending
    BY <2>1, <2>3, <2>4, <2>5 DEF WindowEvents, IdOfMessage
  <2>7. Msg(e) = Msg(f)
    BY <1>1 DEF Msg
  <2>8. e.key = f.key
    BY <1>1, <2>1, <2>6, <2>7 DEF WindowEvents, PendingRow
  <2> QED
    BY <2>8 DEF SoundEvents, KeyUnique
<1>2. ASSUME NEW e \in E, NEW f \in E, ~e.pending, ~f.pending, Msg(e) = Msg(f) PROVE e = f
  BY <1>2 DEF SoundEvents, KeyUnique, WindowEvents
<1> QED
  BY <1>1, <1>2 DEF IdUnique, SoundEvents, WindowEvents

\* A row is an event of the window, or one that took the key of a retained row.
DerivedFrom(x, e, retained) ==
  /\ x.id = e.id /\ x.at = e.at /\ x.pending = e.pending
  /\ \/ x.key = e.key
     \/ ~e.pending /\ Msg(e) \in Sends /\ \E p \in retained : x.key = p.key

\* What the loop of reconcileChannelWindowMessages has made of the events S.
Taken(S, retained) ==
  {rows \in [local : SUBSET retained, shown : SUBSET Events] :
     /\ IsFiniteSet(rows.shown)
     /\ \A x \in rows.shown : \E e \in S : DerivedFrom(x, e, retained)
     /\ KeyUnique(rows.shown) /\ IdUnique(rows.shown)
     /\ \A x \in rows.shown, p \in rows.local : x.key # p.key}

\* One turn of the loop takes in one more event, and leaves no two rows with
\* one render key.
LEMMA TakeInKeeps ==
  ASSUME NEW E, SoundEvents(E),
         NEW retained, SoundRows(retained),
         \A p \in retained : p.pending /\ \A e \in E : e.id # p.id,
         NEW S \in SUBSET E, NEW e \in E \ S, NEW rows \in Taken(S, retained)
  PROVE  TakeIn(rows, e) \in Taken(S \cup {e}, retained)
<1> DEFINE in == Incoming(rows.local, e)
           local == WithoutTwins(rows.local, in)
           shown == rows.shown \cup {in}
<1>1. TakeIn(rows, e) = [local |-> local, shown |-> shown]
  BY DEF TakeIn
<1>2. /\ rows.local \in SUBSET retained /\ rows.shown \in SUBSET Events /\ IsFiniteSet(rows.shown)
      /\ \A x \in rows.shown : \E f \in S : DerivedFrom(x, f, retained)
      /\ KeyUnique(rows.shown) /\ IdUnique(rows.shown)
      /\ \A x \in rows.shown, p \in rows.local : x.key # p.key
  BY DEF Taken
<1>3. /\ e \in WindowEvents /\ e \in Events /\ E \in SUBSET WindowEvents /\ KeyUnique(E) /\ IdUnique(E)
      /\ retained \in SUBSET RenderedRows /\ retained \in SUBSET Events /\ OneRow(retained)
  BY EventsById DEF SoundEvents, WindowEvents, SoundRows, RenderedRows
\* The event, or the event under the key of a row that is retained so far.
<1>4. \/ in = e
      \/ \E p \in rows.local : /\ p.pending /\ ~e.pending /\ Msg(e) \in Sends
                               /\ in = [e EXCEPT !.key = p.key]
  <2>1. rows.local \in SUBSET Events /\ IsFiniteSet(rows.local)
    BY <1>2, <1>3, FS_Subset DEF SoundRows
  <2>2. \A p, q \in rows.local : p.pending /\ q.pending /\ p.id = q.id => p = q
    BY <1>2, <1>3 DEF RenderedRows, PendingRow, OneRow
  <2> QED
    BY <1>3, <2>1, <2>2, IncomingOf
<1> HIDE DEF in
<1>5. in \in Events /\ DerivedFrom(in, e, retained)
  <2>1. CASE in = e
    BY <1>3, <2>1 DEF DerivedFrom
  <2>2. ASSUME NEW p \in rows.local, ~e.pending, Msg(e) \in Sends, in = [e EXCEPT !.key = p.key]
        PROVE  in \in Events /\ DerivedFrom(in, e, retained)
    <3>1. p \in retained /\ p \in Events
      BY <1>2, <1>3
    <3> QED
      BY <1>3, <2>2, <3>1 DEF DerivedFrom, Events
  <2> QED
    BY <1>4, <2>1, <2>2
<1>6. ASSUME NEW x \in rows.shown PROVE x.key # in.key /\ x.id # in.id
  <2>1. PICK f \in S : DerivedFrom(x, f, retained)
    BY <1>2
  <2>2. f # e /\ f \in E /\ f \in WindowEvents
    BY <1>3
  <2>3. x.id # in.id
    BY <1>3, <1>5, <2>1, <2>2 DEF DerivedFrom, IdUnique
  <2>4. ASSUME x.key = in.key PROVE FALSE
    <3>1. CASE in = e
      <4>1. x.key # f.key
        BY <1>3, <2>2, <2>4, <3>1 DEF KeyUnique
      <4>2. PICK p \in retained : e.key = p.key
        BY <2>1, <2>4, <3>1, <4>1 DEF DerivedFrom
      <4>3. p.id = p.key /\ p.key \in {"opt"} \X Sends
        BY <1>3, <4>2 DEF RenderedRows, PendingRow
      <4>4. e.pending
        <5>1. ~e.pending => e.key = <<"client", Msg(e)>>
          BY <1>3 DEF WindowEvents
        <5>2. e.key # <<"client", Msg(e)>>
          BY <4>2, <4>3
        <5> QED
          BY <5>1, <5>2
      <4>5. e.id = e.key
        BY <1>3, <4>4 DEF WindowEvents, PendingRow
      <4> QED
        BY <4>2, <4>3, <4>5
    <3>2. ASSUME NEW p \in rows.local, in = [e EXCEPT !.key = p.key] PROVE FALSE
      <4>1. in.key = p.key
        BY <1>3, <3>2 DEF Events
      <4> QED
        BY <1>2, <2>4, <4>1
    <3> QED
      BY <1>4, <3>1, <3>2
  <2> QED
    BY <2>3, <2>4
<1>7. IsFiniteSet(shown) /\ shown \in SUBSET Events
  BY <1>2, <1>5, FS_AddElement
<1>8. KeyUnique(shown) /\ IdUnique(shown)
  BY <1>2, <1>6 DEF KeyUnique, IdUnique
<1>9. \A x \in shown : \E f \in S \cup {e} : DerivedFrom(x, f, retained)
  BY <1>2, <1>5
<1>10. local \in SUBSET retained /\ \A x \in shown, p \in local : x.key # p.key
  BY <1>2 DEF WithoutTwins
<1> HIDE DEF local, shown
<1> QED
  BY <1>1, <1>7, <1>8, <1>9, <1>10 DEF Taken

\* The projection of sound events over sound rows is sound, and has one row of
\* each message that has left pending.
LEMMA ReconcileSound ==
  ASSUME NEW ps, NEW live, SoundEvents(Flatten(ps, live)), NEW old, SoundRows(old)
  PROVE  SoundRows(Reconcile(ps, live, old)) /\ Once(Reconcile(ps, live, old))
<1> DEFINE E == Flatten(ps, live)
           retained == {p \in old : p.pending /\ \A e \in E : e.id # p.id}
           start == [local |-> retained, shown |-> {}]
<1>1. E \in SUBSET Events /\ IsFiniteSet(E) /\ IdUnique(E) /\ SoundEvents(E)
  BY EventsById DEF SoundEvents
<1>2. PICK g : /\ g = [S \in SUBSET E |-> IF S = {} THEN start
                                          ELSE TakeIn(g[S \ {Latest(S)}], Latest(S))]
               /\ Reconcile(ps, live, old) = g[E].local \cup g[E].shown
  BY <1>1, ReconcileFold
<1>3. /\ SoundRows(retained) /\ retained \subseteq old
      /\ \A p \in retained : p.pending /\ \A e \in E : e.id # p.id
  <2>1. retained \subseteq old
    OBVIOUS
  <2>2. IsFiniteSet(retained)
    BY <2>1, FS_Subset DEF SoundRows
  <2> QED
    BY <2>1, <2>2 DEF SoundRows, OneRow
<1> HIDE DEF E, retained
<1> DEFINE T == [S \in SUBSET E |-> Taken(S, retained)]
<1>4. start \in T[{}]
  BY FS_EmptySet DEF Taken, KeyUnique, IdUnique
<1>5. ASSUME NEW S \in SUBSET E, S # {}, NEW rows \in T[S \ {Latest(S)}]
      PROVE  TakeIn(rows, Latest(S)) \in T[S]
  <2>1. Latest(S) \in S /\ S \ {Latest(S)} \in SUBSET E
    BY <1>1, <1>5, Shrinks
  <2>2. rows \in Taken(S \ {Latest(S)}, retained)
    BY <2>1
  <2>3. TakeIn(rows, Latest(S)) \in Taken((S \ {Latest(S)}) \cup {Latest(S)}, retained)
    BY <1>1, <1>3, <2>1, <2>2, TakeInKeeps
  <2>4. (S \ {Latest(S)}) \cup {Latest(S)} = S
    BY <2>1
  <2> QED
    BY <2>3, <2>4
<1>6. g[E] \in T[E]
  <2> HIDE DEF T, start
  <2> QED
    BY <1>1, <1>2, <1>4, <1>5, ReconcileInduction
<1>7. g[E] \in Taken(E, retained)
  BY <1>6
<1> DEFINE local == g[E].local
           shown == g[E].shown
<1>8. /\ local \in SUBSET retained /\ shown \in SUBSET Events /\ IsFiniteSet(shown)
      /\ \A x \in shown : \E e \in E : DerivedFrom(x, e, retained)
      /\ KeyUnique(shown) /\ IdUnique(shown)
      /\ \A x \in shown, p \in local : x.key # p.key
  BY <1>7 DEF Taken
<1> HIDE DEF local, shown
<1>9. \A x \in shown : x \in RenderedRows
  <2> SUFFICES ASSUME NEW x \in shown PROVE x \in RenderedRows
    OBVIOUS
  <2>1. PICK e \in E : DerivedFrom(x, e, retained)
    BY <1>8
  <2>2. e \in WindowEvents /\ x \in Events
    BY <1>1, <1>8 DEF SoundEvents
  <2>3. \A p \in retained : p.key \in {"opt"} \X Sends
    BY <1>3 DEF SoundRows, RenderedRows, PendingRow
  <2> QED
    BY <2>1, <2>2, <2>3 DEF DerivedFrom, RenderedRows, WindowEvents, PendingRow, IdOfMessage, Msg
<1>10. local \in SUBSET RenderedRows /\ IsFiniteSet(local) /\ OneRow(local) /\ \A p \in local : p.pending
  BY <1>3, <1>8, FS_Subset DEF SoundRows, OneRow
<1>11. OneRow(local \cup shown) /\ Once(local \cup shown)
  <2> SUFFICES ASSUME NEW x \in local \cup shown, NEW y \in local \cup shown,
                      \/ x.id = y.id
                      \/ x.key = y.key
                      \/ Msg(x) = Msg(y) /\ ~x.pending /\ ~y.pending
               PROVE  x = y
    BY DEF OneRow, Once
  <2>1. CASE x \in local /\ y \in local
    BY <1>10, <2>1 DEF OneRow
  <2>2. CASE x.key = y.key
    BY <1>8, <2>1, <2>2 DEF KeyUnique
  <2>3. CASE x.id = y.id
    <3>1. \A u \in shown, p \in local : u.id # p.id
      BY <1>3, <1>8 DEF DerivedFrom
    <3> QED
      BY <1>8, <2>1, <2>3, <3>1 DEF IdUnique
  <2>4. CASE x \in shown /\ y \in shown /\ Msg(x) = Msg(y) /\ ~x.pending /\ ~y.pending
    <3>1. PICK e \in E : DerivedFrom(x, e, retained)
      BY <1>8, <2>4
    <3>2. PICK f \in E : DerivedFrom(y, f, retained)
      BY <1>8, <2>4
    <3>3. e = f
      BY <1>1, <2>4, <3>1, <3>2, EventsById DEF DerivedFrom, Msg
    <3> QED
      BY <1>8, <2>4, <3>1, <3>2, <3>3 DEF DerivedFrom, IdUnique
  <2> QED
    BY <1>10, <2>1, <2>2, <2>3, <2>4
<1>12. IsFiniteSet(local \cup shown)
  BY <1>8, <1>10, FS_Union
<1>13. SoundRows(local \cup shown)
  BY <1>9, <1>10, <1>11, <1>12 DEF SoundRows
<1> QED
  BY <1>2, <1>11, <1>13 DEF local, shown

-----------------------------------------------------------------------------
(* The window and the cache.                                               *)

\* No live event stands for a row of a page.
Apart(ps, live) == \A e \in live, f \in PageEvents(ps) : e.id # f.id /\ e.key # f.key

\* The rows of the daemon.
HistoryType == Seq([m : Msgs, at : 0..MaxSecond, sent : 0..MaxSecond, top : BOOLEAN])

\* The daemon stores a message once.
HistoryInv ==
  /\ history \in HistoryType
  /\ \A r, q \in Rows : history[r].m = history[q].m => r = q

\* The states of a send.
SendType == [at : {"idle", "sending", "stored", "acked", "failed"}, second : 0..MaxSecond]

\* The inductive invariant. The overlay holds one event per render key and
\* none that a page has; the messages cache, and the copy of it a poll took
\* before its request, are sound.
RowInv ==
  /\ kind \in Kinds /\ now \in 0..MaxSecond /\ cached \in BOOLEAN
  /\ HistoryInv
  /\ SoundEvents(overlay) /\ Apart(pages, overlay)
  /\ SoundRows(messages) /\ SoundRows(poll.prev)
  /\ poll \in FetchType /\ older \in FetchType /\ orphans \subseteq FetchType
  /\ send \in [Sends -> SendType]

\* The fields of a row.
LEMMA RowType ==
  ASSUME HistoryInv, NEW r \in Rows
  PROVE  history[r].m \in Msgs /\ history[r].at \in 0..MaxSecond /\ history[r].sent \in 0..MaxSecond
<1>1. history[r] \in [m : Msgs, at : 0..MaxSecond, sent : 0..MaxSecond, top : BOOLEAN]
  <2> DEFINE R == [m : Msgs, at : 0..MaxSecond, sent : 0..MaxSecond, top : BOOLEAN]
  <2>1. history \in Seq(R) /\ r \in DOMAIN history
    BY DEF HistoryInv, HistoryType, Rows
  <2> HIDE DEF R
  <2>2. history[r] \in R
    BY <2>1
  <2> QED
    BY <2>2 DEF R
<1> QED
  BY <1>1

\* A history row is an event of the window.
LEMMA HistoryEventOf ==
  ASSUME HistoryInv, NEW r \in Rows
  PROVE  /\ HistoryEvent(r) \in WindowEvents /\ ~HistoryEvent(r).pending
         /\ HistoryEvent(r).id = <<"msg", history[r].m>>
         /\ HistoryEvent(r).key = <<"client", history[r].m>>
<1>1. history[r].m \in Msgs /\ history[r].at \in 0..MaxSecond
  BY RowType
<1>2. <<"msg", history[r].m>> \in Ids /\ <<"client", history[r].m>> \in Ids
  BY <1>1 DEF Ids
<1>3. HistoryEvent(r) = Event(<<"msg", history[r].m>>, <<"client", history[r].m>>, history[r].at, FALSE)
  BY DEF HistoryEvent
<1>4. /\ HistoryEvent(r) \in Events /\ ~HistoryEvent(r).pending
      /\ HistoryEvent(r).id = <<"msg", history[r].m>>
      /\ HistoryEvent(r).key = <<"client", history[r].m>>
  BY <1>1, <1>2, <1>3 DEF Event, Events
<1> QED
  BY <1>4 DEF WindowEvents, PendingRow, IdOfMessage, Msg

\* A live frame is an event of the window, whichever id it bears.
LEMMA FrameEventOf ==
  ASSUME HistoryInv, NEW r \in Rows, NEW id \in FrameIds
  PROVE  /\ FrameEvent(r, id) \in WindowEvents /\ ~FrameEvent(r, id).pending
         /\ Msg(FrameEvent(r, id)) = history[r].m
<1> DEFINE at == IF kind = "dm" THEN history[r].at ELSE history[r].sent
           e == FrameEvent(r, id)
<1>1. history[r].m \in Msgs /\ at \in 0..MaxSecond /\ id \in {"msg", "client"}
  BY RowType, TimelineAssumption
<1>2. <<id, history[r].m>> \in Ids /\ <<"client", history[r].m>> \in Ids
  BY <1>1 DEF Ids
<1>3. e = Event(<<id, history[r].m>>, <<"client", history[r].m>>, at, FALSE)
  BY DEF FrameEvent
<1> HIDE DEF at, e
<1>4. /\ e \in Events /\ ~e.pending
      /\ e.id = <<id, history[r].m>> /\ e.key = <<"client", history[r].m>>
  BY <1>1, <1>2, <1>3 DEF Event, Events
<1>5. Msg(e) = history[r].m
  BY <1>4 DEF Msg
<1>6. e \in WindowEvents
  BY <1>1, <1>4, <1>5 DEF WindowEvents, PendingRow, IdOfMessage
<1> QED
  BY <1>4, <1>5, <1>6 DEF e

\* The answer to a send is an event of the window.
LEMMA SentEventOf ==
  ASSUME NEW s \in Sends, NEW at \in 0..MaxSecond,
         NEW id \in IF kind = "dm" THEN {"client"} ELSE AnswerIds
  PROVE  SentEvent(s, id, at) \in WindowEvents
<1> DEFINE e == SentEvent(s, id, at)
<1>1. id \in {"msg", "client"}
  BY TimelineAssumption
<1>2. <<id, s>> \in Ids /\ <<"client", s>> \in Ids
  BY <1>1 DEF Ids, Msgs
<1>3. e = Event(<<id, s>>, <<"client", s>>, at, FALSE)
  BY DEF SentEvent
<1> HIDE DEF e
<1>4. /\ e \in Events /\ ~e.pending
      /\ e.id = <<id, s>> /\ e.key = <<"client", s>> /\ Msg(e) = s
  BY <1>2, <1>3 DEF Event, Events, Msg
<1>5. e \in WindowEvents
  BY <1>1, <1>4 DEF WindowEvents, PendingRow, IdOfMessage
<1> QED
  BY <1>5 DEF e

\* An optimistic row is an event of the window.
LEMMA OptimisticOf ==
  ASSUME NEW s \in Sends, NEW at \in 0..MaxSecond
  PROVE  Optimistic(s, at) \in WindowEvents
<1>1. <<"opt", s>> \in Ids
  BY DEF Ids, Msgs
<1>2. Optimistic(s, at) = Event(<<"opt", s>>, <<"opt", s>>, at, TRUE)
  BY DEF Optimistic
<1>3. /\ Optimistic(s, at) \in Events /\ Optimistic(s, at).pending
      /\ Optimistic(s, at).id = <<"opt", s>> /\ Optimistic(s, at).key = <<"opt", s>>
  BY <1>1, <1>2 DEF Event, Events
<1> QED
  BY <1>3 DEF WindowEvents, PendingRow, IdOfMessage, Msg

\* mergeTimelineCacheMessages keeps the cache sound. A row of another's message
\* has the envelope's id for its render key, so a frame of it meets that row
\* whichever id it bears; a direct stream brings only others' messages.
LEMMA MergeTimelineSound ==
  ASSUME NEW old, SoundRows(old), NEW e \in WindowEvents, ~e.pending,
         kind = "dm" => Msg(e) \notin Sends
  PROVE  SoundRows(MergeTimeline(old, e))
<1> DEFINE in == Incoming(old, e)
           kept == WithoutTwins(old, in)
<1>1. MergeTimeline(old, e) = kept \cup {in}
  BY DEF MergeTimeline
<1>2. /\ old \in SUBSET RenderedRows /\ old \in SUBSET Events /\ IsFiniteSet(old) /\ OneRow(old)
      /\ e \in Events
  BY DEF SoundRows, RenderedRows, WindowEvents
<1>3. in = e \/ \E p \in old : p.pending /\ Msg(e) \in Sends /\ in = [e EXCEPT !.key = p.key]
  <2>1. \A p, q \in old : p.pending /\ q.pending /\ p.id = q.id => p = q
    BY <1>2 DEF RenderedRows, PendingRow, OneRow
  <2> QED
    BY <1>2, <2>1, IncomingOf
<1> HIDE DEF in
<1>4. /\ in \in RenderedRows /\ in.id = e.id /\ in.pending = e.pending
  <2>1. CASE in = e
    BY <2>1 DEF WindowEvents, RenderedRows
  <2>2. ASSUME NEW p \in old, p.pending, Msg(e) \in Sends, in = [e EXCEPT !.key = p.key]
        PROVE  in \in RenderedRows /\ in.id = e.id /\ in.pending = e.pending
    <3>1. p.key \in {"opt"} \X Sends /\ p \in Events /\ p.key \in Ids
      BY <1>2, <2>2 DEF RenderedRows, PendingRow, Events
    <3>2. in \in Events /\ in.key = p.key /\ in.id = e.id /\ in.pending = e.pending
      BY <1>2, <2>2, <3>1 DEF Events
    <3> QED
      BY <2>2, <3>1, <3>2 DEF RenderedRows, WindowEvents, PendingRow, IdOfMessage, Msg
  <2> QED
    BY <1>3, <2>1, <2>2
<1>5. kept \subseteq old /\ \A x \in kept : x.id # in.id /\ x.key # in.key
  BY DEF WithoutTwins
<1> HIDE DEF kept
<1>6. ASSUME NEW x \in kept, Msg(x) = Msg(in), ~x.pending, Msg(in) \notin Sends \/ kind = "dm"
      PROVE  FALSE
  <2>1. Msg(in) = Msg(e) /\ Msg(e) \notin Sends
    BY <1>4, <1>6 DEF Msg
  <2>2. x.key = <<"client", Msg(e)>>
    BY <1>2, <1>5, <1>6, <2>1 DEF RenderedRows
  <2>3. in.key = <<"client", Msg(e)>>
    BY <1>3, <2>1 DEF WindowEvents
  <2> QED
    BY <1>5, <2>2, <2>3
<1>7. OneRow(kept \cup {in})
  BY <1>2, <1>5, <1>6 DEF OneRow
<1>8. IsFiniteSet(kept \cup {in})
  BY <1>2, <1>5, FS_Subset, FS_AddElement
<1>9. kept \cup {in} \in SUBSET RenderedRows
  BY <1>2, <1>4, <1>5
<1>10. SoundRows(kept \cup {in})
  BY <1>7, <1>8, <1>9 DEF SoundRows
<1> QED
  BY <1>1, <1>10

\* mergeLiveChannelWindowEvent keeps the overlay sound, and apart from the
\* pages: it refuses an event that a page has.
LEMMA MergeLiveSound ==
  ASSUME NEW ps, NEW live, SoundEvents(live), Apart(ps, live), NEW e \in WindowEvents
  PROVE  SoundEvents(MergeLive(ps, live, e)) /\ Apart(ps, MergeLive(ps, live, e))
<1>1. CASE Refused(ps, e)
  BY <1>1 DEF MergeLive
<1>2. CASE ~Refused(ps, e)
  <2> DEFINE kept == WithoutTwins(live, e)
  <2>1. MergeLive(ps, live, e) = kept \cup {e}
    BY <1>2 DEF MergeLive
  <2>2. kept \subseteq live /\ \A f \in kept : f.key # e.key
    BY DEF WithoutTwins
  <2>3. \A f \in PageEvents(ps) : f.id # e.id /\ f.key # e.key
    BY <1>2 DEF Refused
  <2> HIDE DEF kept
  <2>4. IsFiniteSet(kept \cup {e})
    BY <2>2, FS_Subset, FS_AddElement DEF SoundEvents
  <2>5. KeyUnique(kept \cup {e}) /\ kept \cup {e} \in SUBSET WindowEvents
    BY <2>2 DEF SoundEvents, KeyUnique
  <2>6. Apart(ps, kept \cup {e})
    BY <2>2, <2>3 DEF Apart
  <2> QED
    BY <2>1, <2>4, <2>5, <2>6 DEF SoundEvents
<1> QED
  BY <1>1, <1>2

\* A part of the live events of a sound window.
LEMMA FewerEvents ==
  ASSUME NEW live, SoundEvents(live), NEW part \in SUBSET live
  PROVE  SoundEvents(part) /\ \A ps : Apart(ps, live) => Apart(ps, part)
<1>1. IsFiniteSet(part)
  BY FS_Subset DEF SoundEvents
<1> QED
  BY <1>1 DEF SoundEvents, KeyUnique, Apart

\* A part of sound rows is sound.
LEMMA FewerRows ==
  ASSUME NEW rows, SoundRows(rows), NEW part \in SUBSET rows
  PROVE  SoundRows(part)
<1>1. IsFiniteSet(part)
  BY FS_Subset DEF SoundRows
<1> QED
  BY <1>1 DEF SoundRows, OneRow

\* The empty cache is sound.
LEMMA NoRows == SoundRows({})
BY FS_EmptySet DEF SoundRows, OneRow

\* flattenChannelWindowEvents yields sound events.
LEMMA FlattenSound ==
  ASSUME HistoryInv, NEW ps, PageRows(ps) \subseteq Rows,
         NEW live, SoundEvents(live), Apart(ps, live)
  PROVE  SoundEvents(Flatten(ps, live))
<1> DEFINE P == PageEvents(ps)
           part == {e \in P : \A f \in live : f.id # e.id}
<1>1. IsFiniteSet(P)
  <2>1. Len(history) \in Nat /\ Rows = 1..Len(history)
    BY DEF HistoryInv, HistoryType, Rows
  <2>2. IsFiniteSet(PageRows(ps))
    <3>1. IsFiniteSet(1..Len(history))
      BY <2>1, FS_Interval
    <3> QED
      BY <2>1, <3>1, FS_Subset
  <2> DEFINE F == [r \in PageRows(ps) |-> HistoryEvent(r)]
  <2>3. P = {F[r] : r \in PageRows(ps)}
    BY DEF PageEvents
  <2>4. F \in Surjection(PageRows(ps), P)
    BY <2>3 DEF Surjection
  <2> HIDE DEF F, P
  <2> QED
    BY <2>2, <2>4, FS_Surjection
<1>2. P \in SUBSET WindowEvents
  BY HistoryEventOf DEF PageEvents
<1>3. KeyUnique(P)
  <2> SUFFICES ASSUME NEW r \in PageRows(ps), NEW q \in PageRows(ps),
                      HistoryEvent(r).key = HistoryEvent(q).key
               PROVE  HistoryEvent(r) = HistoryEvent(q)
    BY DEF KeyUnique, PageEvents
  <2>1. <<"client", history[r].m>> = <<"client", history[q].m>>
    BY HistoryEventOf
  <2>2. r = q
    BY <2>1 DEF HistoryInv
  <2> QED
    BY <2>2
<1>4. Flatten(ps, live) = live \cup part
  BY DEF Flatten
<1>5. part \in SUBSET P
  OBVIOUS
<1> HIDE DEF P, part
<1>6. IsFiniteSet(live \cup part)
  BY <1>1, <1>5, FS_Subset, FS_Union DEF SoundEvents
<1>7. KeyUnique(live \cup part)
  BY <1>3, <1>5 DEF KeyUnique, SoundEvents, Apart, P
<1>8. live \cup part \in SUBSET WindowEvents
  BY <1>2, <1>5 DEF SoundEvents
<1> QED
  BY <1>4, <1>6, <1>7, <1>8 DEF SoundEvents

-----------------------------------------------------------------------------
(* What the actions do to the rows.                                        *)

\* A sound page holds rows of the history.
LEMMA PageInHistory ==
  ASSUME HistoryInv, NEW p, SoundPage(p)
  PROVE  p \in Page /\ p.rows \subseteq Rows
<1>1. Len(history) \in Nat /\ Rows = 1..Len(history)
  BY DEF HistoryInv, HistoryType, Rows
<1>2. PICK high \in 0..Len(history) : p.rows = Interval(Low(p), high)
  BY DEF SoundPage
<1>3. p \in Page /\ Low(p) \in Nat /\ Low(p) >= 1
  BY DEF SoundPage, Low, Page, NoRow
<1>4. \A r \in Low(p)..high : r \in 1..Len(history)
  BY <1>1, <1>3
<1> QED
  BY <1>1, <1>2, <1>3, <1>4 DEF Interval

\* So does the window.
LEMMA WindowInHistory ==
  ASSUME ChainInv, HistoryInv
  PROVE  PageRows(pages) \subseteq Rows
<1>1. Len(history) \in Nat /\ Rows = 1..Len(history)
  BY DEF HistoryInv, HistoryType, Rows
<1>2. CASE pages = <<>>
  BY <1>2 DEF PageRows
<1>3. CASE pages # <<>>
  <2> DEFINE tail == pages[Len(pages)]
  <2>1. PICK high \in 0..Len(history) : PageRows(pages) = Interval(Low(tail), high)
    BY <1>3 DEF ChainInv, Chain
  <2>2. tail \in Page
    BY <1>3 DEF ChainInv
  <2> HIDE DEF tail
  <2>3. Low(tail) \in Nat /\ Low(tail) >= 1
    BY <2>2 DEF Low, Page, NoRow
  <2>4. \A r \in Low(tail)..high : r \in 1..Len(history)
    BY <1>1, <2>3
  <2> QED
    BY <1>1, <2>1, <2>4 DEF Interval
<1> QED
  BY <1>2, <1>3

\* A page that supersedes what it has of the live events stands apart from the rest.
LEMMA SupersededApart ==
  ASSUME NEW live, SoundEvents(live), NEW p \in Page
  PROVE  /\ SoundEvents(live \ Superseded(p, live))
         /\ Apart(<<p>>, live \ Superseded(p, live))
         /\ \A ps \in Seq(Page) :
              Apart(ps, live) => Apart(Append(ps, p), live \ Superseded(p, live))
<1> DEFINE rest == live \ Superseded(p, live)
<1>1. rest \in SUBSET live
  OBVIOUS
<1>2. \A e \in rest, r \in p.rows : e.id # HistoryEvent(r).id /\ e.key # HistoryEvent(r).key
  BY DEF Superseded
<1> HIDE DEF rest
<1>3. SoundEvents(rest)
  BY <1>1, FewerEvents
<1>4. Apart(<<p>>, rest)
  <2>1. PageRows(<<p>>) = p.rows
    BY RowsOfOne
  <2> QED
    BY <1>2, <2>1 DEF Apart, PageEvents
<1>5. ASSUME NEW ps \in Seq(Page), Apart(ps, live) PROVE Apart(Append(ps, p), rest)
  <2>1. PageRows(Append(ps, p)) = PageRows(ps) \cup p.rows
    BY RowsOfAppend
  <2>2. \A e \in rest, r \in PageRows(ps) : e.id # HistoryEvent(r).id /\ e.key # HistoryEvent(r).key
    BY <1>1, <1>5 DEF Apart, PageEvents
  <2> QED
    BY <1>2, <2>1, <2>2 DEF Apart, PageEvents
<1> QED
  BY <1>3, <1>4, <1>5 DEF rest

\* The projection of a window over sound rows is sound, with one row of each
\* message that has left pending.
LEMMA ProjectionSound ==
  ASSUME HistoryInv, NEW ps, PageRows(ps) \subseteq Rows,
         NEW live, SoundEvents(live), Apart(ps, live), NEW old, SoundRows(old)
  PROVE  SoundRows(Reconcile(ps, live, old)) /\ Once(Reconcile(ps, live, old))
<1>1. SoundEvents(Flatten(ps, live))
  BY FlattenSound
<1> QED
  BY <1>1, ReconcileSound

\* A step that projects the window into the messages cache: a frame of the
\* channel's subscription, a poll's page, an older page, an optimistic row and
\* the answer that takes its place.
Projects ==
  \/ \E r \in Rows, id \in FrameIds : ChannelFrame(r, id)
  \/ FinishPoll \/ FinishOlder
  \/ \E s \in Sends : Mutate(s)
  \/ \E s \in Sends, id \in {"msg", "client"} : Acknowledge(s, id)

\* A projecting step leaves a sound window, and of each message that has left
\* pending one row.
LEMMA ProjectedWindow ==
  ASSUME ChainInv, RowInv, Projects
  PROVE  /\ UNCHANGED kind
         /\ SoundEvents(overlay') /\ Apart(pages', overlay')
         /\ SoundRows(messages') /\ Once(messages')
<1>1. /\ HistoryInv /\ now \in 0..MaxSecond /\ send \in [Sends -> SendType]
      /\ SoundEvents(overlay) /\ Apart(pages, overlay)
      /\ SoundRows(messages) /\ SoundRows(poll.prev)
  BY DEF RowInv
<1>2. /\ PageRows(pages) \subseteq Rows /\ pages \in Seq(Page)
      /\ SoundFetch(poll) /\ SoundFetch(older)
  BY <1>1, WindowInHistory DEF ChainInv
<1>3. ASSUME NEW e \in WindowEvents, NEW live \in SUBSET overlay,
             overlay' = MergeLive(pages, live, e),
             messages' = Reconcile(pages, overlay', messages), UNCHANGED <<kind, pages>>
      PROVE  /\ SoundEvents(overlay') /\ Apart(pages', overlay')
             /\ SoundRows(messages') /\ Once(messages')
  <2>1. SoundEvents(live) /\ Apart(pages, live)
    BY <1>1, FewerEvents
  <2>2. SoundEvents(overlay') /\ Apart(pages, overlay')
    BY <1>3, <2>1, MergeLiveSound
  <2>3. SoundRows(messages') /\ Once(messages')
    BY <1>1, <1>2, <1>3, <2>2, ProjectionSound
  <2> QED
    BY <1>3, <2>2, <2>3
<1>4. ASSUME NEW r \in Rows, NEW id \in FrameIds, ChannelFrame(r, id)
      PROVE  /\ UNCHANGED kind
             /\ SoundEvents(overlay') /\ Apart(pages', overlay')
             /\ SoundRows(messages') /\ Once(messages')
  <2>1. FrameEvent(r, id) \in WindowEvents
    BY <1>1, FrameEventOf
  <2> QED
    BY <1>3, <1>4, <2>1 DEF ChannelFrame
<1>5. CASE FinishPoll
  <2>1. poll.page \in Page /\ poll.page.rows \subseteq Rows
    BY <1>1, <1>2, <1>5, PageInHistory DEF FinishPoll, SoundFetch
  <2>2. /\ pages' = <<poll.page>> /\ overlay' = overlay \ Superseded(poll.page, overlay)
        /\ messages' = Reconcile(pages', overlay', poll.prev)
        /\ UNCHANGED kind
    BY <1>5 DEF FinishPoll, ReplaceNewest
  <2>3. SoundEvents(overlay') /\ Apart(pages', overlay')
    BY <1>1, <2>1, <2>2, SupersededApart
  <2>4. PageRows(pages') \subseteq Rows
    BY <2>1, <2>2, RowsOfOne
  <2> QED
    BY <1>1, <2>2, <2>3, <2>4, ProjectionSound
<1>6. CASE FinishOlder
  <2>1. older.page \in Page /\ older.page.rows \subseteq Rows
    BY <1>1, <1>2, <1>6, PageInHistory DEF FinishOlder, SoundFetch
  <2>2. /\ pages' = Append(pages, older.page)
        /\ overlay' = overlay \ Superseded(older.page, overlay)
        /\ messages' = Reconcile(pages', overlay', messages)
        /\ UNCHANGED kind
    BY <1>6 DEF FinishOlder
  <2>3. SoundEvents(overlay') /\ Apart(pages', overlay')
    BY <1>1, <1>2, <2>1, <2>2, SupersededApart
  <2>4. PageRows(pages') \subseteq Rows
    BY <1>2, <2>1, <2>2, RowsOfAppend
  <2> QED
    BY <1>1, <2>2, <2>3, <2>4, ProjectionSound
<1>7. ASSUME NEW s \in Sends, Mutate(s)
      PROVE  /\ UNCHANGED kind
             /\ SoundEvents(overlay') /\ Apart(pages', overlay')
             /\ SoundRows(messages') /\ Once(messages')
  <2>1. Optimistic(s, now) \in WindowEvents
    BY <1>1, OptimisticOf
  <2> QED
    BY <1>3, <1>7, <2>1 DEF Mutate
<1>8. ASSUME NEW s \in Sends, NEW id \in {"msg", "client"}, Acknowledge(s, id)
      PROVE  /\ UNCHANGED kind
             /\ SoundEvents(overlay') /\ Apart(pages', overlay')
             /\ SoundRows(messages') /\ Once(messages')
  <2>1. send[s].second \in 0..MaxSecond
    BY <1>1 DEF SendType
  <2>2. SentEvent(s, id, send[s].second) \in WindowEvents
    BY <1>8, <2>1, SentEventOf DEF Acknowledge
  <2>3. {e \in overlay : e.id # <<"opt", s>>} \in SUBSET overlay
    OBVIOUS
  <2> QED
    BY <1>3, <1>8, <2>2, <2>3 DEF Acknowledge
<1> QED
  BY <1>4, <1>5, <1>6, <1>7, <1>8 DEF Projects

\* A step that stores nothing, and leaves sound events and rows.
LEMMA RowsStep ==
  ASSUME RowInv, UNCHANGED <<kind, history>>, now' \in 0..MaxSecond, cached' \in BOOLEAN,
         SoundEvents(overlay'), Apart(pages', overlay'),
         SoundRows(messages'), SoundRows(poll'.prev),
         poll' \in FetchType, older' \in FetchType, orphans' \subseteq FetchType,
         send' \in [Sends -> SendType]
  PROVE  RowInv'
<1>1. HistoryInv'
  BY DEF RowInv, HistoryInv, HistoryType, Rows
<1>2. SoundEvents(overlay)' /\ SoundRows(messages)' /\ SoundRows(poll.prev)'
  BY DEF SoundEvents, SoundRows, WindowEvents, RenderedRows, PendingRow, IdOfMessage, OneRow, KeyUnique, Msg
<1>3. Apart(pages, overlay)'
  BY DEF Apart, PageEvents, PageRows, HistoryEvent
<1> QED
  BY <1>1, <1>2, <1>3 DEF RowInv, SendType

\* A row that is stored changes neither the pages' events nor the cache.
LEMMA StoreRows ==
  ASSUME ChainInv, RowInv, NEW m \in Msgs, NEW sent \in 0..MaxSecond, NEW top \in BOOLEAN,
         Store(m, sent, top), UNCHANGED <<kind, now, window, rendered, fetches>>,
         send' \in [Sends -> SendType]
  PROVE  RowInv'
<1> DEFINE row == [m |-> m, at |-> now, sent |-> sent, top |-> top]
           R == [m : Msgs, at : 0..MaxSecond, sent : 0..MaxSecond, top : BOOLEAN]
<1>1. row \in R /\ row.m = m /\ history \in Seq(R) /\ history' = Append(history, row)
  BY DEF Store, RowInv, HistoryInv, HistoryType
<1>2. \A r \in Rows : history[r].m # m
  BY DEF Store, Stored
<1>3. \A r, q \in Rows : history[r].m = history[q].m => r = q
  BY DEF RowInv, HistoryInv
<1> HIDE DEF row, R
<1>4. /\ history' \in Seq(R) /\ Len(history) \in Nat
      /\ Rows = 1..Len(history) /\ Rows' = 1..(Len(history) + 1)
      /\ \A r \in Rows : history'[r] = history[r]
      /\ history'[Len(history) + 1] = row
  BY <1>1 DEF Rows
<1>5. \A r \in Rows' : r \in Rows \/ r = Len(history) + 1
  BY <1>4
<1>6. \A r, q \in Rows' : history'[r].m = history'[q].m => r = q
  BY <1>1, <1>2, <1>3, <1>4, <1>5
<1>7. HistoryInv'
  BY <1>4, <1>6 DEF HistoryInv, HistoryType, R, Rows
<1>8. UNCHANGED <<pages, overlay, cached, messages, poll, older, orphans>>
  BY DEF window, rendered, fetches
<1>9. PageRows(pages) \subseteq Rows
  BY WindowInHistory DEF RowInv
<1>10. Apart(pages, overlay)'
  <2>1. \A r \in PageRows(pages) : HistoryEvent(r)' = HistoryEvent(r)
    BY <1>4, <1>9 DEF HistoryEvent, Event
  <2>2. PageEvents(pages)' = PageEvents(pages)
    BY <1>8, <2>1 DEF PageEvents, PageRows
  <2> QED
    BY <1>8, <2>2 DEF Apart, RowInv
<1>11. SoundEvents(overlay)' /\ SoundRows(messages)' /\ SoundRows(poll.prev)'
  BY <1>8 DEF RowInv, SoundEvents, SoundRows, WindowEvents, RenderedRows, PendingRow, IdOfMessage, OneRow, KeyUnique, Msg
<1> QED
  BY <1>7, <1>8, <1>10, <1>11 DEF RowInv, SendType

-----------------------------------------------------------------------------
(* The invariant.                                                          *)

\* No fetch.
LEMMA NoFetchType == NoFetch \in FetchType /\ NoFetch.prev = {}
BY DEF NoFetch, Fetch, FetchType, NoPage, NoRow, Page

\* A fetch.
LEMMA FetchOf ==
  ASSUME NEW at \in {"none", "asked", "answered"}, NEW prev \in SUBSET Events, NEW p \in Page
  PROVE  Fetch(at, prev, p) \in FetchType /\ Fetch(at, prev, p).prev = prev
BY DEF Fetch, FetchType

\* Sound rows are events.
LEMMA RowsAreEvents ==
  ASSUME NEW rows, SoundRows(rows) PROVE rows \in SUBSET Events
BY DEF SoundRows, RenderedRows

\* Every step keeps the invariant.
LEMMA NextRows == ChainInv /\ RowInv /\ [Next]_vars => RowInv'
<1> SUFFICES ASSUME ChainInv, RowInv, [Next]_vars PROVE RowInv'
  OBVIOUS
<1> USE DEF window, rendered, fetches
<1>1. /\ kind \in Kinds /\ now \in 0..MaxSecond /\ cached \in BOOLEAN
      /\ HistoryInv
      /\ SoundEvents(overlay) /\ Apart(pages, overlay)
      /\ SoundRows(messages) /\ SoundRows(poll.prev)
      /\ poll \in FetchType /\ older \in FetchType /\ orphans \subseteq FetchType
      /\ send \in [Sends -> SendType]
  BY DEF RowInv
<1>2. /\ MaxSecond \in Nat /\ Len(history) \in Nat
      /\ history \in Seq([m : Msgs, at : Int, sent : Int, top : BOOLEAN])
      /\ pages \in Seq(Page)
  BY TimelineAssumption DEF ChainInv
<1>3. SoundFetch(poll) /\ SoundFetch(older) /\ \A f \in orphans : SoundFetch(f)
  BY DEF ChainInv
<1>4. NoFetch \in FetchType /\ SoundRows(NoFetch.prev)
  BY NoFetchType, NoRows
<1>5. PageRows(pages) \subseteq Rows
  BY <1>1, WindowInHistory
<1>6. HistoryPage(NoRow) \in Page
  <2>1. NoRow \in 0..Len(history)
    BY <1>2 DEF NoRow
  <2> QED
    BY <1>2, <2>1, HistoryPageIsSound DEF SoundPage
<1>7. \A f \in FetchType : Answered(f) \in FetchType /\ Answered(f).prev = f.prev
  <2>1. \A f \in FetchType : f.prev \in SUBSET Events
    BY DEF FetchType
  <2> QED
    BY <1>6, <2>1, FetchOf DEF Answered
<1>10. CASE UNCHANGED vars
  BY <1>1, <1>10, RowsStep DEF vars
<1>11. CASE Tick
  <2>1. now' \in 0..MaxSecond
    BY <1>1, <1>2, <1>11 DEF Tick
  <2> QED
    BY <1>1, <1>11, <2>1, RowsStep DEF Tick
<1>12. ASSUME NEW m \in Peers, NEW delay \in 0..MaxSkew, NEW top \in BOOLEAN,
              delay <= now, PeerMessage(m, delay, top)
       PROVE  RowInv'
  <2>1. m \in Msgs /\ now - delay \in 0..MaxSecond
    BY <1>1, <1>2, <1>12, TimelineAssumption DEF Msgs
  <2>2. Store(m, now - delay, top) /\ UNCHANGED <<kind, now, window, rendered, fetches, send>>
    BY <1>12 DEF PeerMessage
  <2> QED
    BY <1>1, <2>1, <2>2, StoreRows
<1>13. ASSUME NEW r \in Rows, NEW id \in FrameIds, ChannelFrame(r, id) PROVE RowInv'
  <2>1. SoundEvents(overlay') /\ Apart(pages', overlay') /\ SoundRows(messages')
    BY <1>13, ProjectedWindow DEF Projects
  <2> QED
    BY <1>1, <1>13, <2>1, RowsStep DEF ChannelFrame
<1>14. ASSUME NEW r \in Rows, NEW id \in FrameIds, UpdateFrame(r, id) PROVE RowInv'
  <2>1. /\ FrameEvent(r, id) \in WindowEvents /\ ~FrameEvent(r, id).pending
        /\ Msg(FrameEvent(r, id)) = history[r].m
    BY <1>1, FrameEventOf
  <2>2. kind = "dm" => Msg(FrameEvent(r, id)) \notin Sends
    BY <1>14, <2>1 DEF UpdateFrame, Framed
  <2>3. SoundRows(MergeTimeline(messages, FrameEvent(r, id)))
    BY <1>1, <2>1, <2>2, MergeTimelineSound
  <2>4. SoundRows(messages')
    BY <1>14, <2>3 DEF UpdateFrame
  <2> QED
    BY <1>1, <1>14, <2>4, RowsStep DEF UpdateFrame
<1>15. CASE StartPoll
  <2>1. messages \in SUBSET Events /\ NoPage \in Page
    BY <1>1, RowsAreEvents DEF NoPage, NoRow, Page
  <2>2. poll' \in FetchType /\ poll'.prev = messages
    BY <1>15, <2>1, FetchOf DEF StartPoll
  <2> QED
    BY <1>1, <1>15, <2>2, RowsStep DEF StartPoll
<1>16. CASE AnswerPoll
  <2>1. poll' \in FetchType /\ poll'.prev = poll.prev
    BY <1>1, <1>7, <1>16 DEF AnswerPoll
  <2> QED
    BY <1>1, <1>16, <2>1, RowsStep DEF AnswerPoll
<1>17. CASE FinishPoll
  <2>1. SoundEvents(overlay') /\ Apart(pages', overlay') /\ SoundRows(messages')
    BY <1>17, ProjectedWindow DEF Projects
  <2> QED
    BY <1>1, <1>4, <1>17, <2>1, RowsStep DEF FinishPoll
<1>18. CASE FailPoll
  BY <1>1, <1>4, <1>18, RowsStep DEF FailPoll
<1>19. ASSUME NEW f \in orphans, AnswerOrphan(f) PROVE RowInv'
  <2>1. orphans' \subseteq FetchType
    BY <1>1, <1>7, <1>19 DEF AnswerOrphan
  <2> QED
    BY <1>1, <1>19, <2>1, RowsStep DEF AnswerOrphan
<1>20. ASSUME NEW f \in orphans, FinishOrphan(f) PROVE RowInv'
  <2>1. SoundPage(f.page)
    BY <1>3, <1>20 DEF FinishOrphan, SoundFetch
  <2>2. f.page \in Page
    BY <2>1 DEF SoundPage
  <2>3. \/ pages' = <<f.page>> /\ overlay' = overlay \ Superseded(f.page, overlay)
        \/ pages' = pages /\ overlay' = overlay
    BY <1>20 DEF FinishOrphan, ReplaceNewest
  <2>4. SoundEvents(overlay') /\ Apart(pages', overlay')
    BY <1>1, <2>2, <2>3, SupersededApart
  <2>5. /\ orphans' \subseteq FetchType
        /\ UNCHANGED <<kind, now, history, cached, messages, poll, older, send>>
    BY <1>1, <1>20 DEF FinishOrphan
  <2> QED
    BY <1>1, <2>4, <2>5, RowsStep
<1>21. CASE StartOlder
  <2>1. pages[Len(pages)].next \in 0..Len(history)
    <3>1. pages # <<>> /\ pages[Len(pages)] \in Page
      BY <1>2, <1>21 DEF StartOlder, HasMore
    <3>2. PICK high \in 0..Len(history) : pages[Len(pages)].next <= high
      BY <3>1 DEF ChainInv, Chain
    <3> QED
      BY <1>2, <3>1, <3>2 DEF Page
  <2>2. HistoryPage(pages[Len(pages)].next) \in Page
    BY <1>2, <2>1, HistoryPageIsSound DEF SoundPage
  <2>3. older' \in FetchType
    BY <1>21, <2>2, FetchOf DEF StartOlder
  <2> QED
    BY <1>1, <1>21, <2>3, RowsStep DEF StartOlder
<1>22. CASE FinishOlder
  <2>1. SoundEvents(overlay') /\ Apart(pages', overlay') /\ SoundRows(messages')
    BY <1>22, ProjectedWindow DEF Projects
  <2> QED
    BY <1>1, <1>4, <1>22, <2>1, RowsStep DEF FinishOlder
<1>23. CASE FailOlder
  BY <1>1, <1>4, <1>23, RowsStep DEF FailOlder
<1>24. ASSUME NEW s \in Sends, Mutate(s) PROVE RowInv'
  <2>1. SoundEvents(overlay') /\ Apart(pages', overlay') /\ SoundRows(messages')
    BY <1>24, ProjectedWindow DEF Projects
  <2>2. Fetch(poll.at, {}, poll.page) \in FetchType
    BY <1>1 DEF FetchType, Fetch
  <2>3. send' \in [Sends -> SendType]
    BY <1>1, <1>24 DEF Mutate, SendType
  <2> QED
    BY <1>1, <1>4, <1>24, <2>1, <2>2, <2>3, RowsStep DEF Mutate
<1>25. ASSUME NEW s \in Sends, StoreSend(s) PROVE RowInv'
  <2>1. s \in Msgs /\ Store(s, now, TRUE) /\ UNCHANGED <<kind, now, window, rendered, fetches>>
    BY <1>25 DEF StoreSend, Msgs
  <2>2. send' \in [Sends -> SendType]
    BY <1>1, <1>25 DEF StoreSend, SendType
  <2> QED
    BY <1>1, <2>1, <2>2, StoreRows
<1>26. ASSUME NEW s \in Sends, NEW id \in {"msg", "client"}, Acknowledge(s, id) PROVE RowInv'
  <2>1. SoundEvents(overlay') /\ Apart(pages', overlay') /\ SoundRows(messages')
    BY <1>26, ProjectedWindow DEF Projects
  <2>2. send' \in [Sends -> SendType]
    BY <1>1, <1>26 DEF Acknowledge, SendType
  <2> QED
    BY <1>1, <1>26, <2>1, <2>2, RowsStep DEF Acknowledge
<1>27. ASSUME NEW s \in Sends, Fail(s) PROVE RowInv'
  <2>1. /\ overlay' \in SUBSET overlay /\ messages' \in SUBSET messages
        /\ UNCHANGED <<kind, now, history, pages, cached, poll, orphans, older>>
    BY <1>27 DEF Fail
  <2>2. SoundEvents(overlay') /\ Apart(pages, overlay')
    BY <1>1, <2>1, FewerEvents
  <2>3. SoundRows(messages')
    BY <1>1, <2>1, FewerRows
  <2>4. send' \in [Sends -> SendType]
    BY <1>1, <1>27 DEF Fail, SendType
  <2> QED
    BY <1>1, <2>1, <2>2, <2>3, <2>4, RowsStep
<1> QED
  BY <1>10, <1>11, <1>12, <1>13, <1>14, <1>15, <1>16, <1>17, <1>18, <1>19, <1>20,
     <1>21, <1>22, <1>23, <1>24, <1>25, <1>26, <1>27 DEF Next

\* The empty window and the empty cache.
LEMMA InitRows == Init => RowInv
<1> SUFFICES ASSUME Init PROVE RowInv
  OBVIOUS
<1>1. /\ kind \in Kinds /\ now = 0 /\ history = <<>> /\ pages = <<>> /\ overlay = {}
      /\ cached = FALSE /\ messages = {} /\ orphans = {}
      /\ poll = NoFetch /\ older = NoFetch
      /\ send = [s \in Sends |-> IdleSend]
  BY DEF Init
<1>2. now \in 0..MaxSecond /\ 0 \in 0..MaxSecond
  BY <1>1, TimelineAssumption
<1>3. HistoryInv
  BY <1>1 DEF HistoryInv, HistoryType, Rows
<1>4. SoundEvents({}) /\ Apart(pages, {})
  BY FS_EmptySet DEF SoundEvents, KeyUnique, Apart
<1>5. send \in [Sends -> SendType]
  BY <1>1, <1>2 DEF IdleSend, SendType
<1> QED
  BY <1>1, <1>2, <1>3, <1>4, <1>5, NoFetchType, NoRows DEF RowInv

\* What the invariants imply.
LEMMA RowInvTypes == ChainInv /\ RowInv => TypeOK /\ OneRowPerMessage
<1> SUFFICES ASSUME ChainInv, RowInv PROVE TypeOK /\ OneRowPerMessage
  OBVIOUS
<1>1. overlay \subseteq Events /\ messages \subseteq Events
  BY RowsAreEvents DEF RowInv, SoundEvents, WindowEvents
<1>2. TypeOK
  BY <1>1 DEF TypeOK, RowInv, ChainInv, HistoryInv, HistoryType, SendType
<1>3. OneRowPerMessage
  BY DEF OneRowPerMessage, RowInv, SoundRows, OneRow
<1> QED
  BY <1>2, <1>3

\* Every variable of the open channel has its type: in particular every row of
\* the messages cache is an event of a message, whatever render key it took
\* (reconcileChannelWindowMessages).
THEOREM TimelineTypeInvariant == Spec => []TypeOK
<1>1. ChainInv /\ RowInv /\ [Next]_vars => (ChainInv /\ RowInv)'
  BY NextChain, NextRows
<1>2. Init => ChainInv /\ RowInv
  BY InitChain, InitRows
<1>3. ChainInv /\ RowInv => TypeOK
  BY RowInvTypes
<1> QED
  BY <1>1, <1>2, <1>3, PTL DEF Spec

\* No two rows share an id or a render key, and no message of another, nor a
\* direct one, has two rows that have left pending, for any number of messages,
\* polls, cancelled polls and older pages, and whether or not frames and
\* answers bear the daemon's id: an answer, two frames and a history row of one
\* message, in any order, end up as one row (replaceNewestChannelWindow,
\* mergeLiveChannelWindowEvent, reconcileIncomingMessage,
\* reconcileChannelWindowMessages).
THEOREM MessageShownOnce == Spec => []OneRowPerMessage
<1>1. ChainInv /\ RowInv /\ [Next]_vars => (ChainInv /\ RowInv)'
  BY NextChain, NextRows
<1>2. Init => ChainInv /\ RowInv
  BY InitChain, InitRows
<1>3. ChainInv /\ RowInv => OneRowPerMessage
  BY RowInvTypes
<1> QED
  BY <1>1, <1>2, <1>3, PTL DEF Spec

\* With a daemon whose frames and answers always bear the msgId, no message at
\* all is rendered twice, the user's own in a group included: a row that kept
\* an optimistic render key is then met by its id (liveMessageToRelayEvent,
\* mergeTimelineCacheMessages).
THEOREM CanonicalShownOnce ==
  ASSUME FrameIds \cup AnswerIds \subseteq {"msg"}
  PROVE  Spec => []NeverTwice
<1>1. ChainInv /\ RowInv /\ [Next]_vars => (ChainInv /\ RowInv)'
  BY NextChain, NextRows
<1>2. Init => ChainInv /\ RowInv
  BY InitChain, InitRows
<1>3. RowInv => NeverTwice
  <2> SUFFICES ASSUME RowInv, NEW e \in messages, NEW f \in messages,
                      Msg(e) = Msg(f), ~e.pending, ~f.pending
               PROVE  e = f
    BY DEF NeverTwice
  <2>1. e \in RenderedRows /\ f \in RenderedRows /\ OneRow(messages)
    BY DEF RowInv, SoundRows
  <2>2. CASE kind = "dm"
    BY <2>1, <2>2 DEF OneRow
  <2>3. CASE kind # "dm"
    <3>1. e.id = <<"msg", Msg(e)>> /\ f.id = <<"msg", Msg(f)>>
      BY <2>1, <2>3 DEF RenderedRows, IdOfMessage
    <3> QED
      BY <2>1, <3>1 DEF OneRow
  <2> QED
    BY <2>2, <2>3
<1> QED
  BY <1>1, <1>2, <1>3, PTL DEF Spec

\* Whatever ids frames and answers bear, a second row of the user's own group
\* message goes with the next step that projects the window: a poll's page, an
\* older page, a frame of the channel's subscription, a send or its answer
\* (reconcileChannelWindowMessages).
THEOREM ProjectionShowsOnce == Spec => [][Projects => NeverTwice']_vars
<1>1. ChainInv /\ RowInv /\ [Next]_vars => (ChainInv /\ RowInv)'
  BY NextChain, NextRows
<1>2. Init => ChainInv /\ RowInv
  BY InitChain, InitRows
<1>3. ChainInv /\ RowInv => [Projects => NeverTwice']_vars
  <2> SUFFICES ASSUME ChainInv, RowInv, Projects PROVE NeverTwice'
    OBVIOUS
  <2>1. Once(messages')
    BY ProjectedWindow
  <2> QED
    BY <2>1 DEF Once, NeverTwice, Msg
<1> QED
  BY <1>1, <1>2, <1>3, PTL DEF Spec
=============================================================================
